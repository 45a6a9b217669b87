------------------------------- MODULE MCJobs -------------------------------
(***************************************************************************)
(* Jobs for TLC: two jobs of every mixture in which they can meet, with    *)
(* room for one (a claimed job waits) or both (two executions at once).    *)
(***************************************************************************)
EXTENDS Jobs

TwoJobs == 1..2
Attempts == [derived |-> 2, sim |-> 2, cfd |-> 1]
Mixed(kinds, room) == {[kind |-> kinds, capacity |-> room, punctual |-> p] : p \in BOOLEAN}
Mixtures ==
  Mixed(<<"derived", "sim">>, 1) \cup Mixed(<<"derived", "cfd">>, 2)
=============================================================================
