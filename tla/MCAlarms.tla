------------------------------ MODULE MCAlarms ------------------------------
(***************************************************************************)
(* Alarms for TLC: sensors of several kinds, each in circumstances of its  *)
(* own.                                                                    *)
(***************************************************************************)
EXTENDS Alarms

Bounds(ll, l, h, hh, roc) == [ll |-> ll, l |-> l, h |-> h, hh |-> hh, roc |-> roc]

Plain == [values |-> {0, 2, 3, 5}, limits |-> {Bounds(None, None, 2, 4, None)}, deadband |-> 1, deviation |-> FALSE, onDelay |-> 2,
          offDelay |-> 1, condition |-> FALSE, overlap |-> FALSE, engineer |-> FALSE, requests |-> 3]

Low == [Plain EXCEPT !.onDelay = 1, !.values = {1, 3, 5}, !.limits = {Bounds(2, 4, None, None, None)}, !.offDelay = 0]
Fast == [Plain EXCEPT !.values = {0, 3, 5}, !.limits = {Bounds(None, 0, 4, None, 2)}, !.onDelay = 0]
Deviating == [Plain EXCEPT !.onDelay = 1, !.values = {0, 3}, !.deviation = TRUE, !.condition = TRUE, !.offDelay = 0]
Overlapping == [Plain EXCEPT !.onDelay = 1, !.values = {0, 3}, !.limits = {Bounds(None, None, 2, None, None)}, !.overlap = TRUE, !.requests = 1]
Edited == [Plain EXCEPT !.onDelay = 1, !.values = {0, 3}, !.limits = {Bounds(None, None, 2, None, None), Bounds(None, None, None, None, None)},
                        !.condition = TRUE, !.engineer = TRUE]

Sensors == {Plain, Low, Fast, Deviating, Overlapping, Edited}
JustEdited == {Edited}
=============================================================================
