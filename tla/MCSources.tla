------------------------------ MODULE MCSources ------------------------------
(***************************************************************************)
(* Sources for TLC.                                                        *)
(***************************************************************************)
EXTENDS Sources

CONSTANTS analog, discrete, off, on

TwoTags == {analog, discrete}

OneDiscrete == {discrete}

Bits == {off, on}

(* The settings in which everything but EventsKept holds; see README.       *)
Sound == ({"poll", "opcua", "iec104"} \X {FALSE}) \cup {<<"iec104", TRUE>>}

OpcUa == {<<"opcua", TRUE>>}
=============================================================================
