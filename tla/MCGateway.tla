------------------------------ MODULE MCGateway ------------------------------
(* The gateway alone, fed by a network that may hand it a payload again for *)
(* as long as the gateway runs.                                             *)
EXTENDS Gateway

CONSTANTS
  Ids,       \* commands
  Lifetime,  \* at most this long from claim to expiry
  MaxTime,   \* bound: the clock
  MaxBatches \* bound: answers delivered

VARIABLES wire, batches

env == <<wire, batches>>
all == <<now, gateway, env>>

MCInit == GatewayInit /\ now = 0 /\ wire = {} /\ batches = 0

(* The server signs one payload per command.                                *)
Sign ==
  \E i \in Ids, s \in Points, life \in 1..Lifetime :
    /\ \A p \in wire : p.id # i
    /\ \A j \in DOMAIN field : field[j].id # i
    /\ wire' = wire \cup {[id |-> i, claim |-> 1, sensor |-> s, exp |-> now + life, at |-> now]}
    /\ UNCHANGED <<now, gateway, batches>>

Deliver ==
  /\ batches < MaxBatches
  /\ \E batch \in SUBSET wire \ {{}} : Receive(batch)
  /\ batches' = batches + 1
  /\ UNCHANGED <<now, wire>>

(* The connections of a dead process are gone, and their payloads with them.*)
Die == Restart /\ wire' = {} /\ UNCHANGED <<now, batches>>

Pass == now < MaxTime /\ now' = now + 1 /\ UNCHANGED <<gateway, env>>

Work == Commander /\ UNCHANGED <<now, env>>

MCNext == Sign \/ Deliver \/ Die \/ Pass \/ Work

MCSpec == MCInit /\ [][MCNext]_all
=============================================================================
