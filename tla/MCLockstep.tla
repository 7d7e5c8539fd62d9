----------------------------- MODULE MCLockstep -----------------------------
(***************************************************************************)
(* Instances of Lockstep: a host and a client with a controller each, a   *)
(* client that plays two slots, and a single remote player whose inputs    *)
(* an observing host relays to an observing client.                        *)
(***************************************************************************)
EXTENDS Lockstep

CONSTANTS host, c1, c2

MCSlots == {0, 1}
OneSlotEach == [s \in MCSlots |-> IF s = 0 THEN host ELSE c1]
OneSlot == {0}
BothAtClient == [s \in MCSlots |-> c1]
OnePlayer == [s \in OneSlot |-> c1]
=============================================================================
