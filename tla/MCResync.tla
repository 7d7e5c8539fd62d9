------------------------------ MODULE MCResync ------------------------------
(***************************************************************************)
(* Instances of Resync with named participants.                            *)
(***************************************************************************)
EXTENDS Resync

CONSTANTS p1, p2, o1
=============================================================================
