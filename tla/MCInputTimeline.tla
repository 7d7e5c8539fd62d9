-------------------------- MODULE MCInputTimeline --------------------------
(***************************************************************************)
(* A timeline of four keys that is resized between 0 and 3 entries and     *)
(* links at most MaxNodes nodes, so that overwrites, evictions, cuts and   *)
(* shrinks follow each other in every order.                               *)
(***************************************************************************)
EXTENDS InputTimeline

MCFrames == 0..1
MCCapacities == 0..3
=============================================================================
