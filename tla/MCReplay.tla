------------------------------ MODULE MCReplay ------------------------------
(***************************************************************************)
(* An instance of Replay: a replay of two frames and a handful of          *)
(* operations of the user.                                                 *)
(***************************************************************************)
EXTENDS Replay
=============================================================================
