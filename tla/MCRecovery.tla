----------------------------- MODULE MCRecovery -----------------------------
(* One client, input delay 1, frames and counters scaled down. *)
EXTENDS Recovery
=============================================================================
