---------------------------- MODULE MCMacThreads ----------------------------
(* MacThreads for TLC: two users are enough for a row to move under the hands
   of the thread that fills it. *)
EXTENDS MacThreads
=============================================================================
