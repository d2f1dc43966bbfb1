------------------------------ MODULE MCQueue -------------------------------
(* The instance of Queue for model checking: the constants are in Queue.cfg. *)
EXTENDS Queue
=============================================================================
