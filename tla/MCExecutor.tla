----------------------------- MODULE MCExecutor -----------------------------
(* Model-checking instances of Executor. *)
EXTENDS ExecutorInv, TLC

\* Workers are interchangeable, and so are the clients.
Symmetry == Permutations(Workers) \cup Permutations(Requests)
=============================================================================
