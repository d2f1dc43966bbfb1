----------------------------- MODULE MCReactor ------------------------------
(* Model-checking instances of Reactor. *)
EXTENDS Reactor, TLC

\* Ordinary futures are interchangeable.
Symmetry == Permutations(Indices \ Concurrent)
=============================================================================
