----------------------------- MODULE MCAllocator ----------------------------
(* Model-checking instances of Allocator. *)
EXTENDS Allocator

\* A block that is smaller than its alignment, one that may not fit although
\* there is memory left, and one whose alignment is refused.
SmallLayouts ==
  {[size |-> 1, align |-> 2], [size |-> 2, align |-> 1], [size |-> 1, align |-> 4]}

\* Layouts that are supported, and that each fit in an arena that is not used.
FittingLayouts == {[size |-> 1, align |-> 2], [size |-> 2, align |-> 1]}
=============================================================================
