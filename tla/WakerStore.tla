----------------------------- MODULE WakerStore -----------------------------
(***************************************************************************)
(* What the reactor (nea/src/reactor.rs) promises the executor about       *)
(* wakers: a task leaves its waker with a source, an event takes it from   *)
(* there, and a waker that was taken is called.  A source that is dropped  *)
(* takes the waker with it, but not one that was taken before: such a      *)
(* waker is called after its task has ended.                               *)
(*                                                                         *)
(* The two directions of a source are not told apart.  A task that waits   *)
(* in one direction at a time has at most one waker with its source, so    *)
(* one event takes it; one that may wait in both (Concurrent) can have a   *)
(* second one.                                                             *)
(***************************************************************************)

CONSTANTS Tasks, Concurrent

VARIABLES
  interest,     \* tasks with a waker in their source
  wakers        \* tasks with a waker that was taken and is still to be called

vars == <<interest, wakers>>

Init == interest = {} /\ wakers = {}

\* What may be left of a task's wakers when one of them is gone.
Rest(set, i) == {set \ {i}} \cup (IF i \in Concurrent THEN {set} ELSE {})

\* poll_io returns Poll::Pending.
Leave(i) ==
  /\ interest' = interest \cup {i}
  /\ UNCHANGED wakers

\* The reactor's thread handles an event.
Take(i) ==
  /\ i \in interest
  /\ interest' \in Rest(interest, i)
  /\ wakers' = wakers \cup {i}

\* waker.wake()
Call(i) ==
  /\ i \in wakers
  /\ wakers' \in Rest(wakers, i)
  /\ UNCHANGED interest

\* Streams are dropped, or their sources replaced.
Drop(gone) ==
  /\ interest' = interest \ gone
  /\ UNCHANGED wakers

Next ==
  \/ \E i \in Tasks : Leave(i) \/ Take(i) \/ Call(i)
  \/ \E gone \in SUBSET Tasks : Drop(gone)

Spec == Init /\ [][Next]_vars
=============================================================================
