------------------------------ MODULE WorkQueue -----------------------------
(***************************************************************************)
(* What the queue of nea/src/queue.rs promises to the executor, without    *)
(* flag words, counters, condition variables or retry loops.               *)
(*                                                                         *)
(* Jobs are posted to buckets.  The thread that posts a new job owes the   *)
(* bucket an announcement.  A worker claims an announced bucket that       *)
(* nobody holds, takes jobs from it one at a time, and may give it up only *)
(* when it has not been announced again in the meantime.                   *)
(***************************************************************************)
CONSTANTS Workers, Threads, Buckets, Offsets

VARIABLES
  pending,    \* the jobs posted to each bucket and not yet taken
  owed,       \* the buckets each thread has still to announce
  announced,  \* the buckets a worker must visit
  holders     \* the workers that hold each bucket

vars == <<pending, owed, announced, holders>>

Init ==
  /\ pending = [b \in Buckets |-> {}]
  /\ owed = [t \in Threads |-> {}]
  /\ announced = {}
  /\ holders = [b \in Buckets |-> {}]

\* A job that is already pending is not posted twice: whoever posted it has
\* announced it or will.
Post(t, b, o) ==
  /\ o \notin pending[b]
  /\ owed[t] = {}
  /\ pending' = [pending EXCEPT ![b] = @ \cup {o}]
  /\ owed' = [owed EXCEPT ![t] = {b}]
  /\ UNCHANGED <<announced, holders>>

Announce(t, b) ==
  /\ b \in owed[t]
  /\ owed' = [owed EXCEPT ![t] = {}]
  /\ announced' = announced \cup {b}
  /\ UNCHANGED <<pending, holders>>

Claim(w, b) ==
  /\ b \in announced
  /\ holders[b] = {}
  /\ \A c \in Buckets : w \notin holders[c]
  /\ announced' = announced \ {b}
  /\ holders' = [holders EXCEPT ![b] = {w}]
  /\ UNCHANGED <<pending, owed>>

Take(w, b, o) ==
  /\ w \in holders[b]
  /\ o \in pending[b]
  /\ pending' = [pending EXCEPT ![b] = @ \ {o}]
  /\ UNCHANGED <<owed, announced, holders>>

\* The bucket was announced while it was held: its holder runs it again.
Again(w, b) ==
  /\ w \in holders[b]
  /\ b \in announced
  /\ announced' = announced \ {b}
  /\ UNCHANGED <<pending, owed, holders>>

Release(w, b) ==
  /\ w \in holders[b]
  /\ b \notin announced
  /\ holders' = [holders EXCEPT ![b] = {}]
  /\ UNCHANGED <<pending, owed, announced>>

Next ==
  \/ \E t \in Threads, b \in Buckets :
       Announce(t, b) \/ \E o \in Offsets : Post(t, b, o)
  \/ \E w \in Workers, b \in Buckets :
       \/ Claim(w, b) \/ Again(w, b) \/ Release(w, b)
       \/ \E o \in Offsets : Take(w, b, o)

Spec == Init /\ [][Next]_vars
=============================================================================
