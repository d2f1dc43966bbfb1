----------------------------- MODULE QueueProofs ----------------------------
(***************************************************************************)
(* Proofs about Queue, for any number of workers, callers, buckets and     *)
(* queue indices per bucket.                                               *)
(***************************************************************************)
EXTENDS Queue, FiniteSetTheorems, TLAPS

----------------------------------------------------------------------------
(* Facts about the constants. *)

\* Every label of the program is a label.
LEMMA LabelFacts ==
  /\ "idle" \in Labels /\ "panicked" \in Labels
  /\ "increment" \in Labels /\ "mark" \in Labels
  /\ "notify" \in Labels /\ "revert" \in Labels
  /\ "wait" \in Labels /\ "asleep" \in Labels /\ "scan" \in Labels
  /\ "picked" \in Labels /\ "load" \in Labels /\ "take" \in Labels
  /\ "poll" \in Labels /\ "go_again" \in Labels /\ "release" \in Labels
  BY DEF Labels, EnqueueLabels, WorkerLabels

\* Workers are threads, and the first bucket and offset exist.
LEMMA SetFacts ==
  /\ Workers \subseteq Threads
  /\ 0 \in Buckets
  /\ 0 \in Offsets
  /\ \A b \in Buckets : b \in Nat
  BY QueueAssumption DEF Threads, Buckets, Offsets

\* What the operations of queue.rs do to a flag word.
LEMMA FlagFacts ==
  /\ {0, ENQUEUED_BIT, IN_PROGRESS_BIT} \subseteq FlagWords
  /\ IsInProgress(IN_PROGRESS_BIT) /\ ~IsEnqueued(IN_PROGRESS_BIT)
  /\ IsInProgress(BOTH_BITS) /\ IsEnqueued(BOTH_BITS)
  /\ IsEnqueued(ENQUEUED_BIT) /\ ~IsInProgress(ENQUEUED_BIT)
  /\ ~IsEnqueued(0) /\ ~IsInProgress(0)
  /\ \A word \in FlagWords :
       /\ WithEnqueued(word) \in FlagWords
       /\ IsEnqueued(WithEnqueued(word))
       /\ IsInProgress(WithEnqueued(word)) <=> IsInProgress(word)
       /\ word = 0 \/ IsEnqueued(word) \/ IsInProgress(word)
       /\ word # 0 => WithEnqueued(word) = ENQUEUED_BIT <=> word = ENQUEUED_BIT
       /\ IsInProgress(word) => word = IN_PROGRESS_BIT \/ word = BOTH_BITS
       /\ IsEnqueued(word) => word = ENQUEUED_BIT \/ word = BOTH_BITS
  /\ WithEnqueued(0) = ENQUEUED_BIT
  /\ WithEnqueued(BOTH_BITS) = BOTH_BITS
  BY DEF FlagWords, WithEnqueued, IsEnqueued, IsInProgress,
         ENQUEUED_BIT, IN_PROGRESS_BIT, BOTH_BITS

----------------------------------------------------------------------------
(* Facts about cardinalities. *)

\* A set grows by one with a new element.
LEMMA CardAdd ==
  ASSUME NEW S, NEW x, IsFiniteSet(S), x \notin S
  PROVE  Cardinality(S) \in Nat /\ Cardinality(S \cup {x}) = Cardinality(S) + 1
  BY FS_AddElement, FS_CardinalityType

\* A set shrinks by one without one of its elements.
LEMMA CardRemove ==
  ASSUME NEW S, NEW x \in S, IsFiniteSet(S)
  PROVE  /\ Cardinality(S) \in Nat \ {0}
         /\ Cardinality(S \ {x}) = Cardinality(S) - 1
<1>1. Cardinality(S \ {x}) = Cardinality(S) - 1 /\ IsFiniteSet(S \ {x})
  BY FS_RemoveElement
<1>2. Cardinality(S) \in Nat /\ Cardinality(S) # 0
  BY FS_CardinalityType, FS_EmptySet
<1>3. QED
  BY <1>1, <1>2

\* Threads and buckets are finite, and not more than the count can hold.
LEMMA FiniteFacts ==
  /\ IsFiniteSet(Threads) /\ IsFiniteSet(Workers) /\ IsFiniteSet(Buckets)
  /\ Cardinality(Threads) \in Nat
  /\ Cardinality(Buckets) = bucket_count
  /\ Cardinality(Threads) + bucket_count <= U32_MAX
<1>1. IsFiniteSet(Buckets) /\ Cardinality(Buckets) = bucket_count
  BY FS_Interval, QueueAssumption DEF Buckets
<1>2. /\ IsFiniteSet(Threads)
      /\ Cardinality(Threads) = Cardinality(Workers) + Cardinality(Callers)
                                  - Cardinality(Workers \cap Callers)
  BY FS_Union, QueueAssumption DEF Threads
<1>3. Cardinality(Workers \cap Callers) = 0
  BY FS_EmptySet, QueueAssumption
<1>4. Cardinality(Workers) \in Nat /\ Cardinality(Callers) \in Nat
  BY FS_CardinalityType, QueueAssumption
<1>5. QED
  BY <1>1, <1>2, <1>3, <1>4, QueueAssumption

\* So are the sets the invariants count.
LEMMA CountedSetsFinite ==
  /\ IsFiniteSet(Waiting) /\ Cardinality(Waiting) \in Nat
  /\ Cardinality(Waiting) <= bucket_count
  /\ IsFiniteSet(Counting) /\ Cardinality(Counting) \in Nat
  /\ IsFiniteSet(Searching) /\ Cardinality(Searching) \in Nat
  /\ IsFiniteSet(Notifying) /\ Cardinality(Notifying) \in Nat
<1>1. Waiting \subseteq Buckets /\ Counting \subseteq Threads
      /\ Searching \subseteq Workers /\ Notifying \subseteq Threads
  BY DEF Waiting, Counting, Searching, Notifying
<1>2. QED
  BY <1>1, FiniteFacts, FS_Subset, FS_CardinalityType

----------------------------------------------------------------------------
(* Type correctness. *)

\* Init establishes the type invariant.
LEMMA TypeInit == Init => TypeOK
  BY QueueAssumption, LabelFacts, SetFacts, FlagFacts DEF Init, TypeOK

\* Every step preserves the type invariant.
LEMMA TypeNext == TypeOK /\ [Next]_vars => TypeOK'
<1> SUFFICES ASSUME TypeOK, [Next]_vars PROVE TypeOK'
  OBVIOUS
<1> USE QueueAssumption, LabelFacts, SetFacts, FlagFacts DEF TypeOK
<1>1. ASSUME NEW t \in Threads, NEW b \in Buckets, NEW o \in Offsets, Enqueue(t, b, o)
      PROVE  TypeOK'
  BY <1>1 DEF Enqueue, Goto
<1>2. ASSUME NEW t \in Threads, Increment(t) PROVE TypeOK'
  BY <1>2 DEF Increment, Goto
<1>3. ASSUME NEW t \in Threads, Mark(t) PROVE TypeOK'
  BY <1>3 DEF Mark, MadeAvailable, Goto
<1>4. ASSUME NEW t \in Threads, Notify(t) PROVE TypeOK'
  BY <1>4 DEF Notify, Goto, Resting, Forget
<1>5. ASSUME NEW t \in Threads, Revert(t) PROVE TypeOK'
  BY <1>5 DEF Revert, DecrementTo, Goto, Resting, Forget
<1>6. ASSUME NEW w \in Workers, WaitActive(w) PROVE TypeOK'
  BY <1>6 DEF WaitActive, Goto
<1>7. ASSUME NEW w \in Workers, SpuriousWakeup(w) PROVE TypeOK'
  BY <1>7 DEF SpuriousWakeup, Goto
<1>8. ASSUME NEW w \in Workers, TryProcess(w) PROVE TypeOK'
  BY <1>8 DEF TryProcess, Claimable, Goto, Forget
<1>9. ASSUME NEW w \in Workers, Picked(w) PROVE TypeOK'
  BY <1>9 DEF Picked, DecrementTo, Goto
<1>10. ASSUME NEW w \in Workers, Load(w) PROVE TypeOK'
  BY <1>10 DEF Load, NextJob, ReturnFromBucket, Goto
<1>11. ASSUME NEW w \in Workers, Take(w) PROVE TypeOK'
  BY <1>11 DEF Take, Goto, Forget
<1>12. ASSUME NEW w \in Workers, Continue(w) PROVE TypeOK'
  BY <1>12 DEF Continue, Goto
<1>13. ASSUME NEW w \in Workers, Finish(w) PROVE TypeOK'
  BY <1>13 DEF Finish, ReturnFromBucket, Goto
<1>14. ASSUME NEW w \in Workers, GoAgain(w) PROVE TypeOK'
  BY <1>14 DEF GoAgain, ReturnFromDone, Goto, Forget
<1>15. ASSUME NEW w \in Workers, Release(w) PROVE TypeOK'
  BY <1>15 DEF Release, Releasable, ReturnFromDone, Goto, Forget
<1>16. CASE UNCHANGED vars
  BY <1>16 DEF vars
<1>17. QED
  BY <1>1, <1>2, <1>3, <1>4, <1>5, <1>6, <1>7, <1>8, <1>9, <1>10, <1>11, <1>12,
     <1>13, <1>14, <1>15, <1>16 DEF Next, EnqueueSome, HelperStep, WorkerStep

\* The queue's variables keep their types: in particular the flag word is
\* always one of its four values and the count stays within a u32.
THEOREM QueueTypeCorrect == Spec => []TypeOK
  BY TypeInit, TypeNext, PTL DEF Spec
----------------------------------------------------------------------------
(* The lock of a bucket. *)

\* The parts of the invariant that make IN_PROGRESS a lock.
LockInv ==
  Roles /\ HeldIsInProgress /\ OneWorkerPerBucket /\ RetryFindsBoth /\ TakeFindsJob

\* Every step that starts in the invariant keeps IN_PROGRESS a lock.
LEMMA LockNext == QueueInv /\ [Next]_vars => LockInv'
<1> SUFFICES ASSUME QueueInv, [Next]_vars PROVE LockInv'
  OBVIOUS
<1> USE SetFacts, FlagFacts
    DEF QueueInv, TypeOK, LockInv, Roles, NoPanic, HeldIsInProgress, OneWorkerPerBucket,
        RetryFindsBoth, TakeFindsJob, Running, EnqueueLabels, WorkerLabels
<1>0. Workers \cap Callers = {} /\ Threads = Workers \cup Callers
  BY QueueAssumption DEF Threads
<1>1. ASSUME NEW t \in Threads, NEW b \in Buckets, NEW o \in Offsets, Enqueue(t, b, o)
      PROVE  LockInv'
  BY <1>0, <1>1 DEF Enqueue, Goto, Resting
<1>2. ASSUME NEW t \in Threads, Increment(t) PROVE LockInv'
  BY <1>0, <1>2 DEF Increment, Goto
<1>3. ASSUME NEW t \in Threads, Mark(t) PROVE LockInv'
  BY <1>0, <1>3 DEF Mark, MadeAvailable, Goto
<1>4. ASSUME NEW t \in Threads, Notify(t) PROVE LockInv'
  <2>1. CASE {w \in Workers : pc[w] = "asleep"} = {}
    BY <1>0, <1>4, <2>1 DEF Notify, Goto, Resting
  <2>2. ASSUME NEW w \in Workers, pc[w] = "asleep",
               pc' = [pc EXCEPT ![t] = Resting(t), ![w] = "wait"]
        PROVE  LockInv'
    BY <1>0, <1>4, <2>2 DEF Notify, Resting
  <2>3. QED
    BY <1>4, <2>1, <2>2 DEF Notify
<1>5. ASSUME NEW t \in Threads, Revert(t) PROVE LockInv'
  BY <1>0, <1>5 DEF Revert, DecrementTo, Goto, Resting
<1>6. ASSUME NEW w \in Workers, WaitActive(w) PROVE LockInv'
  BY <1>0, <1>6 DEF WaitActive, Goto
<1>7. ASSUME NEW w \in Workers, SpuriousWakeup(w) PROVE LockInv'
  BY <1>0, <1>7 DEF SpuriousWakeup, Goto
<1>8. ASSUME NEW w \in Workers, TryProcess(w) PROVE LockInv'
  BY <1>0, <1>8 DEF TryProcess, Claimable, Goto, Forget
<1>9. ASSUME NEW w \in Workers, Picked(w) PROVE LockInv'
  BY <1>0, <1>9 DEF Picked, DecrementTo, Goto
<1>10. ASSUME NEW w \in Workers, Load(w) PROVE LockInv'
  BY <1>0, <1>10 DEF Load, NextJob, ReturnFromBucket, Goto
<1>11. ASSUME NEW w \in Workers, Take(w) PROVE LockInv'
  BY <1>0, <1>11 DEF Take, Goto, Forget
<1>12. ASSUME NEW w \in Workers, Continue(w) PROVE LockInv'
  BY <1>0, <1>12 DEF Continue, Goto
<1>13. ASSUME NEW w \in Workers, Finish(w) PROVE LockInv'
  BY <1>0, <1>13 DEF Finish, ReturnFromBucket, Goto
<1>14. ASSUME NEW w \in Workers, GoAgain(w) PROVE LockInv'
  BY <1>0, <1>14 DEF GoAgain, ReturnFromDone, Goto, Forget
<1>15. ASSUME NEW w \in Workers, Release(w) PROVE LockInv'
  <2>1. CASE flags[slot[w]] = IN_PROGRESS_BIT
    <3>1. /\ pc' = [pc EXCEPT ![w] = "wait"] /\ pc[w] = "release"
          /\ flags' = [flags EXCEPT ![slot[w]] = 0] /\ slot' = [slot EXCEPT ![w] = 0]
          /\ attempt' = [attempt EXCEPT ![w] = 0] /\ UNCHANGED <<jobs, offset>>
      BY <1>15, <2>1 DEF Release, Releasable, ReturnFromDone, Goto, Forget
    <3>2. Roles' /\ OneWorkerPerBucket' /\ TakeFindsJob'
      BY <1>0, <3>1
    <3>3. HeldIsInProgress' /\ RetryFindsBoth'
      BY <3>1
    <3>4. QED
      BY <3>2, <3>3
  <2>2. CASE flags[slot[w]] # IN_PROGRESS_BIT
    <3>1. /\ pc' = [pc EXCEPT ![w] = "go_again"] /\ pc[w] = "release"
          /\ UNCHANGED <<flags, slot, jobs, offset>>
          /\ attempt' = [attempt EXCEPT ![w] = 2]
      BY <1>15, <2>2 DEF Release, Releasable, ROUNDS, Goto
    <3>2. flags[slot[w]] = BOTH_BITS
      BY <2>2, <3>1
    <3>3. QED
      BY <1>0, <3>1, <3>2
  <2>3. QED
    BY <2>1, <2>2
<1>16. CASE UNCHANGED vars
  BY <1>16 DEF vars
<1>17. QED
  BY <1>1, <1>2, <1>3, <1>4, <1>5, <1>6, <1>7, <1>8, <1>9, <1>10, <1>11, <1>12,
     <1>13, <1>14, <1>15, <1>16 DEF Next, EnqueueSome, HelperStep, WorkerStep

----------------------------------------------------------------------------
(* The count of waiting buckets. *)

\* A step that leaves the count and the counted sets alone keeps it exact.
LEMMA CountStutter ==
  ASSUME CountExact, active' = active, Waiting' = Waiting, Counting' = Counting
  PROVE  CountExact'
  BY DEF CountExact

\* The count leaves room for one more whenever a thread is about to add one.
LEMMA RoomToIncrement ==
  ASSUME QueueInv, NEW t \in Threads, pc[t] = "increment"
  PROVE  active \in Nat /\ active # U32_MAX
<1>1. Counting \subseteq Threads \ {t}
  BY DEF Counting
<1>2. Cardinality(Counting) <= Cardinality(Threads \ {t})
  BY <1>1, FiniteFacts, FS_RemoveElement, FS_Subset
<1>3. Cardinality(Threads \ {t}) = Cardinality(Threads) - 1
  BY FiniteFacts, CardRemove
<1>4. QED
  BY <1>2, <1>3, CountedSetsFinite, FiniteFacts, QueueAssumption
     DEF QueueInv, CountExact

\* A thread that is about to subtract from the count has counted.
LEMMA RoomToDecrement ==
  ASSUME QueueInv, NEW t \in Counting
  PROVE  active \in Nat /\ active # 0
<1>1. Cardinality(Counting) \in Nat \ {0}
  BY CardRemove, CountedSetsFinite
<1>2. QED
  BY <1>1, CountedSetsFinite DEF QueueInv, CountExact

\* No step of queue.rs panics.
LEMMA PanicNext == QueueInv /\ [Next]_vars => NoPanic'
<1> SUFFICES ASSUME QueueInv, [Next]_vars PROVE NoPanic'
  OBVIOUS
<1> USE SetFacts DEF QueueInv, TypeOK, NoPanic
<1>1. ASSUME NEW t \in Threads, NEW b \in Buckets, NEW o \in Offsets, Enqueue(t, b, o)
      PROVE  NoPanic'
  BY <1>1 DEF Enqueue, Goto
<1>2. ASSUME NEW t \in Threads, Increment(t) PROVE NoPanic'
  BY <1>2, RoomToIncrement DEF Increment, Goto
<1>3. ASSUME NEW t \in Threads, Mark(t) PROVE NoPanic'
  BY <1>3 DEF Mark, MadeAvailable, Goto
<1>4. ASSUME NEW t \in Threads, Notify(t) PROVE NoPanic'
  BY <1>4 DEF Notify, Goto, Resting
<1>5. ASSUME NEW t \in Threads, Revert(t) PROVE NoPanic'
  BY <1>5, RoomToDecrement DEF Revert, DecrementTo, Goto, Resting, Counting
<1>6. ASSUME NEW w \in Workers, WaitActive(w) PROVE NoPanic'
  BY <1>6 DEF WaitActive, Goto
<1>7. ASSUME NEW w \in Workers, SpuriousWakeup(w) PROVE NoPanic'
  BY <1>7 DEF SpuriousWakeup, Goto
<1>8. ASSUME NEW w \in Workers, TryProcess(w) PROVE NoPanic'
  BY <1>8 DEF TryProcess, Claimable, Goto
<1>9. ASSUME NEW w \in Workers, Picked(w) PROVE NoPanic'
  BY <1>9, RoomToDecrement DEF Picked, DecrementTo, Goto, Counting
<1>10. ASSUME NEW w \in Workers, Load(w) PROVE NoPanic'
  BY <1>10 DEF Load, NextJob, ReturnFromBucket, Goto
<1>11. ASSUME NEW w \in Workers, Take(w) PROVE NoPanic'
  BY <1>11 DEF Take, Goto
<1>12. ASSUME NEW w \in Workers, Continue(w) PROVE NoPanic'
  BY <1>12 DEF Continue, Goto
<1>13. ASSUME NEW w \in Workers, Finish(w) PROVE NoPanic'
  BY <1>13 DEF Finish, ReturnFromBucket, Goto
<1>14. ASSUME NEW w \in Workers, GoAgain(w) PROVE NoPanic'
  \* The holder of a bucket finds it in progress.
  <2>1. flags[slot[w]] = IN_PROGRESS_BIT \/ flags[slot[w]] = BOTH_BITS
    BY <1>14, FlagFacts DEF GoAgain, HeldIsInProgress, Running
  <2>2. QED
    BY <1>14, <2>1 DEF GoAgain, ReturnFromDone, Goto
<1>15. ASSUME NEW w \in Workers, Release(w) PROVE NoPanic'
  \* The second compare_exchange is only ever tried in the first round.
  BY <1>15 DEF Release, Releasable, ROUNDS, ReturnFromDone, Goto, RetryFindsBoth
<1>16. CASE UNCHANGED vars
  BY <1>16 DEF vars
<1>17. QED
  BY <1>1, <1>2, <1>3, <1>4, <1>5, <1>6, <1>7, <1>8, <1>9, <1>10, <1>11, <1>12,
     <1>13, <1>14, <1>15, <1>16 DEF Next, EnqueueSome, HelperStep, WorkerStep

\* Every step keeps the count exact.
LEMMA CountNext == QueueInv /\ [Next]_vars => CountExact'
<1> SUFFICES ASSUME QueueInv, [Next]_vars PROVE CountExact'
  OBVIOUS
<1> USE SetFacts DEF QueueInv, TypeOK
<1>1. ASSUME NEW t \in Threads, NEW b \in Buckets, NEW o \in Offsets, Enqueue(t, b, o)
      PROVE  CountExact'
  BY <1>1, CountStutter DEF Enqueue, Goto, Resting, Waiting, Counting
<1>2. ASSUME NEW t \in Threads, Increment(t) PROVE CountExact'
  <2>1. active # U32_MAX /\ active' = active + 1
    BY <1>2, RoomToIncrement DEF Increment
  <2>2. t \notin Counting /\ Counting' = Counting \cup {t} /\ Waiting' = Waiting
    BY <1>2, <2>1 DEF Increment, Goto, Counting, Waiting
  <2>3. QED
    BY <2>1, <2>2, CardAdd, CountedSetsFinite DEF CountExact
<1>3. ASSUME NEW t \in Threads, Mark(t) PROVE CountExact'
  <2> DEFINE b == target[t]
  <2>1. CASE flags[b] = 0
    <3>1. t \in Counting /\ Counting' = Counting \ {t}
      BY <1>3, <2>1, FlagFacts DEF Mark, MadeAvailable, Goto, Counting
    <3>2. b \notin Waiting /\ Waiting' = Waiting \cup {b}
      BY <1>3, <2>1, FlagFacts DEF Mark, MadeAvailable, Waiting, ENQUEUED_BIT
    <3>3. active' = active
      BY <1>3 DEF Mark
    <3>4. Cardinality(Waiting') = Cardinality(Waiting) + 1
      BY <3>2, CardAdd, CountedSetsFinite
    <3>5. Cardinality(Counting') = Cardinality(Counting) - 1
      BY <3>1, CardRemove, CountedSetsFinite
    <3>6. QED
      BY <3>3, <3>4, <3>5, CountedSetsFinite DEF CountExact
  <2>2. CASE flags[b] # 0
    <3>1. Counting' = Counting
      BY <1>3, <2>2, FlagFacts DEF Mark, MadeAvailable, Goto, Counting
    <3>2. Waiting' = Waiting
      BY <1>3, <2>2, FlagFacts DEF Mark, MadeAvailable, Waiting
    <3>3. QED
      BY <1>3, <3>1, <3>2, CountStutter DEF Mark
  <2>3. QED
    BY <2>1, <2>2
<1>4. ASSUME NEW t \in Threads, Notify(t) PROVE CountExact'
  <2>1. Counting' = Counting
    BY <1>4 DEF Notify, Goto, Resting, Counting
  <2>2. QED
    BY <1>4, <2>1, CountStutter DEF Notify, Waiting
<1>5. ASSUME NEW t \in Threads, Revert(t) PROVE CountExact'
  <2>1. t \in Counting
    BY <1>5 DEF Revert, Counting
  <2>2. active # 0 /\ active' = active - 1 /\ pc' = [pc EXCEPT ![t] = Resting(t)]
    BY <1>5, <2>1, RoomToDecrement DEF Revert, DecrementTo, Goto
  <2>3. Counting' = Counting \ {t} /\ Waiting' = Waiting
    BY <1>5, <2>2 DEF Revert, Resting, Counting, Waiting
  <2>4. QED
    BY <2>1, <2>2, <2>3, CardRemove, CountedSetsFinite DEF CountExact
<1>6. ASSUME NEW w \in Workers, WaitActive(w) PROVE CountExact'
  BY <1>6, CountStutter DEF WaitActive, Goto, Waiting, Counting
<1>7. ASSUME NEW w \in Workers, SpuriousWakeup(w) PROVE CountExact'
  BY <1>7, CountStutter DEF SpuriousWakeup, Goto, Waiting, Counting
<1>8. ASSUME NEW w \in Workers, TryProcess(w) PROVE CountExact'
  <2> DEFINE b == slot[w]
  <2>1. CASE flags[b] = ENQUEUED_BIT
    <3>1. b \in Waiting /\ Waiting' = Waiting \ {b}
      BY <1>8, <2>1, FlagFacts DEF TryProcess, Claimable, Waiting
    <3>2. w \notin Counting /\ Counting' = Counting \cup {w}
      BY <1>8, <2>1 DEF TryProcess, Claimable, Goto, Counting
    <3>3. active' = active
      BY <1>8 DEF TryProcess
    <3>4. Cardinality(Waiting') = Cardinality(Waiting) - 1
      BY <3>1, CardRemove, CountedSetsFinite
    <3>5. Cardinality(Counting') = Cardinality(Counting) + 1
      BY <3>2, CardAdd, CountedSetsFinite
    <3>6. QED
      BY <3>3, <3>4, <3>5, CountedSetsFinite DEF CountExact
  <2>2. CASE flags[b] # ENQUEUED_BIT
    BY <1>8, <2>2, CountStutter DEF TryProcess, Claimable, Goto, Waiting, Counting
  <2>3. QED
    BY <2>1, <2>2
<1>9. ASSUME NEW w \in Workers, Picked(w) PROVE CountExact'
  <2>1. w \in Counting
    BY <1>9 DEF Picked, Counting
  <2>2. active # 0 /\ active' = active - 1 /\ pc' = [pc EXCEPT ![w] = "load"]
    BY <1>9, <2>1, RoomToDecrement DEF Picked, DecrementTo, Goto
  <2>3. Counting' = Counting \ {w} /\ Waiting' = Waiting
    BY <1>9, <2>2 DEF Picked, Counting, Waiting
  <2>4. QED
    BY <2>1, <2>2, <2>3, CardRemove, CountedSetsFinite DEF CountExact
<1>10. ASSUME NEW w \in Workers, Load(w) PROVE CountExact'
  BY <1>10, CountStutter DEF Load, NextJob, ReturnFromBucket, Goto, Waiting, Counting
<1>11. ASSUME NEW w \in Workers, Take(w) PROVE CountExact'
  BY <1>11, CountStutter DEF Take, Goto, Waiting, Counting
<1>12. ASSUME NEW w \in Workers, Continue(w) PROVE CountExact'
  BY <1>12, CountStutter DEF Continue, Goto, Waiting, Counting
<1>13. ASSUME NEW w \in Workers, Finish(w) PROVE CountExact'
  BY <1>13, CountStutter DEF Finish, ReturnFromBucket, Goto, Waiting, Counting
<1>14. ASSUME NEW w \in Workers, GoAgain(w) PROVE CountExact'
  <2>1. Waiting' = Waiting
    BY <1>14, FlagFacts DEF GoAgain, Waiting
  <2>2. QED
    BY <1>14, <2>1, CountStutter DEF GoAgain, ReturnFromDone, Goto, Counting
<1>15. ASSUME NEW w \in Workers, Release(w) PROVE CountExact'
  <2>1. Waiting' = Waiting
    BY <1>15, FlagFacts DEF Release, Releasable, Waiting
  <2>2. QED
    BY <1>15, <2>1, CountStutter DEF Release, Releasable, ReturnFromDone, Goto, Counting
<1>16. CASE UNCHANGED vars
  BY <1>16, CountStutter DEF vars, Waiting, Counting
<1>17. QED
  BY <1>1, <1>2, <1>3, <1>4, <1>5, <1>6, <1>7, <1>8, <1>9, <1>10, <1>11, <1>12,
     <1>13, <1>14, <1>15, <1>16 DEF Next, EnqueueSome, HelperStep, WorkerStep

----------------------------------------------------------------------------
(* No job is left behind. *)

\* Every step keeps somebody on the way to the job of a request's future.
LEMMA InputJobNext == QueueInv /\ [Next]_vars => InputJobNeverStranded'
<1> SUFFICES ASSUME QueueInv, [Next]_vars, NoPanic',
                    NEW c \in Buckets, INPUT_STREAM \in jobs'[c]
             PROVE  (\/ IsEnqueued(flags[c])
                     \/ BeingEnqueued(c)
                     \/ AboutToLoad(c)
                     \/ \E w \in Workers :
                          pc[w] = "take" /\ slot[w] = c /\ offset[w] = INPUT_STREAM)'
  BY PanicNext DEF InputJobNeverStranded
<1> DEFINE Attended ==
             \/ IsEnqueued(flags[c])
             \/ BeingEnqueued(c)
             \/ AboutToLoad(c)
             \/ \E w \in Workers :
                  pc[w] = "take" /\ slot[w] = c /\ offset[w] = INPUT_STREAM
<1>0. INPUT_STREAM \in jobs[c] => Attended
  BY DEF QueueInv, InputJobNeverStranded
<1> USE SetFacts, FlagFacts DEF QueueInv, TypeOK, BeingEnqueued, AboutToLoad
<1>1. ASSUME NEW t \in Threads, NEW b \in Buckets, NEW o \in Offsets, Enqueue(t, b, o)
      PROVE  Attended'
  BY <1>0, <1>1 DEF Enqueue, Goto, Resting
<1>2. ASSUME NEW t \in Threads, Increment(t) PROVE Attended'
  BY <1>0, <1>2 DEF Increment, Goto, NoPanic
<1>3. ASSUME NEW t \in Threads, Mark(t) PROVE Attended'
  BY <1>0, <1>3 DEF Mark, MadeAvailable, Goto
<1>4. ASSUME NEW t \in Threads, Notify(t) PROVE Attended'
  BY <1>0, <1>4 DEF Notify, Goto, Resting, Forget
<1>5. ASSUME NEW t \in Threads, Revert(t) PROVE Attended'
  BY <1>0, <1>5 DEF Revert, DecrementTo, Goto, Resting, Forget
<1>6. ASSUME NEW w \in Workers, WaitActive(w) PROVE Attended'
  BY <1>0, <1>6 DEF WaitActive, Goto
<1>7. ASSUME NEW w \in Workers, SpuriousWakeup(w) PROVE Attended'
  BY <1>0, <1>7 DEF SpuriousWakeup, Goto
<1>8. ASSUME NEW w \in Workers, TryProcess(w) PROVE Attended'
  BY <1>0, <1>8 DEF TryProcess, Claimable, Goto, Forget
<1>9. ASSUME NEW w \in Workers, Picked(w) PROVE Attended'
  BY <1>0, <1>9 DEF Picked, DecrementTo, Goto, NoPanic
<1>10. ASSUME NEW w \in Workers, Load(w) PROVE Attended'
  \* The lowest bit is the input stream's whenever that bit is set.
  <2>1. CASE slot[w] # c
    BY <1>0, <1>10, <2>1 DEF Load, NextJob, ReturnFromBucket, Goto
  <2>2. CASE slot[w] = c
    <3>1. PICK o \in jobs[c] : /\ \A p \in jobs[c] : o <= p
                               /\ offset' = [offset EXCEPT ![w] = o]
                               /\ Goto(w, "take")
      BY <1>10, <2>2 DEF Load, NextJob
    <3>2. o = INPUT_STREAM
      BY <1>10, <3>1 DEF Load, NextJob, Offsets, INPUT_STREAM
    <3>3. QED
      BY <1>10, <2>2, <3>1, <3>2 DEF Load, NextJob, Goto
  <2>3. QED
    BY <2>1, <2>2
<1>11. ASSUME NEW w \in Workers, Take(w) PROVE Attended'
  BY <1>0, <1>11 DEF Take, Goto, Forget, OneWorkerPerBucket, Running
<1>12. ASSUME NEW w \in Workers, Continue(w) PROVE Attended'
  BY <1>0, <1>12 DEF Continue, Goto
<1>13. ASSUME NEW w \in Workers, Finish(w) PROVE Attended'
  BY <1>0, <1>13 DEF Finish, ReturnFromBucket, Goto
<1>14. ASSUME NEW w \in Workers, GoAgain(w) PROVE Attended'
  BY <1>0, <1>14 DEF GoAgain, ReturnFromDone, Goto, Forget
<1>15. ASSUME NEW w \in Workers, Release(w) PROVE Attended'
  BY <1>0, <1>15 DEF Release, Releasable, ReturnFromDone, Goto, Forget
<1>16. CASE UNCHANGED vars
  BY <1>0, <1>16 DEF vars
<1>17. QED
  BY <1>1, <1>2, <1>3, <1>4, <1>5, <1>6, <1>7, <1>8, <1>9, <1>10, <1>11, <1>12,
     <1>13, <1>14, <1>15, <1>16 DEF Next, EnqueueSome, HelperStep, WorkerStep

\* Every step keeps a bucket whose run ended with nothing left to do either
\* empty or about to be announced.
LEMMA ForNowNext == QueueInv /\ [Next]_vars => ForNowMissesNothing'
<1> SUFFICES ASSUME QueueInv, [Next]_vars, NoPanic', NEW v \in Workers,
                    pc'[v] \in {"go_again", "release"}, verdict'[v] = "ForNow"
             PROVE  (\/ jobs[slot[v]] = {}
                     \/ IsEnqueued(flags[slot[v]])
                     \/ BeingEnqueued(slot[v]))'
  BY PanicNext DEF ForNowMissesNothing
<1> DEFINE Seen == \/ jobs[slot[v]] = {}
                   \/ IsEnqueued(flags[slot[v]])
                   \/ BeingEnqueued(slot[v])
<1>0. pc[v] \in {"go_again", "release"} /\ verdict[v] = "ForNow" => Seen
  BY DEF QueueInv, ForNowMissesNothing
<1> USE SetFacts, FlagFacts DEF QueueInv, TypeOK, BeingEnqueued
<1>1. ASSUME NEW t \in Threads, NEW b \in Buckets, NEW o \in Offsets, Enqueue(t, b, o)
      PROVE  Seen'
  BY <1>0, <1>1 DEF Enqueue, Goto, Resting
<1>2. ASSUME NEW t \in Threads, Increment(t) PROVE Seen'
  BY <1>0, <1>2 DEF Increment, Goto, NoPanic
<1>3. ASSUME NEW t \in Threads, Mark(t) PROVE Seen'
  BY <1>0, <1>3 DEF Mark, MadeAvailable, Goto
<1>4. ASSUME NEW t \in Threads, Notify(t) PROVE Seen'
  BY <1>0, <1>4 DEF Notify, Goto, Resting, Forget
<1>5. ASSUME NEW t \in Threads, Revert(t) PROVE Seen'
  BY <1>0, <1>5 DEF Revert, DecrementTo, Goto, Resting, Forget
<1>6. ASSUME NEW w \in Workers, WaitActive(w) PROVE Seen'
  BY <1>0, <1>6 DEF WaitActive, Goto
<1>7. ASSUME NEW w \in Workers, SpuriousWakeup(w) PROVE Seen'
  BY <1>0, <1>7 DEF SpuriousWakeup, Goto
<1>8. ASSUME NEW w \in Workers, TryProcess(w) PROVE Seen'
  BY <1>0, <1>8 DEF TryProcess, Claimable, Goto, Forget, HeldIsInProgress, Running
<1>9. ASSUME NEW w \in Workers, Picked(w) PROVE Seen'
  BY <1>0, <1>9 DEF Picked, DecrementTo, Goto
<1>10. ASSUME NEW w \in Workers, Load(w) PROVE Seen'
  BY <1>0, <1>10 DEF Load, NextJob, ReturnFromBucket, Goto
<1>11. ASSUME NEW w \in Workers, Take(w) PROVE Seen'
  BY <1>0, <1>11 DEF Take, Goto, Forget
<1>12. ASSUME NEW w \in Workers, Continue(w) PROVE Seen'
  BY <1>0, <1>12 DEF Continue, Goto
<1>13. ASSUME NEW w \in Workers, Finish(w) PROVE Seen'
  BY <1>0, <1>13 DEF Finish, ReturnFromBucket, Goto
<1>14. ASSUME NEW w \in Workers, GoAgain(w) PROVE Seen'
  BY <1>0, <1>14 DEF GoAgain, ReturnFromDone, Goto, Forget, OneWorkerPerBucket, Running
<1>15. ASSUME NEW w \in Workers, Release(w) PROVE Seen'
  BY <1>0, <1>15 DEF Release, Releasable, ReturnFromDone, Goto, Forget
<1>16. CASE UNCHANGED vars
  BY <1>0, <1>16 DEF vars
<1>17. QED
  BY <1>1, <1>2, <1>3, <1>4, <1>5, <1>6, <1>7, <1>8, <1>9, <1>10, <1>11, <1>12,
     <1>13, <1>14, <1>15, <1>16 DEF Next, EnqueueSome, HelperStep, WorkerStep

----------------------------------------------------------------------------
(* No worker sleeps while a bucket needs it. *)

\* A step that neither adds a waiting bucket nor takes a searcher or a
\* notification away keeps the queue work conserving, if nobody falls asleep.
LEMMA ConservingStutter ==
  ASSUME WorkConserving, Asleep' # {} => Asleep # {},
         Waiting' = Waiting, Searching' = Searching, Notifying' = Notifying
  PROVE  WorkConserving'
  BY DEF WorkConserving

\* One more searcher does no harm.
LEMMA ConservingSearcher ==
  ASSUME WorkConserving, Asleep' # {} => Asleep # {},
         Waiting' = Waiting, Notifying' = Notifying,
         NEW w, w \notin Searching, Searching' = Searching \cup {w}
  PROVE  WorkConserving'
<1>1. Cardinality(Searching') = Cardinality(Searching) + 1
  BY CardAdd, CountedSetsFinite
<1>2. QED
  BY <1>1, CountedSetsFinite DEF WorkConserving

\* Every step keeps the queue work conserving.
LEMMA ConservingNext == QueueInv /\ [Next]_vars => WorkConserving'
<1> SUFFICES ASSUME QueueInv, [Next]_vars PROVE WorkConserving'
  OBVIOUS
<1> USE SetFacts DEF QueueInv, TypeOK
<1>1. ASSUME NEW t \in Threads, NEW b \in Buckets, NEW o \in Offsets, Enqueue(t, b, o)
      PROVE  WorkConserving'
  BY <1>1, ConservingStutter
     DEF Enqueue, Goto, Resting, Waiting, Searching, Notifying, Asleep
<1>2. ASSUME NEW t \in Threads, Increment(t) PROVE WorkConserving'
  BY <1>2, ConservingStutter DEF Increment, Goto, Waiting, Searching, Notifying, Asleep
<1>3. ASSUME NEW t \in Threads, Mark(t) PROVE WorkConserving'
  <2> DEFINE b == target[t]
  <2>0. Searching' = Searching /\ Asleep' = Asleep
    BY <1>3 DEF Mark, MadeAvailable, Goto, Searching, Asleep
  <2>1. CASE flags[b] = 0
    <3>1. t \notin Notifying /\ Notifying' = Notifying \cup {t}
      BY <1>3, <2>1, FlagFacts DEF Mark, MadeAvailable, Goto, Notifying
    <3>2. b \notin Waiting /\ Waiting' = Waiting \cup {b}
      BY <1>3, <2>1, FlagFacts DEF Mark, MadeAvailable, Waiting, ENQUEUED_BIT
    <3>3. Cardinality(Notifying') = Cardinality(Notifying) + 1
      BY <3>1, CardAdd, CountedSetsFinite
    <3>4. Cardinality(Waiting') = Cardinality(Waiting) + 1
      BY <3>2, CardAdd, CountedSetsFinite
    <3>5. QED
      BY <2>0, <3>3, <3>4, CountedSetsFinite DEF WorkConserving
  <2>2. CASE flags[b] # 0
    <3>1. Notifying' = Notifying
      BY <1>3, <2>2, FlagFacts DEF Mark, MadeAvailable, Goto, Notifying
    <3>2. Waiting' = Waiting
      BY <1>3, <2>2, FlagFacts DEF Mark, MadeAvailable, Waiting
    <3>3. QED
      BY <2>0, <3>1, <3>2, ConservingStutter
  <2>3. QED
    BY <2>1, <2>2
<1>4. ASSUME NEW t \in Threads, Notify(t) PROVE WorkConserving'
  <2>1. CASE {w \in Workers : pc[w] = "asleep"} = {}
    \* The notification is lost, and nobody needed it.
    <3>1. Asleep' = {}
      BY <1>4, <2>1 DEF Notify, Goto, Resting, Asleep
    <3>2. QED
      BY <3>1 DEF WorkConserving
  <2>2. ASSUME NEW w \in Workers, pc[w] = "asleep",
               pc' = [pc EXCEPT ![t] = Resting(t), ![w] = "wait"]
        PROVE  WorkConserving'
    \* The notification becomes a searching worker.
    <3>1. t \in Notifying /\ Notifying' = Notifying \ {t}
      BY <1>4, <2>2 DEF Notify, Resting, Notifying
    <3>2. w \notin Searching /\ Searching' = Searching \cup {w}
      BY <1>4, <2>2 DEF Notify, Resting, Searching
    <3>3. Waiting' = Waiting /\ Asleep # {}
      BY <1>4, <2>2 DEF Notify, Waiting, Asleep
    <3>4. /\ Cardinality(Notifying) \in Nat \ {0}
          /\ Cardinality(Notifying') = Cardinality(Notifying) - 1
      BY <3>1, CardRemove, CountedSetsFinite
    <3>5. Cardinality(Searching') = Cardinality(Searching) + 1
      BY <3>2, CardAdd, CountedSetsFinite
    <3>6. QED
      BY <3>3, <3>4, <3>5, CountedSetsFinite DEF WorkConserving
  <2>3. QED
    BY <1>4, <2>1, <2>2 DEF Notify
<1>5. ASSUME NEW t \in Threads, Revert(t) PROVE WorkConserving'
  BY <1>5, ConservingStutter
     DEF Revert, DecrementTo, Goto, Resting, Waiting, Searching, Notifying, Asleep
<1>6. ASSUME NEW w \in Workers, WaitActive(w) PROVE WorkConserving'
  <2>1. CASE active = 0
    \* The count is exact, so no bucket waits when a worker falls asleep.
    <3>1. Cardinality(Waiting) = 0
      BY <2>1, CountedSetsFinite DEF CountExact
    <3>2. Cardinality(Waiting') = 0 /\ Notifying' = Notifying
      BY <1>6, <3>1 DEF WaitActive, Goto, Waiting, Notifying
    <3>3. Searching' = Searching \ {w} /\ w \in Searching
      BY <1>6, <2>1 DEF WaitActive, Goto, Searching
    <3>4. Cardinality(Searching') \in Nat
      BY <3>3, CardRemove, CountedSetsFinite
    <3>5. QED
      BY <3>2, <3>4, CountedSetsFinite DEF WorkConserving
  <2>2. CASE active # 0
    BY <1>6, <2>2, ConservingStutter
       DEF WaitActive, Goto, Waiting, Searching, Notifying, Asleep
  <2>3. QED
    BY <2>1, <2>2
<1>7. ASSUME NEW w \in Workers, SpuriousWakeup(w) PROVE WorkConserving'
  <2>1. /\ w \notin Searching /\ Searching' = Searching \cup {w} /\ Asleep # {}
        /\ Waiting' = Waiting /\ Notifying' = Notifying
    BY <1>7 DEF SpuriousWakeup, Goto, Searching, Asleep, Waiting, Notifying
  <2>2. QED
    BY <2>1, ConservingSearcher
<1>8. ASSUME NEW w \in Workers, TryProcess(w) PROVE WorkConserving'
  <2> DEFINE b == slot[w]
  <2>0. Notifying' = Notifying /\ Asleep' = Asleep
    BY <1>8 DEF TryProcess, Claimable, Goto, Notifying, Asleep
  <2>1. CASE flags[b] = ENQUEUED_BIT
    <3>1. b \in Waiting /\ Waiting' = Waiting \ {b}
      BY <1>8, <2>1, FlagFacts DEF TryProcess, Claimable, Waiting
    <3>2. w \in Searching /\ Searching' = Searching \ {w}
      BY <1>8, <2>1 DEF TryProcess, Claimable, Goto, Searching
    <3>3. Cardinality(Waiting') = Cardinality(Waiting) - 1
      BY <3>1, CardRemove, CountedSetsFinite
    <3>4. Cardinality(Searching') = Cardinality(Searching) - 1
      BY <3>2, CardRemove, CountedSetsFinite
    <3>5. QED
      BY <2>0, <3>3, <3>4, CountedSetsFinite DEF WorkConserving
  <2>2. CASE flags[b] # ENQUEUED_BIT
    <3>1. Searching' = Searching /\ Waiting' = Waiting
      BY <1>8, <2>2 DEF TryProcess, Claimable, Goto, Searching, Waiting
    <3>2. QED
      BY <2>0, <3>1, ConservingStutter
  <2>3. QED
    BY <2>1, <2>2
<1>9. ASSUME NEW w \in Workers, Picked(w) PROVE WorkConserving'
  BY <1>9, ConservingStutter
     DEF Picked, DecrementTo, Goto, Waiting, Searching, Notifying, Asleep
<1>10. ASSUME NEW w \in Workers, Load(w) PROVE WorkConserving'
  BY <1>10, ConservingStutter
     DEF Load, NextJob, ReturnFromBucket, Goto, Waiting, Searching, Notifying, Asleep
<1>11. ASSUME NEW w \in Workers, Take(w) PROVE WorkConserving'
  BY <1>11, ConservingStutter DEF Take, Goto, Waiting, Searching, Notifying, Asleep
<1>12. ASSUME NEW w \in Workers, Continue(w) PROVE WorkConserving'
  BY <1>12, ConservingStutter DEF Continue, Goto, Waiting, Searching, Notifying, Asleep
<1>13. ASSUME NEW w \in Workers, Finish(w) PROVE WorkConserving'
  BY <1>13, ConservingStutter
     DEF Finish, ReturnFromBucket, Goto, Waiting, Searching, Notifying, Asleep
<1>14. ASSUME NEW w \in Workers, GoAgain(w) PROVE WorkConserving'
  <2>1. Waiting' = Waiting
    BY <1>14, FlagFacts DEF GoAgain, Waiting
  <2>2. QED
    BY <1>14, <2>1, ConservingStutter
       DEF GoAgain, ReturnFromDone, Goto, Searching, Notifying, Asleep
<1>15. ASSUME NEW w \in Workers, Release(w) PROVE WorkConserving'
  <2>1. Waiting' = Waiting /\ Asleep' = Asleep /\ Notifying' = Notifying
    BY <1>15, FlagFacts
       DEF Release, Releasable, ReturnFromDone, Goto, Waiting, Asleep, Notifying
  <2>2. CASE flags[slot[w]] = IN_PROGRESS_BIT
    <3>1. w \notin Searching /\ Searching' = Searching \cup {w}
      BY <1>15, <2>2 DEF Release, Releasable, ReturnFromDone, Goto, Searching
    <3>2. QED
      BY <2>1, <3>1, ConservingSearcher
  <2>3. CASE flags[slot[w]] # IN_PROGRESS_BIT
    <3>1. Searching' = Searching
      BY <1>15, <2>3 DEF Release, Releasable, ReturnFromDone, Goto, Searching
    <3>2. QED
      BY <2>1, <3>1, ConservingStutter
  <2>4. QED
    BY <2>2, <2>3
<1>16. CASE UNCHANGED vars
  BY <1>16, ConservingStutter DEF vars, Waiting, Searching, Notifying, Asleep
<1>17. QED
  BY <1>1, <1>2, <1>3, <1>4, <1>5, <1>6, <1>7, <1>8, <1>9, <1>10, <1>11, <1>12,
     <1>13, <1>14, <1>15, <1>16 DEF Next, EnqueueSome, HelperStep, WorkerStep

----------------------------------------------------------------------------
(* The invariant. *)

\* Init establishes the invariant.
LEMMA InvInit == Init => QueueInv
<1> SUFFICES ASSUME Init PROVE QueueInv
  OBVIOUS
<1> USE QueueAssumption, SetFacts, FlagFacts DEF Init
<1>1. Roles
  BY DEF Roles, WorkerLabels, Threads
<1>2. /\ NoPanic /\ HeldIsInProgress /\ OneWorkerPerBucket
      /\ RetryFindsBoth /\ TakeFindsJob
  BY DEF NoPanic, HeldIsInProgress, OneWorkerPerBucket, RetryFindsBoth, TakeFindsJob,
         Running, EnqueueLabels
<1>3. Waiting = {} /\ Counting = {} /\ Asleep = {}
  BY DEF Waiting, Counting, Asleep, ENQUEUED_BIT
<1>4. CountExact /\ WorkConserving
  BY <1>3, FS_EmptySet DEF CountExact, WorkConserving
<1>5. InputJobNeverStranded /\ ForNowMissesNothing
  BY DEF InputJobNeverStranded, ForNowMissesNothing
<1>6. QED
  BY <1>1, <1>2, <1>4, <1>5, TypeInit DEF QueueInv

\* Every step preserves it.
LEMMA InvNext == QueueInv /\ [Next]_vars => QueueInv'
  BY TypeNext, LockNext, PanicNext, CountNext, ConservingNext, InputJobNext, ForNowNext
     DEF QueueInv, LockInv

\* The invariant holds in every reachable state.
THEOREM QueueInvariant == Spec => []QueueInv
  BY InvInit, InvNext, PTL DEF Spec

\* No two workers ever run the same bucket.
THEOREM Exclusion == Spec => []OneWorkerPerBucket
<1>1. QueueInv => OneWorkerPerBucket
  BY DEF QueueInv
<1>2. QED
  BY <1>1, QueueInvariant, PTL

\* queue.rs never panics.
THEOREM NeverPanics == Spec => []NoPanic
<1>1. QueueInv => NoPanic
  BY DEF QueueInv
<1>2. QED
  BY <1>1, QueueInvariant, PTL

\* The queue is work conserving.
THEOREM WorkIsConserved == Spec => []WorkConserving
<1>1. QueueInv => WorkConserving
  BY DEF QueueInv
<1>2. QED
  BY <1>1, QueueInvariant, PTL

\* The job of a request's own future is never stranded.
THEOREM InputJobAttended == Spec => []InputJobNeverStranded
<1>1. QueueInv => InputJobNeverStranded
  BY DEF QueueInv
<1>2. QED
  BY <1>1, QueueInvariant, PTL

\* The count of waiting buckets is exact.
THEOREM CountIsExact == Spec => []CountExact
<1>1. QueueInv => CountExact
  BY DEF QueueInv
<1>2. QED
  BY <1>1, QueueInvariant, PTL

\* A bucket given up for now holds no job that nobody is about to announce.
THEOREM NoJobAbandoned == Spec => ReleaseAbandonsNoJob
<1>1. QueueInv /\ [Next]_vars =>
        [\A w \in Workers :
           pc[w] = "release" /\ pc'[w] = "wait" /\ verdict[w] = "ForNow"
             => jobs[slot[w]] = {} \/ BeingEnqueued(slot[w])]_vars
  <2> SUFFICES ASSUME QueueInv, Next, NEW w \in Workers,
                      pc[w] = "release", pc'[w] = "wait", verdict[w] = "ForNow"
               PROVE  jobs[slot[w]] = {} \/ BeingEnqueued(slot[w])
    OBVIOUS
  <2>1. Release(w)
    \* Any other step leaves the worker where it is.
    <3> USE SetFacts DEF QueueInv, TypeOK, Goto
    <3>1. ASSUME NEW t \in Threads, NEW b \in Buckets, NEW o \in Offsets,
                 Enqueue(t, b, o)
          PROVE  FALSE
      BY <3>1 DEF Enqueue, Resting
    <3>2. ASSUME NEW t \in Threads, HelperStep(t) PROVE FALSE
      BY <3>2
         DEF HelperStep, Increment, Mark, MadeAvailable, Notify, Revert, DecrementTo,
             Resting
    <3>3. ASSUME NEW v \in Workers, SpuriousWakeup(v) PROVE FALSE
      BY <3>3 DEF SpuriousWakeup
    <3>4. ASSUME NEW v \in Workers, WorkerStep(v), ~Release(w) PROVE FALSE
      BY <3>4
         DEF WorkerStep, WaitActive, TryProcess, Claimable, Picked, DecrementTo, Load,
             NextJob, Take, Continue, Finish, GoAgain, Release, Releasable,
             ReturnFromBucket, ReturnFromDone
    <3>5. QED
      BY <3>1, <3>2, <3>3, <3>4 DEF Next, EnqueueSome
  <2>2. ~IsEnqueued(flags[slot[w]])
    BY <2>1, FlagFacts DEF Release, Releasable, Goto, QueueInv, TypeOK
  <2>3. QED
    BY <2>2 DEF QueueInv, ForNowMissesNothing
<1>2. QED
  BY <1>1, QueueInvariant, PTL DEF Spec, ReleaseAbandonsNoJob

----------------------------------------------------------------------------
(* Refinement. *)

\* The initial states of the queue are initial states of the abstract queue.
LEMMA RefineInit == Init => WQ!Init
<1> SUFFICES ASSUME Init PROVE WQ!Init
  OBVIOUS
<1>1. Owed = [t \in Threads |-> {}]
  BY DEF Init, Owed
<1>2. Announced = {}
  BY FlagFacts DEF Init, Announced
<1>3. Holders = [b \in Buckets |-> {}]
  BY SetFacts DEF Init, Holders, Running, EnqueueLabels
<1>4. QED
  BY <1>1, <1>2, <1>3 DEF Init, WQ!Init

\* Every step of the queue is a step of the abstract queue, or none.
LEMMA RefineNext == QueueInv /\ [Next]_vars => [WQ!Next]_(WQ!vars)
<1> SUFFICES ASSUME QueueInv, [Next]_vars PROVE [WQ!Next]_(WQ!vars)
  OBVIOUS
<1> DEFINE Stutter ==
             /\ jobs' = jobs /\ Owed' = Owed
             /\ Announced' = Announced /\ Holders' = Holders
<1>0. Stutter => UNCHANGED WQ!vars
  BY DEF WQ!vars
<1> USE SetFacts DEF QueueInv, TypeOK
<1>1. ASSUME NEW t \in Threads, NEW b \in Buckets, NEW o \in Offsets, Enqueue(t, b, o)
      PROVE  Stutter \/ WQ!Post(t, b, o)
  <2>1. Announced' = Announced
    BY <1>1 DEF Enqueue, Announced
  <2>2. Holders' = Holders
    BY <1>1 DEF Enqueue, Goto, Resting, Holders, Running, EnqueueLabels
  <2>3. CASE o \in jobs[b]
    <3>1. jobs' = jobs /\ Owed' = Owed
      BY <1>1, <2>3 DEF Enqueue, Owed
    <3>2. QED
      BY <2>1, <2>2, <3>1
  <2>4. CASE o \notin jobs[b]
    <3>1. Owed[t] = {} /\ Owed' = [Owed EXCEPT ![t] = {b}]
      BY <1>1, <2>4 DEF Enqueue, Goto, Resting, Owed
    <3>2. QED
      BY <1>1, <2>1, <2>2, <2>4, <3>1 DEF Enqueue, WQ!Post
  <2>5. QED
    BY <2>3, <2>4
<1>2. ASSUME NEW t \in Threads, Increment(t) PROVE Stutter
  <2>1. active # U32_MAX
    BY <1>2, RoomToIncrement DEF Increment
  <2>2. QED
    BY <1>2, <2>1
       DEF Increment, Goto, Owed, Announced, Holders, Running, EnqueueLabels
<1>3. ASSUME NEW t \in Threads, Mark(t) PROVE WQ!Announce(t, target[t])
  <2>1. target[t] \in Owed[t] /\ Owed' = [Owed EXCEPT ![t] = {}]
    BY <1>3 DEF Mark, MadeAvailable, Goto, Owed
  <2>2. Announced' = Announced \cup {target[t]}
    BY <1>3, FlagFacts DEF Mark, MadeAvailable, Announced
  <2>3. Holders' = Holders
    BY <1>3 DEF Mark, MadeAvailable, Goto, Holders, Running, EnqueueLabels
  <2>4. QED
    BY <1>3, <2>1, <2>2, <2>3 DEF Mark, MadeAvailable, WQ!Announce
<1>4. ASSUME NEW t \in Threads, Notify(t) PROVE Stutter
  <2>1. Owed' = Owed
    BY <1>4 DEF Notify, Goto, Resting, Forget, Owed
  <2>2. Holders' = Holders
    BY <1>4 DEF Notify, Goto, Resting, Holders, Running, EnqueueLabels
  <2>3. QED
    BY <1>4, <2>1, <2>2 DEF Notify, Announced
<1>5. ASSUME NEW t \in Threads, Revert(t) PROVE Stutter
  <2>1. pc[t] = "revert" /\ pc' = [pc EXCEPT ![t] = Resting(t)]
    BY <1>5, RoomToDecrement DEF Revert, DecrementTo, Goto, Counting
  <2>2. Owed' = Owed
    BY <1>5, <2>1 DEF Revert, Resting, Forget, Owed
  <2>3. Holders' = Holders
    BY <1>5, <2>1 DEF Revert, Resting, Holders, Running, EnqueueLabels
  <2>4. QED
    BY <1>5, <2>2, <2>3 DEF Revert, Announced
<1>6. ASSUME NEW w \in Workers, WaitActive(w) PROVE Stutter
  BY <1>6 DEF WaitActive, Goto, Owed, Announced, Holders, Running, EnqueueLabels
<1>7. ASSUME NEW w \in Workers, SpuriousWakeup(w) PROVE Stutter
  BY <1>7 DEF SpuriousWakeup, Goto, Owed, Announced, Holders, Running, EnqueueLabels
<1>8. ASSUME NEW w \in Workers, TryProcess(w) PROVE Stutter \/ WQ!Claim(w, slot[w])
  <2>1. Owed' = Owed
    BY <1>8 DEF TryProcess, Claimable, Goto, Owed
  <2>2. CASE flags[slot[w]] = ENQUEUED_BIT
    <3>1. Announced' = Announced \ {slot[w]} /\ slot[w] \in Announced
      BY <1>8, <2>2, FlagFacts DEF TryProcess, Claimable, Announced
    <3>2. Holders[slot[w]] = {}
      BY <2>2, FlagFacts DEF Holders, HeldIsInProgress
    <3>3. \A c \in Buckets : w \notin Holders[c]
      BY <1>8 DEF TryProcess, Claimable, Holders, Running, EnqueueLabels
    <3>4. Holders' = [Holders EXCEPT ![slot[w]] = {w}]
      <4>1. pc' = [pc EXCEPT ![w] = "picked"] /\ slot' = slot /\ pc[w] = "scan"
        BY <1>8, <2>2 DEF TryProcess, Claimable, Goto
      <4>2. ASSUME NEW c \in Buckets
            PROVE  Holders'[c] = IF c = slot[w] THEN {w} ELSE Holders[c]
        <5>1. CASE c = slot[w]
          <6>1. \A v \in Workers : slot[v] = c => pc[v] \notin Running
            BY <3>2, <5>1 DEF Holders
          <6>2. \A v \in Workers : pc'[v] \in Running /\ slot'[v] = c <=> v = w
            BY <4>1, <5>1, <6>1 DEF Running
          <6>3. QED
            BY <5>1, <6>2 DEF Holders
        <5>2. CASE c # slot[w]
          BY <4>1, <5>2 DEF Holders
        <5>3. QED
          BY <5>1, <5>2
      <4>3. QED
        BY <4>2 DEF Holders
    <3>5. QED
      BY <1>8, <2>1, <3>1, <3>2, <3>3, <3>4 DEF TryProcess, Claimable, WQ!Claim
  <2>3. CASE flags[slot[w]] # ENQUEUED_BIT
    BY <1>8, <2>1, <2>3
       DEF TryProcess, Claimable, Goto, Forget, Announced, Holders, Running, EnqueueLabels
  <2>4. QED
    BY <2>2, <2>3
<1>9. ASSUME NEW w \in Workers, Picked(w) PROVE Stutter
  <2>1. active # 0
    BY <1>9, RoomToDecrement DEF Picked, Counting
  <2>2. QED
    BY <1>9, <2>1
       DEF Picked, DecrementTo, Goto, Owed, Announced, Holders, Running, EnqueueLabels
<1>10. ASSUME NEW w \in Workers, Load(w) PROVE Stutter
  BY <1>10 DEF Load, NextJob, ReturnFromBucket, Goto, Owed, Announced, Holders, Running,
               EnqueueLabels
<1>11. ASSUME NEW w \in Workers, Take(w) PROVE WQ!Take(w, slot[w], offset[w])
  <2>1. w \in Holders[slot[w]] /\ offset[w] \in jobs[slot[w]]
    BY <1>11 DEF Take, Holders, Running, TakeFindsJob
  <2>2. Owed' = Owed /\ Announced' = Announced /\ Holders' = Holders
    BY <1>11 DEF Take, Goto, Owed, Announced, Holders, Running, EnqueueLabels
  <2>3. QED
    BY <1>11, <2>1, <2>2 DEF Take, WQ!Take
<1>12. ASSUME NEW w \in Workers, Continue(w) PROVE Stutter
  BY <1>12 DEF Continue, Goto, Owed, Announced, Holders, Running, EnqueueLabels
<1>13. ASSUME NEW w \in Workers, Finish(w) PROVE Stutter
  BY <1>13 DEF Finish, ReturnFromBucket, Goto, Owed, Announced, Holders, Running,
               EnqueueLabels
<1>14. ASSUME NEW w \in Workers, GoAgain(w) PROVE Stutter \/ WQ!Again(w, slot[w])
  <2>1. flags[slot[w]] = IN_PROGRESS_BIT \/ flags[slot[w]] = BOTH_BITS
    BY <1>14, FlagFacts DEF GoAgain, HeldIsInProgress, Running
  <2>2. Owed' = Owed /\ Holders' = Holders
    BY <1>14, <2>1
       DEF GoAgain, ReturnFromDone, Goto, Owed, Holders, Running, EnqueueLabels
  <2>3. CASE flags[slot[w]] = BOTH_BITS
    <3>1. slot[w] \in Announced /\ Announced' = Announced \ {slot[w]}
      BY <1>14, <2>3, FlagFacts DEF GoAgain, Announced
    <3>2. w \in Holders[slot[w]]
      BY <1>14 DEF GoAgain, Holders, Running
    <3>3. QED
      BY <1>14, <2>2, <3>1, <3>2 DEF GoAgain, WQ!Again
  <2>4. CASE flags[slot[w]] # BOTH_BITS
    BY <1>14, <2>2, <2>4 DEF GoAgain, Announced
  <2>5. QED
    BY <2>3, <2>4
<1>15. ASSUME NEW w \in Workers, Release(w) PROVE Stutter \/ WQ!Release(w, slot[w])
  <2>1. Owed' = Owed
    BY <1>15 DEF Release, Releasable, ReturnFromDone, Goto, Owed
  <2>2. CASE flags[slot[w]] = IN_PROGRESS_BIT
    <3>1. slot[w] \notin Announced /\ Announced' = Announced
      BY <1>15, <2>2, FlagFacts DEF Release, Releasable, Announced
    <3>2. w \in Holders[slot[w]]
      BY <1>15 DEF Release, Releasable, Holders, Running
    <3>3. Holders' = [Holders EXCEPT ![slot[w]] = {}]
      <4>1. /\ pc' = [pc EXCEPT ![w] = "wait"] /\ pc[w] = "release"
            /\ slot' = [slot EXCEPT ![w] = 0]
        BY <1>15, <2>2, FlagFacts DEF Release, Releasable, ReturnFromDone, Goto, Forget
      <4>2. ASSUME NEW c \in Buckets
            PROVE  Holders'[c] = IF c = slot[w] THEN {} ELSE Holders[c]
        BY <4>1 DEF Holders, Running, EnqueueLabels, OneWorkerPerBucket
      <4>3. QED
        BY <4>2 DEF Holders
    <3>4. QED
      BY <1>15, <2>1, <3>1, <3>2, <3>3 DEF Release, Releasable, WQ!Release
  <2>3. CASE flags[slot[w]] # IN_PROGRESS_BIT
    <3>1. Holders' = Holders
      BY <1>15, <2>3
         DEF Release, Releasable, ROUNDS, Goto, Holders, Running, EnqueueLabels,
             RetryFindsBoth
    <3>2. QED
      BY <1>15, <2>1, <2>3, <3>1 DEF Release, Releasable, Announced
  <2>4. QED
    BY <2>2, <2>3
<1>16. CASE UNCHANGED vars
  BY <1>16 DEF vars, Owed, Announced, Holders, WQ!vars
<1>17. QED
  BY <1>0, <1>1, <1>2, <1>3, <1>4, <1>5, <1>6, <1>7, <1>8, <1>9, <1>10, <1>11, <1>12,
     <1>13, <1>14, <1>15, <1>16 DEF Next, EnqueueSome, HelperStep, WorkerStep, WQ!Next

\* The queue of queue.rs implements the abstract work queue.
THEOREM QueueImplementsWorkQueue == Spec => ImplementsWorkQueue
  BY RefineInit, RefineNext, QueueInvariant, PTL DEF Spec, ImplementsWorkQueue, WQ!Spec
=============================================================================
