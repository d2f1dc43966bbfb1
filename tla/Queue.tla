------------------------------- MODULE Queue -------------------------------
(***************************************************************************)
(* The work queue of the executor (nea/src/queue.rs) together with the     *)
(* skeleton of the worker loop that drives it (run_worker and run_bucket   *)
(* in nea/src/executor.rs).                                                *)
(*                                                                         *)
(* Every bucket has a QueueSlot: a word of job bits, one per queue index   *)
(* of the bucket, and two flags.  A bucket whose only flag is ENQUEUED is  *)
(* waiting for a worker; IN_PROGRESS is the lock a worker holds while it   *)
(* runs the bucket.  A counter under a mutex and a condition variable let  *)
(* workers sleep while no bucket waits.                                    *)
(*                                                                         *)
(* One action is one atomic access of the code: an atomic read-modify-     *)
(* write, an atomic load, or a critical section of the counter's mutex.    *)
(* On x86-64, the only architecture nea supports, atomic read-modify-      *)
(* write instructions are full barriers, so the relaxed orderings of the   *)
(* source do not add behaviours to this interleaving.                      *)
(***************************************************************************)
EXTENDS Naturals, FiniteSets

CONSTANTS
  Workers,        \* the nea-worker threads
  Callers,        \* the other threads that enqueue: main and nea-reactor
  bucket_count,   \* Config::bucket_count
  per_bucket,     \* IoResources::per_bucket(): queue indices of one bucket
  U32_MAX         \* largest value of the counter of enqueued buckets

Threads == Workers \cup Callers
Buckets == 0 .. bucket_count - 1
Offsets == 0 .. per_bucket - 1

\* Offset of the request's own future in its bucket (IoIndex::InputStream);
\* the other offsets belong to the http connections it opens.
INPUT_STREAM == 0

ASSUME QueueAssumption ==
  /\ IsFiniteSet(Workers)
  /\ IsFiniteSet(Callers)
  /\ Workers \cap Callers = {}
  /\ bucket_count \in Nat \ {0}
  /\ per_bucket \in 1 .. 64        \* the job bits of a slot are one u64
  /\ U32_MAX \in Nat
  /\ Cardinality(Workers) + Cardinality(Callers) + bucket_count <= U32_MAX

VARIABLES
  flags,    \* QueueSlot::flags of every bucket
  jobs,     \* QueueSlot::jobs of every bucket, as the set of its one bits
  active,   \* Refcount::active_mutex: how many buckets wait for a worker
  pc,       \* where each thread is
  target,   \* the bucket a thread is enqueueing (helper's bucket_index)
  slot,     \* the bucket a worker probes, and then the one it runs
  offset,   \* the job a worker read from the job bits (dequeue's index)
  verdict,  \* the DoneWithBucket value with which run_bucket returned
  attempt   \* iteration of the retry loop of done_with_bucket

vars == <<flags, jobs, active, pc, target, slot, offset, verdict, attempt>>

----------------------------------------------------------------------------
(* The flag bits. *)

ENQUEUED_BIT == 1
IN_PROGRESS_BIT == 2
BOTH_BITS == ENQUEUED_BIT + IN_PROGRESS_BIT
FlagWords == {0, ENQUEUED_BIT, IN_PROGRESS_BIT, BOTH_BITS}

IsEnqueued(word) == word \in {ENQUEUED_BIT, BOTH_BITS}
IsInProgress(word) == word \in {IN_PROGRESS_BIT, BOTH_BITS}

\* Mutants of WithEnqueued: fetch_add instead of fetch_or, and a mark that
\* takes a running bucket for one that needs no mark.
WithEnqueued_Add(word) == word + ENQUEUED_BIT
WithEnqueued_NotWhileRunning(word) ==
  IF word = IN_PROGRESS_BIT \/ IsEnqueued(word) THEN word ELSE word + ENQUEUED_BIT

\* flags.fetch_or(ENQUEUED_BIT)
WithEnqueued(word) == IF IsEnqueued(word) THEN word ELSE word + ENQUEUED_BIT

\* Mutant: the bucket also counts as new while a worker runs it.
MadeAvailable_WhileRunning(old) == ~IsEnqueued(old)

\* Whether mark_enqueued, which found the word old, made the bucket available.
MadeAvailable(old) == ~IsEnqueued(old) /\ ~IsInProgress(old)

\* Mutant: try_process tests the ENQUEUED bit instead of the whole word.
Claimable_WhileRunning(word) == IsEnqueued(word)

\* try_process's compare_exchange: enqueued, and not in progress.
Claimable(word) == word = ENQUEUED_BIT

\* Mutant: done_with_bucket stores 0 instead of exchanging it.
Releasable_Store(word) == IsInProgress(word)

\* done_with_bucket's second compare_exchange: in progress, and not enqueued.
Releasable(word) == word = IN_PROGRESS_BIT

\* Mutant: done_with_bucket does not go round again.
ROUNDS_One == 1

\* Rounds of the retry loop of done_with_bucket.
ROUNDS == 2

\* Mutant: dequeue picks the highest bit (leading_zeros).
NextJob_Highest(o, bits) == \A p \in bits : p <= o

\* dequeue picks the lowest bit (trailing_zeros).
NextJob(o, bits) == \A p \in bits : o <= p

----------------------------------------------------------------------------
(* Program counters. *)

EnqueueLabels == {"increment", "mark", "notify", "revert"}
WorkerLabels ==
  {"wait", "asleep", "scan", "picked", "load", "take", "poll", "go_again", "release"}
Labels == {"idle", "panicked"} \cup EnqueueLabels \cup WorkerLabels

\* A caller thread enqueues at any time; a worker enqueues from inside the
\* poll of a task, and resumes that poll afterwards.
Resting(t) == IF t \in Workers THEN "poll" ELSE "idle"

Goto(t, label) == pc' = [pc EXCEPT ![t] = label]

\* A local variable returns to its initial value when it goes out of scope,
\* so that dead values do not tell states apart.
Forget(local, t) == [local EXCEPT ![t] = 0]

Init ==
  /\ flags = [b \in Buckets |-> 0]
  /\ jobs = [b \in Buckets |-> {}]
  /\ active = 0
  /\ pc = [t \in Threads |-> IF t \in Workers THEN "wait" ELSE "idle"]
  /\ target = [t \in Threads |-> 0]
  /\ slot = [w \in Workers |-> 0]
  /\ offset = [w \in Workers |-> 0]
  /\ verdict = [w \in Workers |-> "Unset"]
  /\ attempt = [w \in Workers |-> 0]

----------------------------------------------------------------------------
(* Enqueueing: wake and initial_enqueue, which both run helper. *)

\* Mutant: helper returns early if the bucket holds any job at all.
Enqueue_SkipBusyBucket(t, b, o) ==
  /\ pc[t] = Resting(t)
  /\ jobs' = [jobs EXCEPT ![b] = @ \cup {o}]
  /\ IF jobs[b] # {}
     THEN UNCHANGED <<pc, target>>
     ELSE /\ Goto(t, "increment")
          /\ target' = [target EXCEPT ![t] = b]
  /\ UNCHANGED <<flags, active, slot, offset, verdict, attempt>>

\* The job bit is set; a job that was already there needs nothing more.
Enqueue(t, b, o) ==
  /\ pc[t] = Resting(t)
  /\ jobs' = [jobs EXCEPT ![b] = @ \cup {o}]
  /\ IF o \in jobs[b]
     THEN UNCHANGED <<pc, target>>
     ELSE /\ Goto(t, "increment")
          /\ target' = [target EXCEPT ![t] = b]
  /\ UNCHANGED <<flags, active, slot, offset, verdict, attempt>>

\* increment_active: the count goes up before the bucket is marked.
Increment(t) ==
  /\ pc[t] = "increment"
  /\ IF active = U32_MAX
     THEN Goto(t, "panicked") /\ UNCHANGED active
     ELSE Goto(t, "mark") /\ active' = active + 1
  /\ UNCHANGED <<flags, jobs, target, slot, offset, verdict, attempt>>

\* mark_enqueued: only the thread that finds no flag set has made the
\* bucket available; any other takes its increment back.
Mark(t) ==
  LET old == flags[target[t]] IN
  /\ pc[t] = "mark"
  /\ flags' = [flags EXCEPT ![target[t]] = WithEnqueued(@)]
  /\ Goto(t, IF MadeAvailable(old) THEN "notify" ELSE "revert")
  /\ UNCHANGED <<jobs, active, target, slot, offset, verdict, attempt>>

\* Mutant: the new bucket is counted but nobody is notified.
Notify_Nobody(t) ==
  /\ pc[t] = "notify"
  /\ Goto(t, Resting(t))
  /\ target' = Forget(target, t)
  /\ UNCHANGED <<flags, jobs, active, slot, offset, verdict, attempt>>

\* wake_one: notify_one on the condition variable.
Notify(t) ==
  LET sleepers == {w \in Workers : pc[w] = "asleep"} IN
  /\ pc[t] = "notify"
  /\ IF sleepers = {}
     THEN Goto(t, Resting(t))
     ELSE \E w \in sleepers : pc' = [pc EXCEPT ![t] = Resting(t), ![w] = "wait"]
  /\ target' = Forget(target, t)
  /\ UNCHANGED <<flags, jobs, active, slot, offset, verdict, attempt>>

\* decrement_active panics rather than wrap around.
DecrementTo(t, label) ==
  IF active = 0
  THEN Goto(t, "panicked") /\ UNCHANGED active
  ELSE Goto(t, label) /\ active' = active - 1

Revert(t) ==
  /\ pc[t] = "revert"
  /\ DecrementTo(t, Resting(t))
  /\ target' = Forget(target, t)
  /\ UNCHANGED <<flags, jobs, slot, offset, verdict, attempt>>

----------------------------------------------------------------------------
(* Waiting for and claiming a bucket: blocking_dequeue. *)

\* wait_active: under the mutex, sleep if the count is zero, else go on to
\* probe the slots, from the first one.
WaitActive(w) ==
  /\ pc[w] = "wait"
  /\ Goto(w, IF active = 0 THEN "asleep" ELSE "scan")
  /\ UNCHANGED <<flags, jobs, active, target, slot, offset, verdict, attempt>>

\* Condvar::wait may return without a notification.
SpuriousWakeup(w) ==
  /\ pc[w] = "asleep"
  /\ Goto(w, "wait")
  /\ UNCHANGED <<flags, jobs, active, target, slot, offset, verdict, attempt>>

\* try_process on one slot of try_dequeue's loop: claim the bucket if it is
\* enqueued and not in progress, else probe the next, else wait again.
TryProcess(w) ==
  /\ pc[w] = "scan"
  /\ \/ /\ Claimable(flags[slot[w]])
        /\ flags' = [flags EXCEPT ![slot[w]] = IN_PROGRESS_BIT]
        /\ Goto(w, "picked")
        /\ UNCHANGED slot
     \/ /\ ~Claimable(flags[slot[w]])
        /\ slot[w] + 1 \in Buckets
        /\ slot' = [slot EXCEPT ![w] = @ + 1]
        /\ UNCHANGED <<flags, pc>>
     \/ /\ ~Claimable(flags[slot[w]])
        /\ slot[w] + 1 \notin Buckets
        /\ Goto(w, "wait")
        /\ slot' = Forget(slot, w)
        /\ UNCHANGED flags
  /\ UNCHANGED <<jobs, active, target, offset, verdict, attempt>>

\* The claimed bucket no longer waits for a worker.
Picked(w) ==
  /\ pc[w] = "picked"
  /\ DecrementTo(w, "load")
  /\ UNCHANGED <<flags, jobs, target, slot, offset, verdict, attempt>>

----------------------------------------------------------------------------
(* Running the jobs of a claimed bucket: run_bucket over dequeue. *)

\* run_bucket returns with a verdict, and done_with_bucket begins.
ReturnFromBucket(w, v) ==
  /\ Goto(w, "go_again")
  /\ verdict' = [verdict EXCEPT ![w] = v]
  /\ attempt' = [attempt EXCEPT ![w] = 1]

\* done_with_bucket returns.
ReturnFromDone(w, label) ==
  /\ Goto(w, label)
  /\ verdict' = [verdict EXCEPT ![w] = "Unset"]
  /\ attempt' = Forget(attempt, w)

\* dequeue reads the job bits and picks the lowest one.
Load(w) ==
  /\ pc[w] = "load"
  /\ \/ /\ jobs[slot[w]] = {}
        /\ ReturnFromBucket(w, "ForNow")
        /\ UNCHANGED offset
     \/ \E o \in jobs[slot[w]] :
          /\ NextJob(o, jobs[slot[w]])
          /\ offset' = [offset EXCEPT ![w] = o]
          /\ Goto(w, "take")
          /\ UNCHANGED <<verdict, attempt>>
  /\ UNCHANGED <<flags, jobs, active, target, slot>>

\* dequeue clears that bit with a second atomic access.
Take(w) ==
  /\ pc[w] = "take"
  /\ jobs' = [jobs EXCEPT ![slot[w]] = @ \ {offset[w]}]
  /\ offset' = Forget(offset, w)
  /\ Goto(w, "poll")
  /\ UNCHANGED <<flags, active, target, slot, verdict, attempt>>

\* The task is pending, was dead, finished with others of the bucket left,
\* or was cleaned up after a panic or out of memory: look for another job.
Continue(w) ==
  /\ pc[w] = "poll"
  /\ Goto(w, "load")
  /\ UNCHANGED <<flags, jobs, active, target, slot, offset, verdict, attempt>>

\* The last task of the bucket finished: run_bucket returns without looking
\* at the job bits again.
Finish(w) ==
  /\ pc[w] = "poll"
  /\ ReturnFromBucket(w, "Forever")
  /\ UNCHANGED <<flags, jobs, active, target, slot, offset>>

----------------------------------------------------------------------------
(* Giving up a bucket: done_with_bucket. *)

\* First compare_exchange: the bucket was enqueued while it was in progress.
GoAgain(w) ==
  LET word == flags[slot[w]] IN
  /\ pc[w] = "go_again"
  /\ IF word = BOTH_BITS
     THEN /\ flags' = [flags EXCEPT ![slot[w]] = IN_PROGRESS_BIT]
          /\ ReturnFromDone(w, "load")
     ELSE /\ Goto(w, IF word = IN_PROGRESS_BIT THEN "release" ELSE "panicked")
          /\ UNCHANGED <<flags, verdict, attempt>>
  /\ UNCHANGED <<jobs, active, target, slot, offset>>

\* Second compare_exchange: it fails if the bucket is enqueued in between,
\* and then the loop goes round once more, but not twice.
Release(w) ==
  /\ pc[w] = "release"
  /\ \/ /\ Releasable(flags[slot[w]])
        /\ flags' = [flags EXCEPT ![slot[w]] = 0]
        /\ slot' = Forget(slot, w)
        /\ ReturnFromDone(w, "wait")
     \/ /\ ~Releasable(flags[slot[w]])
        /\ Goto(w, IF attempt[w] < ROUNDS THEN "go_again" ELSE "panicked")
        /\ attempt' = [attempt EXCEPT ![w] = 2]
        /\ UNCHANGED <<flags, slot, verdict>>
  /\ UNCHANGED <<jobs, active, target, offset>>

----------------------------------------------------------------------------

\* A step a thread takes by itself once it has begun an operation.
HelperStep(t) == Increment(t) \/ Mark(t) \/ Notify(t) \/ Revert(t)

WorkerStep(w) ==
  \/ WaitActive(w) \/ TryProcess(w) \/ Picked(w)
  \/ Load(w) \/ Take(w) \/ Continue(w) \/ Finish(w)
  \/ GoAgain(w) \/ Release(w)

EnqueueSome == \E t \in Threads, b \in Buckets, o \in Offsets : Enqueue(t, b, o)

Next ==
  \/ EnqueueSome
  \/ \E t \in Threads : HelperStep(t)
  \/ \E w \in Workers : WorkerStep(w) \/ SpuriousWakeup(w)

Spec == Init /\ [][Next]_vars

\* The operating system schedules every thread that can run, and the poll
\* of a task returns.
Fairness ==
  /\ \A t \in Threads : WF_vars(HelperStep(t))
  /\ \A w \in Workers : WF_vars(WorkerStep(w))

FairSpec == Spec /\ Fairness

----------------------------------------------------------------------------
(* Properties. *)

\* Every variable has its type: flag words are two bits wide, job bits are
\* offsets of the bucket, the count is a u32.
TypeOK ==
  /\ flags \in [Buckets -> FlagWords]
  /\ jobs \in [Buckets -> SUBSET Offsets]
  /\ active \in 0 .. U32_MAX
  /\ pc \in [Threads -> Labels]
  /\ target \in [Threads -> Buckets]
  /\ slot \in [Workers -> Buckets]
  /\ offset \in [Workers -> Offsets]
  /\ verdict \in [Workers -> {"Unset", "ForNow", "Forever"}]
  /\ attempt \in [Workers -> 0 .. 2]

\* The labels at which a worker holds the bucket slot[w].
Running == {"picked", "load", "take", "poll", "go_again", "release"} \cup EnqueueLabels

\* No two workers run the same bucket.  The executor relies on it whenever
\* it takes a task's mutex with try_lock().unwrap().
OneWorkerPerBucket ==
  \A v, w \in Workers :
    v # w /\ pc[v] \in Running /\ pc[w] \in Running => slot[v] # slot[w]

\* None of queue.rs's panics is reached: the count neither overflows nor
\* underflows, done_with_bucket finds its bucket in progress, and its retry
\* loop never needs a third round.
NoPanic == \A t \in Threads : pc[t] # "panicked"

Waiting == {b \in Buckets : flags[b] = ENQUEUED_BIT}
Notifying == {t \in Threads : pc[t] = "notify"}
Searching == {w \in Workers : pc[w] \in {"wait", "scan"}}
Asleep == {w \in Workers : pc[w] = "asleep"}

\* The queue is work conserving: a worker sleeps only while every waiting
\* bucket has a searching worker or an undelivered notification of its own.
WorkConserving ==
  Asleep # {} =>
    Cardinality(Waiting) <= Cardinality(Searching) + Cardinality(Notifying)

\* Somebody between setting a job bit of bucket b and marking the bucket.
BeingEnqueued(b) ==
  \E t \in Threads : pc[t] \in {"increment", "mark"} /\ target[t] = b

\* A worker that has claimed bucket b and will read its job bits.
AboutToLoad(b) ==
  \E w \in Workers : pc[w] \in {"picked", "load"} /\ slot[w] = b

\* The job of a request's own future is never left behind: as long as its
\* bit is set somebody is about to look at it.  Nothing else enqueues it
\* again, because helper returns early when the bit is already set.
InputJobNeverStranded ==
  \A b \in Buckets : INPUT_STREAM \in jobs[b] =>
    \/ IsEnqueued(flags[b])
    \/ BeingEnqueued(b)
    \/ AboutToLoad(b)
    \/ \E w \in Workers :
         pc[w] = "take" /\ slot[w] = b /\ offset[w] = INPUT_STREAM

\* A worker that gives up a bucket only for now leaves no job in it, unless
\* the thread that enqueued the job is still about to mark the bucket.
ReleaseAbandonsNoJob ==
  [][\A w \in Workers :
       pc[w] = "release" /\ pc'[w] = "wait" /\ verdict[w] = "ForNow"
         => jobs[slot[w]] = {} \/ BeingEnqueued(slot[w])]_vars

\* The threads that counted a bucket early (helper) or have yet to uncount
\* the one they claimed (try_dequeue).
Counting == {t \in Threads : pc[t] \in {"mark", "revert", "picked"}}

\* The count is exact: it is the number of waiting buckets plus the threads
\* that are between a count and the matching change of a flag word.
CountExact == active = Cardinality(Waiting) + Cardinality(Counting)

----------------------------------------------------------------------------
(* What the invariants above rest on. *)

\* A worker that holds a bucket finds its IN_PROGRESS flag set.
HeldIsInProgress ==
  \A w \in Workers : pc[w] \in Running => IsInProgress(flags[slot[w]])

\* The retry loop of done_with_bucket goes round again only because the
\* bucket was enqueued, and then its first compare_exchange succeeds.
RetryFindsBoth ==
  \A w \in Workers :
    /\ pc[w] = "release" => attempt[w] = 1
    /\ pc[w] = "go_again" /\ attempt[w] # 1 => flags[slot[w]] = BOTH_BITS

\* Between the two accesses of dequeue nobody else takes the job.
TakeFindsJob ==
  \A w \in Workers : pc[w] = "take" => offset[w] \in jobs[slot[w]]

\* run_bucket returned ForNow because it saw no job: a job posted since then
\* has been announced or is about to be.
ForNowMissesNothing ==
  \A w \in Workers :
    pc[w] \in {"go_again", "release"} /\ verdict[w] = "ForNow" =>
      \/ jobs[slot[w]] = {}
      \/ IsEnqueued(flags[slot[w]])
      \/ BeingEnqueued(slot[w])

\* Callers never run buckets, and workers are never outside their loop.
Roles ==
  /\ \A w \in Workers : pc[w] # "idle"
  /\ \A t \in Callers : pc[t] \notin WorkerLabels

\* The inductive invariant of the proofs.
QueueInv ==
  /\ TypeOK
  /\ Roles
  /\ NoPanic
  /\ HeldIsInProgress
  /\ OneWorkerPerBucket
  /\ RetryFindsBoth
  /\ TakeFindsJob
  /\ CountExact
  /\ WorkConserving
  /\ InputJobNeverStranded
  /\ ForNowMissesNothing

----------------------------------------------------------------------------
(* Liveness. *)

\* Unless tasks are enqueued for ever, the job of a request's own future is
\* taken by a worker.
InputJobServed ==
  \/ []<><<EnqueueSome>>_vars
  \/ \A b \in Buckets : INPUT_STREAM \in jobs[b] ~> INPUT_STREAM \notin jobs[b]

----------------------------------------------------------------------------
(* The queue implements the abstract queue. *)

\* A thread owes the bucket it has put a job in until it has marked it.
Owed ==
  [t \in Threads |-> IF pc[t] \in {"increment", "mark"} THEN {target[t]} ELSE {}]

Announced == {b \in Buckets : IsEnqueued(flags[b])}

Holders == [b \in Buckets |-> {w \in Workers : pc[w] \in Running /\ slot[w] = b}]

WQ == INSTANCE WorkQueue WITH
  pending <- jobs, owed <- Owed, announced <- Announced, holders <- Holders

\* Every step of the queue is a step of the abstract queue or leaves its
\* state alone: a posted job is announced, an announced bucket is claimed by
\* one worker at a time, and is not given up while it is announced.
ImplementsWorkQueue == WQ!Spec
=============================================================================
