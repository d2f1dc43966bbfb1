---------------------------- MODULE ExecutorInv -----------------------------
(***************************************************************************)
(* The inductive invariants on which the proofs about Executor rest.       *)
(*                                                                         *)
(* WorkerInv holds whatever goes wrong.  OrdinaryInv holds while futures   *)
(* wait for one thing at a time and are not dropped while they wait: then  *)
(* a future has exactly one wake-up, which travels from the accept loop    *)
(* through the queue to a worker, from there to the reactor or to a        *)
(* connection, and back to the queue.  It ends with the future.            *)
(***************************************************************************)
EXTENDS Executor

\* The queue's variables have their types.  A thread owes one announcement at
\* most.
QueueTypeOK ==
  /\ pending \in [Buckets -> SUBSET Offsets]
  /\ owed \in [Threads -> SUBSET Buckets]
  /\ \A t \in Threads : \A b, c \in owed[t] : b = c
  /\ announced \subseteq Buckets
  /\ holders \in [Buckets -> SUBSET Workers]

\* A bucket is run by one worker, and a worker runs one bucket.
OneHolder ==
  /\ \A b \in Buckets : \A v, w \in holders[b] : v = w
  /\ \A b, c \in Buckets : b # c => holders[b] \cap holders[c] = {}

\* A worker that runs the bucket is at one of these labels.
HolderAt(b, labels) == \E w \in holders[b] : pc[w] \in labels

\* A slot is reserved only while handshake() runs, or until cleanup_bucket
\* has emptied it.
ReservedInside(b) ==
  \A o \in Connections : connections[b][o] = "Reserved" =>
    \E w \in holders[b] :
      pc[w] \in {"clean_fd", "clean_conns"} \/ (pc[w] = "handshake" /\ job[w] = o)

\* What holds under every fault: a bucket is run by one worker, and only that
\* worker sees its slots while they are reserved.
WorkerInv ==
  /\ TypeOK /\ QueueTypeOK /\ OneHolder /\ NoWorkerDies
  /\ \A b \in Buckets : ReservedInside(b)

----------------------------------------------------------------------------

Count(P) == IF P THEN 1 ELSE 0

\* A worker has taken the job of the future, or polls it.
Polled(b) ==
  \E w \in holders[b] :
    (pc[w] = "dispatch" /\ job[w] = INPUT_STREAM) \/ pc[w] \in {"main", "handshake"}

\* The wake-ups of a future, wherever they are.
WakeUps(b) ==
  Count(Placed(b)) + Count(INPUT_STREAM \in pending[b])
  + Count(Polled(b)) + Count(<<b, INPUT_STREAM>> \in interest)
  + Count(<<b, INPUT_STREAM>> \in wakers) + Count(channel[b] # {})

\* A future that is not being taken down has one, and nobody else has.
OneWakeUp(b) == WakeUps(b) = Count(futures[b] # None /\ ~TakenDown(b))

\* It waits for one connection at most, and that one is there.
OneResponse(b) ==
  \A o \in channel[b] : connections[b][o] = "Occupied" /\ channel[b] = {o}

\* A connection that is polled or reserved is there; one that is there will be
\* polled, unless it has killed its worker.
ConnectionsHeard(b) ==
  /\ \A w \in holders[b] :
       /\ pc[w] \in {"conn", "crashed"} =>
            job[w] \in Connections /\ connections[b][job[w]] = "Occupied"
       /\ pc[w] = "handshake" =>
            job[w] \in Connections /\ connections[b][job[w]] = "Reserved"
  /\ \A o \in Connections : connections[b][o] = "Occupied" =>
       \/ o \in pending[b] \/ <<b, o>> \in interest \cup wakers
       \/ \E w \in holders[b] : pc[w] \in {"dispatch", "conn", "crashed"} /\ job[w] = o

\* A bucket that is taken down has its future until that is dropped, after the
\* connections: its request is the one that failed.
OrderlyCleanup(b) ==
  /\ HolderAt(b, {"clean_fd", "clean_conns", "clean_future"}) => futures[b] # None
  /\ HolderAt(b, {"clean_count"}) => futures[b] = None
  /\ HolderAt(b, {"clean_future", "clean_count"}) =>
       \A o \in Connections : connections[b][o] = "Empty"

\* The count of a bucket.  A bucket that is taken down is not free, whatever
\* handshake() has made of its count; one that was claimed has no tasks.
Counted(b) ==
  /\ ~TakenDown(b) =>
       refcounts[b] = Cardinality(LiveTasks(b)) + Count(HolderAt(b, {"done"})) + Claimed(b)
  /\ TakenDown(b) => refcounts[b] > 0
  /\ main = "set" /\ bucket = b => refcounts[b] = 1 /\ ~TakenDown(b)

\* A job of a task that is not done is posted where somebody will look for it.
JobsSeen(b) ==
  \A o \in LiveTasks(b) \cap pending[b] :
    Due(b) \/ \E w \in holders[b] : pc[w] \notin {"wait", "give_up"}

\* The accept loop has a request that is in no bucket yet, and a descriptor
\* that is stored in no bucket yet.
Placing == main \in {"claim", "set"}
Carrying == main \in {"claim", "set", "store"}

\* The tasks of every bucket are counted and heard, and set() has not replaced
\* one.
TaskInv ==
  /\ NoInputStreamRace /\ main # "occupied"
  /\ Carrying => request \in Requests
  /\ \A b \in Buckets :
       /\ OneWakeUp(b) /\ OneResponse(b) /\ ConnectionsHeard(b)
       /\ OrderlyCleanup(b) /\ Counted(b) /\ JobsSeen(b)

----------------------------------------------------------------------------

\* The duplicate of the request's descriptor is stored, and not closed yet.
HasDescriptor(b) ==
  /\ futures[b] # None /\ ~(main = "store" /\ bucket = b)
  /\ ~HolderAt(b, {"clean_conns", "clean_future"})

\* Every request is in one place, and every descriptor belongs to the request
\* that is in the same place as the descriptor.
DescriptorInv ==
  /\ \A b \in Buckets : futures[b] # None => outcome[futures[b]] # "new"
  /\ \A b, c \in Buckets : futures[b] # None /\ futures[b] = futures[c] => b = c
  /\ Carrying => outcome[request] # "new" /\ fd \in Fds /\ fd_table[fd] = request
  /\ Placing => \A b \in Buckets : futures[b] # request
  /\ main = "store" => futures[bucket] = request
  /\ \A b \in Buckets : HasDescriptor(b) =>
       tcp_streams[b] \in Fds /\ fd_table[tcp_streams[b]] = futures[b]
  /\ \A f \in Fds : fd_table[f] # None =>
       (Carrying /\ fd = f) \/ \E b \in Buckets : HasDescriptor(b) /\ tcp_streams[b] = f

\* A bucket that try_claim() may hand to the next request is at rest: it has
\* no task, nobody takes it down, no worker has died in it, and no wake-up of
\* an earlier future is left that would poll the next one.
FreeIsQuiet ==
  \A b \in Buckets : refcounts[b] = 0 =>
    LiveTasks(b) = {} /\ ~TakenDown(b) /\ ~Lost(b) /\ WakeUps(b) = 0

\* What the executor rests on in the ordinary case: one worker per bucket, one
\* wake-up per future, exact counts, and every descriptor with its request.
OrdinaryInv == WorkerInv /\ TaskInv /\ DescriptorInv
=============================================================================
