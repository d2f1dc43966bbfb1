------------------------------ MODULE Executor ------------------------------
(***************************************************************************)
(* The executor (nea/src/executor.rs) and the accept loop that feeds it    *)
(* (run_request_handler in nea/src/lib.rs), on top of the queue as         *)
(* WorkQueue and of the reactor as WakerStore specifies it.                *)
(*                                                                         *)
(* A request gets a bucket: a place for its future, places for the http    *)
(* connections the future opens, a duplicate of its socket's descriptor    *)
(* for an error response, an arena of memory, and a count of its live      *)
(* tasks.  Workers poll the tasks of a bucket; when the count drops to     *)
(* zero the arena is wiped and the bucket can be claimed again.  A task    *)
(* that runs out of memory or panics takes its bucket down.                *)
(*                                                                         *)
(* The request handler, hyper, mio and the kernel are external.  A poll    *)
(* may do whatever the interfaces in the source allow; the wakers a task   *)
(* leaves behind are tracked, because a waker that outlives its task is    *)
(* what the executor has to cope with.                                     *)
(***************************************************************************)
EXTENDS Integers, FiniteSets

CONSTANTS
  Workers, Main, Reactor,   \* the threads
  bucket_count,
  http_connections,         \* connections per bucket; tcp_streams is 1
  Requests,                 \* the clients that connect
  Fds,                      \* descriptor numbers of the duplicated sockets
  None,
  U8_MAX,                   \* largest refcount
  Faults,                   \* a poll may end in "oom" or "panic", and a client
                            \* may "reset" its connection
  MaxAwaits                 \* how many wakers a pending future leaves behind

Threads == Workers \cup {Main, Reactor}
Buckets == 0 .. bucket_count - 1
INPUT_STREAM == 0
Connections == 1 .. http_connections
Offsets == {INPUT_STREAM} \cup Connections

ASSUME ExecutorAssumption ==
  /\ IsFiniteSet(Workers) /\ IsFiniteSet(Requests)
  /\ Main # Reactor /\ Main \notin Workers /\ Reactor \notin Workers
  /\ bucket_count \in Nat \ {0} /\ http_connections \in 0 .. 63
  /\ Fds \subseteq Nat \ {0} /\ IsFiniteSet(Fds)
  /\ None \notin Requests
  /\ U8_MAX \in Nat /\ http_connections + 1 < U8_MAX
  /\ Faults \subseteq {"oom", "panic", "reset"}
  /\ MaxAwaits \in Nat \ {0}

VARIABLES
  \* The queue.
  pending, owed, announced, holders,
  \* Inner.
  refcounts, futures, tcp_streams, connections,
  \* The accept loop: where it is, and its request, descriptor and bucket.
  main, request, fd, bucket,
  \* The workers: where each is, and the job it runs (0 when it runs none).
  pc, job,
  \* External: the kernel's descriptors, the outcome of every request, and
  \* where wakers are: in the reactor's sources, in the reactor's list of
  \* wakers to call, and in the response channel of a connection.
  fd_table, outcome, interest, wakers, channel

queue == <<pending, owed, announced, holders>>
inner == <<refcounts, futures, tcp_streams, connections>>
accept == <<main, request, fd, bucket>>
worker == <<pc, job>>
external == <<fd_table, outcome, interest, wakers, channel>>
vars == <<queue, inner, accept, worker, external>>

WQ == INSTANCE WorkQueue

\* Futures wait for one thing at a time, and are not dropped while they wait:
\* only a connection that runs out of memory could do that.  The reactor has
\* at most one waker of such a future.
Ordinary == MaxAwaits = 1 /\ ("oom" \notin Faults \/ Connections = {})

\* A connection may wait in both directions at once, and so may a future that
\* waits for several things.
WS == INSTANCE WakerStore WITH
        Tasks <- Buckets \X Offsets,
        Concurrent <- Buckets \X (IF MaxAwaits = 1 THEN Connections ELSE Offsets)

Init ==
  /\ WQ!Init
  /\ refcounts = [b \in Buckets |-> 0]
  /\ futures = [b \in Buckets |-> None]
  /\ tcp_streams = [b \in Buckets |-> 0]
  /\ connections = [b \in Buckets |-> [o \in Connections |-> "Empty"]]
  /\ main = "accept" /\ request = None /\ fd = 0 /\ bucket = 0
  /\ pc = [w \in Workers |-> "wait"]
  /\ job = [w \in Workers |-> INPUT_STREAM]
  /\ fd_table = [f \in Fds |-> None]
  /\ outcome = [r \in Requests |-> "new"]
  /\ interest = {} /\ wakers = {}
  /\ channel = [b \in Buckets |-> {}]

----------------------------------------------------------------------------
(* Common parts. *)

\* Mutant: a bucket that is being run is not marked again.
Wake_NotWhileRunning(t, b, o) ==
  IF o \in pending[b] \/ holders[b] # {} THEN UNCHANGED queue ELSE WQ!Post(t, b, o)

\* ComplexQueue::wake and initial_enqueue, up to the announcement that the
\* thread owes the queue before it does anything else.
Wake(t, b, o) ==
  IF o \in pending[b] THEN UNCHANGED queue ELSE WQ!Post(t, b, o)

Ready(t) == owed[t] = {}

Announce(t) ==
  /\ \E b \in owed[t] : WQ!Announce(t, b)
  /\ UNCHANGED <<inner, accept, worker, external>>

\* The bucket a worker runs, and that worker at a label.
At(w, b, label) == pc[w] = label /\ w \in holders[b] /\ Ready(w)

Goto(w, label) == pc' = [pc EXCEPT ![w] = label]

\* A worker inside poll_input_stream holds the mutex of the future.
Locked(b) == \E w \in holders[b] : pc[w] \in {"race", "main", "handshake"}

\* A worker about to drop the future in cleanup_bucket may hold it, too.
MayBeLocked(b) == Locked(b) \/ \E w \in holders[b] : pc[w] = "clean_future"

\* A worker about to change the count of a bucket may have it locked.
CountLocked(b) == \E w \in holders[b] : pc[w] \in {"main", "done", "clean_count"}

\* The kernel gives out the lowest free number, and forgets a closed one.
LowestFree ==
  CHOOSE f \in Fds : fd_table[f] = None /\ \A g \in Fds : fd_table[g] = None => f <= g
Closed(f) == [g \in Fds |-> IF g = f THEN None ELSE fd_table[g]]

\* The owner of a descriptor number; 0 was never given out.
OwnerOf(f) == IF f \in Fds THEN fd_table[f] ELSE None

----------------------------------------------------------------------------
(* The accept loop. *)

\* listener.incoming() and try_clone(): expect("we never run out of FDs").
Accept(r) ==
  /\ main = "accept" /\ Ready(Main)
  /\ outcome[r] = "new"
  /\ outcome' = [outcome EXCEPT ![r] = "open"]
  /\ IF \A f \in Fds : fd_table[f] # None
     THEN main' = "panicked" /\ UNCHANGED <<request, fd, bucket, fd_table>>
     ELSE /\ fd' = LowestFree
          /\ fd_table' = [fd_table EXCEPT ![LowestFree] = r]
          /\ main' = "claim" /\ request' = r /\ bucket' = 0
  /\ UNCHANGED <<queue, inner, worker, interest, wakers, channel>>

\* Mutant: a bucket counts as free when its own future is gone.
Claimable_NoFuture(b) == futures[b] = None

\* try_claim's test of one bucket.
Claimable(b) == refcounts[b] = 0

\* One bucket of try_claim's scan.  try_lock may also fail because a worker
\* has the count locked.
TryClaim ==
  /\ main = "claim"
  /\ \/ /\ Claimable(bucket)
        /\ refcounts' = [refcounts EXCEPT ![bucket] = 1]
        /\ main' = "set"
        /\ UNCHANGED bucket
     \/ /\ ~Claimable(bucket) \/ CountLocked(bucket)
        /\ bucket + 1 \in Buckets
        /\ bucket' = bucket + 1
        /\ UNCHANGED <<refcounts, main>>
  /\ UNCHANGED <<queue, futures, tcp_streams, connections, request, fd, worker, external>>

\* No bucket: the client is turned away.  The unwrap() of shutdown() panics
\* when the client is gone by then.
Reject ==
  /\ main = "claim"
  /\ ~Claimable(bucket) \/ CountLocked(bucket)
  /\ bucket + 1 \notin Buckets
  /\ outcome' = [outcome EXCEPT ![request] = "rejected"]
  /\ fd_table' = Closed(fd)
  /\ main' \in {"accept"} \cup (IF "reset" \in Faults THEN {"panicked"} ELSE {})
  /\ request' = None /\ fd' = 0 /\ bucket' = 0
  /\ UNCHANGED <<queue, inner, worker, interest, wakers, channel>>

\* Mutant: the descriptor of the first request in the bucket is kept.
StoredFd_First(b) == IF tcp_streams[b] = 0 THEN fd ELSE tcp_streams[b]

\* The descriptor set() stores.
StoredFd(b) == fd

\* set: try_lock().unwrap(), and replace, which tells whether the place was
\* free.  The lock is released at once.
Set ==
  /\ main = "set"
  /\ \/ MayBeLocked(bucket) /\ main' = "panicked" /\ UNCHANGED futures
     \/ /\ ~Locked(bucket)
        /\ futures' = [futures EXCEPT ![bucket] = request]
        /\ main' = IF futures[bucket] = None THEN "store" ELSE "occupied"
  /\ UNCHANGED <<queue, refcounts, tcp_streams, connections, request, fd, bucket, worker,
                 external>>

\* set: the descriptor is stored, and the place is asserted to have been free.
StoreFd ==
  /\ main \in {"store", "occupied"}
  /\ tcp_streams' = [tcp_streams EXCEPT ![bucket] = StoredFd(bucket)]
  /\ main' = IF main = "store" THEN "enqueue" ELSE "panicked"
  /\ UNCHANGED <<queue, refcounts, futures, connections, request, fd, bucket, worker, external>>

\* execute: initial_enqueue of the request's future.
Execute ==
  /\ main = "enqueue"
  /\ Wake(Main, bucket, INPUT_STREAM)
  /\ main' = "accept" /\ request' = None /\ fd' = 0 /\ bucket' = 0
  /\ UNCHANGED <<inner, worker, external>>

----------------------------------------------------------------------------
(* The reactor, as far as it concerns wakers. *)

\* Mutant: the waker of a source is called but not taken from it.
Collect_Keep(b, o) ==
  /\ Ready(Reactor)
  /\ <<b, o>> \in interest
  /\ wakers' = wakers \cup {<<b, o>>}
  /\ UNCHANGED <<queue, inner, accept, worker, fd_table, outcome, interest, channel>>

\* An event takes the waker from a source.
Collect(b, o) ==
  /\ Ready(Reactor)
  /\ WS!Take(<<b, o>>)
  /\ UNCHANGED <<queue, inner, accept, worker, fd_table, outcome, channel>>

\* The collected wakers are called one by one.
CallWaker(b, o) ==
  /\ Ready(Reactor)
  /\ WS!Call(<<b, o>>)
  /\ Wake(Reactor, b, o)
  /\ UNCHANGED <<inner, accept, worker, fd_table, outcome, channel>>

----------------------------------------------------------------------------
(* run_worker and run_bucket. *)

\* blocking_dequeue
ClaimBucket(w, b) ==
  /\ pc[w] = "wait"
  /\ WQ!Claim(w, b)
  /\ Goto(w, "load")
  /\ UNCHANGED <<inner, accept, job, external>>

\* QueueSlot::dequeue takes the lowest job bit.
Dequeue(w, b, o) ==
  /\ At(w, b, "load")
  /\ \A p \in pending[b] : o <= p
  /\ WQ!Take(w, b, o)
  /\ Goto(w, "dispatch")
  /\ job' = [job EXCEPT ![w] = o]
  /\ UNCHANGED <<inner, accept, external>>

\* No more work for now.
DequeueNone(w, b) ==
  /\ At(w, b, "load")
  /\ pending[b] = {}
  /\ Goto(w, "give_up")
  /\ UNCHANGED <<queue, inner, accept, job, external>>

\* Mutant: a connection task that is gone is counted down once more.
AfterDeath_Ready == "done"

\* poll_http_connection on an empty slot: HyperWake::AfterDeath.
AfterDeath == "load"

\* IoIndex::from_index, the lock of the task and the test of its slot.  The
\* unwrap() of try_lock() kills the worker if set() has the future locked.
Dispatch(w, b) ==
  /\ At(w, b, "dispatch")
  /\ \/ /\ job[w] = INPUT_STREAM
        /\ Goto(w, IF futures[b] = None THEN "race" ELSE "main")
        /\ UNCHANGED job
     \/ /\ job[w] = INPUT_STREAM
        /\ main = "set" /\ bucket = b
        /\ Goto(w, "locked_out")
        /\ UNCHANGED job
     \/ /\ job[w] # INPUT_STREAM
        /\ connections[b][job[w]] = "Empty"
        /\ Goto(w, AfterDeath)
        /\ job' = [job EXCEPT ![w] = INPUT_STREAM]
     \/ /\ job[w] # INPUT_STREAM
        /\ connections[b][job[w]] # "Empty"
        /\ Goto(w, IF connections[b][job[w]] = "Reserved" THEN "dead" ELSE "conn")
        /\ UNCHANGED job
  /\ UNCHANGED <<queue, inner, accept, external>>

\* panic!("input stream race condition"), caught by run_bucket.
InputStreamRace(w, b) ==
  /\ At(w, b, "race")
  /\ Goto(w, "clean_fd")
  /\ UNCHANGED <<queue, inner, accept, job, external>>

\* done_with_bucket
GoAgain(w, b) ==
  /\ At(w, b, "give_up")
  /\ WQ!Again(w, b)
  /\ Goto(w, "load")
  /\ UNCHANGED <<inner, accept, job, external>>

GiveUp(w, b) ==
  /\ At(w, b, "give_up")
  /\ WQ!Release(w, b)
  /\ Goto(w, "wait")
  /\ UNCHANGED <<inner, accept, job, external>>

----------------------------------------------------------------------------
(* The poll of a request's future. *)

\* Mutant: handshake does not count the connection.
CountConnection_Not(b) == refcounts

\* handshake's change of the count: a u8, in a build without overflow checks.
CountConnection(b) ==
  [refcounts EXCEPT ![b] = IF @ = 0 THEN 0 ELSE (@ + 1) % (U8_MAX + 1)]

\* handshake: the connection is counted and the first free slot reserved.
Handshake(w, b, o) ==
  /\ At(w, b, "main")
  /\ connections[b][o] = "Empty"
  /\ \A p \in Connections : p < o => connections[b][p] # "Empty"
  /\ refcounts' = CountConnection(b)
  /\ connections' = [connections EXCEPT ![b][o] = "Reserved"]
  /\ job' = [job EXCEPT ![w] = o]
  /\ Goto(w, "handshake")
  /\ UNCHANGED <<queue, futures, tcp_streams, accept, external>>

\* handshake: todo!() when every slot is taken.  A handler that keeps to its
\* slots never gets here.
HandshakeNoSlot(w, b) ==
  /\ "panic" \in Faults /\ Connections # {}
  /\ At(w, b, "main")
  /\ \A o \in Connections : connections[b][o] # "Empty"
  /\ refcounts' = CountConnection(b)
  /\ Goto(w, "clean_fd")
  /\ UNCHANGED <<queue, futures, tcp_streams, connections, accept, job, external>>

\* handshake: hyper's handshake does no I/O; the slot is filled and queued.
Handshaken(w, b) ==
  /\ At(w, b, "handshake")
  /\ connections' = [connections EXCEPT ![b][job[w]] = "Occupied"]
  /\ Wake(w, b, job[w])
  /\ job' = [job EXCEPT ![w] = INPUT_STREAM]
  /\ Goto(w, "main")
  /\ UNCHANGED <<refcounts, futures, tcp_streams, accept, external>>

\* Sending a request, or dropping its sender, wakes the connection's task.
WakeConnection(w, b, o) ==
  /\ At(w, b, "main")
  /\ connections[b][o] = "Occupied"
  /\ o \notin pending[b]
  /\ Wake(w, b, o)
  /\ UNCHANGED <<inner, accept, worker, external>>

\* Poll::Pending: the future waits for its socket, for the response of one
\* of its connections, or for several of these at once.
MainPending(w, b, socket, responses) ==
  /\ At(w, b, "main")
  /\ socket \subseteq {<<b, INPUT_STREAM>>}
  /\ responses \subseteq {o \in Connections : connections[b][o] = "Occupied"}
  /\ Cardinality(socket) + Cardinality(responses) \in 1 .. MaxAwaits
  /\ interest' = interest \cup socket
  /\ channel' = [channel EXCEPT ![b] = responses]
  /\ Goto(w, "load")
  /\ UNCHANGED <<queue, inner, accept, job, fd_table, outcome, wakers>>

\* Mutant: the duplicate of the descriptor is forgotten.
DuplicateDropped_Not(b) == fd_table

\* poll_input_stream closes the duplicate of the descriptor.
DuplicateDropped(b) == Closed(tcp_streams[b])

\* Poll::Ready: the future leaves its place, the duplicate is closed, and the
\* future is dropped with its socket and the wakers that are still there.
MainReady(w, b) ==
  /\ At(w, b, "main")
  /\ futures' = [futures EXCEPT ![b] = None]
  /\ interest' = interest \ {<<b, INPUT_STREAM>>}
  /\ channel' = [channel EXCEPT ![b] = {}]
  /\ outcome' = [outcome EXCEPT ![futures[b]] = IF @ = "open" THEN "answered" ELSE @]
  /\ fd_table' = DuplicateDropped(b)
  /\ Goto(w, "done")
  /\ UNCHANGED <<queue, refcounts, tcp_streams, connections, accept, job, wakers>>

\* The handler panics, or its allocation fails and roc_panic jumps back.
MainFails(w, b) ==
  /\ Faults \cap {"oom", "panic"} # {}
  /\ At(w, b, "main") \/ At(w, b, "handshake")
  /\ Goto(w, "clean_fd")
  /\ job' = [job EXCEPT ![w] = INPUT_STREAM]
  /\ UNCHANGED <<queue, inner, accept, external>>

----------------------------------------------------------------------------
(* The poll of a connection's task. *)

\* A response has arrived: the future that waits for it is woken.
Respond(w, b) ==
  /\ At(w, b, "conn")
  /\ job[w] \in channel[b]
  /\ channel' = [channel EXCEPT ![b] = @ \ {job[w]}]
  /\ Wake(w, b, INPUT_STREAM)
  /\ UNCHANGED <<inner, accept, worker, fd_table, outcome, interest, wakers>>

ConnPending(w, b) ==
  /\ At(w, b, "conn")
  /\ interest' = interest \cup {<<b, job[w]>>}
  /\ Goto(w, "load")
  /\ job' = [job EXCEPT ![w] = INPUT_STREAM]
  /\ UNCHANGED <<queue, inner, accept, fd_table, outcome, wakers, channel>>

\* The connection is over: its task is dropped, which wakes a future that
\* still waits for a response.
ConnReady(w, b) ==
  /\ At(w, b, "conn")
  /\ connections' = [connections EXCEPT ![b][job[w]] = "Empty"]
  /\ interest' = interest \ {<<b, job[w]>>}
  /\ channel' = [channel EXCEPT ![b] = @ \ {job[w]}]
  /\ IF job[w] \in channel[b] THEN Wake(w, b, INPUT_STREAM) ELSE UNCHANGED queue
  /\ Goto(w, "done")
  /\ job' = [job EXCEPT ![w] = INPUT_STREAM]
  /\ UNCHANGED <<refcounts, futures, tcp_streams, accept, fd_table, outcome, wakers>>

\* An allocation of the connection's task fails.
ConnFails(w, b) ==
  /\ "oom" \in Faults
  /\ At(w, b, "conn")
  /\ Goto(w, "clean_fd")
  /\ job' = [job EXCEPT ![w] = INPUT_STREAM]
  /\ UNCHANGED <<queue, inner, accept, external>>

\* hyper panics: nothing catches it, and the worker is gone for good with
\* its bucket.
ConnPanics(w, b) ==
  /\ "panic" \in Faults
  /\ At(w, b, "conn")
  /\ Goto(w, "crashed")
  /\ UNCHANGED <<queue, inner, accept, job, external>>

----------------------------------------------------------------------------
(* The end of a task, and the end of a bucket. *)

\* Mutant: the count is kept in a wider, signed integer.
CountDown_Signed(n) == n - 1

\* *bucket_guard -= 1, in the same build.
CountDown(n) == IF n = 0 THEN U8_MAX ELSE n - 1

\* Mutant: the run ends with every task.
LastTask_Any(b) == TRUE

\* run_bucket's test for the last task of a bucket.
LastTask(b) == refcounts[b] = 1

\* Poll::Ready(()): the last task of the bucket wipes its memory and ends
\* the run; another one is only counted.
TaskDone(w, b) ==
  /\ At(w, b, "done")
  /\ refcounts' = [refcounts EXCEPT ![b] = CountDown(@)]
  /\ Goto(w, IF LastTask(b) THEN "give_up" ELSE "load")
  /\ UNCHANGED <<queue, futures, tcp_streams, connections, accept, job, external>>

\* send_error_response reaches whoever has the descriptor; its failure to
\* write is ignored.
ErrorResponse(f) ==
  [r \in Requests |-> IF r = OwnerOf(f) THEN "cancelled" ELSE outcome[r]]

\* cleanup_bucket: the error response, after which the descriptor is closed.
CleanFd(w, b) ==
  /\ At(w, b, "clean_fd")
  /\ outcome' = ErrorResponse(tcp_streams[b])
  /\ fd_table' = Closed(tcp_streams[b])
  /\ Goto(w, "clean_conns")
  /\ UNCHANGED <<queue, inner, accept, job, interest, wakers, channel>>

\* Mutant: cleanup_bucket drops the connections but leaves reservations.
EmptySlots_Occupied(b) ==
  [o \in Connections |-> IF connections[b][o] = "Reserved" THEN "Reserved" ELSE "Empty"]

\* The slots cleanup_bucket leaves behind.
EmptySlots(b) == [o \in Connections |-> "Empty"]

\* cleanup_bucket: the connections are dropped.  One that owes the future a
\* response wakes it as it is dropped.
CleanConnections(w, b) ==
  /\ At(w, b, "clean_conns")
  /\ connections' = [connections EXCEPT ![b] = EmptySlots(b)]
  /\ interest' = interest \ ({b} \X Connections)
  /\ channel' = [channel EXCEPT ![b] = {}]
  /\ IF channel[b] # {} THEN Wake(w, b, INPUT_STREAM) ELSE UNCHANGED queue
  /\ Goto(w, "clean_future")
  /\ UNCHANGED <<refcounts, futures, tcp_streams, accept, job, fd_table, outcome, wakers>>

\* cleanup_bucket: the future is dropped and the memory wiped.
CleanFuture(w, b) ==
  /\ At(w, b, "clean_future")
  /\ futures' = [futures EXCEPT ![b] = None]
  /\ interest' = interest \ {<<b, INPUT_STREAM>>}
  /\ Goto(w, "clean_count")
  /\ UNCHANGED <<queue, refcounts, tcp_streams, connections, accept, job, fd_table,
                 outcome, wakers, channel>>

\* cleanup_bucket: the bucket is free for the next request.  The worker runs
\* it again without giving it up.
CleanCount(w, b) ==
  /\ At(w, b, "clean_count")
  /\ refcounts' = [refcounts EXCEPT ![b] = 0]
  /\ Goto(w, "load")
  /\ UNCHANGED <<queue, futures, tcp_streams, connections, accept, job, external>>

----------------------------------------------------------------------------

MainThread ==
  \/ TryClaim \/ Reject \/ Set \/ StoreFd \/ Execute
  \/ \E r \in Requests : Accept(r)

ReactorThread ==
  \E b \in Buckets, o \in Offsets : Collect(b, o) \/ CallWaker(b, o)

RunBucket(w, b) ==
  \/ ClaimBucket(w, b) \/ DequeueNone(w, b) \/ Dispatch(w, b) \/ InputStreamRace(w, b)
  \/ GoAgain(w, b) \/ GiveUp(w, b)
  \/ \E o \in Offsets : Dequeue(w, b, o)
  \/ TaskDone(w, b)
  \/ CleanFd(w, b) \/ CleanConnections(w, b) \/ CleanFuture(w, b) \/ CleanCount(w, b)

PollTask(w, b) ==
  \/ HandshakeNoSlot(w, b) \/ Handshaken(w, b)
  \/ \E o \in Connections : Handshake(w, b, o) \/ WakeConnection(w, b, o)
  \/ \E socket \in SUBSET {<<b, INPUT_STREAM>>}, responses \in SUBSET Connections :
       MainPending(w, b, socket, responses)
  \/ MainReady(w, b) \/ MainFails(w, b)
  \/ Respond(w, b) \/ ConnPending(w, b) \/ ConnReady(w, b)
  \/ ConnFails(w, b) \/ ConnPanics(w, b)

Next ==
  \/ MainThread
  \/ ReactorThread
  \/ \E t \in Threads : Announce(t)
  \/ \E w \in Workers, b \in Buckets : RunBucket(w, b) \/ PollTask(w, b)

Spec == Init /\ [][Next]_vars

\* The threads run, the collected wakers are called, and every socket that
\* is waited for becomes ready or is closed in the end.  A handler that is
\* polled again and again completes; a connection that is polled again and
\* again responds, and ends when its request is over.
FairSpec ==
  /\ Spec
  /\ WF_vars(TryClaim \/ Reject \/ Set \/ StoreFd \/ Execute \/ Announce(Main))
  /\ WF_vars(Announce(Reactor))
  /\ \A w \in Workers :
       WF_vars(Announce(w) \/ \E b \in Buckets : RunBucket(w, b) \/ PollTask(w, b))
  /\ \A b \in Buckets, o \in Offsets :
       /\ SF_vars(Collect(b, o) /\ <<b, o>> \notin interest')
       /\ SF_vars(CallWaker(b, o) /\ <<b, o>> \notin wakers')
  /\ \A b \in Buckets : SF_vars(\E w \in Workers : MainReady(w, b))
  /\ \A b \in Buckets, o \in Connections :
       /\ SF_vars(\E w \in Workers : job[w] = o /\ (Respond(w, b) \/ ConnReady(w, b)))
       /\ SF_vars(\E w \in Workers : job[w] = o /\ futures[b] = None /\ ConnReady(w, b))

----------------------------------------------------------------------------
(* Properties. *)

Labels ==
  {"wait", "load", "dispatch", "race", "main", "handshake", "conn", "done", "give_up",
   "clean_fd", "clean_conns", "clean_future", "clean_count", "dead", "locked_out",
   "crashed"}

\* Every variable has its type: counts are u8 even when they wrap around,
\* and a bucket's descriptor is one that was stored by set().
TypeOK ==
  /\ refcounts \in [Buckets -> 0 .. U8_MAX]
  /\ futures \in [Buckets -> Requests \cup {None}]
  /\ tcp_streams \in [Buckets -> Fds \cup {0}]
  /\ connections \in [Buckets -> [Connections -> {"Empty", "Reserved", "Occupied"}]]
  /\ main \in {"accept", "claim", "set", "store", "occupied", "enqueue", "panicked"}
  /\ request \in Requests \cup {None} /\ fd \in Fds \cup {0} /\ bucket \in Buckets
  /\ pc \in [Workers -> Labels]
  /\ job \in [Workers -> Offsets]
  /\ fd_table \in [Fds -> Requests \cup {None}]
  /\ outcome \in [Requests -> {"new", "open", "answered", "cancelled", "rejected"}]
  /\ interest \subseteq Buckets \X Offsets
  /\ wakers \subseteq Buckets \X Offsets
  /\ channel \in [Buckets -> SUBSET Connections]

LiveTasks(b) ==
  {o \in Offsets : IF o = INPUT_STREAM THEN futures[b] # None
                   ELSE connections[b][o] # "Empty"}

\* Tasks that are gone but still counted, and a claim without a task yet.
Uncounted(b) == {w \in holders[b] : pc[w] = "done"}
Claimed(b) == IF main = "set" /\ bucket = b THEN 1 ELSE 0

\* A worker is taking the bucket down.
TakenDown(b) ==
  \E w \in holders[b] : pc[w] \in {"clean_fd", "clean_conns", "clean_future", "clean_count"}

\* The count of a bucket is the number of its live tasks, so that its memory
\* is wiped, and the bucket claimed, exactly when no task is left.
RefcountExact ==
  \A b \in Buckets : ~TakenDown(b) =>
    refcounts[b] = Cardinality(LiveTasks(b)) + Cardinality(Uncounted(b)) + Claimed(b)

\* A worker polls the task, or is about to.  The future runs handshake().
Running(b, o) ==
  \E w \in holders[b] :
    \/ o = INPUT_STREAM /\ pc[w] \in {"main", "handshake"}
    \/ o = job[w] /\ pc[w] \in {"dispatch", "handshake", "conn"}

\* Something that happens outside of the bucket will wake the task.
Awaited(b, o) ==
  \/ <<b, o>> \in interest \cup wakers
  \/ o = INPUT_STREAM /\ \E c \in channel[b] : connections[b][c] = "Occupied"

\* A worker has been told of the bucket, or will be.
Due(b) == b \in announced \/ \E t \in Threads : b \in owed[t]

\* The worker that runs the bucket is gone.
Lost(b) == \E w \in holders[b] : pc[w] \in {"dead", "locked_out", "crashed"}

\* A worker is in the bucket, and will look for another job before it leaves.
Attended(b) ==
  ~Lost(b) /\ \E w \in holders[b] : pc[w] \notin {"wait", "give_up"}

\* set() has put the future in its place, and is not done with it.
Placed(b) == main \in {"store", "enqueue"} /\ bucket = b

\* No wake-up is lost: a task that is not done is queued in a bucket that a
\* worker will look into, runs, or has left a waker with something that will
\* use it.  It is not enough that its job is posted: a job that the last task
\* of an earlier request left behind is posted, and nobody is told of it.
NoTaskForgotten ==
  \A b \in Buckets : ~TakenDown(b) /\ ~Lost(b) =>
    \A o \in LiveTasks(b) :
      \/ o \in pending[b] /\ (Due(b) \/ Attended(b))
      \/ Running(b, o) \/ Awaited(b, o)
      \/ o = INPUT_STREAM /\ Placed(b)

\* A request that has a future has its own socket to answer an error with,
\* from the moment set() has stored it.
OwnDescriptor ==
  \A b \in Buckets :
    futures[b] # None /\ ~TakenDown(b) /\ ~(main = "store" /\ bucket = b) =>
      OwnerOf(tcp_streams[b]) = futures[b]

\* run_bucket never takes the job of a future that is gone, which ends in
\* panic!("input stream race condition"), nor of one that set() is still
\* putting in its place, which ends in the death of the worker.
NoInputStreamRace == \A w \in Workers : pc[w] \notin {"race", "locked_out"}

\* No worker dies of a connection slot that is only reserved.
NoWorkerDies == \A w \in Workers : pc[w] # "dead"

\* The accept loop never dies of the lock or of the assertion in set().
MainNeverPanics == main # "panicked"

\* "when a particular request does exceed its memory limit, only that
\* request gets cancelled" (README.md): an error response goes to the client
\* whose future the bucket holds.
OnlyThatRequestCancelled ==
  [][\A r \in Requests : outcome[r] # outcome'[r] /\ outcome'[r] = "cancelled" =>
       \E w \in Workers, b \in Buckets : At(w, b, "clean_fd") /\ futures[b] = r]_vars

\* Every client that connects is answered or turned away, and every bucket is
\* freed: no wake-up of a future or of a connection is lost on its way from
\* the reactor, or from one task to the other, through the queue to a worker.
Served ==
  /\ \A r \in Requests : outcome[r] # "open"
  /\ \A b \in Buckets : refcounts[b] = 0

AllServedInTheEnd == []<>Served
=============================================================================
