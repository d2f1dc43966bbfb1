--------------------------- MODULE ExecutorProofs ---------------------------
(***************************************************************************)
(* Proofs about Executor, for any number of workers, buckets, connections, *)
(* clients and descriptors.                                                *)
(***************************************************************************)
EXTENDS ExecutorInv, FiniteSetTheorems, TLAPS

----------------------------------------------------------------------------
(* Facts about the constants and the operators of the model. *)

LEMMA Constant ==
  /\ 0 \in Buckets /\ Buckets \subseteq Nat
  /\ INPUT_STREAM \in Offsets /\ INPUT_STREAM \notin Connections
  /\ Connections \subseteq Offsets /\ Offsets = {INPUT_STREAM} \cup Connections
  /\ 0 \notin Fds /\ U8_MAX \in Nat
  BY ExecutorAssumption DEF Buckets, Offsets, Connections, INPUT_STREAM

\* A set of numbers that is not empty has a smallest element.
LEMMA Smallest ==
  ASSUME NEW S \in SUBSET Nat, S # {}
  PROVE  \E m \in S : \A n \in S : m <= n
<1> DEFINE R == StrictSubsetOrdering(Nat)
           F == FiniteSubsetsOf(Nat)
           T == {0 .. n : n \in S}
<1>1. IsWellFoundedOn(R, F)
  BY FS_StrictSubsetOrderingWellFounded
<1>2. T \subseteq F /\ T # {}
  <2>1. ASSUME NEW n \in S PROVE 0 .. n \in F
    BY FS_Interval DEF FiniteSubsetsOf
  <2>2. QED
    BY <2>1
<1>3. PICK x \in T : \A y \in T : ~(<<y, x>> \in R)
  <2> HIDE DEF R, F, T
  <2>1. QED
    BY <1>1, <1>2, WFMin
<1>4. PICK m \in S : x = 0 .. m
  BY <1>3
<1>5. ASSUME NEW n \in S, n < m PROVE FALSE
  <2>1. 0 .. n \in T
    OBVIOUS
  <2>2. 0 .. n \subseteq 0 .. m /\ 0 .. n # 0 .. m
    <3>1. m \in 0 .. m /\ m \notin 0 .. n
      BY <1>5
    <3>2. QED
      BY <3>1, <1>5
  <2>3. <<0 .. n, 0 .. m>> \in R
    BY <2>2 DEF StrictSubsetOrdering
  <2>4. QED
    BY <2>1, <2>3, <1>3, <1>4
<1>6. QED
  BY <1>5

\* The kernel's choice is a descriptor that is free.
LEMMA LowestFreeIsFree ==
  ASSUME \E f \in Fds : fd_table[f] = None
  PROVE  LowestFree \in Fds /\ fd_table[LowestFree] = None
<1> DEFINE S == {f \in Fds : fd_table[f] = None}
<1>1. S \in SUBSET Nat /\ S # {}
  BY ExecutorAssumption
<1>2. PICK m \in S : \A n \in S : m <= n
  BY <1>1, Smallest
<1>3. QED
  BY <1>2 DEF LowestFree

----------------------------------------------------------------------------
(* The queue. *)

\* A wake-up is a post, or nothing.
LEMMA WakePosts ==
  ASSUME NEW t \in Threads, NEW b \in Buckets, NEW o \in Offsets, Wake(t, b, o)
  PROVE  [WQ!Next]_queue
  BY DEF Wake, WQ!Next, queue

\* Every step of the executor is a step of the queue's specification.
LEMMA QueueStep ==
  ASSUME TypeOK, QueueTypeOK, [Next]_vars
  PROVE  [WQ!Next]_queue
<1> USE Constant
<1>0. bucket \in Buckets /\ job \in [Workers -> Offsets] /\ owed \in [Threads -> SUBSET Buckets]
      /\ Threads = Workers \cup {Main, Reactor}
  BY DEF TypeOK, QueueTypeOK, Threads
<1>1. CASE MainThread
  BY <1>0, <1>1, WakePosts DEF MainThread, TryClaim, Reject, Set, StoreFd, Execute, Accept, queue
<1>2. CASE ReactorThread
  BY <1>0, <1>2, WakePosts DEF ReactorThread, Collect, CallWaker, queue
<1>3. ASSUME NEW t \in Threads, Announce(t) PROVE WQ!Next
  <2>1. PICK b \in owed[t] : WQ!Announce(t, b)
    BY <1>3 DEF Announce
  <2>2. QED
    BY <1>0, <2>1 DEF WQ!Next
<1>4. ASSUME NEW w \in Workers, NEW b \in Buckets, RunBucket(w, b) PROVE [WQ!Next]_queue
  <2>1. CASE ClaimBucket(w, b) \/ GoAgain(w, b) \/ GiveUp(w, b)
             \/ \E o \in Offsets : Dequeue(w, b, o)
    BY <2>1 DEF ClaimBucket, GoAgain, GiveUp, Dequeue, WQ!Next
  <2>2. CASE CleanConnections(w, b)
    BY <1>0, <2>2, WakePosts DEF CleanConnections
  <2>3. QED
    BY <1>4, <2>1, <2>2
       DEF RunBucket, DequeueNone, Dispatch, InputStreamRace, TaskDone, CleanFd, CleanFuture,
           CleanCount
<1>5. ASSUME NEW w \in Workers, NEW b \in Buckets, PollTask(w, b) PROVE [WQ!Next]_queue
  <2>1. CASE Handshaken(w, b) \/ \E o \in Connections : WakeConnection(w, b, o)
    BY <1>0, <2>1, WakePosts DEF Handshaken, WakeConnection
  <2>2. CASE Respond(w, b) \/ ConnReady(w, b)
    BY <1>0, <2>2, WakePosts DEF Respond, ConnReady
  <2>3. QED
    BY <1>5, <2>1, <2>2
       DEF PollTask, HandshakeNoSlot, Handshake, MainPending, MainReady, MainFails, ConnPending,
           ConnFails, ConnPanics
<1>6. CASE UNCHANGED vars
  BY <1>6 DEF vars
<1>7. QED
  BY <1>1, <1>2, <1>3, <1>4, <1>5, <1>6 DEF Next

\* The queue's specification keeps its types, and every bucket its one holder.
LEMMA QueueNext ==
  ASSUME QueueTypeOK, OneHolder, [WQ!Next]_queue
  PROVE  QueueTypeOK' /\ OneHolder'
<1> USE DEF QueueTypeOK, OneHolder
<1>1. ASSUME NEW t \in Threads, NEW b \in Buckets, WQ!Announce(t, b)
      PROVE  QueueTypeOK' /\ OneHolder'
  BY <1>1 DEF WQ!Announce
<1>2. ASSUME NEW t \in Threads, NEW b \in Buckets, NEW o \in Offsets, WQ!Post(t, b, o)
      PROVE  QueueTypeOK' /\ OneHolder'
  BY <1>2 DEF WQ!Post
<1>3. ASSUME NEW w \in Workers, NEW b \in Buckets, WQ!Claim(w, b)
      PROVE  QueueTypeOK' /\ OneHolder'
  BY <1>3 DEF WQ!Claim
<1>4. ASSUME NEW w \in Workers, NEW b \in Buckets, WQ!Again(w, b)
      PROVE  QueueTypeOK' /\ OneHolder'
  BY <1>4 DEF WQ!Again
<1>5. ASSUME NEW w \in Workers, NEW b \in Buckets, WQ!Release(w, b)
      PROVE  QueueTypeOK' /\ OneHolder'
  BY <1>5 DEF WQ!Release
<1>6. ASSUME NEW w \in Workers, NEW b \in Buckets, NEW o \in Offsets, WQ!Take(w, b, o)
      PROVE  QueueTypeOK' /\ OneHolder'
  BY <1>6 DEF WQ!Take
<1>7. CASE UNCHANGED queue
  BY <1>7 DEF queue
<1>8. QED
  BY <1>1, <1>2, <1>3, <1>4, <1>5, <1>6, <1>7 DEF WQ!Next

----------------------------------------------------------------------------
(* Types. *)

LEMMA TypeInit == Init => TypeOK /\ QueueTypeOK /\ OneHolder
<1> SUFFICES ASSUME Init PROVE TypeOK /\ QueueTypeOK /\ OneHolder
  OBVIOUS
<1>1. TypeOK
  BY Constant DEF Init, TypeOK, Labels
<1>2. QueueTypeOK /\ OneHolder
  BY DEF Init, WQ!Init, QueueTypeOK, OneHolder
<1>3. QED
  BY <1>1, <1>2

\* A count never leaves a u8, even when it wraps around.
LEMMA CountType ==
  ASSUME NEW n \in 0 .. U8_MAX
  PROVE  CountDown(n) \in 0 .. U8_MAX /\ (n + 1) % (U8_MAX + 1) \in 0 .. U8_MAX
  BY ExecutorAssumption DEF CountDown

LEMMA MainThreadType ==
  ASSUME TypeOK, MainThread
  PROVE  TypeOK'
<1> USE Constant DEF TypeOK
<1>1. ASSUME NEW r \in Requests, Accept(r) PROVE TypeOK'
  BY <1>1, LowestFreeIsFree DEF Accept, queue, inner, worker
<1>2. CASE TryClaim
  BY <1>2, ExecutorAssumption DEF TryClaim, queue, worker, external
<1>3. CASE Reject
  BY <1>3 DEF Reject, Closed, queue, inner, worker
<1>4. CASE Set
  BY <1>4 DEF Set, queue, worker, external
<1>5. CASE StoreFd
  BY <1>5 DEF StoreFd, StoredFd, queue, worker, external
<1>6. CASE Execute
  BY <1>6 DEF Execute, inner, worker, external
<1>7. QED
  BY <1>1, <1>2, <1>3, <1>4, <1>5, <1>6 DEF MainThread

LEMMA ReactorThreadType ==
  ASSUME TypeOK, ReactorThread
  PROVE  TypeOK'
<1> USE DEF TypeOK
<1>1. ASSUME NEW b \in Buckets, NEW o \in Offsets, Collect(b, o) PROVE TypeOK'
  BY <1>1 DEF Collect, WS!Take, WS!Rest, queue, inner, accept, worker
<1>2. ASSUME NEW b \in Buckets, NEW o \in Offsets, CallWaker(b, o) PROVE TypeOK'
  BY <1>2 DEF CallWaker, WS!Call, WS!Rest, inner, accept, worker
<1>3. QED
  BY <1>1, <1>2 DEF ReactorThread

LEMMA RunBucketType ==
  ASSUME TypeOK, NEW w \in Workers, NEW b \in Buckets, RunBucket(w, b)
  PROVE  TypeOK'
<1> USE Constant DEF TypeOK, Labels, Goto, queue, inner, accept, worker, external
<1>1. CASE ClaimBucket(w, b)
  BY <1>1 DEF ClaimBucket
<1>2. CASE DequeueNone(w, b)
  BY <1>2 DEF DequeueNone
<1>3. CASE Dispatch(w, b)
  BY <1>3 DEF Dispatch, AfterDeath
<1>4. CASE InputStreamRace(w, b)
  BY <1>4 DEF InputStreamRace
<1>5. CASE GoAgain(w, b)
  BY <1>5 DEF GoAgain
<1>6. CASE GiveUp(w, b)
  BY <1>6 DEF GiveUp
<1>7. ASSUME NEW o \in Offsets, Dequeue(w, b, o) PROVE TypeOK'
  BY <1>7 DEF Dequeue
<1>8. CASE TaskDone(w, b)
  BY <1>8, CountType DEF TaskDone
<1>9. CASE CleanFd(w, b)
  BY <1>9 DEF CleanFd, ErrorResponse, Closed
<1>10. CASE CleanConnections(w, b)
  BY <1>10 DEF CleanConnections, EmptySlots
<1>11. CASE CleanFuture(w, b)
  BY <1>11 DEF CleanFuture
<1>12. CASE CleanCount(w, b)
  BY <1>12 DEF CleanCount
<1>13. QED
  BY <1>1, <1>2, <1>3, <1>4, <1>5, <1>6, <1>7, <1>8, <1>9, <1>10, <1>11, <1>12
     DEF RunBucket

LEMMA PollTaskType ==
  ASSUME TypeOK, NEW w \in Workers, NEW b \in Buckets, PollTask(w, b)
  PROVE  TypeOK'
<1> USE Constant DEF TypeOK, Labels, Goto, queue, inner, accept, worker, external
<1>1. CASE HandshakeNoSlot(w, b)
  BY <1>1, CountType DEF HandshakeNoSlot, CountConnection
<1>2. CASE Handshaken(w, b)
  BY <1>2 DEF Handshaken
<1>3. ASSUME NEW o \in Connections, Handshake(w, b, o) PROVE TypeOK'
  BY <1>3, CountType DEF Handshake, CountConnection
<1>4. ASSUME NEW o \in Connections, WakeConnection(w, b, o) PROVE TypeOK'
  BY <1>4 DEF WakeConnection
<1>5. ASSUME NEW socket \in SUBSET {<<b, INPUT_STREAM>>}, NEW responses \in SUBSET Connections,
             MainPending(w, b, socket, responses)
      PROVE  TypeOK'
  BY <1>5 DEF MainPending
<1>6. CASE MainReady(w, b)
  BY <1>6 DEF MainReady, DuplicateDropped, Closed
<1>7. CASE MainFails(w, b)
  BY <1>7 DEF MainFails
<1>8. CASE Respond(w, b)
  BY <1>8 DEF Respond
<1>9. CASE ConnPending(w, b)
  BY <1>9 DEF ConnPending
<1>10. CASE ConnReady(w, b)
  BY <1>10 DEF ConnReady
<1>11. CASE ConnFails(w, b)
  BY <1>11 DEF ConnFails
<1>12. CASE ConnPanics(w, b)
  BY <1>12 DEF ConnPanics
<1>13. QED
  BY <1>1, <1>2, <1>3, <1>4, <1>5, <1>6, <1>7, <1>8, <1>9, <1>10, <1>11, <1>12
     DEF PollTask

\* What every step keeps of the types, and of the queue's lock.
LEMMA TypeNext ==
  ASSUME TypeOK, QueueTypeOK, OneHolder, [Next]_vars
  PROVE  TypeOK' /\ QueueTypeOK' /\ OneHolder'
<1>1. QueueTypeOK' /\ OneHolder'
  BY QueueStep, QueueNext
<1>2. ASSUME NEW t \in Threads, Announce(t) PROVE TypeOK'
  BY <1>2 DEF Announce, TypeOK, inner, accept, worker, external
<1>3. CASE UNCHANGED vars
  BY <1>1, <1>3 DEF vars, TypeOK, inner, accept, worker, external
<1>4. TypeOK'
  BY <1>2, <1>3, MainThreadType, ReactorThreadType, RunBucketType, PollTaskType DEF Next
<1>5. QED
  BY <1>1, <1>4

\* The executor keeps the types of its variables, whatever goes wrong: the
\* counts stay within a u8, and a worker and the accept loop are always at one
\* of their labels.
THEOREM ExecutorTypeCorrect == Spec => []TypeOK
<1> DEFINE Inv == TypeOK /\ QueueTypeOK /\ OneHolder
<1>1. Init => Inv
  BY TypeInit
<1>2. Inv /\ [Next]_vars => Inv'
  BY TypeNext
<1>3. QED
  BY <1>1, <1>2, PTL DEF Spec

\* The executor uses the queue as the queue's specification allows: every
\* behaviour of it is one of WorkQueue, and a bucket has one worker at a time.
THEOREM ExecutorUsesQueue == Spec => WQ!Spec /\ []OneHolder
<1> DEFINE Inv == TypeOK /\ QueueTypeOK /\ OneHolder
<1>1. Init => Inv /\ WQ!Init
  BY TypeInit DEF Init
<1>2. Inv /\ [Next]_vars => Inv' /\ [WQ!Next]_WQ!vars
  BY TypeNext, QueueStep DEF queue, WQ!vars
<1>3. QED
  BY <1>1, <1>2, PTL DEF Spec, WQ!Spec

----------------------------------------------------------------------------
(* A step concerns one bucket. *)

\* Nothing about a bucket changes.
Same(c) ==
  /\ pending'[c] = pending[c] /\ holders'[c] = holders[c]
  /\ refcounts'[c] = refcounts[c] /\ futures'[c] = futures[c]
  /\ tcp_streams'[c] = tcp_streams[c] /\ connections'[c] = connections[c]
  /\ channel'[c] = channel[c]
  /\ \A v \in holders[c] : pc'[v] = pc[v] /\ job'[v] = job[v]
  /\ \A o \in Offsets : <<c, o>> \in interest' <=> <<c, o>> \in interest
  /\ \A o \in Offsets : <<c, o>> \in wakers' <=> <<c, o>> \in wakers
  /\ main' = "set" /\ bucket' = c <=> main = "set" /\ bucket = c
  /\ main' = "store" /\ bucket' = c <=> main = "store" /\ bucket = c
  /\ main' = "enqueue" /\ bucket' = c <=> main = "enqueue" /\ bucket = c

\* What a wake-up does, whether or not the job was already posted.
LEMMA WakeEffect ==
  ASSUME QueueTypeOK, NEW t \in Threads, NEW b \in Buckets, NEW o \in Offsets, Wake(t, b, o)
  PROVE  pending' = [pending EXCEPT ![b] = @ \cup {o}] /\ holders' = holders
  BY DEF QueueTypeOK, Wake, WQ!Post, queue

LEMMA IsThread ==
  /\ Main \in Threads /\ Reactor \in Threads
  /\ \A w \in Workers : w \in Threads
  BY DEF Threads

\* A worker that runs a bucket is its only holder, and holds no other.
LEMMA OnlyHolder ==
  ASSUME QueueTypeOK, OneHolder, NEW b \in Buckets, NEW w \in holders[b]
  PROVE  holders[b] = {w} /\ \A c \in Buckets : c # b => w \notin holders[c]
  BY DEF QueueTypeOK, OneHolder

LEMMA RunBucketFrame ==
  ASSUME TypeOK, QueueTypeOK, OneHolder,
         NEW w \in Workers, NEW b \in Buckets, RunBucket(w, b),
         NEW c \in Buckets, c # b
  PROVE  Same(c)
<1> USE OnlyHolder DEF TypeOK, QueueTypeOK, Same, Goto, At, queue, inner, accept, worker, external
<1>1. CASE ClaimBucket(w, b)
  BY <1>1 DEF ClaimBucket, WQ!Claim
<1>2. CASE DequeueNone(w, b)
  BY <1>2 DEF DequeueNone
<1>3. CASE Dispatch(w, b)
  BY <1>3 DEF Dispatch
<1>4. CASE InputStreamRace(w, b)
  BY <1>4 DEF InputStreamRace
<1>5. CASE GoAgain(w, b)
  BY <1>5 DEF GoAgain, WQ!Again
<1>6. CASE GiveUp(w, b)
  BY <1>6 DEF GiveUp, WQ!Release
<1>7. ASSUME NEW o \in Offsets, Dequeue(w, b, o) PROVE Same(c)
  BY <1>7 DEF Dequeue, WQ!Take
<1>8. CASE TaskDone(w, b)
  BY <1>8 DEF TaskDone
<1>9. CASE CleanFd(w, b)
  BY <1>9 DEF CleanFd
<1>10. CASE CleanConnections(w, b)
  <2>1. pending'[c] = pending[c] /\ holders' = holders
    BY <1>10, WakeEffect, IsThread, Constant DEF CleanConnections
  <2>2. QED
    BY <1>10, <2>1 DEF CleanConnections
<1>11. CASE CleanFuture(w, b)
  BY <1>11 DEF CleanFuture
<1>12. CASE CleanCount(w, b)
  BY <1>12 DEF CleanCount
<1>13. QED
  BY <1>1, <1>2, <1>3, <1>4, <1>5, <1>6, <1>7, <1>8, <1>9, <1>10, <1>11, <1>12
     DEF RunBucket

LEMMA PollTaskFrame ==
  ASSUME TypeOK, QueueTypeOK, OneHolder,
         NEW w \in Workers, NEW b \in Buckets, PollTask(w, b),
         NEW c \in Buckets, c # b
  PROVE  Same(c)
<1> USE OnlyHolder, IsThread, Constant
    DEF TypeOK, QueueTypeOK, Same, Goto, At, queue, inner, accept, worker, external
<1>1. CASE HandshakeNoSlot(w, b)
  BY <1>1 DEF HandshakeNoSlot, CountConnection
<1>2. CASE Handshaken(w, b)
  <2>1. pending'[c] = pending[c] /\ holders' = holders
    BY <1>2, WakeEffect DEF Handshaken
  <2>2. QED
    BY <1>2, <2>1 DEF Handshaken
<1>3. ASSUME NEW o \in Connections, Handshake(w, b, o) PROVE Same(c)
  BY <1>3 DEF Handshake, CountConnection
<1>4. ASSUME NEW o \in Connections, WakeConnection(w, b, o) PROVE Same(c)
  <2>1. pending'[c] = pending[c] /\ holders' = holders
    BY <1>4, WakeEffect DEF WakeConnection
  <2>2. QED
    BY <1>4, <2>1 DEF WakeConnection
<1>5. ASSUME NEW socket \in SUBSET {<<b, INPUT_STREAM>>}, NEW responses \in SUBSET Connections,
             MainPending(w, b, socket, responses)
      PROVE  Same(c)
  BY <1>5 DEF MainPending
<1>6. CASE MainReady(w, b)
  BY <1>6 DEF MainReady
<1>7. CASE MainFails(w, b)
  BY <1>7 DEF MainFails
<1>8. CASE Respond(w, b)
  <2>1. pending'[c] = pending[c] /\ holders' = holders
    BY <1>8, WakeEffect DEF Respond
  <2>2. QED
    BY <1>8, <2>1 DEF Respond
<1>9. CASE ConnPending(w, b)
  BY <1>9 DEF ConnPending
<1>10. CASE ConnReady(w, b)
  <2>1. pending'[c] = pending[c] /\ holders' = holders
    BY <1>10, WakeEffect DEF ConnReady
  <2>2. QED
    BY <1>10, <2>1 DEF ConnReady
<1>11. CASE ConnFails(w, b)
  BY <1>11 DEF ConnFails
<1>12. CASE ConnPanics(w, b)
  BY <1>12 DEF ConnPanics
<1>13. QED
  BY <1>1, <1>2, <1>3, <1>4, <1>5, <1>6, <1>7, <1>8, <1>9, <1>10, <1>11, <1>12
     DEF PollTask

LEMMA ReactorThreadFrame ==
  ASSUME TypeOK, QueueTypeOK,
         NEW b \in Buckets, NEW o \in Offsets, Collect(b, o) \/ CallWaker(b, o),
         NEW c \in Buckets, c # b
  PROVE  Same(c)
<1> USE DEF TypeOK, QueueTypeOK, Same, queue, inner, accept, worker
<1>1. CASE Collect(b, o)
  BY <1>1 DEF Collect, WS!Take, WS!Rest
<1>2. CASE CallWaker(b, o)
  <2>1. pending'[c] = pending[c] /\ holders' = holders
    BY <1>2, WakeEffect, IsThread DEF CallWaker
  <2>2. QED
    BY <1>2, <2>1 DEF CallWaker, WS!Call, WS!Rest
<1>3. QED
  BY <1>1, <1>2

\* The accept loop changes only the bucket it has claimed.
LEMMA MainThreadFrame ==
  ASSUME TypeOK, QueueTypeOK, MainThread,
         NEW c \in Buckets,
         c # bucket \/ main \notin {"claim", "set", "store", "occupied", "enqueue"}
  PROVE  Same(c)
<1> USE DEF TypeOK, QueueTypeOK, Same, queue, inner, accept, worker, external
<1>1. ASSUME NEW r \in Requests, Accept(r) PROVE Same(c)
  BY <1>1 DEF Accept
<1>2. CASE TryClaim
  BY <1>2 DEF TryClaim
<1>3. CASE Reject
  BY <1>3 DEF Reject
<1>4. CASE Set
  BY <1>4 DEF Set
<1>5. CASE StoreFd
  BY <1>5 DEF StoreFd
<1>6. CASE Execute
  <2>1. c # bucket /\ pending'[c] = pending[c] /\ holders' = holders
    BY <1>6, WakeEffect, IsThread, Constant DEF Execute
  <2>2. QED
    BY <1>6, <2>1 DEF Execute
<1>7. QED
  BY <1>1, <1>2, <1>3, <1>4, <1>5, <1>6 DEF MainThread

\* An announcement concerns no bucket's tasks.
LEMMA AnnounceFrame ==
  ASSUME NEW t \in Threads, Announce(t) \/ UNCHANGED vars, NEW c \in Buckets
  PROVE  Same(c)
  BY DEF Announce, WQ!Announce, Same, vars, queue, inner, accept, worker, external

----------------------------------------------------------------------------
(* Reserved slots. *)

\* A bucket that a step does not concern keeps its reservations inside.
LEMMA ReservedElsewhere ==
  ASSUME NEW c \in Buckets, ReservedInside(c), Same(c)
  PROVE  ReservedInside(c)'
  BY DEF ReservedInside, Same

\* The accept loop, the reactor and an announcement touch no slot.
LEMMA ReservedKept ==
  ASSUME TypeOK, NEW c \in Buckets, ReservedInside(c),
         pc' = pc, job' = job, holders' = holders, connections' = connections
  PROVE  ReservedInside(c)'
  BY DEF ReservedInside

LEMMA RunBucketReserved ==
  ASSUME WorkerInv, NEW w \in Workers, NEW b \in Buckets, RunBucket(w, b)
  PROVE  NoWorkerDies' /\ ReservedInside(b)'
<1> USE OnlyHolder, Constant
    DEF WorkerInv, TypeOK, QueueTypeOK, NoWorkerDies, ReservedInside, Goto, At,
        queue, inner, accept, worker, external
<1>1. CASE ClaimBucket(w, b)
  BY <1>1 DEF ClaimBucket, WQ!Claim
<1>2. CASE DequeueNone(w, b)
  BY <1>2 DEF DequeueNone
<1>3. CASE Dispatch(w, b)
  <2>1. holders[b] = {w} /\ \A o \in Connections : connections[b][o] # "Reserved"
    BY <1>3 DEF Dispatch
  <2>2. QED
    BY <1>3, <2>1, Constant DEF Dispatch, AfterDeath
<1>4. CASE InputStreamRace(w, b)
  BY <1>4 DEF InputStreamRace
<1>5. CASE GoAgain(w, b)
  BY <1>5 DEF GoAgain, WQ!Again
<1>6. CASE GiveUp(w, b)
  BY <1>6 DEF GiveUp, WQ!Release
<1>7. ASSUME NEW o \in Offsets, Dequeue(w, b, o) PROVE NoWorkerDies' /\ ReservedInside(b)'
  BY <1>7 DEF Dequeue, WQ!Take
<1>8. CASE TaskDone(w, b)
  BY <1>8 DEF TaskDone
<1>9. CASE CleanFd(w, b)
  BY <1>9 DEF CleanFd
<1>10. CASE CleanConnections(w, b)
  BY <1>10 DEF CleanConnections, EmptySlots
<1>11. CASE CleanFuture(w, b)
  BY <1>11 DEF CleanFuture
<1>12. CASE CleanCount(w, b)
  BY <1>12 DEF CleanCount
<1>13. QED
  BY <1>1, <1>2, <1>3, <1>4, <1>5, <1>6, <1>7, <1>8, <1>9, <1>10, <1>11, <1>12
     DEF RunBucket

LEMMA PollTaskReserved ==
  ASSUME WorkerInv, NEW w \in Workers, NEW b \in Buckets, PollTask(w, b)
  PROVE  NoWorkerDies' /\ ReservedInside(b)'
<1> USE OnlyHolder, IsThread, Constant
    DEF WorkerInv, TypeOK, QueueTypeOK, NoWorkerDies, ReservedInside, Goto, At,
        queue, inner, accept, worker, external
<1>1. CASE HandshakeNoSlot(w, b)
  BY <1>1 DEF HandshakeNoSlot
<1>2. CASE Handshaken(w, b)
  <2>1. holders[b] = {w} /\ holders' = holders
    BY <1>2, WakeEffect DEF Handshaken
  <2>2. QED
    BY <1>2, <2>1 DEF Handshaken
<1>3. ASSUME NEW o \in Connections, Handshake(w, b, o) PROVE NoWorkerDies' /\ ReservedInside(b)'
  BY <1>3 DEF Handshake
<1>4. ASSUME NEW o \in Connections, WakeConnection(w, b, o)
      PROVE  NoWorkerDies' /\ ReservedInside(b)'
  <2>1. holders' = holders
    BY <1>4, WakeEffect DEF WakeConnection
  <2>2. QED
    BY <1>4, <2>1 DEF WakeConnection
<1>5. ASSUME NEW socket \in SUBSET {<<b, INPUT_STREAM>>}, NEW responses \in SUBSET Connections,
             MainPending(w, b, socket, responses)
      PROVE  NoWorkerDies' /\ ReservedInside(b)'
  BY <1>5 DEF MainPending
<1>6. CASE MainReady(w, b)
  BY <1>6 DEF MainReady
<1>7. CASE MainFails(w, b)
  BY <1>7 DEF MainFails
<1>8. CASE Respond(w, b)
  <2>1. holders' = holders
    BY <1>8, WakeEffect DEF Respond
  <2>2. QED
    BY <1>8, <2>1 DEF Respond
<1>9. CASE ConnPending(w, b)
  BY <1>9 DEF ConnPending
<1>10. CASE ConnReady(w, b)
  <2>1. holders[b] = {w} /\ holders' = holders
    BY <1>10, WakeEffect DEF ConnReady
  <2>2. QED
    BY <1>10, <2>1 DEF ConnReady
<1>11. CASE ConnFails(w, b)
  BY <1>11 DEF ConnFails
<1>12. CASE ConnPanics(w, b)
  BY <1>12 DEF ConnPanics
<1>13. QED
  BY <1>1, <1>2, <1>3, <1>4, <1>5, <1>6, <1>7, <1>8, <1>9, <1>10, <1>11, <1>12
     DEF PollTask

\* The threads that are no workers leave the workers and the slots alone.
LEMMA OtherThreads ==
  ASSUME TypeOK, QueueTypeOK,
         MainThread \/ ReactorThread \/ (\E t \in Threads : Announce(t)) \/ UNCHANGED vars
  PROVE  pc' = pc /\ job' = job /\ holders' = holders /\ connections' = connections
<1> USE DEF queue, inner, worker
<1>1. CASE MainThread
  <2>1. CASE Execute
    BY <2>1, WakeEffect, IsThread, Constant DEF Execute, TypeOK
  <2>2. QED
    BY <1>1, <2>1 DEF MainThread, Accept, TryClaim, Reject, Set, StoreFd, external
<1>2. CASE ReactorThread
  <2>1. ASSUME NEW b \in Buckets, NEW o \in Offsets, CallWaker(b, o)
        PROVE  pc' = pc /\ job' = job /\ holders' = holders /\ connections' = connections
    BY <2>1, WakeEffect, IsThread DEF CallWaker
  <2>2. QED
    BY <1>2, <2>1 DEF ReactorThread, Collect
<1>3. ASSUME NEW t \in Threads, Announce(t)
      PROVE  pc' = pc /\ job' = job /\ holders' = holders /\ connections' = connections
  BY <1>3 DEF Announce, WQ!Announce
<1>4. CASE UNCHANGED vars
  BY <1>4 DEF vars
<1>5. QED
  BY <1>1, <1>2, <1>3, <1>4

LEMMA WorkerInvInit == Init => WorkerInv
  BY TypeInit DEF Init, WorkerInv, NoWorkerDies, ReservedInside

\* The invariant that holds under every fault is inductive.
LEMMA WorkerInvNext == WorkerInv /\ [Next]_vars => WorkerInv'
<1> SUFFICES ASSUME WorkerInv, [Next]_vars PROVE WorkerInv'
  OBVIOUS
<1>1. TypeOK' /\ QueueTypeOK' /\ OneHolder'
  BY TypeNext DEF WorkerInv
<1>2. NoWorkerDies' /\ \A b \in Buckets : ReservedInside(b)'
  <2>1. CASE MainThread \/ ReactorThread \/ (\E t \in Threads : Announce(t)) \/ UNCHANGED vars
    BY <2>1, OtherThreads, ReservedKept DEF WorkerInv, NoWorkerDies
  <2>2. ASSUME NEW w \in Workers, NEW b \in Buckets, RunBucket(w, b) \/ PollTask(w, b)
        PROVE  NoWorkerDies' /\ \A c \in Buckets : ReservedInside(c)'
    BY <2>2, RunBucketReserved, PollTaskReserved, RunBucketFrame, PollTaskFrame,
       ReservedElsewhere DEF WorkerInv
  <2>3. QED
    BY <2>1, <2>2 DEF Next
<1>3. QED
  BY <1>1, <1>2 DEF WorkerInv

\* Whatever goes wrong, a bucket is run by one worker at a time, and its slots
\* are reserved only while that worker is inside handshake() or cleans up.
THEOREM WorkerInvAlways == Spec => []WorkerInv
  BY WorkerInvInit, WorkerInvNext, PTL DEF Spec

\* No fault makes a worker die of a connection slot that is only reserved:
\* the job of a slot is not taken while its handshake() runs, because the
\* worker that runs it is the only one in the bucket.
THEOREM ExecutorNoWorkerDies == Spec => []NoWorkerDies
<1>1. WorkerInv => NoWorkerDies
  BY DEF WorkerInv
<1>2. QED
  BY <1>1, WorkerInvAlways, PTL

----------------------------------------------------------------------------
(* The one wake-up of a future, in the ordinary case. *)

\* The part of TaskInv about the tasks of one bucket.
Heard(b) == OneWakeUp(b) /\ OneResponse(b) /\ ConnectionsHeard(b) /\ OrderlyCleanup(b)

LEMMA OrdinaryFacts ==
  ASSUME Ordinary
  PROVE  MaxAwaits = 1 /\ (Connections = {} \/ "oom" \notin Faults)
  BY DEF Ordinary

\* A bucket has no more tasks than places for them.
LEMMA LiveFinite ==
  /\ IsFiniteSet(Offsets) /\ Cardinality(Offsets) = http_connections + 1
  /\ \A b : /\ IsFiniteSet(LiveTasks(b)) /\ Cardinality(LiveTasks(b)) \in Nat
            /\ Cardinality(LiveTasks(b)) <= http_connections + 1
<1>1. http_connections \in Nat /\ Offsets = 0 .. http_connections
  BY ExecutorAssumption DEF Offsets, Connections, INPUT_STREAM
<1>2. IsFiniteSet(Offsets) /\ Cardinality(Offsets) = http_connections + 1
  BY <1>1, FS_Interval
<1>3. ASSUME NEW b
      PROVE  /\ IsFiniteSet(LiveTasks(b)) /\ Cardinality(LiveTasks(b)) \in Nat
             /\ Cardinality(LiveTasks(b)) <= http_connections + 1
  <2>1. LiveTasks(b) \in SUBSET Offsets
    BY DEF LiveTasks
  <2>2. QED
    BY <1>2, <2>1, FS_Subset, FS_CardinalityType
<1>4. QED
  BY <1>2, <1>3

LEMMA OtherOffsets ==
  ASSUME NEW o \in Offsets
  PROVE  IsFiniteSet(Offsets \ {o}) /\ Cardinality(Offsets \ {o}) = http_connections
<1>1. http_connections \in Nat
  BY ExecutorAssumption
<1>2. IsFiniteSet(Offsets) /\ Cardinality(Offsets) = http_connections + 1
  BY LiveFinite
<1>3. QED
  BY <1>1, <1>2, FS_RemoveElement

\* A bucket that counts no task has none, and none is about to be counted
\* down.
LEMMA NothingCounted ==
  ASSUME NEW b \in Buckets, Counted(b), refcounts[b] = Claimed(b)
  PROVE  /\ LiveTasks(b) = {} /\ futures[b] = None /\ ~TakenDown(b)
         /\ \A w \in holders[b] : pc[w] # "done"
<1>1. ~TakenDown(b)
  BY DEF Counted, Claimed
<1>2. Cardinality(LiveTasks(b)) = 0 /\ ~HolderAt(b, {"done"})
  BY <1>1, LiveFinite DEF Counted, Count, Claimed
<1>3. LiveTasks(b) = {}
  BY <1>2, LiveFinite, FS_EmptySet
<1>4. QED
  BY <1>1, <1>2, <1>3, Constant DEF LiveTasks, HolderAt

\* A bucket that a step does not concern keeps its wake-ups.
LEMMA HeardElsewhere ==
  ASSUME TypeOK, NEW c \in Buckets, Heard(c), Same(c)
  PROVE  Heard(c)'
<1> USE Constant
<1>1. OneWakeUp(c)'
  <2>1. /\ Polled(c)' <=> Polled(c)
        /\ TakenDown(c)' <=> TakenDown(c)
    BY DEF Same, Polled, TakenDown
  <2>2. QED
    BY <2>1 DEF Heard, Same, OneWakeUp, WakeUps, Placed, Count
<1>2. OneResponse(c)'
  BY DEF Heard, Same, OneResponse
<1>3. ConnectionsHeard(c)'
  BY DEF Heard, Same, ConnectionsHeard
<1>4. OrderlyCleanup(c)'
  BY DEF Heard, Same, OrderlyCleanup, HolderAt, TakenDown
<1>5. QED
  BY <1>1, <1>2, <1>3, <1>4 DEF Heard

\* The same for a bucket that a worker runs.
HeardBy(w, b) ==
  /\ Count(Placed(b)) + Count(INPUT_STREAM \in pending[b])
     + Count((pc[w] = "dispatch" /\ job[w] = INPUT_STREAM) \/ pc[w] \in {"main", "handshake"})
     + Count(<<b, INPUT_STREAM>> \in interest)
     + Count(<<b, INPUT_STREAM>> \in wakers) + Count(channel[b] # {})
     = Count(/\ futures[b] # None
             /\ pc[w] \notin {"clean_fd", "clean_conns", "clean_future", "clean_count"})
  /\ OneResponse(b)
  /\ pc[w] \in {"conn", "crashed"} =>
       job[w] \in Connections /\ connections[b][job[w]] = "Occupied"
  /\ pc[w] = "handshake" => job[w] \in Connections /\ connections[b][job[w]] = "Reserved"
  /\ \A o \in Connections : connections[b][o] = "Occupied" =>
       \/ o \in pending[b] \/ <<b, o>> \in interest \cup wakers
       \/ pc[w] \in {"dispatch", "conn", "crashed"} /\ job[w] = o
  /\ pc[w] \in {"clean_fd", "clean_conns", "clean_future"} => futures[b] # None
  /\ pc[w] = "clean_count" => futures[b] = None
  /\ pc[w] \in {"clean_future", "clean_count"} =>
       \A o \in Connections : connections[b][o] = "Empty"

LEMMA HeardHeld ==
  ASSUME NEW b \in Buckets, NEW w \in Workers, holders[b] = {w}
  PROVE  Heard(b) <=> HeardBy(w, b)
<1>1. /\ Polled(b) <=> \/ pc[w] = "dispatch" /\ job[w] = INPUT_STREAM
                       \/ pc[w] \in {"main", "handshake"}
      /\ TakenDown(b) <=>
           pc[w] \in {"clean_fd", "clean_conns", "clean_future", "clean_count"}
  BY DEF Polled, TakenDown
<1>2. HolderAt(b, {"clean_fd", "clean_conns", "clean_future"}) <=>
        pc[w] \in {"clean_fd", "clean_conns", "clean_future"}
  BY DEF HolderAt
<1>3. /\ HolderAt(b, {"clean_count"}) <=> pc[w] = "clean_count"
      /\ HolderAt(b, {"clean_future", "clean_count"}) <=> pc[w] \in {"clean_future", "clean_count"}
  BY DEF HolderAt
<1>4. QED
  BY <1>1, <1>2, <1>3
     DEF Heard, HeardBy, OneWakeUp, WakeUps, ConnectionsHeard, OrderlyCleanup, Count

\* ... in the next state, too.
LEMMA HeardHeldNext ==
  ASSUME NEW b \in Buckets, NEW w \in Workers, holders'[b] = {w}
  PROVE  Heard(b)' <=> HeardBy(w, b)'
<1>1. /\ Polled(b)' <=> \/ pc'[w] = "dispatch" /\ job'[w] = INPUT_STREAM
                        \/ pc'[w] \in {"main", "handshake"}
      /\ TakenDown(b)' <=>
           pc'[w] \in {"clean_fd", "clean_conns", "clean_future", "clean_count"}
  BY DEF Polled, TakenDown
<1>2. HolderAt(b, {"clean_fd", "clean_conns", "clean_future"})' <=>
        pc'[w] \in {"clean_fd", "clean_conns", "clean_future"}
  BY DEF HolderAt
<1>3. /\ HolderAt(b, {"clean_count"})' <=> pc'[w] = "clean_count"
      /\ HolderAt(b, {"clean_future", "clean_count"})' <=>
           pc'[w] \in {"clean_future", "clean_count"}
  BY DEF HolderAt
<1>4. QED
  BY <1>1, <1>2, <1>3
     DEF Heard, HeardBy, OneWakeUp, WakeUps, ConnectionsHeard, OrderlyCleanup, Count

LEMMA RunBucketHeard ==
  ASSUME Ordinary, WorkerInv, TaskInv,
         NEW w \in Workers, NEW b \in Buckets, RunBucket(w, b)
  PROVE  NoInputStreamRace' /\ Heard(b)'
<1>0. TypeOK /\ QueueTypeOK /\ OneHolder /\ Heard(b) /\ NoInputStreamRace
  BY DEF WorkerInv, TaskInv, Heard
<1> SUFFICES ASSUME ~ClaimBucket(w, b), ~GiveUp(w, b)
             PROVE  NoInputStreamRace' /\ HeardBy(w, b)' /\ holders'[b] = {w}
  <2>1. CASE ClaimBucket(w, b)
    BY <1>0, <2>1, HeardHeldNext, Constant
       DEF ClaimBucket, WQ!Claim, TypeOK, QueueTypeOK, NoInputStreamRace, Goto,
           Heard, HeardBy, OneWakeUp, OneResponse, WakeUps, Placed, Polled, ConnectionsHeard,
           OrderlyCleanup, HolderAt, TakenDown, Count, inner, accept, external
  <2>2. CASE GiveUp(w, b)
    <3>1. HeardBy(w, b)
      BY <1>0, <2>2, OnlyHolder, HeardHeld DEF GiveUp, At
    <3>2. QED
      BY <1>0, <2>2, <3>1, Constant
       DEF GiveUp, WQ!Release, TypeOK, QueueTypeOK, NoInputStreamRace, Goto, At,
           Heard, HeardBy, OneWakeUp, OneResponse, WakeUps, Placed, Polled, ConnectionsHeard,
           OrderlyCleanup, HolderAt, TakenDown, Count, inner, accept, external
  <2>3. QED
    BY <2>1, <2>2, HeardHeldNext
<1>1. holders[b] = {w} /\ HeardBy(w, b)
  BY <1>0, OnlyHolder, HeardHeld
     DEF RunBucket, At, DequeueNone, Dispatch, InputStreamRace, GoAgain, Dequeue, TaskDone,
         CleanFd, CleanConnections, CleanFuture, CleanCount
<1> USE <1>0, <1>1, Constant
    DEF TypeOK, QueueTypeOK, NoInputStreamRace, HeardBy, OneResponse, Placed, Count, Goto, At,
        queue, inner, accept, worker, external
<1>2. CASE DequeueNone(w, b)
  BY <1>2 DEF DequeueNone
<1>3. CASE Dispatch(w, b)
  <2>1. ~(main = "set" /\ bucket = b) \/ futures[b] = None
    BY NothingCounted DEF TaskInv, Counted, Claimed
  <2>2. QED
    BY <1>3, <2>1 DEF Dispatch, AfterDeath
<1>5. CASE GoAgain(w, b)
  BY <1>5 DEF GoAgain, WQ!Again
<1>7. ASSUME NEW o \in Offsets, Dequeue(w, b, o)
      PROVE  NoInputStreamRace' /\ HeardBy(w, b)' /\ holders'[b] = {w}
  BY <1>7 DEF Dequeue, WQ!Take
<1>8. CASE TaskDone(w, b)
  BY <1>8 DEF TaskDone
<1>9. CASE CleanFd(w, b)
  BY <1>9 DEF CleanFd
<1>10. CASE CleanConnections(w, b)
  BY <1>10 DEF CleanConnections, EmptySlots
<1>11. CASE CleanFuture(w, b)
  BY <1>11 DEF CleanFuture
<1>12. CASE CleanCount(w, b)
  BY <1>12 DEF CleanCount
<1>13. QED
  BY <1>2, <1>3, <1>5, <1>7, <1>8, <1>9, <1>10, <1>11, <1>12
     DEF RunBucket, InputStreamRace

\* A future that waits for one thing has one waker left behind.
LEMMA OneAwait ==
  ASSUME Ordinary, NEW b \in Buckets,
         NEW socket \in SUBSET {<<b, INPUT_STREAM>>}, NEW responses \in SUBSET Connections,
         Cardinality(socket) + Cardinality(responses) \in 1 .. MaxAwaits
  PROVE  \/ socket = {<<b, INPUT_STREAM>>} /\ responses = {}
         \/ socket = {} /\ \E o \in Connections : responses = {o}
<1>1. IsFiniteSet(responses) /\ Cardinality(responses) \in Nat
  BY LiveFinite, Constant, FS_Subset, FS_CardinalityType
<1>2. Cardinality(socket) + Cardinality(responses) = 1
  BY OrdinaryFacts
<1>3. CASE socket = {}
  <2>1. Cardinality(responses) = 1
    BY <1>1, <1>2, <1>3, FS_EmptySet
  <2>2. PICK o : responses = {o}
    BY <1>1, <2>1, FS_Singleton
  <2>3. QED
    BY <1>3, <2>2
<1>4. CASE socket = {<<b, INPUT_STREAM>>}
  <2>1. Cardinality(socket) = 1
    BY <1>4, FS_Singleton
  <2>2. Cardinality(responses) = 0
    BY <1>1, <1>2, <2>1
  <2>3. QED
    BY <1>1, <1>4, <2>2, FS_EmptySet
<1>5. QED
  BY <1>3, <1>4

LEMMA PollTaskHeard ==
  ASSUME Ordinary, WorkerInv, TaskInv,
         NEW w \in Workers, NEW b \in Buckets, PollTask(w, b)
  PROVE  NoInputStreamRace' /\ Heard(b)'
<1>0. TypeOK /\ QueueTypeOK /\ OneHolder /\ Heard(b) /\ NoInputStreamRace
  BY DEF WorkerInv, TaskInv, Heard
<1> SUFFICES NoInputStreamRace' /\ HeardBy(w, b)' /\ holders'[b] = {w}
  BY HeardHeldNext
<1>1. holders[b] = {w} /\ HeardBy(w, b) /\ w \in Threads /\ job[w] \in Offsets
  BY <1>0, OnlyHolder, HeardHeld, IsThread
     DEF PollTask, At, HandshakeNoSlot, Handshaken, Handshake, WakeConnection, MainPending,
         MainReady, MainFails, Respond, ConnPending, ConnReady, ConnFails, ConnPanics, TypeOK
<1>a. \A socket \in SUBSET {<<b, INPUT_STREAM>>}, responses \in SUBSET Connections :
        MainPending(w, b, socket, responses) =>
          \/ socket = {<<b, INPUT_STREAM>>} /\ responses = {}
          \/ socket = {} /\ \E o \in Connections : responses = {o}
  BY OneAwait DEF MainPending
<1> USE <1>0, <1>1, Constant, OrdinaryFacts
    DEF TypeOK, QueueTypeOK, NoInputStreamRace, HeardBy, OneResponse, Placed, Count, Goto, At,
        queue, inner, accept, worker, external
<1>2. CASE Handshaken(w, b)
  <2>1. pending' = [pending EXCEPT ![b] = @ \cup {job[w]}] /\ holders' = holders
    BY <1>2, WakeEffect DEF Handshaken
  <2>2. QED
    BY <1>2, <2>1 DEF Handshaken
<1>3. ASSUME NEW o \in Connections, Handshake(w, b, o)
      PROVE  NoInputStreamRace' /\ HeardBy(w, b)' /\ holders'[b] = {w}
  BY <1>3 DEF Handshake
<1>4. ASSUME NEW o \in Connections, WakeConnection(w, b, o)
      PROVE  NoInputStreamRace' /\ HeardBy(w, b)' /\ holders'[b] = {w}
  <2>1. pending' = [pending EXCEPT ![b] = @ \cup {o}] /\ holders' = holders
    BY <1>4, WakeEffect DEF WakeConnection
  <2>2. QED
    BY <1>4, <2>1 DEF WakeConnection
<1>5. ASSUME NEW socket \in SUBSET {<<b, INPUT_STREAM>>}, NEW responses \in SUBSET Connections,
             MainPending(w, b, socket, responses)
      PROVE  NoInputStreamRace' /\ HeardBy(w, b)' /\ holders'[b] = {w}
  <2>1. \/ socket = {<<b, INPUT_STREAM>>} /\ responses = {}
        \/ socket = {} /\ \E o \in Connections : responses = {o}
    BY <1>5, <1>a
  <2>2. CASE socket = {<<b, INPUT_STREAM>>} /\ responses = {}
    BY <1>5, <2>2 DEF MainPending
  <2>3. ASSUME NEW o \in Connections, socket = {}, responses = {o}
        PROVE  NoInputStreamRace' /\ HeardBy(w, b)' /\ holders'[b] = {w}
    <3>1. connections[b][o] = "Occupied"
      BY <1>5, <2>3 DEF MainPending
    <3>2. /\ pc[w] = "main" /\ pc' = [pc EXCEPT ![w] = "load"]
          /\ channel' = [channel EXCEPT ![b] = {o}] /\ interest' = interest
          /\ UNCHANGED <<pending, holders, futures, connections, main, bucket, job, wakers>>
      BY <1>5, <2>3 DEF MainPending
    <3>3. QED
      BY <3>1, <3>2
  <2>4. QED
    BY <2>1, <2>2, <2>3
<1>6. CASE MainReady(w, b)
  BY <1>6 DEF MainReady
<1>7. CASE MainFails(w, b)
  BY <1>7 DEF MainFails
<1>8. CASE Respond(w, b)
  <2>1. pending' = [pending EXCEPT ![b] = @ \cup {INPUT_STREAM}] /\ holders' = holders
    BY <1>8, WakeEffect DEF Respond
  <2>2. channel[b] = {job[w]}
    BY <1>8 DEF Respond
  <2>3. QED
    BY <1>8, <2>1, <2>2 DEF Respond
<1>9. CASE ConnPending(w, b)
  BY <1>9 DEF ConnPending
<1>10. CASE ConnReady(w, b)
  <2>1. CASE job[w] \in channel[b]
    <3>1. pending' = [pending EXCEPT ![b] = @ \cup {INPUT_STREAM}] /\ holders' = holders
      BY <1>10, <2>1, WakeEffect DEF ConnReady
    <3>2. channel[b] = {job[w]}
      BY <2>1
    <3>3. QED
      BY <1>10, <2>1, <3>1, <3>2 DEF ConnReady
  <2>2. CASE job[w] \notin channel[b]
    BY <1>10, <2>2 DEF ConnReady
  <2>3. QED
    BY <2>1, <2>2
<1>11. CASE HandshakeNoSlot(w, b)
  BY <1>11 DEF HandshakeNoSlot
<1>12. CASE ConnPanics(w, b)
  BY <1>12 DEF ConnPanics
<1>13. ~ConnFails(w, b)
  BY DEF ConnFails
<1>14. QED
  BY <1>2, <1>3, <1>4, <1>5, <1>6, <1>7, <1>8, <1>9, <1>10, <1>11, <1>12, <1>13 DEF PollTask

\* The reactor hands the wake-up of a future on to the queue.
LEMMA ReactorThreadHeard ==
  ASSUME Ordinary, WorkerInv, TaskInv,
         NEW b \in Buckets, NEW o \in Offsets, Collect(b, o) \/ CallWaker(b, o)
  PROVE  Heard(b)'
<1> USE Constant DEF TypeOK, QueueTypeOK
<1>0. TypeOK /\ QueueTypeOK /\ Heard(b)
  BY DEF WorkerInv, TaskInv, Heard
<1>1. /\ pc' = pc /\ job' = job /\ holders' = holders /\ connections' = connections
      /\ channel' = channel /\ futures' = futures /\ main' = main /\ bucket' = bucket
  BY <1>0, OtherThreads DEF ReactorThread, Collect, CallWaker, inner, accept
<1>2. <<b, INPUT_STREAM>> \notin Buckets \X (IF MaxAwaits = 1 THEN Connections ELSE Offsets)
  BY OrdinaryFacts
<1>3. \/ /\ <<b, o>> \in interest /\ <<b, o>> \in wakers' /\ pending' = pending
         /\ interest' = interest \ {<<b, o>>} \/ (o # INPUT_STREAM /\ interest' = interest)
         /\ wakers' = wakers \cup {<<b, o>>}
      \/ /\ <<b, o>> \in wakers /\ pending' = [pending EXCEPT ![b] = @ \cup {o}]
         /\ wakers' = wakers \ {<<b, o>>} \/ (o # INPUT_STREAM /\ wakers' = wakers)
         /\ interest' = interest
  <2>1. CASE Collect(b, o)
    BY <1>2, <2>1 DEF Collect, WS!Take, WS!Rest, queue
  <2>2. CASE CallWaker(b, o)
    BY <1>0, <1>2, <2>2, WakeEffect, IsThread DEF CallWaker, WS!Call, WS!Rest
  <2>3. QED
    BY <2>1, <2>2
<1>4. /\ Polled(b)' <=> Polled(b)
      /\ TakenDown(b)' <=> TakenDown(b)
  BY <1>1 DEF Polled, TakenDown
<1>5. OneWakeUp(b)'
  <2>1. CASE o = INPUT_STREAM
    BY <1>0, <1>1, <1>3, <1>4, <2>1 DEF Heard, OneWakeUp, WakeUps, Placed, Count
  <2>2. CASE o # INPUT_STREAM
    <3>1. /\ <<b, INPUT_STREAM>> \in interest' <=> <<b, INPUT_STREAM>> \in interest
          /\ <<b, INPUT_STREAM>> \in wakers' <=> <<b, INPUT_STREAM>> \in wakers
          /\ INPUT_STREAM \in pending'[b] <=> INPUT_STREAM \in pending[b]
      BY <1>0, <1>3, <2>2
    <3>2. QED
      BY <1>0, <1>1, <1>4, <3>1 DEF Heard, OneWakeUp, WakeUps, Placed, Count
  <2>3. QED
    BY <2>1, <2>2
<1>6. OneResponse(b)' /\ OrderlyCleanup(b)'
  BY <1>0, <1>1, <1>4 DEF Heard, OneResponse, OrderlyCleanup, HolderAt
<1>7. ConnectionsHeard(b)'
  BY <1>0, <1>1, <1>3 DEF Heard, ConnectionsHeard
<1>8. QED
  BY <1>5, <1>6, <1>7 DEF Heard

\* The place that set() is about to fill is free and not locked, nobody is
\* about to look at it, and the assertion in set() holds.
LEMMA SetFindsRoom ==
  ASSUME WorkerInv, TaskInv, Set
  PROVE  /\ main = "set" /\ refcounts[bucket] = 1 /\ Claimed(bucket) = 1
         /\ LiveTasks(bucket) = {} /\ futures[bucket] = None
         /\ request \in Requests /\ request # None
         /\ WakeUps(bucket) = 0 /\ ~TakenDown(bucket) /\ ~HolderAt(bucket, {"done"})
         /\ ~MayBeLocked(bucket)
         /\ futures' = [futures EXCEPT ![bucket] = request] /\ main' = "store"
         /\ bucket' = bucket
<1>0. TypeOK /\ QueueTypeOK /\ bucket \in Buckets /\ main = "set"
  BY DEF WorkerInv, TypeOK, Set
<1>1. OneWakeUp(bucket) /\ Counted(bucket) /\ NoInputStreamRace /\ request \in Requests
  BY <1>0 DEF TaskInv, Carrying
<1>2. refcounts[bucket] = 1 /\ Claimed(bucket) = 1
  BY <1>0, <1>1 DEF Counted, Claimed
<1>3. /\ LiveTasks(bucket) = {} /\ futures[bucket] = None /\ ~TakenDown(bucket)
      /\ ~HolderAt(bucket, {"done"})
  BY <1>0, <1>1, <1>2, NothingCounted DEF HolderAt
<1>4. WakeUps(bucket) = 0
  BY <1>1, <1>3 DEF OneWakeUp, Count
<1>5. ~Polled(bucket)
  BY <1>4 DEF WakeUps, Count
<1>6. ~MayBeLocked(bucket)
  BY <1>0, <1>1, <1>3, <1>5
     DEF NoInputStreamRace, MayBeLocked, Locked, Polled, TakenDown, QueueTypeOK
<1>7. QED
  BY <1>0, <1>1, <1>2, <1>3, <1>4, <1>6, ExecutorAssumption DEF Set

\* The accept loop gives a new future its wake-up.
LEMMA MainThreadHeard ==
  ASSUME WorkerInv, TaskInv, MainThread, NEW b \in Buckets, b = bucket
  PROVE  Heard(b)'
<1>0. TypeOK /\ QueueTypeOK /\ Heard(b)
  BY DEF WorkerInv, TypeOK, TaskInv, Heard
<1>1. pc' = pc /\ job' = job /\ holders' = holders /\ connections' = connections
  BY <1>0, OtherThreads
<1> USE <1>0, <1>1, Constant DEF TypeOK, QueueTypeOK
<1>2. /\ Polled(b)' <=> Polled(b)
      /\ TakenDown(b)' <=> TakenDown(b)
  BY DEF Polled, TakenDown
<1>3. CASE main \notin {"claim", "set", "store", "occupied", "enqueue"}
  BY <1>3, MainThreadFrame, HeardElsewhere
<1>4. CASE TryClaim \/ Reject
  <2>1. /\ pending' = pending /\ interest' = interest /\ wakers' = wakers
        /\ channel' = channel /\ futures' = futures
        /\ ~Placed(b) /\ ~Placed(b)'
    BY <1>4 DEF TryClaim, Reject, Placed, queue, inner, external
  <2>2. QED
    BY <1>2, <2>1 DEF Heard, OneWakeUp, WakeUps, Count, OneResponse, ConnectionsHeard,
       OrderlyCleanup, HolderAt
<1>5. CASE Set
  <2>1. futures[b] = None /\ request # None /\ WakeUps(b) = 0 /\ ~TakenDown(b)
    BY <1>5, SetFindsRoom
  <2>2. /\ futures' = [futures EXCEPT ![b] = request] /\ Placed(b)'
        /\ pending' = pending /\ interest' = interest /\ wakers' = wakers
        /\ channel' = channel
    BY <1>5, SetFindsRoom DEF Set, Placed, queue, external
  <2>3. OneWakeUp(b)'
    BY <1>2, <2>1, <2>2 DEF OneWakeUp, WakeUps, Count
  <2>4. OneResponse(b)' /\ ConnectionsHeard(b)'
    BY <2>2 DEF Heard, OneResponse, ConnectionsHeard
  <2>5. OrderlyCleanup(b)'
    BY <1>2, <2>1 DEF OrderlyCleanup, HolderAt, TakenDown
  <2>6. QED
    BY <2>3, <2>4, <2>5 DEF Heard
<1>6. CASE StoreFd
  <2>1. /\ pending' = pending /\ interest' = interest /\ wakers' = wakers
        /\ channel' = channel /\ futures' = futures
        /\ Placed(b)' <=> Placed(b)
    BY <1>6 DEF StoreFd, Placed, queue, external
  <2>2. QED
    BY <1>2, <2>1 DEF Heard, OneWakeUp, WakeUps, Count, OneResponse, ConnectionsHeard,
       OrderlyCleanup, HolderAt
<1>7. CASE Execute
  <2>1. /\ pending' = [pending EXCEPT ![b] = @ \cup {INPUT_STREAM}]
        /\ interest' = interest /\ wakers' = wakers /\ channel' = channel
        /\ futures' = futures /\ Placed(b) /\ ~Placed(b)'
    BY <1>7, WakeEffect, IsThread DEF Execute, Placed, inner, external
  <2>2. OneWakeUp(b)'
    BY <1>2, <2>1 DEF Heard, OneWakeUp, WakeUps, Count
  <2>3. QED
    BY <1>2, <2>1, <2>2 DEF Heard, OneResponse, ConnectionsHeard, OrderlyCleanup, HolderAt
<1>8. QED
  BY <1>3, <1>4, <1>5, <1>6, <1>7 DEF MainThread, Accept

----------------------------------------------------------------------------
(* The count of a bucket's tasks, in the ordinary case. *)

\* The tasks of a bucket, the claim on it, and whether a task is about to be
\* counted down, stay what they are.
CountKept(b) ==
  /\ refcounts'[b] = refcounts[b]
  /\ futures'[b] = None <=> futures[b] = None
  /\ \A o \in Connections : connections'[b][o] = "Empty" <=> connections[b][o] = "Empty"
  /\ HolderAt(b, {"done"})' <=> HolderAt(b, {"done"})
  /\ TakenDown(b)' <=> TakenDown(b)
  /\ main' = "set" /\ bucket' = b <=> main = "set" /\ bucket = b

LEMMA CountedStutter ==
  ASSUME NEW b \in Buckets, Counted(b), CountKept(b)
  PROVE  Counted(b)'
<1>1. LiveTasks(b)' = LiveTasks(b)
  BY Constant DEF CountKept, LiveTasks
<1>2. QED
  BY <1>1 DEF CountKept, Counted, Claimed, Count

\* A bucket that a step does not concern keeps its count.
LEMMA CountedElsewhere ==
  ASSUME NEW c \in Buckets, Counted(c), Same(c)
  PROVE  Counted(c)'
  BY CountedStutter DEF Same, CountKept, HolderAt, TakenDown

\* A task that starts or ends changes the number of tasks by one.
LEMMA LiveAdded ==
  ASSUME NEW b, NEW o, o \notin LiveTasks(b), LiveTasks(b)' = LiveTasks(b) \cup {o}
  PROVE  Cardinality(LiveTasks(b)') = Cardinality(LiveTasks(b)) + 1
  BY LiveFinite, FS_AddElement

LEMMA LiveRemoved ==
  ASSUME NEW b, NEW o, o \in LiveTasks(b), LiveTasks(b)' = LiveTasks(b) \ {o}
  PROVE  Cardinality(LiveTasks(b)') = Cardinality(LiveTasks(b)) - 1
  BY LiveFinite, FS_RemoveElement

LEMMA RunBucketCounted ==
  ASSUME Ordinary, WorkerInv, TaskInv,
         NEW w \in Workers, NEW b \in Buckets, RunBucket(w, b)
  PROVE  Counted(b)'
<1>0. TypeOK /\ QueueTypeOK /\ OneHolder /\ Heard(b) /\ Counted(b) /\ NoInputStreamRace
  BY DEF WorkerInv, TaskInv, Heard
<1> USE <1>0, Constant, OnlyHolder
    DEF TypeOK, QueueTypeOK, Goto, At, HolderAt, TakenDown, queue, inner, accept, worker, external
<1>1. CASE ClaimBucket(w, b) \/ GiveUp(w, b) \/ GoAgain(w, b)
  <2>1. CountKept(b)
    BY <1>1 DEF ClaimBucket, GiveUp, GoAgain, WQ!Claim, WQ!Release, WQ!Again, CountKept
  <2>2. QED
    BY <2>1, CountedStutter
<1>2. CASE DequeueNone(w, b) \/ Dispatch(w, b) \/ CleanFd(w, b)
           \/ \E o \in Offsets : Dequeue(w, b, o)
  <2>1. CountKept(b)
    BY <1>2 DEF DequeueNone, Dispatch, AfterDeath, CleanFd, Dequeue, WQ!Take, CountKept
  <2>2. QED
    BY <2>1, CountedStutter
<1>3. CASE CleanConnections(w, b) \/ CleanFuture(w, b)
  <2>1. /\ holders[b] = {w} /\ pc[w] \in {"clean_conns", "clean_future"} /\ holders' = holders
        /\ pc'[w] \in {"clean_future", "clean_count"}
        /\ refcounts' = refcounts /\ main' = main /\ bucket' = bucket
    BY <1>3, WakeEffect, IsThread DEF CleanConnections, CleanFuture
  <2>2. TakenDown(b) /\ TakenDown(b)'
    BY <2>1
  <2>3. QED
    BY <2>1, <2>2 DEF Counted
<1>4. CASE TaskDone(w, b)
  <2>1. /\ holders[b] = {w} /\ pc[w] = "done" /\ holders' = holders
        /\ pc'[w] \in {"give_up", "load"}
        /\ refcounts' = [refcounts EXCEPT ![b] = CountDown(@)] /\ main' = main /\ bucket' = bucket
    BY <1>4 DEF TaskDone
  <2>2. ~TakenDown(b) /\ ~TakenDown(b)' /\ HolderAt(b, {"done"}) /\ ~HolderAt(b, {"done"})'
    BY <2>1
  <2>3. refcounts[b] = Cardinality(LiveTasks(b)) + 1 + Claimed(b)
    BY <2>2 DEF Counted, Count
  <2>4. ~(main = "set" /\ bucket = b)
    BY <2>1, NothingCounted DEF Counted, Claimed
  <2>5. LiveTasks(b)' = LiveTasks(b)
    BY <1>4 DEF TaskDone, LiveTasks
  <2>6. QED
    BY <2>1, <2>2, <2>3, <2>4, <2>5, LiveFinite DEF Counted, Count, Claimed, CountDown
<1>5. CASE CleanCount(w, b)
  <2>1. /\ holders[b] = {w} /\ pc[w] = "clean_count" /\ holders' = holders /\ pc'[w] = "load"
        /\ futures' = futures /\ connections' = connections
        /\ refcounts'[b] = 0 /\ main' = main /\ bucket' = bucket
    BY <1>5 DEF CleanCount
  <2>2. futures[b] = None /\ \A o \in Connections : connections[b][o] = "Empty"
    BY <2>1 DEF Heard, OrderlyCleanup
  <2>3. LiveTasks(b)' = {}
    BY <2>1, <2>2 DEF LiveTasks
  <2>4. TakenDown(b) /\ ~TakenDown(b)' /\ ~HolderAt(b, {"done"})'
    BY <2>1
  <2>5. ~(main = "set" /\ bucket = b)
    BY <2>4 DEF Counted
  <2>6. QED
    BY <2>1, <2>3, <2>4, <2>5, FS_EmptySet DEF Counted, Count, Claimed
<1>6. QED
  BY <1>1, <1>2, <1>3, <1>4, <1>5 DEF RunBucket, InputStreamRace, NoInputStreamRace

\* One more than the tasks of a bucket is still a u8.
LEMMA NoWrap ==
  ASSUME NEW n \in Nat, n <= http_connections + 1
  PROVE  (n + 1) % (U8_MAX + 1) = n + 1
  BY ExecutorAssumption

\* A bucket whose future is polled is in use, and not about to be set.
LEMMA PolledIsCounted ==
  ASSUME WorkerInv, TaskInv, NEW b \in Buckets, NEW w \in holders[b],
         pc[w] \in {"main", "handshake"}
  PROVE  /\ refcounts[b] > 0 /\ refcounts[b] <= http_connections + 1
         /\ ~(main = "set" /\ bucket = b)
<1>1. holders[b] = {w} /\ HeardBy(w, b) /\ Counted(b) /\ w \in Workers
  BY OnlyHolder, HeardHeld DEF WorkerInv, QueueTypeOK, TaskInv, Heard
<1>2. futures[b] # None
  BY <1>1, Constant DEF HeardBy, Count, TaskInv, WorkerInv, TypeOK, OneWakeUp
<1>3. ~(main = "set" /\ bucket = b)
  BY <1>1, <1>2, NothingCounted DEF Counted, Claimed
<1>4. ~TakenDown(b) /\ ~HolderAt(b, {"done"})
  BY <1>1 DEF TakenDown, HolderAt
<1>5. refcounts[b] = Cardinality(LiveTasks(b))
  BY <1>1, <1>3, <1>4, LiveFinite DEF Counted, Count, Claimed
<1>6. Cardinality(LiveTasks(b)) # 0
  BY <1>2, LiveFinite, FS_EmptySet, Constant DEF LiveTasks
<1>7. QED
  BY <1>3, <1>5, <1>6, LiveFinite

\* Counting a connection does not overflow, with or without a free slot.
LEMMA PollTaskCounted ==
  ASSUME Ordinary, WorkerInv, TaskInv,
         NEW w \in Workers, NEW b \in Buckets, PollTask(w, b)
  PROVE  Counted(b)'
<1>0. TypeOK /\ QueueTypeOK /\ OneHolder /\ Heard(b) /\ Counted(b)
  BY DEF WorkerInv, TaskInv, Heard
<1>1. holders[b] = {w} /\ HeardBy(w, b) /\ w \in Threads /\ job[w] \in Offsets
  BY <1>0, OnlyHolder, HeardHeld, IsThread
     DEF PollTask, At, HandshakeNoSlot, Handshaken, Handshake, WakeConnection, MainPending,
         MainReady, MainFails, Respond, ConnPending, ConnReady, ConnFails, ConnPanics, TypeOK
<1> USE <1>0, <1>1, Constant, OrdinaryFacts
    DEF TypeOK, QueueTypeOK, Goto, At, HolderAt, TakenDown, queue, inner, accept, worker, external
<1>2. CASE Handshaken(w, b)
  <2>1. holders' = holders
    BY <1>2, WakeEffect DEF Handshaken
  <2>2. CountKept(b)
    BY <1>2, <2>1 DEF Handshaken, CountKept, HeardBy
  <2>3. QED
    BY <2>2, CountedStutter
<1>3. ASSUME NEW o \in Connections, Handshake(w, b, o) PROVE Counted(b)'
  <2>1. /\ connections[b][o] = "Empty" /\ pc[w] = "main" /\ pc'[w] = "handshake"
        /\ connections'[b] = [connections[b] EXCEPT ![o] = "Reserved"]
        /\ futures' = futures /\ holders' = holders /\ main' = main /\ bucket' = bucket
        /\ refcounts'[b] = IF refcounts[b] = 0 THEN 0 ELSE (refcounts[b] + 1) % (U8_MAX + 1)
    BY <1>3 DEF Handshake, CountConnection
  <2>2. futures[b] # None
    BY <2>1 DEF HeardBy, Count
  <2>3. ~(main = "set" /\ bucket = b)
    BY <2>2, NothingCounted DEF Counted, Claimed
  <2>4. /\ o \notin LiveTasks(b) /\ LiveTasks(b)' = LiveTasks(b) \cup {o}
        /\ INPUT_STREAM \in LiveTasks(b)
    BY <2>1, <2>2 DEF LiveTasks
  <2>5. Cardinality(LiveTasks(b)') = Cardinality(LiveTasks(b)) + 1
    BY <2>4, LiveAdded
  <2>6. Cardinality(LiveTasks(b)) # 0
    BY <2>4, LiveFinite, FS_EmptySet
  <2>7. Cardinality(LiveTasks(b)) <= http_connections
    <3>1. LiveTasks(b) \in SUBSET (Offsets \ {o})
      BY <2>4 DEF LiveTasks
    <3>2. IsFiniteSet(Offsets \ {o}) /\ Cardinality(Offsets \ {o}) = http_connections
      BY OtherOffsets
    <3>3. QED
      BY <3>1, <3>2, FS_Subset
  <2>8. refcounts[b] = Cardinality(LiveTasks(b))
    BY <2>1, <2>3, <1>1, LiveFinite DEF Counted, Count, Claimed
  <2>9. refcounts'[b] = Cardinality(LiveTasks(b)) + 1
    <3>1. Cardinality(LiveTasks(b)) \in Nat
      BY LiveFinite
    <3>2. (refcounts[b] + 1) % (U8_MAX + 1) = refcounts[b] + 1
      BY <2>7, <2>8, <3>1, NoWrap, ExecutorAssumption
    <3>3. QED
      BY <2>1, <2>6, <2>8, <3>2
  <2>10. ~TakenDown(b)' /\ ~HolderAt(b, {"done"})'
    BY <2>1
  <2>11. QED
    BY <2>1, <2>3, <2>5, <2>9, <2>10, LiveFinite DEF Counted, Count, Claimed
<1>4. ASSUME NEW o \in Connections, WakeConnection(w, b, o) PROVE Counted(b)'
  <2>1. holders' = holders
    BY <1>4, WakeEffect DEF WakeConnection
  <2>2. CountKept(b)
    BY <1>4, <2>1 DEF WakeConnection, CountKept
  <2>3. QED
    BY <2>2, CountedStutter
<1>5. ASSUME NEW socket \in SUBSET {<<b, INPUT_STREAM>>}, NEW responses \in SUBSET Connections,
             MainPending(w, b, socket, responses)
      PROVE  Counted(b)'
  <2>1. CountKept(b)
    BY <1>5 DEF MainPending, CountKept
  <2>2. QED
    BY <2>1, CountedStutter
<1>6. CASE MainReady(w, b)
  <2>1. /\ pc[w] = "main" /\ pc'[w] = "done" /\ futures'[b] = None /\ connections' = connections
        /\ refcounts' = refcounts /\ holders' = holders /\ main' = main /\ bucket' = bucket
    BY <1>6 DEF MainReady
  <2>2. futures[b] # None
    BY <2>1 DEF HeardBy, Count
  <2>3. INPUT_STREAM \in LiveTasks(b) /\ LiveTasks(b)' = LiveTasks(b) \ {INPUT_STREAM}
    BY <2>1, <2>2 DEF LiveTasks
  <2>4. Cardinality(LiveTasks(b)') = Cardinality(LiveTasks(b)) - 1
    BY <2>3, LiveRemoved
  <2>5. /\ ~HolderAt(b, {"done"}) /\ HolderAt(b, {"done"})'
        /\ ~TakenDown(b) /\ ~TakenDown(b)'
    BY <2>1
  <2>6. Claimed(b)' = Claimed(b) /\ Claimed(b) \in {0, 1}
    BY <2>1 DEF Claimed
  <2>7. refcounts[b] = Cardinality(LiveTasks(b)) + Claimed(b)
    BY <2>5, <2>6, LiveFinite DEF Counted, Count
  <2>8. QED
    BY <2>1, <2>4, <2>5, <2>6, <2>7, LiveFinite DEF Counted, Count
<1>7. CASE MainFails(w, b)
  <2>1. /\ pc[w] \in {"main", "handshake"} /\ pc'[w] = "clean_fd" /\ holders' = holders
        /\ refcounts' = refcounts /\ main' = main /\ bucket' = bucket
    BY <1>7 DEF MainFails
  <2>2. refcounts[b] > 0 /\ ~(main = "set" /\ bucket = b)
    BY <2>1, PolledIsCounted
  <2>3. TakenDown(b)'
    BY <2>1
  <2>4. QED
    BY <2>1, <2>2, <2>3 DEF Counted
<1>8. CASE Respond(w, b)
  <2>1. holders' = holders
    BY <1>8, WakeEffect DEF Respond
  <2>2. CountKept(b)
    BY <1>8, <2>1 DEF Respond, CountKept
  <2>3. QED
    BY <2>2, CountedStutter
<1>9. CASE ConnPending(w, b)
  <2>1. CountKept(b)
    BY <1>9 DEF ConnPending, CountKept
  <2>2. QED
    BY <2>1, CountedStutter
<1>10. CASE ConnReady(w, b)
  <2>1. holders' = holders
    BY <1>10, WakeEffect DEF ConnReady
  <2>2. /\ pc[w] = "conn" /\ pc'[w] = "done" /\ futures' = futures
        /\ connections'[b] = [connections[b] EXCEPT ![job[w]] = "Empty"]
        /\ refcounts' = refcounts /\ main' = main /\ bucket' = bucket
    BY <1>10 DEF ConnReady
  <2>3. job[w] \in Connections /\ connections[b][job[w]] = "Occupied"
    BY <2>2 DEF HeardBy
  <2>4. job[w] \in LiveTasks(b) /\ LiveTasks(b)' = LiveTasks(b) \ {job[w]}
    BY <2>2, <2>3 DEF LiveTasks
  <2>5. Cardinality(LiveTasks(b)') = Cardinality(LiveTasks(b)) - 1
    BY <2>4, LiveRemoved
  <2>6. /\ ~HolderAt(b, {"done"}) /\ HolderAt(b, {"done"})'
        /\ ~TakenDown(b) /\ ~TakenDown(b)'
    BY <2>1, <2>2
  <2>7. Claimed(b)' = Claimed(b) /\ Claimed(b) \in {0, 1}
    BY <2>2 DEF Claimed
  <2>8. QED
    BY <2>2, <2>5, <2>6, <2>7, LiveFinite DEF Counted, Count
<1>11. CASE HandshakeNoSlot(w, b)
  <2>1. /\ pc[w] = "main" /\ pc'[w] = "clean_fd" /\ holders' = holders
        /\ main' = main /\ bucket' = bucket
        /\ refcounts'[b] = IF refcounts[b] = 0 THEN 0 ELSE (refcounts[b] + 1) % (U8_MAX + 1)
    BY <1>11 DEF HandshakeNoSlot, CountConnection
  <2>2. /\ refcounts[b] > 0 /\ refcounts[b] <= http_connections + 1
        /\ ~(main = "set" /\ bucket = b)
    BY <2>1, PolledIsCounted
  <2>3. refcounts'[b] > 0
    <3>1. refcounts[b] \in Nat
      OBVIOUS
    <3>2. (refcounts[b] + 1) % (U8_MAX + 1) = refcounts[b] + 1
      BY <2>2, <3>1, NoWrap
    <3>3. QED
      BY <2>1, <2>2, <3>1, <3>2
  <2>4. TakenDown(b)'
    BY <2>1
  <2>5. QED
    BY <2>1, <2>2, <2>3, <2>4 DEF Counted
<1>12. CASE ConnPanics(w, b)
  <2>1. CountKept(b)
    BY <1>12 DEF ConnPanics, CountKept
  <2>2. QED
    BY <2>1, CountedStutter
<1>13. ~ConnFails(w, b)
  BY DEF ConnFails, HeardBy
<1>14. QED
  BY <1>2, <1>3, <1>4, <1>5, <1>6, <1>7, <1>8, <1>9, <1>10, <1>11, <1>12, <1>13 DEF PollTask

\* The accept loop counts the future before it puts it in its place.
LEMMA MainThreadCounted ==
  ASSUME WorkerInv, TaskInv, MainThread, NEW b \in Buckets, b = bucket
  PROVE  Counted(b)'
<1>0. TypeOK /\ QueueTypeOK /\ Heard(b) /\ Counted(b)
  BY DEF WorkerInv, TaskInv, Heard
<1>1. pc' = pc /\ job' = job /\ holders' = holders /\ connections' = connections
  BY <1>0, OtherThreads
<1> USE <1>0, <1>1, Constant DEF TypeOK
<1>2. /\ HolderAt(b, {"done"})' <=> HolderAt(b, {"done"})
      /\ TakenDown(b)' <=> TakenDown(b)
  BY DEF HolderAt, TakenDown
<1>3. CASE main \notin {"claim", "set", "store", "occupied", "enqueue"}
  BY <1>3, MainThreadFrame, CountedElsewhere
<1>4. CASE TryClaim
  <2>1. CASE main' = "set"
    <3>1. /\ refcounts[b] = 0 /\ refcounts'[b] = 1 /\ main = "claim" /\ bucket' = b
          /\ futures' = futures
      BY <1>4, <2>1 DEF TryClaim, Claimable
    <3>2. LiveTasks(b) = {} /\ ~HolderAt(b, {"done"}) /\ ~TakenDown(b)
      BY <3>1, NothingCounted DEF Claimed, HolderAt
    <3>3. LiveTasks(b)' = {}
      BY <3>1, <3>2 DEF LiveTasks
    <3>4. QED
      BY <1>2, <2>1, <3>1, <3>2, <3>3, FS_EmptySet DEF Counted, Count, Claimed
  <2>2. CASE main' # "set"
    <3>1. CountKept(b)
      BY <1>2, <1>4, <2>2 DEF TryClaim, CountKept
    <3>2. QED
      BY <3>1, CountedStutter
  <2>3. QED
    BY <2>1, <2>2
<1>5. CASE Reject \/ StoreFd \/ Execute
  <2>1. CountKept(b)
    BY <1>2, <1>5 DEF Reject, StoreFd, Execute, CountKept, inner
  <2>2. QED
    BY <2>1, CountedStutter
<1>6. CASE Set
  <2>1. /\ refcounts[b] = 1 /\ futures[b] = None /\ request # None /\ LiveTasks(b) = {}
        /\ ~TakenDown(b) /\ ~HolderAt(b, {"done"})
        /\ futures'[b] = request /\ main' = "store" /\ refcounts' = refcounts
    BY <1>6, SetFindsRoom DEF Set
  <2>2. LiveTasks(b)' = LiveTasks(b) \cup {INPUT_STREAM} /\ INPUT_STREAM \notin LiveTasks(b)
    BY <2>1 DEF LiveTasks
  <2>3. Cardinality(LiveTasks(b)') = 1
    <3>1. Cardinality(LiveTasks(b)') = Cardinality(LiveTasks(b)) + 1
      BY <2>2, LiveAdded
    <3>2. Cardinality(LiveTasks(b)) = 0
      BY <2>1, FS_EmptySet
    <3>3. QED
      BY <3>1, <3>2
  <2>4. QED
    BY <1>2, <2>1, <2>3 DEF Counted, Count, Claimed
<1>7. QED
  BY <1>3, <1>4, <1>5, <1>6 DEF MainThread, Accept

LEMMA ReactorThreadCounted ==
  ASSUME WorkerInv, TaskInv, ReactorThread, NEW b \in Buckets
  PROVE  Counted(b)'
<1>1. pc' = pc /\ holders' = holders
  BY OtherThreads DEF WorkerInv
<1>2. CountKept(b)
  BY <1>1 DEF ReactorThread, Collect, CallWaker, CountKept, HolderAt, TakenDown, inner, accept
<1>3. QED
  BY <1>2, CountedStutter DEF TaskInv

----------------------------------------------------------------------------
(* Jobs are posted where somebody will look for them. *)

\* A wake-up takes back no announcement, and a job that is new is announced.
LEMMA WakeIsDue ==
  ASSUME QueueTypeOK, NEW t \in Threads, NEW b \in Buckets, NEW o \in Offsets, Wake(t, b, o),
         NEW c \in Buckets, Due(c)
  PROVE  Due(c)'
  BY DEF QueueTypeOK, Wake, WQ!Post, Due, queue

\* An announcement is used up only by a worker that enters the bucket, or runs
\* it again.
LEMMA DueKept ==
  ASSUME TypeOK, QueueTypeOK, [Next]_vars, NEW c \in Buckets, Due(c)
  PROVE  Due(c)' \/ \E w \in Workers : ClaimBucket(w, c) \/ GoAgain(w, c)
<1> USE Constant, IsThread, WakeIsDue
<1>0. bucket \in Buckets /\ job \in [Workers -> Offsets]
  BY DEF TypeOK
<1>1. ASSUME UNCHANGED queue PROVE Due(c)'
  BY <1>1 DEF Due, queue
<1>2. CASE MainThread
  <2>1. CASE Execute
    BY <1>0, <2>1 DEF Execute
  <2>2. QED
    BY <1>1, <1>2, <2>1 DEF MainThread, Accept, TryClaim, Reject, Set, StoreFd
<1>3. CASE ReactorThread
  BY <1>1, <1>3 DEF ReactorThread, Collect, CallWaker
<1>4. ASSUME NEW t \in Threads, Announce(t) PROVE Due(c)'
  <2>1. PICK b \in owed[t] : WQ!Announce(t, b)
    BY <1>4 DEF Announce
  <2>2. \A d \in owed[t] : d = b
    BY DEF QueueTypeOK
  <2>3. QED
    BY <2>1, <2>2 DEF WQ!Announce, Due, QueueTypeOK
<1>5. ASSUME NEW w \in Workers, NEW b \in Buckets, RunBucket(w, b)
      PROVE  Due(c)' \/ \E v \in Workers : ClaimBucket(v, c) \/ GoAgain(v, c)
  <2>1. CASE ClaimBucket(w, b)
    BY <2>1 DEF ClaimBucket, WQ!Claim, Due
  <2>2. CASE GoAgain(w, b)
    BY <2>2 DEF GoAgain, WQ!Again, Due
  <2>3. CASE GiveUp(w, b)
    BY <2>3 DEF GiveUp, WQ!Release, Due
  <2>4. ASSUME NEW o \in Offsets, Dequeue(w, b, o) PROVE Due(c)'
    BY <2>4 DEF Dequeue, WQ!Take, Due
  <2>5. CASE CleanConnections(w, b)
    BY <1>1, <2>5 DEF CleanConnections
  <2>6. QED
    BY <1>1, <1>5, <2>1, <2>2, <2>3, <2>4, <2>5
       DEF RunBucket, DequeueNone, Dispatch, InputStreamRace, TaskDone, CleanFd, CleanFuture,
           CleanCount
<1>6. ASSUME NEW w \in Workers, NEW b \in Buckets, PollTask(w, b) PROVE Due(c)'
  <2>1. CASE Handshaken(w, b) \/ \E o \in Connections : WakeConnection(w, b, o)
    BY <1>0, <2>1 DEF Handshaken, WakeConnection
  <2>2. CASE Respond(w, b) \/ ConnReady(w, b)
    BY <1>0, <1>1, <2>2 DEF Respond, ConnReady
  <2>3. QED
    BY <1>1, <1>6, <2>1, <2>2
       DEF PollTask, HandshakeNoSlot, Handshake, MainPending, MainReady, MainFails, ConnPending,
           ConnFails, ConnPanics
<1>7. QED
  BY <1>1, <1>2, <1>3, <1>4, <1>5, <1>6 DEF Next, vars

\* Whoever posts a job owes its bucket an announcement.
LEMMA PostedIsDue ==
  ASSUME QueueTypeOK, [WQ!Next]_queue, NEW c \in Buckets,
         NEW o \in pending'[c], o \notin pending[c]
  PROVE  Due(c)'
<1> USE DEF QueueTypeOK
<1>1. PICK t \in Threads, b \in Buckets, p \in Offsets : WQ!Post(t, b, p)
  BY DEF WQ!Next, WQ!Announce, WQ!Claim, WQ!Again, WQ!Release, WQ!Take, queue
<1>2. b = c
  BY <1>1 DEF WQ!Post
<1>3. QED
  BY <1>1, <1>2 DEF WQ!Post, Due

\* A worker stays with its bucket until it finds no job, or is done with the
\* last task.
LEMMA StaysInside ==
  ASSUME WorkerInv, [Next]_vars,
         NEW c \in Buckets, NEW w \in holders[c], pc[w] \notin {"wait", "give_up"}
  PROVE  \/ w \in holders'[c] /\ pc'[w] \notin {"wait", "give_up"}
         \/ DequeueNone(w, c)
         \/ TaskDone(w, c) /\ LastTask(c)
<1>0. TypeOK /\ QueueTypeOK /\ OneHolder /\ w \in Workers /\ w \in Threads /\ job[w] \in Offsets
  BY IsThread DEF WorkerInv, QueueTypeOK, TypeOK
<1>1. holders[c] = {w} /\ \A b \in Buckets : b # c => w \notin holders[b]
  BY <1>0, OnlyHolder
<1>2. CASE MainThread \/ ReactorThread \/ (\E t \in Threads : Announce(t)) \/ UNCHANGED vars
  BY <1>0, <1>2, OtherThreads
<1>3. ASSUME NEW v \in Workers, NEW b \in Buckets, RunBucket(v, b) \/ PollTask(v, b), b # c
      PROVE  w \in holders'[c] /\ pc'[w] \notin {"wait", "give_up"}
  BY <1>0, <1>3, RunBucketFrame, PollTaskFrame DEF Same
<1>4. ASSUME NEW v \in Workers, RunBucket(v, c) \/ PollTask(v, c)
      PROVE  v = w /\ ~ClaimBucket(v, c) /\ ~GiveUp(v, c)
  <2>1. ~ClaimBucket(v, c)
    BY <1>1 DEF ClaimBucket, WQ!Claim
  <2>2. v \in holders[c]
    BY <1>4, <2>1
       DEF RunBucket, DequeueNone, Dispatch, InputStreamRace, GoAgain, GiveUp, Dequeue, TaskDone,
           CleanFd, CleanConnections, CleanFuture, CleanCount, PollTask, HandshakeNoSlot,
           Handshaken, Handshake, WakeConnection, MainPending, MainReady, MainFails, Respond,
           ConnPending, ConnReady, ConnFails, ConnPanics, At
  <2>3. QED
    BY <1>1, <2>1, <2>2 DEF GiveUp, At
<1>5. ASSUME RunBucket(w, c), ~ClaimBucket(w, c), ~GiveUp(w, c), ~DequeueNone(w, c),
             ~(TaskDone(w, c) /\ LastTask(c))
      PROVE  w \in holders'[c] /\ pc'[w] \notin {"wait", "give_up"}
  <2> USE <1>0, <1>1 DEF TypeOK, Goto, At, queue
  <2>1. CASE Dispatch(w, c) \/ InputStreamRace(w, c) \/ TaskDone(w, c) \/ CleanFd(w, c)
             \/ CleanFuture(w, c) \/ CleanCount(w, c)
    BY <1>5, <2>1
       DEF Dispatch, AfterDeath, InputStreamRace, TaskDone, CleanFd, CleanFuture, CleanCount
  <2>2. CASE GoAgain(w, c)
    BY <2>2 DEF GoAgain, WQ!Again
  <2>3. ASSUME NEW o \in Offsets, Dequeue(w, c, o)
        PROVE  w \in holders'[c] /\ pc'[w] \notin {"wait", "give_up"}
    BY <2>3 DEF Dequeue, WQ!Take
  <2>4. CASE CleanConnections(w, c)
    BY <2>4, WakeEffect, Constant DEF CleanConnections
  <2>5. QED
    BY <1>5, <2>1, <2>2, <2>3, <2>4 DEF RunBucket
<1>6. ASSUME PollTask(w, c) PROVE w \in holders'[c] /\ pc'[w] \notin {"wait", "give_up"}
  <2> USE <1>0, <1>1 DEF TypeOK, Goto, At, queue, worker
  <2>1. CASE Handshaken(w, c) \/ \E o \in Connections : WakeConnection(w, c, o)
    BY <2>1, WakeEffect, Constant DEF Handshaken, WakeConnection
  <2>2. CASE Respond(w, c) \/ ConnReady(w, c)
    BY <2>2, WakeEffect, Constant DEF Respond, ConnReady
  <2>3. QED
    BY <1>6, <2>1, <2>2
       DEF PollTask, HandshakeNoSlot, Handshake, MainPending, MainReady, MainFails, ConnPending,
           ConnFails, ConnPanics
<1>7. QED
  BY <1>2, <1>3, <1>4, <1>5, <1>6 DEF Next

\* A task begins in set() or in handshake().
LEMMA TaskBegins ==
  ASSUME WorkerInv, TaskInv, [Next]_vars, NEW c \in Buckets,
         NEW o \in LiveTasks(c)', o \notin LiveTasks(c)
  PROVE  \/ Set /\ bucket = c /\ o = INPUT_STREAM
         \/ \E w \in Workers : Handshake(w, c, o)
<1>0. TypeOK /\ QueueTypeOK /\ OneHolder /\ o \in Offsets
  BY DEF WorkerInv, LiveTasks
<1>1. \/ o = INPUT_STREAM /\ futures[c] = None /\ futures'[c] # None
      \/ o \in Connections /\ connections[c][o] = "Empty" /\ connections'[c][o] # "Empty"
  BY Constant DEF LiveTasks
<1>2. CASE ReactorThread \/ (\E t \in Threads : Announce(t)) \/ UNCHANGED vars
  BY <1>1, <1>2 DEF ReactorThread, Collect, CallWaker, Announce, vars, inner
<1>3. CASE MainThread
  BY <1>0, <1>1, <1>3
     DEF MainThread, Accept, TryClaim, Reject, Set, StoreFd, Execute, inner, TypeOK
<1>4. ASSUME NEW w \in Workers, NEW b \in Buckets, RunBucket(w, b) PROVE FALSE
  BY <1>0, <1>1, <1>4
     DEF RunBucket, ClaimBucket, DequeueNone, Dispatch, InputStreamRace, GoAgain, GiveUp, Dequeue,
         TaskDone, CleanFd, CleanConnections, EmptySlots, CleanFuture, CleanCount, inner, TypeOK
<1>5. ASSUME NEW w \in Workers, NEW b \in Buckets, PollTask(w, b)
      PROVE  Handshake(w, c, o)
  <2>1. CASE Handshaken(w, b)
    <3>1. job[w] \in Connections /\ connections[b][job[w]] = "Reserved"
      BY <2>1 DEF Handshaken, At, TaskInv, ConnectionsHeard
    <3>2. QED
      BY <1>0, <1>1, <2>1, <3>1 DEF Handshaken, TypeOK
  <2>2. ASSUME NEW p \in Connections, Handshake(w, b, p) PROVE b = c /\ p = o
    BY <1>0, <1>1, <2>2 DEF Handshake, TypeOK
  <2>3. QED
    BY <1>0, <1>1, <1>5, <2>1, <2>2
       DEF PollTask, HandshakeNoSlot, WakeConnection, MainPending, MainReady, MainFails, Respond,
           ConnPending, ConnReady, ConnFails, ConnPanics, inner, TypeOK
<1>6. QED
  BY <1>2, <1>3, <1>4, <1>5 DEF Next

\* In the ordinary case, a job of a task that is not done is seen.
LEMMA JobsSeenNext ==
  ASSUME WorkerInv, TaskInv, [Next]_vars, NEW c \in Buckets
  PROVE  JobsSeen(c)'
<1>0. TypeOK /\ QueueTypeOK /\ OneHolder /\ JobsSeen(c) /\ OneWakeUp(c) /\ Counted(c)
  BY DEF WorkerInv, TaskInv
<1> SUFFICES ASSUME NEW o \in LiveTasks(c)', o \in pending'[c], ~Due(c)'
             PROVE  \E w \in holders'[c] : pc'[w] \notin {"wait", "give_up"}
  BY DEF JobsSeen
<1>1. CASE Due(c)
  <2>1. PICK w \in Workers : ClaimBucket(w, c) \/ GoAgain(w, c)
    BY <1>0, <1>1, DueKept
  <2>2. w \in holders'[c] /\ pc'[w] = "load"
    BY <1>0, <2>1 DEF ClaimBucket, GoAgain, WQ!Claim, WQ!Again, Goto, At, TypeOK, QueueTypeOK
  <2>3. QED
    BY <2>2
<1>2. CASE ~Due(c)
  <2>1. o \in pending[c]
    BY <1>0, QueueStep, PostedIsDue
  <2>2. CASE o \in LiveTasks(c)
    <3>1. PICK w \in holders[c] : pc[w] \notin {"wait", "give_up"}
      BY <1>0, <1>2, <2>1, <2>2 DEF JobsSeen
    <3>2. ~DequeueNone(w, c)
      BY <2>1 DEF DequeueNone
    <3>3. ASSUME TaskDone(w, c), LastTask(c) PROVE FALSE
      <4>1. w \in Workers /\ pc[w] = "done" /\ holders[c] = {w} /\ refcounts[c] = 1
        BY <1>0, <3>3, OnlyHolder DEF TaskDone, LastTask, At, QueueTypeOK
      <4>2. ~TakenDown(c) /\ HolderAt(c, {"done"})
        BY <4>1 DEF TakenDown, HolderAt
      <4>3. Cardinality(LiveTasks(c)) = 0
        BY <1>0, <4>1, <4>2, LiveFinite DEF Counted, Count, Claimed
      <4>4. QED
        BY <2>2, <4>3, LiveFinite, FS_EmptySet
    <3>4. QED
      BY <3>1, <3>2, <3>3, StaysInside
  <2>3. CASE o \notin LiveTasks(c)
    <3>1. CASE Set /\ bucket = c /\ o = INPUT_STREAM
      <4>1. WakeUps(c) = 0
        BY <3>1, SetFindsRoom
      <4>2. QED
        BY <2>1, <3>1, <4>1 DEF WakeUps, Count
    <3>2. ASSUME NEW w \in Workers, Handshake(w, c, o)
          PROVE  w \in holders'[c] /\ pc'[w] = "handshake"
      BY <1>0, <3>2 DEF Handshake, At, Goto, TypeOK, queue
    <3>3. QED
      BY <2>3, <3>1, <3>2, TaskBegins
  <2>4. QED
    BY <2>2, <2>3
<1>3. QED
  BY <1>1, <1>2

----------------------------------------------------------------------------
(* The invariant of the tasks. *)

LEMMA TaskInvInit == Init => TaskInv
<1> SUFFICES ASSUME Init PROVE TaskInv
  OBVIOUS
<1>1. NoInputStreamRace /\ main # "occupied" /\ ~Carrying
  BY DEF Init, NoInputStreamRace, Carrying
<1>2. ASSUME NEW b \in Buckets PROVE Heard(b) /\ Counted(b) /\ JobsSeen(b)
  <2>1. holders[b] = {} /\ pending[b] = {} /\ futures[b] = None /\ refcounts[b] = 0
        /\ main = "accept" /\ interest = {} /\ wakers = {} /\ channel[b] = {}
        /\ \A o \in Connections : connections[b][o] = "Empty"
    BY DEF Init, WQ!Init
  <2>2. LiveTasks(b) = {}
    BY <2>1, Constant DEF LiveTasks
  <2>3. Counted(b)
    BY <2>1, <2>2, FS_EmptySet DEF Counted, Count, HolderAt, TakenDown, Claimed
  <2>4. Heard(b)
    BY <2>1 DEF Heard, OneWakeUp, WakeUps, Placed, Polled, TakenDown, Count, OneResponse,
       ConnectionsHeard, OrderlyCleanup, HolderAt
  <2>5. QED
    BY <2>2, <2>3, <2>4 DEF JobsSeen
<1>3. QED
  BY <1>1, <1>2 DEF TaskInv, Heard

\* Only the accept loop changes its own state.
LEMMA AcceptKept ==
  ASSUME [Next]_vars, ~MainThread
  PROVE  accept' = accept
<1>1. CASE ReactorThread
  BY <1>1 DEF ReactorThread, Collect, CallWaker
<1>2. ASSUME NEW t \in Threads, Announce(t) PROVE accept' = accept
  BY <1>2 DEF Announce
<1>3. ASSUME NEW w \in Workers, NEW b \in Buckets, RunBucket(w, b) PROVE accept' = accept
  BY <1>3 DEF RunBucket, ClaimBucket, DequeueNone, Dispatch, InputStreamRace, GoAgain, GiveUp,
     Dequeue, TaskDone, CleanFd, CleanConnections, CleanFuture, CleanCount
<1>4. ASSUME NEW w \in Workers, NEW b \in Buckets, PollTask(w, b) PROVE accept' = accept
  BY <1>4 DEF PollTask, HandshakeNoSlot, Handshaken, Handshake, WakeConnection, MainPending,
     MainReady, MainFails, Respond, ConnPending, ConnReady, ConnFails, ConnPanics
<1>5. CASE UNCHANGED vars
  BY <1>5 DEF vars
<1>6. QED
  BY <1>1, <1>2, <1>3, <1>4, <1>5 DEF Next

\* In the ordinary case, the invariant of the tasks is inductive.
LEMMA TaskInvNext ==
  ASSUME Ordinary, WorkerInv, TaskInv, [Next]_vars
  PROVE  TaskInv'
<1>0. /\ TypeOK /\ QueueTypeOK /\ OneHolder /\ NoInputStreamRace
      /\ \A b \in Buckets : Heard(b) /\ Counted(b)
  BY DEF WorkerInv, TaskInv, Heard
<1>1. main' # "occupied" /\ (Carrying => request \in Requests)'
  <2>1. CASE MainThread
    BY <1>0, <2>1, SetFindsRoom
       DEF MainThread, Accept, TryClaim, Reject, Set, StoreFd, Execute, Carrying, TaskInv
  <2>2. CASE ~MainThread
    <3>1. accept' = accept
      BY <2>2, AcceptKept
    <3>2. QED
      BY <3>1 DEF accept, Carrying, TaskInv
  <2>3. QED
    BY <2>1, <2>2
<1>2. NoInputStreamRace' /\ \A c \in Buckets : Heard(c)' /\ Counted(c)'
  <2>1. CASE MainThread
    <3>1. ASSUME NEW c \in Buckets PROVE Heard(c)' /\ Counted(c)'
      BY <1>0, <2>1, MainThreadHeard, MainThreadCounted, MainThreadFrame, HeardElsewhere,
         CountedElsewhere
    <3>2. QED
      BY <1>0, <2>1, <3>1, OtherThreads DEF NoInputStreamRace
  <2>2. ASSUME NEW b \in Buckets, NEW o \in Offsets, Collect(b, o) \/ CallWaker(b, o)
        PROVE  NoInputStreamRace' /\ \A c \in Buckets : Heard(c)' /\ Counted(c)'
    <3>1. ReactorThread
      BY <2>2 DEF ReactorThread
    <3>2. ASSUME NEW c \in Buckets PROVE Heard(c)'
      BY <1>0, <2>2, ReactorThreadHeard, ReactorThreadFrame, HeardElsewhere
    <3>3. QED
      BY <1>0, <3>1, <3>2, ReactorThreadCounted, OtherThreads DEF NoInputStreamRace
  <2>3. ASSUME NEW t \in Threads, Announce(t) \/ UNCHANGED vars
        PROVE  NoInputStreamRace' /\ \A c \in Buckets : Heard(c)' /\ Counted(c)'
    <3>1. ASSUME NEW c \in Buckets PROVE Heard(c)' /\ Counted(c)'
      BY <1>0, <2>3, AnnounceFrame, HeardElsewhere, CountedElsewhere
    <3>2. QED
      BY <1>0, <2>3, <3>1, OtherThreads DEF NoInputStreamRace
  <2>4. ASSUME NEW w \in Workers, NEW b \in Buckets, RunBucket(w, b)
        PROVE  NoInputStreamRace' /\ \A c \in Buckets : Heard(c)' /\ Counted(c)'
    BY <1>0, <2>4, RunBucketHeard, RunBucketCounted, RunBucketFrame, HeardElsewhere,
       CountedElsewhere
  <2>5. ASSUME NEW w \in Workers, NEW b \in Buckets, PollTask(w, b)
        PROVE  NoInputStreamRace' /\ \A c \in Buckets : Heard(c)' /\ Counted(c)'
    BY <1>0, <2>5, PollTaskHeard, PollTaskCounted, PollTaskFrame, HeardElsewhere,
       CountedElsewhere
  <2>6. QED
    BY <2>1, <2>2, <2>3, <2>4, <2>5, IsThread DEF Next, ReactorThread
<1>3. \A c \in Buckets : JobsSeen(c)'
  BY JobsSeenNext
<1>4. QED
  BY <1>1, <1>2, <1>3 DEF TaskInv, Heard

LEMMA TaskInvAlways ==
  ASSUME Ordinary
  PROVE  Spec => [](WorkerInv /\ TaskInv)
<1>1. Init => WorkerInv /\ TaskInv
  BY WorkerInvInit, TaskInvInit
<1>2. WorkerInv /\ TaskInv /\ [Next]_vars => (WorkerInv /\ TaskInv)'
  BY WorkerInvNext, TaskInvNext
<1>3. QED
  BY <1>1, <1>2, PTL DEF Spec

\* In the ordinary case, run_bucket never takes the job of a future that is
\* gone or not yet there: a future has one wake-up, which ends with it.
THEOREM ExecutorNoInputStreamRace == Ordinary => (Spec => []NoInputStreamRace)
<1> SUFFICES ASSUME Ordinary PROVE Spec => []NoInputStreamRace
  OBVIOUS
<1>1. WorkerInv /\ TaskInv => NoInputStreamRace
  BY DEF TaskInv
<1>2. QED
  BY <1>1, TaskInvAlways, PTL

\* At most one worker is about to count down a task of the bucket.
LEMMA UncountedCount ==
  ASSUME WorkerInv, NEW b \in Buckets
  PROVE  Cardinality(Uncounted(b)) = Count(HolderAt(b, {"done"}))
<1>1. CASE HolderAt(b, {"done"})
  <2>1. PICK w \in holders[b] : pc[w] = "done"
    BY <1>1 DEF HolderAt
  <2>2. Uncounted(b) = {w}
    BY <2>1, OnlyHolder DEF WorkerInv, Uncounted
  <2>3. QED
    BY <1>1, <2>2, FS_Singleton DEF Count
<1>2. CASE ~HolderAt(b, {"done"})
  <2>1. Uncounted(b) = {}
    BY <1>2 DEF HolderAt, Uncounted
  <2>2. QED
    BY <1>2, <2>1, FS_EmptySet DEF Count
<1>3. QED
  BY <1>1, <1>2

\* In the ordinary case, the refcount of a bucket is the number of its live
\* tasks, so its memory is wiped, and the bucket claimed, exactly when no task
\* is left; no u8 wraps around.
THEOREM ExecutorRefcountExact == Ordinary => (Spec => []RefcountExact)
<1> SUFFICES ASSUME Ordinary PROVE Spec => []RefcountExact
  OBVIOUS
<1>1. WorkerInv /\ TaskInv => RefcountExact
  BY UncountedCount DEF TaskInv, Counted, RefcountExact
<1>2. QED
  BY <1>1, TaskInvAlways, PTL

\* In the ordinary case, no task is forgotten: one that is not done is queued
\* where a worker will look for it, runs, or has left a waker with the reactor
\* or with a connection.
THEOREM ExecutorNoTaskForgotten == Ordinary => (Spec => []NoTaskForgotten)
<1> SUFFICES ASSUME Ordinary PROVE Spec => []NoTaskForgotten
  OBVIOUS
<1>1. WorkerInv /\ TaskInv => NoTaskForgotten
  <2> SUFFICES ASSUME WorkerInv, TaskInv,
                      NEW b \in Buckets, ~TakenDown(b), ~Lost(b), NEW o \in LiveTasks(b)
               PROVE  \/ o \in pending[b] /\ (Due(b) \/ Attended(b))
                      \/ Running(b, o) \/ Awaited(b, o)
                      \/ o = INPUT_STREAM /\ Placed(b)
    BY DEF NoTaskForgotten
  <2>0. TypeOK /\ OneWakeUp(b) /\ OneResponse(b) /\ ConnectionsHeard(b) /\ ReservedInside(b)
    BY DEF WorkerInv, TaskInv
  <2>1. o \in pending[b] => Due(b) \/ Attended(b)
    BY DEF TaskInv, JobsSeen, Attended
  <2>2. CASE o = INPUT_STREAM
    <3>1. futures[b] # None
      BY <2>2 DEF LiveTasks
    <3>2. WakeUps(b) = 1
      BY <2>0, <3>1 DEF OneWakeUp, Count
    <3>3. Polled(b) => Running(b, o)
      BY <2>2 DEF Polled, Running
    <3>4. channel[b] # {} => Awaited(b, o)
      BY <2>0, <2>2 DEF OneResponse, Awaited
    <3>5. QED
      BY <2>1, <2>2, <3>2, <3>3, <3>4 DEF WakeUps, Count, Awaited
  <2>3. CASE o # INPUT_STREAM
    <3>1. o \in Connections /\ connections[b][o] \in {"Reserved", "Occupied"}
      BY <2>0, <2>3, Constant DEF LiveTasks, TypeOK
    <3>2. CASE connections[b][o] = "Reserved"
      BY <2>0, <3>1, <3>2 DEF ReservedInside, TakenDown, Running
    <3>3. CASE connections[b][o] = "Occupied"
      BY <2>0, <2>1, <3>1, <3>3 DEF ConnectionsHeard, Running, Awaited, Lost
    <3>4. QED
      BY <3>1, <3>2, <3>3
  <2>4. QED
    BY <2>2, <2>3
<1>2. QED
  BY <1>1, TaskInvAlways, PTL

----------------------------------------------------------------------------
(* Descriptors, in the ordinary case. *)

LEMMA DescriptorInit == Init => DescriptorInv
  BY DEF Init, DescriptorInv, Placing, Carrying, HasDescriptor

\* A step that leaves futures, descriptors and outcomes alone.
LEMMA DescriptorStutter ==
  ASSUME TypeOK, DescriptorInv,
         futures' = futures, tcp_streams' = tcp_streams, fd_table' = fd_table,
         outcome' = outcome, accept' = accept,
         \A c \in Buckets : HolderAt(c, {"clean_conns", "clean_future"})'
                            <=> HolderAt(c, {"clean_conns", "clean_future"})
  PROVE  DescriptorInv'
<1>1. /\ Placing' = Placing /\ Carrying' = Carrying
      /\ main' = main /\ request' = request /\ fd' = fd /\ bucket' = bucket
  BY DEF accept, Placing, Carrying
<1>2. \A c \in Buckets : HasDescriptor(c)' <=> HasDescriptor(c)
  BY <1>1 DEF HasDescriptor
<1>3. QED
  BY <1>1, <1>2 DEF DescriptorInv

\* A step that closes the duplicate of a bucket's descriptor, and nothing else.
LEMMA DescriptorClosed ==
  ASSUME TypeOK, DescriptorInv, Carrying => request \in Requests,
         NEW b \in Buckets, HasDescriptor(b), ~HasDescriptor(b)',
         fd_table' = Closed(tcp_streams[b]), tcp_streams' = tcp_streams, accept' = accept,
         futures' = futures \/ futures' = [futures EXCEPT ![b] = None],
         \A r \in Requests : outcome[r] # "new" => outcome'[r] # "new",
         \A c \in Buckets : c # b => Same(c)
  PROVE  DescriptorInv'
<1>1. /\ Placing' = Placing /\ Carrying' = Carrying
      /\ main' = main /\ request' = request /\ fd' = fd /\ bucket' = bucket
  BY DEF accept, Placing, Carrying
<1>2. \A c \in Buckets : c # b => (HasDescriptor(c)' <=> HasDescriptor(c))
  BY DEF HasDescriptor, HolderAt, Same
<1>3. /\ futures \in [Buckets -> Requests \cup {None}] /\ fd_table \in [Fds -> Requests \cup {None}]
      /\ tcp_streams[b] \in Fds /\ fd_table[tcp_streams[b]] = futures[b] /\ futures[b] # None
  BY DEF TypeOK, DescriptorInv, HasDescriptor
<1>4. \A f \in Fds : fd_table'[f] = IF f = tcp_streams[b] THEN None ELSE fd_table[f]
  BY DEF Closed
<1>5. \A c \in Buckets : futures'[c] # None => futures'[c] = futures[c]
  BY <1>3
<1>6. /\ \A c \in Buckets : futures'[c] # None => outcome'[futures'[c]] # "new"
      /\ \A c, d \in Buckets : futures'[c] # None /\ futures'[c] = futures'[d] => c = d
  BY <1>3, <1>5 DEF DescriptorInv
<1>7. /\ Placing => \A c \in Buckets : futures'[c] # request
      /\ main = "store" => futures'[bucket] = request
      /\ Carrying => outcome'[request] # "new" /\ fd \in Fds /\ fd_table'[fd] = request
  <2>1. main = "store" => bucket \in Buckets /\ bucket # b /\ futures[bucket] = request
    BY DEF HasDescriptor, DescriptorInv, TypeOK
  <2>2. /\ Placing => \A c \in Buckets : futures[c] # request
        /\ Carrying => outcome[request] # "new" /\ fd \in Fds /\ fd_table[fd] = request
    BY DEF DescriptorInv
  <2>3. Carrying => request # None /\ futures[b] # request
    BY <1>3, <2>1, <2>2, ExecutorAssumption DEF Carrying, Placing, DescriptorInv
  <2>4. QED
    BY <1>3, <1>4, <1>5, <2>1, <2>2, <2>3, ExecutorAssumption DEF Placing, Carrying
<1>8. \A c \in Buckets : HasDescriptor(c)' =>
        tcp_streams'[c] \in Fds /\ fd_table'[tcp_streams'[c]] = futures'[c]
  BY <1>2, <1>3, <1>4, <1>5 DEF DescriptorInv, HasDescriptor
<1>9. \A f \in Fds : fd_table'[f] # None =>
        (Carrying /\ fd = f) \/ \E c \in Buckets : HasDescriptor(c)' /\ tcp_streams'[c] = f
  BY <1>2, <1>4 DEF DescriptorInv
<1>10. QED
  BY <1>1, <1>6, <1>7, <1>8, <1>9 DEF DescriptorInv

\* A worker's step that is no end of a future or of its descriptor.
LEMMA DescriptorKept ==
  ASSUME WorkerInv, DescriptorInv,
         NEW w \in Workers, NEW b \in Buckets, RunBucket(w, b) \/ PollTask(w, b),
         ~MainReady(w, b), ~CleanFd(w, b), ~CleanFuture(w, b)
  PROVE  DescriptorInv'
<1>0. TypeOK /\ QueueTypeOK /\ OneHolder
  BY DEF WorkerInv
<1> USE DEF Goto, At, inner, accept, worker, external
<1>1. /\ futures' = futures /\ tcp_streams' = tcp_streams /\ fd_table' = fd_table
      /\ outcome' = outcome /\ accept' = accept
  <2>1. CASE RunBucket(w, b)
    BY <2>1 DEF RunBucket, ClaimBucket, DequeueNone, Dispatch, InputStreamRace, GoAgain, GiveUp,
       Dequeue, TaskDone, CleanConnections, CleanCount
  <2>2. CASE PollTask(w, b)
    BY <2>2 DEF PollTask, HandshakeNoSlot, Handshaken, Handshake, WakeConnection, MainPending,
       MainFails, Respond, ConnPending, ConnReady, ConnFails, ConnPanics
  <2>3. QED
    BY <2>1, <2>2
<1>2. HolderAt(b, {"clean_conns", "clean_future"})' <=> HolderAt(b, {"clean_conns", "clean_future"})
  <2>1. CASE ClaimBucket(w, b) \/ GiveUp(w, b)
    BY <1>0, <2>1, OnlyHolder
       DEF ClaimBucket, GiveUp, WQ!Claim, WQ!Release, HolderAt, TypeOK, QueueTypeOK
  <2>2. CASE ~ClaimBucket(w, b) /\ ~GiveUp(w, b)
    <3>1. holders[b] = {w} /\ w \in Threads /\ job[w] \in Offsets
      BY <1>0, <2>2, OnlyHolder, IsThread
         DEF RunBucket, DequeueNone, Dispatch, InputStreamRace, GoAgain, Dequeue, TaskDone,
             CleanConnections, CleanCount, PollTask, HandshakeNoSlot, Handshaken, Handshake,
             WakeConnection, MainPending, MainFails, Respond, ConnPending, ConnReady, ConnFails,
             ConnPanics, TypeOK
    <3>2. holders'[b] = {w}
      <4>1. CASE RunBucket(w, b)
        BY <1>0, <2>2, <3>1, <4>1, WakeEffect, Constant
           DEF RunBucket, DequeueNone, Dispatch, InputStreamRace, GoAgain, Dequeue, TaskDone,
               CleanConnections, CleanCount, WQ!Again, WQ!Take, queue
      <4>2. CASE PollTask(w, b)
        BY <1>0, <3>1, <4>2, WakeEffect, Constant
           DEF PollTask, HandshakeNoSlot, Handshaken, Handshake, WakeConnection, MainPending,
               MainFails, Respond, ConnPending, ConnReady, ConnFails, ConnPanics, queue
      <4>3. QED
        BY <4>1, <4>2
    <3>3. pc'[w] \in {"clean_conns", "clean_future"} <=> pc[w] \in {"clean_conns", "clean_future"}
      <4>1. CASE RunBucket(w, b)
        BY <1>0, <2>2, <4>1
           DEF RunBucket, DequeueNone, Dispatch, AfterDeath, InputStreamRace, GoAgain, Dequeue,
               TaskDone, CleanConnections, CleanCount, TypeOK
      <4>2. CASE PollTask(w, b)
        BY <1>0, <4>2
           DEF PollTask, HandshakeNoSlot, Handshaken, Handshake, WakeConnection, MainPending,
               MainFails, Respond, ConnPending, ConnReady, ConnFails, ConnPanics, TypeOK
      <4>3. QED
        BY <4>1, <4>2
    <3>4. QED
      BY <3>1, <3>2, <3>3 DEF HolderAt
  <2>3. QED
    BY <2>1, <2>2
<1>3. \A c \in Buckets : c # b => Same(c)
  BY <1>0, RunBucketFrame, PollTaskFrame
<1>4. \A c \in Buckets : HolderAt(c, {"clean_conns", "clean_future"})'
                         <=> HolderAt(c, {"clean_conns", "clean_future"})
  BY <1>2, <1>3 DEF HolderAt, Same
<1>5. QED
  BY <1>0, <1>1, <1>4, DescriptorStutter

\* A worker's step that ends a future or closes its descriptor.
LEMMA DescriptorEnds ==
  ASSUME WorkerInv, TaskInv, DescriptorInv, NEW w \in Workers, NEW b \in Buckets,
         MainReady(w, b) \/ CleanFd(w, b) \/ CleanFuture(w, b)
  PROVE  DescriptorInv'
<1>0. /\ TypeOK /\ QueueTypeOK /\ OneHolder /\ Heard(b)
      /\ Carrying => request \in Requests
  BY DEF WorkerInv, TaskInv, Heard
<1>1. holders[b] = {w} /\ holders' = holders
  BY <1>0, OnlyHolder DEF MainReady, CleanFd, CleanFuture, At, queue
<1>2. HeardBy(w, b)
  BY <1>0, <1>1, HeardHeld
<1>3. \A c \in Buckets : c # b => Same(c)
  BY <1>0, RunBucketFrame, PollTaskFrame DEF RunBucket, PollTask
<1> USE DEF Goto, At
<1>a. ~(main = "store" /\ bucket = b)
  BY <1>2 DEF HeardBy, Count, Placed, MainReady, CleanFd, CleanFuture
<1>4. CASE MainReady(w, b)
  <2>1. pc[w] = "main" /\ futures' = [futures EXCEPT ![b] = None]
    BY <1>4 DEF MainReady
  <2>2. HasDescriptor(b) /\ ~HasDescriptor(b)'
    BY <1>0, <1>1, <1>2, <1>a, <2>1 DEF HeardBy, HasDescriptor, HolderAt, Count, TypeOK
  <2>3. \A r \in Requests : outcome[r] # "new" => outcome'[r] # "new"
    BY <1>0, <1>4 DEF MainReady, TypeOK
  <2>4. QED
    BY <1>0, <1>3, <1>4, <2>1, <2>2, <2>3, DescriptorClosed DEF MainReady, DuplicateDropped
<1>5. CASE CleanFd(w, b)
  <2>1. pc[w] = "clean_fd" /\ pc'[w] = "clean_conns" /\ futures' = futures
    BY <1>0, <1>5 DEF CleanFd, TypeOK, inner
  <2>2. HasDescriptor(b) /\ ~HasDescriptor(b)'
    BY <1>0, <1>1, <1>2, <1>a, <2>1 DEF HeardBy, HasDescriptor, HolderAt
  <2>3. \A r \in Requests : outcome[r] # "new" => outcome'[r] # "new"
    BY <1>5 DEF CleanFd, ErrorResponse
  <2>4. QED
    BY <1>0, <1>3, <1>5, <2>1, <2>2, <2>3, DescriptorClosed DEF CleanFd, inner
<1>6. CASE CleanFuture(w, b)
  <2>1. /\ pc[w] = "clean_future" /\ futures' = [futures EXCEPT ![b] = None]
        /\ tcp_streams' = tcp_streams /\ fd_table' = fd_table /\ outcome' = outcome
        /\ main' = main /\ request' = request /\ fd' = fd /\ bucket' = bucket
    BY <1>6 DEF CleanFuture, accept
  <2>2. \A c \in Buckets : HasDescriptor(c)' <=> HasDescriptor(c)
    <3>1. ~HasDescriptor(b) /\ ~HasDescriptor(b)'
      BY <1>0, <1>1, <2>1 DEF HasDescriptor, HolderAt, TypeOK
    <3>2. QED
      BY <1>3, <3>1 DEF HasDescriptor, HolderAt, Same
  <2>3. Placing' = Placing /\ Carrying' = Carrying
    BY <2>1 DEF Placing, Carrying
  <2>4. futures \in [Buckets -> Requests \cup {None}] /\ bucket \in Buckets
    BY <1>0 DEF TypeOK
  <2>5. Placing => Carrying
    BY DEF Placing, Carrying
  <2>6. QED
    BY <1>0, <1>a, <2>5, <2>1, <2>2, <2>3, <2>4, ExecutorAssumption DEF DescriptorInv, HasDescriptor
<1>7. QED
  BY <1>4, <1>5, <1>6

\* The accept loop takes a free descriptor, and hands it on or closes it.
LEMMA DescriptorMain ==
  ASSUME WorkerInv, TaskInv, DescriptorInv, MainThread
  PROVE  DescriptorInv'
<1>0. /\ TypeOK /\ QueueTypeOK /\ OneWakeUp(bucket) /\ bucket \in Buckets
      /\ Carrying => request \in Requests
  BY DEF WorkerInv, TypeOK, TaskInv
<1>1. pc' = pc /\ holders' = holders
  BY <1>0, OtherThreads
<1>2. \A c \in Buckets : HolderAt(c, {"clean_conns", "clean_future"})'
                         <=> HolderAt(c, {"clean_conns", "clean_future"})
  BY <1>1 DEF HolderAt
<1>3. ASSUME NEW r \in Requests, Accept(r) PROVE DescriptorInv'
  <2>1. /\ main = "accept" /\ outcome[r] = "new" /\ outcome' = [outcome EXCEPT ![r] = "open"]
        /\ futures' = futures /\ tcp_streams' = tcp_streams
    BY <1>3 DEF Accept, inner
  <2>2. \A c \in Buckets : futures[c] # None => outcome'[futures[c]] # "new"
    BY <1>0, <2>1 DEF DescriptorInv, TypeOK
  <2>3. \A c \in Buckets : (HasDescriptor(c)' <=> HasDescriptor(c)) /\ futures[c] # r
    BY <1>2, <1>3, <2>1, ExecutorAssumption DEF HasDescriptor, DescriptorInv, Accept
  <2>4. CASE \A f \in Fds : fd_table[f] # None
    <3>1. main' = "panicked" /\ fd_table' = fd_table
      BY <1>3, <2>4 DEF Accept
    <3>2. QED
      BY <2>1, <2>2, <2>3, <3>1 DEF DescriptorInv, Placing, Carrying
  <2>5. CASE \E f \in Fds : fd_table[f] = None
    <3>1. LowestFree \in Fds /\ fd_table[LowestFree] = None
      BY <2>5, LowestFreeIsFree
    <3>2. /\ main' = "claim" /\ request' = r /\ fd' = LowestFree
          /\ fd_table' = [fd_table EXCEPT ![LowestFree] = r]
      BY <1>3, <2>5 DEF Accept
    <3>3. /\ Carrying' /\ outcome'[r] = "open" /\ fd_table'[LowestFree] = r
          /\ \A f \in Fds : f # LowestFree => fd_table'[f] = fd_table[f]
      BY <1>0, <2>1, <3>1, <3>2 DEF Carrying, TypeOK
    <3>4. \A c \in Buckets : HasDescriptor(c) =>
            tcp_streams[c] \in Fds /\ fd_table'[tcp_streams[c]] = futures[c]
      BY <3>1, <3>3 DEF DescriptorInv, HasDescriptor
    <3>5. \A f \in Fds : fd_table'[f] # None =>
            f = LowestFree \/ \E c \in Buckets : HasDescriptor(c) /\ tcp_streams[c] = f
      BY <2>1, <3>3 DEF DescriptorInv, Carrying
    <3>6. QED
      BY <2>1, <2>2, <2>3, <3>1, <3>2, <3>3, <3>4, <3>5 DEF DescriptorInv
  <2>6. QED
    BY <2>4, <2>5
<1>4. CASE TryClaim
  <2>1. /\ Placing /\ Carrying /\ Placing' /\ Carrying' /\ main # "store" /\ main' # "store"
        /\ request' = request /\ fd' = fd /\ futures' = futures
        /\ tcp_streams' = tcp_streams /\ fd_table' = fd_table /\ outcome' = outcome
    BY <1>4 DEF TryClaim, Placing, Carrying, external
  <2>2. \A c \in Buckets : HasDescriptor(c)' <=> HasDescriptor(c)
    BY <1>2, <2>1 DEF HasDescriptor
  <2>3. QED
    BY <2>1, <2>2 DEF DescriptorInv
<1>5. CASE Reject
  <2>1. /\ Placing /\ Carrying /\ ~Placing' /\ ~Carrying' /\ main # "store" /\ main' # "store"
        /\ futures' = futures /\ tcp_streams' = tcp_streams
        /\ fd_table' = Closed(fd) /\ outcome' = [outcome EXCEPT ![request] = "rejected"]
    BY <1>5 DEF Reject, Placing, Carrying, inner
  <2>2. \A c \in Buckets : HasDescriptor(c)' <=> HasDescriptor(c)
    BY <1>2, <2>1 DEF HasDescriptor
  <2>3. \A f \in Fds : fd_table'[f] = IF f = fd THEN None ELSE fd_table[f]
    BY <2>1 DEF Closed
  <2>4. \A c \in Buckets : HasDescriptor(c) => tcp_streams[c] # fd
    BY <2>1 DEF DescriptorInv, HasDescriptor
  <2>5. \A c \in Buckets : futures[c] # None => outcome'[futures[c]] # "new"
    BY <1>0, <2>1 DEF DescriptorInv, TypeOK
  <2>6. QED
    BY <2>1, <2>2, <2>3, <2>4, <2>5 DEF DescriptorInv
<1>6. CASE Set
  <2>1. /\ main = "set" /\ main' = "store" /\ bucket' = bucket /\ futures[bucket] = None
        /\ request \in Requests /\ request # None
        /\ futures' = [futures EXCEPT ![bucket] = request]
    BY <1>6, SetFindsRoom
  <2>2. /\ tcp_streams' = tcp_streams /\ fd_table' = fd_table /\ outcome' = outcome
        /\ request' = request /\ fd' = fd
        /\ Placing /\ Carrying /\ ~Placing' /\ Carrying'
    BY <1>6, <2>1 DEF Set, Placing, Carrying, external
  <2>3. futures \in [Buckets -> Requests \cup {None}]
    BY <1>0 DEF TypeOK
  <2>4. /\ outcome[request] # "new" /\ fd \in Fds /\ fd_table[fd] = request
        /\ \A c \in Buckets : futures[c] # request
    BY <2>2 DEF DescriptorInv
  <2>5. \A c \in Buckets : /\ HasDescriptor(c)' <=> HasDescriptor(c)
                           /\ HasDescriptor(c) => futures'[c] = futures[c]
    BY <1>0, <1>2, <2>1, <2>3 DEF HasDescriptor
  <2>6. /\ \A c \in Buckets : futures'[c] # None => outcome'[futures'[c]] # "new"
        /\ \A c, d \in Buckets : futures'[c] # None /\ futures'[c] = futures'[d] => c = d
        /\ futures'[bucket'] = request'
    BY <1>0, <2>1, <2>2, <2>3, <2>4 DEF DescriptorInv
  <2>7. QED
    BY <2>2, <2>4, <2>5, <2>6 DEF DescriptorInv
<1>7. CASE StoreFd
  <2>1. main = "store" /\ futures[bucket] = request /\ request # None
    BY <1>0, <1>7, ExecutorAssumption DEF StoreFd, TaskInv, DescriptorInv, Carrying
  <2>2. /\ tcp_streams' = [tcp_streams EXCEPT ![bucket] = fd] /\ main' = "enqueue"
        /\ futures' = futures /\ fd_table' = fd_table /\ outcome' = outcome
        /\ Carrying /\ ~Placing' /\ ~Carrying'
    BY <1>7, <2>1 DEF StoreFd, StoredFd, Placing, Carrying, external
  <2>3. ~HolderAt(bucket, {"clean_conns", "clean_future"})
    BY <1>0, <2>1 DEF OneWakeUp, WakeUps, Count, Placed, HolderAt, TakenDown
  <2>4. /\ ~HasDescriptor(bucket)
        /\ \A c \in Buckets : HasDescriptor(c)' <=> c = bucket \/ HasDescriptor(c)
    BY <1>0, <1>2, <2>1, <2>2, <2>3 DEF HasDescriptor
  <2>5. tcp_streams \in [Buckets -> Fds \cup {0}]
    BY <1>0 DEF TypeOK
  <2>6. outcome[request] # "new" /\ fd \in Fds /\ fd_table[fd] = request
    BY <2>2 DEF DescriptorInv
  <2>7. \A c \in Buckets : HasDescriptor(c)' =>
          tcp_streams'[c] \in Fds /\ fd_table'[tcp_streams'[c]] = futures'[c]
    BY <1>0, <2>1, <2>2, <2>4, <2>5, <2>6 DEF DescriptorInv
  <2>8. ASSUME NEW f \in Fds, fd_table'[f] # None
        PROVE  \E c \in Buckets : HasDescriptor(c)' /\ tcp_streams'[c] = f
    <3>1. CASE fd = f
      BY <1>0, <2>2, <2>4, <2>5, <3>1
    <3>2. CASE fd # f
      <4>1. PICK c \in Buckets : HasDescriptor(c) /\ tcp_streams[c] = f
        BY <2>2, <2>8, <3>2 DEF DescriptorInv
      <4>2. QED
        BY <2>2, <2>4, <2>5, <4>1
    <3>3. QED
      BY <3>1, <3>2
  <2>9. QED
    BY <2>2, <2>7, <2>8 DEF DescriptorInv
<1>8. CASE Execute
  <2>1. /\ ~Placing' /\ ~Carrying /\ ~Carrying' /\ main # "store" /\ main' # "store"
        /\ futures' = futures /\ tcp_streams' = tcp_streams
        /\ fd_table' = fd_table /\ outcome' = outcome
    BY <1>8 DEF Execute, Placing, Carrying, inner, external
  <2>2. \A c \in Buckets : HasDescriptor(c)' <=> HasDescriptor(c)
    BY <1>2, <2>1 DEF HasDescriptor
  <2>3. QED
    BY <2>1, <2>2 DEF DescriptorInv
<1>9. QED
  BY <1>3, <1>4, <1>5, <1>6, <1>7, <1>8 DEF MainThread

\* In the ordinary case, the invariant of the descriptors is inductive.
LEMMA DescriptorNext ==
  ASSUME WorkerInv, TaskInv, DescriptorInv, [Next]_vars
  PROVE  DescriptorInv'
<1>1. CASE MainThread
  BY <1>1, DescriptorMain
<1>2. CASE ReactorThread \/ (\E t \in Threads : Announce(t)) \/ UNCHANGED vars
  <2>1. pc' = pc /\ holders' = holders
    BY <1>2, OtherThreads DEF WorkerInv
  <2>2. /\ futures' = futures /\ tcp_streams' = tcp_streams /\ fd_table' = fd_table
        /\ outcome' = outcome /\ accept' = accept
    BY <1>2 DEF ReactorThread, Collect, CallWaker, Announce, vars, inner, external
  <2>3. QED
    BY <2>1, <2>2, DescriptorStutter DEF WorkerInv, HolderAt
<1>3. ASSUME NEW w \in Workers, NEW b \in Buckets, RunBucket(w, b) \/ PollTask(w, b)
      PROVE  DescriptorInv'
  BY <1>3, DescriptorKept, DescriptorEnds
<1>4. QED
  BY <1>1, <1>2, <1>3 DEF Next

LEMMA OrdinaryInvAlways ==
  ASSUME Ordinary
  PROVE  Spec => []OrdinaryInv
<1>1. Init => OrdinaryInv
  BY WorkerInvInit, TaskInvInit, DescriptorInit DEF OrdinaryInv
<1>2. OrdinaryInv /\ [Next]_vars => OrdinaryInv'
  BY WorkerInvNext, TaskInvNext, DescriptorNext DEF OrdinaryInv
<1>3. QED
  BY <1>1, <1>2, PTL DEF Spec

\* In the ordinary case, the inductive invariant holds in every reachable
\* state: one wake-up per future, exact counts, every descriptor with its
\* request.
THEOREM ExecutorInvariant == Ordinary => (Spec => []OrdinaryInv)
  BY OrdinaryInvAlways

\* In the ordinary case, a bucket that try_claim() may hand to the next request
\* is at rest: no task of it is alive, nobody takes it down, no worker has died
\* in it, and no wake-up of an earlier future is left in the queue, the reactor
\* or a connection.
THEOREM ExecutorFreeIsQuiet == Ordinary => (Spec => []FreeIsQuiet)
<1> SUFFICES ASSUME Ordinary PROVE Spec => []FreeIsQuiet
  OBVIOUS
<1>1. OrdinaryInv => FreeIsQuiet
  <2> SUFFICES ASSUME OrdinaryInv, NEW b \in Buckets, refcounts[b] = 0
               PROVE  LiveTasks(b) = {} /\ ~TakenDown(b) /\ ~Lost(b) /\ WakeUps(b) = 0
    BY DEF FreeIsQuiet
  <2>1. Counted(b) /\ OneWakeUp(b) /\ ConnectionsHeard(b) /\ holders[b] \subseteq Workers
    BY DEF OrdinaryInv, WorkerInv, QueueTypeOK, TaskInv
  <2>2. Claimed(b) = 0
    BY <2>1 DEF Counted, Claimed
  <2>3. LiveTasks(b) = {} /\ futures[b] = None /\ ~TakenDown(b)
    BY <2>1, <2>2, NothingCounted
  <2>4. ~Lost(b)
    <3>1. \A w \in holders[b] : pc[w] # "crashed"
      BY <2>1, <2>3, Constant DEF ConnectionsHeard, LiveTasks
    <3>2. QED
      BY <2>1, <3>1 DEF Lost, OrdinaryInv, WorkerInv, NoWorkerDies, TaskInv, NoInputStreamRace
  <2>5. QED
    BY <2>1, <2>3, <2>4 DEF OneWakeUp, Count
<1>2. QED
  BY <1>1, OrdinaryInvAlways, PTL

\* In the ordinary case, a request that has a future has its own socket to
\* answer an error with, although descriptor numbers are used again.
THEOREM ExecutorOwnDescriptor == Ordinary => (Spec => []OwnDescriptor)
<1> SUFFICES ASSUME Ordinary PROVE Spec => []OwnDescriptor
  OBVIOUS
<1>1. OrdinaryInv => OwnDescriptor
  BY DEF OrdinaryInv, DescriptorInv, HasDescriptor, HolderAt, TakenDown, OwnDescriptor, OwnerOf
<1>2. QED
  BY <1>1, OrdinaryInvAlways, PTL

\* Only cleanup_bucket sends an error response.
LEMMA OnlyCleanFdCancels ==
  ASSUME TypeOK, [Next]_vars, NEW r \in Requests,
         outcome'[r] # outcome[r], outcome'[r] = "cancelled"
  PROVE  \E w \in Workers, b \in Buckets : CleanFd(w, b)
<1> USE DEF external
<1>1. CASE MainThread
  BY <1>1 DEF MainThread, Accept, TryClaim, Reject, Set, StoreFd, Execute, TypeOK
<1>2. CASE ReactorThread \/ (\E t \in Threads : Announce(t)) \/ UNCHANGED vars
  BY <1>2 DEF ReactorThread, Collect, CallWaker, Announce, vars
<1>3. ASSUME NEW w \in Workers, NEW b \in Buckets, RunBucket(w, b), ~CleanFd(w, b)
      PROVE  FALSE
  BY <1>3 DEF RunBucket, ClaimBucket, DequeueNone, Dispatch, InputStreamRace, GoAgain, GiveUp,
     Dequeue, TaskDone, CleanConnections, CleanFuture, CleanCount
<1>4. ASSUME NEW w \in Workers, NEW b \in Buckets, PollTask(w, b)
      PROVE  FALSE
  <2>1. CASE MainReady(w, b)
    BY <2>1 DEF MainReady, TypeOK
  <2>2. CASE ~MainReady(w, b)
    BY <1>4, <2>2 DEF PollTask, HandshakeNoSlot, Handshaken, Handshake, WakeConnection,
       MainPending, MainFails, Respond, ConnPending, ConnReady, ConnFails, ConnPanics
  <2>3. QED
    BY <2>1, <2>2
<1>5. QED
  BY <1>1, <1>2, <1>3, <1>4 DEF Next

\* In the ordinary case, an error response goes to the client whose future the
\* bucket holds: when a request exceeds its memory limit or panics, only that
\* request is cancelled.
THEOREM ExecutorOnlyThatRequestCancelled == Ordinary => (Spec => OnlyThatRequestCancelled)
<1> SUFFICES ASSUME Ordinary PROVE Spec => OnlyThatRequestCancelled
  OBVIOUS
<1>1. OrdinaryInv /\ [Next]_vars =>
        [\A r \in Requests : outcome[r] # outcome'[r] /\ outcome'[r] = "cancelled" =>
           \E w \in Workers, b \in Buckets : At(w, b, "clean_fd") /\ futures[b] = r]_vars
  <2> SUFFICES ASSUME OrdinaryInv, [Next]_vars, NEW r \in Requests,
                      outcome[r] # outcome'[r], outcome'[r] = "cancelled"
               PROVE  \E w \in Workers, b \in Buckets : At(w, b, "clean_fd") /\ futures[b] = r
    OBVIOUS
  <2>1. PICK w \in Workers, b \in Buckets : CleanFd(w, b)
    BY OnlyCleanFdCancels DEF OrdinaryInv, WorkerInv
  <2>2. At(w, b, "clean_fd") /\ outcome' = ErrorResponse(tcp_streams[b])
    BY <2>1 DEF CleanFd
  <2>3. r = OwnerOf(tcp_streams[b])
    BY <2>2 DEF ErrorResponse
  <2>4. holders[b] = {w} /\ pc[w] = "clean_fd"
    BY <2>2, OnlyHolder DEF At, OrdinaryInv, WorkerInv
  <2>5. HasDescriptor(b)
    <3>1. OneWakeUp(b) /\ OrderlyCleanup(b) /\ TakenDown(b)
      BY <2>4 DEF OrdinaryInv, TaskInv, TakenDown
    <3>2. ~Placed(b)
      BY <3>1 DEF OneWakeUp, WakeUps, Count
    <3>3. QED
      BY <2>4, <3>1, <3>2 DEF OrderlyCleanup, HolderAt, HasDescriptor, Placed
  <2>6. futures[b] = r
    BY <2>3, <2>5 DEF OrdinaryInv, DescriptorInv, OwnerOf
  <2>7. QED
    BY <2>2, <2>6
<1>2. QED
  BY <1>1, OrdinaryInvAlways, PTL DEF Spec, OnlyThatRequestCancelled

\* With more descriptors than buckets, one is free whenever a client connects.
LEMMA FdLeft ==
  ASSUME OrdinaryInv, Cardinality(Fds) > bucket_count, main = "accept"
  PROVE  \E f \in Fds : fd_table[f] = None
<1> SUFFICES ASSUME \A f \in Fds : fd_table[f] # None PROVE FALSE
  OBVIOUS
<1> DEFINE place == [f \in Fds |-> CHOOSE b \in Buckets : tcp_streams[b] = f]
<1>1. \A f \in Fds : \E b \in Buckets : tcp_streams[b] = f
  BY DEF OrdinaryInv, DescriptorInv, Carrying
<1>2. place \in [Fds -> Buckets] /\ \A f \in Fds : tcp_streams[place[f]] = f
  BY <1>1
<1>3. IsFiniteSet(Buckets) /\ Cardinality(Buckets) = bucket_count
  BY ExecutorAssumption, FS_Interval DEF Buckets
<1>4. PICK f, g \in Fds : f # g /\ place[f] = place[g]
  <2> HIDE DEF place
  <2>1. IsFiniteSet(Fds) /\ Cardinality(Buckets) < Cardinality(Fds)
    <3>1. Cardinality(Fds) \in Nat
      BY ExecutorAssumption, FS_CardinalityType
    <3>2. QED
      BY <1>3, <3>1, ExecutorAssumption
  <2>2. QED
    BY <1>2, <1>3, <2>1, FS_PigeonHole
<1>5. QED
  BY <1>2, <1>4

\* In the ordinary case, as long as no client resets its connection and there
\* are more descriptors than buckets, the accept loop does not die: not of the
\* lock or the assertion in set(), not of an exhausted descriptor table.
THEOREM ExecutorMainNeverPanics ==
  Ordinary /\ "reset" \notin Faults /\ Cardinality(Fds) > bucket_count
  => (Spec => []MainNeverPanics)
<1> SUFFICES ASSUME Ordinary, "reset" \notin Faults, Cardinality(Fds) > bucket_count
             PROVE  Spec => []MainNeverPanics
  OBVIOUS
<1>1. Init => MainNeverPanics
  BY DEF Init, MainNeverPanics
<1>2. OrdinaryInv /\ MainNeverPanics /\ [Next]_vars => MainNeverPanics'
  <2> SUFFICES ASSUME OrdinaryInv, MainNeverPanics, [Next]_vars PROVE MainNeverPanics'
    OBVIOUS
  <2>1. ASSUME NEW r \in Requests, Accept(r) PROVE main' = "claim"
    BY <2>1, FdLeft DEF Accept
  <2>2. CASE Set
    BY <2>2, SetFindsRoom DEF OrdinaryInv, MainNeverPanics
  <2>3. CASE TryClaim \/ Reject \/ StoreFd \/ Execute
    BY <2>3 DEF TryClaim, Reject, StoreFd, Execute, OrdinaryInv, TaskInv, MainNeverPanics
  <2>4. CASE ~MainThread
    BY <2>4, AcceptKept DEF accept, MainNeverPanics
  <2>5. QED
    BY <2>1, <2>2, <2>3, <2>4 DEF MainThread, MainNeverPanics
<1>3. QED
  BY <1>1, <1>2, OrdinaryInvAlways, PTL DEF Spec

----------------------------------------------------------------------------
(* The use of the reactor, in the ordinary case. *)

\* A step of the executor leaves, takes or calls one waker at most, or drops
\* some.
LEMMA ReactorStep ==
  ASSUME Ordinary, WorkerInv, TaskInv, [Next]_vars
  PROVE  [WS!Next]_WS!vars
<1>0. TypeOK /\ QueueTypeOK /\ OneHolder /\ job \in [Workers -> Offsets]
  BY DEF WorkerInv, TypeOK
<1>a. \A c \in Buckets, o \in Offsets : {<<c, o>>} \in SUBSET (Buckets \X Offsets)
  OBVIOUS
<1> USE Constant DEF WS!Next, WS!vars, external
<1>1. CASE MainThread
  BY <1>1 DEF MainThread, Accept, TryClaim, Reject, Set, StoreFd, Execute
<1>2. CASE ReactorThread
  BY <1>2 DEF ReactorThread, Collect, CallWaker
<1>3. CASE (\E t \in Threads : Announce(t)) \/ UNCHANGED vars
  BY <1>3 DEF Announce, vars
<1>4. ASSUME NEW w \in Workers, NEW b \in Buckets, RunBucket(w, b)
      PROVE  [WS!Next]_WS!vars
  <2>1. CASE CleanConnections(w, b)
    <3>1. {b} \X Connections \in SUBSET (Buckets \X Offsets)
      OBVIOUS
    <3>2. WS!Drop({b} \X Connections)
      BY <2>1 DEF CleanConnections, WS!Drop
    <3>3. QED
      BY <3>1, <3>2
  <2>2. CASE CleanFuture(w, b)
    BY <1>a, <2>2 DEF CleanFuture, WS!Drop
  <2>3. QED
    BY <1>4, <2>1, <2>2
       DEF RunBucket, ClaimBucket, DequeueNone, Dispatch, InputStreamRace, GoAgain, GiveUp, Dequeue,
           TaskDone, CleanFd, CleanCount
<1>5. ASSUME NEW w \in Workers, NEW b \in Buckets, PollTask(w, b)
      PROVE  [WS!Next]_WS!vars
  <2>1. ASSUME NEW socket \in SUBSET {<<b, INPUT_STREAM>>}, NEW responses \in SUBSET Connections,
               MainPending(w, b, socket, responses)
        PROVE  [WS!Next]_WS!vars
    <3>1. socket = {} \/ socket = {<<b, INPUT_STREAM>>}
      OBVIOUS
    <3>2. QED
      BY <2>1, <3>1 DEF MainPending, WS!Leave
  <2>2. CASE MainReady(w, b)
    BY <1>a, <2>2 DEF MainReady, WS!Drop
  <2>3. CASE ConnPending(w, b)
    BY <1>0, <2>3 DEF ConnPending, WS!Leave
  <2>4. CASE ConnReady(w, b)
    BY <1>0, <1>a, <2>4 DEF ConnReady, WS!Drop
  <2>5. QED
    BY <1>5, <2>1, <2>2, <2>3, <2>4
       DEF PollTask, HandshakeNoSlot, Handshaken, Handshake, WakeConnection, MainFails, Respond,
           ConnFails, ConnPanics
<1>6. QED
  BY <1>1, <1>2, <1>3, <1>4, <1>5 DEF Next

\* In the ordinary case, the executor uses the reactor as the reactor's
\* specification allows: every behaviour of it is one of WakerStore.
THEOREM ExecutorUsesReactor == Ordinary => (Spec => WS!Spec)
<1> SUFFICES ASSUME Ordinary PROVE Spec => WS!Spec
  OBVIOUS
<1>1. Init => WS!Init
  BY DEF Init, WS!Init
<1>2. WorkerInv /\ TaskInv /\ [Next]_vars => [WS!Next]_WS!vars
  BY ReactorStep
<1>3. QED
  BY <1>1, <1>2, TaskInvAlways, PTL DEF Spec, WS!Spec
=============================================================================
