--------------------------- MODULE ReactorProofs ----------------------------
(***************************************************************************)
(* Proofs about Reactor, for any number of streams, futures and http       *)
(* connections.                                                            *)
(*                                                                         *)
(* A step of a task, of the kernel or of the reactor concerns one index,   *)
(* except for poll.poll.  So the inductive invariant is taken apart into a *)
(* part per index, and every action is shown to preserve the part of its   *)
(* own index; Elsewhere covers the others.                                 *)
(***************************************************************************)
EXTENDS Reactor, TLAPS

\* What ReactorInv says of one index.
Local(i) ==
  /\ pc[i] # "none" => present[i]
  /\ pc[i] = "none" /\ present[i] => onStack[i]
  /\ interest[i] \cap triggered[i] = {}
  /\ \A d \in ready[i] : d \in triggered[i] \/ Coming(i, d)
  /\ Critical(i) /\ Unregistered(i) /\ Remembered(i)
  /\ i \notin Concurrent => OneWakeUp(i)

\* The invariant is its parts.
LEMMA Parts == ReactorInv <=> TypeOK /\ \A i \in Indices : Local(i)
  BY ReactorAssumption
  DEF ReactorInv, Local, SourceInPlace, NoWakerWhileTriggered, ReadinessNotLost

\* ... in the next state, too.
LEMMA PartsNext == ReactorInv' <=> TypeOK' /\ \A i \in Indices : Local(i)'
  BY ReactorAssumption
  DEF ReactorInv, Local, SourceInPlace, NoWakerWhileTriggered, ReadinessNotLost

\* Nothing about an index changes.
Same(j) ==
  /\ present'[j] = present[j] /\ interest'[j] = interest[j]
  /\ triggered'[j] = triggered[j] /\ locked'[j] = locked[j]
  /\ pc'[j] = pc[j] /\ dir'[j] = dir[j] /\ awaiting'[j] = awaiting[j]
  /\ woken'[j] = woken[j] /\ onStack'[j] = onStack[j] /\ ready'[j] = ready[j] /\ edge'[j] = edge[j]
  /\ \A d \in Direction : <<j, d>> \in wakers' <=> <<j, d>> \in wakers
  /\ \A e : e[1] = j => (e \in batch' <=> e \in batch)

\* An index that a step does not concern keeps its part of the invariant.
LEMMA Elsewhere ==
  ASSUME TypeOK, NEW j \in Indices, Local(j), Same(j)
  PROVE  Local(j)'
<1>1. \A d \in Direction : Coming(j, d)' <=> Coming(j, d)
  BY DEF Same, Coming
<1>2. ready[j] \subseteq Direction /\ dir[j] \in Direction /\ awaiting[j] \subseteq Direction
  BY DEF TypeOK
<1>3. Critical(j)'
  BY <1>1, <1>2 DEF Local, Same, Critical
<1>4. Unregistered(j)'
  BY DEF Local, Same, Unregistered
<1>5. Remembered(j)'
  BY <1>2 DEF Local, Same, Remembered
<1>6. j \notin Concurrent => OneWakeUp(j)'
  BY <1>2 DEF Local, Same, OneWakeUp
<1>7. QED
  BY <1>1, <1>2, <1>3, <1>4, <1>5, <1>6 DEF Local, Same

----------------------------------------------------------------------------
(* The actions. *)

\* Initially nothing is registered and nobody waits.
LEMMA InitOK == Init => ReactorInv
<1> SUFFICES ASSUME Init PROVE TypeOK /\ \A i \in Indices : Local(i)
  BY Parts
<1>1. TypeOK
  BY DEF Init, TypeOK, Direction
<1>2. ASSUME NEW i \in Indices PROVE Local(i)
  BY <1>2 DEF Init, Local, Critical, Unregistered, Remembered, OneWakeUp
<1>3. QED
  BY <1>1, <1>2

\* Reactor::register, first part: the new source is empty.
LEMMA RegisterSourceOK ==
  ASSUME ReactorInv, NEW i \in Indices, RegisterSource(i)
  PROVE  ReactorInv'
<1>1. TypeOK /\ \A j \in Indices : Local(j)
  BY Parts
<1>2. TypeOK'
  BY <1>1 DEF RegisterSource, TypeOK, Goto, source, task, stream, reactor, kernel, Direction
<1>3. Local(i)'
  BY <1>1 DEF RegisterSource, TypeOK, Goto, source, task, stream, reactor, kernel,
     Local, Critical, Unregistered, Remembered, OneWakeUp, Coming
<1>4. ASSUME NEW j \in Indices, j # i PROVE Local(j)'
  <2>1. Same(j)
    BY <1>1, <1>4 DEF RegisterSource, TypeOK, Goto, source, task, stream, reactor, kernel, Same
  <2>2. QED
    BY <1>1, <2>1, Elsewhere
<1>5. QED
  BY <1>2, <1>3, <1>4, PartsNext

\* Reactor::register, second part: a ready socket has its event.
LEMMA RegisterSocketOK ==
  ASSUME ReactorInv, NEW i \in Indices, NEW dirs \in SUBSET Direction, RegisterSocket(i, dirs)
  PROVE  ReactorInv'
<1>1. TypeOK /\ \A j \in Indices : Local(j)
  BY Parts
<1>2. TypeOK'
  BY <1>1 DEF RegisterSocket, TypeOK, Goto, source, task, stream, reactor, kernel, Direction
<1>3. Local(i)'
  BY <1>1 DEF RegisterSocket, TypeOK, Goto, source, task, stream, reactor, kernel,
     Local, Critical, Unregistered, Remembered, OneWakeUp, Coming
<1>4. ASSUME NEW j \in Indices, j # i PROVE Local(j)'
  <2>1. Same(j)
    BY <1>1, <1>4 DEF RegisterSocket, TypeOK, Goto, source, task, stream, reactor, kernel, Same
  <2>2. QED
    BY <1>1, <2>1, Elsewhere
<1>5. QED
  BY <1>2, <1>3, <1>4, PartsNext

\* handshake() fills the slot of a connection, which has not waited yet.
LEMMA HandshakenOK ==
  ASSUME ReactorInv, NEW i \in Indices, Handshaken(i)
  PROVE  ReactorInv'
<1>1. TypeOK /\ \A j \in Indices : Local(j)
  BY Parts
<1>2. TypeOK'
  BY <1>1 DEF Handshaken, TypeOK, Goto, source, task, stream, reactor, kernel, Direction
<1>3. Local(i)'
  BY <1>1 DEF Handshaken, TypeOK, Goto, source, task, stream, reactor, kernel,
     Local, Critical, Unregistered, Remembered, OneWakeUp, Coming
<1>4. ASSUME NEW j \in Indices, j # i PROVE Local(j)'
  <2>1. Same(j)
    BY <1>1, <1>4 DEF Handshaken, TypeOK, Goto, source, task, stream, reactor, kernel, Same
  <2>2. QED
    BY <1>1, <2>1, Elsewhere
<1>5. QED
  BY <1>2, <1>3, <1>4, PartsNext

\* A stream that is lost leaves its source, but nobody who waits.
LEMMA LoseOK ==
  ASSUME ReactorInv, NEW i \in Indices, Lose(i)
  PROVE  ReactorInv'
<1>1. TypeOK /\ \A j \in Indices : Local(j)
  BY Parts
<1>2. TypeOK'
  BY <1>1 DEF Lose, TypeOK, Goto, source, task, stream, reactor, kernel, Direction
<1>3. Local(i)'
  BY <1>1 DEF Lose, TypeOK, Goto, source, task, stream, reactor, kernel,
     Local, Critical, Unregistered, Remembered, OneWakeUp, Coming
<1>4. ASSUME NEW j \in Indices, j # i PROVE Local(j)'
  <2>1. Same(j)
    BY <1>1, <1>4 DEF Lose, TypeOK, Goto, source, task, stream, reactor, kernel, Same
  <2>2. QED
    BY <1>1, <2>1, Elsewhere
<1>5. QED
  BY <1>2, <1>3, <1>4, PartsNext

\* One more wake-up does not hurt a task that may have several.
LEMMA WokenElsewhereOK ==
  ASSUME ReactorInv, NEW i \in Indices, WokenElsewhere(i)
  PROVE  ReactorInv'
<1>1. TypeOK /\ \A j \in Indices : Local(j)
  BY Parts
<1>2. TypeOK'
  BY <1>1 DEF WokenElsewhere, TypeOK, Goto, source, task, stream, reactor, kernel, Direction
<1>3. Local(i)'
  BY <1>1 DEF WokenElsewhere, TypeOK, Goto, source, task, stream, reactor, kernel,
     Local, Critical, Unregistered, Remembered, OneWakeUp, Coming
<1>4. ASSUME NEW j \in Indices, j # i PROVE Local(j)'
  <2>1. Same(j)
    BY <1>1, <1>4 DEF WokenElsewhere, TypeOK, Goto, source, task, stream, reactor, kernel, Same
  <2>2. QED
    BY <1>1, <2>1, Elsewhere
<1>5. QED
  BY <1>2, <1>3, <1>4, PartsNext

\* TcpStream::drop, first part: nobody waits for the stream any more.
LEMMA DeregisterOK ==
  ASSUME ReactorInv, NEW i \in Indices, Deregister(i)
  PROVE  ReactorInv'
<1>1. TypeOK /\ \A j \in Indices : Local(j)
  BY Parts
<1>2. TypeOK'
  BY <1>1 DEF Deregister, TypeOK, Goto, source, task, stream, reactor, kernel, Direction
<1>3. Local(i)'
  BY <1>1 DEF Deregister, TypeOK, Goto, source, task, stream, reactor, kernel,
     Local, Critical, Unregistered, Remembered, OneWakeUp, Coming
<1>4. ASSUME NEW j \in Indices, j # i PROVE Local(j)'
  <2>1. Same(j)
    BY <1>1, <1>4 DEF Deregister, TypeOK, Goto, source, task, stream, reactor, kernel, Same
  <2>2. QED
    BY <1>1, <2>1, Elsewhere
<1>5. QED
  BY <1>2, <1>3, <1>4, PartsNext

\* TcpStream::drop, second part: a socket outside epoll is not ready.
LEMMA TakeSourceOK ==
  ASSUME ReactorInv, NEW i \in Indices, TakeSource(i)
  PROVE  ReactorInv'
<1>1. TypeOK /\ \A j \in Indices : Local(j)
  BY Parts
<1>2. TypeOK'
  BY <1>1 DEF TakeSource, TypeOK, Goto, source, task, stream, reactor, kernel, SourceAfterDrop,
     Direction
<1>3. Local(i)'
  BY <1>1 DEF TakeSource, TypeOK, Goto, source, task, stream, reactor, kernel, SourceAfterDrop,
     Local, Critical, Unregistered, Remembered, OneWakeUp, Coming
<1>4. ASSUME NEW j \in Indices, j # i PROVE Local(j)'
  <2>1. Same(j)
    BY <1>1, <1>4 DEF TakeSource, TypeOK, Goto, source, task, stream, reactor, kernel,
       SourceAfterDrop, Same
  <2>2. QED
    BY <1>1, <2>1, Elsewhere
<1>5. QED
  BY <1>2, <1>3, <1>4, PartsNext

\* A wake-up is used up: for a future, the only one there was.
LEMMA ResumeOK ==
  ASSUME ReactorInv, NEW i \in Indices, Resume(i)
  PROVE  ReactorInv'
<1>1. TypeOK /\ \A j \in Indices : Local(j)
  BY Parts
<1>2. TypeOK'
  BY <1>1 DEF Resume, TypeOK, Goto, source, task, stream, reactor, kernel, Direction
<1>3. Local(i)'
  BY <1>1 DEF Resume, TypeOK, Goto, source, task, stream, reactor, kernel,
     Local, Critical, Unregistered, Remembered, OneWakeUp, Coming
<1>4. ASSUME NEW j \in Indices, j # i PROVE Local(j)'
  <2>1. Same(j)
    BY <1>1, <1>4 DEF Resume, TypeOK, Goto, source, task, stream, reactor, kernel, Same
  <2>2. QED
    BY <1>1, <2>1, Elsewhere
<1>5. QED
  BY <1>2, <1>3, <1>4, PartsNext

\* A late wake-up is used up.
LEMMA AfterDeathOK ==
  ASSUME ReactorInv, NEW i \in Indices, AfterDeath(i)
  PROVE  ReactorInv'
<1>1. TypeOK /\ \A j \in Indices : Local(j)
  BY Parts
<1>2. TypeOK'
  BY <1>1 DEF AfterDeath, TypeOK, Goto, source, task, stream, reactor, kernel, Direction
<1>3. Local(i)'
  BY <1>1 DEF AfterDeath, TypeOK, Goto, source, task, stream, reactor, kernel,
     Local, Critical, Unregistered, Remembered, OneWakeUp, Coming
<1>4. ASSUME NEW j \in Indices, j # i PROVE Local(j)'
  <2>1. Same(j)
    BY <1>1, <1>4 DEF AfterDeath, TypeOK, Goto, source, task, stream, reactor, kernel, Same
  <2>2. QED
    BY <1>1, <2>1, Elsewhere
<1>5. QED
  BY <1>2, <1>3, <1>4, PartsNext

\* A task parks with the wakers it has left.
LEMMA ParkOK ==
  ASSUME ReactorInv, NEW i \in Indices, Park(i)
  PROVE  ReactorInv'
<1>1. TypeOK /\ \A j \in Indices : Local(j)
  BY Parts
<1>2. TypeOK'
  BY <1>1 DEF Park, TypeOK, Goto, source, task, stream, reactor, kernel, Direction
<1>3. Local(i)'
  BY <1>1 DEF Park, TypeOK, Goto, source, task, stream, reactor, kernel,
     Local, Critical, Unregistered, Remembered, OneWakeUp, Coming
<1>4. ASSUME NEW j \in Indices, j # i PROVE Local(j)'
  <2>1. Same(j)
    BY <1>1, <1>4 DEF Park, TypeOK, Goto, source, task, stream, reactor, kernel, Same
  <2>2. QED
    BY <1>1, <2>1, Elsewhere
<1>5. QED
  BY <1>2, <1>3, <1>4, PartsNext

\* A future polls another direction only when it waits for nothing.
LEMMA PollIoOK ==
  ASSUME ReactorInv, NEW i \in Indices, NEW d \in Direction, PollIo(i, d)
  PROVE  ReactorInv'
<1>1. TypeOK /\ \A j \in Indices : Local(j)
  BY Parts
<1>2. TypeOK'
  BY <1>1 DEF PollIo, TypeOK, Goto, source, task, stream, reactor, kernel, Direction
<1>3. Local(i)'
  <2>1. /\ pc[i] = "run" /\ pc'[i] = "lock" /\ dir'[i] = d
        /\ UNCHANGED <<present, interest, triggered, locked, awaiting, woken, onStack, batch,
                      wakers, ready, edge>>
    BY <1>1 DEF PollIo, TypeOK, Goto, source, stream, reactor, kernel
  <2>2. Critical(i)' /\ Unregistered(i)' /\ Remembered(i)'
    BY <1>1, <2>1 DEF Local, Critical, Unregistered, Remembered
  <2>3. ASSUME i \notin Concurrent PROVE OneWakeUp(i)'
    <3>1. OneWakeUp(i) /\ awaiting[i] = {}
      BY <1>1, <2>3 DEF Local, PollIo
    <3>2. interest[i] = {} /\ ~woken[i] /\ \A e \in Direction : <<i, e>> \notin wakers
      BY <2>1, <3>1 DEF OneWakeUp
    <3>3. QED
      BY <2>1, <3>1, <3>2 DEF OneWakeUp
  <2>4. QED
    BY <1>1, <2>1, <2>2, <2>3 DEF Local, Coming
<1>4. ASSUME NEW j \in Indices, j # i PROVE Local(j)'
  <2>1. Same(j)
    BY <1>1, <1>4 DEF PollIo, TypeOK, Goto, source, task, stream, reactor, kernel, Same
  <2>2. QED
    BY <1>1, <2>1, Elsewhere
<1>5. QED
  BY <1>2, <1>3, <1>4, PartsNext

\* poll_io finds the source and locks it.
LEMMA LockSourceOK ==
  ASSUME ReactorInv, NEW i \in Indices, LockSource(i)
  PROVE  ReactorInv'
<1>1. TypeOK /\ \A j \in Indices : Local(j)
  BY Parts
<1>2. TypeOK'
  BY <1>1 DEF LockSource, TypeOK, Goto, source, task, stream, reactor, kernel, Direction
<1>3. Local(i)'
  BY <1>1 DEF LockSource, TypeOK, Goto, source, task, stream, reactor, kernel,
     Local, Critical, Unregistered, Remembered, OneWakeUp, Coming
<1>4. ASSUME NEW j \in Indices, j # i PROVE Local(j)'
  <2>1. Same(j)
    BY <1>1, <1>4 DEF LockSource, TypeOK, Goto, source, task, stream, reactor, kernel, Same
  <2>2. QED
    BY <1>1, <2>1, Elsewhere
<1>5. QED
  BY <1>2, <1>3, <1>4, PartsNext

\* Under the mutex the flag stays as poll_ready sees it.
LEMMA CheckOK ==
  ASSUME ReactorInv, NEW i \in Indices, Check(i)
  PROVE  ReactorInv'
<1>1. TypeOK /\ \A j \in Indices : Local(j)
  BY Parts
<1>2. TypeOK'
  BY <1>1 DEF Check, TypeOK, Goto, source, task, stream, reactor, kernel, NotTriggered, Direction
<1>3. Local(i)'
  BY <1>1 DEF Check, TypeOK, Goto, source, task, stream, reactor, kernel, NotTriggered,
     Local, Critical, Unregistered, Remembered, OneWakeUp, Coming
<1>4. ASSUME NEW j \in Indices, j # i PROVE Local(j)'
  <2>1. Same(j)
    BY <1>1, <1>4 DEF Check, TypeOK, Goto, source, task, stream, reactor, kernel, NotTriggered, Same
  <2>2. QED
    BY <1>1, <2>1, Elsewhere
<1>5. QED
  BY <1>2, <1>3, <1>4, PartsNext

\* A waker is stored where the flag is not set.
LEMMA StoreWakerOK ==
  ASSUME ReactorInv, NEW i \in Indices, StoreWaker(i)
  PROVE  ReactorInv'
<1>1. TypeOK /\ \A j \in Indices : Local(j)
  BY Parts
<1>2. TypeOK'
  BY <1>1 DEF StoreWaker, TypeOK, Goto, source, task, stream, reactor, kernel, Direction
<1>3. Local(i)'
  BY <1>1 DEF StoreWaker, TypeOK, Goto, source, task, stream, reactor, kernel,
     Local, Critical, Unregistered, Remembered, OneWakeUp, Coming
<1>4. ASSUME NEW j \in Indices, j # i PROVE Local(j)'
  <2>1. Same(j)
    BY <1>1, <1>4 DEF StoreWaker, TypeOK, Goto, source, task, stream, reactor, kernel, Same
  <2>2. QED
    BY <1>1, <2>1, Elsewhere
<1>5. QED
  BY <1>2, <1>3, <1>4, PartsNext

\* The second look finds what the first one did: the task waits.
LEMMA RecheckOK ==
  ASSUME ReactorInv, NEW i \in Indices, Recheck(i)
  PROVE  ReactorInv'
<1>1. TypeOK /\ \A j \in Indices : Local(j)
  BY Parts
<1>2. /\ pc[i] = "recheck" /\ dir[i] \notin triggered[i] /\ dir[i] \in interest[i]
      /\ locked' = [locked EXCEPT ![i] = FALSE]
      /\ awaiting' = [awaiting EXCEPT ![i] = @ \cup {dir[i]}]
      /\ pc' = [pc EXCEPT ![i] = "run"]
      /\ UNCHANGED <<present, interest, triggered, dir, woken, onStack, lost, batch, wakers,
                     ready, edge>>
  BY <1>1 DEF Recheck, Goto, source, stream, reactor, kernel, Local, Critical
<1>3. TypeOK' /\ Local(i)'
  <2>1. TypeOK'
    BY <1>1, <1>2 DEF TypeOK
  <2>2. /\ pc'[i] = "run" /\ ~locked'[i]
        /\ awaiting'[i] = awaiting[i] \cup {dir[i]}
    BY <1>1, <1>2 DEF TypeOK
  <2>3. Critical(i)' /\ Unregistered(i)' /\ Remembered(i)'
    BY <1>1, <1>2, <2>2 DEF Local, Critical, Unregistered, Remembered
  <2>4. i \notin Concurrent => OneWakeUp(i)'
    BY <1>1, <1>2, <2>2 DEF Local, OneWakeUp
  <2>5. QED
    BY <1>1, <1>2, <2>1, <2>2, <2>3, <2>4 DEF Local, Coming
<1>4. ASSUME NEW j \in Indices, j # i PROVE Local(j)'
  <2>1. Same(j)
    BY <1>1, <1>4 DEF Recheck, TypeOK, Goto, source, task, stream, reactor, kernel, Same
  <2>2. QED
    BY <1>1, <2>1, Elsewhere
<1>5. QED
  BY <1>3, <1>4, PartsNext

\* The system call uses up readiness, and returns the mutex.
LEMMA IoReturnsOK ==
  ASSUME ReactorInv, NEW i \in Indices, IoReturns(i)
  PROVE  ReactorInv'
<1>1. TypeOK /\ \A j \in Indices : Local(j)
  BY Parts
<1>2. TypeOK'
  BY <1>1 DEF IoReturns, TypeOK, Goto, source, task, stream, reactor, kernel, Direction
<1>3. Local(i)'
  BY <1>1 DEF IoReturns, TypeOK, Goto, source, task, stream, reactor, kernel,
     Local, Critical, Unregistered, Remembered, OneWakeUp, Coming
<1>4. ASSUME NEW j \in Indices, j # i PROVE Local(j)'
  <2>1. Same(j)
    BY <1>1, <1>4 DEF IoReturns, TypeOK, Goto, source, task, stream, reactor, kernel, Same
  <2>2. QED
    BY <1>1, <2>1, Elsewhere
<1>5. QED
  BY <1>2, <1>3, <1>4, PartsNext

\* WouldBlock: the socket is not ready.
LEMMA IoWouldBlockOK ==
  ASSUME ReactorInv, NEW i \in Indices, IoWouldBlock(i)
  PROVE  ReactorInv'
<1>1. TypeOK /\ \A j \in Indices : Local(j)
  BY Parts
<1>2. TypeOK'
  BY <1>1 DEF IoWouldBlock, TypeOK, Goto, source, task, stream, reactor, kernel, Direction
<1>3. Local(i)'
  BY <1>1 DEF IoWouldBlock, TypeOK, Goto, source, task, stream, reactor, kernel,
     Local, Critical, Unregistered, Remembered, OneWakeUp, Coming
<1>4. ASSUME NEW j \in Indices, j # i PROVE Local(j)'
  <2>1. Same(j)
    BY <1>1, <1>4 DEF IoWouldBlock, TypeOK, Goto, source, task, stream, reactor, kernel, Same
  <2>2. QED
    BY <1>1, <2>1, Elsewhere
<1>5. QED
  BY <1>2, <1>3, <1>4, PartsNext

\* clear_trigger: a socket that is ready again has an event under way.
LEMMA ClearTriggerOK ==
  ASSUME ReactorInv, NEW i \in Indices, ClearTrigger(i)
  PROVE  ReactorInv'
<1>1. TypeOK /\ \A j \in Indices : Local(j)
  BY Parts
<1>2. TypeOK'
  BY <1>1 DEF ClearTrigger, TypeOK, Goto, source, task, stream, reactor, kernel, Cleared, Direction
<1>3. Local(i)'
  BY <1>1 DEF ClearTrigger, TypeOK, Goto, source, task, stream, reactor, kernel, Cleared,
     Local, Critical, Unregistered, Remembered, OneWakeUp, Coming
<1>4. ASSUME NEW j \in Indices, j # i PROVE Local(j)'
  <2>1. Same(j)
    BY <1>1, <1>4 DEF ClearTrigger, TypeOK, Goto, source, task, stream, reactor, kernel, Cleared, Same
  <2>2. QED
    BY <1>1, <2>1, Elsewhere
<1>5. QED
  BY <1>2, <1>3, <1>4, PartsNext

\* Readiness comes with an event.
LEMMA BecomesReadyOK ==
  ASSUME ReactorInv, NEW i \in Indices, NEW d \in Direction, BecomesReady(i, d)
  PROVE  ReactorInv'
<1>1. TypeOK /\ \A j \in Indices : Local(j)
  BY Parts
<1>2. TypeOK'
  BY <1>1 DEF BecomesReady, TypeOK, Goto, source, task, stream, reactor, kernel, Direction
<1>3. Local(i)'
  BY <1>1 DEF BecomesReady, TypeOK, Goto, source, task, stream, reactor, kernel,
     Local, Critical, Unregistered, Remembered, OneWakeUp, Coming
<1>4. ASSUME NEW j \in Indices, j # i PROVE Local(j)'
  <2>1. Same(j)
    BY <1>1, <1>4 DEF BecomesReady, TypeOK, Goto, source, task, stream, reactor, kernel, Same
  <2>2. QED
    BY <1>1, <2>1, Elsewhere
<1>5. QED
  BY <1>2, <1>3, <1>4, PartsNext

----------------------------------------------------------------------------
(* The reactor's thread. *)

\* poll.poll: what was an event of the kernel is one of the batch.
LEMMA PollOK ==
  ASSUME ReactorInv, Poll
  PROVE  ReactorInv'
<1>1. TypeOK /\ \A j \in Indices : Local(j)
  BY Parts
<1>2. /\ UNCHANGED <<present, interest, triggered, locked, pc, dir, awaiting, woken, onStack,
                     lost, wakers, ready>>
      /\ batch = {}
      /\ \A j \in Indices : edge'[j] = FALSE
  BY DEF Poll, source, task, stream
<1>3. TypeOK'
  BY <1>1, <1>2 DEF Poll, TypeOK, Direction
<1>4. ASSUME NEW j \in Indices PROVE Local(j)'
  <2>1. \A d \in ready[j] : Coming(j, d) => Coming(j, d)'
    <3>1. ASSUME NEW d \in ready[j], Coming(j, d) PROVE <<j, ready[j]>> \in batch'
      BY <1>2, <3>1 DEF Coming, Poll
    <3>2. QED
      BY <3>1 DEF Coming
  <2>2. Critical(j)' /\ Unregistered(j)' /\ Remembered(j)'
    BY <1>1, <1>2, <2>1 DEF Local, Critical, Unregistered, Remembered
  <2>3. j \notin Concurrent => OneWakeUp(j)'
    BY <1>1, <1>2 DEF Local, OneWakeUp
  <2>4. QED
    BY <1>1, <1>2, <2>1, <2>2, <2>3 DEF Local
<1>5. QED
  BY <1>3, <1>4, PartsNext

\* An event sets the flag and takes the waker: nobody holds the mutex, so no
\* task is between its looks at the flag.  This does not depend on whether
\* the event is one of the batch or that of a stream that was lost.
LEMMA DeliverOK ==
  ASSUME ReactorInv, NEW i \in Indices, NEW dirs \in SUBSET Direction, Deliver(i, dirs),
         batch' = batch \/ batch' = batch \ {<<i, dirs>>}
  PROVE  ReactorInv'
<1>1. TypeOK /\ \A j \in Indices : Local(j)
  BY Parts
<1>2. i \in Indices /\ dirs \in SUBSET Direction
  OBVIOUS
<1>3. /\ ~locked[i]
      /\ UNCHANGED <<present, locked, pc, dir, awaiting, woken, onStack, lost, ready, edge>>
      /\ \/ ~present[i] /\ UNCHANGED <<wakers, interest, triggered>>
         \/ /\ present[i]
            /\ wakers' = wakers \cup ({i} \X (interest[i] \cap dirs))
            /\ interest' = [interest EXCEPT ![i] = @ \ (interest[i] \cap dirs)]
            /\ triggered' = [triggered EXCEPT ![i] = @ \cup dirs]
  BY DEF Deliver, SourceFree, Woken, StillWaiting, task, stream, kernel
<1>4. TypeOK'
  BY <1>1, <1>2, <1>3 DEF TypeOK
<1>5. Local(i)'
  <2>1. pc[i] \notin {"check", "store", "recheck", "io", "clear"}
    BY <1>1, <1>2, <1>3 DEF Local, Critical
  <2>2. Critical(i)'
    BY <1>3, <2>1 DEF Critical
  <2>3. CASE ~present[i]
    <3>1. pc[i] = "none" /\ ready[i] = {} /\ awaiting[i] = {} /\ ~edge[i]
      BY <1>1, <1>2, <2>3 DEF Local, Unregistered
    <3>2. UNCHANGED <<wakers, interest, triggered>>
      BY <1>3, <2>3
    <3>3. Unregistered(i)' /\ Remembered(i)'
      BY <1>3, <3>1 DEF Unregistered, Remembered
    <3>4. i \notin Concurrent => OneWakeUp(i)'
      BY <1>1, <1>2, <1>3, <3>2 DEF Local, OneWakeUp
    <3>5. QED
      BY <1>1, <1>2, <1>3, <2>2, <3>1, <3>2, <3>3, <3>4 DEF Local
  <2>4. CASE present[i]
    <3>1. /\ interest'[i] = interest[i] \ dirs
          /\ triggered'[i] = triggered[i] \cup dirs
          /\ \A d \in Direction :
               <<i, d>> \in wakers' <=> <<i, d>> \in wakers \/ d \in interest[i] \cap dirs
      BY <1>1, <1>2, <1>3, <2>4 DEF TypeOK
    <3>2. interest'[i] \cap triggered'[i] = {}
      BY <1>1, <1>2, <3>1 DEF Local
    <3>3. ASSUME NEW d \in ready'[i] PROVE d \in triggered'[i] \/ Coming(i, d)'
      <4>1. d \in triggered[i] \/ edge[i] \/ \E f \in batch : f[1] = i /\ d \in f[2]
        BY <1>1, <1>2, <1>3, <3>3 DEF Local, Coming
      <4>2. ASSUME NEW f \in batch, f[1] = i, d \in f[2]
            PROVE  d \in triggered'[i] \/ Coming(i, d)'
        <5>1. CASE f = <<i, dirs>>
          BY <3>1, <4>2, <5>1
        <5>2. CASE f # <<i, dirs>>
          BY <1>3, <4>2, <5>2 DEF Coming
        <5>3. QED
          BY <5>1, <5>2
      <4>3. QED
        BY <1>3, <3>1, <4>1, <4>2 DEF Coming
    <3>4. Unregistered(i)'
      BY <1>1, <1>2, <1>3 DEF Local, Unregistered
    <3>5. Remembered(i)'
      BY <1>1, <1>2, <1>3, <3>1 DEF Local, Remembered, TypeOK
    <3>6. i \notin Concurrent => OneWakeUp(i)'
      <4>1. dir[i] \in Direction
        BY <1>1, <1>2 DEF TypeOK
      <4>2. QED
        BY <1>1, <1>2, <1>3, <2>1, <3>1, <4>1 DEF Local, OneWakeUp
    <3>7. (pc'[i] # "none" => present'[i]) /\ (pc'[i] = "none" /\ present'[i] => onStack'[i])
      BY <1>1, <1>2, <1>3 DEF Local
    <3>8. QED
      BY <2>2, <3>2, <3>3, <3>4, <3>5, <3>6, <3>7 DEF Local
  <2>5. QED
    BY <2>3, <2>4
<1>6. ASSUME NEW j \in Indices, j # i PROVE Local(j)'
  <2>1. Same(j)
    BY <1>1, <1>2, <1>3, <1>6 DEF TypeOK, Same
  <2>2. QED
    BY <1>1, <2>1, Elsewhere
<1>7. QED
  BY <1>4, <1>5, <1>6, PartsNext

\* An event of the batch.
LEMMA HandleEventOK ==
  ASSUME ReactorInv, NEW e \in batch, HandleEvent(e[1], e[2])
  PROVE  ReactorInv'
<1>1. e[1] \in Indices /\ e[2] \in SUBSET Direction
  BY Parts DEF TypeOK
<1>2. QED
  BY <1>1, DeliverOK DEF HandleEvent

\* An event of a stream that was lost.
LEMMA StaleEventOK ==
  ASSUME ReactorInv, NEW i \in Indices, NEW dirs \in SUBSET Direction, StaleEvent(i, dirs)
  PROVE  ReactorInv'
  BY DeliverOK DEF StaleEvent

\* waker.wake(): a wake-up of a future takes the place of its waker.
LEMMA CallWakerOK ==
  ASSUME ReactorInv, NEW w \in wakers, CallWaker(w[1], w[2])
  PROVE  ReactorInv'
<1> DEFINE i == w[1]
           d == w[2]
<1>1. TypeOK /\ \A j \in Indices : Local(j)
  BY Parts
<1>2. i \in Indices /\ d \in Direction /\ w = <<i, d>> /\ <<i, d>> \in wakers
  BY <1>1 DEF TypeOK
<1>3. /\ wakers' = wakers \ {<<i, d>>}
      /\ woken' = [woken EXCEPT ![i] = TRUE]
      /\ UNCHANGED <<present, interest, triggered, locked, pc, dir, awaiting, onStack, lost, batch,
                     ready, edge>>
  BY DEF CallWaker, source, task, stream, kernel
<1> HIDE DEF i, d
<1>4. TypeOK'
  BY <1>1, <1>2, <1>3 DEF TypeOK
<1>5. Local(i)'
  <2>1. woken'[i] = TRUE
    BY <1>1, <1>2, <1>3 DEF TypeOK
  <2>2. Critical(i)' /\ Unregistered(i)' /\ Remembered(i)'
    BY <1>1, <1>2, <1>3, <2>1 DEF Local, Critical, Unregistered, Remembered, Coming
  <2>3. ASSUME i \notin Concurrent PROVE OneWakeUp(i)'
    <3>1. OneWakeUp(i) /\ d = dir[i]
      BY <1>1, <1>2, <2>3 DEF Local, OneWakeUp
    <3>2. awaiting[i] # {} /\ dir[i] \notin interest[i]
      BY <1>2, <3>1 DEF OneWakeUp
    <3>3. QED
      BY <1>2, <1>3, <2>1, <3>1, <3>2 DEF OneWakeUp
  <2>4. QED
    BY <1>1, <1>2, <1>3, <2>2, <2>3 DEF Local, Coming
<1>6. ASSUME NEW j \in Indices, j # i PROVE Local(j)'
  <2>1. Same(j)
    BY <1>1, <1>2, <1>3, <1>6 DEF TypeOK, Same
  <2>2. QED
    BY <1>1, <2>1, Elsewhere
<1>7. QED
  BY <1>4, <1>5, <1>6, PartsNext

\* A step that changes nothing.
LEMMA StutterOK ==
  ASSUME ReactorInv, UNCHANGED vars
  PROVE  ReactorInv'
<1>1. TypeOK /\ \A j \in Indices : Local(j)
  BY Parts
<1>2. UNCHANGED <<present, interest, triggered, locked, pc, dir, awaiting, woken, onStack,
                  lost, batch, wakers, ready, edge>>
  BY DEF vars, source, task, stream, reactor, kernel
<1>3. TypeOK'
  BY <1>1, <1>2 DEF TypeOK
<1>4. ASSUME NEW j \in Indices PROVE Local(j)'
  BY <1>1, <1>2, Elsewhere DEF Same
<1>5. QED
  BY <1>3, <1>4, PartsNext

----------------------------------------------------------------------------
(* The theorems. *)

\* Everything the properties below rest on: sources, flags, wakers and
\* events fit together, for every interleaving of tasks and reactor.
THEOREM ReactorInvariant == Spec => []ReactorInv
<1>1. Init => ReactorInv
  BY InitOK
<1>2. ASSUME ReactorInv, [Next]_vars PROVE ReactorInv'
  <2>1. CASE Poll
    BY <1>2, <2>1, PollOK
  <2>2. ASSUME NEW e \in batch, HandleEvent(e[1], e[2]) PROVE ReactorInv'
    BY <1>2, <2>2, HandleEventOK
  <2>3. ASSUME NEW w \in wakers, CallWaker(w[1], w[2]) PROVE ReactorInv'
    BY <1>2, <2>3, CallWakerOK
  <2>4. ASSUME NEW i \in Indices, Step(i) PROVE ReactorInv'
    BY <1>2, <2>4, ResumeOK, ParkOK, LockSourceOK, CheckOK, StoreWakerOK, RecheckOK,
       IoReturnsOK, IoWouldBlockOK, ClearTriggerOK, TakeSourceOK, AfterDeathOK DEF Step
  <2>5. ASSUME NEW i \in Indices,
               RegisterSource(i) \/ Handshaken(i) \/ Deregister(i) \/ Lose(i) \/ WokenElsewhere(i)
        PROVE  ReactorInv'
    BY <1>2, <2>5, RegisterSourceOK, HandshakenOK, DeregisterOK, LoseOK, WokenElsewhereOK
  <2>6. ASSUME NEW i \in Indices, NEW dirs \in SUBSET Direction,
               RegisterSocket(i, dirs) \/ StaleEvent(i, dirs)
        PROVE  ReactorInv'
    BY <1>2, <2>6, RegisterSocketOK, StaleEventOK
  <2>7. ASSUME NEW i \in Indices, NEW d \in Direction, PollIo(i, d) \/ BecomesReady(i, d)
        PROVE  ReactorInv'
    BY <1>2, <2>7, PollIoOK, BecomesReadyOK
  <2>8. CASE UNCHANGED vars
    BY <1>2, <2>8, StutterOK
  <2>9. QED
    BY <1>2, <2>1, <2>2, <2>3, <2>4, <2>5, <2>6, <2>7, <2>8 DEF Next, ReactorThread
<1>3. QED
  BY <1>1, <1>2, PTL DEF Spec

\* Readiness that epoll reports once is never lost between the event,
\* WouldBlock and clear_trigger.
THEOREM ReadinessKept == Spec => []ReadinessNotLost
<1>1. ReactorInv => ReadinessNotLost
  BY DEF ReactorInv
<1>2. QED
  BY <1>1, ReactorInvariant, PTL

\* A task that waits for a socket that is ready has a wake-up under way:
\* poll_ready never lets it park between an event and its waker.
THEOREM WakeUpComes == Spec => []WillBeWoken
<1>1. ReactorInv => WillBeWoken
  <2> SUFFICES ASSUME ReactorInv, NEW i \in Indices, NEW d \in awaiting[i] \cap ready[i]
               PROVE  woken[i] \/ <<i, d>> \in wakers \/ Coming(i, d)
    BY DEF WillBeWoken
  <2>1. d \in interest[i] \/ <<i, d>> \in wakers \/ woken[i]
    BY DEF ReactorInv, Remembered
  <2>2. d \in triggered[i] \/ Coming(i, d)
    BY DEF ReactorInv, ReadinessNotLost
  <2>3. interest[i] \cap triggered[i] = {}
    BY DEF ReactorInv, NoWakerWhileTriggered
  <2>4. QED
    BY <2>1, <2>2, <2>3
<1>2. QED
  BY <1>1, ReactorInvariant, PTL

\* A future that waits for one thing at a time is not woken after it has
\* completed, so run_bucket's panic is not reached through the reactor.
THEOREM NoLateWakeUp == Spec => []NeverWokenAfterDeath
<1>1. ReactorInv => NeverWokenAfterDeath
  <2> SUFFICES ASSUME ReactorInv, NEW i \in Indices \ Concurrent, pc[i] = "none"
               PROVE  ~woken[i] /\ \A d \in Direction : <<i, d>> \notin wakers
    BY DEF NeverWokenAfterDeath
  <2>1. OneWakeUp(i) /\ awaiting[i] = {}
    BY DEF ReactorInv, Unregistered
  <2>2. QED
    BY <2>1 DEF OneWakeUp
<1>2. QED
  BY <1>1, ReactorInvariant, PTL

\* poll_io always finds its source: it never returns Pending without having
\* left a waker.
THEOREM SourceAlwaysInPlace == Spec => []SourceInPlace
<1>1. ReactorInv => SourceInPlace
  BY DEF ReactorInv
<1>2. QED
  BY <1>1, ReactorInvariant, PTL

\* poll_ready never leaves a waker next to a flag that is set, where the next
\* event would find nobody to wake.
THEOREM NoWakerLeftBehind == Spec => []NoWakerWhileTriggered
<1>1. ReactorInv => NoWakerWhileTriggered
  BY DEF ReactorInv
<1>2. QED
  BY <1>1, ReactorInvariant, PTL

----------------------------------------------------------------------------
(* The reactor implements the abstract store of wakers. *)

\* The abstract state: tasks with a waker in their source, and tasks with a
\* waker that was taken.
Waiting == {i \in Indices : interest[i] # {}}
Taken == {i \in Indices : \E d \in Direction : <<i, d>> \in wakers}

\* A step that touches no waker is none of the store.
LEMMA NoWakerTouched ==
  ASSUME UNCHANGED <<interest, wakers>>
  PROVE  UNCHANGED WS!vars
  BY DEF WS!vars

\* poll_ready leaves a waker.
LEMMA StoreLeaves ==
  ASSUME TypeOK, NEW i \in Indices, StoreWaker(i)
  PROVE  WS!Leave(i)
<1>1. wakers' = wakers /\ dir[i] \in Direction
  BY DEF StoreWaker, reactor, TypeOK
<1>2. interest' = [interest EXCEPT ![i] = @ \cup {dir[i]}]
  BY DEF StoreWaker
<1>3. Waiting' = Waiting \cup {i}
  BY <1>1, <1>2 DEF Waiting, TypeOK
<1>4. QED
  BY <1>1, <1>3 DEF WS!Leave, Waiting

\* register and drop leave the source without wakers.
LEMMA EmptyDrops ==
  ASSUME TypeOK, NEW i \in Indices, interest' = [interest EXCEPT ![i] = {}], wakers' = wakers
  PROVE  WS!Drop({i})
<1>1. Waiting' = Waiting \ {i}
  BY DEF Waiting, TypeOK
<1>2. QED
  BY <1>1 DEF WS!Drop, Waiting

\* An event takes a waker, if there is one in its direction.  A future that
\* waits for one thing at a time has no other.
LEMMA DeliverTakes ==
  ASSUME ReactorInv, NEW i \in Indices, NEW dirs \in SUBSET Direction, Deliver(i, dirs)
  PROVE  WS!Take(i) \/ UNCHANGED WS!vars
<1>1. TypeOK /\ (i \notin Concurrent => OneWakeUp(i))
  BY DEF ReactorInv
<1>2. CASE ~present[i]
  BY <1>2, NoWakerTouched DEF Deliver
<1>3. CASE present[i]
  <2>1. /\ wakers' = wakers \cup ({i} \X (interest[i] \cap dirs))
        /\ interest' = [interest EXCEPT ![i] = interest[i] \ dirs]
    BY <1>3 DEF Deliver, Woken, StillWaiting
  <2>2. interest[i] \subseteq Direction
    BY <1>1 DEF TypeOK
  <2>3. CASE interest[i] \cap dirs = {}
    <3>1. interest' = interest
      BY <1>1, <2>1, <2>3 DEF TypeOK
    <3>2. wakers' = wakers
      BY <2>1, <2>3
    <3>3. QED
      BY <3>1, <3>2, NoWakerTouched
  <2>4. CASE interest[i] \cap dirs # {}
    <3>1. i \in Waiting
      BY <2>4 DEF Waiting
    <3>2. Taken' = Taken \cup {i}
      BY <2>1, <2>2, <2>4 DEF Taken
    <3>3. Waiting' = IF interest[i] \ dirs = {} THEN Waiting \ {i} ELSE Waiting
      BY <1>1, <2>1, <2>4 DEF Waiting, TypeOK
    <3>4. i \notin Concurrent => interest[i] \ dirs = {}
      BY <1>1, <2>4 DEF OneWakeUp
    <3>5. QED
      BY <3>1, <3>2, <3>3, <3>4 DEF WS!Take, WS!Rest, Waiting, Taken
  <2>5. QED
    BY <2>3, <2>4
<1>4. QED
  BY <1>2, <1>3

\* A waker is called; that of a future was its only one.
LEMMA CallCalls ==
  ASSUME ReactorInv, NEW i \in Indices, NEW d \in Direction, <<i, d>> \in wakers, CallWaker(i, d)
  PROVE  WS!Call(i)
<1>1. TypeOK /\ (i \notin Concurrent => OneWakeUp(i))
  BY DEF ReactorInv
<1>2. interest' = interest /\ wakers' = wakers \ {<<i, d>>}
  BY DEF CallWaker, source
<1>3. i \in Taken
  BY DEF Taken
<1>4. \/ Taken' = Taken \ {i}
      \/ Taken' = Taken /\ \E e \in Direction : e # d /\ <<i, e>> \in wakers
  BY <1>2 DEF Taken
<1>5. i \notin Concurrent => \A e \in Direction : <<i, e>> \in wakers => e = d
  BY <1>1 DEF OneWakeUp
<1>6. QED
  BY <1>2, <1>3, <1>4, <1>5 DEF WS!Call, WS!Rest, Taken

\* The reactor promises the executor what WakerStore says: the model of the
\* executor, which is built on it, leaves out nothing the reactor may do.
THEOREM ReactorImplementsWakerStore == Spec => ImplementsWakerStore
<1>1. Init => WS!Init
  BY DEF Init, WS!Init
<1>2. ASSUME ReactorInv, [Next]_vars PROVE [WS!Next]_(WS!vars)
  <2>1. TypeOK
    BY <1>2 DEF ReactorInv
  <2>2. CASE Poll
    BY <2>2, NoWakerTouched DEF Poll, source
  <2>3. ASSUME NEW e \in batch, HandleEvent(e[1], e[2]) PROVE [WS!Next]_(WS!vars)
    <3>1. e[1] \in Indices /\ e[2] \in SUBSET Direction
      BY <2>1 DEF TypeOK
    <3>2. QED
      BY <1>2, <2>3, <3>1, DeliverTakes DEF HandleEvent, WS!Next
  <2>4. ASSUME NEW w \in wakers, CallWaker(w[1], w[2]) PROVE [WS!Next]_(WS!vars)
    <3>1. w[1] \in Indices /\ w[2] \in Direction /\ <<w[1], w[2]>> \in wakers
      BY <2>1 DEF TypeOK
    <3>2. QED
      BY <1>2, <2>4, <3>1, CallCalls DEF WS!Next
  <2>5. ASSUME NEW i \in Indices, Step(i) PROVE [WS!Next]_(WS!vars)
    <3>1. CASE StoreWaker(i)
      BY <2>1, <3>1, StoreLeaves DEF WS!Next
    <3>2. CASE TakeSource(i)
      BY <2>1, <3>2, EmptyDrops DEF TakeSource, reactor, WS!Next
    <3>3. CASE ~StoreWaker(i) /\ ~TakeSource(i)
      <4>1. UNCHANGED <<interest, wakers>>
        BY <2>5, <3>3 DEF Step, Resume, Park, LockSource, Check, Recheck, IoReturns,
           IoWouldBlock, ClearTrigger, AfterDeath, source, reactor
      <4>2. QED
        BY <4>1, NoWakerTouched
    <3>4. QED
      BY <3>1, <3>2, <3>3
  <2>6. ASSUME NEW i \in Indices, RegisterSource(i) PROVE [WS!Next]_(WS!vars)
    BY <2>1, <2>6, EmptyDrops DEF RegisterSource, reactor, WS!Next
  <2>7. ASSUME NEW i \in Indices, Handshaken(i) \/ Deregister(i) \/ Lose(i) \/ WokenElsewhere(i)
        PROVE  [WS!Next]_(WS!vars)
    BY <2>7, NoWakerTouched DEF Handshaken, Deregister, Lose, WokenElsewhere, source, reactor
  <2>8. ASSUME NEW i \in Indices, NEW dirs \in SUBSET Direction,
               RegisterSocket(i, dirs) \/ StaleEvent(i, dirs)
        PROVE  [WS!Next]_(WS!vars)
    <3>1. CASE RegisterSocket(i, dirs)
      BY <3>1, NoWakerTouched DEF RegisterSocket, source, reactor
    <3>2. CASE StaleEvent(i, dirs)
      BY <1>2, <3>2, DeliverTakes DEF StaleEvent, WS!Next
    <3>3. QED
      BY <2>8, <3>1, <3>2
  <2>9. ASSUME NEW i \in Indices, NEW d \in Direction, PollIo(i, d) \/ BecomesReady(i, d)
        PROVE  [WS!Next]_(WS!vars)
    BY <2>9, NoWakerTouched DEF PollIo, BecomesReady, source, reactor
  <2>10. CASE UNCHANGED vars
    BY <2>10, NoWakerTouched DEF vars, source, reactor
  <2>11. QED
    BY <1>2, <2>2, <2>3, <2>4, <2>5, <2>6, <2>7, <2>8, <2>9, <2>10 DEF Next, ReactorThread
<1>3. QED
  BY <1>1, <1>2, ReactorInvariant, PTL DEF Spec, ImplementsWakerStore, WS!Spec
=============================================================================
