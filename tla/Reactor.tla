------------------------------ MODULE Reactor -------------------------------
(***************************************************************************)
(* The reactor (nea/src/reactor.rs): the sources that tasks register, the  *)
(* poll_io loop in which a task uses its socket, and the thread that turns *)
(* the events of epoll into calls of wakers.                               *)
(*                                                                         *)
(* A source has, per direction, the waker of a task that waits and a flag  *)
(* that the socket was reported ready since it last said WouldBlock.  The  *)
(* mutex of its slot in `sources' is held by poll_io from the first look   *)
(* at the flag to the last, and by the reactor while it sets the flag and  *)
(* takes the waker; the mutex of `interest' is only taken inside it.       *)
(*                                                                         *)
(* The kernel is external: sockets become ready, epoll is edge-triggered   *)
(* and reports what is ready at the time it is asked.  So are the tasks:   *)
(* an ordinary future waits for one thing at a time and completes while it *)
(* is polled.  Others (Concurrent) may wait for several things at once,    *)
(* are woken by other tasks too, and may be dropped while they wait:       *)
(* hyper's connections, and futures that open connections.                 *)
(*                                                                         *)
(* roc_panic jumps out of a poll without running destructors: a stream     *)
(* that is then only on the stack of the poll is lost, and is never        *)
(* dropped.                                                                *)
(***************************************************************************)
EXTENDS Naturals

CONSTANTS
  Indices,      \* the queue indices; an index is both a task and its socket
  Concurrent    \* those of tasks that may wait for several things at once

Direction == {"Read", "Write"}

ASSUME ReactorAssumption == Concurrent \subseteq Indices

VARIABLES
  present,      \* sources[i] is Some
  interest,     \* directions with a waker in sources[i]
  triggered,    \* directions whose flag is set in sources[i]
  locked,       \* the task holds the mutex of sources[i]
  pc, dir,      \* where the task is, and the direction it is polling
  awaiting,     \* directions in which this poll of the task got Pending
  woken,        \* the job of the task is queued
  onStack,      \* the stream is only on the stack of the poll that made it, and
                \* not yet in a suspended future or the slot of a connection
  lost,         \* a stream that was lost is still in epoll, under this index
  batch,        \* the events of poll.poll that are still to be handled
  wakers,       \* the wakers collected so far
  ready,        \* external: directions in which the socket is ready
  edge          \* external: epoll has an event for the socket

source == <<present, interest, triggered>>
task == <<pc, dir, awaiting>>
stream == <<onStack, lost>>
reactor == <<batch, wakers>>
kernel == <<ready, edge>>
vars == <<source, locked, task, woken, stream, reactor, kernel>>

Init ==
  /\ present = [i \in Indices |-> FALSE]
  /\ interest = [i \in Indices |-> {}]
  /\ triggered = [i \in Indices |-> {}]
  /\ locked = [i \in Indices |-> FALSE]
  /\ pc = [i \in Indices |-> "none"]
  /\ dir = [i \in Indices |-> "Read"]
  /\ awaiting = [i \in Indices |-> {}]
  /\ woken = [i \in Indices |-> FALSE]
  /\ onStack = [i \in Indices |-> FALSE]
  /\ lost = [i \in Indices |-> FALSE]
  /\ batch = {} /\ wakers = {}
  /\ ready = [i \in Indices |-> {}]
  /\ edge = [i \in Indices |-> FALSE]

Goto(i, label) == pc' = [pc EXCEPT ![i] = label]

----------------------------------------------------------------------------
(* The beginning and the end of a stream. *)

\* Reactor::register puts the source in place ...
RegisterSource(i) ==
  /\ pc[i] = "none"
  /\ present' = [present EXCEPT ![i] = TRUE]
  /\ interest' = [interest EXCEPT ![i] = {}]
  /\ triggered' = [triggered EXCEPT ![i] = {}]
  /\ onStack' = [onStack EXCEPT ![i] = TRUE]
  /\ Goto(i, "register")
  /\ UNCHANGED <<locked, dir, awaiting, woken, lost, reactor, kernel>>

\* ... before the socket: one that is ready has an event at once.  A future
\* registers its own stream; handshake() that of a connection.
RegisterSocket(i, dirs) ==
  /\ pc[i] = "register"
  /\ ready' = [ready EXCEPT ![i] = dirs]
  /\ edge' = [edge EXCEPT ![i] = dirs # {}]
  /\ \E label \in {"run"} \cup (IF i \in Concurrent THEN {"handshake"} ELSE {}) :
       Goto(i, label)
  /\ UNCHANGED <<source, locked, dir, awaiting, woken, stream, reactor>>

\* handshake() puts the connection in its slot and queues its job.
Handshaken(i) ==
  /\ pc[i] = "handshake"
  /\ onStack' = [onStack EXCEPT ![i] = FALSE]
  /\ woken' = [woken EXCEPT ![i] = TRUE]
  /\ Goto(i, "parked")
  /\ UNCHANGED <<source, locked, dir, awaiting, lost, reactor, kernel>>

\* roc_panic's longjmp, while the stream is on the stack.  The source stays.  The
\* socket of a request is closed with the future that had captured it; the
\* one of a connection may stay in epoll for ever.
Lose(i) ==
  /\ onStack[i]
  /\ \/ pc[i] = "run" /\ (awaiting[i] = {} \/ i \in Concurrent)
     \/ pc[i] = "handshake"
  /\ lost' = [lost EXCEPT ![i] = @ \/ pc[i] = "handshake"]
  /\ ready' = [ready EXCEPT ![i] = {}]
  /\ edge' = [edge EXCEPT ![i] = FALSE]
  /\ awaiting' = [awaiting EXCEPT ![i] = {}]
  /\ Goto(i, "none")
  /\ UNCHANGED <<source, locked, dir, woken, onStack, reactor>>

\* TcpStream::drop: the socket leaves epoll ...
Deregister(i) ==
  /\ \/ pc[i] = "run" /\ (awaiting[i] = {} \/ i \in Concurrent)
     \/ pc[i] \in {"handshake", "parked"} /\ i \in Concurrent
  /\ ready' = [ready EXCEPT ![i] = {}]
  /\ edge' = [edge EXCEPT ![i] = FALSE]
  /\ awaiting' = [awaiting EXCEPT ![i] = {}]
  /\ onStack' = [onStack EXCEPT ![i] = FALSE]
  /\ Goto(i, "drop")
  /\ UNCHANGED <<source, locked, dir, woken, lost, reactor>>

\* Mutant: the wakers are dropped with the stream, the source is not.
SourceAfterDrop_Kept(i) == present[i]

\* What drop leaves in sources[i].
SourceAfterDrop(i) == FALSE

\* ... and then the source is taken; events that are on their way stay.
TakeSource(i) ==
  /\ pc[i] = "drop"
  /\ present' = [present EXCEPT ![i] = SourceAfterDrop(i)]
  /\ interest' = [interest EXCEPT ![i] = {}]
  /\ triggered' = [triggered EXCEPT ![i] = {}]
  /\ Goto(i, "none")
  /\ UNCHANGED <<locked, dir, awaiting, woken, stream, reactor, kernel>>

----------------------------------------------------------------------------
(* A poll of a task, and poll_io. *)

\* run_bucket polls a task whose job is queued.  A future goes on where it
\* was waiting.
Resume(i) ==
  /\ pc[i] = "parked"
  /\ woken[i]
  /\ woken' = [woken EXCEPT ![i] = FALSE]
  /\ awaiting' = [awaiting EXCEPT ![i] = {}]
  /\ Goto(i, IF i \in Concurrent THEN "run" ELSE "lock")
  /\ UNCHANGED <<source, locked, dir, stream, reactor, kernel>>

\* run_bucket finds that the task of a queued job is gone.
AfterDeath(i) ==
  /\ pc[i] = "none"
  /\ woken[i]
  /\ woken' = [woken EXCEPT ![i] = FALSE]
  /\ UNCHANGED <<source, locked, task, stream, reactor, kernel>>

\* The task returns Poll::Pending.  It may wait for something else.
Park(i) ==
  /\ pc[i] = "run"
  /\ awaiting[i] # {} \/ i \in Concurrent
  /\ onStack' = [onStack EXCEPT ![i] = FALSE]
  /\ Goto(i, "parked")
  /\ UNCHANGED <<source, locked, dir, awaiting, woken, lost, reactor, kernel>>

\* The task reads, writes, flushes or shuts down: a call of poll_io.
PollIo(i, d) ==
  /\ pc[i] = "run"
  /\ awaiting[i] = {} \/ (i \in Concurrent /\ d \notin awaiting[i])
  /\ dir' = [dir EXCEPT ![i] = d]
  /\ Goto(i, "lock")
  /\ UNCHANGED <<source, locked, awaiting, woken, stream, reactor, kernel>>

\* The mutex of the source.  Without a source poll_io returns Pending.
LockSource(i) ==
  /\ pc[i] = "lock"
  /\ locked' = [locked EXCEPT ![i] = present[i]]
  /\ awaiting' = [awaiting EXCEPT ![i] = IF present[i] THEN @ ELSE @ \cup {dir[i]}]
  /\ Goto(i, IF present[i] THEN "check" ELSE "run")
  /\ UNCHANGED <<source, dir, woken, stream, reactor, kernel>>

\* Mutant: the waker is stored before the flag is looked at.
NotTriggered_Ignored(i) == TRUE

\* poll_ready's first look at the flag.
NotTriggered(i) == dir[i] \notin triggered[i]

Check(i) ==
  /\ pc[i] = "check"
  /\ Goto(i, IF NotTriggered(i) THEN "store" ELSE "io")
  /\ UNCHANGED <<source, locked, dir, awaiting, woken, stream, reactor, kernel>>

\* poll_ready stores the waker, unless it is there already.
StoreWaker(i) ==
  /\ pc[i] = "store"
  /\ interest' = [interest EXCEPT ![i] = @ \cup {dir[i]}]
  /\ Goto(i, "recheck")
  /\ UNCHANGED <<present, triggered, locked, dir, awaiting, woken, stream, reactor, kernel>>

\* poll_ready's second look, and Poll::Pending.
Recheck(i) ==
  /\ pc[i] = "recheck"
  /\ IF dir[i] \in triggered[i]
     THEN Goto(i, "io") /\ UNCHANGED <<locked, awaiting>>
     ELSE /\ locked' = [locked EXCEPT ![i] = FALSE]
          /\ awaiting' = [awaiting EXCEPT ![i] = @ \cup {dir[i]}]
          /\ Goto(i, "run")
  /\ UNCHANGED <<source, dir, woken, stream, reactor, kernel>>

\* The system call does something, fully or in part, or fails; a flush or a
\* shutdown does not depend on the socket's readiness.
IoReturns(i) ==
  /\ pc[i] = "io"
  /\ \E dirs \in {ready[i], ready[i] \ {dir[i]}} : ready' = [ready EXCEPT ![i] = dirs]
  /\ locked' = [locked EXCEPT ![i] = FALSE]
  /\ Goto(i, "run")
  /\ UNCHANGED <<source, dir, awaiting, woken, stream, reactor, edge>>

IoWouldBlock(i) ==
  /\ pc[i] = "io"
  /\ dir[i] \notin ready[i]
  /\ Goto(i, "clear")
  /\ UNCHANGED <<source, locked, dir, awaiting, woken, stream, reactor, kernel>>

\* Mutant: both flags are cleared.
Cleared_Both(i) == Direction

\* The flag clear_trigger clears.
Cleared(i) == {dir[i]}

\* clear_trigger, and once more round the loop.
ClearTrigger(i) ==
  /\ pc[i] = "clear"
  /\ triggered' = [triggered EXCEPT ![i] = @ \ Cleared(i)]
  /\ locked' = [locked EXCEPT ![i] = FALSE]
  /\ Goto(i, "lock")
  /\ UNCHANGED <<present, interest, dir, awaiting, woken, stream, reactor, kernel>>

----------------------------------------------------------------------------
(* The reactor's thread: Shared::poll. *)

\* poll.poll: what epoll has events for, with what is ready by now.
Poll ==
  /\ batch = {} /\ wakers = {}
  /\ \E i \in Indices : edge[i]
  /\ batch' = {<<i, ready[i]>> : i \in {j \in Indices : edge[j] /\ ready[j] # {}}}
  /\ edge' = [i \in Indices |-> FALSE]
  /\ UNCHANGED <<source, locked, task, woken, stream, wakers, ready>>

\* Mutant: the reactor does not take the mutex of the source.
SourceFree_Always(i) == TRUE

\* The reactor can lock the source.
SourceFree(i) == ~locked[i]

\* Mutant: a writable event is only looked at if it is not readable.
Woken_One(i, dirs) == interest[i] \cap (IF "Read" \in dirs THEN {"Read"} ELSE dirs)

\* Mutant: the task is woken by its index, whether it left a waker or not.
Woken_ByIndex(i, dirs) == dirs

\* The directions of an event in which a task waits.
Woken(i, dirs) == interest[i] \cap dirs

\* Mutant: the waker is cloned from the source instead of taken.
StillWaiting_All(i, dirs) == interest[i]

\* The wakers an event leaves in the source.
StillWaiting(i, dirs) == interest[i] \ Woken(i, dirs)

\* One event: the waker is taken and the flag set, in each direction.
Deliver(i, dirs) ==
  /\ SourceFree(i)
  /\ \/ /\ ~present[i]
        /\ UNCHANGED <<wakers, interest, triggered>>
     \/ /\ present[i]
        /\ wakers' = wakers \cup ({i} \X Woken(i, dirs))
        /\ interest' = [interest EXCEPT ![i] = StillWaiting(i, dirs)]
        /\ triggered' = [triggered EXCEPT ![i] = @ \cup dirs]
  /\ UNCHANGED <<present, locked, task, woken, stream, kernel>>

HandleEvent(i, dirs) ==
  /\ batch' = batch \ {<<i, dirs>>}
  /\ Deliver(i, dirs)

\* An event of a socket that is still in epoll though its stream was lost.
\* It has the token of the stream that is there now.
StaleEvent(i, dirs) ==
  /\ lost[i] /\ dirs # {}
  /\ UNCHANGED batch
  /\ Deliver(i, dirs)

\* waker.wake(), after the last event.
CallWaker(i, d) ==
  /\ batch = {}
  /\ wakers' = wakers \ {<<i, d>>}
  /\ woken' = [woken EXCEPT ![i] = TRUE]
  /\ UNCHANGED <<source, locked, task, stream, batch, kernel>>

ReactorThread ==
  \/ Poll
  \/ \E e \in batch : HandleEvent(e[1], e[2])
  \/ \E w \in wakers : CallWaker(w[1], w[2])

----------------------------------------------------------------------------

\* External: bytes, or room for bytes, or the end of the connection.
BecomesReady(i, d) ==
  /\ pc[i] \notin {"none", "register", "drop"}
  /\ ready' = [ready EXCEPT ![i] = @ \cup {d}]
  /\ edge' = [edge EXCEPT ![i] = TRUE]
  /\ UNCHANGED <<source, locked, task, woken, stream, reactor>>

\* External: another task wakes this one, also after its death (a request is
\* sent to a connection, a connection has a response).
WokenElsewhere(i) ==
  /\ i \in Concurrent
  /\ woken' = [woken EXCEPT ![i] = TRUE]
  /\ UNCHANGED <<source, locked, task, stream, reactor, kernel>>

\* What run_bucket does once it polls a task, apart from the choices that
\* are the task's own.
Step(i) ==
  \/ Resume(i) \/ Park(i)
  \/ LockSource(i) \/ Check(i) \/ StoreWaker(i) \/ Recheck(i)
  \/ IoReturns(i) \/ IoWouldBlock(i) \/ ClearTrigger(i)
  \/ TakeSource(i) \/ AfterDeath(i)

Next ==
  \/ ReactorThread
  \/ \E i \in Indices :
       \/ Step(i)
       \/ RegisterSource(i) \/ Handshaken(i) \/ Deregister(i) \/ Lose(i)
       \/ WokenElsewhere(i)
       \/ \E dirs \in SUBSET Direction : RegisterSocket(i, dirs) \/ StaleEvent(i, dirs)
       \/ \E d \in Direction : PollIo(i, d) \/ BecomesReady(i, d)

Spec == Init /\ [][Next]_vars

\* The threads run: the reactor goes on, and a worker goes on with a task it
\* polls.
FairSpec == Spec /\ WF_vars(ReactorThread) /\ \A i \in Indices : WF_vars(Step(i))

----------------------------------------------------------------------------
(* Properties. *)

\* Every variable has its type.
TypeOK ==
  /\ present \in [Indices -> BOOLEAN]
  /\ interest \in [Indices -> SUBSET Direction]
  /\ triggered \in [Indices -> SUBSET Direction]
  /\ locked \in [Indices -> BOOLEAN]
  /\ pc \in [Indices -> {"none", "register", "run", "lock", "check", "store", "recheck",
                         "io", "clear", "parked", "drop", "handshake"}]
  /\ dir \in [Indices -> Direction]
  /\ awaiting \in [Indices -> SUBSET Direction]
  /\ woken \in [Indices -> BOOLEAN]
  /\ onStack \in [Indices -> BOOLEAN]
  /\ lost \in [Indices -> BOOLEAN]
  /\ batch \subseteq Indices \X SUBSET Direction
  /\ wakers \subseteq Indices \X Direction
  /\ ready \in [Indices -> SUBSET Direction]
  /\ edge \in [Indices -> BOOLEAN]

\* An event in this direction is on its way to the source.
Coming(i, d) == edge[i] \/ \E e \in batch : e[1] = i /\ d \in e[2]

\* Edge-triggered readiness is never lost: a socket that is ready has its
\* flag set, or an event will set it.  clear_trigger does not undo an event
\* that came after WouldBlock.
ReadinessNotLost ==
  \A i \in Indices : \A d \in ready[i] : d \in triggered[i] \/ Coming(i, d)

\* A task that waits in a direction that is ready will be woken.
WillBeWoken ==
  \A i \in Indices : \A d \in awaiting[i] \cap ready[i] : pc[i] = "parked" =>
    woken[i] \/ <<i, d>> \in wakers \/ Coming(i, d)

\* A waker is never stored in a direction whose flag is set: poll_ready's
\* second look at the flag is never successful, because the reactor needs
\* the mutex that poll_io holds.
NoWakerWhileTriggered == \A i \in Indices : interest[i] \cap triggered[i] = {}

\* A future that waits for one thing at a time leaves no waker behind when
\* it completes: it is never woken after its death, which run_bucket would
\* answer with panic!("input stream race condition").
NeverWokenAfterDeath ==
  \A i \in Indices \ Concurrent : pc[i] = "none" =>
    ~woken[i] /\ \A d \in Direction : <<i, d>> \notin wakers

\* The source is there from register to drop: poll_io never returns Pending
\* for want of one, and the assertion in drop holds.  It is there no longer,
\* as the debug assertion in register says, unless a stream was lost.
SourceInPlace ==
  \A i \in Indices :
    /\ pc[i] # "none" => present[i]
    /\ pc[i] = "none" /\ present[i] => onStack[i]

----------------------------------------------------------------------------
(* The inductive invariant of the proofs. *)

\* poll_io holds the mutex from its first look at the flag until it returns
\* or has cleared the flag; meanwhile nobody else changes the flag.
Critical(i) ==
  /\ locked[i] <=> (pc[i] \in {"check", "store", "recheck", "io", "clear"})
  /\ pc[i] \in {"store", "recheck"} => dir[i] \notin triggered[i]
  /\ pc[i] \in {"io", "clear"} => dir[i] \in triggered[i]
  /\ pc[i] = "recheck" => dir[i] \in interest[i]
  /\ pc[i] = "clear" /\ dir[i] \in ready[i] => Coming(i, dir[i])

\* A socket outside epoll has no events, and nobody waits for it.
Unregistered(i) ==
  pc[i] \in {"none", "register", "drop"} =>
    ready[i] = {} /\ ~edge[i] /\ awaiting[i] = {}

\* A task that got Pending has left a waker, and it was not lost.
Remembered(i) ==
  \A d \in awaiting[i] : d \in interest[i] \/ <<i, d>> \in wakers \/ woken[i]

\* There is at most one wake-up of an ordinary future at any time, in the
\* direction it polls, and none unless it waits or is about to.
OneWakeUp(i) ==
  /\ awaiting[i] \subseteq {dir[i]} /\ interest[i] \subseteq {dir[i]}
  /\ \A d \in Direction : <<i, d>> \in wakers => d = dir[i]
  /\ pc[i] \notin {"run", "parked"} => awaiting[i] = {}
  /\ awaiting[i] = {} /\ pc[i] # "recheck" => interest[i] = {}
  /\ awaiting[i] = {} => ~woken[i] /\ <<i, dir[i]>> \notin wakers
  /\ dir[i] \in interest[i] => ~woken[i] /\ <<i, dir[i]>> \notin wakers
  /\ woken[i] => <<i, dir[i]>> \notin wakers
  /\ pc[i] # "handshake"

\* Everything the properties rest on.
ReactorInv ==
  /\ TypeOK /\ SourceInPlace /\ NoWakerWhileTriggered /\ ReadinessNotLost
  /\ \A i \in Indices : Critical(i) /\ Unregistered(i) /\ Remembered(i)
  /\ \A i \in Indices \ Concurrent : OneWakeUp(i)

----------------------------------------------------------------------------

WS == INSTANCE WakerStore WITH
        Tasks <- Indices,
        interest <- {i \in Indices : interest[i] # {}},
        wakers <- {i \in Indices : \E d \in Direction : <<i, d>> \in wakers}

\* The reactor treats wakers as the executor's model assumes: an event takes
\* the waker of a task out of its source, and a waker that was taken is called
\* once, be its task still there or not.
ImplementsWakerStore == WS!Spec

\* A task that waits in a direction that is ready is polled again.
ReadyIsServed ==
  \A i \in Indices, d \in Direction :
    (pc[i] = "parked" /\ d \in awaiting[i] \cap ready[i]) ~> (pc[i] # "parked")
=============================================================================
