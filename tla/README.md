# A TLA+ model of nea

[nea](../src/README.md) is a web server that gives every request a fixed
amount of memory. It is an async runtime of its own: a work queue, an
executor with four worker threads, a reactor over epoll, and a global allocator
that serves a request from the arena of its *bucket*. This directory holds TLA+
modules for each of these parts, the TLC runs that check them on small
instances, and TLAPS proofs of what matters most for instances of any size.

## The system

| part | source | state | operations |
| --- | --- | --- | --- |
| work queue | `nea/src/queue.rs` | per bucket two flags and a word of job bits; a counter under a mutex with a condition variable | `wake`/`initial_enqueue`, `blocking_dequeue`, `dequeue`, `done_with_bucket` |
| executor | `nea/src/executor.rs` | per bucket a count of tasks, a future, a descriptor, slots for http connections | `try_claim`, `execute`/`set`, `handshake`, `run_worker`, `run_bucket`, `cleanup_bucket` |
| accept loop | `nea/src/lib.rs` | the request being placed | accept, claim a bucket or turn the client away |
| reactor | `nea/src/reactor.rs` | per queue index a source: wakers and flags per direction | `register`, `poll_io`, `Shared::poll`, `drop` |
| allocator | `shared/src/allocator.rs`, `nea/src/lib.rs` | per arena the offset below which it is free; per thread its current arena | `alloc`, `clear_bucket`, `initialize_buckets` |
| indices | `nea/src/index.rs` | none | conversions between bucket, connection and queue indices and machine words |

How they interact. The accept loop claims a bucket (its count goes from 0 to 1),
stores the request's future and a duplicate of its socket's descriptor, and
enqueues the bucket. A worker dequeues a bucket, points its allocator at the
bucket's arena and polls the tasks whose job bits are set, until there is none
or the last task of the bucket has finished; then the arena is wiped and the
bucket can be claimed again. A future may open http connections, which are
further tasks of the same bucket. A task that has to wait leaves a waker with
the reactor or with another task; a waker is nothing but a queue index, and
calling it enqueues that index, whatever has become of the task. A task that
panics or runs out of memory (`longjmp` out of the allocator) takes its bucket
down: the client gets an error response, everything is dropped, the arena is
wiped and the count set to 0.

What is hard about it:

* enqueueing, sleeping and giving up a bucket are lock-free sequences of single
  atomic accesses by several threads (`queue.rs:201-313`);
* wakers outlive their tasks, so jobs arrive for tasks that are gone and for
  buckets that belong to the next request (`executor.rs:510`, `:543`);
* a bucket is freed by setting its count while its worker goes on with it
  (`executor.rs:470`), and the accept loop takes it at once;
* two `try_lock().unwrap()` on the same future, by the accept loop in `set`
  and by a worker in `run_bucket`, rest on the claim that they never meet
  (`executor.rs:333`, `:577`);
* `longjmp` leaves a poll without running destructors: streams on the stack stay
  registered (`lib.rs:84`, `reactor.rs:93`);
* descriptors are kept as plain numbers after they were closed
  (`executor.rs:447-450`, `:528-531`);
* epoll is edge-triggered: an event that is forgotten does not come again
  (`reactor.rs:268-271`);
* threads race for the memory of the static arena (`allocator.rs:105`).

`PROJECT.json` lists these and the other hazards at their lines, with the
properties that cover them.

## Modules

| module | models | lines of the source |
| --- | --- | --- |
| `Queue` | the queue at the grain of single atomic accesses, and the skeleton of the worker loop | `queue.rs`, `executor.rs:406-502` |
| `WorkQueue` | what the queue promises: jobs are posted, announced, and buckets held by one worker at a time | abstract specification |
| `WakerStore` | what the reactor promises about wakers: they are left with a source, taken by an event, called once, and dropped with their source unless taken before | abstract specification |
| `Executor` | the executor and the accept loop on top of `WorkQueue` and `WakerStore` | `executor.rs`, `lib.rs:230-266` |
| `Reactor` | sources, `poll_io` and the reactor's loop, with an edge-triggered epoll | `reactor.rs` |
| `Allocator` | arenas, `fetch_update`, wiping, the choice of the arena, failed allocations | `allocator.rs`, `lib.rs:48-200` |
| `Index` | the index arithmetic, with its overflow | `index.rs` |
| `ExecutorInv` | the inductive invariants of `Executor`, checked by its runs and used by its proofs | |
| `QueueProofs`, `AllocatorProofs`, `ExecutorProofs`, `ReactorProofs`, `IndexProofs` | theorems | |
| `MC...` | instances for TLC | |

`Executor` is composed with the queue through `WorkQueue`: it uses `Post`,
`Announce`, `Claim`, `Take`, `Again` and `Release` as its queue operations, and
`Queue` is shown to implement `WorkQueue` (`ImplementsWorkQueue`, checked and
proved). It is composed with the reactor through `WakerStore`: its actions
`Collect` and `CallWaker` are `Take` and `Call` of that module, and `Reactor` is shown
to implement `WakerStore` (`ImplementsWakerStore`, checked and proved). The two
directions of a source are one in `WakerStore`, so a task that may wait in both
directions (`Concurrent`) can still have a waker after one was taken. In
`Executor` these are the connections, and the futures too unless they wait for one
thing at a time (`MaxAwaits` 1); that such a future leaves no waker behind when it
completes is `NeverWokenAfterDeath` of `Reactor`. Dropping a bucket's connections
is one `Drop` of all their sources.
That `Executor` in turn asks nothing of the two abstract specifications that they
do not allow is proved: `ExecutorUsesQueue` and `ExecutorUsesReactor`.

### Queue

`flags`, `jobs` and `active` are the atomics and the counter; `pc`, `target`,
`slot`, `offset`, `verdict` and `attempt` are the threads' local variables. Each
action is one atomic access or one critical section: `helper` is `Enqueue`,
`Increment`, `Mark`, and `Notify` or `Revert`; `blocking_dequeue` is
`WaitActive`, `TryProcess` (one slot at a time) and `Picked`; `dequeue` is `Load`
and `Take`; `done_with_bucket` is `GoAgain` and `Release`. A worker also enqueues,
from inside the poll of a task. Panics of the code (`checked_add`,
`checked_sub`, `assert_eq!`, `unreachable!`) are the label `panicked`.

The source uses relaxed and acquire orderings. nea runs on x86-64 only (its
`setjmp` is written in that assembly), where an atomic read-modify-write is a full
barrier, and every write to a shared word is one; so an interleaving of single
accesses is what the build does. A port to another architecture would need a
weaker memory model here.

### Executor

`refcounts`, `futures`, `tcp_streams` and `connections` are the arrays of `Inner`.
The kernel's descriptor table, the outcome of every request, and the places where
wakers can be (`interest` in the reactor's sources, `wakers` in its list, `channel`
for responses) are external. A poll is a sequence of actions that end in
`Pending`, `Ready` or a fault; `handshake` runs inside the poll of a future.
`cleanup_bucket` is four actions, because the accept loop and the reactor run
meanwhile. `set` is two: `Set` locks the place of the future and replaces what is
in it, `StoreFd` stores the descriptor and makes the assertion; the lock is
released in between, so a leftover job may run there. Counts are `u8` and wrap around, as in a build without overflow checks
(a build with them would panic in `handshake` or `run_bucket` instead). Descriptors
are those of the duplicated sockets, given out lowest first; the original
sockets share their fate and are not told apart from them. When none is free
`try_clone().expect("we never run out of FDs")` panics; `Fds` has one more than
there are buckets (or one per client), which is what the accept loop may need at a
time, so a path that forgets one shows. `try_lock` is modelled with its failures: `try_claim` skips
a bucket whose count a worker may have locked, `set` panics when a worker has the
future locked, and a worker dies (`locked_out`) when `set` has.

The constant `Faults` says what may go wrong: a poll runs out of memory (`oom`)
or panics (`panic`; caught for a future, the end of the worker for a connection),
and a client that is turned away has gone already (`reset`; `shutdown().unwrap()`
ends the accept loop). `MaxAwaits` is how many wakers a pending future may leave:
1 for a future that awaits one thing after another, more for one that uses
`select` or `join`. The *ordinary case* (`Ordinary`) is that futures wait for one
thing at a time, and that polls run out of memory only where there are no
connections: a connection that does so would have a future dropped that waits.
Panics are part of it with and without connections. A panic of a future is caught
and takes its bucket down. One of a connection ends the worker; its bucket stays in
progress for ever, but it is never handed out again (`FreeIsQuiet`). `reset` is
part of it too; the panic of the main thread then ends the process, and that the
model lets the other threads go on only adds behaviours.

`NoTaskForgotten` asks more than that a job bit is set. Bits stay behind when
the last task of a bucket ends its run, and a wake-up that finds its bit set
returns without announcing the bucket; so a queued job counts as remembered only
if its bucket is announced, is about to be, or has a worker that will look for
jobs again.

### Reactor

`present`, `interest` and `triggered` are the sources; `locked` is the mutex of a
source while a task holds it. `poll_io` is `LockSource`, `Check`, `StoreWaker`,
`Recheck`, `IoReturns` or `IoWouldBlock`, `ClearTrigger`. The reactor handles one
event in one action, since it does so under the same mutex; the mutex of
`interest` is only ever taken inside and is left out. `ready` and `edge` are the
kernel's: a socket becomes ready, which makes an event; `poll.poll` takes all
events with what is ready at that time. Streams are dropped and registered
again under the same index while events of the old one are still on their way.

`roc_panic` jumps out of a poll without running destructors. A stream that is
then on the stack of the poll (`onStack`: not yet moved into a suspended future, or
in the middle of `handshake`) is lost: its source stays in place, with flags and
wakers, until the next `register` under the index replaces it (`Lose`). The socket
of a request is closed when `cleanup_bucket` drops the future that captured it;
that of a connection may stay in epoll for ever (`lost`), and its events are applied
to the next stream of that index (`StaleEvent`). Other tasks wake a concurrent
task too (`WokenElsewhere`).

### Allocator

`remaining` is the free part of each arena, `blocks` the live allocations. An
allocation is `Alloc`, `Load` and rounds of `Update`, the loop of `fetch_update`. A
failed one depends on the thread: a null pointer before main, the system
allocator in the executor and the reactor, `longjmp` in a bucket. `serving` tells
whether start-up is over: `Listen` is where `run_request_handler` has spawned
the workers and begins to accept connections. What is taken from the system before
that is not held against the program.
`x & !(align - 1)` is modelled as rounding down to a multiple, which is the same
for the powers of two that `Layout` allows.

### Index

Operators only; `MCIndex` walks through all inputs of a small configuration. All
results are reduced modulo `U32`, so the properties show that nothing wraps around
under the assumptions (`bucket_count * per_bucket <= U32`, at most 1000 buckets).

## Runs

| run | shows | states |
| --- | --- | --- |
| `queue` | mutual exclusion, no panic, exact count, work conservation, no stranded job, refinement of `WorkQueue`, liveness | 265,674 |
| `allocator` | disjoint, in bounds, aligned, with three threads and two buckets | 1,300,824 |
| `executor_connections` | counts, no late wake-up, no lost wake-up, a free bucket is at rest, the inductive invariant of the ordinary case, with panics of futures and of connections; three clients in one bucket, two connections each | 874,842 |
| `executor_faults` | the same invariant with panics and out-of-memory but without connections, four clients; only the failing request is cancelled, no descriptor is leaked | 760,191 |
| `executor_liveness` | every client is answered or turned away and every bucket freed, without faults, under fairness | 28,611 |
| `executor_all` | connections and all faults together, three clients: what still holds, with its inductive invariant | 3,526,644 |
| `reactor_futures` | no readiness or wake-up lost, none after the end, two futures | 2,752,251 |
| `reactor_connection` | the inductive invariant for a connection that waits in both directions, refinement of `WakerStore`, liveness | 66,964 |
| `index` | jobs find their tasks, words keep indices | 270 |

Bounds, and why they are enough. Two workers suffice for every race over a bucket,
since a bucket's state only tells whether *a* worker has it, and with two buckets a
worker can be busy elsewhere, asleep, or searching while the other acts; two job
offsets distinguish the request's future from a connection. In the executor two
requests are enough for one to inherit the bucket or the descriptor of another,
and with more than that a bucket is claimed, lost and claimed once more.
`executor_faults` has two buckets and four clients, so that requests live side by
side and compete for buckets and descriptors. `executor_connections` has one bucket,
because its connections concern that bucket only, and spends its states on three
clients, on two connections (one to wait for while the other ends, and a
`handshake` that finds no slot) and on a second worker, which can claim the
bucket the moment it is given up. `executor_all` has one worker in one bucket. `executor_liveness`
has one bucket too, so that the clients compete for it. The arenas are so
small that they are used up and blocks meet the last byte; alignments 1 and 2
are supported, 4 is refused. Two futures let the reactor's list of events hold
one while it handles another. `U32_MAX`, `U32` are the smallest numbers the
assumptions admit or close to it, so that an overflow would show. Symmetry is
declared for workers, clients and ordinary futures, which no action tells apart;
not in the runs with liveness.

The executor and the index run end when all clients have been served, so
`executor_*` do not check for deadlock; the others do.

Fairness. `Queue`: weak fairness of every thread's own steps; the operating system
runs every thread that can run, and a poll returns (a handler that blocks for ever
occupies its worker, in nea too). Nothing is assumed of notifications, spurious
wake-ups or callers. Because `try_dequeue` scans from slot 0 and a worker stays
with a bucket that is enqueued again, a bucket can starve while others are
enqueued for ever: `InputJobServed` excludes that. `Reactor`: weak fairness of the
reactor's thread and of a task's own steps; nothing is assumed of the network.
`Executor`: weak fairness of the accept loop (but not of clients, who need not come)
and of every worker. The reactor's loop handles all events and calls all wakers, and
a socket that somebody waits for becomes ready or is closed by its peer in the end,
so each waker that stays is collected and called: strong fairness of `Collect` and
`CallWaker` per task. Handlers and peers are assumed to be finite: a handler that
is polled again and again completes; a connection that is polled again and again
delivers what its request waits for, and ends once the request is over (hyper ends
a connection whose sender is gone). This is strong fairness of `MainReady`,
`Respond` and `ConnReady`, since other polls come in between. A handler that loops
for ever is not served by nea, nor is one whose peer never answers: there are no
timeouts. `AllServedInTheEnd` is checked for such clients in the absence of
faults; what it shows is that queue, reactor and executor together lose no wake-up.

Every property has a mutant in `PROJECT.json`: a definition changed the way a
plausible bug would change the code, for which TLC finds the property violated.

### Findings

Three runs are expected to fail; each shows that the code does not do what the
repository says.

* `executor_cancel`: a connection that outlives its request's future and runs out of
  memory makes `cleanup_bucket` use a descriptor that was closed with the future. If
  it was given to another client meanwhile, that client gets the error response.
* `executor_set`: a connection that runs out of memory while its request waits for
  its response wakes the request as it is dropped. The future is dropped next and
  the count set to 0, but the job stays. The worker takes it and locks the empty
  place while the accept loop is putting the next request there: the
  `try_lock().unwrap()` of `set` (`executor.rs:577`) panics. In other orders the
  count of the new request is lost, and the assertion in `set` fails later. With a third client the memory
  of the bucket is wiped under a live future. A future that waits for its socket
  and a response at once (`MaxAwaits` 2) leaves such a job behind without any
  fault, when it completes because of one while the reactor has taken the waker
  of the other; `executor_all` includes these, and all it claims is that the count
  stays a `u8` and that no worker meets a reserved slot.
* `allocator_system`: the workers are spawned and connections are accepted; the
  main thread then allocates what fits the static arena but not what is left of
  it, and gets it from the system allocator. All layouts of this run are
  supported (`FittingLayouts`), so only the exhaustion of the arena can be the cause.
  Nothing is ever freed in the static arena, so whatever the main thread or the
  reactor allocates while the server runs (the reactor's own lists, when its
  thread gets going late) adds up.

Two comments in `queue.rs` are out of date, without consequences: lines 298-299 say
that a bucket is marked before it is counted (it is counted first, and that is
why `NoPanic` holds), and line 184 that `initial_enqueue` must not be used to
wake a task (`wake` does). The debug assertion at `reactor.rs:93`, that a source's
place is free when a stream is registered, fails after a stream was lost; in a
release build the new source replaces the old one, and `ReadinessNotLost` and
`NoWakerWhileTriggered` hold across that.

## Proofs

`tlapm` checks the proofs in `QueueProofs`, `AllocatorProofs`, `ExecutorProofs`,
`ReactorProofs` and `IndexProofs`. They hold for every value of the constants that satisfies the named
assumptions of the modules.

*Queue* (`QueueAssumption`: finitely many threads, at most 64 jobs per bucket, a
counter that can count all threads and buckets). The properties are not inductive
one by one. `QueueInv` adds that a worker holding a bucket finds `IN_PROGRESS` set
(`HeldIsInProgress`), from which exclusion follows; that the second round of
`done_with_bucket` finds both flags set (`RetryFindsBoth`), because only an enqueue
can upset the first round and only the holder clears `ENQUEUED`: so two rounds are
enough; that nobody takes a job between the two accesses of `dequeue`
(`TakeFindsJob`); and that a worker about to give up a bucket for now has missed
nothing (`ForNowMissesNothing`). `CountExact` shows that the counter cannot
underflow; `WorkConserving` is proved by comparing cardinalities over each step.
Theorems: `QueueTypeCorrect`, `QueueInvariant`, `Exclusion`, `NeverPanics`,
`WorkIsConserved`, `InputJobAttended`, `CountIsExact`, `NoJobAbandoned`, and
`QueueImplementsWorkQueue`, step by step under the mapping `Owed`, `Announced`,
`Holders`.

*Allocator* (`AllocatorAssumption`: arenas do not overlap and begin at multiples of
the largest alignment, which the supported ones divide). Everything rests on
`FreeBelowRemaining`: no live block is below `remaining`. A successful
compare-exchange puts the new block exactly between the new and the old value.
Theorems: `AllocatorTypeCorrect`, `AllocatorInvariant`, `AllocationsDisjoint`, `AllocationsInBounds`,
`AllocationsAligned`, `RemainingIsFree`.

*Executor* (`ExecutorAssumption`: finitely many threads, clients and descriptors, at
most 63 connections per bucket, fewer than a `u8` counts). There are two inductive
invariants, both in `ExecutorInv`.

`WorkerInv` holds under all faults and for futures that wait for any number of
things. Beyond the types it says that a bucket has one worker (`OneHolder`, from
the rules of `WorkQueue`) and that a slot is reserved only while that worker is
inside `handshake` or about to empty it (`ReservedInside`); hence no worker polls a
reserved slot. Theorems: `ExecutorTypeCorrect`, `WorkerInvAlways`,
`ExecutorNoWorkerDies`, and `ExecutorUsesQueue`.

`OrdinaryInv` holds in the ordinary case and adds two parts.

* `TaskInv`: a future has exactly one wake-up (`OneWakeUp`), which the accept loop
  makes, the queue holds, a worker takes, and the reactor or a connection keeps
  until it goes back to the queue; it ends with the future. The sum over the six
  places where it can be is what makes this inductive: a step moves the wake-up
  from one place to the next, and none makes a second one. Together
  with `OneResponse` and `ConnectionsHeard`, which say the same of connections with
  *at least one*, nothing is lost and nothing late remains. `Counted` is
  `RefcountExact` with what it needs: while a bucket is taken down its count is
  only known to be positive (a `handshake` that finds no slot has counted one too
  many), and a bucket that was claimed has count 1 and is not being taken down. It
  is proved by cardinalities, and since the tasks of a bucket are among its offsets
  the `u8` does not wrap around. `JobsSeen` says that the job of a live task is in a
  bucket that is announced, about to be, or attended: a task begins inside its
  bucket or before its bucket is announced, a job is posted together with the
  duty to announce it, and a worker leaves a bucket for good only when no task is
  left. `set` never replaces a future (`main` is never `occupied`).
* `DescriptorInv`: a request is in one place, in a bucket or with the accept loop,
  and its descriptor is in the same place until it is closed; between `Set` and
  `StoreFd` the request is in the bucket and the descriptor still with the
  accept loop (`Carrying`). Every open
  descriptor belongs to somebody, so with more descriptors than buckets one is free
  whenever the accept loop needs it (a pigeonhole argument).

Every action concerns one bucket; frame lemmas carry the invariant over for the
others, so a step is examined at its own bucket only, one lemma per action.
Theorems, all with the hypothesis `Ordinary`: `ExecutorInvariant`,
`ExecutorRefcountExact`, `ExecutorNoInputStreamRace`, `ExecutorNoTaskForgotten`,
`ExecutorFreeIsQuiet`, `ExecutorOwnDescriptor`, `ExecutorOnlyThatRequestCancelled`,
`ExecutorUsesReactor` and `ExecutorMainNeverPanics`. The last also assumes that no
client is gone when it is turned away, and more descriptors than buckets. The
hypotheses are needed: the findings `executor_cancel` and `executor_set` are
counterexamples for a connection that fails, `shutdown().unwrap()` is one for
`reset`, and a future that waits for two things leaves a wake-up behind.

*Reactor* (any number of indices). `ReactorInv` adds that `poll_io` owns the mutex
from its first look at the flag to its last and that the flag does not change
meanwhile (`Critical`), that a socket outside epoll has no events
(`Unregistered`), that a pending task has left a waker that is still somewhere
(`Remembered`), and that an ordinary future has at most one wake-up at any time
(`OneWakeUp`). Every action but `poll.poll` concerns one index, so the invariant is
split into a part per index (`Local`) and a step is only examined at its own
(`Elsewhere` covers the rest). Theorems: `ReactorInvariant`, `ReadinessKept`,
`WakeUpComes`, `NoLateWakeUp`, `SourceAlwaysInPlace`, `NoWakerLeftBehind`, and
`ReactorImplementsWakerStore`: under the mapping that forgets directions every step
of the reactor leaves, takes or calls one waker, drops those of a stream, or
stutters. `OneWakeUp` is
what makes `Take` of an ordinary future leave nothing behind.

*Index* (`IndexAssumption`: all queue indices fit in a `u32`): `FutureIsFound`,
`ConnectionIsFound`, `RangesAreDisjoint`, `WordsAreFaithful`, from the uniqueness of
quotient and remainder (`Decompose`); and from these the invariants of the run,
`EveryTaskFound`, `ConnectionsApart` and `WordsKeepIndices`, since the run's
inputs never leave the configuration (`AlwaysInRange`).

Only model-checked: liveness (`InputJobServed`, `ReadyIsServed`,
`AllServedInTheEnd`), since the proof system does not reason about fairness. Every
other property of a passing run is also a theorem.

## Not modelled

* `setjmp`/`longjmp` as code (assembly): modelled by its effects, a return to
  `run_bucket` and streams that are never dropped.
* other failures of system calls: `stream.unwrap()` and `set_nonblocking().unwrap()`
  in the accept loop, `register(..).unwrap()`, which end the thread as `reset` does
  for `shutdown().unwrap()`; and epoll itself failing;
* an allocation that fails inside `cleanup_bucket`, while connections or the future
  are dropped: `longjmp` would enter `run_bucket` once more with a guard that was
  used and values half destroyed, and repeat the cleanup with a closed descriptor.
  What dropping them again does is undefined;
* the branch of `alloc` for `ARENA_INDEX_UNINITIALIZED`, which no thread has, and
  `roc_alloc` outside of a bucket, which its contract excludes;
* timeouts: the code has none;
* `config.rs` (reads a file; its values are the constants), `log`, `runner`, the
  examples and the benchmarks (handlers, the environment of `Executor`);
* `shared/src/indexer.rs`, which nothing uses; `roc_std`, which is vendored.

## Plan

Done: the queue with its refinement and proofs, the allocator with its proofs, the
reactor with lost streams, its refinement and proofs, the indices with their
proofs, and the executor with the accept loop on the two abstract specifications,
with its faults and its liveness.

The executor's invariants are proved, under all faults or in the ordinary case.

Left: the compositions are proved in their two halves (`Queue` implements
`WorkQueue`, `Executor` uses it, and the same for `Reactor` and `WakerStore`), not as
one specification with the queue's single accesses inside the executor.
