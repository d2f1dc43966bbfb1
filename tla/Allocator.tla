----------------------------- MODULE Allocator ------------------------------
(***************************************************************************)
(* The global allocator (shared/src/allocator.rs and the GlobalAlloc of    *)
(* nea/src/lib.rs).                                                        *)
(*                                                                         *)
(* Memory comes from fixed arenas: a static one that serves everything     *)
(* outside a request, and one per bucket, all cut from a single mmap.  An  *)
(* arena hands out memory from its top downwards; `remaining' is the       *)
(* offset below which it is free.  Nothing is freed, except that a bucket  *)
(* is wiped as a whole.  Threads choose their arena with CURRENT_ARENA.    *)
(*                                                                         *)
(* An allocation is the loop of AtomicUsize::fetch_update: a load, and     *)
(* then compare_exchanges until one succeeds or the block does not fit.    *)
(***************************************************************************)
EXTENDS Integers

CONSTANTS
  Main, Reactor, Workers,   \* the threads
  bucket_count,
  bucket_size,
  INITIAL_ARENA_SIZE,
  MAX_SUPPORTED_ALIGN,
  U32_MAX,
  initial_arena,            \* address of the static arena
  mmap_start,               \* address returned by mmap
  Layouts                   \* the std::alloc::Layouts that are requested

Threads == {Main, Reactor} \cup Workers
Buckets == 0 .. bucket_count - 1

\* Values of CURRENT_ARENA that do not name a bucket.
ARENA_INDEX_BEFORE_MAIN == U32_MAX
ARENA_INDEX_EXECUTOR == U32_MAX - 1
ARENA_INDEX_REACTOR == U32_MAX - 2
ARENA_INDEX_UNINITIALIZED == U32_MAX - 3

\* The static arena, as opposed to the arena of a bucket.
INITIAL == -1
Arenas == Buckets \cup {INITIAL}

Size(a) == IF a = INITIAL THEN INITIAL_ARENA_SIZE ELSE bucket_size

\* Mutant: one bucket begins in the last unit of the one before it.
Start_Short(a) ==
  IF a = INITIAL THEN initial_arena ELSE mmap_start + a * (bucket_size - MAX_SUPPORTED_ALIGN)

\* Bucket::start and the address of the static arena.
Start(a) == IF a = INITIAL THEN initial_arena ELSE mmap_start + a * bucket_size

ASSUME AllocatorAssumption ==
  /\ bucket_count \in Nat /\ bucket_size \in Nat /\ INITIAL_ARENA_SIZE \in Nat
  /\ U32_MAX \in Nat /\ bucket_count <= U32_MAX - 3
  /\ initial_arena \in Nat /\ mmap_start \in Nat
  /\ Main # Reactor /\ Main \notin Workers /\ Reactor \notin Workers
  \* The arenas begin at page boundaries and do not overlap.
  /\ MAX_SUPPORTED_ALIGN \in Nat \ {0}
  /\ initial_arena % MAX_SUPPORTED_ALIGN = 0
  /\ mmap_start % MAX_SUPPORTED_ALIGN = 0
  /\ bucket_size % MAX_SUPPORTED_ALIGN = 0
  /\ \/ initial_arena + INITIAL_ARENA_SIZE <= mmap_start
     \/ mmap_start + bucket_count * bucket_size <= initial_arena
  \* Alignments are powers of two, so the supported ones divide the largest.
  /\ \A l \in Layouts :
       /\ l.size \in Nat
       /\ l.align \in Nat \ {0}
       /\ l.align <= MAX_SUPPORTED_ALIGN => MAX_SUPPORTED_ALIGN % l.align = 0

VARIABLES
  buckets,    \* whether initialize_buckets has been called
  arena,      \* CURRENT_ARENA of each thread
  running,    \* whether a worker is running the bucket its arena names
  remaining,  \* Bucket::remaining and initial_arena_remaining
  pc,         \* where each thread is in an allocation
  layout,     \* the layout a thread is allocating
  seen,       \* the value of remaining that fetch_update works with
  blocks,     \* the live allocations: whose, where, how big, how aligned
  serving,    \* whether start-up is over and connections are accepted
  system      \* whether memory was taken from std::alloc::System since then

vars == <<buckets, arena, running, remaining, pc, layout, seen, blocks, serving, system>>

\* What a thread has in layout while it is not allocating.
NoLayout == [size |-> 0, align |-> 1]

Init ==
  /\ buckets = FALSE
  /\ arena = [t \in Threads |-> ARENA_INDEX_BEFORE_MAIN]
  /\ running = [w \in Workers |-> FALSE]
  /\ remaining = [a \in Arenas |-> Size(a)]
  /\ pc = [t \in Threads |-> "idle"]
  /\ layout = [t \in Threads |-> NoLayout]
  /\ seen = [t \in Threads |-> 0]
  /\ blocks = {}
  /\ serving = FALSE
  /\ system = FALSE

----------------------------------------------------------------------------
(* Which arena a thread allocates in. *)

\* initialize_buckets, by run_request_handler before there are threads.
InitializeBuckets ==
  /\ ~buckets
  /\ pc[Main] = "idle"
  /\ buckets' = TRUE
  /\ UNCHANGED <<arena, running, remaining, pc, layout, seen, blocks, serving, system>>

\* Executor::get_or_init
EnterExecutor ==
  /\ buckets
  /\ arena[Main] = ARENA_INDEX_BEFORE_MAIN
  /\ pc[Main] = "idle"
  /\ arena' = [arena EXCEPT ![Main] = ARENA_INDEX_EXECUTOR]
  /\ UNCHANGED <<buckets, running, remaining, pc, layout, seen, blocks, serving, system>>

\* The reactor's and the workers' threads exist from here on.
Spawned(t) == t = Main \/ arena[Main] = ARENA_INDEX_EXECUTOR

\* Shared::run
EnterReactor ==
  /\ Spawned(Reactor)
  /\ arena[Reactor] = ARENA_INDEX_BEFORE_MAIN
  /\ pc[Reactor] = "idle"
  /\ arena' = [arena EXCEPT ![Reactor] = ARENA_INDEX_REACTOR]
  /\ UNCHANGED <<buckets, running, remaining, pc, layout, seen, blocks, serving, system>>

\* run_request_handler has spawned the workers and bound the listener: from
\* here on it accepts connections.
Listen ==
  /\ ~serving
  /\ arena[Main] = ARENA_INDEX_EXECUTOR
  /\ pc[Main] = "idle"
  /\ serving' = TRUE
  /\ UNCHANGED <<buckets, arena, running, remaining, pc, layout, seen, blocks, system>>

\* run_worker: a bucket is run by one worker at a time (see Queue).
EnterBucket(w, b) ==
  /\ Spawned(w)
  /\ ~running[w]
  /\ pc[w] = "idle"
  /\ \A v \in Workers : ~(running[v] /\ arena[v] = b)
  /\ arena' = [arena EXCEPT ![w] = b]
  /\ running' = [running EXCEPT ![w] = TRUE]
  /\ UNCHANGED <<buckets, remaining, pc, layout, seen, blocks, serving, system>>

\* The worker goes back to blocking_dequeue.  CURRENT_ARENA is not reset.
LeaveBucket(w) ==
  /\ running[w]
  /\ pc[w] = "idle"
  /\ running' = [running EXCEPT ![w] = FALSE]
  /\ UNCHANGED <<buckets, arena, remaining, pc, layout, seen, blocks, serving, system>>

\* clear_bucket, by the worker that runs the bucket: its tasks are gone, or
\* an allocation failed and cleanup_bucket drops them.
ClearBucket(w) ==
  /\ running[w]
  /\ pc[w] \in {"idle", "longjmp"}
  /\ remaining' = [remaining EXCEPT ![arena[w]] = Size(arena[w])]
  /\ blocks' = {m \in blocks : m.arena # arena[w]}
  /\ pc' = [pc EXCEPT ![w] = "idle"]
  /\ UNCHANGED <<buckets, arena, running, layout, seen, serving, system>>

----------------------------------------------------------------------------
(* Allocation. *)

\* The arena GlobalAlloc::alloc uses.  roc_alloc uses the same in a bucket,
\* and must not be called elsewhere.  No thread is ever given
\* ARENA_INDEX_UNINITIALIZED, so its branch has no counterpart here.
ArenaOf(t) == IF arena[t] \in Buckets THEN arena[t] ELSE INITIAL

\* What happens to a thread whose allocation failed: before main it gets a
\* null pointer; the executor and the reactor fall back on the system's
\* allocator; in a bucket roc_panic jumps back to run_bucket.
Fail(t) ==
  /\ pc' = [pc EXCEPT ![t] = IF arena[t] \in Buckets THEN "longjmp" ELSE "idle"]
  /\ system' = (system \/ (serving /\ arena[t] \in {ARENA_INDEX_EXECUTOR, ARENA_INDEX_REACTOR}))
  /\ layout' = [layout EXCEPT ![t] = NoLayout]

\* GlobalAlloc::alloc, roc_alloc and roc_realloc (which allocates anew and
\* copies) up to try_alloc_help's test of the alignment.  A worker does not
\* allocate between its buckets, but it may before its first.
Alloc(t, l) ==
  /\ Spawned(t)
  /\ pc[t] = "idle"
  /\ t \in Workers => running[t] \/ arena[t] = ARENA_INDEX_BEFORE_MAIN
  /\ IF l.align > MAX_SUPPORTED_ALIGN
     THEN Fail(t)
     ELSE /\ pc' = [pc EXCEPT ![t] = "load"]
          /\ layout' = [layout EXCEPT ![t] = l]
          /\ UNCHANGED system
  /\ UNCHANGED <<buckets, arena, running, remaining, seen, blocks, serving>>

\* The load with which fetch_update begins.
Load(t) ==
  /\ pc[t] = "load"
  /\ seen' = [seen EXCEPT ![t] = remaining[ArenaOf(t)]]
  /\ pc' = [pc EXCEPT ![t] = "update"]
  /\ UNCHANGED <<buckets, arena, running, remaining, layout, blocks, serving, system>>

\* Mutant: the offset is rounded up.
RoundDown_Up(offset, align) == ((offset + align - 1) \div align) * align

\* Mutant: the offset is not rounded at all.
RoundDown_None(offset, align) == offset

\* remaining &= !(align - 1), for an alignment that is a power of two.
RoundDown(offset, align) == (offset \div align) * align

\* Mutant: a block fits if anything remains.
Fits_NotFull(size, free) == free > 0

\* The closure's test: not size > remaining.
Fits(size, free) == size <= free

\* Mutant: a store in place of the compare_exchange.
Exchanges_Store(old, current) == TRUE

\* Whether compare_exchange, expecting old, succeeds.
Exchanges(old, current) == old = current

\* One round of fetch_update: the closure, and the compare_exchange.  The
\* address of the new block is that of the arena plus the new offset.
Update(t) ==
  LET a == ArenaOf(t)
      l == layout[t]
      new == RoundDown(seen[t] - l.size, l.align)
      free == remaining[a]
  IN
  /\ pc[t] = "update"
  /\ \/ /\ ~Fits(l.size, seen[t])
        /\ Fail(t)
        /\ seen' = [seen EXCEPT ![t] = 0]
        /\ UNCHANGED <<remaining, blocks>>
     \/ /\ Fits(l.size, seen[t])
        /\ Exchanges(seen[t], free)
        /\ remaining' = [remaining EXCEPT ![a] = new]
        /\ blocks' = blocks \cup
             {[owner |-> t, arena |-> a, address |-> Start(a) + new,
               size |-> l.size, align |-> l.align]}
        /\ pc' = [pc EXCEPT ![t] = "idle"]
        /\ layout' = [layout EXCEPT ![t] = NoLayout]
        /\ seen' = [seen EXCEPT ![t] = 0]
        /\ UNCHANGED system
     \/ /\ Fits(l.size, seen[t])
        /\ ~Exchanges(seen[t], free)
        /\ seen' = [seen EXCEPT ![t] = free]
        /\ UNCHANGED <<remaining, pc, layout, blocks, system>>
  /\ UNCHANGED <<buckets, arena, running, serving>>

----------------------------------------------------------------------------

Next ==
  \/ InitializeBuckets \/ EnterExecutor \/ EnterReactor \/ Listen
  \/ \E w \in Workers :
       LeaveBucket(w) \/ ClearBucket(w) \/ \E b \in Buckets : EnterBucket(w, b)
  \/ \E t \in Threads :
       Load(t) \/ Update(t) \/ \E l \in Layouts : Alloc(t, l)

Spec == Init /\ [][Next]_vars

----------------------------------------------------------------------------
(* Properties. *)

Blocks ==
  [owner : Threads, arena : Arenas, address : Int, size : Nat, align : Nat]

\* Every variable has its type.  In particular the subtraction in
\* try_alloc_help never takes remaining, a usize, below zero.
TypeOK ==
  /\ buckets \in BOOLEAN
  /\ arena \in [Threads -> Buckets \cup {ARENA_INDEX_BEFORE_MAIN, ARENA_INDEX_EXECUTOR,
                                         ARENA_INDEX_REACTOR}]
  /\ running \in [Workers -> BOOLEAN]
  /\ remaining \in [Arenas -> Nat]
  /\ pc \in [Threads -> {"idle", "load", "update", "longjmp"}]
  /\ layout \in [Threads -> Layouts \cup {NoLayout}]
  /\ seen \in [Threads -> Nat]
  /\ blocks \subseteq Blocks
  /\ serving \in BOOLEAN
  /\ system \in BOOLEAN

\* The bytes of a block: those from its address up to, not including, End.
End(m) == m.address + m.size

\* No two live allocations overlap, whichever arenas they are from.
Disjoint ==
  \A m, n \in blocks : m # n => End(m) <= n.address \/ End(n) <= m.address

\* Every live allocation lies inside its arena.
InBounds ==
  \A m \in blocks : Start(m.arena) <= m.address /\ End(m) <= Start(m.arena) + Size(m.arena)

\* Every live allocation has the alignment its layout asked for, as an
\* address and not only as an offset in its arena.
Aligned == \A m \in blocks : m.address % m.align = 0

\* Nothing is live below remaining, where the next block will go.
FreeBelowRemaining ==
  \A m \in blocks : Start(m.arena) + remaining[m.arena] <= m.address

\* What these rest on: a worker that runs a bucket has it as its arena, and
\* an allocation under way has an alignment that is supported.
Consistent ==
  /\ \A a \in Arenas : remaining[a] <= Size(a)
  /\ \A w \in Workers : running[w] => arena[w] \in Buckets
  /\ \A t \in Threads : pc[t] \in {"load", "update"} =>
       layout[t] \in Layouts /\ layout[t].align <= MAX_SUPPORTED_ALIGN

\* The inductive invariant of the proofs.
AllocatorInv ==
  TypeOK /\ Consistent /\ InBounds /\ Aligned /\ FreeBelowRemaining /\ Disjoint

\* "nea can perform just one (very large) allocation at startup, and
\* thereafter will not touch the system allocator again" (README.md): once
\* connections are accepted, no allocation is left to std::alloc::System.
SystemAllocatorUntouched == ~system
=============================================================================
