--------------------------- MODULE AllocatorProofs --------------------------
(***************************************************************************)
(* Proofs about Allocator, for arenas, sizes and alignments of any size    *)
(* and any number of workers and buckets.                                  *)
(***************************************************************************)
EXTENDS Allocator, TLAPS

----------------------------------------------------------------------------
(* Arithmetic. *)

\* A number is a quotient, a divisor and a remainder.
LEMMA DivMod ==
  ASSUME NEW x \in Nat, NEW d \in Nat \ {0}
  PROVE  /\ x \div d \in Nat /\ x % d \in 0 .. d - 1
         /\ x = d * (x \div d) + (x % d)
  BY Z3

\* A multiple of the divisor leaves nothing.
LEMMA MultipleMod ==
  ASSUME NEW q \in Nat, NEW d \in Nat \ {0}
  PROVE  (q * d) % d = 0
  BY Z3

\* Rounding down goes down, and to a multiple of the alignment.
LEMMA RoundDownFacts ==
  ASSUME NEW x \in Nat, NEW d \in Nat \ {0}
  PROVE  RoundDown(x, d) \in 0 .. x /\ RoundDown(x, d) % d = 0
<1>1. RoundDown(x, d) % d = 0
  BY DivMod, MultipleMod DEF RoundDown
<1>2. x \div d \in Nat /\ x % d \in Nat /\ x = d * (x \div d) + (x % d)
  BY DivMod
<1>3. d * (x \div d) \in Nat /\ d * (x \div d) = (x \div d) * d
  BY <1>2
<1>4. QED
  BY <1>1, <1>2, <1>3 DEF RoundDown

\* What a divisor divides, its divisors divide.
LEMMA DividesTrans ==
  ASSUME NEW x \in Nat, NEW y \in Nat, NEW m \in Nat \ {0}, NEW d \in Nat \ {0},
         x % m = 0, m % d = 0, y % d = 0
  PROVE  (x + y) % d = 0
<1> DEFINE i == x \div m
           j == m \div d
           k == y \div d
<1>1. i \in Nat /\ j \in Nat /\ k \in Nat /\ x = m * i /\ m = d * j /\ y = d * k
  BY DivMod
<1>2. x + y = (j * i + k) * d /\ j * i + k \in Nat
  <2> HIDE DEF i, j, k
  <2>1. x = (d * j) * i
    BY <1>1
  <2>2. j * i \in Nat
    BY <1>1
  <2>3. QED
    BY <1>1, <2>1, <2>2, Z3
<1>3. QED
  <2> HIDE DEF i, j, k
  <2>1. ((j * i + k) * d) % d = 0
    BY <1>2, MultipleMod
  <2>2. QED
    BY <1>2, <2>1
----------------------------------------------------------------------------
(* The arenas. *)

\* A product grows with its factor.
LEMMA ProductMonotone ==
  ASSUME NEW i \in Nat, NEW j \in Nat, NEW s \in Nat, i < j
  PROVE  i * s \in Nat /\ j * s \in Nat /\ i * s + s <= j * s
<1>1. PICK k \in Nat : j = i + 1 + k
  <2>1. j - i - 1 \in Nat /\ j = i + 1 + (j - i - 1)
    OBVIOUS
  <2>2. QED
    BY <2>1
<1>2. k * s \in Nat /\ i * s \in Nat
  OBVIOUS
<1>3. j * s = i * s + s + k * s
  BY <1>1
<1>4. QED
  BY <1>2, <1>3

\* Every arena begins at a multiple of the largest alignment.
LEMMA StartFacts ==
  ASSUME NEW a \in Arenas
  PROVE  Start(a) \in Nat /\ Size(a) \in Nat /\ Start(a) % MAX_SUPPORTED_ALIGN = 0
<1>1. CASE a = INITIAL
  BY <1>1, AllocatorAssumption DEF Start, Size
<1>2. CASE a # INITIAL
  <2> DEFINE M == MAX_SUPPORTED_ALIGN
             k == bucket_size \div M
  <2>1. a \in Nat /\ a # INITIAL /\ Start(a) = mmap_start + a * bucket_size
    BY <1>2, AllocatorAssumption DEF Arenas, Buckets, Start, INITIAL
  <2>2. bucket_size = M * k /\ k \in Nat
    BY DivMod, AllocatorAssumption
  <2>3. a * bucket_size = (a * k) * M /\ a * k \in Nat
    <3> HIDE DEF k
    <3>1. QED
      BY <2>1, <2>2, AllocatorAssumption
  <2>4. (a * bucket_size) % M = 0 /\ a * bucket_size \in Nat
    BY <2>1, <2>3, MultipleMod, AllocatorAssumption
  <2>5. M % M = 0
    BY AllocatorAssumption, MultipleMod
  <2>6. (mmap_start + a * bucket_size) % M = 0
    BY <2>4, <2>5, DividesTrans, AllocatorAssumption
  <2>7. QED
    BY <1>2, <2>1, <2>4, <2>6, AllocatorAssumption DEF Size
<1>3. QED
  BY <1>1, <1>2

\* Different arenas do not overlap.
LEMMA ArenasApart ==
  ASSUME NEW a \in Arenas, NEW c \in Arenas, a # c
  PROVE  Start(a) + Size(a) <= Start(c) \/ Start(c) + Size(c) <= Start(a)
<1>1. ASSUME NEW i \in Buckets
      PROVE  /\ i \in Nat /\ i # INITIAL
             /\ Start(i) = mmap_start + i * bucket_size
             /\ Size(i) = bucket_size
             /\ i * bucket_size \in Nat
             /\ i * bucket_size + bucket_size <= bucket_count * bucket_size
  <2>1. i \in Nat /\ i < bucket_count
    BY AllocatorAssumption DEF Buckets
  <2>2. QED
    BY <2>1, ProductMonotone, AllocatorAssumption DEF Start, Size, INITIAL
<1>2. ASSUME NEW i \in Buckets, NEW j \in Buckets, i < j
      PROVE  Start(i) + Size(i) <= Start(j)
  BY <1>1, <1>2, ProductMonotone, AllocatorAssumption
<1>3. ASSUME NEW i \in Buckets
      PROVE  \/ Start(INITIAL) + Size(INITIAL) <= Start(i)
             \/ Start(i) + Size(i) <= Start(INITIAL)
  <2>1. bucket_count * bucket_size \in Nat
    BY AllocatorAssumption
  <2>2. QED
    BY <1>1, <2>1, AllocatorAssumption DEF Start, Size
<1>4. CASE a \in Buckets /\ c \in Buckets
  BY <1>1, <1>2, <1>4
<1>5. QED
  BY <1>3, <1>4 DEF Arenas

----------------------------------------------------------------------------
(* The invariant. *)

\* The values of CURRENT_ARENA that are not buckets are distinct from those
\* that are.
LEMMA ArenaIndices ==
  /\ ARENA_INDEX_BEFORE_MAIN \notin Buckets
  /\ ARENA_INDEX_EXECUTOR \notin Buckets
  /\ ARENA_INDEX_REACTOR \notin Buckets
  /\ INITIAL \in Arenas /\ Buckets \subseteq Arenas /\ INITIAL \notin Buckets
  BY AllocatorAssumption
     DEF ARENA_INDEX_BEFORE_MAIN, ARENA_INDEX_EXECUTOR, ARENA_INDEX_REACTOR, INITIAL,
         Arenas, Buckets

\* Init establishes the invariant.
LEMMA InvInit == Init => AllocatorInv
<1> SUFFICES ASSUME Init PROVE AllocatorInv
  OBVIOUS
<1>1. \A a \in Arenas : Size(a) \in Nat
  BY StartFacts
<1>2. TypeOK
  BY <1>1 DEF Init, TypeOK
<1>3. Consistent
  BY <1>1 DEF Init, Consistent
<1>4. InBounds /\ Aligned /\ FreeBelowRemaining /\ Disjoint
  BY DEF Init, InBounds, Aligned, FreeBelowRemaining, Disjoint
<1>5. QED
  BY <1>2, <1>3, <1>4 DEF AllocatorInv

\* A step that leaves memory alone keeps what the invariant says about it.
LEMMA MemoryUnchanged ==
  ASSUME AllocatorInv, UNCHANGED <<remaining, blocks>>
  PROVE  InBounds' /\ Aligned' /\ FreeBelowRemaining' /\ Disjoint'
  BY DEF AllocatorInv, InBounds, Aligned, FreeBelowRemaining, Disjoint

\* A new block below everything else in its arena keeps it too.
LEMMA BlockAdded ==
  ASSUME AllocatorInv, NEW t \in Threads, pc[t] = "update",
         Fits(layout[t].size, seen[t]), seen[t] = remaining[ArenaOf(t)],
         NEW new, new = RoundDown(seen[t] - layout[t].size, layout[t].align),
         NEW n, n = [owner |-> t, arena |-> ArenaOf(t), address |-> Start(ArenaOf(t)) + new,
                     size |-> layout[t].size, align |-> layout[t].align],
         remaining' = [remaining EXCEPT ![ArenaOf(t)] = new],
         blocks' = blocks \cup {n}
  PROVE  /\ new \in Nat /\ new <= remaining[ArenaOf(t)] /\ n \in Blocks
         /\ InBounds' /\ Aligned' /\ FreeBelowRemaining' /\ Disjoint'
<1> DEFINE a == ArenaOf(t)
           l == layout[t]
<1>1. a \in Arenas
  BY ArenaIndices DEF ArenaOf, Arenas
<1>2. Start(a) \in Nat /\ Size(a) \in Nat /\ Start(a) % MAX_SUPPORTED_ALIGN = 0
  BY <1>1, StartFacts
<1>3. /\ l.size \in Nat /\ l.align \in Nat \ {0}
      /\ MAX_SUPPORTED_ALIGN % l.align = 0
  BY AllocatorAssumption DEF AllocatorInv, Consistent
<1>4. /\ remaining[a] \in Nat /\ remaining[a] <= Size(a)
      /\ seen[t] - l.size \in Nat
  BY <1>1, <1>3 DEF AllocatorInv, TypeOK, Consistent, Fits
<1>5. new \in 0 .. (seen[t] - l.size) /\ new % l.align = 0
  BY <1>3, <1>4, RoundDownFacts
<1>6. new \in Nat /\ new + l.size <= remaining[a]
  BY <1>3, <1>4, <1>5
<1>7. n.arena = a /\ n.address = Start(a) + new /\ n.size = l.size /\ n.align = l.align
  OBVIOUS
<1>8. n \in Blocks
  BY <1>1, <1>2, <1>3, <1>6 DEF Blocks
<1>9. blocks \subseteq Blocks
  BY DEF AllocatorInv, TypeOK
<1> HIDE DEF a, l
<1>10. InBounds'
  BY <1>2, <1>3, <1>4, <1>6, <1>7 DEF AllocatorInv, InBounds, End
<1>11. n.address % n.align = 0
  <2>1. MAX_SUPPORTED_ALIGN \in Nat \ {0}
    BY AllocatorAssumption
  <2>2. (Start(a) + new) % l.align = 0
    BY <1>2, <1>3, <1>5, <1>6, <2>1, DividesTrans
  <2>3. QED
    BY <1>7, <2>2
<1>12. Aligned'
  BY <1>11 DEF AllocatorInv, Aligned
<1>13. remaining'[a] = new /\ \A c \in Arenas \ {a} : remaining'[c] = remaining[c]
  BY <1>1 DEF AllocatorInv, TypeOK, a
<1>14. FreeBelowRemaining'
  <2> SUFFICES ASSUME NEW m \in blocks'
               PROVE  Start(m.arena) + remaining'[m.arena] <= m.address
    BY DEF FreeBelowRemaining
  <2>1. CASE m = n
    BY <1>2, <1>6, <1>7, <1>13, <2>1
  <2>2. CASE m \in blocks
    <3>1. /\ m.arena \in Arenas /\ m.address \in Int
          /\ Start(m.arena) + remaining[m.arena] <= m.address
      BY <1>9, <2>2 DEF AllocatorInv, FreeBelowRemaining, Blocks
    <3>2. remaining[m.arena] \in Nat /\ Start(m.arena) \in Nat
      BY <3>1, StartFacts DEF AllocatorInv, TypeOK
    <3>3. remaining'[m.arena] \in Nat /\ remaining'[m.arena] <= remaining[m.arena]
      BY <1>3, <1>4, <1>6, <1>13, <3>1, <3>2
    <3>4. QED
      BY <3>1, <3>2, <3>3
  <2>3. QED
    BY <2>1, <2>2
<1>15. Disjoint'
  <2>1. ASSUME NEW m \in blocks
        PROVE  End(m) <= n.address \/ End(n) <= m.address
    <3>1. /\ m.arena \in Arenas /\ m.address \in Int /\ m.size \in Nat
          /\ Start(m.arena) + remaining[m.arena] <= m.address
          /\ Start(m.arena) <= m.address
          /\ m.address + m.size <= Start(m.arena) + Size(m.arena)
      BY <1>9 DEF AllocatorInv, FreeBelowRemaining, InBounds, End, Blocks
    <3>2. CASE m.arena = a
      BY <1>2, <1>3, <1>4, <1>6, <1>7, <3>1, <3>2 DEF End
    <3>3. CASE m.arena # a
      <4>1. \/ Start(m.arena) + Size(m.arena) <= Start(a)
            \/ Start(a) + Size(a) <= Start(m.arena)
        BY <1>1, <3>1, <3>3, ArenasApart
      <4>2. Start(m.arena) \in Nat /\ Size(m.arena) \in Nat
        BY <3>1, StartFacts
      <4>3. QED
        BY <1>2, <1>3, <1>4, <1>6, <1>7, <3>1, <4>1, <4>2 DEF End
    <3>4. QED
      BY <3>2, <3>3
  <2>2. QED
    BY <2>1 DEF AllocatorInv, Disjoint
<1>16. QED
  BY <1>3, <1>4, <1>6, <1>8, <1>10, <1>12, <1>14, <1>15 DEF a

\* Wiping a bucket keeps the invariant.
LEMMA BlocksRemoved ==
  ASSUME AllocatorInv, NEW a \in Arenas,
         remaining' = [remaining EXCEPT ![a] = Size(a)],
         blocks' = {m \in blocks : m.arena # a}
  PROVE  InBounds' /\ Aligned' /\ FreeBelowRemaining' /\ Disjoint'
<1>1. \A m \in blocks' : m \in blocks /\ m.arena # a /\ m.arena \in Arenas
  BY DEF AllocatorInv, TypeOK, Blocks
<1>2. \A m \in blocks' : remaining'[m.arena] = remaining[m.arena]
  BY <1>1 DEF AllocatorInv, TypeOK
<1>3. QED
  BY <1>1, <1>2 DEF AllocatorInv, InBounds, Aligned, FreeBelowRemaining, Disjoint

\* Every step preserves the invariant.
LEMMA InvNext == AllocatorInv /\ [Next]_vars => AllocatorInv'
<1> SUFFICES ASSUME AllocatorInv, [Next]_vars PROVE AllocatorInv'
  OBVIOUS
<1> DEFINE Rest == TypeOK /\ Consistent
           Memory == InBounds /\ Aligned /\ FreeBelowRemaining /\ Disjoint
<1>0. /\ AllocatorInv <=> Rest /\ Memory
      /\ AllocatorInv' <=> Rest' /\ Memory'
      /\ UNCHANGED <<remaining, blocks>> => Memory'
  BY MemoryUnchanged DEF AllocatorInv
<1> USE ArenaIndices DEF TypeOK, Consistent
<1>1. CASE InitializeBuckets
  BY <1>0, <1>1 DEF InitializeBuckets
<1>2. CASE EnterExecutor
  BY <1>0, <1>2, AllocatorAssumption DEF EnterExecutor, Threads
<1>3. CASE EnterReactor
  BY <1>0, <1>3, AllocatorAssumption DEF EnterReactor, Threads
<1>3a. CASE Listen
  BY <1>0, <1>3a DEF Listen
<1>4. ASSUME NEW w \in Workers, NEW b \in Buckets, EnterBucket(w, b) PROVE AllocatorInv'
  BY <1>0, <1>4 DEF EnterBucket, Threads
<1>5. ASSUME NEW w \in Workers, LeaveBucket(w) PROVE AllocatorInv'
  BY <1>0, <1>5 DEF LeaveBucket
<1>6. ASSUME NEW w \in Workers, ClearBucket(w) PROVE AllocatorInv'
  <2>1. arena[w] \in Arenas /\ Size(arena[w]) \in Nat
    BY <1>0, <1>6, StartFacts DEF ClearBucket
  <2>2. Memory'
    BY <1>6, <2>1, BlocksRemoved DEF ClearBucket
  <2>3. Rest'
    BY <1>0, <1>6, <2>1 DEF ClearBucket, Threads
  <2>4. QED
    BY <1>0, <2>2, <2>3
<1>7. ASSUME NEW t \in Threads, NEW l \in Layouts, Alloc(t, l) PROVE AllocatorInv'
  <2>1. l.align \in Nat
    BY AllocatorAssumption
  <2>2. CASE l.align > MAX_SUPPORTED_ALIGN
    BY <1>0, <1>7, <2>2 DEF Alloc, Fail
  <2>3. CASE ~(l.align > MAX_SUPPORTED_ALIGN)
    <3>1. l.align <= MAX_SUPPORTED_ALIGN
      BY <2>1, <2>3, AllocatorAssumption
    <3>2. QED
      BY <1>0, <1>7, <2>3, <3>1 DEF Alloc
  <2>4. QED
    BY <2>2, <2>3
<1>8. ASSUME NEW t \in Threads, Load(t) PROVE AllocatorInv'
  BY <1>0, <1>8 DEF Load, ArenaOf
<1>9. ASSUME NEW t \in Threads, Update(t) PROVE AllocatorInv'
  <2> DEFINE a == ArenaOf(t)
             l == layout[t]
             new == RoundDown(seen[t] - l.size, l.align)
  <2>1. CASE ~Fits(l.size, seen[t])
    <3>1. /\ UNCHANGED <<remaining, blocks, buckets, arena, running, serving>>
          /\ Fail(t)
          /\ seen' = [seen EXCEPT ![t] = 0]
      BY <1>9, <2>1 DEF Update
    <3>2. QED
      BY <1>0, <3>1 DEF Fail
  <2>2. CASE Fits(l.size, seen[t]) /\ ~Exchanges(seen[t], remaining[a])
    BY <1>0, <1>9, <2>2 DEF Update, ArenaOf
  <2>3. CASE Fits(l.size, seen[t]) /\ Exchanges(seen[t], remaining[a])
    <3> DEFINE n == [owner |-> t, arena |-> a, address |-> Start(a) + new,
                     size |-> l.size, align |-> l.align]
    <3>1. /\ pc[t] = "update" /\ seen[t] = remaining[a]
          /\ remaining' = [remaining EXCEPT ![a] = new]
          /\ blocks' = blocks \cup {n}
          /\ pc' = [pc EXCEPT ![t] = "idle"]
          /\ layout' = [layout EXCEPT ![t] = NoLayout]
          /\ seen' = [seen EXCEPT ![t] = 0]
          /\ UNCHANGED <<buckets, arena, running, serving, system>>
      BY <1>9, <2>3 DEF Update, Exchanges
    <3>2. new \in Nat /\ new <= remaining[a] /\ n \in Blocks /\ Memory'
      BY <2>3, <3>1, BlockAdded
    <3>3. a \in Arenas /\ remaining[a] \in Nat /\ remaining[a] <= Size(a) /\ Size(a) \in Nat
      BY <1>0, StartFacts DEF ArenaOf
    <3> HIDE DEF a, l, new, n
    <3>4. Rest'
      BY <1>0, <3>1, <3>2, <3>3
    <3>5. QED
      BY <1>0, <3>2, <3>4
  <2>4. QED
    BY <2>1, <2>2, <2>3
<1>10. CASE UNCHANGED vars
  BY <1>0, <1>10 DEF vars
<1>11. QED
  BY <1>1, <1>2, <1>3, <1>3a, <1>4, <1>5, <1>6, <1>7, <1>8, <1>9, <1>10 DEF Next

\* The invariant holds in every reachable state.
THEOREM AllocatorInvariant == Spec => []AllocatorInv
  BY InvInit, InvNext, PTL DEF Spec

\* The allocator's variables keep their types: in particular no thread's view
\* of an arena, and no arena's remaining space, drops below zero.
THEOREM AllocatorTypeCorrect == Spec => []TypeOK
<1>1. AllocatorInv => TypeOK
  BY DEF AllocatorInv
<1>2. QED
  BY <1>1, AllocatorInvariant, PTL

\* No two live allocations overlap.
THEOREM AllocationsDisjoint == Spec => []Disjoint
<1>1. AllocatorInv => Disjoint
  BY DEF AllocatorInv
<1>2. QED
  BY <1>1, AllocatorInvariant, PTL

\* Every live allocation is inside its arena.
THEOREM AllocationsInBounds == Spec => []InBounds
<1>1. AllocatorInv => InBounds
  BY DEF AllocatorInv
<1>2. QED
  BY <1>1, AllocatorInvariant, PTL

\* Every live allocation is aligned as it was asked, in the address space and
\* not only within its arena.
THEOREM AllocationsAligned == Spec => []Aligned
<1>1. AllocatorInv => Aligned
  BY DEF AllocatorInv
<1>2. QED
  BY <1>1, AllocatorInvariant, PTL

\* remaining is never below zero, and never runs ahead of a block that another
\* thread has just been given.
THEOREM RemainingIsFree == Spec => [](TypeOK /\ FreeBelowRemaining)
<1>1. AllocatorInv => TypeOK /\ FreeBelowRemaining
  BY DEF AllocatorInv
<1>2. QED
  BY <1>1, AllocatorInvariant, PTL
=============================================================================
