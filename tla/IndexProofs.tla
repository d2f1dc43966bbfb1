----------------------------- MODULE IndexProofs ----------------------------
(***************************************************************************)
(* Proofs about Index, for any number of buckets and connections whose     *)
(* queue indices fit in a u32.                                             *)
(***************************************************************************)
EXTENDS MCIndex, TLAPS

----------------------------------------------------------------------------
(* Arithmetic. *)

\* Quotient and remainder of a number that is given by both.
LEMMA Decompose ==
  ASSUME NEW q \in Nat, NEW d \in Nat \ {0}, NEW r \in 0 .. d - 1
  PROVE  (q * d + r) \div d = q /\ (q * d + r) % d = r
<1> DEFINE x == q * d + r
<1>1. x \in Nat /\ q * d \in Nat
  OBVIOUS
<1>2. /\ x \div d \in Nat /\ x % d \in 0 .. d - 1
      /\ x = d * (x \div d) + (x % d)
  <2> HIDE DEF x
  <2>1. QED
    BY <1>1, Z3
<1>3. x \div d = q
  <2>1. CASE x \div d < q
    <3>1. PICK k \in Nat : q = (x \div d) + 1 + k
      <4>1. q - (x \div d) - 1 \in Nat /\ q = (x \div d) + 1 + (q - (x \div d) - 1)
        BY <1>2, <2>1
      <4>2. QED
        BY <4>1
    <3>2. q * d = d * (x \div d) + d + k * d /\ k * d \in Nat
      BY <1>2, <3>1
    <3>3. QED
      BY <1>1, <1>2, <3>2
  <2>2. CASE x \div d > q
    <3>1. PICK k \in Nat : x \div d = q + 1 + k
      <4>1. (x \div d) - q - 1 \in Nat /\ x \div d = q + 1 + ((x \div d) - q - 1)
        BY <1>2, <2>2
      <4>2. QED
        BY <4>1
    <3>2. d * (x \div d) = q * d + d + k * d /\ k * d \in Nat
      BY <1>2, <3>1
    <3>3. QED
      BY <1>1, <1>2, <3>2
  <2>3. QED
    BY <1>2, <2>1, <2>2
<1>4. x % d = r
  BY <1>1, <1>2, <1>3
<1>5. QED
  BY <1>3, <1>4

\* A product grows with its factor.
LEMMA Monotone ==
  ASSUME NEW i \in Nat, NEW j \in Nat, NEW s \in Nat, i < j
  PROVE  i * s \in Nat /\ j * s \in Nat /\ i * s + s <= j * s
<1>1. PICK k \in Nat : j = i + 1 + k
  <2>1. j - i - 1 \in Nat /\ j = i + 1 + (j - i - 1)
    OBVIOUS
  <2>2. QED
    BY <2>1
<1>2. k * s \in Nat /\ i * s \in Nat /\ j * s = i * s + s + k * s
  BY <1>1
<1>3. QED
  BY <1>2

\* A number below the modulus stays what it is.
LEMMA ModSmall ==
  ASSUME NEW x \in Nat, NEW m \in Nat \ {0}, x < m
  PROVE  x % m = x /\ (x + m) % m = x
<1>1. x \in 0 .. m - 1
  OBVIOUS
<1>2. (0 * m + x) % m = x /\ (1 * m + x) % m = x
  BY <1>1, Decompose
<1>3. 0 * m + x = x /\ 1 * m + x = x + m
  OBVIOUS
<1>4. QED
  BY <1>2, <1>3

----------------------------------------------------------------------------
(* Queue indices. *)

\* A bucket and an offset make a queue index that fits in a u32, and can be
\* taken apart again.
LEMMA QueueIndexFacts ==
  ASSUME NEW b \in Buckets, NEW o \in 0 .. per_bucket - 1
  PROVE  /\ b * per_bucket + o \in Nat /\ (b * per_bucket + o) % U32 = b * per_bucket + o
         /\ BucketOf(b * per_bucket + o) = b
         /\ (b * per_bucket + o) % per_bucket = o
<1>1. /\ per_bucket \in Nat \ {0} /\ bucket_count \in Nat /\ U32 \in Nat \ {0}
      /\ b \in Nat /\ b < bucket_count
  BY IndexAssumption DEF per_bucket, Buckets
<1>2. b * per_bucket \in Nat /\ b * per_bucket + per_bucket <= bucket_count * per_bucket
  BY <1>1, Monotone
<1>3. bucket_count * per_bucket \in Nat /\ bucket_count * per_bucket <= U32
  BY <1>1, IndexAssumption
<1>4. b * per_bucket + o \in Nat /\ b * per_bucket + o < U32
  BY <1>1, <1>2, <1>3
<1>5. (b * per_bucket + o) % U32 = b * per_bucket + o
  BY <1>1, <1>4, ModSmall
<1>6. QED
  BY <1>1, <1>4, <1>5, Decompose DEF BucketOf

\* execute() enqueues a bucket's future under the index that run_bucket and
\* IoIndex::from_index take for that future.
THEOREM FutureIsFound == \A b \in Buckets, k \in Identifiers : FutureFound(b, k)
<1> SUFFICES ASSUME NEW b \in Buckets, NEW k \in Identifiers PROVE FutureFound(b, k)
  OBVIOUS
<1> DEFINE x == b * per_bucket
           q == from_bucket_index([identifier |-> k, index |-> b])
<1>1. per_bucket \in Nat \ {0} /\ 0 \in 0 .. per_bucket - 1 /\ b \in Nat /\ b < MAX_BUCKETS
  BY IndexAssumption DEF per_bucket, Buckets
<1>2. x + 0 = x /\ x \in Nat
  BY <1>1
<1>3. x % U32 = x /\ BucketOf(x) = b /\ x % per_bucket = 0
  BY <1>1, <1>2, QueueIndexFacts
<1>4. q = [identifier |-> k, index |-> x]
  BY <1>3 DEF from_bucket_index
<1>5. JobIndex(b, 0).index = x
  BY <1>2, <1>3 DEF JobIndex
<1>6. from_index(q) = InputStream(b, k)
  <2>1. q.index % per_bucket = 0 /\ BucketOf(q.index) = b /\ q.identifier = k
    BY <1>3, <1>4
  <2> HIDE DEF q
  <2>2. 0 \notin 1 .. tcp_streams - 1 /\ 0 \notin tcp_streams .. per_bucket - 1
    BY <1>1, IndexAssumption
  <2>3. from_index(q) = [kind |-> "InputStream", at |-> to_bucket_index(q)]
    BY <2>1, <2>2 DEF from_index
  <2>4. QED
    BY <2>1, <2>3 DEF to_bucket_index, InputStream
<1>7. ~BucketIndexPanics(q)
  BY <1>1, <1>3, <1>4, IndexAssumption DEF BucketIndexPanics, Buckets
<1>8. QED
  BY <1>4, <1>5, <1>6, <1>7 DEF FutureFound

\* handshake() enqueues the n-th connection of a bucket under an index of
\* that bucket which run_bucket and IoIndex::from_index take for it.
THEOREM ConnectionIsFound ==
  \A b \in Buckets, n \in 0 .. http_connections - 1, k \in Identifiers : ConnectionFound(b, n, k)
<1> SUFFICES ASSUME NEW b \in Buckets, NEW n \in 0 .. http_connections - 1, NEW k \in Identifiers
             PROVE  ConnectionFound(b, n, k)
  OBVIOUS
<1> DEFINE c == b * http_connections + n
           x == b * per_bucket + (1 + n)
           q == from_connection_index([identifier |-> k, index |-> c])
<1>1. /\ http_connections \in Nat \ {0} /\ per_bucket = 1 + http_connections /\ tcp_streams = 1
      /\ b \in Nat /\ n \in Nat /\ 1 + n \in 0 .. per_bucket - 1 /\ U32 \in Nat \ {0}
      /\ per_bucket \in Nat \ {0}
  BY IndexAssumption DEF per_bucket, Buckets
<1>2. x \in Nat /\ x % U32 = x /\ BucketOf(x) = b /\ x % per_bucket = 1 + n
  BY <1>1, QueueIndexFacts
<1>3. c \in Nat /\ c \div http_connections = b /\ c % http_connections = n
  BY <1>1, Decompose
<1>4. b * per_bucket = b * http_connections + b /\ b * http_connections \in Nat
  BY <1>1
<1>5. x < U32
  BY <1>1, <1>2
<1>6. c % U32 = c /\ (1 + n + U32 - 1) % U32 = n
  <2>1. c < U32 /\ n < U32
    BY <1>1, <1>4, <1>5
  <2>2. c % U32 = c /\ (n + U32) % U32 = n
    BY <1>1, <1>3, <2>1, ModSmall
  <2>3. 1 + n + U32 - 1 = n + U32
    BY <1>1
  <2>4. QED
    BY <2>2, <2>3
<1>7. b * per_bucket + FirstConnection + n = x
  BY <1>1 DEF FirstConnection
<1>8. q = [identifier |-> k, index |-> x]
  BY <1>2, <1>3, <1>7 DEF from_connection_index
<1>9. c \in ConnectionsOf(b)
  <2>1. (b + 1) * http_connections = b * http_connections + http_connections
    BY <1>1
  <2>2. QED
    BY <1>1, <1>3, <1>4, <2>1 DEF ConnectionsOf
<1>10. to_bucket_index(q).index = b
  BY <1>2, <1>8 DEF to_bucket_index
<1>11. JobIndex(b, tcp_streams + n).index = x
  BY <1>1, <1>2 DEF JobIndex
<1>12. to_connection_index(q) = [identifier |-> k, index |-> c]
  <2>1. ((x % per_bucket) + U32 - tcp_streams) % U32 = n
    BY <1>1, <1>2, <1>6
  <2>2. QED
    BY <1>2, <1>6, <1>8, <2>1 DEF to_connection_index
<1>13. from_index(q) = HttpConnection(c, k)
  <2> HIDE DEF c, x, q
  <2>1. q.index % per_bucket = 1 + n
    BY <1>2, <1>8
  <2>2. 1 + n # 0 /\ 1 + n \notin 1 .. tcp_streams - 1 /\ 1 + n \in tcp_streams .. per_bucket - 1
    BY <1>1
  <2>3. from_index(q) = [kind |-> "HttpConnection", at |-> to_connection_index(q)]
    BY <2>1, <2>2 DEF from_index
  <2>4. QED
    BY <1>12, <2>3 DEF HttpConnection
<1>14. QED
  <2>1. q.index = JobIndex(b, tcp_streams + n).index
    BY <1>8, <1>11
  <2>2. QED
    BY <1>9, <1>10, <1>13, <2>1, Zenon DEF ConnectionFound

\* The ranges of connections that cleanup_bucket empties do not overlap.
THEOREM RangesAreDisjoint == \A b \in Buckets, c \in Buckets : ConnectionsDisjoint(b, c)
<1>1. ASSUME NEW b \in Nat, NEW c \in Nat, b < c
      PROVE  ConnectionsOf(b) \cap ConnectionsOf(c) = {}
  <2>1. http_connections \in Nat
    BY IndexAssumption
  <2>2. /\ b * http_connections \in Nat /\ c * http_connections \in Nat
        /\ b * http_connections + http_connections <= c * http_connections
    BY <1>1, <2>1, Monotone
  <2>3. (b + 1) * http_connections = b * http_connections + http_connections
    BY <2>1
  <2>4. (c + 1) * http_connections \in Nat
    BY <2>1
  <2>5. QED
    BY <2>1, <2>2, <2>3, <2>4 DEF ConnectionsOf
<1>2. ASSUME NEW b \in Buckets, NEW c \in Buckets, b # c
      PROVE  ConnectionsOf(b) \cap ConnectionsOf(c) = {}
  <2>1. b \in Nat /\ c \in Nat
    BY DEF Buckets
  <2>2. CASE b < c
    BY <1>1, <2>1, <2>2
  <2>3. CASE c < b
    BY <1>1, <2>1, <2>3
  <2>4. QED
    BY <1>2, <2>1, <2>2, <2>3
<1>3. QED
  BY <1>2 DEF ConnectionsDisjoint

----------------------------------------------------------------------------
(* Machine words. *)

\* Index and identifier survive the journey through the pointer of a waker
\* and through an epoll token.
THEOREM WordsAreFaithful ==
  \A index \in 0 .. U32 - 1, k \in Identifiers :
    WordRoundTrip([identifier |-> k, index |-> index])
<1> SUFFICES ASSUME NEW index \in 0 .. U32 - 1, NEW k \in Identifiers
             PROVE  WordRoundTrip([identifier |-> k, index |-> index])
  OBVIOUS
<1>1. U32 \in Nat \ {0} /\ k \in Nat /\ index \in Nat
  BY IndexAssumption DEF Identifiers
<1>2. (k * U32 + index) \div U32 = k /\ (k * U32 + index) % U32 = index
  BY <1>1, Decompose
<1>3. Word(index, k) = k * U32 + index
  BY <1>1 DEF Word
<1>4. QED
  BY <1>2, <1>3 DEF WordRoundTrip, to_usize, from_usize

----------------------------------------------------------------------------
(* The same for the specification that the model checker runs. *)

\* The indices it goes through are those of the configuration.
InRange ==
  /\ bucket \in Buckets /\ other \in Buckets
  /\ offset \in 0 .. per_bucket - 1 /\ id \in Identifiers

LEMMA AlwaysInRange == Spec => []InRange
<1>1. Init => InRange
  BY IndexAssumption DEF Init, InRange, Buckets, per_bucket, Identifiers
<1>2. InRange /\ [Next]_vars => InRange'
  BY DEF InRange, Next, vars
<1>3. QED
  BY <1>1, <1>2, PTL DEF Spec

\* Every job that is queued reaches the task it was queued for.
THEOREM EveryTaskFound == Spec => []TasksFound
<1>1. InRange => TasksFound
  <2> SUFFICES ASSUME InRange, offset # 0
               PROVE  ConnectionFound(bucket, offset - tcp_streams, id)
    BY FutureIsFound DEF TasksFound, InRange
  <2>1. offset - tcp_streams \in 0 .. http_connections - 1
    BY IndexAssumption DEF InRange, per_bucket
  <2>2. QED
    BY <2>1, ConnectionIsFound DEF InRange
<1>2. QED
  BY <1>1, AlwaysInRange, PTL

\* No two buckets share a connection slot.
THEOREM ConnectionsApart == Spec => []RangesDisjoint
<1>1. InRange => RangesDisjoint
  BY RangesAreDisjoint DEF InRange, RangesDisjoint
<1>2. QED
  BY <1>1, AlwaysInRange, PTL

\* Every queue index survives the journey through a word.
THEOREM WordsKeepIndices == Spec => []WordsRoundTrip
<1>1. InRange => WordsRoundTrip
  <2> SUFFICES ASSUME InRange PROVE WordsRoundTrip
    OBVIOUS
  <2>1. JobIndex(bucket, offset).index \in 0 .. U32 - 1
    <3>1. bucket * per_bucket + offset \in Nat /\ U32 \in Nat \ {0}
      BY QueueIndexFacts, IndexAssumption DEF InRange
    <3>2. QED
      BY <3>1 DEF JobIndex
  <2>2. QED
    BY <2>1, WordsAreFaithful DEF InRange, WordsRoundTrip
<1>2. QED
  BY <1>1, AlwaysInRange, PTL
=============================================================================
