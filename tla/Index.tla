------------------------------- MODULE Index --------------------------------
(***************************************************************************)
(* The indices of nea/src/index.rs.  A bucket has per_bucket queue         *)
(* indices: one for its request's future, then (tcp_streams is 1) one per  *)
(* http connection.  A connection also has an index in the executor's flat *)
(* array of connections.  A queue index travels through wakers and epoll   *)
(* tokens as one machine word.                                             *)
(*                                                                         *)
(* Numbers are u32: an operation that overflows is reduced modulo U32, as  *)
(* in a build without overflow checks.                                     *)
(***************************************************************************)
EXTENDS Naturals

CONSTANTS
  bucket_count,       \* Config::bucket_count
  tcp_streams,        \* IoResources
  http_connections,
  U32,                \* 2^32
  MAX_BUCKETS         \* the 1000 of to_bucket_index's assertion

per_bucket == tcp_streams + http_connections

Buckets == 0 .. bucket_count - 1
Identifiers == 0 .. U32 - 1

ASSUME IndexAssumption ==
  /\ bucket_count \in Nat \ {0} /\ tcp_streams = 1 /\ http_connections \in Nat
  /\ U32 \in Nat \ {0} /\ bucket_count * per_bucket <= U32
  /\ MAX_BUCKETS \in Nat /\ bucket_count <= MAX_BUCKETS

----------------------------------------------------------------------------
(* Conversions between indices. *)

\* Mutant: the division is by the number of connections.
BucketOf_Connections(index) == index \div http_connections

\* self.index / per_bucket()
BucketOf(index) == index \div per_bucket

to_bucket_index(q) == [identifier |-> q.identifier, index |-> BucketOf(q.index)]

\* assert!(index < 1000)
BucketIndexPanics(q) == BucketOf(q.index) >= MAX_BUCKETS

\* The subtraction wraps around for the queue index of a request's future.
to_connection_index(q) ==
  LET connection == ((q.index % per_bucket) + U32 - tcp_streams) % U32 IN
  [identifier |-> q.identifier,
   index |-> (BucketOf(q.index) * http_connections + connection) % U32]

from_bucket_index(b) ==
  [identifier |-> b.identifier, index |-> (b.index * per_bucket) % U32]

\* Mutant: the connections begin at the bucket's own offset.
FirstConnection_Zero == 0

\* The offset of the first connection in its bucket.
FirstConnection == tcp_streams

from_connection_index(c) ==
  LET bucket == c.index \div http_connections
      connection == c.index % http_connections
  IN
  [identifier |-> c.identifier,
   index |-> (bucket * per_bucket + FirstConnection + connection) % U32]

\* Mutant: the range includes its end.
ConnectionsOf_Inclusive(b) ==
  b * http_connections .. (b + 1) * http_connections

\* IoResources::http_connections: the range of a bucket's connections.
ConnectionsOf(b) ==
  b * http_connections .. (b + 1) * http_connections - 1

\* The queue index run_bucket puts together for a job.
JobIndex(b, offset) ==
  [identifier |-> 0, index |-> (b * per_bucket + offset) % U32]

----------------------------------------------------------------------------
(* What a queue index stands for: IoIndex::from_index. *)

from_index(q) ==
  LET n == q.index % per_bucket IN
  CASE n = 0 -> [kind |-> "InputStream", at |-> to_bucket_index(q)]
    [] n \in 1 .. tcp_streams - 1 -> [kind |-> "todo", at |-> q]
    [] n \in tcp_streams .. per_bucket - 1 ->
         [kind |-> "HttpConnection", at |-> to_connection_index(q)]

----------------------------------------------------------------------------
(* Machine words. *)

\* Mutant: the two halves are swapped.
Word_Swapped(low, high) == low * U32 + high

\* usize::from_ne_bytes of the four bytes of low and then those of high.
Word(low, high) == low + high * U32

to_usize(q) == Word(q.index, q.identifier)

from_usize(word) == [identifier |-> word \div U32, index |-> word % U32]

----------------------------------------------------------------------------
(* Properties, of one bucket, one offset in it and one identifier. *)

InputStream(b, id) == [kind |-> "InputStream", at |-> [identifier |-> id, index |-> b]]
HttpConnection(c, id) == [kind |-> "HttpConnection", at |-> [identifier |-> id, index |-> c]]

\* The queue index under which execute() enqueues a bucket's future is the
\* one run_bucket makes of the bucket and offset 0, and it is taken for that
\* bucket's future.
FutureFound(b, id) ==
  LET q == from_bucket_index([identifier |-> id, index |-> b]) IN
  /\ q.index = JobIndex(b, 0).index
  /\ from_index(q) = InputStream(b, id)
  /\ ~BucketIndexPanics(q)

\* The queue index under which handshake() enqueues the n-th connection of a
\* bucket belongs to that bucket, is the one run_bucket makes of the bucket
\* and the offset, and is taken for that very connection.
ConnectionFound(b, n, id) ==
  LET c == b * http_connections + n
      q == from_connection_index([identifier |-> id, index |-> c])
  IN
  /\ c \in ConnectionsOf(b)
  /\ to_bucket_index(q).index = b
  /\ q.index = JobIndex(b, tcp_streams + n).index
  /\ from_index(q) = HttpConnection(c, id)

\* No connection is in the ranges of two buckets: cleanup_bucket drops those
\* of its own bucket and no other.
ConnectionsDisjoint(b, c) == b # c => ConnectionsOf(b) \cap ConnectionsOf(c) = {}

\* A queue index survives the journey through a waker or an epoll token.
WordRoundTrip(q) == from_usize(to_usize(q)) = q
=============================================================================
