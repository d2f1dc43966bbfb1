------------------------------ MODULE MCIndex -------------------------------
(* Every index of a small configuration, one at a time. *)
EXTENDS Index

VARIABLES bucket, other, offset, id

vars == <<bucket, other, offset, id>>

Init == bucket = 0 /\ other = 0 /\ offset = 0 /\ id = 0

Next ==
  /\ bucket' \in Buckets /\ other' \in Buckets
  /\ offset' \in 0 .. per_bucket - 1
  /\ id' \in Identifiers

Spec == Init /\ [][Next]_vars

\* A job of offset 0 reaches the bucket's future, one of a larger offset the
\* connection it was queued for.
TasksFound ==
  IF offset = 0 THEN FutureFound(bucket, id)
  ELSE ConnectionFound(bucket, offset - tcp_streams, id)

\* Buckets do not share connections.
RangesDisjoint == ConnectionsDisjoint(bucket, other)

\* Words keep the index and the identifier.
WordsRoundTrip ==
  WordRoundTrip([identifier |-> id, index |-> JobIndex(bucket, offset).index])
=============================================================================
