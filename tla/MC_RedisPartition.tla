------------------------- MODULE MC_RedisPartition -------------------------
(* Redis2P over small host lists for TLC.  Two keys hash to different    *)
(* slots; the writer and a reader have seeds that start their replica     *)
(* walks in different groups.                                             *)
EXTENDS RedisPartition

CONSTANTS k1, k2, w, r, v1, v2

\* The key hasher: k1 to slot 0, k2 to slot 1 (a hash of 7 tells the
\* code's hash mod (N/G) from the spec's hash mod P when they differ).
MCHash == [k \in {k1, k2} |-> IF k = k1 THEN 0 ELSE 7]

\* get_thread_id() of the writer and of the reader.
MCSeed == [t \in {w, r} |-> IF t = w THEN 0 ELSE 1]
=============================================================================
