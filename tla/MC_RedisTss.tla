---------------------------- MODULE MC_RedisTss ----------------------------
(* RedisTss with three threads and four clients for TLC. *)
EXTENDS RedisTss, TLC

CONSTANTS t1, t2, t3, c1, c2, c3, c4

\* Threads are interchangeable, and so are the clients `new` creates.
Symmetry == Permutations({t1, t2, t3}) \cup Permutations({c1, c2, c3, c4})
=============================================================================
