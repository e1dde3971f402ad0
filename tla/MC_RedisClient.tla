--------------------------- MODULE MC_RedisClient ---------------------------
(* Model-checking instance of RedisClient: definitions for the constants   *)
(* are given in the .cfg files.                                             *)
EXTENDS RedisClient

=============================================================================
