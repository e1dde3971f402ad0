------------------------------ MODULE RedisTss ------------------------------
(***************************************************************************)
(* RedisTss (src/src/redis_tss.cpp, tss.h): each thread's thread-specific *)
(* slot client_, and the mutex-guarded free list free_redis_ of at most   *)
(* pool_size clients.  A client is a model value of Clients; `new` takes  *)
(* one that was never allocated.  The free-list operations hold           *)
(* free_redis_lock_ throughout, so each is one step; a thread's slot is    *)
(* touched by that thread only.  handles[t] is the caller's side: the      *)
(* pointers thread t got and has not put back, with the flag it used,      *)
(* as RedisScopedPtr keeps them.  The destructor of the pool (delete      *)
(* impl_) is an action of the thread that calls it, once every other       *)
(* thread has exited, as spec 4.8 asks of the caller.                      *)
(***************************************************************************)
EXTENDS Integers, Sequences, FiniteSets, Bags

CONSTANTS
    Threads,       \* caller threads (model values)
    Clients,       \* the Redis2/Redis2P objects `new` may create (model values)
    PoolSize,      \* pool_size
    NestedScopes,  \* TRUE: a thread may open a second kThreadSpecific scope
    SlotAtTeardown,\* TRUE: the destroying thread may still hold its slot's client
    NULL           \* the null pointer

ASSUME PoolSize \in Nat /\ NestedScopes \in BOOLEAN /\ SlotAtTeardown \in BOOLEAN
ASSUME NULL \notin Clients

Flags == {"TS", "NTS"}   \* kThreadSpecific, kNotThreadSpecific

VARIABLES
    free,      \* free_redis_, a vector used as a stack
    slot,      \* client_.get() of each thread
    alloc,     \* each client: "none" (never created), "live" or "deleted"
    handles,   \* outstanding get results of each thread: a bag of [c, flag]
    running,   \* the threads that have not exited
    impl       \* the RedisTss::Impl: "alive" or "destroyed"

vars == <<free, slot, alloc, handles, running, impl>>

-----------------------------------------------------------------------------
(* The free list, under free_redis_lock_. *)

\* get_free_or_create_redis: the last free client, else a new one; the
\* result is <<client, free list after>>.
FreeOrCreate ==
    IF free # <<>>
    THEN {<<free[Len(free)], SubSeq(free, 1, Len(free) - 1)>>}
    ELSE {<<c, free>> : c \in {x \in Clients : alloc[x] = "none"}}

\* Faulty variant of PutFree: the pool is full only above pool_size.
PutFreeOffByOne(c) ==
    IF Len(free) > PoolSize
    THEN free' = free /\ alloc' = [alloc EXCEPT ![c] = "deleted"]
    ELSE free' = Append(free, c) /\ UNCHANGED alloc

\* put_free_redis: delete the client when the pool is full, else push it.
PutFree(c) ==
    IF Len(free) >= PoolSize
    THEN free' = free /\ alloc' = [alloc EXCEPT ![c] = "deleted"]
    ELSE free' = Append(free, c) /\ UNCHANGED alloc

Take(x) == alloc' = [alloc EXCEPT ![x[1]] = "live"] /\ free' = x[2]

\* Faulty variant of ClearFreeRedis: the vector is emptied, nothing deleted.
ClearFreeRedisNoDelete == alloc

\* clear_free_redis: delete every free client; free_redis_.clear().
ClearFreeRedis == [c \in Clients |-> IF \E i \in DOMAIN free : free[i] = c THEN "deleted" ELSE alloc[c]]

-----------------------------------------------------------------------------
(* RedisTss::get and RedisTss::put, and thread exit. *)

HasTS(t) == \E h \in DOMAIN handles[t] : h.flag = "TS"

Alive(t) == t \in running /\ impl = "alive"

\* get(kThreadSpecific) with a client in the slot: that client.
GetTSCached(t) ==
    /\ Alive(t)
    /\ slot[t] # NULL
    /\ NestedScopes \/ ~HasTS(t)
    /\ handles' = [handles EXCEPT ![t] = @ (+) SetToBag({[c |-> slot[t], flag |-> "TS"]})]
    /\ UNCHANGED <<free, slot, alloc, running, impl>>

\* client_.reset(c) on an empty slot: the current value is NULL, so no
\* cleanup function runs; the slot takes c.
Reset(t, c) == slot' = [slot EXCEPT ![t] = c]

\* get(kThreadSpecific) with an empty slot: a free or new client, stored
\* into the slot by client_.reset.
GetTSFresh(t) ==
    /\ Alive(t)
    /\ slot[t] = NULL
    /\ \E x \in FreeOrCreate :
         /\ Take(x)
         /\ Reset(t, x[1])
         /\ handles' = [handles EXCEPT ![t] = @ (+) SetToBag({[c |-> x[1], flag |-> "TS"]})]
    /\ UNCHANGED <<running, impl>>

\* get(kNotThreadSpecific): a free or new client for the caller alone.
GetNTS(t) ==
    /\ Alive(t)
    /\ \E x \in FreeOrCreate :
         /\ Take(x)
         /\ handles' = [handles EXCEPT ![t] = @ (+) SetToBag({[c |-> x[1], flag |-> "NTS"]})]
    /\ UNCHANGED <<slot, running, impl>>

\* Faulty variant of Release: the slot is left holding the client.
ReleaseNever(t, c) == slot' = slot

\* put(redis, kThreadSpecific) first releases the slot if it holds redis.
Release(t, c) == slot' = IF slot[t] = c THEN [slot EXCEPT ![t] = NULL] ELSE slot

\* put(redis, flag) of a pointer the caller got with the same flag.
Put(t) ==
    /\ Alive(t)
    /\ \E h \in DOMAIN handles[t] :
         /\ IF h.flag = "TS" THEN Release(t, h.c) ELSE UNCHANGED slot
         /\ PutFree(h.c)
         /\ handles' = [handles EXCEPT ![t] = @ (-) SetToBag({h})]
    /\ UNCHANGED <<running, impl>>

\* The caller stops using a kThreadSpecific pointer without put (usage 1
\* of redis_tss.h): the client stays in the slot until the thread exits.
Forget(t) ==
    /\ Alive(t)
    /\ \E h \in DOMAIN handles[t] :
         /\ h.flag = "TS"
         /\ handles' = [handles EXCEPT ![t] = @ (-) SetToBag({h})]
    /\ UNCHANGED <<free, slot, alloc, running, impl>>

\* A thread that holds nothing exits; the cleanup function of client_
\* hands its slot's client to put_free_redis.
Exit(t) ==
    /\ t \in running
    /\ handles[t] = EmptyBag
    /\ IF slot[t] # NULL THEN PutFree(slot[t]) ELSE UNCHANGED <<free, alloc>>
    /\ slot' = [slot EXCEPT ![t] = NULL]
    /\ running' = running \ {t}
    /\ UNCHANGED <<handles, impl>>

\* delete impl_ by the last running thread t, which holds no pointer:
\* the body of ~Impl runs clear_free_redis; then client_, the last
\* member, is destroyed first, and ~thread_specific_ptr runs the cleanup
\* function on t's slot, put_free_redis, which deletes the client if the
\* (now empty) pool is full and else pushes it into free_redis_, a vector
\* destroyed right after without deleting what it holds.
Destroy(t) ==
    /\ Alive(t)
    /\ running = {t}
    /\ handles[t] = EmptyBag
    /\ SlotAtTeardown \/ slot[t] = NULL
    /\ alloc' = IF slot[t] # NULL /\ PoolSize = 0
                THEN [ClearFreeRedis EXCEPT ![slot[t]] = "deleted"]
                ELSE ClearFreeRedis
    /\ free' = <<>>
    /\ slot' = [slot EXCEPT ![t] = NULL]
    /\ impl' = "destroyed"
    /\ UNCHANGED <<handles, running>>

Init ==
    /\ free = <<>>
    /\ slot = [t \in Threads |-> NULL]
    /\ alloc = [c \in Clients |-> "none"]
    /\ handles = [t \in Threads |-> EmptyBag]
    /\ running = Threads
    /\ impl = "alive"

\* Every thread has exited: the program may end.
Terminated == running = {} /\ UNCHANGED vars

Next ==
    \/ \E t \in Threads : GetTSCached(t) \/ GetTSFresh(t) \/ GetNTS(t) \/ Put(t) \/ Forget(t) \/ Exit(t) \/ Destroy(t)
    \/ Terminated

Spec == Init /\ [][Next]_vars

-----------------------------------------------------------------------------
Handle == [c : Clients, flag : Flags]

TypeOK ==
    /\ free \in Seq(Clients) /\ Len(free) <= PoolSize
    /\ slot \in [Threads -> Clients \cup {NULL}]
    /\ alloc \in [Clients -> {"none", "live", "deleted"}]
    /\ \A t \in Threads : IsABag(handles[t]) /\ DOMAIN handles[t] \subseteq Handle
    /\ running \subseteq Threads
    /\ impl \in {"alive", "destroyed"}

\* The threads that use client c: through their slot or a pointer that
\* get returned to them.
Users(c) == {t \in Threads : slot[t] = c \/ \E h \in DOMAIN handles[t] : h.c = c}

FreeCount(c) == Cardinality({i \in 1..Len(free) : free[i] = c})

\* A client is used by one thread at a time: every live client is either
\* once in the free list or with exactly one thread, and a deleted client
\* is nowhere; so no two threads run commands on one connection, nothing
\* is deleted in use and nothing leaks (get, put, the pool-full delete of
\* put_free_redis, the thread-exit cleanup and the destructor, after
\* which free_redis_ is gone and every client must be deleted).
OwnershipExclusive ==
    \A c \in Clients :
       IF alloc[c] = "live"
       THEN Cardinality(Users(c)) + FreeCount(c) = 1
       ELSE Users(c) = {} /\ FreeCount(c) = 0

=============================================================================
