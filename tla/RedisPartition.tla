--------------------------- MODULE RedisPartition ---------------------------
(***************************************************************************)
(* Redis2P (src/src/redis_partition.cpp): a client over NumHosts backends *)
(* split into Partitions slots and Groups replica groups.  Every thread   *)
(* has its own Redis2P (as RedisTss hands them out) and its seed is its   *)
(* thread id.  A backend call is one atomic step; it succeeds, fails      *)
(* before the server ran the command, or fails after it ran (the reply    *)
(* is lost: timeout, connection reset).  One thread, Writer, issues the   *)
(* writes; every thread reads.                                             *)
(***************************************************************************)
EXTENDS Integers, Sequences

CONSTANTS
    NumHosts,     \* hosts in the host list
    Partitions,   \* the partitions argument of the constructor
    Keys,         \* keys (model values)
    Hash,         \* the key hasher, a function Keys -> Nat
    Values,       \* values written (model values)
    Nil,          \* the nil reply: no such key
    Unknown,      \* history: the writer cannot know what a key holds
    Threads,      \* caller threads (model values)
    Seed,         \* get_thread_id() of each thread, a function Threads -> Nat
    Writer,       \* the thread that writes
    MaxFailures,  \* bound: failed backend calls in a behaviour
    MaxCount      \* bound: the magnitude of a counter incr/decr may leave

Groups  == NumHosts \div Partitions
HostNum == IF Groups = 0 THEN 0 ELSE NumHosts \div Groups
Hosts   == 0..NumHosts - 1

\* Redis2P::inner_init: the checks a host list must pass, else the
\* constructor throws.
InnerInit ==
    /\ Partitions # 0
    /\ Groups # 0
    /\ NumHosts % Groups = 0

ASSUME InnerInit /\ Writer \in Threads /\ MaxFailures \in Nat /\ MaxCount \in Nat

-----------------------------------------------------------------------------
(* What one write does to a key on one backend.  An update is           *)
(* [op |-> "set", arg |-> v] (set, getset, del with arg Nil),            *)
(* [op |-> "incrby", arg |-> d] (incr, decr, incrby, decrby) or          *)
(* [op |-> "setnx", arg |-> v].  Counters are integers; Values are       *)
(* strings that are not integers.                                        *)

Counts == -MaxCount..MaxCount
IsCounter(x) == x \notin Values \cup {Nil, Unknown}

\* The server refuses incrby on a string value: an error reply, and the
\* command changes nothing.
Applicable(u, old) == u.op = "incrby" /\ old # Nil => IsCounter(old)

Apply(u, old) ==
    CASE u.op = "set"    -> u.arg
      [] u.op = "incrby" -> IF old = Nil THEN u.arg ELSE old + u.arg
      [] u.op = "setnx"  -> IF old = Nil THEN u.arg ELSE old

\* The writer's knowledge of a key after a completed write: a set tells
\* it the value whatever it knew; an update of a key it cannot know
\* leaves it unknown.
Learn(u, known) == IF u.op # "set" /\ known = Unknown THEN Unknown ELSE Apply(u, known)

SetTo(v) == [op |-> "set", arg |-> v]

\* Faulty variant of KeyHostIndex: the hash taken modulo the host count.
KeyHostIndexAllHosts(k) == Hash[k] % NumHosts

\* Redis2P::__get_key_host_index: the slot of a key.
KeyHostIndex(k) == Hash[k] % HostNum

\* Faulty variant of KeyClient: the loop variable is left out, so every
\* iteration names the replica of group seed % groups.
KeyClientNoRotate(k, s) ==
    [i \in 1..Groups |-> KeyHostIndex(k) + HostNum * (s % Groups)]

\* Redis2P::__get_key_client(key, write = true): all replicas of the key,
\* starting at group seed % groups.
KeyClient(k, s) ==
    [i \in 1..Groups |-> KeyHostIndex(k) + HostNum * ((s + i - 1) % Groups)]

\* Redis2P::__get_keys_client(keys, write = true), for one key: all
\* replicas in group order 0, 1, ...
KeysClient(k) == [j \in 1..Groups |-> KeyHostIndex(k) + HostNum * (j - 1)]

\* Redis2P::__get_group_client: every host of the seed's group.
GroupClient(s) ==
    LET base == IF Groups > 1 THEN (s % Groups) * HostNum ELSE 0
    IN  [i \in 1..HostNum |-> base + i - 1]

VARIABLES
    store,      \* the data of each backend: store[h][k]
    call,       \* the Redis2P call each thread is running
    fails,      \* failed backend calls so far
    lastWrite,  \* history: what the writer's completed calls left in each key
    lastRead,   \* history: the get this step completed and what it should return
    lastList    \* history: the keys() this step completed and what it should list

vars == <<store, call, fails, lastWrite, lastRead, lastList>>

NoKeys == [k \in Keys |-> Nil]

\* The history variables of a step that completes no read.
NoRead == [key |-> CHOOSE k \in Keys : TRUE, val |-> Nil, expect |-> Unknown]
NoList == [found |-> {}, expect |-> [k \in Keys |-> Unknown]]
NoReadDone == lastRead' = NoRead /\ lastList' = NoList

Idle == [op |-> "idle", keys |-> <<>>, vals |-> <<>>, hosts |-> <<>>,
         ki |-> 1, i |-> 1, ok |-> TRUE, found |-> {}, exp |-> NoKeys]

Begin(t, o, ks, vs, hv) ==
    /\ call[t].op = "idle"
    /\ call' = [call EXCEPT ![t] = [Idle EXCEPT !.op = o, !.keys = ks,
                                               !.vals = vs, !.hosts = hv]]
    /\ UNCHANGED <<store, fails, lastWrite>> /\ NoReadDone

\* Outcomes of one backend call: "ok", "fail" (not run), "lost" (run, but
\* the caller sees a failure).
Outcomes == {"ok"} \cup (IF fails < MaxFailures THEN {"fail", "lost"} ELSE {})
Ran(o)   == o \in {"ok", "lost"}
Counted(o) == fails' = IF o = "ok" THEN fails ELSE fails + 1

Target(t) == call[t].hosts[call[t].ki][call[t].i]

-----------------------------------------------------------------------------
(* Starting a call: the host vectors are computed first.  A write is a  *)
(* sequence of keys, each written to the hosts of its vector in turn.   *)

\* Redis2P::set: FOR_EACH_GROUP_WRITE(set).
StartSet(t, k, v) == t = Writer /\ Begin(t, "write", <<k>>, <<SetTo(v)>>, <<KeyClient(k, Seed[t])>>)

\* Redis2P::getset: FOR_EACH_GROUP_WRITE(getset); the old value it
\* returns is the last replica's.
StartGetSet(t, k, v) == t = Writer /\ Begin(t, "write", <<k>>, <<SetTo(v)>>, <<KeyClient(k, Seed[t])>>)

\* Redis2P::setnx: FOR_EACH_GROUP_WRITE(setnx).
StartSetNx(t, k, v) ==
    t = Writer /\ Begin(t, "write", <<k>>, <<[op |-> "setnx", arg |-> v]>>, <<KeyClient(k, Seed[t])>>)

\* Redis2P::incrby: FOR_EACH_GROUP_WRITE(incrby); *_return is the count
\* of the last replica.  Started only while no replica would leave
\* Counts (a bound of the model: counters stay in -MaxCount..MaxCount).
StartIncrBy(t, k, d) ==
    /\ t = Writer
    /\ \A h \in Hosts : Applicable([op |-> "incrby", arg |-> d], store[h][k]) =>
                          Apply([op |-> "incrby", arg |-> d], store[h][k]) \in Counts
    /\ Begin(t, "write", <<k>>, <<[op |-> "incrby", arg |-> d]>>, <<KeyClient(k, Seed[t])>>)

\* Redis2P::incr and Redis2P::decr: incrby by 1 and by -1.
StartIncr(t, k) == StartIncrBy(t, k, 1)
StartDecr(t, k) == StartIncrBy(t, k, -1)

\* Redis2P::del(key): FOR_EACH_GROUP_WRITE(del).
StartDelKey(t, k) == t = Writer /\ Begin(t, "write", <<k>>, <<SetTo(Nil)>>, <<KeyClient(k, Seed[t])>>)

\* Redis2P::mset: set for each key in turn; a failed set ends it.
StartMSet(t, ks, vs) ==
    t = Writer /\ Begin(t, "write", ks, [n \in 1..Len(ks) |-> SetTo(vs[n])], [n \in 1..Len(ks) |-> KeyClient(ks[n], Seed[t])])

\* Redis2P::del(keys): __get_keys_client, then each key on every replica
\* in group order; the first failure ends it.
StartDel(t, ks) ==
    t = Writer /\ Begin(t, "write", ks, [n \in 1..Len(ks) |-> SetTo(Nil)], [n \in 1..Len(ks) |-> KeysClient(ks[n])])

\* Redis2P::get: FOR_EACH_GROUP_READ(get).
StartGet(t, k) == Begin(t, "get", <<k>>, <<>>, <<KeyClient(k, Seed[t])>>)

\* Redis2P::exists: FOR_EACH_GROUP_READ(exists).  Its result is whether
\* the replica holds the key; the step records the value it holds.
StartExists(t, k) == Begin(t, "get", <<k>>, <<>>, <<KeyClient(k, Seed[t])>>)

\* Redis2P::mget: get for each key in turn; a failed get ends it.
StartMGet(t, ks) == Begin(t, "get", ks, <<>>, [n \in 1..Len(ks) |-> KeyClient(ks[n], Seed[t])])

StartKeys(t) == Begin(t, "keys", <<>>, <<>>, <<GroupClient(Seed[t])>>)

\* Redis2P::randomkey: the hosts of the seed's group, first success.
StartRandomKey(t) == Begin(t, "random", <<>>, <<>>, <<GroupClient(Seed[t])>>)

AllHosts == <<[i \in 1..NumHosts |-> i - 1]>>

StartFlushAll(t) == t = Writer /\ Begin(t, "flush", <<>>, <<>>, AllHosts)

\* Redis2P::flushdb: the loop of flushall; the model has one database.
StartFlushDb(t) == t = Writer /\ Begin(t, "flush", <<>>, <<>>, AllHosts)

-----------------------------------------------------------------------------
(* One backend call of a running Redis2P call. *)

Finish(t) == call' = [call EXCEPT ![t] = Idle]

\* FOR_EACH_GROUP_WRITE, and the per-key loops of mset and del(keys):
\* every replica of the current key in turn, then the next key; the
\* first failure, or error reply, ends the call.
WriteStep(t) ==
    /\ call[t].op = "write"
    /\ LET c == call[t]
           k == c.keys[c.ki]
           u == c.vals[c.ki]
           h == Target(t)
       IN  \E o \in IF Applicable(u, store[h][k]) THEN Outcomes ELSE {"error"} :
             /\ store' = IF Ran(o) THEN [store EXCEPT ![h][k] = Apply(u, @)] ELSE store
             /\ fails' = IF o \in {"ok", "error"} THEN fails ELSE fails + 1
             /\ IF o # "ok"
                THEN Finish(t) /\ lastWrite' = [lastWrite EXCEPT ![k] = Unknown]
                ELSE IF c.i < Groups
                THEN call' = [call EXCEPT ![t].i = @ + 1] /\ UNCHANGED lastWrite
                ELSE /\ lastWrite' = [lastWrite EXCEPT ![k] = Learn(u, @)]
                     /\ IF c.ki = Len(c.keys) THEN Finish(t)
                        ELSE call' = [call EXCEPT ![t].ki = @ + 1, ![t].i = 1]
    /\ NoReadDone

\* The writer's knowledge of key k while thread t reads it.
Expect(k) ==
    IF call[Writer].op = "flush" \/ k \in {call[Writer].keys[n] : n \in DOMAIN call[Writer].keys}
    THEN Unknown ELSE lastWrite[k]

\* FOR_EACH_GROUP_READ(get), and the per-key loop of mget: replicas of
\* the current key in turn until one succeeds, then the next key; a key
\* no replica answers ends the call.
GetStep(t) ==
    /\ call[t].op = "get"
    /\ LET c == call[t]
           k == c.keys[c.ki]
           h == Target(t)
       IN  \E o \in Outcomes \ {"lost"} :
             /\ Counted(o)
             /\ IF o = "ok"
                THEN /\ lastRead' = [key |-> k, val |-> store[h][k], expect |-> Expect(k)]
                     /\ IF c.ki = Len(c.keys) THEN Finish(t)
                        ELSE call' = [call EXCEPT ![t].ki = @ + 1, ![t].i = 1]
                ELSE /\ IF c.i = Groups THEN Finish(t)
                        ELSE call' = [call EXCEPT ![t].i = @ + 1]
                     /\ lastRead' = NoRead
    /\ UNCHANGED <<store, lastWrite>> /\ lastList' = NoList

\* Redis2P::randomkey: the hosts of the group in turn until one answers;
\* its answer, a key it holds or nil, is the result.
RandomKeyStep(t) ==
    /\ call[t].op = "random"
    /\ LET h == Target(t)
           present == {k \in Keys : store[h][k] # Nil}
       IN  \E o \in Outcomes \ {"lost"} :
             /\ Counted(o)
             /\ IF o = "ok"
                THEN /\ Finish(t)
                     /\ IF present = {} THEN lastRead' = NoRead
                        ELSE \E k \in present :
                               lastRead' = [key |-> k, val |-> store[h][k], expect |-> Expect(k)]
                ELSE /\ IF call[t].i = HostNum THEN Finish(t)
                        ELSE call' = [call EXCEPT ![t].i = @ + 1]
                     /\ lastRead' = NoRead
    /\ UNCHANGED <<store, lastWrite>> /\ lastList' = NoList

\* Redis2P::flushall: every host in turn; a failure is remembered and
\* the loop goes on.
FlushStep(t) ==
    /\ call[t].op = "flush"
    /\ LET c == call[t]
           h == Target(t)
       IN  \E o \in Outcomes :
             /\ store' = IF Ran(o) THEN [store EXCEPT ![h] = NoKeys] ELSE store
             /\ Counted(o)
             /\ IF c.i < NumHosts
                THEN /\ call' = [call EXCEPT ![t].i = @ + 1, ![t].ok = @ /\ o = "ok"]
                     /\ UNCHANGED lastWrite
                ELSE /\ Finish(t)
                     /\ lastWrite' = [k \in Keys |-> IF c.ok /\ o = "ok" THEN Nil ELSE Unknown]
    /\ NoReadDone

\* Redis2P::keys: every host of the seed's group in turn, the replies
\* appended; the first failure clears the result and ends the call.
KeysStep(t) ==
    /\ call[t].op = "keys"
    /\ LET c == call[t]
           h == Target(t)
           exp == [k \in Keys |-> IF KeyHostIndex(k) = h % HostNum THEN Expect(k) ELSE c.exp[k]]
           found == c.found \cup {k \in Keys : store[h][k] # Nil}
       IN  \E o \in Outcomes \ {"lost"} :
             /\ Counted(o)
             /\ IF o # "ok" THEN Finish(t) /\ lastList' = NoList
                ELSE IF c.i < HostNum
                THEN /\ call' = [call EXCEPT ![t].i = @ + 1, ![t].found = found, ![t].exp = exp]
                     /\ lastList' = NoList
                ELSE Finish(t) /\ lastList' = [found |-> found, expect |-> exp]
    /\ UNCHANGED <<store, lastWrite>> /\ lastRead' = NoRead

-----------------------------------------------------------------------------
Init ==
    /\ store = [h \in Hosts |-> NoKeys]
    /\ call = [t \in Threads |-> Idle]
    /\ fails = 0
    /\ lastWrite = NoKeys
    /\ lastRead = NoRead
    /\ lastList = NoList

KeyPairs == {<<k1, k2>> : k1, k2 \in Keys}

Next ==
    \E t \in Threads :
       \/ \E k \in Keys : \/ StartGet(t, k) \/ StartExists(t, k) \/ StartDelKey(t, k)
                          \/ StartIncr(t, k) \/ StartDecr(t, k)
                          \/ \E v \in Values : \/ StartSet(t, k, v) \/ StartGetSet(t, k, v)
                                             \/ StartSetNx(t, k, v)
       \/ \E ks \in KeyPairs : \/ StartDel(t, ks) \/ StartMGet(t, ks)
                             \/ \E vs \in [1..2 -> Values] : StartMSet(t, ks, vs)
       \/ StartFlushAll(t) \/ StartFlushDb(t) \/ StartKeys(t) \/ StartRandomKey(t)
       \/ WriteStep(t) \/ GetStep(t) \/ FlushStep(t) \/ KeysStep(t) \/ RandomKeyStep(t)

Spec == Init /\ [][Next]_vars

-----------------------------------------------------------------------------
TypeOK ==
    /\ store \in [Hosts -> [Keys -> Values \cup {Nil} \cup Counts]]
    /\ \A t \in Threads :
         /\ call[t].op \in {"idle", "write", "get", "flush", "keys", "random"}
         /\ call[t].hosts \in Seq(Seq(Hosts))
    /\ fails \in 0..MaxFailures
    /\ lastWrite \in [Keys -> Values \cup {Nil, Unknown} \cup Counts]

\* A get (alone or in mget) that succeeds, on any thread and whichever
\* replica its seed and the failures lead it to, returns what the
\* writer's last completed set, mset, del or flush left in the key, unless
\* that call failed part-way or a write of the key is running; a key
\* randomkey names holds that value too; a keys() that succeeds lists
\* exactly the keys those calls left present.
ReadSeesLastWrite ==
    /\ lastRead.expect = Unknown \/ lastRead.val = lastRead.expect
    /\ \A k \in Keys : lastList.expect[k] = Unknown
                       \/ (k \in lastList.found) = (lastList.expect[k] # Nil)

\* Section 4.7 of the specification: a key's slot is hash mod P and its
\* replicas are slot + P*g for g in [0, G); every host vector a call
\* computes for a key consists of exactly those hosts.
SpecReplicas(k) == {(Hash[k] % Partitions) + Partitions * g : g \in 0..Groups - 1}

HostsFollowSpec ==
    \A t \in Threads : \A n \in 1..Len(call[t].keys) : call[t].op \in {"write", "get"} =>
        {call[t].hosts[n][i] : i \in 1..Groups} = SpecReplicas(call[t].keys[n])

=============================================================================
