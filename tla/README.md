# TLA+ models of librediscxx

This directory holds TLA+ models of the C++ Redis client library under `src/src/`, the TLC configurations that check them, and `PROJECT.json`. `PROJECT.json` lists the components, the runs, the mutants, the source lines each definition models (`map`), the findings and the hazards.

Run a check from this directory with `tlc -workers 2 -config <cfg> <MC module>`.

## The system

The library is layered. Each layer is driven by one caller thread at a time, except the pool.

| Part | Source | State | Operations |
|---|---|---|---|
| Socket primitives (C1) | `os.cpp` | none | timed connect/read/write, `is_open_slow` peek, `resolve_host` |
| DNS cache | `tcp_client.cpp` `HostResolver` | map (host,service) → (endpoint, error), shared mutex | `resolve`, `clear_cache` |
| Buffer (C2) | `tcp_client.cpp` `TcpClientBuffer` | byte buffer, cursors read ≤ to_read ≤ size | `prepare`, `produce`, `consume`, `clear` |
| TcpClient | `tcp_client.cpp` | `fd_`, `buffer_`, `last_check_open_time_` | `connect`, `close`, `write`, `read`, `read_line`, `is_open` |
| Command table (C3) | `redis_cmd.cpp` | static | expected reply type per command |
| RedisProtocol (C5, C6) | `redis_protocol.cpp` | `transaction_mode_`, `blocking_mode_`, `error_` | `assure_connect`, `connect`, `close`, `check_connect`, `exec_command`, `exec_pipeline`, `__read_reply` |
| Redis2 (C7) | `redis.cpp` | `db_index_`, `db_index_select_failure_`, `transaction_cmds_` | typed commands, `select`, `multi`, `watch`, `add_command`, `exec`, `discard`, `bxpop`, `connect`, `close` |
| Redis2P (C8) | `redis_partition.cpp` | host list, partitions, groups, one Redis2 per host | key-to-host arithmetic, write fan-out, read fail-over, server-wide commands |
| RedisTss (C9) | `redis_tss.cpp`, `tss.h` | thread-specific slot per thread, mutex-guarded free list of at most `pool_size` clients | `get(TS/NTS)`, `put`, thread-exit cleanup, destruction |

The layers interact as follows:

- A Redis2 call starts with `assure_connect` or `check_connect`. It writes one or more requests through RedisProtocol into the TcpClient, then reads the replies back from the TcpClient's buffer.
- `transaction_mode_` changes the reply type the parser expects.
- `on_reset` clears the per-session state of Redis2 when `assure_connect` reports a new connection.
- Redis2P routes each key to a Redis2 per replica.
- RedisTss hands Redis2/Redis2P clients to threads.

What is hard, and what a model checker reaches:

- Where replies and requests line up. Errors can arrive mid-pipeline or inside EXEC. Timeouts can race a late reply. The server can close between two calls.
- Whether per-session state survives a reconnect: the transaction mode, the selected database and the transaction queue.
- Partial failure of a fan-out.
- The pool's bound and its exclusive ownership when threads interleave.

The hazards are listed at their lines in `PROJECT.json`.

## Modules

- **`RedisServer`** models the environment, not code of this repository. For each request, it gives the reply frames and the next session state that a Redis server sends: MULTI queueing, EXEC results, EXECABORT after a queue-time error, a nil EXEC after a watched key was touched, SELECT, and BLPOP, which answers a two-element multi-bulk or a nil one.
- **`RedisClient`** is one Redis2 over its RedisProtocol and TcpClient, talking to the server session of its current connection. It models these parts of the code:
  - **Variables.** `open` is `fd_ != -1`. `tmode` is `transaction_mode_`. `blocking` is `blocking_mode_`. `dbIndex`, `selFail` and `tcmds` are the three Redis2 members. `inbox` is the socket's receive queue together with `buffer_`, as a sequence of reply frames. `outbox` holds the requests the server has not yet taken. `peerUp` says whether the server's side is still open. `srv` is the server session.
  - **Call steps.** A call is a sequence of steps, one per place where the code waits on the network, tracked by `pc`, `op`, `sub` and `pending`:
    - `AssureConnect`, `Select` and `CheckConnect` are the entries.
    - `NestedSelect` is the `select(db_index_)` inside `assure_connect`.
    - `Send` and `Recv` are `exec_command`. `PipeSend` and `PipeRecv` are the two loops of `exec_pipeline`.
    - `ReadFail` is a read that times out or meets EOF. In blocking mode it has no timeout, so it happens only once the server has closed.
    - `bxpop` is a call of its own. `Send` turns blocking mode on for it (`BxpopBlocking`), unless it is the select nested in its reconnect, and `Recv` and every close turn it off again, as `bxpop` restores the mode it saved.
  - **Post-processing.** `Complete` dispatches what each Redis2 method does with its reply: `SelectDone`, `AddDone`, `ExecDone` or `DiscardDone`.
  - **Reply parser.** `ReadReply` is `__read_reply` over frames. An error reply leaves the connection open. A reply of the wrong type closes it. An error element of an EXEC reply ends the read and leaves the remaining elements unread.
  - **`is_open`.** `OpenProbe` says a live socket is open. A socket the server closed may be reported either way, because the peek runs only every 180 s.
  - **Environment actions.** `ServerReply`, `ServerClose` and `TouchWatched`, where `TouchWatched` is another client writing a watched key.
  - **History variables.** `lastRead` records the request and the reply frame of each read. `lastExec` records the queue and the result ids of each successful `exec`.
  - **DNS cache.** `dns` is the `s_host_resolver` entry of the server: none yet, a cached address, or a cached failure. `Resolve` is `HostResolver::resolve` with the cache on: a miss may succeed or fail and caches either answer; a hit returns the cached one. Lookup and insert each hold the reader-writer lock, so for one client each is atomic.
- **`MC_RedisClient`** instantiates RedisClient. The constants are set in the `.cfg` files.
- **`RedisPartition`** is Redis2P (`redis_partition.cpp`) over `NumHosts` backends. It models these parts of the code:
  - **Constants and arithmetic.** `Partitions`, the key hasher `Hash` and each thread's `Seed` (its thread id) are constants. `Groups`, `HostNum`, `InnerInit`, `KeyHostIndex`, `KeyClient`, `KeysClient` and `GroupClient` are the code's host-vector arithmetic. `InnerInit` is an `ASSUME`, because the constructor throws otherwise.
  - **Variables.** `store[h][k]` is the data on backend `h`. `call[t]` is the Redis2P call thread `t` is running: its host vectors (computed first, as the code does) and its loop indexes. `fails` counts failed backend calls.
  - **Actions.** A backend call is one step. It succeeds, fails before the server ran it (connect or write failure), or fails after it ran (the reply was lost). Each thread has its own Redis2P, as `RedisTss` hands them out, so threads interleave only at the backends.
    - `WriteStep` is `FOR_EACH_GROUP_WRITE`: it stops at the first failure or error reply. It runs `set`, `getset`, `setnx`, `incr`, `decr` and `del(key)` (each a `Start…` action), and the multi-key `del`, in group order with no seed.
    - What one write does on one backend is an update: `Apply` gives the new value (a set, a `setnx`, or an `incrby` by d), and `Applicable` says the server refuses `incrby` on a value that is not an integer. Values are strings (model values) or counters (integers in `-MaxCount..MaxCount`, a bound of the model).
    - `GetStep` is `FOR_EACH_GROUP_READ`: it returns at the first success. It runs `get` and `exists`.
    - `KeysStep` is `keys()`, over the seed's group.
    - `FlushStep` is `flushall` and `flushdb`, which go on after a failure and AND the results.
    - `mset` and `mget` are loops of `set` and `get` over their keys (`StartMSet`, `StartMGet`); `mset` stops at the first key that fails.
    - `RandomKeyStep` is `randomkey`, over the seed's group, returning the first answer.
  - **History variables.** `lastWrite` is what the writer's completed calls tell it about each key: a value, nil, or `Unknown` after a failed call. `Learn` keeps a key unknown through counter and `setnx` updates until a set or `del` writes it whole. `lastRead` and `lastList` record the `get` and `keys()` the step just completed, together with what the writer knew then.
- **`MC_RedisPartition`** gives the hasher and the seeds as functions of model values.
- **`RedisTss`** is the pool (`redis_tss.cpp`, `tss.h`).
  - **Variables.** `free` is `free_redis_`, used as a stack. `slot[t]` is `client_.get()` on thread `t`. `alloc` says whether each client object is not yet created, live, or deleted. `handles[t]` is the caller's side: a bag of the pointers `get` returned and the flag used, as `RedisScopedPtr` keeps them.
  - **Atomicity.** Every free-list operation holds `free_redis_lock_` from start to end, and a slot is touched only by its own thread, so each call is one step.
  - **Actions.**
    - `GetTSCached` and `GetTSFresh` are `get(kThreadSpecific)`.
    - `GetNTS` is `get(kNotThreadSpecific)`.
    - `Put` is `put` with the flag the pointer was obtained with, including `Release` of the slot.
    - `Exit` is the cleanup function `client_` runs at thread exit, which is `put_free_redis`.
    - `Forget` is usage 1 of `redis_tss.h`: the caller drops a thread-specific pointer without a `put`.
    - `Destroy` is `delete impl_`: the body of `~Impl` runs `clear_free_redis` (`ClearFreeRedis`), then the member `client_` is destroyed, and `~thread_specific_ptr` runs the cleanup function on the destroying thread's slot. `impl` records that the pool is gone.
  - **Caller assumptions.** A thread exits only after putting its non-thread-specific clients back, because the header calls that put essential. `NestedScopes` says whether a thread may open a second thread-specific scope while it holds one. The pool is destroyed by the last running thread, as spec 4.8 asks. `SlotAtTeardown` says whether that thread may still hold a client in its slot.
- **`TcpClientBuffer`** is the byte buffer of `TcpClient` and the two loops that read through it, `read(size, delim)` and `read_line(delim)` (`tcp_client.cpp`).
  - **Variables.** `b` is the vector with `read_` and `to_read_` as offsets. `recv` and `consumed` count the bytes of the server's stream received and consumed on this connection. `pc` is the running read. `last` records the last value returned and where in the stream it began.
  - **Operators.** `Prepare` (with the doubling `Grow`), `Consume` (with its reset and `Drain`), `Clear` and `Fill` (a `timed_read` into the free space, then `produce`) are the buffer's methods.
  - **Actions.** `StartRead` and `StartLine` begin a read. `ReadMore` and `LineMore` are one turn of the refill loop: `timed_read` returns any number of the bytes the socket has. `ReadDone` and `LineDone` return. `ReadFail` is a `timed_read` that fails: `close()` clears the buffer and the stream starts again on a new connection. `LineOffset` is the `search_offset` that `read_line` keeps across refills.
- **`BufferedStream`** is the abstract specification of the buffered stream (spec 4.2): a queue of received bytes from which `read_exact` and `read_line` take whole frames. It is not code; `TcpClientBuffer` instantiates it as `Abs` to check that it implements it.
- **`MC_TcpClientBuffer`** scales the sizes down from 512 and 65536 to 2 and 4. Its stream has a lone CR inside a line, so a CR LF can be split over two reads.
- **`RespCodec`** is the wire format, as operators over byte sequences, and what a caller gets from a parsed reply.
  - **Requests.** `Encode` is `write_command`. `CheckArgc` and `ArgcOf` are `check_argc` and the argc column of the command table. `WriteCommandV` is the printf-style `write_commandv`: `FormatResults` is its `vsnprintf` loop (a text of `buf_len` bytes or more is formatted a second time from the same `va_list`), `Trim` and `Args` are the trim and the split on spaces, and `SetCommand` is the name lookup after upper-casing.
  - **Replies.** `ReadReply` is `__read_reply`, with `ReadLine`, `Read`, `ReadBulk2`, `ReadMultiBulk2`, `ReadBulk`, `ReadElems` (the special multi-bulk loop) and `ParseInteger`. `Decode` reads replies one after another.
  - **Projection.** `ExecCommand` is the error path of `exec_command`. `CheckStatus`, `GetIntegerReply`, `GetBulkReply`, `GetBulkReply2` and `GetMBulksReply` are the reply macros of `redis.cpp` with the `RedisOutput` getters behind them. Every typed wrapper of `redis.cpp` ends in one reply macro, so the wrappers are tables of name to macro (`KeyWrappers` … `ServerWrappers2`, merged into `Wrappers`), and `Macro` applies the macro a name stands for; `IsStatus` and `FloatReply` are the two macro-like bodies (`bgrewriteaof`'s status check, and the `lexical_cast<double>` of `incrbyfloat`, `hincrbyfloat` and `zincrby`). `Redis2Call` is one wrapper call. `ReplyTypeOf` is the reply-type column of `s_command_map` (`redis_cmd.cpp`), `CommandOf` the command a wrapper or helper sends, and `ReadFor` reads a reply with that command's row, as `exec_command` does; `ExecWrapper` is read and wrapper together. `Bxpop`, `Zscore`, `Zxxxrank`, `TypeReply`, `Brpoplpush` and `ExecReply` (with `Downgrade` and `ConvertSMBulks`, the `convert` of a special multi-bulk) are the methods with their own reply handling. `OldGet`, `OldHget`, `OldKeys`, `OldHgetall`, `OldHgetallMap`, `OldExpire`, `OldExpireat`, `OldHdel` (through `OldIntCode`), `OldHset` and `OldHmset` are the old-style helpers of `redis_base.cpp`; `OldWrapper` names the wrapper each one calls.
  - **Reference.** `Serialize` is the reply grammar of the spec, written out. `Words` and `TextRequest` are what the comments of `exec_command(command, format, ...)` say a text stands for. `Answers`, `Fits` and `Meets` are the interface contract of the "API interface design" comment of `redis_base.h` and spec 4.6.
  - **State machine.** `replies` are the replies a server sends on one connection, in order (`SendReply`). `requests` are the client's calls, in order (`WriteCommand`, `WriteCommandText`). One behaviour follows one direction, because the two directions do not interact in the codec.

## Runs

All client runs use the same bounds, chosen so that every case below happens:

- `Cmds = {SET, INCR}`: one status command and one integer command.
- `DbIndexes = {0, 1}`.
- `MaxReqs = 5` requests in a behaviour. That is enough for a nested SELECT plus a two-command pipeline plus one later call, or for MULTI, two queued commands, EXEC and one more call.
- `MaxConns = 2` connections, so that a reconnect happens.
- `MaxPipeline = 2`.

A call starts only if the requests it may write fit in `MaxReqs`, so every started call can finish.

| Run | cfg | Expect | What it shows |
|---|---|---|---|
| `client_safe` | `MC_RedisClient.cfg` | pass | With no server error replies, every reply a call reads answers its own request (`ReplyAnswersRequest`). This holds across timeouts, server closes, stale `is_open` answers, reconnects, nested reselects and pipelines. Every call other than `bxpop` returns whatever the server does (`CallsReturn`). `bxpop` returns if the server answers or closes (`BlockingCallReturns`). |
| `client_pipeline_desync` | `MC_RedisClient_desync.cfg` | violation | With error replies allowed, a `-ERR` for the first command of a pipeline makes `exec_pipeline` return while the second reply is still unread. The next `set` reads that reply as its own. |
| `client_stale_tmode` | `MC_RedisClient_tmode.cfg` | violation | `multi()`, then `Redis2::connect()`: the new session is not in MULTI, but `transaction_mode_` is still true (`TransactionModeAgrees`). |
| `client_exec_attribution` | `MC_RedisClient_exec.cfg` | violation | `add_command(SET)` outside MULTI, `multi()`, a typed `set` (queued but not recorded), then `exec()`. Exec returns true and hands the result of the typed `set` to the `add_command` entry (`ExecResultsMatchQueue`). |
| `client_db_reselect` | `MC_RedisClient_db.cfg` | violation | `select(1)`, then `Redis2::connect()`: `db_index_` is 1, but the flag that forces a reselect is false, so the next commands run on database 0 (`SelectedDbInUse`). |

The partition runs use two keys in different slots, a writer with seed 0 and a reader with seed 1, so their replica walks start in different groups:

- `partition_safe` uses 4 hosts, 2 partitions (so 2 groups), one string value, counters in -1..1 and at most 1 failed backend call. That allows a write that fails part-way and then a read that fails over, an `incr` on a string (an error reply), and an `incr` whose reply is lost followed by a `decr`; a second failure adds no new shape of call and multiplies the states.
- `partition_config` uses 6 hosts and 4 partitions, which `inner_init` accepts, and no failures.

| Run | cfg | Expect | What it shows |
|---|---|---|---|
| `partition_safe` | `MC_RedisPartition.cfg` | pass | With one writer, a successful `get`, `exists`, `mget`, `randomkey` or `keys()` on either thread sees what the writer's last completed `set`, `getset`, `setnx`, `incr`, `decr`, `mset`, `del`, `flushall` or `flushdb` left (`ReadSeesLastWrite`). This holds across partial fan-out failures, lost replies and fail-over, provided a key that a counter update failed on part-way counts as unknown until a `set` or `del`: nothing in the code brings its replicas back together. |
| `partition_config` | `MC_RedisPartition_config.cfg` | violation | With 6 hosts and 4 partitions there is 1 group of 6 slots. A key hashing to 7 goes to host 1, where the spec's `hash mod P + P*g` says host 3 (`HostsFollowSpec`). |

The pool runs use three threads, four client objects and `pool_size = 2`, so the pool fills and a `put` deletes. Threads and clients are symmetric.

| Run | cfg | Expect | What it shows |
|---|---|---|---|
| `pool_safe` | `MC_RedisTss.cfg` | pass | With one thread-specific scope per thread, every live client is with exactly one thread or appears once in the free list, and a deleted client is nowhere (`OwnershipExclusive`). After the destructor every client is deleted. The free list stays within `pool_size` (`TypeOK`). |
| `pool_nested_scope` | `MC_RedisTss_nested.cfg` | violation | A thread gets its slot client twice (two nested `RedisScopedPtr(kThreadSpecific)`). The inner `put` releases the slot and pools the client while the outer scope still uses it. |

`TcpClientBuffer` is also shown to implement `BufferedStream`, the abstract stream of spec 4.2. That module has no buffer. `q` is the bytes received and not yet handed out. `Receive` appends bytes of the stream, `ReadExact(n)` hands out n bytes and drops the 2 after them, `ReadLine` hands out the bytes before the first CR LF and drops it, and `Close` loses `q`. The mapping `Abs` takes `q` to the readable bytes `[read_, to_read_)` and `out` to what `read` or `read_line` last returned. `ImplementsBufferedStream` is `Abs!Spec`, checked as a property: each step of the buffer is a stutter or one abstract step.

The buffer run uses buffers of 2 bytes that grow to 4 and 8, an emptied buffer of 4 that drains, `read(n)` with n in {1, 3}, and an 8-byte stream of two lines, the first with a lone CR.

| Run | cfg | Expect | What it shows |
|---|---|---|---|
| `buffer_safe` | `MC_TcpClientBuffer.cfg` | pass | However the socket splits the stream, the readable bytes are the received bytes not yet consumed (`BufferMirrorsStream`), and `read_line` and `read` return the next line or the next n bytes (`ReturnsNextFrame`). This holds through growth, compaction, drain and clear. The buffer and its two loops refine the abstract stream (`ImplementsBufferedStream`), so each frame is handed out once and leaves with its delimiter. |

The codec runs:

- `codec_safe` uses at most 2 replies or 2 requests. The replies are statuses, errors, integers (0, 12, -3), bulks (`x`, `x\r\n` and a 10-byte one with a two-digit length), nil bulks, multi-bulks of up to 2 bulks, and special multi-bulks of up to 2 elements, nested ones included. The requests are GET, SET, MSET and INFO with up to 2 arguments from the same data, and 9 printf-style calls: lower case, extra spaces, a missing argument, a wrong count, and a `%s` that brings in a space. `buf_len` is the code's 64.
- `codec_empty_bulk` adds the empty string to the data and uses a single reply.

| Run | cfg | Expect | What it shows |
|---|---|---|---|
| `codec_safe` | `RespCodec.cfg` | pass | Pipelined requests read back as the bulks of their tokens (`EncodingRoundTrip`). A printf-style call writes the words of its text or fails without writing (`TextCommandWords`). Pipelined well-formed replies parse to themselves and consume exactly their frames (`ParseTotality`). Each of the 120 wrappers and helpers of `Apis`, reading its reply with its command's reply type, turns every reply the server may send it into what the interface promises (`ProjectionMeetsContract`). `Apis` leaves out `old_keys`, `bgsave` and `sort_store`, the three known disagreements below. |
| `codec_empty_bulk` | `RespCodec_empty.cfg` | violation | `$0` (GET of an empty string) is rejected by `read_bulk_2`, and the connection is closed (`ParseTotality`). |

Each property of a passing run has a mutant in `PROJECT.json`, a faulty variant defined next to the definition it replaces:

- a close that forgets `buffer_.clear()` breaks `ReplyAnswersRequest`;
- a read without a timeout breaks `CallsReturn`;
- a blocking read that does not end when the server closes breaks `BlockingCallReturns`;
- a close that resets `fd_` without closing the socket breaks `TypeOK`;
- a `__get_key_client` loop that forgets the loop index writes one replica `G` times and breaks `ReadSeesLastWrite`;
- a slot taken modulo the host count instead of `hosts / groups` gives host indexes past the end and breaks `TypeOK` of `RedisPartition`;
- `put_free_redis` testing `>` for a full pool breaks the bound in `TypeOK` of `RedisTss`;
- a `put(kThreadSpecific)` that does not release the slot breaks `OwnershipExclusive`;
- a `clear` that keeps the cursors breaks `TypeOK` of `TcpClientBuffer`;
- a `prepare` that copies from the start of the vector instead of from `read_` breaks `BufferMirrorsStream`;
- a `read_line` whose search offset jumps past every byte searched misses a split CR LF and breaks `ReturnsNextFrame`;
- a `read(size)` that consumes `size` and leaves the delimiter in the buffer breaks `ImplementsBufferedStream`. The two invariants still hold: the next read returns the bytes the stream has at that point, which are the delimiter;
- a header that counts the arguments without the name breaks `EncodingRoundTrip`;
- a `read` that keeps the delimiter breaks `ParseTotality`;
- a `GET_BULK_REPLY` without the nil branch breaks `ProjectionMeetsContract`;
- a split that keeps empty pieces breaks `TextCommandWords`.

`RedisPartition`, `RedisTss`, `TcpClientBuffer` and `RespCodec` have no fairness. Their properties are invariants, and every call ends after at most `G` or `N` backend calls.

### Fairness

`Spec` assumes weak fairness of `ClientStep`: the steps of a started call. The code justifies this. Each of those steps is local work, or a write or read bounded by `timeout_` (connects by `timeout/5`, at least 10 ms). `bxpop` reads in blocking mode, with no timeout, so `CallsReturn` leaves it out. `BlockingCallReturns` states that it returns under the hypothesis `WF_vars(ServerReply)`: the hypothesis is the left side of an implication, not a fairness of `Spec`, because nothing in the code makes a server answer. Without it TLC finds `bxpop` waiting forever on a live, silent connection. The user's choice of the next call is not fair, and neither is the server: a server that never answers is covered by the read timeout.

## Findings

Seven disagreements between the code and the spec or the code's own intent. Each has a violation run; see `findings` in `PROJECT.json`.

1. **Pipeline desync.** `exec_pipeline` stops at an error reply without draining or closing (`redis_protocol.cpp:162`). EXEC with an error element does the same (`redis_protocol.cpp:498`).
2. **Stale transaction mode.** `RedisProtocol::connect` keeps `transaction_mode_` (`redis_protocol.cpp:63`).
3. **EXEC misattribution.** Exec matches results to commands by count only (`redis.cpp:2205`). `add_command` records commands outside MULTI, and a failed or nil EXEC keeps the queue.
4. **Database not reselected.** `Redis2::connect` skips `on_reset` (`redis.cpp:78`). `select` stores the index before checking the reply (`redis.cpp:1762`).
5. **Host count not checked.** `inner_init` tests `hosts % groups` (`redis_partition.cpp:76`), where `groups = hosts / partitions`. So it accepts host lists that are not `partitions x groups`, and keys are then slotted by `hash mod (hosts / groups)`, not by `hash mod P`.

6. **Nested thread-specific scopes share a client.** `put(p, kThreadSpecific)` releases the slot and pools `p` (`redis_tss.cpp:177`) even if an outer scope of the same thread still uses `p`. Then another thread's `get` takes it. Neither the spec nor the header says that a thread may hold only one thread-specific reference.
7. **Empty bulk rejected.** `read_bulk_2` treats `$0` as a protocol error and closes the connection (`redis_protocol.cpp:587`), where the spec's grammar allows a bulk of length 0.

These disagreements are hazards in `PROJECT.json`, each with the TLC result that shows it. None has a run of its own:

- **Teardown leak.** `~Impl` runs `clear_free_redis` before `client_` is destroyed, so the destroying thread's own slot client is pushed into a cleared free list and never deleted (`redis_tss.cpp:147`). With `SlotAtTeardown = TRUE`, TLC breaks `OwnershipExclusive` in 5 steps.
- **`keys` ignores failure.** `RedisBase2::keys(pattern, string_vector_t *)` returns true when the command failed (`redis_base.cpp:63`). With `old_keys` in `Apis`, `ProjectionMeetsContract` fails.
- **Unguarded cast.** `zscore` and the other float replies call `lexical_cast<double>` unguarded (`redis.cpp:1736`). `codec_safe` checks the casts on the numeric bulks a server sends; a non-numeric bulk reaches them only on a desynchronised connection (`client_pipeline_desync`), and would throw.
- **`va_list` reuse.** A printf-style text of 64 bytes or more is formatted again from a used `va_list` (`redis_protocol.cpp:237`). With `BufLen = 6`, `TextCommandWords` fails.
- **Cached DNS failure.** A failed DNS lookup is cached for good (`tcp_client.cpp:117`).
- **Wrong `bgsave` reply.** `bgsave` expects `+OK`, but Redis answers `+Background saving started` (`redis.cpp:2287`). With `bgsave` in `Apis`, `ProjectionMeetsContract` fails on that status.
- **`sort` with `STORE`.** `sort` is read with the multi-bulk row of the table, but `SORT … STORE` answers an integer (`redis.cpp:382`). With `sort_store` in `Apis`, `ProjectionMeetsContract` fails on the first integer reply.
- **`hsetnx` overwrites.** `Redis2P::hsetnx` sends `hset` (`redis_partition.cpp:702`).
- **`randomkey` nil.** `randomkey` can return nil while other slots hold keys (`redis_partition.cpp:430`).

Not a finding, but a limit: `incr`, `decr` and `incrby` are not idempotent (`redis_partition.cpp:506`). When one of them fails part-way, or a replica's reply is lost, the replicas' counts differ. Every later update moves them together, so readers whose seeds start at different groups see different counts until a `set` or `del`. If the writer trusted the count the last replica returned, TLC would break `ReadSeesLastWrite` in 8 steps: an `incr` whose reply is lost, a `decr`, and a `randomkey` that reads the other replica.

Another limit: two threads writing one key walk its replicas from different groups, so the replicas can end up different. The library promises no cross-thread write order, and `partition_safe` checks the single-writer case.

## Not modelled

- **The user's blocking mode.** `set_blocking_mode` called by the user is not modelled; `bxpop` is. `brpoplpush` flips the mode exactly as `bxpop` does.
- **Refinement of the client.** TcpClientBuffer is refined onto BufferedStream. RedisClient is not refined onto an abstract request/reply session: its `ReplyAnswersRequest` is the pairing such a session would state.
- **Two threads on one cache entry.** Two threads missing the DNS cache at once both resolve, and the later insert wins. The model has one client.
- **Other commands.** Most commands of Redis2 and Redis2P have the shape of a modelled one, either in their reply macro or in their fan-out. RedisPartition's values are strings and counters. `append`, `setex` (an expiry), and the hash, list, set and sorted-set commands need value types the model does not have.
- **Host and port lists.** `RedisBase2Multi::__inner_init` parses them, and `RedisTss::inner_init` splits them. This is string handling.
- **Out of reach or out of scope:**
  - the syscall loops of `os.cpp`, which are I/O;
  - the monitor and hash command-line tools and the test drivers;
  - the argc column of the command table beyond the four commands `ArgcOf` checks, which is data of the same shape.
