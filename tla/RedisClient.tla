---------------------------- MODULE RedisClient ----------------------------
(***************************************************************************)
(* One Redis2 client (src/src/redis.cpp) over its RedisProtocol           *)
(* (src/src/redis_protocol.cpp) and TcpClient (src/src/tcp_client.cpp),   *)
(* talking to the session RedisServer gives each TCP connection.          *)
(*                                                                         *)
(* A call of the Redis2 API is a sequence of steps, one per point where   *)
(* the code waits on the network: the connection check (assure_connect   *)
(* or check_connect), each write of a request, each read of a reply.      *)
(* The server runs concurrently: it takes requests from outbox and        *)
(* appends reply frames to inbox, which stands for the socket's receive   *)
(* queue together with TcpClientBuffer.  The server may also close its    *)
(* side at any time, and another client may touch a watched key.         *)
(***************************************************************************)
EXTENDS Integers, Sequences

CONSTANTS
    Cmds,          \* data commands the user issues, a subset of {"SET","INCR"}
    DbIndexes,     \* database indexes select() is called with, 0 among them
    InitDbIndex,   \* the db_index argument of the Redis2 constructor
    MaxReqs,       \* bound: requests written over the whole behaviour
    MaxConns,      \* bound: TCP connections opened over the whole behaviour
    MaxPipeline,   \* bound: commands in one exec_pipeline batch
    ServerErrors   \* TRUE: the server may answer a data command with an error

ASSUME InitDbIndex \in DbIndexes /\ MaxReqs \in Nat /\ MaxConns \in Nat
       /\ MaxPipeline \in Nat \ {0}

Server == INSTANCE RedisServer

VARIABLES
    open,      \* TcpClient fd_ != -1
    peerUp,    \* the server's side of the current connection is open
    tmode,     \* RedisProtocol::transaction_mode_
    blocking,  \* RedisProtocol::blocking_mode_
    inbox,     \* reply frames received and not consumed (socket + buffer_)
    outbox,    \* requests written and not yet taken by the server
    conn,      \* number of connections opened so far
    srv,       \* the server session of the current connection
    dns,       \* the s_host_resolver cache entry of the server: "none", "ok", "fail"
    dbIndex,   \* Redis2::db_index_
    selFail,   \* Redis2::db_index_select_failure_
    tcmds,     \* Redis2::transaction_cmds_, as the ids of the requests
    pc,        \* where the current call is
    op,        \* the current call
    sub,       \* TRUE while assure_connect runs its nested select()
    pending,   \* requests of the current call whose reply is still unread
    nextId,    \* id of the next request written
    lastRead,  \* history: the request and the frame of the last reply read
    lastExec   \* history: the queue and the results of the last exec()

connVars   == <<open, peerUp, tmode, blocking, inbox, outbox, conn, srv, dns>>
redis2Vars == <<dbIndex, selFail, tcmds>>
callVars   == <<pc, op, sub, pending, nextId>>
histVars   == <<lastRead, lastExec>>
vars       == <<connVars, redis2Vars, callVars, histVars>>

-----------------------------------------------------------------------------
(* The command table (redis_cmd.cpp): the reply type each command expects. *)
CommandTable ==
    [SET |-> "status", INCR |-> "integer", SELECT |-> "status",
     MULTI |-> "status", EXEC |-> "smbulk", DISCARD |-> "status",
     WATCH |-> "status", BLPOP |-> "mbulk"]

AllCmds == DOMAIN CommandTable

Request(id, c, a) == [id |-> id, cmd |-> c, arg |-> a]

Call(n, c, a, s) == [name |-> n, cmd |-> c, arg |-> a, cmds |-> s]

NoCall == Call("none", "SET", 0, <<>>)

\* Batches given to exec_pipeline: two or more data commands.
PipelineBatches == UNION {[1..k -> Cmds] : k \in 2..MaxPipeline}

\* The Redis2 methods the model calls.  The typed commands (set, incr)
\* share one shape: assure_connect, exec_command, check the reply type;
\* bxpop (blpop) has that shape with blocking mode set around exec_command.
Calls ==
    {Call("command", c, 0, <<>>) : c \in Cmds}
    \cup {Call("add", c, 0, <<>>) : c \in Cmds}
    \cup {Call("bxpop", "BLPOP", 0, <<>>)}
    \cup {Call("multi", "MULTI", 0, <<>>), Call("watch", "WATCH", 0, <<>>),
          Call("exec", "EXEC", 0, <<>>), Call("discard", "DISCARD", 0, <<>>)}
    \cup {Call("select", "SELECT", i, <<>>) : i \in DbIndexes}
    \cup {Call("pipeline", "SET", 0, b) : b \in PipelineBatches}

AssuredCalls == {"command", "bxpop", "multi", "watch", "pipeline"}
CheckedCalls == {"add", "exec", "discard"}

\* Requests a call may write: a nested SELECT plus its own requests.
Need(c) == (IF c.name \in AssuredCalls THEN 1 ELSE 0)
           + (IF c.name = "pipeline" THEN Len(c.cmds) ELSE 1)

Budget(c) == nextId + Need(c) <= MaxReqs + 1

-----------------------------------------------------------------------------
(* TcpClient *)

\* Faulty variant of DropBuffer: a close that forgets buffer_.clear().
KeepBuffer(buf) == buf

\* Impl::close() and Impl::connect() empty buffer_ (buffer_.clear()).
DropBuffer(buf) == <<>>

\* TcpClient::is_open(): FALSE once fd_ is -1; while the fd is valid the
\* peek that detects a closed peer runs only once per 180 seconds, so a
\* connection the server closed may be reported open or closed.
OpenProbe == IF ~open THEN {FALSE} ELSE IF peerUp THEN {TRUE} ELSE BOOLEAN

\* Faulty variant of CloseConn: fd_ is set to -1 without safe_close(fd_),
\* so the server's side of the socket stays open.
CloseConnLeakingFd ==
    /\ open' = FALSE /\ tmode' = FALSE /\ blocking' = FALSE
    /\ inbox' = DropBuffer(inbox) /\ outbox' = <<>>
    /\ UNCHANGED <<peerUp, conn, srv, dns>>

\* The socket side of RedisProtocol::close().
CloseSocket ==
    /\ open' = FALSE /\ peerUp' = FALSE /\ tmode' = FALSE /\ blocking' = FALSE
    /\ inbox' = DropBuffer(inbox) /\ outbox' = <<>>
    /\ UNCHANGED <<conn, srv>>

\* RedisProtocol::close(): closes the socket, clears the buffer and both
\* modes.  Requests not yet taken by the server die with the socket.
CloseConn == CloseSocket /\ UNCHANGED dns

\* resolve_host: getaddrinfo finds the server or fails (EAI_AGAIN, a
\* resolver outage, ...), reported as an errno.
DnsAnswers == {"ok", "fail"}

\* HostResolver::resolve with the cache enabled, as s_host_resolver is:
\* a cached entry is returned as it is, error included; a miss resolves
\* and caches the answer.  clear_cache is never called.
Resolve == IF dns = "none" THEN DnsAnswers ELSE {dns}

\* RedisProtocol::connect() that succeeds: TcpClient::connect closes the
\* old fd, resolves the host and opens a new connection;
\* transaction_mode_ is left alone.
ConnectOk ==
    /\ conn < MaxConns
    /\ "ok" \in Resolve /\ dns' = "ok"
    /\ open' = TRUE /\ peerUp' = TRUE /\ conn' = conn + 1
    /\ inbox' = DropBuffer(inbox) /\ outbox' = <<>>
    /\ srv' = Server!NewSession
    /\ UNCHANGED <<tmode, blocking>>

\* RedisProtocol::connect() that fails calls close(): the lookup failed
\* (now or when it was cached), or socket() or timed_connect failed.
ConnectFail == CloseSocket /\ \E r \in Resolve : dns' = r

-----------------------------------------------------------------------------
(* RedisProtocol::__read_reply: the outcome of reading one top-level     *)
(* reply for command cmd from the frames in.  res is "ok", "error" (a    *)
(* -ERR reply, the connection stays) or "fatal" (the reply type is not   *)
(* the expected one: the connection is closed); used is the number of    *)
(* frames consumed.                                                      *)

Expected(cmd, tm) ==
    IF tm /\ cmd \notin {"MULTI", "DISCARD", "EXEC"} THEN "status"
    ELSE CommandTable[cmd]

Reply(res, used, tm, f, rids) ==
    [res |-> res, used |-> used, tmode |-> tm, kind |-> f.kind,
     text |-> f.text, n |-> f.n, rids |-> rids]

ReadReply(cmd, tm, in) ==
    LET f   == Head(in)
        exp == Expected(cmd, tm)
        kids == SubSeq(in, 2, 1 + f.n)
        bad  == {i \in 1..f.n : kids[i].kind = "error"}
        execFlip == IF tm /\ cmd = "EXEC" THEN FALSE ELSE tm
    IN  CASE f.kind = "error" -> Reply("error", 1, tm, f, <<>>)
          [] f.kind = "status" /\ exp = "status" ->
                Reply("ok", 1,
                      IF ~tm /\ cmd = "MULTI" THEN TRUE
                      ELSE IF tm /\ cmd = "DISCARD" THEN FALSE ELSE tm,
                      f, <<>>)
          [] f.kind = "integer" /\ exp = "integer" -> Reply("ok", 1, tm, f, <<>>)
          [] f.kind = "mbulk" /\ exp = "mbulk" -> Reply("ok", 1, tm, f, <<>>)
          [] f.kind = "smbulk" /\ exp = "smbulk" /\ f.n = -1 ->
                Reply("ok", 1, execFlip, f, <<>>)
          [] f.kind = "smbulk" /\ exp = "smbulk" /\ bad = {} ->
                Reply("ok", 1 + f.n, execFlip, f, [i \in 1..f.n |-> kids[i].rid])
          [] f.kind = "smbulk" /\ exp = "smbulk" ->
                \* a child that fails ends the read: later children stay unread
                Reply("error", 1 + (CHOOSE i \in bad : \A j \in bad : i <= j),
                      tm, f, <<>>)
          [] OTHER -> Reply("fatal", 1, FALSE, f, <<>>)

-----------------------------------------------------------------------------
(* Steps of a Redis2 call *)

\* The current call returns; only error_ or the caller's output changes.
Return == pc' = "idle" /\ op' = NoCall /\ sub' = FALSE /\ pending' = <<>>

\* Where a call continues once its connection is assured.
Proceed(c) == pc' = IF c.name = "pipeline" THEN "pipe_send" ELSE "send"

\* Redis2::on_reset(), run after a new connection was opened.
OnReset ==
    /\ selFail' = (selFail \/ dbIndex # 0)
    /\ tcmds' = <<>>
    /\ UNCHANGED dbIndex

\* End of Redis2::assure_connect(): select the database again if needed.
AfterAssure(c, failed) ==
    /\ op' = c /\ pending' = <<>>
    /\ IF dbIndex # 0 /\ failed
       THEN pc' = "select_assure" /\ sub' = TRUE
       ELSE Proceed(c) /\ sub' = FALSE

\* Entry of set/incr, multi, watch and exec_pipeline: Redis2::assure_connect
\* over RedisProtocol::assure_connect (status 0: open, 1: new connection).
AssureConnect(c) ==
    /\ pc = "idle" /\ c.name \in AssuredCalls /\ Budget(c)
    /\ \E alive \in OpenProbe :
         \/ /\ alive
            /\ AfterAssure(c, selFail)
            /\ UNCHANGED <<connVars, redis2Vars>>
         \/ /\ ~alive /\ ConnectOk /\ OnReset
            /\ AfterAssure(c, selFail')
         \/ /\ ~alive /\ ConnectFail
            /\ UNCHANGED <<redis2Vars, pc, op, sub, pending>>
    /\ UNCHANGED <<nextId, histVars>>

\* The proto_->assure_connect(NULL) that Redis2::select starts with: it
\* may open a new connection but does not run on_reset.
SelectConnect(c, nested) ==
    \E alive \in OpenProbe :
       \/ /\ alive /\ UNCHANGED connVars
          /\ pc' = "send" /\ op' = c /\ sub' = nested /\ pending' = <<>>
       \/ /\ ~alive /\ ConnectOk
          /\ pc' = "send" /\ op' = c /\ sub' = nested /\ pending' = <<>>
       \/ /\ ~alive /\ ConnectFail /\ Return

\* Redis2::select(i) called by the user.
Select(c) ==
    /\ pc = "idle" /\ c.name = "select" /\ Budget(c)
    /\ SelectConnect(c, FALSE)
    /\ UNCHANGED <<redis2Vars, nextId, histVars>>

\* Redis2::select(db_index_) called from assure_connect.
NestedSelect ==
    /\ pc = "select_assure"
    /\ SelectConnect(op, TRUE)
    /\ UNCHANGED <<redis2Vars, nextId, histVars>>

\* Entry of add_command, exec and discard: RedisProtocol::check_connect,
\* which fails without closing anything.
CheckConnect(c) ==
    /\ pc = "idle" /\ c.name \in CheckedCalls /\ Budget(c)
    /\ \E alive \in OpenProbe :
         \/ alive /\ pc' = "send" /\ op' = c
         \/ ~alive /\ UNCHANGED <<pc, op>>
    /\ UNCHANGED <<connVars, redis2Vars, sub, pending, nextId, histVars>>

\* Redis2::bxpop: get_blocking_mode, set_blocking_mode(true), then its
\* exec_command; a select nested in its assure_connect runs before that.
BxpopBlocking(c, nested) == c.name = "bxpop" /\ ~nested

\* RedisProtocol::write_command: a write to a socket the server closed
\* may still be accepted by the kernel, or fail and close.  bxpop sets
\* blocking mode just before its exec_command.
Send ==
    /\ pc = "send"
    /\ LET r == Request(nextId, IF sub THEN "SELECT" ELSE op.cmd,
                        IF sub THEN dbIndex ELSE op.arg)
       IN  \/ /\ outbox' = Append(outbox, r) /\ nextId' = nextId + 1
              /\ pending' = <<r>> /\ pc' = "recv"
              /\ blocking' = BxpopBlocking(op, sub)
              /\ UNCHANGED <<open, peerUp, tmode, inbox, conn, srv, dns, op, sub>>
           \/ /\ ~peerUp /\ CloseConn /\ Return
              /\ UNCHANGED nextId
    /\ UNCHANGED <<redis2Vars, histVars>>

StatusOk(p) == p.res = "ok" /\ p.kind = "status" /\ p.text = "OK"

\* Redis2::select after exec_command: db_index_ is set before the reply
\* is checked; only a +OK clears the failure flag.
SelectDone(r, p) ==
    IF p.res # "ok" THEN UNCHANGED <<dbIndex, selFail>>
    ELSE dbIndex' = r.arg /\ selFail' = ~StatusOk(p)

\* Redis2::add_command: the command is recorded once exec_command succeeds.
AddDone(r, p) ==
    /\ tcmds' = IF p.res = "ok" THEN Append(tcmds, r.id) ELSE tcmds
    /\ UNCHANGED <<dbIndex, selFail, lastExec>>

\* Redis2::exec: results are handed out only when their number equals the
\* number of recorded commands; only then is transaction_cmds_ emptied.
ExecDone(p) ==
    /\ IF p.res = "ok" /\ p.kind = "smbulk" /\ p.n = Len(tcmds)
       THEN tcmds' = <<>> /\ lastExec' = [queued |-> tcmds, results |-> p.rids]
       ELSE UNCHANGED <<tcmds, lastExec>>
    /\ UNCHANGED <<dbIndex, selFail>>

\* Redis2::discard: transaction_cmds_ is emptied on +OK.
DiscardDone(p) ==
    /\ tcmds' = IF StatusOk(p) THEN <<>> ELSE tcmds
    /\ UNCHANGED <<dbIndex, selFail, lastExec>>

\* What the Redis2 method does with the reply of its request.
Complete(r, p) ==
    CASE sub ->
            /\ SelectDone(r, p) /\ UNCHANGED <<tcmds, lastExec>>
            /\ IF StatusOk(p)
               THEN Proceed(op) /\ sub' = FALSE /\ pending' = <<>> /\ UNCHANGED op
               ELSE Return
      [] op.name = "select" ->
            SelectDone(r, p) /\ UNCHANGED <<tcmds, lastExec>> /\ Return
      [] op.name = "add"     -> AddDone(r, p) /\ Return
      [] op.name = "exec"    -> ExecDone(p) /\ Return
      [] op.name = "discard" -> DiscardDone(p) /\ Return
      [] OTHER -> UNCHANGED <<redis2Vars, lastExec>> /\ Return

Consumed(p) == SubSeq(inbox, p.used + 1, Len(inbox))

\* RedisProtocol::read_reply of the single request of exec_command; then
\* bxpop puts back the blocking mode it saved, which is off: the model's
\* caller never calls set_blocking_mode.
Recv ==
    /\ pc = "recv" /\ inbox # <<>>
    /\ LET r == Head(pending)
           p == ReadReply(r.cmd, tmode, inbox)
       IN  /\ lastRead' = [req |-> r.id, rid |-> Head(inbox).rid]
           /\ IF p.res = "fatal"
              THEN CloseConn /\ Return /\ UNCHANGED <<redis2Vars, lastExec>>
              ELSE /\ inbox' = Consumed(p) /\ tmode' = p.tmode
                   /\ UNCHANGED <<open, peerUp, outbox, conn, srv, dns>> /\ blocking' = FALSE
                   /\ Complete(r, p)
    /\ UNCHANGED nextId

\* RedisProtocol::exec_pipeline, first loop: write the next command, then
\* check that the connection is still open.
PipeSend ==
    /\ pc = "pipe_send"
    /\ LET r == Request(nextId, op.cmds[Len(pending) + 1], 0)
       IN  \/ /\ TRUE \in OpenProbe
              /\ outbox' = Append(outbox, r) /\ nextId' = nextId + 1
              /\ pending' = Append(pending, r)
              /\ pc' = IF Len(pending') = Len(op.cmds) THEN "pipe_recv" ELSE "pipe_send"
              /\ UNCHANGED <<open, peerUp, tmode, blocking, inbox, conn, srv, dns, op, sub>>
           \/ /\ FALSE \in OpenProbe /\ nextId' = nextId + 1
              /\ CloseConn /\ Return
           \/ /\ ~peerUp /\ CloseConn /\ Return
              /\ UNCHANGED nextId
    /\ UNCHANGED <<redis2Vars, histVars>>

\* RedisProtocol::exec_pipeline, second loop: read the next reply; a failed
\* read returns at once, an ok read is followed by the is_open check.
PipeRecv ==
    /\ pc = "pipe_recv" /\ inbox # <<>>
    /\ LET r == Head(pending)
           p == ReadReply(r.cmd, tmode, inbox)
       IN  /\ lastRead' = [req |-> r.id, rid |-> Head(inbox).rid]
           /\ \/ p.res = "fatal" /\ CloseConn /\ Return
              \/ /\ p.res = "error"
                 /\ inbox' = Consumed(p) /\ tmode' = p.tmode
                 /\ UNCHANGED <<open, peerUp, blocking, outbox, conn, srv, dns>>
                 /\ Return
              \/ /\ p.res = "ok" /\ TRUE \in OpenProbe
                 /\ inbox' = Consumed(p) /\ tmode' = p.tmode
                 /\ UNCHANGED <<open, peerUp, blocking, outbox, conn, srv, dns>>
                 /\ IF Len(pending) = 1 THEN Return
                    ELSE pending' = Tail(pending) /\ UNCHANGED <<pc, op, sub>>
              \/ p.res = "ok" /\ FALSE \in OpenProbe /\ CloseConn /\ Return
    /\ UNCHANGED <<redis2Vars, nextId, lastExec>>

\* Faulty variant of ReadFail: a read that waits without a timeout and
\* fails only once the server has closed.
ReadFailNoTimeout ==
    /\ pc \in {"recv", "pipe_recv"} /\ inbox = <<>> /\ ~peerUp
    /\ CloseConn /\ Return
    /\ UNCHANGED <<redis2Vars, nextId, histVars>>

\* Faulty variant of ReadFail: in blocking mode a recv that returns 0 is
\* taken as no data yet, and the read polls again.
ReadFailBlockingNoEof ==
    /\ pc \in {"recv", "pipe_recv"} /\ inbox = <<>> /\ ~blocking
    /\ CloseConn /\ Return
    /\ UNCHANGED <<redis2Vars, nextId, histVars>>

\* TcpClient read or read_line: poll times out, or recv returns 0 because
\* the server closed; either way the connection is closed.  In blocking
\* mode the poll has no timeout (-1), so only the server's close ends it.
ReadFail ==
    /\ pc \in {"recv", "pipe_recv"} /\ inbox = <<>>
    /\ ~blocking \/ ~peerUp
    /\ CloseConn /\ Return
    /\ UNCHANGED <<redis2Vars, nextId, histVars>>

\* Redis2::close().
Close ==
    /\ pc = "idle" /\ CloseConn
    /\ UNCHANGED <<redis2Vars, callVars, histVars>>

\* Redis2::connect(): RedisProtocol::connect() without on_reset.
Connect ==
    /\ pc = "idle" /\ (ConnectOk \/ ConnectFail)
    /\ UNCHANGED <<redis2Vars, callVars, histVars>>

-----------------------------------------------------------------------------
(* The server and the other clients *)

ServerReply ==
    /\ peerUp /\ outbox # <<>>
    /\ \E o \in Server!Serve(Head(outbox), srv) :
         /\ outbox' = Tail(outbox) /\ inbox' = inbox \o o.out
         /\ srv' = o.session
    /\ UNCHANGED <<open, peerUp, tmode, blocking, conn, dns, redis2Vars, callVars, histVars>>

\* The server closes the connection (timeout, restart); replies it already
\* sent stay readable, requests it has not taken are lost.
ServerClose ==
    /\ peerUp /\ peerUp' = FALSE
    /\ UNCHANGED <<open, tmode, blocking, inbox, outbox, conn, srv, dns, redis2Vars, callVars, histVars>>

TouchWatched ==
    /\ peerUp /\ srv.watch /\ ~srv.dirty
    /\ srv' = Server!Touch(srv)
    /\ UNCHANGED <<open, peerUp, tmode, blocking, inbox, outbox, conn, dns, redis2Vars, callVars, histVars>>

-----------------------------------------------------------------------------
Init ==
    /\ open = FALSE /\ peerUp = FALSE /\ tmode = FALSE /\ blocking = FALSE
    /\ inbox = <<>> /\ outbox = <<>> /\ conn = 0 /\ srv = Server!NewSession
    /\ dns = "none"
    /\ dbIndex = InitDbIndex /\ selFail = TRUE /\ tcmds = <<>>
    /\ pc = "idle" /\ op = NoCall /\ sub = FALSE /\ pending = <<>> /\ nextId = 1
    /\ lastRead = [req |-> 0, rid |-> 0]
    /\ lastExec = [queued |-> <<>>, results |-> <<>>]

ClientStep == NestedSelect \/ Send \/ Recv \/ PipeSend \/ PipeRecv \/ ReadFail

Next ==
    \/ \E c \in Calls : AssureConnect(c) \/ Select(c) \/ CheckConnect(c)
    \/ ClientStep
    \/ Close \/ Connect
    \/ ServerReply \/ ServerClose \/ TouchWatched

\* Once a call has started the library runs it to the end: every step is
\* a write, a read bounded by the timeout, or local work.
Spec == Init /\ [][Next]_vars /\ WF_vars(ClientStep)

-----------------------------------------------------------------------------
(* Properties *)

Req   == [id : 1..MaxReqs, cmd : AllCmds, arg : DbIndexes]
Frame == [rid : 1..MaxReqs, kind : {"status", "error", "integer", "smbulk", "mbulk"},
          text : {"OK", "QUEUED", "ERR", ""}, n : -1..MaxReqs]

TypeOK ==
    /\ open \in BOOLEAN /\ peerUp \in BOOLEAN /\ tmode \in BOOLEAN /\ blocking \in BOOLEAN
    /\ inbox \in Seq(Frame) /\ outbox \in Seq(Req)
    /\ conn \in 0..MaxConns /\ dbIndex \in DbIndexes /\ selFail \in BOOLEAN
    /\ tcmds \in Seq(1..MaxReqs)
    /\ pc \in {"idle", "select_assure", "send", "recv", "pipe_send", "pipe_recv"}
    /\ op \in Calls \cup {NoCall} /\ sub \in BOOLEAN
    /\ pending \in Seq(Req) /\ nextId \in 1..MaxReqs + 1
    /\ (peerUp => open) /\ dns \in {"none"} \cup DnsAnswers

\* Every reply read by read_reply, in exec_command or exec_pipeline,
\* answers the request it is read for: no reply of an earlier request or
\* of an earlier connection is ever taken as the answer to a later one.
ReplyAnswersRequest == lastRead.rid = lastRead.req

\* Every call of the Redis2 API but bxpop returns whether or not the
\* server ever answers: reads and connects are bounded by the timeout,
\* every failure path closes or returns, and no call is left in the
\* blocking mode a bxpop set.
CallsReturn == (pc # "idle" /\ op.name # "bxpop") ~> (pc = "idle")

\* bxpop reads without a timeout: it returns provided the server answers
\* the requests it takes while the connection is up (BLPOP answers nil
\* when its own timeout ends) or closes the connection; a server that does
\* neither hangs it, which is the price of blocking mode.
BlockingCallReturns == WF_vars(ServerReply) => ((op.name = "bxpop") ~> (pc = "idle"))

\* When the connection is idle and in step with the server, the client's
\* transaction_mode_ agrees with whether the server is inside MULTI.
TransactionModeAgrees ==
    (pc = "idle" /\ peerUp /\ outbox = <<>> /\ inbox = <<>>) => (tmode = srv.multi)

\* When exec() hands out results, the i-th result is the reply to the
\* i-th command recorded by add_command.
ExecResultsMatchQueue == lastExec.queued = lastExec.results

\* Between calls on a live connection outside a transaction, the server
\* uses the database db_index_ names, unless the next assure_connect is
\* going to select it again.
SelectedDbInUse ==
    (pc = "idle" /\ peerUp /\ ~srv.multi /\ outbox = <<>>)
        => (srv.db = dbIndex \/ (dbIndex # 0 /\ selFail))

=============================================================================
