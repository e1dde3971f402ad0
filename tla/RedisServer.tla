---------------------------- MODULE RedisServer ----------------------------
(***************************************************************************)
(* The Redis server side of one TCP connection, as the client library     *)
(* meets it.  The server is not code of this repository: this module      *)
(* gives the reply a connection's session sends for each request, by the  *)
(* documented semantics of the commands the model uses (SET, INCR,        *)
(* BLPOP, SELECT, MULTI, EXEC, DISCARD, WATCH).                           *)
(*                                                                         *)
(* A request is a record [id, cmd, arg]: id is unique over the whole      *)
(* behaviour, so a reply frame names the request it answers (rid).  A     *)
(* frame is [rid, kind, text, n]: kind is the RESP type byte of the       *)
(* reply ("status" +, "error" -, "integer" :, "smbulk" * for the reply of *)
(* EXEC, "mbulk" * for the reply of BLPOP, whose bulks are not frames of  *)
(* their own: a bulk cannot be an error); text distinguishes +OK from +QUEUED; n is the element count of  *)
(* a multi-bulk header, -1 for the nil multi-bulk *-1.  The elements of   *)
(* an EXEC reply follow their header as frames of their own, exactly as   *)
(* they follow it on the wire.                                            *)
(***************************************************************************)
EXTENDS Integers, Sequences

CONSTANTS
    Cmds,          \* the data commands in use, a subset of {"SET", "INCR"}
    DbIndexes,     \* the database indexes SELECT may name, 0 among them
    ServerErrors   \* TRUE: a data command may be answered by an error

ASSUME Cmds \subseteq {"SET", "INCR"} /\ 0 \in DbIndexes /\ ServerErrors \in BOOLEAN

\* Commands that the server queues inside MULTI and runs at EXEC.
DataCommands == Cmds \cup {"SELECT", "BLPOP"}

\* A fresh session: database 0, no transaction, nothing watched.
NewSession == [db |-> 0, multi |-> FALSE, queue |-> <<>>,
               abort |-> FALSE, watch |-> FALSE, dirty |-> FALSE]

Status(r, t)  == [rid |-> r.id, kind |-> "status",  text |-> t,     n |-> 0]
Error(r)      == [rid |-> r.id, kind |-> "error",   text |-> "ERR", n |-> 0]
Integer(r)    == [rid |-> r.id, kind |-> "integer", text |-> "",    n |-> 0]
MultiBulk(r, len) == [rid |-> r.id, kind |-> "smbulk", text |-> "", n |-> len]
Pop(r, len)   == [rid |-> r.id, kind |-> "mbulk",   text |-> "",    n |-> len]

\* The replies a data command can get when it runs: INCR may fail (a
\* WRONGTYPE or overflow error) when server errors are enabled.  BLPOP
\* answers the key and the element popped, or nil once its timeout ends;
\* when it answers is the server's choice.
RunReplies(r) ==
    CASE r.cmd = "INCR" -> {Integer(r)} \cup (IF ServerErrors THEN {Error(r)} ELSE {})
      [] r.cmd = "BLPOP" -> {Pop(r, 2), Pop(r, -1)}
      [] OTHER -> {Status(r, "OK")}

\* EXEC, DISCARD and an aborted transaction end MULTI and unwatch all keys.
EndTransaction(s) ==
    [s EXCEPT !.multi = FALSE, !.queue = <<>>, !.abort = FALSE,
              !.watch = FALSE, !.dirty = FALSE]

\* The database selected after running the queue q from database db.
DbAfter(db, q) ==
    LET sel == {i \in 1..Len(q) : q[i].cmd = "SELECT"}
    IN  IF sel = {} THEN db
        ELSE q[CHOOSE i \in sel : \A j \in sel : j <= i].arg

\* The element replies EXEC can send for the queue q, one per command.
ExecReplies(q) ==
    {k \in [1..Len(q) -> UNION {RunReplies(q[i]) : i \in 1..Len(q)}] :
        \A i \in 1..Len(q) : k[i] \in RunReplies(q[i])}

Outcome(frames, s) == [out |-> frames, session |-> s]

\* Every pair <<reply frames, next session>> the server may produce for
\* request r in session s.
Serve(r, s) ==
    CASE r.cmd \in DataCommands /\ s.multi ->
            {Outcome(<<Status(r, "QUEUED")>>, [s EXCEPT !.queue = Append(@, r)])}
            \cup (IF ServerErrors
                  THEN {Outcome(<<Error(r)>>, [s EXCEPT !.abort = TRUE])}
                  ELSE {})
      [] r.cmd \in DataCommands ->
            {Outcome(<<f>>, IF r.cmd = "SELECT" THEN [s EXCEPT !.db = r.arg] ELSE s) :
                f \in RunReplies(r)}
      [] r.cmd = "MULTI" ->
            IF s.multi THEN {Outcome(<<Error(r)>>, s)}
            ELSE {Outcome(<<Status(r, "OK")>>, [s EXCEPT !.multi = TRUE])}
      [] r.cmd = "WATCH" ->
            IF s.multi THEN {Outcome(<<Error(r)>>, s)}
            ELSE {Outcome(<<Status(r, "OK")>>, [s EXCEPT !.watch = TRUE])}
      [] r.cmd = "DISCARD" ->
            IF ~s.multi THEN {Outcome(<<Error(r)>>, s)}
            ELSE {Outcome(<<Status(r, "OK")>>, EndTransaction(s))}
      [] r.cmd = "EXEC" ->
            IF ~s.multi THEN {Outcome(<<Error(r)>>, s)}
            ELSE IF s.abort THEN {Outcome(<<Error(r)>>, EndTransaction(s))}
            ELSE IF s.dirty THEN {Outcome(<<MultiBulk(r, -1)>>, EndTransaction(s))}
            ELSE {Outcome(<<MultiBulk(r, Len(s.queue))>> \o k,
                          [EndTransaction(s) EXCEPT !.db = DbAfter(s.db, s.queue)]) :
                     k \in ExecReplies(s.queue)}

\* Another client writes a watched key: the next EXEC answers nil.
Touch(s) == [s EXCEPT !.dirty = s.watch]

=============================================================================
