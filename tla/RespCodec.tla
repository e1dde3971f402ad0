------------------------------ MODULE RespCodec ------------------------------
(***************************************************************************)
(* The RESP codec of RedisProtocol (src/src/redis_protocol.cpp): request  *)
(* encoding (write_command, check_argc, and the printf-style              *)
(* write_commandv) and the reply parser (__read_reply with read_bulk_2,   *)
(* read_multi_bulk_2, read_bulk, parse_integer) as operators over byte    *)
(* sequences, checked against a reference serialisation of the reply      *)
(* grammar over bounded inputs; then what the caller gets from a parsed   *)
(* reply (the RedisOutput getters, the reply macros and wrappers of       *)
(* redis.cpp, the old-style helpers of redis_base.cpp), checked against   *)
(* the interface contract.  A byte is a one-character string;             *)
(* CR and LF stand for \r and \n.  read_line and read(n) of TcpClient are *)
(* taken on the bytes as a whole (TcpClientBuffer checks how they arrive);*)
(* a frame that never completes is "wait": the read times out and closes. *)
(***************************************************************************)
EXTENDS Integers, Sequences, SequencesExt

CONSTANTS
    EmptyBulks   \* TRUE: the inputs include bulks and arguments of length 0

ASSUME EmptyBulks \in BOOLEAN

CR == "r"
LF == "n"
CRLF == <<CR, LF>>
DigitChar == <<"0", "1", "2", "3", "4", "5", "6", "7", "8", "9">>

\* Decimal text of n >= 0, as operator<< of a stringstream writes it.
RECURSIVE Digits(_)
Digits(n) == IF n < 10 THEN <<DigitChar[n + 1]>>
             ELSE Digits(n \div 10) \o <<DigitChar[(n % 10) + 1]>>

Decimal(i) == IF i < 0 THEN <<"-">> \o Digits(-i) ELSE Digits(i)

\* Faulty variant of Encode: the header counts the arguments only.
EncodeCountArgsOnly(tokens) ==
    <<"*">> \o Digits(Len(tokens) - 1) \o CRLF \o
    FlattenSeq([i \in 1..Len(tokens) |-> <<"$">> \o Digits(Len(tokens[i])) \o CRLF \o tokens[i] \o CRLF])

\* RedisProtocol::write_command: *<argc+1>, then $<len> and the bytes of
\* the command name and of each argument, every line ended by CR LF.
Encode(tokens) ==
    <<"*">> \o Digits(Len(tokens)) \o CRLF \o
    FlattenSeq([i \in 1..Len(tokens) |-> <<"$">> \o Digits(Len(tokens[i])) \o CRLF \o tokens[i] \o CRLF])

\* Command names, and their argc in s_command_map (redis_cmd.cpp): n
\* arguments exactly, at least -n when negative, or ARGC_NO_CHECKING.
GET == <<"G", "E", "T">>
SET == <<"S", "E", "T">>
MSET == <<"M", "S", "E", "T">>
INFO == <<"I", "N", "F", "O">>
Cmds == {GET, SET, MSET, INFO}
NoArgcCheck == -65535
ArgcOf(c) == CASE c = GET -> 1 [] c = SET -> 2 [] c = MSET -> -2 [] c = INFO -> NoArgcCheck

\* RedisProtocol::check_argc.
CheckArgc(argc, given) ==
    \/ argc = NoArgcCheck
    \/ argc >= 0 /\ argc = given
    \/ argc < 0 /\ given >= -argc

\* RedisInput::set_command(const std::string&): the name upper-cased and
\* looked up in s_command_rev_map; NOOP when it is not there.
UpperChar(c) == CASE c = "g" -> "G" [] c = "e" -> "E" [] c = "t" -> "T" [] c = "s" -> "S" [] OTHER -> c
ToUpper(w) == [i \in 1..Len(w) |-> UpperChar(w[i])]
NOOP == <<"N", "O", "O", "P">>
SetCommand(w) == IF ToUpper(w) \in Cmds THEN ToUpper(w) ELSE NOOP

\* vsnprintf of a format whose "%" are %s conversions: each takes the
\* next argument of the va_list; one read past the arguments gives junk.
RECURSIVE Subst(_, _)
Subst(fmt, args) ==
    IF fmt = <<>> THEN <<>>
    ELSE IF Head(fmt) = "%"
         THEN (IF args = <<>> THEN <<"?">> ELSE Head(args)) \o Subst(Tail(fmt), IF args = <<>> THEN <<>> ELSE Tail(args))
    ELSE <<Head(fmt)>> \o Subst(Tail(fmt), args)

\* The texts the buffer loop of write_commandv can end with.  A text that
\* does not fit in buf_len bytes is formatted again from the same ap, with
\* no va_copy: where va_list is passed by reference (x86-64) the first
\* call has consumed it and every conversion reads past the arguments;
\* where it is copied the text comes out right.  Undefined either way.
FormatResults(fmt, args, bufLen) ==
    LET t == Subst(fmt, args)
    IN  IF Len(t) < bufLen \/ \A i \in 1..Len(fmt) : fmt[i] # "%" THEN {t}
        ELSE {t, Subst(fmt, <<>>)}

IsSpace(c) == c \in {" ", CR, LF}

\* boost::trim: leading and trailing white space removed.
Trim(t) ==
    LET in == {i \in 1..Len(t) : ~IsSpace(t[i])}
    IN  IF in = {} THEN <<>> ELSE SubSeq(t, Min(in), Max(in))

\* boost::split on " ": the pieces between spaces, empty ones included.
RECURSIVE SplitSpace(_)
SplitSpace(t) ==
    LET at == {i \in 1..Len(t) : t[i] = " "}
    IN  IF at = {} THEN <<t>>
        ELSE <<SubSeq(t, 1, Min(at) - 1)>> \o SplitSpace(SubSeq(t, Min(at) + 1, Len(t)))

\* Faulty variant of Args: the empty pieces are kept.
ArgsKeepEmpty(t) == SplitSpace(Trim(t))

\* write_commandv: trim, split, then remove_if is_empty_string.
Args(t) == SelectSeq(SplitSpace(Trim(t)), LAMBDA p : p # <<>>)

\* RedisProtocol::write_commandv after formatting: the tokens written, or
\* <<>> when it fails before writing (no argument, an unknown command,
\* check_argc).  The name is written as the caller spelled it.
WriteCommandV(t) ==
    LET a == Args(t)
    IN  IF a = <<>> THEN <<>>
        ELSE IF SetCommand(a[1]) = NOOP THEN <<>>
        ELSE IF ~CheckArgc(ArgcOf(SetCommand(a[1])), Len(a) - 1) THEN <<>>
        ELSE a

-----------------------------------------------------------------------------
(* Reply values and outcomes. *)

Status(t) == [kind |-> "status", text |-> t]
Err(t)    == [kind |-> "error", text |-> t]
IntReply(i) == [kind |-> "integer", i |-> i]
Bulk(d)   == [kind |-> "bulk", data |-> d]
NilBulk   == [kind |-> "nilbulk"]
MBulk(e)  == [kind |-> "mbulk", elems |-> e]
NilMBulk  == [kind |-> "nilmbulk"]
SMBulk(e) == [kind |-> "smbulk", elems |-> e]
NilSMBulk == [kind |-> "nilsmbulk"]

Ok(v, rest) == [st |-> "ok", val |-> v, rest |-> rest]
\* A -ERR reply: error_ = its text, false returned, the connection kept.
ServerError(t, rest) == [st |-> "error", val |-> Err(t), rest |-> rest]
Fatal == [st |-> "fatal"]                              \* close() and false
Wait  == [st |-> "wait"]                               \* the read times out

-----------------------------------------------------------------------------
(* The parser. *)

\* RedisProtocol::read_line: the bytes before the first CR LF, as
\* TcpClient::read_line returns them; an empty line closes.
ReadLine(s) ==
    LET at == {i \in 1..Len(s) - 1 : s[i] = CR /\ s[i + 1] = LF}
    IN  IF at = {} THEN Wait
        ELSE IF Min(at) = 1 THEN Fatal
        ELSE Ok(SubSeq(s, 1, Min(at) - 1), SubSeq(s, Min(at) + 2, Len(s)))

\* Faulty variant of Read: the two delimiter bytes are left unread.
ReadKeepDelim(n, s) ==
    IF Len(s) < n + 2 THEN Wait ELSE Ok(SubSeq(s, 1, n), SubSeq(s, n + 1, Len(s)))

\* RedisProtocol::read through TcpClient::read(n, delim): n + 2 bytes,
\* the first n returned; the last two are dropped unchecked.
Read(n, s) ==
    IF Len(s) < n + 2 THEN Wait ELSE Ok(SubSeq(s, 1, n), SubSeq(s, n + 3, Len(s)))

\* RedisProtocol::parse_integer: strtol on the line after its type byte:
\* an optional sign, then the leading digits; no digits give 0.  errno is
\* taken as 0 before the call (the lengths here cannot overflow).
ParseInteger(line) ==
    LET t == SubSeq(line, 2, Len(line))
        neg == t # <<>> /\ t[1] = "-"
        u == IF t # <<>> /\ t[1] \in {"-", "+"} THEN SubSeq(t, 2, Len(t)) ELSE t
        val(c) == CHOOSE d \in 0..9 : DigitChar[d + 1] = c
        isDigit(c) == c \in {DigitChar[d] : d \in 1..10}
        stop == {j \in 1..Len(u) : ~isDigit(u[j])}
        k == IF stop = {} THEN Len(u) ELSE Min(stop) - 1
        RECURSIVE num(_)
        num(j) == IF j = 0 THEN 0 ELSE 10 * num(j - 1) + val(u[j])
    IN  IF neg THEN -num(k) ELSE num(k)

\* RedisProtocol::read_bulk_2: nil for -1; 0 and other negatives close.
ReadBulk2(header, s) ==
    LET i == ParseInteger(header)
    IN  IF i < -1 \/ i = 0 THEN Fatal
        ELSE IF i = -1 THEN Ok(NilBulk, s)
        ELSE LET r == Read(i, s)
             IN  IF r.st = "ok" THEN Ok(Bulk(r.val), r.rest) ELSE r

\* RedisProtocol::read_bulk: one element of a plain multi-bulk.
ReadBulk(s) ==
    LET l == ReadLine(s)
    IN  IF l.st # "ok" THEN l
        ELSE IF l.val[1] = "$" THEN ReadBulk2(l.val, l.rest)
        ELSE Fatal

\* The loop of read_multi_bulk_2: n bulks, the first failure ends it.
RECURSIVE ReadBulks(_, _, _)
ReadBulks(n, s, acc) ==
    IF n = 0 THEN Ok(acc, s)
    ELSE LET r == ReadBulk(s)
         IN  IF r.st # "ok" THEN r ELSE ReadBulks(n - 1, r.rest, Append(acc, r.val))

\* RedisProtocol::read_multi_bulk_2.
ReadMultiBulk2(header, s) ==
    LET i == ParseInteger(header)
    IN  IF i < -1 THEN Fatal
        ELSE IF i = -1 THEN Ok(NilMBulk, s)
        ELSE LET r == ReadBulks(i, s, <<>>)
             IN  IF r.st = "ok" THEN Ok(MBulk(r.val), r.rest) ELSE r

\* RedisProtocol::__read_reply for a command expecting reply type exp
\* ("status", "integer", "bulk", "mbulk", "smbulk"; kDepends is "depends"
\* with check FALSE); ReadElems is its special multi-bulk loop.  The
\* override of exp in transaction mode is RedisClient's (the reply type
\* the caller passes); the mode flips are modelled there.
RECURSIVE ReadReply(_, _, _), ReadElems(_, _, _, _)
ReadReply(s, exp, check) ==
    LET l == ReadLine(s)
        c == l.val[1]
        h == l.val
        s2 == l.rest
    IN  IF l.st # "ok" THEN l
        ELSE IF c = "-" THEN ServerError(SubSeq(h, 2, Len(h)), s2)
        ELSE IF c = "+" THEN IF check /\ exp # "status" THEN Fatal
                             ELSE Ok(Status(SubSeq(h, 2, Len(h))), s2)
        ELSE IF c = ":" THEN IF check /\ exp # "integer" THEN Fatal
                             ELSE Ok(IntReply(ParseInteger(h)), s2)
        ELSE IF c = "$" THEN IF check /\ exp # "bulk" THEN Fatal
                             ELSE ReadBulk2(h, s2)
        ELSE IF c = "*" THEN
                IF check /\ exp \notin {"mbulk", "smbulk"} THEN Fatal
                ELSE IF exp = "mbulk" THEN ReadMultiBulk2(h, s2)
                ELSE IF ParseInteger(h) = -1 THEN Ok(NilSMBulk, s2)
                ELSE LET r == ReadElems(ParseInteger(h), s2, exp, <<>>)
                     IN  IF r.st = "ok" THEN Ok(SMBulk(r.val), r.rest) ELSE r
        ELSE Fatal

ReadElems(n, s, exp, acc) ==
    IF n <= 0 THEN Ok(acc, s)
    ELSE LET r == ReadReply(s, exp, FALSE)
         IN  IF r.st # "ok" THEN r ELSE ReadElems(n - 1, r.rest, exp, Append(acc, r.val))

-----------------------------------------------------------------------------
(* The reference: the RESP grammar of the spec (section 4), written out. *)

Long == [i \in 1..10 |-> "x"]           \* a two-digit length
Datas == {<<"x">>, <<"x", CR, LF>>, Long} \cup (IF EmptyBulks THEN {<<>>} ELSE {})
Texts == {<<>>, <<"x">>, <<"x", CR>>}
Ints == {0, 1, 12, -3}

Bulks == {Bulk(d) : d \in Datas} \cup {NilBulk}
MBulks == {MBulk(e) : e \in SeqOf(Bulks, 2)} \cup {NilMBulk}
\* Elements of a special multi-bulk (EXEC, kDepends commands); a nested
\* array is read by the special path again.  An error element is left
\* out: it ends the loop with the rest of the reply unread.
Leaves == {Status(<<"x">>), IntReply(12), Bulk(<<"x">>), NilBulk, NilSMBulk,
           SMBulk(<<IntReply(-3)>>), SMBulk(<<Bulk(<<"x">>), NilBulk>>)}
SMBulks == {SMBulk(e) : e \in SeqOf(Leaves, 2)} \cup {NilSMBulk}

OK == <<"O", "K">>
PONG == <<"P", "O", "N", "G">>
BGSAVING == <<"B">>       \* "Background saving started"

Replies ==
    {Status(t) : t \in Texts \cup {OK, PONG, BGSAVING}} \cup {Err(t) : t \in Texts}
    \cup {IntReply(i) : i \in Ints} \cup Bulks \cup MBulks \cup SMBulks

RECURSIVE Serialize(_)
Serialize(r) ==
    LET line(c, t) == <<c>> \o t \o CRLF
        items(e) == FlattenSeq([i \in 1..Len(e) |-> Serialize(e[i])])
    IN  CASE r.kind = "status"  -> line("+", r.text)
          [] r.kind = "error"   -> line("-", r.text)
          [] r.kind = "integer" -> line(":", Decimal(r.i))
          [] r.kind = "bulk"    -> line("$", Digits(Len(r.data))) \o r.data \o CRLF
          [] r.kind \in {"mbulk", "smbulk"} -> line("*", Digits(Len(r.elems))) \o items(r.elems)
          [] OTHER              -> line(IF r.kind = "nilbulk" THEN "$" ELSE "*", <<"-", "1">>)

\* The reply type of a command whose reply is r.
ExpFor(r) ==
    CASE r.kind \in {"status", "integer"} -> r.kind
      [] r.kind \in {"bulk", "nilbulk", "error"} -> "bulk"
      [] r.kind \in {"mbulk", "nilmbulk"} -> "mbulk"
      [] OTHER -> "smbulk"

Tokens == {<<"x">>, <<"x", CR, LF>>, Long} \cup (IF EmptyBulks THEN {<<>>} ELSE {})
ArgLists == SeqOf(Tokens, 2)

\* The words of a text, as the comments of exec_command(command, format,
\* ...) describe it (redis_base.h, redis_protocol.h): words are split by
\* space.  Each word starts after a space or at the beginning and runs to
\* the next space or the end.
Words(t) ==
    LET starts == SetToSortSeq({i \in 1..Len(t) : t[i] # " " /\ (i = 1 \/ t[i - 1] = " ")}, <)
        end(i) == CHOOSE j \in i..Len(t) : (\A m \in i..j : t[m] # " ") /\ (j = Len(t) \/ t[j + 1] = " ")
    IN  [k \in 1..Len(starts) |-> SubSeq(t, starts[k], end(starts[k]))]

\* The request a text command stands for: its words, or none when there
\* are no words, the first names no command, or the count of the others
\* is not what the command takes.
TextRequest(t) ==
    LET w == Words(t)
    IN  IF w = <<>> \/ ToUpper(w[1]) \notin Cmds THEN <<>>
        ELSE IF CheckArgc(ArgcOf(ToUpper(w[1])), Len(w) - 1) THEN w ELSE <<>>

X == <<"x">>
\* printf-style calls: a format ("%" a %s) and its textual arguments.
TextCalls ==
    {[fmt |-> <<"g", "e", "t", " ", "%">>, args |-> <<X>>],
     [fmt |-> <<" ">> \o GET \o <<" ", " ", "%", " ">>, args |-> <<X>>],
     [fmt |-> SET \o <<" ", "%", " ", "%">>, args |-> <<X, X>>],
     [fmt |-> GET \o <<" ", "%", " ", "%">>, args |-> <<X, X>>],
     [fmt |-> MSET \o <<" ", "%">>, args |-> <<X>>],
     [fmt |-> <<" ", " ">>, args |-> <<>>],
     [fmt |-> <<"%", " ", "%">>, args |-> <<X, X>>],
     [fmt |-> <<"%">>, args |-> <<<<"s", "e", "t", " ", "x", " ", "x">>>>],
     [fmt |-> INFO, args |-> <<>>]}

\* Replies read one after another from s, the i-th of type exps[i]:
\* the values, or the first outcome that is neither a value nor -ERR.
RECURSIVE Decode(_, _)
Decode(s, exps) ==
    IF exps = <<>> THEN [st |-> "ok", vals |-> <<>>, rest |-> s]
    ELSE LET r == ReadReply(s, Head(exps), TRUE)
         IN  IF r.st \notin {"ok", "error"} THEN [st |-> r.st, vals |-> <<>>, rest |-> <<>>]
             ELSE LET d == Decode(r.rest, Tail(exps))
                  IN  [d EXCEPT !.vals = <<r.val>> \o @]

-----------------------------------------------------------------------------
(* What the caller gets: the RedisOutput getters behind the reply macros   *)
(* of redis.cpp, a Redis2 wrapper of each macro, and the old-style helpers *)
(* of RedisBase2, applied to the value __read_reply returned.  An outcome  *)
(* is whether the call reports success, the output slots ("none" when     *)
(* untouched) and what last_error was set to: "none", "type"              *)
(* (on_reply_type_error), "exception" (nothing is set: a C++ exception    *)
(* leaves the call), or the server's text.  The NULL-pointer checks       *)
(* (EINVAL) and assure_connect are left out: the caller passes valid      *)
(* slots, and RedisClient models the connection.                          *)

Outcome(ok, out, err) == [ok |-> ok, out |-> out, err |-> err]
Done(out) == Outcome(TRUE, out, "none")
TypeError == Outcome(FALSE, "none", "type")

\* CHECK_STATUS_OK and CHECK_STATUS_PONG: is_status_ok, is_status_pong.
CheckStatus(v, t) == IF v.kind = "status" /\ v.text = t THEN Done("none") ELSE TypeError

\* GET_INTEGER_REPLY: get_i.
GetIntegerReply(v) == IF v.kind = "integer" THEN Done(v.i) ELSE TypeError

\* Faulty variant of GetBulkReply: a nil bulk is not told apart.
GetBulkReplyNoNil(v) ==
    IF v.kind = "bulk" THEN Done([data |-> v.data, nil |-> FALSE]) ELSE TypeError

\* GET_BULK_REPLY: get_bulk (is_bulk), else is_nil_bulk sets *is_nil and
\* leaves _return as it was.
GetBulkReply(v) ==
    IF v.kind = "bulk" THEN Done([data |-> v.data, nil |-> FALSE])
    ELSE IF v.kind = "nilbulk" THEN Done([data |-> "none", nil |-> TRUE])
    ELSE TypeError

\* GET_BULK_REPLY2: get_bulk only.
GetBulkReply2(v) == IF v.kind = "bulk" THEN Done(v.data) ELSE TypeError

\* GET_MBULKS_REPLY: get_mbulks(mbulk_t *) clears _return first, then
\* takes the elements if is_mbulks (a nil multi-bulk is not).
GetMBulksReply(v) == IF v.kind = "mbulk" THEN Done(v.elems) ELSE Outcome(FALSE, <<>>, "type")

\* Redis2::bxpop after exec_command: a pair of bulks, or expired on nil.
Bxpop(v) ==
    IF v.kind = "mbulk" /\ Len(v.elems) = 2 /\ \A j \in 1..2 : v.elems[j].kind = "bulk"
    THEN Done([key |-> v.elems[1].data, member |-> v.elems[2].data, expired |-> FALSE])
    ELSE IF v.kind = "nilmbulk" THEN Done([key |-> "none", member |-> "none", expired |-> TRUE])
    ELSE TypeError

\* boost::lexical_cast<double> accepts decimal text (digits only here)
\* and throws bad_lexical_cast on anything else, the empty string included.
Numeric(d) == d # <<>> /\ \A j \in 1..Len(d) : d[j] \in {DigitChar[k] : k \in 1..10}

\* Redis2::zscore: the cast is not guarded; the exception leaves the call.
Zscore(v) ==
    IF v.kind = "bulk"
    THEN IF Numeric(v.data) THEN Done([score |-> v.data, nil |-> FALSE])
         ELSE Outcome(FALSE, "none", "exception")
    ELSE IF v.kind = "nilbulk" THEN Done([score |-> "none", nil |-> TRUE])
    ELSE TypeError

\* convertible_2_mbulks: every element has reply_type kBulk, nil or not.
Convertible2MBulks(e) == \A j \in 1..Len(e) : e[j].kind \in {"bulk", "nilbulk"}

\* Redis2::exec, per result swapped into its command: a non-nil special
\* multi-bulk of bulks is converted and set as a multi-bulk.
\* convert(smbulk_t *, mbulk_t *): each element's bulk is moved over, a
\* nil one as NULL, and the result set as a multi-bulk.
ConvertSMBulks(e) == MBulk(e)

Downgrade(o) == IF o.kind = "smbulk" /\ Convertible2MBulks(o.elems) THEN ConvertSMBulks(o.elems) ELSE o

\* Redis2::exec on the EXEC reply; the count check against the queued
\* commands is RedisClient's ExecDone.
ExecReply(v) ==
    IF v.kind = "smbulk" THEN Done([j \in 1..Len(v.elems) |-> Downgrade(v.elems[j])])
    ELSE TypeError

\* Redis2::type: get_status.
TypeReply(v) == IF v.kind = "status" THEN Done(v.text) ELSE TypeError

\* Redis2::zxxxrank: get_i, else a nil bulk sets *not_exists.
Zxxxrank(v) ==
    IF v.kind = "integer" THEN Done([rank |-> v.i, not_exists |-> FALSE])
    ELSE IF v.kind = "nilbulk" THEN Done([rank |-> "none", not_exists |-> TRUE])
    ELSE TypeError

\* Redis2::brpoplpush (kDepends, so "*-1" is read as a nil special
\* multi-bulk): get_bulk, else is_nil_smbulks sets *expired.
Brpoplpush(v) ==
    IF v.kind = "bulk" THEN Done([member |-> v.data, expired |-> FALSE])
    ELSE IF v.kind = "nilsmbulk" THEN Done([member |-> "none", expired |-> TRUE])
    ELSE TypeError

\* Redis2::bgrewriteaof: is_status, with no on_reply_type_error.
IsStatus(v) == IF v.kind = "status" THEN Done("none") ELSE Outcome(FALSE, "none", "none")

\* Redis2::incrbyfloat (hincrbyfloat and zincrby alike): get_bulk, then an
\* unguarded lexical_cast<double>.
FloatReply(v) ==
    IF v.kind = "bulk"
    THEN IF Numeric(v.data) THEN Done(v.data) ELSE Outcome(FALSE, "none", "exception")
    ELSE TypeError

\* The reply macro or getters a wrapper ends in, on the reply value v.
Macro(m, v) ==
    CASE m = "status_ok"   -> CheckStatus(v, OK)
      [] m = "status_pong" -> CheckStatus(v, PONG)
      [] m = "status"      -> IsStatus(v)
      [] m = "get_status"  -> TypeReply(v)
      [] m = "integer"     -> GetIntegerReply(v)
      [] m = "bulk"        -> GetBulkReply(v)
      [] m = "bulk2"       -> GetBulkReply2(v)
      [] m = "mbulks"      -> GetMBulksReply(v)
      [] m = "float"       -> FloatReply(v)
      [] m = "bxpop"       -> Bxpop(v)
      [] m = "zxxxrank"    -> Zxxxrank(v)
      [] m = "zscore"      -> Zscore(v)
      [] m = "brpoplpush"  -> Brpoplpush(v)
      [] m = "exec"        -> ExecReply(v)

(* The Redis2 wrappers of redis.cpp, block by block: each one checks its  *)
(* output pointers, runs assure_connect, builds its RedisCommand, runs    *)
(* exec_command and ends in the macro named here.  Its name is that of    *)
(* the command it sends, but for those CommandOf names.                   *)
KeyWrappers == [del |-> "integer", dump |-> "bulk", exists |-> "integer",
    expire |-> "integer", expireat |-> "integer", keys |-> "mbulks",
    move |-> "integer", persist |-> "integer"]
KeyWrappers2 == [pexpire |-> "integer", pexpireat |-> "integer", pttl |-> "integer",
    restore |-> "status_ok", randomkey |-> "bulk", sort |-> "mbulks",
    ttl |-> "integer", type |-> "get_status"]
StringWrappers == [append |-> "integer", decr |-> "integer", decrby |-> "integer",
    get |-> "bulk", getbit |-> "integer", getrange |-> "bulk", getset |-> "bulk",
    incr |-> "integer", incrby |-> "integer"]
StringWrappers2 == [incrbyfloat |-> "float", mget |-> "mbulks", mset |-> "status_ok",
    psetex |-> "status_ok", set |-> "status_ok", setbit |-> "integer",
    setex |-> "status_ok", setnx |-> "integer"]
HashWrappers == [setrange |-> "integer", strlen |-> "integer", hdel |-> "integer",
    hexists |-> "integer", hget |-> "bulk", hgetall |-> "mbulks", hincr |-> "integer"]
HashWrappers2 == [hincrby |-> "integer", hincrbyfloat |-> "float", hkeys |-> "mbulks",
    hlen |-> "integer", hmget |-> "mbulks", hmset |-> "status_ok", hset |-> "integer"]
HashWrappers3 == [hsetnx |-> "integer", hvals |-> "mbulks"]
ListWrappers == [lindex |-> "bulk", linsert |-> "integer", llen |-> "integer",
    lpop |-> "bulk", lpush |-> "integer", lpushx |-> "integer", lrange |-> "mbulks",
    lrem |-> "integer"]
ListWrappers2 == [lset |-> "status_ok", ltrim |-> "status_ok", rpop |-> "bulk",
    rpush |-> "integer", rpushx |-> "integer", sadd |-> "integer", scard |-> "integer"]
SetWrappers == [sismember |-> "integer", smembers |-> "mbulks", spop |-> "bulk",
    srandmember |-> "bulk", srem |-> "integer", zadd |-> "integer", zcard |-> "integer"]
ZsetWrappers == [zcount |-> "integer", zincrby |-> "float", zrange |-> "mbulks",
    zrevrange |-> "mbulks", zrangebyscore |-> "mbulks", zrevrangebyscore |-> "mbulks"]
ZsetWrappers2 == [zrank |-> "zxxxrank", zrevrank |-> "zxxxrank", zrem |-> "integer",
    zremrangebyrank |-> "integer", zremrangebyscore |-> "integer", zscore |-> "zscore"]
ServerWrappers == [flushall |-> "status_ok", flushdb |-> "status_ok", rename |-> "status_ok",
    renamenx |-> "integer", blpop |-> "bxpop", brpop |-> "bxpop",
    brpoplpush |-> "brpoplpush", rpoplpush |-> "bulk"]
SetOpWrappers == [sdiff |-> "mbulks", sdiffstore |-> "integer", sinter |-> "mbulks",
    sinterstore |-> "integer", smove |-> "integer", sunion |-> "mbulks",
    sunionstore |-> "integer"]
SetOpWrappers2 == [zinterstore |-> "integer", zunionstore |-> "integer"]
TransactionWrappers == [publish |-> "integer", multi |-> "status_ok",
    unwatch |-> "status_ok", watch |-> "status_ok"]
ServerWrappers2 == [ping |-> "status_pong", bgrewriteaof |-> "status", bgsave |-> "status_ok",
    dbsize |-> "integer", info |-> "bulk2", lastsave |-> "integer", slaveof |-> "status_ok"]

Wrappers ==
    KeyWrappers @@ KeyWrappers2 @@ StringWrappers @@ StringWrappers2 @@ HashWrappers
    @@ HashWrappers2 @@ HashWrappers3 @@ ListWrappers @@ ListWrappers2 @@ SetWrappers
    @@ ZsetWrappers @@ ZsetWrappers2 @@ ServerWrappers @@ SetOpWrappers
    @@ SetOpWrappers2 @@ TransactionWrappers @@ ServerWrappers2 @@ ("exec" :> "exec")

\* RedisProtocol::exec_command: read_reply returns false on a -ERR reply,
\* error_ holding its text, and the wrapper returns false with it;
\* otherwise the outcome o of the wrapper's macro or getters.
ExecCommand(v, o) == IF v.kind = "error" THEN Outcome(FALSE, "none", v.text) ELSE o

Redis2Call(a, v) == ExecCommand(v, Macro(Wrappers[a], v))

\* s_command_map (redis_cmd.cpp): the reply type of each command's row.
ReplyTypeOf(c) ==
    CASE c \in {"append", "bitcount", "bitop", "dbsize", "decr", "decrby", "del",
                "exists", "expire", "expireat", "getbit", "hdel", "hexists", "hincrby",
                "hlen", "hset", "hsetnx", "incr", "incrby", "lastsave", "linsert",
                "llen", "lpush", "lpushx", "lrem", "move", "msetnx", "persist",
                "pexpire", "pexpireat", "pttl", "publish", "renamenx", "rpush",
                "rpushx", "sadd", "scard", "sdiffstore", "setbit", "setnx",
                "setrange", "sinterstore", "sismember", "smove", "srem", "strlen",
                "sunionstore", "ttl", "zadd", "zcard", "zcount", "zinterstore",
                "zrem", "zremrangebyrank", "zremrangebyscore", "zunionstore"} -> "integer"
      [] c \in {"auth", "bgrewriteaof", "bgsave", "discard", "flushall", "flushdb",
                "hmset", "lset", "ltrim", "migrate", "mset", "multi", "ping",
                "psetex", "quit", "rename", "restore", "select", "set", "setex",
                "shutdown", "slaveof", "type", "unwatch", "watch"} -> "status"
      [] c \in {"blpop", "brpop", "hgetall", "hkeys", "hmget", "hvals", "keys",
                "lrange", "mget", "sdiff", "sinter", "smembers", "sort", "sunion",
                "time", "zrange", "zrangebyscore", "zrevrange", "zrevrangebyscore"} -> "mbulk"
      [] c \in {"dump", "echo", "get", "getrange", "getset", "hget", "hincrbyfloat",
                "incrbyfloat", "info", "lindex", "lpop", "randomkey", "rpop",
                "rpoplpush", "spop", "srandmember", "zincrby", "zscore"} -> "bulk"
      [] c \in {"exec", "psubscribe", "punsubscribe", "subscribe", "unsubscribe"} -> "smbulk"
      [] OTHER -> "depends"         \* the kDepends rows (and NOOP)

\* The wrapper each old-style helper of RedisBase2 calls.
OldWrapper == [old_get |-> "get", old_hget |-> "hget", old_keys |-> "keys",
    old_hgetall |-> "hgetall", old_hgetall_map |-> "hgetall", old_expire |-> "expire",
    old_expireat |-> "expireat", old_hdel |-> "hdel", old_hset |-> "hset",
    old_hmset |-> "hmset"]

\* The command a wrapper or helper sends: hincr is hincrby(key, field, 1),
\* and sort_store is sort with a STORE phrase.
CommandOf(a) ==
    CASE a = "hincr" -> "hincrby"
      [] a \in DOMAIN OldWrapper -> OldWrapper[a]
      [] a = "sort_store" -> "sort"
      [] OTHER -> a

\* RedisProtocol::read_reply: __read_reply with the check on, except that
\* a kDepends row turns it off.
ReadFor(a, s) ==
    LET t == ReplyTypeOf(CommandOf(a)) IN ReadReply(s, t, t # "depends")

\* RedisBase2::get(key, value) and hget(key, field, value) on the outcome
\* w of the bulk wrapper: 1, 0 on nil, -1 on failure.
OldBulkCode(w) ==
    IF ~w.ok THEN Outcome(FALSE, [code |-> -1], w.err)
    ELSE IF w.out.nil THEN Done([code |-> 0])
    ELSE Done([code |-> 1, value |-> w.out.data])

OldGet(v) == OldBulkCode(Redis2Call("get", v))
OldHget(v) == OldBulkCode(Redis2Call("hget", v))

\* RedisBase2::expire, expireat and hdel(key, field): the integer (0 or 1,
\* which static_cast<int> keeps), or -1 on failure.
OldIntCode(w) == IF w.ok THEN Done([code |-> w.out]) ELSE Outcome(FALSE, [code |-> -1], w.err)

OldExpire(v) == OldIntCode(Redis2Call("expire", v))
OldExpireat(v) == OldIntCode(Redis2Call("expireat", v))
OldHdel(v) == OldIntCode(Redis2Call("hdel", v))

\* RedisBase2::hset(key, field, value): the result of hset, the count
\* dropped.
OldHset(v) == LET w == Redis2Call("hset", v) IN Outcome(w.ok, "none", w.err)

\* RedisBase2::hmset of a pair vector or a map: fields and values split
\* into two vectors of one size, so the size check of hmset passes.
OldHmset(v) == Redis2Call("hmset", v)

\* convert(mbulk_t *, string_vector_t *): the non-nil elements' bytes.
ConvertToStrings(e) ==
    LET nn == SelectSeq(e, LAMBDA x : x.kind = "bulk")
    IN  [j \in 1..Len(nn) |-> nn[j].data]

\* RedisBase2::keys(pattern, string_vector_t *): the result of the inner
\* keys() is not returned.
OldKeys(v) ==
    LET w == Redis2Call("keys", v)
    IN  Outcome(TRUE, IF w.ok THEN ConvertToStrings(w.out) ELSE "none", w.err)

\* RedisBase2::hgetall(key, string_pair_vector_t *): element 2i and 2i+1
\* (from 0) make the i-th pair.
OldHgetall(v) ==
    LET w == Redis2Call("hgetall", v)
        e == w.out
    IN  IF ~w.ok THEN Outcome(FALSE, "none", w.err)
        ELSE Done([i \in 1..Len(e) \div 2 |-> <<e[2 * i - 1].data, e[2 * i].data>>])

\* RedisBase2::hgetall(key, string_map_t *): map::insert of each pair,
\* which keeps the first value of a field.
OldHgetallMap(v) ==
    LET w == Redis2Call("hgetall", v)
        e == w.out
        n == Len(e) \div 2
        first(f) == CHOOSE i \in 1..n : e[2 * i - 1].data = f /\ \A j \in 1..i - 1 : e[2 * j - 1].data # f
    IN  IF ~w.ok THEN Outcome(FALSE, "none", w.err)
        ELSE Done([f \in {e[2 * i - 1].data : i \in 1..n} |-> e[2 * first(f)].data])

Project(a, v) ==
    CASE a = "old_get"     -> OldGet(v)
      [] a = "old_hget"    -> OldHget(v)
      [] a = "old_hgetall_map" -> OldHgetallMap(v)
      [] a = "old_keys"    -> OldKeys(v)
      [] a = "old_hgetall" -> OldHgetall(v)
      [] a = "old_expire"  -> OldExpire(v)
      [] a = "old_expireat" -> OldExpireat(v)
      [] a = "old_hdel"    -> OldHdel(v)
      [] a = "old_hset"    -> OldHset(v)
      [] a = "old_hmset"   -> OldHmset(v)
      [] a = "sort_store"  -> Redis2Call("sort", v)
      [] OTHER             -> Redis2Call(a, v)

\* Wrapper or helper a on the bytes s of its reply: exec_command returns
\* false when read_reply fails (close() has run and error_ says why);
\* otherwise the wrapper goes on with the value read, a -ERR included.
ExecWrapper(a, s) ==
    LET p == ReadFor(a, s)
    IN  IF p.st \in {"ok", "error"} THEN Project(a, p.val) ELSE Outcome(FALSE, "none", "closed")

-----------------------------------------------------------------------------
(* A server answering pipelined commands, and a client sending them. *)

CONSTANTS
    MaxReplies, MaxRequests,
    BufLen,       \* the first buf_len of write_commandv (64)
    Apis          \* the wrappers and helpers ProjectionMeetsContract checks

VARIABLES
    replies,    \* the replies the server has sent, in order
    requests    \* the client's calls, in order: the tokens written (<<>>
                \* when the call failed before writing) and, for a text
                \* call, the request its text stands for

vars == <<replies, requests>>

(* The two directions of the connection share no state: a behaviour     *)
(* follows one of them, so that the states are the sum of the two.       *)
SendReply ==
    /\ requests = <<>>
    /\ Len(replies) < MaxReplies
    /\ \E r \in Replies : replies' = Append(replies, r)
    /\ UNCHANGED requests

\* RedisProtocol::write_command: check_argc, then the encoded request.
WriteCommand ==
    /\ replies = <<>> /\ Len(requests) < MaxRequests
    /\ \E c \in Cmds, args \in ArgLists :
         requests' = Append(requests,
                       [form |-> "args", ref |-> <<>>,
                        tokens |-> IF CheckArgc(ArgcOf(c), Len(args)) THEN <<c>> \o args ELSE <<>>])
    /\ UNCHANGED replies

\* RedisProtocol::write_command(command, format, ...) through write_commandv.
WriteCommandText ==
    /\ replies = <<>> /\ Len(requests) < MaxRequests
    /\ \E call \in TextCalls :
         \E t \in FormatResults(call.fmt, call.args, BufLen) :
           requests' = Append(requests,
                         [form |-> "text", ref |-> TextRequest(Subst(call.fmt, call.args)),
                          tokens |-> WriteCommandV(t)])
    /\ UNCHANGED replies

Init == replies = <<>> /\ requests = <<>>

\* The direction followed has carried all it will.
Terminated ==
    /\ Len(replies) = MaxReplies \/ Len(requests) = MaxRequests
    /\ UNCHANGED vars

Next == SendReply \/ WriteCommand \/ WriteCommandText \/ Terminated

Spec == Init /\ [][Next]_vars

\* The bytes on each direction of the connection.
ReplyWire == FlattenSeq([i \in 1..Len(replies) |-> Serialize(replies[i])])
\* The replies as the client reads them, each with its command's type.
ReplyDecode == Decode(ReplyWire, [i \in 1..Len(replies) |-> ExpFor(replies[i])])
Written == SelectSeq(requests, LAMBDA q : q.tokens # <<>>)
RequestWire == FlattenSeq([i \in 1..Len(Written) |-> Encode(Written[i].tokens)])

\* Every request write_command encodes reads back, through the same
\* multi-bulk parser, as the bulks of the command name and its arguments,
\* frame by frame with nothing left over (the encoding round trip).
EncodingRoundTrip ==
    Decode(RequestWire, [i \in 1..Len(Written) |-> "mbulk"])
      = [st |-> "ok", rest |-> <<>>,
         vals |-> [i \in 1..Len(Written) |->
                     MBulk([j \in 1..Len(Written[i].tokens) |-> Bulk(Written[i].tokens[j])])]]

\* A printf-style call writes the request its formatted text stands for,
\* word by word, or fails without writing when that text stands for none
\* (trim, split on " ", removal of empty pieces, the case-blind name
\* lookup and check_argc of write_commandv, and its vsnprintf loop).
TextCommandWords ==
    \A i \in DOMAIN requests : requests[i].form = "text" => requests[i].tokens = requests[i].ref

\* __read_reply, given the pipelined replies of well-formed RESP, returns
\* each reply in turn, for each command's expected type, and consumes
\* exactly the bytes of its frame: no reply is rejected, none bleeds
\* into the next.
ParseTotality == ReplyDecode = [st |-> "ok", vals |-> replies, rest |-> <<>>]

\* The interface of redis_base.h, by the output slots a command declares:
\* int64_t *, std::string * with bool * is_nil, std::string *, double *,
\* mbulk_t *, or none (the bool result alone).
IntOut == {"del", "exists", "expire", "expireat", "move", "persist", "pexpire",
           "pexpireat", "pttl", "ttl", "append", "decr", "decrby", "getbit", "incr",
           "incrby", "setbit", "setnx", "setrange", "strlen", "hdel", "hexists",
           "hincr", "hincrby", "hlen", "hset", "hsetnx", "linsert", "llen", "lpush",
           "lpushx", "lrem", "rpush", "rpushx", "sadd", "scard", "sismember", "srem",
           "zadd", "zcard", "zcount", "zrem", "zremrangebyrank", "zremrangebyscore",
           "renamenx", "sdiffstore", "sinterstore", "smove", "sunionstore",
           "zinterstore", "zunionstore", "publish", "dbsize", "lastsave"}
NilBulkOut == {"dump", "randomkey", "get", "getrange", "getset", "hget", "lindex",
               "lpop", "rpop", "spop", "srandmember", "rpoplpush"}
StringOut == {"info", "type", "incrbyfloat", "hincrbyfloat", "zincrby"}
ListOut == {"keys", "sort", "mget", "hgetall", "hkeys", "hvals", "hmget", "lrange",
            "smembers", "zrange", "zrevrange", "zrangebyscore", "zrevrangebyscore",
            "sdiff", "sinter", "sunion"}
NoOut == {"restore", "mset", "psetex", "set", "setex", "hmset", "lset", "ltrim",
          "flushall", "flushdb", "rename", "multi", "unwatch", "watch", "slaveof",
          "ping", "bgrewriteaof", "bgsave"}

\* The status text a Redis server answers a successful command with.
SuccessText(a) == CASE a = "ping" -> PONG [] a = "bgsave" -> BGSAVING [] OTHER -> OK

\* The kinds of reply a Redis server answers each call with (an -ERR
\* reply aside): GETRANGE and the list reads never answer nil, SORT with
\* STORE answers the count it stored.
Answers(a) ==
    CASE a \in IntOut \cup {"sort_store", "old_expire", "old_expireat", "old_hdel", "old_hset"} -> {"integer"}
      [] a \in (NilBulkOut \ {"getrange"}) \cup {"zscore", "old_get", "old_hget"} -> {"bulk", "nilbulk"}
      [] a \in (StringOut \ {"type"}) \cup {"getrange"} -> {"bulk"}
      [] a \in NoOut \cup {"type", "old_hmset"} -> {"status"}
      [] a \in ListOut \cup {"old_keys", "old_hgetall", "old_hgetall_map"} -> {"mbulk"}
      [] a \in {"zrank", "zrevrank"} -> {"integer", "nilbulk"}
      [] a = "brpoplpush" -> {"bulk", "nilsmbulk"}
      [] a \in {"blpop", "brpop"} -> {"mbulk", "nilmbulk"}
      [] a = "exec" -> {"smbulk", "nilsmbulk"}

\* A float reply (ZSCORE, INCRBYFLOAT, ...) is the text of a number.
Fits(a, r) ==
    \/ r.kind = "error"
    \/ /\ r.kind \in Answers(a)
       /\ a \in {"blpop", "brpop"} /\ r.kind = "mbulk" => Len(r.elems) = 2 /\ \A j \in 1..2 : r.elems[j].kind = "bulk"
       /\ a \in {"zscore", "incrbyfloat", "hincrbyfloat", "zincrby"} /\ r.kind = "bulk" => Numeric(r.data)
       /\ a \in {"old_hgetall", "old_hgetall_map"} =>
            Len(r.elems) % 2 = 0 /\ \A j \in 1..Len(r.elems) : r.elems[j].kind = "bulk"
       /\ a = "old_hgetall_map" =>
            \A i, j \in 1..Len(r.elems) \div 2 : r.elems[2 * i - 1] = r.elems[2 * j - 1] => i = j
       /\ a \in {"old_expire", "old_expireat", "old_hdel"} => r.i \in {0, 1}
       /\ a = "old_keys" => \A j \in 1..Len(r.elems) : r.elems[j].kind = "bulk"

\* The contract of the "API interface design" comment of redis_base.h, its
\* old-style comments ("return 1 ok, 0 if nil, -1 if failed"), and spec
\* 4.6: true for a non-erroneous reply, false for an error reply or a
\* status other than the command's success; a success leaves last_error
\* alone and a failure sets it; a nil bulk sets the nil flag, a nil
\* multi-bulk is told apart from an empty one; the slots get the reply.
Meets(a, r, o) ==
    /\ o.ok => o.err = "none"
    /\ ~o.ok => o.err # "none"
    /\ r.kind = "error" => ~o.ok /\ o.err = r.text
    /\ r.kind # "error" =>
         CASE a \in NoOut -> o.ok = (a = "bgrewriteaof" \/ r.text = SuccessText(a))
           [] a \in IntOut -> o.ok /\ o.out = r.i
           [] a \in NilBulkOut \cup {"zscore"} ->
                LET data == IF a = "zscore" THEN o.out.score ELSE o.out.data
                IN  o.ok /\ o.out.nil = (r.kind = "nilbulk") /\ (r.kind = "bulk" => data = r.data)
           [] a \in StringOut -> o.ok /\ o.out = IF r.kind = "status" THEN r.text ELSE r.data
           [] a \in ListOut -> o.ok /\ o.out = r.elems
           [] a = "sort_store" -> o.ok
           [] a \in {"zrank", "zrevrank"} ->
                o.ok /\ o.out.not_exists = (r.kind = "nilbulk") /\ (r.kind = "integer" => o.out.rank = r.i)
           [] a = "brpoplpush" -> o.ok /\ o.out.expired = (r.kind = "nilsmbulk") /\ (r.kind = "bulk" => o.out.member = r.data)
           [] a \in {"blpop", "brpop"} -> o.ok /\ o.out.expired = (r.kind = "nilmbulk")
                             /\ (r.kind = "mbulk" => <<o.out.key, o.out.member>> = <<r.elems[1].data, r.elems[2].data>>)
           [] a = "exec" -> IF r.kind = "nilsmbulk" THEN ~o.ok ELSE
                              /\ o.ok /\ Len(o.out) = Len(r.elems)
                              /\ \A j \in 1..Len(r.elems) :
                                   LET x == r.elems[j]
                                       y == o.out[j]
                                   IN  IF x.kind = "smbulk" /\ \A k \in 1..Len(x.elems) : x.elems[k].kind \in {"bulk", "nilbulk"}
                                       THEN y.kind = "mbulk" /\ y.elems = x.elems
                                       ELSE y = x
           [] a \in {"old_get", "old_hget"} -> o.out.code = (IF r.kind = "bulk" THEN 1 ELSE 0)
                               /\ (r.kind = "bulk" => o.out.value = r.data)
           [] a \in {"old_expire", "old_expireat", "old_hdel"} -> o.ok /\ o.out.code = r.i
           [] a = "old_hset" -> o.ok
           [] a = "old_hmset" -> o.ok = (r.text = OK)
           [] a = "old_keys" -> o.ok /\ o.out = [j \in 1..Len(r.elems) |-> r.elems[j].data]
           [] a = "old_hgetall" -> o.ok /\ FlattenSeq(o.out) = [j \in 1..Len(r.elems) |-> r.elems[j].data]
           [] a = "old_hgetall_map" -> o.ok /\ DOMAIN o.out = {r.elems[2 * i - 1].data : i \in 1..Len(r.elems) \div 2}
                                     /\ \A i \in 1..Len(r.elems) \div 2 : o.out[r.elems[2 * i - 1].data] = r.elems[2 * i].data

\* Every Redis2 wrapper and RedisBase2 helper of Apis, given any reply a
\* Redis server can answer its command with, read as read_reply reads it
\* for that command's row of s_command_map (ParseTotality checks that the
\* frames of a pipeline come apart), keeps the contract: the table, the
\* reply macros, the RedisOutput getters, the nil handling of
\* GET_BULK_REPLY and bxpop, the exec downgrade of special multi-bulks,
\* the float casts and the old-style conversions.
ProjectionMeetsContract ==
    \A i \in DOMAIN replies, a \in Apis :
       LET r == replies[i]
       IN  Fits(a, r) => Meets(a, r, ExecWrapper(a, Serialize(r)))

=============================================================================
