--------------------------- MODULE TcpClientBuffer ---------------------------
(***************************************************************************)
(* TcpClientBuffer and the two reading loops of TcpClient::Impl that use  *)
(* it (src/src/tcp_client.cpp): read(size, delim) and read_line(delim).   *)
(* The server sends the fixed byte sequence Stream on the connection;     *)
(* each timed_read returns some of the bytes not yet received, as many as *)
(* the socket has, up to the free space, or fails (timeout, EOF, reset),  *)
(* after which close() clears the buffer and a new connection starts the  *)
(* stream again.  Bytes are "a" (data), CR, LF and "0", the value of a    *)
(* freshly allocated vector<char>.  The delimiter is CR LF, as            *)
(* RedisProtocol passes it.                                                *)
(***************************************************************************)
EXTENDS Integers, Sequences

CONSTANTS
    Stream,        \* the bytes the server sends
    DefaultSize,   \* kDefaultBufferSize
    MaxSize,       \* kMaxBufferSize
    ReadSizes      \* bulk lengths read(size) is called with

CR == "r"
LF == "n"
Bytes == {"a", CR, LF, "0"}

ASSUME DefaultSize >= 1 /\ MaxSize >= DefaultSize /\ Stream \in Seq(Bytes \ {"0"})

VARIABLES
    b,         \* the buffer: [buf, rd, tr]; rd and tr are read_ and to_read_ as offsets
    recv,      \* bytes of Stream received on the current connection
    consumed,  \* bytes of Stream consumed on the current connection
    pc,        \* the running read: [op, n, left, off], op "idle", "read" or "line"
    last       \* history: the last value returned, and where in Stream it began

vars == <<b, recv, consumed, pc, last>>

ReadSize(s) == s.tr - s.rd              \* read_size()
FreeSize(s) == Len(s.buf) - s.tr        \* free_size()

\* The doubling loop of prepare: the first n * 2^k that exceeds min.
RECURSIVE Grow(_, _)
Grow(n, min) == IF n > min THEN n ELSE Grow(2 * n, min)

\* Faulty variant of Prepare: the readable bytes are copied from the
\* start of the old vector instead of from read_.
PrepareCopyFromBegin(s, size, drain) ==
    IF size = 0 \/ (~drain /\ FreeSize(s) >= size) THEN s
    ELSE LET rsize == ReadSize(s)
             n == Grow(Len(s.buf), rsize + size)
         IN  [buf |-> [i \in 1..n |-> IF i <= rsize THEN s.buf[i] ELSE "0"],
              rd |-> 0, tr |-> rsize]

\* TcpClientBuffer::prepare: ensure size free bytes, moving the readable
\* bytes to the front of a new vector of the grown size.
Prepare(s, size, drain) ==
    IF size = 0 \/ (~drain /\ FreeSize(s) >= size) THEN s
    ELSE LET rsize == ReadSize(s)
             n == Grow(Len(s.buf), rsize + size)
         IN  [buf |-> [i \in 1..n |-> IF i <= rsize THEN s.buf[s.rd + i] ELSE "0"],
              rd |-> 0, tr |-> rsize]

\* TcpClientBuffer::drain.
Drain(s) == Prepare(s, DefaultSize, TRUE)

\* TcpClientBuffer::consume: advance read_; an emptied buffer is reset,
\* through drain when it is large.
Consume(s, size) ==
    LET s1 == [s EXCEPT !.rd = @ + size]
    IN  IF ReadSize(s1) = 0 /\ Len(s1.buf) >= MaxSize THEN Drain(s1)
        ELSE IF ReadSize(s1) = 0 THEN [s1 EXCEPT !.rd = 0, !.tr = 0]
        ELSE s1

\* Faulty variant of Clear: the vector is resized but the cursors kept.
ClearKeepCursors(s) ==
    [s EXCEPT !.buf = [i \in 1..DefaultSize |-> IF i <= Len(s.buf) THEN s.buf[i] ELSE "0"]]

\* TcpClientBuffer::clear: resize to the default size, cursors to begin.
Clear(s) ==
    [buf |-> [i \in 1..DefaultSize |-> IF i <= Len(s.buf) THEN s.buf[i] ELSE "0"],
     rd |-> 0, tr |-> 0]

\* timed_read into get_to_read_buffer() returning cnt > 0, then produce.
Fill(s, cnt) ==
    [s EXCEPT !.buf = [i \in DOMAIN @ |-> IF s.tr < i /\ i <= s.tr + cnt
                                          THEN Stream[recv + i - s.tr] ELSE @[i]],
              !.tr = @ + cnt]

\* The counts a timed_read can return on a buffer s.
Counts(s) == 1..IF FreeSize(s) < Len(Stream) - recv THEN FreeSize(s) ELSE Len(Stream) - recv

Idle == [op |-> "idle", n |-> 0, left |-> 0, off |-> 0]

Readable == SubSeq(b.buf, b.rd + 1, b.tr)

\* The first offset >= from in the readable bytes where the delimiter starts.
DelimAt(from) == {j \in from..ReadSize(b) - 2 : Readable[j + 1] = CR /\ Readable[j + 2] = LF}

Return(op, n, data) ==
    /\ b' = Consume(b, n)
    /\ consumed' = consumed + n
    /\ last' = [op |-> op, from |-> consumed, data |-> data]
    /\ pc' = Idle
    /\ UNCHANGED recv

-----------------------------------------------------------------------------
StartRead(n) ==
    /\ pc.op = "idle"
    /\ pc' = [Idle EXCEPT !.op = "read", !.n = n, !.left = n + 2 - ReadSize(b)]
    /\ UNCHANGED <<b, recv, consumed, last>>

StartLine ==
    /\ pc.op = "idle"
    /\ pc' = [Idle EXCEPT !.op = "line"]
    /\ UNCHANGED <<b, recv, consumed, last>>

\* Faulty variant of ReadDone: consume(size), leaving the delimiter in
\* the buffer.
ReadDoneNoDelim ==
    /\ pc.op = "read"
    /\ ReadSize(b) >= pc.n + 2
    /\ Return("read", pc.n, SubSeq(Readable, 1, pc.n))

\* read: enough bytes for size + delim are buffered.
ReadDone ==
    /\ pc.op = "read"
    /\ ReadSize(b) >= pc.n + 2
    /\ Return("read", pc.n + 2, SubSeq(Readable, 1, pc.n))

\* read: prepare(to_read), timed_read, produce, to_read -= count.
ReadMore ==
    /\ pc.op = "read"
    /\ ReadSize(b) < pc.n + 2
    /\ LET s == Prepare(b, pc.left, FALSE)
       IN  \E cnt \in Counts(s) :
             /\ b' = Fill(s, cnt)
             /\ recv' = recv + cnt
             /\ pc' = [pc EXCEPT !.left = @ - cnt]
    /\ UNCHANGED <<consumed, last>>

\* Faulty variant of LineOffset: the offset jumps past every byte
\* searched, so a delimiter split over two reads is missed.
LineOffsetPastEnd(off) == IF ReadSize(b) >= 2 THEN ReadSize(b) ELSE off

\* read_line: where the next search starts when this one finds nothing.
LineOffset(off) == IF off <= ReadSize(b) - 2 THEN ReadSize(b) - 1 ELSE off

\* read_line: the delimiter is in the buffer at or after search_offset.
LineDone ==
    /\ pc.op = "line"
    /\ ReadSize(b) >= 2
    /\ DelimAt(pc.off) # {}
    /\ LET j == CHOOSE x \in DelimAt(pc.off) : \A y \in DelimAt(pc.off) : x <= y
       IN  Return("line", j + 2, SubSeq(Readable, 1, j))

\* read_line: no delimiter; prepare(), timed_read, produce.
LineMore ==
    /\ pc.op = "line"
    /\ ReadSize(b) < 2 \/ DelimAt(pc.off) = {}
    /\ LET s == Prepare(b, DefaultSize, FALSE)
       IN  \E cnt \in Counts(s) :
             /\ b' = Fill(s, cnt)
             /\ recv' = recv + cnt
             /\ pc' = [pc EXCEPT !.off = IF ReadSize(b) >= 2 THEN LineOffset(@) ELSE @]
    /\ UNCHANGED <<consumed, last>>

\* timed_read returns <= 0 in either loop: close() clears the buffer; the
\* caller reconnects and the server sends Stream again.
ReadFail ==
    /\ \/ pc.op = "read" /\ ReadSize(b) < pc.n + 2
       \/ pc.op = "line" /\ (ReadSize(b) < 2 \/ DelimAt(pc.off) = {})
    /\ b' = Clear(Prepare(b, IF pc.op = "read" THEN pc.left ELSE DefaultSize, FALSE))
    /\ recv' = 0
    /\ consumed' = 0
    /\ pc' = Idle
    /\ UNCHANGED last

Init ==
    /\ b = [buf |-> [i \in 1..DefaultSize |-> "0"], rd |-> 0, tr |-> 0]
    /\ recv = 0
    /\ consumed = 0
    /\ pc = Idle
    /\ last = [op |-> "idle", from |-> 0, data |-> <<>>]

Next ==
    \/ \E n \in ReadSizes : StartRead(n)
    \/ StartLine \/ ReadDone \/ ReadMore \/ LineDone \/ LineMore \/ ReadFail

Spec == Init /\ [][Next]_vars

\* The refinement mapping: the abstract stream's bytes are the readable
\* bytes [read_, to_read_) of the buffer, and its last result is what
\* read or read_line last returned.
Abs == INSTANCE BufferedStream WITH q <- Readable, out <- [op |-> last.op, data |-> last.data]

-----------------------------------------------------------------------------
TypeOK ==
    /\ b.buf \in Seq(Bytes)
    /\ 0 <= b.rd /\ b.rd <= b.tr /\ b.tr <= Len(b.buf)
    /\ 0 <= consumed /\ consumed <= recv /\ recv <= Len(Stream)
    /\ pc.op \in {"idle", "read", "line"}

\* The readable bytes [read_, to_read_) are exactly the received bytes of
\* Stream not yet consumed, through every prepare that grows or moves the
\* buffer, the reset and the drain of consume, and clear.
BufferMirrorsStream == Readable = SubSeq(Stream, consumed + 1, recv)

\* What read_line returns is the bytes of Stream up to the first CR LF
\* after where it began; what read(n) returns is the next n bytes.
ReturnsNextFrame ==
    LET at(i) == Stream[last.from + i]
        k == Len(last.data)
    IN  /\ last.data = SubSeq(Stream, last.from + 1, last.from + k)
        /\ last.op = "line" =>
             /\ at(k + 1) = CR /\ at(k + 2) = LF
             /\ \A j \in 1..k - 1 : ~(at(j) = CR /\ at(j + 1) = LF)

\* TcpClient's read and read_line, with prepare, produce, consume and the
\* clear of close, implement the buffered stream of section 4.2: every
\* step either leaves the stream unchanged, appends received bytes, hands
\* out exactly the next frame and removes it with its delimiter, or
\* drops everything on a failed read.
ImplementsBufferedStream == Abs!Spec

=============================================================================
