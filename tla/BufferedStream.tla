--------------------------- MODULE BufferedStream ---------------------------
(***************************************************************************)
(* What the buffered stream of a connection promises its reader (section *)
(* 4.2 of the specification): the bytes the server sends arrive in order  *)
(* and are handed out once each, read_exact(n) taking the next n bytes    *)
(* and the delimiter after them and returning the n, read_line taking     *)
(* the bytes up to and including the first CR LF and returning those      *)
(* before it.  A closed connection loses what was not handed out, and the *)
(* next one receives Stream from its start.  There is no buffer here:     *)
(* q is the sequence of bytes received and not yet handed out.            *)
(***************************************************************************)
EXTENDS Integers, Sequences

CONSTANTS
    Stream,      \* the bytes the server sends on each connection
    ReadSizes    \* the lengths read_exact is called with

CR == "r"
LF == "n"

VARIABLES
    q,      \* bytes received and not yet handed out, in order
    recv,   \* bytes of Stream received on this connection
    out     \* the last result handed out: [op, data]

absVars == <<q, recv, out>>

\* Drop the first n bytes of s.
After(s, n) == SubSeq(s, n + 1, Len(s))

\* The positions j at which the bytes after the first j of q are CR LF.
Delims == {j \in 0..Len(q) - 2 : q[j + 1] = CR /\ q[j + 2] = LF}

\* Some of the bytes the server sent and the reader has not received
\* arrive, in order.
Receive ==
    \E cnt \in 1..Len(Stream) - recv :
        /\ q' = q \o SubSeq(Stream, recv + 1, recv + cnt)
        /\ recv' = recv + cnt
        /\ UNCHANGED out

\* read_exact(n, 2): n bytes and the two after them leave the stream.
ReadExact(n) ==
    /\ Len(q) >= n + 2
    /\ out' = [op |-> "read", data |-> SubSeq(q, 1, n)]
    /\ q' = After(q, n + 2)
    /\ UNCHANGED recv

\* read_line(CR LF): the bytes before the first delimiter, which leaves
\* the stream with them.
ReadLine ==
    \E j \in Delims :
        /\ \A i \in Delims : j <= i
        /\ out' = [op |-> "line", data |-> SubSeq(q, 1, j)]
        /\ q' = After(q, j + 2)
        /\ UNCHANGED recv

\* The connection is closed: what was received and not handed out is
\* lost, and a new connection starts the stream again.
Close ==
    /\ q' = <<>>
    /\ recv' = 0
    /\ UNCHANGED out

Init ==
    /\ q = <<>>
    /\ recv = 0
    /\ out = [op |-> "idle", data |-> <<>>]

Next == Receive \/ (\E n \in ReadSizes : ReadExact(n)) \/ ReadLine \/ Close

Spec == Init /\ [][Next]_absVars

=============================================================================
