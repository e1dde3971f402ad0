------------------------- MODULE MC_TcpClientBuffer -------------------------
(* TcpClientBuffer with buffer sizes scaled down from 512 and 65536. *)
EXTENDS TcpClientBuffer

\* A line with a lone CR inside, "a\ra\r\n", then "a\r\n": a CR LF can be
\* split over two reads, and read(n) can take a delimiter as data.
MCStream == <<"a", CR, "a", CR, LF, "a", CR, LF>>
=============================================================================
