------------------------- MODULE MCProxyTransport -------------------------
(* Finite instances of ProxyTransport. *)
EXTENDS ProxyTransport

CONSTANTS p1, s1

call(n) == [op |-> "call", id |-> n]
cancel(n) == [op |-> "cancel", id |-> n]
eof == [op |-> "eof"]

\* Pipelined calls, timely and late cancellations, an end of input before and
\* after the last answer, and clients that never close their pipe.
MCScripts == {
    <<call(1), call(2), eof>>,
    <<call(1), cancel(1), call(2)>>,
    <<call(1), call(2), cancel(1)>>,
    <<call(1), cancel(2), call(2), eof>>,
    <<call(1), call(2), call(3), cancel(2), eof>>,
    <<call(1), call(2), cancel(1), call(3)>> }
=============================================================================
