------------------------------ MODULE MCParser ------------------------------
(***************************************************************************)
(* Instances of Parser: frames with every length at and next to the values *)
(* where a test of the parser changes its answer.                          *)
(***************************************************************************)
EXTENDS Parser

Good == [null |-> FALSE, len |-> 62, ip |-> TRUE, v4 |-> TRUE, ihl |-> 5, total |-> 40,
         proto |-> "TCP", doff |-> 5, udpLen |-> 8]

\* Captured: nothing, around the Ethernet and IPv4 headers, around the ends of
\* the transport headers, and beyond 16 bits.
Captured == {0, 13, 14, 33, 34, 41, 42, 53, 54, 55, 58, 62, 114,
             65535, 65536, 65549, 65600}
Totals == {0, 19, 20, 24, 27, 28, 39, 40, 44, 100, 65535}

Tcp  == {[Good EXCEPT !.len = len, !.total = total, !.ihl = ihl, !.doff = doff] :
            len \in Captured, total \in Totals, ihl \in {4, 5, 6, 15}, doff \in {4, 5, 6, 15}}
Udp  == {[Good EXCEPT !.proto = "UDP", !.len = len, !.total = total, !.ihl = ihl, !.udpLen = u] :
            len \in Captured, total \in Totals, ihl \in {4, 5, 6, 15}, u \in {7, 8, 65535}}
Else == {[Good EXCEPT !.proto = proto, !.len = len, !.total = total, !.ihl = ihl] :
            proto \in {"ICMP", "other"}, len \in Captured, total \in Totals, ihl \in {4, 5, 6, 15}}
Odd  == {[Good EXCEPT !.ip = FALSE], [Good EXCEPT !.v4 = FALSE],
         [Good EXCEPT !.null = TRUE, !.len = 0]}

Boundaries == Tcp \cup Udp \cup Else \cup Odd
=============================================================================
