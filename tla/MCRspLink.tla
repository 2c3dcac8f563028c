------------------------------ MODULE MCRspLink ------------------------------
(* Packets for TLC.  The buffer holds 4 bytes, 3 of them data: "m1a" just fits, *)
(* "m1ab" has the announced PacketSize of 4 and its cut changes its sum.        *)
EXTENDS RspLink

g  == <<103>>
c  == <<99>>
Q  == <<81>>
k  == <<107>>
D  == <<68>>
m  == <<109, 49, 97>>
m4 == <<109, 49, 97, 98>>

MCPayloads == {<<>>, g, c, Q, m, m4, D, k}

\* In place of a byte may come Ctrl-C, #, $ or a hexadecimal digit.
MCNoise == {3, 35, 36, 54}
==============================================================================
