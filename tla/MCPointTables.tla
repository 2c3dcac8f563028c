---------------------------- MODULE MCPointTables ----------------------------
(* A small instance of PointTables.  With lengths 1 and 4 the ranges at 0, 2  *)
(* and 3 overlap or stay apart.  Address 0 is the one a pending report cannot *)
(* hold: the debugger breaks there and does not watch it.                     *)
EXTENDS PointTables

MCAddr      == {0, 2, 3}
MCWatchAddr == {2, 3}
MCPacketLen == {0, 1}
==============================================================================
