------------------------- MODULE MCBigDataTransfer -------------------------
(* BigDataTransfer on a small instance: terminal "a" has a file of three   *)
(* packets and an empty one for "b", and "b" has one of one packet for "a". *)
EXTENDS BigDataTransfer

MCSrc == <<"a", "b", "a">>
MCDst == <<"b", "a", "b">>
MCPackets == <<3, 1, 0>>
=============================================================================
