------------------------------ MODULE MCMdnsTx ------------------------------
(* MdnsTx for TLC: two or three packets, a clock of sixteen values.         *)
EXTENDS MdnsTx

CONSTANTS p1, p2, p3

MCThree == {p1, p2, p3}
MCTwo == {p1, p2}
MCDelays == {0, 1}
=============================================================================
