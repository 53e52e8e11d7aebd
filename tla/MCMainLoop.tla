----------------------------- MODULE MCMainLoop -----------------------------
(* MainLoop for TLC: the constants are in the configuration, which has the  *)
(* delays of the device and leaves room on both sides of the threshold:     *)
(* MinDwell < LongPress - JitterBound, LongPress + JitterBound < MaxHold.   *)
EXTENDS MainLoop
=============================================================================
