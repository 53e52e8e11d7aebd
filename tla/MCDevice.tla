------------------------------ MODULE MCDevice ------------------------------
(* Device for TLC: a two-page report and a one-page note, a clock short     *)
(* enough to wrap within a behaviour.                                       *)
EXTENDS Device, TLC

CONSTANTS note, report

MCMessages == {note, report}
MCReport == {report}
MCLineCount == (note :> 1) @@ (report :> 4)
MCReportLineCount == report :> 4
MCNote == {note}
MCNoteLineCount == note :> 1
=============================================================================
