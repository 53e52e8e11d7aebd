----------------------------- MODULE MCPresence -----------------------------
(* Presence for TLC: a message of one page, one of three with a short last *)
(* page; a tick counter of sixteen values, a timeout of three.             *)
EXTENDS PresenceProofs, TLC

CONSTANTS note, report

MCMessages == {note, report}
MCLineCount == (note :> 1) @@ (report :> 7)
=============================================================================
