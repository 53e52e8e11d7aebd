------------------------------ MODULE MCTasks ------------------------------
(* For TLC: module Tasks with two clients, two callers and two packets.     *)
EXTENDS Tasks, TLC

CONSTANTS ann, bob, c1, p1

(* Two clients post once: one a notification in two pieces, the other that  *)
(* or one of everything that is wrong.                                      *)
Posted(pieces, parses, large, strings, level) ==
  [pieces |-> pieces, large |-> large, parses |-> parses, strings |-> strings,
   level |-> level]
BothPost == Posted(2, 2, FALSE, TRUE, "INFO")
Posts == (bob :> {BothPost}) @@ ann :>
  {BothPost, Posted(2, 1, FALSE, TRUE, "ATTENTION"), Posted(2, 1, FALSE, TRUE, "other"),
   Posted(1, 0, FALSE, TRUE, "INFO"), Posted(1, 1, FALSE, FALSE, "WARNING"),
   Posted(0, 0, FALSE, FALSE, "other"), Posted(1, 1, TRUE, TRUE, "INFO")}
BothRest == [c \in {ann, bob} |-> BothPost]

-----------------------------------------------------------------------------
(* Properties *)

(* Whoever waits inside mdns_query is woken in the end: MdnsQuerier,        *)
(* mdns_querier.c:155-184,787.  One caller stands for both, which differ in *)
(* nothing.                                                                 *)
QueryEnds == Searches!QueryEnds(c1)

(* A packet that is due is sent, or was cleared, one standing for both:     *)
(* MdnsTx, mdns_send.c:1720-1752.                                           *)
DueIsSent == Queue!DueIsSent(p1)
=============================================================================
