------------------------------ MODULE Serving ------------------------------
(***************************************************************************)
(* The HTTP server as a part of a composition: module HttpServer with its  *)
(* constants, what they are assumed to be, and its properties.             *)
(***************************************************************************)
EXTENDS Integers, Sequences, FiniteSets

CONSTANTS
  Clients, Tries, Requests, NoConn,
  Resting       \* what the clients want while another part acts

VARIABLES wants, link, sent, answer, serving, stage, total_received, json, shows

server == <<wants, link, sent, answer, serving, stage, total_received, json, shows>>

Server == INSTANCE HttpServer

(* Each post is a request, its client another one than nobody; a client     *)
(* that rests wants something that it may post.                             *)
ASSUME ServerAssumption ==
  /\ Tries \in Nat
  /\ NoConn \notin Clients \X (1 .. Tries)
  /\ \A c \in Clients : Requests[c] \subseteq Server!Request
  /\ Resting \in [Clients -> UNION {Requests[c] : c \in Clients}]
  /\ \A c \in Clients : Resting[c] \in Requests[c]

ServerRests == Server!Init /\ wants = Resting

(* Whatever clients stall, leave and post again, what is shown is a whole   *)
(* valid notification, answers are true, a repeat is its client's own       *)
(* retry, and no tree is left behind: HttpServer, http_server.c:44-125.     *)
ShownAsAsked ==
  /\ Server!ShownWhole /\ Server!AnswerTrue
  /\ Server!RepeatsAreRetries /\ Server!TreeHeld

(* A client that has sent all of its body and waits is answered, although   *)
(* another one stalls: HttpServer, http_server.c:54-68.                     *)
WholeIsAnswered == Server!WholeIsAnswered
=============================================================================
