----------------------------- MODULE HttpServer -----------------------------
(***************************************************************************)
(* POST /message, http_server.c: the one task of esp_http_server takes     *)
(* connections in turn and runs message_post_handler on each.  The body    *)
(* arrives in pieces or stops arriving; a client that has no answer loses  *)
(* patience and posts the same notification again on a new connection.     *)
(* What the handler hands to presence.c is module Presence's show_message. *)
(***************************************************************************)
EXTENDS Integers, FiniteSets

CONSTANTS
  Clients,
  Tries,        \* Tries: the posts a client makes at most
  Requests,     \* Requests[c]: what client c may post, see Request
  NoConn        \* the server is between two requests

(* A body of so many pieces, of 512 bytes or more, JSON with at least this *)
(* many pieces of it read, with its four strings, and its level            *)
Request == [pieces : Nat, large : BOOLEAN, parses : Nat, strings : BOOLEAN,
            level : {"INFO", "WARNING", "ATTENTION", "other"}]


VARIABLES
  wants,           \* the notification each client wants shown
  link,            \* "none", "open", "gone" (the client left), "done"
  sent,            \* pieces of the body that have reached the socket
  answer,          \* the status a client read on a connection, or 0
  serving,         \* the connection whose request the task handles
  stage,           \* where message_post_handler is
  total_received,  \* its local of that name, in pieces
  json,            \* the trees cJSON_Parse made and nobody deleted
  shows            \* history: message_handler_handle calls per connection

net == <<wants, link, sent, answer>>
handler == <<serving, stage, total_received, json>>
vars == <<net, handler, shows>>

Conns == Clients \X (1 .. Tries)
RequestOf(k) == wants[k[1]]
Stages == {"idle", "recv", "parse", "fields", "level", "show", "respond"}

-----------------------------------------------------------------------------
(* Clients and the network *)

Post(k) ==
  /\ link[k] = "none"
  /\ k[2] > 1 => link[<<k[1], k[2] - 1>>] \in {"gone", "done"}
                 /\ \A n \in 1 .. k[2] - 1 : answer[<<k[1], n>>] = 0
  /\ link' = [link EXCEPT ![k] = "open"]
  /\ UNCHANGED <<wants, sent, answer, handler, shows>>

Arrive(k) ==
  /\ link[k] = "open" /\ sent[k] < RequestOf(k).pieces
  /\ sent' = [sent EXCEPT ![k] = @ + 1]
  /\ UNCHANGED <<wants, link, answer, handler, shows>>

(* The client has no patience left, or the network lost it *)
Leave(k) ==
  /\ link[k] = "open" /\ answer[k] = 0
  /\ link' = [link EXCEPT ![k] = "gone"]
  /\ UNCHANGED <<wants, sent, answer, handler, shows>>

-----------------------------------------------------------------------------
(* The server task *)

Working(k, s) == serving = k /\ stage = s

(* The handler returns.  httpd_resp_send and httpd_resp_send_err reach the *)
(* client if it is still there; after ESP_FAIL the server hangs up.        *)
Return(k, status) ==
  /\ answer' = IF link[k] = "open" THEN [answer EXCEPT ![k] = status]
                                   ELSE answer
  /\ link' = [link EXCEPT ![k] = "done"]
  /\ serving' = NoConn
  /\ stage' = "idle"
  /\ total_received' = 0
  /\ UNCHANGED <<wants, sent, shows>>

Accept(k) ==
  /\ serving = NoConn
  /\ link[k] \in {"open", "gone"}
  /\ serving' = k
  /\ stage' = "recv"
  /\ UNCHANGED <<net, total_received, json, shows>>

TooLarge(k) ==
  /\ Working(k, "recv")
  /\ RequestOf(k).large
  /\ Return(k, 413)
  /\ UNCHANGED json

(* while (total_received < req->content_len) *)
Incomplete(k) == ~ RequestOf(k).large
                 /\ total_received < RequestOf(k).pieces

Receive_MutLength(k) ==
  /\ Working(k, "recv") /\ Incomplete(k)
  /\ total_received' = total_received + RequestOf(k).pieces
  /\ UNCHANGED <<net, serving, stage, json, shows>>

Receive(k) ==
  /\ Working(k, "recv") /\ Incomplete(k)
  /\ total_received' \in total_received + 1 .. sent[k]
  /\ UNCHANGED <<net, serving, stage, json, shows>>

ReceiveFails_MutRetry(k) ==
  /\ Working(k, "recv") /\ Incomplete(k)
  /\ total_received = sent[k]
  /\ link[k] = "gone"
  /\ Return(k, 0)
  /\ UNCHANGED json

(* received <= 0: nothing came for the server's timeout, or the end of it *)
ReceiveFails(k) ==
  /\ Working(k, "recv") /\ Incomplete(k)
  /\ total_received = sent[k]
  /\ Return(k, 0)
  /\ UNCHANGED json

ReceivedAll(k) ==
  /\ Working(k, "recv")
  /\ ~ RequestOf(k).large /\ ~ Incomplete(k)
  /\ stage' = "parse"
  /\ UNCHANGED <<net, serving, total_received, json, shows>>

Parses(k) == RequestOf(k).parses \in 1 .. total_received

Parse(k) ==
  /\ Working(k, "parse")
  /\ Parses(k)
  /\ json' = json + 1
  /\ stage' = "fields"
  /\ UNCHANGED <<net, serving, total_received, shows>>

InvalidJSON(k) ==
  /\ Working(k, "parse")
  /\ ~ Parses(k)
  /\ Return(k, 400)
  /\ UNCHANGED json

(* The four lookups and type tests, then parse_level *)
FieldsOK(k) ==
  /\ Working(k, "fields")
  /\ RequestOf(k).strings
  /\ stage' = "level"
  /\ UNCHANGED <<net, serving, total_received, json, shows>>

MissingFields(k) ==
  /\ Working(k, "fields")
  /\ ~ RequestOf(k).strings
  /\ json' = json - 1
  /\ Return(k, 400)

parse_level(k) == RequestOf(k).level \in {"INFO", "WARNING", "ATTENTION"}

LevelOK(k) ==
  /\ Working(k, "level")
  /\ parse_level(k)
  /\ stage' = "show"
  /\ UNCHANGED <<net, serving, total_received, json, shows>>

InvalidLevel_MutNoDelete(k) ==
  /\ Working(k, "level")
  /\ ~ parse_level(k)
  /\ json' = json
  /\ Return(k, 400)

InvalidLevel(k) ==
  /\ Working(k, "level")
  /\ ~ parse_level(k)
  /\ json' = json - 1
  /\ Return(k, 400)

Handle(k) ==
  /\ Working(k, "show")
  /\ shows' = [shows EXCEPT ![k] = @ + 1]
  /\ json' = json - 1
  /\ stage' = "respond"
  /\ UNCHANGED <<net, serving, total_received>>

Respond(k) ==
  /\ Working(k, "respond")
  /\ Return(k, 200)
  /\ UNCHANGED json

message_post_handler(k) ==
  \/ TooLarge(k) \/ Receive(k) \/ ReceiveFails(k) \/ ReceivedAll(k)
  \/ Parse(k) \/ InvalidJSON(k) \/ FieldsOK(k) \/ MissingFields(k)
  \/ LevelOK(k) \/ InvalidLevel(k) \/ Handle(k) \/ Respond(k)

Init ==
  /\ wants \in [Clients -> UNION {Requests[c] : c \in Clients}]
  /\ \A c \in Clients : wants[c] \in Requests[c]
  /\ link = [k \in Conns |-> "none"]
  /\ sent = [k \in Conns |-> 0]
  /\ answer = [k \in Conns |-> 0]
  /\ serving = NoConn /\ stage = "idle" /\ total_received = 0 /\ json = 0
  /\ shows = [k \in Conns |-> 0]

Next ==
  \/ \E k \in Conns : Post(k) \/ Arrive(k) \/ Leave(k)
  \/ \E k \in Conns : Accept(k) \/ message_post_handler(k)

Spec == Init /\ [][Next]_vars

(* The server task runs whenever its handler can go on, a receive ends by  *)
(* its timeout at the latest, and its select loop gets round to everyone.  *)
Fairness ==
  \A k \in Conns : WF_vars(message_post_handler(k)) /\ SF_vars(Accept(k))

FairSpec == Spec /\ Fairness

-----------------------------------------------------------------------------
(* Properties *)

(* A notification the handler accepts *)
Valid(r) ==
  /\ ~ r.large /\ r.parses \in 1 .. r.pieces
  /\ r.strings /\ r.level # "other"

(* Every variable keeps its range: http_server.c:40-125. *)
TypeOK ==
  /\ link \in [Conns -> {"none", "open", "gone", "done"}]
  /\ answer \in [Conns -> {0, 200, 400, 413}]
  /\ serving \in Conns \cup {NoConn}
  /\ stage \in Stages /\ (stage = "idle" <=> serving = NoConn)
  /\ shows \in [Conns -> Nat] /\ json \in Nat
  /\ \A k \in Conns : sent[k] \in 0 .. RequestOf(k).pieces
  /\ serving \in Conns => total_received \in 0 .. sent[serving]

(***************************************************************************)
(* What is shown is a whole, valid notification of the client on the other *)
(* end: all of its pieces had arrived, and a body that breaks off, stalls  *)
(* or is cut short by its client shows nothing (http_server.c:54-68,115).  *)
(***************************************************************************)
ShownWhole ==
  \A k \in Conns : shows[k] > 0 =>
    Valid(RequestOf(k)) /\ sent[k] = RequestOf(k).pieces

(***************************************************************************)
(* An answer tells the truth: 200 that the notification was shown, 400 and *)
(* 413 that it was not and never will be, on any connection of that client *)
(* (http_server.c:45,73,91,102,121).                                       *)
(***************************************************************************)
AnswerTrue ==
  \A k \in Conns :
    /\ answer[k] = 200 => shows[k] > 0
    /\ answer[k] \in {400, 413} => ~ Valid(RequestOf(k))
                                   /\ \A n \in 1 .. Tries :
                                        shows[<<k[1], n>>] = 0

(***************************************************************************)
(* A notification is shown again only because its client posted it again   *)
(* without having read an answer: every showing beyond the first is paid   *)
(* for by a post that went unanswered (http_server.c:115-121).             *)
(***************************************************************************)
RepeatsAreRetries ==
  \A c \in Clients :
    Cardinality({p \in (1 .. Tries) \X (1 .. 2 * Tries) :
                   p[2] <= shows[<<c, p[1]>>]})
      <= 1 + Cardinality({n \in 1 .. Tries : /\ link[<<c, n>>] # "none"
                                             /\ answer[<<c, n>>] = 0})

(***************************************************************************)
(* The tree of a request lives just as long as its strings are used, and   *)
(* no path out of the handler leaves one behind (http_server.c:70-117).    *)
(***************************************************************************)
TreeHeld == json = IF stage \in {"fields", "level", "show"} THEN 1 ELSE 0

(* A client that has sent all of its body and waits is answered, although  *)
(* others stall, leave and post at the same time: http_server.c:54-68.     *)
WholeIsAnswered ==
  \A k \in Conns :
    link[k] = "open" /\ sent[k] = RequestOf(k).pieces
      ~> answer[k] # 0 \/ link[k] = "gone"
=============================================================================
