------------------------------ MODULE MCParts ------------------------------
(* For TLC, the parts that are checked without fairness, side by side in    *)
(* one run: they share no state, a behaviour picks the part that acts, and  *)
(* the others rest in one state of their own.                               *)
EXTENDS Parts, TLC

CONSTANTS
  ann, bob,                                           \* HttpServer
  none,                                           \* Oled
  sta, eth, http, ssh,                                \* MdnsResponder
  b1, b2, web, lpr, on1, on2, v1,       \* MdnsBrowse
  i1, i2, h1, h2, t1, t2, a1,                                \* MdnsResults
  n1, n2, n3, NULL, NoKey                         \* CJsonTree, CJsonUtils

VARIABLES
  part,
  heap, held, lost, kids,
  text, result,
  tree, from, to, work, sensitive, patches, merge, did, returned

items == <<heap, held, lost, kids>>
patching == <<tree, from, to, work, sensitive, patches, merge, did, returned>>

-----------------------------------------------------------------------------
(* HttpServer: two clients post up to twice, one of them a notification in  *)
(* one piece, the other one in two or one of everything that is wrong.      *)
Posted(pieces, parses, large, strings, level) ==
  [pieces |-> pieces, large |-> large, parses |-> parses, strings |-> strings,
   level |-> level]
InOne == Posted(1, 1, FALSE, TRUE, "INFO")
InTwo == Posted(2, 2, FALSE, TRUE, "INFO")
Posts == (bob :> {InOne}) @@ ann :>
  {InTwo, Posted(2, 1, FALSE, TRUE, "ATTENTION"), Posted(2, 1, FALSE, TRUE, "other"),
   Posted(1, 0, FALSE, TRUE, "INFO"), Posted(1, 1, FALSE, FALSE, "WARNING"),
   Posted(0, 0, FALSE, FALSE, "other"), Posted(1, 1, TRUE, TRUE, "INFO")}
BothRest == (bob :> InOne) @@ ann :> InTwo

(* Oled: two pages of two columns, one-column glyphs, more than fit a row.  *)
Drawn == {<<1, none, 1, 1, 1>>}

(* MdnsResponder: two services that come, change and go while Ethernet is   *)
(* never up, or the host alone on both interfaces.                          *)
EthernetDown == pcbs'[eth] = pcbs[eth]
NothingOffered == offered' = {}

(* MdnsBrowse: two instances of a type, one of them on two hosts; packets   *)
(* of one record, or of two about one instance and one of its hosts, and a  *)
(* PTR with another time to live.                                           *)
OneType == [i \in {web, lpr} |-> "_http"]
Naming(about, hosts) ==
  [type : {"PTR"}, instance : about, ttl : 0 .. 1]
  \cup [type : {"SRV"}, instance : about, host : hosts, ttl : 0 .. 1]
Described == [type : {"TXT"}, instance : {web}, txt : {v1}, ttl : 0 .. 1]
Located(hosts) == [type : {"A"}, host : hosts, address : {a1}, ttl : 0 .. 1]
Renewed == [type |-> "PTR", instance |-> web, ttl |-> 2]
Single ==
  {Renewed} \cup Naming({web}, {on1, on2}) \cup Naming({lpr}, {on1})
  \cup Described \cup Located({on1, on2})
Paired == Naming({web}, {on1}) \cup Described \cup Located({on1})
InPackets == {<<r>> : r \in Single} \cup {<<r, q>> : r, q \in Paired}

(* MdnsResults: two searches of different types on the chain.               *)
Ask(type, which, service, max) ==
  [type |-> type, instance |-> which, service |-> service, max |-> max]
SearchChains ==
  {<<Ask("PTR", None, TRUE, 0), Ask("A", h1, FALSE, 1)>>,
   <<Ask("SRV", i1, TRUE, 1), Ask("PTR", None, TRUE, 1)>>,
   <<Ask("TXT", i1, TRUE, 1), Ask("SRV", i1, TRUE, 0)>>,
   <<Ask("ANY", i2, TRUE, 0), Ask("ANY", h1, FALSE, 1)>>}

(* CJsonTree: memory for three items, two names that differ by case.        *)
OneName(name) == "a"
Items == INSTANCE CJsonTree WITH
  Nodes <- {n1, n2, n3}, Fold <- OneName, Names <- {"a", "A"}, Constant <- BOOLEAN,
  MaxWhich <- 1, MaxRefs <- 1

(* CJsonString: three pieces, each of another kind of byte or of escape, at *)
(* the limits of the lengths of UTF-8 and of the surrogates, and the wrong  *)
(* ones; codes are what a piece stands for, none if it is wrong.            *)
Piece(bytes, codes) == [bytes |-> bytes, codes |-> codes]
U(a, b, c, d) == <<92, 117, a, b, c, d>>
PiecesTyped ==
  {Piece(<<97>>, <<97>>), Piece(<<195, 169>>, <<233>>), Piece(<<92, 110>>, <<10>>),
   Piece(<<92, 34>>, <<34>>), Piece(<<92, 92>>, <<92>>), Piece(<<92, 47>>, <<47>>),
   Piece(<<1>>, <<1>>), Piece(<<10>>, <<10>>),
   Piece(U(48, 48, 55, 102), <<127>>), Piece(U(48, 48, 56, 48), <<128>>),
   Piece(U(48, 55, 70, 102), <<2047>>), Piece(U(48, 56, 48, 48), <<2048>>),
   Piece(U(102, 102, 102, 102), <<65535>>),
   Piece(U(100, 56, 48, 48) \o U(100, 99, 48, 48), <<65536>>),
   Piece(U(68, 66, 70, 70) \o U(68, 70, 70, 70), <<1114111>>),
   Piece(U(100, 99, 48, 48), <<>>), Piece(U(100, 56, 48, 48) \o <<97>>, <<>>),
   Piece(U(100, 56, 48, 48) \o U(100, 56, 48, 48), <<>>), Piece(<<92, 120>>, <<>>),
   Piece(U(48, 48, 103, 48), <<0>>)}

(* CJsonParse: five tokens, one of them white; memory for two or three      *)
(* pieces or for all.                                                       *)
Parser == INSTANCE CJsonParse WITH
  MaxLength <- 5, MaxWhite <- 1, Memories <- {2, 3, 9}, CJSON_NESTING_LIMIT <- 2

(* CJsonPrint: trees up to one level deeper than is allowed, of up to two   *)
(* items a level; buffers about as long as their texts.                     *)
Scalar(w) == [type |-> "scalar", width |-> w, kids |-> <<>>]
Node(type, s) == [type |-> type, width |-> 0, kids |-> s]
Lists(S) == {<<>>} \cup {<<a>> : a \in S} \cup {<<a, b>> : a, b \in S}
Nested(S) == {Node(type, s) : type \in {"array", "object"}, s \in Lists(S)}
Flat == {Scalar(w) : w \in {1, 4}}
One == Flat \cup {Node(type, s) : type \in {"array", "object"}, s \in {<<>>, <<Scalar(4)>>}}
Deep(type) == Node(type, <<Node(type, <<Node(type, <<Node(type, <<>>)>>)>>)>>)
Printed == Flat \cup Nested(One) \cup {Deep("array"), Deep("object")}
Printer == INSTANCE CJsonPrint WITH
  Widths <- {1, 4}, Trees <- Printed,
  Lengths <- {0, 1, 4, 7, 12, 14, 15, 18, 25}, default_buffer_size <- 6,
  Reallocations <- {0, 1, 9}, CJSON_NESTING_LIMIT <- 3

(* CJsonUtils: documents that differ in kind, order, length, case and       *)
(* nesting, with names that need an escape; names are ASCII codes.          *)
Lowered(k) == IF k = NoKey THEN k ELSE [i \in DOMAIN k |-> IF k[i] \in 65 .. 90 THEN k[i] + 32 ELSE k[i]]
Doc(kind, val, list) == [kind |-> kind, val |-> val, kids |-> list]
D(i) == Doc("number", i, <<>>)
A(s) == Doc("array", 0, [i \in DOMAIN s |-> <<NoKey, s[i]>>])
O(s) == Doc("object", 0, s)
a == <<97>>
b == <<98>>
c == <<99>>
PatchedDocuments ==
  {Doc("null", 0, <<>>), A(<<D(2)>>), A(<<D(1), D(2), A(<<D(1)>>)>>), O(<<<<c, D(1)>>, <<a, D(2)>>, <<b, D(1)>>>>),
   O(<<<<b, O(<<<<b, D(1)>>, <<a, D(2)>>>>)>>, <<a, D(2)>>>>),
   O(<<<<a, A(<<D(1), D(2)>>)>>>>),
   O(<<<< <<65>>, D(1)>>, <<b, D(1)>>>>),
   O(<<<< <<47, 126>>, O(<<<< <<126, 97>>, D(1)>>, <<b, A(<<D(2)>>)>>>>)>>, << <<126>>, D(1)>>>>)}
Patching == INSTANCE CJsonUtils WITH
  heap <- tree, told <- returned, Nodes <- 1 .. 44, Fold <- Lowered, Targets <- {"copy"},
  Names <- {a, <<48>>, <<49>>, <<45>>},
  Documents <- PatchedDocuments

-----------------------------------------------------------------------------
DisplayRests ==
  /\ oled_buffer = <<>> /\ ram = <<>> /\ chip = [on |-> 0] /\ at = <<"reset">>
  /\ restarts = 0
AnswersRest == asked = <<>> /\ results = <<>> /\ heard = {}
ItemsRest == heap = {} /\ held = {} /\ lost = {} /\ kids = {}
PatchingRests ==
  /\ tree = {} /\ from = {} /\ to = {} /\ work = {} /\ sensitive = {}
  /\ patches = {} /\ merge = {} /\ did = {} /\ returned = {}

Init ==
  /\ part \in {"server", "display", "responder", "responder pair", "browse", "answers",
               "items", "strings", "parser", "printer", "patching"}
  /\ IF part = "server" THEN Server!Init ELSE ServerRests
  /\ IF part = "display" THEN Display!Init ELSE DisplayRests
  /\ Responder!Init /\ Browsing!Init /\ Strings!Init
  /\ IF part = "answers" THEN Answers!Init ELSE AnswersRest
  /\ IF part = "items" THEN Items!Init ELSE ItemsRest
  /\ IF part = "parser" THEN Parser!Init ELSE text = {}
  /\ IF part = "printer" THEN Printer!Init ELSE result = {}
  /\ IF part = "patching" THEN Patching!Init ELSE PatchingRests

Others(acting) ==
  /\ part' = part
  /\ acting # "server" => UNCHANGED server
  /\ acting # "display" => UNCHANGED display
  /\ acting # "responder" => UNCHANGED responder_state
  /\ acting # "browse" => UNCHANGED browses
  /\ acting # "answers" => UNCHANGED answers
  /\ acting # "items" => UNCHANGED items
  /\ acting # "strings" => typed' = typed
  /\ acting # "parser" => text' = text
  /\ acting # "printer" => result' = result
  /\ acting # "patching" => UNCHANGED patching

ServerActs == part = "server" /\ Server!Next /\ Others("server")
DisplayActs == part = "display" /\ Display!Next /\ Others("display")
ResponderActs ==
  part = "responder" /\ Responder!Next /\ EthernetDown /\ Others("responder")
ResponderPairActs ==
  part = "responder pair" /\ Responder!Next /\ NothingOffered /\ Others("responder")
BrowsingActs == part = "browse" /\ Browsing!Next /\ Others("browse")
AnswersAct == part = "answers" /\ Answers!Next /\ Others("answers")
ItemsAct == part = "items" /\ Items!Next /\ Others("items")
StringsAct == part = "strings" /\ Strings!Next /\ Others("strings")
ParserActs == part = "parser" /\ Parser!Next /\ Others("parser")
PrinterActs == part = "printer" /\ Printer!Next /\ Others("printer")
PatchingActs == part = "patching" /\ Patching!Next /\ Others("patching")

Next ==
  \/ ServerActs \/ DisplayActs \/ ResponderActs \/ ResponderPairActs \/ BrowsingActs \/ AnswersAct
  \/ ItemsAct \/ StringsAct \/ ParserActs \/ PrinterActs \/ PatchingActs

vars == <<part, server, display, responder_state, browses, answers, items, typed, text, result, patching>>
Spec == Init /\ [][Next]_vars
Memory == Permutations({n1, n2, n3})

-----------------------------------------------------------------------------
(* Properties *)

(* Every variable of the part that acts keeps its range. *)
TypeOK ==
  CASE part = "server" -> Server!TypeOK
    [] part = "display" -> Display!TypeOK
    [] part \in {"responder", "responder pair"} -> Responder!TypeOK
    [] part = "browse" -> Browsing!TypeOK
    [] part = "answers" -> Answers!TypeOK
    [] part = "items" -> Items!TypeOK
    [] part = "strings" -> Strings!TypeOK
    [] part = "parser" -> Parser!TypeOK
    [] part = "printer" -> Printer!TypeOK
    [] part = "patching" -> Patching!TypeOK

(* After any series of calls each list is the one that was asked for, every *)
(* item has one owner, keys are freed by who copied them, and a copy is     *)
(* equal and shares nothing: CJsonTree, cJSON.c:241-276,2027-2458,2784-2873.*)
TreesWhole ==
  part = "items" => Items!ListsAsAsked /\ Items!OwnedOnce /\ Items!KeysOwned /\ Items!CopyIsEqual

(* A literal is the characters it stands for or is refused; a text is       *)
(* accepted just when it begins with a value, nothing is read past its end  *)
(* and nothing left allocated: CJsonString, CJsonParse, cJSON.c:666-951,    *)
(* 1147-1777.                                                               *)
ParsesTheGrammar ==
  /\ part = "strings" => Strings!LiteralMeant
  /\ part = "parser" => Parser!AcceptsTheGrammar /\ Parser!StaysInBounds

(* However the buffer grows, a call that succeeds leaves the whole text and *)
(* none writes past the end: CJsonPrint, cJSON.c:490-586,1239-1896.         *)
PrintsWhole == part = "printer" => Printer!PrintsWhole /\ Printer!BufferKept

(* What is generated from two documents leads a copy of the first to the    *)
(* second, a single patch does what RFC 6902 says, pointers find what they  *)
(* point to, and nothing leaks: CJsonUtils, cJSON_Utils.c:199-346,807-1471. *)
PatchesLead ==
  part = "patching" =>
    /\ Patching!PointersFind /\ Patching!PatchesLead /\ Patching!PatchMeans
    /\ Patching!MergeLeads /\ Patching!NothingLeaks
=============================================================================
