---------------------------- MODULE MdnsResults -----------------------------
(***************************************************************************)
(* What a search collects (mdns_querier.c, and mdns_receive.c where it     *)
(* calls it).  Each record of an answer goes to the first search of the    *)
(* chain it fits - an address to every one - and into a result found by    *)
(* instance, by host or simply by interface, as the type of search has it; *)
(* new results are made while there is room.  Records come in any order,   *)
(* twice, and of instances and hosts nobody asked for.                     *)
(*                                                                         *)
(* All records are of the service searched for, on one interface.          *)
(***************************************************************************)
EXTENDS Integers, Sequences, SequencesExt

CONSTANTS
  Chains,              \* what may be searched for at one time, first first
  Instances, Hosts, Ports, Texts, Addresses,
  None                 \* a pointer that is NULL

VARIABLES
  asked,      \* type, instance, service and max of each search
  results,    \* the result list of each search, newest first
  heard       \* history: every record received

vars == <<asked, results, heard>>

NoResult == [instance |-> None, host |-> None, port |-> None, txt |-> None, addr |-> {}]

(* The first result of search n with that quality, 0 if there is none       *)
First(n, Quality(_)) ==
  SelectInSeq(results[n], Quality)

OfInstance(n, r) == First(n, LAMBDA x : x.instance = r.instance)
OfHost(n, r) == First(n, LAMBDA x : x.host = r.host)

HasRoom(n) == asked[n].max = 0 \/ Len(results[n]) < asked[n].max

-----------------------------------------------------------------------------
(* mdns_priv_query_find_from *)

(* A record for a search of any type but PTR must be of its instance.       *)
FitsService(n, r) ==
  /\ asked[n].type \in {r.type, "PTR", "ANY"}
  /\ asked[n].service
  /\ asked[n].type # "PTR" => asked[n].instance = r.instance

FitsAddress(n, r) ==
  IF asked[n].type \in {"PTR", "SRV"}
    THEN OfHost(n, r) > 0
    ELSE /\ asked[n].type \in {"A", "ANY"}
         /\ asked[n].type = "ANY" => ~ asked[n].service
         /\ asked[n].instance = r.host

Fits(n, r) ==
  CASE r.type = "A" -> FitsAddress(n, r)
    [] r.type \in {"SRV", "TXT"} -> FitsService(n, r)
    [] r.type = "PTR" -> asked[n].type = "PTR"

Fitting(r) == {n \in DOMAIN asked : Fits(n, r)}
query_find(r) == CHOOSE n \in Fitting(r) : \A m \in Fitting(r) : n <= m

-----------------------------------------------------------------------------
(* The result list of search n after a record                               *)

Put(n, k, x, new) ==
  CASE k > 0 -> [results[n] EXCEPT ![k] = x]
    [] k = 0 /\ HasRoom(n) -> <<new>> \o results[n]
    [] OTHER -> results[n]

At(n, k) == IF k > 0 THEN results[n][k] ELSE NoResult

(* mdns_priv_query_result_add_ptr *)
add_ptr(n, r) ==
  LET k == OfInstance(n, r)
  IN  Put(n, k, At(n, k), [NoResult EXCEPT !.instance = r.instance])

(* mdns_parse_packet for a PTR search, and result_add_srv: the first host   *)
(* named for an instance stays.                                             *)
add_srv(n, r) ==
  LET k == OfInstance(n, r)
      placed(x) == IF x.host = None THEN [x EXCEPT !.host = r.host, !.port = r.port]
                   ELSE x
      h == OfHost(n, r)
  IN  IF asked[n].type = "PTR"
        THEN Put(n, k, placed(At(n, k)), placed([NoResult EXCEPT !.instance = r.instance]))
        ELSE Put(n, h, At(n, h), [NoResult EXCEPT !.instance = asked[n].instance,
                                                  !.host = r.host, !.port = r.port])

(* mdns_parse_packet for a PTR search, and result_add_txt: any result will  *)
(* do for a search of another type.                                         *)
add_txt_MutAnyInstance(n, r) ==
  LET k == IF results[n] = <<>> THEN 0 ELSE 1
      texted(x) == IF x.txt = None THEN [x EXCEPT !.txt = r.txt] ELSE x
  IN  Put(n, k, texted(At(n, k)), texted(NoResult))

add_txt(n, r) ==
  LET k == IF asked[n].type = "PTR" THEN OfInstance(n, r)
           ELSE IF results[n] = <<>> THEN 0 ELSE 1
      new == IF asked[n].type = "PTR" THEN [NoResult EXCEPT !.instance = r.instance]
             ELSE NoResult
      texted(x) == IF x.txt = None THEN [x EXCEPT !.txt = r.txt] ELSE x
  IN  Put(n, k, texted(At(n, k)), texted(new))

(* result_add_ip: a host's result, or for a search of a host any result.    *)
add_ip(n, r) ==
  LET k == IF asked[n].type \in {"PTR", "SRV"} THEN OfHost(n, r)
           ELSE IF results[n] = <<>> THEN 0 ELSE 1
      with(x) == [x EXCEPT !.addr = @ \cup {r.addr}]
  IN  Put(n, k, with(At(n, k)), with([NoResult EXCEPT !.host = r.host]))

(* One record of mdns_parse_packet                                          *)
ParseAnswer(r) ==
  /\ Fitting(r) # {}
  /\ heard' = heard \cup {r}
  /\ results' =
       CASE r.type = "PTR" -> [results EXCEPT ![query_find(r)] = add_ptr(query_find(r), r)]
         [] r.type = "SRV" -> [results EXCEPT ![query_find(r)] = add_srv(query_find(r), r)]
         [] r.type = "TXT" -> [results EXCEPT ![query_find(r)] = add_txt(query_find(r), r)]
         [] r.type = "A" -> [n \in DOMAIN results |->
                               IF Fits(n, r) THEN add_ip(n, r) ELSE results[n]]
  /\ UNCHANGED asked

Answer == [type : {"PTR"}, instance : Instances]
          \cup [type : {"SRV"}, instance : Instances, host : Hosts, port : Ports]
          \cup [type : {"TXT"}, instance : Instances, txt : Texts]
          \cup [type : {"A"}, host : Hosts, addr : Addresses]

Init ==
  /\ asked \in Chains
  /\ results = [n \in DOMAIN asked |-> <<>>]
  /\ heard = {}

Next == \E r \in Answer : ParseAnswer(r)

Spec == Init /\ [][Next]_vars

-----------------------------------------------------------------------------
(* Properties *)

(* No list is longer than was asked for, and what a result lacks is NULL.   *)
TypeOK ==
  \A n \in DOMAIN asked :
    /\ asked[n].max > 0 => Len(results[n]) <= asked[n].max
    /\ \A k \in DOMAIN results[n] : (results[n][k].host = None) = (results[n][k].port = None)
         \/ asked[n].type \in {"A", "ANY"}

(***************************************************************************)
(* A result is true: its host and port, its text and each address were     *)
(* heard of the very instance and host it is about, though records of      *)
(* several come mixed; and no instance (of a search by name: no host) has  *)
(* two results (mdns_querier.c:518-716, mdns_receive.c:1070-1225).         *)
(***************************************************************************)
ResultsTrue ==
  \A n \in DOMAIN asked : \A k \in DOMAIN results[n] :
    LET x == results[n][k]
        i == IF asked[n].type = "PTR" THEN x.instance ELSE asked[n].instance
        byHost == asked[n].type = "A" \/ (asked[n].type = "ANY" /\ ~ asked[n].service)
    IN  /\ x.host # None /\ ~ byHost =>
             [type |-> "SRV", instance |-> i, host |-> x.host, port |-> x.port] \in heard
        /\ x.txt # None => [type |-> "TXT", instance |-> i, txt |-> x.txt] \in heard
        /\ \A a \in x.addr : [type |-> "A", host |-> x.host, addr |-> a] \in heard
        /\ \A m \in DOMAIN results[n] : m # k =>
             IF asked[n].type = "PTR" THEN results[n][m].instance # x.instance
             ELSE results[n][m].host # x.host
=============================================================================
