------------------------------- MODULE Tasks -------------------------------
(***************************************************************************)
(* The tasks that wait for each other over the network or over a queue:    *)
(* the HTTP server's, the event task, the timer and the service task of    *)
(* mDNS.  The four modules share no state, so that a behaviour picks the   *)
(* part that acts, and the other parts rest in an initial state.  Each of  *)
(* the three that use the action queue has a length of its own here: it is *)
(* one queue on the device, and each module bounds what the others put in. *)
(***************************************************************************)
EXTENDS Serving

CONSTANTS
  StationQueueLen, MaxEvents,                             \* Wifi
  Callers, Memory, Nowhere, SearchQueueLen, Timeout,      \* MdnsQuerier
  MaxSearches, MaxPackets,
  Packets, Nothing, SendQueueLen, MaxOther, TimeRange,    \* MdnsTx
  StartTime, MaxTime, Delays, MaxSends

VARIABLES
  part,
  driver, address, events, handler, mdns_started, registered, hostname,
  services, action_queue, action_sema, pcb, rebooted, dropped,
  search, s_search_once, actions, caller, made, packets,
  elapsed, tx_queue, packet, tx_actions, cursor, in_hand

station == <<driver, address, events, handler, mdns_started, registered, hostname,
             services, action_queue, action_sema, pcb, rebooted, dropped>>
searches == <<search, s_search_once, actions, caller, made, packets>>
queue == <<elapsed, tx_queue, packet, tx_actions, cursor, in_hand>>
vars == <<part, server, station, searches, queue>>

Station == INSTANCE Wifi WITH MDNS_ACTION_QUEUE_LEN <- StationQueueLen
Searches == INSTANCE MdnsQuerier WITH MDNS_ACTION_QUEUE_LEN <- SearchQueueLen
Queue == INSTANCE MdnsTx WITH
  MDNS_ACTION_QUEUE_LEN <- SendQueueLen, action_queue <- tx_actions, Start <- StartTime

ASSUME StationAssumption == {StationQueueLen, MaxEvents} \subseteq Nat

(* No search is allocated at the null pointer.                              *)
ASSUME SearchAssumption ==
  /\ Nowhere \notin Memory
  /\ {SearchQueueLen, Timeout, MaxSearches, MaxPackets} \subseteq Nat

(***************************************************************************)
(* The clock that mDNS sends by, 32 bits of milliseconds on the device,    *)
(* does not wrap in a behaviour, and what is scheduled is less than half   *)
(* its range away: about three weeks and a half of the device's life, that *)
(* may begin any time before the wrap.  The wrap itself is left out: times *)
(* are compared across it unsigned where packets are put in order and      *)
(* signed where they fall due (mdns_send.c:1641,1734).                     *)
(***************************************************************************)
ASSUME QueueAssumption ==
  /\ Nothing \notin Packets
  /\ {StartTime, MaxTime, TimeRange, SendQueueLen, MaxSends} \subseteq Nat
  /\ Delays \subseteq Nat
  /\ \A d \in Delays \cup {0} :
       /\ StartTime + MaxTime + d < TimeRange
       /\ MaxTime + d < TimeRange \div 2

Init ==
  /\ part \in {"server", "station", "searches", "queue"}
  /\ IF part = "server" THEN Server!Init ELSE ServerRests
  /\ Station!Init /\ Searches!Init /\ Queue!Init

ServerActs == part = "server" /\ Server!Next /\ UNCHANGED <<part, station, searches, queue>>
StationActs == part = "station" /\ Station!Next /\ UNCHANGED <<part, server, searches, queue>>
SearchesAct == part = "searches" /\ Searches!Next /\ UNCHANGED <<part, server, station, queue>>
QueueActs == part = "queue" /\ Queue!Next /\ UNCHANGED <<part, server, station, searches>>
Next == ServerActs \/ StationActs \/ SearchesAct \/ QueueActs
Spec == Init /\ [][Next]_vars

(* Each module's fairness, while its part is the one that acts              *)
Fairness ==
  /\ \A k \in Server!Conns :
       /\ WF_server(part = "server" /\ Server!message_post_handler(k))
       /\ WF_server(part = "server" /\ Server!Accept(k))
  /\ WF_station(part = "station" /\ Station!wifi_event_handler)
  /\ WF_station(part = "station" /\ Station!Execute)
  /\ WF_searches(part = "searches" /\ Searches!Timer)
  /\ WF_searches(part = "searches" /\ Searches!Service)
  /\ WF_searches(part = "searches" /\ Searches!Tick)
  /\ \A c \in Callers : WF_searches(part = "searches" /\ Searches!QueryReturns(c))
  /\ WF_queue(part = "queue" /\ Queue!Timer)
  /\ WF_queue(part = "queue" /\ Queue!Receive)
  /\ WF_queue(part = "queue" /\ Queue!Service)
  /\ WF_queue(part = "queue" /\ Queue!Tick)
FairSpec == Spec /\ Fairness

-----------------------------------------------------------------------------
(* Properties *)

(* Every variable keeps its range, in every part. *)
TypeOK == Server!TypeOK /\ Station!TypeOK /\ Searches!TypeOK /\ Queue!TypeOK

(* With room in the action queue, the service task comes to a packet's      *)
(* action when the packet is the first of the queue, which is in order of   *)
(* time: MdnsTx, mdns_send.c:1641,1720-1752,1846.                           *)
HandledInOrder == Queue!HandledAtHead /\ Queue!InOrderOfTime

(* The station that has lost its connection is about to try again, and a    *)
(* connection made again, also while mDNS starts, neither reboots, which    *)
(* only a queue full of packets does, nor leaves the interface without mDNS *)
(* unless its action found no room: Wifi, wifi_connection.c:72-100.         *)
NetworkKept == Station!AlwaysTrying /\ Station!OnlyAFloodReboots /\ Station!Advertised

(* Searches that end, are deleted and get their last answer in any order    *)
(* leave no freed one in the chain, and none is ended by the end of another *)
(* that had its memory: MdnsQuerier, mdns_querier.c:73-92,140-151.          *)
ChainIsLive == Searches!ChainIsLive /\ Searches!EndsForItself

(* Starting mDNS, in which the event task waits for the service task, comes *)
(* to its end, or in a reboot: Wifi, mdns_responder.c:664.                  *)
StartEnds == Station!StartEnds
=============================================================================
