---------------------------- MODULE TasksProofs ----------------------------
(***************************************************************************)
(* What the station and the server keep, for every number of clients,      *)
(* events and packets and every length of the queues.  A step of the       *)
(* system is a step of one part, so each part has an invariant of its own. *)
(* Of the packets mDNS sends: they wait in order of time and each is       *)
(* handled at the head of its queue.  Of searches that run once: what the  *)
(* chain of active searches links to, and which search an action still     *)
(* means; timer and service task go along the chain in loops, and what a   *)
(* turn of a loop keeps the loop keeps (Loop).                             *)
(***************************************************************************)
EXTENDS Tasks, PartsProofs

-----------------------------------------------------------------------------
(* The station: wifi_connection.c and mdns_netif.c                         *)

EventKinds == {"STA_START", "STA_CONNECTED", "STA_DISCONNECTED", "GOT_IP"}
ActionKinds == {"rx", "hostname", "instance", "enable4", "announce6",
                "disable4", "disable6"}

StationTyped ==
  /\ Station!TypeOK
  /\ events \in Seq(EventKinds)
  /\ action_queue \in Seq(ActionKinds)

(* Just one event will make the station connect, while it is idle.         *)
Reconnects(i) == events[i] \in {"STA_START", "STA_DISCONNECTED"}
OneCall ==
  /\ \A i, j \in DOMAIN events : Reconnects(i) /\ Reconnects(j) => i = j
  /\ (\E i \in DOMAIN events : Reconnects(i)) <=> driver = "idle"

(* mDNS is started once: before, nothing of it is there, and while it is   *)
(* being started nothing but received packets is in its way.               *)
OnlyPackets == \A i \in DOMAIN action_queue : action_queue[i] = "rx"
NameAmongPackets ==
  \E k \in DOMAIN action_queue :
    /\ \A i \in DOMAIN action_queue : action_queue[i] = "rx" <=> i # k
    /\ action_queue[k] = "hostname"

StartedOnce ==
  /\ Station!OnlyAFloodReboots
  /\ registered <=> mdns_started \/ handler \notin {"none", "init"}
  /\ ~ registered => /\ action_queue = <<>> /\ ~ hostname /\ ~ action_sema
                     /\ pcb = "off"
  /\ handler # "none" => ~ mdns_started
  /\ services = IF mdns_started THEN 1 ELSE 0
  /\ handler = "hostname" => OnlyPackets /\ ~ hostname /\ ~ action_sema
  /\ handler = "wait" => IF hostname THEN OnlyPackets
                                     ELSE NameAmongPackets /\ ~ action_sema
  /\ handler = "instance" => OnlyPackets
  /\ handler \in {"instance", "service"} => hostname

(* The interface will be enabled once the action queue has been worked off.*)
WillBeOn ==
  \/ \E i \in DOMAIN action_queue :
       /\ action_queue[i] = "enable4"
       /\ \A j \in DOMAIN action_queue : j > i => action_queue[j] # "disable4"
  \/ pcb = "on" /\ \A j \in DOMAIN action_queue : action_queue[j] # "disable4"

(* An address is of this connection or of one whose loss is still to be    *)
(* told; once the news of it is taken in, mDNS runs on it or is about to.  *)
AddressKnown ==
  /\ driver \in {"stopped", "connecting"} => ~ address
  /\ \A i \in DOMAIN events : events[i] = "STA_START" => ~ address
  /\ /\ driver = "connected" /\ address
     /\ \A i \in DOMAIN events : events[i] # "GOT_IP"
     => /\ registered \/ handler = "init"
        /\ registered /\ ~ dropped => WillBeOn

StationInv == StationTyped /\ OneCall /\ StartedOnce /\ AddressKnown

-----------------------------------------------------------------------------
(* Sequences                                                               *)

(* What an Append adds, element by element                                 *)
LEMMA Appended ==
  ASSUME NEW S, NEW s \in Seq(S), NEW e \in S
  PROVE  /\ Append(s, e) \in Seq(S)
         /\ Len(Append(s, e)) = Len(s) + 1
         /\ DOMAIN Append(s, e) = 1 .. Len(s) + 1
         /\ DOMAIN s = 1 .. Len(s)
         /\ \A i \in 1 .. Len(s) : Append(s, e)[i] = s[i]
         /\ Append(s, e)[Len(s) + 1] = e
BY AppendProperties, LenProperties

(* What is left without the head                                           *)
LEMMA Taken ==
  ASSUME NEW S, NEW s \in Seq(S), s # <<>>
  PROVE  /\ Tail(s) \in Seq(S)
         /\ Len(Tail(s)) = Len(s) - 1
         /\ DOMAIN Tail(s) = 1 .. Len(s) - 1
         /\ DOMAIN s = 1 .. Len(s)
         /\ \A i \in 1 .. Len(s) - 1 : Tail(s)[i] = s[i + 1]
         /\ Head(s) = s[1]
         /\ Head(s) \in S
         /\ Len(s) \in Nat \ {0}
BY HeadTailProperties, LenProperties, EmptySeq

(* The first n elements of a list, added to a sequence                     *)
LEMMA PrefixAdded ==
  ASSUME NEW S, NEW q \in Seq(S), NEW len \in Nat, Len(q) = len,
         NEW list \in Seq(S), NEW all \in Nat, Len(list) = all,
         NEW n \in 0 .. all,
         NEW sum, sum = q \o SubSeq(list, 1, n)
  PROVE  /\ sum \in Seq(S)
         /\ Len(sum) = len + n
         /\ DOMAIN q = 1 .. len
         /\ DOMAIN sum = 1 .. len + n
         /\ \A i \in 1 .. len : sum[i] = q[i]
         /\ \A i \in 1 .. n : sum[len + i] = list[i]
<1> DEFINE new == SubSeq(list, 1, n)
<1>1. new \in Seq(S) /\ Len(new) = n /\ \A i \in 1 .. n : new[i] = list[i]
  <2>1. n \in Int /\ 1 \in Int /\ \A i \in 1 .. n : list[i] \in S
    BY ElementOfSeq
  <2>2. /\ new \in Seq(S)
        /\ Len(new) = IF 1 <= n THEN n - 1 + 1 ELSE 0
        /\ \A i \in 1 .. n - 1 + 1 : new[i] = list[1 + i - 1]
    BY <2>1, SubSeqProperties
  <2> HIDE DEF new
  <2> QED BY <2>2
<1> HIDE DEF new
<1>2. /\ sum \in Seq(S)
      /\ Len(sum) = len + n
      /\ \A i \in 1 .. len + n :
           sum[i] = IF i <= len THEN q[i] ELSE new[i - len]
  <2>1. sum = q \o new
    BY DEF new
  <2>2. /\ q \o new \in Seq(S)
        /\ Len(q \o new) = Len(q) + Len(new)
        /\ \A i \in 1 .. Len(q) + Len(new) :
             (q \o new)[i] = IF i <= Len(q) THEN q[i] ELSE new[i - Len(q)]
    BY <1>1, ConcatProperties
  <2> QED BY <1>1, <2>1, <2>2
<1>3. ASSUME NEW i \in 1 .. n PROVE sum[len + i] = list[i]
  <2>1. len + i \in 1 .. len + n /\ ~ (len + i <= len) /\ len + i - len = i
    OBVIOUS
  <2> QED BY <1>1, <1>2, <2>1
<1> QED BY <1>2, <1>3, LenProperties

-----------------------------------------------------------------------------
(* The station's steps                                                     *)

(* What there is room for is added, in order.                              *)
LEMMA Queued ==
  ASSUME action_queue \in Seq(ActionKinds), NEW list \in Seq(ActionKinds),
         NEW len \in Nat, Len(action_queue) = len, len <= StationQueueLen,
         NEW all \in Nat, Len(list) = all,
         Station!QueueActions(list)
  PROVE  \E n \in 0 .. all :
           /\ action_queue' \in Seq(ActionKinds)
           /\ Len(action_queue') = len + n
           /\ DOMAIN action_queue = 1 .. len
           /\ DOMAIN action_queue' = 1 .. len + n
           /\ len + n <= StationQueueLen
           /\ \A i \in 1 .. len : action_queue'[i] = action_queue[i]
           /\ \A i \in 1 .. n : action_queue'[len + i] = list[i]
           /\ dropped' = (dropped \/ \E i \in n + 1 .. all : list[i] = "enable4")
<1> DEFINE room == StationQueueLen - len
<1> DEFINE n == IF all <= room THEN all ELSE room
<1>1. room \in Nat
  BY StationAssumption
<1>2. n \in 0 .. all /\ len + n <= StationQueueLen
  BY <1>1, StationAssumption
<1>3. /\ action_queue' = action_queue \o SubSeq(list, 1, n)
      /\ dropped' = (dropped \/ \E i \in n + 1 .. all : list[i] = "enable4")
  BY DEF Station!QueueActions
<1> HIDE DEF n, room
<1>4. /\ action_queue' \in Seq(ActionKinds)
      /\ Len(action_queue') = len + n
      /\ DOMAIN action_queue = 1 .. len
      /\ DOMAIN action_queue' = 1 .. len + n
      /\ \A i \in 1 .. len : action_queue'[i] = action_queue[i]
      /\ \A i \in 1 .. n : action_queue'[len + i] = list[i]
  BY <1>2, <1>3, PrefixAdded
<1> QED BY <1>2, <1>3, <1>4

LEMMA EventAdded ==
  ASSUME StationTyped, NEW e \in EventKinds, Station!Event(e)
  PROVE  \E n \in Nat :
           /\ events' \in Seq(EventKinds)
           /\ Len(events') <= MaxEvents
           /\ DOMAIN events = 1 .. n /\ DOMAIN events' = 1 .. n + 1
           /\ \A i \in 1 .. n : events'[i] = events[i]
           /\ events'[n + 1] = e
<1>1. events \in Seq(EventKinds) /\ Len(events) \in Nat
  BY LenProperties DEF StationTyped
<1>2. events' = Append(events, e) /\ Len(events) < MaxEvents
  BY DEF Station!Event
<1> DEFINE n == Len(events)
<1>3. /\ events' \in Seq(EventKinds) /\ Len(events') = n + 1
      /\ DOMAIN events = 1 .. n /\ DOMAIN events' = 1 .. n + 1
      /\ \A i \in 1 .. n : events'[i] = events[i]
      /\ events'[n + 1] = e
  BY <1>1, <1>2, Appended
<1>4. Len(events') <= MaxEvents
  BY <1>1, <1>2, <1>3, StationAssumption
<1>5. n \in Nat
  BY <1>1
<1> HIDE DEF n
<1> QED BY <1>3, <1>4, <1>5

(* The driver and DHCP leave the program alone.                            *)
LEMMA ProgramKept ==
  ASSUME StationInv,
         UNCHANGED <<Station!program, Station!responder, Station!queues, rebooted>>
  PROVE  StartedOnce' /\ (WillBeOn' <=> WillBeOn)
BY DEF StationInv, StartedOnce, Station!OnlyAFloodReboots, OnlyPackets,
       NameAmongPackets, WillBeOn, Station!program, Station!responder,
       Station!queues

LEMMA StationArrives ==
  ASSUME StationInv,
         Station!Start \/ Station!Associate \/ Station!Disconnect
           \/ Station!GetAddress
  PROVE  StationInv'
<1>1. StationTyped /\ OneCall /\ StartedOnce /\ AddressKnown
  BY DEF StationInv
<1>2. UNCHANGED <<Station!program, Station!responder, Station!queues, rebooted>>
  BY DEF Station!Start, Station!Associate, Station!Disconnect, Station!GetAddress
<1>3. StartedOnce' /\ (WillBeOn' <=> WillBeOn)
  BY <1>2, ProgramKept
<1>4. PICK e \in EventKinds :
        /\ Station!Event(e)
        /\ \/ e = "STA_START" /\ driver = "stopped" /\ driver' = "idle"
              /\ address' = address
           \/ e = "STA_CONNECTED" /\ driver = "connecting" /\ driver' = "connected"
              /\ address' = address
           \/ e = "STA_DISCONNECTED" /\ driver \in {"connecting", "connected"}
              /\ driver' = "idle" /\ address' = address
           \/ e = "GOT_IP" /\ driver = "connected" /\ driver' = driver
              /\ address' = TRUE
  <2>1. CASE Station!Start
    BY <2>1 DEF Station!Start, EventKinds
  <2>2. CASE Station!Associate
    BY <2>2 DEF Station!Associate, EventKinds
  <2>3. CASE Station!Disconnect
    BY <2>3 DEF Station!Disconnect, EventKinds
  <2>4. CASE Station!GetAddress
    BY <2>4 DEF Station!GetAddress, EventKinds
  <2> QED BY <2>1, <2>2, <2>3, <2>4
<1>5. PICK n \in Nat :
        /\ events' \in Seq(EventKinds)
        /\ Len(events') <= MaxEvents
        /\ DOMAIN events = 1 .. n /\ DOMAIN events' = 1 .. n + 1
        /\ \A i \in 1 .. n : events'[i] = events[i]
        /\ events'[n + 1] = e
  BY <1>1, <1>4, EventAdded
<1>6. StationTyped'
  BY <1>1, <1>2, <1>4, <1>5
     DEF StationTyped, Station!TypeOK, Station!program, Station!responder,
         Station!queues
<1>7. OneCall'
  <2>1. \A i \in 1 .. n : Reconnects(i)' <=> Reconnects(i)
    BY <1>5 DEF Reconnects
  <2>2. Reconnects(n + 1)' <=> e \in {"STA_START", "STA_DISCONNECTED"}
    BY <1>5 DEF Reconnects
  <2> QED BY <1>1, <1>4, <1>5, <2>1, <2>2 DEF OneCall
<1>8. AddressKnown'
  <2>1. registered' = registered /\ handler' = handler /\ dropped' = dropped
    BY <1>2 DEF Station!program, Station!responder, Station!queues
  <2>2. n + 1 \in 1 .. n + 1 /\ \A i \in 1 .. n : i \in 1 .. n + 1
    OBVIOUS
  <2>3. driver' \in {"stopped", "connecting"} => ~ address'
    BY <1>1, <1>4 DEF AddressKnown
  <2>4. ASSUME NEW i \in 1 .. n + 1, events'[i] = "STA_START"
        PROVE  ~ address'
    <3>1. CASE i = n + 1
      BY <1>1, <1>4, <1>5, <2>4, <3>1 DEF AddressKnown
    <3>2. CASE i # n + 1
      <4>1. i \in 1 .. n
        BY <3>2
      <4>2. events[i] = "STA_START" /\ ~ address
        BY <1>1, <1>5, <2>4, <4>1 DEF AddressKnown
      <4>3. driver = "idle"
        BY <1>1, <1>5, <4>1, <4>2 DEF OneCall, Reconnects
      <4> QED BY <1>4, <4>2, <4>3
    <3> QED BY <3>1, <3>2
  <2>5. ASSUME driver' = "connected", address',
               \A i \in 1 .. n + 1 : events'[i] # "GOT_IP"
        PROVE  /\ registered' \/ handler' = "init"
               /\ registered' /\ ~ dropped' => WillBeOn'
    <3>1. e # "GOT_IP" /\ \A i \in 1 .. n : events[i] # "GOT_IP"
      BY <1>5, <2>2, <2>5
    <3>2. driver = "connected" /\ address
      BY <1>1, <1>4, <2>5, <3>1 DEF AddressKnown
    <3> QED BY <1>1, <1>3, <1>5, <2>1, <3>1, <3>2 DEF AddressKnown
  <2> QED BY <1>5, <2>3, <2>4, <2>5 DEF AddressKnown
<1> QED BY <1>3, <1>6, <1>7, <1>8 DEF StationInv

(* The event task takes an event, and queues what mDNS makes of it.        *)
LEMMA NothingQueued ==
  ASSUME StationTyped, Station!QueueActions(<<>>)
  PROVE  UNCHANGED <<action_queue, dropped>>
<1>1. /\ action_queue \in Seq(ActionKinds) /\ Len(action_queue) \in Nat
      /\ Len(action_queue) <= StationQueueLen
      /\ <<>> \in Seq(ActionKinds) /\ Len(<<>>) = 0
      /\ dropped \in BOOLEAN
  BY LenProperties, EmptySeq DEF StationTyped, Station!TypeOK
<1> DEFINE len == Len(action_queue)
<1>2. len \in Nat /\ len = Len(action_queue) /\ len <= StationQueueLen
  BY <1>1
<1> DEFINE list == <<>>
<1> DEFINE all == 0
<1>3. /\ list \in Seq(ActionKinds) /\ all \in Nat /\ Len(list) = all /\ all = 0
      /\ Station!QueueActions(list)
  BY <1>1
<1> HIDE DEF len, list, all
<1>4. PICK n \in 0 .. all :
        /\ action_queue' \in Seq(ActionKinds)
        /\ Len(action_queue') = len + n
        /\ DOMAIN action_queue = 1 .. len
        /\ DOMAIN action_queue' = 1 .. len + n
        /\ len + n <= StationQueueLen
        /\ \A i \in 1 .. len : action_queue'[i] = action_queue[i]
        /\ \A i \in 1 .. n : action_queue'[len + i] = list[i]
        /\ dropped' = (dropped \/ \E i \in n + 1 .. all : list[i] = "enable4")
  BY <1>1, <1>2, <1>3, Queued
<1>5. n = 0 /\ len + n = len /\ n + 1 .. all = {}
  BY <1>2, <1>3, <1>4
<1>6. action_queue' = action_queue
  BY <1>1, <1>2, <1>4, <1>5, SeqEqual
<1> QED BY <1>1, <1>4, <1>5, <1>6

(* Two actions of which the first does not fit, or both, or the first one  *)
LEMMA TwoQueued ==
  ASSUME StationTyped, NEW a \in ActionKinds, NEW b \in ActionKinds,
         Station!QueueActions(<<a, b>>)
  PROVE  \E len \in Nat, n \in 0 .. 2 :
           /\ action_queue' \in Seq(ActionKinds)
           /\ Len(action_queue') <= StationQueueLen
           /\ DOMAIN action_queue = 1 .. len
           /\ DOMAIN action_queue' = 1 .. len + n
           /\ \A i \in 1 .. len : action_queue'[i] = action_queue[i]
           /\ n >= 1 => action_queue'[len + 1] = a
           /\ n = 2 => action_queue'[len + 2] = b
           /\ dropped' \in BOOLEAN
           /\ n = 0 /\ a = "enable4" => dropped'
           /\ dropped => dropped'
<1>1. /\ action_queue \in Seq(ActionKinds) /\ Len(action_queue) \in Nat
      /\ Len(action_queue) <= StationQueueLen
      /\ <<a, b>> \in Seq(ActionKinds) /\ Len(<<a, b>>) = 2
      /\ <<a, b>>[1] = a /\ <<a, b>>[2] = b
      /\ dropped \in BOOLEAN
  BY LenProperties DEF StationTyped, Station!TypeOK
<1> DEFINE len == Len(action_queue)
<1> DEFINE list == <<a, b>>
<1> DEFINE all == 2
<1>2. /\ len \in Nat /\ len = Len(action_queue) /\ len <= StationQueueLen
      /\ list \in Seq(ActionKinds) /\ Len(list) = all /\ list[1] = a /\ list[2] = b
      /\ Station!QueueActions(list)
      /\ all \in Nat /\ all = 2
  BY <1>1
<1> HIDE DEF len, list, all
<1>3. PICK n \in 0 .. all :
        /\ action_queue' \in Seq(ActionKinds)
        /\ Len(action_queue') = len + n
        /\ DOMAIN action_queue = 1 .. len
        /\ DOMAIN action_queue' = 1 .. len + n
        /\ len + n <= StationQueueLen
        /\ \A i \in 1 .. len : action_queue'[i] = action_queue[i]
        /\ \A i \in 1 .. n : action_queue'[len + i] = list[i]
        /\ dropped' = (dropped \/ \E i \in n + 1 .. all : list[i] = "enable4")
  BY <1>1, <1>2, Queued
<1>4. n \in 0 .. 2 /\ (n >= 1 => 1 \in 1 .. n) /\ (n = 2 => 2 \in 1 .. n)
      /\ (n = 0 => 1 \in n + 1 .. all)
  BY <1>2, <1>3
<1>5. /\ n >= 1 => action_queue'[len + 1] = a
      /\ n = 2 => action_queue'[len + 2] = b
      /\ n = 0 /\ a = "enable4" => dropped'
      /\ dropped' \in BOOLEAN /\ (dropped => dropped')
  BY <1>1, <1>2, <1>3, <1>4
<1>6. Len(action_queue') <= StationQueueLen
  BY <1>3
<1> QED BY <1>2, <1>3, <1>4, <1>5, <1>6

LEMMA HandleEventPreserves ==
  ASSUME StationInv, Station!HandleEvent
  PROVE  StationInv'
<1>1. StationTyped /\ OneCall /\ StartedOnce /\ AddressKnown
  BY DEF StationInv
<1> DEFINE e == Head(events)
<1>2. /\ ~ rebooted /\ handler = "none" /\ events # <<>>
      /\ events' = Tail(events)
      /\ Station!QueueActions(Station!Posted(e))
      /\ driver' = IF e \in {"STA_START", "STA_DISCONNECTED"} /\ driver = "idle"
                     THEN "connecting" ELSE driver
      /\ address' = (address /\ e # "STA_DISCONNECTED")
      /\ handler' = IF e = "GOT_IP" /\ ~ mdns_started THEN "init" ELSE "none"
      /\ UNCHANGED <<mdns_started, registered, hostname, services, pcb,
                     action_sema, rebooted>>
  BY DEF Station!HandleEvent, Station!Running, Station!responder
<1>3. PICK n \in Nat :
        /\ events' \in Seq(EventKinds) /\ Len(events') = n
        /\ DOMAIN events = 1 .. n + 1 /\ DOMAIN events' = 1 .. n
        /\ \A i \in 1 .. n : events'[i] = events[i + 1]
        /\ events[1] = e /\ e \in EventKinds
        /\ Len(events) = n + 1
  <2>1. events \in Seq(EventKinds)
    BY <1>1 DEF StationTyped
  <2>2. /\ Tail(events) \in Seq(EventKinds)
        /\ Len(Tail(events)) = Len(events) - 1
        /\ DOMAIN Tail(events) = 1 .. Len(events) - 1
        /\ DOMAIN events = 1 .. Len(events)
        /\ \A i \in 1 .. Len(events) - 1 : Tail(events)[i] = events[i + 1]
        /\ Head(events) = events[1]
        /\ Head(events) \in EventKinds
        /\ Len(events) \in Nat \ {0}
    BY <1>2, <2>1, Taken
  <2> DEFINE k == Len(events) - 1
  <2>3. k \in Nat /\ k = Len(events) - 1 /\ Len(events) = k + 1
    BY <2>2
  <2> HIDE DEF k
  <2> QED BY <1>2, <2>2, <2>3
<1> HIDE DEF e
<1>4. StartedOnce' /\ StationTyped' /\ (e = "GOT_IP" /\ registered => dropped' \/ WillBeOn')
      /\ (~ registered \/ e \notin {"STA_DISCONNECTED", "GOT_IP"}
            => UNCHANGED <<action_queue, dropped>>)
  <2>1. Len(events') <= MaxEvents
    BY <1>1, <1>3, StationAssumption DEF StationTyped, Station!TypeOK
  <2>2. StationTyped' <=> /\ action_queue' \in Seq(ActionKinds)
                          /\ Len(action_queue') <= StationQueueLen
                          /\ dropped' \in BOOLEAN
    BY <1>1, <1>2, <1>3, <2>1 DEF StationTyped, Station!TypeOK
  <2>3. CASE ~ registered \/ e \notin {"STA_DISCONNECTED", "GOT_IP"}
    <3>1. Station!Posted(e) = <<>>
      BY <1>3, <2>3 DEF Station!Posted, EventKinds
    <3>2. UNCHANGED <<action_queue, dropped>>
      BY <1>1, <1>2, <3>1, NothingQueued
    <3>3. StationTyped'
      BY <1>1, <2>2, <3>2 DEF StationTyped, Station!TypeOK
    <3>4. StartedOnce'
      BY <1>1, <1>2, <3>2 DEF StartedOnce, Station!OnlyAFloodReboots
    <3> QED BY <2>3, <3>2, <3>3, <3>4
  <2>4. CASE registered /\ e \in {"STA_DISCONNECTED", "GOT_IP"}
    <3>1. PICK a \in ActionKinds, b \in ActionKinds :
            /\ Station!Posted(e) = <<a, b>>
            /\ b # "disable4" /\ (e = "GOT_IP" => a = "enable4")
      BY <2>4 DEF Station!Posted, ActionKinds
    <3>2. PICK len \in Nat, k \in 0 .. 2 :
           /\ action_queue' \in Seq(ActionKinds)
           /\ Len(action_queue') <= StationQueueLen
           /\ DOMAIN action_queue' = 1 .. len + k
           /\ k >= 1 => action_queue'[len + 1] = a
           /\ k = 2 => action_queue'[len + 2] = b
           /\ dropped' \in BOOLEAN
           /\ k = 0 /\ a = "enable4" => dropped'
      BY <1>1, <1>2, <3>1, TwoQueued
    <3>3. StationTyped'
      BY <2>2, <3>2
    <3>4. StartedOnce'
      BY <1>1, <1>2, <2>4 DEF StartedOnce, Station!OnlyAFloodReboots
    <3>5. e = "GOT_IP" /\ k >= 1 => WillBeOn'
      <4>1. k >= 1 => len + 1 \in 1 .. len + k
        OBVIOUS
      <4>2. \A j \in 1 .. len + k : j > len + 1 => j = len + 2 /\ k = 2
        OBVIOUS
      <4> QED BY <3>1, <3>2, <4>1, <4>2 DEF WillBeOn
    <3> QED BY <2>4, <3>1, <3>2, <3>3, <3>4, <3>5
  <2> QED BY <2>3, <2>4
<1>5. OneCall'
  <2>1. \A i \in 1 .. n : Reconnects(i)' <=> Reconnects(i + 1)
    BY <1>3 DEF Reconnects
  <2>2. Reconnects(1) <=> e \in {"STA_START", "STA_DISCONNECTED"}
    BY <1>3 DEF Reconnects
  <2>3. \A i \in 1 .. n : i + 1 \in 1 .. n + 1 /\ i + 1 # 1
    OBVIOUS
  <2>4. \A i \in 1 .. n + 1 : i = 1 \/ (i - 1 \in 1 .. n /\ (i - 1) + 1 = i)
    OBVIOUS
  <2>5. 1 \in 1 .. n + 1
    OBVIOUS
  <2>6. \A i, j \in 1 .. n : i + 1 = j + 1 => i = j
    OBVIOUS
  <2>7. \A i, j \in 1 .. n : Reconnects(i)' /\ Reconnects(j)' => i = j
    BY <1>1, <1>3, <2>1, <2>3, <2>6 DEF OneCall
  <2>8. CASE Reconnects(1)
    <3>1. \A i \in 1 .. n : ~ Reconnects(i)'
      BY <1>1, <1>3, <2>1, <2>3, <2>5, <2>8 DEF OneCall
    <3>2. driver = "idle"
      BY <1>1, <1>3, <2>5, <2>8 DEF OneCall
    <3> QED BY <1>2, <1>3, <2>2, <2>7, <2>8, <3>1, <3>2 DEF OneCall
  <2>9. CASE ~ Reconnects(1)
    <3>1. driver' = driver
      BY <1>2, <2>2, <2>9
    <3>2. (\E i \in 1 .. n : Reconnects(i)') <=> (\E i \in 1 .. n + 1 : Reconnects(i))
      BY <2>1, <2>3, <2>4, <2>9
    <3> QED BY <1>1, <1>3, <2>7, <3>1, <3>2 DEF OneCall
  <2> QED BY <2>8, <2>9
<1>6. AddressKnown'
  <2>1. 1 \in 1 .. n + 1 /\ \A i \in 1 .. n : i + 1 \in 1 .. n + 1
    OBVIOUS
  <2>2. driver' \in {"stopped", "connecting"} => ~ address'
    <3>1. e \in {"STA_START", "STA_DISCONNECTED"} => ~ address'
      BY <1>1, <1>2, <1>3, <2>1 DEF AddressKnown
    <3> QED BY <1>1, <1>2, <3>1 DEF AddressKnown
  <2>3. \A i \in 1 .. n : events'[i] = "STA_START" => ~ address'
    BY <1>1, <1>2, <1>3, <2>1 DEF AddressKnown
  <2>4. ASSUME driver' = "connected", address',
               \A i \in 1 .. n : events'[i] # "GOT_IP"
        PROVE  /\ registered' \/ handler' = "init"
               /\ registered' /\ ~ dropped' => WillBeOn'
    <3>1. driver = "connected" /\ address /\ e # "STA_DISCONNECTED"
      BY <1>2, <2>4
    <3>2. CASE e = "GOT_IP"
      BY <1>1, <1>2, <1>4, <3>2 DEF StartedOnce
    <3>3. CASE e # "GOT_IP"
      <4>1. UNCHANGED <<action_queue, dropped>>
        BY <1>4, <3>1, <3>3
      <4>2. \A i \in 1 .. n + 1 : events[i] # "GOT_IP"
        <5>1. \A i \in 1 .. n + 1 : i = 1 \/ (i - 1 \in 1 .. n /\ (i - 1) + 1 = i)
          OBVIOUS
        <5> TAKE i \in 1 .. n + 1
        <5>2. CASE i = 1
          BY <1>3, <3>3, <5>2
        <5>3. CASE i # 1
          <6>1. i - 1 \in 1 .. n /\ (i - 1) + 1 = i
            BY <5>1, <5>3
          <6>2. events'[i - 1] # "GOT_IP" /\ events'[i - 1] = events[(i - 1) + 1]
            BY <1>3, <2>4, <6>1
          <6> QED BY <6>1, <6>2
        <5> QED BY <5>2, <5>3
      <4>3. WillBeOn' <=> WillBeOn
        BY <1>2, <4>1 DEF WillBeOn
      <4> QED BY <1>1, <1>2, <1>3, <3>1, <4>1, <4>2, <4>3 DEF AddressKnown
    <3> QED BY <3>2, <3>3
  <2> QED BY <1>3, <2>2, <2>3, <2>4 DEF AddressKnown
<1> QED BY <1>4, <1>5, <1>6 DEF StationInv

(* One action at the end of the queue that enables or disables nothing      *)
LEMMA OnKept ==
  ASSUME StationTyped, NEW a \in ActionKinds \ {"disable4"},
         action_queue' = Append(action_queue, a), pcb' = pcb, WillBeOn
  PROVE  WillBeOn'
<1> DEFINE len == Len(action_queue)
<1>1. /\ len \in Nat
      /\ DOMAIN action_queue = 1 .. len /\ DOMAIN action_queue' = 1 .. len + 1
      /\ \A i \in 1 .. len : action_queue'[i] = action_queue[i]
      /\ action_queue'[len + 1] = a
  BY Appended, LenProperties DEF StationTyped
<1> HIDE DEF len
<1>2. \A i \in 1 .. len + 1 : i \in 1 .. len \/ i = len + 1
  BY <1>1
<1>3. \A i \in 1 .. len : i \in 1 .. len + 1
  BY <1>1
<1>4. ASSUME NEW j \in 1 .. len + 1, action_queue'[j] = "disable4"
      PROVE  j \in 1 .. len /\ action_queue[j] = "disable4"
  BY <1>1, <1>2, <1>4
<1>5. CASE pcb = "on" /\ \A j \in DOMAIN action_queue : action_queue[j] # "disable4"
  BY <1>1, <1>4, <1>5 DEF WillBeOn
<1>6. ASSUME NEW i \in 1 .. len, action_queue[i] = "enable4",
             \A j \in 1 .. len : j > i => action_queue[j] # "disable4"
      PROVE  WillBeOn'
  BY <1>1, <1>3, <1>4, <1>6 DEF WillBeOn
<1> QED BY <1>1, <1>5, <1>6 DEF WillBeOn

LEMMA InitMdnsPreserves ==
  ASSUME StationInv, Station!InitMdns
  PROVE  StationInv'
<1>1. StationTyped /\ OneCall /\ StartedOnce /\ AddressKnown
  BY DEF StationInv
<1>2. /\ handler = "init" /\ registered' /\ handler' = "hostname"
      /\ ~ rebooted
      /\ registered' = TRUE
      /\ pcb' = IF ~ registered /\ address THEN "on" ELSE pcb
      /\ UNCHANGED <<driver, address, events, mdns_started, hostname, services,
                     action_queue, action_sema, dropped, rebooted>>
  BY DEF Station!InitMdns, Station!station, Station!queues, Station!Running
<1>3. ~ registered /\ ~ mdns_started /\ action_queue = <<>> /\ ~ hostname
      /\ ~ action_sema
  BY <1>1, <1>2 DEF StartedOnce
<1>4. DOMAIN action_queue = {}
  BY <1>3
<1>5. StationTyped'
  BY <1>1, <1>2 DEF StationTyped, Station!TypeOK
<1>6. OneCall'
  BY <1>1, <1>2 DEF OneCall, Reconnects
<1>7. OnlyPackets'
  BY <1>2, <1>4 DEF OnlyPackets
<1>8. StartedOnce'
  BY <1>1, <1>2, <1>3, <1>7 DEF StartedOnce, Station!OnlyAFloodReboots
<1>9. address => WillBeOn'
  BY <1>2, <1>3, <1>4 DEF WillBeOn
<1>10. AddressKnown'
  BY <1>1, <1>2, <1>9 DEF AddressKnown
<1> QED BY <1>5, <1>6, <1>8, <1>10 DEF StationInv

(* The host's name, or that of the instance, finds a place in the queue, or *)
(* the queue is full, and then of nothing but packets: the step keeps what  *)
(* it found and reboots.                                                    *)
LEMMA NamePlaced ==
  ASSUME StationInv, ~ rebooted, OnlyPackets,
         NEW a \in ActionKinds \ {"disable4"}, NEW next,
         Station!QueueOrReboot(a, next),
         UNCHANGED <<driver, address, events, mdns_started, registered, hostname,
                     services, pcb, action_sema, dropped>>
  PROVE  \/ StationInv'
         \/ /\ action_queue' = Append(action_queue, a)
            /\ handler' = next /\ rebooted' = rebooted
            /\ action_queue' \in Seq(ActionKinds)
            /\ Len(action_queue') <= StationQueueLen
            /\ WillBeOn => WillBeOn'
<1>1. StationTyped /\ OneCall /\ StartedOnce /\ AddressKnown
  BY DEF StationInv
<1>2. /\ action_queue \in Seq(ActionKinds) /\ Len(action_queue) \in Nat
      /\ StationQueueLen \in Nat /\ Len(action_queue) <= StationQueueLen
  BY <1>1, LenProperties, StationAssumption DEF StationTyped, Station!TypeOK
<1>3. CASE Len(action_queue) < StationQueueLen
  <2>1. /\ action_queue' = Append(action_queue, a)
        /\ handler' = next /\ rebooted' = rebooted
    BY <1>3 DEF Station!QueueOrReboot
  <2>2. /\ action_queue' \in Seq(ActionKinds)
        /\ Len(action_queue') = Len(action_queue) + 1
    BY <1>2, <2>1, Appended
  <2>3. Len(action_queue') <= StationQueueLen
    BY <1>2, <1>3, <2>2
  <2>4. WillBeOn => WillBeOn'
    BY <1>1, <2>1, OnKept
  <2> QED BY <2>1, <2>2, <2>3, <2>4
<1>4. CASE ~ Len(action_queue) < StationQueueLen
  <2>1. rebooted' = TRUE /\ UNCHANGED <<action_queue, handler>>
    BY <1>4 DEF Station!QueueOrReboot
  <2>2. Len(action_queue) = StationQueueLen
    BY <1>2, <1>4
  <2>3. (Station!OnlyAFloodReboots)'
    BY <2>1, <2>2 DEF Station!OnlyAFloodReboots, OnlyPackets
  <2>4. StationTyped' /\ OneCall'
    BY <1>1, <2>1 DEF StationTyped, Station!TypeOK, OneCall, Reconnects
  <2>5. StartedOnce'
    BY <1>1, <2>1, <2>3 DEF StartedOnce, OnlyPackets, NameAmongPackets
  <2>6. AddressKnown'
    BY <1>1, <2>1 DEF AddressKnown, WillBeOn
  <2> QED BY <2>4, <2>5, <2>6 DEF StationInv
<1> QED BY <1>3, <1>4

LEMMA SetHostnamePreserves ==
  ASSUME StationInv, Station!SetHostname
  PROVE  StationInv'
<1>1. StationTyped /\ OneCall /\ StartedOnce /\ AddressKnown
  BY DEF StationInv
<1>2. /\ ~ rebooted
      /\ handler = "hostname" /\ Station!QueueOrReboot("hostname", "wait")
      /\ UNCHANGED <<driver, address, events, mdns_started, registered, hostname,
                     services, pcb, action_sema, dropped>>
  BY DEF Station!SetHostname, Station!station, Station!responder, Station!Running
<1>3. OnlyPackets /\ ~ hostname /\ ~ action_sema /\ registered /\ ~ mdns_started
  BY <1>1, <1>2 DEF StartedOnce
<1>4. SUFFICES ASSUME /\ action_queue' = Append(action_queue, "hostname")
                      /\ handler' = "wait" /\ rebooted' = rebooted
                      /\ action_queue' \in Seq(ActionKinds)
                      /\ Len(action_queue') <= StationQueueLen
                      /\ WillBeOn => WillBeOn'
               PROVE  StationInv'
  BY <1>2, <1>3, NamePlaced DEF ActionKinds
<1>5. StationTyped'
  BY <1>1, <1>2, <1>4 DEF StationTyped, Station!TypeOK
<1>6. OneCall'
  BY <1>1, <1>2 DEF OneCall, Reconnects
<1>7. NameAmongPackets'
  <2> DEFINE len == Len(action_queue)
  <2>1. /\ len \in Nat
        /\ DOMAIN action_queue = 1 .. len /\ DOMAIN action_queue' = 1 .. len + 1
        /\ \A i \in 1 .. len : action_queue'[i] = action_queue[i]
        /\ action_queue'[len + 1] = "hostname"
    BY <1>1, <1>4, Appended, LenProperties DEF StationTyped, ActionKinds
  <2>2. \A i \in 1 .. len : action_queue[i] = "rx"
    BY <1>3, <2>1 DEF OnlyPackets
  <2> HIDE DEF len
  <2>3. len + 1 \in 1 .. len + 1
    BY <2>1
  <2>4. \A i \in 1 .. len + 1 : action_queue'[i] = "rx" <=> i # len + 1
    BY <2>1, <2>2
  <2> QED BY <2>1, <2>3, <2>4 DEF NameAmongPackets
<1>8. StartedOnce'
  BY <1>1, <1>2, <1>3, <1>4, <1>7 DEF StartedOnce, Station!OnlyAFloodReboots
<1>9. AddressKnown'
  BY <1>1, <1>2, <1>3, <1>4 DEF AddressKnown
<1> QED BY <1>5, <1>6, <1>8, <1>9 DEF StationInv

LEMMA WaitForHostnamePreserves ==
  ASSUME StationInv, Station!WaitForHostname
  PROVE  StationInv'
<1>1. StationTyped /\ OneCall /\ StartedOnce /\ AddressKnown
  BY DEF StationInv
<1>2. /\ ~ rebooted
      /\ handler = "wait" /\ action_sema /\ handler' = "instance"
      /\ action_sema' = FALSE
      /\ UNCHANGED <<driver, address, events, mdns_started, registered, hostname,
                     services, pcb, action_queue, dropped, rebooted>>
  BY DEF Station!WaitForHostname, Station!station, Station!responder,
         Station!Running
<1>3. hostname /\ OnlyPackets /\ registered
  BY <1>1, <1>2 DEF StartedOnce
<1>4. OnlyPackets' /\ (WillBeOn' <=> WillBeOn)
  BY <1>2, <1>3 DEF OnlyPackets, WillBeOn
<1>5. StationTyped' /\ OneCall'
  BY <1>1, <1>2 DEF StationTyped, Station!TypeOK, OneCall, Reconnects
<1>6. StartedOnce'
  BY <1>1, <1>2, <1>3, <1>4 DEF StartedOnce, Station!OnlyAFloodReboots
<1>7. AddressKnown'
  BY <1>1, <1>2, <1>3, <1>4 DEF AddressKnown
<1> QED BY <1>5, <1>6, <1>7 DEF StationInv

LEMMA SetInstancePreserves ==
  ASSUME StationInv, Station!SetInstance
  PROVE  StationInv'
<1>1. StationTyped /\ OneCall /\ StartedOnce /\ AddressKnown
  BY DEF StationInv
<1>2. ~ rebooted /\ handler = "instance" /\ hostname /\ OnlyPackets /\ registered
  BY <1>1 DEF StartedOnce, Station!SetInstance, Station!Running
<1>3. /\ Station!QueueOrReboot("instance", "service")
      /\ UNCHANGED <<driver, address, events, mdns_started, registered, hostname,
                     services, pcb, action_sema, dropped>>
  BY <1>2 DEF Station!SetInstance, Station!station, Station!responder
<1>4. SUFFICES ASSUME /\ action_queue' = Append(action_queue, "instance")
                      /\ handler' = "service" /\ rebooted' = rebooted
                      /\ action_queue' \in Seq(ActionKinds)
                      /\ Len(action_queue') <= StationQueueLen
                      /\ WillBeOn => WillBeOn'
               PROVE  StationInv'
  BY <1>2, <1>3, NamePlaced DEF ActionKinds
<1>5. StationTyped'
  BY <1>1, <1>3, <1>4 DEF StationTyped, Station!TypeOK
<1>6. OneCall'
  BY <1>1, <1>3 DEF OneCall, Reconnects
<1>7. StartedOnce'
  BY <1>1, <1>2, <1>3, <1>4 DEF StartedOnce, Station!OnlyAFloodReboots
<1>8. AddressKnown'
  BY <1>1, <1>2, <1>3, <1>4 DEF AddressKnown
<1> QED BY <1>5, <1>6, <1>7, <1>8 DEF StationInv

LEMMA AddServicePreserves ==
  ASSUME StationInv, Station!AddService
  PROVE  StationInv'
<1>1. StationTyped /\ OneCall /\ StartedOnce /\ AddressKnown
  BY DEF StationInv
<1>2. /\ ~ rebooted /\ handler = "service" /\ hostname /\ registered
      /\ ~ mdns_started /\ services = 0
  BY <1>1 DEF StartedOnce, Station!AddService, Station!Running
<1>3. /\ services' = 1 /\ mdns_started' = TRUE /\ handler' = "none"
      /\ UNCHANGED <<driver, address, events, registered, hostname, pcb,
                     action_queue, action_sema, dropped, rebooted>>
  BY <1>2 DEF Station!AddService, Station!station, Station!queues
<1>4. StationTyped' /\ OneCall'
  BY <1>1, <1>3 DEF StationTyped, Station!TypeOK, OneCall, Reconnects
<1>5. StartedOnce'
  BY <1>1, <1>2, <1>3 DEF StartedOnce, Station!OnlyAFloodReboots
<1>6. AddressKnown'
  BY <1>1, <1>2, <1>3 DEF AddressKnown, WillBeOn
<1> QED BY <1>4, <1>5, <1>6 DEF StationInv

LEMMA OneQueued ==
  ASSUME StationTyped, NEW a \in ActionKinds, Station!QueueActions(<<a>>)
  PROVE  /\ dropped' \in BOOLEAN /\ (dropped => dropped')
         /\ UNCHANGED action_queue \/ action_queue' = Append(action_queue, a)
         /\ action_queue' \in Seq(ActionKinds)
         /\ Len(action_queue') <= StationQueueLen
<1>1. /\ action_queue \in Seq(ActionKinds) /\ Len(action_queue) \in Nat
      /\ Len(action_queue) <= StationQueueLen
      /\ <<a>> \in Seq(ActionKinds) /\ Len(<<a>>) = 1 /\ <<a>>[1] = a
      /\ dropped \in BOOLEAN
  BY LenProperties DEF StationTyped, Station!TypeOK
<1> DEFINE len == Len(action_queue)
<1> DEFINE list == <<a>>
<1> DEFINE all == 1
<1>2. /\ len \in Nat /\ len = Len(action_queue) /\ len <= StationQueueLen
      /\ list \in Seq(ActionKinds) /\ Len(list) = all /\ list[1] = a
      /\ Station!QueueActions(list)
      /\ all \in Nat /\ all = 1
  BY <1>1
<1> HIDE DEF len, list, all
<1>3. PICK n \in 0 .. all :
        /\ action_queue' \in Seq(ActionKinds)
        /\ Len(action_queue') = len + n
        /\ DOMAIN action_queue = 1 .. len
        /\ DOMAIN action_queue' = 1 .. len + n
        /\ len + n <= StationQueueLen
        /\ \A i \in 1 .. len : action_queue'[i] = action_queue[i]
        /\ \A i \in 1 .. n : action_queue'[len + i] = list[i]
        /\ dropped' = (dropped \/ \E i \in n + 1 .. all : list[i] = "enable4")
  BY <1>1, <1>2, Queued
<1>4. CASE n = 0
  <2>1. len + n = len
    BY <1>2, <1>4
  <2>2. action_queue' = action_queue
    BY <1>1, <1>2, <1>3, <2>1, SeqEqual
  <2> QED BY <1>1, <1>3, <2>2
<1>5. CASE n = 1
  <2>1. 1 \in 1 .. n
    BY <1>5
  <2>2. /\ Append(action_queue, a) \in Seq(ActionKinds)
        /\ Len(Append(action_queue, a)) = len + 1
        /\ \A i \in 1 .. len : Append(action_queue, a)[i] = action_queue[i]
        /\ Append(action_queue, a)[len + 1] = a
    BY <1>1, <1>2, Appended
  <2>3. \A i \in 1 .. len + 1 : i \in 1 .. len \/ i = len + 1
    BY <1>2
  <2>4. \A i \in 1 .. len + 1 : action_queue'[i] = Append(action_queue, a)[i]
    BY <1>2, <1>3, <1>5, <2>1, <2>2, <2>3
  <2>5. action_queue' = Append(action_queue, a)
    BY <1>3, <1>5, <2>2, <2>4, SeqEqual
  <2> QED BY <1>1, <1>3, <2>5
<1>6. n = 0 \/ n = 1
  BY <1>2, <1>3
<1> QED BY <1>4, <1>5, <1>6

LEMMA ReceivePacketPreserves ==
  ASSUME StationInv, Station!ReceivePacket
  PROVE  StationInv'
<1>1. StationTyped /\ OneCall /\ StartedOnce /\ AddressKnown
  BY DEF StationInv
<1>2. /\ ~ rebooted /\ Station!QueueActions(<<"rx">>) /\ pcb = "on"
      /\ UNCHANGED <<driver, address, events, handler, mdns_started, registered,
                     hostname, services, pcb, action_sema, rebooted>>
  BY DEF Station!ReceivePacket, Station!station, Station!responder,
         Station!program, Station!Running
<1>3. /\ dropped' \in BOOLEAN /\ (dropped => dropped')
      /\ UNCHANGED action_queue \/ action_queue' = Append(action_queue, "rx")
      /\ action_queue' \in Seq(ActionKinds)
      /\ Len(action_queue') <= StationQueueLen
  BY <1>1, <1>2, OneQueued DEF ActionKinds
<1>4. StationTyped'
  BY <1>1, <1>2, <1>3 DEF StationTyped, Station!TypeOK
<1>5. OneCall'
  BY <1>1, <1>2 DEF OneCall, Reconnects
<1>6. (OnlyPackets => OnlyPackets') /\ (NameAmongPackets => NameAmongPackets')
  <2>1. CASE UNCHANGED action_queue
    BY <2>1 DEF OnlyPackets, NameAmongPackets
  <2>2. CASE action_queue' = Append(action_queue, "rx")
    <3> DEFINE len == Len(action_queue)
    <3>1. /\ len \in Nat /\ Len(action_queue') = len + 1
          /\ DOMAIN action_queue = 1 .. len /\ DOMAIN action_queue' = 1 .. len + 1
          /\ \A i \in 1 .. len : action_queue'[i] = action_queue[i]
          /\ action_queue'[len + 1] = "rx"
      BY <1>1, <2>2, Appended, LenProperties DEF StationTyped, ActionKinds
    <3> HIDE DEF len
    <3>2. \A i \in 1 .. len + 1 : i \in 1 .. len \/ (i = len + 1 /\ i \notin 1 .. len)
      BY <3>1
    <3>3. OnlyPackets => OnlyPackets'
      BY <3>1, <3>2 DEF OnlyPackets
    <3>4. ASSUME NameAmongPackets PROVE NameAmongPackets'
      <4>1. PICK k \in 1 .. len :
              /\ \A i \in 1 .. len : action_queue[i] = "rx" <=> i # k
              /\ action_queue[k] = "hostname"
        BY <3>1, <3>4 DEF NameAmongPackets
      <4>2. k \in 1 .. len + 1 /\ action_queue'[k] = "hostname"
        BY <3>1, <4>1
      <4>3. \A i \in 1 .. len + 1 : action_queue'[i] = "rx" <=> i # k
        BY <3>1, <3>2, <4>1
      <4> QED BY <3>1, <4>2, <4>3 DEF NameAmongPackets
    <3> QED BY <3>3, <3>4
  <2> QED BY <1>3, <2>1, <2>2
<1>7. registered
  BY <1>1, <1>2 DEF StartedOnce
<1>8. StartedOnce'
  BY <1>1, <1>2, <1>6, <1>7 DEF StartedOnce, Station!OnlyAFloodReboots
<1>9. WillBeOn => WillBeOn'
  <2>1. CASE UNCHANGED action_queue
    BY <1>2, <2>1 DEF WillBeOn
  <2>2. CASE action_queue' = Append(action_queue, "rx")
    BY <1>1, <1>2, <2>2, OnKept DEF ActionKinds
  <2> QED BY <1>3, <2>1, <2>2
<1>10. AddressKnown'
  BY <1>1, <1>2, <1>3, <1>9 DEF AddressKnown
<1> QED BY <1>4, <1>5, <1>8, <1>10 DEF StationInv

LEMMA ExecutePreserves ==
  ASSUME StationInv, Station!Execute
  PROVE  StationInv'
<1>1. StationTyped /\ OneCall /\ StartedOnce /\ AddressKnown
  BY DEF StationInv
<1> DEFINE a == Head(action_queue)
<1>2. /\ ~ rebooted
      /\ action_queue # <<>> /\ action_queue' = Tail(action_queue)
      /\ pcb' = CASE a = "enable4" -> "on" [] a = "disable4" -> "off" [] OTHER -> pcb
      /\ hostname' = (hostname \/ a = "hostname")
      /\ action_sema' = (action_sema \/ a = "hostname")
      /\ UNCHANGED <<driver, address, events, handler, mdns_started, registered,
                     services, dropped, rebooted>>
  BY DEF Station!Execute, Station!station, Station!program, Station!Running
<1>3. PICK n \in Nat :
        /\ action_queue' \in Seq(ActionKinds) /\ Len(action_queue') = n
        /\ DOMAIN action_queue = 1 .. n + 1 /\ DOMAIN action_queue' = 1 .. n
        /\ \A i \in 1 .. n : action_queue'[i] = action_queue[i + 1]
        /\ action_queue[1] = a /\ a \in ActionKinds
        /\ Len(action_queue) = n + 1
  <2>1. action_queue \in Seq(ActionKinds)
    BY <1>1 DEF StationTyped
  <2>2. /\ Tail(action_queue) \in Seq(ActionKinds)
        /\ Len(Tail(action_queue)) = Len(action_queue) - 1
        /\ DOMAIN Tail(action_queue) = 1 .. Len(action_queue) - 1
        /\ DOMAIN action_queue = 1 .. Len(action_queue)
        /\ \A i \in 1 .. Len(action_queue) - 1 :
             Tail(action_queue)[i] = action_queue[i + 1]
        /\ Head(action_queue) = action_queue[1]
        /\ Head(action_queue) \in ActionKinds
        /\ Len(action_queue) \in Nat \ {0}
    BY <1>2, <2>1, Taken
  <2> DEFINE k == Len(action_queue) - 1
  <2>3. k \in Nat /\ k = Len(action_queue) - 1 /\ Len(action_queue) = k + 1
    BY <2>2
  <2> HIDE DEF k
  <2> QED BY <1>2, <2>2, <2>3
<1> HIDE DEF a
<1>4. /\ 1 \in 1 .. n + 1
      /\ \A i \in 1 .. n : i + 1 \in 1 .. n + 1 /\ i + 1 # 1
      /\ \A i \in 1 .. n + 1 : i = 1 \/ (i - 1 \in 1 .. n /\ (i - 1) + 1 = i)
  OBVIOUS
<1>5. StationTyped'
  <2>1. Len(action_queue') <= StationQueueLen
    BY <1>1, <1>3, StationAssumption DEF StationTyped, Station!TypeOK
  <2>2. pcb' \in {"off", "on"} /\ hostname' \in BOOLEAN /\ action_sema' \in BOOLEAN
    BY <1>1, <1>2 DEF StationTyped, Station!TypeOK
  <2> QED BY <1>1, <1>2, <1>3, <2>1, <2>2 DEF StationTyped, Station!TypeOK
<1>6. OneCall'
  BY <1>1, <1>2 DEF OneCall, Reconnects
<1>7. OnlyPackets => OnlyPackets' /\ a = "rx"
  BY <1>3, <1>4 DEF OnlyPackets
<1>8. ASSUME NameAmongPackets
      PROVE  IF a = "hostname" THEN OnlyPackets' ELSE a = "rx" /\ NameAmongPackets'
  <2>1. PICK k \in 1 .. n + 1 :
          /\ \A i \in 1 .. n + 1 : action_queue[i] = "rx" <=> i # k
          /\ action_queue[k] = "hostname"
    BY <1>3, <1>8 DEF NameAmongPackets
  <2>2. CASE k = 1
    <3>1. a = "hostname"
      BY <1>3, <2>1, <2>2
    <3>2. \A i \in 1 .. n : action_queue'[i] = "rx"
      BY <1>3, <1>4, <2>1, <2>2
    <3> QED BY <1>3, <3>1, <3>2 DEF OnlyPackets
  <2>3. CASE k # 1
    <3>1. a = "rx"
      BY <1>3, <1>4, <2>1, <2>3
    <3>2. k - 1 \in 1 .. n /\ (k - 1) + 1 = k
      BY <1>4, <2>1, <2>3
    <3>3. \A i \in 1 .. n : i + 1 # k <=> i # k - 1
      BY <3>2
    <3>4. \A i \in 1 .. n : action_queue'[i] = "rx" <=> i # k - 1
      BY <1>3, <1>4, <2>1, <3>3
    <3>5. action_queue'[k - 1] = "hostname"
      BY <1>3, <2>1, <3>2
    <3> QED BY <1>3, <3>1, <3>2, <3>4, <3>5 DEF NameAmongPackets
  <2> QED BY <2>2, <2>3
<1>9. registered
  BY <1>1, <1>2 DEF StartedOnce
<1>10. StartedOnce'
  <2>1. handler' = "hostname" => OnlyPackets' /\ ~ hostname' /\ ~ action_sema'
    BY <1>1, <1>2, <1>7 DEF StartedOnce
  <2>2. handler' = "wait" => IF hostname' THEN OnlyPackets'
                                          ELSE NameAmongPackets' /\ ~ action_sema'
    BY <1>1, <1>2, <1>7, <1>8 DEF StartedOnce
  <2>3. handler' = "instance" => OnlyPackets'
    BY <1>1, <1>2, <1>7 DEF StartedOnce
  <2>4. (Station!OnlyAFloodReboots)'
    BY <1>2 DEF Station!OnlyAFloodReboots
  <2> QED BY <1>1, <1>2, <1>9, <2>1, <2>2, <2>3, <2>4 DEF StartedOnce
<1>11. ASSUME WillBeOn PROVE WillBeOn'
  <2>1. CASE pcb = "on" /\ \A j \in 1 .. n + 1 : action_queue[j] # "disable4"
    <3>1. pcb' = "on"
      BY <1>2, <1>3, <1>4, <2>1
    <3>2. \A j \in 1 .. n : action_queue'[j] # "disable4"
      BY <1>3, <1>4, <2>1
    <3> QED BY <1>3, <3>1, <3>2 DEF WillBeOn
  <2>2. ASSUME NEW i \in 1 .. n + 1, action_queue[i] = "enable4",
               \A j \in 1 .. n + 1 : j > i => action_queue[j] # "disable4"
        PROVE  WillBeOn'
    <3>1. CASE i = 1
      <4>1. pcb' = "on"
        BY <1>2, <1>3, <2>2, <3>1
      <4>2. \A j \in 1 .. n : j + 1 > 1
        OBVIOUS
      <4>3. \A j \in 1 .. n : action_queue'[j] # "disable4"
        BY <1>3, <1>4, <2>2, <3>1, <4>2
      <4> QED BY <1>3, <4>1, <4>3 DEF WillBeOn
    <3>2. CASE i # 1
      <4>1. i - 1 \in 1 .. n /\ (i - 1) + 1 = i
        BY <1>4, <2>2, <3>2
      <4>2. \A j \in 1 .. n : j > i - 1 => j + 1 > i
        BY <4>1
      <4>3. \A j \in 1 .. n : j > i - 1 => action_queue'[j] # "disable4"
        BY <1>3, <1>4, <2>2, <4>2
      <4>4. action_queue'[i - 1] = "enable4"
        BY <1>3, <2>2, <4>1
      <4> QED BY <1>3, <4>1, <4>3, <4>4 DEF WillBeOn
    <3> QED BY <3>1, <3>2
  <2> QED BY <1>3, <1>11, <2>1, <2>2 DEF WillBeOn
<1>12. AddressKnown'
  BY <1>1, <1>2, <1>9, <1>11 DEF AddressKnown
<1> QED BY <1>5, <1>6, <1>10, <1>12 DEF StationInv

-----------------------------------------------------------------------------
(* The station's invariant, and what follows from it                       *)

LEMMA StationInitial ==
  ASSUME Init
  PROVE  StationInv
<1>1. /\ driver = "stopped" /\ address = FALSE /\ events = <<>>
      /\ handler = "none" /\ mdns_started = FALSE
      /\ registered = FALSE /\ hostname = FALSE /\ services = 0 /\ pcb = "off"
      /\ action_queue = <<>> /\ action_sema = FALSE /\ dropped = FALSE
      /\ rebooted = FALSE
  BY DEF Init, Station!Init
<1>2. /\ events \in Seq(EventKinds) /\ action_queue \in Seq(ActionKinds)
      /\ Len(events) = 0 /\ Len(action_queue) = 0
      /\ DOMAIN events = {} /\ DOMAIN action_queue = {}
  BY <1>1
<1>3. StationTyped
  <2>1. 0 <= MaxEvents /\ 0 <= StationQueueLen
    BY StationAssumption
  <2> QED BY <1>1, <1>2, <2>1 DEF StationTyped, Station!TypeOK
<1>4. OneCall /\ StartedOnce /\ AddressKnown
  BY <1>1, <1>2 DEF OneCall, StartedOnce, Station!OnlyAFloodReboots, AddressKnown
<1> QED BY <1>3, <1>4 DEF StationInv

LEMMA StationKept ==
  ASSUME StationInv, UNCHANGED station
  PROVE  StationInv'
BY DEF station, StationInv, StationTyped, Station!TypeOK, OneCall, Reconnects,
       StartedOnce, Station!OnlyAFloodReboots, OnlyPackets, NameAmongPackets,
       AddressKnown, WillBeOn

LEMMA StationPreserved ==
  ASSUME StationInv, [Next]_vars
  PROVE  StationInv'
<1>1. CASE StationActs
  <2>1. Station!Next
    BY <1>1 DEF StationActs
  <2>2. CASE Station!Start \/ Station!Associate \/ Station!Disconnect
               \/ Station!GetAddress
    BY <2>2, StationArrives
  <2>3. CASE Station!wifi_event_handler
    BY <2>3, HandleEventPreserves, InitMdnsPreserves, SetHostnamePreserves,
       WaitForHostnamePreserves, SetInstancePreserves, AddServicePreserves
       DEF Station!wifi_event_handler
  <2>4. CASE Station!ReceivePacket
    BY <2>4, ReceivePacketPreserves
  <2>5. CASE Station!Execute
    BY <2>5, ExecutePreserves
  <2> QED BY <2>1, <2>2, <2>3, <2>4, <2>5 DEF Station!Next
<1>2. CASE ServerActs
  BY <1>2, StationKept DEF ServerActs
<1>3. CASE SearchesAct
  BY <1>3, StationKept DEF SearchesAct
<1>4. CASE QueueActs
  BY <1>4, StationKept DEF QueueActs
<1>5. CASE UNCHANGED vars
  BY <1>5, StationKept DEF vars
<1> QED BY <1>1, <1>2, <1>3, <1>4, <1>5 DEF Next

LEMMA NetworkFromInvariant ==
  ASSUME StationInv
  PROVE  NetworkKept
<1>1. StationTyped /\ OneCall /\ StartedOnce /\ AddressKnown
  BY DEF StationInv
<1>2. Station!AlwaysTrying
  BY <1>1 DEF OneCall, Reconnects, Station!AlwaysTrying
<1>3. Station!OnlyAFloodReboots
  BY <1>1 DEF StartedOnce
<1>4. Station!Advertised
  <2>1. SUFFICES ASSUME driver = "connected", address, events = <<>>,
                        handler = "none", action_queue = <<>>, ~ dropped
                 PROVE  mdns_started /\ pcb = "on"
    BY DEF Station!Advertised
  <2>2. DOMAIN events = {} /\ DOMAIN action_queue = {}
    BY <2>1
  <2>3. registered /\ WillBeOn
    BY <1>1, <2>1, <2>2 DEF AddressKnown
  <2> QED BY <1>1, <2>1, <2>2, <2>3 DEF StartedOnce, WillBeOn
<1> QED BY <1>2, <1>3, <1>4 DEF NetworkKept

(* For every length of the queues, and however many packets are received:   *)
(* the event that makes the idle station connect is under way, a call of    *)
(* the event handler fails, and the device reboots, only when packets alone *)
(* fill the action queue, and an interface with an address is not left      *)
(* without mDNS unless the action that enables it found no room             *)
(* (wifi_connection.c:72-100, mdns_netif.c:277-283,380-393).                *)
THEOREM StationInvariance == Spec => []StationInv
<1>1. Init => StationInv
  BY StationInitial
<1>2. StationInv /\ [Next]_vars => StationInv'
  BY StationPreserved
<1> QED BY <1>1, <1>2, PTL DEF Spec

(* The station comes back onto the network, and mDNS, set up once, reboots  *)
(* the device only when packets alone fill the action queue (NetworkKept).  *)
THEOREM StationStays == Spec => []NetworkKept
<1>1. StationInv => NetworkKept
  BY NetworkFromInvariant
<1> QED BY <1>1, StationInvariance, PTL

-----------------------------------------------------------------------------
(* The packets mDNS sends: indices and sequences                            *)

LEMMA LeastOf ==
  ASSUME NEW I \in SUBSET Nat, I # {}
  PROVE  Queue!Min(I) \in I /\ \A y \in I : Queue!Min(I) <= y
BY Least DEF Queue!Min

(* One sequence after another                                              *)
Joins(s, n, t, m, r) ==
  /\ Len(r) = n + m /\ DOMAIN r = 1 .. n + m
  /\ \A i \in 1 .. n : r[i] = s[i]
  /\ \A i \in 1 .. m : r[n + i] = t[i]

LEMMA Joined ==
  ASSUME NEW S, NEW s \in Seq(S), NEW t \in Seq(S),
         NEW n \in Nat, Len(s) = n, NEW m \in Nat, Len(t) = m,
         NEW r, r = s \o t
  PROVE  r \in Seq(S) /\ Joins(s, n, t, m, r)
<1>1. /\ s \o t \in Seq(S) /\ Len(s \o t) = Len(s) + Len(t)
      /\ \A i \in 1 .. Len(s) + Len(t) :
           (s \o t)[i] = IF i <= Len(s) THEN s[i] ELSE t[i - Len(s)]
  BY ConcatProperties
<1>2. /\ r \in Seq(S) /\ Len(r) = n + m
      /\ \A i \in 1 .. n + m : r[i] = IF i <= n THEN s[i] ELSE t[i - n]
  BY <1>1
<1>3. ASSUME NEW i \in 1 .. m PROVE r[n + i] = t[i]
  <2>1. n + i \in 1 .. n + m /\ ~ (n + i <= n) /\ n + i - n = i
    OBVIOUS
  <2> QED BY <1>2, <2>1
<1> QED BY <1>2, <1>3, LenProperties DEF Joins

(* The first k elements of a sequence, and those after them                *)
Halves(S, s, len, k) ==
  /\ SubSeq(s, 1, k) \in Seq(S) /\ Len(SubSeq(s, 1, k)) = k
  /\ \A i \in 1 .. k : SubSeq(s, 1, k)[i] = s[i]
  /\ SubSeq(s, k + 1, len) \in Seq(S) /\ Len(SubSeq(s, k + 1, len)) = len - k
  /\ \A i \in 1 .. len - k : SubSeq(s, k + 1, len)[i] = s[k + i]

LEMMA Halved ==
  ASSUME NEW S, NEW s \in Seq(S), NEW len \in Nat, Len(s) = len, NEW k \in 0 .. len
  PROVE  Halves(S, s, len, k)
<1> DEFINE first == SubSeq(s, 1, k)
           last == SubSeq(s, k + 1, len)
<1>1. /\ 1 \in Int /\ k \in Int /\ k + 1 \in Int /\ len \in Int
      /\ \A i \in 1 .. k : s[i] \in S
      /\ \A i \in k + 1 .. len : s[i] \in S
  BY ElementOfSeq
<1>2. /\ first \in Seq(S)
      /\ Len(first) = IF 1 <= k THEN k - 1 + 1 ELSE 0
      /\ \A i \in 1 .. k - 1 + 1 : first[i] = s[1 + i - 1]
  BY <1>1, SubSeqProperties
<1>3. /\ last \in Seq(S)
      /\ Len(last) = IF k + 1 <= len THEN len - (k + 1) + 1 ELSE 0
      /\ \A i \in 1 .. len - (k + 1) + 1 : last[i] = s[k + 1 + i - 1]
  BY <1>1, SubSeqProperties
<1> HIDE DEF first, last
<1>4. /\ len - (k + 1) + 1 = len - k /\ k - 1 + 1 = k
      /\ \A i \in 1 .. k : 1 + i - 1 = i
      /\ \A i \in 1 .. len - k : k + 1 + i - 1 = k + i
  OBVIOUS
<1>5. Len(first) = k /\ Len(last) = len - k
  BY <1>2, <1>3
<1>6. \A i \in 1 .. len - k : last[i] = s[k + i]
  BY <1>3, <1>4
<1>7. \A i \in 1 .. k : first[i] = s[i]
  BY <1>2, <1>4
<1> QED BY <1>2, <1>3, <1>5, <1>6, <1>7 DEF first, last, Halves

(* An element is put at place k.                                           *)
With(s, len, e, k, r) ==
  /\ DOMAIN r = 1 .. len + 1 /\ DOMAIN s = 1 .. len
  /\ \A i \in 1 .. len + 1 :
       r[i] = IF i < k THEN s[i] ELSE IF i = k THEN e ELSE s[i - 1]

LEMMA Inserted ==
  ASSUME NEW S, NEW s \in Seq(S), NEW e \in S, NEW len \in Nat, Len(s) = len,
         NEW k \in 1 .. len + 1, NEW r, r = Queue!InsertAt(s, k, e)
  PROVE  r \in Seq(S) /\ With(s, len, e, k, r)
<1> DEFINE j == k - 1
           first == SubSeq(s, 1, j)
           last == SubSeq(s, j + 1, len)
           middle == first \o <<e>>
<1>1. j \in 0 .. len /\ j \in Nat /\ j + 1 = k /\ len - j \in Nat /\ j + 1 \in Nat
      /\ j + 1 + (len - j) = len + 1
  OBVIOUS
<1>2. r = middle \o last
  BY <1>1 DEF Queue!InsertAt
<1> HIDE DEF j
<1>3. /\ first \in Seq(S) /\ Len(first) = j /\ \A i \in 1 .. j : first[i] = s[i]
      /\ last \in Seq(S) /\ Len(last) = len - j
      /\ \A i \in 1 .. len - j : last[i] = s[j + i]
  <2>1. Halves(S, s, len, j)
    BY <1>1, Halved
  <2> QED BY <2>1 DEF Halves
<1> HIDE DEF first, last
<1>4. <<e>> \in Seq(S) /\ Len(<<e>>) = 1 /\ <<e>>[1] = e
  OBVIOUS
<1>5. /\ middle \in Seq(S) /\ Len(middle) = j + 1
      /\ \A i \in 1 .. j : middle[i] = first[i]
      /\ \A i \in 1 .. 1 : middle[j + i] = <<e>>[i]
  <2> DEFINE one == <<e>>
  <2>1. /\ first \in Seq(S) /\ j \in Nat /\ Len(first) = j /\ one \in Seq(S)
        /\ 1 \in Nat /\ Len(one) = 1 /\ middle = first \o one
    BY <1>1, <1>3, <1>4
  <2> HIDE DEF one, middle
  <2>2. middle \in Seq(S) /\ Joins(first, j, one, 1, middle)
    BY ONLY <2>1, Joined
  <2> QED BY <2>2 DEF Joins, one
<1> HIDE DEF middle
<1>6. /\ r \in Seq(S) /\ DOMAIN r = 1 .. j + 1 + (len - j)
      /\ \A i \in 1 .. j + 1 : r[i] = middle[i]
      /\ \A i \in 1 .. len - j : r[j + 1 + i] = last[i]
  <2> DEFINE n == j + 1
             m == len - j
  <2>1. /\ n \in Nat /\ m \in Nat /\ Len(middle) = n /\ Len(last) = m
        /\ middle \in Seq(S) /\ last \in Seq(S) /\ r = middle \o last
    BY <1>1, <1>2, <1>3, <1>5
  <2> HIDE DEF n, m
  <2>2. /\ r \in Seq(S) /\ DOMAIN r = 1 .. n + m
        /\ \A i \in 1 .. n : r[i] = middle[i]
        /\ \A i \in 1 .. m : r[n + i] = last[i]
    <3>1. r \in Seq(S) /\ Joins(middle, n, last, m, r)
      BY ONLY <2>1, Joined
    <3> QED BY <3>1 DEF Joins
  <2> QED BY <2>2 DEF n, m
<1>7. ASSUME NEW i \in 1 .. len + 1
      PROVE  r[i] = IF i < k THEN s[i] ELSE IF i = k THEN e ELSE s[i - 1]
  <2>1. CASE i < k
    <3>1. i \in 1 .. j /\ i \in 1 .. j + 1
      BY <1>1, <2>1
    <3> QED BY <1>3, <1>5, <1>6, <2>1, <3>1
  <2>2. CASE i = k
    <3>1. i = j + 1 /\ 1 \in 1 .. 1 /\ i \in 1 .. j + 1
      BY <1>1, <2>2
    <3>2. middle[i] = e
      BY <1>4, <1>5, <3>1
    <3> QED BY <1>6, <2>2, <3>1, <3>2
  <2>3. CASE i > k
    <3>1. i - k \in 1 .. len - j /\ j + 1 + (i - k) = i /\ j + (i - k) = i - 1
      BY <1>1, <2>3
    <3>2. r[i] = last[i - k] /\ last[i - k] = s[i - 1]
      BY <1>3, <1>6, <3>1
    <3> QED BY <2>3, <3>2
  <2> QED BY <2>1, <2>2, <2>3
<1>8. DOMAIN s = 1 .. len
  BY LenProperties
<1> QED BY <1>1, <1>6, <1>7, <1>8 DEF With

(* What the element at place k leaves when it is taken out                 *)
Without(s, len, k, r) ==
  /\ DOMAIN r = 1 .. len - 1
  /\ \A i \in 1 .. len - 1 : r[i] = IF i < k THEN s[i] ELSE s[i + 1]

(* The one occurrence of an element is removed.                            *)
LEMMA Removed ==
  ASSUME NEW S, NEW s \in Seq(S), NEW len \in Nat, Len(s) = len,
         NEW k \in 1 .. len, \A i \in 1 .. len : s[i] = s[k] => i = k,
         NEW r, r = Queue!RemoveFirst(s, s[k])
  PROVE  r \in Seq(S) /\ Without(s, len, k, r)
<1> DEFINE j == k - 1
           first == SubSeq(s, 1, j)
           last == SubSeq(s, k + 1, len)
           I == {i \in 1 .. len : s[i] = s[k]}
<1>1. j \in 0 .. len /\ j \in Nat /\ j + 1 = k /\ len - k \in Nat /\ k \in 0 .. len
      /\ j + (len - k) = len - 1
  OBVIOUS
<1>2. r = first \o last
  <2>1. I = {k}
    OBVIOUS
  <2>2. Queue!Min(I) \in I
    <3> HIDE DEF I
    <3>1. I \in SUBSET Nat /\ I # {}
      BY <2>1
    <3> QED BY <3>1, LeastOf
  <2>3. Queue!Min(I) = k
    BY <2>1, <2>2
  <2>4. Queue!SelectInSeq(s, LAMBDA v : v = s[k]) = Queue!Min(I)
    BY <2>1 DEF Queue!SelectInSeq
  <2>5. \E i \in 1 .. Len(s) : s[i] = s[k]
    OBVIOUS
  <2>6. r = Queue!RemoveAt(s, k)
    BY <2>3, <2>4, <2>5 DEF Queue!RemoveFirst
  <2> QED BY <2>6 DEF Queue!RemoveAt
<1> HIDE DEF j, I
<1>3. first \in Seq(S) /\ Len(first) = j /\ \A i \in 1 .. j : first[i] = s[i]
  <2>1. Halves(S, s, len, j)
    BY <1>1, Halved
  <2> QED BY <2>1 DEF Halves
<1>4. /\ last \in Seq(S) /\ Len(last) = len - k
      /\ \A i \in 1 .. len - k : last[i] = s[k + i]
  <2>1. Halves(S, s, len, k)
    BY <1>1, Halved
  <2> QED BY <2>1 DEF Halves
<1> HIDE DEF first, last
<1>5. /\ r \in Seq(S) /\ DOMAIN r = 1 .. j + (len - k)
      /\ \A i \in 1 .. j : r[i] = first[i]
      /\ \A i \in 1 .. len - k : r[j + i] = last[i]
  <2> DEFINE m == len - k
  <2>1. /\ m \in Nat /\ Len(last) = m /\ Len(first) = j /\ j \in Nat
        /\ first \in Seq(S) /\ last \in Seq(S) /\ r = first \o last
    BY <1>1, <1>2, <1>3, <1>4
  <2> HIDE DEF m
  <2>2. /\ r \in Seq(S) /\ DOMAIN r = 1 .. j + m
        /\ \A i \in 1 .. j : r[i] = first[i]
        /\ \A i \in 1 .. m : r[j + i] = last[i]
    <3>1. r \in Seq(S) /\ Joins(first, j, last, m, r)
      BY ONLY <2>1, Joined
    <3> QED BY <3>1 DEF Joins
  <2> QED BY <2>2 DEF m
<1>6. ASSUME NEW i \in 1 .. len - 1
      PROVE  r[i] = IF i < k THEN s[i] ELSE s[i + 1]
  <2>1. CASE i < k
    <3>1. i \in 1 .. j
      BY <1>1, <2>1
    <3> QED BY <1>3, <1>5, <2>1, <3>1
  <2>2. CASE ~ (i < k)
    <3>1. i - j \in 1 .. len - k /\ j + (i - j) = i /\ k + (i - j) = i + 1
      BY <1>1, <2>2
    <3>2. r[i] = last[i - j] /\ last[i - j] = s[i + 1]
      BY <1>4, <1>5, <3>1
    <3> QED BY <2>2, <3>2
  <2> QED BY <2>1, <2>2
<1> QED BY <1>1, <1>5, <1>6 DEF Without

-----------------------------------------------------------------------------
(* Who is in a queue, and before whom                                      *)

Among(q, a) == \E i \in DOMAIN q : q[i] = a
Ahead(q, a, b) == \E i, j \in DOMAIN q : i < j /\ q[i] = a /\ q[j] = b
OnceEach(q) == \A i, j \in DOMAIN q : q[i] = q[j] => i = j

LEMMA AfterInsert ==
  ASSUME NEW S, NEW s \in Seq(S), NEW e \in S, NEW len \in Nat, Len(s) = len,
         OnceEach(s), ~ Among(s, e),
         NEW k \in 1 .. len + 1, NEW r, r = Queue!InsertAt(s, k, e)
  PROVE  /\ r \in Seq(S) /\ OnceEach(r)
         /\ \A a : Among(r, a) <=> a = e \/ Among(s, a)
         /\ \A a, b : Ahead(r, a, b) =>
              \/ Ahead(s, a, b)
              \/ b = e /\ \E i \in 1 .. k - 1 : s[i] = a
              \/ a = e /\ \E i \in k .. len : s[i] = b
<1>1. /\ r \in Seq(S) /\ DOMAIN r = 1 .. len + 1 /\ DOMAIN s = 1 .. len
      /\ \A i \in 1 .. len + 1 :
           r[i] = IF i < k THEN s[i] ELSE IF i = k THEN e ELSE s[i - 1]
  <2>1. r \in Seq(S) /\ With(s, len, e, k, r)
    BY Inserted
  <2> QED BY <2>1 DEF With
<1> DEFINE old(i) == IF i < k THEN i ELSE i - 1
<1>2. ASSUME NEW i \in 1 .. len + 1, i # k
      PROVE  old(i) \in 1 .. len /\ r[i] = s[old(i)] /\ r[i] # e
  <2>1. old(i) \in 1 .. len
    BY <1>2
  <2>2. r[i] = s[old(i)]
    BY <1>1, <1>2
  <2> QED BY <1>1, <2>1, <2>2 DEF Among
<1>3. r[k] = e
  BY <1>1
<1>4. \A i, j \in 1 .. len + 1 : i # k /\ j # k /\ i < j => old(i) < old(j)
  OBVIOUS
<1>5. \A i \in 1 .. len + 1 : /\ i < k => old(i) \in 1 .. k - 1
                              /\ i > k => old(i) \in k .. len
  OBVIOUS
<1>6. ASSUME NEW i \in 1 .. len
      PROVE  \E j \in 1 .. len + 1 : j # k /\ old(j) = i
  <2>1. CASE i < k
    <3>1. i \in 1 .. len + 1 /\ i # k /\ old(i) = i
      BY <2>1
    <3> QED BY <3>1
  <2>2. CASE ~ (i < k)
    <3>1. i + 1 \in 1 .. len + 1 /\ i + 1 # k /\ old(i + 1) = i
      BY <2>2
    <3> QED BY <3>1
  <2> QED BY <2>1, <2>2
<1> HIDE DEF old
<1>7. OnceEach(r)
  <2> SUFFICES ASSUME NEW i \in 1 .. len + 1, NEW j \in 1 .. len + 1,
                      r[i] = r[j], i < j
               PROVE  FALSE
    <3>1. (\A i, j \in 1 .. len + 1 : r[i] = r[j] => ~ (i < j)) => OnceEach(r)
      BY <1>1 DEF OnceEach
    <3> QED BY <3>1
  <2>1. i # k /\ j # k
    BY <1>2, <1>3
  <2>2. old(i) < old(j) /\ old(i) \in 1 .. len /\ old(j) \in 1 .. len
        /\ s[old(i)] = s[old(j)]
    BY <1>2, <1>4, <2>1
  <2>3. old(i) = old(j)
    BY <1>1, <2>2 DEF OnceEach
  <2> QED BY <2>2, <2>3
<1>8. ASSUME NEW a PROVE Among(r, a) <=> a = e \/ Among(s, a)
  <2>1. Among(r, a) => a = e \/ Among(s, a)
    BY <1>1, <1>2, <1>3 DEF Among
  <2>2. a = e => Among(r, a)
    BY <1>1, <1>3 DEF Among
  <2>3. ASSUME Among(s, a) PROVE Among(r, a)
    <3>1. PICK i \in 1 .. len : s[i] = a
      BY <1>1, <2>3 DEF Among
    <3>2. PICK j \in 1 .. len + 1 : j # k /\ old(j) = i
      BY <1>6
    <3>3. r[j] = a
      BY <1>2, <3>1, <3>2
    <3> QED BY <1>1, <3>3 DEF Among
  <2> QED BY <2>1, <2>2, <2>3
<1>9. ASSUME NEW a, NEW b, Ahead(r, a, b)
      PROVE  \/ Ahead(s, a, b)
             \/ b = e /\ \E i \in 1 .. k - 1 : s[i] = a
             \/ a = e /\ \E i \in k .. len : s[i] = b
  <2>1. PICK i \in 1 .. len + 1, j \in 1 .. len + 1 : i < j /\ r[i] = a /\ r[j] = b
    BY <1>1, <1>9 DEF Ahead
  <2>2. CASE i # k /\ j # k
    <3>1. old(i) < old(j) /\ old(i) \in 1 .. len /\ old(j) \in 1 .. len
          /\ s[old(i)] = a /\ s[old(j)] = b
      BY <1>2, <1>4, <2>1, <2>2
    <3> QED BY <1>1, <3>1 DEF Ahead
  <2>3. CASE j = k
    <3>1. old(i) \in 1 .. k - 1 /\ s[old(i)] = a /\ b = e
      BY <1>2, <1>3, <1>5, <2>1, <2>3
    <3> QED BY <3>1
  <2>4. CASE i = k
    <3>1. old(j) \in k .. len /\ s[old(j)] = b /\ a = e
      BY <1>2, <1>3, <1>5, <2>1, <2>4
    <3> QED BY <3>1
  <2> QED BY <2>2, <2>3, <2>4
<1> QED BY <1>1, <1>7, <1>8, <1>9

LEMMA AfterRemove ==
  ASSUME NEW S, NEW s \in Seq(S), NEW len \in Nat, Len(s) = len, OnceEach(s),
         NEW k \in 1 .. len, NEW r \in Seq(S), Without(s, len, k, r)
  PROVE  /\ OnceEach(r)
         /\ \A a : Among(r, a) <=> a # s[k] /\ Among(s, a)
         /\ \A a, b : Ahead(r, a, b) => Ahead(s, a, b)
<1> DEFINE old(i) == IF i < k THEN i ELSE i + 1
<1>1. DOMAIN s = 1 .. len /\ DOMAIN r = 1 .. len - 1
  BY LenProperties DEF Without
<1>2. ASSUME NEW i \in 1 .. len - 1
      PROVE  old(i) \in 1 .. len /\ old(i) # k /\ r[i] = s[old(i)]
  BY DEF Without
<1>3. \A i, j \in 1 .. len - 1 : i < j => old(i) < old(j)
  OBVIOUS
<1>4. ASSUME NEW i \in 1 .. len, i # k
      PROVE  \E j \in 1 .. len - 1 : old(j) = i
  <2>1. CASE i < k
    <3>1. i \in 1 .. len - 1 /\ old(i) = i
      BY <2>1
    <3> QED BY <3>1
  <2>2. CASE ~ (i < k)
    <3>1. i - 1 \in 1 .. len - 1 /\ old(i - 1) = i
      BY <1>4, <2>2
    <3> QED BY <3>1
  <2> QED BY <2>1, <2>2
<1> HIDE DEF old
<1>5. OnceEach(r)
  <2> SUFFICES ASSUME NEW i \in 1 .. len - 1, NEW j \in 1 .. len - 1,
                      r[i] = r[j], i < j
               PROVE  FALSE
    <3>1. (\A i, j \in 1 .. len - 1 : r[i] = r[j] => ~ (i < j)) => OnceEach(r)
      BY <1>1 DEF OnceEach
    <3> QED BY <3>1
  <2>1. old(i) < old(j) /\ old(i) \in 1 .. len /\ old(j) \in 1 .. len
        /\ s[old(i)] = s[old(j)]
    BY <1>2, <1>3
  <2>2. old(i) = old(j)
    BY <1>1, <2>1 DEF OnceEach
  <2> QED BY <2>1, <2>2
<1>6. ASSUME NEW a PROVE Among(r, a) <=> a # s[k] /\ Among(s, a)
  <2>1. ASSUME Among(r, a) PROVE a # s[k] /\ Among(s, a)
    <3>1. PICK i \in 1 .. len - 1 : r[i] = a
      BY <1>1, <2>1 DEF Among
    <3>2. old(i) \in 1 .. len /\ old(i) # k /\ a = s[old(i)]
      BY <1>2, <3>1
    <3> QED BY <1>1, <3>2 DEF Among, OnceEach
  <2>2. ASSUME a # s[k], Among(s, a) PROVE Among(r, a)
    <3>1. PICK i \in 1 .. len : s[i] = a
      BY <1>1, <2>2 DEF Among
    <3>2. PICK j \in 1 .. len - 1 : old(j) = i
      BY <1>4, <2>2, <3>1
    <3>3. r[j] = a
      BY <1>2, <3>1, <3>2
    <3> QED BY <1>1, <3>3 DEF Among
  <2> QED BY <2>1, <2>2
<1>7. ASSUME NEW a, NEW b, Ahead(r, a, b) PROVE Ahead(s, a, b)
  <2>1. PICK i \in 1 .. len - 1, j \in 1 .. len - 1 : i < j /\ r[i] = a /\ r[j] = b
    BY <1>1, <1>7 DEF Ahead
  <2>2. old(i) < old(j) /\ old(i) \in 1 .. len /\ old(j) \in 1 .. len
        /\ s[old(i)] = a /\ s[old(j)] = b
    BY <1>2, <1>3, <2>1
  <2> QED BY <1>1, <2>2 DEF Ahead
<1> QED BY <1>5, <1>6, <1>7

-----------------------------------------------------------------------------
(* The queue of packets: mdns_send.c                                       *)

Clock == StartTime + elapsed
Marked(p) == packet[p].queued
At(p) == packet[p].send_at
Held(p) == in_hand = <<p>>

QueueTyped ==
  /\ elapsed \in 0 .. MaxTime
  /\ tx_queue \in Seq(Packets) /\ OnceEach(tx_queue)
  /\ packet \in [Packets -> [send_at : 0 .. TimeRange - 1, queued : BOOLEAN,
                             left : 0 .. MaxSends]]
  /\ tx_actions \in Seq(Packets \cup {Nothing})
  /\ Len(tx_actions) <= SendQueueLen
  /\ cursor \in Packets \cup {Nothing}
  /\ in_hand = <<>> \/ \E x \in Packets \cup {Nothing} : in_hand = <<x>>

(* The queue is in order of time, nothing in it is further away than half  *)
(* the clock's range, and what the timer has marked was due.               *)
InTime ==
  /\ \A a, b \in Packets : Ahead(tx_queue, a, b) => At(a) <= At(b)
  /\ \A p \in Packets : Among(tx_queue, p) =>
       /\ At(p) - Clock < TimeRange \div 2
       /\ Marked(p) => At(p) < Clock

(* The marked packets are the first ones, and each has an action to come,  *)
(* with one that no action of a packet before it in the queue comes after. *)
LastOfAll(a, b) ==
  \E m \in DOMAIN tx_actions :
    /\ tx_actions[m] = b
    /\ \A n \in DOMAIN tx_actions : tx_actions[n] = a => n < m
InTurn ==
  /\ \A p \in Packets : Among(tx_queue, p) /\ Marked(p) =>
       Held(p) \/ Among(tx_actions, p)
  /\ \A a, b \in Packets : Ahead(tx_queue, a, b) /\ Marked(b) =>
       Marked(a) /\ LastOfAll(a, b)

(* The timer looks at a packet that is due, the first one not marked.      *)
CursorDue == cursor # Nothing => Among(tx_queue, cursor) /\ At(cursor) < Clock
CursorFirst ==
  cursor # Nothing =>
    /\ ~ Marked(cursor)
    /\ \A a \in Packets : Ahead(tx_queue, a, cursor) => Marked(a)

(* What always holds, and what holds while the timer finds room            *)
QueueInv == QueueTyped /\ InTime /\ CursorDue
TurnsKept == InTurn /\ CursorFirst

(* While the timer goes through the packets, the action queue has room. A  *)
(* behaviour in which it has none breaks HandledInOrder: MCMdnsTx.         *)
RoomForTimer == cursor # Nothing => Queue!HasRoom


-----------------------------------------------------------------------------
(* The clock                                                               *)

(* The clock does not wrap, and no delay takes a packet past its end.      *)
LEMMA ClockRuns ==
  ASSUME QueueTyped
  PROVE  /\ Queue!Now = Clock /\ Clock \in 0 .. TimeRange - 1
         /\ TimeRange \in Nat \ {0}
         /\ \A d \in Delays :
              /\ d \in Nat /\ (Clock + d) % TimeRange = Clock + d
              /\ Clock + d \in 0 .. TimeRange - 1
              /\ d < TimeRange \div 2
<1>1. /\ StartTime \in Nat /\ MaxTime \in Nat /\ TimeRange \in Nat
      /\ StartTime + MaxTime + 0 < TimeRange /\ elapsed \in 0 .. MaxTime
  BY QueueAssumption DEF QueueTyped
<1>2. Clock \in 0 .. TimeRange - 1 /\ TimeRange \in Nat \ {0}
  BY <1>1 DEF Clock
<1>3. Clock % TimeRange = Clock
  <2> HIDE DEF Clock
  <2> QED BY <1>2
<1>4. Queue!Now = Clock
  BY <1>3 DEF Queue!Now, Clock
<1>5. ASSUME NEW d \in Delays
      PROVE  /\ d \in Nat /\ (Clock + d) % TimeRange = Clock + d
             /\ Clock + d \in 0 .. TimeRange - 1
             /\ d < TimeRange \div 2
  <2>1. /\ d \in Nat
        /\ StartTime + MaxTime + d < TimeRange
        /\ MaxTime + d < TimeRange \div 2
    BY QueueAssumption
  <2>2. Clock + d \in 0 .. TimeRange - 1
    BY <1>1, <2>1 DEF Clock
  <2>3. d < TimeRange \div 2
    <3>1. TimeRange \div 2 \in Nat
      BY <1>1
    <3> QED BY <1>1, <2>1, <3>1
  <2>4. (Clock + d) % TimeRange = Clock + d
    <3> DEFINE t == Clock + d
    <3>1. t \in 0 .. TimeRange - 1
      BY <2>2
    <3> HIDE DEF t
    <3>2. t % TimeRange = t
      BY <1>2, <3>1
    <3> QED BY <3>2 DEF t
  <2> QED BY <2>1, <2>2, <2>3, <2>4
<1> QED BY <1>2, <1>4, <1>5

(* What the timer finds due is in the past.                                *)
LEMMA DueIsPast ==
  ASSUME QueueTyped, InTime, NEW p \in Packets, Among(tx_queue, p), Queue!Due(p)
  PROVE  At(p) < Clock
<1>1. /\ Queue!Now = Clock /\ Clock \in 0 .. TimeRange - 1
      /\ TimeRange \in Nat \ {0}
  BY ClockRuns
<1>2. At(p) \in 0 .. TimeRange - 1
  BY DEF QueueTyped, At
<1>3. At(p) - Clock < TimeRange \div 2
  BY DEF InTime
<1>4. (At(p) - Clock) % TimeRange >= TimeRange \div 2
  BY <1>1 DEF Queue!Due, At
<1> DEFINE t == At(p) - Clock
<1>5. TimeRange \div 2 \in Nat
  BY <1>1
<1> SUFFICES ASSUME ~ (At(p) < Clock) PROVE FALSE
  OBVIOUS
<1>6. t \in 0 .. TimeRange - 1
  BY <1>1, <1>2
<1>7. t < TimeRange \div 2 /\ t % TimeRange >= TimeRange \div 2
  BY <1>3, <1>4
<1> HIDE DEF t
<1>8. t % TimeRange = t
  BY <1>1, <1>6
<1> QED BY <1>5, <1>6, <1>7, <1>8

(* A packet is put before the first one that is due later.                 *)
LEMMA Scheduled ==
  ASSUME QueueTyped, InTime,
         NEW s \in Seq(Packets), OnceEach(s),
         NEW p \in Packets, ~ Among(s, p),
         NEW d \in Delays, NEW sends \in 0 .. MaxSends,
         Queue!send_after(s, p, d, sends),
         \A a, b : Ahead(s, a, b) => Ahead(tx_queue, a, b)
  PROVE  /\ tx_queue' \in Seq(Packets) /\ OnceEach(tx_queue')
         /\ packet' \in [Packets -> [send_at : 0 .. TimeRange - 1,
                                     queued : BOOLEAN, left : 0 .. MaxSends]]
         /\ At(p)' = Clock + d /\ ~ Marked(p)'
         /\ \A a \in Packets \ {p} : At(a)' = At(a) /\ Marked(a)' = Marked(a)
         /\ \A a : Among(tx_queue', a) => a = p \/ Among(s, a)
         /\ \A a, b \in Packets : Ahead(tx_queue', a, b) =>
              \/ Ahead(s, a, b)
              \/ b = p /\ a # p /\ At(a) <= Clock + d
              \/ a = p /\ b # p /\ Among(s, b) /\ At(b) > Clock + d
<1> DEFINE len == Len(s)
           I == {i \in 1 .. Len(s) : packet[s[i]].send_at > Clock + d}
           later == IF I # {} THEN Queue!Min(I) ELSE 0
           k == IF later = 0 THEN len + 1 ELSE later
<1>1. /\ Queue!Now = Clock /\ (Clock + d) % TimeRange = Clock + d
      /\ Clock + d \in 0 .. TimeRange - 1
  BY ClockRuns
<1>2. len \in Nat /\ DOMAIN s = 1 .. len /\ \A i \in 1 .. len : s[i] \in Packets
  BY LenProperties, ElementOfSeq
<1>3. /\ tx_queue' = Queue!InsertAt(s, k, p)
      /\ packet' = [packet EXCEPT
           ![p] = [send_at |-> Clock + d, queued |-> FALSE, left |-> sends]]
  BY <1>1 DEF Queue!send_after, Queue!SelectInSeq
<1>4. /\ k \in 1 .. len + 1
      /\ \A i \in 1 .. k - 1 : ~ (At(s[i]) > Clock + d)
      /\ k \in 1 .. len => At(s[k]) > Clock + d
  <2>1. CASE I = {}
    <3>1. k = len + 1
      BY <2>1
    <3>2. \A i \in 1 .. len : ~ (At(s[i]) > Clock + d)
      BY <2>1 DEF At
    <3> HIDE DEF k, later, I, len
    <3>3. 1 .. k - 1 = 1 .. len /\ k \in 1 .. len + 1 /\ k \notin 1 .. len
      BY <1>2, <3>1
    <3> QED BY <3>2, <3>3
  <2>2. CASE I # {}
    <3>1. I \in SUBSET Nat /\ I \subseteq 1 .. len
      BY <1>2
    <3> HIDE DEF I
    <3>2. Queue!Min(I) \in I /\ \A y \in I : Queue!Min(I) <= y
      BY <2>2, <3>1, LeastOf
    <3>3. k = Queue!Min(I)
      BY <2>2, <3>1, <3>2
    <3> HIDE DEF k, later, len
    <3>4. k \in I /\ (\A y \in I : k <= y) /\ k \in 1 .. len
      BY <3>1, <3>2, <3>3
    <3>5. \A i \in 1 .. k - 1 : i \notin I /\ i \in 1 .. len
      BY <1>2, <3>4
    <3> QED BY <1>2, <3>4, <3>5 DEF I, At, len
  <2> QED BY <2>1, <2>2
<1> HIDE DEF k, later, I, len
<1>5. /\ tx_queue' \in Seq(Packets) /\ OnceEach(tx_queue')
      /\ \A a : Among(tx_queue', a) <=> a = p \/ Among(s, a)
      /\ \A a, b : Ahead(tx_queue', a, b) =>
           \/ Ahead(s, a, b)
           \/ b = p /\ \E i \in 1 .. k - 1 : s[i] = a
           \/ a = p /\ \E i \in k .. len : s[i] = b
  <2>1. Len(s) = len
    BY DEF len
  <2> QED BY <1>2, <1>3, <1>4, <2>1, AfterInsert
<1>6. /\ packet' \in [Packets -> [send_at : 0 .. TimeRange - 1,
                                  queued : BOOLEAN, left : 0 .. MaxSends]]
      /\ At(p)' = Clock + d /\ ~ Marked(p)'
      /\ \A a \in Packets \ {p} : At(a)' = At(a) /\ Marked(a)' = Marked(a)
  BY <1>1, <1>3 DEF QueueTyped, At, Marked
<1>7. ASSUME NEW a \in Packets, NEW b \in Packets, Ahead(tx_queue', a, b)
      PROVE  \/ Ahead(s, a, b)
             \/ b = p /\ a # p /\ At(a) <= Clock + d
             \/ a = p /\ b # p /\ Among(s, b) /\ At(b) > Clock + d
  <2>0. At(a) \in Int /\ Clock + d \in Int /\ At(b) \in Int
    BY <1>1 DEF QueueTyped, At
  <2>1. CASE b = p /\ \E i \in 1 .. k - 1 : s[i] = a
    <3>1. PICK i \in 1 .. k - 1 : s[i] = a
      BY <2>1
    <3>2. i \in 1 .. len
      BY <1>2, <1>4
    <3>3. a # p
      BY <1>2, <3>1, <3>2 DEF Among
    <3>4. ~ (At(a) > Clock + d)
      BY <1>4, <3>1
    <3> QED BY <2>0, <2>1, <3>3, <3>4
  <2>2. CASE a = p /\ \E i \in k .. len : s[i] = b
    <3>1. PICK i \in k .. len : s[i] = b
      BY <2>2
    <3>2. i \in 1 .. len /\ k \in 1 .. len
      BY <1>2, <1>4
    <3>3. Among(s, b) /\ b # p
      BY <1>2, <3>1, <3>2 DEF Among
    <3>4. At(b) > Clock + d
      <4>1. At(s[k]) > Clock + d
        BY <1>4, <3>2
      <4>2. CASE i = k
        BY <3>1, <4>1, <4>2
      <4>3. CASE i # k
        <5>1. k < i
          BY <1>4, <4>3
        <5>2. Ahead(s, s[k], b)
          BY <1>2, <3>1, <3>2, <5>1 DEF Ahead
        <5>3. Ahead(tx_queue, s[k], b) /\ s[k] \in Packets
          BY <1>2, <3>2, <5>2
        <5>4. At(s[k]) <= At(b) /\ At(s[k]) \in Int
          BY <5>3 DEF InTime, QueueTyped, At
        <5> QED BY <2>0, <4>1, <5>4
      <4> QED BY <4>2, <4>3
    <3> QED BY <2>2, <3>3, <3>4
  <2> QED BY <1>5, <1>7, <2>1, <2>2
<1> QED BY <1>5, <1>6, <1>7


-----------------------------------------------------------------------------
(* The queue's steps                                                       *)

LEMMA QueueInitial ==
  ASSUME Init
  PROVE  QueueInv /\ TurnsKept
<1>1. /\ elapsed = 0 /\ tx_queue = <<>> /\ tx_actions = <<>> /\ cursor = Nothing
      /\ in_hand = <<>>
      /\ packet = [p \in Packets |-> [send_at |-> 0, queued |-> FALSE, left |-> 0]]
  BY DEF Init, Queue!Init, Queue!Idle
<1>2. /\ MaxTime \in Nat /\ MaxSends \in Nat /\ TimeRange \in Nat \ {0}
      /\ SendQueueLen \in Nat
  BY QueueAssumption
<1>3. /\ DOMAIN tx_queue = {} /\ tx_queue \in Seq(Packets)
      /\ tx_actions \in Seq(Packets \cup {Nothing}) /\ Len(tx_actions) = 0
  BY <1>1
<1>4. QueueTyped
  <2>1. packet \in [Packets -> [send_at : 0 .. TimeRange - 1, queued : BOOLEAN,
                                left : 0 .. MaxSends]]
    BY <1>1, <1>2
  <2>2. Len(tx_actions) <= SendQueueLen /\ elapsed \in 0 .. MaxTime
    BY <1>1, <1>2, <1>3
  <2> QED BY <1>1, <1>3, <2>1, <2>2 DEF QueueTyped, OnceEach
<1>5. \A a, b : ~ Among(tx_queue, a) /\ ~ Ahead(tx_queue, a, b)
  BY <1>3 DEF Among, Ahead
<1> QED BY <1>1, <1>4, <1>5 DEF QueueInv, TurnsKept, InTime, InTurn, CursorDue, CursorFirst

LEMMA QueueKept ==
  ASSUME QueueInv, UNCHANGED queue
  PROVE  QueueInv' /\ (TurnsKept => TurnsKept')
BY DEF queue, QueueInv, QueueTyped, InTime, InTurn, CursorDue, CursorFirst, TurnsKept, Clock, At, Marked,
       Held, LastOfAll, Among, Ahead, OnceEach

(* Time goes on.                                                           *)
LEMMA TickPreserves ==
  ASSUME QueueInv, Queue!Tick
  PROVE  QueueInv' /\ (TurnsKept => TurnsKept')
<1>1. /\ elapsed < MaxTime /\ elapsed' = elapsed + 1
      /\ UNCHANGED <<tx_queue, packet, tx_actions, cursor, in_hand>>
  BY DEF Queue!Tick
<1>2. elapsed' \in 0 .. MaxTime /\ Clock' = Clock + 1
      /\ Clock \in Nat /\ MaxTime \in Nat /\ TimeRange \in Nat
  BY <1>1, QueueAssumption DEF Clock, QueueInv, QueueTyped
<1>3. QueueTyped'
  BY <1>1, <1>2 DEF QueueInv, QueueTyped, OnceEach
<1>4. \A p \in Packets : At(p)' = At(p) /\ At(p) \in Nat
  BY <1>1, <1>2 DEF QueueInv, QueueTyped, At
<1>5. InTime'
  <2>1. \A p \in Packets : At(p) - Clock < TimeRange \div 2
                           => At(p) - Clock' < TimeRange \div 2
    <3>1. TimeRange \div 2 \in Nat
      BY <1>2
    <3> QED BY <1>2, <1>4, <3>1
  <2>2. \A p \in Packets : At(p) < Clock => At(p) < Clock'
    BY <1>2, <1>4
  <2>3. ASSUME NEW p \in Packets, Among(tx_queue', p)
        PROVE  /\ At(p)' - Clock' < TimeRange \div 2
               /\ Marked(p)' => At(p)' < Clock'
    <3>1. Among(tx_queue, p) /\ Marked(p)' = Marked(p)
      BY <1>1, <2>3 DEF Marked
    <3>2. At(p) - Clock < TimeRange \div 2 /\ (Marked(p) => At(p) < Clock)
      BY <3>1 DEF QueueInv, InTime
    <3> QED BY <1>4, <2>1, <2>2, <3>1, <3>2
  <2>4. ASSUME NEW a \in Packets, NEW b \in Packets, Ahead(tx_queue', a, b)
        PROVE  At(a)' <= At(b)'
    <3>1. Ahead(tx_queue, a, b)
      BY <1>1, <2>4
    <3> QED BY <1>4, <3>1 DEF QueueInv, InTime
  <2> QED BY <2>3, <2>4 DEF InTime
<1>6. ASSUME TurnsKept PROVE InTurn'
  BY <1>1, <1>6 DEF TurnsKept, InTurn, LastOfAll, Among, Ahead, Marked, Held
<1>7. CursorDue'
  <2>1. ASSUME cursor # Nothing
        PROVE  At(cursor)' < Clock'
    <3>1. cursor \in Packets /\ At(cursor) < Clock
      BY <2>1 DEF QueueInv, CursorDue, QueueTyped
    <3> QED BY <1>1, <1>2, <1>4, <3>1 DEF At
  <2> QED BY <1>1, <2>1 DEF QueueInv, CursorDue, Among
<1>8. TurnsKept => CursorFirst'
  BY <1>1 DEF TurnsKept, CursorFirst, Ahead, Marked
<1> QED BY <1>3, <1>5, <1>6, <1>7, <1>8 DEF QueueInv, TurnsKept

(* A new packet, or one that is to be sent again, is not marked, and those *)
(* that are marked were due before it.                                     *)
LEMMA ScheduledPreserves ==
  ASSUME QueueInv, cursor = Nothing, UNCHANGED <<elapsed, tx_actions, cursor>>,
         NEW s \in Seq(Packets), OnceEach(s),
         NEW p \in Packets, ~ Among(s, p),
         NEW d \in Delays, NEW sends \in 0 .. MaxSends,
         Queue!send_after(s, p, d, sends),
         \A a, b : Ahead(s, a, b) => Ahead(tx_queue, a, b),
         \A a : Among(s, a) => Among(tx_queue, a),
         in_hand' = in_hand \/ (in_hand = <<p>> /\ in_hand' = <<>>)
  PROVE  QueueInv' /\ (TurnsKept => TurnsKept')
<1>1. /\ tx_queue' \in Seq(Packets) /\ OnceEach(tx_queue')
      /\ packet' \in [Packets -> [send_at : 0 .. TimeRange - 1,
                                  queued : BOOLEAN, left : 0 .. MaxSends]]
      /\ At(p)' = Clock + d /\ ~ Marked(p)'
      /\ \A a \in Packets \ {p} : At(a)' = At(a) /\ Marked(a)' = Marked(a)
      /\ \A a : Among(tx_queue', a) => a = p \/ Among(s, a)
      /\ \A a, b \in Packets : Ahead(tx_queue', a, b) =>
           \/ Ahead(s, a, b)
           \/ b = p /\ a # p /\ At(a) <= Clock + d
           \/ a = p /\ b # p /\ Among(s, b) /\ At(b) > Clock + d
  BY Scheduled DEF QueueInv
<1>2. /\ Clock' = Clock /\ Clock \in Nat /\ d \in Nat /\ d < TimeRange \div 2
      /\ TimeRange \div 2 \in Nat
  <2>1. /\ Clock \in 0 .. TimeRange - 1 /\ TimeRange \in Nat \ {0} /\ d \in Nat
        /\ d < TimeRange \div 2
    BY ClockRuns DEF QueueInv
  <2>2. TimeRange \div 2 \in Nat
    BY <2>1
  <2>3. Clock' = Clock
    BY DEF Clock
  <2> QED BY <2>1, <2>2, <2>3
<1>3. \A a \in Packets : At(a) \in Nat
  BY QueueAssumption DEF QueueInv, QueueTyped, At
<1>4. \A a, b \in Packets : Ahead(s, a, b) => a # p /\ b # p
  BY DEF Ahead, Among
<1>5. QueueTyped'
  BY <1>1 DEF QueueInv, QueueTyped
<1>6. InTime'
  <2>1. ASSUME NEW a \in Packets, NEW b \in Packets, Ahead(tx_queue', a, b)
        PROVE  At(a)' <= At(b)'
    <3>1. CASE Ahead(s, a, b)
      <4>1. At(a) <= At(b)
        BY <3>1 DEF QueueInv, InTime
      <4> QED BY <1>1, <1>4, <3>1, <4>1
    <3>2. CASE b = p /\ a # p /\ At(a) <= Clock + d
      BY <1>1, <3>2
    <3>3. CASE a = p /\ b # p /\ At(b) > Clock + d
      BY <1>1, <1>2, <1>3, <3>3
    <3> QED BY <1>1, <2>1, <3>1, <3>2, <3>3
  <2>2. ASSUME NEW a \in Packets, Among(tx_queue', a)
        PROVE  /\ At(a)' - Clock' < TimeRange \div 2
               /\ Marked(a)' => At(a)' < Clock'
    <3>1. CASE a = p
      <4>1. Clock + d - Clock < TimeRange \div 2
        BY <1>2
      <4> QED BY <1>1, <1>2, <3>1, <4>1
    <3>2. CASE a # p
      <4>1. Among(tx_queue, a)
        BY <1>1, <2>2, <3>2
      <4>2. At(a) - Clock < TimeRange \div 2 /\ (Marked(a) => At(a) < Clock)
        BY <4>1 DEF QueueInv, InTime
      <4> QED BY <1>1, <1>2, <3>2, <4>2
    <3> QED BY <3>1, <3>2
  <2> QED BY <2>1, <2>2 DEF InTime
<1>7. ASSUME TurnsKept PROVE InTurn'
  <2>1. ASSUME NEW a \in Packets, Among(tx_queue', a), Marked(a)'
        PROVE  Held(a)' \/ Among(tx_actions', a)
    <3>1. a # p /\ Among(tx_queue, a) /\ Marked(a)
      BY <1>1, <2>1
    <3>2. Held(a) \/ Among(tx_actions, a)
      BY <3>1, <1>7 DEF TurnsKept, InTurn
    <3>3. Held(a) => Held(a)'
      BY <3>1 DEF Held
    <3> QED BY <3>2, <3>3
  <2>2. ASSUME NEW a \in Packets, NEW b \in Packets, Ahead(tx_queue', a, b),
               Marked(b)'
        PROVE  Marked(a)' /\ LastOfAll(a, b)'
    <3>1. b # p /\ Marked(b)
      BY <1>1, <2>2
    <3>2. Ahead(s, a, b)
      <4>1. ASSUME Among(s, b), At(b) > Clock + d
            PROVE  FALSE
        <5>1. At(b) < Clock
          BY <3>1, <4>1 DEF QueueInv, InTime
        <5> QED BY <1>2, <1>3, <4>1, <5>1
      <4> QED BY <1>1, <2>2, <3>1, <4>1
    <3>3. Marked(a) /\ LastOfAll(a, b) /\ a # p
      BY <1>4, <3>1, <3>2, <1>7 DEF TurnsKept, InTurn
    <3> QED BY <1>1, <3>3 DEF LastOfAll
  <2> QED BY <2>1, <2>2 DEF InTurn
<1>8. CursorDue' /\ CursorFirst'
  BY DEF CursorDue, CursorFirst
<1> QED BY <1>5, <1>6, <1>7, <1>8 DEF QueueInv, TurnsKept

(* A caller's packet is new.                                               *)
LEMMA SchedulePreserves ==
  ASSUME QueueInv, NEW p \in Packets, NEW d \in Delays, NEW n \in 1 .. MaxSends,
         Queue!Schedule(p, d, n)
  PROVE  QueueInv' /\ (TurnsKept => TurnsKept')
<1>1. /\ cursor = Nothing /\ ~ Among(tx_queue, p)
      /\ Queue!send_after(tx_queue, p, d, n)
      /\ UNCHANGED <<elapsed, tx_actions, cursor>> /\ in_hand' = in_hand
  BY DEF Queue!Schedule, Queue!Unlocked, Queue!Live, Among
<1>2. n \in 0 .. MaxSends /\ tx_queue \in Seq(Packets) /\ OnceEach(tx_queue)
  BY DEF QueueInv, QueueTyped
<1>3. /\ \A a, b : Ahead(tx_queue, a, b) => Ahead(tx_queue, a, b)
      /\ \A a : Among(tx_queue, a) => Among(tx_queue, a)
      /\ in_hand' = in_hand \/ (in_hand = <<p>> /\ in_hand' = <<>>)
  BY <1>1
<1> QED BY <1>1, <1>2, <1>3, ScheduledPreserves


(* A marked packet in the service task's hand, with no further action to   *)
(* come, is the first of the queue.                                        *)
LEMMA LastActionAtHead ==
  ASSUME QueueTyped, InTurn, NEW p \in Packets, in_hand = <<p>>,
         Among(tx_queue, p), Marked(p), ~ Among(tx_actions, p)
  PROVE  tx_queue # <<>> /\ Head(tx_queue) = p
<1>1. tx_queue \in Seq(Packets) /\ OnceEach(tx_queue)
  BY DEF QueueTyped
<1>2. PICK i \in DOMAIN tx_queue : tx_queue[i] = p
  BY DEF Among
<1>3. DOMAIN tx_queue = 1 .. Len(tx_queue) /\ Len(tx_queue) \in Nat
  BY <1>1, LenProperties
<1>4. tx_queue # <<>>
  BY <1>2
<1>5. Head(tx_queue) = tx_queue[1] /\ 1 \in DOMAIN tx_queue /\ tx_queue[1] \in Packets
  BY <1>1, <1>2, <1>3, <1>4, Taken, ElementOfSeq
<1>6. CASE i # 1
  <2>1. Ahead(tx_queue, tx_queue[1], p)
    <3>1. 1 < i
      BY <1>2, <1>3, <1>6
    <3> QED BY <1>2, <1>5, <3>1 DEF Ahead
  <2>2. LastOfAll(tx_queue[1], p)
    BY <1>5, <2>1 DEF InTurn
  <2> QED BY <2>2 DEF LastOfAll, Among
<1> QED BY <1>2, <1>4, <1>5, <1>6

(* A packet that leaves the queue takes nothing from the others.           *)
LEMMA LeavingPreserves ==
  ASSUME QueueInv, cursor = Nothing,
         UNCHANGED <<elapsed, packet, tx_actions, cursor>>,
         NEW p \in Packets,
         tx_queue' \in Seq(Packets), OnceEach(tx_queue'),
         \A a : Among(tx_queue', a) <=> a # p /\ Among(tx_queue, a),
         \A a, b : Ahead(tx_queue', a, b) => Ahead(tx_queue, a, b),
         in_hand' = in_hand \/ (in_hand = <<p>> /\ in_hand' = <<>>)
  PROVE  QueueInv' /\ (TurnsKept => TurnsKept')
<1>1. QueueTyped'
  BY DEF QueueInv, QueueTyped
<1>2. Clock' = Clock /\ \A a \in Packets : At(a)' = At(a) /\ Marked(a)' = Marked(a)
  BY DEF Clock, At, Marked
<1>3. InTime'
  BY <1>2 DEF QueueInv, InTime
<1>4. ASSUME TurnsKept PROVE InTurn'
  <2>1. ASSUME NEW a \in Packets, Among(tx_queue', a), Marked(a)'
        PROVE  Held(a)' \/ Among(tx_actions', a)
    <3>1. a # p /\ (Held(a) \/ Among(tx_actions, a))
      BY <1>2, <2>1, <1>4 DEF TurnsKept, InTurn
    <3>2. Held(a) => Held(a)'
      BY <3>1 DEF Held
    <3> QED BY <3>1, <3>2
  <2>2. ASSUME NEW a \in Packets, NEW b \in Packets, Ahead(tx_queue', a, b),
               Marked(b)'
        PROVE  Marked(a)' /\ LastOfAll(a, b)'
    <3>1. Marked(a) /\ LastOfAll(a, b)
      BY <1>2, <2>2, <1>4 DEF TurnsKept, InTurn
    <3> QED BY <1>2, <3>1 DEF LastOfAll
  <2> QED BY <2>1, <2>2 DEF InTurn
<1>5. CursorDue' /\ CursorFirst'
  BY DEF CursorDue, CursorFirst
<1> QED BY <1>1, <1>3, <1>4, <1>5 DEF QueueInv, TurnsKept

LEMMA ClearPreserves ==
  ASSUME QueueInv, NEW p \in Packets, Queue!Clear(p)
  PROVE  QueueInv' /\ (TurnsKept => TurnsKept')
<1>1. /\ cursor = Nothing /\ Among(tx_queue, p)
      /\ tx_queue' = Queue!RemoveFirst(tx_queue, p)
      /\ UNCHANGED <<elapsed, packet, tx_actions, cursor, in_hand>>
  BY DEF Queue!Clear, Queue!Unlocked, Queue!Live, Among
<1>2. tx_queue \in Seq(Packets) /\ OnceEach(tx_queue)
  BY DEF QueueInv, QueueTyped
<1> DEFINE len == Len(tx_queue)
<1>3. len \in Nat /\ DOMAIN tx_queue = 1 .. len
  BY <1>2, LenProperties
<1>4. Len(tx_queue) = len
  OBVIOUS
<1> HIDE DEF len
<1>5. PICK k \in 1 .. len : tx_queue[k] = p
  BY <1>1, <1>3 DEF Among
<1>6. \A i \in 1 .. len : tx_queue[i] = tx_queue[k] => i = k
  BY <1>2, <1>3 DEF OnceEach
<1>7. tx_queue' = Queue!RemoveFirst(tx_queue, tx_queue[k])
  BY <1>1, <1>5
<1>8. tx_queue' \in Seq(Packets) /\ Without(tx_queue, len, k, tx_queue')
  <2> DEFINE r == tx_queue'
  <2>1. /\ tx_queue \in Seq(Packets) /\ len \in Nat /\ Len(tx_queue) = len /\ k \in 1 .. len
        /\ \A i \in 1 .. len : tx_queue[i] = tx_queue[k] => i = k
        /\ r = Queue!RemoveFirst(tx_queue, tx_queue[k])
    BY <1>2, <1>3, <1>4, <1>6, <1>7
  <2> HIDE DEF r
  <2>2. r \in Seq(Packets) /\ Without(tx_queue, len, k, r)
    BY ONLY <2>1, Removed
  <2> QED BY <2>2 DEF r
<1>9. /\ OnceEach(tx_queue')
      /\ \A a : Among(tx_queue', a) <=> a # tx_queue[k] /\ Among(tx_queue, a)
      /\ \A a, b : Ahead(tx_queue', a, b) => Ahead(tx_queue, a, b)
  <2> DEFINE r == tx_queue'
  <2>1. /\ tx_queue \in Seq(Packets) /\ len \in Nat /\ Len(tx_queue) = len
        /\ OnceEach(tx_queue) /\ k \in 1 .. len
        /\ r \in Seq(Packets) /\ Without(tx_queue, len, k, r)
    BY <1>2, <1>3, <1>4, <1>8
  <2> HIDE DEF r
  <2>2. /\ OnceEach(r)
        /\ \A a : Among(r, a) <=> a # tx_queue[k] /\ Among(tx_queue, a)
        /\ \A a, b : Ahead(r, a, b) => Ahead(tx_queue, a, b)
    BY ONLY <2>1, AfterRemove
  <2> QED BY <2>2 DEF r
<1> QED BY <1>1, <1>5, <1>8, <1>9, LeavingPreserves

-----------------------------------------------------------------------------
(* The service task                                                        *)

LEMMA ReceivePreserves ==
  ASSUME QueueInv, Queue!Receive
  PROVE  QueueInv' /\ (TurnsKept => TurnsKept')
<1>1. /\ in_hand = <<>> /\ tx_actions # <<>>
      /\ in_hand' = <<Head(tx_actions)>> /\ tx_actions' = Tail(tx_actions)
      /\ UNCHANGED <<elapsed, tx_queue, packet, cursor>>
  BY DEF Queue!Receive, Queue!Idle
<1> DEFINE len == Len(tx_actions)
<1>2. /\ tx_actions' \in Seq(Packets \cup {Nothing})
      /\ Len(tx_actions') = len - 1 /\ DOMAIN tx_actions' = 1 .. len - 1
      /\ DOMAIN tx_actions = 1 .. len
      /\ \A i \in 1 .. len - 1 : tx_actions'[i] = tx_actions[i + 1]
      /\ in_hand' = <<tx_actions[1]>> /\ tx_actions[1] \in Packets \cup {Nothing}
      /\ len \in Nat \ {0} /\ len <= SendQueueLen
  <2>1. tx_actions \in Seq(Packets \cup {Nothing}) /\ Len(tx_actions) <= SendQueueLen
    BY DEF QueueInv, QueueTyped
  <2>2. /\ Tail(tx_actions) \in Seq(Packets \cup {Nothing})
        /\ Len(Tail(tx_actions)) = Len(tx_actions) - 1
        /\ DOMAIN Tail(tx_actions) = 1 .. Len(tx_actions) - 1
        /\ DOMAIN tx_actions = 1 .. Len(tx_actions)
        /\ \A i \in 1 .. Len(tx_actions) - 1 : Tail(tx_actions)[i] = tx_actions[i + 1]
        /\ Head(tx_actions) = tx_actions[1]
        /\ Head(tx_actions) \in Packets \cup {Nothing}
        /\ Len(tx_actions) \in Nat \ {0}
    BY <1>1, <2>1, Taken
  <2> QED BY <1>1, <2>1, <2>2
<1> HIDE DEF len
<1>3. QueueTyped'
  <2>1. Len(tx_actions') <= SendQueueLen
    BY <1>2, QueueAssumption
  <2> QED BY <1>1, <1>2, <2>1 DEF QueueInv, QueueTyped, OnceEach
<1>4. InTime' /\ CursorDue' /\ (TurnsKept => CursorFirst')
  BY <1>1 DEF QueueInv, InTime, TurnsKept, CursorDue, CursorFirst, Clock, At, Marked,
             Among, Ahead
<1>5. ASSUME TurnsKept PROVE InTurn'
  <2>1. ASSUME NEW p \in Packets, Among(tx_queue', p), Marked(p)'
        PROVE  Held(p)' \/ Among(tx_actions', p)
    <3>1. Among(tx_actions, p)
      <4>1. Among(tx_queue, p) /\ Marked(p)
        BY <1>1, <2>1 DEF Marked
      <4>2. ~ Held(p)
        BY <1>1 DEF Held
      <4> QED BY <4>1, <4>2, <1>5 DEF TurnsKept, InTurn
    <3>2. PICK i \in 1 .. len : tx_actions[i] = p
      BY <1>2, <3>1 DEF Among
    <3>3. CASE i = 1
      BY <1>2, <3>2, <3>3 DEF Held
    <3>4. CASE i # 1
      <4>1. i - 1 \in 1 .. len - 1 /\ i - 1 + 1 = i
        BY <1>2, <3>4
      <4>2. tx_actions'[i - 1] = p
        BY <1>2, <3>2, <4>1
      <4> QED BY <1>2, <4>1, <4>2 DEF Among
    <3> QED BY <3>3, <3>4
  <2>2. ASSUME NEW a \in Packets, NEW b \in Packets, Ahead(tx_queue', a, b),
               Marked(b)'
        PROVE  Marked(a)' /\ LastOfAll(a, b)'
    <3>1. Ahead(tx_queue, a, b) /\ Marked(b)
      BY <1>1, <2>2 DEF Marked
    <3>2. Marked(a) /\ LastOfAll(a, b)
      BY <3>1, <1>5 DEF TurnsKept, InTurn
    <3>3. Among(tx_actions, a)
      <4>1. Among(tx_queue, a)
        BY <3>1 DEF Ahead, Among
      <4>2. ~ Held(a)
        BY <1>1 DEF Held
      <4> QED BY <3>2, <4>1, <4>2, <1>5 DEF TurnsKept, InTurn
    <3>4. PICK m \in 1 .. len : /\ tx_actions[m] = b
                               /\ \A n \in 1 .. len : tx_actions[n] = a => n < m
      BY <1>2, <3>2 DEF LastOfAll
    <3>5. m # 1
      <4>1. PICK n \in 1 .. len : tx_actions[n] = a
        BY <1>2, <3>3 DEF Among
      <4>2. n < m
        BY <3>4, <4>1
      <4> QED BY <4>2
    <3>6. m - 1 \in 1 .. len - 1 /\ m - 1 + 1 = m
      BY <1>2, <3>5
    <3>7. tx_actions'[m - 1] = b
      BY <1>2, <3>4, <3>6
    <3>8. ASSUME NEW n \in 1 .. len - 1, tx_actions'[n] = a
          PROVE  n < m - 1
      <4>1. n + 1 \in 1 .. len /\ tx_actions[n + 1] = a
        BY <1>2, <3>8
      <4>2. n + 1 < m
        BY <3>4, <4>1
      <4> QED BY <4>2
    <3>9. LastOfAll(a, b)'
      BY <1>2, <3>6, <3>7, <3>8 DEF LastOfAll
    <3> QED BY <1>1, <3>2, <3>9 DEF Marked
  <2> QED BY <2>1, <2>2 DEF InTurn
<1> QED BY <1>3, <1>4, <1>5 DEF QueueInv, TurnsKept

(* What is put down without an effect is the last action of no packet that *)
(* still waits for it.                                                     *)
LEMMA PutDownPreserves ==
  ASSUME QueueInv, in_hand' = <<>>,
         UNCHANGED <<elapsed, tx_queue, packet, tx_actions, cursor>>,
         TurnsKept =>
           \A p \in Packets : in_hand = <<p>> /\ Among(tx_queue, p) /\ Marked(p)
                              => Among(tx_actions, p)
  PROVE  QueueInv' /\ (TurnsKept => TurnsKept')
<1>1. QueueTyped'
  BY DEF QueueInv, QueueTyped, OnceEach
<1>2. InTime' /\ CursorDue' /\ (TurnsKept => CursorFirst')
  BY DEF QueueInv, InTime, TurnsKept, CursorDue, CursorFirst, Clock, At, Marked,
             Among, Ahead
<1>3. ASSUME TurnsKept PROVE InTurn'
  <2>1. \A p \in Packets : Among(tx_queue, p) /\ Marked(p) => Among(tx_actions, p)
    BY <1>3 DEF TurnsKept, InTurn, Held
  <2>2. \A a, b \in Packets : Ahead(tx_queue, a, b) /\ Marked(b) =>
          Marked(a) /\ LastOfAll(a, b)
    BY <1>3 DEF TurnsKept, InTurn
  <2> QED BY <2>1, <2>2 DEF InTurn, LastOfAll, Among, Ahead, Marked
<1> QED BY <1>1, <1>2, <1>3 DEF QueueInv, TurnsKept

LEMMA SkipPacketPreserves ==
  ASSUME QueueInv, NEW p \in Packets, Queue!SkipPacket(p)
  PROVE  QueueInv' /\ (TurnsKept => TurnsKept')
<1>1. /\ in_hand = <<p>> /\ in_hand' = <<>>
      /\ ~ (tx_queue # <<>> /\ Head(tx_queue) = p /\ Marked(p))
      /\ UNCHANGED <<elapsed, tx_queue, packet, tx_actions, cursor>>
  BY DEF Queue!SkipPacket, Queue!Expected, Queue!Idle, Marked
<1>2. ASSUME TurnsKept, NEW q \in Packets, in_hand = <<q>>, Among(tx_queue, q), Marked(q)
      PROVE  Among(tx_actions, q)
  <2>1. q = p
    BY <1>1, <1>2
  <2> QED BY <1>1, <1>2, <2>1, LastActionAtHead DEF QueueInv, TurnsKept
<1> QED BY <1>1, <1>2, PutDownPreserves

LEMMA ExecuteOtherPreserves ==
  ASSUME QueueInv, Queue!ExecuteOther
  PROVE  QueueInv' /\ (TurnsKept => TurnsKept')
<1>1. /\ in_hand = <<Nothing>> /\ in_hand' = <<>>
      /\ UNCHANGED <<elapsed, tx_queue, packet, tx_actions, cursor>>
  BY DEF Queue!ExecuteOther, Queue!Idle
<1>2. \A p \in Packets : in_hand # <<p>>
  BY <1>1, QueueAssumption
<1> QED BY <1>1, <1>2, PutDownPreserves

LEMMA SendPacketPreserves ==
  ASSUME QueueInv, NEW p \in Packets, NEW d \in Delays, Queue!SendPacket(p, d)
  PROVE  QueueInv' /\ (TurnsKept => TurnsKept')
<1>1. /\ cursor = Nothing /\ in_hand = <<p>> /\ in_hand' = <<>>
      /\ tx_queue # <<>> /\ Head(tx_queue) = p
      /\ UNCHANGED <<elapsed, tx_actions, cursor>>
  BY DEF Queue!SendPacket, Queue!Expected, Queue!Unlocked, Queue!Idle
<1>2. tx_queue \in Seq(Packets) /\ OnceEach(tx_queue)
  BY DEF QueueInv, QueueTyped
<1> DEFINE len == Len(tx_queue)
<1>3. /\ Tail(tx_queue) \in Seq(Packets) /\ DOMAIN Tail(tx_queue) = 1 .. len - 1
      /\ \A i \in 1 .. len - 1 :
           Tail(tx_queue)[i] = IF i < 1 THEN tx_queue[i] ELSE tx_queue[i + 1]
      /\ tx_queue[1] = p /\ len \in Nat /\ 1 \in 1 .. len
  BY <1>1, <1>2, Taken
<1>4. Len(tx_queue) = len
  OBVIOUS
<1> HIDE DEF len
<1> DEFINE rest == Tail(tx_queue)
<1>5. rest \in Seq(Packets) /\ Without(tx_queue, len, 1, rest)
  BY <1>3 DEF Without
<1> HIDE DEF rest
<1>6. /\ OnceEach(rest)
      /\ \A a : Among(rest, a) <=> a # tx_queue[1] /\ Among(tx_queue, a)
      /\ \A a, b : Ahead(rest, a, b) => Ahead(tx_queue, a, b)
  <2>1. /\ tx_queue \in Seq(Packets) /\ len \in Nat /\ Len(tx_queue) = len
        /\ OnceEach(tx_queue) /\ 1 \in 1 .. len
        /\ rest \in Seq(Packets) /\ Without(tx_queue, len, 1, rest)
    BY <1>2, <1>3, <1>4, <1>5
  <2> QED BY ONLY <2>1, AfterRemove
<1>7. CASE packet[p].left > 1
  <2>1. Queue!send_after(rest, p, d, packet[p].left - 1)
    BY <1>7 DEF Queue!SendPacket, rest
  <2>2. packet[p].left - 1 \in 0 .. MaxSends
    <3>1. packet[p].left \in 0 .. MaxSends
      BY DEF QueueInv, QueueTyped
    <3>2. MaxSends \in Nat
      BY QueueAssumption
    <3> QED BY <1>7, <3>1, <3>2
  <2>3. ~ Among(rest, p) /\ \A a : Among(rest, a) => Among(tx_queue, a)
    BY <1>3, <1>6
  <2> DEFINE sends == packet[p].left - 1
  <2>4. sends \in 0 .. MaxSends /\ Queue!send_after(rest, p, d, sends)
    BY <2>1, <2>2
  <2> HIDE DEF sends
  <2> QED BY <1>1, <1>5, <1>6, <2>3, <2>4, ScheduledPreserves
<1>8. CASE ~ (packet[p].left > 1)
  <2>1. tx_queue' = rest /\ packet' = packet
    BY <1>8 DEF Queue!SendPacket, rest
  <2>2. \A a : Among(tx_queue', a) <=> a # p /\ Among(tx_queue, a)
    BY <1>3, <1>6, <2>1
  <2> QED BY <1>1, <1>5, <1>6, <2>1, <2>2, LeavingPreserves
<1> QED BY <1>7, <1>8


LEMMA OtherActionPreserves ==
  ASSUME QueueInv, Queue!OtherAction
  PROVE  QueueInv' /\ (TurnsKept => TurnsKept')
<1>1. /\ Len(tx_actions) < SendQueueLen /\ tx_actions' = Append(tx_actions, Nothing)
      /\ UNCHANGED <<elapsed, tx_queue, packet, cursor, in_hand>>
  BY DEF Queue!OtherAction, Queue!HasRoom
<1>2. /\ tx_actions' \in Seq(Packets \cup {Nothing})
      /\ Len(tx_actions') = Len(tx_actions) + 1
      /\ DOMAIN tx_actions' = 1 .. Len(tx_actions) + 1
      /\ DOMAIN tx_actions = 1 .. Len(tx_actions)
      /\ \A i \in 1 .. Len(tx_actions) : tx_actions'[i] = tx_actions[i]
      /\ tx_actions'[Len(tx_actions) + 1] = Nothing
      /\ Len(tx_actions) \in Nat
  BY <1>1, Appended, LenProperties DEF QueueInv, QueueTyped
<1> DEFINE len == Len(tx_actions)
<1> HIDE DEF len
<1>3. /\ DOMAIN tx_actions = 1 .. len /\ DOMAIN tx_actions' = 1 .. len + 1
      /\ \A i \in 1 .. len : tx_actions'[i] = tx_actions[i] /\ i \in 1 .. len + 1
      /\ \A i \in 1 .. len + 1 : i \notin 1 .. len => tx_actions'[i] = Nothing
      /\ len \in Nat
  <2>1. \A i \in 1 .. len + 1 : i \in 1 .. len \/ i = len + 1
    BY <1>2 DEF len
  <2> QED BY <1>2, <2>1 DEF len
<1>4. QueueTyped'
  <2>1. Len(tx_actions') <= SendQueueLen
    BY <1>1, <1>2, QueueAssumption
  <2> QED BY <1>1, <1>2, <2>1 DEF QueueInv, QueueTyped, OnceEach
<1>5. InTime' /\ CursorDue' /\ (TurnsKept => CursorFirst')
  BY <1>1 DEF QueueInv, InTime, TurnsKept, CursorDue, CursorFirst, Clock, At, Marked,
             Among, Ahead
<1>6. ASSUME TurnsKept PROVE InTurn'
  <2>1. \A p : Among(tx_actions, p) => Among(tx_actions', p)
    BY <1>3 DEF Among
  <2>2. ASSUME NEW a \in Packets, NEW b \in Packets, LastOfAll(a, b)
        PROVE  LastOfAll(a, b)'
    <3>1. PICK m \in 1 .. len : /\ tx_actions[m] = b
                               /\ \A n \in 1 .. len : tx_actions[n] = a => n < m
      BY <1>3, <2>2 DEF LastOfAll
    <3>2. a # Nothing
      BY QueueAssumption
    <3>3. \A n \in 1 .. len + 1 : tx_actions'[n] = a => n < m
      BY <1>3, <3>1, <3>2
    <3> QED BY <1>3, <3>1, <3>3 DEF LastOfAll
  <2>3. \A p \in Packets : Among(tx_queue, p) /\ Marked(p) =>
          Held(p) \/ Among(tx_actions, p)
    BY <1>6 DEF TurnsKept, InTurn
  <2>4. \A a, b \in Packets : Ahead(tx_queue, a, b) /\ Marked(b) =>
          Marked(a) /\ LastOfAll(a, b)
    BY <1>6 DEF TurnsKept, InTurn
  <2>5. \A p \in Packets : Marked(p)' = Marked(p) /\ Held(p)' = Held(p)
    BY <1>1 DEF Marked, Held
  <2> QED BY <1>1, <2>1, <2>2, <2>3, <2>4, <2>5 DEF InTurn
<1> QED BY <1>4, <1>5, <1>6 DEF QueueInv, TurnsKept

-----------------------------------------------------------------------------
(* The timer                                                               *)

LEMMA TimerLocksPreserves ==
  ASSUME QueueInv, Queue!TimerLocks
  PROVE  QueueInv' /\ (TurnsKept => TurnsKept')
<1> DEFINE len == Len(tx_queue)
           I == {i \in 1 .. Len(tx_queue) : ~ packet[tx_queue[i]].queued}
           k == IF I # {} THEN Queue!Min(I) ELSE 0
<1>1. /\ k # 0 /\ Queue!Due(tx_queue[k]) /\ cursor' = tx_queue[k]
      /\ UNCHANGED <<elapsed, tx_queue, packet, tx_actions, in_hand>>
  BY DEF Queue!TimerLocks, Queue!SelectInSeq
<1>2. /\ tx_queue \in Seq(Packets) /\ OnceEach(tx_queue)
      /\ DOMAIN tx_queue = 1 .. len /\ len \in Nat
  BY LenProperties DEF QueueInv, QueueTyped
<1>3. k \in 1 .. len /\ ~ Marked(tx_queue[k])
      /\ \A i \in 1 .. k - 1 : i \in 1 .. len /\ Marked(tx_queue[i])
  <2>1. I # {} /\ I \in SUBSET Nat
    BY <1>1, <1>2
  <2>2. k \in I /\ \A y \in I : k <= y
    <3> HIDE DEF I
    <3> QED BY <2>1, LeastOf
  <2> HIDE DEF k, len
  <2>3. k \in 1 .. len /\ \A i \in 1 .. k - 1 : i \in 1 .. len /\ i \notin I
    BY <1>2, <2>2 DEF len
  <2> QED BY <2>2, <2>3 DEF I, Marked, len
<1> HIDE DEF k, I, len
<1>4. tx_queue[k] \in Packets /\ Among(tx_queue, tx_queue[k])
  BY <1>2, <1>3, ElementOfSeq DEF Among
<1>5. At(tx_queue[k]) < Clock
  BY <1>1, <1>4, DueIsPast DEF QueueInv
<1>6. \A a \in Packets : Ahead(tx_queue, a, tx_queue[k]) => Marked(a)
  <2> SUFFICES ASSUME NEW a \in Packets, Ahead(tx_queue, a, tx_queue[k])
               PROVE  Marked(a)
    OBVIOUS
  <2>1. PICK i \in 1 .. len, j \in 1 .. len :
          i < j /\ tx_queue[i] = a /\ tx_queue[j] = tx_queue[k]
    BY <1>2 DEF Ahead
  <2>2. j = k
    BY <1>2, <1>3, <2>1 DEF OnceEach
  <2>3. i \in 1 .. k - 1
    BY <2>1, <2>2
  <2> QED BY <1>3, <2>1, <2>3
<1>7. QueueTyped'
  BY <1>1, <1>4 DEF QueueInv, QueueTyped, OnceEach
<1>8. InTime' /\ (TurnsKept => InTurn')
  BY <1>1 DEF QueueInv, InTime, TurnsKept, InTurn, LastOfAll, Held, Clock, At, Marked, Among,
              Ahead
<1>9. CursorDue' /\ CursorFirst'
  BY <1>1, <1>3, <1>4, <1>5, <1>6 DEF CursorDue, CursorFirst, Clock, At, Marked, Among, Ahead
<1> QED BY <1>7, <1>8, <1>9 DEF QueueInv, TurnsKept

(* What the timer goes on with: the next packet, when it is due            *)
LEMMA NextInQueue ==
  ASSUME QueueInv, Queue!TimerQueues
  PROVE  /\ cursor \in Packets /\ Among(tx_queue, cursor) /\ At(cursor) < Clock
         /\ UNCHANGED <<elapsed, tx_queue, in_hand>>
         /\ packet' = [packet EXCEPT ![cursor].queued = Queue!HasRoom]
         /\ tx_actions' = IF Queue!HasRoom THEN Append(tx_actions, cursor)
                                           ELSE tx_actions
         /\ \E k \in 1 .. Len(tx_queue) :
              /\ tx_queue[k] = cursor
              /\ \/ cursor' = Nothing
                 \/ /\ k + 1 \in 1 .. Len(tx_queue)
                    /\ cursor' = tx_queue[k + 1]
                    /\ cursor' \in Packets /\ Among(tx_queue, cursor')
                    /\ At(cursor') < Clock
<1> DEFINE len == Len(tx_queue)
<1>1. /\ cursor \in Packets /\ Among(tx_queue, cursor) /\ At(cursor) < Clock
      /\ UNCHANGED <<elapsed, tx_queue, in_hand>>
      /\ packet' = [packet EXCEPT ![cursor].queued = Queue!HasRoom]
      /\ tx_actions' = IF Queue!HasRoom THEN Append(tx_actions, cursor)
                                        ELSE tx_actions
  BY DEF Queue!TimerQueues, Queue!Unlocked, QueueInv, CursorDue, QueueTyped
<1>3. /\ tx_queue \in Seq(Packets) /\ OnceEach(tx_queue)
      /\ DOMAIN tx_queue = 1 .. len /\ len \in Nat
  BY LenProperties DEF QueueInv, QueueTyped
<1>5. PICK k \in 1 .. len : tx_queue[k] = cursor
  BY <1>1, <1>3 DEF Among
<1>6. cursor' = IF k + 1 <= len /\ Queue!Due(tx_queue[k + 1])
                  THEN tx_queue[k + 1] ELSE Nothing
  <2> DEFINE I == {i \in 1 .. Len(tx_queue) : tx_queue[i] = cursor}
  <2>1. \A i \in 1 .. len : tx_queue[i] = cursor => i = k
    BY <1>3, <1>5 DEF OnceEach
  <2>2. I = {k}
    BY <1>5, <2>1
  <2>3. Queue!Min(I) = k
    <3>1. I \in SUBSET Nat /\ I # {}
      BY <2>2
    <3> HIDE DEF I
    <3>2. Queue!Min(I) \in I
      BY <3>1, LeastOf
    <3> QED BY <2>2, <3>2
  <2>4. Queue!SelectInSeq(tx_queue, LAMBDA p : p = cursor) = k
    BY <2>2, <2>3 DEF Queue!SelectInSeq
  <2> QED BY <2>4 DEF Queue!TimerQueues
<1> HIDE DEF len
<1>7. cursor' = Nothing \/
        /\ k + 1 \in 1 .. len /\ cursor' = tx_queue[k + 1]
        /\ cursor' \in Packets /\ Among(tx_queue, cursor') /\ At(cursor') < Clock
  <2> SUFFICES ASSUME k + 1 <= len, Queue!Due(tx_queue[k + 1]),
                      cursor' = tx_queue[k + 1]
               PROVE  /\ k + 1 \in 1 .. len /\ cursor' \in Packets
                      /\ Among(tx_queue, cursor') /\ At(cursor') < Clock
    BY <1>6
  <2>1. k + 1 \in 1 .. len
    BY <1>3
  <2>2. tx_queue[k + 1] \in Packets /\ Among(tx_queue, tx_queue[k + 1])
    BY <1>3, <2>1, ElementOfSeq DEF Among
  <2>3. At(tx_queue[k + 1]) < Clock
    BY <2>2, DueIsPast DEF QueueInv
  <2> QED BY <2>1, <2>2, <2>3
<1> QED BY <1>1, <1>5, <1>7 DEF len

(* Marked or not for want of room, what is due stays in order.             *)
LEMMA TimerQueuesInOrder ==
  ASSUME QueueInv, Queue!TimerQueues
  PROVE  QueueInv'
<1>1. /\ cursor \in Packets /\ Among(tx_queue, cursor) /\ At(cursor) < Clock
      /\ UNCHANGED <<elapsed, tx_queue, in_hand>>
      /\ packet' = [packet EXCEPT ![cursor].queued = Queue!HasRoom]
      /\ tx_actions' = IF Queue!HasRoom THEN Append(tx_actions, cursor)
                                        ELSE tx_actions
  BY NextInQueue
<1>2. \/ cursor' = Nothing
      \/ cursor' \in Packets /\ Among(tx_queue, cursor') /\ At(cursor') < Clock
  BY NextInQueue
<1>3. /\ \A a \in Packets : At(a)' = At(a)
      /\ \A a \in Packets : a # cursor => Marked(a)' = Marked(a)
      /\ packet' \in [Packets -> [send_at : 0 .. TimeRange - 1, queued : BOOLEAN,
                                  left : 0 .. MaxSends]]
  <2>1. (Queue!HasRoom = TRUE) \/ (Queue!HasRoom = FALSE)
    BY DEF Queue!HasRoom
  <2>2. \/ packet' = [packet EXCEPT ![cursor].queued = TRUE]
        \/ packet' = [packet EXCEPT ![cursor].queued = FALSE]
    BY <1>1, <2>1
  <2>3. cursor \in Packets
    BY <1>1
  <2>4. CASE packet' = [packet EXCEPT ![cursor].queued = TRUE]
    BY <2>3, <2>4 DEF QueueInv, QueueTyped, At, Marked
  <2>5. CASE packet' = [packet EXCEPT ![cursor].queued = FALSE]
    BY <2>3, <2>5 DEF QueueInv, QueueTyped, At, Marked
  <2> QED BY <2>2, <2>4, <2>5
<1>4. Clock' = Clock
  BY <1>1 DEF Clock
<1>5. QueueTyped'
  <2>1. /\ tx_actions' \in Seq(Packets \cup {Nothing})
        /\ Len(tx_actions') <= SendQueueLen
    <3>1. CASE Queue!HasRoom
      <4>1. /\ tx_actions' = Append(tx_actions, cursor) /\ Len(tx_actions) \in Nat
            /\ tx_actions \in Seq(Packets \cup {Nothing})
            /\ Len(tx_actions) < SendQueueLen
        BY <1>1, <3>1, LenProperties DEF QueueInv, QueueTyped, Queue!HasRoom
      <4>2. /\ tx_actions' \in Seq(Packets \cup {Nothing})
            /\ Len(tx_actions') = Len(tx_actions) + 1
        BY <1>1, <4>1, Appended
      <4> QED BY <4>1, <4>2, QueueAssumption
    <3>2. CASE ~ Queue!HasRoom
      BY <1>1, <3>2 DEF QueueInv, QueueTyped
    <3> QED BY <3>1, <3>2
  <2> QED BY <1>1, <1>2, <1>3, <2>1 DEF QueueInv, QueueTyped, OnceEach
<1>6. InTime'
  <2>1. ASSUME NEW p \in Packets, Among(tx_queue', p)
        PROVE  /\ At(p)' - Clock' < TimeRange \div 2
               /\ Marked(p)' => At(p)' < Clock'
    <3>1. Among(tx_queue, p)
      BY <1>1, <2>1
    <3>2. At(p) - Clock < TimeRange \div 2 /\ (Marked(p) => At(p) < Clock)
      BY <3>1 DEF QueueInv, InTime
    <3>3. Marked(p)' => At(p) < Clock
      BY <1>1, <1>3, <3>2
    <3> QED BY <1>3, <1>4, <3>2, <3>3
  <2>2. ASSUME NEW a \in Packets, NEW b \in Packets, Ahead(tx_queue', a, b)
        PROVE  At(a)' <= At(b)'
    BY <1>1, <1>3, <2>2 DEF QueueInv, InTime
  <2> QED BY <2>1, <2>2 DEF InTime
<1>7. CursorDue'
  <2> SUFFICES ASSUME cursor' # Nothing
               PROVE  Among(tx_queue', cursor') /\ packet'[cursor'].send_at < Clock'
    BY DEF CursorDue, At, Among
  <2>1. cursor' \in Packets /\ Among(tx_queue, cursor') /\ At(cursor') < Clock
    BY <1>2
  <2> DEFINE next == cursor'
  <2>2. next \in Packets
    BY <2>1
  <2> HIDE DEF next
  <2>3. packet'[next].send_at = packet[next].send_at
    BY <1>3, <2>2 DEF At
  <2> QED BY <1>1, <1>4, <2>1, <2>3 DEF At, next
<1> QED BY <1>5, <1>6, <1>7 DEF QueueInv

(* With room, the packet's action is the last of all, as it is among those *)
(* that are marked.                                                        *)
LEMMA TimerQueuesInTurn ==
  ASSUME QueueInv, TurnsKept, Queue!TimerQueues, RoomForTimer
  PROVE  TurnsKept'
<1> DEFINE len == Len(tx_queue)
           room == Len(tx_actions)
<1>1. /\ cursor \in Packets /\ Among(tx_queue, cursor) /\ ~ Marked(cursor)
      /\ \A a \in Packets : Ahead(tx_queue, a, cursor) => Marked(a)
      /\ Queue!HasRoom /\ cursor # Nothing
  <2>1. cursor # Nothing
    BY DEF Queue!TimerQueues, Queue!Unlocked
  <2> QED BY <2>1, NextInQueue DEF RoomForTimer, TurnsKept, CursorFirst
<1>2. /\ packet' = [packet EXCEPT ![cursor].queued = TRUE]
      /\ tx_actions' = Append(tx_actions, cursor)
      /\ UNCHANGED <<elapsed, tx_queue, in_hand>>
  <2>1. Queue!HasRoom = TRUE
    BY <1>1 DEF Queue!HasRoom
  <2> QED BY <2>1, NextInQueue
<1>3. /\ tx_queue \in Seq(Packets) /\ OnceEach(tx_queue)
      /\ DOMAIN tx_queue = 1 .. len /\ len \in Nat
  BY LenProperties DEF QueueInv, QueueTyped
<1>4. /\ tx_actions' \in Seq(Packets \cup {Nothing})
      /\ Len(tx_actions') = room + 1
      /\ DOMAIN tx_actions' = 1 .. room + 1 /\ DOMAIN tx_actions = 1 .. room
      /\ \A i \in 1 .. room : tx_actions'[i] = tx_actions[i]
      /\ tx_actions'[room + 1] = cursor
      /\ room \in Nat /\ room < SendQueueLen
  BY <1>1, <1>2, Appended, LenProperties DEF QueueInv, QueueTyped, Queue!HasRoom
<1>5. PICK k \in 1 .. len :
        /\ tx_queue[k] = cursor
        /\ \/ cursor' = Nothing
           \/ /\ k + 1 \in 1 .. len /\ cursor' = tx_queue[k + 1]
              /\ cursor' \in Packets
  BY NextInQueue
<1> HIDE DEF len, room
<1>7. /\ packet'[cursor].queued
      /\ \A a \in Packets : a # cursor => Marked(a)' = Marked(a)
  BY <1>1, <1>2 DEF QueueInv, QueueTyped, Marked
<1>8. \A p : Held(p)' = Held(p)
  BY <1>2 DEF Held
<1>9. InTurn'
  <2>1. \A p : Among(tx_actions, p) \/ p = cursor => Among(tx_actions', p)
    <3>1. \A i \in 1 .. room : i \in 1 .. room + 1
      BY <1>4
    <3>2. room + 1 \in 1 .. room + 1
      BY <1>4
    <3> QED BY <1>4, <3>1, <3>2 DEF Among
  <2>2. ASSUME NEW p \in Packets, Among(tx_queue', p), Marked(p)'
        PROVE  Held(p)' \/ Among(tx_actions', p)
    <3>1. CASE p = cursor
      BY <2>1, <3>1
    <3>2. CASE p # cursor
      BY <1>2, <1>7, <1>8, <2>1, <2>2, <3>2 DEF TurnsKept, InTurn
    <3> QED BY <3>1, <3>2
  <2>3. ASSUME NEW a \in Packets, NEW b \in Packets, Ahead(tx_queue', a, b),
               Marked(b)'
        PROVE  Marked(a)' /\ LastOfAll(a, b)'
    <3>1. Ahead(tx_queue, a, b) /\ a # b
      BY <1>2, <1>3, <2>3 DEF Ahead, OnceEach
    <3>2. CASE b = cursor
      <4>1. Marked(a)'
        BY <1>1, <1>7, <3>1, <3>2
      <4>2. \A n \in 1 .. room + 1 : tx_actions'[n] = a => n < room + 1
        BY <1>4, <3>1, <3>2
      <4>3. room + 1 \in 1 .. room + 1
        BY <1>4
      <4>4. LastOfAll(a, b)'
        BY <1>4, <3>2, <4>2, <4>3 DEF LastOfAll
      <4> QED BY <4>1, <4>4
    <3>3. CASE b # cursor
      <4>1. Marked(a) /\ LastOfAll(a, b)
        BY <1>7, <2>3, <3>1, <3>3 DEF TurnsKept, InTurn
      <4>2. a # cursor
        BY <1>1, <4>1
      <4>3. PICK m \in 1 .. room : /\ tx_actions[m] = b
                                  /\ \A n \in 1 .. room : tx_actions[n] = a => n < m
        BY <1>4, <4>1 DEF LastOfAll
      <4>4. \A n \in 1 .. room + 1 : tx_actions'[n] = a => n < m
        <5>1. \A n \in 1 .. room + 1 : n \in 1 .. room \/ n = room + 1
          BY <1>4
        <5> QED BY <1>4, <4>2, <4>3, <5>1
      <4>5. m \in 1 .. room + 1 /\ tx_actions'[m] = b
        BY <1>4, <4>3
      <4>6. LastOfAll(a, b)'
        BY <1>4, <4>4, <4>5 DEF LastOfAll
      <4> QED BY <1>7, <4>1, <4>2, <4>6
    <3> QED BY <3>2, <3>3
  <2> QED BY <2>2, <2>3 DEF InTurn
<1>10. CursorFirst'
  <2> SUFFICES ASSUME cursor' # Nothing
               PROVE  /\ ~ Marked(cursor)'
                      /\ \A a \in Packets : Ahead(tx_queue', a, cursor') => Marked(a)'
    BY DEF CursorFirst, Marked, Ahead
  <2>1. /\ k + 1 \in 1 .. len /\ cursor' = tx_queue[k + 1] /\ cursor' \in Packets
    BY <1>5
  <2>2. Ahead(tx_queue, cursor, cursor') /\ cursor' # cursor
    <3>1. k < k + 1 /\ k # k + 1
      OBVIOUS
    <3>2. cursor' # cursor
      BY <1>3, <1>5, <2>1, <3>1 DEF OnceEach
    <3> QED BY <1>3, <1>5, <2>1, <3>1, <3>2 DEF Ahead
  <2> DEFINE next == cursor'
  <2>3. ~ Marked(next)
    BY <1>1, <2>1, <2>2 DEF TurnsKept, InTurn
  <2>4. ASSUME NEW a \in Packets, Ahead(tx_queue, a, next)
        PROVE  a = cursor \/ Marked(a)
    <3>1. PICK i \in 1 .. len, j \in 1 .. len :
            i < j /\ tx_queue[i] = a /\ tx_queue[j] = tx_queue[k + 1]
      BY <1>3, <2>1, <2>4 DEF Ahead
    <3>2. j = k + 1
      BY <1>3, <2>1, <3>1 DEF OnceEach
    <3>3. i = k \/ i < k
      BY <3>1, <3>2
    <3>4. i < k => Ahead(tx_queue, a, cursor)
      BY <1>3, <1>5, <3>1 DEF Ahead
    <3> QED BY <1>1, <1>5, <3>1, <3>3, <3>4
  <2>5. ~ Marked(cursor)'
    <3>1. packet'[next] = packet[next]
      BY <1>1, <1>2, <2>1, <2>2 DEF QueueInv, QueueTyped
    <3> QED BY <2>3, <3>1 DEF Marked
  <2>6. ASSUME NEW a \in Packets, Ahead(tx_queue', a, next)
        PROVE  packet'[a].queued
    <3>1. a = cursor \/ Marked(a)
      BY <1>2, <2>4, <2>6
    <3> QED BY <1>1, <1>2, <3>1 DEF QueueInv, QueueTyped, Marked
  <2> QED BY <1>2, <2>1, <2>5, <2>6 DEF Marked
<1> QED BY <1>9, <1>10 DEF TurnsKept

-----------------------------------------------------------------------------
(* The theorems                                                            *)

LEMMA QueuePreserved ==
  ASSUME QueueInv, [Next]_vars
  PROVE  QueueInv' /\ (TurnsKept /\ RoomForTimer => TurnsKept')
<1>1. CASE QueueActs
  <2>1. Queue!Next
    BY <1>1 DEF QueueActs
  <2>2. CASE \E p \in Packets, d \in Delays, n \in 1 .. MaxSends : Queue!Schedule(p, d, n)
    BY <2>2, SchedulePreserves
  <2>3. CASE \E p \in Packets : Queue!Clear(p)
    BY <2>3, ClearPreserves
  <2>4. CASE Queue!OtherAction
    BY <2>4, OtherActionPreserves
  <2>5. CASE Queue!Timer
    BY <2>5, TimerLocksPreserves, TimerQueuesInOrder, TimerQueuesInTurn
       DEF Queue!Timer
  <2>6. CASE Queue!Service
    BY <2>6, ReceivePreserves, ExecuteOtherPreserves, SkipPacketPreserves,
       SendPacketPreserves DEF Queue!Service
  <2>7. CASE Queue!Tick
    BY <2>7, TickPreserves
  <2> QED BY <2>1, <2>2, <2>3, <2>4, <2>5, <2>6, <2>7 DEF Queue!Next
<1>2. CASE ServerActs
  BY <1>2, QueueKept DEF ServerActs
<1>3. CASE StationActs
  BY <1>3, QueueKept DEF StationActs
<1>4. CASE SearchesAct
  BY <1>4, QueueKept DEF SearchesAct
<1>5. CASE UNCHANGED vars
  BY <1>5, QueueKept DEF vars
<1> QED BY <1>1, <1>2, <1>3, <1>4, <1>5 DEF Next

LEMMA OrderFromInvariant ==
  ASSUME QueueInv
  PROVE  Queue!InOrderOfTime /\ Queue!TypeOK
<1>1. Queue!InOrderOfTime
  <2> SUFFICES ASSUME NEW i \in DOMAIN tx_queue, NEW j \in DOMAIN tx_queue, i < j
               PROVE  At(tx_queue[i]) <= At(tx_queue[j])
    BY DEF Queue!InOrderOfTime, At
  <2>1. tx_queue[i] \in Packets /\ tx_queue[j] \in Packets
    BY ElementOfSeq, LenProperties DEF QueueInv, QueueTyped
  <2>2. Ahead(tx_queue, tx_queue[i], tx_queue[j])
    BY DEF Ahead
  <2> QED BY <2>1, <2>2 DEF QueueInv, InTime
<1>2. Queue!TypeOK
  <2>1. Queue!IsInjective(tx_queue)
    BY DEF QueueInv, QueueTyped, OnceEach, Queue!IsInjective
  <2>2. cursor # Nothing => Queue!Live(cursor)
    BY DEF QueueInv, CursorDue, Among, Queue!Live
  <2> QED BY <2>1, <2>2 DEF QueueInv, QueueTyped, Queue!TypeOK
<1> QED BY <1>1, <1>2

LEMMA HeadFromTurns ==
  ASSUME QueueInv, TurnsKept
  PROVE  Queue!HandledAtHead
<1> SUFFICES ASSUME NEW p \in Packets, in_hand = <<p>>, Queue!Live(p),
                    packet[p].queued, ~ Queue!Contains(tx_actions, p)
             PROVE  Queue!Expected(p)
  BY DEF Queue!HandledAtHead
<1>1. Among(tx_queue, p) /\ Marked(p)
  BY DEF Queue!Live, Among, Marked
<1>2. ~ Among(tx_actions, p)
  <2>1. DOMAIN tx_actions = 1 .. Len(tx_actions)
    BY LenProperties DEF QueueInv, QueueTyped
  <2> QED BY <2>1 DEF Queue!Contains, Among
<1>3. tx_queue # <<>> /\ Head(tx_queue) = p
  BY <1>1, <1>2, LastActionAtHead DEF QueueInv, TurnsKept
<1> QED BY <1>1, <1>3 DEF Queue!Expected, Marked

(* Packets are kept in order of time, and those that are marked were due,  *)
(* whether or not there is room for their actions.                         *)
THEOREM QueueInvariance == Spec => []QueueInv
<1>1. Init => QueueInv
  BY QueueInitial
<1>2. QueueInv /\ [Next]_vars => QueueInv'
  BY QueuePreserved
<1> QED BY <1>1, <1>2, PTL DEF Spec

(* While the timer finds room in the action queue (mdns_send.c:1739), each *)
(* marked packet has an action to come, in the order of the queue.         *)
THEOREM TurnsAreKept == Spec /\ []RoomForTimer => []TurnsKept
<1>1. Init => TurnsKept
  BY QueueInitial
<1>2. QueueInv /\ TurnsKept /\ RoomForTimer /\ [Next]_vars => TurnsKept'
  BY QueuePreserved
<1> QED BY <1>1, <1>2, QueueInvariance, PTL DEF Spec

(* While it does, the last action of a packet comes when the packet is the *)
(* first of the queue, which is in order of time (HandledInOrder).         *)
THEOREM HandledAsDue == Spec /\ []RoomForTimer => []HandledInOrder
<1>1. QueueInv /\ TurnsKept => HandledInOrder
  BY OrderFromInvariant, HeadFromTurns DEF HandledInOrder
<1> QED BY <1>1, QueueInvariance, TurnsAreKept, PTL

-----------------------------------------------------------------------------
(* The searches: mdns_querier.c                                            *)

SearchRecord ==
  [state : {"free", "INIT", "RUNNING", "OFF"}, age : 0 .. Timeout + 1,
   since : 0 .. 2, found : Nat, max : 0 .. 1, done : BOOLEAN, told : 0 .. 1]
QueueAction ==
  {x \in [type : {"ADD", "SEND", "END", "RX"}, search : Memory \cup {Nowhere}] :
     x.type # "RX" => x.search \in Memory}

SearchesTyped(se, list, acts) ==
  /\ se \in [Memory -> SearchRecord]
  /\ list \in Seq(Memory) /\ OnceEach(list)
  /\ acts \in Seq(QueueAction) /\ Len(acts) <= SearchQueueLen
  /\ caller \in [Callers -> [at : Memory \cup {Nowhere}, how : {"blocking", "async"}]]

(* What is allocated is just one caller's.                                 *)
OneOwner(se) ==
  /\ \A c, d \in Callers : caller[c].at = caller[d].at /\ caller[c].at # Nowhere => c = d
  /\ \A a \in Memory : se[a].state # "free" <=> \E c \in Callers : caller[c].at = a
  /\ \A a \in Memory : se[a].state = "free" => ~ se[a].done /\ se[a].told = 0

(* A search in the chain is allocated and has told nobody of its end.      *)
ChainOpen(se, list) ==
  \A a \in Memory : Among(list, a) =>
    se[a].state # "free" /\ ~ se[a].done /\ se[a].told = 0

(* An action of a type for the search at a                                 *)
Asks(acts, i, type, a) == acts[i].type = type /\ acts[i].search = a

(* A search is added once, before anything else happens to it; the ends    *)
(* that name its memory and come before that are those of earlier ones,    *)
(* and what comes after is its own.                                        *)
AddedFirst(se, list, acts) ==
  \A a \in Memory : \A i \in DOMAIN acts : Asks(acts, i, "ADD", a) =>
    /\ se[a].state = "INIT" /\ ~ se[a].done /\ se[a].told = 0
    /\ ~ Among(list, a)
    /\ \A j \in DOMAIN acts : Asks(acts, j, "ADD", a) => i = j
    /\ \A j \in DOMAIN acts : Asks(acts, j, "END", a) => j < i
OwnEnd(se, list, acts) ==
  \A a \in Memory : \A i \in DOMAIN acts : Asks(acts, i, "END", a) /\ Among(list, a) =>
    se[a].state = "OFF" /\ Searches!Expired(se[a])

(* A search that has ended had its time or its results.                    *)
EndedFor(se) ==
  \A a \in Memory :
    /\ se[a].done \/ se[a].state = "OFF" =>
         Searches!Expired(se[a]) \/ Searches!Full(se[a])
    /\ se[a].max > 0 => se[a].found <= se[a].max

SearchesKeep(se, list, acts) ==
  /\ SearchesTyped(se, list, acts) /\ OneOwner(se) /\ ChainOpen(se, list)
  /\ AddedFirst(se, list, acts) /\ OwnEnd(se, list, acts) /\ EndedFor(se)
SearchInv == SearchesKeep(search, s_search_once, actions)

-----------------------------------------------------------------------------
(* What is done to one search or to the action queue                       *)

LEMMA SearchesCount ==
  /\ SearchQueueLen \in Nat /\ Timeout \in Nat /\ Nowhere \notin Memory
BY SearchAssumption

(* An action is posted that adds no search, and ends none but one that is  *)
(* in the chain and whose time is over.                                    *)
LEMMA Posted ==
  ASSUME NEW se, NEW list, NEW acts, SearchesKeep(se, list, acts),
         NEW act \in QueueAction, Len(acts) < SearchQueueLen, act.type # "ADD",
         act.type = "END" =>
           /\ Among(list, act.search)
           /\ se[act.search].state = "OFF" /\ Searches!Expired(se[act.search]),
         NEW more, more = Append(acts, act)
  PROVE  SearchesKeep(se, list, more)
<1> DEFINE len == Len(acts)
<1>1. SearchesTyped(se, list, acts)
  BY DEF SearchesKeep
<1>2. acts \in Seq(QueueAction)
  BY <1>1 DEF SearchesTyped
<1>3. /\ more \in Seq(QueueAction) /\ Len(more) = len + 1
      /\ DOMAIN more = 1 .. len + 1 /\ DOMAIN acts = 1 .. len
      /\ \A i \in 1 .. len : more[i] = acts[i]
      /\ more[len + 1] = act /\ len \in Nat
  BY <1>2, Appended, LenProperties
<1>4. SearchesTyped(se, list, more)
  <2>1. Len(more) <= SearchQueueLen
    BY <1>3, SearchesCount
  <2> QED BY <1>1, <1>3, <2>1 DEF SearchesTyped
<1> HIDE DEF len
<1>5. \A i \in 1 .. len + 1 : i \in 1 .. len \/ i = len + 1
  BY <1>3
<1>6. AddedFirst(se, list, more)
  <2> SUFFICES ASSUME NEW a \in Memory, NEW i \in 1 .. len + 1, Asks(more, i, "ADD", a)
               PROVE  /\ se[a].state = "INIT" /\ ~ se[a].done /\ se[a].told = 0
                      /\ ~ Among(list, a)
                      /\ \A j \in 1 .. len + 1 : Asks(more, j, "ADD", a) => i = j
                      /\ \A j \in 1 .. len + 1 : Asks(more, j, "END", a) => j < i
    BY <1>3 DEF AddedFirst
  <2>1. i \in 1 .. len /\ Asks(acts, i, "ADD", a)
    BY <1>3, <1>5 DEF Asks
  <2>2. /\ se[a].state = "INIT" /\ ~ se[a].done /\ se[a].told = 0
        /\ ~ Among(list, a)
        /\ \A j \in 1 .. len : Asks(acts, j, "ADD", a) => i = j
        /\ \A j \in 1 .. len : Asks(acts, j, "END", a) => j < i
    BY <1>3, <2>1 DEF SearchesKeep, AddedFirst
  <2>3. ~ Asks(more, len + 1, "ADD", a)
    BY <1>3 DEF Asks
  <2>4. ~ Asks(more, len + 1, "END", a)
    BY <1>3, <2>2 DEF Asks
  <2>5. \A j \in 1 .. len : /\ Asks(more, j, "ADD", a) => Asks(acts, j, "ADD", a)
                            /\ Asks(more, j, "END", a) => Asks(acts, j, "END", a)
    BY <1>3 DEF Asks
  <2> QED BY <1>5, <2>2, <2>3, <2>4, <2>5
<1>7. OwnEnd(se, list, more)
  <2> SUFFICES ASSUME NEW a \in Memory, NEW i \in 1 .. len + 1,
                      Asks(more, i, "END", a), Among(list, a)
               PROVE  se[a].state = "OFF" /\ Searches!Expired(se[a])
    BY <1>3 DEF OwnEnd
  <2>1. CASE i \in 1 .. len
    <3>1. Asks(acts, i, "END", a)
      BY <1>3, <2>1 DEF Asks
    <3> QED BY <1>3, <2>1, <3>1 DEF SearchesKeep, OwnEnd
  <2>2. CASE i = len + 1
    BY <1>3, <2>2 DEF Asks
  <2> QED BY <1>5, <2>1, <2>2
<1> QED BY <1>4, <1>6, <1>7 DEF SearchesKeep

(* The first action is taken: what it is about, and what is left           *)
LEMMA FirstTaken ==
  ASSUME NEW se, NEW list, NEW acts, SearchesKeep(se, list, acts), acts # <<>>,
         NEW rest, rest = Tail(acts), NEW act, act = Head(acts)
  PROVE  /\ SearchesKeep(se, list, rest)
         /\ act \in QueueAction
         /\ act.type = "ADD" =>
              /\ se[act.search].state = "INIT" /\ ~ se[act.search].done
              /\ se[act.search].told = 0 /\ ~ Among(list, act.search)
              /\ \A i \in DOMAIN rest : /\ ~ Asks(rest, i, "ADD", act.search)
                                        /\ ~ Asks(rest, i, "END", act.search)
         /\ act.type = "END" /\ Among(list, act.search) =>
              se[act.search].state = "OFF" /\ Searches!Expired(se[act.search])
<1> DEFINE len == Len(acts)
<1>1. SearchesTyped(se, list, acts)
  BY DEF SearchesKeep
<1>2. acts \in Seq(QueueAction)
  BY <1>1 DEF SearchesTyped
<1>3. /\ rest \in Seq(QueueAction) /\ Len(rest) = len - 1
      /\ DOMAIN rest = 1 .. len - 1 /\ DOMAIN acts = 1 .. len
      /\ \A i \in 1 .. len - 1 : rest[i] = acts[i + 1]
      /\ act = acts[1] /\ act \in QueueAction
      /\ len \in Nat \ {0}
  BY <1>2, Taken
<1>4. SearchesTyped(se, list, rest)
  <2>1. Len(rest) <= SearchQueueLen
    BY <1>1, <1>3, SearchesCount DEF SearchesTyped
  <2> QED BY <1>1, <1>3, <2>1 DEF SearchesTyped
<1> HIDE DEF len
<1>5. /\ \A i \in 1 .. len - 1 : i + 1 \in 1 .. len
      /\ \A i, j \in 1 .. len - 1 : /\ i + 1 < j + 1 => i < j
                                    /\ i + 1 = j + 1 => i = j
      /\ \A i \in 1 .. len - 1 : 1 # i + 1 /\ ~ (i + 1 < 1)
      /\ 1 \in 1 .. len
  BY <1>3
<1>6. \A a : \A i \in 1 .. len - 1 :
        /\ Asks(rest, i, "ADD", a) <=> Asks(acts, i + 1, "ADD", a)
        /\ Asks(rest, i, "END", a) <=> Asks(acts, i + 1, "END", a)
  BY <1>3 DEF Asks
<1>7. AddedFirst(se, list, rest)
  <2> SUFFICES ASSUME NEW a \in Memory, NEW i \in 1 .. len - 1, Asks(rest, i, "ADD", a)
               PROVE  /\ se[a].state = "INIT" /\ ~ se[a].done /\ se[a].told = 0
                      /\ ~ Among(list, a)
                      /\ \A j \in 1 .. len - 1 : Asks(rest, j, "ADD", a) => i = j
                      /\ \A j \in 1 .. len - 1 : Asks(rest, j, "END", a) => j < i
    BY <1>3 DEF AddedFirst
  <2>1. i + 1 \in 1 .. len /\ Asks(acts, i + 1, "ADD", a)
    BY <1>5, <1>6
  <2>2. /\ se[a].state = "INIT" /\ ~ se[a].done /\ se[a].told = 0
        /\ ~ Among(list, a)
        /\ \A j \in 1 .. len : Asks(acts, j, "ADD", a) => i + 1 = j
        /\ \A j \in 1 .. len : Asks(acts, j, "END", a) => j < i + 1
    BY <1>3, <2>1 DEF SearchesKeep, AddedFirst
  <2> QED BY <1>5, <1>6, <2>2
<1>8. OwnEnd(se, list, rest)
  BY <1>3, <1>5, <1>6 DEF SearchesKeep, OwnEnd
<1>9. ASSUME act.type = "ADD"
      PROVE  /\ se[act.search].state = "INIT" /\ ~ se[act.search].done
             /\ se[act.search].told = 0 /\ ~ Among(list, act.search)
             /\ \A i \in DOMAIN rest : /\ ~ Asks(rest, i, "ADD", act.search)
                                       /\ ~ Asks(rest, i, "END", act.search)
  <2> DEFINE a == act.search
  <2>1. a \in Memory /\ Asks(acts, 1, "ADD", a)
    BY <1>3, <1>9 DEF QueueAction, Asks
  <2> HIDE DEF a
  <2>2. /\ se[a].state = "INIT" /\ ~ se[a].done /\ se[a].told = 0
        /\ ~ Among(list, a)
        /\ \A j \in 1 .. len : Asks(acts, j, "ADD", a) => 1 = j
        /\ \A j \in 1 .. len : Asks(acts, j, "END", a) => j < 1
    BY <1>3, <1>5, <2>1 DEF SearchesKeep, AddedFirst
  <2>3. \A i \in 1 .. len - 1 : ~ Asks(rest, i, "ADD", a) /\ ~ Asks(rest, i, "END", a)
    BY <1>5, <1>6, <2>2
  <2> QED BY <1>3, <2>2, <2>3 DEF a
<1>10. ASSUME act.type = "END", Among(list, act.search)
       PROVE  se[act.search].state = "OFF" /\ Searches!Expired(se[act.search])
  <2>1. act.search \in Memory /\ Asks(acts, 1, "END", act.search)
    BY <1>3, <1>10 DEF QueueAction, Asks
  <2> QED BY <1>3, <1>5, <1>10, <2>1 DEF SearchesKeep, OwnEnd
<1> QED BY <1>3, <1>4, <1>7, <1>8, <1>9, <1>10 DEF SearchesKeep

(* A turn of the timer for a search in the chain whose end is not posted   *)
LEMMA TurnTaken ==
  ASSUME NEW se, NEW list, NEW acts, SearchesKeep(se, list, acts),
         NEW a \in Memory, Among(list, a), se[a].state # "OFF",
         NEW r \in SearchRecord, r.state \in {"RUNNING", "OFF"},
         r.state = "OFF" => Searches!Expired(se[a]),
         r.age = se[a].age, r.found = se[a].found, r.max = se[a].max,
         r.done = se[a].done, r.told = se[a].told,
         NEW new, new = [se EXCEPT ![a] = r]
  PROVE  SearchesKeep(new, list, acts) /\ new[a] = r
<1>1. SearchesTyped(se, list, acts)
  BY DEF SearchesKeep
<1>2. /\ new \in [Memory -> SearchRecord] /\ new[a] = r
      /\ \A b \in Memory : b # a => new[b] = se[b]
  BY <1>1 DEF SearchesTyped
<1>3. SearchesTyped(new, list, acts)
  BY <1>1, <1>2 DEF SearchesTyped
<1>4. se[a].state # "free" /\ ~ se[a].done /\ se[a].told = 0 /\ r.state # "free"
  BY DEF SearchesKeep, ChainOpen
<1>5. OneOwner(new) /\ ChainOpen(new, list)
  BY <1>2, <1>4 DEF SearchesKeep, OneOwner, ChainOpen
<1>6. AddedFirst(new, list, acts)
  <2>1. \A i \in DOMAIN acts : ~ Asks(acts, i, "ADD", a)
    BY DEF SearchesKeep, AddedFirst
  <2> QED BY <1>2, <2>1 DEF SearchesKeep, AddedFirst
<1>7. OwnEnd(new, list, acts)
  <2>1. \A i \in DOMAIN acts : ~ Asks(acts, i, "END", a)
    BY DEF SearchesKeep, OwnEnd
  <2> QED BY <1>2, <2>1 DEF SearchesKeep, OwnEnd
<1>8. EndedFor(new)
  <2>1. Searches!Expired(r) <=> Searches!Expired(se[a])
    BY DEF Searches!Expired
  <2>2. Searches!Full(r) <=> Searches!Full(se[a])
    BY DEF Searches!Full
  <2> QED BY <1>2, <1>4, <2>1, <2>2 DEF SearchesKeep, EndedFor
<1> QED BY <1>2, <1>3, <1>5, <1>6, <1>7, <1>8 DEF SearchesKeep


(* A search that is taken off the chain ends, having had its time or its   *)
(* results; one that is not in the chain is not touched.                   *)
ChainState == [list : Seq(Memory), search : [Memory -> SearchRecord]]

LEMMA EndedMade ==
  ASSUME NEW e \in SearchRecord,
         NEW r, r = [state |-> "OFF", age |-> e.age, since |-> e.since,
                     found |-> e.found, max |-> e.max, done |-> TRUE, told |-> 1]
  PROVE  r \in SearchRecord
BY DEF SearchRecord

LEMMA EndedRecord ==
  ASSUME NEW e \in SearchRecord, e.told = 0, NEW r, r = Searches!Ended(e)
  PROVE  /\ r \in SearchRecord /\ r.state = "OFF" /\ r.done
         /\ r.age = e.age /\ r.found = e.found /\ r.max = e.max
<1>1. r = [e EXCEPT !.state = "OFF", !.done = TRUE, !.told = 1]
  BY DEF Searches!Ended, SearchRecord
<1>3. r = [state |-> "OFF", age |-> e.age, since |-> e.since, found |-> e.found,
           max |-> e.max, done |-> TRUE, told |-> 1]
  BY <1>1 DEF SearchRecord
<1>4. r \in SearchRecord
  BY <1>3, EndedMade
<1>5. r.done = TRUE
  BY <1>3
<1> QED BY <1>3, <1>4, <1>5

LEMMA Finished ==
  ASSUME NEW x \in ChainState, NEW acts, SearchesKeep(x.search, x.list, acts),
         NEW a \in Memory,
         Among(x.list, a) => \/ Searches!Expired(x.search[a])
                             \/ Searches!Full(x.search[a]),
         NEW y, y = Searches!search_finish(x, a)
  PROVE  y \in ChainState /\ SearchesKeep(y.search, y.list, acts)
<1> DEFINE se == x.search
           s == x.list
           len == Len(s)
           r == y.list
           e == se[a]
           ended == Searches!Ended(e)
           new == y.search
<1>1. se \in [Memory -> SearchRecord] /\ s \in Seq(Memory) /\ OnceEach(s)
  BY DEF ChainState, SearchesKeep, SearchesTyped
<1>2. CASE ~ Among(s, a)
  <2>1. y = x
    BY <1>2 DEF Searches!search_finish, Searches!InList, Among
  <2> QED BY <2>1
<1>3. CASE Among(s, a)
  <2>1. len \in Nat /\ DOMAIN s = 1 .. len /\ Len(s) = len
    BY <1>1, LenProperties
  <2> HIDE DEF len
  <2>2. PICK k \in 1 .. len : s[k] = a
    BY <1>3, <2>1 DEF Among
  <2>3. /\ y = [list |-> Searches!RemoveFirst(s, a),
                search |-> [se EXCEPT ![a] = ended]]
    BY <1>3 DEF Searches!search_finish, Searches!InList, Among
  <2>4. r = Queue!RemoveFirst(s, s[k])
    BY <2>2, <2>3 DEF Searches!RemoveFirst, Searches!RemoveAt, Searches!SelectInSeq,
       Searches!Min, Queue!RemoveFirst, Queue!RemoveAt, Queue!SelectInSeq, Queue!Min
  <2>5. se[a] \in SearchRecord /\ se[a].state # "free" /\ ~ se[a].done /\ se[a].told = 0
    BY <1>1, <1>3 DEF SearchesKeep, ChainOpen
  <2>6. /\ ended \in SearchRecord /\ ended.state = "OFF" /\ ended.done
        /\ ended.age = se[a].age /\ ended.found = se[a].found /\ ended.max = se[a].max
    <3>1. e \in SearchRecord /\ e.told = 0
      BY <2>5
    <3>2. ended = Searches!Ended(e)
      OBVIOUS
    <3> HIDE DEF ended, e
    <3>3. /\ ended \in SearchRecord /\ ended.state = "OFF" /\ ended.done
          /\ ended.age = e.age /\ ended.found = e.found /\ ended.max = e.max
      BY <3>1, <3>2, EndedRecord
    <3> QED BY <3>3 DEF e
  <2>7. new = [se EXCEPT ![a] = ended]
    BY <2>3
  <2> HIDE DEF ended, new, r
  <2>8. /\ new \in [Memory -> SearchRecord] /\ new[a] = ended
        /\ \A b \in Memory : b # a => new[b] = se[b]
    BY <1>1, <2>6, <2>7
  <2>9. r \in Seq(Memory) /\ Without(s, len, k, r)
    <3>1. \A i \in 1 .. len : s[i] = s[k] => i = k
      BY <1>1, <2>1 DEF OnceEach
    <3>2. /\ s \in Seq(Memory) /\ len \in Nat /\ Len(s) = len /\ k \in 1 .. len
          /\ r = Queue!RemoveFirst(s, s[k])
      BY <1>1, <2>1, <2>4
    <3> HIDE DEF s
    <3> QED BY ONLY <3>1, <3>2, Removed
  <2>10. OnceEach(r) /\ \A b : Among(r, b) <=> b # a /\ Among(s, b)
    BY <1>1, <2>1, <2>2, <2>9, AfterRemove
  <2>11. y \in ChainState
    BY <2>3, <2>8, <2>9 DEF ChainState, r, new
  <2>12. SearchesTyped(new, r, acts)
    BY <2>8, <2>9, <2>10 DEF SearchesKeep, SearchesTyped
  <2>13. OneOwner(new) /\ ChainOpen(new, r)
    BY <2>5, <2>6, <2>8, <2>10 DEF SearchesKeep, OneOwner, ChainOpen
  <2>14. AddedFirst(new, r, acts)
    <3>1. \A i \in DOMAIN acts : ~ Asks(acts, i, "ADD", a)
      BY <1>3 DEF SearchesKeep, AddedFirst
    <3> QED BY <2>8, <2>10, <3>1 DEF SearchesKeep, AddedFirst
  <2>15. OwnEnd(new, r, acts)
    BY <2>8, <2>10 DEF SearchesKeep, OwnEnd
  <2>16. EndedFor(new)
    <3>1. Searches!Expired(ended) \/ Searches!Full(ended)
      BY <1>3, <2>6 DEF Searches!Expired, Searches!Full
    <3> QED BY <2>6, <2>8, <3>1 DEF SearchesKeep, EndedFor
  <2>17. SearchesKeep(new, r, acts)
    BY <2>12, <2>13, <2>14, <2>15, <2>16 DEF SearchesKeep
  <2> QED BY <2>11, <2>17 DEF new, r
<1> QED BY <1>2, <1>3

(* A search that nothing in the action queue names comes into the chain.   *)
LEMMA Added ==
  ASSUME NEW se, NEW list, NEW acts, SearchesKeep(se, list, acts),
         NEW a \in Memory, se[a].state = "INIT", ~ se[a].done, se[a].told = 0,
         ~ Among(list, a),
         \A i \in DOMAIN acts : ~ Asks(acts, i, "ADD", a) /\ ~ Asks(acts, i, "END", a),
         NEW more, more = <<a>> \o list
  PROVE  SearchesKeep(se, more, acts)
<1> DEFINE len == Len(list)
           one == <<a>>
<1>1. list \in Seq(Memory) /\ OnceEach(list) /\ SearchesTyped(se, list, acts)
  BY DEF SearchesKeep, SearchesTyped
<1>2. len \in Nat /\ DOMAIN list = 1 .. len /\ Len(list) = len
  BY <1>1, LenProperties
<1> HIDE DEF len
<1>3. one \in Seq(Memory) /\ Len(one) = 1 /\ one[1] = a /\ 1 \in Nat /\ more = one \o list
  OBVIOUS
<1> HIDE DEF one
<1>4. /\ more \in Seq(Memory) /\ DOMAIN more = 1 .. 1 + len
      /\ \A i \in 1 .. 1 : more[i] = one[i]
      /\ \A i \in 1 .. len : more[1 + i] = list[i]
  <2>1. list \in Seq(Memory)
    BY <1>1
  <2>2. more \in Seq(Memory) /\ Joins(one, 1, list, len, more)
    BY ONLY <1>2, <1>3, <2>1, Joined
  <2> QED BY <2>2 DEF Joins
<1>5. more[1] = a
  BY <1>3, <1>4
<1>6. \A i \in 1 .. 1 + len : i = 1 \/ (i - 1 \in 1 .. len /\ more[i] = list[i - 1])
  <2> TAKE i \in 1 .. 1 + len
  <2>1. i = 1 \/ (i - 1 \in 1 .. len /\ 1 + (i - 1) = i)
    BY <1>2
  <2> QED BY <1>4, <2>1
<1>7. OnceEach(more)
  <2> SUFFICES ASSUME NEW i \in 1 .. 1 + len, NEW j \in 1 .. 1 + len,
                      more[i] = more[j]
               PROVE  i = j
    BY <1>4 DEF OnceEach
  <2>1. \A m \in 1 .. 1 + len : m # 1 => more[m] # a
    BY <1>2, <1>6 DEF Among
  <2>2. CASE i = 1 \/ j = 1
    BY <1>5, <2>1, <2>2
  <2>3. CASE i # 1 /\ j # 1
    <3>1. /\ i - 1 \in 1 .. len /\ more[i] = list[i - 1]
          /\ j - 1 \in 1 .. len /\ more[j] = list[j - 1]
      BY <1>6, <2>3
    <3>2. i - 1 = j - 1
      BY <1>1, <1>2, <3>1 DEF OnceEach
    <3> QED BY <3>2
  <2> QED BY <2>2, <2>3
<1>8. \A b : Among(more, b) => b = a \/ Among(list, b)
  BY <1>2, <1>4, <1>5, <1>6 DEF Among
<1>9. SearchesTyped(se, more, acts)
  BY <1>1, <1>4, <1>7 DEF SearchesTyped
<1>10. ChainOpen(se, more)
  BY <1>8 DEF SearchesKeep, ChainOpen
<1>11. AddedFirst(se, more, acts)
  BY <1>8 DEF SearchesKeep, AddedFirst
<1>12. OwnEnd(se, more, acts)
  BY <1>8 DEF SearchesKeep, OwnEnd
<1> QED BY <1>9, <1>10, <1>11, <1>12 DEF SearchesKeep


-----------------------------------------------------------------------------
(* The timer: mdns_priv_query_start_stop                                   *)

TimerState == [search : [Memory -> SearchRecord], actions : Seq(QueueAction)]

(* What a turn may write over a search                                     *)
Turned(s, r) ==
  /\ r \in SearchRecord /\ r.state \in {"RUNNING", "OFF"}
  /\ r.age = s.age /\ r.found = s.found /\ r.max = s.max
  /\ r.done = s.done /\ r.told = s.told

LEMMA TurnedMade ==
  ASSUME NEW s \in SearchRecord, NEW state \in {"RUNNING", "OFF"}, NEW since \in 0 .. 2,
         NEW r, r = [state |-> state, age |-> s.age, since |-> since,
                     found |-> s.found, max |-> s.max, done |-> s.done, told |-> s.told]
  PROVE  r \in SearchRecord
BY DEF SearchRecord

LEMMA TurnedRecords ==
  ASSUME NEW s \in SearchRecord, NEW state \in {"RUNNING", "OFF"}
  PROVE  /\ Turned(s, [s EXCEPT !.state = state])
         /\ [s EXCEPT !.state = state].state = state
         /\ \A n \in 0 .. 2 :
              /\ Turned(s, [[s EXCEPT !.state = state] EXCEPT !.since = n])
              /\ [[s EXCEPT !.state = state] EXCEPT !.since = n].state = state
<1>1. ASSUME NEW n \in 0 .. 2, NEW r,
             r = [state |-> state, age |-> s.age, since |-> n, found |-> s.found,
                  max |-> s.max, done |-> s.done, told |-> s.told]
      PROVE  Turned(s, r) /\ r.state = state
  <2>1. r \in SearchRecord
    BY <1>1, TurnedMade
  <2> QED BY <1>1, <2>1 DEF Turned
<1>2. /\ [s EXCEPT !.state = state]
           = [state |-> state, age |-> s.age, since |-> s.since, found |-> s.found,
              max |-> s.max, done |-> s.done, told |-> s.told]
  BY DEF SearchRecord
<1>3. ASSUME NEW n \in 0 .. 2
      PROVE  [[s EXCEPT !.state = state] EXCEPT !.since = n]
               = [state |-> state, age |-> s.age, since |-> n, found |-> s.found,
                  max |-> s.max, done |-> s.done, told |-> s.told]
  <2> DEFINE m == [s EXCEPT !.state = state]
  <2>1. m = [state |-> state, age |-> s.age, since |-> s.since, found |-> s.found,
             max |-> s.max, done |-> s.done, told |-> s.told]
    BY <1>2
  <2> HIDE DEF m
  <2>2. [m EXCEPT !.since = n]
          = [state |-> state, age |-> s.age, since |-> n, found |-> s.found,
             max |-> s.max, done |-> s.done, told |-> s.told]
    BY <2>1
  <2> QED BY <2>2 DEF m
<1>4. s.since \in 0 .. 2
  BY DEF SearchRecord
<1> QED BY <1>1, <1>2, <1>3, <1>4

LEMMA PostKeeps ==
  ASSUME NEW x \in TimerState, NEW list, SearchesKeep(x.search, list, x.actions),
         NEW a \in Memory, Among(list, a), x.search[a].state # "OFF",
         NEW type \in {"SEND", "END"}, NEW posted, NEW failed,
         Turned(x.search[a], posted), Turned(x.search[a], failed),
         failed.state = "RUNNING",
         posted.state = IF type = "END" THEN "OFF" ELSE "RUNNING",
         type = "END" => Searches!Expired(x.search[a]),
         NEW y, y = Searches!post(x, a, type, posted, failed)
  PROVE  y \in TimerState /\ SearchesKeep(y.search, list, y.actions)
<1> DEFINE se == x.search
           acts == x.actions
           act == [type |-> type, search |-> a]
<1>1. se \in [Memory -> SearchRecord] /\ acts \in Seq(QueueAction)
  BY DEF TimerState
<1>2. CASE Searches!Room(acts)
  <2> DEFINE new == [se EXCEPT ![a] = posted]
             more == Append(acts, act)
  <2>1. y = [search |-> new, actions |-> more]
    BY <1>2 DEF Searches!post
  <2>2. Len(acts) < SearchQueueLen
    BY <1>2 DEF Searches!Room
  <2>3. act \in QueueAction /\ act.type = type /\ act.search = a /\ act.type # "ADD"
    BY DEF QueueAction
  <2> HIDE DEF act
  <2>4. posted.state = "OFF" => Searches!Expired(se[a])
    OBVIOUS
  <2>5. new \in [Memory -> SearchRecord]
    BY <1>1 DEF Turned
  <2>6. more \in Seq(QueueAction)
    BY <1>1, <2>3, Appended
  <2> HIDE DEF new, more
  <2>7. SearchesKeep(new, list, acts) /\ new[a] = posted
    <3>1. SearchesKeep(new, list, acts)
      BY <2>4, TurnTaken DEF Turned, new
    <3>2. new[a] = posted
      BY <1>1 DEF new
    <3> QED BY <3>1, <3>2
  <2>8. type = "END" => new[a].state = "OFF" /\ Searches!Expired(new[a])
    BY <2>7 DEF Turned, Searches!Expired
  <2>9. SearchesKeep(new, list, more)
    BY <2>2, <2>3, <2>7, <2>8, Posted DEF more
  <2> QED BY <2>1, <2>5, <2>6, <2>9 DEF TimerState
<1>3. CASE ~ Searches!Room(acts)
  <2> DEFINE new == [se EXCEPT ![a] = failed]
  <2>1. y = [search |-> new, actions |-> acts]
    BY <1>3 DEF Searches!post
  <2>2. new \in [Memory -> SearchRecord]
    BY <1>1 DEF Turned
  <2> HIDE DEF new
  <2>3. SearchesKeep(new, list, acts)
    BY TurnTaken DEF Turned, new
  <2> QED BY <1>1, <2>1, <2>2, <2>3 DEF TimerState
<1> QED BY <1>2, <1>3

LEMMA RunSearchKeeps ==
  ASSUME NEW x \in TimerState, NEW list, SearchesKeep(x.search, list, x.actions),
         NEW a \in Memory, Among(list, a),
         NEW y, y = Searches!RunSearch(x, a)
  PROVE  y \in TimerState /\ SearchesKeep(y.search, list, y.actions)
<1> DEFINE s == x.search[a]
           off == [s EXCEPT !.state = "OFF"]
           running == [s EXCEPT !.state = "RUNNING"]
           again == [running EXCEPT !.since = 0]
           late == [running EXCEPT !.since = 2]
           due == s.state = "INIT" \/ s.since > 1
<1>1. s \in SearchRecord
  BY DEF TimerState
<1>2. /\ Turned(s, off) /\ Turned(s, running) /\ Turned(s, again) /\ Turned(s, late)
      /\ off.state = "OFF" /\ running.state = "RUNNING" /\ again.state = "RUNNING"
      /\ late.state = "RUNNING"
  <2>1. /\ "OFF" \in {"RUNNING", "OFF"} /\ "RUNNING" \in {"RUNNING", "OFF"}
        /\ 0 \in 0 .. 2 /\ 2 \in 0 .. 2
    OBVIOUS
  <2> HIDE DEF s
  <2>2. Turned(s, off) /\ off.state = "OFF"
    BY <1>1, <2>1, TurnedRecords
  <2>3. /\ Turned(s, running) /\ running.state = "RUNNING"
        /\ Turned(s, again) /\ again.state = "RUNNING"
        /\ Turned(s, late) /\ late.state = "RUNNING"
    BY <1>1, <2>1, TurnedRecords
  <2> QED BY <2>2, <2>3
<1>3. \/ s.state = "OFF" /\ y = x
      \/ s.state # "OFF" /\ Searches!Expired(s)
         /\ y = Searches!post(x, a, "END", off, running)
      \/ s.state # "OFF" /\ y = Searches!post(x, a, "SEND", again, late)
      \/ y = x
  BY DEF Searches!RunSearch
<1> HIDE DEF off, running, again, late
<1>4. CASE s.state # "OFF" /\ Searches!Expired(s)
           /\ y = Searches!post(x, a, "END", off, running)
  BY <1>2, <1>4, PostKeeps
<1>5. CASE s.state # "OFF" /\ y = Searches!post(x, a, "SEND", again, late)
  BY <1>2, <1>5, PostKeeps
<1> QED BY <1>3, <1>4, <1>5


-----------------------------------------------------------------------------
(* The steps                                                               *)

LEMMA SearchInitial ==
  ASSUME Init
  PROVE  SearchInv
<1>1. /\ search = [a \in Memory |-> Searches!Free]
      /\ s_search_once = <<>> /\ actions = <<>>
      /\ caller = [c \in Callers |-> [at |-> Nowhere, how |-> "blocking"]]
  BY DEF Init, Searches!Init
<1> DEFINE free == Searches!Free
<1>2. /\ free \in SearchRecord /\ free.state = "free" /\ ~ free.done /\ free.told = 0
      /\ ~ (free.max > 0)
  BY SearchesCount DEF Searches!Free, SearchRecord
<1> HIDE DEF free
<1>3. \A a \in Memory : search[a] = free
  BY <1>1 DEF free
<1>4. /\ DOMAIN s_search_once = {} /\ s_search_once \in Seq(Memory)
      /\ DOMAIN actions = {} /\ actions \in Seq(QueueAction) /\ Len(actions) = 0
  BY <1>1
<1>5. SearchesTyped(search, s_search_once, actions)
  <2>1. search \in [Memory -> SearchRecord]
    BY <1>1, <1>2 DEF free
  <2>2. Len(actions) <= SearchQueueLen
    BY <1>4, SearchesCount
  <2> QED BY <1>1, <1>4, <2>1, <2>2 DEF SearchesTyped, OnceEach
<1>6. OneOwner(search)
  <2>1. \A c \in Callers : caller[c].at = Nowhere
    BY <1>1
  <2> QED BY <1>2, <1>3, <2>1, SearchesCount DEF OneOwner
<1>7. ChainOpen(search, s_search_once)
  BY <1>4 DEF ChainOpen, Among
<1>8. AddedFirst(search, s_search_once, actions) /\ OwnEnd(search, s_search_once, actions)
  BY <1>4 DEF AddedFirst, OwnEnd
<1>9. EndedFor(search)
  BY <1>2, <1>3 DEF EndedFor
<1> QED BY <1>5, <1>6, <1>7, <1>8, <1>9 DEF SearchInv, SearchesKeep

(* What is shown of the other variables is enough while the callers stay.  *)
LEMMA CallersStay ==
  ASSUME UNCHANGED caller, SearchesKeep(search', s_search_once', actions')
  PROVE  SearchInv'
BY DEF SearchInv, SearchesKeep, SearchesTyped, OneOwner, ChainOpen, AddedFirst, OwnEnd,
       EndedFor, Among, Asks, OnceEach

LEMMA SearchKept ==
  ASSUME SearchInv, UNCHANGED searches
  PROVE  SearchInv'
<1>1. UNCHANGED <<search, s_search_once, actions, caller>>
  BY DEF searches
<1>2. SearchesKeep(search', s_search_once', actions')
  BY <1>1 DEF SearchInv
<1> QED BY <1>1, <1>2, CallersStay

LEMMA TimerPreserves ==
  ASSUME SearchInv, Searches!Timer
  PROVE  SearchInv'
<1> DEFINE n == Len(s_search_once)
           base == [search |-> search, actions |-> actions]
           T == {x \in TimerState : SearchesKeep(x.search, s_search_once, x.actions)}
           after[k \in 0 .. Len(s_search_once)] ==
             IF k = 0 THEN [search |-> search, actions |-> actions]
             ELSE Searches!RunSearch(after[k - 1], s_search_once[k])
<1>1. /\ search' = after[Len(s_search_once)].search
      /\ actions' = after[Len(s_search_once)].actions
      /\ UNCHANGED <<s_search_once, caller>>
  BY DEF Searches!Timer, Searches!query_start_stop
<1>2. /\ search \in [Memory -> SearchRecord] /\ actions \in Seq(QueueAction)
      /\ s_search_once \in Seq(Memory)
  BY DEF SearchInv, SearchesKeep, SearchesTyped
<1>3. base \in T
  BY <1>2 DEF SearchInv, TimerState
<1>4. /\ n \in Nat
      /\ \A k \in 1 .. n : s_search_once[k] \in Memory
                           /\ Among(s_search_once, s_search_once[k])
  BY <1>2, LenProperties, ElementOfSeq DEF Among
<1>5. \A k \in 1 .. n : \A x \in T : Searches!RunSearch(x, s_search_once[k]) \in T
  BY <1>4, RunSearchKeeps
<1> HIDE DEF T
<1> DEFINE turn == [p \in (1 .. n) \X T |-> Searches!RunSearch(p[2], s_search_once[p[1]])]
<1>6. turn \in [(1 .. n) \X T -> T]
  BY <1>5
<1>7. \A k \in 1 .. n : \A x \in T : turn[<<k, x>>] = Searches!RunSearch(x, s_search_once[k])
  OBVIOUS
<1> HIDE DEF turn, base, n
<1>8. PICK g : Loop(n, T, base, turn, g)
  BY <1>3, <1>4, <1>6, LoopDefined
<1>9. g = [k \in 0 .. Len(s_search_once) |->
             IF k = 0 THEN [search |-> search, actions |-> actions]
             ELSE Searches!RunSearch(g[k - 1], s_search_once[k])]
  <2>1. \A k \in 0 .. n : k # 0 => k \in 1 .. n /\ k - 1 \in 0 .. n
    BY <1>4
  <2>2. \A k \in 0 .. n :
          g[k] = IF k = 0 THEN base ELSE Searches!RunSearch(g[k - 1], s_search_once[k])
    BY <1>7, <1>8, <2>1 DEF Loop
  <2> QED BY <1>8, <2>2 DEF n, base, Loop
<1>10. after = [k \in 0 .. Len(s_search_once) |->
                  IF k = 0 THEN [search |-> search, actions |-> actions]
                  ELSE Searches!RunSearch(after[k - 1], s_search_once[k])]
  BY <1>9
<1> HIDE DEF after
<1>11. after[0] \in T
  <2>1. 0 \in 0 .. n
    BY <1>4
  <2> QED BY <1>3, <1>10, <2>1 DEF n, base
<1>12. \A k \in 1 .. n : after[k - 1] \in T => after[k] \in T
  <2>1. \A k \in 1 .. n : k \in 0 .. n /\ k # 0
    BY <1>4
  <2>2. \A k \in 1 .. n : after[k] = Searches!RunSearch(after[k - 1], s_search_once[k])
    BY <1>10, <2>1 DEF n
  <2> QED BY <1>5, <2>2
<1>13. after[n] \in T
  <2>1. \A k \in 0 .. n : after[k] \in T
    BY <1>4, <1>11, <1>12, EachTurn
  <2> QED BY <1>4, <2>1
<1>14. SearchesKeep(search', s_search_once', actions')
  BY <1>1, <1>13 DEF T, n
<1> QED BY <1>1, <1>14, CallersStay


(* A caller posts a search of its own, in memory that was free.            *)
LEMMA QueryPreserves ==
  ASSUME SearchInv, NEW c \in Callers, NEW how \in {"blocking", "async"},
         NEW a \in Memory, NEW max \in 0 .. 1, Searches!Query(c, how, a, max)
  PROVE  SearchInv'
<1> DEFINE act == [type |-> "ADD", search |-> a]
           new == [Searches!Free EXCEPT !.state = "INIT", !.max = max]
           len == Len(actions)
           mine == [at |-> a, how |-> how]
<1>1. /\ caller[c].at = Nowhere /\ search[a].state = "free" /\ Len(actions) < SearchQueueLen
      /\ search' = [search EXCEPT ![a] = new]
      /\ actions' = Append(actions, act)
      /\ caller' = [caller EXCEPT ![c] = mine]
      /\ s_search_once' = s_search_once
  BY DEF Searches!Query, Searches!Waiting, Searches!Room
<1>2. SearchesTyped(search, s_search_once, actions)
  BY DEF SearchInv, SearchesKeep
<1>3. /\ new \in SearchRecord /\ new.state = "INIT" /\ ~ new.done /\ new.told = 0
      /\ new.found = 0 /\ new.max \in 0 .. 1
  <2>1. new = [state |-> "INIT", age |-> 0, since |-> 0, found |-> 0, max |-> max,
               done |-> FALSE, told |-> 0]
    <3> DEFINE free == Searches!Free
    <3>1. free = [state |-> "free", age |-> 0, since |-> 0, found |-> 0, max |-> 0,
                  done |-> FALSE, told |-> 0]
      BY DEF Searches!Free
    <3>2. new = [free EXCEPT !.state = "INIT", !.max = max]
      OBVIOUS
    <3> HIDE DEF free, new
    <3> QED BY <3>1, <3>2
  <2> HIDE DEF new
  <2>2. new \in SearchRecord
    BY <2>1, SearchesCount DEF SearchRecord
  <2>3. new.done = FALSE
    BY <2>1
  <2> QED BY <2>1, <2>2, <2>3
<1>4. /\ act \in QueueAction /\ act.type = "ADD" /\ act.search = a
      /\ mine \in [at : Memory \cup {Nowhere}, how : {"blocking", "async"}]
      /\ mine.at = a
  BY DEF QueueAction
<1> HIDE DEF act, new, mine
<1>5. /\ actions' \in Seq(QueueAction) /\ Len(actions') = len + 1 /\ len \in Nat
      /\ DOMAIN actions' = 1 .. len + 1 /\ DOMAIN actions = 1 .. len
      /\ actions'[len + 1] = act
      /\ \A i \in 1 .. len : actions'[i] = actions[i]
  BY <1>1, <1>2, <1>4, Appended, LenProperties DEF SearchesTyped
<1>6. /\ search' \in [Memory -> SearchRecord] /\ search'[a] = new
      /\ \A b \in Memory : b # a => search'[b] = search[b]
      /\ caller' \in [Callers -> [at : Memory \cup {Nowhere}, how : {"blocking", "async"}]]
      /\ caller'[c].at = a
      /\ \A d \in Callers : d # c => caller'[d] = caller[d]
  BY <1>1, <1>2, <1>3, <1>4 DEF SearchesTyped
<1>7. /\ Len(actions') <= SearchQueueLen
      /\ \A i \in 1 .. len + 1 : i \in 1 .. len \/ i = len + 1
      /\ \A i \in 1 .. len : i < len + 1
      /\ len + 1 \in 1 .. len + 1
  BY <1>1, <1>5, SearchesCount
<1> HIDE DEF len
<1>8. SearchesTyped(search, s_search_once, actions)'
  BY <1>1, <1>2, <1>5, <1>6, <1>7 DEF SearchesTyped
<1>9. /\ ~ Among(s_search_once, a)
      /\ \A i \in 1 .. len : ~ Asks(actions, i, "ADD", a)
      /\ \A d \in Callers : caller[d].at # a
  BY <1>1, <1>5 DEF SearchInv, SearchesKeep, ChainOpen, AddedFirst, OneOwner
<1>10. OneOwner(search)'
  <2>1. a # Nowhere /\ new.state # "free"
    BY <1>3, SearchesCount
  <2>2. OneOwner(search)
    BY DEF SearchInv, SearchesKeep
  <2>3. \A d, e \in Callers :
          caller'[d].at = caller'[e].at /\ caller'[d].at # Nowhere => d = e
    BY <1>6, <1>9, <2>2 DEF OneOwner
  <2>4. \A b \in Memory : search'[b].state # "free" <=> \E d \in Callers : caller'[d].at = b
    BY <1>1, <1>6, <1>9, <2>1, <2>2, SearchesCount DEF OneOwner
  <2>5. \A b \in Memory : search'[b].state = "free" => ~ search'[b].done /\ search'[b].told = 0
    BY <1>6, <2>1, <2>2 DEF OneOwner
  <2> QED BY <2>3, <2>4, <2>5 DEF OneOwner
<1>11. ChainOpen(search, s_search_once)'
  BY <1>1, <1>6, <1>9 DEF SearchInv, SearchesKeep, ChainOpen, Among
<1>12. /\ \A i \in 1 .. len : \A b : \A type : Asks(actions', i, type, b) <=> Asks(actions, i, type, b)
       /\ Asks(actions', len + 1, "ADD", a)
       /\ \A b : Asks(actions', len + 1, "ADD", b) => b = a
       /\ \A b : ~ Asks(actions', len + 1, "END", b)
  BY <1>4, <1>5 DEF Asks
<1>13. AddedFirst(search', s_search_once', actions')
  <2> SUFFICES ASSUME NEW b \in Memory, NEW i \in 1 .. len + 1, Asks(actions', i, "ADD", b)
               PROVE  /\ search'[b].state = "INIT" /\ ~ search'[b].done
                      /\ search'[b].told = 0 /\ ~ Among(s_search_once, b)
                      /\ \A j \in 1 .. len + 1 : Asks(actions', j, "ADD", b) => i = j
                      /\ \A j \in 1 .. len + 1 : Asks(actions', j, "END", b) => j < i
    BY <1>1, <1>5 DEF AddedFirst
  <2>1. CASE b = a
    <3>1. i = len + 1
      BY <1>7, <1>9, <1>12, <2>1
    <3> QED BY <1>3, <1>6, <1>7, <1>9, <1>12, <2>1, <3>1
  <2>2. CASE b # a
    <3>1. i \in 1 .. len /\ Asks(actions, i, "ADD", b)
      BY <1>7, <1>12, <2>2
    <3>2. /\ search[b].state = "INIT" /\ ~ search[b].done
          /\ search[b].told = 0 /\ ~ Among(s_search_once, b)
          /\ \A j \in 1 .. len : Asks(actions, j, "ADD", b) => i = j
          /\ \A j \in 1 .. len : Asks(actions, j, "END", b) => j < i
      BY <1>5, <3>1 DEF SearchInv, SearchesKeep, AddedFirst
    <3> QED BY <1>6, <1>7, <1>12, <2>2, <3>2
  <2> QED BY <2>1, <2>2
<1>14. OwnEnd(search', s_search_once', actions')
  <2> SUFFICES ASSUME NEW b \in Memory, NEW i \in 1 .. len + 1,
                      Asks(actions', i, "END", b), Among(s_search_once, b)
               PROVE  search'[b].state = "OFF" /\ Searches!Expired(search'[b])
    BY <1>1, <1>5 DEF OwnEnd
  <2>1. b # a /\ i \in 1 .. len /\ Asks(actions, i, "END", b)
    BY <1>7, <1>9, <1>12
  <2> QED BY <1>5, <1>6, <2>1 DEF SearchInv, SearchesKeep, OwnEnd
<1>15. EndedFor(search')
  <2>1. new.max > 0 => new.found <= new.max
    BY <1>3
  <2> QED BY <1>3, <1>6, <2>1 DEF SearchInv, SearchesKeep, EndedFor
<1>16. AddedFirst(search, s_search_once, actions)' /\ OwnEnd(search, s_search_once, actions)'
       /\ EndedFor(search)'
  BY <1>13, <1>14, <1>15 DEF AddedFirst, OwnEnd, EndedFor, Among, Asks
<1> QED BY <1>8, <1>10, <1>11, <1>16 DEF SearchInv, SearchesKeep

(* A caller frees its search, which is in the chain no longer.             *)
LEMMA Freed ==
  ASSUME SearchInv, NEW c \in Callers, NEW a \in Memory, caller[c].at = a,
         search[a].state # "INIT" \/ search[a].done,
         search' = [search EXCEPT ![a] = Searches!Free],
         caller' = [caller EXCEPT ![c].at = Nowhere], UNCHANGED actions,
         s_search_once' \in Seq(Memory), OnceEach(s_search_once'),
         \A b : Among(s_search_once', b) => b # a /\ Among(s_search_once, b)
  PROVE  SearchInv'
<1> DEFINE free == Searches!Free
<1>1. SearchesTyped(search, s_search_once, actions)
  BY DEF SearchInv, SearchesKeep
<1>2. /\ free \in SearchRecord /\ free.state = "free" /\ ~ free.done /\ free.told = 0
      /\ ~ (free.max > 0)
  BY SearchesCount DEF Searches!Free, SearchRecord
<1>3. search' = [search EXCEPT ![a] = free]
  OBVIOUS
<1> HIDE DEF free
<1>4. /\ search' \in [Memory -> SearchRecord] /\ search'[a] = free
      /\ \A b \in Memory : b # a => search'[b] = search[b]
  BY <1>1, <1>2, <1>3 DEF SearchesTyped
<1>5. /\ caller' \in [Callers -> [at : Memory \cup {Nowhere}, how : {"blocking", "async"}]]
      /\ caller'[c].at = Nowhere
      /\ \A d \in Callers : d # c => caller'[d] = caller[d]
  BY <1>1 DEF SearchesTyped
<1>6. SearchesTyped(search, s_search_once, actions)'
  BY <1>1, <1>4, <1>5 DEF SearchesTyped, OnceEach
<1>7. OneOwner(search)'
  <2>1. OneOwner(search) /\ a # Nowhere
    BY SearchesCount DEF SearchInv, SearchesKeep
  <2>2. \A d \in Callers : d # c => caller[d].at # a
    BY <2>1 DEF OneOwner
  <2> QED BY <1>2, <1>4, <1>5, <2>1, <2>2, SearchesCount DEF OneOwner
<1>8. ChainOpen(search', s_search_once')
  BY <1>4 DEF SearchInv, SearchesKeep, ChainOpen
<1>9. AddedFirst(search', s_search_once', actions')
  <2>1. \A i \in DOMAIN actions : ~ Asks(actions, i, "ADD", a)
    BY DEF SearchInv, SearchesKeep, AddedFirst
  <2>2. AddedFirst(search, s_search_once, actions) /\ actions' = actions
    BY DEF SearchInv, SearchesKeep
  <2> QED BY <1>4, <2>1, <2>2 DEF AddedFirst
<1>10. OwnEnd(search', s_search_once', actions')
  BY <1>4 DEF SearchInv, SearchesKeep, OwnEnd
<1>11. EndedFor(search')
  BY <1>2, <1>4 DEF SearchInv, SearchesKeep, EndedFor
<1>12. /\ ChainOpen(search, s_search_once)' /\ AddedFirst(search, s_search_once, actions)'
       /\ OwnEnd(search, s_search_once, actions)' /\ EndedFor(search)'
  BY <1>8, <1>9, <1>10, <1>11 DEF ChainOpen, AddedFirst, OwnEnd, EndedFor, Among, Asks
<1> QED BY <1>6, <1>7, <1>12 DEF SearchInv, SearchesKeep

LEMMA QueryReturnsPreserves ==
  ASSUME SearchInv, NEW c \in Callers, Searches!QueryReturns(c)
  PROVE  SearchInv'
<1> DEFINE a == caller[c].at
<1>1. /\ a # Nowhere /\ search[a].done
      /\ search' = [search EXCEPT ![a] = Searches!Free]
      /\ caller' = [caller EXCEPT ![c].at = Nowhere]
      /\ UNCHANGED <<actions, s_search_once>>
  BY DEF Searches!QueryReturns, Searches!Waiting
<1>2. a \in Memory /\ s_search_once \in Seq(Memory) /\ OnceEach(s_search_once)
  BY <1>1 DEF SearchInv, SearchesKeep, SearchesTyped
<1> HIDE DEF a
<1>3. ~ Among(s_search_once, a)
  BY <1>1, <1>2 DEF SearchInv, SearchesKeep, ChainOpen
<1>4. \A b : Among(s_search_once', b) => b # a /\ Among(s_search_once, b)
  BY <1>1, <1>3
<1>5. caller[c].at = a /\ s_search_once' \in Seq(Memory) /\ OnceEach(s_search_once')
  BY <1>1, <1>2 DEF a
<1> QED BY <1>1, <1>2, <1>4, <1>5, Freed

(* Deleting takes the search off the chain if it is still there.           *)
LEMMA DeletePreserves ==
  ASSUME SearchInv, NEW c \in Callers, Searches!mdns_query_async_delete(c)
  PROVE  SearchInv'
<1> DEFINE a == caller[c].at
           s == s_search_once
           r == s_search_once'
           len == Len(s)
<1>1. /\ a # Nowhere /\ search[a].state = "OFF"
      /\ r = Searches!RemoveFirst(s, a)
      /\ search' = [search EXCEPT ![a] = Searches!Free]
      /\ caller' = [caller EXCEPT ![c].at = Nowhere]
      /\ UNCHANGED actions
  BY DEF Searches!mdns_query_async_delete, Searches!Waiting
<1>2. a \in Memory /\ s \in Seq(Memory) /\ OnceEach(s)
  BY <1>1 DEF SearchInv, SearchesKeep, SearchesTyped
<1>3. len \in Nat /\ DOMAIN s = 1 .. len /\ Len(s) = len
  BY <1>2, LenProperties
<1>4. caller[c].at = a
  OBVIOUS
<1> HIDE DEF a, len
<1>5. r = Queue!RemoveFirst(s, a)
  BY <1>1 DEF Searches!RemoveFirst, Searches!RemoveAt, Searches!SelectInSeq,
     Searches!Min, Queue!RemoveFirst, Queue!RemoveAt, Queue!SelectInSeq, Queue!Min
<1>6. r \in Seq(Memory) /\ OnceEach(r) /\ \A b : Among(r, b) => b # a /\ Among(s, b)
  <2>1. CASE ~ Among(s, a)
    <3>1. r = s
      BY <1>3, <1>5, <2>1 DEF Queue!RemoveFirst, Among
    <3> HIDE DEF r, s
    <3> QED BY <1>2, <2>1, <3>1
  <2>2. CASE Among(s, a)
    <3>1. PICK k \in 1 .. len : s[k] = a
      BY <1>3, <2>2 DEF Among
    <3> HIDE DEF r, s
    <3>2. \A i \in 1 .. len : s[i] = s[k] => i = k
      BY <1>2, <1>3, <3>1 DEF OnceEach
    <3>3. r = Queue!RemoveFirst(s, s[k])
      BY <1>5, <3>1
    <3>4. s \in Seq(Memory) /\ len \in Nat /\ Len(s) = len /\ OnceEach(s)
      BY <1>2, <1>3
    <3>5. r \in Seq(Memory) /\ Without(s, len, k, r)
      BY ONLY <3>1, <3>2, <3>3, <3>4, Removed
    <3>6. OnceEach(r) /\ \A b : Among(r, b) <=> b # s[k] /\ Among(s, b)
      BY ONLY <3>1, <3>4, <3>5, AfterRemove
    <3> QED BY <3>1, <3>5, <3>6
  <2> QED BY <2>1, <2>2
<1>7. search[a].state # "INIT" \/ search[a].done
  BY <1>1
<1> QED BY <1>1, <1>2, <1>4, <1>6, <1>7, Freed

(* Time passes for each search.                                            *)
LEMMA TickedMade ==
  ASSUME NEW s \in SearchRecord, NEW age \in 0 .. Timeout + 1, NEW since \in 0 .. 2,
         NEW r, r = [state |-> s.state, age |-> age, since |-> since,
                     found |-> s.found, max |-> s.max, done |-> s.done, told |-> s.told]
  PROVE  r \in SearchRecord
BY DEF SearchRecord

LEMMA SearchTickPreserves ==
  ASSUME SearchInv, Searches!Tick
  PROVE  SearchInv'
<1> DEFINE later(s) == IF s.age > Timeout THEN s.age ELSE s.age + 1
           longer(s) == IF s.since > 1 THEN s.since ELSE s.since + 1
           ticked(s) == [s EXCEPT !.age = IF @ > Timeout THEN @ ELSE @ + 1,
                                  !.since = IF @ > 1 THEN @ ELSE @ + 1]
<1>1. /\ search' = [a \in Memory |->
           IF search[a].state = "free" THEN search[a] ELSE ticked(search[a])]
      /\ UNCHANGED <<s_search_once, actions, caller>>
  BY DEF Searches!Tick
<1>2. search \in [Memory -> SearchRecord]
  BY DEF SearchInv, SearchesKeep, SearchesTyped
<1>3. ASSUME NEW s \in SearchRecord, NEW r, r = ticked(s)
      PROVE  /\ r \in SearchRecord
             /\ r.state = s.state /\ r.found = s.found /\ r.max = s.max
             /\ r.done = s.done /\ r.told = s.told
             /\ Searches!Expired(s) => Searches!Expired(r)
  <2> DEFINE age == later(s)
             since == longer(s)
  <2>1. age \in 0 .. Timeout + 1 /\ since \in 0 .. 2 /\ (s.age > Timeout => age > Timeout)
    BY SearchesCount DEF SearchRecord
  <2>2. r = [s EXCEPT !.age = age, !.since = since]
    BY <1>3 DEF SearchRecord
  <2> HIDE DEF age, since
  <2>3. r = [state |-> s.state, age |-> age, since |-> since,
             found |-> s.found, max |-> s.max, done |-> s.done, told |-> s.told]
    BY <2>2 DEF SearchRecord
  <2>4. r \in SearchRecord
    BY <2>1, <2>3, TickedMade
  <2>5. Searches!Expired(s) => Searches!Expired(r)
    BY <2>1, <2>3 DEF Searches!Expired
  <2> QED BY <2>3, <2>4, <2>5
<1>4. ASSUME NEW a \in Memory
      PROVE  /\ search'[a] \in SearchRecord
             /\ search'[a].state = search[a].state /\ search'[a].found = search[a].found
             /\ search'[a].max = search[a].max
             /\ search'[a].done = search[a].done /\ search'[a].told = search[a].told
             /\ Searches!Expired(search[a]) => Searches!Expired(search'[a])
  <2>1. CASE search[a].state = "free"
    <3>1. search'[a] = search[a]
      BY <1>1, <2>1
    <3> QED BY <1>2, <3>1
  <2>2. CASE search[a].state # "free"
    <3> DEFINE s == search[a]
               r == search'[a]
    <3>1. r = ticked(s) /\ s \in SearchRecord
      BY <1>1, <1>2, <2>2
    <3> HIDE DEF s, r, ticked
    <3>2. /\ r \in SearchRecord
          /\ r.state = s.state /\ r.found = s.found /\ r.max = s.max
          /\ r.done = s.done /\ r.told = s.told
          /\ Searches!Expired(s) => Searches!Expired(r)
      BY <1>3, <3>1
    <3> QED BY <3>2 DEF s, r
  <2> QED BY <2>1, <2>2
<1>5. search' \in [Memory -> SearchRecord]
  <2>1. \E f \in {search'} : f = [a \in Memory |-> f[a]]
    BY <1>1
  <2> QED BY <1>4, <2>1
<1> HIDE DEF ticked, later, longer
<1>6. SearchesTyped(search', s_search_once', actions')
  BY <1>1, <1>5 DEF SearchInv, SearchesKeep, SearchesTyped
<1>7. OneOwner(search') /\ ChainOpen(search', s_search_once')
  <2>1. OneOwner(search) /\ ChainOpen(search, s_search_once)
    BY DEF SearchInv, SearchesKeep
  <2>2. s_search_once' = s_search_once
    BY <1>1
  <2> QED BY <1>4, <2>1, <2>2 DEF OneOwner, ChainOpen
<1>8. AddedFirst(search', s_search_once', actions')
  <2>1. AddedFirst(search, s_search_once, actions)
    BY DEF SearchInv, SearchesKeep
  <2>2. s_search_once' = s_search_once /\ actions' = actions
    BY <1>1
  <2> QED BY <1>4, <2>1, <2>2 DEF AddedFirst
<1>9. OwnEnd(search', s_search_once', actions')
  <2>1. OwnEnd(search, s_search_once, actions)
    BY DEF SearchInv, SearchesKeep
  <2>2. s_search_once' = s_search_once /\ actions' = actions
    BY <1>1
  <2> QED BY <1>4, <2>1, <2>2 DEF OwnEnd
<1>10. EndedFor(search')
  <2>1. EndedFor(search)
    BY DEF SearchInv, SearchesKeep
  <2>2. \A a \in Memory : Searches!Full(search[a]) => Searches!Full(search'[a])
    BY <1>4 DEF Searches!Full
  <2> QED BY <1>4, <2>1, <2>2 DEF EndedFor
<1>11. SearchesKeep(search', s_search_once', actions') /\ caller' = caller
  BY <1>1, <1>6, <1>7, <1>8, <1>9, <1>10 DEF SearchesKeep
<1> QED BY <1>11, CallersStay

LEMMA SearchReceivePreserves ==
  ASSUME SearchInv, Searches!Receive
  PROVE  SearchInv'
<1> DEFINE act == [type |-> "RX", search |-> Nowhere]
<1>1. /\ Len(actions) < SearchQueueLen /\ actions' = Append(actions, act)
      /\ UNCHANGED <<search, s_search_once, caller>>
  BY DEF Searches!Receive, Searches!Room
<1>2. act \in QueueAction /\ act.type # "ADD" /\ act.type # "END"
  BY DEF QueueAction
<1> HIDE DEF act
<1>3. SearchesKeep(search, s_search_once, actions')
  BY <1>1, <1>2, Posted DEF SearchInv
<1> QED BY <1>1, <1>3, CallersStay


-----------------------------------------------------------------------------
(* The service task                                                        *)

(* mdns_priv_query_done goes along the chain as it was and takes the full  *)
(* searches off it.                                                        *)
LEMMA FinishFullKeeps ==
  ASSUME NEW x \in ChainState, NEW acts, SearchesKeep(x.search, x.list, acts),
         NEW a \in Memory, NEW y, y = Searches!FinishFull(x, a)
  PROVE  y \in ChainState /\ SearchesKeep(y.search, y.list, acts)
<1>1. CASE Searches!Full(x.search[a])
  <2>1. y = Searches!search_finish(x, a)
    BY <1>1 DEF Searches!FinishFull
  <2> QED BY <1>1, <2>1, Finished
<1>2. CASE ~ Searches!Full(x.search[a])
  BY <1>2 DEF Searches!FinishFull
<1> QED BY <1>1, <1>2

LEMMA QueryDoneKeeps ==
  ASSUME NEW x \in ChainState, NEW acts, SearchesKeep(x.search, x.list, acts),
         NEW y, y = Searches!query_done(x)
  PROVE  y \in ChainState /\ SearchesKeep(y.search, y.list, acts)
<1> DEFINE n == Len(x.list)
           T == {z \in ChainState : SearchesKeep(z.search, z.list, acts)}
           after[k \in 0 .. Len(x.list)] ==
             IF k = 0 THEN x ELSE Searches!FinishFull(after[k - 1], x.list[k])
<1>1. y = after[Len(x.list)]
  BY DEF Searches!query_done
<1>2. x \in T
  OBVIOUS
<1>3. n \in Nat /\ \A k \in 1 .. n : x.list[k] \in Memory
  BY LenProperties, ElementOfSeq DEF ChainState
<1>4. \A k \in 1 .. n : \A z \in T : Searches!FinishFull(z, x.list[k]) \in T
  BY <1>3, FinishFullKeeps
<1> HIDE DEF T
<1> DEFINE turn == [p \in (1 .. n) \X T |-> Searches!FinishFull(p[2], x.list[p[1]])]
<1>5. turn \in [(1 .. n) \X T -> T]
  BY <1>4
<1>6. \A k \in 1 .. n : \A z \in T : turn[<<k, z>>] = Searches!FinishFull(z, x.list[k])
  OBVIOUS
<1> HIDE DEF turn, n
<1>7. PICK g : Loop(n, T, x, turn, g)
  BY <1>2, <1>3, <1>5, LoopDefined
<1>8. g = [k \in 0 .. Len(x.list) |->
             IF k = 0 THEN x ELSE Searches!FinishFull(g[k - 1], x.list[k])]
  <2>1. \A k \in 0 .. n : k # 0 => k \in 1 .. n /\ k - 1 \in 0 .. n
    BY <1>3
  <2>2. \A k \in 0 .. n :
          g[k] = IF k = 0 THEN x ELSE Searches!FinishFull(g[k - 1], x.list[k])
    BY <1>6, <1>7, <2>1 DEF Loop
  <2> QED BY <1>7, <2>2 DEF n, Loop
<1>9. after = [k \in 0 .. Len(x.list) |->
                 IF k = 0 THEN x ELSE Searches!FinishFull(after[k - 1], x.list[k])]
  BY <1>8
<1> HIDE DEF after
<1>10. after[0] \in T
  <2>1. 0 \in 0 .. n
    BY <1>3
  <2> QED BY <1>2, <1>9, <2>1 DEF n
<1>11. \A k \in 1 .. n : after[k - 1] \in T => after[k] \in T
  <2>1. \A k \in 1 .. n : k \in 0 .. n /\ k # 0
    BY <1>3
  <2>2. \A k \in 1 .. n : after[k] = Searches!FinishFull(after[k - 1], x.list[k])
    BY <1>9, <2>1 DEF n
  <2> QED BY <1>4, <2>2
<1>12. after[n] \in T
  <2>1. \A k \in 0 .. n : after[k] \in T
    BY <1>3, <1>10, <1>11, EachTurn
  <2> QED BY <1>3, <2>1
<1> QED BY <1>1, <1>12 DEF T, n

(* A packet has answers for some searches that are in the chain.           *)
LEMMA AnsweredMade ==
  ASSUME NEW s \in SearchRecord, NEW found \in Nat,
         NEW r, r = [state |-> s.state, age |-> s.age, since |-> s.since,
                     found |-> found, max |-> s.max, done |-> s.done, told |-> s.told]
  PROVE  r \in SearchRecord
BY DEF SearchRecord

LEMMA ParsePacketKeeps ==
  ASSUME NEW acts, SearchesKeep(search, s_search_once, acts), NEW S,
         Searches!ParsePacket(S)
  PROVE  SearchesKeep(search', s_search_once', acts)
<1> DEFINE more(s) == [s EXCEPT !.found = @ + 1]
           new == [a \in Memory |-> IF a \in S /\ ~ Searches!Full(search[a])
                                      THEN more(search[a]) ELSE search[a]]
           x == [Searches!Listed EXCEPT !.search = new]
           y == Searches!query_done(x)
<1>1. s_search_once' = y.list /\ search' = y.search
  BY DEF Searches!ParsePacket, Searches!Becomes
<1>2. x.list = s_search_once /\ x.search = new
      /\ x = [list |-> s_search_once, search |-> new]
  <2> HIDE DEF new
  <2> QED BY DEF Searches!Listed
<1>3. /\ search \in [Memory -> SearchRecord] /\ s_search_once \in Seq(Memory)
      /\ SearchesTyped(search, s_search_once, acts)
  BY DEF SearchesKeep, SearchesTyped
<1>4. ASSUME NEW s \in SearchRecord, ~ Searches!Full(s), NEW r, r = more(s)
      PROVE  /\ r \in SearchRecord
             /\ r.state = s.state /\ r.age = s.age /\ r.max = s.max
             /\ r.done = s.done /\ r.told = s.told
             /\ r.max > 0 => r.found <= r.max
  <2> DEFINE found == s.found + 1
  <2>1. found \in Nat /\ (s.max > 0 => found <= s.max)
    BY <1>4 DEF SearchRecord, Searches!Full
  <2>2. r = [s EXCEPT !.found = found]
    BY <1>4 DEF SearchRecord
  <2> HIDE DEF found
  <2>3. r = [state |-> s.state, age |-> s.age, since |-> s.since,
             found |-> found, max |-> s.max, done |-> s.done, told |-> s.told]
    BY <2>2 DEF SearchRecord
  <2>4. r \in SearchRecord
    BY <2>1, <2>3, AnsweredMade
  <2> QED BY <2>1, <2>3, <2>4
<1>5. ASSUME NEW a \in Memory
      PROVE  /\ new[a] \in SearchRecord
             /\ new[a].state = search[a].state /\ new[a].age = search[a].age
             /\ new[a].max = search[a].max
             /\ new[a].done = search[a].done /\ new[a].told = search[a].told
             /\ Searches!Full(search[a]) => new[a] = search[a]
             /\ \/ new[a] = search[a]
                \/ new[a].max > 0 => new[a].found <= new[a].max
  <2>1. CASE a \in S /\ ~ Searches!Full(search[a])
    <3> DEFINE s == search[a]
               r == new[a]
    <3>1. r = more(s) /\ s \in SearchRecord /\ ~ Searches!Full(s)
      BY <1>3, <2>1
    <3> HIDE DEF s, r, more, new
    <3>2. /\ r \in SearchRecord
          /\ r.state = s.state /\ r.age = s.age /\ r.max = s.max
          /\ r.done = s.done /\ r.told = s.told
          /\ r.max > 0 => r.found <= r.max
      BY <1>4, <3>1
    <3> QED BY <2>1, <3>2 DEF s, r
  <2>2. CASE ~ (a \in S /\ ~ Searches!Full(search[a]))
    <3>1. new[a] = search[a]
      BY <2>2
    <3> HIDE DEF new
    <3> QED BY <1>3, <3>1
  <2> QED BY <2>1, <2>2
<1>6. new \in [Memory -> SearchRecord]
  <2>1. \E f \in {new} : f = [a \in Memory |-> f[a]]
    OBVIOUS
  <2> QED BY <1>5, <2>1
<1>7. x \in ChainState
  BY <1>2, <1>3, <1>6 DEF ChainState
<1> HIDE DEF x, new
<1>8. SearchesKeep(new, s_search_once, acts)
  <2>1. SearchesTyped(new, s_search_once, acts)
    BY <1>3, <1>6 DEF SearchesTyped
  <2>2. OneOwner(new) /\ ChainOpen(new, s_search_once)
    BY <1>5 DEF SearchesKeep, OneOwner, ChainOpen
  <2>3. AddedFirst(new, s_search_once, acts)
    BY <1>5 DEF SearchesKeep, AddedFirst
  <2>4. OwnEnd(new, s_search_once, acts)
    BY <1>5 DEF SearchesKeep, OwnEnd, Searches!Expired
  <2>5. EndedFor(new)
    BY <1>5 DEF SearchesKeep, EndedFor, Searches!Expired
  <2> QED BY <2>1, <2>2, <2>3, <2>4, <2>5 DEF SearchesKeep
<1>9. SearchesKeep(y.search, y.list, acts)
  BY <1>2, <1>7, <1>8, QueryDoneKeeps
<1> QED BY <1>1, <1>9

LEMMA ServicePreserves ==
  ASSUME SearchInv, Searches!Service
  PROVE  SearchInv'
<1> DEFINE act == Head(actions)
           a == act.search
<1>1. /\ actions # <<>> /\ actions' = Tail(actions)
      /\ IF act.type = "RX" THEN \E S : Searches!ParsePacket(S)
                            ELSE Searches!query_action(act)
      /\ UNCHANGED caller
  BY DEF Searches!Service
<1>2. /\ SearchesKeep(search, s_search_once, actions')
      /\ act \in QueueAction
      /\ act.type = "ADD" =>
           /\ search[a].state = "INIT" /\ ~ search[a].done
           /\ search[a].told = 0 /\ ~ Among(s_search_once, a)
           /\ \A i \in DOMAIN actions' : /\ ~ Asks(actions', i, "ADD", a)
                                         /\ ~ Asks(actions', i, "END", a)
      /\ act.type = "END" /\ Among(s_search_once, a) =>
           search[a].state = "OFF" /\ Searches!Expired(search[a])
  BY <1>1, FirstTaken DEF SearchInv
<1>3. act.type \in {"ADD", "SEND", "END", "RX"} /\ (act.type # "RX" => a \in Memory)
  BY <1>2 DEF QueueAction
<1> HIDE DEF a, act
<1>4. CASE act.type = "RX"
  <2>1. PICK S : Searches!ParsePacket(S)
    BY <1>1, <1>4
  <2>2. SearchesKeep(search', s_search_once', actions')
    BY <1>2, <2>1, ParsePacketKeeps
  <2> QED BY <1>1, <2>2, CallersStay
<1>5. CASE act.type = "ADD"
  <2>1. s_search_once' = <<a>> \o s_search_once /\ search' = search
    BY <1>1, <1>5 DEF a, Searches!query_action, Searches!Becomes, Searches!Listed
  <2>2. SearchesKeep(search, s_search_once', actions')
    BY <1>2, <1>3, <1>5, <2>1, Added
  <2> QED BY <1>1, <2>1, <2>2, CallersStay
<1>6. CASE act.type = "SEND"
  <2>1. s_search_once' = s_search_once /\ search' = search
    BY <1>1, <1>6 DEF Searches!query_action, Searches!Becomes, Searches!Listed
  <2> QED BY <1>1, <1>2, <2>1, CallersStay
<1>7. CASE act.type = "END"
  <2> DEFINE x == Searches!Listed
             y == Searches!search_finish(x, a)
  <2>1. s_search_once' = y.list /\ search' = y.search
    BY <1>1, <1>7 DEF a, Searches!query_action, Searches!Becomes
  <2>2. /\ x.list = s_search_once /\ x.search = search
        /\ x = [list |-> s_search_once, search |-> search]
    BY DEF Searches!Listed
  <2>3. x \in ChainState
    BY <2>2 DEF ChainState, SearchInv, SearchesKeep, SearchesTyped
  <2> HIDE DEF x
  <2>4. SearchesKeep(y.search, y.list, actions')
    BY <1>2, <1>3, <1>7, <2>2, <2>3, Finished
  <2> QED BY <1>1, <2>1, <2>4, CallersStay
<1> QED BY <1>3, <1>4, <1>5, <1>6, <1>7


LEMMA SearchPreserved ==
  ASSUME SearchInv, [Next]_vars
  PROVE  SearchInv'
<1>1. CASE SearchesAct
  <2>1. Searches!Next
    BY <1>1 DEF SearchesAct
  <2>2. CASE \E c \in Callers, how \in {"blocking", "async"}, a \in Memory, max \in 0 .. 1 :
               Searches!Query(c, how, a, max)
    BY <2>2, QueryPreserves
  <2>3. CASE \E c \in Callers : Searches!QueryReturns(c)
    BY <2>3, QueryReturnsPreserves
  <2>4. CASE \E c \in Callers : Searches!mdns_query_async_delete(c)
    BY <2>4, DeletePreserves
  <2>5. CASE Searches!Timer
    BY <2>5, TimerPreserves
  <2>6. CASE Searches!Tick
    BY <2>6, SearchTickPreserves
  <2>7. CASE Searches!Service
    BY <2>7, ServicePreserves
  <2>8. CASE Searches!Receive
    BY <2>8, SearchReceivePreserves
  <2> QED BY <2>1, <2>2, <2>3, <2>4, <2>5, <2>6, <2>7, <2>8 DEF Searches!Next
<1>2. CASE ~ SearchesAct
  <2>1. UNCHANGED searches
    BY <1>2 DEF Next, ServerActs, StationActs, QueueActs, vars
  <2> QED BY <2>1, SearchKept
<1> QED BY <1>1, <1>2

LEMMA ChainFromInvariant ==
  ASSUME SearchInv
  PROVE  ChainIsLive
<1>1. SearchesKeep(search, s_search_once, actions)
  BY DEF SearchInv
<1>2. /\ s_search_once \in Seq(Memory)
      /\ DOMAIN s_search_once = 1 .. Len(s_search_once)
  BY <1>1, LenProperties DEF SearchesKeep, SearchesTyped
<1>3. Searches!IsInjective(s_search_once)
  BY <1>1 DEF SearchesKeep, SearchesTyped, OnceEach, Searches!IsInjective
<1>4. ASSUME NEW a \in Searches!ToSet(s_search_once)
      PROVE  search[a].state # "free" /\ \E c \in Callers : caller[c].at = a
  <2>1. PICK i \in DOMAIN s_search_once : s_search_once[i] = a
    BY DEF Searches!ToSet
  <2>2. a \in Memory /\ Among(s_search_once, a)
    BY <1>2, <2>1, ElementOfSeq DEF Among
  <2> QED BY <1>1, <2>2 DEF SearchesKeep, ChainOpen, OneOwner
<1>5. Searches!EndsForItself
  BY <1>1 DEF SearchesKeep, EndedFor, Searches!EndsForItself
<1> QED BY <1>3, <1>4, <1>5 DEF ChainIsLive, Searches!ChainIsLive

LEMMA SearchTypes ==
  ASSUME SearchInv
  PROVE  Searches!TypeOK
<1>1. SearchesTyped(search, s_search_once, actions) /\ EndedFor(search)
  BY DEF SearchInv, SearchesKeep
<1>2. ASSUME NEW a \in Memory
      PROVE  /\ search[a].state \in {"free", "INIT", "RUNNING", "OFF"}
             /\ search[a].age \in 0 .. Timeout + 1 /\ search[a].told \in 0 .. 1
             /\ search[a].max > 0 => search[a].found <= search[a].max
  <2>1. search[a] \in SearchRecord
    BY <1>1 DEF SearchesTyped
  <2>2. search[a].max > 0 => search[a].found <= search[a].max
    BY <1>1 DEF EndedFor
  <2> QED BY <2>1, <2>2 DEF SearchRecord
<1> QED BY <1>1, <1>2 DEF SearchesTyped, Searches!TypeOK

(* For every number of callers and of addresses: the invariant of the      *)
(* searches that run once, mdns_querier.c:73-184,718-787.                  *)
THEOREM SearchInvariance == Spec => []SearchInv
<1>1. Init => SearchInv
  BY SearchInitial
<1>2. SearchInv /\ [Next]_vars => SearchInv'
  BY SearchPreserved
<1> QED BY <1>1, <1>2, PTL DEF Spec

(* A freed search is never in the chain, and none is ended by the end of   *)
(* an earlier one at its address (ChainIsLive, mdns_querier.c:73-92).      *)
THEOREM ChainStaysLive == Spec => []ChainIsLive
<1>1. SearchInv => ChainIsLive
  BY ChainFromInvariant
<1> QED BY <1>1, SearchInvariance, PTL


-----------------------------------------------------------------------------
(* The four parts together                                                 *)

(* A part that rests is in an initial state of its module and stays there, *)
(* so that each part's variables keep their range in the composition       *)
(* (TypeOK): HttpServer, Wifi, MdnsQuerier and MdnsTx.                     *)
THEOREM TasksTypes == Spec => []TypeOK
<1>1. Init => ServerInv
  <2>1. Init => Server!Init
    BY DEF Init, ServerRests
  <2> QED BY <2>1, ServerInitial
<1>2. ServerInv /\ [Next]_vars => ServerInv'
  <2>1. [Next]_vars => Server!Next \/ UNCHANGED server
    BY DEF Next, vars, ServerActs, StationActs, SearchesAct, QueueActs
  <2> QED BY <2>1, ServerPreserved
<1>3. Spec => []ServerInv
  BY <1>1, <1>2, PTL DEF Spec
<1>4. ServerInv /\ StationInv /\ SearchInv /\ QueueInv => TypeOK
  <2>1. StationInv => Station!TypeOK
    BY DEF StationInv, StationTyped
  <2> QED BY <2>1, TypesFromInvariant, SearchTypes, OrderFromInvariant DEF TypeOK
<1> QED BY <1>3, <1>4, StationInvariance, SearchInvariance, QueueInvariance, PTL

=============================================================================
