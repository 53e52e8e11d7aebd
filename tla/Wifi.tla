-------------------------------- MODULE Wifi --------------------------------
(***************************************************************************)
(* The way onto the network: wifi_connection.c, whose event handler keeps  *)
(* the station connecting and starts mDNS with the first address, and the  *)
(* handler mDNS itself registers, mdns_netif.c, which turns later events   *)
(* into actions for the mDNS service task.  Both run in the event task,    *)
(* one event after the other; the driver, DHCP and the service task run    *)
(* beside it.  The IPv4 side of one interface, which is all this program   *)
(* uses; what a protocol control block then does is module MdnsResponder.  *)
(***************************************************************************)
EXTENDS Integers, Sequences

CONSTANTS
  MDNS_ACTION_QUEUE_LEN,
  MaxEvents       \* events waiting for the event task at one time

VARIABLES
  driver,         \* "stopped", "idle", "connecting" or "connected"
  address,        \* whether the interface has an address
  events,         \* the default event loop's queue
  handler,        \* what wifi_event_handler does next, "none" when it is out
  mdns_started,   \* the static of that name
  registered,     \* mdns_init has registered handle_system_event_for_preset
  hostname,       \* s_server->hostname is set
  services,       \* services in the responder's list
  action_queue,   \* s_action_queue
  action_sema,    \* s_server->action_sema
  pcb,            \* "off" or "on"
  rebooted,       \* an ESP_ERROR_CHECK failed
  dropped         \* history: an action that found no room was an enabling

station == <<driver, address>>
program == <<handler, mdns_started>>
responder == <<registered, hostname, services, pcb>>
queues == <<action_queue, action_sema, dropped>>
vars == <<station, events, program, responder, queues, rebooted>>

Running == ~ rebooted

-----------------------------------------------------------------------------
(* The driver and DHCP *)

Event(e) == Len(events) < MaxEvents /\ events' = Append(events, e)

Start ==
  /\ driver = "stopped"
  /\ driver' = "idle"
  /\ Event("STA_START")
  /\ UNCHANGED <<address, program, responder, queues, rebooted>>

Associate ==
  /\ Running /\ driver = "connecting"
  /\ driver' = "connected"
  /\ Event("STA_CONNECTED")
  /\ UNCHANGED <<address, program, responder, queues, rebooted>>

(* An attempt fails, or the access point is lost. *)
Disconnect ==
  /\ Running /\ driver \in {"connecting", "connected"}
  /\ driver' = "idle"
  /\ Event("STA_DISCONNECTED")
  /\ UNCHANGED <<address, program, responder, queues, rebooted>>

(* The first address of a connection, or another one *)
GetAddress ==
  /\ Running /\ driver = "connected"
  /\ address' = TRUE
  /\ Event("GOT_IP")
  /\ UNCHANGED <<driver, program, responder, queues, rebooted>>

-----------------------------------------------------------------------------
(* The event task *)

QueueActions_MutNoLimit(as) ==
  /\ action_queue' = action_queue \o as
  /\ UNCHANGED dropped

(* xQueueSend(s_action_queue, ..., 0) of some actions: the ones there is   *)
(* no room for are dropped.                                                *)
QueueActions(as) ==
  LET room == MDNS_ACTION_QUEUE_LEN - Len(action_queue)
      n == IF Len(as) <= room THEN Len(as) ELSE room
  IN  /\ action_queue' = action_queue \o SubSeq(as, 1, n)
      /\ dropped' = (dropped \/ \E i \in n + 1 .. Len(as) : as[i] = "enable4")

(* What handle_system_event_for_preset makes of an event *)
Posted(e) ==
  IF ~ registered THEN <<>>
  ELSE CASE e = "STA_DISCONNECTED" -> <<"disable4", "disable6">>
         [] e = "GOT_IP" -> <<"enable4", "announce6">>
         [] OTHER -> <<>>

HandleEvent_MutNoReconnect ==
  /\ Running /\ handler = "none" /\ events # <<>>
  /\ LET e == Head(events)
     IN  /\ events' = Tail(events)
         /\ QueueActions(Posted(e))
         /\ driver' = IF e = "STA_START" /\ driver = "idle"
                        THEN "connecting" ELSE driver
         /\ address' = (address /\ e # "STA_DISCONNECTED")
         /\ handler' = IF e = "GOT_IP" /\ ~ mdns_started THEN "init" ELSE "none"
  /\ UNCHANGED <<mdns_started, responder, action_sema, rebooted>>

(* An event and its handlers: esp_netif drops the address of a lost link,  *)
(* then mDNS and this program.  esp_wifi_connect starts an idle driver,    *)
(* and fails, which nobody looks at, when the driver is busy.              *)
HandleEvent ==
  /\ Running /\ handler = "none" /\ events # <<>>
  /\ LET e == Head(events)
     IN  /\ events' = Tail(events)
         /\ QueueActions(Posted(e))
         /\ driver' = IF e \in {"STA_START", "STA_DISCONNECTED"}
                         /\ driver = "idle"
                        THEN "connecting" ELSE driver
         /\ address' = (address /\ e # "STA_DISCONNECTED")
         /\ handler' = IF e = "GOT_IP" /\ ~ mdns_started THEN "init" ELSE "none"
  /\ UNCHANGED <<mdns_started, responder, action_sema, rebooted>>

(* mdns_init; mdns_priv_netif_init enables the interface if it has an      *)
(* address by now                                                          *)
InitMdns ==
  /\ Running /\ handler = "init"
  /\ registered' = TRUE
  /\ pcb' = IF ~ registered /\ address THEN "on" ELSE pcb
  /\ handler' = "hostname"
  /\ UNCHANGED <<station, events, mdns_started, hostname, services, queues,
                 rebooted>>

(* An action that must be queued, or the program reboots *)
QueueOrReboot(a, next) ==
  IF Len(action_queue) < MDNS_ACTION_QUEUE_LEN
    THEN /\ action_queue' = Append(action_queue, a)
         /\ handler' = next
         /\ rebooted' = rebooted
    ELSE /\ rebooted' = TRUE
         /\ UNCHANGED <<action_queue, handler>>

SetHostname ==
  /\ Running /\ handler = "hostname"
  /\ QueueOrReboot("hostname", "wait")
  /\ UNCHANGED <<station, events, mdns_started, responder, action_sema, dropped>>

WaitForHostname ==
  /\ Running /\ handler = "wait" /\ action_sema
  /\ action_sema' = FALSE
  /\ handler' = "instance"
  /\ UNCHANGED <<station, events, mdns_started, responder, action_queue,
                 dropped, rebooted>>

SetInstance ==
  /\ Running /\ handler = "instance"
  /\ IF hostname THEN QueueOrReboot("instance", "service")
     ELSE rebooted' = TRUE /\ UNCHANGED <<action_queue, handler>>
  /\ UNCHANGED <<station, events, mdns_started, responder, action_sema, dropped>>

(* mdns_service_add refuses a service there is already. *)
AddService ==
  /\ Running /\ handler = "service"
  /\ IF hostname /\ services = 0
       THEN /\ services' = 1 /\ mdns_started' = TRUE /\ handler' = "none"
            /\ rebooted' = rebooted
       ELSE /\ rebooted' = TRUE /\ UNCHANGED <<services, mdns_started, handler>>
  /\ UNCHANGED <<station, events, registered, hostname, pcb, queues>>

wifi_event_handler ==
  HandleEvent \/ InitMdns \/ SetHostname \/ WaitForHostname \/ SetInstance
    \/ AddService

-----------------------------------------------------------------------------
(* The service task and the packets it receives *)

(* receive and send_rx_action: as many packets as come in, and those that  *)
(* find the queue full are freed.                                           *)
ReceivePacket ==
  /\ Running /\ pcb = "on" /\ driver = "connected"
  /\ QueueActions(<<"rx">>)
  /\ UNCHANGED <<station, events, program, responder, action_sema, rebooted>>

Execute_MutNoGive ==
  /\ Running /\ action_queue # <<>>
  /\ action_queue' = Tail(action_queue)
  /\ LET a == Head(action_queue)
     IN  /\ pcb' = CASE a = "enable4" -> "on" [] a = "disable4" -> "off"
                     [] OTHER -> pcb
         /\ hostname' = (hostname \/ a = "hostname")
  /\ UNCHANGED <<station, events, program, registered, services, action_sema,
                 dropped, rebooted>>

(* xQueueReceive and execute_action *)
Execute ==
  /\ Running /\ action_queue # <<>>
  /\ action_queue' = Tail(action_queue)
  /\ LET a == Head(action_queue)
     IN  /\ pcb' = CASE a = "enable4" -> "on" [] a = "disable4" -> "off"
                     [] OTHER -> pcb
         /\ hostname' = (hostname \/ a = "hostname")
         /\ action_sema' = (action_sema \/ a = "hostname")
  /\ UNCHANGED <<station, events, program, registered, services, dropped,
                 rebooted>>

Init ==
  /\ driver = "stopped" /\ address = FALSE /\ events = <<>>
  /\ handler = "none" /\ mdns_started = FALSE
  /\ registered = FALSE /\ hostname = FALSE /\ services = 0 /\ pcb = "off"
  /\ action_queue = <<>> /\ action_sema = FALSE /\ dropped = FALSE
  /\ rebooted = FALSE

Next ==
  \/ Start \/ Associate \/ Disconnect \/ GetAddress
  \/ wifi_event_handler
  \/ ReceivePacket \/ Execute

Spec == Init /\ [][Next]_vars

(* The event task and the service task run while they have something to    *)
(* do; the network is obliged to nothing.                                  *)
FairSpec == Spec /\ WF_vars(wifi_event_handler) /\ WF_vars(Execute)

-----------------------------------------------------------------------------
(* Properties *)

(* Every variable keeps its range. *)
TypeOK ==
  /\ driver \in {"stopped", "idle", "connecting", "connected"}
  /\ {address, mdns_started, registered, hostname, action_sema, rebooted,
      dropped} \subseteq BOOLEAN
  /\ handler \in {"none", "init", "hostname", "wait", "instance", "service"}
  /\ services \in Nat /\ pcb \in {"off", "on"}
  /\ Len(events) <= MaxEvents
  /\ Len(action_queue) <= MDNS_ACTION_QUEUE_LEN

(***************************************************************************)
(* An idle driver is always about to be told to connect: the event that    *)
(* does it is on its way.  Nothing else ever would, there is no timer and  *)
(* no retry (wifi_connection.c:79-84), so losing that event would leave    *)
(* the device off the network for good.                                    *)
(***************************************************************************)
AlwaysTrying ==
  driver = "idle" =>
    \E i \in DOMAIN events : events[i] \in {"STA_START", "STA_DISCONNECTED"}

(***************************************************************************)
(* One thing alone makes a call of the start of mDNS fail, and the checks  *)
(* of wifi_connection.c:91-95 reboot the device: received packets that     *)
(* fill the action queue, which nothing bounds.  However often the address *)
(* is lost and obtained again meanwhile, no event leaves an action in the  *)
(* way, mDNS is set up once, and the host has its name before the instance *)
(* and the service, added once, need it.                                   *)
(***************************************************************************)
OnlyAFloodReboots ==
  rebooted =>
    /\ Len(action_queue) = MDNS_ACTION_QUEUE_LEN
    /\ \A i \in DOMAIN action_queue : action_queue[i] = "rx"

(***************************************************************************)
(* Once everything under way is done, a connected station with an address  *)
(* has mDNS enabled on its interface: through the scan in mdns_init when   *)
(* the address came first, through an event when it came later             *)
(* (mdns_netif.c:277-283,380-393), unless an action found no room.         *)
(***************************************************************************)
Advertised ==
  /\ driver = "connected" /\ address /\ events = <<>> /\ handler = "none"
  /\ action_queue = <<>> /\ Running /\ ~ dropped
  => mdns_started /\ pcb = "on"

(* Starting mDNS comes to its end: the event task, which waits inside for  *)
(* the service task, goes on to the next event (mdns_responder.c:664), or  *)
(* the queue is full and the device starts anew.                           *)
StartEnds == handler # "none" ~> handler = "none" \/ rebooted
=============================================================================
