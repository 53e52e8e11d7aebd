--------------------------- MODULE MdnsResponder ---------------------------
(***************************************************************************)
(* How mDNS comes to answer for a name: on every interface the responder   *)
(* probes for its host and services (three packets that ask for them),     *)
(* announces them (the same packet turned into answers, three times) and   *)
(* then answers for them.  mdns_pcb.c keeps that state per interface,      *)
(* mdns_responder.c changes the services and names under it at any moment, *)
(* mdns_receive.c gives way when somebody else has a name, and mdns_send.c *)
(* builds the packets and edits those that wait.                           *)
(*                                                                         *)
(* One step is one call under the service lock; a C function on one        *)
(* interface is an operator from its record n to the record it leaves.     *)
(* When packets are sent is left to MdnsTx: here any waiting one may be    *)
(* next.  One IP protocol; no host but one's own; memory does not run out. *)
(***************************************************************************)
EXTENDS Integers, Sequences, FiniteSets

CONSTANTS
  Ifs,            \* one interface, or two that may be each other's duplicate
  Services,       \* what may be added, of types that differ
  Host,           \* stands for the host name's A and AAAA records
  MAX_SERVICES,
  MaxWaiting,     \* packets of an interface when a question is answered
  MaxRenames      \* names given, by the program or after a conflict

(* mdns_pcb_state_t, in the order of the enum *)
OFF == 0   DUP == 1   PROBE_1 == 3   PROBE_3 == 5
ANNOUNCE_1 == 6   ANNOUNCE_3 == 8   RUNNING == 9
PROBING == PROBE_1 .. PROBE_3
ANNOUNCING == ANNOUNCE_1 .. ANNOUNCE_3

VARIABLES
  hostname,   \* s_server->hostname has been set
  instance,   \* s_server->instance has been set
  services,   \* s_server->services
  own,        \* the services that have an instance name of their own
  net,        \* each interface: see TypeOK
  renames

vars == <<hostname, instance, services, own, net, renames>>

Items == Services \cup {Host}
HostIf(include_ip) == IF include_ip THEN {Host} ELSE {}
others(i) == Ifs \ {i}
Unnamed == services \ own       \* "no instance": named after instance or host

Packet(asks, servers, answers, unicast) ==
  [asks |-> asks, servers |-> servers, answers |-> answers,
   unicast |-> unicast, probes |-> 0]

-----------------------------------------------------------------------------
(* mdns_pcb.c, on the record of one interface *)

(* mdns_priv_init_pcb_probe, init_probe_new_service and the probe packet:   *)
(* whatever waited on the interface is cleared first.                       *)
init_pcb_probe(named, n, S, probe_ip) ==
  IF ~ named THEN [n EXCEPT !.queue = <<>>, !.state = RUNNING]
  ELSE LET all == S \cup n.probing
           ip == n.ip \/ probe_ip
           asks == all \cup HostIf(ip)
       IN  [n EXCEPT !.queue = <<Packet(asks, asks, {}, FALSE)>>,
                     !.state = PROBE_1, !.probing = all, !.ip = ip]

(* mdns_priv_pcb_announce: k is the packet that is next *)
pcb_announce(n, S, include_ip, k) ==
  CASE n.ready /\ n.state \in PROBING ->
         init_pcb_probe(hostname, n, S, include_ip)
    [] n.ready /\ n.state \in ANNOUNCING /\ k \in DOMAIN n.queue ->
         [n EXCEPT !.queue[k].answers = @ \cup S \cup HostIf(include_ip),
                   !.state = ANNOUNCE_1]
    [] n.ready /\ n.state = RUNNING /\ hostname ->
         [n EXCEPT !.queue = Append(@, Packet({}, HostIf(include_ip), S, FALSE)),
                   !.state = ANNOUNCE_1]
    [] OTHER -> n

(* deinit_pcb after mdns_priv_clear_tx_queue_if *)
Cleared(n, state) ==
  [n EXCEPT !.ready = FALSE, !.state = state, !.queue = <<>>,
            !.probing = {}, !.ip = FALSE, !.claimed = {}, !.told = {},
            !.dropped = {}]

(* mdns_priv_probe_all_pcbs *)
probe_all_pcbs(named, all, S, probe_ip, clear_old_probe) ==
  [i \in Ifs |->
     IF ~ all[i].ready THEN all[i]
     ELSE init_pcb_probe(named,
            IF clear_old_probe THEN [all[i] EXCEPT !.probing = {}] ELSE all[i],
            S, probe_ip)]

(* What was claimed and told under names that are given up *)
Forget(n, S) == [n EXCEPT !.claimed = @ \ S, !.told = @ \ S, !.dropped = @ \ S]

-----------------------------------------------------------------------------
(* mdns_pcb_schedule_tx_packet, after the packet has gone out *)

Rest(n, k) == SubSeq(n.queue, 1, k - 1) \o SubSeq(n.queue, k + 1, Len(n.queue))

(* Whatever the packet was, it moves the state on and is sent again. *)
schedule_tx_packet(n, k) ==
  LET p == n.queue[k]
      rest == Rest(n, k)
      answers == p.servers \cup (IF p.servers = {} THEN {} ELSE {Host})
  IN CASE n.state \in {PROBE_1, PROBE_1 + 1} ->
         [n EXCEPT !.queue = Append(rest, [p EXCEPT !.probes = @ + 1]),
                   !.state = @ + 1]
    [] n.state = PROBE_3 ->
         [n EXCEPT !.queue = Append(rest, Packet({}, {}, answers, FALSE)),
                   !.state = ANNOUNCE_1, !.probing = {}, !.ip = FALSE,
                   !.claimed = @ \cup IF p.probes = 2 THEN p.asks ELSE {}]
    [] n.state \in {ANNOUNCE_1, ANNOUNCE_1 + 1} ->
         [n EXCEPT !.queue = Append(rest, p), !.state = @ + 1]
    [] n.state = ANNOUNCE_3 -> [n EXCEPT !.queue = rest, !.state = RUNNING]
    [] OTHER -> [n EXCEPT !.queue = rest]

(* handle_packet: everybody on the link hears what was not sent to one.     *)
Send(i, k) ==
  LET n == net[i]
      heard == IF n.queue[k].unicast \/ n.state \in PROBING THEN {}
               ELSE n.queue[k].answers \cup n.queue[k].servers
  IN  /\ net' = [net EXCEPT ![i] =
                   [schedule_tx_packet(n, k) EXCEPT !.told = @ \cup heard]]
      /\ UNCHANGED <<hostname, instance, services, own, renames>>

(* mdns_priv_create_answer_from_parsed_packet: only once probing is over,   *)
(* and mdns_parse_packet ignores questions before there is a host name.     *)
Answer(i, S, unicast) ==
  /\ hostname /\ net[i].ready /\ net[i].state > PROBE_3
  /\ Len(net[i].queue) < MaxWaiting
  /\ net' = [net EXCEPT ![i].queue = Append(@, Packet({}, {}, S, unicast))]
  /\ UNCHANGED <<hostname, instance, services, own, renames>>

-----------------------------------------------------------------------------
(* The interfaces: perform_event_action *)

(* mdns_priv_pcb_enable; joining the multicast group may fail. *)
enable(named, all, i) ==
  [all EXCEPT ![i] = init_pcb_probe(named, [@ EXCEPT !.ready = TRUE],
                                    services, TRUE)]

Enable(i) ==
  /\ net' = enable(hostname, net, i)
  /\ UNCHANGED <<hostname, instance, services, own, renames>>

(* mdns_priv_pcb_disable: a duplicate takes over, or cannot be initialised. *)
Disable(i) ==
  /\ LET off == [net EXCEPT ![i] = Cleared(@, OFF)]
         twins == {j \in others(i) : net[i].ready /\ net[j].state = DUP}
         handed(j) == [off EXCEPT ![j].state = OFF]
     IN  IF twins = {} THEN net' = off
         ELSE \E j \in twins : net' \in {handed(j), enable(hostname, handed(j), j)}
  /\ UNCHANGED <<hostname, instance, services, own, renames>>

Announce(i, k) ==
  /\ net' = [net EXCEPT ![i] = pcb_announce(@, {}, TRUE, k)]
  /\ UNCHANGED <<hostname, instance, services, own, renames>>

(* check_a_collision finds the other interface's address in an answer:      *)
(* mdns_priv_pcb_set_duplicate                                              *)
SetDuplicate(i, k) ==
  /\ net[i].ready
  /\ \E j \in others(i) :
       /\ net[j].ready
       /\ net' = [net EXCEPT ![i] = Cleared(@, DUP),
                             ![j] = pcb_announce(@, {}, TRUE, k)]
  /\ UNCHANGED <<hostname, instance, services, own, renames>>

-----------------------------------------------------------------------------
(* The program: mdns_responder.c *)

(* ACTION_HOSTNAME_SET; mdns_priv_restart_all_pcbs clears every queue. *)
restart_all_pcbs ==
  probe_all_pcbs(TRUE, [i \in Ifs |-> [Forget(net[i], Items) EXCEPT !.queue = <<>>]],
                 services, TRUE, TRUE)

HostnameSet ==
  /\ renames < MaxRenames
  /\ hostname' = TRUE /\ renames' = renames + 1
  /\ net' = restart_all_pcbs
  /\ UNCHANGED <<instance, services, own>>

(* mdns_priv_restart_all_pcbs_no_instance: whatever else was being probed   *)
(* for is no longer.                                                        *)
restart_all_pcbs_no_instance ==
  IF Unnamed = {} THEN net
  ELSE probe_all_pcbs(hostname,
         [i \in Ifs |-> [Forget(net[i], Unnamed) EXCEPT
                           !.dropped = @ \cup (net[i].probing \ Unnamed)]],
         Unnamed, FALSE, TRUE)

InstanceSet ==
  /\ hostname /\ renames < MaxRenames
  /\ instance' = TRUE /\ renames' = renames + 1
  /\ net' = restart_all_pcbs_no_instance
  /\ UNCHANGED <<hostname, services, own>>

(* mdns_service_add_for_host *)
ServiceAdd(s, named) ==
  /\ hostname /\ s \notin services /\ Cardinality(services) < MAX_SERVICES
  /\ services' = services \cup {s}
  /\ own' = IF named THEN own \cup {s} ELSE own
  /\ net' = probe_all_pcbs(hostname, net, {s}, FALSE, FALSE)
  /\ UNCHANGED <<hostname, instance, renames>>

(* mdns_service_instance_name_set_for_host *)
ServiceInstanceNameSet(s) ==
  /\ renames < MaxRenames /\ s \in services
  /\ own' = own \cup {s} /\ renames' = renames + 1
  /\ net' = probe_all_pcbs(hostname, [i \in Ifs |-> Forget(net[i], {s})],
                           {s}, FALSE, FALSE)
  /\ UNCHANGED <<hostname, instance, services>>

(* announce_all_pcbs: the host's addresses are announced with a new port,   *)
(* the service alone with new TXT items or subtypes.                        *)
announce_all_pcbs(s, include_ip, k) ==
  /\ s \in services
  /\ net' = [i \in Ifs |-> pcb_announce(net[i], {s}, include_ip, k)]
  /\ UNCHANGED <<hostname, instance, services, own, renames>>

PortSet(s, k) == announce_all_pcbs(s, TRUE, k)
TxtSet(s, k) == announce_all_pcbs(s, FALSE, k)

(* mdns_priv_remove_scheduled_service_packets, with what                    *)
(* mdns_priv_pcb_check_probing_services does for each packet: S leaves the  *)
(* packets, the probed services leave the questions, empty packets go.      *)
(* Services are of different types, so the question that goes, the first    *)
(* of the service's type, is the service's own.                             *)
Without(p, S, asked) ==
  [p EXCEPT !.answers = @ \ S, !.servers = @ \ S,
            !.asks = IF asked THEN @ \ S ELSE @]

Detached(queue, S, probed) ==
  LET left[k \in 0 .. Len(queue)] ==
        IF k = 0 THEN <<>>
        ELSE LET p == Without(queue[k], S, probed /\ k = 1)
             IN  IF p.asks \cup p.servers \cup p.answers = {}
                 THEN left[k - 1] ELSE Append(left[k - 1], p)
  IN left[Len(queue)]

remove_scheduled_MutProbeKept(n, S) ==
  [n EXCEPT !.queue = Detached(@, S, FALSE)]

remove_scheduled(n, S) ==
  LET probed == n.state \in PROBING /\ n.probing \cap S # {} /\ n.queue # <<>>
      emptied == \E k \in DOMAIN n.queue :
                   n.queue[k].answers # {} /\ n.queue[k].answers \subseteq S
      over == \/ probed /\ n.probing \subseteq S /\ ~ n.ip
              \/ n.state \in ANNOUNCING /\ emptied
  IN  [n EXCEPT !.queue = Detached(@, S, probed),
                !.probing = IF probed THEN @ \ S ELSE @,
                !.state = IF over THEN RUNNING ELSE @]

(* mdns_service_remove_for_host, mdns_service_remove_all (in the code one   *)
(* service after the other, which comes to the same)                        *)
ServicesRemove(S) ==
  /\ S # {} /\ S \subseteq services
  /\ services' = services \ S /\ own' = own \ S
  /\ net' = [i \in Ifs |-> remove_scheduled(Forget(net[i], S), S)]
  /\ UNCHANGED <<hostname, instance, renames>>

-----------------------------------------------------------------------------
(* Records of others: mdns_parse_packet, when the other one wins *)

Rename == renames < MaxRenames /\ renames' = renames + 1

(* An SRV record for a service of ours: while probing, change the name, as  *)
(* far up as it comes from; otherwise say goodbye and probe again.          *)
ConflictSrv(i, s) ==
  /\ hostname /\ s \in services /\ net[i].ready
  /\ IF net[i].state \in PROBING
       THEN /\ Rename
            /\ net' = CASE s \in own ->
                        probe_all_pcbs(TRUE, [j \in Ifs |-> Forget(net[j], {s})],
                                       {s}, FALSE, FALSE)
                   [] s \notin own /\ instance -> restart_all_pcbs_no_instance
                   [] OTHER -> restart_all_pcbs
       ELSE /\ net' = [net EXCEPT ![i] =
                         init_pcb_probe(TRUE, Forget(@, {s}), {s}, FALSE)]
            /\ UNCHANGED renames
  /\ UNCHANGED <<hostname, instance, services, own>>

(* A TXT record that differs from ours *)
ConflictTxt(i, s) ==
  /\ hostname /\ s \in services /\ net[i].ready /\ net[i].state \notin PROBING
  /\ net' = [net EXCEPT ![i] = init_pcb_probe(TRUE, Forget(@, {s}), {s}, TRUE)]
  /\ UNCHANGED <<hostname, instance, services, own, renames>>

(* An A or AAAA record for our host name *)
ConflictAddress(i) ==
  /\ hostname /\ net[i].ready
  /\ IF net[i].state \in PROBING
       THEN Rename /\ net' = restart_all_pcbs
       ELSE /\ net' = [net EXCEPT ![i] =
                         init_pcb_probe(TRUE, Forget(@, {Host}), {}, TRUE)]
            /\ UNCHANGED renames
  /\ UNCHANGED <<hostname, instance, services, own>>

-----------------------------------------------------------------------------
Init ==
  /\ hostname = FALSE /\ instance = FALSE
  /\ services = {} /\ own = {} /\ renames = 0
  /\ net = [i \in Ifs |->
       [ready |-> FALSE, state |-> OFF, probing |-> {}, ip |-> FALSE,
        queue |-> <<>>, claimed |-> {}, told |-> {}, dropped |-> {}]]

Next ==
  \/ \E i \in Ifs :
       \/ \E k \in DOMAIN net[i].queue : Send(i, k)
       \/ Enable(i) \/ Disable(i) \/ ConflictAddress(i)
       \/ \E k \in 1 .. MaxWaiting : Announce(i, k) \/ SetDuplicate(i, k)
       \/ \E S \in {{x} : x \in services \cup {Host}}, b \in BOOLEAN :
            Answer(i, S, b)
       \/ \E s \in Services : ConflictSrv(i, s) \/ ConflictTxt(i, s)
  \/ HostnameSet \/ InstanceSet
  \/ \E S \in SUBSET services : ServicesRemove(S)
  \/ \E s \in Services :
       \/ \E b \in BOOLEAN : ServiceAdd(s, b)
       \/ \E k \in 1 .. MaxWaiting : PortSet(s, k) \/ TxtSet(s, k)
       \/ ServiceInstanceNameSet(s)

Spec == Init /\ [][Next]_vars

-----------------------------------------------------------------------------
(* Properties *)

(* Every variable keeps its range.  claimed, told and dropped are history:  *)
(* what the interface has asked for three times under its present name,     *)
(* what its listeners have heard of, what was thrown out of a probe.        *)
TypeOK ==
  /\ {hostname, instance} \subseteq BOOLEAN /\ own \subseteq services
  /\ services \subseteq Services /\ Cardinality(services) <= MAX_SERVICES
  /\ \A i \in Ifs :
       /\ net[i].ready \in BOOLEAN /\ net[i].ip \in BOOLEAN
       /\ net[i].state \in {OFF, DUP} \cup PROBE_1 .. RUNNING
       /\ net[i].claimed \cup net[i].told \cup net[i].dropped \subseteq Items
       /\ ~ net[i].ready => net[i].queue = <<>> /\ net[i].state \in {OFF, DUP}

(***************************************************************************)
(* An interface that probes has one packet waiting, and it asks for just   *)
(* what the interface believes to be probing for; one that announces has a *)
(* packet waiting too; any other probes for nothing.  Otherwise the state  *)
(* is never moved on (a packet does that), or is by a packet that asks for *)
(* something else, or probe_services keeps a service that has been freed   *)
(* (mdns_pcb.c:211-303,327-370, mdns_send.c:1779-1809).                    *)
(***************************************************************************)
ProbesAsBelieved ==
  \A i \in Ifs : LET n == net[i] IN
    /\ n.state \in PROBING =>
         /\ Len(n.queue) = 1
         /\ n.queue[1].asks = n.probing \cup HostIf(n.ip)
         /\ n.probing \subseteq services
    /\ n.state \in ANNOUNCING => n.queue # <<>>
    /\ n.state \notin PROBING => n.probing = {} /\ ~ n.ip

(***************************************************************************)
(* The responder answers for a name, asked or not, only after it has asked *)
(* for it three times on that interface, however services come and go and  *)
(* names change meanwhile - but for what a change of the default instance  *)
(* name threw out of a probe (mdns_pcb.c:211-250, mdns_receive.c:1388).    *)
(***************************************************************************)
AnswersForItsOwn ==
  \A i \in Ifs : \A k \in DOMAIN net[i].queue :
    net[i].queue[k].answers \subseteq net[i].claimed \cup net[i].dropped

(* While an interface is silent because the other one is on the same link,  *)
(* the other one is at work: mdns_pcb.c:155-200.                            *)
DuplicateCovered ==
  \A i \in Ifs : net[i].state = DUP => \E j \in others(i) : net[j].ready

(***************************************************************************)
(* "ensuring proper service announcements" (refactor_2025.md:33): once an  *)
(* interface is running and nothing waits, its listeners have heard of     *)
(* every service and of the host, under their present names.               *)
(* It does not hold: see section 6 of the README.                          *)
(***************************************************************************)
AllAnnounced ==
  \A i \in Ifs :
    net[i].state = RUNNING /\ net[i].queue = <<>> /\ hostname
      => services \cup {Host} \subseteq net[i].told
=============================================================================
