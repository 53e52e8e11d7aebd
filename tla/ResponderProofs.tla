-------------------------- MODULE ResponderProofs --------------------------
(***************************************************************************)
(* The responder of mDNS, for every set of services, of names given and of *)
(* packets that wait, on one interface or on two that may be each other's  *)
(* duplicate: that it answers for a name only after it has asked for it.   *)
(* On each interface every name is claimed, thrown out of a probe or being *)
(* asked for (Accounted), and what waits to be sent agrees with that       *)
(* (PcbInv); each call keeps it on the interfaces it changes.              *)
(***************************************************************************)
EXTENDS PartsProofs

-----------------------------------------------------------------------------
(* One interface: mdns_pcb.c                                               *)

Announced == Offered \cup {OwnHost}
Messages ==
  [asks : SUBSET Announced, servers : SUBSET Announced, answers : SUBSET Announced,
   unicast : BOOLEAN, probes : Nat]
Pcbs ==
  [ready : BOOLEAN, state : {0, 1} \cup 3 .. 9, probing : SUBSET Offered, ip : BOOLEAN,
   queue : Seq(Messages), claimed : SUBSET Announced, told : SUBSET Announced,
   dropped : SUBSET Announced]

(* What an interface is probing for, the packet that asks for it, and the  *)
(* names it has asked for three times or is about to.                      *)
Sought(n) == n.probing \cup Responder!HostIf(n.ip)
Question(n) ==
  [asks |-> Sought(n), servers |-> Sought(n), answers |-> {}, unicast |-> FALSE,
   probes |-> n.state - 3]
Accounted(n) == n.claimed \cup n.dropped \cup Sought(n)

(* What a packet that does not ask may say.                                *)
Statement(p, n) ==
  /\ p.asks = {} /\ p.servers \subseteq {OwnHost}
  /\ p.answers \cup p.servers # {} /\ p.answers \subseteq n.claimed \cup n.dropped

(* An interface between two calls: once there is a host name and T are the *)
(* services; and before.                                                   *)
PcbInv(n, T) ==
  /\ n \in Pcbs
  /\ n.ready <=> n.state \notin {0, 1}
  /\ n.state \in {0, 1} => n.queue = <<>>
  /\ n.state \in 3 .. 5 =>
       n.probing \subseteq T /\ Sought(n) # {} /\ n.queue = <<Question(n)>>
  /\ n.state \notin 3 .. 5 =>
       /\ n.probing = {} /\ ~ n.ip
       /\ \A k \in DOMAIN n.queue : Statement(n.queue[k], n)
  /\ n.state \in 6 .. 8 => n.queue # <<>>
  /\ n.ready => T \cup {OwnHost} \subseteq Accounted(n)

SilentInv(n) ==
  /\ n \in Pcbs /\ n.queue = <<>> /\ n.probing = {} /\ ~ n.ip
  /\ n.ready <=> n.state \notin {0, 1}
  /\ n.state \in {0, 1, 9}

ResponderInv ==
  /\ host_named \in BOOLEAN /\ offered \subseteq Offered /\ own_named \subseteq offered
  /\ DOMAIN pcbs = Netifs
  /\ host_named => \A i \in Netifs : PcbInv(pcbs[i], offered)
  /\ ~ host_named => offered = {} /\ \A i \in Netifs : SilentInv(pcbs[i])
  /\ Responder!DuplicateCovered

(* mdns_priv_init_pcb_probe on an interface that is up, with something to  *)
(* probe for, of which all that is not claimed yet is part.                *)
LEMMA ProbeStarts ==
  ASSUME NEW n \in Pcbs, n.ready, NEW T \in SUBSET Offered, NEW S \in SUBSET T,
         n.probing \subseteq T, NEW probe_ip \in BOOLEAN,
         S \cup n.probing # {} \/ n.ip \/ probe_ip,
         T \subseteq n.claimed \cup n.dropped \cup S \cup n.probing,
         OwnHost \in n.claimed \cup n.dropped \/ n.ip \/ probe_ip
  PROVE  /\ PcbInv(Responder!init_pcb_probe(TRUE, n, S, probe_ip), T)
         /\ Responder!init_pcb_probe(TRUE, n, S, probe_ip).ready
<1> DEFINE all == S \cup n.probing
           ip == n.ip \/ probe_ip
           asks == all \cup Responder!HostIf(ip)
           p == [asks |-> asks, servers |-> asks, answers |-> {}, unicast |-> FALSE,
                 probes |-> 0]
           q == <<p>>
           d == Responder!init_pcb_probe(TRUE, n, S, probe_ip)
<1>1. /\ all \in SUBSET T /\ ip \in BOOLEAN /\ (ip <=> n.ip \/ probe_ip)
      /\ asks \in SUBSET Announced /\ asks # {}
  BY DEF Responder!HostIf, Announced, Pcbs
<1>2. d = [n EXCEPT !.queue = q, !.state = 3, !.probing = all, !.ip = ip]
  BY DEF Responder!init_pcb_probe, Responder!Packet, Responder!PROBE_1
<1>3. p \in Messages /\ q \in Seq(Messages) /\ asks = all \cup Responder!HostIf(ip)
  BY <1>1 DEF Messages
<1>4. p.asks = asks /\ p = [asks |-> asks, servers |-> asks, answers |-> {}, unicast |-> FALSE,
                 probes |-> 0] /\ q = <<p>>
  OBVIOUS
<1>5. S \cup n.probing = all
  OBVIOUS
<1> HIDE DEF p, q, asks, d, ip, all
<1>6. /\ d.ready = n.ready /\ d.state = 3 /\ d.probing = all /\ d.ip = ip /\ d.queue = q
      /\ d.claimed = n.claimed /\ d.told = n.told /\ d.dropped = n.dropped
      /\ d = [ready |-> d.ready, state |-> d.state, probing |-> d.probing, ip |-> d.ip,
              queue |-> d.queue, claimed |-> d.claimed, told |-> d.told, dropped |-> d.dropped]
  BY <1>2 DEF Pcbs
<1>7. d \in Pcbs
  <2>1. d.ready \in BOOLEAN
    BY <1>1, <1>3, <1>6 DEF Pcbs
  <2>2. d.ip \in BOOLEAN
    BY <1>1, <1>3, <1>6 DEF Pcbs
  <2>3. d.state \in {0, 1} \cup 3 .. 9
    BY <1>1, <1>3, <1>6 DEF Pcbs
  <2>4. d.probing \in SUBSET Offered
    BY <1>1, <1>3, <1>6 DEF Pcbs
  <2>5. d.queue \in Seq(Messages)
    BY <1>1, <1>3, <1>6 DEF Pcbs
  <2>6. /\ d.claimed \in SUBSET Announced /\ d.told \in SUBSET Announced
        /\ d.dropped \in SUBSET Announced
    BY <1>1, <1>3, <1>6 DEF Pcbs
  <2> QED BY <1>6, <2>1, <2>2, <2>3, <2>4, <2>5, <2>6 DEF Pcbs
<1>8. Sought(d) = asks
  BY <1>3, <1>6 DEF Sought
<1>9. d.queue = <<Question(d)>>
  BY <1>4, <1>6, <1>8 DEF Question
<1>10. T \cup {OwnHost} \subseteq Accounted(d)
  BY <1>1, <1>3, <1>5, <1>6, <1>8 DEF Accounted, Responder!HostIf
<1>11. PcbInv(d, T) /\ d.ready
  BY <1>1, <1>6, <1>7, <1>8, <1>9, <1>10 DEF PcbInv
<1> QED BY <1>11 DEF d

(* Before there is a host name nothing is asked.                           *)
LEMMA NothingToProbe ==
  ASSUME NEW n \in Pcbs, n.ready, NEW S, NEW probe_ip, n.probing = {}, ~ n.ip
  PROVE  /\ SilentInv(Responder!init_pcb_probe(FALSE, n, S, probe_ip))
         /\ Responder!init_pcb_probe(FALSE, n, S, probe_ip).ready
<1> DEFINE d == Responder!init_pcb_probe(FALSE, n, S, probe_ip)
<1>1. d = [n EXCEPT !.queue = <<>>, !.state = 9]
  BY DEF Responder!init_pcb_probe, Responder!RUNNING
<1> HIDE DEF d
<1>2. /\ d.ready = n.ready /\ d.state = 9 /\ d.probing = {} /\ d.ip = n.ip /\ d.queue = <<>>
      /\ d.claimed = n.claimed /\ d.told = n.told /\ d.dropped = n.dropped
      /\ d = [ready |-> d.ready, state |-> d.state, probing |-> d.probing, ip |-> d.ip,
              queue |-> d.queue, claimed |-> d.claimed, told |-> d.told, dropped |-> d.dropped]
  BY <1>1 DEF Pcbs
<1>3. d \in Pcbs
  <2>1. d.ready \in BOOLEAN
    BY <1>2 DEF Pcbs
  <2>2. d.ip \in BOOLEAN
    BY <1>2 DEF Pcbs
  <2>3. d.state \in {0, 1} \cup 3 .. 9
    BY <1>2 DEF Pcbs
  <2>4. d.probing \in SUBSET Offered
    BY <1>2 DEF Pcbs
  <2>5. d.queue \in Seq(Messages)
    BY <1>2 DEF Pcbs
  <2>6. /\ d.claimed \in SUBSET Announced /\ d.told \in SUBSET Announced
        /\ d.dropped \in SUBSET Announced
    BY <1>2 DEF Pcbs
  <2> QED BY <1>2, <2>1, <2>2, <2>3, <2>4, <2>5, <2>6 DEF Pcbs
<1>4. d.ready /\ ~ d.ip
  BY <1>2
<1>5. SilentInv(d)
  BY <1>2, <1>3, <1>4 DEF SilentInv
<1> QED BY <1>4, <1>5 DEF d

(* deinit_pcb leaves nothing waiting.                                      *)
LEMMA ClearedIsQuiet ==
  ASSUME NEW n \in Pcbs, NEW state \in {0, 1}, NEW T
  PROVE  LET d == Responder!Cleared(n, state)
         IN  PcbInv(d, T) /\ SilentInv(d) /\ d.state = state /\ ~ d.ready
<1> DEFINE d == Responder!Cleared(n, state)
<1>1. d = [n EXCEPT !.ready = FALSE, !.state = state, !.queue = <<>>, !.probing = {},
                    !.ip = FALSE, !.claimed = {}, !.told = {}, !.dropped = {}]
  BY DEF Responder!Cleared
<1> HIDE DEF d
<1>2. /\ d.ready = FALSE /\ d.state = state /\ d.probing = {} /\ d.ip = FALSE
      /\ d.queue = <<>> /\ d.claimed = {} /\ d.told = {} /\ d.dropped = {}
      /\ d = [ready |-> d.ready, state |-> d.state, probing |-> d.probing, ip |-> d.ip,
              queue |-> d.queue, claimed |-> d.claimed, told |-> d.told, dropped |-> d.dropped]
  BY <1>1 DEF Pcbs
<1>3. d \in Pcbs
  <2>1. d.ready \in BOOLEAN
    BY <1>2 DEF Pcbs
  <2>2. d.ip \in BOOLEAN
    BY <1>2 DEF Pcbs
  <2>3. d.state \in {0, 1} \cup 3 .. 9
    BY <1>2 DEF Pcbs
  <2>4. d.probing \in SUBSET Offered
    BY <1>2 DEF Pcbs
  <2>5. d.queue \in Seq(Messages)
    BY <1>2 DEF Pcbs
  <2>6. /\ d.claimed \in SUBSET Announced /\ d.told \in SUBSET Announced
        /\ d.dropped \in SUBSET Announced
    BY <1>2 DEF Pcbs
  <2> QED BY <1>2, <2>1, <2>2, <2>3, <2>4, <2>5, <2>6 DEF Pcbs
<1>4. PcbInv(d, T) /\ SilentInv(d) /\ d.state = state /\ ~ d.ready
  BY <1>2, <1>3 DEF PcbInv, SilentInv
<1> QED BY <1>4 DEF d

(* Where probing is over, every service and the host may be answered for.  *)
LEMMA AllAccounted ==
  ASSUME NEW n, NEW T, PcbInv(n, T), n.ready, n.state \notin 3 .. 5
  PROVE  T \cup {OwnHost} \subseteq n.claimed \cup n.dropped
<1>1. Sought(n) = {} /\ T \cup {OwnHost} \subseteq Accounted(n)
  BY DEF PcbInv, Sought, Responder!HostIf
<1> QED BY <1>1 DEF Accounted

(* An interface that neither probes nor is off, with other packets.        *)
Requeue(n, q, state) == [n EXCEPT !.queue = q, !.state = state]

LEMMA Requeued ==
  ASSUME NEW n, NEW T, PcbInv(n, T), n.ready, n.state \notin 3 .. 5,
         NEW q \in Seq(Messages), \A k \in DOMAIN q : Statement(q[k], n),
         NEW state \in 6 .. 9, state # 9 => q # <<>>
  PROVE  /\ PcbInv(Requeue(n, q, state), T)
         /\ Requeue(n, q, state).ready
         /\ Requeue(n, q, state).state = state
<1> DEFINE d == Requeue(n, q, state)
<1>1. n \in Pcbs /\ n.probing = {} /\ ~ n.ip /\ T \cup {OwnHost} \subseteq n.claimed \cup n.dropped
  BY AllAccounted DEF PcbInv
<1>2. d = [n EXCEPT !.queue = q, !.state = state]
  BY DEF Requeue
<1> HIDE DEF d
<1>3. /\ d.ready = n.ready /\ d.state = state /\ d.probing = {} /\ d.ip = n.ip /\ d.queue = q
      /\ d.claimed = n.claimed /\ d.told = n.told /\ d.dropped = n.dropped
      /\ d = [ready |-> d.ready, state |-> d.state, probing |-> d.probing, ip |-> d.ip,
              queue |-> d.queue, claimed |-> d.claimed, told |-> d.told, dropped |-> d.dropped]
  BY <1>1, <1>2 DEF Pcbs
<1>4. d \in Pcbs
  <2>1. d.ready \in BOOLEAN
    BY <1>1, <1>3 DEF Pcbs
  <2>2. d.ip \in BOOLEAN
    BY <1>1, <1>3 DEF Pcbs
  <2>3. d.state \in {0, 1} \cup 3 .. 9
    BY <1>3
  <2>4. d.probing \in SUBSET Offered /\ d.queue \in Seq(Messages)
    BY <1>3
  <2>5. d.claimed \in SUBSET Announced /\ d.told \in SUBSET Announced
        /\ d.dropped \in SUBSET Announced
    BY <1>1, <1>3 DEF Pcbs
  <2> QED BY <1>3, <2>1, <2>2, <2>3, <2>4, <2>5 DEF Pcbs
<1>5. \A k \in DOMAIN d.queue : Statement(d.queue[k], d)
  BY <1>3 DEF Statement
<1>6. T \cup {OwnHost} \subseteq Accounted(d)
  BY <1>1, <1>3 DEF Accounted
<1>7. d.ready /\ ~ d.ip /\ d.state \notin {0, 1} /\ d.state \notin 3 .. 5
  BY <1>1, <1>3
<1>8. d.state \in 6 .. 8 => d.queue # <<>>
  BY <1>3
<1>9. PcbInv(d, T)
  BY <1>3, <1>4, <1>5, <1>6, <1>7, <1>8 DEF PcbInv
<1> QED BY <1>3, <1>7, <1>9 DEF d

(* What listeners hear is history.                                         *)
LEMMA ToldMore ==
  ASSUME NEW n, NEW T, PcbInv(n, T), NEW X \in SUBSET Announced
  PROVE  LET d == [n EXCEPT !.told = @ \cup X]
         IN  PcbInv(d, T) /\ (d.ready <=> n.ready) /\ d.state = n.state
<1> DEFINE t == n.told \cup X
           d == [n EXCEPT !.told = t]
<1>1. n \in Pcbs
  BY DEF PcbInv
<1>2. d = [n EXCEPT !.told = t] /\ t \in SUBSET Announced
  BY <1>1 DEF Pcbs
<1> HIDE DEF d, t
<1>3. /\ d.ready = n.ready /\ d.state = n.state /\ d.probing = n.probing /\ d.ip = n.ip
      /\ d.queue = n.queue
      /\ d.claimed = n.claimed /\ d.told = t /\ d.dropped = n.dropped
      /\ d = [ready |-> d.ready, state |-> d.state, probing |-> d.probing, ip |-> d.ip,
              queue |-> d.queue, claimed |-> d.claimed, told |-> d.told, dropped |-> d.dropped]
  BY <1>1, <1>2 DEF Pcbs
<1>4. d \in Pcbs
  <2>1. d.ready \in BOOLEAN
    BY <1>1, <1>3 DEF Pcbs
  <2>2. d.ip \in BOOLEAN
    BY <1>1, <1>3 DEF Pcbs
  <2>3. d.state \in {0, 1} \cup 3 .. 9
    BY <1>1, <1>3 DEF Pcbs
  <2>4. d.probing \in SUBSET Offered /\ d.queue \in Seq(Messages)
    BY <1>1, <1>3 DEF Pcbs
  <2>5. d.claimed \in SUBSET Announced /\ d.told \in SUBSET Announced
        /\ d.dropped \in SUBSET Announced
    BY <1>1, <1>2, <1>3 DEF Pcbs
  <2> QED BY <1>3, <2>1, <2>2, <2>3, <2>4, <2>5 DEF Pcbs
<1>5. Sought(d) = Sought(n)
  BY <1>3 DEF Sought
<1>6. Accounted(d) = Accounted(n) /\ Question(d) = Question(n)
  BY <1>3, <1>5 DEF Accounted, Question
<1>7. \A p : Statement(p, d) <=> Statement(p, n)
  BY <1>3 DEF Statement
<1>8. (d.ready <=> n.ready) /\ (d.ip <=> n.ip)
  BY <1>3
<1>9. PcbInv(d, T)
  BY <1>3, <1>4, <1>5, <1>6, <1>7, <1>8 DEF PcbInv
<1> QED BY <1>3, <1>8, <1>9 DEF d, t

(* One more packet that does not ask.                                      *)
LEMMA StatementsExtended ==
  ASSUME NEW q \in Seq(Messages), NEW n, \A k \in DOMAIN q : Statement(q[k], n),
         NEW p \in Messages, Statement(p, n)
  PROVE  /\ Append(q, p) \in Seq(Messages) /\ Append(q, p) # <<>>
         /\ \A k \in DOMAIN Append(q, p) : Statement(Append(q, p)[k], n)
<1>1. /\ Append(q, p) \in Seq(Messages) /\ Len(Append(q, p)) = Len(q) + 1 /\ Len(q) \in Nat
      /\ DOMAIN Append(q, p) = 1 .. Len(q) + 1 /\ DOMAIN q = 1 .. Len(q)
      /\ \A k \in 1 .. Len(q) : Append(q, p)[k] = q[k]
      /\ Append(q, p)[Len(q) + 1] = p
  BY AppendProperties, LenProperties
<1>2. Append(q, p) # <<>>
  BY <1>1
<1>3. ASSUME NEW k \in DOMAIN Append(q, p) PROVE Statement(Append(q, p)[k], n)
  <2>1. k \in 1 .. Len(q) \/ k = Len(q) + 1
    BY <1>1
  <2>2. CASE k \in 1 .. Len(q)
    <3>1. Append(q, p)[k] = q[k] /\ k \in DOMAIN q
      BY <1>1, <2>2
    <3> QED BY <3>1
  <2>3. CASE k = Len(q) + 1
    <3>1. Append(q, p)[k] = p
      BY <1>1, <2>3
    <3> QED BY <3>1
  <2> QED BY <2>1, <2>2, <2>3
<1> QED BY <1>1, <1>2, <1>3

(* mdns_priv_pcb_announce: probing starts over, a waiting packet says more,*)
(* or one more packet waits.                                               *)
LEMMA AnnounceKeeps ==
  ASSUME NEW n, NEW T \in SUBSET Offered, host_named, PcbInv(n, T),
         NEW S \in SUBSET T, NEW include_ip \in BOOLEAN, S # {} \/ include_ip, NEW k
  PROVE  LET d == Responder!pcb_announce(n, S, include_ip, k)
         IN  /\ PcbInv(d, T) /\ (d.ready <=> n.ready)
             /\ d.state = 1 => n.state = 1
<1> DEFINE d == Responder!pcb_announce(n, S, include_ip, k)
           H == Responder!HostIf(include_ip)
           Goal == PcbInv(d, T) /\ (d.ready <=> n.ready) /\ (d.state = 1 => n.state = 1)
<1> SUFFICES Goal
  OBVIOUS
<1>1. /\ n \in Pcbs /\ (n.ready <=> n.state \notin {0, 1})
      /\ H \in SUBSET Announced /\ H \subseteq {OwnHost} /\ S \cup H # {} /\ S \in SUBSET Announced
  BY DEF PcbInv, Announced, Responder!HostIf
<1>2. CASE n.ready /\ n.state \in 3 .. 5
  <2>2. d = Responder!init_pcb_probe(TRUE, n, S, include_ip)
    <3>1. /\ n.ready /\ n.state \in Responder!PROBING
          /\ n.state \notin Responder!ANNOUNCING /\ n.state # Responder!RUNNING
      BY <1>2 DEF Responder!PROBING, Responder!PROBE_1, Responder!PROBE_3,
         Responder!ANNOUNCING, Responder!ANNOUNCE_1, Responder!ANNOUNCE_3, Responder!RUNNING
    <3>2. d = Responder!init_pcb_probe(host_named, n, S, include_ip)
      BY <3>1 DEF Responder!pcb_announce
    <3> QED BY <3>2 DEF Responder!init_pcb_probe
  <2>3. n.probing \subseteq T /\ T \cup {OwnHost} \subseteq Accounted(n)
    BY <1>2 DEF PcbInv
  <2>4. T \subseteq n.claimed \cup n.dropped \cup S \cup n.probing
    <3>1. T \subseteq Accounted(n) /\ OwnHost \notin T
      BY <2>3, ResponderAssumption
    <3> QED BY <3>1 DEF Accounted, Sought, Responder!HostIf
  <2>5. OwnHost \in n.claimed \cup n.dropped \/ n.ip \/ include_ip
    <3>1. OwnHost \in Accounted(n) /\ OwnHost \notin n.probing
      BY <2>3, ResponderAssumption
    <3> QED BY <3>1 DEF Accounted, Sought, Responder!HostIf
  <2>6. PcbInv(d, T) /\ d.ready
    BY <1>1, <1>2, <2>2, <2>3, <2>4, <2>5, ProbeStarts
  <2>7. d.state # 1
    BY <2>6 DEF PcbInv
  <2> QED BY <1>2, <2>6, <2>7
<1>3. CASE n.ready /\ n.state \in 6 .. 8 /\ k \in DOMAIN n.queue
  <2> DEFINE p == n.queue[k]
             says == p.answers \cup S \cup H
             r == [p EXCEPT !.answers = says]
             q == [n.queue EXCEPT ![k] = r]
  <2>2. d = Requeue(n, q, 6)
    <3>1. d = [n EXCEPT !.queue[k].answers = @ \cup S \cup H, !.state = 6]
      <4>1. /\ n.ready /\ n.state \notin Responder!PROBING
            /\ n.state \in Responder!ANNOUNCING /\ n.state # Responder!RUNNING
        BY <1>3 DEF Responder!PROBING, Responder!PROBE_1, Responder!PROBE_3,
           Responder!ANNOUNCING, Responder!ANNOUNCE_1, Responder!ANNOUNCE_3, Responder!RUNNING
      <4>2. Responder!ANNOUNCE_1 = 6
        BY DEF Responder!ANNOUNCE_1
      <4> HIDE DEF H
      <4>3. d = [n EXCEPT !.queue[k].answers = @ \cup S \cup Responder!HostIf(include_ip),
                          !.state = Responder!ANNOUNCE_1]
        BY <1>3, <4>1 DEF Responder!pcb_announce
      <4> QED BY <4>2, <4>3 DEF H
    <3> QED BY <3>1 DEF Requeue
  <2>3. /\ n.queue \in Seq(Messages) /\ p \in Messages /\ Statement(p, n)
        /\ \A m \in DOMAIN n.queue : Statement(n.queue[m], n)
    <3>1. n.queue \in Seq(Messages) /\ \A m \in DOMAIN n.queue : Statement(n.queue[m], n)
      BY <1>1, <1>3 DEF PcbInv, Pcbs
    <3> QED BY <1>3, <3>1, ElementOfSeq
  <2>4. T \cup {OwnHost} \subseteq n.claimed \cup n.dropped
    BY <1>3, AllAccounted
  <2>5. says \in SUBSET Announced /\ says \subseteq n.claimed \cup n.dropped
    BY <1>1, <2>3, <2>4 DEF Statement, Messages
  <2>6. p.answers \subseteq says /\ r = [p EXCEPT !.answers = says]
    OBVIOUS
  <2> HIDE DEF p, says, r
  <2>7. /\ r.asks = p.asks /\ r.servers = p.servers /\ r.answers = says
        /\ r.unicast = p.unicast /\ r.probes = p.probes /\ r \in Messages
    BY <2>3, <2>5, <2>6 DEF Messages
  <2>8. Statement(r, n)
    BY <2>3, <2>5, <2>6, <2>7 DEF Statement
  <2>9. /\ q \in Seq(Messages) /\ q # <<>> /\ \A m \in DOMAIN q : Statement(q[m], n)
    BY <1>3, <2>3, <2>7, <2>8
  <2> HIDE DEF q
  <2> HIDE DEF d
  <2> DEFINE st == 6
  <2>12. st \in 6 .. 9 /\ st # 9 /\ st = 6
    OBVIOUS
  <2> HIDE DEF st
  <2>10. st \in 6 .. 9 /\ n.ready /\ n.state \notin 3 .. 5 /\ PcbInv(n, T)
    BY <1>3, <2>12
  <2>11. PcbInv(d, T) /\ d.ready /\ d.state = 6
    <3>1. /\ PcbInv(Requeue(n, q, st), T)
          /\ Requeue(n, q, st).ready
          /\ Requeue(n, q, st).state = st
      BY <1>3, <2>9, <2>10, <2>12, Requeued
    <3> QED BY <2>2, <2>12, <3>1
  <2> QED BY <1>3, <2>11
<1>4. CASE n.ready /\ n.state = 9 /\ host_named
  <2> DEFINE p == [asks |-> {}, servers |-> H, answers |-> S, unicast |-> FALSE, probes |-> 0]
             q == Append(n.queue, p)
  <2>2. d = Requeue(n, q, 6)
    BY <1>4 DEF Responder!pcb_announce, Responder!PROBING, Responder!PROBE_1,
       Responder!PROBE_3, Responder!ANNOUNCING, Responder!ANNOUNCE_1, Responder!ANNOUNCE_3,
       Responder!RUNNING, Responder!Packet, Requeue
  <2>3. T \cup {OwnHost} \subseteq n.claimed \cup n.dropped
    BY <1>4, AllAccounted
  <2>4. p \in Messages /\ Statement(p, n)
    BY <1>1, <2>3 DEF Messages, Statement
  <2>5. n.queue \in Seq(Messages) /\ \A m \in DOMAIN n.queue : Statement(n.queue[m], n)
    BY <1>1, <1>4 DEF PcbInv, Pcbs
  <2> HIDE DEF p
  <2>6. q \in Seq(Messages) /\ q # <<>> /\ \A m \in DOMAIN q : Statement(q[m], n)
    BY <2>4, <2>5, StatementsExtended
  <2> HIDE DEF q
  <2> HIDE DEF d
  <2> DEFINE st == 6
  <2>9. st \in 6 .. 9 /\ st # 9 /\ st = 6
    OBVIOUS
  <2> HIDE DEF st
  <2>7. st \in 6 .. 9 /\ n.ready /\ n.state \notin 3 .. 5 /\ PcbInv(n, T)
    BY <1>4, <2>9
  <2>8. PcbInv(d, T) /\ d.ready /\ d.state = 6
    <3>1. /\ PcbInv(Requeue(n, q, st), T)
          /\ Requeue(n, q, st).ready
          /\ Requeue(n, q, st).state = st
      BY <1>4, <2>6, <2>7, <2>9, Requeued
    <3> QED BY <2>2, <2>9, <3>1
  <2> QED BY <1>4, <2>8
<1>5. CASE ~ (n.ready /\ n.state \in 3 .. 5)
           /\ ~ (n.ready /\ n.state \in 6 .. 8 /\ k \in DOMAIN n.queue)
           /\ ~ (n.ready /\ n.state = 9 /\ host_named)
  <2>1. d = n
    BY <1>5 DEF Responder!pcb_announce, Responder!PROBING, Responder!PROBE_1,
       Responder!PROBE_3, Responder!ANNOUNCING, Responder!ANNOUNCE_1, Responder!ANNOUNCE_3,
       Responder!RUNNING
  <2> QED BY <2>1
<1> HIDE DEF Goal
<1> QED BY <1>2, <1>3, <1>4, <1>5

(* The packets that are left when one has gone out.                        *)
LEMMA RestOfQueue ==
  ASSUME NEW q \in Seq(Messages), NEW k \in DOMAIN q, NEW n,
         \A m \in DOMAIN q : Statement(q[m], n)
  PROVE  LET rest == SubSeq(q, 1, k - 1) \o SubSeq(q, k + 1, Len(q))
         IN  /\ rest \in Seq(Messages)
             /\ \A m \in DOMAIN rest : Statement(rest[m], n)
<1> DEFINE before == SubSeq(q, 1, k - 1)
           after == SubSeq(q, k + 1, Len(q))
           rest == before \o after
<1>1. k \in 1 .. Len(q) /\ Len(q) \in Nat /\ DOMAIN q = 1 .. Len(q)
  BY LenProperties
<1>2. /\ before \in Seq(Messages) /\ Len(before) = k - 1
      /\ \A m \in 1 .. k - 1 : before[m] = q[m]
  BY <1>1, SubSeqProperties
<1>3. /\ after \in Seq(Messages) /\ Len(after) = Len(q) - k
      /\ \A m \in 1 .. Len(q) - k : after[m] = q[k + m]
  BY <1>1, SubSeqProperties
<1> HIDE DEF before, after
<1>4. /\ rest \in Seq(Messages) /\ Len(rest) = Len(before) + Len(after)
      /\ \A m \in 1 .. Len(before) + Len(after) :
           rest[m] = IF m <= Len(before) THEN before[m] ELSE after[m - Len(before)]
  BY <1>2, <1>3, ConcatProperties
<1> HIDE DEF rest
<1>5. Len(before) + Len(after) = Len(q) - 1
  BY <1>1, <1>2, <1>3
<1>6. /\ rest \in Seq(Messages) /\ Len(rest) = Len(q) - 1 /\ DOMAIN rest = 1 .. Len(q) - 1
      /\ \A m \in 1 .. Len(q) - 1 :
           rest[m] = IF m <= k - 1 THEN before[m] ELSE after[m - (k - 1)]
  BY <1>2, <1>4, <1>5, LenProperties
<1>7. ASSUME NEW m \in 1 .. Len(q) - 1
      PROVE  Statement(rest[m], n)
  <2>1. CASE m <= k - 1
    <3>1. m \in 1 .. k - 1 /\ m \in 1 .. Len(q)
      BY <1>1, <2>1
    <3>2. rest[m] = before[m] /\ before[m] = q[m]
      BY <1>2, <1>6, <2>1, <3>1
    <3> QED BY <1>1, <3>1, <3>2
  <2>2. CASE ~ (m <= k - 1)
    <3>1. m - (k - 1) \in 1 .. Len(q) - k /\ k + (m - (k - 1)) = m + 1 /\ m + 1 \in 1 .. Len(q)
      BY <1>1, <2>2
    <3>2. rest[m] = q[m + 1]
      BY <1>3, <1>6, <2>2, <3>1
    <3> QED BY <1>1, <3>1, <3>2
  <2> QED BY <2>1, <2>2
<1> QED BY <1>6, <1>7 DEF before, after, rest

(* A probe that is not the last one: it is to be sent again.               *)
LEMMA ProbedAgain ==
  ASSUME NEW n, NEW T, PcbInv(n, T), n.state \in 3 .. 4, NEW d,
         d = [n EXCEPT !.queue = <<[n.queue[1] EXCEPT !.probes = @ + 1]>>, !.state = @ + 1]
  PROVE  PcbInv(d, T) /\ d.ready /\ d.state # 1
<1> DEFINE p == n.queue[1]
           r == [p EXCEPT !.probes = @ + 1]
           q == <<r>>
           s == n.state + 1
<1>1. /\ n \in Pcbs /\ n.ready /\ n.queue = <<Question(n)>> /\ Sought(n) # {}
      /\ n.probing \subseteq T /\ T \cup {OwnHost} \subseteq Accounted(n)
  BY DEF PcbInv
<1>2. n.queue \in Seq(Messages) /\ DOMAIN n.queue = 1 .. 1 /\ p = Question(n)
  <2>1. n.queue \in Seq(Messages)
    BY <1>1 DEF Pcbs
  <2> HIDE DEF p
  <2>2. DOMAIN <<Question(n)>> = 1 .. 1 /\ <<Question(n)>>[1] = Question(n)
    OBVIOUS
  <2> QED BY <1>1, <2>1, <2>2 DEF p
<1>3. p \in Messages
  BY <1>2, ElementOfSeq
<1>4. /\ r.asks = Sought(n) /\ r.servers = Sought(n) /\ r.answers = {} /\ r.unicast = FALSE
      /\ r.probes = s - 3 /\ r \in Messages
      /\ r = [asks |-> Sought(n), servers |-> Sought(n), answers |-> {}, unicast |-> FALSE,
              probes |-> s - 3]
  <2> HIDE DEF p
  <2>1. /\ p.asks = Sought(n) /\ p.servers = Sought(n) /\ p.answers = {} /\ p.unicast = FALSE
        /\ p.probes = n.state - 3
    BY <1>2 DEF Question
  <2>2. p.probes + 1 = s - 3 /\ s - 3 \in Nat
    BY <2>1
  <2>3. r = [p EXCEPT !.probes = s - 3]
    BY <2>2
  <2> HIDE DEF r, s
  <2>4. /\ r.asks = p.asks /\ r.servers = p.servers /\ r.answers = p.answers
        /\ r.unicast = p.unicast /\ r.probes = s - 3
        /\ r = [asks |-> r.asks, servers |-> r.servers, answers |-> r.answers,
                unicast |-> r.unicast, probes |-> r.probes]
    BY <1>3, <2>3 DEF Messages
  <2>5. r \in Messages
    BY <1>3, <2>2, <2>4 DEF Messages
  <2> QED BY <2>1, <2>4, <2>5
<1>5. s \in 4 .. 5
  OBVIOUS
<1>6. d = [n EXCEPT !.queue = q, !.state = s]
  OBVIOUS
<1>7. q = <<r>> /\ q \in Seq(Messages)
  BY <1>4
<1> HIDE DEF p, r, q, s
<1>8. /\ d.ready = n.ready /\ d.state = s /\ d.probing = n.probing /\ d.ip = n.ip
      /\ d.queue = q
      /\ d.claimed = n.claimed /\ d.told = n.told /\ d.dropped = n.dropped
      /\ d = [ready |-> d.ready, state |-> d.state, probing |-> d.probing, ip |-> d.ip,
              queue |-> d.queue, claimed |-> d.claimed, told |-> d.told, dropped |-> d.dropped]
  BY <1>1, <1>6 DEF Pcbs
<1>9. d \in Pcbs
  <2>1. d.ready \in BOOLEAN
    BY <1>1, <1>8 DEF Pcbs
  <2>2. d.ip \in BOOLEAN
    BY <1>1, <1>8 DEF Pcbs
  <2>3. d.state \in {0, 1} \cup 3 .. 9
    BY <1>5, <1>8
  <2>4. d.probing \in SUBSET Offered /\ d.queue \in Seq(Messages)
    BY <1>1, <1>7, <1>8 DEF Pcbs
  <2>5. d.claimed \in SUBSET Announced /\ d.told \in SUBSET Announced
        /\ d.dropped \in SUBSET Announced
    BY <1>1, <1>8 DEF Pcbs
  <2> QED BY <1>8, <2>1, <2>2, <2>3, <2>4, <2>5 DEF Pcbs
<1>10. Sought(d) = Sought(n)
  BY <1>8 DEF Sought
<1>11. Accounted(d) = Accounted(n) /\ d.queue = <<Question(d)>>
  BY <1>4, <1>7, <1>8, <1>10 DEF Accounted, Question
<1>12. d.ready /\ d.state \in 4 .. 5
  BY <1>1, <1>5, <1>8
<1> QED BY <1>1, <1>8, <1>9, <1>10, <1>11, <1>12 DEF PcbInv

(* The third probe: what it asks for is announced.                         *)
LEMMA ProbingDone ==
  ASSUME NEW n, NEW T \in SUBSET Offered, PcbInv(n, T), n.state = 5, NEW d,
         d = [n EXCEPT !.queue = <<Responder!Packet({}, {}, Sought(n) \cup {OwnHost}, FALSE)>>,
                       !.state = 6, !.probing = {}, !.ip = FALSE,
                       !.claimed = @ \cup Sought(n)]
  PROVE  PcbInv(d, T) /\ d.ready /\ d.state # 1
<1> DEFINE p == Responder!Packet({}, {}, Sought(n) \cup {OwnHost}, FALSE)
           q == <<p>>
           c == n.claimed \cup Sought(n)
<1>1. n \in Pcbs /\ n.ready /\ T \cup {OwnHost} \subseteq Accounted(n)
  BY DEF PcbInv
<1>2. c \in SUBSET Announced /\ Sought(n) \subseteq Announced /\ OwnHost \in Announced
  BY <1>1 DEF Pcbs, Announced, Sought, Responder!HostIf
<1>3. /\ p.asks = {} /\ p.servers = {} /\ p.answers = Sought(n) \cup {OwnHost}
      /\ p \in Messages
  BY <1>2 DEF Responder!Packet, Messages
<1>4. T \cup {OwnHost} \subseteq c \cup n.dropped
  BY <1>1 DEF Accounted
<1>5. d = [n EXCEPT !.queue = q, !.state = 6, !.probing = {}, !.ip = FALSE, !.claimed = c]
  OBVIOUS
<1> HIDE DEF p
<1>6. q = <<p>> /\ q \in Seq(Messages) /\ Sought(n) \subseteq c
  BY <1>3
<1> HIDE DEF q, c
<1>7. /\ d.ready = n.ready /\ d.state = 6 /\ d.probing = {} /\ d.ip = FALSE
      /\ d.queue = q
      /\ d.claimed = c /\ d.told = n.told /\ d.dropped = n.dropped
      /\ d = [ready |-> d.ready, state |-> d.state, probing |-> d.probing, ip |-> d.ip,
              queue |-> d.queue, claimed |-> d.claimed, told |-> d.told, dropped |-> d.dropped]
  BY <1>1, <1>5 DEF Pcbs
<1>8. d \in Pcbs
  <2>1. d.ready \in BOOLEAN
    BY <1>1, <1>7 DEF Pcbs
  <2>2. d.ip \in BOOLEAN
    BY <1>7
  <2>3. d.state \in {0, 1} \cup 3 .. 9
    BY <1>7
  <2>4. d.probing \in SUBSET Offered /\ d.queue \in Seq(Messages)
    BY <1>6, <1>7
  <2>5. d.claimed \in SUBSET Announced /\ d.told \in SUBSET Announced
        /\ d.dropped \in SUBSET Announced
    BY <1>1, <1>2, <1>7 DEF Pcbs
  <2> QED BY <1>7, <2>1, <2>2, <2>3, <2>4, <2>5 DEF Pcbs
<1>9. \A k \in DOMAIN d.queue : Statement(d.queue[k], d)
  <2>1. Statement(p, d)
    BY <1>3, <1>4, <1>6, <1>7 DEF Statement
  <2> QED BY <1>6, <1>7, <2>1
<1>10. T \cup {OwnHost} \subseteq Accounted(d)
  BY <1>4, <1>7 DEF Accounted
<1>11. /\ d.ready /\ ~ d.ip /\ d.queue # <<>>
       /\ d.state \notin {0, 1} /\ d.state \notin 3 .. 5
  BY <1>1, <1>6, <1>7
<1> QED BY <1>7, <1>8, <1>9, <1>10, <1>11 DEF PcbInv

(* mdns_pcb_schedule_tx_packet, whatever the state it finds.               *)
LEMMA SchedulingKeeps ==
  ASSUME NEW n, NEW T \in SUBSET Offered, PcbInv(n, T), NEW k \in DOMAIN n.queue
  PROVE  LET d == Responder!schedule_tx_packet(n, k)
         IN  PcbInv(d, T) /\ n.ready /\ d.ready /\ d.state # 1
<1> DEFINE d == Responder!schedule_tx_packet(n, k)
           p == n.queue[k]
           rest == SubSeq(n.queue, 1, k - 1) \o SubSeq(n.queue, k + 1, Len(n.queue))
           Goal == PcbInv(d, T) /\ n.ready /\ d.ready /\ d.state # 1
<1> SUFFICES Goal
  OBVIOUS
<1>1. /\ n \in Pcbs /\ n.state \in 3 .. 9 /\ n.ready /\ n.queue \in Seq(Messages)
      /\ p \in Messages
  <2>1. n.queue # <<>> /\ n \in Pcbs
    BY DEF PcbInv
  <2>2. n.state \in {0, 1} \cup 3 .. 9 /\ n.queue \in Seq(Messages)
    BY <2>1 DEF Pcbs
  <2>3. n.state \notin {0, 1} /\ n.ready
    BY <2>1 DEF PcbInv
  <2> QED BY <2>1, <2>2, <2>3, ElementOfSeq
<1>2. ASSUME n.state \in 3 .. 5
      PROVE  k = 1 /\ p = Question(n) /\ rest = <<>> /\ Sought(n) # {}
  <2>1. n.queue = <<Question(n)>> /\ Sought(n) # {}
    BY <1>2 DEF PcbInv
  <2>2. /\ DOMAIN <<Question(n)>> = 1 .. 1 /\ <<Question(n)>>[1] = Question(n)
        /\ Len(<<Question(n)>>) = 1
    OBVIOUS
  <2>3. k = 1 /\ p = Question(n) /\ Len(n.queue) = 1
    BY <2>1, <2>2
  <2>4. rest = SubSeq(n.queue, 1, 0) \o SubSeq(n.queue, 2, 1)
    BY <2>3
  <2>5. SubSeq(n.queue, 1, 0) = <<>> /\ SubSeq(n.queue, 2, 1) = <<>>
    BY <1>1
  <2> QED BY <2>1, <2>3, <2>4, <2>5
<1>3. CASE n.state \in 3 .. 4
  <2>1. /\ n.state \in {Responder!PROBE_1, Responder!PROBE_1 + 1} /\ n.state # Responder!PROBE_3
        /\ n.state \notin {Responder!ANNOUNCE_1, Responder!ANNOUNCE_1 + 1}
        /\ n.state # Responder!ANNOUNCE_3
    BY <1>3 DEF Responder!PROBE_1, Responder!PROBE_3, Responder!ANNOUNCE_1, Responder!ANNOUNCE_3
  <2>2. d = [n EXCEPT !.queue = Append(rest, [p EXCEPT !.probes = @ + 1]), !.state = @ + 1]
    BY <2>1 DEF Responder!schedule_tx_packet, Responder!Rest
  <2>3. rest = <<>> /\ p = n.queue[1]
    BY <1>2, <1>3
  <2> HIDE DEF d, rest, p
  <2>4. d = [n EXCEPT !.queue = <<[n.queue[1] EXCEPT !.probes = @ + 1]>>, !.state = @ + 1]
    BY <2>2, <2>3
  <2>5. PcbInv(d, T) /\ d.ready /\ d.state # 1
    BY <1>3, <2>4, ProbedAgain
  <2> QED BY <1>1, <2>5
<1>4. CASE n.state = 5
  <2>1. /\ n.state \notin {Responder!PROBE_1, Responder!PROBE_1 + 1} /\ n.state = Responder!PROBE_3
        /\ n.state \notin {Responder!ANNOUNCE_1, Responder!ANNOUNCE_1 + 1}
        /\ n.state # Responder!ANNOUNCE_3 /\ Responder!ANNOUNCE_1 = 6
    BY <1>4 DEF Responder!PROBE_1, Responder!PROBE_3, Responder!ANNOUNCE_1, Responder!ANNOUNCE_3
  <2> DEFINE told_of == p.servers \cup (IF p.servers = {} THEN {} ELSE {OwnHost})
             sought == IF p.probes = 2 THEN p.asks ELSE {}
  <2>2. d = [n EXCEPT !.queue = Append(rest, Responder!Packet({}, {}, told_of, FALSE)),
                      !.state = 6, !.probing = {}, !.ip = FALSE, !.claimed = @ \cup sought]
    BY <2>1 DEF Responder!schedule_tx_packet, Responder!Rest
  <2>3. rest = <<>> /\ told_of = Sought(n) \cup {OwnHost} /\ sought = Sought(n)
    <3>1. rest = <<>> /\ p = Question(n) /\ Sought(n) # {}
      BY <1>2, <1>4
    <3>2. p.servers = Sought(n) /\ p.asks = Sought(n) /\ p.probes = 2
      <4> HIDE DEF p
      <4> QED BY <1>4, <3>1 DEF Question
    <3> HIDE DEF p, rest
    <3> QED BY <3>1, <3>2
  <2> HIDE DEF d, rest, p, told_of, sought
  <2>4. d = [n EXCEPT !.queue = <<Responder!Packet({}, {}, Sought(n) \cup {OwnHost}, FALSE)>>,
                      !.state = 6, !.probing = {}, !.ip = FALSE, !.claimed = @ \cup Sought(n)]
    BY <2>2, <2>3
  <2>5. PcbInv(d, T) /\ d.ready /\ d.state # 1
    BY <1>4, <2>4, ProbingDone
  <2> QED BY <1>1, <2>5
<1>5. ASSUME n.state \in 6 .. 9
      PROVE  /\ rest \in Seq(Messages) /\ \A m \in DOMAIN rest : Statement(rest[m], n)
             /\ Statement(p, n)
  <2>1. \A m \in DOMAIN n.queue : Statement(n.queue[m], n)
    BY <1>5 DEF PcbInv
  <2> QED BY <1>1, <2>1, RestOfQueue
<1>6. CASE n.state \in 6 .. 7
  <2> DEFINE s == n.state + 1
             q == Append(rest, p)
  <2>1. /\ n.state \notin {Responder!PROBE_1, Responder!PROBE_1 + 1} /\ n.state # Responder!PROBE_3
        /\ n.state \in {Responder!ANNOUNCE_1, Responder!ANNOUNCE_1 + 1}
        /\ n.state # Responder!ANNOUNCE_3
    BY <1>6 DEF Responder!PROBE_1, Responder!PROBE_3, Responder!ANNOUNCE_1, Responder!ANNOUNCE_3
  <2>2. d = [n EXCEPT !.queue = q, !.state = s]
    BY <2>1 DEF Responder!schedule_tx_packet, Responder!Rest
  <2>3. s \in 6 .. 9 /\ s # 1 /\ n.state \notin 3 .. 5
    BY <1>6
  <2> HIDE DEF d, rest, p, s
  <2>4. q \in Seq(Messages) /\ q # <<>> /\ \A m \in DOMAIN q : Statement(q[m], n)
    BY <1>1, <1>5, <1>6, StatementsExtended
  <2> HIDE DEF q
  <2>5. PcbInv(Requeue(n, q, s), T) /\ Requeue(n, q, s).ready /\ Requeue(n, q, s).state = s
    BY <1>1, <2>3, <2>4, Requeued
  <2> QED BY <1>1, <2>2, <2>3, <2>5 DEF Requeue
<1>7. CASE n.state \in 8 .. 9
  <2> DEFINE s == 9
  <2>1. /\ n.state \notin {Responder!PROBE_1, Responder!PROBE_1 + 1} /\ n.state # Responder!PROBE_3
        /\ n.state \notin {Responder!ANNOUNCE_1, Responder!ANNOUNCE_1 + 1}
        /\ (n.state = 8 <=> n.state = Responder!ANNOUNCE_3) /\ Responder!RUNNING = s
    BY <1>7 DEF Responder!PROBE_1, Responder!PROBE_3, Responder!ANNOUNCE_1, Responder!ANNOUNCE_3,
       Responder!RUNNING
  <2>2. d = [n EXCEPT !.queue = rest, !.state = s]
    <3>1. CASE n.state = 8
      BY <2>1, <3>1 DEF Responder!schedule_tx_packet, Responder!Rest
    <3>2. CASE n.state = 9
      <4>1. d = [n EXCEPT !.queue = rest]
        BY <2>1, <3>2 DEF Responder!schedule_tx_packet, Responder!Rest
      <4> HIDE DEF d, rest
      <4>2. [n EXCEPT !.queue = rest] = [n EXCEPT !.queue = rest, !.state = s]
        BY <1>1, <3>2 DEF Pcbs
      <4> QED BY <4>1, <4>2
    <3> QED BY <1>7, <3>1, <3>2
  <2>3. s \in 6 .. 9 /\ s # 1 /\ n.state \notin 3 .. 5 /\ s = 9
    BY <1>7
  <2> HIDE DEF d, rest, s
  <2>4. PcbInv(Requeue(n, rest, s), T) /\ Requeue(n, rest, s).ready /\ Requeue(n, rest, s).state = s
    <3>1. n.state \in 6 .. 9
      BY <1>7
    <3>2. rest \in Seq(Messages) /\ \A m \in DOMAIN rest : Statement(rest[m], n)
      BY <1>5, <3>1
    <3> QED BY <1>1, <2>3, <3>2, Requeued
  <2> QED BY <1>1, <2>2, <2>3, <2>4 DEF Requeue
<1>8. n.state \in 3 .. 4 \/ n.state = 5 \/ n.state \in 6 .. 7 \/ n.state \in 8 .. 9
  BY <1>1
<1> HIDE DEF Goal
<1> QED BY <1>3, <1>4, <1>6, <1>7, <1>8

(* What is given up is claimed no longer.                                  *)
LEMMA Forgetting ==
  ASSUME NEW n \in Pcbs, NEW X
  PROVE  LET d == Responder!Forget(n, X)
         IN  /\ d \in Pcbs /\ d.ready = n.ready /\ d.state = n.state /\ d.probing = n.probing
             /\ d.ip = n.ip /\ d.queue = n.queue
             /\ d.claimed = n.claimed \ X /\ d.dropped = n.dropped \ X
<1> DEFINE c == n.claimed \ X
           t == n.told \ X
           f == n.dropped \ X
           d == Responder!Forget(n, X)
<1>1. d = [n EXCEPT !.claimed = c, !.told = t, !.dropped = f]
  BY DEF Responder!Forget
<1>2. c \in SUBSET Announced /\ t \in SUBSET Announced /\ f \in SUBSET Announced
  BY DEF Pcbs
<1> HIDE DEF c, t, f, d
<1>3. /\ d.ready = n.ready /\ d.state = n.state /\ d.probing = n.probing /\ d.ip = n.ip
      /\ d.queue = n.queue /\ d.claimed = c /\ d.told = t /\ d.dropped = f
      /\ d = [ready |-> d.ready, state |-> d.state, probing |-> d.probing, ip |-> d.ip,
              queue |-> d.queue, claimed |-> d.claimed, told |-> d.told, dropped |-> d.dropped]
  BY <1>1 DEF Pcbs
<1>4. d \in Pcbs
  <2>1. d.ready \in BOOLEAN
    BY <1>3 DEF Pcbs
  <2>2. d.ip \in BOOLEAN
    BY <1>3 DEF Pcbs
  <2>3. d.state \in {0, 1} \cup 3 .. 9
    BY <1>3 DEF Pcbs
  <2>4. d.probing \in SUBSET Offered /\ d.queue \in Seq(Messages)
    BY <1>3 DEF Pcbs
  <2>5. d.claimed \in SUBSET Announced /\ d.told \in SUBSET Announced
        /\ d.dropped \in SUBSET Announced
    BY <1>2, <1>3
  <2> QED BY <1>3, <2>1, <2>2, <2>3, <2>4, <2>5 DEF Pcbs
<1> QED BY <1>3, <1>4 DEF c, t, f, d

(* What an interface is to be sure of before it probes, whoever is named.  *)
Sane(n, T) ==
  /\ n \in Pcbs
  /\ n.ready <=> n.state \notin {0, 1}
  /\ n.probing \subseteq T
  /\ ~ n.ready => n.queue = <<>> /\ n.probing = {} /\ ~ n.ip

LEMMA OffIsSound ==
  ASSUME NEW n, NEW T, Sane(n, T), ~ n.ready
  PROVE  PcbInv(n, T) /\ SilentInv(n)
<1>1. n \in Pcbs /\ n.state \in {0, 1} /\ n.queue = <<>> /\ n.probing = {} /\ ~ n.ip
  BY DEF Sane
<1>2. n.state \notin 3 .. 5 /\ n.state \notin 6 .. 8
  BY <1>1
<1>3. \A k \in DOMAIN n.queue : Statement(n.queue[k], n)
  BY <1>1
<1> QED BY <1>1, <1>2, <1>3 DEF PcbInv, SilentInv

LEMMA SoundIsSane ==
  ASSUME NEW n, NEW T, PcbInv(n, T) \/ SilentInv(n)
  PROVE  Sane(n, T)
<1>1. CASE PcbInv(n, T)
  <2>1. n \in Pcbs /\ (n.ready <=> n.state \notin {0, 1})
    BY <1>1 DEF PcbInv
  <2>2. n.probing \subseteq T
    BY <1>1 DEF PcbInv
  <2>3. ASSUME ~ n.ready PROVE n.queue = <<>> /\ n.probing = {} /\ ~ n.ip
    <3>1. n.state \in {0, 1}
      BY <2>1, <2>3
    <3>2. n.state \notin 3 .. 5
      BY <3>1
    <3> QED BY <1>1, <3>1, <3>2 DEF PcbInv
  <2> QED BY <2>1, <2>2, <2>3 DEF Sane
<1>2. CASE SilentInv(n)
  BY <1>2 DEF SilentInv, Sane
<1> QED BY <1>1, <1>2

AllRestarted(after, all, T) ==
  /\ DOMAIN after = Netifs
  /\ \A i \in Netifs :
       /\ PcbInv(after[i], T) /\ (after[i].ready <=> all[i].ready)
       /\ after[i].state = 1 => all[i].state = 1

Anew(n) == [n EXCEPT !.probing = {}]

LEMMA Renewed ==
  ASSUME NEW n \in Pcbs
  PROVE  /\ Anew(n) \in Pcbs /\ Anew(n).ready = n.ready /\ Anew(n).state = n.state
         /\ Anew(n).probing = {} /\ Anew(n).ip = n.ip
         /\ Anew(n).claimed = n.claimed /\ Anew(n).dropped = n.dropped
<1> DEFINE d == Anew(n)
<1>1. d = [n EXCEPT !.probing = {}]
  BY DEF Anew
<1> HIDE DEF d
<1>2. /\ d.ready = n.ready /\ d.state = n.state /\ d.probing = {} /\ d.ip = n.ip
      /\ d.queue = n.queue
      /\ d.claimed = n.claimed /\ d.told = n.told /\ d.dropped = n.dropped
      /\ d = [ready |-> d.ready, state |-> d.state, probing |-> d.probing, ip |-> d.ip,
              queue |-> d.queue, claimed |-> d.claimed, told |-> d.told, dropped |-> d.dropped]
  BY <1>1 DEF Pcbs
<1>3. d \in Pcbs
  <2>1. d.ready \in BOOLEAN
    BY <1>2 DEF Pcbs
  <2>2. d.ip \in BOOLEAN
    BY <1>2 DEF Pcbs
  <2>3. d.state \in {0, 1} \cup 3 .. 9
    BY <1>2 DEF Pcbs
  <2>4. d.probing \in SUBSET Offered /\ d.queue \in Seq(Messages)
    BY <1>2 DEF Pcbs
  <2>5. d.claimed \in SUBSET Announced /\ d.told \in SUBSET Announced
        /\ d.dropped \in SUBSET Announced
    BY <1>2 DEF Pcbs
  <2> QED BY <1>2, <2>1, <2>2, <2>3, <2>4, <2>5 DEF Pcbs
<1> QED BY <1>2, <1>3 DEF d

(* mdns_priv_probe_all_pcbs with the old probe cleared, and without.       *)
LEMMA AllProbeAnew ==
  ASSUME NEW T \in SUBSET Offered, NEW S \in SUBSET T, NEW probe_ip \in BOOLEAN, NEW all,
         \A i \in Netifs :
           /\ Sane(all[i], T)
           /\ all[i].ready =>
                /\ S # {} \/ all[i].ip \/ probe_ip
                /\ T \subseteq all[i].claimed \cup all[i].dropped \cup S
                /\ OwnHost \in all[i].claimed \cup all[i].dropped \/ all[i].ip \/ probe_ip
  PROVE  AllRestarted(Responder!probe_all_pcbs(TRUE, all, S, probe_ip, TRUE), all, T)
<1> DEFINE after == Responder!probe_all_pcbs(TRUE, all, S, probe_ip, TRUE)
<1>1. after = [i \in Netifs |-> IF ~ all[i].ready THEN all[i]
                ELSE Responder!init_pcb_probe(TRUE, Anew(all[i]), S, probe_ip)]
  BY DEF Responder!probe_all_pcbs, Anew
<1> HIDE DEF after
<1>2. ASSUME NEW i \in Netifs
      PROVE  /\ PcbInv(after[i], T) /\ (after[i].ready <=> all[i].ready)
             /\ after[i].state = 1 => all[i].state = 1
  <2>1. CASE ~ all[i].ready
    <3>1. after[i] = all[i]
      BY <1>1, <2>1
    <3>2. PcbInv(all[i], T)
      BY <2>1, OffIsSound
    <3> QED BY <3>1, <3>2
  <2>2. CASE all[i].ready
    <3> DEFINE n == Anew(all[i])
    <3>1. after[i] = Responder!init_pcb_probe(TRUE, n, S, probe_ip)
      BY <1>1, <2>2
    <3>2. all[i] \in Pcbs
      BY DEF Sane
    <3>3. /\ n \in Pcbs /\ n.ready = all[i].ready /\ n.probing = {} /\ n.ip = all[i].ip
          /\ n.claimed = all[i].claimed /\ n.dropped = all[i].dropped
      BY <3>2, Renewed
    <3> HIDE DEF n
    <3>4. n.ready /\ n.probing \subseteq T /\ (n.ip <=> all[i].ip)
      BY <2>2, <3>3
    <3>5. S \cup n.probing # {} \/ n.ip \/ probe_ip
      BY <2>2, <3>3, <3>4
    <3>6. T \subseteq n.claimed \cup n.dropped \cup S \cup n.probing
      BY <2>2, <3>3
    <3>7. OwnHost \in n.claimed \cup n.dropped \/ n.ip \/ probe_ip
      BY <2>2, <3>3, <3>4
    <3>8. PcbInv(after[i], T) /\ after[i].ready
      BY <3>1, <3>3, <3>4, <3>5, <3>6, <3>7, ProbeStarts
    <3>9. after[i].state # 1
      BY <3>8 DEF PcbInv
    <3> QED BY <2>2, <3>8, <3>9
  <2> QED BY <2>1, <2>2
<1>3. DOMAIN after = Netifs
  BY <1>1
<1>4. AllRestarted(after, all, T)
  BY <1>2, <1>3 DEF AllRestarted
<1> QED BY <1>4 DEF after

LEMMA AllProbeToo ==
  ASSUME NEW T \in SUBSET Offered, NEW S \in SUBSET T, S # {}, NEW all,
         \A i \in Netifs :
           /\ Sane(all[i], T)
           /\ all[i].ready =>
                /\ T \subseteq all[i].claimed \cup all[i].dropped \cup S \cup all[i].probing
                /\ OwnHost \in all[i].claimed \cup all[i].dropped \/ all[i].ip
  PROVE  AllRestarted(Responder!probe_all_pcbs(TRUE, all, S, FALSE, FALSE), all, T)
<1> DEFINE after == Responder!probe_all_pcbs(TRUE, all, S, FALSE, FALSE)
<1>1. after = [i \in Netifs |-> IF ~ all[i].ready THEN all[i]
                ELSE Responder!init_pcb_probe(TRUE, all[i], S, FALSE)]
  BY DEF Responder!probe_all_pcbs
<1> HIDE DEF after
<1>2. ASSUME NEW i \in Netifs
      PROVE  /\ PcbInv(after[i], T) /\ (after[i].ready <=> all[i].ready)
             /\ after[i].state = 1 => all[i].state = 1
  <2>1. CASE ~ all[i].ready
    <3>1. after[i] = all[i]
      BY <1>1, <2>1
    <3>2. PcbInv(all[i], T)
      BY <2>1, OffIsSound
    <3> QED BY <3>1, <3>2
  <2>2. CASE all[i].ready
    <3>1. after[i] = Responder!init_pcb_probe(TRUE, all[i], S, FALSE)
      BY <1>1, <2>2
    <3>2. /\ all[i] \in Pcbs /\ all[i].probing \subseteq T
          /\ T \subseteq all[i].claimed \cup all[i].dropped \cup S \cup all[i].probing
          /\ OwnHost \in all[i].claimed \cup all[i].dropped \/ all[i].ip \/ FALSE
          /\ S \cup all[i].probing # {} \/ all[i].ip \/ FALSE
      BY <2>2 DEF Sane
    <3>3. FALSE \in BOOLEAN
      OBVIOUS
    <3>8. PcbInv(after[i], T) /\ after[i].ready
      BY <2>2, <3>1, <3>2, <3>3, ProbeStarts
    <3>9. after[i].state # 1
      BY <3>8 DEF PcbInv
    <3> QED BY <2>2, <3>8, <3>9
  <2> QED BY <2>1, <2>2
<1>3. DOMAIN after = Netifs
  BY <1>1
<1>4. AllRestarted(after, all, T)
  BY <1>2, <1>3 DEF AllRestarted
<1> QED BY <1>4 DEF after

(* Removing the packets of a service: a turn of the loop, and its result.  *)
Turned(q, S, probed, k, y) ==
  LET p == Responder!Without(q[k], S, probed /\ k = 1)
  IN  IF p.asks \cup p.servers \cup p.answers = {} THEN y ELSE Append(y, p)

Detaching(q, S, probed, g) ==
  /\ g \in [0 .. Len(q) -> Seq(Messages)] /\ g[0] = <<>>
  /\ \A k \in 1 .. Len(q) : g[k] = Turned(q, S, probed, k, g[k - 1])
  /\ Responder!Detached(q, S, probed) = g[Len(q)]

(* Removal of services from the packets that wait: a packet stays one, and *)
(* the loop over the queue is one of those above (Loop).                   *)
LEMMA WithoutIsMessage ==
  ASSUME NEW p \in Messages, NEW S, NEW marked \in BOOLEAN
  PROVE  LET r == Responder!Without(p, S, marked)
         IN  /\ r \in Messages /\ r.answers = p.answers \ S /\ r.servers = p.servers \ S
             /\ marked => r.asks = p.asks \ S
             /\ ~ marked => r.asks = p.asks
             /\ r.unicast = p.unicast /\ r.probes = p.probes
<1> DEFINE e == p.answers \ S
           f == p.servers \ S
           h == IF marked THEN p.asks \ S ELSE p.asks
           r == Responder!Without(p, S, marked)
<1>1. r = [p EXCEPT !.answers = e, !.servers = f, !.asks = h]
  BY DEF Responder!Without
<1>2. e \in SUBSET Announced /\ f \in SUBSET Announced /\ h \in SUBSET Announced
  BY DEF Messages
<1> HIDE DEF e, f, h, r
<1>3. /\ r.answers = e /\ r.servers = f /\ r.asks = h /\ r.unicast = p.unicast
      /\ r.probes = p.probes
      /\ r = [asks |-> r.asks, servers |-> r.servers, answers |-> r.answers,
              unicast |-> r.unicast, probes |-> r.probes]
  BY <1>1 DEF Messages
<1>4. r \in Messages
  <2>1. r.unicast \in BOOLEAN
    BY <1>3 DEF Messages
  <2>2. r.probes \in Nat
    BY <1>3 DEF Messages
  <2> QED BY <1>2, <1>3, <2>1, <2>2 DEF Messages
<1> QED BY <1>3, <1>4 DEF e, f, h, r

LEMMA TurnedIsQueue ==
  ASSUME NEW q \in Seq(Messages), NEW S, NEW probed \in BOOLEAN, NEW k \in DOMAIN q,
         NEW y \in Seq(Messages)
  PROVE  Turned(q, S, probed, k, y) \in Seq(Messages)
<1> DEFINE marked == probed /\ k = 1
           p == Responder!Without(q[k], S, marked)
<1>1. q[k] \in Messages
  BY ElementOfSeq
<1>2. p \in Messages
  <2>1. marked \in BOOLEAN
    OBVIOUS
  <2> HIDE DEF marked
  <2> QED BY <1>1, <2>1, WithoutIsMessage
<1>3. Turned(q, S, probed, k, y) =
        IF p.asks \cup p.servers \cup p.answers = {} THEN y ELSE Append(y, p)
  BY DEF Turned
<1> HIDE DEF p
<1> QED BY <1>2, <1>3

LEMMA DetachingTurns ==
  ASSUME NEW q \in Seq(Messages), NEW S, NEW probed \in BOOLEAN
  PROVE  \E g : Detaching(q, S, probed, g)
<1> DEFINE n == Len(q)
           T == Seq(Messages)
           Turn(k, y) == Turned(q, S, probed, k, y)
           left[k \in 0 .. Len(q)] ==
             IF k = 0 THEN <<>> ELSE Turned(q, S, probed, k, left[k - 1])
<1>1. Responder!Detached(q, S, probed) = left[Len(q)]
  BY DEF Responder!Detached, Turned
<1>2. n \in Nat /\ DOMAIN q = 1 .. n
  BY LenProperties
<1>3. <<>> \in T
  OBVIOUS
<1>4. \A k \in 1 .. n : \A y \in T : Turn(k, y) \in T
  BY <1>2, TurnedIsQueue
<1> HIDE DEF T
<1> DEFINE turn == [p \in (1 .. n) \X T |-> Turn(p[1], p[2])]
<1>5. turn \in [(1 .. n) \X T -> T]
  <2> HIDE DEF Turn
  <2> QED BY <1>4
<1>6. \A k \in 1 .. n : \A y \in T : turn[<<k, y>>] = Turn(k, y)
  OBVIOUS
<1> HIDE DEF turn, n, Turn
<1>7. PICK g : Loop(n, T, <<>>, turn, g)
  BY <1>2, <1>3, <1>5, LoopDefined
<1>8. /\ \A k \in 1 .. n : g[k] = Turn(k, g[k - 1])
      /\ g = [k \in 0 .. n |-> IF k = 0 THEN <<>> ELSE Turn(k, g[k - 1])]
  <2>1. \A k \in 0 .. n : k # 0 => k \in 1 .. n /\ k - 1 \in 0 .. n
    BY <1>2
  <2>2. \A k \in 1 .. n : k - 1 \in 0 .. n
    BY <1>2
  <2>3. \A k \in 1 .. n : g[k] = Turn(k, g[k - 1])
    BY <1>6, <1>7, <2>2 DEF Loop
  <2>4. \A k \in 0 .. n : g[k] = IF k = 0 THEN <<>> ELSE Turn(k, g[k - 1])
    BY <1>7, <2>1, <2>3 DEF Loop
  <2> QED BY <1>7, <2>3, <2>4 DEF Loop
<1>9. left = [k \in 0 .. n |-> IF k = 0 THEN <<>> ELSE Turn(k, left[k - 1])]
  BY <1>8 DEF n, Turn
<1> HIDE DEF left
<1>10. left[0] = <<>>
  <2>1. 0 \in 0 .. n
    BY <1>2
  <2> QED BY <1>9, <2>1
<1>11. \A k \in 1 .. n : left[k] = Turn(k, left[k - 1])
  <2>1. \A k \in 1 .. n : k \in 0 .. n /\ k # 0
    BY <1>2
  <2> QED BY <1>9, <2>1
<1>12. \A k \in 0 .. n : left[k] \in T
  <2>1. \A k \in 1 .. n : left[k - 1] \in T => left[k] \in T
    BY <1>4, <1>11
  <2>2. left[0] \in T
    BY <1>3, <1>10
  <2> QED BY <1>2, <2>1, <2>2, EachTurn
<1>13. left \in [0 .. n -> T]
  BY <1>9, <1>12
<1>14. Detaching(q, S, probed, left)
  BY <1>1, <1>10, <1>11, <1>13 DEF Detaching, n, T, Turn
<1> QED BY <1>14

(* What is removed from statements leaves statements, and an announcement  *)
(* that waited still waits unless all it said is removed.                  *)
LEMMA DetachedStatements ==
  ASSUME NEW q \in Seq(Messages), NEW S, NEW n, NEW d,
         \A k \in DOMAIN q : Statement(q[k], n),
         d.claimed = n.claimed \ S, d.dropped = n.dropped \ S
  PROVE  /\ Responder!Detached(q, S, FALSE) \in Seq(Messages)
         /\ \A k \in DOMAIN Responder!Detached(q, S, FALSE) :
              Statement(Responder!Detached(q, S, FALSE)[k], d)
         /\ q # <<>> /\ (\A k \in DOMAIN q : q[k].answers = {} \/ ~ (q[k].answers \subseteq S))
            /\ OwnHost \notin S
              => Responder!Detached(q, S, FALSE) # <<>>
<1> DEFINE N == Len(q)
           p(k) == Responder!Without(q[k], S, FALSE)
           Good == {m \in Messages : Statement(m, d)}
<1>1. PICK g : Detaching(q, S, FALSE, g)
  BY DetachingTurns
<1>2. N \in Nat /\ DOMAIN q = 1 .. N
  BY LenProperties
<1>3. /\ g \in [0 .. N -> Seq(Messages)] /\ g[0] = <<>>
      /\ Responder!Detached(q, S, FALSE) = g[N]
      /\ \A k \in 1 .. N : g[k] = Turned(q, S, FALSE, k, g[k - 1])
  BY <1>1 DEF Detaching
<1>4. ASSUME NEW k \in 1 .. N
      PROVE  /\ q[k] \in Messages /\ Statement(q[k], n) /\ p(k) \in Messages /\ p(k).asks = {}
             /\ p(k).servers = q[k].servers \ S /\ p(k).answers = q[k].answers \ S
             /\ g[k] = IF p(k).servers \cup p(k).answers = {} THEN g[k - 1]
                       ELSE Append(g[k - 1], p(k))
  <2>1. q[k] \in Messages /\ Statement(q[k], n)
    BY <1>2, ElementOfSeq
  <2>2. FALSE \in BOOLEAN
    OBVIOUS
  <2>3. /\ p(k) \in Messages /\ p(k).asks = q[k].asks
        /\ p(k).servers = q[k].servers \ S /\ p(k).answers = q[k].answers \ S
    BY <2>1, <2>2, WithoutIsMessage
  <2>4. p(k).asks = {}
    BY <2>1, <2>3 DEF Statement
  <2>5. g[k] = Turned(q, S, FALSE, k, g[k - 1])
    BY <1>3
  <2>6. (FALSE /\ k = 1) = FALSE
    OBVIOUS
  <2>7. g[k] = IF p(k).asks \cup p(k).servers \cup p(k).answers = {} THEN g[k - 1]
               ELSE Append(g[k - 1], p(k))
    BY <2>5, <2>6 DEF Turned
  <2> QED BY <2>1, <2>3, <2>4, <2>7
<1>5. \A k \in 1 .. N : p(k).servers \cup p(k).answers # {} => p(k) \in Good
  <2> TAKE k \in 1 .. N
  <2> HAVE p(k).servers \cup p(k).answers # {}
  <2>1. /\ q[k].servers \subseteq {OwnHost} /\ q[k].answers \subseteq n.claimed \cup n.dropped
    BY <1>4 DEF Statement
  <2>2. /\ p(k) \in Messages /\ p(k).asks = {} /\ p(k).servers \subseteq {OwnHost}
        /\ p(k).answers \cup p(k).servers # {}
        /\ p(k).answers \subseteq d.claimed \cup d.dropped
    BY <1>4, <2>1
  <2> HIDE DEF p
  <2> QED BY <2>2 DEF Statement
<1>6. \A k \in 1 .. N : g[k - 1] \in Seq(Good) => g[k] \in Seq(Good)
  <2> TAKE k \in 1 .. N
  <2> HAVE g[k - 1] \in Seq(Good)
  <2> HIDE DEF p, Good
  <2>1. CASE p(k).servers \cup p(k).answers = {}
    BY <1>4, <2>1
  <2>2. CASE p(k).servers \cup p(k).answers # {}
    <3>1. p(k) \in Good /\ g[k] = Append(g[k - 1], p(k))
      BY <1>4, <1>5, <2>2
    <3> QED BY <3>1
  <2> QED BY <2>1, <2>2
<1>7. g[N] \in Seq(Good)
  <2>1. g[0] \in Seq(Good)
    BY <1>3
  <2>2. \A k \in 0 .. N : g[k] \in Seq(Good)
    <3> HIDE DEF Good, N
    <3> QED BY <1>2, <1>6, <2>1, EachTurn
  <2> QED BY <1>2, <2>2
<1>8. g[N] \in Seq(Messages) /\ \A k \in DOMAIN g[N] : Statement(g[N][k], d)
  <2>1. \A k \in DOMAIN g[N] : g[N][k] \in Good
    <3> HIDE DEF Good
    <3> QED BY <1>7, ElementOfSeq
  <2> QED BY <1>2, <1>3, <2>1
<1>9. ASSUME q # <<>>, \A k \in DOMAIN q : q[k].answers = {} \/ ~ (q[k].answers \subseteq S),
             OwnHost \notin S
      PROVE  g[N] # <<>>
  <2>1. N \in 1 .. N
    BY <1>2, <1>9
  <2>2. p(N).servers \cup p(N).answers # {}
    <3>1. q[N].servers \subseteq {OwnHost} /\ q[N].answers \cup q[N].servers # {}
      BY <1>4, <2>1 DEF Statement
    <3>2. p(N).servers = q[N].servers \ S /\ p(N).answers = q[N].answers \ S
      BY <1>4, <2>1
    <3>3. CASE q[N].answers = {}
      <4>1. OwnHost \in q[N].servers
        BY <3>1, <3>3
      <4> HIDE DEF p
      <4> QED BY <1>9, <3>2, <4>1
    <3>4. CASE q[N].answers # {}
      <4>1. ~ (q[N].answers \subseteq S)
        BY <1>2, <1>9, <2>1, <3>4
      <4> HIDE DEF p
      <4> QED BY <3>2, <4>1
    <3> QED BY <3>3, <3>4
  <2>3. g[N - 1] \in Seq(Messages) /\ p(N) \in Messages
    <3>1. N - 1 \in 0 .. N
      BY <1>2, <2>1
    <3> QED BY <1>3, <1>4, <2>1, <3>1
  <2>4. g[N] = Append(g[N - 1], p(N))
    BY <1>4, <2>1, <2>2
  <2>5. \A y \in Seq(Messages) : \A r \in Messages : Append(y, r) # <<>>
    OBVIOUS
  <2> HIDE DEF p
  <2> QED BY <2>3, <2>4, <2>5
<1> QED BY <1>3, <1>8, <1>9

(* A question is left when there is anything left to ask.                  *)
LEMMA DetachedQuestion ==
  ASSUME NEW p \in Messages, NEW S, NEW probed \in BOOLEAN
  PROVE  LET r == Responder!Without(p, S, probed)
         IN  /\ r.asks \cup r.servers \cup r.answers = {}
                  => Responder!Detached(<<p>>, S, probed) = <<>>
             /\ r.asks \cup r.servers \cup r.answers # {}
                  => Responder!Detached(<<p>>, S, probed) = <<r>>
<1> DEFINE q == <<p>>
           r == Responder!Without(p, S, probed)
<1>1. q \in Seq(Messages) /\ Len(q) = 1 /\ q[1] = p
  OBVIOUS
<1> HIDE DEF q
<1>2. PICK g : Detaching(q, S, probed, g)
  BY <1>1, DetachingTurns
<1>3. /\ g[0] = <<>> /\ Responder!Detached(q, S, probed) = g[1]
      /\ g[1] = Turned(q, S, probed, 1, g[0])
  <2>1. 1 \in 1 .. Len(q) /\ 1 - 1 = 0
    BY <1>1
  <2> QED BY <1>1, <1>2, <2>1 DEF Detaching
<1>4. Responder!Without(q[1], S, probed /\ 1 = 1) = r
  <2>1. (probed /\ 1 = 1) = probed
    OBVIOUS
  <2> QED BY <1>1, <2>1
<1>5. g[1] = IF r.asks \cup r.servers \cup r.answers = {} THEN <<>> ELSE Append(<<>>, r)
  <2> HIDE DEF r
  <2> QED BY <1>3, <1>4 DEF Turned
<1>6. Append(<<>>, r) = <<r>>
  <2> HIDE DEF r
  <2> QED OBVIOUS
<1> HIDE DEF r
<1> QED BY <1>3, <1>5, <1>6 DEF q, r

(* mdns_priv_remove_scheduled_service_packets on one interface: an         *)
(* interface goes on probing, announcing, or is done.                      *)
LEMMA RemovalKeeps ==
  ASSUME NEW n, NEW T \in SUBSET Offered, PcbInv(n, T), NEW S \in SUBSET T
  PROVE  LET d == Responder!remove_scheduled(Responder!Forget(n, S), S)
         IN  /\ PcbInv(d, T \ S) /\ (d.ready <=> n.ready)
             /\ d.state = 1 => n.state = 1
<1> DEFINE m == Responder!Forget(n, S)
           d == Responder!remove_scheduled(m, S)
           probed == m.state \in Responder!PROBING /\ m.probing \cap S # {} /\ m.queue # <<>>
           emptied == \E k \in DOMAIN m.queue :
                        m.queue[k].answers # {} /\ m.queue[k].answers \subseteq S
           over == \/ probed /\ m.probing \subseteq S /\ ~ m.ip
                   \/ m.state \in Responder!ANNOUNCING /\ emptied
           q == Responder!Detached(m.queue, S, probed)
           r == IF probed THEN m.probing \ S ELSE m.probing
           s == IF over THEN Responder!RUNNING ELSE m.state
           Goal == PcbInv(d, T \ S) /\ (d.ready <=> n.ready) /\ (d.state = 1 => n.state = 1)
<1> SUFFICES Goal
  OBVIOUS
<1>1. n \in Pcbs /\ (n.ready <=> n.state \notin {0, 1}) /\ OwnHost \notin S
  BY ResponderAssumption DEF PcbInv
<1>2. /\ m \in Pcbs /\ m.ready = n.ready /\ m.state = n.state /\ m.probing = n.probing
      /\ m.ip = n.ip /\ m.queue = n.queue
      /\ m.claimed = n.claimed \ S /\ m.dropped = n.dropped \ S
  BY <1>1, Forgetting
<1> HIDE DEF m
<1>3. d = [m EXCEPT !.queue = q, !.probing = r, !.state = s]
  BY DEF Responder!remove_scheduled
<1>4. (n.state \in Responder!PROBING <=> n.state \in 3 .. 5)
      /\ (n.state \in Responder!ANNOUNCING <=> n.state \in 6 .. 8) /\ Responder!RUNNING = 9
  BY DEF Responder!PROBING, Responder!PROBE_1, Responder!PROBE_3, Responder!ANNOUNCING,
     Responder!ANNOUNCE_1, Responder!ANNOUNCE_3, Responder!RUNNING
<1>5. probed \in BOOLEAN /\ over \in BOOLEAN /\ emptied \in BOOLEAN
  OBVIOUS
<1>6. probed <=> n.state \in 3 .. 5 /\ n.probing \cap S # {} /\ n.queue # <<>>
  BY <1>2, <1>4
<1>7. over <=> \/ probed /\ n.probing \subseteq S /\ ~ n.ip
               \/ n.state \in 6 .. 8 /\ emptied
  <2>1. ~ m.ip <=> ~ n.ip
    BY <1>2
  <2> HIDE DEF probed, emptied
  <2> QED BY <1>2, <1>4, <2>1
<1>8. emptied <=> \E k \in DOMAIN n.queue :
                    n.queue[k].answers # {} /\ n.queue[k].answers \subseteq S
  BY <1>2
<1>9. q = Responder!Detached(n.queue, S, probed)
  BY <1>2
<1>10. /\ probed => r = n.probing \ S
       /\ ~ probed => r = n.probing
       /\ over => s = 9
       /\ ~ over => s = n.state
  <2> HIDE DEF probed, over
  <2> QED BY <1>2, <1>4
<1> HIDE DEF d, probed, emptied, over, q, r, s
<1>11. /\ d.ready = n.ready /\ d.state = s /\ d.probing = r /\ d.ip = n.ip /\ d.queue = q
       /\ d.claimed = n.claimed \ S /\ d.told = m.told /\ d.dropped = n.dropped \ S
       /\ d = [ready |-> d.ready, state |-> d.state, probing |-> d.probing, ip |-> d.ip,
               queue |-> d.queue, claimed |-> d.claimed, told |-> d.told,
               dropped |-> d.dropped]
  BY <1>2, <1>3 DEF Pcbs
<1>12. ASSUME q \in Seq(Messages)
       PROVE  d \in Pcbs
  <2>1. d.ready \in BOOLEAN
    BY <1>1, <1>11 DEF Pcbs
  <2>2. d.ip \in BOOLEAN
    BY <1>1, <1>11 DEF Pcbs
  <2>3. d.state \in {0, 1} \cup 3 .. 9
    <3>1. n.state \in {0, 1} \cup 3 .. 9
      BY <1>1 DEF Pcbs
    <3> QED BY <1>5, <1>10, <1>11, <3>1
  <2>4. d.probing \in SUBSET Offered /\ d.queue \in Seq(Messages)
    <3>1. n.probing \in SUBSET Offered
      BY <1>1 DEF Pcbs
    <3> QED BY <1>5, <1>10, <1>11, <1>12, <3>1
  <2>5. d.claimed \in SUBSET Announced /\ d.told \in SUBSET Announced
        /\ d.dropped \in SUBSET Announced
    <3>1. n.claimed \in SUBSET Announced /\ n.dropped \in SUBSET Announced
          /\ m.told \in SUBSET Announced
      BY <1>1, <1>2 DEF Pcbs
    <3> QED BY <1>11, <3>1
  <2> QED BY <1>11, <2>1, <2>2, <2>3, <2>4, <2>5 DEF Pcbs
<1>13. n.queue \in Seq(Messages) /\ (d.ready <=> n.ready) /\ (d.ip <=> n.ip)
  BY <1>1, <1>11 DEF Pcbs
<1>14. ASSUME n.ready
       PROVE  /\ T \subseteq n.claimed \cup n.dropped \cup n.probing
              /\ OwnHost \in n.claimed \cup n.dropped \/ n.ip
  <2>1. T \cup {OwnHost} \subseteq Accounted(n) /\ n.probing \subseteq Offered
    BY <1>1, <1>14 DEF PcbInv, Pcbs
  <2> QED BY <2>1, ResponderAssumption DEF Accounted, Sought, Responder!HostIf
<1>15. CASE n.state \in {0, 1}
  <2>1. n.queue = <<>> /\ n.state \notin 3 .. 5 /\ n.state \notin 6 .. 8
    BY <1>15 DEF PcbInv
  <2>2. n.probing = {} /\ ~ n.ip /\ ~ n.ready /\ probed = FALSE /\ over = FALSE
    <3>1. n.probing = {} /\ ~ n.ip
      BY <2>1 DEF PcbInv
    <3>2. ~ n.ready
      BY <1>1, <1>15
    <3> QED BY <1>5, <1>6, <1>7, <2>1, <3>1, <3>2
  <2>3. q = <<>>
    <3>1. PICK g : Detaching(<<>>, S, FALSE, g)
      <4>1. <<>> \in Seq(Messages) /\ FALSE \in BOOLEAN
        OBVIOUS
      <4> QED BY <4>1, DetachingTurns
    <3>2. Len(<<>>) = 0
      OBVIOUS
    <3> QED BY <1>9, <2>1, <2>2, <3>1, <3>2 DEF Detaching
  <2>4. /\ d.state = n.state /\ d.probing = {} /\ ~ d.ip /\ d.queue = <<>> /\ ~ d.ready
        /\ d \in Pcbs
    BY <1>10, <1>11, <1>12, <1>13, <2>2, <2>3
  <2>5. d.ready <=> d.state \notin {0, 1}
    BY <1>15, <2>4
  <2>6. Sane(d, T \ S)
    BY <2>4, <2>5 DEF Sane
  <2> QED BY <1>13, <2>4, <2>6, OffIsSound
<1>16. CASE n.state \in 3 .. 5
  <2> DEFINE p == Question(n)
             w == Responder!Without(p, S, probed)
             left == Sought(n) \ S
  <2>1. n.queue = <<p>> /\ Sought(n) # {} /\ n.ready /\ n.probing \subseteq T
    BY <1>1, <1>16 DEF PcbInv
  <2>2. p \in Messages /\ n.state - 3 \in Nat
    <3>1. Sought(n) \in SUBSET Announced
      BY <1>1 DEF Sought, Pcbs, Announced, Responder!HostIf
    <3> QED BY <1>16, <3>1 DEF Question, Messages
  <2>3. /\ p.asks = Sought(n) /\ p.servers = Sought(n) /\ p.answers = {}
        /\ p.unicast = FALSE /\ p.probes = n.state - 3
    BY DEF Question
  <2> HIDE DEF p
  <2>4. probed <=> n.probing \cap S # {}
    <3>1. n.queue # <<>>
      BY <2>1
    <3> QED BY <1>6, <1>16, <3>1
  <2>5. w \in Messages /\ w.asks = left /\ w.servers = left /\ w.answers = {}
        /\ w.unicast = FALSE /\ w.probes = n.state - 3
    <3>1. /\ w \in Messages /\ w.answers = p.answers \ S /\ w.servers = p.servers \ S
          /\ probed => w.asks = p.asks \ S
          /\ ~ probed => w.asks = p.asks
          /\ w.unicast = p.unicast /\ w.probes = p.probes
      BY <1>5, <2>2, WithoutIsMessage
    <3>2. ~ probed => Sought(n) = left
      <4>1. ~ probed => n.probing \cap S = {}
        BY <2>4
      <4> QED BY <1>1, <4>1 DEF Sought, Responder!HostIf
    <3> QED BY <1>5, <2>3, <3>1, <3>2
  <2>6. /\ r = n.probing \ S
        /\ left = r \cup Responder!HostIf(n.ip)
    <3>1. r = n.probing \ S
      BY <1>5, <1>10, <2>4
    <3> QED BY <1>1, <3>1 DEF Sought, Responder!HostIf
  <2>7. over <=> left = {}
    <3>1. left = {} <=> n.probing \subseteq S /\ ~ n.ip
      BY <2>6 DEF Responder!HostIf
    <3>2. n.probing \subseteq S /\ ~ n.ip => n.probing \cap S # {}
      BY <2>1 DEF Sought, Responder!HostIf
    <3> QED BY <1>7, <1>16, <2>4, <3>1, <3>2
  <2> HIDE DEF w, left
  <2>8. /\ left = {} => q = <<>>
        /\ left # {} => q = <<w>>
    <3>1. /\ w.asks \cup w.servers \cup w.answers = {}
               => Responder!Detached(<<p>>, S, probed) = <<>>
          /\ w.asks \cup w.servers \cup w.answers # {}
               => Responder!Detached(<<p>>, S, probed) = <<w>>
      BY <1>5, <2>2, DetachedQuestion DEF w
    <3> QED BY <1>9, <2>1, <2>5, <3>1
  <2>9. /\ T \ S \subseteq d.claimed \cup d.dropped \cup r
        /\ OwnHost \in d.claimed \cup d.dropped \/ n.ip
    BY <1>1, <1>11, <1>14, <2>1, <2>6
  <2>10. CASE left = {}
    <3>1. q = <<>> /\ s = 9 /\ r = {} /\ ~ n.ip
      BY <1>10, <2>6, <2>7, <2>8, <2>10 DEF Responder!HostIf
    <3>2. /\ d \in Pcbs /\ d.state = 9 /\ d.queue = <<>> /\ d.probing = {} /\ ~ d.ip /\ d.ready
          /\ d.state \notin {0, 1} /\ d.state \notin 3 .. 5 /\ d.state \notin 6 .. 8
      BY <1>11, <1>12, <1>13, <2>1, <3>1
    <3>3. (T \ S) \cup {OwnHost} \subseteq Accounted(d)
      BY <2>9, <3>1 DEF Accounted
    <3>4. \A k \in DOMAIN d.queue : Statement(d.queue[k], d)
      BY <3>2
    <3>5. PcbInv(d, T \ S)
      BY <3>2, <3>3, <3>4 DEF PcbInv
    <3> QED BY <1>13, <3>2, <3>5
  <2>11. CASE left # {}
    <3>1. q = <<w>> /\ s = n.state
      BY <1>5, <1>10, <2>7, <2>8, <2>11
    <3>2. /\ d \in Pcbs /\ d.state = n.state /\ d.queue = <<w>> /\ d.probing = r /\ d.ready
          /\ d.ip = n.ip
      <4>1. q \in Seq(Messages)
        BY <2>5, <3>1
      <4> QED BY <1>11, <1>12, <1>13, <2>1, <3>1, <4>1
    <3>3. Sought(d) = left
      BY <2>6, <3>2 DEF Sought
    <3>4. w = Question(d)
      <4>1. w = [asks |-> w.asks, servers |-> w.servers, answers |-> w.answers,
                 unicast |-> w.unicast, probes |-> w.probes]
        BY <2>5 DEF Messages
      <4> QED BY <2>5, <3>2, <3>3, <4>1 DEF Question
    <3>5. (T \ S) \cup {OwnHost} \subseteq Accounted(d)
      BY <2>6, <2>9, <3>3 DEF Accounted, Responder!HostIf
    <3>6. d.state \in 3 .. 5 /\ d.state \notin {0, 1} /\ d.state \notin 6 .. 8
          /\ d.probing \subseteq T \ S
      BY <1>16, <2>1, <2>6, <3>2
    <3>7. PcbInv(d, T \ S)
      BY <2>11, <3>2, <3>3, <3>4, <3>5, <3>6 DEF PcbInv
    <3> QED BY <1>13, <3>6, <3>7
  <2> QED BY <2>10, <2>11
<1>17. CASE n.state \in 6 .. 9
  <2>1. /\ n.ready /\ n.probing = {} /\ ~ n.ip /\ probed = FALSE
        /\ \A k \in DOMAIN n.queue : Statement(n.queue[k], n)
        /\ n.state \in 6 .. 8 => n.queue # <<>>
    <3>1. n.state \notin {0, 1} /\ n.state \notin 3 .. 5
      BY <1>17
    <3> QED BY <1>1, <1>5, <1>6, <3>1 DEF PcbInv
  <2>2. q = Responder!Detached(n.queue, S, FALSE)
    BY <1>9, <2>1
  <2>3. /\ q \in Seq(Messages) /\ \A k \in DOMAIN q : Statement(q[k], d)
        /\ n.queue # <<>> /\ ~ emptied => q # <<>>
    <3>1. d.claimed = n.claimed \ S /\ d.dropped = n.dropped \ S
      BY <1>11
    <3>2. ~ emptied => \A k \in DOMAIN n.queue :
                         n.queue[k].answers = {} \/ ~ (n.queue[k].answers \subseteq S)
      BY <1>8
    <3> QED BY <1>1, <1>13, <2>1, <2>2, <3>1, <3>2, DetachedStatements
  <2>4. s \in 6 .. 9 /\ (s \in 6 .. 8 => q # <<>>)
    <3>1. CASE over
      BY <1>10, <3>1
    <3>2. CASE ~ over
      <4>1. s = n.state
        BY <1>10, <3>2
      <4>2. n.state \in 6 .. 8 => ~ emptied
        BY <1>7, <3>2
      <4> QED BY <1>17, <2>1, <2>3, <4>1, <4>2
    <3> QED BY <3>1, <3>2
  <2>5. /\ d \in Pcbs /\ d.state = s /\ d.queue = q /\ d.probing = {} /\ ~ d.ip /\ d.ready
        /\ d.state \notin {0, 1} /\ d.state \notin 3 .. 5
    BY <1>5, <1>10, <1>11, <1>12, <1>13, <2>1, <2>3, <2>4
  <2>6. (T \ S) \cup {OwnHost} \subseteq Accounted(d)
    BY <1>1, <1>11, <1>14, <2>1 DEF Accounted
  <2>7. PcbInv(d, T \ S)
    BY <2>3, <2>4, <2>5, <2>6 DEF PcbInv
  <2> QED BY <1>13, <2>5, <2>7
<1>18. n.state \in {0, 1} \/ n.state \in 3 .. 5 \/ n.state \in 6 .. 9
  <2>1. n.state \in {0, 1} \cup 3 .. 9
    BY <1>1 DEF Pcbs
  <2> QED BY <2>1
<1> HIDE DEF Goal
<1> QED BY <1>15, <1>16, <1>17, <1>18


-----------------------------------------------------------------------------
(* Steps: those of one interface, those of all, the rest                   *)

Fits(n) == (host_named => PcbInv(n, offered)) /\ (~ host_named => SilentInv(n))

LEMMA CoveredKept ==
  ASSUME Responder!DuplicateCovered,
         \A i \in Netifs :
           /\ pcbs[i].ready => pcbs'[i].ready
           /\ pcbs'[i].state = 1 => pcbs[i].state = 1
  PROVE  Responder!DuplicateCovered'
<1>1. ASSUME NEW i \in Netifs, pcbs'[i].state = 1
      PROVE  \E j \in Netifs \ {i} : pcbs'[j].ready
  <2>1. pcbs[i].state = 1
    BY <1>1
  <2>2. PICK j \in Netifs \ {i} : pcbs[j].ready
    BY <2>1 DEF Responder!DuplicateCovered, Responder!DUP, Responder!others
  <2> QED BY <2>2
<1> QED BY <1>1 DEF Responder!DuplicateCovered, Responder!DUP, Responder!others

LEMMA Fitting ==
  ASSUME ResponderInv, UNCHANGED <<host_named, offered, own_named>>, DOMAIN pcbs' = Netifs,
         \A i \in Netifs : Fits(pcbs'[i]), Responder!DuplicateCovered'
  PROVE  ResponderInv'
BY DEF ResponderInv, Fits

LEMMA Fitted ==
  ASSUME ResponderInv, NEW i \in Netifs
  PROVE  Fits(pcbs[i]) /\ Sane(pcbs[i], offered)
<1>1. Fits(pcbs[i])
  BY DEF ResponderInv, Fits
<1> QED BY <1>1, SoundIsSane DEF Fits, ResponderInv

(* One interface changes and keeps its place.                              *)
LEMMA OneFits ==
  ASSUME ResponderInv, UNCHANGED <<host_named, offered, own_named>>,
         NEW i \in Netifs, NEW d, pcbs' = [pcbs EXCEPT ![i] = d], Fits(d),
         pcbs[i].ready => d.ready, d.state = 1 => pcbs[i].state = 1
  PROVE  ResponderInv'
<1>1. /\ DOMAIN pcbs = Netifs /\ DOMAIN pcbs' = Netifs /\ pcbs'[i] = d
      /\ \A j \in Netifs : j # i => pcbs'[j] = pcbs[j]
  BY DEF ResponderInv
<1>2. ASSUME NEW j \in Netifs
      PROVE  /\ Fits(pcbs'[j]) /\ (pcbs[j].ready => pcbs'[j].ready)
             /\ pcbs'[j].state = 1 => pcbs[j].state = 1
  <2>1. CASE j = i
    BY <1>1, <2>1
  <2>2. CASE j # i
    <3>1. pcbs'[j] = pcbs[j]
      BY <1>1, <2>2
    <3> QED BY <3>1, Fitted
  <2> QED BY <2>1, <2>2
<1>3. Responder!DuplicateCovered'
  BY <1>2, CoveredKept DEF ResponderInv
<1> QED BY <1>1, <1>2, <1>3, Fitting

(* Every interface changes, with the services and names.                   *)
LEMMA AllFit ==
  ASSUME ResponderInv, host_named', host_named' \in BOOLEAN,
         offered' \subseteq Offered, own_named' \subseteq offered',
         NEW all, AllRestarted(pcbs', all, offered'),
         \A i \in Netifs : all[i].ready = pcbs[i].ready /\ all[i].state = pcbs[i].state
  PROVE  ResponderInv'
<1>1. /\ DOMAIN pcbs' = Netifs
      /\ \A i \in Netifs :
           /\ PcbInv(pcbs'[i], offered') /\ (pcbs[i].ready => pcbs'[i].ready)
           /\ pcbs'[i].state = 1 => pcbs[i].state = 1
  BY DEF AllRestarted
<1>2. Responder!DuplicateCovered'
  BY <1>1, CoveredKept DEF ResponderInv
<1> QED BY <1>1, <1>2 DEF ResponderInv

(* An interface comes up, or has its socket and nothing to wait for.       *)
On(n) == [n EXCEPT !.ready = TRUE]
Off(n) == [n EXCEPT !.state = 0]
Emptied(n) == [n EXCEPT !.queue = <<>>]
Thrown(n, X) == [n EXCEPT !.dropped = @ \cup X]

(* Each field after each of these.                                         *)
LEMMA Switched ==
  ASSUME NEW n \in Pcbs
  PROVE  /\ On(n) \in Pcbs /\ On(n).ready /\ On(n).probing = n.probing /\ On(n).ip = n.ip
         /\ On(n).claimed = n.claimed /\ On(n).dropped = n.dropped
         /\ Off(n) \in Pcbs /\ Off(n).ready = n.ready /\ Off(n).state = 0
         /\ Off(n).queue = n.queue /\ Off(n).probing = n.probing /\ Off(n).ip = n.ip
<1> DEFINE d == On(n)
           e == Off(n)
<1>1. d = [n EXCEPT !.ready = TRUE] /\ e = [n EXCEPT !.state = 0]
  BY DEF On, Off
<1> HIDE DEF d, e
<1>2. /\ d.ready = TRUE /\ d.state = n.state /\ d.probing = n.probing /\ d.ip = n.ip
      /\ d.queue = n.queue /\ d.claimed = n.claimed /\ d.told = n.told
      /\ d.dropped = n.dropped
      /\ d = [ready |-> d.ready, state |-> d.state, probing |-> d.probing, ip |-> d.ip,
              queue |-> d.queue, claimed |-> d.claimed, told |-> d.told,
              dropped |-> d.dropped]
  BY <1>1 DEF Pcbs
<1>3. /\ e.ready = n.ready /\ e.state = 0 /\ e.probing = n.probing /\ e.ip = n.ip
      /\ e.queue = n.queue /\ e.claimed = n.claimed /\ e.told = n.told
      /\ e.dropped = n.dropped
      /\ e = [ready |-> e.ready, state |-> e.state, probing |-> e.probing, ip |-> e.ip,
              queue |-> e.queue, claimed |-> e.claimed, told |-> e.told,
              dropped |-> e.dropped]
  BY <1>1 DEF Pcbs
<1>4. /\ n.state \in {0, 1} \cup 3 .. 9 /\ 0 \in {0, 1} \cup 3 .. 9
      /\ n.probing \in SUBSET Offered /\ n.queue \in Seq(Messages)
  BY DEF Pcbs
<1>5. /\ n.claimed \in SUBSET Announced /\ n.told \in SUBSET Announced
      /\ n.dropped \in SUBSET Announced
  BY DEF Pcbs
<1>6. n.ready \in BOOLEAN /\ n.ip \in BOOLEAN
  BY DEF Pcbs
<1>7. d \in Pcbs
  <2>1. d.ready \in BOOLEAN /\ d.ip \in BOOLEAN
    BY <1>2, <1>6
  <2>2. d.state \in {0, 1} \cup 3 .. 9
    BY <1>2, <1>4
  <2>3. d.probing \in SUBSET Offered /\ d.queue \in Seq(Messages)
    BY <1>2, <1>4
  <2>4. d.claimed \in SUBSET Announced /\ d.told \in SUBSET Announced
        /\ d.dropped \in SUBSET Announced
    BY <1>2, <1>5
  <2> QED BY <1>2, <2>1, <2>2, <2>3, <2>4 DEF Pcbs
<1>8. e \in Pcbs
  <2>1. e.ready \in BOOLEAN /\ e.ip \in BOOLEAN
    BY <1>3, <1>6
  <2>2. e.state \in {0, 1} \cup 3 .. 9
    BY <1>3, <1>4
  <2>3. e.probing \in SUBSET Offered /\ e.queue \in Seq(Messages)
    BY <1>3, <1>4
  <2>4. e.claimed \in SUBSET Announced /\ e.told \in SUBSET Announced
        /\ e.dropped \in SUBSET Announced
    BY <1>3, <1>5
  <2> QED BY <1>3, <2>1, <2>2, <2>3, <2>4 DEF Pcbs
<1>9. d.ready
  BY <1>2
<1> QED BY <1>2, <1>3, <1>7, <1>8, <1>9 DEF d, e

LEMMA Cut ==
  ASSUME NEW n \in Pcbs, NEW X \in SUBSET Announced
  PROVE  /\ Emptied(n) \in Pcbs /\ Emptied(n).ready = n.ready /\ Emptied(n).state = n.state
         /\ Emptied(n).queue = <<>> /\ Emptied(n).probing = n.probing
         /\ Emptied(n).ip = n.ip
         /\ Emptied(n).claimed = n.claimed /\ Emptied(n).dropped = n.dropped
         /\ Thrown(n, X) \in Pcbs /\ Thrown(n, X).ready = n.ready
         /\ Thrown(n, X).state = n.state /\ Thrown(n, X).queue = n.queue
         /\ Thrown(n, X).probing = n.probing /\ Thrown(n, X).ip = n.ip
         /\ Thrown(n, X).claimed = n.claimed /\ Thrown(n, X).dropped = n.dropped \cup X
<1> DEFINE d == Emptied(n)
           e == Thrown(n, X)
           f == n.dropped \cup X
<1>1. d = [n EXCEPT !.queue = <<>>] /\ e = [n EXCEPT !.dropped = f]
  BY DEF Emptied, Thrown
<1>2. /\ n.state \in {0, 1} \cup 3 .. 9
      /\ n.probing \in SUBSET Offered /\ n.queue \in Seq(Messages)
      /\ <<>> \in Seq(Messages)
  BY DEF Pcbs
<1>3. /\ n.claimed \in SUBSET Announced /\ n.told \in SUBSET Announced
      /\ n.dropped \in SUBSET Announced /\ f \in SUBSET Announced
  BY DEF Pcbs
<1>4. n.ready \in BOOLEAN /\ n.ip \in BOOLEAN
  BY DEF Pcbs
<1> HIDE DEF d, e, f
<1>5. /\ d.ready = n.ready /\ d.state = n.state /\ d.probing = n.probing /\ d.ip = n.ip
      /\ d.queue = <<>> /\ d.claimed = n.claimed /\ d.told = n.told
      /\ d.dropped = n.dropped
      /\ d = [ready |-> d.ready, state |-> d.state, probing |-> d.probing, ip |-> d.ip,
              queue |-> d.queue, claimed |-> d.claimed, told |-> d.told,
              dropped |-> d.dropped]
  BY <1>1 DEF Pcbs
<1>6. /\ e.ready = n.ready /\ e.state = n.state /\ e.probing = n.probing /\ e.ip = n.ip
      /\ e.queue = n.queue /\ e.claimed = n.claimed /\ e.told = n.told
      /\ e.dropped = f
      /\ e = [ready |-> e.ready, state |-> e.state, probing |-> e.probing, ip |-> e.ip,
              queue |-> e.queue, claimed |-> e.claimed, told |-> e.told,
              dropped |-> e.dropped]
  BY <1>1 DEF Pcbs
<1>7. d \in Pcbs
  <2>1. d.ready \in BOOLEAN /\ d.ip \in BOOLEAN
    BY <1>4, <1>5
  <2>2. d.state \in {0, 1} \cup 3 .. 9
    BY <1>2, <1>5
  <2>3. d.probing \in SUBSET Offered /\ d.queue \in Seq(Messages)
    BY <1>2, <1>5
  <2>4. d.claimed \in SUBSET Announced /\ d.told \in SUBSET Announced
        /\ d.dropped \in SUBSET Announced
    BY <1>3, <1>5
  <2> QED BY <1>5, <2>1, <2>2, <2>3, <2>4 DEF Pcbs
<1>8. e \in Pcbs
  <2>1. e.ready \in BOOLEAN /\ e.ip \in BOOLEAN
    BY <1>4, <1>6
  <2>2. e.state \in {0, 1} \cup 3 .. 9
    BY <1>2, <1>6
  <2>3. e.probing \in SUBSET Offered /\ e.queue \in Seq(Messages)
    BY <1>2, <1>6
  <2>4. e.claimed \in SUBSET Announced /\ e.told \in SUBSET Announced
        /\ e.dropped \in SUBSET Announced
    BY <1>3, <1>6
  <2> QED BY <1>6, <2>1, <2>2, <2>3, <2>4 DEF Pcbs
<1> QED BY <1>5, <1>6, <1>7, <1>8 DEF d, e, f

(* mdns_priv_pcb_enable                                                    *)
LEMMA EnablingFits ==
  ASSUME ResponderInv, NEW n, Sane(n, offered), ~ host_named => n.probing = {} /\ ~ n.ip
  PROVE  LET d == Responder!init_pcb_probe(host_named, On(n), offered, TRUE)
         IN  Fits(d) /\ d.ready /\ d.state # 1
<1> DEFINE m == On(n)
           d == Responder!init_pcb_probe(host_named, m, offered, TRUE)
           Goal == Fits(d) /\ d.ready /\ d.state # 1
<1> SUFFICES Goal
  OBVIOUS
<1>1. n \in Pcbs /\ n.probing \subseteq offered /\ offered \subseteq Offered
  BY DEF Sane, ResponderInv
<1>2. m \in Pcbs /\ m.ready /\ m.probing = n.probing /\ m.ip = n.ip
  BY <1>1, Switched
<1> HIDE DEF m
<1>3. CASE host_named
  <2>1. d = Responder!init_pcb_probe(TRUE, m, offered, TRUE)
    BY <1>3 DEF Responder!init_pcb_probe
  <2>2. /\ m.probing \subseteq offered
        /\ offered \subseteq m.claimed \cup m.dropped \cup offered \cup m.probing
    BY <1>1, <1>2
  <2>3. offered \subseteq offered /\ TRUE \in BOOLEAN
    OBVIOUS
  <2> HIDE DEF d
  <2>4. PcbInv(d, offered) /\ d.ready
    BY <1>1, <1>2, <2>1, <2>2, <2>3, ProbeStarts
  <2>5. d.state # 1
    BY <2>4 DEF PcbInv
  <2> QED BY <1>3, <2>4, <2>5 DEF Fits
<1>4. CASE ~ host_named
  <2>1. d = Responder!init_pcb_probe(FALSE, m, offered, TRUE)
    BY <1>4 DEF Responder!init_pcb_probe
  <2>2. m.probing = {} /\ ~ m.ip
    BY <1>2, <1>4
  <2> HIDE DEF d
  <2>3. SilentInv(d) /\ d.ready
    BY <1>2, <2>1, <2>2, NothingToProbe
  <2>4. d.state # 1
    BY <2>3 DEF SilentInv
  <2> QED BY <1>4, <2>3, <2>4 DEF Fits
<1> HIDE DEF Goal
<1> QED BY <1>3, <1>4

(* A name of one's own turns out to be taken, or is to be announced under  *)
(* another one.                                                            *)
LEMMA ProbedAnew ==
  ASSUME NEW n, NEW T \in SUBSET Offered, PcbInv(n, T), n.ready, n.state \notin 3 .. 5,
         NEW S \in SUBSET T, NEW probe_ip \in BOOLEAN, S # {} \/ probe_ip,
         NEW X, X \subseteq S \/ (probe_ip /\ X \subseteq {OwnHost})
  PROVE  LET d == Responder!init_pcb_probe(TRUE, Responder!Forget(n, X), S, probe_ip)
         IN  PcbInv(d, T) /\ d.ready /\ d.state # 1
<1> DEFINE m == Responder!Forget(n, X)
           d == Responder!init_pcb_probe(TRUE, m, S, probe_ip)
           Goal == PcbInv(d, T) /\ d.ready /\ d.state # 1
<1> SUFFICES Goal
  OBVIOUS
<1>1. n \in Pcbs /\ n.probing = {} /\ ~ n.ip /\ T \cup {OwnHost} \subseteq n.claimed \cup n.dropped
  BY AllAccounted DEF PcbInv
<1>2. /\ m \in Pcbs /\ m.ready = n.ready /\ m.state = n.state /\ m.probing = n.probing
      /\ m.ip = n.ip /\ m.queue = n.queue
      /\ m.claimed = n.claimed \ X /\ m.dropped = n.dropped \ X
  <2> HIDE DEF d
  <2> QED BY <1>1, Forgetting
<1> HIDE DEF m
<1>3. m.ready /\ m.probing \subseteq T
  BY <1>1, <1>2
<1>4. T \subseteq m.claimed \cup m.dropped \cup S \cup m.probing
  BY <1>1, <1>2, ResponderAssumption
<1>5. OwnHost \in m.claimed \cup m.dropped \/ m.ip \/ probe_ip
  BY <1>1, <1>2, ResponderAssumption
<1>6. S \cup m.probing # {} \/ m.ip \/ probe_ip
  OBVIOUS
<1> HIDE DEF d
<1>7. PcbInv(d, T) /\ d.ready
  BY <1>2, <1>3, <1>4, <1>5, <1>6, ProbeStarts DEF d
<1>8. d.state # 1
  BY <1>7 DEF PcbInv
<1> QED BY <1>7, <1>8

(* A packet goes out, or is to: mdns_pcb.c, mdns_receive.c:1388.           *)
LEMMA SendFits ==
  ASSUME ResponderInv, NEW i \in Netifs, NEW k \in DOMAIN pcbs[i].queue, Responder!Send(i, k)
  PROVE  ResponderInv'
<1> DEFINE n == pcbs[i]
           later == Responder!schedule_tx_packet(n, k)
           X == IF n.queue[k].unicast \/ n.state \in Responder!PROBING THEN {}
                ELSE n.queue[k].answers \cup n.queue[k].servers
           d == [later EXCEPT !.told = @ \cup X]
<1>1. pcbs' = [pcbs EXCEPT ![i] = d] /\ UNCHANGED <<host_named, offered, own_named>>
  BY DEF Responder!Send
<1>2. host_named /\ PcbInv(n, offered) /\ offered \in SUBSET Offered
  <2>1. n.queue # <<>>
    OBVIOUS
  <2> QED BY <2>1 DEF ResponderInv, SilentInv
<1>3. PcbInv(later, offered) /\ n.ready /\ later.ready /\ later.state # 1
  BY <1>2, SchedulingKeeps
<1>4. X \in SUBSET Announced
  <2>1. n.queue \in Seq(Messages)
    BY <1>2 DEF PcbInv, Pcbs
  <2>2. n.queue[k] \in Messages
    BY <2>1, ElementOfSeq
  <2>3. n.queue[k].answers \in SUBSET Announced /\ n.queue[k].servers \in SUBSET Announced
    BY <2>2 DEF Messages
  <2> QED BY <2>3
<1> HIDE DEF later, X
<1>5. PcbInv(d, offered) /\ (d.ready <=> later.ready) /\ d.state = later.state
  BY <1>3, <1>4, ToldMore
<1> HIDE DEF d
<1>6. Fits(d) /\ d.ready /\ d.state # 1
  BY <1>2, <1>3, <1>5 DEF Fits
<1> QED BY <1>1, <1>6, OneFits

LEMMA AnswerFits ==
  ASSUME ResponderInv, NEW i \in Netifs, NEW x \in offered \cup {OwnHost},
         NEW b \in BOOLEAN, Responder!Answer(i, {x}, b)
  PROVE  ResponderInv'
<1> DEFINE n == pcbs[i]
           p == Responder!Packet({}, {}, {x}, b)
           q == Append(n.queue, p)
           d == Requeue(n, q, n.state)
<1>1. /\ host_named /\ n.ready /\ n.state > 5
      /\ pcbs' = [pcbs EXCEPT ![i].queue = q]
      /\ UNCHANGED <<host_named, offered, own_named>>
  BY DEF Responder!Answer, Responder!PROBE_3
<1>2. PcbInv(n, offered) /\ offered \in SUBSET Offered /\ DOMAIN pcbs = Netifs
  BY <1>1 DEF ResponderInv
<1>3. n \in Pcbs
  BY <1>2 DEF PcbInv
<1>4. n.state \in 6 .. 9 /\ n.state \notin 3 .. 5 /\ n.queue \in Seq(Messages)
  <2>1. n.state \in {0, 1} \cup 3 .. 9 /\ n.queue \in Seq(Messages)
    BY <1>3 DEF Pcbs
  <2> QED BY <1>1, <2>1
<1>5. /\ p = [asks |-> {}, servers |-> {}, answers |-> {x}, unicast |-> b, probes |-> 0]
      /\ p \in Messages
  BY <1>2 DEF Responder!Packet, Messages, Announced
<1>6. offered \cup {OwnHost} \subseteq n.claimed \cup n.dropped
  BY <1>1, <1>2, <1>4, AllAccounted
<1>7. Statement(p, n)
  BY <1>5, <1>6 DEF Statement
<1>8. \A m \in DOMAIN n.queue : Statement(n.queue[m], n)
  BY <1>2, <1>4 DEF PcbInv
<1> HIDE DEF p
<1>9. q \in Seq(Messages) /\ q # <<>> /\ \A m \in DOMAIN q : Statement(q[m], n)
  BY <1>4, <1>5, <1>7, <1>8, StatementsExtended
<1> HIDE DEF q
<1>10. PcbInv(d, offered) /\ d.ready /\ d.state = n.state
  BY <1>1, <1>2, <1>4, <1>9, Requeued
<1>11. pcbs' = [pcbs EXCEPT ![i] = d]
  <2>1. d = [n EXCEPT !.queue = q]
    BY <1>3 DEF Requeue, Pcbs
  <2> QED BY <1>1, <2>1
<1> HIDE DEF d
<1>12. Fits(d) /\ d.state # 1
  BY <1>1, <1>4, <1>10 DEF Fits
<1> QED BY <1>1, <1>10, <1>11, <1>12, OneFits

(* perform_event_action: mdns_netif.c, mdns_pcb.c:107-200                  *)
LEMMA EnableFits ==
  ASSUME ResponderInv, NEW i \in Netifs, Responder!Enable(i)
  PROVE  ResponderInv'
<1> DEFINE d == Responder!init_pcb_probe(host_named, On(pcbs[i]), offered, TRUE)
<1>1. pcbs' = [pcbs EXCEPT ![i] = d] /\ UNCHANGED <<host_named, offered, own_named>>
  BY DEF Responder!Enable, Responder!enable, On
<1>2. Sane(pcbs[i], offered) /\ Fits(pcbs[i])
  BY Fitted
<1>3. ~ host_named => pcbs[i].probing = {} /\ ~ pcbs[i].ip
  BY <1>2 DEF Fits, SilentInv
<1>4. Fits(d) /\ d.ready /\ d.state # 1
  BY <1>2, <1>3, EnablingFits
<1> HIDE DEF d
<1> QED BY <1>1, <1>4, OneFits

LEMMA DisableFits ==
  ASSUME ResponderInv, NEW i \in Netifs, Responder!Disable(i)
  PROVE  ResponderInv'
<1> DEFINE d == Responder!Cleared(pcbs[i], 0)
           off == [pcbs EXCEPT ![i] = d]
           twins == {j \in Netifs \ {i} : pcbs[i].ready /\ pcbs[j].state = 1}
           handed(j) == [off EXCEPT ![j].state = 0]
           up(j) == [handed(j) EXCEPT ![j] =
                       Responder!init_pcb_probe(host_named, On(@), offered, TRUE)]
<1>1. /\ twins = {} => pcbs' = off
      /\ twins # {} => \E j \in twins : pcbs' \in {handed(j), up(j)}
      /\ UNCHANGED <<host_named, offered, own_named>>
  BY DEF Responder!Disable, Responder!enable, Responder!OFF, Responder!DUP,
     Responder!others, On
<1>2. Sane(pcbs[i], offered) /\ DOMAIN pcbs = Netifs
  BY Fitted DEF ResponderInv
<1>3. PcbInv(d, offered) /\ SilentInv(d) /\ d.state = 0 /\ ~ d.ready
  BY <1>2, ClearedIsQuiet DEF Sane
<1> HIDE DEF d
<1>4. Fits(d)
  BY <1>3 DEF Fits
<1>5. CASE twins = {}
  <2>1. pcbs' = off
    BY <1>1, <1>5
  <2>2. DOMAIN pcbs' = Netifs /\ \A j \in Netifs : Fits(pcbs'[j])
    BY <1>2, <1>4, <2>1, Fitted
  <2>3. ASSUME NEW j \in Netifs, pcbs'[j].state = 1
        PROVE  \E m \in Netifs \ {j} : pcbs'[m].ready
    <3>1. j # i /\ pcbs[j].state = 1
      BY <1>2, <1>3, <2>1, <2>3
    <3>2. PICK m \in Netifs \ {j} : pcbs[m].ready
      BY <3>1 DEF ResponderInv, Responder!DuplicateCovered, Responder!DUP, Responder!others
    <3>3. m # i
      BY <1>5, <3>1, <3>2
    <3> QED BY <1>2, <2>1, <3>2, <3>3
  <2>4. Responder!DuplicateCovered'
    BY <2>3 DEF Responder!DuplicateCovered, Responder!DUP, Responder!others
  <2> QED BY <1>1, <2>2, <2>4, Fitting
<1>6. CASE twins # {}
  <2>1. PICK j \in twins : pcbs' \in {handed(j), up(j)}
    BY <1>1, <1>6
  <2>2. j \in Netifs /\ j # i /\ pcbs[j].state = 1 /\ \A m \in Netifs : m \in {i, j}
    BY ResponderAssumption
  <2> DEFINE e == Off(pcbs[j])
             f == Responder!init_pcb_probe(host_named, On(e), offered, TRUE)
  <2>3. /\ DOMAIN handed(j) = Netifs /\ handed(j)[i] = d /\ handed(j)[j] = e
        /\ DOMAIN up(j) = Netifs /\ up(j)[i] = d /\ up(j)[j] = f
    BY <1>2, <2>2 DEF Off
  <2>4. /\ Sane(pcbs[j], offered) /\ ~ pcbs[j].ready
        /\ pcbs[j].queue = <<>> /\ pcbs[j].probing = {} /\ ~ pcbs[j].ip
    BY <2>2, Fitted DEF Sane
  <2>5. /\ e \in Pcbs /\ e.state = 0 /\ ~ e.ready
        /\ e.queue = <<>> /\ e.probing = {} /\ ~ e.ip
    <3>1. /\ e \in Pcbs /\ e.ready = pcbs[j].ready /\ e.state = 0
          /\ e.queue = pcbs[j].queue /\ e.probing = pcbs[j].probing /\ e.ip = pcbs[j].ip
      BY <2>4, Switched DEF Sane
    <3> QED BY <2>4, <3>1
  <2> HIDE DEF e, f
  <2>6. Sane(e, offered)
    BY <2>5 DEF Sane
  <2>7. Fits(e)
    BY <2>5, <2>6, OffIsSound DEF Fits
  <2>8. Fits(f) /\ f.state # 1
    BY <2>5, <2>6, EnablingFits DEF f
  <2> HIDE DEF twins
  <2>9. DOMAIN pcbs' = Netifs /\ pcbs'[i] = d /\ pcbs'[j] \in {e, f}
    BY <2>1, <2>3
  <2>10. \A m \in Netifs : Fits(pcbs'[m]) /\ pcbs'[m].state # 1
    BY <1>3, <1>4, <2>2, <2>5, <2>7, <2>8, <2>9
  <2>11. Responder!DuplicateCovered'
    BY <2>10 DEF Responder!DuplicateCovered, Responder!DUP
  <2> QED BY <1>1, <2>9, <2>10, <2>11, Fitting
<1> QED BY <1>5, <1>6

(* Without a host name there is nothing to announce.                       *)
LEMMA AnnouncingFits ==
  ASSUME ResponderInv, NEW i \in Netifs, NEW k
  PROVE  LET d == Responder!pcb_announce(pcbs[i], {}, TRUE, k)
         IN  /\ Fits(d) /\ (d.ready <=> pcbs[i].ready)
             /\ d.state = 1 => pcbs[i].state = 1
<1> DEFINE n == pcbs[i]
           d == Responder!pcb_announce(n, {}, TRUE, k)
           Goal == Fits(d) /\ (d.ready <=> n.ready) /\ (d.state = 1 => n.state = 1)
<1> SUFFICES Goal
  OBVIOUS
<1>1. Fits(n) /\ offered \in SUBSET Offered
  BY Fitted DEF ResponderInv
<1>2. CASE host_named
  <2>1. PcbInv(n, offered) /\ {} \in SUBSET offered /\ TRUE \in BOOLEAN
    BY <1>1, <1>2 DEF Fits
  <2>2. PcbInv(d, offered) /\ (d.ready <=> n.ready) /\ (d.state = 1 => n.state = 1)
    BY <1>1, <1>2, <2>1, AnnounceKeeps
  <2> QED BY <1>2, <2>2 DEF Fits
<1>3. CASE ~ host_named
  <2>1. SilentInv(n)
    BY <1>1, <1>3 DEF Fits
  <2>2. n.state \notin Responder!PROBING /\ n.state \notin Responder!ANNOUNCING
    BY <2>1 DEF SilentInv, Responder!PROBING, Responder!PROBE_1, Responder!PROBE_3,
       Responder!ANNOUNCING, Responder!ANNOUNCE_1, Responder!ANNOUNCE_3
  <2>3. d = n
    BY <1>3, <2>2 DEF Responder!pcb_announce
  <2> QED BY <1>1, <2>3
<1> HIDE DEF Goal
<1> QED BY <1>2, <1>3

LEMMA AnnounceFits ==
  ASSUME ResponderInv, NEW i \in Netifs, NEW k, Responder!Announce(i, k)
  PROVE  ResponderInv'
<1> DEFINE d == Responder!pcb_announce(pcbs[i], {}, TRUE, k)
<1>1. pcbs' = [pcbs EXCEPT ![i] = d] /\ UNCHANGED <<host_named, offered, own_named>>
  BY DEF Responder!Announce
<1>2. Fits(d) /\ (d.ready <=> pcbs[i].ready) /\ (d.state = 1 => pcbs[i].state = 1)
  BY AnnouncingFits
<1> HIDE DEF d
<1> QED BY <1>1, <1>2, OneFits

LEMMA SetDuplicateFits ==
  ASSUME ResponderInv, NEW i \in Netifs, NEW k, Responder!SetDuplicate(i, k)
  PROVE  ResponderInv'
<1>1. PICK j \in Netifs \ {i} :
        /\ pcbs[j].ready
        /\ pcbs' = [pcbs EXCEPT ![i] = Responder!Cleared(@, 1),
                                ![j] = Responder!pcb_announce(@, {}, TRUE, k)]
        /\ UNCHANGED <<host_named, offered, own_named>>
  BY DEF Responder!SetDuplicate, Responder!others, Responder!DUP
<1> DEFINE d == Responder!Cleared(pcbs[i], 1)
           e == Responder!pcb_announce(pcbs[j], {}, TRUE, k)
<1>2. DOMAIN pcbs = Netifs /\ \A m \in Netifs : Fits(pcbs[m]) /\ Sane(pcbs[m], offered)
  BY Fitted DEF ResponderInv
<1>3. PcbInv(d, offered) /\ SilentInv(d)
  BY <1>2, ClearedIsQuiet DEF Sane
<1>4. Fits(d)
  BY <1>3 DEF Fits
<1>5. Fits(e) /\ (e.ready <=> pcbs[j].ready) /\ (e.state = 1 => pcbs[j].state = 1)
  BY AnnouncingFits
<1>6. e.ready /\ e.state # 1
  BY <1>1, <1>2, <1>5 DEF Sane
<1>7. DOMAIN pcbs' = Netifs /\ pcbs'[i] = d /\ pcbs'[j] = e
      /\ \A m \in Netifs : m \in {i, j}
  BY <1>1, <1>2, ResponderAssumption
<1> HIDE DEF d, e
<1>8. \A m \in Netifs : Fits(pcbs'[m])
  BY <1>4, <1>5, <1>7
<1>9. ASSUME NEW m \in Netifs, pcbs'[m].state = 1
      PROVE  \E o \in Netifs \ {m} : pcbs'[o].ready
  <2>1. m = i
    BY <1>6, <1>7, <1>9
  <2> QED BY <1>6, <1>7, <2>1
<1>10. Responder!DuplicateCovered'
  BY <1>9 DEF Responder!DuplicateCovered, Responder!DUP, Responder!others
<1> QED BY <1>1, <1>7, <1>8, <1>10, Fitting

(* mdns_priv_restart_all_pcbs                                              *)
LEMMA RestartFits ==
  ASSUME ResponderInv, pcbs' = Responder!restart_all_pcbs, host_named', host_named' \in BOOLEAN,
         UNCHANGED <<offered, own_named>>
  PROVE  ResponderInv'
<1> DEFINE S == Responder!Items
           all == [i \in Netifs |-> Emptied(Responder!Forget(pcbs[i], S))]
<1>1. pcbs' = Responder!probe_all_pcbs(TRUE, all, offered, TRUE, TRUE)
  BY DEF Responder!restart_all_pcbs, Emptied
<1>2. offered \in SUBSET Offered /\ offered \in SUBSET offered /\ own_named \subseteq offered
      /\ TRUE \in BOOLEAN
  BY DEF ResponderInv
<1> HIDE DEF S
<1>3. ASSUME NEW i \in Netifs
      PROVE  all[i].ready = pcbs[i].ready /\ all[i].state = pcbs[i].state
             /\ Sane(all[i], offered)
  <2> DEFINE n == pcbs[i]
             m == Responder!Forget(n, S)
             d == Emptied(m)
  <2>1. Sane(n, offered)
    BY Fitted
  <2>2. n \in Pcbs
    BY <2>1 DEF Sane
  <2>3. /\ m \in Pcbs /\ m.ready = n.ready /\ m.state = n.state /\ m.probing = n.probing
        /\ m.ip = n.ip /\ m.queue = n.queue
        /\ m.claimed = n.claimed \ S /\ m.dropped = n.dropped \ S
    BY <2>2, Forgetting
  <2> HIDE DEF m
  <2>4. {} \in SUBSET Announced
    OBVIOUS
  <2>5. /\ d \in Pcbs /\ d.ready = m.ready /\ d.state = m.state /\ d.queue = <<>>
        /\ d.probing = m.probing /\ d.ip = m.ip
    BY <2>3, <2>4, Cut
  <2> HIDE DEF d
  <2>6. Sane(d, offered)
    BY <2>1, <2>3, <2>5 DEF Sane
  <2>7. all[i] = d
    BY DEF d, m
  <2> HIDE DEF all, n
  <2>8. all[i].ready = n.ready /\ all[i].state = n.state
    BY <2>3, <2>5, <2>7
  <2> QED BY <2>6, <2>7, <2>8 DEF n
<1> HIDE DEF all
<1>4. \A i \in Netifs :
        /\ Sane(all[i], offered)
        /\ all[i].ready =>
             /\ offered # {} \/ all[i].ip \/ TRUE
             /\ offered \subseteq all[i].claimed \cup all[i].dropped \cup offered
             /\ OwnHost \in all[i].claimed \cup all[i].dropped \/ all[i].ip \/ TRUE
  BY <1>3
<1>5. AllRestarted(pcbs', all, offered)
  BY <1>1, <1>2, <1>4, AllProbeAnew
<1> QED BY <1>2, <1>3, <1>5, AllFit

(* Every name is in one of the sets an interface keeps.                    *)
LEMMA AllCovered ==
  ASSUME NEW n, NEW T \in SUBSET Offered, PcbInv(n, T), n.ready
  PROVE  /\ T \subseteq n.claimed \cup n.dropped \cup n.probing
         /\ OwnHost \in n.claimed \cup n.dropped \/ n.ip
<1>1. T \cup {OwnHost} \subseteq Accounted(n) /\ n.probing \subseteq Offered
  BY DEF PcbInv, Pcbs
<1> QED BY <1>1, ResponderAssumption DEF Accounted, Sought, Responder!HostIf

(* mdns_priv_restart_all_pcbs_no_instance                                  *)
LEMMA RestartUnnamedFits ==
  ASSUME ResponderInv, pcbs' = Responder!restart_all_pcbs_no_instance, host_named,
         UNCHANGED <<host_named, offered, own_named>>
  PROVE  ResponderInv'
<1> DEFINE S == Responder!Unnamed
           all == [i \in Netifs |-> Thrown(Responder!Forget(pcbs[i], S), pcbs[i].probing \ S)]
<1>1. /\ S = {} => pcbs' = pcbs
      /\ S # {} => pcbs' = Responder!probe_all_pcbs(host_named, all, S, FALSE, TRUE)
  BY DEF Responder!restart_all_pcbs_no_instance, Thrown
<1>2. S \subseteq offered
  BY DEF Responder!Unnamed
<1> HIDE DEF S
<1>3. /\ offered \in SUBSET Offered /\ own_named \subseteq offered /\ FALSE \in BOOLEAN
      /\ S \in SUBSET offered
  BY <1>2 DEF ResponderInv
<1>4. CASE S = {}
  <2>1. pcbs' = pcbs
    BY <1>1, <1>4
  <2>2. ResponderInv' <=> ResponderInv
    BY <2>1 DEF ResponderInv, Responder!DuplicateCovered, Responder!DUP, Responder!others
  <2> QED BY <2>2
<1>5. CASE S # {}
  <2>1. ASSUME NEW i \in Netifs
        PROVE  /\ all[i].ready = pcbs[i].ready /\ all[i].state = pcbs[i].state
               /\ Sane(all[i], offered)
               /\ all[i].ready =>
                    /\ offered \subseteq all[i].claimed \cup all[i].dropped \cup S
                    /\ OwnHost \in all[i].claimed \cup all[i].dropped \/ all[i].ip
    <3> DEFINE n == pcbs[i]
               X == n.probing \ S
               m == Responder!Forget(n, S)
               d == Thrown(m, X)
    <3>1. Sane(n, offered) /\ PcbInv(n, offered)
      BY Fitted DEF ResponderInv
    <3>2. n \in Pcbs /\ X \in SUBSET Announced /\ OwnHost \notin S
      BY <1>3, <3>1, ResponderAssumption DEF Sane, Announced
    <3>3. /\ m \in Pcbs /\ m.ready = n.ready /\ m.state = n.state /\ m.probing = n.probing
          /\ m.ip = n.ip /\ m.queue = n.queue
          /\ m.claimed = n.claimed \ S /\ m.dropped = n.dropped \ S
      BY <3>2, Forgetting
    <3> HIDE DEF m, X
    <3>4. /\ d \in Pcbs /\ d.ready = m.ready /\ d.state = m.state /\ d.queue = m.queue
          /\ d.probing = m.probing /\ d.ip = m.ip
          /\ d.claimed = m.claimed /\ d.dropped = m.dropped \cup X
      BY <3>2, <3>3, Cut
    <3> HIDE DEF d
    <3>5. Sane(d, offered)
      BY <3>1, <3>3, <3>4 DEF Sane
    <3>6. n.ready =>
            /\ offered \subseteq n.claimed \cup n.dropped \cup n.probing
            /\ OwnHost \in n.claimed \cup n.dropped \/ n.ip
      BY <1>3, <3>1, AllCovered
    <3>7. n.ready =>
            /\ offered \subseteq d.claimed \cup d.dropped \cup S
            /\ OwnHost \in d.claimed \cup d.dropped \/ d.ip
      <4>1. n.ip <=> d.ip
        BY <3>3, <3>4
      <4>2. d.claimed = n.claimed \ S /\ d.dropped = (n.dropped \ S) \cup (n.probing \ S)
        BY <3>3, <3>4 DEF X
      <4> HIDE DEF n
      <4> QED BY <3>2, <3>6, <4>1, <4>2
    <3>8. all[i] = d
      BY DEF d, m, X
    <3> HIDE DEF all
    <3>9. all[i].ready = n.ready /\ all[i].state = n.state
      BY <3>3, <3>4, <3>8
    <3> QED BY <3>5, <3>7, <3>8, <3>9
  <2> HIDE DEF all
  <2>2. \A i \in Netifs :
          /\ Sane(all[i], offered)
          /\ all[i].ready =>
               /\ S # {} \/ all[i].ip \/ FALSE
               /\ offered \subseteq all[i].claimed \cup all[i].dropped \cup S
               /\ OwnHost \in all[i].claimed \cup all[i].dropped \/ all[i].ip \/ FALSE
    BY <1>5, <2>1
  <2>3. pcbs' = Responder!probe_all_pcbs(TRUE, all, S, FALSE, TRUE)
    <3>1. pcbs' = Responder!probe_all_pcbs(host_named, all, S, FALSE, TRUE)
      BY <1>1, <1>5
    <3> QED BY <3>1 DEF Responder!probe_all_pcbs, Responder!init_pcb_probe
  <2>4. AllRestarted(pcbs', all, offered)
    BY <1>3, <2>2, <2>3, AllProbeAnew
  <2>5. host_named' /\ host_named' \in BOOLEAN
    BY DEF ResponderInv
  <2> QED BY <1>3, <2>1, <2>4, <2>5, AllFit
<1> QED BY <1>4, <1>5

(* One more service is probed for on every interface, under a new name if  *)
(* it had one.                                                             *)
LEMMA ProbeTooFits ==
  ASSUME ResponderInv, host_named, host_named', host_named' \in BOOLEAN,
         NEW s, offered' = offered \cup {s}, s \in Offered, own_named' \subseteq offered',
         NEW all, \/ all = pcbs
                  \/ all = [i \in Netifs |-> Responder!Forget(pcbs[i], {s})],
         pcbs' = Responder!probe_all_pcbs(TRUE, all, {s}, FALSE, FALSE)
  PROVE  ResponderInv'
<1> DEFINE T == offered \cup {s}
<1>1. T \in SUBSET Offered /\ {s} \in SUBSET T /\ {s} # {} /\ s # OwnHost
  BY ResponderAssumption DEF ResponderInv
<1>2. ASSUME NEW i \in Netifs
      PROVE  /\ all[i].ready = pcbs[i].ready /\ all[i].state = pcbs[i].state
             /\ Sane(all[i], T)
             /\ all[i].ready =>
                  /\ T \subseteq all[i].claimed \cup all[i].dropped \cup {s} \cup all[i].probing
                  /\ OwnHost \in all[i].claimed \cup all[i].dropped \/ all[i].ip
  <2> DEFINE n == pcbs[i]
             d == all[i]
             S == {s}
             m == Responder!Forget(n, S)
  <2>1. Sane(n, offered) /\ PcbInv(n, offered) /\ n \in Pcbs
    BY Fitted DEF ResponderInv, Sane
  <2>2. /\ m \in Pcbs /\ m.ready = n.ready /\ m.state = n.state /\ m.probing = n.probing
        /\ m.ip = n.ip /\ m.queue = n.queue
        /\ m.claimed = n.claimed \ S /\ m.dropped = n.dropped \ S
    BY <2>1, Forgetting
  <2>3. d \in {n, m}
    OBVIOUS
  <2> HIDE DEF d, m
  <2>4. /\ d \in Pcbs /\ d.ready = n.ready /\ d.state = n.state /\ d.probing = n.probing
        /\ d.ip = n.ip /\ d.queue = n.queue
        /\ n.claimed \ S \subseteq d.claimed /\ n.dropped \ S \subseteq d.dropped
    BY <2>1, <2>2, <2>3
  <2>5. Sane(d, T)
    BY <2>1, <2>4 DEF Sane
  <2>6. n.ready =>
          /\ T \subseteq d.claimed \cup d.dropped \cup {s} \cup d.probing
          /\ OwnHost \in d.claimed \cup d.dropped \/ d.ip
    <3>1. n.ready =>
            /\ offered \subseteq n.claimed \cup n.dropped \cup n.probing
            /\ OwnHost \in n.claimed \cup n.dropped \/ n.ip
      <4>1. offered \in SUBSET Offered
        BY DEF ResponderInv
      <4> QED BY <2>1, <4>1, AllCovered
    <3>2. n.ip <=> d.ip
      BY <2>4
    <3>3. OwnHost \notin S
      BY <1>1
    <3> HIDE DEF n
    <3> QED BY <2>4, <3>1, <3>2, <3>3
  <2>7. d.ready => n.ready
    BY <2>4
  <2> HIDE DEF n
  <2>8. d.ready =>
          /\ T \subseteq d.claimed \cup d.dropped \cup {s} \cup d.probing
          /\ OwnHost \in d.claimed \cup d.dropped \/ d.ip
    BY <2>6, <2>7
  <2> QED BY <2>4, <2>5, <2>8 DEF d, n
<1> HIDE DEF T
<1>3. \A i \in Netifs :
        /\ Sane(all[i], T)
        /\ all[i].ready =>
             /\ T \subseteq all[i].claimed \cup all[i].dropped \cup {s} \cup all[i].probing
             /\ OwnHost \in all[i].claimed \cup all[i].dropped \/ all[i].ip
  BY <1>2
<1>4. AllRestarted(pcbs', all, T)
  BY <1>1, <1>3, AllProbeToo
<1>5. offered' = T
  BY DEF T
<1> QED BY <1>1, <1>2, <1>4, <1>5, AllFit

(* The calls of the program: mdns_responder.c                              *)
LEMMA HostnameSetFits ==
  ASSUME ResponderInv, Responder!HostnameSet
  PROVE  ResponderInv'
<1>1. /\ pcbs' = Responder!restart_all_pcbs /\ host_named' = TRUE
      /\ UNCHANGED <<offered, own_named>>
  BY DEF Responder!HostnameSet
<1>2. host_named' /\ host_named' \in BOOLEAN
  BY <1>1
<1> QED BY <1>1, <1>2, RestartFits

LEMMA InstanceSetFits ==
  ASSUME ResponderInv, Responder!InstanceSet
  PROVE  ResponderInv'
<1>1. /\ pcbs' = Responder!restart_all_pcbs_no_instance /\ host_named
      /\ UNCHANGED <<host_named, offered, own_named>>
  BY DEF Responder!InstanceSet
<1> QED BY <1>1, RestartUnnamedFits

LEMMA ServiceAddFits ==
  ASSUME ResponderInv, NEW s \in Offered, NEW b \in BOOLEAN, Responder!ServiceAdd(s, b)
  PROVE  ResponderInv'
<1>1. /\ host_named /\ UNCHANGED host_named /\ offered' = offered \cup {s}
      /\ own_named' = IF b THEN own_named \cup {s} ELSE own_named
      /\ pcbs' = Responder!probe_all_pcbs(host_named, pcbs, {s}, FALSE, FALSE)
  BY DEF Responder!ServiceAdd
<1>2. pcbs' = Responder!probe_all_pcbs(TRUE, pcbs, {s}, FALSE, FALSE)
  BY <1>1 DEF Responder!probe_all_pcbs, Responder!init_pcb_probe
<1>3. own_named' \subseteq offered' /\ host_named' /\ host_named' \in BOOLEAN
  BY <1>1 DEF ResponderInv
<1> QED BY <1>1, <1>2, <1>3, ProbeTooFits

(* There is no service without a host name.                                *)
LEMMA ServedIsNamed ==
  ASSUME ResponderInv, offered # {}
  PROVE  host_named
BY DEF ResponderInv

LEMMA ServiceInstanceNameSetFits ==
  ASSUME ResponderInv, NEW s \in Offered, Responder!ServiceInstanceNameSet(s)
  PROVE  ResponderInv'
<1> DEFINE all == [i \in Netifs |-> Responder!Forget(pcbs[i], {s})]
<1>1. /\ s \in offered /\ UNCHANGED <<host_named, offered>>
      /\ own_named' = own_named \cup {s}
      /\ pcbs' = Responder!probe_all_pcbs(host_named, all, {s}, FALSE, FALSE)
  BY DEF Responder!ServiceInstanceNameSet
<1>2. host_named /\ host_named' /\ host_named' \in BOOLEAN
  BY <1>1, ServedIsNamed DEF ResponderInv
<1>3. pcbs' = Responder!probe_all_pcbs(TRUE, all, {s}, FALSE, FALSE)
  BY <1>1, <1>2 DEF Responder!probe_all_pcbs, Responder!init_pcb_probe
<1>4. own_named' \subseteq offered' /\ offered' = offered \cup {s}
  BY <1>1 DEF ResponderInv
<1>5. all = [i \in Netifs |-> Responder!Forget(pcbs[i], {s})]
  OBVIOUS
<1> HIDE DEF all
<1> QED BY <1>2, <1>3, <1>4, <1>5, ProbeTooFits

LEMMA AnnounceAllFits ==
  ASSUME ResponderInv, NEW s, NEW include_ip \in BOOLEAN, NEW k,
         Responder!announce_all_pcbs(s, include_ip, k)
  PROVE  ResponderInv'
<1>1. /\ s \in offered /\ UNCHANGED <<host_named, offered, own_named>>
      /\ pcbs' = [i \in Netifs |-> Responder!pcb_announce(pcbs[i], {s}, include_ip, k)]
  BY DEF Responder!announce_all_pcbs
<1>2. host_named /\ offered \in SUBSET Offered /\ {s} \in SUBSET offered /\ {s} # {}
  BY <1>1, ServedIsNamed DEF ResponderInv
<1>3. ASSUME NEW i \in Netifs
      PROVE  /\ Fits(pcbs'[i]) /\ (pcbs[i].ready => pcbs'[i].ready)
             /\ pcbs'[i].state = 1 => pcbs[i].state = 1
  <2> DEFINE d == Responder!pcb_announce(pcbs[i], {s}, include_ip, k)
  <2>1. PcbInv(pcbs[i], offered)
    BY <1>2 DEF ResponderInv
  <2>2. /\ PcbInv(d, offered) /\ (d.ready <=> pcbs[i].ready)
        /\ d.state = 1 => pcbs[i].state = 1
    BY <1>2, <2>1, AnnounceKeeps
  <2>3. pcbs'[i] = d
    BY <1>1
  <2> HIDE DEF d
  <2> QED BY <1>2, <2>2, <2>3 DEF Fits
<1>4. DOMAIN pcbs' = Netifs
  BY <1>1
<1>5. Responder!DuplicateCovered'
  BY <1>3, CoveredKept DEF ResponderInv
<1> QED BY <1>1, <1>3, <1>4, <1>5, Fitting

LEMMA ServicesRemoveFits ==
  ASSUME ResponderInv, NEW S, Responder!ServicesRemove(S)
  PROVE  ResponderInv'
<1>1. /\ S # {} /\ S \subseteq offered /\ UNCHANGED host_named
      /\ offered' = offered \ S /\ own_named' = own_named \ S
      /\ pcbs' = [i \in Netifs |-> Responder!remove_scheduled(Responder!Forget(pcbs[i], S), S)]
  BY DEF Responder!ServicesRemove
<1>2. /\ host_named /\ host_named' /\ host_named' \in BOOLEAN /\ offered \in SUBSET Offered
      /\ S \in SUBSET offered
      /\ offered' \subseteq Offered /\ own_named' \subseteq offered'
  BY <1>1, ServedIsNamed DEF ResponderInv
<1>3. ASSUME NEW i \in Netifs
      PROVE  /\ PcbInv(pcbs'[i], offered') /\ (pcbs'[i].ready <=> pcbs[i].ready)
             /\ pcbs'[i].state = 1 => pcbs[i].state = 1
  <2> DEFINE d == Responder!remove_scheduled(Responder!Forget(pcbs[i], S), S)
  <2>1. PcbInv(pcbs[i], offered)
    BY <1>2 DEF ResponderInv
  <2>2. /\ PcbInv(d, offered \ S) /\ (d.ready <=> pcbs[i].ready)
        /\ d.state = 1 => pcbs[i].state = 1
    BY <1>2, <2>1, RemovalKeeps
  <2>3. pcbs'[i] = d
    BY <1>1
  <2> HIDE DEF d
  <2> QED BY <1>1, <2>2, <2>3
<1>4. AllRestarted(pcbs', pcbs, offered')
  <2>1. DOMAIN pcbs' = Netifs
    BY <1>1
  <2> QED BY <1>3, <2>1 DEF AllRestarted
<1> QED BY <1>2, <1>4, AllFit

(* Somebody else has the name of a service, or of the host, on an interface*)
(* that no longer probes: it says goodbye and probes again.                *)
LEMMA GivenWayFits ==
  ASSUME ResponderInv, host_named, UNCHANGED <<host_named, offered, own_named>>,
         NEW i \in Netifs, pcbs[i].ready, pcbs[i].state \notin 3 .. 5,
         NEW S \in SUBSET offered, NEW probe_ip \in BOOLEAN, S # {} \/ probe_ip,
         NEW X, X \subseteq S \/ (probe_ip /\ X \subseteq {OwnHost}),
         pcbs' = [pcbs EXCEPT ![i] =
                    Responder!init_pcb_probe(TRUE, Responder!Forget(@, X), S, probe_ip)]
  PROVE  ResponderInv'
<1> DEFINE d == Responder!init_pcb_probe(TRUE, Responder!Forget(pcbs[i], X), S, probe_ip)
<1>1. pcbs' = [pcbs EXCEPT ![i] = d]
  OBVIOUS
<1>2. PcbInv(pcbs[i], offered) /\ offered \in SUBSET Offered
  BY DEF ResponderInv
<1>3. PcbInv(d, offered) /\ d.ready /\ d.state # 1
  BY <1>2, ProbedAnew
<1> HIDE DEF d
<1>4. Fits(d)
  BY <1>3 DEF Fits
<1> QED BY <1>1, <1>3, <1>4, OneFits

LEMMA ConflictSrvFits ==
  ASSUME ResponderInv, NEW i \in Netifs, NEW s \in Offered, Responder!ConflictSrv(i, s)
  PROVE  ResponderInv'
<1> DEFINE all == [j \in Netifs |-> Responder!Forget(pcbs[j], {s})]
           renamed == Responder!probe_all_pcbs(TRUE, all, {s}, FALSE, FALSE)
           given == [pcbs EXCEPT ![i] =
                       Responder!init_pcb_probe(TRUE, Responder!Forget(@, {s}), {s}, FALSE)]
<1>1. /\ host_named /\ s \in offered /\ pcbs[i].ready
      /\ pcbs[i].state \in 3 .. 5 =>
           pcbs' \in {renamed, Responder!restart_all_pcbs_no_instance,
                      Responder!restart_all_pcbs}
      /\ pcbs[i].state \notin 3 .. 5 => pcbs' = given
      /\ UNCHANGED <<host_named, offered, own_named>>
  BY DEF Responder!ConflictSrv, Responder!PROBING, Responder!PROBE_1, Responder!PROBE_3
<1>2. host_named' /\ host_named' \in BOOLEAN
  BY <1>1 DEF ResponderInv
<1>3. CASE pcbs' = renamed
  <2>1. own_named' \subseteq offered' /\ offered' = offered \cup {s}
    BY <1>1 DEF ResponderInv
  <2>2. all = [j \in Netifs |-> Responder!Forget(pcbs[j], {s})]
    OBVIOUS
  <2> HIDE DEF all
  <2> QED BY <1>1, <1>2, <1>3, <2>1, <2>2, ProbeTooFits
<1>4. CASE pcbs' = Responder!restart_all_pcbs_no_instance
  BY <1>1, <1>4, RestartUnnamedFits
<1>5. CASE pcbs' = Responder!restart_all_pcbs
  BY <1>1, <1>2, <1>5, RestartFits
<1>6. CASE pcbs' = given /\ pcbs[i].state \notin 3 .. 5
  <2>1. {s} \in SUBSET offered /\ FALSE \in BOOLEAN /\ {s} \subseteq {s} /\ {s} # {}
    BY <1>1
  <2> QED BY <1>1, <1>6, <2>1, GivenWayFits
<1> HIDE DEF renamed, given
<1> QED BY <1>1, <1>3, <1>4, <1>5, <1>6

LEMMA ConflictTxtFits ==
  ASSUME ResponderInv, NEW i \in Netifs, NEW s \in Offered, Responder!ConflictTxt(i, s)
  PROVE  ResponderInv'
<1>1. /\ host_named /\ s \in offered /\ pcbs[i].ready /\ pcbs[i].state \notin 3 .. 5
      /\ pcbs' = [pcbs EXCEPT ![i] =
                    Responder!init_pcb_probe(TRUE, Responder!Forget(@, {s}), {s}, TRUE)]
      /\ UNCHANGED <<host_named, offered, own_named>>
  BY DEF Responder!ConflictTxt, Responder!PROBING, Responder!PROBE_1, Responder!PROBE_3
<1>2. {s} \in SUBSET offered /\ TRUE \in BOOLEAN /\ {s} \subseteq {s} /\ {s} # {}
  BY <1>1
<1> QED BY <1>1, <1>2, GivenWayFits

LEMMA ConflictAddressFits ==
  ASSUME ResponderInv, NEW i \in Netifs, Responder!ConflictAddress(i)
  PROVE  ResponderInv'
<1>1. /\ host_named /\ pcbs[i].ready
      /\ \/ pcbs' = Responder!restart_all_pcbs
         \/ /\ pcbs[i].state \notin 3 .. 5
            /\ pcbs' = [pcbs EXCEPT ![i] =
                          Responder!init_pcb_probe(TRUE, Responder!Forget(@, {OwnHost}), {}, TRUE)]
      /\ UNCHANGED <<host_named, offered, own_named>>
  BY DEF Responder!ConflictAddress, Responder!PROBING, Responder!PROBE_1, Responder!PROBE_3
<1>2. host_named' /\ host_named' \in BOOLEAN
  BY <1>1 DEF ResponderInv
<1>3. CASE pcbs' = Responder!restart_all_pcbs
  BY <1>1, <1>2, <1>3, RestartFits
<1>4. CASE /\ pcbs[i].state \notin 3 .. 5
           /\ pcbs' = [pcbs EXCEPT ![i] =
                         Responder!init_pcb_probe(TRUE, Responder!Forget(@, {OwnHost}), {}, TRUE)]
  <2>1. {} \in SUBSET offered /\ TRUE \in BOOLEAN /\ {OwnHost} \subseteq {OwnHost}
    OBVIOUS
  <2> QED BY <1>1, <1>4, <2>1, GivenWayFits
<1> QED BY <1>1, <1>3, <1>4

-----------------------------------------------------------------------------
(* What the responder keeps                                                *)

LEMMA ResponderStarts ==
  ASSUME Responder!Init
  PROVE  ResponderInv
<1> DEFINE n == [ready |-> FALSE, state |-> 0, probing |-> {}, ip |-> FALSE, queue |-> <<>>,
                 claimed |-> {}, told |-> {}, dropped |-> {}]
<1>1. /\ host_named = FALSE /\ offered = {} /\ own_named = {}
      /\ pcbs = [i \in Netifs |-> n]
  BY DEF Responder!Init, Responder!OFF
<1>2. SilentInv(n) /\ n.state = 0
  <2>1. /\ n.ready = FALSE /\ n.state = 0 /\ n.queue = <<>> /\ n.probing = {} /\ n.ip = FALSE
    OBVIOUS
  <2>2. n \in Pcbs
    BY DEF Pcbs
  <2> HIDE DEF n
  <2> QED BY <2>1, <2>2 DEF SilentInv
<1> HIDE DEF n
<1>3. \A i \in Netifs : SilentInv(pcbs[i]) /\ pcbs[i].state = 0
  BY <1>1, <1>2
<1>4. Responder!DuplicateCovered
  BY <1>3 DEF Responder!DuplicateCovered, Responder!DUP
<1> QED BY <1>1, <1>3, <1>4 DEF ResponderInv

LEMMA ResponderStep ==
  ASSUME ResponderInv, [Responder!Next]_(Responder!vars)
  PROVE  ResponderInv'
<1>1. CASE UNCHANGED Responder!vars
  BY <1>1 DEF Responder!vars, ResponderInv, Responder!DuplicateCovered, Responder!DUP,
     Responder!others
<1>2. CASE Responder!Next
  <2>1. ASSUME NEW i \in Netifs, NEW k \in DOMAIN pcbs[i].queue, Responder!Send(i, k)
        PROVE  ResponderInv'
    BY <2>1, SendFits
  <2>2. ASSUME NEW i \in Netifs,
               Responder!Enable(i) \/ Responder!Disable(i) \/ Responder!ConflictAddress(i)
        PROVE  ResponderInv'
    BY <2>2, EnableFits, DisableFits, ConflictAddressFits
  <2>3. ASSUME NEW i \in Netifs, NEW k, Responder!Announce(i, k) \/ Responder!SetDuplicate(i, k)
        PROVE  ResponderInv'
    BY <2>3, AnnounceFits, SetDuplicateFits
  <2>4. ASSUME NEW i \in Netifs, NEW x \in offered \cup {OwnHost}, NEW b \in BOOLEAN,
               Responder!Answer(i, {x}, b)
        PROVE  ResponderInv'
    BY <2>4, AnswerFits
  <2>5. ASSUME NEW i \in Netifs, NEW s \in Offered,
               Responder!ConflictSrv(i, s) \/ Responder!ConflictTxt(i, s)
        PROVE  ResponderInv'
    BY <2>5, ConflictSrvFits, ConflictTxtFits
  <2>6. CASE Responder!HostnameSet \/ Responder!InstanceSet
    BY <2>6, HostnameSetFits, InstanceSetFits
  <2>7. ASSUME NEW S, Responder!ServicesRemove(S)
        PROVE  ResponderInv'
    BY <2>7, ServicesRemoveFits
  <2>8. ASSUME NEW s \in Offered, NEW b \in BOOLEAN, Responder!ServiceAdd(s, b)
        PROVE  ResponderInv'
    BY <2>8, ServiceAddFits
  <2>9. ASSUME NEW s, NEW k, Responder!PortSet(s, k) \/ Responder!TxtSet(s, k)
        PROVE  ResponderInv'
    <3>1. TRUE \in BOOLEAN /\ FALSE \in BOOLEAN
      OBVIOUS
    <3>2. Responder!announce_all_pcbs(s, TRUE, k) \/ Responder!announce_all_pcbs(s, FALSE, k)
      BY <2>9 DEF Responder!PortSet, Responder!TxtSet
    <3> QED BY <3>1, <3>2, AnnounceAllFits
  <2>10. ASSUME NEW s \in Offered, Responder!ServiceInstanceNameSet(s)
         PROVE  ResponderInv'
    BY <2>10, ServiceInstanceNameSetFits
  <2> QED
    BY <1>2, <2>1, <2>2, <2>3, <2>4, <2>5, <2>6, <2>7, <2>8, <2>9, <2>10
    DEF Responder!Next
<1> QED BY <1>1, <1>2

(* Every reachable state of the responder is one of ResponderInv: what an  *)
(* interface probes for is what the one packet in its queue asks for, every*)
(* other packet says what was asked for three times or thrown out of a     *)
(* probe, and no service or host name is in none of these: mdns_pcb.c,     *)
(* mdns_responder.c, mdns_send.c:1759-1831.                                *)
THEOREM ResponderInvariance == Responder!Spec => []ResponderInv
<1>1. Responder!Init => ResponderInv
  BY ResponderStarts
<1>2. ResponderInv /\ [Responder!Next]_(Responder!vars) => ResponderInv'
  BY ResponderStep
<1> QED BY <1>1, <1>2, PTL DEF Responder!Spec

LEMMA SoundAnswers ==
  ASSUME NEW n, NEW T, PcbInv(n, T) \/ (SilentInv(n) /\ T = {})
  PROVE  /\ \A k \in DOMAIN n.queue : n.queue[k].answers \subseteq n.claimed \cup n.dropped
         /\ n.state \in 3 .. 5 =>
              /\ Len(n.queue) = 1 /\ n.queue[1].asks = Sought(n) /\ n.probing \subseteq T
         /\ n.state \in 6 .. 8 => n.queue # <<>>
         /\ n.state \notin 3 .. 5 => n.probing = {} /\ ~ n.ip
<1>1. CASE SilentInv(n)
  <2>1. n.queue = <<>> /\ n.probing = {} /\ ~ n.ip /\ n.state \in {0, 1, 9}
    BY <1>1 DEF SilentInv
  <2>2. DOMAIN n.queue = {} /\ n.state \notin 3 .. 5 /\ n.state \notin 6 .. 8
    BY <2>1
  <2> QED BY <2>1, <2>2
<1>2. CASE PcbInv(n, T) /\ n.state \in 3 .. 5
  <2>1. n.queue = <<Question(n)>> /\ n.probing \subseteq T
    BY <1>2 DEF PcbInv
  <2>2. Len(n.queue) = 1 /\ DOMAIN n.queue = {1} /\ n.queue[1] = Question(n)
    BY <2>1
  <2>3. n.queue[1].asks = Sought(n) /\ n.queue[1].answers = {}
    BY <2>2 DEF Question
  <2>4. n.state \notin 6 .. 8
    BY <1>2
  <2> QED BY <1>2, <2>1, <2>2, <2>3, <2>4
<1>3. CASE PcbInv(n, T) /\ n.state \notin 3 .. 5
  BY <1>3 DEF PcbInv, Statement
<1> QED BY <1>1, <1>2, <1>3

(* The responder answers for a name, asked or not, only after it asked for *)
(* it three times on that interface or threw it out of a probe; one that   *)
(* probes has one packet, which asks for what is being probed for; a       *)
(* duplicate is silent only while the other interface is up:               *)
(* mdns_pcb.c:155-303, mdns_send.c:1759-1831, mdns_receive.c:1388.         *)
THEOREM AnswersOnlyForItsOwn == Responder!Spec => []AnswersForItsOwn
<1>1. ResponderInv => AnswersForItsOwn
  <2> SUFFICES ASSUME ResponderInv PROVE AnswersForItsOwn
    OBVIOUS
  <2>1. ASSUME NEW i \in Netifs
        PROVE  /\ \A k \in DOMAIN pcbs[i].queue :
                    pcbs[i].queue[k].answers \subseteq pcbs[i].claimed \cup pcbs[i].dropped
               /\ pcbs[i].state \in 3 .. 5 =>
                    /\ Len(pcbs[i].queue) = 1 /\ pcbs[i].queue[1].asks = Sought(pcbs[i])
                    /\ pcbs[i].probing \subseteq offered
               /\ pcbs[i].state \in 6 .. 8 => pcbs[i].queue # <<>>
               /\ pcbs[i].state \notin 3 .. 5 => pcbs[i].probing = {} /\ ~ pcbs[i].ip
    <3>1. PcbInv(pcbs[i], offered) \/ (SilentInv(pcbs[i]) /\ offered = {})
      BY DEF ResponderInv
    <3> QED BY <3>1, SoundAnswers
  <2>2. Responder!AnswersForItsOwn
    BY <2>1 DEF Responder!AnswersForItsOwn
  <2>3. Responder!ProbesAsBelieved
    BY <2>1 DEF Responder!ProbesAsBelieved, Sought, Responder!PROBING, Responder!PROBE_1,
       Responder!PROBE_3, Responder!ANNOUNCING, Responder!ANNOUNCE_1, Responder!ANNOUNCE_3
  <2> QED BY <2>2, <2>3 DEF AnswersForItsOwn, ResponderInv
<1> QED BY <1>1, ResponderInvariance, PTL

-----------------------------------------------------------------------------
(* Types                                                                   *)

(* A service is added only while there are fewer than may be.              *)
Counted ==
  /\ default_named \in BOOLEAN
  /\ IsFiniteSet(offered) /\ Cardinality(offered) \in Nat
  /\ Cardinality(offered) <= MaxOffered

LEMMA OfferedCount == Responder!Cardinality(offered) = Cardinality(offered)
BY DEF Responder!Cardinality, Cardinality

LEMMA CountedFirst ==
  ASSUME Responder!Init
  PROVE  Counted
<1>1. IsFiniteSet({}) /\ Cardinality({}) = 0
  BY FS_EmptySet, Zenon
<1>2. offered = {} /\ default_named = FALSE
  BY Zenon DEF Responder!Init
<1>3. 0 \in Nat /\ 0 <= MaxOffered
  BY ResponderAssumption
<1> QED BY <1>1, <1>2, <1>3, Zenon DEF Counted

LEMMA CountedNext ==
  ASSUME Counted, [Responder!Next]_(Responder!vars)
  PROVE  Counted'
<1>1. ASSUME UNCHANGED offered, default_named' = default_named \/ default_named' = TRUE
      PROVE  Counted'
  <2>1. default_named' \in BOOLEAN
    BY <1>1, Zenon DEF Counted
  <2>2. /\ IsFiniteSet(offered) /\ Cardinality(offered) \in Nat
        /\ Cardinality(offered) <= MaxOffered /\ offered' = offered
    BY <1>1 DEF Counted
  <2> QED BY <2>1, <2>2, Zenon DEF Counted
<1>2. ASSUME NEW s, NEW b, Responder!ServiceAdd(s, b) PROVE Counted'
  <2>1. /\ s \notin offered /\ Cardinality(offered) < MaxOffered
        /\ offered' = offered \cup {s} /\ default_named' = default_named
    BY <1>2, OfferedCount, Zenon DEF Responder!ServiceAdd
  <2>2. /\ IsFiniteSet(offered \cup {s})
        /\ Cardinality(offered \cup {s}) = Cardinality(offered) + 1
    <3>1. IsFiniteSet(offered)
      BY DEF Counted
    <3>2. /\ IsFiniteSet(offered \cup {s})
          /\ Cardinality(offered \cup {s}) =
               IF s \in offered THEN Cardinality(offered) ELSE Cardinality(offered) + 1
      BY <3>1, FS_AddElement, Zenon
    <3> QED BY <2>1, <3>2
  <2>3. Cardinality(offered) \in Nat /\ MaxOffered \in Nat
    BY ResponderAssumption DEF Counted
  <2>4. Cardinality(offered) + 1 \in Nat /\ Cardinality(offered) + 1 <= MaxOffered
    BY <2>1, <2>3
  <2> QED BY <2>1, <2>2, <2>4 DEF Counted
<1>3. ASSUME NEW S, Responder!ServicesRemove(S) PROVE Counted'
  <2>1. offered' = offered \ S /\ default_named' = default_named
    BY <1>3 DEF Responder!ServicesRemove
  <2>2. offered \ S \in SUBSET offered
    OBVIOUS
  <2>3. IsFiniteSet(offered \ S) /\ Cardinality(offered \ S) <= Cardinality(offered)
    BY <2>2, FS_Subset DEF Counted
  <2>4. Cardinality(offered \ S) \in Nat
    BY <2>3, FS_CardinalityType
  <2>5. Cardinality(offered) \in Nat /\ Cardinality(offered) <= MaxOffered /\ MaxOffered \in Nat
    BY ResponderAssumption DEF Counted
  <2>6. Cardinality(offered \ S) <= MaxOffered
    BY <2>3, <2>4, <2>5
  <2> QED BY <2>1, <2>3, <2>4, <2>6 DEF Counted
<1>4. CASE UNCHANGED Responder!vars
  BY <1>1, <1>4 DEF Responder!vars
<1>5. CASE Responder!Next
  <2>1. ASSUME NEW i, NEW k, Responder!Send(i, k) PROVE Counted'
    BY <1>1, <2>1 DEF Responder!Send
  <2>2. ASSUME NEW i, Responder!Enable(i) \/ Responder!Disable(i) \/ Responder!ConflictAddress(i)
        PROVE  Counted'
    BY <1>1, <2>2 DEF Responder!Enable, Responder!Disable, Responder!ConflictAddress
  <2>3. ASSUME NEW i, NEW k, Responder!Announce(i, k) \/ Responder!SetDuplicate(i, k)
        PROVE  Counted'
    BY <1>1, <2>3 DEF Responder!Announce, Responder!SetDuplicate
  <2>4. ASSUME NEW i, NEW S, NEW b, Responder!Answer(i, S, b) PROVE Counted'
    BY <1>1, <2>4 DEF Responder!Answer
  <2>5. ASSUME NEW i, NEW s, Responder!ConflictSrv(i, s) \/ Responder!ConflictTxt(i, s)
        PROVE  Counted'
    BY <1>1, <2>5 DEF Responder!ConflictSrv, Responder!ConflictTxt
  <2>6. CASE Responder!HostnameSet \/ Responder!InstanceSet
    BY <1>1, <2>6 DEF Responder!HostnameSet, Responder!InstanceSet
  <2>7. ASSUME NEW s, NEW k, Responder!PortSet(s, k) \/ Responder!TxtSet(s, k) PROVE Counted'
    BY <1>1, <2>7 DEF Responder!PortSet, Responder!TxtSet, Responder!announce_all_pcbs
  <2>8. ASSUME NEW s, Responder!ServiceInstanceNameSet(s) PROVE Counted'
    BY <1>1, <2>8 DEF Responder!ServiceInstanceNameSet
  <2> QED
    BY <1>2, <1>3, <1>5, <2>1, <2>2, <2>3, <2>4, <2>5, <2>6, <2>7, <2>8 DEF Responder!Next
<1> QED BY <1>4, <1>5

(* There are never more services than MDNS_MAX_SERVICES, those with a name *)
(* of their own are among them, an interface that is not up is in no state *)
(* in between and holds no packets, and everything claimed is a name:      *)
(* mdns_responder.c:154-172,849-889, mdns_pcb.c:155-303.                   *)
THEOREM ResponderTypes == Responder!Spec => []Responder!TypeOK
<1>1. ResponderInv /\ Counted => Responder!TypeOK
  <2> SUFFICES ASSUME ResponderInv, Counted PROVE Responder!TypeOK
    OBVIOUS
  <2>1. ASSUME NEW i \in Netifs
        PROVE  /\ pcbs[i] \in Pcbs
               /\ pcbs[i].ready <=> pcbs[i].state \notin {0, 1}
               /\ pcbs[i].state \in {0, 1} => pcbs[i].queue = <<>>
    BY DEF ResponderInv, PcbInv, SilentInv
  <2>2. ASSUME NEW i \in Netifs
        PROVE  /\ pcbs[i].ready \in BOOLEAN /\ pcbs[i].ip \in BOOLEAN
               /\ pcbs[i].state \in {0, 1} \cup 3 .. 9
               /\ pcbs[i].claimed \cup pcbs[i].told \cup pcbs[i].dropped \subseteq Announced
    BY <2>1 DEF Pcbs
  <2>3. /\ host_named \in BOOLEAN /\ default_named \in BOOLEAN /\ own_named \subseteq offered
        /\ offered \subseteq Offered /\ Cardinality(offered) <= MaxOffered
    BY DEF ResponderInv, Counted
  <2>4. \A i \in Netifs :
          /\ pcbs[i].ready \in BOOLEAN /\ pcbs[i].ip \in BOOLEAN
          /\ pcbs[i].state \in {Responder!OFF, Responder!DUP}
                               \cup Responder!PROBE_1 .. Responder!RUNNING
          /\ pcbs[i].claimed \cup pcbs[i].told \cup pcbs[i].dropped \subseteq Responder!Items
    BY <2>2 DEF Responder!OFF, Responder!DUP, Responder!PROBE_1, Responder!RUNNING,
       Responder!Items, Announced
  <2>5. ASSUME NEW i \in Netifs, ~ pcbs[i].ready
        PROVE  pcbs[i].queue = <<>> /\ pcbs[i].state \in {Responder!OFF, Responder!DUP}
    BY <2>1, <2>5 DEF Responder!OFF, Responder!DUP
  <2>6. {host_named, default_named} \subseteq BOOLEAN
    BY <2>3, Zenon
  <2> QED BY <2>3, <2>4, <2>5, <2>6, OfferedCount, Zenon DEF Responder!TypeOK
<1>2. Responder!Init => Counted
  BY CountedFirst
<1>3. Counted /\ [Responder!Next]_(Responder!vars) => Counted'
  BY CountedNext
<1> QED BY <1>1, <1>2, <1>3, ResponderInvariance, PTL DEF Responder!Spec

=============================================================================
