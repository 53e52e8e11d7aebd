------------------------------- MODULE MdnsTx -------------------------------
(***************************************************************************)
(* How mDNS sends: mdns_send.c's queue of packets ordered by the time they *)
(* are due, the timer that puts an action for each due packet into the     *)
(* action queue, and the service task that takes the actions out           *)
(* (mdns_service.c).  Timer, service task and everybody who schedules a    *)
(* packet hold the service lock, but the service task receives its action  *)
(* before it takes the lock, and others fill the action queue without it.  *)
(* Packets are addresses: one that has been freed may come back while an   *)
(* action still points to it.                                              *)
(***************************************************************************)
EXTENDS Integers, Sequences, SequencesExt

CONSTANTS
  Packets,       \* the addresses a packet may have
  Nothing,
  MDNS_ACTION_QUEUE_LEN,
  MaxOther,      \* other actions waiting in the action queue at one time
  TimeRange,         \* values of a uint32_t: 2^32
  Start,         \* the time at which mDNS starts, in ms
  MaxTime,       \* the ms a behaviour lasts
  Delays,        \* what packets are scheduled after
  MaxSends       \* transmissions of a packet


VARIABLES
  elapsed,        \* ms since the start
  tx_queue,       \* addresses from s_tx_queue_head on
  packet,         \* packet[p]: send_at, queued and transmissions left
  action_queue,   \* addresses of ACTION_TX_HANDLE, Nothing for other actions
  cursor,         \* the packet timer_cb looks at, with the lock held
  in_hand         \* what service_task has received and not executed

vars == <<elapsed, tx_queue, packet, action_queue, cursor, in_hand>>

Now == (Start + elapsed) % TimeRange
Live(p) == \E i \in DOMAIN tx_queue : tx_queue[i] = p
Unlocked == cursor = Nothing
Idle == <<>>          \* service_task waits in xQueueReceive

-----------------------------------------------------------------------------
(* mdns_priv_send_after: before the first packet that is due later, the    *)
(* times compared as they are, unsigned                                    *)
send_after_MutFront(queue, p, ms_after, sends) ==
  LET at == (Now + ms_after) % TimeRange
  IN  /\ tx_queue' = <<p>> \o queue
      /\ packet' = [packet EXCEPT
           ![p] = [send_at |-> at, queued |-> FALSE, left |-> sends]]

send_after(queue, p, ms_after, sends) ==
  LET at == (Now + ms_after) % TimeRange
      later == SelectInSeq(queue, LAMBDA q : packet[q].send_at > at)
  IN  /\ tx_queue' = InsertAt(queue, IF later = 0 THEN Len(queue) + 1 ELSE later, p)
      /\ packet' = [packet EXCEPT
           ![p] = [send_at |-> at, queued |-> FALSE, left |-> sends]]

(* A caller of the API or a handler schedules a new packet. *)
Schedule(p, ms_after, sends) ==
  /\ Unlocked /\ ~ Live(p)
  /\ send_after(tx_queue, p, ms_after, sends)
  /\ UNCHANGED <<elapsed, action_queue, cursor, in_hand>>

(* mdns_priv_clear_tx_queue_if and mdns_priv_remove_scheduled_service_     *)
(* packets free packets, whatever actions there are for them.              *)
Clear(p) ==
  /\ Unlocked /\ Live(p)
  /\ tx_queue' = RemoveFirst(tx_queue, p)
  /\ UNCHANGED <<elapsed, packet, action_queue, cursor, in_hand>>

-----------------------------------------------------------------------------
(* timer_cb: mdns_priv_send_packets *)

(* mdns_priv_queue_action, of any task *)
HasRoom == Len(action_queue) < MDNS_ACTION_QUEUE_LEN

OtherAction ==
  /\ HasRoom
  /\ Len(SelectSeq(action_queue, LAMBDA a : a = Nothing)) < MaxOther
  /\ action_queue' = Append(action_queue, Nothing)
  /\ UNCHANGED <<elapsed, tx_queue, packet, cursor, in_hand>>

Due(p) == (packet[p].send_at - Now) % TimeRange >= TimeRange \div 2

(* Find the first packet that is not queued, and begin if it is due. *)
TimerLocks ==
  /\ Unlocked
  /\ LET i == SelectInSeq(tx_queue, LAMBDA p : ~ packet[p].queued)
     IN  i # 0 /\ Due(tx_queue[i]) /\ cursor' = tx_queue[i]
  /\ UNCHANGED <<elapsed, tx_queue, packet, action_queue, in_hand>>

(* One turn of its loop: an action if there is room, then the next packet *)
TimerQueues ==
  /\ ~ Unlocked
  /\ packet' = [packet EXCEPT ![cursor].queued = HasRoom]
  /\ action_queue' = IF HasRoom THEN Append(action_queue, cursor)
                                ELSE action_queue
  /\ LET i == SelectInSeq(tx_queue, LAMBDA p : p = cursor) + 1
     IN  cursor' = IF i <= Len(tx_queue) /\ Due(tx_queue[i])
                     THEN tx_queue[i] ELSE Nothing
  /\ UNCHANGED <<elapsed, tx_queue, in_hand>>

-----------------------------------------------------------------------------
(* service_task *)

Receive ==
  /\ in_hand = Idle /\ action_queue # <<>>
  /\ in_hand' = <<Head(action_queue)>>
  /\ action_queue' = Tail(action_queue)
  /\ UNCHANGED <<elapsed, tx_queue, packet, cursor>>

(* send_packet's condition *)
Expected(p) == tx_queue # <<>> /\ Head(tx_queue) = p /\ packet[p].queued

SendPacket_MutStillQueued(p, ms_after) ==
  /\ Unlocked /\ in_hand = <<p>>
  /\ Expected(p)
  /\ in_hand' = Idle
  /\ IF packet[p].left > 1
       THEN /\ tx_queue' = Append(Tail(tx_queue), p)
            /\ packet' = [packet EXCEPT ![p].left = @ - 1]
       ELSE tx_queue' = Tail(tx_queue) /\ UNCHANGED packet
  /\ UNCHANGED <<elapsed, action_queue, cursor>>

(* send_packet: transmit it, and schedule it again or free it *)
SendPacket(p, ms_after) ==
  /\ Unlocked /\ in_hand = <<p>>
  /\ Expected(p)
  /\ in_hand' = Idle
  /\ IF packet[p].left > 1
       THEN send_after(Tail(tx_queue), p, ms_after, packet[p].left - 1)
       ELSE tx_queue' = Tail(tx_queue) /\ UNCHANGED packet
  /\ UNCHANGED <<elapsed, action_queue, cursor>>

(* "Skipping transmit of an unexpected packet!" *)
SkipPacket(p) ==
  /\ Unlocked /\ in_hand = <<p>>
  /\ ~ Expected(p)
  /\ in_hand' = Idle
  /\ UNCHANGED <<elapsed, tx_queue, packet, action_queue, cursor>>

ExecuteOther ==
  /\ Unlocked /\ in_hand = <<Nothing>>
  /\ in_hand' = Idle
  /\ UNCHANGED <<elapsed, tx_queue, packet, action_queue, cursor>>

Tick ==
  /\ elapsed < MaxTime
  /\ elapsed' = elapsed + 1
  /\ UNCHANGED <<tx_queue, packet, action_queue, cursor, in_hand>>

Init ==
  /\ elapsed = 0
  /\ tx_queue = <<>>
  /\ packet = [p \in Packets |-> [send_at |-> 0, queued |-> FALSE, left |-> 0]]
  /\ action_queue = <<>> /\ cursor = Nothing /\ in_hand = Idle

Timer == TimerLocks \/ TimerQueues
Service ==
  \/ Receive \/ ExecuteOther
  \/ \E p \in Packets : SkipPacket(p) \/ \E d \in Delays : SendPacket(p, d)

Next ==
  \/ \E p \in Packets, d \in Delays, n \in 1 .. MaxSends : Schedule(p, d, n)
  \/ \E p \in Packets : Clear(p)
  \/ OtherAction \/ Timer \/ Service \/ Tick

Spec == Init /\ [][Next]_vars

(* The timer is periodic, the service task blocks on nothing but its queue *)
(* and the lock, which nobody keeps; time goes on.                         *)
FairSpec == Spec /\ WF_vars(Timer) /\ WF_vars(Receive) /\ SF_vars(Service)
                 /\ WF_vars(Tick)

-----------------------------------------------------------------------------
(* Properties *)

(* Every variable keeps its range, and no packet is in the queue twice. *)
TypeOK ==
  /\ tx_queue \in Seq(Packets) /\ IsInjective(tx_queue)
  /\ packet \in [Packets -> [send_at : 0 .. TimeRange - 1, queued : BOOLEAN,
                             left : 0 .. MaxSends]]
  /\ Len(action_queue) <= MDNS_ACTION_QUEUE_LEN
  /\ cursor \in Packets \cup {Nothing}
  /\ cursor # Nothing => Live(cursor)

(***************************************************************************)
(* "packet to be handled should be at tx head" (mdns_send.c:1846): when    *)
(* the service task comes to the last action of a packet that is queued,   *)
(* that packet is the first of the queue.  Otherwise the packet is passed  *)
(* over, keeps its mark, so that the timer passes over it too, and ends up *)
(* as a head that no action ever takes away: nothing is sent any more.     *)
(***************************************************************************)
HandledAtHead ==
  \A p \in Packets :
    /\ in_hand = <<p>> /\ Unlocked /\ Live(p) /\ packet[p].queued
    /\ ~ Contains(action_queue, p)
    => Expected(p)

(* No packet overtakes another one that is due earlier: mdns_send.c:1641.  *)
InOrderOfTime ==
  \A i, j \in DOMAIN tx_queue :
    i < j => packet[tx_queue[i]].send_at <= packet[tx_queue[j]].send_at

(* A packet that is due is sent, or was cleared: mdns_send.c:1720-1752.    *)
DueIsSent(p) == Live(p) /\ Due(p) ~> ~ Live(p) \/ ~ Due(p)
=============================================================================
