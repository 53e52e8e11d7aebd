---------------------------- MODULE MdnsQuerier -----------------------------
(***************************************************************************)
(* Searches that run once (mdns_querier.c).  A caller allocates a search   *)
(* and posts it to the service task; a timer decides when it is sent again *)
(* and when its time is over, and posts that; the service task, which also *)
(* takes received packets from the same queue, ends it; the caller frees   *)
(* it, and may be given its memory again while old actions still name it.  *)
(*                                                                         *)
(* Timer, service task and mdns_query_async_delete hold the service lock,  *)
(* so each is one step; mdns_query and mdns_query_async_new do not, but    *)
(* only allocate, post and wait.  What is in the results is in MdnsResults.*)
(***************************************************************************)
EXTENDS Integers, Sequences, FiniteSets, SequencesExt

CONSTANTS
  Callers,                 \* tasks that search
  Memory,                  \* where a search can be allocated
  Nowhere,
  MDNS_ACTION_QUEUE_LEN,
  Timeout,                 \* of a search, in periods of sending it again
  MaxSearches,             \* searches made, in all
  MaxPackets               \* packets received, in all

VARIABLES
  search,         \* what is in each piece of memory: see TypeOK
  s_search_once,  \* the chain of active searches
  actions,        \* the action queue
  caller,         \* where each caller's search is, and how it waits for it
  made, packets

vars == <<search, s_search_once, actions, caller, made, packets>>

SearchActions == {"ADD", "SEND", "END"}
Room(queue) == Len(queue) < MDNS_ACTION_QUEUE_LEN
Waiting(c) == caller[c].at # Nowhere
InList(list, a) == \E k \in DOMAIN list : list[k] = a

Free == [state |-> "free", age |-> 0, since |-> 0, found |-> 0, max |-> 0,
         done |-> FALSE, told |-> 0]

Expired(s) == s.age > Timeout
Full(s) == s.max > 0 /\ s.found >= s.max

-----------------------------------------------------------------------------
(* The callers *)

(* mdns_query_generic up to the semaphore, and mdns_query_async_new; with  *)
(* the action queue full the search is freed again.                         *)
Query(c, how, a, max) ==
  /\ ~ Waiting(c) /\ search[a].state = "free" /\ made < MaxSearches
  /\ Room(actions)
  /\ made' = made + 1
  /\ search' = [search EXCEPT ![a] = [Free EXCEPT !.state = "INIT", !.max = max]]
  /\ actions' = Append(actions, [type |-> "ADD", search |-> a])
  /\ caller' = [caller EXCEPT ![c] = [at |-> a, how |-> how]]
  /\ UNCHANGED <<s_search_once, packets>>

(* mdns_query_generic, from the semaphore on *)
QueryReturns(c) ==
  /\ Waiting(c) /\ caller[c].how = "blocking" /\ search[caller[c].at].done
  /\ search' = [search EXCEPT ![caller[c].at] = Free]
  /\ caller' = [caller EXCEPT ![c].at = Nowhere]
  /\ UNCHANGED <<s_search_once, actions, made, packets>>

mdns_query_async_delete_MutNotDetached(c) ==
  /\ Waiting(c) /\ caller[c].how = "async" /\ search[caller[c].at].state = "OFF"
  /\ search' = [search EXCEPT ![caller[c].at] = Free]
  /\ caller' = [caller EXCEPT ![c].at = Nowhere]
  /\ UNCHANGED <<s_search_once, actions, made, packets>>

(* Any time after the timer has given the search up, its end taken or not. *)
mdns_query_async_delete(c) ==
  /\ Waiting(c) /\ caller[c].how = "async" /\ search[caller[c].at].state = "OFF"
  /\ s_search_once' = RemoveFirst(s_search_once, caller[c].at)
  /\ search' = [search EXCEPT ![caller[c].at] = Free]
  /\ caller' = [caller EXCEPT ![c].at = Nowhere]
  /\ UNCHANGED <<actions, made, packets>>

-----------------------------------------------------------------------------
(* The timer: mdns_priv_query_start_stop, over the whole chain *)

(* send_search_action: the search as it is then, and if there is no room    *)
post(x, a, type, posted, failed) ==
  [search |-> [x.search EXCEPT ![a] = IF Room(x.actions) THEN posted ELSE failed],
   actions |-> IF Room(x.actions)
                 THEN Append(x.actions, [type |-> type, search |-> a])
                 ELSE x.actions]

RunSearch_MutEndLost(x, a) ==
  LET s == x.search[a]
      off == [s EXCEPT !.state = "OFF"]
      sent == [s EXCEPT !.state = "RUNNING", !.since = 0]
  IN CASE s.state = "OFF" -> x
       [] s.state # "OFF" /\ Expired(s) -> post(x, a, "END", off, off)
       [] s.state # "OFF" /\ ~ Expired(s) ->
            IF s.state = "INIT" \/ s.since > 1 THEN post(x, a, "SEND", sent, sent) ELSE x

RunSearch(x, a) ==
  LET s == x.search[a]
      off == [s EXCEPT !.state = "OFF"]
      running == [s EXCEPT !.state = "RUNNING"]
      sent == [running EXCEPT !.since = 0]
      due == s.state = "INIT" \/ s.since > 1
  IN CASE s.state = "OFF" -> x
       [] s.state # "OFF" /\ Expired(s) -> post(x, a, "END", off, running)
       [] s.state # "OFF" /\ ~ Expired(s) /\ due ->
            post(x, a, "SEND", sent, [running EXCEPT !.since = 2])
       [] OTHER -> x

query_start_stop ==
  LET after[k \in 0 .. Len(s_search_once)] ==
        IF k = 0 THEN [search |-> search, actions |-> actions]
                 ELSE RunSearch(after[k - 1], s_search_once[k])
      x == after[Len(s_search_once)]
  IN  search' = x.search /\ actions' = x.actions

Timer ==
  /\ query_start_stop
  /\ UNCHANGED <<s_search_once, caller, made, packets>>

(* Time passes for every search.                                            *)
Tick ==
  /\ search' = [a \in Memory |->
       IF search[a].state = "free" THEN search[a]
       ELSE [search[a] EXCEPT !.age = IF @ > Timeout THEN @ ELSE @ + 1,
                              !.since = IF @ > 1 THEN @ ELSE @ + 1]]
  /\ UNCHANGED <<s_search_once, actions, caller, made, packets>>

-----------------------------------------------------------------------------
(* The service task *)

(* search_finish: only what is still in the chain; the caller's notifier    *)
(* and semaphore.                                                           *)
Ended(s) == [s EXCEPT !.state = "OFF", !.done = TRUE, !.told = @ + 1]
search_finish(x, a) ==
  IF InList(x.list, a)
    THEN [list |-> RemoveFirst(x.list, a),
          search |-> [x.search EXCEPT ![a] = Ended(@)]]
    ELSE x

Listed == [list |-> s_search_once, search |-> search]
Becomes(x) == s_search_once' = x.list /\ search' = x.search

(* mdns_priv_query_done *)
FinishFull(x, a) == IF Full(x.search[a]) THEN search_finish(x, a) ELSE x
query_done(x) ==
  LET after[k \in 0 .. Len(x.list)] ==
        IF k = 0 THEN x ELSE FinishFull(after[k - 1], x.list[k])
  IN  after[Len(x.list)]

(* search_add, search_send (which changes nothing here) and search_finish   *)
query_action(a) ==
  CASE a.type = "ADD" -> Becomes([Listed EXCEPT !.list = <<a.search>> \o @])
    [] a.type = "SEND" -> Becomes(Listed)
    [] a.type = "END" -> Becomes(search_finish(Listed, a.search))

(* A packet with answers for some of the running searches                   *)
ParsePacket(S) ==
  LET answered == [a \in Memory |-> IF a \in S /\ ~ Full(search[a])
                                       THEN [search[a] EXCEPT !.found = @ + 1]
                                       ELSE search[a]]
  IN  Becomes(query_done([Listed EXCEPT !.search = answered]))

Service ==
  /\ actions # <<>>
  /\ actions' = Tail(actions)
  /\ IF Head(actions).type = "RX"
       THEN \E S \in SUBSET {a \in ToSet(s_search_once) :
                               search[a].state # "OFF" /\ search[a].found < 2} :
              ParsePacket(S)
       ELSE query_action(Head(actions))
  /\ UNCHANGED <<caller, made, packets>>

(* A packet comes in; with the queue full it is dropped.                    *)
Receive ==
  /\ packets < MaxPackets /\ Room(actions)
  /\ packets' = packets + 1
  /\ actions' = Append(actions, [type |-> "RX", search |-> Nowhere])
  /\ UNCHANGED <<search, s_search_once, caller, made>>

-----------------------------------------------------------------------------
Init ==
  /\ search = [a \in Memory |-> Free]
  /\ s_search_once = <<>> /\ actions = <<>>
  /\ caller = [c \in Callers |-> [at |-> Nowhere, how |-> "blocking"]]
  /\ made = 0 /\ packets = 0

Next ==
  \/ \E c \in Callers, how \in {"blocking", "async"}, a \in Memory, max \in 0 .. 1 :
       Query(c, how, a, max)
  \/ \E c \in Callers : QueryReturns(c) \/ mdns_query_async_delete(c)
  \/ Timer \/ Tick \/ Service \/ Receive

Spec == Init /\ [][Next]_vars

(* The timer is periodic, the service task waits only for its queue, time   *)
(* passes, and a caller whose semaphore has been given runs again.          *)
Fairness ==
  /\ WF_vars(Timer) /\ WF_vars(Service) /\ WF_vars(Tick)
  /\ \A c \in Callers : WF_vars(QueryReturns(c))

-----------------------------------------------------------------------------
(* Properties *)

(* Every variable keeps its range; the queue keeps to its length.           *)
TypeOK ==
  /\ \A a \in Memory :
       /\ search[a].state \in {"free", "INIT", "RUNNING", "OFF"}
       /\ search[a].age \in 0 .. Timeout + 1 /\ search[a].told \in 0 .. 1
       /\ search[a].max > 0 => search[a].found <= search[a].max
  /\ Len(actions) <= MDNS_ACTION_QUEUE_LEN

(***************************************************************************)
(* What the chain links to is allocated, linked once, and still waited for *)
(* by one caller; freeing a search never leaves it in the chain, in        *)
(* whatever order its time, its last result and its deletion come          *)
(* (mdns_querier.c:73-92,718-737).                                         *)
(***************************************************************************)
ChainIsLive ==
  /\ IsInjective(s_search_once)
  /\ \A a \in ToSet(s_search_once) :
       search[a].state # "free" /\ \E c \in Callers : caller[c].at = a

(***************************************************************************)
(* A search ends because its own time is over or it has its last result.   *)
(* The end of an earlier search that had the same memory is not taken for  *)
(* its own, though the action names nothing but the memory                 *)
(* (mdns_querier.c:73-92,140-151).                                         *)
(***************************************************************************)
EndsForItself ==
  \A a \in Memory :
    search[a].done \/ search[a].state = "OFF" => Expired(search[a]) \/ Full(search[a])

(***************************************************************************)
(* mdns_query returns: whoever waits for a search is woken in the end,     *)
(* also when there was no room for its end (mdns_querier.c:155-184,787).   *)
(***************************************************************************)
QueryEnds(c) == Waiting(c) /\ caller[c].how = "blocking" ~> ~ Waiting(c)
=============================================================================
