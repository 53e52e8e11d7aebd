----------------------------- MODULE MdnsBrowse -----------------------------
(***************************************************************************)
(* Browsing: mdns_browser.c keeps the browses, one per service type, and   *)
(* mdns_cache.c what has been heard of their services.  Records come in    *)
(* any order: a PTR names an instance, an SRV puts it on a host, a TXT     *)
(* describes it, an A or AAAA gives a host an address; time to live 0      *)
(* takes one back.  A service is cached under its host, or under no host   *)
(* until that is known, and a host's entry goes with its last service.     *)
(*                                                                         *)
(* Every step has the service lock.  Packets, browse starts and ends share *)
(* the service task's queue; a packet may have anything in it, so when it  *)
(* was queued does not matter.  One interface; memory does not run out.    *)
(***************************************************************************)
EXTENDS Integers, Sequences

CONSTANTS
  Browses,      \* what the program may have allocated at one time
  Instances, TypeOf,    \* services, each instance of one type
  Hosts, NoHost,
  Addresses,
  Values,       \* of TXT items
  Packets,      \* sequences of records
  MDNS_ACTION_QUEUE_LEN

VARIABLES
  browse,       \* s_browse: type and state of each browse
  told,         \* what its notifier, while it is on, was last told of each
  actions,      \* the action queue
  cache         \* s_cache: services, hosts with an entry, their addresses

vars == <<browse, told, actions, cache>>

Types == {TypeOf[i] : i \in Instances}
Owners == Hosts \cup {NoHost}
NoBrowse == [state |-> "none", type |-> NoHost]
NoService == [ptr |-> 0, srv |-> 0, txt |-> {}, owner |-> NoHost]
Never == [ptr |-> 0, host |-> NoHost, addresses |-> {}, txt |-> {}]

(* Texts and addresses are kept with their time to live, in sets of pairs.  *)
Kept(pairs) == {p[1] : p \in pairs}

On(c, h) == {i \in c.cached : c.service[i].owner = h}

-----------------------------------------------------------------------------
(* mdns_cache.c, from cache c to the cache it leaves *)

(* cache_remove_entry: the addresses go with the entry.                     *)
RemoveEntry(c, h) ==
  [c EXCEPT !.entries = @ \ {h}, !.address[h] = {}]

(* What cache_remove_service and cache_move_service end with: an entry none *)
(* of whose services is left goes.                                          *)
RemoveEntryIfUnused(c, h) == IF On(c, h) = {} THEN RemoveEntry(c, h) ELSE c

(* cache_get_or_add_entry, cache_add_service *)
AddService(c, i, h) ==
  [c EXCEPT !.entries = @ \cup {h}, !.cached = @ \cup {i},
            !.service[i] = [NoService EXCEPT !.owner = h]]

cache_remove_service(c, i) ==
  RemoveEntryIfUnused([c EXCEPT !.cached = @ \ {i}, !.sync = @ \ {i},
                                !.service[i] = NoService],
                      c.service[i].owner)

cache_move_service_MutNoMark(c, i, h) ==
  RemoveEntryIfUnused([c EXCEPT !.entries = @ \cup {h}, !.service[i].owner = h],
                      c.service[i].owner)

cache_move_service(c, i, h) ==
  RemoveEntryIfUnused([c EXCEPT !.entries = @ \cup {h}, !.service[i].owner = h,
                                !.sync = @ \cup {i}],
                      c.service[i].owner)

(* mdns_priv_service_cache_to_result: no host, no addresses without an SRV. *)
Result(c, i) ==
  LET s == c.service[i] IN
  [ptr |-> s.ptr, txt |-> Kept(s.txt),
   host |-> IF s.srv > 0 THEN s.owner ELSE NoHost,
   addresses |-> IF s.srv > 0 THEN Kept(c.address[s.owner]) ELSE {}]

(* A service set to what a record says of it, to be told if that is new     *)
Update(c, i, s) ==
  [c EXCEPT !.service[i] = s, !.sync = IF s = c.service[i] THEN @ ELSE @ \cup {i}]

(* mdns_priv_cache_update_ptr *)
update_ptr(c, i, ttl) ==
  LET d == IF i \in c.cached THEN c ELSE AddService(c, i, NoHost)
  IN CASE ttl = 0 /\ i \notin c.cached -> c
       [] ttl = 0 /\ i \in c.cached -> cache_remove_service(c, i)
       [] ttl > 0 -> Update(d, i, [d.service[i] EXCEPT !.ptr = ttl])

(* An SRV or TXT record taken back, s the service without it                *)
TakenBack(c, i, s) ==
  IF s.ptr = 0 /\ s.srv = 0 /\ s.txt = {} THEN cache_remove_service(c, i)
  ELSE Update(c, i, s)

(* mdns_priv_cache_update_srv *)
update_srv(c, i, h, ttl) ==
  LET s == c.service[i]
      d == CASE i \notin c.cached -> AddService(c, i, h)
             [] i \in c.cached /\ s.owner # h -> cache_move_service(c, i, h)
             [] OTHER -> c
  IN CASE ttl = 0 /\ s.srv = 0 -> c
       [] ttl = 0 /\ s.srv > 0 -> TakenBack(c, i, [s EXCEPT !.srv = 0])
       [] ttl > 0 -> Update(d, i, [d.service[i] EXCEPT !.srv = ttl])

(* mdns_priv_cache_update_txt *)
update_txt(c, i, txt, ttl) ==
  LET s == c.service[i]
      d == IF i \in c.cached THEN c ELSE AddService(c, i, NoHost)
  IN CASE ttl = 0 /\ s.txt = {} -> c
       [] ttl = 0 /\ s.txt # {} -> TakenBack(c, i, [s EXCEPT !.txt = {}])
       [] ttl > 0 -> Update(d, i, [d.service[i] EXCEPT !.txt = {<<txt, ttl>>}])

(* cache_update_addr, for a host that has an entry: every service on it     *)
(* changes, unless the address was known or was not there to remove.        *)
update_addr(c, h, a, ttl) ==
  LET others == {p \in c.address[h] : p[1] # a}
      now == IF ttl = 0 THEN others ELSE others \cup {<<a, ttl>>}
  IN  IF h \notin c.entries \/ now = c.address[h] THEN c
      ELSE [c EXCEPT !.address[h] = now, !.sync = @ \cup On(c, h)]

(* remove_service_caches: hosts without a service go with the services.     *)
remove_service_caches(c, type) ==
  LET kept == {i \in c.cached : TypeOf[i] # type}
      hosts == {c.service[i].owner : i \in kept}
  IN  [cached |-> kept, sync |-> c.sync \cap kept, entries |-> c.entries \cap hosts,
       service |-> [i \in Instances |-> IF i \in kept THEN c.service[i] ELSE NoService],
       address |-> [h \in Owners |-> IF h \in hosts THEN c.address[h] ELSE {}]]

-----------------------------------------------------------------------------
(* A packet: mdns_parse_packet with x = [cache, told, browsing, staged].    *)

Running(type) == {b \in Browses : browse[b] = [state |-> "RUNNING", type |-> type]}

(* browse_matches_service_cache and the notifier *)
Notify(tld, B, i, result) ==
  [b \in Browses |-> IF b \in B THEN [tld[b] EXCEPT ![i] = result] ELSE tld[b]]

(* The goodbye is told before the service is forgotten.                     *)
ParsePtr(x, r) ==
  LET B == Running(TypeOf[r.instance]) IN
  IF B = {} THEN x
  ELSE [browsing |-> x.browsing \cup B, staged |-> x.staged,
        cache |-> update_ptr(x.cache, r.instance, r.ttl),
        told |-> IF r.ttl = 0 /\ x.cache.service[r.instance].ptr > 0
                   THEN Notify(x.told, B, r.instance, Never) ELSE x.told]

ParseSrvOrTxt(x, r) ==
  LET B == Running(TypeOf[r.instance]) IN
  IF B = {} THEN x
  ELSE [browsing |-> x.browsing \cup B, staged |-> x.staged, told |-> x.told,
        cache |-> IF r.type = "SRV"
                    THEN update_srv(x.cache, r.instance, r.host, r.ttl)
                    ELSE update_txt(x.cache, r.instance, r.txt, r.ttl)]

(* mdns_priv_cache_host_has_service for a running browse, or another record *)
(* of the packet was for a browse: the address waits for the packet's end,  *)
(* the last one in front.                                                   *)
ParseAddress(x, r) ==
  LET B == UNION {Running(TypeOf[i]) : i \in On(x.cache, r.host)} IN
  IF x.browsing \cup B = {} THEN x
  ELSE [browsing |-> x.browsing \cup B, staged |-> <<r>> \o x.staged,
        cache |-> x.cache, told |-> x.told]

ParseRecord(x, r) ==
  CASE r.type = "PTR" -> ParsePtr(x, r)
    [] r.type \in {"SRV", "TXT"} -> ParseSrvOrTxt(x, r)
    [] r.type = "A" -> ParseAddress(x, r)

ParseRecords(x, records) ==
  LET upTo[k \in 0 .. Len(records)] ==
        IF k = 0 THEN x ELSE ParseRecord(upTo[k - 1], records[k])
  IN  upTo[Len(records)]

(* rx_staged_ips_apply *)
ApplyStaged(c, staged) ==
  LET upTo[k \in 0 .. Len(staged)] ==
        IF k = 0 THEN c
        ELSE update_addr(upTo[k - 1], staged[k].host, staged[k].address, staged[k].ttl)
  IN  upTo[Len(staged)]

(* mdns_priv_cache_process_sync *)
process_sync(c, tld) ==
  [b \in Browses |-> [i \in Instances |->
     IF i \in c.sync /\ c.service[i].ptr > 0 /\ b \in Running(TypeOf[i])
       THEN Result(c, i) ELSE tld[b][i]]]

Record == [type : {"PTR"}, instance : Instances, ttl : Nat]
          \cup [type : {"SRV"}, instance : Instances, host : Hosts, ttl : Nat]
          \cup [type : {"TXT"}, instance : Instances, txt : Values, ttl : Nat]
          \cup [type : {"A"}, host : Hosts, address : Addresses, ttl : Nat]

ParsePacket(records) ==
  LET x == ParseRecords([cache |-> cache, told |-> told, browsing |-> {}, staged |-> <<>>],
                        records)
      c == ApplyStaged(x.cache, x.staged)
  IN  /\ cache' = [c EXCEPT !.sync = {}] /\ told' = process_sync(c, x.told)
      /\ UNCHANGED <<browse, actions>>

-----------------------------------------------------------------------------
(* The program: mdns_browse_new, mdns_browse_delete *)

Active(type) ==
  {b \in Browses : browse[b].type = type /\ browse[b].state \in {"INIT", "RUNNING"}}
Room == Len(actions) < MDNS_ACTION_QUEUE_LEN

mdns_browse_new(b, type) ==
  /\ browse[b] = NoBrowse /\ Active(type) = {} /\ Room
  /\ browse' = [browse EXCEPT ![b] = [state |-> "INIT", type |-> type]]
  /\ actions' = Append(actions, [type |-> "START", browse |-> b])
  /\ UNCHANGED <<told, cache>>

mdns_browse_delete(type) ==
  /\ Room
  /\ \E b \in Active(type) :
       /\ browse' = [browse EXCEPT ![b].state = "OFF"]
       /\ told' = [told EXCEPT ![b] = [i \in Instances |-> Never]]
       /\ actions' = Append(actions, [type |-> "END", browse |-> b])
  /\ UNCHANGED cache

(* browse_start: mdns_priv_cache_notify_browse tells it all there is.       *)
browse_start(b) ==
  /\ IF browse[b].state = "INIT"
       THEN /\ browse' = [browse EXCEPT ![b].state = "RUNNING"]
            /\ told' = [told EXCEPT ![b] = [i \in Instances |->
                 IF TypeOf[i] = browse[b].type /\ cache.service[i].ptr > 0
                   THEN Result(cache, i) ELSE @[i]]]
       ELSE UNCHANGED <<browse, told>>
  /\ UNCHANGED cache

(* browse_finish: the cache of the type goes unless it is browsed again.    *)
browse_finish(b) ==
  /\ browse' = [browse EXCEPT ![b] = NoBrowse]
  /\ cache' = IF Active(browse[b].type) = {}
                THEN remove_service_caches(cache, browse[b].type) ELSE cache
  /\ UNCHANGED told

(* mdns_priv_browse_action *)
Service ==
  /\ actions # <<>>
  /\ actions' = Tail(actions)
  /\ LET a == Head(actions)
     IN  \/ a.type = "START" /\ browse_start(a.browse)
         \/ a.type = "END" /\ browse_finish(a.browse)

-----------------------------------------------------------------------------
Init ==
  /\ browse = [b \in Browses |-> NoBrowse]
  /\ told = [b \in Browses |-> [i \in Instances |-> Never]]
  /\ actions = <<>>
  /\ cache = [cached |-> {}, sync |-> {}, entries |-> {},
              service |-> [i \in Instances |-> NoService],
              address |-> [h \in Owners |-> {}]]

Next ==
  \/ \E records \in Packets : ParsePacket(records)
  \/ \E b \in Browses, type \in Types : mdns_browse_new(b, type)
  \/ \E type \in Types : mdns_browse_delete(type)
  \/ Service

Spec == Init /\ [][Next]_vars

-----------------------------------------------------------------------------
(* Properties *)

(* Every variable keeps its range, and nothing waits to be told.            *)
TypeOK ==
  /\ \A b \in Browses : browse[b].state \in {"none", "INIT", "RUNNING", "OFF"}
  /\ cache.entries \subseteq Owners /\ cache.cached \subseteq Instances /\ cache.sync = {}
  /\ Len(actions) <= MDNS_ACTION_QUEUE_LEN

(***************************************************************************)
(* What a running browse was last told of a service is what the cache      *)
(* knows of it, host and addresses included, whatever order the records,   *)
(* the goodbyes, moves between hosts, and the browse's start came in; of a *)
(* service that is not there the last it heard was its goodbye             *)
(* (mdns_cache.c:69-77,408-463,506-569,716-791,933-966).                   *)
(***************************************************************************)
ToldIsCached ==
  \A b \in Browses, i \in Instances :
    browse[b] = [state |-> "RUNNING", type |-> TypeOf[i]] =>
      told[b][i] = IF cache.service[i].ptr > 0 THEN Result(cache, i) ELSE Never

(***************************************************************************)
(* The cache keeps nothing without a use: every host's entry has a         *)
(* service, every service a record and a browse that is on or about to     *)
(* end, though one browse of a type may start before the other has ended   *)
(* (mdns_cache.c:241-247,364-409,968-977, mdns_browser.c:135-150).         *)
(***************************************************************************)
NothingKept ==
  /\ cache.entries = {cache.service[i].owner : i \in cache.cached}
  /\ \A h \in Hosts : cache.address[h] # {} => h \in cache.entries
  /\ \A i \in cache.cached :
       /\ cache.service[i].ptr > 0 \/ cache.service[i].srv > 0 \/ cache.service[i].txt # {}
       /\ \E b \in Browses : browse[b].type = TypeOf[i] /\ browse[b].state # "none"
=============================================================================
