------------------------------ MODULE CJsonHeap ------------------------------
(***************************************************************************)
(* The items of cJSON and what its functions do to them, as operators from *)
(* heap to heap.  Nodes point to their neighbours and to their first       *)
(* child, and the prev pointer of a first child is that of the last one.   *)
(* Of a value only its kind is kept, and which of a few it is.             *)
(***************************************************************************)
EXTENDS Integers, Sequences, FiniteSets, SequencesExt

CONSTANTS
  Nodes,      \* the memory there is
  NULL,
  NoKey,      \* a name that is NULL
  Fold(_)     \* what tolower makes of a name

Free == [state |-> "free", kind |-> "array", val |-> 0, ref |-> FALSE, key |-> NoKey, isConst |-> FALSE,
         ours |-> FALSE,      \* the key is a copy that belongs to the node
         next |-> NULL, prev |-> NULL, child |-> NULL]

Used(h) == {n \in Nodes : h[n].state = "used"}
(* All unused nodes are alike: it does not matter which one malloc finds.   *)
Fresh(h) == IF \E n \in Nodes : h[n].state = "free" THEN CHOOSE n \in Nodes : h[n].state = "free" ELSE NULL

(* The list that begins at a node, followed no longer than it can be        *)
RECURSIVE Follow(_, _, _)
Follow(h, n, most) == IF n = NULL \/ most = 0 THEN <<>> ELSE <<n>> \o Follow(h, h[n].next, most - 1)
Items(h, p) == Follow(h, h[p].child, Cardinality(Nodes) + 1)
Owned(h, p) == IF h[p].ref THEN <<>> ELSE Items(h, p)

RECURSIVE TreeOf(_, _)
TreeOf(h, n) == {n} \cup UNION {TreeOf(h, Owned(h, n)[i]) : i \in DOMAIN Owned(h, n)}
RECURSIVE SeenTo(_, _, _)
SeenTo(h, n, depth) ==
  {n} \cup IF depth = 0 THEN {} ELSE UNION {SeenTo(h, Items(h, n)[i], depth - 1) : i \in DOMAIN Items(h, n)}
(* What a client sees under a node, references included                     *)
Seen(h, n) == SeenTo(h, n, Cardinality(Nodes))
Circular(h, n) == \E i \in DOMAIN Items(h, n) : n \in Seen(h, Items(h, n)[i])

-----------------------------------------------------------------------------
(* cJSON_New_Item, cJSON_Delete and the helpers, from heap to heap          *)

cJSON_New_Item(h, n, kind) == [h EXCEPT ![n] = [Free EXCEPT !.state = "used", !.kind = kind]]

(* Freeing twice, or a key that is the caller's, is what nobody survives.   *)
FreeNode(h, n) ==
  [h EXCEPT ![n] = [Free EXCEPT !.state =
      IF h[n].state # "used" \/ (~ h[n].isConst /\ h[n].key # NoKey /\ ~ h[n].ours) THEN "bad" ELSE "free"]]

RECURSIVE cJSON_Delete(_, _)
cJSON_Delete(h, n) ==
  IF n = NULL THEN h
  ELSE LET below == IF h[n].ref THEN h ELSE cJSON_Delete(h, h[n].child)
       IN cJSON_Delete(FreeNode(below, n), h[n].next)

suffix_object(h, p, i) == [h EXCEPT ![p].next = i, ![i].prev = p]

create_reference(h, n, i) == [h EXCEPT ![n] = [h[i] EXCEPT !.key = NoKey, !.ours = FALSE, !.ref = TRUE,
                                                           !.next = NULL, !.prev = NULL]]

add_item_to_array(h, a, i) ==
  LET first == h[a].child IN
  CASE first = NULL -> [h EXCEPT ![a].child = i, ![i].prev = i, ![i].next = NULL]
    [] first # NULL /\ h[first].prev # NULL -> [suffix_object(h, h[first].prev, i) EXCEPT ![first].prev = i]
    [] OTHER -> h

WithKey(h, i, name, const) ==
  [h EXCEPT ![i].key = name, ![i].ours = ~ const, ![i].isConst = const]

add_item_to_object(h, o, i, name, const) == add_item_to_array(WithKey(h, i, name, const), o, i)

get_array_item(h, a, which) == IF which < Len(Items(h, a)) THEN Items(h, a)[which + 1] ELSE NULL

(* Case sensitive, the search ends at a child that has no key.              *)
get_object_item(h, o, name, sensitive) ==
  LET l == Items(h, o)
      ends(i) == IF sensitive THEN h[l[i]].key \in {name, NoKey}
                 ELSE h[l[i]].key # NoKey /\ Fold(h[l[i]].key) = Fold(name)
      at == SelectInSeq([i \in DOMAIN l |-> i], ends)
  IN IF at = 0 \/ (at > 0 /\ h[l[at]].key = NoKey) THEN NULL ELSE l[at]

cJSON_DetachItemViaPointer_MutKeepsNext(h, p, i) ==
  LET a == IF i # h[p].child THEN [h EXCEPT ![h[i].prev].next = h[i].next] ELSE h
      b == IF h[i].next # NULL THEN [a EXCEPT ![h[i].next].prev = h[i].prev] ELSE a
      c == CASE i = b[p].child -> [b EXCEPT ![p].child = h[i].next]
             [] i # b[p].child /\ h[i].next = NULL -> [b EXCEPT ![b[p].child].prev = h[i].prev]
             [] OTHER -> b
  IN [c EXCEPT ![i].prev = NULL]

cJSON_DetachItemViaPointer(h, p, i) ==
  LET a == IF i # h[p].child THEN [h EXCEPT ![h[i].prev].next = h[i].next] ELSE h
      b == IF h[i].next # NULL THEN [a EXCEPT ![h[i].next].prev = h[i].prev] ELSE a
      c == CASE i = b[p].child -> [b EXCEPT ![p].child = h[i].next]
             [] i # b[p].child /\ h[i].next = NULL -> [b EXCEPT ![b[p].child].prev = h[i].prev]
             [] OTHER -> b
  IN [c EXCEPT ![i].prev = NULL, ![i].next = NULL]

InsertBefore(h, a, after, i) ==
  LET b == [h EXCEPT ![i].next = after, ![i].prev = h[after].prev, ![after].prev = i]
  IN IF after = h[a].child THEN [b EXCEPT ![a].child = i] ELSE [b EXCEPT ![b[i].prev].next = i]

Replaced(h, p, i, r) ==
  LET a == [h EXCEPT ![r].next = h[i].next, ![r].prev = h[i].prev]
      b == IF a[r].next # NULL THEN [a EXCEPT ![a[r].next].prev = r] ELSE a
      alone == b[b[p].child].prev = b[p].child
      c == IF b[p].child = i
             THEN [b EXCEPT ![p].child = r, ![r].prev = IF alone THEN r ELSE @]
             ELSE LET d == [b EXCEPT ![b[r].prev].next = r]
                  IN IF d[r].next = NULL THEN [d EXCEPT ![d[p].child].prev = r] ELSE d
  IN [c EXCEPT ![i].next = NULL, ![i].prev = NULL]

cJSON_ReplaceItemViaPointer(h, p, i, r) == cJSON_Delete(Replaced(h, p, i, r), i)

(* A copy, as [heap, copy, names], with memory for so many names that are   *)
(* copied; when that runs out, or there is no node, all of it is deleted    *)
(* again.  No tree here is as deep as CJSON_CIRCULAR_LIMIT, 10000.          *)
NotCopied(h, new, names) == [heap |-> cJSON_Delete(h, new), copy |-> NULL, names |-> names]

RECURSIVE cJSON_Duplicate_rec(_, _, _), CopyChildren(_, _, _, _, _)
CopyChildren(h, new, last, child, names) ==
  IF child = NULL
    THEN [heap |-> IF h[new].child = NULL THEN h ELSE [h EXCEPT ![h[new].child].prev = last],
          copy |-> new, names |-> names]
  ELSE LET r == cJSON_Duplicate_rec(h, child, names)
           linked == IF last = NULL THEN [r.heap EXCEPT ![new].child = r.copy]
                     ELSE suffix_object(r.heap, last, r.copy)
       IN IF r.copy = NULL THEN NotCopied(r.heap, new, r.names)
          ELSE CopyChildren(linked, new, r.copy, h[child].next, r.names)

NameCopied(h, n) == h[n].key # NoKey /\ ~ h[n].isConst
CopyNode(h, new, n) ==
  [h EXCEPT ![new] = [Free EXCEPT !.state = "used", !.kind = h[n].kind, !.val = h[n].val, !.key = h[n].key,
                                  !.isConst = h[n].isConst, !.ours = NameCopied(h, n)]]

cJSON_Duplicate_rec(h, n, names) ==
  LET new == Fresh(h)
      left == IF NameCopied(h, n) THEN names - 1 ELSE names
  IN CASE new = NULL -> NotCopied(h, NULL, names)
       [] new # NULL /\ left < 0 -> NotCopied([CopyNode(h, new, n) EXCEPT ![new].key = NoKey], new, names)
       [] OTHER -> CopyChildren(CopyNode(h, new, n), new, NULL, h[n].child, left)

RECURSIVE cJSON_Compare(_, _, _, _)
cJSON_Compare(h, a, b, sensitive) ==
  LET A == Items(h, a)
      B == Items(h, b)
      Within(l, other) == \A i \in DOMAIN l :
          LET match == get_object_item(h, other, h[l[i]].key, sensitive)
          IN match # NULL /\ cJSON_Compare(h, l[i], match, sensitive)
  IN /\ h[a].kind = h[b].kind
     /\ \/ a = b
        \/ h[a].kind \notin {"array", "object"} /\ h[a].val = h[b].val
        \/ /\ h[a].kind = "array"
           /\ Len(A) = Len(B)
           /\ \A i \in DOMAIN A : cJSON_Compare(h, A[i], B[i], sensitive)
        \/ /\ h[a].kind = "object"
           /\ Within(A, b)
           /\ Within(B, a)
=============================================================================
