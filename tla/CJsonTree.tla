------------------------------ MODULE CJsonTree ------------------------------
(***************************************************************************)
(* A client of cJSON that builds, edits, copies and deletes trees the way  *)
(* cJSON.h asks for: it adds only items that are in no list, to containers *)
(* it may reach, and uses a reference no longer once what it refers to has *)
(* been deleted.  Memory runs out when every node is in use; a copy of a   *)
(* key may fail at any time.  Values are left out: items are arrays and    *)
(* objects.                                                                *)
(***************************************************************************)
EXTENDS CJsonHeap

CONSTANTS
  Names,      \* the keys
  Constant,   \* which kinds of key: TRUE for those not to be copied
  MaxWhich,   \* the largest index a client passes
  MaxRefs     \* bound on the references there are at a time

VARIABLES
  heap,       \* the nodes
  held,       \* the items the client has, in no list
  lost,       \* the references nobody has any more
  kids        \* ghost: the lists the calls so far have asked for

vars == <<heap, held, lost, kids>>

-----------------------------------------------------------------------------
(* What a client may do                                                     *)

Reachable == UNION {TreeOf(heap, r) : r \in held}
Container(kind) == {p \in Reachable : heap[p].kind = kind /\ ~ heap[p].ref}
(* What may be added to a container: an item in no list that it is not in   *)
Loose(p) == {r \in held : p \notin TreeOf(heap, r)}
Child(p) == Range(Items(heap, p))
(* What is still there, and no reference to a list the reference is in, may *)
(* be read.                                                                 *)
Readable == {n \in Reachable : Seen(heap, n) \subseteq {m \in Reachable : ~ Circular(heap, m)}}

Call(h, hs, ks) ==
  /\ heap' = h
  /\ held' = hs
  /\ kids' = [n \in Nodes |-> IF h[n].state = "used" THEN ks[n] ELSE <<>>]
  /\ lost' = lost

RefsLeft == Cardinality({n \in Nodes : heap[n].ref}) < MaxRefs
NoKids(n) == [kids EXCEPT ![n] = <<>>]
Index(p, i) == SelectInSeq(kids[p], LAMBDA x : x = i)
Without(p, i) == [kids EXCEPT ![p] = RemoveAt(@, Index(p, i))]
Instead(p, i, r) == [kids EXCEPT ![p] = ReplaceAt(@, Index(p, i), r)]

cJSON_CreateArray(kind) ==
  LET n == Fresh(heap) IN
  /\ n # NULL
  /\ Call(cJSON_New_Item(heap, n, kind), held \cup {n}, NoKids(n))

(* cJSON_CreateArrayReference, cJSON_CreateObjectReference                  *)
cJSON_CreateArrayReference(p) ==
  LET n == Fresh(heap) IN
  /\ n # NULL
  /\ RefsLeft
  /\ Call([cJSON_New_Item(heap, n, heap[p].kind) EXCEPT ![n].ref = TRUE, ![n].child = heap[p].child],
          held \cup {n}, NoKids(n))

(* cJSON_CreateIntArray and its like: the array, then item after item       *)
RECURSIVE Numbers(_, _, _, _)
Numbers(h, a, last, count) ==
  LET n == Fresh(h)
      new == cJSON_New_Item(h, n, "array")
  IN CASE count = 0 -> IF h[a].child = NULL THEN h ELSE [h EXCEPT ![h[a].child].prev = last]
       [] count > 0 /\ n = NULL -> cJSON_Delete(h, a)
       [] OTHER -> Numbers(IF last = NULL THEN [new EXCEPT ![a].child = n] ELSE suffix_object(new, last, n),
                           a, n, count - 1)

cJSON_CreateIntArray(count) ==
  LET a == Fresh(heap)
      h == Numbers(cJSON_New_Item(heap, a, "array"), a, NULL, count)
      made == h[a].state = "used"
  IN /\ a # NULL
     /\ Call(h, IF made THEN held \cup {a} ELSE held,
             [n \in Nodes |-> IF n = a THEN Items(h, a) ELSE kids[n]])
     /\ made => Cardinality(Used(h)) = Cardinality(Used(heap)) + count + 1

cJSON_AddItemToArray(a, i) ==
  /\ i \in Loose(a)
  /\ Call(add_item_to_array(heap, a, i), held \ {i}, [kids EXCEPT ![a] = Append(@, i)])

cJSON_AddItemToObject(o, i, name, const) ==
  /\ i \in Loose(o)
  /\ Call(add_item_to_object(heap, o, i, name, const), held \ {i}, [kids EXCEPT ![o] = Append(@, i)])

cJSON_AddItemReferenceToArray(a, i) ==
  LET n == Fresh(heap) IN
  /\ n # NULL
  /\ RefsLeft
  /\ Call(add_item_to_array(create_reference(heap, n, i), a, n), held,
          [NoKids(n) EXCEPT ![a] = Append(@, n)])

(* When the key cannot be copied the reference made for the call is left.   *)
cJSON_AddItemReferenceToObject(o, i, name) ==
  LET n == Fresh(heap) IN
  /\ n # NULL
  /\ RefsLeft
  /\ \/ Call(add_item_to_object(create_reference(heap, n, i), o, n, name, FALSE), held,
             [NoKids(n) EXCEPT ![o] = Append(@, n)])
     \/ /\ heap' = create_reference(heap, n, i)
        /\ lost' = lost \cup {n}
        /\ kids' = NoKids(n)
        /\ UNCHANGED held

(* cJSON_AddArrayToObject and the like; without memory for the key the item *)
(* is deleted again.                                                        *)
cJSON_AddArrayToObject(o, name) ==
  LET n == Fresh(heap)
      new == cJSON_New_Item(heap, n, "array")
  IN /\ n # NULL
     /\ \/ Call(add_item_to_object(new, o, n, name, FALSE), held, [NoKids(n) EXCEPT ![o] = Append(@, n)])
        \/ Call(cJSON_Delete(new, n), held, kids)

cJSON_DetachItem(p, i) ==
  Call(cJSON_DetachItemViaPointer(heap, p, i), held \cup {i}, Without(p, i))

cJSON_DeleteItem(p, i) ==
  Call(cJSON_Delete(cJSON_DetachItemViaPointer(heap, p, i), i), held, Without(p, i))

cJSON_DetachItemFromArray(a, which) ==
  LET i == get_array_item(heap, a, which) IN
  i # NULL /\ (cJSON_DetachItem(a, i) \/ cJSON_DeleteItem(a, i))

cJSON_DetachItemFromObject(o, name, sensitive) ==
  LET i == get_object_item(heap, o, name, sensitive) IN
  i # NULL /\ (cJSON_DetachItem(o, i) \/ cJSON_DeleteItem(o, i))

cJSON_InsertItemInArray(a, which, i) ==
  LET after == get_array_item(heap, a, which) IN
  /\ i \in Loose(a)
  /\ IF after = NULL
       THEN Call(add_item_to_array(heap, a, i), held \ {i}, [kids EXCEPT ![a] = Append(@, i)])
       ELSE Call(InsertBefore(heap, a, after, i), held \ {i}, [kids EXCEPT ![a] = InsertAt(@, which + 1, i)])

cJSON_ReplaceItemInArray(a, which, r) ==
  LET i == get_array_item(heap, a, which) IN
  /\ r \in Loose(a)
  /\ i # NULL
  /\ Call(cJSON_ReplaceItemViaPointer(heap, a, i, r), held \ {r}, Instead(a, i, r))

(* The replacement has the new key even if nothing is there to replace, and *)
(* none when it cannot be copied.                                           *)
replace_item_in_object(o, name, sensitive, r) ==
  LET i == get_object_item(heap, o, name, sensitive)
      named == WithKey(heap, r, name, FALSE)
  IN /\ r \in Loose(o)
     /\ \/ i # NULL /\ Call(cJSON_ReplaceItemViaPointer(named, o, i, r), held \ {r}, Instead(o, i, r))
        \/ i = NULL /\ Call(named, held, kids)
        \/ Call([heap EXCEPT ![r].key = NoKey, ![r].ours = FALSE], held, kids)

(* As many names are copied as there is memory for then.                    *)
cJSON_Duplicate(n, recurse, names) ==
  LET new == Fresh(heap)
      r == CASE recurse -> cJSON_Duplicate_rec(heap, n, names)
             [] ~ recurse /\ names = 0 /\ NameCopied(heap, n) -> NotCopied(heap, NULL, names)
             [] OTHER -> [heap |-> CopyNode(heap, new, n), copy |-> new]
  IN /\ new # NULL
     /\ heap' = r.heap
     /\ held' = IF r.copy = NULL THEN held ELSE held \cup {r.copy}
     /\ kids' = [m \in Nodes |-> IF m \in Used(heap) THEN kids[m] ELSE Owned(r.heap, m)]
     /\ UNCHANGED lost

Delete(r) == Call(cJSON_Delete(heap, r), held \ {r}, kids)

Init ==
  /\ heap = [n \in Nodes |-> Free]
  /\ held = {}
  /\ lost = {}
  /\ kids = [n \in Nodes |-> <<>>]

Which == 0..MaxWhich
Next ==
  \/ \E kind \in {"array", "object"} : cJSON_CreateArray(kind)
  \/ \E count \in Which : cJSON_CreateIntArray(count)
  \/ \E p \in Reachable : cJSON_CreateArrayReference(p)
  \/ \E a \in Container("array") : \E i \in held : cJSON_AddItemToArray(a, i)
  \/ \E o \in Container("object") : \E i \in held, name \in Names, const \in Constant :
        cJSON_AddItemToObject(o, i, name, const)
  \/ \E a \in Container("array") : \E i \in Reachable : cJSON_AddItemReferenceToArray(a, i)
  \/ \E o \in Container("object") : \E i \in Reachable, name \in Names :
        cJSON_AddItemReferenceToObject(o, i, name)
  \/ \E o \in Container("object"), name \in Names : cJSON_AddArrayToObject(o, name)
  \/ \E p \in Container("object") : \E i \in Child(p) :
        cJSON_DetachItem(p, i) \/ cJSON_DeleteItem(p, i)
  \/ \E a \in Container("array"), which \in Which : cJSON_DetachItemFromArray(a, which)
  \/ \E o \in Container("object"), name \in Names, sensitive \in BOOLEAN :
        cJSON_DetachItemFromObject(o, name, sensitive)
  \/ \E a \in Container("array"), which \in Which : \E i \in held : cJSON_InsertItemInArray(a, which, i)
  \/ \E a \in Container("array"), which \in Which : \E r \in held : cJSON_ReplaceItemInArray(a, which, r)
  \/ \E o \in Container("object"), name \in Names, sensitive \in BOOLEAN : \E r \in held :
        replace_item_in_object(o, name, sensitive, r)
  \/ \E n \in Readable, recurse \in BOOLEAN, names \in 0..Cardinality(Nodes) : cJSON_Duplicate(n, recurse, names)
  \/ \E r \in held : Delete(r)

Spec == Init /\ [][Next]_vars

-----------------------------------------------------------------------------
TypeOK ==
  /\ heap \in [Nodes -> [state : {"free", "used", "bad"}, kind : {"array", "object"}, val : {0}, ref : BOOLEAN,
                         key : Names \cup {NoKey}, isConst : BOOLEAN, ours : BOOLEAN,
                         next : Nodes \cup {NULL}, prev : Nodes \cup {NULL}, child : Nodes \cup {NULL}]]
  /\ held \subseteq Nodes
  /\ lost \subseteq Nodes
  /\ kids \in [Nodes -> Seq(Nodes)]

(* After any series of calls each list is the one the calls asked for, in   *)
(* their order, and its prev pointers lead back, from the first item to the *)
(* last (cJSON.h says how they are kept; add_item_to_array and              *)
(* cJSON_DetachItemViaPointer rely on it).                                  *)
ListsAsAsked ==
  \A p \in Used(heap) :
    LET l == Owned(heap, p) IN
    /\ l = kids[p]
    /\ \A i \in DOMAIN l : heap[l[i]].prev = l[IF i = 1 THEN Len(l) ELSE i - 1]

(* Each node in use belongs to the client or is in one list, once; an item  *)
(* the client has points to no sibling, or deleting it would delete them;   *)
(* nothing is freed twice or not at all, but for the reference that a       *)
(* failed cJSON_AddItemReferenceToObject leaves behind.                     *)
OwnedOnce ==
  /\ \A n \in Nodes : heap[n].state # "bad"
  /\ \A r \in held : heap[r].state = "used" /\ heap[r].next = NULL /\ heap[r].prev = NULL
  /\ Used(heap) = Reachable \cup lost
  /\ \A n \in Used(heap) :
        Cardinality({p \in Used(heap) : n \in Range(Owned(heap, p))}) = (IF n \in held \cup lost THEN 0 ELSE 1)

(* A key that is freed with its node was copied for it, and a copy is freed. *)
KeysOwned == \A n \in Used(heap) : heap[n].key # NoKey => heap[n].ours = ~ heap[n].isConst

RECURSIVE DistinctKeys(_)
DistinctKeys(n) ==
  LET l == Items(heap, n)
      key(i) == heap[l[i]].key
  IN /\ heap[n].kind = "object" =>
          \A i, j \in DOMAIN l : key(i) # NoKey /\ (i # j => Fold(key(i)) # Fold(key(j)))
     /\ \A i \in DOMAIN l : DistinctKeys(l[i])

(* A copy of anything shares nothing with it, not even below a reference,   *)
(* is linked to no sibling, and compares equal to it wherever children have *)
(* distinct keys (cJSON.h on cJSON_Duplicate).                              *)
CopyIsEqual ==
  \A n \in Readable :
    LET r == cJSON_Duplicate_rec(heap, n, Cardinality(Nodes)) IN
    r.copy # NULL =>
      /\ Seen(r.heap, r.copy) \cap Used(heap) = {}
      /\ \A m \in Seen(r.heap, r.copy) : ~ r.heap[m].ref
      /\ r.heap[r.copy].next = NULL /\ r.heap[r.copy].prev = NULL
      /\ DistinctKeys(n) => \A sensitive \in BOOLEAN : cJSON_Compare(r.heap, n, r.copy, sensitive)
=============================================================================
