------------------------------ MODULE CJsonUtils ------------------------------
(***************************************************************************)
(* cJSON_Utils.c: JSON pointers, patches and merge patches, on the items of *)
(* CJsonHeap.  A name or a pointer is a sequence of character codes; a      *)
(* patch is a record, its "value" an item.  There is memory for everything. *)
(* A client has two documents, generates what leads from the one to the     *)
(* other, and applies it to a copy of the first or to the first itself.     *)
(***************************************************************************)
EXTENDS CJsonHeap

CONSTANTS
  Documents,  \* the documents there are, [kind, val, kids : Seq([key, doc])]
  Targets,    \* what a patch is applied to: "copy" taken before it was generated, or the "same" document
  Names,      \* the last steps of the paths of single patches
  None

VARIABLES
  heap,
  from, to,   \* the roots of the documents
  work,       \* the root of the document that is changed
  sensitive,  \* which of the functions are called, ...CaseSensitive or the others
  patches,    \* the patches generated, or the one there is
  merge,      \* the merge patch generated
  did,        \* the last call
  told        \* what it returned, what it should lead to, and whether its paths end without an escape

vars == <<heap, from, to, work, sensitive, patches, merge, did, told>>

Slash == 47
Tilde == 126
Zero == 48
Escapes == {Slash, Tilde}

-----------------------------------------------------------------------------
(* Strings                                                                  *)

Lower(s, name) == IF s THEN name ELSE Fold(name)

(* The first element with that quality, NULL if there is none               *)
FirstOf(l, Quality(_)) ==
  LET at == SelectInSeq(l, Quality) IN IF at = 0 THEN NULL ELSE l[at]

Sign(a, b) ==
  LET x == Append(a, 0)
      y == Append(b, 0)
      at == SelectInSeq([i \in 1..(IF Len(x) < Len(y) THEN Len(x) ELSE Len(y)) |-> x[i] # y[i]], LAMBDA differ : differ)
  IN IF at = 0 THEN 0 ELSE x[at] - y[at]

compare_strings(a, b, s) == IF NoKey \in {a, b} THEN 1 ELSE Sign(Lower(s, a), Lower(s, b))

encode_string_as_pointer(name) ==
  FlattenSeq([i \in DOMAIN name |-> CASE name[i] = Slash -> <<Tilde, Zero + 1>>
                                      [] name[i] = Tilde -> <<Tilde, Zero>>
                                      [] OTHER -> <<name[i]>>])

(* The write position falls behind at an escape, after which only escapes   *)
(* are written; that of a slash is written one too far.                     *)
RECURSIVE Decode(_, _, _)
Decode(str, i, d) ==
  LET escape == IF i < Len(str) THEN str[i + 1] ELSE 0 IN
  CASE i > Len(str) -> SubSeq(str, 1, d - 1)
    [] i <= Len(str) /\ str[i] # Tilde -> Decode(str, i + 1, d + 1)
    [] i <= Len(str) /\ str[i] = Tilde /\ escape = Zero -> Decode([str EXCEPT ![d] = Tilde], i + 2, d + 1)
    [] i <= Len(str) /\ str[i] = Tilde /\ escape = Zero + 1 -> Decode([str EXCEPT ![d + 1] = Slash], i + 2, d + 1)
    [] OTHER -> str
decode_pointer_inplace(str) == Decode(str, 1, 1)

EndOfToken(pointer) ==
  LET at == SelectInSeq(pointer, LAMBDA c : c = Slash) IN IF at = 0 THEN Len(pointer) ELSE at - 1
Token(pointer) == SubSeq(pointer, 1, EndOfToken(pointer))
Remainder(pointer) == SubSeq(pointer, EndOfToken(pointer) + 1, Len(pointer))

RECURSIVE compare_pointers(_, _, _)
compare_pointers(name, pointer, s) ==
  LET ended == pointer = <<>> \/ (pointer # <<>> /\ Head(pointer) = Slash) IN
  CASE name = <<>> \/ ended -> (name = <<>>) = ended
    [] name # <<>> /\ ~ ended /\ Head(pointer) = Tilde ->
          /\ Len(pointer) > 1
          /\ <<pointer[2], Head(name)>> \in {<<Zero, Tilde>>, <<Zero + 1, Slash>>}
          /\ compare_pointers(Tail(name), Tail(Tail(pointer)), s)
    [] OTHER -> /\ Lower(s, <<Head(name)>>) = Lower(s, <<Head(pointer)>>)
                /\ compare_pointers(Tail(name), Tail(pointer), s)

(* -1 when there is none; no digits at all are index 0.                     *)
IndexOf(digits) ==
  IF (Len(digits) > 1 /\ digits[1] = Zero) \/ (\E i \in DOMAIN digits : digits[i] - Zero \notin 0..9) THEN -1
  ELSE FoldLeft(LAMBDA n, c : 10 * n + c - Zero, 0, digits)
decode_array_index_from_pointer(pointer) == IndexOf(Token(pointer))

Digits(index) == <<Zero + index>>     \* a document has no more than ten items in a list

RECURSIVE cJSONUtils_FindPointerFromObjectTo(_, _, _)
cJSONUtils_FindPointerFromObjectTo(h, object, target) ==
  LET l == Items(h, object)
      below == [i \in DOMAIN l |-> cJSONUtils_FindPointerFromObjectTo(h, l[i], target)]
      at == SelectInSeq(below, LAMBDA p : p # None)
  IN CASE object = target -> <<>>
       [] object # target /\ at = 0 -> None
       [] object # target /\ at # 0 /\ h[object].kind = "array" -> <<Slash>> \o Digits(at - 1) \o below[at]
       [] OTHER -> <<Slash>> \o encode_string_as_pointer(h[l[at]].key) \o below[at]

ItemAt(h, a, which) == IF which < 0 THEN NULL ELSE get_array_item(h, a, which)
(* The item that the first token of a pointer names                         *)
Member(h, item, pointer, s) ==
  CASE h[item].kind = "array" -> ItemAt(h, item, decode_array_index_from_pointer(pointer))
    [] h[item].kind = "object" -> FirstOf(Items(h, item), LAMBDA c : compare_pointers(h[c].key, pointer, s))
    [] OTHER -> NULL

RECURSIVE get_item_from_pointer(_, _, _, _)
get_item_from_pointer(h, item, pointer, s) ==
  IF item = NULL \/ pointer = <<>> \/ (pointer # <<>> /\ Head(pointer) # Slash) THEN item
  ELSE get_item_from_pointer(h, Member(h, item, Tail(pointer), s), Remainder(Tail(pointer)), s)

-----------------------------------------------------------------------------
(* Sorting and comparing: from heap to [heap, ...], since comparing sorts   *)

RECURSIVE Merged(_, _, _, _)
Merged(h, l, m, s) ==
  CASE l = <<>> -> m
    [] l # <<>> /\ m = <<>> -> l
    [] OTHER -> IF compare_strings(h[Head(l)].key, h[Head(m)].key, s) < 0
                  THEN <<Head(l)>> \o Merged(h, Tail(l), m, s)
                  ELSE <<Head(m)>> \o Merged(h, l, Tail(m), s)

(* The first item of the result keeps the prev pointer it had: NULL if a    *)
(* list was split before it, otherwise that to the item that was the last.  *)
Split(h, l, half) == [h EXCEPT ![l[half]].next = NULL, ![l[half + 1]].prev = NULL]
Linked(h, l) ==
  LET Link(g, i) == [g EXCEPT ![l[i]].next = l[i + 1], ![l[i + 1]].prev = l[i]]
  IN [heap |-> FoldLeft(Link, h, [i \in 1..(Len(l) - 1) |-> i]), list |-> l]

RECURSIVE sort_list(_, _, _)
sort_list(h, l, s) ==
  LET half == (Len(l) + 1) \div 2
      Join(first, second) == Linked(second.heap, Merged(h, first.list, second.list, s))
      Second(first) == Join(first, sort_list(first.heap, SubSeq(l, half + 1, Len(l)), s))
  IN IF \A i \in 1..(Len(l) - 1) : compare_strings(h[l[i]].key, h[l[i + 1]].key, s) < 0
       THEN [heap |-> h, list |-> l]
       ELSE Second(sort_list(Split(h, l, half), SubSeq(l, 1, half), s))

sort_object(h, o, s) ==
  LET Begin(r) == [r.heap EXCEPT ![o].child = Head(r.list)]
  IN IF h[o].child = NULL THEN h ELSE Begin(sort_list(h, Items(h, o), s))

RECURSIVE compare_json(_, _, _, _), CompareItems(_, _, _, _, _)
CompareItems(h, l, m, named, s) ==
  LET Rest(r) == IF r.same THEN CompareItems(r.heap, Tail(l), Tail(m), named, s) ELSE r IN
  CASE l = <<>> \/ m = <<>> -> [heap |-> h, same |-> l = m]
    [] l # <<>> /\ m # <<>> /\ named /\ compare_strings(h[Head(l)].key, h[Head(m)].key, s) # 0 ->
          [heap |-> h, same |-> FALSE]
    [] OTHER -> Rest(compare_json(h, Head(l), Head(m), s))
compare_json(h, a, b, s) ==
  LET Compare(g, named) == CompareItems(g, Items(g, a), Items(g, b), named, s) IN
  CASE NULL \in {a, b} -> [heap |-> h, same |-> FALSE]
    [] NULL \notin {a, b} /\ h[a].kind # h[b].kind -> [heap |-> h, same |-> FALSE]
    [] NULL \notin {a, b} /\ h[a].kind = h[b].kind /\ h[a].kind \in {"array", "object"} ->
          Compare(IF h[a].kind = "array" THEN h ELSE sort_object(sort_object(h, a, s), b, s), h[a].kind = "object")
    [] OTHER -> [heap |-> h, same |-> h[a].val = h[b].val]

-----------------------------------------------------------------------------
(* Applying a patch                                                         *)

Parent(path) == SubSeq(path, 1, SelectLastInSeq(path, LAMBDA c : c = Slash) - 1)
Child(path) == decode_pointer_inplace(SubSeq(path, SelectLastInSeq(path, LAMBDA c : c = Slash) + 1, Len(path)))

(* From an object the first item with the name goes, in either case.        *)
ItemOf(h, parent, child) ==
  CASE parent = NULL -> NULL
    [] parent # NULL /\ h[parent].kind = "array" -> ItemAt(h, parent, decode_array_index_from_pointer(child))
    [] parent # NULL /\ h[parent].kind = "object" -> get_object_item(h, parent, child, FALSE)
    [] OTHER -> NULL
DetachFrom(h, parent, item) ==
  [heap |-> IF item = NULL THEN h ELSE cJSON_DetachItemViaPointer(h, parent, item), item |-> item]
detach_path(h, object, path, s) ==
  LET From(parent) == DetachFrom(h, parent, ItemOf(h, parent, Child(path)))
  IN IF Slash \notin Range(path) THEN [heap |-> h, item |-> NULL]
     ELSE From(get_item_from_pointer(h, object, Parent(path), s))

Duplicated(h, n) ==
  LET Result(r) == [heap |-> r.heap, item |-> r.copy]
  IN IF n = NULL THEN [heap |-> h, item |-> NULL] ELSE Result(cJSON_Duplicate_rec(h, n, Cardinality(Nodes)))

overwrite_item(h, root, value) ==
  LET Fill(g) == [g EXCEPT ![root] = [g[value] EXCEPT !.key = NoKey, !.ours = FALSE], ![value] = Free]
  IN Fill(cJSON_Delete(h, h[root].child))

insert_item_in_array(h, a, which, i) ==
  IF which = Len(Items(h, a)) THEN add_item_to_array(h, a, i)
  ELSE InsertBefore(h, a, get_array_item(h, a, which), i)

DeleteFromObject(h, o, name, s) ==
  LET Without(old) == IF old = NULL THEN h ELSE cJSON_Delete(cJSON_DetachItemViaPointer(h, o, old), old)
  IN Without(get_object_item(h, o, name, s))

Ends(h, status) == [heap |-> h, status |-> status]

(* The end of apply_patch: value is added at the path, or deleted again     *)
AddTo(h, parent, child, value, s) ==
  LET kind == IF parent = NULL THEN "none" ELSE h[parent].kind
      Insert(which) ==
        CASE which < 0 -> Ends(cJSON_Delete(h, value), 11)
          [] which > Len(Items(h, parent)) -> Ends(cJSON_Delete(h, value), 10)
          [] OTHER -> Ends(insert_item_in_array(h, parent, which, value), 0)
  IN CASE kind = "array" /\ child = <<45>> -> Ends(add_item_to_array(h, parent, value), 0)
       [] kind = "array" /\ child # <<45>> -> Insert(decode_array_index_from_pointer(child))
       [] kind = "object" ->
             Ends(add_item_to_object(DeleteFromObject(h, parent, child, s), parent, value, child, FALSE), 0)
       [] OTHER -> Ends(cJSON_Delete(h, value), 9)
AddAt(h, object, path, value, s) ==
  IF Slash \notin Range(path) THEN Ends(cJSON_Delete(h, value), 9)
  ELSE AddTo(h, get_item_from_pointer(h, object, Parent(path), s), Child(path), value, s)

(* The whole document is removed or replaced.                               *)
PatchRoot(h, object, patch) ==
  LET Overwrite(new) == overwrite_item(new.heap, object, new.item) IN
  CASE patch.op = "remove" ->
         Ends([cJSON_Delete(h, h[object].child) EXCEPT ![object] = [Free EXCEPT !.state = "used", !.kind = "invalid"]], 0)
    [] patch.op # "remove" /\ patch.value = NULL -> Ends(h, 7)
    [] OTHER -> Ends(Overwrite(Duplicated(h, patch.value)), 0)

(* What is moved, copied or new, [heap, item], status if there is none      *)
Source(h, object, patch, s) ==
  CASE patch.op = "move" -> detach_path(h, object, patch.from, s)
    [] patch.op = "copy" -> Duplicated(h, get_item_from_pointer(h, object, patch.from, s))
    [] OTHER -> Duplicated(h, patch.value)

apply_patch(h, object, patch, s) ==
  LET op == patch.op
      Test(r) == Ends(r.heap, IF r.same THEN 0 ELSE 1)
      Add(r) == IF r.item = NULL THEN Ends(r.heap, IF op \in {"move", "copy"} THEN 5 ELSE 7)
                ELSE AddAt(r.heap, object, patch.path, r.item, s)
      Gone(old) == [old EXCEPT !.heap = cJSON_Delete(@, old.item)]
      Before(old) == CASE old.item = NULL -> Ends(h, 13)
                       [] old.item # NULL /\ op = "remove" -> Ends(old.heap, 0)
                       [] OTHER -> Add(Source(old.heap, object, patch, s))
  IN CASE patch.path = None -> Ends(h, 2)
       [] patch.path # None /\ op = "invalid" -> Ends(h, 3)
       [] patch.path # None /\ op = "test" ->
             Test(compare_json(h, get_item_from_pointer(h, object, patch.path, s), patch.value, s))
       [] patch.path = <<>> /\ op \in {"remove", "replace", "add"} -> PatchRoot(h, object, patch)
       [] patch.path \notin {None, <<>>} /\ op \in {"remove", "replace"} ->
             Before(Gone(detach_path(h, object, patch.path, s)))
       [] patch.path # None /\ op \in {"move", "copy"} /\ patch.from = None -> Ends(h, 4)
       [] OTHER -> Add(Source(h, object, patch, s))

RECURSIVE ApplyFrom(_, _, _, _)
ApplyFrom(h, object, rest, s) ==
  IF rest = <<>> THEN [heap |-> h, status |-> 0]
  ELSE LET After(r) == IF r.status # 0 THEN r ELSE ApplyFrom(r.heap, object, Tail(rest), s)
       IN After(apply_patch(h, object, Head(rest), s))

-----------------------------------------------------------------------------
(* Generating patches: from heap to [heap, patches]                         *)

compose_patch(g, op, path, suffix, value) ==
  LET full == IF suffix = None THEN path ELSE path \o <<Slash>> \o encode_string_as_pointer(suffix)
      Appended(copy) == [heap |-> copy.heap,
                         patches |-> Append(g.patches, [op |-> op, path |-> full, from |-> None, value |-> copy.item])]
  IN Appended(Duplicated(g.heap, value))

RECURSIVE create_patches(_, _, _, _, _), ArrayPatches(_, _, _, _, _, _), ObjectPatches(_, _, _, _, _)
ArrayPatches_MutMovesOn(g, path, index, l, m, s) ==
  LET below == path \o <<Slash>> \o Digits(index) IN
  CASE l # <<>> /\ m # <<>> ->
          ArrayPatches(create_patches(g, below, Head(l), Head(m), s), path, index + 1, Tail(l), Tail(m), s)
    [] l # <<>> /\ m = <<>> ->
          ArrayPatches(compose_patch(g, "remove", path, Digits(index), NULL), path, index + 1, Tail(l), m, s)
    [] l = <<>> /\ m # <<>> ->
          ArrayPatches(compose_patch(g, "add", path, <<45>>, Head(m)), path, index + 1, l, Tail(m), s)
    [] OTHER -> g
(* The items left over are removed from the same place, one by one.         *)
ArrayPatches(g, path, index, l, m, s) ==
  LET below == path \o <<Slash>> \o Digits(index) IN
  CASE l # <<>> /\ m # <<>> ->
          ArrayPatches(create_patches(g, below, Head(l), Head(m), s), path, index + 1, Tail(l), Tail(m), s)
    [] l # <<>> /\ m = <<>> ->
          ArrayPatches(compose_patch(g, "remove", path, Digits(index), NULL), path, index, Tail(l), m, s)
    [] l = <<>> /\ m # <<>> ->
          ArrayPatches(compose_patch(g, "add", path, <<45>>, Head(m)), path, index + 1, l, Tail(m), s)
    [] OTHER -> g
Compared(l, m, Compare(_, _)) ==
  CASE l = <<>> -> 1
    [] l # <<>> /\ m = <<>> -> -1
    [] OTHER -> Compare(Head(l), Head(m))
ObjectPatches(g, path, l, m, s) ==
  LET key(n) == g.heap[n].key
      below == path \o <<Slash>> \o encode_string_as_pointer(key(Head(l)))
      diff == Compared(l, m, LAMBDA a, b : compare_strings(key(a), key(b), s))
  IN CASE l = <<>> /\ m = <<>> -> g
       [] l # <<>> /\ m # <<>> /\ diff = 0 ->
             ObjectPatches(create_patches(g, below, Head(l), Head(m), s), path, Tail(l), Tail(m), s)
       [] l # <<>> /\ diff < 0 -> ObjectPatches(compose_patch(g, "remove", path, key(Head(l)), NULL), path, Tail(l), m, s)
       [] OTHER -> ObjectPatches(compose_patch(g, "add", path, key(Head(m)), Head(m)), path, l, Tail(m), s)
create_patches(g, path, a, b, s) ==
  LET h == g.heap
      Members(r) == ObjectPatches(r, path, Items(r.heap, a), Items(r.heap, b), s)
      changed == h[a].kind # h[b].kind \/ (h[a].kind \notin {"array", "object"} /\ h[a].val # h[b].val)
  IN CASE changed -> compose_patch(g, "replace", path, None, b)
       [] ~ changed /\ h[a].kind = "array" -> ArrayPatches(g, path, 0, Items(h, a), Items(h, b), s)
       [] ~ changed /\ h[a].kind = "object" -> Members([g EXCEPT !.heap = sort_object(sort_object(@, a, s), b, s)])
       [] OTHER -> g

-----------------------------------------------------------------------------
(* Merge patches: from heap to [heap, item]                                 *)

AddNamed(h, o, i, name) == IF i = NULL THEN h ELSE add_item_to_object(h, o, i, name, FALSE)

RECURSIVE merge_patch(_, _, _, _), MergeMembers(_, _, _, _)
MergeMembers(h, target, l, s) ==
  LET name == h[Head(l)].key
      Detached(old) == IF old = NULL THEN h ELSE cJSON_DetachItemViaPointer(h, target, old)
      Merge(old) == merge_patch(Detached(old), old, Head(l), s)
      Add(r) == AddNamed(r.heap, target, r.item, name)
  IN IF l = <<>> THEN [heap |-> h, item |-> target]
     ELSE MergeMembers(IF h[Head(l)].kind = "null" THEN DeleteFromObject(h, target, name, s)
                       ELSE Add(Merge(get_object_item(h, target, name, s))), target, Tail(l), s)
merge_patch(h, target, patch, s) ==
  LET Into(g, n) == MergeMembers(g, n, Items(h, patch), s)
      New(gone) == Into(cJSON_New_Item(gone, Fresh(gone), "object"), Fresh(gone))
  IN CASE h[patch].kind # "object" -> Duplicated(cJSON_Delete(h, target), patch)
       [] h[patch].kind = "object" /\ (target = NULL \/ (target # NULL /\ h[target].kind # "object")) ->
             New(cJSON_Delete(h, target))
       [] OTHER -> Into(h, target)

RECURSIVE generate_merge_patch(_, _, _, _), MembersPatch(_, _, _, _, _)
(* The members are in the order of either case and are compared by strcmp;  *)
(* below, the search is without case whatever the caller asked for.         *)
MembersPatch(h, patch, l, m, s) ==
  LET diff == Compared(l, m, LAMBDA a, b : Sign(h[a].key, h[b].key))
      Add(r, i) == AddNamed(r.heap, patch, r.item, h[i].key)
      Change(r) == IF r.same THEN r.heap ELSE Add(generate_merge_patch(r.heap, Head(l), Head(m), FALSE), Head(m))
      Removal(n) == Add([heap |-> cJSON_New_Item(h, n, "null"), item |-> n], Head(l))
  IN CASE l = <<>> /\ m = <<>> -> h
       [] l # <<>> /\ diff < 0 -> MembersPatch(Removal(Fresh(h)), patch, Tail(l), m, s)
       [] m # <<>> /\ diff > 0 -> MembersPatch(Add(Duplicated(h, Head(m)), Head(m)), patch, l, Tail(m), s)
       [] l # <<>> /\ m # <<>> /\ diff = 0 ->
             MembersPatch(Change(compare_json(h, Head(l), Head(m), s)), patch, Tail(l), Tail(m), s)
generate_merge_patch(h, a, b, s) ==
  LET End(g, n) == IF g[n].child = NULL THEN [heap |-> cJSON_Delete(g, n), item |-> NULL] ELSE [heap |-> g, item |-> n]
      Make(g, n) == End(MembersPatch(cJSON_New_Item(g, n, "object"), n, Items(g, a), Items(g, b), s), n)
      Begin(g) == Make(g, Fresh(g))
  IN IF h[a].kind # "object" \/ h[b].kind # "object" THEN Duplicated(h, b)
     ELSE Begin(sort_object(sort_object(h, a, s), b, s))

-----------------------------------------------------------------------------
(* Documents, and what is in an item: of an object the set of its members   *)

RECURSIVE Build(_, _)
Build(h, d) ==
  LET n == Fresh(h)
      Add(g, kid) == LET r == Build(g, kid[2]) IN add_item_to_object(r.heap, n, r.item, kid[1], FALSE)
  IN [heap |-> FoldLeft(Add, [cJSON_New_Item(h, n, d.kind) EXCEPT ![n].val = d.val], d.kids), item |-> n]

Nothing == [kind |-> "none", val |-> 0, elements |-> <<>>, members |-> {}]

RECURSIVE Value(_, _, _)
Value(h, n, s) ==
  LET l == Items(h, n) IN
  IF n = NULL THEN Nothing
  ELSE [kind |-> h[n].kind, val |-> h[n].val,
        elements |-> IF h[n].kind = "array" THEN [i \in DOMAIN l |-> Value(h, l[i], s)] ELSE <<>>,
        members |-> IF h[n].kind = "object" THEN {<<Lower(s, h[i].key), Value(h, i, s)>> : i \in Range(l)} ELSE {}]

Keys(h, n) == {h[i].key : i \in {m \in TreeOf(h, n) : h[m].key # NoKey}}
Plain(h, n) == \A k \in Keys(h, n) : Range(k) \cap Escapes = {}

(* RFC 6902 on such values, the path a list of names and indices            *)
Named(v, name) == {m \in v.members : m[1] = name}
Step(v, t) ==
  CASE v.kind = "object" /\ Named(v, t) # {} -> (CHOOSE m \in Named(v, t) : TRUE)[2]
    [] v.kind = "array" /\ (\E i \in DOMAIN v.elements : Digits(i - 1) = t) ->
          v.elements[CHOOSE i \in DOMAIN v.elements : Digits(i - 1) = t]
    [] OTHER -> Nothing
RECURSIVE At(_, _)
At(v, path) == IF path = <<>> THEN v ELSE At(Step(v, Head(path)), Tail(path))

With(v, t, new) ==
  CASE v.kind = "object" -> [v EXCEPT !.members = (@ \ Named(v, t)) \cup {<<t, new>>}]
    [] v.kind = "array" -> [v EXCEPT !.elements = [i \in DOMAIN @ |-> IF Digits(i - 1) = t THEN new ELSE @[i]]]
Removed1(v, t) ==
  CASE Step(v, t) = Nothing -> Nothing
    [] Step(v, t) # Nothing /\ v.kind = "object" -> [v EXCEPT !.members = @ \ Named(v, t)]
    [] OTHER -> [v EXCEPT !.elements = RemoveAt(@, CHOOSE i \in DOMAIN @ : Digits(i - 1) = t)]
Added1(v, t, new) ==
  LET places == {i \in 1..(Len(v.elements) + 1) : t = Digits(i - 1) \/ (t = <<45>> /\ i = Len(v.elements) + 1)} IN
  CASE v.kind = "object" -> With(v, t, new)
    [] v.kind = "array" /\ places # {} -> [v EXCEPT !.elements = InsertAt(@, CHOOSE i \in places : TRUE, new)]
    [] OTHER -> Nothing
RECURSIVE Edited(_, _, _)
(* The value with new added at the path, or what is there removed if new is *)
(* Nothing; Nothing if that cannot be                                       *)
Edited(v, path, new) ==
  LET t == Head(path)
      below == Edited(Step(v, t), Tail(path), new)
  IN CASE Len(path) = 1 -> IF new = Nothing THEN Removed1(v, t) ELSE Added1(v, t, new)
       [] Len(path) > 1 /\ Nothing \notin {Step(v, t), below} -> With(v, t, below)
       [] OTHER -> Nothing
Removed(v, path) == IF path = <<>> THEN Nothing ELSE Edited(v, path, Nothing)
Added(v, path, new) ==
  CASE Nothing \in {v, new} -> Nothing
    [] Nothing \notin {v, new} /\ path = <<>> -> new
    [] OTHER -> Edited(v, path, new)
Meant(v, op, path, source, new) ==
  CASE op = "add" -> Added(v, path, new)
    [] op = "remove" -> Removed(v, path)
    [] op = "replace" -> IF path = <<>> THEN new ELSE Added(Removed(v, path), path, new)
    [] op = "move" -> Added(Removed(v, source), path, At(v, source))
    [] op = "copy" -> Added(v, path, At(v, source))
    [] op = "test" -> IF At(v, path) = new THEN v ELSE Nothing

-----------------------------------------------------------------------------
(* The client                                                               *)

Untold == [status |-> 0, value |-> Nothing, plain |-> TRUE]

Init ==
  /\ sensitive \in BOOLEAN
  /\ \E d, e \in Documents :
        LET r == Build([n \in Nodes |-> Free], d)
            q == Build(r.heap, e)
        IN heap = q.heap /\ from = r.item /\ to = q.item
  /\ work = NULL
  /\ patches = <<>>
  /\ merge = NULL
  /\ did = "nothing"
  /\ told = Untold

Take ==
  /\ did = "nothing"
  /\ \E copy \in {Duplicated(heap, from)} :
        \/ "copy" \in Targets /\ heap' = copy.heap /\ work' = copy.item
        \/ "same" \in Targets /\ heap' = heap /\ work' = from
  /\ did' = "taken"
  /\ UNCHANGED <<from, to, sensitive, patches, merge, told>>

cJSONUtils_GeneratePatches ==
  /\ did = "taken"
  /\ \E r \in {create_patches([heap |-> heap, patches |-> <<>>], <<>>, from, to, sensitive)} :
        heap' = r.heap /\ patches' = r.patches
  /\ did' = "generated"
  /\ UNCHANGED <<from, to, work, sensitive, merge, told>>

cJSONUtils_ApplyPatches ==
  /\ did = "generated"
  /\ \E r \in {ApplyFrom(heap, work, patches, sensitive)} :
        /\ heap' = r.heap
        /\ told' = [status |-> r.status, value |-> Value(heap, to, sensitive),
                    plain |-> Plain(heap, from) /\ Plain(heap, to)]
  /\ did' = "patched"
  /\ UNCHANGED <<from, to, work, sensitive, patches, merge>>

(* One patch of the client's, its value that of the other document          *)
ApplyOne(op, path, source) ==
  LET Pointer(names) == FlattenSeq([i \in DOMAIN names |-> <<Slash>> \o encode_string_as_pointer(names[i])])
      Lowered(names) == [i \in DOMAIN names |-> Lower(sensitive, names[i])]
      Valued(root) == Value(heap, root, sensitive)
      patch == [op |-> op, path |-> Pointer(path), from |-> Pointer(source), value |-> to]
  IN /\ did = "taken"
     /\ \E r \in {apply_patch(heap, work, patch, sensitive)} :
           /\ heap' = r.heap
           /\ told' = [status |-> r.status,
                       value |-> Meant(Valued(work), op, Lowered(path), Lowered(source), Valued(to)),
                       plain |-> \A p \in {path, source} \ {<<>>} : Range(Last(p)) \cap Escapes = {}]
     /\ did' = "edited"
     /\ UNCHANGED <<from, to, work, sensitive, patches, merge>>

cJSONUtils_GenerateMergePatch ==
  /\ did = "taken"
  /\ \E r \in {generate_merge_patch(heap, from, to, sensitive)} : heap' = r.heap /\ merge' = r.item
  /\ did' = "merge generated"
  /\ UNCHANGED <<from, to, work, sensitive, patches, told>>

(* Without a merge patch there is nothing to merge.                         *)
cJSONUtils_MergePatch ==
  /\ did = "merge generated"
  /\ merge # NULL
  /\ \E r \in {merge_patch(heap, work, merge, sensitive)} :
        heap' = r.heap /\ work' = r.item /\ from' = IF work = from THEN r.item ELSE from
  /\ did' = "merged"
  /\ UNCHANGED <<to, sensitive, patches, merge, told>>

(* The paths to what is there, or to a place beside it                      *)
RECURSIVE PathsBelow(_, _)
PathsBelow(h, n) ==
  LET l == Items(h, n)
      name(i) == IF h[n].kind = "array" THEN Digits(i - 1) ELSE h[l[i]].key
  IN {<<>>} \cup UNION {{<<name(i)>> \o p : p \in PathsBelow(h, l[i])} : i \in DOMAIN l}
Paths ==
  IF did # "taken" THEN {}
  ELSE {p \in PathsBelow(heap, work) : p # <<>>} \cup {Append(p, t) : p \in PathsBelow(heap, work), t \in Names}

Next ==
  \/ Take
  \/ cJSONUtils_GeneratePatches
  \/ cJSONUtils_ApplyPatches
  \/ cJSONUtils_GenerateMergePatch
  \/ cJSONUtils_MergePatch
  \/ \E op \in {"add", "replace", "remove", "test"} : \E path \in Paths : ApplyOne(op, path, <<>>)
  \/ \E op \in {"add", "replace"} : ApplyOne(op, <<>>, <<>>)
  \/ \E op \in {"move", "copy"} : \E path, source \in Paths : ApplyOne(op, path, source)

Spec == Init /\ [][Next]_vars

-----------------------------------------------------------------------------
TypeOK ==
  /\ DOMAIN heap = Nodes
  /\ {from, to} \subseteq Used(heap)
  /\ {work, merge} \subseteq Used(heap) \cup {NULL}
  /\ sensitive \in BOOLEAN
  /\ \A i \in DOMAIN patches : patches[i].op \in {"add", "remove", "replace"} /\ patches[i].value \in Nodes \cup {NULL}

Lowercase(h, n) == \A k \in Keys(h, n) : Fold(k) = k
RECURSIVE Distinct(_, _)
Distinct(h, n) ==
  LET l == Items(h, n) IN
  /\ h[n].kind = "object" => \A i, j \in DOMAIN l : i # j => Fold(h[l[i]].key) # Fold(h[l[j]].key)
  /\ \A i \in DOMAIN l : Distinct(h, l[i])

(* The pointer to an item finds it again, whatever its names have in them   *)
(* (cJSON_Utils.h on cJSONUtils_FindPointerFromObjectTo).                   *)
PointersFind ==
  Distinct(heap, from) =>
    \A n \in TreeOf(heap, from) : \A s \in BOOLEAN :
      get_item_from_pointer(heap, from, cJSONUtils_FindPointerFromObjectTo(heap, from, n), s) = n

(* The patches generated for two documents turn a copy of the first into    *)
(* the second, if no name needs an escape (decode_pointer_inplace).         *)
PatchesLead ==
  did = "patched" /\ told.plain =>
    told.status = 0 /\ Value(heap, work, sensitive) = told.value

(* A patch does what RFC 6902 says, and fails where that says so, if the    *)
(* last name of its paths needs no escape and no two names differ by case   *)
(* alone (detach_path ignores case).                                        *)
PatchMeans ==
  did = "edited" /\ told.plain /\ (sensitive => Lowercase(heap, from)) =>
    /\ told.status = 0 <=> told.value # Nothing
    /\ told.status = 0 => Value(heap, work, sensitive) = told.value

NoNulls(h, n) == \A i \in TreeOf(h, n) : h[i].kind # "null"

(* The merge patch generated for two documents turns a copy of the first    *)
(* into the second, names in lower case and no member null (cJSON_Utils.h   *)
(* on cJSONUtils_GenerateMergePatch).                                       *)
MergeLeads ==
  did = "merged" /\ (\A d \in {from, to} : Lowercase(heap, d)) /\ NoNulls(heap, to) =>
    Value(heap, work, sensitive) = Value(heap, to, sensitive)

(* What is in use is in one of the trees the client has: nothing is lost    *)
(* or freed twice on the way.                                               *)
NothingLeaks ==
  LET roots == {from, to, work, merge} \cup {patches[i].value : i \in DOMAIN patches} IN
  /\ \A n \in Nodes : heap[n].state # "bad"
  /\ Used(heap) = UNION {TreeOf(heap, r) : r \in roots \ {NULL}}
=============================================================================
