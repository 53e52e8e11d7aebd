----------------------------- MODULE CJsonParse ------------------------------
(***************************************************************************)
(* The parser of cJSON on texts of tokens: brackets, commas, colons,       *)
(* strings (values and names; other scalars keep no memory of their own    *)
(* and are left out), white space and zero bytes.  A text is typed token   *)
(* by token; each text so far is parsed as cJSON_ParseWithLengthOpts does, *)
(* by recursive descent over a buffer that is read by offset, with memory  *)
(* for so many pieces: an item is one, and its string and its name are.    *)
(***************************************************************************)
EXTENDS Integers, Sequences, SequencesExt

CONSTANTS
  MaxLength, MaxWhite,    \* bounds on the text, and on the white space in it
  Memories,               \* for how many pieces there is memory
  CJSON_NESTING_LIMIT

VARIABLE text

Tokens == {"[", "]", "{", "}", ",", ":", "s", " ", "0"}
White == {" ", "0"}

Item(type, kids) == [type |-> type, kids |-> kids, named |-> FALSE]
String == Item("string", <<>>)
Array(kids) == Item("array", kids)
Object(kids) == Item("object", kids)
Named(item) == [item EXCEPT !.named = TRUE]

(* The pieces of memory in an item                                          *)
RECURSIVE Size(_)
SizeOfList(list) == FoldLeft(LAMBDA n, k : n + Size(k), 0, list)
One(holds) == IF holds THEN 1 ELSE 0
Size(item) == 1 + One(item.type = "string") + One(item.named) + SizeOfList(item.kids)

-----------------------------------------------------------------------------
(* parse_buffer: the text, the offset (from 0), the depth; and the pieces   *)
(* allocated, whether the last parse went well, what it made, and whether   *)
(* something was read past the end                                          *)

can_access(b) == b.offset < Len(b.text)
At(b) == IF can_access(b) THEN b.text[b.offset + 1] ELSE "past the end"
Is(b, token) == can_access(b) /\ At(b) = token
(* A read the code makes without asking first                               *)
Read(b) == [b EXCEPT !.past = @ \/ ~ can_access(b)]
Skip(b, n) == [b EXCEPT !.offset = @ + n]
Fail(b) == [b EXCEPT !.ok = FALSE]
Room(b) == b.pieces < b.memory
Allocate(b) == [b EXCEPT !.pieces = @ + 1]
(* cJSON_Delete of the list that was begun: the finished items, and what    *)
(* has been allocated of the last one                                       *)
Drop_MutHead(b, list, begun) == [Fail(b) EXCEPT !.pieces = @ - begun]

Drop(b, list, begun) == [Fail(b) EXCEPT !.pieces = @ - (SizeOfList(list) + begun)]

RECURSIVE SkipWhite(_)
SkipWhite(b) == IF can_access(b) /\ At(b) \in White THEN SkipWhite(Skip(b, 1)) ELSE b

(* At the end it steps back, onto the white space it came over.             *)
buffer_skip_whitespace(b) ==
  LET Skipped(after) == IF can_access(b) /\ ~ can_access(after) THEN Skip(after, -1) ELSE after
  IN Skipped(SkipWhite(b))

(* It looks behind the quote; when it fails, that is where.                 *)
parse_string(b) ==
  LET behind == Skip(Read(b), 1)
  IN IF At(b) = "s" /\ Room(b) THEN [Allocate(behind) EXCEPT !.tree = String] ELSE Fail(behind)

Closed(b, tree) == [Skip(b, 1) EXCEPT !.depth = @ - 1, !.tree = tree]

RECURSIVE parse_value(_), ArrayLoop(_, _), ObjectLoop(_, _)

Entered(b, end, Loop(_, _), Make(_)) ==
  CASE Is(b, end) -> Closed(b, Make(<<>>))
    [] ~ can_access(b) -> Fail(Skip(b, -1))
    [] OTHER -> Loop(Skip(b, -1), <<>>)
Enter(b, end, Loop(_, _), Make(_)) ==
  Entered(buffer_skip_whitespace(Skip([b EXCEPT !.depth = @ + 1], 1)), end, Loop, Make)

parse_array(b) == IF b.depth >= CJSON_NESTING_LIMIT THEN Fail(b) ELSE Enter(b, "]", ArrayLoop, Array)
parse_object(b) == IF b.depth >= CJSON_NESTING_LIMIT THEN Fail(b) ELSE Enter(b, "}", ObjectLoop, Object)

(* After a value: another one follows, or the list ends                     *)
Continued(b, list, end, Loop(_, _), Make(_)) ==
  CASE Is(b, ",") -> Loop(b, list)
    [] Is(b, end) -> Closed(b, Make(list))
    [] OTHER -> Drop(b, list, 0)

(* One turn: in front of the element, at the bracket or at the comma        *)
ArrayLoop(b, list) ==
  LET Value(v) == IF v.ok THEN Continued(buffer_skip_whitespace(v), Append(list, v.tree), "]", ArrayLoop, Array)
                  ELSE Drop(v, list, 1)
  IN IF Room(b) THEN Value(parse_value(buffer_skip_whitespace(Skip(Allocate(b), 1))))
     ELSE Drop(b, list, 0)

(* The name is parsed into the item as its string, and then made its name.  *)
ObjectLoop(b, list) ==
  LET Value(v) == IF v.ok THEN Continued(buffer_skip_whitespace(v), Append(list, Named(v.tree)), "}", ObjectLoop, Object)
                  ELSE Drop(v, list, 2)
      Colon(c) == IF Is(c, ":") THEN Value(parse_value(buffer_skip_whitespace(Skip(c, 1))))
                  ELSE Drop(c, list, 2)
      Name(n) == IF n.ok THEN Colon(buffer_skip_whitespace(n)) ELSE Drop(n, list, 1)
  IN CASE ~ Room(b) -> Drop(b, list, 0)
       [] Room(b) /\ b.offset + 1 >= Len(b.text) -> Drop(Allocate(b), list, 1)
       [] OTHER -> Name(parse_string(buffer_skip_whitespace(Skip(Allocate(b), 1))))

parse_value(b) ==
  CASE Is(b, "s") -> parse_string(b)
    [] Is(b, "[") -> parse_array(b)
    [] Is(b, "{") -> parse_object(b)
    [] OTHER -> Fail(b)

Buffer(memory) ==
  [text |-> text, memory |-> memory, offset |-> 0, depth |-> 0, pieces |-> 0,
   ok |-> TRUE, tree |-> String, past |-> FALSE]

cJSON_ParseWithLengthOpts(memory, terminated) ==
  LET Ended(after) == IF Is(after, "0") THEN after ELSE Drop(after, <<after.tree>>, 0)
      Parsed(v) == CASE ~ v.ok -> Drop(v, <<>>, 1)
                     [] v.ok /\ terminated -> Ended(buffer_skip_whitespace(v))
                     [] OTHER -> v
  IN IF text = <<>> \/ memory = 0 THEN Fail(Buffer(memory))
     ELSE Parsed(parse_value(buffer_skip_whitespace(Allocate(Buffer(memory)))))

-----------------------------------------------------------------------------
Init == text = <<>>
Type(token) ==
  /\ Len(text) < MaxLength
  /\ token \in White => Len(SelectSeq(text, LAMBDA t : t \in White)) < MaxWhite
  /\ text' = Append(text, token)
Next == \E token \in Tokens : Type(token)
Spec == Init /\ [][Next]_text

-----------------------------------------------------------------------------
TypeOK == text \in Seq(Tokens)

(* The grammar of JSON, by itself: the trees a text without white space     *)
(* stands for                                                               *)
RECURSIVE Values(_), Lists(_, _)
Inner(t) == SubSeq(t, 2, Len(t) - 1)
Element(t, named) ==
  CASE ~ named -> Values(t)
    [] named /\ Len(t) > 2 /\ SubSeq(t, 1, 2) = <<"s", ":">> ->
         {Named(v) : v \in Values(SubSeq(t, 3, Len(t)))}
    [] OTHER -> {}
Lists(t, named) ==
  {<<v>> : v \in Element(t, named)} \cup
  UNION {{<<v>> \o r : v \in Element(SubSeq(t, 1, i - 1), named), r \in Lists(SubSeq(t, i + 1, Len(t)), named)} :
         i \in {j \in DOMAIN t : t[j] = ","}}
Between(t, open, close) == Len(t) > 1 /\ t[1] = open /\ t[Len(t)] = close
Values(t) ==
  CASE t = <<"s">> -> {String}
    [] Between(t, "[", "]") -> {Array(l) : l \in IF Len(t) = 2 THEN {<<>>} ELSE Lists(Inner(t), FALSE)}
    [] Between(t, "{", "}") -> {Object(l) : l \in IF Len(t) = 2 THEN {<<>>} ELSE Lists(Inner(t), TRUE)}
    [] OTHER -> {}

RECURSIVE Depth(_)
Depth(item) ==
  IF item.type = "string" THEN 0
  ELSE 1 + FoldLeft(LAMBDA n, k : IF Depth(k) > n THEN Depth(k) ELSE n, 0, item.kids)
Bare(t) == SelectSeq(t, LAMBDA token : token \notin White)
Possible(t, memory) ==
  {v \in Values(Bare(t)) : Depth(v) <= CJSON_NESTING_LIMIT /\ Size(v) <= memory}

(* A text is accepted exactly when it begins with a value of the grammar    *)
(* that is not nested too deep and for which there is memory; the tree is   *)
(* that value; and when a zero byte is asked for, nothing but white space   *)
(* stands before it.                                                        *)
AcceptsTheGrammar ==
  LET Accepted(r, memory) ==
        /\ r.ok <=> \E n \in DOMAIN text : Possible(SubSeq(text, 1, n), memory) # {}
        /\ r.ok => Possible(SubSeq(text, 1, r.offset), memory) = {r.tree}
      Terminated(z, r) ==
        /\ z.ok <=> r.ok /\ r.offset < Len(text) /\ text[Len(text)] = "0"
                    /\ \A i \in (r.offset + 1)..Len(text) : text[i] \in White
        /\ z.ok => z.tree = r.tree
  IN \A memory \in Memories :
       \A r \in {cJSON_ParseWithLengthOpts(memory, FALSE)}, z \in {cJSON_ParseWithLengthOpts(memory, TRUE)} :
         Accepted(r, memory) /\ Terminated(z, r)

(* Nothing is read past the end, the place of an error is in the text, and  *)
(* what was allocated is in the tree, or gone when the parse has failed.    *)
StaysInBounds ==
  \A memory \in Memories, terminated \in BOOLEAN :
    \A r \in {cJSON_ParseWithLengthOpts(memory, terminated)} :
      /\ ~ r.past
      /\ r.offset \in 0..Len(text)
      /\ r.pieces = (IF r.ok THEN Size(r.tree) ELSE 0)
=============================================================================
