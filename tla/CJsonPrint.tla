----------------------------- MODULE CJsonPrint ------------------------------
(***************************************************************************)
(* The printer of cJSON and its buffer.  Items are printed by recursive    *)
(* descent into a buffer that ensure() makes larger, or not when the       *)
(* caller has provided it; where the text ends so far is found by the zero *)
(* byte that the last piece has left.  Each call prints one tree.          *)
(*                                                                         *)
(* A scalar is its width: null, true, false, numbers, raw text and strings *)
(* with their quotes all ask for one byte more than they write and end in  *)
(* a zero.  A key is a string of two characters.                           *)
(***************************************************************************)
EXTENDS Integers, Sequences, SequencesExt

CONSTANTS
  Widths,               \* of the scalars
  Trees,                \* what is printed
  Lengths,              \* of the buffers
  default_buffer_size,
  Reallocations,        \* how often realloc may succeed
  CJSON_NESTING_LIMIT

VARIABLE result         \* the last call and what became of it

Scalar(width) == [type |-> "scalar", width |-> width, kids |-> <<>>]
Array(kids) == [type |-> "array", width |-> 0, kids |-> kids]
Object(kids) == [type |-> "object", width |-> 0, kids |-> kids]

-----------------------------------------------------------------------------
(* printbuffer: the bytes, the offset (from 0), the depth, noalloc, format; *)
(* how many reallocations are left, whether all went well, whether the      *)
(* buffer was freed, and whether something was written past its end         *)

Zero == "zero"
Junk == "?"
Fresh(length) == [i \in 1..length |-> Junk]

Buffer(length, noalloc, format, reallocs) ==
  [bytes |-> Fresh(length), offset |-> 0, depth |-> 0, noalloc |-> noalloc, format |-> format,
   reallocs |-> reallocs, ok |-> TRUE, freed |-> 0, past |-> FALSE]

Fail(p) == [p EXCEPT !.ok = FALSE]

(* Without memory for a larger buffer the old one is freed.                 *)
ensure(p, needed) ==
  LET length == Len(p.bytes)
      size == needed + p.offset + 1
      valid == p.ok /\ ~ (length > 0 /\ p.offset >= length)
  IN CASE ~ valid \/ (size > length /\ p.noalloc) -> Fail(p)
       [] valid /\ size <= length -> p
       [] valid /\ size > length /\ ~ p.noalloc /\ p.reallocs = 0 ->
            [Fail(p) EXCEPT !.freed = @ + 1, !.bytes = <<>>]
       [] OTHER -> [p EXCEPT !.bytes = @ \o Fresh(2 * size - length), !.reallocs = @ - 1]

(* Bytes written from the offset on, which then moves by some of them       *)
Put(p, chars, move) ==
  IF ~ p.ok THEN p
  ELSE [p EXCEPT !.bytes = [i \in DOMAIN @ |-> IF i - p.offset \in DOMAIN chars THEN chars[i - p.offset] ELSE @[i]],
                 !.past = @ \/ p.offset + Len(chars) > Len(p.bytes),
                 !.offset = @ + move]

(* strlen from the offset on                                                *)
update_offset(p) ==
  IF ~ p.ok THEN p
  ELSE [p EXCEPT !.offset = @ + SelectInSeq(SubSeq(p.bytes, p.offset + 1, Len(p.bytes)), LAMBDA c : c = Zero) - 1]

Repeat(c, n) == [i \in 1..n |-> c]
Deeper(p, d) == [p EXCEPT !.depth = @ + d]

print_string_ptr(p, width) == Put(ensure(p, width + 1), Repeat("x", width) \o <<Zero>>, 0)

RECURSIVE print_value(_, _)

ElementsOf(p, kids) ==
  LET One(q, i) ==
        LET v == update_offset(print_value(q, kids[i]))
            comma == IF p.format THEN <<",", " ">> ELSE <<",">>
        IN IF i = Len(kids) THEN v
           ELSE Put(ensure(v, Len(comma) + 1), comma \o <<Zero>>, Len(comma))
  IN FoldLeft(One, p, [i \in DOMAIN kids |-> i])

print_array(p, item) ==
  IF p.depth >= CJSON_NESTING_LIMIT THEN Fail(p)
  ELSE LET open == Deeper(Put(ensure(p, 1), <<"[">>, 1), 1)
           inside == ElementsOf(open, item.kids)
       IN Deeper(Put(ensure(inside, 2), <<"]", Zero>>, 0), -1)

MembersOf_MutOffset(p, kids) ==
  LET tabs(q) == IF q.format THEN Put(ensure(q, q.depth), Repeat("\t", q.depth), q.depth) ELSE q
      colon == IF p.format THEN <<":", "\t">> ELSE <<":">>
      One(q, i) ==
        LET key == update_offset(print_string_ptr(tabs(q), 2))
            v == update_offset(print_value(Put(ensure(key, Len(colon)), colon, Len(colon)), kids[i]))
            ends == (IF i < Len(kids) THEN <<",">> ELSE <<>>) \o (IF p.format THEN <<"\n">> ELSE <<>>)
        IN Put(ensure(v, Len(ends) + 1), ends \o <<Zero>>, IF p.format THEN 2 ELSE 1)
  IN FoldLeft(One, p, [i \in DOMAIN kids |-> i])

MembersOf(p, kids) ==
  LET tabs(q) == IF q.format THEN Put(ensure(q, q.depth), Repeat("\t", q.depth), q.depth) ELSE q
      colon == IF p.format THEN <<":", "\t">> ELSE <<":">>
      One(q, i) ==
        LET key == update_offset(print_string_ptr(tabs(q), 2))
            v == update_offset(print_value(Put(ensure(key, Len(colon)), colon, Len(colon)), kids[i]))
            ends == (IF i < Len(kids) THEN <<",">> ELSE <<>>) \o (IF p.format THEN <<"\n">> ELSE <<>>)
        IN Put(ensure(v, Len(ends) + 1), ends \o <<Zero>>, Len(ends))
  IN FoldLeft(One, p, [i \in DOMAIN kids |-> i])

(* The closing brace on a line of its own, one tab less deep                *)
CloseObject(p) ==
  LET tabs == IF p.format THEN Repeat("\t", p.depth - 1) ELSE <<>>
      room == ensure(p, IF p.format THEN p.depth + 1 ELSE 2)
  IN Deeper(Put(room, tabs \o <<"}", Zero>>, 0), -1)

print_object(p, item) ==
  IF p.depth >= CJSON_NESTING_LIMIT THEN Fail(p)
  ELSE LET brace == IF p.format THEN <<"{", "\n">> ELSE <<"{">>
           open == Put(Deeper(ensure(p, Len(brace) + 1), 1), brace, Len(brace))
       IN CloseObject(MembersOf(open, item.kids))

print_value(p, item) ==
  CASE ~ p.ok -> p
    [] p.ok /\ item.type = "scalar" -> print_string_ptr(p, item.width)
    [] p.ok /\ item.type = "array" -> print_array(p, item)
    [] p.ok /\ item.type = "object" -> print_object(p, item)

TextOf(p) == SubSeq(p.bytes, 1, SelectInSeq(p.bytes, LAMBDA c : c = Zero) - 1)

-----------------------------------------------------------------------------
(* The calls                                                                *)

Result(call, item, p, text) == [call |-> call, item |-> item, ok |-> p.ok, text |-> text, past |-> p.past,
                                length |-> Len(p.bytes), freed |-> p.freed, format |-> p.format]

(* cJSON_Print, cJSON_PrintUnformatted: the buffer is cut to the text, or   *)
(* freed if that fails as well                                              *)
print(item, format, reallocs) ==
  LET p == update_offset(print_value(Buffer(default_buffer_size, FALSE, format, reallocs), item))
      cut == p.ok /\ p.reallocs > 0
      left == [p EXCEPT !.ok = cut, !.freed = IF cut \/ @ > 0 THEN @ ELSE 1]
  IN result' = Result("print", item, left, IF cut THEN SubSeq(p.bytes, 1, p.offset) ELSE <<>>)

cJSON_PrintBuffered(item, prebuffer, format, reallocs) ==
  LET p == print_value(Buffer(prebuffer, FALSE, format, reallocs), item)
      left == IF p.ok \/ p.freed > 0 THEN p ELSE [p EXCEPT !.freed = 1]
  IN result' = Result("buffered", item, left, IF p.ok THEN TextOf(p) ELSE <<>>)

cJSON_PrintPreallocated(item, length, format) ==
  LET p == print_value(Buffer(length, TRUE, format, 0), item)
  IN result' = Result("preallocated", item, p, IF p.ok THEN TextOf(p) ELSE <<>>)

Init == result = Result("none", Scalar(0), Buffer(0, TRUE, FALSE, 0), <<>>)
(* One call is made.                                                        *)
Next ==
  /\ result.call = "none"
  /\ \E item \in Trees, format \in BOOLEAN :
       \/ \E reallocs \in Reallocations : print(item, format, reallocs)
       \/ \E length \in Lengths, reallocs \in Reallocations : cJSON_PrintBuffered(item, length, format, reallocs)
       \/ \E length \in Lengths : cJSON_PrintPreallocated(item, length, format)
Spec == Init /\ [][Next]_result

-----------------------------------------------------------------------------
TypeOK ==
  /\ result.item \in Trees \cup {Scalar(0)}
  /\ result.call \in {"none", "print", "buffered", "preallocated"}
  /\ result.freed \in 0..1

(* What the text of a tree is, by itself                                    *)
RECURSIVE Render(_, _, _)
Join(parts, between) == FoldLeft(LAMBDA t, i : t \o (IF i = 1 THEN <<>> ELSE between) \o parts[i], <<>>,
                                 [i \in DOMAIN parts |-> i])
Render(item, format, depth) ==
  LET inner == [i \in DOMAIN item.kids |-> Render(item.kids[i], format, depth + 1)]
      line(s) == IF format THEN Repeat("\t", depth + 1) \o s ELSE s
      member(i) == line(<<"x", "x", ":">> \o (IF format THEN <<"\t">> ELSE <<>>) \o inner[i])
      newline == IF format THEN <<"\n">> ELSE <<>>
  IN CASE item.type = "scalar" -> Repeat("x", item.width)
       [] item.type = "array" -> <<"[">> \o Join(inner, IF format THEN <<",", " ">> ELSE <<",">>) \o <<"]">>
       [] item.type = "object" ->
            <<"{">> \o newline \o Join([i \in DOMAIN inner |-> member(i)], <<",">> \o newline)
            \o (IF inner = <<>> THEN <<>> ELSE newline)
            \o (IF format THEN Repeat("\t", depth) ELSE <<>>) \o <<"}">>

RECURSIVE Depth(_)
Depth(item) == FoldLeft(LAMBDA n, k : IF Depth(k) > n THEN Depth(k) ELSE n, 0, item.kids)
               + (IF item.type = "scalar" THEN 0 ELSE 1)

(* Whatever the buffer was, and however often it moved, a call that         *)
(* succeeds leaves the whole text of the tree; and a buffer of the caller's *)
(* that has five bytes more than that text with its zero is enough (cJSON.h *)
(* on cJSON_PrintPreallocated).                                             *)
PrintsWhole ==
  LET text == Render(result.item, result.format, 0) IN
  result.call # "none" =>
    /\ result.ok => result.text = text
    /\ /\ result.call = "preallocated"
       /\ Depth(result.item) <= CJSON_NESTING_LIMIT
       /\ result.length >= Len(text) + 1 + 5
       => result.ok

(* Nothing is written past the end of the buffer; a call that fails has     *)
(* freed the buffer that is its own, once, and never the caller's.          *)
BufferKept ==
  /\ ~ result.past
  /\ result.freed = (IF result.call \in {"print", "buffered"} /\ ~ result.ok THEN 1 ELSE 0)
=============================================================================
