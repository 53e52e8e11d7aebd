--------------------------- MODULE PresenceLayout ---------------------------
(***************************************************************************)
(* How a posted body becomes lines: presence.c:29-50 copies it into        *)
(* presence_body, presence_layout.c then walks over the copy and wraps it  *)
(* into lines of at most PRESENCE_LINE_CHARS bytes.                        *)
(*                                                                         *)
(* A text is a sequence of kinds of bytes: what the code tells apart.  As  *)
(* in C, positions count from 0 and a NUL follows the last byte.  One      *)
(* action is one turn of the loop of presence_layout_body.                 *)
(***************************************************************************)
EXTENDS Integers, Sequences

CONSTANTS
  Texts,                 \* what clients post
  PRESENCE_LINE_CHARS,   \* 21 on the device
  BODY_MAX_BYTES,        \* PRESENCE_BODY_MAX_BYTES, 511 on the device
  NONE                   \* SIZE_MAX: no space in this line

(* A newline, a space or tab, any other byte that stands alone, the first  *)
(* byte of a UTF-8 sequence of two, three or four, and one that continues  *)
Bytes == {"newline", "space", "ascii", "lead2", "lead3", "lead4", "cont"}
Blanks == {"newline", "space"}

ASSUME LayoutAssumption ==
  /\ Texts \subseteq Seq(Bytes)
  /\ PRESENCE_LINE_CHARS \in Nat /\ PRESENCE_LINE_CHARS >= 4
  /\ BODY_MAX_BYTES \in Nat
  /\ NONE \notin Nat

(* PRESENCE_MAX_BODY_LINES: the length of presence_lines, and max_lines *)
max_lines == BODY_MAX_BYTES + 1

VARIABLES
  posted,        \* message->body
  pc,            \* "copy", "start", "loop" or "done"
  length,        \* of the prefix that will be copied
  body,          \* presence_body
  lines,         \* presence_lines[0 .. line_count - 1]
  line_start,
  line_length,
  position,
  last_space

walk == <<line_start, line_length, position, last_space>>
vars == <<posted, pc, length, body, lines, walk>>

(* text[i] in C *)
ByteAt(text, i) == IF i < Len(text) THEN text[i + 1] ELSE "nul"
Continues(text, i) == ByteAt(text, i) = "cont"

(* A byte at a time *)
SequenceLength_MutBytewise(text, i) == 1

(* utf8_sequence_length: short-circuit evaluation stops it at the NUL. *)
SequenceLength(text, i) ==
  CASE ByteAt(text, i) = "lead2" /\ Continues(text, i + 1) -> 2
    [] ByteAt(text, i) = "lead3" /\ Continues(text, i + 1)
         /\ Continues(text, i + 2) -> 3
    [] ByteAt(text, i) = "lead4" /\ Continues(text, i + 1)
         /\ Continues(text, i + 2) /\ Continues(text, i + 3) -> 4
    [] OTHER -> 1

-----------------------------------------------------------------------------
(* copy_bounded with utf8_safe_prefix *)

DropContinuation ==
  /\ pc = "copy"
  /\ length > 0 /\ Continues(posted, length - 1)
  /\ length' = length - 1
  /\ UNCHANGED <<posted, pc, body, lines, walk>>

Copy ==
  /\ pc = "copy"
  /\ ~ (length > 0 /\ Continues(posted, length - 1))
  /\ body' = SubSeq(posted, 1, length)
  /\ pc' = "start"
  /\ UNCHANGED <<posted, length, lines, walk>>

-----------------------------------------------------------------------------
(* presence_layout_body *)

Line(start, len) == [start |-> start, length |-> len]

(* An empty body is one empty line. *)
EmptyBody ==
  /\ pc = "start"
  /\ ByteAt(body, 0) = "nul"
  /\ lines' = <<Line(0, 0)>>
  /\ pc' = "done"
  /\ UNCHANGED <<posted, length, body, walk>>

Begin ==
  /\ pc = "start"
  /\ ByteAt(body, 0) # "nul"
  /\ pc' = "loop"
  /\ UNCHANGED <<posted, length, body, lines, walk>>

(* The condition of the while loop *)
Looping ==
  /\ pc = "loop"
  /\ ByteAt(body, position) # "nul"
  /\ Len(lines) < max_lines

(* The space of the line before is still remembered. *)
EndLine_MutKeepSpace(len, start) ==
  /\ lines' = Append(lines, Line(line_start, len))
  /\ position' = start
  /\ line_start' = start
  /\ line_length' = 0
  /\ UNCHANGED <<posted, pc, length, body, last_space>>

(* A line of len bytes ends; the next one starts at start. *)
EndLine(len, start) ==
  /\ lines' = Append(lines, Line(line_start, len))
  /\ position' = start
  /\ line_start' = start
  /\ line_length' = 0
  /\ last_space' = NONE
  /\ UNCHANGED <<posted, pc, length, body>>

Newline ==
  /\ Looping
  /\ ByteAt(body, position) = "newline"
  /\ EndLine(line_length, position + 1)

(* The next sequence does not fit: break at the last space if there is one. *)
Overflows_MutOffByOne ==
  /\ line_length > 0
  /\ line_length + SequenceLength(body, position) > PRESENCE_LINE_CHARS + 1

Overflows ==
  /\ line_length > 0
  /\ line_length + SequenceLength(body, position) > PRESENCE_LINE_CHARS

BreakAtSpace_MutSkipOneMore ==
  /\ Looping
  /\ ByteAt(body, position) # "newline"
  /\ Overflows
  /\ last_space # NONE
  /\ EndLine(last_space - line_start, last_space + 2)

BreakAtSpace ==
  /\ Looping
  /\ ByteAt(body, position) # "newline"
  /\ Overflows
  /\ last_space # NONE
  /\ EndLine(last_space - line_start, last_space + 1)

BreakInWord ==
  /\ Looping
  /\ ByteAt(body, position) # "newline"
  /\ Overflows
  /\ last_space = NONE
  /\ EndLine(line_length, position)

SkipSpace_MutStay ==
  /\ Looping
  /\ ByteAt(body, position) = "space"
  /\ ~ Overflows
  /\ line_length = 0
  /\ line_start' = position
  /\ UNCHANGED <<posted, pc, length, body, lines, line_length, position,
                 last_space>>

(* Spaces at the beginning of a line are not part of it. *)
SkipSpace ==
  /\ Looping
  /\ ByteAt(body, position) = "space"
  /\ ~ Overflows
  /\ line_length = 0
  /\ position' = position + 1
  /\ line_start' = position'
  /\ UNCHANGED <<posted, pc, length, body, lines, line_length, last_space>>

(* The space is not remembered. *)
Consume_MutForgetSpace ==
  /\ Looping
  /\ ByteAt(body, position) # "newline"
  /\ ~ Overflows
  /\ ByteAt(body, position) = "space" => line_length > 0
  /\ line_length' = line_length + SequenceLength(body, position)
  /\ position' = position + SequenceLength(body, position)
  /\ UNCHANGED <<posted, pc, length, body, lines, line_start, last_space>>

Consume ==
  /\ Looping
  /\ ByteAt(body, position) # "newline"
  /\ ~ Overflows
  /\ ByteAt(body, position) = "space" => line_length > 0
  /\ last_space' = IF ByteAt(body, position) = "space"
                     THEN position ELSE last_space
  /\ line_length' = line_length + SequenceLength(body, position)
  /\ position' = position + SequenceLength(body, position)
  /\ UNCHANGED <<posted, pc, length, body, lines, line_start>>

(* After the loop: the last line, unless only skipped spaces are left *)
FinishesLine ==
  /\ Len(lines) < max_lines
  /\ \/ line_length > 0
     \/ Len(lines) = 0
     \/ ByteAt(body, position - 1) = "newline"

Finish ==
  /\ pc = "loop"
  /\ ~ Looping
  /\ lines' = IF FinishesLine
                THEN Append(lines, Line(line_start, line_length)) ELSE lines
  /\ pc' = "done"
  /\ UNCHANGED <<posted, length, body, walk>>

-----------------------------------------------------------------------------
MinOf(a, b) == IF a < b THEN a ELSE b

Init ==
  /\ posted \in Texts
  /\ pc = "copy"
  /\ length = MinOf(Len(posted), BODY_MAX_BYTES)   \* strnlen
  /\ body = <<>>
  /\ lines = <<>>
  /\ line_start = 0
  /\ line_length = 0
  /\ position = 0
  /\ last_space = NONE

Next ==
  \/ DropContinuation \/ Copy
  \/ EmptyBody \/ Begin
  \/ Newline \/ BreakAtSpace \/ BreakInWord \/ SkipSpace \/ Consume
  \/ Finish

Spec == Init /\ [][Next]_vars

(* The walk is a loop of one task: it runs on while it can. *)
FairSpec == Spec /\ WF_vars(Next)

-----------------------------------------------------------------------------
(* Properties *)

(* Positions stay in the body, and the line being built, like every line   *)
(* built, fits the buffer it is copied into: presence_layout.c:34-38 with  *)
(* presence.c:60,71-73.                                                    *)
TypeOK ==
  /\ pc \in {"copy", "start", "loop", "done"}
  /\ length \in 0 .. BODY_MAX_BYTES
  /\ body \in Seq(Bytes)
  /\ lines \in Seq([start : Nat, length : 0 .. PRESENCE_LINE_CHARS])
  /\ line_length \in 0 .. PRESENCE_LINE_CHARS
  /\ position \in 0 .. Len(body)
  /\ line_start = position - line_length
  /\ last_space \in {NONE} \cup line_start .. position - 1

EndOf(line) == line.start + line.length

(***************************************************************************)
(* The lines lie in the body one after the other, none longer than a row,  *)
(* and the last one ends before the line being built begins: what          *)
(* presence_draw_locked copies is always inside presence_body              *)
(* (presence_layout.c:43-46,57-66,88-91, presence.c:69-73).                *)
(***************************************************************************)
LinesInOrder ==
  /\ \A i \in 1 .. Len(lines) :
       /\ lines[i].length <= PRESENCE_LINE_CHARS
       /\ EndOf(lines[i]) <= Len(body)
  /\ \A i \in 1 .. Len(lines) - 1 : EndOf(lines[i]) <= lines[i + 1].start
  /\ pc = "loop" /\ lines # <<>> => EndOf(lines[Len(lines)]) <= line_start

Covered(p) ==
  \E i \in 1 .. Len(lines) : lines[i].start <= p /\ p < EndOf(lines[i])

(***************************************************************************)
(* Of the text the walk has passed, only newlines and spaces are missing   *)
(* from the lines; at the end that is the whole body, so that the array of *)
(* lines is never too short: presence_layout.c:40-92, presence_layout.h:10.*)
(***************************************************************************)
NothingLost ==
  /\ \A p \in 0 .. line_start - 1 :
       ByteAt(body, p) \in Blanks \/ Covered(p)
  /\ pc = "done" => \A p \in 0 .. Len(body) - 1 :
       ByteAt(body, p) \in Blanks \/ Covered(p)

(* The bytes a leading byte announces, itself included *)
Announced(byte) ==
  CASE byte = "lead2" -> 2 [] byte = "lead3" -> 3 [] byte = "lead4" -> 4
    [] OTHER -> 1

WellFormed(text) ==
  /\ \A p \in 0 .. Len(text) - 1 :
       \A q \in p + 1 .. p + Announced(ByteAt(text, p)) - 1 :
         Continues(text, q)
  /\ \A q \in 0 .. Len(text) - 1 :
       Continues(text, q) =>
         \E p \in 0 .. q - 1 : q < p + Announced(ByteAt(text, p))

(***************************************************************************)
(* No line begins or ends inside a character of a well-formed body: the    *)
(* test's line with a two-byte letter (presence_layout_test.c:34) for      *)
(* every body, break and length (presence_layout.c:54-73).                 *)
(***************************************************************************)
CharactersWhole ==
  WellFormed(body) =>
    \A i \in 1 .. Len(lines) :
      /\ ~ Continues(body, lines[i].start)
      /\ ~ Continues(body, EndOf(lines[i]))

(***************************************************************************)
(* A word is broken between two lines only if it fills the first of them:  *)
(* where one line runs on into the next there was no space to break at     *)
(* (presence_layout.c:56-66).                                              *)
(***************************************************************************)
WordsWhole ==
  \A i \in 1 .. Len(lines) - 1 :
    EndOf(lines[i]) = lines[i + 1].start =>
      \A p \in lines[i].start .. EndOf(lines[i]) - 1 :
        ByteAt(body, p) # "space"

(***************************************************************************)
(* Each turn of the loop moves on: a later line, or further in this one.   *)
(* Breaking at a space moves position back, but never to a text that was   *)
(* already walked as part of an earlier line (presence_layout.c:61,68).    *)
(***************************************************************************)
MovesOn ==
  [][pc' = "loop" /\ pc = "loop" =>
       \/ line_start' > line_start
       \/ line_start' = line_start /\ position' > position]_vars

(* The walk ends for every text: presence_layout.c:40-94. *)
Terminates == <>(pc = "done")

(***************************************************************************)
(* What utf8_safe_prefix is named for (presence.c:29) and what the layout  *)
(* test expects of a body with a two-byte letter in it: the copy of a      *)
(* well-formed text is well-formed, whole if it fits.                      *)
(***************************************************************************)
PrefixIsSafe ==
  pc # "copy" /\ WellFormed(posted) =>
    /\ WellFormed(body)
    /\ Len(posted) <= BODY_MAX_BYTES => body = posted
=============================================================================
