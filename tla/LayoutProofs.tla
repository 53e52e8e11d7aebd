---------------------------- MODULE LayoutProofs ----------------------------
(***************************************************************************)
(* What module PresenceLayout promises, for bodies of every length and     *)
(* rows of every width: lines in order and in bounds, no text lost, no     *)
(* character split, no word broken without need, progress in every turn.   *)
(* One inductive invariant, LInv, carries all of it.                       *)
(***************************************************************************)
EXTENDS PresenceLayout, SequenceTheorems, TLAPS

(* Types, and where the walk may be *)
Typed ==
  /\ posted \in Seq(Bytes)
  /\ pc \in {"copy", "start", "loop", "done"}
  /\ length \in 0 .. BODY_MAX_BYTES /\ length <= Len(posted)
  /\ body \in Seq(Bytes) /\ Len(body) <= BODY_MAX_BYTES
  /\ lines \in Seq([start : Nat, length : 0 .. PRESENCE_LINE_CHARS])
  /\ line_length \in 0 .. PRESENCE_LINE_CHARS
  /\ position \in 0 .. Len(body)
  /\ line_start \in Nat /\ line_start + line_length = position
  /\ last_space \in {NONE} \cup line_start .. position - 1

(* Nothing is laid out before the loop. *)
Fresh ==
  pc \in {"copy", "start"} => lines = <<>> /\ position = 0 /\ last_space = NONE

(* Each line has taken a byte of the body, so the array is long enough. *)
FewLines == pc = "loop" => Len(lines) <= line_start

(* last_space is a space of this line, and NONE says there is none. *)
SpaceKnown ==
  /\ last_space # NONE =>
       last_space > line_start /\ ByteAt(body, last_space) = "space"
  /\ last_space = NONE =>
       \A p \in line_start .. position - 1 : ByteAt(body, p) # "space"

(* The three conjuncts of LinesInOrder *)
InBounds == \A i \in 1 .. Len(lines) : EndOf(lines[i]) <= Len(body)
Ordered ==
  /\ \A i \in 1 .. Len(lines) - 1 : EndOf(lines[i]) <= lines[i + 1].start
  /\ pc = "loop" /\ lines # <<>> => EndOf(lines[Len(lines)]) <= line_start

(* WordsWhole, for the line being built too *)
WordsSoFar ==
  /\ WordsWhole
  /\ pc = "loop" /\ lines # <<>> /\ EndOf(lines[Len(lines)]) = line_start =>
       \A p \in lines[Len(lines)].start .. EndOf(lines[Len(lines)]) - 1 :
         ByteAt(body, p) # "space"

(* CharactersWhole, for the line being built too *)
CharactersSoFar ==
  WellFormed(body) =>
    /\ CharactersWhole
    /\ ~ Continues(body, line_start)
    /\ ~ Continues(body, position)

(***************************************************************************)
(* The inductive invariant: what presence_layout_body knows at the head of *)
(* its loop (presence_layout.c:40).                                        *)
(***************************************************************************)
LInv ==
  /\ Typed /\ Fresh /\ FewLines /\ SpaceKnown /\ InBounds /\ Ordered
  /\ NothingLost /\ WordsSoFar /\ CharactersSoFar

-----------------------------------------------------------------------------
(* Characters *)

(* The assumptions on the constants, once and for all *)
LEMMA LayoutConstants ==
  /\ Texts \subseteq Seq(Bytes)
  /\ PRESENCE_LINE_CHARS \in Nat /\ PRESENCE_LINE_CHARS >= 4
  /\ BODY_MAX_BYTES \in Nat
  /\ NONE \notin Nat
  /\ max_lines = BODY_MAX_BYTES + 1
BY LayoutAssumption DEF LayoutAssumption, max_lines

(* A sequence ends with the text at the latest; after its first byte it    *)
(* has only continuing ones (presence_layout.c:5-22).                      *)
LEMMA SequenceInText ==
  ASSUME NEW text \in Seq(Bytes), NEW i \in 0 .. Len(text) - 1
  PROVE  /\ SequenceLength(text, i) \in 1 .. 4
         /\ i + SequenceLength(text, i) <= Len(text)
         /\ \A q \in i + 1 .. i + SequenceLength(text, i) - 1 : Continues(text, q)
         /\ ByteAt(text, i) \in Blanks => SequenceLength(text, i) = 1
BY DEF SequenceLength, Continues, ByteAt, Blanks

(* In a well-formed text, what follows a byte that stands alone begins a   *)
(* character, and so does what follows a whole sequence.                   *)
LEMMA CharacterAfterBlank ==
  ASSUME NEW text \in Seq(Bytes), WellFormed(text),
         NEW i \in 0 .. Len(text) - 1, ByteAt(text, i) \in Blanks
  PROVE  ~ Continues(text, i + 1)
<1> SUFFICES ASSUME Continues(text, i + 1) PROVE FALSE
  OBVIOUS
<1>1. i + 1 \in 0 .. Len(text) - 1
  BY DEF Continues, ByteAt
<1>2. PICK p \in 0 .. i : i + 1 < p + Announced(ByteAt(text, p))
  BY <1>1 DEF WellFormed
<1>3. p # i
  BY <1>2 DEF Announced, Blanks
<1>4. Announced(ByteAt(text, p)) \in 1 .. 4
  BY DEF Announced
<1>5. Continues(text, i)
  BY <1>2, <1>3, <1>4 DEF WellFormed
<1> QED BY <1>5 DEF Continues, Blanks

LEMMA CharacterAfterSequence ==
  ASSUME NEW text \in Seq(Bytes), WellFormed(text),
         NEW i \in 0 .. Len(text) - 1, ~ Continues(text, i)
  PROVE  ~ Continues(text, i + SequenceLength(text, i))
<1> DEFINE n == SequenceLength(text, i)
<1> SUFFICES ASSUME Continues(text, i + n) PROVE FALSE
  OBVIOUS
<1>1. /\ n \in 1 .. 4 /\ i + n <= Len(text)
      /\ \A q \in i + 1 .. i + n - 1 : Continues(text, q)
  BY SequenceInText
<1>2. i + n \in 0 .. Len(text) - 1
  BY <1>1 DEF Continues, ByteAt
<1>3. n = Announced(ByteAt(text, i))
  <2>1. Announced(ByteAt(text, i)) \in 1 .. 4
    BY DEF Announced
  <2>2. \A q \in i + 1 .. i + Announced(ByteAt(text, i)) - 1 : Continues(text, q)
    BY DEF WellFormed
  <2> QED BY <2>1, <2>2 DEF Announced, SequenceLength
<1> HIDE DEF n
<1>4. PICK p \in 0 .. i + n - 1 : i + n < p + Announced(ByteAt(text, p))
  BY <1>1, <1>2 DEF WellFormed
<1>5. Announced(ByteAt(text, p)) \in 1 .. 4
  BY DEF Announced
<1>6. CASE p < i
  <2>1. Continues(text, i)
    BY <1>1, <1>4, <1>5, <1>6 DEF WellFormed
  <2> QED BY <2>1
<1>7. CASE p = i
  BY <1>1, <1>3, <1>4, <1>7
<1>8. CASE p > i
  <2>1. Continues(text, p)
    BY <1>1, <1>4, <1>8
  <2>2. Announced(ByteAt(text, p)) = 1
    BY <2>1 DEF Continues, Announced
  <2> QED BY <1>1, <1>4, <2>2
<1> QED BY <1>1, <1>4, <1>6, <1>7, <1>8

-----------------------------------------------------------------------------
(* Init, and the copy *)

LEMMA InitLayout == Init => LInv
<1> SUFFICES ASSUME Init PROVE LInv
  OBVIOUS
<1> USE LayoutConstants DEF Init
<1>1. posted \in Seq(Bytes)
  OBVIOUS
<1>2. Typed
  BY <1>1 DEF Typed, MinOf
<1>3. Fresh /\ FewLines /\ InBounds /\ Ordered
  BY DEF Fresh, FewLines, InBounds, Ordered
<1>4. SpaceKnown /\ NothingLost /\ WordsSoFar
  BY DEF SpaceKnown, NothingLost, WordsSoFar, WordsWhole
<1>5. CharactersSoFar
  BY DEF CharactersSoFar, CharactersWhole, Continues, ByteAt
<1> QED BY <1>2, <1>3, <1>4, <1>5 DEF LInv

(* Before the loop there are no lines, and every claim about lines is void. *)
LEMMA BeforeLoop ==
  ASSUME Typed', lines' = <<>>, position' = 0, last_space' = NONE,
         pc' # "done",
         ~ Continues(body', 0) \/ ~ WellFormed(body')
  PROVE  LInv'
<1>1. line_start' = 0 /\ line_length' = 0
  <2>1. line_length' \in 0 .. PRESENCE_LINE_CHARS
    BY DEF Typed
  <2>2. line_start' \in Nat /\ line_start' + line_length' = 0
    BY Zenon DEF Typed
  <2>3. line_length' \in Nat
    BY <2>1, LayoutConstants
  <2>4. \A a, b \in Nat : a + b = 0 => a = 0 /\ b = 0
    OBVIOUS
  <2> QED BY <2>2, <2>3, <2>4, Zenon
<1> USE LayoutConstants
<1>2. Fresh' /\ FewLines' /\ InBounds' /\ Ordered' /\ SpaceKnown'
  BY <1>1 DEF Fresh, FewLines, InBounds, Ordered, SpaceKnown
<1>3. NothingLost' /\ WordsSoFar' /\ CharactersSoFar'
  BY <1>1 DEF NothingLost, WordsSoFar, WordsWhole, CharactersSoFar,
              CharactersWhole
<1> QED BY <1>2, <1>3 DEF LInv

(* The first byte of a well-formed text begins a character. *)
LEMMA WellFormedBegins ==
  ASSUME NEW text \in Seq(Bytes), WellFormed(text)
  PROVE  ~ Continues(text, 0)
BY DEF WellFormed, Continues, ByteAt

LEMMA CopyPreserves ==
  ASSUME LInv, DropContinuation \/ Copy \/ Begin
  PROVE  LInv'
<1>1. Typed'
  <2>1. CASE Copy
    <3>1. body' \in Seq(Bytes) /\ Len(body') = length
      BY <2>1 DEF Copy, LInv, Typed
    <3> QED BY <2>1, <3>1 DEF Copy, LInv, Typed, Fresh, walk
  <2>2. CASE DropContinuation
    <3>1. length - 1 \in 0 .. BODY_MAX_BYTES /\ length - 1 <= Len(posted)
      BY <2>2, LayoutConstants DEF DropContinuation, LInv, Typed
    <3> QED BY <2>2, <3>1 DEF DropContinuation, LInv, Typed, walk
  <2>3. CASE Begin
    BY <2>3 DEF Begin, LInv, Typed, walk
  <2> QED BY <2>1, <2>2, <2>3
<1>2. lines' = <<>> /\ position' = 0 /\ last_space' = NONE /\ pc' # "done"
  BY DEF DropContinuation, Copy, Begin, LInv, Fresh, walk
<1>3. body' \in Seq(Bytes)
  BY <1>1 DEF Typed
<1> QED BY <1>1, <1>2, <1>3, BeforeLoop, WellFormedBegins

LEMMA EmptyBodyPreserves ==
  ASSUME LInv, EmptyBody
  PROVE  LInv'
<1> USE LayoutConstants DEF EmptyBody
<1>1. body = <<>> /\ Len(body) = 0
  BY DEF ByteAt, LInv, Typed, Bytes
<1>2. lines' = <<Line(0, 0)>> /\ Len(lines') = 1 /\ lines'[1] = Line(0, 0)
  OBVIOUS
<1>3. Typed'
  BY <1>2 DEF LInv, Typed, Line, walk
<1>4. position = 0 /\ line_start = 0 /\ last_space = NONE
  BY DEF LInv, Fresh, Typed
<1>5. Fresh' /\ FewLines' /\ SpaceKnown'
  BY <1>4 DEF Fresh, FewLines, SpaceKnown, walk
<1>6. InBounds' /\ Ordered' /\ NothingLost'
  BY <1>1, <1>2, <1>4 DEF InBounds, Ordered, NothingLost, EndOf, Line, walk
<1>7. WordsSoFar' /\ CharactersSoFar'
  BY <1>1, <1>2, <1>4
     DEF WordsSoFar, WordsWhole, CharactersSoFar, CharactersWhole, Continues,
         ByteAt, EndOf, Line, walk
<1> QED BY <1>3, <1>5, <1>6, <1>7 DEF LInv

-----------------------------------------------------------------------------
(* The end of a line *)

(* Appending leaves the lines there are in place. *)
LEMMA AppendKeeps ==
  ASSUME Typed, NEW line \in [start : Nat, length : 0 .. PRESENCE_LINE_CHARS],
         lines' = Append(lines, line)
  PROVE  /\ lines' \in Seq([start : Nat, length : 0 .. PRESENCE_LINE_CHARS])
         /\ Len(lines') = Len(lines) + 1
         /\ \A i \in 1 .. Len(lines) : lines'[i] = lines[i]
         /\ lines'[Len(lines) + 1] = line
         /\ Len(lines) \in Nat
BY DEF Typed

(* What the walk has passed stays covered when a line is appended, and the *)
(* line covers its own bytes.                                              *)
LEMMA AppendCovers ==
  ASSUME Typed, NEW line \in [start : Nat, length : 0 .. PRESENCE_LINE_CHARS],
         lines' = Append(lines, line), UNCHANGED body
  PROVE  /\ \A p \in Nat : Covered(p) => Covered(p)'
         /\ \A p \in line.start .. EndOf(line) - 1 : Covered(p)'
BY AppendKeeps DEF Covered, EndOf

(***************************************************************************)
(* A line that begins where the walk is and takes no more than the bytes   *)
(* walked keeps what is said of all lines (presence_layout.c:43-46,57-66,  *)
(* 88-91).                                                                 *)
(***************************************************************************)
LEMMA AppendLine ==
  ASSUME LInv, pc = "loop", UNCHANGED body,
         NEW len \in 0 .. line_length,
         lines' = Append(lines, Line(line_start, len)),
         WellFormed(body) => ~ Continues(body, line_start + len)
  PROVE  /\ lines' \in Seq([start : Nat, length : 0 .. PRESENCE_LINE_CHARS])
         /\ Len(lines') = Len(lines) + 1 /\ Len(lines) \in Nat
         /\ lines'[Len(lines')].start = line_start
         /\ EndOf(lines'[Len(lines')]) = line_start + len
         /\ InBounds'
         /\ \A i \in 1 .. Len(lines') - 1 : EndOf(lines'[i]) <= lines'[i + 1].start
         /\ \A p \in 0 .. line_start + len - 1 :
              ByteAt(body, p) \in Blanks \/ Covered(p)'
         /\ WordsWhole'
         /\ WellFormed(body) => CharactersWhole'
<1> DEFINE line == Line(line_start, len)
<1> USE LayoutConstants
<1>1. Typed
  BY DEF LInv
<1>2. /\ line \in [start : Nat, length : 0 .. PRESENCE_LINE_CHARS]
      /\ line.start = line_start /\ EndOf(line) = line_start + len
  BY <1>1 DEF Typed, Line, EndOf
<1>. lines' = Append(lines, line)
  OBVIOUS
<1> HIDE DEF line
<1>3. /\ lines' \in Seq([start : Nat, length : 0 .. PRESENCE_LINE_CHARS])
      /\ Len(lines') = Len(lines) + 1
      /\ \A i \in 1 .. Len(lines) : lines'[i] = lines[i]
      /\ lines'[Len(lines) + 1] = line
      /\ Len(lines) \in Nat
  BY <1>1, <1>2, AppendKeeps
<1>4. lines'[Len(lines')] = line
  BY <1>3
<1>5. InBounds'
  <2> SUFFICES ASSUME NEW i \in 1 .. Len(lines')
               PROVE  EndOf(lines'[i]) <= Len(body)
    BY DEF InBounds
  <2>1. CASE i = Len(lines) + 1
    BY <1>1, <1>2, <1>3, <2>1 DEF Typed
  <2>2. CASE i <= Len(lines)
    <3>1. i \in 1 .. Len(lines) /\ lines'[i] = lines[i]
      BY <1>3, <2>2
    <3> QED BY <3>1 DEF LInv, InBounds
  <2> QED BY <1>3, <2>1, <2>2
<1>6. ASSUME NEW i \in 1 .. Len(lines') - 1
      PROVE  EndOf(lines'[i]) <= lines'[i + 1].start
  <2>1. CASE i = Len(lines)
    BY <1>1, <1>2, <1>3, <2>1 DEF LInv, Ordered
  <2>2. CASE i < Len(lines)
    <3>1. i \in 1 .. Len(lines) - 1
      BY <1>3, <2>2
    <3>2. lines'[i] = lines[i] /\ lines'[i + 1] = lines[i + 1]
      BY <1>3, <3>1
    <3> QED BY <3>1, <3>2 DEF LInv, Ordered
  <2>3. i = Len(lines) \/ i < Len(lines)
    BY <1>3
  <2> QED BY <2>1, <2>2, <2>3, Zenon
<1>7. ASSUME NEW p \in 0 .. line_start + len - 1
      PROVE  ByteAt(body, p) \in Blanks \/ Covered(p)'
  <2>1. CASE p < line_start
    BY <1>1, <1>2, <2>1, AppendCovers DEF LInv, NothingLost, Typed
  <2>2. CASE p \in line_start .. line_start + len - 1
    BY <1>1, <1>2, <2>2, AppendCovers
  <2> QED BY <1>1, <2>1, <2>2 DEF Typed
<1>8. WordsWhole'
  <2> SUFFICES ASSUME NEW i \in 1 .. Len(lines') - 1,
                      EndOf(lines'[i]) = lines'[i + 1].start,
                      NEW p \in lines'[i].start .. EndOf(lines'[i]) - 1
               PROVE  ByteAt(body, p) # "space"
    BY DEF WordsWhole
  <2>1. CASE i = Len(lines)
    BY <1>1, <1>2, <1>3, <2>1 DEF LInv, WordsSoFar
  <2>2. CASE i < Len(lines)
    <3>1. i \in 1 .. Len(lines) - 1
      BY <1>3, <2>2
    <3>2. lines'[i] = lines[i] /\ lines'[i + 1] = lines[i + 1]
      BY <1>3, <3>1
    <3> QED BY <3>1, <3>2 DEF LInv, WordsSoFar, WordsWhole
  <2> QED BY <1>3, <2>1, <2>2
<1>9. ASSUME WellFormed(body)
      PROVE  CharactersWhole'
  <2>1. ASSUME NEW i \in 1 .. Len(lines')
        PROVE  /\ ~ Continues(body, lines'[i].start)
               /\ ~ Continues(body, EndOf(lines'[i]))
    <3>1. CASE i = Len(lines) + 1
      BY <1>2, <1>3, <1>9, <3>1 DEF LInv, CharactersSoFar
    <3>2. CASE i <= Len(lines)
      <4>1. i \in 1 .. Len(lines) /\ lines'[i] = lines[i]
        BY <1>3, <3>2
      <4> QED BY <1>9, <4>1 DEF LInv, CharactersSoFar, CharactersWhole
    <3> QED BY <1>3, <3>1, <3>2
  <2> QED BY <2>1 DEF CharactersWhole
<1>10. /\ lines'[Len(lines')].start = line_start
       /\ EndOf(lines'[Len(lines')]) = line_start + len
  BY <1>2, <1>4, Zenon
<1> QED BY <1>3, <1>5, <1>6, <1>7, <1>8, <1>9, <1>10, Zenon

(***************************************************************************)
(* Ending a line keeps the invariant if the next one starts after it, only *)
(* blanks are left out between them, and neither end is inside a character *)
(* (presence_layout.c:43-51,56-71).                                        *)
(***************************************************************************)
LEMMA EndLinePreserves ==
  ASSUME LInv, Looping,
         NEW len \in 0 .. line_length,
         NEW start \in line_start + len .. Len(body),
         start > line_start,
         EndLine(len, start),
         \A p \in line_start + len .. start - 1 : ByteAt(body, p) \in Blanks,
         start = line_start + len =>
           \A p \in line_start .. start - 1 : ByteAt(body, p) # "space",
         WellFormed(body) =>
           ~ Continues(body, line_start + len) /\ ~ Continues(body, start)
  PROVE  LInv'
<1> USE LayoutConstants
<1>1. /\ Typed /\ pc = "loop"
      /\ lines' = Append(lines, Line(line_start, len))
      /\ UNCHANGED <<posted, pc, length, body>>
      /\ position' = start /\ line_start' = start /\ line_length' = 0
      /\ last_space' = NONE
  BY DEF LInv, Looping, EndLine
<1>2. /\ lines' \in Seq([start : Nat, length : 0 .. PRESENCE_LINE_CHARS])
      /\ Len(lines') = Len(lines) + 1 /\ Len(lines) \in Nat
      /\ lines'[Len(lines')].start = line_start
      /\ EndOf(lines'[Len(lines')]) = line_start + len
      /\ InBounds'
      /\ \A i \in 1 .. Len(lines') - 1 : EndOf(lines'[i]) <= lines'[i + 1].start
      /\ \A p \in 0 .. line_start + len - 1 :
           ByteAt(body, p) \in Blanks \/ Covered(p)'
      /\ WordsWhole'
      /\ WellFormed(body) => CharactersWhole'
  BY <1>1, AppendLine, Zenon
<1>3. Typed'
  BY <1>1, <1>2 DEF Typed
<1>4. Fresh' /\ SpaceKnown'
  BY <1>1 DEF Fresh, SpaceKnown
<1>5. FewLines' /\ Ordered'
  <2>1. Len(lines) <= line_start /\ line_start \in Nat
    BY <1>1 DEF LInv, FewLines, Typed
  <2>2. Len(lines') <= line_start' /\ EndOf(lines'[Len(lines')]) <= line_start'
    BY <1>1, <1>2, <2>1
  <2> QED BY <1>2, <2>2, Zenon DEF FewLines, Ordered
<1>6. NothingLost'
  <2>1. ASSUME NEW p \in 0 .. line_start' - 1
        PROVE  ByteAt(body, p) \in Blanks \/ Covered(p)'
    <3>1. CASE p < line_start + len
      BY <1>1, <1>2, <3>1 DEF Typed
    <3>2. CASE p \in line_start + len .. start - 1
      BY <3>2
    <3> QED BY <1>1, <3>1, <3>2 DEF Typed
  <2> QED BY <1>1, <2>1 DEF NothingLost
<1>7. WordsSoFar'
  BY <1>1, <1>2 DEF WordsSoFar
<1>8. CharactersSoFar'
  BY <1>1, <1>2 DEF CharactersSoFar
<1> QED BY <1>2, <1>3, <1>4, <1>5, <1>6, <1>7, <1>8 DEF LInv

(* The three ways a line ends in the loop *)
LEMMA BreakPreserves ==
  ASSUME LInv, Newline \/ BreakAtSpace \/ BreakInWord
  PROVE  LInv'
<1> USE LayoutConstants
<1>1. /\ Typed /\ SpaceKnown /\ CharactersSoFar /\ Looping
      /\ body \in Seq(Bytes) /\ Len(body) \in Nat
      /\ line_start \in Nat /\ line_length \in Nat
      /\ line_start + line_length = position
  BY DEF LInv, Typed, Newline, BreakAtSpace, BreakInWord
<1>2. position \in 0 .. Len(body) - 1
  BY <1>1 DEF Looping, ByteAt, Typed
<1>3. CASE Newline
  <2>1. ByteAt(body, position) = "newline" /\ EndLine(line_length, position + 1)
    BY <1>3 DEF Newline
  <2>2. WellFormed(body) =>
          ~ Continues(body, position) /\ ~ Continues(body, position + 1)
    BY <1>1, <1>2, <2>1, CharacterAfterBlank DEF Blanks, CharactersSoFar
  <2>3. \A p \in position .. position : ByteAt(body, p) \in Blanks
    BY <1>2, <2>1 DEF Blanks
  <2> QED BY <1>1, <1>2, <2>1, <2>2, <2>3, EndLinePreserves
<1>4. CASE BreakAtSpace
  <2>1. /\ last_space \in line_start + 1 .. position - 1
        /\ ByteAt(body, last_space) = "space"
        /\ EndLine(last_space - line_start, last_space + 1)
    BY <1>1, <1>4 DEF BreakAtSpace, SpaceKnown, Typed
  <2>2. last_space \in 0 .. Len(body) - 1
    BY <1>1, <1>2, <2>1
  <2>3. WellFormed(body) =>
          ~ Continues(body, last_space) /\ ~ Continues(body, last_space + 1)
    BY <1>1, <2>1, <2>2, CharacterAfterBlank DEF Blanks, Continues
  <2>4. \A p \in last_space .. last_space : ByteAt(body, p) \in Blanks
    BY <2>1, <2>2 DEF Blanks
  <2>5. /\ last_space - line_start \in 0 .. line_length
        /\ line_start + (last_space - line_start) = last_space
        /\ last_space + 1 \in last_space .. Len(body)
    BY <1>1, <1>2, <2>1, <2>2
  <2> QED BY <1>1, <2>1, <2>2, <2>3, <2>4, <2>5, EndLinePreserves
<1>5. CASE BreakInWord
  <2>1. /\ line_length > 0 /\ EndLine(line_length, position)
        /\ \A p \in line_start .. position - 1 : ByteAt(body, p) # "space"
    BY <1>1, <1>5 DEF BreakInWord, Overflows, SpaceKnown
  <2>2. WellFormed(body) => ~ Continues(body, position)
    BY <1>1 DEF CharactersSoFar
  <2> QED BY <1>1, <1>2, <2>1, <2>2, EndLinePreserves
<1> QED BY <1>3, <1>4, <1>5

-----------------------------------------------------------------------------
(* The turns of the loop that end no line, and its end *)

(* What is said of the lines there are depends only on them, the body and  *)
(* where the line being built begins.                                      *)
LEMMA LinesStay ==
  ASSUME LInv, pc = "loop", UNCHANGED <<posted, pc, length, body, lines>>,
         NEW next \in Nat, line_start' = next, line_start <= next,
         \A p \in line_start .. next - 1 : ByteAt(body, p) \in Blanks
  PROVE  Fresh' /\ FewLines' /\ InBounds' /\ Ordered' /\ NothingLost' /\ WordsSoFar'
<1>1. Typed /\ FewLines /\ InBounds /\ Ordered /\ NothingLost /\ WordsSoFar
  BY DEF LInv
<1>2. line_start \in Nat /\ Len(lines) \in Nat
  BY <1>1 DEF Typed
<1>3. Fresh' /\ InBounds'
  BY <1>1 DEF Fresh, InBounds
<1>4. FewLines'
  BY <1>1, <1>2 DEF FewLines
<1>5. ASSUME lines # <<>>
      PROVE  /\ EndOf(lines[Len(lines)]) <= line_start
             /\ EndOf(lines[Len(lines)]) \in Nat
  <2>1. lines[Len(lines)] \in [start : Nat, length : 0 .. PRESENCE_LINE_CHARS]
    <3>1. Len(lines) \in 1 .. Len(lines)
      BY <1>1, <1>5, LayoutConstants DEF Typed
    <3>2. lines \in Seq([start : Nat, length : 0 .. PRESENCE_LINE_CHARS])
      BY <1>1 DEF Typed
    <3> QED BY <3>1, <3>2, ElementOfSeq, Zenon
  <2>2. EndOf(lines[Len(lines)]) \in Nat
    BY <2>1, LayoutConstants DEF EndOf
  <2> QED BY <1>1, <1>5, <2>2, Zenon DEF Ordered
<1>6. Ordered'
  <2>1. lines # <<>> => EndOf(lines[Len(lines)]) <= next
    BY <1>2, <1>5
  <2> QED BY <1>1, <2>1, Zenon DEF Ordered
<1>7. NothingLost'
  <2>1. ASSUME NEW p \in 0 .. next - 1
        PROVE  ByteAt(body, p) \in Blanks \/ Covered(p)
    <3>1. \A q \in 0 .. line_start - 1 : ByteAt(body, q) \in Blanks \/ Covered(q)
      BY <1>1 DEF NothingLost
    <3>2. p \in 0 .. line_start - 1 \/ p \in line_start .. next - 1
      BY <1>2
    <3> QED BY <3>1, <3>2, Zenon
  <2> QED BY <2>1, Zenon DEF NothingLost, Covered
<1>8. WordsSoFar'
  <2>1. lines # <<>> /\ EndOf(lines[Len(lines)]) = next =>
          EndOf(lines[Len(lines)]) = line_start
    BY <1>2, <1>5
  <2> QED BY <1>1, <2>1, Zenon DEF WordsSoFar, WordsWhole
<1> QED BY <1>3, <1>4, <1>6, <1>7, <1>8

LEMMA SkipSpacePreserves ==
  ASSUME LInv, SkipSpace
  PROVE  LInv'
<1> USE LayoutConstants
<1>1. /\ Typed /\ SpaceKnown /\ CharactersSoFar /\ pc = "loop"
      /\ UNCHANGED <<posted, pc, length, body, lines, line_length, last_space>>
      /\ position' = position + 1 /\ line_start' = position + 1
      /\ line_length = 0
      /\ ByteAt(body, position) = "space"
  BY DEF LInv, SkipSpace, Looping
<1>2. /\ body \in Seq(Bytes) /\ Len(body) \in Nat /\ line_start = position
      /\ position \in 0 .. Len(body) - 1 /\ last_space = NONE
  BY <1>1 DEF Typed, ByteAt
<1>3. Typed'
  BY <1>1, <1>2 DEF Typed
<1>4. Fresh' /\ FewLines' /\ InBounds' /\ Ordered' /\ NothingLost' /\ WordsSoFar'
  <2>1. \A p \in line_start .. (position + 1) - 1 : ByteAt(body, p) \in Blanks
    BY <1>1, <1>2 DEF Blanks
  <2>2. position + 1 \in Nat /\ line_start <= position + 1
    BY <1>1, <1>2
  <2> QED BY <1>1, <2>1, <2>2, LinesStay, Zenon
<1>5. SpaceKnown'
  BY <1>1, <1>2 DEF SpaceKnown
<1>6. CharactersSoFar'
  <2>1. WellFormed(body) => ~ Continues(body, position + 1)
    BY <1>1, <1>2, CharacterAfterBlank DEF Blanks
  <2> QED BY <1>1, <2>1, Zenon DEF CharactersSoFar, CharactersWhole
<1> QED BY <1>3, <1>4, <1>5, <1>6 DEF LInv

LEMMA ConsumePreserves ==
  ASSUME LInv, Consume
  PROVE  LInv'
<1> DEFINE n == SequenceLength(body, position)
<1> USE LayoutConstants
<1>1. /\ Typed /\ SpaceKnown /\ CharactersSoFar /\ pc = "loop"
      /\ UNCHANGED <<posted, pc, length, body, lines, line_start>>
      /\ line_length' = line_length + n /\ position' = position + n
      /\ last_space' = IF ByteAt(body, position) = "space"
                         THEN position ELSE last_space
      /\ ~ Overflows
      /\ ByteAt(body, position) = "space" => line_length > 0
  BY DEF LInv, Consume, Looping
<1>2. /\ body \in Seq(Bytes) /\ Len(body) \in Nat
      /\ line_start \in Nat /\ line_length \in 0 .. PRESENCE_LINE_CHARS
      /\ line_start + line_length = position
      /\ last_space \in {NONE} \cup line_start .. position - 1
  BY <1>1 DEF Typed
<1>3. position \in 0 .. Len(body) - 1
  BY <1>1, <1>2 DEF Typed, Consume, Looping, ByteAt
<1>4. /\ n \in 1 .. 4 /\ position + n <= Len(body)
      /\ \A q \in position + 1 .. position + n - 1 : Continues(body, q)
      /\ ByteAt(body, position) = "space" => n = 1
  BY <1>2, <1>3, SequenceInText DEF Blanks
<1>5. line_length + n <= PRESENCE_LINE_CHARS
  BY <1>1, <1>2, <1>4 DEF Overflows
<1> HIDE DEF n
<1>6. Typed'
  <2>1. /\ line_length' \in 0 .. PRESENCE_LINE_CHARS
        /\ position' \in 0 .. Len(body)
        /\ line_start + line_length' = position'
    BY <1>1, <1>2, <1>3, <1>4, <1>5
  <2>2. last_space' \in {NONE} \cup line_start .. position' - 1
    BY <1>1, <1>2, <1>3, <1>4
  <2> QED BY <1>1, <2>1, <2>2, Zenon DEF Typed
<1>7. Fresh' /\ FewLines' /\ InBounds' /\ Ordered' /\ NothingLost' /\ WordsSoFar'
  <2>1. /\ line_start \in Nat /\ line_start' = line_start /\ line_start <= line_start
        /\ \A p \in line_start .. line_start - 1 : ByteAt(body, p) \in Blanks
    BY <1>1, <1>2
  <2> QED BY <1>1, <2>1, LinesStay
<1>8. SpaceKnown'
  <2>1. CASE ByteAt(body, position) = "space"
    BY <1>1, <1>2, <1>3, <2>1 DEF SpaceKnown
  <2>2. CASE ByteAt(body, position) # "space"
    <3>1. last_space' = last_space
      BY <1>1, <2>2
    <3>2. \A p \in position .. position + n - 1 : ByteAt(body, p) # "space"
      BY <1>2, <1>3, <1>4, <2>2 DEF Continues
    <3>3. last_space = NONE =>
            \A p \in line_start .. position' - 1 : ByteAt(body, p) # "space"
      BY <1>1, <1>2, <1>3, <1>4, <3>2 DEF SpaceKnown
    <3> QED BY <1>1, <3>1, <3>3 DEF SpaceKnown
  <2> QED BY <2>1, <2>2
<1>9. CharactersSoFar'
  <2>1. WellFormed(body) => ~ Continues(body, position + n)
    BY <1>1, <1>2, <1>3, CharacterAfterSequence DEF CharactersSoFar, n
  <2> QED BY <1>1, <2>1, Zenon DEF CharactersSoFar, CharactersWhole
<1> QED BY <1>6, <1>7, <1>8, <1>9 DEF LInv

(* max_lines never ends the loop: it ends at the end of the body. *)
LEMMA LoopEndsWithBody ==
  ASSUME LInv, pc = "loop", ~ Looping
  PROVE  position = Len(body) /\ Len(lines) < max_lines
<1> USE LayoutConstants
<1>1. Typed /\ FewLines
  BY DEF LInv
<1>2. /\ body \in Seq(Bytes) /\ Len(body) \in Nat /\ Len(lines) \in Nat
      /\ position \in 0 .. Len(body) /\ line_start <= position
      /\ Len(lines) <= line_start /\ Len(body) <= BODY_MAX_BYTES
      /\ line_start \in Nat
  BY <1>1 DEF Typed, FewLines
<1>3. Len(lines) < max_lines
  BY <1>2
<1>4. ByteAt(body, position) = "nul"
  BY <1>3 DEF Looping
<1>5. \A i \in 0 .. Len(body) - 1 : ByteAt(body, i) # "nul"
  BY <1>2 DEF ByteAt, Bytes
<1> QED BY <1>2, <1>3, <1>4, <1>5

LEMMA FinishPreserves ==
  ASSUME LInv, Finish
  PROVE  LInv'
<1> USE LayoutConstants
<1>1. /\ Typed /\ CharactersSoFar /\ pc = "loop" /\ pc' = "done"
      /\ UNCHANGED <<posted, length, body, line_start, line_length, position,
                     last_space>>
  BY DEF LInv, Finish, walk
<1>2. /\ line_start \in Nat /\ line_length \in 0 .. PRESENCE_LINE_CHARS
      /\ line_start + line_length = position /\ Len(body) \in Nat
      /\ lines \in Seq([start : Nat, length : 0 .. PRESENCE_LINE_CHARS])
  BY <1>1 DEF Typed
<1>3. position = Len(body) /\ Len(lines) < max_lines
  BY LoopEndsWithBody DEF Finish
<1>4. Fresh' /\ FewLines' /\ SpaceKnown'
  BY <1>1 DEF LInv, Fresh, FewLines, SpaceKnown
<1>5. CASE FinishesLine
  <2>1. /\ lines' = Append(lines, Line(line_start, line_length))
        /\ line_length \in 0 .. line_length
        /\ WellFormed(body) => ~ Continues(body, line_start + line_length)
    BY <1>1, <1>2, <1>5 DEF Finish, CharactersSoFar
  <2>2. /\ lines' \in Seq([start : Nat, length : 0 .. PRESENCE_LINE_CHARS])
        /\ InBounds'
        /\ \A i \in 1 .. Len(lines') - 1 : EndOf(lines'[i]) <= lines'[i + 1].start
        /\ \A p \in 0 .. line_start + line_length - 1 :
             ByteAt(body, p) \in Blanks \/ Covered(p)'
        /\ WordsWhole'
        /\ WellFormed(body) => CharactersWhole'
    BY <1>1, <2>1, AppendLine, Zenon
  <2>3. Typed'
    BY <1>1, <2>2 DEF Typed
  <2>4. NothingLost'
    BY <1>1, <1>2, <1>3, <2>2 DEF NothingLost
  <2>5. Ordered' /\ WordsSoFar' /\ CharactersSoFar'
    BY <1>1, <2>2, Zenon DEF Ordered, WordsSoFar, CharactersSoFar
  <2> QED BY <1>4, <2>2, <2>3, <2>4, <2>5 DEF LInv
<1>6. CASE ~ FinishesLine
  <2>1. lines' = lines /\ line_length = 0
    BY <1>2, <1>3, <1>6 DEF Finish, FinishesLine
  <2>2. Typed'
    BY <1>1, <2>1 DEF Typed
  <2>3. line_start = Len(body)
    BY <1>2, <1>3, <2>1
  <2>4. InBounds' /\ Ordered' /\ WordsSoFar' /\ CharactersSoFar'
    BY <1>1, <2>1, Zenon
       DEF LInv, InBounds, Ordered, WordsSoFar, WordsWhole, CharactersSoFar,
           CharactersWhole
  <2>5. NothingLost'
    BY <1>1, <2>1, <2>3, Zenon DEF LInv, NothingLost, Covered
  <2> QED BY <1>4, <2>2, <2>4, <2>5 DEF LInv
<1> QED BY <1>5, <1>6

-----------------------------------------------------------------------------
(* The theorems *)

LEMMA StepPreserves ==
  ASSUME LInv, [Next]_vars
  PROVE  LInv'
<1>1. CASE Next
  BY <1>1, CopyPreserves, EmptyBodyPreserves, BreakPreserves,
     SkipSpacePreserves, ConsumePreserves, FinishPreserves DEF Next
<1>2. CASE UNCHANGED vars
  BY <1>2
     DEF vars, walk, LInv, Typed, Fresh, FewLines, SpaceKnown, InBounds, Ordered,
         NothingLost, Covered, WordsSoFar, WordsWhole, CharactersSoFar,
         CharactersWhole
<1> QED BY <1>1, <1>2

(* The invariant, for every text, width of a row and size of the body      *)
(* (presence_layout.c:26-95).                                              *)
THEOREM LayoutInvariance == Spec => []LInv
<1>1. Init => LInv
  BY InitLayout
<1>2. LInv /\ [Next]_vars => LInv'
  BY StepPreserves
<1> QED BY <1>1, <1>2, PTL DEF Spec

(* Positions stay in the body, and no line is longer than the row it is    *)
(* copied to (presence_layout.c:34-38, presence.c:60,71-73).               *)
THEOREM LayoutTypes == Spec => []TypeOK
<1>1. LInv => TypeOK
  BY LayoutConstants DEF LInv, Typed, TypeOK
<1> QED BY <1>1, LayoutInvariance, PTL

(* The lines lie in the body one after the other, each in a row            *)
(* (presence_layout.c:43-46,57-66,88-91).                                  *)
THEOREM InOrder == Spec => []LinesInOrder
<1>1. ASSUME LInv PROVE LinesInOrder
  <2>1. ASSUME NEW i \in 1 .. Len(lines)
        PROVE  lines[i].length <= PRESENCE_LINE_CHARS
    <3>1. lines \in Seq([start : Nat, length : 0 .. PRESENCE_LINE_CHARS])
      BY <1>1 DEF LInv, Typed
    <3>2. lines[i] \in [start : Nat, length : 0 .. PRESENCE_LINE_CHARS]
      BY <3>1, ElementOfSeq, Zenon
    <3> QED BY <3>2, LayoutConstants
  <2> QED BY <1>1, <2>1, Zenon DEF LInv, InBounds, Ordered, LinesInOrder
<1> QED BY <1>1, LayoutInvariance, PTL

(* Only newlines and spaces are ever missing from the lines, and the array *)
(* of lines is never too short (presence_layout.c:40-92).                  *)
THEOREM NothingIsLost == Spec => []NothingLost
<1>1. LInv => NothingLost
  BY DEF LInv
<1> QED BY <1>1, LayoutInvariance, PTL

(* No line begins or ends inside a character of a well-formed body         *)
(* (presence_layout.c:54-73).                                              *)
THEOREM NoCharacterSplit == Spec => []CharactersWhole
<1>1. LInv => CharactersWhole
  BY DEF LInv, CharactersSoFar, CharactersWhole
<1> QED BY <1>1, LayoutInvariance, PTL

(* A word is broken between two lines only if it fills the first of them   *)
(* (presence_layout.c:56-66).                                              *)
THEOREM NoWordSplit == Spec => []WordsWhole
<1>1. LInv => WordsWhole
  BY DEF LInv, WordsSoFar
<1> QED BY <1>1, LayoutInvariance, PTL

(* Each turn of the loop moves on (presence_layout.c:40-85).               *)
THEOREM EveryTurnMovesOn == Spec => MovesOn
<1> DEFINE Moved == pc' = "loop" /\ pc = "loop" =>
                      \/ line_start' > line_start
                      \/ line_start' = line_start /\ position' > position
<1>1. ASSUME LInv, Next PROVE Moved
  <2>1. /\ Typed /\ SpaceKnown
        /\ line_start \in Nat /\ line_length \in Nat
        /\ line_start + line_length = position
    BY <1>1, LayoutConstants DEF LInv, Typed
  <2>2. CASE DropContinuation \/ Copy \/ EmptyBody \/ Begin \/ Finish
    BY <2>2 DEF DropContinuation, Copy, EmptyBody, Begin, Finish
  <2>3. CASE Newline
    BY <2>1, <2>3 DEF Newline, EndLine
  <2>4. CASE BreakAtSpace
    BY <2>1, <2>4 DEF BreakAtSpace, EndLine, SpaceKnown, Typed
  <2>5. CASE BreakInWord
    BY <2>1, <2>5 DEF BreakInWord, EndLine, Overflows
  <2>6. CASE SkipSpace
    BY <2>1, <2>6 DEF SkipSpace
  <2>7. CASE Consume
    <3>1. body \in Seq(Bytes) /\ position \in 0 .. Len(body) - 1
      BY <2>1, <2>7 DEF Typed, Consume, Looping, ByteAt
    <3>2. SequenceLength(body, position) \in 1 .. 4
      BY <3>1, SequenceInText
    <3> QED BY <2>1, <2>7, <3>2 DEF Consume
  <2> QED BY <1>1, <2>2, <2>3, <2>4, <2>5, <2>6, <2>7 DEF Next
<1>2. LInv /\ [Next]_vars => [Moved]_vars
  BY <1>1
<1> QED BY <1>2, LayoutInvariance, PTL DEF Spec, MovesOn

=============================================================================
