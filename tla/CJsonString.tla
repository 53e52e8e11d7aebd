----------------------------- MODULE CJsonString -----------------------------
(***************************************************************************)
(* The strings of cJSON: print_string_ptr writes a string of bytes as a    *)
(* literal, parse_string reads a literal from a buffer of a given length.  *)
(* A text is typed piece by piece; it is taken as a string to print and,   *)
(* between quotes, as a literal to parse.                                  *)
(***************************************************************************)
EXTENDS Integers, Sequences, SequencesExt

CONSTANTS
  Pieces,      \* pieces of text: [bytes, codes], the characters they stand for,
               \* none if it is not one that may stand in a literal
  MaxPieces    \* bound on the length of a text

VARIABLE typed \* the pieces

Quote == 34
Backslash == 92
Digits == 48..57

-----------------------------------------------------------------------------
(* print_string_ptr                                                        *)

(* \b \f \n \r \t: the byte and the letter *)
Letters == {<<8, 98>>, <<12, 102>>, <<10, 110>>, <<13, 114>>, <<9, 116>>}
OneLetter(byte) == \E l \in Letters : l[1] = byte
LetterOf(byte) == (CHOOSE l \in Letters : l[1] = byte)[2]
HexDigit(n) == IF n < 10 THEN 48 + n ELSE 87 + n

escape_characters(byte) ==
  CASE byte \in {Quote, Backslash} \/ OneLetter(byte) -> 1
    [] byte < 32 /\ ~ OneLetter(byte) -> 5
    [] OTHER -> 0

(* Filled in after it has been counted; both must agree.                    *)
output_length(string) ==
  LET counted[n \in 0 .. Len(string)] ==
        IF n = 0 THEN 0 ELSE counted[n - 1] + escape_characters(string[n])
  IN Len(string) + counted[Len(string)]

Escaped_MutNoBackslash(byte) ==
  CASE byte = Quote -> <<Backslash, byte>>
    [] OneLetter(byte) -> <<Backslash, LetterOf(byte)>>
    [] byte < 32 /\ ~ OneLetter(byte) -> <<Backslash, 117, 48, 48, HexDigit(byte \div 16), HexDigit(byte % 16)>>
    [] OTHER -> <<byte>>

Escaped(byte) ==
  CASE byte \in {Quote, Backslash} -> <<Backslash, byte>>
    [] OneLetter(byte) -> <<Backslash, LetterOf(byte)>>
    [] byte < 32 /\ ~ OneLetter(byte) -> <<Backslash, 117, 48, 48, HexDigit(byte \div 16), HexDigit(byte % 16)>>
    [] OTHER -> <<byte>>

print_string_ptr(string) ==
  <<Quote>> \o FlattenSeq([n \in DOMAIN string |-> Escaped(string[n])]) \o <<Quote>>

-----------------------------------------------------------------------------
(* parse_string: what it makes of s, whose first byte is the first of the  *)
(* buffer                                                                  *)

HexValue(c) ==
  CASE c \in Digits -> c - 48
    [] c \in 65..70 -> c - 55
    [] c \in 97..102 -> c - 87
    [] OTHER -> 0

(* Four digits at i; if one of them is none, 0.                             *)
parse_hex4(s, i) ==
  IF \A k \in 0..3 : s[i + k] \in Digits \cup 65..70 \cup 97..102
    THEN ((HexValue(s[i]) * 16 + HexValue(s[i + 1])) * 16 + HexValue(s[i + 2])) * 16 + HexValue(s[i + 3])
    ELSE 0

Utf8(code) ==
  LET low(n) == 128 + (n % 64) IN
  CASE code < 128 -> <<code>>
    [] 128 <= code /\ code < 2048 -> <<192 + code \div 64, low(code)>>
    [] 2048 <= code /\ code < 65536 -> <<224 + code \div 4096, low(code \div 64), low(code)>>
    [] OTHER -> <<240 + code \div 262144, low(code \div 4096), low(code \div 64), low(code)>>

(* The first and the second half of a pair of surrogates                   *)
High(code) == 55296 <= code /\ code < 56320
Low(code) == 56320 <= code /\ code < 57344

Fails == [length |-> 0, bytes |-> <<>>]

(* The escape at i of a literal that ends before end: its length and what  *)
(* it stands for                                                           *)
utf16_literal_to_utf8(s, i, end) ==
  LET first == parse_hex4(s, i + 2)
      second == parse_hex4(s, i + 8)
  IN CASE end - i < 6 -> Fails
       [] end - i >= 6 /\ Low(first) -> Fails
       [] end - i >= 6 /\ High(first) ->
            IF \/ end - i < 12
               \/ s[i + 6] # Backslash \/ s[i + 7] # 117
               \/ ~ Low(second)
              THEN Fails
              ELSE [length |-> 12, bytes |-> Utf8(65536 + (first % 1024) * 1024 + (second % 1024))]
       [] OTHER -> [length |-> 6, bytes |-> Utf8(first)]

Escape(s, i, end) ==
  LET c == s[i + 1] IN
  CASE \E l \in Letters : l[2] = c -> [length |-> 2, bytes |-> <<(CHOOSE l \in Letters : l[2] = c)[1]>>]
    [] c \in {Quote, Backslash, 47} -> [length |-> 2, bytes |-> <<c>>]
    [] c = 117 -> utf16_literal_to_utf8(s, i, end)
    [] OTHER -> Fails

(* The closing quote, 0 before it is found, and the escapes before it; of an*)
(* escape two bytes are passed over, of the opening quote one.              *)
Pass(s, j, b) ==
  CASE b.end # 0 -> b
    [] b.end = 0 /\ b.over -> [b EXCEPT !.over = FALSE]
    [] b.end = 0 /\ ~ b.over /\ s[j] = Quote -> [b EXCEPT !.end = j]
    [] b.end = 0 /\ ~ b.over /\ s[j] = Backslash ->
         [b EXCEPT !.over = TRUE, !.skipped = @ + 1]
    [] OTHER -> b

FindEnd(s) ==
  LET passed[j \in 0 .. Len(s)] ==
        IF j = 0 THEN [end |-> 0, skipped |-> 0, over |-> TRUE]
        ELSE Pass(s, j, passed[j - 1])
  IN passed[Len(s)]

(* One turn of the loop through the literal, which ends before end          *)
Turn(s, end, u) ==
  CASE ~ u.ok \/ u.at >= end -> u
    [] u.ok /\ u.at < end /\ s[u.at] # Backslash ->
         [u EXCEPT !.at = @ + 1, !.out = Append(@, s[u.at])]
    [] OTHER -> LET e == Escape(s, u.at, end) IN
         IF e.length = 0 THEN [u EXCEPT !.ok = FALSE]
         ELSE [u EXCEPT !.at = @ + e.length, !.out = @ \o e.bytes]

Unescape(s, end) ==
  LET turned[n \in 0 .. Len(s)] ==
        IF n = 0 THEN [at |-> 2, out |-> <<>>, ok |-> TRUE]
        ELSE Turn(s, end, turned[n - 1])
  IN turned[Len(s)]

(* Whether it is a literal, the bytes written, and the room allocated for   *)
(* them with the final 0.                                                   *)
parse_string(s) ==
  LET f == FindEnd(s)
      u == Unescape(s, f.end)
  IN IF s[1] # Quote \/ f.end = 0 THEN [ok |-> FALSE, out |-> <<>>, room |-> 1, end |-> 0]
     ELSE [ok |-> u.ok, out |-> u.out, room |-> f.end - 1 - f.skipped + 1, end |-> f.end]

-----------------------------------------------------------------------------
Text == FlattenSeq([n \in DOMAIN typed |-> typed[n].bytes])
Init == typed = <<>>
Type(p) == Len(typed) < MaxPieces /\ typed' = Append(typed, p)
Next == \E p \in Pieces : Type(p)
Spec == Init /\ [][Next]_typed

Literal(text) == <<Quote>> \o text \o <<Quote>>

-----------------------------------------------------------------------------
TypeOK == typed \in Seq(Pieces)

(* What is printed has the length that was counted for it and reads back,   *)
(* to its last byte, as the string it was.                                  *)
PrintedReadsBack ==
  LET printed == print_string_ptr(Text)
      r == parse_string(printed)
  IN Len(printed) = output_length(Text) + 2 /\ r.ok /\ r.out = Text /\ r.end = Len(printed)

(* What is written for a literal, until it ends or is found to be wrong,    *)
(* has the room that was made for it from a count of backslashes alone:     *)
(* "at most how much we need for the output" (cJSON.c:861).                 *)
RoomSuffices ==
  LET r == parse_string(Literal(Text)) IN Len(r.out) + 1 <= r.room

(* A literal cut off before its closing quote is no string.                 *)
CutIsRejected ==
  LET whole == parse_string(Literal(Text)) IN
  \A n \in 1 .. whole.end - 1 : ~ parse_string(SubSeq(Literal(Text), 1, n)).ok

(* The characters of UTF-8                                                  *)
Codes(bytes) ==
  LET from[i \in Nat] ==
        IF i > Len(bytes) THEN <<>>
        ELSE LET b == bytes[i]
                 n == CASE b < 128 -> 1 [] b \in 192..223 -> 2 [] b \in 224..239 -> 3 [] OTHER -> 4
                 low(k) == bytes[i + k] % 64
                 code == CASE n = 1 -> b
                           [] n = 2 -> (b % 32) * 64 + low(1)
                           [] n = 3 -> ((b % 16) * 64 + low(1)) * 64 + low(2)
                           [] n = 4 -> (((b % 8) * 64 + low(1)) * 64 + low(2)) * 64 + low(3)
             IN <<code>> \o from[i + n]
  IN from[1]

(* A literal ends with its last quote, and is accepted if each piece of it  *)
(* stands for characters; it is those, in the shortest UTF-8 there is.      *)
LiteralMeant ==
  LET r == parse_string(Literal(Text))
      codes == FlattenSeq([n \in DOMAIN typed |-> typed[n].codes])
  IN /\ r.end = Len(Literal(Text))
     /\ r.ok <=> \A i \in DOMAIN typed : typed[i].codes # <<>>
     /\ r.ok => /\ Codes(r.out) = codes
                /\ r.out = FlattenSeq([n \in DOMAIN codes |-> Utf8(codes[n])])
=============================================================================
