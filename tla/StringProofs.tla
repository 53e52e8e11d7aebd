---------------------------- MODULE StringProofs ----------------------------
(***************************************************************************)
(* The strings of cJSON, for every string and every literal of any length: *)
(* that what is printed reads back, that a literal has room for what it is *)
(* read as, and that one that is cut off is refused.  Each of the loops is *)
(* a function of the turns it has made (ScanLoop, ReadLoop, PrintLoop).    *)
(***************************************************************************)
EXTENDS PartsProofs

-----------------------------------------------------------------------------
(* The loops: cJSON.c                                                      *)

(* Induction up to n.                                                      *)
LEMMA UpTo ==
  ASSUME NEW n \in Nat, NEW S, 0 \in S, \A k \in 1 .. n : k - 1 \in S => k \in S
  PROVE  \A k \in 0 .. n : k \in S
<1> DEFINE f == [k \in 0 .. n |-> k]
<1>1. f[0] \in S
  <2>1. 0 \in 0 .. n
    OBVIOUS
  <2> QED BY <2>1
<1>2. \A k \in 1 .. n : f[k - 1] = k - 1 /\ f[k] = k
  OBVIOUS
<1>3. \A k \in 0 .. n : f[k] = k
  OBVIOUS
<1> HIDE DEF f
<1>4. \A k \in 0 .. n : f[k] \in S
  <2>1. \A k \in 1 .. n : f[k - 1] \in S => f[k] \in S
    BY <1>2
  <2> QED BY <1>1, <2>1, EachTurn
<1> QED BY <1>3, <1>4

Scans ==
  [end : Nat, skipped : Nat, over : BOOLEAN]
ScanStart == [end |-> 0, skipped |-> 0, over |-> TRUE]

(* The search for the closing quote, byte by byte.                         *)
ScanLoop(s, g) ==
  /\ g \in [0 .. Len(s) -> Scans] /\ g[0] = ScanStart
  /\ \A j \in 1 .. Len(s) : g[j] = Strings!Pass(s, j, g[j - 1])
  /\ Strings!FindEnd(s) = g[Len(s)]

LEMMA PassTyped ==
  ASSUME NEW s, NEW j \in Nat, NEW b \in Scans
  PROVE  Strings!Pass(s, j, b) \in Scans
<1>1. b.end \in Nat /\ b.skipped \in Nat /\ b.over \in BOOLEAN
  BY DEF Scans
<1>2. [b EXCEPT !.over = FALSE] \in Scans
  BY DEF Scans
<1>3. [b EXCEPT !.end = j] \in Scans
  BY DEF Scans
<1>4. [b EXCEPT !.over = TRUE, !.skipped = @ + 1] \in Scans
  <2> DEFINE more == b.skipped + 1
             c == [b EXCEPT !.over = TRUE]
  <2>1. more \in Nat
    BY <1>1
  <2> HIDE DEF more
  <2>2. c \in Scans
    BY DEF Scans
  <2>3. [b EXCEPT !.over = TRUE, !.skipped = more] = [c EXCEPT !.skipped = more]
    OBVIOUS
  <2> HIDE DEF c
  <2>4. [c EXCEPT !.skipped = more] \in Scans
    BY <2>1, <2>2 DEF Scans
  <2> QED BY <2>3, <2>4 DEF more
<1> QED BY <1>2, <1>3, <1>4 DEF Strings!Pass

LEMMA ScanDefined ==
  ASSUME NEW s, Len(s) \in Nat
  PROVE  \E g : ScanLoop(s, g)
<1> DEFINE n == Len(s)
           turn == [z \in (1 .. n) \X Scans |-> Strings!Pass(s, z[1], z[2])]
           passed[j \in 0 .. n] ==
             IF j = 0 THEN ScanStart ELSE Strings!Pass(s, j, passed[j - 1])
<1>1. turn \in [(1 .. n) \X Scans -> Scans]
  <2>1. \A z \in (1 .. n) \X Scans : z[1] \in Nat /\ z[2] \in Scans
    OBVIOUS
  <2>2. \A z \in (1 .. n) \X Scans : Strings!Pass(s, z[1], z[2]) \in Scans
    BY <2>1, PassTyped
  <2> QED BY <2>2
<1>2. \A j \in 1 .. n : \A b \in Scans : turn[<<j, b>>] = Strings!Pass(s, j, b)
  OBVIOUS
<1>3. ScanStart \in Scans /\ n \in Nat
  BY DEF ScanStart, Scans
<1>4. Strings!FindEnd(s) = passed[n]
  BY DEF Strings!FindEnd, ScanStart
<1> HIDE DEF turn
<1>5. PICK g : Loop(n, Scans, ScanStart, turn, g)
  BY <1>1, <1>3, LoopDefined
<1>6. g = [j \in 0 .. n |-> IF j = 0 THEN ScanStart ELSE Strings!Pass(s, j, g[j - 1])]
  <2>1. \A j \in 0 .. n : j # 0 => j \in 1 .. n /\ j - 1 \in 0 .. n
    BY <1>3
  <2>2. \A j \in 0 .. n : g[j] = IF j = 0 THEN ScanStart ELSE Strings!Pass(s, j, g[j - 1])
    BY <1>2, <1>5, <2>1 DEF Loop
  <2> QED BY <1>5, <2>2 DEF Loop
<1>7. passed = [j \in 0 .. n |-> IF j = 0 THEN ScanStart ELSE Strings!Pass(s, j, passed[j - 1])]
  BY <1>6 DEF n
<1> HIDE DEF passed
<1>8. \A j \in 0 .. n : passed[j] = g[j]
  <2> DEFINE S == {j \in 0 .. n : passed[j] = g[j]}
  <2>1. 0 \in S
    <3>1. 0 \in 0 .. n /\ passed[0] = ScanStart /\ g[0] = ScanStart
      BY <1>3, <1>6, <1>7
    <3> QED BY <3>1
  <2>2. \A j \in 1 .. n : j - 1 \in S => j \in S
    <3>1. \A j \in 1 .. n : j \in 0 .. n /\ j # 0
      BY <1>3
    <3> QED BY <1>6, <1>7, <3>1
  <2> HIDE DEF S
  <2>3. \A j \in 0 .. n : j \in S
    BY <1>3, <2>1, <2>2, UpTo
  <2> QED BY <2>3 DEF S
<1>9. ScanLoop(s, g)
  <2>1. g \in [0 .. n -> Scans] /\ g[0] = ScanStart
    BY <1>5 DEF Loop
  <2>2. \A j \in 1 .. n : g[j] = Strings!Pass(s, j, g[j - 1])
    <3>1. \A j \in 1 .. n : j \in 0 .. n /\ j # 0
      BY <1>3
    <3> QED BY <1>6, <3>1
  <2>3. n \in 0 .. n
    BY <1>3
  <2> QED BY <1>4, <1>8, <2>1, <2>2, <2>3 DEF ScanLoop
<1> QED BY <1>9

-----------------------------------------------------------------------------
(* What an escape stands for: cJSON.c:666-800,861-935                      *)

(* What four hexadecimal digits can say.                                   *)
Units == {h \in Nat : h < 65536}

LEMMA HexInRange ==
  ASSUME NEW s, NEW i \in Nat
  PROVE  Strings!parse_hex4(s, i) \in Units
<1> DEFINE hex == Strings!Digits \cup 65..70 \cup 97..102
           a == Strings!HexValue(s[i])
           b == Strings!HexValue(s[i + 1])
           c == Strings!HexValue(s[i + 2])
           d == Strings!HexValue(s[i + 3])
           h == Strings!parse_hex4(s, i)
<1>1. \A x \in hex : Strings!HexValue(x) \in 0 .. 15
  BY DEF Strings!HexValue, Strings!Digits
<1>2. \/ h = 0
      \/ (\A k \in 0..3 : s[i + k] \in hex) /\ h = ((a * 16 + b) * 16 + c) * 16 + d
  BY DEF Strings!parse_hex4
<1> HIDE DEF hex, h
<1>3. CASE h = 0
  <2>1. h \in Units
    BY <1>3 DEF Units
  <2> QED BY <2>1 DEF h
<1>4. CASE (\A k \in 0..3 : s[i + k] \in hex) /\ h = ((a * 16 + b) * 16 + c) * 16 + d
  <2>1. s[i] \in hex /\ s[i + 1] \in hex /\ s[i + 2] \in hex /\ s[i + 3] \in hex
    <3>1. 0 \in 0 .. 3 /\ 1 \in 0 .. 3 /\ 2 \in 0 .. 3 /\ 3 \in 0 .. 3 /\ i + 0 = i
      OBVIOUS
    <3> QED BY <1>4, <3>1
  <2>2. a \in 0 .. 15 /\ b \in 0 .. 15 /\ c \in 0 .. 15 /\ d \in 0 .. 15
    BY <1>1, <2>1
  <2> HIDE DEF a, b, c, d
  <2>3. h = ((a * 16 + b) * 16 + c) * 16 + d
    BY <1>4
  <2>4. h \in Units
    BY <2>2, <2>3 DEF Units
  <2> QED BY <2>4 DEF h
<1> QED BY <1>2, <1>3, <1>4

LEMMA EncodedLength ==
  ASSUME NEW code \in Nat
  PROVE  /\ Strings!Utf8(code) \in Seq(Nat)
         /\ Len(Strings!Utf8(code)) \in 1 .. 4
         /\ code \in Units => Len(Strings!Utf8(code)) \in 1 .. 3
<1> DEFINE low(n) == 128 + (n % 64)
           one == <<code>>
           two == <<192 + code \div 64, low(code)>>
           three == <<224 + code \div 4096, low(code \div 64), low(code)>>
           four == <<240 + code \div 262144, low(code \div 4096), low(code \div 64), low(code)>>
           least == code < 128
           small == 128 <= code /\ code < 2048
           basic == 2048 <= code /\ code < 65536
           utf8 == Strings!Utf8(code)
<1>1. utf8 = CASE least -> one [] small -> two [] basic -> three [] OTHER -> four
  BY DEF Strings!Utf8
<1>2. /\ code \div 64 \in Nat /\ code \div 4096 \in Nat /\ code \div 262144 \in Nat
      /\ low(code) \in Nat
  OBVIOUS
<1>3. low(code \div 64) \in Nat /\ low(code \div 4096) \in Nat
  BY <1>2
<1>4. one \in Seq(Nat) /\ Len(one) = 1
  OBVIOUS
<1>5. two \in Seq(Nat) /\ Len(two) = 2
  <2> DEFINE a == 192 + code \div 64
             b == low(code)
  <2>1. a \in Nat /\ b \in Nat
    BY <1>2
  <2> HIDE DEF a, b
  <2>2. <<a, b>> \in Seq(Nat) /\ Len(<<a, b>>) = 2
    BY <2>1
  <2> QED BY <2>2 DEF a, b
<1>6. three \in Seq(Nat) /\ Len(three) = 3
  <2> DEFINE a == 224 + code \div 4096
             b == low(code \div 64)
             c == low(code)
  <2>1. a \in Nat /\ b \in Nat /\ c \in Nat
    BY <1>2, <1>3
  <2> HIDE DEF a, b, c
  <2>2. <<a, b, c>> \in Seq(Nat) /\ Len(<<a, b, c>>) = 3
    BY <2>1
  <2> QED BY <2>2 DEF a, b, c
<1>7. four \in Seq(Nat) /\ Len(four) = 4
  <2> DEFINE a == 240 + code \div 262144
             b == low(code \div 4096)
             c == low(code \div 64)
             d == low(code)
  <2>1. a \in Nat /\ b \in Nat /\ c \in Nat /\ d \in Nat
    BY <1>2, <1>3
  <2> HIDE DEF a, b, c, d
  <2>2. <<a, b, c, d>> \in Seq(Nat) /\ Len(<<a, b, c, d>>) = 4
    BY <2>1
  <2> QED BY <2>2 DEF a, b, c, d
<1>8. /\ least => ~ small /\ ~ basic
      /\ small => ~ least /\ ~ basic
      /\ basic => ~ least /\ ~ small
      /\ code \in Units => least \/ small \/ basic
  BY DEF Units
<1> HIDE DEF one, two, three, four, least, small, basic, utf8
<1>9. \/ least /\ utf8 = one
      \/ small /\ utf8 = two
      \/ basic /\ utf8 = three
      \/ ~ least /\ ~ small /\ ~ basic /\ utf8 = four
  BY <1>1, <1>8, Zenon
<1>10. /\ utf8 \in Seq(Nat) /\ Len(utf8) \in 1 .. 4
       /\ code \in Units => Len(utf8) \in 1 .. 3
  BY <1>4, <1>5, <1>6, <1>7, <1>8, <1>9
<1> QED BY <1>10 DEF utf8

(* How far an escape reaches, and how much it writes.                      *)
Reaches(e, i, end) ==
  /\ e.length \in {0, 2, 6, 12} /\ e.bytes \in Seq(Nat)
  /\ e.length = 2 => Len(e.bytes) = 1
  /\ e.length = 6 => i + 6 <= end /\ Len(e.bytes) \in 1 .. 3
  /\ e.length = 12 => i + 12 <= end /\ Len(e.bytes) \in 1 .. 4

LEMMA CodeReaches ==
  ASSUME NEW s, NEW i \in Nat, NEW end \in Nat
  PROVE  Reaches(Strings!utf16_literal_to_utf8(s, i, end), i, end)
<1> DEFINE first == Strings!parse_hex4(s, i + 2)
           second == Strings!parse_hex4(s, i + 8)
           code == 65536 + (first % 1024) * 1024 + (second % 1024)
           u == Strings!utf16_literal_to_utf8(s, i, end)
<1>1. first \in Units /\ second \in Units
  <2>1. i + 2 \in Nat /\ i + 8 \in Nat
    OBVIOUS
  <2> QED BY <2>1, HexInRange
<1>2. code \in Nat
  <2> HIDE DEF first, second
  <2>1. first % 1024 \in Nat /\ second % 1024 \in Nat
    BY <1>1 DEF Units
  <2> QED BY <2>1
<1> DEFINE fails == [length |-> 0, bytes |-> <<>>]
           single == [length |-> 6, bytes |-> Strings!Utf8(first)]
           pair == [length |-> 12, bytes |-> Strings!Utf8(code)]
           short == end - i < 6
           lone == Strings!Low(first)
           high == Strings!High(first)
           cut == \/ end - i < 12
                  \/ s[i + 6] # Strings!Backslash \/ s[i + 7] # 117
                  \/ ~ Strings!Low(second)
           enough == end - i >= 6
<1>3. u = CASE short -> fails
            [] enough /\ lone -> fails
            [] enough /\ high -> (IF cut THEN fails ELSE pair)
            [] OTHER -> single
  BY DEF Strings!utf16_literal_to_utf8, Strings!Fails
<1>4. /\ short <=> ~ enough
      /\ lone => ~ high
      /\ enough => i + 6 <= end
      /\ ~ cut => i + 12 <= end
  <2> HIDE DEF first, second
  <2> QED BY <1>1 DEF Units, Strings!Low, Strings!High
<1> HIDE DEF fails, single, pair, short, lone, high, cut, enough, u
<1>5. \/ u = fails
      \/ ~ cut /\ u = pair
      \/ enough /\ u = single
  <2>1. CASE short
    BY <1>3, <1>4, <2>1, Zenon
  <2>2. CASE enough /\ lone
    BY <1>3, <1>4, <2>2, Zenon
  <2>3. CASE enough /\ high
    BY <1>3, <1>4, <2>3, Zenon
  <2>4. CASE enough /\ ~ lone /\ ~ high
    BY <1>3, <1>4, <2>4, Zenon
  <2> QED BY <1>4, <2>1, <2>2, <2>3, <2>4
<1>6. CASE u = fails
  <2>1. Reaches(u, i, end)
    BY <1>6 DEF Reaches, fails
  <2> QED BY <2>1 DEF u
<1>7. CASE ~ cut /\ u = pair
  <2> DEFINE x == Strings!Utf8(code)
  <2>1. x \in Seq(Nat) /\ Len(x) \in 1 .. 4
    BY <1>2, EncodedLength
  <2> HIDE DEF code, x
  <2>2. Reaches(u, i, end)
    BY <1>4, <1>7, <2>1 DEF Reaches, pair, x
  <2> QED BY <2>2 DEF u
<1>8. CASE enough /\ u = single
  <2> DEFINE x == Strings!Utf8(first)
  <2>1. first \in Nat
    BY <1>1 DEF Units
  <2>2. x \in Seq(Nat) /\ Len(x) \in 1 .. 3
    BY <1>1, <2>1, EncodedLength
  <2> HIDE DEF first, x
  <2>3. Reaches(u, i, end)
    BY <1>4, <1>8, <2>2 DEF Reaches, single, x
  <2> QED BY <2>3 DEF u
<1> QED BY <1>5, <1>6, <1>7, <1>8

LEMMA EscapeReaches ==
  ASSUME NEW s, NEW i \in Nat, NEW end \in Nat
  PROVE  Reaches(Strings!Escape(s, i, end), i, end)
<1> DEFINE c == s[i + 1]
           e == Strings!Escape(s, i, end)
<1>1. \A l \in Strings!Letters : l[1] \in Nat
  BY DEF Strings!Letters
<1> DEFINE letters == \E l \in Strings!Letters : l[2] = c
           letter == CHOOSE l \in Strings!Letters : l[2] = c
           itself == c \in {Strings!Quote, Strings!Backslash, 47}
           code == c = 117
           said == [length |-> 2, bytes |-> <<letter[1]>>]
           same == [length |-> 2, bytes |-> <<c>>]
           coded == Strings!utf16_literal_to_utf8(s, i, end)
<1>2. e = CASE letters -> said [] itself -> same [] code -> coded [] OTHER -> Strings!Fails
  BY DEF Strings!Escape
<1>3. /\ letters => ~ itself /\ ~ code
      /\ itself => ~ letters /\ ~ code
      /\ code => ~ letters /\ ~ itself
  BY DEF Strings!Letters, Strings!Quote, Strings!Backslash
<1>4. letters => Reaches(said, i, end)
  <2> SUFFICES ASSUME letters PROVE Reaches(said, i, end)
    OBVIOUS
  <2>1. letter \in Strings!Letters
    OBVIOUS
  <2> HIDE DEF letter
  <2>2. letter[1] \in Nat
    BY <1>1, <2>1
  <2> QED BY <2>2 DEF Reaches
<1>5. itself => Reaches(same, i, end)
  <2> SUFFICES ASSUME itself PROVE Reaches(same, i, end)
    OBVIOUS
  <2>1. c \in Nat
    BY DEF Strings!Quote, Strings!Backslash
  <2> HIDE DEF c
  <2> QED BY <2>1 DEF Reaches
<1>6. Reaches(coded, i, end)
  BY CodeReaches
<1>7. Reaches(Strings!Fails, i, end)
  BY DEF Strings!Fails, Reaches
<1> HIDE DEF letters, letter, itself, code, said, same, coded, e
<1>8. \/ letters /\ e = said
      \/ itself /\ e = same
      \/ e = coded
      \/ e = Strings!Fails
  BY <1>2, <1>3, Zenon
<1>9. Reaches(e, i, end)
  BY <1>4, <1>5, <1>6, <1>7, <1>8
<1> QED BY <1>9 DEF e

-----------------------------------------------------------------------------
(* The loop through the literal: cJSON.c:869-940                           *)

Chars == 1 .. 255
Reads == [at : Nat \ {0}, out : Seq(Nat), ok : BOOLEAN]
ReadStart == [at |-> 2, out |-> <<>>, ok |-> TRUE]

(* What one turn does: nothing any more, copy, fail, or replace an escape. *)
TurnCopies(s, end, u, v) ==
  /\ u.ok /\ u.at < end /\ s[u.at] # Strings!Backslash
  /\ v.ok /\ v.at = u.at + 1 /\ v.out = Append(u.out, s[u.at])
TurnBreaks(s, end, u, v) ==
  /\ u.ok /\ u.at < end /\ s[u.at] = Strings!Backslash
  /\ ~ v.ok /\ v.at = u.at /\ v.out = u.out
TurnReplaces(s, end, u, v, e) ==
  /\ u.ok /\ u.at < end /\ s[u.at] = Strings!Backslash /\ e.length # 0
  /\ v.ok /\ v.at = u.at + e.length /\ v.out = u.out \o e.bytes

LEMMA TurnIs ==
  ASSUME NEW s \in Seq(Chars), NEW end \in 0 .. Len(s), NEW u \in Reads
  PROVE  LET v == Strings!Turn(s, end, u)
             e == Strings!Escape(s, u.at, end)
         IN  /\ v \in Reads
             /\ \/ v = u /\ (~ u.ok \/ u.at >= end)
                \/ TurnCopies(s, end, u, v)
                \/ TurnBreaks(s, end, u, v)
                \/ TurnReplaces(s, end, u, v, e)
<1> DEFINE v == Strings!Turn(s, end, u)
           e == Strings!Escape(s, u.at, end)
           over == ~ u.ok \/ u.at >= end
           plain == u.ok /\ u.at < end /\ s[u.at] # Strings!Backslash
           copied == [u EXCEPT !.at = @ + 1, !.out = Append(@, s[u.at])]
           broken == [u EXCEPT !.ok = FALSE]
           replaced == [u EXCEPT !.at = @ + e.length, !.out = @ \o e.bytes]
<1>1. u.at \in Nat \ {0} /\ u.out \in Seq(Nat) /\ u.ok \in BOOLEAN
  BY DEF Reads
<1>2. end \in Nat /\ Len(s) \in Nat /\ end <= Len(s)
  BY LenProperties
<1>3. Reaches(e, u.at, end)
  BY <1>1, <1>2, EscapeReaches
<1>4. v = CASE over -> u
            [] plain -> copied
            [] OTHER -> IF e.length = 0 THEN broken ELSE replaced
  BY DEF Strings!Turn
<1>5. /\ ~ (over /\ plain)
      /\ ~ over => u.ok /\ u.at < end
      /\ ~ over /\ ~ plain => s[u.at] = Strings!Backslash
  BY <1>1, <1>2
<1>6. ~ over => s[u.at] \in Nat
  <2> SUFFICES ASSUME ~ over PROVE s[u.at] \in Nat
    OBVIOUS
  <2>1. u.at \in 1 .. Len(s)
    BY <1>1, <1>2
  <2>2. s[u.at] \in Chars
    BY <2>1, ElementOfSeq
  <2>3. Chars \subseteq Nat
    BY DEF Chars
  <2> QED BY <2>2, <2>3
<1> HIDE DEF e
<1>7. \/ over /\ v = u
      \/ plain /\ v = copied
      \/ ~ over /\ ~ plain /\ e.length = 0 /\ v = broken
      \/ ~ over /\ ~ plain /\ e.length # 0 /\ v = replaced
  <2> HIDE DEF over, plain, copied, broken, replaced, v
  <2> QED BY <1>4, <1>5, Zenon
<1>8. CASE over /\ v = u
  <2>1. v \in Reads
    BY <1>8
  <2> QED BY <1>8, <2>1 DEF e
<1>9. CASE plain /\ v = copied
  <2> DEFINE place == u.at + 1
             out == Append(u.out, s[u.at])
  <2>1. place \in Nat \ {0}
    BY <1>1
  <2>2. out \in Seq(Nat)
    BY <1>1, <1>5, <1>6, <1>9, AppendProperties
  <2>3. copied = [u EXCEPT !.at = place, !.out = out]
    OBVIOUS
  <2> HIDE DEF place, out, copied
  <2>4. copied = [at |-> place, out |-> out, ok |-> u.ok]
    BY <2>3 DEF Reads
  <2>5. copied \in Reads
    BY <1>1, <2>1, <2>2, <2>4 DEF Reads
  <2>6. TurnCopies(s, end, u, copied)
    BY <1>9, <2>4 DEF TurnCopies, place, out
  <2> QED BY <1>9, <2>5, <2>6
<1>10. CASE ~ over /\ ~ plain /\ e.length = 0 /\ v = broken
  <2>1. broken.at = u.at /\ broken.out = u.out /\ ~ broken.ok
    BY DEF Reads
  <2>2. broken \in Reads
    BY DEF Reads
  <2> HIDE DEF broken
  <2>3. TurnBreaks(s, end, u, broken)
    BY <1>5, <1>10, <2>1 DEF TurnBreaks
  <2> QED BY <1>10, <2>2, <2>3
<1>11. CASE ~ over /\ ~ plain /\ e.length # 0 /\ v = replaced
  <2> DEFINE place == u.at + e.length
             out == u.out \o e.bytes
  <2>1. place \in Nat \ {0}
    <3>1. e.length \in {0, 2, 6, 12}
      BY <1>3 DEF Reaches
    <3> QED BY <1>1, <3>1
  <2>2. out \in Seq(Nat)
    BY <1>1, <1>3, ConcatProperties DEF Reaches
  <2>3. replaced = [u EXCEPT !.at = place, !.out = out]
    OBVIOUS
  <2> HIDE DEF place, out, replaced
  <2>4. replaced = [at |-> place, out |-> out, ok |-> u.ok]
    BY <2>3 DEF Reads
  <2>5. replaced \in Reads
    BY <1>1, <2>1, <2>2, <2>4 DEF Reads
  <2>6. TurnReplaces(s, end, u, replaced, e)
    <3>1. u.ok /\ u.at < end /\ s[u.at] = Strings!Backslash /\ e.length # 0
      BY <1>5, <1>11
    <3>2. replaced.ok = u.ok /\ replaced.at = place /\ replaced.out = out
      BY <2>4
    <3>3. replaced.ok
      BY <3>1, <3>2
    <3> QED BY <3>1, <3>2, <3>3 DEF TurnReplaces, place, out
  <2> QED BY <1>11, <2>5, <2>6 DEF e
<1> QED BY <1>7, <1>8, <1>9, <1>10, <1>11

ReadLoop(s, end, r) ==
  /\ r \in [0 .. Len(s) -> Reads] /\ r[0] = ReadStart
  /\ \A n \in 1 .. Len(s) : r[n] = Strings!Turn(s, end, r[n - 1])
  /\ Strings!Unescape(s, end) = r[Len(s)]

LEMMA ReadDefined ==
  ASSUME NEW s \in Seq(Chars), NEW end \in 0 .. Len(s)
  PROVE  \E r : ReadLoop(s, end, r)
<1> DEFINE n == Len(s)
           turn == [z \in (1 .. n) \X Reads |-> Strings!Turn(s, end, z[2])]
           turned[k \in 0 .. n] ==
             IF k = 0 THEN ReadStart ELSE Strings!Turn(s, end, turned[k - 1])
<1>1. turn \in [(1 .. n) \X Reads -> Reads]
  <2>1. \A z \in (1 .. n) \X Reads : z[2] \in Reads
    OBVIOUS
  <2>2. \A z \in (1 .. n) \X Reads : Strings!Turn(s, end, z[2]) \in Reads
    BY <2>1, TurnIs
  <2> QED BY <2>2
<1>2. \A k \in 1 .. n : \A b \in Reads : turn[<<k, b>>] = Strings!Turn(s, end, b)
  OBVIOUS
<1>3. ReadStart \in Reads /\ n \in Nat
  BY LenProperties DEF ReadStart, Reads
<1>4. Strings!Unescape(s, end) = turned[n]
  BY DEF Strings!Unescape, ReadStart
<1> HIDE DEF turn
<1>5. PICK g : Loop(n, Reads, ReadStart, turn, g)
  BY <1>1, <1>3, LoopDefined
<1>6. g = [k \in 0 .. n |-> IF k = 0 THEN ReadStart ELSE Strings!Turn(s, end, g[k - 1])]
  <2>1. \A k \in 0 .. n : k # 0 => k \in 1 .. n /\ k - 1 \in 0 .. n
    BY <1>3
  <2>2. \A k \in 0 .. n : g[k] = IF k = 0 THEN ReadStart ELSE Strings!Turn(s, end, g[k - 1])
    BY <1>2, <1>5, <2>1 DEF Loop
  <2> QED BY <1>5, <2>2 DEF Loop
<1>7. turned = [k \in 0 .. n |-> IF k = 0 THEN ReadStart ELSE Strings!Turn(s, end, turned[k - 1])]
  BY <1>6 DEF n
<1> HIDE DEF turned
<1>8. \A k \in 0 .. n : turned[k] = g[k]
  <2> DEFINE S == {k \in 0 .. n : turned[k] = g[k]}
  <2>1. 0 \in S
    <3>1. 0 \in 0 .. n /\ turned[0] = ReadStart /\ g[0] = ReadStart
      BY <1>3, <1>6, <1>7
    <3> QED BY <3>1
  <2>2. \A k \in 1 .. n : k - 1 \in S => k \in S
    <3>1. \A k \in 1 .. n : k \in 0 .. n /\ k # 0
      BY <1>3
    <3> QED BY <1>6, <1>7, <3>1
  <2> HIDE DEF S
  <2>3. \A k \in 0 .. n : k \in S
    BY <1>3, <2>1, <2>2, UpTo
  <2> QED BY <2>3 DEF S
<1>9. ReadLoop(s, end, g)
  <2>1. g \in [0 .. n -> Reads] /\ g[0] = ReadStart
    BY <1>5 DEF Loop
  <2>2. \A k \in 1 .. n : g[k] = Strings!Turn(s, end, g[k - 1])
    <3>1. \A k \in 1 .. n : k \in 0 .. n /\ k # 0
      BY <1>3
    <3> QED BY <1>6, <3>1
  <2>3. n \in 0 .. n
    BY <1>3
  <2> QED BY <1>4, <1>8, <2>1, <2>2, <2>3 DEF ReadLoop
<1> QED BY <1>9


-----------------------------------------------------------------------------
(* Room for what is read: cJSON.c:838-866                                  *)

(* What the search does with the byte j.                                   *)
Passes(s, j, b, c) ==
  \/ b.end # 0 /\ c = b
  \/ b.end = 0 /\ b.over /\ ~ c.over /\ c.end = 0 /\ c.skipped = b.skipped
  \/ /\ b.end = 0 /\ ~ b.over /\ s[j] = Strings!Quote
     /\ c.end = j /\ ~ c.over /\ c.skipped = b.skipped
  \/ /\ b.end = 0 /\ ~ b.over /\ s[j] = Strings!Backslash
     /\ c.end = 0 /\ c.over /\ c.skipped = b.skipped + 1
  \/ /\ b.end = 0 /\ ~ b.over /\ s[j] \notin {Strings!Quote, Strings!Backslash}
     /\ c = b

LEMMA PassIs ==
  ASSUME NEW s, NEW j \in Nat, NEW b \in Scans
  PROVE  Passes(s, j, b, Strings!Pass(s, j, b))
<1> DEFINE found == b.end # 0
           quote == s[j] = Strings!Quote
           slash == s[j] = Strings!Backslash
           rests == b.end = 0 /\ b.over
           ends == b.end = 0 /\ ~ b.over /\ quote
           opens == b.end = 0 /\ ~ b.over /\ slash
           rested == [b EXCEPT !.over = FALSE]
           ended == [b EXCEPT !.end = j]
           opened == [b EXCEPT !.over = TRUE, !.skipped = @ + 1]
           c == Strings!Pass(s, j, b)
<1>1. c = CASE found -> b [] rests -> rested [] ends -> ended [] opens -> opened [] OTHER -> b
  BY DEF Strings!Pass
<1>2. /\ found => ~ rests /\ ~ ends /\ ~ opens
      /\ rests => ~ found /\ ~ ends /\ ~ opens
      /\ ends => ~ found /\ ~ rests /\ ~ opens
      /\ opens => ~ found /\ ~ rests /\ ~ ends
  BY DEF Strings!Quote, Strings!Backslash
<1>3. ~ found /\ ~ rests /\ ~ ends /\ ~ opens
        => b.end = 0 /\ ~ b.over /\ s[j] \notin {Strings!Quote, Strings!Backslash}
  OBVIOUS
<1>4. b.end \in Nat /\ b.skipped \in Nat /\ b.over \in BOOLEAN
  BY DEF Scans
<1>5. ~ rested.over /\ rested.end = b.end /\ rested.skipped = b.skipped
  BY DEF Scans
<1>6. ended.end = j /\ ended.skipped = b.skipped /\ (ended.over <=> b.over)
  BY DEF Scans
<1>7. opened.over /\ opened.end = b.end /\ opened.skipped = b.skipped + 1
  <2> DEFINE more == b.skipped + 1
             d == [b EXCEPT !.over = TRUE]
  <2>1. d.over /\ d.end = b.end /\ d \in Scans
    BY DEF Scans
  <2>2. more \in Nat
    BY <1>4
  <2> HIDE DEF more
  <2>3. [b EXCEPT !.over = TRUE, !.skipped = more] = [d EXCEPT !.skipped = more]
    OBVIOUS
  <2> HIDE DEF d
  <2> DEFINE x == [d EXCEPT !.skipped = more]
  <2>4. (x.over <=> d.over) /\ x.end = d.end /\ x.skipped = more
    BY <2>1, <2>2 DEF Scans
  <2>5. opened = x
    BY <2>3 DEF more
  <2> HIDE DEF x, opened
  <2>6. opened.over /\ opened.end = b.end /\ opened.skipped = more
    BY <2>1, <2>4, <2>5
  <2> QED BY <2>6 DEF more, opened
<1> HIDE DEF found, rests, ends, opens, rested, ended, opened, c
<1>8. \/ found /\ c = b
      \/ rests /\ c = rested
      \/ ends /\ c = ended
      \/ opens /\ c = opened
      \/ ~ found /\ ~ rests /\ ~ ends /\ ~ opens /\ c = b
  BY <1>1, <1>2, Zenon
<1>9. CASE found /\ c = b
  <2>1. Passes(s, j, b, c)
    BY <1>9 DEF Passes, found
  <2> QED BY <2>1 DEF c
<1>10. CASE rests /\ c = rested
  <2>1. Passes(s, j, b, c)
    BY <1>5, <1>10 DEF Passes, rests
  <2> QED BY <2>1 DEF c
<1>11. CASE ends /\ c = ended
  <2>1. Passes(s, j, b, c)
    BY <1>6, <1>11 DEF Passes, ends
  <2> QED BY <2>1 DEF c
<1>12. CASE opens /\ c = opened
  <2>1. Passes(s, j, b, c)
    BY <1>7, <1>12 DEF Passes, opens
  <2> QED BY <2>1 DEF c
<1>13. CASE ~ found /\ ~ rests /\ ~ ends /\ ~ opens /\ c = b
  <2>1. Passes(s, j, b, c)
    BY <1>3, <1>13 DEF Passes
  <2> QED BY <2>1 DEF c
<1> QED BY <1>8, <1>9, <1>10, <1>11, <1>12, <1>13

LEMMA ScanSteps ==
  ASSUME NEW s \in Seq(Chars), NEW g, ScanLoop(s, g), NEW j \in 1 .. Len(s)
  PROVE  g[j] \in Scans /\ g[j - 1] \in Scans /\ Passes(s, j, g[j - 1], g[j])
<1>1. Len(s) \in Nat /\ j \in Nat /\ j \in 0 .. Len(s) /\ j - 1 \in 0 .. Len(s)
  BY LenProperties
<1>2. g[j] \in Scans /\ g[j - 1] \in Scans
  BY <1>1 DEF ScanLoop
<1> QED BY <1>1, <1>2, PassIs DEF ScanLoop

(* Of two bytes at most one begins an escape.                              *)
LEMMA OneOfTwo ==
  ASSUME NEW s \in Seq(Chars), NEW g, ScanLoop(s, g),
         NEW j \in Nat, j + 2 <= Len(s)
  PROVE  /\ g[j].skipped \in Nat /\ g[j + 2].skipped \in Nat
         /\ g[j + 2].skipped <= g[j].skipped + 1
<1>1. Len(s) \in Nat
  BY LenProperties
<1>2. j + 1 \in 1 .. Len(s) /\ j + 2 \in 1 .. Len(s) /\ (j + 1) - 1 = j /\ (j + 2) - 1 = j + 1
  BY <1>1
<1> DEFINE a == g[j]
           b == g[j + 1]
           c == g[j + 2]
<1>3. a \in Scans /\ b \in Scans /\ Passes(s, j + 1, a, b)
  BY <1>2, ScanSteps
<1>4. c \in Scans /\ Passes(s, j + 2, b, c)
  BY <1>2, ScanSteps
<1> HIDE DEF a, b, c
<1>5. a.skipped \in Nat /\ b.skipped \in Nat /\ c.skipped \in Nat
  BY <1>3, <1>4 DEF Scans
<1>6. \/ b.skipped = a.skipped
      \/ b.skipped = a.skipped + 1 /\ b.over /\ b.end = 0
  BY <1>3 DEF Passes
<1>7. c.skipped = b.skipped \/ (c.skipped = b.skipped + 1 /\ ~ b.over)
  BY <1>4 DEF Passes
<1>8. c.skipped <= a.skipped + 1
  BY <1>5, <1>6, <1>7
<1> QED BY <1>5, <1>8 DEF a, c


(* Once the closing quote is found the search changes nothing more.        *)
FoundBy(s, g, j) ==
  /\ g[j].end = 0 => \A m \in 0 .. j : g[m].end = 0
  /\ g[j].end # 0 =>
       /\ g[j].end \in 2 .. j /\ s[g[j].end] = Strings!Quote
       /\ \A m \in 0 .. g[j].end - 1 : g[m].end = 0
       /\ \A m \in g[j].end .. j : g[m] = g[j]

LEMMA FoundStays ==
  ASSUME NEW s \in Seq(Chars), NEW g, ScanLoop(s, g), NEW j \in 0 .. Len(s)
  PROVE  FoundBy(s, g, j)
<1> DEFINE S == {k \in 0 .. Len(s) : FoundBy(s, g, k)}
<1>1. Len(s) \in Nat
  BY LenProperties
<1>2. 0 \in S
  <2>1. g[0].end = 0 /\ 0 .. 0 = {0}
    BY DEF ScanLoop, ScanStart
  <2> QED BY <1>1, <2>1 DEF FoundBy
<1>3. ASSUME NEW k \in 1 .. Len(s), k - 1 \in S PROVE k \in S
  <2> DEFINE b == g[k - 1]
             c == g[k]
             e == c.end
  <2>1. b \in Scans /\ c \in Scans /\ Passes(s, k, b, c) /\ FoundBy(s, g, k - 1)
    BY <1>3, ScanSteps
  <2>2. b.end \in Nat /\ c.end \in Nat /\ k \in 0 .. Len(s)
    BY <1>1, <2>1 DEF Scans
  <2>3. \A m \in 0 .. k : m \in 0 .. k - 1 \/ m = k
    BY <1>1
  <2>4. CASE e = 0
    <3>1. b.end = 0
      BY <2>1, <2>4 DEF Passes
    <3>2. \A m \in 0 .. k : g[m].end = 0
      BY <2>1, <2>3, <2>4, <3>1 DEF FoundBy
    <3> QED BY <2>2, <2>4, <3>2 DEF FoundBy
  <2>5. CASE e # 0 /\ b.end # 0
    <3>1. c = b
      BY <2>1, <2>5 DEF Passes
    <3>2. e \in 2 .. k - 1 /\ s[e] = Strings!Quote /\ \A m \in 0 .. e - 1 : g[m].end = 0
      BY <2>1, <2>5, <3>1 DEF FoundBy
    <3>3. \A m \in e .. k - 1 : g[m] = c
      BY <2>1, <2>5, <3>1 DEF FoundBy
    <3> HIDE DEF e
    <3>4. e \in 2 .. k /\ \A m \in e .. k : m \in e .. k - 1 \/ m = k
      BY <1>1, <3>2
    <3>5. \A m \in e .. k : g[m] = c
      BY <3>3, <3>4
    <3> QED BY <2>2, <2>5, <3>2, <3>4, <3>5 DEF FoundBy, e
  <2>6. CASE e # 0 /\ b.end = 0
    <3>1. e = k /\ s[k] = Strings!Quote /\ ~ b.over
      <4>1. c # b
        BY <2>6
      <4> QED BY <2>1, <2>6, <4>1 DEF Passes
    <3>2. k # 1
      <4> SUFFICES ASSUME k = 1 PROVE FALSE
        OBVIOUS
      <4>1. b = ScanStart
        BY DEF ScanLoop
      <4> QED BY <3>1, <4>1 DEF ScanStart
    <3>3. \A m \in 0 .. k - 1 : g[m].end = 0
      BY <2>1, <2>6 DEF FoundBy
    <3>4. k \in 2 .. k /\ k .. k = {k}
      BY <1>1, <3>2
    <3> HIDE DEF e
    <3>5. FoundBy(s, g, k)
      BY <2>6, <3>1, <3>3, <3>4 DEF FoundBy, e
    <3> QED BY <2>2, <3>5
  <2> QED BY <2>4, <2>5, <2>6
<1> HIDE DEF S
<1>4. \A k \in 0 .. Len(s) : k \in S
  BY <1>1, <1>2, <1>3, UpTo
<1> QED BY <1>4 DEF S

(* The bytes passed over without those counted as skipped never get fewer. *)
LEMMA SkipsFewer ==
  ASSUME NEW s \in Seq(Chars), NEW g, ScanLoop(s, g), NEW j \in 0 .. Len(s), NEW i \in 0 .. j
  PROVE  /\ g[i].skipped \in Nat /\ g[j].skipped \in Nat
         /\ i - g[i].skipped <= j - g[j].skipped
<1> DEFINE k(m) == g[m].skipped
           S == {m \in 0 .. Len(s) : \A n \in 0 .. m : n - k(n) <= m - k(m)}
<1>1. Len(s) \in Nat
  BY LenProperties
<1>2. \A m \in 0 .. Len(s) : k(m) \in Nat
  BY DEF ScanLoop, Scans
<1>3. 0 \in S
  <2>1. 0 .. 0 = {0} /\ 0 \in 0 .. Len(s) /\ k(0) \in Nat
    BY <1>1, <1>2
  <2> HIDE DEF k
  <2> QED BY <2>1
<1>4. ASSUME NEW m \in 1 .. Len(s), m - 1 \in S PROVE m \in S
  <2> DEFINE p == k(m - 1)
             q == k(m)
  <2>1. p \in Nat /\ q \in Nat
    BY <1>1, <1>2
  <2>2. q <= p + 1
    <3>1. Passes(s, m, g[m - 1], g[m])
      BY ScanSteps
    <3> QED BY <2>1, <3>1 DEF Passes
  <2>3. ASSUME NEW n \in 0 .. m PROVE n - k(n) <= m - q
    <3>1. CASE n = m
      BY <2>1, <3>1
    <3>2. CASE n # m
      <4> DEFINE x == k(n)
      <4>1. n \in 0 .. m - 1 /\ n \in 0 .. Len(s)
        BY <1>1, <3>2
      <4>2. x \in Nat /\ n - x <= (m - 1) - p
        BY <1>2, <1>4, <4>1
      <4> HIDE DEF p, q, x
      <4>3. n - x <= m - q
        BY <2>1, <2>2, <4>1, <4>2
      <4> QED BY <4>3 DEF x
    <3> QED BY <3>1, <3>2
  <2>4. m \in 0 .. Len(s)
    BY <1>1
  <2> QED BY <2>3, <2>4
<1> HIDE DEF S
<1>5. \A m \in 0 .. Len(s) : m \in S
  BY <1>1, <1>3, <1>4, UpTo
<1>6. i \in 0 .. Len(s)
  BY <1>1
<1> QED BY <1>2, <1>5, <1>6 DEF S


(* What is written until the turn that begins at u.at fits what the search *)
(* made room for up to there.                                              *)
Fits(u, g, end) ==
  u \in Reads /\ u.at \in 2 .. end + 1 /\ Len(u.out) <= u.at - 2 - g[u.at - 1].skipped

LEMMA TurnFits ==
  ASSUME NEW s \in Seq(Chars), NEW g, ScanLoop(s, g), NEW end \in 2 .. Len(s),
         NEW u, Fits(u, g, end)
  PROVE  Fits(Strings!Turn(s, end, u), g, end)
<1> DEFINE v == Strings!Turn(s, end, u)
           e == Strings!Escape(s, u.at, end)
           k(m) == g[m].skipped
           p == u.at
           l == Len(u.out)
<1>1. Len(s) \in Nat /\ p \in Nat /\ end \in Nat /\ u.out \in Seq(Nat) /\ l \in Nat
  BY LenProperties DEF Fits, Reads
<1>2. u \in Reads /\ end \in 0 .. Len(s)
  BY <1>1 DEF Fits
<1>3. /\ v \in Reads
      /\ \/ v = u /\ (~ u.ok \/ u.at >= end)
         \/ TurnCopies(s, end, u, v)
         \/ TurnBreaks(s, end, u, v)
         \/ TurnReplaces(s, end, u, v, e)
  BY <1>2, TurnIs
<1>4. Reaches(e, p, end)
  BY <1>1, EscapeReaches
<1> SUFFICES Fits(v, g, end)
  OBVIOUS
<1> HIDE DEF v, e
<1>5. CASE v = u
  BY <1>5
<1>6. CASE TurnCopies(s, end, u, v)
  <2>1. p \in 2 .. end /\ p < end /\ s[p] # Strings!Backslash /\ v.at = p + 1
        /\ v.out = Append(u.out, s[p])
    BY <1>6 DEF TurnCopies, Fits
  <2>2. p \in 1 .. Len(s)
    BY <1>1, <2>1
  <2>3. k(p) \in Nat /\ k(p - 1) \in Nat /\ k(p) = k(p - 1)
    <3> DEFINE b == g[p - 1]
               c == g[p]
    <3>1. b \in Scans /\ c \in Scans /\ Passes(s, p, b, c)
      BY <2>2, ScanSteps
    <3> HIDE DEF b, c
    <3>2. b.skipped \in Nat /\ c.skipped \in Nat /\ c.skipped = b.skipped
      BY <2>1, <3>1 DEF Passes, Scans
    <3> QED BY <3>2 DEF b, c
  <2>4. s[p] \in Nat
    <3>1. s[p] \in Chars
      BY <2>2, ElementOfSeq
    <3>2. Chars \subseteq Nat
      BY DEF Chars
    <3> QED BY <3>1, <3>2
  <2>5. Len(v.out) = l + 1
    BY <1>1, <2>1, <2>4, AppendProperties
  <2>6. l <= p - 2 - k(p - 1)
    BY DEF Fits
  <2>7. v.at - 1 = p /\ v.at \in 2 .. end + 1
    BY <1>1, <2>1
  <2> DEFINE x == k(p)
  <2>8. Len(v.out) <= v.at - 2 - k(v.at - 1)
    <3>1. x \in Nat /\ l <= p - 2 - x /\ k(v.at - 1) = x
      BY <2>3, <2>6, <2>7
    <3> HIDE DEF x, l, p, k
    <3> QED BY <1>1, <2>1, <2>5, <3>1
  <2> QED BY <1>3, <2>7, <2>8 DEF Fits
<1>7. CASE TurnBreaks(s, end, u, v)
  BY <1>3, <1>7 DEF Fits, TurnBreaks
<1>8. CASE TurnReplaces(s, end, u, v, e)
  <2> DEFINE j == p - 1
             w == Len(e.bytes)
             d == e.length
  <2>1. p \in 2 .. end /\ p < end /\ v.at = p + d /\ v.out = u.out \o e.bytes /\ d # 0
    BY <1>8 DEF TurnReplaces, Fits
  <2>2. j \in Nat /\ w \in Nat
    BY <1>1, <1>4, <2>1, LenProperties DEF Reaches
  <2>3. Len(v.out) = l + w
    BY <1>1, <1>4, <2>1, ConcatProperties DEF Reaches
  <2>4. l <= p - 2 - k(j)
    BY DEF Fits
  <2>5. \A n \in {0, 2, 4, 6, 8, 10} : j + n + 2 <= Len(s) =>
          k(j + n) \in Nat /\ k(j + n + 2) \in Nat /\ k(j + n + 2) <= k(j + n) + 1
    <3> SUFFICES ASSUME NEW n \in {0, 2, 4, 6, 8, 10}, j + n + 2 <= Len(s)
                 PROVE k(j + n) \in Nat /\ k(j + n + 2) \in Nat /\ k(j + n + 2) <= k(j + n) + 1
      OBVIOUS
    <3>1. j + n \in Nat
      BY <2>2
    <3> QED BY <3>1, OneOfTwo
  <2> DEFINE k0 == k(j)
             k2 == k(j + 2)
             k4 == k(j + 4)
             k6 == k(j + 6)
             k8 == k(j + 8)
             k10 == k(j + 10)
             k12 == k(j + 12)
  <2>6. j + 0 = j /\ j + 0 + 2 = j + 2 /\ j + 2 + 2 = j + 4 /\ j + 4 + 2 = j + 6
        /\ j + 6 + 2 = j + 8 /\ j + 8 + 2 = j + 10 /\ j + 10 + 2 = j + 12
    <3> HIDE DEF j
    <3> QED BY <2>2
  <2>7. /\ j + 2 <= Len(s) => k0 \in Nat /\ k2 \in Nat /\ k2 <= k0 + 1
        /\ j + 4 <= Len(s) => k4 \in Nat /\ k4 <= k2 + 1
        /\ j + 6 <= Len(s) => k6 \in Nat /\ k6 <= k4 + 1
        /\ j + 8 <= Len(s) => k8 \in Nat /\ k8 <= k6 + 1
        /\ j + 10 <= Len(s) => k10 \in Nat /\ k10 <= k8 + 1
        /\ j + 12 <= Len(s) => k12 \in Nat /\ k12 <= k10 + 1
    <3> HIDE DEF k, j
    <3> QED BY <2>5, <2>6
  <2>7a. ASSUME j + 6 <= Len(s) PROVE k0 \in Nat /\ k6 \in Nat /\ k6 <= k0 + 3
    <3> HIDE DEF j, k0, k2, k4, k6
    <3>1. j + 2 <= Len(s) /\ j + 4 <= Len(s)
      BY <1>1, <2>2, <2>7a
    <3>2. /\ k0 \in Nat /\ k2 \in Nat /\ k4 \in Nat /\ k6 \in Nat
          /\ k2 <= k0 + 1 /\ k4 <= k2 + 1 /\ k6 <= k4 + 1
      BY <2>7, <2>7a, <3>1, Zenon
    <3> QED BY <3>2
  <2>8. CASE d = 2
    <3>1. w = 1
      BY <1>4, <2>8 DEF Reaches
    <3>2. p = j + 1
      BY <2>1
    <3> HIDE DEF w, j, p, k
    <3>3. v.at - 1 = j + 2 /\ v.at \in 2 .. end + 1 /\ j + 2 <= Len(s)
      BY <1>1, <2>1, <2>2, <2>8, <3>1, <3>2
    <3>4. k(v.at - 1) = k2
      BY <3>3
    <3> HIDE DEF k0, k2, l
    <3>5. k0 \in Nat /\ k2 \in Nat /\ k2 <= k0 + 1
      BY <1>1, <2>2, <2>7, <3>3
    <3>6. l <= p - 2 - k0
      BY <2>4 DEF k0
    <3>7. Len(v.out) <= v.at - 2 - k2
      BY <1>1, <2>1, <2>2, <2>3, <2>8, <3>1, <3>5, <3>6
    <3> QED BY <1>3, <3>3, <3>4, <3>7 DEF Fits, k
  <2>9. CASE d = 6
    <3>1. w <= 3 /\ p + 6 <= end
      <4>1. p + 6 <= end /\ w \in 1 .. 3
        <5> HIDE DEF p
        <5> QED BY <1>4, <2>9 DEF Reaches
      <4> HIDE DEF w, p
      <4> QED BY <4>1
    <3>2. p = j + 1
      BY <2>1
    <3> HIDE DEF w, j, p, k
    <3>3. v.at - 1 = j + 6 /\ v.at \in 2 .. end + 1 /\ j + 6 <= Len(s)
      BY <1>1, <2>1, <2>2, <2>9, <3>1, <3>2
    <3>4. k(v.at - 1) = k6
      BY <3>3
    <3> HIDE DEF k0, k2, k4, k6, l
    <3>5. k0 \in Nat /\ k6 \in Nat /\ k6 <= k0 + 3
      BY <2>7a, <3>3, Zenon
    <3>6. l <= p - 2 - k0
      BY <2>4 DEF k0
    <3>7. Len(v.out) <= v.at - 2 - k6
      BY <1>1, <2>1, <2>2, <2>3, <2>9, <3>1, <3>5, <3>6
    <3> QED BY <1>3, <3>3, <3>4, <3>7 DEF Fits, k
  <2>10. CASE d = 12
    <3>1. w <= 4 /\ p + 12 <= end
      <4>1. p + 12 <= end /\ w \in 1 .. 4
        <5> HIDE DEF p
        <5> QED BY <1>4, <2>10 DEF Reaches
      <4> HIDE DEF w, p
      <4> QED BY <4>1
    <3>2. p = j + 1
      BY <2>1
    <3> HIDE DEF w, j, p, k
    <3>3. v.at - 1 = j + 12 /\ v.at \in 2 .. end + 1 /\ j + 12 <= Len(s)
      BY <1>1, <2>1, <2>2, <2>10, <3>1, <3>2
    <3>4. k(v.at - 1) = k12
      BY <3>3
    <3> HIDE DEF k0, k2, k4, k6, k8, k10, k12, l
    <3>5. k0 \in Nat /\ k12 \in Nat /\ k12 <= k0 + 6
      <4>1. j + 6 <= Len(s) /\ j + 8 <= Len(s) /\ j + 10 <= Len(s)
        BY <1>1, <2>2, <3>3
      <4>2. k0 \in Nat /\ k6 \in Nat /\ k6 <= k0 + 3
        BY <2>7a, <4>1, Zenon
      <4>3. k8 \in Nat /\ k8 <= k6 + 1 /\ k10 \in Nat /\ k10 <= k8 + 1
            /\ k12 \in Nat /\ k12 <= k10 + 1
        BY <2>7, <3>3, <4>1, Zenon
      <4> QED BY <4>2, <4>3
    <3>6. l <= p - 2 - k0
      BY <2>4 DEF k0
    <3>7. Len(v.out) <= v.at - 2 - k12
      BY <1>1, <2>1, <2>2, <2>3, <2>10, <3>1, <3>5, <3>6
    <3> QED BY <1>3, <3>3, <3>4, <3>7 DEF Fits, k
  <2>11. d \in {2, 6, 12}
    BY <1>4, <2>1 DEF Reaches
  <2> QED BY <2>8, <2>9, <2>10, <2>11
<1> QED BY <1>3, <1>5, <1>6, <1>7, <1>8

(* Where the search ends, and that it has found what it says.              *)
LEMMA ScanEnds ==
  ASSUME NEW s \in Seq(Chars), NEW g, ScanLoop(s, g)
  PROVE  /\ Strings!FindEnd(s) = g[Len(s)] /\ FoundBy(s, g, Len(s))
         /\ Strings!FindEnd(s).end \in 0 .. Len(s)
         /\ Strings!FindEnd(s).end # 0 => Strings!FindEnd(s).end \in 2 .. Len(s)
<1> DEFINE f == Strings!FindEnd(s)
<1>1. f = g[Len(s)] /\ Len(s) \in Nat /\ Len(s) \in 0 .. Len(s)
  BY LenProperties DEF ScanLoop
<1>2. FoundBy(s, g, Len(s))
  BY <1>1, FoundStays
<1> HIDE DEF f
<1>3. f.end # 0 => f.end \in 2 .. Len(s)
  BY <1>1, <1>2 DEF FoundBy
<1>4. f.end \in 0 .. Len(s)
  BY <1>1, <1>3
<1> QED BY <1>1, <1>2, <1>3, <1>4 DEF f

(* Whatever the literal, escapes that are none and escapes that the two    *)
(* loops take to begin in different places included, what is written fits. *)
THEOREM RoomIsMade ==
  ASSUME NEW s \in Seq(Chars)
  PROVE  LET r == Strings!parse_string(s) IN Len(r.out) + 1 <= r.room
<1> DEFINE f == Strings!FindEnd(s)
           u == Strings!Unescape(s, f.end)
           r == Strings!parse_string(s)
           end == f.end
           n == Len(s)
<1>1. n \in Nat
  BY LenProperties
<1>2. PICK g : ScanLoop(s, g)
  BY <1>1, ScanDefined
<1>3. f = g[n] /\ end \in 0 .. n /\ (end # 0 => end \in 2 .. n) /\ FoundBy(s, g, n)
  BY <1>2, ScanEnds
<1>4. PICK t : ReadLoop(s, end, t)
  BY <1>3, ReadDefined
<1>5. u = t[n] /\ t[0] = ReadStart
  BY <1>4 DEF ReadLoop
<1>6. CASE s[1] # Strings!Quote \/ end = 0
  <2>1. r = [ok |-> FALSE, out |-> <<>>, room |-> 1, end |-> 0]
    BY <1>6 DEF Strings!parse_string
  <2> HIDE DEF r
  <2>2. Len(r.out) + 1 <= r.room
    BY <2>1
  <2> QED BY <2>2 DEF r
<1>7. CASE s[1] = Strings!Quote /\ end # 0
  <2>1. end \in 2 .. n /\ end \in Nat
    BY <1>1, <1>3, <1>7
  <2>2. g[end] = f
    <3>1. end \in end .. n
      BY <1>1, <2>1
    <3> QED BY <1>3, <1>7, <3>1 DEF FoundBy
  <2> DEFINE T == {x \in Reads : Fits(x, g, end)}
  <2>3. t[0] \in T
    <3>1. 1 \in 1 .. n /\ 1 \in 0 .. n
      BY <1>1, <2>1
    <3>2. Passes(s, 1, g[0], g[1]) /\ g[0] = ScanStart
      <4>1. Passes(s, 1, g[1 - 1], g[1])
        BY <1>2, <3>1, ScanSteps
      <4>2. g[0] = ScanStart
        BY <1>2, Zenon DEF ScanLoop
      <4>3. 1 - 1 = 0
        OBVIOUS
      <4> QED BY <4>1, <4>2, <4>3, Zenon
    <3>3. g[1].skipped = 0
      BY <3>2 DEF Passes, ScanStart
    <3>4. ReadStart \in Reads /\ ReadStart.at = 2 /\ Len(ReadStart.out) = 0
      BY DEF ReadStart, Reads
    <3>5. 2 \in 2 .. end + 1 /\ 2 - 1 = 1 /\ 0 <= 2 - 2 - 0
      BY <2>1
    <3> QED BY <1>5, <3>3, <3>4, <3>5 DEF Fits
  <2>4. \A k \in 1 .. n : t[k - 1] \in T => t[k] \in T
    <3> SUFFICES ASSUME NEW k \in 1 .. n, t[k - 1] \in T PROVE t[k] \in T
      OBVIOUS
    <3>1. t[k] = Strings!Turn(s, end, t[k - 1])
      BY <1>4 DEF ReadLoop
    <3> DEFINE x == t[k - 1]
    <3>2. Fits(x, g, end)
      OBVIOUS
    <3> HIDE DEF x, end
    <3>3. Fits(Strings!Turn(s, end, x), g, end)
      BY <1>2, <2>1, <3>2, TurnFits
    <3> QED BY <3>1, <3>3 DEF x, Fits
  <2>5. Fits(u, g, end)
    <3>1. n \in 0 .. n
      BY <1>1
    <3> HIDE DEF T, n, u
    <3>2. \A k \in 0 .. n : t[k] \in T
      BY <1>1, <2>3, <2>4, EachTurn
    <3> QED BY <1>5, <3>1, <3>2 DEF T
  <2> DEFINE i == u.at - 1
             p == g[i].skipped
             q == g[end].skipped
             l == Len(u.out)
  <2> HIDE DEF u, end, f, n
  <2>6. i \in 1 .. end /\ u.at = i + 1 /\ l <= u.at - 2 - p /\ l \in Nat
    <3>1. u.at \in 2 .. end + 1 /\ l <= u.at - 2 - p /\ u.out \in Seq(Nat)
      BY <2>5 DEF Fits, Reads
    <3>2. l \in Nat
      BY <3>1, LenProperties
    <3> DEFINE a == u.at
    <3> HIDE DEF l
    <3>3. a \in 2 .. end + 1 /\ l <= a - 2 - p /\ i = a - 1
      BY <3>1, Zenon DEF i
    <3> HIDE DEF a, i, p
    <3>4. i \in 1 .. end /\ a = i + 1
      BY <2>1, <3>3
    <3> QED BY <3>2, <3>3, <3>4, Zenon DEF a
  <2> HIDE DEF i, l
  <2>7. p \in Nat /\ q \in Nat /\ i - p <= end - q
    BY <1>2, <2>1, <2>6, SkipsFewer DEF n
  <2>8. r = [ok |-> u.ok, out |-> u.out, room |-> end - 1 - f.skipped + 1, end |-> end]
    BY <1>7 DEF Strings!parse_string, u, end, f
  <2> HIDE DEF r, p, q
  <2>9. l + 1 <= end - 1 - q + 1
    BY <2>1, <2>6, <2>7
  <2>10. Len(r.out) = l /\ r.room = end - 1 - q + 1
    BY <2>2, <2>8 DEF l, q
  <2> QED BY <2>9, <2>10 DEF r
<1> QED BY <1>6, <1>7

-----------------------------------------------------------------------------
(* Literals that are cut off                                               *)

(* The search goes the same way as long as it sees the same bytes.         *)
LEMMA ScanOfPrefix ==
  ASSUME NEW s \in Seq(Chars), NEW g, ScanLoop(s, g),
         NEW t \in Seq(Chars), NEW h, ScanLoop(t, h), Len(t) <= Len(s),
         \A j \in 1 .. Len(t) : t[j] = s[j]
  PROVE  \A j \in 0 .. Len(t) : h[j] = g[j]
<1> DEFINE S == {j \in 0 .. Len(t) : h[j] = g[j]}
<1>1. Len(s) \in Nat /\ Len(t) \in Nat
  BY LenProperties
<1>2. 0 \in S
  BY <1>1 DEF ScanLoop
<1>3. ASSUME NEW j \in 1 .. Len(t), j - 1 \in S PROVE j \in S
  <2>1. j \in 1 .. Len(s) /\ j \in 0 .. Len(t) /\ t[j] = s[j] /\ h[j - 1] = g[j - 1]
    BY <1>1, <1>3
  <2>2. h[j] = Strings!Pass(t, j, g[j - 1]) /\ g[j] = Strings!Pass(s, j, g[j - 1])
    BY <2>1 DEF ScanLoop
  <2>3. Strings!Pass(t, j, g[j - 1]) = Strings!Pass(s, j, g[j - 1])
    BY <2>1 DEF Strings!Pass
  <2> QED BY <2>1, <2>2, <2>3
<1> HIDE DEF S
<1>4. \A j \in 0 .. Len(t) : j \in S
  BY <1>1, <1>2, <1>3, UpTo
<1> QED BY <1>4 DEF S

(* A literal that ends before its closing quote is none.                   *)
THEOREM CutsAreRefused ==
  ASSUME NEW s \in Seq(Chars), NEW n \in Nat, 1 <= n, n < Strings!parse_string(s).end
  PROVE  ~ Strings!parse_string(SubSeq(s, 1, n)).ok
<1> DEFINE t == SubSeq(s, 1, n)
           f == Strings!FindEnd(s)
           e == Strings!FindEnd(t)
<1>1. Len(s) \in Nat
  BY LenProperties
<1>2. PICK g : ScanLoop(s, g)
  BY <1>1, ScanDefined
<1>3. f = g[Len(s)] /\ f.end \in 0 .. Len(s) /\ FoundBy(s, g, Len(s))
  BY <1>2, ScanEnds
<1>4. n < f.end /\ f.end # 0
  <2> DEFINE r == Strings!parse_string(s)
             m == Strings!Unescape(s, f.end)
  <2>1. CASE s[1] # Strings!Quote \/ f.end = 0
    <3>1. r.end = 0
      BY <2>1 DEF Strings!parse_string
    <3> QED BY <3>1
  <2>2. CASE ~ (s[1] # Strings!Quote \/ f.end = 0)
    <3>1. r = [ok |-> m.ok, out |-> m.out, room |-> f.end - 1 - f.skipped + 1, end |-> f.end]
      BY <2>2 DEF Strings!parse_string
    <3>2. r.end = f.end
      BY <3>1
    <3> QED BY <2>2, <3>2
  <2> QED BY <2>1, <2>2
<1>5. t \in Seq(Chars) /\ Len(t) = n /\ n <= Len(s) /\ \A j \in 1 .. n : t[j] = s[j]
  <2>1. n \in 1 .. Len(s)
    BY <1>1, <1>3, <1>4
  <2> QED BY <1>1, <2>1, SubSeqProperties
<1> HIDE DEF t, e, f
<1>6. PICK h : ScanLoop(t, h)
  BY <1>5, ScanDefined
<1>7. \A j \in 0 .. n : h[j] = g[j]
  BY <1>2, <1>5, <1>6, ScanOfPrefix
<1>8. n \in 0 .. n /\ n \in 0 .. f.end - 1
  BY <1>1, <1>3, <1>4
<1>9. g[n].end = 0
  BY <1>3, <1>4, <1>8 DEF FoundBy
<1>10. e.end = 0
  BY <1>5, <1>6, <1>7, <1>8, <1>9 DEF ScanLoop, e
<1> QED BY <1>10 DEF Strings!parse_string, e, t


-----------------------------------------------------------------------------
(* What is printed: cJSON.c:954-1073                                       *)

(* The parts of a text, one after the other.                               *)
PrintLoop(parts, h) ==
  /\ h \in [0 .. Len(parts) -> Seq(Chars)] /\ h[0] = <<>>
  /\ \A k \in 1 .. Len(parts) : h[k] = h[k - 1] \o parts[k]
  /\ Strings!FlattenSeq(parts) = h[Len(parts)]

LEMMA PrintDefined ==
  ASSUME NEW parts \in Seq(Seq(Chars))
  PROVE  \E h : PrintLoop(parts, h)
<1> DEFINE n == Len(parts)
           T == Seq(Chars)
           turn == [z \in (1 .. n) \X T |-> z[2] \o parts[z[1]]]
           flatten[i \in 1 .. n] == IF i = 1 THEN parts[i] ELSE flatten[i - 1] \o parts[i]
<1>1. n \in Nat /\ <<>> \in T
  BY LenProperties
<1>2. \A k \in 1 .. n : parts[k] \in T
  BY ElementOfSeq
<1>3. turn \in [(1 .. n) \X T -> T]
  <2>1. \A z \in (1 .. n) \X T : z[1] \in 1 .. n /\ z[2] \in T
    OBVIOUS
  <2> HIDE DEF T
  <2>2. \A z \in (1 .. n) \X T : z[2] \o parts[z[1]] \in T
    BY <1>2, <2>1, ConcatProperties DEF T
  <2> QED BY <2>2
<1>4. \A k \in 1 .. n : \A x \in T : turn[<<k, x>>] = x \o parts[k]
  OBVIOUS
<1> HIDE DEF turn
<1>5. PICK h : Loop(n, T, <<>>, turn, h)
  BY <1>1, <1>3, LoopDefined
<1>6. \A k \in 1 .. n : k \in 0 .. n /\ k - 1 \in 0 .. n
  BY <1>1
<1>7. h \in [0 .. n -> T] /\ h[0] = <<>> /\ \A k \in 1 .. n : h[k] = h[k - 1] \o parts[k]
  BY <1>4, <1>5, <1>6 DEF Loop
<1>8. Strings!FlattenSeq(parts) = h[n]
  <2>1. CASE n = 0
    <3>1. parts = <<>>
      BY <2>1, EmptySeq
    <3>2. Strings!FlattenSeq(parts) = parts
      BY <2>1 DEF Strings!FlattenSeq
    <3> QED BY <1>7, <2>1, <3>1, <3>2
  <2>2. CASE n # 0
    <3>1. Strings!FlattenSeq(parts) = flatten[n]
      BY <2>2 DEF Strings!FlattenSeq
    <3> DEFINE g == [i \in 1 .. n |-> h[i]]
    <3>2. \A i \in 1 .. n : h[i] = IF i = 1 THEN parts[i] ELSE h[i - 1] \o parts[i]
      <4> SUFFICES ASSUME NEW i \in 1 .. n
                   PROVE  h[i] = IF i = 1 THEN parts[i] ELSE h[i - 1] \o parts[i]
        OBVIOUS
      <4>1. CASE i = 1
        <5>0. i - 1 = 0
          BY <4>1
        <5>1. h[i] = h[i - 1] \o parts[i]
          BY <1>7
        <5>2. h[i] = <<>> \o parts[i]
          BY <1>7, <5>0, <5>1
        <5>3. parts[i] \in T
          BY <1>2
        <5>4. <<>> \o parts[i] = parts[i]
          BY <5>3, ConcatEmptySeq
        <5> QED BY <4>1, <5>2, <5>4
      <4>2. CASE i # 1
        BY <1>7, <4>2
      <4> QED BY <4>1, <4>2
    <3>3. \A i \in 1 .. n : i # 1 => i - 1 \in 1 .. n
      BY <1>1
    <3>4. g = [i \in 1 .. n |-> IF i = 1 THEN parts[i] ELSE g[i - 1] \o parts[i]]
      <4>1. \A i \in 1 .. n : g[i] = IF i = 1 THEN parts[i] ELSE g[i - 1] \o parts[i]
        BY <3>2, <3>3
      <4> QED BY <4>1
    <3>5. flatten = [i \in 1 .. n |-> IF i = 1 THEN parts[i] ELSE flatten[i - 1] \o parts[i]]
      <4> HIDE DEF g
      <4> QED BY <3>4, Zenon
    <3> HIDE DEF flatten
    <3> DEFINE S == {k \in 0 .. n : k = 0 \/ flatten[k] = h[k]}
    <3>6. 0 \in S
      BY <1>1
    <3>7. \A k \in 1 .. n : k - 1 \in S => k \in S
      <4> SUFFICES ASSUME NEW k \in 1 .. n, k - 1 \in S PROVE flatten[k] = h[k]
        BY <1>6
      <4>1. CASE k = 1
        BY <3>2, <3>5, <4>1
      <4>2. CASE k # 1
        <5>1. k - 1 # 0 /\ flatten[k - 1] = h[k - 1]
          BY <4>2
        <5>2. flatten[k] = flatten[k - 1] \o parts[k]
          BY <3>5, <4>2, Zenon
        <5>3. h[k] = h[k - 1] \o parts[k]
          BY <3>2, <4>2, Zenon
        <5> QED BY <5>1, <5>2, <5>3, Zenon
      <4> QED BY <4>1, <4>2, Zenon
    <3> HIDE DEF S
    <3>8. \A k \in 0 .. n : k \in S
      BY <1>1, <3>6, <3>7, UpTo
    <3>9. n \in 0 .. n
      BY <1>1
    <3>10. flatten[n] = h[n]
      BY <2>2, <3>8, <3>9 DEF S
    <3> QED BY <3>1, <3>10
  <2> QED BY <2>1, <2>2
<1> QED BY <1>7, <1>8 DEF PrintLoop


(* How a byte is written, with c bytes more than itself.                   *)
Written(b, e, c) ==
  \/ /\ Len(e) = 1 /\ c = 0
     /\ e[1] = b /\ b \notin {Strings!Quote, Strings!Backslash}
  \/ /\ Len(e) = 2 /\ c = 1 /\ e[1] = Strings!Backslash
     /\ \/ b \in {Strings!Quote, Strings!Backslash} /\ e[2] = b
        \/ <<b, e[2]>> \in Strings!Letters
  \/ /\ Len(e) = 6 /\ c = 5 /\ e[1] = Strings!Backslash
     /\ e[2] = 117 /\ e[3] = 48 /\ e[4] = 48
     /\ b < 32 /\ e[5] = Strings!HexDigit(b \div 16) /\ e[6] = Strings!HexDigit(b % 16)

(* A hexadecimal digit is read as what it was written for, and is neither  *)
(* a quote nor a backslash.                                                *)
LEMMA DigitsReadBack ==
  ASSUME NEW n \in 0 .. 15
  PROVE  LET d == Strings!HexDigit(n) IN
         /\ d \in Strings!Digits \cup 97..102 /\ d \in Chars
         /\ d \notin {Strings!Quote, Strings!Backslash}
         /\ Strings!HexValue(d) = n
<1> DEFINE d == Strings!HexDigit(n)
<1>1. CASE n < 10
  <2>1. d = 48 + n
    BY <1>1 DEF Strings!HexDigit
  <2>2. d \in Strings!Digits
    BY <1>1, <2>1 DEF Strings!Digits
  <2>3. d \notin 65..70 /\ d \notin 97..102
    BY <1>1, <2>1
  <2>4. Strings!HexValue(d) = d - 48
    BY <2>2, <2>3 DEF Strings!HexValue
  <2> QED BY <1>1, <2>1, <2>2, <2>4 DEF Chars, Strings!Quote, Strings!Backslash
<1>2. CASE ~ (n < 10)
  <2>1. d = 87 + n
    BY <1>2 DEF Strings!HexDigit
  <2>2. d \in 97..102 /\ d \notin 65..70 /\ d \notin Strings!Digits
    BY <1>2, <2>1 DEF Strings!Digits
  <2>3. Strings!HexValue(d) = d - 87
    BY <2>2 DEF Strings!HexValue
  <2> QED BY <1>2, <2>1, <2>2, <2>3 DEF Chars, Strings!Quote, Strings!Backslash
<1> QED BY <1>1, <1>2

LEMMA HalvesOf ==
  ASSUME NEW b \in Chars, b < 32
  PROVE  b \div 16 \in 0 .. 15 /\ b % 16 \in 0 .. 15 /\ (b \div 16) * 16 + (b % 16) = b
BY DEF Chars

LEMMA EscapedIs ==
  ASSUME NEW b \in Chars
  PROVE  /\ Strings!Escaped(b) \in Seq(Chars)
         /\ Written(b, Strings!Escaped(b), Strings!escape_characters(b))
<1> DEFINE e == Strings!Escaped(b)
           c == Strings!escape_characters(b)
           itself == b \in {Strings!Quote, Strings!Backslash}
           letter == Strings!OneLetter(b)
           control == b < 32 /\ ~ Strings!OneLetter(b)
           l == CHOOSE x \in Strings!Letters : x[1] = b
           same == <<Strings!Backslash, b>>
           named == <<Strings!Backslash, Strings!LetterOf(b)>>
           coded == <<Strings!Backslash, 117, 48, 48, Strings!HexDigit(b \div 16), Strings!HexDigit(b % 16)>>
           plain == <<b>>
<1>1. e = CASE itself -> same [] letter -> named [] control -> coded [] OTHER -> plain
  BY DEF Strings!Escaped
<1>2. c = CASE itself \/ letter -> 1 [] control -> 5 [] OTHER -> 0
  BY DEF Strings!escape_characters
<1>3. /\ itself => ~ letter /\ ~ control
      /\ letter => ~ itself /\ ~ control
      /\ control => ~ itself /\ ~ letter
  BY DEF Strings!OneLetter, Strings!Letters, Strings!Quote, Strings!Backslash
<1>4. Strings!Backslash \in Chars /\ b \in Chars
  BY DEF Strings!Backslash, Chars
<1>5. itself /\ c = 1 => same \in Seq(Chars) /\ Written(b, same, c)
  BY <1>4 DEF Written
<1>6. letter /\ c = 1 => named \in Seq(Chars) /\ Written(b, named, c)
  <2> SUFFICES ASSUME letter, c = 1 PROVE named \in Seq(Chars) /\ Written(b, named, c)
    OBVIOUS
  <2> DEFINE x == Strings!LetterOf(b)
  <2>1. l \in Strings!Letters /\ l[1] = b
    BY DEF Strings!OneLetter
  <2>2. x = l[2]
    BY DEF Strings!LetterOf
  <2> HIDE DEF l, x
  <2>3. <<b, x>> \in Strings!Letters /\ x \in Chars
    BY <2>1, <2>2 DEF Strings!Letters, Chars
  <2> QED BY <1>4, <2>3 DEF Written, x
<1>7. control /\ c = 5 => coded \in Seq(Chars) /\ Written(b, coded, c)
  <2> SUFFICES ASSUME control, c = 5 PROVE coded \in Seq(Chars) /\ Written(b, coded, c)
    OBVIOUS
  <2> DEFINE x == Strings!HexDigit(b \div 16)
             y == Strings!HexDigit(b % 16)
  <2>1. x \in Chars /\ y \in Chars
    BY HalvesOf, DigitsReadBack
  <2>2. 117 \in Chars /\ 48 \in Chars
    BY DEF Chars
  <2> HIDE DEF x, y
  <2> DEFINE z == <<Strings!Backslash, 117, 48, 48, x, y>>
  <2>3. z \in Seq(Chars)
    BY <1>4, <2>1, <2>2
  <2>4. Len(z) = 6 /\ z[1] = Strings!Backslash /\ z[2] = 117 /\ z[3] = 48 /\ z[4] = 48
        /\ z[5] = x /\ z[6] = y
    OBVIOUS
  <2>5. coded = z
    BY DEF x, y
  <2> HIDE DEF z, coded
  <2> QED BY <2>3, <2>4, <2>5 DEF Written, x, y
<1>8. ~ itself /\ c = 0 => plain \in Seq(Chars) /\ Written(b, plain, c)
  BY <1>4 DEF Written
<1> HIDE DEF e, c, itself, letter, control, same, named, coded, plain
<1>9. \/ itself /\ c = 1 /\ e = same
      \/ letter /\ c = 1 /\ e = named
      \/ control /\ c = 5 /\ e = coded
      \/ ~ itself /\ ~ letter /\ ~ control /\ c = 0 /\ e = plain
  <2>1. CASE itself
    BY <1>1, <1>2, <1>3, <2>1, Zenon
  <2>2. CASE letter
    BY <1>1, <1>2, <1>3, <2>2, Zenon
  <2>3. CASE control
    BY <1>1, <1>2, <1>3, <2>3, Zenon
  <2>4. CASE ~ itself /\ ~ letter /\ ~ control
    BY <1>1, <1>2, <2>4, Zenon
  <2> QED BY <2>1, <2>2, <2>3, <2>4
<1>10. e \in Seq(Chars) /\ Written(b, e, c)
  BY <1>5, <1>6, <1>7, <1>8, <1>9
<1> QED BY <1>10 DEF e, c

(* A string and what is printed for it: the escaped bytes one after the    *)
(* other, that of the byte n ending at last[n], between quotes.            *)
Layout(t, p, last) ==
  /\ p \in Seq(Chars) /\ last \in [0 .. Len(t) -> Nat] /\ last[0] = 1
  /\ Len(p) = last[Len(t)] + 1
  /\ p[1] = Strings!Quote /\ p[Len(p)] = Strings!Quote
  /\ \A n \in 1 .. Len(t) :
       LET e == Strings!Escaped(t[n]) IN
       /\ last[n] = last[n - 1] + Len(e) /\ last[n] < Len(p)
       /\ \A k \in 1 .. Len(e) : p[last[n - 1] + k] = e[k]


(* Parts stay where they are put.                                          *)
StartOf(a, b) ==
  Len(a) \in Nat /\ Len(a) <= Len(b) /\ \A j \in 1 .. Len(a) : b[j] = a[j]

LEMMA StartsItself ==
  ASSUME NEW a \in Seq(Chars)
  PROVE  StartOf(a, a)
BY LenProperties DEF StartOf

LEMMA StartsConcat ==
  ASSUME NEW a \in Seq(Chars), NEW e \in Seq(Chars)
  PROVE  StartOf(a, a \o e)
<1> DEFINE b == a \o e
           m == Len(a)
           n == Len(e)
<1>1. m \in Nat /\ n \in Nat
  BY LenProperties
<1>2. Len(b) = m + n /\ \A j \in 1 .. m + n : b[j] = IF j <= m THEN a[j] ELSE e[j - m]
  BY ConcatProperties
<1> HIDE DEF m, n, b
<1>3. m <= Len(b)
  BY <1>1, <1>2
<1>4. \A j \in 1 .. m : j \in 1 .. m + n /\ j <= m
  BY <1>1
<1>5. \A j \in 1 .. m : b[j] = a[j]
  BY <1>2, <1>4
<1> QED BY <1>1, <1>3, <1>5, Zenon DEF StartOf, b, m

LEMMA StartOfStart ==
  ASSUME NEW a, NEW b, NEW c, StartOf(a, b), StartOf(b, c), Len(c) \in Nat
  PROVE  StartOf(a, c)
<1> DEFINE k == Len(a)
           m == Len(b)
           n == Len(c)
<1>1. /\ k \in Nat /\ m \in Nat /\ n \in Nat /\ k <= m /\ m <= n
      /\ (\A j \in 1 .. k : b[j] = a[j]) /\ \A j \in 1 .. m : c[j] = b[j]
  BY Zenon DEF StartOf
<1> HIDE DEF k, m, n
<1>2. k <= n /\ \A j \in 1 .. k : j \in 1 .. m
  BY <1>1
<1>3. \A j \in 1 .. k : c[j] = a[j]
  BY <1>1, <1>2, Zenon
<1> QED BY <1>1, <1>2, <1>3, Zenon DEF StartOf, k, n

LEMMA PartsStay ==
  ASSUME NEW parts \in Seq(Seq(Chars)), NEW h, PrintLoop(parts, h), NEW n \in 0 .. Len(parts)
  PROVE  \A m \in 0 .. n : StartOf(h[m], h[n])
<1> DEFINE S == {k \in 0 .. Len(parts) : \A m \in 0 .. k : StartOf(h[m], h[k])}
<1>1. Len(parts) \in Nat
  BY LenProperties
<1>2. \A m \in 0 .. Len(parts) : h[m] \in Seq(Chars) /\ Len(h[m]) \in Nat
  BY LenProperties DEF PrintLoop
<1>3. \A m \in 0 .. Len(parts) : StartOf(h[m], h[m])
  BY <1>2, StartsItself
<1>4. 0 \in S
  <2>1. 0 .. 0 = {0} /\ 0 \in 0 .. Len(parts)
    BY <1>1
  <2> QED BY <1>3, <2>1
<1>5. ASSUME NEW k \in 1 .. Len(parts), k - 1 \in S PROVE k \in S
  <2> DEFINE a == h[k - 1]
             b == h[k]
  <2>1. k \in 0 .. Len(parts) /\ k - 1 \in 0 .. Len(parts)
    BY <1>1
  <2>2. a \in Seq(Chars) /\ parts[k] \in Seq(Chars) /\ b = a \o parts[k]
    BY <1>2, <2>1, ElementOfSeq DEF PrintLoop
  <2>3. StartOf(a, b) /\ Len(b) \in Nat
    <3>1. StartOf(a, a \o parts[k])
      BY <2>2, StartsConcat, Zenon
    <3> QED BY <1>2, <2>1, <2>2, <3>1, Zenon
  <2>4. ASSUME NEW m \in 0 .. k PROVE StartOf(h[m], b)
    <3>1. m = k \/ m \in 0 .. k - 1
      BY <2>1
    <3>2. CASE m = k
      BY <1>3, <2>1, <3>2, Zenon
    <3>3. CASE m \in 0 .. k - 1
      <4>1. StartOf(h[m], a)
        BY <1>5, <3>3, Zenon
      <4> HIDE DEF a, b
      <4> QED BY <2>3, <4>1, StartOfStart, Zenon
    <3> QED BY <3>1, <3>2, <3>3, Zenon
  <2> QED BY <2>1, <2>4, Zenon
<1> HIDE DEF S
<1>6. \A k \in 0 .. Len(parts) : k \in S
  BY <1>1, <1>4, <1>5, UpTo
<1> QED BY <1>6, Zenon DEF S

LEMMA Printed ==
  ASSUME NEW t \in Seq(Chars)
  PROVE  \E last : Layout(t, Strings!print_string_ptr(t), last)
<1> DEFINE N == Len(t)
           parts == [n \in DOMAIN t |-> Strings!Escaped(t[n])]
           p == Strings!print_string_ptr(t)
           q == Strings!Quote
<1>1. N \in Nat /\ DOMAIN t = 1 .. N /\ \A n \in 1 .. N : t[n] \in Chars
  BY LenProperties, ElementOfSeq
<1>2. parts \in Seq(Seq(Chars)) /\ Len(parts) = N /\ \A n \in 1 .. N : parts[n] = Strings!Escaped(t[n])
  <2>1. \A n \in 1 .. N : parts[n] \in Seq(Chars)
    BY <1>1, EscapedIs
  <2>2. parts \in [1 .. N -> Seq(Chars)]
    BY <1>1, <2>1
  <2> HIDE DEF N
  <2>3. \A n \in 1 .. N : parts[n] = Strings!Escaped(t[n])
    BY <1>1
  <2> HIDE DEF parts
  <2> QED BY <1>1, <2>2, <2>3
<1>3. p = <<q>> \o Strings!FlattenSeq(parts) \o <<q>>
  BY DEF Strings!print_string_ptr
<1> HIDE DEF parts, p
<1>4. PICK h : PrintLoop(parts, h)
  BY <1>2, PrintDefined
<1>5. \A n \in 0 .. N : h[n] \in Seq(Chars) /\ Len(h[n]) \in Nat
  <2>1. h \in [0 .. N -> Seq(Chars)]
    BY <1>2, <1>4 DEF PrintLoop
  <2> HIDE DEF N
  <2>2. \A n \in 0 .. N : h[n] \in Seq(Chars)
    BY <2>1
  <2> QED BY <2>2, LenProperties
<1>6. N \in 0 .. N /\ 0 \in 0 .. N
  BY <1>1
<1> DEFINE w == h[N]
           l == Len(w)
           last == [n \in 0 .. N |-> 1 + Len(h[n])]
<1>7. w \in Seq(Chars) /\ l \in Nat
  BY <1>5, <1>6
<1>8. p = (<<q>> \o w) \o <<q>>
  BY <1>2, <1>3, <1>4 DEF PrintLoop
<1> HIDE DEF w
<1>9. /\ p \in Seq(Chars) /\ Len(p) = l + 2
      /\ p[1] = q /\ p[l + 2] = q /\ \A j \in 1 .. l : p[1 + j] = w[j]
  <2> DEFINE a == <<q>>
             b == a \o w
  <2>1. a \in Seq(Chars) /\ Len(a) = 1 /\ a[1] = q
    BY DEF Strings!Quote, Chars
  <2> HIDE DEF a, l
  <2>2. b \in Seq(Chars) /\ Len(b) = 1 + l
        /\ \A i \in 1 .. 1 + l : b[i] = IF i <= 1 THEN a[i] ELSE w[i - 1]
    <3>1. /\ b \in Seq(Chars) /\ Len(b) = Len(a) + Len(w)
          /\ \A i \in 1 .. Len(a) + Len(w) : b[i] = IF i <= Len(a) THEN a[i] ELSE w[i - Len(a)]
      BY <1>7, <2>1, ConcatProperties
    <3>2. Len(a) = 1 /\ Len(w) = l
      BY <2>1 DEF l
    <3> HIDE DEF b
    <3> QED BY <3>1, <3>2
  <2> HIDE DEF b
  <2>3. p = b \o a
    BY <1>8 DEF b, a
  <2>4. p \in Seq(Chars) /\ Len(p) = 1 + l + 1
        /\ \A i \in 1 .. 1 + l + 1 : p[i] = IF i <= 1 + l THEN b[i] ELSE a[i - (1 + l)]
    <3>1. /\ p \in Seq(Chars) /\ Len(p) = Len(b) + Len(a)
          /\ \A i \in 1 .. Len(b) + Len(a) : p[i] = IF i <= Len(b) THEN b[i] ELSE a[i - Len(b)]
      BY <2>1, <2>2, <2>3, ConcatProperties
    <3>2. Len(a) = 1 /\ Len(b) = 1 + l
      BY <2>1, <2>2
    <3> QED BY <3>1, <3>2
  <2> HIDE DEF q
  <2>5. 1 \in 1 .. 1 + l + 1 /\ l + 2 \in 1 .. 1 + l + 1 /\ 1 <= 1 + l /\ ~ (l + 2 <= 1 + l)
        /\ (l + 2) - (1 + l) = 1 /\ 1 \in 1 .. 1 + l
    BY <1>7
  <2>6. p[1] = q /\ p[l + 2] = q
    BY <2>1, <2>2, <2>4, <2>5
  <2>7. \A j \in 1 .. l : 1 + j \in 1 .. 1 + l + 1 /\ 1 + j <= 1 + l /\ 1 + j \in 1 .. 1 + l
                          /\ ~ (1 + j <= 1) /\ (1 + j) - 1 = j
    BY <1>7
  <2>8. \A j \in 1 .. l : p[1 + j] = w[j]
    BY <2>2, <2>4, <2>7
  <2>9. Len(p) = l + 2
    BY <1>7, <2>4
  <2> QED BY <2>4, <2>6, <2>8, <2>9
<1>10. last \in [0 .. N -> Nat] /\ last[0] = 1 /\ last[N] = l + 1
  <2>1. \A n \in 0 .. N : 1 + Len(h[n]) \in Nat
    BY <1>5
  <2>2. Len(h[0]) = 0
    BY <1>4 DEF PrintLoop
  <2> QED BY <1>6, <1>7, <2>1, <2>2 DEF w
<1>11. ASSUME NEW n \in 1 .. N
       PROVE  LET e == Strings!Escaped(t[n]) IN
              /\ last[n] = last[n - 1] + Len(e) /\ last[n] < Len(p)
              /\ \A k \in 1 .. Len(e) : p[last[n - 1] + k] = e[k]
  <2> DEFINE e == parts[n]
             a == h[n - 1]
             b == h[n]
  <2>1. n - 1 \in 0 .. N /\ n \in 0 .. N
    BY <1>1
  <2>2. a \in Seq(Chars) /\ e \in Seq(Chars) /\ b = a \o e
    BY <1>2, <1>4, <1>5, <2>1, ElementOfSeq DEF PrintLoop
  <2>3. Len(a) \in Nat /\ Len(b) \in Nat /\ Len(e) \in Nat
    BY <2>2, <1>5, <2>1, LenProperties
  <2>4. Len(b) <= l /\ \A j \in 1 .. Len(b) : w[j] = b[j]
    <3>1. N \in 0 .. Len(parts)
      BY <1>2, <1>6
    <3> HIDE DEF N
    <3>2. parts \in Seq(Seq(Chars)) /\ PrintLoop(parts, h)
      BY <1>2, <1>4, Zenon
    <3>3. \A m \in 0 .. N : StartOf(h[m], h[N])
      BY <3>1, <3>2, PartsStay, Zenon
    <3>4. StartOf(b, h[N])
      BY <2>1, <3>3, Zenon
    <3> QED BY <3>4, Zenon DEF w, StartOf
  <2>5. last[n] = 1 + Len(b) /\ last[n - 1] = 1 + Len(a)
    BY <2>1
  <2>6. e = Strings!Escaped(t[n])
    BY <1>2
  <2> HIDE DEF a, b, e, last, l
  <2>7. Len(b) = Len(a) + Len(e)
        /\ \A i \in 1 .. Len(a) + Len(e) : b[i] = IF i <= Len(a) THEN a[i] ELSE e[i - Len(a)]
    BY <2>2, ConcatProperties
  <2>8. last[n] = last[n - 1] + Len(e) /\ last[n] < Len(p)
    BY <1>7, <1>9, <2>3, <2>4, <2>5, <2>7
  <2>9. ASSUME NEW k \in 1 .. Len(e) PROVE p[last[n - 1] + k] = e[k]
    <3> DEFINE j == Len(a) + k
    <3>1. j \in 1 .. Len(b) /\ j \in 1 .. Len(a) + Len(e) /\ ~ (j <= Len(a)) /\ j - Len(a) = k
          /\ j \in 1 .. l /\ last[n - 1] + k = 1 + j
      BY <1>7, <2>3, <2>4, <2>5, <2>7
    <3> HIDE DEF j
    <3>2. p[1 + j] = w[j] /\ w[j] = b[j] /\ b[j] = e[k]
      BY <1>9, <2>4, <2>7, <3>1
    <3> QED BY <3>1, <3>2
  <2> QED BY <2>6, <2>8, <2>9
<1>12. Layout(t, p, last)
  <2> HIDE DEF last, l
  <2>1. Len(p) = last[N] + 1 /\ p[Len(p)] = q
    BY <1>7, <1>9, <1>10
  <2> HIDE DEF q
  <2> QED BY <1>9, <1>10, <1>11, <2>1 DEF Layout, q
<1> QED BY <1>12 DEF p


(* The length is counted as it is written: cJSON.c:975-1003.               *)
LEMMA CountedIsWritten ==
  ASSUME NEW t \in Seq(Chars), NEW p, NEW last, Layout(t, p, last)
  PROVE  Len(p) = Strings!output_length(t) + 2
<1> DEFINE N == Len(t)
           more(n) == Strings!escape_characters(t[n])
           counted[n \in 0 .. N] == IF n = 0 THEN 0 ELSE counted[n - 1] + more(n)
           g == [n \in 0 .. N |-> last[n] - 1 - n]
<1>1. N \in Nat
  BY LenProperties
<1>2. Strings!output_length(t) = N + counted[N]
  BY DEF Strings!output_length
<1>3. \A n \in 1 .. N : last[n] = last[n - 1] + 1 + more(n) /\ more(n) \in Nat
  <2> SUFFICES ASSUME NEW n \in 1 .. N
               PROVE  last[n] = last[n - 1] + 1 + more(n) /\ more(n) \in Nat
    OBVIOUS
  <2> DEFINE e == Strings!Escaped(t[n])
             m == more(n)
  <2>1. t[n] \in Chars
    BY ElementOfSeq
  <2>2. Written(t[n], e, m)
    BY <2>1, EscapedIs
  <2>3. last[n] = last[n - 1] + Len(e)
    BY DEF Layout
  <2>4. last[n - 1] \in Nat
    <3>1. n - 1 \in 0 .. N
      BY <1>1
    <3> QED BY <3>1 DEF Layout
  <2> HIDE DEF e, m
  <2>5. m \in {0, 1, 5} /\ Len(e) = 1 + m
    <3>1. \/ m = 0 /\ Len(e) = 1
          \/ m = 1 /\ Len(e) = 2
          \/ m = 5 /\ Len(e) = 6
      BY <2>2, Zenon DEF Written
    <3>2. m = 0 /\ Len(e) = 1 => m \in {0, 1, 5} /\ Len(e) = 1 + m
      OBVIOUS
    <3>3. m = 1 /\ Len(e) = 2 => m \in {0, 1, 5} /\ Len(e) = 1 + m
      OBVIOUS
    <3>4. m = 5 /\ Len(e) = 6 => m \in {0, 1, 5} /\ Len(e) = 1 + m
      OBVIOUS
    <3> QED BY <3>1, <3>2, <3>3, <3>4
  <2>6. last[n] = last[n - 1] + 1 + m /\ m \in Nat
    BY <2>3, <2>4, <2>5
  <2> QED BY <2>6 DEF m
<1>4. \A n \in 0 .. N : last[n] \in Nat
  BY DEF Layout
<1> HIDE DEF more
<1>5. g = [n \in 0 .. N |-> IF n = 0 THEN 0 ELSE g[n - 1] + more(n)]
  <2>1. ASSUME NEW n \in 0 .. N PROVE g[n] = IF n = 0 THEN 0 ELSE g[n - 1] + more(n)
    <3>1. CASE n = 0
      BY <3>1 DEF Layout
    <3>2. CASE n # 0
      <4> DEFINE a == last[n - 1]
                 b == last[n]
                 m == more(n)
      <4>1. n \in 1 .. N /\ n - 1 \in 0 .. N
        BY <1>1, <3>2
      <4>2. g[n] = b - 1 - n /\ g[n - 1] = a - 1 - (n - 1)
        BY <4>1
      <4>3. a \in Nat /\ b = a + 1 + m /\ m \in Nat
        BY <1>3, <1>4, <4>1
      <4> HIDE DEF a, b, m, g
      <4>4. g[n] = g[n - 1] + m
        BY <1>1, <4>2, <4>3
      <4> QED BY <3>2, <4>4 DEF m
    <3> QED BY <3>1, <3>2
  <2> QED BY <2>1
<1> HIDE DEF g
<1>6. counted = [n \in 0 .. N |-> IF n = 0 THEN 0 ELSE counted[n - 1] + more(n)]
  BY <1>5
<1> HIDE DEF counted
<1> DEFINE S == {n \in 0 .. N : counted[n] = g[n]}
<1>7. 0 \in S
  BY <1>1, <1>5, <1>6
<1>8. ASSUME NEW n \in 1 .. N, n - 1 \in S PROVE n \in S
  <2>1. n \in 0 .. N /\ n # 0 /\ counted[n - 1] = g[n - 1]
    BY <1>1, <1>8
  <2> QED BY <1>5, <1>6, <2>1
<1> HIDE DEF S
<1>9. N \in S
  <2>1. \A n \in 0 .. N : n \in S
    BY <1>1, <1>7, <1>8, UpTo
  <2>2. N \in 0 .. N
    BY <1>1
  <2> QED BY <2>1, <2>2
<1>10. counted[N] = last[N] - 1 - N
  <2>1. N \in 0 .. N
    BY <1>1
  <2> QED BY <1>9, <2>1 DEF S, g
<1>11. Len(p) = last[N] + 1 /\ last[N] \in Nat
  BY <1>1, <1>4 DEF Layout
<1> QED BY <1>1, <1>2, <1>10, <1>11

(* The search passes over an escaped byte.                                 *)
LEMMA PartScanned ==
  ASSUME NEW s \in Seq(Chars), NEW g, ScanLoop(s, g), NEW i \in Nat,
         NEW b \in Chars, NEW e, NEW c, Written(b, e, c),
         i + Len(e) <= Len(s), \A k \in 1 .. Len(e) : s[i + k] = e[k],
         g[i].end = 0, ~ g[i].over
  PROVE  g[i + Len(e)].end = 0 /\ ~ g[i + Len(e)].over
<1> DEFINE free(j) == g[j].end = 0 /\ ~ g[j].over
           marks == {Strings!Quote, Strings!Backslash}
<1>1. Len(s) \in Nat
  BY LenProperties
<1>2. ASSUME NEW k \in 0 .. 5, NEW m \in 1 .. 6, m = k + 1, i + m <= Len(s)
      PROVE  Passes(s, i + m, g[i + k], g[i + m])
  <2> DEFINE j == i + m
  <2>1. j \in 1 .. Len(s) /\ j - 1 = i + k
    BY <1>1, <1>2
  <2> HIDE DEF j
  <2>2. Passes(s, j, g[j - 1], g[j])
    BY <2>1, ScanSteps
  <2> QED BY <2>1, <2>2 DEF j
<1>3. i + 1 <= Len(s) => Passes(s, i + 1, g[i], g[i + 1])
  <2>1. 0 \in 0 .. 5 /\ 1 \in 1 .. 6 /\ 1 = 0 + 1 /\ i + 0 = i
    OBVIOUS
  <2>2. i + 1 <= Len(s) => Passes(s, i + 1, g[i + 0], g[i + 1])
    BY <1>2, <2>1, Zenon
  <2> QED BY <2>1, <2>2, Zenon
<1>4. i + 2 <= Len(s) => Passes(s, i + 2, g[i + 1], g[i + 2])
  <2>1. 1 \in 0 .. 5 /\ 2 \in 1 .. 6 /\ 2 = 1 + 1
    OBVIOUS
  <2> QED BY <1>2, <2>1, Zenon
<1>5. free(i)
  OBVIOUS
<1>6. CASE Len(e) = 1 /\ e[1] = b /\ b \notin marks
  <2>1. s[i + 1] \notin marks /\ i + 1 <= Len(s)
    BY <1>6
  <2>2. free(i + 1)
    BY <1>3, <1>5, <2>1 DEF Passes
  <2> QED BY <1>6, <2>2
<1>7. ASSUME Len(e) >= 2, Len(e) \in Nat, e[1] = Strings!Backslash PROVE free(i + 2)
  <2>1. i + 1 <= Len(s) /\ i + 2 <= Len(s)
    BY <1>1, <1>7
  <2>2. s[i + 1] = Strings!Backslash
    BY <1>7
  <2>3. Passes(s, i + 1, g[i], g[i + 1]) /\ Passes(s, i + 2, g[i + 1], g[i + 2])
    BY <1>3, <1>4, <2>1, Zenon
  <2>4. Strings!Backslash # Strings!Quote
    BY DEF Strings!Backslash, Strings!Quote
  <2>5. g[i + 1].end = 0 /\ g[i + 1].over
    BY <1>5, <2>2, <2>3, <2>4 DEF Passes
  <2>6. free(i + 2)
    BY <2>3, <2>5 DEF Passes
  <2> QED BY <2>6
<1>8. CASE Len(e) = 2 /\ e[1] = Strings!Backslash
  <2>1. free(i + 2)
    BY <1>7, <1>8
  <2> QED BY <1>8, <2>1
<1>9. CASE /\ Len(e) = 6 /\ e[1] = Strings!Backslash /\ e[3] = 48 /\ e[4] = 48 /\ b < 32
           /\ e[5] = Strings!HexDigit(b \div 16) /\ e[6] = Strings!HexDigit(b % 16)
  <2>1. free(i + 2)
    BY <1>7, <1>9
  <2>2. s[i + 3] = e[3] /\ s[i + 4] = e[4] /\ s[i + 5] = e[5] /\ s[i + 6] = e[6]
    <3>1. 3 \in 1 .. 6 /\ 4 \in 1 .. 6 /\ 5 \in 1 .. 6 /\ 6 \in 1 .. 6
      OBVIOUS
    <3>2. \A k \in 1 .. 6 : s[i + k] = e[k]
      BY <1>9, Zenon
    <3> QED BY <3>1, <3>2, Zenon
  <2>3. e[3] \notin marks /\ e[4] \notin marks
    BY <1>9 DEF Strings!Quote, Strings!Backslash
  <2>4. e[5] \notin marks /\ e[6] \notin marks
    <3>1. b \div 16 \in 0 .. 15 /\ b % 16 \in 0 .. 15
      BY <1>9, HalvesOf
    <3>2. Strings!HexDigit(b \div 16) \notin marks
      BY <3>1, DigitsReadBack
    <3>3. Strings!HexDigit(b % 16) \notin marks
      BY <3>1, DigitsReadBack
    <3> HIDE DEF marks
    <3> QED BY <1>9, <3>2, <3>3
  <2>5. i + 3 <= Len(s) /\ i + 4 <= Len(s) /\ i + 5 <= Len(s) /\ i + 6 <= Len(s)
    <3>1. i + 6 <= Len(s)
      BY <1>9, Zenon
    <3> DEFINE n == Len(s)
    <3> HIDE DEF n
    <3>2. n \in Nat /\ i + 6 <= n
      BY <1>1, <3>1 DEF n
    <3> QED BY <3>2 DEF n
  <2> HIDE DEF free, marks
  <2>6. /\ s[i + 3] \notin marks /\ s[i + 4] \notin marks
        /\ s[i + 5] \notin marks /\ s[i + 6] \notin marks
    BY <2>2, <2>3, <2>4, Zenon
  <2>7. free(i + 3)
    <3>1. 2 \in 0 .. 5 /\ 3 \in 1 .. 6 /\ 3 = 2 + 1
      OBVIOUS
    <3>2. Passes(s, i + 3, g[i + 2], g[i + 3])
      BY <1>2, <2>5, <3>1, Zenon
    <3> QED BY <2>1, <2>6, <3>2 DEF Passes, free, marks
  <2>8. free(i + 4)
    <3>1. 3 \in 0 .. 5 /\ 4 \in 1 .. 6 /\ 4 = 3 + 1
      OBVIOUS
    <3>2. Passes(s, i + 4, g[i + 3], g[i + 4])
      BY <1>2, <2>5, <3>1, Zenon
    <3> QED BY <2>7, <2>6, <3>2 DEF Passes, free, marks
  <2>9. free(i + 5)
    <3>1. 4 \in 0 .. 5 /\ 5 \in 1 .. 6 /\ 5 = 4 + 1
      OBVIOUS
    <3>2. Passes(s, i + 5, g[i + 4], g[i + 5])
      BY <1>2, <2>5, <3>1, Zenon
    <3> QED BY <2>8, <2>6, <3>2 DEF Passes, free, marks
  <2>10. free(i + 6)
    <3>1. 5 \in 0 .. 5 /\ 6 \in 1 .. 6 /\ 6 = 5 + 1
      OBVIOUS
    <3>2. Passes(s, i + 6, g[i + 5], g[i + 6])
      BY <1>2, <2>5, <3>1, Zenon
    <3> QED BY <2>9, <2>6, <3>2 DEF Passes, free, marks
  <2> QED BY <1>9, <2>10 DEF free
<1> QED BY <1>6, <1>8, <1>9 DEF Written

(* The search ends with the last byte of what is printed.                  *)
LEMMA PrintedEnds ==
  ASSUME NEW t \in Seq(Chars), NEW p, NEW last, Layout(t, p, last)
  PROVE  Strings!FindEnd(p).end = Len(p)
<1> DEFINE N == Len(t)
<1>1. N \in Nat /\ p \in Seq(Chars) /\ Len(p) \in Nat
  BY LenProperties DEF Layout
<1>2. PICK g : ScanLoop(p, g)
  BY <1>1, ScanDefined
<1>3. \A n \in 0 .. N : last[n] \in Nat
  BY DEF Layout
<1>4. Len(p) = last[N] + 1 /\ last[0] = 1 /\ p[Len(p)] = Strings!Quote /\ N \in 0 .. N
  BY <1>1 DEF Layout
<1> DEFINE free(j) == g[j].end = 0 /\ ~ g[j].over
           S == {n \in 0 .. N : last[n] < Len(p) /\ free(last[n])}
<1>5. 0 \in S
  <2>1. last[0] < Len(p)
    <3>1. CASE N = 0
      BY <1>4, <3>1
    <3>2. CASE N # 0
      <4> DEFINE l == Len(Strings!Escaped(t[1]))
                 z == last[1]
      <4>1. 1 \in 1 .. N /\ 1 - 1 = 0 /\ 1 \in 0 .. N
        BY <1>1, <3>2
      <4>2. z = last[0] + l /\ z < Len(p) /\ z \in Nat
        BY <1>3, <4>1 DEF Layout
      <4>3. l \in Nat
        BY <4>1, ElementOfSeq, EscapedIs, LenProperties
      <4> HIDE DEF l, z
      <4> QED BY <1>1, <1>4, <4>2, <4>3
    <3> QED BY <3>1, <3>2
  <2>2. 1 \in 1 .. Len(p) /\ 1 - 1 = 0
    BY <1>1, <1>4, <2>1
  <2>3. Passes(p, 1, g[0], g[1]) /\ g[0] = ScanStart
    BY <1>1, <1>2, <2>2, ScanSteps DEF ScanLoop
  <2>4. free(1)
    BY <2>3 DEF Passes, ScanStart
  <2> QED BY <1>1, <1>4, <2>1, <2>4
<1>6. ASSUME NEW n \in 1 .. N, n - 1 \in S PROVE n \in S
  <2> DEFINE b == t[n]
             e == Strings!Escaped(b)
             c == Strings!escape_characters(b)
             i == last[n - 1]
  <2>1. b \in Chars
    BY ElementOfSeq
  <2>2. Written(b, e, c)
    BY <2>1, EscapedIs
  <2>3. n \in 0 .. N /\ n - 1 \in 0 .. N
    BY <1>1
  <2>4. i \in Nat
    BY <1>3, <2>3
  <2>5. /\ last[n] = i + Len(e) /\ last[n] < Len(p) /\ last[n] \in Nat
        /\ \A k \in 1 .. Len(e) : p[i + k] = e[k]
    BY <1>3, <2>3 DEF Layout
  <2>6. free(i)
    BY <1>6
  <2> HIDE DEF b, e, c, i
  <2>7. i + Len(e) <= Len(p)
    BY <1>1, <2>5
  <2>8. g[i + Len(e)].end = 0 /\ ~ g[i + Len(e)].over
    BY <1>1, <1>2, <2>1, <2>2, <2>4, <2>5, <2>6, <2>7, PartScanned
  <2> QED BY <2>3, <2>5, <2>8
<1> HIDE DEF S
<1>7. N \in S
  <2>1. \A n \in 0 .. N : n \in S
    BY <1>1, <1>5, <1>6, UpTo
  <2> QED BY <1>4, <2>1
<1> DEFINE m == Len(p)
<1>8. m \in 1 .. m /\ m - 1 = last[N] /\ m # 0
  BY <1>1, <1>3, <1>4
<1>9. free(m - 1)
  BY <1>7, <1>8 DEF S
<1>10. Passes(p, m, g[m - 1], g[m])
  BY <1>1, <1>2, <1>8, ScanSteps
<1>11. g[m].end = m
  BY <1>4, <1>9, <1>10 DEF Passes, Strings!Quote, Strings!Backslash
<1> QED BY <1>2, <1>11 DEF ScanLoop


(* The escape written for a byte stands for it.                            *)
LEMMA EscapeStandsFor ==
  ASSUME NEW s, NEW i \in Nat, NEW end \in Nat, NEW b \in Chars, NEW e, NEW c,
         Written(b, e, c), Len(e) \in Nat, Len(e) # 1, i + Len(e) <= end,
         \A k \in 1 .. Len(e) : s[i + k - 1] = e[k]
  PROVE  LET x == Strings!Escape(s, i, end) IN x.length = Len(e) /\ x.bytes = <<b>>
<1> DEFINE d == s[i + 1]
           x == Strings!Escape(s, i, end)
           letters == \E l \in Strings!Letters : l[2] = d
           letter == CHOOSE l \in Strings!Letters : l[2] = d
           itself == d \in {Strings!Quote, Strings!Backslash, 47}
           code == d = 117
           said == [length |-> 2, bytes |-> <<letter[1]>>]
           same == [length |-> 2, bytes |-> <<d>>]
           coded == Strings!utf16_literal_to_utf8(s, i, end)
<1>1. x = CASE letters -> said [] itself -> same [] code -> coded [] OTHER -> Strings!Fails
  BY DEF Strings!Escape
<1>2. /\ letters => ~ itself /\ ~ code
      /\ itself => ~ letters /\ ~ code
      /\ code => ~ letters /\ ~ itself
  <2>1. letters => d \in {98, 102, 110, 114, 116}
    BY DEF Strings!Letters
  <2>2. itself => d \in {34, 92, 47}
    BY DEF Strings!Quote, Strings!Backslash
  <2>3. /\ d \in {98, 102, 110, 114, 116} => d \notin {34, 92, 47} /\ d # 117
        /\ d \in {34, 92, 47} => d # 117
    <3> HIDE DEF d
    <3> QED OBVIOUS
  <2> QED BY <2>1, <2>2, <2>3, Zenon
<1>3. \A k \in 1 .. Len(e) : k >= 2 => s[i + (k - 1)] = e[k]
  <2>1. \A k \in 1 .. Len(e) : i + (k - 1) = i + k - 1
    OBVIOUS
  <2> QED BY <2>1
<1>4. Len(e) >= 2 => d = e[2]
  <2> SUFFICES ASSUME Len(e) >= 2 PROVE d = e[2]
    OBVIOUS
  <2>1. 2 \in 1 .. Len(e) /\ i + 2 - 1 = i + 1
    OBVIOUS
  <2> QED BY <2>1
<1>5. CASE Len(e) = 2 /\ b \in {Strings!Quote, Strings!Backslash} /\ e[2] = b
  <2>1. itself /\ d = b
    BY <1>4, <1>5
  <2>2. x = same
    <3> HIDE DEF x, letters, itself, code, said, same, coded
    <3> QED BY <1>1, <1>2, <2>1, Zenon
  <2> HIDE DEF x
  <2>3. x.length = 2 /\ x.bytes = <<b>>
    BY <2>1, <2>2
  <2> QED BY <1>5, <2>3 DEF x
<1>6. CASE Len(e) = 2 /\ <<b, e[2]>> \in Strings!Letters
  <2>1. <<b, d>> \in Strings!Letters
    BY <1>4, <1>6
  <2>2. letters
    BY <2>1
  <2>3. letter \in Strings!Letters /\ letter[2] = d
    BY <2>2
  <2>4. letter[1] = b
    <3> HIDE DEF letter, d
    <3> QED BY <2>1, <2>3 DEF Strings!Letters
  <2>5. x = said
    <3> HIDE DEF x, letters, itself, code, said, same, coded
    <3> QED BY <1>1, <1>2, <2>2, Zenon
  <2> HIDE DEF x, letter
  <2>6. x.length = 2 /\ x.bytes = <<b>>
    BY <2>4, <2>5
  <2> QED BY <1>6, <2>6 DEF x
<1>7. CASE /\ Len(e) = 6 /\ e[2] = 117 /\ e[3] = 48 /\ e[4] = 48 /\ b < 32
           /\ e[5] = Strings!HexDigit(b \div 16) /\ e[6] = Strings!HexDigit(b % 16)
  <2> DEFINE first == Strings!parse_hex4(s, i + 2)
             second == Strings!parse_hex4(s, i + 8)
             y == b \div 16
             z == b % 16
             hex == Strings!Digits \cup 65..70 \cup 97..102
  <2>1. y \in 0 .. 15 /\ z \in 0 .. 15 /\ y * 16 + z = b
    BY <1>7, HalvesOf
  <2> HIDE DEF y, z
  <2>2. s[i + 2] = 48 /\ s[i + 3] = 48 /\ s[i + 4] = Strings!HexDigit(y) /\ s[i + 5] = Strings!HexDigit(z)
    <3>1. 3 \in 1 .. Len(e) /\ 4 \in 1 .. Len(e) /\ 5 \in 1 .. Len(e) /\ 6 \in 1 .. Len(e)
          /\ i + 3 - 1 = i + 2 /\ i + 4 - 1 = i + 3 /\ i + 5 - 1 = i + 4 /\ i + 6 - 1 = i + 5
      BY <1>7
    <3>2. s[i + 2] = e[3] /\ s[i + 3] = e[4] /\ s[i + 4] = e[5] /\ s[i + 5] = e[6]
      BY <3>1
    <3> QED BY <1>7, <3>2 DEF y, z
  <2>3. first = b
    <3> DEFINE h == i + 2
    <3>1. h + 1 = i + 3 /\ h + 2 = i + 4 /\ h + 3 = i + 5 /\ h + 0 = h
      OBVIOUS
    <3>2. s[h] = 48 /\ s[h + 1] = 48 /\ s[h + 2] = Strings!HexDigit(y) /\ s[h + 3] = Strings!HexDigit(z)
      BY <2>2, <3>1
    <3> HIDE DEF h
    <3>3. 48 \in hex /\ Strings!HexValue(48) = 0
      BY DEF Strings!HexValue, Strings!Digits
    <3>4. Strings!HexDigit(y) \in hex /\ Strings!HexValue(Strings!HexDigit(y)) = y
      BY <2>1, DigitsReadBack
    <3>5. Strings!HexDigit(z) \in hex /\ Strings!HexValue(Strings!HexDigit(z)) = z
      BY <2>1, DigitsReadBack
    <3> HIDE DEF hex
    <3>6. \A k \in 0 .. 3 : s[h + k] \in hex
      <4>1. \A k \in 0 .. 3 : k = 0 \/ k = 1 \/ k = 2 \/ k = 3
        OBVIOUS
      <4> QED BY <3>1, <3>2, <3>3, <3>4, <3>5, <4>1
    <3>7. Strings!parse_hex4(s, h) =
            ((Strings!HexValue(s[h]) * 16 + Strings!HexValue(s[h + 1])) * 16 + Strings!HexValue(s[h + 2])) * 16
              + Strings!HexValue(s[h + 3])
      BY <3>6 DEF Strings!parse_hex4, hex
    <3>8. Strings!parse_hex4(s, h) = ((0 * 16 + 0) * 16 + y) * 16 + z
      BY <3>2, <3>3, <3>4, <3>5, <3>7
    <3>9. ((0 * 16 + 0) * 16 + y) * 16 + z = y * 16 + z
      BY <2>1
    <3> QED BY <2>1, <3>8, <3>9 DEF h
  <2> DEFINE short == end - i < 6
             lone == Strings!Low(first)
             high == Strings!High(first)
             enough == end - i >= 6
             pair == IF \/ end - i < 12
                        \/ s[i + 6] # Strings!Backslash \/ s[i + 7] # 117
                        \/ ~ Strings!Low(second)
                       THEN Strings!Fails
                       ELSE [length |-> 12, bytes |->
                              Strings!Utf8(65536 + (first % 1024) * 1024 + (second % 1024))]
             single == [length |-> 6, bytes |-> Strings!Utf8(first)]
  <2>4. coded = CASE short -> Strings!Fails
                  [] enough /\ lone -> Strings!Fails
                  [] enough /\ high -> pair
                  [] OTHER -> single
    BY DEF Strings!utf16_literal_to_utf8
  <2>5. ~ short
    BY <1>7
  <2>6. ~ lone /\ ~ high
    <3> HIDE DEF first
    <3>1. first < 32 /\ first \in Nat
      BY <1>7, <2>3 DEF Chars
    <3> QED BY <3>1 DEF Strings!Low, Strings!High
  <2>7. Strings!Utf8(first) = <<b>>
    <3> HIDE DEF first
    <3>1. Strings!Utf8(b) = <<b>>
      <4>1. b < 128 /\ ~ (128 <= b /\ b < 2048) /\ ~ (2048 <= b /\ b < 65536)
        BY <1>7 DEF Chars
      <4> QED BY <4>1 DEF Strings!Utf8
    <3> QED BY <2>3, <3>1
  <2>8. coded = single
    <3> HIDE DEF coded, short, enough, lone, high, pair, single
    <3> QED BY <2>4, <2>5, <2>6, Zenon
  <2>9. code
    BY <1>4, <1>7
  <2>10. x = coded
    <3> HIDE DEF x, letters, itself, code, said, same, coded
    <3> QED BY <1>1, <1>2, <2>9, Zenon
  <2> HIDE DEF x, coded, first
  <2>11. x.length = 6 /\ x.bytes = <<b>>
    BY <2>7, <2>8, <2>10
  <2> QED BY <1>7, <2>11 DEF x
<1> QED BY <1>5, <1>6, <1>7 DEF Written

(* One turn reads one byte back.                                           *)
LEMMA PartRead ==
  ASSUME NEW s \in Seq(Chars), NEW end \in 0 .. Len(s), NEW u \in Reads, u.ok,
         NEW b \in Chars, NEW e, NEW c, Written(b, e, c), u.at + Len(e) <= end,
         \A k \in 1 .. Len(e) : s[u.at + k - 1] = e[k]
  PROVE  LET v == Strings!Turn(s, end, u) IN
         v \in Reads /\ v.ok /\ v.at = u.at + Len(e) /\ v.out = Append(u.out, b)
<1> DEFINE v == Strings!Turn(s, end, u)
           x == Strings!Escape(s, u.at, end)
           i == u.at
           l == Len(e)
<1>1. i \in Nat /\ u.out \in Seq(Nat) /\ end \in Nat /\ b \in Nat
  <2>1. i \in Nat /\ u.out \in Seq(Nat)
    BY DEF Reads
  <2>2. end \in Nat
    BY LenProperties
  <2>3. b \in Nat
    BY DEF Chars
  <2> QED BY <2>1, <2>2, <2>3
<1>2. /\ v \in Reads
      /\ \/ v = u /\ (~ u.ok \/ u.at >= end)
         \/ TurnCopies(s, end, u, v)
         \/ TurnBreaks(s, end, u, v)
         \/ TurnReplaces(s, end, u, v, x)
  BY TurnIs
<1>3. l \in {1, 2, 6}
  BY DEF Written
<1>4. l \in Nat /\ l >= 1
  <2> HIDE DEF l
  <2> QED BY <1>3
<1>5. i < end /\ s[i] = e[1]
  <2> HIDE DEF i, l
  <2>1. i + l <= end /\ \A k \in 1 .. l : s[i + k - 1] = e[k]
    BY DEF i, l
  <2>2. 1 \in 1 .. l /\ i + 1 - 1 = i
    BY <1>1, <1>4
  <2>3. s[i] = e[1]
    BY <2>1, <2>2
  <2> QED BY <1>1, <1>4, <2>1, <2>3
<1>6. l # 1 => x.length = l /\ x.bytes = <<b>>
  <2> SUFFICES ASSUME l # 1 PROVE x.length = l /\ x.bytes = <<b>>
    OBVIOUS
  <2> HIDE DEF i
  <2>1. i + Len(e) <= end /\ \A k \in 1 .. Len(e) : s[i + k - 1] = e[k]
    BY DEF i
  <2>2. Len(e) \in Nat /\ Len(e) # 1
    BY <1>4
  <2> DEFINE y == Strings!Escape(s, i, end)
  <2>3. y.length = Len(e) /\ y.bytes = <<b>>
    BY <1>1, <2>1, <2>2, EscapeStandsFor, SMTT(30)
  <2> QED BY <2>3 DEF i
<1>7. l = 1 <=> e[1] # Strings!Backslash
  BY DEF Written
<1>8. l = 1 => e[1] = b
  BY DEF Written
<1> HIDE DEF v, x
<1>9. CASE l = 1
  <2>1. TurnCopies(s, end, u, v)
    <3>1. s[u.at] # Strings!Backslash
      BY <1>5, <1>7, <1>9
    <3>2. ~ (v = u /\ (~ u.ok \/ u.at >= end))
      BY <1>1, <1>5
    <3> QED BY <1>2, <3>1, <3>2 DEF TurnBreaks, TurnReplaces
  <2> QED BY <1>2, <1>5, <1>8, <1>9, <2>1 DEF TurnCopies, v
<1>10. CASE l # 1
  <2>1. s[i] = Strings!Backslash /\ x.length = l /\ x.bytes = <<b>>
    BY <1>5, <1>6, <1>7, <1>10
  <2>2. TurnReplaces(s, end, u, v, x)
    <3>1. ~ TurnCopies(s, end, u, v)
      BY <2>1 DEF TurnCopies
    <3>2. ~ (v = u /\ (~ u.ok \/ u.at >= end))
      BY <1>1, <1>5
    <3>3. CASE TurnBreaks(s, end, u, v)
      <4>1. v = Strings!Turn(s, end, u)
        BY DEF v
      <4>2. ~ v.ok
        BY <3>3 DEF TurnBreaks
      <4>3. v = [u EXCEPT !.at = @ + x.length, !.out = @ \o x.bytes]
        <5>1. x.length # 0 /\ ~ (~ u.ok \/ u.at >= end) /\ s[u.at] = Strings!Backslash
          BY <1>1, <1>4, <1>5, <2>1
        <5> QED BY <4>1, <5>1 DEF Strings!Turn, x
      <4>4. v.ok = u.ok
        <5> DEFINE place == u.at + x.length
                   out == u.out \o x.bytes
        <5>1. v = [u EXCEPT !.at = place, !.out = out]
          BY <4>3
        <5> HIDE DEF place, out
        <5>2. v = [at |-> place, out |-> out, ok |-> u.ok]
          BY <5>1 DEF Reads
        <5> QED BY <5>2
      <4> QED BY <4>2, <4>4
    <3> QED BY <1>2, <3>1, <3>2, <3>3
  <2>3. Append(u.out, b) = u.out \o <<b>>
    BY <1>1, AppendIsConcat
  <2> QED BY <1>2, <2>1, <2>2, <2>3 DEF TurnReplaces, v
<1> QED BY <1>9, <1>10


(* A string reads back as it was, from what is printed for it, and that    *)
(* has the length counted for it.                                          *)
THEOREM PrintedIsRead ==
  ASSUME NEW t \in Seq(Chars)
  PROVE  LET p == Strings!print_string_ptr(t)
             r == Strings!parse_string(p)
         IN Len(p) = Strings!output_length(t) + 2 /\ r.ok /\ r.out = t /\ r.end = Len(p)
<1> DEFINE p == Strings!print_string_ptr(t)
           N == Len(t)
           M == Len(p)
           f == Strings!FindEnd(p)
           m == Strings!Unescape(p, M)
<1>1. PICK last : Layout(t, p, last)
  BY Printed
<1> HIDE DEF p
<1>2. N \in Nat /\ p \in Seq(Chars) /\ M \in Nat
  BY <1>1, LenProperties DEF Layout
<1>3. M = Strings!output_length(t) + 2
  BY <1>1, CountedIsWritten
<1>4. f.end = M
  BY <1>1, PrintedEnds
<1>5. /\ M = last[N] + 1 /\ last[0] = 1 /\ p[1] = Strings!Quote
      /\ last \in [0 .. N -> Nat]
  BY <1>1 DEF Layout
<1>6. \A n \in 0 .. N : last[n] \in Nat
  <2> HIDE DEF N
  <2> QED BY <1>5
<1>7. M \in 0 .. M /\ N \in 0 .. N
  BY <1>2
<1>8. PICK r : ReadLoop(p, M, r)
  BY <1>2, <1>7, ReadDefined
<1>9. /\ r[0] = ReadStart /\ m = r[M]
      /\ \A n \in 1 .. M : r[n] = Strings!Turn(p, M, r[n - 1])
      /\ \A n \in 0 .. M : r[n] \in Reads
  BY <1>8 DEF ReadLoop
<1> DEFINE reads(n) == /\ n <= M /\ n < last[n] /\ r[n].ok /\ r[n].at = last[n] + 1
                       /\ Len(r[n].out) = n /\ \A j \in 1 .. n : r[n].out[j] = t[j]
           S == {n \in 0 .. N : reads(n)}
<1>10. 0 \in S
  BY <1>2, <1>5, <1>9 DEF ReadStart
<1>11. ASSUME NEW n \in 1 .. N, n - 1 \in S PROVE n \in S
  <2> DEFINE b == t[n]
             e == Strings!Escaped(b)
             c == Strings!escape_characters(b)
             i == last[n - 1]
             k == last[n]
             u == r[n - 1]
             v == r[n]
  <2>1. b \in Chars /\ n \in 0 .. N /\ n - 1 \in 0 .. N
    BY <1>2, ElementOfSeq
  <2>2. Written(b, e, c)
    BY <2>1, EscapedIs
  <2>3. i \in Nat /\ k \in Nat /\ k = i + Len(e) /\ k < M
        /\ \A x \in 1 .. Len(e) : p[i + x] = e[x]
    BY <1>1, <1>6, <2>1 DEF Layout
  <2>4. /\ n - 1 <= M /\ n - 1 < i /\ u.ok /\ u.at = i + 1
        /\ Len(u.out) = n - 1 /\ \A j \in 1 .. n - 1 : u.out[j] = t[j]
    BY <1>11
  <2>5. Len(e) \in {1, 2, 6}
    <3> HIDE DEF b, e, c
    <3> QED BY <2>2 DEF Written
  <2> HIDE DEF e, c, i, k
  <2>6. n - 1 \in 0 .. M /\ n \in 1 .. M /\ n < k /\ n <= M /\ n \in Nat
    <3> DEFINE l == Len(e)
    <3>1. l \in {1, 2, 6} /\ k = i + l
      BY <2>3, <2>5
    <3> HIDE DEF l
    <3> QED BY <1>2, <2>1, <2>3, <2>4, <3>1
  <2>7. u \in Reads /\ v = Strings!Turn(p, M, u)
    BY <1>9, <2>6
  <2>8. u.out \in Seq(Nat)
    BY <2>7 DEF Reads
  <2> HIDE DEF u, v, b
  <2>9. u.at + Len(e) <= M /\ \A x \in 1 .. Len(e) : p[u.at + x - 1] = e[x]
    <3> DEFINE l == Len(e)
    <3>1. l \in Nat
      BY <2>5
    <3>2. k = i + l /\ \A x \in 1 .. l : p[i + x] = e[x]
      BY <2>3
    <3> HIDE DEF l
    <3>3. u.at + l <= M /\ \A x \in 1 .. l : u.at + x - 1 = i + x
      BY <1>2, <2>3, <2>4, <3>1, <3>2
    <3> QED BY <3>2, <3>3 DEF l
  <2>10. v \in Reads /\ v.ok /\ v.at = u.at + Len(e) /\ v.out = Append(u.out, b)
    <3>1. M \in 0 .. Len(p)
      BY <1>7
    <3> HIDE DEF M
    <3> DEFINE w == Strings!Turn(p, M, u)
    <3>2. w \in Reads /\ w.ok /\ w.at = u.at + Len(e) /\ w.out = Append(u.out, b)
      BY <1>2, <2>1, <2>2, <2>4, <2>7, <2>9, <3>1, PartRead
    <3> QED BY <2>7, <3>2
  <2>11. v.at = k + 1
    <3> DEFINE l == Len(e)
    <3>1. l \in Nat /\ k = i + l /\ v.at = u.at + l
      BY <2>3, <2>5, <2>10
    <3> HIDE DEF l
    <3>2. i \in Nat /\ u.at = i + 1
      BY <2>3, <2>4, Zenon
    <3> QED BY <3>1, <3>2
  <2>12. Len(v.out) = n /\ \A j \in 1 .. n : v.out[j] = t[j]
    <3> DEFINE o == u.out
               w == v.out
    <3>1. b \in Nat
      BY <2>1 DEF Chars
    <3>2. w = Append(o, b) /\ o \in Seq(Nat) /\ Len(o) = n - 1
      BY <2>4, <2>8, <2>10
    <3> HIDE DEF o, w
    <3>3. Len(w) = Len(o) + 1 /\ w[Len(o) + 1] = b /\ \A j \in 1 .. Len(o) : w[j] = o[j]
      BY <3>1, <3>2, AppendProperties
    <3>4. Len(w) = n /\ w[n] = b
      BY <2>6, <3>2, <3>3
    <3>5. \A j \in 1 .. n : j = n \/ j \in 1 .. n - 1
      BY <2>6
    <3>6. \A j \in 1 .. n - 1 : w[j] = t[j]
      BY <2>4, <3>2, <3>3 DEF o
    <3>7. \A j \in 1 .. n : w[j] = t[j]
      BY <3>4, <3>5, <3>6 DEF b
    <3> QED BY <3>4, <3>7 DEF w
  <2>13. reads(n)
    BY <2>6, <2>10, <2>11, <2>12 DEF k, v
  <2> QED BY <2>1, <2>13
<1> HIDE DEF S
<1>12. reads(N)
  <2>1. \A n \in 0 .. N : n \in S
    BY <1>2, <1>10, <1>11, UpTo
  <2> QED BY <1>7, <2>1 DEF S
<1> DEFINE u == r[N]
           T == {n \in 0 .. M : n >= N => r[n] = u}
<1>13. u \in Reads /\ u.ok /\ u.at = M /\ N <= M
  <2>1. N \in 0 .. M
    BY <1>2, <1>12
  <2> QED BY <1>5, <1>9, <1>12, <2>1
<1>14. 0 \in T
  BY <1>2
<1>15. ASSUME NEW n \in 1 .. M, n - 1 \in T PROVE n \in T
  <2>1. n \in 0 .. M /\ n - 1 \in 0 .. M
    BY <1>2
  <2>2. CASE n <= N
    BY <1>2, <2>1, <2>2
  <2>3. CASE ~ (n <= N)
    <3>1. n - 1 >= N
      BY <1>2, <2>1, <2>3
    <3>2. r[n - 1] = u
      BY <1>15, <3>1
    <3>3. r[n] = Strings!Turn(p, M, u)
      BY <1>9, <3>2
    <3> HIDE DEF u
    <3>4. Strings!Turn(p, M, u) = u
      <4>1. (~ u.ok \/ u.at >= M) /\ ~ (u.ok /\ u.at < M /\ p[u.at] # Strings!Backslash)
        BY <1>2, <1>13
      <4> HIDE DEF M
      <4> QED BY <4>1, Zenon DEF Strings!Turn
    <3> QED BY <2>1, <3>3, <3>4
  <2> QED BY <2>2, <2>3
<1> HIDE DEF T
<1>16. m = u
  <2> HIDE DEF u, N, m
  <2>1. \A n \in 0 .. M : n \in T
    <3> HIDE DEF M
    <3> QED BY <1>2, <1>14, <1>15, UpTo
  <2>2. r[M] = u
    BY <1>2, <1>7, <1>13, <2>1 DEF T
  <2> QED BY <1>9, <2>2
<1>17. m.ok /\ m.out = t
  <2> DEFINE o == m.out
  <2>1. o \in Seq(Nat) /\ Len(o) = N /\ \A j \in 1 .. N : o[j] = t[j]
    BY <1>12, <1>13, <1>16 DEF Reads
  <2>2. t \in Seq(Nat)
    <3>1. \A j \in 1 .. N : t[j] \in Nat
      <4>1. \A j \in 1 .. N : t[j] \in Chars
        BY ElementOfSeq
      <4>2. Chars \subseteq Nat
        BY DEF Chars
      <4> QED BY <4>1, <4>2
    <3>2. t \in [1 .. N -> Nat]
      <4>1. t \in [1 .. N -> Chars]
        BY LenProperties
      <4> QED BY <3>1, <4>1
    <3> QED BY <1>2, <3>2
  <2> HIDE DEF o
  <2>3. o = t
    BY <2>1, <2>2, SeqEqual
  <2> QED BY <1>13, <1>16, <2>3 DEF o
<1>18. p[1] = Strings!Quote /\ f.end # 0 /\ Strings!Unescape(p, f.end) = m
  <2>1. last[N] \in Nat
    BY <1>6, <1>7
  <2>2. M # 0
    BY <1>5, <2>1
  <2> QED BY <1>4, <1>5, <2>2
<1> DEFINE q == Strings!parse_string(p)
<1>19. q.ok = m.ok /\ q.out = m.out /\ q.end = f.end
  <2> HIDE DEF f, m, M
  <2>1. q = [ok |-> m.ok, out |-> m.out, room |-> f.end - 1 - f.skipped + 1, end |-> f.end]
    BY <1>18 DEF Strings!parse_string, f
  <2> HIDE DEF q
  <2> QED BY <2>1
<1> QED BY <1>3, <1>4, <1>17, <1>19 DEF p


-----------------------------------------------------------------------------
(* Of every text that can be typed                                         *)

LEMMA TextTyped ==
  ASSUME Strings!TypeOK
  PROVE  Strings!Text \in Seq(Chars) /\ Strings!Literal(Strings!Text) \in Seq(Chars)
<1> DEFINE N == Len(typed)
           parts == [n \in DOMAIN typed |-> typed[n].bytes]
           text == Strings!Text
<1>1. N \in Nat /\ DOMAIN typed = 1 .. N /\ \A n \in 1 .. N : typed[n] \in TextPieces
  BY LenProperties, ElementOfSeq DEF Strings!TypeOK
<1>2. parts \in Seq(Seq(Chars))
  <2>1. \A n \in 1 .. N : parts[n] \in Seq(Chars)
    BY <1>1, StringsAssumption DEF Chars
  <2>2. parts \in [1 .. N -> Seq(Chars)]
    BY <1>1, <2>1
  <2> HIDE DEF parts, N
  <2> QED BY <1>1, <2>2
<1>3. text = Strings!FlattenSeq(parts)
  BY DEF Strings!Text
<1> HIDE DEF parts, text
<1>4. PICK h : PrintLoop(parts, h)
  BY <1>2, PrintDefined
<1>5. text \in Seq(Chars)
  <2> DEFINE l == Len(parts)
  <2>1. l \in Nat
    BY <1>2, LenProperties
  <2>2. h \in [0 .. l -> Seq(Chars)] /\ Strings!FlattenSeq(parts) = h[l]
    BY <1>4 DEF PrintLoop
  <2> HIDE DEF l
  <2>3. l \in 0 .. l
    BY <2>1
  <2> QED BY <1>3, <2>2, <2>3
<1>6. Strings!Literal(text) \in Seq(Chars)
  <2>1. <<Strings!Quote>> \in Seq(Chars)
    BY DEF Strings!Quote, Chars
  <2>2. <<Strings!Quote>> \o text \in Seq(Chars)
    BY <1>5, <2>1, ConcatProperties
  <2>3. (<<Strings!Quote>> \o text) \o <<Strings!Quote>> \in Seq(Chars)
    BY <2>1, <2>2, ConcatProperties
  <2> QED BY <2>3 DEF Strings!Literal
<1> QED BY <1>5, <1>6 DEF text

LEMMA ReadBack ==
  ASSUME Strings!TypeOK
  PROVE  StringsReadBack
<1> DEFINE text == Strings!Text
           s == Strings!Literal(Strings!Text)
<1>1. text \in Seq(Chars) /\ s \in Seq(Chars)
  BY TextTyped
<1>2. Strings!PrintedReadsBack
  BY <1>1, PrintedIsRead DEF Strings!PrintedReadsBack
<1>3. Strings!RoomSuffices
  BY <1>1, RoomIsMade DEF Strings!RoomSuffices
<1>4. Strings!CutIsRejected
  <2> DEFINE end == Strings!parse_string(s).end
  <2>1. end \in Nat
    <3> DEFINE f == Strings!FindEnd(s)
               u == Strings!Unescape(s, f.end)
               r == Strings!parse_string(s)
    <3>1. Len(s) \in Nat
      BY <1>1, LenProperties
    <3>2. PICK g : ScanLoop(s, g)
      BY <3>1, ScanDefined
    <3>3. f.end \in Nat
      BY <1>1, <3>1, <3>2, ScanEnds
    <3>4. r.end = 0 \/ r.end = f.end
      <4>1. CASE s[1] # Strings!Quote \/ f.end = 0
        BY <4>1 DEF Strings!parse_string
      <4>2. CASE ~ (s[1] # Strings!Quote \/ f.end = 0)
        <5>1. r = [ok |-> u.ok, out |-> u.out, room |-> f.end - 1 - f.skipped + 1, end |-> f.end]
          BY <4>2 DEF Strings!parse_string
        <5> QED BY <5>1
      <4> QED BY <4>1, <4>2
    <3> HIDE DEF r, f
    <3>5. r.end \in Nat
      BY <3>3, <3>4
    <3> QED BY <3>5 DEF r
  <2> HIDE DEF s, end
  <2>2. \A n \in 1 .. end - 1 : ~ Strings!parse_string(SubSeq(s, 1, n)).ok
    <3> SUFFICES ASSUME NEW n \in 1 .. end - 1 PROVE ~ Strings!parse_string(SubSeq(s, 1, n)).ok
      OBVIOUS
    <3>1. n \in Nat /\ 1 <= n /\ n < end
      BY <2>1
    <3> QED BY <1>1, <3>1, CutsAreRefused DEF end
  <2> QED BY <2>2 DEF Strings!CutIsRejected, end, s
<1> QED BY <1>2, <1>3, <1>4 DEF StringsReadBack

(* Whatever is typed, as often as one likes, of pieces of any bytes but 0. *)
THEOREM StringsReadBackAlways == Strings!Spec => []StringsReadBack
<1>1. Strings!Init => Strings!TypeOK
  BY DEF Strings!Init, Strings!TypeOK
<1>2. Strings!TypeOK /\ [Strings!Next]_typed => Strings!TypeOK'
  <2> SUFFICES ASSUME Strings!TypeOK, [Strings!Next]_typed PROVE Strings!TypeOK'
    OBVIOUS
  <2>1. CASE UNCHANGED typed
    BY <2>1 DEF Strings!TypeOK
  <2>2. ASSUME NEW p \in TextPieces, Strings!Type(p) PROVE Strings!TypeOK'
    BY <2>2, AppendProperties DEF Strings!Type, Strings!TypeOK
  <2> QED BY <2>1, <2>2 DEF Strings!Next
<1>3. Strings!TypeOK => StringsReadBack
  BY ReadBack
<1> QED BY <1>1, <1>2, <1>3, PTL DEF Strings!Spec

=============================================================================
