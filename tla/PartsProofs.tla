---------------------------- MODULE PartsProofs ----------------------------
(***************************************************************************)
(* Parts, for every value of their constants: what the HTTP server shows   *)
(* and answers, what a flush brings to the panel, what searches collect,   *)
(* what browses are told.  First what loops keep, which the model writes   *)
(* as recursive functions.                                                 *)
(***************************************************************************)
EXTENDS Parts, FiniteSetTheorems, SequenceTheorems, WellFoundedInduction, TLAPS

-----------------------------------------------------------------------------
(* Loops                                                                   *)

(* What has numbers has a least one.                                       *)
LEMMA Least ==
  ASSUME NEW T \in SUBSET Nat, T # {}
  PROVE  \E x \in T : \A y \in T : x <= y
<1> DEFINE R == {ss \in Nat \X Nat : ss[1] < ss[2]}
<1>1. IsWellFoundedOn(R, Nat)
  BY NatLessThanWellFounded DEF OpToRel
<1>2. \A x, y \in Nat : <<y, x>> \in R <=> y < x
  OBVIOUS
<1> HIDE DEF R
<1>3. PICK x \in T : \A y \in T : ~ (<<y, x>> \in R)
  BY <1>1, WFMin
<1>4. \A y \in T : x <= y
  <2> TAKE y \in T
  <2>1. x \in Nat /\ y \in Nat /\ ~ (y < x)
    BY <1>2, <1>3
  <2> QED BY <2>1
<1> QED BY <1>4

(* What holds at first and is kept from turn to turn holds after each.     *)
LEMMA EachTurn ==
  ASSUME NEW n \in Nat, NEW T, NEW f, f[0] \in T,
         \A k \in 1 .. n : f[k - 1] \in T => f[k] \in T
  PROVE  \A k \in 0 .. n : f[k] \in T
<1> SUFFICES ASSUME {k \in 0 .. n : f[k] \notin T} # {} PROVE FALSE
  OBVIOUS
<1> DEFINE Bad == {k \in 0 .. n : f[k] \notin T}
<1>1. Bad \in SUBSET Nat /\ Bad # {}
  OBVIOUS
<1>2. PICK k \in Bad : \A i \in Bad : k <= i
  <2> HIDE DEF Bad
  <2> QED BY <1>1, Least
<1>3. k \in 0 .. n /\ f[k] \notin T
  OBVIOUS
<1>4. k # 0
  BY <1>3
<1>5. k \in 1 .. n /\ k - 1 \in 0 .. n /\ ~ (k <= k - 1)
  BY <1>3, <1>4
<1>6. f[k - 1] \in T
  BY <1>2, <1>5
<1> QED BY <1>3, <1>5, <1>6

(* A loop that maps T into T has a result for each number of turns.        *)
Loop(n, T, base, turn, g) ==
  /\ g \in [0 .. n -> T] /\ g[0] = base
  /\ \A k \in 1 .. n : g[k] = turn[<<k, g[k - 1]>>]

LEMMA LoopDefined ==
  ASSUME NEW n \in Nat, NEW T, NEW base \in T, NEW turn \in [(1 .. n) \X T -> T]
  PROVE  \E g : Loop(n, T, base, turn, g)
<1> DEFINE Run(m, g) == /\ g \in [0 .. m -> T] /\ g[0] = base
                        /\ \A k \in 1 .. m : g[k] = turn[<<k, g[k - 1]>>]
           Good == {m \in 0 .. n : \E g : Run(m, g)}
           reached == [m \in 0 .. n |-> IF m \in Good THEN 1 ELSE 0]
<1>1. 0 \in Good
  <2> DEFINE g == [k \in 0 .. 0 |-> base]
  <2>1. Run(0, g)
    <3>1. 0 \in 0 .. 0 /\ \A k \in 1 .. 0 : FALSE
      OBVIOUS
    <3> QED BY <3>1
  <2> HIDE DEF g
  <2>2. 0 \in 0 .. n /\ \E x : Run(0, x)
    BY <2>1
  <2> QED BY <2>2
<1>2. ASSUME NEW m \in 1 .. n, m - 1 \in Good PROVE m \in Good
  <2>1. PICK g : Run(m - 1, g)
    BY <1>2
  <2>2. g[m - 1] \in T
    <3>1. m - 1 \in 0 .. m - 1
      OBVIOUS
    <3> QED BY <2>1, <3>1
  <2> DEFINE last == turn[<<m, g[m - 1]>>]
             h == [k \in 0 .. m |-> IF k = m THEN last ELSE g[k]]
  <2>3. last \in T
    BY <2>2
  <2> HIDE DEF last
  <2>4. \A k \in 0 .. m : k # m => k \in 0 .. m - 1
    OBVIOUS
  <2>5. h \in [0 .. m -> T]
    BY <2>1, <2>3, <2>4
  <2>6. 0 \in 0 .. m /\ 0 # m /\ h[0] = base
    BY <2>1
  <2>7. ASSUME NEW k \in 1 .. m PROVE h[k] = turn[<<k, h[k - 1]>>]
    <3>1. k \in 0 .. m /\ k - 1 \in 0 .. m /\ k - 1 # m
      OBVIOUS
    <3>2. h[k - 1] = g[k - 1]
      BY <3>1
    <3>3. CASE k = m
      BY <3>1, <3>2, <3>3 DEF last
    <3>4. CASE k # m
      <4>1. k \in 1 .. m - 1
        BY <3>4
      <4>2. g[k] = turn[<<k, g[k - 1]>>]
        BY <2>1, <4>1
      <4> QED BY <3>1, <3>2, <3>4, <4>2
    <3> QED BY <3>3, <3>4
  <2> HIDE DEF h
  <2>8. Run(m, h)
    BY <2>5, <2>6, <2>7
  <2>9. m \in 0 .. n
    OBVIOUS
  <2> QED BY <2>8, <2>9
<1>3. n \in Good
  <2> HIDE DEF Good
  <2> DEFINE Yes == {1}
  <2>1. reached[0] \in Yes
    <3>1. 0 \in 0 .. n
      OBVIOUS
    <3> QED BY <1>1, <3>1
  <2>2. \A k \in 1 .. n : reached[k - 1] \in Yes => reached[k] \in Yes
    <3>1. \A k \in 1 .. n : k - 1 \in 0 .. n /\ k \in 0 .. n
      OBVIOUS
    <3> QED BY <1>2, <3>1
  <2> HIDE DEF reached, Yes
  <2>3. \A k \in 0 .. n : reached[k] \in Yes
    BY <2>1, <2>2, EachTurn
  <2>4. n \in 0 .. n
    OBVIOUS
  <2> QED BY <2>3, <2>4 DEF reached, Yes
<1> QED BY <1>3 DEF Loop

-----------------------------------------------------------------------------
(* The HTTP server: http_server.c, message_handler.c                       *)

Conns == Server!Conns
Before(k) == {<<k[1], n>> : n \in 1 .. k[2] - 1}

ServerTyped ==
  /\ wants \in [Clients -> Server!Request]
  /\ link \in [Conns -> {"none", "open", "gone", "done"}]
  /\ sent \in [Conns -> Nat]
  /\ answer \in [Conns -> {0, 200, 400, 413}]
  /\ shows \in [Conns -> {0, 1}]
  /\ serving \in Conns \cup {NoConn}
  /\ stage \in Server!Stages /\ (stage = "idle" <=> serving = NoConn)
  /\ total_received \in Nat
  /\ json = IF stage \in {"fields", "level", "show"} THEN 1 ELSE 0

(* How far a connection has come: nothing is known to its client before it *)
(* is done, and nothing is shown before the handler has come to its end.   *)
Course(k) ==
  /\ sent[k] <= Server!RequestOf(k).pieces
  /\ link[k] = "none" => sent[k] = 0
  /\ link[k] # "done" => answer[k] = 0
  /\ link[k] # "done" /\ serving # k => shows[k] = 0
  /\ shows[k] = 1 => Server!Valid(Server!RequestOf(k))
                     /\ sent[k] = Server!RequestOf(k).pieces
  /\ answer[k] = 200 => shows[k] = 1
  /\ answer[k] \in {400, 413} => ~ Server!Valid(Server!RequestOf(k))

(* What the handler knows of the request by where it is                    *)
Handled(k) ==
  /\ link[k] \in {"open", "gone"}
  /\ total_received <= sent[k]
  /\ stage # "recv" => /\ ~ Server!RequestOf(k).large
                       /\ total_received = Server!RequestOf(k).pieces
                       /\ sent[k] = Server!RequestOf(k).pieces
  /\ stage \in {"fields", "level", "show", "respond"} => Server!Parses(k)
  /\ stage \in {"level", "show", "respond"} => Server!RequestOf(k).strings
  /\ stage \in {"show", "respond"} => Server!parse_level(k)
  /\ shows[k] = IF stage = "respond" THEN 1 ELSE 0

(* A client posts again when it has left, or was hung up on, unanswered.   *)
OneAfterAnother ==
  \A k \in Conns : link[k] # "none" =>
    \A j \in Before(k) : link[j] \in {"gone", "done"} /\ answer[j] = 0

ServerInv ==
  /\ ServerTyped
  /\ \A k \in Conns : Course(k)
  /\ serving \in Conns => Handled(serving)
  /\ serving = NoConn => total_received = 0
  /\ OneAfterAnother

-----------------------------------------------------------------------------
(* Connections                                                             *)

LEMMA Connection ==
  ASSUME ServerTyped, NEW k \in Conns
  PROVE  /\ k[1] \in Clients /\ k[2] \in 1 .. Tries /\ k = <<k[1], k[2]>>
         /\ Server!RequestOf(k) \in Server!Request
         /\ Server!RequestOf(k).pieces \in Nat /\ Server!RequestOf(k).parses \in Nat
         /\ k # NoConn
<1>1. k \in Clients \X (1 .. Tries)
  BY DEF Conns, Server!Conns
<1>2. k[1] \in Clients /\ k[2] \in 1 .. Tries /\ k = <<k[1], k[2]>>
  BY <1>1
<1>3. Server!RequestOf(k) \in Server!Request
  BY <1>2 DEF ServerTyped, Server!RequestOf
<1>4. Server!RequestOf(k).pieces \in Nat /\ Server!RequestOf(k).parses \in Nat
  BY <1>3 DEF Server!Request
<1> QED BY <1>1, <1>2, <1>3, <1>4, ServerAssumption

(* Connections before another one are connections, none of them itself.    *)
LEMMA EarlierOnes ==
  ASSUME NEW k \in Conns, NEW j \in Before(k)
  PROVE  /\ j \in Conns /\ j # k /\ j[1] = k[1] /\ j[2] < k[2]
         /\ \A i \in Before(j) : i \in Before(k)
         /\ j[2] = k[2] - 1 \/ j \in Before(<<k[1], k[2] - 1>>)
<1>1. k[1] \in Clients /\ k[2] \in 1 .. Tries /\ k = <<k[1], k[2]>>
  BY DEF Conns, Server!Conns
<1>2. PICK n \in 1 .. k[2] - 1 : j = <<k[1], n>>
  BY DEF Before
<1>3. n \in 1 .. Tries /\ n < k[2] /\ Tries \in Nat
  BY <1>1, <1>2, ServerAssumption
<1>4. j[1] = k[1] /\ j[2] = n /\ j \in Conns
  BY <1>1, <1>2, <1>3 DEF Conns, Server!Conns
<1>5. ASSUME NEW i \in Before(j) PROVE i \in Before(k)
  <2>1. PICK m \in 1 .. n - 1 : i = <<k[1], m>>
    BY <1>4 DEF Before
  <2>2. m \in 1 .. k[2] - 1
    BY <1>1, <1>3, <2>1
  <2> QED BY <2>1, <2>2 DEF Before
<1>6. n = k[2] - 1 \/ j \in Before(<<k[1], k[2] - 1>>)
  <2>1. n # k[2] - 1 => n \in 1 .. (k[2] - 1) - 1
    BY <1>1, <1>2, <1>3
  <2> DEFINE l == k[2] - 1
  <2>2. <<k[1], l>>[1] = k[1] /\ <<k[1], l>>[2] = l
    OBVIOUS
  <2>3. n # l => n \in 1 .. l - 1
    BY <2>1
  <2> HIDE DEF l
  <2>4. n # l => j \in Before(<<k[1], l>>)
    BY <1>2, <2>2, <2>3 DEF Before
  <2> QED BY <2>4 DEF l
<1> QED BY <1>1, <1>3, <1>4, <1>5, <1>6

(* A connection nothing happens to                                         *)
LEMMA CourseKept ==
  ASSUME NEW j \in Conns, Course(j), wants' = wants,
         link'[j] = link[j], sent'[j] = sent[j], answer'[j] = answer[j],
         shows'[j] = shows[j], serving # j => serving' # j,
         serving = j => serving' = j
  PROVE  Course(j)'
BY DEF Course, Server!RequestOf, Server!Valid

(* Nobody begins, and who is out of it stays out.                          *)
LEMMA OrderKept ==
  ASSUME OneAfterAnother,
         \A i \in Conns : link'[i] # "none" => link[i] # "none",
         \A j \in Conns : link[j] \in {"gone", "done"} /\ answer[j] = 0
                          => link'[j] \in {"gone", "done"} /\ answer'[j] = 0
  PROVE  OneAfterAnother'
<1> SUFFICES ASSUME NEW i \in Conns, link'[i] # "none", NEW j \in Before(i)
             PROVE  link'[j] \in {"gone", "done"} /\ answer'[j] = 0
  BY DEF OneAfterAnother, Before
<1>1. j \in Conns
  BY EarlierOnes
<1>2. link[j] \in {"gone", "done"} /\ answer[j] = 0
  BY DEF OneAfterAnother
<1> QED BY <1>1, <1>2

-----------------------------------------------------------------------------
(* Clients and the network                                                 *)

LEMMA PostPreserves ==
  ASSUME ServerInv, NEW k \in Conns, Server!Post(k)
  PROVE  ServerInv'
<1>1. /\ ServerTyped /\ (\A j \in Conns : Course(j)) /\ OneAfterAnother
      /\ serving \in Conns => Handled(serving)
  BY DEF ServerInv
<1>2. /\ link[k] = "none" /\ link' = [link EXCEPT ![k] = "open"]
      /\ k[2] > 1 => link[<<k[1], k[2] - 1>>] \in {"gone", "done"}
                     /\ \A n \in 1 .. k[2] - 1 : answer[<<k[1], n>>] = 0
      /\ UNCHANGED <<wants, sent, answer, serving, stage, total_received, json, shows>>
  BY DEF Server!Post, Server!handler
<1>3. /\ link' \in [Conns -> {"none", "open", "gone", "done"}] /\ link'[k] = "open"
      /\ \A j \in Conns : j # k => link'[j] = link[j]
  BY <1>1, <1>2 DEF ServerTyped
<1>4. ServerTyped'
  BY <1>1, <1>2, <1>3 DEF ServerTyped
<1>5. serving # k
  BY <1>1, <1>2 DEF Handled
<1>6. ASSUME NEW j \in Conns PROVE Course(j)'
  <2>1. CASE j = k
    BY <1>1, <1>2, <1>3, <1>5, <2>1
       DEF Course, ServerTyped, Server!RequestOf, Server!Valid
  <2>2. CASE j # k
    BY <1>1, <1>2, <1>3, <2>2, CourseKept
  <2> QED BY <2>1, <2>2
<1>7. serving' \in Conns => Handled(serving)'
  BY <1>1, <1>2, <1>3, <1>5
     DEF Handled, Server!RequestOf, Server!Parses, Server!parse_level
<1>8. OneAfterAnother'
  <2> SUFFICES ASSUME NEW i \in Conns, link'[i] # "none", NEW j \in Before(i)
               PROVE  link'[j] \in {"gone", "done"} /\ answer'[j] = 0
    BY DEF OneAfterAnother, Before
  <2>1. j \in Conns /\ j # i
    BY EarlierOnes
  <2>2. CASE i # k
    <3>1. link[i] # "none"
      BY <1>3, <2>2
    <3>2. link[j] \in {"gone", "done"} /\ answer[j] = 0
      BY <1>1, <3>1 DEF OneAfterAnother
    <3>3. j # k
      BY <1>2, <3>2
    <3> QED BY <1>2, <1>3, <2>1, <3>2, <3>3
  <2>3. CASE i = k
    <3>1. k[1] \in Clients /\ k[2] \in 1 .. Tries /\ Tries \in Nat
      BY <1>1, Connection, ServerAssumption
    <3>2. PICK n \in 1 .. k[2] - 1 : j = <<k[1], n>>
      BY <2>3 DEF Before
    <3>3. k[2] > 1 /\ k[2] - 1 \in 1 .. Tries
      BY <3>1, <3>2
    <3>4. answer[j] = 0 /\ link[<<k[1], k[2] - 1>>] \in {"gone", "done"}
      BY <1>2, <3>2, <3>3
    <3>5. <<k[1], k[2] - 1>> \in Conns
      BY <3>1, <3>3 DEF Conns, Server!Conns
    <3>6. link[j] \in {"gone", "done"}
      <4>1. CASE j[2] = k[2] - 1
        <5>1. j = <<k[1], k[2] - 1>>
          BY <3>2, <4>1
        <5> QED BY <3>4, <5>1
      <4>2. CASE j \in Before(<<k[1], k[2] - 1>>)
        BY <1>1, <3>4, <3>5, <4>2 DEF OneAfterAnother
      <4> QED BY <2>3, <4>1, <4>2, EarlierOnes
    <3> QED BY <1>2, <1>3, <2>1, <2>3, <3>4, <3>6
  <2> QED BY <2>2, <2>3
<1> QED BY <1>1, <1>2, <1>4, <1>6, <1>7, <1>8 DEF ServerInv

LEMMA ArrivePreserves ==
  ASSUME ServerInv, NEW k \in Conns, Server!Arrive(k)
  PROVE  ServerInv'
<1>1. /\ ServerTyped /\ (\A j \in Conns : Course(j)) /\ OneAfterAnother
      /\ serving \in Conns => Handled(serving)
  BY DEF ServerInv
<1>2. /\ link[k] = "open" /\ sent[k] < Server!RequestOf(k).pieces
      /\ sent' = [sent EXCEPT ![k] = @ + 1]
      /\ UNCHANGED <<wants, link, answer, serving, stage, total_received, json, shows>>
  BY DEF Server!Arrive, Server!handler
<1>3. Server!RequestOf(k).pieces \in Nat
  BY <1>1, Connection
<1>4. /\ sent' \in [Conns -> Nat] /\ sent'[k] = sent[k] + 1 /\ sent[k] \in Nat
      /\ \A j \in Conns : j # k => sent'[j] = sent[j]
  BY <1>1, <1>2 DEF ServerTyped
<1>5. ServerTyped'
  BY <1>1, <1>2, <1>4 DEF ServerTyped
<1>6. sent'[k] <= Server!RequestOf(k).pieces /\ sent[k] # Server!RequestOf(k).pieces
  BY <1>2, <1>3, <1>4
<1>7. ASSUME NEW j \in Conns PROVE Course(j)'
  <2>1. CASE j = k
    <3>1. shows[k] # 1
      BY <1>1, <1>6 DEF Course
    <3> QED BY <1>1, <1>2, <1>6, <2>1, <3>1 DEF Course, Server!RequestOf, Server!Valid
  <2>2. CASE j # k
    BY <1>1, <1>2, <1>4, <2>2, CourseKept
  <2> QED BY <2>1, <2>2
<1>8. serving' \in Conns => Handled(serving)'
  <2>1. CASE serving = k
    <3>1. Handled(k) /\ stage = "recv"
      BY <1>1, <1>6, <2>1 DEF Handled
    <3>2. total_received <= sent'[k]
      BY <1>1, <1>4, <3>1 DEF Handled, ServerTyped
    <3> QED BY <1>2, <2>1, <3>1, <3>2
            DEF Handled, Server!RequestOf, Server!Parses, Server!parse_level
  <2>2. CASE serving # k
    BY <1>1, <1>2, <1>4, <2>2
       DEF Handled, Server!RequestOf, Server!Parses, Server!parse_level
  <2> QED BY <2>1, <2>2
<1>9. OneAfterAnother'
  BY <1>1, <1>2, OrderKept
<1> QED BY <1>1, <1>2, <1>5, <1>7, <1>8, <1>9 DEF ServerInv

LEMMA LeavePreserves ==
  ASSUME ServerInv, NEW k \in Conns, Server!Leave(k)
  PROVE  ServerInv'
<1>1. /\ ServerTyped /\ (\A j \in Conns : Course(j)) /\ OneAfterAnother
      /\ serving \in Conns => Handled(serving)
  BY DEF ServerInv
<1>2. /\ link[k] = "open" /\ link' = [link EXCEPT ![k] = "gone"]
      /\ UNCHANGED <<wants, sent, answer, serving, stage, total_received, json, shows>>
  BY DEF Server!Leave, Server!handler
<1>3. /\ link' \in [Conns -> {"none", "open", "gone", "done"}] /\ link'[k] = "gone"
      /\ \A j \in Conns : j # k => link'[j] = link[j]
  BY <1>1, <1>2 DEF ServerTyped
<1>4. ServerTyped'
  BY <1>1, <1>2, <1>3 DEF ServerTyped
<1>5. ASSUME NEW j \in Conns PROVE Course(j)'
  <2>1. CASE j = k
    BY <1>1, <1>2, <1>3, <2>1 DEF Course, Server!RequestOf, Server!Valid
  <2>2. CASE j # k
    BY <1>1, <1>2, <1>3, <2>2, CourseKept
  <2> QED BY <2>1, <2>2
<1>6. serving' \in Conns => Handled(serving)'
  BY <1>1, <1>2, <1>3 DEF Handled, Server!RequestOf, Server!Parses, Server!parse_level
<1>7. OneAfterAnother'
  BY <1>1, <1>2, <1>3, OrderKept
<1> QED BY <1>1, <1>2, <1>4, <1>5, <1>6, <1>7 DEF ServerInv

-----------------------------------------------------------------------------
(* The server task                                                         *)

LEMMA AcceptPreserves ==
  ASSUME ServerInv, NEW k \in Conns, Server!Accept(k)
  PROVE  ServerInv'
<1>1. /\ ServerTyped /\ (\A j \in Conns : Course(j)) /\ OneAfterAnother
      /\ serving = NoConn => total_received = 0
  BY DEF ServerInv
<1>2. /\ serving = NoConn /\ link[k] \in {"open", "gone"}
      /\ serving' = k /\ stage' = "recv"
      /\ UNCHANGED <<wants, link, sent, answer, total_received, json, shows>>
  BY DEF Server!Accept, Server!net
<1>3. k # NoConn /\ sent[k] \in Nat
  BY <1>1, Connection DEF ServerTyped
<1>4. ServerTyped'
  BY <1>1, <1>2, <1>3 DEF ServerTyped, Server!Stages
<1>5. ASSUME NEW j \in Conns PROVE Course(j)'
  <2>1. Course(j) /\ serving # j /\ j # NoConn
    BY <1>1, <1>2, Connection
  <2>2. shows'[j] = 0 \/ link'[j] = "done"
    BY <1>2, <2>1 DEF Course
  <2> QED BY <1>2, <2>1, <2>2 DEF Course, Server!RequestOf, Server!Valid
<1>6. Handled(k)'
  <2>1. shows[k] = 0
    BY <1>1, <1>2, <1>3 DEF Course
  <2>2. 0 <= sent[k]
    BY <1>3
  <2> QED BY <1>1, <1>2, <2>1, <2>2 DEF Handled
<1>7. OneAfterAnother'
  BY <1>1, <1>2, OrderKept
<1> QED BY <1>2, <1>3, <1>4, <1>5, <1>6, <1>7 DEF ServerInv

(* The handler returns: with 200 after it has shown the notification, with *)
(* an error when the notification is wrong, with nothing when it is not    *)
(* all there.                                                              *)
LEMMA ReturnPreserves ==
  ASSUME ServerInv, NEW k \in Conns, serving = k, NEW status \in {0, 200, 400, 413},
         Server!Return(k, status), json' = 0,
         status = 200 => stage = "respond",
         status \in {400, 413} => ~ Server!Valid(Server!RequestOf(k))
  PROVE  ServerInv'
<1>1. /\ ServerTyped /\ (\A j \in Conns : Course(j)) /\ OneAfterAnother /\ Handled(k)
  BY DEF ServerInv
<1>2. /\ answer' = IF link[k] = "open" THEN [answer EXCEPT ![k] = status] ELSE answer
      /\ link' = [link EXCEPT ![k] = "done"]
      /\ serving' = NoConn /\ stage' = "idle" /\ total_received' = 0
      /\ UNCHANGED <<wants, sent, shows>>
  BY DEF Server!Return
<1>3. /\ link' \in [Conns -> {"none", "open", "gone", "done"}]
      /\ link'[k] = "done" /\ link[k] \in {"open", "gone"}
      /\ answer' \in [Conns -> {0, 200, 400, 413}]
      /\ answer[k] = 0 /\ answer'[k] \in {0, status}
      /\ link[k] = "gone" => answer' = answer
      /\ \A j \in Conns : j # k => link'[j] = link[j] /\ answer'[j] = answer[j]
  BY <1>1, <1>2 DEF ServerTyped, Handled, Course
<1>4. k # NoConn
  BY <1>1, Connection
<1>5. ServerTyped'
  BY <1>1, <1>2, <1>3 DEF ServerTyped, Server!Stages
<1>6. ASSUME NEW j \in Conns PROVE Course(j)'
  <2>1. CASE j = k
    <3>1. status = 200 => shows[k] = 1
      BY <1>1 DEF Handled
    <3> QED BY <1>1, <1>2, <1>3, <2>1, <3>1 DEF Course, Server!RequestOf, Server!Valid
  <2>2. CASE j # k
    BY <1>1, <1>2, <1>3, <2>2 DEF Course, Server!RequestOf, Server!Valid
  <2> QED BY <2>1, <2>2
<1>7. OneAfterAnother'
  BY <1>1, <1>2, <1>3, OrderKept
<1>8. serving' \notin Conns
  BY <1>2, ServerAssumption DEF Conns, Server!Conns
<1> QED BY <1>2, <1>5, <1>6, <1>7, <1>8 DEF ServerInv

(* The handler goes on to its next stage.                                  *)
LEMMA StagePreserves ==
  ASSUME ServerInv, NEW k \in Conns, serving = k,
         UNCHANGED <<wants, link, sent, answer, serving, shows>>,
         stage' \in Server!Stages \ {"idle"}, total_received' \in Nat,
         json' = IF stage' \in {"fields", "level", "show"} THEN 1 ELSE 0,
         Handled(k)'
  PROVE  ServerInv'
<1>1. /\ ServerTyped /\ (\A j \in Conns : Course(j)) /\ OneAfterAnother
  BY DEF ServerInv
<1>2. k # NoConn
  BY <1>1, Connection
<1>3. ServerTyped'
  BY <1>1, <1>2 DEF ServerTyped
<1>4. \A j \in Conns : Course(j)'
  BY <1>1, CourseKept
<1>5. OneAfterAnother'
  BY <1>1, OrderKept
<1> QED BY <1>2, <1>3, <1>4, <1>5 DEF ServerInv

LEMMA HandlerPreserves ==
  ASSUME ServerInv, NEW k \in Conns, Server!message_post_handler(k)
  PROVE  ServerInv'
<1>1. serving = k
  BY DEF Server!message_post_handler, Server!Working, Server!TooLarge, Server!Receive,
         Server!ReceiveFails, Server!ReceivedAll, Server!Parse, Server!InvalidJSON,
         Server!FieldsOK, Server!MissingFields, Server!LevelOK, Server!InvalidLevel,
         Server!Handle, Server!Respond
<1>2. ServerTyped /\ Handled(k) /\ Course(k)
  BY <1>1 DEF ServerInv
<1>3. /\ Server!RequestOf(k).pieces \in Nat /\ sent[k] \in Nat
      /\ total_received \in Nat /\ sent[k] <= Server!RequestOf(k).pieces
      /\ total_received <= sent[k]
  BY <1>2, Connection DEF ServerTyped, Course, Handled
<1>4. json = IF stage \in {"fields", "level", "show"} THEN 1 ELSE 0
  BY <1>2 DEF ServerTyped
<1>5. CASE Server!TooLarge(k)
  <2>1. Server!Return(k, 413) /\ json' = 0 /\ ~ Server!Valid(Server!RequestOf(k))
    BY <1>4, <1>5 DEF Server!TooLarge, Server!Working, Server!Valid
  <2> QED BY <1>1, <2>1, ReturnPreserves
<1>6. CASE Server!Receive(k)
  <2>1. /\ stage = "recv" /\ stage' = stage /\ json' = json
        /\ total_received' \in total_received + 1 .. sent[k]
        /\ UNCHANGED <<wants, link, sent, answer, serving, shows>>
    BY <1>6 DEF Server!Receive, Server!Working, Server!net
  <2>2. total_received' \in Nat /\ total_received' <= sent[k]
    BY <1>3, <2>1
  <2>3. Handled(k)'
    BY <1>2, <2>1, <2>2
       DEF Handled, Server!RequestOf, Server!Parses, Server!parse_level
  <2> QED BY <1>1, <1>4, <2>1, <2>2, <2>3, StagePreserves DEF Server!Stages
<1>7. CASE Server!ReceiveFails(k)
  <2>1. Server!Return(k, 0) /\ json' = 0
    BY <1>4, <1>7 DEF Server!ReceiveFails, Server!Working
  <2> QED BY <1>1, <2>1, ReturnPreserves
<1>8. CASE Server!ReceivedAll(k)
  <2>1. /\ stage = "recv" /\ stage' = "parse" /\ json' = json
        /\ ~ Server!RequestOf(k).large
        /\ ~ (total_received < Server!RequestOf(k).pieces)
        /\ UNCHANGED <<wants, link, sent, answer, serving, total_received, shows>>
    BY <1>8 DEF Server!ReceivedAll, Server!Working, Server!Incomplete, Server!net
  <2>2. total_received = Server!RequestOf(k).pieces
        /\ sent[k] = Server!RequestOf(k).pieces
    BY <1>3, <2>1
  <2>3. Handled(k)'
    BY <1>2, <2>1, <2>2
       DEF Handled, Server!RequestOf, Server!Parses, Server!parse_level
  <2> QED BY <1>1, <1>3, <1>4, <2>1, <2>3, StagePreserves DEF Server!Stages
<1>9. CASE Server!Parse(k)
  <2>1. /\ stage = "parse" /\ stage' = "fields" /\ json' = json + 1
        /\ Server!Parses(k)
        /\ UNCHANGED <<wants, link, sent, answer, serving, total_received, shows>>
    BY <1>9 DEF Server!Parse, Server!Working, Server!net
  <2>2. Handled(k)'
    BY <1>2, <2>1 DEF Handled, Server!RequestOf, Server!Parses, Server!parse_level
  <2> QED BY <1>1, <1>3, <1>4, <2>1, <2>2, StagePreserves DEF Server!Stages
<1>10. CASE Server!InvalidJSON(k)
  <2>1. stage = "parse" /\ Server!Return(k, 400) /\ json' = 0 /\ ~ Server!Parses(k)
    BY <1>4, <1>10 DEF Server!InvalidJSON, Server!Working
  <2>2. ~ Server!Valid(Server!RequestOf(k))
    BY <1>2, <2>1 DEF Handled, Server!Parses, Server!Valid
  <2> QED BY <1>1, <2>1, <2>2, ReturnPreserves
<1>11. CASE Server!FieldsOK(k)
  <2>1. /\ stage = "fields" /\ stage' = "level" /\ json' = json
        /\ Server!RequestOf(k).strings
        /\ UNCHANGED <<wants, link, sent, answer, serving, total_received, shows>>
    BY <1>11 DEF Server!FieldsOK, Server!Working, Server!net
  <2>2. Handled(k)'
    BY <1>2, <2>1 DEF Handled, Server!RequestOf, Server!Parses, Server!parse_level
  <2> QED BY <1>1, <1>3, <1>4, <2>1, <2>2, StagePreserves DEF Server!Stages
<1>12. CASE Server!MissingFields(k)
  <2>1. stage = "fields" /\ Server!Return(k, 400) /\ json' = json - 1
        /\ ~ Server!RequestOf(k).strings
    BY <1>12 DEF Server!MissingFields, Server!Working
  <2>2. json' = 0 /\ ~ Server!Valid(Server!RequestOf(k))
    BY <1>4, <2>1 DEF Server!Valid
  <2>3. Server!Return(k, 400)
    BY <2>1
  <2> QED BY <1>1, <2>2, <2>3, ReturnPreserves
<1>13. CASE Server!LevelOK(k)
  <2>1. /\ stage = "level" /\ stage' = "show" /\ json' = json
        /\ Server!parse_level(k)
        /\ UNCHANGED <<wants, link, sent, answer, serving, total_received, shows>>
    BY <1>13 DEF Server!LevelOK, Server!Working, Server!net
  <2>2. Handled(k)'
    BY <1>2, <2>1 DEF Handled, Server!RequestOf, Server!Parses, Server!parse_level
  <2> QED BY <1>1, <1>3, <1>4, <2>1, <2>2, StagePreserves DEF Server!Stages
<1>14. CASE Server!InvalidLevel(k)
  <2>1. stage = "level" /\ Server!Return(k, 400) /\ json' = json - 1
        /\ ~ Server!parse_level(k)
    BY <1>14 DEF Server!InvalidLevel, Server!Working
  <2>2. Server!RequestOf(k) \in Server!Request
    BY <1>2, Connection
  <2>3. Server!RequestOf(k).level \in {"INFO", "WARNING", "ATTENTION", "other"}
    BY <2>2 DEF Server!Request
  <2>4. json' = 0 /\ ~ Server!Valid(Server!RequestOf(k))
    BY <1>4, <2>1, <2>3 DEF Server!Valid, Server!parse_level
  <2>5. Server!Return(k, 400)
    BY <2>1
  <2> QED BY <1>1, <2>4, <2>5, ReturnPreserves
<1>15. CASE Server!Handle(k)
  <2>1. /\ stage = "show" /\ stage' = "respond" /\ json' = json - 1
        /\ shows' = [shows EXCEPT ![k] = @ + 1]
        /\ UNCHANGED <<wants, link, sent, answer, serving, total_received>>
    BY <1>15 DEF Server!Handle, Server!Working, Server!net
  <2>2. /\ shows[k] = 0 /\ shows' \in [Conns -> {0, 1}] /\ shows'[k] = 1
        /\ \A j \in Conns : j # k => shows'[j] = shows[j]
    BY <1>2, <2>1 DEF ServerTyped, Handled
  <2>3. Server!Valid(Server!RequestOf(k)) /\ sent[k] = Server!RequestOf(k).pieces
    BY <1>2, <2>1 DEF Handled, Server!Valid, Server!Parses, Server!parse_level
  <2>4. k # NoConn
    BY <1>2, Connection
  <2>5. ServerTyped'
    BY <1>2, <1>4, <2>1, <2>2 DEF ServerTyped, Server!Stages
  <2>6. ASSUME NEW j \in Conns PROVE Course(j)'
    <3>1. Course(j)
      BY DEF ServerInv
    <3>2. CASE j = k
      <4>1. link[k] # "done" /\ answer[k] = 0
        BY <1>2, <3>1, <3>2 DEF Handled, Course
      <4> QED BY <1>1, <2>1, <2>2, <2>3, <3>1, <3>2, <4>1
              DEF Course, Server!RequestOf, Server!Valid
    <3>3. CASE j # k
      BY <2>1, <2>2, <3>1, <3>3, CourseKept
    <3> QED BY <3>2, <3>3
  <2>7. Handled(k)'
    BY <1>2, <2>1, <2>2 DEF Handled, Server!RequestOf, Server!Parses, Server!parse_level
  <2>8. OneAfterAnother'
    BY <2>1, OrderKept DEF ServerInv
  <2> QED BY <1>1, <2>1, <2>4, <2>5, <2>6, <2>7, <2>8 DEF ServerInv
<1>16. CASE Server!Respond(k)
  <2>1. stage = "respond" /\ Server!Return(k, 200) /\ json' = 0
    BY <1>4, <1>16 DEF Server!Respond, Server!Working
  <2> QED BY <1>1, <2>1, ReturnPreserves
<1> QED BY <1>5, <1>6, <1>7, <1>8, <1>9, <1>10, <1>11, <1>12, <1>13, <1>14, <1>15, <1>16
        DEF Server!message_post_handler

-----------------------------------------------------------------------------
(* The invariant                                                           *)

LEMMA ServerInitial ==
  ASSUME Server!Init
  PROVE  ServerInv
<1>1. /\ \A c \in Clients : wants[c] \in Requests[c]
      /\ wants \in [Clients -> UNION {Requests[c] : c \in Clients}]
      /\ link = [k \in Conns |-> "none"] /\ sent = [k \in Conns |-> 0]
      /\ answer = [k \in Conns |-> 0] /\ shows = [k \in Conns |-> 0]
      /\ serving = NoConn /\ stage = "idle" /\ total_received = 0 /\ json = 0
  BY DEF Server!Init, Conns
<1>2. wants \in [Clients -> Server!Request]
  BY <1>1, ServerAssumption
<1>3. NoConn \notin Conns
  BY ServerAssumption DEF Conns, Server!Conns
<1>4. ServerTyped
  BY <1>1, <1>2 DEF ServerTyped, Server!Stages
<1>5. ASSUME NEW k \in Conns PROVE Course(k)
  <2>1. Server!RequestOf(k).pieces \in Nat
    BY <1>4, Connection
  <2>2. 0 <= Server!RequestOf(k).pieces
    BY <2>1
  <2> QED BY <1>1, <2>2 DEF Course
<1>6. OneAfterAnother
  BY <1>1 DEF OneAfterAnother
<1> QED BY <1>1, <1>3, <1>4, <1>5, <1>6 DEF ServerInv

LEMMA ServerKept ==
  ASSUME ServerInv, UNCHANGED server
  PROVE  ServerInv'
<1>1. UNCHANGED <<wants, link, sent, answer, serving, stage, total_received, json, shows>>
  BY DEF server
<1>2. /\ ServerTyped /\ (\A j \in Conns : Course(j)) /\ OneAfterAnother
      /\ serving \in Conns => Handled(serving)
      /\ serving = NoConn => total_received = 0
  BY DEF ServerInv
<1>3. ServerTyped'
  BY <1>1, <1>2 DEF ServerTyped
<1>4. \A j \in Conns : Course(j)'
  BY <1>1, <1>2, CourseKept
<1>5. OneAfterAnother'
  BY <1>1, <1>2, OrderKept
<1>6. serving' \in Conns => Handled(serving)'
  BY <1>1, <1>2 DEF Handled, Server!RequestOf, Server!Parses, Server!parse_level
<1> QED BY <1>1, <1>2, <1>3, <1>4, <1>5, <1>6 DEF ServerInv

LEMMA ServerPreserved ==
  ASSUME ServerInv, Server!Next \/ UNCHANGED server
  PROVE  ServerInv'
<1>1. CASE Server!Next
  <2>1. PICK k \in Conns : Server!Post(k) \/ Server!Arrive(k) \/ Server!Leave(k)
                             \/ Server!Accept(k) \/ Server!message_post_handler(k)
    BY <1>1 DEF Server!Next, Conns
  <2> QED BY <2>1, PostPreserves, ArrivePreserves, LeavePreserves, AcceptPreserves,
             HandlerPreserves
<1>2. CASE UNCHANGED server
  BY <1>2, ServerKept
<1> QED BY <1>1, <1>2

-----------------------------------------------------------------------------
(* What follows from it                                                    *)

LEMMA SameCount ==
  ASSUME NEW S
  PROVE  Server!Cardinality(S) = Cardinality(S)
BY DEF Server!Cardinality, Cardinality

(* Of the connections a client has opened all but the last one have gone   *)
(* unanswered, and each shows at most once.                                *)
LEMMA RepeatsCounted ==
  ASSUME ServerInv
  PROVE  Server!RepeatsAreRetries
<1> SUFFICES ASSUME NEW c \in Clients
             PROVE  Server!Cardinality({p \in (1 .. Tries) \X (1 .. 2 * Tries) :
                                          p[2] <= shows[<<c, p[1]>>]})
                      <= 1 + Server!Cardinality({n \in 1 .. Tries :
                                                   /\ link[<<c, n>>] # "none"
                                                   /\ answer[<<c, n>>] = 0})
  BY DEF Server!RepeatsAreRetries
<1> DEFINE shown == {p \in (1 .. Tries) \X (1 .. 2 * Tries) :
                       p[2] <= shows[<<c, p[1]>>]}
           opened == {n \in 1 .. Tries : link[<<c, n>>] # "none"}
           unanswered == {n \in 1 .. Tries : /\ link[<<c, n>>] # "none"
                                             /\ answer[<<c, n>>] = 0}
<1>1. /\ ServerTyped /\ (\A j \in Conns : Course(j)) /\ OneAfterAnother
      /\ serving \in Conns => Handled(serving)
      /\ Tries \in Nat
  BY ServerAssumption DEF ServerInv
<1>2. \A n \in 1 .. Tries : <<c, n>> \in Conns
  BY DEF Conns, Server!Conns
<1>3. IsFiniteSet(1 .. Tries)
  <2>1. 1 \in Int /\ Tries \in Int
    BY <1>1
  <2> QED BY <2>1, FS_Interval
<1>4. IsFiniteSet(opened) /\ IsFiniteSet(unanswered)
  BY <1>3, FS_Subset
<1>5. ASSUME NEW p \in shown
      PROVE  p[1] \in opened /\ p = <<p[1], 1>>
  <2>1. p[1] \in 1 .. Tries /\ p[2] \in 1 .. 2 * Tries /\ p = <<p[1], p[2]>>
        /\ p[2] <= shows[<<c, p[1]>>]
    OBVIOUS
  <2> DEFINE k == <<c, p[1]>>
  <2>2. k \in Conns /\ shows[k] \in {0, 1} /\ p[2] <= shows[k]
    BY <1>1, <1>2, <2>1 DEF ServerTyped
  <2>3. p[2] = 1 /\ shows[k] = 1
    BY <1>1, <2>1, <2>2
  <2>4. link[k] # "none"
    BY <1>1, <2>2, <2>3 DEF Course, Handled
  <2> QED BY <2>1, <2>3, <2>4
<1>6. /\ IsFiniteSet(shown) /\ Cardinality(shown) <= Cardinality(opened)
  <2> DEFINE image == {<<n, 1>> : n \in opened}
             f == [n \in opened |-> <<n, 1>>]
  <2>1. shown \subseteq image
    BY <1>5
  <2> HIDE DEF shown, opened
  <2>2. IsFiniteSet(image) /\ Cardinality(image) <= Cardinality(opened)
    <3>1. f \in Surjection(opened, image)
      BY DEF Surjection
    <3> HIDE DEF f, image
    <3> QED BY <1>4, <3>1, FS_Surjection
  <2>3. shown \subseteq image
    BY <2>1
  <2> HIDE DEF image
  <2>4. IsFiniteSet(shown) /\ Cardinality(shown) <= Cardinality(image)
    BY <2>2, <2>3, FS_Subset
  <2>5. Cardinality(shown) \in Nat /\ Cardinality(image) \in Nat
        /\ Cardinality(opened) \in Nat
    BY <1>4, <2>2, <2>4, FS_CardinalityType
  <2> QED BY <2>2, <2>4, <2>5
<1>7. ASSUME NEW m \in opened, NEW n \in opened, m # n
      PROVE  m \in unanswered \/ n \in unanswered
  <2>1. ASSUME NEW i \in opened, NEW j \in opened, i < j PROVE i \in unanswered
    <3>1. <<c, j>> \in Conns /\ link[<<c, j>>] # "none"
      BY <1>2
    <3>2. i \in 1 .. j - 1
      BY <1>1, <2>1
    <3>3. <<c, i>> \in Before(<<c, j>>)
      BY <3>2 DEF Before
    <3>4. answer[<<c, i>>] = 0
      BY <1>1, <3>1, <3>3 DEF OneAfterAnother
    <3> QED BY <3>4
  <2>2. m < n \/ n < m
    BY <1>7
  <2> QED BY <2>1, <2>2
<1>8. Cardinality(opened) <= 1 + Cardinality(unanswered)
  <2>1. unanswered \subseteq opened
    OBVIOUS
  <2> HIDE DEF opened, unanswered
  <2>2. Cardinality(unanswered) \in Nat /\ Cardinality(opened) \in Nat
    BY <1>4, FS_CardinalityType
  <2>3. CASE opened = unanswered
    BY <2>2, <2>3
  <2>4. CASE opened # unanswered
    <3>1. PICK x \in opened : x \notin unanswered
      BY <2>1, <2>4
    <3>2. opened = unanswered \cup {x}
      BY <1>7, <2>1, <3>1
    <3>3. Cardinality(unanswered \cup {x}) = Cardinality(unanswered) + 1
      BY <1>4, <3>1, FS_AddElement
    <3> QED BY <2>2, <3>2, <3>3
  <2> QED BY <2>3, <2>4
<1>9. Cardinality(shown) \in Nat /\ Cardinality(opened) \in Nat
      /\ Cardinality(unanswered) \in Nat
  BY <1>4, <1>6, FS_CardinalityType
<1> HIDE DEF opened
<1>10. Cardinality(shown) <= 1 + Cardinality(unanswered)
  BY <1>6, <1>8, <1>9
<1>11. Server!Cardinality(shown) <= 1 + Server!Cardinality(unanswered)
  <2> HIDE DEF shown, unanswered
  <2> QED BY <1>10, SameCount
<1> QED BY <1>11

LEMMA ShownFromInvariant ==
  ASSUME ServerInv
  PROVE  ShownAsAsked
<1>1. ServerTyped /\ \A k \in Conns : Course(k)
  BY DEF ServerInv
<1>2. Server!ShownWhole
  BY <1>1 DEF Server!ShownWhole, Course, ServerTyped, Conns
<1>3. Server!AnswerTrue
  <2> SUFFICES ASSUME NEW k \in Conns
               PROVE  /\ answer[k] = 200 => shows[k] > 0
                      /\ answer[k] \in {400, 413} =>
                           ~ Server!Valid(Server!RequestOf(k))
                           /\ \A n \in 1 .. Tries : shows[<<k[1], n>>] = 0
    BY DEF Server!AnswerTrue, Conns
  <2>1. answer[k] = 200 => shows[k] > 0
    BY <1>1 DEF Course
  <2>2. ASSUME answer[k] \in {400, 413} PROVE ~ Server!Valid(Server!RequestOf(k))
    BY <1>1, <2>2 DEF Course
  <2>3. ASSUME answer[k] \in {400, 413}, NEW n \in 1 .. Tries
        PROVE  shows[<<k[1], n>>] = 0
    <3> DEFINE j == <<k[1], n>>
    <3>1. j \in Conns /\ j[1] = k[1]
      BY <1>1, Connection DEF Conns, Server!Conns
    <3>2. Server!RequestOf(j) = Server!RequestOf(k)
      BY <3>1 DEF Server!RequestOf
    <3> HIDE DEF j
    <3>3. shows[j] # 1 /\ shows[j] \in {0, 1}
      BY <1>1, <2>2, <2>3, <3>1, <3>2 DEF Course, ServerTyped
    <3> QED BY <3>3 DEF j
  <2> QED BY <2>1, <2>2, <2>3
<1>4. Server!TreeHeld
  BY <1>1 DEF Server!TreeHeld, ServerTyped
<1> QED BY <1>2, <1>3, <1>4, RepeatsCounted DEF ShownAsAsked

LEMMA TypesFromInvariant ==
  ASSUME ServerInv
  PROVE  Server!TypeOK
<1>1. ServerTyped /\ (\A k \in Conns : Course(k))
      /\ (serving \in Conns => Handled(serving))
  BY DEF ServerInv
<1>2. shows \in [Conns -> Nat] /\ json \in Nat
  BY <1>1 DEF ServerTyped
<1>3. ASSUME NEW k \in Conns PROVE sent[k] \in 0 .. Server!RequestOf(k).pieces
  BY <1>1, Connection DEF ServerTyped, Course
<1>4. serving \in Conns => total_received \in 0 .. sent[serving]
  BY <1>1 DEF ServerTyped, Handled
<1> QED BY <1>1, <1>2, <1>3, <1>4 DEF Server!TypeOK, ServerTyped, Conns

(* For every number of clients, of posts and of pieces of a body: the       *)
(* invariant of the server, http_server.c:40-125.                           *)
THEOREM ServerInvariance == Server!Spec => []ServerInv
<1>1. Server!Init => ServerInv
  BY ServerInitial
<1>2. ServerInv /\ [Server!Next]_(Server!vars) => ServerInv'
  BY ServerPreserved DEF Server!vars, Server!net, Server!handler, server
<1> QED BY <1>1, <1>2, PTL DEF Server!Spec

(* What is shown is a whole valid notification, every answer is true, each  *)
(* showing beyond the first is paid for by a post that went unanswered, and *)
(* no tree is left behind (ShownAsAsked, http_server.c:44-125).             *)
THEOREM WhatIsShown == Server!Spec => []ShownAsAsked
<1>1. ServerInv => ShownAsAsked
  BY ShownFromInvariant
<1> QED BY <1>1, ServerInvariance, PTL

-----------------------------------------------------------------------------
(* The display: oled.c                                                     *)

Bytes == Display!init_sequence

(* Places in the sequence of the commands that take the byte after them    *)
Begins == {2, 4, 6, 9, 13, 15, 17, 19}

DisplayTyped ==
  /\ oled_buffer = [i \in Display!Cells |-> oled_buffer[i]]
  /\ ram = [p \in Display!Pages |-> ram[p]]
  /\ \A p \in Display!Pages : ram[p] = [c \in Display!RamColumns |-> ram[p][c]]
  /\ chip \in [page : Display!Pages, column : Nat, dc : {0, 1}, on : {0, 1},
               begun : Display!TwoByte \cup {0}, set : [Display!TwoByte -> Nat]]
  /\ at \in {<<"reset">>, <<"ready">>} \cup ({"init"} \X (1 .. 24))
            \cup ({"flush"} \X Display!Pages \X {"page", "low", "high", "data"})
  /\ restarts \in Nat

(* The chip has taken the bytes before place i as commands and parameters. *)
HasRead(i, ch) ==
  /\ ch.begun = IF i - 1 \in Begins THEN Bytes[i - 1] ELSE 0
  /\ \A j \in Begins : j + 1 < i => ch.set[Bytes[j]] = Bytes[j + 1]
SequenceRead ==
  /\ at[1] = "init" => chip.on = 0 /\ HasRead(at[2], chip)
  /\ at[1] \in {"ready", "flush"} \/ chip.on = 1 => HasRead(24, chip)

(* The pages before the one that is being sent are on the panel, and the   *)
(* chip's pointers are where the transfers so far have put them.           *)
SentSoFar ==
  at[1] = "flush" =>
    /\ \A q \in 0 .. at[2] - 1 : Display!Panel(q) = Display!Row(q)
    /\ at[3] # "page" => chip.page = at[2]
    /\ at[3] = "high" => chip.column % 16 = 2
    /\ at[3] = "data" => chip.column = 2

DisplayInv == DisplayTyped /\ SequenceRead /\ SentSoFar

LEMMA DisplaySize ==
  /\ OLED_WIDTH \in Nat \ {0} /\ OLED_PAGES \in 1 .. 8
  /\ PageRows \in Nat \ {0} /\ ByteRange \in Nat \ {0}
  /\ GLYPH_WIDTH \in Nat /\ ColumnOffset = 2
  /\ Texts \subseteq Seq(Glyphs \cup {NoGlyph})
BY DisplayAssumption

(* The sequence as a chip reads it                                         *)
LEMMA Sequence ==
  /\ Len(Bytes) = 23
  /\ \A i \in 1 .. 23 : Bytes[i] \in 0 .. 255
  /\ \A i \in Begins : Bytes[i] \in Display!TwoByte /\ Bytes[i] # 0
  /\ \A i, j \in Begins : Bytes[i] = Bytes[j] => i = j
  /\ \A i \in 1 .. 23 : i \notin Begins /\ i - 1 \notin Begins =>
       Bytes[i] \notin Display!TwoByte \cup 0 .. 31 \cup 176 .. 183 \cup {175}
<1>1. Len(Bytes) = 23 /\ \A i \in 1 .. 23 : Bytes[i] \in 0 .. 255
  BY DEF Bytes, Display!init_sequence
<1>2. \A i \in Begins : Bytes[i] \in Display!TwoByte /\ Bytes[i] # 0
  BY DEF Bytes, Display!init_sequence, Begins, Display!TwoByte
<1>3. \A i, j \in Begins : Bytes[i] = Bytes[j] => i = j
  BY DEF Bytes, Display!init_sequence, Begins
<1>4. ASSUME NEW i \in 1 .. 23, i \notin Begins, i - 1 \notin Begins
      PROVE  Bytes[i] \notin Display!TwoByte \cup 0 .. 31 \cup 176 .. 183 \cup {175}
  <2>1. i \in {1, 8, 11, 12, 21, 22, 23}
    BY <1>4 DEF Begins
  <2> QED BY <2>1 DEF Bytes, Display!init_sequence, Display!TwoByte
<1>5. \A i \in 1 .. 23 : i \notin Begins /\ i - 1 \notin Begins =>
        Bytes[i] \notin Display!TwoByte \cup 0 .. 31 \cup 176 .. 183 \cup {175}
  BY <1>4
<1> QED BY ONLY <1>1, <1>2, <1>3, <1>5

(* What the chip makes of a byte: of a parameter, of a command that takes  *)
(* one, of the switch, and of a command that does nothing modelled         *)
LEMMA ParameterRead ==
  ASSUME NEW b, chip.begun # 0
  PROVE  Display!Command(b) = [chip EXCEPT !.set[chip.begun] = b, !.begun = 0]
BY DEF Display!Command, Display!NoCommand

LEMMA CommandRead ==
  ASSUME NEW b \in Display!TwoByte, chip.begun = 0
  PROVE  Display!Command(b) = [chip EXCEPT !.begun = b]
BY DEF Display!Command, Display!NoCommand, Display!TwoByte

LEMMA SwitchRead ==
  ASSUME NEW b \in {174, 175}, chip.begun = 0
  PROVE  Display!Command(b) = [chip EXCEPT !.on = b - 174]
BY DEF Display!Command, Display!NoCommand, Display!TwoByte

LEMMA NothingRead ==
  ASSUME NEW b \in 0 .. 255, chip.begun = 0,
         b \notin Display!TwoByte, b \notin 0 .. 31, b \notin 174 .. 183
  PROVE  Display!Command(b) = chip
BY DEF Display!Command, Display!NoCommand

Chip == [page : Display!Pages, column : Nat, dc : {0, 1}, on : {0, 1},
         begun : Display!TwoByte \cup {0}, set : [Display!TwoByte -> Nat]]

LEMMA ParameterSent ==
  ASSUME DisplayTyped, NEW b \in 0 .. 255, Display!oled_send_command(b), chip.begun # 0
  PROVE  /\ chip' \in Chip /\ chip'.begun = 0 /\ chip'.on = chip.on
         /\ \A x \in Display!TwoByte :
              chip'.set[x] = IF x = chip.begun THEN b ELSE chip.set[x]
<1> DEFINE set == [chip.set EXCEPT ![chip.begun] = b]
<1>1. chip \in Chip
  BY DEF DisplayTyped, Chip
<1>2. chip.begun \in Display!TwoByte
  BY <1>1 DEF Chip
<1>3. set \in [Display!TwoByte -> Nat]
      /\ \A x \in Display!TwoByte : set[x] = IF x = chip.begun THEN b ELSE chip.set[x]
  BY <1>1, <1>2 DEF Chip
<1>4. chip' = [[chip EXCEPT !.set = set, !.begun = 0] EXCEPT !.dc = 0]
  BY ParameterRead DEF Display!oled_send_command
<1> HIDE DEF set
<1>5. chip' = [page |-> chip.page, column |-> chip.column, dc |-> 0, on |-> chip.on,
               begun |-> 0, set |-> set]
  BY <1>1, <1>4 DEF Chip
<1> QED BY <1>1, <1>3, <1>5 DEF Chip

LEMMA CommandSent ==
  ASSUME DisplayTyped, NEW b \in 0 .. 255, Display!oled_send_command(b), chip.begun = 0,
         b \in Display!TwoByte
  PROVE  chip' \in Chip /\ chip'.begun = b /\ chip'.on = chip.on /\ chip'.set = chip.set
<1>1. chip \in Chip
  BY DEF DisplayTyped, Chip
<1>2. chip' = [[chip EXCEPT !.begun = b] EXCEPT !.dc = 0]
  BY CommandRead DEF Display!oled_send_command
<1>3. chip' = [page |-> chip.page, column |-> chip.column, dc |-> 0, on |-> chip.on,
               begun |-> b, set |-> chip.set]
  BY <1>1, <1>2 DEF Chip
<1> QED BY <1>1, <1>3 DEF Chip

LEMMA SwitchSent ==
  ASSUME DisplayTyped, NEW b \in 0 .. 255, Display!oled_send_command(b), chip.begun = 0,
         b \notin Display!TwoByte \cup 0 .. 31 \cup 176 .. 183
  PROVE  /\ chip' \in Chip /\ chip'.begun = 0 /\ chip'.set = chip.set
         /\ chip'.on = IF b \in {174, 175} THEN b - 174 ELSE chip.on
<1>1. chip \in Chip
  BY DEF DisplayTyped, Chip
<1>2. CASE b \in {174, 175}
  <2> DEFINE on == b - 174
  <2>1. on \in {0, 1}
    BY <1>2
  <2>2. Display!Command(b) = [chip EXCEPT !.on = on]
    BY <1>2, SwitchRead
  <2> HIDE DEF on
  <2>3. chip' = [[chip EXCEPT !.on = on] EXCEPT !.dc = 0]
    BY <2>2 DEF Display!oled_send_command
  <2>4. chip' = [page |-> chip.page, column |-> chip.column, dc |-> 0, on |-> on,
                 begun |-> chip.begun, set |-> chip.set]
    <3> DEFINE new == [chip EXCEPT !.on = on]
    <3>1. new = [page |-> chip.page, column |-> chip.column, dc |-> chip.dc, on |-> on,
                 begun |-> chip.begun, set |-> chip.set]
      BY <1>1 DEF Chip
    <3>2. chip' = [new EXCEPT !.dc = 0]
      BY <2>3
    <3> HIDE DEF new
    <3> QED BY <3>1, <3>2
  <2>5. chip' \in Chip /\ chip'.begun = 0 /\ chip'.set = chip.set /\ chip'.on = on
    BY <1>1, <2>1, <2>4 DEF Chip
  <2> QED BY <1>2, <2>5 DEF on
<1>3. CASE b \notin {174, 175}
  <2>1. b \notin Display!TwoByte /\ b \notin 0 .. 31 /\ b \notin 174 .. 183
    BY <1>3
  <2>2. Display!Command(b) = chip
    BY <2>1, NothingRead
  <2>3. chip' = [chip EXCEPT !.dc = 0]
    BY <2>2 DEF Display!oled_send_command
  <2>4. chip' = [page |-> chip.page, column |-> chip.column, dc |-> 0, on |-> chip.on,
                 begun |-> chip.begun, set |-> chip.set]
    BY <1>1, <2>3 DEF Chip
  <2>5. chip' \in Chip /\ chip'.begun = 0 /\ chip'.set = chip.set /\ chip'.on = chip.on
    BY <1>1, <2>4 DEF Chip
  <2> QED BY <1>3, <2>5
<1> QED BY <1>2, <1>3

(* The chip has read one byte more.                                        *)
LEMMA ByteRead ==
  ASSUME DisplayTyped, NEW i \in 1 .. 23, HasRead(i, chip), chip.on = 0,
         Display!oled_send_command(Bytes[i])
  PROVE  chip' \in Chip /\ chip'.on = 0 /\ HasRead(i + 1, chip')
<1>1. Bytes[i] \in 0 .. 255
  BY Sequence
<1>2. CASE i - 1 \in Begins
  <2>1. chip.begun = Bytes[i - 1] /\ chip.begun # 0
    <3>1. chip.begun = Bytes[i - 1]
      BY <1>2 DEF HasRead
    <3>2. \A k \in Begins : Bytes[k] # 0
      BY Sequence
    <3> QED BY <1>2, <3>1, <3>2
  <2>2. /\ chip' \in Chip /\ chip'.begun = 0 /\ chip'.on = 0
        /\ \A x \in Display!TwoByte :
             chip'.set[x] = IF x = chip.begun THEN Bytes[i] ELSE chip.set[x]
    BY <1>1, <2>1, ParameterSent
  <2>3. i \notin Begins /\ i + 1 - 1 = i
    BY <1>2 DEF Begins
  <2>4. ASSUME NEW j \in Begins, j + 1 < i + 1 PROVE chip'.set[Bytes[j]] = Bytes[j + 1]
    <3>1. CASE j = i - 1
      <4>1. j + 1 = i
        BY <3>1
      <4>2. \A k \in Begins : Bytes[k] \in Display!TwoByte
        BY Sequence
      <4>3. Bytes[j] = chip.begun /\ Bytes[j] \in Display!TwoByte
        BY <2>1, <3>1, <4>2
      <4>4. chip'.set[Bytes[j]] = Bytes[i]
        BY <2>2, <4>3
      <4> QED BY <4>1, <4>4
    <3>2. CASE j # i - 1
      <4>1. j + 1 < i
        BY <2>4, <3>2 DEF Begins
      <4>2. Bytes[j] # Bytes[i - 1] /\ Bytes[j] \in Display!TwoByte
        BY <1>2, <3>2, Sequence
      <4> QED BY <2>1, <2>2, <4>1, <4>2 DEF HasRead
    <3> QED BY <3>1, <3>2
  <2> QED BY <2>2, <2>3, <2>4 DEF HasRead
<1>3. CASE i - 1 \notin Begins
  <2>1. chip.begun = 0
    BY <1>3 DEF HasRead
  <2>2. i + 1 - 1 = i /\ \A j \in Begins : j + 1 < i + 1 => j + 1 < i
    BY <1>3 DEF Begins
  <2>3. CASE i \in Begins
    <3>1. chip' \in Chip /\ chip'.begun = Bytes[i] /\ chip'.on = chip.on
          /\ chip'.set = chip.set
      <4>1. \A k \in Begins : Bytes[k] \in Display!TwoByte
        BY Sequence
      <4>2. Bytes[i] \in Display!TwoByte
        BY <2>3, <4>1
      <4> QED BY <1>1, <2>1, <4>2, CommandSent
    <3> QED BY <2>2, <2>3, <3>1 DEF HasRead
  <2>4. CASE i \notin Begins
    <3> DEFINE Other == Display!TwoByte \cup 0 .. 31 \cup 176 .. 183 \cup {175}
    <3>1. \A k \in 1 .. 23 : k \notin Begins /\ k - 1 \notin Begins => Bytes[k] \notin Other
      BY Sequence
    <3>2. Bytes[i] \notin Other
      <4> HIDE DEF Other
      <4> QED BY <1>3, <2>4, <3>1
    <3> DEFINE b == Bytes[i]
    <3>3. /\ b \in 0 .. 255 /\ Display!oled_send_command(b)
          /\ b \notin Display!TwoByte \cup 0 .. 31 \cup 176 .. 183 /\ b # 175
      BY <1>1, <3>2
    <3> HIDE DEF b
    <3>4. /\ chip' \in Chip /\ chip'.begun = 0 /\ chip'.set = chip.set
          /\ chip'.on = IF b \in {174, 175} THEN b - 174 ELSE chip.on
      BY <2>1, <3>3, SwitchSent
    <3>5. chip'.on = 0
      BY <3>3, <3>4
    <3> QED BY <2>2, <2>4, <3>4, <3>5 DEF HasRead
  <2> QED BY <2>3, <2>4
<1> QED BY <1>2, <1>3


LEMMA DisplayInitial ==
  ASSUME Display!Init
  PROVE  DisplayInv
<1>1. chip \in Chip /\ chip.on = 0
  BY DisplaySize DEF Display!Init, Display!ResetChip, Chip, Display!NoCommand, Display!Pages
<1>2. DisplayTyped
  BY <1>1 DEF Display!Init, DisplayTyped, Chip
<1> QED BY <1>1, <1>2 DEF DisplayInv, SequenceRead, SentSoFar, Display!Init

LEMMA ResetPreserves ==
  ASSUME DisplayInv, Display!oled_hardware_reset
  PROVE  DisplayInv'
<1>1. /\ chip' = Display!ResetChip /\ at' = <<"init", 1>>
      /\ UNCHANGED <<oled_buffer, ram, restarts>>
  BY DEF Display!oled_hardware_reset
<1>2. chip' \in Chip /\ chip'.on = 0 /\ chip'.begun = 0
  BY <1>1, DisplaySize DEF Display!ResetChip, Chip, Display!NoCommand, Display!Pages
<1>3. HasRead(1, chip')
  BY <1>2 DEF HasRead, Begins
<1>4. DisplayTyped'
  BY <1>1, <1>2 DEF DisplayInv, DisplayTyped, Chip
<1> QED BY <1>1, <1>2, <1>3, <1>4 DEF DisplayInv, SequenceRead, SentSoFar

LEMMA InitPreserves ==
  ASSUME DisplayInv, Display!oled_init_sh1106
  PROVE  DisplayInv'
<1> DEFINE i == at[2]
<1>1. /\ i \in 1 .. 24 /\ at[1] = "init" /\ UNCHANGED <<oled_buffer, ram, restarts>>
      /\ DisplayTyped /\ chip.on = 0 /\ HasRead(i, chip)
  <2>1. at[1] = "init" /\ UNCHANGED <<oled_buffer, ram, restarts>>
    BY DEF Display!oled_init_sh1106, Display!oled_send_command
  <2>2. at \in {"init"} \X (1 .. 24)
    BY <2>1 DEF DisplayInv, DisplayTyped
  <2>3. DisplayTyped /\ chip.on = 0 /\ HasRead(at[2], chip)
    BY <2>1 DEF DisplayInv, SequenceRead
  <2> QED BY <2>1, <2>2, <2>3
<1>2. CASE i <= 23
  <2>1. i \in 1 .. 23 /\ Display!oled_send_command(Bytes[i]) /\ at' = <<"init", i + 1>>
    <3>1. Len(Display!init_sequence) = 23
      BY Sequence DEF Bytes
    <3>2. /\ Display!oled_send_command(Display!init_sequence[at[2]])
          /\ at' = <<"init", at[2] + 1>>
      BY <1>1, <1>2, <3>1 DEF Display!oled_init_sh1106
    <3> QED BY <1>1, <1>2, <3>2 DEF Bytes
  <2> HIDE DEF i
  <2>2. chip' \in Chip /\ chip'.on = 0 /\ HasRead(i + 1, chip') /\ i + 1 \in 1 .. 24
    BY <1>1, <2>1, ByteRead
  <2>3. DisplayTyped'
    BY <1>1, <2>1, <2>2 DEF DisplayTyped, Chip
  <2> QED BY <2>1, <2>2, <2>3 DEF DisplayInv, SequenceRead, SentSoFar
<1>3. CASE i = 24
  <2>1. Display!oled_send_command(175) /\ at' = <<"ready">>
    BY <1>1, <1>3, Sequence DEF Display!oled_init_sh1106, Bytes
  <2> HIDE DEF i
  <2>2. chip.begun = 0
    BY <1>1, <1>3 DEF HasRead, Begins
  <2>3. chip' \in Chip /\ chip'.begun = 0 /\ chip'.set = chip.set
    BY <1>1, <2>1, <2>2, SwitchSent DEF Display!TwoByte
  <2>4. HasRead(24, chip')
    BY <1>1, <1>3, <2>3 DEF HasRead, Begins
  <2>5. DisplayTyped'
    BY <1>1, <2>1, <2>3 DEF DisplayTyped, Chip
  <2> QED BY <2>1, <2>4, <2>5 DEF DisplayInv, SequenceRead, SentSoFar
<1> QED BY <1>1, <1>2, <1>3

LEMMA OffPreserves ==
  ASSUME DisplayInv, Display!oled_turn_off
  PROVE  DisplayInv'
<1>1. /\ DisplayTyped /\ at = <<"ready">> /\ UNCHANGED <<oled_buffer, ram, at, restarts>>
      /\ Display!oled_send_command(174) /\ HasRead(24, chip)
  BY DEF DisplayInv, SequenceRead, Display!oled_turn_off, Display!oled_send_command
<1>2. chip.begun = 0
  BY <1>1 DEF HasRead, Begins
<1>3. chip' \in Chip /\ chip'.begun = 0 /\ chip'.set = chip.set
  BY <1>1, <1>2, SwitchSent DEF Display!TwoByte
<1>4. HasRead(24, chip')
  BY <1>1, <1>3 DEF HasRead, Begins
<1>5. DisplayTyped'
  BY <1>1, <1>3 DEF DisplayTyped, Chip
<1> QED BY <1>1, <1>4, <1>5 DEF DisplayInv, SequenceRead, SentSoFar

LEMMA RestartPreserves ==
  ASSUME DisplayInv, Display!Restart
  PROVE  DisplayInv'
<1>1. /\ UNCHANGED <<ram, chip>> /\ at' = <<"reset">> /\ restarts' = restarts + 1
      /\ oled_buffer' = [i \in Display!Cells |-> 0]
  BY DEF Display!Restart
<1>2. DisplayTyped'
  BY <1>1 DEF DisplayInv, DisplayTyped
<1> QED BY <1>1, <1>2 DEF DisplayInv, SequenceRead, SentSoFar, HasRead


-----------------------------------------------------------------------------
(* The display: drawing                                                    *)

(* A cell of row page has that page for its quotient.                      *)
LEMMA CellOfRow ==
  ASSUME NEW page \in Nat, NEW r \in 0 .. OLED_WIDTH - 1
  PROVE  /\ (page * OLED_WIDTH + r) \div OLED_WIDTH = page
         /\ page < OLED_PAGES => page * OLED_WIDTH + r \in Display!Cells
<1>1. OLED_WIDTH \in Nat \ {0} /\ OLED_PAGES \in Nat
  BY DisplaySize
<1>2. (page * OLED_WIDTH + r) \div OLED_WIDTH = page
  BY <1>1
<1>3. page < OLED_PAGES => page * OLED_WIDTH + r \in 0 .. OLED_WIDTH * OLED_PAGES - 1
  BY <1>1
<1> QED BY <1>2, <1>3 DEF Display!Cells

(* Buffers that differ from what was there in row page only                *)
Values == {oled_buffer[i] : i \in Display!Cells} \cup Glyphs \cup {NoGlyph}
InRow(page) ==
  {b \in [Display!Cells -> Values] :
     \A i \in Display!Cells : b[i] # oled_buffer[i] => i \div OLED_WIDTH = page}

LEMMA CharacterInRow ==
  ASSUME NEW page \in Nat, NEW b \in InRow(page), NEW x \in Nat,
         NEW glyph \in Glyphs \cup {NoGlyph}
  PROVE  Display!DrawChar(b, x, page, glyph) \in InRow(page)
<1> DEFINE c == Display!DrawChar(b, x, page, glyph)
<1>1. CASE page >= OLED_PAGES \/ x + GLYPH_WIDTH > OLED_WIDTH
  BY <1>1 DEF Display!DrawChar
<1>2. CASE ~ (page >= OLED_PAGES \/ x + GLYPH_WIDTH > OLED_WIDTH)
  <2>1. c = [i \in Display!Cells |->
               IF i - page * OLED_WIDTH - x \in 0 .. GLYPH_WIDTH - 1 THEN glyph ELSE b[i]]
    BY <1>2 DEF Display!DrawChar
  <2>2. c \in [Display!Cells -> Values]
    BY <2>1 DEF InRow, Values
  <2>3. ASSUME NEW i \in Display!Cells, c[i] # oled_buffer[i]
        PROVE  i \div OLED_WIDTH = page
    <3>1. CASE i - page * OLED_WIDTH - x \in 0 .. GLYPH_WIDTH - 1
      <4> DEFINE row == page * OLED_WIDTH
                 r == i - row
      <4>1. row \in Int /\ i \in Int /\ OLED_WIDTH \in Nat /\ GLYPH_WIDTH \in Nat
            /\ x + GLYPH_WIDTH <= OLED_WIDTH /\ i - row - x \in 0 .. GLYPH_WIDTH - 1
        BY <1>2, <3>1, DisplaySize DEF Display!Cells
      <4> HIDE DEF row
      <4>2. r \in 0 .. OLED_WIDTH - 1 /\ i = row + r
        BY <4>1
      <4> HIDE DEF r
      <4> QED BY <4>2, CellOfRow DEF row
    <3>2. CASE ~ (i - page * OLED_WIDTH - x \in 0 .. GLYPH_WIDTH - 1)
      BY <2>1, <2>3, <3>2 DEF InRow
    <3> QED BY <3>1, <3>2
  <2> QED BY <2>2, <2>3 DEF InRow
<1> QED BY <1>1, <1>2

LEMMA TextInRow ==
  ASSUME DisplayTyped, NEW page \in Nat, NEW x \in Nat, NEW text \in Texts
  PROVE  Display!Drawn(x, page, text) \in InRow(page)
<1> DEFINE n == Len(text)
           T == InRow(page)
           Turn(k, b) == IF k \in Display!Reached(x, text) /\ text[k] # NoGlyph
                           THEN Display!DrawChar(b, Display!ColumnOf(x, k), page, text[k])
                           ELSE b
           upTo[k \in 0 .. Len(text)] ==
             IF k = 0 THEN oled_buffer
             ELSE IF k \in Display!Reached(x, text) /\ text[k] # NoGlyph
                    THEN Display!DrawChar(upTo[k - 1], Display!ColumnOf(x, k), page, text[k])
                    ELSE upTo[k - 1]
<1>1. Display!Drawn(x, page, text) = upTo[Len(text)]
  BY DEF Display!Drawn
<1>2. text \in Seq(Glyphs \cup {NoGlyph}) /\ n \in Nat
  BY DisplaySize, LenProperties
<1>3. oled_buffer \in T
  BY DEF DisplayTyped, InRow, Values
<1>4. \A k \in 1 .. n : \A b \in T : Turn(k, b) \in T
  <2> SUFFICES ASSUME NEW k \in 1 .. n, NEW b \in T PROVE Turn(k, b) \in T
    OBVIOUS
  <2>1. text[k] \in Glyphs \cup {NoGlyph}
    BY <1>2, ElementOfSeq
  <2>2. Display!ColumnOf(x, k) \in Nat
    <3> DEFINE step == (k - 1) * (GLYPH_WIDTH + 1)
    <3>1. step \in Nat
      BY <1>2, DisplaySize
    <3> HIDE DEF step
    <3>2. (x + step) % ByteRange \in Nat
      BY <3>1, DisplaySize
    <3> QED BY <3>2 DEF step, Display!ColumnOf
  <2> QED BY <2>1, <2>2, CharacterInRow
<1> HIDE DEF T
<1> DEFINE turn == [p \in (1 .. n) \X T |-> Turn(p[1], p[2])]
<1>5. turn \in [(1 .. n) \X T -> T]
  <2> HIDE DEF Turn
  <2> QED BY <1>4
<1>6. \A k \in 1 .. n : \A b \in T : turn[<<k, b>>] = Turn(k, b)
  OBVIOUS
<1> HIDE DEF turn, n, Turn
<1>7. PICK g : Loop(n, T, oled_buffer, turn, g)
  BY <1>2, <1>3, <1>5, LoopDefined
<1>8. g = [k \in 0 .. n |-> IF k = 0 THEN oled_buffer ELSE Turn(k, g[k - 1])]
  <2>1. \A k \in 0 .. n : k # 0 => k \in 1 .. n /\ k - 1 \in 0 .. n
    BY <1>2
  <2>2. \A k \in 0 .. n : g[k] = IF k = 0 THEN oled_buffer ELSE Turn(k, g[k - 1])
    BY <1>6, <1>7, <2>1 DEF Loop
  <2> QED BY <1>7, <2>2 DEF Loop
<1>9. upTo = [k \in 0 .. n |-> IF k = 0 THEN oled_buffer ELSE Turn(k, upTo[k - 1])]
  BY <1>8 DEF n, Turn
<1> HIDE DEF upTo
<1>10. upTo[0] \in T
  <2>1. 0 \in 0 .. n
    BY <1>2
  <2> QED BY <1>3, <1>9, <2>1
<1>11. \A k \in 1 .. n : upTo[k - 1] \in T => upTo[k] \in T
  <2>1. \A k \in 1 .. n : k \in 0 .. n /\ k # 0
    BY <1>2
  <2>2. \A k \in 1 .. n : upTo[k] = Turn(k, upTo[k - 1])
    BY <1>9, <2>1
  <2> QED BY <1>4, <2>2
<1>12. upTo[n] \in T
  <2>1. \A k \in 0 .. n : upTo[k] \in T
    BY <1>2, <1>10, <1>11, EachTurn
  <2> QED BY <1>2, <2>1
<1> QED BY <1>1, <1>12 DEF n, T


(* Drawing changes the framebuffer alone, and nothing is being sent.       *)
LEMMA BufferPreserves ==
  ASSUME DisplayInv, at = <<"ready">>, UNCHANGED <<ram, chip, at, restarts>>,
         oled_buffer' = [i \in Display!Cells |-> oled_buffer'[i]]
  PROVE  DisplayInv'
<1>1. DisplayTyped'
  BY DEF DisplayInv, DisplayTyped
<1> QED BY <1>1 DEF DisplayInv, SequenceRead, SentSoFar, HasRead

LEMMA DrawPreserves ==
  ASSUME DisplayInv, Display!Draw
  PROVE  DisplayInv' /\ Display!DrawsInRow
<1>1. DisplayTyped /\ OLED_WIDTH \in Nat \ {0} /\ OLED_PAGES \in 1 .. 8 /\ PageRows \in Nat \ {0}
      /\ ByteRange \in Nat
  BY DisplaySize DEF DisplayInv
<1>2. CASE Display!oled_clear
  <2>1. oled_buffer' = [i \in Display!Cells |-> 0] /\ at = <<"ready">>
        /\ UNCHANGED <<ram, chip, at, restarts>>
    BY <1>2 DEF Display!oled_clear
  <2> QED BY <2>1, BufferPreserves DEF Display!DrawsInRow
<1>3. ASSUME NEW x \in 0 .. ByteRange - 1, NEW page \in 0 .. OLED_PAGES, NEW text \in Texts,
             Display!oled_draw_text(x, page, text)
      PROVE  DisplayInv' /\ Display!DrawsInRow
  <2>1. oled_buffer' = Display!Drawn(x, page, text) /\ at = <<"ready">>
        /\ UNCHANGED <<ram, chip, at, restarts>>
    BY <1>3 DEF Display!oled_draw_text
  <2>2. oled_buffer' \in InRow(page)
    <3>1. x \in Nat /\ page \in Nat
      BY <1>1
    <3> QED BY <1>1, <2>1, <3>1, TextInRow
  <2>3. oled_buffer' = [i \in Display!Cells |-> oled_buffer'[i]]
    BY <2>2 DEF InRow
  <2>4. Display!DrawsInRow
    <3>1. CASE page \in Display!Pages
      BY <2>2, <3>1 DEF Display!DrawsInRow, InRow
    <3>2. CASE page \notin Display!Pages
      <4>1. page = OLED_PAGES
        BY <1>1, <3>2 DEF Display!Pages
      <4>2. \A i \in Display!Cells : i \div OLED_WIDTH # page
        <5>1. ASSUME NEW i \in 0 .. OLED_WIDTH * OLED_PAGES - 1
              PROVE  i \div OLED_WIDTH < OLED_PAGES
          BY <1>1
        <5>2. \A i \in Display!Cells : i \div OLED_WIDTH \in Int
          BY <1>1 DEF Display!Cells
        <5> QED BY <1>1, <4>1, <5>1, <5>2 DEF Display!Cells
      <4>3. \A i \in Display!Cells : oled_buffer'[i] = oled_buffer[i]
        BY <2>2, <4>2 DEF InRow
      <4>4. 0 \in Display!Pages
        BY <1>1 DEF Display!Pages
      <4> QED BY <4>3, <4>4 DEF Display!DrawsInRow
    <3> QED BY <3>1, <3>2
  <2> QED BY <2>1, <2>3, <2>4, BufferPreserves
<1>4. ASSUME NEW x \in 0 .. OLED_WIDTH, NEW y \in 0 .. OLED_PAGES * PageRows,
             Display!oled_set_pixel(x, y)
      PROVE  DisplayInv' /\ Display!DrawsInRow
  <2> DEFINE page == y \div PageRows
             i == page * OLED_WIDTH + x
             bit == 2 ^ (y % PageRows)
             value == IF (oled_buffer[i] \div bit) % 2 = 0 THEN oled_buffer[i] + bit
                      ELSE oled_buffer[i]
  <2>1. /\ at = <<"ready">> /\ UNCHANGED <<ram, chip, at, restarts>>
        /\ x < OLED_WIDTH /\ y < OLED_PAGES * PageRows
        /\ oled_buffer' = [oled_buffer EXCEPT ![i] = value]
    BY <1>4 DEF Display!oled_set_pixel
  <2> HIDE DEF value, bit
  <2>2. page \in Nat /\ page < OLED_PAGES
    BY <1>1, <2>1
  <2> HIDE DEF page
  <2>3. x \in 0 .. OLED_WIDTH - 1
    BY <1>1, <2>1
  <2>4. i \in Display!Cells /\ i \div OLED_WIDTH = page
    BY <2>2, <2>3, CellOfRow
  <2>5. page \in Display!Pages
    BY <1>1, <2>2 DEF Display!Pages
  <2> HIDE DEF i
  <2>6. oled_buffer' = [c \in Display!Cells |-> oled_buffer'[c]]
        /\ \A c \in Display!Cells : c # i => oled_buffer'[c] = oled_buffer[c]
    BY <1>1, <2>1, <2>4 DEF DisplayTyped
  <2>7. Display!DrawsInRow
    BY <2>4, <2>5, <2>6 DEF Display!DrawsInRow
  <2> QED BY <2>1, <2>6, <2>7, BufferPreserves
<1> QED BY <1>2, <1>3, <1>4 DEF Display!Draw


-----------------------------------------------------------------------------
(* The display: the flush                                                  *)

LEMMA PageSent ==
  ASSUME DisplayTyped, NEW page \in Display!Pages, chip.begun = 0,
         Display!oled_send_command(176 + page)
  PROVE  /\ chip' \in Chip /\ chip'.page = page /\ chip'.begun = 0
         /\ chip'.on = chip.on /\ chip'.set = chip.set
<1>1. chip \in Chip /\ page \in 0 .. 7
  <2>1. chip \in Chip
    BY DEF DisplayTyped, Chip
  <2>2. page \in 0 .. 7
    BY DisplaySize DEF Display!Pages
  <2> QED BY <2>1, <2>2
<1>2. Display!Command(176 + page) = [chip EXCEPT !.page = page]
  <2> DEFINE b == 176 + page
  <2>1. b \in 176 .. 183 /\ b - 176 = page
    BY <1>1
  <2> HIDE DEF b
  <2>2. Display!Command(b) = [chip EXCEPT !.page = b - 176]
    BY <2>1 DEF Display!Command, Display!NoCommand, Display!TwoByte
  <2> QED BY <2>1, <2>2 DEF b
<1>3. chip' = [[chip EXCEPT !.page = page] EXCEPT !.dc = 0]
  BY <1>2 DEF Display!oled_send_command
<1>4. chip' = [page |-> page, column |-> chip.column, dc |-> 0, on |-> chip.on,
               begun |-> chip.begun, set |-> chip.set]
  BY <1>1, <1>3 DEF Chip
<1> QED BY <1>1, <1>4 DEF Chip

(* Both nibbles of the column's address, whatever it was                   *)
LEMMA ColumnSent ==
  ASSUME DisplayTyped, NEW b \in {2, 16}, chip.begun = 0, Display!oled_send_command(b)
  PROVE  /\ chip' \in Chip /\ chip'.page = chip.page /\ chip'.begun = 0
         /\ chip'.on = chip.on /\ chip'.set = chip.set
         /\ b = 2 => chip'.column % 16 = 2
         /\ b = 16 /\ chip.column % 16 = 2 => chip'.column = 2
<1> DEFINE column == IF b = 2 THEN (chip.column \div 16) * 16 + 2 ELSE chip.column % 16
<1>1. chip \in Chip /\ chip.column \in Nat
  BY DEF DisplayTyped, Chip
<1>2. column \in Nat /\ (b = 2 => column % 16 = 2) /\ (b = 16 => column = chip.column % 16)
  BY <1>1
<1>3. Display!Command(b) = [chip EXCEPT !.column = column]
  <2>1. CASE b = 2
    BY <1>1, <2>1 DEF Display!Command, Display!NoCommand, Display!TwoByte, Chip
  <2>2. CASE b = 16
    BY <1>1, <2>2 DEF Display!Command, Display!NoCommand, Display!TwoByte, Chip
  <2> QED BY <2>1, <2>2
<1> HIDE DEF column
<1>4. chip' = [[chip EXCEPT !.column = column] EXCEPT !.dc = 0]
  BY <1>3 DEF Display!oled_send_command
<1>5. chip' = [page |-> chip.page, column |-> column, dc |-> 0, on |-> chip.on,
               begun |-> chip.begun, set |-> chip.set]
  BY <1>1, <1>4 DEF Chip
<1> QED BY <1>1, <1>2, <1>5 DEF Chip

(* The row that is sent comes to stand in the visible columns of its page. *)
LEMMA RowSent ==
  ASSUME DisplayTyped, NEW page \in Display!Pages, chip.page = page, chip.column = 2,
         Display!oled_send_data(Display!Row(page)), UNCHANGED oled_buffer
  PROVE  /\ chip' \in Chip /\ chip'.begun = chip.begun
         /\ chip'.on = chip.on /\ chip'.set = chip.set
         /\ ram' = [p \in Display!Pages |-> ram'[p]]
         /\ \A p \in Display!Pages : ram'[p] = [c \in Display!RamColumns |-> ram'[p][c]]
         /\ \A p \in Display!Pages : p # page => Display!Panel(p)' = Display!Panel(p)
         /\ Display!Panel(page)' = Display!Row(page)
<1> DEFINE row == Display!Row(page)
           after == [c \in Display!RamColumns |->
                      IF c \in chip.column .. chip.column + Len(row) - 1
                        THEN row[c - chip.column + 1] ELSE ram[page][c]]
<1>1. chip \in Chip /\ OLED_WIDTH \in Nat \ {0} /\ ColumnOffset = 2
  BY DisplaySize DEF DisplayTyped, Chip
<1>2. Len(row) = OLED_WIDTH /\ DOMAIN row = 1 .. OLED_WIDTH
      /\ row = [i \in 1 .. OLED_WIDTH |-> row[i]]
  <2> DEFINE S == {oled_buffer[page * OLED_WIDTH + i - 1] : i \in 1 .. OLED_WIDTH}
  <2>1. row \in [1 .. OLED_WIDTH -> S]
    BY DEF Display!Row
  <2> HIDE DEF S, row
  <2>2. row \in Seq(S)
    BY <1>1, <2>1, SeqDef
  <2> QED BY <1>1, <2>1, <2>2, LenProperties
<1> HIDE DEF row
<1>3. ram' = [ram EXCEPT ![page] = after]
  BY DEF Display!oled_send_data, row
<1>4. \A i \in 1 .. OLED_WIDTH : after[ColumnOffset + i - 1] = row[i]
  <2> SUFFICES ASSUME NEW i \in 1 .. OLED_WIDTH PROVE after[ColumnOffset + i - 1] = row[i]
    OBVIOUS
  <2> DEFINE c == ColumnOffset + i - 1
  <2>1. /\ c \in Display!RamColumns /\ c \in chip.column .. chip.column + Len(row) - 1
        /\ c - chip.column + 1 = i
    BY <1>1, <1>2 DEF Display!RamColumns
  <2> QED BY <2>1
<1>5. after = [c \in Display!RamColumns |-> after[c]]
  OBVIOUS
<1> HIDE DEF after
<1>6. /\ ram' = [p \in Display!Pages |-> ram'[p]] /\ ram'[page] = after
      /\ \A p \in Display!Pages : p # page => ram'[p] = ram[p]
  BY <1>3 DEF DisplayTyped
<1>7. \A p \in Display!Pages : ram'[p] = [c \in Display!RamColumns |-> ram'[p][c]]
  BY <1>5, <1>6 DEF DisplayTyped
<1>8. \A p \in Display!Pages : p # page => Display!Panel(p)' = Display!Panel(p)
  BY <1>6 DEF Display!Panel
<1>9. Display!Panel(page)' = Display!Row(page)
  BY <1>2, <1>4, <1>6 DEF Display!Panel, row
<1>10. chip' \in Chip /\ chip'.begun = chip.begun /\ chip'.on = chip.on /\ chip'.set = chip.set
  <2> DEFINE column == chip.column + Len(Display!Row(page))
  <2>1. chip' = [chip EXCEPT !.dc = 1, !.column = column]
    BY DEF Display!oled_send_data
  <2>2. column \in Nat
    BY <1>1, <1>2 DEF row
  <2> HIDE DEF column
  <2>3. chip' = [page |-> chip.page, column |-> column, dc |-> 1, on |-> chip.on,
                 begun |-> chip.begun, set |-> chip.set]
    BY <1>1, <2>1 DEF Chip
  <2> QED BY <1>1, <2>2, <2>3 DEF Chip
<1> QED BY <1>6, <1>7, <1>8, <1>9, <1>10


LEMMA StartPreserves ==
  ASSUME DisplayInv, Display!StartFlush
  PROVE  DisplayInv'
<1>1. /\ at = <<"ready">> /\ at' = <<"flush", 0, "page">>
      /\ UNCHANGED <<oled_buffer, ram, chip, restarts>>
  BY DEF Display!StartFlush
<1>2. 0 \in Display!Pages /\ 0 .. 0 - 1 = {}
  BY DisplaySize DEF Display!Pages
<1>3. DisplayTyped'
  BY <1>1, <1>2 DEF DisplayInv, DisplayTyped
<1>4. SentSoFar'
  <2>1. at'[1] = "flush" /\ at'[2] = 0 /\ at'[3] = "page"
    BY <1>1
  <2> QED BY <1>2, <2>1 DEF SentSoFar
<1> QED BY <1>1, <1>3, <1>4 DEF DisplayInv, SequenceRead, HasRead

LEMMA TransferPreserves ==
  ASSUME DisplayInv, Display!oled_write_page
  PROVE  DisplayInv' /\ Display!FlushCopies
<1> SUFFICES ASSUME NEW page, page = at[2] PROVE DisplayInv' /\ Display!FlushCopies
  OBVIOUS
<1>1. /\ DisplayTyped /\ page \in Display!Pages /\ at[1] = "flush"
      /\ at \in {"flush"} \X Display!Pages \X {"page", "low", "high", "data"}
      /\ UNCHANGED <<oled_buffer, restarts>>
  <2>1. at[1] = "flush" /\ UNCHANGED <<oled_buffer, restarts>>
    BY DEF Display!oled_write_page, Display!Transfer
  <2>2. at \in {"flush"} \X Display!Pages \X {"page", "low", "high", "data"}
    BY <2>1 DEF DisplayInv, DisplayTyped
  <2> QED BY <2>1, <2>2 DEF DisplayInv
<1>2. /\ HasRead(24, chip) /\ chip.begun = 0
      /\ \A q \in 0 .. page - 1 : Display!Panel(q) = Display!Row(q)
      /\ at[3] # "page" => chip.page = page
      /\ at[3] = "high" => chip.column % 16 = 2
      /\ at[3] = "data" => chip.column = 2
  BY <1>1 DEF DisplayInv, SequenceRead, SentSoFar, HasRead, Begins
<1>3. \A q : Display!Row(q)' = Display!Row(q)
  BY <1>1 DEF Display!Row
<1>4. ASSUME NEW to \in {"low", "high", "data"}, at' = <<"flush", page, to>>, UNCHANGED ram,
             chip' \in Chip, chip'.begun = 0, chip'.on = chip.on, chip'.set = chip.set,
             chip'.page = page,
             to = "high" => chip'.column % 16 = 2, to = "data" => chip'.column = 2
      PROVE  DisplayInv' /\ Display!FlushCopies
  <2>1. at'[1] = "flush" /\ at'[2] = page /\ at'[3] = to
    BY <1>4
  <2>2. \A q : Display!Panel(q)' = Display!Panel(q)
    BY <1>4 DEF Display!Panel
  <2>3. DisplayTyped'
    BY <1>1, <1>4 DEF DisplayTyped, Chip
  <2>4. SequenceRead'
    BY <1>2, <1>4, <2>1 DEF SequenceRead, HasRead
  <2>5. \A q \in 0 .. page - 1 : Display!Panel(q)' = Display!Row(q)
    BY <1>2, <2>2
  <2>6. SentSoFar'
    BY <1>3, <1>4, <2>1, <2>5 DEF SentSoFar
  <2>7. Display!FlushCopies
    BY <2>1, <2>5 DEF Display!FlushCopies, Display!PagesSent
  <2> QED BY <2>3, <2>4, <2>6, <2>7 DEF DisplayInv
<1>5. CASE Display!Transfer("page", "low")
  <2>1. /\ Display!oled_send_command(176 + page) /\ at' = <<"flush", page, "low">>
        /\ UNCHANGED ram
    BY <1>5 DEF Display!Transfer, Display!oled_send_command
  <2>2. /\ chip' \in Chip /\ chip'.page = page /\ chip'.begun = 0
        /\ chip'.on = chip.on /\ chip'.set = chip.set
    BY <1>1, <1>2, <2>1, PageSent
  <2> QED BY <1>4, <2>1, <2>2
<1>6. CASE Display!Transfer("low", "high")
  <2>1. /\ Display!oled_send_command(2) /\ at' = <<"flush", page, "high">> /\ at[3] = "low"
        /\ UNCHANGED ram
    BY <1>6 DEF Display!Transfer, Display!oled_send_command
  <2>2. /\ chip' \in Chip /\ chip'.page = page /\ chip'.begun = 0
        /\ chip'.on = chip.on /\ chip'.set = chip.set /\ chip'.column % 16 = 2
    BY <1>1, <1>2, <2>1, ColumnSent
  <2> QED BY <1>4, <2>1, <2>2
<1>7. CASE Display!Transfer("high", "data")
  <2>1. /\ Display!oled_send_command(16) /\ at' = <<"flush", page, "data">> /\ at[3] = "high"
        /\ UNCHANGED ram
    BY <1>7 DEF Display!Transfer, Display!oled_send_command
  <2>2. /\ chip' \in Chip /\ chip'.page = page /\ chip'.begun = 0
        /\ chip'.on = chip.on /\ chip'.set = chip.set /\ chip'.column = 2
    BY <1>1, <1>2, <2>1, ColumnSent
  <2> QED BY <1>4, <2>1, <2>2
<1>8. CASE Display!Transfer("data", "next")
  <2>1. /\ Display!oled_send_data(Display!Row(page)) /\ at[3] = "data"
        /\ at' = IF page + 1 < OLED_PAGES THEN <<"flush", page + 1, "page">> ELSE <<"ready">>
    BY <1>8 DEF Display!Transfer
  <2>2. /\ chip' \in Chip /\ chip'.begun = 0 /\ chip'.on = chip.on /\ chip'.set = chip.set
        /\ ram' = [p \in Display!Pages |-> ram'[p]]
        /\ \A p \in Display!Pages : ram'[p] = [c \in Display!RamColumns |-> ram'[p][c]]
        /\ \A p \in Display!Pages : p # page => Display!Panel(p)' = Display!Panel(p)
        /\ Display!Panel(page)' = Display!Row(page)
    <3>1. chip.page = page /\ chip.column = 2 /\ chip.begun = 0 /\ DisplayTyped
          /\ page \in Display!Pages /\ UNCHANGED oled_buffer
      BY <1>1, <1>2, <2>1
    <3>2. Display!oled_send_data(Display!Row(page))
      BY <2>1
    <3> QED BY <3>1, <3>2, RowSent
  <2>3. \A q \in 0 .. page : Display!Panel(q)' = Display!Row(q)
    <3>1. \A q \in 0 .. page :
            q # page => q \in 0 .. page - 1 /\ q \in Display!Pages
      BY <1>1, DisplaySize DEF Display!Pages
    <3> QED BY <1>2, <2>2, <3>1
  <2>4. CASE page + 1 < OLED_PAGES
    <3>1. at' = <<"flush", page + 1, "page">>
      BY <2>1, <2>4
    <3>2. at'[1] = "flush" /\ at'[2] = page + 1 /\ at'[3] = "page"
      BY <3>1
    <3>3. page + 1 \in Display!Pages /\ 0 .. (page + 1) - 1 = 0 .. page
      BY <1>1, <2>4, DisplaySize DEF Display!Pages
    <3>4. DisplayTyped'
      BY <1>1, <2>2, <3>1, <3>3 DEF DisplayTyped, Chip
    <3>5. SequenceRead'
      BY <1>2, <2>2, <3>2 DEF SequenceRead, HasRead
    <3>6. SentSoFar'
      BY <1>3, <2>3, <3>2, <3>3 DEF SentSoFar
    <3>7. Display!FlushCopies
      BY <2>3, <3>2, <3>3 DEF Display!FlushCopies, Display!PagesSent
    <3> QED BY <3>4, <3>5, <3>6, <3>7 DEF DisplayInv
  <2>5. CASE ~ (page + 1 < OLED_PAGES)
    <3>1. at' = <<"ready">> /\ at'[1] = "ready"
      BY <2>1, <2>5
    <3>2. Display!Pages = 0 .. page
      BY <1>1, <2>5, DisplaySize DEF Display!Pages
    <3>3. DisplayTyped'
      BY <1>1, <2>2, <3>1 DEF DisplayTyped, Chip
    <3>4. SequenceRead'
      BY <1>2, <2>2, <3>1 DEF SequenceRead, HasRead
    <3>5. SentSoFar'
      BY <3>1 DEF SentSoFar
    <3>6. Display!FlushCopies
      BY <2>3, <3>1, <3>2 DEF Display!FlushCopies, Display!PagesSent
    <3> QED BY <3>3, <3>4, <3>5, <3>6 DEF DisplayInv
  <2> QED BY <2>4, <2>5
<1> QED BY <1>5, <1>6, <1>7, <1>8 DEF Display!oled_write_page

-----------------------------------------------------------------------------
(* The display: together                                                   *)

LEMMA ConfiguredFromInvariant ==
  ASSUME DisplayInv
  PROVE  Display!Configured /\ Display!DarkDuringInit
<1>1. Display!DarkDuringInit
  BY DEF DisplayInv, SequenceRead, Display!DarkDuringInit
<1>2. ASSUME chip.on = 1 PROVE Display!Configured
  <2>1. HasRead(24, chip)
    BY <1>2 DEF DisplayInv, SequenceRead
  <2>2. chip.begun = 0
    BY <2>1 DEF HasRead, Begins
  <2>3. \A j \in Begins : chip.set[Bytes[j]] = Bytes[j + 1]
    BY <2>1 DEF HasRead, Begins
  <2>4. /\ chip.set[Bytes[2]] = Bytes[3] /\ chip.set[Bytes[4]] = Bytes[5]
        /\ chip.set[Bytes[6]] = Bytes[7] /\ chip.set[Bytes[9]] = Bytes[10]
        /\ chip.set[Bytes[13]] = Bytes[14] /\ chip.set[Bytes[15]] = Bytes[16]
        /\ chip.set[Bytes[17]] = Bytes[18] /\ chip.set[Bytes[19]] = Bytes[20]
    BY <2>3 DEF Begins
  <2>5. /\ Bytes[2] = 213 /\ Bytes[3] = 128 /\ Bytes[4] = 168 /\ Bytes[5] = 63
        /\ Bytes[6] = 211 /\ Bytes[7] = 0 /\ Bytes[9] = 173 /\ Bytes[10] = 139
        /\ Bytes[13] = 218 /\ Bytes[14] = 18 /\ Bytes[15] = 129 /\ Bytes[16] = 255
        /\ Bytes[17] = 217 /\ Bytes[18] = 31 /\ Bytes[19] = 219 /\ Bytes[20] = 64
    BY DEF Bytes, Display!init_sequence
  <2> QED BY <2>2, <2>4, <2>5 DEF Display!Configured, Display!NoCommand
<1> QED BY <1>1, <1>2 DEF Display!Configured

LEMMA DisplayStep ==
  ASSUME DisplayInv, Display!Next
  PROVE  DisplayInv' /\ Display!FlushCopies /\ Display!DrawsInRow
<1>1. CASE Display!oled_hardware_reset
  <2>1. at[1] # "flush" /\ UNCHANGED oled_buffer
    BY <1>1 DEF Display!oled_hardware_reset
  <2> QED BY <1>1, <2>1, ResetPreserves DEF Display!FlushCopies, Display!DrawsInRow
<1>2. CASE Display!oled_init_sh1106
  <2>1. at[1] # "flush" /\ UNCHANGED oled_buffer
    BY <1>2 DEF Display!oled_init_sh1106
  <2> QED BY <1>2, <2>1, InitPreserves DEF Display!FlushCopies, Display!DrawsInRow
<1>3. CASE Display!Draw
  <2>1. at[1] # "flush"
    BY <1>3 DEF Display!Draw, Display!oled_clear, Display!oled_draw_text, Display!oled_set_pixel
  <2> QED BY <1>3, <2>1, DrawPreserves DEF Display!FlushCopies
<1>4. CASE Display!StartFlush
  <2>1. at[1] # "flush" /\ UNCHANGED oled_buffer
    BY <1>4 DEF Display!StartFlush
  <2> QED BY <1>4, <2>1, StartPreserves DEF Display!FlushCopies, Display!DrawsInRow
<1>5. CASE Display!oled_write_page
  <2>1. UNCHANGED oled_buffer
    BY <1>5 DEF Display!oled_write_page, Display!Transfer
  <2> QED BY <1>5, <2>1, TransferPreserves DEF Display!DrawsInRow
<1>6. CASE Display!oled_turn_off
  <2>1. at[1] # "flush" /\ UNCHANGED oled_buffer
    BY <1>6 DEF Display!oled_turn_off
  <2> QED BY <1>6, <2>1, OffPreserves DEF Display!FlushCopies, Display!DrawsInRow
<1>7. CASE Display!Restart
  <2>1. restarts' # restarts /\ oled_buffer' = [i \in Display!Cells |-> 0]
    BY <1>7 DEF Display!Restart, DisplayInv, DisplayTyped
  <2> QED BY <1>7, <2>1, RestartPreserves DEF Display!FlushCopies, Display!DrawsInRow
<1> QED BY <1>1, <1>2, <1>3, <1>4, <1>5, <1>6, <1>7 DEF Display!Next

LEMMA DisplayKept ==
  ASSUME DisplayInv, UNCHANGED display
  PROVE  DisplayInv'
<1>1. UNCHANGED oled_buffer /\ UNCHANGED ram /\ UNCHANGED chip /\ UNCHANGED at
      /\ UNCHANGED restarts
  BY DEF display
<1>2. DisplayTyped'
  BY <1>1 DEF DisplayInv, DisplayTyped
<1>3. SequenceRead'
  BY <1>1 DEF DisplayInv, SequenceRead, HasRead
<1>4. SentSoFar'
  BY <1>1 DEF DisplayInv, SentSoFar, Display!Panel, Display!Row
<1> QED BY <1>2, <1>3, <1>4 DEF DisplayInv

(* For every size of the display up to the chip's eight pages, every text,  *)
(* number of restarts and place where a run breaks off: the invariant of    *)
(* the driver and its chip, oled.c:65-142,184-301.                          *)
THEOREM DisplayInvariance == Display!Spec => []DisplayInv
<1>1. DisplayInv /\ [Display!Next]_(Display!vars) => DisplayInv'
  BY DisplayStep, DisplayKept DEF Display!vars, display
<1> QED BY <1>1, DisplayInitial, PTL DEF Display!Spec

(* A flush makes the panel show the framebuffer wherever an earlier run     *)
(* broke off, drawing keeps to its row, and the chip is configured and dark *)
(* meanwhile (PanelShows, oled.c:113-142,192-301).                          *)
THEOREM FlushShows == Display!Spec => PanelShows
<1>1. DisplayInv /\ [Display!Next]_(Display!vars) =>
        [Display!FlushCopies /\ Display!DrawsInRow]_display
  BY DisplayStep DEF Display!vars, display
<1>2. DisplayInv => Display!Configured /\ Display!DarkDuringInit
  BY ConfiguredFromInvariant
<1> QED BY <1>1, <1>2, DisplayInvariance, PTL DEF Display!Spec, PanelShows

-----------------------------------------------------------------------------
(* What searches collect: what is known of a result                        *)

Collected(n) ==
  [instance : Found \cup {None, asked[n].instance}, host : FoundOn \cup {None},
   port : FoundPorts \cup {None}, txt : FoundTexts \cup {None},
   addr : SUBSET FoundAddresses]

ByHost(n) == asked[n].type = "A" \/ (asked[n].type = "ANY" /\ ~ asked[n].service)
About(n, x) == IF asked[n].type = "PTR" THEN x.instance ELSE asked[n].instance
KeyOf(n, x) == IF asked[n].type = "PTR" THEN x.instance ELSE x.host

SaidOf(i, x, h) ==
  [type |-> "SRV", instance |-> i, host |-> x.host, port |-> x.port] \in h
TextOf(i, x, h) == [type |-> "TXT", instance |-> i, txt |-> x.txt] \in h
AddressesOf(x, h) == \A a \in x.addr : [type |-> "A", host |-> x.host, addr |-> a] \in h

(* A search by name has the host that was asked for from the start; in the *)
(* other results there is no address before there is a host.               *)
Truth(n, x, h) ==
  /\ x.host # None /\ ~ ByHost(n) => SaidOf(About(n, x), x, h)
  /\ x.txt # None => TextOf(About(n, x), x, h)
  /\ AddressesOf(x, h)
  /\ ByHost(n) => x.host = asked[n].instance
  /\ x.host = None => x.addr = {}
  /\ ~ ByHost(n) => (x.host = None <=> x.port = None)

TrueList(n, list, h) ==
  /\ list \in Seq(Collected(n))
  /\ \A k \in 1 .. Len(list) : Truth(n, list[k], h)
  /\ \A k, m \in 1 .. Len(list) : m # k => KeyOf(n, list[m]) # KeyOf(n, list[k])
  /\ asked[n].max > 0 => Len(list) <= asked[n].max

AnswersInv ==
  /\ asked \in Chains
  /\ results = [n \in DOMAIN asked |-> results[n]]
  /\ \A n \in DOMAIN asked : TrueList(n, results[n], heard)

LEMMA MoreHeard ==
  ASSUME NEW n, NEW list, NEW h, NEW g, h \subseteq g, TrueList(n, list, h)
  PROVE  TrueList(n, list, g)
<1>1. ASSUME NEW x, Truth(n, x, h) PROVE Truth(n, x, g)
  BY <1>1 DEF Truth, SaidOf, TextOf, AddressesOf
<1> QED BY <1>1 DEF TrueList

-----------------------------------------------------------------------------
(* What searches collect: where a record goes                              *)

LEMMA FirstNumber ==
  ASSUME NEW I \in SUBSET Nat, I # {}
  PROVE  Answers!Min(I) \in I
BY Least DEF Answers!Min

OfName(n, k, name) ==
  /\ k \in 0 .. Len(results[n])
  /\ k > 0 => results[n][k].instance = name
  /\ k = 0 => \A i \in 1 .. Len(results[n]) : results[n][i].instance # name

OnHost(n, k, name) ==
  /\ k \in 0 .. Len(results[n])
  /\ k > 0 => results[n][k].host = name
  /\ k = 0 => \A i \in 1 .. Len(results[n]) : results[n][i].host # name

LEMMA InstanceFound ==
  ASSUME NEW n, NEW r, results[n] \in Seq(Collected(n))
  PROVE  OfName(n, Answers!OfInstance(n, r), r.instance)
<1> DEFINE I == {i \in 1 .. Len(results[n]) : results[n][i].instance = r.instance}
           k == Answers!OfInstance(n, r)
<1>1. k = IF I # {} THEN Answers!Min(I) ELSE 0
  BY DEF Answers!OfInstance, Answers!First, Answers!SelectInSeq
<1>2. I # {} => Answers!Min(I) \in I
  <2> HIDE DEF I
  <2>1. I \in SUBSET Nat
    BY DEF I
  <2> QED BY <2>1, FirstNumber
<1> HIDE DEF k
<1>3. Len(results[n]) \in Nat
  BY LenProperties
<1>4. I # {} => k \in 1 .. Len(results[n]) /\ results[n][k].instance = r.instance
  BY <1>1, <1>2
<1>5. I = {} => k = 0 /\ \A i \in 1 .. Len(results[n]) : results[n][i].instance # r.instance
  BY <1>1
<1> HIDE DEF I
<1> QED BY <1>3, <1>4, <1>5 DEF OfName, k

LEMMA HostFound ==
  ASSUME NEW n, NEW r, results[n] \in Seq(Collected(n))
  PROVE  OnHost(n, Answers!OfHost(n, r), r.host)
<1> DEFINE I == {i \in 1 .. Len(results[n]) : results[n][i].host = r.host}
           k == Answers!OfHost(n, r)
<1>1. k = IF I # {} THEN Answers!Min(I) ELSE 0
  BY DEF Answers!OfHost, Answers!First, Answers!SelectInSeq
<1>2. I # {} => Answers!Min(I) \in I
  <2> HIDE DEF I
  <2>1. I \in SUBSET Nat
    BY DEF I
  <2> QED BY <2>1, FirstNumber
<1> HIDE DEF k
<1>3. Len(results[n]) \in Nat
  BY LenProperties
<1>4. I # {} => k \in 1 .. Len(results[n]) /\ results[n][k].host = r.host
  BY <1>1, <1>2
<1>5. I = {} => k = 0 /\ \A i \in 1 .. Len(results[n]) : results[n][i].host # r.host
  BY <1>1
<1> HIDE DEF I
<1> QED BY <1>3, <1>4, <1>5 DEF OnHost, k

(* A result in place of one with the same key, or a new one with a new key *)
LEMMA PutKeeps ==
  ASSUME NEW n \in DOMAIN asked, NEW h, TrueList(n, results[n], h), asked[n].max \in Nat,
         NEW k \in 0 .. Len(results[n]), NEW x, NEW new,
         k > 0 => /\ x \in Collected(n) /\ Truth(n, x, h)
                  /\ KeyOf(n, x) = KeyOf(n, results[n][k]),
         k = 0 => /\ new \in Collected(n) /\ Truth(n, new, h)
                  /\ \A i \in 1 .. Len(results[n]) :
                       KeyOf(n, results[n][i]) # KeyOf(n, new)
  PROVE  TrueList(n, Answers!Put(n, k, x, new), h)
<1> DEFINE list == results[n]
           len == Len(list)
           put == Answers!Put(n, k, x, new)
<1>1. /\ list \in Seq(Collected(n)) /\ len \in Nat
      /\ \A i \in 1 .. len : list[i] \in Collected(n)
  BY ElementOfSeq, LenProperties DEF TrueList
<1>2. CASE k > 0
  <2>1. put = [list EXCEPT ![k] = x]
    BY <1>2 DEF Answers!Put
  <2>2. k \in 1 .. len
    BY <1>1, <1>2
  <2> HIDE DEF put, list
  <2>3. put \in Seq(Collected(n)) /\ Len(put) = len
    BY <1>1, <1>2, <2>1, <2>2, ExceptSeq
  <2>4. \A i \in 1 .. len : put[i] = IF i = k THEN x ELSE list[i]
    BY <1>1, <2>1, <2>2, LenProperties
  <2>5. \A i \in 1 .. len : KeyOf(n, put[i]) = KeyOf(n, list[i])
    BY <1>2, <2>4 DEF list
  <2>6. \A i \in 1 .. len : Truth(n, put[i], h)
    BY <1>2, <2>4 DEF TrueList, list
  <2> QED BY <2>3, <2>5, <2>6 DEF TrueList, list, put
<1>3. CASE k = 0 /\ Answers!HasRoom(n)
  <2>1. put = <<new>> \o list
    BY <1>3 DEF Answers!Put
  <2> HIDE DEF put, list
  <2>2. /\ put \in Seq(Collected(n)) /\ Len(put) = 1 + len
        /\ \A i \in 1 .. 1 + len : put[i] = IF i = 1 THEN new ELSE list[i - 1]
    <3> DEFINE one == <<new>>
    <3>1. one \in Seq(Collected(n)) /\ Len(one) = 1 /\ one[1] = new
      BY <1>3
    <3> HIDE DEF one
    <3>2. /\ one \o list \in Seq(Collected(n))
          /\ Len(one \o list) = Len(one) + Len(list)
          /\ \A i \in 1 .. Len(one) + Len(list) :
               (one \o list)[i] = IF i <= Len(one) THEN one[i] ELSE list[i - Len(one)]
      BY ONLY <1>1, <3>1, ConcatProperties
    <3>3. put = one \o list
      BY <2>1 DEF one
    <3> QED BY <1>1, <3>1, <3>2, <3>3
  <2>3. \A i \in 1 .. 1 + len : Truth(n, put[i], h)
    <3>1. \A i \in 1 .. 1 + len : i = 1 \/ i - 1 \in 1 .. len
      BY <1>1
    <3>2. \A i \in 1 .. len : Truth(n, list[i], h)
      BY DEF TrueList, list
    <3> QED BY <1>3, <2>2, <3>1, <3>2
  <2>4. \A i, m \in 1 .. 1 + len : m # i => KeyOf(n, put[m]) # KeyOf(n, put[i])
    <3>1. \A i \in 1 .. 1 + len : i = 1 \/ i - 1 \in 1 .. len
      BY <1>1
    <3>2. \A i, m \in 1 .. len : m # i => KeyOf(n, list[m]) # KeyOf(n, list[i])
      BY DEF TrueList, list
    <3>3. \A i \in 1 .. len : KeyOf(n, list[i]) # KeyOf(n, new)
      BY <1>3 DEF list
    <3> TAKE i, m \in 1 .. 1 + len
    <3>4. CASE i = 1 /\ m # 1
      BY <2>2, <3>1, <3>3, <3>4
    <3>5. CASE i # 1 /\ m = 1
      BY <2>2, <3>1, <3>3, <3>5
    <3>6. CASE i # 1 /\ m # 1
      <4>1. i - 1 = m - 1 => i = m
        BY <1>1
      <4>2. put[i] = list[i - 1] /\ put[m] = list[m - 1]
        BY <2>2, <3>6
      <4> QED BY <3>1, <3>2, <3>6, <4>1, <4>2
    <3> QED BY <3>4, <3>5, <3>6
  <2>5. asked[n].max > 0 => Len(put) <= asked[n].max
    BY <1>1, <1>3, <2>2 DEF Answers!HasRoom, list
  <2> QED BY <2>2, <2>3, <2>4, <2>5 DEF TrueList, put
<1>4. CASE k = 0 /\ ~ Answers!HasRoom(n)
  <2>1. put = list
    BY <1>4 DEF Answers!Put
  <2> QED BY <2>1
<1> QED BY <1>1, <1>2, <1>3, <1>4

-----------------------------------------------------------------------------
(* What searches collect: each kind of record                              *)

Res(i, host, port, txt, addr) ==
  [instance |-> i, host |-> host, port |-> port, txt |-> txt, addr |-> addr]

LEMMA OneSearch ==
  ASSUME AnswersInv, NEW n \in DOMAIN asked, NEW r
  PROVE  /\ TrueList(n, results[n], heard \cup {r}) /\ asked[n].max \in Nat /\ n \in Nat
         /\ results[n] \in Seq(Collected(n)) /\ Len(results[n]) \in Nat
         /\ results[n] = <<>> <=> Len(results[n]) = 0
         /\ \A k \in 1 .. Len(results[n]) :
              results[n][k] \in Collected(n) /\ Truth(n, results[n][k], heard \cup {r})
<1>1. TrueList(n, results[n], heard \cup {r})
  BY MoreHeard DEF AnswersInv
<1>2. asked[n].max \in Nat /\ n \in Nat
  BY AnswersAssumption DEF AnswersInv
<1>3. results[n] \in Seq(Collected(n))
  BY <1>1 DEF TrueList
<1>4. /\ Len(results[n]) \in Nat /\ (results[n] = <<>> <=> Len(results[n]) = 0)
      /\ \A k \in 1 .. Len(results[n]) : results[n][k] \in Collected(n)
  BY <1>3, ElementOfSeq, LenProperties, EmptySeq
<1>5. \A k \in 1 .. Len(results[n]) : Truth(n, results[n][k], heard \cup {r})
  BY <1>1 DEF TrueList
<1> QED BY <1>1, <1>2, <1>3, <1>4, <1>5

LEMMA OldResult ==
  ASSUME AnswersInv, NEW n \in DOMAIN asked, NEW r, NEW k \in 0 .. Len(results[n]), k > 0
  PROVE  /\ Answers!At(n, k) = results[n][k] /\ results[n][k] \in Collected(n)
         /\ Truth(n, results[n][k], heard \cup {r})
<1>1. k \in 1 .. Len(results[n])
  BY OneSearch
<1> QED BY <1>1, OneSearch DEF Answers!At

LEMMA FieldsOf ==
  ASSUME NEW n, NEW x \in Collected(n)
  PROVE  /\ x = Res(x.instance, x.host, x.port, x.txt, x.addr)
         /\ x.instance \in Found \cup {None, asked[n].instance}
         /\ x.host \in FoundOn \cup {None} /\ x.port \in FoundPorts \cup {None}
         /\ x.txt \in FoundTexts \cup {None} /\ x.addr \in SUBSET FoundAddresses
BY DEF Collected, Res

LEMMA ResIn ==
  ASSUME NEW n, NEW i \in Found \cup {None, asked[n].instance},
         NEW host \in FoundOn \cup {None}, NEW port \in FoundPorts \cup {None},
         NEW txt \in FoundTexts \cup {None}, NEW addr \in SUBSET FoundAddresses
  PROVE  Res(i, host, port, txt, addr) \in Collected(n)
BY DEF Collected, Res

LEMMA ResFields ==
  ASSUME NEW i, NEW host, NEW port, NEW txt, NEW addr, NEW x,
         x = Res(i, host, port, txt, addr)
  PROVE  x.instance = i /\ x.host = host /\ x.port = port /\ x.txt = txt /\ x.addr = addr
BY DEF Res

LEMMA PtrAdded ==
  ASSUME AnswersInv, NEW n \in DOMAIN asked, NEW i \in Found, NEW r,
         r = [type |-> "PTR", instance |-> i], Answers!Fits(n, r)
  PROVE  TrueList(n, Answers!add_ptr(n, r), heard \cup {r})
<1> DEFINE h == heard \cup {r}
           k == Answers!OfInstance(n, r)
           x == Answers!At(n, k)
           new == Res(i, None, None, None, {})
<1>1. asked[n].type = "PTR"
  BY DEF Answers!Fits
<1>2. TrueList(n, results[n], h) /\ asked[n].max \in Nat
  BY OneSearch
<1>3. Answers!add_ptr(n, r) = Answers!Put(n, k, x, new)
  <2>1. [Answers!NoResult EXCEPT !.instance = r.instance] = new
    BY DEF Answers!NoResult, Res
  <2> QED BY <2>1 DEF Answers!add_ptr
<1>4. OfName(n, k, i)
  <2>1. results[n] \in Seq(Collected(n)) /\ r.instance = i
    BY OneSearch
  <2>2. OfName(n, k, r.instance)
    BY <2>1, InstanceFound
  <2> QED BY <2>1, <2>2
<1> HIDE DEF k
<1>5. k > 0 => x \in Collected(n) /\ Truth(n, x, h) /\ KeyOf(n, x) = KeyOf(n, results[n][k])
  BY <1>4, OldResult DEF OfName
<1>6. /\ new.instance = i /\ new.host = None /\ new.port = None /\ new.txt = None
      /\ new.addr = {}
  BY ResFields
<1>7. new \in Collected(n)
  BY ResIn
<1> HIDE DEF new, h, x
<1>8. Truth(n, new, h)
  BY <1>1, <1>6 DEF Truth, ByHost, AddressesOf
<1>9. k = 0 => \A j \in 1 .. Len(results[n]) : KeyOf(n, results[n][j]) # KeyOf(n, new)
  BY <1>1, <1>4, <1>6 DEF OfName, KeyOf
<1>10. TrueList(n, Answers!Put(n, k, x, new), h)
  BY <1>2, <1>4, <1>5, <1>7, <1>8, <1>9, PutKeeps DEF OfName
<1> QED BY <1>3, <1>10 DEF h

LEMMA SrvOfInstance ==
  ASSUME AnswersInv, NEW n \in DOMAIN asked, NEW i \in Found, NEW host \in FoundOn,
         NEW port \in FoundPorts, NEW r,
         r = [type |-> "SRV", instance |-> i, host |-> host, port |-> port],
         asked[n].type = "PTR"
  PROVE  TrueList(n, Answers!add_srv(n, r), heard \cup {r})
<1> DEFINE h == heard \cup {r}
           k == Answers!OfInstance(n, r)
           old == Answers!At(n, k)
           x == IF old.host = None THEN [old EXCEPT !.host = r.host, !.port = r.port] ELSE old
           new == Res(i, host, port, None, {})
<1>1. TrueList(n, results[n], h) /\ asked[n].max \in Nat
  BY OneSearch
<1>2. Answers!add_srv(n, r) = Answers!Put(n, k, x, new)
  <2> DEFINE one == [Answers!NoResult EXCEPT !.instance = r.instance]
  <2>1. one = Res(i, None, None, None, {})
    BY DEF Answers!NoResult, Res
  <2>2. r.host = host /\ r.port = port
    OBVIOUS
  <2> HIDE DEF one
  <2>3. one.host = None /\ [one EXCEPT !.host = host, !.port = port] = new
    <3> DEFINE placed == [one EXCEPT !.host = host]
    <3>1. one.host = None /\ placed = Res(i, host, None, None, {})
      BY <2>1 DEF Res
    <3> HIDE DEF placed
    <3>2. [placed EXCEPT !.port = port] = new
      BY <3>1 DEF Res
    <3> QED BY <3>1, <3>2 DEF placed
  <2> QED BY <2>2, <2>3 DEF one, Answers!add_srv
<1>3. OfName(n, k, i)
  <2>1. results[n] \in Seq(Collected(n)) /\ r.instance = i
    BY OneSearch
  <2>2. OfName(n, k, r.instance)
    BY <2>1, InstanceFound
  <2> QED BY <2>1, <2>2
<1>4. host # None /\ port # None
  BY AnswersAssumption
<1> HIDE DEF k
<1>5. k > 0 => x \in Collected(n) /\ Truth(n, x, h) /\ KeyOf(n, x) = KeyOf(n, results[n][k])
  <2> SUFFICES ASSUME k > 0
               PROVE  /\ x \in Collected(n) /\ Truth(n, x, h)
                      /\ KeyOf(n, x) = KeyOf(n, results[n][k])
    OBVIOUS
  <2>1. old = results[n][k] /\ old \in Collected(n) /\ Truth(n, old, h) /\ old.instance = i
    BY <1>3, OldResult DEF OfName
  <2> HIDE DEF old
  <2>2. CASE old.host # None
    BY <2>1, <2>2
  <2>3. CASE old.host = None
    <3>1. /\ old = Res(old.instance, old.host, old.port, old.txt, old.addr)
          /\ old.txt \in FoundTexts \cup {None} /\ old.addr = {}
      BY <2>1, <2>3, FieldsOf DEF Truth
    <3>2. x = Res(i, host, port, old.txt, old.addr)
      BY <2>1, <2>3, <3>1 DEF Res
    <3> HIDE DEF x
    <3>3. /\ x.instance = i /\ x.host = host /\ x.port = port /\ x.txt = old.txt
          /\ x.addr = {}
      BY <3>1, <3>2, ResFields
    <3>4. x \in Collected(n)
      BY <3>1, <3>2, ResIn
    <3>5. Truth(n, x, h)
      <4>1. SaidOf(i, x, h)
        BY <3>3 DEF SaidOf
      <4>2. x.txt # None => TextOf(i, x, h)
        BY <2>1, <3>3 DEF Truth, TextOf, About
      <4> QED BY <1>4, <3>3, <4>1, <4>2 DEF Truth, ByHost, About, AddressesOf
    <3> QED BY <2>1, <3>3, <3>4, <3>5 DEF KeyOf
  <2> QED BY <2>2, <2>3
<1>6. /\ new.instance = i /\ new.host = host /\ new.port = port /\ new.txt = None
      /\ new.addr = {}
  BY ResFields
<1>7. new \in Collected(n)
  BY ResIn
<1> HIDE DEF new, x
<1>8. Truth(n, new, h)
  <2>1. SaidOf(i, new, h)
    BY <1>6 DEF SaidOf
  <2> QED BY <1>4, <1>6, <2>1 DEF Truth, ByHost, About, AddressesOf
<1> HIDE DEF h
<1>9. k = 0 => \A j \in 1 .. Len(results[n]) : KeyOf(n, results[n][j]) # KeyOf(n, new)
  BY <1>3, <1>6 DEF OfName, KeyOf
<1>10. TrueList(n, Answers!Put(n, k, x, new), h)
  BY <1>1, <1>3, <1>5, <1>7, <1>8, <1>9, PutKeeps DEF OfName
<1> QED BY <1>2, <1>10 DEF h

LEMMA SrvByHost ==
  ASSUME AnswersInv, NEW n \in DOMAIN asked, NEW i \in Found, NEW host \in FoundOn,
         NEW port \in FoundPorts, NEW r,
         r = [type |-> "SRV", instance |-> i, host |-> host, port |-> port],
         Answers!Fits(n, r), asked[n].type # "PTR"
  PROVE  TrueList(n, Answers!add_srv(n, r), heard \cup {r})
<1> DEFINE h == heard \cup {r}
           k == Answers!OfHost(n, r)
           x == Answers!At(n, k)
           new == Res(i, host, port, None, {})
<1>1. TrueList(n, results[n], h) /\ asked[n].max \in Nat
  BY OneSearch
<1>2. asked[n].instance = i /\ ~ ByHost(n)
  BY DEF Answers!Fits, Answers!FitsService, ByHost
<1>3. Answers!add_srv(n, r) = Answers!Put(n, k, x, new)
  <2>1. [Answers!NoResult EXCEPT !.instance = asked[n].instance,
                                 !.host = r.host, !.port = r.port] = new
    <3>1. r.host = host /\ r.port = port
      OBVIOUS
    <3> DEFINE named == [Answers!NoResult EXCEPT !.instance = i]
               placed == [named EXCEPT !.host = host]
    <3>2. named = Res(i, None, None, None, {})
      BY DEF Answers!NoResult, Res
    <3> HIDE DEF named
    <3>3. placed = Res(i, host, None, None, {})
      BY <3>2 DEF Res
    <3> HIDE DEF placed
    <3>4. [placed EXCEPT !.port = port] = new
      BY <3>3 DEF Res
    <3> QED BY <1>2, <3>1, <3>4 DEF named, placed
  <2> QED BY <2>1 DEF Answers!add_srv
<1>4. OnHost(n, k, host)
  <2>1. results[n] \in Seq(Collected(n)) /\ r.host = host
    BY OneSearch
  <2>2. OnHost(n, k, r.host)
    BY <2>1, HostFound
  <2> QED BY <2>1, <2>2
<1>5. host # None /\ port # None
  BY AnswersAssumption
<1> HIDE DEF k
<1>6. k > 0 => x \in Collected(n) /\ Truth(n, x, h) /\ KeyOf(n, x) = KeyOf(n, results[n][k])
  BY <1>4, OldResult DEF OnHost
<1>7. /\ new.instance = i /\ new.host = host /\ new.port = port /\ new.txt = None
      /\ new.addr = {}
  BY ResFields
<1>8. new \in Collected(n)
  BY ResIn
<1> HIDE DEF new, x
<1>9. Truth(n, new, h)
  <2>1. SaidOf(i, new, h)
    BY <1>7 DEF SaidOf
  <2> QED BY <1>2, <1>5, <1>7, <2>1 DEF Truth, About, AddressesOf
<1> HIDE DEF h
<1>10. k = 0 => \A j \in 1 .. Len(results[n]) : KeyOf(n, results[n][j]) # KeyOf(n, new)
  BY <1>4, <1>7 DEF OnHost, KeyOf
<1>11. TrueList(n, Answers!Put(n, k, x, new), h)
  BY <1>1, <1>4, <1>6, <1>8, <1>9, <1>10, PutKeeps DEF OnHost
<1> QED BY <1>3, <1>11 DEF h

(* The results that a text may be put to: in a search by PTR those of its  *)
(* instance, in another one any.                                           *)
Texted(n, k, i) ==
  /\ k \in 0 .. Len(results[n])
  /\ k > 0 => About(n, results[n][k]) = i
  /\ k = 0 => IF asked[n].type = "PTR"
                THEN \A j \in 1 .. Len(results[n]) : results[n][j].instance # i
                ELSE Len(results[n]) = 0

LEMMA TxtPut ==
  ASSUME AnswersInv, NEW n \in DOMAIN asked, NEW i \in Found, NEW txt \in FoundTexts,
         NEW r, r = [type |-> "TXT", instance |-> i, txt |-> txt],
         ~ ByHost(n), NEW k, Texted(n, k, i), NEW name, NEW x, NEW new,
         name = IF asked[n].type = "PTR" THEN i ELSE None,
         x = IF Answers!At(n, k).txt = None THEN [Answers!At(n, k) EXCEPT !.txt = txt]
             ELSE Answers!At(n, k),
         new = Res(name, None, None, txt, {}),
         asked[n].type # "PTR" => asked[n].instance = i
  PROVE  TrueList(n, Answers!Put(n, k, x, new), heard \cup {r})
<1> DEFINE h == heard \cup {r}
           old == Answers!At(n, k)
<1>1. TrueList(n, results[n], h) /\ asked[n].max \in Nat
  BY OneSearch
<1>2. TextOf(i, [txt |-> txt], h)
  BY DEF TextOf
<1>3. k > 0 => x \in Collected(n) /\ Truth(n, x, h) /\ KeyOf(n, x) = KeyOf(n, results[n][k])
  <2> SUFFICES ASSUME k > 0
               PROVE  /\ x \in Collected(n) /\ Truth(n, x, h)
                      /\ KeyOf(n, x) = KeyOf(n, results[n][k])
    OBVIOUS
  <2>1. old = results[n][k] /\ old \in Collected(n) /\ Truth(n, old, h) /\ About(n, old) = i
    BY OldResult DEF Texted
  <2> HIDE DEF old, h
  <2>2. CASE old.txt # None
    BY <2>1, <2>2 DEF old
  <2>3. CASE old.txt = None
    <3>1. /\ old = Res(old.instance, old.host, old.port, old.txt, old.addr)
          /\ old.instance \in Found \cup {None, asked[n].instance}
          /\ old.host \in FoundOn \cup {None} /\ old.port \in FoundPorts \cup {None}
          /\ old.addr \in SUBSET FoundAddresses
      BY <2>1, FieldsOf
    <3>2. x = Res(old.instance, old.host, old.port, txt, old.addr)
      <4>1. x = [old EXCEPT !.txt = txt]
        BY <2>3 DEF old
      <4> QED BY <3>1, <4>1 DEF Res
    <3>3. /\ x.instance = old.instance /\ x.host = old.host /\ x.port = old.port
          /\ x.txt = txt /\ x.addr = old.addr
      BY ONLY <3>2, ResFields
    <3>4. x \in Collected(n)
      <4>1. txt \in FoundTexts \cup {None}
        OBVIOUS
      <4> QED BY ONLY <3>1, <3>2, <4>1, ResIn
    <3>5. Truth(n, x, h)
      <4>1. About(n, x) = i
        BY <2>1, <3>3 DEF About
      <4>2. TextOf(i, x, h)
        BY <1>2, <3>3 DEF TextOf
      <4> QED BY <2>1, <3>3, <4>1, <4>2 DEF Truth, SaidOf, AddressesOf
    <3>6. KeyOf(n, x) = KeyOf(n, old)
      BY <3>3 DEF KeyOf
    <3> QED BY <2>1, <3>4, <3>5, <3>6
  <2> QED BY <2>2, <2>3
<1> HIDE DEF old
<1>4. /\ new.instance = name /\ new.host = None /\ new.port = None /\ new.txt = txt
      /\ new.addr = {}
  BY ResFields
<1>5. new \in Collected(n)
  BY ResIn
<1>6. Truth(n, new, h)
  <2>1. About(n, new) = i
    BY <1>4 DEF About
  <2>2. TextOf(i, new, h)
    BY <1>4 DEF TextOf
  <2> QED BY <1>4, <2>1, <2>2 DEF Truth, AddressesOf
<1>7. k = 0 => \A j \in 1 .. Len(results[n]) : KeyOf(n, results[n][j]) # KeyOf(n, new)
  BY <1>4 DEF Texted, KeyOf
<1> HIDE DEF h
<1>8. TrueList(n, Answers!Put(n, k, x, new), h)
  BY <1>1, <1>3, <1>5, <1>6, <1>7, PutKeeps DEF Texted
<1> QED BY <1>8 DEF h

LEMMA TxtAdded ==
  ASSUME AnswersInv, NEW n \in DOMAIN asked, NEW i \in Found, NEW txt \in FoundTexts,
         NEW r, r = [type |-> "TXT", instance |-> i, txt |-> txt], Answers!Fits(n, r)
  PROVE  TrueList(n, Answers!add_txt(n, r), heard \cup {r})
<1> DEFINE k == IF asked[n].type = "PTR" THEN Answers!OfInstance(n, r)
                ELSE IF results[n] = <<>> THEN 0 ELSE 1
           name == IF asked[n].type = "PTR" THEN i ELSE None
           x == IF Answers!At(n, k).txt = None THEN [Answers!At(n, k) EXCEPT !.txt = txt]
                ELSE Answers!At(n, k)
           new == Res(name, None, None, txt, {})
<1>1. ~ ByHost(n) /\ (asked[n].type # "PTR" => asked[n].instance = i)
  BY DEF Answers!Fits, Answers!FitsService, ByHost
<1>2. Texted(n, k, i)
  <2>1. results[n] \in Seq(Collected(n)) /\ Len(results[n]) \in Nat /\ r.instance = i
        /\ (results[n] = <<>> <=> Len(results[n]) = 0)
    BY OneSearch
  <2>2. CASE asked[n].type = "PTR"
    <3>1. OfName(n, k, i)
      <4>1. OfName(n, Answers!OfInstance(n, r), r.instance)
        BY <2>1, InstanceFound
      <4> QED BY <2>1, <2>2, <4>1
    <3> QED BY <2>2, <3>1 DEF OfName, Texted, About
  <2>3. CASE asked[n].type # "PTR"
    BY <1>1, <2>1, <2>3 DEF Texted, About
  <2> QED BY <2>2, <2>3
<1>3. Answers!add_txt(n, r) = Answers!Put(n, k, x, new)
  <2> DEFINE base == IF asked[n].type = "PTR"
                       THEN [Answers!NoResult EXCEPT !.instance = r.instance]
                       ELSE Answers!NoResult
  <2>1. base = Res(name, None, None, None, {}) /\ r.txt = txt
    BY DEF Answers!NoResult, Res
  <2> HIDE DEF base, name
  <2>2. base.txt = None /\ [base EXCEPT !.txt = txt] = new
    BY <2>1 DEF Res
  <2> HIDE DEF k
  <2>3. Answers!add_txt(n, r) = Answers!Put(n, k, x, IF base.txt = None THEN [base EXCEPT !.txt = txt] ELSE base)
    BY <2>1 DEF Answers!add_txt, k, base
  <2> QED BY <2>2, <2>3
<1> HIDE DEF k
<1>4. TrueList(n, Answers!Put(n, k, x, new), heard \cup {r})
  BY <1>1, <1>2, TxtPut
<1> QED BY <1>3, <1>4

(* An address goes to a result of its host.                                *)
LEMMA IpAdded ==
  ASSUME AnswersInv, NEW n \in DOMAIN asked, NEW host \in FoundOn, NEW addr \in FoundAddresses,
         NEW r, r = [type |-> "A", host |-> host, addr |-> addr], Answers!Fits(n, r)
  PROVE  TrueList(n, Answers!add_ip(n, r), heard \cup {r})
<1> DEFINE h == heard \cup {r}
           k == IF asked[n].type \in {"PTR", "SRV"} THEN Answers!OfHost(n, r)
                ELSE IF results[n] = <<>> THEN 0 ELSE 1
           old == Answers!At(n, k)
           x == [old EXCEPT !.addr = old.addr \cup {addr}]
           new == Res(None, host, None, None, {addr})
<1>1. TrueList(n, results[n], h) /\ asked[n].max \in Nat
  BY OneSearch
<1>2. host # None
  BY AnswersAssumption
<1>3. \/ asked[n].type \in {"PTR", "SRV"} /\ Answers!OfHost(n, r) > 0
      \/ asked[n].type \notin {"PTR", "SRV"} /\ ByHost(n) /\ asked[n].instance = host
  BY DEF Answers!Fits, Answers!FitsAddress, ByHost
<1>4. /\ k \in 0 .. Len(results[n]) /\ (k > 0 => results[n][k].host = host)
      /\ k = 0 => ByHost(n) /\ asked[n].instance = host /\ Len(results[n]) = 0
  <2>1. results[n] \in Seq(Collected(n)) /\ Len(results[n]) \in Nat /\ r.host = host
        /\ (results[n] = <<>> <=> Len(results[n]) = 0)
    BY OneSearch
  <2>2. CASE asked[n].type \in {"PTR", "SRV"}
    <3>1. OnHost(n, Answers!OfHost(n, r), r.host)
      BY <2>1, HostFound
    <3> QED BY <1>3, <2>1, <2>2, <3>1 DEF OnHost
  <2>3. CASE asked[n].type \notin {"PTR", "SRV"}
    <3>1. ByHost(n) /\ asked[n].instance = host
      BY <1>3, <2>3
    <3>2. results[n] # <<>> => 1 \in 1 .. Len(results[n])
      BY <2>1
    <3>3. results[n] # <<>> => Truth(n, results[n][1], h)
      BY <3>2, OneSearch
    <3>4. results[n] # <<>> => results[n][1].host = host
      BY <3>1, <3>3 DEF Truth
    <3> QED BY <2>1, <2>3, <3>1, <3>2, <3>4
  <2> QED BY <2>2, <2>3
<1>5. Answers!add_ip(n, r) = Answers!Put(n, k, x, new)
  <2> DEFINE base == [Answers!NoResult EXCEPT !.host = r.host]
  <2>1. base = Res(None, host, None, None, {}) /\ r.addr = addr
    BY DEF Answers!NoResult, Res
  <2> HIDE DEF base
  <2>2. base.addr = {} /\ [base EXCEPT !.addr = {addr}] = new
    BY <2>1 DEF Res
  <2> HIDE DEF k
  <2>3. Answers!add_ip(n, r) =
          Answers!Put(n, k, x, [base EXCEPT !.addr = base.addr \cup {addr}])
    BY <2>1 DEF Answers!add_ip, k, base
  <2>4. base.addr \cup {addr} = {addr}
    BY <2>2
  <2> QED BY <2>2, <2>3, <2>4
<1> HIDE DEF k
<1>6. k > 0 => x \in Collected(n) /\ Truth(n, x, h) /\ KeyOf(n, x) = KeyOf(n, results[n][k])
  <2> SUFFICES ASSUME k > 0
               PROVE  /\ x \in Collected(n) /\ Truth(n, x, h)
                      /\ KeyOf(n, x) = KeyOf(n, results[n][k])
    OBVIOUS
  <2>1. old = results[n][k] /\ old \in Collected(n) /\ Truth(n, old, h) /\ old.host = host
    BY <1>4, OldResult
  <2> HIDE DEF old
  <2>2. /\ old = Res(old.instance, old.host, old.port, old.txt, old.addr)
        /\ old.instance \in Found \cup {None, asked[n].instance}
        /\ old.port \in FoundPorts \cup {None} /\ old.txt \in FoundTexts \cup {None}
        /\ old.addr \in SUBSET FoundAddresses
    BY <2>1, FieldsOf
  <2>3. x = Res(old.instance, old.host, old.port, old.txt, old.addr \cup {addr})
    BY <2>2 DEF Res
  <2> HIDE DEF x
  <2>4. /\ x.instance = old.instance /\ x.host = old.host /\ x.port = old.port
        /\ x.txt = old.txt /\ x.addr = old.addr \cup {addr}
    BY <2>3, ResFields
  <2>5. x \in Collected(n)
    BY <2>1, <2>2, <2>3, ResIn
  <2>6. Truth(n, x, h)
    <3>1. AddressesOf(x, h)
      BY <2>1, <2>4 DEF Truth, AddressesOf
    <3>2. About(n, x) = About(n, old)
      BY <2>4 DEF About
    <3> QED BY <1>2, <2>1, <2>4, <3>1, <3>2 DEF Truth, SaidOf, TextOf
  <2> QED BY <2>1, <2>4, <2>5, <2>6 DEF KeyOf
<1> HIDE DEF x
<1>7. /\ new.instance = None /\ new.host = host /\ new.port = None /\ new.txt = None
      /\ new.addr = {addr}
  BY ResFields
<1>8. new \in Collected(n)
  BY ResIn
<1> HIDE DEF new
<1>9. k = 0 => Truth(n, new, h)
  <2>1. AddressesOf(new, h)
    BY <1>7 DEF AddressesOf
  <2> QED BY <1>2, <1>4, <1>7, <2>1 DEF Truth
<1> HIDE DEF h
<1>10. k = 0 => \A j \in 1 .. Len(results[n]) : KeyOf(n, results[n][j]) # KeyOf(n, new)
  BY <1>4
<1>11. TrueList(n, Answers!Put(n, k, x, new), h)
  BY <1>1, <1>4, <1>6, <1>8, <1>9, <1>10, PutKeeps
<1> QED BY <1>5, <1>11 DEF h


-----------------------------------------------------------------------------
(* What searches collect: together                                         *)

LEMMA FirstFits ==
  ASSUME AnswersInv, NEW r, Answers!Fitting(r) # {}
  PROVE  Answers!query_find(r) \in Answers!Fitting(r)
<1>1. Answers!Fitting(r) \in SUBSET Nat
  BY OneSearch DEF Answers!Fitting
<1> QED BY <1>1, Least DEF Answers!query_find

(* A list is true of the searches and of what was heard only.              *)
LEMMA ListsCarried ==
  ASSUME NEW h, asked \in Chains, UNCHANGED asked, heard' = h,
         results' = [n \in DOMAIN asked |-> results'[n]],
         \A n \in DOMAIN asked : TrueList(n, results'[n], h)
  PROVE  AnswersInv'
<1>1. ASSUME NEW n \in DOMAIN asked PROVE TrueList(n, results[n], heard)'
  <2>1. TrueList(n, results'[n], h)
    OBVIOUS
  <2>2. (results[n] \in Seq(Collected(n)))'
    BY <2>1 DEF TrueList, Collected
  <2>3. ASSUME NEW k \in 1 .. Len(results'[n]) PROVE Truth(n, results[n][k], heard)'
    <3>1. Truth(n, results'[n][k], h)
      BY <2>1 DEF TrueList
    <3> QED BY <3>1 DEF Truth, SaidOf, TextOf, AddressesOf, ByHost, About
  <2>4. ASSUME NEW k \in 1 .. Len(results'[n]), NEW m \in 1 .. Len(results'[n]), m # k
        PROVE  (KeyOf(n, results[n][m]) # KeyOf(n, results[n][k]))'
    <3>1. KeyOf(n, results'[n][m]) # KeyOf(n, results'[n][k])
      BY <2>1, <2>4 DEF TrueList
    <3> QED BY <3>1 DEF KeyOf
  <2>5. (asked[n].max > 0 => Len(results[n]) <= asked[n].max)'
    BY <2>1 DEF TrueList
  <2> QED BY <2>2, <2>3, <2>4, <2>5 DEF TrueList
<1> QED BY <1>1 DEF AnswersInv

(* The search a record is for gets it, the others keep what they have.     *)
LEMMA OneTold ==
  ASSUME AnswersInv, NEW r, NEW n \in DOMAIN asked, NEW list,
         TrueList(n, list, heard \cup {r}), heard' = heard \cup {r}, UNCHANGED asked,
         results' = [results EXCEPT ![n] = list]
  PROVE  AnswersInv'
<1>1. /\ results' = [m \in DOMAIN asked |-> results'[m]] /\ results'[n] = list
      /\ \A m \in DOMAIN asked : m # n => results'[m] = results[m]
  BY DEF AnswersInv
<1>2. ASSUME NEW m \in DOMAIN asked PROVE TrueList(m, results'[m], heard \cup {r})
  BY <1>1, OneSearch
<1> QED BY <1>1, <1>2, ListsCarried DEF AnswersInv

LEMMA ParsePreserves ==
  ASSUME AnswersInv, NEW r \in Answers!Answer, Answers!ParseAnswer(r)
  PROVE  AnswersInv'
<1> DEFINE n == Answers!query_find(r)
<1>1. heard' = heard \cup {r} /\ UNCHANGED asked
  BY DEF Answers!ParseAnswer
<1>2. n \in DOMAIN asked /\ Answers!Fits(n, r)
  BY FirstFits DEF Answers!ParseAnswer, Answers!Fitting
<1> HIDE DEF n
<1>3. CASE r \in [type : {"PTR"}, instance : Found]
  <2>1. r.instance \in Found /\ r.type = "PTR" /\ r = [type |-> "PTR", instance |-> r.instance]
    BY <1>3
  <2>2. results' = [results EXCEPT ![n] = Answers!add_ptr(n, r)]
    BY <2>1 DEF Answers!ParseAnswer, n
  <2>3. TrueList(n, Answers!add_ptr(n, r), heard \cup {r})
    BY <1>2, <2>1, PtrAdded
  <2> QED BY <1>1, <1>2, <2>2, <2>3, OneTold
<1>4. CASE r \in [type : {"SRV"}, instance : Found, host : FoundOn, port : FoundPorts]
  <2>1. /\ r.instance \in Found /\ r.host \in FoundOn /\ r.port \in FoundPorts
        /\ r.type = "SRV"
        /\ r = [type |-> "SRV", instance |-> r.instance, host |-> r.host, port |-> r.port]
    BY <1>4
  <2>2. results' = [results EXCEPT ![n] = Answers!add_srv(n, r)]
    BY <2>1 DEF Answers!ParseAnswer, n
  <2>3. TrueList(n, Answers!add_srv(n, r), heard \cup {r})
    <3>1. CASE asked[n].type = "PTR"
      BY <1>2, <2>1, <3>1, SrvOfInstance
    <3>2. CASE asked[n].type # "PTR"
      BY <1>2, <2>1, <3>2, SrvByHost
    <3> QED BY <3>1, <3>2
  <2> QED BY <1>1, <1>2, <2>2, <2>3, OneTold
<1>5. CASE r \in [type : {"TXT"}, instance : Found, txt : FoundTexts]
  <2>1. /\ r.instance \in Found /\ r.txt \in FoundTexts /\ r.type = "TXT"
        /\ r = [type |-> "TXT", instance |-> r.instance, txt |-> r.txt]
    BY <1>5
  <2>2. results' = [results EXCEPT ![n] = Answers!add_txt(n, r)]
    BY <2>1 DEF Answers!ParseAnswer, n
  <2>3. TrueList(n, Answers!add_txt(n, r), heard \cup {r})
    BY <1>2, <2>1, TxtAdded
  <2> QED BY <1>1, <1>2, <2>2, <2>3, OneTold
<1>6. CASE r \in [type : {"A"}, host : FoundOn, addr : FoundAddresses]
  <2>1. /\ r.host \in FoundOn /\ r.addr \in FoundAddresses /\ r.type = "A"
        /\ r = [type |-> "A", host |-> r.host, addr |-> r.addr]
    BY <1>6
  <2>2. results' = [m \in DOMAIN results |->
                      IF Answers!Fits(m, r) THEN Answers!add_ip(m, r) ELSE results[m]]
    BY <2>1 DEF Answers!ParseAnswer
  <2>3. DOMAIN results = DOMAIN asked
    BY DEF AnswersInv
  <2>4. ASSUME NEW m \in DOMAIN asked PROVE TrueList(m, results'[m], heard \cup {r})
    <3>1. CASE Answers!Fits(m, r)
      <4>1. TrueList(m, Answers!add_ip(m, r), heard \cup {r})
        BY <2>1, <3>1, IpAdded
      <4> QED BY <2>2, <2>3, <3>1, <4>1
    <3>2. CASE ~ Answers!Fits(m, r)
      BY <2>2, <2>3, <3>2, OneSearch
    <3> QED BY <3>1, <3>2
  <2>5. results' = [m \in DOMAIN asked |-> results'[m]]
    BY <2>2, <2>3
  <2> QED BY <1>1, <2>4, <2>5, ListsCarried DEF AnswersInv
<1> QED BY <1>3, <1>4, <1>5, <1>6 DEF Answers!Answer

(* For every chain of searches, every set of instances, hosts, ports, texts *)
(* and addresses, and every order of records: what is known of each list of *)
(* results, mdns_querier.c:246-323,541-757.                                 *)
THEOREM AnswersInvariance == Answers!Spec => []AnswersInv
<1>1. Answers!Init => AnswersInv
  <2> SUFFICES ASSUME Answers!Init PROVE AnswersInv
    OBVIOUS
  <2>1. asked \in Chains /\ results = [n \in DOMAIN asked |-> <<>>] /\ heard = {}
    BY DEF Answers!Init
  <2>2. \A n \in DOMAIN asked : asked[n].max \in Nat
    BY <2>1, AnswersAssumption
  <2> QED BY <2>1, <2>2 DEF AnswersInv, TrueList
<1>2. AnswersInv /\ [Answers!Next]_(Answers!vars) => AnswersInv'
  <2>1. ASSUME AnswersInv, Answers!Next PROVE AnswersInv'
    BY <2>1, ParsePreserves DEF Answers!Next
  <2>2. ASSUME AnswersInv, UNCHANGED Answers!vars PROVE AnswersInv'
    <3>1. UNCHANGED asked /\ UNCHANGED results /\ UNCHANGED heard
      BY <2>2 DEF Answers!vars
    <3>2. \A n \in DOMAIN asked : TrueList(n, results'[n], heard)
      BY <2>2, <3>1 DEF AnswersInv
    <3> QED BY <2>2, <3>1, <3>2, ListsCarried DEF AnswersInv
  <2> QED BY <2>1, <2>2
<1> QED BY <1>1, <1>2, PTL DEF Answers!Spec

(* A result's host and port, its text and its addresses were heard of the   *)
(* instance and the host it is about, and none is double, though records    *)
(* come in any order (ResultsTrue, mdns_querier.c:541-757).                 *)
THEOREM ResultsAreTrue == Answers!Spec => []ResultsTrue
<1>1. AnswersInv => ResultsTrue
  <2> SUFFICES ASSUME AnswersInv, NEW n \in DOMAIN asked, NEW k \in DOMAIN results[n]
               PROVE  LET x == results[n][k]
                          i == IF asked[n].type = "PTR" THEN x.instance
                               ELSE asked[n].instance
                          byHost == asked[n].type = "A"
                                    \/ (asked[n].type = "ANY" /\ ~ asked[n].service)
                      IN  /\ x.host # None /\ ~ byHost =>
                               [type |-> "SRV", instance |-> i, host |-> x.host,
                                port |-> x.port] \in heard
                          /\ x.txt # None =>
                               [type |-> "TXT", instance |-> i, txt |-> x.txt] \in heard
                          /\ \A a \in x.addr :
                               [type |-> "A", host |-> x.host, addr |-> a] \in heard
                          /\ \A m \in DOMAIN results[n] : m # k =>
                               IF asked[n].type = "PTR"
                                 THEN results[n][m].instance # x.instance
                                 ELSE results[n][m].host # x.host
    BY DEF ResultsTrue, Answers!ResultsTrue
  <2> DEFINE x == results[n][k]
  <2>1. TrueList(n, results[n], heard) /\ DOMAIN results[n] = 1 .. Len(results[n])
    BY LenProperties DEF AnswersInv, TrueList
  <2>2. Truth(n, x, heard)
    BY <2>1 DEF TrueList
  <2>3. \A m \in DOMAIN results[n] : m # k => KeyOf(n, results[n][m]) # KeyOf(n, x)
    BY <2>1 DEF TrueList
  <2> HIDE DEF x
  <2>4. ~ ByHost(n) /\ x.host # None => SaidOf(About(n, x), x, heard)
    BY <2>2 DEF Truth
  <2>5. (x.txt # None => TextOf(About(n, x), x, heard)) /\ AddressesOf(x, heard)
    BY <2>2 DEF Truth
  <2> QED BY <2>3, <2>4, <2>5
          DEF ByHost, About, KeyOf, SaidOf, TextOf, AddressesOf, x
<1> QED BY <1>1, AnswersInvariance, PTL


(* No list is longer than was asked for, and a result has a port when it    *)
(* has a host (mdns_querier.c:678-757).                                     *)
THEOREM ListsAreBounded == Answers!Spec => []Answers!TypeOK
<1>1. AnswersInv => Answers!TypeOK
  <2> SUFFICES ASSUME AnswersInv, NEW n \in DOMAIN asked
               PROVE  /\ asked[n].max > 0 => Len(results[n]) <= asked[n].max
                      /\ \A k \in DOMAIN results[n] :
                           \/ (results[n][k].host = None) = (results[n][k].port = None)
                           \/ asked[n].type \in {"A", "ANY"}
    BY DEF Answers!TypeOK
  <2>1. TrueList(n, results[n], heard) /\ DOMAIN results[n] = 1 .. Len(results[n])
    BY LenProperties DEF AnswersInv, TrueList
  <2>2. ASSUME NEW k \in DOMAIN results[n], asked[n].type \notin {"A", "ANY"}
        PROVE  (results[n][k].host = None) = (results[n][k].port = None)
    <3>1. results[n][k].host = None <=> results[n][k].port = None
      BY <2>1, <2>2 DEF TrueList, Truth, ByHost
    <3> QED BY <3>1
  <2> QED BY <2>1, <2>2 DEF TrueList
<1> QED BY <1>1, AnswersInvariance, PTL

-----------------------------------------------------------------------------
(* The cache: mdns_cache.c                                                 *)

Services ==
  [ptr : Nat, srv : Nat, txt : SUBSET (BrowsedTexts \X Nat), owner : Browsing!Owners]

Caches ==
  [cached : SUBSET Browsed, sync : SUBSET Browsed, entries : SUBSET Browsing!Owners,
   service : [Browsed -> Services],
   address : [Browsing!Owners -> SUBSET (BrowsedAddresses \X Nat)]]

HasRecord(s) == s.ptr > 0 \/ s.srv > 0 \/ s.txt # {}

HostsOf(c) == {c.service[i].owner : i \in c.cached}

(* The entries are those of the services' hosts and perhaps more, and what *)
(* has no entry has no address.                                            *)
Housed(c, more) ==
  /\ c.entries = HostsOf(c) \cup more
  /\ \A h \in Browsing!Owners : h \notin c.entries => c.address[h] = {}

(* What the cache keeps to, but for the service i that a record is about   *)
KeptBut(c, S) ==
  /\ c \in Caches /\ Housed(c, {}) /\ c.sync \subseteq c.cached
  /\ \A i \in Browsed : i \notin c.cached => c.service[i] = Browsing!NoService
  /\ \A i \in c.cached : i \notin S => HasRecord(c.service[i])

Known(c) == KeptBut(c, {})

(* From cache c to d by a record about the service i: who is not to be     *)
(* told is told already, and only those in gone have lost their PTR.       *)
Leads(c, d, i, gone) ==
  /\ Known(d) /\ d.cached \subseteq c.cached \cup {i}
  /\ \A j \in d.cached : j \notin d.sync =>
       j \in c.cached /\ j \notin c.sync /\ Browsing!Result(d, j) = Browsing!Result(c, j)
  /\ \A j \in Browsed : d.service[j].ptr = 0 => c.service[j].ptr = 0 \/ j \in gone

(* In between, i is on its entry but what the record says is not yet kept. *)
Prepared(c, d, i) ==
  /\ KeptBut(d, {i}) /\ i \in d.cached /\ d.cached = c.cached \cup {i}
  /\ d.service[i].ptr = c.service[i].ptr
  /\ \A j \in Browsed : j # i => /\ d.service[j] = c.service[j]
                                 /\ j \in d.sync <=> j \in c.sync
  /\ \A j \in c.cached : j # i =>
       d.address[c.service[j].owner] = c.address[c.service[j].owner]
  /\ \/ d = c
     \/ i \in d.sync
     \/ ~ HasRecord(d.service[i])

LEMMA NoServiceTyped ==
  /\ Browsing!NoService \in Services /\ ~ HasRecord(Browsing!NoService)
  /\ \A h \in Browsing!Owners :
       /\ [Browsing!NoService EXCEPT !.owner = h] \in Services
       /\ [Browsing!NoService EXCEPT !.owner = h].owner = h
       /\ [Browsing!NoService EXCEPT !.owner = h].ptr = Browsing!NoService.ptr
       /\ ~ HasRecord([Browsing!NoService EXCEPT !.owner = h])
BY DEF Browsing!NoService, Services, HasRecord, Browsing!Owners

(* An entry without a service goes, and no other is touched.               *)
LEMMA EntrySwept ==
  ASSUME NEW c \in Caches, NEW h \in Browsing!Owners, Housed(c, {h}),
         NEW d, d = Browsing!RemoveEntryIfUnused(c, h)
  PROVE  /\ d \in Caches /\ Housed(d, {})
         /\ d.service = c.service /\ d.cached = c.cached /\ d.sync = c.sync
         /\ \A k \in HostsOf(c) : d.address[k] = c.address[k]
<1>1. Browsing!On(c, h) = {} <=> h \notin HostsOf(c)
  BY DEF Browsing!On, HostsOf
<1>2. CASE h \in HostsOf(c)
  <2>1. d = c
    BY <1>1, <1>2 DEF Browsing!RemoveEntryIfUnused
  <2> QED BY <1>2, <2>1 DEF Housed
<1>3. CASE h \notin HostsOf(c)
  <2>1. d = [c EXCEPT !.entries = @ \ {h}, !.address[h] = {}]
    BY <1>1, <1>3 DEF Browsing!RemoveEntryIfUnused, Browsing!RemoveEntry
  <2>2. /\ d.service = c.service /\ d.cached = c.cached /\ d.sync = c.sync
        /\ d.entries = c.entries \ {h} /\ d.address = [c.address EXCEPT ![h] = {}]
        /\ d = [cached |-> d.cached, sync |-> d.sync, entries |-> d.entries,
                service |-> d.service, address |-> d.address]
    BY <2>1 DEF Caches
  <2>a. d.entries \in SUBSET Browsing!Owners
        /\ d.address \in [Browsing!Owners -> SUBSET (BrowsedAddresses \X Nat)]
    BY <2>2 DEF Caches
  <2>b. d \in Caches
    BY <2>2, <2>a DEF Caches
  <2>3. \A k \in Browsing!Owners : d.address[k] = IF k = h THEN {} ELSE c.address[k]
    BY <2>2 DEF Caches
  <2>4. HostsOf(d) = HostsOf(c)
    BY <2>2 DEF HostsOf
  <2>5. d.entries = HostsOf(d)
    BY <1>3, <2>2, <2>4 DEF Housed
  <2>6. Housed(d, {})
    BY <2>2, <2>3, <2>5 DEF Housed
  <2>7. HostsOf(c) \subseteq Browsing!Owners
    BY DEF HostsOf, Caches, Services
  <2> QED BY <1>3, <2>2, <2>b, <2>3, <2>6, <2>7
<1> QED BY <1>2, <1>3

LEMMA ServiceAdded ==
  ASSUME NEW c, Known(c), NEW i \in Browsed, i \notin c.cached, NEW h \in Browsing!Owners,
         NEW d, d = Browsing!AddService(c, i, h)
  PROVE  Prepared(c, d, i) /\ d.service[i].owner = h
<1> DEFINE s == [Browsing!NoService EXCEPT !.owner = h]
<1>1. c \in Caches /\ s \in Services /\ s.owner = h /\ ~ HasRecord(s)
      /\ s.ptr = c.service[i].ptr
  BY NoServiceTyped DEF Known, KeptBut
<1>2. d = [c EXCEPT !.entries = @ \cup {h}, !.cached = @ \cup {i}, !.service[i] = s]
  BY DEF Browsing!AddService
<1> HIDE DEF s
<1>3. /\ d.entries = c.entries \cup {h} /\ d.cached = c.cached \cup {i} /\ d.sync = c.sync
      /\ d.service = [c.service EXCEPT ![i] = s] /\ d.address = c.address /\ d \in Caches
  <2>1. /\ d.entries = c.entries \cup {h} /\ d.cached = c.cached \cup {i} /\ d.sync = c.sync
        /\ d.service = [c.service EXCEPT ![i] = s] /\ d.address = c.address
        /\ d = [cached |-> d.cached, sync |-> d.sync, entries |-> d.entries,
                service |-> d.service, address |-> d.address]
    BY <1>1, <1>2 DEF Caches
  <2>2. /\ d.entries \in SUBSET Browsing!Owners /\ d.cached \in SUBSET Browsed
        /\ d.service \in [Browsed -> Services]
    BY <1>1, <2>1 DEF Caches
  <2> QED BY <1>1, <2>1, <2>2 DEF Caches
<1>4. \A j \in Browsed : d.service[j] = IF j = i THEN s ELSE c.service[j]
  BY <1>1, <1>3 DEF Caches
<1>5. HostsOf(d) = HostsOf(c) \cup {h}
  <2>1. c.cached \subseteq Browsed
    BY <1>1 DEF Caches
  <2> QED BY <1>1, <1>3, <1>4, <2>1 DEF HostsOf
<1>6. Housed(d, {})
  BY <1>3, <1>5 DEF Housed, Known, KeptBut
<1>7. KeptBut(d, {i})
  <2>1. c.cached \subseteq Browsed
    BY <1>1 DEF Caches
  <2> QED BY <1>3, <1>4, <1>6, <2>1 DEF KeptBut, Known
<1> QED BY <1>1, <1>3, <1>4, <1>7 DEF Prepared

LEMMA ServiceMoved ==
  ASSUME NEW c, Known(c), NEW i \in Browsed, i \in c.cached, NEW h \in Browsing!Owners,
         NEW d, d = Browsing!cache_move_service(c, i, h)
  PROVE  Prepared(c, d, i) /\ d.service[i].owner = h
<1> DEFINE old == c.service[i].owner
           s == [c.service[i] EXCEPT !.owner = h]
           e == [c EXCEPT !.entries = @ \cup {h}, !.service[i].owner = h, !.sync = @ \cup {i}]
<1>1. /\ c \in Caches /\ c.cached \subseteq Browsed /\ c.service[i] \in Services
      /\ old \in Browsing!Owners
  BY DEF Known, KeptBut, Caches, Services
<1>2. s \in Services /\ s.owner = h /\ s.ptr = c.service[i].ptr
  BY <1>1 DEF Services
<1>3. /\ e.entries = c.entries \cup {h} /\ e.cached = c.cached /\ e.sync = c.sync \cup {i}
      /\ e.service = [c.service EXCEPT ![i] = s] /\ e.address = c.address /\ e \in Caches
  BY <1>1, <1>2 DEF Caches
<1>4. d = Browsing!RemoveEntryIfUnused(e, old)
  BY DEF Browsing!cache_move_service
<1> HIDE DEF e, s
<1>5. \A j \in Browsed : e.service[j] = IF j = i THEN s ELSE c.service[j]
  BY <1>1, <1>3 DEF Caches
<1>6. HostsOf(e) \cup {old} = HostsOf(c) \cup {h}
  BY <1>1, <1>2, <1>3, <1>5 DEF HostsOf
<1>7. Housed(e, {old})
  BY <1>3, <1>6 DEF Housed, Known, KeptBut
<1>8. /\ d \in Caches /\ Housed(d, {})
      /\ d.service = e.service /\ d.cached = e.cached /\ d.sync = e.sync
      /\ \A k \in HostsOf(e) : d.address[k] = e.address[k]
  BY <1>1, <1>3, <1>4, <1>7, EntrySwept
<1>9. KeptBut(d, {i})
  BY <1>1, <1>3, <1>5, <1>8 DEF KeptBut, Known
<1>10. \A j \in c.cached : j # i => c.service[j].owner \in HostsOf(e)
  BY <1>1, <1>3, <1>5 DEF HostsOf
<1> QED BY <1>1, <1>2, <1>3, <1>5, <1>8, <1>9, <1>10 DEF Prepared

LEMMA NothingToPrepare ==
  ASSUME NEW c, Known(c), NEW i \in c.cached
  PROVE  Prepared(c, c, i)
BY DEF Prepared, Known, KeptBut

(* A service updated to what the record says of it, marked if that is new  *)
LEMMA ServiceUpdated ==
  ASSUME NEW c, Known(c), NEW i \in Browsed, NEW d, Prepared(c, d, i),
         NEW s \in Services, HasRecord(s), s.owner = d.service[i].owner,
         s.ptr = 0 => c.service[i].ptr = 0
  PROVE  Leads(c, Browsing!Update(d, i, s), i, {})
<1> DEFINE e == Browsing!Update(d, i, s)
           marked == IF s = d.service[i] THEN d.sync ELSE d.sync \cup {i}
<1>1. /\ d \in Caches /\ d.cached \subseteq Browsed /\ Housed(d, {}) /\ i \in d.cached
      /\ d.sync \subseteq d.cached /\ d.cached = c.cached \cup {i} /\ c.cached \subseteq Browsed
  BY DEF Prepared, KeptBut, Known, Caches
<1>2. e = [d EXCEPT !.service[i] = s, !.sync = marked]
  BY DEF Browsing!Update
<1>3. marked \in SUBSET Browsed /\ marked \subseteq d.cached
  BY <1>1
<1> HIDE DEF e, marked
<1>4. /\ e.cached = d.cached /\ e.entries = d.entries /\ e.address = d.address
      /\ e.service = [d.service EXCEPT ![i] = s] /\ e.sync = marked /\ e \in Caches
  <2>1. /\ e.cached = d.cached /\ e.entries = d.entries /\ e.address = d.address
        /\ e.service = [d.service EXCEPT ![i] = s] /\ e.sync = marked
        /\ e = [cached |-> e.cached, sync |-> e.sync, entries |-> e.entries,
                service |-> e.service, address |-> e.address]
    BY <1>1, <1>2 DEF Caches
  <2>2. e.service \in [Browsed -> Services]
    BY <1>1, <2>1 DEF Caches
  <2> QED BY <1>1, <1>3, <2>1, <2>2 DEF Caches
<1>5. \A j \in Browsed : e.service[j] = IF j = i THEN s ELSE d.service[j]
  BY <1>1, <1>4 DEF Caches
<1>6. Known(e)
  <2>1. HostsOf(e) = HostsOf(d)
    BY <1>1, <1>4, <1>5 DEF HostsOf
  <2>2. Housed(e, {})
    BY <1>1, <1>4, <2>1 DEF Housed
  <2>3. \A j \in Browsed : j \notin e.cached => e.service[j] = Browsing!NoService
    BY <1>1, <1>4, <1>5 DEF Prepared, KeptBut
  <2>4. \A j \in e.cached : HasRecord(e.service[j])
    BY <1>1, <1>4, <1>5 DEF Prepared, KeptBut
  <2> QED BY <1>3, <1>4, <2>2, <2>3, <2>4 DEF Known, KeptBut
<1>7. ASSUME NEW j \in e.cached, j \notin e.sync
      PROVE  j \in c.cached /\ j \notin c.sync /\ Browsing!Result(e, j) = Browsing!Result(c, j)
  <2>1. CASE j = i
    <3>1. s = d.service[i] /\ i \notin d.sync
      BY <1>4, <1>7, <2>1 DEF marked
    <3>2. d = c
      BY <3>1 DEF Prepared
    <3>3. e.service[i] = c.service[i]
      BY <1>5, <3>1, <3>2
    <3> QED BY <1>1, <1>4, <2>1, <3>1, <3>2, <3>3 DEF Browsing!Result
  <2>2. CASE j # i
    <3>1. j \in c.cached /\ j \in Browsed /\ e.service[j] = c.service[j]
      BY <1>1, <1>4, <1>5, <2>2 DEF Prepared
    <3>2. j \notin c.sync
      BY <1>4, <1>7, <2>2, <3>1 DEF Prepared, marked
    <3>3. e.address[c.service[j].owner] = c.address[c.service[j].owner]
      BY <1>4, <2>2, <3>1 DEF Prepared
    <3> QED BY <3>1, <3>2, <3>3 DEF Browsing!Result
  <2> QED BY <2>1, <2>2
<1>8. ASSUME NEW j \in Browsed, e.service[j].ptr = 0 PROVE c.service[j].ptr = 0
  BY <1>5, <1>8 DEF Prepared
<1>9. Leads(c, e, i, {})
  BY <1>1, <1>4, <1>6, <1>7, <1>8 DEF Leads
<1> QED BY <1>9 DEF e

LEMMA ServiceRemoved ==
  ASSUME NEW c, Known(c), NEW i \in Browsed, i \in c.cached
  PROVE  /\ Leads(c, Browsing!cache_remove_service(c, i), i, {i})
         /\ Browsing!cache_remove_service(c, i).service[i] = Browsing!NoService
<1> DEFINE d == Browsing!cache_remove_service(c, i)
           old == c.service[i].owner
           e == [c EXCEPT !.cached = @ \ {i}, !.sync = @ \ {i},
                          !.service[i] = Browsing!NoService]
<1>1. /\ c \in Caches /\ c.cached \subseteq Browsed /\ c.service[i] \in Services
      /\ old \in Browsing!Owners /\ Housed(c, {}) /\ c.sync \subseteq c.cached
  BY DEF Known, KeptBut, Caches, Services
<1>2. d = Browsing!RemoveEntryIfUnused(e, old)
  BY DEF Browsing!cache_remove_service
<1>3. /\ e.cached = c.cached \ {i} /\ e.sync = c.sync \ {i} /\ e.entries = c.entries
      /\ e.address = c.address /\ e.service = [c.service EXCEPT ![i] = Browsing!NoService]
      /\ e \in Caches
  <2> DEFINE service == [c.service EXCEPT ![i] = Browsing!NoService]
             rest == c.cached \ {i}
             wait == c.sync \ {i}
  <2>0. e = [c EXCEPT !.cached = rest, !.sync = wait, !.service = service]
    BY <1>1 DEF Caches
  <2> HIDE DEF service, rest, wait, e
  <2>a. /\ e.cached = rest /\ e.sync = wait /\ e.entries = c.entries
        /\ e.address = c.address /\ e.service = service
        /\ e = [cached |-> e.cached, sync |-> e.sync, entries |-> e.entries,
                service |-> e.service, address |-> e.address]
    BY <1>1, <2>0 DEF Caches
  <2>1. /\ e.cached = c.cached \ {i} /\ e.sync = c.sync \ {i} /\ e.entries = c.entries
        /\ e.address = c.address /\ e.service = [c.service EXCEPT ![i] = Browsing!NoService]
        /\ e = [cached |-> e.cached, sync |-> e.sync, entries |-> e.entries,
                service |-> e.service, address |-> e.address]
    BY <2>a DEF service, rest, wait
  <2>2. e.service \in [Browsed -> Services]
    BY <1>1, <2>1, NoServiceTyped DEF Caches
  <2> QED BY <1>1, <2>1, <2>2 DEF Caches
<1> HIDE DEF e, d
<1>4. \A j \in Browsed : e.service[j] = IF j = i THEN Browsing!NoService ELSE c.service[j]
  BY <1>1, <1>3 DEF Caches
<1>5. Housed(e, {old})
  <2>1. HostsOf(e) \cup {old} = HostsOf(c)
    BY <1>1, <1>3, <1>4 DEF HostsOf
  <2> QED BY <1>1, <1>3, <2>1 DEF Housed
<1>6. /\ d \in Caches /\ Housed(d, {})
      /\ d.service = e.service /\ d.cached = e.cached /\ d.sync = e.sync
      /\ \A k \in HostsOf(e) : d.address[k] = e.address[k]
  BY <1>1, <1>2, <1>3, <1>5, EntrySwept
<1>7. Known(d)
  BY <1>1, <1>3, <1>4, <1>6 DEF Known, KeptBut
<1>8. ASSUME NEW j \in d.cached, j \notin d.sync
      PROVE  j \in c.cached /\ j \notin c.sync /\ Browsing!Result(d, j) = Browsing!Result(c, j)
  <2>1. j \in c.cached /\ j # i /\ j \in Browsed /\ j \notin c.sync
    BY <1>1, <1>3, <1>6, <1>8
  <2>2. d.service[j] = c.service[j]
    BY <1>4, <1>6, <2>1
  <2>3. d.address[c.service[j].owner] = c.address[c.service[j].owner]
    <3>1. c.service[j].owner \in HostsOf(e)
      BY <1>3, <1>4, <2>1 DEF HostsOf
    <3> QED BY <1>3, <1>6, <3>1
  <2> QED BY <2>1, <2>2, <2>3 DEF Browsing!Result
<1>9. ASSUME NEW j \in Browsed, d.service[j].ptr = 0 PROVE c.service[j].ptr = 0 \/ j \in {i}
  BY <1>4, <1>6, <1>9
<1>10. Leads(c, d, i, {i}) /\ d.service[i] = Browsing!NoService
  BY <1>1, <1>3, <1>4, <1>6, <1>7, <1>8, <1>9 DEF Leads
<1> QED BY <1>10 DEF d

LEMMA NothingChanged ==
  ASSUME NEW c, Known(c), NEW i
  PROVE  Leads(c, c, i, {})
BY DEF Leads, Known, KeptBut

LEMMA LeadsToo ==
  ASSUME NEW c, NEW d, NEW i, Leads(c, d, i, {i}), c.service[i].ptr = 0
  PROVE  Leads(c, d, i, {})
BY DEF Leads

-----------------------------------------------------------------------------
(* The cache: one record                                                   *)

LEMMA PtrKeeps ==
  ASSUME NEW c, Known(c), NEW i \in Browsed, NEW ttl \in Nat
  PROVE  /\ ttl = 0 => /\ Leads(c, Browsing!update_ptr(c, i, ttl), i, {i})
                       /\ Browsing!update_ptr(c, i, ttl).service[i].ptr = 0
         /\ ttl # 0 => Leads(c, Browsing!update_ptr(c, i, ttl), i, {})
<1> DEFINE d == IF i \in c.cached THEN c ELSE Browsing!AddService(c, i, NoHost)
           s == [d.service[i] EXCEPT !.ptr = ttl]
<1>1. CASE ttl = 0 /\ i \notin c.cached
  <2>1. Browsing!update_ptr(c, i, ttl) = c
    BY <1>1 DEF Browsing!update_ptr
  <2>2. Leads(c, c, i, {})
    BY NothingChanged
  <2>3. c.service[i].ptr = 0
    BY <1>1 DEF Known, KeptBut, Browsing!NoService
  <2> QED BY <1>1, <2>1, <2>2, <2>3 DEF Leads
<1>2. CASE ttl = 0 /\ i \in c.cached
  <2>1. Browsing!update_ptr(c, i, ttl) = Browsing!cache_remove_service(c, i)
    BY <1>2 DEF Browsing!update_ptr
  <2>2. Browsing!NoService.ptr = 0
    BY DEF Browsing!NoService
  <2> QED BY <1>2, <2>1, <2>2, ServiceRemoved
<1>3. CASE ttl > 0
  <2>1. Browsing!update_ptr(c, i, ttl) = Browsing!Update(d, i, s)
    BY <1>3 DEF Browsing!update_ptr
  <2>2. Prepared(c, d, i)
    <3>1. NoHost \in Browsing!Owners
      BY DEF Browsing!Owners
    <3> QED BY <3>1, NothingToPrepare, ServiceAdded
  <2> HIDE DEF d
  <2>3. d.service[i] \in Services
    BY <2>2 DEF Prepared, KeptBut, Caches
  <2>4. s \in Services /\ HasRecord(s) /\ s.owner = d.service[i].owner /\ s.ptr # 0
    BY <1>3, <2>3 DEF Services, HasRecord
  <2> HIDE DEF s
  <2> QED BY <1>3, <2>1, <2>2, <2>4, ServiceUpdated
<1> QED BY <1>1, <1>2, <1>3

LEMMA TakenBackKeeps ==
  ASSUME NEW c, Known(c), NEW i \in c.cached, NEW s \in Services,
         s.ptr = c.service[i].ptr, s.owner = c.service[i].owner
  PROVE  Leads(c, Browsing!TakenBack(c, i, s), i, {})
<1>1. i \in Browsed /\ Prepared(c, c, i)
  BY NothingToPrepare DEF Known, KeptBut, Caches
<1>2. CASE s.ptr = 0 /\ s.srv = 0 /\ s.txt = {}
  <2>1. Browsing!TakenBack(c, i, s) = Browsing!cache_remove_service(c, i)
    BY <1>2 DEF Browsing!TakenBack
  <2> QED BY <1>1, <1>2, <2>1, ServiceRemoved, LeadsToo
<1>3. CASE ~ (s.ptr = 0 /\ s.srv = 0 /\ s.txt = {})
  <2>1. Browsing!TakenBack(c, i, s) = Browsing!Update(c, i, s)
    BY <1>3 DEF Browsing!TakenBack
  <2>2. HasRecord(s)
    BY <1>3 DEF HasRecord, Services
  <2> QED BY <1>1, <2>1, <2>2, ServiceUpdated
<1> QED BY <1>2, <1>3

LEMMA SrvKeeps ==
  ASSUME NEW c, Known(c), NEW i \in Browsed, NEW h \in BrowsedOn, NEW ttl \in Nat
  PROVE  Leads(c, Browsing!update_srv(c, i, h, ttl), i, {})
<1> DEFINE d == CASE i \notin c.cached -> Browsing!AddService(c, i, h)
                  [] i \in c.cached /\ c.service[i].owner # h ->
                       Browsing!cache_move_service(c, i, h)
                  [] OTHER -> c
           s == [d.service[i] EXCEPT !.srv = ttl]
<1>1. /\ c \in Caches /\ c.service[i] \in Services /\ h \in Browsing!Owners
      /\ i \notin c.cached => c.service[i] = Browsing!NoService
  BY DEF Known, KeptBut, Caches, Browsing!Owners
<1>2. CASE ttl = 0 /\ c.service[i].srv = 0
  <2>1. Browsing!update_srv(c, i, h, ttl) = c
    BY <1>2 DEF Browsing!update_srv
  <2> QED BY <2>1, NothingChanged
<1>3. CASE ttl = 0 /\ c.service[i].srv > 0
  <2>1. Browsing!update_srv(c, i, h, ttl) =
          Browsing!TakenBack(c, i, [c.service[i] EXCEPT !.srv = 0])
    BY <1>3 DEF Browsing!update_srv
  <2>2. i \in c.cached
    BY <1>1, <1>3, NoServiceTyped DEF HasRecord
  <2>3. /\ [c.service[i] EXCEPT !.srv = 0] \in Services
        /\ [c.service[i] EXCEPT !.srv = 0].ptr = c.service[i].ptr
        /\ [c.service[i] EXCEPT !.srv = 0].owner = c.service[i].owner
    BY <1>1 DEF Services
  <2> QED BY <2>1, <2>2, <2>3, TakenBackKeeps
<1>4. CASE ttl > 0
  <2>1. Browsing!update_srv(c, i, h, ttl) = Browsing!Update(d, i, s)
    BY <1>4 DEF Browsing!update_srv
  <2>2. Prepared(c, d, i)
    <3>1. CASE i \notin c.cached
      BY <1>1, <3>1, ServiceAdded
    <3>2. CASE i \in c.cached /\ c.service[i].owner # h
      BY <1>1, <3>2, ServiceMoved
    <3>3. CASE i \in c.cached /\ c.service[i].owner = h
      BY <3>3, NothingToPrepare
    <3> QED BY <3>1, <3>2, <3>3
  <2>3. d.service[i].ptr = c.service[i].ptr
    BY <2>2 DEF Prepared
  <2> HIDE DEF d
  <2>4. d.service[i] \in Services
    BY <2>2 DEF Prepared, KeptBut, Caches
  <2>5. s \in Services /\ HasRecord(s) /\ s.owner = d.service[i].owner
        /\ s.ptr = d.service[i].ptr
    BY <1>4, <2>4 DEF Services, HasRecord
  <2> HIDE DEF s
  <2> QED BY <2>1, <2>2, <2>3, <2>5, ServiceUpdated
<1> QED BY <1>1, <1>2, <1>3, <1>4 DEF Services

LEMMA TxtKeeps ==
  ASSUME NEW c, Known(c), NEW i \in Browsed, NEW txt \in BrowsedTexts, NEW ttl \in Nat
  PROVE  Leads(c, Browsing!update_txt(c, i, txt, ttl), i, {})
<1> DEFINE d == IF i \in c.cached THEN c ELSE Browsing!AddService(c, i, NoHost)
           s == [d.service[i] EXCEPT !.txt = {<<txt, ttl>>}]
<1>1. /\ c \in Caches /\ c.service[i] \in Services /\ NoHost \in Browsing!Owners
      /\ i \notin c.cached => c.service[i] = Browsing!NoService
  BY DEF Known, KeptBut, Caches, Browsing!Owners
<1>2. CASE ttl = 0 /\ c.service[i].txt = {}
  <2>1. Browsing!update_txt(c, i, txt, ttl) = c
    BY <1>2 DEF Browsing!update_txt
  <2> QED BY <2>1, NothingChanged
<1>3. CASE ttl = 0 /\ c.service[i].txt # {}
  <2>1. Browsing!update_txt(c, i, txt, ttl) =
          Browsing!TakenBack(c, i, [c.service[i] EXCEPT !.txt = {}])
    BY <1>3 DEF Browsing!update_txt
  <2>2. i \in c.cached
    BY <1>1, <1>3, NoServiceTyped DEF HasRecord
  <2>3. /\ [c.service[i] EXCEPT !.txt = {}] \in Services
        /\ [c.service[i] EXCEPT !.txt = {}].ptr = c.service[i].ptr
        /\ [c.service[i] EXCEPT !.txt = {}].owner = c.service[i].owner
    BY <1>1 DEF Services
  <2> QED BY <2>1, <2>2, <2>3, TakenBackKeeps
<1>4. CASE ttl > 0
  <2>1. Browsing!update_txt(c, i, txt, ttl) = Browsing!Update(d, i, s)
    BY <1>4 DEF Browsing!update_txt
  <2>2. Prepared(c, d, i)
    BY <1>1, NothingToPrepare, ServiceAdded
  <2> HIDE DEF d
  <2>3. d.service[i] \in Services /\ d.service[i].ptr = c.service[i].ptr
    BY <2>2 DEF Prepared, KeptBut, Caches
  <2>4. /\ s.ptr = d.service[i].ptr /\ s.srv = d.service[i].srv
        /\ s.owner = d.service[i].owner /\ s.txt = {<<txt, ttl>>}
        /\ s = [ptr |-> s.ptr, srv |-> s.srv, txt |-> s.txt, owner |-> s.owner]
    BY <2>3 DEF Services
  <2> HIDE DEF s
  <2>5. s.txt \in SUBSET (BrowsedTexts \X Nat) /\ s.txt # {}
    BY <2>4
  <2>6. s.ptr \in Nat /\ s.srv \in Nat /\ s.owner \in Browsing!Owners
    BY <2>3, <2>4 DEF Services
  <2>7. s \in Services /\ HasRecord(s)
    BY <2>4, <2>5, <2>6 DEF Services, HasRecord
  <2> QED BY <2>1, <2>2, <2>3, <2>4, <2>7, ServiceUpdated
<1> QED BY <1>1, <1>2, <1>3, <1>4

LEMMA AddressKeeps ==
  ASSUME NEW c, Known(c), NEW h \in BrowsedOn, NEW a \in BrowsedAddresses, NEW ttl \in Nat,
         NEW i
  PROVE  Leads(c, Browsing!update_addr(c, h, a, ttl), i, {})
<1> DEFINE others == {p \in c.address[h] : p[1] # a}
           now == IF ttl = 0 THEN others ELSE others \cup {<<a, ttl>>}
           told_of == c.sync \cup Browsing!On(c, h)
           address == [c.address EXCEPT ![h] = now]
           d == Browsing!update_addr(c, h, a, ttl)
<1>1. CASE h \notin c.entries \/ now = c.address[h]
  <2>1. d = c
    BY <1>1 DEF Browsing!update_addr
  <2> QED BY <2>1, NothingChanged
<1>2. CASE ~ (h \notin c.entries \/ now = c.address[h])
  <2>1. /\ c \in Caches /\ c.cached \subseteq Browsed /\ h \in Browsing!Owners
        /\ c.sync \subseteq c.cached /\ Housed(c, {}) /\ h \in c.entries
    BY <1>2 DEF Known, KeptBut, Caches, Browsing!Owners
  <2>2. now \in SUBSET (BrowsedAddresses \X Nat)
    BY <2>1 DEF Caches
  <2>3. d = [c EXCEPT !.address[h] = now, !.sync = @ \cup Browsing!On(c, h)]
    BY <1>2 DEF Browsing!update_addr
  <2>4. told_of \subseteq c.cached
    BY <2>1 DEF Browsing!On
  <2> HIDE DEF now, d
  <2>5. d = [c EXCEPT !.address = address, !.sync = told_of]
    BY <2>1, <2>3 DEF Caches
  <2>6. address \in [Browsing!Owners -> SUBSET (BrowsedAddresses \X Nat)]
        /\ \A k \in Browsing!Owners : address[k] = IF k = h THEN now ELSE c.address[k]
    BY <2>1, <2>2 DEF Caches
  <2> HIDE DEF address, told_of
  <2>7. /\ d.cached = c.cached /\ d.sync = told_of /\ d.entries = c.entries
        /\ d.service = c.service /\ d.address = address
        /\ d = [cached |-> d.cached, sync |-> d.sync, entries |-> d.entries,
                service |-> d.service, address |-> d.address]
    BY <2>1, <2>5 DEF Caches
  <2>8. d \in Caches
    BY <2>1, <2>4, <2>6, <2>7 DEF Caches
  <2>9. Housed(d, {})
    BY <2>1, <2>6, <2>7 DEF Housed, HostsOf
  <2>10. Known(d)
    BY <2>4, <2>7, <2>8, <2>9 DEF Known, KeptBut
  <2>11. ASSUME NEW j \in d.cached, j \notin d.sync
         PROVE  j \in c.cached /\ j \notin c.sync
                /\ Browsing!Result(d, j) = Browsing!Result(c, j)
    <3>1. j \in c.cached /\ j \notin c.sync /\ c.service[j].owner # h
      BY <2>7, <2>11 DEF told_of, Browsing!On
    <3>2. c.service[j].owner \in Browsing!Owners
      BY <2>1, <3>1 DEF Caches, Services
    <3>3. d.address[c.service[j].owner] = c.address[c.service[j].owner]
      BY <2>6, <2>7, <3>1, <3>2
    <3> QED BY <2>7, <3>1, <3>3 DEF Browsing!Result
  <2>12. Leads(c, d, i, {})
    BY <2>7, <2>10, <2>11 DEF Leads
  <2> QED BY <2>12 DEF d
<1> QED BY <1>1, <1>2

(* A type is forgotten: of other types nothing is.                         *)
LEMMA TypeForgotten ==
  ASSUME NEW c, Known(c), NEW type, NEW d, d = Browsing!remove_service_caches(c, type)
  PROVE  /\ Known(d) /\ d.sync \subseteq c.sync
         /\ d.cached = {i \in c.cached : TypeOf[i] # type}
         /\ \A i \in Browsed : TypeOf[i] # type =>
              /\ d.service[i] = c.service[i]
              /\ i \in d.cached => Browsing!Result(d, i) = Browsing!Result(c, i)
         /\ \A i \in Browsed : TypeOf[i] = type => d.service[i] = Browsing!NoService
<1> DEFINE kept == {i \in c.cached : TypeOf[i] # type}
           hosts == {c.service[i].owner : i \in kept}
<1>1. /\ c \in Caches /\ c.cached \subseteq Browsed /\ c.sync \subseteq c.cached
      /\ Housed(c, {}) /\ kept \subseteq c.cached /\ hosts \subseteq HostsOf(c)
      /\ \A i \in Browsed : i \notin c.cached => c.service[i] = Browsing!NoService
      /\ \A i \in c.cached : HasRecord(c.service[i])
  BY DEF Known, KeptBut, Caches, HostsOf
<1>2. /\ d.cached = kept /\ d.sync = c.sync \cap kept /\ d.entries = c.entries \cap hosts
      /\ d.service = [i \in Browsed |-> IF i \in kept THEN c.service[i] ELSE Browsing!NoService]
      /\ d.address = [h \in Browsing!Owners |-> IF h \in hosts THEN c.address[h] ELSE {}]
      /\ d = [cached |-> d.cached, sync |-> d.sync, entries |-> d.entries,
              service |-> d.service, address |-> d.address]
  BY DEF Browsing!remove_service_caches
<1>3. \A i \in Browsed : d.service[i] = IF i \in kept THEN c.service[i] ELSE Browsing!NoService
  BY <1>2
<1>4. \A h \in Browsing!Owners : d.address[h] = IF h \in hosts THEN c.address[h] ELSE {}
  BY <1>2
<1>5. /\ d.service \in [Browsed -> Services]
      /\ d.address \in [Browsing!Owners -> SUBSET (BrowsedAddresses \X Nat)]
      /\ d.entries \in SUBSET Browsing!Owners /\ d.sync \in SUBSET Browsed
      /\ d.cached \in SUBSET Browsed
  BY <1>1, <1>2, NoServiceTyped DEF Caches
<1>6. d \in Caches
  <2> HIDE DEF kept, hosts
  <2> QED BY ONLY <1>2, <1>5 DEF Caches
<1>7. HostsOf(d) = hosts
  BY <1>1, <1>2, <1>3 DEF HostsOf
<1>8. Housed(d, {})
  BY <1>1, <1>2, <1>4, <1>7 DEF Housed
<1>9. Known(d)
  BY <1>1, <1>2, <1>3, <1>6, <1>8 DEF Known, KeptBut
<1>10. ASSUME NEW i \in Browsed, TypeOf[i] # type PROVE d.service[i] = c.service[i]
  BY <1>1, <1>3, <1>10
<1>11. ASSUME NEW i \in kept PROVE Browsing!Result(d, i) = Browsing!Result(c, i)
  <2>1. i \in Browsed /\ d.service[i] = c.service[i] /\ c.service[i].owner \in hosts
    BY <1>1, <1>3
  <2>2. c.service[i].owner \in Browsing!Owners
    BY <1>1, <2>1 DEF Caches, Services
  <2>3. d.address[c.service[i].owner] = c.address[c.service[i].owner]
    BY <1>4, <2>1, <2>2
  <2> QED BY <2>1, <2>3 DEF Browsing!Result
<1>12. ASSUME NEW i \in Browsed, TypeOf[i] = type PROVE d.service[i] = Browsing!NoService
  BY <1>3, <1>12
<1> QED BY <1>2, <1>9, <1>10, <1>11, <1>12

-----------------------------------------------------------------------------
(* The browses: what they are told                                         *)

Tellings ==
  [ptr : Nat, host : Browsing!Owners, addresses : SUBSET BrowsedAddresses,
   txt : SUBSET BrowsedTexts]

Told == [Browses -> [Browsed -> Tellings]]

Running(i) == Browsing!Running(TypeOf[i])

(* What a running browse was last told is true, or it is yet to be told.   *)
ToldTrue(c, tld) ==
  \A b \in Browses, i \in Browsed :
    /\ browse[b].state # "RUNNING" => tld[b][i] = Browsing!Never
    /\ b \in Running(i) /\ c.service[i].ptr = 0 => tld[b][i] = Browsing!Never
    /\ b \in Running(i) /\ c.service[i].ptr # 0 /\ i \notin c.sync =>
         tld[b][i] = Browsing!Result(c, i)

(* Each service has a browse that is on, or about to end.                  *)
Wanted(c) ==
  \A i \in c.cached :
    \E b \in Browses : browse[b].type = TypeOf[i] /\ browse[b].state # "none"

LEMMA ResultTyped ==
  ASSUME NEW c \in Caches, NEW i \in Browsed
  PROVE  Browsing!Result(c, i) \in Tellings
<1> DEFINE s == c.service[i]
           host == IF s.srv > 0 THEN s.owner ELSE NoHost
           addresses == IF s.srv > 0 THEN Browsing!Kept(c.address[s.owner]) ELSE {}
           txt == Browsing!Kept(s.txt)
<1>1. /\ s \in Services /\ s.owner \in Browsing!Owners /\ s.ptr \in Nat
      /\ s.txt \in SUBSET (BrowsedTexts \X Nat)
      /\ c.address[s.owner] \in SUBSET (BrowsedAddresses \X Nat)
  BY DEF Caches, Services
<1>2. /\ host \in Browsing!Owners /\ addresses \in SUBSET BrowsedAddresses
      /\ txt \in SUBSET BrowsedTexts
  BY <1>1 DEF Browsing!Owners, Browsing!Kept
<1>3. Browsing!Result(c, i) = [ptr |-> s.ptr, txt |-> txt, host |-> host,
                               addresses |-> addresses]
  BY DEF Browsing!Result
<1> HIDE DEF host, addresses, txt, s
<1> QED BY <1>1, <1>2, <1>3 DEF Tellings

LEMMA NeverTyped == Browsing!Never \in Tellings
BY DEF Browsing!Never, Tellings, Browsing!Owners

LEMMA NotifyTyped ==
  ASSUME NEW tld \in Told, NEW B, NEW i \in Browsed, NEW telling \in Tellings
  PROVE  /\ Browsing!Notify(tld, B, i, telling) \in Told
         /\ \A b \in Browses, j \in Browsed :
              Browsing!Notify(tld, B, i, telling)[b][j] =
                IF b \in B /\ j = i THEN telling ELSE tld[b][j]
<1> DEFINE now == Browsing!Notify(tld, B, i, telling)
<1>1. now = [b \in Browses |-> IF b \in B THEN [tld[b] EXCEPT ![i] = telling] ELSE tld[b]]
  BY DEF Browsing!Notify
<1> HIDE DEF now
<1>2. ASSUME NEW b \in Browses
      PROVE  now[b] \in [Browsed -> Tellings]
             /\ \A j \in Browsed : now[b][j] = IF b \in B /\ j = i THEN telling ELSE tld[b][j]
  <2>1. tld[b] \in [Browsed -> Tellings]
    BY DEF Told
  <2>2. now[b] = IF b \in B THEN [tld[b] EXCEPT ![i] = telling] ELSE tld[b]
    BY <1>1
  <2> QED BY <2>1, <2>2
<1>3. now \in Told
  BY <1>1, <1>2 DEF Told
<1> QED BY <1>2, <1>3 DEF now

(* Of a service whose browses were told nothing more, all is still true.   *)
LEMMA StillTrue ==
  ASSUME NEW c, NEW d, NEW i, Known(c), Leads(c, d, i, {}), NEW tld, ToldTrue(c, tld)
  PROVE  ToldTrue(d, tld)
<1> SUFFICES ASSUME NEW b \in Browses, NEW j \in Browsed, b \in Running(j)
             PROVE  /\ d.service[j].ptr = 0 => tld[b][j] = Browsing!Never
                    /\ d.service[j].ptr # 0 /\ j \notin d.sync =>
                         tld[b][j] = Browsing!Result(d, j)
  BY DEF ToldTrue
<1>1. d.service[j].ptr = 0 => tld[b][j] = Browsing!Never
  BY DEF Leads, ToldTrue
<1>2. ASSUME d.service[j].ptr # 0, j \notin d.sync
      PROVE  tld[b][j] = Browsing!Result(d, j)
  <2>1. j \in d.cached
    BY <1>2 DEF Leads, Known, KeptBut, Browsing!NoService
  <2>2. j \notin c.sync /\ Browsing!Result(d, j) = Browsing!Result(c, j)
    BY <1>2, <2>1 DEF Leads
  <2>3. Browsing!Result(d, j).ptr = d.service[j].ptr
        /\ Browsing!Result(c, j).ptr = c.service[j].ptr
    BY DEF Browsing!Result
  <2> QED BY <1>2, <2>2, <2>3 DEF ToldTrue
<1> QED BY <1>1, <1>2

(* A goodbye is true when it is told, for the service loses its PTR.       *)
LEMMA GoodbyeTrue ==
  ASSUME NEW c, NEW d, NEW i \in Browsed, Known(c), Leads(c, d, i, {i}),
         d.service[i].ptr = 0, NEW tld \in Told, ToldTrue(c, tld),
         NEW now, now = Browsing!Notify(tld, Running(i), i, Browsing!Never)
  PROVE  ToldTrue(d, now)
<1>1. \A b \in Browses, j \in Browsed :
        now[b][j] = IF b \in Running(i) /\ j = i THEN Browsing!Never ELSE tld[b][j]
  BY NeverTyped, NotifyTyped
<1>2. ASSUME NEW b \in Browses, NEW j \in Browsed, browse[b].state # "RUNNING"
      PROVE  now[b][j] = Browsing!Never
  BY <1>1, <1>2 DEF ToldTrue
<1>3. ASSUME NEW b \in Browses, NEW j \in Browsed, b \in Running(j)
      PROVE  /\ d.service[j].ptr = 0 => now[b][j] = Browsing!Never
             /\ d.service[j].ptr # 0 /\ j \notin d.sync => now[b][j] = Browsing!Result(d, j)
  <2>1. CASE j = i
    BY <1>1, <1>3, <2>1
  <2>2. CASE j # i
    <3>1. now[b][j] = tld[b][j]
      BY <1>1, <2>2
    <3>2. d.service[j].ptr = 0 => now[b][j] = Browsing!Never
      BY <1>3, <2>2, <3>1 DEF Leads, ToldTrue
    <3>3. ASSUME d.service[j].ptr # 0, j \notin d.sync
          PROVE  now[b][j] = Browsing!Result(d, j)
      <4>1. j \in d.cached
        BY <3>3 DEF Leads, Known, KeptBut, Browsing!NoService
      <4>2. j \notin c.sync /\ Browsing!Result(d, j) = Browsing!Result(c, j)
        BY <3>3, <4>1 DEF Leads
      <4>3. Browsing!Result(d, j).ptr = d.service[j].ptr
            /\ Browsing!Result(c, j).ptr = c.service[j].ptr
        BY DEF Browsing!Result
      <4> QED BY <1>3, <3>1, <3>3, <4>2, <4>3 DEF ToldTrue
    <3> QED BY <3>2, <3>3
  <2> QED BY <2>1, <2>2
<1> QED BY <1>2, <1>3 DEF ToldTrue

LEMMA StillWanted ==
  ASSUME NEW c, NEW d, NEW i \in Browsed, NEW gone, Leads(c, d, i, gone), Wanted(c),
         Running(i) # {}
  PROVE  Wanted(d)
<1>1. PICK b \in Browses : browse[b].type = TypeOf[i] /\ browse[b].state # "none"
  BY DEF Running, Browsing!Running
<1> QED BY <1>1 DEF Wanted, Leads

-----------------------------------------------------------------------------
(* The browses: a packet                                                   *)

Addressed == [type : {"A"}, host : BrowsedOn, address : BrowsedAddresses, ttl : Nat]

(* Where a packet has been parsed to, record by record                     *)
Hearings ==
  [cache : Caches, told : Told, browsing : SUBSET Browses, staged : Seq(Addressed)]

Heard == {x \in Hearings : Known(x.cache) /\ ToldTrue(x.cache, x.told) /\ Wanted(x.cache)}

LEMMA HearingMade ==
  ASSUME NEW c, Known(c), NEW tld \in Told, ToldTrue(c, tld), Wanted(c),
         NEW B \in SUBSET Browses, NEW staged \in Seq(Addressed),
         NEW y, y = [browsing |-> B, staged |-> staged, cache |-> c, told |-> tld]
  PROVE  y \in Heard
<1>1. c \in Caches
  BY DEF Known, KeptBut
<1>2. /\ y.browsing = B /\ y.staged = staged /\ y.cache = c /\ y.told = tld
  OBVIOUS
<1>3. y \in Hearings
  BY <1>1 DEF Hearings
<1> QED BY <1>2, <1>3 DEF Heard

LEMMA PtrHeard ==
  ASSUME NEW x \in Heard, NEW r, r.instance \in Browsed, r.ttl \in Nat
  PROVE  Browsing!ParsePtr(x, r) \in Heard
<1> DEFINE i == r.instance
           c == x.cache
           d == Browsing!update_ptr(c, i, r.ttl)
           goodbye == Browsing!Notify(x.told, Running(i), i, Browsing!Never)
           told_of == IF r.ttl = 0 /\ c.service[i].ptr > 0 THEN goodbye ELSE x.told
           B == x.browsing \cup Running(i)
<1>1. /\ c \in Caches /\ Known(c) /\ x.told \in Told /\ ToldTrue(c, x.told) /\ Wanted(c)
      /\ x.browsing \in SUBSET Browses /\ x.staged \in Seq(Addressed)
  BY DEF Heard, Hearings
<1>2. /\ r.ttl = 0 => Leads(c, d, i, {i}) /\ d.service[i].ptr = 0
      /\ r.ttl # 0 => Leads(c, d, i, {})
  BY <1>1, PtrKeeps
<1>3. CASE Running(i) = {}
  BY <1>3 DEF Browsing!ParsePtr, Running
<1>4. CASE Running(i) # {}
  <2>1. Browsing!ParsePtr(x, r) =
          [browsing |-> B, staged |-> x.staged, cache |-> d, told |-> told_of]
    BY <1>4 DEF Browsing!ParsePtr, Running
  <2>2. c.service[i].ptr \in Nat
    BY <1>1 DEF Caches, Services
  <2> HIDE DEF d, c
  <2>3. goodbye \in Told
    BY <1>1, NeverTyped, NotifyTyped
  <2>4. told_of \in Told /\ ToldTrue(d, told_of)
    <3>1. CASE r.ttl = 0 /\ c.service[i].ptr > 0
      BY <1>1, <1>2, <2>3, <3>1, GoodbyeTrue
    <3>2. CASE ~ (r.ttl = 0 /\ c.service[i].ptr > 0)
      <4>1. Leads(c, d, i, {})
        BY <1>2, <2>2, <3>2, LeadsToo
      <4> QED BY <1>1, <3>2, <4>1, StillTrue
    <3> QED BY <3>1, <3>2
  <2>5. Known(d) /\ Wanted(d)
    BY <1>1, <1>2, <1>4, StillWanted DEF Leads
  <2>6. B \in SUBSET Browses
    BY <1>1 DEF Running, Browsing!Running
  <2> HIDE DEF told_of, B
  <2> QED BY <1>1, <2>1, <2>4, <2>5, <2>6, HearingMade
<1> QED BY <1>3, <1>4

LEMMA SrvOrTxtHeard ==
  ASSUME NEW x \in Heard, NEW r, r.instance \in Browsed, r.ttl \in Nat,
         r.type = "SRV" => r.host \in BrowsedOn, r.type # "SRV" => r.txt \in BrowsedTexts
  PROVE  Browsing!ParseSrvOrTxt(x, r) \in Heard
<1> DEFINE i == r.instance
           c == x.cache
           d == IF r.type = "SRV" THEN Browsing!update_srv(c, i, r.host, r.ttl)
                ELSE Browsing!update_txt(c, i, r.txt, r.ttl)
           B == x.browsing \cup Running(i)
<1>1. /\ c \in Caches /\ Known(c) /\ x.told \in Told /\ ToldTrue(c, x.told) /\ Wanted(c)
      /\ x.browsing \in SUBSET Browses /\ x.staged \in Seq(Addressed)
  BY DEF Heard, Hearings
<1>2. Leads(c, d, i, {})
  BY <1>1, SrvKeeps, TxtKeeps
<1>3. CASE Running(i) = {}
  BY <1>3 DEF Browsing!ParseSrvOrTxt, Running
<1>4. CASE Running(i) # {}
  <2>1. Browsing!ParseSrvOrTxt(x, r) =
          [browsing |-> B, staged |-> x.staged, cache |-> d, told |-> x.told]
    BY <1>4 DEF Browsing!ParseSrvOrTxt, Running
  <2> HIDE DEF d, c
  <2>2. Known(d) /\ Wanted(d) /\ ToldTrue(d, x.told)
    BY <1>1, <1>2, <1>4, StillWanted, StillTrue DEF Leads
  <2>3. B \in SUBSET Browses
    BY <1>1 DEF Running, Browsing!Running
  <2> HIDE DEF B
  <2> QED BY <1>1, <2>1, <2>2, <2>3, HearingMade
<1> QED BY <1>3, <1>4

LEMMA AddressHeard ==
  ASSUME NEW x \in Heard, NEW r \in Addressed
  PROVE  Browsing!ParseAddress(x, r) \in Heard
<1> DEFINE B == UNION {Browsing!Running(TypeOf[i]) : i \in Browsing!On(x.cache, r.host)}
           all == x.browsing \cup B
           staged == <<r>> \o x.staged
<1>1. /\ Known(x.cache) /\ x.told \in Told /\ ToldTrue(x.cache, x.told) /\ Wanted(x.cache)
      /\ x.browsing \in SUBSET Browses /\ x.staged \in Seq(Addressed)
  BY DEF Heard, Hearings
<1>2. all \in SUBSET Browses
  BY <1>1 DEF Browsing!Running
<1>3. staged \in Seq(Addressed)
  BY <1>1
<1>4. Browsing!ParseAddress(x, r) =
        IF all = {} THEN x
        ELSE [browsing |-> all, staged |-> staged, cache |-> x.cache, told |-> x.told]
  BY DEF Browsing!ParseAddress
<1> HIDE DEF all, staged
<1> QED BY <1>1, <1>2, <1>3, <1>4, HearingMade

LEMMA RecordHeard ==
  ASSUME NEW x \in Heard, NEW r \in Browsing!Record
  PROVE  Browsing!ParseRecord(x, r) \in Heard
<1>1. CASE r \in [type : {"PTR"}, instance : Browsed, ttl : Nat]
  <2>1. Browsing!ParseRecord(x, r) = Browsing!ParsePtr(x, r)
    BY <1>1 DEF Browsing!ParseRecord
  <2> QED BY <1>1, <2>1, PtrHeard
<1>2. CASE r \in [type : {"SRV"}, instance : Browsed, host : BrowsedOn, ttl : Nat]
  <2>1. Browsing!ParseRecord(x, r) = Browsing!ParseSrvOrTxt(x, r)
    BY <1>2 DEF Browsing!ParseRecord
  <2> QED BY <1>2, <2>1, SrvOrTxtHeard
<1>3. CASE r \in [type : {"TXT"}, instance : Browsed, txt : BrowsedTexts, ttl : Nat]
  <2>1. Browsing!ParseRecord(x, r) = Browsing!ParseSrvOrTxt(x, r)
    BY <1>3 DEF Browsing!ParseRecord
  <2>2. r.type # "SRV" /\ r.instance \in Browsed /\ r.ttl \in Nat /\ r.txt \in BrowsedTexts
    BY <1>3
  <2> QED BY <2>1, <2>2, SrvOrTxtHeard
<1>4. CASE r \in Addressed
  <2>1. Browsing!ParseRecord(x, r) = Browsing!ParseAddress(x, r)
    BY <1>4 DEF Browsing!ParseRecord, Addressed
  <2> QED BY <1>4, <2>1, AddressHeard
<1> QED BY <1>1, <1>2, <1>3, <1>4 DEF Browsing!Record, Addressed

LEMMA PacketHeard ==
  ASSUME NEW x \in Heard, NEW records \in Seq(Browsing!Record)
  PROVE  Browsing!ParseRecords(x, records) \in Heard
<1> DEFINE n == Len(records)
           T == Heard
           Turn(k, y) == Browsing!ParseRecord(y, records[k])
           upTo[k \in 0 .. Len(records)] ==
             IF k = 0 THEN x ELSE Browsing!ParseRecord(upTo[k - 1], records[k])
<1>1. Browsing!ParseRecords(x, records) = upTo[Len(records)]
  BY DEF Browsing!ParseRecords
<1>2. n \in Nat
  BY LenProperties
<1>3. x \in T
  OBVIOUS
<1>4. \A k \in 1 .. n : \A y \in T : Turn(k, y) \in T
  <2> TAKE k \in 1 .. n
  <2>1. records[k] \in Browsing!Record
    BY ElementOfSeq
  <2> QED BY <2>1, RecordHeard
<1> HIDE DEF T
<1> DEFINE turn == [p \in (1 .. n) \X T |-> Turn(p[1], p[2])]
<1>5. turn \in [(1 .. n) \X T -> T]
  <2> HIDE DEF Turn
  <2> QED BY <1>4
<1>6. \A k \in 1 .. n : \A y \in T : turn[<<k, y>>] = Turn(k, y)
  OBVIOUS
<1> HIDE DEF turn, n, Turn
<1>7. PICK g : Loop(n, T, x, turn, g)
  BY <1>2, <1>3, <1>5, LoopDefined
<1>8. g = [k \in 0 .. n |-> IF k = 0 THEN x ELSE Turn(k, g[k - 1])]
  <2>1. \A k \in 0 .. n : k # 0 => k \in 1 .. n /\ k - 1 \in 0 .. n
    BY <1>2
  <2>2. \A k \in 0 .. n : g[k] = IF k = 0 THEN x ELSE Turn(k, g[k - 1])
    BY <1>6, <1>7, <2>1 DEF Loop
  <2> QED BY <1>7, <2>2 DEF Loop
<1>9. upTo = [k \in 0 .. n |-> IF k = 0 THEN x ELSE Turn(k, upTo[k - 1])]
  BY <1>8 DEF n, Turn
<1> HIDE DEF upTo
<1>10. upTo[0] \in T
  <2>1. 0 \in 0 .. n
    BY <1>2
  <2> QED BY <1>3, <1>9, <2>1
<1>11. \A k \in 1 .. n : upTo[k - 1] \in T => upTo[k] \in T
  <2>1. \A k \in 1 .. n : k \in 0 .. n /\ k # 0
    BY <1>2
  <2>2. \A k \in 1 .. n : upTo[k] = Turn(k, upTo[k - 1])
    BY <1>9, <2>1
  <2> QED BY <1>4, <2>2
<1>12. upTo[n] \in T
  <2>1. \A k \in 0 .. n : upTo[k] \in T
    BY <1>2, <1>10, <1>11, EachTurn
  <2> QED BY <1>2, <2>1
<1> QED BY <1>1, <1>12 DEF n, T

LEMMA StagedApplied ==
  ASSUME NEW c, NEW tld, Known(c), ToldTrue(c, tld), Wanted(c),
         NEW staged \in Seq(Addressed)
  PROVE  LET d == Browsing!ApplyStaged(c, staged) IN
         Known(d) /\ ToldTrue(d, tld) /\ Wanted(d)
<1> DEFINE n == Len(staged)
           T == {d \in Caches : Known(d) /\ ToldTrue(d, tld) /\ Wanted(d)}
           Turn(k, d) ==
             Browsing!update_addr(d, staged[k].host, staged[k].address, staged[k].ttl)
           upTo[k \in 0 .. Len(staged)] ==
             IF k = 0 THEN c
             ELSE Browsing!update_addr(upTo[k - 1], staged[k].host, staged[k].address,
                                       staged[k].ttl)
<1>1. Browsing!ApplyStaged(c, staged) = upTo[Len(staged)]
  BY DEF Browsing!ApplyStaged
<1>2. n \in Nat
  BY LenProperties
<1>3. c \in T
  BY DEF Known, KeptBut
<1>4. \A k \in 1 .. n : \A d \in T : Turn(k, d) \in T
  <2> SUFFICES ASSUME NEW k \in 1 .. n, NEW d \in T PROVE Turn(k, d) \in T
    OBVIOUS
  <2> DEFINE h == staged[k].host
  <2>1. /\ h \in BrowsedOn /\ staged[k].address \in BrowsedAddresses /\ staged[k].ttl \in Nat
    <3>1. staged[k] \in Addressed
      BY ElementOfSeq
    <3> QED BY <3>1 DEF Addressed
  <2>2. \A i : Leads(d, Turn(k, d), i, {})
    BY <2>1, AddressKeeps
  <2> DEFINE e == Turn(k, d)
  <2> HIDE DEF Turn
  <2>3. Known(e) /\ e \in Caches /\ ToldTrue(e, tld)
    BY <2>2, StillTrue DEF Leads, Known, KeptBut
  <2>4. e.cached \subseteq d.cached
    BY <2>2 DEF Leads
  <2>5. Wanted(e)
    BY <2>4 DEF Wanted
  <2> QED BY <2>3, <2>5
<1> HIDE DEF T
<1> DEFINE turn == [p \in (1 .. n) \X T |-> Turn(p[1], p[2])]
<1>5. turn \in [(1 .. n) \X T -> T]
  <2> HIDE DEF Turn
  <2> QED BY <1>4
<1>6. \A k \in 1 .. n : \A d \in T : turn[<<k, d>>] = Turn(k, d)
  OBVIOUS
<1> HIDE DEF turn, n, Turn
<1>7. PICK g : Loop(n, T, c, turn, g)
  BY <1>2, <1>3, <1>5, LoopDefined
<1>8. g = [k \in 0 .. n |-> IF k = 0 THEN c ELSE Turn(k, g[k - 1])]
  <2>1. \A k \in 0 .. n : k # 0 => k \in 1 .. n /\ k - 1 \in 0 .. n
    BY <1>2
  <2>2. \A k \in 0 .. n : g[k] = IF k = 0 THEN c ELSE Turn(k, g[k - 1])
    BY <1>6, <1>7, <2>1 DEF Loop
  <2> QED BY <1>7, <2>2 DEF Loop
<1>9. upTo = [k \in 0 .. n |-> IF k = 0 THEN c ELSE Turn(k, upTo[k - 1])]
  BY <1>8 DEF n, Turn
<1> HIDE DEF upTo
<1>10. upTo[0] \in T
  <2>1. 0 \in 0 .. n
    BY <1>2
  <2> QED BY <1>3, <1>9, <2>1
<1>11. \A k \in 1 .. n : upTo[k - 1] \in T => upTo[k] \in T
  <2>1. \A k \in 1 .. n : k \in 0 .. n /\ k # 0
    BY <1>2
  <2>2. \A k \in 1 .. n : upTo[k] = Turn(k, upTo[k - 1])
    BY <1>9, <2>1
  <2> QED BY <1>4, <2>2
<1>12. upTo[n] \in T
  <2>1. \A k \in 0 .. n : upTo[k] \in T
    BY <1>2, <1>10, <1>11, EachTurn
  <2> QED BY <1>2, <2>1
<1> QED BY <1>1, <1>12 DEF n, T

(* At the packet's end all that is to be told is told.                     *)
LEMMA SyncTells ==
  ASSUME NEW c, Known(c), NEW tld \in Told, ToldTrue(c, tld),
         NEW now, now = Browsing!process_sync(c, tld),
         NEW d, d = [c EXCEPT !.sync = {}]
  PROVE  /\ Known(d) /\ d.sync = {} /\ now \in Told /\ ToldTrue(d, now)
         /\ Wanted(c) => Wanted(d)
<1>1. c \in Caches
  BY DEF Known, KeptBut
<1>2. /\ d.cached = c.cached /\ d.sync = {} /\ d.entries = c.entries
      /\ d.service = c.service /\ d.address = c.address /\ d \in Caches
  BY <1>1 DEF Caches
<1>3. Known(d)
  BY <1>2 DEF Known, KeptBut, Housed, HostsOf
<1>4. \A i \in Browsed : Browsing!Result(d, i) = Browsing!Result(c, i)
  BY <1>2 DEF Browsing!Result
<1>5. \A b \in Browses, i \in Browsed :
        now[b][i] = IF i \in c.sync /\ c.service[i].ptr > 0 /\ b \in Running(i)
                      THEN Browsing!Result(c, i) ELSE tld[b][i]
  BY DEF Browsing!process_sync, Running
<1>6. now \in Told
  <2>1. \A b \in Browses, i \in Browsed : now[b][i] \in Tellings
    BY <1>1, <1>5, ResultTyped DEF Told
  <2>2. now = [b \in Browses |-> [i \in Browsed |-> now[b][i]]]
    BY DEF Browsing!process_sync
  <2> QED BY <2>1, <2>2 DEF Told
<1>7. ToldTrue(d, now)
  <2>1. ASSUME NEW b \in Browses, NEW i \in Browsed, browse[b].state # "RUNNING"
        PROVE  now[b][i] = Browsing!Never
    <3>1. b \notin Running(i)
      BY <2>1 DEF Running, Browsing!Running
    <3> QED BY <1>5, <2>1, <3>1 DEF ToldTrue
  <2>2. ASSUME NEW b \in Browses, NEW i \in Browsed, b \in Running(i)
        PROVE  /\ c.service[i].ptr = 0 => now[b][i] = Browsing!Never
               /\ c.service[i].ptr # 0 => now[b][i] = Browsing!Result(c, i)
    <3>1. c.service[i].ptr \in Nat
      BY <1>1 DEF Caches, Services
    <3> QED BY <1>5, <2>2, <3>1 DEF ToldTrue
  <2> QED BY <1>2, <1>4, <2>1, <2>2 DEF ToldTrue
<1>8. Wanted(c) => Wanted(d)
  BY <1>2 DEF Wanted
<1> QED BY <1>2, <1>3, <1>6, <1>7, <1>8

-----------------------------------------------------------------------------
(* The browses: every step                                                 *)

BrowseStates ==
  [state : {"none", "INIT", "RUNNING", "OFF"}, type : Browsing!Types \cup {NoHost}]

BrowseActions == [type : {"START", "END"}, browse : Browses]

BrowsesTyped ==
  /\ browse \in [Browses -> BrowseStates] /\ told \in Told
  /\ errands \in Seq(BrowseActions) /\ Len(errands) <= BrowseQueue

(* A browse that is to end is off, and ends once.                          *)
EndsOnce ==
  \A n \in 1 .. Len(errands) : errands[n].type = "END" =>
    /\ browse[errands[n].browse].state = "OFF"
    /\ \A m \in 1 .. Len(errands) :
         m # n /\ errands[m].type = "END" => errands[m].browse # errands[n].browse

CacheInv == Known(cache) /\ cache.sync = {} /\ ToldTrue(cache, told) /\ Wanted(cache)

BrowseInv == BrowsesTyped /\ EndsOnce /\ CacheInv

LEMMA BrowseInit ==
  ASSUME Browsing!Init
  PROVE  BrowseInv
<1>1. BrowsesTyped /\ EndsOnce
  <2>1. \A b \in Browses : browse[b] \in BrowseStates
    BY DEF Browsing!Init, Browsing!NoBrowse, BrowseStates
  <2>2. browse \in [Browses -> BrowseStates]
    BY <2>1 DEF Browsing!Init
  <2>3. told \in Told
    BY NeverTyped DEF Browsing!Init, Told
  <2>4. errands \in Seq(BrowseActions) /\ Len(errands) = 0 /\ BrowseQueue \in Nat
    BY BrowsingAssumption DEF Browsing!Init
  <2> QED BY <2>2, <2>3, <2>4 DEF BrowsesTyped, EndsOnce
<1>2. Known(cache) /\ cache.sync = {}
  <2> DEFINE service == [i \in Browsed |-> Browsing!NoService]
             address == [h \in Browsing!Owners |-> {}]
  <2>1. service \in [Browsed -> Services]
        /\ address \in [Browsing!Owners -> SUBSET (BrowsedAddresses \X Nat)]
        /\ (\A i \in Browsed : service[i] = Browsing!NoService)
        /\ \A h \in Browsing!Owners : address[h] = {}
    BY NoServiceTyped
  <2>2. cache = [cached |-> {}, sync |-> {}, entries |-> {}, service |-> service,
                 address |-> address]
    BY DEF Browsing!Init
  <2> HIDE DEF service, address
  <2>3. cache \in Caches /\ cache.cached = {} /\ cache.entries = {} /\ cache.sync = {}
        /\ cache.service = service /\ cache.address = address
    BY <2>1, <2>2 DEF Caches
  <2>4. Housed(cache, {})
    BY <2>1, <2>3 DEF Housed, HostsOf
  <2> QED BY <2>1, <2>3, <2>4 DEF Known, KeptBut
<1>3. ToldTrue(cache, told) /\ Wanted(cache)
  <2>1. \A b \in Browses, i \in Browsed : told[b][i] = Browsing!Never
    BY DEF Browsing!Init
  <2>2. \A b \in Browses : browse[b].state # "RUNNING"
    BY DEF Browsing!Init, Browsing!NoBrowse
  <2>3. \A i \in Browsed : Running(i) = {}
    BY <2>2 DEF Running, Browsing!Running
  <2>4. cache.cached = {}
    BY DEF Browsing!Init
  <2> QED BY <2>1, <2>3, <2>4 DEF ToldTrue, Wanted
<1> QED BY <1>1, <1>2, <1>3 DEF BrowseInv, CacheInv

LEMMA PacketKeeps ==
  ASSUME BrowseInv, NEW records \in BrowsePackets, Browsing!ParsePacket(records)
  PROVE  BrowseInv'
<1> DEFINE x0 == [cache |-> cache, told |-> told, browsing |-> {}, staged |-> <<>>]
           x == Browsing!ParseRecords(x0, records)
           c == Browsing!ApplyStaged(x.cache, x.staged)
           d == [c EXCEPT !.sync = {}]
           now == Browsing!process_sync(c, x.told)
<1>1. cache' = d /\ told' = now /\ browse' = browse /\ errands' = errands
  BY DEF Browsing!ParsePacket
<1>2. x0 \in Heard
  <2>1. x0 = [browsing |-> {}, staged |-> <<>>, cache |-> cache, told |-> told]
        /\ {} \in SUBSET Browses /\ <<>> \in Seq(Addressed)
    OBVIOUS
  <2> HIDE DEF x0
  <2> QED BY <2>1, HearingMade DEF BrowseInv, BrowsesTyped, CacheInv
<1>3. x \in Heard
  BY <1>2, PacketHeard, BrowsingAssumption
<1> HIDE DEF x
<1>4. /\ Known(x.cache) /\ ToldTrue(x.cache, x.told) /\ Wanted(x.cache)
      /\ x.told \in Told /\ x.staged \in Seq(Addressed)
  BY <1>3 DEF Heard, Hearings
<1>5. Known(c) /\ ToldTrue(c, x.told) /\ Wanted(c)
  BY <1>4, StagedApplied
<1> HIDE DEF c
<1>6. Known(d) /\ d.sync = {} /\ now \in Told /\ ToldTrue(d, now) /\ Wanted(d)
  BY <1>4, <1>5, SyncTells
<1> HIDE DEF d, now
<1>7. Known(cache') /\ cache'.sync = {} /\ told' \in Told
  BY <1>1, <1>6
<1>8. ToldTrue(cache, told)' /\ Wanted(cache)'
  BY <1>1, <1>6 DEF ToldTrue, Wanted, Running, Browsing!Running
<1>9. BrowsesTyped' /\ EndsOnce'
  BY <1>1, <1>7 DEF BrowseInv, BrowsesTyped, EndsOnce
<1> QED BY <1>7, <1>8, <1>9 DEF BrowseInv, CacheInv

LEMMA ActionQueued ==
  ASSUME BrowsesTyped, Browsing!Room, NEW a \in BrowseActions,
         errands' = Append(errands, a)
  PROVE  /\ errands' \in Seq(BrowseActions) /\ Len(errands') <= BrowseQueue
         /\ Len(errands) \in Nat /\ Len(errands') = Len(errands) + 1
         /\ \A n \in 1 .. Len(errands') :
              errands'[n] = IF n <= Len(errands) THEN errands[n] ELSE a
<1>1. Len(errands) \in Nat /\ errands \in Seq(BrowseActions)
  BY LenProperties DEF BrowsesTyped
<1>2. /\ errands' \in Seq(BrowseActions) /\ Len(errands') = Len(errands) + 1
      /\ \A n \in 1 .. Len(errands) : errands'[n] = errands[n]
      /\ errands'[Len(errands) + 1] = a
  BY <1>1, AppendProperties
<1>3. Len(errands') <= BrowseQueue
  BY <1>1, <1>2, BrowsingAssumption DEF Browsing!Room
<1>4. \A n \in 1 .. Len(errands') :
        n \in 1 .. Len(errands) \/ (n = Len(errands) + 1 /\ ~ (n <= Len(errands)))
  BY <1>1, <1>2
<1>5. \A n \in 1 .. Len(errands) : n <= Len(errands)
  BY <1>1
<1> QED BY <1>1, <1>2, <1>3, <1>4, <1>5

(* The cache is as it was; the browses are what they were but for one.     *)
LEMMA NewKeeps ==
  ASSUME BrowseInv, NEW b \in Browses, NEW type \in Browsing!Types,
         Browsing!mdns_browse_new(b, type)
  PROVE  BrowseInv'
<1> DEFINE s == [state |-> "INIT", type |-> type]
           a == [type |-> "START", browse |-> b]
<1>1. /\ browse[b] = Browsing!NoBrowse /\ Browsing!Room
      /\ browse' = [browse EXCEPT ![b] = s] /\ errands' = Append(errands, a)
      /\ told' = told /\ cache' = cache
  BY DEF Browsing!mdns_browse_new
<1>2. s \in BrowseStates /\ s.state = "INIT" /\ a \in BrowseActions /\ a.type = "START"
  BY DEF BrowseStates, BrowseActions
<1> HIDE DEF s, a
<1>3. /\ browse' \in [Browses -> BrowseStates]
      /\ \A o \in Browses : browse'[o] = IF o = b THEN s ELSE browse[o]
  BY <1>1, <1>2 DEF BrowseInv, BrowsesTyped
<1>4. BrowsesTyped'
  BY <1>1, <1>2, <1>3, ActionQueued DEF BrowseInv, BrowsesTyped
<1>5. browse[b].state = "none"
  BY <1>1 DEF Browsing!NoBrowse
<1>6. EndsOnce'
  <2>1. /\ Len(errands) \in Nat /\ Len(errands') = Len(errands) + 1
        /\ \A n \in 1 .. Len(errands') :
             errands'[n] = IF n <= Len(errands) THEN errands[n] ELSE a
    BY <1>1, <1>2, ActionQueued DEF BrowseInv
  <2>2. ASSUME NEW n \in 1 .. Len(errands'), errands'[n].type = "END"
        PROVE  n \in 1 .. Len(errands) /\ errands'[n] = errands[n]
    BY <1>2, <2>1, <2>2
  <2>3. ASSUME NEW n \in 1 .. Len(errands') , errands'[n].type = "END"
        PROVE  browse'[errands'[n].browse].state = "OFF"
    <3>1. n \in 1 .. Len(errands) /\ errands'[n] = errands[n]
      BY <2>2, <2>3
    <3>2. browse[errands[n].browse].state = "OFF" /\ errands[n].browse \in Browses
      <4>1. errands[n] \in BrowseActions
        BY <3>1, ElementOfSeq DEF BrowseInv, BrowsesTyped
      <4> QED BY <2>3, <3>1, <4>1 DEF BrowseInv, EndsOnce, BrowseActions
    <3> QED BY <1>3, <1>5, <3>1, <3>2
  <2>4. ASSUME NEW n \in 1 .. Len(errands'), errands'[n].type = "END",
               NEW m \in 1 .. Len(errands'), m # n, errands'[m].type = "END"
        PROVE  errands'[m].browse # errands'[n].browse
    BY <2>2, <2>4 DEF BrowseInv, EndsOnce
  <2> QED BY <2>3, <2>4 DEF EndsOnce
<1>7. ToldTrue(cache, told)'
  <2>1. \A i \in Browsed : Running(i)' = Running(i)
    BY <1>2, <1>3, <1>5 DEF Running, Browsing!Running
  <2>2. \A o \in Browses : browse'[o].state # "RUNNING" => browse[o].state # "RUNNING"
    BY <1>3, <1>5
  <2> QED BY <1>1, <2>1, <2>2 DEF BrowseInv, CacheInv, ToldTrue
<1>8. Wanted(cache)'
  BY <1>1, <1>3, <1>5 DEF BrowseInv, CacheInv, Wanted
<1> QED BY <1>1, <1>4, <1>6, <1>7, <1>8 DEF BrowseInv, CacheInv

LEMMA DeleteKeeps ==
  ASSUME BrowseInv, NEW type \in Browsing!Types, Browsing!mdns_browse_delete(type)
  PROVE  BrowseInv'
<1>1. PICK b \in Browsing!Active(type) :
        /\ browse' = [browse EXCEPT ![b].state = "OFF"]
        /\ told' = [told EXCEPT ![b] = [i \in Browsed |-> Browsing!Never]]
        /\ errands' = Append(errands, [type |-> "END", browse |-> b])
  BY DEF Browsing!mdns_browse_delete
<1>2. Browsing!Room /\ cache' = cache
  BY DEF Browsing!mdns_browse_delete
<1> DEFINE s == [browse[b] EXCEPT !.state = "OFF"]
           none == [i \in Browsed |-> Browsing!Never]
           a == [type |-> "END", browse |-> b]
<1>3. b \in Browses /\ browse[b].state \in {"INIT", "RUNNING"} /\ browse[b] \in BrowseStates
  BY DEF Browsing!Active, BrowseInv, BrowsesTyped
<1>4. /\ s \in BrowseStates /\ s.state = "OFF" /\ s.type = browse[b].type
      /\ a \in BrowseActions /\ a.type = "END" /\ a.browse = b
      /\ none \in [Browsed -> Tellings] /\ \A i \in Browsed : none[i] = Browsing!Never
  BY <1>3, NeverTyped DEF BrowseStates, BrowseActions
<1>5. browse' = [browse EXCEPT ![b] = s]
  BY <1>1
<1> HIDE DEF s, none
<1>6. /\ browse' \in [Browses -> BrowseStates]
      /\ \A o \in Browses : browse'[o] = IF o = b THEN s ELSE browse[o]
  BY <1>3, <1>4, <1>5 DEF BrowseInv, BrowsesTyped
<1>7. /\ told' \in Told
      /\ \A o \in Browses : told'[o] = IF o = b THEN none ELSE told[o]
  <2>1. told' = [told EXCEPT ![b] = none]
    BY <1>1 DEF none
  <2> QED BY <1>3, <1>4, <2>1 DEF BrowseInv, BrowsesTyped, Told
<1>8. errands' = Append(errands, a)
  BY <1>1
<1> HIDE DEF a
<1>9. BrowsesTyped'
  BY <1>2, <1>4, <1>6, <1>7, <1>8, ActionQueued DEF BrowseInv, BrowsesTyped
<1>10. EndsOnce'
  <2>1. /\ Len(errands) \in Nat /\ Len(errands') = Len(errands) + 1
        /\ \A n \in 1 .. Len(errands') :
             errands'[n] = IF n <= Len(errands) THEN errands[n] ELSE a
    BY <1>2, <1>4, <1>8, ActionQueued DEF BrowseInv
  <2>2. \A n \in 1 .. Len(errands') :
          \/ n \in 1 .. Len(errands) /\ errands'[n] = errands[n]
          \/ n = Len(errands') /\ errands'[n] = a
    BY <2>1
  <2>3. ASSUME NEW n \in 1 .. Len(errands), errands[n].type = "END"
        PROVE  /\ errands[n].browse \in Browses /\ errands[n].browse # b
               /\ browse[errands[n].browse].state = "OFF"
    <3>1. errands[n] \in BrowseActions
      BY ElementOfSeq DEF BrowseInv, BrowsesTyped
    <3>2. browse[errands[n].browse].state = "OFF"
      BY <2>3 DEF BrowseInv, EndsOnce
    <3>3. browse[b].state # "OFF"
      BY <1>3
    <3> QED BY <3>1, <3>2, <3>3 DEF BrowseActions
  <2>4. ASSUME NEW n \in 1 .. Len(errands'), errands'[n].type = "END"
        PROVE  browse'[errands'[n].browse].state = "OFF"
    <3>1. CASE n \in 1 .. Len(errands) /\ errands'[n] = errands[n]
      BY <1>6, <2>3, <2>4, <3>1
    <3>2. CASE n = Len(errands') /\ errands'[n] = a
      BY <1>3, <1>4, <1>6, <3>2
    <3> QED BY <2>2, <3>1, <3>2
  <2>5. ASSUME NEW n \in 1 .. Len(errands'), errands'[n].type = "END",
               NEW m \in 1 .. Len(errands'), m # n, errands'[m].type = "END"
        PROVE  errands'[m].browse # errands'[n].browse
    <3>1. CASE /\ n \in 1 .. Len(errands) /\ errands'[n] = errands[n]
               /\ m \in 1 .. Len(errands) /\ errands'[m] = errands[m]
      BY <2>5, <3>1 DEF BrowseInv, EndsOnce
    <3>2. CASE n = Len(errands') /\ errands'[n] = a
      <4>1. m \in 1 .. Len(errands) /\ errands'[m] = errands[m]
        BY <2>2, <2>5, <3>2
      <4> QED BY <1>4, <2>3, <2>5, <3>2, <4>1
    <3>3. CASE m = Len(errands') /\ errands'[m] = a
      <4>1. n \in 1 .. Len(errands) /\ errands'[n] = errands[n]
        BY <2>2, <2>5, <3>3
      <4> QED BY <1>4, <2>3, <2>5, <3>3, <4>1
    <3> QED BY <2>2, <3>1, <3>2, <3>3
  <2> QED BY <2>4, <2>5 DEF EndsOnce
<1>11. ToldTrue(cache, told)'
  <2>1. ASSUME NEW o \in Browses, NEW i \in Browsed
        PROVE  /\ browse'[o].state # "RUNNING" => told'[o][i] = Browsing!Never
               /\ o \in Running(i)' => o \in Running(i) /\ told'[o] = told[o]
    <3>1. CASE o = b
      BY <1>3, <1>4, <1>6, <1>7, <3>1 DEF Running, Browsing!Running
    <3>2. CASE o # b
      BY <1>6, <1>7, <3>2 DEF Running, Browsing!Running, BrowseInv, CacheInv, ToldTrue
    <3> QED BY <3>1, <3>2
  <2> QED BY <1>2, <2>1 DEF BrowseInv, CacheInv, ToldTrue
<1>12. Wanted(cache)'
  <2>1. \A o \in Browses : /\ browse'[o].type = browse[o].type
                           /\ browse[o].state # "none" => browse'[o].state # "none"
    BY <1>4, <1>6
  <2> QED BY <1>2, <2>1 DEF BrowseInv, CacheInv, Wanted
<1> QED BY <1>2, <1>9, <1>10, <1>11, <1>12 DEF BrowseInv, CacheInv

LEMMA ActionTaken ==
  ASSUME BrowseInv, errands # <<>>, errands' = Tail(errands)
  PROVE  /\ errands' \in Seq(BrowseActions) /\ Len(errands') <= BrowseQueue
         /\ Head(errands) \in BrowseActions /\ Head(errands) = errands[1]
         /\ 1 \in 1 .. Len(errands)
         /\ \A n \in 1 .. Len(errands') :
              n + 1 \in 1 .. Len(errands) /\ n + 1 # 1 /\ errands'[n] = errands[n + 1]
<1>1. errands \in Seq(BrowseActions) /\ Len(errands) <= BrowseQueue /\ Len(errands) \in Nat
  BY LenProperties DEF BrowseInv, BrowsesTyped
<1>2. /\ Head(errands) \in BrowseActions /\ errands' \in Seq(BrowseActions)
      /\ Len(errands') = Len(errands) - 1 /\ Len(errands) # 0
      /\ \A n \in 1 .. Len(errands') : errands'[n] = errands[n + 1]
  BY <1>1, HeadTailProperties, EmptySeq
<1>3. Head(errands) = errands[1]
  BY <1>1
<1>4. BrowseQueue \in Nat
  BY BrowsingAssumption
<1> QED BY <1>1, <1>2, <1>3, <1>4

LEMMA StartKeeps ==
  ASSUME BrowseInv, errands # <<>>, errands' = Tail(errands),
         NEW b \in Browses, Browsing!browse_start(b)
  PROVE  BrowseInv'
<1>1. /\ errands' \in Seq(BrowseActions) /\ Len(errands') <= BrowseQueue
      /\ \A n \in 1 .. Len(errands') :
           n + 1 \in 1 .. Len(errands) /\ n + 1 # 1 /\ errands'[n] = errands[n + 1]
  BY ActionTaken
<1>2. cache' = cache
  BY DEF Browsing!browse_start
<1>3. CASE browse[b].state # "INIT"
  <2>1. browse' = browse /\ told' = told
    BY <1>3 DEF Browsing!browse_start
  <2>2. BrowsesTyped'
    BY <1>1, <2>1 DEF BrowseInv, BrowsesTyped
  <2>3. EndsOnce'
    <3>1. \A n, m \in 1 .. Len(errands') : m # n => m + 1 # n + 1
      OBVIOUS
    <3> QED BY <1>1, <2>1, <3>1 DEF BrowseInv, EndsOnce
  <2>4. ToldTrue(cache, told)' /\ Wanted(cache)'
    BY <1>2, <2>1 DEF BrowseInv, CacheInv, ToldTrue, Wanted, Running, Browsing!Running
  <2> QED BY <1>2, <2>2, <2>3, <2>4 DEF BrowseInv, CacheInv
<1>4. CASE browse[b].state = "INIT"
  <2> DEFINE s == [browse[b] EXCEPT !.state = "RUNNING"]
             news == [i \in Browsed |->
                        IF TypeOf[i] = browse[b].type /\ cache.service[i].ptr > 0
                          THEN Browsing!Result(cache, i) ELSE told[b][i]]
  <2>1. browse' = [browse EXCEPT ![b] = s] /\ told' = [told EXCEPT ![b] = news]
    BY <1>4 DEF Browsing!browse_start
  <2>2. browse[b] \in BrowseStates /\ told \in Told /\ cache \in Caches
    BY DEF BrowseInv, BrowsesTyped, CacheInv, Known, KeptBut
  <2>3. s \in BrowseStates /\ s.type = browse[b].type
        /\ s = [state |-> "RUNNING", type |-> browse[b].type]
    BY <2>2 DEF BrowseStates
  <2>4. /\ news \in [Browsed -> Tellings]
        /\ \A i \in Browsed :
             news[i] = IF TypeOf[i] = browse[b].type /\ cache.service[i].ptr > 0
                         THEN Browsing!Result(cache, i) ELSE Browsing!Never
    <3>1. \A i \in Browsed : told[b][i] = Browsing!Never
      BY <1>4 DEF BrowseInv, CacheInv, ToldTrue
    <3> QED BY <2>2, <3>1, NeverTyped, ResultTyped
  <2> HIDE DEF s, news
  <2>5. /\ browse' \in [Browses -> BrowseStates]
        /\ \A o \in Browses : browse'[o] = IF o = b THEN s ELSE browse[o]
    BY <2>1, <2>3 DEF BrowseInv, BrowsesTyped
  <2>6. told' \in Told /\ \A o \in Browses : told'[o] = IF o = b THEN news ELSE told[o]
    BY <2>1, <2>2, <2>4 DEF Told
  <2>7. BrowsesTyped'
    BY <1>1, <2>5, <2>6 DEF BrowsesTyped
  <2>8. EndsOnce'
    <3>1. \A n, m \in 1 .. Len(errands') : m # n => m + 1 # n + 1
      OBVIOUS
    <3>2. ASSUME NEW n \in 1 .. Len(errands'), errands'[n].type = "END"
          PROVE  browse'[errands'[n].browse].state = "OFF"
      <4>1. browse[errands'[n].browse].state = "OFF" /\ errands'[n].browse \in Browses
        <5>1. errands'[n] \in BrowseActions
          BY <1>1, ElementOfSeq
        <5> QED BY <1>1, <3>2, <5>1 DEF BrowseInv, EndsOnce, BrowseActions
      <4> QED BY <1>4, <2>5, <4>1
    <3> QED BY <1>1, <3>1, <3>2 DEF BrowseInv, EndsOnce
  <2>9. ToldTrue(cache, told)'
    <3>1. ASSUME NEW i \in Browsed
          PROVE  /\ browse'[b].state = "RUNNING"
                 /\ b \in Running(i)' => browse[b].type = TypeOf[i]
      BY <2>3, <2>5 DEF Running, Browsing!Running
    <3>2. ASSUME NEW i \in Browsed, b \in Running(i)'
          PROVE  /\ cache.service[i].ptr = 0 => told'[b][i] = Browsing!Never
                 /\ cache.service[i].ptr # 0 => told'[b][i] = Browsing!Result(cache, i)
      <4>1. cache.service[i].ptr \in Nat
        BY <2>2 DEF Caches, Services
      <4> QED BY <2>4, <2>6, <3>1, <3>2, <4>1
    <3>3. ASSUME NEW o \in Browses, o # b, NEW i \in Browsed
          PROVE  /\ browse'[o] = browse[o] /\ told'[o] = told[o]
                 /\ o \in Running(i)' => o \in Running(i)
      BY <2>5, <2>6, <3>3 DEF Running, Browsing!Running
    <3>4. ASSUME NEW o \in Browses, NEW i \in Browsed, browse'[o].state # "RUNNING"
          PROVE  told'[o][i] = Browsing!Never
      BY <3>1, <3>3, <3>4 DEF BrowseInv, CacheInv, ToldTrue
    <3>5. ASSUME NEW o \in Browses, NEW i \in Browsed, o \in Running(i)'
          PROVE  /\ cache.service[i].ptr = 0 => told'[o][i] = Browsing!Never
                 /\ cache.service[i].ptr # 0 => told'[o][i] = Browsing!Result(cache, i)
      <4>1. CASE o = b
        BY <3>2, <3>5, <4>1
      <4>2. CASE o # b
        <5>1. i \notin cache.sync
          BY DEF BrowseInv, CacheInv
        <5> QED BY <3>3, <3>5, <4>2, <5>1 DEF BrowseInv, CacheInv, ToldTrue
      <4> QED BY <4>1, <4>2
    <3> QED BY <1>2, <3>4, <3>5 DEF ToldTrue
  <2>10. Wanted(cache)'
    <3>1. \A o \in Browses : /\ browse'[o].type = browse[o].type
                             /\ browse[o].state # "none" => browse'[o].state # "none"
      BY <2>3, <2>5
    <3> QED BY <1>2, <3>1 DEF BrowseInv, CacheInv, Wanted
  <2> QED BY <1>2, <2>7, <2>8, <2>9, <2>10 DEF BrowseInv, CacheInv
<1> QED BY <1>3, <1>4

LEMMA FinishKeeps ==
  ASSUME BrowseInv, errands # <<>>, errands' = Tail(errands), Head(errands).type = "END",
         Browsing!browse_finish(Head(errands).browse)
  PROVE  BrowseInv'
<1> DEFINE b == Head(errands).browse
           type == browse[b].type
<1>1. /\ errands' \in Seq(BrowseActions) /\ Len(errands') <= BrowseQueue
      /\ Head(errands) = errands[1] /\ 1 \in 1 .. Len(errands) /\ b \in Browses
      /\ \A n \in 1 .. Len(errands') :
           n + 1 \in 1 .. Len(errands) /\ n + 1 # 1 /\ errands'[n] = errands[n + 1]
  BY ActionTaken DEF BrowseActions
<1>2. browse[b].state = "OFF"
  BY <1>1 DEF BrowseInv, EndsOnce
<1>3. /\ browse' = [browse EXCEPT ![b] = Browsing!NoBrowse] /\ told' = told
      /\ cache' = IF Browsing!Active(type) = {}
                    THEN Browsing!remove_service_caches(cache, type) ELSE cache
  BY DEF Browsing!browse_finish
<1>4. /\ Browsing!NoBrowse \in BrowseStates /\ Browsing!NoBrowse.state = "none"
  BY DEF Browsing!NoBrowse, BrowseStates
<1>5. Known(cache) /\ cache.sync = {} /\ ToldTrue(cache, told) /\ Wanted(cache)
      /\ cache \in Caches
  BY DEF BrowseInv, CacheInv, Known, KeptBut
<1>6. /\ browse' \in [Browses -> BrowseStates]
      /\ \A o \in Browses : browse'[o] = IF o = b THEN Browsing!NoBrowse ELSE browse[o]
  BY <1>1, <1>3, <1>4 DEF BrowseInv, BrowsesTyped
<1>7. BrowsesTyped'
  BY <1>1, <1>3, <1>6 DEF BrowseInv, BrowsesTyped
<1>8. EndsOnce'
  <2>1. \A n, m \in 1 .. Len(errands') : m # n => m + 1 # n + 1
    OBVIOUS
  <2>2. ASSUME NEW n \in 1 .. Len(errands'), errands'[n].type = "END"
        PROVE  browse'[errands'[n].browse].state = "OFF"
    <3>1. errands'[n].browse \in Browses
      <4>1. errands'[n] \in BrowseActions
        BY <1>1, ElementOfSeq
      <4> QED BY <4>1 DEF BrowseActions
    <3>2. errands'[n].browse # b /\ browse[errands'[n].browse].state = "OFF"
      BY <1>1, <2>2 DEF BrowseInv, EndsOnce
    <3> QED BY <1>6, <3>1, <3>2
  <2> QED BY <1>1, <2>1, <2>2 DEF BrowseInv, EndsOnce
<1> DEFINE active == Browsing!Active(type)
<1> HIDE DEF b, type, active
<1>9. \A i \in Browsed : Running(i)' = Running(i)
  BY <1>2, <1>4, <1>6 DEF Running, Browsing!Running
<1>10. \A o \in Browses, i \in Browsed :
         browse'[o].state # "RUNNING" => told'[o][i] = Browsing!Never
  BY <1>2, <1>3, <1>5, <1>6 DEF ToldTrue
<1>11. CASE active = {}
  <2>1. cache' = Browsing!remove_service_caches(cache, type)
    BY <1>3, <1>11 DEF active
  <2>2. /\ Known(cache') /\ cache'.sync \subseteq cache.sync
        /\ cache'.cached = {i \in cache.cached : TypeOf[i] # type}
        /\ \A i \in Browsed : TypeOf[i] # type =>
             /\ cache'.service[i] = cache.service[i]
             /\ i \in cache'.cached => Browsing!Result(cache', i) = Browsing!Result(cache, i)
    BY <1>5, <2>1, TypeForgotten
  <2>3. cache'.sync = {}
    BY <1>5, <2>2
  <2>4. \A i \in Browsed : Running(i) # {} => TypeOf[i] # type
    BY <1>11 DEF active, Browsing!Active, Running, Browsing!Running
  <2>5. ASSUME NEW o \in Browses, NEW i \in Browsed, o \in Running(i)
        PROVE  /\ cache'.service[i].ptr = 0 => told[o][i] = Browsing!Never
               /\ cache'.service[i].ptr # 0 => told[o][i] = Browsing!Result(cache', i)
    <3>1. cache'.service[i] = cache.service[i] /\ TypeOf[i] # type
      BY <2>2, <2>4, <2>5
    <3>2. cache.service[i].ptr # 0 => i \in cache'.cached
      BY <1>5, <2>2, <3>1 DEF Known, KeptBut, Browsing!NoService
    <3> QED BY <1>5, <2>2, <2>5, <3>1, <3>2 DEF ToldTrue
  <2>6. ToldTrue(cache, told)'
    BY <1>3, <1>9, <1>10, <2>5 DEF ToldTrue
  <2>7. Wanted(cache)'
    <3>1. ASSUME NEW i \in cache'.cached
          PROVE  \E o \in Browses : browse'[o].type = TypeOf[i] /\ browse'[o].state # "none"
      <4>1. i \in cache.cached /\ TypeOf[i] # type
        BY <2>2
      <4>2. PICK o \in Browses : browse[o].type = TypeOf[i] /\ browse[o].state # "none"
        BY <1>5, <4>1 DEF Wanted
      <4>3. o # b
        BY <4>1, <4>2 DEF type
      <4> QED BY <1>6, <4>2, <4>3
    <3> QED BY <3>1 DEF Wanted
  <2> QED BY <1>7, <1>8, <2>2, <2>3, <2>6, <2>7 DEF BrowseInv, CacheInv
<1>12. CASE active # {}
  <2>1. cache' = cache
    BY <1>3, <1>12 DEF active
  <2>2. PICK a \in active : a \in Browses /\ browse[a].type = type
                            /\ browse[a].state \in {"INIT", "RUNNING"}
    BY <1>12 DEF active, Browsing!Active
  <2>3. Wanted(cache)'
    <3>1. ASSUME NEW i \in cache.cached
          PROVE  \E o \in Browses : browse'[o].type = TypeOf[i] /\ browse'[o].state # "none"
      <4>1. PICK o \in Browses : browse[o].type = TypeOf[i] /\ browse[o].state # "none"
        BY <1>5 DEF Wanted
      <4>2. CASE o # b
        BY <1>6, <4>1, <4>2
      <4>3. CASE o = b
        BY <1>2, <1>6, <2>2, <4>1, <4>3 DEF type
      <4> QED BY <4>2, <4>3
    <3> QED BY <2>1, <3>1 DEF Wanted
  <2>4. ToldTrue(cache, told)'
    BY <1>3, <1>5, <1>9, <1>10, <2>1 DEF ToldTrue
  <2> QED BY <1>5, <1>7, <1>8, <2>1, <2>3, <2>4 DEF BrowseInv, CacheInv
<1> QED BY <1>11, <1>12

LEMMA BrowseNext ==
  ASSUME BrowseInv, [Browsing!Next]_browses
  PROVE  BrowseInv'
<1>1. CASE \E records \in BrowsePackets : Browsing!ParsePacket(records)
  BY <1>1, PacketKeeps
<1>2. CASE \E b \in Browses, type \in Browsing!Types : Browsing!mdns_browse_new(b, type)
  BY <1>2, NewKeeps
<1>3. CASE \E type \in Browsing!Types : Browsing!mdns_browse_delete(type)
  BY <1>3, DeleteKeeps
<1>4. CASE Browsing!Service
  <2>1. /\ errands # <<>> /\ errands' = Tail(errands)
        /\ \/ Head(errands).type = "START" /\ Browsing!browse_start(Head(errands).browse)
           \/ Head(errands).type = "END" /\ Browsing!browse_finish(Head(errands).browse)
    BY <1>4 DEF Browsing!Service
  <2>2. Head(errands).browse \in Browses
    BY <2>1, ActionTaken DEF BrowseActions
  <2> QED BY <2>1, <2>2, StartKeeps, FinishKeeps
<1>5. CASE UNCHANGED browses
  <2>1. browse' = browse /\ told' = told /\ errands' = errands /\ cache' = cache
    BY <1>5 DEF browses
  <2> QED BY <2>1 DEF BrowseInv, BrowsesTyped, EndsOnce, CacheInv, ToldTrue, Wanted,
                      Running, Browsing!Running
<1> QED BY <1>1, <1>2, <1>3, <1>4, <1>5 DEF Browsing!Next

(* The cache and what the browses were told keep to BrowseInv              *)
(* (mdns_cache.c, mdns_browser.c, the records of mdns_receive.c).          *)
THEOREM BrowseInvariance == Browsing!Spec => []BrowseInv
<1>1. BrowseInv /\ [Browsing!Next]_(Browsing!vars) => BrowseInv'
  BY BrowseNext DEF browses, Browsing!vars
<1> QED BY <1>1, BrowseInit, PTL DEF Browsing!Spec

(* A running browse was last told of each service what the cache knows of  *)
(* it, and the cache keeps nothing without a use, whatever is received and *)
(* whenever browses start and end (mdns_cache.c:408-569,716-977).          *)
THEOREM BrowsesToldWhatIsCached == Browsing!Spec => []ToldIsCached
<1>1. ASSUME BrowseInv PROVE ToldIsCached
  <2>1. /\ Known(cache) /\ cache.sync = {} /\ ToldTrue(cache, told) /\ Wanted(cache)
        /\ cache \in Caches
    BY <1>1 DEF BrowseInv, CacheInv, Known, KeptBut
  <2>2. Browsing!ToldIsCached
    <3> SUFFICES ASSUME NEW b \in Browses, NEW i \in Browsed, b \in Running(i)
                 PROVE  told[b][i] = IF cache.service[i].ptr > 0
                                       THEN Browsing!Result(cache, i) ELSE Browsing!Never
      BY DEF Browsing!ToldIsCached, Running, Browsing!Running
    <3>1. cache.service[i].ptr \in Nat
      BY <2>1 DEF Caches, Services
    <3>2. cache.service[i].ptr = 0 => told[b][i] = Browsing!Never
      BY <2>1 DEF ToldTrue
    <3>3. cache.service[i].ptr # 0 => told[b][i] = Browsing!Result(cache, i)
      BY <2>1 DEF ToldTrue
    <3> QED BY <3>1, <3>2, <3>3
  <2>3. Browsing!NothingKept
    <3>1. cache.entries = HostsOf(cache) /\ \A h \in BrowsedOn :
            cache.address[h] # {} => h \in cache.entries
      BY <2>1 DEF Known, KeptBut, Housed, Browsing!Owners
    <3>2. \A i \in cache.cached : HasRecord(cache.service[i])
      BY <2>1 DEF Known, KeptBut
    <3> QED BY <2>1, <3>1, <3>2 DEF Browsing!NothingKept, HostsOf, HasRecord, Wanted
  <2> QED BY <2>2, <2>3 DEF ToldIsCached
<1> QED BY <1>1, BrowseInvariance, PTL

(* A connection has sent no more pieces than its request has, the handler  *)
(* has received no more than were sent, and trees are counted by naturals, *)
(* whatever clients do: http_server.c:30-105.                              *)
THEOREM ServerTypes == Server!Spec => []Server!TypeOK
BY ServerInvariance, TypesFromInvariant, PTL

(* Browses keep to their states, the cache to its hosts and instances, no  *)
(* service is left to be told between packets, and no more actions wait    *)
(* than there are places: mdns_browser.c, mdns_cache.c.                    *)
THEOREM BrowseTypes == Browsing!Spec => []Browsing!TypeOK
<1>1. ASSUME BrowseInv PROVE Browsing!TypeOK
  <2>1. /\ browse \in [Browses -> BrowseStates] /\ Len(errands) <= BrowseQueue
        /\ cache \in Caches /\ cache.sync = {}
    BY <1>1 DEF BrowseInv, BrowsesTyped, CacheInv, Known, KeptBut
  <2>2. \A b \in Browses : browse[b].state \in {"none", "INIT", "RUNNING", "OFF"}
    BY <2>1 DEF BrowseStates
  <2>3. cache.entries \subseteq Browsing!Owners /\ cache.cached \subseteq Browsed
    BY <2>1 DEF Caches
  <2> QED BY <2>1, <2>2, <2>3 DEF Browsing!TypeOK
<1> QED BY <1>1, BrowseInvariance, PTL

=============================================================================
