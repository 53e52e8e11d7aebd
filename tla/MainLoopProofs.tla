--------------------------- MODULE MainLoopProofs ---------------------------
(***************************************************************************)
(* Proofs about module MainLoop, for every value of its constants that     *)
(* MainLoopAssumption and ThumbAssumption admit: the types, that a press   *)
(* is acted upon once, and that it is classified by how long it was held.  *)
(*                                                                         *)
(* All three rest on how soon the loop sees a change of the contact.  The  *)
(* inductive invariant bounds, for each point of the loop, the age of a    *)
(* change it has not taken in yet (Timely); from it follow the order of    *)
(* the thumb's and the loop's steps (Alternating), and that the ticks the  *)
(* loop measures differ from the hold by the delays alone (Measured).      *)
(***************************************************************************)
EXTENDS MainLoop, TLAPS

(* The loop takes the contact for what it is. *)
Seen == level <=> was_pressed

(* Most ticks until the main task takes its next step *)
Slack == delay + MaxLag - lag

(* Most ticks from a change of the contact until the loop acts upon it *)
Reaction == JitterBound + DebounceDelay

(* A ready task counts its waiting from zero, and only two delays exist. *)
Delays ==
  /\ delay > 0 => lag = 0
  /\ loop = "update" => delay <= LoopDelay
  /\ loop \notin {"confirm", "update"} => delay = 0

(* A second sample that follows a mere bounce is taken when it is over. *)
Glitches ==
  /\ loop = "confirm" /\ Seen =>
       /\ since + delay >= BounceTime
       /\ since + Slack <= LastBounce + DebounceDelay + MaxLag
  /\ loop = "edge" => ~ Seen

(* A change not taken in yet is so young that the rest of the way to the *)
(* edge fits into Reaction, and as old as the debouncing that is over.   *)
Timely ==
  ~ Seen =>
    /\ loop = "update"   => since + Slack + DebounceDelay + 4 * MaxLag <= Reaction
    /\ loop = "updating" => since + Slack + DebounceDelay + 3 * MaxLag <= Reaction
    /\ loop = "poll"     => since + Slack + DebounceDelay + 2 * MaxLag <= Reaction
    /\ loop = "confirm"  => since + Slack + MaxLag <= Reaction
    /\ loop = "edge"     => since + Slack <= Reaction
    /\ loop = "confirm"  => since + delay >= DebounceDelay
    /\ loop = "edge"     => since >= DebounceDelay

(* The call for a press is made while the contact is open; only when the *)
(* call returns as late as it may is the next press possible.            *)
Calling ==
  loop = "pressing" =>
    /\ was_pressed
    /\ ~ level => since + Slack <= Reaction + MaxLag
    /\ level => since = 0 /\ Slack = 0 /\ hold = 0

(* A release is owed exactly while the loop has not called for it. *)
Alternating ==
  owed = IF was_pressed /\ ~ level /\ loop # "pressing" THEN 1 ELSE 0

(* The ticks measured so far, and the hold. *)
Measured ==
  /\ level /\ ~ was_pressed => hold = since
  /\ level /\ was_pressed /\ loop # "pressing" =>
       hold - Elapsed(press_started) \in DebounceDelay .. Reaction
  /\ ~ level /\ was_pressed /\ loop # "pressing" =>
       hold + since - Elapsed(press_started) \in DebounceDelay .. Reaction

IInv ==
  /\ TypeOK
  /\ Delays
  /\ Glitches
  /\ Timely
  /\ Calling
  /\ Alternating
  /\ Measured

-----------------------------------------------------------------------------
(* Lemmas about the constants and the tick arithmetic *)

(* What the two assumptions say in the terms of the proofs. *)
LEMMA Constants ==
  /\ HalfRange \in Nat /\ HalfRange > 0
  /\ LongPress \in Nat /\ LongPress > 0
  /\ DebounceDelay \in Nat /\ DebounceDelay > 0
  /\ LoopDelay \in Nat /\ LoopDelay > 0
  /\ BounceTime \in Nat /\ MinDwell \in Nat /\ MaxHold \in Nat /\ MaxLag \in Nat
  /\ LastBounce \in Nat /\ LastBounce <= BounceTime /\ BounceTime <= LastBounce + 1
  /\ BounceTime <= DebounceDelay
  /\ Reaction = LastBounce + LoopDelay + 5 * MaxLag + DebounceDelay
  /\ Reaction \in Nat
  /\ Reaction < MinDwell
  /\ Reaction + MaxLag <= MinDwell
  /\ MaxHold + MinDwell < 2 * HalfRange
BY MainLoopAssumption, ThumbAssumption DEF LastBounce, JitterBound, Reaction

(* The ticks between two readings of the counter are in its range. *)
LEMMA ElapsedRange ==
  ASSUME tick \in 0 .. 2 * HalfRange - 1, NEW from \in 0 .. 2 * HalfRange - 1
  PROVE  /\ Elapsed(from) \in 0 .. 2 * HalfRange - 1
         /\ Elapsed(tick) = 0
<1> DEFINE N == 2 * HalfRange
<1>1. N \in Nat \ {0} /\ tick \in 0 .. N - 1 /\ from \in 0 .. N - 1
  BY Constants
<1> HIDE DEF N
<1>2. (tick - from) % N \in 0 .. N - 1 /\ (tick - tick) % N = 0
  BY <1>1
<1> QED BY <1>2 DEF Elapsed, N

(* One tick adds one to them, up to the wrap of the counter. *)
LEMMA ElapsedGrows ==
  ASSUME tick \in 0 .. 2 * HalfRange - 1, NEW from \in 0 .. 2 * HalfRange - 1,
         tick' = (tick + 1) % (2 * HalfRange)
  PROVE  /\ tick' \in 0 .. 2 * HalfRange - 1
         /\ Elapsed(from) + 1 < 2 * HalfRange
              => (tick' - from) % (2 * HalfRange) = Elapsed(from) + 1
<1> DEFINE N == 2 * HalfRange
<1>1. N \in Nat \ {0} /\ tick \in 0 .. N - 1 /\ from \in 0 .. N - 1
  BY Constants
<1>2. tick' = (tick + 1) % N
  OBVIOUS
<1> HIDE DEF N
<1>3. tick' = IF tick + 1 = N THEN 0 ELSE tick + 1
  BY <1>1, <1>2
<1>4. (tick - from) % N = IF tick >= from THEN tick - from ELSE tick - from + N
  BY <1>1
<1>5. (tick' - from) % N =
        IF tick' >= from THEN tick' - from ELSE tick' - from + N
  BY <1>1, <1>3
<1>6. ((tick - from) % N) + 1 < N
        => (tick' - from) % N = ((tick - from) % N) + 1
  BY <1>1, <1>3, <1>4, <1>5
<1>7. tick' \in 0 .. N - 1
  BY <1>1, <1>3
<1> QED BY <1>6, <1>7 DEF Elapsed, N

-----------------------------------------------------------------------------
(* The invariant holds at the start, and each action preserves it. *)

LEMMA InitEstablishes == Init => IInv
<1> SUFFICES ASSUME Init PROVE IInv
  OBVIOUS
<1> USE Constants DEF Init
<1>1. TypeOK
  <2>1. loop \in Points /\ request \in Requests
    BY DEF Points, Requests
  <2>2. was_pressed \in BOOLEAN /\ level \in BOOLEAN
    OBVIOUS
  <2> QED BY <2>1, <2>2 DEF TypeOK
<1>2. Delays /\ Glitches /\ Calling /\ Alternating
  BY DEF Delays, Glitches, Calling, Alternating
<1>3. Timely
  BY DEF Timely, Slack
<1>4. Measured
  BY DEF Measured
<1> QED BY <1>1, <1>2, <1>3, <1>4 DEF IInv

LEMMA CallUpdatePreserves == IInv /\ CallUpdate => IInv'
<1> SUFFICES ASSUME IInv, CallUpdate PROVE IInv'
  OBVIOUS
<1> USE Constants DEF IInv, CallUpdate, At, GoOn, thumb, TypeOK
<1>1. TypeOK'
  BY DEF Points, Requests
<1>2. Delays' /\ Glitches' /\ Calling' /\ Alternating'
  BY DEF Delays, Glitches, Calling, Alternating
<1>3. Timely'
  BY DEF Timely, Slack, Seen
<1>4. Measured'
  BY DEF Measured, Elapsed
<1> QED BY <1>1, <1>2, <1>3, <1>4

LEMMA UpdateReturnsPreserves == IInv /\ UpdateReturns => IInv'
<1> SUFFICES ASSUME IInv, UpdateReturns PROVE IInv'
  OBVIOUS
<1> USE Constants DEF IInv, UpdateReturns, At, GoOn, thumb, TypeOK
<1>1. TypeOK'
  BY DEF Points, Requests
<1>2. Delays' /\ Glitches' /\ Calling' /\ Alternating'
  BY DEF Delays, Glitches, Calling, Alternating
<1>3. Timely'
  BY DEF Timely, Slack, Seen
<1>4. Measured'
  BY DEF Measured, Elapsed
<1> QED BY <1>1, <1>2, <1>3, <1>4

(* The first sample differs from the contact only while it bounces: then *)
(* the way round the loop starts again, not later than LastBounce.       *)
LEMMA PollPreserves == IInv /\ Poll => IInv'
<1> SUFFICES ASSUME IInv, Poll PROVE IInv'
  OBVIOUS
<1> USE Constants DEF IInv, Poll, At, GoOn, thumb, TypeOK
<1>0. PICK is_pressed \in ButtonReads :
        IF is_pressed # was_pressed
          THEN GoOn("confirm", DebounceDelay)
          ELSE GoOn("update", LoopDelay)
  OBVIOUS
<1>1. is_pressed # level => since <= LastBounce /\ since < BounceTime
  <2>1. CASE since < BounceTime
    BY <2>1
  <2>2. CASE ~ (since < BounceTime)
    <3>1. ButtonReads = {level}
      BY <2>2 DEF ButtonReads
    <3> QED BY <3>1, Zenon
  <2> QED BY <2>1, <2>2
<1>2. is_pressed \in BOOLEAN
  BY DEF ButtonReads
<1>3. TypeOK'
  BY <1>0 DEF Points, Requests
<1>4. Delays'
  BY <1>0 DEF Delays
<1>5. Glitches'
  BY <1>0, <1>1, <1>2 DEF Glitches, Slack, Seen
<1>6. Timely'
  BY <1>0, <1>1, <1>2 DEF Timely, Slack, Seen
<1>7. Calling' /\ Alternating'
  BY <1>0 DEF Calling, Alternating
<1>8. Measured'
  BY <1>0 DEF Measured, Elapsed
<1> QED BY <1>3, <1>4, <1>5, <1>6, <1>7, <1>8

(* The second sample never turns a bounce into a press or a release. *)
LEMMA ConfirmPreserves == IInv /\ Confirm => IInv'
<1> SUFFICES ASSUME IInv, Confirm PROVE IInv'
  OBVIOUS
<1> USE Constants DEF IInv, Confirm, At, GoOn, thumb, TypeOK
<1>0. PICK stable_pressed \in ButtonReads :
        IF stable_pressed # was_pressed
          THEN GoOn("edge", 0)
          ELSE GoOn("update", LoopDelay)
  OBVIOUS
<1>1. stable_pressed # level => since <= LastBounce /\ since < BounceTime
  <2>1. CASE since < BounceTime
    BY <2>1
  <2>2. CASE ~ (since < BounceTime)
    <3>1. ButtonReads = {level}
      BY <2>2 DEF ButtonReads
    <3> QED BY <3>1, Zenon
  <2> QED BY <2>1, <2>2
<1>2. stable_pressed \in BOOLEAN
  BY DEF ButtonReads
<1>3. TypeOK'
  BY <1>0 DEF Points, Requests
<1>4. Delays'
  BY <1>0 DEF Delays
<1>5. Glitches'
  BY <1>0, <1>1, <1>2 DEF Glitches, Seen
<1>6. Timely'
  BY <1>0, <1>1, <1>2 DEF Timely, Slack, Seen
<1>7. Calling' /\ Alternating'
  BY <1>0 DEF Calling, Alternating
<1>8. Measured'
  BY <1>0 DEF Measured, Elapsed
<1> QED BY <1>3, <1>4, <1>5, <1>6, <1>7, <1>8

(* A press is taken in: from here on the loop measures what the hold     *)
(* counts, late by the age of the press.                                 *)
LEMMA PressedPreserves == IInv /\ Pressed => IInv'
<1> SUFFICES ASSUME IInv, Pressed PROVE IInv'
  OBVIOUS
<1> USE Constants DEF IInv, Pressed, At, GoOn, thumb, TypeOK
<1>0. level /\ ~ was_pressed
  BY DEF Glitches, Seen
<1>1. TypeOK'
  BY DEF Points, Requests
<1>2. Delays' /\ Glitches' /\ Calling' /\ Alternating'
  BY <1>0 DEF Delays, Glitches, Calling, Alternating
<1>3. Timely'
  BY <1>0 DEF Timely, Seen
<1>4. Elapsed(press_started)' = 0
  BY ElapsedRange DEF Elapsed
<1>5. since \in DebounceDelay .. Reaction /\ hold = since
  <2>1. ~ Seen
    BY <1>0 DEF Seen
  <2> QED BY <1>0, <2>1 DEF Timely, Slack, Measured
<1>6. Measured'
  BY <1>0, <1>4, <1>5 DEF Measured
<1> QED BY <1>1, <1>2, <1>3, <1>6

LEMMA ReleasedPreserves == IInv /\ Released => IInv'
<1> SUFFICES ASSUME IInv, Released PROVE IInv'
  OBVIOUS
<1> USE Constants DEF IInv, Released, At, GoOn, thumb, TypeOK
<1>0. ~ level /\ was_pressed /\ owed = 1
  BY DEF Glitches, Seen, Alternating
<1>1. TypeOK'
  BY <1>0 DEF Points, Requests
<1>2. Delays' /\ Glitches' /\ Alternating'
  BY <1>0 DEF Delays, Glitches, Alternating
<1>3. Timely' /\ Measured'
  BY <1>0 DEF Timely, Measured
<1>4. Calling'
  <2>1. ~ Seen
    BY <1>0 DEF Seen
  <2> QED BY <1>0, <2>1 DEF Calling, Slack, Timely
<1> QED BY <1>1, <1>2, <1>3, <1>4

LEMMA PressReturnsPreserves == IInv /\ PressReturns => IInv'
<1> SUFFICES ASSUME IInv, PressReturns PROVE IInv'
  OBVIOUS
<1> USE Constants DEF IInv, PressReturns, At, GoOn, thumb, TypeOK
<1>1. TypeOK'
  <2>1. (loop \in Points /\ request \in Requests)'
    BY DEF Points, Requests
  <2>2. (was_pressed \in BOOLEAN)'
    OBVIOUS
  <2> QED BY <2>1, <2>2
<1>2. Delays' /\ Glitches' /\ Calling' /\ Alternating'
  BY DEF Delays, Glitches, Calling, Alternating
<1>3. Timely'
  BY DEF Timely, Slack, Seen, Calling
<1>4. Measured'
  BY DEF Measured, Calling
<1> QED BY <1>1, <1>2, <1>3, <1>4

(* The thumb comes down on a loop that has seen the release. *)
LEMMA PressPreserves == IInv /\ Press => IInv'
<1> SUFFICES ASSUME IInv, Press PROVE IInv'
  OBVIOUS
<1> USE Constants DEF IInv, Press, task, TypeOK
<1>0. Slack \in Nat /\ Slack' = Slack
  BY DEF Slack, Delays
<1>1. loop # "pressing" => Seen
  BY <1>0 DEF Timely, Points
<1>2. loop \notin {"confirm", "edge"}
  BY <1>0, <1>1 DEF Glitches
<1>3. TypeOK'
  OBVIOUS
<1>4. Delays' /\ Alternating'
  BY <1>1 DEF Delays, Alternating, Seen
<1>5. Glitches'
  BY <1>2 DEF Glitches
<1>6. Timely'
  <2>1. Slack <= MaxLag + (IF loop = "update" THEN LoopDelay ELSE 0)
    BY <1>2 DEF Slack, Delays
  <2> QED BY <1>0, <1>2, <2>1 DEF Timely
<1>7. Calling'
  BY <1>0, <1>1 DEF Calling, Seen
<1>8. Measured'
  BY <1>1 DEF Measured, Seen
<1> QED BY <1>3, <1>4, <1>5, <1>6, <1>7, <1>8

(* The thumb leaves a contact that the loop has seen closed. *)
LEMMA ReleasePreserves == IInv /\ Release => IInv'
<1> SUFFICES ASSUME IInv, Release PROVE IInv'
  OBVIOUS
<1> USE Constants DEF IInv, Release, task, TypeOK
<1>0. Slack \in Nat /\ Slack' = Slack
  BY DEF Slack, Delays
<1>1. loop # "pressing" /\ Seen
  BY <1>0 DEF Timely, Points, Calling
<1>2. loop \notin {"confirm", "edge"}
  BY <1>0, <1>1 DEF Glitches
<1>3. TypeOK'
  <2>1. owed' \in -1 .. 2
    BY <1>1 DEF Alternating, Seen
  <2>2. (level \in BOOLEAN)'
    OBVIOUS
  <2> QED BY <2>1, <2>2
<1>4. Delays' /\ Alternating'
  BY <1>1 DEF Delays, Alternating, Seen
<1>5. Glitches' /\ Calling'
  BY <1>1, <1>2 DEF Glitches, Calling
<1>6. Timely'
  <2>1. Slack <= MaxLag + (IF loop = "update" THEN LoopDelay ELSE 0)
    BY <1>2 DEF Slack, Delays
  <2> QED BY <1>0, <1>2, <2>1 DEF Timely
<1>7. Measured'
  BY <1>1 DEF Measured, Seen, Elapsed
<1> QED BY <1>3, <1>4, <1>5, <1>6, <1>7

(* A tick ages the change by one and takes one from the slack. *)
LEMMA TickPreserves == IInv /\ Tick => IInv'
<1> SUFFICES ASSUME IInv, Tick PROVE IInv'
  OBVIOUS
<1> USE Constants DEF IInv, Tick, TypeOK
<1>0. Slack' = Slack - 1 /\ Slack \in Nat \ {0}
  BY DEF Slack, Delays
<1>1. Seen' = Seen
  BY DEF Seen
<1>2. TypeOK'
  BY ElapsedGrows
<1>3. Delays' /\ Alternating'
  BY DEF Delays, Alternating
<1>4. Glitches'
  BY <1>0, <1>1 DEF Glitches
<1>5. Timely'
  BY <1>0, <1>1 DEF Timely, Delays
<1>6. Calling'
  BY <1>0 DEF Calling
<1>7. Measured'
  <2>1. CASE level /\ ~ was_pressed
    <3>1. since' = since + 1 /\ since < MinDwell
      BY <2>1, <1>0 DEF Timely, Seen, Points, Calling
    <3> QED BY <2>1, <3>1 DEF Measured
  <2>2. CASE level /\ was_pressed /\ loop # "pressing"
    BY <2>2, ElapsedRange, ElapsedGrows DEF Measured, Elapsed
  <2>3. CASE ~ level /\ was_pressed /\ loop # "pressing"
    <3>1. since' = since + 1 /\ since < MinDwell
      BY <2>3, <1>0 DEF Timely, Seen, Points
    <3> QED BY <2>3, <3>1, ElapsedRange, ElapsedGrows DEF Measured, Elapsed
  <2> QED BY <2>1, <2>2, <2>3 DEF Measured
<1> QED BY <1>2, <1>3, <1>4, <1>5, <1>6, <1>7

LEMMA StutterPreserves == IInv /\ UNCHANGED vars => IInv'
BY DEF IInv, vars, task, thumb, TypeOK, Delays, Glitches, Timely, Calling,
       Alternating, Measured, Slack, Seen, Elapsed

LEMMA NextPreserves == IInv /\ [Next]_vars => IInv'
BY CallUpdatePreserves, UpdateReturnsPreserves, PollPreserves,
   ConfirmPreserves, PressedPreserves, ReleasedPreserves,
   PressReturnsPreserves, PressPreserves, ReleasePreserves, TickPreserves,
   StutterPreserves
   DEF Next, MainStep

-----------------------------------------------------------------------------
(* The theorems *)

(* Every state of the loop and the thumb satisfies the timing invariant: a *)
(* change of the contact is acted upon within Reaction ticks               *)
(* (agent-presence-device.c:38-64, button.c:17-20).                        *)
THEOREM LoopInvariance == Spec => []IInv
BY InitEstablishes, NextPreserves, PTL DEF Spec

(* The variables keep their types, the waiting and the histories their     *)
(* bounds, for every length of the delays (agent-presence-device.c:38-64). *)
THEOREM LoopTypes == Spec => []TypeOK
<1>1. IInv => TypeOK
  BY DEF IInv
<1> QED BY <1>1, LoopInvariance, PTL

(* However the contact bounces, and however late the loop gets its turn,   *)
(* no release is made up, and each is acted upon before the next press     *)
(* (agent-presence-device.c:43-61).                                        *)
THEOREM EachPressOnce == Spec => []OnePressOneCall
<1>1. IInv => OnePressOneCall
  BY DEF IInv, Alternating, OnePressOneCall
<1> QED BY <1>1, LoopInvariance, PTL

(* One step that calls for a press: both delays lie between DebounceDelay *)
(* and Reaction, so the measure errs by JitterBound at most.              *)
LEMMA ReleasedClassifies ==
  ASSUME IInv, Released
  PROVE  /\ request' = "acknowledge" => hold >= LongPress - JitterBound
         /\ request' = "next_page" => hold <= LongPress + JitterBound
<1> USE Constants DEF IInv, TypeOK, Released, At
<1>1. ~ level /\ was_pressed /\ ~ Seen
  BY DEF Glitches, Seen
<1>2. since \in DebounceDelay .. Reaction
  BY <1>1 DEF Timely, Slack
<1>3. hold + since - Elapsed(press_started) \in DebounceDelay .. Reaction
  BY <1>1 DEF Measured
<1>4. Elapsed(press_started) \in Nat
  BY ElapsedRange
<1>5. JitterBound \in Nat /\ Reaction = JitterBound + DebounceDelay
  BY DEF Reaction, JitterBound
<1>6. request' = IF Elapsed(press_started) >= LongPress
                   THEN "acknowledge" ELSE "next_page"
  OBVIOUS
<1> QED BY <1>2, <1>3, <1>4, <1>5, <1>6

(* A press is an acknowledgement or a turn of the page by how long it was  *)
(* held, to within JitterBound, across a wrap of the tick counter too      *)
(* (agent-presence-device.c:49-57).                                        *)
THEOREM HoldDecides == Spec => ClassifiedByHold
<1> DEFINE Classified ==
      /\ request' = "acknowledge" /\ request # request'
           => hold >= LongPress - JitterBound
      /\ request' = "next_page" /\ request # request'
           => hold <= LongPress + JitterBound
<1>1. ASSUME IInv, [Next]_vars PROVE [Classified]_vars
  <2>1. CASE Released
    BY <1>1, <2>1, ReleasedClassifies
  <2>2. CASE request' \in {request, "none", "update"}
    BY <2>2
  <2>3. CASE UNCHANGED vars
    BY <2>3
  <2> QED BY <1>1, <2>1, <2>2, <2>3
          DEF Next, MainStep, CallUpdate, UpdateReturns, Poll, Confirm,
              Pressed, PressReturns, Press, Release, Tick, task
<1>2. []IInv /\ [][Next]_vars => [][Classified]_vars
  BY <1>1, PTL
<1> QED BY <1>2, LoopInvariance, PTL DEF Spec, ClassifiedByHold
=============================================================================
