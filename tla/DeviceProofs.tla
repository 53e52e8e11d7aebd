---------------------------- MODULE DeviceProofs ----------------------------
(***************************************************************************)
(* What the whole device keeps, for every value of its constants: the      *)
(* types of both parts, the panel after the boot, and the length of a      *)
(* reading session.  The invariants of the parts are reused: each step of  *)
(* the device is a step of presence.c, of the loop or of both, or a boot   *)
(* or a reboot, and PresenceProofs and MainLoopProofs say what the former  *)
(* preserve.  What is new relates the two: which call the loop is in, what *)
(* the clearing call of the boot has reached, and how long a session may   *)
(* still last at each point of the loop.                                   *)
(***************************************************************************)
EXTENDS Device, TLAPS

PP == INSTANCE PresenceProofs
LP == INSTANCE MainLoopProofs

(* What stands on a screen: a message, nothing or noise *)
TextsTyped ==
  /\ oled_buffer.text \in Messages \cup {NoMessage}
  /\ panel.text \in Messages \cup {NoMessage, Noise}
  /\ seen \in Messages \cup {NoMessage, Noise}
  /\ panics \in 0 .. MaxPanics

(* Until the loop runs it has not looked at the button, the only call of   *)
(* the main task is the clearing one, and nobody can read anything.        *)
Booting ==
  /\ boot \in {BootSteps[i] : i \in DOMAIN BootSteps}
  /\ boot # "loop" =>
       /\ loop = "update" /\ delay = 0 /\ ~ was_pressed
       /\ request = "none" \/ Clearing
       /\ request = "none" => pc["main"] = "out"
       /\ presence_state.state # PP!READING

(* The request of the loop is the presence call the main task is in. *)
CallOfLoop ==
  /\ pc["main"] # "out" => call["main"].op = request
  /\ boot = "loop" =>
       /\ loop = "updating" => request = "update"
       /\ loop = "pressing" => request \in {"next_page", "acknowledge"}
       /\ loop \notin {"updating", "pressing"} =>
            request = "none" /\ pc["main"] = "out"

(* The clearing call has flushed: nothing older is left on the panel. *)
Cleared ==
  boot = "loop" \/ (Clearing /\ pc["main"] \in {"give", "out"})
    => PP!Shown({})

(* How long a reading session may still be left alone, point by point *)
Asking == pc["main"] \in {"take", "body"}
SessionTimed ==
  IF presence_state.state = PP!READING
    THEN LET age == quiet + LP!Slack
         IN  /\ loop = "update" => age + MaxLag <= SessionBound
             /\ loop \in {"updating", "pressing"} /\ Asking =>
                  age <= SessionBound
             /\ loop = "updating" /\ ~ Asking =>
                  age + DebounceDelay + LoopDelay + 5 * MaxLag <= SessionBound
             /\ loop = "poll" =>
                  age + DebounceDelay + LoopDelay + 4 * MaxLag <= SessionBound
             /\ loop = "confirm" => age + LoopDelay + 3 * MaxLag <= SessionBound
             /\ loop = "edge" => age + LoopDelay + 2 * MaxLag <= SessionBound
             /\ loop = "pressing" /\ ~ Asking =>
                  age + LoopDelay + 2 * MaxLag <= SessionBound
    ELSE quiet = 0

DInv ==
  /\ PP!Core
  /\ LP!IInv
  /\ TextsTyped
  /\ Booting
  /\ CallOfLoop
  /\ Cleared
  /\ SessionTimed

-----------------------------------------------------------------------------
(* The parts as the device sees them are the parts the proofs are about.   *)

LEMMA Admitted ==
  /\ PP!PresenceAssumption
  /\ LP!MainLoopAssumption
  /\ LP!ThumbAssumption
<1>1. PP!PresenceAssumption
  BY DeviceAssumption
     DEF P!PresenceAssumption, PP!PresenceAssumption,
         P!PRESENCE_MAX_BODY_LINES, PP!PRESENCE_MAX_BODY_LINES
<1>2. LP!MainLoopAssumption
  BY DeviceAssumption DEF L!MainLoopAssumption, LP!MainLoopAssumption
<1>3. LP!ThumbAssumption
  BY DeviceAssumption
     DEF L!ThumbAssumption, LP!ThumbAssumption, L!JitterBound, LP!JitterBound,
         L!LastBounce, LP!LastBounce
<1> QED BY <1>1, <1>2, <1>3

LEMMA SameTasks == P!Tasks = PP!Tasks /\ P!Free = PP!Free
BY DEF P!Tasks, PP!Tasks, P!Free, PP!Free

LEMMA SameCalls == ASSUME NEW t PROVE P!Calls(t) = PP!Calls(t)
BY DEF P!Calls, PP!Calls

LEMMA SameEnter ==
  ASSUME NEW t, NEW c
  PROVE  P!Enter(t, c) <=> PP!Enter(t, c)
BY SameCalls DEF P!Enter, PP!Enter, P!Goto, PP!Goto, P!memory, PP!memory,
                 P!display, PP!display, P!clock, PP!clock

LEMMA SamePages ==
  /\ \A n : P!PagesOf(n) = PP!PagesOf(n)
  /\ P!PRESENCE_MAX_PAGE_COUNT = PP!PRESENCE_MAX_PAGE_COUNT
  /\ \A n : P!BoundedPageCount(n) = PP!BoundedPageCount(n)
  /\ \A page, n : P!LinesOfPage(page, n) = PP!LinesOfPage(page, n)
BY DEF P!PagesOf, PP!PagesOf, P!PRESENCE_MAX_PAGE_COUNT,
       PP!PRESENCE_MAX_PAGE_COUNT, P!BoundedPageCount, PP!BoundedPageCount,
       P!LinesOfPage, PP!LinesOfPage, P!PRESENCE_BODY_LINES_PER_PAGE,
       PP!PRESENCE_BODY_LINES_PER_PAGE, P!PRESENCE_MAX_BODY_LINES,
       PP!PRESENCE_MAX_BODY_LINES

LEMMA SameModel ==
  /\ P!IDLE = PP!IDLE /\ P!UNREAD = PP!UNREAD /\ P!READING = PP!READING
  /\ \A m, n : P!presence_state_message(m, n) = PP!presence_state_message(m, n)
  /\ \A m : P!presence_state_short_press(m) = PP!presence_state_short_press(m)
  /\ \A m : P!presence_state_long_press(m) = PP!presence_state_long_press(m)
  /\ \A m : P!presence_state_timeout(m) = PP!presence_state_timeout(m)
  /\ \A m : P!presence_state_is_reading(m) <=> PP!presence_state_is_reading(m)
  /\ P!presence_state_init = PP!presence_state_init
BY DEF P!IDLE, PP!IDLE, P!UNREAD, PP!UNREAD, P!READING, PP!READING,
       P!presence_state_message, PP!presence_state_message,
       P!presence_state_short_press, PP!presence_state_short_press,
       P!HasNextPage, PP!HasNextPage,
       P!presence_state_long_press, PP!presence_state_long_press,
       P!presence_state_timeout, PP!presence_state_timeout,
       P!presence_state_is_reading, PP!presence_state_is_reading,
       P!presence_state_init, PP!presence_state_init

LEMMA SameScreens ==
  /\ \A m, page, of, lines :
       P!Screen(m, page, of, lines) = PP!Screen(m, page, of, lines)
  /\ P!Blank = PP!Blank
  /\ P!NoiseScreen = PP!NoiseScreen
  /\ P!ExpectedScreen = PP!ExpectedScreen
BY SamePages, SameModel
   DEF P!Screen, PP!Screen, P!Blank, PP!Blank, P!NoiseScreen, PP!NoiseScreen,
       P!ExpectedScreen, PP!ExpectedScreen

LEMMA SameTakeMutex ==
  ASSUME NEW t
  PROVE  P!TakeMutex(t) <=> PP!TakeMutex(t)
BY SameTasks
   DEF P!TakeMutex, PP!TakeMutex, P!Goto, PP!Goto, P!memory, PP!memory,
       P!display, PP!display, P!clock, PP!clock

LEMMA SameBody ==
  ASSUME NEW t
  PROVE  P!Body(t) <=> PP!Body(t)
<1> USE SameModel, SamePages
    DEF P!At, PP!At, P!Goto, PP!Goto, P!memory, PP!memory, P!display,
        PP!display, P!clock, PP!clock, P!TickAdd, PP!TickAdd, P!TickSub,
        PP!TickSub
<1>1. P!ShowMessage(t) <=> PP!ShowMessage(t)
  BY DEF P!ShowMessage, PP!ShowMessage
<1>2. P!NextPageWhenIdle(t) <=> PP!NextPageWhenIdle(t)
  BY DEF P!NextPageWhenIdle, PP!NextPageWhenIdle
<1>3. P!NextPage(t) <=> PP!NextPage(t)
  BY DEF P!NextPage, PP!NextPage
<1>4. P!Acknowledge(t) <=> PP!Acknowledge(t)
  BY DEF P!Acknowledge, PP!Acknowledge
<1>5. P!TimeOut(t) <=> PP!TimeOut(t)
  BY DEF P!TimeOut, PP!TimeOut, P!DeadlinePassed, PP!DeadlinePassed
<1>6. P!NoTimeOut(t) <=> PP!NoTimeOut(t)
  BY DEF P!NoTimeOut, PP!NoTimeOut, P!DeadlinePassed, PP!DeadlinePassed
<1> QED BY <1>1, <1>2, <1>3, <1>4, <1>5, <1>6 DEF P!Body, PP!Body

LEMMA SameLocked ==
  ASSUME NEW t
  PROVE  P!Locked(t) <=> PP!Locked(t)
<1> USE DEF P!Goto, PP!Goto, P!memory, PP!memory, P!display, PP!display,
        P!clock, PP!clock
<1>1. P!Draw(t) <=> PP!Draw(t)
  BY SameScreens, SamePages DEF P!Draw, PP!Draw
<1>2. P!Clear(t) <=> PP!Clear(t)
  BY SameScreens DEF P!Clear, PP!Clear
<1>3. P!Flush(t) <=> PP!Flush(t)
  BY DEF P!Flush, PP!Flush
<1>4. P!GiveMutex(t) <=> PP!GiveMutex(t)
  BY SameTasks DEF P!GiveMutex, PP!GiveMutex
<1> QED BY <1>1, <1>2, <1>3, <1>4, SameBody DEF P!Locked, PP!Locked

LEMMA SameTick == P!Tick <=> PP!Tick
BY SameModel
   DEF P!Tick, PP!Tick, P!TickAdd, PP!TickAdd, P!PollBound, PP!PollBound,
       P!memory, PP!memory, P!display, PP!display

LEMMA SameInit == (P!Init <=> PP!Init) /\ (L!Init <=> LP!Init)
BY SameModel, SameScreens, SameTasks DEF P!Init, PP!Init, L!Init, LP!Init

LEMMA SameLoop ==
  /\ L!CallUpdate <=> LP!CallUpdate
  /\ L!UpdateReturns <=> LP!UpdateReturns
  /\ L!Poll <=> LP!Poll
  /\ L!Confirm <=> LP!Confirm
  /\ L!Pressed <=> LP!Pressed
  /\ L!Released <=> LP!Released
  /\ L!PressReturns <=> LP!PressReturns
  /\ L!Press <=> LP!Press
  /\ L!Release <=> LP!Release
  /\ L!Tick <=> LP!Tick
<1> USE DEF L!At, LP!At, L!GoOn, LP!GoOn, L!thumb, LP!thumb, L!task, LP!task,
        L!ButtonReads, LP!ButtonReads, L!Elapsed, LP!Elapsed
<1>1. /\ L!CallUpdate <=> LP!CallUpdate
      /\ L!UpdateReturns <=> LP!UpdateReturns
      /\ L!PressReturns <=> LP!PressReturns
  BY DEF L!CallUpdate, LP!CallUpdate, L!UpdateReturns, LP!UpdateReturns,
         L!PressReturns, LP!PressReturns
<1>2. L!Poll <=> LP!Poll
  BY DEF L!Poll, LP!Poll
<1>3. L!Confirm <=> LP!Confirm
  BY DEF L!Confirm, LP!Confirm
<1>4. /\ L!Pressed <=> LP!Pressed
      /\ L!Released <=> LP!Released
  BY DEF L!Pressed, LP!Pressed, L!Released, LP!Released
<1>5. /\ L!Press <=> LP!Press
      /\ L!Release <=> LP!Release
      /\ L!Tick <=> LP!Tick
  BY DEF L!Press, LP!Press, L!Release, LP!Release, L!Tick, LP!Tick
<1> QED BY <1>1, <1>2, <1>3, <1>4, <1>5

-----------------------------------------------------------------------------
(* Numbers, and the invariants of the parts under the device's own steps   *)

LEMMA Numbers ==
  /\ ReadingTimeout \in Nat /\ ReadingTimeout > 0
  /\ DebounceDelay \in Nat /\ LoopDelay \in Nat /\ MaxLag \in Nat
  /\ SessionBound = ReadingTimeout - 1 + DebounceDelay + LoopDelay + 6 * MaxLag
  /\ SessionBound \in Nat
  /\ NoMessage \notin Messages /\ Noise \notin Messages /\ Noise # NoMessage
BY Admitted
   DEF PP!PresenceAssumption, LP!MainLoopAssumption, SessionBound

(* What the loop's types give for the time that is left *)
LEMMA SlackTyped ==
  ASSUME LP!IInv
  PROVE  /\ LP!Slack \in Nat
         /\ loop \notin {"update", "confirm"} => LP!Slack <= MaxLag
         /\ loop = "update" => LP!Slack <= LoopDelay + MaxLag
BY Numbers DEF LP!IInv, LP!TypeOK, LP!Delays, LP!Slack

(* Steps of others, and the clearing call, do not touch the loop. *)
LEMMA LoopKept ==
  ASSUME LP!IInv,
         UNCHANGED <<loop, delay, was_pressed, press_started, thumb, tick>>,
         request' \in LP!Requests
  PROVE  LP!IInv' /\ LP!Slack' = LP!Slack
<1> USE DEF thumb
<1>1. LP!TypeOK'
  BY DEF LP!IInv, LP!TypeOK
<1>2. LP!Delays' /\ LP!Glitches' /\ LP!Timely' /\ LP!Calling' /\ LP!Alternating'
  BY DEF LP!IInv, LP!Delays, LP!Glitches, LP!Timely, LP!Calling,
         LP!Alternating, LP!Slack, LP!Seen
<1>3. LP!Measured'
  BY DEF LP!IInv, LP!Measured, LP!Elapsed
<1>4. LP!Slack' = LP!Slack
  BY DEF LP!Slack
<1> QED BY <1>1, <1>2, <1>3, <1>4 DEF LP!IInv

(* Before the loop runs the ticks pass it by. *)
LEMMA BootTick ==
  ASSUME LP!IInv, ~ was_pressed, UNCHANGED <<main, thumb>>,
         tick' \in 0 .. 2 * HalfRange - 1
  PROVE  LP!IInv' /\ LP!Slack' = LP!Slack
<1> USE DEF thumb, main
<1>1. LP!TypeOK'
  BY DEF LP!IInv, LP!TypeOK
<1>2. LP!Delays' /\ LP!Glitches' /\ LP!Timely' /\ LP!Calling' /\ LP!Alternating'
  BY DEF LP!IInv, LP!Delays, LP!Glitches, LP!Timely, LP!Calling,
         LP!Alternating, LP!Slack, LP!Seen
<1>3. LP!Measured'
  BY DEF LP!IInv, LP!Measured
<1>4. LP!Slack' = LP!Slack
  BY DEF LP!Slack
<1> QED BY <1>1, <1>2, <1>3, <1>4 DEF LP!IInv

(* Steps of the loop and the thumb leave presence.c alone. *)
LEMMA PresenceKept ==
  ASSUME PP!Core, NEW Left, UNCHANGED presence, UNCHANGED tick
  PROVE  PP!Core' /\ (PP!Shown(Left) => PP!Shown(Left)')
<1>1. UNCHANGED PP!vars
  BY DEF presence, PP!vars, PP!memory, PP!display, PP!clock
<1> QED BY <1>1, Admitted, PP!StutterPreserves

-----------------------------------------------------------------------------
(* What a step inside a presence call does to the two parts' relation      *)

(* Who stays away, stays where he is. *)
LEMMA StepOfOne ==
  ASSUME PP!Core, NEW t \in PP!Tasks, PP!TakeMutex(t) \/ PP!Locked(t)
  PROVE  /\ UNCHANGED <<tick, call>>
         /\ pc[t] # "out"
         /\ \A u \in PP!Tasks \ {t} : pc'[u] = pc[u]
<1>1. pc \in [PP!Tasks -> PP!Stages]
  BY DEF PP!Core, PP!TypeOK
<1> QED BY <1>1
     DEF PP!TakeMutex, PP!Locked, PP!Body, PP!ShowMessage, PP!NextPageWhenIdle,
         PP!NextPage, PP!Acknowledge, PP!TimeOut, PP!NoTimeOut, PP!Draw,
         PP!Clear, PP!Flush, PP!GiveMutex, PP!At, PP!Goto, PP!clock

(* Outside the body nothing is decided, and inside it a session begins or  *)
(* starts again with a short press, goes on if its time is not over, or is *)
(* over.                                                                   *)
LEMMA StepOutsideBody ==
  ASSUME PP!Core, NEW t \in PP!Tasks, PP!TakeMutex(t) \/ PP!Locked(t),
         pc[t] # "body"
  PROVE  /\ UNCHANGED <<presence_state, quiet>>
         /\ pc[t] = "take" <=> pc'[t] = "body"
         /\ pc'[t] # "take"
<1>1. pc \in [PP!Tasks -> PP!Stages]
  BY DEF PP!Core, PP!TypeOK
<1> QED BY <1>1
     DEF PP!TakeMutex, PP!Locked, PP!Body, PP!ShowMessage, PP!NextPageWhenIdle,
         PP!NextPage, PP!Acknowledge, PP!TimeOut, PP!NoTimeOut, PP!Draw,
         PP!Clear, PP!Flush, PP!GiveMutex, PP!At, PP!Goto, PP!clock, PP!memory

LEMMA StepOfBody ==
  ASSUME PP!Core, NEW t \in PP!Tasks, PP!TakeMutex(t) \/ PP!Locked(t),
         pc[t] = "body"
  PROVE  /\ pc'[t] \in {"draw", "clear", "give"}
         /\ call[t].op = "acknowledge" => pc'[t] = "clear"
         /\ \/ /\ presence_state'.state # PP!READING
               /\ quiet' = 0 \/ UNCHANGED <<presence_state, quiet>>
            \/ /\ call[t].op = "next_page"
               /\ quiet' = 0
            \/ /\ call[t].op = "update"
               /\ UNCHANGED <<presence_state, quiet>>
               /\ quiet < ReadingTimeout
<1>1. pc \in [PP!Tasks -> PP!Stages]
  BY DEF PP!Core, PP!TypeOK
<1>2. PP!Body(t)
  BY DEF PP!TakeMutex, PP!Locked, PP!Draw, PP!Clear, PP!Flush, PP!GiveMutex
<1>3. /\ presence_state \in PP!PresenceStateModel(PP!PRESENCE_MAX_PAGE_COUNT)
      /\ presence_state.current_page < presence_state.page_count
      /\ quiet \in Nat
  BY DEF PP!Core, PP!TypeOK, PP!Coherent
<1>4. PP!PRESENCE_MAX_PAGE_COUNT \in Nat
  BY Admitted, PP!Constants
<1>5. /\ PP!presence_state_long_press(presence_state).state = PP!IDLE
      /\ presence_state.state = PP!READING =>
           PP!presence_state_timeout(presence_state)
             = PP!presence_state_long_press(presence_state)
  BY <1>3, <1>4, Admitted, PP!ModelOperations
<1>6. PP!IDLE # PP!READING /\ PP!UNREAD # PP!READING
  BY DEF PP!IDLE, PP!READING, PP!UNREAD
<1>7. CASE PP!ShowMessage(t)
  <2>1. presence_state'.state = PP!UNREAD
    BY <1>7 DEF PP!ShowMessage, PP!presence_state_message
  <2> QED BY <1>1, <1>6, <1>7, <2>1 DEF PP!ShowMessage, PP!At, PP!Goto
<1>8. CASE PP!NextPageWhenIdle(t)
  BY <1>1, <1>6, <1>8 DEF PP!NextPageWhenIdle, PP!At, PP!Goto, PP!memory, PP!clock
<1>9. CASE PP!NextPage(t)
  BY <1>1, <1>9 DEF PP!NextPage, PP!At, PP!Goto
<1>10. CASE PP!Acknowledge(t)
  BY <1>1, <1>5, <1>6, <1>10 DEF PP!Acknowledge, PP!At, PP!Goto
<1>11. CASE PP!TimeOut(t)
  BY <1>1, <1>5, <1>6, <1>11
     DEF PP!TimeOut, PP!At, PP!Goto, PP!presence_state_is_reading
<1>12. CASE PP!NoTimeOut(t)
  <2>1. ASSUME presence_state.state = PP!READING PROVE quiet < ReadingTimeout
    <3>1. ~ PP!DeadlinePassed
      BY <1>12, <2>1 DEF PP!NoTimeOut, PP!presence_state_is_reading
    <3> QED BY <1>3, <2>1, <3>1, Numbers, Admitted, PP!DeadlinePassedExactly
  <2> QED BY <1>1, <1>12, <2>1 DEF PP!NoTimeOut, PP!At, PP!Goto, PP!memory, PP!clock
<1> QED BY <1>2, <1>7, <1>8, <1>9, <1>10, <1>11, <1>12 DEF PP!Body

(* Framebuffer and panel never show a text that is not theirs to show. *)
LEMMA StepTexts ==
  ASSUME PP!Core, TextsTyped, NEW t \in PP!Tasks,
         PP!TakeMutex(t) \/ PP!Locked(t), UNCHANGED <<seen, panics>>
  PROVE  TextsTyped'
<1>1. presence_text \in Messages \cup {NoMessage}
  BY DEF PP!Core, PP!TypeOK
<1>2. CASE PP!Draw(t)
  BY <1>1, <1>2 DEF PP!Draw, PP!Screen, TextsTyped
<1>3. CASE PP!Clear(t)
  BY <1>3 DEF PP!Clear, PP!Blank, PP!Screen, TextsTyped
<1>4. CASE PP!Flush(t)
  BY <1>4 DEF PP!Flush, TextsTyped
<1>5. CASE UNCHANGED <<oled_buffer, panel>>
  BY <1>5 DEF TextsTyped
<1> QED BY <1>2, <1>3, <1>4, <1>5
     DEF PP!TakeMutex, PP!Locked, PP!Body, PP!ShowMessage, PP!NextPageWhenIdle,
         PP!NextPage, PP!Acknowledge, PP!TimeOut, PP!NoTimeOut, PP!GiveMutex,
         PP!display

-----------------------------------------------------------------------------
(* The steps of presence calls *)

(* Who makes which call *)
LEMMA OpOfTask ==
  ASSUME DInv, NEW t \in PP!Tasks, pc[t] # "out"
  PROVE  /\ t = "main" => call[t].op = request
         /\ t # "main" => call[t].op = "show_message"
BY DEF DInv, CallOfLoop, PP!Core, PP!CallsTyped, PP!Calls, PP!Tasks

LEMMA CallStepCleared ==
  ASSUME DInv, NEW t \in PP!Tasks, PP!TakeMutex(t) \/ PP!Locked(t),
         UNCHANGED <<boot, request>>
  PROVE  Cleared'
<1>1. SUFFICES ASSUME boot = "loop" \/ (Clearing /\ pc'["main"] \in {"give", "out"})
               PROVE  PP!Shown({})'
  BY DEF Cleared, Clearing
<1>2. PP!Core
  BY DEF DInv
<1>3. PP!Shown({}) => PP!Shown({})'
  BY <1>2, Admitted, PP!TakeMutexPreserves, PP!LockedPreserves
<1>4. CASE boot = "loop" \/ (Clearing /\ pc["main"] \in {"give", "out"})
  BY <1>3, <1>4 DEF DInv, Cleared
<1>5. CASE Clearing /\ pc["main"] \notin {"give", "out"} /\ boot # "loop"
  <2>1. t = "main"
    BY <1>1, <1>2, <1>5, StepOfOne DEF PP!Tasks
  <2>2. call[t].op = "acknowledge"
    BY <1>5, <2>1, OpOfTask DEF Clearing
  <2>3. pc[t] # "body"
    BY <1>1, <1>2, <1>5, <2>1, <2>2, StepOfBody
  <2>4. PP!Flush(t)
    <3>1. pc \in [PP!Tasks -> PP!Stages]
      BY <1>2 DEF PP!Core, PP!TypeOK
    <3> QED BY <1>1, <1>5, <2>1, <2>3, <3>1
            DEF PP!TakeMutex, PP!Locked, PP!Body, PP!ShowMessage,
                PP!NextPageWhenIdle, PP!NextPage, PP!Acknowledge, PP!TimeOut,
                PP!NoTimeOut, PP!Draw, PP!Clear, PP!GiveMutex, PP!At, PP!Goto
  <2> QED BY <1>2, <2>4, Admitted, PP!FlushPreserves
<1> QED BY <1>1, <1>4, <1>5

(* A failed timeout test leaves a session that is not over; every other    *)
(* decision ends it or starts its time again.                              *)
LEMMA CallStepTimed ==
  ASSUME DInv, NEW t \in PP!Tasks, PP!TakeMutex(t) \/ PP!Locked(t),
         UNCHANGED loop, LP!Slack' = LP!Slack
  PROVE  SessionTimed'
<1>1. PP!Core /\ SessionTimed /\ LP!IInv /\ Booting /\ CallOfLoop
  BY DEF DInv
<1>2. LP!Slack \in Nat /\ (loop \notin {"update", "confirm"} => LP!Slack <= MaxLag)
  BY <1>1, SlackTyped
<1>3. quiet \in Nat
  BY <1>1 DEF PP!Core, PP!TypeOK
<1>4. loop \in LP!Points
  BY <1>1 DEF LP!IInv, LP!TypeOK
<1>5. CASE UNCHANGED <<presence_state, quiet>> /\ Asking' = Asking
  BY <1>1, <1>5 DEF SessionTimed
<1>6. CASE t # "main" /\ pc[t] = "body"
  <2>1. pc'["main"] = pc["main"] /\ call[t].op = "show_message"
    BY <1>1, <1>6, StepOfOne, OpOfTask DEF PP!Tasks
  <2>2. Asking' = Asking
    BY <2>1 DEF Asking
  <2>3. \/ presence_state'.state # PP!READING /\ quiet' = 0
        \/ UNCHANGED <<presence_state, quiet>>
    BY <1>1, <1>6, <2>1, StepOfBody
  <2> QED BY <1>5, <2>2, <2>3 DEF SessionTimed
<1>7. CASE t # "main" /\ pc[t] # "body"
  <2>1. pc'["main"] = pc["main"] /\ UNCHANGED <<presence_state, quiet>>
    BY <1>1, <1>7, StepOfOne, StepOutsideBody DEF PP!Tasks
  <2> QED BY <1>5, <2>1 DEF Asking
<1>8. CASE t = "main" /\ pc[t] # "body"
  <2>1. UNCHANGED <<presence_state, quiet>> /\ Asking' = Asking
    BY <1>1, <1>8, StepOutsideBody DEF Asking
  <2> QED BY <1>5, <2>1
<1>9. CASE t = "main" /\ pc[t] = "body"
  <2>1. call[t].op = request
    BY <1>9, OpOfTask
  <2>2. ~ Asking'
    BY <1>1, <1>9, StepOfBody DEF Asking
  <2>3. presence_state.state # PP!READING => quiet = 0
    BY <1>1 DEF SessionTimed
  <2>4. boot # "loop" => request \in {"none", "acknowledge"}
    BY <1>1 DEF Booting, Clearing
  <2>5. CASE presence_state'.state # PP!READING
    BY <1>1, <1>9, <2>3, <2>5, StepOfBody DEF SessionTimed
  <2>6. CASE call[t].op = "next_page" /\ quiet' = 0
    <3>1. loop = "pressing"
      BY <1>1, <1>9, <2>1, <2>4, <2>6 DEF CallOfLoop
    <3> QED BY <1>2, <2>2, <2>6, <3>1, Numbers DEF SessionTimed
  <2>7. CASE /\ call[t].op = "update" /\ quiet < ReadingTimeout
             /\ UNCHANGED <<presence_state, quiet>>
             /\ presence_state.state = PP!READING
    <3>1. loop = "updating"
      BY <1>1, <1>9, <2>1, <2>4, <2>7 DEF CallOfLoop
    <3> QED BY <1>2, <1>3, <2>2, <2>7, <3>1, Numbers DEF SessionTimed
  <2> QED BY <1>1, <1>9, <2>5, <2>6, <2>7, StepOfBody
<1> QED BY <1>6, <1>7, <1>8, <1>9

LEMMA CallStepPreserves ==
  ASSUME DInv, NEW t \in P!Tasks, CallStep(t)
  PROVE  DInv'
<1>1. t \in PP!Tasks /\ (PP!TakeMutex(t) \/ PP!Locked(t))
  BY SameTasks, SameTakeMutex, SameLocked DEF CallStep
<1>2. /\ PP!Core /\ LP!IInv /\ Booting /\ CallOfLoop /\ TextsTyped
      /\ UNCHANGED <<main, thumb, boot, panics, seen>>
  BY DEF DInv, CallStep
<1>3. /\ UNCHANGED <<tick, call>>
      /\ pc[t] # "out"
      /\ \A u \in PP!Tasks \ {t} : pc'[u] = pc[u]
  BY <1>1, <1>2, StepOfOne
<1>4. PP!Core'
  BY <1>1, <1>2, Admitted, PP!TakeMutexPreserves, PP!LockedPreserves
<1>5. LP!IInv' /\ LP!Slack' = LP!Slack
  BY <1>2, <1>3, LoopKept DEF main, LP!IInv, LP!TypeOK
<1>6. TextsTyped'
  BY <1>1, <1>2, StepTexts
<1>7. t # "main" => pc'["main"] = pc["main"]
  BY <1>3 DEF PP!Tasks
<1>8. CallOfLoop'
  BY <1>2, <1>3, <1>7 DEF CallOfLoop, main
<1>9. Booting'
  <2>1. boot # "loop" => presence_state'.state # PP!READING
    <3>1. CASE pc[t] # "body"
      BY <1>1, <1>2, <3>1, StepOutsideBody DEF Booting
    <3>2. CASE pc[t] = "body"
      <4>1. boot # "loop" => call[t].op \notin {"next_page", "update"}
        BY <1>1, <1>2, <1>3, OpOfTask DEF Booting, Clearing
      <4> QED BY <1>1, <1>2, <3>2, <4>1, StepOfBody
    <3> QED BY <3>1, <3>2
  <2> QED BY <1>2, <1>3, <1>7, <2>1 DEF Booting, Clearing, main
<1>10. Cleared'
  BY <1>1, <1>2, CallStepCleared DEF main
<1>11. SessionTimed'
  BY <1>1, <1>2, <1>5, CallStepTimed DEF main
<1> QED BY <1>4, <1>5, <1>6, <1>8, <1>9, <1>10, <1>11 DEF DInv

-----------------------------------------------------------------------------
(* The steps of the boot *)

(* app_main makes its calls in order: agent-presence-device.c:24-36 *)
LEMMA NextBootStep ==
  ASSUME boot \in {BootSteps[i] : i \in DOMAIN BootSteps},
         boot \notin {"presence_acknowledge", "loop"}
  PROVE  /\ BootSteps[Position(boot) + 1] \in {BootSteps[i] : i \in DOMAIN BootSteps}
         /\ BootSteps[Position(boot) + 1] # "loop"
<1>1. PICK i \in 1 .. 5 : boot = BootSteps[i]
  BY DEF BootSteps
<1>2. Position(boot) = i
  <2>1. \A j \in DOMAIN BootSteps : BootSteps[j] = boot => j = i
    BY <1>1 DEF BootSteps
  <2>2. i \in DOMAIN BootSteps
    BY <1>1 DEF BootSteps
  <2> QED BY <1>1, <2>1, <2>2 DEF Position
<1>3. BootSteps[i + 1] # "loop" /\ i + 1 \in DOMAIN BootSteps
  BY <1>1 DEF BootSteps
<1> QED BY <1>2, <1>3

LEMMA BootStepPreserves ==
  ASSUME DInv, BootStep
  PROVE  DInv'
<1>1. /\ boot \notin {"presence_acknowledge", "loop"}
      /\ UNCHANGED presence /\ UNCHANGED <<main, thumb, tick, panics, seen>>
  BY DEF BootStep
<1>2. boot' \in {BootSteps[i] : i \in DOMAIN BootSteps} /\ boot' # "loop"
  BY <1>1, NextBootStep DEF BootStep, DInv, Booting
<1>3. PP!Core'
  BY <1>1, PresenceKept DEF DInv
<1>4. LP!IInv' /\ LP!Slack' = LP!Slack
  BY <1>1, LoopKept DEF main, DInv, LP!IInv, LP!TypeOK
<1>5. request = "none" /\ pc["main"] = "out"
  BY <1>1 DEF DInv, Booting, Clearing
<1>6. TextsTyped' /\ CallOfLoop'
  BY <1>1, <1>2, <1>5 DEF DInv, TextsTyped, CallOfLoop, presence, main
<1>7. Booting' /\ Cleared'
  BY <1>1, <1>2, <1>5 DEF DInv, Booting, Cleared, Clearing, presence, main
<1>8. SessionTimed'
  BY <1>1, <1>4 DEF DInv, SessionTimed, Asking, presence, main
<1> QED BY <1>3, <1>4, <1>6, <1>7, <1>8 DEF DInv

(* Entering a call of the main task *)
LEMMA MainEnters ==
  ASSUME PP!Core, NEW op, PP!Enter("main", [op |-> op, message |-> NoMessage])
  PROVE  /\ PP!Core'
         /\ PP!Shown({}) => PP!Shown({})'
         /\ op \in {"update", "next_page", "acknowledge"}
         /\ pc["main"] = "out" /\ pc'["main"] = "take"
         /\ call'["main"].op = op
         /\ UNCHANGED <<tick, quiet, presence_state, oled_buffer, panel>>
<1>1. "main" \in PP!Tasks
  BY DEF PP!Tasks
<1>2. [op |-> op, message |-> NoMessage] \in PP!Calls("main")
  BY DEF PP!Enter
<1>3. PP!Core' /\ (PP!Shown({}) => PP!Shown({})')
  BY <1>1, <1>2, Admitted, PP!EnterPreserves
<1>4. pc \in [PP!Tasks -> PP!Stages] /\ DOMAIN call = PP!Tasks
  BY DEF PP!Core, PP!TypeOK, PP!CallsTyped
<1>5. op \in {"update", "next_page", "acknowledge"}
  BY <1>2 DEF PP!Calls
<1>6. call'["main"] = [op |-> op, message |-> NoMessage]
  BY <1>1, <1>4 DEF PP!Enter
<1> QED BY <1>1, <1>3, <1>4, <1>5, <1>6
     DEF PP!Enter, PP!Goto, PP!memory, PP!display, PP!clock

(* presence_acknowledge() before the loop: agent-presence-device.c:35 *)
LEMMA BootClearPreserves ==
  ASSUME DInv, BootClear
  PROVE  DInv'
<1>1. /\ boot = "presence_acknowledge" /\ ~ Clearing
      /\ request' = "acknowledge"
      /\ UNCHANGED <<loop, delay, was_pressed, press_started, thumb, boot,
                     panics, seen>>
  BY DEF BootClear
<1>2. PP!Enter("main", [op |-> "acknowledge", message |-> NoMessage])
  BY SameEnter DEF BootClear, MainCall
<1>3. PP!Core
  BY DEF DInv
<1>4. /\ PP!Core'
      /\ pc'["main"] = "take"
      /\ call'["main"].op = "acknowledge"
      /\ UNCHANGED <<tick, quiet, presence_state, oled_buffer, panel>>
  BY <1>2, <1>3, MainEnters
<1>5. LP!IInv' /\ LP!Slack' = LP!Slack
  BY <1>1, <1>4, LoopKept DEF DInv, LP!Requests
<1>6. TextsTyped' /\ CallOfLoop'
  BY <1>1, <1>4 DEF DInv, TextsTyped, CallOfLoop
<1>7. Booting' /\ Cleared'
  BY <1>1, <1>4 DEF DInv, Booting, Cleared, Clearing
<1>8. SessionTimed'
  BY <1>1, <1>4, <1>5 DEF DInv, SessionTimed, Booting
<1> QED BY <1>4, <1>5, <1>6, <1>7, <1>8 DEF DInv

LEMMA BootClearReturnsPreserves ==
  ASSUME DInv, BootClearReturns
  PROVE  DInv'
<1>1. /\ Clearing /\ pc["main"] = "out" /\ request' = "none" /\ boot' = "loop"
      /\ UNCHANGED presence
      /\ UNCHANGED <<loop, delay, was_pressed, press_started, thumb, tick,
                     panics, seen>>
  BY DEF BootClearReturns
<1>2. loop = "update" /\ presence_state.state # PP!READING
  BY <1>1 DEF DInv, Booting, Clearing
<1>3. PP!Core' /\ PP!Shown({})'
  BY <1>1, PresenceKept DEF DInv, Cleared
<1>4. LP!IInv' /\ LP!Slack' = LP!Slack
  BY <1>1, LoopKept DEF DInv, LP!Requests
<1>5. TextsTyped' /\ CallOfLoop'
  BY <1>1, <1>2 DEF DInv, TextsTyped, CallOfLoop, presence
<1>6. Booting' /\ Cleared'
  <2>1. "loop" \in {BootSteps[i] : i \in DOMAIN BootSteps}
    BY DEF BootSteps
  <2> QED BY <1>1, <1>3, <2>1 DEF Booting, Cleared
<1>7. SessionTimed'
  BY <1>1, <1>2 DEF DInv, SessionTimed, presence
<1> QED BY <1>3, <1>4, <1>5, <1>6, <1>7 DEF DInv

-----------------------------------------------------------------------------
(* The steps of the loop *)

(* A step of the loop or of the thumb that leaves presence.c alone *)
LEMMA LoopAlone ==
  ASSUME DInv, boot = "loop", UNCHANGED presence, UNCHANGED <<tick, boot>>
  PROVE  /\ PP!Core'
         /\ Cleared'
         /\ Booting'
         /\ Asking' = Asking
         /\ UNCHANGED <<pc, call, quiet, presence_state, panel>>
         /\ quiet \in Nat
<1>1. PP!Core' /\ PP!Shown({})'
  BY PresenceKept DEF DInv, Cleared
<1>2. quiet \in Nat
  BY DEF DInv, PP!Core, PP!TypeOK
<1> QED BY <1>1, <1>2 DEF DInv, Cleared, Booting, Asking, presence

LEMMA LoopCallsPreserves ==
  ASSUME DInv, LoopCalls
  PROVE  DInv'
<1>1. /\ boot = "loop" /\ UNCHANGED <<boot, panics, seen>>
      /\ LP!CallUpdate \/ LP!Released
      /\ PP!Enter("main", [op |-> request', message |-> NoMessage])
  BY SameEnter, SameLoop DEF LoopCalls, MainCall
<1>2. PP!Core /\ LP!IInv /\ quiet \in Nat
  BY DEF DInv, PP!Core, PP!TypeOK
<1>3. /\ PP!Core' /\ (PP!Shown({}) => PP!Shown({})')
      /\ request' \in {"update", "next_page", "acknowledge"}
      /\ pc'["main"] = "take" /\ call'["main"].op = request'
      /\ UNCHANGED <<tick, quiet, presence_state, oled_buffer, panel>>
  BY <1>1, <1>2, MainEnters
<1>4. LP!IInv'
  BY <1>1, <1>2, Admitted, LP!CallUpdatePreserves, LP!ReleasedPreserves
<1>5. TextsTyped' /\ Booting' /\ Cleared'
  BY <1>1, <1>3 DEF DInv, TextsTyped, Booting, Cleared
<1>6. CallOfLoop'
  BY <1>1, <1>3 DEF CallOfLoop, LP!CallUpdate, LP!Released, LP!GoOn
<1>7. SessionTimed'
  <2>1. /\ loop = "update" => loop' = "updating"
        /\ loop = "edge" => loop' = "pressing"
        /\ loop \in {"update", "edge"} /\ LP!Slack \in Nat /\ LP!Slack' = MaxLag
    BY <1>1, <1>2, SlackTyped, Numbers
       DEF LP!CallUpdate, LP!Released, LP!At, LP!GoOn, LP!Slack
  <2>2. Asking'
    BY <1>3 DEF Asking
  <2> QED BY <1>2, <1>3, <2>1, <2>2, Numbers DEF DInv, SessionTimed
<1> QED BY <1>3, <1>4, <1>5, <1>6, <1>7 DEF DInv

LEMMA LoopReturnsPreserves ==
  ASSUME DInv, LoopReturns
  PROVE  DInv'
<1>1. /\ boot = "loop" /\ UNCHANGED <<boot, panics>> /\ UNCHANGED presence
      /\ pc["main"] = "out"
      /\ LP!UpdateReturns \/ LP!PressReturns
      /\ seen' \in {NoMessage, seen}
  BY SameLoop DEF LoopReturns
<1>2. LP!IInv /\ UNCHANGED tick
  BY <1>1 DEF DInv, LP!UpdateReturns, LP!PressReturns
<1>3. /\ PP!Core' /\ Cleared' /\ Booting' /\ Asking' = Asking
      /\ UNCHANGED <<pc, call, quiet, presence_state, panel>> /\ quiet \in Nat
  BY <1>1, <1>2, LoopAlone
<1>4. LP!IInv'
  BY <1>1, <1>2, Admitted, LP!UpdateReturnsPreserves, LP!PressReturnsPreserves
<1>5. TextsTyped'
  BY <1>1 DEF DInv, TextsTyped, presence
<1>6. CallOfLoop'
  BY <1>1, <1>3 DEF CallOfLoop, LP!UpdateReturns, LP!PressReturns, LP!GoOn
<1>7. SessionTimed'
  <2>1. LP!Slack \in Nat /\ ~ Asking
    BY <1>1, <1>2, SlackTyped DEF Asking
  <2>2. CASE LP!UpdateReturns
    <3>1. loop = "updating" /\ loop' = "poll" /\ LP!Slack' = MaxLag
      BY <1>2, <2>2, Numbers DEF LP!UpdateReturns, LP!At, LP!GoOn, LP!Slack
    <3> QED BY <1>3, <2>1, <3>1, Numbers DEF DInv, SessionTimed
  <2>3. CASE LP!PressReturns
    <3>1. loop = "pressing" /\ loop' = "update" /\ LP!Slack' = LoopDelay + MaxLag
      BY <1>2, <2>3, Numbers DEF LP!PressReturns, LP!At, LP!GoOn, LP!Slack
    <3> QED BY <1>3, <2>1, <3>1, Numbers DEF DInv, SessionTimed
  <2> QED BY <1>1, <2>2, <2>3
<1> QED BY <1>3, <1>4, <1>5, <1>6, <1>7 DEF DInv

LEMMA LoopLooksPreserves ==
  ASSUME DInv, LoopLooks
  PROVE  DInv'
<1>1. /\ boot = "loop" /\ UNCHANGED <<boot, panics, seen>> /\ UNCHANGED presence
      /\ LP!Poll \/ LP!Confirm \/ LP!Pressed
  BY SameLoop DEF LoopLooks
<1>2. LP!IInv /\ UNCHANGED <<tick, request>>
  BY <1>1 DEF DInv, LP!Poll, LP!Confirm, LP!Pressed
<1>3. /\ PP!Core' /\ Cleared' /\ Booting' /\ Asking' = Asking
      /\ UNCHANGED <<pc, call, quiet, presence_state, panel>> /\ quiet \in Nat
  BY <1>1, <1>2, LoopAlone
<1>4. LP!IInv'
  BY <1>1, <1>2, Admitted, LP!PollPreserves, LP!ConfirmPreserves,
     LP!PressedPreserves
<1>5. TextsTyped'
  BY <1>1 DEF DInv, TextsTyped, presence
<1>6. \/ loop = "poll" /\ loop' = "confirm" /\ LP!Slack' = DebounceDelay + MaxLag
      \/ loop = "confirm" /\ loop' = "edge" /\ LP!Slack' = MaxLag
      \/ /\ loop \in {"poll", "confirm", "edge"} /\ loop' = "update"
         /\ LP!Slack' = LoopDelay + MaxLag
  <2>1. CASE LP!Poll
    BY <2>1, Numbers DEF LP!Poll, LP!At, LP!GoOn, LP!Slack
  <2>2. CASE LP!Confirm
    BY <2>2, Numbers DEF LP!Confirm, LP!At, LP!GoOn, LP!Slack
  <2>3. CASE LP!Pressed
    BY <2>3, Numbers DEF LP!Pressed, LP!At, LP!GoOn, LP!Slack
  <2> QED BY <1>1, <2>1, <2>2, <2>3
<1>7. CallOfLoop'
  BY <1>1, <1>2, <1>3, <1>6 DEF DInv, CallOfLoop
<1>8. SessionTimed'
  <2>1. LP!Slack \in Nat
    BY <1>2, SlackTyped
  <2> QED BY <1>3, <1>6, <2>1, Numbers DEF DInv, SessionTimed
<1> QED BY <1>3, <1>4, <1>5, <1>7, <1>8 DEF DInv

-----------------------------------------------------------------------------
(* The steps of the environment *)

LEMMA PostPreserves ==
  ASSUME DInv, Post
  PROVE  DInv'
<1>1. /\ UNCHANGED <<main, thumb, boot, panics, seen>>
      /\ \E c \in PP!Calls("httpd") : PP!Enter("httpd", c)
  BY SameEnter, SameCalls DEF Post
<1>2. "httpd" \in PP!Tasks /\ "main" \in PP!Tasks
  BY DEF PP!Tasks
<1>3. PP!Core' /\ (PP!Shown({}) => PP!Shown({})')
  BY <1>1, <1>2, Admitted, PP!EnterPreserves DEF DInv
<1>4. pc \in [PP!Tasks -> PP!Stages] /\ DOMAIN call = PP!Tasks
  BY DEF DInv, PP!Core, PP!TypeOK, PP!CallsTyped
<1>5. /\ pc'["main"] = pc["main"] /\ call'["main"] = call["main"]
      /\ UNCHANGED <<tick, quiet, presence_state, oled_buffer, panel>>
  BY <1>1, <1>2, <1>4
     DEF PP!Enter, PP!Goto, PP!memory, PP!display, PP!clock
<1>6. LP!IInv' /\ LP!Slack' = LP!Slack
  BY <1>1, <1>5, LoopKept DEF main, DInv, LP!IInv, LP!TypeOK
<1>7. TextsTyped' /\ Booting' /\ CallOfLoop' /\ Cleared'
  BY <1>1, <1>3, <1>5
     DEF DInv, TextsTyped, Booting, CallOfLoop, Cleared, Clearing, main
<1>8. SessionTimed'
  BY <1>1, <1>5, <1>6 DEF DInv, SessionTimed, Asking, main
<1> QED BY <1>3, <1>6, <1>7, <1>8 DEF DInv

LEMMA ThumbPreserves ==
  ASSUME DInv, Press \/ Release
  PROVE  DInv'
<1>1. /\ boot = "loop" /\ UNCHANGED <<boot, panics>> /\ UNCHANGED presence
      /\ LP!Press \/ LP!Release
      /\ seen' \in {panel.text, seen}
  BY SameLoop DEF Press, Release
<1>2. LP!IInv /\ UNCHANGED <<tick, main, lag>>
  BY <1>1 DEF DInv, LP!Press, LP!Release, LP!task, main
<1>3. /\ PP!Core' /\ Cleared' /\ Booting' /\ Asking' = Asking
      /\ UNCHANGED <<pc, call, quiet, presence_state, panel>> /\ quiet \in Nat
  BY <1>1, <1>2, LoopAlone
<1>4. LP!IInv'
  BY <1>1, <1>2, Admitted, LP!PressPreserves, LP!ReleasePreserves
<1>5. TextsTyped'
  BY <1>1, <1>3 DEF DInv, TextsTyped, presence
<1>6. CallOfLoop' /\ SessionTimed'
  BY <1>1, <1>2, <1>3 DEF DInv, CallOfLoop, SessionTimed, LP!Slack, main
<1> QED BY <1>3, <1>4, <1>5, <1>6 DEF DInv

(* A tick takes one from the slack and adds one to the session. *)
LEMMA DeviceTickPreserves ==
  ASSUME DInv, Tick
  PROVE  DInv'
<1>1. /\ PP!Tick /\ UNCHANGED <<boot, panics, seen>>
      /\ IF boot = "loop" THEN LP!Tick ELSE UNCHANGED <<main, thumb>>
  BY SameTick, SameLoop DEF Tick
<1>2. PP!Core /\ LP!IInv /\ quiet \in Nat
  BY DEF DInv, PP!Core, PP!TypeOK
<1>3. PP!Core' /\ (PP!Shown({}) => PP!Shown({})')
  BY <1>1, <1>2, Admitted, PP!TickPreserves
<1>4. /\ UNCHANGED <<pc, call, presence_state, oled_buffer, panel>>
      /\ quiet' = IF presence_state.state = PP!READING THEN quiet + 1 ELSE quiet
  BY <1>1 DEF PP!Tick, PP!memory, PP!display
<1>5. UNCHANGED <<loop, request, was_pressed>>
  BY <1>1 DEF LP!Tick, main
<1>6. LP!IInv'
  <2>1. CASE boot = "loop"
    BY <1>1, <1>2, <2>1, Admitted, LP!TickPreserves
  <2>2. CASE boot # "loop"
    <3>1. tick' \in 0 .. 2 * HalfRange - 1
      BY <1>3 DEF PP!Core, PP!TypeOK
    <3> QED BY <1>1, <1>2, <2>2, <3>1, BootTick DEF DInv, Booting
  <2> QED BY <2>1, <2>2
<1>7. TextsTyped' /\ CallOfLoop' /\ Cleared'
  BY <1>1, <1>3, <1>4, <1>5
     DEF DInv, TextsTyped, CallOfLoop, Cleared, Clearing
<1>8. Booting'
  BY <1>1, <1>4, <1>5 DEF DInv, Booting, Clearing, main
<1>9. SessionTimed'
  <2>1. CASE presence_state.state = PP!READING
    <3>1. boot = "loop"
      BY <2>1 DEF DInv, Booting
    <3>2. LP!Slack \in Nat /\ LP!Slack' = LP!Slack - 1
      BY <1>1, <1>2, <3>1, SlackTyped, Numbers
         DEF LP!Tick, LP!Slack, LP!IInv, LP!TypeOK, LP!Delays
    <3> QED BY <1>2, <1>4, <1>5, <2>1, <3>2 DEF DInv, SessionTimed, Asking
  <2>2. CASE presence_state.state # PP!READING
    BY <1>4, <2>2 DEF DInv, SessionTimed
  <2> QED BY <2>1, <2>2
<1> QED BY <1>3, <1>6, <1>7, <1>8, <1>9 DEF DInv

(* A reboot clears the memory; the panel keeps what it shows.              *)
LEMMA PanicPreserves ==
  ASSUME DInv, Panic
  PROVE  DInv'
<1>1. /\ PresenceReset /\ LoopReset /\ boot' = "oled_init"
      /\ panics < MaxPanics /\ panics' = panics + 1
      /\ panel' \in {panel, PP!NoiseScreen} /\ seen' = NoMessage
  BY SameScreens DEF Panic
<1>2. /\ presence_mutex' = PP!Free
      /\ presence_state' = PP!presence_state_init
      /\ presence_deadline' = 0 /\ presence_current_page' = 0
      /\ presence_page_count' = 1 /\ presence_line_count' = 0
      /\ presence_text' = NoMessage
      /\ oled_buffer' = PP!Blank
      /\ pc' = [t \in PP!Tasks |-> "out"]
      /\ call' = [t \in PP!Tasks |-> [op |-> "none", message |-> NoMessage]]
      /\ quiet' = 0
  BY <1>1, SameTasks, SameModel, SameScreens DEF PresenceReset
<1>3. /\ tick' = 0 /\ loop' = "update" /\ delay' = 0 /\ request' = "none"
      /\ was_pressed' = FALSE /\ press_started' = 0
      /\ since' = 0 /\ lag' = 0 /\ hold' = 0 /\ owed' = 0
      /\ level' = level
  BY <1>1 DEF LoopReset
<1>4. PP!Core'
  <2> USE PP!Constants, Admitted
  <2>1. PP!TypeOK'
    BY <1>2, <1>3
       DEF PP!TypeOK, PP!PresenceStateModel, PP!presence_state_init, PP!IDLE,
           PP!UNREAD, PP!READING, PP!Tasks, PP!Stages, PP!PRESENCE_MAX_BODY_LINES,
           PP!PollBound
  <2>2. PP!CallsTyped' /\ PP!MutexHeld'
    BY <1>2 DEF PP!CallsTyped, PP!MutexHeld, PP!Inside, PP!Free, PP!Tasks
  <2>3. PP!Coherent' /\ PP!DeadlineKept'
    BY <1>2 DEF PP!Coherent, PP!DeadlineKept, PP!presence_state_init, PP!IDLE,
                PP!READING
  <2>4. PP!Staged'
    BY <1>2 DEF PP!Staged
  <2> QED BY <2>1, <2>2, <2>3, <2>4 DEF PP!Core
<1>5. LP!IInv'
  <2>1. level \in BOOLEAN
    BY DEF DInv, LP!IInv, LP!TypeOK
  <2> USE <2>1, LP!Constants, Admitted
  <2>2. LP!TypeOK'
    <3>1. loop' \in LP!Points /\ request' \in LP!Requests
      BY <1>3 DEF LP!Points, LP!Requests
    <3>2. was_pressed' \in BOOLEAN /\ level' \in BOOLEAN
      BY <1>3
    <3> QED BY <1>3, <3>1, <3>2 DEF LP!TypeOK
  <2>3. LP!Delays' /\ LP!Glitches' /\ LP!Calling' /\ LP!Alternating' /\ LP!Measured'
    BY <1>3 DEF LP!Delays, LP!Glitches, LP!Calling, LP!Alternating, LP!Measured
  <2>4. LP!Timely'
    BY <1>3 DEF LP!Timely, LP!Slack
  <2> QED BY <2>2, <2>3, <2>4 DEF LP!IInv
<1>6. TextsTyped'
  <2>1. panics' \in 0 .. MaxPanics
    BY <1>1, DeviceAssumption DEF DInv, TextsTyped
  <2>2. oled_buffer'.text = NoMessage /\ panel'.text \in {panel.text, Noise}
    BY <1>1, <1>2 DEF PP!Blank, PP!NoiseScreen, PP!Screen
  <2> QED BY <1>1, <2>1, <2>2 DEF DInv, TextsTyped
<1>7. Booting'
  <2>1. "oled_init" \in {BootSteps[i] : i \in DOMAIN BootSteps}
    BY DEF BootSteps
  <2> QED BY <1>1, <1>2, <1>3, <2>1
          DEF Booting, PP!Tasks, PP!presence_state_init, PP!IDLE, PP!READING
<1>8. CallOfLoop' /\ Cleared'
  BY <1>1, <1>2, <1>3 DEF CallOfLoop, Cleared, Clearing, PP!Tasks
<1>9. SessionTimed'
  BY <1>2 DEF SessionTimed, PP!presence_state_init, PP!IDLE, PP!READING
<1> QED BY <1>4, <1>5, <1>6, <1>7, <1>8, <1>9 DEF DInv

LEMMA DeviceStutterPreserves ==
  ASSUME DInv, UNCHANGED vars
  PROVE  DInv'
<1>1. UNCHANGED presence /\ UNCHANGED <<main, thumb, tick, boot, panics, seen>>
  BY DEF vars
<1>2. PP!Core' /\ (PP!Shown({}) => PP!Shown({})')
  BY <1>1, PresenceKept DEF DInv
<1>3. LP!IInv' /\ LP!Slack' = LP!Slack
  BY <1>1, LoopKept DEF main, DInv, LP!IInv, LP!TypeOK
<1> QED BY <1>1, <1>2, <1>3
        DEF DInv, TextsTyped, Booting, CallOfLoop, Cleared, Clearing,
            SessionTimed, Asking, presence, main

-----------------------------------------------------------------------------
(* The theorems *)

LEMMA DeviceInitEstablishes == Init => DInv
<1> SUFFICES ASSUME Init PROVE DInv
  OBVIOUS
<1>1. PP!Init /\ LP!Init
  BY SameInit DEF Init
<1>2. PP!Core
  BY <1>1, Admitted, PP!InitEstablishes DEF PP!IInv
<1>3. LP!IInv
  BY <1>1, Admitted, LP!InitEstablishes
<1>4. TextsTyped
  BY <1>1, DeviceAssumption DEF Init, PP!Init, TextsTyped, PP!Blank, PP!NoiseScreen, PP!Screen
<1>5. Booting
  <2>1. "oled_init" \in {BootSteps[i] : i \in DOMAIN BootSteps}
    BY DEF BootSteps
  <2> QED BY <1>1, <2>1
          DEF Init, PP!Init, LP!Init, Booting, PP!Tasks, PP!presence_state_init,
              PP!IDLE, PP!READING
<1>6. CallOfLoop /\ Cleared
  BY <1>1 DEF Init, PP!Init, LP!Init, CallOfLoop, Cleared, Clearing, PP!Tasks
<1>7. SessionTimed
  BY <1>1 DEF PP!Init, SessionTimed, PP!presence_state_init, PP!IDLE, PP!READING
<1> QED BY <1>2, <1>3, <1>4, <1>5, <1>6, <1>7 DEF DInv

LEMMA DeviceNextPreserves == DInv /\ [Next]_vars => DInv'
BY BootStepPreserves, BootClearPreserves, BootClearReturnsPreserves,
   LoopCallsPreserves, LoopReturnsPreserves, LoopLooksPreserves,
   CallStepPreserves, PostPreserves, ThumbPreserves, DeviceTickPreserves,
   PanicPreserves, DeviceStutterPreserves
   DEF Next, Up, LoopStep

(* Every state of the device satisfies the invariants of its parts and     *)
(* what relates them, whatever is posted, pressed or lost to a reboot      *)
(* (agent-presence-device.c:21-67 with presence.c).                        *)
THEOREM DeviceInvariance == Spec => []DInv
BY DeviceInitEstablishes, DeviceNextPreserves, PTL DEF Spec

(* The variables of both parts keep their types, and the request of the    *)
(* loop is the call the main task is in: agent-presence-device.c:38-64.    *)
THEOREM DeviceTypes == Spec => []TypeOK
<1>1. DInv => TypeOK
  <2> SUFFICES ASSUME DInv PROVE TypeOK
    OBVIOUS
  <2>1. PP!TypeOK => P!TypeOK
    BY SameTasks, SamePages
       DEF P!TypeOK, PP!TypeOK, P!PresenceStateModel, PP!PresenceStateModel,
           P!IDLE, PP!IDLE, P!UNREAD, PP!UNREAD, P!READING, PP!READING,
           P!PRESENCE_MAX_BODY_LINES, PP!PRESENCE_MAX_BODY_LINES, P!PollBound,
           PP!PollBound, P!Stages, PP!Stages
  <2>2. LP!TypeOK => L!TypeOK
    BY DEF L!TypeOK, LP!TypeOK, L!Points, LP!Points, L!Requests, LP!Requests
  <2> QED BY <2>1, <2>2
          DEF DInv, PP!Core, LP!IInv, Booting, CallOfLoop, TextsTyped, TypeOK
<1> QED BY <1>1, DeviceInvariance, PTL

(* Once the loop runs and no call is at work, the panel shows the state    *)
(* and nothing that was there before the boot: the clearing call of        *)
(* agent-presence-device.c:35-36 and every later one are flushed whole.    *)
THEOREM BootLeavesNothing == Spec => []BootedPanel
<1>1. DInv => BootedPanel
  BY SameTasks, SameScreens
     DEF DInv, Cleared, PP!Shown, PP!Settled, BootedPanel
<1> QED BY <1>1, DeviceInvariance, PTL

(* A session left alone is over within the timeout, one debounce, one      *)
(* sleep and six waits of the main task, for every length of these         *)
(* (agent-presence-device.c:38-64 with presence.c:157-167).                *)
THEOREM SessionsEnd == Spec => []SessionEndsInTime
<1>1. DInv => SessionEndsInTime
  <2> SUFFICES ASSUME DInv PROVE SessionEndsInTime
    OBVIOUS
  <2>1. LP!Slack \in Nat /\ loop \in LP!Points /\ quiet \in Nat
    BY SlackTyped DEF DInv, LP!IInv, LP!TypeOK, PP!Core, PP!TypeOK
  <2>2. CASE presence_state.state = PP!READING
    BY <2>1, <2>2, Numbers DEF DInv, SessionTimed, SessionEndsInTime, LP!Points
  <2>3. CASE presence_state.state # PP!READING
    BY <2>3, Numbers DEF DInv, SessionTimed, SessionEndsInTime
  <2> QED BY <2>2, <2>3
<1> QED BY <1>1, DeviceInvariance, PTL
=============================================================================
