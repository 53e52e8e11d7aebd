------------------------------ MODULE Presence ------------------------------
(***************************************************************************)
(* The notification on the device, presence.c, used by two FreeRTOS tasks. *)
(* The main task calls presence_update, presence_next_page and             *)
(* presence_acknowledge; the HTTP server task calls presence_show_message. *)
(* Every call takes presence_mutex, changes the static variables of        *)
(* presence.c, redraws or clears the framebuffer, flushes it to the panel  *)
(* and gives the mutex back.  The stages of a call are separate steps, so  *)
(* that the tasks and the tick interrupt interleave between them; what the *)
(* stages do to the shared variables is the code's, stage by stage.        *)
(*                                                                         *)
(* Init is the state presence_init leaves behind: presence_mutex exists,   *)
(* so the NULL guards of the four calls pass.  Definitions named _Mut...   *)
(* are slips of the definition they precede; no specification uses them.   *)
(***************************************************************************)
EXTENDS Integers, PresenceState

CONSTANTS
  Messages,        \* the notifications a client may post
  NoMessage,       \* what the text buffers hold before the first of them
  Noise,           \* what an SH1106 whose RAM was never written shows
  LineCount,       \* LineCount[m]: lines presence_layout_body makes of m
  HalfRange,       \* half the range of TickType_t: 2^31 on the device
  ReadingTimeout   \* READING_TIMEOUT_MS in ticks: 1000 on the device

PRESENCE_BODY_LINES_PER_PAGE == 3
PRESENCE_MAX_BODY_LINES == 512

(* The lines of n, page by page, rounding up *)
PagesOf_MutRoundDown(n) == n \div PRESENCE_BODY_LINES_PER_PAGE

PagesOf(n) ==
  (n + PRESENCE_BODY_LINES_PER_PAGE - 1) \div PRESENCE_BODY_LINES_PER_PAGE

PRESENCE_MAX_PAGE_COUNT == PagesOf(PRESENCE_MAX_BODY_LINES)

ASSUME PresenceAssumption ==
  /\ NoMessage \notin Messages
  /\ Noise \notin Messages \cup {NoMessage}
  /\ LineCount \in [Messages -> 1 .. PRESENCE_MAX_BODY_LINES]
  /\ HalfRange \in Nat
  /\ ReadingTimeout \in 1 .. HalfRange

VARIABLES
  presence_mutex,         \* the task that holds the mutex, or Free
  presence_state,         \* the PresenceStateModel
  presence_deadline,      \* tick at which reading times out
  presence_current_page,  \* copy of the model's page, used for drawing
  presence_page_count,    \* copy of the model's page count, likewise
  presence_line_count,    \* lines the layout made of the body
  presence_text,          \* message whose source, title and body are held
  oled_buffer,            \* the framebuffer of oled.c
  panel,                  \* what the SH1106 shows
  tick,                   \* xTaskGetTickCount()
  pc,                     \* stage of the presence call each task is in
  call,                   \* that call, and its argument
  quiet                   \* history: ticks since the last accepted press

memory == <<presence_state, presence_deadline, presence_current_page,
            presence_page_count, presence_line_count, presence_text>>
display == <<oled_buffer, panel>>
clock == <<tick, quiet>>
vars == <<presence_mutex, memory, display, clock, pc, call>>

Tasks == {"main", "httpd"}
Free == "free"

(* The calls each task makes, and the stages a call goes through *)
Calls(t) ==
  IF t = "main"
    THEN [op : {"update", "next_page", "acknowledge"}, message : {NoMessage}]
    ELSE [op : {"show_message"}, message : Messages]
Stages == {"out", "take", "body", "draw", "clear", "flush", "give"}

(* TickType_t arithmetic is modulo 2^32. *)
TickAdd(a, b) == (a + b) % (2 * HalfRange)
TickSub(a, b) == (a - b) % (2 * HalfRange)

(* What a screen shows: whose text, which page of how many, which lines *)
Screen(m, page, of, lines) ==
  [text |-> m, page |-> page, of |-> of, lines |-> lines]
Blank == Screen(NoMessage, 0, 1, {})
NoiseScreen == Screen(Noise, 0, 1, {})

LinesOfPage(page, line_count) ==
  LET first_line == page * PRESENCE_BODY_LINES_PER_PAGE
  IN  {i \in first_line .. first_line + PRESENCE_BODY_LINES_PER_PAGE - 1 :
         i < line_count}

-----------------------------------------------------------------------------
(* Between the stages of a call *)

At(t, op, stage) == pc[t] = stage /\ call[t].op = op
Goto(t, stage) == pc' = [pc EXCEPT ![t] = stage]

(* A task enters one of its calls. *)
Enter(t, c) ==
  /\ pc[t] = "out"
  /\ c \in Calls(t)
  /\ call' = [call EXCEPT ![t] = c]
  /\ Goto(t, "take")
  /\ UNCHANGED <<presence_mutex, memory, display, clock>>

(* A wait of 0 ticks, its result ignored *)
TakeMutex_MutNoWait(t) ==
  /\ pc[t] = "take"
  /\ presence_mutex' = IF presence_mutex = Free THEN t ELSE presence_mutex
  /\ Goto(t, "body")
  /\ UNCHANGED <<memory, display, clock, call>>

(* xSemaphoreTake(presence_mutex, portMAX_DELAY) *)
TakeMutex(t) ==
  /\ pc[t] = "take"
  /\ presence_mutex = Free
  /\ presence_mutex' = t
  /\ Goto(t, "body")
  /\ UNCHANGED <<memory, display, clock, call>>

(* xSemaphoreGive(presence_mutex), and the call returns *)
GiveMutex(t) ==
  /\ pc[t] = "give"
  /\ presence_mutex' = Free
  /\ Goto(t, "out")
  /\ UNCHANGED <<memory, display, clock, call>>

(***************************************************************************)
(* presence_draw_locked: clear the framebuffer, draw source, title, the    *)
(* lines of the page and the page indicator, then flush.  oled_flush is    *)
(* the next stage.                                                         *)
(***************************************************************************)
Draw(t) ==
  /\ pc[t] = "draw"
  /\ oled_buffer' = Screen(presence_text, presence_current_page,
                           presence_page_count,
                           LinesOfPage(presence_current_page,
                                       presence_line_count))
  /\ Goto(t, "flush")
  /\ UNCHANGED <<presence_mutex, memory, panel, clock, call>>

(* presence_clear_locked, likewise *)
Clear(t) ==
  /\ pc[t] = "clear"
  /\ oled_buffer' = Blank
  /\ Goto(t, "flush")
  /\ UNCHANGED <<presence_mutex, memory, panel, clock, call>>

(* The message is drawn and sent again, for ever. *)
Flush_MutRetry(t) ==
  /\ pc[t] = "flush"
  /\ panel' = oled_buffer
  /\ Goto(t, IF call[t].op = "show_message" THEN "draw" ELSE "give")
  /\ UNCHANGED <<presence_mutex, memory, oled_buffer, clock, call>>

Flush(t) ==
  /\ pc[t] = "flush"
  /\ panel' = oled_buffer
  /\ Goto(t, "give")
  /\ UNCHANGED <<presence_mutex, memory, oled_buffer, clock, call>>

-----------------------------------------------------------------------------
(* The bodies of the four calls, run with the mutex held *)

(* The page count presence_show_message hands to the state model *)
BoundedPageCount(line_count) ==
  LET pages == PagesOf(line_count)
  IN  IF pages = 0 \/ pages > PRESENCE_MAX_PAGE_COUNT THEN 1 ELSE pages

ShowMessage(t) ==
  /\ At(t, "show_message", "body")
  /\ LET message == call[t].message
         line_count == LineCount[message]
         model == presence_state_message(presence_state,
                                         BoundedPageCount(line_count))
     IN  /\ presence_text' = message
         /\ presence_line_count' = line_count
         /\ presence_state' = model
         /\ presence_current_page' = model.current_page
         /\ presence_page_count' = model.page_count
  /\ presence_deadline' = 0
  /\ quiet' = 0
  /\ Goto(t, "draw")
  /\ UNCHANGED <<presence_mutex, display, tick, call>>

(* presence_next_page: a press on an idle device changes nothing. *)
NextPageWhenIdle_MutNoGive(t) ==
  /\ At(t, "next_page", "body")
  /\ presence_state.state = IDLE
  /\ Goto(t, "out")
  /\ UNCHANGED <<presence_mutex, memory, display, clock, call>>

NextPageWhenIdle(t) ==
  /\ At(t, "next_page", "body")
  /\ presence_state.state = IDLE
  /\ Goto(t, "give")
  /\ UNCHANGED <<presence_mutex, memory, display, clock, call>>

NextPage(t) ==
  /\ At(t, "next_page", "body")
  /\ presence_state.state # IDLE
  /\ presence_state' = presence_state_short_press(presence_state)
  /\ presence_current_page' = presence_state'.current_page
  /\ presence_deadline' = TickAdd(tick, ReadingTimeout)
  /\ quiet' = 0
  /\ Goto(t, "draw")
  /\ UNCHANGED <<presence_mutex, presence_page_count, presence_line_count,
                 presence_text, display, tick, call>>

Acknowledge(t) ==
  /\ At(t, "acknowledge", "body")
  /\ presence_state' = presence_state_long_press(presence_state)
  /\ presence_deadline' = 0
  /\ quiet' = 0
  /\ Goto(t, "clear")
  /\ UNCHANGED <<presence_mutex, presence_current_page, presence_page_count,
                 presence_line_count, presence_text, display, tick, call>>

(* (int32_t) (xTaskGetTickCount() - presence_deadline) >= 0 *)
DeadlinePassed_MutUnsigned == tick >= presence_deadline

DeadlinePassed == TickSub(tick, presence_deadline) < HalfRange

(* presence_update, the two outcomes of its test *)
TimeOut(t) ==
  /\ At(t, "update", "body")
  /\ presence_state_is_reading(presence_state)
  /\ DeadlinePassed
  /\ presence_state' = presence_state_timeout(presence_state)
  /\ quiet' = 0
  /\ Goto(t, "clear")
  /\ UNCHANGED <<presence_mutex, presence_deadline, presence_current_page,
                 presence_page_count, presence_line_count, presence_text,
                 display, tick, call>>

NoTimeOut(t) ==
  /\ At(t, "update", "body")
  /\ ~ (presence_state_is_reading(presence_state) /\ DeadlinePassed)
  /\ Goto(t, "give")
  /\ UNCHANGED <<presence_mutex, memory, display, clock, call>>

-----------------------------------------------------------------------------
(***************************************************************************)
(* The tick interrupt.  PollBound is the one bound on time: the main task  *)
(* gets to its timeout test before the 32-bit difference of the test       *)
(* changes sign, that is within 2^31 ticks (248 days) of the deadline.     *)
(***************************************************************************)
PollBound == ReadingTimeout + HalfRange - 1

Tick ==
  /\ presence_state.state = READING => quiet < PollBound
  /\ tick' = TickAdd(tick, 1)
  /\ quiet' = IF presence_state.state = READING THEN quiet + 1 ELSE quiet
  /\ UNCHANGED <<presence_mutex, memory, display, pc, call>>

Init ==
  /\ presence_mutex = Free
  /\ presence_state = presence_state_init
  /\ presence_deadline = 0
  /\ presence_current_page = 0
  /\ presence_page_count = 1
  /\ presence_line_count = 0
  /\ presence_text = NoMessage
  /\ oled_buffer = Blank
  /\ panel \in {Blank, NoiseScreen}
  /\ tick = 0
  /\ pc = [t \in Tasks |-> "out"]
  /\ call \in [Tasks -> {[op |-> "none", message |-> NoMessage]}]
  /\ quiet = 0

Body(t) ==
  \/ ShowMessage(t)
  \/ NextPageWhenIdle(t)
  \/ NextPage(t)
  \/ Acknowledge(t)
  \/ TimeOut(t)
  \/ NoTimeOut(t)

(* The rest of a call, once the mutex is held *)
Locked(t) == Body(t) \/ Draw(t) \/ Clear(t) \/ Flush(t) \/ GiveMutex(t)

Next ==
  \/ \E t \in Tasks : \E c \in Calls(t) : Enter(t, c)
  \/ \E t \in Tasks : TakeMutex(t) \/ Locked(t)
  \/ Tick

Spec == Init /\ [][Next]_vars

(***************************************************************************)
(* Fairness.  A task that holds the mutex runs on: its stages neither wait *)
(* nor block.  A waiting task gets the mutex if it is free again and again *)
(* (SF): FreeRTOS wakes the waiting task with the highest priority, and    *)
(* the server task blocks on its sockets between two requests, whatever    *)
(* its priority.  Nobody is obliged to call, and ticks need no fairness.   *)
(***************************************************************************)
Fairness ==
  \A t \in Tasks : WF_vars(Locked(t)) /\ SF_vars(TakeMutex(t))

FairSpec == Spec /\ Fairness

-----------------------------------------------------------------------------
(* Properties *)

(* Every variable keeps its C type and its range, and the page drawn is one *)
(* of the pages there are: presence.c:18-27.                                *)
TypeOK ==
  /\ presence_mutex \in Tasks \cup {Free}
  /\ presence_state \in PresenceStateModel(PRESENCE_MAX_PAGE_COUNT)
  /\ presence_deadline \in 0 .. 2 * HalfRange - 1
  /\ presence_current_page \in 0 .. PRESENCE_MAX_PAGE_COUNT - 1
  /\ presence_page_count \in 1 .. PRESENCE_MAX_PAGE_COUNT
  /\ presence_current_page < presence_page_count
  /\ presence_line_count \in 0 .. PRESENCE_MAX_BODY_LINES
  /\ presence_text \in Messages \cup {NoMessage}
  /\ tick \in 0 .. 2 * HalfRange - 1
  /\ quiet \in 0 .. PollBound
  /\ pc \in [Tasks -> Stages]

(* What the panel ought to show for the state of the notification *)
ExpectedScreen ==
  IF presence_state.state = IDLE
    THEN Blank
    ELSE Screen(presence_text, presence_state.current_page,
                presence_state.page_count,
                LinesOfPage(presence_state.current_page,
                            LineCount[presence_text]))

(***************************************************************************)
(* Whenever no call is in progress inside the mutex, the panel shows just  *)
(* the state: nothing when idle, else the current page of the message that *)
(* is held.  It relates the two copies of the page, the framebuffer and    *)
(* the panel across both tasks (presence.c:58-85 under the mutex), and     *)
(* fails if a call redraws what another one is changing.                   *)
(***************************************************************************)
PanelMatchesState ==
  presence_mutex = Free /\ panel # NoiseScreen => panel = ExpectedScreen

(***************************************************************************)
(* A screen with a message on it has at least one line of its body, page   *)
(* number and count agree, and the pages 0 .. of - 1 together hold every   *)
(* line: presence.c:112-119 with presence.c:62,67-76.                      *)
(***************************************************************************)
NoLineOutOfReach ==
  panel.text \in Messages =>
    /\ panel.page < panel.of
    /\ panel.lines # {}
    /\ UNION {LinesOfPage(p, LineCount[panel.text]) : p \in 0 .. panel.of - 1}
         = 0 .. LineCount[panel.text] - 1

(***************************************************************************)
(* An update ends a reading session exactly when the ten-second timeout    *)
(* has run since the last accepted press: never early, not even when the   *)
(* tick counter wraps between setting and testing the deadline, and never  *)
(* one update too late (presence.c:161-165, README.md:66).                 *)
(***************************************************************************)
TimeoutExact ==
  [][\A t \in Tasks :
       At(t, "update", "body") /\ pc'[t] # "body" =>
         (pc'[t] = "clear") =
           (presence_state.state = READING /\ quiet >= ReadingTimeout)]_vars

(***************************************************************************)
(* Every call comes back: no path through the four functions keeps the     *)
(* mutex, and no task waits for it for ever (presence.c:106-166).          *)
(***************************************************************************)
CallsReturn == \A t \in Tasks : pc[t] # "out" ~> pc[t] = "out"

(* The screen as the person sees it, noise being nothing *)
Promise == INSTANCE Notification WITH
  Texts <- Messages,
  PageCount <- [m \in Messages |-> PagesOf(LineCount[m])],
  Off <- NoMessage,
  shown <- IF panel.text \in Messages THEN panel.text ELSE NoMessage,
  page <- panel.page

(* The panel keeps the promise of module Notification: a notification      *)
(* appears on its first page, turns one page at a time, never wraps, and   *)
(* never turns into a page of another one (presence.c:85-167).             *)
KeepsPromise == Promise!Spec
=============================================================================
