------------------------------- MODULE Device -------------------------------
(***************************************************************************)
(* The device: app_main brings the parts up one after the other, then      *)
(* loops (module MainLoop), while the HTTP server task shows what clients  *)
(* post (module Presence).  A call of the loop is a call of the main task: *)
(* the loop waits until it returns.  A failed ESP_ERROR_CHECK in any task  *)
(* reboots the chip: everything in RAM is lost, the panel keeps its own.   *)
(***************************************************************************)
EXTENDS Integers

CONSTANTS
  Messages, NoMessage, Noise, LineCount, ReadingTimeout,   \* of Presence
  LongPress, DebounceDelay, LoopDelay, BounceTime,         \* of MainLoop
  MinDwell, MaxHold, MaxLag,
  HalfRange,                                               \* of both
  MaxPanics       \* reboots a behaviour may have

VARIABLES
  presence_mutex, presence_state, presence_deadline, presence_current_page,
  presence_page_count, presence_line_count, presence_text,
  oled_buffer, panel, pc, call, quiet,
  loop, delay, request, was_pressed, press_started,
  level, since, lag, hold, owed,
  tick,
  boot,           \* the call of app_main that is next, or "loop"
  panics,         \* reboots so far
  seen            \* history: what the panel showed when the thumb came
                  \* down, until the press has been acted upon

P == INSTANCE Presence
L == INSTANCE MainLoop

ASSUME DeviceAssumption ==
  /\ P!PresenceAssumption /\ L!MainLoopAssumption /\ L!ThumbAssumption
  /\ MaxPanics \in Nat

presence == <<presence_mutex, presence_state, presence_deadline,
              presence_current_page, presence_page_count, presence_line_count,
              presence_text, oled_buffer, panel, pc, call, quiet>>
main == <<loop, delay, request, was_pressed, press_started>>
thumb == <<level, since, lag, hold, owed>>
vars == <<presence, main, thumb, tick, boot, panics, seen>>

-----------------------------------------------------------------------------
(* Bringing the device up *)

BootSteps == <<"oled_init", "presence_init", "button_init", "wifi_connect",
               "http_server_start", "presence_acknowledge", "loop">>
Position(step) == CHOOSE i \in DOMAIN BootSteps : BootSteps[i] = step
Past(step) == Position(boot) > Position(step)

(* The clearing call is running.  It has no argument. *)
MainCall(op) == P!Enter("main", [op |-> op, message |-> NoMessage])
Clearing == boot = "presence_acknowledge" /\ request = "acknowledge"

(* The loop is reached without the clearing call. *)
BootStep_MutNoClear ==
  /\ boot # "loop"
  /\ boot' = IF boot = "http_server_start"
               THEN "loop" ELSE BootSteps[Position(boot) + 1]
  /\ UNCHANGED <<presence, main, thumb, tick, panics, seen>>

(* The five initialisations return ESP_OK. *)
BootStep ==
  /\ boot \notin {"presence_acknowledge", "loop"}
  /\ boot' = BootSteps[Position(boot) + 1]
  /\ UNCHANGED <<presence, main, thumb, tick, panics, seen>>

(* presence_acknowledge(): start with every pixel off *)
BootClear ==
  /\ boot = "presence_acknowledge"
  /\ ~ Clearing
  /\ MainCall("acknowledge")
  /\ request' = "acknowledge"
  /\ UNCHANGED <<loop, delay, was_pressed, press_started, thumb, boot, panics,
                 seen>>

BootClearReturns ==
  /\ Clearing
  /\ pc["main"] = "out"
  /\ request' = "none"
  /\ boot' = "loop"
  /\ UNCHANGED <<presence, loop, delay, was_pressed, press_started, thumb,
                 tick, panics, seen>>

Up == BootStep \/ BootClear \/ BootClearReturns

-----------------------------------------------------------------------------
(* The loop and its calls *)

LoopCalls ==
  /\ boot = "loop"
  /\ L!CallUpdate \/ L!Released
  /\ MainCall(request')
  /\ UNCHANGED <<boot, panics, seen>>

(* The loop does not wait for the call. *)
LoopReturns_MutNoWait ==
  /\ boot = "loop"
  /\ L!UpdateReturns \/ L!PressReturns
  /\ UNCHANGED <<presence, boot, panics, seen>>

LoopReturns ==
  /\ boot = "loop"
  /\ pc["main"] = "out"
  /\ L!UpdateReturns \/ L!PressReturns
  /\ seen' = IF loop = "pressing" THEN NoMessage ELSE seen
  /\ UNCHANGED <<presence, boot, panics>>

LoopLooks ==
  /\ boot = "loop"
  /\ L!Poll \/ L!Confirm \/ L!Pressed
  /\ UNCHANGED <<presence, boot, panics, seen>>

LoopStep == LoopCalls \/ LoopReturns \/ LoopLooks

(* A step of a presence call *)
CallStep(t) ==
  /\ P!TakeMutex(t) \/ P!Locked(t)
  /\ UNCHANGED <<main, thumb, boot, panics, seen>>

(* The server, once started, hands a message on. *)
Post ==
  /\ Past("http_server_start")
  /\ \E c \in P!Calls("httpd") : P!Enter("httpd", c)
  /\ UNCHANGED <<main, thumb, boot, panics, seen>>

-----------------------------------------------------------------------------
(* The environment *)

Press ==
  /\ boot = "loop"
  /\ L!Press
  /\ seen' = panel.text
  /\ UNCHANGED <<presence, boot, panics>>

Release ==
  /\ boot = "loop"
  /\ L!Release
  /\ UNCHANGED <<presence, boot, panics, seen>>

(* Time: the loop's delay and patience count only once it runs. *)
Tick ==
  /\ P!Tick
  /\ IF boot = "loop" THEN L!Tick ELSE UNCHANGED <<main, thumb>>
  /\ UNCHANGED <<boot, panics, seen>>

PresenceReset ==
  /\ presence_mutex' = P!Free
  /\ presence_state' = P!presence_state_init
  /\ presence_deadline' = 0
  /\ presence_current_page' = 0
  /\ presence_page_count' = 1
  /\ presence_line_count' = 0
  /\ presence_text' = NoMessage
  /\ oled_buffer' = P!Blank
  /\ pc' = [t \in P!Tasks |-> "out"]
  /\ call' = [t \in P!Tasks |-> [op |-> "none", message |-> NoMessage]]
  /\ quiet' = 0

LoopReset ==
  /\ tick' = 0
  /\ loop' = "update"
  /\ delay' = 0
  /\ request' = "none"
  /\ was_pressed' = FALSE
  /\ press_started' = 0
  /\ since' = 0
  /\ lag' = 0
  /\ hold' = 0
  /\ owed' = 0
  /\ UNCHANGED level

(***************************************************************************)
(* ESP_ERROR_CHECK aborts and the chip reboots.  The panel keeps its RAM,  *)
(* a flush cut short leaves a torn picture.                                *)
(***************************************************************************)
Panic ==
  /\ panics < MaxPanics
  /\ panics' = panics + 1
  /\ boot' = "oled_init"
  /\ PresenceReset
  /\ LoopReset
  /\ panel' \in IF \E t \in P!Tasks : pc[t] = "flush"
                   THEN {panel, P!NoiseScreen} ELSE {panel}
  /\ seen' = NoMessage

Init ==
  /\ P!Init
  /\ L!Init
  /\ boot = "oled_init"
  /\ panics = 0
  /\ seen = NoMessage

Next ==
  \/ Up
  \/ LoopStep
  \/ \E t \in P!Tasks : CallStep(t)
  \/ Post
  \/ Press \/ Release
  \/ Tick
  \/ Panic

Spec == Init /\ [][Next]_vars

(***************************************************************************)
(* Fairness: that of Presence for the calls and that of MainLoop for the   *)
(* loop, the ticks and the thumb; the initialisations return (wifi_connect *)
(* does not wait for a connection).  Nobody is obliged to post or to       *)
(* press, and no panic is owed.                                            *)
(***************************************************************************)
Fairness ==
  /\ WF_vars(Up) /\ WF_vars(LoopStep) /\ WF_vars(Tick) /\ WF_vars(Release)
  /\ \A t \in P!Tasks :
       /\ WF_vars(P!Locked(t) /\ CallStep(t))
       /\ SF_vars(P!TakeMutex(t) /\ CallStep(t))

FairSpec == Spec /\ Fairness

-----------------------------------------------------------------------------
(* Properties *)

(* The variables of both parts keep their types, app_main is at one of its *)
(* calls, and each request is a call in progress: the loop waits for it.   *)
TypeOK ==
  /\ P!TypeOK
  /\ L!TypeOK
  /\ boot \in {BootSteps[i] : i \in DOMAIN BootSteps}
  /\ pc["main"] # "out" => call["main"].op = request
  /\ panics \in 0 .. MaxPanics
  /\ seen \in Messages \cup {NoMessage, Noise}

(***************************************************************************)
(* Most ticks that pass between an accepted press and the return to idle:  *)
(* the timeout, the debounce and the sleep in which it may expire, and     *)
(* the six places where the loop may have to wait: twice for the mutex or  *)
(* the panel (the test that comes a tick too early, and the one that       *)
(* succeeds), and four times for its turn.  One tick less is refuted.      *)
(***************************************************************************)
SessionBound ==
  ReadingTimeout - 1 + DebounceDelay + LoopDelay + 6 * MaxLag

(***************************************************************************)
(* A reading session that is left alone is over in time, whatever clients  *)
(* post and however the loop is kept waiting; so the difference that       *)
(* presence_update tests (presence.c:161-162) never comes near its change  *)
(* of sign, which module Presence assumes: README.md:66.                   *)
(***************************************************************************)
SessionEndsInTime == quiet <= SessionBound

(***************************************************************************)
(* Once the loop runs, the panel shows the state whenever no call is at    *)
(* work: nothing of the boot is left, neither the noise of a panel never   *)
(* written nor the message of before a reboot                              *)
(* (agent-presence-device.c:35-36).                                        *)
(***************************************************************************)
BootedPanel ==
  boot = "loop" /\ presence_mutex = P!Free => panel = P!ExpectedScreen

(***************************************************************************)
(* Every release is acted upon in the end, or lost to a reboot, although   *)
(* clients may keep posting and each call waits for the mutex:             *)
(* agent-presence-device.c:41-64 with presence.c:130,147,160.              *)
(***************************************************************************)
ReleaseServed == owed > 0 ~> owed = 0

(***************************************************************************)
(* What README.md:66 says: new notifications remain visible until the user *)
(* interacts with them.  Between boots, an unread notification gives way   *)
(* only to another one or to a press acted upon.                           *)
(***************************************************************************)
NewNotificationsStay ==
  [][presence_state.state = "UNREAD" /\ presence_state'.state = "IDLE"
       => (boot = "loop" /\ loop = "pressing") \/ panics' # panics]_vars

(***************************************************************************)
(* The same sentence, read for the notification: who dismisses an unread   *)
(* notification with a press had it before the eyes when the thumb came    *)
(* down.                                                                   *)
(***************************************************************************)
DismissedWasSeen ==
  [][boot = "loop" /\ P!At("main", "acknowledge", "body")
       /\ presence_state.state = "UNREAD" /\ presence_state'.state = "IDLE"
       => seen = presence_text \/ panics' # panics]_vars
=============================================================================
