------------------------------ MODULE MainLoop ------------------------------
(***************************************************************************)
(* The loop of app_main, agent-presence-device.c:38-64, with the button of *)
(* button.c under a person's thumb: poll, debounce by a second sample,     *)
(* measure the press in ticks, call presence_next_page or                  *)
(* presence_acknowledge on release, sleep, and call presence_update once a *)
(* turn.  The presence calls are opaque here (request says which one is in *)
(* progress); module Device joins them to module Presence.                 *)
(*                                                                         *)
(* The contact bounces: for BounceTime ticks after it opens or closes,     *)
(* gpio_get_level may return either level.                                 *)
(***************************************************************************)
EXTENDS Integers

CONSTANTS
  HalfRange,      \* half the range of TickType_t
  LongPress,      \* PRESENCE_LONG_PRESS_THRESHOLD_MS in ticks: 100
  DebounceDelay,  \* the 30 ms between the two samples, in ticks: 3
  LoopDelay,      \* the 20 ms between two turns, in ticks: 2
  BounceTime,     \* ticks for which the contact bounces
  MinDwell,       \* ticks the person leaves between press and release
  MaxHold,        \* ticks after which the person lets go
  MaxLag          \* ticks a ready main task waits for its turn, or for a call

ASSUME MainLoopAssumption ==
  /\ {HalfRange, LongPress, DebounceDelay, LoopDelay} \subseteq Nat \ {0}
  /\ {BounceTime, MinDwell, MaxHold, MaxLag} \subseteq Nat
  /\ MaxHold + MinDwell < 2 * HalfRange

(***************************************************************************)
(* Most ticks by which the loop can be later, or sooner, in seeing the     *)
(* release than it was in seeing the press: the bounce and the sleep it    *)
(* may just have missed, and the five places where it may wait its turn.   *)
(* One tick less is refuted.                                               *)
(***************************************************************************)
LastBounce == IF BounceTime = 0 THEN 0 ELSE BounceTime - 1
JitterBound == LastBounce + LoopDelay + 5 * MaxLag

(***************************************************************************)
(* What the code asks of the button and of the thumb: the contact has come *)
(* to rest when it is sampled for the second time, and the thumb leaves it *)
(* alone until the loop has seen the last change and called for it.  With  *)
(* one tick less to MinDwell than the second line asks for, TLC refutes    *)
(* ClassifiedByHold and, for a lag of zero, OnePressOneCall.               *)
(***************************************************************************)
ASSUME ThumbAssumption ==
  /\ BounceTime <= DebounceDelay
  /\ MinDwell > JitterBound + DebounceDelay
  /\ MinDwell >= JitterBound + DebounceDelay + MaxLag

VARIABLES
  tick,           \* xTaskGetTickCount()
  loop,           \* what the main task does next
  delay,          \* ticks left of its vTaskDelay
  request,        \* the presence call it is in
  was_pressed,
  press_started,
  level,          \* the contact is closed
  since,          \* ticks since the contact last changed, up to MinDwell
  lag,            \* history: ticks for which the main task has been ready
  hold,           \* history: length of the current or the last press
  owed            \* history: releases the loop has not acted on yet, up to two

task == <<loop, delay, request, was_pressed, press_started>>
thumb == <<level, since>>
vars == <<tick, task, thumb, lag, hold, owed>>

Requests == {"none", "update", "next_page", "acknowledge"}
Points == {"update", "updating", "poll", "confirm", "edge", "pressing"}

Elapsed(from) == (tick - from) % (2 * HalfRange)

(* button_is_pressed(): the pin is pulled up, so a closed contact reads 0. *)
ButtonReads == IF since < BounceTime THEN BOOLEAN ELSE {level}

-----------------------------------------------------------------------------
(* The main task.  At(p): it is about to run p, and no delay holds it.     *)

At(p) == loop = p /\ delay = 0

(* The loop goes on at p once vTaskDelay(d) is over. *)
GoOn(p, d) == loop' = p /\ delay' = d /\ lag' = 0

CallUpdate ==
  /\ At("update")
  /\ request' = "update"
  /\ GoOn("updating", 0)
  /\ UNCHANGED <<tick, was_pressed, press_started, thumb, hold, owed>>

UpdateReturns ==
  /\ At("updating")
  /\ request' = "none"
  /\ GoOn("poll", 0)
  /\ UNCHANGED <<tick, was_pressed, press_started, thumb, hold, owed>>

(* The first sample: a change starts the debounce delay. *)
Poll_MutNoDebounce ==
  /\ At("poll")
  /\ \E is_pressed \in ButtonReads :
       IF is_pressed # was_pressed
         THEN GoOn("edge", 0)
         ELSE GoOn("update", LoopDelay)
  /\ UNCHANGED <<tick, request, was_pressed, press_started, thumb, hold, owed>>

(* vTaskDelay(30): milliseconds taken for ticks of ten *)
Poll_MutMilliseconds ==
  /\ At("poll")
  /\ \E is_pressed \in ButtonReads :
       IF is_pressed # was_pressed
         THEN GoOn("confirm", 10 * DebounceDelay)
         ELSE GoOn("update", LoopDelay)
  /\ UNCHANGED <<tick, request, was_pressed, press_started, thumb, hold, owed>>

(* After the delay it polls again and compares with the same old state. *)
Poll_MutPollsAgain ==
  /\ At("poll")
  /\ \E is_pressed \in ButtonReads :
       IF is_pressed # was_pressed
         THEN GoOn("poll", DebounceDelay)
         ELSE GoOn("update", LoopDelay)
  /\ UNCHANGED <<tick, request, was_pressed, press_started, thumb, hold, owed>>

Poll ==
  /\ At("poll")
  /\ \E is_pressed \in ButtonReads :
       IF is_pressed # was_pressed
         THEN GoOn("confirm", DebounceDelay)
         ELSE GoOn("update", LoopDelay)
  /\ UNCHANGED <<tick, request, was_pressed, press_started, thumb, hold, owed>>

(* The second sample: only a change that lasted counts. *)
Confirm ==
  /\ At("confirm")
  /\ \E stable_pressed \in ButtonReads :
       IF stable_pressed # was_pressed
         THEN GoOn("edge", 0)
         ELSE GoOn("update", LoopDelay)
  /\ UNCHANGED <<tick, request, was_pressed, press_started, thumb, hold, owed>>

Pressed_MutNotRecorded ==
  /\ At("edge")
  /\ ~ was_pressed
  /\ was_pressed' = TRUE
  /\ GoOn("update", LoopDelay)
  /\ UNCHANGED <<tick, press_started, request, thumb, hold, owed>>

(* A press: remember when. *)
Pressed ==
  /\ At("edge")
  /\ ~ was_pressed
  /\ press_started' = tick
  /\ was_pressed' = TRUE
  /\ GoOn("update", LoopDelay)
  /\ UNCHANGED <<tick, request, thumb, hold, owed>>

(* A release: the length of the press says which call it asks for. *)
Released ==
  /\ At("edge")
  /\ was_pressed
  /\ request' = IF Elapsed(press_started) >= LongPress
                  THEN "acknowledge" ELSE "next_page"
  /\ owed' = owed - 1
  /\ GoOn("pressing", 0)
  /\ UNCHANGED <<tick, was_pressed, press_started, thumb, hold>>

PressReturns ==
  /\ At("pressing")
  /\ request' = "none"
  /\ was_pressed' = FALSE
  /\ GoOn("update", LoopDelay)
  /\ UNCHANGED <<tick, press_started, thumb, hold, owed>>

MainStep ==
  \/ CallUpdate
  \/ UpdateReturns
  \/ Poll
  \/ Confirm
  \/ Pressed
  \/ Released
  \/ PressReturns

-----------------------------------------------------------------------------
(* The person and the tick interrupt *)

Press ==
  /\ ~ level
  /\ since >= MinDwell
  /\ level' = TRUE
  /\ since' = 0
  /\ hold' = 0
  /\ UNCHANGED <<tick, task, lag, owed>>

Release ==
  /\ level
  /\ since >= MinDwell
  /\ level' = FALSE
  /\ since' = 0
  /\ owed' = IF owed < 2 THEN owed + 1 ELSE 2
  /\ UNCHANGED <<tick, task, lag, hold>>

(* Time passes while the main task is delayed, or ready for up to MaxLag. *)
Tick ==
  /\ delay > 0 \/ lag < MaxLag
  /\ level => hold < MaxHold
  /\ tick' = (tick + 1) % (2 * HalfRange)
  /\ delay' = IF delay > 0 THEN delay - 1 ELSE 0
  /\ lag' = IF delay > 0 THEN lag ELSE lag + 1
  /\ since' = IF since < MinDwell THEN since + 1 ELSE since
  /\ hold' = IF level THEN hold + 1 ELSE hold
  /\ UNCHANGED <<loop, request, was_pressed, press_started, level, owed>>

Init ==
  /\ tick = 0
  /\ loop = "update"
  /\ delay = 0
  /\ request = "none"
  /\ was_pressed = FALSE
  /\ press_started = 0
  /\ level \in BOOLEAN   \* a button held through the boot counts from here
  /\ since = 0
  /\ lag = 0
  /\ hold = 0
  /\ owed = 0

Next == MainStep \/ Press \/ Release \/ Tick

(* The main task runs when it is ready, ticks keep coming, thumbs tire. *)
Fairness == WF_vars(MainStep) /\ WF_vars(Tick) /\ WF_vars(Release)

Spec == Init /\ [][Next]_vars /\ Fairness

-----------------------------------------------------------------------------
(* Properties *)

(* The variables keep their types; the delays and histories their bounds. *)
TypeOK ==
  /\ tick \in 0 .. 2 * HalfRange - 1
  /\ loop \in Points
  /\ delay \in Nat /\ (delay <= DebounceDelay \/ delay <= LoopDelay)
  /\ request \in Requests
  /\ was_pressed \in BOOLEAN
  /\ press_started \in 0 .. 2 * HalfRange - 1
  /\ level \in BOOLEAN
  /\ since \in 0 .. MinDwell
  /\ lag \in 0 .. MaxLag
  /\ hold \in 0 .. MaxHold
  /\ owed \in -1 .. 2

(***************************************************************************)
(* However the contact bounces, one press of the button is acted upon      *)
(* once: the loop never acts on a release that did not happen, and never   *)
(* misses one (agent-presence-device.c:43-61).                             *)
(***************************************************************************)
OnePressOneCall == owed \in {0, 1}

(***************************************************************************)
(* The press is classified by how long the thumb was down, not by when the *)
(* loop looked: a hold shorter than the threshold by more than the jitter  *)
(* of polling never acknowledges, one longer by more never turns the page, *)
(* across a wrap of the tick counter too (agent-presence-device.c:49-57).  *)
(***************************************************************************)
ClassifiedByHold ==
  [][/\ request' = "acknowledge" /\ request # request'
          => hold >= LongPress - JitterBound
     /\ request' = "next_page" /\ request # request'
          => hold <= LongPress + JitterBound]_vars

(* Every release is acted upon in the end: agent-presence-device.c:41-64. *)
ReleaseActedUpon == owed > 0 ~> owed = 0
=============================================================================
