--------------------------- MODULE PresenceProofs ---------------------------
(***************************************************************************)
(* What module Presence promises, for every set of messages, every layout, *)
(* every tick width and timeout: the types, the panel showing the state,   *)
(* the exact timeout.  All of it follows from one inductive invariant,     *)
(* IInv: at most the holder of presence_mutex is between its stages, and   *)
(* each stage says what the framebuffer and the panel hold by then.        *)
(***************************************************************************)
EXTENDS Presence, TLAPS

(* Every call in progress is one its task makes. *)
CallsTyped ==
  /\ DOMAIN call = Tasks
  /\ \A t \in Tasks : pc[t] # "out" => call[t] \in Calls(t)

(* The stages inside the mutex *)
Inside == {"body", "draw", "clear", "flush", "give"}

(* The mutex is held by the task that is inside, if there is one. *)
MutexHeld == \A t \in Tasks : pc[t] \in Inside <=> presence_mutex = t

(* The copies used for drawing agree with the model, and a notification    *)
(* that is held has its own lines and pages.                               *)
Coherent ==
  /\ presence_current_page = presence_state.current_page
  /\ presence_page_count = presence_state.page_count
  /\ presence_state.state # IDLE =>
       /\ presence_text \in Messages
       /\ presence_line_count = LineCount[presence_text]
       /\ presence_page_count = PagesOf(LineCount[presence_text])

(* The difference the code tests, told by the ticks since the last press *)
Overdue ==
  IF quiet >= ReadingTimeout
    THEN quiet - ReadingTimeout
    ELSE quiet - ReadingTimeout + 2 * HalfRange

DeadlineKept ==
  presence_state.state = READING => TickSub(tick, presence_deadline) = Overdue

(* The framebuffer is as far as the stage of the call that draws says. *)
Staged ==
  \A t \in Tasks :
    /\ pc[t] = "draw" => presence_state.state # IDLE
    /\ pc[t] = "clear" => presence_state.state = IDLE
    /\ pc[t] = "flush" => oled_buffer = ExpectedScreen

(* The inductive invariant of presence.c's own memory: the mutex is held   *)
(* by the task that is inside a call, and what it has drawn so far is what *)
(* its stage says (presence.c:58-166).                                     *)
Core == TypeOK /\ CallsTyped /\ MutexHeld /\ Coherent /\ DeadlineKept /\ Staged

(* Outside the stages that redraw it, the panel shows the state, or still  *)
(* one of the screens it may have been left with before the first call.    *)
Settled(Left) == panel \in {ExpectedScreen} \cup Left

Shown(Left) ==
  /\ presence_mutex = Free => Settled(Left)
  /\ \A t \in Tasks : pc[t] \in {"body", "give"} => Settled(Left)

(* The inductive invariant: a panel that was just switched on shows noise. *)
IInv == Core /\ Shown({NoiseScreen})

-----------------------------------------------------------------------------
(* Arithmetic of ticks and pages *)

(* Constants, once and for all *)
LEMMA Constants ==
  /\ HalfRange \in Nat \ {0}
  /\ ReadingTimeout \in Nat \ {0}
  /\ ReadingTimeout <= HalfRange
  /\ PRESENCE_MAX_PAGE_COUNT = 171
BY PresenceAssumption
   DEF PresenceAssumption, PRESENCE_MAX_PAGE_COUNT, PagesOf,
       PRESENCE_BODY_LINES_PER_PAGE, PRESENCE_MAX_BODY_LINES

(* Sums and differences of ticks are ticks (presence.c:135,162). *)
LEMMA TicksClosed ==
  ASSUME NEW a \in Int, NEW b \in Int
  PROVE  /\ TickAdd(a, b) \in 0 .. 2 * HalfRange - 1
         /\ TickSub(a, b) \in 0 .. 2 * HalfRange - 1
BY Constants DEF TickAdd, TickSub

(* A deadline just set is a timeout away, modulo the range. *)
LEMMA DeadlineSet ==
  ASSUME NEW a \in 0 .. 2 * HalfRange - 1
  PROVE  TickSub(a, TickAdd(a, ReadingTimeout)) = 2 * HalfRange - ReadingTimeout
<1> DEFINE N == 2 * HalfRange
<1>1. CASE a + ReadingTimeout < N
  BY <1>1, Constants DEF TickAdd, TickSub
<1>2. CASE a + ReadingTimeout >= N
  <2>1. (a + ReadingTimeout) % N = a + ReadingTimeout - N
    BY <1>2, Constants
  <2>2. (a - (a + ReadingTimeout - N)) % N = N - ReadingTimeout
    BY Constants
  <2> QED BY <2>1, <2>2 DEF TickAdd, TickSub
<1> QED BY <1>1, <1>2, Constants

(* One tick adds one to the difference, modulo the range. *)
LEMMA DifferenceGrows ==
  ASSUME NEW a \in 0 .. 2 * HalfRange - 1, NEW b \in 0 .. 2 * HalfRange - 1
  PROVE  TickSub(TickAdd(a, 1), b) =
           IF TickSub(a, b) = 2 * HalfRange - 1 THEN 0 ELSE TickSub(a, b) + 1
<1> DEFINE N == 2 * HalfRange
<1>0. N \in Nat \ {0} /\ a \in 0 .. N - 1 /\ b \in 0 .. N - 1
  BY Constants
<1> HIDE DEF N
<1>1. (a + 1) % N = IF a + 1 = N THEN 0 ELSE a + 1
  BY <1>0
<1>2. (a - b) % N = IF a >= b THEN a - b ELSE a - b + N
  BY <1>0
<1>3. (0 - b) % N = IF b = 0 THEN 0 ELSE N - b
  BY <1>0
<1>4. (a + 1 - b) % N = IF a + 1 = N
                          THEN IF b = 0 THEN 0 ELSE N - b
                          ELSE IF a + 1 >= b THEN a + 1 - b ELSE a + 1 - b + N
  BY <1>0
<1>5. (((a + 1) % N) - b) % N =
        IF (a - b) % N = N - 1 THEN 0 ELSE ((a - b) % N) + 1
  BY <1>0, <1>1, <1>2, <1>3, <1>4
<1> QED BY <1>5 DEF TickAdd, TickSub, N

(* The page count of a laid-out body is in range, so that the guard of     *)
(* presence_show_message never replaces it (presence.c:112-116).           *)
LEMMA PageCounts ==
  ASSUME NEW n \in 1 .. PRESENCE_MAX_BODY_LINES
  PROVE  /\ PagesOf(n) \in 1 .. PRESENCE_MAX_PAGE_COUNT
         /\ BoundedPageCount(n) = PagesOf(n)
<1>1. PagesOf(n) \in 1 .. 171
  BY DEF PagesOf, PRESENCE_BODY_LINES_PER_PAGE, PRESENCE_MAX_BODY_LINES
<1> QED BY <1>1, Constants DEF BoundedPageCount

-----------------------------------------------------------------------------
(* Init and the steps *)

(* What the operators of presence_state.c do to a model *)
LEMMA ModelOperations ==
  ASSUME NEW n \in Nat,
         NEW model \in PresenceStateModel(n),
         model.current_page < model.page_count
  PROVE  /\ model.state # IDLE =>
              /\ presence_state_short_press(model) \in PresenceStateModel(n)
              /\ presence_state_short_press(model).state = READING
              /\ presence_state_short_press(model).page_count = model.page_count
              /\ presence_state_short_press(model).current_page
                   < model.page_count
         /\ presence_state_long_press(model) \in PresenceStateModel(n)
         /\ presence_state_long_press(model).state = IDLE
         /\ presence_state_long_press(model).current_page = model.current_page
         /\ presence_state_long_press(model).page_count = model.page_count
         /\ model.state = READING =>
              presence_state_timeout(model) = presence_state_long_press(model)
<1> USE DEF PresenceStateModel, IDLE, UNREAD, READING
<1>1. ASSUME model.state # IDLE, HasNextPage(model)
      PROVE  presence_state_short_press(model) =
               [state |-> READING, current_page |-> model.current_page + 1,
                page_count |-> model.page_count]
  BY <1>1 DEF presence_state_short_press
<1>2. ASSUME model.state # IDLE, ~ HasNextPage(model)
      PROVE  presence_state_short_press(model) =
               [state |-> READING, current_page |-> model.current_page,
                page_count |-> model.page_count]
  BY <1>2 DEF presence_state_short_press
<1>3. presence_state_long_press(model) =
        [state |-> IDLE, current_page |-> model.current_page,
         page_count |-> model.page_count]
  BY DEF presence_state_long_press
<1>4. model.state = READING =>
        presence_state_timeout(model) = presence_state_long_press(model)
  BY DEF presence_state_timeout, presence_state_long_press
<1> QED BY <1>1, <1>2, <1>3, <1>4 DEF HasNextPage

(* presence_init: presence.c:87-98 *)
LEMMA InitEstablishes == Init => IInv
<1> SUFFICES ASSUME Init PROVE IInv
  OBVIOUS
<1> USE Constants DEF Init
<1>1. TypeOK
  BY DEF TypeOK, PresenceStateModel, presence_state_init, IDLE, UNREAD, READING,
         Tasks, Stages, PRESENCE_MAX_BODY_LINES, PollBound
<1>2. CallsTyped
  BY DEF CallsTyped
<1>3. MutexHeld
  BY DEF MutexHeld, Inside, Free, Tasks
<1>4. Coherent /\ DeadlineKept
  BY DEF Coherent, DeadlineKept, presence_state_init, IDLE, READING
<1>5. Staged /\ Shown({NoiseScreen})
  BY DEF Staged, Shown, Settled, ExpectedScreen, presence_state_init, IDLE
<1> QED BY <1>1, <1>2, <1>3, <1>4, <1>5 DEF IInv, Core

(* A step that leaves presence.c's variables alone leaves alone what is    *)
(* said of them.                                                           *)
LEMMA MemoryKept ==
  ASSUME Core, UNCHANGED <<memory, clock>>
  PROVE  /\ Coherent'
         /\ DeadlineKept'
         /\ ExpectedScreen' = ExpectedScreen
BY DEF Core, memory, clock, Coherent, DeadlineKept, ExpectedScreen, Overdue

(* A task enters a call: no stage inside the mutex changes. *)
LEMMA EnterPreserves ==
  ASSUME Core, NEW Left, NEW t \in Tasks, NEW c \in Calls(t), Enter(t, c)
  PROVE  Core' /\ (Shown(Left) => Shown(Left)')
<1> USE DEF Enter, Goto
<1>1. TypeOK'
  BY DEF Core, TypeOK, memory, clock, Stages
<1>2. CallsTyped'
  BY DEF Core, CallsTyped, TypeOK
<1>3. MutexHeld'
  BY DEF Core, MutexHeld, TypeOK, Inside
<1>4. Staged'
  BY MemoryKept DEF Core, Staged, TypeOK, memory, display
<1>5. Shown(Left) => Shown(Left)'
  BY MemoryKept DEF Core, Shown, Settled, TypeOK, MutexHeld, Inside, memory,
                    display
<1> QED BY <1>1, <1>2, <1>3, <1>4, <1>5, MemoryKept DEF Core

LEMMA TakeMutexPreserves ==
  ASSUME Core, NEW Left, NEW t \in Tasks, TakeMutex(t)
  PROVE  Core' /\ (Shown(Left) => Shown(Left)')
<1> USE DEF TakeMutex, Goto
<1>1. TypeOK'
  BY DEF Core, TypeOK, memory, clock, Stages
<1>2. CallsTyped'
  BY DEF Core, CallsTyped, TypeOK
<1>3. MutexHeld'
  BY DEF Core, MutexHeld, TypeOK, Inside, Tasks, Free
<1>4. Staged'
  BY MemoryKept DEF Core, Staged, TypeOK, memory, display
<1>5. Shown(Left) => Shown(Left)'
  BY MemoryKept DEF Core, Shown, Settled, TypeOK, MutexHeld, Inside, memory,
                    display, Tasks, Free
<1> QED BY <1>1, <1>2, <1>3, <1>4, <1>5, MemoryKept DEF Core

LEMMA GiveMutexPreserves ==
  ASSUME Core, NEW Left, NEW t \in Tasks, GiveMutex(t)
  PROVE  Core' /\ (Shown(Left) => Shown(Left)')
<1> USE DEF GiveMutex, Goto
<1>1. TypeOK'
  BY DEF Core, TypeOK, memory, clock, Stages
<1>2. CallsTyped'
  BY DEF Core, CallsTyped, TypeOK
<1>3. MutexHeld'
  BY DEF Core, MutexHeld, TypeOK, Inside, Tasks, Free
<1>4. Staged'
  BY MemoryKept DEF Core, Staged, TypeOK, memory, display
<1>5. Shown(Left) => Shown(Left)'
  BY MemoryKept DEF Core, Shown, Settled, TypeOK, MutexHeld, Inside, memory,
                    display
<1> QED BY <1>1, <1>2, <1>3, <1>4, <1>5, MemoryKept DEF Core

(* The mutex keeps the other task out. *)
LEMMA OthersOutside ==
  ASSUME Core, NEW t \in Tasks, pc[t] \in Inside
  PROVE  presence_mutex = t /\ t # Free /\ \A u \in Tasks \ {t} : pc[u] \notin Inside
BY DEF Core, MutexHeld, Tasks, Free

(* A step of the holder to another stage inside keeps the book-keeping of  *)
(* calls and mutex.                                                        *)
LEMMA InsideKept ==
  ASSUME Core, NEW t \in Tasks, NEW stage \in Inside,
         pc[t] \in Inside, Goto(t, stage), UNCHANGED <<presence_mutex, call>>
  PROVE  /\ CallsTyped' /\ MutexHeld'
         /\ pc' \in [Tasks -> Stages]
         /\ pc'[t] = stage
         /\ \A u \in Tasks \ {t} : pc'[u] = pc[u] /\ pc'[u] \notin Inside
<1> USE DEF Goto
<1>1. pc \in [Tasks -> Stages]
  BY DEF Core, TypeOK
<1>2. pc' \in [Tasks -> Stages] /\ pc'[t] = stage
  BY <1>1 DEF Inside, Stages
<1>3. \A u \in Tasks \ {t} : pc'[u] = pc[u] /\ pc'[u] \notin Inside
  BY <1>1, OthersOutside
<1>4. CallsTyped'
  BY <1>1, <1>2, <1>3 DEF Core, CallsTyped, Inside
<1>5. MutexHeld'
  BY <1>1, <1>2, <1>3 DEF Core, MutexHeld
<1> QED BY <1>2, <1>3, <1>4, <1>5

(* When one task is inside, only its own stage says what is drawn, ... *)
LEMMA StagedByHolder ==
  ASSUME Core, NEW t \in Tasks, NEW stage \in Inside,
         pc[t] \in Inside, Goto(t, stage), UNCHANGED <<presence_mutex, call>>,
         stage = "draw" => presence_state'.state # IDLE,
         stage = "clear" => presence_state'.state = IDLE,
         stage = "flush" => oled_buffer' = ExpectedScreen'
  PROVE  Staged'
BY OthersOutside, InsideKept DEF Staged, Inside

(* ... and what is shown. *)
LEMMA ShownByHolder ==
  ASSUME Core, NEW Left, NEW t \in Tasks, NEW stage \in Inside,
         pc[t] \in Inside, Goto(t, stage), UNCHANGED <<presence_mutex, call>>,
         stage \in {"body", "give"} => Settled(Left)'
  PROVE  Shown(Left)'
BY OthersOutside, InsideKept DEF Shown, Inside

LEMMA DrawPreserves ==
  ASSUME Core, NEW Left, NEW t \in Tasks, Draw(t)
  PROVE  Core' /\ Shown(Left)'
<1> USE DEF Draw
<1>1. pc[t] \in Inside /\ "flush" \in Inside
  BY DEF Inside
<1>2. TypeOK'
  BY <1>1, InsideKept DEF Core, TypeOK, memory, clock
<1>3. oled_buffer' = ExpectedScreen
  BY DEF Core, Staged, Coherent, ExpectedScreen
<1>4. Staged' /\ Shown(Left)'
  BY <1>1, <1>3, MemoryKept, StagedByHolder, ShownByHolder
<1> QED BY <1>1, <1>2, <1>4, MemoryKept, InsideKept DEF Core

LEMMA ClearPreserves ==
  ASSUME Core, NEW Left, NEW t \in Tasks, Clear(t)
  PROVE  Core' /\ Shown(Left)'
<1> USE DEF Clear
<1>1. pc[t] \in Inside /\ "flush" \in Inside
  BY DEF Inside
<1>2. TypeOK'
  BY <1>1, InsideKept DEF Core, TypeOK, memory, clock
<1>3. oled_buffer' = ExpectedScreen
  BY DEF Core, Staged, ExpectedScreen
<1>4. Staged' /\ Shown(Left)'
  BY <1>1, <1>3, MemoryKept, StagedByHolder, ShownByHolder
<1> QED BY <1>1, <1>2, <1>4, MemoryKept, InsideKept DEF Core

(* Whatever the panel was left with, a flush makes it show the state. *)
LEMMA FlushPreserves ==
  ASSUME Core, NEW Left, NEW t \in Tasks, Flush(t)
  PROVE  Core' /\ Shown(Left)' /\ panel' = ExpectedScreen'
<1> USE DEF Flush
<1>1. pc[t] \in Inside /\ "give" \in Inside
  BY DEF Inside
<1>2. TypeOK'
  BY <1>1, InsideKept DEF Core, TypeOK, memory, clock
<1>3. panel' = ExpectedScreen'
  BY MemoryKept DEF Core, Staged
<1>4. Staged' /\ Shown(Left)'
  BY <1>1, <1>3, StagedByHolder, ShownByHolder DEF Settled
<1> QED BY <1>1, <1>2, <1>3, <1>4, MemoryKept, InsideKept DEF Core

(* A call that finds nothing to do goes straight to giving the mutex back. *)
LEMMA NothingToDoPreserves ==
  ASSUME Core, NEW Left, NEW t \in Tasks,
         pc[t] = "body", Goto(t, "give"),
         UNCHANGED <<presence_mutex, memory, display, clock, call>>
  PROVE  Core' /\ (Shown(Left) => Shown(Left)')
<1>1. pc[t] \in Inside /\ "give" \in Inside
  BY DEF Inside
<1>2. TypeOK'
  BY <1>1, InsideKept DEF Core, TypeOK, memory, clock
<1>3. Staged'
  BY <1>1, StagedByHolder
<1>4. Shown(Left) => Settled(Left)'
  BY MemoryKept DEF Shown, Settled, display
<1>5. Shown(Left) => Shown(Left)'
  BY <1>1, <1>4, ShownByHolder
<1> QED BY <1>1, <1>2, <1>3, <1>5, MemoryKept, InsideKept DEF Core

LEMMA ShowMessagePreserves ==
  ASSUME Core, NEW Left, NEW t \in Tasks, ShowMessage(t)
  PROVE  Core' /\ Shown(Left)'
<1> DEFINE message == call[t].message
           n == LineCount[message]
<1>1. pc[t] = "body" /\ pc[t] \in Inside /\ "draw" \in Inside
  BY DEF ShowMessage, At, Inside
<1>2. message \in Messages
  BY <1>1 DEF Core, CallsTyped, ShowMessage, At, Calls
<1>3. n \in 1 .. PRESENCE_MAX_BODY_LINES
  BY <1>2, PresenceAssumption DEF PresenceAssumption
<1>4. /\ PagesOf(n) \in 1 .. PRESENCE_MAX_PAGE_COUNT
      /\ BoundedPageCount(n) = PagesOf(n)
  BY <1>3, PageCounts
<1> HIDE DEF n, message
<1>5. /\ presence_text' = message
      /\ presence_line_count' = n
      /\ presence_state' = presence_state_message(presence_state, PagesOf(n))
      /\ presence_current_page' = presence_state'.current_page
      /\ presence_page_count' = presence_state'.page_count
  BY <1>4 DEF ShowMessage, message, n
<1>6. presence_state' = [state |-> UNREAD, current_page |-> 0,
                         page_count |-> PagesOf(n)]
  BY <1>4, <1>5, Constants DEF presence_state_message
<1>7. TypeOK'
  <2>1. presence_state' \in PresenceStateModel(PRESENCE_MAX_PAGE_COUNT)
    BY <1>4, <1>6, Constants DEF PresenceStateModel, UNREAD, IDLE, READING
  <2> QED BY <2>1, <1>1, <1>2, <1>3, <1>4, <1>5, <1>6, Constants, InsideKept
          DEF ShowMessage, Core, TypeOK, PollBound
<1>8. Coherent' /\ DeadlineKept'
  BY <1>2, <1>5, <1>6 DEF Coherent, DeadlineKept, UNREAD, READING, IDLE, n
<1>9. Staged' /\ Shown(Left)'
  BY <1>1, <1>6, StagedByHolder, ShownByHolder DEF ShowMessage, UNREAD, IDLE
<1> QED BY <1>1, <1>7, <1>8, <1>9, InsideKept DEF ShowMessage, Core

LEMMA NextPagePreserves ==
  ASSUME Core, NEW Left, NEW t \in Tasks, NextPage(t)
  PROVE  Core' /\ Shown(Left)'
<1>1. pc[t] = "body" /\ pc[t] \in Inside /\ "draw" \in Inside
  BY DEF NextPage, At, Inside
<1>2. /\ presence_state \in PresenceStateModel(PRESENCE_MAX_PAGE_COUNT)
      /\ presence_state.current_page < presence_state.page_count
      /\ tick \in 0 .. 2 * HalfRange - 1
  BY DEF Core, TypeOK, Coherent
<1>3. /\ presence_state' \in PresenceStateModel(PRESENCE_MAX_PAGE_COUNT)
      /\ presence_state'.state = READING
      /\ presence_state'.page_count = presence_state.page_count
      /\ presence_state'.current_page < presence_state.page_count
  BY <1>2, ModelOperations, Constants DEF NextPage
<1>4. /\ presence_deadline' = TickAdd(tick, ReadingTimeout)
      /\ presence_deadline' \in 0 .. 2 * HalfRange - 1
  BY <1>2, TicksClosed, Constants DEF NextPage
<1>5. TypeOK'
  <2>1. presence_current_page' \in 0 .. PRESENCE_MAX_PAGE_COUNT - 1
    BY <1>3 DEF NextPage, PresenceStateModel
  <2>2. presence_current_page' < presence_page_count'
    BY <1>3 DEF NextPage, Core, Coherent
  <2> QED BY <1>1, <1>3, <1>4, <2>1, <2>2, Constants, InsideKept
          DEF NextPage, Core, TypeOK, PollBound
<1>6. Coherent'
  BY <1>3 DEF NextPage, Core, Coherent
<1>7. DeadlineKept'
  BY <1>2, <1>4, DeadlineSet, Constants DEF NextPage, DeadlineKept, Overdue
<1>8. Staged' /\ Shown(Left)'
  BY <1>1, <1>3, StagedByHolder, ShownByHolder DEF NextPage, READING, IDLE
<1> QED BY <1>1, <1>5, <1>6, <1>7, <1>8, InsideKept DEF NextPage, Core

(* A call that makes the device idle: the two that go on to clear *)
LEMMA DismissPreserves ==
  ASSUME Core, NEW Left, NEW t \in Tasks,
         pc[t] = "body", Goto(t, "clear"),
         presence_state' = presence_state_long_press(presence_state),
         presence_deadline' \in {0, presence_deadline},
         quiet' = 0,
         UNCHANGED <<presence_mutex, presence_current_page, presence_page_count,
                     presence_line_count, presence_text, display, tick, call>>
  PROVE  Core' /\ Shown(Left)'
<1>1. pc[t] \in Inside /\ "clear" \in Inside
  BY DEF Inside
<1>2. /\ presence_state \in PresenceStateModel(PRESENCE_MAX_PAGE_COUNT)
      /\ presence_state.current_page < presence_state.page_count
  BY DEF Core, TypeOK, Coherent
<1>3. /\ presence_state' \in PresenceStateModel(PRESENCE_MAX_PAGE_COUNT)
      /\ presence_state'.state = IDLE
      /\ presence_state'.current_page = presence_state.current_page
      /\ presence_state'.page_count = presence_state.page_count
  BY <1>2, ModelOperations, Constants
<1>4. TypeOK'
  BY <1>1, <1>3, Constants, InsideKept DEF Core, TypeOK, PollBound
<1>5. Coherent' /\ DeadlineKept'
  BY <1>3 DEF Core, Coherent, DeadlineKept, IDLE, READING
<1>6. Staged' /\ Shown(Left)'
  BY <1>1, <1>3, StagedByHolder, ShownByHolder
<1> QED BY <1>1, <1>4, <1>5, <1>6, InsideKept DEF Core

LEMMA AcknowledgePreserves ==
  ASSUME Core, NEW Left, NEW t \in Tasks, Acknowledge(t)
  PROVE  Core' /\ Shown(Left)'
BY DismissPreserves DEF Acknowledge, At

LEMMA TimeOutPreserves ==
  ASSUME Core, NEW Left, NEW t \in Tasks, TimeOut(t)
  PROVE  Core' /\ Shown(Left)'
<1>1. presence_state_timeout(presence_state)
        = presence_state_long_press(presence_state)
  BY ModelOperations, Constants
     DEF TimeOut, presence_state_is_reading, Core, TypeOK, Coherent
<1> QED BY <1>1, DismissPreserves DEF TimeOut, At

(* The difference of the test follows the ticks since the last press. *)
LEMMA TickPreserves ==
  ASSUME Core, NEW Left, Tick
  PROVE  Core' /\ (Shown(Left) => Shown(Left)')
<1>1. /\ tick \in 0 .. 2 * HalfRange - 1
      /\ presence_deadline \in 0 .. 2 * HalfRange - 1
      /\ quiet \in 0 .. PollBound
  BY DEF Core, TypeOK
<1>2. tick' \in 0 .. 2 * HalfRange - 1
  BY <1>1, TicksClosed DEF Tick
<1>3. quiet' \in 0 .. PollBound
  BY <1>1, Constants DEF Tick, PollBound
<1>4. TypeOK'
  BY <1>2, <1>3 DEF Tick, Core, TypeOK, memory
<1>5. CallsTyped' /\ MutexHeld' /\ Coherent'
  BY DEF Tick, Core, CallsTyped, MutexHeld, Coherent, memory
<1>6. DeadlineKept'
  <2>1. SUFFICES ASSUME presence_state.state = READING
                 PROVE  TickSub(tick', presence_deadline) = Overdue'
    BY DEF Tick, DeadlineKept, memory
  <2>2. quiet < PollBound /\ quiet' = quiet + 1
    BY <2>1 DEF Tick
  <2>3. TickSub(tick, presence_deadline) = Overdue
    BY <2>1 DEF Core, DeadlineKept
  <2>4. TickSub(tick', presence_deadline) =
          IF Overdue = 2 * HalfRange - 1 THEN 0 ELSE Overdue + 1
    BY <1>1, <2>3, DifferenceGrows DEF Tick
  <2> QED BY <1>1, <2>2, <2>4, Constants DEF Overdue, PollBound
<1>7. ExpectedScreen' = ExpectedScreen
  BY DEF Tick, ExpectedScreen, memory
<1>8. Staged' /\ (Shown(Left) => Shown(Left)')
  BY <1>7 DEF Tick, Core, Staged, Shown, Settled, memory, display
<1> QED BY <1>4, <1>5, <1>6, <1>8 DEF Core

LEMMA StutterPreserves ==
  ASSUME Core, NEW Left, UNCHANGED vars
  PROVE  Core' /\ (Shown(Left) => Shown(Left)')
BY MemoryKept
   DEF vars, memory, display, clock, Core, TypeOK, CallsTyped, MutexHeld, Staged,
       Shown, Settled

LEMMA LockedPreserves ==
  ASSUME Core, NEW Left, NEW t \in Tasks, Locked(t)
  PROVE  Core' /\ (Shown(Left) => Shown(Left)')
<1>1. CASE ShowMessage(t)
  BY <1>1, ShowMessagePreserves
<1>2. CASE NextPageWhenIdle(t) \/ NoTimeOut(t)
  BY <1>2, NothingToDoPreserves DEF NextPageWhenIdle, NoTimeOut, At
<1>3. CASE NextPage(t)
  BY <1>3, NextPagePreserves
<1>4. CASE Acknowledge(t) \/ TimeOut(t)
  BY <1>4, AcknowledgePreserves, TimeOutPreserves
<1>5. CASE Draw(t) \/ Clear(t) \/ Flush(t) \/ GiveMutex(t)
  BY <1>5, DrawPreserves, ClearPreserves, FlushPreserves, GiveMutexPreserves
<1> QED BY <1>1, <1>2, <1>3, <1>4, <1>5 DEF Locked, Body

(***************************************************************************)
(* IInv is an invariant, for every set of messages, every layout of them   *)
(* and every tick range: presence.c keeps its book however the two tasks   *)
(* and the tick interrupt interleave (presence.c:100-167).                 *)
(***************************************************************************)
THEOREM Invariance == Spec => []IInv
<1>1. Init => IInv
  BY InitEstablishes
<1>2. IInv /\ [Next]_vars => IInv'
  <2> SUFFICES ASSUME Core, Shown({NoiseScreen}), [Next]_vars
               PROVE  Core' /\ Shown({NoiseScreen})'
    BY DEF IInv, NoiseScreen, Screen
  <2>1. CASE \E t \in Tasks : \E c \in Calls(t) : Enter(t, c)
    BY <2>1, EnterPreserves
  <2>2. CASE \E t \in Tasks : TakeMutex(t) \/ Locked(t)
    BY <2>2, TakeMutexPreserves, LockedPreserves
  <2>3. CASE Tick
    BY <2>3, TickPreserves
  <2>4. CASE UNCHANGED vars
    BY <2>4, StutterPreserves
  <2> QED BY <2>1, <2>2, <2>3, <2>4 DEF Next
<1> QED BY <1>1, <1>2, PTL DEF Spec

-----------------------------------------------------------------------------
(* The theorems *)

(* Type correctness of the statics of presence.c (presence.c:18-27), with  *)
(* the page drawn always one of the pages there are.                       *)
THEOREM TypeCorrect == Spec => []TypeOK
<1>1. IInv => TypeOK
  BY DEF IInv, Core
<1> QED BY <1>1, Invariance, PTL

(* Two tasks are never inside presence.c at once: the mutex of             *)
(* presence.c:106,130,147,160 excludes them.                               *)
THEOREM MutualExclusion ==
  Spec => [](\A t, u \in Tasks : pc[t] \in Inside /\ pc[u] \in Inside => t = u)
<1>1. IInv => \A t, u \in Tasks : pc[t] \in Inside /\ pc[u] \in Inside => t = u
  BY DEF IInv, Core, MutexHeld
<1> QED BY <1>1, Invariance, PTL

(* The panel shows the state whenever the mutex is free: no call leaves    *)
(* the screen of another one behind (presence.c:52-85).                    *)
THEOREM PanelShowsState == Spec => []PanelMatchesState
<1>1. IInv => PanelMatchesState
  BY DEF IInv, Shown, Settled, PanelMatchesState
<1> QED BY <1>1, Invariance, PTL

(* The test of presence_update, in ticks since the last accepted press:    *)
(* presence.c:162                                                          *)
LEMMA DeadlinePassedExactly ==
  ASSUME Core, presence_state.state = READING
  PROVE  DeadlinePassed <=> quiet >= ReadingTimeout
<1>1. quiet \in 0 .. PollBound /\ TickSub(tick, presence_deadline) = Overdue
  BY DEF Core, TypeOK, DeadlineKept
<1> QED BY <1>1, Constants DEF DeadlinePassed, Overdue, PollBound

(* The timeout is exact for every tick width and timeout, across any       *)
(* number of wraps of the tick counter (presence.c:161-165).               *)
THEOREM TimeoutIsExact == Spec => TimeoutExact
<1> DEFINE Exact ==
      \A t \in Tasks :
        At(t, "update", "body") /\ pc'[t] # "body" =>
          (pc'[t] = "clear") =
            (presence_state.state = READING /\ quiet >= ReadingTimeout)
<1>1. IInv /\ [Next]_vars => [Exact]_vars
  <2> SUFFICES ASSUME IInv, Next,
                      NEW t \in Tasks, At(t, "update", "body"), pc'[t] # "body"
               PROVE  (pc'[t] = "clear") =
                        (presence_state.state = READING
                           /\ quiet >= ReadingTimeout)
    OBVIOUS
  <2>1. pc \in [Tasks -> Stages] /\ pc[t] = "body" /\ call[t].op = "update"
    BY DEF IInv, Core, TypeOK, At
  <2>2. TimeOut(t) \/ NoTimeOut(t)
    <3>1. ~ Tick
      BY <2>1 DEF Tick
    <3>2. ASSUME NEW u \in Tasks, u # t
          PROVE  pc[u] \notin Inside
      BY <2>1, <3>2, OthersOutside DEF Inside, IInv
    <3>3. ASSUME NEW u \in Tasks, NEW c \in Calls(u), Enter(u, c)
          PROVE  FALSE
      BY <2>1, <3>3 DEF Enter, Goto
    <3>4. ASSUME NEW u \in Tasks, TakeMutex(u)
          PROVE  FALSE
      BY <2>1, <3>4 DEF TakeMutex, Goto
    <3>5. ASSUME NEW u \in Tasks, Locked(u)
          PROVE  u = t
      BY <3>2, <3>5
         DEF Locked, Body, ShowMessage, NextPageWhenIdle, NextPage, Acknowledge,
             TimeOut, NoTimeOut, At, Draw, Clear, Flush, GiveMutex, Inside
    <3>6. Locked(t)
      BY <3>1, <3>3, <3>4, <3>5 DEF Next
    <3> QED BY <2>1, <3>6
            DEF Locked, Body, ShowMessage, NextPageWhenIdle, NextPage,
                Acknowledge, At, Draw, Clear, Flush, GiveMutex
  <2>3. CASE TimeOut(t)
    BY <2>1, <2>3, DeadlinePassedExactly
       DEF TimeOut, Goto, presence_state_is_reading, IInv
  <2>4. CASE NoTimeOut(t)
    BY <2>1, <2>4, DeadlinePassedExactly
       DEF NoTimeOut, Goto, presence_state_is_reading, IInv
  <2> QED BY <2>2, <2>3, <2>4
<1> QED BY <1>1, Invariance, PTL DEF Spec, TimeoutExact

-----------------------------------------------------------------------------
(***************************************************************************)
(* The panel of module Presence implements module Notification, for every  *)
(* set of messages and every layout: the initial screens are empty ones,   *)
(* and a flush, the only step that changes the panel, shows a new          *)
(* notification, turns one page, empties the screen or changes nothing.    *)
(* The argument needs to know what the panel showed before the state was   *)
(* changed; RInv adds that to IInv.                                        *)
(***************************************************************************)

(* Noise is on the panel only while no notification is held. *)
NoiseOnlyIdle == panel = NoiseScreen => presence_state.state = IDLE

(* A redraw for a press follows the page that is on the panel. *)
Follows ==
  /\ presence_state.state # IDLE
  /\ panel.text = presence_text
  /\ \/ presence_current_page = panel.page
     \/ /\ presence_current_page = panel.page + 1
        /\ panel.page + 1 < presence_page_count

(* What each stage of each call knows about the panel it will replace *)
RInv ==
  /\ presence_mutex = Free => NoiseOnlyIdle
  /\ \A t \in Tasks :
       /\ pc[t] \in {"body", "give"} => NoiseOnlyIdle
       /\ pc[t] = "draw" => call[t].op \in {"show_message", "next_page"}
       /\ pc[t] = "clear" => call[t].op \in {"acknowledge", "update"}
       /\ pc[t] \in {"draw", "flush"} /\ call[t].op = "show_message" =>
            presence_state.state # IDLE /\ presence_current_page = 0
       /\ pc[t] \in {"draw", "flush"} /\ call[t].op = "next_page" => Follows
       /\ pc[t] \in {"clear", "flush"}
            /\ call[t].op \in {"acknowledge", "update"} =>
              presence_state.state = IDLE

(* A screen that holds lines of a message holds a whole page of it. *)
Proper(screen) ==
  screen.text \in Messages =>
    /\ screen.page \in Nat
    /\ screen.of = PagesOf(LineCount[screen.text])
    /\ screen.page < screen.of
    /\ screen.lines = LinesOfPage(screen.page, LineCount[screen.text])

(* The fields of a screen *)
LEMMA ScreenFields ==
  ASSUME NEW m, NEW p, NEW n, NEW l
  PROVE  /\ Screen(m, p, n, l).text = m
         /\ Screen(m, p, n, l).page = p
         /\ Screen(m, p, n, l).of = n
         /\ Screen(m, p, n, l).lines = l
BY DEF Screen

(* An empty screen and a noisy one show no message. *)
LEMMA EmptyScreens ==
  /\ Blank.text = NoMessage /\ Blank.page = 0
  /\ NoiseScreen.text = Noise /\ NoiseScreen.page = 0
  /\ NoMessage \notin Messages /\ Noise \notin Messages
  /\ Blank # NoiseScreen
BY ScreenFields, PresenceAssumption DEF Blank, NoiseScreen, PresenceAssumption

LEMMA ExpectedProper == ASSUME IInv PROVE Proper(ExpectedScreen)
<1>1. CASE presence_state.state = IDLE
  BY <1>1, EmptyScreens DEF ExpectedScreen, Proper
<1>2. CASE presence_state.state # IDLE
  BY <1>2, ScreenFields
     DEF ExpectedScreen, Proper, IInv, Core, TypeOK, Coherent, PresenceStateModel
<1> QED BY <1>1, <1>2

(* Only a flush changes the panel, and it shows what the state asks for. *)
LEMMA PanelSteps ==
  ASSUME IInv, [Next]_vars
  PROVE  \/ UNCHANGED panel
         \/ \E t \in Tasks : Flush(t) /\ panel' = ExpectedScreen
<1>1. ASSUME NEW t \in Tasks, Flush(t)
      PROVE  panel' = ExpectedScreen
  BY <1>1 DEF Flush, IInv, Core, Staged
<1> QED
  BY <1>1 DEF Next, vars, Enter, TakeMutex, Locked, Body, ShowMessage,
              NextPageWhenIdle, NextPage, Acknowledge, TimeOut, NoTimeOut,
              Draw, Clear, GiveMutex, Tick, display

-----------------------------------------------------------------------------
(* RInv is an invariant *)

(* The clauses of RInv for task t at a stage, in the state after a step *)
Clauses(t, stage) ==
  /\ stage \in {"body", "give"} => NoiseOnlyIdle
  /\ stage = "draw" => call[t].op \in {"show_message", "next_page"}
  /\ stage = "clear" => call[t].op \in {"acknowledge", "update"}
  /\ stage \in {"draw", "flush"} /\ call[t].op = "show_message" =>
       presence_state.state # IDLE /\ presence_current_page = 0
  /\ stage \in {"draw", "flush"} /\ call[t].op = "next_page" => Follows
  /\ stage \in {"clear", "flush"} /\ call[t].op \in {"acknowledge", "update"}
       => presence_state.state = IDLE

LEMMA RInvByHolder ==
  ASSUME IInv, NEW t \in Tasks, NEW stage \in Inside,
         pc[t] \in Inside, Goto(t, stage), UNCHANGED <<presence_mutex, call>>,
         Clauses(t, stage)'
  PROVE  RInv'
BY OthersOutside, InsideKept DEF RInv, Clauses, Inside, IInv

(* A step that leaves state, copies and panel alone and enters no stage    *)
LEMMA RInvKept ==
  ASSUME RInv, UNCHANGED <<memory, panel>>
  PROVE  /\ NoiseOnlyIdle' = NoiseOnlyIdle
         /\ Follows' = Follows
BY DEF NoiseOnlyIdle, Follows, memory, NoiseScreen, Screen

LEMMA EnterKeeps ==
  ASSUME IInv, RInv, NEW t \in Tasks, NEW c \in Calls(t), Enter(t, c)
  PROVE  RInv'
<1>1. pc \in [Tasks -> Stages] /\ DOMAIN call = Tasks
  BY DEF IInv, Core, TypeOK, CallsTyped
<1>2. \A u \in Tasks : u # t => pc'[u] = pc[u] /\ call'[u] = call[u]
  BY <1>1 DEF Enter, Goto
<1>3. pc'[t] = "take"
  BY <1>1 DEF Enter, Goto
<1> QED BY <1>2, <1>3, RInvKept DEF Enter, display, memory, RInv

LEMMA TakeMutexKeeps ==
  ASSUME IInv, RInv, NEW t \in Tasks, TakeMutex(t)
  PROVE  RInv'
<1>1. pc \in [Tasks -> Stages]
  BY DEF IInv, Core, TypeOK
<1>2. NoiseOnlyIdle'
  BY RInvKept DEF TakeMutex, RInv, display
<1>3. \A u \in Tasks : u # t => pc'[u] = pc[u] /\ pc[u] \notin Inside
  BY <1>1 DEF TakeMutex, Goto, IInv, Core, MutexHeld, Tasks, Free
<1>4. pc'[t] = "body"
  BY <1>1 DEF TakeMutex, Goto
<1>5. presence_mutex' # Free
  BY DEF TakeMutex, Tasks, Free
<1> QED BY <1>2, <1>3, <1>4, <1>5 DEF RInv, Inside

LEMMA GiveMutexKeeps ==
  ASSUME IInv, RInv, NEW t \in Tasks, GiveMutex(t)
  PROVE  RInv'
<1>1. pc \in [Tasks -> Stages]
  BY DEF IInv, Core, TypeOK
<1>2. NoiseOnlyIdle'
  BY RInvKept DEF GiveMutex, RInv, display
<1>3. \A u \in Tasks : u # t => pc'[u] = pc[u] /\ pc[u] \notin Inside
  BY <1>1, OthersOutside DEF GiveMutex, Goto, Inside, IInv
<1>4. pc'[t] = "out"
  BY <1>1 DEF GiveMutex, Goto
<1> QED BY <1>2, <1>3, <1>4 DEF RInv, Inside

LEMMA LockedKeeps ==
  ASSUME IInv, RInv, NEW t \in Tasks, Locked(t)
  PROVE  RInv'
<1>1. CASE ShowMessage(t)
  <2>1. pc[t] \in Inside /\ "draw" \in Inside
    BY <1>1 DEF ShowMessage, At, Inside
  <2>2. presence_state'.state = UNREAD /\ presence_current_page' = 0
    BY <1>1 DEF ShowMessage, presence_state_message
  <2>3. Clauses(t, "draw")'
    BY <1>1, <2>2 DEF ShowMessage, At, Clauses, UNREAD, IDLE
  <2> QED BY <1>1, <2>1, <2>3, RInvByHolder DEF ShowMessage
<1>2. CASE NextPageWhenIdle(t) \/ NoTimeOut(t)
  <2>1. pc[t] \in Inside /\ "give" \in Inside
    BY <1>2 DEF NextPageWhenIdle, NoTimeOut, At, Inside
  <2>2. Clauses(t, "give")'
    BY <1>2, RInvKept
       DEF NextPageWhenIdle, NoTimeOut, At, RInv, Clauses, display
  <2> QED BY <1>2, <2>1, <2>2, RInvByHolder DEF NextPageWhenIdle, NoTimeOut
<1>3. CASE NextPage(t)
  <2>1. pc[t] = "body" /\ pc[t] \in Inside /\ "draw" \in Inside
    BY <1>3 DEF NextPage, At, Inside
  <2>2. presence_state.state # IDLE /\ panel = ExpectedScreen
    BY <1>3, <2>1
       DEF NextPage, RInv, NoiseOnlyIdle, IInv, Core, Shown, Settled,
           Staged
  <2>3. panel.text = presence_text /\ panel.page = presence_state.current_page
    BY <2>2, ScreenFields DEF ExpectedScreen
  <2>4. /\ presence_state \in PresenceStateModel(PRESENCE_MAX_PAGE_COUNT)
        /\ presence_page_count = presence_state.page_count
    BY DEF IInv, Core, TypeOK, Coherent
  <2>5. /\ presence_state'.state # IDLE
        /\ \/ presence_state'.current_page = presence_state.current_page
           \/ /\ presence_state'.current_page = presence_state.current_page + 1
              /\ presence_state.current_page + 1 < presence_state.page_count
    BY <1>3, <2>2, <2>4
       DEF NextPage, presence_state_short_press, HasNextPage,
           PresenceStateModel, READING, IDLE
  <2>6. Follows'
    BY <1>3, <2>3, <2>4, <2>5 DEF NextPage, Follows, display
  <2>7. Clauses(t, "draw")'
    BY <1>3, <2>6 DEF NextPage, At, Clauses
  <2> QED BY <1>3, <2>1, <2>7, RInvByHolder DEF NextPage
<1>4. CASE Acknowledge(t) \/ TimeOut(t)
  <2>1. pc[t] \in Inside /\ "clear" \in Inside
    BY <1>4 DEF Acknowledge, TimeOut, At, Inside
  <2>2. presence_state'.state = IDLE
    BY <1>4, ModelOperations, Constants
       DEF Acknowledge, TimeOut, presence_state_is_reading, IInv, Core, TypeOK,
           Coherent
  <2>3. Clauses(t, "clear")'
    BY <1>4, <2>2 DEF Acknowledge, TimeOut, At, Clauses
  <2> QED BY <1>4, <2>1, <2>3, RInvByHolder DEF Acknowledge, TimeOut
<1>5. CASE Draw(t) \/ Clear(t)
  <2>1. pc[t] \in Inside /\ "flush" \in Inside
    BY <1>5 DEF Draw, Clear, Inside
  <2>2. Clauses(t, "flush")'
    BY <1>5, RInvKept DEF Draw, Clear, RInv, Clauses, memory
  <2> QED BY <1>5, <2>1, <2>2, RInvByHolder DEF Draw, Clear
<1>6. CASE Flush(t)
  <2>1. pc[t] \in Inside /\ "give" \in Inside
    BY <1>6 DEF Flush, Inside
  <2>2. panel' = ExpectedScreen
    BY <1>6 DEF Flush, IInv, Core, Staged
  <2>3. ExpectedScreen # NoiseScreen \/ presence_state.state = IDLE
    BY ScreenFields, EmptyScreens DEF ExpectedScreen, IInv, Core, Coherent
  <2>4. NoiseOnlyIdle'
    BY <1>6, <2>2, <2>3
       DEF Flush, NoiseOnlyIdle, memory, NoiseScreen, Screen
  <2>5. Clauses(t, "give")'
    BY <2>4 DEF Clauses
  <2> QED BY <1>6, <2>1, <2>5, RInvByHolder DEF Flush
<1> QED BY <1>1, <1>2, <1>3, <1>4, <1>5, <1>6, GiveMutexKeeps DEF Locked, Body

LEMMA RInvInvariant == Spec => []RInv
<1>1. Init => RInv
  BY DEF Init, RInv, NoiseOnlyIdle, presence_state_init
<1>2. IInv /\ RInv /\ [Next]_vars => RInv'
  <2> SUFFICES ASSUME IInv, RInv, [Next]_vars PROVE RInv'
    OBVIOUS
  <2>1. CASE \E t \in Tasks : \E c \in Calls(t) : Enter(t, c)
    BY <2>1, EnterKeeps
  <2>2. CASE \E t \in Tasks : TakeMutex(t) \/ Locked(t)
    BY <2>2, TakeMutexKeeps, LockedKeeps
  <2>3. CASE Tick \/ UNCHANGED vars
    BY <2>3, RInvKept DEF Tick, vars, RInv, memory, display
  <2> QED BY <2>1, <2>2, <2>3 DEF Next
<1> QED BY <1>1, <1>2, Invariance, PTL DEF Spec

-----------------------------------------------------------------------------
(* The theorems *)

(* Every line of a message is on one of its pages, and no page is empty.   *)
LEMMA PagesCoverLines ==
  ASSUME NEW n \in 1 .. PRESENCE_MAX_BODY_LINES
  PROVE  /\ \A p \in 0 .. PagesOf(n) - 1 : LinesOfPage(p, n) # {}
         /\ UNION {LinesOfPage(p, n) : p \in 0 .. PagesOf(n) - 1} = 0 .. n - 1
<1> USE DEF LinesOfPage, PagesOf, PRESENCE_BODY_LINES_PER_PAGE,
            PRESENCE_MAX_BODY_LINES
<1>1. ASSUME NEW p \in 0 .. PagesOf(n) - 1
      PROVE  3 * p \in LinesOfPage(p, n)
  BY <1>1
<1>2. ASSUME NEW p \in 0 .. PagesOf(n) - 1, NEW i \in LinesOfPage(p, n)
      PROVE  i \in 0 .. n - 1
  BY <1>2
<1>3. ASSUME NEW i \in 0 .. n - 1
      PROVE  i \div 3 \in 0 .. PagesOf(n) - 1 /\ i \in LinesOfPage(i \div 3, n)
  BY <1>3
<1> HIDE DEF LinesOfPage, PagesOf
<1> QED BY <1>1, <1>2, <1>3

(* A message on the panel can be read to its end by turning pages          *)
(* (presence.c:67-76,112-119).                                             *)
THEOREM LinesInReach == Spec => []NoLineOutOfReach
<1>1. Init => Proper(panel)
  BY EmptyScreens DEF Init, Proper
<1>2. IInv /\ Proper(panel) /\ [Next]_vars => Proper(panel)'
  BY PanelSteps, ExpectedProper DEF Proper
<1>3. Proper(panel) => NoLineOutOfReach
  <2> SUFFICES ASSUME Proper(panel), panel.text \in Messages
               PROVE  /\ panel.page < panel.of
                      /\ panel.lines # {}
                      /\ UNION {LinesOfPage(p, LineCount[panel.text]) :
                                  p \in 0 .. panel.of - 1}
                           = 0 .. LineCount[panel.text] - 1
    BY DEF NoLineOutOfReach
  <2>1. LineCount[panel.text] \in 1 .. PRESENCE_MAX_BODY_LINES
    BY PresenceAssumption DEF PresenceAssumption
  <2>2. panel.of \in Nat
    BY <2>1, PageCounts, Constants DEF Proper
  <2> QED BY <2>1, <2>2, PagesCoverLines DEF Proper
<1> QED BY <1>1, <1>2, <1>3, Invariance, PTL DEF Spec

(* What a flush means to the person: one step of Notification, or none     *)
LEMMA FlushRefines ==
  ASSUME IInv, RInv, Proper(panel), NEW t \in Tasks, Flush(t),
         panel' = ExpectedScreen
  PROVE  [Promise!Next]_<<IF panel.text \in Messages
                            THEN panel.text ELSE NoMessage, panel.page>>
<1> DEFINE shown(screen) == IF screen.text \in Messages
                              THEN screen.text ELSE NoMessage
<1>1. pc[t] = "flush" /\ call[t] \in Calls(t)
  BY DEF Flush, IInv, Core, CallsTyped
<1>2. CASE call[t].op = "show_message"
  <2>1. /\ presence_state.state # IDLE /\ presence_current_page = 0
        /\ presence_text \in Messages
    BY <1>1, <1>2 DEF RInv, IInv, Core, Coherent
  <2>2. shown(panel') = presence_text /\ panel'.page = 0
    BY <2>1, ScreenFields DEF ExpectedScreen, IInv, Core, Coherent
  <2>3. Promise!Arrive(presence_text)
    BY <2>2 DEF Promise!Arrive
  <2> QED BY <2>1, <2>3 DEF Promise!Next
<1>3. CASE call[t].op = "next_page"
  <2>1. Follows /\ presence_text \in Messages
    BY <1>1, <1>3 DEF RInv, IInv, Core, Coherent, Follows
  <2>2. /\ panel'.text = presence_text
        /\ panel'.page = presence_current_page
    BY <2>1, ScreenFields DEF ExpectedScreen, IInv, Core, Coherent, Follows
  <2>3. shown(panel) = presence_text /\ shown(panel') = presence_text
    BY <2>1, <2>2 DEF Follows
  <2>4. presence_page_count = PagesOf(LineCount[presence_text])
    BY <2>1 DEF IInv, Core, Coherent, Follows
  <2>5. CASE presence_current_page = panel.page
    BY <2>2, <2>3, <2>5
  <2>6. CASE /\ presence_current_page = panel.page + 1
             /\ panel.page + 1 < presence_page_count
    <3>1. Promise!TurnPage
      BY <2>1, <2>2, <2>3, <2>4, <2>6, EmptyScreens DEF Promise!TurnPage
    <3> QED BY <3>1 DEF Promise!Next
  <2> QED BY <2>1, <2>5, <2>6 DEF Follows
<1>4. CASE call[t].op \in {"acknowledge", "update"}
  <2>1. panel' = Blank
    BY <1>1, <1>4 DEF RInv, ExpectedScreen
  <2>2. Promise!Dismiss
    BY <2>1, EmptyScreens DEF Promise!Dismiss
  <2> QED BY <2>2 DEF Promise!Next
<1> QED BY <1>1, <1>2, <1>3, <1>4 DEF Calls, Tasks

(***************************************************************************)
(* The panel implements Notification: README.md:66 in terms of screens, for *)
(* the device of presence.c:85-167.                                         *)
(***************************************************************************)
THEOREM PromiseKept == Spec => KeepsPromise
<1>1. Init => Promise!Init
  BY EmptyScreens DEF Init, Promise!Init
<1>2. IInv /\ RInv /\ Proper(panel) /\ [Next]_vars
        => [Promise!Next]_<<IF panel.text \in Messages
                              THEN panel.text ELSE NoMessage, panel.page>>
  BY PanelSteps, FlushRefines
<1>3. Init => Proper(panel)
  BY EmptyScreens DEF Init, Proper
<1>4. IInv /\ Proper(panel) /\ [Next]_vars => Proper(panel)'
  BY PanelSteps, ExpectedProper DEF Proper
<1> QED BY <1>1, <1>2, <1>3, <1>4, Invariance, RInvInvariant, PTL
        DEF Spec, KeepsPromise, Promise!Spec
=============================================================================
