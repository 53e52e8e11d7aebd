# Agent Presence Device: specifications and proofs

The firmware in `src/main` runs on an ESP32-S3: it accepts `POST /message`,
shows the notification on a 128x64 SH1106 panel, lets a person page through it
or dismiss it with one button, and forgets it ten seconds after the last press.
About 1,150 lines of C, two FreeRTOS tasks that matter, two cores, a tick of
10 ms (`build/config/sdkconfig.h`: `CONFIG_FREERTOS_HZ 100`,
`CONFIG_FREERTOS_NUMBER_OF_CORES 2`). The repository also holds the source of
the two components it is built with, `managed_components/espressif__mdns`
(about 12,000 lines with their headers) and `managed_components/espressif__cjson`;
their cores are modelled too, as the code they are, not as this program's use of
them.

This directory holds TLA+ modules for it, TLC configurations that check them on
small instances, and theorems about them checked by TLAPS for every value of the
constants. Paths below are relative to `src/main` unless they begin otherwise.

- [Components](#1-components)
- [Modules](#2-modules)
- [Runs](#3-runs-and-their-bounds)
- [Fairness](#4-fairness)
- [Proofs](#5-proofs)
- [Where documents and code disagree](#6-where-the-code-and-what-is-said-of-it-disagree)
- [What is left out](#7-what-is-not-modelled-and-why)
- [Plan](#8-plan)

## 1. Components

### Notification state (`presence_state.c`)

*State*: `state` (IDLE, UNREAD, READING), `current_page`, `page_count`.
*Operations*: init, message, short press, long press, timeout, is_reading.
*Interaction*: only `presence.c` calls it, with its mutex held.
*Correct when*: the page stays below the count; a short press moves forward
only, and never wraps; only READING times out.

### Presence (`presence.c`)

*State*: the model above, `presence_deadline`, drawing copies of page and page
count, the lines, and three text buffers; all under `presence_mutex`.
*Operations*: `presence_show_message` (HTTP server task), `presence_update`,
`presence_next_page`, `presence_acknowledge` (main task); each of them takes the
mutex with `portMAX_DELAY`, changes the statics, redraws the framebuffer,
flushes it over SPI and gives the mutex back.
*Hard*: two tasks on two cores; the display is a second copy of the state,
changed later than the state; a 32-bit tick counter compared by a signed
difference; a redraw for a notification that has been replaced meanwhile.
*Correct when*: the panel shows the state whenever no call is at work; every
line can be reached; the timeout is exact across a wrap of the counter; a call
never keeps the mutex.

### Body layout (`presence_layout.c`, and `copy_bounded` of `presence.c`)

*State*: the copy of the body, the array of lines, and the four locals of the
loop (`position`, `line_start`, `line_length`, `last_space`).
*Operation*: `presence_layout_body`, called by `presence_show_message`.
*Hard*: `position` moves *back* when a line is broken at a space; sequences of
several bytes at the edge of a row; malformed sequences; a fixed array of lines;
lines are later copied to a buffer of 22 bytes on the strength of their length.
*Correct when*: lines are in order, in the body and not too long; only blanks
are dropped; characters and words stay whole; the loop ends.

### Main loop and button (`agent-presence-device.c:38-64`, `button.c`)

*State*: `was_pressed`, `press_started`, and where the loop sleeps.
*Operations*: one turn: update, sample, debounce by a second sample 30 ms later,
act on the edge, sleep 20 ms.
*Hard*: contact bounce against two samples; presses measured by when the loop
looked; ticks wrap; calls that wait for the mutex delay the samples.
*Correct when*: one press is acted upon once, as the press it was, in the end.

### Start-up and reboot (`agent-presence-device.c:25-36`, every `ESP_ERROR_CHECK`)

*State*: how far `app_main` has got. *Hard*: the server accepts messages before
the start-up sequence ends; a failed check in any task reboots the chip, which
loses RAM and leaves the panel's own memory as it is.
*Correct when*: nothing of a boot is left on the panel once the loop runs.

### HTTP server (`http_server.c`, `message_handler.c`, `agent_message.h`)

*State*: none between requests; a 512-byte buffer and a cJSON tree during one.
*Operations*: `http_server_start`, `message_post_handler` with `parse_level`.
*Hard*: a body in pieces; a client that stalls keeps the one server task; the
notification is shown before the client is answered, so one that loses the
answer posts again; refusals on six paths, some of which own the tree.
*Correct when*: what is shown is a whole valid notification of its client, an
answer is true, no tree is left, and a whole request is answered.

### OLED driver (`oled.c`)

*State*: `oled_buffer`, the level of the DC pin; in the SH1106, page and column
pointers, a command half given, and its RAM.
*Operations*: init with reset and 24 command bytes, clear, draw character and
text, set pixel, flush of eight pages, turn_off.
*Hard*: a flush is 32 transactions, any of which may fail: then the program
restarts and the chip does not. Drawing near the right edge of a row.
*Correct when*: a flush makes the panel show the framebuffer, wherever an
earlier one broke off; drawing stays in its row.

### Wi-Fi connection (`wifi_connection.c`, and `mdns_netif.c`, which it starts)

*State*: `mdns_started`; of mDNS: registered handlers, the state of the
interface, actions posted to its service task, the semaphore a caller waits on.
*Operations*: `wifi_connect`, `wifi_event_handler` for STA_START,
STA_DISCONNECTED, GOT_IP; `mdns_priv_netif_init`, `handle_system_event_for_preset`.
*Hard*: nothing but events drives it; mDNS is started from inside the event
task, which then waits for a task that handles what the event task posts; the
address goes and comes meanwhile.
*Correct when*: it is always about to try again, mDNS starts once, fails and
reboots the device only when packets alone have filled the action queue
(section 6), and has every interface that has an address.

### mDNS transmission (`mdns_send.c:1628-1854`, `mdns_service.c`)

*State*: the transmit queue in order of time, the action queue, where timer and
service task are. *Operations*: schedule, clear, the timer, the service task.
*Hard*: actions are queued without the lock under which they were decided, and
name packets by their memory. *Correct when*: a due packet is sent, in order.

### mDNS responder (`mdns_pcb.c`, `mdns_responder.c`, parts of `mdns_send.c` and `mdns_receive.c`)

*State*: host name, default instance name, services, and on each interface a
state (off, duplicate, probing, announcing, running), what it probes for and the
packets that wait. *Operations*: enable, disable, duplicates, announce; set host
and instance name; add, rename, change, remove services; a packet sent; a
question answered; three kinds of conflict.
*Hard*: all of these come at any moment of a probing or announcing that goes on.
*Correct when*: it answers only for names it has asked for three times.

### mDNS querier (`mdns_querier.c`)

*State*: the chain of searches, the action queue, callers that wait.
*Operations*: `mdns_query`, `_async_new`, `_async_delete`, the timer, the end of
a search, received records. *Hard*: actions name searches by their memory; a
full queue; records in any order. *Correct when*: nobody waits for ever, no
freed search is in the chain, results are true of what was heard.

### mDNS browser and cache (`mdns_browser.c`, `mdns_cache.c`)

*State*: browses, and what has been heard of services, under their hosts.
*Hard*: PTR, SRV, TXT and addresses in any order, services that change hosts,
entries that go with their last use. *Correct when*: who browses was last told
what the cache has.

### cJSON (`cJSON.c`) and its pointers and patches (`cJSON_Utils.c`)

*State*: items linked by `next`, `prev` and `child`, where the `prev` of a first
item is the last one; flags for references and constant keys; buffers.
*Operations*: create, add, detach, insert, replace, duplicate, compare, delete;
parse; print into a growing, given or small buffer; find pointers; generate and
apply patches and merge patches. *Hard*: the prev pointer every append trusts;
who frees what; room counted before it is filled; failures half-way; escapes at
the end of a literal. *Correct when*: lists are the ones asked for, each item has
one owner, texts are accepted exactly by the grammar, printed whole, read back,
and a generated patch leads from the one document to the other.

### Not modelled

Font (tables), host tests (straight-line assertions, read as statements about
the code), build files and what is generated, and of mDNS the console, sockets,
debugging output and allocation wrappers.

How they interact:

    clients --> HTTP server task --presence_show_message--.
                                                          v
    button --> main task --update/next_page/acknowledge--> presence.c (mutex)
                                                             |  layout, state
                                                             v
                                                framebuffer --SPI--> panel

    Wi-Fi driver, DHCP --events--> event task: wifi_event_handler, mdns_netif
                                        |  starts mDNS, posts actions
                                        v
    mDNS timer, lwIP --actions--> action queue --> mDNS service task:
                         responder, querier, browser and cache, transmission

`PROJECT.json` lists for each hazard of this code the line where it bites and
the properties that watch it.

## 2. Modules

| module | code | what it is |
|---|---|---|
| `PresenceState` | `presence_state.c` | the record and its operations, as operators |
| `Presence` | `presence.c`, calls of `oled.c` | the four calls, in stages, by two tasks, with a tick interrupt |
| `Notification` | `src/README.md:66`, `presence.h` | abstract: what a person sees; no tasks, no time, no buffers |
| `PresenceLayout` | `presence_layout.c`, `presence.c:29-50` | copy and wrap, one action per turn of the loop |
| `MainLoop` | `agent-presence-device.c:38-64`, `button.c` | the loop against a bouncing contact and a late scheduler |
| `Device` | `agent-presence-device.c:25-64`, `http_server.c:108-115` | boot and reboot; composes `Presence` and `MainLoop` |
| `HttpServer` | `http_server.c` | the handler against clients that send in pieces, stall, leave and post again |
| `Oled` | `oled.c` | the driver byte by byte on the bus, and the chip it drives |
| `Wifi` | `wifi_connection.c`, `mdns_netif.c`, `mdns_responder.c` (start) | connecting, and the start of mDNS, against driver and DHCP |
| `MdnsTx` | `mdns_send.c`, `mdns_service.c` | transmit queue, timer, action queue, service task |
| `MdnsResponder` | `mdns_pcb.c`, `mdns_responder.c`, `mdns_send.c`, `mdns_receive.c` | probing, announcing, answering, under changes and conflicts |
| `MdnsQuerier` | `mdns_querier.c` | searches, their timer, queue and callers |
| `MdnsResults` | `mdns_querier.c`, `mdns_receive.c` | which result a record goes to |
| `MdnsBrowse` | `mdns_browser.c`, `mdns_cache.c`, `mdns_receive.c` | browses, cache, notifiers |
| `CJsonHeap` | `cJSON.c` | items and lists: operators from heap to heap |
| `CJsonTree` | `cJSON.c` | a client that builds, edits, copies and deletes trees |
| `CJsonString` | `cJSON.c:666-1073` | strings, written and read |
| `CJsonParse` | `cJSON.c:1090-1777` | the parser, on tokens |
| `CJsonPrint` | `cJSON.c:476-586,1239-1896` | the printer and its buffer |
| `CJsonUtils` | `cJSON_Utils.c` | pointers, patches, merge patches |
| `Serving` | `http_server.c` | `HttpServer` as a part of a composition: its constants, assumptions, promises |
| `Tasks` | the above, and `wifi_connection.c`, `mdns_*.c` | composes `HttpServer`, `Wifi`, `MdnsQuerier`, `MdnsTx` |
| `Parts` | `oled.c`, `mdns_pcb.c`, `mdns_responder.c`, `mdns_querier.c`, `mdns_browser.c`, `mdns_cache.c`, `cJSON.c:666-1073`, and the above | composes `HttpServer`, `Oled`, `MdnsResponder`, `MdnsResults`, `MdnsBrowse`, `CJsonString` |
| `PresenceProofs`, `LayoutProofs`, `MainLoopProofs`, `DeviceProofs`, `PartsProofs`, `ResponderProofs`, `TasksProofs`, `StringProofs` | | invariants and theorems, section 5 |
| `MCTasks`, `MCParts` | | compositions for TLC, see below |
| other `MC...` | | instances for TLC |

A definition called `X_MutY` is the definition `X` with one plausible slip in
it; no specification uses it. Each property has such a slip that breaks it, so
that no property holds by the shape of the model alone.

### Presence

A call is a walk through `Stages`: `take` (wait for the mutex), `body` (all the
changes of the statics: one atomic step, since nobody reads them without the
mutex), `draw` or `clear` (framebuffer), `flush` (panel), `give`. The stages are
separate steps on purpose: a tick, or a step of the other task, falls between
any two, and the claim that the mutex makes this harmless is checked rather than
assumed: with a take that does not wait (`TakeMutex_MutNoWait`) the panel
and the state part.

A screen is abstracted to `[text, page, of, lines]`: whose text, which page of
how many, which lines of the body. Texts are model values; the number of lines a
text wraps to is the constant `LineCount`, what `PresenceLayout` is about.
`Noise` is what a panel shows whose memory was never written.
`quiet` is a history variable: ticks since the last accepted press, the
measure against which the modular arithmetic of the deadline is judged.

`Notification` is the promise: a notification appears on its first page, turns
forward one page at a time, does not wrap, goes away as a whole, and never
becomes a page of another one. `KeepsPromise` says that `Presence` implements it
for the panel (not for the state: the difference is the point).

### PresenceLayout

A text is a sequence of kinds of bytes: newline, space (or tab), a byte that
stands alone, three kinds of leading bytes, a continuation. That is all that
`utf8_sequence_length` and the loop tell apart. Positions count from 0 and a NUL
follows the last byte, as in C, so `ByteAt` stops exactly where the short-circuit
evaluation of the code does. The two steps before the loop are those of
`copy_bounded`.

### MainLoop

`At(p)` is a program point at which no `vTaskDelay` holds the task. Ticks pass
while the task sleeps, or for up to `MaxLag` ticks at each point where it waits
for its turn or for a presence call. A contact reads either level for
`BounceTime` ticks after it moved. The person leaves `MinDwell` ticks between two
moves and lets go after `MaxHold`. The histories `hold` (true length of the
press) and `owed` (releases not acted upon) say what the loop cannot know.

### Device

`INSTANCE Presence` and `INSTANCE MainLoop` over one state: the loop's request
is the main task's call, and the loop does not go on before the call is out.
The boot is the sequence of calls of `app_main`; the server may post from
`http_server_start` on. `Panic` is a failed `ESP_ERROR_CHECK`: RAM is reset,
`panel` keeps what it showed, or a torn picture if a flush was under way.

### HttpServer

One server task serves one connection at a time (`serving`); `stage` is where
`message_post_handler` is between two calls that may block or free something.
A request is what its bytes turn out to be: how many pieces, with how many of
them it first parses, whether its strings are there, its level. `json` counts
trees made and not deleted. A client that has no answer may leave and post the
same again; so a notification may be shown twice, and `RepeatsAreRetries` says
that this is the only way.

### Oled

A behaviour draws, flushes, initialises and fails at any transfer. `chip` has the
pointers, the command in progress, what the init sequence has configured and
whether it is on; `ram` is what it shows, `Noise` before it is written. `at` is
where the driver is, one byte on the bus a step. `FlushCopies` is what `Presence`
assumes of a flush.

### Wifi and the mDNS modules

The event task runs handlers one after the other; `handler` is where the start
of mDNS has got, "wait" being the semaphore. `MdnsTx` is about when a packet is
sent and by which action; `MdnsResponder` about what is in it, with any waiting
packet next. `MdnsQuerier` is about the life of a search, `MdnsResults` about
what it collects. In `MdnsResponder`, `MdnsResults` and `MdnsBrowse` a step is
what the code does under one hold of the service lock, as an operator from the
old record to the new one.

`MdnsResponder` keeps histories in each interface's record: for each name how
often it has been asked for since it was taken (`claimed`), what listeners have
been told (`told`). Names are members of small sets; a conflict may rename
`MaxRenames` times (appending or counting up a number is left out: what counts
is that the old name is given up and the new one is probed for).

### cJSON

`CJsonHeap` has the items as a function from nodes to records, with the pointers
of the code, so that a list is only what `next` and `prev` say it is.
`CJsonTree` drives it as `cJSON.h` asks clients to, and keeps what was asked for
(`kids`) beside it. Strings are sequences of bytes, and their loops, unlike those
of the other cJSON modules, are recursive functions of the turns taken, so that
they can be proved about. The parser sees tokens; the printer a buffer of
characters with its length, in which a number is its width.
`CJsonUtils` runs the same heap with names that are sequences of characters.

### Serving, Tasks, MCTasks and MCParts

Parts that share no state are checked side by side: a behaviour picks a `part`
and only that one acts; the others rest in one fixed state. It is the disjoint union of the parts' state graphs,
so each property of a part is checked on all of its behaviours and on nothing
else. `Tasks` composes the parts with liveness and is written with constants, so
that theorems can be stated of it; `MCTasks` gives it clients, callers and
packets. `Parts` has the parts that need no fairness as instances, with their
assumptions and properties; `MCParts` gives them clients, a display, searches,
browses, services, interfaces and pieces of text, lets them act, restricted as
section 3 says, and adds the parts that no theorem is about, cJSON's recursive
ones among them. `Serving` is what both say of the server.

## 3. Runs and their bounds

| run | configuration | shows |
|---|---|---|
| `presence` | `MCPresence.cfg` | panel and state agree, pages reach every line, the timeout is exact, the panel implements `Notification`, each call returns |
| `main_loop` | `MCMainLoop.cfg` | one press, one call; classified as the press it was; every release acted upon |
| `device` | `MCDevice.cfg` | across a reboot, nothing of the boot stays on the panel; posting clients do not starve the button |
| `device_session` | `MCDeviceSession.cfg` | a session left alone ends in time, whatever is posted and however the loop is kept waiting |
| `device_boot`, `device_seen` | `MCDeviceBoot.cfg`, `MCDeviceSeen.cfg` | violations: section 6 |
| `layout` | `MCPresenceLayout.cfg` | lines in order, nothing lost, words and characters whole, progress, an end |
| `layout_prefix` | `MCLayoutPrefix.cfg` | violation: section 6 |
| `tasks` | `MCTasks.cfg` | HTTP handler, Wi-Fi and the start of mDNS, searches, transmission: what they keep, and that whoever waits is served |
| `parts` | `MCParts.cfg` | notifications posted, display, responder, browses, results, and cJSON's trees, strings, parser, printer, patches |
| `mdns_tx_full` | `MCMdnsTxFull.cfg` | violation: section 6 |
| `json_patch` | `MCJsonPatch.cfg` | violation: section 6 |

Each property of `tasks` and `parts` is the conjunction of what one module says
of one hazard; its comment names the module and the code.

The bounds, and why they are enough:

- *presence*: a message of one page and one of three with a short last page: a
  first page, a middle one, a last one, and a page that cannot be turned. The
  counter has 16 values and the timeout is 3, so deadlines are set before and
  tested after a wrap, and the difference takes every sign. `PollBound` is the
  one limit on time: the main task reaches its test within 2^31 ticks (248 days)
  of the deadline. `SessionEndsInTime` shows, for the composed system, that it
  gets there within the debounce and the sleep of the loop. Posting, pressing
  and time are otherwise unbounded. All of it is proved for any constants, save
  that calls return.
- *main_loop*: the delays of the device, 30 and 20 ms, 3 and 2 ticks, with a
  shorter threshold (24 ticks for 100) and a shorter counter, chosen so that
  `MinDwell < LongPress - JitterBound` and `LongPress + JitterBound < MaxHold`:
  there are short presses, long ones and ones in doubt, and the counter wraps
  within a press. `MinDwell` is the assumption on the person: two moves are
  further apart than bounce, sleep, debounce and lag. `BounceTime` is no more
  than the debounce delay, so the second sample sees a contact at rest if the
  first one did not. `JitterBound` is tight: with one tick less TLC refutes
  `ClassifiedByHold`.
- *device*: one two-page report, one reboot, and a person who presses;
  `BounceTime = 0` and `MaxLag = 0`: what bounce and lag do to the loop is the
  subject of *main_loop*, and lag of *device_session* too.
- *device_session*: every wait of the loop, for its turn or for a presence call
  with its mutex and its flush (about 10 ms at 1 MHz, a tick), takes up to
  `MaxLag = 1` tick; `MinDwell = 8` is the least with which the loop misses no
  press under that lag. One notification of one page: pages do not matter to
  when a session ends. `SessionBound` is tight, and `PollBound` is above it, so
  the guard of `Tick` hides no violation.
- *layout*: rows of 4 bytes; every text of up to 6 bytes of any kind, and of up
  to 9 of words, spaces and newlines, the last one byte more than fits, so the
  copy cuts. There are a first, a middle and a last line, a word longer than a
  row, a sequence over the edge of a row, runs of blanks at each place. A row
  must hold the longest sequence (`PRESENCE_LINE_CHARS >= 4`; it is 21).
- *tasks, server*: two clients with one post each: of one it is a notification in
  two pieces, of the other that or anything the handler refuses. *parts, server*:
  two posts each, so retries pass one another; the first client's notification is
  in one piece there. Safety is proved for any clients, posts and pieces.
- *tasks, station*: up to `MaxEvents = 3` events wait: a connection can be lost
  and made again inside every step of the start of mDNS. The queue has 4 places
  (16 on the device) and packets come in without limit, so it is full at every
  moment it can be, of packets alone or with actions among them. Proved for any
  numbers (`StationStays`).
- *tasks, searches*: two callers, memory for two searches, a queue of two, so
  that memory is reused and the queue is full; a timeout of 1 and one packet.
  `ChainIsLive` is proved for any number of each.
- *tasks, queue*: two packets, each sent up to twice, memory reused, six places
  in the action queue, which then never fills (the full queue is the subject of
  *mdns_tx_full*), three ticks of a clock that does not wrap (section 6). That
  the queue never fills is the hypothesis (`RoomForTimer`) under which
  `HandledInOrder` is proved for any number of packets, sends and ticks.
- *display*: two pages of two columns and a glyph of one; the chip's RAM is
  wider than the panel by an offset on each side, as on the device; one restart.
- *responder*: one interface with two services, and two interfaces with the host
  alone; one packet waiting beside the probe or announcement, one renaming.
- *browses*: two browses of one type, so that one may start while the other is
  ending; two instances, one of them on either of two hosts, so that hosts are
  shared, changed and left; packets of one record, or of two about one instance
  and one host; times to live of 0, 1 and, for a PTR, another one. Proved for
  packets of any records in any number.
- *results*: two searches on the chain in four combinations of types, with and
  without a limit; two instances, two hosts; records without end.
- *items*: three nodes, two names that differ by case; all sequences of calls,
  with a name that cannot be copied at any place of a tree.
- *strings*: up to three of twenty pieces at the limits of lengths and surrogates.
  Proved for pieces of any bytes but 0 in any number, save what a literal means.
- *parser*: up to five tokens, nesting of two, memory for two or three pieces (an
  item is one, its string and its name are others) or for all.
- *printer*: trees of up to two members a level, and one level deeper than
  allowed; buffers about as long as their texts; 0, 1 or 9 reallocations.
- *patching*: eight documents, all pairs, in both cases; names that need escapes.
- Deadlock is checked in `presence`, `main_loop`, `device` and `device_session`.
  The layout stops when the body is laid out; parts stop when their clients have
  nothing more to ask.

## 4. Fairness

- `Presence!Fairness`: a task inside the mutex runs on (weak): its stages do not
  block. A waiting task gets the mutex if it is free again and again (strong):
  FreeRTOS hands a mutex to the longest waiting task of the highest priority,
  and the server task blocks on its sockets between two requests, whatever its
  priority. Nobody is obliged to call.
- `MainLoop!Fairness`: a task that is ready gets to run, the tick interrupt
  ticks, a thumb goes up. Nobody is obliged to press.
- `Device!Fairness`: both, and the five initialisations return: `wifi_connect`
  registers handlers and starts the driver, it does not wait for a network.
- `Tasks!Fairness`, each part's own while it acts. *Server*: the handler runs
  on, and returns from `httpd_req_recv` when data or an error is there (its
  socket has a timeout, so a client that stalls is given up); the server takes a
  waiting connection. *Station*: the event task runs its handler and the service
  task executes; nobody owes a connection. *Searches*: the timer is periodic, the
  service task serves its queue, time passes, a woken caller returns. *Queue*:
  timer, receiving, executing, time. All weak, also where a module's own
  `FairSpec` takes strong fairness (`Accept`, `Service`).
- `PresenceLayout!FairSpec`: the loop of one task runs on. That it ends does not
  follow from that; it is checked (`Terminates`), and each turn is proved to
  move on (`EveryTurnMovesOn`).

## 5. Proofs

| theorem | states | for every |
|---|---|---|
| `PresenceProofs!Invariance` | `Spec => []IInv`, the strengthening | set of messages, line counts, tick range, timeout |
| `TypeCorrect`, `PanelShowsState`, `LinesInReach` | the invariants of run `presence` | likewise |
| `MutualExclusion` | two tasks are never inside | likewise |
| `TimeoutIsExact` | `Spec => TimeoutExact` | likewise |
| `PromiseKept` | `Spec => KeepsPromise`, the refinement | likewise |
| `LayoutProofs!LayoutInvariance` | `Spec => []LInv` | row width, body size, set of texts |
| `LayoutTypes`, `InOrder`, `NothingIsLost`, `NoCharacterSplit`, `NoWordSplit` | the invariants of run `layout` | likewise |
| `EveryTurnMovesOn` | `Spec => MovesOn` | likewise |
| `MainLoopProofs!LoopInvariance` | the inductive invariant | delays, threshold, bounce, dwell, lag, tick range |
| `LoopTypes`, `EachPressOnce`, `HoldDecides` | the invariants of run `main_loop` | likewise |
| `DeviceProofs!DeviceInvariance` | the inductive invariant | all of the above, number of reboots |
| `DeviceTypes`, `BootLeavesNothing`, `SessionsEnd` | the invariants of runs `device`, `device_session` | likewise |
| `PartsProofs!ServerInvariance` | the inductive invariant of `HttpServer` | clients, posts, requests, pieces |
| `WhatIsShown`, `ServerTypes` | `Server!Spec => []ShownAsAsked`, `[]TypeOK` | likewise |
| `PartsProofs!DisplayInvariance` | the inductive invariant of `Oled` | width, offset, height up to eight pages, glyphs, restarts |
| `FlushShows` | `Display!Spec => PanelShows` | likewise |
| `PartsProofs!AnswersInvariance` | the inductive invariant of `MdnsResults` | searches on the chain, limits, instances, hosts, ports, texts, addresses |
| `ResultsAreTrue`, `ListsAreBounded` | `Answers!Spec => []ResultsTrue`, `[]TypeOK` | likewise |
| `PartsProofs!BrowseInvariance` | the inductive invariant of `MdnsBrowse` | browses, instances, types, hosts, addresses, texts, times to live, packets of any length, length of the queue |
| `BrowsesToldWhatIsCached`, `BrowseTypes` | `Browsing!Spec => []ToldIsCached`, `[]TypeOK` | likewise |
| `ResponderProofs!ResponderInvariance` | the inductive invariant of `MdnsResponder` | services, how many at once, renamings, packets waiting, one or two interfaces |
| `AnswersOnlyForItsOwn`, `ResponderTypes` | `Responder!Spec => []AnswersForItsOwn`, `[]TypeOK` | likewise |
| `StringProofs!RoomIsMade`, `CutsAreRefused` | what is read from a literal fits the room counted for it; a literal cut before its closing quote is refused | literal of any bytes but 0, of any length, well-formed or not |
| `PrintedIsRead` | a string reads back from what is printed for it, whose length is the counted one | string of any bytes but 0, of any length |
| `StringsReadBackAlways` | `Strings!Spec => []StringsReadBack` | set of pieces of such bytes, bound on their number |
| `TasksProofs!StationInvariance` | the inductive invariant of `Wifi` | events waiting, packets, length of the queue |
| `StationStays` | `Spec => []NetworkKept` | likewise |
| `TasksProofs!QueueInvariance` | the order of the transmit queue | packets, sends, delays, length of the action queue |
| `TurnsAreKept`, `HandledAsDue` | `Spec /\ []RoomForTimer => []HandledInOrder` | likewise |
| `TasksProofs!SearchInvariance` | the inductive invariant of `MdnsQuerier` | callers, addresses, searches, packets, queue, timeout |
| `ChainStaysLive` | `Spec => []ChainIsLive` | likewise |
| `TasksTypes` | `Spec => []TypeOK`, of all four parts of `Tasks` | all of these |

So every invariant of the runs `presence`, `main_loop`, `device`,
`device_session`, `layout` and `tasks` is proved, and of `parts` those about the
server, the display, the responder, the results of searches, the browses and the
strings of cJSON.

The assumptions, all named, each evaluated by TLC in a passing run:

- `PresenceAssumption`: each message wraps to 1 .. 512 lines (the layout returns
  no more, `PRESENCE_MAX_BODY_LINES`); the timeout is at most half the tick range.
- `LayoutAssumption`: a row holds at least four bytes; `SIZE_MAX` is no position.
- `MainLoopAssumption`, `ThumbAssumption`: delays are positive; the contact comes
  to rest within the debounce delay; two moves of the thumb are further apart
  than bounce, sleep, debounce and lag; no press is as long as the counter's
  range. They are about the person and the contact; without them the properties
  are false, as they should be: a press shorter than a debounce is not seen.
- `DeviceAssumption`: the three above.
- `ServerAssumption`: requests are requests, and nobody is not a connection.
- `StationAssumption`: the length of the action queue and the bound on the events
  that wait are natural numbers.
- `SearchAssumption`: nothing is allocated at the null pointer.
- `DisplayAssumption`: the panel's pages are among the eight the chip has
  commands for, and the glyphs and restarts are counted by naturals.
- `AnswersAssumption`: the null pointer is no name, host or port, and a limit is a
  natural number.
- `BrowsingAssumption`: packets are sequences of records, and the length of the
  action queue is a natural number.
- `ResponderAssumption`: the host is not one of the services, `MaxOffered`, the code's
  `MDNS_MAX_SERVICES`, is a natural number, and there are at most two interfaces,
  the Wi-Fi station and the Ethernet (`mdns_netif.c:319-335`).
- `StringsAssumption`: a string ends where a byte is 0, so no piece of one has it.
- `QueueAssumption`: within a behaviour the 32-bit millisecond clock does not
  wrap and nothing is scheduled half its range away; where the clock starts is
  free. Across the wrap the code itself disagrees (section 6).

**Presence.** `PanelMatchesState` is not inductive: it says nothing while a call
is at work. `IInv` says what each stage has done: the mutex is held by the task
that is inside (`MutexHeld`); the copies agree with the model and a held
notification has its own line count (`Coherent`); the panel is settled before
the framebuffer is changed, and the framebuffer is as expected before it is
flushed. A stage of one task leaves the claims about the other alone,
because the other is outside (`OthersOutside`, `InsideKept`). For the timeout,
`DeadlineKept` equates the modular difference the code tests with the true time
since the last press; `DifferenceGrows` carries it over a tick and a wrap. The
invariant is in two halves: `Core` holds whatever the panel shows, `Shown` says
what it shows, with a parameter for what may be left of a boot, so that `Device`
uses the same lemmas in states in which the boot's picture is still there.

**Refinement.** A flush is the only step that changes the panel, so it is the
only one that must map to a step of `Notification`; but what it changes depends
on what the panel showed before the state was changed. `RInv` adds that: a
redraw for a press follows the page on the panel (`Follows`), and noise is on
the panel only while nothing is held.

**Layout.** `LinesInOrder` and the others need what the loop knows of its
locals: `last_space` is a space of this very line, and NONE says that there is
none (`SpaceKnown`); each line has taken at least one byte, so the array of lines
is never the limit (`FewLines`, `LoopEndsWithBody`); line and position are at
character boundaries (`CharactersSoFar`). The five ways to end a line share one
lemma (`AppendLine`).

**Main loop.** That one press makes one call says nothing of why. The invariant
bounds, at each point of the loop, how long ago the contact can have moved
without the loop having seen it (`JitterBound` and what of it is used up there),
so that by the time the loop confirms an edge the contact is at rest and the
previous edge has been acted upon. The histories `hold` and `owed` tie the
counter's modular difference to the true length of the press.

**Device.** Instances of the two invariants, and what relates them: the request
of the loop is the call of the main task, and where the boot is. `Shown` holds
up to the clearing call with the leftover picture, and afterwards without it.
`SessionEndsInTime` is a bound on how long a session may have lasted at each
point of the loop, summed up over sleeps, debounce and waits.

**Server.** `Course` says how far each connection has come, `Handled` what the
handler knows at each stage of the request it serves, `OneAfterAnother` that a
later connection of a client means the earlier ones are over without an answer.
That repeats are paid for is then a count: the showings of a client beyond one
are fewer than its posts left unanswered (`RepeatsCounted`, over cardinalities).

**Display.** Each byte is a step, and any of them may be the last before the bus
fails. `HasRead` says by the place in the init sequence what the chip has read of
it, two-byte commands included; `SequenceRead` that a chip that is on has read it
all since its last reset. `SentSoFar` says which pages the chip's memory shares
with the framebuffer and where the chip's pointers are, which is where the
driver takes them to be: a page begins by setting them, so it does not matter
where an earlier run broke off. `TextInRow` follows one glyph after the other.

**Results.** `Truth` is what is known of one result: of which instance or host
its fields were heard, that a host comes before its addresses, and that a search
by host has only the host it asked for. `KeyOf` is what a result is found again
by, and no two results of a list share it. All ways to put a record into a list
change one result and keep its key, or add one whose key is new; `PutKeeps` is
that lemma, and the lemma of each kind of record only shows which.

**Browses.** `ToldIsCached` holds between packets only. Within one, the services
in `sync` are those whose change is yet to be told, and `ToldTrue` says it of all
the others. `Leads` is what a record may do to the cache: a service that is not
marked afterwards was there before, not marked, and *its result is the same*,
addresses of its host included; and only a goodbye takes away a PTR. So whatever
moves a service or an address without marking those it shows at breaks `Leads`.
A record prepares an entry for its service and then updates it (`Prepared`); in
between, the new service has no record yet, which is why what the cache keeps to
(`KeptBut`) is stated with an exception. `EntrySwept` is the removal of an entry
that nothing uses, `Wanted` that each service has a browse, `EndsOnce` that an end
in the queue means its browse, and not a later one in the same memory. The
records of a packet, and the addresses that wait for its end, are two loops,
handled as those of the searches are.

**Responder.** `AnswersForItsOwn` speaks of packets that wait, and what makes it
true was decided three probes earlier. `PcbInv` is an interface between two calls:
`Accounted` says that each service, and the host, is claimed there, was thrown out
of a probe by a new default instance name (`dropped`; section 6), or is being
asked for. While it probes, its queue is one packet, the `Question` about all it
believes it asks for, so nothing is announced before it has been asked for; at any
other time its packets are each a `Statement` about what it has claimed or dropped.
`SilentInv` is an interface before there is a host name. A call goes over all
interfaces and changes each by one of few operators (probe, announce, answer,
remove, rename), and there is one lemma for each of these: from `PcbInv` to `PcbInv`, with the
claims it adds or gives up. Leaving services out of what waits is a loop over the
queue that also drops packets it has emptied; `EachTurn`, the induction of the
searches, carries `Statement` through it. That a silent duplicate is covered is
about two interfaces, and false for three: when the one that is to take over
cannot be initialised, a third stays silent.

**Strings.** Two loops go over a literal: one looks for the closing quote and
counts what is skipped, which decides how much is allocated; the other reads it,
and takes an escape to be as long as it says it is. On a malformed literal they
may take different bytes for the beginning of an escape. What is written fits all
the same, because of two neighbouring bytes at most one begins an escape for the
first loop (`OneOfTwo`), so that between two places at least half of the bytes
are counted as room (`SkipsFewer` for any distance), and no turn of the second
writes more than is counted of what it moves over (`TurnFits`). A prefix is scanned as the whole is
(`ScanOfPrefix`), so a cut has no closing quote. For what has been printed,
`Layout` says where each byte of the string has gone; the first loop passes over
each of these parts without ending (`PartScanned`), and the second takes one turn
for each and gets the byte back (`PartRead`). The loops are functions of the turns
taken (`ScanLoop`, `ReadLoop`, `PrintLoop`), and `UpTo` is the induction, for a set
in place of a predicate, as in the searches below.

**Station.** `OneCall`: among the events to come there is at most one after which
the handler calls `esp_wifi_connect`, and there is one exactly when the driver is
idle. `StartedOnce`: what the action queue can hold at each stage of the start of
mDNS: before the host name has been queued, received packets and nothing else
(`OnlyPackets`), and then it alone among packets (`NameAmongPackets`), so that a
name that finds no place finds packets alone. `WillBeOn`: what the interface will be
when the queued actions are executed, which `AddressKnown` ties to the address
and the events to come.

**Transmission.** `QueueInv` is the order of the queue and holds always.
`TurnsKept` says that marked packets are a prefix of the queue whose actions come
in the same order; the last action of a packet then finds it at the head. It
needs `RoomForTimer`: the run `mdns_tx_full` is the counterexample without it, so
the hypothesis is the finding, stated as what the code takes for granted. Packets
and their actions are counted by no recursion: positions and `Ahead` suffice.

**Searches.** Actions name a search by its address, and addresses are reused.
`AddedFirst` says that an ADD comes once and after all ENDs of earlier searches
at its address; `OwnEnd` that an END that finds its address in the chain is that
search's own; `OneOwner` that what is allocated is one caller's. Timer and
service task go along the chain in loops, recursive functions in the model.
What a turn preserves, the loop preserves: `EachTurn` is the induction over the
turns, from the well-foundedness of the naturals and for a set in place of a
predicate, since the provers instantiate no theorem with an operator parameter;
`LoopDefined` shows that the recursive function has values at all.

**Together.** A part of `Tasks` that does not act keeps its initial state, so
each part's invariant is one of `Tasks`; `TasksTypes` collects their types.

The strengthenings were checked with TLC on the runs' constants before they were
proved, and several were found false in earlier versions.

Left to TLC:

- The liveness properties (`CallsReturn`, `ReleaseActedUpon`, `ReleaseServed`,
  `Terminates`, `WholeIsAnswered`, `StartEnds`, `QueryEnds`, `DueIsSent`): beyond
  this prover, which has neither ENABLED nor fairness.
- cJSON's trees and documents (`TreesWhole`, `ParsesTheGrammar`, `PrintsWhole`,
  `PatchesLead`): recursive over trees and texts, with RECURSIVE operators. What a
  literal means (`LiteralMeant`, a part of `ParsesTheGrammar`) is compared with a
  second decoder, which walks a text by characters of varying length.
- `TypeOK` of `MCParts`: proved for the server, the browses, the responder and the
  results of searches, not for the rest. The byte range of the framebuffer needs
  what dividing by powers of two does, and cJSON is recursive.

## 6. Where the code and what is said of it disagree

Each is a run that ends in the counterexample.

1. `device_boot` (`NewNotificationsStay`): `http_server_start()` comes before the
   `presence_acknowledge()` that blanks the screen. A message posted in between
   is acknowledged by nobody and gone; the README promises that new
   notifications remain visible until the user interacts with them.
2. `device_seen` (`DismissedWasSeen`): a press acts on the notification that is
   current at the release. One that arrives under the thumb is dismissed
   unseen. The same sentence of the README.
3. `layout_prefix` (`PrefixIsSafe`): `utf8_safe_prefix` strips *every* trailing
   continuation byte, of texts that fit too, and leaves the leading byte. A body
   that ends in "é" keeps half of it. (The proofs about characters are therefore
   about well-formed *copies*.)

4. `mdns_tx_full` (`HandledAtHead`): when the action of a due packet finds the
   action queue full, the timer goes on to the next packet, and the service task,
   which receives without the lock, may have made room by then. The second
   packet's action comes while the first is the head, is skipped as unexpected
   (`mdns_send.c:1846`), and the packet keeps its mark `queued`: once it is the
   head nothing takes it away, and nothing is sent any more.
5. `json_patch` (`MergeLeads`): sorting the members of an object leaves the first
   without its `prev` pointer (`cJSON_Utils.c:484-593`), and `add_item_to_array`
   then drops what is added. A document that a merge patch was generated from
   does not take the patch. (`PatchesLead` holds because it applies patches to
   copies, whose pointers are whole.)

Seen while modelling, each from the code and not the subject of a run:

- Nothing bounds the packets received while mDNS starts: with 16 of them in the
  action queue `mdns_hostname_set` fails (`mdns_responder.c:662-665`), or
  `mdns_instance_name_set` after it, and `ESP_ERROR_CHECK` (`wifi_connection.c:92-93`)
  reboots the device. `OnlyAFloodReboots` says that nothing else does. A full queue
  may also refuse the action that enables the interface (`mdns_netif.c:161-180`,
  which reports success all the same); it then has no mDNS until the next address;
  `Advertised` leaves this case out (`dropped`).
- `Oled!NoGarbage` does not hold: the init sequence switches the panel on
  (`oled.c:264`) before the first flush clears its memory. The comments say
  "Start with every pixel off" (`agent-presence-device.c:35`) and "prevents garbage
  during init" (`oled.c:237`).
- `MdnsResponder!AllAnnounced` does not hold: setting the default instance name
  starts probing for the services that use it *in place of* what is being probed
  for, so that others are never announced (`mdns_responder.c:240-263`), against
  "ensuring proper service announcements" (`refactor_2025.md:33`).
- `mdns_send.c:1641` compares times unsigned and `:1733` signed: across the wrap
  of the millisecond counter a new packet goes before one that is due earlier.
- `append_host_list` (`mdns_send.c:367-383`) skips the first delegated host;
  `mdns_pcb.c` leaves the multicast group only for the last protocol; the cache
  never expires a record by its time to live; a record goes to the first search
  of the chain it fits only.
- `cJSON`: an escape `\u` with letters that are no hexadecimal digits reads as
  code 0. `decode_pointer_inplace` (`cJSON_Utils.c:359-390`) does not move up what
  follows an escape, and writes a slash one place too far; `detach_path` ignores case whatever was asked; nested merge
  patches and the order of members do too; an empty array index is 0; moving or
  copying from or to the path "" fails; the operation `test` sorts the document.
  `PatchesLead`, `PatchMeans` and `MergeLeads` of `CJsonUtils` are stated for the
  cases without these.

Consistent with what the code or its tests say: a press on an unread notification
goes straight to its second page (`src/tests/presence_state_test.c`); a new
message replaces an unread or half-read one; a line that is exactly full and
followed by a space is broken at its last inner space rather than at that one, so
a word moves to the next line that would have fitted; `delay(10 ms)` is a single
tick.

## 7. What is not modelled and why

- *Glyphs, sizes and positions of text*, `draw_text`, `font.c`: data, with no
  control that depends on it. `oled_gpio_init`, `oled_spi_init`,
  `oled_device_init` fill in structures for the drivers.
- *Parts composed*: `Presence` takes a flush as one step, `Oled` has its bytes;
  `Presence` and `Device` take a message that passed, `HttpServer` has the way
  there. What the one assumes is a property of the other, not a composition.
- *Priorities and cores*: any interleaving is allowed, which includes the
  device's.
- *NULL checks* of `presence.c` and `presence_layout.c`: the mutex exists from
  `presence_init` on, and no caller passes NULL.
- *A reboot's loss of the notification*: nothing is persisted and nothing claims
  it is.
- *mDNS*: the bytes of packets (names, compression, lengths); which records an
  answer is made of, additional ones and those left out because they are known;
  delegated hosts and subtypes; services of the same type (of those that are being
  probed for, `mdns_send.c:1805-1818` takes the first question of the type away,
  whichever service it was about); IPv6 beside IPv4; stopping mDNS; the console,
  sockets, debugging output. Memory does not run out there.
- *cJSON*: numbers (`strtod`, `sprintf`); literals and numbers in the parser, which
  keep no memory of their own; string values of the items in trees, which are
  copied and freed as their names are; trees as deep as `CJSON_CIRCULAR_LIMIT`
  (10000), at which a copy fails; `cJSON_Minify`, `cJSON_SetValuestring`, the
  getters.

## 8. Plan

Done: all modules of section 2 with their runs, and the proofs of section 5.

Next, in this order:

1. The half of `HandledAsDue` that a full action queue leaves: which packets are
   still handled in order.
2. `HttpServer` composed with `Presence`: a repeat after a lost answer resets a
   notification that is being read.
3. The records an mDNS answer is made of (`mdns_send.c:255-671`), delegated hosts.
