--------------------------- MODULE PresenceState ---------------------------
(***************************************************************************)
(* The reading state of one notification, presence_state.c: a passive      *)
(* record and the five operations on it.  The record is only ever touched  *)
(* by presence.c with presence_mutex held, so the operations are operators *)
(* here and become parts of actions in module Presence.                    *)
(*                                                                         *)
(* A definition whose name ends in _Mut... is the definition it precedes   *)
(* with one plausible slip in it; no specification uses it.                *)
(***************************************************************************)
EXTENDS Integers

IDLE    == "IDLE"
UNREAD  == "UNREAD"
READING == "READING"

(* PresenceStateModel, for page counts up to maxPages *)
PresenceStateModel(maxPages) ==
  [state : {IDLE, UNREAD, READING},
   current_page : 0 .. maxPages - 1,
   page_count : 1 .. maxPages]

presence_state_init == [state |-> IDLE, current_page |-> 0, page_count |-> 1]

presence_state_message_MutKeepPage(model, page_count) ==
  [model EXCEPT !.state = UNREAD,
                !.page_count = IF page_count = 0 THEN 1 ELSE page_count]

presence_state_message(model, page_count) ==
  [state |-> UNREAD,
   current_page |-> 0,
   page_count |-> IF page_count = 0 THEN 1 ELSE page_count]

(* model->current_page + 1 < model->page_count, with slips *)
HasNextPage_MutOffByOne(model) == model.current_page < model.page_count

HasNextPage(model) == model.current_page + 1 < model.page_count

presence_state_short_press(model) ==
  IF model.state = IDLE
    THEN model
    ELSE [model EXCEPT !.state = READING,
                       !.current_page = IF HasNextPage(model) THEN @ + 1 ELSE @]

presence_state_long_press(model) == [model EXCEPT !.state = IDLE]

presence_state_is_reading(model) == model.state = READING

presence_state_timeout(model) ==
  IF model.state = READING THEN [model EXCEPT !.state = IDLE] ELSE model
=============================================================================
