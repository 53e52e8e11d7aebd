---------------------------- MODULE Notification ----------------------------
(***************************************************************************)
(* What the device promises the person in front of it, stated over the     *)
(* screen alone (README.md:66 and the calls of presence.h): a notification *)
(* appears on its first page, turns forward one page at a time without     *)
(* wrapping, goes away as a whole, and never turns into a page of another  *)
(* one.  Module Presence is shown to implement this for its panel.         *)
(***************************************************************************)
EXTENDS Integers

CONSTANTS
  Texts,          \* the notifications
  PageCount,      \* PageCount[m]: the number of pages of m
  Off             \* an empty screen

VARIABLES
  shown,    \* the notification on the screen, or Off
  page      \* its page, 0 when the screen is empty

Init == shown = Off /\ page = 0

Arrive(m) == shown' = m /\ page' = 0

TurnPage ==
  /\ shown # Off
  /\ page + 1 < PageCount[shown]
  /\ page' = page + 1
  /\ UNCHANGED shown

Dismiss == shown' = Off /\ page' = 0

Next == (\E m \in Texts : Arrive(m)) \/ TurnPage \/ Dismiss

Spec == Init /\ [][Next]_<<shown, page>>
=============================================================================
