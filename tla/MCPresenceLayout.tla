-------------------------- MODULE MCPresenceLayout --------------------------
(* PresenceLayout for TLC: rows of four bytes, so that a body of a few      *)
(* bytes wraps.                                                             *)
EXTENDS LayoutProofs

MCWords == {"newline", "space", "ascii"}
MCAll == MCWords \cup {"lead2", "lead4", "cont"}
MCLetters == {"ascii", "lead2", "cont"}
MCNone == -1

(* Texts of every kind of byte, no longer than a line and a half, and       *)
(* longer ones of words, one byte more than fits included.                  *)
Upto(n, kinds) == UNION {[1 .. k -> kinds] : k \in 0 .. n}
MCTexts == Upto(6, MCAll) \cup Upto(9, MCWords)
MCEndings == Upto(4, MCLetters)
=============================================================================
