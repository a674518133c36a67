----------------------------- MODULE MCKeyboard -----------------------------
(***************************************************************************)
(* Keyboard for TLC: the letters b, A and C; a report of two slots instead *)
(* of six, so that three letters are more than it holds.                   *)
(***************************************************************************)
EXTENDS Keyboard

LetterOf(k) ==
  CASE k = "A" -> "letter a"
    [] k = "b" -> "letter b"
    [] k = "C" -> "letter c"
=============================================================================
