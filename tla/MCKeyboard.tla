----------------------------- MODULE MCKeyboard -----------------------------
(***************************************************************************)
(* Values for the constants of Keyboard.                                   *)
(***************************************************************************)
EXTENDS Keyboard

Keys == {"x", ENTER, EOF}
=============================================================================
