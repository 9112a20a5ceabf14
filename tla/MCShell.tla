------------------------------ MODULE MCShell ------------------------------
(***************************************************************************)
(* Values for the constants of Shell.                                      *)
(***************************************************************************)
EXTENDS Shell

Keys == {"a", "t", "k", "e", "&", ENTER, EOF}
AlarmKeys == {"a", ENTER}
=============================================================================
