------------------------------- MODULE MC_Play -------------------------------
(***************************************************************************)
(* Small instances of PlayIntent: one page that is closed and reopened.    *)
(***************************************************************************)
EXTENDS PlayIntent

CONSTANT tab
=============================================================================
