----------------------------- MODULE MC_Session -----------------------------
(***************************************************************************)
(* A small instance of WriterSession.                                      *)
(***************************************************************************)
EXTENDS WriterSession

CONSTANTS m1, u1, r1, r2
=============================================================================
