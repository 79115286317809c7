------------------------------ MODULE MC_Stream ------------------------------
(***************************************************************************)
(* Small instance of PositionStream: two positions, of which one wins, and *)
(* the changes of another user in a channel that holds one message.        *)
(***************************************************************************)
EXTENDS PositionStream

CONSTANTS won, lost, other
=============================================================================
