------------------------------ MODULE MCCalls ------------------------------
(* Small instances of CallRooms.                                           *)
EXTENDS CallRooms
=============================================================================
