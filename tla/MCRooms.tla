------------------------------ MODULE MCRooms ------------------------------
(***************************************************************************)
(* Rooms with one command, one message, and two faults or one transaction  *)
(* that fails.                                                             *)
(***************************************************************************)
EXTENDS Rooms
=============================================================================
