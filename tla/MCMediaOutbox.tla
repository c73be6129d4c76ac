---------------------------- MODULE MCMediaOutbox ----------------------------
(***************************************************************************)
(* MediaOutbox with any two of three attachments: two of a chat, the later *)
(* named of which is a reply, and one of another chat, with an identifier  *)
(* for each message that two attachments may make.                         *)
(***************************************************************************)
EXTENDS MediaOutbox, TLC

CONSTANTS r1, r2, r3, c1, c2

MCRequests == {r1, r2, r3}
MCChatOf == r1 :> c1 @@ r2 :> c1 @@ r3 :> c2
=============================================================================
