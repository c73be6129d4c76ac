---------------------------- MODULE MCTextOutbox ----------------------------
(***************************************************************************)
(* TextOutbox with two requests in one chat and one in another.  The       *)
(* source order of the shared chat is r1, r2, and the drain may insert the *)
(* two in either order; the origin of r3 is unknown.  The run of liveness  *)
(* keeps the shared chat only, and one identifier for all messages.        *)
(***************************************************************************)
EXTENDS TextOutbox, TLC

CONSTANTS r1, r2, r3, c1, c2

MCRequests == {r1, r2, r3}
MCChats == {c1, c2}
MCChatOf == r1 :> c1 @@ r2 :> c1 @@ r3 :> c2
MCSource == r1 :> 1 @@ r2 :> 2 @@ r3 :> 0
LiveRequests == {r1, r2}
LiveChats == {c1}
LiveChatOf == r1 :> c1 @@ r2 :> c1
LiveSource == r1 :> 1 @@ r2 :> 2
MCSymmetry == Permutations(Ids)
=============================================================================
