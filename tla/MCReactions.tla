----------------------------- MODULE MCReactions -----------------------------
(***************************************************************************)
(* Reactions with two events of the owner that stand for the same emoji    *)
(* and a withdrawal of the first; and with one event that stands for a     *)
(* text of two messages.                                                   *)
(***************************************************************************)
EXTENDS Reactions, TLC

CONSTANTS a1, a2, w1, p, q, c

MCTargetOf == w1 :> a1
MCRank == p :> 1
MCCovers == a1 :> {p} @@ a2 :> {p} @@ w1 :> {p}
MCChatOf == a1 :> c @@ a2 :> c @@ w1 :> c
MCPosition == a1 :> 1 @@ a2 :> 3 @@ w1 :> 2

NoTarget == <<>>
PairRank == p :> 1 @@ q :> 2
PairCovers == a1 :> {p, q}
PairChatOf == a1 :> c
PairPosition == a1 :> 1
=============================================================================
