----------------------------- MODULE MCMutations -----------------------------
(***************************************************************************)
(* Mutations of one message: an edit to B and a deletion by the owner, and *)
(* one change on the phone, which may write D.                             *)
(***************************************************************************)
EXTENDS Mutations, TLC

CONSTANTS e1, d1, m1, c1, A, B, D

MCChatOf == m1 :> c1
MCMessageOf == [o \in Ops |-> m1]
MCTextOf == [e \in Edits |-> B]
MCOriginal == m1 :> A
=============================================================================
