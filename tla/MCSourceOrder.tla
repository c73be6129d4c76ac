--------------------------- MODULE MCSourceOrder ---------------------------
(***************************************************************************)
(* Three transactions, delivered in any order or not at all.  x is a text, *)
(* whose key comes with t2; y a reaction to it, in the clear like the text *)
(* z.  t3 repeats x, and is never decoded: w, of another room, has no key. *)
(***************************************************************************)
EXTENDS SourceOrder, TLC

CONSTANTS t1, t2, t3, w, x, y, z, room, elsewhere

MCTransactions == {t1, t2, t3}
MCEvents == {w, x, y, z}
MCPlain == {y, z}
MCEventsOf == t1 :> <<x>> @@ t2 :> <<y, z>> @@ t3 :> <<w, x>>
MCKeysIn == t1 :> {} @@ t2 :> {x} @@ t3 :> {}
MCRoomOf == [e \in MCEvents |-> IF e = w THEN elsewhere ELSE room]
MCKindOf == w :> "unsupported" @@ x :> "text" @@ y :> "reaction" @@ z :> "text"
MCTargetOf == [e \in MCEvents |-> IF e = y THEN x ELSE None]
=============================================================================
