----------------------------- MODULE MCProfileSync -----------------------------
(* Instances of ProfileSync: the messages of one or two chats. *)
EXTENDS ProfileSync

CONSTANTS c1, c2

OneChat == [m \in Messages |-> c1]
TwoChats == [m \in Messages |-> IF m = 1 THEN c1 ELSE c2]
=============================================================================
