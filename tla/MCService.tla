------------------------------ MODULE MCService ------------------------------
(* With a proxy, or with media: a prepared file of one packet and room for one. *)
EXTENDS Service

CONSTANT f1

MCConfigurations == {[proxy |-> TRUE, media |-> FALSE], [proxy |-> FALSE, media |-> TRUE]}
=============================================================================
