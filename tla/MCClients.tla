----------------------------- MODULE MCClients -----------------------------
(* The update and the RIB listener; at the start the update listener's     *)
(* port may be one that cannot be bound.                                   *)
EXTENDS Clients
MCOrder == <<"update", "rib">>
MCConfigured == {[l \in Listeners |-> IF l = "update" THEN p ELSE 1] : p \in {1, 3}}
=============================================================================
