------------------------------ MODULE MCChain ------------------------------
(* Two upstream instances, not configured yet or both enabled.             *)
EXTENDS Chain
MCConfigured == {[a \in Addrs |-> "absent"], [a \in Addrs |-> "enabled"]}
=============================================================================
