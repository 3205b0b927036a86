---------------------------- MODULE MCPeerConfig ----------------------------
(* One peer, a group from the file and one more; BGP's code 1 and the code *)
(* the CLI stores for it, which is the character 1.                        *)
EXTENDS PeerConfig

Rl(value, action) == [code |-> 1, value |-> value, action |-> action]
MCCapabilities == {[code |-> 1, value |-> "v4"], [code |-> 1, value |-> "v6"]}
MCCliRules == {[code |-> 49, value |-> "v4", action |-> "refuse"]}
MCCliCaps == {[code |-> 49, value |-> "v4"]}

\* Files with a peer in a group; rules of either or of none.
RuleLists == {<<<<Rl(AnyValue, "require"), Rl("v4", "refuse")>>, <<Rl(AnyValue, "refuse"), Rl("v4", "allow")>>>>,
              <<<<Rl("v4", "require"), Rl(AnyValue, "refuse")>>, <<Rl("v4", "require"), Rl("v4", "refuse")>>>>}
Configured(name, rules, own, group) ==
  [name |-> name, rules |-> rules, announce |-> <<>>, group |-> group,
   own |-> [f \in Settings |-> IF f \in own THEN 2 ELSE Unset]]
MCDocuments ==
  {[groups |-> <<Configured("g1", ls[1], {"localHoldtime"}, Default)>>,
    peers |-> {Configured("p", ls[2], {}, "g1")}] : ls \in RuleLists}
=============================================================================
