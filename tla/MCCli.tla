------------------------------- MODULE MCCli -------------------------------
(* Two CLI sessions, two listeners and two settings, of sections before    *)
(* and after the lists; rules for any address and for one.                 *)
EXTENDS Cli, TLC

MCRules == {AnyRule("permit"), AddressRule("v4", 1, 0, "deny")}
MCInputs == {0, MaxInt + 1}

\* A file by hand: an incomplete rule and one whose type is misspelt.
Entry(complete, allowed, rule) == [complete |-> complete, allowed |-> allowed, rule |-> rule]
ByHand ==
  [lists |-> <<[name |-> "permitall", rules |-> <<Entry(TRUE, "permit", AddressRule("v6", 1, 1, "deny")),
                                          Entry(FALSE, "deny", AnyRule("deny")),
                                          Entry(TRUE, "other", AddressRule("v4", 0, 1, "deny"))>>]>>,
   use |-> [l \in Listeners |-> "permitall"]]
MCSettingsByHand == {[Initial EXCEPT !["loginPort"] = 0]}
MCListsByHand == {ByHand}
MCSymmetry == Permutations(Users)
=============================================================================
