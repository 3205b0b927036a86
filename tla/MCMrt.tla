------------------------------- MODULE MCMrt -------------------------------
(* Two connections from one collector, with messages about one peer of it  *)
(* and one peer of another collector.                                      *)
EXTENDS Mrt, TLC
MCSymmetry == Permutations(Conns)
MCAddress == [c \in Conns |-> "a"]
MCTuples == {[peer |-> "p", local |-> "a"], [peer |-> "p", local |-> "b"]}
=============================================================================
