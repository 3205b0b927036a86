------------------------------- MODULE MCFeed -------------------------------
(* Updates with their prefixes in every place, some of them refused.       *)
EXTENDS Feed

CONSTANTS a, b, p, q

Peers == Permutations(Peer)

Attribute(t, ps) == [type |-> t, prefixes |-> ps, misread |-> <<>>]
Snpas(ps, printed) == [type |-> "MP_REACH", prefixes |-> ps, misread |-> printed]
Wire(w, as, n, c) == [withdrawn |-> w, attributes |-> as, nlri |-> n, corrupt |-> c]
Origin == Attribute("ORIGIN", <<>>)
Path   == Attribute("AS_PATH", <<>>)

Updates == {
  Wire(<<a>>, <<Attribute("MP_REACH", <<b>>), Origin>>, <<a>>, 0),
  Wire(<<>>, <<Attribute("MP_UNREACH", <<a, b>>), Origin, Snpas(<<b>>, <<a>>)>>, <<>>, 0),
  Wire(<<b>>, <<Path, Attribute("MP_REACH", <<a>>)>>, <<b>>, 0),         \* no basic attribute
  Wire(<<a>>, <<Origin, Attribute("MP_UNREACH", <<b>>)>>, <<>>, 2)}      \* a corrupt section
=============================================================================
