-------------------------------- MODULE Rib --------------------------------
(***************************************************************************)
(* What a table of one session's routes promises: each prefix has at most  *)
(* one route, and the label put on a change says how it differs from the   *)
(* route the prefix had.                                                   *)
(***************************************************************************)
CONSTANTS Prefixes, Routes, NoRoute,
          PathOf,        \* the AS path of each route
          LooksAlike     \* pairs of AS paths that the table may take for one

VARIABLES rib, label

TypeOK == rib \in [Prefixes -> Routes \cup {NoRoute}]

Init == rib = [p \in Prefixes |-> NoRoute] /\ label = "none"

\* The labels an announcement of route r for a prefix with route old may get.
AnnounceLabels(old, r) ==
  IF old = NoRoute THEN {"ANNOUNCE_NEW"}
  ELSE IF old = r THEN {"ANNOUNCE_DUPLICATE"}
  ELSE (IF PathOf[old] = PathOf[r] \/ <<PathOf[old], PathOf[r]>> \in LooksAlike THEN {"ANNOUNCE_SPATH"} ELSE {})
       \cup (IF PathOf[old] # PathOf[r] THEN {"ANNOUNCE_DPATH"} ELSE {})

Announce(p, r) == /\ label' \in AnnounceLabels(rib[p], r)
                  /\ rib' = [rib EXCEPT ![p] = r]

Withdraw(p) == /\ label' = IF rib[p] = NoRoute THEN "WITHDRAW_DUPLICATE" ELSE "WITHDRAW"
               /\ rib' = [rib EXCEPT ![p] = NoRoute]

\* Between two labels.
NoLabel == label' = "none" /\ UNCHANGED rib

SessionEnds == rib' = [p \in Prefixes |-> NoRoute] /\ label' = "none"

Next == \/ \E p \in Prefixes : Withdraw(p) \/ \E r \in Routes : Announce(p, r)
        \/ NoLabel \/ SessionEnds

Spec == Init /\ [][Next]_<<rib, label>>
=============================================================================
