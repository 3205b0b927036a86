-------------------------------- MODULE Acl --------------------------------
(***************************************************************************)
(* The access control lists: rules that are tried in order, the lists that *)
(* the CLI and client listeners and the MRT module have been told to use,  *)
(* the commands that edit them, and what is saved of them and read again.  *)
(* Lists live in memory cells: a removed list's cell may be allocated      *)
(* again while a listener or a CLI session still points to it.  Cli.tla    *)
(* says when a session may give these commands.                            *)
(***************************************************************************)
EXTENDS Integers, SequencesExt, FiniteSets

CONSTANTS
  Listeners,   \* of "cli", "update", "rib" and "mrt"
  Users,       \* CLI sessions
  NewNames,    \* names of lists other than the two initial ones
  RuleInputs,  \* rules the CLI adds
  MaxLists,    \* bound: lists that can be found by name
  MaxRules,    \* bound: rules of a list
  MaxCommands  \* bound: commands that change something, and restarts

Bit == {0, 1}
Families == {"v4", "v6"}
Accesses == {"deny", "permit", "label", "ribonly"}
Address == [family : Families, host : Bit]
Names == NewNames \cup {"denyall", "permitall"}
Cells == 1..(MaxLists + 2)
None == 0

\* createACLRule, createACLRuleAny, createDefaultACLRule.  A rule's mask is of its family.
AddressRule(family, host, mask, access) ==
  [any |-> FALSE, family |-> family, host |-> host, mask |-> mask, access |-> access]
AnyRule(access) ==
  [any |-> TRUE, family |-> "v4", host |-> 0, mask |-> 0, access |-> access]
Rule == [any : BOOLEAN, family : Families, host : Bit, mask : Bit, access : Accesses]
DefaultRule == AnyRule("deny")

ASSUME AclAssumption ==
  /\ RuleInputs \subseteq Rule /\ MaxLists \in Nat \ {0, 1} /\ MaxRules \in Nat /\ MaxCommands \in Nat
  /\ Listeners \subseteq {"cli", "update", "rib", "mrt"}

VARIABLES
  heap,     \* the lists in memory, by cell
  chain,    \* rootAcl: the cells of the lists that can be found by name
  use,      \* the list of each listener
  current,  \* currentACL: the list each CLI session is editing, or None
  up,       \* FALSE when a null or stray pointer has been followed
  commands  \* bound: number of steps so far

aclVars == <<heap, chain, use, current, up, commands>>

Live == DOMAIN heap

(***************************************************************************)
(* Verdicts.                                                               *)
(***************************************************************************)
\* A bit that is set in the mask is not compared.
isAddressInRange(client, rule, mask) == mask = 1 \/ client = rule

\* For IPv6 the mask is copied over the rule's address, and none is left.
isRuleApplicable(a, r) ==
  /\ a.family = r.family
  /\ IF r.family = "v4" THEN isAddressInRange(a.host, r.host, r.mask)
                        ELSE isAddressInRange(a.host, r.mask, 0)

Applies(a, r) == r.any \/ isRuleApplicable(a, r)

\* The first rule that applies decides.
checkACL(rules, a) ==
  LET i == SelectInSeq(rules, LAMBDA r : Applies(a, r))
  IN IF i = 0 THEN "deny" ELSE rules[i].access

(***************************************************************************)
(* Lists.                                                                  *)
(***************************************************************************)
\* The cell of the list with this name in a chain, or None.
getACL(h, ch, n) ==
  LET i == SelectInSeq(ch, LAMBDA c : h[c].name = n) IN IF i = 0 THEN None ELSE ch[i]

\* A position beyond the last rule, or in a list of one, has no rule before it.
AddCrashes(rules, index) == index > 0 /\ Len(rules) < 2

\* Mutant: the search for the position stops one rule too late.
addACLRule_OffByOne(rules, index, r) ==
  IF index < 0 THEN Append(rules, r)
  ELSE InsertAt(rules, IF index \in 1..(Len(rules) - 1) THEN index + 2 ELSE 1, r)

\* At the position given, but before the last rule at the furthest; -1 is the end.
addACLRule(rules, index, r) ==
  IF index < 0 THEN Append(rules, r)
  ELSE IF index < Len(rules) THEN InsertAt(rules, index + 1, r)
  ELSE InsertAt(rules, IF rules = <<>> THEN 1 ELSE Len(rules), r)

removeACLRule(rules, index) ==
  IF index \in 0..(Len(rules) - 1) THEN RemoveAt(rules, index + 1) ELSE rules

\* createACL.
NewList(n) == [name |-> n, rules |-> <<DefaultRule>>]

With(h, c, list) == [d \in DOMAIN h \cup {c} |-> IF d = c THEN list ELSE h[d]]
Without(h, c) == [d \in DOMAIN h \ {c} |-> h[d]]

(***************************************************************************)
(* The configuration file.                                                 *)
(***************************************************************************)
NoFile == [lists |-> <<>>, use |-> <<>>]

\* What a file may hold, by hand too: incomplete rules, and types that are none of the four.
Entries == [complete : BOOLEAN, allowed : Accesses \cup {"other"}, rule : Rule]
FileLists == [name : Names, rules : Seq(Entries)]
IsDocument(doc) ==
  \/ doc = NoFile
  \/ /\ doc \in [lists : Seq(FileLists), use : [Listeners -> Names]]
     /\ Len(doc.lists) <= MaxLists
     /\ \A i, j \in DOMAIN doc.lists : doc.lists[i].name = doc.lists[j].name => i = j

\* saveACLSettings: in a file a rule is complete or lacks an element.
SavedRule(r) == [complete |-> TRUE, allowed |-> r.access, rule |-> r]
SavedList(l) == [name |-> l.name, rules |-> [i \in DOMAIN l.rules |-> SavedRule(l.rules[i])]]
SavedLists == [i \in DOMAIN chain |-> SavedList(heap[chain[i]])]
SavedDocument ==
  [lists |-> SavedLists, use |-> [l \in Listeners |-> heap[use[l]].name]]

\* An incomplete rule is skipped.
Kept(entries) == {k \in DOMAIN entries : entries[k].complete}
KeptUpTo(entries, k) == {j \in Kept(entries) : j <= k}

\* The type of the last one that has one of the four, at or before this one.
readType(entries, k) ==
  LET known == {j \in KeptUpTo(entries, k) : entries[j].allowed \in Accesses}
  IN IF known = {} THEN "deny" ELSE entries[Max(known)].allowed

\* The entry that becomes the i-th rule.
EntryAt(entries, i) ==
  CHOOSE k \in Kept(entries) : Cardinality(KeptUpTo(entries, k)) = i

\* Mutant: every rule is put in front.
readACLList_Reversed(entries) ==
  LET n == Cardinality(Kept(entries))
  IN [i \in 1..n |->
        LET k == EntryAt(entries, n + 1 - i)
        IN [entries[k].rule EXCEPT !.access = readType(entries, k)]]

\* readACLList: every rule is added at the end.
readACLList(entries) ==
  [i \in 1..Cardinality(Kept(entries)) |->
     LET k == EntryAt(entries, i)
     IN [entries[k].rule EXCEPT !.access = readType(entries, k)]]

\* initACLSettings: denyall for MRT, permitall for the others.
InitLists == <<NewList("denyall"), [name |-> "permitall", rules |-> <<AnyRule("permit")>>]>>
InitUse == [l \in Listeners |-> IF l = "mrt" THEN 1 ELSE 2]

\* readACLSettings: the initial lists are off the chain but stay in memory.
LoadedHeap(doc) ==
  [c \in 1..(2 + Len(doc.lists)) |->
     IF c < 3 THEN InitLists[c]
     ELSE [name |-> doc.lists[c - 2].name, rules |-> readACLList(doc.lists[c - 2].rules)]]
LoadedChain(doc) == IF doc = NoFile THEN <<1, 2>> ELSE [i \in DOMAIN doc.lists |-> i + 2]

\* readLoginControlSettings: a name that is not found leaves the initial list.
LoadedUse(doc) ==
  [l \in Listeners |->
     LET c == IF doc = NoFile THEN None ELSE getACL(LoadedHeap(doc), LoadedChain(doc), doc.use[l])
     IN IF c = None THEN InitUse[l] ELSE c]

(***************************************************************************)
(* Commands.                                                               *)
(***************************************************************************)
Counted == commands < MaxCommands /\ commands' = commands + 1

Crash == up' = FALSE /\ UNCHANGED <<heap, chain, use, current>>

\* "acl n": the list is found or created, in any free cell.
ACL(u, n) ==
  /\ Counted /\ up /\ current[u] = None
  /\ LET found == getACL(heap, chain, n)
     IN \/ /\ found # None
           /\ current' = [current EXCEPT ![u] = found]
           /\ UNCHANGED <<heap, chain>>
        \/ /\ found = None
           /\ Len(chain) < MaxLists
           /\ \E c \in Cells \ Live :
                /\ heap' = With(heap, c, NewList(n))
                /\ chain' = Append(chain, c)
                /\ current' = [current EXCEPT ![u] = c]
  /\ UNCHANGED <<use, up>>

\* "exit" and "end".
exitACL(u) ==
  /\ Counted /\ up /\ current[u] # None
  /\ current' = [current EXCEPT ![u] = None]
  /\ UNCHANGED <<heap, chain, use, up>>

\* "no acl n", removeACL: nobody asks whether the list is in use.
noACL(u, n) ==
  /\ Counted /\ up /\ current[u] = None
  /\ LET found == getACL(heap, chain, n)
     IN \/ found = None /\ Crash
        \/ /\ found # None
           /\ chain' = RemoveFirst(chain, found)
           /\ heap' = Without(heap, found)
           /\ UNCHANGED <<use, current, up>>

\* What the session's list is for commands that edit it.
Edits(u, newRules) ==
  /\ heap' = [heap EXCEPT ![current[u]].rules = newRules]
  /\ UNCHANGED <<chain, use, current, up>>

\* "permit", "deny", "label" or "ribonly", any address or an address and mask.
ACLRule(u, r, index) ==
  /\ Counted /\ up /\ current[u] # None
  /\ IF current[u] \notin Live \/ AddCrashes(heap[current[u]].rules, index) THEN Crash
     ELSE /\ Len(heap[current[u]].rules) < MaxRules
          /\ Edits(u, addACLRule(heap[current[u]].rules, index, r))

\* "no [rule #]": also found outside a list, where there is none to edit.
noACLRule(u, index) ==
  /\ Counted /\ up
  /\ IF current[u] \notin Live \/ heap[current[u]].rules = <<>> THEN Crash
     ELSE Edits(u, removeACLRule(heap[current[u]].rules, index))

\* "client-listener update acl n" and its like; an unknown name changes nothing.
SetListenerAcl(u, l, n) ==
  /\ Counted /\ up /\ current[u] = None
  /\ getACL(heap, chain, n) # None
  /\ use' = [use EXCEPT ![l] = getACL(heap, chain, n)]
  /\ UNCHANGED <<heap, chain, current, up>>

\* A connection comes to a listener whose list has been freed.
CheckFreed(l) == up /\ use[l] \notin Live /\ Crash /\ UNCHANGED commands

AclLoad(doc) ==
  /\ heap' = LoadedHeap(doc) /\ chain' = LoadedChain(doc) /\ use' = LoadedUse(doc)
  /\ current' = [u \in Users |-> None]

(***************************************************************************)
(* Properties.                                                             *)
(***************************************************************************)
(* After a rule was added at a position of the list (addACLRule), or at    *)
(* its end, an address is judged as before by the rules in front of it,    *)
(* else by the new rule if it applies, and otherwise as before, at all     *)
(* listeners that use the list, and as before at the others.               *)
RulesTakeEffectInOrder ==
  [][\A u \in Users, r \in RuleInputs, i \in -1..MaxRules :
       ACLRule(u, r, i) /\ up' =>
         \A l \in Listeners, a \in Address :
           use[l] \in Live =>
             LET before == heap[use[l]].rules
                 after == heap'[use[l]].rules
                 front == IF i < 0 THEN before ELSE SubSeq(before, 1, i)
             IN /\ use[l] = current[u] /\ i < Len(before) =>
                     checkACL(after, a) =
                       IF (\E k \in DOMAIN front : Applies(a, front[k])) \/ ~ Applies(a, r)
                       THEN checkACL(before, a) ELSE r.access
                /\ use[l] # current[u] => checkACL(after, a) = checkACL(before, a)]_aclVars

(* The lists, the chain of those that have a name, and the pointers to     *)
(* them, which may dangle (removeACL).                                     *)
TypeOK ==
  /\ Live \subseteq Cells /\ heap \in [Live -> [name : Names, rules : Seq(Rule)]]
  /\ chain \in Seq(Live) /\ Len(chain) <= MaxLists
  /\ use \in [Listeners -> Cells] /\ current \in [Users -> Cells \cup {None}]
  /\ up \in BOOLEAN /\ commands \in 0..MaxCommands
=============================================================================
