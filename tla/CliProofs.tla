----------------------------- MODULE CliProofs -----------------------------
(***************************************************************************)
(* For any users, listeners, names, rules and settings: enable mode is not *)
(* lost with a session, a rule decides where it was put, and a restart     *)
(* from the running configuration keeps what stands before the first       *)
(* setting that cannot be read.  The inductive invariant adds to the types *)
(* that no two lists have the same name, in the chain and in the file: a   *)
(* file refers to lists by their names.                                    *)
(***************************************************************************)
EXTENDS Cli, FiniteSetTheorems, WellFoundedInduction, TLAPS

Lists == [name : Names, rules : Seq(Rule)]

AclTypes ==
  /\ Live \subseteq Cells /\ heap \in [Live -> Lists]
  /\ chain \in Seq(Live) /\ Len(chain) <= MaxLists
  /\ use \in [Listeners -> Cells] /\ current \in [Users -> Cells \cup {None}]
  /\ up \in BOOLEAN /\ commands \in 0..MaxCommands

CliTypes ==
  /\ mode \in [Users -> Modes] /\ listening \in BOOLEAN /\ enableModeActive \in BOOLEAN
  /\ settings \in [Settings -> Values] /\ file.settings \in [Settings -> Values]

NamesDiffer ==
  \A i, j \in DOMAIN chain : heap[chain[i]].name = heap[chain[j]].name => i = j

FileIsDocument == IsDocument(file.lists)

IInv == AclTypes /\ CliTypes /\ NamesDiffer /\ FileIsDocument /\ EnableNotStuck

-----------------------------------------------------------------------------
(***************************************************************************)
(* Numbers and sequences.                                                  *)
(***************************************************************************)
LEMMA LeastIs ==
  ASSUME NEW S \in SUBSET Nat, S # {}
  PROVE  Min(S) \in S /\ \A k \in S : Min(S) <= k
<1>1. PICK n \in S : \A k \in S : ~(<<k, n>> \in OpToRel(<, Nat))
  BY WFMin, NatLessThanWellFounded, Zenon
<1>2. \A k \in S : ~(k < n)
  BY <1>1 DEF OpToRel
<1>3. \A k \in S : n <= k
  BY <1>2
<1> QED BY <1>3 DEF Min

LEMMA GreatestIs ==
  ASSUME NEW n \in Nat, NEW S \in SUBSET (1..n), S # {}
  PROVE  Max(S) \in S /\ \A k \in S : k <= Max(S)
<1> DEFINE below == {n - k : k \in S}
<1>a. \A k \in S : k \in Nat /\ n - k \in Nat
  OBVIOUS
<1>1. below \in SUBSET Nat /\ below # {}
  BY <1>a
<1>2. PICK m \in below : \A k \in below : m <= k
  BY <1>1, LeastIs
<1>3. PICK k \in S : m = n - k
  BY <1>2
<1>4. \A j \in S : n - k <= n - j
  BY <1>2, <1>3
<1>5. \A j \in S : j <= k
  BY <1>4, <1>a
<1> QED BY <1>5 DEF Max

\* The first position of a sequence where something holds.
LEMMA FirstIs ==
  ASSUME NEW n \in Nat, NEW S \in SUBSET (1..n), S # {}
  PROVE  Min(S) \in 1..n /\ Min(S) \in S /\ \A k \in 1..n : k \in S => Min(S) <= k
<1>1. S \in SUBSET Nat
  OBVIOUS
<1> QED BY <1>1, LeastIs

LEMMA SequenceIs ==
  ASSUME NEW S, NEW s \in Seq(S)
  PROVE  /\ Len(s) \in Nat /\ DOMAIN s = 1..Len(s)
         /\ \A i \in 1..Len(s) : s[i] \in S
OBVIOUS

LEMMA Inserted ==
  ASSUME NEW s \in Seq(Rule), NEW e \in Rule, NEW i \in 1..(Len(s) + 1)
  PROVE  /\ InsertAt(s, i, e) \in Seq(Rule)
         /\ Len(InsertAt(s, i, e)) = Len(s) + 1
         /\ \A k \in 1..(Len(s) + 1) :
              InsertAt(s, i, e)[k] = IF k < i THEN s[k] ELSE IF k = i THEN e ELSE s[k - 1]
<1> DEFINE front == SubSeq(s, 1, i - 1)
           back == SubSeq(s, i, Len(s))
<1>1. Len(s) \in Nat /\ i \in Nat
  OBVIOUS
<1>2. front \in Seq(Rule) /\ Len(front) = i - 1 /\ \A k \in 1..(i - 1) : front[k] = s[k]
  BY <1>1
<1>3. back \in Seq(Rule) /\ Len(back) = Len(s) - i + 1
        /\ \A k \in 1..(Len(s) - i + 1) : back[k] = s[k + i - 1]
  BY <1>1
<1>4. <<e>> \in Seq(Rule) /\ Len(<<e>>) = 1 /\ <<e>>[1] = e
  OBVIOUS
<1> HIDE DEF front, back
<1>5. /\ front \o <<e>> \in Seq(Rule) /\ Len(front \o <<e>>) = i
      /\ \A k \in 1..i : (front \o <<e>>)[k] = IF k < i THEN s[k] ELSE e
  BY <1>1, <1>2, <1>4
<1>6. InsertAt(s, i, e) = (front \o <<e>>) \o back
  BY DEF InsertAt, front, back
<1> HIDE DEF InsertAt
<1>7. /\ InsertAt(s, i, e) \in Seq(Rule) /\ Len(InsertAt(s, i, e)) = Len(s) + 1
      /\ \A k \in 1..i : InsertAt(s, i, e)[k] = (front \o <<e>>)[k]
      /\ \A k \in (i + 1)..(Len(s) + 1) : InsertAt(s, i, e)[k] = back[k - i]
  BY <1>1, <1>3, <1>5, <1>6
<1>8. \A k \in (i + 1)..(Len(s) + 1) : k - i \in 1..(Len(s) - i + 1) /\ (k - i) + i - 1 = k - 1
  BY <1>1
<1>9. \A k \in (i + 1)..(Len(s) + 1) : InsertAt(s, i, e)[k] = s[k - 1]
  BY <1>3, <1>7, <1>8
<1> QED BY <1>1, <1>5, <1>7, <1>9

LEMMA OneLess ==
  ASSUME NEW S, NEW s \in Seq(S), NEW i \in 1..Len(s)
  PROVE  /\ RemoveAt(s, i) \in Seq(S)
         /\ Len(RemoveAt(s, i)) = Len(s) - 1
         /\ \A k \in 1..(Len(s) - 1) : RemoveAt(s, i)[k] = IF k < i THEN s[k] ELSE s[k + 1]
<1> DEFINE front == SubSeq(s, 1, i - 1)
           back == SubSeq(s, i + 1, Len(s))
<1>1. Len(s) \in Nat /\ i \in Nat
  OBVIOUS
<1>2. front \in Seq(S) /\ Len(front) = i - 1 /\ \A k \in 1..(i - 1) : front[k] = s[k]
  BY <1>1
<1>3. back \in Seq(S) /\ Len(back) = Len(s) - i
        /\ \A k \in 1..(Len(s) - i) : back[k] = s[k + i]
  BY <1>1
<1> HIDE DEF front, back
<1>4. RemoveAt(s, i) = front \o back
  BY DEF RemoveAt, front, back
<1>5. /\ RemoveAt(s, i) \in Seq(S) /\ Len(RemoveAt(s, i)) = Len(s) - 1
      /\ \A k \in 1..(i - 1) : RemoveAt(s, i)[k] = front[k]
      /\ \A k \in i..(Len(s) - 1) : RemoveAt(s, i)[k] = back[k - i + 1]
  BY <1>1, <1>2, <1>3, <1>4
<1>6. \A k \in i..(Len(s) - 1) : k - i + 1 \in 1..(Len(s) - i) /\ (k - i + 1) + i = k + 1
  BY <1>1
<1>7. \A k \in i..(Len(s) - 1) : RemoveAt(s, i)[k] = s[k + 1]
  BY <1>3, <1>5, <1>6
<1> QED BY <1>1, <1>2, <1>5, <1>7

-----------------------------------------------------------------------------
(***************************************************************************)
(* Verdicts.                                                               *)
(***************************************************************************)
LEMMA NoneApplies ==
  ASSUME NEW rules, NEW a, \A i \in 1..Len(rules) : ~ Applies(a, rules[i])
  PROVE  checkACL(rules, a) = "deny"
BY DEF checkACL, SelectInSeq

LEMMA FirstDecides ==
  ASSUME NEW rules, NEW a, Len(rules) \in Nat, NEW i \in 1..Len(rules),
         Applies(a, rules[i]), \A k \in 1..(i - 1) : ~ Applies(a, rules[k])
  PROVE  checkACL(rules, a) = rules[i].access
<1> DEFINE at == {k \in 1..Len(rules) : Applies(a, rules[k])}
<1>1. at # {} /\ at \in SUBSET (1..Len(rules)) /\ i \in at
  OBVIOUS
<1>2. \A k \in at : i <= k
  OBVIOUS
<1> HIDE DEF at
<1>3. Min(at) = i
  BY <1>1, <1>2, FirstIs
<1> QED BY <1>1, <1>3 DEF checkACL, SelectInSeq, at

\* Either no rule applies or there is a first one that does.
LEMMA AppliesOrNot ==
  ASSUME NEW rules, NEW a, Len(rules) \in Nat
  PROVE  \/ \A i \in 1..Len(rules) : ~ Applies(a, rules[i])
         \/ \E i \in 1..Len(rules) :
              Applies(a, rules[i]) /\ \A k \in 1..(i - 1) : ~ Applies(a, rules[k])
<1> DEFINE at == {k \in 1..Len(rules) : Applies(a, rules[k])}
<1> SUFFICES ASSUME at # {}
             PROVE  \E i \in 1..Len(rules) :
                      Applies(a, rules[i]) /\ \A k \in 1..(i - 1) : ~ Applies(a, rules[k])
  OBVIOUS
<1>1. Min(at) \in at /\ \A k \in 1..Len(rules) : k \in at => Min(at) <= k
  <2>1. at \in SUBSET (1..Len(rules))
    OBVIOUS
  <2> HIDE DEF at
  <2> QED BY <2>1, FirstIs
<1>2. \A k \in 1..(Min(at) - 1) : ~ Applies(a, rules[k])
  BY <1>1
<1> QED BY <1>1, <1>2

\* A list with a rule put at position i + 1: what stands in front decides as before.
LEMMA InsertedDecides ==
  ASSUME NEW rules \in Seq(Rule), NEW r \in Rule, NEW i \in 0..Len(rules), NEW a
  PROVE  checkACL(InsertAt(rules, i + 1, r), a) =
           IF (\E k \in 1..i : Applies(a, rules[k])) \/ ~ Applies(a, r)
           THEN checkACL(rules, a) ELSE r.access
<1> DEFINE after == InsertAt(rules, i + 1, r)
<1>1. /\ Len(rules) \in Nat /\ Len(after) = Len(rules) + 1
      /\ \A k \in 1..(Len(rules) + 1) :
           after[k] = IF k < i + 1 THEN rules[k] ELSE IF k = i + 1 THEN r ELSE rules[k - 1]
  <2>1. Len(rules) \in Nat /\ i + 1 \in 1..(Len(rules) + 1)
    OBVIOUS
  <2> DEFINE at == i + 1
  <2> HIDE DEF at
  <2>2. at \in 1..(Len(rules) + 1)
    BY <2>1 DEF at
  <2>3. /\ InsertAt(rules, at, r) \in Seq(Rule)
        /\ Len(InsertAt(rules, at, r)) = Len(rules) + 1
        /\ \A k \in 1..(Len(rules) + 1) :
             InsertAt(rules, at, r)[k] = IF k < at THEN rules[k] ELSE IF k = at THEN r ELSE rules[k - 1]
    BY <2>2, Inserted
  <2> HIDE DEF after
  <2> QED BY <2>1, <2>3 DEF after, at
<1> HIDE DEF after
<1>2. CASE \E k \in 1..i : Applies(a, rules[k])
  <2>1. PICK k \in 1..Len(rules) : Applies(a, rules[k]) /\ \A l \in 1..(k - 1) : ~ Applies(a, rules[l])
    <3>1. \E k \in 1..Len(rules) : Applies(a, rules[k])
      BY <1>1, <1>2
    <3> QED BY <1>1, <3>1, AppliesOrNot
  <2>2. k <= i
    BY <1>1, <1>2, <2>1
  <2>3. checkACL(rules, a) = rules[k].access
    BY <1>1, <2>1, FirstDecides
  <2>4. after[k] = rules[k] /\ \A l \in 1..(k - 1) : after[l] = rules[l]
    BY <1>1, <2>2
  <2>5. checkACL(after, a) = after[k].access
    BY <1>1, <2>1, <2>4, FirstDecides
  <2> QED BY <1>2, <2>3, <2>4, <2>5 DEF after
<1>3. CASE (\A k \in 1..i : ~ Applies(a, rules[k])) /\ Applies(a, r)
  <2>1. after[i + 1] = r /\ i + 1 \in 1..Len(after)
    BY <1>1
  <2>2. \A k \in 1..((i + 1) - 1) : ~ Applies(a, after[k])
    BY <1>1, <1>3
  <2>3. checkACL(after, a) = after[i + 1].access
    BY <1>1, <1>3, <2>1, <2>2, FirstDecides
  <2> QED BY <1>3, <2>1, <2>3 DEF after
<1>4. CASE (\A k \in 1..i : ~ Applies(a, rules[k])) /\ ~ Applies(a, r)
  <2>1. CASE \A k \in 1..Len(rules) : ~ Applies(a, rules[k])
    <3>1. \A k \in 1..Len(after) : ~ Applies(a, after[k])
      BY <1>1, <1>4, <2>1
    <3> QED BY <1>4, <2>1, <3>1, NoneApplies DEF after
  <2>2. CASE \E k \in 1..Len(rules) :
               Applies(a, rules[k]) /\ \A l \in 1..(k - 1) : ~ Applies(a, rules[l])
    <3>1. PICK k \in 1..Len(rules) : Applies(a, rules[k]) /\ \A l \in 1..(k - 1) : ~ Applies(a, rules[l])
      BY <2>2
    <3>2. k > i
      BY <1>1, <1>4, <3>1
    <3>3. after[k + 1] = rules[k] /\ k + 1 \in 1..Len(after)
      BY <1>1, <3>2
    <3>4. \A l \in 1..((k + 1) - 1) : ~ Applies(a, after[l])
      BY <1>1, <1>4, <3>1, <3>2
    <3> DEFINE at == k + 1
    <3>a. at \in 1..Len(after) /\ Applies(a, after[at]) /\ \A l \in 1..(at - 1) : ~ Applies(a, after[l])
      BY <3>1, <3>3, <3>4
    <3> HIDE DEF at
    <3>b. checkACL(after, a) = after[at].access
      BY <1>1, <3>a, FirstDecides
    <3>5. checkACL(after, a) = after[k + 1].access
      BY <3>b DEF at
    <3>6. checkACL(rules, a) = rules[k].access
      BY <1>1, <3>1, FirstDecides
    <3> QED BY <1>4, <3>3, <3>5, <3>6 DEF after
  <2> QED BY <1>1, <2>1, <2>2, AppliesOrNot
<1> QED BY <1>2, <1>3, <1>4

-----------------------------------------------------------------------------
(***************************************************************************)
(* What is read of a list in the file.                                     *)
(***************************************************************************)
LEMMA KeptIs ==
  ASSUME NEW entries \in Seq(Entries), NEW k \in Nat
  PROVE  /\ Len(entries) \in Nat /\ DOMAIN entries = 1..Len(entries)
         /\ Kept(entries) \subseteq 1..Len(entries) /\ KeptUpTo(entries, k) \subseteq Kept(entries)
         /\ IsFiniteSet(Kept(entries)) /\ Cardinality(Kept(entries)) \in Nat
         /\ IsFiniteSet(KeptUpTo(entries, k)) /\ Cardinality(KeptUpTo(entries, k)) \in Nat
<1>1. Len(entries) \in Nat /\ DOMAIN entries = 1..Len(entries)
  OBVIOUS
<1>2. Kept(entries) \subseteq 1..Len(entries) /\ KeptUpTo(entries, k) \subseteq Kept(entries)
  BY <1>1 DEF Kept, KeptUpTo
<1>3. IsFiniteSet(1..Len(entries))
  BY <1>1, FS_Interval
<1>4. IsFiniteSet(Kept(entries)) /\ IsFiniteSet(KeptUpTo(entries, k))
  BY <1>2, <1>3, FS_Subset
<1> QED BY <1>1, <1>2, <1>4, FS_CardinalityType

\* There are as many rules as complete entries: the i-th is there.
LEMMA EntryIs ==
  ASSUME NEW entries \in Seq(Entries), NEW i \in 1..Cardinality(Kept(entries))
  PROVE  /\ EntryAt(entries, i) \in Kept(entries)
         /\ Cardinality(KeptUpTo(entries, EntryAt(entries, i))) = i
<1> DEFINE K == Kept(entries)
           n == Len(entries)
           r(m) == Cardinality(KeptUpTo(entries, m))
           far == {m \in 1..n : r(m) >= i}
<1>1. n \in Nat /\ K \subseteq 1..n /\ IsFiniteSet(K) /\ Cardinality(K) \in Nat /\ i \in Nat /\ i >= 1
  BY KeptIs
<1>2. \A m \in Nat : r(m) \in Nat /\ IsFiniteSet(KeptUpTo(entries, m))
  BY KeptIs
<1>3. KeptUpTo(entries, 0) = {} /\ KeptUpTo(entries, n) = K
  BY <1>1 DEF KeptUpTo
<1>4. r(0) = 0 /\ r(n) = Cardinality(K)
  BY <1>3, FS_EmptySet
<1>5. n \in far
  <2>1. n # 0
    BY <1>1, <1>4
  <2> QED BY <1>1, <1>4, <2>1
<1>6. far \in SUBSET (1..n)
  OBVIOUS
<1> DEFINE m == Min(far)
<1>7. m \in far /\ \A k \in 1..n : k \in far => m <= k
  <2> HIDE DEF far
  <2> QED BY <1>1, <1>5, <1>6, FirstIs
<1>8. m \in 1..n /\ r(m) >= i
  BY <1>7
<1>9. r(m - 1) < i
  <2>1. CASE m = 1
    BY <1>1, <1>4, <2>1
  <2>2. CASE m # 1
    <3>1. m - 1 \in 1..n /\ m - 1 < m
      BY <1>1, <1>8, <2>2
    <3>2. m - 1 \notin far
      BY <1>1, <1>7, <1>8, <3>1
    <3>3. r(m - 1) \in Nat
      BY <1>1, <1>2, <3>1
    <3> QED BY <1>1, <3>1, <3>2, <3>3
  <2> QED BY <2>1, <2>2
<1> HIDE DEF m
<1>10. m \in K
  <2> SUFFICES ASSUME m \notin K PROVE FALSE
    OBVIOUS
  <2>1. KeptUpTo(entries, m) = KeptUpTo(entries, m - 1)
    BY <1>1, <1>8 DEF KeptUpTo
  <2>2. r(m) = r(m - 1) /\ r(m) \in Nat
    BY <1>1, <1>2, <1>8, <2>1
  <2> QED BY <1>1, <1>8, <1>9, <2>2
<1>11. r(m) = r(m - 1) + 1
  <2>1. KeptUpTo(entries, m) = KeptUpTo(entries, m - 1) \cup {m} /\ m \notin KeptUpTo(entries, m - 1)
    BY <1>1, <1>8, <1>10 DEF KeptUpTo
  <2>2. IsFiniteSet(KeptUpTo(entries, m - 1))
    BY <1>1, <1>2, <1>8
  <2> QED BY <2>1, <2>2, FS_AddElement
<1>12. r(m) = i
  <2>1. m \in Nat /\ m - 1 \in Nat
    BY <1>1, <1>8
  <2>2. r(m) \in Nat /\ r(m - 1) \in Nat
    BY <1>2, <2>1
  <2> HIDE DEF r
  <2> QED BY <1>1, <1>8, <1>9, <1>11, <2>2
<1> QED BY <1>10, <1>12 DEF EntryAt

LEMMA TypeRead ==
  ASSUME NEW entries \in Seq(Entries), NEW k \in Nat
  PROVE  readType(entries, k) \in Accesses
<1> DEFINE known == {j \in KeptUpTo(entries, k) : entries[j].allowed \in Accesses}
<1>1. "deny" \in Accesses
  BY DEF Accesses
<1>2. CASE known = {}
  BY <1>1, <1>2 DEF readType
<1>3. CASE known # {}
  <2>1. known \in SUBSET (1..Len(entries)) /\ Len(entries) \in Nat
    BY KeptIs
  <2>2. \A j \in known : entries[j].allowed \in Accesses
    OBVIOUS
  <2>3. readType(entries, k) = entries[Max(known)].allowed
    BY <1>3 DEF readType
  <2> HIDE DEF known
  <2>4. Max(known) \in known
    BY <1>3, <2>1, GreatestIs
  <2> QED BY <2>2, <2>3, <2>4
<1> QED BY <1>2, <1>3

\* Whatever a file holds, what is read of it are rules.
LEMMA RulesRead ==
  ASSUME NEW entries \in Seq(Entries)
  PROVE  readACLList(entries) \in Seq(Rule)
<1> DEFINE n == Cardinality(Kept(entries))
           rule(i) == [entries[EntryAt(entries, i)].rule EXCEPT
                         !.access = readType(entries, EntryAt(entries, i))]
<1>1. n \in Nat
  BY 0 \in Nat, KeptIs
<1>2. ASSUME NEW i \in 1..n PROVE rule(i) \in Rule
  <2>1. EntryAt(entries, i) \in 1..Len(entries) /\ Len(entries) \in Nat
    BY 0 \in Nat, EntryIs, KeptIs
  <2>2. entries[EntryAt(entries, i)] \in Entries
    BY <2>1
  <2>3. readType(entries, EntryAt(entries, i)) \in Accesses
    BY <2>1, TypeRead
  <2> QED BY <2>2, <2>3 DEF Entries, Rule
<1>3. readACLList(entries) = [i \in 1..n |-> rule(i)]
  BY DEF readACLList
<1> HIDE DEF n, rule
<1> QED BY <1>1, <1>2, <1>3

LEMMA SavedIs ==
  ASSUME NEW r
  PROVE  SavedRule(r).complete /\ SavedRule(r).allowed = r.access /\ SavedRule(r).rule = r
<1>1. SavedRule(r).complete
  BY DEF SavedRule
<1>2. SavedRule(r).allowed = r.access
  BY DEF SavedRule
<1>3. SavedRule(r).rule = r
  BY DEF SavedRule
<1> QED BY <1>1, <1>2, <1>3

LEMMA SavedTypes ==
  ASSUME NEW r \in Rule
  PROVE  SavedRule(r) \in Entries
<1>1. r.access \in Accesses
  BY DEF Rule
<1> QED BY <1>1 DEF SavedRule, Entries

\* What was saved of a list is read again.
LEMMA SavedRulesRead ==
  ASSUME NEW rules \in Seq(Rule)
  PROVE  readACLList([i \in DOMAIN rules |-> SavedRule(rules[i])]) = rules
<1> DEFINE entries == [i \in DOMAIN rules |-> SavedRule(rules[i])]
           n == Len(rules)
<1>1. n \in Nat /\ DOMAIN rules = 1..n /\ \A i \in 1..n : rules[i] \in Rule
  OBVIOUS
<1>2. \A i \in 1..n : entries[i] = SavedRule(rules[i])
  BY <1>1
<1>e. entries = [i \in 1..n |-> entries[i]]
  BY <1>1
<1> HIDE DEF entries
<1>3. \A i \in 1..n : entries[i] \in Entries /\ entries[i].allowed \in Accesses
  <2>1. \A r \in Rule : r.access \in Accesses
    BY DEF Rule
  <2> SUFFICES ASSUME NEW i \in 1..n PROVE entries[i] \in Entries /\ entries[i].allowed \in Accesses
    OBVIOUS
  <2>2. rules[i] \in Rule /\ rules[i].access \in Accesses
    BY <1>1, <2>1
  <2>s. entries[i] = SavedRule(rules[i])
    BY <1>2
  <2>3. entries[i] = [complete |-> TRUE, allowed |-> rules[i].access, rule |-> rules[i]]
    BY <2>s DEF SavedRule
  <2>4. entries[i].allowed = rules[i].access
    BY <2>s, SavedIs, Zenon
  <2>5. entries[i] \in [complete : BOOLEAN, allowed : Accesses \cup {"other"}, rule : Rule]
    BY <2>2, <2>3
  <2> QED BY <2>2, <2>4, <2>5 DEF Entries
<1>3a. ASSUME NEW i \in 1..n PROVE entries[i].allowed = rules[i].access /\ entries[i].rule = rules[i]
  <2> QED BY <1>2, SavedIs, Zenon
<1>4. entries \in Seq(Entries) /\ Len(entries) = n /\ DOMAIN entries = 1..n
  BY <1>1, <1>3, <1>e
<1>5. Kept(entries) = 1..n
  BY <1>2, <1>4, SavedIs DEF Kept
<1>6. \A k \in 1..n : KeptUpTo(entries, k) = 1..k
  BY <1>1, <1>5 DEF KeptUpTo
<1>7. Cardinality(Kept(entries)) = n /\ \A k \in 1..n : Cardinality(KeptUpTo(entries, k)) = k
  <2>1. \A k \in 0..n : Cardinality(1..k) = k
    BY <1>1, FS_Interval
  <2> QED BY <1>1, <1>5, <1>6, <2>1
<1> HIDE DEF n
<1>8. \A i \in 1..n : EntryAt(entries, i) = i
  BY <1>1, <1>4, <1>5, <1>7, EntryIs
<1>9. ASSUME NEW i \in 1..n PROVE readType(entries, i) = rules[i].access
  <2> DEFINE known == {j \in KeptUpTo(entries, i) : entries[j].allowed \in Accesses}
  <2>1. known = 1..i
    BY <1>1, <1>3, <1>6
  <2>2. known # {} /\ i \in Nat /\ i \in known
    BY <1>1, <2>1
  <2>3. readType(entries, i) = entries[Max(known)].allowed
    BY <2>2 DEF readType
  <2> HIDE DEF known
  <2>4. Max(known) \in known /\ \A j \in known : j <= Max(known)
    BY <2>1, <2>2, GreatestIs
  <2>5. Max(known) = i
    BY <2>1, <2>2, <2>4
  <2> QED BY <1>3a, <2>3, <2>5
<1>10. \A i \in 1..n : [entries[i].rule EXCEPT !.access = readType(entries, i)] = rules[i]
  <2>1. \A r \in Rule : [r EXCEPT !.access = r.access] = r
    BY DEF Rule
  <2> QED BY <1>1, <1>3a, <1>9, <2>1
<1>11. readACLList(entries) = [i \in 1..n |-> [entries[i].rule EXCEPT !.access = readType(entries, i)]]
  BY <1>7, <1>8 DEF readACLList
<1>12. readACLList(entries) = [i \in 1..n |-> rules[i]]
  BY <1>10, <1>11
<1> QED BY <1>1, <1>12 DEF entries, n
-----------------------------------------------------------------------------
(***************************************************************************)
(* Lists by their names, and the lists of a new process.                   *)
(***************************************************************************)
LEMMA GetIs ==
  ASSUME NEW h, NEW ch, Len(ch) \in Nat, NEW n
  PROVE  \/ getACL(h, ch, n) = None /\ \A i \in 1..Len(ch) : h[ch[i]].name # n
         \/ \E i \in 1..Len(ch) : h[ch[i]].name = n /\ getACL(h, ch, n) = ch[i]
<1> DEFINE at == {i \in 1..Len(ch) : h[ch[i]].name = n}
<1>1. CASE at = {}
  BY <1>1 DEF getACL, SelectInSeq
<1>2. CASE at # {}
  <2>1. at \in SUBSET (1..Len(ch)) /\ \A i \in at : h[ch[i]].name = n
    OBVIOUS
  <2>2. getACL(h, ch, n) = IF Min(at) = 0 THEN None ELSE ch[Min(at)]
    BY <1>2 DEF getACL, SelectInSeq
  <2> HIDE DEF at
  <2>3. Min(at) \in 1..Len(ch) /\ Min(at) \in at
    BY <1>2, <2>1, FirstIs
  <2> QED BY <2>1, <2>2, <2>3
<1> QED BY <1>1, <1>2

LEMMA LoadedHeapIs ==
  ASSUME NEW doc, IsDocument(doc)
  PROVE  /\ Len(doc.lists) \in Nat /\ Len(doc.lists) <= MaxLists
         /\ DOMAIN LoadedHeap(doc) = 1..(2 + Len(doc.lists))
         /\ LoadedHeap(doc) \in [1..(2 + Len(doc.lists)) -> Lists]
<1> DEFINE n == Len(doc.lists)
<1>1. MaxLists \in Nat
  BY AclAssumption
<1>2. n \in Nat /\ n <= MaxLists /\ \A i \in 1..n : doc.lists[i] \in FileLists
  <2>1. CASE doc = NoFile
    <3>1. doc.lists = <<>>
      BY <2>1 DEF NoFile
    <3> QED BY <1>1, <3>1
  <2>2. CASE doc # NoFile
    <3>1. doc.lists \in Seq(FileLists) /\ Len(doc.lists) <= MaxLists
      BY <2>2 DEF IsDocument
    <3> QED BY <3>1
  <2> QED BY <2>1, <2>2
<1>3. InitLists[1] \in Lists /\ InitLists[2] \in Lists
  <2>1. DefaultRule \in Rule /\ AnyRule("permit") \in Rule
    BY DEF DefaultRule, AnyRule, Rule, Families, Bit, Accesses
  <2>2. <<DefaultRule>> \in Seq(Rule) /\ <<AnyRule("permit")>> \in Seq(Rule)
    BY <2>1
  <2>3. "denyall" \in Names /\ "permitall" \in Names
    BY DEF Names
  <2> QED BY <2>2, <2>3 DEF InitLists, NewList, Lists
<1>4. ASSUME NEW c \in 3..(2 + n)
      PROVE  [name |-> doc.lists[c - 2].name, rules |-> readACLList(doc.lists[c - 2].rules)] \in Lists
  <2>1. doc.lists[c - 2] \in FileLists
    BY <1>2
  <2>2. doc.lists[c - 2].name \in Names /\ doc.lists[c - 2].rules \in Seq(Entries)
    BY <2>1 DEF FileLists
  <2>3. readACLList(doc.lists[c - 2].rules) \in Seq(Rule)
    BY <2>2, RulesRead
  <2> QED BY <2>2, <2>3 DEF Lists
<1>5. \A c \in 1..(2 + n) : c = 1 \/ c = 2 \/ c \in 3..(2 + n)
  BY <1>2
<1>6. \A c \in 3..(2 + n) : ~(c < 3)
  BY <1>2
<1>7. \A c \in 1..(2 + n) :
        (IF c < 3 THEN InitLists[c]
         ELSE [name |-> doc.lists[c - 2].name, rules |-> readACLList(doc.lists[c - 2].rules)]) \in Lists
  BY <1>3, <1>4, <1>5, <1>6
<1> QED BY <1>2, <1>7 DEF LoadedHeap

LEMMA LoadedChainIs ==
  ASSUME NEW doc, IsDocument(doc)
  PROVE  /\ LoadedChain(doc) \in Seq(1..(2 + Len(doc.lists))) /\ Len(LoadedChain(doc)) <= MaxLists
         /\ \A i, j \in DOMAIN LoadedChain(doc) :
              LoadedHeap(doc)[LoadedChain(doc)[i]].name = LoadedHeap(doc)[LoadedChain(doc)[j]].name => i = j
<1> DEFINE n == Len(doc.lists)
<1>1. MaxLists \in Nat /\ MaxLists >= 2 /\ n \in Nat /\ n <= MaxLists
  BY AclAssumption, LoadedHeapIs
<1>2. CASE doc = NoFile
  <2>1. LoadedChain(doc) = <<1, 2>>
    BY <1>2 DEF LoadedChain
  <2>2. LoadedHeap(doc)[1] = InitLists[1] /\ LoadedHeap(doc)[2] = InitLists[2]
    BY <1>1 DEF LoadedHeap
  <2>3. InitLists[1].name = "denyall" /\ InitLists[2].name = "permitall"
    BY DEF InitLists, NewList
  <2>4. <<1, 2>> \in Seq(1..(2 + n)) /\ Len(<<1, 2>>) = 2 /\ DOMAIN <<1, 2>> = 1..2
          /\ <<1, 2>>[1] = 1 /\ <<1, 2>>[2] = 2
    BY <1>1
  <2>5. \A i \in 1..2 : i = 1 \/ i = 2
    OBVIOUS
  <2> QED BY <1>1, <2>1, <2>2, <2>3, <2>4, <2>5
<1>3. CASE doc # NoFile
  <2>1. doc.lists \in Seq(FileLists)
          /\ \A i, j \in DOMAIN doc.lists : doc.lists[i].name = doc.lists[j].name => i = j
    BY <1>3 DEF IsDocument
  <2>2. LoadedChain(doc) = [i \in 1..n |-> i + 2] /\ DOMAIN doc.lists = 1..n
    BY <1>3, <2>1 DEF LoadedChain
  <2>3. LoadedChain(doc) \in Seq(1..(2 + n)) /\ Len(LoadedChain(doc)) = n
          /\ DOMAIN LoadedChain(doc) = 1..n /\ \A i \in 1..n : LoadedChain(doc)[i] = i + 2
    BY <1>1, <2>2
  <2>4. \A i \in 1..n : LoadedHeap(doc)[i + 2].name = doc.lists[i].name
    <3> SUFFICES ASSUME NEW i \in 1..n PROVE LoadedHeap(doc)[i + 2].name = doc.lists[i].name
      OBVIOUS
    <3>1. i + 2 \in 1..(2 + n) /\ ~(i + 2 < 3) /\ (i + 2) - 2 = i
      BY <1>1
    <3>2. LoadedHeap(doc)[i + 2] =
            [name |-> doc.lists[(i + 2) - 2].name, rules |-> readACLList(doc.lists[(i + 2) - 2].rules)]
      BY <3>1 DEF LoadedHeap
    <3> QED BY <3>1, <3>2
  <2> QED BY <1>1, <2>1, <2>2, <2>3, <2>4
<1> QED BY <1>2, <1>3

LEMMA LoadedUseIs ==
  ASSUME NEW doc, IsDocument(doc)
  PROVE  LoadedUse(doc) \in [Listeners -> 1..(2 + Len(doc.lists))]
<1>1. Len(doc.lists) \in Nat
  BY LoadedHeapIs
<1>2. \A l \in Listeners : InitUse[l] \in 1..(2 + Len(doc.lists))
  BY <1>1 DEF InitUse
<1>3. ASSUME NEW l \in Listeners, doc # NoFile,
             getACL(LoadedHeap(doc), LoadedChain(doc), doc.use[l]) # None
      PROVE  getACL(LoadedHeap(doc), LoadedChain(doc), doc.use[l]) \in 1..(2 + Len(doc.lists))
  <2>1. LoadedChain(doc) \in Seq(1..(2 + Len(doc.lists)))
    BY LoadedChainIs
  <2>2. Len(LoadedChain(doc)) \in Nat
    BY <2>1
  <2> DEFINE h == LoadedHeap(doc)
             ch == LoadedChain(doc)
             named == doc.use[l]
  <2> HIDE DEF h, ch, named
  <2>b. Len(ch) \in Nat
    BY <2>2 DEF ch
  <2>a. \/ getACL(h, ch, named) = None
        \/ \E i \in 1..Len(ch) : getACL(h, ch, named) = ch[i]
    BY <2>b, GetIs
  <2>3. PICK i \in 1..Len(LoadedChain(doc)) :
          getACL(LoadedHeap(doc), LoadedChain(doc), doc.use[l]) = LoadedChain(doc)[i]
    BY <1>3, <2>a DEF h, ch, named
  <2> QED BY <2>1, <2>3
<1> DEFINE found(l) == IF doc = NoFile THEN None
                       ELSE getACL(LoadedHeap(doc), LoadedChain(doc), doc.use[l])
<1>4. LoadedUse(doc) = [l \in Listeners |-> IF found(l) = None THEN InitUse[l] ELSE found(l)]
  BY DEF LoadedUse
<1>5. \A l \in Listeners : found(l) # None => found(l) \in 1..(2 + Len(doc.lists))
  BY <1>3
<1> HIDE DEF found
<1> QED BY <1>2, <1>4, <1>5

LEMMA CellsAre == \A n \in Nat : n <= MaxLists => 1..(2 + n) \subseteq Cells
BY AclAssumption DEF Cells

LEMMA NoFileIsDocument == IsDocument(NoFile)
BY DEF IsDocument

\* What is saved can be read, if no listener has lost its list.
LEMMA SavedIsDocument ==
  ASSUME NEW h, NEW ch, NEW us, NEW live,
         h \in [live -> Lists], ch \in Seq(live), Len(ch) <= MaxLists,
         \A i, j \in DOMAIN ch : h[ch[i]].name = h[ch[j]].name => i = j,
         \A l \in Listeners : us[l] \in live
  PROVE  IsDocument([lists |-> [i \in DOMAIN ch |-> SavedList(h[ch[i]])],
                     use |-> [l \in Listeners |-> h[us[l]].name]])
<1> DEFINE n == Len(ch)
           lists == [i \in DOMAIN ch |-> SavedList(h[ch[i]])]
           names == [l \in Listeners |-> h[us[l]].name]
<1>1. n \in Nat /\ DOMAIN ch = 1..n /\ \A i \in 1..n : ch[i] \in live /\ h[ch[i]] \in Lists
  OBVIOUS
<1>2. ASSUME NEW i \in 1..n
      PROVE  SavedList(h[ch[i]]) \in FileLists /\ SavedList(h[ch[i]]).name = h[ch[i]].name
  <2> DEFINE list == h[ch[i]]
             rules == list.rules
             saved == [k \in DOMAIN rules |-> SavedRule(rules[k])]
  <2>1. list.name \in Names /\ rules \in Seq(Rule)
    BY <1>1 DEF Lists
  <2>2. SavedList(list) = [name |-> list.name, rules |-> saved]
    BY DEF SavedList
  <2>3. saved \in Seq(Entries)
    <3> HIDE DEF rules
    <3>1. Len(rules) \in Nat /\ DOMAIN rules = 1..Len(rules)
      BY <2>1
    <3>2. \A k \in 1..Len(rules) : SavedRule(rules[k]) \in Entries
      BY <2>1, SavedTypes
    <3> QED BY <3>1, <3>2
  <2> HIDE DEF saved, rules
  <2> QED BY <2>1, <2>2, <2>3 DEF FileLists
<1>3. /\ lists \in Seq(FileLists) /\ Len(lists) = n /\ DOMAIN lists = 1..n
      /\ \A i \in 1..n : lists[i].name = h[ch[i]].name
  <2>1. lists = [i \in 1..n |-> SavedList(h[ch[i]])]
    BY <1>1
  <2> QED BY <1>1, <1>2, <2>1
<1>4. names \in [Listeners -> Names]
  BY DEF Lists
<1>5. \A i, j \in 1..n : lists[i].name = lists[j].name => i = j
  BY <1>1, <1>3
<1> HIDE DEF lists, names
<1>6. [lists |-> lists, use |-> names] \in [lists : Seq(FileLists), use : [Listeners -> Names]]
        /\ [lists |-> lists, use |-> names].lists = lists
  BY <1>3, <1>4
<1>7. IsDocument([lists |-> lists, use |-> names])
  BY <1>3, <1>5, <1>6 DEF IsDocument
<1> QED BY <1>7 DEF lists, names

-----------------------------------------------------------------------------
(***************************************************************************)
(* The commands on lists.                                                  *)
(***************************************************************************)
LEMMA FoundIs ==
  ASSUME AclTypes, NEW n, getACL(heap, chain, n) # None
  PROVE  \E i \in 1..Len(chain) :
           /\ getACL(heap, chain, n) = chain[i] /\ heap[chain[i]].name = n
           /\ chain[i] \in Live /\ chain[i] \in Cells
<1>1. Len(chain) \in Nat /\ \A i \in 1..Len(chain) : chain[i] \in Live
  BY DEF AclTypes
<1> QED BY <1>1, GetIs DEF AclTypes

LEMMA ChainIs ==
  ASSUME AclTypes
  PROVE  /\ Len(chain) \in Nat /\ DOMAIN chain = 1..Len(chain)
         /\ \A i \in 1..Len(chain) : chain[i] \in Live /\ heap[chain[i]] \in Lists
BY DEF AclTypes

LEMMA CountedTypes ==
  ASSUME AclTypes, Counted
  PROVE  commands' \in 0..MaxCommands
BY AclAssumption DEF AclTypes, Counted

LEMMA ACLKeeps ==
  ASSUME AclTypes, NamesDiffer, NEW u \in Users, NEW n \in Names, ACL(u, n)
  PROVE  AclTypes' /\ NamesDiffer'
<1>1. commands' \in 0..MaxCommands /\ up' \in BOOLEAN /\ use' \in [Listeners -> Cells]
  BY CountedTypes DEF ACL, AclTypes
<1>2. CASE /\ getACL(heap, chain, n) # None
           /\ current' = [current EXCEPT ![u] = getACL(heap, chain, n)]
           /\ UNCHANGED <<heap, chain>>
  <2>1. getACL(heap, chain, n) \in Cells
    BY <1>2, FoundIs
  <2> QED BY <1>1, <1>2, <2>1 DEF AclTypes, NamesDiffer, Live
<1>3. ASSUME getACL(heap, chain, n) = None, Len(chain) < MaxLists,
             NEW c \in Cells \ Live,
             heap' = With(heap, c, NewList(n)), chain' = Append(chain, c),
             current' = [current EXCEPT ![u] = c]
      PROVE  AclTypes' /\ NamesDiffer'
  <2>1. Len(chain) \in Nat /\ \A i \in 1..Len(chain) : heap[chain[i]].name # n
    <3>1. \A i \in 1..Len(chain) : chain[i] \in Cells /\ chain[i] # None
      <4>1. Live \subseteq Cells
        BY DEF AclTypes
      <4>2. \A d \in Cells : d # None
        BY AclAssumption DEF Cells, None
      <4> QED BY <4>1, <4>2, ChainIs
    <3> QED BY <1>3, <3>1, ChainIs, GetIs
  <2>2. NewList(n) \in Lists /\ NewList(n).name = n
    <3>1. DefaultRule \in Rule
      BY DEF DefaultRule, AnyRule, Rule, Families, Bit, Accesses
    <3>2. <<DefaultRule>> \in Seq(Rule)
      BY <3>1
    <3> QED BY <3>2 DEF NewList, Lists
  <2>3. /\ Live' = Live \cup {c} /\ heap'[c] = NewList(n)
        /\ \A d \in Live : heap'[d] = heap[d]
    BY <1>3 DEF With, Live
  <2>4. heap' \in [Live' -> Lists] /\ Live' \subseteq Cells
    <3>1. heap' = [d \in Live' |-> heap'[d]]
      BY <1>3 DEF With, Live
    <3>2. \A d \in Live' : heap'[d] \in Lists
      BY <2>2, <2>3 DEF AclTypes
    <3>3. heap' \in [Live' -> Lists]
      BY <3>1, <3>2
    <3> QED BY <2>3, <3>3 DEF AclTypes
  <2>5. /\ chain' \in Seq(Live') /\ Len(chain') = Len(chain) + 1 /\ DOMAIN chain' = 1..(Len(chain) + 1)
        /\ chain'[Len(chain) + 1] = c /\ \A i \in 1..Len(chain) : chain'[i] = chain[i]
    <3>1. chain \in Seq(Live') /\ c \in Live'
      <4>1. \A i \in 1..Len(chain) : chain[i] \in Live'
        BY <2>3, ChainIs
      <4> HIDE DEF Live
      <4> QED BY <2>3, <4>1 DEF AclTypes
    <3> HIDE DEF Live
    <3> QED BY <1>3, <3>1
  <2>6. Len(chain') <= MaxLists
    BY <1>3, <2>1, <2>5, AclAssumption
  <2>7. current' \in [Users -> Cells \cup {None}]
    BY <1>3 DEF AclTypes
  <2>8. \A i \in 1..(Len(chain) + 1) : heap'[chain'[i]].name =
          IF i = Len(chain) + 1 THEN n ELSE heap[chain[i]].name
    BY <2>1, <2>2, <2>3, <2>5, ChainIs
  <2>9. NamesDiffer'
    <3>1. \A i, j \in 1..(Len(chain) + 1) : heap'[chain'[i]].name = heap'[chain'[j]].name => i = j
      <4>1. \A i, j \in 1..Len(chain) : heap[chain[i]].name = heap[chain[j]].name => i = j
        BY ChainIs DEF NamesDiffer
      <4> QED BY <2>1, <2>8, <4>1
    <3> QED BY <2>5, <3>1 DEF NamesDiffer
  <2> QED BY <1>1, <2>4, <2>5, <2>6, <2>7, <2>9 DEF AclTypes
<1> QED BY <1>2, <1>3 DEF ACL

LEMMA noACLKeeps ==
  ASSUME AclTypes, NamesDiffer, NEW u \in Users, NEW n \in Names, noACL(u, n)
  PROVE  AclTypes' /\ NamesDiffer'
<1>1. commands' \in 0..MaxCommands
  BY CountedTypes DEF noACL
<1>2. CASE Crash
  BY <1>1, <1>2 DEF Crash, AclTypes, NamesDiffer, Live
<1>3. ASSUME getACL(heap, chain, n) # None,
             chain' = RemoveFirst(chain, getACL(heap, chain, n)),
             heap' = Without(heap, getACL(heap, chain, n)),
             UNCHANGED <<use, current, up>>
      PROVE  AclTypes' /\ NamesDiffer'
  <2> DEFINE c == getACL(heap, chain, n)
             at == {i \in 1..Len(chain) : chain[i] = c}
             m == Min(at)
             L == Len(chain)
  <2>1. L \in Nat /\ DOMAIN chain = 1..L /\ \A i \in 1..L : chain[i] \in Live
    BY ChainIs
  <2>2. at # {} /\ at \in SUBSET (1..L) /\ \E i \in 1..L : chain[i] = c
    BY <1>3, FoundIs
  <2>3. m \in 1..L /\ chain[m] = c
    <3>1. \A i \in at : chain[i] = c
      OBVIOUS
    <3> HIDE DEF at
    <3> QED BY <2>1, <2>2, <3>1, FirstIs
  <2>4. chain' = RemoveAt(chain, m)
    BY <1>3, <2>2 DEF RemoveFirst, SelectInSeq
  <2> HIDE DEF m, at
  <2>5. /\ chain' \in Seq(Live) /\ Len(chain') = L - 1
        /\ \A k \in 1..(L - 1) : chain'[k] = IF k < m THEN chain[k] ELSE chain[k + 1]
    <3>1. chain \in Seq(Live)
      BY DEF AclTypes
    <3> HIDE DEF Live
    <3> QED BY <2>3, <2>4, <3>1, OneLess
  <2> DEFINE from(k) == IF k < m THEN k ELSE k + 1
  <2>6. /\ \A k \in 1..(L - 1) : from(k) \in 1..L /\ from(k) # m /\ chain'[k] = chain[from(k)]
        /\ \A j, k \in 1..(L - 1) : from(j) = from(k) => j = k
    BY <2>1, <2>3, <2>5
  <2> HIDE DEF from, c
  <2>7. Live' = Live \ {c} /\ \A d \in Live \ {c} : heap'[d] = heap[d]
    BY <1>3 DEF Without, Live, c
  <2>8. heap' \in [Live' -> Lists] /\ Live' \subseteq Cells
    <3>1. heap' = [d \in Live' |-> heap'[d]]
      BY <1>3 DEF Without, Live
    <3>2. \A d \in Live' : heap'[d] \in Lists
      BY <2>7 DEF AclTypes
    <3>3. heap' \in [Live' -> Lists]
      BY <3>1, <3>2
    <3> QED BY <2>7, <3>3 DEF AclTypes
  <2>9. \A k \in 1..(L - 1) : chain'[k] \in Live'
    <3> SUFFICES ASSUME NEW k \in 1..(L - 1) PROVE chain'[k] \in Live'
      OBVIOUS
    <3>1. chain[from(k)] # c
      BY <2>1, <2>3, <2>6 DEF NamesDiffer
    <3> QED BY <2>1, <2>6, <2>7, <3>1
  <2>10. chain' \in Seq(Live') /\ Len(chain') <= MaxLists /\ DOMAIN chain' = 1..(L - 1)
    <3>1. L <= MaxLists
      BY DEF AclTypes
    <3>2. DOMAIN chain' = 1..(L - 1) /\ L - 1 \in Nat /\ chain' = [k \in 1..(L - 1) |-> chain'[k]]
      BY <2>1, <2>3, <2>5
    <3> HIDE DEF Live
    <3> QED BY <2>1, <2>5, <2>9, <3>1, <3>2, AclAssumption
  <2>11. NamesDiffer'
    <3>1. \A k \in 1..(L - 1) : heap'[chain'[k]].name = heap[chain[from(k)]].name
      <4>1. \A k \in 1..(L - 1) : chain'[k] \in Live \ {c}
        BY <2>7, <2>9
      <4> QED BY <2>6, <2>7, <4>1
    <3>2. \A j, k \in 1..(L - 1) : heap'[chain'[j]].name = heap'[chain'[k]].name => from(j) = from(k)
      BY <2>1, <2>6, <3>1 DEF NamesDiffer
    <3> QED BY <2>6, <2>10, <3>2 DEF NamesDiffer
  <2> QED BY <1>1, <1>3, <2>8, <2>10, <2>11 DEF AclTypes
<1> QED BY <1>2, <1>3 DEF noACL
LEMMA EditsKeeps ==
  ASSUME AclTypes, NamesDiffer, NEW u \in Users, current[u] \in Live,
         NEW rules \in Seq(Rule), Edits(u, rules), commands' \in 0..MaxCommands
  PROVE  AclTypes' /\ NamesDiffer'
<1>1. heap' = [heap EXCEPT ![current[u]].rules = rules] /\ UNCHANGED <<chain, use, current, up>>
  BY DEF Edits
<1>2. Live' = Live
  BY <1>1 DEF Live
<1>3. heap' \in [Live' -> Lists] /\ \A c \in Live : heap'[c].name = heap[c].name
  <2>1. \A c \in Live : heap[c] \in Lists
    BY DEF AclTypes
  <2>2. \A c \in Live : heap'[c] = IF c = current[u] THEN [heap[c] EXCEPT !.rules = rules] ELSE heap[c]
    BY <1>1 DEF Live
  <2>3. \A list \in Lists : [list EXCEPT !.rules = rules] \in Lists
                              /\ [list EXCEPT !.rules = rules].name = list.name
    BY DEF Lists
  <2>4. heap' = [c \in Live |-> heap'[c]]
    BY <1>1 DEF Live
  <2> HIDE DEF Live
  <2> QED BY <1>2, <2>1, <2>2, <2>3, <2>4
<1>4. NamesDiffer'
  <2>1. \A i \in DOMAIN chain : heap'[chain[i]].name = heap[chain[i]].name
    BY <1>3, ChainIs
  <2> QED BY <1>1, <2>1 DEF NamesDiffer
<1> QED BY <1>1, <1>2, <1>3, <1>4 DEF AclTypes

LEMMA addACLRuleType ==
  ASSUME NEW rules \in Seq(Rule), NEW r \in Rule, NEW index \in Int
  PROVE  addACLRule(rules, index, r) \in Seq(Rule)
<1>1. Len(rules) \in Nat
  OBVIOUS
<1>2. CASE index < 0
  BY <1>2 DEF addACLRule
<1>3. CASE index >= 0 /\ index < Len(rules)
  <2>1. index + 1 \in 1..(Len(rules) + 1) /\ ~ (index < 0)
    BY <1>1, <1>3
  <2> QED BY <1>3, <2>1, Inserted DEF addACLRule
<1>4. CASE index >= 0 /\ ~ (index < Len(rules))
  <2> DEFINE at == IF rules = <<>> THEN 1 ELSE Len(rules)
  <2>1. at \in 1..(Len(rules) + 1) /\ ~ (index < 0)
    <3>1. rules # <<>> => Len(rules) > 0
      BY <1>1
    <3> QED BY <1>1, <1>4, <3>1
  <2>2. addACLRule(rules, index, r) = InsertAt(rules, at, r)
    BY <1>4, <2>1 DEF addACLRule
  <2> HIDE DEF at
  <2> QED BY <2>1, <2>2, Inserted
<1> QED BY <1>1, <1>2, <1>3, <1>4

LEMMA removeACLRuleType ==
  ASSUME NEW rules \in Seq(Rule), NEW index \in Int
  PROVE  removeACLRule(rules, index) \in Seq(Rule)
<1>1. Len(rules) \in Nat
  OBVIOUS
<1>2. CASE index \in 0..(Len(rules) - 1)
  <2>1. index + 1 \in 1..Len(rules)
    BY <1>1, <1>2
  <2> QED BY <1>2, <2>1, OneLess DEF removeACLRule
<1>3. CASE index \notin 0..(Len(rules) - 1)
  BY <1>3 DEF removeACLRule
<1> QED BY <1>2, <1>3

LEMMA CrashKeeps ==
  ASSUME AclTypes, NamesDiffer, Crash, commands' \in 0..MaxCommands
  PROVE  AclTypes' /\ NamesDiffer'
BY DEF Crash, AclTypes, NamesDiffer, Live

LEMMA ACLRuleKeeps ==
  ASSUME AclTypes, NamesDiffer, NEW u \in Users, NEW r \in Rule, NEW i \in Int, ACLRule(u, r, i)
  PROVE  AclTypes' /\ NamesDiffer'
<1>1. commands' \in 0..MaxCommands
  BY CountedTypes DEF ACLRule
<1>2. CASE Crash
  BY <1>1, <1>2, CrashKeeps
<1>3. CASE current[u] \in Live /\ Edits(u, addACLRule(heap[current[u]].rules, i, r))
  <2>1. heap[current[u]].rules \in Seq(Rule)
    BY <1>3 DEF AclTypes, Lists
  <2>2. addACLRule(heap[current[u]].rules, i, r) \in Seq(Rule)
    BY <2>1, addACLRuleType
  <2> QED BY <1>1, <1>3, <2>2, EditsKeeps
<1> QED BY <1>2, <1>3 DEF ACLRule

LEMMA noACLRuleKeeps ==
  ASSUME AclTypes, NamesDiffer, NEW u \in Users, NEW i \in Int, noACLRule(u, i)
  PROVE  AclTypes' /\ NamesDiffer'
<1>1. commands' \in 0..MaxCommands
  BY CountedTypes DEF noACLRule
<1>2. CASE Crash
  BY <1>1, <1>2, CrashKeeps
<1>3. CASE current[u] \in Live /\ Edits(u, removeACLRule(heap[current[u]].rules, i))
  <2>1. heap[current[u]].rules \in Seq(Rule)
    BY <1>3 DEF AclTypes, Lists
  <2>2. removeACLRule(heap[current[u]].rules, i) \in Seq(Rule)
    BY <2>1, removeACLRuleType
  <2> QED BY <1>1, <1>3, <2>2, EditsKeeps
<1> QED BY <1>2, <1>3 DEF noACLRule

LEMMA SetListenerAclKeeps ==
  ASSUME AclTypes, NamesDiffer, NEW u \in Users, NEW l \in Listeners, NEW n \in Names,
         SetListenerAcl(u, l, n)
  PROVE  AclTypes' /\ NamesDiffer'
<1>1. commands' \in 0..MaxCommands
  BY CountedTypes DEF SetListenerAcl
<1>2. getACL(heap, chain, n) \in Cells
  BY FoundIs DEF SetListenerAcl
<1> QED BY <1>1, <1>2 DEF SetListenerAcl, AclTypes, NamesDiffer, Live

LEMMA exitACLKeeps ==
  ASSUME AclTypes, NamesDiffer, NEW u \in Users, exitACL(u)
  PROVE  AclTypes' /\ NamesDiffer'
<1>1. commands' \in 0..MaxCommands
  BY CountedTypes DEF exitACL
<1> QED BY <1>1 DEF exitACL, AclTypes, NamesDiffer, Live

-----------------------------------------------------------------------------
(***************************************************************************)
(* Sessions, settings and the file.                                        *)
(***************************************************************************)
LEMMA MaxRulesType == \A i \in -1..MaxRules : i \in Int
BY AclAssumption

\* A command on lists leaves the lists in order.
LEMMA ListCommandKeepsLists ==
  ASSUME AclTypes, NamesDiffer, NEW u \in Users, ListCommand(u)
  PROVE  AclTypes' /\ NamesDiffer'
<1>1. RuleInputs \subseteq Rule /\ 0 \in Int
  BY AclAssumption
<1>2. \/ \E n \in Names : ACL(u, n) \/ noACL(u, n)
      \/ \E l \in Listeners, n \in Names : SetListenerAcl(u, l, n)
      \/ noACLRule(u, 0)
      \/ exitACL(u)
      \/ \E i \in -1..MaxRules : noACLRule(u, i)
      \/ \E i \in -1..MaxRules, r \in RuleInputs : ACLRule(u, r, i)
  BY DEF ListCommand
<1>3. CASE \E n \in Names : ACL(u, n) \/ noACL(u, n)
  BY <1>3, ACLKeeps, noACLKeeps
<1>4. CASE \E l \in Listeners, n \in Names : SetListenerAcl(u, l, n)
  BY <1>4, SetListenerAclKeeps
<1>5. CASE noACLRule(u, 0)
  BY <1>1, <1>5, noACLRuleKeeps
<1>6. CASE exitACL(u)
  BY <1>6, exitACLKeeps
<1>7. CASE \E i \in -1..MaxRules : noACLRule(u, i)
  BY <1>7, MaxRulesType, noACLRuleKeeps
<1>8. CASE \E i \in -1..MaxRules, r \in RuleInputs : ACLRule(u, r, i)
  BY <1>1, <1>8, MaxRulesType, ACLRuleKeeps
<1> QED BY <1>2, <1>3, <1>4, <1>5, <1>6, <1>7, <1>8

\* It leaves its session in enable mode, or ends BGPmon.
LEMMA ListCommandGoes ==
  ASSUME NEW u \in Users, ListCommand(u)
  PROVE  \/ \E m \in Enabled : mode[u] \in Enabled /\ Enters(u, m)
                /\ UNCHANGED <<listening, enableModeActive, settings, file>>
         \/ Aborted
<1>1. mode[u] \in Enabled /\ \E m \in Enabled : Goes(u, m)
  BY DEF ListCommand, Allowed, Enabled
<1> QED BY <1>1 DEF Goes
-----------------------------------------------------------------------------
LEMMA OnlyCurrent ==
  ASSUME AclTypes, NamesDiffer, UNCHANGED <<heap, chain, use, up, commands>>,
         current' \in [Users -> Cells \cup {None}]
  PROVE  AclTypes' /\ NamesDiffer'
BY DEF AclTypes, NamesDiffer, Live

\* A step that changes neither lists nor the file.
LEMMA EntersKeeps ==
  ASSUME IInv, NEW u \in Users, NEW m \in Modes, Enters(u, m),
         mode[u] \in Enabled => m \in Enabled \/ ~ enableModeActive',
         enableModeActive' \in BOOLEAN,
         enableModeActive' => enableModeActive \/ m \in Enabled,
         listening' \in BOOLEAN, UNCHANGED <<settings, file>>
  PROVE  CliTypes' /\ FileIsDocument' /\ EnableNotStuck'
<1>1. mode' \in [Users -> Modes] /\ mode'[u] = m /\ \A w \in Users \ {u} : mode'[w] = mode[w]
  BY DEF IInv, CliTypes, Enters
<1>2. EnableNotStuck'
  <2> SUFFICES ASSUME enableModeActive' PROVE \E w \in Users : mode'[w] \in Enabled
    BY DEF EnableNotStuck
  <2>1. CASE m \in Enabled
    BY <1>1, <2>1
  <2>2. CASE m \notin Enabled
    <3>1. mode[u] \notin Enabled /\ enableModeActive
      BY <2>2
    <3>2. PICK w \in Users : mode[w] \in Enabled
      BY <3>1 DEF IInv, EnableNotStuck
    <3> QED BY <1>1, <3>1, <3>2
  <2> QED BY <2>1, <2>2
<1>3. CliTypes'
  BY <1>1 DEF IInv, CliTypes
<1>4. FileIsDocument'
  BY DEF IInv, FileIsDocument
<1> QED BY <1>2, <1>3, <1>4

LEMMA AbortedKeeps ==
  ASSUME IInv, Aborted
  PROVE  CliTypes' /\ FileIsDocument' /\ EnableNotStuck'
<1>1. mode' \in [Users -> Modes]
  BY DEF Aborted, Modes
<1>2. CliTypes'
  BY <1>1 DEF IInv, CliTypes, Aborted
<1>3. EnableNotStuck'
  BY DEF EnableNotStuck, Aborted
<1>4. FileIsDocument'
  BY DEF IInv, FileIsDocument, Aborted
<1> QED BY <1>2, <1>3, <1>4

LEMMA UncountedCrash ==
  ASSUME IInv, Crash, UNCHANGED commands, Aborted
  PROVE  IInv'
<1>1. commands' \in 0..MaxCommands
  BY DEF IInv, AclTypes
<1>2. AclTypes' /\ NamesDiffer'
  BY <1>1, CrashKeeps DEF IInv
<1> QED BY <1>2, AbortedKeeps DEF IInv

\* One session moves on.
LEMMA SessionStep ==
  ASSUME IInv, NEW u \in Users,
         \/ startLogin(u) \/ Password(u) \/ enable(u) \/ EnablePassword(u)
         \/ disable(u) \/ configure(u) \/ exitConfigure(u) \/ exit(u) \/ Broken(u)
  PROVE  IInv'
<1> DEFINE only == UNCHANGED <<heap, chain, use, up, commands>>
           moves(m, flag) ==
             /\ Enters(u, m) /\ enableModeActive' = flag
             /\ UNCHANGED <<listening, settings, file>>
           away == [current EXCEPT ![u] = None]
<1>t. /\ away \in [Users -> Cells \cup {None}] /\ current \in [Users -> Cells \cup {None}]
      /\ enableModeActive \in BOOLEAN /\ listening \in BOOLEAN
  BY DEF IInv, AclTypes, CliTypes
<1> DEFINE quiet == \E m \in {"password", "access", "asked", "off"} :
                      mode[u] \notin Enabled /\ moves(m, enableModeActive)
           enabling == \E m \in {"enable", "configure"} :
                         /\ Enters(u, m) /\ enableModeActive' \in {TRUE, enableModeActive}
                         /\ UNCHANGED <<listening, settings, file>>
           disabling == \E m \in {"access", "off"} : moves(m, FALSE)
           stays == only /\ (current' = current \/ current' = away)
<1>a. ASSUME startLogin(u) \/ Password(u) \/ enable(u) \/ exit(u)
      PROVE  stays /\ quiet
  BY <1>a DEF startLogin, Arrives, Password, enable, exit, Allowed, Exits, Enters, aclVars, Enabled
<1>b. ASSUME EnablePassword(u)
      PROVE  stays /\ (quiet \/ enabling)
  BY <1>b DEF EnablePassword, Allowed, Enters, aclVars, Enabled
<1>c. ASSUME configure(u) \/ exitConfigure(u)
      PROVE  stays /\ enabling
  BY <1>c DEF configure, exitConfigure, Allowed, Enters, aclVars
<1>d. ASSUME disable(u) \/ Broken(u)
      PROVE  stays /\ disabling
  BY <1>d DEF disable, Broken, Allowed, Exits, Enters, aclVars
<1>1. stays /\ (quiet \/ enabling \/ disabling)
  BY <1>a, <1>b, <1>c, <1>d
<1>2. AclTypes' /\ NamesDiffer'
  BY <1>1, <1>t, OnlyCurrent DEF IInv
<1> DEFINE result == \E m \in Modes :
        /\ Enters(u, m) /\ UNCHANGED <<listening, settings, file>>
        /\ mode[u] \in Enabled => m \in Enabled \/ ~ enableModeActive'
        /\ enableModeActive' \in BOOLEAN
        /\ enableModeActive' => enableModeActive \/ m \in Enabled
<1>3. result
  <2>1. CASE quiet
    <3>1. \A m \in {"password", "access", "asked", "off"} : m \in Modes
      BY DEF Modes
    <3> QED BY <1>t, <2>1, <3>1
  <2>2. CASE enabling
    <3>1. \A m \in {"enable", "configure"} : m \in Modes /\ m \in Enabled
      BY DEF Modes, Enabled
    <3> QED BY <1>t, <2>2, <3>1
  <2>3. CASE disabling
    <3>1. \A m \in {"access", "off"} : m \in Modes
      BY DEF Modes
    <3> QED BY <1>t, <2>3, <3>1
  <2> QED BY <1>1, <2>1, <2>2, <2>3
<1>4. listening' \in BOOLEAN
  BY <1>t, <1>3
<1>5. CliTypes' /\ FileIsDocument' /\ EnableNotStuck'
  BY <1>3, <1>4, EntersKeeps
<1> QED BY <1>2, <1>5 DEF IInv

LEMMA ListCommandStep ==
  ASSUME IInv, NEW u \in Users, ListCommand(u)
  PROVE  IInv'
<1>1. AclTypes' /\ NamesDiffer'
  BY ListCommandKeepsLists DEF IInv
<1>2. CliTypes' /\ FileIsDocument' /\ EnableNotStuck'
  <2>1. CASE Aborted
    BY <2>1, AbortedKeeps
  <2>2. ASSUME NEW m \in Enabled, Enters(u, m), UNCHANGED <<listening, enableModeActive, settings, file>>
        PROVE  CliTypes' /\ FileIsDocument' /\ EnableNotStuck'
    <3>1. m \in Modes /\ listening' \in BOOLEAN /\ enableModeActive' \in BOOLEAN
      BY <2>2 DEF IInv, CliTypes, Modes
    <3> QED BY <2>2, <3>1, EntersKeeps
  <2> QED BY <2>1, <2>2, ListCommandGoes
<1> QED BY <1>1, <1>2 DEF IInv
LEMMA ReadSettingsType ==
  ASSUME NEW doc, doc.settings \in [Settings -> Values]
  PROVE  ReadSettings(doc) \in [Settings -> Values]
<1>1. Initial \in [Settings -> Values]
  <2>1. \A s \in Settings : s \in DOMAIN Setting
    BY CliAssumption
  <2>2. \A s \in DOMAIN Setting : Setting[s].initial = 1
    BY DEF Setting, ClientsPort, MrtPort, PacingInterval, StatusInterval, LoginPort, QueueDefault
  <2>3. 1 \in Values
    BY DEF Values, MaxInt
  <2> QED BY <2>1, <2>2, <2>3 DEF Initial
<1>2. \A s \in Settings : doc.settings[s] \in Values /\ Initial[s] \in Values
  BY <1>1
<1> QED BY <1>2 DEF ReadSettings

\* What a process reads, and what it saves in its turn.
LEMMA LoadKeeps ==
  ASSUME NEW doc, IsDocument(doc), NEW h, NEW ch, NEW us,
         h = LoadedHeap(doc), ch = LoadedChain(doc), us = LoadedUse(doc)
  PROVE  /\ DOMAIN h \subseteq Cells /\ h \in [DOMAIN h -> Lists]
         /\ ch \in Seq(DOMAIN h) /\ Len(ch) <= MaxLists /\ us \in [Listeners -> DOMAIN h]
         /\ us \in [Listeners -> Cells]
         /\ \A i, j \in DOMAIN ch : h[ch[i]].name = h[ch[j]].name => i = j
         /\ IsDocument([lists |-> [i \in DOMAIN ch |-> SavedList(h[ch[i]])],
                        use |-> [l \in Listeners |-> h[us[l]].name]])
<1> DEFINE live == 1..(2 + Len(doc.lists))
<1>1. DOMAIN h = live /\ h \in [live -> Lists]
  BY LoadedHeapIs
<1>2. live \subseteq Cells
  BY LoadedHeapIs, CellsAre
<1>3. /\ ch \in Seq(live) /\ Len(ch) <= MaxLists
      /\ \A i, j \in DOMAIN ch : h[ch[i]].name = h[ch[j]].name => i = j
  BY LoadedChainIs
<1>4. us \in [Listeners -> live]
  BY LoadedUseIs
<1> HIDE DEF live
<1>5. \A l \in Listeners : us[l] \in live
  BY <1>4
<1>6. IsDocument([lists |-> [i \in DOMAIN ch |-> SavedList(h[ch[i]])],
                  use |-> [l \in Listeners |-> h[us[l]].name]])
  BY <1>1, <1>3, <1>5, SavedIsDocument
<1>7. us \in [Listeners -> Cells]
  BY <1>2, <1>4
<1> QED BY <1>1, <1>2, <1>3, <1>4, <1>6, <1>7

LEMMA ReadListsIsDocument ==
  ASSUME NEW doc, IsDocument(doc.lists)
  PROVE  IsDocument(ReadLists(doc))
BY NoFileIsDocument DEF ReadLists

LEMMA NobodyIn ==
  \A f : f = [u \in Users |-> "off"] => f \in [Users -> Modes]
BY DEF Modes

LEMMA RestartStep ==
  ASSUME IInv, Restart
  PROVE  IInv'
<1> DEFINE doc == ReadLists(file)
<1>1. commands' \in 0..MaxCommands /\ up' \in BOOLEAN
  BY CountedTypes DEF IInv, Restart
<1>2. IsDocument(doc)
  BY ReadListsIsDocument DEF IInv, FileIsDocument
<1>3. heap' = LoadedHeap(doc) /\ chain' = LoadedChain(doc) /\ use' = LoadedUse(doc)
        /\ current' = [u \in Users |-> None]
  BY DEF Restart, AclLoad
<1> HIDE DEF doc
<1>4. /\ DOMAIN heap' \subseteq Cells /\ heap' \in [DOMAIN heap' -> Lists]
      /\ chain' \in Seq(DOMAIN heap') /\ Len(chain') <= MaxLists
      /\ use' \in [Listeners -> Cells]
      /\ \A i, j \in DOMAIN chain' : heap'[chain'[i]].name = heap'[chain'[j]].name => i = j
      /\ IsDocument([lists |-> [i \in DOMAIN chain' |-> SavedList(heap'[chain'[i]])],
                     use |-> [l \in Listeners |-> heap'[use'[l]].name]])
  BY <1>2, <1>3, LoadKeeps
<1>5. AclTypes' /\ NamesDiffer'
  BY <1>1, <1>3, <1>4 DEF AclTypes, NamesDiffer, Live
<1>6. settings' \in [Settings -> Values]
  BY ReadSettingsType DEF IInv, CliTypes, Restart
<1>7. Running'.settings = settings' /\ IsDocument(Running'.lists)
  BY <1>4 DEF Running, SavedDocument, SavedLists
<1>8. file'.settings \in [Settings -> Values] /\ IsDocument(file'.lists)
  <2>1. file' = file \/ file' = Running'
    BY DEF Restart
  <2> QED BY <1>6, <1>7, <2>1 DEF IInv, CliTypes, FileIsDocument
<1>9. CliTypes'
  <2>1. mode' \in [Users -> Modes] /\ enableModeActive' \in BOOLEAN /\ listening' \in BOOLEAN
    BY NobodyIn DEF Restart
  <2> QED BY <1>6, <1>8, <2>1 DEF CliTypes
<1>10. EnableNotStuck'
  BY DEF EnableNotStuck, Restart
<1> QED BY <1>5, <1>8, <1>9, <1>10 DEF IInv, FileIsDocument

LEMMA InitHolds ==
  ASSUME Init
  PROVE  IInv
<1>1. PICK given \in {[settings |-> Initial, lists |-> NoFile]}
                     \cup [settings : SettingsByHand, lists : ListsByHand] :
    /\ settings = ReadSettings(given)
    /\ heap = LoadedHeap(ReadLists(given)) /\ chain = LoadedChain(ReadLists(given))
    /\ use = LoadedUse(ReadLists(given))
    /\ file = IF ReadWhole(given) THEN given ELSE Running
    /\ up = TRUE /\ commands = 0 /\ current = [u \in Users |-> None]
    /\ mode = [u \in Users |-> "off"] /\ enableModeActive = FALSE /\ listening = FALSE
  BY DEF Init
<1>2. given.settings \in [Settings -> Values] /\ IsDocument(given.lists)
  <2>1. Initial \in [Settings -> Values]
    <3>1. \A s \in DOMAIN Setting : Setting[s].initial = 1
      BY DEF Setting, ClientsPort, MrtPort, PacingInterval, StatusInterval, LoginPort, QueueDefault
    <3>2. 1 \in Values
      BY DEF Values, MaxInt
    <3> QED BY <3>1, <3>2, CliAssumption DEF Initial
  <2>2. CASE given = [settings |-> Initial, lists |-> NoFile]
    BY <2>1, <2>2, NoFileIsDocument
  <2>3. CASE given \in [settings : SettingsByHand, lists : ListsByHand]
    <3>1. given.settings \in SettingsByHand /\ given.lists \in ListsByHand
      BY <2>3
    <3> QED BY <3>1, CliAssumption
  <2> QED BY <1>1, <2>2, <2>3
<1> DEFINE doc == ReadLists(given)
<1>3. IsDocument(doc)
  BY <1>2, ReadListsIsDocument
<1>d. heap = LoadedHeap(doc) /\ chain = LoadedChain(doc) /\ use = LoadedUse(doc)
  BY <1>1
<1> HIDE DEF doc
<1>4. /\ DOMAIN heap \subseteq Cells /\ heap \in [DOMAIN heap -> Lists]
      /\ chain \in Seq(DOMAIN heap) /\ Len(chain) <= MaxLists
      /\ use \in [Listeners -> Cells]
      /\ \A i, j \in DOMAIN chain : heap[chain[i]].name = heap[chain[j]].name => i = j
      /\ IsDocument([lists |-> [i \in DOMAIN chain |-> SavedList(heap[chain[i]])],
                     use |-> [l \in Listeners |-> heap[use[l]].name]])
  BY <1>3, <1>d, LoadKeeps
<1>5. AclTypes /\ NamesDiffer
  BY <1>1, <1>4, AclAssumption DEF AclTypes, NamesDiffer, Live
<1>6. settings \in [Settings -> Values]
  BY <1>1, <1>2, ReadSettingsType
<1>7. Running.settings = settings /\ IsDocument(Running.lists)
  BY <1>4 DEF Running, SavedDocument, SavedLists
<1>8. file.settings \in [Settings -> Values] /\ IsDocument(file.lists)
  BY <1>1, <1>2, <1>6, <1>7
<1>9. CliTypes
  BY <1>1, <1>6, <1>8, NobodyIn DEF CliTypes
<1>10. EnableNotStuck
  BY <1>1 DEF EnableNotStuck
<1> QED BY <1>5, <1>8, <1>9, <1>10 DEF IInv, FileIsDocument

LEMMA SetStep ==
  ASSUME IInv, NEW u \in Users, NEW s \in Settings, NEW v \in Inputs, Set(u, s, v)
  PROVE  IInv'
<1>1. commands' \in 0..MaxCommands
  BY CountedTypes DEF IInv, Set
<1>2. AclTypes' /\ NamesDiffer'
  BY <1>1 DEF IInv, Set, AclTypes, NamesDiffer, Live
<1>3. settings' \in [Settings -> Values]
  BY CliAssumption DEF IInv, CliTypes, Set
<1>4. CliTypes'
  BY <1>3 DEF IInv, CliTypes, Set
<1>5. FileIsDocument' /\ EnableNotStuck'
  BY DEF IInv, FileIsDocument, EnableNotStuck, Set
<1> QED BY <1>2, <1>4, <1>5 DEF IInv

LEMMA CopyStep ==
  ASSUME IInv, NEW u \in Users, copyRunningConfig(u)
  PROVE  IInv'
<1>1. commands' \in 0..MaxCommands
  BY CountedTypes DEF IInv, copyRunningConfig
<1>2. CASE Crash /\ Aborted
  BY <1>1, <1>2, CrashKeeps, AbortedKeeps DEF IInv
<1>3. ASSUME \A l \in Listeners : use[l] \in Live, file' = Running,
             UNCHANGED <<heap, chain, use, current, up, listening, mode, enableModeActive, settings>>
      PROVE  IInv'
  <2>1. AclTypes' /\ NamesDiffer'
    BY <1>1, <1>3 DEF IInv, AclTypes, NamesDiffer, Live
  <2>2. Running.settings = settings /\ IsDocument(Running.lists)
    <3>1. /\ heap \in [Live -> Lists] /\ chain \in Seq(Live) /\ Len(chain) <= MaxLists
          /\ \A i, j \in DOMAIN chain : heap[chain[i]].name = heap[chain[j]].name => i = j
      BY DEF IInv, AclTypes, NamesDiffer
    <3> HIDE DEF Live
    <3>2. IsDocument([lists |-> [i \in DOMAIN chain |-> SavedList(heap[chain[i]])],
                      use |-> [l \in Listeners |-> heap[use[l]].name]])
      BY <1>3, <3>1, SavedIsDocument
    <3> QED BY <3>2 DEF Running, SavedDocument, SavedLists
  <2>3. CliTypes' /\ FileIsDocument' /\ EnableNotStuck'
    BY <1>3, <2>2 DEF IInv, CliTypes, FileIsDocument, EnableNotStuck
  <2> QED BY <2>1, <2>3 DEF IInv
<1>4. \/ Crash /\ Aborted
      \/ /\ \A l \in Listeners : use[l] \in Live
         /\ file' = Running
         /\ UNCHANGED <<heap, chain, use, current, up, listening, mode, enableModeActive, settings>>
  BY DEF copyRunningConfig
<1> QED BY <1>2, <1>3, <1>4

LEMMA InvariantStep ==
  ASSUME IInv, [Next]_vars
  PROVE  IInv'
<1>1. CASE UNCHANGED vars
  BY <1>1 DEF IInv, AclTypes, CliTypes, NamesDiffer, FileIsDocument, EnableNotStuck, Live,
              vars, aclVars, cliVars
<1>2. CASE startLoginControlListener
  BY <1>2 DEF IInv, AclTypes, CliTypes, NamesDiffer, FileIsDocument, EnableNotStuck, Live,
              startLoginControlListener, aclVars
<1>3. CASE Restart
  BY <1>3, RestartStep
<1>4. ASSUME NEW l \in Listeners, Refused(l) PROVE IInv'
  BY <1>4, UncountedCrash DEF Refused, CheckFreed
<1>5. ASSUME NEW u \in Users, AskedFails(u) PROVE IInv'
  BY <1>5, UncountedCrash DEF AskedFails
<1>6. ASSUME NEW u \in Users,
             \/ startLogin(u) \/ Password(u) \/ enable(u) \/ EnablePassword(u)
             \/ disable(u) \/ configure(u) \/ exitConfigure(u) \/ exit(u) \/ Broken(u)
      PROVE  IInv'
  BY <1>6, SessionStep
<1>7. ASSUME NEW u \in Users, ListCommand(u) PROVE IInv'
  BY <1>7, ListCommandStep
<1>8. ASSUME NEW u \in Users, copyRunningConfig(u) PROVE IInv'
  BY <1>8, CopyStep
<1>9. ASSUME NEW u \in Users, NEW s \in Settings, NEW v \in Inputs, Set(u, s, v) PROVE IInv'
  BY <1>9, SetStep
<1> QED BY <1>1, <1>2, <1>3, <1>4, <1>5, <1>6, <1>7, <1>8, <1>9 DEF Next

-----------------------------------------------------------------------------
THEOREM Invariance == Spec => []IInv
<1>1. Init => IInv
  BY InitHolds
<1>2. IInv /\ [Next]_vars => IInv'
  BY InvariantStep
<1> QED BY <1>1, <1>2, PTL DEF Spec

(* Lists, the chain and the pointers to lists have their types, whatever   *)
(* the commands do and the file holds.                                     *)
THEOREM TypeCorrect == Spec => []TypeOK
<1>1. IInv => TypeOK
  BY DEF IInv, AclTypes, TypeOK, Lists
<1> QED BY <1>1, Invariance, PTL

(* The flag that keeps others out of enable mode is set only while some    *)
(* session is in enable mode or in a mode entered from there.              *)
THEOREM EnableModeIsNotLost == Spec => []EnableNotStuck
<1>1. IInv => EnableNotStuck
  BY DEF IInv
<1> QED BY <1>1, Invariance, PTL

-----------------------------------------------------------------------------
(***************************************************************************)
(* A new rule decides after those in front of it.                          *)
(***************************************************************************)
LEMMA AppendedDecides ==
  ASSUME NEW rules \in Seq(Rule), NEW r \in Rule, NEW a
  PROVE  checkACL(Append(rules, r), a) =
           IF (\E k \in 1..Len(rules) : Applies(a, rules[k])) \/ ~ Applies(a, r)
           THEN checkACL(rules, a) ELSE r.access
<1>1. Len(rules) \in Nat /\ Len(rules) \in 0..Len(rules)
  OBVIOUS
<1>2. Append(rules, r) = InsertAt(rules, Len(rules) + 1, r)
  <2>1. SubSeq(rules, 1, (Len(rules) + 1) - 1) = rules
    BY <1>1
  <2>2. SubSeq(rules, Len(rules) + 1, Len(rules)) = <<>>
    BY <1>1
  <2>3. Append(rules, r) = (rules \o <<r>>) \o <<>>
    OBVIOUS
  <2> QED BY <2>1, <2>2, <2>3 DEF InsertAt
<1> QED BY <1>1, <1>2, InsertedDecides

LEMMA AddedDecides ==
  ASSUME NEW rules \in Seq(Rule), NEW r \in Rule, NEW i \in Int, i >= -1, i < Len(rules), NEW a
  PROVE  LET front == IF i < 0 THEN rules ELSE SubSeq(rules, 1, i)
         IN checkACL(addACLRule(rules, i, r), a) =
              IF (\E k \in DOMAIN front : Applies(a, front[k])) \/ ~ Applies(a, r)
              THEN checkACL(rules, a) ELSE r.access
<1> DEFINE front == IF i < 0 THEN rules ELSE SubSeq(rules, 1, i)
<1> DEFINE Said == checkACL(addACLRule(rules, i, r), a) =
                     IF (\E k \in DOMAIN front : Applies(a, front[k])) \/ ~ Applies(a, r)
                     THEN checkACL(rules, a) ELSE r.access
<1>1. Len(rules) \in Nat /\ DOMAIN rules = 1..Len(rules)
  OBVIOUS
<1>2. ASSUME i < 0 PROVE Said
  <2>1. addACLRule(rules, i, r) = Append(rules, r)
    BY <1>2 DEF addACLRule
  <2>2. front = rules
    BY <1>2
  <2>3. checkACL(Append(rules, r), a) =
          IF (\E k \in 1..Len(rules) : Applies(a, rules[k])) \/ ~ Applies(a, r)
          THEN checkACL(rules, a) ELSE r.access
    BY AppendedDecides
  <2> QED BY <1>1, <2>1, <2>2, <2>3
<1>3. ASSUME i >= 0 PROVE Said
  <2>1. addACLRule(rules, i, r) = InsertAt(rules, i + 1, r) /\ i \in 0..Len(rules)
    BY <1>1, <1>3 DEF addACLRule
  <2>2. front = SubSeq(rules, 1, i)
    BY <1>3
  <2>3. DOMAIN front = 1..i /\ \A k \in 1..i : front[k] = rules[k]
    BY <1>1, <1>3, <2>2
  <2> HIDE DEF front
  <2>4. (\E k \in DOMAIN front : Applies(a, front[k])) <=> \E k \in 1..i : Applies(a, rules[k])
    BY <2>3
  <2>5. checkACL(InsertAt(rules, i + 1, r), a) =
          IF (\E k \in 1..i : Applies(a, rules[k])) \/ ~ Applies(a, r)
          THEN checkACL(rules, a) ELSE r.access
    BY <2>1, InsertedDecides
  <2> QED BY <2>1, <2>4, <2>5
<1>4. Said
  <2> HIDE DEF Said
  <2> QED BY <1>2, <1>3
<1> QED BY <1>4

(* After a rule was added, an address is judged as before by the rules in  *)
(* front of it, else by the new rule if it applies, and otherwise as       *)
(* before; at listeners with another list, always as before.               *)
THEOREM RulesDecideInOrder == Spec => RulesTakeEffectInOrder
<1> DEFINE Judged(u, r, i, l, a) ==
      LET before == heap[use[l]].rules
          after == heap'[use[l]].rules
          front == IF i < 0 THEN before ELSE SubSeq(before, 1, i)
      IN /\ use[l] = current[u] /\ i < Len(before) =>
              checkACL(after, a) =
                IF (\E k \in DOMAIN front : Applies(a, front[k])) \/ ~ Applies(a, r)
                THEN checkACL(before, a) ELSE r.access
         /\ use[l] # current[u] => checkACL(after, a) = checkACL(before, a)
<1>1. ASSUME IInv, NEW u \in Users, NEW r \in RuleInputs, NEW i \in -1..MaxRules,
             ACLRule(u, r, i), up', NEW l \in Listeners, NEW a \in Address, use[l] \in Live
      PROVE  Judged(u, r, i, l, a)
  <2> DEFINE list == heap[current[u]].rules
  <2>1. current[u] \in Live /\ heap' = [heap EXCEPT ![current[u]].rules = addACLRule(list, i, r)]
    BY <1>1 DEF ACLRule, Crash, Edits
  <2>2. heap \in [Live -> Lists] /\ r \in Rule /\ i \in Int /\ i >= -1
    BY <1>1, AclAssumption DEF IInv, AclTypes
  <2>3. list \in Seq(Rule)
    BY <2>1, <2>2 DEF Lists
  <2>4. CASE use[l] = current[u]
    <3>1. heap'[use[l]].rules = addACLRule(list, i, r)
      BY <2>1, <2>2, <2>4 DEF Lists
    <3> HIDE DEF list
    <3>2. i < Len(list) =>
            LET front == IF i < 0 THEN list ELSE SubSeq(list, 1, i)
            IN checkACL(addACLRule(list, i, r), a) =
                 IF (\E k \in DOMAIN front : Applies(a, front[k])) \/ ~ Applies(a, r)
                 THEN checkACL(list, a) ELSE r.access
      BY <2>2, <2>3, AddedDecides
    <3> QED BY <2>4, <3>1, <3>2 DEF list
  <2>5. CASE use[l] # current[u]
    <3>1. heap'[use[l]] = heap[use[l]]
      BY <1>1, <2>1, <2>2, <2>5
    <3> QED BY <2>5, <3>1
  <2> QED BY <2>4, <2>5
<1> HIDE DEF Judged
<1> DEFINE Decides ==
      \A u \in Users, r \in RuleInputs, i \in -1..MaxRules :
        ACLRule(u, r, i) /\ up' =>
          \A l \in Listeners, a \in Address : use[l] \in Live => Judged(u, r, i, l, a)
<1>2. IInv => [Decides]_aclVars
  BY <1>1
<1> HIDE DEF Decides
<1>3. Spec => [][Decides]_aclVars
  BY <1>2, Invariance, PTL
<1> QED BY <1>3 DEF RulesTakeEffectInOrder, Decides, Judged

-----------------------------------------------------------------------------
(***************************************************************************)
(* What a restart keeps.                                                   *)
(***************************************************************************)
LEMMA PlaceIs ==
  ASSUME NEW i \in 1..9, NEW section, Sections[i] = section
  PROVE  Position(section) \in 1..9 /\ Len(Sections) = 9
<1>1. DOMAIN Sections = 1..9 /\ Len(Sections) = 9
  BY DEF Sections
<1> QED BY <1>1 DEF Position

LEMMA PlacesAre ==
  /\ Len(Sections) = 9 /\ Position("acl") \in 1..9
  /\ \A s \in Settings : PositionOf(s) \in 1..9
<1>1. /\ Sections[1] = "clients" /\ Sections[2] = "mrt" /\ Sections[6] = "queue"
      /\ Sections[7] = "periodic" /\ Sections[8] = "acl" /\ Sections[9] = "login"
  BY DEF Sections
<1>2. Position("acl") \in 1..9 /\ Len(Sections) = 9
  BY <1>1, 8 \in 1..9, PlaceIs
<1>3. ASSUME NEW s \in DOMAIN Setting PROVE PositionOf(s) \in 1..9
  <2>1. Setting[s].section \in {"clients", "mrt", "queue", "periodic", "login"}
    BY DEF Setting, ClientsPort, MrtPort, PacingInterval, StatusInterval, LoginPort
  <2>2. \E i \in 1..9 : Sections[i] = Setting[s].section
    BY <1>1, <2>1
  <2> QED BY <2>2, PlaceIs DEF PositionOf
<1> QED BY <1>2, <1>3, CliAssumption

\* A section that nothing unreadable comes before is read.
LEMMA InFrontIsRead ==
  ASSUME NEW doc, NEW place \in 1..9,
         \A t \in Settings : doc.settings[t] \notin Setting[t].read => place <= PositionOf(t)
  PROVE  place <= LastRead(doc)
<1> DEFINE last == {PositionOf(t) : t \in {t \in Settings : doc.settings[t] \notin Setting[t].read}}
                   \cup {Len(Sections) + 1}
<1>1. last \in SUBSET Nat /\ last # {}
  BY PlacesAre
<1>2. \A k \in last : place <= k
  BY PlacesAre
<1>3. LastRead(doc) = Min(last)
  BY DEF LastRead
<1> HIDE DEF last
<1> QED BY <1>1, <1>2, <1>3, LeastIs

LEMMA SavedListIs ==
  ASSUME NEW list
  PROVE  /\ SavedList(list).name = list.name
         /\ SavedList(list).rules = [i \in DOMAIN list.rules |-> SavedRule(list.rules[i])]
<1>1. SavedList(list).name = list.name
  BY DEF SavedList
<1>2. SavedList(list).rules = [i \in DOMAIN list.rules |-> SavedRule(list.rules[i])]
  BY DEF SavedList
<1> QED BY <1>1, <1>2

\* A listener's list, saved and read: the same rules under the same name.
LEMMA ListComesBack ==
  ASSUME AclTypes, NamesDiffer, \A l \in Listeners : use[l] \in Live,
         NEW l \in Listeners, Found(l)
  PROVE  LoadedHeap(SavedDocument)[LoadedUse(SavedDocument)[l]].rules = heap[use[l]].rules
<1> DEFINE doc == SavedDocument
           n == Len(chain)
<1>1. n \in Nat /\ DOMAIN chain = 1..n /\ \A i \in 1..n : chain[i] \in Live /\ heap[chain[i]] \in Lists
  BY ChainIs
<1>2. PICK i \in 1..n : chain[i] = use[l]
  BY <1>1 DEF Found, ToSet
<1>3. doc.lists = [k \in 1..n |-> SavedList(heap[chain[k]])] /\ doc.use[l] = heap[use[l]].name
  BY <1>1 DEF SavedDocument, SavedLists
<1>4. Len(doc.lists) = n /\ DOMAIN doc.lists = 1..n
        /\ \A k \in 1..n : doc.lists[k] = SavedList(heap[chain[k]])
  BY <1>1, <1>3
<1>5. doc # NoFile
  <2>1. Len(NoFile.lists) = 0
    BY DEF NoFile
  <2> QED BY <1>1, <1>2, <1>4, <2>1
<1> HIDE DEF doc
<1>6. ASSUME NEW k \in 1..n
      PROVE  /\ LoadedHeap(doc)[k + 2].name = heap[chain[k]].name
             /\ LoadedHeap(doc)[k + 2].rules = heap[chain[k]].rules
  <2>1. k + 2 \in 1..(2 + Len(doc.lists)) /\ ~(k + 2 < 3) /\ (k + 2) - 2 = k
    BY <1>1, <1>4
  <2>2. LoadedHeap(doc)[k + 2] =
          [name |-> doc.lists[(k + 2) - 2].name, rules |-> readACLList(doc.lists[(k + 2) - 2].rules)]
    BY <2>1 DEF LoadedHeap
  <2>3. doc.lists[k].name = heap[chain[k]].name
          /\ doc.lists[k].rules = [j \in DOMAIN heap[chain[k]].rules |-> SavedRule(heap[chain[k]].rules[j])]
    <3>1. doc.lists[k] = SavedList(heap[chain[k]])
      BY <1>4
    <3> QED BY <3>1, SavedListIs, Zenon
  <2>4. heap[chain[k]].rules \in Seq(Rule)
    BY <1>1 DEF Lists
  <2>5. readACLList(doc.lists[k].rules) = heap[chain[k]].rules
    BY <2>3, <2>4, SavedRulesRead
  <2> QED BY <2>1, <2>2, <2>3, <2>5
<1>7. LoadedChain(doc) = [k \in 1..n |-> k + 2]
  BY <1>4, <1>5 DEF LoadedChain
<1>8. Len(LoadedChain(doc)) = n /\ \A k \in 1..n : LoadedChain(doc)[k] = k + 2
  BY <1>1, <1>7
<1> DEFINE found == getACL(LoadedHeap(doc), LoadedChain(doc), doc.use[l])
<1>9. found = i + 2
  <2>1. LoadedHeap(doc)[LoadedChain(doc)[i]].name = doc.use[l]
    BY <1>2, <1>3, <1>6, <1>8 DEF doc
  <2>2. ASSUME NEW k \in 1..n, LoadedHeap(doc)[LoadedChain(doc)[k]].name = doc.use[l] PROVE k = i
    <3>1. heap[chain[k]].name = heap[chain[i]].name
      BY <1>2, <1>6, <1>8, <2>1, <2>2
    <3> QED BY <1>1, <3>1 DEF NamesDiffer
  <2> DEFINE h == LoadedHeap(doc)
             ch == LoadedChain(doc)
             named == doc.use[l]
  <2>3. /\ Len(ch) = n /\ ch[i] = i + 2 /\ h[ch[i]].name = named
        /\ \A k \in 1..n : h[ch[k]].name = named => k = i
    BY <1>8, <2>1, <2>2
  <2> HIDE DEF h, ch, named
  <2>4. getACL(h, ch, named) = i + 2
    BY <1>1, <2>3, GetIs
  <2> QED BY <2>4 DEF h, ch, named
<1>10. LoadedUse(doc)[l] = IF found = None THEN InitUse[l] ELSE found
  BY <1>5 DEF LoadedUse
<1>11. LoadedUse(doc)[l] = i + 2
  BY <1>9, <1>10 DEF None
<1> QED BY <1>2, <1>6, <1>11 DEF doc

(* A restart from a file saved now keeps each setting that can be read and *)
(* that no section with an unreadable one comes before, and, if there is   *)
(* none before the lists, what each listener says of every address.        *)
THEOREM RestartKeepsWhatWasSaved == Spec => []RestartKeeps
<1>1. ASSUME IInv, up, \A l \in Listeners : use[l] \in Live,
             NEW s \in Settings \ Unreadable, \A t \in Unreadable : PositionOf(s) <= PositionOf(t)
      PROVE  ReadSettings(Running)[s] = settings[s]
  <2>1. Running.settings = settings
    BY DEF Running
  <2>2. settings[s] \in Setting[s].read
    BY <1>1 DEF Unreadable
  <2>3. PositionOf(s) \in 1..9
    BY <1>1, PlacesAre
  <2>4. PositionOf(s) <= LastRead(Running)
    BY <1>1, <2>1, <2>3, InFrontIsRead DEF Unreadable
  <2> QED BY <1>1, <2>1, <2>2, <2>4 DEF ReadSettings
<1>2. ASSUME IInv, up, \A l \in Listeners : use[l] \in Live,
             \A t \in Unreadable : Position("acl") <= PositionOf(t),
             NEW l \in Listeners, NEW a \in Address, Found(l)
      PROVE  checkACL(LoadedHeap(ReadLists(Running))[LoadedUse(ReadLists(Running))[l]].rules, a)
               = checkACL(heap[use[l]].rules, a)
  <2>1. Running.settings = settings /\ Running.lists = SavedDocument
    BY DEF Running
  <2>2. Position("acl") <= LastRead(Running)
    BY <1>2, <2>1, PlacesAre, InFrontIsRead DEF Unreadable
  <2>3. ReadLists(Running) = SavedDocument
    BY <2>1, <2>2 DEF ReadLists
  <2>4. LoadedHeap(SavedDocument)[LoadedUse(SavedDocument)[l]].rules = heap[use[l]].rules
    BY <1>2, ListComesBack DEF IInv
  <2> QED BY <2>3, <2>4
<1>3. IInv => RestartKeeps
  BY <1>1, <1>2 DEF RestartKeeps
<1> QED BY <1>3, Invariance, PTL

LEMMA ReadableIsReadWhole ==
  ASSUME NEW doc, \A s \in Settings : doc.settings[s] \in Setting[s].read
  PROVE  ReadWhole(doc)
<1> DEFINE last == {PositionOf(t) : t \in {t \in Settings : doc.settings[t] \notin Setting[t].read}}
                   \cup {Len(Sections) + 1}
<1>1. last = {10}
  BY PlacesAre
<1>2. LastRead(doc) = Min(last)
  BY DEF LastRead
<1> HIDE DEF last
<1>3. Min(last) = 10
  BY <1>1, LeastIs
<1> QED BY <1>2, <1>3, PlacesAre DEF ReadWhole

\* What is read of a file, or stands for what is not read, can be read again.
LEMMA ReadIsReadable ==
  ASSUME NEW doc, NEW s \in Settings
  PROVE  ReadSettings(doc)[s] \in Setting[s].read
<1>1. \A t \in DOMAIN Setting : Setting[t].initial \in Setting[t].read
  BY DEF Setting, ClientsPort, MrtPort, PacingInterval, StatusInterval, LoginPort, QueueDefault, MaxInt
<1>2. Initial[s] \in Setting[s].read
  BY <1>1, CliAssumption DEF Initial
<1> QED BY <1>2 DEF ReadSettings

(* Whatever values the commands have stored, or the file held, one restart *)
(* leaves a file that the next one reads whole.                            *)
THEOREM RestartRepairsTheFile == Spec => RestartRepairs
<1>1. ASSUME Restart PROVE ReadWhole(file')
  <2>1. CASE ReadWhole(file)
    BY <1>1, <2>1 DEF Restart
  <2>2. CASE ~ ReadWhole(file)
    <3>1. file'.settings = ReadSettings(file)
      BY <1>1, <2>2 DEF Restart, Running
    <3>2. \A s \in Settings : file'.settings[s] \in Setting[s].read
      BY <3>1, ReadIsReadable
    <3> QED BY <3>2, ReadableIsReadWhole
  <2> QED BY <2>1, <2>2
<1>2. [Next]_vars => [Restart => ReadWhole(file')]_vars
  BY <1>1
<1> QED BY <1>2, PTL DEF Spec, RestartRepairs
=============================================================================
