----------------------------- MODULE RibProofs -----------------------------
(***************************************************************************)
(* For any prefixes, paths, attributes and hash: the prefixes that a node  *)
(* of the attribute table counts are those that refer to it, no prefix     *)
(* refers to a node that has been freed, no node stays behind, the tables  *)
(* implement the plain table of Rib, and a table transfer is complete.     *)
(* The inductive invariant adds that every node is in the bucket of its    *)
(* path, once: a node is looked for and unlinked there, so that the others *)
(* of its list stay, in their order.                                       *)
(***************************************************************************)
EXTENDS RibTable, FiniteSetTheorems, TLAPS

Stages == {"idle", "unreach", "mp", "mpreach", "reach"}

Types ==
  /\ prefixTable \in [Prefixes -> Keys \cup {NULL}]
  /\ bucket \in [Buckets -> Seq(Keys)]
  /\ node \in [Keys -> [refCount : Nat, prefixes : SUBSET Prefixes]]
  /\ work \in [stage : Stages, key : Keys \cup {NULL}, moving : Prefixes \cup {NULL},
               left : Int, mpLeft : BOOLEAN]
  /\ work.stage \in {"mp", "mpreach", "reach"} => work.key \in Keys
  /\ work.moving # NULL => work.stage \in {"mpreach", "reach"}

InPlace == \A i \in Buckets : \A j \in DOMAIN bucket[i] : BucketOf(bucket[i][j]) = i

IInv == Types /\ InPlace /\ RefsAgree /\ NodesUsedAreLive

\* There are finitely many prefixes.
LEMMA FinitePrefixes ==
  ASSUME NEW S \in SUBSET Prefixes
  PROVE  IsFiniteSet(S)
BY FS_Union, FS_Subset, RibTableAssumption DEF Prefixes

\* A node's bucket is one of the table.
LEMMA BucketType ==
  ASSUME NEW n \in Keys
  PROVE  BucketOf(n) \in Buckets
BY RibTableAssumption DEF BucketOf

\* What it is to be in the table.
LEMMA LiveIs ==
  ASSUME NEW n
  PROVE  n \in Live <=> \E i \in Buckets : \E j \in DOMAIN bucket[i] : bucket[i][j] = n
BY DEF Live, Range

\* The same of the table after a step.
LEMMA LiveIsNext ==
  ASSUME NEW n
  PROVE  n \in Live' <=> \E i \in Buckets : \E j \in DOMAIN bucket'[i] : bucket'[i][j] = n
BY DEF Live, Range

\* Taking a node out of its list leaves the others in it, each in its place.
LEMMA OthersStay ==
  ASSUME Types, InPlace, NEW n \in Keys, n \in Live,
         bucket' = [bucket EXCEPT ![BucketOf(n)] = Unlinked(n)]
  PROVE  /\ bucket' \in [Buckets -> Seq(Keys)]
         /\ InPlace'
         /\ \A k \in Live : k # n => k \in Live'
<1> DEFINE list == bucket[BucketOf(n)]
           at == CHOOSE i \in DOMAIN list : list[i] = n
<1>1. BucketOf(n) \in Buckets /\ list \in Seq(Keys)
  BY BucketType DEF Types
<1>2. \E i \in DOMAIN list : list[i] = n
  BY LiveIs DEF InPlace
<1>3. at \in 1..Len(list) /\ list[at] = n
  BY <1>1, <1>2
<1>4. Unlinked(n) = [i \in 1..(Len(list) - 1) |-> IF i < at THEN list[i] ELSE list[i + 1]]
  BY DEF Unlinked
<1> HIDE DEF at
<1>5. Len(list) \in Nat /\ DOMAIN list = 1..Len(list) /\ \A i \in 1..Len(list) : list[i] \in Keys
  BY <1>1
<1> HIDE DEF list
<1>6. /\ Unlinked(n) \in Seq(Keys)
      /\ DOMAIN Unlinked(n) = 1..(Len(list) - 1)
      /\ \A i \in 1..(Len(list) - 1) : \E j \in 1..Len(list) : Unlinked(n)[i] = list[j]
  <2>1. Len(list) >= 1
    BY <1>3, <1>5
  <2>2. \A i \in 1..(Len(list) - 1) : Unlinked(n)[i] = IF i < at THEN list[i] ELSE list[i + 1]
    BY <1>4
  <2>3. \A i \in 1..(Len(list) - 1) : i \in 1..Len(list) /\ i + 1 \in 1..Len(list)
    BY <1>5
  <2>4. Unlinked(n) \in [1..(Len(list) - 1) -> Keys]
    BY <1>4, <1>5, <2>3
  <2>5. Len(list) - 1 \in Nat
    BY <1>5, <2>1
  <2> QED BY <2>2, <2>3, <2>4, <2>5
<1>7. \A j \in 1..Len(list) : list[j] # n => \E i \in DOMAIN Unlinked(n) : Unlinked(n)[i] = list[j]
  <2> SUFFICES ASSUME NEW j \in 1..Len(list), list[j] # n
               PROVE  \E i \in 1..(Len(list) - 1) : Unlinked(n)[i] = list[j]
    BY <1>6
  <2>1. CASE j < at
    BY <2>1, <1>3, <1>4, <1>5
  <2>2. CASE ~(j < at)
    <3>1. j - 1 \in 1..(Len(list) - 1) /\ ~(j - 1 < at)
      BY <2>2, <1>3, <1>5
    <3>2. Unlinked(n)[j - 1] = list[(j - 1) + 1]
      BY <3>1, <1>4
    <3> QED BY <3>1, <3>2, <1>5
  <2> QED BY <2>1, <2>2
<1>8. \A i \in Buckets : bucket'[i] = IF i = BucketOf(n) THEN Unlinked(n) ELSE bucket[i]
  BY <1>1 DEF Types
<1>9. bucket' \in [Buckets -> Seq(Keys)]
  BY <1>1, <1>6, <1>8 DEF Types
<1>10. InPlace'
  <2> SUFFICES ASSUME NEW i \in Buckets, NEW j \in DOMAIN bucket'[i]
               PROVE  BucketOf(bucket'[i][j]) = i
    BY DEF InPlace, BucketOf
  <2>1. CASE i = BucketOf(n)
    <3>1. PICK m \in 1..Len(list) : bucket'[i][j] = list[m]
      BY <2>1, <1>6, <1>8
    <3> QED BY <2>1, <3>1, <1>1, <1>5 DEF InPlace, list
  <2>2. CASE i # BucketOf(n)
    BY <2>2, <1>8 DEF InPlace
  <2> QED BY <2>1, <2>2
<1>11. ASSUME NEW k \in Live, k # n PROVE k \in Live'
  <2>1. PICK i \in Buckets : \E j \in DOMAIN bucket[i] : bucket[i][j] = k
    BY <1>11, LiveIs
  <2>2. \E m \in DOMAIN bucket'[i] : bucket'[i][m] = k
    <3>1. CASE i = BucketOf(n)
      BY <3>1, <2>1, <1>5, <1>7, <1>8, <1>11 DEF list
    <3>2. CASE i # BucketOf(n)
      BY <3>2, <2>1, <1>8
    <3> QED BY <3>1, <3>2
  <2> QED BY <2>2, LiveIsNext
<1> QED BY <1>9, <1>10, <1>11

\* Adding a node at the head of its list keeps the others.
LEMMA Created ==
  ASSUME Types, InPlace, NEW n \in Keys,
         bucket' = [bucket EXCEPT ![BucketOf(n)] = <<n>> \o bucket[BucketOf(n)]]
  PROVE  /\ bucket' \in [Buckets -> Seq(Keys)]
         /\ InPlace'
         /\ \A k \in Live : k \in Live'
         /\ n \in Live'
<1> DEFINE list == bucket[BucketOf(n)]
           new == <<n>> \o list
<1>1. BucketOf(n) \in Buckets /\ list \in Seq(Keys)
  BY BucketType DEF Types
<1>2. new \in Seq(Keys) /\ Len(new) = Len(list) + 1 /\ Len(list) \in Nat
  BY <1>1
<1>3. new[1] = n /\ \A i \in 1..Len(list) : new[i + 1] = list[i]
  BY <1>1
<1> HIDE DEF new
<1>4. \A i \in Buckets : bucket'[i] = IF i = BucketOf(n) THEN new ELSE bucket[i]
  BY <1>1 DEF Types, new
<1>5. bucket' \in [Buckets -> Seq(Keys)]
  BY <1>1, <1>2 DEF Types, new
<1>6. DOMAIN new = 1..(Len(list) + 1) /\ DOMAIN list = 1..Len(list)
  BY <1>1, <1>2
<1>7. InPlace'
  <2> SUFFICES ASSUME NEW i \in Buckets, NEW j \in DOMAIN bucket'[i]
               PROVE  BucketOf(bucket'[i][j]) = i
    BY DEF InPlace, BucketOf
  <2>1. CASE i = BucketOf(n) /\ j = 1
    BY <2>1, <1>3, <1>4
  <2>2. CASE i = BucketOf(n) /\ j # 1
    <3>1. bucket'[i] = new /\ j \in 1..(Len(list) + 1) /\ j # 1
      BY <2>2, <1>4, <1>6
    <3>2. PICK m \in 1..Len(list) : j = m + 1
      <4>1. j - 1 \in 1..Len(list) /\ j = (j - 1) + 1
        BY <3>1, <1>2
      <4> QED BY <4>1
    <3>3. bucket'[i][j] = bucket[i][m]
      BY <2>2, <3>1, <3>2, <1>3
    <3> QED BY <2>2, <3>2, <3>3, <1>6 DEF InPlace
  <2>3. CASE i # BucketOf(n)
    BY <2>3, <1>4 DEF InPlace
  <2> QED BY <2>1, <2>2, <2>3
<1>8. ASSUME NEW k \in Live PROVE k \in Live'
  <2>1. PICK i \in Buckets : \E j \in DOMAIN bucket[i] : bucket[i][j] = k
    BY <1>8, LiveIs
  <2>2. CASE i = BucketOf(n)
    <3>1. PICK j \in 1..Len(list) : list[j] = k
      BY <2>1, <2>2, <1>6
    <3>2. j + 1 \in DOMAIN new
      BY <3>1, <1>2, <1>6
    <3>3. new[j + 1] = k
      BY <3>1, <1>3
    <3>4. bucket'[BucketOf(n)] = new
      BY <1>1, <1>4
    <3> QED BY <3>2, <3>3, <3>4, <1>1, LiveIsNext
  <2>3. CASE i # BucketOf(n)
    BY <2>3, <2>1, <1>4, LiveIsNext
  <2> QED BY <2>2, <2>3
<1>9. n \in Live'
  <2>1. 1 \in DOMAIN new
    BY <1>2, <1>6
  <2> QED BY <2>1, <1>1, <1>3, <1>4, LiveIsNext
<1> QED BY <1>5, <1>7, <1>8, <1>9

\* Looking a node up, or making it, disturbs no node that is in use.
LEMMA Searched ==
  ASSUME IInv, NEW n \in Keys, SearchAttrNode(n), UNCHANGED prefixTable
  PROVE  /\ bucket' \in [Buckets -> Seq(Keys)]
         /\ InPlace'
         /\ node' = node
         /\ \A k \in Live : k \in Live'
         /\ n \in Live'
<1>1. CASE n \in Live
  BY <1>1 DEF SearchAttrNode, IInv, Types, InPlace, Live, BucketOf
<1>2. CASE n \notin Live
  <2>1. /\ node' = [node EXCEPT ![n] = [refCount |-> 0, prefixes |-> {}]]
        /\ bucket' = [bucket EXCEPT ![BucketOf(n)] = <<n>> \o bucket[BucketOf(n)]]
    BY <1>2 DEF SearchAttrNode, CreateAttrNode
  <2>2. node[n].refCount = 0
    BY <1>2 DEF IInv, NodesUsedAreLive, Types
  <2>3. node[n].prefixes = {}
    <3>1. IsFiniteSet(node[n].prefixes) /\ Cardinality(node[n].prefixes) = 0
      BY <2>2, FinitePrefixes DEF IInv, RefsAgree, Types
    <3> QED BY <3>1, FS_EmptySet
  <2>4. node' = node
    BY <2>1, <2>2, <2>3 DEF IInv, Types
  <2> QED BY <2>1, <2>4, Created DEF IInv
<1> QED BY <1>1, <1>2

\* A prefix that leaves its node takes itself off the node's list and count; the
\* node stays if other prefixes refer to it, and every other node stays.
LEMMA Dereferenced ==
  ASSUME IInv, NEW p \in Prefixes, p # work.moving, prefixTable[p] # NULL,
         Dereference(prefixTable[p], p)
  PROVE  /\ bucket' \in [Buckets -> Seq(Keys)]
         /\ InPlace'
         /\ node' \in [Keys -> [refCount : Nat, prefixes : SUBSET Prefixes]]
         /\ \A n \in Keys : /\ node'[n].prefixes = node[n].prefixes \ {p}
                            /\ node'[n].refCount = Cardinality(node'[n].prefixes)
                            /\ node'[n].refCount > 0 => n \in Live'
         /\ \A n \in Live : n # prefixTable[p] => n \in Live'
<1> DEFINE n == prefixTable[p]
<1>1. n \in Keys /\ p \in node[n].prefixes /\ \A k \in Keys : k # n => p \notin node[k].prefixes
  BY DEF IInv, Types, RefsAgree
<1> HIDE DEF n
<1>2. /\ IsFiniteSet(node[n].prefixes) /\ node[n].refCount = Cardinality(node[n].prefixes)
      /\ node[n].refCount \in Nat
  BY <1>1, FinitePrefixes DEF IInv, Types, RefsAgree
<1>3. Cardinality(node[n].prefixes \ {p}) = node[n].refCount - 1 /\ node[n].refCount > 0
  <2>1. Cardinality(node[n].prefixes \ {p}) = Cardinality(node[n].prefixes) - 1
    BY <1>1, <1>2, FS_RemoveElement
  <2>2. Cardinality(node[n].prefixes \ {p}) \in Nat
    BY <1>2, FS_RemoveElement, FS_CardinalityType
  <2> QED BY <1>2, <2>1, <2>2
<1>4. n \in Live
  BY <1>1, <1>3 DEF IInv, NodesUsedAreLive
<1>5. node' = [node EXCEPT ![n] = [refCount |-> node[n].refCount - 1, prefixes |-> node[n].prefixes \ {p}]]
  BY DEF Dereference, n
<1>6. /\ node' \in [Keys -> [refCount : Nat, prefixes : SUBSET Prefixes]]
      /\ \A k \in Keys : /\ node'[k].prefixes = node[k].prefixes \ {p}
                         /\ node'[k].refCount = Cardinality(node'[k].prefixes)
  <2>1. node[n].refCount - 1 \in Nat
    BY <1>2, <1>3
  <2>2. \A k \in Keys : node'[k] = IF k = n THEN [refCount |-> node[n].refCount - 1, prefixes |-> node[n].prefixes \ {p}]
                                   ELSE node[k]
    BY <1>5 DEF IInv, Types
  <2>3. \A k \in Keys : k # n => node[k].prefixes \ {p} = node[k].prefixes
    BY <1>1
  <2>4. \A k \in Keys : /\ node'[k].prefixes = node[k].prefixes \ {p}
                        /\ node'[k].refCount = Cardinality(node'[k].prefixes)
    BY <1>3, <2>2, <2>3 DEF IInv, RefsAgree
  <2>5. node' \in [Keys -> [refCount : Nat, prefixes : SUBSET Prefixes]]
    BY <1>1, <1>5, <2>1 DEF IInv, Types
  <2> QED BY <2>4, <2>5
<1>7. CASE node[n].refCount = 1
  <2>1. bucket' = [bucket EXCEPT ![BucketOf(n)] = Unlinked(n)]
    BY <1>7 DEF Dereference, Last, n
  <2>2. bucket' \in [Buckets -> Seq(Keys)] /\ InPlace' /\ \A k \in Live : k # n => k \in Live'
    BY <2>1, <1>1, <1>4, OthersStay DEF IInv
  <2>3. \A k \in Keys : node'[k].refCount > 0 => k # n /\ k \in Live
    <3>1. node'[n].refCount = 0
      BY <1>1, <1>5, <1>7 DEF IInv, Types
    <3>2. \A k \in Keys : k # n => node'[k] = node[k]
      BY <1>5 DEF IInv, Types
    <3> QED BY <3>1, <3>2 DEF IInv, NodesUsedAreLive
  <2> QED BY <1>6, <2>2, <2>3 DEF n
<1>8. CASE node[n].refCount # 1
  <2>1. bucket' = bucket
    BY <1>8 DEF Dereference, Last, n
  <2>2. bucket' \in [Buckets -> Seq(Keys)] /\ InPlace' /\ Live' = Live
    BY <2>1 DEF IInv, Types, InPlace, Live, BucketOf
  <2>3. \A k \in Keys : node'[k].refCount > 0 => k \in Live
    <3>1. \A k \in Keys : k # n => node'[k] = node[k]
      BY <1>5 DEF IInv, Types
    <3> QED BY <3>1, <1>4 DEF IInv, NodesUsedAreLive
  <2> QED BY <1>6, <2>2, <2>3 DEF n
<1> QED BY <1>7, <1>8

\* A prefix that enters a node it was not in is listed and counted.
LEMMA Referenced ==
  ASSUME IInv, NEW n \in Keys, NEW p \in Prefixes, p \notin node[n].prefixes, Reference(n, p)
  PROVE  /\ node' \in [Keys -> [refCount : Nat, prefixes : SUBSET Prefixes]]
         /\ \A k \in Keys : /\ node'[k].prefixes = IF k = n THEN node[n].prefixes \cup {p} ELSE node[k].prefixes
                            /\ node'[k].refCount = Cardinality(node'[k].prefixes)
                            /\ k # n => node'[k].refCount = node[k].refCount
<1>1. node' = [node EXCEPT ![n] = [refCount |-> node[n].refCount + 1, prefixes |-> node[n].prefixes \cup {p}]]
  BY DEF Reference
<1>2. Cardinality(node[n].prefixes \cup {p}) = node[n].refCount + 1
  <2>1. IsFiniteSet(node[n].prefixes) /\ node[n].refCount = Cardinality(node[n].prefixes)
    BY FinitePrefixes DEF IInv, Types, RefsAgree
  <2> QED BY <2>1, FS_AddElement
<1>3. \A k \in Keys : node'[k] = IF k = n THEN [refCount |-> node[n].refCount + 1, prefixes |-> node[n].prefixes \cup {p}]
                                 ELSE node[k]
  BY <1>1 DEF IInv, Types
<1>4. node' \in [Keys -> [refCount : Nat, prefixes : SUBSET Prefixes]]
  BY <1>1 DEF IInv, Types
<1>5. ASSUME NEW k \in Keys
      PROVE  /\ node'[k].prefixes = IF k = n THEN node[n].prefixes \cup {p} ELSE node[k].prefixes
             /\ k # n => node'[k].refCount = node[k].refCount
  <2>1. CASE k = n
    BY <2>1, <1>3
  <2>2. CASE k # n
    <3>1. node'[k] = node[k]
      BY <2>2, <1>3
    <3> QED BY <3>1, <2>2
  <2> QED BY <2>1, <2>2
<1>6. ASSUME NEW k \in Keys PROVE node'[k].refCount = Cardinality(node'[k].prefixes)
  <2>1. CASE k = n
    BY <2>1, <1>2, <1>3
  <2>2. CASE k # n
    <3>1. node'[k] = node[k]
      BY <2>2, <1>3
    <3> QED BY <3>1 DEF IInv, RefsAgree
  <2> QED BY <2>1, <2>2
<1> QED BY <1>4, <1>5, <1>6

----------------------------------------------------------------------------
LEMMA InitInv == Init => IInv
<1> SUFFICES ASSUME Init PROVE IInv
  OBVIOUS
<1>1. Types
  BY RibTableAssumption
  DEF Init, Types, NoPrefixes, NoLists, NoNodes, NoWork, Stages
<1>2. InPlace
  BY DEF Init, InPlace, NoLists
<1>3. RefsAgree
  BY FS_EmptySet, RibTableAssumption DEF Init, RefsAgree, NoPrefixes, NoNodes, NoWork
<1>4. NodesUsedAreLive
  BY DEF Init, NodesUsedAreLive, NoNodes, NoWork, Current
<1> QED BY <1>1, <1>2, <1>3, <1>4 DEF IInv

\* The properties carry over to a step that touches none of the tables and
\* neither the thread's node nor the prefix it moves.
LEMMA TablesStay ==
  ASSUME IInv, UNCHANGED <<prefixTable, bucket, node>>, work'.moving = work.moving,
         Current' = NULL \/ Current' = Current,
         work' \in [stage : Stages, key : Keys \cup {NULL}, moving : Prefixes \cup {NULL},
                    left : Int, mpLeft : BOOLEAN],
         work'.stage \in {"mp", "mpreach", "reach"} => work'.key \in Keys,
         work'.moving # NULL => work'.stage \in {"mpreach", "reach"}
  PROVE  IInv'
<1>1. Live' = Live
  BY DEF Live
<1>2. NodesUsedAreLive'
  BY <1>1 DEF IInv, NodesUsedAreLive
<1> QED BY <1>2 DEF IInv, Types, InPlace, RefsAgree, BucketOf

\* One prefix less to go leaves the thread where it is in its message.
LEMMA OneLessWork ==
  ASSUME Types, OneLess
  PROVE  /\ work' \in [stage : Stages, key : Keys \cup {NULL}, moving : Prefixes \cup {NULL},
                       left : Int, mpLeft : BOOLEAN]
         /\ work'.stage = work.stage /\ work'.key = work.key /\ work'.moving = work.moving
         /\ Current' = Current
<1>1. work \in [stage : Stages, key : Keys \cup {NULL}, moving : Prefixes \cup {NULL},
               left : Int, mpLeft : BOOLEAN]
  BY DEF Types
<1>2. work.left - 1 \in Int /\ work' = [work EXCEPT !.left = work.left - 1]
  BY <1>1 DEF OneLess
<1>3. /\ work' \in [stage : Stages, key : Keys \cup {NULL}, moving : Prefixes \cup {NULL},
                    left : Int, mpLeft : BOOLEAN]
      /\ work'.stage = work.stage /\ work'.key = work.key /\ work'.moving = work.moving
  BY <1>1, <1>2
<1> QED BY <1>3 DEF Current

LEMMA NextInv == IInv /\ [Next]_vars => IInv'
<1> SUFFICES ASSUME IInv, [Next]_vars PROVE IInv'
  OBVIOUS
<1> USE DEF Stages
<1>0. NULL \notin Prefixes \cup Keys /\ \A n \in Keys : n # NULL
  BY RibTableAssumption
<1>1. CASE LabelRead
  <2>1. MaxPrefixes \in Int
    BY RibTableAssumption
  <2>2. work' = [stage |-> "unreach", key |-> NULL, moving |-> NULL, left |-> MaxPrefixes, mpLeft |-> FALSE]
    BY <1>1 DEF LabelRead, NoWork
  <2>3. work.moving = NULL
    BY <1>1 DEF LabelRead, IInv, Types
  <2>4. UNCHANGED <<prefixTable, bucket, node>>
    BY <1>1 DEF LabelRead, tables
  <2>5. work' \in [stage : Stages, key : Keys \cup {NULL}, moving : Prefixes \cup {NULL},
                   left : Int, mpLeft : BOOLEAN]
    BY <2>1, <2>2
  <2>6. Current' = NULL
    BY <2>2 DEF Current
  <2> QED BY <2>2, <2>3, <2>4, <2>5, <2>6, TablesStay
<1>2. CASE NextSections
  BY <1>2, TablesStay, RibTableAssumption DEF NextSections, tables, IInv, Types, Current
<1>3. CASE StartMpReach \/ StartReach
  <2>1. work.key \in Keys /\ work.moving = NULL /\ UNCHANGED prefixTable /\ SearchAttrNode(work.key)
    BY <1>3 DEF StartMpReach, StartReach, IInv, Types
  <2>2. /\ bucket' \in [Buckets -> Seq(Keys)] /\ InPlace' /\ node' = node
        /\ \A k \in Live : k \in Live'
        /\ work.key \in Live'
    BY <2>1, Searched
  <2>3. work' \in [stage : Stages, key : Keys \cup {NULL}, moving : Prefixes \cup {NULL},
                   left : Int, mpLeft : BOOLEAN]
        /\ work'.key = work.key /\ work'.moving = NULL /\ work'.stage \in {"mpreach", "reach"}
    BY <1>3, <2>1 DEF StartMpReach, StartReach, IInv, Types
  <2>4. Types'
    BY <2>1, <2>2, <2>3 DEF IInv, Types
  <2>5. RefsAgree'
    BY <2>1, <2>2, <2>3 DEF IInv, RefsAgree
  <2>6. NodesUsedAreLive'
    BY <2>2, <2>3 DEF IInv, NodesUsedAreLive, Current
  <2> QED BY <2>2, <2>4, <2>5, <2>6 DEF IInv
<1>4. CASE EndMpReach
  BY <1>4, TablesStay DEF EndMpReach, tables, IInv, Types, Current
<1>5. CASE MessageEnds
  BY <1>5, TablesStay DEF MessageEnds, NoWork, tables, IInv, Types, Current
<1>6. CASE DeleteRibTable
  <2>1. UNCHANGED work /\ work.stage = "idle" /\ work.moving = NULL
    BY <1>6 DEF DeleteRibTable, IInv, Types
  <2>2. Types'
    BY <1>6, <2>1, RibTableAssumption DEF DeleteRibTable, IInv, Types, NoPrefixes, NoLists, NoNodes
  <2>3. InPlace'
    BY <1>6 DEF DeleteRibTable, InPlace, NoLists
  <2>4. RefsAgree'
    BY <1>6, <1>0, FS_EmptySet DEF DeleteRibTable, RefsAgree, NoPrefixes, NoNodes
  <2>5. NodesUsedAreLive'
    BY <1>6, <2>1 DEF DeleteRibTable, NodesUsedAreLive, NoNodes, Current
  <2> QED BY <2>2, <2>3, <2>4, <2>5 DEF IInv
<1>7. ASSUME NEW p \in Prefixes, WithdrawDuplicate(p) PROVE IInv'
  <2>1. OneLess /\ UNCHANGED <<prefixTable, bucket, node>>
    BY <1>7 DEF WithdrawDuplicate, tables
  <2> QED BY <2>1, TablesStay, OneLessWork DEF IInv, Types
<1>8. ASSUME NEW p \in Prefixes, AnnounceDuplicate(p) PROVE IInv'
  <2>1. OneLess /\ UNCHANGED <<prefixTable, bucket, node>>
    BY <1>8 DEF AnnounceDuplicate, tables
  <2> QED BY <2>1, TablesStay, OneLessWork DEF IInv, Types
<1>9. ASSUME NEW p \in Prefixes, Withdraw(p) PROVE IInv'
  <2>1. /\ work.stage \in {"unreach", "mp"} /\ work.moving = NULL /\ prefixTable[p] # NULL
        /\ prefixTable' = [prefixTable EXCEPT ![p] = NULL]
        /\ OneLess
        /\ Dereference(prefixTable[p], p)
    BY <1>9 DEF Withdraw, Unreachable, IInv, Types
  <2>2. p # work.moving
    BY <2>1, <1>0
  <2>3. /\ bucket' \in [Buckets -> Seq(Keys)] /\ InPlace'
        /\ node' \in [Keys -> [refCount : Nat, prefixes : SUBSET Prefixes]]
        /\ \A n \in Keys : /\ node'[n].prefixes = node[n].prefixes \ {p}
                           /\ node'[n].refCount = Cardinality(node'[n].prefixes)
                           /\ node'[n].refCount > 0 => n \in Live'
    BY <2>1, <2>2, Dereferenced
  <2>4. Types'
    <3>1. prefixTable' \in [Prefixes -> Keys \cup {NULL}]
      BY <2>1 DEF IInv, Types
    <3> QED BY <3>1, <2>3, <2>1, OneLessWork DEF IInv, Types
  <2>5. RefsAgree'
    <3>1. \A q \in Prefixes : prefixTable'[q] = IF q = p THEN NULL ELSE prefixTable[q]
      BY <2>1 DEF IInv, Types
    <3>2. work'.moving = NULL
      BY <2>1, OneLessWork DEF IInv
    <3> QED BY <1>0, <2>1, <2>3, <3>1, <3>2 DEF IInv, RefsAgree
  <2>6. NodesUsedAreLive'
    <3>1. Current' = NULL
      BY <2>1, OneLessWork DEF IInv, Current
    <3> QED BY <2>3, <3>1 DEF NodesUsedAreLive
  <2> QED BY <2>3, <2>4, <2>5, <2>6 DEF IInv
<1>10. ASSUME NEW p \in Prefixes, AnnounceNew(p) PROVE IInv'
  <2>1. /\ work.stage \in {"mpreach", "reach"} /\ work.moving = NULL /\ prefixTable[p] = NULL
        /\ prefixTable' = [prefixTable EXCEPT ![p] = Current]
        /\ OneLess
        /\ Reference(Current, p) /\ bucket' = bucket
    BY <1>10 DEF AnnounceNew, Reachable, IInv, Types
  <2>2. Current \in Keys /\ Current' = Current /\ Live' = Live /\ p \notin node[Current].prefixes
    <3>1. Current \in Keys
      BY <2>1 DEF IInv, Types, Current
    <3> QED BY <3>1, <1>0, <2>1, OneLessWork DEF IInv, RefsAgree, Live
  <2>3. /\ node' \in [Keys -> [refCount : Nat, prefixes : SUBSET Prefixes]]
        /\ \A k \in Keys : /\ node'[k].prefixes = IF k = Current THEN node[Current].prefixes \cup {p} ELSE node[k].prefixes
                           /\ node'[k].refCount = Cardinality(node'[k].prefixes)
                           /\ k # Current => node'[k].refCount = node[k].refCount
    BY <2>1, <2>2, Referenced
  <2>4. Types' /\ InPlace'
    <3>1. prefixTable' \in [Prefixes -> Keys \cup {NULL}]
      BY <2>1, <2>2 DEF IInv, Types
    <3>2. InPlace'
      BY <2>1 DEF IInv, InPlace, BucketOf
    <3> QED BY <3>1, <3>2, <2>1, <2>3, OneLessWork DEF IInv, Types
  <2>5. RefsAgree'
    <3>1. \A q \in Prefixes : prefixTable'[q] = IF q = p THEN Current ELSE prefixTable[q]
      BY <2>1 DEF IInv, Types
    <3>2. work'.moving = NULL
      BY <2>1, OneLessWork DEF IInv
    <3> QED BY <1>0, <2>1, <2>2, <2>3, <3>1, <3>2 DEF IInv, RefsAgree
  <2>6. NodesUsedAreLive'
    <3>1. Current \in Live'
      BY <1>0, <2>2 DEF IInv, NodesUsedAreLive
    <3>2. ASSUME NEW k \in Keys, node'[k].refCount > 0 PROVE k \in Live'
      BY <3>1, <3>2, <2>2, <2>3 DEF IInv, NodesUsedAreLive
    <3> QED BY <3>1, <3>2, <2>2 DEF NodesUsedAreLive
  <2> QED BY <2>4, <2>5, <2>6 DEF IInv
<1>11. ASSUME NEW p \in Prefixes, AnnounceChange(p) PROVE IInv'
  <2>1. /\ work.stage \in {"mpreach", "reach"} /\ work.moving = NULL
        /\ prefixTable[p] \notin {NULL, Current} /\ UNCHANGED prefixTable
        /\ work' = [work EXCEPT !.moving = p, !.left = @ - 1]
        /\ Dereference(prefixTable[p], p)
    BY <1>11 DEF AnnounceChange, Reachable, IInv, Types
  <2>2. p # work.moving /\ prefixTable[p] # NULL
    BY <2>1, <1>0
  <2>3. /\ bucket' \in [Buckets -> Seq(Keys)] /\ InPlace'
        /\ node' \in [Keys -> [refCount : Nat, prefixes : SUBSET Prefixes]]
        /\ \A n \in Keys : /\ node'[n].prefixes = node[n].prefixes \ {p}
                           /\ node'[n].refCount = Cardinality(node'[n].prefixes)
                           /\ node'[n].refCount > 0 => n \in Live'
        /\ \A n \in Live : n # prefixTable[p] => n \in Live'
    BY <2>1, <2>2, Dereferenced
  <2>4. /\ work' \in [stage : Stages, key : Keys \cup {NULL}, moving : Prefixes \cup {NULL},
                      left : Int, mpLeft : BOOLEAN]
        /\ work'.stage = work.stage /\ work'.key = work.key /\ work'.moving = p
    <3>1. work \in [stage : Stages, key : Keys \cup {NULL}, moving : Prefixes \cup {NULL},
                   left : Int, mpLeft : BOOLEAN]
      BY DEF IInv, Types
    <3>2. work.left - 1 \in Int /\ work' = [work EXCEPT !.moving = p, !.left = work.left - 1]
      BY <2>1, <3>1
    <3> QED BY <3>1, <3>2
  <2>5. Types'
    BY <2>1, <2>3, <2>4 DEF IInv, Types
  <2>6. RefsAgree'
    <3>1. work'.moving = p
      BY <2>4
    <3> QED BY <1>0, <2>1, <2>3, <3>1 DEF IInv, RefsAgree
  <2>7. NodesUsedAreLive'
    <3>1. Current' = Current
      BY <2>4 DEF Current
    <3> QED BY <2>1, <2>3, <3>1 DEF IInv, NodesUsedAreLive
  <2> QED BY <2>3, <2>5, <2>6, <2>7 DEF IInv
<1>12. CASE AnnounceChanged
  <2> DEFINE p == work.moving
  <2>1. /\ p \in Prefixes /\ work.stage \in {"mpreach", "reach"}
        /\ prefixTable' = [prefixTable EXCEPT ![p] = Current]
        /\ work' = [work EXCEPT !.moving = NULL]
        /\ Reference(Current, p) /\ bucket' = bucket
    BY <1>12 DEF AnnounceChanged, IInv, Types
  <2>2. Current \in Keys /\ Current' = Current /\ Live' = Live /\ p \notin node[Current].prefixes
    BY <2>1 DEF IInv, Types, Current, RefsAgree, Live
  <2>3. /\ node' \in [Keys -> [refCount : Nat, prefixes : SUBSET Prefixes]]
        /\ \A k \in Keys : /\ node'[k].prefixes = IF k = Current THEN node[Current].prefixes \cup {p} ELSE node[k].prefixes
                           /\ node'[k].refCount = Cardinality(node'[k].prefixes)
                           /\ k # Current => node'[k].refCount = node[k].refCount
    BY <2>1, <2>2, Referenced
  <2>4. Types' /\ InPlace'
    <3>1. prefixTable' \in [Prefixes -> Keys \cup {NULL}]
      BY <2>1, <2>2 DEF IInv, Types
    <3>2. InPlace'
      BY <2>1 DEF IInv, InPlace, BucketOf
    <3> QED BY <3>1, <3>2, <2>1, <2>3 DEF IInv, Types
  <2>5. RefsAgree'
    <3>1. \A q \in Prefixes : prefixTable'[q] = IF q = p THEN Current ELSE prefixTable[q]
      BY <2>1 DEF IInv, Types
    <3>2. work'.moving = NULL
      BY <2>1 DEF IInv, Types
    <3> QED BY <1>0, <2>1, <2>2, <2>3, <3>1, <3>2 DEF IInv, RefsAgree
  <2>6. NodesUsedAreLive'
    <3>1. Current \in Live'
      BY <1>0, <2>2 DEF IInv, NodesUsedAreLive
    <3>2. ASSUME NEW k \in Keys, node'[k].refCount > 0 PROVE k \in Live'
      BY <3>1, <3>2, <2>2, <2>3 DEF IInv, NodesUsedAreLive
    <3> QED BY <3>1, <3>2, <2>2 DEF NodesUsedAreLive
  <2> QED BY <2>4, <2>5, <2>6 DEF IInv
<1>13. CASE TransferStart \/ Walks \/ UNCHANGED vars
  <2>1. UNCHANGED <<prefixTable, bucket, node, work>>
    BY <1>13 DEF TransferStart, Walks, EnterBucket, Collect, SendLast, Astray, TransferStop, vars, tables
  <2>2. Current' = Current
    BY <2>1 DEF Current
  <2> QED BY <2>1, <2>2, TablesStay DEF IInv, Types
<1> QED BY <1>1, <1>2, <1>3, <1>4, <1>5, <1>6, <1>7, <1>8, <1>9, <1>10, <1>11, <1>12, <1>13
        DEF Next, LabelingThread

\* For any number of prefixes and any attributes: each node of the attribute
\* table lists and counts the prefixes whose route it is (applyReachablePrefix,
\* applyUnreachablePrefix, removePefixFomAttr).
THEOREM NodesCountTheirPrefixes == Spec => []RefsAgree
<1>1. IInv => RefsAgree
  BY DEF IInv
<1> QED BY <1>1, InitInv, NextInv, PTL DEF Spec

\* For any number of prefixes and any hash of their paths: no prefix refers to a
\* node that has been freed, and the labeling thread announces with none
\* (searchAttrNode, removeAttrNode).
THEOREM NoFreedNodeIsUsed == Spec => []NodesUsedAreLive
<1>1. IInv => NodesUsedAreLive
  BY DEF IInv
<1> QED BY <1>1, InitInv, NextInv, PTL DEF Spec

----------------------------------------------------------------------------
(* The table of routes that the shared nodes implement.                    *)

\* Every path has the same ID, and a message that is done with has no label.
Labels == /\ asPath \in [Paths -> [refCount : Int, id : {0}]]
          /\ work.stage = "idle" => label = "none"

\* The route that each prefix has for the outside: the one of Rib.
route == [p \in Prefixes |-> IF p = work.moving THEN Current ELSE prefixTable[p]]

\* Looking a node up, or making it, gives its path the ID that all have.
LEMMA SearchedID ==
  ASSUME Labels, NEW n \in Keys, SearchAttrNode(n)
  PROVE  asPath' \in [Paths -> [refCount : Int, id : {0}]]
<1>1. n.path \in Paths
  BY RibTableAssumption
<1>2. CASE n \in Live
  BY <1>2 DEF SearchAttrNode, Labels
<1>3. CASE n \notin Live
  <2>1. PICK id \in {0} : asPath' = [asPath EXCEPT ![n.path] = [refCount |-> asPath[n.path].refCount + 1, id |-> id]]
    BY <1>1, <1>3 DEF SearchAttrNode, CreateAttrNode, NewPathID, Labels
  <2>2. asPath[n.path].refCount + 1 \in Int
    BY <1>1 DEF Labels
  <2> QED BY <1>1, <2>1, <2>2 DEF Labels
<1> QED BY <1>2, <1>3

\* A prefix that leaves a node changes no ID.
LEMMA DereferencedID ==
  ASSUME Labels, NEW n \in Keys, NEW p, Dereference(n, p)
  PROVE  asPath' \in [Paths -> [refCount : Int, id : {0}]]
<1>1. n.path \in Paths
  BY RibTableAssumption
<1>2. asPath[n.path].refCount - 1 \in Int /\ asPath[n.path] \in [refCount : Int, id : {0}]
  BY <1>1 DEF Labels
<1>3. CASE Last(n)
  <2>1. asPath' = [asPath EXCEPT ![n.path].refCount = asPath[n.path].refCount - 1]
    BY <1>3 DEF Dereference
  <2> QED BY <1>1, <1>2, <2>1 DEF Labels
<1>4. CASE ~Last(n)
  BY <1>4 DEF Dereference, Labels
<1> QED BY <1>3, <1>4

LEMMA InitLabels == Init => Labels
BY DEF Init, Labels, NoPaths

LEMMA NextLabels == IInv /\ Labels /\ [Next]_vars => Labels'
<1> SUFFICES ASSUME IInv, Labels, [Next]_vars PROVE Labels'
  OBVIOUS
<1>1. CASE LabelRead \/ NextSections \/ EndMpReach \/ MessageEnds
  <2>1. label' = "none" /\ asPath' = asPath
    BY <1>1 DEF LabelRead, NextSections, EndMpReach, MessageEnds, tables
  <2> QED BY <2>1 DEF Labels
<1>2. CASE StartMpReach \/ StartReach
  <2>1. work.key \in Keys /\ SearchAttrNode(work.key) /\ label' = "none"
    BY <1>2 DEF StartMpReach, StartReach, IInv, Types
  <2> QED BY <2>1, SearchedID DEF Labels
<1>3. CASE AnnounceChanged
  BY <1>3 DEF AnnounceChanged, Labels
<1>4. CASE DeleteRibTable
  BY <1>4 DEF DeleteRibTable, NoPaths, Labels
<1>5. ASSUME NEW p \in Prefixes,
             WithdrawDuplicate(p) \/ AnnounceNew(p) \/ AnnounceDuplicate(p)
      PROVE  Labels'
  <2>1. work.stage # "idle" /\ OneLess /\ asPath' = asPath
    BY <1>5 DEF WithdrawDuplicate, AnnounceNew, AnnounceDuplicate, Unreachable, Reachable, tables
  <2>2. work'.stage = work.stage
    BY <2>1, OneLessWork DEF IInv
  <2> QED BY <2>1, <2>2 DEF Labels
<1>6. ASSUME NEW p \in Prefixes, Withdraw(p) \/ AnnounceChange(p) PROVE Labels'
  <2>1. /\ work.stage # "idle" /\ prefixTable[p] \in Keys /\ Dereference(prefixTable[p], p)
        /\ OneLess \/ work' = [work EXCEPT !.moving = p, !.left = @ - 1]
    BY <1>6 DEF Withdraw, AnnounceChange, Unreachable, Reachable, IInv, Types
  <2>2. work'.stage = work.stage
    BY <2>1, OneLessWork DEF IInv, Types
  <2> QED BY <2>1, <2>2, DereferencedID DEF Labels
<1>7. CASE TransferStart \/ Walks \/ UNCHANGED vars
  <2>1. asPath' = asPath /\ work' = work /\ label' = label
    BY <1>7 DEF TransferStart, Walks, EnterBucket, Collect, SendLast, Astray, TransferStop, vars, tables
  <2> QED BY <2>1 DEF Labels
<1> QED BY <1>1, <1>2, <1>3, <1>4, <1>5, <1>6, <1>7 DEF Next, LabelingThread

\* Two paths are told apart if and only if they have different buckets.
LEMMA LabelOfChange ==
  ASSUME Labels, NEW old \in Keys, NEW new \in Keys, old # new
  PROVE  ChangeLabel(old, new) \in RibSpec!AnnounceLabels(old, new)
<1>1. /\ old.path \in Paths /\ new.path \in Paths /\ old # NULL
      /\ [n \in Keys |-> n.path][old] = old.path /\ [n \in Keys |-> n.path][new] = new.path
  BY RibTableAssumption
<1>2. asPath[old.path].id = asPath[new.path].id
  BY <1>1 DEF Labels
<1>3. CASE Hash[old.path] = Hash[new.path]
  BY <1>1, <1>2, <1>3 DEF ChangeLabel, BucketOf, RibSpec!AnnounceLabels
<1>4. CASE Hash[old.path] # Hash[new.path]
  BY <1>1, <1>4 DEF ChangeLabel, BucketOf, RibSpec!AnnounceLabels
<1> QED BY <1>3, <1>4

\* Each step of the labeling thread is one of the plain table, or none.
LEMMA StepImplements ==
  ASSUME IInv, Labels, [Next]_vars
  PROVE  RibSpec!Next \/ UNCHANGED <<route, label>>
<1>0. /\ NULL \notin Prefixes \cup Keys
      /\ prefixTable \in [Prefixes -> Keys \cup {NULL}]
  BY RibTableAssumption DEF IInv, Types
<1>1. CASE LabelRead \/ NextSections \/ EndMpReach \/ MessageEnds \/ StartMpReach \/ StartReach
  <2>1. prefixTable' = prefixTable /\ label' = "none" /\ work.moving = NULL
    BY <1>1 DEF LabelRead, NextSections, EndMpReach, MessageEnds, StartMpReach, StartReach,
                IInv, Types, tables
  <2>2. work'.moving = NULL
    <3>1. CASE LabelRead \/ MessageEnds
      <4>1. work' = NoWork \/ work' = [NoWork EXCEPT !.stage = "unreach", !.left = MaxPrefixes]
        BY <3>1 DEF LabelRead, MessageEnds
      <4>2. CASE work' = NoWork
        BY <4>2 DEF NoWork
      <4>3. CASE work' = [NoWork EXCEPT !.stage = "unreach", !.left = MaxPrefixes]
        BY <4>3 DEF NoWork
      <4> QED BY <4>1, <4>2, <4>3
    <3>2. CASE NextSections
      BY <2>1, <3>2 DEF NextSections, IInv, Types
    <3>3. CASE EndMpReach \/ StartMpReach \/ StartReach
      BY <2>1, <3>3 DEF EndMpReach, StartMpReach, StartReach, IInv, Types
    <3> QED BY <1>1, <3>1, <3>2, <3>3
  <2>3. route' = route
    BY <1>0, <2>1, <2>2 DEF route
  <2> QED BY <2>1, <2>3 DEF RibSpec!Next, RibSpec!NoLabel, route
<1>2. CASE AnnounceChanged
  <2>1. /\ work.moving \in Prefixes /\ work' = [work EXCEPT !.moving = NULL] /\ label' = "none"
        /\ prefixTable' = [prefixTable EXCEPT ![work.moving] = Current]
    BY <1>2 DEF AnnounceChanged, IInv, Types
  <2>2. work'.moving = NULL
    BY <2>1 DEF IInv, Types
  <2>3. route' = route
    BY <1>0, <2>1, <2>2 DEF route
  <2> QED BY <2>1, <2>3 DEF RibSpec!Next, RibSpec!NoLabel, route
<1>3. CASE DeleteRibTable
  <2>1. work'.moving = NULL /\ prefixTable' = [p \in Prefixes |-> NULL] /\ label' = "none"
    BY <1>3 DEF DeleteRibTable, IInv, Types, Labels, NoPrefixes
  <2>2. route' = [p \in Prefixes |-> NULL]
    BY <1>0, <2>1 DEF route
  <2> QED BY <2>1, <2>2 DEF RibSpec!Next, RibSpec!SessionEnds, route
<1>4. ASSUME NEW p \in Prefixes, WithdrawDuplicate(p) \/ Withdraw(p)
      PROVE  RibSpec!Next
  <2>1. /\ work.moving = NULL /\ OneLess
        /\ label' = IF prefixTable[p] = NULL THEN "WITHDRAW_DUPLICATE" ELSE "WITHDRAW"
        /\ prefixTable' = [prefixTable EXCEPT ![p] = NULL]
    BY <1>0, <1>4 DEF WithdrawDuplicate, Withdraw, Unreachable, IInv, Types, tables
  <2>2. work'.moving = NULL
    BY <2>1, OneLessWork DEF IInv
  <2>3. route = prefixTable /\ route' = [prefixTable EXCEPT ![p] = NULL]
    BY <1>0, <2>1, <2>2 DEF route
  <2> QED BY <2>1, <2>3 DEF RibSpec!Next, RibSpec!Withdraw, route
<1>5. ASSUME NEW p \in Prefixes, AnnounceNew(p) \/ AnnounceDuplicate(p) \/ AnnounceChange(p)
      PROVE  RibSpec!Next
  <2>1. Current \in Keys /\ work.moving = NULL
    BY <1>5 DEF AnnounceNew, AnnounceDuplicate, AnnounceChange, Reachable, Current, IInv, Types
  <2>2. label' \in RibSpec!AnnounceLabels(prefixTable[p], Current)
    <3>1. CASE AnnounceNew(p)
      BY <3>1 DEF AnnounceNew, RibSpec!AnnounceLabels
    <3>2. CASE AnnounceDuplicate(p)
      BY <1>0, <2>1, <3>2 DEF AnnounceDuplicate, RibSpec!AnnounceLabels
    <3>3. CASE AnnounceChange(p)
      BY <1>0, <2>1, <3>3, LabelOfChange DEF AnnounceChange
    <3> QED BY <1>5, <3>1, <3>2, <3>3
  <2>3. route = prefixTable
    BY <1>0, <2>1 DEF route
  <2>4. route' = [prefixTable EXCEPT ![p] = Current]
    <3>1. CASE AnnounceNew(p) \/ AnnounceDuplicate(p)
      <4>1. OneLess /\ prefixTable' = [prefixTable EXCEPT ![p] = Current]
        BY <1>0, <2>1, <3>1 DEF AnnounceNew, AnnounceDuplicate, tables
      <4>2. work'.moving = NULL
        BY <2>1, <4>1, OneLessWork DEF IInv
      <4> QED BY <1>0, <4>1, <4>2 DEF route
    <3>2. CASE AnnounceChange(p)
      <4>1. prefixTable' = prefixTable /\ work' = [work EXCEPT !.moving = p, !.left = work.left - 1]
        BY <3>2 DEF AnnounceChange
      <4>2. work'.moving = p /\ work'.stage = work.stage /\ work'.key = work.key
        BY <4>1 DEF IInv, Types
      <4>3. Current' = Current
        BY <4>2 DEF Current
      <4> QED BY <1>0, <4>1, <4>2, <4>3 DEF route
    <3> QED BY <1>5, <3>1, <3>2
  <2>5. PICK r \in Keys : r = Current
    BY <2>1
  <2>6. RibSpec!Announce(p, r)
    BY <2>2, <2>3, <2>4, <2>5 DEF RibSpec!Announce, route
  <2> QED BY <2>6 DEF RibSpec!Next
<1>6. CASE TransferStart \/ Walks \/ UNCHANGED vars
  <2>1. prefixTable' = prefixTable /\ work' = work /\ label' = label
    BY <1>6 DEF TransferStart, Walks, EnterBucket, Collect, SendLast, Astray, TransferStop, vars, tables
  <2> QED BY <2>1 DEF route, Current
<1> QED BY <1>1, <1>2, <1>3, <1>4, <1>5, <1>6 DEF Next, LabelingThread

\* The shared and counted nodes implement a plain table of routes: announcement,
\* replacement and withdrawal change one prefix each and get the label that says
\* how, but for paths that the hash takes for one (applyReachablePrefix,
\* applyUnreachablePrefix, deleteRibTable).
THEOREM TablesImplementRib == Spec => ImplementsRib
<1>1. Init => RibSpec!Init
  <2> SUFFICES ASSUME Init PROVE RibSpec!Init
    OBVIOUS
  <2>1. prefixTable = [p \in Prefixes |-> NULL] /\ work.moving = NULL /\ label = "none"
    BY DEF Init, NoPrefixes, NoWork
  <2> QED BY <2>1, RibTableAssumption DEF RibSpec!Init
<1>2. IInv /\ Labels /\ [Next]_vars => [RibSpec!Next]_<<route, label>>
  BY StepImplements
<1>3. Spec => [](IInv /\ Labels)
  BY InitInv, InitLabels, NextInv, NextLabels, PTL DEF Spec
<1> QED BY <1>1, <1>2, <1>3, PTL DEF Spec, ImplementsRib, RibSpec!Spec, route

----------------------------------------------------------------------------
(* The lists of nodes, and the walk of a table transfer along them.        *)

\* No node is twice in a list.
Once == \A i \in Buckets : \A j, k \in DOMAIN bucket[i] : bucket[i][j] = bucket[i][k] => j = k

\* m is in a list with n, and not after it.
NotAfter(m, n) ==
  \E i \in Buckets : \E j, k \in DOMAIN bucket[i] : j <= k /\ bucket[i][j] = m /\ bucket[i][k] = n

\* Taking a node out of its list keeps the order of the others.
LEMMA OrderStays ==
  ASSUME Types, InPlace, Once, NEW n \in Keys, n \in Live,
         bucket' = [bucket EXCEPT ![BucketOf(n)] = Unlinked(n)]
  PROVE  /\ Once'
         /\ n \notin Live' /\ Live' \subseteq Live
         /\ \A x, y : x # n /\ y # n /\ NotAfter(x, y) => NotAfter(x, y)'
<1> DEFINE list == bucket[BucketOf(n)]
           at == CHOOSE i \in DOMAIN list : list[i] = n
           new == Unlinked(n)
           Old(i) == IF i < at THEN i ELSE i + 1
<1>1. BucketOf(n) \in Buckets /\ list \in Seq(Keys)
  BY BucketType DEF Types
<1>2. \E i \in DOMAIN list : list[i] = n
  BY LiveIs DEF InPlace
<1>3. at \in 1..Len(list) /\ list[at] = n
  BY <1>1, <1>2
<1>4. new = [i \in 1..(Len(list) - 1) |-> IF i < at THEN list[i] ELSE list[i + 1]]
  BY DEF Unlinked
<1>5. \A i \in Buckets : bucket'[i] = IF i = BucketOf(n) THEN new ELSE bucket[i]
  BY <1>1 DEF Types
<1> HIDE DEF at, new
<1>6. Len(list) \in Nat /\ DOMAIN list = 1..Len(list)
  BY <1>1
<1>7. \A j, k \in DOMAIN list : list[j] = list[k] => j = k
  BY <1>1 DEF Once
<1>8. \A i \in DOMAIN list : list[i] = n => i = at
  BY <1>3, <1>6, <1>7
<1> HIDE DEF list
<1>9. DOMAIN new = 1..(Len(list) - 1)
  BY <1>4
<1>10. \A i \in DOMAIN new : Old(i) \in DOMAIN list /\ new[i] = list[Old(i)] /\ Old(i) # at
  BY <1>3, <1>4, <1>6, <1>9
<1>11. Once'
  <2> SUFFICES ASSUME NEW i \in Buckets, NEW j \in DOMAIN bucket'[i], NEW k \in DOMAIN bucket'[i],
                      bucket'[i][j] = bucket'[i][k]
               PROVE  j = k
    BY DEF Once
  <2>1. CASE i = BucketOf(n)
    <3>1. j \in 1..(Len(list) - 1) /\ k \in 1..(Len(list) - 1) /\ Old(j) = Old(k)
      BY <2>1, <1>5, <1>7, <1>9, <1>10
    <3> QED BY <3>1, <1>3, <1>6
  <2>2. CASE i # BucketOf(n)
    BY <2>2, <1>5 DEF Once
  <2> QED BY <2>1, <2>2
<1>12. n \notin Live'
  <2> SUFFICES ASSUME NEW i \in Buckets, NEW j \in DOMAIN bucket'[i], bucket'[i][j] = n
               PROVE  FALSE
    BY LiveIsNext
  <2>1. CASE i = BucketOf(n)
    BY <2>1, <1>5, <1>8, <1>10
  <2>2. CASE i # BucketOf(n)
    BY <2>2, <1>5 DEF InPlace
  <2> QED BY <2>1, <2>2
<1>13. Live' \subseteq Live
  <2> SUFFICES ASSUME NEW x, x \in Live' PROVE x \in Live
    OBVIOUS
  <2>1. PICK i \in Buckets : \E j \in DOMAIN bucket'[i] : bucket'[i][j] = x
    BY LiveIsNext
  <2>2. \E j \in DOMAIN bucket[i] : bucket[i][j] = x
    BY <2>1, <1>5, <1>10 DEF list
  <2> QED BY <2>2, LiveIs
<1>14. ASSUME NEW x, NEW y, x # n, y # n, NotAfter(x, y) PROVE NotAfter(x, y)'
  <2>1. PICK i \in Buckets : \E j, k \in DOMAIN bucket[i] : j <= k /\ bucket[i][j] = x /\ bucket[i][k] = y
    BY <1>14 DEF NotAfter
  <2>2. \E j, k \in DOMAIN bucket'[i] : j <= k /\ bucket'[i][j] = x /\ bucket'[i][k] = y
    <3>1. CASE i = BucketOf(n)
      <4>1. PICK j \in DOMAIN list, k \in DOMAIN list : j <= k /\ list[j] = x /\ list[k] = y
        BY <2>1, <3>1 DEF list
      <4>2. j # at /\ k # at
        BY <4>1, <1>3, <1>14
      <4> DEFINE New(m) == IF m < at THEN m ELSE m - 1
      <4>3. /\ New(j) \in 1..(Len(list) - 1) /\ Old(New(j)) = j
            /\ New(k) \in 1..(Len(list) - 1) /\ Old(New(k)) = k
            /\ New(j) <= New(k)
        <5>1. j \in 1..Len(list) /\ k \in 1..Len(list) /\ at \in 1..Len(list) /\ Len(list) \in Nat
          BY <4>1, <1>3, <1>6
        <5>2. ASSUME NEW m \in 1..Len(list), m # at
              PROVE  New(m) \in 1..(Len(list) - 1) /\ Old(New(m)) = m
          BY <5>1, <5>2
        <5>3. New(j) <= New(k)
          BY <5>1, <4>1, <4>2
        <5> QED BY <5>1, <5>2, <5>3, <4>2
      <4>4. new[New(j)] = x /\ new[New(k)] = y
        BY <4>1, <4>3, <1>9, <1>10
      <4>5. bucket'[i] = new
        BY <3>1, <1>5
      <4> QED BY <4>3, <4>4, <4>5, <1>9
    <3>2. CASE i # BucketOf(n)
      BY <3>2, <2>1, <1>5
    <3> QED BY <3>1, <3>2
  <2> QED BY <2>2 DEF NotAfter
<1> QED BY <1>11, <1>12, <1>13, <1>14

\* So does adding a node at the head of its list.
LEMMA OrderKept ==
  ASSUME Types, InPlace, Once, NEW n \in Keys, n \notin Live,
         bucket' = [bucket EXCEPT ![BucketOf(n)] = <<n>> \o bucket[BucketOf(n)]]
  PROVE  /\ Once'
         /\ Live' \subseteq Live \cup {n}
         /\ \A x, y : NotAfter(x, y) => NotAfter(x, y)'
<1> DEFINE list == bucket[BucketOf(n)]
           new == <<n>> \o list
<1>1. BucketOf(n) \in Buckets /\ list \in Seq(Keys)
  BY BucketType DEF Types
<1>2. /\ Len(list) \in Nat /\ DOMAIN list = 1..Len(list) /\ DOMAIN new = 1..(Len(list) + 1)
      /\ new[1] = n /\ \A i \in 2..(Len(list) + 1) : i - 1 \in 1..Len(list) /\ new[i] = list[i - 1]
  BY <1>1
<1>3. \A i \in 1..Len(list) : i + 1 \in DOMAIN new /\ new[i + 1] = list[i]
  BY <1>1
<1> HIDE DEF new
<1>4. \A i \in Buckets : bucket'[i] = IF i = BucketOf(n) THEN new ELSE bucket[i]
  BY <1>1 DEF Types, new
<1>5. /\ \A j, k \in DOMAIN list : list[j] = list[k] => j = k
      /\ \A j \in DOMAIN list : list[j] # n
  BY <1>1, LiveIs DEF Once
<1> HIDE DEF list
<1>6. Once'
  <2> SUFFICES ASSUME NEW i \in Buckets, NEW j \in DOMAIN bucket'[i], NEW k \in DOMAIN bucket'[i],
                      bucket'[i][j] = bucket'[i][k]
               PROVE  j = k
    BY DEF Once
  <2>1. CASE i = BucketOf(n)
    <3>1. j \in 1..(Len(list) + 1) /\ k \in 1..(Len(list) + 1) /\ new[j] = new[k]
      BY <2>1, <1>2, <1>4
    <3>2. (j = 1 \/ j \in 2..(Len(list) + 1)) /\ (k = 1 \/ k \in 2..(Len(list) + 1))
      BY <3>1, <1>2
    <3>3. j # 1 /\ k # 1 => j - 1 = k - 1
      BY <3>1, <3>2, <1>2, <1>5
    <3>4. \A m \in 2..(Len(list) + 1) : new[m] # n
      BY <1>2, <1>5
    <3>5. j = 1 <=> k = 1
      BY <3>1, <3>2, <3>4, <1>2
    <3> QED BY <3>1, <3>3, <3>5, <1>2
  <2>2. CASE i # BucketOf(n)
    BY <2>2, <1>4 DEF Once
  <2> QED BY <2>1, <2>2
<1>7. Live' \subseteq Live \cup {n}
  <2> SUFFICES ASSUME NEW x, x \in Live', x # n PROVE x \in Live
    OBVIOUS
  <2>1. PICK i \in Buckets : \E j \in DOMAIN bucket'[i] : bucket'[i][j] = x
    BY LiveIsNext
  <2>2. \E j \in DOMAIN bucket[i] : bucket[i][j] = x
    <3>1. CASE i = BucketOf(n)
      <4>1. PICK j \in 1..(Len(list) + 1) : new[j] = x
        BY <2>1, <3>1, <1>2, <1>4
      <4>2. j \in 2..(Len(list) + 1)
        BY <4>1, <1>2, <2>1
      <4> QED BY <3>1, <4>1, <4>2, <1>2 DEF list
    <3>2. CASE i # BucketOf(n)
      BY <3>2, <2>1, <1>4
    <3> QED BY <3>1, <3>2
  <2> QED BY <2>2, LiveIs
<1>8. ASSUME NEW x, NEW y, NotAfter(x, y) PROVE NotAfter(x, y)'
  <2>1. PICK i \in Buckets : \E j, k \in DOMAIN bucket[i] : j <= k /\ bucket[i][j] = x /\ bucket[i][k] = y
    BY <1>8 DEF NotAfter
  <2>2. \E j, k \in DOMAIN bucket'[i] : j <= k /\ bucket'[i][j] = x /\ bucket'[i][k] = y
    <3>1. CASE i = BucketOf(n)
      <4>1. PICK j \in 1..Len(list), k \in 1..Len(list) : j <= k /\ list[j] = x /\ list[k] = y
        BY <2>1, <3>1, <1>2 DEF list
      <4>2. j + 1 <= k + 1 /\ new[j + 1] = x /\ new[k + 1] = y /\ j + 1 \in DOMAIN new /\ k + 1 \in DOMAIN new
        BY <4>1, <1>2, <1>3
      <4> QED BY <4>2, <3>1, <1>4
    <3>2. CASE i # BucketOf(n)
      BY <3>2, <2>1, <1>4
    <3> QED BY <3>1, <3>2
  <2> QED BY <2>2 DEF NotAfter
<1> QED BY <1>6, <1>7, <1>8

\* Looking a node up, or making it, keeps the order of the lists.
LEMMA SearchedOrder ==
  ASSUME IInv, Once, NEW n \in Keys, SearchAttrNode(n)
  PROVE  /\ Once'
         /\ Live' \subseteq Live \cup {n}
         /\ \A x, y : NotAfter(x, y) => NotAfter(x, y)'
<1>1. CASE n \in Live
  <2>1. bucket' = bucket
    BY <1>1 DEF SearchAttrNode
  <2> QED BY <2>1 DEF Once, Live, NotAfter
<1>2. CASE n \notin Live
  <2>1. bucket' = [bucket EXCEPT ![BucketOf(n)] = <<n>> \o bucket[BucketOf(n)]]
    BY <1>2 DEF SearchAttrNode, CreateAttrNode
  <2> QED BY <2>1, <1>2, OrderKept DEF IInv
<1> QED BY <1>1, <1>2

\* A prefix that leaves its node keeps the order of the lists; the node is gone
\* if it was the last, and then no other prefix had it.
LEMMA DereferencedOrder ==
  ASSUME IInv, Once, NEW p \in Prefixes, p # work.moving, prefixTable[p] # NULL,
         NEW n, n = prefixTable[p], Dereference(n, p)
  PROVE  /\ Once'
         /\ Live' \subseteq Live
         /\ n \in Keys
         /\ Last(n) => n \notin Live' /\ \A q \in Prefixes \ {p, work.moving} : prefixTable[q] # n
         /\ ~Last(n) => Live' = Live
         /\ \A x, y : (Last(n) => x # n /\ y # n) /\ NotAfter(x, y) => NotAfter(x, y)'
<1>1. n \in Keys /\ p \in node[n].prefixes
  BY DEF IInv, Types, RefsAgree
<1>2. CASE Last(n)
  <2>1. IsFiniteSet(node[n].prefixes) /\ Cardinality(node[n].prefixes) = 1
    BY <1>1, <1>2, FinitePrefixes DEF IInv, Types, RefsAgree, Last
  <2>2. node[n].prefixes = {p}
    <3>1. PICK x : node[n].prefixes = {x}
      BY <2>1, FS_Singleton
    <3> QED BY <3>1, <1>1
  <2>3. \A q \in Prefixes \ {p, work.moving} : prefixTable[q] # n
    BY <2>2, <1>1 DEF IInv, RefsAgree
  <2>4. n \in Live
    BY <1>1, <1>2 DEF IInv, NodesUsedAreLive, Last
  <2>5. bucket' = [bucket EXCEPT ![BucketOf(n)] = Unlinked(n)]
    BY <1>2 DEF Dereference
  <2> QED BY <1>1, <1>2, <2>3, <2>4, <2>5, OrderStays DEF IInv
<1>3. CASE ~Last(n)
  <2>1. bucket' = bucket
    BY <1>3 DEF Dereference
  <2> QED BY <1>1, <1>3, <2>1 DEF Once, Live, NotAfter
<1> QED BY <1>2, <1>3

----------------------------------------------------------------------------
(* A table transfer.                                                       *)

WalkTypes ==
  /\ told \in [Prefixes -> {"no", "sent", "excused"}]
  /\ transfer \in [at : {"none", "bucket", "node", "collected"}, bucket : Nat, node : Keys \cup {NULL},
                   unsent : SUBSET Prefixes, freed : BOOLEAN]
  /\ transfer.at \in {"none", "bucket"} => transfer.node = NULL /\ ~transfer.freed
  /\ transfer.at \in {"node", "collected"} => transfer.node \in Keys

\* The node of the walk is in the list of its bucket, unless it has been freed.
OnNode ==
  transfer.node # NULL /\ ~transfer.freed =>
    transfer.node \in Live /\ BucketOf(transfer.node) = transfer.bucket

\* The walk is still to come to the route of p, or to send it.
ToCome(p) ==
  \/ BucketOf(prefixTable[p]) > transfer.bucket
  \/ /\ BucketOf(prefixTable[p]) = transfer.bucket
     /\ \/ transfer.at = "bucket"
        \/ /\ NotAfter(transfer.node, prefixTable[p])
           /\ transfer.at = "collected" => prefixTable[p] # transfer.node
  \/ transfer.at = "collected" /\ p \in transfer.unsent

\* A route not told of is to come, for as long as nothing leads the walk astray.
Untouched ==
  transfer.at # "none" =>
    \A p \in Prefixes : told[p] = "no" =>
      p # work.moving /\ (prefixTable[p] # NULL => transfer.freed \/ ToCome(p))

WInv == WalkTypes /\ Once /\ OnNode /\ Untouched

\* What a step of the labeling thread must keep for the walk: the order of the
\* lists, and that the routes it changes are excused.
LEMMA WalkStays ==
  ASSUME IInv, WInv, Once', transfer' = transfer,
         \A x \in Live : x \in Live',
         \A x, y : NotAfter(x, y) => NotAfter(x, y)',
         told' \in [Prefixes -> {"no", "sent", "excused"}],
         \A q \in Prefixes : transfer.at # "none" /\ told'[q] = "no" =>
           /\ told[q] = "no" /\ q # work'.moving
           /\ prefixTable'[q] # NULL => prefixTable'[q] = prefixTable[q]
  PROVE  WInv'
<1>1. WalkTypes'
  BY DEF WInv, WalkTypes
<1>2. OnNode'
  BY DEF WInv, OnNode, BucketOf
<1>3. Untouched'
  <2> SUFFICES ASSUME transfer.at # "none", NEW q \in Prefixes, told'[q] = "no"
               PROVE  q # work'.moving /\ (prefixTable'[q] # NULL => transfer.freed \/ ToCome(q)')
    BY DEF Untouched
  <2>0. told[q] = "no" /\ q # work'.moving
    OBVIOUS
  <2> SUFFICES ASSUME prefixTable'[q] # NULL
               PROVE  transfer.freed \/ ToCome(q)'
    BY <2>0
  <2>1. prefixTable'[q] = prefixTable[q] /\ told[q] = "no"
    OBVIOUS
  <2>2. transfer.freed \/ ToCome(q)
    BY <2>1 DEF WInv, Untouched
  <2>3. NotAfter(transfer.node, prefixTable[q]) => NotAfter(transfer.node, prefixTable[q])'
    <3>1. PICK x, y : x = transfer.node /\ y = prefixTable[q]
      OBVIOUS
    <3>2. NotAfter(x, y) => NotAfter(x, y)'
      OBVIOUS
    <3> QED BY <2>1, <3>1, <3>2 DEF NotAfter
  <2> QED BY <2>1, <2>2, <2>3 DEF ToCome, BucketOf, NotAfter
<1> QED BY <1>1, <1>2, <1>3 DEF WInv

\* A prefix that leaves its node, for a withdrawal or for another node: if the
\* walk is on a node that goes with it, it is led astray.
LEMMA WalkOnFreed ==
  ASSUME IInv, WInv, NEW p \in Prefixes, work.moving = NULL, prefixTable[p] # NULL,
         Dereference(prefixTable[p], p), FreedUnderTransfer(prefixTable[p]), Changed(p),
         \A q \in Prefixes \ {p} : prefixTable'[q] = prefixTable[q] /\ q # work'.moving,
         transfer.at = "none" => prefixTable' = prefixTable \/ prefixTable'[p] = NULL
  PROVE  WInv'
<1> USE RibTableAssumption
<1>0. PICK n : n = prefixTable[p]
  OBVIOUS
<1>1. /\ Once' /\ Live' \subseteq Live /\ n \in Keys
      /\ Last(n) => n \notin Live' /\ \A q \in Prefixes \ {p} : prefixTable[q] # n
      /\ ~Last(n) => Live' = Live
      /\ \A x, y : (Last(n) => x # n /\ y # n) /\ NotAfter(x, y) => NotAfter(x, y)'
  BY <1>0, DereferencedOrder DEF WInv
<1>2. /\ \A k \in Live : k # n => k \in Live'
  BY <1>0, Dereferenced
<1>3. /\ transfer'.at = transfer.at /\ transfer'.bucket = transfer.bucket /\ transfer'.node = transfer.node
      /\ transfer'.unsent = transfer.unsent
      /\ transfer'.freed <=> transfer.freed \/ (transfer.node = n /\ Last(n))
      /\ transfer' \in [at : {"none", "bucket", "node", "collected"}, bucket : Nat, node : Keys \cup {NULL},
                        unsent : SUBSET Prefixes, freed : BOOLEAN]
  BY <1>0 DEF FreedUnderTransfer, WInv, WalkTypes
<1>4. /\ told' \in [Prefixes -> {"no", "sent", "excused"}]
      /\ transfer.at # "none" => told'[p] # "no" /\ \A q \in Prefixes \ {p} : told'[q] = told[q]
  BY DEF Changed, Excused, WInv, WalkTypes
<1>5. WalkTypes'
  BY <1>1, <1>3, <1>4 DEF WInv, WalkTypes
<1>6. OnNode'
  BY <1>1, <1>2, <1>3 DEF WInv, WalkTypes, OnNode, BucketOf
<1>7. Untouched'
  <2> SUFFICES ASSUME transfer.at # "none", NEW q \in Prefixes, told'[q] = "no"
               PROVE  q # work'.moving /\ (prefixTable'[q] # NULL => transfer'.freed \/ ToCome(q)')
    BY <1>3 DEF Untouched
  <2>1. q # p /\ told[q] = "no" /\ prefixTable'[q] = prefixTable[q] /\ q # work'.moving
    BY <1>4
  <2> SUFFICES ASSUME prefixTable'[q] # NULL, ~transfer'.freed
               PROVE  ToCome(q)'
    BY <2>1
  <2>2. ToCome(q)
    BY <2>1, <1>3 DEF WInv, Untouched
  <2>3. NotAfter(transfer.node, prefixTable[q]) => NotAfter(transfer.node, prefixTable[q])'
    <3>1. PICK x, y : x = transfer.node /\ y = prefixTable[q]
      OBVIOUS
    <3>2. NotAfter(x, y) => NotAfter(x, y)'
      BY <3>1, <2>1, <1>1, <1>3
    <3> QED BY <2>1, <3>1, <3>2, <1>3 DEF NotAfter
  <2> QED BY <2>1, <2>2, <2>3, <1>3 DEF ToCome, BucketOf, NotAfter
<1> QED BY <1>1, <1>5, <1>6, <1>7 DEF WInv

\* The walk takes up a node, or the next bucket.
LEMMA WalkTo ==
  ASSUME WInv, NEW n \in Keys \cup {NULL}, ToNode(n), transfer.bucket \in Nat
  PROVE  /\ transfer' \in [at : {"none", "bucket", "node", "collected"}, bucket : Nat, node : Keys \cup {NULL},
                           unsent : SUBSET Prefixes, freed : BOOLEAN]
         /\ transfer'.node = n /\ ~transfer'.freed
         /\ n = NULL => transfer'.at = "bucket" /\ transfer'.bucket = transfer.bucket + 1
         /\ n # NULL => transfer'.at = "node" /\ transfer'.bucket = transfer.bucket
<1>1. transfer \in [at : {"none", "bucket", "node", "collected"}, bucket : Nat, node : Keys \cup {NULL},
                    unsent : SUBSET Prefixes, freed : BOOLEAN]
  BY DEF WInv, WalkTypes
<1>2. CASE n = NULL
  <2>1. transfer' = [transfer EXCEPT !.at = "bucket", !.node = n, !.bucket = transfer.bucket + 1,
                                     !.unsent = {}, !.freed = FALSE]
    BY <1>1, <1>2 DEF ToNode
  <2>2. transfer.bucket + 1 \in Nat
    OBVIOUS
  <2> QED BY <1>1, <1>2, <2>1, <2>2
<1>3. CASE n # NULL
  <2>1. transfer' = [transfer EXCEPT !.at = "node", !.node = n, !.bucket = transfer.bucket,
                                     !.unsent = {}, !.freed = FALSE]
    BY <1>1, <1>3 DEF ToNode
  <2> QED BY <1>1, <1>3, <2>1
<1> QED BY <1>2, <1>3

LEMMA InitWalk == Init => WInv
BY DEF Init, WInv, WalkTypes, Once, OnNode, Untouched, Untold, NoTransfer, NoLists

\* The steps of the route refresh thread.
LEMMA WalkStep ==
  ASSUME IInv, WInv, TransferStart \/ Walks
  PROVE  WInv'
<1> USE RibTableAssumption
<1>0. /\ UNCHANGED <<prefixTable, bucket, node, work>> /\ Once' /\ Live' = Live
  <2>1. prefixTable' = prefixTable /\ bucket' = bucket /\ node' = node /\ work' = work
    BY DEF TransferStart, Walks, EnterBucket, Collect, SendLast, Astray, TransferStop, tables
  <2> QED BY <2>1 DEF WInv, Once, Live
<1>1. \A p \in Prefixes : prefixTable[p] # NULL =>
        prefixTable[p] \in Keys /\ BucketOf(prefixTable[p]) \in Buckets
  BY BucketType DEF IInv, Types
<1>2. CASE TransferStart
  <2>1. /\ transfer'.at = "bucket" /\ transfer'.bucket = 1 /\ transfer'.node = NULL
        /\ transfer'.unsent = {} /\ ~transfer'.freed
        /\ transfer' \in [at : {"none", "bucket", "node", "collected"}, bucket : Nat, node : Keys \cup {NULL},
                          unsent : SUBSET Prefixes, freed : BOOLEAN]
        /\ told' = [p \in Prefixes |-> IF p = work.moving THEN "excused" ELSE "no"]
    BY <1>2 DEF TransferStart, NoTransfer
  <2>2. WalkTypes' /\ OnNode'
    BY <2>1 DEF WalkTypes, OnNode
  <2>3. Untouched'
    <3> SUFFICES ASSUME NEW p \in Prefixes, told'[p] = "no"
                 PROVE  p # work.moving /\ (prefixTable[p] # NULL => ToCome(p)')
      BY <1>0, <2>1 DEF Untouched
    <3>0. p # work.moving
      BY <2>1
    <3> SUFFICES ASSUME prefixTable[p] # NULL PROVE ToCome(p)'
      BY <3>0
    <3>1. p # work.moving
      BY <2>1
    <3>2. BucketOf(prefixTable[p]) \in 1..NumBuckets
      BY <1>1 DEF Buckets
    <3> QED BY <1>0, <2>1, <3>1, <3>2 DEF ToCome, BucketOf
  <2> QED BY <1>0, <2>2, <2>3 DEF WInv
<1>3. CASE TransferStop
  <2>1. /\ transfer' = NoTransfer /\ told' = Untold
    BY <1>3 DEF TransferStop
  <2> QED BY <1>0, <2>1 DEF WInv, WalkTypes, OnNode, Untouched, NoTransfer, Untold
<1>4. CASE Astray
  <2>0. transfer \in [at : {"none", "bucket", "node", "collected"}, bucket : Nat, node : Keys \cup {NULL},
                      unsent : SUBSET Prefixes, freed : BOOLEAN]
    BY DEF WInv, WalkTypes
  <2>1. PICK n \in Live \cup {NULL} :
          transfer' = [transfer EXCEPT !.at = IF n = NULL THEN "bucket" ELSE "node", !.node = n,
                                       !.bucket = IF n = NULL THEN @ + 1 ELSE BucketOf(n),
                                       !.unsent = {}, !.freed = FALSE]
    BY <1>4 DEF Astray
  <2>2. told' = [p \in Prefixes |-> "excused"]
    BY <1>4 DEF Astray, Excused
  <2>3. n \in Keys \cup {NULL} /\ (n # NULL => BucketOf(n) \in Nat)
    BY BucketType, LiveIs DEF IInv, Types, Buckets
  <2>4. /\ transfer' \in [at : {"none", "bucket", "node", "collected"}, bucket : Nat, node : Keys \cup {NULL},
                          unsent : SUBSET Prefixes, freed : BOOLEAN]
        /\ transfer'.node = n
        /\ n = NULL => transfer'.at = "bucket" /\ ~transfer'.freed
        /\ n # NULL => transfer'.at = "node" /\ transfer'.bucket = BucketOf(n)
    <3>1. CASE n = NULL
      <4>1. transfer.bucket + 1 \in Nat
        BY <2>0
      <4> QED BY <2>0, <2>1, <2>3, <3>1, <4>1
    <3>2. CASE n # NULL
      BY <2>0, <2>1, <2>3, <3>2
    <3> QED BY <3>1, <3>2
  <2>5. WalkTypes' /\ OnNode' /\ Untouched'
    BY <1>0, <2>2, <2>3, <2>4 DEF WalkTypes, OnNode, Untouched, BucketOf
  <2> QED BY <1>0, <2>5 DEF WInv
<1>5. CASE EnterBucket
  <2>1. /\ transfer.at = "bucket" /\ transfer.bucket \in Buckets /\ UNCHANGED told
        /\ transfer.node = NULL /\ ~transfer.freed
        /\ bucket[transfer.bucket] \in Seq(Keys)
    BY <1>5 DEF EnterBucket, WInv, WalkTypes, IInv, Types
  <2> DEFINE list == bucket[transfer.bucket]
             n == IF list = <<>> THEN NULL ELSE list[1]
  <2>2. n \in Keys \cup {NULL} /\ ToNode(n) /\ transfer.bucket \in Nat
    BY <1>5, <2>1 DEF EnterBucket, Buckets
  <2>3. n # NULL => 1 \in DOMAIN list /\ list[1] = n /\ list # <<>>
    BY <2>1
  <2>4. n = NULL => list = <<>>
    BY <2>1
  <2> HIDE DEF n
  <2>5. /\ transfer' \in [at : {"none", "bucket", "node", "collected"}, bucket : Nat, node : Keys \cup {NULL},
                          unsent : SUBSET Prefixes, freed : BOOLEAN]
        /\ transfer'.node = n /\ ~transfer'.freed
        /\ n = NULL => transfer'.at = "bucket" /\ transfer'.bucket = transfer.bucket + 1
        /\ n # NULL => transfer'.at = "node" /\ transfer'.bucket = transfer.bucket
    BY <2>2, WalkTo
  <2>6. WalkTypes'
    BY <2>1, <2>2, <2>5 DEF WInv, WalkTypes
  <2>7. OnNode'
    <3>1. n # NULL => n \in Live /\ BucketOf(n) = transfer.bucket
      BY <2>1, <2>3, LiveIs DEF IInv, InPlace
    <3> QED BY <1>0, <2>5, <3>1 DEF OnNode, BucketOf
  <2>8. Untouched'
    <3> SUFFICES ASSUME NEW p \in Prefixes, told[p] = "no"
                 PROVE  p # work.moving /\ (prefixTable[p] # NULL => ToCome(p)')
      BY <1>0, <2>1 DEF Untouched
    <3>0. p # work.moving
      BY <2>1 DEF WInv, Untouched
    <3> SUFFICES ASSUME prefixTable[p] # NULL PROVE ToCome(p)'
      BY <3>0
    <3>1. p # work.moving /\ ToCome(p)
      BY <2>1 DEF WInv, Untouched
    <3>2. BucketOf(prefixTable[p]) \in Nat
      BY <1>1 DEF Buckets
    <3>3. CASE BucketOf(prefixTable[p]) = transfer.bucket
      <4>1. PICK y \in Keys : y = prefixTable[p]
        BY <1>1
      <4>2. y \in Live
        <5>1. p \in node[y].prefixes /\ node[y].refCount = Cardinality(node[y].prefixes)
          BY <3>1, <4>1 DEF IInv, RefsAgree
        <5>2. node[y].refCount > 0
          BY <5>1, <4>1, FinitePrefixes, FS_EmptySet, FS_CardinalityType DEF IInv, Types
        <5> QED BY <5>2 DEF IInv, NodesUsedAreLive
      <4>3. PICK k \in DOMAIN list : list[k] = y
        BY <4>1, <4>2, <3>3, LiveIs DEF IInv, InPlace
      <4>4. list # <<>> /\ 1 <= k /\ 1 \in DOMAIN list
        BY <4>3, <2>1
      <4>5. n # NULL /\ list[1] = n
        BY <4>4, <2>3, <2>4
      <4>6. NotAfter(n, y)
        BY <4>3, <4>4, <4>5, <2>1 DEF NotAfter
      <4>7. NotAfter(transfer.node, prefixTable[p])'
        BY <4>1, <4>6, <1>0, <2>5 DEF NotAfter
      <4> QED BY <1>0, <2>5, <3>1, <3>3, <4>5, <4>7 DEF ToCome, BucketOf
    <3>4. CASE BucketOf(prefixTable[p]) # transfer.bucket
      <4>1. BucketOf(prefixTable[p]) > transfer.bucket
        BY <2>1, <3>1, <3>4 DEF ToCome
      <4>2. BucketOf(prefixTable[p]) > transfer'.bucket \/ (BucketOf(prefixTable[p]) = transfer'.bucket /\ transfer'.at = "bucket")
        BY <2>2, <2>5, <3>2, <4>1
      <4> QED BY <1>0, <3>1, <4>2 DEF ToCome, BucketOf
    <3> QED BY <3>3, <3>4
  <2> QED BY <1>0, <2>6, <2>7, <2>8 DEF WInv
<1>6. CASE Collect
  <2>1. /\ transfer.at = "node" /\ ~transfer.freed /\ transfer.node \in Keys
        /\ transfer.node \in Live /\ BucketOf(transfer.node) = transfer.bucket
    <3>1. transfer.at = "node" /\ ~transfer.freed
      BY <1>6 DEF Collect
    <3>2. transfer.node \in Keys /\ transfer.node # NULL
      BY <3>1 DEF WInv, WalkTypes
    <3> QED BY <3>1, <3>2 DEF WInv, OnNode
  <2> DEFINE n == transfer.node
             refs == node[n].prefixes
  <2>2. refs \subseteq Prefixes /\ refs = {p \in Prefixes \ {work.moving} : prefixTable[p] = n}
    BY <2>1 DEF IInv, Types, RefsAgree
  <2>3. PICK sent \in SUBSET Prefixes, left \in SUBSET Prefixes :
          /\ transfer' = [transfer EXCEPT !.at = "collected", !.unsent = left]
          /\ told' = Sent(sent) \/ told' = Excused(sent)
          /\ refs \subseteq sent \cup left
    <3>1. CASE Cardinality(refs \cap Mp) > Room
      <4>1. transfer' = [transfer EXCEPT !.at = "collected"] /\ told' = Excused(refs)
        BY <1>6, <3>1 DEF Collect
      <4>2. transfer.unsent \subseteq Prefixes /\ transfer' = [transfer EXCEPT !.at = "collected", !.unsent = transfer.unsent]
        BY <4>1 DEF WInv, WalkTypes
      <4> QED BY <4>1, <4>2, <2>2
    <3>2. CASE ~(Cardinality(refs \cap Mp) > Room)
      <4>1. PICK chunks \in Chunks(refs \cap Mp, refs \cap V4) :
              /\ told' = Sent(chunks[1])
              /\ transfer' = [transfer EXCEPT !.at = "collected", !.unsent = chunks[2]]
        BY <1>6, <3>2 DEF Collect
      <4>2. chunks[1] \in SUBSET Prefixes /\ chunks[2] \in SUBSET Prefixes /\ refs \subseteq chunks[1] \cup chunks[2]
        <5>1. (refs \cap Mp) \cup (refs \cap V4) = refs
          BY <2>2 DEF Prefixes
        <5>2. PICK last \in SUBSET refs : chunks = <<refs \ last, last>>
          BY <5>1 DEF Chunks
        <5> QED BY <5>2, <2>2
      <4> QED BY <4>1, <4>2
    <3> QED BY <3>1, <3>2
  <2>4. /\ transfer' \in [at : {"none", "bucket", "node", "collected"}, bucket : Nat, node : Keys \cup {NULL},
                          unsent : SUBSET Prefixes, freed : BOOLEAN]
        /\ transfer'.at = "collected" /\ transfer'.bucket = transfer.bucket /\ transfer'.node = n
        /\ transfer'.unsent = left /\ ~transfer'.freed
    BY <2>1, <2>3 DEF WInv, WalkTypes
  <2>5. /\ told' \in [Prefixes -> {"no", "sent", "excused"}]
        /\ \A p \in Prefixes : told'[p] = "no" => told[p] = "no" /\ p \notin sent
    BY <2>3 DEF Sent, Excused, WInv, WalkTypes
  <2>6. WalkTypes' /\ OnNode'
    BY <1>0, <2>1, <2>4, <2>5 DEF WalkTypes, OnNode, BucketOf
  <2>7. Untouched'
    <3> SUFFICES ASSUME NEW p \in Prefixes, told'[p] = "no"
                 PROVE  p # work.moving /\ (prefixTable[p] # NULL => ToCome(p)')
      BY <1>0 DEF Untouched
    <3>0. p # work.moving
      BY <2>1, <2>5 DEF WInv, Untouched
    <3> SUFFICES ASSUME prefixTable[p] # NULL PROVE ToCome(p)'
      BY <3>0
    <3>1. p # work.moving /\ ToCome(p) /\ p \notin sent
      BY <2>1, <2>5 DEF WInv, Untouched
    <3>2. prefixTable[p] = n => p \in left
      BY <2>2, <2>3, <3>1
    <3>3. NotAfter(transfer.node, prefixTable[p]) => NotAfter(transfer.node, prefixTable[p])'
      BY <1>0, <2>4 DEF NotAfter
    <3> QED BY <1>0, <2>1, <2>4, <3>1, <3>2, <3>3 DEF ToCome, BucketOf, NotAfter
  <2> QED BY <1>0, <2>6, <2>7 DEF WInv
<1>7. CASE SendLast
  <2>1. /\ transfer.at = "collected" /\ ~transfer.freed /\ transfer.node \in Keys
        /\ transfer.node \in Live /\ BucketOf(transfer.node) = transfer.bucket
        /\ transfer.bucket \in Buckets
    <3>1. transfer.at = "collected" /\ ~transfer.freed
      BY <1>7 DEF SendLast
    <3>2. transfer.node \in Keys /\ transfer.node # NULL
      BY <3>1 DEF WInv, WalkTypes
    <3> QED BY <3>1, <3>2, BucketType DEF WInv, OnNode
  <2>2. /\ told' \in [Prefixes -> {"no", "sent", "excused"}]
        /\ \A p \in Prefixes : told'[p] = "no" => told[p] = "no" /\ p \notin transfer.unsent
    BY <1>7 DEF SendLast, Sent, WInv, WalkTypes
  <2> DEFINE list == bucket[transfer.bucket]
             i == CHOOSE i \in DOMAIN list : list[i] = transfer.node
             n == IF i = Len(list) THEN NULL ELSE list[i + 1]
  <2>3. ToNode(n) /\ transfer.bucket \in Nat
    BY <1>7, <2>1 DEF SendLast, After, Buckets
  <2>4. list \in Seq(Keys) /\ Len(list) \in Nat /\ DOMAIN list = 1..Len(list)
    BY <2>1 DEF IInv, Types
  <2>5. i \in 1..Len(list) /\ list[i] = transfer.node
    <3>1. \E j \in DOMAIN list : list[j] = transfer.node
      BY <2>1, LiveIs DEF IInv, InPlace
    <3> QED BY <3>1, <2>4
  <2>6. /\ i = Len(list) => n = NULL
        /\ i # Len(list) => i + 1 \in 1..Len(list) /\ n = list[i + 1] /\ n \in Keys /\ n # NULL
    BY <2>4, <2>5
  <2>7. \A j \in 1..Len(list) : list[j] = transfer.node => j = i
    BY <2>1, <2>4, <2>5 DEF WInv, Once
  <2> HIDE DEF n, i
  <2>8. /\ transfer' \in [at : {"none", "bucket", "node", "collected"}, bucket : Nat, node : Keys \cup {NULL},
                          unsent : SUBSET Prefixes, freed : BOOLEAN]
        /\ transfer'.node = n /\ ~transfer'.freed
        /\ n = NULL => transfer'.at = "bucket" /\ transfer'.bucket = transfer.bucket + 1
        /\ n # NULL => transfer'.at = "node" /\ transfer'.bucket = transfer.bucket
    <3>1. n \in Keys \cup {NULL}
      BY <2>6
    <3> QED BY <2>3, <3>1, WalkTo
  <2>9. WalkTypes'
    BY <2>2, <2>6, <2>8 DEF WalkTypes
  <2>10. OnNode'
    <3>1. n # NULL => n \in Live /\ BucketOf(n) = transfer.bucket
      BY <2>1, <2>4, <2>6, LiveIs DEF IInv, InPlace
    <3> QED BY <1>0, <2>8, <3>1 DEF OnNode, BucketOf
  <2>11. Untouched'
    <3> SUFFICES ASSUME NEW p \in Prefixes, told'[p] = "no"
                 PROVE  p # work.moving /\ (prefixTable[p] # NULL => ToCome(p)')
      BY <1>0, <2>8 DEF Untouched
    <3>0. p # work.moving
      BY <2>1, <2>2 DEF WInv, Untouched
    <3> SUFFICES ASSUME prefixTable[p] # NULL PROVE ToCome(p)'
      BY <3>0
    <3>1. p # work.moving /\ ToCome(p) /\ p \notin transfer.unsent
      BY <2>1, <2>2 DEF WInv, Untouched
    <3>2. BucketOf(prefixTable[p]) \in Nat
      BY <1>1 DEF Buckets
    <3>3. CASE BucketOf(prefixTable[p]) > transfer.bucket
      <4>1. BucketOf(prefixTable[p]) > transfer'.bucket \/ (BucketOf(prefixTable[p]) = transfer'.bucket /\ transfer'.at = "bucket")
        BY <2>3, <2>8, <3>2, <3>3
      <4> QED BY <1>0, <3>1, <4>1 DEF ToCome, BucketOf
    <3>4. CASE ~(BucketOf(prefixTable[p]) > transfer.bucket)
      <4>1. /\ BucketOf(prefixTable[p]) = transfer.bucket /\ prefixTable[p] # transfer.node
            /\ NotAfter(transfer.node, prefixTable[p])
        BY <2>1, <3>1, <3>4 DEF ToCome
      <4>2. PICK y \in Keys : y = prefixTable[p]
        BY <1>1
      <4>3. PICK b \in Buckets : \E j, k \in DOMAIN bucket[b] : j <= k /\ bucket[b][j] = transfer.node /\ bucket[b][k] = y
        BY <4>1, <4>2 DEF NotAfter
      <4>4. b = transfer.bucket
        BY <2>1, <4>3 DEF IInv, InPlace
      <4>5. PICK j \in 1..Len(list), k \in 1..Len(list) : j <= k /\ list[j] = transfer.node /\ list[k] = y
        BY <2>4, <4>3, <4>4
      <4>6. j = i /\ k # i
        BY <2>5, <2>7, <4>1, <4>2, <4>5
      <4>7. i # Len(list) /\ i + 1 <= k
        BY <2>4, <2>5, <4>5, <4>6
      <4>8. n # NULL /\ i + 1 \in DOMAIN list /\ list[i + 1] = n
        BY <2>4, <2>6, <4>7
      <4>9. NotAfter(n, y)
        BY <2>1, <2>4, <4>5, <4>7, <4>8 DEF NotAfter
      <4>10. NotAfter(transfer.node, prefixTable[p])'
        BY <1>0, <2>8, <4>2, <4>9 DEF NotAfter
      <4> QED BY <1>0, <2>8, <3>1, <4>1, <4>8, <4>10 DEF ToCome, BucketOf
    <3> QED BY <3>3, <3>4
  <2> QED BY <1>0, <2>9, <2>10, <2>11 DEF WInv
<1> QED BY <1>2, <1>3, <1>4, <1>5, <1>6, <1>7 DEF Walks

\* Every step keeps the invariant of the walk.
LEMMA NextWalk == IInv /\ WInv /\ [Next]_vars => WInv'
<1> SUFFICES ASSUME IInv, WInv, [Next]_vars PROVE WInv'
  OBVIOUS
<1> USE RibTableAssumption
<1>1. CASE \/ LabelRead \/ NextSections \/ EndMpReach \/ MessageEnds \/ UNCHANGED vars
           \/ \E p \in Prefixes : WithdrawDuplicate(p) \/ AnnounceDuplicate(p)
  <2>1. prefixTable' = prefixTable /\ bucket' = bucket /\ transfer' = transfer /\ told' = told
    BY <1>1 DEF LabelRead, NextSections, EndMpReach, MessageEnds, WithdrawDuplicate, AnnounceDuplicate,
                vars, tables
  <2>2. work'.moving = work.moving \/ work'.moving = NULL
    <3>1. CASE LabelRead \/ MessageEnds
      <4>1. work' = NoWork \/ work' = [NoWork EXCEPT !.stage = "unreach", !.left = MaxPrefixes]
        BY <3>1 DEF LabelRead, MessageEnds
      <4>2. CASE work' = NoWork
        BY <4>2 DEF NoWork
      <4>3. CASE work' = [NoWork EXCEPT !.stage = "unreach", !.left = MaxPrefixes]
        BY <4>3 DEF NoWork
      <4> QED BY <4>1, <4>2, <4>3
    <3>2. CASE NextSections \/ EndMpReach
      BY <3>2 DEF NextSections, EndMpReach, IInv, Types
    <3>3. ASSUME NEW p \in Prefixes, WithdrawDuplicate(p) \/ AnnounceDuplicate(p)
          PROVE  work'.moving = work.moving
      BY <3>3, OneLessWork DEF WithdrawDuplicate, AnnounceDuplicate, IInv
    <3>4. CASE UNCHANGED vars
      BY <3>4 DEF vars
    <3> QED BY <1>1, <3>1, <3>2, <3>3, <3>4
  <2>3. Once' /\ Live' = Live /\ \A x, y : NotAfter(x, y) => NotAfter(x, y)'
    BY <2>1 DEF WInv, Once, Live, NotAfter
  <2>4. \A q \in Prefixes : transfer.at # "none" /\ told'[q] = "no" =>
           /\ told[q] = "no" /\ q # work'.moving
           /\ prefixTable'[q] # NULL => prefixTable'[q] = prefixTable[q]
    BY <2>1, <2>2 DEF WInv, Untouched
  <2>5. told' \in [Prefixes -> {"no", "sent", "excused"}]
    BY <2>1 DEF WInv, WalkTypes
  <2> QED BY <2>1, <2>3, <2>4, <2>5, WalkStays
<1>2. CASE StartMpReach \/ StartReach
  <2>1. /\ work.key \in Keys /\ SearchAttrNode(work.key) /\ work.moving = NULL
        /\ prefixTable' = prefixTable /\ transfer' = transfer /\ told' = told
    BY <1>2 DEF StartMpReach, StartReach, IInv, Types
  <2>2. work'.moving = NULL
    BY <1>2, <2>1 DEF StartMpReach, StartReach, IInv, Types
  <2>3. Once' /\ \A x, y : NotAfter(x, y) => NotAfter(x, y)'
    BY <2>1, SearchedOrder DEF WInv
  <2>4. \A x \in Live : x \in Live'
    BY <2>1, Searched
  <2>5. told' \in [Prefixes -> {"no", "sent", "excused"}]
    BY <2>1 DEF WInv, WalkTypes
  <2> QED BY <2>1, <2>2, <2>3, <2>4, <2>5, WalkStays
<1>3. ASSUME NEW p \in Prefixes, AnnounceNew(p) PROVE WInv'
  <2>1. /\ prefixTable' = [prefixTable EXCEPT ![p] = Current] /\ bucket' = bucket /\ transfer' = transfer
        /\ Changed(p) /\ OneLess /\ work.moving = NULL
    BY <1>3 DEF AnnounceNew
  <2>2. work'.moving = NULL
    BY <2>1, OneLessWork DEF IInv
  <2>3. Once' /\ Live' = Live /\ \A x, y : NotAfter(x, y) => NotAfter(x, y)'
    BY <2>1 DEF WInv, Once, Live, NotAfter
  <2>4. /\ told' \in [Prefixes -> {"no", "sent", "excused"}]
        /\ \A q \in Prefixes : transfer.at # "none" /\ told'[q] = "no" =>
             /\ told[q] = "no" /\ q # work'.moving
             /\ prefixTable'[q] # NULL => prefixTable'[q] = prefixTable[q]
    BY <2>1, <2>2 DEF Changed, Excused, WInv, WalkTypes, IInv, Types
  <2> QED BY <2>1, <2>3, <2>4, WalkStays
<1>4. CASE AnnounceChanged
  <2>1. /\ prefixTable' = [prefixTable EXCEPT ![work.moving] = Current] /\ bucket' = bucket
        /\ transfer' = transfer /\ told' = told /\ work' = [work EXCEPT !.moving = NULL]
        /\ work.moving \in Prefixes
    BY <1>4 DEF AnnounceChanged, IInv, Types
  <2>2. work'.moving = NULL
    BY <2>1 DEF IInv, Types
  <2>3. Once' /\ Live' = Live /\ \A x, y : NotAfter(x, y) => NotAfter(x, y)'
    BY <2>1 DEF WInv, Once, Live, NotAfter
  <2>4. told' \in [Prefixes -> {"no", "sent", "excused"}]
    BY <2>1 DEF WInv, WalkTypes
  <2>5. \A q \in Prefixes : transfer.at # "none" /\ told'[q] = "no" =>
           /\ told[q] = "no" /\ q # work'.moving
           /\ prefixTable'[q] # NULL => prefixTable'[q] = prefixTable[q]
    BY <2>1, <2>2 DEF WInv, Untouched, IInv, Types
  <2> QED BY <2>1, <2>3, <2>4, <2>5, WalkStays
<1>5. ASSUME NEW p \in Prefixes, Withdraw(p) \/ AnnounceChange(p) PROVE WInv'
  <2>1. /\ prefixTable[p] # NULL /\ work.moving = NULL
        /\ Dereference(prefixTable[p], p) /\ FreedUnderTransfer(prefixTable[p]) /\ Changed(p)
    BY <1>5 DEF Withdraw, AnnounceChange, Unreachable, IInv, Types
  <2>2. /\ \A q \in Prefixes \ {p} : prefixTable'[q] = prefixTable[q] /\ q # work'.moving
        /\ prefixTable' = prefixTable \/ prefixTable'[p] = NULL
    <3>1. CASE Withdraw(p)
      <4>1. prefixTable' = [prefixTable EXCEPT ![p] = NULL] /\ OneLess
        BY <3>1 DEF Withdraw
      <4>2. work'.moving = NULL
        BY <2>1, <4>1, OneLessWork DEF IInv
      <4> QED BY <4>1, <4>2 DEF IInv, Types
    <3>2. CASE AnnounceChange(p)
      <4>1. prefixTable' = prefixTable /\ work' = [work EXCEPT !.moving = p, !.left = work.left - 1]
        BY <3>2 DEF AnnounceChange
      <4>2. work'.moving = p
        BY <4>1 DEF IInv, Types
      <4> QED BY <4>1, <4>2
    <3> QED BY <1>5, <3>1, <3>2
  <2> QED BY <2>1, <2>2, WalkOnFreed
<1>6. CASE DeleteRibTable
  <2>1. /\ transfer.at = "none" /\ transfer' = transfer /\ told' = told /\ bucket' = [i \in Buckets |-> <<>>]
    BY <1>6 DEF DeleteRibTable, NoLists
  <2> QED BY <2>1 DEF WInv, WalkTypes, Once, OnNode, Untouched
<1>7. CASE TransferStart \/ Walks
  BY <1>7, WalkStep
<1> QED BY <1>1, <1>2, <1>3, <1>4, <1>5, <1>6, <1>7 DEF Next, LabelingThread

\* For any prefixes, attributes, hash and size of a message: a table transfer
\* that updates do not lead astray has told of every route that was there all
\* the while, whatever the labeling thread changes around it (sendRibTable,
\* sendBMFFromAttrNode).
THEOREM TransfersAreComplete == Spec => []TransferComplete
<1>1. IInv /\ WInv => TransferComplete
  <2> SUFFICES ASSUME IInv, WInv, transfer.at = "bucket", transfer.bucket > NumBuckets,
                      NEW p \in Prefixes, prefixTable[p] # NULL, told[p] = "no"
               PROVE  FALSE
    BY DEF TransferComplete
  <2>1. ToCome(p) /\ transfer.bucket \in Nat
    BY DEF WInv, WalkTypes, Untouched
  <2>2. BucketOf(prefixTable[p]) \in 1..NumBuckets
    BY BucketType DEF IInv, Types, Buckets
  <2> QED BY <2>1, <2>2, RibTableAssumption DEF ToCome
<1> QED BY <1>1, InitInv, NextInv, InitWalk, NextWalk, PTL DEF Spec

----------------------------------------------------------------------------
(* No node is left behind.                                                 *)

Used == \A n \in Live : node[n].refCount = 0 => n \in hollow \cup {Current}

LEMMA InitUsed == Init => Used
BY DEF Init, Used, NoLists, Live, Range

LEMMA NextUsed == IInv /\ Once /\ Used /\ [Next]_vars => Used'
<1> SUFFICES ASSUME IInv, Once, Used, [Next]_vars PROVE Used'
  OBVIOUS
<1> USE RibTableAssumption
<1>0. Live \subseteq Keys
  BY LiveIs DEF IInv, Types
<1>1. CASE LabelRead \/ NextSections \/ TransferStart \/ Walks \/ UNCHANGED vars
           \/ \E p \in Prefixes : WithdrawDuplicate(p) \/ AnnounceDuplicate(p)
  <2>1. node' = node /\ bucket' = bucket /\ hollow' = hollow
    BY <1>1 DEF LabelRead, NextSections, WithdrawDuplicate, AnnounceDuplicate, TransferStart, Walks,
                EnterBucket, Collect, SendLast, Astray, TransferStop, vars, tables
  <2>2. Current' = Current \/ Current = NULL
    <3>1. CASE LabelRead \/ NextSections
      BY <3>1 DEF LabelRead, NextSections, Current
    <3>2. CASE TransferStart \/ Walks \/ UNCHANGED vars
      <4>1. work' = work
        BY <3>2 DEF TransferStart, Walks, EnterBucket, Collect, SendLast, Astray, TransferStop, vars
      <4> QED BY <4>1 DEF Current
    <3>3. ASSUME NEW p \in Prefixes, WithdrawDuplicate(p) \/ AnnounceDuplicate(p)
          PROVE  Current' = Current
      BY <3>3, OneLessWork DEF WithdrawDuplicate, AnnounceDuplicate, IInv
    <3> QED BY <1>1, <3>1, <3>2, <3>3
  <2>3. Live' = Live
    BY <2>1 DEF Live
  <2> QED BY <1>0, <2>1, <2>2, <2>3 DEF Used
<1>2. CASE StartMpReach \/ StartReach
  <2>1. /\ work.key \in Keys /\ SearchAttrNode(work.key) /\ prefixTable' = prefixTable
        /\ hollow' = hollow /\ Current = NULL
    BY <1>2 DEF StartMpReach, StartReach, IInv, Types, Current
  <2>2. Current' = work.key
    BY <1>2 DEF StartMpReach, StartReach, IInv, Types, Current
  <2>3. node' = node /\ Live' \subseteq Live \cup {work.key}
    BY <2>1, Searched, SearchedOrder
  <2> QED BY <1>0, <2>1, <2>2, <2>3 DEF Used
<1>3. CASE EndMpReach \/ MessageEnds
  <2>1. /\ node' = node /\ bucket' = bucket
        /\ hollow' = hollow \/ hollow' = hollow \cup {Current}
        /\ Current # NULL /\ node[Current].refCount = 0 => Current \in hollow'
    BY <1>3 DEF EndMpReach, MessageEnds, tables, Current
  <2>2. Live' = Live
    BY <2>1 DEF Live
  <2> QED BY <1>0, <2>1, <2>2 DEF Used
<1>4. CASE AnnounceChanged \/ \E p \in Prefixes : AnnounceNew(p)
  <2>1. PICK p \in Prefixes : /\ Reference(Current, p) /\ bucket' = bucket /\ hollow' = hollow \ {Current}
                              /\ p \notin node[Current].prefixes /\ Current \in Keys
    <3>1. CASE AnnounceChanged
      <4>1. work.moving \in Prefixes /\ Current \in Keys
        BY <3>1 DEF AnnounceChanged, IInv, Types, Current
      <4>2. work.moving \notin node[Current].prefixes
        BY <4>1 DEF IInv, RefsAgree
      <4> QED BY <3>1, <4>1, <4>2 DEF AnnounceChanged
    <3>2. ASSUME NEW p \in Prefixes, AnnounceNew(p)
          PROVE  /\ Reference(Current, p) /\ bucket' = bucket /\ hollow' = hollow \ {Current}
                 /\ p \notin node[Current].prefixes /\ Current \in Keys
      <4>1. Current \in Keys
        BY <3>2 DEF AnnounceNew, Reachable, IInv, Types, Current
      <4>2. p \notin node[Current].prefixes
        BY <3>2, <4>1 DEF AnnounceNew, IInv, RefsAgree
      <4> QED BY <3>2, <4>1, <4>2 DEF AnnounceNew
    <3> QED BY <1>4, <3>1, <3>2
  <2>2. PICK n \in Keys : n = Current
    BY <2>1
  <2>3. node'[n].refCount # 0
    <3>0. /\ node' \in [Keys -> [refCount : Nat, prefixes : SUBSET Prefixes]]
          /\ node'[n].prefixes = node[n].prefixes \cup {p}
          /\ node'[n].refCount = Cardinality(node'[n].prefixes)
      BY <2>1, <2>2, Referenced
    <3>1. n \in Keys /\ node'[n].refCount = Cardinality(node'[n].prefixes) /\ p \in node'[n].prefixes
          /\ node'[n].prefixes \in SUBSET Prefixes
      BY <3>0
    <3> QED BY <3>1, FinitePrefixes, FS_EmptySet
  <2>4. \A k \in Keys : k # n => node'[k].refCount = node[k].refCount
    BY <2>1, <2>2, Referenced
  <2>5. Live' = Live
    BY <2>1 DEF Live
  <2> QED BY <1>0, <2>1, <2>2, <2>3, <2>4, <2>5 DEF Used
<1>5. ASSUME NEW p \in Prefixes, Withdraw(p) \/ AnnounceChange(p) PROVE Used'
  <2>1. /\ prefixTable[p] # NULL /\ work.moving = NULL /\ hollow' = hollow
        /\ Dereference(prefixTable[p], p)
    BY <1>5 DEF Withdraw, AnnounceChange, Unreachable, IInv, Types
  <2>2. PICK n \in Keys : n = prefixTable[p]
    BY <2>1 DEF IInv, Types
  <2>3. Current' = Current
    <3>1. CASE Withdraw(p)
      BY <3>1, OneLessWork DEF Withdraw, IInv
    <3>2. CASE AnnounceChange(p)
      <4>1. work' = [work EXCEPT !.moving = p, !.left = work.left - 1]
        BY <3>2 DEF AnnounceChange
      <4>2. work'.stage = work.stage /\ work'.key = work.key
        BY <4>1 DEF IInv, Types
      <4> QED BY <4>2 DEF Current
    <3> QED BY <1>5, <3>1, <3>2
  <2>4. Live' \subseteq Live /\ (Last(n) => n \notin Live')
    BY <2>1, <2>2, DereferencedOrder
  <2>5. node' = [node EXCEPT ![n] = [refCount |-> node[n].refCount - 1, prefixes |-> node[n].prefixes \ {p}]]
    BY <2>1, <2>2 DEF Dereference
  <2>6. ~Last(n) => node'[n].refCount # 0
    <3>1. node[n].refCount \in Nat /\ node'[n].refCount = node[n].refCount - 1
      BY <2>5 DEF IInv, Types
    <3> QED BY <3>1 DEF Last
  <2>7. \A k \in Keys : k # n => node'[k] = node[k]
    BY <2>5 DEF IInv, Types
  <2> QED BY <1>0, <2>1, <2>3, <2>4, <2>6, <2>7 DEF Used
<1>6. CASE DeleteRibTable
  BY <1>6 DEF DeleteRibTable, NoLists, Used, Live, Range
<1> QED BY <1>1, <1>2, <1>3, <1>4, <1>5, <1>6 DEF Next, LabelingThread

\* For any prefixes and attributes: a node is in the table once, in its bucket,
\* and one that no prefix refers to is about to get one or was made by an
\* MP_REACH without prefixes (searchAttrNode, removeAttrNode, applyBGPUpdate).
THEOREM NoNodeIsLeft == Spec => []LiveNodesAreUsed
<1>1. IInv /\ WInv /\ Used => LiveNodesAreUsed
  BY DEF IInv, InPlace, WInv, Once, Used, LiveNodesAreUsed
<1>2. IInv /\ WInv /\ Used /\ [Next]_vars => Used'
  BY NextUsed DEF WInv
<1> QED BY <1>1, <1>2, InitInv, NextInv, InitWalk, NextWalk, InitUsed, PTL DEF Spec
=============================================================================
