------------------------------ MODULE RibTable ------------------------------
(***************************************************************************)
(* The RIB of one session: the prefix table, the attribute table whose     *)
(* nodes are shared by reference count, and their two users: the labeling  *)
(* thread, which applies the peer's updates prefix by prefix and labels    *)
(* them, and the route refresh thread, which walks the attribute table to  *)
(* send the whole RIB.  They share only the node locks: the labeling thread*)
(* links and unlinks nodes without the lock of the bucket.                 *)
(***************************************************************************)
EXTENDS Integers, FiniteSets, Sequences, Functions

CONSTANTS
  V4, Mp,        \* prefixes: IPv4 unicast, and another address family
  Paths,         \* AS paths
  Attrs,         \* the other attributes of an update, without MP_REACH
  NoAttr,        \* no attribute but the path, or not even that: basicAttrlen = 0
  Keys,          \* the attributes that updates carry
  NumBuckets,    \* tableSize of the attribute table
  Hash,          \* attr_hash: the bucket of each path
  Room,          \* prefixes that fit into one message of a table transfer
  MaxPrefixes,   \* bound: prefixes in one update
  MaxHollow,     \* bound: nodes left by MP_REACHs without prefixes
  NULL

Prefixes == V4 \cup Mp
Buckets == 1..NumBuckets

ASSUME RibTableAssumption ==
  /\ IsFiniteSet(V4) /\ IsFiniteSet(Mp) /\ V4 \cap Mp = {} /\ NULL \notin Prefixes \cup Keys
  /\ Keys \subseteq [path : Paths, attr : Attrs \cup {NoAttr}, mp : BOOLEAN]
  /\ NumBuckets \in Nat \ {0} /\ Room \in Nat \ {0} /\ {MaxPrefixes, MaxHollow} \subseteq Nat
  /\ Hash \in [Paths -> Buckets]

VARIABLES
  prefixTable,   \* the node each prefix refers to (dataAttr)
  bucket,        \* the linked list of nodes in each bucket of the attribute table
  node,          \* of each node: refCount, the prefixes that refer to it
  asPath,        \* of each path: refCount and asPathID of its ASPath structure
  count,         \* attrCount and prefixCount
  work,          \* where the labeling thread is in its message
  label,         \* the label it appended last
  transfer,      \* where the route refresh thread is in its walk
  told,          \* history: which routes the transfer has sent, and which it need not send
  hollow         \* history: nodes left by an MP_REACH without prefixes

tables == <<prefixTable, bucket, node, asPath, count>>
vars == <<tables, work, label, transfer, told, hollow>>

NoWork == [stage |-> "idle", key |-> NULL, moving |-> NULL, left |-> 0, mpLeft |-> FALSE]
NoTransfer == [at |-> "none", bucket |-> 0, node |-> NULL, unsent |-> {}, freed |-> FALSE]
Untold == [p \in Prefixes |-> "no"]
Excused(S) == [p \in Prefixes |-> IF p \in S THEN "excused" ELSE told[p]]
Sent(S) == [p \in Prefixes |-> IF p \in S /\ told[p] = "no" THEN "sent" ELSE told[p]]

\* The node whose prefixes the labeling thread announces.
Current == IF work.stage \in {"mpreach", "reach"} THEN work.key ELSE NULL

BucketOf(n) == Hash[n.path]
Live == UNION {Range(bucket[i]) : i \in Buckets}

NoPrefixes == [p \in Prefixes |-> NULL]
NoLists == [i \in Buckets |-> <<>>]
NoNodes == [n \in Keys |-> [refCount |-> 0, prefixes |-> {}]]
NoPaths == [p \in Paths |-> [refCount |-> 0, id |-> 0]]
NoCount == [attr |-> 0, prefix |-> 0]

Init == /\ prefixTable = NoPrefixes /\ bucket = NoLists /\ node = NoNodes
        /\ asPath = NoPaths /\ count = NoCount
        /\ work = NoWork /\ label = "none"
        /\ transfer = NoTransfer /\ told = Untold /\ hollow = {}

(***************************************************************************)
(* The attribute table.                                                    *)
(***************************************************************************)
\* createAttrNode: at the head of the list.
CreateAttrNode(n, id) ==
  /\ node' = [node EXCEPT ![n] = [refCount |-> 0, prefixes |-> {}]]
  /\ asPath' = [asPath EXCEPT ![n.path] = [refCount |-> @.refCount + 1, id |-> id]]
  /\ bucket' = [bucket EXCEPT ![BucketOf(n)] = <<n>> \o @]
  /\ count' = [count EXCEPT !.attr = @ + 1]

NodesWith(path) == {n \in Live : n.path = path}

\* The ID of a path that is new to its bucket: the largest there, not one more.
NewPathID(path) == 0

\* Mutant: a node that is found moves to the head of its list.
SearchAttrNode_MoveToFront(n) ==
  IF n \in Live
  THEN /\ bucket' = [bucket EXCEPT ![BucketOf(n)] = <<n>> \o SelectSeq(@, LAMBDA k : k # n)]
       /\ UNCHANGED <<node, asPath, count>>
  ELSE CreateAttrNode(n, IF NodesWith(n.path) # {} THEN asPath[n.path].id ELSE NewPathID(n.path))

\* Mutant: another node for the same attributes.
SearchAttrNode_OnlyNew(n) == CreateAttrNode(n, asPath[n.path].id)

\* searchAttrNode: the node of these attributes, made if there is none, with
\* the structure of its path if another node of the bucket has that path.
SearchAttrNode(n) ==
  IF n \in Live THEN UNCHANGED <<bucket, node, asPath, count>>
  ELSE CreateAttrNode(n, IF NodesWith(n.path) # {} THEN asPath[n.path].id ELSE NewPathID(n.path))

\* Mutant: the first node of the list is taken off, whichever it is.
Unlinked_First(n) == Tail(bucket[BucketOf(n)])

\* removeAttrNode takes the node out of its list.
Unlinked(n) ==
  LET list == bucket[BucketOf(n)]
      at == CHOOSE i \in DOMAIN list : list[i] = n
  IN [i \in 1..(Len(list) - 1) |-> IF i < at THEN list[i] ELSE list[i + 1]]

\* One node fewer if p is the last of n's prefixes.
Last(n) == node[n].refCount = 1
Fewer(n) == IF Last(n) THEN 1 ELSE 0

\* A prefix leaves a node (removePefixFomAttr), and the last one takes the node
\* with it (removeAttrNode, destroyAttrNode).
Dereference(n, p) ==
  /\ node' = [node EXCEPT ![n] = [refCount |-> @.refCount - 1, prefixes |-> @.prefixes \ {p}]]
  /\ bucket' = IF Last(n) THEN [bucket EXCEPT ![BucketOf(n)] = Unlinked(n)] ELSE bucket
  /\ asPath' = IF Last(n) THEN [asPath EXCEPT ![n.path].refCount = @ - 1] ELSE asPath

\* The transfer's pointer to a node that is freed is left as it is.
FreedUnderTransfer(n) ==
  transfer' = IF transfer.node = n /\ Last(n)
              THEN [transfer EXCEPT !.freed = TRUE] ELSE transfer

Reference(n, p) ==
  node' = [node EXCEPT ![n] = [refCount |-> @.refCount + 1, prefixes |-> @.prefixes \cup {p}]]

(***************************************************************************)
(* The labeling thread.  What the next section or prefix of its message is *)
(* is chosen when the thread gets there.                                   *)
(***************************************************************************)
Changed(p) == told' = IF transfer.at = "none" THEN told ELSE Excused({p})

\* An update that parses.  (Labels are appended if the label action says so,
\* and never to the routes of an MRT peer's table.)
LabelRead ==
  /\ work.stage = "idle"
  /\ work' = [NoWork EXCEPT !.stage = "unreach", !.left = MaxPrefixes]
  /\ label' = "none"
  /\ UNCHANGED <<tables, transfer, told, hollow>>

\* The prefixes that the section in hand may withdraw or announce.
Unreachable == CASE work.stage = "unreach" -> V4 [] work.stage = "mp" -> Mp [] OTHER -> {}
Reachable == CASE work.stage = "mpreach" -> Mp [] work.stage = "reach" -> V4 [] OTHER -> {}

OneLess == work' = [work EXCEPT !.left = @ - 1]

\* applyUnreachablePrefix, for a prefix that is not in the table.
WithdrawDuplicate(p) ==
  /\ p \in Unreachable /\ work.left > 0
  /\ prefixTable[p] = NULL
  /\ label' = "WITHDRAW_DUPLICATE"
  /\ OneLess
  /\ UNCHANGED <<tables, transfer, told, hollow>>

\* applyUnreachablePrefix, for one that is.
Withdraw(p) ==
  /\ p \in Unreachable /\ work.left > 0
  /\ prefixTable[p] # NULL
  /\ label' = "WITHDRAW"
  /\ Dereference(prefixTable[p], p)
  /\ FreedUnderTransfer(prefixTable[p])
  /\ prefixTable' = [prefixTable EXCEPT ![p] = NULL]
  /\ count' = [count EXCEPT !.prefix = @ - 1, !.attr = @ - Fewer(prefixTable[p])]
  /\ Changed(p)
  /\ OneLess
  /\ UNCHANGED hollow

\* The MP sections follow; an error in a section drops the rest of the message
\* with what is applied already left applied.
NextSections ==
  /\ work.stage = "unreach"
  /\ \E k \in Keys : work' = [work EXCEPT !.stage = "mp", !.key = k, !.mpLeft = k.mp]
  /\ label' = "none"
  /\ UNCHANGED <<tables, transfer, told, hollow>>

StartMpReach ==
  /\ work.stage = "mp" /\ work.mpLeft
  /\ work.left > 0 \/ Cardinality(hollow) < MaxHollow
  /\ SearchAttrNode(work.key)
  /\ work' = [work EXCEPT !.stage = "mpreach", !.mpLeft = FALSE]
  /\ label' = "none"
  /\ UNCHANGED <<prefixTable, transfer, told, hollow>>

\* A section may end without a prefix: its node stays, for nobody.
EndMpReach ==
  /\ work.stage = "mpreach" /\ work.moving = NULL
  /\ node[Current].refCount > 0 \/ Cardinality(hollow \cup {Current}) <= MaxHollow
  /\ hollow' = IF node[Current].refCount = 0 THEN hollow \cup {Current} ELSE hollow
  /\ work' = [work EXCEPT !.stage = "mp"]
  /\ label' = "none"
  /\ UNCHANGED <<tables, transfer, told>>

\* The IPv4 announcements, if the message has any: not without an attribute.
StartReach ==
  /\ work.stage = "mp" /\ ~work.mpLeft /\ work.left > 0
  /\ work.key.attr # NoAttr
  /\ SearchAttrNode(work.key)
  /\ work' = [work EXCEPT !.stage = "reach"]
  /\ label' = "none"
  /\ UNCHANGED <<prefixTable, transfer, told, hollow>>

AnnounceNew(p) ==
  /\ p \in Reachable /\ work.left > 0 /\ work.moving = NULL
  /\ prefixTable[p] = NULL
  /\ label' = "ANNOUNCE_NEW"
  /\ prefixTable' = [prefixTable EXCEPT ![p] = Current]
  /\ Reference(Current, p)
  /\ count' = [count EXCEPT !.prefix = @ + 1]
  /\ Changed(p)
  /\ OneLess
  /\ hollow' = hollow \ {Current}
  /\ UNCHANGED <<bucket, asPath, transfer>>

AnnounceDuplicate(p) ==
  /\ p \in Reachable /\ work.left > 0 /\ work.moving = NULL
  /\ prefixTable[p] = Current
  /\ label' = "ANNOUNCE_DUPLICATE"
  /\ OneLess
  /\ UNCHANGED <<tables, transfer, told, hollow>>

\* Mutant: an other bucket is taken for the same path.
ChangeLabel_Bucket(old, new) ==
  IF BucketOf(old) = BucketOf(new) THEN "ANNOUNCE_DPATH" ELSE "ANNOUNCE_SPATH"

\* Whether the path is another one is told from bucket and ID.
ChangeLabel(old, new) ==
  IF BucketOf(old) # BucketOf(new) \/ asPath[old.path].id # asPath[new.path].id
  THEN "ANNOUNCE_DPATH" ELSE "ANNOUNCE_SPATH"

\* applyReachablePrefix, for a prefix with other attributes: it leaves the old
\* node, which another thread may see, and then enters the new one.
AnnounceChange(p) ==
  /\ p \in Reachable /\ work.left > 0 /\ work.moving = NULL
  /\ prefixTable[p] \notin {NULL, Current}
  /\ label' = ChangeLabel(prefixTable[p], Current)
  /\ Dereference(prefixTable[p], p)
  /\ FreedUnderTransfer(prefixTable[p])
  /\ count' = [count EXCEPT !.attr = @ - Fewer(prefixTable[p])]
  /\ Changed(p)
  /\ work' = [work EXCEPT !.moving = p, !.left = @ - 1]
  /\ UNCHANGED <<prefixTable, hollow>>

AnnounceChanged ==
  /\ work.moving # NULL
  /\ prefixTable' = [prefixTable EXCEPT ![work.moving] = Current]
  /\ Reference(Current, work.moving)
  /\ work' = [work EXCEPT !.moving = NULL]
  /\ hollow' = hollow \ {Current}
  /\ label' = "none"
  /\ UNCHANGED <<bucket, asPath, count, transfer, told>>

\* The message is forwarded with its labels, or it is dropped: a section is
\* corrupt, or routes come without attributes.  A section of IPv4 routes that
\* is started has one.
MessageEnds ==
  /\ work.stage \in {"unreach", "mp", "reach"} /\ work.moving = NULL
  /\ work.stage = "reach" => node[Current].refCount > 0
  /\ work' = NoWork /\ label' = "none"
  /\ UNCHANGED <<tables, transfer, told, hollow>>

\* deleteRibTable: the tables go with the session, if their counts are right.
\* (How this races with a transfer is in SessionLife.)
CountsRight == /\ count.prefix = Cardinality({p \in Prefixes : prefixTable[p] # NULL})
               /\ count.attr = FoldFunction(LAMBDA list, n : Len(list) + n, 0, bucket)

DeleteRibTable ==
  /\ work.stage = "idle" /\ transfer.at = "none"
  /\ CountsRight
  /\ prefixTable' = NoPrefixes /\ bucket' = NoLists /\ node' = NoNodes
  /\ asPath' = NoPaths /\ count' = NoCount
  /\ hollow' = {}
  /\ UNCHANGED <<work, label, transfer, told>>

LabelingThread ==
  \/ LabelRead \/ NextSections \/ StartMpReach \/ EndMpReach \/ StartReach
  \/ AnnounceChanged \/ MessageEnds \/ DeleteRibTable
  \/ \E p \in Prefixes : \/ WithdrawDuplicate(p) \/ Withdraw(p)
                         \/ AnnounceNew(p) \/ AnnounceDuplicate(p) \/ AnnounceChange(p)

(***************************************************************************)
(* The route refresh thread: sendRibTable.                                 *)
(***************************************************************************)
TransferStart ==
  /\ transfer.at = "none"
  /\ transfer' = [NoTransfer EXCEPT !.at = "bucket", !.bucket = 1]
  /\ told' = [p \in Prefixes |-> IF p = work.moving THEN "excused" ELSE "no"]
  /\ UNCHANGED <<tables, work, label, hollow>>

ToNode(n) == transfer' = [transfer EXCEPT !.at = IF n = NULL THEN "bucket" ELSE "node", !.node = n,
                                          !.bucket = IF n = NULL THEN @ + 1 ELSE @,
                                          !.unsent = {}, !.freed = FALSE]

EnterBucket ==
  /\ transfer.at = "bucket" /\ transfer.bucket \in Buckets
  /\ ToNode(IF bucket[transfer.bucket] = <<>> THEN NULL ELSE bucket[transfer.bucket][1])
  /\ UNCHANGED <<tables, work, label, told, hollow>>

\* What is sent before the node is unlocked, a message each time one is full,
\* and what is left for the last message: all MP prefixes go into one.
Chunks(m, v) ==
  {<<(m \cup v) \ last, last>> : last \in
     {last \in SUBSET (m \cup v) :
        IF Cardinality(m \cup v) <= Room THEN last = m \cup v
        ELSE last \subseteq v /\ Cardinality(last) \in 1..Room
             /\ (Cardinality(m \cup v) - Cardinality(last)) % Room = 0}}

\* sendBMFFromAttrNode, with the node locked: MP prefixes that leave no room for
\* the attributes make it fail, and none of the node's prefixes are sent.
Collect ==
  /\ transfer.at = "node" /\ ~transfer.freed
  /\ LET n == transfer.node
         mpRefs == node[n].prefixes \cap Mp
     IN IF Cardinality(mpRefs) > Room
        THEN /\ transfer' = [transfer EXCEPT !.at = "collected"]
             /\ told' = Excused(node[n].prefixes)
        ELSE \E chunks \in Chunks(mpRefs, node[n].prefixes \cap V4) :
             /\ told' = Sent(chunks[1])
             /\ transfer' = [transfer EXCEPT !.at = "collected", !.unsent = chunks[2]]
  /\ UNCHANGED <<tables, work, label, hollow>>

After(n) == LET list == bucket[transfer.bucket]
                i == CHOOSE i \in DOMAIN list : list[i] = n
            IN IF i = Len(list) THEN NULL ELSE list[i + 1]

\* The last message, made from the node after it is unlocked, and the step to
\* the next node.
SendLast ==
  /\ transfer.at = "collected" /\ ~transfer.freed
  /\ told' = Sent(transfer.unsent)
  /\ ToNode(After(transfer.node))
  /\ UNCHANGED <<tables, work, label, hollow>>

\* The node under the walk has been freed: the thread reads from it whatever
\* there is, and may go on anywhere.
Astray ==
  /\ transfer.freed
  /\ \E n \in Live \cup {NULL} :
       transfer' = [transfer EXCEPT !.at = IF n = NULL THEN "bucket" ELSE "node", !.node = n,
                                    !.bucket = IF n = NULL THEN @ + 1 ELSE BucketOf(n),
                                    !.unsent = {}, !.freed = FALSE]
  /\ told' = Excused(Prefixes)
  /\ UNCHANGED <<tables, work, label, hollow>>

TransferStop ==
  /\ transfer.at = "bucket" /\ transfer.bucket > NumBuckets
  /\ transfer' = NoTransfer /\ told' = Untold
  /\ UNCHANGED <<tables, work, label, hollow>>

Walks == EnterBucket \/ Collect \/ SendLast \/ Astray \/ TransferStop

Next == LabelingThread \/ TransferStart \/ Walks

Spec == Init /\ [][Next]_vars

(***************************************************************************)
(* Properties.                                                             *)
(***************************************************************************)
\* The type of each variable (rtable.h, the structures).
TypeOK ==
  /\ prefixTable \in [Prefixes -> Keys \cup {NULL}]
  /\ bucket \in [Buckets -> Seq(Keys)]
  /\ node \in [Keys -> [refCount : Nat, prefixes : SUBSET Prefixes]]
  /\ asPath \in [Paths -> [refCount : Nat, id : Nat]]
  /\ count \in [attr : Nat, prefix : Nat]
  /\ work \in [stage : {"idle", "unreach", "mp", "mpreach", "reach"}, key : Keys \cup {NULL},
               moving : Prefixes \cup {NULL}, left : Nat, mpLeft : BOOLEAN]
  /\ transfer.bucket \in 0..(NumBuckets + 1) /\ transfer.node \in Keys \cup {NULL}
  /\ transfer.unsent \in SUBSET Prefixes
  /\ told \in [Prefixes -> {"no", "sent", "excused"}]
  /\ hollow \subseteq Keys

\* The prefixes that refer to a node are the ones it lists and counts, but for
\* a prefix on its way from one node to another (rtable.c:1052, 1222).
RefsAgree ==
  \A n \in Keys : /\ node[n].prefixes = {p \in Prefixes \ {work.moving} : prefixTable[p] = n}
                  /\ node[n].refCount = Cardinality(node[n].prefixes)

\* A node that prefixes refer to, or that the labeling thread announces with, is
\* in the table: neither ever uses a node that is freed (rtable.c:1183, 1257).
NodesUsedAreLive ==
  /\ \A n \in Keys : node[n].refCount > 0 => n \in Live
  /\ Current # NULL => Current \in Live

\* The other way round: a node is in the table once, in the bucket of its path,
\* and one without prefixes is about to get one or was made by an MP_REACH
\* without prefixes (rtable.c:517, 399).
LiveNodesAreUsed ==
  /\ \A i \in Buckets : /\ \A j, k \in DOMAIN bucket[i] : j # k => bucket[i][j] # bucket[i][k]
                        /\ \A j \in DOMAIN bucket[i] : BucketOf(bucket[i][j]) = i
  /\ \A n \in Live : node[n].refCount = 0 => n \in hollow \cup {Current}

\* A table transfer that updates do not lead astray tells of every route that
\* is not changed while it walks, however nodes come and go around it, and but
\* for nodes with more MP prefixes than fit into a message (label.c:564-588).
TransferComplete ==
  transfer.at = "bucket" /\ transfer.bucket > NumBuckets =>
    \A p \in Prefixes : prefixTable[p] # NULL => told[p] # "no"

\* The tables with their shared nodes implement the plain table of routes and
\* its labels; two paths in one bucket look alike (rtable.c:569).
RibSpec == INSTANCE Rib WITH
  Routes <- Keys, NoRoute <- NULL,
  PathOf <- [n \in Keys |-> n.path],
  LooksAlike <- {pair \in Paths \X Paths : Hash[pair[1]] = Hash[pair[2]]},
  rib <- [p \in Prefixes |-> IF p = work.moving THEN Current ELSE prefixTable[p]]

ImplementsRib == RibSpec!Spec
=============================================================================
