---------------------------- MODULE PipelineProofs ----------------------------
(***************************************************************************)
(* The threads that hand the messages on.  What a client reads lets it     *)
(* follow the tables (Feed); what still runs when the queues are freed     *)
(* (StartStop).                                                            *)
(***************************************************************************)
EXTENDS Feed, StartStop, WellFoundedInduction, TLAPS

(***************************************************************************)
(* The client's tables, by the number of the messages it has read: the     *)
(* recursive function Followed has the values that its definition states.  *)
(***************************************************************************)

NoRoutes == [p \in Peer |-> {}]

\* What the message of a number makes of the tables.
AfterReading(messages, k, tables) ==
  IF \E x \in messages : Position(x) = k
  THEN Follow(tables, CHOOSE x \in messages : Position(x) = k) ELSE tables

\* A function that follows the messages as far as the number n.
FollowsTo(messages, n, f) ==
  /\ f[0] = NoRoutes
  /\ \A k \in 0..n : k # 0 => f[k] = AfterReading(messages, k - 1, f[k - 1])

LEMMA LeastIn ==
  ASSUME NEW S \in SUBSET Nat, S # {}
  PROVE  \E n \in S : \A k \in S : n <= k
<1>1. PICK n \in S : \A k \in S : ~(<<k, n>> \in OpToRel(<, Nat))
  BY WFMin, NatLessThanWellFounded, Zenon
<1>2. \A k \in S : ~(k < n)
  BY <1>1 DEF OpToRel
<1> QED BY <1>2

\* There is one for every number.
LEMMA FollowsToExists ==
  ASSUME NEW messages, NEW n \in Nat
  PROVE  \E f : FollowsTo(messages, n, f)
<1> DEFINE none == {k \in Nat : ~ \E f : FollowsTo(messages, k, f)}
<1>1. 0 \notin none
  <2>1. FollowsTo(messages, 0, [k \in {0} |-> NoRoutes])
    BY DEF FollowsTo
  <2> QED BY <2>1
<1>2. ASSUME NEW k \in Nat, k + 1 \in none PROVE k \in none
  <2> SUFFICES ASSUME NEW f, FollowsTo(messages, k, f) PROVE FALSE
    BY <1>2
  <2> DEFINE g == [i \in 0..(k + 1) |-> IF i <= k THEN f[i] ELSE AfterReading(messages, k, f[k])]
  <2>1. g[0] = NoRoutes
    BY DEF FollowsTo
  <2>2. ASSUME NEW i \in 0..(k + 1), i # 0 PROVE g[i] = AfterReading(messages, i - 1, g[i - 1])
    <3>1. g[i - 1] = f[i - 1]
      BY <2>2
    <3>2. CASE i = k + 1
      BY <3>1, <3>2
    <3>3. CASE i \in 0..k
      BY <3>1, <3>3, <2>2 DEF FollowsTo
    <3> QED BY <3>2, <3>3
  <2>3. FollowsTo(messages, k + 1, g)
    BY <2>1, <2>2 DEF FollowsTo
  <2> QED BY <2>3, <1>2
<1>3. none = {}
  <2> SUFFICES ASSUME none # {} PROVE FALSE
    OBVIOUS
  <2>1. PICK k \in none : \A j \in none : k <= j
    BY LeastIn
  <2>2. k # 0 /\ k - 1 \in Nat
    BY <1>1
  <2>3. k - 1 \in none
    BY <1>2, <2>2
  <2> QED BY <2>1, <2>2, <2>3
<1> QED BY <1>3

\* Two of them agree as far as both go.
LEMMA FollowsToAgree ==
  ASSUME NEW messages, NEW m \in Nat, NEW n \in Nat, NEW f, NEW g,
         FollowsTo(messages, m, f), FollowsTo(messages, n, g)
  PROVE  \A k \in Nat : k <= m /\ k <= n => f[k] = g[k]
<1> DEFINE differ == {k \in Nat : k <= m /\ k <= n /\ f[k] # g[k]}
<1> SUFFICES ASSUME differ # {} PROVE FALSE
  OBVIOUS
<1>1. PICK k \in differ : \A j \in differ : k <= j
  BY LeastIn
<1>2. k # 0 /\ k \in 0..m /\ k \in 0..n /\ k - 1 \in Nat
  BY DEF FollowsTo
<1>3. f[k - 1] = g[k - 1]
  BY <1>1, <1>2
<1>4. f[k] = AfterReading(messages, k - 1, f[k - 1]) /\ g[k] = AfterReading(messages, k - 1, g[k - 1])
  BY <1>2 DEF FollowsTo
<1> QED BY <1>3, <1>4

\* Followed satisfies the equation by which it is defined.
LEMMA FollowedIs ==
  ASSUME NEW messages
  PROVE  /\ Followed(messages)[0] = NoRoutes
         /\ \A k \in Nat : Followed(messages)[k + 1] = AfterReading(messages, k, Followed(messages)[k])
<1> DEFINE to(n) == CHOOSE f : FollowsTo(messages, n, f)
           all   == [k \in Nat |-> to(k)[k]]
           Is(b) == b = [k \in Nat |->
                           IF k = 0 THEN [p \in Peer |-> {}]
                           ELSE IF \E x \in messages : Position(x) = k - 1
                           THEN Follow(b[k - 1], CHOOSE x \in messages : Position(x) = k - 1)
                           ELSE b[k - 1]]
<1>1. \A n \in Nat : FollowsTo(messages, n, to(n))
  BY FollowsToExists
<1>2. all[0] = NoRoutes
  BY <1>1 DEF FollowsTo
<1>3. ASSUME NEW k \in Nat, k # 0 PROVE all[k] = AfterReading(messages, k - 1, all[k - 1])
  <2>1. k - 1 \in Nat /\ k \in 0..k
    BY <1>3
  <2>2. to(k)[k - 1] = to(k - 1)[k - 1]
    <3> HIDE DEF to
    <3> QED BY <1>1, <2>1, FollowsToAgree
  <2>3. to(k)[k] = AfterReading(messages, k - 1, to(k)[k - 1])
    BY <1>1, <1>3, <2>1 DEF FollowsTo
  <2> QED BY <2>1, <2>2, <2>3
<1>4. Is(all)
  <2> HIDE DEF to
  <2>1. all = [k \in Nat |-> all[k]]
    OBVIOUS
  <2> HIDE DEF all
  <2>2. ASSUME NEW k \in Nat
        PROVE  all[k] = IF k = 0 THEN [p \in Peer |-> {}]
                        ELSE IF \E x \in messages : Position(x) = k - 1
                        THEN Follow(all[k - 1], CHOOSE x \in messages : Position(x) = k - 1)
                        ELSE all[k - 1]
    BY <1>2, <1>3 DEF AfterReading, NoRoutes
  <2> QED BY <2>1, <2>2
<1>5. Followed(messages) = CHOOSE b : Is(b)
  BY DEF Followed
<1> HIDE DEF all
<1>6. Is(Followed(messages))
  <2> HIDE DEF Is
  <2> QED BY <1>4, <1>5
<1> DEFINE F == Followed(messages)
<1> HIDE DEF F
<1>7. F[0] = NoRoutes
  BY <1>6 DEF F, NoRoutes
<1>8. ASSUME NEW k \in Nat PROVE F[k + 1] = AfterReading(messages, k, F[k])
  <2>1. k + 1 \in Nat /\ k + 1 # 0 /\ (k + 1) - 1 = k
    OBVIOUS
  <2>2. Is(F)
    BY <1>6 DEF F
  <2> QED BY <2>1, <2>2 DEF AfterReading
<1> QED BY <1>7, <1>8 DEF F

\* Only the messages of lower numbers matter to the tables before a number.
LEMMA FollowedOnlySees ==
  ASSUME NEW messages, NEW x, NEW c \in Nat, Position(x) = c,
         \A y, z \in messages : Position(y) = Position(z) => y = z,
         \A y \in messages : Position(y) \in Nat /\ Position(y) < c
  PROVE  /\ \A k \in Nat : k <= c => Followed(messages \cup {x})[k] = Followed(messages)[k]
         /\ Followed(messages \cup {x})[c + 1] = Follow(Followed(messages)[c], x)
<1> DEFINE more  == messages \cup {x}
           F     == Followed(messages)
           G     == Followed(more)
           wrong == {k \in Nat : k <= c /\ G[k] # F[k]}
<1>1. F[0] = G[0] /\ \A k \in Nat : /\ F[k + 1] = AfterReading(messages, k, F[k])
                                    /\ G[k + 1] = AfterReading(more, k, G[k])
  BY FollowedIs
<1> HIDE DEF F, G
<1>2. ASSUME NEW k \in Nat, k < c, NEW t PROVE AfterReading(more, k, t) = AfterReading(messages, k, t)
  <2>1. CASE \E y \in messages : Position(y) = k
    <3> PICK y \in messages : Position(y) = k
      BY <2>1
    <3>1. \A z : z \in messages /\ Position(z) = k => z = y
      OBVIOUS
    <3>2. \A z : z \in more /\ Position(z) = k => z = y
      BY <1>2, <3>1
    <3>3. y = (CHOOSE z \in messages : Position(z) = k) /\ y = (CHOOSE z \in more : Position(z) = k)
      BY <3>1, <3>2, Zenon
    <3> QED BY <3>3 DEF AfterReading
  <2>2. CASE ~ \E y \in messages : Position(y) = k
    <3>1. ~ \E y \in more : Position(y) = k
      BY <1>2, <2>2
    <3> QED BY <2>2, <3>1 DEF AfterReading
  <2> QED BY <2>1, <2>2
<1>3. wrong = {}
  <2> SUFFICES ASSUME wrong # {} PROVE FALSE
    OBVIOUS
  <2>1. PICK k \in wrong : \A j \in wrong : k <= j
    BY LeastIn
  <2>2. k # 0 /\ k - 1 \in Nat /\ k - 1 < c /\ (k - 1) + 1 = k
    BY <1>1
  <2>3. F[k - 1] = G[k - 1]
    BY <2>1, <2>2
  <2>4. F[k] = AfterReading(messages, k - 1, F[k - 1]) /\ G[k] = AfterReading(more, k - 1, G[k - 1])
    BY <1>1, <2>2
  <2> QED BY <1>2, <2>2, <2>3, <2>4
<1>4. G[c + 1] = Follow(F[c], x)
  <2>1. \A z : z \in more /\ Position(z) = c => z = x
    OBVIOUS
  <2>2. x = (CHOOSE z \in more : Position(z) = c) /\ \E z \in more : Position(z) = c
    BY <2>1
  <2>3. AfterReading(more, c, G[c]) = Follow(G[c], x)
    BY <2>2 DEF AfterReading
  <2> QED BY <1>1, <1>3, <2>3
<1> QED BY <1>3, <1>4 DEF F, G

(***************************************************************************)
(* What is queued and what is written.                                     *)
(***************************************************************************)

MessageTypes == {"TO_PEER", "LABELED", "FROM_PEER", "FSM_STATE_CHANGE"} \cup Status \cup TableTypes
LabelNames   == {"WITH", "DUPW", "DANN", "NANN"}
LabelLists   == {<<>>} \cup UNION {[DOMAIN AllChanges(Applied(u)) -> LabelNames] : u \in Update}

Bmfs == [type : MessageTypes, sessionID : SessionIDs \cup {0}, sender : Peer \cup {"none"},
         update : {<<>>} \cup {<<u>> : u \in Update}, labels : LabelLists, closes : BOOLEAN, sure : BOOLEAN]

Documents ==
  [type : MessageTypes, peer : Peer \cup {"none"}, number : 0..UINT_MAX,
   printed : {GenAsciiMsg(m) : m \in Bmfs}, labels : {XmlNewChildPrefixes(m, GenAsciiMsg(m)) : m \in Bmfs},
   length : {StatedLength(GenAsciiMsg(m)) : m \in Bmfs}, size : {WrittenLength(GenAsciiMsg(m)) : m \in Bmfs},
   closes : BOOLEAN, sure : BOOLEAN, sender : Peer \cup {"none"}]

\* A peer has one open session at most.
SessionsSound ==
  /\ sessions = [i \in SessionIDs |-> sessions[i]]
  /\ \A i \in SessionIDs :
       /\ DOMAIN sessions[i] = {"peer", "state", "labelAction", "table"}
       /\ sessions[i].peer \in Peer \cup {"none"} /\ sessions[i].labelAction \in Actions
       /\ Open(i) => sessions[i].peer \in Peer
  /\ \A i, k \in SessionIDs : Open(i) /\ Open(k) /\ sessions[i].peer = sessions[k].peer => i = k

FeedTypes ==
  /\ transfer = NoTransfer \/ transfer \in [at : {"found", "started"}, sessionID : SessionIDs]
  /\ lost \in [Peer -> BOOLEAN]
  /\ labeledQueue \in Seq(Bmfs) /\ written \in 0..MaxMessages /\ seq_num \in 0..UINT_MAX
  /\ xmlUQueue \in Seq(Documents) /\ xmlRQueue \in Seq(Documents)

\* The messages of a session, other than those of a table transfer.
Own(m) == m.type \notin Status \cup TableTypes

\* Only they name a sender, and only a change of state ends a session.
InForm(m) ==
  /\ m.type \notin Status => m.sessionID \in SessionIDs
  /\ IF Own(m) THEN m.sender \in Peer ELSE m.sender = "none" /\ m.update = <<>>
  /\ m.closes => m.type = "FSM_STATE_CHANGE"

\* The session of a message is not freed before the message has been read.
QueuedFor ==
  \A i \in DOMAIN labeledQueue :
    /\ InForm(labeledQueue[i])
    /\ Own(labeledQueue[i]) => sessions[labeledQueue[i].sessionID].peer = labeledQueue[i].sender
    /\ labeledQueue[i].closes =>
         /\ sessions[labeledQueue[i].sessionID].state = "closing"
         /\ \A j \in DOMAIN labeledQueue :
              j > i /\ Own(labeledQueue[j]) => labeledQueue[j].sessionID # labeledQueue[i].sessionID

\* What a client will make of its tables when it reads the message.
Reads(tables, m) ==
  IF m.sender = "none" THEN tables
  ELSE [tables EXCEPT ![m.sender] = IF m.closes THEN {} ELSE Changing(@, GenAsciiMsg(m))]

NumberAt(c) == FirstNumber + c - (IF FirstNumber + c > UINT_MAX THEN UINT_MAX + 1 ELSE 0)

\* So many messages have been numbered.
Numbered(c) ==
  /\ c + Len(labeledQueue) <= written /\ seq_num = NumberAt(c)
  /\ \A x \in Messages : Position(x) \in Nat /\ Position(x) < c

\* A client that has this table for a peer has what the peer's session has.
Sees(p, t) ==
  /\ \A i \in SessionIDs :
       Open(i) /\ sessions[i].peer = p /\ sessions[i].labelAction # "NoAction" => sessions[i].table = t
  /\ (\A i \in SessionIDs : Open(i) => sessions[i].peer # p) => t = {}

\* The labels are those of the changes from this table.
LabeledFrom(tables, m) ==
  m.type = "LABELED" /\ m.sure => m.labels = Labels(tables[m.sender], GenAsciiMsg(m))

\* The client's tables before each message of the labeled queue, and after the last.
Told(tables) ==
  /\ \A i \in 0..Len(labeledQueue) : tables[i] = [p \in Peer |-> tables[i][p]]
  /\ \A i \in 1..Len(labeledQueue) : /\ tables[i] = Reads(tables[i - 1], labeledQueue[i])
                                     /\ LabeledFrom(tables[i - 1], labeledQueue[i])
  /\ \A p \in Peer : ~ lost[p] => Sees(p, tables[Len(labeledQueue)][p])

\* A client that has read all that was numbered has the tables from which the
\* labels of the queued messages were made.
WillFollow == \E c \in Nat : \E tables : Numbered(c) /\ tables[0] = Followed(Messages)[c] /\ Told(tables)

FeedIInv == SessionsSound /\ FeedTypes /\ QueuedFor /\ ClientFollows /\ WillFollow

\* A message that is put on the labeled queue.
LEMMA QueuedFits ==
  ASSUME FeedTypes, NEW m \in Bmfs, Forward(m)
  PROVE  /\ labeledQueue' \in Seq(Bmfs) /\ Len(labeledQueue') \in 1..(Len(labeledQueue) + 1)
         /\ labeledQueue'[Len(labeledQueue')] = m
         /\ ~ Full => /\ Len(labeledQueue') = Len(labeledQueue) + 1
                      /\ \A i \in DOMAIN labeledQueue : labeledQueue'[i] = labeledQueue[i]
         /\ Full => Len(labeledQueue') = 1
         /\ \A i \in DOMAIN labeledQueue' :
              i = Len(labeledQueue') \/ (~ Full /\ i \in DOMAIN labeledQueue /\ labeledQueue'[i] = labeledQueue[i])
         /\ written' = written + 1 /\ written' \in 0..MaxMessages
<1>1. labeledQueue \in Seq(Bmfs) /\ Len(labeledQueue) \in Nat /\ DOMAIN labeledQueue = 1..Len(labeledQueue)
  BY DEF FeedTypes
<1>2. written' = written + 1 /\ written' \in 0..MaxMessages
  BY FeedAssumption DEF FeedTypes, Forward
<1>3. CASE Full
  <2>1. labeledQueue' = <<m>>
    BY <1>3 DEF Forward
  <2>2. <<m>> \in Seq(Bmfs) /\ Len(<<m>>) = 1 /\ DOMAIN <<m>> = 1..1 /\ <<m>>[1] = m
    OBVIOUS
  <2> QED BY <1>1, <1>2, <1>3, <2>1, <2>2
<1>4. CASE ~ Full
  <2>1. labeledQueue' = Append(labeledQueue, m)
    BY <1>4 DEF Forward
  <2> QED BY <1>1, <1>2, <1>4, <2>1
<1> QED BY <1>3, <1>4

\* It keeps the messages before it in order with what they say of their sessions.
LEMMA QueuedForStays ==
  ASSUME FeedTypes, QueuedFor, NEW m \in Bmfs, Forward(m), InForm(m),
         Own(m) => Open(m.sessionID) /\ sessions[m.sessionID].peer = m.sender,
         \A i \in SessionIDs :
           /\ sessions'[i].peer = sessions[i].peer
           /\ sessions'[i].state = IF m.closes /\ i = m.sessionID THEN "closing" ELSE sessions[i].state
  PROVE  QueuedFor'
<1>1. m.closes => Own(m)
  BY DEF InForm, Own, Status, TableTypes
<1>2. ASSUME NEW i \in DOMAIN labeledQueue
      PROVE  /\ Own(labeledQueue[i]) => labeledQueue[i].sessionID \in SessionIDs
             /\ labeledQueue[i].closes => /\ Own(labeledQueue[i])
                                          /\ sessions'[labeledQueue[i].sessionID].state = "closing"
                                          /\ Own(m) => labeledQueue[i].sessionID # m.sessionID
  <2>1. InForm(labeledQueue[i]) /\ (labeledQueue[i].closes => sessions[labeledQueue[i].sessionID].state = "closing")
    BY DEF QueuedFor
  <2>2. /\ Own(labeledQueue[i]) => labeledQueue[i].sessionID \in SessionIDs
        /\ labeledQueue[i].closes => Own(labeledQueue[i])
    BY <2>1 DEF InForm, Own, Status, TableTypes
  <2> QED BY <2>1, <2>2 DEF Open
<1>3. Own(m) => m.sessionID \in SessionIDs
  BY DEF InForm, Own
<1>4. ASSUME NEW i \in DOMAIN labeledQueue'
      PROVE  /\ InForm(labeledQueue'[i])
             /\ Own(labeledQueue'[i]) => sessions'[labeledQueue'[i].sessionID].peer = labeledQueue'[i].sender
             /\ labeledQueue'[i].closes => sessions'[labeledQueue'[i].sessionID].state = "closing"
  <2>1. CASE i = Len(labeledQueue')
    <3>1. labeledQueue'[i] = m
      BY <2>1, QueuedFits
    <3> QED BY <3>1, <1>1, <1>3
  <2>2. CASE i \in DOMAIN labeledQueue /\ labeledQueue'[i] = labeledQueue[i]
    BY <2>2, <1>2 DEF QueuedFor
  <2> QED BY <2>1, <2>2, QueuedFits
<1>5. ASSUME NEW i \in DOMAIN labeledQueue', labeledQueue'[i].closes,
             NEW j \in DOMAIN labeledQueue', j > i, Own(labeledQueue'[j])
      PROVE  labeledQueue'[j].sessionID # labeledQueue'[i].sessionID
  <2>1. i # Len(labeledQueue')
    BY <1>5, QueuedFits
  <2>2. i \in DOMAIN labeledQueue /\ labeledQueue'[i] = labeledQueue[i]
    BY <2>1, QueuedFits
  <2>3. CASE j \in DOMAIN labeledQueue /\ labeledQueue'[j] = labeledQueue[j]
    BY <1>5, <2>2, <2>3 DEF QueuedFor
  <2>4. CASE j = Len(labeledQueue')
    <3>1. labeledQueue'[j] = m
      BY <2>4, QueuedFits
    <3> QED BY <1>5, <3>1, <2>2, <1>2
  <2> QED BY <2>3, <2>4, QueuedFits
<1>6. \A i \in DOMAIN labeledQueue' :
        /\ InForm(labeledQueue'[i])
        /\ Own(labeledQueue'[i]) => sessions'[labeledQueue'[i].sessionID].peer = labeledQueue'[i].sender
        /\ labeledQueue'[i].closes =>
             /\ sessions'[labeledQueue'[i].sessionID].state = "closing"
             /\ \A j \in DOMAIN labeledQueue' :
                  j > i /\ Own(labeledQueue'[j]) => labeledQueue'[j].sessionID # labeledQueue'[i].sessionID
  BY <1>4, <1>5
<1> QED BY <1>6 DEF QueuedFor

\* A table that nothing changes stays as it is.
LEMMA NothingChanges ==
  ASSUME NEW t
  PROVE  Changing(t, <<>>) = t
<1> DEFINE Is(b) == b = [i \in 0..0 |-> IF i = 0 THEN t ELSE Changed(b[i - 1], <<>>[i])]
<1>1. Is([i \in 0..0 |-> t])
  OBVIOUS
<1>2. Len(<<>>) = 0
  OBVIOUS
<1>3. TableAfter(t, <<>>) = CHOOSE b : Is(b)
  BY <1>2 DEF TableAfter
<1>4. Is(TableAfter(t, <<>>))
  <2> HIDE DEF Is
  <2> QED BY <1>1, <1>3
<1>5. TableAfter(t, <<>>)[0] = t
  BY <1>4
<1> QED BY <1>2, <1>5 DEF Changing

\* When the labeled queue is full and nothing of a peer is skipped, the
\* client has the peer's table without what is skipped.
LEMMA NothingIsSkipped ==
  ASSUME FeedTypes, NEW tables, Told(tables), Full, NEW p \in Peer, p \notin Skipped
  PROVE  tables[0][p] = tables[Len(labeledQueue)][p]
<1> DEFINE n      == Len(labeledQueue)
           differ == {k \in 0..n : tables[k][p] # tables[0][p]}
<1>1. n \in Nat /\ DOMAIN labeledQueue = 1..n
  BY DEF FeedTypes
<1> SUFFICES ASSUME differ # {} PROVE FALSE
  BY <1>1
<1>2. PICK k \in differ : \A j \in differ : k <= j
  <2>1. differ \in SUBSET Nat
    BY <1>1
  <2> HIDE DEF differ
  <2> QED BY <2>1, LeastIn
<1>3. k \in 1..n /\ k - 1 \in 0..n /\ tables[k - 1][p] = tables[0][p]
  BY <1>1, <1>2
<1>4. /\ tables[k] = Reads(tables[k - 1], labeledQueue[k])
      /\ tables[k - 1] = [q \in Peer |-> tables[k - 1][q]]
  BY <1>3 DEF Told
<1>5. labeledQueue[k].sender = p => ~ labeledQueue[k].closes /\ labeledQueue[k].update = <<>>
  <2>1. labeledQueue[k] \in ToSet(labeledQueue)
    BY <1>1, <1>3 DEF ToSet
  <2> QED BY <2>1 DEF Skipped
<1>6. tables[k][p] = tables[k - 1][p]
  <2>1. CASE labeledQueue[k].sender = p
    <3>1. GenAsciiMsg(labeledQueue[k]) = <<>>
      BY <1>5, <2>1 DEF GenAsciiMsg
    <3>2. Reads(tables[k - 1], labeledQueue[k])[p] = Changing(tables[k - 1][p], <<>>)
      BY <1>4, <1>5, <2>1, <3>1, FeedAssumption DEF Reads
    <3> QED BY <1>4, <3>2, NothingChanges
  <2>2. CASE labeledQueue[k].sender # p
    BY <1>4, <2>2 DEF Reads
  <2> QED BY <2>1, <2>2
<1> QED BY <1>2, <1>3, <1>6

\* The client that will follow also follows it, from the tables that it has
\* when it comes to read it.
LEMMA ToldOfOneMore ==
  ASSUME FeedTypes, NEW tables, Told(tables), NEW m \in Bmfs, Forward(m),
         NEW base, base = IF Full THEN tables[0] ELSE tables[Len(labeledQueue)],
         LabeledFrom(base, m),
         \A p \in Peer : ~ lost'[p] => \A t : t = Reads(base, m)[p] => Sees(p, t)'
  PROVE  \E more : more[0] = tables[0] /\ Told(more)'
<1> DEFINE n    == Len(labeledQueue') - 1
           last == Reads(base, m)
<1>1. /\ n \in Nat /\ Len(labeledQueue') = n + 1 /\ n \in 0..Len(labeledQueue) /\ Len(labeledQueue) \in Nat
      /\ DOMAIN labeledQueue = 1..Len(labeledQueue) /\ DOMAIN labeledQueue' = 1..(n + 1)
      /\ labeledQueue'[n + 1] = m /\ base = tables[n]
      /\ \A i \in 1..n : labeledQueue'[i] = labeledQueue[i]
  <2>1. Len(labeledQueue) \in Nat /\ DOMAIN labeledQueue = 1..Len(labeledQueue)
    BY DEF FeedTypes
  <2>2. /\ Len(labeledQueue') \in 1..(Len(labeledQueue) + 1) /\ DOMAIN labeledQueue' = 1..Len(labeledQueue')
        /\ labeledQueue'[Len(labeledQueue')] = m
    BY QueuedFits
  <2>3. CASE Full
    <3>1. Len(labeledQueue') = 1
      BY <2>3, QueuedFits
    <3> QED BY <2>1, <2>2, <2>3, <3>1
  <2>4. CASE ~ Full
    <3>1. /\ Len(labeledQueue') = Len(labeledQueue) + 1
          /\ \A i \in DOMAIN labeledQueue : labeledQueue'[i] = labeledQueue[i]
      BY <2>4, QueuedFits
    <3> QED BY <2>1, <2>2, <2>4, <3>1
  <2> QED BY <2>3, <2>4
<1> HIDE DEF n
<1>2. base = [p \in Peer |-> base[p]]
  BY <1>1 DEF Told
<1>3. last = [p \in Peer |-> last[p]]
  BY <1>2 DEF Reads
<1> HIDE DEF last
<1>4. PICK more : more[n + 1] = last /\ \A i \in 0..n : more[i] = tables[i]
  <2> DEFINE longer == [i \in 0..(n + 1) |-> IF i = n + 1 THEN last ELSE tables[i]]
  <2>1. longer[n + 1] = last /\ \A i \in 0..n : longer[i] = tables[i]
    BY <1>1
  <2> QED BY <2>1
<1>5. \A i \in 0..(n + 1) : more[i] = [p \in Peer |-> more[i][p]]
  <2>1. ASSUME NEW i \in 0..(n + 1) PROVE more[i] = [p \in Peer |-> more[i][p]]
    <3>1. CASE i = n + 1
      BY <3>1, <1>3, <1>4
    <3>2. CASE i \in 0..n
      <4>1. more[i] = tables[i] /\ i \in 0..Len(labeledQueue)
        BY <3>2, <1>1, <1>4
      <4>2. tables[i] = [p \in Peer |-> tables[i][p]]
        BY <4>1 DEF Told
      <4> QED BY <4>1, <4>2
    <3> QED BY <3>1, <3>2, <1>1
  <2> QED BY <2>1
<1>6. ASSUME NEW i \in 1..n
      PROVE  more[i] = Reads(more[i - 1], labeledQueue'[i]) /\ LabeledFrom(more[i - 1], labeledQueue'[i])
  <2>1. /\ labeledQueue'[i] = labeledQueue[i] /\ more[i] = tables[i] /\ more[i - 1] = tables[i - 1]
        /\ i \in 1..Len(labeledQueue)
    BY <1>1, <1>4
  <2>2. tables[i] = Reads(tables[i - 1], labeledQueue[i]) /\ LabeledFrom(tables[i - 1], labeledQueue[i])
    BY <2>1 DEF Told
  <2> QED BY <2>1, <2>2
<1>7. more[n + 1] = Reads(more[(n + 1) - 1], labeledQueue'[n + 1]) /\ LabeledFrom(more[(n + 1) - 1], labeledQueue'[n + 1])
  <2>1. (n + 1) - 1 = n /\ more[n] = base /\ labeledQueue'[n + 1] = m
    BY <1>1, <1>4
  <2> QED BY <2>1, <1>4 DEF last
<1>8. ASSUME NEW p \in Peer, ~ lost'[p] PROVE Sees(p, more[Len(labeledQueue)][p])'
  <2>1. PICK t : t = last[p]
    OBVIOUS
  <2>2. Sees(p, t)'
    BY <1>8, <2>1 DEF last
  <2>3. more[Len(labeledQueue')][p] = t
    BY <1>1, <1>4, <2>1
  <2> QED BY <2>2, <2>3 DEF Sees
<1>9. more[0] = tables[0]
  BY <1>1, <1>4
<1>10. \A i \in 1..(n + 1) : /\ more[i] = Reads(more[i - 1], labeledQueue'[i])
                             /\ LabeledFrom(more[i - 1], labeledQueue'[i])
  <2>1. \A i \in 1..(n + 1) : i \in 1..n \/ i = n + 1
    BY <1>1
  <2> QED BY <2>1, <1>6, <1>7
<1>11. Told(more)'
  <2>1. Len(labeledQueue)' = n + 1
    BY <1>1
  <2>2. \A p \in Peer : ~ lost'[p] => Sees(p, more[Len(labeledQueue)][p])'
    BY <1>8
  <2>3. \A i \in 0..Len(labeledQueue') : more[i] = [p \in Peer |-> more[i][p]]
    BY <1>5, <2>1
  <2>4. \A i \in 1..Len(labeledQueue') : /\ more[i] = Reads(more[i - 1], labeledQueue'[i])
                                         /\ LabeledFrom(more[i - 1], labeledQueue'[i])
    BY <1>10, <2>1
  <2> QED BY <2>2, <2>3, <2>4 DEF Told
<1> QED BY <1>9, <1>11

\* What has to be seen of a step that puts a message on the labeled queue.
LEMMA ForwardInv ==
  ASSUME FeedIInv, NEW m \in Bmfs, Forward(m), InForm(m),
         Own(m) => Open(m.sessionID) /\ sessions[m.sessionID].peer = m.sender,
         SessionsSound',
         transfer' = NoTransfer \/ transfer' \in [at : {"found", "started"}, sessionID : SessionIDs],
         \A i \in SessionIDs :
           /\ sessions'[i].peer = sessions[i].peer /\ sessions'[i].labelAction = sessions[i].labelAction
           /\ sessions'[i].state = IF m.closes /\ i = m.sessionID THEN "closing" ELSE sessions[i].state,
         lost' \in [Peer -> BOOLEAN],
         \A p \in Peer : ~ lost'[p] => (p = m.sender /\ m.closes) \/ (~ lost[p] /\ p \notin Skipped),
         \A i \in SessionIDs :
           /\ Open(i) /\ sessions[i].labelAction # "NoAction" /\ ~ lost'[sessions[i].peer]
           /\ ~ (m.closes /\ i = m.sessionID)
           => sessions'[i].table = IF sessions[i].peer = m.sender
                                   THEN Changing(sessions[i].table, GenAsciiMsg(m)) ELSE sessions[i].table,
         m.type = "LABELED" /\ m.sure =>
           /\ ~ lost[m.sender] /\ m.sender \notin Skipped /\ sessions[m.sessionID].labelAction # "NoAction"
           /\ m.labels = Labels(sessions[m.sessionID].table, GenAsciiMsg(m))
  PROVE  FeedIInv'
<1> USE DEF FeedIInv
<1>1. FeedTypes'
  BY QueuedFits DEF FeedTypes, Forward
<1>2. QueuedFor'
  BY QueuedForStays
<1>3. Messages' = Messages /\ ClientFollows'
  BY DEF ClientFollows, Messages, Forward
<1> PICK c \in Nat : \E tables : Numbered(c) /\ tables[0] = Followed(Messages)[c] /\ Told(tables)
  BY DEF WillFollow
<1> PICK tables : Numbered(c) /\ tables[0] = Followed(Messages)[c] /\ Told(tables)
  OBVIOUS
<1> PICK base : base = IF Full THEN tables[0] ELSE tables[Len(labeledQueue)]
  OBVIOUS
<1>4. Len(labeledQueue) \in Nat /\ base = [p \in Peer |-> base[p]]
  <2>1. Len(labeledQueue) \in Nat /\ Len(labeledQueue) \in 0..Len(labeledQueue) /\ 0 \in 0..Len(labeledQueue)
    BY DEF FeedTypes
  <2>2. \A i \in 0..Len(labeledQueue) : tables[i] = [p \in Peer |-> tables[i][p]]
    BY DEF Told
  <2> QED BY <2>1, <2>2
<1>5. ASSUME NEW p \in Peer, ~ lost[p], p \notin Skipped PROVE Sees(p, base[p])
  <2>1. base[p] = tables[Len(labeledQueue)][p]
    BY <1>5, NothingIsSkipped
  <2> QED BY <1>5, <2>1 DEF Told
<1>a. /\ Own(m) <=> m.sender # "none"
      /\ Own(m) => m.sessionID \in SessionIDs /\ m.sender \in Peer
      /\ m.closes => Own(m)
      /\ m.type = "LABELED" => Own(m)
  BY FeedAssumption DEF InForm, Own, Status, TableTypes
<1>6. LabeledFrom(base, m)
  <2> SUFFICES ASSUME m.type = "LABELED", m.sure PROVE m.labels = Labels(base[m.sender], GenAsciiMsg(m))
    BY DEF LabeledFrom
  <2>1. Sees(m.sender, base[m.sender])
    BY <1>5, <1>a
  <2>2. sessions[m.sessionID].table = base[m.sender]
    BY <1>a, <2>1 DEF Sees
  <2> QED BY <2>2
<1>7. ASSUME NEW p \in Peer, ~ lost'[p], NEW t, t = Reads(base, m)[p] PROVE Sees(p, t)'
  <2>1. CASE m.closes /\ p = m.sender
    <3>1. t = {}
      BY <1>4, <1>7, <1>a, <2>1 DEF Reads
    <3>2. ASSUME NEW i \in SessionIDs, sessions'[i].state = "open" PROVE sessions'[i].peer # p
      <4>1. i # m.sessionID /\ Open(i)
        BY <2>1, <3>2 DEF Open
      <4>2. Open(m.sessionID) /\ sessions[m.sessionID].peer = p /\ m.sessionID \in SessionIDs
        BY <1>a, <2>1
      <4> QED BY <4>1, <4>2 DEF SessionsSound
    <3> QED BY <3>1, <3>2 DEF Sees, Open
  <2>2. CASE ~ (m.closes /\ p = m.sender)
    <3>1. Sees(p, base[p])
      BY <1>5, <1>7, <2>2
    <3>2. t = IF p = m.sender THEN Changing(base[p], GenAsciiMsg(m)) ELSE base[p]
      BY <1>4, <1>7, <1>a, <2>2, FeedAssumption DEF Reads
    <3>3. ASSUME NEW i \in SessionIDs, sessions'[i].state = "open", sessions'[i].peer = p,
                 sessions'[i].labelAction # "NoAction"
          PROVE  sessions'[i].table = t
      <4>1. ~ (m.closes /\ i = m.sessionID) /\ Open(i) /\ sessions[i].peer = p
        BY <3>3 DEF Open
      <4>2. sessions[i].table = base[p]
        BY <3>1, <3>3, <4>1 DEF Sees
      <4> QED BY <1>7, <3>2, <3>3, <4>1, <4>2
    <3>4. ASSUME \A i \in SessionIDs : sessions'[i].state = "open" => sessions'[i].peer # p PROVE t = {}
      <4>1. ASSUME NEW i \in SessionIDs, Open(i) PROVE sessions[i].peer # p
        BY <1>a, <2>2, <3>4, <4>1 DEF Open
      <4>2. base[p] = {}
        BY <3>1, <4>1 DEF Sees
      <4>3. p # m.sender
        BY <1>a, <4>1, FeedAssumption
      <4> QED BY <3>2, <4>2, <4>3
    <3> QED BY <3>3, <3>4 DEF Sees, Open
  <2> QED BY <2>1, <2>2
<1>8. PICK more : more[0] = tables[0] /\ Told(more)'
  BY <1>6, <1>7, ToldOfOneMore
<1>9. Numbered(c)'
  <2>1. c + Len(labeledQueue) <= written /\ Len(labeledQueue') \in 1..(Len(labeledQueue) + 1) /\ written' = written + 1
    BY QueuedFits DEF Numbered
  <2>2. c + Len(labeledQueue') <= written'
    BY <2>1, <1>4, QueuedFits DEF FeedTypes
  <2>3. \A x \in Messages' : Position(x) \in Nat /\ Position(x) < c
    BY <1>3 DEF Numbered
  <2>4. seq_num' = NumberAt(c)
    BY DEF Forward, Numbered
  <2> QED BY <2>2, <2>3, <2>4 DEF Numbered
<1>10. WillFollow'
  <2>1. more[0] = Followed(Messages')[c]
    BY <1>3, <1>8
  <2> QED BY <2>1, <1>8, <1>9 DEF WillFollow
<1> QED BY <1>1, <1>2, <1>3, <1>10

\* What has to be seen of a step that leaves the queues alone.
LEMMA QuietInv ==
  ASSUME FeedIInv, UNCHANGED <<labeledQueue, seq_num, xmlUQueue, xmlRQueue>>,
         SessionsSound',
         transfer' = NoTransfer \/ transfer' \in [at : {"found", "started"}, sessionID : SessionIDs],
         written' \in 0..MaxMessages, written <= written', lost' \in [Peer -> BOOLEAN],
         \A i \in SessionIDs : sessions[i].peer \in Peer =>
           sessions'[i].peer = sessions[i].peer /\ sessions'[i].state = sessions[i].state,
         \A p \in Peer : ~ lost'[p] => ~ lost[p] /\ \A t : Sees(p, t) => Sees(p, t)'
  PROVE  FeedIInv'
<1> USE DEF FeedIInv
<1>1. FeedTypes'
  BY DEF FeedTypes
<1>2. QueuedFor'
  <2>1. ASSUME NEW i \in DOMAIN labeledQueue
        PROVE  /\ Own(labeledQueue[i]) =>
                    sessions'[labeledQueue[i].sessionID].peer = labeledQueue[i].sender
               /\ labeledQueue[i].closes => sessions'[labeledQueue[i].sessionID].state = "closing"
    <3>1. /\ InForm(labeledQueue[i])
          /\ Own(labeledQueue[i]) => sessions[labeledQueue[i].sessionID].peer = labeledQueue[i].sender
          /\ labeledQueue[i].closes => sessions[labeledQueue[i].sessionID].state = "closing"
      BY DEF QueuedFor
    <3>2. /\ Own(labeledQueue[i]) => labeledQueue[i].sessionID \in SessionIDs /\ labeledQueue[i].sender \in Peer
          /\ labeledQueue[i].closes => Own(labeledQueue[i])
      BY <3>1 DEF InForm, Own, Status, TableTypes
    <3> QED BY <3>1, <3>2
  <2> QED BY <2>1 DEF QueuedFor
<1>3. Messages' = Messages /\ ClientFollows'
  BY DEF ClientFollows, Messages
<1> PICK c \in Nat : \E tables : Numbered(c) /\ tables[0] = Followed(Messages)[c] /\ Told(tables)
  BY DEF WillFollow
<1> PICK tables : Numbered(c) /\ tables[0] = Followed(Messages)[c] /\ Told(tables)
  OBVIOUS
<1>4. Numbered(c)'
  <2>1. Len(labeledQueue) \in Nat /\ written \in Nat /\ written' \in Nat
    BY FeedAssumption DEF FeedTypes
  <2>2. c + Len(labeledQueue') <= written'
    BY <2>1 DEF Numbered
  <2> QED BY <1>3, <2>2 DEF Numbered
<1>5. Told(tables)'
  <2>1. ASSUME NEW p \in Peer, ~ lost'[p] PROVE Sees(p, tables[Len(labeledQueue)][p])'
    <3>1. PICK t : t = tables[Len(labeledQueue)][p]
      OBVIOUS
    <3>2. Sees(p, t)
      BY <2>1, <3>1 DEF Told
    <3>3. Sees(p, t)'
      BY <2>1, <3>2
    <3>4. tables[Len(labeledQueue')][p] = t
      BY <3>1
    <3> QED BY <3>3, <3>4 DEF Sees
  <2>2. /\ \A i \in 0..Len(labeledQueue') : tables[i] = [p \in Peer |-> tables[i][p]]
        /\ \A i \in 1..Len(labeledQueue') : /\ tables[i] = Reads(tables[i - 1], labeledQueue'[i])
                                            /\ LabeledFrom(tables[i - 1], labeledQueue'[i])
    BY DEF Told
  <2> QED BY <2>1, <2>2 DEF Told
<1>6. WillFollow'
  BY <1>3, <1>4, <1>5 DEF WillFollow
<1> QED BY <1>1, <1>2, <1>3, <1>6

LEMMA LoseIs ==
  ASSUME FeedTypes, NEW ps
  PROVE  /\ Lose(ps) \in [Peer -> BOOLEAN]
         /\ \A p \in Peer : ~ Lose(ps)[p] => ~ lost[p] /\ p \notin Skipped /\ p \notin ps
BY DEF Lose, FeedTypes

\* The messages that carry no update leave the tables alone.
LEMMA PlainInv ==
  ASSUME FeedIInv, NEW m \in Bmfs, Forward(m), InForm(m), m.update = <<>>, ~ m.closes, m.type # "LABELED",
         Own(m) => Open(m.sessionID) /\ sessions[m.sessionID].peer = m.sender,
         sessions' = sessions, lost' = Lose({}),
         transfer' = NoTransfer \/ transfer' \in [at : {"found", "started"}, sessionID : SessionIDs]
  PROVE  FeedIInv'
<1>1. \A i \in SessionIDs : Changing(sessions[i].table, GenAsciiMsg(m)) = sessions[i].table
  BY NothingChanges DEF GenAsciiMsg
<1>2. SessionsSound'
  BY DEF FeedIInv, SessionsSound, Open
<1>3. lost' \in [Peer -> BOOLEAN] /\ \A p \in Peer : ~ lost'[p] => ~ lost[p] /\ p \notin Skipped
  BY LoseIs DEF FeedIInv
<1> QED BY <1>1, <1>2, <1>3, ForwardInv

\* The two readings of an update take its sections in the same order, and but
\* for the SNPAs read the same prefixes.
LEMMA SectionsAgree ==
  ASSUME NEW u, ~ HasSnpas(u)
  PROVE  GenBgpUpdate(u) = Sections(u)
<1>1. ASSUME NEW i \in DOMAIN u.attributes
      PROVE  AttributeSections(u.attributes[i])
               = IF IsMp(u.attributes[i]) THEN <<MpSection(u.attributes[i])>> ELSE <<>>
  <2>1. u.attributes[i].type = "MP_REACH" => u.attributes[i].misread = <<>>
    BY DEF HasSnpas
  <2> QED BY <2>1 DEF AttributeSections, GenBgpMPReach, GenBgpMPUnreach, GenUpdateNlri, GenUpdateWithdrawn,
                      IsMp, MpSection
<1>2. GenUpdateAttributes(u) = MpNlri(u.attributes)
  BY <1>1 DEF GenUpdateAttributes, MpNlri
<1> QED BY <1>2 DEF GenBgpUpdate, Sections, GenUpdateWithdrawn, GenUpdateNlri

\* The messages of an open session.
LEMMA BmfIs ==
  ASSUME FeedIInv, NEW type \in MessageTypes, type \notin Status \cup TableTypes, NEW i \in SessionIDs, Open(i)
  PROVE  /\ BMF(type, i) \in Bmfs /\ Own(BMF(type, i)) /\ InForm(BMF(type, i))
         /\ BMF(type, i).type = type /\ BMF(type, i).sessionID = i /\ BMF(type, i).sender = sessions[i].peer
         /\ BMF(type, i).update = <<>> /\ BMF(type, i).closes = FALSE
         /\ sessions[i].peer \in Peer
<1>1. createBMF(i, type) \in Bmfs
  BY DEF createBMF, Bmfs, LabelLists
<1>2. sessions[i].peer \in Peer
  BY DEF FeedIInv, SessionsSound
<1>3. /\ BMF(type, i) \in Bmfs
      /\ BMF(type, i).type = type /\ BMF(type, i).sessionID = i /\ BMF(type, i).sender = sessions[i].peer
      /\ BMF(type, i).update = <<>> /\ BMF(type, i).closes = FALSE
  BY <1>1, <1>2 DEF BMF, createBMF, Bmfs
<1> QED BY <1>2, <1>3 DEF Own, InForm

\* With an update in it, and how it was labeled.
BmfWith(type, i, u, ls, sure) == [BMF(type, i) EXCEPT !.update = <<u>>, !.sure = sure, !.labels = ls]

BmfHas(m, type, i, p, u, ls, sure) ==
  /\ m \in Bmfs /\ m.type = type /\ m.sessionID = i /\ m.sender = p
  /\ m.update = <<u>> /\ m.closes = FALSE /\ m.sure = sure /\ m.labels = ls

LEMMA BmfFilled ==
  ASSUME NEW b \in Bmfs, b.closes = FALSE, NEW u \in Update, NEW ls \in LabelLists, NEW sure \in BOOLEAN,
         NEW m, m = [b EXCEPT !.update = <<u>>, !.sure = sure, !.labels = ls]
  PROVE  BmfHas(m, b.type, b.sessionID, b.sender, u, ls, sure)
BY DEF Bmfs, BmfHas

LEMMA BmfWithIs ==
  ASSUME FeedIInv, NEW type \in {"LABELED", "FROM_PEER"}, NEW i \in SessionIDs, Open(i), NEW u \in Update,
         NEW ls \in LabelLists, NEW sure \in BOOLEAN
  PROVE  BmfHas(BmfWith(type, i, u, ls, sure), type, i, sessions[i].peer, u, ls, sure)
<1>0. type \in MessageTypes /\ type \notin Status \cup TableTypes
  BY DEF MessageTypes, Status, TableTypes
<1> PICK b : b = BMF(type, i)
  OBVIOUS
<1>1. /\ b \in Bmfs /\ b.closes = FALSE
      /\ b.type = type /\ b.sessionID = i /\ b.sender = sessions[i].peer
  BY <1>0, BmfIs
<1>2. PICK m : m = [b EXCEPT !.update = <<u>>, !.sure = sure, !.labels = ls]
  OBVIOUS
<1>3. BmfHas(m, b.type, b.sessionID, b.sender, u, ls, sure)
  <2>1. b \in Bmfs /\ b.closes = FALSE
    BY <1>1
  <2> QED BY <2>1, <1>2, BmfFilled
<1>4. m = BmfWith(type, i, u, ls, sure)
  BY <1>2 DEF BmfWith
<1> QED BY <1>1, <1>3, <1>4

\* Those that are passed on without a change of state.
LEMMA PassPlain ==
  ASSUME FeedIInv, NEW type \in MessageTypes \ {"LABELED"}, type \notin Status \cup TableTypes,
         NEW i \in SessionIDs, Open(i), Pass(BMF(type, i))
  PROVE  FeedIInv'
<1> PICK m : m = BMF(type, i)
  OBVIOUS
<1>1. /\ m \in Bmfs /\ InForm(m) /\ m.update = <<>> /\ ~ m.closes /\ m.type = type
      /\ m.sessionID = i /\ m.sender = sessions[i].peer
  BY BmfIs
<1>2. Forward(m) /\ sessions' = sessions /\ transfer' = transfer /\ lost' = Lose({})
  BY DEF Pass
<1>3. transfer' = NoTransfer \/ transfer' \in [at : {"found", "started"}, sessionID : SessionIDs]
  BY <1>2 DEF FeedIInv, FeedTypes
<1> QED BY <1>1, <1>2, <1>3, PlainInv

\* The messages that are of no session, and those of a table transfer.
LEMMA UnownedInv ==
  ASSUME FeedIInv, NEW i \in SessionIDs \cup {0}, NEW type \in Status \cup TableTypes,
         type \in TableTypes => i \in SessionIDs,
         Forward(createBMF(i, type)), sessions' = sessions, lost' = Lose({}),
         transfer' = NoTransfer \/ transfer' \in [at : {"found", "started"}, sessionID : SessionIDs]
  PROVE  FeedIInv'
<1> PICK m : m = createBMF(i, type)
  OBVIOUS
<1>1. m = [type |-> type, sessionID |-> i, sender |-> "none", update |-> <<>>, labels |-> <<>>,
           closes |-> FALSE, sure |-> TRUE]
  BY DEF createBMF
<1>2. m \in Bmfs
  BY <1>1 DEF Bmfs, LabelLists, MessageTypes
<1>3. ~ Own(m) /\ InForm(m)
  BY <1>1 DEF Own, InForm
<1>4. m.type # "LABELED"
  BY <1>1 DEF Status, TableTypes
<1> QED BY <1>1, <1>2, <1>3, <1>4, PlainInv

LEMMA SendRibTableInv ==
  ASSUME FeedIInv, SendRibTable
  PROVE  FeedIInv'
<1>1. transfer.sessionID \in SessionIDs
  BY DEF SendRibTable, FeedIInv, FeedTypes, NoTransfer
<1>2. \E type \in TableTypes : Forward(createBMF(transfer.sessionID, type))
  BY DEF SendRibTable, TableTypes
<1>3. transfer' = NoTransfer \/ transfer' \in [at : {"found", "started"}, sessionID : SessionIDs]
  BY DEF SendRibTable, FeedIInv, FeedTypes, NoTransfer
<1>4. sessions' = sessions /\ lost' = Lose({})
  BY DEF SendRibTable
<1> QED BY <1>1, <1>2, <1>3, <1>4, UnownedInv

LEMMA SessionClosesInv ==
  ASSUME FeedIInv, NEW i \in SessionIDs, SessionCloses(i)
  PROVE  FeedIInv'
<1> PICK m : m = [BMF("FSM_STATE_CHANGE", i) EXCEPT !.closes = TRUE]
  OBVIOUS
<1>0. "FSM_STATE_CHANGE" \in MessageTypes /\ "FSM_STATE_CHANGE" \notin Status \cup TableTypes /\ Open(i)
  BY DEF MessageTypes, Status, TableTypes, SessionCloses
<1> PICK b : b = BMF("FSM_STATE_CHANGE", i)
  OBVIOUS
<1>1. /\ b \in Bmfs /\ Own(b) /\ InForm(b) /\ b.type = "FSM_STATE_CHANGE" /\ b.sessionID = i
      /\ b.sender = sessions[i].peer /\ sessions[i].peer \in Peer
  BY <1>0, BmfIs
<1>a. m = [b EXCEPT !.closes = TRUE]
  OBVIOUS
<1>b. /\ m \in Bmfs /\ m.type = "FSM_STATE_CHANGE" /\ m.sessionID = i /\ m.sender = sessions[i].peer
      /\ m.closes = TRUE
  BY <1>1, <1>a DEF Bmfs
<1>2. m \in Bmfs /\ InForm(m) /\ Own(m)
  BY <1>1, <1>b DEF InForm, Own
<1>3. Forward(m) /\ sessions' = [sessions EXCEPT ![i] = Emptied(@)] /\ transfer' = transfer
  BY DEF SessionCloses
<1>4. \A k \in SessionIDs : sessions'[k] = IF k = i THEN Emptied(sessions[i]) ELSE sessions[k]
  BY <1>3 DEF FeedIInv, SessionsSound
<1>5. /\ DOMAIN Emptied(sessions[i]) = {"peer", "state", "labelAction", "table"}
      /\ Emptied(sessions[i]).peer = sessions[i].peer /\ Emptied(sessions[i]).state = "closing"
      /\ Emptied(sessions[i]).labelAction = sessions[i].labelAction /\ Emptied(sessions[i]).table = {}
  BY DEF FeedIInv, SessionsSound, Emptied
<1>6. SessionsSound'
  BY <1>3, <1>4, <1>5 DEF FeedIInv, SessionsSound, Open
<1>7. /\ lost' \in [Peer -> BOOLEAN]
      /\ \A p \in Peer : ~ lost'[p] => p = sessions[i].peer \/ (~ lost[p] /\ p \notin Skipped)
  <2>1. lost' = [Lose({}) EXCEPT ![sessions[i].peer] = FALSE]
    BY DEF SessionCloses
  <2> QED BY <2>1, LoseIs DEF FeedIInv
<1>8. /\ m.closes /\ m.sessionID = i /\ m.sender = sessions[i].peer /\ m.type # "LABELED"
      /\ transfer' = NoTransfer \/ transfer' \in [at : {"found", "started"}, sessionID : SessionIDs]
  BY <1>b, <1>3 DEF FeedIInv, FeedTypes
<1>9. ASSUME NEW k \in SessionIDs, Open(k), k # i
      PROVE  sessions'[k].table = sessions[k].table /\ sessions[k].peer # m.sender
  BY <1>0, <1>4, <1>8, <1>9 DEF FeedIInv, SessionsSound
<1>10. \A k \in SessionIDs :
         /\ sessions'[k].peer = sessions[k].peer /\ sessions'[k].labelAction = sessions[k].labelAction
         /\ sessions'[k].state = IF m.closes /\ k = m.sessionID THEN "closing" ELSE sessions[k].state
  BY <1>4, <1>5, <1>8
<1>11. \A p \in Peer : ~ lost'[p] => (p = m.sender /\ m.closes) \/ (~ lost[p] /\ p \notin Skipped)
  BY <1>7, <1>8
<1>12. \A k \in SessionIDs :
         /\ Open(k) /\ sessions[k].labelAction # "NoAction" /\ ~ lost'[sessions[k].peer]
         /\ ~ (m.closes /\ k = m.sessionID)
         => sessions'[k].table = IF sessions[k].peer = m.sender
                                 THEN Changing(sessions[k].table, GenAsciiMsg(m)) ELSE sessions[k].table
  BY <1>8, <1>9
<1>13. Own(m) => Open(m.sessionID) /\ sessions[m.sessionID].peer = m.sender
  BY <1>0, <1>8
<1>14. m.type # "LABELED"
  BY <1>8
<1> QED BY <1>2, <1>3, <1>6, <1>7, <1>8, <1>10, <1>11, <1>12, <1>13, <1>14, ForwardInv

LEMMA PassUpdateInv ==
  ASSUME FeedIInv, NEW i \in SessionIDs, NEW u \in Update, PassUpdate(i, u)
  PROVE  FeedIInv'
<1> PICK m : m = [BMF("FROM_PEER", i) EXCEPT !.update = <<u>>]
  OBVIOUS
<1>0. "FROM_PEER" \in MessageTypes /\ "FROM_PEER" \notin Status \cup TableTypes /\ Open(i)
  BY DEF MessageTypes, Status, TableTypes, PassUpdate
<1> PICK b : b = BMF("FROM_PEER", i)
  OBVIOUS
<1>a. /\ b \in Bmfs /\ Own(b) /\ InForm(b) /\ b.type = "FROM_PEER" /\ b.sessionID = i /\ ~ b.closes
      /\ b.sender = sessions[i].peer /\ sessions[i].peer \in Peer
  BY <1>0, BmfIs
<1>b. m = [b EXCEPT !.update = <<u>>]
  OBVIOUS
<1>1. m \in Bmfs /\ m.type = "FROM_PEER" /\ m.sessionID = i /\ m.sender = sessions[i].peer /\ ~ m.closes
  BY <1>a, <1>b DEF Bmfs
<1>2. m \in Bmfs /\ InForm(m) /\ Own(m)
  BY <1>a, <1>1 DEF InForm, Own
<1>3. Forward(m) /\ sessions' = sessions /\ transfer' = transfer /\ lost' = Lose({})
  BY DEF PassUpdate, Pass
<1>4. SessionsSound'
  BY <1>3 DEF FeedIInv, SessionsSound, Open
<1>5. lost' \in [Peer -> BOOLEAN] /\ \A p \in Peer : ~ lost'[p] => ~ lost[p] /\ p \notin Skipped
  BY <1>3, LoseIs DEF FeedIInv
<1>6. ASSUME NEW k \in SessionIDs, Open(k), sessions[k].labelAction # "NoAction" PROVE sessions[k].peer # m.sender
  BY <1>0, <1>1, <1>6 DEF FeedIInv, SessionsSound, PassUpdate
<1>7. /\ ~ m.closes /\ m.sessionID = i /\ m.sender = sessions[i].peer /\ m.type # "LABELED"
      /\ transfer' = NoTransfer \/ transfer' \in [at : {"found", "started"}, sessionID : SessionIDs]
  BY <1>1, <1>3 DEF FeedIInv, FeedTypes
<1> QED BY <1>0, <1>2, <1>3, <1>4, <1>5, <1>6, <1>7, ForwardInv

\* An update that is labeled or stored: when all of it is applied and read
\* right, the labels are those of the changes that will be printed.
LEMMA ProcessBMFInv ==
  ASSUME FeedIInv, NEW i \in SessionIDs, NEW u \in Update, ProcessBMF(i, u)
  PROVE  FeedIInv'
<1> DEFINE cs == AllChanges(Applied(u))
           s  == sessions[i]
           l  == Lose(IF Processed(u) /\ ~HasSnpas(u) THEN {} ELSE {s.peer})
<1>0. /\ Open(i) /\ s.labelAction # "NoAction" /\ s.peer \in Peer
      /\ DOMAIN s = {"peer", "state", "labelAction", "table"}
  BY DEF ProcessBMF, FeedIInv, SessionsSound
<1>1. /\ sessions' = [sessions EXCEPT ![i].table = Changing(s.table, cs)]
      /\ transfer' = transfer
  BY DEF ProcessBMF, ApplyUpdate
<1>2. /\ \A k \in SessionIDs \ {i} : sessions'[k] = sessions[k]
      /\ DOMAIN sessions'[i] = {"peer", "state", "labelAction", "table"}
      /\ sessions'[i].peer = s.peer /\ sessions'[i].state = s.state
      /\ sessions'[i].labelAction = s.labelAction /\ sessions'[i].table = Changing(s.table, cs)
  <2> HIDE DEF cs
  <2> QED BY <1>0, <1>1 DEF FeedIInv, SessionsSound
<1>3. SessionsSound'
  <2> HIDE DEF cs
  <2>1. sessions' = [k \in SessionIDs |-> sessions'[k]]
    BY <1>1 DEF FeedIInv, SessionsSound
  <2> QED BY <1>2, <2>1 DEF FeedIInv, SessionsSound, Open
<1>4. transfer' = NoTransfer \/ transfer' \in [at : {"found", "started"}, sessionID : SessionIDs]
  BY <1>1 DEF FeedIInv, FeedTypes
<1>5. \A k \in SessionIDs : Open(k) /\ sessions[k].peer = s.peer => k = i
  BY <1>0 DEF FeedIInv, SessionsSound
<1>6. CASE Processed(u)
  <2>k. PICK kind : kind = IF s.labelAction = "Label" THEN "LABELED" ELSE "FROM_PEER"
    OBVIOUS
  <2>l. PICK ls : ls = IF s.labelAction = "Label" THEN Labels(s.table, cs) ELSE <<>>
    OBVIOUS
  <2>m. PICK m : m = BmfWith(kind, i, u, ls, ~l[s.peer])
    OBVIOUS
  <2>0. kind \in {"LABELED", "FROM_PEER"}
    BY <2>k
  <2>1. ls \in LabelLists
    <3>1. Labels(s.table, cs) \in [DOMAIN cs -> LabelNames]
      BY DEF Labels, LabelOf, LabelNames
    <3> QED BY <2>l, <3>1 DEF LabelLists
  <2>2. /\ l \in [Peer -> BOOLEAN]
        /\ \A p \in Peer : ~ l[p] => ~ lost[p] /\ p \notin Skipped
        /\ ~ l[s.peer] => ~ HasSnpas(u)
    <3> DEFINE ps == IF Processed(u) /\ ~HasSnpas(u) THEN {} ELSE {s.peer}
    <3>1. s.peer \notin ps => ~ HasSnpas(u)
      OBVIOUS
    <3> HIDE DEF ps
    <3> QED BY <1>0, <3>1, LoseIs DEF FeedIInv, ps
  <2>3. Forward(m) /\ lost' = l
    BY <1>6, <2>k, <2>l, <2>m DEF ProcessBMF, ApplyUpdate, BmfWith
  <2> HIDE DEF l
  <2>4. /\ m \in Bmfs /\ Own(m) /\ InForm(m)
        /\ m.type = kind /\ m.sessionID = i /\ m.sender = s.peer
        /\ m.update = <<u>> /\ m.closes = FALSE /\ m.sure = ~l[s.peer] /\ m.labels = ls
    <3>1. PICK sure \in BOOLEAN : sure = ~l[s.peer]
      OBVIOUS
    <3>2. m = BmfWith(kind, i, u, ls, sure)
      BY <2>m, <3>1
    <3>3. Open(i)
      BY <1>0
    <3>4. BmfHas(m, kind, i, s.peer, u, ls, sure)
      BY <2>0, <2>1, <3>2, <3>3, BmfWithIs
    <3>5. /\ m \in Bmfs /\ m.type = kind /\ m.sessionID = i /\ m.sender = s.peer
          /\ m.update = <<u>> /\ m.closes = FALSE /\ m.sure = sure /\ m.labels = ls
      BY <3>4 DEF BmfHas
    <3>6. Own(m) /\ InForm(m)
      BY <1>0, <2>0, <3>5 DEF Own, InForm, Status, TableTypes
    <3> QED BY <3>1, <3>5, <3>6
  <2>5. m \in Bmfs /\ Own(m) /\ InForm(m)
    BY <2>4
  <2>6. ~ l[s.peer] => GenAsciiMsg(m) = cs
    <3>1. Head(m.update) = u /\ m.update # <<>>
      BY <2>4
    <3> QED BY <3>1, <1>6, <2>2, SectionsAgree DEF GenAsciiMsg, Applied
  <2> HIDE DEF cs
  <2>7. m.type = "LABELED" /\ m.sure => ~ l[s.peer] /\ m.labels = Labels(s.table, GenAsciiMsg(m))
    <3> SUFFICES ASSUME m.type = "LABELED", m.sure
                 PROVE  ~ l[s.peer] /\ m.labels = Labels(s.table, GenAsciiMsg(m))
      OBVIOUS
    <3>1. ~ l[s.peer]
      BY <2>4
    <3>2. s.labelAction = "Label"
      BY <2>k, <2>4
    <3> QED BY <2>l, <2>4, <2>6, <3>1, <3>2
  <2>8. \A k \in SessionIDs :
          /\ Open(k) /\ ~ lost'[sessions[k].peer]
          => sessions'[k].table = IF sessions[k].peer = m.sender
                                  THEN Changing(sessions[k].table, GenAsciiMsg(m)) ELSE sessions[k].table
    BY <1>0, <1>2, <1>5, <2>3, <2>4, <2>6
  <2>9. \A k \in SessionIDs :
          /\ sessions'[k].peer = sessions[k].peer /\ sessions'[k].labelAction = sessions[k].labelAction
          /\ sessions'[k].state = sessions[k].state
    BY <1>2
  <2>10. /\ m.sessionID = i /\ m.sender = s.peer /\ ~ m.closes
         /\ m.type = "LABELED" /\ m.sure => ~ lost[m.sender] /\ m.sender \notin Skipped
    BY <1>0, <2>2, <2>4, <2>7
  <2>11. lost' \in [Peer -> BOOLEAN] /\ \A p \in Peer : ~ lost'[p] => ~ lost[p] /\ p \notin Skipped
    BY <2>2, <2>3
  <2>12. Own(m) => Open(m.sessionID) /\ sessions[m.sessionID].peer = m.sender
    BY <1>0, <2>10
  <2>13. m.type = "LABELED" /\ m.sure =>
           /\ ~ lost[m.sender] /\ m.sender \notin Skipped /\ sessions[m.sessionID].labelAction # "NoAction"
           /\ m.labels = Labels(sessions[m.sessionID].table, GenAsciiMsg(m))
    BY <1>0, <2>7, <2>10
  <2>14. \A k \in SessionIDs :
           /\ sessions'[k].peer = sessions[k].peer /\ sessions'[k].labelAction = sessions[k].labelAction
           /\ sessions'[k].state = IF m.closes /\ k = m.sessionID THEN "closing" ELSE sessions[k].state
    BY <2>9, <2>10
  <2> QED BY <1>3, <1>4, <2>3, <2>5, <2>8, <2>11, <2>12, <2>13, <2>14, ForwardInv
<1>7. CASE ~ Processed(u)
  <2> HIDE DEF cs, l
  <2>1. /\ lost' = [lost EXCEPT ![s.peer] = TRUE] /\ written < MaxMessages /\ written' = written + 1
        /\ UNCHANGED <<labeledQueue, seq_num, xmlUQueue, xmlRQueue>>
    BY <1>7 DEF ProcessBMF
  <2>2. written' \in 0..MaxMessages /\ written <= written' /\ lost' \in [Peer -> BOOLEAN]
    <3>1. written \in 0..MaxMessages /\ lost \in [Peer -> BOOLEAN]
      BY DEF FeedIInv, FeedTypes
    <3>2. written' \in 0..MaxMessages /\ written <= written'
      BY <2>1, <3>1, FeedAssumption
    <3> QED BY <2>1, <3>1, <3>2
  <2>3. ASSUME NEW p \in Peer, ~ lost'[p] PROVE ~ lost[p] /\ \A t : Sees(p, t) => Sees(p, t)'
    <3>1. p # s.peer /\ ~ lost[p]
      BY <2>1, <2>3, <1>0 DEF FeedIInv, FeedTypes
    <3>2. \A k \in SessionIDs : sessions'[k].peer = sessions[k].peer /\ sessions'[k].state = sessions[k].state
      BY <1>2
    <3>3. \A k \in SessionIDs : sessions[k].peer = p => sessions'[k] = sessions[k]
      BY <1>2, <3>1
    <3> QED BY <3>1, <3>2, <3>3 DEF Sees, Open
  <2>4. \A k \in SessionIDs : sessions'[k].peer = sessions[k].peer /\ sessions'[k].state = sessions[k].state
    BY <1>2
  <2> QED BY <1>3, <1>4, <2>1, <2>2, <2>3, <2>4, QuietInv
<1> QED BY <1>6, <1>7

LEMMA SessionOpensInv ==
  ASSUME FeedIInv, NEW p \in Peer, NEW i \in SessionIDs, SessionOpens(p, i)
  PROVE  FeedIInv'
<1> PICK action \in Actions : sessions' = [sessions EXCEPT ![i] = NewSession(p, action)]
  BY DEF SessionOpens
<1>1. /\ sessions[i] = NoSession /\ sessions[i].peer = "none" /\ ~ Open(i)
      /\ \A k \in SessionIDs : sessions[k].peer = p => ~ Open(k)
  BY DEF SessionOpens, NoSession, Open
<1>2. /\ \A k \in SessionIDs \ {i} : sessions'[k] = sessions[k]
      /\ sessions'[i] = [peer |-> p, state |-> "open", labelAction |-> action, table |-> {}]
  BY DEF FeedIInv, SessionsSound, NewSession
<1>3. SessionsSound'
  <2>1. sessions' = [k \in SessionIDs |-> sessions'[k]]
    BY DEF FeedIInv, SessionsSound
  <2>2. ASSUME NEW k \in SessionIDs
        PROVE  /\ DOMAIN sessions'[k] = {"peer", "state", "labelAction", "table"}
               /\ sessions'[k].peer \in Peer \cup {"none"} /\ sessions'[k].labelAction \in Actions
               /\ Open(k)' => sessions'[k].peer \in Peer
    BY <1>2 DEF FeedIInv, SessionsSound, Open
  <2>3. ASSUME NEW k \in SessionIDs, NEW j \in SessionIDs, Open(k)', Open(j)', sessions'[k].peer = sessions'[j].peer
        PROVE  k = j
    BY <1>1, <1>2, <2>3 DEF FeedIInv, SessionsSound, Open
  <2> QED BY <2>1, <2>2, <2>3 DEF SessionsSound
<1>4. UNCHANGED <<transfer, labeledQueue, seq_num, xmlUQueue, xmlRQueue, written, lost>>
  BY DEF SessionOpens
<1>5. /\ transfer' = NoTransfer \/ transfer' \in [at : {"found", "started"}, sessionID : SessionIDs]
      /\ written' \in 0..MaxMessages /\ written <= written' /\ lost' \in [Peer -> BOOLEAN]
  BY <1>4, FeedAssumption DEF FeedIInv, FeedTypes
<1>6. \A k \in SessionIDs : sessions[k].peer \in Peer => k # i /\ sessions'[k] = sessions[k]
  BY <1>1, <1>2, FeedAssumption
<1>7. ASSUME NEW q \in Peer, NEW t, Sees(q, t) PROVE Sees(q, t)'
  <2>1. CASE q = p
    <3>1. t = {}
      BY <1>1, <1>7, <2>1 DEF Sees
    <3>2. sessions'[i].peer = q /\ sessions'[i].state = "open" /\ sessions'[i].table = t
      BY <1>2, <2>1, <3>1
    <3>3. \A k \in SessionIDs \ {i} : sessions'[k].state = "open" => sessions'[k].peer # q
      BY <1>1, <1>2, <2>1 DEF Open
    <3> QED BY <3>1, <3>2, <3>3 DEF Sees, Open
  <2>2. CASE q # p
    <3>1. sessions'[i].peer # q
      BY <1>2, <2>2
    <3> QED BY <1>1, <1>2, <1>7, <3>1 DEF Sees, Open
  <2> QED BY <2>1, <2>2
<1> QED BY <1>3, <1>4, <1>5, <1>6, <1>7, QuietInv

LEMMA SetSessionLabelActionInv ==
  ASSUME FeedIInv, NEW i \in SessionIDs, SetSessionLabelAction(i)
  PROVE  FeedIInv'
<1> DEFINE s == sessions[i]
<1> PICK action \in Actions \ {s.labelAction} :
      /\ Open(i)
      /\ sessions' = [sessions EXCEPT ![i].labelAction = action,
                                      ![i].table = IF action = "NoAction" THEN {} ELSE @]
      /\ lost' = [lost EXCEPT ![s.peer] = @ \/ s.labelAction = "NoAction"]
      /\ written < MaxMessages /\ written' = written + 1
      /\ UNCHANGED <<transfer, labeledQueue, seq_num, xmlUQueue, xmlRQueue>>
  BY DEF SetSessionLabelAction
<1>1. /\ \A k \in SessionIDs \ {i} : sessions'[k] = sessions[k]
      /\ DOMAIN sessions'[i] = {"peer", "state", "labelAction", "table"}
      /\ sessions'[i].peer = s.peer /\ sessions'[i].state = s.state
      /\ sessions'[i].labelAction = action /\ sessions'[i].table = IF action = "NoAction" THEN {} ELSE s.table
      /\ sessions' = [k \in SessionIDs |-> sessions'[k]]
  BY DEF FeedIInv, SessionsSound
<1>2. SessionsSound'
  BY <1>1 DEF FeedIInv, SessionsSound, Open
<1>3. /\ transfer' = NoTransfer \/ transfer' \in [at : {"found", "started"}, sessionID : SessionIDs]
      /\ written' \in 0..MaxMessages /\ written <= written' /\ lost' \in [Peer -> BOOLEAN]
      /\ s.peer \in Peer
  BY FeedAssumption DEF FeedIInv, FeedTypes, SessionsSound
<1>4. ASSUME NEW p \in Peer, ~ lost'[p] PROVE ~ lost[p] /\ \A t : Sees(p, t) => Sees(p, t)'
  <2>1. ~ lost[p] /\ (p = s.peer => s.labelAction # "NoAction")
    BY <1>3, <1>4 DEF FeedIInv, FeedTypes
  <2>2. \A k \in SessionIDs : sessions'[k].peer = sessions[k].peer /\ sessions'[k].state = sessions[k].state
    BY <1>1
  <2>3. ASSUME NEW k \in SessionIDs, sessions[k].peer = p, sessions'[k].labelAction # "NoAction"
        PROVE  sessions[k].labelAction # "NoAction" /\ sessions'[k].table = sessions[k].table
    BY <1>1, <2>1, <2>3
  <2> QED BY <2>1, <2>2, <2>3 DEF Sees, Open
<1>5. \A k \in SessionIDs : sessions'[k].peer = sessions[k].peer /\ sessions'[k].state = sessions[k].state
  BY <1>1
<1> QED BY <1>2, <1>3, <1>4, <1>5, QuietInv

\* The route refresh thread's look-up.
LEMMA FindSessionInv ==
  ASSUME FeedIInv, NEW i \in SessionIDs, FindSession(i)
  PROVE  FeedIInv'
<1>1. /\ transfer' = [at |-> "found", sessionID |-> i]
      /\ UNCHANGED <<sessions, labeledQueue, seq_num, xmlUQueue, xmlRQueue, written, lost>>
  BY DEF FindSession
<1>2. SessionsSound' /\ \A p \in Peer : \A t : Sees(p, t) => Sees(p, t)'
  BY <1>1 DEF FeedIInv, SessionsSound, Open, Sees
<1>3. written' \in 0..MaxMessages /\ written <= written' /\ lost' \in [Peer -> BOOLEAN]
  BY <1>1, FeedAssumption DEF FeedIInv, FeedTypes
<1> QED BY <1>1, <1>2, <1>3, QuietInv

\* The number of a message gives its place back while none is used twice.
LEMMA PositionOf ==
  ASSUME NEW c \in Nat, c <= UINT_MAX, NEW x, x.number = NumberAt(c)
  PROVE  /\ Position(x) = c
         /\ NumberAt(c) \in 0..UINT_MAX
         /\ NumberAt(c + 1) = IF NumberAt(c) # UINT_MAX THEN NumberAt(c) + 1 ELSE 0
BY FeedAssumption DEF Position, GetMsgIdSeq, NumberAt

\* The document of the first message of the labeled queue.
LEMMA DocumentIs ==
  ASSUME FeedIInv, labeledQueue # <<>>, NEW m, m = Head(labeledQueue)
  PROVE  /\ m \in Bmfs /\ InForm(m) /\ m = labeledQueue[1] /\ BMF2XMLDATA(m) \in Documents
         /\ BMF2XMLDATA(m).type = m.type /\ BMF2XMLDATA(m).peer \in Peer \cup {"none"}
         /\ m.type \notin TableTypes => BMF2XMLDATA(m).peer = m.sender
         /\ BMF2XMLDATA(m).number = seq_num /\ BMF2XMLDATA(m).printed = GenAsciiMsg(m)
         /\ BMF2XMLDATA(m).labels = XmlNewChildPrefixes(m, GenAsciiMsg(m))
         /\ BMF2XMLDATA(m).closes = m.closes /\ BMF2XMLDATA(m).sure = m.sure /\ BMF2XMLDATA(m).sender = m.sender
<1>1. m \in Bmfs /\ m = labeledQueue[1] /\ 1 \in DOMAIN labeledQueue
  BY DEF FeedIInv, FeedTypes
<1>2. InForm(m) /\ (Own(m) => sessions[m.sessionID].peer = m.sender)
  BY <1>1 DEF FeedIInv, QueuedFor
<1>3. GenPeering(m) \in Peer \cup {"none"} /\ (m.type \notin TableTypes => GenPeering(m) = m.sender)
  <2>1. CASE m.type \in Status
    BY <1>2, <2>1 DEF GenPeering, InForm, Own
  <2>2. CASE m.type \notin Status
    BY <1>2, <2>2 DEF GenPeering, InForm, Own, FeedIInv, SessionsSound
  <2> QED BY <2>1, <2>2
<1>4. /\ m.type \in MessageTypes /\ m.sender \in Peer \cup {"none"} /\ m.closes \in BOOLEAN /\ m.sure \in BOOLEAN
  BY <1>1 DEF Bmfs
<1>5. seq_num \in 0..UINT_MAX
  BY DEF FeedIInv, FeedTypes
<1>6. /\ BMF2XMLDATA(m).type = m.type /\ BMF2XMLDATA(m).peer = GenPeering(m)
      /\ BMF2XMLDATA(m).number = seq_num /\ BMF2XMLDATA(m).printed = GenAsciiMsg(m)
      /\ BMF2XMLDATA(m).labels = XmlNewChildPrefixes(m, GenAsciiMsg(m))
      /\ BMF2XMLDATA(m).closes = m.closes /\ BMF2XMLDATA(m).sure = m.sure /\ BMF2XMLDATA(m).sender = m.sender
  BY DEF BMF2XMLDATA
<1>7. BMF2XMLDATA(m) \in Documents
  BY <1>1, <1>3, <1>4, <1>5 DEF BMF2XMLDATA, Documents
<1> QED BY <1>1, <1>2, <1>3, <1>6, <1>7

\* It goes to one of the queues, or to both.
LEMMA DocumentIsWritten ==
  ASSUME FeedIInv, XmlThread, NEW x, x = BMF2XMLDATA(Head(labeledQueue))
  PROVE  /\ xmlUQueue' \in Seq(Documents) /\ xmlRQueue' \in Seq(Documents)
         /\ Messages' = Messages \cup {x}
<1>1. x \in Documents /\ Head(labeledQueue).type \in MessageTypes
  BY DocumentIs DEF XmlThread, Bmfs
<1>2. ToUpdates(Head(labeledQueue)) \/ ToRib(Head(labeledQueue))
  BY <1>1 DEF ToUpdates, ToRib, MessageTypes
<1>3. /\ xmlUQueue' = IF ToUpdates(Head(labeledQueue)) THEN Append(xmlUQueue, x) ELSE xmlUQueue
      /\ xmlRQueue' = IF ToRib(Head(labeledQueue)) THEN Append(xmlRQueue, x) ELSE xmlRQueue
  BY DEF XmlThread
<1>4. xmlUQueue \in Seq(Documents) /\ xmlRQueue \in Seq(Documents)
  BY DEF FeedIInv, FeedTypes
<1>5. ASSUME NEW s \in Seq(Documents)
      PROVE  Append(s, x) \in Seq(Documents) /\ ToSet(Append(s, x)) = ToSet(s) \cup {x}
  <2>1. /\ Append(s, x) \in Seq(Documents) /\ DOMAIN Append(s, x) = DOMAIN s \cup {Len(s) + 1}
        /\ Append(s, x)[Len(s) + 1] = x /\ \A i \in DOMAIN s : Append(s, x)[i] = s[i]
    BY <1>1
  <2> QED BY <2>1 DEF ToSet
<1>6. \/ Messages' = ToSet(xmlUQueue) \cup {x} \cup ToSet(xmlRQueue)
      \/ Messages' = ToSet(xmlUQueue) \cup ToSet(xmlRQueue) \cup {x}
      \/ Messages' = ToSet(xmlUQueue) \cup {x} \cup ToSet(xmlRQueue) \cup {x}
  <2>1. ToSet(xmlUQueue') = IF ToUpdates(Head(labeledQueue)) THEN ToSet(xmlUQueue) \cup {x} ELSE ToSet(xmlUQueue)
    BY <1>3, <1>4, <1>5
  <2>2. ToSet(xmlRQueue') = IF ToRib(Head(labeledQueue)) THEN ToSet(xmlRQueue) \cup {x} ELSE ToSet(xmlRQueue)
    BY <1>3, <1>4, <1>5
  <2>3. Messages' = ToSet(xmlUQueue') \cup ToSet(xmlRQueue')
    BY DEF Messages
  <2> QED BY <1>2, <2>1, <2>2, <2>3
<1> QED BY <1>3, <1>4, <1>5, <1>6 DEF Messages

\* The thread's step: what it prints is what the client follows next.
LEMMA XmlThreadInv ==
  ASSUME FeedIInv, XmlThread
  PROVE  FeedIInv'
<1> PICK c \in Nat : \E tables : Numbered(c) /\ tables[0] = Followed(Messages)[c] /\ Told(tables)
  BY DEF FeedIInv, WillFollow
<1> PICK tables : Numbered(c) /\ tables[0] = Followed(Messages)[c] /\ Told(tables)
  OBVIOUS
<1> DEFINE m == Head(labeledQueue)
           x == BMF2XMLDATA(m)
           n == Len(labeledQueue)
<1>1. labeledQueue \in Seq(Bmfs) /\ labeledQueue # <<>> /\ n \in Nat \ {0} /\ labeledQueue' = Tail(labeledQueue)
  BY DEF FeedIInv, FeedTypes, XmlThread
<1>2. /\ labeledQueue' \in Seq(Bmfs) /\ Len(labeledQueue') = n - 1 /\ DOMAIN labeledQueue' = 1..(n - 1)
      /\ \A i \in 1..(n - 1) : labeledQueue'[i] = labeledQueue[i + 1]
  BY <1>1
<1>3. /\ m \in Bmfs /\ InForm(m) /\ m = labeledQueue[1] /\ x \in Documents
      /\ x.type = m.type /\ x.peer \in Peer \cup {"none"} /\ (m.type \notin TableTypes => x.peer = m.sender)
      /\ x.number = seq_num /\ x.printed = GenAsciiMsg(m)
      /\ x.labels = XmlNewChildPrefixes(m, GenAsciiMsg(m)) /\ x.closes = m.closes /\ x.sure = m.sure
      /\ x.sender = m.sender
  BY <1>1, DocumentIs
<1>4. UNCHANGED <<transfer, written, lost>> /\ sessions' = Freed(m) /\ seq_num' = NextNumber(seq_num, m)
  BY DEF XmlThread
<1>5. Messages' = Messages \cup {x} /\ xmlUQueue' \in Seq(Documents) /\ xmlRQueue' \in Seq(Documents)
  BY DocumentIsWritten
<1> HIDE DEF m, x
<1>6. c + n <= written /\ c <= UINT_MAX /\ seq_num = NumberAt(c)
  BY <1>1, FeedAssumption DEF Numbered, FeedIInv, FeedTypes
<1>7. Position(x) = c /\ seq_num' = NumberAt(c + 1) /\ seq_num' \in 0..UINT_MAX
  BY <1>3, <1>4, <1>6, PositionOf, FeedAssumption DEF NextNumber
<1>8. /\ \A y, z \in Messages : Position(y) = Position(z) => y = z
      /\ \A y \in Messages : Position(y) \in Nat /\ Position(y) < c
      /\ \A y \in Messages : Agrees(Followed(Messages)[Position(y)], y)
  BY DEF FeedIInv, ClientFollows, Numbered
<1>9. /\ \A k \in Nat : k <= c => Followed(Messages')[k] = Followed(Messages)[k]
      /\ Followed(Messages')[c + 1] = Follow(tables[0], x)
  <2>1. /\ \A y, z \in Messages : Position(y) = Position(z) => y = z
        /\ \A y \in Messages : Position(y) \in Nat /\ Position(y) < c
    BY <1>8
  <2>2. /\ \A k \in Nat : k <= c => Followed(Messages \cup {x})[k] = Followed(Messages)[k]
        /\ Followed(Messages \cup {x})[c + 1] = Follow(Followed(Messages)[c], x)
    BY <1>7, <2>1, FollowedOnlySees
  <2> QED BY <1>5, <2>2
<1>10. /\ tables[1] = Reads(tables[0], m) /\ LabeledFrom(tables[0], m)
       /\ tables[0] = [p \in Peer |-> tables[0][p]]
  <2>1. 1 \in 1..n /\ 1 - 1 = 0 /\ 0 \in 0..n
    BY <1>1
  <2> QED BY <1>3, <2>1 DEF Told
<1>11. Follow(tables[0], x) = tables[1]
  <2>1. CASE m.type \in TableTypes
    <3>1. m.sender = "none" /\ x.closes = FALSE /\ m.update = <<>>
      BY <1>3, <2>1 DEF InForm, Own, TableTypes, Bmfs
    <3>2. x.printed = <<>>
      BY <1>3, <3>1 DEF GenAsciiMsg
    <3>3. Follow(tables[0], x) = tables[0]
      <4>1. CASE x.peer = "none"
        BY <4>1 DEF Follow
      <4>2. CASE x.peer # "none"
        <5>1. x.peer \in Peer /\ Changing(tables[0][x.peer], x.printed) = tables[0][x.peer]
          BY <1>3, <4>2, <3>2, NothingChanges
        <5>2. Follow(tables[0], x) = [tables[0] EXCEPT ![x.peer] = tables[0][x.peer]]
          BY <3>1, <4>2, <5>1 DEF Follow
        <5> QED BY <1>10, <5>1, <5>2
      <4> QED BY <4>1, <4>2
    <3> QED BY <1>10, <3>1, <3>3 DEF Reads
  <2>2. CASE m.type \notin TableTypes
    BY <1>3, <1>10, <2>2 DEF Follow, Reads
  <2> QED BY <2>1, <2>2
<1>12. Agrees(tables[0], x)
  <2>1. x.type \notin TableTypes => x.peer = x.sender
    BY <1>3
  <2>2. ASSUME x.type = "LABELED", x.sure PROVE x.labels = Labels(tables[0][x.peer], x.printed)
    <3>1. m.labels = Labels(tables[0][m.sender], GenAsciiMsg(m)) /\ x.peer = m.sender
      BY <1>3, <1>10, <2>2 DEF LabeledFrom, TableTypes
    <3>2. DOMAIN m.labels = DOMAIN GenAsciiMsg(m)
      BY <3>1 DEF Labels
    <3>3. XmlNewChildPrefixes(m, GenAsciiMsg(m)) = [i \in DOMAIN GenAsciiMsg(m) |-> m.labels[i]]
      BY <1>3, <2>2, <3>2 DEF XmlNewChildPrefixes
    <3>4. XmlNewChildPrefixes(m, GenAsciiMsg(m)) = m.labels
      BY <3>1, <3>3 DEF Labels
    <3> QED BY <1>3, <3>1, <3>4
  <2> QED BY <2>1, <2>2 DEF Agrees
<1>13. ClientFollows'
  <2>1. \A y, z \in Messages' : Position(y) = Position(z) => y = z
    BY <1>5, <1>7, <1>8
  <2>2. ASSUME NEW y \in Messages' PROVE Agrees(Followed(Messages')[Position(y)], y)
    <3>1. CASE y \in Messages
      BY <1>8, <1>9, <3>1
    <3>2. CASE y = x
      BY <1>7, <1>9, <1>12, <3>2
    <3> QED BY <1>5, <3>1, <3>2
  <2> QED BY <2>1, <2>2 DEF ClientFollows
<1>14. Numbered(c + 1)'
  <2>1. (c + 1) + Len(labeledQueue') <= written'
    BY <1>1, <1>2, <1>4, <1>6 DEF FeedIInv, FeedTypes
  <2>2. \A y \in Messages' : Position(y) \in Nat /\ Position(y) < c + 1
    BY <1>5, <1>7, <1>8
  <2> QED BY <2>1, <2>2, <1>7 DEF Numbered
<1>15. PICK rest : \A i \in 0..(n - 1) : rest[i] = tables[i + 1]
  <2>1. \A i \in 0..(n - 1) : [j \in 0..(n - 1) |-> tables[j + 1]][i] = tables[i + 1]
    OBVIOUS
  <2> QED BY <2>1
<1>21. /\ \A i \in SessionIDs : Open(i)' <=> Open(i)
       /\ \A i \in SessionIDs : ~ (m.closes /\ i = m.sessionID) => sessions'[i] = sessions[i]
       /\ \A i \in SessionIDs : Open(i) => sessions'[i] = sessions[i]
       /\ \A i \in SessionIDs : sessions'[i] = sessions[i] \/ sessions'[i] = NoSession
       /\ sessions' = [i \in SessionIDs |-> sessions'[i]]
  <2>1. m.closes => m.sessionID \in SessionIDs /\ sessions[m.sessionID].state = "closing"
    <3>1. 1 \in DOMAIN labeledQueue
      BY <1>1
    <3> QED BY <1>3, <3>1 DEF FeedIInv, QueuedFor, InForm, Status
  <2>2. sessions = [i \in SessionIDs |-> sessions[i]]
    BY DEF FeedIInv, SessionsSound
  <2> QED BY <1>4, <2>1, <2>2 DEF Freed, NoSession, Open
<1>16. Told(rest)'
  <2>1. ASSUME NEW i \in 0..(n - 1) PROVE rest[i] = [p \in Peer |-> rest[i][p]]
    <3>1. i + 1 \in 0..n /\ rest[i] = tables[i + 1]
      BY <1>1, <1>15
    <3>2. tables[i + 1] = [p \in Peer |-> tables[i + 1][p]]
      BY <3>1 DEF Told
    <3> QED BY <3>1, <3>2
  <2>2. ASSUME NEW i \in 1..(n - 1)
        PROVE  rest[i] = Reads(rest[i - 1], labeledQueue'[i]) /\ LabeledFrom(rest[i - 1], labeledQueue'[i])
    <3>1. i \in 0..(n - 1) /\ i - 1 \in 0..(n - 1) /\ (i - 1) + 1 = i /\ (i + 1) - 1 = i /\ i + 1 \in 1..n
      BY <1>1
    <3>2. rest[i] = tables[i + 1] /\ rest[i - 1] = tables[i] /\ labeledQueue'[i] = labeledQueue[i + 1]
      BY <1>2, <1>15, <3>1
    <3>3. /\ tables[i + 1] = Reads(tables[(i + 1) - 1], labeledQueue[i + 1])
          /\ LabeledFrom(tables[(i + 1) - 1], labeledQueue[i + 1])
      BY <3>1 DEF Told
    <3> QED BY <3>1, <3>2, <3>3
  <2>3. ASSUME NEW p \in Peer, ~ lost'[p] PROVE Sees(p, rest[Len(labeledQueue)][p])'
    <3>1. PICK t : t = tables[n][p]
      OBVIOUS
    <3>2. Sees(p, t)
      BY <1>4, <2>3, <3>1 DEF Told
    <3>3. Sees(p, t)'
      BY <1>21, <3>2 DEF Sees, Open
    <3>4. rest[Len(labeledQueue')][p] = t
      BY <1>1, <1>2, <1>15, <3>1
    <3> QED BY <3>3, <3>4 DEF Sees
  <2> QED BY <1>2, <2>1, <2>2, <2>3 DEF Told
<1>17. WillFollow'
  <2>1. rest[0] = Followed(Messages')[c + 1]
    BY <1>1, <1>9, <1>11, <1>15
  <2>2. c + 1 \in Nat
    OBVIOUS
  <2> QED BY <1>14, <1>16, <2>1, <2>2 DEF WillFollow
<1>18. SessionsSound'
  <2>1. ASSUME NEW i \in SessionIDs
        PROVE  /\ DOMAIN sessions'[i] = {"peer", "state", "labelAction", "table"}
               /\ sessions'[i].peer \in Peer \cup {"none"} /\ sessions'[i].labelAction \in Actions
               /\ Open(i)' => sessions'[i].peer \in Peer
    BY <1>21 DEF FeedIInv, SessionsSound, NoSession, Actions
  <2>2. ASSUME NEW i \in SessionIDs, NEW k \in SessionIDs, Open(i)', Open(k)', sessions'[i].peer = sessions'[k].peer
        PROVE  i = k
    BY <1>21, <2>2 DEF FeedIInv, SessionsSound
  <2> QED BY <1>21, <2>1, <2>2 DEF SessionsSound
<1>19. FeedTypes'
  BY <1>2, <1>4, <1>5, <1>7 DEF FeedIInv, FeedTypes
<1>20. QueuedFor'
  <2>1. ASSUME NEW i \in 1..(n - 1)
        PROVE  /\ i + 1 \in DOMAIN labeledQueue /\ labeledQueue'[i] = labeledQueue[i + 1]
               /\ Own(labeledQueue[i + 1]) =>
                    /\ labeledQueue[i + 1].sessionID \in SessionIDs
                    /\ sessions'[labeledQueue[i + 1].sessionID] = sessions[labeledQueue[i + 1].sessionID]
               /\ labeledQueue[i + 1].closes => Own(labeledQueue[i + 1])
    <3>1. i + 1 \in DOMAIN labeledQueue /\ 1 \in DOMAIN labeledQueue /\ i + 1 > 1
      BY <1>1
    <3>2. /\ InForm(labeledQueue[i + 1])
          /\ m.closes /\ Own(labeledQueue[i + 1]) => labeledQueue[i + 1].sessionID # m.sessionID
      BY <1>3, <3>1 DEF FeedIInv, QueuedFor
    <3>3. /\ Own(labeledQueue[i + 1]) => labeledQueue[i + 1].sessionID \in SessionIDs
          /\ labeledQueue[i + 1].closes => Own(labeledQueue[i + 1])
      BY <3>2 DEF InForm, Own, Status, TableTypes
    <3> QED BY <1>2, <1>21, <3>1, <3>2, <3>3
  <2>2. ASSUME NEW i \in 1..(n - 1), NEW j \in 1..(n - 1), j > i, labeledQueue'[i].closes, Own(labeledQueue'[j])
        PROVE  labeledQueue'[j].sessionID # labeledQueue'[i].sessionID
    <3>1. j + 1 > i + 1
      BY <2>2
    <3> QED BY <2>1, <2>2, <3>1 DEF FeedIInv, QueuedFor
  <2>3. ASSUME NEW i \in 1..(n - 1)
        PROVE  /\ InForm(labeledQueue'[i])
               /\ Own(labeledQueue'[i]) => sessions'[labeledQueue'[i].sessionID].peer = labeledQueue'[i].sender
               /\ labeledQueue'[i].closes => sessions'[labeledQueue'[i].sessionID].state = "closing"
    BY <2>1 DEF FeedIInv, QueuedFor
  <2> QED BY <1>2, <2>2, <2>3 DEF QueuedFor
<1> QED BY <1>13, <1>17, <1>18, <1>19, <1>20 DEF FeedIInv

LEMMA FeedInitInv == FeedInit => FeedIInv
<1> SUFFICES ASSUME FeedInit PROVE FeedIInv
  OBVIOUS
<1>1. Messages = {}
  BY DEF Messages, FeedInit, ToSet
<1>2. FeedTypes /\ SessionsSound
  BY FeedAssumption DEF FeedTypes, SessionsSound, FeedInit, NoSession, Actions, Open
<1>3. QueuedFor /\ ClientFollows
  BY <1>1 DEF FeedInit, QueuedFor, ClientFollows
<1>4. Numbered(0)
  BY <1>1, FeedAssumption DEF FeedInit, Numbered, NumberAt
<1>5. PICK tables : tables[0] = NoRoutes
  <2>1. [i \in {0} |-> NoRoutes][0] = NoRoutes
    OBVIOUS
  <2> QED BY <2>1
<1>6. Told(tables)
  BY <1>5 DEF Told, Sees, Open, NoSession, FeedInit, NoRoutes
<1>7. tables[0] = Followed(Messages)[0]
  BY <1>5, FollowedIs
<1> QED BY <1>2, <1>3, <1>4, <1>6, <1>7 DEF FeedIInv, WillFollow

LEMMA FeedNextInv == FeedIInv /\ [FeedNext]_feedVars => FeedIInv'
<1> SUFFICES ASSUME FeedIInv, [FeedNext]_feedVars PROVE FeedIInv'
  OBVIOUS
<1>1. ASSUME NEW i \in SessionIDs, NEW u \in Update, ProcessBMF(i, u) PROVE FeedIInv'
  BY <1>1, ProcessBMFInv
<1>2. ASSUME NEW i \in SessionIDs, NEW u \in Update, PassUpdate(i, u) PROVE FeedIInv'
  BY <1>2, PassUpdateInv
<1>3. ASSUME NEW i \in SessionIDs, PassOther(i) PROVE FeedIInv'
  <2>1. "FROM_PEER" \in MessageTypes \ {"LABELED"} /\ "FROM_PEER" \notin Status \cup TableTypes
    BY DEF MessageTypes, Status, TableTypes
  <2> QED BY <1>3, <2>1, PassPlain DEF PassOther
<1>4. ASSUME NEW i \in SessionIDs, PassSent(i) PROVE FeedIInv'
  <2>1. "TO_PEER" \in MessageTypes \ {"LABELED"} /\ "TO_PEER" \notin Status \cup TableTypes
    BY DEF MessageTypes, Status, TableTypes
  <2> QED BY <1>4, <2>1, PassPlain DEF PassSent
<1>5. ASSUME NEW i \in SessionIDs, StateChange(i) PROVE FeedIInv'
  <2>1. "FSM_STATE_CHANGE" \in MessageTypes \ {"LABELED"} /\ "FSM_STATE_CHANGE" \notin Status \cup TableTypes
    BY DEF MessageTypes, Status, TableTypes
  <2> QED BY <1>5, <2>1, PassPlain DEF StateChange
<1>6. ASSUME NEW i \in SessionIDs, SessionCloses(i) PROVE FeedIInv'
  BY <1>6, SessionClosesInv
<1>7. ASSUME NEW type \in Reports, Report(type) PROVE FeedIInv'
  <2>1. type \in Status \cup TableTypes /\ type \notin TableTypes /\ 0 \in SessionIDs \cup {0}
    BY FeedAssumption DEF Status, TableTypes
  <2>2. /\ Forward(createBMF(0, type)) /\ sessions' = sessions /\ lost' = Lose({})
        /\ transfer' = NoTransfer \/ transfer' \in [at : {"found", "started"}, sessionID : SessionIDs]
    BY <1>7 DEF Report, Pass, FeedIInv, FeedTypes
  <2> QED BY <2>1, <2>2, UnownedInv
<1>8. ASSUME NEW i \in SessionIDs, NEW p \in Peer, SessionOpens(p, i) PROVE FeedIInv'
  BY <1>8, SessionOpensInv
<1>9. ASSUME NEW i \in SessionIDs, SetSessionLabelAction(i) PROVE FeedIInv'
  BY <1>9, SetSessionLabelActionInv
<1>10. ASSUME NEW i \in SessionIDs, FindSession(i) PROVE FeedIInv'
  BY <1>10, FindSessionInv
<1>11. CASE UNCHANGED feedVars
  <2>1. UNCHANGED <<sessions, transfer, labeledQueue, seq_num, xmlUQueue, xmlRQueue, written, lost>>
    BY <1>11 DEF feedVars
  <2>2. SessionsSound' /\ \A p \in Peer : \A t : Sees(p, t) => Sees(p, t)'
    BY <2>1 DEF FeedIInv, SessionsSound, Open, Sees
  <2>3. /\ transfer' = NoTransfer \/ transfer' \in [at : {"found", "started"}, sessionID : SessionIDs]
        /\ written' \in 0..MaxMessages /\ written <= written' /\ lost' \in [Peer -> BOOLEAN]
    BY <2>1, FeedAssumption DEF FeedIInv, FeedTypes
  <2> QED BY <2>1, <2>2, <2>3, QuietInv
<1> QED BY <1>1, <1>2, <1>3, <1>4, <1>5, <1>6, <1>7, <1>8, <1>9, <1>10, <1>11, SendRibTableInv, XmlThreadInv
        DEF FeedNext

\* Every message but those of a table transfer is under its peer, and a client
\* that puts the two queues together by number has before each change the
\* table from which the change's label was made, while nothing of the peer was
\* skipped, misread, applied in part, or made by a command since its session opened.
THEOREM EveryClientFollows == FeedSpec => []ClientFollows
<1>1. FeedIInv => ClientFollows
  BY DEF FeedIInv
<1> QED BY <1>1, FeedInitInv, FeedNextInv, PTL DEF FeedSpec

(***************************************************************************)
(* The length a message states is put in the place of the length of the    *)
(* buffer.  It needs as many digits, or fewer and is filled up, as long as *)
(* the message fits the buffer.                                            *)
(***************************************************************************)

\* Every message fits the buffer.
Fits == \A x \in Messages : GetXMLMessageLen(x) \in 0..(XML_BUFFER_LEN - 1)

\* The size of a message and what it says of it are of the same text.
Measured == \A x \in Messages : /\ x.length = StatedLength(x.printed)
                                /\ x.size = WrittenLength(x.printed)

LEMMA Powers ==
  /\ PowerOfTen(0) = 1 /\ PowerOfTen(1) = 10 /\ PowerOfTen(2) = 100 /\ PowerOfTen(3) = 1000
  /\ PowerOfTen(4) = 10000 /\ PowerOfTen(5) = 100000 /\ PowerOfTen(6) = 1000000
  /\ PowerOfTen(7) = 10000000 /\ PowerOfTen(8) = 100000000 /\ PowerOfTen(9) = 1000000000
BY SMT DEF PowerOfTen

LEMMA PowersGrow ==
  /\ PowerOfTen(0) = 1 /\ \A d \in 0..9 : PowerOfTen(d) \in Nat
  /\ \A d \in 0..9, e \in 0..9 : d < e => PowerOfTen(d) < PowerOfTen(e)
<1>1. \A d \in 0..9 : d \in {0, 1, 2, 3, 4, 5, 6, 7, 8, 9}
  OBVIOUS
<1> QED BY <1>1, Powers, SMT

\* A number has as many digits as the least power of ten above it tells.
LEMMA DigitsAre ==
  ASSUME NEW n \in Nat, n < PowerOfTen(9)
  PROVE  /\ Digits(n) \in 1..9 /\ n < PowerOfTen(Digits(n))
         /\ Digits(n) = 1 \/ PowerOfTen(Digits(n) - 1) <= n
<1> DEFINE D(d) == n < PowerOfTen(d) /\ (d = 1 \/ PowerOfTen(d - 1) <= n)
<1>1. \E d \in 1..9 : D(d)
  <2> DEFINE above == {d \in 1..9 : n < PowerOfTen(d)}
  <2>1. 9 \in above /\ above \in SUBSET Nat
    BY DEF above
  <2>2. PICK d \in above : \A e \in above : d <= e
    BY <2>1, LeastIn
  <2>3. d # 1 => d - 1 \in 1..9 /\ d - 1 \notin above /\ d - 1 \in 0..9
    BY <2>2
  <2> QED BY <2>2, <2>3, PowersGrow
<1>2. Digits(n) = CHOOSE d \in 1..9 : D(d)
  BY Zenon DEF Digits
<1> HIDE DEF D
<1>3. Digits(n) \in 1..9 /\ D(Digits(n))
  BY <1>1, <1>2
<1> QED BY <1>3 DEF D

\* For a number that is no power of ten, its logarithm rounded up.
LEMMA LogarithmIs ==
  ASSUME NEW n \in Nat, 1 < n, n < PowerOfTen(9), \A d \in 0..9 : n # PowerOfTen(d)
  PROVE  LengthDigits(n) = Digits(n)
<1>1. /\ Digits(n) \in 1..9 /\ n < PowerOfTen(Digits(n))
      /\ Digits(n) = 1 \/ PowerOfTen(Digits(n) - 1) <= n
  BY DigitsAre
<1>2. n <= PowerOfTen(Digits(n)) /\ PowerOfTen(Digits(n) - 1) < n
  <2>1. Digits(n) \in 0..9 /\ Digits(n) - 1 \in 0..9 /\ (Digits(n) = 1 => Digits(n) - 1 = 0)
    BY <1>1
  <2> QED BY <1>1, <2>1, PowersGrow
<1> DEFINE log == LengthDigits(n)
<1>3. log \in 0..9 /\ n <= PowerOfTen(log) /\ (log = 0 \/ PowerOfTen(log - 1) < n)
  <2>1. Digits(n) \in 0..9
    BY <1>1
  <2> QED BY <1>2, <2>1 DEF LengthDigits
<1> HIDE DEF log
<1>4. ~(log < Digits(n))
  <2> SUFFICES ASSUME log < Digits(n) PROVE FALSE
    OBVIOUS
  <2>1. log = Digits(n) - 1 \/ log < Digits(n) - 1
    BY <1>1, <1>3
  <2>2. Digits(n) - 1 \in 0..9
    BY <1>1
  <2> QED BY <1>2, <1>3, <2>1, <2>2, PowersGrow
<1>5. ~(Digits(n) < log)
  <2> SUFFICES ASSUME Digits(n) < log PROVE FALSE
    OBVIOUS
  <2>1. log - 1 \in 0..9 /\ (Digits(n) = log - 1 \/ Digits(n) < log - 1) /\ Digits(n) \in 0..9
    BY <1>1, <1>3
  <2> QED BY <1>1, <1>3, <2>1, PowersGrow
<1> QED BY <1>1, <1>3, <1>4, <1>5 DEF log

\* A smaller number has no more digits.
LEMMA FewerDigits ==
  ASSUME NEW n \in Nat, n < PowerOfTen(9), NEW k \in 0..n
  PROVE  Digits(k) <= Digits(n)
<1>1. Digits(n) \in 1..9 /\ n < PowerOfTen(Digits(n))
  BY DigitsAre
<1>2. Digits(k) \in 1..9 /\ (Digits(k) = 1 \/ PowerOfTen(Digits(k) - 1) <= k)
  <2>1. k \in Nat /\ k < PowerOfTen(9)
    BY PowersGrow
  <2> QED BY <2>1, DigitsAre
<1> SUFFICES ASSUME Digits(n) < Digits(k) PROVE FALSE
  BY <1>1, <1>2
<1>3. /\ Digits(k) - 1 \in 0..9 /\ Digits(n) \in 0..9
      /\ Digits(n) = Digits(k) - 1 \/ Digits(n) < Digits(k) - 1
  BY <1>1, <1>2
<1> QED BY <1>1, <1>2, <1>3, PowersGrow

LEMMA MeasuredStays == FeedIInv /\ Measured /\ [FeedNext]_feedVars => Measured'
<1> SUFFICES ASSUME FeedIInv, Measured, [FeedNext]_feedVars PROVE Measured'
  OBVIOUS
<1>1. CASE XmlThread
  <2> DEFINE x == BMF2XMLDATA(Head(labeledQueue))
  <2>1. Messages' = Messages \cup {x}
    BY <1>1, DocumentIsWritten
  <2>2. x.length = StatedLength(x.printed) /\ x.size = WrittenLength(x.printed)
    BY DEF BMF2XMLDATA
  <2> QED BY <2>1, <2>2 DEF Measured
<1>2. CASE UNCHANGED <<xmlUQueue, xmlRQueue>>
  BY <1>2 DEF Measured, Messages
<1> QED BY <1>1, <1>2 DEF FeedNext, feedVars, ProcessBMF, PassUpdate, PassOther, PassSent, StateChange,
                          SessionCloses, SessionOpens, SetSessionLabelAction, FindSession,
                          SendRibTable, Report, Pass, Forward

\* While every message fits the buffer, a client that reads as many bytes as a
\* message states finds the next one where it stops.  The buffer's length is
\* no power of ten: then ceil(log10) would be one digit short of it.
THEOREM EveryMessageIsFramed ==
  ASSUME XML_BUFFER_LEN \in Nat, 1 < XML_BUFFER_LEN, XML_BUFFER_LEN < PowerOfTen(9),
         \A d \in 0..9 : XML_BUFFER_LEN # PowerOfTen(d)
  PROVE  FeedSpec => [](Fits => Framed)
<1>1. Measured /\ Fits => Framed
  <2> SUFFICES ASSUME Measured, Fits, NEW x \in Messages PROVE x.length = x.size
    BY DEF Framed, GetXMLMessageLen
  <2> DEFINE printed == x.printed
  <2>1. x.length = StatedLength(printed) /\ x.size = WrittenLength(printed)
    BY DEF Measured
  <2>2. StatedLength(printed) \in 0..(XML_BUFFER_LEN - 1) /\ PowerOfTen(9) \in Nat
    BY PowersGrow, <2>1 DEF Fits, GetXMLMessageLen
  <2>3. Digits(StatedLength(printed)) <= Digits(XML_BUFFER_LEN)
    <3>1. StatedLength(printed) \in 0..XML_BUFFER_LEN
      BY <2>2
    <3> QED BY <3>1, FewerDigits
  <2>4. /\ Digits(StatedLength(printed)) \in 1..9 /\ Digits(XML_BUFFER_LEN) \in 1..9
        /\ LengthDigits(XML_BUFFER_LEN) = Digits(XML_BUFFER_LEN)
    BY <2>2, DigitsAre, LogarithmIs
  <2>5. ~(Digits(StatedLength(printed)) > LengthDigits(XML_BUFFER_LEN))
    BY <2>3, <2>4
  <2>6. WrittenLength(printed) = BodyLength(printed) + Digits(XML_BUFFER_LEN)
    BY <2>4, <2>5 DEF WrittenLength
  <2> QED BY <2>1, <2>6 DEF StatedLength
<1>2. FeedInit => Measured
  BY DEF FeedInit, Measured, Messages, ToSet
<1> QED BY <1>1, <1>2, MeasuredStays, FeedInitInv, FeedNextInv, PTL DEF FeedSpec

(***************************************************************************)
(* What still runs when the queues are freed: a thread that closeBgpmon    *)
(* has joined has ended, and main, which is done, launches no other; a     *)
(* connection is accepted only before the join of its control thread, and  *)
(* told to end after it.                                                   *)
(***************************************************************************)
States == {"none", "start", "loop", "read", "leave", "done", "awaited", "closing", "lost"}

StopTypes ==
  /\ main \in 1..9 /\ closer \in 0..14
  /\ thread \in [Threads -> States]
  /\ enabled \in BOOLEAN /\ early \in BOOLEAN /\ told \in BOOLEAN /\ freed \in BOOLEAN
  /\ crashed \in BOOLEAN
  /\ flag \subseteq {"peers", "label", "xml", "clients", "periodic"}
  /\ queue \in [Queues -> Seq({"update", "note"})]
  /\ readers \subseteq Queues
  /\ sent \in Nat

\* A thread behind closeBgpmon's joins is not running: it has ended, or was
\* never launched.  The users' connections are apart: one may be its own.
JoinedAreOver == \A k \in 1..7 : closer > 5 + k /\ k # 2 => ~ Running(Joins[k])

\* If closeBgpmon began when main was done, main is done.
MainIsDone == closer # Idle /\ ~ early => main = 9

FreedLast == freed => closer >= 13

\* Behind the last join, a connection has been told to end.
ConnectionIsTold == closer >= 13 /\ Running("connection") => told

StopIInv ==
  StopTypes /\ FreedLast /\ (~ early => MainIsDone /\ JoinedAreOver /\ ConnectionIsTold)

-----------------------------------------------------------------------------
LEMMA Steps ==
  /\ Len(Start) = 8 /\ Len(Flags) = 5 /\ Len(Joins) = 7
  /\ Idle = 0 /\ Stopping = 6 /\ Freeing = 13 /\ Exited = 14
<1>1. Len(Start) = 8 /\ Len(Flags) = 5 /\ Len(Joins) = 7
  BY DEF Start, Flags, Joins
<1> QED BY <1>1 DEF Idle, Stopping, Freeing, Exited

LEMMA StartAt == \A k \in 1..8 : Start[k] \in {"queues", "peers", "start"} \cup Threads
BY DEF Start, Threads, Control, Users

LEMMA JoinsAt ==
  /\ \A k \in 1..7 : Joins[k] \in Threads /\ (Joins[k] = "cli" => k = 2)
  /\ Joins[1] = "login" /\ Joins[2] = "cli" /\ Joins[3] = "peer" /\ Joins[4] = "label"
  /\ Joins[5] = "periodic" /\ Joins[6] = "xml" /\ Joins[7] = "clients"
BY DEF Joins, Threads, Control, Users

LEMMA ThreadsAre ==
  {"peer", "label", "xml", "periodic", "connection", "login", "clients", "cli"} \subseteq Threads
BY DEF Threads, Control, Users

\* writeQueue.
LEMMA PutTypes ==
  ASSUME StopTypes, NEW q \in Queues, NEW m \in {"update", "note"}, Put(q, m)
  PROVE  queue' \in [Queues -> Seq({"update", "note"})]
<1>1. Append(queue[q], m) \in Seq({"update", "note"})
  BY DEF StopTypes
<1> QED BY <1>1 DEF Put, StopTypes

\* To use a queue crashes or does not.
LEMMA UseTypes == Use /\ StopTypes => crashed' \in BOOLEAN
BY DEF Use, StopTypes

\* A step that moves threads on, but starts none, and is not closeBgpmon's.
LEMMA ThreadsMove ==
  ASSUME StopIInv, StopTypes', main' = main, closer' = closer, early' = early, freed' = freed,
         told' = told, \A t \in Threads : ~ Running(t) => ~ Running(t)'
  PROVE  StopIInv'
<1>1. JoinedAreOver => JoinedAreOver'
  BY JoinsAt DEF JoinedAreOver
<1>2. ConnectionIsTold => ConnectionIsTold'
  BY ThreadsAre DEF ConnectionIsTold
<1> QED BY <1>1, <1>2 DEF StopIInv, MainIsDone, FreedLast

LEMMA GoEnds ==
  ASSUME StopTypes, NEW t \in Threads, Running(t),
         NEW pc \in States, Go(t, pc)
  PROVE  /\ thread' \in [Threads -> States]
         /\ \A u \in Threads : ~ Running(u) => ~ Running(u)'
BY DEF StopTypes, Go, Running

LEMMA InitInv == Init => StopIInv
<1> SUFFICES ASSUME Init PROVE StopIInv
  OBVIOUS
<1>1. <<>> \in Seq({"update", "note"})
  OBVIOUS
<1>2. /\ enabled \in BOOLEAN /\ early \in BOOLEAN /\ told \in BOOLEAN /\ freed \in BOOLEAN
      /\ crashed \in BOOLEAN
  BY DEF Init
<1>3. /\ thread \in [Threads -> States]
      /\ queue \in [Queues -> Seq({"update", "note"})]
  BY <1>1 DEF Init, States
<1>4. main \in 1..9 /\ closer \in 0..14 /\ flag = {} /\ readers = {} /\ sent \in Nat
  BY Steps DEF Init
<1>5. StopTypes
  BY <1>2, <1>3, <1>4 DEF StopTypes
<1> QED BY <1>5, Steps DEF Init, StopIInv, FreedLast, MainIsDone, JoinedAreOver, ConnectionIsTold

\* main: it is not done, so closeBgpmon has not begun or began early.
LEMMA MainInv == StopIInv /\ MainStep => StopIInv'
<1> SUFFICES ASSUME StopIInv, MainStep PROVE StopIInv'
  OBVIOUS
<1>1. /\ main \in 1..8 /\ main' = main + 1 /\ closer' = closer /\ early' = early /\ freed' = freed
      /\ told' = told
  BY Steps DEF MainStep, StopIInv, StopTypes
<1>2. ASSUME NEW ts, Launch(ts)
      PROVE  /\ thread' \in [Threads -> States]
             /\ queue' = queue
  BY <1>2 DEF Launch, StopIInv, StopTypes, States
<1>3. /\ thread' \in [Threads -> States]
      /\ queue' \in [Queues -> Seq({"update", "note"})]
  <2>1. CASE Start[main] = "start"
    <3>1. Put("peerQueue", "note") /\ thread' = thread
      BY <2>1 DEF MainStep
    <3> QED BY <3>1, PutTypes DEF StopIInv, StopTypes, Queues
  <2>2. CASE Start[main] = "queues"
    BY <2>2 DEF MainStep, StopIInv, StopTypes
  <2>3. CASE Start[main] = "peers"
    <3>1. PICK ts : Launch(ts)
      BY <2>3 DEF MainStep
    <3> QED BY <3>1, <1>2 DEF StopIInv, StopTypes
  <2>4. CASE Start[main] \notin {"start", "queues", "peers"}
    <3>1. Launch({Start[main]})
      BY <2>4 DEF MainStep
    <3> QED BY <3>1, <1>2 DEF StopIInv, StopTypes
  <2> QED BY <2>1, <2>2, <2>3, <2>4
<1>4. StopTypes'
  BY <1>1, <1>3 DEF MainStep, StopIInv, StopTypes
<1>5. early \/ closer = 0
  BY <1>1, Steps DEF StopIInv, MainIsDone, StopTypes
<1> QED BY <1>1, <1>4, <1>5, Steps DEF StopIInv, MainIsDone, JoinedAreOver, ConnectionIsTold, FreedLast, StopTypes

LEMMA StepInv == ASSUME StopIInv, NEW t \in Threads, Step(t) PROVE StopIInv'
<1>1. /\ main' = main /\ closer' = closer /\ early' = early /\ freed' = freed
      /\ told' = told /\ sent' = sent /\ enabled' = enabled
  BY DEF Step, Subscribe, Test, Read, Leave, Ends
<1>7. crashed' \in BOOLEAN
  BY UseTypes DEF Step, Subscribe, Test, Read, Leave, Ends, StopIInv, StopTypes
<1>2. Running(t) /\ \E pc \in States : Go(t, pc)
  <2>1. CASE Subscribe(t)
    BY <2>1 DEF Subscribe, Running, States
  <2>2. CASE Test(t)
    BY <2>2 DEF Test, Running, States
  <2>3. CASE Read(t)
    BY <2>3 DEF Read, Running, States
  <2>4. CASE Leave(t)
    BY <2>4 DEF Leave, Running, States
  <2>5. CASE Ends(t)
    BY <2>5 DEF Ends, Running, States
  <2> QED BY <2>1, <2>2, <2>3, <2>4, <2>5 DEF Step
<1>3. flag' \subseteq flag /\ readers' \subseteq Queues
  <2>1. CASE Subscribe(t)
    <3>1. Source[t] \in Queues /\ flag' \in {flag, Cleared}
      BY <2>1 DEF Subscribe, Source, Queues
    <3> QED BY <2>1, <3>1 DEF Subscribe, StopIInv, StopTypes, Cleared
  <2>2. CASE Test(t) \/ Read(t) \/ Ends(t)
    BY <2>2 DEF Test, Read, Ends, StopIInv, StopTypes
  <2>3. CASE Leave(t)
    BY <2>3 DEF Leave, StopIInv, StopTypes
  <2> QED BY <2>1, <2>2, <2>3 DEF Step
<1>4. queue' \in [Queues -> Seq({"update", "note"})]
  <2>1. CASE Read(t)
    <3>1. /\ t \in {"label", "xml"} /\ Source[t] \in Queues /\ queue[Source[t]] # <<>>
          /\ queue \in [Queues -> Seq({"update", "note"})]
      BY <2>1 DEF Read, Source, Queues, StopIInv, StopTypes
    <3> DEFINE m == Head(queue[Source[t]])
               rest == [queue EXCEPT ![Source[t]] = Tail(@)]
    <3>2. m \in {"update", "note"} /\ Tail(queue[Source[t]]) \in Seq({"update", "note"})
      BY <3>1
    <3>3. rest \in [Queues -> Seq({"update", "note"})]
      BY <3>1, <3>2
    <3>4. "labeledQueue" \in Queues
      BY DEF Queues
    <3>5. Append(rest["labeledQueue"], m) \in Seq({"update", "note"})
      BY <3>2, <3>3, <3>4
    <3>6. queue' = rest \/ queue' = [rest EXCEPT !["labeledQueue"] = Append(@, m)]
      BY <2>1 DEF Read
    <3> QED BY <3>3, <3>4, <3>5, <3>6
  <2>2. CASE Leave(t)
    <3>1. <<>> \in Seq({"update", "note"})
      OBVIOUS
    <3> QED BY <2>2, <3>1 DEF Leave, StopIInv, StopTypes
  <2>3. CASE Subscribe(t) \/ Test(t) \/ Ends(t)
    BY <2>3 DEF Subscribe, Test, Ends, StopIInv, StopTypes
  <2> QED BY <2>1, <2>2, <2>3 DEF Step
<1>5. StopTypes'
  BY <1>1, <1>2, <1>3, <1>4, <1>7, GoEnds DEF StopIInv, StopTypes
<1>6. \A u \in Threads : ~ Running(u) => ~ Running(u)'
  BY <1>2, GoEnds DEF StopIInv
<1> QED BY <1>1, <1>5, <1>6, ThreadsMove

LEMMA WriteInv == ASSUME StopIInv, NEW t \in Threads, Writes(t) PROVE StopIInv'
<1>1. /\ main' = main /\ closer' = closer /\ early' = early /\ freed' = freed /\ thread' = thread
      /\ told' = told /\ enabled' = enabled /\ flag' = flag /\ readers' = readers
      /\ sent' = sent + 1 /\ crashed' \in BOOLEAN
  BY UseTypes DEF Writes, StopIInv
<1>2. queue' \in [Queues -> Seq({"update", "note"})]
  BY PutTypes DEF Writes, StopIInv, Queues
<1>3. StopTypes'
  BY <1>1, <1>2 DEF StopIInv, StopTypes
<1> QED BY <1>1, <1>3, ThreadsMove DEF Running

LEMMA PeerEndsInv == StopIInv /\ PeerEnds => StopIInv'
<1> SUFFICES ASSUME StopIInv, PeerEnds PROVE StopIInv'
  OBVIOUS
<1>1. /\ main' = main /\ closer' = closer /\ early' = early /\ freed' = freed
      /\ told' = told /\ enabled' = enabled /\ flag' = flag /\ readers' = readers
      /\ sent' = sent /\ crashed' \in BOOLEAN
  BY UseTypes DEF PeerEnds, StopIInv, StopTypes
<1>2. queue' \in [Queues -> Seq({"update", "note"})]
  BY PutTypes DEF PeerEnds, StopIInv, Queues, StopTypes
<1>3. "peer" \in Threads /\ Running("peer") /\ Go("peer", "done") /\ "done" \in States
  BY ThreadsAre DEF PeerEnds, Running, States
<1>4. StopTypes'
  BY <1>1, <1>2, <1>3, GoEnds DEF StopIInv, StopTypes
<1> QED BY <1>1, <1>3, <1>4, GoEnds, ThreadsMove DEF StopIInv

LEMMA AcceptInv == ASSUME StopIInv, NEW t \in Threads, Accept(t) PROVE StopIInv'
<1>1. /\ main' = main /\ closer' = closer /\ early' = early /\ freed' = freed
      /\ crashed' = crashed /\ enabled' = enabled /\ flag' = flag /\ readers' = readers
      /\ sent' = sent /\ queue' = queue /\ told' = (told /\ t # "connection")
  BY DEF Accept
<1>2. /\ t \in {"cli", "connection"} /\ Running(Acceptor[t])
      /\ Acceptor[t] = IF t = "cli" THEN "login" ELSE "clients"
  BY DEF Accept, Acceptor, Running
<1>3. /\ thread' \in [Threads -> States]
      /\ \A u \in Threads : u # t => thread'[u] = thread[u]
  BY DEF Accept, Go, States, StopIInv, StopTypes
<1>4. StopTypes'
  BY <1>1, <1>3 DEF StopIInv, StopTypes
<1>5. JoinedAreOver => JoinedAreOver'
  <2> SUFFICES ASSUME JoinedAreOver, NEW k \in 1..7, closer' > 5 + k, k # 2
               PROVE  ~ Running(Joins[k])'
    BY DEF JoinedAreOver
  <2>1. Joins[k] \in Threads /\ Joins[k] # "cli" /\ Joins[k] # "connection"
    BY JoinsAt DEF Joins
  <2> QED BY <1>1, <1>2, <1>3, <2>1 DEF JoinedAreOver, Running
<1>6. JoinedAreOver /\ ConnectionIsTold => ConnectionIsTold'
  <2> SUFFICES ASSUME JoinedAreOver, ConnectionIsTold, closer' >= 13, Running("connection")'
               PROVE  told'
    BY DEF ConnectionIsTold
  <2>1. ~ Running("clients")
    BY <1>1, JoinsAt DEF JoinedAreOver, StopIInv, StopTypes
  <2>2. t = "cli"
    BY <1>2, <2>1
  <2> QED BY <1>1, <1>3, <2>2, ThreadsAre DEF ConnectionIsTold, Running
<1> QED BY <1>1, <1>4, <1>5, <1>6 DEF StopIInv, MainIsDone, FreedLast

LEMMA HangsInv == ASSUME StopIInv, NEW t \in Threads, Hangs(t) PROVE StopIInv'
<1>1. /\ main' = main /\ closer' = closer /\ early' = early /\ freed' = freed
      /\ told' = told /\ enabled' = enabled /\ flag' = flag /\ readers' = readers
      /\ sent' = sent /\ queue' = queue
  BY DEF Hangs
<1>2. crashed' \in BOOLEAN
  BY UseTypes DEF Hangs, StopIInv, StopTypes
<1>3. Running(t) /\ \E pc \in States : Go(t, pc)
  BY DEF Hangs, Running, States
<1>4. StopTypes'
  BY <1>1, <1>2, <1>3, GoEnds DEF StopIInv, StopTypes
<1> QED BY <1>1, <1>3, <1>4, GoEnds, ThreadsMove DEF StopIInv

\* closeBgpmon begins: it is early, or main is done.
LEMMA CloseInv == StopIInv /\ Close => StopIInv'
<1> SUFFICES ASSUME StopIInv, Close PROVE StopIInv'
  OBVIOUS
<1>1. /\ main' = main /\ freed' = freed /\ told' = told /\ closer = 0 /\ closer' \in {0, 1}
      /\ early' = (main <= 8) /\ main \in 1..9
  BY Steps DEF Close, StopIInv, StopTypes
<1>2. queue' \in [Queues -> Seq({"update", "note"})]
  BY PutTypes DEF Close, StopIInv, Queues, StopTypes
<1>8. thread' \in [Threads -> States]
  BY DEF Close, Go, States, StopIInv, StopTypes
<1>3. enabled' \in BOOLEAN /\ early' \in BOOLEAN /\ freed' \in BOOLEAN /\ crashed' \in BOOLEAN
  <2>1. early' \in BOOLEAN
    BY DEF Close
  <2>2. crashed' = crashed \/ crashed' = TRUE
    BY DEF Close
  <2> QED BY <2>1, <2>2 DEF Close, StopIInv, StopTypes
<1>4. flag' = flag /\ readers' = readers /\ sent' = sent
  BY DEF Close
<1>5. StopTypes'
  BY <1>1, <1>2, <1>3, <1>4, <1>8 DEF StopIInv, StopTypes
<1>6. ~ early' => main' = 9
  <2>1. CASE main <= 8
    BY <1>1, <2>1
  <2>2. CASE main = 9
    BY <1>1, <2>2
  <2> QED BY <1>1, <2>1, <2>2
<1>7. JoinedAreOver' /\ FreedLast' /\ ConnectionIsTold'
  BY <1>1 DEF JoinedAreOver, StopIInv, FreedLast, ConnectionIsTold
<1> QED BY <1>5, <1>6, <1>7 DEF StopIInv, MainIsDone

LEMMA SignalInv == StopIInv /\ Signal => StopIInv'
<1> SUFFICES ASSUME StopIInv, Signal PROVE StopIInv'
  OBVIOUS
<1>1. /\ main' = main /\ early' = early /\ thread' = thread /\ queue' = queue /\ told' = told
      /\ freed' = freed /\ readers' = readers /\ sent' = sent /\ crashed' = crashed
  BY DEF Signal
<1>2. closer \in 1..5 /\ closer' = closer + 1
  BY Steps DEF Signal
<1>3. Flags[closer] = "peers" \/ Flags[closer] \in {"label", "xml", "clients", "periodic"}
  BY <1>2 DEF Flags
<1>4. enabled' \in BOOLEAN /\ flag' \subseteq {"peers", "label", "xml", "clients", "periodic"}
  <2>1. CASE Flags[closer] = "peers"
    BY <2>1 DEF Signal, StopIInv, StopTypes
  <2>2. CASE Flags[closer] # "peers"
    BY <1>3, <2>2 DEF Signal, StopIInv, StopTypes
  <2> QED BY <2>1, <2>2
<1>5. StopTypes'
  BY <1>1, <1>2, <1>4 DEF StopIInv, StopTypes
<1> QED BY <1>1, <1>2, <1>5, Steps DEF StopIInv, MainIsDone, JoinedAreOver, ConnectionIsTold, FreedLast

\* The thread joined is over, and after the last join the connection is told.
LEMMA JoinInv == StopIInv /\ Join => StopIInv'
<1> SUFFICES ASSUME StopIInv, Join PROVE StopIInv'
  OBVIOUS
<1>1. /\ main' = main /\ early' = early /\ thread' = thread /\ queue' = queue /\ freed' = freed
      /\ enabled' = enabled /\ flag' = flag /\ readers' = readers /\ sent' = sent
      /\ told' = (told \/ Joined = "clients") /\ ~ Running(Joined) /\ Joined = Joins[closer - 5]
  BY Steps DEF Join, Joined, Flags
<1>2. closer \in 6..12 /\ closer' \in {closer, closer + 1} /\ crashed' \in BOOLEAN
  <2>1. closer \in 6..12
    BY Steps DEF Join
  <2>2. UNCHANGED closer \/ closer' = closer + 1
    BY DEF Join, OnOrWrong
  <2>3. UNCHANGED crashed \/ crashed' = TRUE
    BY DEF Join, OnOrWrong
  <2> QED BY <2>1, <2>2, <2>3 DEF StopIInv, StopTypes
<1>3. StopTypes'
  BY <1>1, <1>2 DEF StopIInv, StopTypes
<1>4. JoinedAreOver => JoinedAreOver'
  <2> SUFFICES ASSUME JoinedAreOver, NEW k \in 1..7, closer' > 5 + k, k # 2
               PROVE  ~ Running(Joins[k])'
    BY DEF JoinedAreOver
  <2>1. closer > 5 + k \/ k = closer - 5
    BY <1>2
  <2>2. ~ Running(Joins[k])
    BY <1>1, <2>1 DEF JoinedAreOver
  <2> QED BY <1>1, <2>2 DEF Running
<1>5. ConnectionIsTold'
  <2> SUFFICES ASSUME closer' >= 13 PROVE told'
    BY DEF ConnectionIsTold
  <2>1. closer - 5 = 7
    BY <1>2
  <2> QED BY <1>1, <2>1, JoinsAt
<1> QED BY <1>1, <1>2, <1>3, <1>4, <1>5, Steps DEF StopIInv, MainIsDone, FreedLast

LEMMA JoinCliInv == StopIInv /\ JoinCli => StopIInv'
<1> SUFFICES ASSUME StopIInv, JoinCli PROVE StopIInv'
  OBVIOUS
<1>1. /\ main' = main /\ early' = early /\ queue' = queue /\ freed' = freed /\ told' = told
      /\ enabled' = enabled /\ flag' = flag /\ readers' = readers /\ sent' = sent
      /\ Joined = "cli" /\ Joined = Joins[closer - 5]
  BY Steps DEF JoinCli, Joined, Flags
<1>2. closer \in 6..12 /\ closer' \in {closer, closer + 1} /\ crashed' \in BOOLEAN
  <2>1. closer \in 6..12
    BY Steps DEF JoinCli
  <2>2. UNCHANGED closer \/ closer' = closer + 1
    BY DEF JoinCli, OnOrWrong
  <2>3. UNCHANGED crashed \/ crashed' = TRUE
    BY DEF JoinCli, OnOrWrong
  <2> QED BY <2>1, <2>2, <2>3 DEF StopIInv, StopTypes
<1>3. closer = 7
  <2>1. closer - 5 \in 1..7
    BY <1>2
  <2> QED BY <1>1, <1>2, <2>1, JoinsAt
<1>4. /\ thread' \in [Threads -> States]
      /\ \A u \in Threads : ~ Running(u) => ~ Running(u)'
  <2>1. CASE thread' = thread
    BY <2>1 DEF Running, StopIInv, StopTypes
  <2>2. CASE Running("cli") /\ Go("cli", "awaited")
    BY <2>2, GoEnds, ThreadsAre DEF StopIInv, States
  <2> QED BY <2>1, <2>2 DEF JoinCli, Running
<1>5. StopTypes'
  BY <1>1, <1>2, <1>3, <1>4 DEF StopIInv, StopTypes
<1>6. JoinedAreOver => JoinedAreOver'
  <2> SUFFICES ASSUME JoinedAreOver, NEW k \in 1..7, closer' > 5 + k, k # 2
               PROVE  ~ Running(Joins[k])'
    BY DEF JoinedAreOver
  <2>1. closer > 5 + k
    BY <1>2, <1>3
  <2> QED BY <1>4, <2>1, JoinsAt DEF JoinedAreOver
<1>7. ConnectionIsTold'
  BY <1>2, <1>3 DEF ConnectionIsTold
<1> QED BY <1>1, <1>2, <1>3, <1>5, <1>6, <1>7, Steps DEF StopIInv, MainIsDone, FreedLast

LEMMA FreeInv == StopIInv /\ Free => StopIInv'
<1> SUFFICES ASSUME StopIInv, Free PROVE StopIInv'
  OBVIOUS
<1>1. /\ main' = main /\ early' = early /\ queue' = queue /\ thread' = thread /\ told' = told
      /\ enabled' = enabled /\ flag' = flag /\ readers' = readers /\ sent' = sent
      /\ crashed' = crashed
  BY DEF Free
<1>2. closer = 13 /\ closer' \in {13, 14} /\ freed' \in BOOLEAN
  <2>1. freed' = freed \/ freed' = TRUE
    BY DEF Free
  <2> QED BY <2>1, Steps DEF Free, StopIInv, StopTypes
<1>3. StopTypes'
  BY <1>1, <1>2 DEF StopIInv, StopTypes
<1>4. JoinedAreOver => JoinedAreOver'
  BY <1>1, <1>2 DEF JoinedAreOver, Running
<1>5. ConnectionIsTold => ConnectionIsTold'
  BY <1>1, <1>2 DEF ConnectionIsTold, Running
<1> QED BY <1>1, <1>2, <1>3, <1>4, <1>5, Steps DEF StopIInv, MainIsDone, FreedLast

LEMMA NextInv == StopIInv /\ [Next]_vars => StopIInv'
<1> SUFFICES ASSUME StopIInv, [Next]_vars PROVE StopIInv'
  OBVIOUS
<1>1. CASE UNCHANGED vars
  BY <1>1 DEF vars, StopIInv, StopTypes, FreedLast, MainIsDone, JoinedAreOver, ConnectionIsTold, Running
<1> QED BY <1>1, MainInv, StepInv, WriteInv, AcceptInv, HangsInv, PeerEndsInv, CloseInv, SignalInv,
  JoinInv, JoinCliInv, FreeInv DEF Next, Closing

-----------------------------------------------------------------------------
\* Every variable of the shutdown keeps its type (main.c, signals.c).
THEOREM StopTypeCorrect == Spec => []StopTypes
<1>1. StopIInv => StopTypes
  BY DEF StopIInv
<1> QED BY <1>1, InitInv, NextInv, PTL DEF Spec

\* For any number of messages: if bgpmon had started when it was told to stop,
\* the threads that use the queues and still run when closeBgpmon frees them are
\* those of connections, which it has told to end and does not wait for
\* (signals.c:76-91, clientscontrol.c:1188-1209, mrtcontrol.c:805-822).
THEOREM OnlyToldConnectionsRemain == Spec => []LastUsersAreTold
<1>1. StopIInv => LastUsersAreTold
  <2> SUFFICES ASSUME StopIInv, freed, ~ early, NEW t \in Users, Running(t)
               PROVE  t = "connection" /\ told
    BY DEF LastUsersAreTold
  <2>1. \A k \in 3..6 : ~ Running(Joins[k])
    BY DEF StopIInv, FreedLast, JoinedAreOver, StopTypes
  <2>2. t = "connection"
    BY <2>1, JoinsAt DEF Users
  <2> QED BY <2>2 DEF StopIInv, FreedLast, ConnectionIsTold
<1> QED BY <1>1, InitInv, NextInv, PTL DEF Spec
===============================================================================
