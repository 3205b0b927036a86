-------------------------------- MODULE Feed --------------------------------
(***************************************************************************)
(* What a client reads.  The labeling thread decodes each update, labels   *)
(* its prefixes against the session's table and appends the labels; the    *)
(* XML thread decodes the same bytes again, hands the labels out as it     *)
(* prints, numbers the message and puts it on the update queue, the RIB    *)
(* queue or both.                                                          *)
(*                                                                         *)
(* A prefix is a value, a table the set of prefixes it holds (which route  *)
(* a prefix has is RibTable's), and of an XML document only what is asked  *)
(* about is kept: its number, its prefixes, its length.                    *)
(***************************************************************************)
EXTENDS Integers, Sequences, FiniteSets, SequencesExt

CONSTANTS
  Peer, Prefix,
  SessionIDs,      \* the slots of Sessions
  Update,          \* the updates peers send: [withdrawn, attributes, nlri, corrupt]
  Reports,         \* bound: the types of reports in use
  QueueSize,       \* what the labeled queue holds
  MaxMessages,     \* bound: messages for the labeled queue and commands
  UINT_MAX,        \* the greatest sequence number
  FirstNumber,     \* what rand() gave
  XML_BUFFER_LEN   \* its digits are the room for a length

Status     == {"CHAINS_STATUS", "QUEUES_STATUS", "SESSION_STATUS", "MRT_STATUS", "BGPMON_START", "BGPMON_STOP"}
TableTypes == {"TABLE_START", "TABLE_TRANSFER", "TABLE_STOP"}

ASSUME FeedAssumption ==
  /\ UINT_MAX \in Nat /\ FirstNumber \in 0..UINT_MAX
  /\ MaxMessages \in Nat /\ MaxMessages <= UINT_MAX + 1
  /\ QueueSize \in Nat \ {0}
  /\ Reports \subseteq Status
  /\ "none" \notin Peer

VARIABLES
  sessions,     \* Sessions, by ID: the session there, or NoSession
  transfer,     \* the route refresh thread: the session it sends the table of
  labeledQueue,
  seq_num,      \* ClientControls.seq_num
  xmlUQueue, xmlRQueue,   \* all that was ever written
  written,      \* messages for the labeled queue and commands
  lost          \* history: lost[p], the session's table is not what a client makes of the messages

feedVars == <<sessions, transfer, labeledQueue, seq_num, xmlUQueue, xmlRQueue, written, lost>>

Actions == {"NoAction", "Label", "StoreRibOnly"}

\* A session is closing once its closing was labeled.  Its table is the set of its prefixes.
NoSession == [peer |-> "none", state |-> "none", labelAction |-> "NoAction", table |-> {}]
NewSession(p, action) == [peer |-> p, state |-> "open", labelAction |-> action, table |-> {}]
Open(i) == sessions[i].state = "open"

NoTransfer == [at |-> "none"]

FeedInit ==
  /\ sessions = [i \in SessionIDs |-> NoSession]
  /\ transfer = NoTransfer
  /\ labeledQueue = <<>> /\ xmlUQueue = <<>> /\ xmlRQueue = <<>>
  /\ seq_num = FirstNumber
  /\ written = 0
  /\ lost = [p \in Peer |-> FALSE]

-----------------------------------------------------------------------------
(* The labeling thread's reading of an update.                             *)

Section(d, ps) == [direction |-> d, prefixes |-> ps]

IsMp(a) == a.type \in {"MP_REACH", "MP_UNREACH"}

MpSection(a) == Section(IF a.type = "MP_REACH" THEN "announce" ELSE "withdraw", a.prefixes)

\* The multiprotocol attributes in wire order.
MpNlri(attributes) ==
  FlattenSeq([i \in DOMAIN attributes |-> IF IsMp(attributes[i]) THEN <<MpSection(attributes[i])>> ELSE <<>>])

\* The attributes that are kept as they are: all but the AS path and these.
HasBasicAttributes(u) == \E i \in DOMAIN u.attributes :
                            ~IsMp(u.attributes[i]) /\ u.attributes[i].type # "AS_PATH"

\* The sections in the order in which they are applied.
Sections(u) == <<Section("withdraw", u.withdrawn)>> \o MpNlri(u.attributes) \o <<Section("announce", u.nlri)>>

\* A section whose prefixes do not fit its length, or IPv4 routes without attributes.
Refused(u, k) == \/ u.corrupt = k
                 \/ k = Len(Sections(u)) /\ u.nlri # <<>> /\ ~HasBasicAttributes(u)

Processed(u) == \A k \in DOMAIN Sections(u) : ~Refused(u, k)

\* The sections before the first that is refused.
Applied(u) == IF Processed(u) THEN Sections(u)
              ELSE SubSeq(Sections(u), 1, Min({k \in DOMAIN Sections(u) : Refused(u, k)}) - 1)

\* The changes that a list of sections makes, one for each prefix.
Change(d, p)     == [direction |-> d, prefix |-> p]
Changes(s)       == [i \in DOMAIN s.prefixes |-> Change(s.direction, s.prefixes[i])]
AllChanges(secs) == FlattenSeq([i \in DOMAIN secs |-> Changes(secs[i])])

LabelOf(t, c) == IF c.direction = "withdraw"
                 THEN IF c.prefix \in t THEN "WITH" ELSE "DUPW"
                 ELSE IF c.prefix \in t THEN "DANN" ELSE "NANN"
Changed(t, c) == IF c.direction = "withdraw" THEN t \ {c.prefix} ELSE t \cup {c.prefix}

\* A table after so many of a list of changes, and the label of each.
TableAfter(t, cs) ==
  LET after[i \in 0..Len(cs)] == IF i = 0 THEN t ELSE Changed(after[i - 1], cs[i]) IN after
Changing(t, cs) == TableAfter(t, cs)[Len(cs)]
Labels(t, cs)   == LET after == TableAfter(t, cs) IN [i \in DOMAIN cs |-> LabelOf(after[i - 1], cs[i])]

ApplyUpdate(t, u) == LET cs == AllChanges(Applied(u)) IN [table |-> Changing(t, cs), labels |-> Labels(t, cs)]

-----------------------------------------------------------------------------
(* The writers of the labeled queue.                                       *)

\* The sender is a history: the peer that a client should know the message by.
createBMF(i, type) == [type |-> type, sessionID |-> i, sender |-> "none",
                       update |-> <<>>, labels |-> <<>>, closes |-> FALSE, sure |-> TRUE]
BMF(type, i) == [createBMF(i, type) EXCEPT !.sender = sessions[i].peer]

Full == Len(labeledQueue) = QueueSize

\* writeQueue: when the queue is full its reader, the XML thread, skips what is there.
Forward(m) == /\ written < MaxMessages /\ written' = written + 1
              /\ labeledQueue' = IF Full THEN <<m>> ELSE Append(labeledQueue, m)
              /\ UNCHANGED <<seq_num, xmlUQueue, xmlRQueue>>

\* The peers of whom an update or a closing is skipped by the next message.
Skipped == IF Full THEN {m.sender : m \in {k \in ToSet(labeledQueue) : k.closes \/ k.update # <<>>}} ELSE {}

\* They and these are lost.
Lose(ps) == [q \in Peer |-> lost[q] \/ q \in Skipped \cup ps]

\* The XML thread reads the SNPAs of an attribute as prefixes.
HasSnpas(u) == \E i \in DOMAIN u.attributes :
                  u.attributes[i].type = "MP_REACH" /\ u.attributes[i].misread # <<>>

\* An update of a session that is labeled or stored: dropped when a section
\* is refused, after the sections before it were applied.
ProcessBMF(i, u) ==
  LET s == sessions[i]
      r == ApplyUpdate(s.table, u)
      l == Lose(IF Processed(u) /\ ~HasSnpas(u) THEN {} ELSE {s.peer})
      m == BMF(IF s.labelAction = "Label" THEN "LABELED" ELSE "FROM_PEER", i) IN
  /\ Open(i) /\ s.labelAction # "NoAction"
  /\ sessions' = [sessions EXCEPT ![i].table = r.table]
  /\ IF Processed(u)
     THEN /\ Forward([m EXCEPT !.update = <<u>>, !.sure = ~l[s.peer],
                               !.labels = IF s.labelAction = "Label" THEN r.labels ELSE <<>>])
          /\ lost' = l
     ELSE /\ lost' = [lost EXCEPT ![s.peer] = TRUE]
          /\ written < MaxMessages /\ written' = written + 1
          /\ UNCHANGED <<labeledQueue, seq_num, xmlUQueue, xmlRQueue>>
  /\ UNCHANGED transfer

\* A message that is put on the queue as it came.
Pass(m) == Forward(m) /\ lost' = Lose({}) /\ UNCHANGED <<sessions, transfer>>

\* An update of a session that is neither labeled nor stored.  So are messages of the
\* other BGP types passed; of a session that is labeled or stored they are dropped.
PassUpdate(i, u) == /\ Open(i) /\ sessions[i].labelAction = "NoAction"
                    /\ Pass([BMF("FROM_PEER", i) EXCEPT !.update = <<u>>])

PassOther(i) == Open(i) /\ sessions[i].labelAction = "NoAction" /\ Pass(BMF("FROM_PEER", i))

\* What BGPmon sent to the peer.
PassSent(i) == Open(i) /\ Pass(BMF("TO_PEER", i))

\* The session reaches another state than Idle.
StateChange(i) == Open(i) /\ Pass(BMF("FSM_STATE_CHANGE", i))

\* A peer's next session takes a free slot once the last one's closing is
\* behind, which need not be freed yet; its tables are new.
SessionOpens(p, i) ==
  /\ sessions[i] = NoSession
  /\ \A k \in SessionIDs : sessions[k].peer = p => ~Open(k)
  /\ \E action \in Actions : sessions' = [sessions EXCEPT ![i] = NewSession(p, action)]
  /\ UNCHANGED <<transfer, labeledQueue, seq_num, xmlUQueue, xmlRQueue, written, lost>>

\* setSessionLabelAction: tables are made, with nothing in them, or deleted.
\* A command counts as a message written.
SetSessionLabelAction(i) ==
  LET s == sessions[i] IN
  \E action \in Actions \ {s.labelAction} :
    /\ Open(i)
    /\ sessions' = [sessions EXCEPT ![i].labelAction = action,
                                    ![i].table = IF action = "NoAction" THEN {} ELSE @]
    /\ lost' = [lost EXCEPT ![s.peer] = @ \/ s.labelAction = "NoAction"]
    /\ written < MaxMessages /\ written' = written + 1
    /\ UNCHANGED <<transfer, labeledQueue, seq_num, xmlUQueue, xmlRQueue>>

\* What is left of a session until its closing is out.
Emptied(s) == [s EXCEPT !.state = "closing", !.table = {}]

\* The session goes back to Idle: its table goes with it.
SessionCloses(i) == /\ Open(i)
                    /\ sessions' = [sessions EXCEPT ![i] = Emptied(@)]
                    /\ Forward([BMF("FSM_STATE_CHANGE", i) EXCEPT !.closes = TRUE])
                    /\ lost' = [Lose({}) EXCEPT ![sessions[i].peer] = FALSE]
                    /\ UNCHANGED transfer

\* The transfer of a session's table, by the route refresh thread: the first
\* message is written for the ID that was found, whatever has become of it,
\* and the last even when the session has gone.
HasTable(i) == Open(i) /\ sessions[i].labelAction # "NoAction"

FindSession(i) == /\ transfer = NoTransfer /\ Open(i)
                  /\ transfer' = [at |-> "found", sessionID |-> i]
                  /\ UNCHANGED <<sessions, labeledQueue, seq_num, xmlUQueue, xmlRQueue, written, lost>>

SendRibTable ==
  LET i == transfer.sessionID IN
  /\ \/ /\ transfer.at = "found"
        /\ Forward(createBMF(i, "TABLE_START"))
        /\ transfer' = IF HasTable(i) THEN [transfer EXCEPT !.at = "started"] ELSE NoTransfer
     \/ /\ transfer.at = "started" /\ HasTable(i)
        /\ Forward(createBMF(i, "TABLE_TRANSFER"))
        /\ UNCHANGED transfer
     \/ /\ transfer.at = "started"
        /\ Forward(createBMF(i, "TABLE_STOP"))
        /\ transfer' = NoTransfer
  /\ lost' = Lose({})
  /\ UNCHANGED sessions

\* The reports, by the status thread and the main thread; which session a
\* status is of is not asked.
Report(type) == Pass(createBMF(0, type))

-----------------------------------------------------------------------------
(* The XML thread's reading of it.                                         *)

GenUpdateWithdrawn(ps) == Section("withdraw", ps)
GenUpdateNlri(ps)      == Section("announce", ps)

\* The count of SNPAs is passed over, and the SNPAs are not.
GenBgpMPReach(a)   == <<GenUpdateNlri(IF a.misread # <<>> THEN a.misread ELSE a.prefixes)>>
GenBgpMPUnreach(a) == <<GenUpdateWithdrawn(a.prefixes)>>

\* Of the attributes only the multiprotocol ones print prefixes.
AttributeSections(a) == CASE a.type = "MP_REACH"   -> GenBgpMPReach(a)
                          [] a.type = "MP_UNREACH" -> GenBgpMPUnreach(a)
                          [] OTHER                 -> <<>>

GenUpdateAttributes(u) == FlattenSeq([i \in DOMAIN u.attributes |-> AttributeSections(u.attributes[i])])

\* The sections in the order in which they are printed.
GenBgpUpdate_ReachFirst(u) ==
  <<GenUpdateWithdrawn(u.withdrawn), GenUpdateNlri(u.nlri)>> \o GenUpdateAttributes(u)
GenBgpUpdate(u) ==
  <<GenUpdateWithdrawn(u.withdrawn)>> \o GenUpdateAttributes(u) \o <<GenUpdateNlri(u.nlri)>>

GenAsciiMsg(m) == IF m.update = <<>> THEN <<>> ELSE AllChanges(GenBgpUpdate(Head(m.update)))

\* Each prefix takes the next label, or what is behind the last one.
XmlNewChildPrefixes(m, printed) ==
  [i \in DOMAIN printed |->
     IF m.type # "LABELED" THEN "none" ELSE IF i \in DOMAIN m.labels THEN m.labels[i] ELSE "unknown"]

\* genPeeringNode: the peer of the session that has the ID now.  Reports name none.
GenPeering(m) == IF m.type \in Status THEN "none" ELSE sessions[m.sessionID].peer

\* The digits of a number, and what ceil(log10(n)) makes of them.
PowerOfTen(d) == <<1, 10, 100, 1000, 10000, 100000, 1000000, 10000000, 100000000, 1000000000>>[d + 1]

Digits(n) == CHOOSE d \in 1..9 : n < PowerOfTen(d) /\ (d = 1 \/ PowerOfTen(d - 1) <= n)
LengthDigits_Floor(n) == CHOOSE d \in 0..8 : PowerOfTen(d) <= n /\ n < PowerOfTen(d + 1)
LengthDigits(n) == CHOOSE d \in 0..9 : n <= PowerOfTen(d) /\ (d = 0 \/ PowerOfTen(d - 1) < n)

BodyLength(printed) == 4 + 2 * Len(printed)

\* The document is dumped with the size of the buffer for a length, and the
\* length of the dump, at least that wide, is put in its place.
StatedLength(printed)  == BodyLength(printed) + Digits(XML_BUFFER_LEN)
WrittenLength(printed) ==
  LET w == LengthDigits(XML_BUFFER_LEN)
      d == Digits(StatedLength(printed))
  IN BodyLength(printed) + (IF d > w THEN d ELSE w)

BMF2XMLDATA(m) ==
  LET printed == GenAsciiMsg(m)
  IN [type |-> m.type, peer |-> GenPeering(m), number |-> seq_num,
      printed |-> printed, labels |-> XmlNewChildPrefixes(m, printed),
      length |-> StatedLength(printed), size |-> WrittenLength(printed),
      closes |-> m.closes, sure |-> m.sure, sender |-> m.sender]

ToUpdates(m) == m.type \in {"TO_PEER", "LABELED", "FROM_PEER"} \cup Status
ToRib(m)     == m.type \in {"FSM_STATE_CHANGE"} \cup TableTypes \cup Status

NextNumber(n, m) == IF n # UINT_MAX THEN n + 1 ELSE 0

\* The session of a closing is freed once the message is out.
Freed(m) == IF m.closes THEN [sessions EXCEPT ![m.sessionID] = NoSession] ELSE sessions

XmlThread ==
  /\ labeledQueue # <<>>
  /\ LET m == Head(labeledQueue)
         x == BMF2XMLDATA(m) IN
     /\ xmlUQueue' = IF ToUpdates(m) THEN Append(xmlUQueue, x) ELSE xmlUQueue
     /\ xmlRQueue' = IF ToRib(m) THEN Append(xmlRQueue, x) ELSE xmlRQueue
     /\ seq_num' = NextNumber(seq_num, m)
     /\ sessions' = Freed(m)
  /\ labeledQueue' = Tail(labeledQueue)
  /\ UNCHANGED <<transfer, written, lost>>

FeedNext ==
  \/ \E i \in SessionIDs :
       \/ \E p \in Peer : SessionOpens(p, i)
       \/ \E u \in Update : ProcessBMF(i, u) \/ PassUpdate(i, u)
       \/ PassOther(i) \/ PassSent(i) \/ StateChange(i) \/ SessionCloses(i)
       \/ SetSessionLabelAction(i) \/ FindSession(i)
  \/ SendRibTable
  \/ \E type \in Reports : Report(type)
  \/ XmlThread

FeedSpec == FeedInit /\ [][FeedNext]_feedVars

-----------------------------------------------------------------------------
(* Properties.                                                             *)

Messages == ToSet(xmlUQueue) \cup ToSet(xmlRQueue)

\* What a reader takes out of a message.
GetMsgIdSeq(x)      == x.number
GetXMLMessageLen(x) == x.length

\* How many numbers are between the first and this one.
Position(x) == GetMsgIdSeq(x) - FirstNumber + (IF GetMsgIdSeq(x) < FirstNumber THEN UINT_MAX + 1 ELSE 0)

\* What a client makes of the tables when it reads a message.
Follow(tables, x) ==
  IF x.peer = "none" THEN tables
  ELSE [tables EXCEPT ![x.peer] = IF x.closes THEN {} ELSE Changing(@, x.printed)]

\* The tables before each number.
Followed(messages) ==
  LET before[k \in Nat] ==
        IF k = 0 THEN [p \in Peer |-> {}]
        ELSE IF \E x \in messages : Position(x) = k - 1
        THEN Follow(before[k - 1], CHOOSE x \in messages : Position(x) = k - 1)
        ELSE before[k - 1]
  IN before

Agrees(tables, x) ==
  /\ x.type \notin TableTypes => x.peer = x.sender
  /\ x.type = "LABELED" /\ x.sure => x.labels = Labels(tables[x.peer], x.printed)

\* ClientFollows: every message but those of a table transfer is under the
\* peer that it came from, though sessions are freed and their IDs used again.
\* And a client that puts the two queues together by number, drops a peer's
\* routes when its session closes and does what each prefix says has before
\* each change just the table that the change's label was made from, unless
\* since the session opened an update was applied in part and dropped, an
\* update with SNPAs was misread, an update or the last closing was skipped
\* on the full labeled queue, or the table was made by a command.
ClientFollows ==
  /\ \A x, y \in Messages : Position(x) = Position(y) => x = y
  /\ \A x \in Messages : Agrees(Followed(Messages)[Position(x)], x)

\* A client that reads as many bytes as each message says finds the next
\* message where it stops.
Framed == \A x \in Messages : GetXMLMessageLen(x) = x.size
=============================================================================
