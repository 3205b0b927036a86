------------------------ MODULE SessionLifeProofs ------------------------
(***************************************************************************)
(* Proofs about the life of sessions, for any number of peers, threads,    *)
(* slots and sessions and queues of any size.                              *)
(***************************************************************************)
EXTENDS SessionLife, WellFoundedInduction, TLAPS

(***************************************************************************)
(* The inductive invariant.  On its way from a peer's thread to the XML    *)
(* thread a message is in peerQ, then with the labeling thread, then in    *)
(* labeledQ, then with the XML thread.                                     *)
(***************************************************************************)

\* A thread that has found a slot names one.
SlotHeld == \A t \in Thread : pc[t] = "take" \/ Running(t) => i[t] \in Slot

BucketInTable == periodic.pc = "use" => periodic.i < TableSize

Types == TypeOK /\ SlotHeld /\ BucketInTable

\* The array holds sessions that were created, no session twice, and a freed
\* one only until the XML thread has cleared the slot.
SlotsInv ==
  /\ \A s \in Slot : Sessions[s] <= born
  /\ \A s, u \in Slot : Sessions[s] = Sessions[u] => s = u \/ Sessions[s] = NULL
  /\ \A s \in Slot : Sessions[s] # NULL /\ ~(xml.pc = "clear" /\ xml.bmf.sessionID = s)
                       => session[Sessions[s]].heap = "live"

\* Until the command line changes labels, a session that is labeled has tables,
\* and a thread's session is labeled as its peer is.
Labeled(n) == session[n].labelAction # "NoAction"
HasRib(n) == ~relabelled => (Labeled(n) => session[n].rib)
AsItsPeer(t) == ~relabelled => session[own[t]].labelAction = Peers[t[1]].labelAction

\* What tables a session still has, a label command has made.
Bare(n) == session[n].rib => session[n].remade

\* Threads that run have sessions of their own, in their slots.
OwnersInv ==
  /\ \A t \in Thread : Running(t) => /\ own[t] # NULL /\ Sessions[i[t]] = own[t]
                                     /\ HasRib(own[t]) /\ AsItsPeer(t)
  /\ \A t, u \in Thread : Running(t) /\ Running(u) /\ own[t] = own[u] => t = u

InPlace(m) == m.of # NULL /\ Sessions[m.sessionID] = m.of
Unowned(n) == \A t \in Thread : Running(t) => own[t] # n

\* The last message of session n is past the labeling thread, or with it.
AtXml(n) == xml.pc # "read" /\ xml.bmf.of = n
PastLabel(n) == AtXml(n) \/ \E k \in 1..Len(labeledQ) : Ends(labeledQ[k]) /\ labeledQ[k].of = n
OutOfPeerQ(n) == PastLabel(n) \/ (label.pc = "forward" /\ Ends(label.bmf) /\ label.bmf.of = n)

\* The messages that matter in each place: their session is in its slot, and
\* no last message of that session is ahead of them.
PeerQInv == \A j \in 1..Len(peerQ) :
  /\ Ends(peerQ[j]) => Unowned(peerQ[j].of)
  /\ peerQ[j].type = "UPDATE" => HasRib(peerQ[j].of)
  /\ Ends(peerQ[j]) \/ peerQ[j].type = "UPDATE" =>
       /\ InPlace(peerQ[j])
       /\ ~OutOfPeerQ(peerQ[j].of)
       /\ \A k \in 1..(j - 1) : Ends(peerQ[k]) => peerQ[k].of # peerQ[j].of

LabelInv ==
  /\ label.pc = "apply" => /\ label.bmf.type = "UPDATE" /\ label.used = label.bmf.of
                           /\ InPlace(label.bmf) /\ HasRib(label.bmf.of)
                           /\ ~relabelled => Labeled(label.bmf.of)
                           /\ ~PastLabel(label.bmf.of)
  /\ label.pc = "forward" /\ Ends(label.bmf) => /\ InPlace(label.bmf) /\ Unowned(label.bmf.of)
                                                /\ ~PastLabel(label.bmf.of)

LabeledQInv == \A j \in 1..Len(labeledQ) : Ends(labeledQ[j]) =>
  /\ InPlace(labeledQ[j]) /\ Unowned(labeledQ[j].of) /\ Bare(labeledQ[j].of)
  /\ ~AtXml(labeledQ[j].of)
  /\ \A k \in 1..(j - 1) : Ends(labeledQ[k]) => labeledQ[k].of # labeledQ[j].of

XmlInv == xml.pc # "read" =>
  Ends(xml.bmf) /\ InPlace(xml.bmf) /\ Unowned(xml.bmf.of) /\ Bare(xml.bmf.of)

Safe == SlotsInv /\ OwnersInv /\ PeerQInv /\ LabelInv /\ LabeledQInv /\ XmlInv
IInv == Types /\ (~collided => Safe)
----------------------------------------------------------------------------
(* Queues and messages.                                                    *)

\* A queue that is written to keeps all of its messages or none, in front of
\* the new one.
LEMMA PutMessage ==
  ASSUME SessionLifeAssumption, NEW q \in Seq(Message), Len(q) <= QueueSize, NEW m \in Message
  PROVE  /\ Put(q, m) \in Seq(Message)
         /\ Len(Put(q, m)) \in 1..QueueSize
         /\ Put(q, m)[Len(Put(q, m))] = m
         /\ \A k \in 1..(Len(Put(q, m)) - 1) : k \in 1..Len(q) /\ Put(q, m)[k] = q[k]
<1>1. QueueSize \in Nat \ {0}
  BY DEF SessionLifeAssumption
<1>2. CASE Len(q) = QueueSize
  <2>1. Put(q, m) = <<m>>
    BY <1>2 DEF Put
  <2> QED BY <1>1, <2>1
<1>3. CASE Len(q) # QueueSize
  <2>1. Put(q, m) = Append(q, m)
    BY <1>3 DEF Put
  <2> QED BY <1>1, <1>3, <2>1
<1> QED BY <1>2, <1>3

\* A queue that is read loses its first message.
LEMMA TakeMessage ==
  ASSUME NEW q \in Seq(Message), q # <<>>
  PROVE  /\ Tail(q) \in Seq(Message) /\ Len(Tail(q)) = Len(q) - 1
         /\ 1 \in 1..Len(q) /\ Head(q) = q[1] /\ Head(q) \in Message
         /\ \A k \in 1..Len(Tail(q)) : k + 1 \in 1..Len(q) /\ Tail(q)[k] = q[k + 1]
OBVIOUS

\* The first of the slots that the route refresh thread has listed.
LEMMA FirstSlot ==
  ASSUME SessionLifeAssumption, NEW list \in SUBSET Slot, list # {}
  PROVE  (CHOOSE k \in list : \A j \in list : k <= j) \in list
<1>1. MAX_SESSION_IDS \in Nat \ {0}
  BY DEF SessionLifeAssumption
<1>2. list \subseteq Nat
  BY <1>1 DEF Slot
<1>3. PICK k \in list : \A j \in list : ~(<<j, k>> \in OpToRel(<, Nat))
  BY <1>2, WFMin, NatLessThanWellFounded, Zenon
<1>4. \A j \in list : ~(j < k)
  BY <1>2, <1>3 DEF OpToRel
<1>5. \A j \in list : k <= j
  BY <1>2, <1>4
<1> QED BY <1>5

\* The messages there are.
LEMMA Messages ==
  ASSUME SessionLifeAssumption
  PROVE  /\ NoMessage \in Message
         /\ \A s \in Slot : Table(s) \in Message
         /\ \A s \in Slot, n \in Born \cup {NULL} : Update(s, n) \in Message
         /\ \A s \in Slot, n \in Born \cup {NULL}, x, y \in State : Change(s, x, y, n) \in Message
<1>1. 0 \in Slot
  BY DEF SessionLifeAssumption, Slot
<1> QED BY <1>1 DEF NoMessage, Table, Update, Change, Message, Kind, State

----------------------------------------------------------------------------
(* Structures.                                                             *)

LEMMA StructureFields ==
  ASSUME NEW r \in Structure
  PROVE  /\ \A x \in {"none", "live", "freed"} : [r EXCEPT !.heap = x] \in Structure
         /\ \A x \in State : [r EXCEPT !.state = x] \in Structure
         /\ \A x \in Action : [r EXCEPT !.labelAction = x] \in Structure
         /\ \A x \in BOOLEAN : [r EXCEPT !.rib = x, !.remade = x] \in Structure
         /\ \A x \in BOOLEAN : [r EXCEPT !.reconnectFlag = x] \in Structure
         /\ \A x \in BOOLEAN : [r EXCEPT !.routeRefreshFlag = x] \in Structure
         /\ \A x \in BOOLEAN : [r EXCEPT !.retried = x] \in Structure
BY DEF Structure

\* Two structures that differ in nothing but the state machine's affairs.
Alike(r, s) == /\ r.heap = s.heap /\ r.rib = s.rib /\ r.remade = s.remade
               /\ r.labelAction = s.labelAction

LEMMA ResetStructure ==
  ASSUME NEW r \in Structure
  PROVE  Reset(r) \in Structure /\ Alike(Reset(r), r)
<1>1. "Idle" \in State
  BY DEF State
<1> QED BY <1>1 DEF Structure, Reset, Alike

LEMMA SetStructure ==
  ASSUME SessionTypes, NEW n \in Born, NEW r \in Structure,
         session' = [session EXCEPT ![n] = r]
  PROVE  /\ session' \in [Born -> Structure]
         /\ session'[n] = r
         /\ \A m \in Born : m # n => session'[m] = session[m]
BY DEF SessionTypes

LEMMA SetAlike ==
  ASSUME SessionTypes, NEW n \in Born, NEW r \in Structure, Alike(r, session[n]),
         session' = [session EXCEPT ![n] = r]
  PROVE  /\ session' \in [Born -> Structure]
         /\ \A m \in Born : Alike(session'[m], session[m])
BY SetStructure DEF Alike

\* A label action of sessions and tables that follow it.
LEMMA RelabeledStructure ==
  ASSUME NEW r \in Structure, NEW a \in Action
  PROVE  /\ WithLabelAction(r, a) \in Structure
         /\ WithLabelAction(r, a).heap = r.heap /\ WithLabelAction(r, a).labelAction = a
         /\ a = r.labelAction => /\ WithLabelAction(r, a).rib = r.rib
                                 /\ WithLabelAction(r, a).remade = r.remade
         /\ (r.rib => r.remade) => (WithLabelAction(r, a).rib => WithLabelAction(r, a).remade)
BY DEF Structure, WithLabelAction, MakesTables, Action

\* What a thread holds.
LEMMA HeldTypes ==
  ASSUME Types, NEW t \in Thread, Running(t), Held(t) # NULL
  PROVE  i[t] \in Slot /\ Held(t) \in Born /\ session[Held(t)] \in Structure
BY DEF Types, TypeOK, SessionTypes, SlotHeld, Held

LEMMA CleanupAlike ==
  ASSUME SessionTypes, NEW t \in Thread, Held(t) \in Born, CleanupSession(t)
  PROVE  session' \in [Born -> Structure] /\ \A m \in Born : Alike(session'[m], session[m])
<1> DEFINE q == session[Held(t)]
           r == [Reset(q) EXCEPT !.reconnectFlag = FALSE]
<1>1. q \in Structure
  BY DEF SessionTypes
<1>2. r \in Structure /\ Alike(r, session[Held(t)])
  <2>1. ASSUME NEW s \in Structure
        PROVE  [s EXCEPT !.reconnectFlag = FALSE] \in Structure
               /\ Alike([s EXCEPT !.reconnectFlag = FALSE], s)
    BY DEF Alike, Structure
  <2>2. Reset(q) \in Structure /\ Alike(Reset(q), q)
    BY <1>1, ResetStructure
  <2>3. r \in Structure /\ Alike(r, Reset(q))
    BY <2>1, <2>2
  <2> QED BY <2>2, <2>3 DEF Alike
<1>3. session' = [session EXCEPT ![Held(t)] = r]
  BY DEF CleanupSession
<1> QED BY <1>2, <1>3, SetAlike

LEMMA RunFsmAlike ==
  ASSUME SessionTypes, NEW t \in Thread, Held(t) \in Born, RunFsm(t)
  PROVE  session' \in [Born -> Structure] /\ \A m \in Born : Alike(session'[m], session[m])
<1> DEFINE q == session[Held(t)]
<1>1. q \in Structure
  BY DEF SessionTypes
<1>2. PICK to \in State, update \in BOOLEAN :
        session' = [session EXCEPT ![Held(t)] = Moved(q, oldState[t], to, update)]
  BY DEF RunFsm
<1>3. Moved(q, oldState[t], to, update) \in Structure /\ Alike(Moved(q, oldState[t], to, update), q)
  BY <1>1, ResetStructure DEF Moved, Structure, Alike
<1> QED BY <1>2, <1>3, SetAlike

LEMMA SendRouteRefreshAlike ==
  ASSUME SessionTypes, NEW t \in Thread, Held(t) \in Born, SendRouteRefresh(t)
  PROVE  session' \in [Born -> Structure] /\ \A m \in Born : Alike(session'[m], session[m])
<1> DEFINE q == session[Held(t)]
           f == [q EXCEPT !.routeRefreshFlag = FALSE]
<1>1. q \in Structure
  BY DEF SessionTypes
<1>2. f \in Structure /\ Alike(f, q)
  BY <1>1 DEF Structure, Alike
<1>3. Reset(f) \in Structure /\ Alike(Reset(f), q)
  BY <1>2, ResetStructure DEF Alike
<1>4. PICK sent \in BOOLEAN : session' = [session EXCEPT ![Held(t)] =
         LET x == [@ EXCEPT !.routeRefreshFlag = FALSE] IN IF sent THEN x ELSE Reset(x)]
  BY DEF SendRouteRefresh
<1>5. session' = [session EXCEPT ![Held(t)] = IF sent THEN f ELSE Reset(f)]
  BY <1>4, Zenon
<1> HIDE DEF f
<1> QED BY <1>2, <1>3, <1>5, SetAlike

LEMMA ReconnectAlike ==
  ASSUME SessionTypes, PeerTypes, NEW p \in Peer, ReconnectPeer(p)
  PROVE  session' \in [Born -> Structure] /\ \A m \in Born : Alike(session'[m], session[m])
<1> DEFINE n == Sessions[Peers[p].sessionID]
           r == [session[n] EXCEPT !.reconnectFlag = TRUE]
<1>1. Peers[p].sessionID \in Slot
  BY DEF PeerTypes, Configuration, ReconnectPeer
<1>2. n \in Born
  BY <1>1 DEF SessionTypes, ReconnectPeer
<1>3. session[n] \in Structure
  BY <1>2 DEF SessionTypes
<1>4. r \in Structure /\ Alike(r, session[n])
  BY <1>3 DEF Structure, Alike
<1>5. session' = [session EXCEPT ![n] = r]
  BY DEF ReconnectPeer
<1> HIDE DEF n, r
<1> QED BY <1>2, <1>4, <1>5, SetAlike

LEMMA TransferFlagAlike ==
  ASSUME SessionTypes, ReaderTypes, TransferFlag
  PROVE  session' \in [Born -> Structure] /\ \A m \in Born : Alike(session'[m], session[m])
<1> DEFINE n == Sessions[periodic.sessionID]
           r == [session[n] EXCEPT !.routeRefreshFlag = TRUE]
<1>1. CASE UNCHANGED session
  BY <1>1 DEF SessionTypes, Alike
<1>2. CASE n # NULL /\ session' = [session EXCEPT ![n] = r]
  <2>1. n \in Born
    BY <1>2 DEF SessionTypes, ReaderTypes, Refresher
  <2>2. session[n] \in Structure
    BY <2>1 DEF SessionTypes
  <2>3. r \in Structure /\ Alike(r, session[n])
    BY <2>2 DEF Structure, Alike
  <2> HIDE DEF n, r
  <2> QED BY <1>2, <2>1, <2>3, SetAlike
<1> QED BY <1>1, <1>2 DEF TransferFlag

LEMMA TakeConfigEffect ==
  ASSUME SessionTypes, PeerTypes, NEW t \in Thread, Held(t) \in Born, TakeConfig(t)
  PROVE  /\ session' \in [Born -> Structure]
         /\ \A m \in Born : /\ session'[m].heap = session[m].heap
                            /\ session'[m].rib = session[m].rib
                            /\ session'[m].remade = session[m].remade
         /\ \A m \in Born : m # Held(t) => session'[m].labelAction = session[m].labelAction
         /\ session'[Held(t)].labelAction
              \in {session[Held(t)].labelAction, Peers[t[1]].labelAction}
<1> DEFINE a == Peers[t[1]].labelAction
           r == [session[Held(t)] EXCEPT !.labelAction = a]
<1>1. a \in Action
  BY DEF PeerTypes, Configuration, Thread
<1>2. session[Held(t)] \in Structure
  BY DEF SessionTypes
<1>3. r \in Structure /\ r.heap = session[Held(t)].heap /\ r.rib = session[Held(t)].rib
        /\ r.remade = session[Held(t)].remade /\ r.labelAction = a
  BY <1>1, <1>2 DEF Structure
<1>4. UNCHANGED session \/ session' = [session EXCEPT ![Held(t)] = r]
  BY DEF TakeConfig
<1> HIDE DEF r
<1> QED BY <1>3, <1>4, SetStructure DEF SessionTypes

LEMMA RelabelEffect ==
  ASSUME SessionTypes, PeerTypes, NEW t \in Thread, Held(t) \in Born, Relabel(t)
  PROVE  /\ session' \in [Born -> Structure]
         /\ \A m \in Born : session'[m].heap = session[m].heap
         /\ session'[Held(t)].labelAction
              \in {session[Held(t)].labelAction, Peers[t[1]].labelAction}
         /\ \A m \in Born : m # Held(t) => session'[m] = session[m]
         /\ session[Held(t)].labelAction = Peers[t[1]].labelAction
              => /\ session'[Held(t)].rib = session[Held(t)].rib
                 /\ session'[Held(t)].remade = session[Held(t)].remade
<1> DEFINE a == Peers[t[1]].labelAction
           r == WithLabelAction(session[Held(t)], a)
<1>1. a \in Action
  BY DEF PeerTypes, Configuration, Thread
<1>2. session[Held(t)] \in Structure
  BY DEF SessionTypes
<1>3. UNCHANGED session \/ session' = [session EXCEPT ![Held(t)] = r]
  BY DEF Relabel
<1>4. /\ r \in Structure /\ r.heap = session[Held(t)].heap /\ r.labelAction = a
      /\ a = session[Held(t)].labelAction => /\ r.rib = session[Held(t)].rib
                                             /\ r.remade = session[Held(t)].remade
  BY <1>1, <1>2, RelabeledStructure
<1> HIDE DEF r, a
<1>5. CASE UNCHANGED session
  BY <1>5 DEF SessionTypes
<1>6. CASE session' = [session EXCEPT ![Held(t)] = r]
  BY <1>4, <1>6, SetStructure DEF a
<1> QED BY <1>3, <1>5, <1>6

LEMMA SetPeerLabelActionEffect ==
  ASSUME SessionTypes, PeerTypes, NEW p \in Peer, NEW a \in Action, SetPeerLabelAction(p, a)
  PROVE  /\ session' \in [Born -> Structure]
         /\ \A m \in Born : session'[m].heap = session[m].heap
         /\ \A m \in Born : Bare(m) => (session'[m].rib => session'[m].remade)
<1> DEFINE n == Sessions[Peers[p].sessionID]
           r == WithLabelAction(session[n], a)
<1>1. CASE UNCHANGED session
  BY <1>1 DEF SessionTypes, Bare
<1>2. CASE /\ Peers[p].labelAction # "NoAction" /\ Peers[p].sessionID # NoSlot
           /\ n # NULL /\ session' = [session EXCEPT ![n] = r]
  <2>1. n \in Born
    BY <1>2 DEF SessionTypes, PeerTypes, Configuration
  <2>2. session[n] \in Structure
    BY <2>1 DEF SessionTypes
  <2>4. r \in Structure /\ r.heap = session[n].heap /\ (Bare(n) => (r.rib => r.remade))
    BY <2>2, RelabeledStructure DEF Bare
  <2> HIDE DEF n, r
  <2> QED BY <1>2, <2>1, <2>4, SetStructure DEF Bare
<1> QED BY <1>1, <1>2 DEF SetPeerLabelAction

LEMMA LabelForwardEffect ==
  ASSUME SessionTypes, ReaderTypes, LabelForward
  PROVE  /\ session' \in [Born -> Structure]
         /\ \A m \in Born : /\ session'[m].heap = session[m].heap
                            /\ session'[m].labelAction = session[m].labelAction
                            /\ Bare(m) => (session'[m].rib => session'[m].remade)
         /\ \A m \in Born : ~(Ends(label.bmf) /\ m = Sessions[label.bmf.sessionID])
                              => session'[m].rib = session[m].rib
         /\ Ends(label.bmf) => /\ Sessions[label.bmf.sessionID] \in Born
                               /\ ~session'[Sessions[label.bmf.sessionID]].rib
<1> DEFINE n == Sessions[label.bmf.sessionID]
           r == [session[n] EXCEPT !.rib = FALSE, !.remade = FALSE]
<1>1. CASE ~Ends(label.bmf)
  BY <1>1 DEF LabelForward, SessionTypes, Structure, Bare
<1>2. CASE Ends(label.bmf)
  <2>1. n # NULL /\ session' = [session EXCEPT ![n].rib = FALSE, ![n].remade = FALSE]
    BY <1>2 DEF LabelForward
  <2>2. label.bmf.sessionID \in Slot
    BY DEF ReaderTypes, Refresher, Message
  <2>3. n \in Born
    BY <2>1, <2>2 DEF SessionTypes
  <2>4. session[n] \in Structure
    BY <2>3 DEF SessionTypes
  <2>5. r \in Structure /\ r.heap = session[n].heap /\ r.labelAction = session[n].labelAction
          /\ ~r.rib
    BY <2>4 DEF Structure
  <2>6. session' = [session EXCEPT ![n] = r]
    BY <2>1, <2>3 DEF SessionTypes
  <2> HIDE DEF r
  <2> QED BY <1>2, <2>3, <2>5, <2>6, SetStructure DEF Bare
<1> QED BY <1>1, <1>2

LEMMA XmlDestroyEffect ==
  ASSUME SessionTypes, ReaderTypes, XmlDestroy
  PROVE  /\ session' \in [Born -> Structure]
         /\ Sessions[xml.bmf.sessionID] \in Born
         /\ \A m \in Born : /\ session'[m].labelAction = session[m].labelAction
                            /\ session'[m].rib = session[m].rib
                            /\ session'[m].remade = session[m].remade
         /\ \A m \in Born : m # Sessions[xml.bmf.sessionID]
                              => session'[m].heap = session[m].heap
<1> DEFINE n == Sessions[xml.bmf.sessionID]
           r == [session[n] EXCEPT !.heap = "freed"]
<1>1. n # NULL /\ session' = [session EXCEPT ![n] = r]
  BY DEF XmlDestroy
<1>2. xml.bmf.sessionID \in Slot
  BY DEF ReaderTypes, Refresher, Message
<1>3. n \in Born
  BY <1>1, <1>2 DEF SessionTypes
<1>4. session[n] \in Structure
  BY <1>3 DEF SessionTypes
<1>5. r \in Structure /\ r.rib = session[n].rib /\ r.remade = session[n].remade
        /\ r.labelAction = session[n].labelAction
  BY <1>4 DEF Structure
<1> HIDE DEF r
<1> QED BY <1>1, <1>3, <1>5, SetStructure

----------------------------------------------------------------------------
(* Types.                                                                  *)

LEMMA InitTypes == SessionLifeAssumption /\ Init => Types
<1> SUFFICES ASSUME SessionLifeAssumption, Init PROVE Types
  OBVIOUS
<1>0. 0 \in Slot /\ 0 \in 0..MAX_SESSION_IDS /\ 0 \in 0..MaxBorn /\ 0 \in 0..TableSize /\ 0 \in 0..MaxEvents
  BY SessionLifeAssumption DEF Slot, SessionLifeAssumption
<1>1. ThreadTypes
  BY <1>0 DEF Init, ThreadTypes, State, NULL
<1>2. SessionTypes
  <2>1. session \in [Born -> Structure]
    BY DEF Init, Structure, State, Action
  <2> QED BY <1>0, <2>1 DEF Init, SessionTypes, NULL
<1>3. PeerTypes
  BY <1>0 DEF Init, PeerTypes, Configuration, Action
<1>4. QueueTypes
  BY DEF Init, QueueTypes, SessionLifeAssumption
<1>5. ReaderTypes
  BY <1>0, Messages DEF Init, ReaderTypes, Refresher, NULL
<1>6. SlotHeld /\ BucketInTable
  BY DEF Init, SlotHeld, BucketInTable, Running
<1> QED BY <1>1, <1>2, <1>3, <1>4, <1>5, <1>6 DEF Types, TypeOK

\* What is written to a queue.
LEMMA WriteTypes ==
  ASSUME SessionLifeAssumption, QueueTypes, NEW m \in Message
  PROVE  /\ WritePeerQ(m) => QueueTypes'
         /\ WriteLabeledQ(m) /\ UNCHANGED peerQ => QueueTypes'
<1>1. ASSUME NEW q \in Seq(Message) PROVE Dropped(q) \subseteq Born \cup {NULL}
  <2>1. \A k \in 1..Len(q) : q[k] \in Message
    OBVIOUS
  <2>2. \A k \in 1..Len(q) : q[k].of \in Born \cup {NULL}
    BY <2>1 DEF Message
  <2> QED BY <2>2 DEF Dropped
<1>2. WritePeerQ(m) => QueueTypes'
  <2> SUFFICES ASSUME WritePeerQ(m) PROVE QueueTypes'
    OBVIOUS
  <2>1. peerQ' \in Seq(Message) /\ Len(peerQ') <= QueueSize
    BY PutMessage DEF WritePeerQ, QueueTypes, SessionLifeAssumption
  <2> QED BY <1>1, <2>1 DEF WritePeerQ, QueueTypes
<1>3. WriteLabeledQ(m) /\ UNCHANGED peerQ => QueueTypes'
  <2> SUFFICES ASSUME WriteLabeledQ(m), UNCHANGED peerQ PROVE QueueTypes'
    OBVIOUS
  <2>1. labeledQ' \in Seq(Message) /\ Len(labeledQ') <= QueueSize
    BY PutMessage DEF WriteLabeledQ, QueueTypes, SessionLifeAssumption
  <2> QED BY <1>1, <2>1 DEF WriteLabeledQ, QueueTypes
<1> QED BY <1>2, <1>3

LEMMA ScanSlotTypes ==
  ASSUME SessionLifeAssumption, Types, NEW t \in Thread, ScanSlot(t)
  PROVE  Types'
<1> USE DEF Types, TypeOK
<1>1. SessionTypes' /\ PeerTypes' /\ QueueTypes' /\ ReaderTypes'
  BY DEF ScanSlot, SessionTypes, PeerTypes, Configuration, QueueTypes, ReaderTypes, Refresher, sessionVars, peerVars, queueVars
<1>2. ThreadTypes'
  BY SessionLifeAssumption DEF ScanSlot, ThreadTypes, Goto, Thread, Slot, SessionLifeAssumption
<1>3. SlotHeld'
  BY DEF ScanSlot, SlotHeld, Running, ThreadTypes, threadVars, Goto, Thread
<1>4. BucketInTable'
  BY DEF ScanSlot, BucketInTable, ReaderTypes, Refresher
<1> QED BY <1>1, <1>2, <1>3, <1>4

LEMMA TakeSlotTypes ==
  ASSUME SessionLifeAssumption, Types, NEW t \in Thread, TakeSlot(t)
  PROVE  Types'
<1> USE DEF Types, TypeOK
<1>1. PeerTypes' /\ QueueTypes' /\ ReaderTypes'
  BY DEF TakeSlot, PeerTypes, Configuration, QueueTypes, ReaderTypes, Refresher, peerVars, queueVars
<1>2. ThreadTypes'
  BY SessionLifeAssumption DEF TakeSlot, ThreadTypes, Goto, Thread, SessionTypes, Born, SessionLifeAssumption
<1>3. SessionTypes'
  BY SessionLifeAssumption DEF TakeSlot, SessionTypes, Structure, SlotHeld, PeerTypes, Configuration, Born, Thread, State, SessionLifeAssumption
<1>4. SlotHeld'
  BY DEF TakeSlot, SlotHeld, Running, ThreadTypes, threadVars, Goto, Thread
<1>5. BucketInTable'
  BY DEF TakeSlot, BucketInTable, ReaderTypes, Refresher
<1> QED BY <1>1, <1>2, <1>3, <1>4, <1>5

LEMMA TakeFailsTypes ==
  ASSUME SessionLifeAssumption, Types, NEW t \in Thread, TakeFails(t)
  PROVE  Types'
<1> USE DEF Types, TypeOK
<1>1. SessionTypes' /\ PeerTypes' /\ QueueTypes' /\ ReaderTypes'
  BY DEF TakeFails, SessionTypes, PeerTypes, Configuration, QueueTypes, ReaderTypes, Refresher, sessionVars, peerVars, queueVars
<1>2. ThreadTypes'
  BY DEF TakeFails, ThreadTypes, Goto, Thread
<1>3. SlotHeld'
  BY DEF TakeFails, SlotHeld, Running, ThreadTypes, threadVars, Goto, Thread
<1>4. BucketInTable'
  BY DEF TakeFails, BucketInTable, ReaderTypes, Refresher
<1> QED BY <1>1, <1>2, <1>3, <1>4

LEMMA LoopTopTypes ==
  ASSUME SessionLifeAssumption, Types, NEW t \in Thread, Held(t) # NULL, LoopTop(t)
  PROVE  Types'
<1> USE DEF Types, TypeOK
<1>h. i[t] \in Slot /\ Held(t) \in Born /\ session[Held(t)] \in Structure
  BY HeldTypes DEF LoopTop, Running
<1>1. SessionTypes' /\ QueueTypes' /\ ReaderTypes'
  BY DEF LoopTop, SessionTypes, QueueTypes, ReaderTypes, Refresher, sessionVars, queueVars
<1>2. ThreadTypes'
  BY <1>h DEF LoopTop, ThreadTypes, Goto, Thread, SessionTypes, Structure
<1>3. PeerTypes'
  <2>1. t[1] \in Peer
    BY DEF Thread
  <2>2. \/ UNCHANGED peerVars
        \/ /\ Peers' = [Peers EXCEPT ![t[1]].sessionID = i[t]]
           /\ UNCHANGED <<events, relabelled>>
    BY DEF LoopTop, peerVars
  <2>3. [Peers EXCEPT ![t[1]].sessionID = i[t]] \in [Peer -> Configuration]
    BY <1>h, <2>1 DEF PeerTypes, Configuration
  <2> QED BY <2>2, <2>3 DEF PeerTypes, Configuration, peerVars
<1>4. SlotHeld'
  BY DEF LoopTop, SlotHeld, Running, ThreadTypes, threadVars, Goto, Thread
<1>5. BucketInTable'
  BY DEF LoopTop, BucketInTable, ReaderTypes, Refresher
<1> QED BY <1>1, <1>2, <1>3, <1>4, <1>5

LEMMA RunFsmTypes ==
  ASSUME SessionLifeAssumption, Types, NEW t \in Thread, Held(t) # NULL, RunFsm(t)
  PROVE  Types'
<1> USE DEF Types, TypeOK
<1>h. i[t] \in Slot /\ Held(t) \in Born /\ session[Held(t)] \in Structure
  BY HeldTypes DEF RunFsm, Running
<1>1. PeerTypes' /\ ReaderTypes'
  BY DEF RunFsm, PeerTypes, Configuration, ReaderTypes, Refresher, peerVars
<1>e. session' \in [Born -> Structure]
      /\ \A m \in Born : session'[m].labelAction = session[m].labelAction
  BY <1>h, RunFsmAlike DEF Alike
<1>2. ThreadTypes'
  BY DEF RunFsm, Reset, ThreadTypes, Goto, Thread
<1>3. SessionTypes'
  BY <1>e DEF RunFsm, SessionTypes, State
<1>4. QueueTypes'
  <2>1. CASE UNCHANGED queueVars
    BY <2>1 DEF QueueTypes, queueVars
  <2>2. CASE WritePeerQ(Update(i[t], own[t]))
    BY <2>2, <1>h, Messages, WriteTypes DEF ThreadTypes
  <2> QED BY <2>1, <2>2 DEF RunFsm
<1>5. SlotHeld'
  BY DEF RunFsm, Reset, SlotHeld, Running, ThreadTypes, threadVars, Goto, Thread
<1>6. BucketInTable'
  BY DEF RunFsm, BucketInTable, ReaderTypes, Refresher
<1> QED BY <1>1, <1>2, <1>3, <1>4, <1>5, <1>6

LEMMA GiveUpTypes ==
  ASSUME SessionLifeAssumption, Types, NEW t \in Thread, Held(t) # NULL, GiveUp(t)
  PROVE  Types'
<1> USE DEF Types, TypeOK
<1>h. i[t] \in Slot /\ Held(t) \in Born /\ session[Held(t)] \in Structure
  BY HeldTypes DEF GiveUp, Running
<1>1. PeerTypes' /\ ReaderTypes'
  BY DEF GiveUp, PeerTypes, Configuration, ReaderTypes, Refresher, peerVars
<1>e. session' \in [Born -> Structure]
      /\ \A m \in Born : session'[m].labelAction = session[m].labelAction
  BY <1>h, CleanupAlike DEF GiveUp, Alike
<1>2. ThreadTypes'
  BY SessionLifeAssumption DEF GiveUp, CleanupSession, Reset, ThreadTypes, Goto, Thread, SessionLifeAssumption
<1>3. SessionTypes'
  <2>1. session[Held(t)].state \in State
    BY <1>h DEF Structure
  <2> QED BY <1>e, <2>1 DEF GiveUp, CleanupSession, SessionTypes
<1>4. QueueTypes'
  BY <1>h, Messages, WriteTypes DEF GiveUp, CleanupSession, Reset, QueueTypes, ThreadTypes, Structure, State
<1>5. SlotHeld'
  BY DEF GiveUp, CleanupSession, Reset, SlotHeld, Running, ThreadTypes, threadVars, Goto, Thread
<1>6. BucketInTable'
  BY DEF GiveUp, BucketInTable, ReaderTypes, Refresher
<1> QED BY <1>1, <1>2, <1>3, <1>4, <1>5, <1>6

LEMMA AnnounceChangeTypes ==
  ASSUME SessionLifeAssumption, Types, NEW t \in Thread, Held(t) # NULL, AnnounceChange(t)
  PROVE  Types'
<1> USE DEF Types, TypeOK
<1>h. i[t] \in Slot /\ Held(t) \in Born /\ session[Held(t)] \in Structure
  BY HeldTypes DEF AnnounceChange, Running
<1>1. SessionTypes' /\ PeerTypes' /\ ReaderTypes'
  BY DEF AnnounceChange, SessionTypes, PeerTypes, Configuration, ReaderTypes, Refresher, sessionVars, peerVars
<1>2. ThreadTypes'
  BY DEF AnnounceChange, ThreadTypes, Goto, Thread
<1>3. QueueTypes'
  <2>1. CASE UNCHANGED queueVars
    BY <2>1 DEF QueueTypes, queueVars
  <2>2. CASE WritePeerQ(Change(i[t], oldState[t], session[Held(t)].state, own[t]))
    BY <2>2, <1>h, Messages, WriteTypes DEF ThreadTypes, Structure
  <2> QED BY <2>1, <2>2 DEF AnnounceChange
<1>4. SlotHeld'
  BY DEF AnnounceChange, SlotHeld, Running, ThreadTypes, threadVars, Goto, Thread
<1>5. BucketInTable'
  BY DEF AnnounceChange, BucketInTable, ReaderTypes, Refresher
<1> QED BY <1>1, <1>2, <1>3, <1>4, <1>5

LEMMA TakeConfigTypes ==
  ASSUME SessionLifeAssumption, Types, NEW t \in Thread, Held(t) # NULL, TakeConfig(t)
  PROVE  Types'
<1> USE DEF Types, TypeOK
<1>h. i[t] \in Slot /\ Held(t) \in Born /\ session[Held(t)] \in Structure
  BY HeldTypes DEF TakeConfig, Running
<1>1. PeerTypes' /\ QueueTypes' /\ ReaderTypes'
  BY DEF TakeConfig, PeerTypes, Configuration, QueueTypes, ReaderTypes, Refresher, peerVars, queueVars
<1>e. session' \in [Born -> Structure]
  BY <1>h, TakeConfigEffect DEF Alike
<1>2. ThreadTypes'
  BY DEF TakeConfig, ThreadTypes, Goto, Thread
<1>3. SessionTypes'
  BY <1>e DEF TakeConfig, SessionTypes, State
<1>4. SlotHeld'
  BY DEF TakeConfig, SlotHeld, Running, ThreadTypes, threadVars, Goto, Thread
<1>5. BucketInTable'
  BY DEF TakeConfig, BucketInTable, ReaderTypes, Refresher
<1> QED BY <1>1, <1>2, <1>3, <1>4, <1>5

LEMMA RelabelTypes ==
  ASSUME SessionLifeAssumption, Types, NEW t \in Thread, Held(t) # NULL, Relabel(t)
  PROVE  Types'
<1> USE DEF Types, TypeOK
<1>h. i[t] \in Slot /\ Held(t) \in Born /\ session[Held(t)] \in Structure
  BY HeldTypes DEF Relabel, Running
<1>1. PeerTypes' /\ QueueTypes' /\ ReaderTypes'
  BY DEF Relabel, PeerTypes, Configuration, QueueTypes, ReaderTypes, Refresher, peerVars, queueVars
<1>e. session' \in [Born -> Structure]
  BY <1>h, RelabelEffect DEF Alike
<1>2. ThreadTypes'
  BY DEF Relabel, WithLabelAction, ThreadTypes, Goto, Thread
<1>3. SessionTypes'
  BY <1>e DEF Relabel, SessionTypes, State
<1>4. SlotHeld'
  BY DEF Relabel, WithLabelAction, SlotHeld, Running, ThreadTypes, threadVars, Goto, Thread
<1>5. BucketInTable'
  BY DEF Relabel, BucketInTable, ReaderTypes, Refresher
<1> QED BY <1>1, <1>2, <1>3, <1>4, <1>5

LEMMA SendRouteRefreshTypes ==
  ASSUME SessionLifeAssumption, Types, NEW t \in Thread, Held(t) # NULL, SendRouteRefresh(t)
  PROVE  Types'
<1> USE DEF Types, TypeOK
<1>h. i[t] \in Slot /\ Held(t) \in Born /\ session[Held(t)] \in Structure
  BY HeldTypes DEF SendRouteRefresh, Running
<1>1. PeerTypes' /\ QueueTypes' /\ ReaderTypes'
  BY DEF SendRouteRefresh, PeerTypes, Configuration, QueueTypes, ReaderTypes, Refresher, peerVars, queueVars
<1>e. session' \in [Born -> Structure]
      /\ \A m \in Born : session'[m].labelAction = session[m].labelAction
  BY <1>h, SendRouteRefreshAlike DEF Alike
<1>2. ThreadTypes'
  BY DEF SendRouteRefresh, Reset, ThreadTypes, Goto, Thread
<1>3. SessionTypes'
  BY <1>e DEF SendRouteRefresh, SessionTypes, State
<1>4. SlotHeld'
  BY DEF SendRouteRefresh, Reset, SlotHeld, Running, ThreadTypes, threadVars, Goto, Thread
<1>5. BucketInTable'
  BY DEF SendRouteRefresh, BucketInTable, ReaderTypes, Refresher
<1> QED BY <1>1, <1>2, <1>3, <1>4, <1>5

LEMMA NothingToDoTypes ==
  ASSUME SessionLifeAssumption, Types, NEW t \in Thread, Held(t) # NULL, NothingToDo(t)
  PROVE  Types'
<1> USE DEF Types, TypeOK
<1>1. SessionTypes' /\ PeerTypes' /\ QueueTypes' /\ ReaderTypes'
  BY DEF NothingToDo, SessionTypes, PeerTypes, Configuration, QueueTypes, ReaderTypes, Refresher, sessionVars, peerVars, queueVars
<1>2. ThreadTypes'
  BY DEF NothingToDo, ThreadTypes, Goto, Thread
<1>3. SlotHeld'
  BY DEF NothingToDo, SlotHeld, Running, ThreadTypes, threadVars, Goto, Thread
<1>4. BucketInTable'
  BY DEF NothingToDo, BucketInTable, ReaderTypes, Refresher
<1> QED BY <1>1, <1>2, <1>3, <1>4

LEMMA EndThreadTypes ==
  ASSUME SessionLifeAssumption, Types, NEW t \in Thread, Held(t) # NULL, EndThread(t)
  PROVE  Types'
<1> USE DEF Types, TypeOK
<1>h. i[t] \in Slot /\ Held(t) \in Born /\ session[Held(t)] \in Structure
  BY HeldTypes DEF EndThread, Running
<1>1. PeerTypes' /\ ReaderTypes'
  BY DEF EndThread, PeerTypes, Configuration, ReaderTypes, Refresher, peerVars
<1>e. session' \in [Born -> Structure]
      /\ \A m \in Born : session'[m].labelAction = session[m].labelAction
  BY <1>h, CleanupAlike DEF EndThread, Alike
<1>2. ThreadTypes'
  BY DEF EndThread, CleanupSession, Reset, ThreadTypes, Goto, Thread
<1>3. SessionTypes'
  <2>1. session[Held(t)].state \in State
    BY <1>h DEF Structure
  <2> QED BY <1>e, <2>1 DEF EndThread, CleanupSession, SessionTypes
<1>4. QueueTypes'
  BY <1>h, Messages, WriteTypes DEF EndThread, CleanupSession, Reset, QueueTypes, ThreadTypes, Structure, State
<1>5. SlotHeld'
  BY DEF EndThread, CleanupSession, Reset, SlotHeld, Running, ThreadTypes, threadVars, Goto, Thread
<1>6. BucketInTable'
  BY DEF EndThread, BucketInTable, ReaderTypes, Refresher
<1> QED BY <1>1, <1>2, <1>3, <1>4, <1>5, <1>6

LEMMA LabelReadTypes ==
  ASSUME SessionLifeAssumption, Types, LabelRead
  PROVE  Types'
<1> USE DEF Types, TypeOK
<1>h. Sessions[Head(peerQ).sessionID] \in Born \cup {NULL}
  BY TakeMessage DEF LabelRead, QueueTypes, SessionTypes, Message
<1>1. ThreadTypes' /\ SessionTypes' /\ PeerTypes'
  BY DEF LabelRead, ThreadTypes, SessionTypes, PeerTypes, Configuration, threadVars, sessionVars, peerVars
<1>2. QueueTypes'
  BY TakeMessage DEF LabelRead, Waiting, QueueTypes
<1>3. ReaderTypes'
  BY TakeMessage, <1>h DEF LabelRead, Waiting, ReaderTypes, Refresher, QueueTypes, SessionTypes
<1>4. SlotHeld'
  BY DEF LabelRead, Waiting, SlotHeld, Running, ThreadTypes, threadVars, Goto, Thread
<1>5. BucketInTable'
  BY DEF LabelRead, BucketInTable, ReaderTypes, Refresher
<1> QED BY <1>1, <1>2, <1>3, <1>4, <1>5

LEMMA LabelApplyTypes ==
  ASSUME SessionLifeAssumption, Types, LabelApply
  PROVE  Types'
<1> USE DEF Types, TypeOK
<1>1. ThreadTypes' /\ SessionTypes' /\ PeerTypes' /\ QueueTypes'
  BY DEF LabelApply, ThreadTypes, SessionTypes, PeerTypes, Configuration, QueueTypes, threadVars, sessionVars, peerVars, queueVars
<1>2. ReaderTypes'
  <2>1. PICK ok \in BOOLEAN :
          label' = IF ok THEN [label EXCEPT !.pc = "forward", !.used = NULL] ELSE Waiting
    BY DEF LabelApply
  <2>2. CASE ok
    BY <2>1, <2>2 DEF LabelApply, ReaderTypes, Refresher
  <2>3. CASE ~ok
    BY <2>1, <2>3, Messages DEF LabelApply, ReaderTypes, Refresher, Waiting
  <2> QED BY <2>2, <2>3
<1>3. SlotHeld'
  BY DEF LabelApply, Waiting, SlotHeld, Running, ThreadTypes, threadVars, Goto, Thread
<1>4. BucketInTable'
  BY DEF LabelApply, BucketInTable, ReaderTypes, Refresher
<1> QED BY <1>1, <1>2, <1>3, <1>4

LEMMA LabelForwardTypes ==
  ASSUME SessionLifeAssumption, Types, LabelForward
  PROVE  Types'
<1> USE DEF Types, TypeOK
<1>h. label.bmf \in Message /\ label.bmf.sessionID \in Slot /\ Sessions[label.bmf.sessionID] \in Born \cup {NULL}
  BY DEF LabelForward, ReaderTypes, Refresher, SessionTypes, Message
<1>1. ThreadTypes' /\ PeerTypes'
  BY DEF LabelForward, ThreadTypes, PeerTypes, Configuration, threadVars, peerVars
<1>e. session' \in [Born -> Structure]
      /\ \A m \in Born : session'[m].labelAction = session[m].labelAction
  BY LabelForwardEffect DEF Alike
<1>2. SessionTypes'
  BY <1>e DEF LabelForward, SessionTypes, State
<1>3. QueueTypes'
  BY WriteTypes DEF LabelForward, Waiting, QueueTypes, ReaderTypes, Refresher
<1>4. ReaderTypes'
  BY Messages DEF LabelForward, Waiting, ReaderTypes, Refresher
<1>5. SlotHeld'
  BY DEF LabelForward, Waiting, SlotHeld, Running, ThreadTypes, threadVars, Goto, Thread
<1>6. BucketInTable'
  BY DEF LabelForward, BucketInTable, ReaderTypes, Refresher
<1> QED BY <1>1, <1>2, <1>3, <1>4, <1>5, <1>6

LEMMA XmlReadTypes ==
  ASSUME SessionLifeAssumption, Types, XmlRead
  PROVE  Types'
<1> USE DEF Types, TypeOK
<1>1. ThreadTypes' /\ SessionTypes' /\ PeerTypes'
  BY DEF XmlRead, ThreadTypes, SessionTypes, PeerTypes, Configuration, threadVars, sessionVars, peerVars
<1>2. QueueTypes'
  BY TakeMessage DEF XmlRead, QueueTypes
<1>3. ReaderTypes'
  BY TakeMessage DEF XmlRead, ReaderTypes, Refresher, QueueTypes
<1>4. SlotHeld'
  BY DEF XmlRead, SlotHeld, Running, ThreadTypes, threadVars, Goto, Thread
<1>5. BucketInTable'
  BY DEF XmlRead, BucketInTable, ReaderTypes, Refresher
<1> QED BY <1>1, <1>2, <1>3, <1>4, <1>5

LEMMA XmlDestroyTypes ==
  ASSUME SessionLifeAssumption, Types, XmlDestroy
  PROVE  Types'
<1> USE DEF Types, TypeOK
<1>h. xml.bmf.sessionID \in Slot /\ Sessions[xml.bmf.sessionID] \in Born \cup {NULL}
  BY DEF XmlDestroy, ReaderTypes, Refresher, SessionTypes, Message
<1>1. ThreadTypes' /\ PeerTypes' /\ QueueTypes'
  BY DEF XmlDestroy, ThreadTypes, PeerTypes, Configuration, QueueTypes, threadVars, peerVars, queueVars
<1>e. session' \in [Born -> Structure]
      /\ \A m \in Born : session'[m].labelAction = session[m].labelAction
  BY XmlDestroyEffect DEF Alike
<1>2. SessionTypes'
  BY <1>e DEF XmlDestroy, SessionTypes, State
<1>3. ReaderTypes'
  BY DEF XmlDestroy, ReaderTypes, Refresher
<1>4. SlotHeld'
  BY DEF XmlDestroy, SlotHeld, Running, ThreadTypes, threadVars, Goto, Thread
<1>5. BucketInTable'
  BY DEF XmlDestroy, BucketInTable, ReaderTypes, Refresher
<1> QED BY <1>1, <1>2, <1>3, <1>4, <1>5

LEMMA XmlClearTypes ==
  ASSUME SessionLifeAssumption, Types, XmlClear
  PROVE  Types'
<1> USE DEF Types, TypeOK
<1>h. xml.bmf.sessionID \in Slot
  BY DEF XmlClear, ReaderTypes, Refresher, SessionTypes, Message
<1>1. ThreadTypes' /\ PeerTypes' /\ QueueTypes'
  BY DEF XmlClear, ThreadTypes, PeerTypes, Configuration, QueueTypes, threadVars, peerVars, queueVars
<1>2. SessionTypes'
  BY <1>h DEF XmlClear, SessionTypes, Structure
<1>3. ReaderTypes'
  BY Messages DEF XmlClear, ReaderTypes, Refresher
<1>4. SlotHeld'
  BY DEF XmlClear, SlotHeld, Running, ThreadTypes, threadVars, Goto, Thread
<1>5. BucketInTable'
  BY DEF XmlClear, BucketInTable, ReaderTypes, Refresher
<1> QED BY <1>1, <1>2, <1>3, <1>4, <1>5

LEMMA RoundStartTypes ==
  ASSUME SessionLifeAssumption, Types, RoundStart
  PROVE  Types'
<1> USE DEF Types, TypeOK
<1>1. ThreadTypes' /\ SessionTypes' /\ QueueTypes'
  BY DEF RoundStart, ThreadTypes, SessionTypes, QueueTypes, threadVars, sessionVars, queueVars
<1>2. PeerTypes'
  BY DEF RoundStart, Event, PeerTypes, Configuration
<1>3. ReaderTypes'
  BY DEF RoundStart, Event, ReaderTypes, Refresher
<1>4. SlotHeld'
  BY DEF RoundStart, Event, SlotHeld, Running, ThreadTypes, threadVars, Goto, Thread
<1>5. BucketInTable'
  BY DEF RoundStart, BucketInTable, ReaderTypes, Refresher
<1> QED BY <1>1, <1>2, <1>3, <1>4, <1>5

LEMMA TransferStartTypes ==
  ASSUME SessionLifeAssumption, Types, TransferStart
  PROVE  Types'
<1> USE DEF Types, TypeOK
<1>h. periodic.list \in SUBSET Slot
  BY DEF TransferStart, ReaderTypes, Refresher, SessionTypes, Message
<1> DEFINE s == CHOOSE k \in periodic.list : \A j \in periodic.list : k <= j
           n == Sessions[s]
<1>s. s \in Slot /\ n \in Born \cup {NULL}
  <2>1. s \in periodic.list
    BY <1>h, FirstSlot DEF TransferStart
  <2> HIDE DEF s
  <2> QED BY <1>h, <2>1 DEF SessionTypes
<1>1. ThreadTypes' /\ SessionTypes' /\ PeerTypes'
  BY DEF TransferStart, ThreadTypes, SessionTypes, PeerTypes, Configuration, threadVars, sessionVars, peerVars
<1>2. ReaderTypes'
  <2>1. \/ periodic' = [periodic EXCEPT !.list = @ \ {s}]
        \/ periodic' = [[periodic EXCEPT !.list = @ \ {s}] EXCEPT !.sessionID = s, !.session = n,
                           !.pc = IF session[n].rib THEN "check" ELSE "flag"]
    BY DEF TransferStart
  <2> DEFINE rest == [periodic EXCEPT !.list = @ \ {s}]
  <2> HIDE DEF s, n
  <2>2. rest \in Refresher
    BY DEF ReaderTypes, Refresher
  <2> HIDE DEF rest
  <2>3. ASSUME NEW l \in {"check", "flag"}
        PROVE  [rest EXCEPT !.sessionID = s, !.session = n, !.pc = l] \in Refresher
    BY <1>s, <2>2 DEF Refresher
  <2>4. periodic' \in Refresher
    BY <2>1, <2>2, <2>3 DEF rest
  <2> QED BY <2>4 DEF TransferStart, ReaderTypes, Refresher
<1>3. QueueTypes'
  <2>1. CASE UNCHANGED queueVars
    BY <2>1 DEF QueueTypes, queueVars
  <2>2. CASE WriteLabeledQ(Table(s)) /\ UNCHANGED peerQ
    BY <2>2, <1>s, Messages, WriteTypes
  <2> QED BY <2>1, <2>2 DEF TransferStart
<1>4. SlotHeld'
  BY DEF TransferStart, SlotHeld, Running, ThreadTypes, threadVars, Goto, Thread
<1>5. BucketInTable'
  BY DEF TransferStart, BucketInTable, ReaderTypes, Refresher
<1> QED BY <1>1, <1>2, <1>3, <1>4, <1>5

LEMMA TransferCheckTypes ==
  ASSUME SessionLifeAssumption, Types, TransferCheck
  PROVE  Types'
<1> USE DEF Types, TypeOK
<1>h. periodic.sessionID \in Slot
  BY DEF TransferCheck, ReaderTypes, Refresher, SessionTypes, Message
<1>1. ThreadTypes' /\ SessionTypes' /\ PeerTypes'
  BY DEF TransferCheck, ThreadTypes, SessionTypes, PeerTypes, Configuration, threadVars, sessionVars, peerVars
<1>2. ReaderTypes'
  BY DEF TransferCheck, ReaderTypes, Refresher
<1>3. QueueTypes'
  <2>1. CASE UNCHANGED queueVars
    BY <2>1 DEF QueueTypes, queueVars
  <2>2. CASE WriteLabeledQ(Table(periodic.sessionID)) /\ UNCHANGED peerQ
    BY <2>2, <1>h, Messages, WriteTypes
  <2> QED BY <2>1, <2>2 DEF TransferCheck
<1>4. SlotHeld'
  BY DEF TransferCheck, SlotHeld, Running, ThreadTypes, threadVars, Goto, Thread
<1>5. BucketInTable'
  BY SessionLifeAssumption DEF TransferCheck, BucketInTable, ReaderTypes, Refresher, SessionLifeAssumption
<1> QED BY <1>1, <1>2, <1>3, <1>4, <1>5

LEMMA TransferBucketTypes ==
  ASSUME SessionLifeAssumption, Types, TransferBucket
  PROVE  Types'
<1> USE DEF Types, TypeOK
<1>h. periodic.sessionID \in Slot
  BY DEF TransferBucket, ReaderTypes, Refresher, SessionTypes, Message
<1>1. ThreadTypes' /\ SessionTypes' /\ PeerTypes'
  BY DEF TransferBucket, ThreadTypes, SessionTypes, PeerTypes, Configuration, threadVars, sessionVars, peerVars
<1>2. ReaderTypes'
  <2>1. periodic.i + 1 \in 0..TableSize
    BY SessionLifeAssumption DEF TransferBucket, ReaderTypes, Refresher, BucketInTable, SessionLifeAssumption
  <2> QED BY <2>1 DEF TransferBucket, ReaderTypes, Refresher
<1>3. QueueTypes'
  <2>1. CASE UNCHANGED queueVars
    BY <2>1 DEF QueueTypes, queueVars
  <2>2. CASE WriteLabeledQ(Table(periodic.sessionID)) /\ UNCHANGED peerQ
    BY <2>2, <1>h, Messages, WriteTypes
  <2> QED BY <2>1, <2>2 DEF TransferBucket
<1>4. SlotHeld'
  BY DEF TransferBucket, SlotHeld, Running, ThreadTypes, threadVars, Goto, Thread
<1>5. BucketInTable'
  BY DEF TransferBucket, BucketInTable, ReaderTypes, Refresher
<1> QED BY <1>1, <1>2, <1>3, <1>4, <1>5

LEMMA TransferFlagTypes ==
  ASSUME SessionLifeAssumption, Types, TransferFlag
  PROVE  Types'
<1> USE DEF Types, TypeOK
<1>h. periodic.sessionID \in Slot /\ Sessions[periodic.sessionID] \in Born \cup {NULL}
  BY DEF TransferFlag, ReaderTypes, Refresher, SessionTypes, Message
<1>1. ThreadTypes' /\ PeerTypes' /\ QueueTypes'
  BY DEF TransferFlag, ThreadTypes, PeerTypes, Configuration, QueueTypes, threadVars, peerVars, queueVars
<1>e. session' \in [Born -> Structure]
      /\ \A m \in Born : session'[m].labelAction = session[m].labelAction
  BY TransferFlagAlike DEF Alike
<1>2. SessionTypes'
  BY <1>e DEF TransferFlag, SessionTypes, State
<1>3. ReaderTypes'
  <2>1. 0 \in Slot /\ 0 \in 0..TableSize
    BY SessionLifeAssumption DEF Slot, SessionLifeAssumption
  <2> QED BY <2>1 DEF TransferFlag, ReaderTypes, Refresher, NULL
<1>4. SlotHeld'
  BY DEF TransferFlag, SlotHeld, Running, ThreadTypes, threadVars, Goto, Thread
<1>5. BucketInTable'
  BY DEF TransferFlag, BucketInTable, ReaderTypes, Refresher
<1> QED BY <1>1, <1>2, <1>3, <1>4, <1>5

LEMMA RoundEndTypes ==
  ASSUME SessionLifeAssumption, Types, RoundEnd
  PROVE  Types'
<1> USE DEF Types, TypeOK
<1>1. ThreadTypes' /\ SessionTypes' /\ PeerTypes' /\ QueueTypes'
  BY DEF RoundEnd, ThreadTypes, SessionTypes, PeerTypes, Configuration, QueueTypes, threadVars, sessionVars, peerVars, queueVars
<1>2. ReaderTypes'
  BY DEF RoundEnd, ReaderTypes, Refresher
<1>3. SlotHeld'
  BY DEF RoundEnd, SlotHeld, Running, ThreadTypes, threadVars, Goto, Thread
<1>4. BucketInTable'
  BY DEF RoundEnd, BucketInTable, ReaderTypes, Refresher
<1> QED BY <1>1, <1>2, <1>3, <1>4

LEMMA SetPeerEnabledFlagTypes ==
  ASSUME SessionLifeAssumption, Types, NEW p \in Peer, NEW enabled \in BOOLEAN, SetPeerEnabledFlag(p, enabled)
  PROVE  Types'
<1> USE DEF Types, TypeOK
<1>1. ThreadTypes' /\ SessionTypes' /\ QueueTypes' /\ ReaderTypes'
  BY DEF SetPeerEnabledFlag, ThreadTypes, SessionTypes, QueueTypes, ReaderTypes, Refresher, threadVars, sessionVars, queueVars
<1>2. PeerTypes'
  BY DEF SetPeerEnabledFlag, Given, Event, PeerTypes, Configuration
<1>3. SlotHeld'
  BY DEF SetPeerEnabledFlag, Given, Event, SlotHeld, Running, ThreadTypes, threadVars, Goto, Thread
<1>4. BucketInTable'
  BY DEF SetPeerEnabledFlag, BucketInTable, ReaderTypes, Refresher
<1> QED BY <1>1, <1>2, <1>3, <1>4

LEMMA ReconnectPeerTypes ==
  ASSUME SessionLifeAssumption, Types, NEW p \in Peer, ReconnectPeer(p)
  PROVE  Types'
<1> USE DEF Types, TypeOK
<1>1. ThreadTypes' /\ QueueTypes' /\ ReaderTypes'
  BY DEF ReconnectPeer, ThreadTypes, QueueTypes, ReaderTypes, Refresher, threadVars, queueVars
<1>e. session' \in [Born -> Structure]
      /\ \A m \in Born : session'[m].labelAction = session[m].labelAction
  BY ReconnectAlike DEF Alike
<1>2. PeerTypes'
  BY DEF ReconnectPeer, Given, Event, PeerTypes, Configuration
<1>3. SessionTypes'
  BY <1>e DEF ReconnectPeer, SessionTypes, State
<1>4. SlotHeld'
  BY DEF ReconnectPeer, Given, Event, SlotHeld, Running, ThreadTypes, threadVars, Goto, Thread
<1>5. BucketInTable'
  BY DEF ReconnectPeer, BucketInTable, ReaderTypes, Refresher
<1> QED BY <1>1, <1>2, <1>3, <1>4, <1>5

LEMMA DeletePeerTypes ==
  ASSUME SessionLifeAssumption, Types, NEW p \in Peer, DeletePeer(p)
  PROVE  Types'
<1> USE DEF Types, TypeOK
<1>1. ThreadTypes' /\ SessionTypes' /\ QueueTypes' /\ ReaderTypes'
  BY DEF DeletePeer, ThreadTypes, SessionTypes, QueueTypes, ReaderTypes, Refresher, threadVars, sessionVars, queueVars
<1>2. PeerTypes'
  <2>1. [Peers EXCEPT ![p].configured = FALSE] \in [Peer -> Configuration]
    BY DEF PeerTypes, Configuration
  <2> QED BY <2>1 DEF DeletePeer, Given, Event, PeerTypes, Configuration
<1>3. SlotHeld'
  BY DEF DeletePeer, Given, Event, SlotHeld, Running, ThreadTypes, threadVars, Goto, Thread
<1>4. BucketInTable'
  BY DEF DeletePeer, BucketInTable, ReaderTypes, Refresher
<1> QED BY <1>1, <1>2, <1>3, <1>4

LEMMA LaunchAllPeersTypes ==
  ASSUME SessionLifeAssumption, Types, LaunchAllPeers
  PROVE  Types'
<1> USE DEF Types, TypeOK
<1>1. SessionTypes' /\ QueueTypes' /\ ReaderTypes'
  BY DEF LaunchAllPeers, SessionTypes, QueueTypes, ReaderTypes, Refresher, sessionVars, queueVars
<1>2. PeerTypes'
  BY DEF LaunchAllPeers, Given, Event, PeerTypes, Configuration
<1>3. ThreadTypes'
  BY DEF LaunchAllPeers, Given, Event, ThreadTypes, Goto, Thread
<1>4. SlotHeld'
  BY DEF LaunchAllPeers, Given, Event, SlotHeld, Running, ThreadTypes, threadVars, Goto, Thread
<1>5. BucketInTable'
  BY DEF LaunchAllPeers, BucketInTable, ReaderTypes, Refresher
<1> QED BY <1>1, <1>2, <1>3, <1>4, <1>5

LEMMA SetPeerLabelActionTypes ==
  ASSUME SessionLifeAssumption, Types, NEW p \in Peer, NEW a \in Action, SetPeerLabelAction(p, a)
  PROVE  Types'
<1> USE DEF Types, TypeOK
<1>1. ThreadTypes' /\ QueueTypes' /\ ReaderTypes'
  BY DEF SetPeerLabelAction, ThreadTypes, QueueTypes, ReaderTypes, Refresher, threadVars, queueVars
<1>e. session' \in [Born -> Structure]
  BY SetPeerLabelActionEffect DEF Alike
<1>2. PeerTypes'
  BY DEF SetPeerLabelAction, WithLabelAction, Given, Event, PeerTypes, Configuration
<1>3. SessionTypes'
  BY <1>e DEF SetPeerLabelAction, SessionTypes, State
<1>4. SlotHeld'
  BY DEF SetPeerLabelAction, WithLabelAction, Given, Event, SlotHeld, Running, ThreadTypes, threadVars, Goto, Thread
<1>5. BucketInTable'
  BY DEF SetPeerLabelAction, BucketInTable, ReaderTypes, Refresher
<1> QED BY <1>1, <1>2, <1>3, <1>4, <1>5

----------------------------------------------------------------------------
(* Steps that leave the array and the last messages alone.                 *)

\* Threads may stop, and sessions may lose tables or get some of which it is
\* known; nothing happens to the array, nothing is read.
Calm ==
  /\ UNCHANGED <<Sessions, born, label, xml, labeledQ>>
  /\ \A t \in Thread : Running(t)' => Running(t) /\ i'[t] = i[t] /\ own'[t] = own[t]
  /\ \A n \in Born : session'[n].heap = session[n].heap
  /\ \A n \in Born : Bare(n) /\ Unowned(n) => (session'[n].rib => session'[n].remade)
  /\ ~relabelled' => /\ ~relabelled
                     /\ \A p \in Peer : Peers'[p].labelAction = Peers[p].labelAction
                     /\ \A n \in Born : /\ session'[n].rib = session[n].rib
                                        /\ session'[n].labelAction = session[n].labelAction

LEMMA CalmSafe ==
  ASSUME Types, Types', Safe, Calm
  PROVE  SlotsInv' /\ OwnersInv' /\ LabelInv' /\ LabeledQInv' /\ XmlInv'
<1> USE DEF Safe, Types, TypeOK
<1>1. SlotsInv'
  BY DEF Calm, SlotsInv, SessionTypes
<1>2. OwnersInv'
  <2>1. \A t \in Thread : t[1] \in Peer
    BY DEF Thread
  <2> QED BY <2>1 DEF Calm, OwnersInv, HasRib, Labeled, AsItsPeer, ThreadTypes
<1>m. \A j \in 1..Len(labeledQ) : labeledQ[j] \in Message
  BY DEF QueueTypes
<1>3. LabelInv'
  <2>1. label.bmf.of \in Born \cup {NULL}
    BY DEF ReaderTypes, Message
  <2>2. \A n \in Born : PastLabel(n)' <=> PastLabel(n)
    BY DEF Calm, PastLabel, AtXml, Ends
  <2>3. \A n \in Born : Unowned(n) => Unowned(n)'
    BY DEF Calm, Unowned
  <2>4. InPlace(label.bmf) => InPlace(label.bmf)' /\ label.bmf.of \in Born
    BY <2>1 DEF Calm, InPlace
  <2>5. \A n \in Born : HasRib(n) => HasRib(n)'
    BY DEF Calm, HasRib, Labeled
  <2>7. ~relabelled' => ~relabelled /\ \A n \in Born : Labeled(n) => Labeled(n)'
    BY DEF Calm, Labeled
  <2>6. UNCHANGED label
    BY DEF Calm
  <2> QED BY <2>2, <2>3, <2>4, <2>5, <2>6, <2>7 DEF LabelInv, Ends
<1>4. LabeledQInv'
  <2> SUFFICES ASSUME NEW j \in 1..Len(labeledQ), Ends(labeledQ[j])
               PROVE  /\ InPlace(labeledQ[j])' /\ Unowned(labeledQ[j].of)'
                      /\ Bare(labeledQ[j].of)' /\ ~AtXml(labeledQ[j].of)'
                      /\ \A k \in 1..(j - 1) : Ends(labeledQ[k]) => labeledQ[k].of # labeledQ[j].of
    BY DEF LabeledQInv, Calm, Ends, InPlace, Unowned, AtXml
  <2>1. /\ InPlace(labeledQ[j]) /\ Unowned(labeledQ[j].of) /\ Bare(labeledQ[j].of)
        /\ ~AtXml(labeledQ[j].of)
        /\ \A k \in 1..(j - 1) : Ends(labeledQ[k]) => labeledQ[k].of # labeledQ[j].of
    BY DEF LabeledQInv
  <2>2. labeledQ[j].of \in Born
    BY <1>m, <2>1 DEF Message, InPlace
  <2> QED BY <2>1, <2>2 DEF Calm, InPlace, Unowned, AtXml, Bare
<1>5. XmlInv'
  <2>1. xml.bmf.of \in Born \cup {NULL}
    BY DEF ReaderTypes, Message
  <2>2. xml.pc # "read" => /\ Ends(xml.bmf) /\ InPlace(xml.bmf) /\ Unowned(xml.bmf.of)
                           /\ Bare(xml.bmf.of) /\ xml.bmf.of \in Born
    BY <2>1 DEF XmlInv, InPlace
  <2>3. \A n \in Born : Unowned(n) => Unowned(n)'
    BY DEF Calm, Unowned
  <2> QED BY <2>2, <2>3 DEF Calm, XmlInv, InPlace, Ends, Bare
<1> QED BY <1>1, <1>2, <1>3, <1>4, <1>5

\* What a message in peerQ is to satisfy: the body of PeerQInv.
Fits(m) ==
  /\ Ends(m) => Unowned(m.of)
  /\ m.type = "UPDATE" => HasRib(m.of)
  /\ Ends(m) \/ m.type = "UPDATE" => InPlace(m) /\ ~OutOfPeerQ(m.of)

LEMMA CalmFits ==
  ASSUME Types, Types', Safe, Calm, NEW m \in Message, Fits(m)
  PROVE  Fits(m)'
<1>1. Ends(m) \/ m.type = "UPDATE" => m.of \in Born
  BY DEF Fits, InPlace, Message
<1>2. \A n \in Born : OutOfPeerQ(n)' <=> OutOfPeerQ(n)
  BY DEF Calm, OutOfPeerQ, PastLabel, AtXml, Ends
<1>3. \A n \in Born : Unowned(n) => Unowned(n)'
  BY DEF Calm, Unowned
<1>4. \A n \in Born : HasRib(n) => HasRib(n)'
  BY DEF Calm, HasRib, Labeled
<1>5. InPlace(m) => InPlace(m)'
  BY DEF Calm, InPlace
<1> QED BY <1>1, <1>2, <1>3, <1>4, <1>5 DEF Fits, Ends

LEMMA QuietSafe ==
  ASSUME Types, Types', Safe, Calm, UNCHANGED peerQ
  PROVE  Safe'
<1>1. \A j \in 1..Len(peerQ) : peerQ[j] \in Message
  BY DEF Types, TypeOK, QueueTypes
<1>2. \A j \in 1..Len(peerQ) : Fits(peerQ[j])
  BY DEF Safe, PeerQInv, Fits
<1>3. \A j \in 1..Len(peerQ) : Fits(peerQ[j])'
  BY <1>1, <1>2, CalmFits
<1>4. \A j \in 1..Len(peerQ) : Ends(peerQ[j]) \/ peerQ[j].type = "UPDATE" =>
        \A k \in 1..(j - 1) : Ends(peerQ[k]) => peerQ[k].of # peerQ[j].of
  BY DEF Safe, PeerQInv
<1>5. PeerQInv'
  BY <1>3, <1>4 DEF PeerQInv, Fits, Ends
<1> QED BY <1>5, CalmSafe DEF Safe

\* A message is written to peerQ that is about a session of which no last
\* message is on its way.
LEMMA PeerQSafe ==
  ASSUME SessionLifeAssumption, Types, Types', Safe, Calm, NEW m \in Message,
         peerQ' = Put(peerQ, m), Fits(m)',
         Ends(m) \/ m.type = "UPDATE" =>
           \A k \in 1..Len(peerQ) : Ends(peerQ[k]) => peerQ[k].of # m.of
  PROVE  Safe'
<1>1. \A j \in 1..Len(peerQ) : peerQ[j] \in Message
  BY DEF Types, TypeOK, QueueTypes
<1>2. \A j \in 1..Len(peerQ) : Fits(peerQ[j])
  BY DEF Safe, PeerQInv, Fits
<1>3. \A x \in Message : Fits(x) => Fits(x)'
  BY CalmFits
<1>4. \A j \in 1..Len(peerQ) : Ends(peerQ[j]) \/ peerQ[j].type = "UPDATE" =>
        \A k \in 1..(j - 1) : Ends(peerQ[k]) => peerQ[k].of # peerQ[j].of
  BY DEF Safe, PeerQInv
<1> DEFINE q == Put(peerQ, m)
<1>5. /\ Len(q) \in Nat /\ Len(q) >= 1
      /\ q[Len(q)] = m
      /\ \A k \in 1..(Len(q) - 1) : k \in 1..Len(peerQ) /\ q[k] = peerQ[k]
  <2>1. peerQ \in Seq(Message) /\ Len(peerQ) <= QueueSize
    BY DEF Types, TypeOK, QueueTypes
  <2>2. QueueSize \in Nat
    BY DEF SessionLifeAssumption
  <2>3. /\ q \in Seq(Message) /\ Len(q) \in 1..QueueSize /\ q[Len(q)] = m
        /\ \A k \in 1..(Len(q) - 1) : k \in 1..Len(peerQ) /\ q[k] = peerQ[k]
    BY <2>1, PutMessage, Zenon
  <2> HIDE DEF q
  <2> QED BY <2>2, <2>3
<1> HIDE DEF q
<1>6. \A j \in 1..Len(q) : \A x \in Message : x = q[j] => Fits(x)'
  BY <1>1, <1>2, <1>3, <1>5
<1>7. ASSUME NEW j \in 1..Len(q), Ends(q[j]) \/ q[j].type = "UPDATE",
             NEW k \in 1..(j - 1), Ends(q[k])
      PROVE  q[k].of # q[j].of
  <2>1. k \in 1..Len(peerQ) /\ q[k] = peerQ[k]
    BY <1>5
  <2>2. CASE j = Len(q)
    BY <1>5, <1>7, <2>1, <2>2
  <2>3. CASE j # Len(q)
    <3>1. j \in 1..(Len(q) - 1)
      BY <1>5, <2>3
    <3>2. j \in 1..Len(peerQ) /\ q[j] = peerQ[j]
      BY <1>5, <3>1
    <3> QED BY <1>4, <1>7, <2>1, <3>2
  <2> QED BY <2>2, <2>3
<1>8. PeerQInv'
  <2>1. peerQ' = q
    BY DEF q
  <2>2. \A j \in 1..Len(q) : q[j] \in Message
    BY <1>1, <1>5
  <2>3. ASSUME NEW j \in 1..Len(peerQ') PROVE Fits(peerQ[j])'
    BY <1>6, <2>1, <2>2
  <2> QED BY <1>7, <2>1, <2>3 DEF PeerQInv, Fits, Ends
<1> QED BY <1>8, CalmSafe DEF Safe

----------------------------------------------------------------------------
(* Peers' threads.                                                         *)

LEMMA ScanSlotSafe ==
  ASSUME Types, Types', Safe, NEW t \in Thread, ScanSlot(t) \/ TakeFails(t)
  PROVE  Safe'
<1>1. Calm
  BY DEF Calm, Bare, ScanSlot, TakeFails, Running, Goto, sessionVars, peerVars, queueVars,
         Types, TypeOK, ThreadTypes
<1>2. UNCHANGED peerQ
  BY DEF ScanSlot, TakeFails, queueVars
<1> QED BY <1>1, <1>2, QuietSafe

\* A new session in an empty slot: nothing on its way is about that slot.
LEMMA TakeSlotSafe ==
  ASSUME SessionLifeAssumption, Types, Types', Safe, NEW t \in Thread, TakeSlot(t), ~collided'
  PROVE  Safe'
<1> USE DEF Types, TypeOK
<1> DEFINE s == i[t]
           n == born + 1
<1>1. /\ s \in Slot /\ n \in Born /\ n \in Nat /\ n > born /\ born \in Nat
      /\ Sessions[s] = NULL /\ n # NULL
  <2>1. s \in Slot /\ Sessions[s] \in Born \cup {NULL}
    BY DEF TakeSlot, SlotHeld, SessionTypes
  <2>2. MaxBorn \in Nat /\ born \in 0..MaxBorn /\ born < MaxBorn
    BY DEF TakeSlot, SessionTypes, SessionLifeAssumption
  <2>3. Sessions[s] = NULL
    BY <2>1 DEF TakeSlot, SessionTypes
  <2> QED BY <2>1, <2>2, <2>3 DEF Born, NULL
<1>2. Sessions' = [Sessions EXCEPT ![s] = n]
  BY DEF TakeSlot
<1>3. /\ session'[n].heap = "live"
      /\ session'[n].labelAction = Peers[t[1]].labelAction
      /\ session'[n].rib = (session'[n].labelAction # "NoAction")
      /\ \A m \in Born : m # n => session'[m] = session[m]
  BY <1>1 DEF TakeSlot, SessionTypes, Structure, PeerTypes, Configuration, Thread
<1>4. /\ own' = [own EXCEPT ![t] = n] /\ pc' = [pc EXCEPT ![t] = "top"] /\ born' = n
      /\ UNCHANGED <<i, peerQ, labeledQ, label, xml, relabelled, Peers>>
  BY DEF TakeSlot, Goto, queueVars, peerVars
<1>5. \A u \in Thread : Running(u)' <=> u = t \/ Running(u)
  BY <1>4 DEF Running, ThreadTypes
<1>6. \A u \in Thread : u # t => own'[u] = own[u]
  BY <1>4 DEF ThreadTypes
<1>7. own'[t] = n /\ i'[t] = s
  BY <1>4 DEF ThreadTypes
<1>8. \A u \in Slot : u # s => Sessions'[u] = Sessions[u]
  BY <1>2 DEF SessionTypes
<1>9. Sessions'[s] = n
  BY <1>1, <1>2 DEF SessionTypes
<1>10. \A u \in Slot : Sessions[u] \in Nat /\ Sessions[u] <= born
  BY DEF Safe, SlotsInv, SessionTypes, Born, NULL
<1> HIDE DEF s, n
<1>11. SlotsInv'
  <2>1. \A u \in Slot : Sessions'[u] <= born'
    BY <1>1, <1>4, <1>8, <1>9, <1>10
  <2>2. \A u, v \in Slot : Sessions'[u] = Sessions'[v] => u = v \/ Sessions'[u] = NULL
    BY <1>1, <1>8, <1>9, <1>10 DEF Safe, SlotsInv
  <2>3. \A u \in Slot : Sessions'[u] # NULL /\ ~(xml'.pc = "clear" /\ xml'.bmf.sessionID = u)
                          => session'[Sessions'[u]].heap = "live"
    <3> SUFFICES ASSUME NEW u \in Slot, Sessions'[u] # NULL,
                        ~(xml'.pc = "clear" /\ xml'.bmf.sessionID = u)
                 PROVE  session'[Sessions'[u]].heap = "live"
      OBVIOUS
    <3>1. CASE u = s
      BY <1>3, <1>9, <3>1
    <3>2. CASE u # s
      <4>1. Sessions[u] \in Born /\ Sessions[u] # n
        BY <1>1, <1>8, <1>10, <3>2 DEF SessionTypes
      <4> QED BY <1>3, <1>4, <1>8, <3>2, <4>1 DEF Safe, SlotsInv
    <3> QED BY <3>1, <3>2
  <2> QED BY <2>1, <2>2, <2>3 DEF SlotsInv
\* The sessions that threads or messages are about are older, and elsewhere.
<1>12. ASSUME NEW m \in Message, InPlace(m)
       PROVE  InPlace(m)' /\ m.of \in Born /\ m.of # n /\ session'[m.of] = session[m.of]
  <2>1. m.sessionID \in Slot /\ m.of = Sessions[m.sessionID] /\ m.of # NULL /\ m.of \in Born
    BY <1>12 DEF InPlace, Message
  <2>2. m.sessionID # s /\ m.of # n
    BY <1>1, <1>10, <2>1
  <2> QED BY <1>3, <1>8, <2>1, <2>2 DEF InPlace
<1>13. \A m \in Born : m # n /\ Unowned(m) => Unowned(m)'
  BY <1>5, <1>6, <1>7 DEF Unowned
<1>14. \A m \in Born : m # n /\ HasRib(m) => HasRib(m)'
  BY <1>3, <1>4 DEF HasRib, Labeled
<1>15. \A m \in Born : PastLabel(m)' <=> PastLabel(m)
  BY <1>4 DEF PastLabel, AtXml, Ends
<1>16. \A m \in Born : OutOfPeerQ(m)' <=> OutOfPeerQ(m)
  BY <1>4, <1>15 DEF OutOfPeerQ, Ends
<1>17. OwnersInv'
  <2>1. \A u \in Thread : Running(u) => /\ own[u] \in Born /\ own[u] # n /\ i[u] \in Slot /\ i[u] # s
                                        /\ own[u] # NULL /\ Sessions[i[u]] = own[u] /\ HasRib(own[u])
                                        /\ AsItsPeer(u)
    BY <1>1, <1>10 DEF Safe, OwnersInv, SlotHeld, ThreadTypes
  <2>2. \A u \in Thread : Running(u)' /\ u # t => own'[u] # NULL /\ Sessions'[i'[u]] = own'[u]
                                                  /\ HasRib(own[u])' /\ AsItsPeer(u)'
    BY <1>3, <1>4, <1>5, <1>6, <1>8, <1>14, <2>1 DEF AsItsPeer
  <2>3. own'[t] # NULL /\ Sessions'[i'[t]] = own'[t] /\ HasRib(own[t])' /\ AsItsPeer(t)'
    BY <1>1, <1>3, <1>4, <1>7, <1>9 DEF HasRib, Labeled, AsItsPeer
  <2>4. \A u, v \in Thread : Running(u)' /\ Running(v)' /\ own'[u] = own'[v] => u = v
    BY <1>5, <1>6, <1>7, <2>1 DEF Safe, OwnersInv
  <2> QED BY <2>2, <2>3, <2>4 DEF OwnersInv
<1>18. PeerQInv'
  <2>1. \A j \in 1..Len(peerQ) : peerQ[j] \in Message
    BY DEF QueueTypes
  <2> SUFFICES ASSUME NEW j \in 1..Len(peerQ)
               PROVE  /\ Ends(peerQ[j]) => Unowned(peerQ[j].of)'
                      /\ peerQ[j].type = "UPDATE" => HasRib(peerQ[j].of)'
                      /\ Ends(peerQ[j]) \/ peerQ[j].type = "UPDATE" =>
                           /\ InPlace(peerQ[j])' /\ ~OutOfPeerQ(peerQ[j].of)'
                           /\ \A k \in 1..(j - 1) : Ends(peerQ[k]) => peerQ[k].of # peerQ[j].of
    BY <1>4 DEF PeerQInv, Ends, Unowned, HasRib, InPlace, OutOfPeerQ, PastLabel, AtXml
  <2>2. peerQ[j] \in Message
    BY <2>1
  <2> QED BY <1>4, <1>12, <1>13, <1>14, <1>16, <2>2 DEF Safe, PeerQInv
<1>19. LabelInv'
  <2>1. label.bmf \in Message
    BY DEF ReaderTypes
  <2> QED BY <1>4, <1>12, <1>13, <1>14, <1>15, <2>1 DEF Safe, LabelInv, Labeled, Ends
<1>20. LabeledQInv'
  <2>1. \A j \in 1..Len(labeledQ) : labeledQ[j] \in Message
    BY DEF QueueTypes
  <2> SUFFICES ASSUME NEW j \in 1..Len(labeledQ), Ends(labeledQ[j])
               PROVE  /\ InPlace(labeledQ[j])' /\ Unowned(labeledQ[j].of)'
                      /\ Bare(labeledQ[j].of)' /\ ~AtXml(labeledQ[j].of)
                      /\ \A k \in 1..(j - 1) : Ends(labeledQ[k]) => labeledQ[k].of # labeledQ[j].of
    BY <1>4 DEF LabeledQInv, Ends, Unowned, InPlace, AtXml
  <2>2. labeledQ[j] \in Message
    BY <2>1
  <2> QED BY <1>4, <1>12, <1>13, <2>2 DEF Safe, LabeledQInv, Bare
<1>21. XmlInv'
  <2>1. xml.bmf \in Message
    BY DEF ReaderTypes
  <2> QED BY <1>4, <1>12, <1>13, <2>1 DEF Safe, XmlInv, Bare, Ends
<1> QED BY <1>11, <1>17, <1>18, <1>19, <1>20, <1>21 DEF Safe

LEMMA LoopTopSafe ==
  ASSUME Types, Types', Safe, NEW t \in Thread, LoopTop(t) \/ NothingToDo(t)
  PROVE  Safe'
<1>1. Calm
  <2>1. \A p \in Peer : Peers'[p].labelAction = Peers[p].labelAction
    BY DEF LoopTop, NothingToDo, peerVars, Types, TypeOK, PeerTypes, Configuration
  <2> QED BY <2>1 DEF Calm, Bare, LoopTop, NothingToDo, Running, Goto, sessionVars, peerVars,
                      queueVars, Types, TypeOK, ThreadTypes
<1>2. UNCHANGED peerQ
  BY DEF LoopTop, NothingToDo, queueVars
<1> QED BY <1>1, <1>2, QuietSafe

\* No last message is on its way about a session that a thread runs on.
LEMMA OwnedIsNotEnding ==
  ASSUME Types, Safe, NEW t \in Thread, Running(t)
  PROVE  /\ own[t] \in Born /\ i[t] \in Slot /\ own[t] = Sessions[i[t]] /\ HasRib(own[t])
         /\ own[t] # NULL /\ AsItsPeer(t)
         /\ ~OutOfPeerQ(own[t])
         /\ \A k \in 1..Len(peerQ) : Ends(peerQ[k]) => peerQ[k].of # own[t]
<1>1. /\ own[t] \in Born /\ i[t] \in Slot /\ own[t] = Sessions[i[t]] /\ HasRib(own[t])
      /\ own[t] # NULL /\ ~Unowned(own[t]) /\ AsItsPeer(t)
  BY DEF Types, TypeOK, ThreadTypes, SlotHeld, Safe, OwnersInv, Unowned
<1>2. \A k \in 1..Len(peerQ) : Ends(peerQ[k]) => peerQ[k].of # own[t]
  BY <1>1 DEF Safe, PeerQInv
<1>3. ~PastLabel(own[t])
  BY <1>1 DEF PastLabel, AtXml, Safe, LabeledQInv, XmlInv
<1>4. ~OutOfPeerQ(own[t])
  BY <1>1, <1>3 DEF OutOfPeerQ, Safe, LabelInv
<1> QED BY <1>1, <1>2, <1>4

LEMMA RunFsmSafe ==
  ASSUME SessionLifeAssumption, Types, Types', Safe, NEW t \in Thread, Held(t) # NULL, RunFsm(t)
  PROVE  Safe'
<1>1. Running(t)
  BY DEF RunFsm, Running
<1>2. /\ own[t] \in Born /\ i[t] \in Slot /\ own[t] = Sessions[i[t]] /\ HasRib(own[t])
      /\ own[t] # NULL /\ ~OutOfPeerQ(own[t])
      /\ \A k \in 1..Len(peerQ) : Ends(peerQ[k]) => peerQ[k].of # own[t]
  BY <1>1, OwnedIsNotEnding
<1>3. \A m \in Born : Alike(session'[m], session[m])
  BY <1>2, RunFsmAlike DEF Types, TypeOK, Held
<1>4. /\ UNCHANGED <<Sessions, born, label, xml, i, own, relabelled, Peers>>
      /\ \A u \in Thread : Running(u)' <=> Running(u)
  BY DEF RunFsm, Running, Goto, Types, TypeOK, ThreadTypes, peerVars
<1>5. CASE UNCHANGED queueVars
  <2>1. Calm
    BY <1>3, <1>4, <1>5 DEF Calm, Alike, Bare, queueVars
  <2> QED BY <1>5, <2>1, QuietSafe DEF queueVars
<1>6. CASE WritePeerQ(Update(i[t], own[t]))
  <2>1. Calm
    BY <1>3, <1>4, <1>6 DEF Calm, Alike, Bare, WritePeerQ
  <2>m. PICK m \in Message : m = Update(i[t], own[t])
    BY <1>2, Messages
  <2>2. ~Ends(m) /\ m.of = own[t] /\ m.sessionID = i[t] /\ m.type = "UPDATE"
    BY <2>m DEF Update, Ends
  <2>3. Fits(m)
    BY <1>2, <2>2 DEF Fits, InPlace
  <2>4. Fits(m)'
    BY <2>1, <2>2, <2>3, CalmFits
  <2>5. peerQ' = Put(peerQ, m)
    BY <1>6, <2>m DEF WritePeerQ
  <2> QED BY <1>2, <2>1, <2>2, <2>4, <2>5, PeerQSafe
<1> QED BY <1>5, <1>6 DEF RunFsm

\* The thread stops running on its session and says so.
LEMMA CleanupSafe ==
  ASSUME SessionLifeAssumption, Types, Types', Safe, NEW t \in Thread, Running(t), Held(t) # NULL,
         CleanupSession(t), ~Running(t)', \A u \in Thread : Running(u)' => Running(u) /\ i'[u] = i[u],
         UNCHANGED <<own, peerVars, label, xml>>
  PROVE  Safe'
<1>1. /\ own[t] \in Born /\ i[t] \in Slot /\ own[t] = Sessions[i[t]]
      /\ own[t] # NULL /\ ~OutOfPeerQ(own[t])
      /\ \A k \in 1..Len(peerQ) : Ends(peerQ[k]) => peerQ[k].of # own[t]
  BY OwnedIsNotEnding
<1>2. session[Held(t)].state \in State /\ \A m \in Born : Alike(session'[m], session[m])
  BY <1>1, CleanupAlike DEF Types, TypeOK, Held, SessionTypes, Structure
<1>m. PICK m \in Message : m = Change(i[t], session[Held(t)].state, "Idle", own[t])
  <2>1. "Idle" \in State
    BY DEF State
  <2> QED BY <1>1, <1>2, <2>1, Messages
<1>3. /\ m.of = own[t] /\ m.sessionID = i[t] /\ m.type = "FSM_STATE_CHANGE"
      /\ peerQ' = Put(peerQ, m) /\ UNCHANGED labeledQ
  BY <1>m DEF Change, CleanupSession, WritePeerQ
<1>4. Calm
  BY <1>2, <1>3 DEF Calm, Alike, Bare, CleanupSession, peerVars
<1>5. Unowned(own[t])'
  BY <1>1 DEF Safe, OwnersInv, Unowned
<1>6. ~OutOfPeerQ(own[t])'
  BY <1>1, <1>3 DEF OutOfPeerQ, PastLabel, AtXml, Ends
<1>7. Sessions'[i[t]] = own[t]
  BY <1>1 DEF CleanupSession
<1>8. Fits(m)'
  BY <1>1, <1>3, <1>5, <1>6, <1>7 DEF Fits, InPlace
<1> QED BY <1>1, <1>3, <1>4, <1>8, PeerQSafe

LEMMA EndingsSafe ==
  ASSUME SessionLifeAssumption, Types, Types', Safe, NEW t \in Thread, Held(t) # NULL,
         GiveUp(t) \/ EndThread(t)
  PROVE  Safe'
<1>1. Running(t) /\ ~Running(t)' /\ CleanupSession(t) /\ UNCHANGED <<own, peerVars, label, xml>>
  BY DEF GiveUp, EndThread, Running, Goto, Types, TypeOK, ThreadTypes
<1>2. \A u \in Thread : Running(u)' => Running(u) /\ i'[u] = i[u]
  BY <1>1 DEF GiveUp, EndThread, Running, Goto, Types, TypeOK, ThreadTypes
<1> QED BY <1>1, <1>2, CleanupSafe

LEMMA AnnounceChangeSafe ==
  ASSUME SessionLifeAssumption, Types, Types', Safe, NEW t \in Thread, Held(t) # NULL,
         AnnounceChange(t)
  PROVE  Safe'
<1>1. /\ UNCHANGED <<Sessions, session, born, label, xml, labeledQ, i, own, relabelled, Peers>>
      /\ \A u \in Thread : Running(u)' <=> Running(u)
  BY DEF AnnounceChange, Running, Goto, Types, TypeOK, ThreadTypes, sessionVars, peerVars,
         queueVars, WritePeerQ
<1>2. Calm
  BY <1>1 DEF Calm, Bare
<1>3. CASE UNCHANGED queueVars
  BY <1>2, <1>3, QuietSafe DEF queueVars
<1>4. CASE WritePeerQ(Change(i[t], oldState[t], session[Held(t)].state, own[t]))
  <2>1. i[t] \in Slot /\ session[Held(t)] \in Structure
    BY HeldTypes DEF AnnounceChange, Running
  <2>2. PICK m \in Message : m = Change(i[t], oldState[t], session[Held(t)].state, own[t])
    BY <2>1, Messages DEF Types, TypeOK, ThreadTypes, Structure
  <2>3. ~Ends(m) /\ m.type # "UPDATE"
    BY <2>2 DEF AnnounceChange, Over, Change, Ends
  <2>4. peerQ' = Put(peerQ, m)
    BY <1>4, <2>2 DEF WritePeerQ
  <2>5. Fits(m)'
    BY <2>3 DEF Fits, Ends
  <2> QED BY <1>2, <2>2, <2>3, <2>4, <2>5, PeerQSafe
<1> QED BY <1>3, <1>4 DEF AnnounceChange

LEMMA ConfigSafe ==
  ASSUME SessionLifeAssumption, Types, Types', Safe, NEW t \in Thread, Held(t) # NULL,
         TakeConfig(t) \/ Relabel(t) \/ SendRouteRefresh(t)
  PROVE  Safe'
<1>1. /\ UNCHANGED <<Sessions, born, label, xml, peerQ, labeledQ, i, own, relabelled, Peers>>
      /\ \A u \in Thread : Running(u)' <=> Running(u)
  BY DEF TakeConfig, Relabel, SendRouteRefresh, Running, Goto, Types, TypeOK, ThreadTypes,
         peerVars, queueVars
<1>2. Running(t)
  BY DEF TakeConfig, Relabel, SendRouteRefresh, Running
<1>3. Held(t) \in Born /\ Held(t) = own[t]
  BY <1>2, OwnedIsNotEnding DEF Held
<1>4. \A m \in Born : session'[m].heap = session[m].heap
  BY <1>3, TakeConfigEffect, RelabelEffect, SendRouteRefreshAlike DEF Types, TypeOK, Alike
<1>5. \A m \in Born : m # own[t] => /\ session'[m].rib = session[m].rib
                                    /\ session'[m].remade = session[m].remade
                                    /\ session'[m].labelAction = session[m].labelAction
  BY <1>3, TakeConfigEffect, RelabelEffect, SendRouteRefreshAlike DEF Types, TypeOK, Alike
\* Until labels are changed the thread finds its peer's as it was.
<1>6. ~relabelled => /\ session'[own[t]].rib = session[own[t]].rib
                     /\ session'[own[t]].labelAction = session[own[t]].labelAction
  <2> SUFFICES ASSUME ~relabelled
               PROVE  /\ session'[own[t]].rib = session[own[t]].rib
                      /\ session'[own[t]].labelAction = session[own[t]].labelAction
    OBVIOUS
  <2>1. session[Held(t)].labelAction = Peers[t[1]].labelAction
    BY <1>2, <1>3, OwnedIsNotEnding DEF AsItsPeer
  <2> QED BY <1>3, <2>1, TakeConfigEffect, RelabelEffect, SendRouteRefreshAlike
          DEF Types, TypeOK, Alike
<1>7. ~Unowned(own[t])
  BY <1>2 DEF Unowned
<1>8. Calm
  BY <1>1, <1>4, <1>5, <1>6, <1>7 DEF Calm, Bare
<1> QED BY <1>1, <1>8, QuietSafe

----------------------------------------------------------------------------
(* Messages that stay where they are.                                      *)

\* peerQ is left alone (d = 0) or loses its first message (d = 1).
LEMMA PeerQKept ==
  ASSUME Types, Types', Safe, NEW d \in {0, 1}, Len(peerQ') = Len(peerQ) - d,
         \A k \in 1..Len(peerQ') : peerQ'[k] = peerQ[k + d],
         \A m \in Message : Fits(m) /\ (\E j \in (1 + d)..Len(peerQ) : m = peerQ[j]) => Fits(m)'
  PROVE  PeerQInv'
<1>1. /\ \A j \in 1..Len(peerQ) : peerQ[j] \in Message
      /\ Len(peerQ) \in Nat
  BY DEF Types, TypeOK, QueueTypes
<1>2. \A j \in 1..Len(peerQ) : Fits(peerQ[j])
  BY DEF Safe, PeerQInv, Fits
<1>3. \A j \in 1..Len(peerQ) : Ends(peerQ[j]) \/ peerQ[j].type = "UPDATE" =>
        \A k \in 1..(j - 1) : Ends(peerQ[k]) => peerQ[k].of # peerQ[j].of
  BY DEF Safe, PeerQInv
<1>4. \A j \in 1..Len(peerQ') : j + d \in (1 + d)..Len(peerQ) /\ j + d \in 1..Len(peerQ)
  BY <1>1
<1>5. ASSUME NEW j \in 1..Len(peerQ') PROVE Fits(peerQ[j])'
  <2>1. PICK m \in Message : m = peerQ[j + d]
    BY <1>1, <1>4
  <2>2. Fits(m) /\ m = peerQ'[j]
    BY <1>2, <1>4, <2>1
  <2>3. Fits(m)'
    BY <1>4, <2>1, <2>2
  <2> QED BY <2>2, <2>3
<1>6. ASSUME NEW j \in 1..Len(peerQ'), Ends(peerQ'[j]) \/ peerQ'[j].type = "UPDATE",
             NEW k \in 1..(j - 1), Ends(peerQ'[k])
      PROVE  peerQ'[k].of # peerQ'[j].of
  <2> DEFINE a == j + d
             b == k + d
  <2>1. j \in Nat /\ k \in 1..Len(peerQ') /\ b \in 1..(a - 1) /\ a \in 1..Len(peerQ)
    BY <1>1, <1>4
  <2>2. peerQ'[j] = peerQ[a] /\ peerQ'[k] = peerQ[b]
    BY <2>1
  <2> HIDE DEF a, b
  <2> QED BY <1>3, <1>6, <2>1, <2>2
<1> QED BY <1>5, <1>6 DEF PeerQInv, Fits, Ends

\* What a last message in labeledQ is to satisfy: the body of LabeledQInv.
Past(m) == InPlace(m) /\ Unowned(m.of) /\ Bare(m.of) /\ ~AtXml(m.of)

\* labeledQ is left alone (d = 0) or loses its first message (d = 1).
LEMMA LabeledQKept ==
  ASSUME Types, Types', Safe, NEW d \in {0, 1}, Len(labeledQ') = Len(labeledQ) - d,
         \A k \in 1..Len(labeledQ') : labeledQ'[k] = labeledQ[k + d],
         \A m \in Message : Ends(m) /\ Past(m) /\ (\E j \in (1 + d)..Len(labeledQ) : m = labeledQ[j])
                              => Past(m)'
  PROVE  LabeledQInv'
<1>1. /\ \A j \in 1..Len(labeledQ) : labeledQ[j] \in Message
      /\ Len(labeledQ) \in Nat
  BY DEF Types, TypeOK, QueueTypes
<1>2. \A j \in 1..Len(labeledQ) : Ends(labeledQ[j]) => Past(labeledQ[j])
  BY DEF Safe, LabeledQInv, Past
<1>3. \A j \in 1..Len(labeledQ) : Ends(labeledQ[j]) =>
        \A k \in 1..(j - 1) : Ends(labeledQ[k]) => labeledQ[k].of # labeledQ[j].of
  BY DEF Safe, LabeledQInv
<1>4. \A j \in 1..Len(labeledQ') : j + d \in (1 + d)..Len(labeledQ) /\ j + d \in 1..Len(labeledQ)
  BY <1>1
<1>5. ASSUME NEW j \in 1..Len(labeledQ'), Ends(labeledQ'[j]) PROVE Past(labeledQ[j])'
  <2>1. PICK m \in Message : m = labeledQ[j + d]
    BY <1>1, <1>4
  <2>2. Ends(m) /\ Past(m) /\ m = labeledQ'[j]
    BY <1>2, <1>4, <1>5, <2>1
  <2>3. Past(m)'
    BY <1>4, <2>1, <2>2
  <2> QED BY <2>2, <2>3
<1>6. ASSUME NEW j \in 1..Len(labeledQ'), Ends(labeledQ'[j]),
             NEW k \in 1..(j - 1), Ends(labeledQ'[k])
      PROVE  labeledQ'[k].of # labeledQ'[j].of
  <2> DEFINE a == j + d
             b == k + d
  <2>1. j \in Nat /\ k \in 1..Len(labeledQ') /\ b \in 1..(a - 1) /\ a \in 1..Len(labeledQ)
    BY <1>1, <1>4
  <2>2. labeledQ'[j] = labeledQ[a] /\ labeledQ'[k] = labeledQ[b]
    BY <2>1
  <2> HIDE DEF a, b
  <2> QED BY <1>3, <1>6, <2>1, <2>2
<1> QED BY <1>5, <1>6 DEF LabeledQInv, Past, Ends

\* A message is written to labeledQ.
LEMMA LabeledQPut ==
  ASSUME SessionLifeAssumption, Types, Types', Safe, NEW m \in Message, labeledQ' = Put(labeledQ, m),
         \A x \in Message : Ends(x) /\ Past(x) => Past(x)',
         Ends(m) => Past(m)' /\ ~PastLabel(m.of), UNCHANGED xml
  PROVE  /\ LabeledQInv'
         /\ \A n \in Born : PastLabel(n)' => PastLabel(n) \/ (Ends(m) /\ m.of = n)
<1>1. \A j \in 1..Len(labeledQ) : labeledQ[j] \in Message
  BY DEF Types, TypeOK, QueueTypes
<1>2. \A j \in 1..Len(labeledQ) : Ends(labeledQ[j]) => Past(labeledQ[j])
  BY DEF Safe, LabeledQInv, Past
<1>3. \A j \in 1..Len(labeledQ) : Ends(labeledQ[j]) =>
        \A k \in 1..(j - 1) : Ends(labeledQ[k]) => labeledQ[k].of # labeledQ[j].of
  BY DEF Safe, LabeledQInv
<1> DEFINE q == Put(labeledQ, m)
<1>5. /\ Len(q) \in Nat /\ Len(q) >= 1
      /\ q[Len(q)] = m
      /\ \A k \in 1..(Len(q) - 1) : k \in 1..Len(labeledQ) /\ q[k] = labeledQ[k]
  <2>1. labeledQ \in Seq(Message) /\ Len(labeledQ) <= QueueSize
    BY DEF Types, TypeOK, QueueTypes
  <2>2. QueueSize \in Nat
    BY DEF SessionLifeAssumption
  <2>3. /\ q \in Seq(Message) /\ Len(q) \in 1..QueueSize /\ q[Len(q)] = m
        /\ \A k \in 1..(Len(q) - 1) : k \in 1..Len(labeledQ) /\ q[k] = labeledQ[k]
    BY <2>1, PutMessage, Zenon
  <2> HIDE DEF q
  <2> QED BY <2>2, <2>3
<1> HIDE DEF q
<1>q. labeledQ' = q
  BY DEF q
<1>6. \A j \in 1..Len(q) : \A x \in Message : x = q[j] /\ Ends(x) => Past(x)'
  BY <1>1, <1>2, <1>5
<1>m. \A j \in 1..Len(q) : q[j] \in Message
  BY <1>1, <1>5
<1>7. ASSUME NEW j \in 1..Len(q), Ends(q[j]), NEW k \in 1..(j - 1), Ends(q[k])
      PROVE  q[k].of # q[j].of
  <2>1. k \in 1..Len(labeledQ) /\ q[k] = labeledQ[k]
    BY <1>5
  <2>2. CASE j = Len(q)
    BY <1>5, <1>7, <2>1, <2>2 DEF PastLabel
  <2>3. CASE j # Len(q)
    <3>1. j \in 1..(Len(q) - 1)
      BY <1>5, <2>3
    <3>2. j \in 1..Len(labeledQ) /\ q[j] = labeledQ[j]
      BY <1>5, <3>1
    <3> QED BY <1>3, <1>7, <2>1, <3>2
  <2> QED BY <2>2, <2>3
<1>8. ASSUME NEW j \in 1..Len(labeledQ'), Ends(labeledQ'[j]) PROVE Past(labeledQ[j])'
  BY <1>6, <1>8, <1>m, <1>q
<1>9. LabeledQInv'
  BY <1>7, <1>8, <1>q DEF LabeledQInv, Past, Ends
<1>10. ASSUME NEW n \in Born, PastLabel(n)' PROVE PastLabel(n) \/ (Ends(m) /\ m.of = n)
  <2>1. CASE AtXml(n)'
    BY <2>1 DEF PastLabel, AtXml
  <2>2. CASE \E k \in 1..Len(q) : Ends(q[k]) /\ q[k].of = n
    BY <1>5, <2>2 DEF PastLabel
  <2> QED BY <1>10, <1>q, <2>1, <2>2 DEF PastLabel, Ends
<1> QED BY <1>9, <1>10

----------------------------------------------------------------------------
(* The labeling thread.                                                    *)

\* All but queues and what readers have read is left alone.
Reading == UNCHANGED <<threadVars, Sessions, session, born, relabelled, Peers>>

LEMMA ReadingKeeps ==
  ASSUME Reading
  PROVE  /\ \A m : InPlace(m)' <=> InPlace(m)
         /\ \A n : (Unowned(n)' <=> Unowned(n)) /\ (HasRib(n)' <=> HasRib(n))
         /\ \A n : (Labeled(n)' <=> Labeled(n)) /\ (Bare(n)' <=> Bare(n))
         /\ OwnersInv' <=> OwnersInv
BY DEF Reading, threadVars, InPlace, Unowned, HasRib, Labeled, AsItsPeer, Bare, OwnersInv, Running

LEMMA LabelReadSafe ==
  ASSUME Types, Types', Safe, LabelRead
  PROVE  Safe'
<1> USE DEF Types, TypeOK
<1>1. /\ Reading /\ UNCHANGED <<xml, labeledQ>>
      /\ peerQ # <<>> /\ peerQ' = Tail(peerQ)
  BY DEF LabelRead, sessionVars, peerVars, Reading
<1>2. /\ 1 \in 1..Len(peerQ) /\ Len(peerQ') = Len(peerQ) - 1
      /\ \A k \in 1..Len(peerQ') : k + 1 \in 1..Len(peerQ) /\ peerQ'[k] = peerQ[k + 1]
  BY <1>1, TakeMessage DEF QueueTypes
<1>3. PICK m \in Message : m = Head(peerQ) /\ m = peerQ[1]
  BY <1>1, TakeMessage DEF QueueTypes
<1>4. \A n : PastLabel(n)' <=> PastLabel(n)
  BY <1>1 DEF PastLabel, AtXml, Ends
<1>5. \/ /\ label' = [pc |-> "apply", bmf |-> m, used |-> Sessions[m.sessionID]]
         /\ m.type = "UPDATE" /\ Labeled(Sessions[m.sessionID])
      \/ label' = [pc |-> "forward", bmf |-> m, used |-> NULL]
  BY <1>3 DEF LabelRead, Labeled
<1>6. SlotsInv' /\ OwnersInv' /\ LabeledQInv' /\ XmlInv'
  BY <1>1, ReadingKeeps DEF Safe, SlotsInv, LabeledQInv, XmlInv, Ends, InPlace, Unowned, AtXml,
              threadVars, Running, Reading
<1>7. LabelInv'
  <2>1. m.type = "UPDATE" => m.of = Sessions[m.sessionID] /\ InPlace(m) /\ HasRib(m.of)
                             /\ ~PastLabel(m.of)
    BY <1>2, <1>3 DEF Safe, PeerQInv, InPlace, OutOfPeerQ
  <2>2. Ends(m) => InPlace(m) /\ Unowned(m.of) /\ ~PastLabel(m.of)
    BY <1>2, <1>3 DEF Safe, PeerQInv, OutOfPeerQ
  <2>3. (InPlace(m) => InPlace(m)') /\ (HasRib(m.of) => HasRib(m.of)')
        /\ (Unowned(m.of) => Unowned(m.of)') /\ (Labeled(m.of) => Labeled(m.of)')
    BY <1>1, ReadingKeeps
  <2>4. CASE /\ label' = [pc |-> "apply", bmf |-> m, used |-> Sessions[m.sessionID]]
             /\ m.type = "UPDATE" /\ Labeled(Sessions[m.sessionID])
    BY <1>4, <2>1, <2>3, <2>4 DEF LabelInv
  <2>5. CASE label' = [pc |-> "forward", bmf |-> m, used |-> NULL]
    BY <1>4, <2>2, <2>3, <2>5 DEF LabelInv, Ends
  <2> QED BY <1>5, <2>4, <2>5
<1>8. PeerQInv'
  <2>1. ASSUME NEW x \in Message, Fits(x), NEW j \in 2..Len(peerQ), x = peerQ[j]
        PROVE  Fits(x)'
    <3>1. Ends(m) /\ (Ends(x) \/ x.type = "UPDATE") => m.of # x.of
      <4>1. j \in 1..Len(peerQ) /\ 1 \in 1..(j - 1)
        BY DEF QueueTypes
      <4> QED BY <1>3, <2>1, <4>1 DEF Safe, PeerQInv
    <3>2. OutOfPeerQ(x.of)' => OutOfPeerQ(x.of) \/ (Ends(m) /\ m.of = x.of)
      BY <1>4, <1>5 DEF OutOfPeerQ, Ends
    <3> QED BY <1>1, <2>1, <3>1, <3>2, ReadingKeeps DEF Fits, Ends
  <2>2. 1 \in {0, 1} /\ Len(peerQ') = Len(peerQ) - 1 /\ \A k \in 1..Len(peerQ') : peerQ'[k] = peerQ[k + 1]
    BY <1>2
  <2>3. \A x \in Message : Fits(x) /\ (\E j \in (1 + 1)..Len(peerQ) : x = peerQ[j]) => Fits(x)'
    BY <2>1
  <2> QED BY <2>2, <2>3, PeerQKept
<1> QED BY <1>6, <1>7, <1>8 DEF Safe

LEMMA LabelApplySafe ==
  ASSUME Types, Types', Safe, LabelApply
  PROVE  Safe'
<1>1. /\ Reading /\ UNCHANGED <<xml, peerQ, labeledQ>> /\ ~Ends(label.bmf) /\ ~Ends(label.bmf)'
      /\ label'.pc # "apply"
  <2>1. /\ label.bmf.type = "UPDATE" /\ label.pc = "apply" /\ label'.bmf.type = "UPDATE"
        /\ label'.pc # "apply"
    BY DEF LabelApply, Safe, LabelInv, Types, TypeOK, ReaderTypes, Waiting, NoMessage
  <2> QED BY <2>1 DEF LabelApply, sessionVars, peerVars, queueVars, Reading, Ends
<1>2. SlotsInv' /\ OwnersInv' /\ LabeledQInv' /\ XmlInv' /\ LabelInv'
  BY <1>1, ReadingKeeps DEF Safe, SlotsInv, LabeledQInv, XmlInv, Ends, InPlace, Unowned, AtXml,
              threadVars, Running, Reading, LabelInv
<1>3. \A n : OutOfPeerQ(n)' => OutOfPeerQ(n)
  BY <1>1 DEF OutOfPeerQ, PastLabel, AtXml, Ends
<1>4. \A x \in Message : Fits(x) => Fits(x)'
  BY <1>1, <1>3, ReadingKeeps DEF Fits, Ends
<1>5. PeerQInv'
  <2>1. 0 \in {0, 1} /\ Len(peerQ') = Len(peerQ) - 0 /\ \A k \in 1..Len(peerQ') : peerQ'[k] = peerQ[k + 0]
    BY <1>1 DEF Types, TypeOK, QueueTypes
  <2> QED BY <1>4, <2>1, PeerQKept
<1> QED BY <1>2, <1>5 DEF Safe

LEMMA LabelForwardSafe ==
  ASSUME SessionLifeAssumption, Types, Types', Safe, LabelForward
  PROVE  Safe'
<1> USE DEF Types, TypeOK
<1>1. PICK m \in Message : m = label.bmf
  BY DEF ReaderTypes
<1>2. /\ UNCHANGED <<threadVars, Sessions, born, relabelled, Peers, xml, peerQ>>
      /\ label.pc = "forward" /\ label' = Waiting /\ labeledQ' = Put(labeledQ, m)
  BY <1>1 DEF LabelForward, peerVars, WriteLabeledQ
<1>3. Ends(m) => /\ InPlace(m) /\ Unowned(m.of) /\ ~PastLabel(m.of)
                 /\ m.of \in Born /\ m.of = Sessions[m.sessionID]
  BY <1>1, <1>2 DEF Safe, LabelInv, InPlace, Message
<1>4. /\ \A n \in Born : session'[n].heap = session[n].heap
      /\ \A n \in Born : ~(Ends(m) /\ m.of = n) => session'[n].rib = session[n].rib
      /\ Ends(m) => ~session'[m.of].rib
      /\ \A n \in Born : session'[n].labelAction = session[n].labelAction
      /\ \A n \in Born : Bare(n) => (session'[n].rib => session'[n].remade)
  BY <1>1, <1>3, LabelForwardEffect
<1>5. /\ \A x : InPlace(x)' <=> InPlace(x)
      /\ \A n : Unowned(n)' <=> Unowned(n)
      /\ \A n \in Born : ~(Ends(m) /\ m.of = n) /\ HasRib(n) => HasRib(n)'
  BY <1>2, <1>4 DEF InPlace, Unowned, HasRib, Labeled, Running, threadVars
<1>6. \A x \in Message : Ends(x) /\ Past(x) => Past(x)'
  BY <1>2, <1>4, <1>5 DEF Past, AtXml, Bare, InPlace, Message
<1>7. Ends(m) => Past(m)' /\ ~PastLabel(m.of)
  BY <1>2, <1>3, <1>4, <1>5 DEF Past, AtXml, Bare, PastLabel
<1>8. /\ LabeledQInv'
      /\ \A n \in Born : PastLabel(n)' => PastLabel(n) \/ (Ends(m) /\ m.of = n)
  BY <1>2, <1>6, <1>7, LabeledQPut
<1>9. SlotsInv'
  BY <1>2, <1>4 DEF Safe, SlotsInv, SessionTypes
<1>10. OwnersInv'
  <2>1. ASSUME NEW t \in Thread, Running(t) PROVE own[t] \in Born /\ HasRib(own[t])' /\ AsItsPeer(t)'
    <3>1. own[t] \in Born /\ HasRib(own[t]) /\ AsItsPeer(t)
      BY <2>1 DEF Safe, OwnersInv, ThreadTypes
    <3>2. ~(Ends(m) /\ m.of = own[t])
      BY <1>3, <2>1 DEF Unowned
    <3> QED BY <1>2, <1>4, <1>5, <3>1, <3>2 DEF HasRib, Labeled, AsItsPeer, threadVars
  <2> QED BY <1>2, <2>1 DEF Safe, OwnersInv, HasRib, Labeled, AsItsPeer, Running, threadVars
<1>11. LabelInv'
  BY <1>2 DEF LabelInv, Waiting
<1>12. XmlInv'
  BY <1>2, <1>4, <1>5 DEF Safe, XmlInv, InPlace, Bare, ReaderTypes, Message, Ends
<1>13. \A n \in Born : OutOfPeerQ(n)' => OutOfPeerQ(n)
  <2>1. label'.pc # "forward"
    BY <1>2 DEF Waiting
  <2> QED BY <1>1, <1>2, <1>8, <2>1 DEF OutOfPeerQ
<1>14. ASSUME NEW x \in Message, Fits(x) PROVE Fits(x)'
  <2>1. CASE Ends(x) \/ x.type = "UPDATE"
    <3>1. x.of \in Born /\ ~OutOfPeerQ(x.of) /\ ~(Ends(m) /\ m.of = x.of)
      BY <1>1, <1>2, <1>14, <2>1 DEF Fits, InPlace, Message, OutOfPeerQ
    <3> QED BY <1>5, <1>13, <1>14, <3>1 DEF Fits, Ends
  <2>2. CASE ~(Ends(x) \/ x.type = "UPDATE")
    BY <2>2 DEF Fits, Ends
  <2> QED BY <2>1, <2>2
<1>15. PeerQInv'
  <2>1. 0 \in {0, 1} /\ Len(peerQ') = Len(peerQ) - 0 /\ \A k \in 1..Len(peerQ') : peerQ'[k] = peerQ[k + 0]
    BY <1>2 DEF QueueTypes
  <2> QED BY <1>14, <2>1, PeerQKept
<1> QED BY <1>8, <1>9, <1>10, <1>11, <1>12, <1>15 DEF Safe
----------------------------------------------------------------------------
(* The XML thread.                                                         *)

LEMMA XmlReadSafe ==
  ASSUME Types, Types', Safe, XmlRead
  PROVE  Safe'
<1> USE DEF Types, TypeOK
<1>1. /\ Reading /\ UNCHANGED <<label, peerQ>> /\ xml.pc = "read"
      /\ labeledQ # <<>> /\ labeledQ' = Tail(labeledQ)
  BY DEF XmlRead, sessionVars, peerVars, Reading
<1>2. /\ 1 \in 1..Len(labeledQ) /\ Len(labeledQ') = Len(labeledQ) - 1
      /\ \A k \in 1..Len(labeledQ') : k + 1 \in 1..Len(labeledQ) /\ labeledQ'[k] = labeledQ[k + 1]
  BY <1>1, TakeMessage DEF QueueTypes
<1>3. PICK m \in Message : m = Head(labeledQ) /\ m = labeledQ[1]
  BY <1>1, TakeMessage DEF QueueTypes
<1>4. Ends(m) => Past(m)
  BY <1>2, <1>3 DEF Safe, LabeledQInv, Past
<1>5. xml' = IF Ends(m) THEN [pc |-> "destroy", bmf |-> m] ELSE xml
  BY <1>3, <1>4 DEF XmlRead, Past, InPlace
<1>6. \A n : PastLabel(n)' => PastLabel(n)
  <2>1. ASSUME NEW n, AtXml(n)' PROVE PastLabel(n)
    <3>1. Ends(m) /\ m.of = n
      BY <1>1, <1>5, <2>1 DEF AtXml
    <3> QED BY <1>2, <1>3, <3>1 DEF PastLabel
  <2>2. ASSUME NEW n, NEW k \in 1..Len(labeledQ'), Ends(labeledQ'[k]), labeledQ'[k].of = n
        PROVE  PastLabel(n)
    BY <1>2, <2>2 DEF PastLabel
  <2> QED BY <2>1, <2>2 DEF PastLabel, Ends
<1>7. SlotsInv'
  BY <1>1, <1>5 DEF Safe, SlotsInv, Reading
<1>8. OwnersInv'
  BY <1>1, ReadingKeeps DEF Safe
<1>9. LabelInv'
  BY <1>1, <1>6, ReadingKeeps DEF Safe, LabelInv, Reading, Ends
<1>10. XmlInv'
  BY <1>1, <1>4, <1>5, ReadingKeeps DEF XmlInv, Past, Ends, Reading
<1>11. LabeledQInv'
  <2>1. ASSUME NEW x \in Message, Ends(x), Past(x), NEW j \in 2..Len(labeledQ), x = labeledQ[j]
        PROVE  Past(x)'
    <3>1. Ends(m) => m.of # x.of
      <4>1. j \in 1..Len(labeledQ) /\ 1 \in 1..(j - 1)
        BY DEF QueueTypes
      <4> QED BY <1>3, <2>1, <4>1 DEF Safe, LabeledQInv
    <3>2. ~AtXml(x.of)'
      BY <1>1, <1>5, <3>1 DEF AtXml
    <3> QED BY <1>1, <2>1, <3>2, ReadingKeeps DEF Past, Reading
  <2>2. 1 \in {0, 1} /\ Len(labeledQ') = Len(labeledQ) - 1
        /\ \A k \in 1..Len(labeledQ') : labeledQ'[k] = labeledQ[k + 1]
    BY <1>2
  <2>3. \A x \in Message : Ends(x) /\ Past(x) /\ (\E j \in (1 + 1)..Len(labeledQ) : x = labeledQ[j])
                             => Past(x)'
    BY <2>1
  <2> QED BY <2>2, <2>3, LabeledQKept
<1>12. PeerQInv'
  <2>1. \A n : OutOfPeerQ(n)' => OutOfPeerQ(n)
    BY <1>1, <1>6 DEF OutOfPeerQ, Ends
  <2>2. \A x \in Message : Fits(x) => Fits(x)'
    BY <1>1, <2>1, ReadingKeeps DEF Fits, Ends
  <2>3. 0 \in {0, 1} /\ Len(peerQ') = Len(peerQ) - 0 /\ \A k \in 1..Len(peerQ') : peerQ'[k] = peerQ[k + 0]
    BY <1>1 DEF QueueTypes
  <2> QED BY <2>2, <2>3, PeerQKept
<1> QED BY <1>7, <1>8, <1>9, <1>10, <1>11, <1>12 DEF Safe

\* The structure is freed: nobody runs on it, and no message but the one in
\* hand is about it.
LEMMA XmlDestroySafe ==
  ASSUME Types, Types', Safe, XmlDestroy
  PROVE  Safe'
<1> USE DEF Types, TypeOK
<1>1. /\ UNCHANGED <<threadVars, Sessions, born, relabelled, Peers, label, peerQ, labeledQ>>
      /\ xml.pc = "destroy" /\ xml' = [xml EXCEPT !.pc = "clear"]
  BY DEF XmlDestroy, queueVars, peerVars
<1>2. xml'.pc = "clear" /\ xml'.bmf = xml.bmf
  BY <1>1 DEF ReaderTypes
<1>3. /\ \A n \in Born : /\ session'[n].rib = session[n].rib
                         /\ session'[n].remade = session[n].remade
                         /\ session'[n].labelAction = session[n].labelAction
      /\ \A n \in Born : n # Sessions[xml.bmf.sessionID] => session'[n].heap = session[n].heap
  BY XmlDestroyEffect
<1>4. /\ \A x : InPlace(x)' <=> InPlace(x)
      /\ \A n : (Unowned(n)' <=> Unowned(n)) /\ (AtXml(n)' <=> AtXml(n))
      /\ \A n \in Born : /\ HasRib(n)' <=> HasRib(n)
                         /\ (Labeled(n)' <=> Labeled(n)) /\ (Bare(n)' <=> Bare(n))
  BY <1>1, <1>2, <1>3 DEF threadVars, InPlace, Unowned, HasRib, Labeled, Bare, Running, AtXml
<1>5. \A n : (PastLabel(n)' <=> PastLabel(n)) /\ (OutOfPeerQ(n)' <=> OutOfPeerQ(n))
  BY <1>1, <1>4 DEF PastLabel, OutOfPeerQ, Ends
<1>6. \A x \in Message : InPlace(x) => x.of \in Born
  BY DEF InPlace, Message
<1>7. SlotsInv'
  <2>1. xml.bmf.sessionID \in Slot
    BY DEF ReaderTypes, Message
  <2>2. \A s \in Slot : s # xml.bmf.sessionID /\ Sessions[s] # NULL =>
          Sessions[s] \in Born /\ Sessions[s] # Sessions[xml.bmf.sessionID]
    BY <2>1 DEF Safe, SlotsInv, SessionTypes
  <2> QED BY <1>1, <1>2, <1>3, <2>2 DEF Safe, SlotsInv
<1>8. OwnersInv'
  <2>1. \A t \in Thread : Running(t) => own[t] \in Born
    BY DEF Safe, OwnersInv, ThreadTypes
  <2> QED BY <1>1, <1>3, <1>4, <2>1 DEF Safe, OwnersInv, AsItsPeer, threadVars, Running
<1>9. LabelInv'
  <2>1. label.bmf \in Message
    BY DEF ReaderTypes
  <2> QED BY <1>1, <1>4, <1>5, <1>6, <2>1 DEF Safe, LabelInv, Ends
<1>10. XmlInv'
  <2>1. xml.bmf \in Message
    BY DEF ReaderTypes
  <2> QED BY <1>1, <1>2, <1>3, <1>4, <1>6, <2>1 DEF Safe, XmlInv, Ends
<1>11. LabeledQInv'
  <2>1. \A x \in Message : Past(x) => Past(x)'
    BY <1>3, <1>4, <1>6 DEF Past
  <2>2. 0 \in {0, 1} /\ Len(labeledQ') = Len(labeledQ) - 0
        /\ \A k \in 1..Len(labeledQ') : labeledQ'[k] = labeledQ[k + 0]
    BY <1>1 DEF QueueTypes
  <2> QED BY <2>1, <2>2, LabeledQKept
<1>12. PeerQInv'
  <2>1. \A x \in Message : Fits(x) => Fits(x)'
    BY <1>4, <1>5, <1>6 DEF Fits, Ends
  <2>2. 0 \in {0, 1} /\ Len(peerQ') = Len(peerQ) - 0 /\ \A k \in 1..Len(peerQ') : peerQ'[k] = peerQ[k + 0]
    BY <1>1 DEF QueueTypes
  <2> QED BY <2>1, <2>2, PeerQKept
<1> QED BY <1>7, <1>8, <1>9, <1>10, <1>11, <1>12 DEF Safe

\* The slot is cleared: all that is in place is in other slots.
LEMMA XmlClearSafe ==
  ASSUME Types, Types', Safe, XmlClear
  PROVE  Safe'
<1> USE DEF Types, TypeOK
<1>1. /\ UNCHANGED <<threadVars, session, born, relabelled, Peers, label, peerQ, labeledQ>>
      /\ xml.pc = "clear" /\ Sessions' = [Sessions EXCEPT ![xml.bmf.sessionID] = NULL]
      /\ xml' = [pc |-> "read", bmf |-> NoMessage]
  BY DEF XmlClear, queueVars, peerVars
<1>2. PICK m \in Message : m = xml.bmf
  BY DEF ReaderTypes
<1>3. InPlace(m) /\ Unowned(m.of) /\ m.of \in Born /\ AtXml(m.of) /\ m.sessionID \in Slot
      /\ Sessions[m.sessionID] = m.of
  BY <1>1, <1>2 DEF Safe, XmlInv, InPlace, Message, AtXml
<1>4. /\ Sessions'[m.sessionID] = NULL
      /\ \A s \in Slot : s # m.sessionID => Sessions'[s] = Sessions[s]
  BY <1>1, <1>2, <1>3 DEF SessionTypes
<1>5. \A x \in Message : InPlace(x) /\ x.of # m.of => InPlace(x)'
  BY <1>3, <1>4 DEF InPlace, Message
<1>6. /\ \A n : (Unowned(n)' <=> Unowned(n)) /\ (HasRib(n)' <=> HasRib(n)) /\ ~AtXml(n)'
      /\ \A n : (Labeled(n)' <=> Labeled(n)) /\ (Bare(n)' <=> Bare(n))
  BY <1>1 DEF threadVars, Unowned, HasRib, Labeled, Bare, Running, AtXml
<1>7. \A n : (PastLabel(n)' => PastLabel(n)) /\ (OutOfPeerQ(n)' => OutOfPeerQ(n))
  BY <1>1, <1>6 DEF PastLabel, OutOfPeerQ, Ends
<1>8. PastLabel(m.of) /\ OutOfPeerQ(m.of)
  BY <1>3 DEF PastLabel, OutOfPeerQ
<1>9. SlotsInv'
  <2>1. \A s \in Slot : Sessions[s] # NULL /\ s # m.sessionID => session[Sessions[s]].heap = "live"
    BY <1>2 DEF Safe, SlotsInv
  <2>2. born \in Nat /\ \A s \in Slot : Sessions'[s] = NULL \/ Sessions'[s] = Sessions[s]
    BY <1>4 DEF SessionTypes
  <2>3. \A s \in Slot : Sessions'[s] <= born'
    BY <1>1, <2>2 DEF Safe, SlotsInv, NULL
  <2>4. \A s, u \in Slot : Sessions'[s] = Sessions'[u] => s = u \/ Sessions'[s] = NULL
    BY <2>2 DEF Safe, SlotsInv
  <2>5. \A s \in Slot : Sessions'[s] # NULL => session'[Sessions'[s]].heap = "live"
    BY <1>1, <1>4, <2>1
  <2> QED BY <2>3, <2>4, <2>5 DEF SlotsInv
<1>10. OwnersInv'
  <2>1. ASSUME NEW t \in Thread, Running(t) PROVE Sessions'[i[t]] = own[t]
    <3>1. i[t] \in Slot /\ own[t] = Sessions[i[t]] /\ own[t] # m.of
      BY <1>3, <2>1 DEF Safe, OwnersInv, SlotHeld, Unowned
    <3> QED BY <1>3, <1>4, <3>1
  <2> QED BY <1>1, <1>6, <2>1 DEF Safe, OwnersInv, threadVars, Running, AsItsPeer
<1>11. LabelInv'
  <2>1. label.bmf \in Message
    BY DEF ReaderTypes
  <2> QED BY <1>1, <1>5, <1>6, <1>7, <1>8, <2>1 DEF Safe, LabelInv, Ends
<1>12. XmlInv'
  BY <1>1 DEF XmlInv
<1>13. LabeledQInv'
  <2>1. \A x \in Message : Past(x) => Past(x)'
    BY <1>1, <1>3, <1>5, <1>6 DEF Past
  <2>2. 0 \in {0, 1} /\ Len(labeledQ') = Len(labeledQ) - 0
        /\ \A k \in 1..Len(labeledQ') : labeledQ'[k] = labeledQ[k + 0]
    BY <1>1 DEF QueueTypes
  <2> QED BY <2>1, <2>2, LabeledQKept
<1>14. PeerQInv'
  <2>1. \A x \in Message : Fits(x) => Fits(x)'
    BY <1>5, <1>6, <1>7, <1>8 DEF Fits, Ends
  <2>2. 0 \in {0, 1} /\ Len(peerQ') = Len(peerQ) - 0 /\ \A k \in 1..Len(peerQ') : peerQ'[k] = peerQ[k + 0]
    BY <1>1 DEF QueueTypes
  <2> QED BY <2>1, <2>2, PeerQKept
<1> QED BY <1>9, <1>10, <1>11, <1>12, <1>13, <1>14 DEF Safe

----------------------------------------------------------------------------
(* The route refresh thread and the command line.                          *)

\* What the route refresh thread sends ends no session.
LEMMA TableSafe ==
  ASSUME SessionLifeAssumption, Types, Types', Safe, Reading, UNCHANGED <<label, xml, peerQ>>,
         NEW s \in Slot, labeledQ' = Put(labeledQ, Table(s))
  PROVE  Safe'
<1> USE DEF Types, TypeOK
<1>1. PICK m \in Message : m = Table(s)
  BY Messages
<1>2. ~Ends(m) /\ labeledQ' = Put(labeledQ, m)
  BY <1>1 DEF Table, Ends
<1>3. \A x \in Message : Past(x) => Past(x)'
  BY ReadingKeeps DEF Past, AtXml, Reading
<1>4. LabeledQInv' /\ \A n \in Born : PastLabel(n)' => PastLabel(n)
  BY <1>2, <1>3, LabeledQPut
<1>5. \A n \in Born : OutOfPeerQ(n)' => OutOfPeerQ(n)
  BY <1>4 DEF OutOfPeerQ, Ends
<1>6. \A x \in Message : InPlace(x) => x.of \in Born
  BY DEF InPlace, Message
<1>7. SlotsInv' /\ OwnersInv' /\ XmlInv'
  BY ReadingKeeps DEF Safe, SlotsInv, XmlInv, Reading, Ends
<1>8. LabelInv'
  <2>1. label.bmf \in Message
    BY DEF ReaderTypes
  <2> QED BY <1>4, <1>6, <2>1, ReadingKeeps DEF Safe, LabelInv, Reading, Ends
<1>9. PeerQInv'
  <2>1. \A x \in Message : Fits(x) => Fits(x)'
    BY <1>5, <1>6, ReadingKeeps DEF Fits, Ends
  <2>2. 0 \in {0, 1} /\ Len(peerQ') = Len(peerQ) - 0 /\ \A k \in 1..Len(peerQ') : peerQ'[k] = peerQ[k + 0]
    BY DEF QueueTypes
  <2> QED BY <2>1, <2>2, PeerQKept
<1> QED BY <1>4, <1>7, <1>8, <1>9 DEF Safe

LEMMA PeriodicSafe ==
  ASSUME SessionLifeAssumption, Types, Types', Safe, PeriodicThread
  PROVE  Safe'
<1> USE DEF Types, TypeOK
<1>1. ASSUME RoundStart \/ RoundEnd \/ TransferFlag PROVE Safe'
  <2>1. UNCHANGED <<threadVars, Sessions, born, relabelled, Peers, label, xml, peerQ, labeledQ>>
    BY <1>1 DEF RoundStart, RoundEnd, TransferFlag, sessionVars, queueVars, peerVars
  <2>2. \A n \in Born : Alike(session'[n], session[n])
    BY <1>1, TransferFlagAlike DEF RoundStart, RoundEnd, sessionVars, Alike
  <2>3. Calm
    BY <2>1, <2>2 DEF Calm, Alike, Bare, threadVars, Running
  <2> QED BY <2>1, <2>3, QuietSafe
<1>2. ASSUME TransferStart \/ TransferCheck \/ TransferBucket PROVE Safe'
  <2>1. Reading /\ UNCHANGED <<label, xml, peerQ>> /\ UNCHANGED born
    BY <1>2 DEF TransferStart, TransferCheck, TransferBucket, sessionVars, queueVars, peerVars, Reading
  <2>2. CASE UNCHANGED labeledQ
    <3>1. Calm
      BY <2>1, <2>2 DEF Calm, Bare, Reading, threadVars, Running
    <3> QED BY <2>1, <3>1, QuietSafe
  <2>3. CASE \E s \in Slot : labeledQ' = Put(labeledQ, Table(s))
    BY <2>1, <2>3, TableSafe
  <2>4. UNCHANGED labeledQ \/ \E s \in Slot : labeledQ' = Put(labeledQ, Table(s))
    <3>1. CASE TransferStart
      <4> DEFINE s == CHOOSE k \in periodic.list : \A j \in periodic.list : k <= j
      <4>1. s \in Slot
        BY <3>1, FirstSlot DEF TransferStart, ReaderTypes, Refresher
      <4> HIDE DEF s
      <4>2. UNCHANGED labeledQ \/ labeledQ' = Put(labeledQ, Table(s))
        BY <3>1 DEF TransferStart, WriteLabeledQ, queueVars, s
      <4> QED BY <4>1, <4>2
    <3>2. CASE TransferCheck \/ TransferBucket
      BY <3>2 DEF TransferCheck, TransferBucket, WriteLabeledQ, queueVars, ReaderTypes, Refresher
    <3> QED BY <1>2, <3>1, <3>2
  <2> QED BY <2>2, <2>3, <2>4
<1> QED BY <1>1, <1>2 DEF PeriodicThread

LEMMA CommandSafe ==
  ASSUME Types, Types', Safe, CommandLine
  PROVE  Safe'
<1> USE DEF Types, TypeOK
<1>1. UNCHANGED <<Sessions, born, label, xml, peerQ, labeledQ, i, own>>
  BY DEF CommandLine, LaunchAllPeers, SetPeerEnabledFlag, ReconnectPeer, DeletePeer,
         SetPeerLabelAction, threadVars, sessionVars, queueVars
<1>2. \A t \in Thread : Running(t)' => Running(t)
  <2>1. CASE LaunchAllPeers
    BY <2>1 DEF LaunchAllPeers, Running
  <2>2. CASE UNCHANGED pc
    BY <2>2 DEF Running
  <2> QED BY <2>1, <2>2 DEF CommandLine, SetPeerEnabledFlag, ReconnectPeer, DeletePeer,
         SetPeerLabelAction, threadVars
<1>3. \A n \in Born : /\ session'[n].heap = session[n].heap
                      /\ Bare(n) => (session'[n].rib => session'[n].remade)
  <2>1. ASSUME NEW p \in Peer, NEW a \in Action, SetPeerLabelAction(p, a)
        PROVE  \A n \in Born : /\ session'[n].heap = session[n].heap
                               /\ Bare(n) => (session'[n].rib => session'[n].remade)
    BY <2>1, SetPeerLabelActionEffect
  <2>2. ASSUME NEW p \in Peer, ReconnectPeer(p)
        PROVE  \A n \in Born : /\ session'[n].heap = session[n].heap
                               /\ Bare(n) => (session'[n].rib => session'[n].remade)
    BY <2>2, ReconnectAlike DEF Alike, Bare
  <2> QED BY <2>1, <2>2 DEF CommandLine, LaunchAllPeers, SetPeerEnabledFlag, DeletePeer, sessionVars, Bare
<1>4. ~relabelled' => /\ ~relabelled
                      /\ \A n \in Born : /\ session'[n].rib = session[n].rib
                                         /\ session'[n].labelAction = session[n].labelAction
  <2>1. ASSUME NEW p \in Peer, ReconnectPeer(p)
        PROVE  \A n \in Born : /\ session'[n].rib = session[n].rib
                               /\ session'[n].labelAction = session[n].labelAction
    BY <2>1, ReconnectAlike DEF Alike
  <2> QED BY <2>1 DEF CommandLine, LaunchAllPeers, SetPeerEnabledFlag, ReconnectPeer, DeletePeer,
                       SetPeerLabelAction, sessionVars, peerVars
<1>5. ~relabelled' => \A p \in Peer : Peers'[p].labelAction = Peers[p].labelAction
  <2>1. ASSUME NEW q \in Peer, NEW e \in BOOLEAN, SetPeerEnabledFlag(q, e) \/ DeletePeer(q)
        PROVE  \A p \in Peer : Peers'[p].labelAction = Peers[p].labelAction
    BY <2>1 DEF SetPeerEnabledFlag, DeletePeer, PeerTypes, Configuration
  <2>2. CASE LaunchAllPeers \/ \E q \in Peer : ReconnectPeer(q)
    BY <2>2 DEF LaunchAllPeers, ReconnectPeer
  <2> QED BY <2>1, <2>2 DEF CommandLine, SetPeerLabelAction
<1>6. Calm
  <2>1. UNCHANGED <<Sessions, born, label, xml, labeledQ>>
    BY <1>1
  <2>2. \A t \in Thread : Running(t)' => Running(t) /\ i'[t] = i[t] /\ own'[t] = own[t]
    BY <1>1, <1>2
  <2>4. \A n \in Born : session'[n].heap = session[n].heap
    BY <1>3
  <2>5. \A n \in Born : Bare(n) /\ Unowned(n) => (session'[n].rib => session'[n].remade)
    BY <1>3
  <2>3. ~relabelled' => /\ ~relabelled
                        /\ \A p \in Peer : Peers'[p].labelAction = Peers[p].labelAction
                        /\ \A n \in Born : /\ session'[n].rib = session[n].rib
                                           /\ session'[n].labelAction = session[n].labelAction
    BY <1>4, <1>5
  <2> QED BY <2>1, <2>2, <2>3, <2>4, <2>5, Zenon DEF Calm
<1> QED BY <1>1, <1>6, QuietSafe

----------------------------------------------------------------------------
(* The invariant holds.                                                    *)

THEOREM TypesStep == SessionLifeAssumption /\ Types /\ [Next]_vars => Types'
<1> SUFFICES ASSUME SessionLifeAssumption, Types, [Next]_vars PROVE Types'
  OBVIOUS
<1>1. ASSUME NEW t \in Thread, PeerThread(t) PROVE Types'
  BY <1>1, ScanSlotTypes, TakeSlotTypes, TakeFailsTypes, LoopTopTypes, RunFsmTypes, GiveUpTypes,
     AnnounceChangeTypes, TakeConfigTypes, RelabelTypes, SendRouteRefreshTypes, NothingToDoTypes,
     EndThreadTypes DEF PeerThread
<1>2. ASSUME LabelThread PROVE Types'
  BY <1>2, LabelReadTypes, LabelApplyTypes, LabelForwardTypes DEF LabelThread
<1>3. ASSUME XmlThread PROVE Types'
  BY <1>3, XmlReadTypes, XmlDestroyTypes, XmlClearTypes DEF XmlThread
<1>4. ASSUME PeriodicThread PROVE Types'
  BY <1>4, RoundStartTypes, TransferStartTypes, TransferCheckTypes, TransferBucketTypes,
     TransferFlagTypes, RoundEndTypes DEF PeriodicThread
<1>5. ASSUME CommandLine PROVE Types'
  BY <1>5, SetPeerEnabledFlagTypes, ReconnectPeerTypes, DeletePeerTypes, LaunchAllPeersTypes,
     SetPeerLabelActionTypes DEF CommandLine
<1>6. CASE UNCHANGED vars
  BY <1>6 DEF vars, threadVars, sessionVars, queueVars, peerVars, Types, TypeOK, ThreadTypes,
     SessionTypes, PeerTypes, QueueTypes, ReaderTypes, SlotHeld, Running, BucketInTable
<1> QED BY <1>1, <1>2, <1>3, <1>4, <1>5, <1>6 DEF Next

LEMMA PeerThreadSafe ==
  ASSUME SessionLifeAssumption, Types, Types', Safe, ~collided', NEW t \in Thread, PeerThread(t)
  PROVE  Safe'
BY ScanSlotSafe, TakeSlotSafe, LoopTopSafe, RunFsmSafe, EndingsSafe, AnnounceChangeSafe,
   ConfigSafe DEF PeerThread

LEMMA SafeStep ==
  ASSUME SessionLifeAssumption, Types, Types', Safe, ~collided', [Next]_vars
  PROVE  Safe'
<1>1. CASE UNCHANGED vars
  <2>1. Calm /\ UNCHANGED peerQ
    BY <1>1 DEF vars, threadVars, sessionVars, queueVars, peerVars, Calm, Bare, Running
  <2> QED BY <2>1, QuietSafe
<1>2. CASE LabelThread
  BY <1>2, LabelReadSafe, LabelApplySafe, LabelForwardSafe DEF LabelThread
<1>3. CASE XmlThread
  BY <1>3, XmlReadSafe, XmlDestroySafe, XmlClearSafe DEF XmlThread
<1> QED BY <1>1, <1>2, <1>3, PeerThreadSafe, PeriodicSafe, CommandSafe DEF Next

\* A slot taken twice is remembered.
LEMMA CollidedStays ==
  ASSUME [Next]_vars, collided
  PROVE  collided'
<1>1. ASSUME NEW t \in Thread, PeerThread(t) PROVE collided'
  BY <1>1 DEF PeerThread, ScanSlot, TakeSlot, TakeFails, LoopTop, RunFsm, GiveUp, AnnounceChange,
     TakeConfig, Relabel, SendRouteRefresh, NothingToDo, EndThread, CleanupSession, sessionVars
<1>2. ASSUME LabelThread \/ XmlThread \/ PeriodicThread PROVE collided'
  BY <1>2 DEF LabelThread, LabelRead, LabelApply, LabelForward, XmlThread, XmlRead, XmlDestroy,
     XmlClear, PeriodicThread, RoundStart, TransferStart, TransferCheck, TransferBucket,
     TransferFlag, RoundEnd, sessionVars
<1>3. ASSUME CommandLine PROVE collided'
  BY <1>3 DEF CommandLine, LaunchAllPeers, SetPeerEnabledFlag, ReconnectPeer, DeletePeer,
     SetPeerLabelAction, sessionVars
<1> QED BY <1>1, <1>2, <1>3 DEF Next, vars, sessionVars

LEMMA InitSafe ==
  ASSUME SessionLifeAssumption, Init
  PROVE  Safe
<1>1. /\ peerQ = <<>> /\ labeledQ = <<>> /\ label.pc = "read" /\ xml.pc = "read" /\ born = 0
      /\ \A s \in Slot : Sessions[s] = NULL
      /\ \A t \in Thread : ~Running(t)
  BY DEF Init, Running
<1> QED BY <1>1 DEF Safe, SlotsInv, OwnersInv, PeerQInv, LabelInv, LabeledQInv, XmlInv, NULL

\* The invariant, for every number of peers, threads, slots, sessions and
\* messages: each fact about the array Sessions, about who runs on a session
\* and about the messages that are on their way.
THEOREM Invariant == Spec => []IInv
<1>1. Init => IInv
  BY SessionLifeAssumption, InitTypes, InitSafe DEF IInv
<1>2. IInv /\ [Next]_vars => IInv'
  <2> SUFFICES ASSUME IInv, [Next]_vars PROVE IInv'
    OBVIOUS
  <2>1. Types'
    BY SessionLifeAssumption, TypesStep DEF IInv
  <2>2. ASSUME ~collided' PROVE Safe'
    BY <2>1, <2>2, SessionLifeAssumption, CollidedStays, SafeStep DEF IInv
  <2> QED BY <2>1, <2>2 DEF IInv
<1> QED BY <1>1, <1>2, PTL DEF Spec

\* Every variable keeps its type: queues stay within QUEUE_MAX_ITEMS, threads
\* and messages name slots of the array.
THEOREM TypeCorrect == Spec => []TypeOK
<1>1. IInv => TypeOK
  BY DEF IInv, Types
<1> QED BY <1>1, Invariant, PTL

----------------------------------------------------------------------------
(* What follows from it.                                                   *)

\* A peer's thread that runs has the session that it made: the XML thread has
\* neither freed it nor given its slot away.
THEOREM ThreadsKeepTheirSessions == Spec => []OwnSession
<1>1. IInv => OwnSession
  <2> SUFFICES ASSUME Types, Safe, NEW t \in Thread, Running(t)
               PROVE  Held(t) = own[t] /\ Live(own[t])
    BY DEF IInv, OwnSession
  <2>1. i[t] \in Slot /\ own[t] # NULL /\ Sessions[i[t]] = own[t]
    BY DEF Types, SlotHeld, Safe, OwnersInv
  <2>2. ~(xml.pc = "clear" /\ xml.bmf.sessionID = i[t])
    BY <2>1 DEF Safe, XmlInv, InPlace, Unowned
  <2> QED BY <2>1, <2>2 DEF Safe, SlotsInv, Held, Live
<1> QED BY <1>1, Invariant, PTL

\* The labeling thread uses tables and sessions that are there.
THEOREM LabelingIsSafe == Spec => []LabelSafe
<1>1. IInv => LabelSafe
  <2> SUFFICES ASSUME Types, Safe PROVE LabelSafe
    BY DEF IInv, LabelSafe
  <2>1. ASSUME NEW m \in Message, InPlace(m), ~PastLabel(m.of)
        PROVE  Live(Sessions[m.sessionID]) /\ Sessions[m.sessionID] = m.of
    <3>1. m.sessionID \in Slot /\ Sessions[m.sessionID] = m.of /\ m.of # NULL
      BY <2>1 DEF InPlace, Message
    <3>2. ~(xml.pc = "clear" /\ xml.bmf.sessionID = m.sessionID)
      BY <2>1, <3>1 DEF Safe, XmlInv, InPlace, PastLabel, AtXml
    <3> QED BY <3>1, <3>2 DEF Safe, SlotsInv, Live
  <2>2. label.bmf \in Message
    BY DEF Types, TypeOK, ReaderTypes
  <2> QED BY <2>1, <2>2 DEF LabelSafe, Safe, LabelInv, HasRib, Labeled
<1> QED BY <1>1, Invariant, PTL

\* An update changes the tables of the session that heard it.
THEOREM UpdatesReachTheirSession == Spec => []UpdatesToOwnRib
<1>1. IInv => UpdatesToOwnRib
  BY DEF IInv, Safe, LabelInv, UpdatesToOwnRib
<1> QED BY <1>1, Invariant, PTL

\* The message that ends a session is on its way once; it finds its session in
\* the slot that it names, and no thread running on it.
THEOREM OneEndPerSession == Spec => []EndsTheRightSession
<1>1. ASSUME Types, Safe, NEW x \in Endings
      PROVE  /\ InPlace(At(x)) /\ Unowned(At(x).of)
             /\ \/ /\ x[2] \in 1..Len(peerQ) /\ x = <<"peerQ", x[2]>> /\ At(x) = peerQ[x[2]]
                   /\ ~OutOfPeerQ(At(x).of)
                \/ /\ x[2] \in 1..Len(labeledQ) /\ x = <<"labeledQ", x[2]>>
                   /\ At(x) = labeledQ[x[2]]
                   /\ PastLabel(At(x).of) /\ ~AtXml(At(x).of)
                \/ /\ x = <<"label", 1>> /\ OutOfPeerQ(At(x).of) /\ ~PastLabel(At(x).of)
                \/ x = <<"xml", 1>> /\ AtXml(At(x).of)
  <2>1. x \in Positions /\ Ends(At(x))
    BY <1>1 DEF Endings
  <2>2. CASE x \in {"peerQ"} \X (1..Len(peerQ))
    <3>1. x[2] \in 1..Len(peerQ) /\ x = <<"peerQ", x[2]>> /\ At(x) = peerQ[x[2]]
      BY <2>2 DEF At
    <3> QED BY <1>1, <2>1, <3>1 DEF Safe, PeerQInv
  <2>3. CASE x \in {"labeledQ"} \X (1..Len(labeledQ))
    <3>1. x[2] \in 1..Len(labeledQ) /\ x = <<"labeledQ", x[2]>> /\ At(x) = labeledQ[x[2]]
      BY <2>3 DEF At
    <3> QED BY <1>1, <2>1, <3>1 DEF Safe, LabeledQInv, PastLabel
  <2>4. CASE label.pc = "forward" /\ x = <<"label", 1>>
    <3>1. At(x) = label.bmf
      BY <2>4 DEF At
    <3> QED BY <1>1, <2>1, <2>4, <3>1 DEF Safe, LabelInv, OutOfPeerQ
  <2>5. CASE xml.pc # "read" /\ x = <<"xml", 1>>
    <3>1. At(x) = xml.bmf
      BY <2>5 DEF At
    <3> QED BY <1>1, <2>1, <2>5, <3>1 DEF Safe, XmlInv, AtXml
  <2> QED BY <2>1, <2>2, <2>3, <2>4, <2>5 DEF Positions
<1>2. ASSUME Types, Safe, NEW x \in Endings, NEW y \in Endings, At(x).of = At(y).of
      PROVE  x = y
  <2>1. Ends(At(x)) /\ Ends(At(y))
    BY DEF Endings
  <2>2. CASE /\ x[2] \in 1..Len(peerQ) /\ x = <<"peerQ", x[2]>> /\ At(x) = peerQ[x[2]]
             /\ y[2] \in 1..Len(peerQ) /\ y = <<"peerQ", y[2]>> /\ At(y) = peerQ[y[2]]
    <3> DEFINE j == x[2]
               k == y[2]
    <3>1. ~(j < k) /\ ~(k < j)
      <4> HIDE DEF j, k
      <4> QED BY <1>2, <2>1, <2>2 DEF Safe, PeerQInv, j, k
    <3> QED BY <2>2, <3>1
  <2>3. CASE /\ x[2] \in 1..Len(labeledQ) /\ x = <<"labeledQ", x[2]>> /\ At(x) = labeledQ[x[2]]
             /\ y[2] \in 1..Len(labeledQ) /\ y = <<"labeledQ", y[2]>> /\ At(y) = labeledQ[y[2]]
    <3>1. ~(x[2] < y[2]) /\ ~(y[2] < x[2])
      BY <1>2, <2>1, <2>3 DEF Safe, LabeledQInv
    <3> QED BY <2>3, <3>1
  <2>4. PastLabel(At(x).of) => OutOfPeerQ(At(x).of)
    BY DEF OutOfPeerQ
  <2>5. AtXml(At(x).of) => PastLabel(At(x).of)
    BY DEF PastLabel
  <2> DEFINE n == At(x).of
             In(z) == \/ /\ z[2] \in 1..Len(peerQ) /\ z = <<"peerQ", z[2]>> /\ At(z) = peerQ[z[2]]
                         /\ ~OutOfPeerQ(n)
                      \/ /\ z[2] \in 1..Len(labeledQ) /\ z = <<"labeledQ", z[2]>>
                         /\ At(z) = labeledQ[z[2]]
                         /\ PastLabel(n) /\ ~AtXml(n)
                      \/ /\ z = <<"label", 1>> /\ OutOfPeerQ(n) /\ ~PastLabel(n)
                      \/ z = <<"xml", 1>> /\ AtXml(n)
  <2>6. In(x) /\ In(y)
    <3>1. In(x)
      BY <1>1, <1>2, Zenon
    <3>2. /\ \/ /\ y[2] \in 1..Len(peerQ) /\ y = <<"peerQ", y[2]>> /\ At(y) = peerQ[y[2]]
                /\ ~OutOfPeerQ(At(y).of)
             \/ /\ y[2] \in 1..Len(labeledQ) /\ y = <<"labeledQ", y[2]>>
                /\ At(y) = labeledQ[y[2]]
                /\ PastLabel(At(y).of) /\ ~AtXml(At(y).of)
             \/ /\ y = <<"label", 1>> /\ OutOfPeerQ(At(y).of) /\ ~PastLabel(At(y).of)
             \/ y = <<"xml", 1>> /\ AtXml(At(y).of)
      BY <1>1, <1>2, Zenon
    <3> QED BY <1>2, <3>1, <3>2
  <2> QED BY <2>2, <2>3, <2>4, <2>5, <2>6
<1>3. IInv => EndsTheRightSession
  BY <1>1, <1>2 DEF IInv, EndsTheRightSession, InPlace, Unowned
<1> QED BY <1>3, Invariant, PTL

\* Only the XML thread frees sessions.
LEMMA OnlyXmlFrees ==
  ASSUME Types, NEW n \in Born, session[n].heap = "live", session'[n].heap = "freed", [Next]_vars
  PROVE  XmlDestroy
<1> USE DEF Types, TypeOK
<1>1. ASSUME NEW t \in Thread, Held(t) # NULL, Running(t),
             LoopTop(t) \/ RunFsm(t) \/ GiveUp(t) \/ AnnounceChange(t) \/ TakeConfig(t)
             \/ Relabel(t) \/ SendRouteRefresh(t) \/ NothingToDo(t) \/ EndThread(t)
      PROVE  session'[n].heap = session[n].heap
  <2>1. Held(t) \in Born
    BY <1>1, HeldTypes
  <2>2. CASE GiveUp(t) \/ EndThread(t)
    BY <2>1, <2>2, CleanupAlike DEF GiveUp, EndThread, Alike
  <2> QED BY <1>1, <2>1, <2>2, RunFsmAlike, TakeConfigEffect, RelabelEffect, SendRouteRefreshAlike
          DEF LoopTop, AnnounceChange, NothingToDo, sessionVars, Alike
<1>2. ASSUME NEW t \in Thread, TakeSlot(t) PROVE session'[n].heap # "freed"
  <2>1. born' \in Born => session'[born'].heap = "live"
    BY <1>2 DEF TakeSlot, SessionTypes
  <2>2. n # born' => session'[n] = session[n]
    BY <1>2 DEF TakeSlot, SessionTypes
  <2> QED BY <2>1, <2>2
<1>3. ASSUME NEW t \in Thread, PeerThread(t) PROVE FALSE
  <2>1. ~(ScanSlot(t) \/ TakeFails(t) \/ TakeSlot(t))
    BY <1>2 DEF ScanSlot, TakeFails, sessionVars
  <2>2. Running(t) /\ Held(t) # NULL
    BY <1>3, <2>1 DEF PeerThread, ThreadTypes, Running
  <2> QED BY <1>1, <1>3, <2>1, <2>2 DEF PeerThread
<1>4. ~LabelThread
  BY LabelForwardEffect DEF LabelThread, LabelRead, LabelApply, sessionVars
<1>5. ~PeriodicThread
  BY TransferFlagAlike DEF PeriodicThread, RoundStart, TransferStart, TransferCheck,
     TransferBucket, RoundEnd, sessionVars, Alike
<1>6. ~CommandLine
  BY ReconnectAlike, SetPeerLabelActionEffect DEF CommandLine, LaunchAllPeers, SetPeerEnabledFlag,
     DeletePeer, sessionVars, Alike
<1>7. session' # session
  OBVIOUS
<1> QED BY <1>3, <1>4, <1>5, <1>6, <1>7 DEF Next, vars, sessionVars, XmlThread, XmlRead, XmlClear

\* A session is freed only after its tables have been deleted, but for tables
\* that a label command has made since.
THEOREM TablesGoFirst == Spec => NoTableLeaked
<1>1. IInv /\ [Next]_vars =>
        \A n \in Born : ~collided /\ session[n].heap = "live" /\ session'[n].heap = "freed"
                          => (session[n].rib => session[n].remade)
  <2> SUFFICES ASSUME Types, Safe, [Next]_vars, NEW n \in Born, session[n].heap = "live",
                      session'[n].heap = "freed"
               PROVE  Bare(n)
    BY DEF IInv, Bare
  <2>1. XmlDestroy
    BY OnlyXmlFrees
  <2>2. n = Sessions[xml.bmf.sessionID]
    BY <2>1, XmlDestroyEffect DEF Types, TypeOK
  <2> QED BY <2>1, <2>2 DEF XmlDestroy, Safe, XmlInv, InPlace
<1> QED BY <1>1, Invariant, PTL DEF Spec, NoTableLeaked

=============================================================================
