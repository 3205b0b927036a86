---------------------------- MODULE SessionLife ----------------------------
(***************************************************************************)
(* The life of BGP sessions across the threads of BGPmon.  A peer's thread *)
(* takes a slot of the array Sessions, runs the state machine on it, and   *)
(* gives the session up with a state-change message.  The message goes     *)
(* through peerQueue to the labeling thread, which deletes the session's   *)
(* RIB, and through labeledQueue to the XML thread, which frees it.  The   *)
(* periodic thread walks RIBs, the command line changes peers meanwhile.   *)
(***************************************************************************)
EXTENDS Integers, Sequences, FiniteSets

CONSTANTS
  Peer,              \* configured peers
  MaxThreads,        \* bound: threads ever launched for one peer
  MAX_SESSION_IDS,   \* slots of Sessions
  MaxBorn,           \* bound: sessions ever created
  QueueSize,         \* QUEUE_MAX_ITEMS of peerQueue and labeledQueue
  TableSize,         \* buckets of an attribute table
  Commands,          \* what the command line is used for
  MaxEvents,         \* bound: commands given and rounds of route refresh begun;
                     \* a label command counts one, everything else two
  RouteRefresh,      \* the peers support route refresh and it is enabled
  Transfers          \* RouteRefreshInterval is not zero

ASSUME SessionLifeAssumption ==
  /\ {MaxThreads, MAX_SESSION_IDS, MaxBorn, QueueSize, TableSize} \subseteq Nat \ {0}
  /\ MaxEvents \in Nat
  /\ Commands \subseteq {"enable", "disable", "clear", "delete", "launch", "label"}
  /\ {RouteRefresh, Transfers} \subseteq BOOLEAN

Slot == 0..(MAX_SESSION_IDS - 1)
Born == 1..MaxBorn          \* sessions by order of creation: what a pointer names
NULL == 0
NoSlot == -1

\* Open stands for OpenSent and OpenConfirm.
State == {"Idle", "Connect", "Open", "Established"}
Action == {"NoAction", "StoreRibOnly", "Label"}

\* Each thread of a peer; the first one is launched by main.
Thread == Peer \X (1..MaxThreads)

VARIABLES
  Sessions,    \* the array: for each slot a session or NULL
  session,     \* the structures, by creation
  born,        \* how many have been created
  Peers,       \* configured, enabled, sessionID, labelAction
  events,      \* how many commands and rounds there have been
  pc,          \* of the peer threads
  i,           \* their slot: the one looked at, then the one held
  oldState,    \* their session's state before the state machine ran
  peerQ, labeledQ,
  label,       \* the labeling thread: pc, the message read, the session used
  xml,         \* the XML thread: pc and the message read
  periodic,    \* the route refresh thread: pc, list, slot, pointer, bucket
  own,         \* history: the last session each thread created
  endedFrom,   \* history: the state in which a session was given up
  lost,        \* history: sessions whose last message a full queue dropped
  collided,    \* history: a slot was taken that another thread had taken
  relabelled   \* history: a session's label action was changed

threadVars == <<pc, i, oldState, own>>
sessionVars == <<Sessions, session, born, endedFrom, collided>>
peerVars == <<Peers, events, relabelled>>
queueVars == <<peerQ, labeledQ, lost>>
vars == <<threadVars, sessionVars, queueVars, peerVars, label, xml, periodic>>

(***************************************************************************)
(* Messages.  TABLE stands for TABLE_START, TABLE_TRANSFER and TABLE_STOP. *)
(* `of` is history: the session that a message is about.                   *)
(***************************************************************************)
Kind == {"UPDATE", "FSM_STATE_CHANGE", "TABLE"}
Message == [type : Kind, sessionID : Slot, from : State, to : State, of : Born \cup {NULL}]
NoMessage == [type |-> "UPDATE", sessionID |-> 0, from |-> "Idle", to |-> "Idle", of |-> NULL]

Update(s, n) == [type |-> "UPDATE", sessionID |-> s, from |-> "Established",
                 to |-> "Established", of |-> n]
Change(s, from, to, n) == [type |-> "FSM_STATE_CHANGE", sessionID |-> s,
                           from |-> from, to |-> to, of |-> n]
Table(s) == [type |-> "TABLE", sessionID |-> s, from |-> "Established",
             to |-> "Established", of |-> NULL]

\* Mutant: only what the comment of checkStateChangeMessage says is ended.
Ends_FromOpenOnly(m) == m.type = "FSM_STATE_CHANGE" /\ m.from \in {"Open", "Established"}
                        /\ m.to = "Idle"

\* checkStateChangeMessage: the message ends its session.
Ends(m) == m.type = "FSM_STATE_CHANGE" /\ m.from # "Connect" /\ m.to = "Idle"

\* Writing to a full queue moves its only reader to the tail first.
Put(q, m) == IF Len(q) = QueueSize THEN <<m>> ELSE Append(q, m)
Dropped(q) == IF Len(q) = QueueSize
              THEN {q[k].of : k \in {j \in 1..Len(q) : Ends(q[j])}} ELSE {}

WritePeerQ(m) == /\ peerQ' = Put(peerQ, m)
                 /\ lost' = lost \cup Dropped(peerQ)
                 /\ UNCHANGED labeledQ
WriteLabeledQ(m) == /\ labeledQ' = Put(labeledQ, m)
                    /\ lost' = lost \cup Dropped(labeledQ)

ThreadTypes ==
  /\ pc \in [Thread -> {"off", "scan", "take", "top", "fsm", "post", "conf",
                        "relabel", "end", "done"}]
  /\ i \in [Thread -> 0..MAX_SESSION_IDS]
  /\ oldState \in [Thread -> State]
  /\ own \in [Thread -> Born \cup {NULL}]

\* `remade` is history: the tables are not the ones the session was made with.
Structure == [heap : {"none", "live", "freed"}, state : State, labelAction : Action,
              rib : BOOLEAN, remade : BOOLEAN, reconnectFlag : BOOLEAN, retried : BOOLEAN,
              routeRefreshFlag : BOOLEAN]
SessionTypes ==
  /\ Sessions \in [Slot -> Born \cup {NULL}]
  /\ session \in [Born -> Structure]
  /\ born \in 0..MaxBorn
  /\ endedFrom \in [Born -> State \cup {"none"}]
  /\ collided \in BOOLEAN

Configuration == [configured : BOOLEAN, enabled : BOOLEAN, sessionID : Slot \cup {NoSlot},
                  labelAction : Action]
PeerTypes ==
  /\ Peers \in [Peer -> Configuration]
  /\ events \in 0..MaxEvents /\ relabelled \in BOOLEAN

QueueTypes ==
  /\ peerQ \in Seq(Message) /\ Len(peerQ) <= QueueSize
  /\ labeledQ \in Seq(Message) /\ Len(labeledQ) <= QueueSize
  /\ lost \subseteq Born \cup {NULL}

Refresher == [pc : {"round", "next", "check", "use", "flag"}, list : SUBSET Slot,
              sessionID : Slot, session : Born \cup {NULL}, i : 0..TableSize]
ReaderTypes ==
  /\ label \in [pc : {"read", "apply", "forward"}, bmf : Message, used : Born \cup {NULL}]
  /\ xml \in [pc : {"read", "destroy", "clear"}, bmf : Message]
  /\ periodic \in Refresher

TypeOK == ThreadTypes /\ SessionTypes /\ PeerTypes /\ QueueTypes /\ ReaderTypes

Init ==
  /\ Sessions = [s \in Slot |-> NULL]
  /\ session = [n \in Born |-> [heap |-> "none", state |-> "Idle", labelAction |-> "Label",
                                rib |-> FALSE, remade |-> FALSE, reconnectFlag |-> FALSE,
                                retried |-> FALSE, routeRefreshFlag |-> FALSE]]
  /\ born = 0
  /\ Peers \in [Peer -> [configured : {TRUE}, enabled : {TRUE}, sessionID : {NoSlot},
                         labelAction : Action]]
  /\ pc = [t \in Thread |-> IF t[2] = 1 THEN "scan" ELSE "off"]
  /\ i = [t \in Thread |-> 0]
  /\ oldState = [t \in Thread |-> "Idle"]
  /\ peerQ = <<>> /\ labeledQ = <<>>
  /\ label = [pc |-> "read", bmf |-> NoMessage, used |-> NULL]
  /\ xml = [pc |-> "read", bmf |-> NoMessage]
  /\ periodic = [pc |-> "round", list |-> {}, sessionID |-> 0, session |-> NULL, i |-> 0]
  /\ own = [t \in Thread |-> NULL]
  /\ endedFrom = [n \in Born |-> "none"]
  /\ lost = {}
  /\ collided = FALSE /\ relabelled = FALSE
  /\ events = 0

(***************************************************************************)
(* A peer's thread: createSessionStruct.                                   *)
(***************************************************************************)
Goto(t, l) == pc' = [pc EXCEPT ![t] = l]
MayRun(t) == Peers[t[1]].configured /\ Peers[t[1]].enabled

\* Look for an empty slot.  If there is none the thread ends.
ScanSlot(t) ==
  /\ pc[t] = "scan"
  /\ \/ /\ i[t] = MAX_SESSION_IDS
        /\ Goto(t, "done")
        /\ UNCHANGED i
     \/ /\ i[t] \in Slot /\ Sessions[i[t]] # NULL
        /\ i' = [i EXCEPT ![t] = @ + 1]
        /\ UNCHANGED pc
     \/ /\ i[t] \in Slot /\ Sessions[i[t]] = NULL
        /\ Goto(t, "take")
        /\ UNCHANGED i
  /\ UNCHANGED <<oldState, own, sessionVars, queueVars, peerVars, label, xml, periodic>>

\* Fill in a structure and insert it into the array, whatever is there by now.
TakeSlot(t) ==
  /\ pc[t] = "take"
  /\ Peers[t[1]].configured
  /\ born < MaxBorn
  /\ born' = born + 1
  /\ session' = [session EXCEPT ![born'] =
       [heap |-> "live", state |-> "Idle", labelAction |-> Peers[t[1]].labelAction,
        rib |-> Peers[t[1]].labelAction # "NoAction", remade |-> FALSE,
        reconnectFlag |-> FALSE, retried |-> FALSE, routeRefreshFlag |-> FALSE]]
  /\ Sessions' = [Sessions EXCEPT ![i[t]] = born']
  /\ collided' = (collided \/ Sessions[i[t]] # NULL)
  /\ own' = [own EXCEPT ![t] = born']
  /\ Goto(t, "top")
  /\ UNCHANGED <<i, oldState, endedFrom, queueVars, peerVars, label, xml, periodic>>

\* The configuration is gone: setSessionConfigInUse fails, the thread ends.
TakeFails(t) ==
  /\ pc[t] = "take"
  /\ ~Peers[t[1]].configured
  /\ Goto(t, "done")
  /\ UNCHANGED <<i, oldState, own, sessionVars, queueVars, peerVars, label, xml, periodic>>

\* A command given, or a round of route refresh begun.
Event(weight) == events + weight <= MaxEvents /\ events' = events + weight

(***************************************************************************)
(* A peer's thread: the main loop.                                         *)
(***************************************************************************)
Held(t) == Sessions[i[t]]     \* Sessions[sessionID]

\* The state machine's steps, as the other threads see them.
FsmMoves == {<<"Idle", "Connect">>, <<"Connect", "Idle">>, <<"Connect", "Open">>,
             <<"Open", "Open">>, <<"Open", "Idle">>, <<"Open", "Established">>,
             <<"Established", "Established">>, <<"Established", "Idle">>}

\* resetSession, as far as it goes here: every reset counts as a retry.
Reset(r) == [r EXCEPT !.state = "Idle", !.retried = TRUE]

\* What a step of the state machine leaves behind: the connection that is made,
\* or an update that is heard, ends the retries.
Moved(r, old, to, update) ==
  IF to = "Idle" THEN Reset(r)
  ELSE [r EXCEPT !.state = to,
                 !.retried = r.retried /\ ~update /\ ~(old = "Connect" /\ to = "Open")]

LoopTop(t) ==
  /\ pc[t] = "top"
  /\ \/ /\ MayRun(t)
        /\ Peers' = [Peers EXCEPT ![t[1]].sessionID = i[t]]
        /\ UNCHANGED <<events, relabelled>>
        /\ oldState' = [oldState EXCEPT ![t] = session[Held(t)].state]
        /\ Goto(t, "fsm")
     \/ /\ ~MayRun(t)
        /\ Goto(t, "end")
        /\ UNCHANGED <<peerVars, oldState>>
  /\ UNCHANGED <<i, own, sessionVars, queueVars, label, xml, periodic>>

\* bgpFiniteStateMachine; an established session may hear an update.
RunFsm(t) ==
  /\ pc[t] = "fsm"
  /\ \E to \in State, update \in BOOLEAN :
       /\ <<session[Held(t)].state, to>> \in FsmMoves
       /\ update => to = "Established" /\ session[Held(t)].state = "Established"
       /\ session' = [session EXCEPT ![Held(t)] = Moved(@, oldState[t], to, update)]
       /\ IF update THEN WritePeerQ(Update(i[t], own[t])) ELSE UNCHANGED queueVars
  /\ Goto(t, "post")
  /\ UNCHANGED <<i, oldState, own, Sessions, born, endedFrom, collided, peerVars, label, xml, periodic>>

\* The test after the state machine: this session is over.
Over(t) == \/ session[Held(t)].reconnectFlag
           \/ oldState[t] # "Connect" /\ session[Held(t)].state = "Idle"

\* Mutant: the thread clears the slot itself.
CleanupSession_ClearsSlot(t) ==
  /\ WritePeerQ(Change(i[t], session[Held(t)].state, "Idle", own[t]))
  /\ session' = [session EXCEPT ![Held(t)] = [Reset(@) EXCEPT !.reconnectFlag = FALSE]]
  /\ Sessions' = [Sessions EXCEPT ![i[t]] = NULL]
  /\ endedFrom' = [endedFrom EXCEPT ![own[t]] = session[Held(t)].state]
  /\ UNCHANGED <<born, collided>>

\* cleanupSession: the message names the state the session has by now.
CleanupSession(t) ==
  /\ WritePeerQ(Change(i[t], session[Held(t)].state, "Idle", own[t]))
  /\ session' = [session EXCEPT ![Held(t)] = [Reset(@) EXCEPT !.reconnectFlag = FALSE]]
  /\ endedFrom' = [endedFrom EXCEPT ![own[t]] = session[Held(t)].state]
  /\ UNCHANGED <<Sessions, born, collided>>

\* The session is given up, and a new one is made.
GiveUp(t) ==
  /\ pc[t] = "post" /\ Over(t)
  /\ CleanupSession(t)
  /\ Goto(t, "scan")
  /\ i' = [i EXCEPT ![t] = 0]
  /\ UNCHANGED <<oldState, own, peerVars, label, xml, periodic>>

AnnounceChange(t) ==
  /\ pc[t] = "post" /\ ~Over(t)
  /\ IF session[Held(t)].state # oldState[t]
     THEN WritePeerQ(Change(i[t], oldState[t], session[Held(t)].state, own[t]))
     ELSE UNCHANGED queueVars
  /\ Goto(t, "conf")
  /\ UNCHANGED <<i, oldState, own, sessionVars, peerVars, label, xml, periodic>>

\* A session that bounces between Idle and Connect takes the configuration
\* anew, the label action included, ...
TakeConfig(t) ==
  /\ pc[t] = "conf"
  /\ session[Held(t)].state = "Connect" /\ session[Held(t)].retried
  /\ \/ /\ Peers[t[1]].configured
        /\ session' = [session EXCEPT ![Held(t)].labelAction = Peers[t[1]].labelAction]
        /\ Goto(t, "relabel")
     \/ /\ ~Peers[t[1]].configured
        /\ Goto(t, "end")
        /\ UNCHANGED session
  /\ UNCHANGED <<i, oldState, own, Sessions, born, endedFrom, collided, queueVars, peerVars,
                 label, xml, periodic>>

\* setSessionLabelAction: a session that had no label action gets new tables,
\* one that loses its label action loses its tables.
MakesTables(r, a) == r.labelAction = "NoAction" /\ a # "NoAction"
WithLabelAction(r, a) ==
  [r EXCEPT !.labelAction = a,
            !.rib = MakesTables(r, a) \/ (r.rib /\ (a = "NoAction" => r.labelAction = a)),
            !.remade = r.remade \/ MakesTables(r, a)]

\* ... and then has its label action set.
Relabel(t) ==
  /\ pc[t] = "relabel"
  /\ \/ /\ Peers[t[1]].configured
        /\ session' = [session EXCEPT ![Held(t)] = WithLabelAction(@, Peers[t[1]].labelAction)]
        /\ Goto(t, "top")
     \/ /\ ~Peers[t[1]].configured
        /\ Goto(t, "end")
        /\ UNCHANGED session
  /\ UNCHANGED <<i, oldState, own, Sessions, born, endedFrom, collided, queueVars, peerVars,
                 label, xml, periodic>>

\* Mutant: a refresh that fails is announced like the end of a session.
SendRouteRefresh_Cleans(t) ==
  /\ pc[t] = "conf"
  /\ session[Held(t)].state = "Established" /\ session[Held(t)].routeRefreshFlag
  /\ CleanupSession(t)
  /\ Goto(t, "top")
  /\ UNCHANGED <<i, oldState, own, peerVars, label, xml, periodic>>

\* A route refresh is asked for; if it cannot be sent the session is reset.
SendRouteRefresh(t) ==
  /\ pc[t] = "conf"
  /\ session[Held(t)].state = "Established" /\ session[Held(t)].routeRefreshFlag
  /\ \E sent \in BOOLEAN :
       session' = [session EXCEPT ![Held(t)] =
         LET r == [@ EXCEPT !.routeRefreshFlag = FALSE] IN IF sent THEN r ELSE Reset(r)]
  /\ Goto(t, "top")
  /\ UNCHANGED <<i, oldState, own, Sessions, born, endedFrom, collided, queueVars, peerVars,
                 label, xml, periodic>>

NothingToDo(t) ==
  /\ pc[t] = "conf"
  /\ ~(session[Held(t)].state = "Connect" /\ session[Held(t)].retried)
  /\ ~(session[Held(t)].state = "Established" /\ session[Held(t)].routeRefreshFlag)
  /\ Goto(t, "top")
  /\ UNCHANGED <<i, oldState, own, sessionVars, queueVars, peerVars, label, xml, periodic>>

\* Mutant: the loop goes on.
EndThread_LoopsOn(t) ==
  /\ pc[t] = "end"
  /\ CleanupSession(t)
  /\ Goto(t, "top")
  /\ UNCHANGED <<i, oldState, own, peerVars, label, xml, periodic>>

\* The peer is disabled or deleted.
EndThread(t) ==
  /\ pc[t] = "end"
  /\ CleanupSession(t)
  /\ Goto(t, "done")
  /\ UNCHANGED <<i, oldState, own, peerVars, label, xml, periodic>>

PeerThread(t) ==
  \/ ScanSlot(t) \/ TakeSlot(t) \/ TakeFails(t)
  \/ /\ pc[t] \notin {"off", "scan", "take", "done"} /\ Held(t) # NULL
     /\ \/ LoopTop(t) \/ RunFsm(t) \/ GiveUp(t) \/ AnnounceChange(t)
        \/ TakeConfig(t) \/ Relabel(t) \/ SendRouteRefresh(t) \/ NothingToDo(t)
        \/ EndThread(t)

(***************************************************************************)
(* The labeling thread.                                                    *)
(***************************************************************************)

Waiting == [pc |-> "read", bmf |-> NoMessage, used |-> NULL]

\* Read a message; if its session is there and is labeled, apply the update.
LabelRead ==
  /\ label.pc = "read" /\ peerQ # <<>>
  /\ peerQ' = Tail(peerQ)
  /\ LET m == Head(peerQ)
         n == Sessions[m.sessionID]
     IN  label' = IF m.type = "UPDATE" /\ n # NULL /\ session[n].labelAction # "NoAction"
                  THEN [pc |-> "apply", bmf |-> m, used |-> n]
                  ELSE [pc |-> "forward", bmf |-> m, used |-> NULL]
  /\ UNCHANGED <<labeledQ, lost, threadVars, sessionVars, peerVars, xml, periodic>>

\* processBMF: a message that fails to parse or to apply is dropped.
LabelApply ==
  /\ label.pc = "apply"
  /\ \E ok \in BOOLEAN :
       label' = IF ok THEN [label EXCEPT !.pc = "forward", !.used = NULL] ELSE Waiting
  /\ UNCHANGED <<threadVars, sessionVars, queueVars, peerVars, xml, periodic>>

\* Mutants: the tables go with every state change, or never.
DeleteRib(now) ==
  LET n == Sessions[label.bmf.sessionID]
  IN  /\ label.pc = "forward"
      /\ IF now /\ n # NULL THEN session' = [session EXCEPT ![n].rib = FALSE, ![n].remade = FALSE]
                           ELSE UNCHANGED session
      /\ WriteLabeledQ(label.bmf)
      /\ label' = Waiting
      /\ UNCHANGED <<peerQ, threadVars, Sessions, born, endedFrom, collided, peerVars, xml, periodic>>
LabelForward_AnyChange == DeleteRib(label.bmf.type = "FSM_STATE_CHANGE")
LabelForward_NoDelete == DeleteRib(FALSE)

\* Delete the RIB of a session that is over, and pass the message on.
LabelForward ==
  /\ label.pc = "forward"
  /\ LET n == Sessions[label.bmf.sessionID]
     IN  IF Ends(label.bmf)
         THEN n # NULL /\ session' = [session EXCEPT ![n].rib = FALSE, ![n].remade = FALSE]
         ELSE UNCHANGED session
  /\ WriteLabeledQ(label.bmf)
  /\ label' = Waiting
  /\ UNCHANGED <<peerQ, threadVars, Sessions, born, endedFrom, collided, peerVars, xml, periodic>>

LabelThread == LabelRead \/ LabelApply \/ LabelForward

(***************************************************************************)
(* The XML thread, as far as sessions are concerned.                       *)
(***************************************************************************)
XmlRead ==
  /\ xml.pc = "read" /\ labeledQ # <<>>
  /\ labeledQ' = Tail(labeledQ)
  /\ xml' = IF Ends(Head(labeledQ)) /\ Sessions[Head(labeledQ).sessionID] # NULL
            THEN [pc |-> "destroy", bmf |-> Head(labeledQ)] ELSE xml
  /\ UNCHANGED <<peerQ, lost, threadVars, sessionVars, peerVars, label, periodic>>

\* destroySession: free the structure, then clear the slot.
XmlDestroy ==
  /\ xml.pc = "destroy"
  /\ Sessions[xml.bmf.sessionID] # NULL
  /\ session' = [session EXCEPT ![Sessions[xml.bmf.sessionID]].heap = "freed"]
  /\ xml' = [xml EXCEPT !.pc = "clear"]
  /\ UNCHANGED <<threadVars, Sessions, born, endedFrom, collided, queueVars, peerVars, label, periodic>>

XmlClear ==
  /\ xml.pc = "clear"
  /\ Sessions' = [Sessions EXCEPT ![xml.bmf.sessionID] = NULL]
  /\ xml' = [pc |-> "read", bmf |-> NoMessage]
  /\ UNCHANGED <<threadVars, session, born, endedFrom, collided, queueVars, peerVars, label, periodic>>

XmlThread == XmlRead \/ XmlDestroy \/ XmlClear

(***************************************************************************)
(* The route refresh thread.                                               *)
(***************************************************************************)

\* List the established sessions.
RoundStart ==
  /\ Transfers /\ periodic.pc = "round"
  /\ Event(2)
  /\ LET established == {s \in Slot : Sessions[s] # NULL
                                     /\ session[Sessions[s]].state = "Established"}
     IN  established # {} /\ periodic' = [periodic EXCEPT !.pc = "next", !.list = established]
  /\ UNCHANGED <<threadVars, sessionVars, queueVars, Peers, relabelled, label, xml>>

\* Take the next session of the list, if it is still there, and start sending
\* its RIB: sendRibTable keeps the pointer that it reads here.
TransferStart ==
  /\ periodic.pc = "next" /\ periodic.list # {}
  /\ LET s == CHOOSE k \in periodic.list : \A j \in periodic.list : k <= j
         n == Sessions[s]
         rest == [periodic EXCEPT !.list = @ \ {s}]
     IN  IF n = NULL
         THEN periodic' = rest /\ UNCHANGED queueVars
         ELSE /\ periodic' = [rest EXCEPT !.sessionID = s, !.session = n,
                                          !.pc = IF session[n].rib THEN "check" ELSE "flag"]
              /\ WriteLabeledQ(Table(s)) /\ UNCHANGED peerQ
  /\ UNCHANGED <<threadVars, sessionVars, peerVars, label, xml>>

\* Before each bucket: has the session been shut down by another thread?
TransferCheck ==
  /\ periodic.pc = "check"
  /\ IF Sessions[periodic.sessionID] = NULL \/ periodic.i = TableSize
     THEN /\ WriteLabeledQ(Table(periodic.sessionID))
          /\ periodic' = [periodic EXCEPT !.pc = "flag"]
          /\ UNCHANGED peerQ
     ELSE /\ periodic' = [periodic EXCEPT !.pc = "use"]
          /\ UNCHANGED queueVars
  /\ UNCHANGED <<threadVars, sessionVars, peerVars, label, xml>>

\* Send the bucket's attributes, if it has any.
TransferBucket ==
  /\ periodic.pc = "use"
  /\ periodic' = [periodic EXCEPT !.pc = "check", !.i = @ + 1]
  /\ \/ WriteLabeledQ(Table(periodic.sessionID)) /\ UNCHANGED peerQ
     \/ UNCHANGED queueVars
  /\ UNCHANGED <<threadVars, sessionVars, peerVars, label, xml>>

\* doRouteRefresh, the rest: a session that has been up long enough is
\* marked for a route refresh, if its peer supports that.
TransferFlag ==
  /\ periodic.pc = "flag"
  /\ periodic' = [periodic EXCEPT !.pc = "next", !.session = NULL, !.i = 0, !.sessionID = 0]
  /\ LET n == Sessions[periodic.sessionID]
     IN  \/ UNCHANGED session
        \/ /\ RouteRefresh /\ n # NULL /\ session[n].state = "Established"
           /\ session' = [session EXCEPT ![n].routeRefreshFlag = TRUE]
  /\ UNCHANGED <<threadVars, Sessions, born, endedFrom, collided, queueVars, peerVars, label, xml>>

RoundEnd ==
  /\ periodic.pc = "next" /\ periodic.list = {}
  /\ periodic' = [periodic EXCEPT !.pc = "round"]
  /\ UNCHANGED <<threadVars, sessionVars, queueVars, peerVars, label, xml>>

PeriodicThread ==
  RoundStart \/ TransferStart \/ TransferCheck \/ TransferBucket \/ TransferFlag \/ RoundEnd

(***************************************************************************)
(* The command line.                                                       *)
(***************************************************************************)
Given(c) ==
  /\ c \in Commands
  /\ Event(IF c = "label" THEN 1 ELSE 2)

SetPeerEnabledFlag(p, enabled) ==
  /\ Given(IF enabled THEN "enable" ELSE "disable")
  /\ Peers[p].configured
  /\ Peers' = [Peers EXCEPT ![p].enabled = enabled]
  /\ UNCHANGED <<threadVars, sessionVars, queueVars, relabelled, label, xml, periodic>>

\* The session is taken to be there.
ReconnectPeer(p) ==
  /\ Given("clear")
  /\ Peers[p].configured /\ Peers[p].enabled /\ Peers[p].sessionID # NoSlot
  /\ Sessions[Peers[p].sessionID] # NULL
  /\ session' = [session EXCEPT ![Sessions[Peers[p].sessionID]].reconnectFlag = TRUE]
  /\ UNCHANGED <<threadVars, Sessions, born, endedFrom, collided, queueVars, Peers, relabelled,
                 label, xml, periodic>>

DeletePeer(p) ==
  /\ Given("delete")
  /\ Peers[p].configured
  /\ Peers' = [Peers EXCEPT ![p].configured = FALSE]
  /\ UNCHANGED <<threadVars, sessionVars, queueVars, relabelled, label, xml, periodic>>

\* launchAllPeers: a thread for every enabled peer that has no session yet.
Unused(p) == {k \in 1..MaxThreads : pc[<<p, k>>] = "off"}
LaunchAllPeers ==
  LET launched == {p \in Peer : Peers[p].configured /\ Peers[p].enabled
                                /\ Peers[p].sessionID = NoSlot}
  IN  /\ Given("launch")
      /\ \A p \in launched : Unused(p) # {}
      /\ pc' = [t \in Thread |->
                  IF t[1] \in launched /\ \A k \in Unused(t[1]) : t[2] <= k /\ pc[t] = "off"
                  THEN "scan" ELSE pc[t]]
      /\ UNCHANGED <<i, oldState, own, sessionVars, queueVars, Peers, relabelled, label, xml,
                     periodic>>

\* The tables of a session come and go with its label action, without a word
\* to the labeling thread that may be using them.  The session is told only
\* if the peer had a label action before.
SetPeerLabelAction(p, a) ==
  /\ Given("label")
  /\ Peers[p].configured /\ Peers[p].labelAction # a
  /\ IF Peers[p].labelAction # "NoAction" /\ Peers[p].sessionID # NoSlot
        /\ Sessions[Peers[p].sessionID] # NULL
     THEN session' = [session EXCEPT ![Sessions[Peers[p].sessionID]] = WithLabelAction(@, a)]
     ELSE UNCHANGED session
  /\ Peers' = [Peers EXCEPT ![p].labelAction = a]
  /\ relabelled' = TRUE
  /\ UNCHANGED <<threadVars, Sessions, born, endedFrom, collided, queueVars, label, xml, periodic>>

CommandLine ==
  \/ LaunchAllPeers
  \/ \E p \in Peer :
       \/ \E enabled \in BOOLEAN : SetPeerEnabledFlag(p, enabled)
       \/ ReconnectPeer(p) \/ DeletePeer(p)
       \/ \E a \in Action : SetPeerLabelAction(p, a)

Next == \/ \E t \in Thread : PeerThread(t)
        \/ LabelThread \/ XmlThread \/ PeriodicThread \/ CommandLine

Spec == Init /\ [][Next]_vars

\* The two threads that carry the end of a session on keep running.
FairSpec == Spec /\ WF_vars(LabelThread) /\ WF_vars(XmlThread)

(***************************************************************************)
(* Properties.  createSessionStruct looks for an empty slot and takes it    *)
(* with no lock: where two threads have taken one nothing is promised.     *)
(***************************************************************************)
Running(t) == pc[t] \in {"top", "fsm", "post", "conf", "relabel", "end"}
Live(n) == n # NULL /\ session[n].heap = "live"

\* A peer's thread that runs has the session it made: neither has the XML
\* thread freed it, nor has its slot been given away.
OwnSession ==
  ~collided => \A t \in Thread : Running(t) => Held(t) = own[t] /\ Live(own[t])

\* The labeling thread applies updates to tables that are there, and deletes
\* the tables of sessions that are there.
LabelSafe ==
  ~collided =>
    /\ label.pc = "apply" => /\ Live(label.used)
                             /\ ~relabelled => session[label.used].rib
    /\ label.pc = "forward" /\ Ends(label.bmf) => Live(Sessions[label.bmf.sessionID])

\* An update changes the RIB of the session that heard it, never the RIB of a
\* later session in the same slot.
UpdatesToOwnRib ==
  ~collided /\ label.pc = "apply" => label.used = label.bmf.of

\* The last messages of sessions, wherever they are on their way.
Positions == ({"peerQ"} \X (1..Len(peerQ))) \cup ({"labeledQ"} \X (1..Len(labeledQ)))
               \cup (IF label.pc = "forward" THEN {<<"label", 1>>} ELSE {})
               \cup (IF xml.pc # "read" THEN {<<"xml", 1>>} ELSE {})
At(x) == CASE x[1] = "peerQ" -> peerQ[x[2]] [] x[1] = "labeledQ" -> labeledQ[x[2]]
           [] x[1] = "label" -> label.bmf [] OTHER -> xml.bmf
Endings == {x \in Positions : Ends(At(x))}

\* The message that ends a session is on its way once, its session is in the
\* slot that it names, and no thread runs on that session any more.
EndsTheRightSession ==
  ~collided =>
    /\ \A x \in Endings : /\ Sessions[At(x).sessionID] = At(x).of
                          /\ \A t \in Thread : Running(t) => own[t] # At(x).of
    /\ \A x, y \in Endings : At(x).of = At(y).of => x = y

\* A session is freed only after its tables have been deleted.  The one way
\* out is a label command given in between: the labeling thread, which has
\* passed the session's last message on, does not delete the tables it makes.
NoTableLeaked ==
  [][\A n \in Born : ~collided /\ session[n].heap = "live" /\ session'[n].heap = "freed"
                        => (session[n].rib => session[n].remade)]_vars

Gone(n) == session[n].heap = "freed" \/ n \in lost \/ collided

\* A session given up in any state but Connect is freed, unless a full queue
\* has dropped its last message.
Reclaimed == \A n \in Born : endedFrom[n] \notin {"none", "Connect"} ~> Gone(n)

\* The instance checked: once a slot has been taken twice, nothing is promised
\* and nothing more is looked at.
SlotsTakenOnce == ~collided
=============================================================================
