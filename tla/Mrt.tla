-------------------------------- MODULE Mrt --------------------------------
(***************************************************************************)
(* MRT collectors: a connection is accepted (mrtcontrol.c, startMrt) and   *)
(* gets a thread (mrtinstance.c, mrtThread) that reads MRT messages and    *)
(* writes each to the peer queue once the next one has been read.  A       *)
(* message belongs to a session that is found by the addresses in it, or   *)
(* created (submitBMF; peersession.c).  Sessions are not owned: any        *)
(* connection may write to any of them, and their slots are searched and   *)
(* filled without a lock.                                                  *)
(***************************************************************************)
EXTENDS Integers, FiniteSets, FiniteSetsExt, SequencesExt

CONSTANTS
  Conns,       \* connections
  Address,     \* the address each comes from
  Tuples,      \* [peer, local]: the addresses and AS numbers in messages
  MaxSlots,    \* MAX_SESSION_IDS
  MaxWriters,  \* MAX_QUEUE_WRITERS of the peer queue
  MaxMrts,     \* maxMrts
  MaxItems     \* bound: items read, the ends not counted

ASSUME MrtAssumption ==
  /\ \A n \in {MaxSlots, MaxWriters, MaxMrts, MaxItems} : n \in Nat \ {0}
  /\ \A t \in Tuples : DOMAIN t = {"peer", "local"}

VARIABLES
  conn,      \* the node and thread of each connection
  Sessions,  \* the sessions of MRT messages
  writers,   \* writers of the peer queue
  locked,    \* createQueueWriter has left the queue locked
  up,        \* FALSE: bgpmon has crashed
  shutdown,  \* MrtControls.shutdown
  stream,    \* history: what was read from each connection
  written,   \* history: what each wrote to the peer queue
  lost,      \* history: connections whose message got no session
  clash      \* history: a session was put in a slot another had taken

histories == <<stream, written, lost, clash>>
vars == <<conn, Sessions, writers, locked, up, shutdown, histories>>

Slots == 1..MaxSlots
NoSession == [state |-> "none"]
Nothing == [n |-> 0]                       \* mrtHeader_p.length is 0
Garbage == [n |-> -1]                      \* it was never set, and is not 0
Message(n, t) == [n |-> n, tuple |-> t]
NoConn == [pc |-> "none", prev |-> Nothing, out |-> Nothing, slot |-> 0, todo |-> {},
           ends |-> FALSE, killed |-> FALSE]

Go(c, pc) == conn' = [conn EXCEPT ![c].pc = pc]
Active == {c \in Conns : conn[c].pc \notin {"none", "refused", "gone"}}

\* startMrt: the limit, the access list, the node and its queue writer, the
\* thread.  What follows a writer that was not given is all stopped by the lock.
Accept(c) ==
  /\ up /\ ~ shutdown /\ conn[c].pc = "none"
  /\ \/ Go(c, "refused") /\ UNCHANGED <<writers, locked>>
     \/ /\ Cardinality(Active) # MaxMrts /\ ~ locked
        /\ \E prev \in {Nothing, Garbage} :
             conn' = [conn EXCEPT ![c].pc = "read", ![c].prev = prev]
        /\ writers' = IF writers = MaxWriters THEN writers ELSE writers + 1
        /\ locked' = (writers = MaxWriters)
  /\ UNCHANGED <<Sessions, up, shutdown, histories>>

(***************************************************************************)
(* Reading.                                                                *)
(***************************************************************************)
\* MRT_readMessage and the switch on the types: an item is a message that can
\* be parsed ("good") or not or is of no known type or subtype ("bad"), a state
\* change or local message ("ignored"), one of the types that end the thread
\* ("dump"), or the end of the connection.  skipped: headers were skipped
\* before it; cut: the search for the next BGP header, after a bad one, met
\* the end.
Parsed == [kind : {"good"}, tuple : Tuples, skipped : BOOLEAN]
NotParsed == [kind : {"bad"}, cut : BOOLEAN]
Items == Parsed \cup NotParsed \cup [kind : {"ignored"}, skipped : BOOLEAN] \cup [kind : {"dump", "eof"}]

Skipped(item) == item.kind \in {"good", "ignored"} /\ item.skipped

\* Mutant: what was skipped is not looked at.
Before_Kept(c, item) == conn[c].prev

\* The message before, after skipped headers.
Before(c, item) == IF Skipped(item) THEN Nothing ELSE conn[c].prev

\* The thread after an item: what it holds back, what it submits, whether it ends.
After(c, item) ==
  LET n == Len(stream[c]) + 1
      before == Before(c, item)
      keeps(prev, out, ends) ==
        [conn[c] EXCEPT !.prev = prev, !.out = out, !.ends = ends,
                        !.pc = IF out # Nothing THEN "find" ELSE IF ends THEN "collect" ELSE "read"]
  IN CASE item.kind = "good" -> keeps(Message(n, item.tuple), before, FALSE)
       [] item.kind = "eof" -> keeps(Nothing, before, TRUE)
       [] item.kind = "ignored" -> keeps(before, Nothing, FALSE)
       [] item.kind = "dump" -> [conn[c] EXCEPT !.pc = "destroy"]
       [] OTHER -> keeps(Nothing, Nothing, item.cut)

ItemsRead == MapThenSumSet(LAMBDA c : Len(SelectSeq(stream[c], LAMBDA s : s.kind # "eof")), Conns)

\* bmf: a message that cannot be parsed destroys what it holds.  That is nothing
\* after one that could be parsed, or else was never set, or has been freed.
Empty(c) ==
  \E i \in DOMAIN stream[c] :
    /\ stream[c][i].kind = "good"
    /\ \A k \in i..Len(stream[c]) : stream[c][k].kind # "bad"

Read(c) ==
  /\ up /\ conn[c].pc = "read" /\ ~ conn[c].killed
  /\ \E item \in Items :
       /\ item.kind = "eof" \/ ItemsRead < MaxItems
       /\ \/ up' = TRUE
          \/ item.kind = "bad" /\ ~ Empty(c) /\ up' = FALSE
       /\ stream' = [stream EXCEPT ![c] = Append(@, item)]
       /\ conn' = [conn EXCEPT ![c] = After(c, item)]
  /\ UNCHANGED <<Sessions, writers, locked, shutdown, written, lost, clash>>

\* The thread sees the flag set by deleteMrt, and submits what it holds.
Killed(c) ==
  /\ up /\ conn[c].pc = "read" /\ conn[c].killed
  /\ conn' = [conn EXCEPT ![c] = After(c, [kind |-> "eof"])]
  /\ UNCHANGED <<Sessions, writers, locked, up, shutdown, histories>>

(***************************************************************************)
(* submitBMF.                                                              *)
(***************************************************************************)
\* The thread goes on after a message that was written or dropped.
Submitted(c) ==
  [conn[c] EXCEPT !.out = Nothing, !.slot = 0,
                  !.pc = IF conn[c].ends THEN "collect" ELSE "read"]

\* There is no message with what was never set: whatever session it is given,
\* it cannot be marked.
Crash(c) ==
  /\ up /\ conn[c].pc = "find" /\ conn[c].out = Garbage
  /\ up' = FALSE
  /\ UNCHANGED <<conn, Sessions, writers, locked, shutdown, histories>>

Same(s, t) == s # NoSession /\ s.tuple = t

\* findSession; createMrtSessionStruct's search for a slot that is empty.
Find(c) ==
  /\ up /\ conn[c].pc = "find" /\ conn[c].out # Garbage
  /\ LET found == {i \in Slots : Same(Sessions[i], conn[c].out.tuple)}
     IN IF found # {} THEN conn' = [conn EXCEPT ![c].slot = Min(found), ![c].pc = "write"]
        ELSE Go(c, "scan")
  /\ UNCHANGED <<Sessions, writers, locked, up, shutdown, histories>>

Scan(c) ==
  /\ up /\ conn[c].pc = "scan"
  /\ LET empty == {i \in Slots : Sessions[i] = NoSession}
     IN IF empty # {} THEN /\ conn' = [conn EXCEPT ![c].slot = Min(empty), ![c].pc = "insert"]
                           /\ UNCHANGED lost
        ELSE conn' = [conn EXCEPT ![c] = Submitted(c)] /\ lost' = lost \cup {c}
  /\ UNCHANGED <<Sessions, writers, locked, up, shutdown, stream, written, clash>>

\* The session gets a queue writer of its own, and is put in the slot.
Insert(c) ==
  /\ up /\ conn[c].pc = "insert" /\ ~ locked
  /\ IF writers = MaxWriters
     THEN /\ locked' = TRUE
          /\ conn' = [conn EXCEPT ![c] = Submitted(c)] /\ lost' = lost \cup {c}
          /\ UNCHANGED <<Sessions, writers, clash>>
     ELSE /\ writers' = writers + 1
          /\ clash' = (clash \/ Sessions[conn[c].slot] # NoSession)
          /\ Sessions' = [Sessions EXCEPT ![conn[c].slot] =
                            [state |-> "established", tuple |-> conn[c].out.tuple, by |-> c]]
          /\ Go(c, "write")
          /\ UNCHANGED <<locked, lost>>
  /\ UNCHANGED <<up, shutdown, stream, written>>

\* A session that was put in error is established again.
Write(c) ==
  /\ up /\ conn[c].pc = "write" /\ ~ locked
  /\ LET i == conn[c].slot
     IN /\ Sessions' = [Sessions EXCEPT ![i].state = "established", ![i].by = c]
        /\ written' = [written EXCEPT ![c] = Append(@, [n |-> conn[c].out.n,
                         own |-> Sessions[i].tuple = conn[c].out.tuple])]
  /\ conn' = [conn EXCEPT ![c] = Submitted(c)]
  /\ UNCHANGED <<writers, locked, up, shutdown, stream, lost, clash>>

(***************************************************************************)
(* The end of a connection.                                                *)
(***************************************************************************)
Established == {i \in Slots : Sessions[i].state = "established"}

\* deleteMrtSession: the established sessions, ...
Collect(c) ==
  /\ up /\ conn[c].pc = "collect"
  /\ conn' = [conn EXCEPT ![c].todo = Established, ![c].pc = "mark"]
  /\ UNCHANGED <<Sessions, writers, locked, up, shutdown, histories>>

\* Mutant: sessions from the collector's address, not to it.
Ours_Peer(c, i) == Sessions[i].tuple.peer = Address[c]

\* ... and then each of them whose local address is the collector's.
Ours(c, i) == Sessions[i].tuple.local = Address[c]

Mark(c) ==
  /\ up /\ conn[c].pc = "mark" /\ conn[c].todo # {}
  /\ LET i == Min(conn[c].todo)
     IN /\ Sessions' = IF Ours(c, i) THEN [Sessions EXCEPT ![i].state = "error"] ELSE Sessions
        /\ conn' = [conn EXCEPT ![c].todo = @ \ {i}]
  /\ UNCHANGED <<writers, locked, up, shutdown, histories>>

\* destroyMrt: after the marks, or at once after a dump.
Destroy(c) ==
  /\ up /\ ~ locked /\ conn[c].pc \in {"mark", "destroy"} /\ conn[c].todo = {}
  /\ conn' = [conn EXCEPT ![c] = [NoConn EXCEPT !.pc = "gone"]]
  /\ writers' = writers - 1
  /\ UNCHANGED <<Sessions, locked, up, shutdown, histories>>

\* signalMrtShutdown; waitForMrtShutdown, deleteMrt.
Shutdown ==
  /\ up /\ ~ shutdown /\ shutdown' = TRUE
  /\ conn' = [c \in Conns |-> [conn[c] EXCEPT !.killed = c \in Active]]
  /\ UNCHANGED <<Sessions, writers, locked, up, histories>>

Init ==
  /\ conn = [c \in Conns |-> NoConn] /\ Sessions = [i \in Slots |-> NoSession]
  /\ writers = 0 /\ locked = FALSE /\ up = TRUE /\ shutdown = FALSE
  /\ stream = [c \in Conns |-> <<>>] /\ written = [c \in Conns |-> <<>>]
  /\ lost = {} /\ clash = FALSE

Submit(c) == Crash(c) \/ Find(c) \/ Scan(c) \/ Insert(c) \/ Write(c)
End(c) == Collect(c) \/ Mark(c) \/ Destroy(c)
mrtThread(c) == Read(c) \/ Killed(c) \/ Submit(c) \/ End(c)
Next == Shutdown \/ \E c \in Conns : Accept(c) \/ mrtThread(c)
Spec == Init /\ [][Next]_vars

(***************************************************************************)
(* Properties.                                                             *)
(***************************************************************************)
Good(c, i) == stream[c][i].kind = "good"

\* Nothing between i and j that drops the message i.
Quiet(c, i, j) ==
  \A k \in (i + 1)..(j - 1) : stream[c][k].kind = "ignored" /\ ~ Skipped(stream[c][k])

\* The message i is followed by j, which is good, or the end.
FollowedBy(c, i, j) ==
  /\ Good(c, i) /\ i < j /\ Quiet(c, i, j)
  /\ stream[c][j].kind \in {"good", "eof"} /\ ~ Skipped(stream[c][j])

\* The message i is the last, and only ignored items have come since.
IsLast(c, i) == i \in DOMAIN stream[c] /\ Good(c, i) /\ Quiet(c, i, Len(stream[c]) + 1)

Stopped(c) == conn[c].killed \/ conn[c].pc = "gone"
Followed(c, i) ==
  (\E j \in DOMAIN stream[c] : FollowedBy(c, i, j)) \/ (Stopped(c) /\ IsLast(c, i))

(* A connection's messages reach the peer queue in the order they came,    *)
(* none twice, and each only if the next one could be read or the          *)
(* connection ended after it; a connection that has ended has written all  *)
(* of these, but for those that got no session (mrtThread, which holds one *)
(* message back; readers rely on the order within a session).              *)
InOrder(c) == \A i, j \in DOMAIN written[c] : i < j => written[c][i].n < written[c][j].n
OnlyFollowed(c) ==
  \A i \in DOMAIN written[c] :
    written[c][i].n \in DOMAIN stream[c] /\ Followed(c, written[c][i].n)
IsWritten(c, i) == \E k \in DOMAIN written[c] : written[c][k].n = i
WritesWhatIsFollowed ==
  \A c \in Conns :
    /\ InOrder(c) /\ OnlyFollowed(c)
    /\ conn[c].pc = "gone" /\ c \notin lost =>
         \A i, j \in DOMAIN stream[c] : FollowedBy(c, i, j) => IsWritten(c, i)

(* A message is written under a session with its own addresses and AS      *)
(* numbers, while no two threads have filled the same slot (submitBMF, in  *)
(* connections that search and create sessions at the same time).          *)
OwnSession ==
  ~ clash => \A c \in Conns : \A i \in DOMAIN written[c] : written[c][i].own

(* A session is not left established by a collector that has gone: its     *)
(* last writer, if it is the session's local address, puts it in error     *)
(* when it ends, unless a table dump ended it (deleteMrtSession, after the *)
(* last message was submitted and while other threads write).              *)
NotLeftEstablished ==
  \A i \in Slots :
    Sessions[i].state = "established" /\ Sessions[i].tuple.local = Address[Sessions[i].by] =>
      LET c == Sessions[i].by
      IN conn[c].pc = "gone" => \E k \in DOMAIN stream[c] : stream[c][k].kind = "dump"
=============================================================================
