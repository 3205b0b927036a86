------------------------------ MODULE Clients ------------------------------
(***************************************************************************)
(* A control thread that listens for connections (clientscontrol.c: one    *)
(* socket for update clients and one for RIB clients; mrtcontrol.c has the *)
(* same loop for one socket), the threads that serve the connections, and  *)
(* the CLI commands that enable and disable the listeners, move them to    *)
(* another port, and kill and show clients without a lock.                 *)
(***************************************************************************)
EXTENDS Integers, FiniteSets, FiniteSetsExt, SequencesExt

CONSTANTS
  Order,       \* the listeners of the thread, in the order it serves them
  Ports,       \* addresses and ports a listener may be given
  InUse,       \* those that cannot be bound
  Configured,  \* the ports in the configurations considered
  MaxClients,  \* maxUClients, maxRClients
  MaxFd,       \* bound: descriptors
  MaxOthers,   \* bound: descriptors of the rest of the program
  MaxIDs,      \* bound: connections accepted
  MaxEvents    \* bound: connections accepted, commands about listeners, descriptors others open

Listeners == ToSet(Order)
Closed == 0               \* -1 in the code
NoID == 0
Fds == 1..MaxFd
IDs == 1..MaxIDs

ASSUME ClientsAssumption ==
  /\ InUse \subseteq Ports /\ Configured \subseteq [Listeners -> Ports] /\ MaxClients \in Nat \ {0}
  /\ MaxFd > MaxOthers + Len(Order) + MaxIDs - 1

VARIABLES
  enabled,   \* ClientControls.enabled
  port,      \* listenUPort, listenRPort, with the address
  rebind,    \* rebindUFlag, rebindRFlag
  sock,      \* descriptor of each listening socket
  boundTo,   \* the port it was bound to
  fdmax,     \* one more than the highest descriptor select looks at
  garbage,   \* read_fds has never been cleared and holds a bad descriptor
  thread,    \* where the control thread is, and the listeners still to see to
  pending,   \* a connection waits to be accepted
  others,    \* descriptors held by the rest of the program
  setting,   \* the CLI thread between the rebind flag and the new port
  missed,    \* history: a flag was cleared before its port was stored
  nodes,     \* the list of each kind's clients, first node first
  client,    \* the thread and node of each connection
  walk,      \* a CLI thread looking for a client without the lock
  shutdown,  \* ClientControls.shutdown
  events     \* bound: how many of these so far

listening == <<enabled, port, rebind, sock, boundTo, fdmax, garbage, thread, pending,
               others, setting, missed, events>>
serving == <<nodes, client, walk>>
vars == <<listening, serving, shutdown>>

Used == {sock[l] : l \in Listeners} \cup others \cup {client[c].fd : c \in IDs}
NewFd == Min(Fds \ Used)
NoClient == [st |-> "none", kind |-> Order[1], fd |-> Closed, del |-> FALSE]
NoWalk == [at |-> NoID, for |-> NoID, kind |-> Order[1], todo |-> "none"]
NoSetting == [l |-> Order[1], to |-> 0]

(***************************************************************************)
(* Commands about the listeners.                                           *)
(***************************************************************************)
\* enableClientsControl, disableClientsControl.
Enable(b) ==
  /\ enabled # b /\ events < MaxEvents
  /\ enabled' = b /\ events' = events + 1
  /\ UNCHANGED <<port, rebind, sock, boundTo, fdmax, garbage, thread, pending, others, setting,
                 missed, serving, shutdown>>

\* Mutant: the flag is not set.
SetFlag_Quiet(l, p) ==
  /\ setting = NoSetting /\ port[l] # p /\ events < MaxEvents
  /\ setting' = [l |-> l, to |-> p] /\ events' = events + 1
  /\ UNCHANGED <<enabled, port, rebind, sock, boundTo, fdmax, garbage, thread, pending, others,
                 missed, serving, shutdown>>

\* setClientsControlListenPort, setClientsControlListenAddr: the flag first, ...
SetFlag(l, p) ==
  /\ setting = NoSetting /\ port[l] # p /\ events < MaxEvents
  /\ rebind' = [rebind EXCEPT ![l] = TRUE]
  /\ setting' = [l |-> l, to |-> p] /\ events' = events + 1
  /\ UNCHANGED <<enabled, port, sock, boundTo, fdmax, garbage, thread, pending, others, missed,
                 serving, shutdown>>

\* ... then the value.
SetPort ==
  /\ setting # NoSetting
  /\ port' = [port EXCEPT ![setting.l] = setting.to]
  /\ setting' = NoSetting
  /\ UNCHANGED <<enabled, rebind, sock, boundTo, fdmax, garbage, thread, pending, others, missed,
                 events, serving, shutdown>>

\* The rest of the program opens or closes something.
OthersOpen ==
  /\ Cardinality(others) < MaxOthers /\ events < MaxEvents
  /\ others' = others \cup {NewFd} /\ events' = events + 1
  /\ UNCHANGED <<enabled, port, rebind, sock, boundTo, fdmax, garbage, thread, pending, setting,
                 missed, serving, shutdown>>

OthersClose(fd) ==
  /\ others' = others \ {fd}
  /\ UNCHANGED <<enabled, port, rebind, sock, boundTo, fdmax, garbage, thread, pending, setting,
                 missed, events, serving, shutdown>>

Connect(l) ==
  /\ sock[l] # Closed
  /\ pending' = [pending EXCEPT ![l] = TRUE]
  /\ UNCHANGED <<enabled, port, rebind, sock, boundTo, fdmax, garbage, thread, others, setting,
                 missed, events, serving, shutdown>>

(***************************************************************************)
(* clientsControlThread, mrtControlThread.                                 *)
(***************************************************************************)
At(pc) == thread.pc = pc
Goto(pc, todo) == thread' = [pc |-> pc, todo |-> todo]
Rebound == {l \in Listeners : sock[l] # Closed /\ rebind[l]}

\* The sockets in ls are closed; connections waiting there are lost.
CloseAll(ls) ==
  /\ sock' = [l \in Listeners |-> IF l \in ls THEN Closed ELSE sock[l]]
  /\ boundTo' = [l \in Listeners |-> IF l \in ls THEN Closed ELSE boundTo[l]]
  /\ pending' = [l \in Listeners |-> pending[l] /\ l \notin ls]
  /\ fdmax' = IF ls = {} THEN fdmax ELSE 0
  /\ garbage' = (garbage /\ ls = {})

\* The listeners are disabled.
Disabled ==
  /\ At("loop") /\ ~ shutdown /\ ~ enabled
  /\ CloseAll({l \in Listeners : sock[l] # Closed})
  /\ Goto("select", <<>>)
  /\ UNCHANGED <<enabled, port, rebind, others, setting, missed, events, serving, shutdown>>

\* An open socket whose flag is set is closed, and the flag cleared.
Rebind ==
  /\ At("loop") /\ ~ shutdown /\ enabled
  /\ CloseAll(Rebound)
  /\ rebind' = [l \in Listeners |-> rebind[l] /\ l \notin Rebound]
  /\ missed' = [l \in Listeners |-> missed[l] \/ (l \in Rebound /\ setting # NoSetting /\ setting.l = l)]
  /\ Goto("open", Order)
  /\ UNCHANGED <<enabled, port, others, setting, events, serving, shutdown>>

\* read_fds is cleared with the first listener's socket, and not if that is closed.
Watch(l, fd) ==
  /\ fdmax' = IF fd # Closed THEN fd + 1 ELSE fdmax
  /\ garbage' = (garbage /\ ~ (l = Order[1] /\ fd # Closed))

\* startListener on what is configured now, and the descriptors for select.
Open ==
  /\ At("open")
  /\ LET l == Head(thread.todo)
         opens == sock[l] = Closed /\ port[l] \notin InUse
         fd == IF opens THEN NewFd ELSE sock[l]
     IN /\ sock' = [sock EXCEPT ![l] = fd]
        /\ boundTo' = IF opens THEN [boundTo EXCEPT ![l] = port[l]] ELSE boundTo
        /\ missed' = [missed EXCEPT ![l] = @ /\ (opens => setting # NoSetting /\ setting.l = l)]
        /\ Watch(l, fd)
        /\ Goto(IF Len(thread.todo) = 1 THEN "select" ELSE "open", Tail(thread.todo))
  /\ UNCHANGED <<enabled, port, rebind, pending, others, setting, events, serving, shutdown>>

\* Mutant: the highest descriptor is left out.
Watched_Below(l) == sock[l] # Closed /\ sock[l] + 1 < fdmax

Watched(l) == sock[l] # Closed /\ sock[l] < fdmax

\* select: the listeners with a connection, or a timeout.
Select ==
  /\ At("select")
  /\ IF garbage /\ fdmax > 0 THEN Goto("loop", <<>>)
     ELSE LET ready == SelectSeq(Order, LAMBDA l : Watched(l) /\ pending[l])
          IN Goto(IF ready = <<>> THEN "loop" ELSE "accept", ready)
  /\ UNCHANGED <<enabled, port, rebind, sock, boundTo, fdmax, garbage, pending, others, setting,
                 missed, events, serving, shutdown>>

NextID == IF \E c \in IDs : client[c].st = "none"
          THEN Min({c \in IDs : client[c].st = "none"}) ELSE NoID

\* startClient, startMrt: refused at the limit, by the access list or without
\* a thread; otherwise linked in front and given a thread.
Accept ==
  /\ At("accept")
  /\ LET l == Head(thread.todo)
     IN /\ pending' = [pending EXCEPT ![l] = FALSE]
        /\ \/ UNCHANGED <<nodes, client, events>>
           \/ /\ Len(nodes[l]) # MaxClients /\ NextID # NoID /\ events < MaxEvents
              /\ nodes' = [nodes EXCEPT ![l] = <<NextID>> \o @]
              /\ client' = [client EXCEPT ![NextID] =
                              [st |-> "loop", kind |-> l, fd |-> NewFd, del |-> FALSE]]
              /\ events' = events + 1
  /\ Goto(IF Len(thread.todo) = 1 THEN "loop" ELSE "accept", Tail(thread.todo))
  /\ UNCHANGED <<enabled, port, rebind, sock, boundTo, fdmax, garbage, others, setting, missed,
                 walk, shutdown>>

\* signalClientsShutdown, signalMrtShutdown.
Shutdown ==
  /\ ~ shutdown /\ shutdown' = TRUE
  /\ UNCHANGED <<listening, serving>>

Exit ==
  /\ At("loop") /\ shutdown
  /\ CloseAll({l \in Listeners : sock[l] # Closed})
  /\ Goto("done", <<>>)
  /\ UNCHANGED <<enabled, port, rebind, others, setting, missed, events, serving, shutdown>>

(***************************************************************************)
(* clientUThread, clientRThread.                                           *)
(***************************************************************************)
Loop(c) ==
  /\ client[c].st = "loop"
  /\ client' = [client EXCEPT ![c].st = IF client[c].del THEN "destroy" ELSE "read"]
  /\ UNCHANGED <<listening, nodes, walk, shutdown>>

\* Mutant: the outcome of the write replaces the flag.
Read_Forgets(c) ==
  /\ client[c].st = "read"
  /\ \E fails \in BOOLEAN : client' = [client EXCEPT ![c].st = "loop", ![c].del = fails]
  /\ UNCHANGED <<listening, nodes, walk, shutdown>>

\* readQueue returns a message that is written to the client, or fails to be;
\* or says that the reader has ceased.
Read(c) ==
  /\ client[c].st = "read"
  /\ \E fails \in BOOLEAN : client' = [client EXCEPT ![c].st = "loop", ![c].del = @ \/ fails]
  /\ UNCHANGED <<listening, nodes, walk, shutdown>>

Unlinked(list, c) == Remove(list, c)

\* destroyClient, under the lock.
Destroy(c) ==
  /\ client[c].st = "destroy"
  /\ nodes' = [nodes EXCEPT ![client[c].kind] = Unlinked(@, c)]
  /\ client' = [client EXCEPT ![c] = [NoClient EXCEPT !.st = "gone"]]
  /\ UNCHANGED <<listening, walk, shutdown>>

(***************************************************************************)
(* Commands about clients: the list is walked without its lock.            *)
(***************************************************************************)
First(l) == IF nodes[l] = <<>> THEN NoID ELSE nodes[l][1]

After(l, c) ==
  LET i == SelectInSeq(nodes[l], LAMBDA d : d = c)
  IN IF i \in 1..(Len(nodes[l]) - 1) THEN nodes[l][i + 1] ELSE NoID

\* "show clients" has the IDs from getActiveClientsIDs and asks for each one's
\* port and address; "kill" has one from the user; the shutdown kills them all.
StartWalk(l, c, todo) ==
  /\ walk = NoWalk /\ First(l) # NoID
  /\ todo = "kill" => l = Order[1]
  /\ todo = "killall" => At("done") /\ c = First(l)
  /\ walk' = [at |-> First(l), for |-> c, kind |-> l, todo |-> todo]
  /\ UNCHANGED <<listening, nodes, client, shutdown>>

OnList(l, c) == c \in ToSet(nodes[l])

\* The node has been freed by its thread: what the walk does from here on is
\* undefined, and left out.
Stray ==
  /\ walk # NoWalk /\ ~ OnList(walk.kind, walk.at)
  /\ walk' = NoWalk
  /\ UNCHANGED <<listening, nodes, client, shutdown>>

\* getClientPort, getClientAddress and others; deleteClient; waitForClientsShutdown.
Found ==
  /\ walk # NoWalk /\ OnList(walk.kind, walk.at) /\ walk.at = walk.for
  /\ client' = IF walk.todo = "show" THEN client ELSE [client EXCEPT ![walk.at].del = TRUE]
  /\ LET next == After(walk.kind, walk.at)
     IN walk' = IF walk.todo = "killall" /\ next # NoID
                THEN [walk EXCEPT !.at = next, !.for = next] ELSE NoWalk
  /\ UNCHANGED <<listening, nodes, shutdown>>

GoOn ==
  /\ walk # NoWalk /\ OnList(walk.kind, walk.at) /\ walk.at # walk.for
  /\ LET next == After(walk.kind, walk.at)
     IN walk' = IF next # NoID THEN [walk EXCEPT !.at = next] ELSE NoWalk
  /\ UNCHANGED <<listening, nodes, client, shutdown>>

Init ==
  /\ enabled \in BOOLEAN /\ port \in Configured
  /\ garbage \in BOOLEAN
  /\ rebind = [l \in Listeners |-> FALSE] /\ sock = [l \in Listeners |-> Closed]
  /\ boundTo = sock /\ fdmax = 0 /\ thread = [pc |-> "loop", todo |-> <<>>]
  /\ pending = [l \in Listeners |-> FALSE] /\ others = {} /\ setting = NoSetting
  /\ missed = [l \in Listeners |-> FALSE]
  /\ nodes = [l \in Listeners |-> <<>>] /\ client = [c \in IDs |-> NoClient]
  /\ walk = NoWalk /\ shutdown = FALSE /\ events = 0

Control == Disabled \/ Rebind \/ Open \/ Select \/ Accept \/ Exit
Serve(c) == Loop(c) \/ Read(c) \/ Destroy(c)
Walk == Stray \/ Found \/ GoOn

Next ==
  \/ Control \/ Walk \/ SetPort \/ Shutdown \/ OthersOpen
  \/ \E fd \in others : OthersClose(fd)
  \/ \E b \in BOOLEAN : Enable(b)
  \/ \E l \in Listeners : Connect(l) \/ (\E p \in Ports : SetFlag(l, p))
  \/ \E c \in IDs : Serve(c)
  \/ \E l \in Listeners, c \in IDs, todo \in {"show", "kill", "killall"} : StartWalk(l, c, todo)

\* Threads go on; messages keep coming; a timeout ends each select.
Fairness ==
  /\ WF_vars(Control) /\ WF_vars(SetPort) /\ \A c \in IDs : WF_vars(Serve(c))

Spec == Init /\ [][Next]_vars
FairSpec == Spec /\ Fairness

(***************************************************************************)
(* Properties.                                                             *)
(***************************************************************************)
TypeOK ==
  /\ \A l \in Listeners : sock[l] \in Fds \cup {Closed} /\ IsInjective(nodes[l])
  /\ IsInjective([f \in {<<"l", l>> : l \in {k \in Listeners : sock[k] # Closed}}
                       \cup {<<"c", c>> : c \in {d \in IDs : client[d].fd # Closed}} |->
                     IF f[1] = "l" THEN sock[f[2]] ELSE client[f[2]].fd])
  /\ \A c \in IDs : (\E l \in Listeners : c \in ToSet(nodes[l])) <=> client[c].st \notin {"none", "gone"}

(* While the listeners are enabled and nothing is being changed, each      *)
(* socket comes to listen on the configured port, unless the thread        *)
(* cleared the rebind flag before the command stored the port              *)
(* (setClientsControlListenPort sets the flag first).                      *)
Settled(l) == enabled /\ ~ shutdown /\ setting = NoSetting /\ ~ missed[l] /\ port[l] \notin InUse
ListensWhereTold ==
  \A l \in Listeners :
    Settled(l) ~> ~ Settled(l) \/ (sock[l] # Closed /\ boundTo[l] = port[l])

(* A connection that waits is accepted, refused or lost with the socket:   *)
(* select looks at descriptors below fdmax, which is set for the socket    *)
(* handled last, so this needs the later sockets to have higher ones; and  *)
(* select fails as long as read_fds holds a descriptor nobody put there.   *)
InReach(l) ==
  \A i, j \in DOMAIN Order : Order[i] = l /\ i < j => sock[Order[j]] = Closed \/ sock[l] < sock[Order[j]]
Answered ==
  \A l \in Listeners :
    pending[l] /\ InReach(l) /\ ~ garbage ~> ~ pending[l] \/ ~ InReach(l)

(* A client that was killed, by a command, by the shutdown or because a    *)
(* message could not be written, is gone once the queue has given its      *)
(* thread another message (clientUThread, which tests the flag only        *)
(* between two reads that block).                                          *)
KilledEnds == \A c \in IDs : client[c].del ~> client[c].st = "gone"
=============================================================================
