----------------------------- MODULE StartStop -----------------------------
(***************************************************************************)
(* How BGPmon starts and stops: main (main.c) creates the queues and       *)
(* launches the modules one after another; SIGTERM makes the signal thread *)
(* write a last message, raise each module's flag, join its threads and    *)
(* free the queues (signals.c, closeBgpmon).  Between them the messages:   *)
(* peers write to the peer queue, the labeling thread (label.c) moves each *)
(* to the labeled queue, the XML thread (xml.c) from there to the clients. *)
(* The threads look at their flags only between two reads that block.      *)
(* The command shutdown (commands.c) makes its connection's thread call    *)
(* closeBgpmon, which joins that thread too; a second call is left out.    *)
(* Queues are unbounded here (Queue has their limits), and a message       *)
(* written to a queue without a reader is freed.                           *)
(***************************************************************************)
EXTENDS Naturals, Sequences, FiniteSets

CONSTANT MaxSent  \* bound: messages of the peer, the periodic threads, the connection

VARIABLES
  main,     \* how far main has come
  thread,   \* the state of each thread
  enabled,  \* the peer is configured to run; its thread's flag
  flag,     \* modules whose shutdown flag is raised
  closer,   \* how far closeBgpmon has come
  early,    \* history: it began before main was done
  told,     \* the connection's thread has been told to end (deleteClient)
  queue,    \* the messages in each queue
  readers,  \* queues that have a reader
  freed,    \* the queues have been freed
  crashed,  \* bgpmon has crashed
  sent      \* bound: messages so far

vars == <<main, thread, enabled, flag, closer, early, told, queue, readers, freed, crashed, sent>>

Queues == {"peerQueue", "labeledQueue"}
\* "connection" is the thread of a client or of an MRT collector, "cli" that of
\* a user's connection.  The MRT control thread is as that of the clients; chain
\* threads are in Chain.  A message is an update or a note.
Acceptor == [cli |-> "login", connection |-> "clients"]
Control == {"login", "clients"}
Users == {"peer", "label", "xml", "periodic", "connection"}  \* of the queues
Threads == Users \cup Control \cup {"cli"}

\* Mutant: the periodic module's flag is forgotten.
Flags_Some == <<"peers", "label", "xml", "clients">>

\* Mutant: the labeling thread is not waited for.
Joins_Some == <<"login", "cli", "peer", "periodic", "xml", "clients">>

Start == <<"queues", "peers", "label", "xml", "clients", "login", "periodic", "start">>
Flags == <<"peers", "label", "periodic", "xml", "clients">>
Joins == <<"login", "cli", "peer", "label", "periodic", "xml", "clients">>

Idle == 0
Stopping == 1 + Len(Flags)           \* the first join
Freeing == Stopping + Len(Joins)
Exited == Freeing + 1

Running(t) == thread[t] \notin {"none", "done", "lost"}
Go(t, pc) == thread' = [thread EXCEPT ![t] = pc]
Exists == main > 1 /\ ~ freed
Alive == ~ crashed /\ closer # Exited

\* To use a queue that has been freed goes wrong or does not.
Use == crashed' \in {FALSE, freed}

\* writeQueue.
Put(q, m) == queue' = IF Exists /\ q \in readers THEN [queue EXCEPT ![q] = Append(@, m)] ELSE queue

(***************************************************************************)
(* main.                                                                   *)
(***************************************************************************)
Launch(ts) ==
  /\ thread' = [t \in Threads |-> IF t \in ts THEN "start" ELSE thread[t]]
  /\ UNCHANGED queue

\* The next step of main; a peer is launched if it is enabled.
MainStep ==
  /\ Alive /\ main <= Len(Start)
  /\ main' = main + 1
  /\ LET step == Start[main]
     IN CASE step = "start" -> Put("peerQueue", "note") /\ UNCHANGED thread
          [] step = "queues" -> UNCHANGED <<thread, queue>>
          [] step = "peers" -> Launch(IF enabled THEN {"peer"} ELSE {})
          [] OTHER -> Launch({step})
  /\ UNCHANGED <<enabled, flag, closer, early, told, readers, freed, crashed, sent>>

(***************************************************************************)
(* The threads.                                                            *)
(***************************************************************************)
\* labelingThread and xmlThread subscribe to their queue, ...
Source == [label |-> "peerQueue", xml |-> "labeledQueue"]

\* ... and xmlThread clears the flag of its module.
Cleared == flag \ {"xml"}

Subscribe(t) ==
  /\ Alive /\ t \in DOMAIN Source /\ thread[t] = "start"
  /\ readers' = readers \cup {Source[t]}
  /\ flag' = IF t = "xml" THEN Cleared ELSE flag
  /\ Go(t, "loop")
  /\ UNCHANGED <<main, enabled, closer, early, told, queue, freed, crashed, sent>>

\* The flag is looked at, and then readQueue is called.
Test(t) ==
  /\ Alive /\ t \in {"label", "xml"} /\ thread[t] = "loop"
  /\ Go(t, IF t \in flag THEN "leave" ELSE "read")
  /\ UNCHANGED <<main, enabled, flag, closer, early, told, queue, readers, freed, crashed, sent>>

\* The labeling thread moves a message on, unless it is an update that cannot
\* be labeled (processBMF); the XML thread's clients are left out.
Read(t) ==
  /\ Alive /\ t \in {"label", "xml"} /\ thread[t] = "read" /\ queue[Source[t]] # <<>>
  /\ LET m == Head(queue[Source[t]])
         rest == [queue EXCEPT ![Source[t]] = Tail(@)]
         moved == [rest EXCEPT !["labeledQueue"] = Append(@, m)]
     IN \/ /\ t = "label" /\ "labeledQueue" \in readers
           /\ queue' = moved
        \/ /\ t = "xml" \/ m = "update" \/ "labeledQueue" \notin readers
           /\ queue' = rest
  /\ Go(t, "loop") /\ Use
  /\ UNCHANGED <<main, enabled, flag, closer, early, told, readers, freed, sent>>

\* The reader is destroyed and the thread ends.
Leave(t) ==
  /\ Alive /\ t \in {"label", "xml"} /\ thread[t] = "leave"
  /\ readers' = readers \ {Source[t]} /\ queue' = [queue EXCEPT ![Source[t]] = <<>>]
  /\ Go(t, "done") /\ Use
  /\ UNCHANGED <<main, enabled, flag, closer, early, told, freed, sent>>

\* The peer, the periodic threads and a collector write.
Writes(t) ==
  /\ Alive /\ t \in {"peer", "periodic", "connection"} /\ thread[t] = "start" /\ sent < MaxSent
  /\ sent' = sent + 1 /\ Use
  /\ IF t = "periodic" THEN Put("labeledQueue", "note") ELSE Put("peerQueue", "update")
  /\ UNCHANGED <<main, thread, enabled, flag, closer, early, told, readers, freed>>

\* A peer's thread that is disabled ends its session, if it has one, and says so.
PeerEnds ==
  /\ Alive /\ thread["peer"] = "start" /\ ~ enabled
  /\ \/ Put("peerQueue", "note") /\ Use
     \/ UNCHANGED <<queue, crashed>>
  /\ Go("peer", "done")
  /\ UNCHANGED <<main, enabled, flag, closer, early, told, readers, freed, sent>>

\* The periodic threads and the control threads look at their flags in time;
\* the login module's is raised before the others'.
Ends(t) ==
  /\ Alive /\ thread[t] = "start" /\ t \in Control \cup {"periodic"}
  /\ t \in flag \cup (IF closer = Idle THEN {} ELSE {"login"})
  /\ Go(t, "done")
  /\ UNCHANGED <<main, enabled, flag, closer, early, told, queue, readers, freed, crashed, sent>>

\* A control thread accepts a connection: a thread of its own serves it.
Accept(t) ==
  /\ Alive /\ t \in DOMAIN Acceptor /\ thread[Acceptor[t]] = "start" /\ ~ Running(t)
  /\ Go(t, "start")
  /\ told' = (told /\ t # "connection")
  /\ UNCHANGED <<main, enabled, flag, closer, early, queue, readers, freed, crashed, sent>>

\* The thread of a connection ends when its peer closes it, and looks at what it
\* was told when a message or a command comes.  It frees its node: the one
\* waitForLoginShutdown is at, if that waits for it.
Hangs(t) ==
  /\ Alive /\ t \in DOMAIN Acceptor /\ thread[t] \in {"start", "awaited"}
  /\ Go(t, IF thread[t] = "awaited" THEN "lost" ELSE "none")
  /\ IF t = "connection" THEN Use ELSE UNCHANGED crashed
  /\ UNCHANGED <<main, enabled, flag, closer, early, told, queue, readers, freed, sent>>

(***************************************************************************)
(* closeBgpmon.                                                            *)
(***************************************************************************)
\* SIGTERM, or the command; the last message, and there may be no queue yet.
Close ==
  /\ Alive /\ closer = Idle
  /\ \/ UNCHANGED thread
     \/ thread["cli"] = "start" /\ Go("cli", "closing")
  /\ IF Exists THEN Put("peerQueue", "note") /\ closer' = 1 /\ UNCHANGED crashed
               ELSE crashed' = TRUE /\ UNCHANGED <<queue, closer>>
  /\ early' = (main <= Len(Start))
  /\ UNCHANGED <<main, enabled, flag, told, readers, freed, sent>>

\* signalChainShutdown disables the chains: it stops nothing modelled here.
Signal ==
  /\ Alive /\ closer \in 1..Len(Flags)
  /\ closer' = closer + 1
  /\ LET module == Flags[closer]
     IN IF module = "peers" THEN enabled' = FALSE /\ UNCHANGED flag
        ELSE flag' = flag \cup {module} /\ UNCHANGED enabled
  /\ UNCHANGED <<main, thread, early, told, queue, readers, freed, crashed, sent>>

Joined == Joins[closer - Len(Flags)]

\* Goes on, or goes wrong.
OnOrWrong(wrong) ==
  \/ closer' = closer + 1 /\ UNCHANGED crashed
  \/ wrong /\ crashed' = TRUE /\ UNCHANGED closer

\* pthread_join: one of a thread that was never created goes wrong or returns.
\* After that of the clients' control thread the clients are told to end, and
\* one that ends meanwhile frees the node looked at.
Join ==
  /\ Alive /\ closer \in Stopping..(Freeing - 1) /\ Joined # "cli" /\ ~ Running(Joined)
  /\ OnOrWrong(thread[Joined] = "none" \/ (Joined = "clients" /\ Running("connection")))
  /\ told' = (told \/ Joined = "clients")
  /\ UNCHANGED <<main, thread, enabled, flag, early, queue, readers, freed, sent>>

\* waitForLoginShutdown joins the threads of its list of connections: its own
\* join returns an error, and the next node is read from one that was freed.
JoinCli ==
  /\ Alive /\ closer \in Stopping..(Freeing - 1) /\ Joined = "cli"
  /\ \/ thread["cli"] = "start" /\ Go("cli", "awaited") /\ UNCHANGED <<closer, crashed>>
     \/ thread["cli"] \notin {"start", "awaited"} /\ UNCHANGED thread /\ OnOrWrong(thread["cli"] = "lost")
  /\ UNCHANGED <<main, enabled, flag, early, told, queue, readers, freed, sent>>

\* destroyQueue, four times; then exit.
Free ==
  /\ Alive /\ closer = Freeing
  /\ IF freed THEN closer' = Exited /\ UNCHANGED freed ELSE freed' = TRUE /\ UNCHANGED closer
  /\ UNCHANGED <<main, thread, enabled, flag, early, told, queue, readers, crashed, sent>>

Init ==
  /\ main = 1 /\ thread = [t \in Threads |-> "none"] /\ enabled \in BOOLEAN
  /\ flag = {} /\ closer = Idle /\ early = FALSE /\ told = FALSE
  /\ queue = [q \in Queues |-> <<>>] /\ readers = {} /\ freed = FALSE
  /\ crashed = FALSE /\ sent = 0

Closing == Signal \/ Join \/ JoinCli \/ Free
Step(t) == Subscribe(t) \/ Test(t) \/ Read(t) \/ Leave(t) \/ Ends(t)
Next ==
  \/ MainStep \/ Close \/ Closing \/ PeerEnds
  \/ \E t \in Threads : Step(t) \/ Writes(t) \/ Accept(t) \/ Hangs(t)

\* Threads run; nothing makes a peer, a client or the operating system act.
Fairness ==
  /\ WF_vars(MainStep) /\ WF_vars(Closing) /\ WF_vars(PeerEnds)
  /\ \A t \in Threads : WF_vars(Step(t))

Spec == Init /\ [][Next]_vars
FairSpec == Spec /\ Fairness

\* Bound of the run: nothing is claimed of what follows an early stop.
Started == ~ early

(***************************************************************************)
(* Properties.                                                             *)
(***************************************************************************)
(* If bgpmon had started when it was told to stop, then of all the threads *)
(* that use the queues only that of a client or a collector can still run  *)
(* when they are freed, and it has been told to end: nobody waits for it   *)
(* (the joins of clientscontrol.c:1196 and mrtcontrol.c:818 are commented  *)
(* out), so closeBgpmon's "all modules are shut down" is not so.           *)
LastUsersAreTold ==
  freed /\ ~ early => \A t \in Users : Running(t) => t = "connection" /\ told

\* The labeling or the XML thread waits for a message: neither its flag nor
\* the last message can be seen.
Starved == \E t \in {"label", "xml"} : thread[t] = "read" /\ queue[Source[t]] = <<>>

\* A user's connection is waited for that sends nothing.
Silent == thread["cli"] = "awaited"

(* Told to stop when it had started, bgpmon comes to its exit, unless the  *)
(* labeling or the XML thread waits for a message for ever, its flag       *)
(* raised after it looked or cleared by xmlThread at its start, a user     *)
(* stays connected and types nothing, or a join of what was never launched *)
(* or has been freed goes wrong.                                           *)
Stops == (closer # Idle /\ ~ early) ~> (closer = Exited \/ crashed \/ []Starved \/ []Silent)
=============================================================================
