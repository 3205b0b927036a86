------------------------------- MODULE Chain -------------------------------
(***************************************************************************)
(* Chains: connections to other BGPmon instances whose messages this one   *)
(* passes on (Chains/chaininstance.c, Chains/chains.c), one thread per     *)
(* chain, with the commands that create, enable, disable and delete them   *)
(* (Login/chain_commands.c).  Neither the table of chains nor the cache of *)
(* which chain owns the messages of which origin has a lock.               *)
(***************************************************************************)
EXTENDS Integers, FiniteSets, FiniteSetsExt, SequencesExt

CONSTANTS
  Users,       \* logins that give commands
  Addrs,       \* an address with its two ports
  Configured,  \* the configurations considered: each address absent, disabled or enabled
  Origins,     \* BGPmon IDs that messages carry
  MaxSlots,    \* MAX_CHAIN_IDS
  MaxStructs,  \* bound: chains ever created
  MaxThreads,  \* bound: threads at a time
  MaxFd,       \* bound: descriptors
  MaxCommands, \* bound: commands
  MaxFailures  \* bound: attempts to connect that fail, and connections that break

Slots == 1..MaxSlots
Structs == 1..MaxStructs
Threads == 1..MaxThreads
Fds == 1..MaxFd
None == 0             \* NULL, -1
Lost == -1            \* an entry that is no longer in the cache's list

ASSUME ChainAssumption ==
  /\ MaxSlots \in Nat \ {0} /\ MaxStructs \in Nat /\ MaxFailures \in Nat
  /\ MaxStructs >= MaxSlots /\ MaxThreads \in Nat /\ MaxThreads >= MaxSlots
  /\ IsFiniteSet(Addrs)
  /\ MaxFd \in Nat /\ MaxFd >= 2 * MaxStructs + MaxFailures  \* there is always one to open
  /\ Configured \subseteq [Addrs -> {"absent", "disabled", "enabled"}]

VARIABLES
  table,     \* Chains: the structure in each slot
  chain,     \* the structures
  thread,    \* where each chain thread is
  owner,     \* the structure for which a descriptor was opened
  cache,     \* the list from cacheHead: origins and the chains that own them
  user,      \* what each login is doing
  commands,  \* bound: commands so far
  failures,  \* bound: how many of these so far
  doubled,   \* history: structures that may have two threads, or none to end them
  missed,    \* history: structures enabled while their thread was on its way out
  stray,     \* history: a thread closed numbers that a failed attempt had left
  raced,     \* history: origins whose entries were added at the same time
  sent       \* history: the chains that passed on messages of each origin

histories == <<commands, failures, doubled, missed, stray, raced, sent>>
vars == <<table, chain, thread, owner, cache, user, histories>>

NoChain == [st |-> "none", slot |-> None, addr |-> None, enabled |-> FALSE, delete |-> FALSE,
            running |-> FALSE, U |-> None, R |-> None]
NoThread == [pc |-> "none", chain |-> None, origin |-> None, tail |-> 0, failed |-> FALSE]
Idle == [do |-> "idle", slot |-> None, addr |-> None, enable |-> FALSE]

Alive(t) == thread[t].pc # "none"
ThreadsOf(c) == {t \in Threads : Alive(t) /\ thread[t].chain = c}
Closing == {"leave", "stop"}
Ending == Closing \cup {"clean", "destroy"}
Connected == {"manage", "add"}

(***************************************************************************)
(* Commands.                                                               *)
(***************************************************************************)
\* getChainID.
ChainID(a) == LET s == {i \in Slots : table[i] # None /\ chain[table[i]].addr = a}
              IN IF s = {} THEN None ELSE Min(s)
EmptySlot == LET s == {i \in Slots : table[i] = None} IN IF s = {} THEN None ELSE Min(s)

\* cmdChain and cmdNoChain up to the change, createChainStruct up to the slot.
Command(u, a, what) ==
  /\ user[u] = Idle /\ commands < MaxCommands
  /\ commands' = commands + 1
  /\ \/ /\ ChainID(a) # None
        /\ user' = [user EXCEPT ![u] = [do |-> what, slot |-> ChainID(a), addr |-> a, enable |-> FALSE]]
     \/ /\ ChainID(a) = None /\ what # "delete" /\ EmptySlot # None
        /\ user' = [user EXCEPT ![u] = [do |-> "create", slot |-> EmptySlot, addr |-> a,
                                        enable |-> what = "enable"]]
  /\ UNCHANGED <<table, chain, thread, owner, cache, failures, doubled, missed, stray, raced, sent>>

\* createChainStruct: whatever the slot holds by now is lost.
Create(u) ==
  /\ user[u].do = "create"
  /\ \E c \in Structs :
       /\ chain[c].st = "none" /\ \A d \in Structs : chain[d].st = "none" => c <= d
       /\ chain' = [chain EXCEPT ![c] = [NoChain EXCEPT !.st = "used", !.slot = user[u].slot,
                                           !.addr = user[u].addr, !.enabled = user[u].enable]]
       /\ table' = [table EXCEPT ![user[u].slot] = c]
       /\ doubled' = IF table[user[u].slot] = None THEN doubled
                     ELSE doubled \cup {c, table[user[u].slot]}
  /\ user' = [user EXCEPT ![u] = IF user[u].enable THEN [@ EXCEPT !.do = "enable"] ELSE Idle]
  /\ UNCHANGED <<thread, owner, cache, commands, failures, missed, stray, raced, sent>>

Target(u) == table[user[u].slot]

\* The slot has been emptied since the chain was looked up.
Gone(u) ==
  /\ user[u].do \in {"enable", "disable", "delete"} /\ Target(u) = None
  /\ user' = [user EXCEPT ![u] = Idle]
  /\ UNCHANGED <<table, chain, thread, owner, cache, histories>>

\* Mutant: a thread is started only for a chain that was not enabled.
Starts_IfNew(c) == ~ chain[c].running /\ ~ chain[c].enabled

Starts(c) == ~ chain[c].running

\* enableChain.
Enable(u) ==
  /\ user[u].do = "enable" /\ Target(u) # None
  /\ LET c == Target(u)
     IN /\ chain' = [chain EXCEPT ![c].enabled = TRUE]
        /\ IF Starts(c)
           THEN \E t \in Threads :
                  /\ ~ \E s \in Threads : s < t /\ thread[s].pc = "none"
                  /\ thread[t].pc = "none"
                  /\ thread' = [thread EXCEPT ![t] = [NoThread EXCEPT !.pc = "start", !.chain = c]]
           ELSE UNCHANGED thread
        /\ doubled' = IF Starts(c) /\ ThreadsOf(c) # {} THEN doubled \cup {c} ELSE doubled
        /\ missed' = IF \E t \in ThreadsOf(c) : thread[t].pc \in Closing
                     THEN missed \cup {c} ELSE missed \ {c}
  /\ user' = [user EXCEPT ![u] = Idle]
  /\ UNCHANGED <<table, owner, cache, commands, failures, stray, raced, sent>>

\* disableChain.
Disable(u) ==
  /\ user[u].do = "disable" /\ Target(u) # None
  /\ chain' = [chain EXCEPT ![Target(u)].enabled = FALSE]
  /\ user' = [user EXCEPT ![u] = Idle]
  /\ UNCHANGED <<table, thread, owner, cache, histories>>

Closed(fds) == [fd \in Fds |-> IF fd \in fds THEN None ELSE owner[fd]]

\* destroyChain and cleanupChainStruct.
Destroyed(c) == [NoChain EXCEPT !.st = "freed"]
Cleaned(c) == [chain[c] EXCEPT !.running = FALSE, !.U = None, !.R = None]

\* deleteChain: the memory of a chain that does not run is freed here.
Delete(u) ==
  /\ user[u].do = "delete" /\ Target(u) # None
  /\ LET c == Target(u)
     IN IF chain[c].running
        THEN /\ chain' = [chain EXCEPT ![c].enabled = FALSE, ![c].delete = TRUE]
             /\ UNCHANGED <<table, owner, doubled>>
        ELSE /\ chain' = [chain EXCEPT ![c] = Destroyed(c)]
             /\ table' = [table EXCEPT ![chain[c].slot] = None]
             /\ owner' = Closed({chain[c].U, chain[c].R})
             /\ doubled' = IF ThreadsOf(c) # {} THEN doubled \cup {c} ELSE doubled
  /\ user' = [user EXCEPT ![u] = Idle]
  /\ UNCHANGED <<thread, cache, commands, failures, missed, stray, raced, sent>>

(***************************************************************************)
(* chainThread.                                                            *)
(***************************************************************************)
\* What threads do with a structure that was freed, or that two of them have, is
\* undefined, and left out.
Astray(t) == chain[thread[t].chain].st = "freed" \/ thread[t].chain \in doubled
At(t, pc) == thread[t].pc = pc /\ ~ Astray(t)
Of(t) == chain[thread[t].chain]
Goto(t, pc) == thread' = [thread EXCEPT ![t].pc = pc]
Exit(t) == thread' = [thread EXCEPT ![t] = NoThread]

\* The two queue writers; the thread ends if there are none left.
Start(t) ==
  /\ At(t, "start")
  /\ \/ /\ chain' = [chain EXCEPT ![thread[t].chain].running = TRUE]
        /\ Goto(t, "loop") /\ UNCHANGED missed
     \/ /\ chain' = [chain EXCEPT ![thread[t].chain].running = FALSE]
        /\ Exit(t) /\ missed' = missed \cup {thread[t].chain}
  /\ UNCHANGED <<table, owner, cache, user, commands, failures, doubled, stray, raced, sent>>

Loop(t) ==
  /\ At(t, "loop") /\ ~ Of(t).enabled
  /\ Goto(t, "leave")
  /\ UNCHANGED <<table, chain, owner, cache, user, histories>>

\* establishConnection tries the update port, then the RIB port.
Tries(t, which) ==
  IF which = "U" THEN At(t, "loop") /\ Of(t).enabled ELSE At(t, "R")
After(t, which, ok) ==
  thread' = [thread EXCEPT ![t].pc = IF ~ ok THEN "loop" ELSE IF which = "U" THEN "R" ELSE "manage",
                           ![t].failed = ~ ok]
Holds(t, which, fd) ==
  chain' = IF which = "U" THEN [chain EXCEPT ![thread[t].chain].U = fd]
           ELSE [chain EXCEPT ![thread[t].chain].R = fd]
NewFds == {f \in Fds : owner[f] = None /\ \A g \in Fds : owner[g] = None => f <= g}

Connect(t, which) ==
  /\ Tries(t, which)
  /\ \E fd \in NewFds : Holds(t, which, fd) /\ owner' = [owner EXCEPT ![fd] = thread[t].chain]
  /\ After(t, which, TRUE)
  /\ UNCHANGED <<table, cache, user, histories>>

\* A number that could not be connected is closed, and kept in the structure;
\* or there was no address to connect to.
ConnectFails(t, which) ==
  /\ Tries(t, which) /\ failures < MaxFailures
  /\ failures' = failures + 1
  /\ UNCHANGED chain \/ (\E fd \in NewFds : Holds(t, which, fd))
  /\ After(t, which, FALSE)
  /\ UNCHANGED <<table, owner, cache, user, commands, doubled, missed, stray, raced, sent>>

\* Mutant: the RIB descriptor is not forgotten.
Forgotten_U(c) == [c EXCEPT !.U = None]

Forgotten(c) == [c EXCEPT !.U = None, !.R = None]

\* closeChainSocket, when a read fails or a command wants it.
CloseSockets(t) ==
  /\ At(t, "manage")
  /\ Of(t).enabled => failures < MaxFailures
  /\ failures' = IF Of(t).enabled THEN failures + 1 ELSE failures
  /\ owner' = Closed({Of(t).U, Of(t).R})
  /\ chain' = [chain EXCEPT ![thread[t].chain] = Forgotten(@)]
  /\ Goto(t, "loop")
  /\ UNCHANGED <<table, cache, user, commands, doubled, missed, stray, raced, sent>>

\* getCacheEntry.
Entry(o) == SelectInSeq(cache, LAMBDA e : e.origin = o)

Sent(t, o) == sent' = [sent EXCEPT ![o] = @ \cup {Of(t).slot}]

\* Mutant: the entry is taken for this chain's.
Owns_Any(t, o) == TRUE

Owns(t, o) == cache[Entry(o)].owner = Of(t).slot

\* readMessage: an owned message is written to the queue, another chain's is
\* dropped.  Less than a header is left for later, and a message without an
\* origin is passed on; neither changes anything here.
Known(t, o) ==
  /\ At(t, "manage") /\ Of(t).enabled /\ Entry(o) # 0
  /\ IF Owns(t, o) THEN Sent(t, o) ELSE UNCHANGED sent
  /\ UNCHANGED <<table, chain, thread, owner, cache, user, commands, failures, doubled, missed, stray, raced>>

Adding == {t \in Threads : Alive(t) /\ thread[t].pc = "add"}

\* addCacheEntry up to the end of the list.
Unknown(t, o) ==
  /\ At(t, "manage") /\ Of(t).enabled /\ Entry(o) = 0
  /\ thread' = [thread EXCEPT ![t].pc = "add", ![t].origin = o, ![t].tail = Len(cache)]
  /\ raced' = IF Adding = {} THEN raced ELSE raced \cup {o} \cup {thread[s].origin : s \in Adding}
  /\ UNCHANGED <<table, chain, owner, cache, user, commands, failures, doubled, missed, stray, sent>>

\* The entry becomes the one after what was the last, and the message is written.
\* What followed that one is lost, also for the threads that are about to add to it.
Behind(s, t) == thread[s].pc = "add" /\ thread[t].tail # Lost /\ thread[s].tail > thread[t].tail
Add(t) ==
  /\ At(t, "add")
  /\ cache' = IF thread[t].tail = Lost THEN cache
              ELSE Append(SubSeq(cache, 1, thread[t].tail), [origin |-> thread[t].origin, owner |-> Of(t).slot])
  /\ Sent(t, thread[t].origin)
  /\ thread' = [s \in Threads |->
                  IF s = t THEN [thread[t] EXCEPT !.pc = "manage", !.origin = None, !.tail = 0]
                  ELSE IF Behind(s, t) THEN [thread[s] EXCEPT !.tail = Lost] ELSE thread[s]]
  /\ UNCHANGED <<table, chain, owner, user, commands, failures, doubled, missed, stray, raced>>

\* Out of the main loop: what the structure holds is closed, the update socket
\* once more in place of the RIB socket.
Leave(t) ==
  /\ At(t, "leave")
  /\ owner' = Closed({Of(t).U})
  /\ stray' = (stray \/ thread[t].failed)
  /\ thread' = [thread EXCEPT ![t].pc = IF Of(t).delete THEN "destroy" ELSE "stop"]
  /\ UNCHANGED <<table, chain, cache, user, commands, failures, doubled, missed, raced, sent>>

\* cleanupChainStruct: first the flag, ...
Stop(t) ==
  /\ At(t, "stop")
  /\ chain' = [chain EXCEPT ![thread[t].chain].running = FALSE]
  /\ Goto(t, "clean")
  /\ UNCHANGED <<table, owner, cache, user, histories>>

CleanedUp(c) == Cleaned(c)

\* ... then the sockets, unless their numbers were forgotten.
Clean(t) ==
  /\ At(t, "clean")
  /\ owner' = Closed({Of(t).U, Of(t).R})
  /\ chain' = [chain EXCEPT ![thread[t].chain] = CleanedUp(thread[t].chain)]
  /\ Exit(t)
  /\ UNCHANGED <<table, cache, user, histories>>

\* destroyChain.
Destroy(t) ==
  /\ At(t, "destroy")
  /\ owner' = Closed({Of(t).U, Of(t).R})
  /\ chain' = [chain EXCEPT ![thread[t].chain] = Destroyed(@)]
  /\ table' = [table EXCEPT ![Of(t).slot] = None]
  /\ Exit(t)
  /\ UNCHANGED <<cache, user, histories>>

Stray(t) ==
  /\ Alive(t) /\ Astray(t)
  /\ Exit(t)
  /\ UNCHANGED <<table, chain, owner, cache, user, histories>>

\* readChainsSettings and launchAllChainsThreads.
Init ==
  \E f \in Configured :
    LET addrs == SetToSeq({a \in Addrs : f[a] # "absent"})
        n == Min({Len(addrs), MaxSlots})
        on(i) == i <= n /\ f[addrs[i]] = "enabled"
        new(i) == [NoChain EXCEPT !.st = "used", !.slot = i, !.addr = addrs[i], !.enabled = on(i)]
    IN /\ table = [i \in Slots |-> IF i <= n THEN i ELSE None]
       /\ chain = [c \in Structs |-> IF c <= n THEN new(c) ELSE NoChain]
       /\ thread = [t \in Threads |->
                      IF on(t) THEN [NoThread EXCEPT !.pc = "start", !.chain = t] ELSE NoThread]
       /\ owner = [fd \in Fds |-> None] /\ cache = <<>> /\ user = [u \in Users |-> Idle]
       /\ commands = 0 /\ failures = 0 /\ doubled = {} /\ missed = {} /\ stray = FALSE /\ raced = {}
       /\ sent = [o \in Origins |-> {}]

Connects(t) == \E which \in {"U", "R"} : Connect(t, which) \/ ConnectFails(t, which)
Read(t) == Add(t) \/ (\E o \in Origins : Known(t, o) \/ Unknown(t, o))
End(t) == Leave(t) \/ Stop(t) \/ Clean(t) \/ Destroy(t) \/ Stray(t)
Act(u) == Create(u) \/ Gone(u) \/ Enable(u) \/ Disable(u) \/ Delete(u)
Work(t) == Start(t) \/ Loop(t) \/ Connects(t) \/ Add(t) \/ End(t)

Next ==
  \/ \E t \in Threads : Work(t) \/ CloseSockets(t) \/ Read(t)
  \/ \E u \in Users : Act(u) \/ (\E a \in Addrs, what \in {"enable", "disable", "delete"} : Command(u, a, what))

\* Threads go on; a disabled chain sees its flag when its select times out.
Fairness ==
  /\ \A t \in Threads : WF_vars(Work(t) \/ (CloseSockets(t) /\ ~ Of(t).enabled))
  /\ \A u \in Users : WF_vars(Act(u))

Spec == Init /\ [][Next]_vars
FairSpec == Spec /\ Fairness

(***************************************************************************)
(* Properties.                                                             *)
(***************************************************************************)
(* The messages of one origin are passed on by one chain only              *)
(* (readMessage, getCacheEntry, addCacheEntry), whichever chains come and  *)
(* go, except that entries added at the same time may be lost or repeated. *)
OneForwarder == \A o \in Origins \ raced : Cardinality(sent[o]) <= 1

(* The two descriptors of a connected chain are open and its own: a chain  *)
(* that ends closes only what it opened, unless its last attempt to        *)
(* connect failed: the numbers left in the structure (chaininstance.c:292) *)
(* are closed once more, and may be another chain's by then.               *)
ConnectionsIntact ==
  ~ stray /\ doubled = {} =>
    \A t \in Threads : Alive(t) /\ thread[t].pc \in Connected =>
      Of(t).U # Of(t).R /\ owner[Of(t).U] = thread[t].chain /\ owner[Of(t).R] = thread[t].chain

(* A chain follows its flag: enabled, it comes to have a thread in its     *)
(* main loop, unless it was enabled while its thread was on its way out or *)
(* no queue writer was left; disabled, it comes to have none.  A chain     *)
(* with two threads is not considered (enableChain starts one whenever     *)
(* runningFlag is not set, which the thread does late, chaininstance.c:200) *)
Considered(c) == chain[c].st = "used" /\ c \notin doubled \cup missed
Disobeys(c) == IF chain[c].enabled THEN \A t \in ThreadsOf(c) : thread[t].pc \in {"start"} \cup Ending
               ELSE ThreadsOf(c) # {}
Obeys ==
  \A c \in Structs : Considered(c) /\ Disobeys(c) ~> ~ (Considered(c) /\ Disobeys(c))
=============================================================================
