# BGPmon 7.2.2 in TLA+

BGPmon is a BGP monitor: it holds BGP sessions with routers, labels the updates
it hears against a copy of each router's RIB, turns them into XML and streams
them to any number of clients.  It is one multithreaded C process.  This
directory holds TLA+ modules that model it, TLC configurations that check them
on small instances, and theorems checked by TLAPS.

## 1. Inventory

    peer threads, MRT threads, main       periodic thread (RIB transfers)
            |  BMF messages                        |
            v                                      v
        peerQueue --> labeling thread --> labeledQueue --> XML thread
                        (RIB tables)                      |         |
                                                          v         v
       chain threads -----------------------------> xmlUQueue   xmlRQueue
                                                       |            |
                                                 client threads (one reader each)

| part (directory) | state | what makes it hard | what makes it correct | module |
|---|---|---|---|---|
| **Queue, pacing** (`Queues/`) | ring of counted items, head, tail, a position per reader; intervals, limits, averages | readers join, leave, are skipped, sleep on a condition variable while writers go on or sleep themselves; unlocked reads | no item lost, leaked, overwritten; counts equal readers to come; nobody asleep with work to do | `Queue`, `PubSub` |
| **Sessions** (`Peering/peersession.c`) | the array `Sessions`, FSM state, RIB pointers | a session is made by its peer's thread and freed by the XML thread, once the message that ends it has gone through two queues | each session is freed once, with its tables, and nobody uses a freed one | `SessionLife` |
| **State machine, BGP messages** (`bgpfsm.c`, `bgppacket.c`) | state, timers, socket | jittered timers served one at a time, reads that block in the middle of a message | silent peers are dropped, keepalives come in time, resources are those of the state | `PeerFsm` |
| **Peers, groups** (`peers.c`, `peergroup.c`) | slots of settings, inherited from group and default group; capability rules | slots used again, deletions under threads, a saved file read again | a name reads what was set for it, before and after a restart | `PeerConfig` |
| **Labeling, RIB tables** (`Labeling/`) | per session: prefixes and attribute nodes, both hashed, nodes shared by count | two threads and a set of bucket locks; errors half way through an update | the table is what the peer announced; labels tell new from changed from same; counts | `RibTable`, `Rib` |
| **XML thread and conversion** (`XML/`) | sequence number, message text | two output queues; lengths written before the text is known | a client that merges the streams can follow every table | `Feed` |
| **Chains** (`Chains/`) | table of chains, two sockets each, cache of message owners | connections that fail separately; several threads on one unlocked table and cache | an origin is passed on by one chain; sockets closed once | `Chain` |
| **Clients** (`Clients/`) | two listeners, list of clients | a listener and its threads, and commands, share the list | listens where told; connections are answered; killed clients end | `Clients` |
| **MRT** (`Mrt/`) | one thread per collector, sessions shared by address | messages held back by one; sessions made by two threads at a time; ends in the middle | what the stream holds is written, in order, under its own session; nothing stays established | `Mrt` |
| **Periodic** (`PeriodicEvents/`) | intervals | a schedule over a changing set of sessions | | part of `SessionLife`, `Feed`, `StartStop` |
| **Start, shutdown** (`main.c`, `Util/signals.c`) | a flag per component | threads that block in `readQueue`; SIGTERM at any moment | the shutdown ends; queues are freed last | `StartStop` |
| **Login, ACLs, configuration** (`Login/`, `Util/acl.c`, `Config/`) | CLI sessions and modes, lists of rules, numbers, the file | several users edit at once; lists removed in use; files that cannot be read whole | rules decide in order; enable mode is not lost; a restart keeps what was saved | `Cli`, `Acl` |
| **Utilities, sample clients** | | | | not modelled |

`PROJECT.json` lists the components with what each model leaves out, the source
lines of every definition (`map`), and the hazards, each at its line.

## 2. Modules

Every component has a module of its own; `MC*.tla` gives constants their
values for TLC, `*Proofs.tla` holds theorems.  Modules compose where
components interact through more than a queue: `Cli` extends `Acl`;
`SessionLife`, `Feed` and `StartStop` each have the peer thread, the labeling
thread, the XML thread and the queues between them, with the detail that their question needs.
`Queue` refines `PubSub`, and the other modules then use a queue as a sequence
whose readers fall behind when it is full; `RibTable` refines `Rib`.

### Queue, PubSub

`Queue.tla` models all of `queue.c` that changes the queue's state (save
`destroyQueue`) and all of `pacing.c`.  One instance is one of the four
queues; `newPacingEnable` is the argument of `createQueue` in `main.c`.
`PubSub.tla` is what the comment at the head of `queue.h` promises: a log in
which each item is stored until every subscriber has read it.  `MCQueue.tla` maps
one to the other: `tail` is the number of items published, `nextItem` the cursors, the buffers
in the ring what is stored.

A thread is named by the slot it holds.  `queueLock` is the variable `lock`,
whose value says who holds it.  A section under the lock in which nothing can be
seen from outside is one step; sections with loops are cut at the heads of
those loops, so that running out of an array, or never leaving a loop, would
show.  What happens without the lock is cut at every access.

| code | actions |
|---|---|
| `createQueueReader` | `CreateReader`, `JoinSum`\*, `JoinDone` |
| `readQueue` | `ReadWait` / `SpuriousWakeup`, or `ReadItem`, `UpdateInterval`\*, `ReadUnlock`, `ReadLoadTail`, `ReadReturn` |
| `destroyQueueReader` | `DestroyReader` |
| `createQueueWriter` | `CreateWriter`, `CreateWriterNoRoom` |
| `writeQueue` | `WriteLock`, `AdjustFull`\*, `AdjustFullDone`, `UpdateInterval`\*, `ThresholdStart`, `AdjustThreshold`\*, `WriteItem`, `PaceSleep`, `PaceWake`, `Notify` |
| `destroyQueueWriter` | `DestroyWriter` |

Time is a difference: `elapsed` is the time since the interval's `tick`.
Buffers are named by the position of their item; `tick` and `time(NULL)` in the
argument of the pacing sleep are read at one instant; averages are taken in integers,
weights in percent; `readCount` and `writeCount` saturate at `MaxPerInterval`.

### SessionLife

A session is made by its peer's thread and used through the array `Sessions`
by everybody else.  Nobody counts its users.  It ends by message: the
peer's thread announces a change to Idle and at once makes a new session in another
slot; the labeling thread deletes the RIB of the slot that the message names,
and forwards the message; the XML thread frees what is in the slot and clears it.

| code | actions |
|---|---|
| `createSessionStruct` | `ScanSlot` (one slot per step: others may take or clear it meanwhile), `TakeSlot`, `TakeFails` |
| `peerThreadFunction` | `LoopTop`, `RunFsm`, `GiveUp`, `AnnounceChange`, `TakeConfig`, `Relabel`, `SendRouteRefresh` or `NothingToDo`, `EndThread` |
| `labelingThread`, `processBMF`, `deleteRibTable` | `LabelRead`, `LabelApply`, `LabelForward` |
| `xmlThread`, `destroySession` | `XmlRead`, `XmlDestroy`, `XmlClear` |
| `periodicRouteRefreshThread`, `doRouteRefresh`, `sendRibTable` | `RoundStart`, `TransferStart`, `TransferCheck`, `TransferBucket`, `TransferFlag`, `RoundEnd` |
| commands | `SetPeerEnabledFlag`, `ReconnectPeer`, `DeletePeer`, `LaunchAllPeers`, `SetPeerLabelAction` |

A structure is named by the order of its creation, so that a pointer kept over the
end of its session can be told from one to the next session in the slot.
OpenSent and OpenConfirm are one state.  A change of the label action makes or
deletes tables only as `setSessionLabelAction` does: those made for a session that had no label
action are new (`remade`), and a peer without one does not pass the change on to its session.  The state machine is free among the moves it can make
(`FsmMoves`); timers are left to `PeerFsm`.  Of the messages only updates,
state changes and transfers are kept.  The insertion into `Sessions` and the
creation of the tables that follows are one step.  `own`, `endedFrom`,
`lost`, `collided` and the field `of` of messages are history: no guard reads them.

### PeerFsm

One turn of the peer thread's loop (`Turn`) runs `checkTimers` and one state
function: `FsmIdle`, `FsmConnect`, `OpenSentGets`, `OpenConfirmGets`,
`EstablishedGets`, `FsmTimer`, `FsmRead`.  The thread takes no time; time passes
(`Tick`, one second) while it waits in `select` or `readn`, or while it turns without
waiting because the keepalive timer is always due (`Spins`, a hold time below 6), and a read blocks in
the middle of a message (`Blocks`, `MoreArrives`, `ReadTimesOut`) at most
`MaxStalls` times.  Sends never block.  What a message holds is chosen when it is
read.  `setSessionConfigInUse` does not adjust `keepaliveInt`; a failed route refresh resets
the session without replacing it.

### PeerConfig

Slots of peers and groups; settings by kind (where their accessors are), each
inherited from group and default group; capability rules and what they make of
an OPEN; every command of `peer_commands.c` that changes something; reading by
the peer's thread and by the show commands; the saved file, a crash and a restart from
it.  One peer per address.

### RibTable, Rib

`RibTable` has the prefix table, the attribute nodes with their lists of
prefixes and counts, the buckets with their locks.  `parseBGPUpdate` and
`applyBGPUpdate` take one section of an update after the other
(`NextSections`, `StartMpReach`, `Withdraw`, `AnnounceNew`, `ChangeLabel` ..., one
prefix per step), while `sendRibTable` walks the buckets (`TransferStart`,
`EnterBucket`, `Collect`, `SendLast`, `TransferStop`).  `Rib` is a map from prefixes to routes
whose labels say how a route differs from the one before.  Left out:
attributes byte by byte, the collision limits of the hash.

### Feed

Sessions of several peers take slots of `Sessions` in turn (`SessionOpens`,
`SessionCloses`); the labeling thread takes their messages (`ProcessBMF`, `PassUpdate`,
`PassOther`, `PassSent`, `StateChange`), the route refresh thread finds a session and sends
its table's messages, the first for the ID it found and the last even when that session has gone
(`FindSession`, `SendRibTable`), commands change the label action (`SetSessionLabelAction`),
others send reports (`Report`).  On the full labeled queue a write makes its
reader, the XML thread, skip what is there (`Forward`, `Full`).  The XML thread converts
and routes the messages (`XmlThread`) to the two queues with their numbers, names the peer of
whatever session has the ID by then (`GenPeering`), and frees a session with its closing.  An
update is a sequence of sections, with those that parse badly, in the orders the code can
meet; labels are put on the prefixes as they are met and read back by the XML
conversion in its own order, which takes SNPAs for prefixes (`misread`).  A table is a
set of prefixes; reading, conversion and write are one step.

### Chain

Two users' commands on the unlocked table (`Create`, `Enable`, `Disable`, `Delete`,
in the steps between which another user may come), the chain's thread (`Start`,
`Loop`, `Connect`, `ConnectFails`, `CloseSockets`, `Read`, `Leave`, `Stop`,
`CleanedUp`, `Destroyed`), the cache with an entry's search and insertion apart
(`Known`, `Unknown`, `Behind`, `Add`): a thread remembers the last entry it saw, and an
insertion after it loses what was added meanwhile.  The lowest free descriptor is
opened.  The loop's test is merged with the first attempt to connect.

### Clients

The control thread with its two sockets and its descriptor set (`Control`: `Rebind`,
`Open`, `Watch`, `Select`, `Accept`, `Exit`), a client's thread (`Serve`: `Loop`, `Read`,
`Unlinked`, `Destroy`), the commands that walk the list
(`StartWalk`, `Found`, `GoOn`; `Stray` where the node has been freed), the settings (`Enable`, `SetFlag`, `SetPort`), the
shutdown.  Descriptors that the rest of the program opens and closes are external.

### Mrt

A collector's thread reads a header and the message behind it (`Read`) and submits the
message before (`Submitted`, `Find`, `Scan`, `Insert`, `Write`), since a message goes out only once what
follows it has been parsed or the stream has ended.  A message that cannot be parsed destroys what
`bmf` points to, which may never have been set or be freed already (`Empty`): then the
program may crash.  At the end it marks the sessions it was
the last writer of (`Collect`, `Mark`, `Destroy`).  `deleteMrt` and the shutdown
come at any moment.

### StartStop

`main` in its order (`MainStep`), the threads (`Subscribe`, `Test`, `Read`,
`Leave`, `Writes`, `Ends`), `closeBgpmon`, called by the signal thread or by a user's connection
(`Close`, `Signal`, `Join`, `JoinCli`, `Free`).  Control threads accept connections, each with a
thread of its own (`Accept`, `Hangs`): "connection" is that of a client or of a
collector, told to end and never joined; "cli" that of a user, which is joined, by itself too
if it gave the command, and which frees the node the walk is at.  A use of a freed
queue or node goes wrong or does not.  Messages are updates or notes.  The MRT control thread
is the clients' one, chains' threads are in `Chain`; a second `closeBgpmon` at the same time is left out.

### Cli, Acl

`Cli` has sessions with their modes (`commandMask`; "asked" is the prompt for the
enable password), the enable flag, the numeric settings by section, the file and a
restart from it; `Acl` the lists in memory cells, the first match, rules by
index, reading and saving.  A number stands for all that are stored and read
alike; 65536 is scaled to `MaxInt`.  `readACLList` is stated by positions: the
i-th rule is the i-th complete entry, with the type of the last entry that has
one of the four.  Text, help and show commands are left out.

## 3. Runs

Every run passes, with two workers within five minutes.

| run | properties | bounds, and why they are enough |
|---|---|---|
| `queue` | `TypeOK`, `RefCounts`, `BuffersIntact`, `NeverStillFull`, `NoLostWakeup`, `ImplementsPubSub` | new pacing, ring of 3 so that the threshold pass (at half) and the pass on a full ring differ; `MaxTail` 4: slot 0 is used again under readers of the first round; 2 readers, 2 writers, a spare thread that asks for a third writer; intervals that end two at a time (`MaxElapsed` 2). With new pacing no writer sleeps |
| `queue_live` | `WaiterReads`, `WriteReturns` | old pacing, ring of 2, 2 readers: skipping the slowest may make the other one the slowest within the same pass; wraps twice. `MaxElapsed` = `pacingInterval`: no writer is held up for a whole interval between unlock and sleep |
| `life` | `OwnSession`, `LabelSafe`, `UpdatesToOwnRib`, `EndsTheRightSession`, `NoTableLeaked`, `Reclaimed` | one peer, two threads on one slot, two sessions in turn, queues of 2 that overflow, one command or transfer round, or two changes of the label action (`MaxEvents` 2, the latter count one), at any moment, every command. The constraint `SlotsTakenOnce` cuts off states after two threads took one empty slot: nothing can be promised there |
| `fsm` | `ResourcesByState`, `SilentPeerDropped`, `KeepalivesInTime`, `DataAreRead` | local hold times 6 and 9, offered ones 3, 6 and 12: jittered keepalive intervals are distinct, more than one keepalive falls into a hold time, and with 3 the keepalive timer is always due; two reads that block, one message waiting, two retries, one pending command; `MaxAgo` exceeds every bound a property states |
| `rib` | `RefsAgree`, `NodesUsedAreLive`, `TransferComplete`, `ImplementsRib` | one IPv4 and two multiprotocol prefixes, three paths in two buckets (two share one), two attributes, messages of a transfer that hold one prefix, updates of two: nodes are shared, left by one prefix, by the last, freed and made again under a walk |
| `config` | `ReadsAsNamed`, `OpensByTheRules`, `RestartKeepsPeers` | one peer, two named groups and the default one in three slots, so that a freed slot is used by another group; one setting of each class; two first files |
| `cli` | `RestartKeeps`, `EnableNotStuck`, `RulesTakeEffectInOrder` | two users, two listeners, lists and rules up to three, four commands or restarts, a setting before and one after the lists in the file; the first start is without file or with one by hand whose rules are incomplete and misspelt |
| `clients` | `ListensWhereTold`, `Answered`, `KilledEnds` | three ports, one of them unusable; two clients, IDs that wrap after two; one foreign descriptor; two configuration events |
| `mrt` | `WritesWhatIsFollowed`, `NotLeftEstablished` | two collectors with the same and with different addresses, two slots, four writers, streams of four items: a message held back, one that submits it, one after, and the end |
| `chain` | `OneForwarder`, `ConnectionsIntact`, `Obeys` | two users, two slots, two structures, two threads, five descriptors, two commands, one failure, one origin |
| `shutdown` | `LastUsersAreTold`, `Stops` | one message of a thread that writes, one connection of each kind at a time, any number in turn; SIGTERM or the command between any two steps once `main` is done. The constraint `Started` cuts off what follows an earlier SIGTERM, of which nothing is claimed |
| `feed` | `ClientFollows`, `Framed` | two prefixes, two peers and two slots, so that each peer's session may follow the other's; three messages or commands of every kind, a labeled queue of 2 that the third one skips; updates with refused sections and SNPAs; numbers that wrap, texts up to and beyond a power of ten |

Users, connections and collectors are symmetric where the run says so.
Deadlock is checked where the system cannot stop (`queue_live`, `rib`, `fsm`, `config`);
elsewhere threads may all have ended, or a bound be used up.

### Fairness

Nothing is assumed of peers, clients, collectors and readers that have not begun an
operation.

* `Queue`: weak fairness of what a thread does once it runs, and of the clock;
  strong fairness where a thread waits for the lock within an operation it has
  begun (`ReadItem` of a woken reader, `PaceWake`): a mutex that is free again and again is got in the end.
* `SessionLife`: weak fairness of the labeling and the XML thread, each a loop round a
  blocking read.
* `PeerFsm`: of the thread's turns and of the clock; and the jitter, which is random, does not for
  ever draw an interval that has expired at once when it can draw another.
* `Clients`: of the control thread, of the thread of each client, and of a command that has begun to set a port.
* `Chain`: of the threads (a `select` times out) and of a login that has begun a command.
* `StartStop`: of `main`, of `closeBgpmon`, of every thread, and of the peer thread's end; nothing makes
  a connection end or a peer write.

## 4. Proofs

Each proof module extends the module, or the two modules, it is about; all constants are arbitrary
within the named assumptions of those modules, which TLC evaluates in the runs.  Every safety
property of the runs is a theorem.

| module | theorems about properties of runs | others |
|---|---|---|
| `QueueProofs` | `RefCounts`, `BuffersIntact`, `NeverStillFull`, `NoLostWakeup`, `TypeOK`, refinement `ImplementsPubSub` | `PositionsInWindow` |
| `SessionLifeProofs` | `OwnSession`, `LabelSafe`, `UpdatesToOwnRib`, `EndsTheRightSession`, `NoTableLeaked` | types, the invariant |
| `RibProofs` | `RefsAgree`, `NodesUsedAreLive`, `TransferComplete`, refinement `ImplementsRib` | no node is left |
| `PeerProofs` (`PeerFsm`, `PeerConfig`) | `ResourcesByState`, `SilentPeerDropped`, `KeepalivesInTime`, `ReadsAsNamed`, `OpensByTheRules`, `RestartKeepsPeers` | types of both |
| `ChainProofs` | `OneForwarder`, `ConnectionsIntact` | types |
| `MrtProofs` | `WritesWhatIsFollowed`, `NotLeftEstablished` | types, `OwnSession` |
| `PipelineProofs` (`Feed`, `StartStop`) | `ClientFollows`, `Framed`, `LastUsersAreTold` | types |
| `CliProofs` | `EnableNotStuck`, `RulesTakeEffectInOrder`, `RestartKeeps` | types, `RestartRepairs` |

### The arguments

**Queue.**  The hypothesis `TwoItems` (new pacing has a ring of more than one slot) is
needed: with one slot, the pass over a full ring moves a reader beyond the tail.
`IInv` adds to the invariants `Control` (which program counters go with which
holder of the lock), `JoinSoFar` (after `seen` readers, `sum` is the sum over the
slots passed, hence the average lies between head and tail), `LoopSoFar` (slots a
pass has dealt with are off the old head), `Room` (a writer past the first pass
finds a free slot).  The core is about `Release`: dropping one reader's references to a
range of items frees exactly the items that only it had to read; these are a prefix of the live window, so
the head moves by their number.  For the refinement, what is stored is
what is live and what is wanted (`Stored`, `Live`, `Wanted` coincide).  `NoLostWakeup` needs `Wake`: between an
item and its broadcast there is a writer that finds the sleeping reader counted.

**SessionLife.**  While no slot was taken twice, `SlotsInv` (what a slot holds),
`OwnersInv` (who runs on a session), and for each place a message can be in, in
order, `PeerQInv`, `LabelInv`, `LabeledQInv`, `XmlInv`: the message that ends a
session is in at most one of them, the slot holds the session it is about until the last,
and nothing about a later session of that slot is in front of it.  Behind the labeling thread
a session has no tables but those a command made since (`Bare`); without a change of the
label action its tables are those of its peer's label action (`HasRib`, `AsItsPeer`).

**RibTable.**  `RefsAgree` and `NodesUsedAreLive` with `InPlace` (what the labeling
thread has in hand between two steps) are inductive.  The refinement adds `Labels`
(what each label will say); the transfer adds `WInv`: a node is in the table
once (`Once`), a prefix that was not touched is on a node, before the walk or behind it
(`OnNode`, `Untouched`).  Labels are right up to paths that share a bucket: see section 5.

**PeerFsm.**  `SoundSession(s)` ties socket, capabilities and timers to each state.
`Hears` and `Speaks` bound, in each state, the time since the last message by timer,
stalls left and retries, so that the two time properties hold
when their bound is reached.  `Hears` says nothing while the keepalive timer is always due, which
from an interval of two seconds on it is not (`DueNotAlways`).

**PeerConfig.**  `ConfigIInv` adds to the types `GroupTables` (in every table, one just read
from a file too, names are unique, the default group is in slot 0 and every other group refers to slot 0) and `PeersOk` (a
peer that was not orphaned refers to the slot of the group it names; an orphan stays one when it is assigned the
name it has, and leaves by another name): a group is named by
its peers and found by its slot, and a freed slot is used again.  The lists are
recursive functions; their equations come from a lemma about functions that are defined
so far (`Recursion`), and what they make of a whole list from the least position at
which it would be false.  For `OpensByTheRules` the merged list keeps of each pattern the
first rule (`MergedIs`), and its scan refuses what one of those refuses
(`ScannedIs`).  `RestartKeepsPeers` walks along the places of the saved file (`Restored`):
groups move to other slots, the names their peers give find them again.  It assumes of
the file BGPmon is first started with that its groups refer to the default group, as those
that BGPmon writes do.  The proof found that `OpensByTheRules` had asked for required
rules only where some known capability matches the pattern; it now asks for all.

**Feed.**  `FeedIInv` says what a client is going to read: for the messages in the labeled
queue there are tables that the client will have before each (`Told`), from those it has after
all that was numbered (`Numbered`) to the labeling thread's own: equal to them for a peer that is
not `lost` (`Sees`), with each label made from the tables before its message (`LabeledFrom`,
`WillFollow`).  A peer's session is in one slot while it is open (`SessionsSound`), and a slot is
not freed, nor used again, while messages of its session are queued (`QueuedFor`), so that each
goes out under the peer it came from.  When a write skips what is queued, the peers whose
updates or closings go with it are lost and the others see no difference
(`NothingIsSkipped`).  The two readings of an update without SNPAs give the same changes
(`SectionsAgree`: `GenBgpUpdate` prints the sections in the order in which they were applied); a
new message changes nothing of what the client made of the numbers below it
(`FollowedOnlySees`).
`ClientFollows` needs numbers not to be used twice (`MaxMessages <= UINT_MAX + 1`).
`Framed` is a theorem for messages that fit `XML_BUFFER_LEN` (`Fits`; the code copies a longer
text into a buffer of that size) and a buffer whose length is no power of ten, as 10240000
is none.  The powers of ten are a table, since no backend of the prover knows `^`.

**Chain.**  `CacheInv`: an origin that no two threads were adding at once has one
entry, and a thread that is behind the list has only such an entry to lose.
`ConnInv`: one thread per structure, a descriptor belongs to one structure and side; it holds
while no structure was created twice (`doubled`) and none used after it was freed (`stray`).
The run has one origin; the theorem any number.  The proof found
two errors of the model, mended since: an insertion had not lost the entries behind it,
and two cases of `After` overlapped.

**Mrt.**  Per connection: the message it holds back is the last one parsed
(`HoldsLast`), what it wrote is a subsequence of what was followed (`Ordered`, `OnlyFollowed`,
`SubmitsFollowed`), and nothing is left at its end (`NoneLeft`); sessions marked by an end are those it collected (`Marked`).  The
proof showed that `NotLeftEstablished` needs no exception for slots filled twice; the property was
made stronger.

**StartStop.**  `FreedLast` (the queues are freed after the last join), `JoinedAreOver`
(a join that returned is of a thread that has ended or never ran; the join of a user's connection
may return otherwise), `MainIsDone`, and `ConnectionIsTold`: no connection is accepted once the
control thread has been joined, and those that are left have been told.

**Cli.**  The invariant adds to the types that no two lists on the chain have the
same name (`NamesDiffer`), in the file neither (`FileIsDocument`): the file refers to lists by
name, so a second list of that name could come back in place of the first.
A verdict is that of the first rule that applies, so `InsertedDecides` compares the first
such rule before and after an insertion.  That a saved list comes back
(`SavedRulesRead`) needs the i-th complete entry to exist (`EntryIs`): it is the least
position with i complete entries at or before it (`WFMin`, in place of an induction).
`RestartRepairs` follows from the default of every setting being one that can be read;
no run checks it, the theorem does.  `RestartKeeps` is an implication: lists in use that were freed
are followed when the file is written, and BGPmon ends.

### What stays with TLC

Liveness under fairness (`WaiterReads`, `WriteReturns`, `Reclaimed`, `DataAreRead`,
`ListensWhereTold`, `Answered`, `KilledEnds`, `Obeys`, `Stops`) is out of the
prover's reach, and that is all the runs check without a theorem.  The bounds of the models are guards of their actions:
the theorems hold for every value of a bound.  What is computed by recursion over a list is proved
where the recursion is a function; no module that has theorems declares a `RECURSIVE` operator.

## 5. What the code does that its text does not say

Met while modelling.  Most of it the models do as the code does, and the properties say
where they stop short: a lock left taken, a skip of more than the slowest reader, a slot taken
twice, tables made or freed too early or too late, RIB paths taken for one, labels shifted
by SNPAs, an update applied in part, a keepalive timer that is always due, an orphan that keeps its
`groupID`, a message buffer destroyed twice, descriptors closed twice, threads started twice,
settings that no start can read, an end that waits for ever.  Some of it is only written down here: a sleep of 2^32 seconds and
an interval of 0 (outside the bounds of the runs), a write through a stale session ID (`ReconnectPeer` is
modelled for a slot that is taken), what memory holds after its use was freed
(`Stray`, `up`, `crashed` end the model's interest there), and whatever concerns text.

* **Queue.**  A pass over a full ring skips more than the slowest readers
  (`queue.c:590`, `:957` speak of the slowest).  `createQueueWriter` at the writer
  limit returns with the lock held (`queue.c:430`).  A writer held up
  longer than the interval computes a negative sleep, taken as one of 2^32 s (`pacing.c:85`).
  `readQueue` returns -1 to a reader that is still subscribed (`queue.c:817`).  A
  pacing interval of 0, which the file may hold, makes `updateInterval` loop for ever.
  `EWMA` gives `alpha` to the last interval, `site_defaults.h.in:173` to the past.
  `destroyQueue` unlocks a mutex it has zeroed.
* **Sessions.**  Two threads of peers can take one empty slot (`peersession.c:187`, `:259`).
  `sendRibTable` uses tables that `deleteRibTable` frees after its check
  (`label.c:564`).  A session given up in Connect is never freed (`peersession.c:1789`).
  A failed route refresh resets the session and sends no message about it.
  `reconnectPeer` writes through a session ID that may be stale (`peers.c:2497`); a
  peer disabled and enabled again gets no thread.  `setSessionConfigInUse` stores the new
  label action before `setSessionLabelAction` compares with it (`peersession.c:3114`).
  With a hold time below 6 the keepalive timer, served first, is always due, and neither the hold
  timer nor data are served any more (`peersession.c:589`).  A command that gives a peer a label action
  while its session's last message is between the labeling and the XML thread makes tables that nobody
  deletes (`peersession.c:1871`).
* **RIB.**  The id that tells paths of one bucket apart never moves on
  (`rtable.c:569`), so two paths in one bucket are taken for one.  An
  error in an update drops the message after its first sections were applied
  (`rtable.c:1404`).  A node with more multiprotocol prefixes than fit one message is never
  sent (`rtable.c:1656`).  `sendRibTable` may leave a TABLE_START without its STOP.
* **XML.**  SNPA entries shift the labels (`rtable.c:859` against `xmldata.c:1041`); a full labeled
  queue drops updates whose labels, and closings whose sessions, the client and the XML thread then miss; a
  TABLE_START or TABLE_STOP for a session that has gone names no peer, or that of the slot's next session;
  an unknown type leaves a gap in the numbers; were the buffer's length a power of ten,
  lengths could come out one digit short;
  OPEN and KEEPALIVE of labeled sessions are dropped (`label.c:236`); state
  changes go to the RIB stream only; a transfer's route may be queued after a newer update.
* **Chains.**  Stale descriptors are closed again (`chaininstance.c:216`, `:292`); enabling a chain
  between the end of its loop and the reset of its flag is lost, and before the flag is set starts a
  second thread; deletion at that moment frees memory under the thread; concurrent creations take one slot; a port
  change needs the address to change too (`chains.c:537`); cache entries never expire (`periodic.c:619`);
  BGPmon's own messages, looped back, are passed on again.
* **Clients.**  `fdmax` overrides; the rebind flag is set before the value; the list is
  walked without its lock by getters, kill and print; a kill is seen only after a blocking read, and by
  update clients only.
* **MRT.**  Unknown types end a collector without `deleteMrtSession`, as the end of a table
  dump does; `findSession` and `createMrtSessionStruct` are unlocked; `deleteMrtSession` also puts BGPmon's own peers with
  the same local address in error; sessions and writers are never freed.  A first message that cannot be parsed destroys a `bmf` that was never
  set, and a second one in turn one that was freed: line 738 clears the wrong pointer
  (`mrtinstance.c:616`, `:736`).
* **Peers and groups.**  An AS number of 0 in group and default group moves the peer to the default
  group (`peers.c:1459`); deleting a group tells nobody, and assigning a
  peer to the name it has does not look the group up again, though it may be in another slot by now
  (`peers.c:1349`); commands on a group's label action, route
  refresh and enable flag use peer -1 (`peer_commands.c:426`); capability codes are saved as characters.
* **CLI.**  The enable flag is tested before the password prompt and set after it
  (`commands.c:83`), and any broken connection clears it: two users can be in enable mode.
  A connection that ends at that prompt ends BGPmon (`commands.c:89`).  The CLI stores ports
  and intervals that the reader refuses, and the next start then loses every section behind.
  For IPv6 rules the mask overwrites the address (`acl.c:182`); a rule added beyond the end goes before the last;
  removing a list in use leaves dangling pointers.
* **Shutdown.**  SIGTERM before the queues exist crashes; STOP is lost if the labeling thread
  sees its flag first, and the XML thread may then wait for ever (`label.c:337`, `xml.c:201`); `xml.c:195`
  clears a flag that was set before.  Before the queues are freed "all modules are shut down"
  (`signals.c:87`): the threads of clients, collectors and chains are told to end and not
  joined, and may use them.  The command `shutdown` makes its connection's thread join itself; the thread of another user that ends while it is
  joined frees the node whose successor is read next (`login.c:454`), and a user who types nothing holds up
  the shutdown.

## 6. Not modelled

Text and I/O: XML syntax, byte formats of BGP, XML and MRT messages, logging, address
conversion, daemonising, the recovery mode, the spacing of
transfers in time, the backup of the configuration file, the sample clients.  The table dump reader of
MRT is commented out in the source.  The notes in `PROJECT.json` name what each
component's model leaves out.

## 7. What is left

* The hazards of `PROJECT.json` without a property are steps the code takes: the models have
  the steps (`CreateWriterNoRoom`, `ReadReturn`, `TransferBucket`, `ReconnectPeer`), and there is no promise to state about them.
* Lemmas on sequences and least elements that several proof modules state for themselves
  could have one place.
* `Feed` takes a table as a set of prefixes and `RibTable` has the routes: a module that puts
  the two together would carry labels that tell an unchanged route from a new one to the client.
* `Queue` is proved to implement `PubSub`; the modules that take a queue as a sequence that
  overflows use `PubSub` by its words, without an `INSTANCE`.
