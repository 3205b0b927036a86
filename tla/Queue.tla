------------------------------- MODULE Queue -------------------------------
(***************************************************************************)
(* The message queue of Queues/queue.c and Queues/pacing.c: a bounded ring *)
(* of reference-counted items, several writer threads, and several reader  *)
(* threads each with a position of its own.  One instance of this module   *)
(* is one of the program's four queues: newPacingEnable is FALSE for the   *)
(* peer and label queues, TRUE for the two XML queues (main.c:417-424).    *)
(*                                                                         *)
(* A thread is named by the slot it holds in the queue: only the owner of  *)
(* a slot ever uses it.  queueLock is `lock'; what a thread does while it  *)
(* holds the lock is cut at the heads of the code's loops, with `cs' as    *)
(* the program counter inside the critical section and `slot', `sum',      *)
(* `seen' and `lag' as the holder's loop variables.  rpc and wpc are the   *)
(* program counters of the readers and writers outside of it.              *)
(*                                                                         *)
(* Time is relative: `elapsed' is time(NULL) - q->tick, and `lag' is       *)
(* now - q->tick for the `now' that updateInterval read on entry.          *)
(*                                                                         *)
(* Left out: the log* counters and itemsRead, which only the status report *)
(* shows, and the counters each kind of pacing keeps for the other         *)
(* (writeCount under the old, readCount and writeCounts under the new),    *)
(* which nothing reads.                                                    *)
(***************************************************************************)
EXTENDS Integers, FiniteSets

CONSTANTS
  QUEUE_MAX_ITEMS, MAX_QUEUE_READERS, MAX_QUEUE_WRITERS,
  newPacingEnable,      \* createQueue's argument
  pacingOnThresh, pacingOffThresh, alpha,    \* QueueConfig, in percent
  minWritesPerInterval, pacingInterval,      \* QueueConfig
  QUEUE_MIN_WRITES_LIMIT,
  MaxTail,              \* bound: no write starts once tail has reached it
  MaxElapsed,           \* bound: longest time without an updateInterval
  MaxPerInterval,       \* bound: readCount and writeCount saturate there
  SpareWriter           \* TRUE: a thread asks for a writer beyond the limit

ASSUME QueueAssumption ==
  /\ QUEUE_MAX_ITEMS \in Nat \ {0}
  /\ MAX_QUEUE_READERS \in Nat \ {0}
  /\ MAX_QUEUE_WRITERS \in Nat \ {0}
  /\ newPacingEnable \in BOOLEAN
  /\ pacingOnThresh \in 0..100 /\ pacingOffThresh \in 0..100
  /\ alpha \in 0..100
  /\ minWritesPerInterval \in Nat
  /\ pacingInterval \in Nat
  /\ QUEUE_MIN_WRITES_LIMIT \in Nat
  /\ MaxTail \in Nat /\ MaxElapsed \in Nat /\ MaxPerInterval \in Nat
  /\ SpareWriter \in BOOLEAN

Readers == 0..(MAX_QUEUE_READERS - 1)
Writers == 0..(MAX_QUEUE_WRITERS - 1)
Ring    == 0..(QUEUE_MAX_ITEMS - 1)

READER_SLOT_AVAILABLE == -1
NULL    == -1                 \* no buffer; a buffer is named by its position
Forever == -1                 \* the length of a sleep of about 2^32 seconds

Free      == <<"free", 0>>
Reader(r) == <<"reader", r>>
Writer(w) == <<"writer", w>>
Spare     == <<"spare", 0>>   \* the thread that finds no writer slot

VARIABLES
  head, tail, items, nextItem, readercount, writercount,
  idealReaderPosition, writesEWMA, writeCount,          \* new pacing
  pacingFlag, writesLimit, readCount, writeCounts,      \* old pacing
  elapsed,                                              \* time(NULL) - tick
  lock, cs, slot, sum, seen, lag,                       \* the critical section
  rpc, item, loadedTail,                                \* readers outside it
  wpc, sleepLeft                                        \* writers outside it

ring   == <<head, items, nextItem>>
newP   == <<idealReaderPosition, writesEWMA, writeCount>>
oldP   == <<pacingFlag, writesLimit, readCount, writeCounts>>
locals == <<slot, sum, seen, lag>>
rvars  == <<rpc, item, loadedTail>>
wvars  == <<wpc, sleepLeft>>
counts == <<readercount, writercount>>
vars   == <<ring, tail, counts, newP, oldP, elapsed, lock, cs, locals,
            rvars, wvars>>

Lesser(a, b)  == IF a < b THEN a ELSE b
Greater(a, b) == IF a > b THEN a ELSE b

----------------------------------------------------------------------------
(* The ring.                                                               *)

\* q->items[k % QUEUE_MAX_ITEMS]
At(k) == items[k % QUEUE_MAX_ITEMS]

\* Fault: the freed buffer stays in the ring ("prevent accidental reuse").
Released_KeepsBuffer(e) == [e EXCEPT !.count = @ - 1]

\* One reader gives up its reference to an item; the last one frees it.
Released(e) == IF e.count = 1 THEN [count |-> 0, messagBuf |-> NULL]
                              ELSE [e EXCEPT !.count = @ - 1]

\* The ring slots of the positions a .. b - 1.
SlotsOf(a, b) == {k % QUEUE_MAX_ITEMS : k \in a..(b - 1)}

\* The positions among nextItem[r] .. dest - 1 that only r has still to read.
OnlyUnreadBy(r, dest) == {k \in nextItem[r]..(dest - 1) : At(k).count = 1}

\* Reader r drops its reference to every item before position dest; the head
\* moves on by one for every item that this frees.
Release(r, dest) ==
  /\ items' = [i \in Ring |-> IF i \in SlotsOf(nextItem[r], dest)
                              THEN Released(items[i]) ELSE items[i]]
  /\ head'  = head + Cardinality(OnlyUnreadBy(r, dest))

Advance(r, dest) ==
  /\ Release(r, dest)
  /\ nextItem' = [nextItem EXCEPT ![r] = dest]

Used == tail - head
AtLeastPercent(n, p) == n * 100 >= p * QUEUE_MAX_ITEMS

----------------------------------------------------------------------------
(* Pacing.                                                                 *)

\* checkPacingStop, then the test of applyPacing once `used' items are queued
PacingStopped == IF ~AtLeastPercent(Used, pacingOffThresh) THEN FALSE ELSE pacingFlag
PacingApplied(used) == PacingStopped \/ AtLeastPercent(used, pacingOnThresh)

EWMA(old, new) == ((100 - alpha) * old + alpha * new) \div 100

\* calculateWritesLimit
NewWritesLimit ==
  IF readercount = 0 \/ writercount = 0 THEN writesLimit
  ELSE LET instant == (readCount \div readercount) \div writercount
           upbound == (QUEUE_MAX_ITEMS - Used) \div 2
       IN Greater(Lesser(EWMA(writesLimit, instant), upbound), minWritesPerInterval)

\* calculateEWMAwrites
NewEWMAwrites == IF writesEWMA = 0 THEN writeCount ELSE EWMA(writesEWMA, writeCount)

\* One turn of the loop of updateInterval: the interval that began at tick has
\* ended before the `now' the holder read.
IntervalEnded == lag >= pacingInterval

\* Fault: the loop does not move the tick on.
UpdateInterval_SameTick ==
  /\ cs = "update" /\ IntervalEnded
  /\ writesLimit' = NewWritesLimit /\ readCount' = 0
  /\ writeCounts' = [w \in Writers |-> 0]
  /\ UNCHANGED <<ring, tail, counts, newP, pacingFlag, elapsed, lock, cs, locals,
                 rvars, wvars>>

UpdateInterval ==
  /\ cs = "update" /\ IntervalEnded
  /\ lag' = lag - pacingInterval
  /\ elapsed' = elapsed - pacingInterval
  /\ IF newPacingEnable
     THEN /\ idealReaderPosition' = Lesser(idealReaderPosition + writesEWMA, tail)
          /\ writesEWMA' = NewEWMAwrites
          /\ writeCount' = 0
          /\ UNCHANGED oldP
     ELSE /\ writesLimit' = NewWritesLimit
          /\ readCount' = 0
          /\ writeCounts' = [w \in Writers |-> 0]
          /\ UNCHANGED <<newP, pacingFlag>>
  /\ UNCHANGED <<ring, tail, counts, lock, cs, slot, sum, seen, rvars, wvars>>

----------------------------------------------------------------------------
(* The lock.                                                               *)

Enter(thread, at) == lock = Free /\ lock' = thread /\ cs' = at

\* The holder unlocks; its loop variables are dead.
Leave == /\ lock' = Free /\ cs' = "out"
         /\ slot' = 0 /\ sum' = 0 /\ seen' = 0 /\ lag' = 0

----------------------------------------------------------------------------
(* Readers.                                                                *)

FirstAvailable(r) ==
  /\ nextItem[r] = READER_SLOT_AVAILABLE
  /\ \A q \in Readers : q < r => nextItem[q] # READER_SLOT_AVAILABLE

\* createQueueReader takes the first free slot (with none left it returns NULL
\* and changes nothing), ...
CreateReader(r) ==
  /\ readercount < MAX_QUEUE_READERS
  /\ FirstAvailable(r)
  /\ Enter(Reader(r), "join")
  /\ UNCHANGED <<ring, tail, counts, newP, oldP, elapsed, locals, rvars, wvars>>

\* Fault: free slots are added up too.
JoinSum_FreeSlotsToo ==
  /\ cs = "join" /\ seen < readercount
  /\ sum' = sum + nextItem[slot] /\ seen' = seen + 1 /\ slot' = slot + 1
  /\ UNCHANGED <<ring, tail, counts, newP, oldP, elapsed, lock, cs, lag, rvars, wvars>>

\* ... adds up the positions of the active readers, ...
JoinSum ==
  /\ cs = "join" /\ seen < readercount
  /\ IF nextItem[slot] >= 0
     THEN sum' = sum + nextItem[slot] /\ seen' = seen + 1
     ELSE UNCHANGED <<sum, seen>>
  /\ slot' = slot + 1
  /\ UNCHANGED <<ring, tail, counts, newP, oldP, elapsed, lock, cs, lag, rvars, wvars>>

\* ... and starts at their average, or at the tail when there are none.
JoinPosition == IF readercount = 0 THEN tail ELSE sum \div readercount

\* Fault: the new reader is not counted in the items it will read.
JoinDone_Uncounted(r) ==
  /\ cs = "join" /\ lock = Reader(r) /\ seen = readercount
  /\ nextItem' = [nextItem EXCEPT ![r] = JoinPosition]
  /\ readercount' = readercount + 1
  /\ rpc' = [rpc EXCEPT ![r] = "idle"]
  /\ Leave
  /\ UNCHANGED <<head, items, tail, writercount, newP, oldP, elapsed, item, loadedTail, wvars>>

JoinDone(r) ==
  /\ cs = "join" /\ lock = Reader(r) /\ seen = readercount
  /\ nextItem' = [nextItem EXCEPT ![r] = JoinPosition]
  /\ items' = [i \in Ring |-> IF i \in SlotsOf(JoinPosition, tail)
                              THEN [items[i] EXCEPT !.count = @ + 1] ELSE items[i]]
  /\ readercount' = readercount + 1
  /\ rpc' = [rpc EXCEPT ![r] = "idle"]
  /\ Leave
  /\ UNCHANGED <<head, tail, writercount, newP, oldP, elapsed, item, loadedTail, wvars>>

\* readQueue up to its wait: nothing to read, so unlock and wait in one step.
ReadWait(r) ==
  /\ rpc[r] \in {"idle", "woken"} /\ lock = Free
  /\ nextItem[r] >= tail
  /\ rpc' = [rpc EXCEPT ![r] = "waiting"]
  /\ UNCHANGED <<ring, tail, counts, newP, oldP, elapsed, lock, cs, locals,
                 item, loadedTail, wvars>>

\* readQueue takes the next item: the original for its last reader, else a copy.
ReadItem(r) ==
  /\ rpc[r] \in {"idle", "woken"} /\ nextItem[r] < tail
  /\ Enter(Reader(r), "update")
  /\ item' = [item EXCEPT ![r] = At(nextItem[r]).messagBuf]
  /\ Advance(r, nextItem[r] + 1)
  /\ rpc' = [rpc EXCEPT ![r] = "reading"]
  /\ lag' = elapsed
  /\ UNCHANGED <<tail, counts, newP, oldP, elapsed, slot, sum, seen, loadedTail, wvars>>

\* readQueue after updateInterval, up to the unlock.
ReadUnlock(r) ==
  /\ cs = "update" /\ lock = Reader(r) /\ ~IntervalEnded
  /\ IF newPacingEnable
     THEN UNCHANGED oldP
     ELSE /\ readCount' = Lesser(readCount + 1, MaxPerInterval)
          /\ pacingFlag' = PacingStopped
          /\ UNCHANGED <<writesLimit, writeCounts>>
  /\ rpc' = [rpc EXCEPT ![r] = "loadTail"]
  /\ Leave
  /\ UNCHANGED <<ring, tail, counts, newP, elapsed, item, loadedTail, wvars>>

\* return (q->tail - q->nextItem[s]) reads both without the lock.  The caller
\* takes the value READER_SLOT_AVAILABLE for the end of its subscription.
ReadLoadTail(r) ==
  /\ rpc[r] = "loadTail"
  /\ loadedTail' = [loadedTail EXCEPT ![r] = tail]
  /\ rpc' = [rpc EXCEPT ![r] = "loadNext"]
  /\ UNCHANGED <<ring, tail, counts, newP, oldP, elapsed, lock, cs, locals, item, wvars>>

ReadReturn(r) ==
  /\ rpc[r] = "loadNext"
  /\ rpc' = [rpc EXCEPT ![r] = IF loadedTail[r] - nextItem[r] = READER_SLOT_AVAILABLE
                               THEN "ceased" ELSE "idle"]
  /\ item' = [item EXCEPT ![r] = NULL]
  /\ loadedTail' = [loadedTail EXCEPT ![r] = 0]
  /\ UNCHANGED <<ring, tail, counts, newP, oldP, elapsed, lock, cs, locals, wvars>>

\* destroyQueueReader, called by the reader's own thread.
DestroyReader(r) ==
  /\ rpc[r] \in {"idle", "ceased"} /\ lock = Free
  /\ Release(r, tail)
  /\ nextItem' = [nextItem EXCEPT ![r] = READER_SLOT_AVAILABLE]
  /\ readercount' = readercount - 1
  /\ rpc' = [rpc EXCEPT ![r] = "free"]
  /\ UNCHANGED <<tail, writercount, newP, oldP, elapsed, lock, cs, locals,
                 item, loadedTail, wvars>>

\* POSIX allows pthread_cond_wait to return without a broadcast.
SpuriousWakeup(r) ==
  /\ rpc[r] = "waiting"
  /\ rpc' = [rpc EXCEPT ![r] = "woken"]
  /\ UNCHANGED <<ring, tail, counts, newP, oldP, elapsed, lock, cs, locals,
                 item, loadedTail, wvars>>

----------------------------------------------------------------------------
(* Writers.                                                                *)

\* createQueueWriter: the first unused slot, ...
CreateWriter(w) ==
  /\ lock = Free
  /\ writercount < MAX_QUEUE_WRITERS
  /\ wpc[w] = "free" /\ \A v \in Writers : v < w => wpc[v] # "free"
  /\ wpc' = [wpc EXCEPT ![w] = "idle"]
  /\ writeCounts' = [writeCounts EXCEPT ![w] = 0]
  /\ writercount' = writercount + 1
  /\ UNCHANGED <<ring, tail, readercount, newP, pacingFlag, writesLimit, readCount,
                 elapsed, lock, cs, locals, rvars, sleepLeft>>

\* ... and with no slot left it returns NULL, still holding queueLock.
CreateWriterNoRoom ==
  /\ SpareWriter
  /\ writercount >= MAX_QUEUE_WRITERS
  /\ Enter(Spare, "out")
  /\ UNCHANGED <<ring, tail, counts, newP, oldP, elapsed, locals, rvars, wvars>>

\* destroyQueueWriter
DestroyWriter(w) ==
  /\ wpc[w] = "idle" /\ lock = Free
  /\ wpc' = [wpc EXCEPT ![w] = "free"]
  /\ writeCounts' = [writeCounts EXCEPT ![w] = 0]
  /\ writercount' = writercount - 1
  /\ UNCHANGED <<ring, tail, readercount, newP, pacingFlag, writesLimit, readCount,
                 elapsed, lock, cs, locals, rvars, sleepLeft>>

\* writeQueue up to its first loop, which it runs only on a full queue.
Full == Used >= QUEUE_MAX_ITEMS

WriteLock(w) ==
  /\ wpc[w] = "idle" /\ tail < MaxTail
  /\ Enter(Writer(w), IF Full THEN "full" ELSE "update")
  /\ lag' = IF Full THEN 0 ELSE elapsed
  /\ wpc' = [wpc EXCEPT ![w] = "writing"]
  /\ UNCHANGED <<ring, tail, counts, newP, oldP, elapsed, slot, sum, seen, rvars, sleepLeft>>

\* The target of adjustSlowestQueueReader.
destPos == IF newPacingEnable THEN idealReaderPosition ELSE tail

\* Fault: a reader ahead of the ideal reader is moved back.
AdjustSlowestQueueReader_Back(r) == Advance(r, destPos)

\* adjustSlowestQueueReader
AdjustSlowestQueueReader(r) ==
  IF destPos <= nextItem[r] THEN UNCHANGED ring ELSE Advance(r, destPos)

\* Fault: the new pacing, too, moves slowest readers to the ideal reader only.
AdjustFull_ToIdeal ==
  /\ cs = "full" /\ slot \in Readers
  /\ IF nextItem[slot] # head THEN UNCHANGED ring ELSE AdjustSlowestQueueReader(slot)
  /\ slot' = slot + 1
  /\ UNCHANGED <<tail, counts, newP, oldP, elapsed, lock, cs, sum, seen, lag, rvars, wvars>>

\* One turn of the loop over a full queue's readers.
AdjustFull ==
  /\ cs = "full" /\ slot \in Readers
  /\ IF nextItem[slot] # head THEN UNCHANGED ring
     ELSE IF newPacingEnable THEN Advance(slot, nextItem[slot] + 1)
          ELSE AdjustSlowestQueueReader(slot)
  /\ slot' = slot + 1
  /\ UNCHANGED <<tail, counts, newP, oldP, elapsed, lock, cs, sum, seen, lag, rvars, wvars>>

\* The loop is over; log_fatal ends the program if the queue is still full.
AdjustFullDone ==
  /\ cs = "full" /\ slot \notin Readers
  /\ cs' = IF Full THEN "fatal" ELSE "update"
  /\ slot' = 0
  /\ lag' = elapsed
  /\ UNCHANGED <<ring, tail, counts, newP, oldP, elapsed, lock, sum, seen, rvars, wvars>>

\* New pacing, after updateInterval: the second loop over the readers.
OverThreshold == newPacingEnable /\ AtLeastPercent(Used, pacingOnThresh)

ThresholdStart ==
  /\ cs = "update" /\ \E w \in Writers : lock = Writer(w)
  /\ ~IntervalEnded /\ OverThreshold
  /\ cs' = "threshold"
  /\ UNCHANGED <<ring, tail, counts, newP, oldP, elapsed, lock, locals, rvars, wvars>>

AdjustThreshold ==
  /\ cs = "threshold" /\ slot \in Readers
  /\ IF nextItem[slot] # head THEN UNCHANGED ring
                              ELSE AdjustSlowestQueueReader(slot)
  /\ slot' = slot + 1
  /\ UNCHANGED <<tail, counts, newP, oldP, elapsed, lock, cs, sum, seen, lag, rvars, wvars>>

\* The item goes into the ring, or is freed when there is nobody to read it.
Put == IF readercount > 0
       THEN /\ items' = [items EXCEPT ![tail % QUEUE_MAX_ITEMS] =
                           [count |-> readercount, messagBuf |-> tail]]
            /\ tail' = tail + 1
       ELSE UNCHANGED <<items, tail>>

\* Fault: only a writer that is not paced forgets the broadcast.
PacedWrite_NoBroadcast(w) ==
  /\ writeCounts' = IF readercount > 0
                    THEN [writeCounts EXCEPT ![w] = @ + 1] ELSE writeCounts
  /\ pacingFlag' = PacingApplied(tail' - head)
  /\ wpc' = [wpc EXCEPT ![w] = IF pacingFlag' /\ writeCounts'[w] >= writesLimit
                               THEN "pacing" ELSE "idle"]
  /\ UNCHANGED <<newP, writesLimit, readCount>>

\* Old pacing: checkPacingStop before the write, applyPacing after it.
PacedWrite(w) ==
  /\ writeCounts' = IF readercount > 0
                    THEN [writeCounts EXCEPT ![w] = @ + 1] ELSE writeCounts
  /\ pacingFlag' = PacingApplied(tail' - head)
  /\ wpc' = [wpc EXCEPT ![w] = IF pacingFlag' /\ writeCounts'[w] >= writesLimit
                               THEN "pacing" ELSE "notify"]
  /\ UNCHANGED <<newP, writesLimit, readCount>>

WriteItem(w) ==
  /\ lock = Writer(w)
  /\ \/ cs = "update" /\ ~IntervalEnded /\ ~OverThreshold
     \/ cs = "threshold" /\ slot \notin Readers
  /\ Put
  /\ IF newPacingEnable
     THEN /\ writeCount' = Lesser(writeCount + 1, MaxPerInterval)
          /\ wpc' = [wpc EXCEPT ![w] = "notify"]
          /\ UNCHANGED <<idealReaderPosition, writesEWMA, oldP>>
     ELSE PacedWrite(w)
  /\ Leave
  /\ UNCHANGED <<head, nextItem, counts, elapsed, rvars, sleepLeft>>

\* applyPacing, unlocked: the sleep until tick + pacingInterval.  sleep takes
\* an unsigned number of seconds: a negative one is close to 2^32.
PaceSleep(w) ==
  /\ wpc[w] = "pacing"
  /\ sleepLeft' = [sleepLeft EXCEPT ![w] =
                     IF elapsed <= pacingInterval THEN pacingInterval - elapsed ELSE Forever]
  /\ wpc' = [wpc EXCEPT ![w] = "sleeping"]
  /\ UNCHANGED <<ring, tail, counts, newP, oldP, elapsed, lock, cs, locals, rvars>>

\* applyPacing locks again, writeQueue unlocks.
PaceWake(w) ==
  /\ wpc[w] = "sleeping" /\ sleepLeft[w] = 0 /\ lock = Free
  /\ wpc' = [wpc EXCEPT ![w] = "notify"]
  /\ UNCHANGED <<ring, tail, counts, newP, oldP, elapsed, lock, cs, locals, rvars, sleepLeft>>

\* Fault: a lone reader is not notified.
Notify_NotAlone(w) ==
  /\ wpc[w] = "notify"
  /\ rpc' = IF readercount > 1
            THEN [r \in Readers |-> IF rpc[r] = "waiting" THEN "woken" ELSE rpc[r]]
            ELSE rpc
  /\ wpc' = [wpc EXCEPT ![w] = "idle"]
  /\ UNCHANGED <<ring, tail, counts, newP, oldP, elapsed, lock, cs, locals,
                 item, loadedTail, sleepLeft>>

\* The broadcast, after the unlock and behind an unlocked look at readercount.
Notify(w) ==
  /\ wpc[w] = "notify"
  /\ rpc' = IF readercount > 0
            THEN [r \in Readers |-> IF rpc[r] = "waiting" THEN "woken" ELSE rpc[r]]
            ELSE rpc
  /\ wpc' = [wpc EXCEPT ![w] = "idle"]
  /\ UNCHANGED <<ring, tail, counts, newP, oldP, elapsed, lock, cs, locals,
                 item, loadedTail, sleepLeft>>

\* A second goes by.
Tick ==
  /\ elapsed < MaxElapsed
  /\ elapsed' = elapsed + 1
  /\ sleepLeft' = [w \in Writers |-> IF sleepLeft[w] > 0 THEN sleepLeft[w] - 1
                                                        ELSE sleepLeft[w]]
  /\ UNCHANGED <<ring, tail, counts, newP, oldP, lock, cs, locals, rvars, wpc>>

----------------------------------------------------------------------------
\* createQueue
Init ==
  /\ head = 0 /\ tail = 0
  /\ items = [i \in Ring |-> [count |-> 0, messagBuf |-> NULL]]
  /\ nextItem = [r \in Readers |-> READER_SLOT_AVAILABLE]
  /\ readercount = 0 /\ writercount = 0
  /\ idealReaderPosition = 0 /\ writesEWMA = 0 /\ writeCount = 0
  /\ pacingFlag = FALSE /\ writesLimit = QUEUE_MIN_WRITES_LIMIT
  /\ readCount = 0 /\ writeCounts = [w \in Writers |-> 0]
  /\ elapsed = 0
  /\ lock = Free /\ cs = "out"
  /\ slot = 0 /\ sum = 0 /\ seen = 0 /\ lag = 0
  /\ rpc = [r \in Readers |-> "free"]
  /\ item = [r \in Readers |-> NULL]
  /\ loadedTail = [r \in Readers |-> 0]
  /\ wpc = [w \in Writers |-> "free"]
  /\ sleepLeft = [w \in Writers |-> 0]

ReaderStep(r) ==
  \/ CreateReader(r) \/ JoinDone(r) \/ DestroyReader(r)
  \/ ReadWait(r) \/ ReadItem(r) \/ ReadUnlock(r) \/ ReadLoadTail(r) \/ ReadReturn(r)
  \/ SpuriousWakeup(r)

WriterStep(w) ==
  \/ CreateWriter(w) \/ DestroyWriter(w) \/ WriteLock(w) \/ WriteItem(w)
  \/ PaceSleep(w) \/ PaceWake(w) \/ Notify(w)

\* The loops of whoever holds the lock.
HolderStep ==
  \/ UpdateInterval \/ JoinSum \/ AdjustFull \/ AdjustFullDone
  \/ ThresholdStart \/ AdjustThreshold

Next ==
  \/ \E r \in Readers : ReaderStep(r)
  \/ \E w \in Writers : WriterStep(w)
  \/ HolderStep
  \/ CreateWriterNoRoom
  \/ Tick

Spec == Init /\ [][Next]_vars

\* What the scheduler and the mutex give: a thread that may run does run, and
\* one that keeps finding the lock free gets it (the strong fairness).  Nobody
\* is obliged to create, to destroy, to write or to start a read.
Fairness ==
  /\ WF_vars(HolderStep) /\ WF_vars(Tick)
  /\ \A r \in Readers :
       /\ WF_vars(JoinDone(r)) /\ WF_vars(ReadUnlock(r))
       /\ WF_vars(ReadLoadTail(r)) /\ WF_vars(ReadReturn(r))
       /\ SF_vars(rpc[r] = "woken" /\ ReadItem(r))
  /\ \A w \in Writers :
       /\ WF_vars(WriteItem(w)) /\ WF_vars(PaceSleep(w)) /\ WF_vars(Notify(w))
       /\ SF_vars(PaceWake(w))

FairSpec == Spec /\ Fairness

----------------------------------------------------------------------------
(* Properties.                                                             *)

Active == {r \in Readers : nextItem[r] # READER_SLOT_AVAILABLE}
Live   == head..(tail - 1)
Unread(k) == {r \in Active : nextItem[r] <= k}     \* who has still to read item k

\* Every variable stays in its type: the loops never leave the arrays, the
\* head never passes the tail, and the counters never go below zero.
TypeOK ==
  /\ head \in Nat /\ tail \in Nat /\ head <= tail /\ tail <= head + QUEUE_MAX_ITEMS
  /\ items \in [Ring -> [count : 0..MAX_QUEUE_READERS, messagBuf : Nat \cup {NULL}]]
  /\ nextItem \in [Readers -> Nat \cup {READER_SLOT_AVAILABLE}]
  /\ readercount \in 0..MAX_QUEUE_READERS /\ writercount \in 0..MAX_QUEUE_WRITERS
  /\ idealReaderPosition \in Nat /\ writesEWMA \in Nat /\ writeCount \in Nat
  /\ pacingFlag \in BOOLEAN /\ writesLimit \in Nat /\ readCount \in Nat
  /\ writeCounts \in [Writers -> Nat]
  /\ elapsed \in Nat
  /\ lock \in {Free, Spare} \cup {Reader(r) : r \in Readers} \cup {Writer(w) : w \in Writers}
  /\ cs \in {"out", "join", "full", "update", "threshold", "fatal"}
  /\ slot \in 0..MAX_QUEUE_READERS /\ sum \in Nat /\ seen \in 0..MAX_QUEUE_READERS
  /\ lag \in Nat
  /\ rpc \in [Readers -> {"free", "idle", "waiting", "woken", "reading",
                          "loadTail", "loadNext", "ceased"}]
  /\ item \in [Readers -> Nat \cup {NULL}] /\ loadedTail \in [Readers -> Nat]
  /\ wpc \in [Writers -> {"free", "idle", "writing", "pacing", "sleeping", "notify"}]
  /\ sleepLeft \in [Writers -> Nat \cup {Forever}]

\* The reference count of a live item is the number of readers that have still
\* to read it, through joins, reads, skips and departures: were it lower the
\* item would be freed under a reader, were it higher it would never be.
RefCounts ==
  \A k \in Live : At(k).count = Cardinality(Unread(k)) /\ At(k).count > 0

\* No live item is overwritten or freed, and no slot outside the live window
\* keeps a buffer (or a reference), however often the ring wraps round.
BuffersIntact ==
  /\ \A k \in Live : At(k).messagBuf = k
  /\ \A i \in Ring \ SlotsOf(head, tail) : items[i] = [count |-> 0, messagBuf |-> NULL]

\* Every reader's position is inside the live window, and readercount, which
\* each new item takes for its reference count, is the number of readers.
ReadersInWindow ==
  /\ \A r \in Active : nextItem[r] \in head..tail
  /\ readercount = Cardinality(Active)
  /\ idealReaderPosition <= tail

\* writeQueue's log_fatal "queue is still FULL after adjusting readers".
NeverStillFull == cs # "fatal"

\* A reader asleep on the condition variable with an item to read has a
\* broadcast coming, although writers broadcast after they unlock, after the
\* pacing sleep, and only if an unlocked readercount is positive.
NoLostWakeup ==
  \A r \in Readers : rpc[r] = "waiting" /\ nextItem[r] < tail =>
    /\ \E w \in Writers : wpc[w] \in {"pacing", "sleeping", "notify"}
    /\ readercount > 0

\* Every write ends: no loop under the lock runs for ever, no pacing sleep
\* is without end.
WriteReturns == \A w \in Writers : wpc[w] = "writing" ~> wpc[w] = "idle"

\* A waiting reader that has an item to read gets up and reads it, unless a
\* writer skips the item for it.
WaiterReads == \A r \in Readers :
  rpc[r] = "waiting" /\ nextItem[r] < tail ~> rpc[r] = "reading" \/ nextItem[r] >= tail

=============================================================================
