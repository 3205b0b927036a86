---------------------------- MODULE QueueProofs ----------------------------
(***************************************************************************)
(* Proofs about the queue, for any number of readers, writers and slots    *)
(* and both kinds of pacing.                                               *)
(*                                                                         *)
(* The inductive invariant IInv adds to the properties of Queue the facts  *)
(* about the critical section they depend on: who can be where in it       *)
(* (Control), what a joining reader has added up so far (JoinSoFar), that  *)
(* the loop over a full queue has left no slowest reader behind it while   *)
(* the queue is still full (LoopSoFar), and that a writer past that loop   *)
(* has room (Room).  From it follows the refinement of PubSub, step by     *)
(* step, and with Wake that no reader sleeps through a broadcast.          *)
(***************************************************************************)
EXTENDS MCQueue, FiniteSetTheorems, TLAPS

RingInv == RefCounts /\ BuffersIntact /\ ReadersInWindow

WriterHolds == \E w \in Writers : lock = Writer(w)

Control ==
  /\ \A r \in Readers : rpc[r] = "free" <=> nextItem[r] = READER_SLOT_AVAILABLE
  /\ cs = "out" => lock \in {Free, Spare} /\ slot = 0 /\ sum = 0 /\ seen = 0
  /\ lock = Free => cs = "out"
  /\ cs = "join" => \E r \in Readers : lock = Reader(r) /\ nextItem[r] = READER_SLOT_AVAILABLE
  /\ cs \in {"full", "threshold"} => WriterHolds
  /\ \A r \in Readers : lock = Reader(r) => (cs = "update" /\ rpc[r] = "reading") \/ cs = "join"
  /\ \A w \in Writers : lock = Writer(w) => wpc[w] = "writing"
  /\ cs = "update" => slot = 0 /\ sum = 0 /\ seen = 0
  /\ cs \in {"full", "threshold"} => sum = 0 /\ seen = 0
  /\ lag <= elapsed
  /\ writercount = Cardinality({w \in Writers : wpc[w] # "free"})

JoinSoFar == cs = "join" =>
  /\ seen = Cardinality({q \in Active : q < slot})
  /\ head * seen <= sum /\ sum <= tail * seen

\* The new pacing's loop over a full queue frees one item at most: the reader
\* it has moved off that item is at the new head, and holds the head there.
LoopSoFar == cs = "full" =>
  /\ Full => \A q \in Readers : q < slot => nextItem[q] # head
  /\ newPacingEnable /\ ~Full =>
       /\ tail - head = QUEUE_MAX_ITEMS - 1
       /\ \E q \in Active : q < slot /\ nextItem[q] = head

Room == cs \in {"update", "threshold"} /\ WriterHolds => ~Full

IInv == TypeOK /\ RingInv /\ Control /\ JoinSoFar /\ LoopSoFar /\ Room /\ NeverStillFull

----------------------------------------------------------------------------
(* Arithmetic.                                                             *)

\* Division with remainder by a positive N.
LEMMA DivMod ==
  ASSUME NEW N \in Nat \ {0}, NEW a \in Nat
  PROVE  a % N \in 0..(N - 1) /\ a = N * (a \div N) + (a % N) /\ a \div N \in Nat
OBVIOUS

\* Successive multiples of N are N apart.
LEMMA NextMultiple ==
  ASSUME NEW N \in Nat \ {0}, NEW p \in Nat, NEW q \in Nat, p < q
  PROVE  N * p + N <= N * q
<1>1. PICK d \in Nat : q = p + 1 + d
  BY q = p + 1 + (q - p - 1)
<1>2. N * q = N * p + N + N * d
  BY <1>1
<1>3. N * d >= 0
  OBVIOUS
<1> QED BY <1>2, <1>3

\* Positions less than N apart share no slot of a ring of N.
LEMMA ModInjective ==
  ASSUME NEW N \in Nat \ {0}, NEW a \in Nat, NEW b \in Nat,
         a % N = b % N, a - b < N, b - a < N
  PROVE  a = b
<1>1. a = N * (a \div N) + (a % N) /\ a \div N \in Nat /\ a % N \in 0..(N - 1)
  BY DivMod, Zenon
<1>2. b = N * (b \div N) + (b % N) /\ b \div N \in Nat
  BY DivMod, Zenon
<1> DEFINE p == a \div N
           q == b \div N
           r == a % N
<1>3. a = N * p + r /\ b = N * q + r /\ p \in Nat /\ q \in Nat /\ r \in Nat
  BY <1>1, <1>2
<1> HIDE DEF p, q, r
<1>4. CASE p < q
  BY <1>3, <1>4, NextMultiple
<1>5. CASE q < p
  BY <1>3, <1>5, NextMultiple
<1>6. CASE p = q
  BY <1>3, <1>6
<1> QED BY <1>3, <1>4, <1>5, <1>6

\* The average of n numbers between l and h is between l and h.
LEMMA AverageBetween ==
  ASSUME NEW n \in Nat \ {0}, NEW l \in Nat, NEW h \in Nat, NEW s \in Nat,
         l * n <= s, s <= h * n
  PROVE  s \div n \in l..h
<1> DEFINE d == s \div n
           m == s % n
<1>1. s = n * d + m /\ d \in Nat /\ m \in 0..(n - 1)
  BY DivMod
<1> HIDE DEF d, m
<1>2. ~(d < l)
  <2> SUFFICES ASSUME d < l PROVE FALSE
    OBVIOUS
  <2>1. n * d + n <= n * l
    BY <1>1, NextMultiple
  <2>2. n * l = l * n
    OBVIOUS
  <2> QED BY <1>1, <2>1, <2>2
<1>3. ~(h < d)
  <2> SUFFICES ASSUME h < d PROVE FALSE
    OBVIOUS
  <2>1. n * h + n <= n * d
    BY <1>1, NextMultiple
  <2>2. n * h = h * n
    OBVIOUS
  <2> QED BY <1>1, <2>1, <2>2
<1>4. d \in l..h
  BY <1>1, <1>2, <1>3
<1> QED BY <1>4 DEF d

\* A moving average of naturals is a natural.
LEMMA EWMAType ==
  ASSUME QueueAssumption, NEW a \in Nat, NEW b \in Nat
  PROVE  EWMA(a, b) \in Nat
<1> USE QueueAssumption DEF QueueAssumption
<1>1. (100 - alpha) * a \in Nat /\ alpha * b \in Nat
  <2>1. 100 - alpha \in Nat /\ alpha \in Nat
    OBVIOUS
  <2>2. ASSUME NEW x \in Nat, NEW y \in Nat PROVE x * y \in Nat
    OBVIOUS
  <2> QED BY <2>1, <2>2
<1> DEFINE t == (100 - alpha) * a + alpha * b
<1>2. t \in Nat
  BY <1>1
<1> HIDE DEF t
<1>3. t \div 100 \in Nat
  BY <1>2
<1> QED BY <1>3 DEF EWMA, t

----------------------------------------------------------------------------
(* The ring.                                                               *)

\* n consecutive numbers are n numbers.
LEMMA IntervalOf ==
  ASSUME NEW a \in Nat, NEW n \in Nat
  PROVE  IsFiniteSet(a..(a + n - 1)) /\ Cardinality(a..(a + n - 1)) = n
<1> DEFINE b == a + n - 1
<1>1. b \in Int /\ (a > b <=> n = 0) /\ n = b - a + 1
  OBVIOUS
<1> HIDE DEF b
<1>2. IsFiniteSet(a..b) /\ Cardinality(a..b) = IF a > b THEN 0 ELSE b - a + 1
  BY <1>1, FS_Interval
<1>3. IsFiniteSet(a..b) /\ Cardinality(a..b) = n
  BY <1>1, <1>2
<1> QED BY <1>3 DEF b

\* The slot arrays have the sizes of their constants.
LEMMA ConstantSets ==
  ASSUME QueueAssumption
  PROVE  /\ IsFiniteSet(Readers) /\ Cardinality(Readers) = MAX_QUEUE_READERS
         /\ IsFiniteSet(Writers) /\ Cardinality(Writers) = MAX_QUEUE_WRITERS
<1>1. \A n \in Nat : 0 + n - 1 = n - 1
  OBVIOUS
<1> QED BY <1>1, IntervalOf DEF QueueAssumption, Readers, Writers

\* A set of readers is finite and no larger than the array.
LEMMA ReaderSets ==
  ASSUME QueueAssumption, NEW S \in SUBSET Readers
  PROVE  IsFiniteSet(S) /\ Cardinality(S) \in 0..MAX_QUEUE_READERS
<1>1. IsFiniteSet(S) /\ Cardinality(S) <= MAX_QUEUE_READERS
  BY ConstantSets, FS_Subset
<1>2. Cardinality(S) \in Nat
  BY <1>1, FS_CardinalityType
<1> QED BY <1>1, <1>2 DEF QueueAssumption

\* A set of writers is finite and no larger than the array.
LEMMA WriterSets ==
  ASSUME QueueAssumption, NEW S \in SUBSET Writers
  PROVE  IsFiniteSet(S) /\ Cardinality(S) \in 0..MAX_QUEUE_WRITERS
<1>1. IsFiniteSet(S) /\ Cardinality(S) <= MAX_QUEUE_WRITERS
  BY ConstantSets, FS_Subset
<1>2. Cardinality(S) \in Nat
  BY <1>1, FS_CardinalityType
<1> QED BY <1>1, <1>2 DEF QueueAssumption

\* Every position has a slot: q->items[k % QUEUE_MAX_ITEMS] is in the array.
LEMMA SlotInRing ==
  ASSUME QueueAssumption, NEW k \in Nat
  PROVE  k % QUEUE_MAX_ITEMS \in Ring
<1>1. k % QUEUE_MAX_ITEMS \in 0..(QUEUE_MAX_ITEMS - 1)
  BY DivMod, Zenon DEF QueueAssumption
<1> QED BY <1>1 DEF Ring

\* Within the live window a slot is that of one position only.
LEMMA WindowSlots ==
  ASSUME QueueAssumption, TypeOK,
         NEW a \in head..tail, NEW b \in head..tail, NEW k \in Live
  PROVE  k % QUEUE_MAX_ITEMS \in SlotsOf(a, b) <=> k \in a..(b - 1)
<1>1. head \in Nat /\ tail \in Nat /\ tail <= head + QUEUE_MAX_ITEMS
  BY DEF TypeOK
<1>2. ASSUME NEW j \in a..(b - 1), k % QUEUE_MAX_ITEMS = j % QUEUE_MAX_ITEMS
      PROVE  k = j
  <2>1. k \in Nat /\ j \in Nat /\ k - j < QUEUE_MAX_ITEMS /\ j - k < QUEUE_MAX_ITEMS
    BY <1>1 DEF Live
  <2>2. QUEUE_MAX_ITEMS \in Nat \ {0}
    BY DEF QueueAssumption
  <2> QED BY <1>2, <2>1, <2>2, ModInjective
<1> QED BY <1>2 DEF SlotsOf

\* Releasing the items of reader r before position dest, whether it stays at
\* dest or leaves: what becomes of each live item, and where the head goes.
Freed(r, dest) == {k \in nextItem[r]..(dest - 1) : Unread(k) = {r}}

\* A freed item was unread by the moving reader only.
LEMMA FreedItem ==
  ASSUME NEW r, NEW dest, NEW k \in Freed(r, dest)
  PROVE  k \in nextItem[r]..(dest - 1) /\ Unread(k) = {r}
BY DEF Freed

\* A reference count of one is as good as knowing that only r has the item to
\* read: what the code frees is what nobody else wants.
LEMMA FreedItems ==
  ASSUME QueueAssumption, TypeOK, RingInv,
         NEW r \in Active, NEW dest \in nextItem[r]..tail
  PROVE  OnlyUnreadBy(r, dest) = Freed(r, dest)
<1> SUFFICES ASSUME NEW k \in nextItem[r]..(dest - 1)
             PROVE  At(k).count = 1 <=> Unread(k) = {r}
  BY DEF OnlyUnreadBy, Freed
<1>1. k \in Live /\ r \in Unread(k)
  BY DEF TypeOK, RingInv, ReadersInWindow, Active, Live, Unread
<1>2. At(k).count = Cardinality(Unread(k))
  BY <1>1 DEF RingInv, RefCounts
<1>3. IsFiniteSet(Unread(k))
  BY ReaderSets DEF Unread, Active
<1>4. Cardinality(Unread(k)) = 1 <=> \E x : Unread(k) = {x}
  BY <1>3, FS_Singleton
<1> QED BY <1>1, <1>2, <1>4

\* The freed items are the oldest ones, without a gap.
LEMMA FreedIsPrefix ==
  ASSUME QueueAssumption, TypeOK, RingInv,
         NEW r \in Active, NEW dest \in nextItem[r]..tail
  PROVE  /\ Cardinality(Freed(r, dest)) \in Nat
         /\ Freed(r, dest) = head..(head + Cardinality(Freed(r, dest)) - 1)
         /\ head + Cardinality(Freed(r, dest)) <= dest
<1> DEFINE F == Freed(r, dest)
           n == Cardinality(F)
           P == head..(head + n - 1)
<1>0. head \in Nat /\ tail \in Nat /\ nextItem[r] \in head..tail
  BY DEF TypeOK, RingInv, ReadersInWindow
<1>1. IsFiniteSet(F) /\ n \in Nat
  <2>1. IsFiniteSet(nextItem[r]..(dest - 1))
    BY <1>0, FS_Interval
  <2>2. F \subseteq nextItem[r]..(dest - 1)
    BY DEF Freed
  <2> QED BY <2>1, <2>2, FS_Subset, FS_CardinalityType
<1>2. ASSUME NEW k \in F, NEW j \in head..k PROVE j \in F
  <2>1. k \in nextItem[r]..(dest - 1) /\ Unread(k) = {r}
    BY DEF Freed
  <2>2. j \in Live /\ k \in Live
    BY <1>0, <2>1 DEF Live
  <2>3. Unread(j) \subseteq Unread(k)
    BY <1>0, <2>2 DEF Unread, Active, TypeOK, Live
  <2>4. Unread(j) # {}
    <3>1. Cardinality(Unread(j)) > 0
      BY <2>2 DEF RingInv, RefCounts
    <3> QED BY <3>1, FS_EmptySet
  <2>5. Unread(j) = {r}
    BY <2>1, <2>3, <2>4
  <2>6. nextItem[r] <= j
    BY <2>5 DEF Unread
  <2> QED BY <1>0, <2>1, <2>5, <2>6 DEF Freed
<1>3. F \subseteq P
  <2> SUFFICES ASSUME NEW k \in F PROVE k <= head + n - 1
    BY <1>0, <1>1 DEF Freed
  <2>1. k \in head..tail
    BY <1>0 DEF Freed
  <2>2. head..k \subseteq F
    BY <1>2
  <2>3. Cardinality(head..k) <= n
    BY <1>1, <2>2, FS_Subset
  <2>4. Cardinality(head..k) = k - head + 1
    BY <1>0, <2>1, FS_Interval
  <2> QED BY <1>0, <1>1, <2>1, <2>3, <2>4
<1>4. F = P
  <2>1. IsFiniteSet(P) /\ Cardinality(P) = n
    BY <1>0, <1>1, IntervalOf
  <2> QED BY <1>1, <1>3, <2>1, FS_Subset
<1>5. head + n <= dest
  <2>1. CASE n = 0
    BY <1>0, <2>1
  <2>2. CASE n # 0
    <3>1. head + n - 1 \in F
      BY <1>0, <1>1, <1>4, <2>2
    <3> QED BY <1>0, <1>1, <3>1 DEF Freed
  <2> QED BY <2>1, <2>2
<1> QED BY <1>1, <1>4, <1>5

\* Reader r releases its items before dest and is then at dest or gone.
Released_To(r, dest, p) ==
  /\ Release(r, dest)
  /\ nextItem' = [nextItem EXCEPT ![r] = p]
  /\ p = dest \/ (p = READER_SLOT_AVAILABLE /\ dest = tail)
  /\ tail' = tail

\* The head moves to just past the freed items, not past the new position, and
\* not past any other reader.
LEMMA ReleaseHead ==
  ASSUME QueueAssumption, TypeOK, RingInv,
         NEW r \in Active, NEW dest \in nextItem[r]..tail, NEW p,
         Released_To(r, dest, p)
  PROVE  /\ head' \in head..dest
         /\ Freed(r, dest) = head..(head' - 1)
         /\ nextItem' \in [Readers -> Nat \cup {READER_SLOT_AVAILABLE}]
         /\ \A q \in Active' : nextItem'[q] \in head'..tail'
<1>1. /\ head' = head + Cardinality(Freed(r, dest))
      /\ Cardinality(Freed(r, dest)) \in Nat
      /\ head + Cardinality(Freed(r, dest)) <= dest
      /\ Freed(r, dest) = head..(head + Cardinality(Freed(r, dest)) - 1)
  BY FreedItems, FreedIsPrefix DEF Released_To, Release
<1>2. head \in Nat /\ tail \in Nat /\ nextItem[r] \in head..tail
  BY DEF TypeOK, RingInv, ReadersInWindow
<1>3. head' \in head..dest /\ Freed(r, dest) = head..(head' - 1)
  BY <1>1, <1>2
<1>4. nextItem' \in [Readers -> Nat \cup {READER_SLOT_AVAILABLE}]
  <2>1. p \in Nat \cup {READER_SLOT_AVAILABLE}
    BY <1>2 DEF Released_To
  <2> QED BY <2>1 DEF Released_To, TypeOK
<1>5. ASSUME NEW q \in Active' PROVE nextItem'[q] \in head'..tail'
  <2>1. CASE q = r
    <3>1. nextItem'[q] = p /\ p # READER_SLOT_AVAILABLE
      BY <2>1 DEF Released_To, TypeOK, Active
    <3>2. nextItem'[q] = dest /\ tail' = tail
      BY <3>1 DEF Released_To
    <3> QED BY <1>2, <1>3, <3>2
  <2>2. CASE q # r
    <3>1. q \in Active /\ nextItem'[q] = nextItem[q] /\ nextItem[q] \in head..tail
      BY <2>2 DEF Released_To, TypeOK, Active, RingInv, ReadersInWindow
    <3>2. ~(nextItem[q] < head')
      <4> SUFFICES ASSUME nextItem[q] < head' PROVE FALSE
        OBVIOUS
      <4>1. nextItem[q] \in Freed(r, dest)
        BY <1>2, <1>3, <3>1
      <4>2. q \in Unread(nextItem[q])
        BY <1>2, <3>1 DEF Unread
      <4> QED BY <2>2, <4>1, <4>2 DEF Freed
    <3> QED BY <1>2, <1>3, <3>1, <3>2 DEF Released_To
  <2> QED BY <2>1, <2>2
<1> QED BY <1>3, <1>4, <1>5

\* What Release does to the slot of a live item.
LEMMA ReleaseItems ==
  ASSUME QueueAssumption, TypeOK, RingInv,
         NEW r \in Active, NEW dest \in nextItem[r]..tail, NEW p,
         Released_To(r, dest, p),
         NEW k \in Live
  PROVE  At(k)' = IF k \in nextItem[r]..(dest - 1) THEN Released(At(k)) ELSE At(k)
<1>1. nextItem[r] \in head..tail /\ dest \in head..tail /\ k \in Nat
  BY DEF TypeOK, RingInv, ReadersInWindow, Live
<1>2. k % QUEUE_MAX_ITEMS \in Ring
  BY <1>1, SlotInRing
<1>3. k % QUEUE_MAX_ITEMS \in SlotsOf(nextItem[r], dest) <=> k \in nextItem[r]..(dest - 1)
  BY <1>1, WindowSlots
<1> QED BY <1>2, <1>3 DEF At, Released_To, Release

\* How the live window shrinks when the head moves from h to h2.
LEMMA WindowAfter ==
  ASSUME NEW h \in Nat, NEW t \in Nat, NEW d \in h..t, NEW h2 \in h..d
  PROVE  /\ \A k \in h2..(t - 1) : k \in h..(t - 1) /\ k \in Nat /\ k \notin h..(h2 - 1)
         /\ \A k \in h..(t - 1) : k \notin h2..(t - 1) => k \in h..(h2 - 1)
OBVIOUS

\* A head that moved on leaves the window no wider than the ring.
LEMMA WindowBounds ==
  ASSUME NEW h \in Nat, NEW t \in Nat, NEW n \in Nat, t <= h + n, NEW h2 \in h..t
  PROVE  h2 \in Nat /\ h <= h2 /\ h2 <= t /\ t <= h2 + n
OBVIOUS

\* A ring of n that is full with the head moved on was full before, and the
\* head did not move.
LEMMA StillFull ==
  ASSUME NEW h \in Nat, NEW t \in Nat, NEW n \in Nat \ {0}, t <= h + n,
         NEW h2 \in Nat, h <= h2, t - h2 >= n
  PROVE  h2 = h /\ t - h >= n
OBVIOUS

\* A ring that has room keeps it when the head moves on.
LEMMA StillRoom ==
  ASSUME NEW h \in Nat, NEW t \in Nat, NEW n \in Nat, ~(t - h >= n), NEW h2 \in h..t
  PROVE  ~(t - h2 >= n)
OBVIOUS

\* One turn of the new pacing frees one item or none.
LEMMA OneOrNone ==
  ASSUME NEW h \in Nat, NEW t \in Nat, h + 1 \in h..t, NEW h2 \in h..(h + 1)
  PROVE  h2 \in h..t /\ (h2 = h \/ h2 = h + 1)
OBVIOUS

\* A head that passed nothing has not moved.
LEMMA NoneFreed ==
  ASSUME NEW h \in Nat, NEW h2 \in h..(h + 1), h..(h2 - 1) = {}
  PROVE  h2 = h
<1> SUFFICES ASSUME h2 = h + 1 PROVE FALSE
  OBVIOUS
<1>1. h \in h..(h2 - 1)
  OBVIOUS
<1> QED BY <1>1

\* An item live after the head moved was live before, and not passed by it.
LEMMA LiveAfter ==
  ASSUME head \in Nat, tail \in Nat, NEW d \in head..tail,
         head' \in head..d, tail' = tail, NEW k \in Live'
  PROVE  k \in Live /\ k \in Nat /\ k \notin head..(head' - 1)
BY WindowAfter, Zenon DEF Live

\* An item live before the head moved and not after was passed by it.
LEMMA LiveBefore ==
  ASSUME head \in Nat, tail \in Nat, NEW d \in head..tail,
         head' \in head..d, tail' = tail, NEW k \in head..(tail - 1), k \notin head'..(tail' - 1)
  PROVE  k \in Live /\ k \in head..(head' - 1)
BY WindowAfter, Zenon DEF Live

\* Dropping references keeps every count equal to the number of readers to come.
LEMMA ReleaseCounts ==
  ASSUME QueueAssumption, TypeOK, RingInv,
         NEW r \in Active, NEW dest \in nextItem[r]..tail, NEW p,
         Released_To(r, dest, p)
  PROVE  RefCounts'
<1>0. head \in Nat /\ tail \in Nat /\ nextItem[r] \in head..tail /\ dest \in head..tail
  BY DEF TypeOK, RingInv, ReadersInWindow
<1>1. head' \in head..dest /\ tail' = tail /\ Freed(r, dest) = head..(head' - 1)
  BY ReleaseHead DEF Released_To
<1> SUFFICES ASSUME NEW k \in Live'
             PROVE  At(k)'.count = Cardinality(Unread(k)') /\ At(k)'.count > 0
  BY DEF RefCounts
<1>2. k \in Live /\ k \in Nat /\ k \notin Freed(r, dest)
  BY <1>0, <1>1, LiveAfter
<1>3. At(k).count = Cardinality(Unread(k)) /\ At(k).count > 0
  BY <1>2 DEF RingInv, RefCounts
<1>4. IsFiniteSet(Unread(k)) /\ Cardinality(Unread(k)) \in Nat
  BY ReaderSets DEF Unread, Active
<1>5. At(k) \in [count : 0..MAX_QUEUE_READERS, messagBuf : Nat \cup {NULL}]
  BY <1>2, SlotInRing DEF At, TypeOK
<1>6. CASE k \in nextItem[r]..(dest - 1)
  <2>1. Unread(k)' = Unread(k) \ {r}
    BY <1>0, <1>2, <1>6 DEF Unread, Active, Released_To, TypeOK, READER_SLOT_AVAILABLE
  <2>2. r \in Unread(k)
    BY <1>6 DEF Unread
  <2>3. Cardinality(Unread(k)') = Cardinality(Unread(k)) - 1
    BY <1>4, <2>1, <2>2, FS_RemoveElement
  <2>4. At(k).count # 1
    <3>1. Cardinality(Unread(k)) = 1 <=> \E x : Unread(k) = {x}
      BY <1>4, FS_Singleton
    <3>2. Unread(k) # {r}
      BY <1>2, <1>6 DEF Freed
    <3> QED BY <1>3, <2>2, <3>1, <3>2
  <2>5. At(k)' = [At(k) EXCEPT !.count = @ - 1]
    BY <1>2, <1>6, <2>4, ReleaseItems DEF Released
  <2>6. At(k)'.count = At(k).count - 1
    BY <1>5, <2>5
  <2>7. At(k).count > 1
    BY <1>3, <1>4, <2>4
  <2> QED BY <1>3, <1>4, <2>3, <2>6, <2>7
<1>7. CASE k \notin nextItem[r]..(dest - 1)
  <2>1. Unread(k)' = Unread(k)
    BY <1>0, <1>2, <1>7 DEF Unread, Active, Released_To, TypeOK, READER_SLOT_AVAILABLE, Live
  <2>2. At(k)' = At(k)
    BY <1>2, <1>7, ReleaseItems
  <2> QED BY <1>3, <2>1, <2>2
<1> QED BY <1>6, <1>7

\* Dropping references frees no item of the new window, and empties the slots
\* that leave it.
LEMMA ReleaseBuffers ==
  ASSUME QueueAssumption, TypeOK, RingInv,
         NEW r \in Active, NEW dest \in nextItem[r]..tail, NEW p,
         Released_To(r, dest, p)
  PROVE  /\ BuffersIntact'
         /\ items' \in [Ring -> [count : 0..MAX_QUEUE_READERS, messagBuf : Nat \cup {NULL}]]
<1> DEFINE Item == [count : 0..MAX_QUEUE_READERS, messagBuf : Nat \cup {NULL}]
<1>0. head \in Nat /\ tail \in Nat /\ nextItem[r] \in head..tail /\ dest \in head..tail
  BY DEF TypeOK, RingInv, ReadersInWindow
<1>1. head' \in head..dest /\ tail' = tail /\ Freed(r, dest) = head..(head' - 1)
  BY ReleaseHead DEF Released_To
<1>2. ASSUME NEW k \in Live' PROVE At(k)'.messagBuf = k
  <2>1. k \in Live /\ k \in Nat /\ k \notin Freed(r, dest)
    BY <1>0, <1>1, LiveAfter
  <2>2. At(k).messagBuf = k /\ At(k).count = Cardinality(Unread(k))
    BY <2>1 DEF RingInv, BuffersIntact, RefCounts
  <2>3. At(k) \in Item
    BY <2>1, SlotInRing DEF At, TypeOK
  <2>4. k \in nextItem[r]..(dest - 1) => At(k).count # 1
    <3>1. k \in nextItem[r]..(dest - 1) => k \notin OnlyUnreadBy(r, dest)
      BY <2>1, FreedItems
    <3> QED BY <3>1 DEF OnlyUnreadBy
  <2>5. At(k)' = IF k \in nextItem[r]..(dest - 1) THEN [At(k) EXCEPT !.count = @ - 1] ELSE At(k)
    BY <2>1, <2>4, ReleaseItems DEF Released
  <2> QED BY <2>2, <2>3, <2>5
<1>3. ASSUME NEW i \in Ring \ SlotsOf(head', tail')
      PROVE  items'[i] = [count |-> 0, messagBuf |-> NULL]
  <2>1. CASE i \in SlotsOf(head, tail)
    <3>1. PICK k \in head..(tail - 1) : i = k % QUEUE_MAX_ITEMS
      BY <2>1 DEF SlotsOf
    <3>2. k \in Live /\ k \in head..(head' - 1)
      <4>1. k \notin head'..(tail' - 1)
        BY <1>3, <3>1 DEF SlotsOf
      <4> QED BY <1>0, <1>1, <4>1, LiveBefore
    <3>3. k \in OnlyUnreadBy(r, dest)
      BY <1>1, <3>2, FreedItems
    <3>4. k \in nextItem[r]..(dest - 1) /\ At(k).count = 1
      BY <3>3 DEF OnlyUnreadBy
    <3>5. At(k)' = Released(At(k))
      BY <3>2, <3>4, ReleaseItems
    <3>6. At(k)' = items'[i]
      BY <3>1 DEF At
    <3> QED BY <3>4, <3>5, <3>6 DEF Released
  <2>2. CASE i \notin SlotsOf(head, tail)
    <3>1. i \notin SlotsOf(nextItem[r], dest)
      BY <1>0, <2>2 DEF SlotsOf
    <3>2. items'[i] = items[i]
      BY <3>1 DEF Released_To, Release
    <3> QED BY <2>2, <3>2 DEF RingInv, BuffersIntact
  <2> QED BY <2>1, <2>2
<1>4. ASSUME NEW i \in Ring PROVE items'[i] \in Item
  <2>1. items[i] \in Item
    BY DEF TypeOK
  <2>2. CASE i \in SlotsOf(nextItem[r], dest)
    <3>1. PICK k \in nextItem[r]..(dest - 1) : i = k % QUEUE_MAX_ITEMS
      BY <2>2 DEF SlotsOf
    <3>2. k \in Live
      BY <1>0 DEF Live
    <3>3. items[i].count > 0
      BY <3>1, <3>2 DEF RingInv, RefCounts, At
    <3>4. items'[i] = Released(items[i])
      BY <2>2 DEF Released_To, Release
    <3>5. 0 \in 0..MAX_QUEUE_READERS
      BY DEF QueueAssumption
    <3> QED BY <2>1, <3>3, <3>4, <3>5 DEF Released
  <2>3. CASE i \notin SlotsOf(nextItem[r], dest)
    BY <2>1, <2>3 DEF Released_To, Release
  <2> QED BY <2>2, <2>3
<1>5. items' \in [Ring -> Item]
  BY <1>4 DEF Released_To, Release
<1> QED BY <1>2, <1>3, <1>5 DEF BuffersIntact

ItemsType == items \in [Ring -> [count : 0..MAX_QUEUE_READERS, messagBuf : Nat \cup {NULL}]]
PositionsType == nextItem \in [Readers -> Nat \cup {READER_SLOT_AVAILABLE}]

\* A reader moves forward to dest: the ring keeps its invariant.
LEMMA AdvanceRing ==
  ASSUME QueueAssumption, TypeOK, RingInv,
         NEW r \in Active, NEW dest \in nextItem[r]..tail, Advance(r, dest),
         UNCHANGED <<tail, readercount, idealReaderPosition>>
  PROVE  /\ RingInv' /\ ItemsType' /\ PositionsType'
         /\ head' \in head..dest /\ Active' = Active
<1>1. Released_To(r, dest, dest)
  <2>1. Release(r, dest) /\ nextItem' = [nextItem EXCEPT ![r] = dest]
    BY DEF Advance
  <2>2. tail' = tail
    OBVIOUS
  <2> QED BY <2>1, <2>2 DEF Released_To
<1>2. RefCounts' /\ BuffersIntact' /\ ItemsType'
  BY <1>1, ReleaseCounts, ReleaseBuffers DEF ItemsType
<1>3. /\ head' \in head..dest /\ PositionsType'
      /\ \A q \in Active' : nextItem'[q] \in head'..tail'
  BY <1>1, ReleaseHead DEF PositionsType
<1>4. Active' = Active
  BY DEF Advance, Active, TypeOK, READER_SLOT_AVAILABLE
<1>5. ReadersInWindow'
  BY <1>3, <1>4 DEF RingInv, ReadersInWindow
<1> QED BY <1>2, <1>3, <1>4, <1>5 DEF RingInv

\* A reader leaves.
LEMMA LeaveRing ==
  ASSUME QueueAssumption, TypeOK, RingInv,
         NEW r \in Active, Release(r, tail),
         nextItem' = [nextItem EXCEPT ![r] = READER_SLOT_AVAILABLE],
         readercount' = readercount - 1,
         UNCHANGED <<tail, idealReaderPosition>>
  PROVE  /\ RingInv' /\ ItemsType' /\ PositionsType'
         /\ head' \in head..tail /\ readercount' \in 0..MAX_QUEUE_READERS
<1>0. nextItem[r] \in head..tail /\ tail \in nextItem[r]..tail /\ tail \in Nat /\ head \in Nat
  BY DEF TypeOK, RingInv, ReadersInWindow
<1>1. Released_To(r, tail, READER_SLOT_AVAILABLE)
  BY DEF Released_To
<1>2. RefCounts' /\ BuffersIntact' /\ ItemsType'
  BY <1>0, <1>1, ReleaseCounts, ReleaseBuffers DEF ItemsType
<1>3. /\ head' \in head..tail /\ PositionsType'
      /\ \A q \in Active' : nextItem'[q] \in head'..tail'
  BY <1>0, <1>1, ReleaseHead DEF PositionsType
<1>4. Active' = Active \ {r}
  BY DEF Active, TypeOK, READER_SLOT_AVAILABLE
<1>5. readercount' = Cardinality(Active')
  <2>1. IsFiniteSet(Active)
    BY ReaderSets DEF Active
  <2>2. Cardinality(Active') = Cardinality(Active) - 1
    BY <1>4, <2>1, FS_RemoveElement
  <2> QED BY <2>2 DEF RingInv, ReadersInWindow
<1>6. readercount' \in 0..MAX_QUEUE_READERS
  BY <1>5, ReaderSets DEF Active
<1>7. ReadersInWindow'
  BY <1>3, <1>5 DEF RingInv, ReadersInWindow
<1> QED BY <1>2, <1>3, <1>6, <1>7 DEF RingInv

\* A reader joins at p.
LEMMA JoinRing ==
  ASSUME QueueAssumption, TypeOK, RingInv,
         NEW r \in Readers, nextItem[r] = READER_SLOT_AVAILABLE, NEW p \in head..tail,
         nextItem' = [nextItem EXCEPT ![r] = p],
         items' = [i \in Ring |-> IF i \in SlotsOf(p, tail)
                                  THEN [items[i] EXCEPT !.count = @ + 1] ELSE items[i]],
         readercount' = readercount + 1,
         UNCHANGED <<head, tail, idealReaderPosition>>
  PROVE  /\ RingInv' /\ ItemsType' /\ PositionsType'
         /\ readercount' \in 0..MAX_QUEUE_READERS
<1> DEFINE Item == [count : 0..MAX_QUEUE_READERS, messagBuf : Nat \cup {NULL}]
<1>0. head \in Nat /\ tail \in Nat /\ tail \in head..tail /\ p \in Nat /\ QUEUE_MAX_ITEMS \in Nat \ {0}
  BY DEF TypeOK, QueueAssumption
<1>1. PositionsType'
  BY <1>0 DEF PositionsType, TypeOK
<1>2. Active' = Active \cup {r} /\ r \notin Active
  BY <1>0 DEF Active, TypeOK, READER_SLOT_AVAILABLE
<1>3. readercount' = Cardinality(Active') /\ readercount' \in 0..MAX_QUEUE_READERS
  <2>1. IsFiniteSet(Active)
    BY ReaderSets DEF Active
  <2>2. Cardinality(Active') = Cardinality(Active) + 1
    BY <1>2, <2>1, FS_AddElement
  <2>3. Cardinality(Active') \in 0..MAX_QUEUE_READERS
    BY ReaderSets DEF Active
  <2> QED BY <2>2, <2>3 DEF RingInv, ReadersInWindow
<1>4. ReadersInWindow'
  BY <1>2, <1>3, <1>0 DEF RingInv, ReadersInWindow, Active, TypeOK
<1>5. ASSUME NEW k \in Live
      PROVE  /\ At(k)' = IF k >= p THEN [At(k) EXCEPT !.count = @ + 1] ELSE At(k)
             /\ At(k) \in Item /\ k \in Nat
             /\ At(k).count = Cardinality(Unread(k)) /\ At(k).count > 0
  <2>1. k \in Nat /\ k % QUEUE_MAX_ITEMS \in Ring
    BY <1>0, SlotInRing DEF Live
  <2>2. k % QUEUE_MAX_ITEMS \in SlotsOf(p, tail) <=> k \in p..(tail - 1)
    BY <1>0, WindowSlots
  <2>3. k \in p..(tail - 1) <=> k >= p
    BY <1>0 DEF Live
  <2>4. At(k) \in Item
    BY <2>1 DEF At, TypeOK
  <2> QED BY <2>1, <2>2, <2>3, <2>4 DEF At, RingInv, RefCounts
<1>6. ASSUME NEW k \in Live PROVE Unread(k)' = IF k >= p THEN Unread(k) \cup {r} ELSE Unread(k)
  BY <1>0, <1>2 DEF Unread, Active, Live, TypeOK
<1>7. ASSUME NEW k \in Live
      PROVE At(k)'.count = Cardinality(Unread(k)') /\ At(k)'.count \in 1..MAX_QUEUE_READERS
  <2>1. IsFiniteSet(Unread(k)) /\ Cardinality(Unread(k)) \in Nat /\ r \notin Unread(k)
    BY <1>2, ReaderSets DEF Unread, Active
  <2>2. Cardinality(Unread(k)') \in 0..MAX_QUEUE_READERS
    BY ReaderSets DEF Unread, Active
  <2>3. At(k).count = Cardinality(Unread(k)) /\ At(k).count > 0 /\ At(k) \in Item
    BY <1>5
  <2>4. CASE k >= p
    <3>1. Cardinality(Unread(k)') = Cardinality(Unread(k)) + 1
      BY <1>6, <2>1, <2>4, FS_AddElement
    <3>2. At(k)'.count = At(k).count + 1
      BY <1>5, <2>3, <2>4
    <3> QED BY <2>1, <2>2, <2>3, <3>1, <3>2
  <2>5. CASE ~(k >= p)
    BY <1>5, <1>6, <2>2, <2>3, <2>5
  <2> QED BY <2>4, <2>5
<1>8. Live' = Live
  BY DEF Live
<1>9. RefCounts'
  BY <1>7, <1>8 DEF RefCounts
<1>10. BuffersIntact'
  <2>1. ASSUME NEW k \in Live PROVE At(k)'.messagBuf = k
    BY <1>5 DEF RingInv, BuffersIntact
  <2>2. ASSUME NEW i \in Ring \ SlotsOf(head, tail) PROVE items'[i] = items[i]
    BY <1>0 DEF SlotsOf
  <2> QED BY <1>8, <2>1, <2>2 DEF RingInv, BuffersIntact, SlotsOf
<1>11. ASSUME NEW i \in Ring PROVE items'[i] \in Item
  <2>1. items[i] \in Item
    BY DEF TypeOK
  <2>2. CASE i \in SlotsOf(p, tail)
    <3>1. PICK k \in p..(tail - 1) : i = k % QUEUE_MAX_ITEMS
      BY <2>2 DEF SlotsOf
    <3>2. k \in Live
      BY <1>0, <3>1 DEF Live
    <3>3. items'[i].count \in 1..MAX_QUEUE_READERS
      BY <1>7, <3>1, <3>2 DEF At
    <3>4. items'[i] = [items[i] EXCEPT !.count = items[i].count + 1]
      BY <2>2
    <3> QED BY <1>0, <2>1, <3>3, <3>4 DEF QueueAssumption
  <2>3. CASE i \notin SlotsOf(p, tail)
    BY <2>1, <2>3
  <2> QED BY <2>2, <2>3
<1>12. ItemsType'
  BY <1>11 DEF ItemsType
<1> QED BY <1>1, <1>3, <1>4, <1>9, <1>10, <1>12 DEF RingInv

\* A step that leaves the ring and the readers' number alone.
LEMMA RingFrame ==
  ASSUME RingInv, UNCHANGED <<head, tail, items, nextItem, readercount, idealReaderPosition>>
  PROVE  RingInv' /\ Active' = Active
BY DEF RingInv, RefCounts, BuffersIntact, ReadersInWindow, Live, At, SlotsOf, Unread, Active

\* A writer with room puts an item at the tail.
LEMMA PutRing ==
  ASSUME QueueAssumption, TypeOK, RingInv, ~Full,
         Put, UNCHANGED <<head, nextItem, readercount, idealReaderPosition>>
  PROVE  RingInv' /\ ItemsType' /\ tail' \in Nat /\ tail <= tail' /\ tail' <= head + QUEUE_MAX_ITEMS
<1> DEFINE Item == [count : 0..MAX_QUEUE_READERS, messagBuf : Nat \cup {NULL}]
           new == [count |-> readercount, messagBuf |-> tail]
<1>0. /\ head \in Nat /\ tail \in Nat /\ head <= tail /\ QUEUE_MAX_ITEMS \in Nat \ {0}
      /\ tail < head + QUEUE_MAX_ITEMS
  BY DEF TypeOK, QueueAssumption, Full, Used
<1>1. Active' = Active /\ \A k : Unread(k)' = Unread(k)
  BY DEF Active, Unread
<1>2. CASE readercount > 0
  <2>1. items' = [items EXCEPT ![tail % QUEUE_MAX_ITEMS] = new] /\ tail' = tail + 1
    BY <1>2 DEF Put
  <2>2. tail % QUEUE_MAX_ITEMS \in Ring
    BY <1>0, SlotInRing
  <2>3. ASSUME NEW k \in Live PROVE At(k)' = At(k)
    <3>1. k \in Nat /\ k < tail /\ k >= head
      BY <1>0 DEF Live
    <3>2. k % QUEUE_MAX_ITEMS # tail % QUEUE_MAX_ITEMS
      <4>1. k - tail < QUEUE_MAX_ITEMS /\ tail - k < QUEUE_MAX_ITEMS /\ k # tail
        BY <1>0, <3>1
      <4> QED BY <1>0, <3>1, <4>1, ModInjective
    <3> QED BY <2>1, <3>2, <3>1, SlotInRing DEF At, TypeOK
  <2>t. PICK t \in Nat : t = tail
    BY <1>0
  <2>4. At(t)' = new
    BY <2>1, <2>2, <2>t DEF At, TypeOK
  <2>5. Live' = Live \cup {t}
    BY <1>0, <2>1, <2>t DEF Live
  <2>6. Unread(t) = Active
    BY <1>0, <2>t DEF Unread, RingInv, ReadersInWindow
  <2>7. RefCounts'
    <3> SUFFICES ASSUME NEW k \in Live'
                 PROVE  At(k)'.count = Cardinality(Unread(k)') /\ At(k)'.count > 0
      BY DEF RefCounts
    <3>1. CASE k \in Live
      BY <1>1, <2>3, <3>1 DEF RingInv, RefCounts
    <3>2. CASE k = t
      BY <1>1, <1>2, <2>4, <2>6, <3>2 DEF RingInv, ReadersInWindow
    <3> QED BY <2>5, <3>1, <3>2
  <2>8. BuffersIntact'
    <3>1. ASSUME NEW k \in Live' PROVE At(k)'.messagBuf = k
      <4>1. CASE k \in Live
        BY <2>3, <4>1 DEF RingInv, BuffersIntact
      <4>2. CASE k = t
        <5>1. At(t)'.messagBuf = t
          BY <2>4, <2>t
        <5> QED BY <4>2, <5>1
      <4> QED BY <2>5, <4>1, <4>2
    <3>2. ASSUME NEW i \in Ring \ SlotsOf(head', tail')
          PROVE  items'[i] = [count |-> 0, messagBuf |-> NULL]
      <4>1. i \notin SlotsOf(head, tail) /\ i # tail % QUEUE_MAX_ITEMS
        <5>1. head' = head /\ tail' = t + 1
          BY <2>1, <2>t
        <5>2. i \notin SlotsOf(head, t + 1)
          BY <3>2, <5>1
        <5>3. head..(t - 1) \subseteq head..(t + 1 - 1) /\ t \in head..(t + 1 - 1)
          BY <1>0, <2>t
        <5> QED BY <2>t, <5>2, <5>3 DEF SlotsOf
      <4>2. items'[i] = items[i]
        BY <2>1, <4>1 DEF TypeOK
      <4> QED BY <3>2, <4>1, <4>2 DEF RingInv, BuffersIntact
    <3> QED BY <3>1, <3>2 DEF BuffersIntact
  <2>9. ReadersInWindow'
    <3>1. \A r \in Active : nextItem'[r] \in head'..tail'
      BY <1>0, <2>1 DEF RingInv, ReadersInWindow, TypeOK
    <3>2. idealReaderPosition' <= tail'
      BY <1>0, <2>1 DEF RingInv, ReadersInWindow, TypeOK
    <3> QED BY <1>1, <3>1, <3>2 DEF RingInv, ReadersInWindow
  <2>10. ItemsType'
    <3>1. new \in Item
      BY <1>0 DEF TypeOK
    <3> QED BY <2>1, <3>1 DEF ItemsType, TypeOK
  <2> QED BY <1>0, <2>1, <2>7, <2>8, <2>9, <2>10 DEF RingInv
<1>3. CASE ~(readercount > 0)
  <2>1. UNCHANGED <<items, tail>>
    BY <1>3 DEF Put
  <2>2. RingInv'
    BY <2>1, RingFrame
  <2> QED BY <1>0, <2>1, <2>2 DEF ItemsType, TypeOK
<1> QED BY <1>2, <1>3

----------------------------------------------------------------------------
(* The steps.                                                              *)

\* A step of a thread that leaves the ring, the lock and its holder alone.
LEMMA OutsideFrame ==
  ASSUME IInv,
         UNCHANGED <<ring, tail, counts, idealReaderPosition, lock, cs, locals>>,
         elapsed \in Nat, elapsed' \in Nat, elapsed <= elapsed',
         \A r \in Readers : /\ rpc'[r] = "free" <=> rpc[r] = "free"
                            /\ rpc[r] = "reading" => rpc'[r] = "reading",
         \A w \in Writers : /\ wpc'[w] = "free" <=> wpc[w] = "free"
                            /\ wpc[w] = "writing" => wpc'[w] = "writing"
  PROVE  RingInv' /\ Control' /\ JoinSoFar' /\ LoopSoFar' /\ Room' /\ NeverStillFull'
<1>1. UNCHANGED <<head, tail, items, nextItem, readercount, writercount, idealReaderPosition,
                  lock, cs, slot, sum, seen, lag>>
  BY DEF ring, counts, locals
<1>2. RingInv' /\ Active' = Active
  BY <1>1, RingFrame DEF IInv
<1>3. Control'
  <2>1. lag' <= elapsed'
    BY <1>1 DEF IInv, Control, TypeOK
  <2>2. {w \in Writers : wpc'[w] # "free"} = {w \in Writers : wpc[w] # "free"}
    OBVIOUS
  <2> QED BY <1>1, <2>1, <2>2 DEF IInv, Control, WriterHolds
<1>4. JoinSoFar' /\ LoopSoFar' /\ Room' /\ NeverStillFull'
  BY <1>1, <1>2 DEF IInv, JoinSoFar, LoopSoFar, Room, NeverStillFull, Full, Used, WriterHolds
<1> QED BY <1>2, <1>3, <1>4

\* A reader outside the critical section: waiting, waking, returning.
LEMMA ReaderOutsideStep ==
  ASSUME IInv, NEW r \in Readers,
         ReadWait(r) \/ ReadLoadTail(r) \/ ReadReturn(r) \/ SpuriousWakeup(r)
  PROVE  IInv'
<1>1. UNCHANGED <<ring, tail, counts, newP, oldP, elapsed, lock, cs, locals, wvars>>
  BY DEF ReadWait, ReadLoadTail, ReadReturn, SpuriousWakeup
<1>2. /\ rpc' \in [Readers -> {"free", "idle", "waiting", "woken", "reading",
                               "loadTail", "loadNext", "ceased"}]
      /\ \A q \in Readers : /\ rpc'[q] = "free" <=> rpc[q] = "free"
                            /\ rpc[q] = "reading" => rpc'[q] = "reading"
      /\ item' \in [Readers -> Nat \cup {NULL}] /\ loadedTail' \in [Readers -> Nat]
  BY DEF IInv, TypeOK, ReadWait, ReadLoadTail, ReadReturn, SpuriousWakeup
<1>3. TypeOK'
  BY <1>1, <1>2 DEF IInv, TypeOK, ring, counts, newP, oldP, locals, wvars
<1>4. elapsed \in Nat /\ elapsed' \in Nat /\ elapsed <= elapsed' /\ UNCHANGED <<idealReaderPosition, wpc>>
  BY <1>1 DEF IInv, TypeOK, newP, wvars
<1>5. RingInv' /\ Control' /\ JoinSoFar' /\ LoopSoFar' /\ Room' /\ NeverStillFull'
  BY <1>1, <1>2, <1>4, OutsideFrame
<1> QED BY <1>3, <1>5 DEF IInv

\* A writer outside the critical section: sleeping, waking, broadcasting.
LEMMA WriterOutsideStep ==
  ASSUME QueueAssumption, IInv,
         NEW w \in Writers, PaceSleep(w) \/ PaceWake(w) \/ Notify(w)
  PROVE  IInv'
<1>1. UNCHANGED <<ring, tail, counts, newP, oldP, elapsed, lock, cs, locals, item, loadedTail>>
  BY DEF PaceSleep, PaceWake, Notify, rvars
<1>2. /\ wpc' \in [Writers -> {"free", "idle", "writing", "pacing", "sleeping", "notify"}]
      /\ \A v \in Writers : /\ wpc'[v] = "free" <=> wpc[v] = "free"
                            /\ wpc[v] = "writing" => wpc'[v] = "writing"
      /\ rpc' \in [Readers -> {"free", "idle", "waiting", "woken", "reading",
                               "loadTail", "loadNext", "ceased"}]
      /\ \A q \in Readers : /\ rpc'[q] = "free" <=> rpc[q] = "free"
                            /\ rpc[q] = "reading" => rpc'[q] = "reading"
      /\ sleepLeft' \in [Writers -> Nat \cup {Forever}]
  <2>1. CASE PaceSleep(w)
    <3>1. elapsed \in Nat /\ pacingInterval \in Nat
      BY DEF IInv, TypeOK, QueueAssumption
    <3> QED BY <2>1, <3>1 DEF IInv, TypeOK, PaceSleep, rvars
  <2>2. CASE PaceWake(w)
    BY <2>2 DEF IInv, TypeOK, PaceWake, rvars
  <2>3. CASE Notify(w)
    BY <2>3 DEF IInv, TypeOK, Notify
  <2> QED BY <2>1, <2>2, <2>3
<1>3. TypeOK'
  BY <1>1, <1>2 DEF IInv, TypeOK, ring, counts, newP, oldP, locals
<1>4. elapsed \in Nat /\ elapsed' \in Nat /\ elapsed <= elapsed' /\ UNCHANGED idealReaderPosition
  BY <1>1 DEF IInv, TypeOK, newP
<1>5. RingInv' /\ Control' /\ JoinSoFar' /\ LoopSoFar' /\ Room' /\ NeverStillFull'
  BY <1>1, <1>2, <1>4, OutsideFrame
<1> QED BY <1>3, <1>5 DEF IInv

\* Time goes by.
LEMMA TickStep ==
  ASSUME IInv, Tick
  PROVE  IInv'
<1>1. UNCHANGED <<ring, tail, counts, newP, oldP, lock, cs, locals, rvars, wpc>>
  BY DEF Tick
<1>2. elapsed \in Nat /\ elapsed' \in Nat /\ elapsed <= elapsed'
  BY DEF IInv, TypeOK, Tick
<1>3. sleepLeft' \in [Writers -> Nat \cup {Forever}]
  BY DEF IInv, TypeOK, Tick, Forever
<1>4. TypeOK'
  BY <1>1, <1>2, <1>3 DEF IInv, TypeOK, ring, counts, newP, oldP, locals, rvars
<1>5. UNCHANGED <<idealReaderPosition, rpc>>
  BY <1>1 DEF newP, rvars
<1>6. RingInv' /\ Control' /\ JoinSoFar' /\ LoopSoFar' /\ Room' /\ NeverStillFull'
  BY <1>1, <1>2, <1>5, OutsideFrame
<1> QED BY <1>4, <1>6 DEF IInv

\* Names of threads do not clash.
LEMMA Threads ==
  /\ \A r, q : Reader(r) = Reader(q) => r = q
  /\ \A w, v : Writer(w) = Writer(v) => w = v
  /\ \A r, w : Reader(r) # Writer(w) /\ Reader(r) \notin {Free, Spare}
               /\ Writer(w) \notin {Free, Spare}
  /\ Free # Spare
BY DEF Reader, Writer, Free, Spare

\* readQueue unlocks.
LEMMA ReadUnlockStep ==
  ASSUME QueueAssumption, IInv, NEW r \in Readers, ReadUnlock(r)
  PROVE  IInv'
<1>1. /\ UNCHANGED <<head, items, nextItem, tail, readercount, writercount, newP,
                     idealReaderPosition, elapsed, item, loadedTail, wpc, sleepLeft>>
      /\ lock' = Free /\ cs' = "out" /\ slot' = 0 /\ sum' = 0 /\ seen' = 0 /\ lag' = 0
      /\ rpc' = [rpc EXCEPT ![r] = "loadTail"]
      /\ lock = Reader(r) /\ cs = "update"
  BY DEF ReadUnlock, Leave, ring, counts, newP, wvars
<1>2. RingInv' /\ Active' = Active
  BY <1>1, RingFrame DEF IInv
<1>3. readCount' \in Nat /\ pacingFlag' \in BOOLEAN /\ writesLimit' \in Nat /\ writeCounts' \in [Writers -> Nat]
  <2>1. pacingFlag' = pacingFlag \/ pacingFlag' = PacingStopped
    BY Zenon DEF ReadUnlock, oldP
  <2>2. PacingStopped \in BOOLEAN
    BY Zenon DEF PacingStopped, IInv, TypeOK
  <2>3. pacingFlag' \in BOOLEAN
    BY <2>1, <2>2, Zenon DEF IInv, TypeOK
  <2>4. readCount' \in Nat /\ UNCHANGED <<writesLimit, writeCounts>>
    BY DEF IInv, TypeOK, ReadUnlock, oldP, Lesser, QueueAssumption
  <2> QED BY <2>3, <2>4 DEF IInv, TypeOK
<1>4. TypeOK'
  BY <1>1, <1>3 DEF IInv, TypeOK, newP, QueueAssumption
<1>5. Control'
  <2>1. rpc[r] = "reading"
    BY <1>1 DEF IInv, Control
  <2>2. \A q \in Readers : rpc'[q] = "free" <=> rpc[q] = "free"
    BY <1>1, <2>1 DEF IInv, TypeOK
  <2>3. lag' <= elapsed'
    BY <1>1 DEF IInv, TypeOK
  <2>4. \A q : lock' # Reader(q) /\ lock' # Writer(q)
    BY <1>1, Threads
  <2> QED BY <1>1, <2>2, <2>3, <2>4 DEF IInv, Control
<1>6. JoinSoFar' /\ LoopSoFar' /\ Room' /\ NeverStillFull'
  BY <1>1 DEF JoinSoFar, LoopSoFar, Room, NeverStillFull
<1> QED BY <1>2, <1>4, <1>5, <1>6 DEF IInv

\* createQueueReader begins.
LEMMA CreateReaderStep ==
  ASSUME QueueAssumption, IInv, NEW r \in Readers, CreateReader(r)
  PROVE  IInv'
<1>1. /\ UNCHANGED <<head, items, nextItem, tail, readercount, writercount, newP, oldP,
                     idealReaderPosition, elapsed, slot, sum, seen, lag, rpc, item,
                     loadedTail, wpc, sleepLeft>>
      /\ lock = Free /\ lock' = Reader(r) /\ cs' = "join"
      /\ nextItem[r] = READER_SLOT_AVAILABLE
  BY DEF CreateReader, FirstAvailable, Enter, ring, counts, newP, locals, rvars, wvars
<1>2. RingInv' /\ Active' = Active
  BY <1>1, RingFrame DEF IInv
<1>3. TypeOK'
  BY <1>1 DEF IInv, TypeOK, newP, oldP
<1>4. cs = "out" /\ slot = 0 /\ sum = 0 /\ seen = 0
  BY <1>1 DEF IInv, Control
<1>5. Control'
  <2>1. \A w : Writer(w) # lock'
    BY <1>1, Threads
  <2> QED BY <1>1, <1>4, <2>1, Threads DEF IInv, Control
<1>6. JoinSoFar'
  <2>1. {q \in Active : q < 0} = {}
    BY DEF Active, Readers
  <2>2. head * 0 = 0 /\ tail * 0 = 0
    BY DEF IInv, TypeOK
  <2> QED BY <1>1, <1>2, <1>4, <2>1, <2>2, FS_EmptySet DEF JoinSoFar
<1>7. LoopSoFar' /\ Room' /\ NeverStillFull'
  BY <1>1 DEF LoopSoFar, Room, NeverStillFull
<1> QED BY <1>2, <1>3, <1>5, <1>6, <1>7 DEF IInv

\* createQueueReader's loop finds readercount readers before it runs out of slots.
LEMMA JoinSumStep ==
  ASSUME QueueAssumption, IInv, JoinSum
  PROVE  IInv'
<1>1. /\ UNCHANGED <<head, items, nextItem, tail, readercount, writercount, newP, oldP,
                     idealReaderPosition, elapsed, lock, cs, lag, rpc, item,
                     loadedTail, wpc, sleepLeft>>
      /\ cs = "join" /\ seen < readercount /\ slot' = slot + 1
  BY DEF JoinSum, ring, counts, newP, rvars, wvars
<1> DEFINE Before(n) == {q \in Active : q < n}
<1> HIDE DEF Before
<1>2. RingInv' /\ Active' = Active
  BY <1>1, RingFrame DEF IInv
<1>3. /\ seen = Cardinality(Before(slot)) /\ head * seen <= sum /\ sum <= tail * seen
      /\ head \in Nat /\ tail \in Nat /\ sum \in Nat /\ seen \in Nat /\ slot \in 0..MAX_QUEUE_READERS
      /\ MAX_QUEUE_READERS \in Nat /\ readercount \in 0..MAX_QUEUE_READERS
      /\ readercount = Cardinality(Active)
  BY <1>1 DEF IInv, JoinSoFar, TypeOK, QueueAssumption, RingInv, ReadersInWindow, Before
<1>4. slot \in Readers
  <2> SUFFICES ASSUME slot = MAX_QUEUE_READERS PROVE FALSE
    BY <1>3 DEF Readers
  <2>1. Before(slot) = Active
    BY <1>3 DEF Active, Readers, Before
  <2>2. seen = readercount
    BY <1>3, <2>1
  <2> QED BY <1>1, <1>3, <2>2
<1>5. /\ seen' = Cardinality(Before(slot + 1)) /\ head * seen' <= sum' /\ sum' <= tail * seen'
      /\ sum' \in Nat /\ seen' \in 0..MAX_QUEUE_READERS
  <2>1. CASE nextItem[slot] >= 0
    <3>1. slot \in Active /\ nextItem[slot] \in head..tail
      BY <1>4, <2>1 DEF Active, READER_SLOT_AVAILABLE, IInv, RingInv, ReadersInWindow
    <3>2. Before(slot + 1) = Before(slot) \cup {slot} /\ slot \notin Before(slot)
      BY <1>3, <3>1 DEF Active, Readers, Before
    <3>3. Cardinality(Before(slot + 1)) = seen + 1
      <4>1. IsFiniteSet(Before(slot))
        BY ReaderSets DEF Active, Before
      <4> QED BY <1>3, <3>2, <4>1, FS_AddElement
    <3>4. sum' = sum + nextItem[slot] /\ seen' = seen + 1
      BY <2>1 DEF JoinSum
    <3>5. head * (seen + 1) = head * seen + head /\ tail * (seen + 1) = tail * seen + tail
      BY <1>3
    <3>6. head * seen \in Nat /\ tail * seen \in Nat
      BY <1>3
    <3>7. head * seen' <= sum' /\ sum' <= tail * seen'
      BY <1>3, <3>1, <3>4, <3>5, <3>6
    <3>8. sum' \in Nat /\ seen' \in 0..MAX_QUEUE_READERS
      BY <1>1, <1>3, <3>1, <3>4
    <3> QED BY <3>3, <3>4, <3>7, <3>8
  <2>2. CASE ~(nextItem[slot] >= 0)
    <3>1. nextItem[slot] = READER_SLOT_AVAILABLE
      BY <1>4, <2>2 DEF IInv, TypeOK
    <3>2. Before(slot + 1) = Before(slot)
      BY <1>3, <3>1 DEF Active, Readers, Before
    <3>3. sum' = sum /\ seen' = seen
      BY <2>2 DEF JoinSum
    <3> QED BY <1>1, <1>3, <3>2, <3>3
  <2> QED BY <2>1, <2>2
<1>6. JoinSoFar'
  <2>1. {q \in Active' : q < slot'} = Before(slot + 1)
    BY <1>1, <1>2 DEF Before
  <2> QED BY <1>1, <1>5, <2>1 DEF JoinSoFar
<1>7. slot' \in 0..MAX_QUEUE_READERS
  BY <1>1, <1>3, <1>4 DEF Readers
<1>8. TypeOK'
  BY <1>1, <1>5, <1>7 DEF IInv, TypeOK, newP, oldP
<1>9. Control'
  BY <1>1 DEF IInv, Control
<1>10. LoopSoFar' /\ Room' /\ NeverStillFull'
  BY <1>1 DEF LoopSoFar, Room, NeverStillFull
<1> QED BY <1>2, <1>6, <1>8, <1>9, <1>10 DEF IInv

\* createQueueReader ends.
LEMMA JoinDoneStep ==
  ASSUME QueueAssumption, IInv, NEW r \in Readers, JoinDone(r)
  PROVE  IInv'
<1>1. /\ UNCHANGED <<head, tail, writercount, newP, oldP, idealReaderPosition, elapsed, item,
                     loadedTail, wpc, sleepLeft>>
      /\ lock' = Free /\ cs' = "out" /\ slot' = 0 /\ sum' = 0 /\ seen' = 0 /\ lag' = 0
      /\ rpc' = [rpc EXCEPT ![r] = "idle"]
      /\ lock = Reader(r) /\ cs = "join" /\ seen = readercount
      /\ nextItem' = [nextItem EXCEPT ![r] = JoinPosition]
      /\ items' = [i \in Ring |-> IF i \in SlotsOf(JoinPosition, tail)
                                  THEN [items[i] EXCEPT !.count = @ + 1] ELSE items[i]]
      /\ readercount' = readercount + 1
  BY DEF JoinDone, Leave, newP, wvars
<1>2. nextItem[r] = READER_SLOT_AVAILABLE
  BY <1>1, Threads DEF IInv, Control
<1>3. JoinPosition \in head..tail
  <2>1. /\ head \in Nat /\ tail \in Nat /\ head <= tail /\ sum \in Nat /\ readercount \in Nat
        /\ head * readercount <= sum /\ sum <= tail * readercount
    BY <1>1 DEF IInv, TypeOK, JoinSoFar
  <2>2. CASE readercount = 0
    BY <2>1, <2>2 DEF JoinPosition
  <2>3. CASE readercount # 0
    <3>1. sum \div readercount \in head..tail
      BY <2>1, <2>3, AverageBetween
    <3> QED BY <2>3, <3>1 DEF JoinPosition
  <2> QED BY <2>2, <2>3
<1>4. RingInv' /\ ItemsType' /\ PositionsType' /\ readercount' \in 0..MAX_QUEUE_READERS
  BY <1>1, <1>2, <1>3, JoinRing DEF IInv
<1>5. TypeOK'
  BY <1>1, <1>4 DEF IInv, TypeOK, newP, oldP, ItemsType, PositionsType, QueueAssumption
<1>6. Control'
  <2>1. \A q \in Readers : rpc'[q] = "free" <=> nextItem'[q] = READER_SLOT_AVAILABLE
    BY <1>1, <1>3 DEF IInv, Control, TypeOK, READER_SLOT_AVAILABLE
  <2>2. lag' <= elapsed'
    BY <1>1 DEF IInv, TypeOK
  <2>3. \A q : lock' # Reader(q) /\ lock' # Writer(q)
    BY <1>1, Threads
  <2> QED BY <1>1, <2>1, <2>2, <2>3 DEF IInv, Control
<1>7. JoinSoFar' /\ LoopSoFar' /\ Room' /\ NeverStillFull'
  BY <1>1 DEF JoinSoFar, LoopSoFar, Room, NeverStillFull
<1> QED BY <1>4, <1>5, <1>6, <1>7 DEF IInv

\* readQueue takes an item.
LEMMA ReadItemStep ==
  ASSUME QueueAssumption, IInv, NEW r \in Readers, ReadItem(r)
  PROVE  IInv'
<1>1. /\ UNCHANGED <<tail, readercount, writercount, newP, oldP, idealReaderPosition, elapsed,
                     slot, sum, seen, loadedTail, wpc, sleepLeft>>
      /\ lock = Free /\ lock' = Reader(r) /\ cs' = "update" /\ lag' = elapsed
      /\ rpc' = [rpc EXCEPT ![r] = "reading"] /\ rpc[r] \in {"idle", "woken"}
      /\ item' = [item EXCEPT ![r] = At(nextItem[r]).messagBuf]
      /\ Advance(r, nextItem[r] + 1) /\ nextItem[r] < tail
  BY DEF ReadItem, Enter, counts, newP, wvars
<1>2. cs = "out" /\ slot = 0 /\ sum = 0 /\ seen = 0
  BY <1>1 DEF IInv, Control
<1>3. r \in Active /\ nextItem[r] \in Nat /\ tail \in Nat /\ nextItem[r] + 1 \in nextItem[r]..tail
  <2>1. nextItem[r] # READER_SLOT_AVAILABLE
    BY <1>1 DEF IInv, Control
  <2> QED BY <1>1, <2>1 DEF IInv, TypeOK, Active
<1>4. /\ RingInv' /\ ItemsType' /\ PositionsType'
      /\ head' \in head..(nextItem[r] + 1) /\ Active' = Active
  BY <1>1, <1>3, AdvanceRing DEF IInv
<1>5. item' \in [Readers -> Nat \cup {NULL}]
  <2>1. At(nextItem[r]).messagBuf \in Nat \cup {NULL}
    BY <1>3, SlotInRing DEF At, IInv, TypeOK
  <2> QED BY <1>1, <2>1 DEF IInv, TypeOK
<1>6. head' \in Nat /\ head' <= tail' /\ tail' <= head' + QUEUE_MAX_ITEMS
  <2>1. head \in Nat /\ tail \in Nat /\ tail <= head + QUEUE_MAX_ITEMS /\ QUEUE_MAX_ITEMS \in Nat
    BY DEF IInv, TypeOK, QueueAssumption
  <2>2. tail' = tail
    BY <1>1
  <2>3. head' \in head..tail
    BY <1>1, <1>3, <1>4, <2>1
  <2> QED BY <2>1, <2>2, <2>3, WindowBounds, Zenon
<1>7. TypeOK'
  BY <1>1, <1>4, <1>5, <1>6 DEF IInv, TypeOK, newP, oldP, ItemsType, PositionsType
<1>8. Control'
  <2>1. \A q \in Readers : rpc'[q] = "free" <=> nextItem'[q] = READER_SLOT_AVAILABLE
    BY <1>1, <1>3 DEF IInv, Control, TypeOK, READER_SLOT_AVAILABLE, Advance
  <2>2. rpc'[r] = "reading" /\ lag' <= elapsed'
    BY <1>1 DEF IInv, TypeOK
  <2>3. \A w : lock' # Writer(w)
    BY <1>1, Threads
  <2> QED BY <1>1, <1>2, <2>1, <2>2, <2>3, Threads DEF IInv, Control
<1>9. JoinSoFar' /\ LoopSoFar' /\ Room' /\ NeverStillFull'
  BY <1>1, Threads DEF JoinSoFar, LoopSoFar, Room, NeverStillFull, WriterHolds
<1> QED BY <1>4, <1>7, <1>8, <1>9 DEF IInv

\* destroyQueueReader
LEMMA DestroyReaderStep ==
  ASSUME QueueAssumption, IInv, NEW r \in Readers, DestroyReader(r)
  PROVE  IInv'
<1>1. /\ UNCHANGED <<tail, writercount, newP, oldP, idealReaderPosition, elapsed, lock, cs,
                     slot, sum, seen, lag, item, loadedTail, wpc, sleepLeft>>
      /\ lock = Free /\ rpc' = [rpc EXCEPT ![r] = "free"] /\ rpc[r] # "free"
      /\ nextItem' = [nextItem EXCEPT ![r] = READER_SLOT_AVAILABLE]
      /\ Release(r, tail) /\ readercount' = readercount - 1
  BY DEF DestroyReader, locals, newP, wvars
<1>2. cs = "out" /\ slot = 0 /\ sum = 0 /\ seen = 0
  BY <1>1 DEF IInv, Control
<1>3. r \in Active
  BY <1>1 DEF IInv, Control, Active
<1>4. /\ RingInv' /\ ItemsType' /\ PositionsType'
      /\ head' \in head..tail /\ readercount' \in 0..MAX_QUEUE_READERS
  BY <1>1, <1>3, LeaveRing DEF IInv
<1>5. head' \in Nat /\ head' <= tail' /\ tail' <= head' + QUEUE_MAX_ITEMS
  <2>1. head \in Nat /\ tail \in Nat /\ tail <= head + QUEUE_MAX_ITEMS /\ QUEUE_MAX_ITEMS \in Nat
    BY DEF IInv, TypeOK, QueueAssumption
  <2>2. tail' = tail
    BY <1>1
  <2>3. head' \in head..tail
    BY <1>1, <1>4, <2>1
  <2> QED BY <2>1, <2>2, <2>3, WindowBounds, Zenon
<1>6. TypeOK'
  BY <1>1, <1>4, <1>5 DEF IInv, TypeOK, newP, oldP, ItemsType, PositionsType
<1>7. Control'
  <2>1. \A q \in Readers : rpc'[q] = "free" <=> nextItem'[q] = READER_SLOT_AVAILABLE
    BY <1>1 DEF IInv, Control, TypeOK
  <2>2. \A q : lock' # Reader(q) /\ lock' # Writer(q)
    BY <1>1, Threads
  <2> QED BY <1>1, <1>2, <2>1, <2>2 DEF IInv, Control
<1>8. JoinSoFar' /\ LoopSoFar' /\ Room' /\ NeverStillFull'
  BY <1>1, <1>2 DEF JoinSoFar, LoopSoFar, Room, NeverStillFull
<1> QED BY <1>4, <1>6, <1>7, <1>8 DEF IInv

\* createQueueWriter with a slot to give.
LEMMA CreateWriterStep ==
  ASSUME QueueAssumption, IInv, NEW w \in Writers, CreateWriter(w)
  PROVE  IInv'
<1> DEFINE Used_ == {v \in Writers : wpc[v] # "free"}
<1>1. /\ UNCHANGED <<head, items, nextItem, tail, readercount, newP, pacingFlag, writesLimit,
                     readCount, idealReaderPosition, elapsed, lock, cs, slot, sum, seen, lag,
                     rpc, item, loadedTail, sleepLeft>>
      /\ lock = Free /\ wpc[w] = "free" /\ wpc' = [wpc EXCEPT ![w] = "idle"]
      /\ writeCounts' = [writeCounts EXCEPT ![w] = 0] /\ writercount' = writercount + 1
  BY DEF CreateWriter, ring, newP, locals, rvars
<1>2. RingInv' /\ Active' = Active
  BY <1>1, RingFrame DEF IInv
<1>3. cs = "out"
  BY <1>1 DEF IInv, Control
<1>4. writercount' = Cardinality(Used_') /\ writercount' \in 0..MAX_QUEUE_WRITERS
  <2>1. Used_' = Used_ \cup {w} /\ w \notin Used_
    BY <1>1 DEF IInv, TypeOK
  <2>2. IsFiniteSet(Used_) /\ Used_' \in SUBSET Writers
    BY WriterSets
  <2>3. Cardinality(Used_') = Cardinality(Used_) + 1
    BY <2>1, <2>2, FS_AddElement
  <2>4. Cardinality(Used_') \in 0..MAX_QUEUE_WRITERS
    BY <2>2, WriterSets
  <2> QED BY <1>1, <2>3, <2>4 DEF IInv, Control
<1>5. TypeOK'
  BY <1>1, <1>4 DEF IInv, TypeOK, newP
<1>6. Control'
  <2>1. \A q : lock' # Reader(q) /\ lock' # Writer(q)
    BY <1>1, Threads
  <2> QED BY <1>1, <1>3, <1>4, <2>1 DEF IInv, Control
<1>7. JoinSoFar' /\ LoopSoFar' /\ Room' /\ NeverStillFull'
  BY <1>1, <1>3 DEF JoinSoFar, LoopSoFar, Room, NeverStillFull
<1> QED BY <1>2, <1>5, <1>6, <1>7 DEF IInv

\* createQueueWriter with none.
LEMMA CreateWriterNoRoomStep ==
  ASSUME QueueAssumption, IInv, CreateWriterNoRoom
  PROVE  IInv'
<1>1. /\ UNCHANGED <<head, items, nextItem, tail, readercount, writercount, newP, oldP,
                     idealReaderPosition, elapsed, slot, sum, seen, lag,
                     rpc, item, loadedTail, wpc, sleepLeft>>
      /\ lock = Free /\ lock' = Spare /\ cs' = "out"
  BY DEF CreateWriterNoRoom, Enter, ring, counts, newP, locals, rvars, wvars
<1>2. RingInv' /\ Active' = Active
  BY <1>1, RingFrame DEF IInv
<1>3. cs = "out"
  BY <1>1 DEF IInv, Control
<1>4. TypeOK'
  BY <1>1 DEF IInv, TypeOK, newP, oldP
<1>5. Control'
  <2>1. lock' # Free /\ \A q : lock' # Reader(q) /\ lock' # Writer(q)
    BY <1>1, Threads
  <2> QED BY <1>1, <1>3, <2>1 DEF IInv, Control
<1>6. JoinSoFar' /\ LoopSoFar' /\ Room' /\ NeverStillFull'
  BY <1>1 DEF JoinSoFar, LoopSoFar, Room, NeverStillFull
<1> QED BY <1>2, <1>4, <1>5, <1>6 DEF IInv

\* destroyQueueWriter
LEMMA DestroyWriterStep ==
  ASSUME QueueAssumption, IInv, NEW w \in Writers, DestroyWriter(w)
  PROVE  IInv'
<1> DEFINE Used_ == {v \in Writers : wpc[v] # "free"}
<1>1. /\ UNCHANGED <<head, items, nextItem, tail, readercount, newP, pacingFlag, writesLimit,
                     readCount, idealReaderPosition, elapsed, lock, cs, slot, sum, seen, lag,
                     rpc, item, loadedTail, sleepLeft>>
      /\ lock = Free /\ wpc[w] = "idle" /\ wpc' = [wpc EXCEPT ![w] = "free"]
      /\ writeCounts' = [writeCounts EXCEPT ![w] = 0] /\ writercount' = writercount - 1
  BY DEF DestroyWriter, ring, newP, locals, rvars
<1>2. RingInv' /\ Active' = Active
  BY <1>1, RingFrame DEF IInv
<1>3. cs = "out"
  BY <1>1 DEF IInv, Control
<1>4. writercount' = Cardinality(Used_') /\ writercount' \in 0..MAX_QUEUE_WRITERS
  <2>1. Used_' = Used_ \ {w} /\ w \in Used_
    BY <1>1 DEF IInv, TypeOK
  <2>2. IsFiniteSet(Used_) /\ Used_' \in SUBSET Writers
    BY WriterSets
  <2>3. Cardinality(Used_') = Cardinality(Used_) - 1
    BY <2>1, <2>2, FS_RemoveElement
  <2>4. Cardinality(Used_') \in 0..MAX_QUEUE_WRITERS
    BY <2>2, WriterSets
  <2> QED BY <1>1, <2>3, <2>4 DEF IInv, Control
<1>5. TypeOK'
  BY <1>1, <1>4 DEF IInv, TypeOK, newP
<1>6. Control'
  <2>1. \A q : lock' # Reader(q) /\ lock' # Writer(q)
    BY <1>1, Threads
  <2> QED BY <1>1, <1>3, <1>4, <2>1 DEF IInv, Control
<1>7. JoinSoFar' /\ LoopSoFar' /\ Room' /\ NeverStillFull'
  BY <1>1, <1>3 DEF JoinSoFar, LoopSoFar, Room, NeverStillFull
<1> QED BY <1>2, <1>5, <1>6, <1>7 DEF IInv

\* writeQueue begins.
LEMMA WriteLockStep ==
  ASSUME QueueAssumption, IInv, NEW w \in Writers, WriteLock(w)
  PROVE  IInv'
<1>1. /\ UNCHANGED <<head, items, nextItem, tail, readercount, writercount, newP, oldP,
                     idealReaderPosition, elapsed, slot, sum, seen,
                     rpc, item, loadedTail, sleepLeft>>
      /\ lock = Free /\ lock' = Writer(w) /\ wpc[w] = "idle"
      /\ wpc' = [wpc EXCEPT ![w] = "writing"]
      /\ cs' = IF Full THEN "full" ELSE "update"
      /\ lag' = IF Full THEN 0 ELSE elapsed
  BY DEF WriteLock, Enter, ring, counts, newP, rvars
<1>2. RingInv' /\ Active' = Active
  BY <1>1, RingFrame DEF IInv
<1>3. cs = "out" /\ slot = 0 /\ sum = 0 /\ seen = 0
  BY <1>1 DEF IInv, Control
<1>4. TypeOK'
  <2>1. lag' \in Nat /\ lag' <= elapsed'
    BY <1>1 DEF IInv, TypeOK
  <2> QED BY <1>1, <2>1 DEF IInv, TypeOK, newP, oldP
<1>5. Control'
  <2>1. lock' # Free /\ \A q : lock' # Reader(q)
    BY <1>1, Threads
  <2>2. lag' <= elapsed'
    BY <1>1 DEF IInv, TypeOK
  <2>3. {v \in Writers : wpc'[v] # "free"} = {v \in Writers : wpc[v] # "free"}
    BY <1>1 DEF IInv, TypeOK
  <2>4. \A v \in Writers : lock' = Writer(v) => wpc'[v] = "writing"
    BY <1>1, Threads DEF IInv, TypeOK
  <2>5. WriterHolds'
    BY <1>1 DEF WriterHolds
  <2>6. cs' \in {"full", "update"}
    BY <1>1
  <2> QED BY <1>1, <1>3, <2>1, <2>2, <2>3, <2>4, <2>5, <2>6 DEF IInv, Control
<1>6. LoopSoFar'
  <2>1. cs' = "full" => Full'
    BY <1>1 DEF Full, Used
  <2>2. \A q \in Readers : ~(q < slot')
    BY <1>1, <1>3 DEF Readers
  <2> QED BY <2>1, <2>2 DEF LoopSoFar
<1>7. JoinSoFar' /\ Room' /\ NeverStillFull'
  BY <1>1 DEF JoinSoFar, Room, NeverStillFull, Full, Used
<1> QED BY <1>2, <1>4, <1>5, <1>6, <1>7 DEF IInv

\* In a ring of a single item the loop of the new pacing over a full queue does
\* move a reader past the tail: it frees the item, and the head is then where
\* the readers are that have read everything.
TwoItems == newPacingEnable => QUEUE_MAX_ITEMS > 1

\* A holder in one of the two loops over the readers leaves all but the ring
\* and the loop variable alone.
LEMMA LoopFrame ==
  ASSUME QueueAssumption, IInv, cs \in {"full", "threshold"}, slot \in Readers,
         slot' = slot + 1,
         UNCHANGED <<tail, counts, newP, oldP, elapsed, lock, cs, sum, seen, lag, rvars, wvars>>,
         RingInv', ItemsType', PositionsType', Active' = Active, head' \in head..tail
  PROVE  TypeOK' /\ Control' /\ JoinSoFar' /\ NeverStillFull'
<1>1. /\ UNCHANGED <<tail, readercount, writercount, newP, oldP, elapsed, lock, cs, sum, seen,
                     lag, rpc, item, loadedTail, wpc, sleepLeft>>
  BY DEF counts, rvars, wvars
<1>2. head' \in Nat /\ head' <= tail' /\ tail' <= head' + QUEUE_MAX_ITEMS
  <2>1. head \in Nat /\ tail \in Nat /\ tail <= head + QUEUE_MAX_ITEMS /\ QUEUE_MAX_ITEMS \in Nat
    BY DEF IInv, TypeOK, QueueAssumption
  <2>2. tail' = tail
    BY <1>1
  <2> QED BY <2>1, <2>2, WindowBounds, Zenon
<1>3. slot' \in 0..MAX_QUEUE_READERS
  BY DEF Readers, QueueAssumption
<1>4. TypeOK'
  BY <1>1, <1>2, <1>3 DEF IInv, TypeOK, newP, oldP, ItemsType, PositionsType
<1>5. Control'
  <2>1. \A q \in Readers : nextItem'[q] = READER_SLOT_AVAILABLE <=> nextItem[q] = READER_SLOT_AVAILABLE
    BY DEF Active
  <2> QED BY <1>1, <2>1 DEF IInv, Control, WriterHolds
<1>6. JoinSoFar' /\ NeverStillFull'
  BY <1>1 DEF JoinSoFar, NeverStillFull
<1> QED BY <1>4, <1>5, <1>6

\* Nothing to adjust.
LEMMA SameRing ==
  ASSUME QueueAssumption, IInv, UNCHANGED <<ring, tail, readercount, idealReaderPosition>>
  PROVE  /\ RingInv' /\ ItemsType' /\ PositionsType'
         /\ Active' = Active /\ head' \in head..tail /\ head' = head
<1>1. UNCHANGED <<head, tail, items, nextItem, readercount, idealReaderPosition>>
  BY DEF ring
<1>2. RingInv' /\ Active' = Active
  BY <1>1, RingFrame DEF IInv
<1>3. head' \in head..tail
  BY <1>1 DEF IInv, TypeOK
<1> QED BY <1>1, <1>2, <1>3 DEF IInv, TypeOK, ItemsType, PositionsType

\* adjustSlowestQueueReader on a reader at the head.
LEMMA AdjustSlowest ==
  ASSUME QueueAssumption, IInv, NEW r \in Readers, nextItem[r] = head,
         AdjustSlowestQueueReader(r),
         UNCHANGED <<tail, readercount, idealReaderPosition>>
  PROVE  /\ RingInv' /\ ItemsType' /\ PositionsType'
         /\ Active' = Active /\ head' \in head..tail
<1>1. /\ head \in Nat /\ tail \in Nat /\ idealReaderPosition \in Nat
      /\ idealReaderPosition <= tail /\ head <= tail
  BY DEF IInv, TypeOK, RingInv, ReadersInWindow
<1>2. CASE destPos <= nextItem[r]
  <2>1. UNCHANGED ring
    BY <1>2 DEF AdjustSlowestQueueReader
  <2> QED BY <2>1, SameRing
<1>3. CASE ~(destPos <= nextItem[r])
  <2>1. r \in Active
    BY <1>1 DEF Active, READER_SLOT_AVAILABLE
  <2>2. destPos \in Nat /\ destPos <= tail
    BY <1>1 DEF destPos
  <2> DEFINE d == destPos
  <2>3. d \in nextItem[r]..tail
    BY <1>1, <1>3, <2>2
  <2>4. Advance(r, d)
    BY <1>3 DEF AdjustSlowestQueueReader
  <2> HIDE DEF d
  <2>5. RingInv' /\ ItemsType' /\ PositionsType' /\ head' \in head..d /\ Active' = Active
    BY <2>1, <2>3, <2>4, AdvanceRing DEF IInv
  <2>6. head' \in head..tail
    BY <1>1, <2>3, <2>5
  <2> QED BY <2>5, <2>6
<1> QED BY <1>2, <1>3

\* The old pacing's way of making room: a slowest reader to the tail.
LEMMA AdjustFullStep ==
  ASSUME QueueAssumption, TwoItems, IInv, AdjustFull
  PROVE  IInv'
<1>1. /\ cs = "full" /\ slot \in Readers /\ slot' = slot + 1
      /\ UNCHANGED <<tail, counts, newP, oldP, elapsed, lock, cs, sum, seen, lag, rvars, wvars>>
      /\ UNCHANGED <<tail, readercount, idealReaderPosition>>
  BY DEF AdjustFull, counts, newP
<1>2. /\ head \in Nat /\ tail \in Nat /\ slot \in Nat /\ QUEUE_MAX_ITEMS \in Nat \ {0}
      /\ tail <= head + QUEUE_MAX_ITEMS /\ head <= tail
      /\ slot < MAX_QUEUE_READERS /\ MAX_QUEUE_READERS \in Nat
  BY <1>1 DEF IInv, TypeOK, QueueAssumption, Readers
<1>3. /\ RingInv' /\ ItemsType' /\ PositionsType' /\ Active' = Active /\ head' \in head..tail
      /\ head' = head /\ Full => nextItem'[slot] # head
                              /\ \A q \in Readers : q < slot => nextItem'[q] # head
      /\ newPacingEnable /\ (head' # head \/ ~Full) =>
           /\ tail - head' = QUEUE_MAX_ITEMS - 1
           /\ \E q \in Active : q < slot + 1 /\ nextItem'[q] = head'
  <2>1. CASE nextItem[slot] # head
    <3>1. UNCHANGED ring
      BY <2>1 DEF AdjustFull
    <3>2. /\ RingInv' /\ ItemsType' /\ PositionsType'
          /\ Active' = Active /\ head' \in head..tail /\ head' = head
      BY <1>1, <3>1, SameRing
    <3>3. nextItem' = nextItem
      BY <3>1 DEF ring
    <3>4. ASSUME newPacingEnable, ~Full
          PROVE  /\ tail - head = QUEUE_MAX_ITEMS - 1
                 /\ \E q \in Active : q < slot + 1 /\ nextItem'[q] = head
      <4>1. PICK q \in Active : q < slot /\ nextItem[q] = head
        BY <1>1, <3>4 DEF IInv, LoopSoFar
      <4>2. q < slot + 1 /\ nextItem'[q] = head
        BY <1>2, <3>3, <4>1 DEF Active, Readers
      <4> QED BY <1>1, <3>4, <4>2 DEF IInv, LoopSoFar
    <3>5. Full => nextItem'[slot] # head /\ \A q \in Readers : q < slot => nextItem'[q] # head
      BY <1>1, <2>1, <3>3 DEF IInv, LoopSoFar
    <3> QED BY <3>2, <3>4, <3>5
  <2>2. CASE nextItem[slot] = head /\ newPacingEnable
    <3>1. Advance(slot, head + 1)
      BY <2>2 DEF AdjustFull
    <3>2. slot \in Active
      BY <1>1, <1>2, <2>2 DEF Active, READER_SLOT_AVAILABLE
    <3>3. head + 1 \in head..tail
      <4>1. CASE Full
        BY <1>2, <4>1 DEF Full, Used
      <4>2. CASE ~Full
        BY <1>1, <1>2, <2>2, <4>2 DEF IInv, LoopSoFar, TwoItems
      <4> QED BY <4>1, <4>2
    <3>4. /\ RingInv' /\ ItemsType' /\ PositionsType' /\ Active' = Active
          /\ head' \in head..(head + 1)
      BY <1>1, <2>2, <3>1, <3>2, <3>3, AdvanceRing DEF IInv
    <3>5. head' \in head..tail /\ (head' = head \/ head' = head + 1)
      <4>1. head' \in head..(head + 1)
        BY <3>4
      <4> QED BY <1>2, <3>3, <4>1, OneOrNone, Zenon
    <3>6. nextItem' = [nextItem EXCEPT ![slot] = head + 1]
      BY <3>1 DEF Advance
    <3>7. Full => nextItem'[slot] # head /\ \A q \in Readers : q < slot => nextItem'[q] # head
      BY <1>1, <1>2, <3>6 DEF IInv, LoopSoFar, TypeOK
    <3>8. ASSUME ~Full PROVE head' = head
      <4>1. PICK q \in Active : q < slot /\ nextItem[q] = head
        BY <1>1, <2>2, <3>8 DEF IInv, LoopSoFar
      <4>2. q \in Unread(head) /\ q # slot
        BY <1>2, <4>1 DEF Unread, Active, Readers
      <4>3. Freed(slot, head + 1) = {}
        <5> SUFFICES ASSUME NEW k \in Freed(slot, head + 1) PROVE FALSE
          OBVIOUS
        <5>1. k \in nextItem[slot]..((head + 1) - 1) /\ Unread(k) = {slot}
          BY FreedItem, Zenon
        <5>2. k = head
          BY <1>2, <2>2, <5>1
        <5> QED BY <4>2, <5>1, <5>2
      <4>4. Released_To(slot, head + 1, head + 1)
        BY <1>1, <3>1 DEF Released_To, Advance
      <4>5. Freed(slot, head + 1) = head..(head' - 1)
        BY <2>2, <3>2, <3>3, <4>4, ReleaseHead DEF IInv
      <4>6. head' \in head..(head + 1) /\ head..(head' - 1) = {}
        BY <3>4, <4>3, <4>5, Zenon
      <4> QED BY <1>2, <4>6, NoneFreed, Zenon
    <3>9. CASE Full
      <4>1. ASSUME head' # head
            PROVE  /\ tail - head' = QUEUE_MAX_ITEMS - 1
                   /\ slot < slot + 1 /\ nextItem'[slot] = head'
        <5>1. head' = head + 1 /\ nextItem'[slot] = head + 1
          BY <1>1, <3>5, <3>6, <4>1 DEF IInv, TypeOK
        <5>2. tail - (head + 1) = QUEUE_MAX_ITEMS - 1
          BY <1>2, <3>9 DEF Full, Used
        <5> QED BY <1>2, <5>1, <5>2
      <4> QED BY <3>2, <3>4, <3>5, <3>7, <3>9, <4>1
    <3>10. CASE ~Full
      <4>1. PICK q \in Active : q < slot /\ nextItem[q] = head
        BY <1>1, <2>2, <3>10 DEF IInv, LoopSoFar
      <4>2. tail - head = QUEUE_MAX_ITEMS - 1
        BY <1>1, <2>2, <3>10 DEF IInv, LoopSoFar
      <4>3. q < slot + 1 /\ nextItem'[q] = head
        BY <1>2, <3>6, <4>1 DEF Active, Readers, IInv, TypeOK
      <4> QED BY <3>4, <3>5, <3>7, <3>8, <3>10, <4>2, <4>3
    <3> QED BY <3>9, <3>10
  <2>3. CASE nextItem[slot] = head /\ ~newPacingEnable
    <3>1. AdjustSlowestQueueReader(slot)
      BY <2>3 DEF AdjustFull
    <3>2. RingInv' /\ ItemsType' /\ PositionsType' /\ Active' = Active /\ head' \in head..tail
      BY <1>1, <2>3, <3>1, AdjustSlowest
    <3>3. ASSUME Full PROVE nextItem' = [nextItem EXCEPT ![slot] = tail] /\ tail # head
      <4>1. tail # head
        BY <1>2, <3>3 DEF Full, Used
      <4>2. Advance(slot, tail)
        BY <1>2, <2>3, <3>1, <4>1 DEF AdjustSlowestQueueReader, destPos
      <4> QED BY <4>1, <4>2 DEF Advance
    <3>4. Full => nextItem'[slot] # head /\ \A q \in Readers : q < slot => nextItem'[q] # head
      BY <1>1, <1>2, <3>3 DEF IInv, LoopSoFar, TypeOK
    <3> QED BY <2>3, <3>2, <3>4
  <2> QED BY <2>1, <2>2, <2>3
<1>4. TypeOK' /\ Control' /\ JoinSoFar' /\ NeverStillFull'
  BY <1>1, <1>3, LoopFrame
<1>5. LoopSoFar'
  <2>1. ASSUME Full', NEW q \in Readers, q < slot' PROVE nextItem'[q] # head'
    <3>1. head' \in Nat /\ head <= head' /\ tail' = tail
      <4>1. head' \in head..tail
        BY <1>3
      <4>2. tail' = tail
        BY <1>1
      <4> QED BY <1>2, <4>1, <4>2, WindowBounds, Zenon
    <3>2. head' = head /\ Full
      <4>1. tail - head' >= QUEUE_MAX_ITEMS
        BY <2>1, <3>1 DEF Full, Used
      <4> QED BY <1>2, <3>1, <4>1, StillFull, Zenon DEF Full, Used
    <3>3. q = slot \/ q < slot
      BY <1>1, <1>2, <2>1 DEF Readers
    <3> QED BY <1>3, <3>2, <3>3
  <2>2. ASSUME newPacingEnable, ~Full'
        PROVE  /\ tail' - head' = QUEUE_MAX_ITEMS - 1
               /\ \E q \in Active' : q < slot' /\ nextItem'[q] = head'
    <3>1. head' # head \/ ~Full
      BY <1>1, <2>2 DEF Full, Used
    <3> QED BY <1>1, <1>3, <2>2, <3>1
  <2> QED BY <2>1, <2>2 DEF LoopSoFar
<1>6. Room'
  BY <1>1 DEF Room
<1> QED BY <1>3, <1>4, <1>5, <1>6 DEF IInv

\* The loop over a full queue has made room.
LEMMA AdjustFullDoneStep ==
  ASSUME QueueAssumption, IInv, AdjustFullDone
  PROVE  IInv'
<1>1. /\ UNCHANGED <<head, items, nextItem, tail, readercount, writercount, newP, oldP,
                     idealReaderPosition, elapsed, lock, sum, seen,
                     rpc, item, loadedTail, wpc, sleepLeft>>
      /\ cs = "full" /\ slot \notin Readers /\ slot' = 0 /\ lag' = elapsed
      /\ cs' = IF Full THEN "fatal" ELSE "update"
  BY DEF AdjustFullDone, ring, counts, newP, rvars, wvars
<1>2. /\ head \in Nat /\ tail \in Nat /\ slot \in Nat /\ QUEUE_MAX_ITEMS \in Nat \ {0}
      /\ slot = MAX_QUEUE_READERS
  BY <1>1 DEF IInv, TypeOK, QueueAssumption, Readers
<1>3. ~Full
  <2> SUFFICES ASSUME Full PROVE FALSE
    OBVIOUS
  <2>1. head \in Live
    BY <1>2 DEF Full, Used, Live
  <2>2. Cardinality(Unread(head)) > 0
    BY <2>1 DEF IInv, RingInv, RefCounts
  <2>3. Unread(head) # {}
    BY <2>2, FS_EmptySet
  <2>4. PICK r \in Active : nextItem[r] <= head
    BY <2>3 DEF Unread
  <2>5. nextItem[r] = head
    BY <1>2, <2>4 DEF IInv, RingInv, ReadersInWindow
  <2>6. r \in Readers /\ r < slot
    BY <1>2 DEF Active, Readers, QueueAssumption
  <2> QED BY <1>1, <2>5, <2>6 DEF IInv, LoopSoFar
<1>4. cs' = "update"
  BY <1>1, <1>3
<1>5. RingInv' /\ Active' = Active
  BY <1>1, RingFrame DEF IInv
<1>6. TypeOK'
  BY <1>1, <1>2, <1>4 DEF IInv, TypeOK, newP, oldP
<1>7. Control'
  <2>1. lag' <= elapsed' /\ WriterHolds /\ sum = 0 /\ seen = 0 /\ lock # Free
    BY <1>1, Threads DEF IInv, TypeOK, Control, WriterHolds
  <2>2. \A q : lock' # Reader(q)
    BY <1>1, <2>1, Threads DEF WriterHolds
  <2> QED BY <1>1, <1>4, <2>1, <2>2 DEF IInv, Control
<1>8. JoinSoFar' /\ LoopSoFar' /\ Room' /\ NeverStillFull'
  BY <1>1, <1>3, <1>4 DEF JoinSoFar, LoopSoFar, Room, NeverStillFull, Full, Used
<1> QED BY <1>5, <1>6, <1>7, <1>8 DEF IInv

\* The second loop over the readers begins, ...
LEMMA ThresholdStartStep ==
  ASSUME QueueAssumption, IInv, ThresholdStart
  PROVE  IInv'
<1>1. /\ UNCHANGED <<head, items, nextItem, tail, readercount, writercount, newP, oldP,
                     idealReaderPosition, elapsed, lock, slot, sum, seen, lag,
                     rpc, item, loadedTail, wpc, sleepLeft>>
      /\ cs = "update" /\ cs' = "threshold" /\ WriterHolds
  BY DEF ThresholdStart, ring, counts, newP, locals, rvars, wvars, WriterHolds
<1>2. RingInv' /\ Active' = Active
  BY <1>1, RingFrame DEF IInv
<1>3. TypeOK'
  BY <1>1 DEF IInv, TypeOK, newP, oldP
<1>4. Control'
  <2>1. \A q : lock # Reader(q) /\ lock # Free
    BY <1>1, Threads DEF WriterHolds
  <2> QED BY <1>1, <2>1 DEF IInv, Control, WriterHolds
<1>5. JoinSoFar' /\ LoopSoFar' /\ Room' /\ NeverStillFull'
  BY <1>1 DEF IInv, JoinSoFar, LoopSoFar, Room, NeverStillFull, Full, Used, WriterHolds
<1> QED BY <1>2, <1>3, <1>4, <1>5 DEF IInv

\* ... and goes on.
LEMMA AdjustThresholdStep ==
  ASSUME QueueAssumption, IInv, AdjustThreshold
  PROVE  IInv'
<1>1. /\ cs = "threshold" /\ slot \in Readers /\ slot' = slot + 1
      /\ UNCHANGED <<tail, counts, newP, oldP, elapsed, lock, cs, sum, seen, lag, rvars, wvars>>
      /\ UNCHANGED <<tail, readercount, idealReaderPosition>>
  BY DEF AdjustThreshold, counts, newP
<1>2. RingInv' /\ ItemsType' /\ PositionsType' /\ Active' = Active /\ head' \in head..tail
  <2>1. CASE nextItem[slot] # head
    BY <1>1, <2>1, SameRing DEF AdjustThreshold
  <2>2. CASE nextItem[slot] = head
    BY <1>1, <2>2, AdjustSlowest DEF AdjustThreshold
  <2> QED BY <2>1, <2>2
<1>3. TypeOK' /\ Control' /\ JoinSoFar' /\ NeverStillFull'
  BY <1>1, <1>2, LoopFrame
<1>4. Room'
  <2>1. head \in Nat /\ tail \in Nat /\ QUEUE_MAX_ITEMS \in Nat /\ head \in 0..tail
    BY DEF IInv, TypeOK, QueueAssumption
  <2>2. ~(tail - head >= QUEUE_MAX_ITEMS)
    BY <1>1 DEF IInv, Room, Control, Full, Used
  <2>3. tail' = tail
    BY <1>1
  <2>4. ~(tail - head' >= QUEUE_MAX_ITEMS)
    BY <1>2, <2>1, <2>2, StillRoom, Zenon
  <2> QED BY <2>3, <2>4 DEF Room, Full, Used
<1>5. LoopSoFar'
  BY <1>1 DEF LoopSoFar
<1> QED BY <1>2, <1>3, <1>4, <1>5 DEF IInv

\* updateInterval
LEMMA UpdateIntervalStep ==
  ASSUME QueueAssumption, IInv, UpdateInterval
  PROVE  IInv'
<1>1. /\ UNCHANGED <<head, items, nextItem, tail, readercount, writercount, lock, cs,
                     slot, sum, seen, rpc, item, loadedTail, wpc, sleepLeft, pacingFlag>>
      /\ cs = "update" /\ lag >= pacingInterval
      /\ lag' = lag - pacingInterval /\ elapsed' = elapsed - pacingInterval
  BY Zenon DEF UpdateInterval, ring, counts, rvars, wvars, oldP, IntervalEnded
<1>2. /\ head \in Nat /\ tail \in Nat /\ idealReaderPosition \in Nat /\ writesEWMA \in Nat
      /\ writeCount \in Nat /\ idealReaderPosition <= tail /\ writesLimit \in Nat
      /\ readCount \in Nat /\ writeCounts \in [Writers -> Nat]
      /\ readercount \in Nat /\ writercount \in Nat /\ minWritesPerInterval \in Nat
      /\ lag \in Nat /\ elapsed \in Nat /\ lag <= elapsed /\ pacingInterval \in Nat
      /\ QUEUE_MAX_ITEMS \in Nat /\ tail <= head + QUEUE_MAX_ITEMS
  BY DEF IInv, TypeOK, RingInv, ReadersInWindow, Control, QueueAssumption
<1>3. lag' \in Nat /\ elapsed' \in Nat /\ lag' <= elapsed'
  BY <1>1, <1>2
<1>4. /\ idealReaderPosition' \in Nat /\ idealReaderPosition' <= tail
      /\ writesEWMA' \in Nat /\ writeCount' \in Nat
      /\ writesLimit' \in Nat /\ readCount' \in Nat /\ writeCounts' \in [Writers -> Nat]
  <2>1. CASE newPacingEnable
    <3>1. /\ idealReaderPosition' = Lesser(idealReaderPosition + writesEWMA, tail)
          /\ writesEWMA' = NewEWMAwrites /\ writeCount' = 0
          /\ UNCHANGED <<writesLimit, readCount, writeCounts>>
      BY <2>1 DEF UpdateInterval, oldP
    <3>2. NewEWMAwrites \in Nat
      BY <1>2, EWMAType DEF NewEWMAwrites
    <3>3. idealReaderPosition' \in Nat /\ idealReaderPosition' <= tail
      BY <1>2, <3>1 DEF Lesser
    <3> QED BY <1>2, <3>1, <3>2, <3>3
  <2>2. CASE ~newPacingEnable
    <3>1. /\ writesLimit' = NewWritesLimit /\ readCount' = 0
          /\ writeCounts' = [w \in Writers |-> 0]
          /\ UNCHANGED <<idealReaderPosition, writesEWMA, writeCount>>
      BY <2>2 DEF UpdateInterval, newP
    <3>2. NewWritesLimit \in Nat
      <4> DEFINE instant == (readCount \div readercount) \div writercount
                 upbound == (QUEUE_MAX_ITEMS - Used) \div 2
      <4>1. CASE readercount = 0 \/ writercount = 0
        BY <1>2, <4>1 DEF NewWritesLimit
      <4>2. CASE ~(readercount = 0 \/ writercount = 0)
        <5>1. readCount \div readercount \in Nat
          BY <1>2, <4>2
        <5>2. instant \in Nat
          BY <1>2, <4>2, <5>1
        <5>3. QUEUE_MAX_ITEMS - Used \in Nat
          BY <1>2 DEF Used
        <5>4. upbound \in Nat
          BY <5>3
        <5> HIDE DEF instant, upbound
        <5>5. EWMA(writesLimit, instant) \in Nat
          BY <1>2, <5>2, EWMAType
        <5>6. Greater(Lesser(EWMA(writesLimit, instant), upbound), minWritesPerInterval) \in Nat
          BY <1>2, <5>4, <5>5 DEF Greater, Lesser
        <5> QED BY <4>2, <5>6 DEF NewWritesLimit, instant, upbound
      <4> QED BY <4>1, <4>2
    <3> QED BY <1>2, <3>1, <3>2
  <2> QED BY <2>1, <2>2
<1>5. RingInv' /\ Active' = Active
  <2>1. Active' = Active /\ Live' = Live /\ \A k : Unread(k)' = Unread(k)
    BY <1>1 DEF Active, Live, Unread
  <2>2. RefCounts' /\ BuffersIntact'
    BY <1>1, <2>1 DEF IInv, RingInv, RefCounts, BuffersIntact, At, SlotsOf
  <2>3. ReadersInWindow'
    BY <1>1, <1>4, <2>1 DEF IInv, RingInv, ReadersInWindow
  <2> QED BY <2>1, <2>2, <2>3 DEF RingInv
<1>6. TypeOK'
  BY <1>1, <1>3, <1>4 DEF IInv, TypeOK
<1>7. Control'
  BY <1>1, <1>3 DEF IInv, Control, WriterHolds
<1>8. JoinSoFar' /\ LoopSoFar' /\ Room' /\ NeverStillFull'
  BY <1>1 DEF IInv, JoinSoFar, LoopSoFar, Room, NeverStillFull, Full, Used, WriterHolds
<1> QED BY <1>5, <1>6, <1>7, <1>8 DEF IInv

\* writeQueue ends.
LEMMA WriteItemStep ==
  ASSUME QueueAssumption, IInv, NEW w \in Writers, WriteItem(w)
  PROVE  IInv'
<1>1. /\ UNCHANGED <<head, nextItem, readercount, writercount, elapsed, idealReaderPosition,
                     writesEWMA, writesLimit, readCount, rpc, item, loadedTail, sleepLeft>>
      /\ lock = Writer(w) /\ cs \in {"update", "threshold"}
      /\ lock' = Free /\ cs' = "out" /\ slot' = 0 /\ sum' = 0 /\ seen' = 0 /\ lag' = 0
      /\ Put
  BY DEF WriteItem, Leave, PacedWrite, counts, newP, oldP, rvars
<1>2. ~Full
  BY <1>1 DEF IInv, Room, WriterHolds
<1>3. RingInv' /\ ItemsType' /\ tail' \in Nat /\ tail <= tail' /\ tail' <= head + QUEUE_MAX_ITEMS
  BY <1>1, <1>2, PutRing DEF IInv
<1>4. head \in Nat /\ tail \in Nat /\ head <= tail
  BY DEF IInv, TypeOK
<1>5. head' \in Nat /\ head' <= tail' /\ tail' <= head' + QUEUE_MAX_ITEMS
  <2>1. head <= tail'
    BY <1>3, <1>4
  <2> QED BY <1>1, <1>3, <1>4, <2>1
<1>6. /\ writeCount' \in Nat /\ pacingFlag' \in BOOLEAN /\ writeCounts' \in [Writers -> Nat]
      /\ \E at \in {"notify", "pacing"} : wpc' = [wpc EXCEPT ![w] = at]
  <2>1. CASE newPacingEnable
    <3>1. /\ writeCount' = Lesser(writeCount + 1, MaxPerInterval)
          /\ wpc' = [wpc EXCEPT ![w] = "notify"] /\ UNCHANGED <<pacingFlag, writeCounts>>
      BY <2>1 DEF WriteItem, oldP
    <3> QED BY <3>1 DEF Lesser, IInv, TypeOK, QueueAssumption
  <2>2. CASE ~newPacingEnable
    <3>1. PacedWrite(w)
      BY <2>2 DEF WriteItem
    <3>2. writeCount' = writeCount
      BY <3>1 DEF PacedWrite, newP
    <3>3. pacingFlag' = PacingApplied(tail' - head)
      BY <3>1 DEF PacedWrite
    <3>4. pacingFlag' \in BOOLEAN
      BY <3>3, Zenon DEF PacingApplied
    <3>5. writeCounts' \in [Writers -> Nat]
      BY <3>1 DEF PacedWrite, IInv, TypeOK
    <3>6. \E at \in {"notify", "pacing"} : wpc' = [wpc EXCEPT ![w] = at]
      BY <3>1, Zenon DEF PacedWrite
    <3> QED BY <3>2, <3>4, <3>5, <3>6 DEF IInv, TypeOK
  <2> QED BY <2>1, <2>2
<1>7. TypeOK'
  <2>1. wpc' \in [Writers -> {"free", "idle", "writing", "pacing", "sleeping", "notify"}]
    BY <1>6 DEF IInv, TypeOK
  <2> QED BY <1>1, <1>3, <1>5, <1>6, <2>1 DEF IInv, TypeOK, ItemsType, QueueAssumption
<1>8. Control'
  <2>1. wpc[w] = "writing" /\ lag' <= elapsed'
    BY <1>1 DEF IInv, Control, TypeOK
  <2>2. {v \in Writers : wpc'[v] # "free"} = {v \in Writers : wpc[v] # "free"}
    BY <1>6, <2>1 DEF IInv, TypeOK
  <2>3. \A q : lock' # Reader(q) /\ lock' # Writer(q)
    BY <1>1, Threads
  <2> QED BY <1>1, <2>1, <2>2, <2>3 DEF IInv, Control
<1>9. JoinSoFar' /\ LoopSoFar' /\ Room' /\ NeverStillFull'
  BY <1>1 DEF JoinSoFar, LoopSoFar, Room, NeverStillFull
<1> QED BY <1>3, <1>7, <1>8, <1>9 DEF IInv

\* A new queue satisfies the invariant.
LEMMA InitInvariant ==
  ASSUME QueueAssumption, Init
  PROVE  IInv
<1>1. Active = {} /\ Live = {} /\ SlotsOf(head, tail) = {}
  BY DEF Init, Active, Live, SlotsOf
<1>2. TypeOK
  <2>1. /\ head \in Nat /\ tail \in Nat /\ head <= tail /\ tail <= head + QUEUE_MAX_ITEMS
        /\ readercount \in 0..MAX_QUEUE_READERS /\ writercount \in 0..MAX_QUEUE_WRITERS
        /\ slot \in 0..MAX_QUEUE_READERS /\ seen \in 0..MAX_QUEUE_READERS
        /\ writesLimit \in Nat
    BY DEF Init, QueueAssumption
  <2>2. 0 \in 0..MAX_QUEUE_READERS
    BY DEF QueueAssumption
  <2>3. items \in [Ring -> [count : 0..MAX_QUEUE_READERS, messagBuf : Nat \cup {NULL}]]
    BY <2>2 DEF Init
  <2>4. pacingFlag \in BOOLEAN
    BY Zenon DEF Init
  <2> QED BY <2>1, <2>3, <2>4 DEF Init, TypeOK
<1>3. RingInv
  BY <1>1, FS_EmptySet DEF Init, RingInv, RefCounts, BuffersIntact, ReadersInWindow
<1>4. Control
  <2>1. {w \in Writers : wpc[w] # "free"} = {}
    BY DEF Init
  <2>2. \A q : lock # Reader(q) /\ lock # Writer(q)
    BY Threads DEF Init
  <2> QED BY <2>1, <2>2, FS_EmptySet DEF Init, Control
<1>5. JoinSoFar /\ LoopSoFar /\ Room /\ NeverStillFull
  BY DEF Init, JoinSoFar, LoopSoFar, Room, NeverStillFull
<1> QED BY <1>2, <1>3, <1>4, <1>5 DEF IInv

\* Every step of every thread keeps it.
LEMMA NextInvariant ==
  ASSUME QueueAssumption, TwoItems, IInv, [Next]_vars
  PROVE  IInv'
<1>1. ASSUME NEW r \in Readers, ReaderStep(r) PROVE IInv'
  BY <1>1, CreateReaderStep, JoinDoneStep, DestroyReaderStep, ReadItemStep, ReadUnlockStep,
     ReaderOutsideStep DEF ReaderStep
<1>2. ASSUME NEW w \in Writers, WriterStep(w) PROVE IInv'
  BY <1>2, CreateWriterStep, DestroyWriterStep, WriteLockStep, WriteItemStep,
     WriterOutsideStep DEF WriterStep
<1>3. CASE HolderStep
  BY <1>3, UpdateIntervalStep, JoinSumStep, AdjustFullStep, AdjustFullDoneStep,
     ThresholdStartStep, AdjustThresholdStep DEF HolderStep
<1>4. CASE CreateWriterNoRoom
  BY <1>4, CreateWriterNoRoomStep
<1>5. CASE Tick
  BY <1>5, TickStep
<1>6. CASE UNCHANGED vars
  <2>1. /\ UNCHANGED <<ring, tail, counts, idealReaderPosition, lock, cs, locals>>
        /\ UNCHANGED <<elapsed, rpc, wpc>>
    BY <1>6 DEF vars, newP, rvars, wvars
  <2>2. elapsed \in Nat /\ elapsed' \in Nat /\ elapsed <= elapsed'
    BY <2>1 DEF IInv, TypeOK
  <2>3. RingInv' /\ Control' /\ JoinSoFar' /\ LoopSoFar' /\ Room' /\ NeverStillFull'
    BY <2>1, <2>2, OutsideFrame
  <2>4. TypeOK'
    BY <1>6 DEF IInv, TypeOK, vars, ring, counts, newP, oldP, locals, rvars, wvars
  <2> QED BY <2>3, <2>4 DEF IInv
<1> QED BY <1>1, <1>2, <1>3, <1>4, <1>5, <1>6 DEF Next

----------------------------------------------------------------------------
(* The theorems.                                                           *)

\* In every reachable state the queue satisfies the inductive invariant.
THEOREM Invariance == TwoItems => (Spec => []IInv)
<1> USE QueueAssumption
<1>1. Init => IInv
  BY InitInvariant
<1>2. TwoItems /\ IInv /\ [Next]_vars => IInv'
  BY NextInvariant
<1> SUFFICES ASSUME TwoItems PROVE Spec => []IInv
  OBVIOUS
<1>3. IInv /\ [Next]_vars => IInv'
  BY <1>2
<1> QED BY <1>1, <1>3, PTL DEF Spec

\* The loops over the readers stay inside the arrays, and no counter of the
\* queue or of the pacing goes out of range.
THEOREM TypeCorrect == TwoItems => (Spec => []TypeOK)
<1>1. IInv => TypeOK
  BY DEF IInv
<1> QED BY <1>1, Invariance, PTL

\* An item's reference count is the number of its readers to come, so that
\* readQueue, adjustSlowestQueueReader and destroyQueueReader free it with the
\* last of them and not before.
THEOREM CountsAreReaders == TwoItems => (Spec => []RefCounts)
<1>1. IInv => RefCounts
  BY DEF IInv, RingInv
<1> QED BY <1>1, Invariance, PTL

\* writeQueue never overwrites an item somebody has still to read, and a free
\* slot of the ring holds no buffer.
THEOREM NothingOverwritten == TwoItems => (Spec => []BuffersIntact)
<1>1. IInv => BuffersIntact
  BY DEF IInv, RingInv
<1> QED BY <1>1, Invariance, PTL

\* Joining at the average, reading, being skipped: a reader stays between the
\* head and the tail, and readercount counts the readers.
THEOREM PositionsInWindow == TwoItems => (Spec => []ReadersInWindow)
<1>1. IInv => ReadersInWindow
  BY DEF IInv, RingInv
<1> QED BY <1>1, Invariance, PTL

\* One pass of writeQueue over the readers always makes room: its log_fatal
\* is not reached.
THEOREM PassMakesRoom == TwoItems => (Spec => []NeverStillFull)
<1>1. IInv => NeverStillFull
  BY DEF IInv
<1> QED BY <1>1, Invariance, PTL

----------------------------------------------------------------------------
(* What is stored.                                                         *)

Stored == {items[i].messagBuf : i \in Ring} \ {NULL}

\* An item somebody has still to read.
Wanted == {k \in 0..(tail - 1) : \E r \in Readers : nextItem[r] # PS!None /\ nextItem[r] <= k}

\* The buffers in the ring are those of the live items, and these are the
\* items that somebody has still to read.
LEMMA StoredIsLive ==
  ASSUME QueueAssumption, TypeOK, RingInv
  PROVE  Stored = Live /\ Wanted = Live
<1>0. head \in Nat /\ tail \in Nat /\ head <= tail
  BY DEF TypeOK
<1>1. Stored \subseteq Live
  <2> SUFFICES ASSUME NEW i \in Ring, items[i].messagBuf # NULL
               PROVE  items[i].messagBuf \in Live
    BY DEF Stored
  <2>1. i \in SlotsOf(head, tail)
    BY DEF RingInv, BuffersIntact
  <2>2. PICK k \in Live : i = k % QUEUE_MAX_ITEMS
    BY <2>1 DEF SlotsOf, Live
  <2> QED BY <2>2 DEF RingInv, BuffersIntact, At
<1>2. Live \subseteq Stored
  <2> SUFFICES ASSUME NEW k \in Live PROVE k \in Stored
    OBVIOUS
  <2>1. k \in Nat /\ k % QUEUE_MAX_ITEMS \in Ring /\ k # NULL
    BY <1>0, SlotInRing DEF Live, NULL
  <2>2. items[k % QUEUE_MAX_ITEMS].messagBuf = k
    BY DEF RingInv, BuffersIntact, At
  <2> QED BY <2>1, <2>2 DEF Stored
<1>3. Live \subseteq Wanted
  <2> SUFFICES ASSUME NEW k \in Live PROVE k \in Wanted
    OBVIOUS
  <2>1. k \in 0..(tail - 1)
    BY <1>0 DEF Live
  <2>2. Unread(k) # {}
    BY FS_EmptySet DEF RingInv, RefCounts
  <2> QED BY <2>1, <2>2 DEF Wanted, Unread, Active, PS!None, READER_SLOT_AVAILABLE
<1>4. Wanted \subseteq Live
  <2> SUFFICES ASSUME NEW k \in 0..(tail - 1), NEW r \in Readers, nextItem[r] # PS!None,
                      nextItem[r] <= k
               PROVE  k \in Live
    BY DEF Wanted
  <2>1. nextItem[r] \in head..tail
    BY DEF Active, PS!None, READER_SLOT_AVAILABLE, RingInv, ReadersInWindow
  <2> QED BY <1>0, <2>1 DEF Live
<1> QED BY <1>1, <1>2, <1>3, <1>4

LEMMA StoredIsWanted == QueueAssumption /\ TypeOK /\ RingInv => Stored = Wanted
BY StoredIsLive

\* So every step of the queue keeps what the log keeps.
LEMMA Kept ==
  ASSUME QueueAssumption, TypeOK', RingInv'
  PROVE  PS!Keep
<1>1. (QueueAssumption /\ TypeOK /\ RingInv => Stored = Wanted)'
  BY StoredIsWanted, PTL
<1>2. Wanted' = {k \in 0..(tail' - 1) : \E r \in Readers : nextItem'[r] # PS!None /\ nextItem'[r] <= k}
  BY DEF Wanted, PS!None
<1> QED BY <1>1, <1>2 DEF PS!Keep, Stored, QueueAssumption

LEMMA Subscribed == PS!Subscribed = Active
BY DEF PS!Subscribed, Active, PS!None, READER_SLOT_AVAILABLE

\* A step that leaves the ring, the readers and what they were given alone.
LEMMA Stutter ==
  ASSUME UNCHANGED <<tail, nextItem, items, item>>
  PROVE  UNCHANGED PS!vars
BY DEF PS!vars

----------------------------------------------------------------------------
(* The steps.                                                              *)

\* createQueueReader subscribes at the average position of the readers.
LEMMA JoinMaps ==
  ASSUME QueueAssumption, IInv, IInv', NEW r \in Readers, JoinDone(r)
  PROVE  PS!Join(r)
<1>1. nextItem' = [nextItem EXCEPT ![r] = JoinPosition] /\ UNCHANGED <<head, tail, item>>
      /\ lock = Reader(r) /\ cs = "join"
  BY DEF JoinDone
<1>2. nextItem[r] = PS!None
  BY <1>1, Threads DEF IInv, Control, PS!None, READER_SLOT_AVAILABLE
<1>3. JoinPosition \in head..tail
  <2>1. r \in Active'
    BY JoinDoneStep DEF JoinDone, IInv, Control, Active, TypeOK
  <2>2. nextItem'[r] = JoinPosition
    BY <1>1 DEF IInv, TypeOK
  <2> QED BY <1>1, <2>1, <2>2 DEF IInv, RingInv, ReadersInWindow
<1>4. JoinPosition \in Stored \cup {tail}
  <2>1. Stored = Live
    BY StoredIsLive DEF IInv
  <2> QED BY <1>3, <2>1 DEF Live, IInv, TypeOK
<1>5. PS!Keep
  BY Kept DEF IInv
<1> QED BY <1>1, <1>2, <1>4, <1>5 DEF PS!Join, Stored

\* destroyQueueReader ends a subscription.
LEMMA LeaveMaps ==
  ASSUME QueueAssumption, IInv, IInv', NEW r \in Readers, DestroyReader(r)
  PROVE  PS!Leave(r)
<1>1. nextItem[r] # PS!None
  BY DEF DestroyReader, IInv, Control, PS!None, READER_SLOT_AVAILABLE
<1>2. PS!Keep
  BY Kept DEF IInv
<1> QED BY <1>1, <1>2 DEF PS!Leave, DestroyReader, PS!None, READER_SLOT_AVAILABLE

\* writeQueue publishes, if there is a reader.
LEMMA PublishMaps ==
  ASSUME QueueAssumption, IInv, IInv', NEW w \in Writers, WriteItem(w)
  PROVE  PS!Publish \/ UNCHANGED PS!vars
<1>1. Put /\ UNCHANGED <<head, nextItem, item>>
  BY DEF WriteItem, rvars
<1>2. CASE readercount > 0
  <2>1. tail' = tail + 1
    BY <1>1, <1>2 DEF Put
  <2>2. Active # {}
    BY <1>2, FS_EmptySet DEF IInv, RingInv, ReadersInWindow
  <2>3. ~Full
    BY DEF WriteItem, IInv, Room, WriterHolds
  <2>4. ASSUME NEW r \in Active PROVE tail - nextItem[r] < QUEUE_MAX_ITEMS
    <3>1. nextItem[r] \in head..tail
      BY <2>4 DEF IInv, RingInv, ReadersInWindow
    <3> QED BY <2>3, <3>1 DEF Full, Used, IInv, TypeOK, QueueAssumption
  <2>5. PS!Keep
    BY Kept DEF IInv
  <2> QED BY <1>1, <2>1, <2>2, <2>4, <2>5, Subscribed DEF PS!Publish
<1>3. CASE ~(readercount > 0)
  BY <1>1, <1>3, Stutter DEF Put
<1> QED BY <1>2, <1>3

\* readQueue delivers the next item.
LEMMA DeliverMaps ==
  ASSUME QueueAssumption, IInv, IInv', NEW r \in Readers, ReadItem(r)
  PROVE  PS!Deliver(r)
<1>1. /\ item' = [item EXCEPT ![r] = At(nextItem[r]).messagBuf] /\ UNCHANGED tail
      /\ nextItem' = [nextItem EXCEPT ![r] = nextItem[r] + 1]
      /\ nextItem[r] < tail
  BY DEF ReadItem, Advance
<1>2. nextItem[r] # PS!None /\ r \in Active
  BY DEF ReadItem, IInv, Control, PS!None, READER_SLOT_AVAILABLE, Active
<1>3. nextItem[r] \in Live
  BY <1>1, <1>2 DEF IInv, RingInv, ReadersInWindow, Live, TypeOK
<1>4. At(nextItem[r]).messagBuf = nextItem[r]
  BY <1>3 DEF IInv, RingInv, BuffersIntact
<1>5. PS!Keep
  BY Kept DEF IInv
<1> QED BY <1>1, <1>2, <1>4, <1>5 DEF PS!Deliver

\* A writer that finds the queue full, or too full, makes slowest readers skip.
LEMMA SkipMaps ==
  ASSUME QueueAssumption, IInv, IInv', NEW r \in Readers, nextItem[r] = head,
         NEW dest \in (head + 1)..tail, Advance(r, dest), UNCHANGED <<tail, item>>
  PROVE  PS!Skip(r)
<1>1. nextItem' = [nextItem EXCEPT ![r] = dest]
  BY DEF Advance
<1>2. r \in Active
  BY DEF Active, IInv, TypeOK, READER_SLOT_AVAILABLE
<1>3. \A q \in Active : head <= nextItem[q]
  BY DEF IInv, RingInv, ReadersInWindow, TypeOK
<1>4. PS!Slowest(r)
  BY <1>2, <1>3, Subscribed DEF PS!Slowest
<1>5. PS!Keep
  BY Kept DEF IInv
<1> QED BY <1>1, <1>4, <1>5 DEF PS!Skip

LEMMA AdjustMaps ==
  ASSUME QueueAssumption, TwoItems, IInv, IInv', AdjustFull \/ AdjustThreshold
  PROVE  (\E r \in Readers : PS!Skip(r)) \/ UNCHANGED PS!vars
<1>1. slot \in Readers /\ UNCHANGED <<tail, item>>
  BY DEF AdjustFull, AdjustThreshold, rvars
<1>2. /\ head \in Nat /\ tail \in Nat /\ head <= tail
      /\ destPos \in Nat /\ destPos <= tail
  BY DEF IInv, TypeOK, RingInv, ReadersInWindow, destPos
<1>3. CASE UNCHANGED ring
  BY <1>1, <1>3, Stutter DEF ring
<1>4. CASE nextItem[slot] = head /\ AdjustSlowestQueueReader(slot)
  <2>1. CASE destPos <= nextItem[slot]
    BY <1>3, <1>4, <2>1 DEF AdjustSlowestQueueReader
  <2>2. CASE ~(destPos <= nextItem[slot])
    <3>1. destPos \in (head + 1)..tail /\ Advance(slot, destPos)
      BY <1>2, <1>4, <2>2 DEF AdjustSlowestQueueReader
    <3> QED BY <1>1, <1>4, <3>1, SkipMaps
  <2> QED BY <2>1, <2>2
<1>5. CASE nextItem[slot] = head /\ cs = "full" /\ newPacingEnable /\ Advance(slot, nextItem[slot] + 1)
  <2>1. head < tail
    <3>1. CASE Full
      BY <1>2, <3>1 DEF Full, Used, QueueAssumption
    <3>2. CASE ~Full
      BY <1>2, <1>5, <3>2 DEF IInv, LoopSoFar, TwoItems, QueueAssumption
    <3> QED BY <3>1, <3>2
  <2>2. head + 1 \in (head + 1)..tail /\ Advance(slot, head + 1)
    BY <1>2, <1>5, <2>1
  <2> QED BY <1>1, <1>5, <2>2, SkipMaps
<1> QED BY <1>3, <1>4, <1>5 DEF AdjustFull, AdjustThreshold

\* Each step of each thread is a step of the log, or none.
LEMMA StepMaps ==
  ASSUME QueueAssumption, TwoItems, IInv, IInv', [Next]_vars
  PROVE  [PS!Next]_(PS!vars)
<1>1. ASSUME NEW r \in Readers, ReaderStep(r) PROVE [PS!Next]_(PS!vars)
  <2>1. CASE JoinDone(r)
    BY <2>1, JoinMaps DEF PS!Next
  <2>2. CASE DestroyReader(r)
    BY <2>2, LeaveMaps DEF PS!Next
  <2>3. CASE ReadItem(r)
    BY <2>3, DeliverMaps DEF PS!Next
  <2>4. CASE ReadReturn(r)
    <3>1. PS!Consume(r)
      BY <2>4 DEF ReadReturn, PS!Consume, ring, PS!None, NULL
    <3> QED BY <3>1 DEF PS!Next
  <2>5. CASE CreateReader(r) \/ ReadWait(r) \/ ReadUnlock(r) \/ ReadLoadTail(r) \/ SpuriousWakeup(r)
    BY <2>5, Stutter DEF CreateReader, ReadWait, ReadUnlock, ReadLoadTail, SpuriousWakeup, ring, rvars
  <2> QED BY <1>1, <2>1, <2>2, <2>3, <2>4, <2>5 DEF ReaderStep
<1>2. ASSUME NEW w \in Writers, WriterStep(w) PROVE [PS!Next]_(PS!vars)
  <2>1. CASE WriteItem(w)
    BY <2>1, PublishMaps DEF PS!Next
  <2>2. CASE CreateWriter(w) \/ DestroyWriter(w) \/ WriteLock(w) \/ PaceSleep(w) \/ PaceWake(w)
             \/ Notify(w)
    BY <2>2, Stutter DEF CreateWriter, DestroyWriter, WriteLock, PaceSleep, PaceWake, Notify,
                         ring, rvars
  <2> QED BY <1>2, <2>1, <2>2 DEF WriterStep
<1>3. CASE HolderStep
  <2>1. CASE AdjustFull \/ AdjustThreshold
    BY <2>1, AdjustMaps DEF PS!Next
  <2>2. CASE UpdateInterval \/ JoinSum \/ AdjustFullDone \/ ThresholdStart
    BY <2>2, Stutter DEF UpdateInterval, JoinSum, AdjustFullDone, ThresholdStart, ring, rvars
  <2> QED BY <1>3, <2>1, <2>2 DEF HolderStep
<1>4. CASE CreateWriterNoRoom \/ Tick \/ UNCHANGED vars
  BY <1>4, Stutter DEF CreateWriterNoRoom, Tick, vars, ring, rvars
<1> QED BY <1>1, <1>2, <1>3, <1>4 DEF Next

----------------------------------------------------------------------------
(* The theorems.                                                           *)

\* The queue is a publish/subscribe log: items are published once, kept until
\* all readers have them, and given to each reader in order and at most once;
\* only slowest readers are made to skip items, and never more than
\* QUEUE_MAX_ITEMS are kept.
THEOREM Refinement == TwoItems => (Spec => ImplementsPubSub)
<1> USE QueueAssumption
<1>1. Init => PS!Init
  BY DEF Init, PS!Init, PS!None, READER_SLOT_AVAILABLE, NULL
<1>2. TwoItems /\ IInv /\ IInv' /\ [Next]_vars => [PS!Next]_(PS!vars)
  BY StepMaps
<1> SUFFICES ASSUME TwoItems PROVE Spec => ImplementsPubSub
  OBVIOUS
<1>3. IInv /\ IInv' /\ [Next]_vars => [PS!Next]_(PS!vars)
  BY <1>2
<1>4. Spec => []IInv
  BY Invariance
<1> QED BY <1>1, <1>3, <1>4, PTL DEF Spec, ImplementsPubSub, PS!Spec

----------------------------------------------------------------------------
(* Wakeups.                                                                *)

\* A broadcast is to come.
Coming == \E w \in Writers : wpc[w] \in {"pacing", "sleeping", "notify"}
Sleeping(r) == rpc[r] = "waiting" /\ nextItem[r] < tail
Wake == \A r \in Readers : Sleeping(r) => Coming

\* A reader that waits is counted.
LEMMA WaitersCount ==
  ASSUME QueueAssumption, IInv, NEW r \in Readers, rpc[r] = "waiting"
  PROVE  readercount > 0
<1>1. r \in Active /\ IsFiniteSet(Active)
  BY ReaderSets DEF IInv, Control, Active
<1>2. Cardinality(Active) # 0
  BY <1>1, FS_EmptySet
<1> QED BY <1>2 DEF IInv, RingInv, ReadersInWindow, TypeOK

LEMMA WakeStep ==
  ASSUME QueueAssumption, IInv, Wake, [Next]_vars
  PROVE  Wake'
<1> SUFFICES ASSUME NEW r \in Readers, Sleeping(r)' PROVE Coming'
  BY DEF Wake
<1> USE DEF IInv, TypeOK
<1>1. Sleeping(r) => Coming
  BY DEF Wake
<1>2. ASSUME NEW q \in Readers, ReaderStep(q) PROVE Coming'
  <2>1. wpc' = wpc /\ tail' = tail
    BY <1>2 DEF ReaderStep, CreateReader, JoinDone, DestroyReader, ReadWait, ReadItem, ReadUnlock,
       ReadLoadTail, ReadReturn, SpuriousWakeup, wvars
  <2>2. CASE ReadWait(q)
    <3>1. UNCHANGED nextItem /\ rpc' = [rpc EXCEPT ![q] = "waiting"] /\ nextItem[q] >= tail
      BY <2>2 DEF ReadWait, ring
    <3>2. nextItem[r] < tail /\ rpc'[r] = "waiting"
      BY <2>1, <3>1 DEF Sleeping
    <3>3. q # r
      BY <3>1, <3>2 DEF READER_SLOT_AVAILABLE
    <3>4. Sleeping(r)
      BY <3>1, <3>2, <3>3 DEF Sleeping
    <3> QED BY <1>1, <2>1, <3>4 DEF Coming
  <2>3. CASE ~ReadWait(q)
    <3>1. /\ rpc'[q] # "waiting" \/ UNCHANGED <<rpc, nextItem>>
          /\ \A p \in Readers : p # q => rpc'[p] = rpc[p] /\ nextItem'[p] = nextItem[p]
      BY <1>2, <2>3 DEF ReaderStep, CreateReader, JoinDone, DestroyReader, ReadItem, ReadUnlock,
         ReadLoadTail, ReadReturn, SpuriousWakeup, ring, rvars, Advance
    <3>2. Sleeping(r)
      BY <2>1, <3>1 DEF Sleeping
    <3> QED BY <1>1, <2>1, <3>2 DEF Coming
  <2> QED BY <2>2, <2>3
<1>3. ASSUME NEW w \in Writers, WriterStep(w) PROVE Coming'
  <2>1. CASE WriteItem(w) \/ PaceSleep(w) \/ PaceWake(w)
    <3>1. wpc'[w] \in {"pacing", "sleeping", "notify"}
      BY <2>1 DEF WriteItem, PacedWrite, PaceSleep, PaceWake
    <3> QED BY <3>1 DEF Coming
  <2>2. CASE CreateWriter(w) \/ DestroyWriter(w) \/ WriteLock(w)
    <3>1. UNCHANGED <<rpc, nextItem, tail>>
      BY <2>2 DEF CreateWriter, DestroyWriter, WriteLock, ring, rvars
    <3>2. PICK v \in Writers : wpc[v] \in {"pacing", "sleeping", "notify"}
      BY <1>1, <3>1 DEF Sleeping, Coming
    <3>3. wpc'[v] = wpc[v]
      BY <2>2, <3>2 DEF CreateWriter, DestroyWriter, WriteLock
    <3> QED BY <3>2, <3>3 DEF Coming
  <2>3. CASE Notify(w)
    <3>1. rpc[r] = "waiting"
      BY <2>3 DEF Notify, Sleeping
    <3>2. readercount > 0
      BY <3>1, WaitersCount
    <3> QED BY <2>3, <3>2 DEF Notify, Sleeping
  <2> QED BY <1>3, <2>1, <2>2, <2>3 DEF WriterStep
<1>4. CASE AdjustFull \/ AdjustThreshold
  <2>1. UNCHANGED <<tail, rpc, wpc>> /\ slot \in Readers
    BY <1>4 DEF AdjustFull, AdjustThreshold, rvars, wvars
  <2>2. UNCHANGED nextItem \/ \E dest \in Nat : nextItem[slot] <= dest /\ Advance(slot, dest)
    <3>1. destPos \in Nat /\ nextItem[slot] \in Nat \cup {READER_SLOT_AVAILABLE}
      BY <2>1 DEF destPos
    <3>2. ASSUME nextItem[slot] = head PROVE nextItem[slot] + 1 \in Nat
      BY <3>2
    <3> QED BY <1>4, <3>1, <3>2 DEF AdjustFull, AdjustThreshold, AdjustSlowestQueueReader, ring,
                READER_SLOT_AVAILABLE
  <2>3. nextItem[r] <= nextItem'[r] /\ nextItem[r] \in Int /\ nextItem'[r] \in Int
    <3>1. nextItem[r] \in Int
      BY DEF READER_SLOT_AVAILABLE
    <3>2. ASSUME NEW dest \in Nat, nextItem[slot] <= dest, Advance(slot, dest)
          PROVE  nextItem'[r] = IF r = slot THEN dest ELSE nextItem[r]
      BY <3>2 DEF Advance
    <3>3. nextItem'[r] \in Int /\ nextItem[r] <= nextItem'[r]
      BY <2>1, <2>2, <3>1, <3>2
    <3> QED BY <3>1, <3>3
  <2>4. Sleeping(r)
    BY <2>1, <2>3 DEF Sleeping
  <2> QED BY <1>1, <2>1, <2>4 DEF Coming
<1>5. CASE \/ UpdateInterval \/ JoinSum \/ AdjustFullDone \/ ThresholdStart
           \/ CreateWriterNoRoom \/ Tick \/ UNCHANGED vars
  <2>1. UNCHANGED <<tail, nextItem, rpc, wpc>>
    BY <1>5 DEF UpdateInterval, JoinSum, AdjustFullDone, ThresholdStart, CreateWriterNoRoom, Tick,
       vars, ring, rvars, wvars
  <2> QED BY <1>1, <2>1 DEF Sleeping, Coming
<1> QED BY <1>2, <1>3, <1>4, <1>5 DEF Next, HolderStep

\* A wakeup is never lost: whoever makes an item available to a sleeping reader
\* has still to broadcast, and will find readercount positive.
THEOREM WakeupsArrive == TwoItems => (Spec => []NoLostWakeup)
<1> USE QueueAssumption
<1>1. Init => Wake
  BY DEF Init, Wake, Sleeping
<1>2. IInv /\ Wake /\ [Next]_vars => Wake'
  BY WakeStep
<1>3. IInv /\ Wake => NoLostWakeup
  BY WaitersCount DEF Wake, Sleeping, Coming, NoLostWakeup
<1> SUFFICES ASSUME TwoItems PROVE Spec => []NoLostWakeup
  OBVIOUS
<1>4. Spec => []IInv
  BY Invariance
<1> QED BY <1>1, <1>2, <1>3, <1>4, PTL DEF Spec
=============================================================================
