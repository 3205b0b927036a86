---------------------------- MODULE ChainProofs ----------------------------
(***************************************************************************)
(* A chain closes only descriptors of its own, and an origin's messages are*)
(* passed on by one chain, although neither the table of chains nor the    *)
(* cache of owners is locked: what goes wrong goes wrong for the chains    *)
(* and the origins that the histories name.                                *)
(***************************************************************************)
EXTENDS Chain, FiniteSetTheorems, WellFoundedInduction, TLAPS

ChainStruct ==
  [st : {"none", "used", "freed"}, slot : Slots \cup {None}, addr : Addrs \cup {None},
   enabled : BOOLEAN, delete : BOOLEAN, running : BOOLEAN,
   U : Fds \cup {None}, R : Fds \cup {None}]

ChainThread ==
  [pc : {"none", "start", "loop", "R"} \cup Connected \cup Ending,
   chain : Structs \cup {None}, origin : Origins \cup {None}, tail : Int, failed : BOOLEAN]

Login ==
  [do : {"idle", "create", "enable", "disable", "delete"}, slot : Slots \cup {None},
   addr : Addrs \cup {None}, enable : BOOLEAN]

Types ==
  /\ table \in [Slots -> Structs \cup {None}]
  /\ chain \in [Structs -> ChainStruct]
  /\ thread \in [Threads -> ChainThread]
  /\ owner \in [Fds -> Structs \cup {None}]
  /\ cache \in Seq([origin : Origins, owner : Slots \cup {None}])
  /\ user \in [Users -> Login]
  /\ doubled \subseteq Structs /\ stray \in BOOLEAN /\ raced \subseteq Origins
  /\ sent \in [Origins -> SUBSET (Slots \cup {None})]

\* A thread has a chain, one that adds to the cache an origin and a place
\* within the list, or it has lost that; a login that is not idle has a slot.
ThreadsInPlace ==
  /\ \A t \in Threads : Alive(t) => thread[t].chain \in Structs
  /\ \A t \in Adding :
       thread[t].origin \in Origins /\ (thread[t].tail = Lost \/ thread[t].tail \in 0..Len(cache))
  /\ \A u \in Users : user[u].do # "idle" => user[u].slot \in Slots

(***************************************************************************)
(* The cache.                                                              *)
(***************************************************************************)
\* The entries of an origin that was not raced: there is one, for the chain that
\* passed its messages on, ...
OneEntry(o) ==
  /\ \A i, j \in DOMAIN cache : cache[i].origin = o /\ cache[j].origin = o => i = j
  /\ \A i \in DOMAIN cache : cache[i].origin = o => sent[o] \subseteq {cache[i].owner}
  /\ sent[o] # {} => \E i \in DOMAIN cache : cache[i].origin = o

\* ... no thread is about to add an entry in front of it, ...
Behindhand(o) ==
  \A i \in DOMAIN cache : cache[i].origin = o =>
    \A t \in Adding : thread[t].tail = Lost \/ i <= thread[t].tail

\* ... and a thread that adds it does so alone, to the end of the list.
AddsAlone(o) ==
  \A t \in Adding : thread[t].origin = o =>
    /\ Adding = {t} /\ thread[t].tail = Len(cache)
    /\ \A i \in DOMAIN cache : cache[i].origin # o

CacheInv == \A o \in Origins \ raced : OneEntry(o) /\ Behindhand(o) /\ AddsAlone(o)

(***************************************************************************)
(* The descriptors.                                                        *)
(***************************************************************************)
\* A chain has one thread, which works on memory that is not freed, and a slot.
OneThread ==
  \A s, t \in Threads : Alive(s) /\ Alive(t) /\ thread[s].chain = thread[t].chain => s = t
InUse == \A t \in Threads : Alive(t) => chain[thread[t].chain].st = "used"
InSlot ==
  \A i \in Slots : table[i] # None => chain[table[i]].st = "used" /\ chain[table[i]].slot = i

\* What a thread's structure holds, unless its last attempt to connect failed:
\* descriptors of its own, or none.
NoFds(c) == chain[c].U = None /\ chain[c].R = None
Holding(t) ==
  LET c == thread[t].chain
  IN CASE thread[t].pc = "R" -> chain[c].U \in Fds /\ owner[chain[c].U] = c
       [] thread[t].pc \in Connected ->
            /\ {chain[c].U, chain[c].R} \subseteq Fds /\ chain[c].U # chain[c].R
            /\ owner[chain[c].U] = c /\ owner[chain[c].R] = c
       [] thread[t].pc \in {"loop", "leave"} -> thread[t].failed \/ NoFds(c)
       [] OTHER -> NoFds(c)
AllHold == \A t \in Threads : Alive(t) => Holding(t)
UnusedHoldNone == \A c \in Structs : ThreadsOf(c) = {} => NoFds(c)

ConnInv ==
  doubled = {} =>
    /\ OneThread /\ InUse /\ InSlot
    /\ ~ stray => AllHold /\ UnusedHoldNone

IInv == Types /\ ThreadsInPlace /\ CacheInv /\ ConnInv

-----------------------------------------------------------------------------
LEMMA LeastIs ==
  ASSUME NEW S \in SUBSET Nat, S # {}
  PROVE  Min(S) \in S /\ \A k \in S : Min(S) <= k
<1>1. PICK n \in S : \A k \in S : ~(<<k, n>> \in OpToRel(<, Nat))
  BY WFMin, NatLessThanWellFounded, Zenon
<1>2. \A k \in S : ~(k < n)
  BY <1>1 DEF OpToRel
<1>3. \A k \in S : n <= k
  BY <1>2
<1> QED BY <1>3 DEF Min

LEMMA SlotsAndFds ==
  /\ Slots \subseteq Nat \ {0} /\ Structs \subseteq Nat \ {0} /\ Fds \subseteq Nat \ {0}
  /\ Threads \subseteq Nat /\ MaxSlots \in Nat \ {0} /\ MaxStructs \in Nat /\ MaxThreads \in Nat
  /\ MaxStructs >= MaxSlots /\ MaxThreads >= MaxSlots /\ IsFiniteSet(Addrs)
  /\ Slots \subseteq Structs
BY ChainAssumption DEF Slots, Structs, Fds, Threads

LEMMA SlotFound ==
  ASSUME NEW S \in SUBSET Slots, S # {}
  PROVE  Min(S) \in Slots
BY LeastIs, SlotsAndFds

\* getCacheEntry finds an entry of the origin, if there is one.
LEMMA EntryIs ==
  ASSUME Types, NEW o
  PROVE  /\ Entry(o) # 0 => Entry(o) \in DOMAIN cache /\ cache[Entry(o)].origin = o
         /\ Entry(o) = 0 => \A i \in DOMAIN cache : cache[i].origin # o
<1> DEFINE I == {i \in 1..Len(cache) : cache[i].origin = o}
<1>1. Entry(o) = IF I # {} THEN Min(I) ELSE 0
  BY DEF Entry, SelectInSeq
<1>2. Len(cache) \in Nat /\ DOMAIN cache = 1..Len(cache)
  BY DEF Types
<1>3. I \in SUBSET Nat /\ 0 \notin I
  BY <1>2
<1>4. I # {} => Min(I) \in I
  BY <1>3, LeastIs
<1> QED BY <1>1, <1>2, <1>3, <1>4

-----------------------------------------------------------------------------
\* One thread goes on, or ends.
LEMMA Moves ==
  ASSUME Types, NEW t \in Threads, NEW r \in ChainThread, thread' = [thread EXCEPT ![t] = r]
  PROVE  /\ thread' \in [Threads -> ChainThread] /\ thread'[t] = r
         /\ \A s \in Threads \ {t} : thread'[s] = thread[s]
BY DEF Types

LEMMA Goes ==
  ASSUME Types, NEW t \in Threads,
         NEW pc \in {"none", "start", "loop", "R"} \cup Connected \cup Ending, Goto(t, pc)
  PROVE  /\ thread' \in [Threads -> ChainThread]
         /\ thread'[t].pc = pc /\ thread'[t].chain = thread[t].chain
         /\ thread'[t].origin = thread[t].origin /\ thread'[t].tail = thread[t].tail
         /\ thread'[t].failed = thread[t].failed
         /\ \A s \in Threads \ {t} : thread'[s] = thread[s]
<1> DEFINE r == [thread[t] EXCEPT !.pc = pc]
<1>1. thread[t] \in ChainThread
  BY DEF Types
<1>2. r \in ChainThread /\ r.pc = pc /\ r.chain = thread[t].chain /\ r.origin = thread[t].origin
      /\ r.tail = thread[t].tail /\ r.failed = thread[t].failed
  BY <1>1 DEF ChainThread
<1>3. thread' = [thread EXCEPT ![t] = r]
  BY DEF Goto
<1> QED BY <1>2, <1>3, Moves

LEMMA NoThreadIs == NoThread \in ChainThread /\ NoThread.pc = "none" /\ NoThread.chain = None
BY DEF NoThread, ChainThread, None

LEMMA Exits ==
  ASSUME Types, NEW t \in Threads, Exit(t)
  PROVE  /\ thread' \in [Threads -> ChainThread] /\ thread'[t].pc = "none"
         /\ \A s \in Threads \ {t} : thread'[s] = thread[s]
BY NoThreadIs, Moves DEF Exit

\* One structure changes.
LEMMA Changes ==
  ASSUME Types, NEW c \in Structs, NEW r \in ChainStruct, chain' = [chain EXCEPT ![c] = r]
  PROVE  /\ chain' \in [Structs -> ChainStruct] /\ chain'[c] = r
         /\ \A d \in Structs \ {c} : chain'[d] = chain[d]
BY DEF Types

LEMMA ChainIs ==
  ASSUME Types, NEW c \in Structs
  PROVE  /\ chain[c] \in ChainStruct /\ chain[c].slot \in Slots \cup {None}
         /\ chain[c].U \in Fds \cup {None} /\ chain[c].R \in Fds \cup {None}
BY DEF Types, ChainStruct

LEMMA ClosedTypes ==
  ASSUME Types, NEW F
  PROVE  /\ Closed(F) \in [Fds -> Structs \cup {None}]
         /\ \A fd \in Fds : Closed(F)[fd] = IF fd \in F THEN None ELSE owner[fd]
BY DEF Types, Closed

\* What concerns the cache, when the cache does not change and no thread sets
\* about adding to it.
LEMMA CacheKept ==
  ASSUME CacheInv, cache' = cache, raced' = raced, sent' = sent,
         \A t \in Adding' : t \in Adding /\ thread'[t].origin = thread[t].origin
                                        /\ thread'[t].tail = thread[t].tail
  PROVE  CacheInv'
<1> SUFFICES ASSUME NEW o \in Origins \ raced
             PROVE  OneEntry(o)' /\ Behindhand(o)' /\ AddsAlone(o)'
  BY DEF CacheInv
<1>1. OneEntry(o) /\ Behindhand(o) /\ AddsAlone(o)
  BY DEF CacheInv
<1>2. OneEntry(o)'
  BY <1>1 DEF OneEntry
<1>3. Behindhand(o)'
  BY <1>1 DEF Behindhand
<1>4. AddsAlone(o)'
  BY <1>1 DEF AddsAlone
<1> QED BY <1>2, <1>3, <1>4

LEMMA PlacesKept ==
  ASSUME Types, ThreadsInPlace, cache' = cache,
         \A t \in Threads : Alive(t)' => Alive(t) /\ thread'[t].chain = thread[t].chain,
         \A t \in Adding' : t \in Adding /\ thread'[t].origin = thread[t].origin
                                        /\ thread'[t].tail = thread[t].tail,
         \A u \in Users : user'[u].do # "idle" => user'[u].slot \in Slots
  PROVE  ThreadsInPlace'
BY DEF ThreadsInPlace

\* What concerns the descriptors, when flags change and nothing else does.
LEMMA FlagsChange ==
  ASSUME ConnInv, thread' = thread, table' = table, owner' = owner,
         doubled \subseteq doubled', stray' = stray,
         \A c \in Structs : /\ chain'[c].st = chain[c].st /\ chain'[c].slot = chain[c].slot
                            /\ chain'[c].U = chain[c].U /\ chain'[c].R = chain[c].R,
         ThreadsInPlace, Types
  PROVE  ConnInv'
<1> SUFFICES ASSUME doubled' = {} PROVE (OneThread /\ InUse /\ InSlot)' /\ (~ stray' => (AllHold /\ UnusedHoldNone)')
  BY DEF ConnInv
<1>1. OneThread /\ InUse /\ InSlot /\ (~ stray => AllHold /\ UnusedHoldNone)
  BY DEF ConnInv
<1>2. \A t \in Threads : Alive(t) => thread[t].chain \in Structs
  BY DEF ThreadsInPlace
<1>3. OneThread' /\ InUse'
  BY <1>1, <1>2 DEF OneThread, InUse, Alive
<1>4. InSlot'
  BY <1>1 DEF InSlot, Types
<1>5. ASSUME ~ stray PROVE AllHold' /\ UnusedHoldNone'
  <2>1. ASSUME NEW t \in Threads, Alive(t) PROVE Holding(t)'
    <3>1. Holding(t) /\ thread[t].chain \in Structs
      BY <1>1, <1>2, <1>5, <2>1 DEF AllHold
    <3> QED BY <3>1 DEF Holding, NoFds
  <2>2. UnusedHoldNone'
    BY <1>1, <1>5 DEF UnusedHoldNone, NoFds, ThreadsOf, Alive
  <2> QED BY <2>1, <2>2 DEF AllHold, Alive
<1> QED BY <1>3, <1>4, <1>5

\* A thread goes on, and touches only what is its chain's or nobody's.
LEMMA ThreadGoesOn ==
  ASSUME Types, ThreadsInPlace, ConnInv, NEW t \in Threads, Alive(t), Alive(t)',
         thread'[t].chain = thread[t].chain, table' = table,
         doubled' = doubled, stray => stray',
         \A s \in Threads \ {t} : /\ thread'[s].pc = thread[s].pc /\ thread'[s].chain = thread[s].chain
                                  /\ thread'[s].failed = thread[s].failed,
         \A c \in Structs : chain'[c].st = chain[c].st /\ chain'[c].slot = chain[c].slot,
         \A c \in Structs \ {thread[t].chain} : chain'[c].U = chain[c].U /\ chain'[c].R = chain[c].R,
         doubled = {} /\ ~ stray' /\ Holding(t) =>
           /\ Holding(t)'
           /\ \A fd \in Fds : owner[fd] \notin {None, thread[t].chain} => owner'[fd] = owner[fd]
  PROVE  ConnInv'
<1> SUFFICES ASSUME doubled = {} PROVE (OneThread /\ InUse /\ InSlot)' /\ (~ stray' => (AllHold /\ UnusedHoldNone)')
  BY DEF ConnInv
<1>1. OneThread /\ InUse /\ InSlot /\ (~ stray => AllHold /\ UnusedHoldNone)
  BY DEF ConnInv
<1>2. \A s \in Threads : /\ Alive(s) => thread[s].chain \in Structs
                         /\ thread'[s].chain = thread[s].chain /\ (Alive(s)' <=> Alive(s))
  BY DEF ThreadsInPlace, Alive
<1>3. OneThread' /\ InUse'
  BY <1>1, <1>2 DEF OneThread, InUse
<1>4. InSlot'
  BY <1>1 DEF InSlot, Types
<1>5. ASSUME ~ stray' PROVE AllHold' /\ UnusedHoldNone'
  <2>1. ~ stray /\ Holding(t)
    BY <1>1, <1>5 DEF AllHold
  <2>2. ASSUME NEW s \in Threads \ {t}, Alive(s) PROVE Holding(s)'
    <3> DEFINE c == thread[s].chain
    <3>1. Holding(s) /\ c \in Structs /\ c # thread[t].chain /\ c # None
      BY <1>1, <1>2, <2>1, <2>2, SlotsAndFds DEF AllHold, OneThread, None
    <3>2. /\ thread'[s].pc = thread[s].pc /\ thread'[s].chain = c /\ thread'[s].failed = thread[s].failed
          /\ chain'[c].U = chain[c].U /\ chain'[c].R = chain[c].R
      BY <3>1, <2>2
    <3>3. \A fd \in Fds : owner[fd] = c => owner'[fd] = c
      BY <1>5, <2>1, <3>1
    <3> HIDE DEF c
    <3>4. thread'[s].chain = c /\ thread[s].chain = c
      BY <3>2 DEF c
    <3> QED BY <3>1, <3>2, <3>3, <3>4 DEF Holding, NoFds
  <2>3. AllHold'
    BY <1>2, <1>5, <2>1, <2>2 DEF AllHold
  <2>4. UnusedHoldNone'
    <3> SUFFICES ASSUME NEW c \in Structs, ThreadsOf(c)' = {} PROVE NoFds(c)'
      BY DEF UnusedHoldNone
    <3>1. ThreadsOf(c) = {} /\ c # thread[t].chain
      BY <1>2 DEF ThreadsOf
    <3> QED BY <1>1, <2>1, <3>1 DEF UnusedHoldNone, NoFds
  <2> QED BY <2>3, <2>4
<1> QED BY <1>3, <1>4, <1>5

-----------------------------------------------------------------------------
\* The addresses of the configuration, in some order.
LEMMA Listed ==
  ASSUME NEW S \in SUBSET Addrs
  PROVE  SetToSeq(S) \in Seq(S)
<1>1. IsFiniteSet(S)
  BY SlotsAndFds, FS_Subset
<1>2. Cardinality(S) \in Nat /\ ExistsBijection(1..Cardinality(S), S)
  BY <1>1, FS_CardinalityType
<1>3. PICK f \in [1..Cardinality(S) -> S] : IsInjective(f)
  BY <1>2 DEF ExistsBijection, Bijection, Injection
<1>4. SetToSeq(S) \in [1..Cardinality(S) -> S]
  BY <1>3 DEF SetToSeq
<1> QED BY <1>2, <1>4

LEMMA EmptySeq == \A S : <<>> \in Seq(S)
OBVIOUS

LEMMA EmptyDomain == ASSUME NEW s, s = <<>> PROVE DOMAIN s = {}
<1>1. s \in Seq({}) /\ Len(s) = 0
  OBVIOUS
<1> QED BY <1>1

\* Records as they are made.
LEMMA NewStruct ==
  ASSUME NEW i \in Slots, NEW a \in Addrs, NEW e \in BOOLEAN,
         NEW r, r = [NoChain EXCEPT !.st = "used", !.slot = i, !.addr = a, !.enabled = e]
  PROVE  r \in ChainStruct /\ r.st = "used" /\ r.slot = i /\ r.U = None /\ r.R = None
BY DEF NoChain, ChainStruct, None

LEMMA NewThread ==
  ASSUME NEW c \in Structs, NEW r, r = [NoThread EXCEPT !.pc = "start", !.chain = c]
  PROVE  r \in ChainThread /\ r.pc = "start" /\ r.chain = c
<1>1. NoThread \in ChainThread
  BY NoThreadIs
<1>2. r \in ChainThread
  BY <1>1 DEF ChainThread
<1>3. r.pc = "start" /\ r.chain = c
  BY <1>1 DEF ChainThread
<1> QED BY <1>2, <1>3

LEMMA NewLogin ==
  ASSUME NEW do \in {"create", "enable", "disable", "delete"}, NEW i \in Slots, NEW a \in Addrs,
         NEW e \in BOOLEAN, NEW r, r = [do |-> do, slot |-> i, addr |-> a, enable |-> e]
  PROVE  r \in Login /\ r.slot \in Slots
BY DEF Login

LEMMA InitInv == Init => IInv
<1> SUFFICES ASSUME Init PROVE IInv
  OBVIOUS
<1>1. PICK f \in Configured :
        LET addrs == SetToSeq({a \in Addrs : f[a] # "absent"})
            n == Min({Len(addrs), MaxSlots})
            on(i) == i <= n /\ f[addrs[i]] = "enabled"
            new(i) == [NoChain EXCEPT !.st = "used", !.slot = i, !.addr = addrs[i], !.enabled = on(i)]
        IN /\ table = [i \in Slots |-> IF i <= n THEN i ELSE None]
           /\ chain = [c \in Structs |-> IF c <= n THEN new(c) ELSE NoChain]
           /\ thread = [t \in Threads |->
                          IF on(t) THEN [NoThread EXCEPT !.pc = "start", !.chain = t] ELSE NoThread]
           /\ owner = [fd \in Fds |-> None] /\ cache = <<>> /\ user = [u \in Users |-> Idle]
           /\ commands = 0 /\ failures = 0 /\ doubled = {} /\ missed = {} /\ stray = FALSE /\ raced = {}
           /\ sent = [o \in Origins |-> {}]
  BY DEF Init
<1> DEFINE addrs == SetToSeq({a \in Addrs : f[a] # "absent"})
           n == Min({Len(addrs), MaxSlots})
           on(i) == i <= n /\ f[addrs[i]] = "enabled"
           new(i) == [NoChain EXCEPT !.st = "used", !.slot = i, !.addr = addrs[i], !.enabled = on(i)]
<1>2. addrs \in Seq(Addrs)
  <2>1. {a \in Addrs : f[a] # "absent"} \in SUBSET Addrs
    OBVIOUS
  <2> QED BY <2>1, Listed
<1>3. n \in Nat /\ n <= Len(addrs) /\ n <= MaxSlots
  <2>1. {Len(addrs), MaxSlots} \in SUBSET Nat /\ {Len(addrs), MaxSlots} # {}
    BY <1>2, SlotsAndFds
  <2> QED BY <2>1, LeastIs
<1>4. ASSUME NEW i \in Structs, i <= n PROVE i \in Slots /\ addrs[i] \in Addrs /\ i \in Nat \ {0}
  <2>1. i \in Nat \ {0}
    BY SlotsAndFds
  <2>2. i \in 1..Len(addrs) /\ i \in Slots
    BY <1>2, <1>3, <1>4, <2>1, SlotsAndFds DEF Slots
  <2> QED BY <1>2, <2>1, <2>2
<1>5. NoChain \in ChainStruct
  BY DEF NoChain, ChainStruct, None
<1>6. ASSUME NEW i \in Structs, i <= n
      PROVE  /\ new(i) \in ChainStruct
             /\ new(i).st = "used" /\ new(i).slot = i /\ new(i).U = None /\ new(i).R = None
  <2> DEFINE e == on(i)
             a == addrs[i]
             x == [NoChain EXCEPT !.st = "used", !.slot = i, !.addr = a, !.enabled = e]
  <2>1. e \in BOOLEAN /\ a \in Addrs /\ i \in Slots
    BY <1>4, <1>6
  <2>2. new(i) = x
    OBVIOUS
  <2> HIDE DEF e, a, addrs, on, new
  <2>3. x = [NoChain EXCEPT !.st = "used", !.slot = i, !.addr = a, !.enabled = e]
    OBVIOUS
  <2> HIDE DEF x
  <2>4. x \in ChainStruct /\ x.st = "used" /\ x.slot = i /\ x.U = None /\ x.R = None
    BY <2>1, <2>3 DEF NoChain, ChainStruct, None
  <2> QED BY <2>2, <2>4
<1>7. ASSUME NEW t \in Threads, on(t)
      PROVE  /\ [NoThread EXCEPT !.pc = "start", !.chain = t] \in ChainThread
             /\ t \in Structs
  <2>1. t \in Structs
    BY <1>3, <1>7, SlotsAndFds DEF Threads, Structs
  <2> HIDE DEF on
  <2> QED BY <2>1, NewThread
<1>8. /\ table = [i \in Slots |-> IF i <= n THEN i ELSE None]
      /\ chain = [c \in Structs |-> IF c <= n THEN new(c) ELSE NoChain]
      /\ thread = [t \in Threads |->
                     IF on(t) THEN [NoThread EXCEPT !.pc = "start", !.chain = t] ELSE NoThread]
      /\ owner = [fd \in Fds |-> None] /\ cache = <<>> /\ user = [u \in Users |-> Idle]
      /\ doubled = {} /\ stray = FALSE /\ raced = {} /\ sent = [o \in Origins |-> {}]
  BY <1>1
<1>9. \A t \in Threads : on(t) => t <= n
  OBVIOUS
<1> HIDE DEF addrs, n, on, new
<1>10. Types
  <2>1. table \in [Slots -> Structs \cup {None}]
    BY <1>8, SlotsAndFds
  <2>2. chain \in [Structs -> ChainStruct]
    BY <1>5, <1>6, <1>8
  <2>3. thread \in [Threads -> ChainThread]
    BY <1>7, <1>8, NoThreadIs
  <2>4. owner \in [Fds -> Structs \cup {None}]
    BY <1>8
  <2>6. cache \in Seq([origin : Origins, owner : Slots \cup {None}])
    BY <1>8, EmptySeq
  <2>5. user \in [Users -> Login]
    BY <1>8 DEF Idle, Login, None
  <2> QED BY <1>8, <2>1, <2>2, <2>3, <2>4, <2>5, <2>6 DEF Types
<1>11. \A t \in Threads : thread[t].pc \in {"none", "start"} /\ (Alive(t) => on(t) /\ thread[t].chain = t /\ t \in Structs)
  BY <1>7, <1>8 DEF Alive, NoThread
<1>12. Adding = {}
  BY <1>11 DEF Adding
<1>13. ThreadsInPlace
  <2>1. \A u \in Users : user[u].do = "idle"
    BY <1>8 DEF Idle
  <2> QED BY <1>11, <1>12, <2>1 DEF ThreadsInPlace
<1>14. CacheInv
  <2>1. DOMAIN cache = {}
    <3>1. cache = <<>>
      BY <1>8
    <3> QED BY <3>1, EmptyDomain
  <2> QED BY <1>8, <1>12, <2>1 DEF CacheInv, OneEntry, Behindhand, AddsAlone
<1>15. \A c \in Structs : c <= n => chain[c] = new(c)
  BY <1>8
<1>16. \A c \in Structs : chain[c].U = None /\ chain[c].R = None
  BY <1>6, <1>8 DEF NoChain
<1>17. OneThread /\ InUse
  BY <1>6, <1>9, <1>11, <1>15 DEF OneThread, InUse
<1>18. InSlot
  <2>1. ASSUME NEW i \in Slots, table[i] # None PROVE table[i] = i /\ i <= n /\ i \in Structs
    BY <1>8, <2>1, SlotsAndFds
  <2> QED BY <1>6, <1>15, <2>1 DEF InSlot
<1>19. AllHold /\ UnusedHoldNone
  BY <1>11, <1>16 DEF AllHold, Holding, UnusedHoldNone, NoFds, Connected
<1> QED BY <1>10, <1>13, <1>14, <1>17, <1>18, <1>19 DEF IInv, ConnInv

-----------------------------------------------------------------------------
\* A login's command, up to the change it makes.
LEMMA CommandInv ==
  ASSUME IInv, NEW u \in Users, NEW a \in Addrs, NEW what \in {"enable", "disable", "delete"},
         Command(u, a, what)
  PROVE  IInv'
<1>1. /\ table' = table /\ chain' = chain /\ thread' = thread /\ owner' = owner /\ cache' = cache
      /\ doubled' = doubled /\ stray' = stray /\ raced' = raced /\ sent' = sent
  BY DEF Command
<1>2. PICK r \in Login : user' = [user EXCEPT ![u] = r] /\ r.slot \in Slots
  <2>1. ASSUME ChainID(a) # None PROVE ChainID(a) \in Slots
    BY <2>1, SlotFound DEF ChainID
  <2>2. ASSUME EmptySlot # None PROVE EmptySlot \in Slots
    BY <2>2, SlotFound DEF EmptySlot
  <2>3. CASE /\ ChainID(a) # None
             /\ user' = [user EXCEPT ![u] = [do |-> what, slot |-> ChainID(a), addr |-> a, enable |-> FALSE]]
    BY <2>1, <2>3, NewLogin
  <2>4. CASE /\ EmptySlot # None
             /\ user' = [user EXCEPT ![u] = [do |-> "create", slot |-> EmptySlot, addr |-> a,
                                             enable |-> what = "enable"]]
    <3>1. (what = "enable") \in BOOLEAN
      OBVIOUS
    <3> DEFINE e == what = "enable"
    <3> HIDE DEF e
    <3>2. user' = [user EXCEPT ![u] = [do |-> "create", slot |-> EmptySlot, addr |-> a, enable |-> e]]
      BY <2>4 DEF e
    <3>3. e \in BOOLEAN
      BY <3>1 DEF e
    <3> DEFINE r == [do |-> "create", slot |-> EmptySlot, addr |-> a, enable |-> e]
    <3>4. EmptySlot \in Slots
      BY <2>2, <2>4
    <3>5. r = [do |-> "create", slot |-> EmptySlot, addr |-> a, enable |-> e]
      OBVIOUS
    <3> HIDE DEF r
    <3>6. r \in Login /\ r.slot \in Slots
      BY <3>3, <3>4, <3>5, NewLogin
    <3> QED BY <3>2, <3>5, <3>6
  <2> QED BY <2>3, <2>4 DEF Command
<1>3. Types'
  BY <1>1, <1>2 DEF IInv, Types
<1>4. \A v \in Users : user'[v].do # "idle" => user'[v].slot \in Slots
  BY <1>2 DEF IInv, Types, ThreadsInPlace
<1>5. ThreadsInPlace'
  BY <1>1, <1>4, PlacesKept DEF IInv, Alive, Adding
<1>6. CacheInv'
  BY <1>1, CacheKept DEF IInv, Adding, Alive
<1>7. ConnInv'
  BY <1>1, FlagsChange DEF IInv
<1> QED BY <1>3, <1>5, <1>6, <1>7 DEF IInv

\* A login that is done.
LEMMA UserDone ==
  ASSUME IInv, NEW u \in Users, user' = [user EXCEPT ![u] = Idle]
  PROVE  user' \in [Users -> Login] /\ \A v \in Users : user'[v].do # "idle" => user'[v].slot \in Slots
BY DEF IInv, Types, ThreadsInPlace, Idle, Login, None

LEMMA GoneInv == ASSUME IInv, NEW u \in Users, Gone(u) PROVE IInv'
<1>1. /\ table' = table /\ chain' = chain /\ thread' = thread /\ owner' = owner /\ cache' = cache
      /\ doubled' = doubled /\ stray' = stray /\ raced' = raced /\ sent' = sent
      /\ user' = [user EXCEPT ![u] = Idle]
  BY DEF Gone, histories
<1>2. Types'
  BY <1>1, UserDone DEF IInv, Types
<1>3. ThreadsInPlace'
  BY <1>1, UserDone, PlacesKept DEF IInv, Alive, Adding
<1>4. CacheInv'
  BY <1>1, CacheKept DEF IInv, Adding, Alive
<1>5. ConnInv'
  BY <1>1, FlagsChange DEF IInv
<1> QED BY <1>2, <1>3, <1>4, <1>5 DEF IInv

LEMMA TargetIs ==
  ASSUME IInv, NEW u \in Users, user[u].do # "idle"
  PROVE  /\ user[u].slot \in Slots /\ (Target(u) # None => Target(u) \in Structs)
         /\ doubled = {} /\ Target(u) # None =>
              chain[Target(u)].st = "used" /\ chain[Target(u)].slot = user[u].slot
BY DEF IInv, Types, ThreadsInPlace, Target, ConnInv, InSlot

LEMMA DisableInv == ASSUME IInv, NEW u \in Users, Disable(u) PROVE IInv'
<1> DEFINE c == Target(u)
           r == [chain[c] EXCEPT !.enabled = FALSE]
<1>1. c \in Structs
  BY TargetIs DEF Disable
<1>2. r \in ChainStruct /\ r.st = chain[c].st /\ r.slot = chain[c].slot /\ r.U = chain[c].U /\ r.R = chain[c].R
  <2>1. chain[c] \in ChainStruct
    BY <1>1, ChainIs DEF IInv
  <2> HIDE DEF c
  <2> QED BY <2>1 DEF ChainStruct
<1>3. chain' = [chain EXCEPT ![c] = r]
  BY DEF Disable
<1> HIDE DEF c, r
<1>4. /\ table' = table /\ thread' = thread /\ owner' = owner /\ cache' = cache
      /\ doubled' = doubled /\ stray' = stray /\ raced' = raced /\ sent' = sent
      /\ user' = [user EXCEPT ![u] = Idle]
  BY DEF Disable, histories
<1>5. /\ chain' \in [Structs -> ChainStruct] /\ chain'[c] = r
      /\ \A d \in Structs \ {c} : chain'[d] = chain[d]
  BY <1>1, <1>2, <1>3, Changes DEF IInv
<1>6. Types'
  BY <1>4, <1>5, UserDone DEF IInv, Types
<1>7. ThreadsInPlace'
  BY <1>4, UserDone, PlacesKept DEF IInv, Alive, Adding
<1>8. CacheInv'
  BY <1>4, CacheKept DEF IInv, Adding, Alive
<1>9. ConnInv'
  <2>1. \A d \in Structs : /\ chain'[d].st = chain[d].st /\ chain'[d].slot = chain[d].slot
                           /\ chain'[d].U = chain[d].U /\ chain'[d].R = chain[d].R
    BY <1>2, <1>5
  <2> QED BY <1>4, <2>1, FlagsChange DEF IInv
<1> QED BY <1>6, <1>7, <1>8, <1>9 DEF IInv

\* A structure that no thread has is made or freed.
LEMMA UnusedChanges ==
  ASSUME Types, ThreadsInPlace, ConnInv, NEW c \in Structs, thread' = thread, stray' = stray,
         \A d \in Structs \ {c} : chain'[d] = chain[d],
         doubled' = {} => doubled = {} /\ ThreadsOf(c) = {} /\ InSlot' /\ NoFds(c)'
                          /\ (~ stray /\ NoFds(c) => owner' = owner)
  PROVE  ConnInv'
<1> SUFFICES ASSUME doubled' = {} PROVE (OneThread /\ InUse /\ InSlot)' /\ (~ stray' => (AllHold /\ UnusedHoldNone)')
  BY DEF ConnInv
<1>1. OneThread /\ InUse /\ InSlot /\ (~ stray => AllHold /\ UnusedHoldNone)
  BY DEF ConnInv
<1>2. \A t \in Threads : Alive(t) => thread[t].chain \in Structs /\ thread[t].chain # c
  BY DEF ThreadsInPlace, ThreadsOf
<1>3. OneThread' /\ InUse'
  BY <1>1, <1>2 DEF OneThread, InUse, Alive
<1>4. ASSUME ~ stray PROVE AllHold' /\ UnusedHoldNone'
  <2>1. ASSUME NEW t \in Threads, Alive(t) PROVE Holding(t)'
    <3> DEFINE d == thread[t].chain
    <3>1. Holding(t) /\ chain'[d] = chain[d] /\ owner' = owner
      BY <1>1, <1>2, <1>4, <2>1 DEF AllHold, UnusedHoldNone
    <3> QED BY <3>1 DEF Holding, NoFds
  <2>2. UnusedHoldNone'
    BY <1>1, <1>4 DEF UnusedHoldNone, NoFds, ThreadsOf, Alive
  <2> QED BY <2>1, <2>2 DEF AllHold, Alive
<1> QED BY <1>3, <1>4

LEMMA CreateInv == ASSUME IInv, NEW u \in Users, Create(u) PROVE IInv'
<1>1. PICK c \in Structs :
        /\ chain[c].st = "none"
        /\ chain' = [chain EXCEPT ![c] = [NoChain EXCEPT !.st = "used", !.slot = user[u].slot,
                                            !.addr = user[u].addr, !.enabled = user[u].enable]]
        /\ table' = [table EXCEPT ![user[u].slot] = c]
        /\ doubled' = IF table[user[u].slot] = None THEN doubled
                      ELSE doubled \cup {c, table[user[u].slot]}
  BY DEF Create
<1>2. user[u] \in Login /\ user[u].slot \in Slots /\ user[u].addr \in Addrs \cup {None} /\ user[u].enable \in BOOLEAN
  BY DEF IInv, Types, ThreadsInPlace, Create, Login
<1> DEFINE i == user[u].slot
           a == user[u].addr
           e == user[u].enable
           r == [NoChain EXCEPT !.st = "used", !.slot = i, !.addr = a, !.enabled = e]
<1>3. chain' = [chain EXCEPT ![c] = r] /\ table' = [table EXCEPT ![i] = c]
  BY <1>1
<1>4. r \in ChainStruct /\ r.st = "used" /\ r.slot = i /\ r.U = None /\ r.R = None
  <2> HIDE DEF i, a, e
  <2>1. i \in Slots /\ a \in Addrs \cup {None} /\ e \in BOOLEAN
    BY <1>2 DEF i, a, e
  <2> QED BY <2>1 DEF NoChain, ChainStruct, None
<1> HIDE DEF r
<1>5. /\ thread' = thread /\ owner' = owner /\ cache' = cache
      /\ stray' = stray /\ raced' = raced /\ sent' = sent
      /\ user' = [user EXCEPT ![u] = IF e THEN [@ EXCEPT !.do = "enable"] ELSE Idle]
  BY DEF Create
<1>6. /\ chain' \in [Structs -> ChainStruct] /\ chain'[c] = r
      /\ \A d \in Structs \ {c} : chain'[d] = chain[d]
  BY <1>3, <1>4, Changes DEF IInv
<1>7. user' \in [Users -> Login] /\ \A v \in Users : user'[v].do # "idle" => user'[v].slot \in Slots
  <2>1. CASE ~ e
    BY <1>5, <2>1, UserDone
  <2>2. CASE e
    <3> DEFINE q == [user[u] EXCEPT !.do = "enable"]
    <3>1. q \in Login /\ q.slot \in Slots
      BY <1>2 DEF Login
    <3>2. user' = [user EXCEPT ![u] = q]
      BY <1>5, <2>2
    <3> HIDE DEF q
    <3> QED BY <3>1, <3>2 DEF IInv, Types, ThreadsInPlace
  <2> QED BY <2>1, <2>2
<1>8. Types'
  <2>1. table' \in [Slots -> Structs \cup {None}]
    BY <1>2, <1>3 DEF IInv, Types
  <2>2. doubled' \subseteq Structs
    BY <1>1, <1>2 DEF IInv, Types
  <2> QED BY <1>5, <1>6, <1>7, <2>1, <2>2 DEF IInv, Types
<1>9. ThreadsInPlace'
  BY <1>5, <1>7, PlacesKept DEF IInv, Alive, Adding
<1>10. CacheInv'
  BY <1>5, CacheKept DEF IInv, Adding, Alive
<1>11. ConnInv'
  <2>1. ASSUME doubled' = {} PROVE doubled = {} /\ ThreadsOf(c) = {} /\ InSlot' /\ NoFds(c)'
    <3>1. doubled = {} /\ table[i] = None
      BY <1>1, <2>1
    <3>2. InUse /\ InSlot
      BY <3>1 DEF IInv, ConnInv
    <3>3. ThreadsOf(c) = {}
      BY <1>1, <3>2 DEF InUse, ThreadsOf
    <3>4. NoFds(c)'
      BY <1>4, <1>6 DEF NoFds
    <3>5. ASSUME NEW j \in Slots, table'[j] # None
          PROVE  chain'[table'[j]].st = "used" /\ chain'[table'[j]].slot = j
      <4>1. CASE j = i
        BY <1>2, <1>3, <1>4, <1>6, <4>1 DEF IInv, Types
      <4>2. CASE j # i
        <5>1. table'[j] = table[j] /\ table[j] \in Structs
          BY <1>3, <3>5, <4>2 DEF IInv, Types
        <5>2. chain[table[j]].st = "used" /\ chain[table[j]].slot = j
          BY <3>2, <3>5, <5>1 DEF InSlot
        <5>3. table[j] # c
          BY <1>1, <5>2
        <5> QED BY <1>6, <5>1, <5>2, <5>3
      <4> QED BY <4>1, <4>2
    <3> QED BY <3>1, <3>3, <3>4, <3>5 DEF InSlot
  <2> QED BY <1>5, <1>6, <2>1, UnusedChanges DEF IInv
<1> QED BY <1>8, <1>9, <1>10, <1>11 DEF IInv

\* A chain gets a thread where it has none, or it counts as doubled.
LEMMA EnableInv == ASSUME IInv, NEW u \in Users, Enable(u) PROVE IInv'
<1>0. PICK c \in Structs : c = Target(u)
  BY TargetIs DEF Enable
<1> DEFINE r == [chain[c] EXCEPT !.enabled = TRUE]
<1>1. doubled = {} => chain[c].st = "used"
  BY <1>0, TargetIs, SlotsAndFds DEF Enable
<1>2. r \in ChainStruct /\ r.st = chain[c].st /\ r.slot = chain[c].slot /\ r.U = chain[c].U /\ r.R = chain[c].R
  <2>1. chain[c] \in ChainStruct
    BY <1>1, ChainIs DEF IInv
  <2> QED BY <2>1 DEF ChainStruct
<1>3. chain' = [chain EXCEPT ![c] = r]
  BY <1>0 DEF Enable
<1>4. doubled' = (IF Starts(c) /\ ThreadsOf(c) # {} THEN doubled \cup {c} ELSE doubled)
  BY <1>0 DEF Enable
<1>5. \/ thread' = thread
      \/ /\ Starts(c)
         /\ \E t \in Threads : /\ thread[t].pc = "none"
                               /\ thread' = [thread EXCEPT ![t] = [NoThread EXCEPT !.pc = "start", !.chain = c]]
  BY <1>0 DEF Enable
<1> HIDE DEF r
<1>6. /\ table' = table /\ owner' = owner /\ cache' = cache
      /\ stray' = stray /\ raced' = raced /\ sent' = sent
      /\ user' = [user EXCEPT ![u] = Idle]
  BY DEF Enable
<1>7. /\ chain' \in [Structs -> ChainStruct] /\ chain'[c] = r
      /\ \A d \in Structs \ {c} : chain'[d] = chain[d]
  BY <1>1, <1>2, <1>3, Changes DEF IInv
<1>8. \A d \in Structs : /\ chain'[d].st = chain[d].st /\ chain'[d].slot = chain[d].slot
                         /\ chain'[d].U = chain[d].U /\ chain'[d].R = chain[d].R
  BY <1>2, <1>7
<1>9. doubled \subseteq doubled' /\ doubled' \subseteq Structs
  BY <1>1, <1>4 DEF IInv, Types
<1>10. CASE thread' = thread
  <2>1. Types'
    BY <1>6, <1>7, <1>9, <1>10, UserDone DEF IInv, Types
  <2>2. ThreadsInPlace'
    BY <1>6, <1>10, UserDone, PlacesKept DEF IInv, Alive, Adding
  <2>3. CacheInv'
    BY <1>6, <1>10, CacheKept DEF IInv, Adding, Alive
  <2>4. ConnInv'
    BY <1>6, <1>8, <1>9, <1>10, FlagsChange DEF IInv
  <2> QED BY <2>1, <2>2, <2>3, <2>4 DEF IInv
<1>11. ASSUME Starts(c), NEW t \in Threads, thread[t].pc = "none",
              thread' = [thread EXCEPT ![t] = [NoThread EXCEPT !.pc = "start", !.chain = c]]
       PROVE  IInv'
  <2> DEFINE q == [NoThread EXCEPT !.pc = "start", !.chain = c]
  <2>1. thread' = [thread EXCEPT ![t] = q]
    BY <1>11
  <2>2. q \in ChainThread /\ q.pc = "start" /\ q.chain = c
    BY <1>1, NewThread
  <2> HIDE DEF q
  <2>3. /\ thread' \in [Threads -> ChainThread] /\ thread'[t] = q
        /\ \A s \in Threads \ {t} : thread'[s] = thread[s]
    BY <2>1, <2>2, Moves DEF IInv
  <2>4. Types'
    BY <1>6, <1>7, <1>9, <2>3, UserDone DEF IInv, Types
  <2>5. \A s \in Adding' : s \in Adding /\ thread'[s] = thread[s]
    BY <2>2, <2>3 DEF Adding, Alive
  <2>6. ThreadsInPlace'
    <3>1. \A s \in Threads : Alive(s)' => thread'[s].chain \in Structs
      BY <1>1, <2>2, <2>3 DEF IInv, ThreadsInPlace, Alive
    <3>2. \A s \in Adding' : thread'[s].origin \in Origins /\ (thread'[s].tail = Lost \/ thread'[s].tail \in 0..Len(cache'))
      BY <1>6, <2>5 DEF IInv, ThreadsInPlace
    <3> QED BY <1>6, <3>1, <3>2, UserDone DEF ThreadsInPlace
  <2>7. CacheInv'
    BY <1>6, <2>5, CacheKept DEF IInv
  <2>8. ConnInv'
    <3> SUFFICES ASSUME doubled' = {} PROVE (OneThread /\ InUse /\ InSlot)' /\ (~ stray' => (AllHold /\ UnusedHoldNone)')
      BY DEF ConnInv
    <3>1. doubled = {} /\ ThreadsOf(c) = {} /\ chain[c].st = "used"
      BY <1>1, <1>4, <1>11
    <3>2. OneThread /\ InUse /\ InSlot /\ (~ stray => AllHold /\ UnusedHoldNone)
      BY <3>1 DEF IInv, ConnInv
    <3>3. \A s \in Threads : Alive(s)' => \/ s = t /\ thread'[s].chain = c
                                         \/ /\ s # t /\ Alive(s) /\ thread'[s] = thread[s]
                                            /\ thread[s].chain \in Structs \ {c}
      BY <2>2, <2>3, <3>1 DEF Alive, ThreadsOf, IInv, ThreadsInPlace
    <3>4. OneThread'
      BY <3>2, <3>3 DEF OneThread
    <3>5. InUse'
      BY <1>1, <1>8, <3>1, <3>2, <3>3 DEF InUse
    <3>6. InSlot'
      BY <1>6, <1>8, <3>2 DEF InSlot, IInv, Types
    <3>7. ASSUME ~ stray PROVE AllHold' /\ UnusedHoldNone'
      <4>1. ASSUME NEW s \in Threads, Alive(s)' PROVE Holding(s)'
        <5>1. CASE s = t
          <6>1. NoFds(c)'
            BY <1>1, <1>8, <3>1, <3>2, <3>7 DEF UnusedHoldNone, NoFds
          <6> QED BY <2>2, <2>3, <5>1, <6>1 DEF Holding, Connected
        <5>2. CASE s # t
          <6>1. Holding(s) /\ thread'[s] = thread[s] /\ thread[s].chain \in Structs
            BY <3>2, <3>3, <3>7, <4>1, <5>2 DEF AllHold
          <6> QED BY <1>6, <1>8, <6>1 DEF Holding, NoFds
        <5> QED BY <5>1, <5>2
      <4>2. ASSUME NEW d \in Structs, ThreadsOf(d)' = {} PROVE NoFds(d)'
        <5>1. ThreadsOf(d) = {}
          <6> SUFFICES ASSUME NEW s \in Threads, Alive(s), thread[s].chain = d PROVE FALSE
            BY DEF ThreadsOf
          <6>1. s # t
            BY <1>11 DEF Alive
          <6>2. Alive(s)' /\ thread'[s].chain = d
            BY <2>3, <6>1 DEF Alive
          <6> QED BY <4>2, <6>2 DEF ThreadsOf
        <5> QED BY <1>8, <3>2, <3>7, <5>1 DEF UnusedHoldNone, NoFds
      <4> QED BY <4>1, <4>2 DEF AllHold, UnusedHoldNone
    <3> QED BY <1>6, <3>4, <3>5, <3>6, <3>7
  <2> QED BY <2>4, <2>6, <2>7, <2>8 DEF IInv
<1> QED BY <1>5, <1>10, <1>11

\* The memory of a chain that does not run is freed.
LEMMA DestroyedIs ==
  ASSUME NEW c
  PROVE  /\ Destroyed(c) \in ChainStruct /\ Destroyed(c).st = "freed"
         /\ Destroyed(c).U = None /\ Destroyed(c).R = None
BY DEF Destroyed, NoChain, ChainStruct, None

LEMMA SlotEmptied ==
  ASSUME Types, InSlot, NEW c \in Structs, chain[c].st = "used",
         table' = [table EXCEPT ![chain[c].slot] = None],
         \A d \in Structs \ {c} : chain'[d] = chain[d]
  PROVE  InSlot'
<1> SUFFICES ASSUME NEW i \in Slots, table'[i] # None
             PROVE  chain'[table'[i]].st = "used" /\ chain'[table'[i]].slot = i
  BY DEF InSlot
<1>1. table'[i] = table[i] /\ i # chain[c].slot /\ table[i] \in Structs
  BY DEF Types
<1>2. chain[table[i]].st = "used" /\ chain[table[i]].slot = i
  BY <1>1 DEF InSlot
<1> QED BY <1>1, <1>2

LEMMA DeleteInv == ASSUME IInv, NEW u \in Users, Delete(u) PROVE IInv'
<1>0. PICK c \in Structs : c = Target(u)
  BY TargetIs DEF Delete
<1>1. doubled = {} => chain[c].st = "used"
  BY <1>0, TargetIs, SlotsAndFds DEF Delete
<1>2. /\ thread' = thread /\ cache' = cache /\ stray' = stray /\ raced' = raced /\ sent' = sent
      /\ user' = [user EXCEPT ![u] = Idle]
  BY DEF Delete
<1>3. CASE chain[c].running
  <2> DEFINE r == [chain[c] EXCEPT !.enabled = FALSE, !.delete = TRUE]
  <2>1. chain' = [chain EXCEPT ![c].enabled = FALSE, ![c].delete = TRUE]
        /\ table' = table /\ owner' = owner /\ doubled' = doubled
    BY <1>0, <1>3 DEF Delete
  <2>2. chain[c] \in ChainStruct
    BY <1>1, ChainIs DEF IInv
  <2>3. r \in ChainStruct /\ r.st = chain[c].st /\ r.slot = chain[c].slot /\ r.U = chain[c].U /\ r.R = chain[c].R
    BY <2>2 DEF ChainStruct
  <2>4. chain' = [chain EXCEPT ![c] = r]
    BY <1>1, <2>1 DEF IInv, Types
  <2> HIDE DEF r
  <2>5. /\ chain' \in [Structs -> ChainStruct] /\ chain'[c] = r
        /\ \A d \in Structs \ {c} : chain'[d] = chain[d]
    BY <1>1, <2>3, <2>4, Changes DEF IInv
  <2>6. Types'
    BY <1>2, <2>1, <2>5, UserDone DEF IInv, Types
  <2>7. ThreadsInPlace'
    BY <1>2, UserDone, PlacesKept DEF IInv, Alive, Adding
  <2>8. CacheInv'
    BY <1>2, CacheKept DEF IInv, Adding, Alive
  <2>9. \A d \in Structs : /\ chain'[d].st = chain[d].st /\ chain'[d].slot = chain[d].slot
                           /\ chain'[d].U = chain[d].U /\ chain'[d].R = chain[d].R
    BY <2>3, <2>5
  <2>10. ConnInv'
    BY <1>2, <2>1, <2>9, FlagsChange DEF IInv
  <2> QED BY <2>6, <2>7, <2>8, <2>10 DEF IInv
<1>4. CASE ~ chain[c].running
  <2> DEFINE F == {chain[c].U, chain[c].R}
  <2>1. /\ chain' = [chain EXCEPT ![c] = Destroyed(c)]
        /\ table' = [table EXCEPT ![chain[c].slot] = None]
        /\ owner' = Closed(F)
        /\ doubled' = IF ThreadsOf(c) # {} THEN doubled \cup {c} ELSE doubled
    BY <1>0, <1>4 DEF Delete
  <2> HIDE DEF F
  <2>2. /\ chain' \in [Structs -> ChainStruct] /\ chain'[c] = Destroyed(c)
        /\ \A d \in Structs \ {c} : chain'[d] = chain[d]
    BY <1>1, <2>1, DestroyedIs, Changes DEF IInv
  <2>3. Types'
    <3>1. table' \in [Slots -> Structs \cup {None}]
      BY <2>1 DEF IInv, Types
    <3>2. doubled' \subseteq Structs
      BY <1>1, <2>1 DEF IInv, Types
    <3> QED BY <1>2, <2>1, <2>2, <3>1, <3>2, ClosedTypes, UserDone DEF IInv, Types
  <2>4. ThreadsInPlace'
    BY <1>2, UserDone, PlacesKept DEF IInv, Alive, Adding
  <2>5. CacheInv'
    BY <1>2, CacheKept DEF IInv, Adding, Alive
  <2>6. ASSUME doubled' = {}
        PROVE  doubled = {} /\ ThreadsOf(c) = {} /\ InSlot' /\ NoFds(c)' /\ (~ stray /\ NoFds(c) => owner' = owner)
    <3>1. doubled = {} /\ ThreadsOf(c) = {}
      BY <2>1, <2>6
    <3>2. InSlot'
      BY <1>1, <2>1, <2>2, <3>1, SlotEmptied DEF IInv, ConnInv
    <3>3. NoFds(c)'
      BY <2>2, DestroyedIs DEF NoFds
    <3>4. ASSUME NoFds(c) PROVE owner' = owner
      <4>1. \A fd \in Fds : fd \notin F
        BY <3>4, SlotsAndFds DEF NoFds, None, F
      <4> QED BY <2>1, <4>1, ClosedTypes DEF IInv, Types
    <3> QED BY <3>1, <3>2, <3>3, <3>4
  <2>7. ConnInv'
    BY <1>1, <1>2, <2>2, <2>6, UnusedChanges DEF IInv
  <2> QED BY <2>3, <2>4, <2>5, <2>7 DEF IInv
<1> QED BY <1>3, <1>4

-----------------------------------------------------------------------------
LEMMA HasChain ==
  ASSUME IInv, NEW t \in Threads, Alive(t)
  PROVE  thread[t].chain \in Structs
BY DEF IInv, ThreadsInPlace

\* A thread ends.
LEMMA ThreadEnds ==
  ASSUME Types, ThreadsInPlace, ConnInv, NEW t \in Threads, Alive(t), NEW c \in Structs, c = thread[t].chain,
         thread'[t].pc = "none", \A s \in Threads \ {t} : thread'[s] = thread[s],
         \A d \in Structs \ {c} : chain'[d] = chain[d],
         stray' = stray, doubled' = doubled, doubled = {} => InSlot',
         doubled = {} /\ ~ stray /\ Holding(t) =>
           NoFds(c)' /\ \A fd \in Fds : owner[fd] \notin {None, c} => owner'[fd] = owner[fd]
  PROVE  ConnInv'
<1> SUFFICES ASSUME doubled = {} PROVE (OneThread /\ InUse /\ InSlot)' /\ (~ stray' => (AllHold /\ UnusedHoldNone)')
  BY DEF ConnInv
<1>1. OneThread /\ InUse /\ InSlot /\ (~ stray => AllHold /\ UnusedHoldNone)
  BY DEF ConnInv
<1>2. \A s \in Threads : Alive(s)' => /\ s # t /\ Alive(s) /\ thread'[s] = thread[s]
                                    /\ thread[s].chain \in Structs \ {c}
  BY <1>1 DEF ThreadsInPlace, Alive, OneThread
<1>3. OneThread' /\ InUse'
  BY <1>1, <1>2 DEF OneThread, InUse
<1>4. ASSUME ~ stray PROVE AllHold' /\ UnusedHoldNone'
  <2>1. Holding(t)
    BY <1>1, <1>4 DEF AllHold
  <2>2. ASSUME NEW s \in Threads, Alive(s)' PROVE Holding(s)'
    <3>1. Holding(s) /\ thread'[s] = thread[s] /\ thread[s].chain \in Structs \ {c}
      BY <1>1, <1>2, <1>4, <2>2 DEF AllHold
    <3>2. thread[s].chain # None
      BY <3>1, SlotsAndFds DEF None
    <3>3. \A fd \in Fds : owner[fd] = thread[s].chain => owner'[fd] = owner[fd]
      BY <1>4, <2>1, <3>1, <3>2
    <3>4. chain'[thread[s].chain] = chain[thread[s].chain]
      BY <3>1
    <3> QED BY <3>1, <3>3, <3>4 DEF Holding, NoFds
  <2>3. ASSUME NEW d \in Structs, ThreadsOf(d)' = {} PROVE NoFds(d)'
    <3>1. CASE d = c
      BY <1>4, <2>1, <3>1
    <3>2. CASE d # c
      <4>1. ThreadsOf(d) = {}
        <5> SUFFICES ASSUME NEW s \in Threads, Alive(s), thread[s].chain = d PROVE FALSE
          BY DEF ThreadsOf
        <5>1. thread'[s] = thread[s]
          BY <3>2
        <5> QED BY <2>3, <5>1 DEF ThreadsOf, Alive
      <4> QED BY <1>1, <1>4, <3>2, <4>1 DEF UnusedHoldNone, NoFds
    <3> QED BY <3>1, <3>2
  <2> QED BY <2>2, <2>3 DEF AllHold, UnusedHoldNone
<1> QED BY <1>3, <1>4

\* A thread that does not set about adding to the cache.
LEMMA ElsewhereKept ==
  ASSUME IInv, NEW t \in Threads, thread'[t].pc # "add",
         thread'[t].pc = "none" \/ (Alive(t) /\ thread'[t].chain = thread[t].chain),
         \A s \in Threads \ {t} : thread'[s] = thread[s],
         cache' = cache, raced' = raced, sent' = sent, user' = user
  PROVE  ThreadsInPlace' /\ CacheInv'
<1>1. \A s \in Adding' : s \in Adding /\ thread'[s].origin = thread[s].origin /\ thread'[s].tail = thread[s].tail
  BY DEF Adding, Alive
<1>2. \A s \in Threads : Alive(s)' => Alive(s) /\ thread'[s].chain = thread[s].chain
  BY DEF Alive
<1>3. \A v \in Users : user'[v].do # "idle" => user'[v].slot \in Slots
  BY DEF IInv, ThreadsInPlace
<1> QED BY <1>1, <1>2, <1>3, CacheKept, PlacesKept DEF IInv

\* The main loop is left, or entered.
LEMMA StartInv == ASSUME IInv, NEW t \in Threads, Start(t) PROVE IInv'
<1>1. Alive(t) /\ thread[t].pc = "start"
  BY DEF Start, At, Alive
<1>2. PICK c \in Structs : c = thread[t].chain
  BY <1>1, HasChain
<1>3. PICK b \in BOOLEAN : chain' = [chain EXCEPT ![c].running = b] /\ (Goto(t, "loop") \/ Exit(t))
  <2>1. \/ chain' = [chain EXCEPT ![c].running = TRUE] /\ Goto(t, "loop")
        \/ chain' = [chain EXCEPT ![c].running = FALSE] /\ Exit(t)
    BY <1>2 DEF Start
  <2>2. CASE chain' = [chain EXCEPT ![c].running = TRUE] /\ Goto(t, "loop")
    BY <2>2
  <2>3. CASE chain' = [chain EXCEPT ![c].running = FALSE] /\ Exit(t)
    BY <2>3
  <2> QED BY <2>1, <2>2, <2>3
<1> DEFINE r == [chain[c] EXCEPT !.running = b]
<1>4. r \in ChainStruct /\ r.st = chain[c].st /\ r.slot = chain[c].slot /\ r.U = chain[c].U /\ r.R = chain[c].R
  BY ChainIs DEF IInv, ChainStruct
<1>5. chain' = [chain EXCEPT ![c] = r]
  BY <1>3
<1> HIDE DEF r
<1>6. /\ chain' \in [Structs -> ChainStruct] /\ chain'[c] = r
      /\ \A d \in Structs \ {c} : chain'[d] = chain[d]
  BY <1>4, <1>5, Changes DEF IInv
<1>7. \A d \in Structs : /\ chain'[d].st = chain[d].st /\ chain'[d].slot = chain[d].slot
                         /\ chain'[d].U = chain[d].U /\ chain'[d].R = chain[d].R
  BY <1>4, <1>6
<1>8. /\ table' = table /\ owner' = owner /\ cache' = cache /\ user' = user
      /\ doubled' = doubled /\ stray' = stray /\ raced' = raced /\ sent' = sent
  BY DEF Start
<1>9. CASE Goto(t, "loop")
  <2>1. /\ thread' \in [Threads -> ChainThread] /\ thread'[t].pc = "loop" /\ thread'[t].chain = thread[t].chain
        /\ thread'[t].failed = thread[t].failed /\ \A s \in Threads \ {t} : thread'[s] = thread[s]
    BY <1>9, Goes DEF IInv
  <2>2. Types'
    BY <1>6, <1>8, <2>1 DEF IInv, Types
  <2>3. ThreadsInPlace' /\ CacheInv'
    BY <1>1, <1>8, <2>1, ElsewhereKept
  <2>4. Alive(t)'
    BY <2>1 DEF Alive
  <2>5. Holding(t) => Holding(t)'
    BY <1>1, <1>2, <1>7, <2>1 DEF Holding, NoFds, Connected
  <2>6. ConnInv'
    BY <1>1, <1>7, <1>8, <2>1, <2>4, <2>5, ThreadGoesOn DEF IInv
  <2> QED BY <2>2, <2>3, <2>6 DEF IInv
<1>10. CASE Exit(t)
  <2>1. /\ thread' \in [Threads -> ChainThread] /\ thread'[t].pc = "none"
        /\ \A s \in Threads \ {t} : thread'[s] = thread[s]
    BY <1>10, Exits DEF IInv
  <2>2. Types'
    BY <1>6, <1>8, <2>1 DEF IInv, Types
  <2>3. ThreadsInPlace' /\ CacheInv'
    BY <1>8, <2>1, ElsewhereKept
  <2>4. Holding(t) => NoFds(c)'
    BY <1>1, <1>2, <1>7 DEF Holding, NoFds, Connected
  <2>5. doubled = {} => InSlot'
    BY <1>7, <1>8 DEF InSlot, IInv, ConnInv, Types
  <2>6. ConnInv'
    BY <1>1, <1>2, <1>6, <1>8, <2>1, <2>4, <2>5, ThreadEnds DEF IInv
  <2> QED BY <2>2, <2>3, <2>6 DEF IInv
<1> QED BY <1>3, <1>9, <1>10

LEMMA LoopInv == ASSUME IInv, NEW t \in Threads, Loop(t) PROVE IInv'
<1>1. Alive(t) /\ thread[t].pc = "loop" /\ Goto(t, "leave")
  BY DEF Loop, At, Alive
<1>2. /\ table' = table /\ chain' = chain /\ owner' = owner /\ cache' = cache /\ user' = user
      /\ doubled' = doubled /\ stray' = stray /\ raced' = raced /\ sent' = sent
  BY DEF Loop, histories
<1>3. /\ thread' \in [Threads -> ChainThread] /\ thread'[t].pc = "leave" /\ thread'[t].chain = thread[t].chain
      /\ thread'[t].failed = thread[t].failed /\ \A s \in Threads \ {t} : thread'[s] = thread[s]
  BY <1>1, Goes DEF IInv, Ending, Closing
<1>4. Types'
  BY <1>2, <1>3 DEF IInv, Types
<1>5. ThreadsInPlace' /\ CacheInv'
  BY <1>1, <1>2, <1>3, ElsewhereKept
<1>6. Alive(t)' /\ (Holding(t) => Holding(t)')
  BY <1>1, <1>2, <1>3 DEF Alive, Holding, NoFds, Connected
<1>7. ConnInv'
  BY <1>1, <1>2, <1>3, <1>6, ThreadGoesOn DEF IInv
<1> QED BY <1>4, <1>5, <1>7 DEF IInv

\* A connection is made, or an attempt fails: its number is nobody's.
LEMMA TriesInv ==
  ASSUME IInv, NEW t \in Threads, NEW which \in {"U", "R"}, NEW ok \in BOOLEAN,
         Tries(t, which), After(t, which, ok), NEW fd \in Fds, owner[fd] = None,
         owner' = IF ok THEN [owner EXCEPT ![fd] = thread[t].chain] ELSE owner,
         Holds(t, which, fd),
         table' = table, cache' = cache, user' = user,
         doubled' = doubled, stray' = stray, raced' = raced, sent' = sent
  PROVE  IInv'
<1>1. Alive(t) /\ thread[t].pc = (IF which = "U" THEN "loop" ELSE "R")
  BY DEF Tries, At, Alive
<1>2. PICK c \in Structs : c = thread[t].chain
  BY <1>1, HasChain
<1>3. /\ chain' \in [Structs -> ChainStruct]
      /\ \A d \in Structs : chain'[d].st = chain[d].st /\ chain'[d].slot = chain[d].slot
      /\ \A d \in Structs \ {c} : chain'[d] = chain[d]
      /\ ok /\ which = "U" => chain'[c].U = fd
      /\ ok /\ which = "R" => chain'[c].R = fd /\ chain'[c].U = chain[c].U
  <2>1. CASE which = "U"
    <3> DEFINE r == [chain[c] EXCEPT !.U = fd]
    <3>1. r \in ChainStruct /\ r.st = chain[c].st /\ r.slot = chain[c].slot /\ r.U = fd
      BY ChainIs DEF IInv, ChainStruct
    <3>2. chain' = [chain EXCEPT ![c] = r]
      BY <1>2, <2>1 DEF Holds
    <3> HIDE DEF r
    <3> QED BY <2>1, <3>1, <3>2, Changes DEF IInv
  <2>2. CASE which = "R"
    <3> DEFINE r == [chain[c] EXCEPT !.R = fd]
    <3>1. r \in ChainStruct /\ r.st = chain[c].st /\ r.slot = chain[c].slot /\ r.R = fd /\ r.U = chain[c].U
      BY ChainIs DEF IInv, ChainStruct
    <3>2. chain' = [chain EXCEPT ![c] = r]
      BY <1>2, <2>2 DEF Holds
    <3> HIDE DEF r
    <3> QED BY <2>2, <3>1, <3>2, Changes DEF IInv
  <2> QED BY <2>1, <2>2
<1> DEFINE pc == IF ~ ok THEN "loop" ELSE IF which = "U" THEN "R" ELSE "manage"
<1>12. thread' = [thread EXCEPT ![t].pc = pc, ![t].failed = ~ ok]
  BY DEF After
<1>4. /\ pc \in {"loop", "R", "manage"} /\ (~ ok => pc = "loop")
      /\ (ok /\ which = "U" => pc = "R") /\ (ok /\ which = "R" => pc = "manage")
  <2>1. CASE ~ ok
    BY <2>1
  <2>2. CASE ok
    BY <2>2
  <2> QED BY <2>1, <2>2
<1> HIDE DEF pc
<1>5. /\ thread' \in [Threads -> ChainThread]
      /\ thread'[t].pc = pc /\ thread'[t].chain = c /\ (thread'[t].failed <=> ~ ok)
      /\ \A s \in Threads \ {t} : thread'[s] = thread[s]
  <2> DEFINE e == ~ ok
             r == [thread[t] EXCEPT !.pc = pc, !.failed = e]
  <2>1. e \in BOOLEAN
    OBVIOUS
  <2>2. thread' = [thread EXCEPT ![t] = r]
    BY <1>12
  <2> HIDE DEF e
  <2>3. r \in ChainThread /\ r.pc = pc /\ r.chain = thread[t].chain /\ r.failed = e
    BY <1>4, <2>1 DEF IInv, Types, ChainThread, Connected
  <2> HIDE DEF r
  <2>4. /\ thread' \in [Threads -> ChainThread] /\ thread'[t] = r
        /\ \A s \in Threads \ {t} : thread'[s] = thread[s]
    BY <2>2, <2>3, Moves DEF IInv
  <2> QED BY <1>2, <2>3, <2>4 DEF e
<1>6. owner' \in [Fds -> Structs \cup {None}] /\ \A f \in Fds : owner[f] # None => owner'[f] = owner[f]
  BY <1>2 DEF IInv, Types
<1>7. Types'
  BY <1>3, <1>5, <1>6 DEF IInv, Types
<1>8. ThreadsInPlace' /\ CacheInv'
  BY <1>1, <1>2, <1>4, <1>5, ElsewhereKept
<1>9. Holding(t) => Holding(t)'
  <2> SUFFICES ASSUME Holding(t) PROVE Holding(t)'
    OBVIOUS
  <2>1. CASE ~ ok
    <3>1. thread'[t].pc = "loop" /\ thread'[t].failed
      BY <1>4, <1>5, <2>1
    <3> QED BY <3>1 DEF Holding, Connected
  <2>2. CASE ok /\ which = "U"
    <3>1. pc = "R" /\ chain'[c].U = fd /\ owner'[fd] = c
      BY <1>2, <1>3, <1>4, <2>2 DEF IInv, Types
    <3>2. thread'[t].pc = "R" /\ thread'[t].chain = c
      BY <1>5, <3>1
    <3> QED BY <3>1, <3>2 DEF Holding, Connected
  <2>3. CASE ok /\ which = "R"
    <3>1. chain[c].U \in Fds /\ owner[chain[c].U] = c
      BY <1>1, <1>2, <2>3 DEF Holding
    <3>2. c # None
      BY SlotsAndFds DEF None
    <3>3. chain[c].U # fd /\ owner'[chain[c].U] = c /\ owner'[fd] = c
      BY <1>2, <1>6, <2>3, <3>1, <3>2 DEF IInv, Types
    <3>4. pc = "manage" /\ chain'[c].U = chain[c].U /\ chain'[c].R = fd
      BY <1>3, <1>4, <2>3
    <3>5. thread'[t].pc = "manage" /\ thread'[t].chain = c
      BY <1>5, <3>4
    <3> QED BY <3>1, <3>3, <3>4, <3>5 DEF Holding, Connected
  <2> QED BY <2>1, <2>2, <2>3
<1>10. Alive(t)' /\ \A s \in Threads \ {t} : /\ thread'[s].pc = thread[s].pc /\ thread'[s].chain = thread[s].chain
                                            /\ thread'[s].failed = thread[s].failed
  BY <1>5, <1>4 DEF Alive
<1>11. ConnInv'
  BY <1>1, <1>2, <1>3, <1>5, <1>6, <1>9, <1>10, ThreadGoesOn DEF IInv
<1> QED BY <1>7, <1>8, <1>11 DEF IInv

\* There is always a descriptor.
LEMMA ConnectsInv == ASSUME IInv, NEW t \in Threads, Connects(t) PROVE IInv'
<1>1. PICK which \in {"U", "R"} : Connect(t, which) \/ ConnectFails(t, which)
  BY DEF Connects
<1>2. CASE Connect(t, which)
  <2>1. PICK fd \in NewFds : Holds(t, which, fd) /\ owner' = [owner EXCEPT ![fd] = thread[t].chain]
    BY <1>2 DEF Connect
  <2>2. fd \in Fds /\ owner[fd] = None
    BY <2>1 DEF NewFds
  <2>3. /\ Tries(t, which) /\ After(t, which, TRUE) /\ table' = table /\ cache' = cache /\ user' = user
        /\ doubled' = doubled /\ stray' = stray /\ raced' = raced /\ sent' = sent
    BY <1>2 DEF Connect, histories
  <2> QED BY <2>1, <2>2, <2>3, TriesInv
<1>3. CASE ConnectFails(t, which)
  <2>1. /\ Tries(t, which) /\ After(t, which, FALSE) /\ table' = table /\ cache' = cache /\ user' = user
        /\ doubled' = doubled /\ stray' = stray /\ raced' = raced /\ sent' = sent /\ owner' = owner
    BY <1>3 DEF ConnectFails
  <2>2. CASE chain' # chain
    <3>1. PICK fd \in NewFds : Holds(t, which, fd)
      BY <1>3, <2>2 DEF ConnectFails
    <3>2. fd \in Fds /\ owner[fd] = None
      BY <3>1 DEF NewFds
    <3> QED BY <2>1, <3>1, <3>2, TriesInv
  <2>3. CASE chain' = chain
    <3>1. Alive(t) /\ thread[t].chain \in Structs
      BY <2>1, HasChain DEF Tries, At, Alive
    <3> DEFINE r == [thread[t] EXCEPT !.pc = "loop", !.failed = TRUE]
    <3>2. r \in ChainThread /\ r.pc = "loop" /\ r.chain = thread[t].chain /\ r.failed = TRUE
      BY DEF IInv, Types, ChainThread
    <3>10. (~ FALSE) = TRUE
      OBVIOUS
    <3>3. thread' = [thread EXCEPT ![t] = r]
      BY <2>1, <3>10 DEF After
    <3> HIDE DEF r
    <3>4. /\ thread' \in [Threads -> ChainThread] /\ thread'[t] = r
          /\ \A s \in Threads \ {t} : thread'[s] = thread[s]
      BY <3>2, <3>3, Moves DEF IInv
    <3>5. Types'
      BY <2>1, <2>3, <3>4 DEF IInv, Types
    <3>6. ThreadsInPlace' /\ CacheInv'
      BY <2>1, <3>1, <3>2, <3>4, ElsewhereKept
    <3>7. Alive(t)' /\ Holding(t)'
      BY <3>2, <3>4 DEF Alive, Holding, Connected
    <3>8. ConnInv'
      BY <2>1, <2>3, <3>1, <3>2, <3>4, <3>7, ThreadGoesOn DEF IInv
    <3> QED BY <3>5, <3>6, <3>8 DEF IInv
  <2> QED BY <2>2, <2>3
<1> QED BY <1>1, <1>2, <1>3

\* The sockets of a connection are closed and forgotten.
LEMMA CloseSocketsInv == ASSUME IInv, NEW t \in Threads, CloseSockets(t) PROVE IInv'
<1>1. Alive(t) /\ thread[t].pc = "manage" /\ Goto(t, "loop")
  BY DEF CloseSockets, At, Alive
<1>2. PICK c \in Structs : c = thread[t].chain
  BY <1>1, HasChain
<1> DEFINE r == [chain[c] EXCEPT !.U = None, !.R = None]
           F == {chain[c].U, chain[c].R}
<1>3. chain' = [chain EXCEPT ![c] = r] /\ owner' = Closed(F)
  BY <1>2 DEF CloseSockets, Forgotten, Of, IInv, Types
<1>4. /\ r \in ChainStruct /\ r.st = chain[c].st /\ r.slot = chain[c].slot
      /\ r.U = None /\ r.R = None
  BY ChainIs DEF IInv, ChainStruct
<1> HIDE DEF r, F
<1>5. /\ chain' \in [Structs -> ChainStruct] /\ chain'[c] = r
      /\ \A d \in Structs \ {c} : chain'[d] = chain[d]
  BY <1>3, <1>4, Changes DEF IInv
<1>6. /\ table' = table /\ cache' = cache /\ user' = user
      /\ doubled' = doubled /\ stray' = stray /\ raced' = raced /\ sent' = sent
  BY DEF CloseSockets
<1>7. /\ thread' \in [Threads -> ChainThread] /\ thread'[t].pc = "loop" /\ thread'[t].chain = c
      /\ \A s \in Threads \ {t} : thread'[s] = thread[s]
  BY <1>1, <1>2, Goes DEF IInv
<1>8. Types'
  BY <1>3, <1>5, <1>6, <1>7, ClosedTypes DEF IInv, Types
<1>9. ThreadsInPlace' /\ CacheInv'
  BY <1>1, <1>2, <1>6, <1>7, ElsewhereKept
<1>10. Alive(t)' /\ Holding(t)'
  <2>1. NoFds(c)'
    BY <1>4, <1>5 DEF NoFds
  <2> QED BY <1>7, <2>1 DEF Alive, Holding, Connected
<1>11. ASSUME Holding(t), NEW fd \in Fds, owner[fd] \notin {None, c} PROVE owner'[fd] = owner[fd]
  <2>1. owner[chain[c].U] = c /\ owner[chain[c].R] = c
    BY <1>1, <1>2, <1>11 DEF Holding, Connected
  <2>2. fd \notin F
    BY <1>11, <2>1 DEF F
  <2> QED BY <1>3, <2>2, ClosedTypes DEF IInv
<1>12. ConnInv'
  BY <1>1, <1>2, <1>4, <1>5, <1>6, <1>7, <1>10, <1>11, ThreadGoesOn DEF IInv
<1> QED BY <1>8, <1>9, <1>12 DEF IInv

-----------------------------------------------------------------------------
\* Messages of an origin that is in the cache.
LEMMA KnownInv ==
  ASSUME IInv, NEW t \in Threads, NEW o \in Origins, Known(t, o)
  PROVE  IInv'
<1>1. Alive(t) /\ thread[t].pc = "manage" /\ Entry(o) # 0
  BY DEF Known, At, Alive
<1>2. PICK c \in Structs : c = thread[t].chain
  BY <1>1, HasChain
<1>3. /\ table' = table /\ chain' = chain /\ thread' = thread /\ owner' = owner /\ cache' = cache
      /\ user' = user /\ doubled' = doubled /\ stray' = stray /\ raced' = raced
  BY DEF Known
<1>4. \/ sent' = sent
      \/ sent' = [sent EXCEPT ![o] = @ \cup {chain[c].slot}] /\ cache[Entry(o)].owner = chain[c].slot
  BY <1>2 DEF Known, Owns, Sent, Of
<1>5. sent' \in [Origins -> SUBSET (Slots \cup {None})]
  BY <1>4, ChainIs DEF IInv, Types
<1>6. Types'
  BY <1>3, <1>5 DEF IInv, Types
<1>7. ThreadsInPlace'
  BY <1>3 DEF IInv, ThreadsInPlace, Alive, Adding
<1>8. CacheInv'
  <2> SUFFICES ASSUME NEW p \in Origins \ raced
               PROVE  OneEntry(p)' /\ Behindhand(p)' /\ AddsAlone(p)'
    BY <1>3 DEF CacheInv
  <2>1. OneEntry(p) /\ Behindhand(p) /\ AddsAlone(p)
    BY DEF IInv, CacheInv
  <2>2. Behindhand(p)' /\ AddsAlone(p)'
    BY <1>3, <2>1 DEF Behindhand, AddsAlone, Adding, Alive
  <2>3. CASE p # o \/ sent' = sent
    <3>1. sent'[p] = sent[p]
      BY <1>4, <2>3 DEF IInv, Types
    <3> QED BY <1>3, <2>1, <2>2, <3>1 DEF OneEntry
  <2>4. CASE p = o /\ sent' # sent
    <3>1. Entry(o) \in DOMAIN cache /\ cache[Entry(o)].origin = o
      BY <1>1, EntryIs DEF IInv
    <3>2. sent'[p] = sent[p] \cup {cache[Entry(o)].owner}
      BY <1>4, <2>4 DEF IInv, Types
    <3> QED BY <1>3, <2>1, <2>2, <2>4, <3>1, <3>2 DEF OneEntry
  <2> QED BY <2>3, <2>4
<1>9. ConnInv'
  BY <1>3, FlagsChange DEF IInv
<1> QED BY <1>6, <1>7, <1>8, <1>9 DEF IInv

\* A thread sets about adding an origin: others that do so race with it.
LEMMA UnknownInv ==
  ASSUME IInv, NEW t \in Threads, NEW o \in Origins, Unknown(t, o)
  PROVE  IInv'
<1>1. Alive(t) /\ thread[t].pc = "manage" /\ Entry(o) = 0 /\ t \notin Adding
  BY DEF Unknown, At, Alive, Adding
<1>2. PICK c \in Structs : c = thread[t].chain
  BY <1>1, HasChain
<1>3. /\ table' = table /\ chain' = chain /\ owner' = owner /\ cache' = cache
      /\ user' = user /\ doubled' = doubled /\ stray' = stray /\ sent' = sent
      /\ raced' = IF Adding = {} THEN raced ELSE raced \cup {o} \cup {thread[s].origin : s \in Adding}
      /\ thread' = [thread EXCEPT ![t].pc = "add", ![t].origin = o, ![t].tail = Len(cache)]
  BY DEF Unknown
<1> DEFINE r == [thread[t] EXCEPT !.pc = "add", !.origin = o, !.tail = Len(cache)]
<1>4. Len(cache) \in Nat
  BY DEF IInv, Types
<1>5. /\ r \in ChainThread /\ r.pc = "add" /\ r.chain = c /\ r.origin = o /\ r.tail = Len(cache)
      /\ r.failed = thread[t].failed
  <2> DEFINE n == Len(cache)
  <2>1. n \in Int /\ thread[t] \in ChainThread
    BY <1>4 DEF IInv, Types
  <2> HIDE DEF n
  <2>2. [thread[t] EXCEPT !.pc = "add", !.origin = o, !.tail = n] \in ChainThread
    BY <2>1 DEF ChainThread, Connected
  <2>3. r = [thread[t] EXCEPT !.pc = "add", !.origin = o, !.tail = n]
    BY DEF n
  <2> HIDE DEF r
  <2> QED BY <1>2, <2>1, <2>2, <2>3 DEF ChainThread, n
<1>6. thread' = [thread EXCEPT ![t] = r]
  BY <1>3
<1> HIDE DEF r
<1>7. /\ thread' \in [Threads -> ChainThread] /\ thread'[t] = r
      /\ \A s \in Threads \ {t} : thread'[s] = thread[s]
  BY <1>5, <1>6, Moves DEF IInv
<1>8. Adding' = Adding \cup {t}
  BY <1>5, <1>7 DEF Adding, Alive
<1>9. raced \subseteq raced' /\ raced' \subseteq Origins
  <2>1. \A s \in Adding : thread[s].origin \in Origins
    BY DEF IInv, ThreadsInPlace
  <2> QED BY <1>3, <2>1 DEF IInv, Types
<1>10. Types'
  BY <1>3, <1>7, <1>9 DEF IInv, Types
<1>11. ThreadsInPlace'
  <2>1. \A s \in Threads : Alive(s)' => thread'[s].chain \in Structs
    BY <1>2, <1>5, <1>7 DEF IInv, ThreadsInPlace, Alive
  <2>2. ASSUME NEW s \in Adding'
        PROVE  thread'[s].origin \in Origins /\ (thread'[s].tail = Lost \/ thread'[s].tail \in 0..Len(cache'))
    <3>1. CASE s = t
      BY <1>3, <1>4, <1>5, <1>7, <3>1
    <3>2. CASE s # t
      <4>1. s \in Adding /\ thread'[s] = thread[s]
        BY <1>7, <1>8, <2>2, <3>2 DEF Adding
      <4> QED BY <1>3, <4>1 DEF IInv, ThreadsInPlace
    <3> QED BY <3>1, <3>2
  <2> QED BY <1>3, <2>1, <2>2 DEF IInv, ThreadsInPlace
<1>12. CacheInv'
  <2> SUFFICES ASSUME NEW p \in Origins, p \notin raced'
               PROVE  OneEntry(p)' /\ Behindhand(p)' /\ AddsAlone(p)'
    BY DEF CacheInv
  <2>1. OneEntry(p) /\ Behindhand(p) /\ AddsAlone(p)
    BY <1>9 DEF IInv, CacheInv
  <2>2. OneEntry(p)'
    BY <1>3, <2>1 DEF OneEntry
  <2>3. Behindhand(p)'
    <3> SUFFICES ASSUME NEW i \in DOMAIN cache, cache[i].origin = p, NEW s \in Adding'
                 PROVE  thread'[s].tail = Lost \/ i <= thread'[s].tail
      BY <1>3 DEF Behindhand
    <3>1. CASE s = t
      BY <1>4, <1>5, <1>7, <3>1 DEF IInv, Types
    <3>2. CASE s # t
      <4>1. s \in Adding /\ thread'[s] = thread[s]
        BY <1>7, <1>8, <3>2 DEF Adding
      <4> QED BY <2>1, <4>1 DEF Behindhand
    <3> QED BY <3>1, <3>2
  <2>4. AddsAlone(p)'
    <3> SUFFICES ASSUME NEW s \in Adding', thread'[s].origin = p
                 PROVE  /\ Adding' = {s} /\ thread'[s].tail = Len(cache)
                        /\ \A i \in DOMAIN cache : cache[i].origin # p
      BY <1>3 DEF AddsAlone
    <3>1. CASE s = t
      <4>1. p = o /\ thread'[s].tail = Len(cache)
        BY <1>5, <1>7, <3>1
      <4>2. Adding = {}
        BY <1>3, <4>1
      <4> QED BY <1>1, <1>8, <3>1, <4>1, <4>2, EntryIs DEF IInv
    <3>2. CASE s # t
      <4>1. s \in Adding /\ thread'[s] = thread[s]
        BY <1>7, <1>8, <3>2 DEF Adding
      <4>2. thread[s].origin \in raced'
        BY <1>3, <4>1
      <4> QED BY <4>1, <4>2
    <3> QED BY <3>1, <3>2
  <2> QED BY <2>2, <2>3, <2>4
<1>13. Alive(t)' /\ (Holding(t) => Holding(t)')
  BY <1>1, <1>2, <1>3, <1>5, <1>7 DEF Alive, Holding, Connected, NoFds
<1>14. ConnInv'
  BY <1>1, <1>2, <1>3, <1>5, <1>7, <1>13, ThreadGoesOn DEF IInv
<1> QED BY <1>10, <1>11, <1>12, <1>14 DEF IInv

\* The list as an entry is added to it, at its end or not.
LEMMA AddInv == ASSUME IInv, NEW t \in Threads, Add(t) PROVE IInv'
<1>1. Alive(t) /\ thread[t].pc = "add" /\ t \in Adding
  BY DEF Add, At, Alive, Adding
<1>2. PICK c \in Structs : c = thread[t].chain
  BY <1>1, HasChain
<1>3. PICK o \in Origins : o = thread[t].origin
  BY <1>1 DEF IInv, ThreadsInPlace
<1>4. PICK k \in {Lost} \cup 0..Len(cache) : k = thread[t].tail
  BY <1>1 DEF IInv, ThreadsInPlace
<1>5. PICK w \in Slots \cup {None} : w = chain[c].slot
  BY ChainIs DEF IInv
<1> DEFINE e == [origin |-> o, owner |-> w]
           E == [origin : Origins, owner : Slots \cup {None}]
<1>6. /\ table' = table /\ chain' = chain /\ owner' = owner
      /\ user' = user /\ doubled' = doubled /\ stray' = stray /\ raced' = raced
      /\ cache' = IF k = Lost THEN cache ELSE Append(SubSeq(cache, 1, k), e)
      /\ sent' = [sent EXCEPT ![o] = @ \cup {w}]
  BY <1>2, <1>3, <1>4, <1>5 DEF Add, Sent, Of
<1>7. e \in E /\ e.origin = o /\ e.owner = w
  OBVIOUS
<1>8. cache \in Seq(E) /\ Len(cache) \in Nat /\ DOMAIN cache = 1..Len(cache)
  BY DEF IInv, Types
<1> HIDE DEF e, E
<1>9. ASSUME k # Lost
      PROVE  /\ cache' \in Seq(E) /\ Len(cache') = k + 1 /\ DOMAIN cache' = 1..(k + 1)
             /\ \A i \in 1..k : i \in DOMAIN cache /\ cache'[i] = cache[i]
             /\ cache'[k + 1] = e
  <2> DEFINE q == SubSeq(cache, 1, k)
  <2>1. k \in 0..Len(cache)
    BY <1>9
  <2>2. q \in Seq(E) /\ Len(q) = k /\ \A i \in 1..k : i \in 1..Len(cache) /\ q[i] = cache[i]
    BY <1>8, <2>1
  <2>3. cache' = Append(q, e)
    BY <1>6, <1>9
  <2> HIDE DEF q
  <2>4. cache' \in Seq(E) /\ Len(cache') = k + 1
    BY <1>7, <2>1, <2>2, <2>3
  <2>5. (\A i \in 1..k : cache'[i] = q[i]) /\ cache'[k + 1] = e
    BY <1>7, <2>1, <2>2, <2>3
  <2> QED BY <1>8, <2>2, <2>4, <2>5
<1>10. k = Lost => cache' = cache
  BY <1>6
<1>11. /\ thread'[t].pc = "manage" /\ thread'[t].chain = c /\ thread'[t].failed = thread[t].failed
       /\ thread' \in [Threads -> ChainThread]
       /\ \A s \in Threads \ {t} :
            /\ thread'[s].pc = thread[s].pc /\ thread'[s].chain = thread[s].chain
            /\ thread'[s].failed = thread[s].failed /\ thread'[s].origin = thread[s].origin
            /\ thread'[s].tail = IF Behind(s, t) THEN Lost ELSE thread[s].tail
  <2>1. thread' = [s \in Threads |->
                    IF s = t THEN [thread[t] EXCEPT !.pc = "manage", !.origin = None, !.tail = 0]
                    ELSE IF Behind(s, t) THEN [thread[s] EXCEPT !.tail = Lost] ELSE thread[s]]
    BY DEF Add
  <2> DEFINE r == [thread[t] EXCEPT !.pc = "manage", !.origin = None, !.tail = 0]
  <2>2. \A s \in Threads : thread[s] \in ChainThread
    BY DEF IInv, Types
  <2>3. r \in ChainThread /\ r.pc = "manage" /\ r.chain = thread[t].chain /\ r.failed = thread[t].failed
    <3>1. thread[t] \in ChainThread /\ 0 \in Int
      BY <2>2
    <3>2. r \in ChainThread
      BY <3>1 DEF ChainThread, Connected, None
    <3>3. r.pc = "manage"
      BY <3>1 DEF ChainThread
    <3>4. r.chain = thread[t].chain
      BY <3>1 DEF ChainThread
    <3>5. r.failed = thread[t].failed
      BY <3>1 DEF ChainThread
    <3> QED BY <3>2, <3>3, <3>4, <3>5
  <2>4. ASSUME NEW s \in Threads
        PROVE  LET q == [thread[s] EXCEPT !.tail = Lost]
               IN /\ q \in ChainThread /\ q.pc = thread[s].pc /\ q.chain = thread[s].chain
                  /\ q.failed = thread[s].failed /\ q.origin = thread[s].origin /\ q.tail = Lost
    BY <2>2 DEF ChainThread, Lost
  <2>5. thread'[t] = r /\ \A s \in Threads \ {t} :
          thread'[s] = IF Behind(s, t) THEN [thread[s] EXCEPT !.tail = Lost] ELSE thread[s]
    BY <2>1
  <2> HIDE DEF r
  <2>6. \A s \in Threads : thread'[s] \in ChainThread
    BY <2>2, <2>3, <2>4, <2>5
  <2>7. thread' \in [Threads -> ChainThread]
    BY <2>1, <2>6
  <2>8. ASSUME NEW s \in Threads \ {t}
        PROVE  /\ thread'[s].pc = thread[s].pc /\ thread'[s].chain = thread[s].chain
               /\ thread'[s].failed = thread[s].failed /\ thread'[s].origin = thread[s].origin
               /\ thread'[s].tail = IF Behind(s, t) THEN Lost ELSE thread[s].tail
    <3>1. CASE Behind(s, t)
      BY <2>4, <2>5, <3>1
    <3>2. CASE ~ Behind(s, t)
      BY <2>5, <3>2
    <3> QED BY <3>1, <3>2
  <2> QED BY <1>2, <2>3, <2>5, <2>7, <2>8
<1>12. Adding' = Adding \ {t}
  BY <1>11 DEF Adding, Alive
<1>13. Types'
  <2>1. cache' \in Seq(E)
    BY <1>8, <1>9, <1>10
  <2>2. sent' \in [Origins -> SUBSET (Slots \cup {None})]
    BY <1>6 DEF IInv, Types
  <2> QED BY <1>6, <1>11, <2>1, <2>2 DEF IInv, Types, E
<1>14. ASSUME NEW s \in Adding'
       PROVE  /\ s \in Adding /\ s # t /\ thread'[s].origin = thread[s].origin
              /\ thread'[s].tail = IF k # Lost /\ thread[s].tail > k THEN Lost ELSE thread[s].tail
  BY <1>4, <1>11, <1>12 DEF Behind, Adding
<1>15. ThreadsInPlace'
  <2>1. \A s \in Threads : Alive(s)' => thread'[s].chain \in Structs
    BY <1>1, <1>2, <1>11 DEF IInv, ThreadsInPlace, Alive
  <2>2. ASSUME NEW s \in Adding'
        PROVE  thread'[s].origin \in Origins /\ (thread'[s].tail = Lost \/ thread'[s].tail \in 0..Len(cache'))
    <3>1. thread[s].origin \in Origins /\ (thread[s].tail = Lost \/ thread[s].tail \in 0..Len(cache))
      BY <1>14, <2>2 DEF IInv, ThreadsInPlace
    <3>2. CASE k = Lost
      BY <1>10, <1>14, <2>2, <3>1, <3>2
    <3>3. CASE k # Lost
      <4>1. k \in Nat /\ Len(cache') = k + 1
        BY <1>8, <1>9, <3>3
      <4>2. thread'[s].tail = Lost \/ (thread'[s].tail = thread[s].tail /\ ~ (thread[s].tail > k))
        BY <1>14, <2>2, <3>3
      <4> QED BY <1>8, <1>14, <2>2, <3>1, <4>1, <4>2
    <3> QED BY <3>2, <3>3
  <2> QED BY <1>6, <2>1, <2>2 DEF IInv, ThreadsInPlace
<1>16. CacheInv'
  <2> SUFFICES ASSUME NEW p \in Origins \ raced
               PROVE  OneEntry(p)' /\ Behindhand(p)' /\ AddsAlone(p)'
    BY <1>6 DEF CacheInv
  <2>1. OneEntry(p) /\ Behindhand(p) /\ AddsAlone(p)
    BY DEF IInv, CacheInv
  \* A thread that adds p is alone, and the list gets its first entry of p.
  <2>2. CASE p = o
    <3>1. Adding = {t} /\ k = Len(cache) /\ \A i \in DOMAIN cache : cache[i].origin # p
      BY <1>1, <1>3, <1>4, <2>1, <2>2 DEF AddsAlone
    <3>2. k # Lost /\ k \in Nat
      BY <1>8, <3>1 DEF Lost
    <3>3. sent[p] = {}
      BY <2>1, <3>1 DEF OneEntry
    <3>4. sent'[p] = {w}
      BY <1>6, <2>2, <3>3 DEF IInv, Types
    <3>5. \A i \in DOMAIN cache' : cache'[i].origin = p => i = k + 1
      BY <1>9, <3>1, <3>2
    <3>6. k + 1 \in DOMAIN cache' /\ cache'[k + 1].origin = p /\ cache'[k + 1].owner = w
      BY <1>7, <1>9, <2>2, <3>2
    <3>7. OneEntry(p)'
      BY <3>4, <3>5, <3>6 DEF OneEntry
    <3>8. Adding' = {}
      BY <1>12, <3>1
    <3> QED BY <3>7, <3>8 DEF Behindhand, AddsAlone
  \* The entry of another origin stays: it is not behind the thread's place.
  <2>3. CASE p # o
    <3>1. sent'[p] = sent[p]
      BY <1>6, <2>3 DEF IInv, Types
    <3>2. ASSUME NEW i \in DOMAIN cache, cache[i].origin = p
          PROVE  i \in DOMAIN cache' /\ cache'[i] = cache[i]
      <4>1. CASE k = Lost
        BY <1>10, <4>1
      <4>2. CASE k # Lost
        <5>1. i <= k
          BY <1>1, <1>4, <2>1, <3>2, <4>2 DEF Behindhand
        <5>2. i \in 1..k
          BY <1>8, <4>2, <5>1
        <5> QED BY <1>8, <1>9, <4>2, <5>2
      <4> QED BY <4>1, <4>2
    <3>3. ASSUME NEW i \in DOMAIN cache', cache'[i].origin = p
          PROVE  i \in DOMAIN cache /\ cache'[i] = cache[i]
      <4>1. CASE k = Lost
        BY <1>10, <3>3, <4>1
      <4>2. CASE k # Lost
        <5>1. i # k + 1
          BY <1>7, <1>9, <2>3, <3>3, <4>2
        <5>2. i \in 1..k
          BY <1>8, <1>9, <4>2, <5>1
        <5> QED BY <1>9, <4>2, <5>2
      <4> QED BY <4>1, <4>2
    <3>4. OneEntry(p)'
      BY <2>1, <3>1, <3>2, <3>3 DEF OneEntry
    <3>5. Behindhand(p)'
      <4> SUFFICES ASSUME NEW i \in DOMAIN cache', cache'[i].origin = p, NEW s \in Adding'
                   PROVE  thread'[s].tail = Lost \/ i <= thread'[s].tail
        BY DEF Behindhand
      <4>1. i \in DOMAIN cache /\ cache[i].origin = p
        BY <3>3
      <4>2. thread[s].tail = Lost \/ i <= thread[s].tail
        BY <1>14, <2>1, <4>1 DEF Behindhand
      <4> QED BY <1>14, <4>2
    <3>6. AddsAlone(p)'
      <4> SUFFICES ASSUME NEW s \in Adding', thread'[s].origin = p PROVE FALSE
        BY DEF AddsAlone
      <4>1. s \in Adding /\ s # t /\ thread[s].origin = p
        BY <1>14
      <4> QED BY <1>1, <2>1, <4>1 DEF AddsAlone
    <3> QED BY <3>4, <3>5, <3>6
  <2> QED BY <2>2, <2>3
<1>17. Alive(t)' /\ (Holding(t) => Holding(t)')
  BY <1>1, <1>2, <1>6, <1>11 DEF Alive, Holding, Connected
<1>18. ConnInv'
  BY <1>1, <1>2, <1>6, <1>11, <1>17, ThreadGoesOn DEF IInv
<1> QED BY <1>13, <1>15, <1>16, <1>18 DEF IInv

-----------------------------------------------------------------------------
\* Out of the main loop: a thread whose last attempt did not fail holds nothing
\* to close.
LEMMA LeaveInv == ASSUME IInv, NEW t \in Threads, Leave(t) PROVE IInv'
<1>1. Alive(t) /\ thread[t].pc = "leave"
  BY DEF Leave, At, Alive
<1>2. PICK c \in Structs : c = thread[t].chain
  BY <1>1, HasChain
<1>3. /\ table' = table /\ chain' = chain /\ cache' = cache /\ user' = user
      /\ doubled' = doubled /\ raced' = raced /\ sent' = sent
      /\ owner' = Closed({chain[c].U}) /\ (stray' <=> stray \/ thread[t].failed)
  BY <1>2 DEF Leave, Of
<1>4. PICK pc \in {"destroy", "stop"} : Goto(t, pc)
  BY DEF Leave, Goto
<1>5. /\ thread' \in [Threads -> ChainThread] /\ thread'[t].pc = pc /\ thread'[t].chain = c
      /\ \A s \in Threads \ {t} : thread'[s] = thread[s]
  BY <1>2, <1>4, Goes DEF IInv, Ending, Closing
<1>6. stray' \in BOOLEAN
  BY DEF Leave
<1>7. Types'
  BY <1>3, <1>5, <1>6, ClosedTypes DEF IInv, Types
<1>8. ThreadsInPlace' /\ CacheInv'
  BY <1>1, <1>2, <1>3, <1>5, ElsewhereKept
<1>9. ASSUME ~ stray', Holding(t)
      PROVE  Holding(t)' /\ \A fd \in Fds : owner[fd] \notin {None, c} => owner'[fd] = owner[fd]
  <2>1. NoFds(c)
    BY <1>1, <1>2, <1>3, <1>9 DEF Holding, Connected
  <2>2. \A fd \in Fds : fd \notin {chain[c].U}
    BY <2>1, SlotsAndFds DEF NoFds, None
  <2>3. \A fd \in Fds : owner'[fd] = owner[fd]
    BY <1>3, <2>2, ClosedTypes DEF IInv
  <2>4. Holding(t)'
    BY <1>3, <1>5, <2>1 DEF Holding, NoFds, Connected
  <2> QED BY <2>3, <2>4
<1>10. Alive(t)'
  BY <1>5 DEF Alive
<1>11. ConnInv'
  BY <1>1, <1>2, <1>3, <1>5, <1>9, <1>10, ThreadGoesOn DEF IInv
<1> QED BY <1>7, <1>8, <1>11 DEF IInv

LEMMA StopInv == ASSUME IInv, NEW t \in Threads, Stop(t) PROVE IInv'
<1>1. Alive(t) /\ thread[t].pc = "stop" /\ Goto(t, "clean")
  BY DEF Stop, At, Alive
<1>2. PICK c \in Structs : c = thread[t].chain
  BY <1>1, HasChain
<1> DEFINE r == [chain[c] EXCEPT !.running = FALSE]
<1>3. chain' = [chain EXCEPT ![c] = r]
  BY <1>2 DEF Stop
<1>4. r \in ChainStruct /\ r.st = chain[c].st /\ r.slot = chain[c].slot /\ r.U = chain[c].U /\ r.R = chain[c].R
  BY ChainIs DEF IInv, ChainStruct
<1> HIDE DEF r
<1>5. /\ chain' \in [Structs -> ChainStruct] /\ chain'[c] = r
      /\ \A d \in Structs \ {c} : chain'[d] = chain[d]
  BY <1>3, <1>4, Changes DEF IInv
<1>6. /\ table' = table /\ owner' = owner /\ cache' = cache /\ user' = user
      /\ doubled' = doubled /\ stray' = stray /\ raced' = raced /\ sent' = sent
  BY DEF Stop, histories
<1>7. /\ thread' \in [Threads -> ChainThread] /\ thread'[t].pc = "clean" /\ thread'[t].chain = c
      /\ \A s \in Threads \ {t} : thread'[s] = thread[s]
  BY <1>1, <1>2, Goes DEF IInv, Ending
<1>8. Types'
  BY <1>5, <1>6, <1>7 DEF IInv, Types
<1>9. ThreadsInPlace' /\ CacheInv'
  BY <1>1, <1>2, <1>6, <1>7, ElsewhereKept
<1>10. Alive(t)' /\ (Holding(t) => Holding(t)')
  BY <1>1, <1>2, <1>4, <1>5, <1>7 DEF Alive, Holding, NoFds, Connected
<1>11. ConnInv'
  BY <1>1, <1>2, <1>4, <1>5, <1>6, <1>7, <1>10, ThreadGoesOn DEF IInv
<1> QED BY <1>8, <1>9, <1>11 DEF IInv

LEMMA CleanInv == ASSUME IInv, NEW t \in Threads, Clean(t) PROVE IInv'
<1>1. Alive(t) /\ thread[t].pc = "clean"
  BY DEF Clean, At, Alive
<1>2. PICK c \in Structs : c = thread[t].chain
  BY <1>1, HasChain
<1> DEFINE r == [chain[c] EXCEPT !.running = FALSE, !.U = None, !.R = None]
           F == {chain[c].U, chain[c].R}
<1>3. chain' = [chain EXCEPT ![c] = r] /\ owner' = Closed(F) /\ Exit(t)
  BY <1>2 DEF Clean, CleanedUp, Cleaned, Of
<1>4. r \in ChainStruct /\ r.st = chain[c].st /\ r.slot = chain[c].slot /\ r.U = None /\ r.R = None
  BY ChainIs DEF IInv, ChainStruct
<1> HIDE DEF r, F
<1>5. /\ chain' \in [Structs -> ChainStruct] /\ chain'[c] = r
      /\ \A d \in Structs \ {c} : chain'[d] = chain[d]
  BY <1>3, <1>4, Changes DEF IInv
<1>6. /\ table' = table /\ cache' = cache /\ user' = user
      /\ doubled' = doubled /\ stray' = stray /\ raced' = raced /\ sent' = sent
  BY DEF Clean, histories
<1>7. /\ thread' \in [Threads -> ChainThread] /\ thread'[t].pc = "none"
      /\ \A s \in Threads \ {t} : thread'[s] = thread[s]
  BY <1>3, Exits DEF IInv
<1>8. Types'
  BY <1>3, <1>5, <1>6, <1>7, ClosedTypes DEF IInv, Types
<1>9. ThreadsInPlace' /\ CacheInv'
  BY <1>6, <1>7, ElsewhereKept
<1>10. doubled = {} => InSlot'
  BY <1>4, <1>5, <1>6 DEF InSlot, IInv, ConnInv, Types
<1>11. ASSUME Holding(t) PROVE NoFds(c)' /\ \A fd \in Fds : owner[fd] \notin {None, c} => owner'[fd] = owner[fd]
  <2>1. NoFds(c)
    BY <1>1, <1>2, <1>11 DEF Holding, Connected
  <2>2. \A fd \in Fds : fd \notin F
    BY <2>1, SlotsAndFds DEF NoFds, None, F
  <2> QED BY <1>3, <1>4, <1>5, <2>2, ClosedTypes DEF NoFds, IInv
<1>12. ConnInv'
  BY <1>1, <1>2, <1>5, <1>6, <1>7, <1>10, <1>11, ThreadEnds DEF IInv
<1> QED BY <1>8, <1>9, <1>12 DEF IInv

LEMMA DestroyInv == ASSUME IInv, NEW t \in Threads, Destroy(t) PROVE IInv'
<1>1. Alive(t) /\ thread[t].pc = "destroy"
  BY DEF Destroy, At, Alive
<1>2. PICK c \in Structs : c = thread[t].chain
  BY <1>1, HasChain
<1> DEFINE F == {chain[c].U, chain[c].R}
<1>3. PICK r \in ChainStruct : chain' = [chain EXCEPT ![c] = r] /\ r.st = "freed" /\ r.U = None /\ r.R = None
  BY <1>2, DestroyedIs DEF Destroy, Destroyed, IInv, Types
<1>4. owner' = Closed(F) /\ Exit(t) /\ table' = [table EXCEPT ![chain[c].slot] = None]
  BY <1>2 DEF Destroy, Of
<1> HIDE DEF F
<1>5. /\ chain' \in [Structs -> ChainStruct] /\ chain'[c] = r
      /\ \A d \in Structs \ {c} : chain'[d] = chain[d]
  BY <1>3, Changes DEF IInv
<1>6. /\ cache' = cache /\ user' = user
      /\ doubled' = doubled /\ stray' = stray /\ raced' = raced /\ sent' = sent
  BY DEF Destroy, histories
<1>7. /\ thread' \in [Threads -> ChainThread] /\ thread'[t].pc = "none"
      /\ \A s \in Threads \ {t} : thread'[s] = thread[s]
  BY <1>4, Exits DEF IInv
<1>8. Types'
  <2>1. table' \in [Slots -> Structs \cup {None}]
    BY <1>4 DEF IInv, Types
  <2> QED BY <1>4, <1>5, <1>6, <1>7, <2>1, ClosedTypes DEF IInv, Types
<1>9. ThreadsInPlace' /\ CacheInv'
  BY <1>6, <1>7, ElsewhereKept
<1>10. doubled = {} => InSlot'
  <2> SUFFICES ASSUME doubled = {} PROVE InSlot'
    OBVIOUS
  <2>1. chain[c].st = "used" /\ InSlot
    BY <1>1, <1>2 DEF IInv, ConnInv, InUse
  <2> QED BY <1>4, <1>5, <2>1, SlotEmptied DEF IInv
<1>11. ASSUME Holding(t) PROVE NoFds(c)' /\ \A fd \in Fds : owner[fd] \notin {None, c} => owner'[fd] = owner[fd]
  <2>1. NoFds(c)
    BY <1>1, <1>2, <1>11 DEF Holding, Connected
  <2>2. \A fd \in Fds : fd \notin F
    BY <2>1, SlotsAndFds DEF NoFds, None, F
  <2> QED BY <1>3, <1>4, <1>5, <2>2, ClosedTypes DEF NoFds, IInv
<1>12. ConnInv'
  BY <1>1, <1>2, <1>5, <1>6, <1>7, <1>10, <1>11, ThreadEnds DEF IInv
<1> QED BY <1>8, <1>9, <1>12 DEF IInv

\* A thread whose memory is gone, or that is one of two: there is a doubled chain.
LEMMA StrayInv == ASSUME IInv, NEW t \in Threads, Stray(t) PROVE IInv'
<1>1. Alive(t) /\ Astray(t) /\ Exit(t)
  BY DEF Stray
<1>2. /\ table' = table /\ chain' = chain /\ owner' = owner /\ cache' = cache /\ user' = user
      /\ doubled' = doubled /\ stray' = stray /\ raced' = raced /\ sent' = sent
  BY DEF Stray, histories
<1>3. /\ thread' \in [Threads -> ChainThread] /\ thread'[t].pc = "none"
      /\ \A s \in Threads \ {t} : thread'[s] = thread[s]
  BY <1>1, Exits DEF IInv
<1>4. Types'
  BY <1>2, <1>3 DEF IInv, Types
<1>5. ThreadsInPlace' /\ CacheInv'
  BY <1>2, <1>3, ElsewhereKept
<1>6. doubled # {}
  BY <1>1 DEF Astray, IInv, ConnInv, InUse
<1>7. ConnInv'
  BY <1>2, <1>6 DEF ConnInv
<1> QED BY <1>4, <1>5, <1>7 DEF IInv

LEMMA NextInv == IInv /\ [Next]_vars => IInv'
<1> SUFFICES ASSUME IInv, [Next]_vars PROVE IInv'
  OBVIOUS
<1>1. CASE UNCHANGED vars
  <2>1. /\ table' = table /\ chain' = chain /\ thread' = thread /\ owner' = owner /\ cache' = cache
        /\ user' = user /\ doubled' = doubled /\ stray' = stray /\ raced' = raced /\ sent' = sent
    BY <1>1 DEF vars, histories
  <2>2. Types' /\ ThreadsInPlace'
    BY <2>1 DEF IInv, Types, ThreadsInPlace, Adding, Alive
  <2>3. CacheInv'
    BY <2>1, CacheKept DEF IInv, Adding, Alive
  <2>4. ConnInv'
    BY <2>1, FlagsChange DEF IInv
  <2> QED BY <2>2, <2>3, <2>4 DEF IInv
<1>2. ASSUME NEW t \in Threads, Work(t) \/ CloseSockets(t) \/ Read(t) PROVE IInv'
  <2>1. CASE Read(t)
    BY <2>1, AddInv, KnownInv, UnknownInv DEF Read
  <2>2. CASE End(t)
    BY <2>2, LeaveInv, StopInv, CleanInv, DestroyInv, StrayInv DEF End
  <2>3. CASE Start(t) \/ Loop(t) \/ Connects(t) \/ Add(t) \/ CloseSockets(t)
    BY <2>3, StartInv, LoopInv, ConnectsInv, AddInv, CloseSocketsInv
  <2> QED BY <1>2, <2>1, <2>2, <2>3 DEF Work
<1>3. ASSUME NEW u \in Users,
             Act(u) \/ (\E a \in Addrs, what \in {"enable", "disable", "delete"} : Command(u, a, what))
      PROVE  IInv'
  BY <1>3, CreateInv, GoneInv, EnableInv, DisableInv, DeleteInv, CommandInv DEF Act
<1> QED BY <1>1, <1>2, <1>3 DEF Next

-----------------------------------------------------------------------------
\* Every variable of the chains keeps its type (chains.h), and so do the places
\* of threads and logins in them.
THEOREM TypeCorrect == Spec => [](Types /\ ThreadsInPlace)
<1>1. IInv => Types /\ ThreadsInPlace
  BY DEF IInv
<1> QED BY <1>1, InitInv, NextInv, PTL DEF Spec

\* For any number of chains, logins, threads and origins: the messages of an
\* origin whose entry was not added at the same time as another's are passed on
\* by one chain (readMessage, getCacheEntry, addCacheEntry).
THEOREM OneChainForwards == Spec => []OneForwarder
<1>1. IInv => OneForwarder
  <2> SUFFICES ASSUME IInv, NEW o \in Origins \ raced PROVE Cardinality(sent[o]) <= 1
    BY DEF OneForwarder
  <2>1. OneEntry(o)
    BY DEF IInv, CacheInv
  <2>2. CASE sent[o] = {}
    BY <2>2, FS_EmptySet
  <2>3. CASE sent[o] # {}
    <3>1. PICK i \in DOMAIN cache : cache[i].origin = o
      BY <2>1, <2>3 DEF OneEntry
    <3>2. sent[o] = {cache[i].owner}
      BY <2>1, <2>3, <3>1 DEF OneEntry
    <3>3. Cardinality({cache[i].owner}) = 1
      BY FS_Singleton
    <3>4. Cardinality(sent[o]) = 1
      BY <3>2, <3>3
    <3> QED BY <3>4
  <2> QED BY <2>2, <2>3
<1> QED BY <1>1, InitInv, NextInv, PTL DEF Spec

\* For any number of chains, logins, threads and descriptors: the descriptors of
\* a connected chain are open and its own (closeChainSocket, cleanupChainStruct).
THEOREM DescriptorsAreOwn == Spec => []ConnectionsIntact
<1>1. IInv => ConnectionsIntact
  BY DEF IInv, ConnInv, AllHold, Holding, ConnectionsIntact, Of, Connected
<1> QED BY <1>1, InitInv, NextInv, PTL DEF Spec
=============================================================================
