----------------------------- MODULE MrtProofs -----------------------------
(***************************************************************************)
(* What Mrt states of its collectors, for any number of connections,       *)
(* addresses, sessions and items, over an inductive invariant: what a      *)
(* thread holds back is its last good message, what it submits is followed *)
(* and later than what it wrote, and what it has not written it submits or *)
(* has lost; a session that it has to mark when it ends is still on its    *)
(* list.                                                                   *)
(***************************************************************************)
EXTENDS Mrt, WellFoundedInduction, TLAPS

Messages == [n : Nat \ {0}, tuple : Tuples]
Submits == {"find", "scan", "insert", "write"}
Connection ==
  [pc : {"none", "refused", "read", "collect", "mark", "destroy", "gone"} \cup Submits,
   prev : Messages \cup {Nothing, Garbage}, out : Messages \cup {Nothing, Garbage},
   slot : 0..MaxSlots, todo : SUBSET Slots, ends : BOOLEAN, killed : BOOLEAN]
Session == [state : {"established", "error"}, tuple : Tuples, by : Conns]

Types ==
  /\ conn \in [Conns -> Connection]
  /\ Sessions \in [Slots -> Session \cup {NoSession}]
  /\ writers \in Int /\ locked \in BOOLEAN /\ up \in BOOLEAN /\ shutdown \in BOOLEAN
  /\ stream \in [Conns -> Seq(Items)]
  /\ written \in [Conns -> Seq([n : Nat \ {0}, own : BOOLEAN])]
  /\ lost \in SUBSET Conns /\ clash \in BOOLEAN

Submitting(c) == conn[c].pc \in Submits /\ conn[c].out # Garbage
Holding(c) == conn[c].pc \in {"read"} \cup Submits /\ ~ conn[c].ends

\* A thread has what its place needs.
InPlace(c) ==
  /\ conn[c].pc \in {"none", "refused"} => stream[c] = <<>> /\ written[c] = <<>>
  /\ conn[c].pc \in {"none", "read"} => ~ conn[c].ends
  /\ conn[c].pc \in Submits => conn[c].out # Nothing
  /\ conn[c].pc \in Submits \ {"find"} => conn[c].out # Garbage
  /\ conn[c].pc \in {"insert", "write"} => conn[c].slot \in Slots

\* It holds back the last good message, if nothing has followed that.
HoldsLast(c) ==
  Holding(c) =>
    /\ conn[c].prev \in Messages => IsLast(c, conn[c].prev.n)
    /\ \A i \in Nat : IsLast(c, i) => conn[c].prev.n = i

\* What it has written, submits and holds back comes in this order.
Later(c, n) == \A k \in DOMAIN written[c] : written[c][k].n < n
Ordered(c) ==
  /\ InOrder(c)
  /\ Submitting(c) => Later(c, conn[c].out.n)
  /\ Holding(c) /\ conn[c].prev \in Messages => Later(c, conn[c].prev.n)
  /\ Submitting(c) /\ Holding(c) /\ conn[c].prev \in Messages => conn[c].out.n < conn[c].prev.n

\* What it has written or submits is followed, and the other way round.
SubmitsFollowed(c) ==
  Submitting(c) => conn[c].out.n \in DOMAIN stream[c] /\ Followed(c, conn[c].out.n)
NoneLeft(c) ==
  c \notin lost =>
    \A i, j \in DOMAIN stream[c] :
      FollowedBy(c, i, j) => IsWritten(c, i) \/ (conn[c].pc \in Submits /\ conn[c].out.n = i)

Thread(c) ==
  InPlace(c) /\ HoldsLast(c) /\ Ordered(c) /\ OnlyFollowed(c) /\ SubmitsFollowed(c) /\ NoneLeft(c)

\* The session it writes to is the message's.
Own(c) ==
  /\ conn[c].pc = "write" => Sessions[conn[c].slot] # NoSession
  /\ ~ clash => /\ conn[c].pc = "write" => Same(Sessions[conn[c].slot], conn[c].out.tuple)
                /\ \A k \in DOMAIN written[c] : written[c][k].own

\* It will mark what it wrote to last, or a table dump spares it that.
HasDump(c) == \E k \in DOMAIN stream[c] : stream[c][k].kind = "dump"
Marked(c) ==
  /\ conn[c].pc = "destroy" => HasDump(c)
  /\ conn[c].pc = "mark" => \A i \in conn[c].todo : Sessions[i] # NoSession
  /\ \A i \in Slots :
       Sessions[i].state = "established" /\ Sessions[i].by = c /\ Sessions[i].tuple.local = Address[c] =>
         /\ conn[c].pc = "mark" => i \in conn[c].todo
         /\ conn[c].pc = "gone" => HasDump(c)

IInv == Types /\ \A c \in Conns : Thread(c) /\ Own(c) /\ Marked(c)

-----------------------------------------------------------------------------

LEMMA Constants == MaxSlots \in Nat \ {0} /\ Slots \subseteq Nat \ {0}
  BY MrtAssumption DEF Slots

LEMMA LeastIs ==
  ASSUME NEW S \in SUBSET Nat, S # {}
  PROVE  Min(S) \in S /\ \A k \in S : Min(S) <= k
<1>1. PICK n \in S : \A k \in S : ~(<<k, n>> \in OpToRel(<, Nat))
  BY NatLessThanWellFounded, WFMin, Zenon
<1>2. \A k \in S : ~(k < n)
  BY <1>1 DEF OpToRel
<1>3. \A k \in S : n <= k
  BY <1>2
<1> QED BY <1>3 DEF Min

LEMMA ElementOf ==
  ASSUME NEW S, NEW s \in Seq(S), NEW i \in DOMAIN s
  PROVE  s[i] \in S
  OBVIOUS

\* A message is neither what was never read nor what was never set.
LEMMA MessageIs ==
  /\ Nothing \notin Messages /\ Garbage \notin Messages /\ Nothing # Garbage
  /\ Nothing.n = 0 /\ Garbage.n = -1
  /\ \A m \in Messages : m.n \in Nat \ {0} /\ m.tuple \in Tuples /\ m # Nothing /\ m # Garbage
<1>1. Nothing.n = 0 /\ Garbage.n = -1
  BY DEF Nothing, Garbage
<1>2. \A m \in Messages : m.n \in Nat \ {0} /\ m.tuple \in Tuples
  BY DEF Messages
<1> QED BY <1>1, <1>2

LEMMA MessageOf ==
  ASSUME NEW n \in Nat \ {0}, NEW t \in Tuples
  PROVE  Message(n, t) \in Messages /\ Message(n, t).n = n /\ Message(n, t).tuple = t
  BY DEF Message, Messages

Kinds == {"good", "bad", "ignored", "dump", "eof"}
LEMMA ItemIs ==
  ASSUME NEW item \in Items
  PROVE  /\ item.kind \in Kinds
         /\ item.kind = "good" => item.tuple \in Tuples /\ item.skipped \in BOOLEAN
         /\ item.kind = "ignored" => item.skipped \in BOOLEAN
         /\ item.kind = "bad" => item.cut \in BOOLEAN
  BY DEF Items, Parsed, NotParsed, Kinds

LEMMA EndIs == [kind |-> "eof"] \in Items /\ [kind |-> "eof"].kind = "eof" /\ ~ Skipped([kind |-> "eof"])
<1> DEFINE e == [kind |-> "eof"]
<1>1. e.kind = "eof"
  OBVIOUS
<1>2. e \in [kind : {"dump", "eof"}]
  OBVIOUS
<1> HIDE DEF e
<1>3. e \in Items /\ e.kind = "eof" /\ ~ Skipped(e)
  BY <1>1, <1>2 DEF Items, Skipped
<1> QED BY <1>3 DEF e

LEMMA BeforeIs ==
  ASSUME NEW c, conn[c] \in Connection, NEW item \in Items
  PROVE  /\ Before(c, item) \in Messages \cup {Nothing, Garbage}
         /\ Skipped(item) => Before(c, item) = Nothing
         /\ ~ Skipped(item) => Before(c, item) = conn[c].prev
<1>1. conn[c].prev \in Messages \cup {Nothing, Garbage}
  BY DEF Connection
<1>2. Skipped(item) \in BOOLEAN
  BY ItemIs DEF Skipped
<1> QED BY <1>1, <1>2 DEF Before

\* What each kind of item does to the thread.
Sets(r, c, p, o, e) ==
  /\ r \in Connection /\ r.prev = p /\ r.out = o /\ r.ends = e
  /\ r.pc = (IF o # Nothing THEN "find" ELSE IF e THEN "collect" ELSE "read")
  /\ r.killed = conn[c].killed /\ r.slot = conn[c].slot /\ r.todo = conn[c].todo

LEMMA Keeps ==
  ASSUME NEW c, conn[c] \in Connection,
         NEW p \in Messages \cup {Nothing, Garbage}, NEW o \in Messages \cup {Nothing, Garbage},
         NEW e \in BOOLEAN
  PROVE  Sets([conn[c] EXCEPT !.prev = p, !.out = o, !.ends = e,
                              !.pc = IF o # Nothing THEN "find" ELSE IF e THEN "collect" ELSE "read"],
              c, p, o, e)
<1> DEFINE pc == IF o # Nothing THEN "find" ELSE IF e THEN "collect" ELSE "read"
<1>1. pc \in {"find", "collect", "read"}
  OBVIOUS
<1> HIDE DEF pc
<1> DEFINE q == [conn[c] EXCEPT !.prev = p, !.out = o, !.ends = e, !.pc = pc]
<1>2. q \in Connection
  BY <1>1 DEF Connection, Submits
<1>3. q.prev = p /\ q.out = o /\ q.pc = pc
  BY DEF Connection
<1>4. q.ends = e
  BY DEF Connection
<1>5. q.killed = conn[c].killed
  BY DEF Connection
<1>6. q.slot = conn[c].slot /\ q.todo = conn[c].todo
  BY DEF Connection
<1> HIDE DEF q
<1>7. Sets(q, c, p, o, e)
  BY <1>2, <1>3, <1>4, <1>5, <1>6 DEF Sets, pc
<1> QED BY <1>7 DEF q, pc

LEMMA AfterIs ==
  ASSUME NEW c, conn[c] \in Connection, stream[c] \in Seq(Items), NEW item \in Items
  PROVE  /\ item.kind = "good" =>
              Sets(After(c, item), c, Message(Len(stream[c]) + 1, item.tuple), Before(c, item), FALSE)
         /\ item.kind = "eof" => Sets(After(c, item), c, Nothing, Before(c, item), TRUE)
         /\ item.kind = "ignored" => Sets(After(c, item), c, Before(c, item), Nothing, FALSE)
         /\ item.kind = "bad" => Sets(After(c, item), c, Nothing, Nothing, item.cut)
         /\ item.kind = "dump" => After(c, item) = [conn[c] EXCEPT !.pc = "destroy"]
<1> DEFINE n == Len(stream[c]) + 1
           b == Before(c, item)
           K(p, o, e) == [conn[c] EXCEPT !.prev = p, !.out = o, !.ends = e,
                            !.pc = IF o # Nothing THEN "find" ELSE IF e THEN "collect" ELSE "read"]
<1>1. n \in Nat \ {0}
  OBVIOUS
<1>2. b \in Messages \cup {Nothing, Garbage}
  BY BeforeIs
<1>3. item.kind = "good" => After(c, item) = K(Message(n, item.tuple), b, FALSE)
  BY DEF After
<1>4. item.kind = "eof" => After(c, item) = K(Nothing, b, TRUE)
  BY DEF After
<1>5. item.kind = "ignored" => After(c, item) = K(b, Nothing, FALSE)
  BY DEF After
<1>6. item.kind = "bad" => After(c, item) = K(Nothing, Nothing, item.cut)
  BY DEF After
<1>7. item.kind = "dump" => After(c, item) = [conn[c] EXCEPT !.pc = "destroy"]
  BY DEF After
<1>8. item.kind = "good" => Message(n, item.tuple) \in Messages
  BY <1>1, ItemIs, MessageOf
<1> HIDE DEF b, n
<1>9. item.kind = "good" => Sets(K(Message(n, item.tuple), b, FALSE), c, Message(n, item.tuple), b, FALSE)
  BY <1>2, <1>8, Keeps
<1>10. Sets(K(Nothing, b, TRUE), c, Nothing, b, TRUE)
  BY <1>2, Keeps
<1>11. Sets(K(b, Nothing, FALSE), c, b, Nothing, FALSE)
  BY <1>2, Keeps
<1>12. item.kind = "bad" => Sets(K(Nothing, Nothing, item.cut), c, Nothing, Nothing, item.cut)
  <2> SUFFICES ASSUME item.kind = "bad" PROVE Sets(K(Nothing, Nothing, item.cut), c, Nothing, Nothing, item.cut)
    OBVIOUS
  <2>1. item.cut \in BOOLEAN
    BY ItemIs
  <2>2. Sets(K(Nothing, Nothing, TRUE), c, Nothing, Nothing, TRUE)
    BY Keeps
  <2>3. Sets(K(Nothing, Nothing, FALSE), c, Nothing, Nothing, FALSE)
    BY Keeps
  <2> HIDE DEF K
  <2>4. CASE item.cut = TRUE
    BY <2>2, <2>4, Zenon
  <2>5. CASE item.cut = FALSE
    BY <2>3, <2>5, Zenon
  <2> QED BY <2>1, <2>4, <2>5
<1> HIDE DEF K
<1> QED BY <1>3, <1>4, <1>5, <1>6, <1>7, <1>9, <1>10, <1>11, <1>12 DEF b, n

-----------------------------------------------------------------------------
(* The stream: what one more item changes, and what stays without one.     *)

LEMMA Appended ==
  ASSUME NEW c \in Conns, stream[c] \in Seq(Items), NEW item \in Items,
         stream'[c] = Append(stream[c], item)
  PROVE  LET L == Len(stream[c])
         IN /\ stream'[c] \in Seq(Items) /\ Len(stream'[c]) = L + 1 /\ L \in Nat
            /\ DOMAIN stream[c] = 1..L /\ DOMAIN stream'[c] = 1..(L + 1)
            /\ stream'[c][L + 1] = item
            /\ \A i \in 1..L : stream'[c][i] = stream[c][i]
  OBVIOUS

LEMMA Grows ==
  ASSUME NEW c \in Conns, stream[c] \in Seq(Items), NEW item \in Items,
         stream'[c] = Append(stream[c], item), NEW L \in Nat, L = Len(stream[c])
  PROVE  /\ \A i \in 1..L : Good(c, i)' <=> Good(c, i)
         /\ Good(c, L + 1)' <=> item.kind = "good"
         /\ \A i \in Nat, j \in 1..(L + 1) : Quiet(c, i, j)' <=> Quiet(c, i, j)
         /\ \A i \in 1..L :
              Quiet(c, i, L + 2)' <=>
                Quiet(c, i, L + 1) /\ item.kind = "ignored" /\ ~ Skipped(item)
         /\ Quiet(c, L + 1, L + 2)'
<1>1. /\ L \in Nat /\ stream'[c][L + 1] = item
      /\ \A i \in 1..L : stream'[c][i] = stream[c][i]
  BY Appended
<1>2. \A i \in 1..L : Good(c, i)' <=> Good(c, i)
  BY <1>1 DEF Good
<1>3. Good(c, L + 1)' <=> item.kind = "good"
  BY <1>1 DEF Good
<1>4. \A i \in Nat, j \in 1..(L + 1) : Quiet(c, i, j)' <=> Quiet(c, i, j)
  <2> SUFFICES ASSUME NEW i \in Nat, NEW j \in 1..(L + 1) PROVE Quiet(c, i, j)' <=> Quiet(c, i, j)
    OBVIOUS
  <2>1. \A k \in (i + 1)..(j - 1) : stream'[c][k] = stream[c][k]
    BY <1>1
  <2> QED BY <2>1 DEF Quiet
<1>5. ASSUME NEW i \in 1..L
      PROVE  Quiet(c, i, L + 2)' <=> Quiet(c, i, L + 1) /\ item.kind = "ignored" /\ ~ Skipped(item)
  <2>1. (i + 1)..(L + 2 - 1) = (i + 1)..(L + 1 - 1) \cup {L + 1}
    BY <1>1
  <2>2. \A k \in (i + 1)..(L + 1 - 1) : stream'[c][k] = stream[c][k]
    BY <1>1
  <2> QED BY <1>1, <2>1, <2>2 DEF Quiet
<1>6. Quiet(c, L + 1, L + 2)'
  <2>1. (L + 1 + 1)..(L + 2 - 1) = {}
    BY <1>1
  <2> QED BY <2>1 DEF Quiet
<1> QED BY <1>2, <1>3, <1>4, <1>5, <1>6

LEMMA Reads ==
  ASSUME NEW c \in Conns, stream[c] \in Seq(Items), NEW item \in Items,
         stream'[c] = Append(stream[c], item), NEW L \in Nat, L = Len(stream[c])
  PROVE  /\ \A i \in 1..(L + 1) : IsLast(c, i)' <=>
                 \/ i # L + 1 /\ IsLast(c, i) /\ item.kind = "ignored" /\ ~ Skipped(item)
                 \/ i = L + 1 /\ item.kind = "good"
         /\ \A i, j \in 1..(L + 1) : FollowedBy(c, i, j)' <=>
                 \/ i # L + 1 /\ j # L + 1 /\ FollowedBy(c, i, j)
                 \/ /\ i # L + 1 /\ j = L + 1 /\ IsLast(c, i)
                    /\ item.kind \in {"good", "eof"} /\ ~ Skipped(item)
<1>1. /\ L \in Nat /\ stream'[c][L + 1] = item /\ Len(stream'[c]) = L + 1
      /\ DOMAIN stream[c] = 1..L /\ DOMAIN stream'[c] = 1..(L + 1)
      /\ \A i \in 1..L : stream'[c][i] = stream[c][i]
  BY Appended
<1>2. /\ \A i \in 1..L : Good(c, i)' <=> Good(c, i)
      /\ Good(c, L + 1)' <=> item.kind = "good"
      /\ \A i \in Nat, j \in 1..(L + 1) : Quiet(c, i, j)' <=> Quiet(c, i, j)
      /\ \A i \in 1..L :
           Quiet(c, i, L + 2)' <=> Quiet(c, i, L + 1) /\ item.kind = "ignored" /\ ~ Skipped(item)
      /\ Quiet(c, L + 1, L + 2)'
  BY Grows
<1>3. \A i : IsLast(c, i)' <=> i \in 1..(L + 1) /\ Good(c, i)' /\ Quiet(c, i, L + 2)'
  <2>1. L + 1 + 1 = L + 2
    BY <1>1
  <2> QED BY <1>1, <2>1 DEF IsLast
<1>4. \A i : IsLast(c, i) <=> i \in 1..L /\ Good(c, i) /\ Quiet(c, i, L + 1)
  BY <1>1 DEF IsLast
<1>5. ASSUME NEW i \in 1..(L + 1)
      PROVE  IsLast(c, i)' <=>
               \/ i # L + 1 /\ IsLast(c, i) /\ item.kind = "ignored" /\ ~ Skipped(item)
               \/ i = L + 1 /\ item.kind = "good"
  <2>1. CASE i = L + 1
    BY <1>1, <1>2, <1>3, <2>1
  <2>2. CASE i # L + 1
    <3>1. i \in 1..L
      BY <1>1, <2>2
    <3> QED BY <1>2, <1>3, <1>4, <2>2, <3>1
  <2> QED BY <2>1, <2>2
<1>6. ASSUME NEW i \in 1..(L + 1), NEW j \in 1..(L + 1)
      PROVE  FollowedBy(c, i, j)' <=>
               \/ i # L + 1 /\ j # L + 1 /\ FollowedBy(c, i, j)
               \/ /\ i # L + 1 /\ j = L + 1 /\ IsLast(c, i)
                  /\ item.kind \in {"good", "eof"} /\ ~ Skipped(item)
  <2>1. FollowedBy(c, i, j)' <=>
          /\ Good(c, i)' /\ i < j /\ Quiet(c, i, j)'
          /\ stream'[c][j].kind \in {"good", "eof"} /\ ~ Skipped(stream'[c][j])
    BY DEF FollowedBy, Skipped
  <2>2. Quiet(c, i, j)' <=> Quiet(c, i, j)
    BY <1>1, <1>2
  <2>3. CASE i = L + 1
    BY <1>1, <2>1, <2>3
  <2>4. CASE i # L + 1 /\ j = L + 1
    <3>1. i \in 1..L
      BY <1>1, <2>4
    <3> QED BY <1>1, <1>2, <1>4, <2>1, <2>2, <2>4, <3>1
  <2>5. CASE i # L + 1 /\ j # L + 1
    <3>1. i \in 1..L /\ j \in 1..L
      BY <1>1, <2>5
    <3>2. stream'[c][j] = stream[c][j]
      BY <1>1, <3>1
    <3> QED BY <1>2, <2>1, <2>2, <2>5, <3>1, <3>2 DEF FollowedBy
  <2> QED BY <2>3, <2>4, <2>5
<1> QED BY <1>5, <1>6

\* Without a new item nothing of this changes.
LEMMA Unread ==
  ASSUME NEW c \in Conns, stream'[c] = stream[c]
  PROVE  /\ \A i : IsLast(c, i)' <=> IsLast(c, i)
         /\ \A i, j : FollowedBy(c, i, j)' <=> FollowedBy(c, i, j)
         /\ HasDump(c)' <=> HasDump(c)
<1>1. \A i : Good(c, i)' <=> Good(c, i)
  BY DEF Good
<1>2. \A i, j : Quiet(c, i, j)' <=> Quiet(c, i, j)
  BY DEF Quiet, Skipped
<1>3. \A i : IsLast(c, i)' <=> IsLast(c, i)
  BY <1>1, <1>2 DEF IsLast
<1>4. \A i, j : FollowedBy(c, i, j)' <=> FollowedBy(c, i, j)
  BY <1>1, <1>2 DEF FollowedBy, Skipped
<1>5. HasDump(c)' <=> HasDump(c)
  BY DEF HasDump
<1> QED BY <1>3, <1>4, <1>5

LEMMA StillFollowed ==
  ASSUME NEW c \in Conns, stream'[c] = stream[c], Stopped(c) => Stopped(c)'
  PROVE  \A i : Followed(c, i) => Followed(c, i)'
  BY Unread DEF Followed

\* A step that reads and writes nothing for the connection, and leaves what it
\* holds and what it submits alone, unless it drops them.
LEMMA Kept ==
  ASSUME NEW c \in Conns, Thread(c), InPlace(c)', stream'[c] = stream[c], written'[c] = written[c],
         Stopped(c) => Stopped(c)', lost \subseteq lost',
         Holding(c)' => Holding(c) /\ conn'[c].prev = conn[c].prev,
         Submitting(c)' => Submitting(c) /\ conn'[c].out = conn[c].out,
         \/ c \in lost'
         \/ conn[c].pc \in Submits => conn'[c].pc \in Submits /\ conn'[c].out = conn[c].out
  PROVE  Thread(c)'
<1>1. HoldsLast(c)'
  BY Unread DEF Thread, HoldsLast
<1>2. InOrder(c)' /\ \A n : Later(c, n)' <=> Later(c, n)
  BY DEF Thread, Ordered, InOrder, Later
<1>3. Ordered(c)'
  BY <1>2 DEF Thread, Ordered
<1>4. OnlyFollowed(c)'
  BY StillFollowed DEF Thread, OnlyFollowed
<1>5. SubmitsFollowed(c)'
  BY StillFollowed DEF Thread, SubmitsFollowed
<1>6. \A i : IsWritten(c, i)' <=> IsWritten(c, i)
  BY DEF IsWritten
<1>7. NoneLeft(c)'
  <2> SUFFICES ASSUME c \notin lost', NEW i \in DOMAIN stream[c], NEW j \in DOMAIN stream[c],
                      FollowedBy(c, i, j)
               PROVE  IsWritten(c, i)' \/ (conn'[c].pc \in Submits /\ conn'[c].out.n = i)
    BY Unread DEF NoneLeft
  <2>1. IsWritten(c, i) \/ (conn[c].pc \in Submits /\ conn[c].out.n = i)
    BY DEF Thread, NoneLeft
  <2> QED BY <1>6, <2>1
<1> QED BY <1>1, <1>3, <1>4, <1>5, <1>7 DEF Thread

-----------------------------------------------------------------------------
(* What a step leaves alone.                                               *)

LEMMA Untouched ==
  ASSUME NEW c \in Conns, Thread(c), conn'[c] = conn[c], stream'[c] = stream[c],
         written'[c] = written[c], lost \subseteq lost'
  PROVE  Thread(c)'
<1>1. InPlace(c)'
  BY DEF Thread, InPlace
<1>2. /\ Stopped(c) => Stopped(c)'
      /\ Holding(c)' => Holding(c) /\ conn'[c].prev = conn[c].prev
      /\ Submitting(c)' => Submitting(c) /\ conn'[c].out = conn[c].out
  BY DEF Stopped, Holding, Submitting
<1> QED BY <1>1, <1>2, Kept

LEMMA OwnKept ==
  ASSUME NEW c \in Conns, Own(c), InPlace(c), conn[c] \in Connection, clash' \in BOOLEAN,
         conn'[c].pc = "write" =>
           conn[c].pc = "write" /\ conn'[c].slot = conn[c].slot /\ conn'[c].out = conn[c].out,
         written'[c] = written[c],
         \A i \in Slots : Sessions[i] # NoSession => Sessions'[i] # NoSession,
         ~ clash' => ~ clash /\ \A i \in Slots : Sessions[i] # NoSession =>
                       Sessions'[i].tuple = Sessions[i].tuple
  PROVE  Own(c)'
<1>0. conn'[c].pc = "write" => Sessions'[conn'[c].slot] # NoSession
  BY DEF Own, InPlace
<1> SUFFICES ASSUME ~ clash'
             PROVE  /\ conn'[c].pc = "write" => Same(Sessions'[conn'[c].slot], conn'[c].out.tuple)
                    /\ \A k \in DOMAIN written'[c] : written'[c][k].own
  BY <1>0 DEF Own, Same
<1>1. \A k \in DOMAIN written'[c] : written'[c][k].own
  BY DEF Own
<1>2. ASSUME conn'[c].pc = "write"
      PROVE  Same(Sessions'[conn'[c].slot], conn'[c].out.tuple)
  <2>1. conn[c].slot \in Slots
    BY <1>2 DEF InPlace
  <2>2. Same(Sessions[conn[c].slot], conn[c].out.tuple)
    BY <1>2 DEF Own
  <2> QED BY <1>2, <2>1, <2>2 DEF Same
<1> QED BY <1>1, <1>2

LEMMA MarkedKept ==
  ASSUME NEW c \in Conns, Marked(c), conn[c] \in Connection,
         \A i \in Slots : Sessions[i] # NoSession => Sessions'[i] # NoSession, HasDump(c) => HasDump(c)',
         conn'[c].pc = "destroy" => conn[c].pc = "destroy" \/ HasDump(c)',
         conn'[c].pc = "mark" => conn[c].pc = "mark" /\ conn'[c].todo = conn[c].todo,
         conn'[c].pc = "gone" => conn[c].pc = "gone",
         \A i \in Slots :
           Sessions'[i].state = "established" /\ Sessions'[i].by = c /\ Sessions'[i].tuple.local = Address[c] =>
             Sessions[i].state = "established" /\ Sessions[i].by = c /\ Sessions[i].tuple.local = Address[c]
  PROVE  Marked(c)'
<1>1. conn'[c].pc = "destroy" => HasDump(c)'
  BY DEF Marked
<1>2. ASSUME NEW i \in Slots, Sessions'[i].state = "established", Sessions'[i].by = c,
             Sessions'[i].tuple.local = Address[c]
      PROVE  /\ conn'[c].pc = "mark" => i \in conn'[c].todo
             /\ conn'[c].pc = "gone" => HasDump(c)'
  BY <1>2 DEF Marked
<1>3. conn'[c].pc = "mark" => \A i \in conn'[c].todo : Sessions'[i] # NoSession
  BY DEF Marked, Connection
<1> QED BY <1>1, <1>2, <1>3 DEF Marked

\* Of a connection that a step leaves alone everything holds, if it leaves the
\* sessions alone too, or only changes those that it also makes its own.
LEMMA OthersKept ==
  ASSUME NEW c \in Conns, conn[c] \in Connection, Thread(c), Own(c), Marked(c),
         conn'[c] = conn[c], stream'[c] = stream[c], written'[c] = written[c], lost \subseteq lost',
         clash' \in BOOLEAN,
         \A i \in Slots : Sessions[i] # NoSession => Sessions'[i] # NoSession,
         ~ clash' => ~ clash /\ \A i \in Slots : Sessions[i] # NoSession =>
                       Sessions'[i].tuple = Sessions[i].tuple,
         \A i \in Slots : Sessions'[i] = Sessions[i] \/ Sessions'[i].state = "error" \/ Sessions'[i].by # c
  PROVE  Thread(c)' /\ Own(c)' /\ Marked(c)'
<1>1. Thread(c)'
  BY Untouched
<1>2. Own(c)'
  BY OwnKept DEF Thread
<1>3. Marked(c)'
  BY MarkedKept, Unread
<1> QED BY <1>1, <1>2, <1>3

-----------------------------------------------------------------------------
(* Reading.                                                                *)

LEMMA ReadThread ==
  ASSUME IInv, NEW c \in Conns, Read(c)
  PROVE  Thread(c)' /\ conn'[c] \in Connection
<1>1. /\ conn[c] \in Connection /\ conn \in [Conns -> Connection] /\ stream \in [Conns -> Seq(Items)]
      /\ written[c] \in Seq([n : Nat \ {0}, own : BOOLEAN]) /\ stream[c] \in Seq(Items)
  BY DEF IInv, Types
<1>2. Thread(c) /\ conn[c].pc = "read" /\ ~ conn[c].killed /\ written' = written /\ lost' = lost
  BY DEF Read, IInv
<1>3. PICK item \in Items : conn'[c] = After(c, item) /\ stream'[c] = Append(stream[c], item)
  BY <1>1 DEF Read
<1>4. PICK L \in Nat : L = Len(stream[c])
  BY <1>1
<1>5. PICK b \in Messages \cup {Nothing, Garbage} : b = Before(c, item)
  BY <1>1, <1>3, BeforeIs
<1>6. /\ b \in Messages => ~ Skipped(item) /\ b = conn[c].prev
      /\ ~ Skipped(item) => b = conn[c].prev
  BY <1>1, <1>5, BeforeIs, MessageIs
<1>7. /\ DOMAIN stream[c] = 1..L /\ DOMAIN stream'[c] = 1..(L + 1)
  BY <1>1, <1>3, <1>4, Appended
<1>8. /\ \A i \in 1..(L + 1) : IsLast(c, i)' <=>
              \/ i # L + 1 /\ IsLast(c, i) /\ item.kind = "ignored" /\ ~ Skipped(item)
              \/ i = L + 1 /\ item.kind = "good"
      /\ \A i, j \in 1..(L + 1) : FollowedBy(c, i, j)' <=>
              \/ i # L + 1 /\ j # L + 1 /\ FollowedBy(c, i, j)
              \/ /\ i # L + 1 /\ j = L + 1 /\ IsLast(c, i)
                 /\ item.kind \in {"good", "eof"} /\ ~ Skipped(item)
  BY <1>1, <1>3, <1>4, Reads
<1>9. item.kind \in Kinds
  BY <1>3, ItemIs
<1>10. /\ item.kind = "good" =>
            \E m \in Messages : m.n = L + 1 /\ Sets(conn'[c], c, m, b, FALSE)
       /\ item.kind = "eof" => Sets(conn'[c], c, Nothing, b, TRUE)
       /\ item.kind = "ignored" => Sets(conn'[c], c, b, Nothing, FALSE)
       /\ item.kind = "bad" => item.cut \in BOOLEAN /\ Sets(conn'[c], c, Nothing, Nothing, item.cut)
       /\ item.kind = "dump" => conn'[c] = [conn[c] EXCEPT !.pc = "destroy"]
  <2>1. ASSUME item.kind = "good"
        PROVE  \E m \in Messages : m.n = L + 1 /\ Sets(conn'[c], c, m, b, FALSE)
    <3>1. item.tuple \in Tuples /\ L + 1 \in Nat \ {0}
      BY <1>3, <1>4, <2>1, ItemIs
    <3>2. Message(L + 1, item.tuple) \in Messages /\ Message(L + 1, item.tuple).n = L + 1
      BY <3>1, MessageOf
    <3>3. Sets(conn'[c], c, Message(L + 1, item.tuple), b, FALSE)
      <4>1. Sets(After(c, item), c, Message(Len(stream[c]) + 1, item.tuple), Before(c, item), FALSE)
        BY <1>1, <2>1, AfterIs, Zenon
      <4> QED BY <1>3, <1>4, <1>5, <4>1, Zenon
    <3> QED BY <3>2, <3>3
  <2>2. ASSUME item.kind = "eof" PROVE Sets(conn'[c], c, Nothing, b, TRUE)
    <3>1. Sets(After(c, item), c, Nothing, Before(c, item), TRUE)
      BY <1>1, <2>2, AfterIs, Zenon
    <3> QED BY <1>3, <1>5, <3>1, Zenon
  <2>3. ASSUME item.kind = "ignored" PROVE Sets(conn'[c], c, b, Nothing, FALSE)
    <3>1. Sets(After(c, item), c, Before(c, item), Nothing, FALSE)
      BY <1>1, <2>3, AfterIs, Zenon
    <3> QED BY <1>3, <1>5, <3>1, Zenon
  <2>4. item.kind = "bad" => item.cut \in BOOLEAN
    BY <1>3, ItemIs
  <2>5. ASSUME item.kind = "bad" PROVE Sets(conn'[c], c, Nothing, Nothing, item.cut)
    <3>1. Sets(After(c, item), c, Nothing, Nothing, item.cut)
      BY <1>1, <2>5, AfterIs, Zenon
    <3> QED BY <1>3, <3>1, Zenon
  <2>6. item.kind = "dump" => conn'[c] = [conn[c] EXCEPT !.pc = "destroy"]
    BY <1>1, <1>3, AfterIs
  <2> QED BY <2>1, <2>2, <2>3, <2>4, <2>5, <2>6
<1>11. item.kind = "dump" => conn'[c].pc = "destroy" /\ conn'[c] \in Connection
  BY <1>1, <1>10 DEF Connection
\* What the kinds have in common.
<1>12. /\ conn'[c] \in Connection /\ conn'[c].pc \in {"find", "collect", "read", "destroy"}
       /\ conn'[c].pc = "read" => ~ conn'[c].ends
       /\ conn'[c].pc = "find" => item.kind \in {"good", "eof"} /\ conn'[c].out = b /\ b # Nothing
       /\ item.kind \in {"good", "eof"} /\ b # Nothing => conn'[c].pc = "find" /\ conn'[c].out = b
       /\ Holding(c)' =>
            \/ item.kind = "good" /\ conn'[c].prev \in Messages /\ conn'[c].prev.n = L + 1
            \/ item.kind = "ignored" /\ conn'[c].prev = b
            \/ item.kind = "bad" /\ conn'[c].prev = Nothing
  <2>1. CASE item.kind = "good"
    BY <1>10, <2>1 DEF Sets, Holding, Submits
  <2>2. CASE item.kind = "eof"
    BY <1>10, <2>2 DEF Sets, Holding, Submits
  <2>3. CASE item.kind = "ignored"
    BY <1>10, <2>3 DEF Sets, Holding, Submits
  <2>4. CASE item.kind = "bad"
    BY <1>10, <2>4 DEF Sets, Holding, Submits
  <2>5. CASE item.kind = "dump"
    BY <1>11, <2>5 DEF Holding, Submits
  <2> QED BY <1>9, <2>1, <2>2, <2>3, <2>4, <2>5 DEF Kinds
<1>13. InPlace(c)'
  BY <1>12, MessageIs DEF InPlace, Submits
<1>14. Holding(c) /\ (\A i \in Nat : IsLast(c, i) => conn[c].prev.n = i)
       /\ (conn[c].prev \in Messages => IsLast(c, conn[c].prev.n) /\ Later(c, conn[c].prev.n))
  BY <1>2 DEF Thread, InPlace, HoldsLast, Ordered, Holding
<1>15. b \in Messages =>
         IsLast(c, b.n) /\ Later(c, b.n) /\ b.n \in 1..L /\ ~ Skipped(item)
  BY <1>6, <1>7, <1>14 DEF IsLast
<1>16. HoldsLast(c)'
  <2> SUFFICES ASSUME Holding(c)'
               PROVE  /\ conn'[c].prev \in Messages => IsLast(c, conn[c].prev.n)'
                      /\ \A i \in Nat : IsLast(c, i)' => conn'[c].prev.n = i
    BY DEF HoldsLast
  <2>1. \A i : IsLast(c, i)' => i \in 1..(L + 1)
    BY <1>7 DEF IsLast
  <2>2. CASE item.kind = "good"
    <3>1. conn'[c].prev \in Messages /\ conn'[c].prev.n = L + 1
      BY <1>12, <2>2
    <3>2. PICK n \in Nat : n = conn'[c].prev.n /\ n = L + 1
      BY <1>4, <3>1
    <3>3. IsLast(c, n)'
      BY <1>4, <1>8, <2>2, <3>2
    <3>4. \A i \in Nat : IsLast(c, i)' => i = L + 1
      BY <1>8, <2>1, <2>2
    <3>5. IsLast(c, conn[c].prev.n)'
      BY <3>2, <3>3 DEF IsLast, Good, Quiet
    <3> QED BY <3>1, <3>4, <3>5
  <2>3. CASE item.kind = "ignored"
    <3>1. conn'[c].prev = b
      BY <1>12, <2>3
    <3>2. ASSUME b \in Messages PROVE IsLast(c, conn[c].prev.n)'
      <4>1. PICK n \in 1..(L + 1) : n = b.n /\ n # L + 1
        BY <1>4, <1>15, <3>2
      <4>2. IsLast(c, n)'
        BY <1>8, <1>15, <2>3, <3>2, <4>1
      <4> QED BY <3>1, <4>1, <4>2 DEF IsLast, Good, Quiet
    <3>3. ASSUME NEW i \in Nat, IsLast(c, i)' PROVE b.n = i
      <4>1. IsLast(c, i) /\ ~ Skipped(item)
        BY <1>8, <2>1, <2>3, <3>3
      <4> QED BY <1>6, <1>14, <4>1
    <3> QED BY <3>1, <3>2, <3>3
  <2>4. CASE item.kind = "bad"
    BY <1>8, <1>12, <2>1, <2>4, MessageIs
  <2> QED BY <1>12, <2>2, <2>3, <2>4
<1>17. InOrder(c)' /\ \A n : Later(c, n)' <=> Later(c, n)
  BY <1>2 DEF Thread, Ordered, InOrder, Later
<1>18. Later(c, L + 1)
  BY <1>2, <1>7 DEF Thread, OnlyFollowed, Later
<1>19. Submitting(c)' => b \in Messages /\ conn'[c].out = b /\ item.kind \in {"good", "eof"}
  BY <1>12 DEF Submitting, Submits
<1>20. Ordered(c)'
  <2>1. Submitting(c)' => Later(c, conn'[c].out.n)
    BY <1>15, <1>19
  <2>2. Holding(c)' /\ conn'[c].prev \in Messages => Later(c, conn'[c].prev.n)
    BY <1>12, <1>15, <1>18, MessageIs
  <2>3. Submitting(c)' /\ Holding(c)' /\ conn'[c].prev \in Messages => conn'[c].out.n < conn'[c].prev.n
    BY <1>4, <1>12, <1>15, <1>19
  <2> QED BY <1>17, <2>1, <2>2, <2>3 DEF Ordered, Later
<1>21. OnlyFollowed(c)'
  <2> SUFFICES ASSUME NEW k \in DOMAIN written[c]
               PROVE  written[c][k].n \in DOMAIN stream'[c] /\ Followed(c, written[c][k].n)'
    BY <1>2 DEF OnlyFollowed, Followed, FollowedBy, IsLast, Good, Quiet
  <2>1. PICK n \in 1..L : n = written[c][k].n
    BY <1>2, <1>7 DEF Thread, OnlyFollowed
  <2>2. Followed(c, n) /\ ~ Stopped(c)
    BY <1>2, <2>1 DEF Thread, OnlyFollowed, Stopped
  <2>3. PICK j \in 1..L : FollowedBy(c, n, j)
    BY <1>7, <2>2 DEF Followed
  <2>4. n \in 1..(L + 1) /\ j \in 1..(L + 1) /\ n # L + 1 /\ j # L + 1
    BY <1>4
  <2>5. FollowedBy(c, n, j)'
    BY <1>8, <2>3, <2>4
  <2>6. Followed(c, n)'
    BY <1>7, <2>4, <2>5 DEF Followed
  <2> QED BY <1>2, <1>7, <2>1, <2>4, <2>6 DEF Followed, FollowedBy, IsLast, Good, Quiet
<1>22. SubmitsFollowed(c)'
  <2> SUFFICES ASSUME Submitting(c)'
               PROVE  conn'[c].out.n \in DOMAIN stream'[c] /\ Followed(c, conn[c].out.n)'
    BY DEF SubmitsFollowed
  <2>1. PICK n \in 1..L : n = conn'[c].out.n /\ IsLast(c, n) /\ ~ Skipped(item)
    BY <1>15, <1>19
  <2>2. n \in 1..(L + 1) /\ L + 1 \in 1..(L + 1) /\ n # L + 1
    BY <1>4
  <2>3. PICK j \in 1..(L + 1) : j = L + 1
    BY <2>2
  <2>4. FollowedBy(c, n, j)'
    BY <1>8, <1>19, <2>1, <2>2, <2>3
  <2>5. Followed(c, n)'
    BY <1>7, <2>2, <2>3, <2>4 DEF Followed
  <2> QED BY <1>7, <2>1, <2>2, <2>5 DEF Followed, FollowedBy, IsLast, Good, Quiet
<1>23. NoneLeft(c)'
  <2> SUFFICES ASSUME c \notin lost, NEW i \in 1..(L + 1), NEW j \in 1..(L + 1), FollowedBy(c, i, j)'
               PROVE  IsWritten(c, i)' \/ (conn'[c].pc \in Submits /\ conn'[c].out.n = i)
    BY <1>2, <1>7 DEF NoneLeft
  <2>1. CASE i # L + 1 /\ j # L + 1 /\ FollowedBy(c, i, j)
    <3>1. i \in 1..L /\ j \in 1..L
      BY <1>4, <2>1
    <3>2. IsWritten(c, i)
      BY <1>2, <1>7, <2>1, <3>1 DEF Thread, NoneLeft, Submits
    <3> QED BY <1>2, <3>2 DEF IsWritten
  <2>2. CASE IsLast(c, i) /\ item.kind \in {"good", "eof"} /\ ~ Skipped(item)
    <3>1. b = conn[c].prev /\ i \in Nat /\ i # 0
      BY <1>6, <2>2
    <3>2. b.n = i
      BY <1>14, <2>2, <3>1
    <3>3. b # Nothing
      BY <3>1, <3>2, MessageIs
    <3> QED BY <1>12, <2>2, <3>2, <3>3 DEF Submits
  <2> QED BY <1>8, <2>1, <2>2
<1> QED BY <1>12, <1>13, <1>16, <1>20, <1>21, <1>22, <1>23 DEF Thread

LEMMA KilledThread ==
  ASSUME IInv, NEW c \in Conns, Killed(c)
  PROVE  Thread(c)' /\ conn'[c] \in Connection /\ conn'[c].pc \in {"find", "collect"}
<1> DEFINE e == [kind |-> "eof"]
<1>1. conn[c] \in Connection /\ conn \in [Conns -> Connection] /\ stream[c] \in Seq(Items)
  BY DEF IInv, Types
<1>2. Thread(c) /\ conn[c].pc = "read" /\ conn[c].killed /\ written' = written /\ lost' = lost
      /\ stream' = stream
  BY DEF Killed, IInv, histories
<1>3. e \in Items /\ e.kind = "eof" /\ ~ Skipped(e)
  BY EndIs
<1>4. conn'[c] = After(c, e)
  BY <1>1 DEF Killed
<1> HIDE DEF e
<1>5. PICK b \in Messages \cup {Nothing, Garbage} : b = conn[c].prev /\ b = Before(c, e)
  BY <1>1, <1>3, BeforeIs
<1>6. Sets(conn'[c], c, Nothing, b, TRUE)
  <2>1. Sets(After(c, e), c, Nothing, Before(c, e), TRUE)
    BY <1>1, <1>3, AfterIs, Zenon
  <2> QED BY <1>4, <1>5, <2>1, Zenon
<1>7. /\ conn'[c] \in Connection /\ conn'[c].pc \in {"find", "collect"}
      /\ conn'[c].out = b /\ conn'[c].ends
      /\ conn'[c].pc = "find" => b # Nothing
  BY <1>6 DEF Sets
<1>8. conn'[c].killed
  BY <1>2, <1>6 DEF Sets
<1>9. Holding(c) /\ ~ Holding(c)' /\ Stopped(c) /\ Stopped(c)'
  BY <1>2, <1>7, <1>8 DEF Thread, InPlace, Holding, Stopped
<1>10. b \in Messages => IsLast(c, b.n) /\ Later(c, b.n)
  BY <1>2, <1>5, <1>9 DEF Thread, HoldsLast, Ordered
<1>11. Submitting(c)' => b \in Messages
  BY <1>7 DEF Submitting, Submits
<1>12. InPlace(c)'
  BY <1>7, MessageIs DEF InPlace, Submits
<1>13. HoldsLast(c)'
  BY <1>9 DEF HoldsLast
<1>14. Ordered(c)'
  <2>1. InOrder(c)' /\ (Submitting(c)' => \A k \in DOMAIN written[c] : written[c][k].n < b.n)
    BY <1>2, <1>10, <1>11 DEF Thread, Ordered, InOrder, Later
  <2> QED BY <1>2, <1>7, <1>9, <2>1 DEF Ordered, Later
<1>15. OnlyFollowed(c)'
  BY <1>2, <1>9, StillFollowed DEF Thread, OnlyFollowed
<1>16. SubmitsFollowed(c)'
  <2> SUFFICES ASSUME Submitting(c)'
               PROVE  conn'[c].out.n \in DOMAIN stream'[c] /\ Followed(c, conn[c].out.n)'
    BY DEF SubmitsFollowed
  <2>1. IsLast(c, b.n)'
    BY <1>2, <1>10, <1>11, Unread
  <2>2. Followed(c, b.n)'
    BY <1>9, <2>1 DEF Followed
  <2>3. b.n \in DOMAIN stream'[c]
    BY <2>1 DEF IsLast
  <2> QED BY <1>7, <2>2, <2>3 DEF Followed, FollowedBy, IsLast, Good, Quiet
<1>17. NoneLeft(c)'
  <2> SUFFICES ASSUME c \notin lost, NEW i \in DOMAIN stream[c], NEW j \in DOMAIN stream[c],
                      FollowedBy(c, i, j)'
               PROVE  IsWritten(c, i)'
    BY <1>2 DEF NoneLeft
  <2>1. FollowedBy(c, i, j)
    BY <1>2, Unread
  <2>2. IsWritten(c, i)
    BY <1>2, <2>1 DEF Thread, NoneLeft, Submits
  <2> QED BY <1>2, <2>2 DEF IsWritten
<1> QED BY <1>7, <1>12, <1>13, <1>14, <1>15, <1>16, <1>17 DEF Thread

-----------------------------------------------------------------------------
(* Writing.                                                                *)

LEMMA SubmittedIs ==
  ASSUME NEW c \in Conns, conn[c] \in Connection
  PROVE  /\ Submitted(c) \in Connection /\ Submitted(c).out = Nothing
         /\ Submitted(c).pc = (IF conn[c].ends THEN "collect" ELSE "read")
         /\ Submitted(c).ends = conn[c].ends /\ Submitted(c).prev = conn[c].prev
         /\ Submitted(c).killed = conn[c].killed
<1> DEFINE pc == IF conn[c].ends THEN "collect" ELSE "read"
           r == [conn[c] EXCEPT !.out = Nothing, !.slot = 0, !.pc = pc]
<1>1. pc \in {"collect", "read"}
  OBVIOUS
<1>2. Submitted(c) = r
  BY DEF Submitted
<1> HIDE DEF pc
<1>3. r \in Connection
  <2>1. 0 \in 0..MaxSlots
    BY Constants
  <2> QED BY <1>1, <2>1 DEF Connection
<1>4. r.out = Nothing /\ r.pc = pc /\ r.prev = conn[c].prev
  BY DEF Connection
<1>5. r.ends = conn[c].ends
  BY DEF Connection
<1>6. r.killed = conn[c].killed
  BY DEF Connection
<1> HIDE DEF r
<1> QED BY <1>2, <1>3, <1>4, <1>5, <1>6 DEF pc

\* A message that gets no session: the thread goes on without having written it.
LEMMA LostThread ==
  ASSUME IInv, NEW c \in Conns, conn[c].pc \in Submits, conn'[c] = Submitted(c), stream'[c] = stream[c],
         written'[c] = written[c], lost' = lost \cup {c}
  PROVE  Thread(c)'
<1>1. conn[c] \in Connection /\ Thread(c)
  BY DEF IInv, Types
<1>2. /\ conn'[c].pc = (IF conn[c].ends THEN "collect" ELSE "read") /\ conn'[c].ends = conn[c].ends
      /\ conn'[c].prev = conn[c].prev /\ conn'[c].killed = conn[c].killed
  BY <1>1, SubmittedIs
<1>3. InPlace(c)'
  BY <1>2 DEF InPlace, Submits
<1>4. /\ Stopped(c) => Stopped(c)'
      /\ Holding(c)' => Holding(c) /\ conn'[c].prev = conn[c].prev
      /\ ~ Submitting(c)'
  BY <1>2 DEF Stopped, Holding, Submitting, Submits
<1> QED BY <1>1, <1>3, <1>4, Kept

LEMMA WriteThread ==
  ASSUME IInv, NEW c \in Conns, Write(c)
  PROVE  /\ Thread(c)' /\ conn'[c] = Submitted(c)
         /\ written' \in [Conns -> Seq([n : Nat \ {0}, own : BOOLEAN])]
         /\ \A d \in Conns \ {c} : written'[d] = written[d]
         /\ ~ clash => \A k \in DOMAIN written'[c] : written'[c][k].own
<1>1. /\ conn[c] \in Connection /\ conn \in [Conns -> Connection]
      /\ written \in [Conns -> Seq([n : Nat \ {0}, own : BOOLEAN])]
      /\ written[c] \in Seq([n : Nat \ {0}, own : BOOLEAN])
  BY DEF IInv, Types
<1>2. Thread(c) /\ conn[c].pc = "write" /\ lost' = lost /\ stream' = stream
  BY DEF Write, IInv
<1>3. conn'[c] = Submitted(c)
  BY <1>1 DEF Write
<1>4. /\ conn'[c].pc = (IF conn[c].ends THEN "collect" ELSE "read") /\ conn'[c].ends = conn[c].ends
      /\ conn'[c].prev = conn[c].prev /\ conn'[c].killed = conn[c].killed
  BY <1>1, <1>3, SubmittedIs
<1>5. Submitting(c) /\ conn[c].out \in Messages /\ conn[c].slot \in Slots
  BY <1>1, <1>2 DEF Thread, InPlace, Submitting, Submits, Connection
<1>6. PICK n \in Nat \ {0} : n = conn[c].out.n
  BY <1>5, MessageIs
<1>7. PICK own \in BOOLEAN : own = (Sessions[conn[c].slot].tuple = conn[c].out.tuple)
  OBVIOUS
<1> DEFINE w == written[c]
           x == [n |-> n, own |-> own]
<1>8. x \in [n : Nat \ {0}, own : BOOLEAN] /\ x.n = n /\ x.own = own
  OBVIOUS
<1>9. written' = [written EXCEPT ![c] = Append(w, x)]
  <2>1. written' = [written EXCEPT ![c] = Append(@, [n |-> conn[c].out.n,
                      own |-> Sessions[conn[c].slot].tuple = conn[c].out.tuple])]
    BY DEF Write
  <2> QED BY <1>6, <1>7, <2>1, Zenon
<1> HIDE DEF x
<1>10. PICK K \in Nat : K = Len(w)
  BY <1>1
<1>11. /\ written'[c] = Append(w, x) /\ DOMAIN w = 1..K /\ DOMAIN written'[c] = 1..(K + 1)
       /\ written'[c][K + 1] = x /\ \A k \in 1..K : written'[c][k] = w[k]
  BY <1>1, <1>8, <1>9, <1>10
<1>12. written' \in [Conns -> Seq([n : Nat \ {0}, own : BOOLEAN])]
       /\ \A d \in Conns \ {c} : written'[d] = written[d]
  BY <1>1, <1>8, <1>9
<1>13. InPlace(c)' /\ ~ Submitting(c)' /\ (Stopped(c) => Stopped(c)')
       /\ (Holding(c)' => Holding(c) /\ conn'[c].prev = conn[c].prev)
  <2>1. InPlace(c)'
    BY <1>4 DEF InPlace, Submits
  <2>2. ~ Submitting(c)'
    BY <1>4 DEF Submits, Submitting
  <2>3. Stopped(c) => Stopped(c)'
    BY <1>2, <1>4 DEF Stopped
  <2>4. Holding(c)' => Holding(c) /\ conn'[c].prev = conn[c].prev
    BY <1>2, <1>4 DEF Holding, Submits
  <2> QED BY <2>1, <2>2, <2>3, <2>4
<1>14. HoldsLast(c)'
  BY <1>2, <1>13, Unread DEF Thread, HoldsLast
<1>15. \A k \in 1..K : w[k].n < n /\ w[k].n \in Nat
  <2>1. \A k \in DOMAIN w : w[k] \in [n : Nat \ {0}, own : BOOLEAN]
    BY <1>1, ElementOf
  <2>2. \A k \in DOMAIN w : w[k].n < conn[c].out.n
    BY <1>2, <1>5 DEF Thread, Ordered, Later
  <2> QED BY <1>6, <1>11, <2>1, <2>2
<1>16. Ordered(c)'
  <2>1. InOrder(c)'
    <3> SUFFICES ASSUME NEW i \in 1..(K + 1), NEW j \in 1..(K + 1), i < j
                 PROVE  written'[c][i].n < written'[c][j].n
      BY <1>11 DEF InOrder
    <3>1. i \in 1..K
      BY <1>10
    <3>2. CASE j = K + 1
      BY <1>8, <1>11, <1>15, <3>1, <3>2
    <3>3. CASE j # K + 1
      <4>1. j \in 1..K
        BY <1>10, <3>3
      <4> QED BY <1>2, <1>11, <3>1, <4>1 DEF Thread, Ordered, InOrder
    <3> QED BY <3>2, <3>3
  <2>2. Holding(c)' /\ conn'[c].prev \in Messages =>
          \A k \in DOMAIN written'[c] : written'[c][k].n < conn'[c].prev.n
    <3> SUFFICES ASSUME Holding(c), conn[c].prev \in Messages, NEW k \in 1..(K + 1)
                 PROVE  written'[c][k].n < conn[c].prev.n
      BY <1>11, <1>13
    <3>1. n < conn[c].prev.n /\ \A i \in 1..K : w[i].n < conn[c].prev.n
      BY <1>2, <1>5, <1>6, <1>11 DEF Thread, Ordered, Later
    <3> QED BY <1>8, <1>11, <3>1
  <2> QED BY <1>13, <2>1, <2>2 DEF Ordered, Later
<1>17. \A i : Followed(c, i) => Followed(c, i)'
  BY <1>2, <1>13, StillFollowed
<1>18. OnlyFollowed(c)'
  <2> SUFFICES ASSUME NEW k \in 1..(K + 1)
               PROVE  written'[c][k].n \in DOMAIN stream[c] /\ Followed(c, written[c][k].n)'
    BY <1>2, <1>11 DEF OnlyFollowed
  <2>1. PICK i : i = written'[c][k].n
    OBVIOUS
  <2>2. i \in DOMAIN stream[c] /\ Followed(c, i)
    <3>1. CASE k = K + 1
      BY <1>2, <1>5, <1>6, <1>8, <1>11, <2>1, <3>1 DEF Thread, SubmitsFollowed
    <3>2. CASE k # K + 1
      <4>1. k \in 1..K
        BY <1>10, <3>2
      <4> QED BY <1>2, <1>11, <2>1, <4>1 DEF Thread, OnlyFollowed
    <3> QED BY <3>1, <3>2
  <2>3. Followed(c, i)'
    BY <1>17, <2>2
  <2> QED BY <2>1, <2>2, <2>3 DEF Followed, FollowedBy, IsLast, Good, Quiet
<1>19. NoneLeft(c)'
  <2> SUFFICES ASSUME c \notin lost, NEW i \in DOMAIN stream[c], NEW j \in DOMAIN stream[c],
                      FollowedBy(c, i, j)'
               PROVE  IsWritten(c, i)'
    BY <1>2 DEF NoneLeft
  <2>1. FollowedBy(c, i, j)
    BY <1>2, Unread
  <2>2. IsWritten(c, i) \/ n = i
    BY <1>2, <1>6, <2>1 DEF Thread, NoneLeft
  <2>3. K + 1 \in 1..(K + 1) /\ \A k \in 1..K : k \in 1..(K + 1)
    BY <1>10
  <2> QED BY <1>8, <1>11, <2>2, <2>3 DEF IsWritten
<1>20. SubmitsFollowed(c)'
  BY <1>13 DEF SubmitsFollowed
<1>21. ~ clash => \A k \in DOMAIN written'[c] : written'[c][k].own
  <2> SUFFICES ASSUME ~ clash, NEW k \in 1..(K + 1) PROVE written'[c][k].own
    BY <1>11
  <2>1. Own(c)
    BY DEF IInv
  <2>2. CASE k = K + 1
    <3>1. Same(Sessions[conn[c].slot], conn[c].out.tuple)
      BY <1>2, <2>1 DEF Own
    <3>2. own
      BY <1>7, <3>1 DEF Same
    <3> QED BY <1>8, <1>11, <2>2, <3>2
  <2>3. CASE k # K + 1
    <3>1. k \in 1..K
      BY <1>10, <2>3
    <3>2. written'[c][k] = w[k]
      BY <1>11, <3>1
    <3> QED BY <1>11, <2>1, <3>1, <3>2 DEF Own
  <2> QED BY <2>2, <2>3
<1> QED BY <1>3, <1>12, <1>13, <1>14, <1>16, <1>18, <1>19, <1>20, <1>21 DEF Thread

-----------------------------------------------------------------------------
(* The actions.                                                            *)

Rest(c) == \A d \in Conns \ {c} : Thread(d)' /\ Own(d)' /\ Marked(d)'

LEMMA OfIInv ==
  ASSUME IInv, NEW c \in Conns
  PROVE  conn[c] \in Connection /\ Thread(c) /\ Own(c) /\ Marked(c) /\ InPlace(c)
  BY DEF IInv, Types, Thread

\* The connections a step is not about, when the sessions stay.
LEMMA RestKept ==
  ASSUME IInv, NEW c \in Conns, \A d \in Conns \ {c} : conn'[d] = conn[d],
         \A d \in Conns \ {c} : stream'[d] = stream[d] /\ written'[d] = written[d],
         lost \subseteq lost', clash' = clash,
         \A i \in Slots : \/ Sessions'[i] = Sessions[i]
                          \/ /\ Sessions'[i].tuple = Sessions[i].tuple /\ Sessions'[i] # NoSession
                             /\ Sessions'[i].state = "error" \/ Sessions'[i].by = c
  PROVE  Rest(c)
<1> SUFFICES ASSUME NEW d \in Conns \ {c} PROVE Thread(d)' /\ Own(d)' /\ Marked(d)'
  BY DEF Rest
<1>1. conn[d] \in Connection /\ Thread(d) /\ Own(d) /\ Marked(d)
  BY OfIInv
<1>2. clash' \in BOOLEAN
  BY DEF IInv, Types
<1>3. \A i \in Slots : Sessions'[i] = Sessions[i] \/ Sessions'[i].state = "error" \/ Sessions'[i].by # d
  OBVIOUS
<1>4. \A i \in Slots : Sessions[i] # NoSession =>
        Sessions'[i] # NoSession /\ Sessions'[i].tuple = Sessions[i].tuple
  OBVIOUS
<1> QED BY <1>1, <1>2, <1>3, <1>4, OthersKept

\* A step of one thread that reads, writes and marks nothing.
LEMMA StepKept ==
  ASSUME IInv, NEW c \in Conns, conn' = [conn EXCEPT ![c] = conn'[c]], conn'[c] \in Connection,
         UNCHANGED <<Sessions, stream, written, clash>>, lost \subseteq lost', lost' \in SUBSET Conns,
         writers' \in Int, locked' \in BOOLEAN, up' \in BOOLEAN, shutdown' \in BOOLEAN,
         Thread(c)', Own(c)', Marked(c)'
  PROVE  IInv'
<1>1. Types'
  BY DEF IInv, Types
<1>2. Rest(c)
  <2>1. \A d \in Conns \ {c} : conn'[d] = conn[d]
    BY DEF IInv, Types
  <2> QED BY <2>1, RestKept
<1> QED BY <1>1, <1>2 DEF IInv, Rest

LEMMA ReadInv ==
  ASSUME IInv, NEW c \in Conns, Read(c)
  PROVE  IInv'
<1>1. Thread(c)' /\ conn'[c] \in Connection
  BY ReadThread
<1>2. /\ UNCHANGED <<Sessions, writers, locked, shutdown, written, lost, clash>>
      /\ conn[c].pc = "read" /\ Types /\ up' \in BOOLEAN
  BY DEF Read, IInv
<1>3. PICK item \in Items : /\ conn' = [conn EXCEPT ![c] = After(c, item)]
                            /\ stream' = [stream EXCEPT ![c] = Append(@, item)]
  BY DEF Read
<1>4. /\ conn' \in [Conns -> Connection] /\ stream' \in [Conns -> Seq(Items)]
      /\ stream'[c] = Append(stream[c], item) /\ stream[c] \in Seq(Items)
      /\ \A d \in Conns \ {c} : conn'[d] = conn[d] /\ stream'[d] = stream[d]
  BY <1>1, <1>2, <1>3 DEF Types
<1>5. Types'
  BY <1>2, <1>4 DEF Types
<1>6. Rest(c)
  BY <1>2, <1>4, RestKept
<1>7. item.kind \in Kinds /\ Own(c) /\ Marked(c) /\ InPlace(c) /\ conn[c] \in Connection
  BY <1>3, ItemIs, OfIInv
<1>8. PICK L \in Nat : L = Len(stream[c])
  BY <1>4
<1>9. /\ DOMAIN stream[c] = 1..L /\ DOMAIN stream'[c] = 1..(L + 1) /\ stream'[c][L + 1] = item
      /\ \A i \in 1..L : stream'[c][i] = stream[c][i]
  BY <1>3, <1>4, <1>8, Appended
<1>10. HasDump(c) => HasDump(c)'
  <2>1. \A i \in 1..L : i \in 1..(L + 1)
    BY <1>8
  <2> QED BY <1>9, <2>1 DEF HasDump
<1>11. item.kind = "dump" => HasDump(c)'
  <2>1. L + 1 \in 1..(L + 1)
    BY <1>8
  <2> QED BY <1>9, <2>1 DEF HasDump
<1>12. conn'[c].pc \in {"find", "collect", "read", "destroy"}
       /\ (conn'[c].pc = "destroy" => item.kind = "dump")
  <2>1. conn'[c] = After(c, item)
    BY <1>2, <1>3 DEF Types
  <2>2. item.kind # "dump" => conn'[c].pc \in {"find", "collect", "read"}
    <3>1. item.kind = "good" => \E p, o, e : Sets(conn'[c], c, p, o, e)
      BY <1>3, <1>4, <1>7, <2>1, AfterIs
    <3>2. item.kind = "eof" => \E p, o, e : Sets(conn'[c], c, p, o, e)
      BY <1>3, <1>4, <1>7, <2>1, AfterIs
    <3>3. item.kind = "ignored" => \E p, o, e : Sets(conn'[c], c, p, o, e)
      BY <1>3, <1>4, <1>7, <2>1, AfterIs
    <3>4. item.kind = "bad" => \E p, o, e : Sets(conn'[c], c, p, o, e)
      BY <1>3, <1>4, <1>7, <2>1, AfterIs
    <3>5. (\E p, o, e : Sets(conn'[c], c, p, o, e)) => conn'[c].pc \in {"find", "collect", "read"}
      BY DEF Sets
    <3> QED BY <1>7, <3>1, <3>2, <3>3, <3>4, <3>5 DEF Kinds
  <2>3. item.kind = "dump" => conn'[c].pc = "destroy"
    <3>1. item.kind = "dump" => conn'[c] = [conn[c] EXCEPT !.pc = "destroy"]
      BY <1>3, <1>4, <1>7, <2>1, AfterIs
    <3> QED BY <1>7, <3>1 DEF Connection
  <2> QED BY <2>2, <2>3
<1>13. Own(c)'
  BY <1>2, <1>7, <1>12, OwnKept DEF Types
<1>14. Marked(c)'
  BY <1>2, <1>7, <1>10, <1>11, <1>12, MarkedKept
<1> QED BY <1>1, <1>5, <1>6, <1>13, <1>14 DEF IInv, Rest

LEMMA KilledInv ==
  ASSUME IInv, NEW c \in Conns, Killed(c)
  PROVE  IInv'
<1>1. Thread(c)' /\ conn'[c] \in Connection /\ conn'[c].pc \in {"find", "collect"}
  BY KilledThread
<1>2. /\ UNCHANGED <<Sessions, writers, locked, up, shutdown, stream, written, lost, clash>>
      /\ Types /\ Own(c) /\ Marked(c) /\ InPlace(c) /\ conn[c] \in Connection
  BY OfIInv DEF Killed, histories, IInv
<1>3. conn' = [conn EXCEPT ![c] = conn'[c]]
  BY <1>2 DEF Killed, Types
<1>4. Own(c)'
  BY <1>1, <1>2, OwnKept DEF Types
<1>5. Marked(c)'
  BY <1>1, <1>2, Unread, MarkedKept
<1> QED BY <1>1, <1>2, <1>3, <1>4, <1>5, StepKept DEF Types

LEMMA EmptyDomain == DOMAIN <<>> = {}
  OBVIOUS

LEMMA EmptyThread ==
  ASSUME NEW c \in Conns, stream'[c] = <<>>, written'[c] = <<>>, InPlace(c)',
         conn'[c].pc \notin Submits, conn'[c].prev \notin Messages \/ conn'[c].pc # "read"
  PROVE  Thread(c)'
<1>1. DOMAIN stream'[c] = {} /\ DOMAIN written'[c] = {}
  BY EmptyDomain
<1>2. HoldsLast(c)'
  BY <1>1 DEF HoldsLast, Holding, IsLast
<1>3. Ordered(c)'
  BY <1>1 DEF Ordered, InOrder, Later, Submitting, Holding
<1>4. OnlyFollowed(c)' /\ NoneLeft(c)'
  BY <1>1 DEF OnlyFollowed, NoneLeft
<1>5. SubmitsFollowed(c)'
  BY DEF SubmitsFollowed, Submitting
<1> QED BY <1>2, <1>3, <1>4, <1>5 DEF Thread

LEMMA AcceptInv ==
  ASSUME IInv, NEW c \in Conns, Accept(c)
  PROVE  IInv'
<1>1. /\ UNCHANGED <<Sessions, up, shutdown, stream, written, lost, clash>>
      /\ Types /\ Thread(c) /\ Own(c) /\ Marked(c) /\ InPlace(c) /\ conn[c] \in Connection
      /\ conn[c].pc = "none"
  BY OfIInv DEF Accept, histories, IInv
<1>2. writers' \in Int /\ locked' \in BOOLEAN
  <2>1. writers \in Int /\ locked \in BOOLEAN
    BY <1>1 DEF Types
  <2>2. writers' = writers \/ writers' = writers + 1
    BY DEF Accept
  <2>3. locked' = locked \/ locked' = (writers = MaxWriters)
    BY DEF Accept
  <2>4. (writers = MaxWriters) \in BOOLEAN
    OBVIOUS
  <2>5. locked' \in BOOLEAN
    BY <2>1, <2>3, <2>4, Zenon
  <2>6. writers' \in Int
    BY <2>1, <2>2
  <2> QED BY <2>5, <2>6
<1>3. stream[c] = <<>> /\ written[c] = <<>>
  BY <1>1 DEF InPlace
<1>4. \/ conn' = [conn EXCEPT ![c].pc = "refused"]
      \/ \E prev \in {Nothing, Garbage} : conn' = [conn EXCEPT ![c].pc = "read", ![c].prev = prev]
  BY DEF Accept, Go
<1>5. /\ conn' = [conn EXCEPT ![c] = conn'[c]] /\ conn'[c] \in Connection
      /\ conn'[c].pc \in {"refused", "read"}
      /\ conn'[c].pc = "read" => conn'[c].prev \in {Nothing, Garbage}
  <2>1. CASE conn' = [conn EXCEPT ![c].pc = "refused"]
    BY <1>1, <2>1 DEF Types, Connection
  <2>2. CASE \E prev \in {Nothing, Garbage} : conn' = [conn EXCEPT ![c].pc = "read", ![c].prev = prev]
    <3>1. PICK prev \in {Nothing, Garbage} : conn' = [conn EXCEPT ![c].pc = "read", ![c].prev = prev]
      BY <2>2
    <3>2. conn'[c] = [conn[c] EXCEPT !.pc = "read", !.prev = prev] /\ conn' = [conn EXCEPT ![c] = conn'[c]]
      BY <1>1, <3>1 DEF Types
    <3> QED BY <1>1, <3>2 DEF Connection
  <2> QED BY <1>4, <2>1, <2>2
<1>6. conn'[c].ends = conn[c].ends
  <2>1. CASE conn' = [conn EXCEPT ![c].pc = "refused"]
    BY <1>1, <2>1 DEF Types, Connection
  <2>2. CASE \E prev \in {Nothing, Garbage} : conn' = [conn EXCEPT ![c].pc = "read", ![c].prev = prev]
    BY <1>1, <2>2 DEF Types, Connection
  <2> QED BY <1>4, <2>1, <2>2
<1>7. InPlace(c)'
  BY <1>1, <1>3, <1>5, <1>6 DEF InPlace, Submits
<1>8. Thread(c)'
  <2>1. conn'[c].prev \notin Messages \/ conn'[c].pc # "read"
    BY <1>5, MessageIs
  <2>2. conn'[c].pc \notin Submits
    BY <1>5 DEF Submits
  <2> QED BY <1>1, <1>3, <1>7, <2>1, <2>2, EmptyThread
<1>9. Own(c)'
  BY <1>1, <1>5, OwnKept DEF Types
<1>10. Marked(c)'
  BY <1>1, <1>5, Unread, MarkedKept
<1> QED BY <1>1, <1>2, <1>5, <1>8, <1>9, <1>10, StepKept DEF Types

LEMMA CrashInv ==
  ASSUME IInv, NEW c \in Conns, Crash(c)
  PROVE  IInv'
<1>1. /\ UNCHANGED <<conn, Sessions, writers, locked, shutdown, stream, written, lost, clash>> /\ up' = FALSE
      /\ Types /\ Thread(c) /\ Own(c) /\ Marked(c) /\ InPlace(c) /\ conn[c] \in Connection
  BY OfIInv DEF Crash, histories, IInv
<1>2. conn' = [conn EXCEPT ![c] = conn'[c]] /\ conn'[c] = conn[c]
  BY <1>1 DEF Types
<1>3. Thread(c)' /\ Own(c)' /\ Marked(c)'
  BY <1>1, <1>2, OthersKept DEF Types
<1> QED BY <1>1, <1>2, <1>3, StepKept DEF Types

LEMMA FindInv ==
  ASSUME IInv, NEW c \in Conns, Find(c)
  PROVE  IInv'
<1>1. /\ UNCHANGED <<Sessions, writers, locked, up, shutdown, stream, written, lost, clash>>
      /\ Types /\ Thread(c) /\ Own(c) /\ Marked(c) /\ InPlace(c) /\ conn[c] \in Connection
      /\ conn[c].pc = "find" /\ conn[c].out # Garbage
  BY OfIInv DEF Find, histories, IInv
<1> DEFINE F == {i \in Slots : Same(Sessions[i], conn[c].out.tuple)}
<1>2. \/ F # {} /\ conn' = [conn EXCEPT ![c].slot = Min(F), ![c].pc = "write"]
      \/ conn' = [conn EXCEPT ![c].pc = "scan"]
  BY DEF Find, Go
<1>3. F # {} => Min(F) \in F
  BY Constants, LeastIs
<1>4. PICK m : m = Min(F)
  OBVIOUS
<1>5. F # {} => m \in Slots /\ Same(Sessions[m], conn[c].out.tuple) /\ m \in 0..MaxSlots
  BY <1>3, <1>4 DEF Slots
<1>6. \/ F # {} /\ conn' = [conn EXCEPT ![c].slot = m, ![c].pc = "write"]
      \/ conn' = [conn EXCEPT ![c].pc = "scan"]
  BY <1>2, <1>4
<1> HIDE DEF F
<1>7. /\ conn' = [conn EXCEPT ![c] = conn'[c]]
      /\ \/ F # {} /\ conn'[c] = [conn[c] EXCEPT !.slot = m, !.pc = "write"]
         \/ conn'[c] = [conn[c] EXCEPT !.pc = "scan"]
  BY <1>1, <1>6 DEF Types
<1>8. /\ conn'[c] \in Connection /\ conn'[c].pc \in {"write", "scan"}
      /\ conn'[c].prev = conn[c].prev /\ conn'[c].out = conn[c].out
      /\ conn'[c].pc = "write" => conn'[c].slot = m /\ F # {}
  BY <1>1, <1>5, <1>7 DEF Connection, Submits
<1>9. conn'[c].ends = conn[c].ends
  BY <1>1, <1>7 DEF Connection
<1>10. conn'[c].killed = conn[c].killed
  BY <1>1, <1>7 DEF Connection
<1>11. InPlace(c)'
  BY <1>1, <1>5, <1>8 DEF InPlace, Submits
<1>12. /\ Stopped(c) => Stopped(c)'
       /\ Holding(c)' => Holding(c) /\ conn'[c].prev = conn[c].prev
       /\ Submitting(c)' => Submitting(c) /\ conn'[c].out = conn[c].out
  <2>1. Stopped(c) => Stopped(c)'
    BY <1>1, <1>10 DEF Stopped
  <2>2. Holding(c)' => Holding(c) /\ conn'[c].prev = conn[c].prev
    BY <1>1, <1>8, <1>9 DEF Holding, Submits
  <2>3. Submitting(c)' => Submitting(c) /\ conn'[c].out = conn[c].out
    BY <1>1, <1>8 DEF Submitting, Submits
  <2> QED BY <2>1, <2>2, <2>3
<1>13. Thread(c)'
  <2>1. conn[c].pc \in Submits => conn'[c].pc \in Submits /\ conn'[c].out = conn[c].out
    BY <1>8 DEF Submits
  <2> QED BY <1>1, <1>11, <1>12, <2>1, Kept
<1>14. Own(c)'
  BY <1>1, <1>5, <1>8 DEF Own, Same
<1>15. Marked(c)'
  BY <1>1, <1>8, Unread, MarkedKept
<1> QED BY <1>1, <1>7, <1>8, <1>13, <1>14, <1>15, StepKept DEF Types

\* A message is lost, without or with the queue left locked.
LEMMA DropsInv ==
  ASSUME IInv, NEW c \in Conns, conn[c].pc \in Submits, conn' = [conn EXCEPT ![c] = Submitted(c)],
         lost' = lost \cup {c}, locked' \in BOOLEAN,
         UNCHANGED <<Sessions, writers, up, shutdown, stream, written, clash>>
  PROVE  IInv'
<1>1. Types /\ Own(c) /\ Marked(c) /\ InPlace(c) /\ conn[c] \in Connection
  BY OfIInv DEF IInv
<1>2. conn'[c] = Submitted(c) /\ conn' = [conn EXCEPT ![c] = conn'[c]]
  BY <1>1 DEF Types
<1>3. conn'[c] \in Connection /\ conn'[c].pc \in {"collect", "read"}
  BY <1>1, <1>2, SubmittedIs
<1>4. Thread(c)'
  BY <1>2, LostThread
<1>5. Own(c)'
  BY <1>1, <1>3, OwnKept DEF Types
<1>6. Marked(c)'
  BY <1>1, <1>3, Unread, MarkedKept
<1>7. lost \subseteq lost' /\ lost' \in SUBSET Conns
  BY <1>1 DEF Types
<1> QED BY <1>1, <1>2, <1>3, <1>4, <1>5, <1>6, <1>7, StepKept DEF Types

LEMMA ScanInv ==
  ASSUME IInv, NEW c \in Conns, Scan(c)
  PROVE  IInv'
<1>1. /\ UNCHANGED <<Sessions, writers, locked, up, shutdown, stream, written, clash>>
      /\ Types /\ Thread(c) /\ Own(c) /\ Marked(c) /\ InPlace(c) /\ conn[c] \in Connection
      /\ conn[c].pc = "scan"
  BY OfIInv DEF Scan, IInv
<1> DEFINE F == {i \in Slots : Sessions[i] = NoSession}
<1>2. CASE F # {}
  <2>1. conn' = [conn EXCEPT ![c].slot = Min(F), ![c].pc = "insert"] /\ lost' = lost
    BY <1>2 DEF Scan
  <2>2. PICK m \in Slots : m = Min(F)
    BY <1>2, Constants, LeastIs
  <2>3. m \in 0..MaxSlots
    BY DEF Slots
  <2> HIDE DEF F
  <2>4. conn' = [conn EXCEPT ![c] = conn'[c]] /\ conn'[c] = [conn[c] EXCEPT !.slot = m, !.pc = "insert"]
    BY <1>1, <2>1, <2>2 DEF Types
  <2>5. /\ conn'[c] \in Connection /\ conn'[c].pc = "insert" /\ conn'[c].slot = m
        /\ conn'[c].prev = conn[c].prev /\ conn'[c].out = conn[c].out
    BY <1>1, <2>3, <2>4 DEF Connection, Submits
  <2>6. conn'[c].ends = conn[c].ends
    BY <1>1, <2>4 DEF Connection
  <2>7. conn'[c].killed = conn[c].killed
    BY <1>1, <2>4 DEF Connection
  <2>8. InPlace(c)'
    BY <1>1, <2>2, <2>5 DEF InPlace, Submits
  <2>9. Stopped(c) => Stopped(c)'
    BY <1>1, <2>7 DEF Stopped
  <2>10. Holding(c)' => Holding(c) /\ conn'[c].prev = conn[c].prev
    BY <1>1, <2>5, <2>6 DEF Holding, Submits
  <2>11. Submitting(c)' => Submitting(c) /\ conn'[c].out = conn[c].out
    BY <1>1, <2>5 DEF Submitting, Submits
  <2>12. Thread(c)'
    <3>1. conn[c].pc \in Submits => conn'[c].pc \in Submits /\ conn'[c].out = conn[c].out
      BY <2>5 DEF Submits
    <3> QED BY <1>1, <2>1, <2>8, <2>9, <2>10, <2>11, <3>1, Kept
  <2>13. Own(c)'
    BY <1>1, <2>5, OwnKept DEF Types
  <2>14. Marked(c)'
    BY <1>1, <2>5, Unread, MarkedKept
  <2> QED BY <1>1, <2>1, <2>4, <2>5, <2>12, <2>13, <2>14, StepKept DEF Types
<1>3. CASE F = {}
  <2>1. conn' = [conn EXCEPT ![c] = Submitted(c)] /\ lost' = lost \cup {c}
    BY <1>3 DEF Scan
  <2> QED BY <1>1, <2>1, DropsInv DEF Submits, Types
<1> QED BY <1>2, <1>3

LEMMA InsertInv ==
  ASSUME IInv, NEW c \in Conns, Insert(c)
  PROVE  IInv'
<1>1. /\ UNCHANGED <<up, shutdown, stream, written>>
      /\ Types /\ Thread(c) /\ Own(c) /\ Marked(c) /\ InPlace(c) /\ conn[c] \in Connection
      /\ conn[c].pc = "insert"
  BY OfIInv DEF Insert, IInv
<1>2. CASE writers = MaxWriters
  <2>1. /\ locked' = TRUE /\ conn' = [conn EXCEPT ![c] = Submitted(c)] /\ lost' = lost \cup {c}
        /\ UNCHANGED <<Sessions, writers, clash>>
    BY <1>2 DEF Insert
  <2> QED BY <1>1, <2>1, DropsInv DEF Submits
<1>3. CASE writers # MaxWriters
  <2>1. PICK m \in Slots : m = conn[c].slot
    BY <1>1 DEF InPlace
  <2>2. conn[c].out \in Messages /\ conn[c].out.tuple \in Tuples
    <3>1. conn[c].out \in Messages
      BY <1>1 DEF InPlace, Submits, Connection
    <3> QED BY <3>1, MessageIs
  <2> DEFINE x == [state |-> "established", tuple |-> conn[c].out.tuple, by |-> c]
  <2>3. /\ writers' = writers + 1 /\ clash' = (clash \/ Sessions[m] # NoSession)
        /\ Sessions' = [Sessions EXCEPT ![m] = x] /\ conn' = [conn EXCEPT ![c].pc = "write"]
        /\ locked' = locked /\ lost' = lost
    BY <1>3, <2>1 DEF Insert, Go
  <2>4. x \in Session /\ x.tuple = conn[c].out.tuple /\ x.by = c /\ x.state = "established" /\ x # NoSession
    <3>1. x \in Session /\ x.tuple = conn[c].out.tuple /\ x.by = c /\ x.state = "established"
      BY <2>2 DEF Session
    <3>2. NoSession.state = "none"
      BY DEF NoSession
    <3> HIDE DEF x
    <3> QED BY <3>1, <3>2
  <2> HIDE DEF x
  <2>5. Sessions' \in [Slots -> Session \cup {NoSession}] /\ Sessions'[m] = x
        /\ \A i \in Slots \ {m} : Sessions'[i] = Sessions[i]
    BY <1>1, <2>3, <2>4 DEF Types
  <2>6. conn' = [conn EXCEPT ![c] = conn'[c]] /\ conn'[c] = [conn[c] EXCEPT !.pc = "write"]
    BY <1>1, <2>3 DEF Types
  <2>7. /\ conn'[c] \in Connection /\ conn'[c].pc = "write" /\ conn'[c].slot = m
        /\ conn'[c].prev = conn[c].prev /\ conn'[c].out = conn[c].out
    BY <1>1, <2>1, <2>6 DEF Connection, Submits
  <2>8. conn'[c].ends = conn[c].ends
    BY <1>1, <2>6 DEF Connection
  <2>9. conn'[c].killed = conn[c].killed
    BY <1>1, <2>6 DEF Connection
  <2>10. clash' \in BOOLEAN /\ (~ clash' => ~ clash /\ Sessions[m] = NoSession)
    <3>1. clash \in BOOLEAN
      BY <1>1 DEF Types
    <3> QED BY <2>3, <3>1, Zenon
  <2>11. Types'
    BY <1>1, <2>3, <2>5, <2>6, <2>7, <2>10 DEF Types
  <2>12. Thread(c)'
    <3>1. InPlace(c)'
      BY <1>1, <2>1, <2>7 DEF InPlace, Submits
    <3>2. Stopped(c) => Stopped(c)'
      BY <1>1, <2>9 DEF Stopped
    <3>3. Holding(c)' => Holding(c) /\ conn'[c].prev = conn[c].prev
      BY <1>1, <2>7, <2>8 DEF Holding, Submits
    <3>4. Submitting(c)' => Submitting(c) /\ conn'[c].out = conn[c].out
      BY <1>1, <2>7 DEF Submitting, Submits
    <3>5. conn[c].pc \in Submits => conn'[c].pc \in Submits /\ conn'[c].out = conn[c].out
      BY <2>7 DEF Submits
    <3> QED BY <1>1, <2>3, <3>1, <3>2, <3>3, <3>4, <3>5, Kept
  <2>13. Own(c)'
    BY <1>1, <2>4, <2>5, <2>7, <2>10 DEF Own, Same
  <2>14. Marked(c)'
    <3>1. HasDump(c) => HasDump(c)'
      BY <1>1, Unread
    <3> QED BY <2>7 DEF Marked
  <2>15. Rest(c)
    <3> SUFFICES ASSUME NEW d \in Conns \ {c} PROVE Thread(d)' /\ Own(d)' /\ Marked(d)'
      BY DEF Rest
    <3>1. conn'[d] = conn[d]
      BY <1>1, <2>6 DEF Types
    <3>2. conn[d] \in Connection /\ Thread(d) /\ Own(d) /\ Marked(d)
      BY OfIInv
    <3>3. \A i \in Slots : Sessions'[i] = Sessions[i] \/ Sessions'[i].state = "error" \/ Sessions'[i].by # d
      BY <2>4, <2>5
    <3>4. \A i \in Slots : Sessions[i] # NoSession => Sessions'[i] # NoSession
      BY <2>4, <2>5
    <3>5. ~ clash' => ~ clash /\ \A i \in Slots : Sessions[i] # NoSession =>
                       Sessions'[i].tuple = Sessions[i].tuple
      BY <2>5, <2>10
    <3> QED BY <1>1, <2>3, <2>10, <3>1, <3>2, <3>3, <3>4, <3>5, OthersKept
  <2> QED BY <2>11, <2>12, <2>13, <2>14, <2>15 DEF IInv, Rest
<1> QED BY <1>2, <1>3

LEMMA WriteInv ==
  ASSUME IInv, NEW c \in Conns, Write(c)
  PROVE  IInv'
<1>1. /\ UNCHANGED <<writers, locked, up, shutdown, stream, lost, clash>>
      /\ Types /\ Thread(c) /\ Own(c) /\ Marked(c) /\ InPlace(c) /\ conn[c] \in Connection
      /\ conn[c].pc = "write"
  BY OfIInv DEF Write, IInv
<1>2. /\ Thread(c)' /\ conn'[c] = Submitted(c)
      /\ written' \in [Conns -> Seq([n : Nat \ {0}, own : BOOLEAN])]
      /\ \A d \in Conns \ {c} : written'[d] = written[d]
      /\ ~ clash => \A k \in DOMAIN written'[c] : written'[c][k].own
  BY WriteThread
<1>3. conn'[c] \in Connection /\ conn'[c].pc \in {"collect", "read"}
  BY <1>1, <1>2, SubmittedIs
<1>4. PICK m \in Slots : m = conn[c].slot
  BY <1>1 DEF InPlace
<1>5. Sessions[m] \in Session
  BY <1>1, <1>4 DEF Own, Types
<1>6. Sessions' = [Sessions EXCEPT ![m].state = "established", ![m].by = c] /\ conn' = [conn EXCEPT ![c] = Submitted(c)]
  BY <1>4 DEF Write
<1>7. /\ Sessions'[m] = [[Sessions[m] EXCEPT !.state = "established"] EXCEPT !.by = c]
      /\ \A i \in Slots \ {m} : Sessions'[i] = Sessions[i]
      /\ Sessions' = [Sessions EXCEPT ![m] = Sessions'[m]]
  BY <1>1, <1>6 DEF Types
<1>8. /\ Sessions'[m] \in Session /\ Sessions'[m].tuple = Sessions[m].tuple /\ Sessions'[m].by = c
      /\ Sessions'[m] # NoSession
  <2>1. /\ Sessions'[m] \in Session /\ Sessions'[m].tuple = Sessions[m].tuple /\ Sessions'[m].by = c
        /\ Sessions'[m].state = "established"
    BY <1>5, <1>7 DEF Session
  <2> QED BY <2>1 DEF NoSession
<1>9. Types'
  BY <1>1, <1>2, <1>3, <1>6, <1>7, <1>8 DEF Types
<1>10. Own(c)'
  BY <1>1, <1>2, <1>3 DEF Own
<1>11. Marked(c)'
  BY <1>3 DEF Marked
<1>12. Rest(c)
  <2>1. \A d \in Conns \ {c} : conn'[d] = conn[d] /\ stream'[d] = stream[d] /\ written'[d] = written[d]
    BY <1>1, <1>2, <1>6 DEF Types
  <2>2. \A i \in Slots : \/ Sessions'[i] = Sessions[i]
                         \/ /\ Sessions'[i].tuple = Sessions[i].tuple /\ Sessions'[i] # NoSession
                            /\ Sessions'[i].state = "error" \/ Sessions'[i].by = c
    BY <1>7, <1>8
  <2> QED BY <1>1, <2>1, <2>2, RestKept
<1> QED BY <1>2, <1>9, <1>10, <1>11, <1>12 DEF IInv, Rest

LEMMA CollectInv ==
  ASSUME IInv, NEW c \in Conns, Collect(c)
  PROVE  IInv'
<1>1. /\ UNCHANGED <<Sessions, writers, locked, up, shutdown, stream, written, lost, clash>>
      /\ Types /\ Thread(c) /\ Own(c) /\ Marked(c) /\ InPlace(c) /\ conn[c] \in Connection
      /\ conn[c].pc = "collect"
  BY OfIInv DEF Collect, histories, IInv
<1>2. conn' = [conn EXCEPT ![c] = conn'[c]] /\ conn'[c] = [conn[c] EXCEPT !.todo = Established, !.pc = "mark"]
  BY <1>1 DEF Collect, Types
<1>3. Established \in SUBSET Slots /\ \A i \in Established : Sessions[i] # NoSession
  BY DEF Established, NoSession
<1>4. conn'[c] \in Connection /\ conn'[c].pc = "mark" /\ conn'[c].todo = Established
  BY <1>1, <1>2, <1>3 DEF Connection
<1>5. conn'[c].killed = conn[c].killed
  BY <1>1, <1>2 DEF Connection
<1>6. Thread(c)'
  <2>1. InPlace(c)' /\ ~ Holding(c)' /\ ~ Submitting(c)' /\ conn[c].pc \notin Submits
    BY <1>1, <1>4 DEF InPlace, Submits, Holding, Submitting
  <2>2. Stopped(c) => Stopped(c)'
    BY <1>1, <1>5 DEF Stopped
  <2> QED BY <1>1, <2>1, <2>2, Kept
<1>7. Own(c)'
  BY <1>1, <1>4, OwnKept DEF Types
<1>8. Marked(c)'
  BY <1>1, <1>3, <1>4 DEF Marked, Established
<1> QED BY <1>1, <1>2, <1>4, <1>6, <1>7, <1>8, StepKept DEF Types

LEMMA MarkInv ==
  ASSUME IInv, NEW c \in Conns, Mark(c)
  PROVE  IInv'
<1>1. /\ UNCHANGED <<writers, locked, up, shutdown, stream, written, lost, clash>>
      /\ Types /\ Thread(c) /\ Own(c) /\ Marked(c) /\ InPlace(c) /\ conn[c] \in Connection
      /\ conn[c].pc = "mark" /\ conn[c].todo # {}
  BY OfIInv DEF Mark, histories, IInv
<1>2. conn[c].todo \in SUBSET Slots
  BY <1>1 DEF Connection
<1>3. PICK m \in conn[c].todo : m = Min(conn[c].todo)
  BY <1>1, <1>2, Constants, LeastIs
<1>4. /\ Sessions' = IF Ours(c, m) THEN [Sessions EXCEPT ![m].state = "error"] ELSE Sessions
      /\ conn' = [conn EXCEPT ![c].todo = @ \ {m}]
  BY <1>3 DEF Mark
<1>5. Sessions[m] \in Session /\ m \in Slots
  BY <1>1, <1>2, <1>3 DEF Marked, Types
<1>6. /\ \A i \in Slots \ {m} : Sessions'[i] = Sessions[i]
      /\ Sessions' = [Sessions EXCEPT ![m] = Sessions'[m]]
      /\ Sessions'[m] = IF Ours(c, m) THEN [Sessions[m] EXCEPT !.state = "error"] ELSE Sessions[m]
  BY <1>1, <1>4, <1>5 DEF Types
<1>7. /\ Sessions'[m] \in Session /\ Sessions'[m].tuple = Sessions[m].tuple /\ Sessions'[m].by = Sessions[m].by
      /\ Ours(c, m) => Sessions'[m].state = "error"
      /\ ~ Ours(c, m) => Sessions'[m] = Sessions[m]
  BY <1>5, <1>6 DEF Session
<1>8. Sessions'[m] # NoSession
  BY <1>7 DEF Session, NoSession
<1>9. /\ conn' = [conn EXCEPT ![c] = conn'[c]] /\ conn'[c] = [conn[c] EXCEPT !.todo = conn[c].todo \ {m}]
      /\ \A d \in Conns \ {c} : conn'[d] = conn[d]
  BY <1>1, <1>4 DEF Types
<1>10. conn'[c] \in Connection /\ conn'[c].pc = "mark" /\ conn'[c].todo = conn[c].todo \ {m}
  BY <1>1, <1>2, <1>9 DEF Connection
<1>11. conn'[c].killed = conn[c].killed
  BY <1>1, <1>9 DEF Connection
<1>12. Types'
  BY <1>1, <1>6, <1>7, <1>9, <1>10 DEF Types
<1>13. Thread(c)'
  <2>1. InPlace(c)' /\ ~ Holding(c)' /\ ~ Submitting(c)' /\ conn[c].pc \notin Submits
    BY <1>1, <1>10 DEF InPlace, Submits, Holding, Submitting
  <2>2. Stopped(c) => Stopped(c)'
    BY <1>1, <1>11 DEF Stopped
  <2> QED BY <1>1, <2>1, <2>2, Kept
<1>14. Own(c)'
  <2>1. clash' \in BOOLEAN /\ conn'[c].pc # "write"
    BY <1>1, <1>10 DEF Types
  <2> QED BY <1>1, <2>1 DEF Own
<1>15. Marked(c)'
  <2>1. \A i \in conn'[c].todo : Sessions'[i] # NoSession
    BY <1>1, <1>2, <1>6, <1>8, <1>10 DEF Marked
  <2>2. ASSUME NEW i \in Slots, Sessions'[i].state = "established", Sessions'[i].by = c,
               Sessions'[i].tuple.local = Address[c]
        PROVE  i \in conn'[c].todo
    <3>1. CASE i = m
      <4>1. ~ Ours(c, m)
        BY <1>7, <2>2, <3>1
      <4> QED BY <1>7, <2>2, <3>1, <4>1 DEF Ours
    <3>2. CASE i # m
      BY <1>1, <1>6, <1>10, <2>2, <3>2 DEF Marked
    <3> QED BY <3>1, <3>2
  <2> QED BY <1>10, <2>1, <2>2 DEF Marked
<1>16. Rest(c)
  <2>1. \A i \in Slots : \/ Sessions'[i] = Sessions[i]
                         \/ /\ Sessions'[i].tuple = Sessions[i].tuple /\ Sessions'[i] # NoSession
                            /\ Sessions'[i].state = "error" \/ Sessions'[i].by = c
    BY <1>6, <1>7, <1>8
  <2> QED BY <1>1, <1>9, <2>1, RestKept
<1> QED BY <1>12, <1>13, <1>14, <1>15, <1>16 DEF IInv, Rest

LEMMA DestroyInv ==
  ASSUME IInv, NEW c \in Conns, Destroy(c)
  PROVE  IInv'
<1>1. /\ UNCHANGED <<Sessions, locked, up, shutdown, stream, written, lost, clash>>
      /\ Types /\ Thread(c) /\ Own(c) /\ Marked(c) /\ InPlace(c) /\ conn[c] \in Connection
      /\ conn[c].pc \in {"mark", "destroy"} /\ conn[c].todo = {} /\ writers' = writers - 1
  BY OfIInv DEF Destroy, histories, IInv
<1>2. conn' = [conn EXCEPT ![c] = conn'[c]] /\ conn'[c] = [NoConn EXCEPT !.pc = "gone"]
  BY <1>1 DEF Destroy, Types
<1>3. 0 \in 0..MaxSlots
  BY Constants
<1>4. conn'[c] \in Connection /\ conn'[c].pc = "gone"
  BY <1>2, <1>3 DEF Connection, NoConn
<1>5. Thread(c)'
  <2>1. InPlace(c)' /\ ~ Holding(c)' /\ ~ Submitting(c)' /\ conn[c].pc \notin Submits /\ Stopped(c)'
    BY <1>1, <1>4 DEF InPlace, Submits, Holding, Submitting, Stopped
  <2> QED BY <1>1, <2>1, Kept
<1>6. Own(c)'
  BY <1>1, <1>4, OwnKept DEF Types
<1>7. Marked(c)'
  <2>1. HasDump(c)' <=> HasDump(c)
    BY <1>1, Unread
  <2> QED BY <1>1, <1>4, <2>1 DEF Marked
<1>8. writers' \in Int
  BY <1>1 DEF Types
<1> QED BY <1>1, <1>2, <1>4, <1>5, <1>6, <1>7, <1>8, StepKept DEF Types

LEMMA ShutdownInv ==
  ASSUME IInv, Shutdown
  PROVE  IInv'
<1>1. /\ UNCHANGED <<Sessions, writers, locked, up, stream, written, lost, clash>> /\ shutdown' = TRUE /\ Types
      /\ conn' = [c \in Conns |-> [conn[c] EXCEPT !.killed = c \in Active]]
  BY DEF Shutdown, histories, IInv
<1>2. ASSUME NEW c \in Conns
      PROVE  /\ conn'[c] \in Connection /\ conn'[c].pc = conn[c].pc /\ conn'[c].prev = conn[c].prev
             /\ conn'[c].out = conn[c].out /\ conn'[c].slot = conn[c].slot /\ conn'[c].todo = conn[c].todo
             /\ conn'[c].ends = conn[c].ends /\ conn'[c].killed = (c \in Active)
             /\ conn[c] \in Connection
  <2>1. conn[c] \in Connection /\ conn'[c] = [conn[c] EXCEPT !.killed = c \in Active]
    BY <1>1, OfIInv
  <2>2. PICK k \in BOOLEAN : k = (c \in Active)
    <3>1. (c \in Active) \in BOOLEAN
      OBVIOUS
    <3> QED BY <3>1, Zenon
  <2>3. conn'[c] = [conn[c] EXCEPT !.killed = k]
    BY <2>1, <2>2, Zenon
  <2>4. conn'[c] \in Connection /\ conn'[c].pc = conn[c].pc /\ conn'[c].prev = conn[c].prev
    BY <2>1, <2>3 DEF Connection
  <2>5. conn'[c].out = conn[c].out /\ conn'[c].slot = conn[c].slot /\ conn'[c].todo = conn[c].todo
    BY <2>1, <2>3 DEF Connection
  <2>6. conn'[c].ends = conn[c].ends
    BY <2>1, <2>3 DEF Connection
  <2>7. conn'[c].killed = k
    BY <2>1, <2>3 DEF Connection
  <2> QED BY <2>1, <2>2, <2>4, <2>5, <2>6, <2>7, Zenon
<1>3. Types'
  <2>1. conn' \in [Conns -> Connection]
    BY <1>1, <1>2
  <2> QED BY <1>1, <2>1 DEF Types
<1>4. ASSUME NEW c \in Conns PROVE Thread(c)' /\ Own(c)' /\ Marked(c)'
  <2>1. /\ conn'[c].pc = conn[c].pc /\ conn'[c].prev = conn[c].prev
        /\ conn'[c].out = conn[c].out /\ conn'[c].slot = conn[c].slot /\ conn'[c].todo = conn[c].todo
        /\ conn'[c].killed = (c \in Active)
    BY <1>2
  <2>2. conn'[c].ends = conn[c].ends
    BY <1>2
  <2>3. Thread(c) /\ Own(c) /\ Marked(c) /\ InPlace(c) /\ conn[c] \in Connection
    BY OfIInv
  <2>4. InPlace(c)'
    BY <1>1, <2>1, <2>2, <2>3 DEF InPlace
  <2>5. CASE conn[c].pc \in {"none", "refused"}
    <3>1. stream'[c] = <<>> /\ written'[c] = <<>>
      BY <1>1, <2>3, <2>5 DEF InPlace
    <3>2. conn'[c].pc \notin Submits /\ conn'[c].pc # "read"
      BY <2>1, <2>5 DEF Submits
    <3>3. Thread(c)'
      BY <2>4, <3>1, <3>2, EmptyThread
    <3>4. Own(c)'
      BY <1>1, <2>1, <2>3, OwnKept DEF Types
    <3>5. Marked(c)'
      BY <1>1, <2>1, <2>3, Unread, MarkedKept
    <3> QED BY <3>3, <3>4, <3>5
  <2>6. CASE conn[c].pc \notin {"none", "refused"}
    <3>1. Stopped(c)'
      <4>1. CASE conn[c].pc = "gone"
        BY <2>1, <4>1 DEF Stopped
      <4>2. CASE conn[c].pc # "gone"
        <5>1. c \in Active
          BY <2>6, <4>2 DEF Active
        <5> QED BY <2>1, <5>1 DEF Stopped
      <4> QED BY <4>1, <4>2
    <3>2. Holding(c)' => Holding(c)
      BY <2>1, <2>2 DEF Holding
    <3>3. Submitting(c)' => Submitting(c)
      BY <2>1 DEF Submitting
    <3>4. conn[c].pc \in Submits => conn'[c].pc \in Submits /\ conn'[c].out = conn[c].out
      BY <2>1
    <3>5. Thread(c)'
      BY <1>1, <2>1, <2>3, <2>4, <3>1, <3>2, <3>3, <3>4, Kept
    <3>6. Own(c)'
      BY <1>1, <2>1, <2>3, OwnKept DEF Types
    <3>7. Marked(c)'
      BY <1>1, <2>1, <2>3, Unread, MarkedKept
    <3> QED BY <3>5, <3>6, <3>7
  <2> QED BY <2>5, <2>6
<1> QED BY <1>3, <1>4 DEF IInv

LEMMA InitInv == Init => IInv
<1> SUFFICES ASSUME Init PROVE IInv
  OBVIOUS
<1>1. 0 \in 0..MaxSlots
  BY Constants
<1>2. NoConn \in Connection
  BY <1>1 DEF NoConn, Connection
<1>3. Types
  <2>1. conn \in [Conns -> Connection]
    BY <1>2 DEF Init
  <2>2. Sessions \in [Slots -> Session \cup {NoSession}]
    BY DEF Init
  <2>3. <<>> \in Seq(Items) /\ <<>> \in Seq([n : Nat \ {0}, own : BOOLEAN])
    OBVIOUS
  <2>4. stream \in [Conns -> Seq(Items)] /\ written \in [Conns -> Seq([n : Nat \ {0}, own : BOOLEAN])]
    BY <2>3 DEF Init
  <2>5. writers \in Int /\ lost \in SUBSET Conns
    BY DEF Init
  <2>6. locked \in BOOLEAN /\ up \in BOOLEAN /\ shutdown \in BOOLEAN /\ clash \in BOOLEAN
    BY Zenon DEF Init
  <2> QED BY <2>1, <2>2, <2>4, <2>5, <2>6 DEF Types
<1>4. ASSUME NEW c \in Conns PROVE Thread(c) /\ Own(c) /\ Marked(c)
  <2>1. conn[c] = NoConn /\ conn[c].pc = "none" /\ ~ conn[c].ends /\ stream[c] = <<>> /\ written[c] = <<>>
    BY <1>4 DEF Init, NoConn
  <2>2. DOMAIN stream[c] = {} /\ DOMAIN written[c] = {}
    BY <2>1, EmptyDomain
  <2>3. ~ Holding(c) /\ ~ Submitting(c)
    BY <2>1 DEF Holding, Submitting, Submits
  <2>4. Thread(c)
    BY <2>1, <2>2, <2>3 DEF Thread, InPlace, HoldsLast, Ordered, OnlyFollowed, SubmitsFollowed, NoneLeft, InOrder, Submits
  <2>5. Own(c)
    BY <2>1, <2>2 DEF Own
  <2>6. Marked(c)
    BY <2>1 DEF Marked
  <2> QED BY <2>4, <2>5, <2>6
<1> QED BY <1>3, <1>4 DEF IInv

LEMMA StutterInv == IInv /\ UNCHANGED vars => IInv'
<1> SUFFICES ASSUME IInv, UNCHANGED vars PROVE IInv'
  OBVIOUS
<1>1. /\ UNCHANGED <<conn, Sessions, writers, locked, up, shutdown, stream, written, lost, clash>> /\ Types
  BY DEF vars, histories, IInv
<1>2. Types'
  BY <1>1 DEF Types
<1>3. ASSUME NEW c \in Conns PROVE Thread(c)' /\ Own(c)' /\ Marked(c)'
  <2>1. conn[c] \in Connection /\ Thread(c) /\ Own(c) /\ Marked(c)
    BY OfIInv
  <2> QED BY <1>1, <2>1, OthersKept DEF Types
<1> QED BY <1>2, <1>3 DEF IInv

LEMMA NextInv == IInv /\ [Next]_vars => IInv'
<1> SUFFICES ASSUME IInv, Next \/ UNCHANGED vars PROVE IInv'
  OBVIOUS
<1>1. CASE UNCHANGED vars
  BY <1>1, StutterInv
<1>2. CASE Shutdown
  BY <1>2, ShutdownInv
<1>3. ASSUME NEW c \in Conns, Accept(c) \/ mrtThread(c) PROVE IInv'
  <2>1. CASE Submit(c)
    BY <2>1, CrashInv, FindInv, ScanInv, InsertInv, WriteInv DEF Submit
  <2>2. CASE End(c)
    BY <2>2, CollectInv, MarkInv, DestroyInv DEF End
  <2> QED BY <1>3, <2>1, <2>2, AcceptInv, ReadInv, KilledInv DEF mrtThread
<1> QED BY <1>1, <1>2, <1>3 DEF Next

-----------------------------------------------------------------------------
\* Every variable of the collectors keeps its type (mrtinstance.h).
THEOREM TypeCorrect == Spec => []Types
<1>1. IInv => Types
  BY DEF IInv
<1> QED BY <1>1, InitInv, NextInv, PTL DEF Spec

\* For any number of connections, sessions and items: a connection's messages are
\* written in their order, none twice, none without a message or an end after it,
\* and none is left when it ends but those that got no session (mrtThread).
THEOREM WhatIsFollowedIsWritten == Spec => []WritesWhatIsFollowed
<1>1. IInv => WritesWhatIsFollowed
  <2> SUFFICES ASSUME IInv, NEW c \in Conns
               PROVE  /\ InOrder(c) /\ OnlyFollowed(c)
                      /\ conn[c].pc = "gone" /\ c \notin lost =>
                           \A i, j \in DOMAIN stream[c] : FollowedBy(c, i, j) => IsWritten(c, i)
    BY DEF WritesWhatIsFollowed
  <2>1. Thread(c)
    BY OfIInv
  <2> QED BY <2>1 DEF Thread, Ordered, NoneLeft, Submits
<1> QED BY <1>1, InitInv, NextInv, PTL DEF Spec

\* Under the same constants: as long as no two threads have filled one slot, every
\* message is written under a session with its own addresses and AS numbers
\* (findSession, createMrtSessionStruct, submitBMF).
THEOREM SessionsAreOwn == Spec => []OwnSession
<1>1. IInv => OwnSession
  BY DEF IInv, Own, OwnSession
<1> QED BY <1>1, InitInv, NextInv, PTL DEF Spec

\* Under the same constants, whatever slots were filled twice: the sessions a
\* collector was the last to write to, and is the local address of, are in error
\* when it has gone, unless a table dump ended it (deleteMrtSession).
THEOREM SessionsAreEnded == Spec => []NotLeftEstablished
<1>1. IInv => NotLeftEstablished
  <2> SUFFICES ASSUME IInv, NEW i \in Slots, Sessions[i].state = "established",
                      Sessions[i].tuple.local = Address[Sessions[i].by], conn[Sessions[i].by].pc = "gone"
               PROVE  \E k \in DOMAIN stream[Sessions[i].by] : stream[Sessions[i].by][k].kind = "dump"
    BY DEF NotLeftEstablished
  <2>1. Sessions[i] \in Session
    BY DEF IInv, Types, NoSession
  <2>2. PICK c \in Conns : c = Sessions[i].by
    BY <2>1 DEF Session
  <2>3. Marked(c)
    BY OfIInv
  <2> QED BY <2>2, <2>3 DEF Marked, HasDump
<1> QED BY <1>1, InitInv, NextInv, PTL DEF Spec
=============================================================================
