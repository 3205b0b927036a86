----------------------------- MODULE PeerProofs -----------------------------
(***************************************************************************)
(* A peer: its session and its configuration.                              *)
(*                                                                         *)
(* For any hold times, intervals and number of stalls: a session's socket, *)
(* capabilities and timers are those of its state, a silent peer is        *)
(* dropped (if its keepalive timer is not always due), and a peer that is   *)
(* spoken to hears from BGPmon in time.  The inductive invariant adds to   *)
(* the first of these how far the hold and the keepalive timer are from    *)
(* the time that has passed, in select and in a read that blocks.          *)
(*                                                                         *)
(* For any addresses, groups, settings, lists and files: a peer reads what *)
(* the group it names holds, its session opens by the rules nearest to it, *)
(* and what was saved is read again.  The inductive invariant says how a   *)
(* table of groups is laid out, and that a peer refers to the slot of the  *)
(* group it names.                                                         *)
(***************************************************************************)
EXTENDS PeerFsm, PeerConfig, WellFoundedInduction, TLAPS


States == {"Idle", "Connect"} \cup OpenStates
Timer == Nat \cup {Off}

Session ==
  [state : States, socket : BOOLEAN, capabilities : BOOLEAN, refresh : BOOLEAN,
   connectRetryTimer : Timer, keepaliveTimer : Timer, holdTimer : Timer,
   holdTime : Nat, largeHoldTime : Nat, keepaliveInt : Nat, localHoldtime : Nat, retries : Nat]

Types ==
  /\ s \in Session /\ inbox \in Nat /\ heard \in Nat /\ sent \in Nat
  /\ reading \in [left : Timer, stalls : 0..MaxStalls]
  /\ reading.left = Off <=> reading.stalls = 0

\* What a session holds is what its state says.
SoundSession(r) ==
  /\ r.socket <=> r.state \in OpenStates
  /\ r.capabilities <=> r.state \in {"OpenConfirm", "Established"}
  /\ r.connectRetryTimer # Off <=> r.state = "Connect"
  /\ r.keepaliveTimer # Off <=> r.state \in {"OpenConfirm", "Established"}
  /\ r.holdTimer # Off <=> r.state \in OpenStates

\* The thread reads on an open connection, with a message there.
ReadsData == reading # NotReading => s.state \in OpenStates /\ inbox > 0

\* The time that a peer may be silent in the session's state.
Patience(r) == IF r.state = "OpenSent" THEN r.largeHoldTime ELSE r.holdTime

\* What has passed of it, and what the hold timer or the read has left; nothing
\* is known of it when the keepalive timer is always due.
Hears ==
  s.state \in OpenStates =>
    IF reading = NotReading THEN AlwaysDue(s) \/ heard + s.holdTimer <= Patience(s)
    ELSE heard + reading.left <= RcvTimeo

\* How long the reads that block may have taken: all of them, when none is left.
Blocked == IF reading = NotReading THEN MaxStalls * RcvTimeo
           ELSE MaxStalls * RcvTimeo - ((reading.stalls - 1) * RcvTimeo + reading.left)

Speaks ==
  s.state \in {"OpenConfirm", "Established"} =>
    \/ sent + s.keepaliveTimer <= s.keepaliveInt
    \/ s.keepaliveTimer = 0 /\ sent <= s.keepaliveInt + Blocked

IInv == Types /\ SoundSession(s) /\ ReadsData /\ Hears /\ Speaks

----------------------------------------------------------------------------
(* Operators.                                                              *)

LEMMA TypesHave ==
  /\ Off \in Timer /\ \A n \in Nat : n \in Timer /\ n # Off
  /\ {"Idle", "Connect", "OpenSent", "OpenConfirm", "Established"} \subseteq States
BY DEF Timer, States, OpenStates, Off

LEMMA TheMinOfTwo ==
  ASSUME NEW a \in Nat, NEW b \in Nat
  PROVE  TheMin({a, b}) \in Nat /\ TheMin({a, b}) <= a /\ TheMin({a, b}) <= b
<1>1. \E n \in {a, b} : \A k \in {a, b} : n <= k
  OBVIOUS
<1> QED BY <1>1 DEF TheMin

LEMMA LeastOfThree ==
  ASSUME NEW T, T \subseteq Nat, NEW x, NEW y, NEW z, T \subseteq {x, y, z}, x \in T
  PROVE  \E n \in T : \A k \in T : n <= k
<1>1. PICK n \in T : n <= x /\ (y \in T => n <= y)
  <2>1. x \in Nat /\ (y \in T => y \in Nat)
    OBVIOUS
  <2>2. CASE y \in T /\ y <= x
    BY <2>1, <2>2
  <2>3. CASE ~(y \in T /\ y <= x)
    BY <2>1, <2>3
  <2> QED BY <2>2, <2>3
<1>2. CASE z \in T /\ z <= n
  BY <1>1, <1>2
<1>3. CASE ~(z \in T /\ z <= n)
  BY <1>1, <1>3
<1> QED BY <1>2, <1>3

\* The earliest of the timers that run.
LEMMA SessionTimerIs ==
  ASSUME NEW r \in Session, Timers(r) # {}
  PROVE  SessionTimer(r) \in Timers(r) /\ \A t \in Timers(r) : SessionTimer(r) <= t
<1> DEFINE a == r.connectRetryTimer
           b == r.keepaliveTimer
           c == r.holdTimer
<1>1. Timers(r) \subseteq Nat
  BY DEF Timers, Session, Timer
<1>2. /\ Timers(r) \subseteq {a, b, c} /\ Timers(r) \subseteq {b, a, c} /\ Timers(r) \subseteq {c, a, b}
      /\ a \in Timers(r) \/ b \in Timers(r) \/ c \in Timers(r)
  BY DEF Timers
<1> HIDE DEF a, b, c
<1>3. \E n \in Timers(r) : \A k \in Timers(r) : n <= k
  <2>1. CASE a \in Timers(r)
    BY <1>1, <1>2, <2>1, LeastOfThree
  <2>2. CASE b \in Timers(r)
    BY <1>1, <1>2, <2>2, LeastOfThree
  <2>3. CASE c \in Timers(r)
    BY <1>1, <1>2, <2>3, LeastOfThree
  <2> QED BY <1>2, <2>1, <2>2, <2>3
<1> QED BY <1>3 DEF SessionTimer, TheMin

\* A jittered interval is no longer than the interval.
LEMMA JitterBounds ==
  ASSUME NEW n \in Nat, NEW d \in Jitter(n)
  PROVE  d \in Nat /\ d <= n
<1>1. PICK factor \in 75..100 : d = (n * factor) \div 100
  BY DEF Jitter
<1>2. n * factor \in Nat /\ n * factor <= 100 * n
  BY <1>1
<1> QED BY <1>1, <1>2

----------------------------------------------------------------------------
(* A turn of the thread.                                                   *)

\* From an interval of two seconds on, a hold time of six, the keepalive timer is
\* not always due.
LEMMA DueNotAlways ==
  ASSUME NEW r \in Session, r.keepaliveInt >= 2
  PROVE  ~AlwaysDue(r)
<1>1. r.keepaliveInt \in Nat /\ (r.keepaliveInt * 100) \div 100 = r.keepaliveInt
  BY DEF Session
<1>2. r.keepaliveInt \in Jitter(r.keepaliveInt)
  BY <1>1 DEF Jitter
<1> QED BY <1>1, <1>2 DEF AlwaysDue, Expires

LEMMA NewSessionsSound ==
  ASSUME NEW r \in NewSessions
  PROVE  r \in Session /\ SoundSession(r) /\ r.state = "Idle"
<1>1. PICK hold \in LocalHoldTimes :
        r = [state |-> "Idle", socket |-> FALSE, capabilities |-> FALSE, refresh |-> FALSE,
             connectRetryTimer |-> Off, keepaliveTimer |-> Off, holdTimer |-> Off,
             holdTime |-> hold, largeHoldTime |-> 3 * hold, keepaliveInt |-> hold \div 3,
             localHoldtime |-> hold, retries |-> 0]
  BY DEF NewSessions
<1>2. hold \in Nat /\ 3 * hold \in Nat /\ hold \div 3 \in Nat
  BY PeerFsmAssumption
<1>3. Off \in Timer /\ "Idle" \in States
  BY DEF Timer, States
<1>4. r \in Session
  BY <1>1, <1>2, <1>3 DEF Session
<1> QED BY <1>1, <1>4 DEF SoundSession, OpenStates

LEMMA ResetSound ==
  ASSUME NEW r \in Session
  PROVE  Reset(r) \in Session /\ SoundSession(Reset(r)) /\ Reset(r).state = "Idle"
<1>1. TheMin({r.retries + 1, MaxRetries}) \in Nat
  BY PeerFsmAssumption, TheMinOfTwo DEF Session
<1> QED BY <1>1 DEF Reset, Session, SoundSession, States, Timer, OpenStates, Off

\* However a turn ends, the session is sound, and if its connection is still
\* open it is the one that the state machine has left.
LEMMA Turned ==
  ASSUME NEW r \in Session, SoundSession(r), Turn(r)
  PROVE  /\ s' \in Session /\ SoundSession(s')
         /\ s' = r \/ s'.state \in {"Idle", "Connect"}
<1>1. PICK q \in AfterFsm(r) : s' \in EndOfLoop(q)
  BY DEF Turn
<1>2. q \in Session /\ SoundSession(q) /\ (q = r \/ q.state \in {"Idle", "Connect"})
  <2>1. CASE q \in NewSessions
    BY <2>1, NewSessionsSound
  <2>2. CASE q \in TakeConfig(r) /\ r.state = "Connect"
    <3>1. PICK hold \in LocalHoldTimes : q = [r EXCEPT !.localHoldtime = hold]
      BY <2>2 DEF TakeConfig
    <3> QED BY <2>2, <3>1, PeerFsmAssumption DEF Session, SoundSession
  <2>3. CASE q = r
    BY <2>3
  <2> QED BY <1>1, <2>1, <2>2, <2>3 DEF AfterFsm
<1>3. s' = q \/ s' = Reset(q)
  BY <1>1 DEF EndOfLoop
<1>4. CASE s' = q
  BY <1>2, <1>4
<1>5. CASE s' = Reset(q)
  BY <1>2, <1>5, ResetSound
<1> QED BY <1>3, <1>4, <1>5

\* What a step must show for the invariant, if the connection is closed then.
LEMMA ClosedIsFine ==
  ASSUME s' \in Session, SoundSession(s'), s'.state \in {"Idle", "Connect"},
         inbox' \in Nat, heard' \in Nat, sent' \in Nat, reading' = NotReading
  PROVE  IInv'
<1>1. Types'
  BY PeerFsmAssumption DEF Types, NotReading, Timer, Off
<1>2. ReadsData' /\ Hears' /\ Speaks'
  BY DEF ReadsData, Hears, Speaks, OpenStates
<1> QED BY <1>1, <1>2 DEF IInv

\* A reset ends the connection.
LEMMA ResetTurn ==
  ASSUME IInv, NEW r \in Session, Turn(Reset(r)), NEW n \in Int, Rest(n),
         heard' \in Nat, sent' \in Nat, reading' = NotReading
  PROVE  IInv'
<1>1. s' \in Session /\ SoundSession(s') /\ s'.state \in {"Idle", "Connect"}
  BY ResetSound, Turned
<1>2. inbox' = 0
  BY <1>1 DEF Rest, SoundSession, OpenStates
<1> QED BY <1>1, <1>2, ClosedIsFine

LEMMA ResetForTurn ==
  ASSUME IInv, NEW event, ResetFor(event), NEW n \in Int, Rest(n), heard' \in Nat, reading' = NotReading
  PROVE  IInv'
<1>1. s \in Session /\ sent' \in Nat
  BY DEF ResetFor, IInv, Types
<1> QED BY <1>1, ResetTurn DEF ResetFor

\* What it must show if the connection may stay open.
LEMMA StaysOpen ==
  ASSUME NEW r \in Session, SoundSession(r), r.state \in OpenStates, Turn(r),
         NEW n \in Nat, Rest(n), heard' \in Nat, sent' \in Nat, reading' = NotReading,
         AlwaysDue(r) \/ heard' + r.holdTimer <= Patience(r),
         r.state \in {"OpenConfirm", "Established"} =>
           \/ sent' + r.keepaliveTimer <= r.keepaliveInt
           \/ r.keepaliveTimer = 0 /\ sent' <= r.keepaliveInt + MaxStalls * RcvTimeo
  PROVE  IInv'
<1>1. s' \in Session /\ SoundSession(s') /\ (s' = r \/ s'.state \in {"Idle", "Connect"})
  BY Turned
<1>2. inbox' \in Nat
  BY DEF Rest
<1>3. CASE s'.state \in {"Idle", "Connect"}
  BY <1>1, <1>2, <1>3, ClosedIsFine
<1>4. CASE s' = r
  <2>1. Types'
    BY <1>1, <1>2, PeerFsmAssumption DEF Types, NotReading, Timer, Off
  <2>2. ReadsData'
    BY DEF ReadsData
  <2>3. Hears'
    BY <1>4 DEF Hears, Patience
  <2>4. Speaks'
    BY <1>4 DEF Speaks, Blocked
  <2> QED BY <1>1, <2>1, <2>2, <2>3, <2>4 DEF IInv
<1> QED BY <1>1, <1>3, <1>4

\* A read in progress has something left, and not more than a read may take.
LEMMA ReadingLeft ==
  ASSUME IInv, reading # NotReading
  PROVE  /\ reading.left \in 0..RcvTimeo /\ reading.stalls \in 1..MaxStalls
         /\ (reading.stalls - 1) * RcvTimeo \in Nat
         /\ Blocked \in Nat /\ Blocked <= MaxStalls * RcvTimeo
         /\ Blocked = MaxStalls * RcvTimeo - ((reading.stalls - 1) * RcvTimeo + reading.left)
<1>1. reading.left # Off \/ reading.stalls # 0
  BY DEF IInv, Types, NotReading
<1>2. reading.left \in Nat /\ reading.stalls \in 1..MaxStalls /\ {RcvTimeo, MaxStalls} \subseteq Nat
  BY <1>1, PeerFsmAssumption DEF IInv, Types, Timer, Off
<1>3. heard + reading.left <= RcvTimeo /\ heard \in Nat
  BY DEF IInv, Types, ReadsData, Hears
<1>4. reading.stalls - 1 \in Nat /\ reading.stalls - 1 <= MaxStalls - 1
  BY <1>2
<1>5. (reading.stalls - 1) * RcvTimeo \in Nat /\ (reading.stalls - 1) * RcvTimeo <= (MaxStalls - 1) * RcvTimeo
  BY <1>2, <1>4
<1>6. (MaxStalls - 1) * RcvTimeo + RcvTimeo = MaxStalls * RcvTimeo /\ MaxStalls * RcvTimeo \in Nat
  BY <1>2
<1> DEFINE a == (reading.stalls - 1) * RcvTimeo
           b == (MaxStalls - 1) * RcvTimeo
           c == MaxStalls * RcvTimeo
<1>7. Blocked = c - (a + reading.left)
  BY DEF Blocked
<1>8. a \in Nat /\ a <= b /\ b \in Int /\ b + RcvTimeo = c /\ c \in Nat
  BY <1>2, <1>5, <1>6
<1> HIDE DEF a, b, c
<1>9. Blocked \in Nat /\ Blocked <= c
  BY <1>2, <1>3, <1>7, <1>8
<1> QED BY <1>2, <1>3, <1>7, <1>8, <1>9 DEF a, c

\* When a message is there, what has been sent is late by the reads at most.
LEMMA SpeaksLate ==
  ASSUME IInv, s.state \in {"OpenConfirm", "Established"}
  PROVE  \/ sent + s.keepaliveTimer <= s.keepaliveInt
         \/ s.keepaliveTimer = 0 /\ sent <= s.keepaliveInt + MaxStalls * RcvTimeo
<1>1. CASE reading = NotReading
  BY <1>1 DEF IInv, Speaks, Blocked
<1>2. CASE reading # NotReading
  <2>1. Blocked \in Nat /\ Blocked <= MaxStalls * RcvTimeo
    BY <1>2, ReadingLeft
  <2> DEFINE c == MaxStalls * RcvTimeo
  <2>2. c \in Nat
    BY PeerFsmAssumption
  <2>3. s.keepaliveInt \in Nat /\ sent \in Nat
    BY DEF IInv, Types, Session
  <2> HIDE DEF c
  <2>4. Blocked <= c
    BY <2>1 DEF c
  <2>5. sent <= s.keepaliveInt + Blocked => sent <= s.keepaliveInt + c
    BY <2>1, <2>2, <2>3, <2>4
  <2> QED BY <2>5 DEF IInv, Speaks, c
<1> QED BY <1>1, <1>2

----------------------------------------------------------------------------
(* The steps.                                                              *)

LEMMA InitInv == Init => IInv
<1> SUFFICES ASSUME Init PROVE IInv
  OBVIOUS
<1>1. s \in Session /\ SoundSession(s) /\ s.state = "Idle"
  BY NewSessionsSound DEF Init
<1>2. Types
  BY <1>1, PeerFsmAssumption DEF Init, Types, NotReading, Timer, Off
<1> QED BY <1>1, <1>2 DEF Init, IInv, ReadsData, Hears, Speaks, OpenStates

LEMMA IdleStep == IInv /\ FsmIdle => IInv'
<1> SUFFICES ASSUME IInv, FsmIdle PROVE IInv'
  OBVIOUS
<1>1. s \in Session /\ SoundSession(s) /\ s.state = "Idle" /\ reading = NotReading
  BY DEF IInv, Types, ReadsData, FsmIdle, OpenStates
<1>2. PICK delay \in Backoff(s) :
        Turn([s EXCEPT !.state = "Connect", !.connectRetryTimer = delay,
                       !.keepaliveTimer = Off, !.holdTimer = Off])
  BY DEF FsmIdle
<1>3. delay \in Nat
  <2>1. MaxBackoff \in Nat /\ ConnectRetryInt * s.retries \in Nat
    BY <1>1, PeerFsmAssumption DEF Session
  <2>2. TheMin({MaxBackoff, ConnectRetryInt * s.retries}) \in Nat
    BY <2>1, TheMinOfTwo
  <2> QED BY <2>2, JitterBounds DEF Backoff
<1> DEFINE r == [s EXCEPT !.state = "Connect", !.connectRetryTimer = delay,
                          !.keepaliveTimer = Off, !.holdTimer = Off]
<1>4. r \in Session /\ SoundSession(r) /\ r.state = "Connect"
  <2>1. r \in Session
    BY <1>1, <1>3, TypesHave DEF Session
  <2>2. /\ r.state = "Connect" /\ r.connectRetryTimer = delay /\ r.keepaliveTimer = Off /\ r.holdTimer = Off
        /\ r.socket = s.socket /\ r.capabilities = s.capabilities
    BY <1>1 DEF Session
  <2> QED BY <1>1, <1>3, <2>1, <2>2, TypesHave DEF SoundSession, OpenStates
<1> HIDE DEF r
<1>5. s' \in Session /\ SoundSession(s') /\ s'.state \in {"Idle", "Connect"}
  BY <1>2, <1>4, Turned DEF r
<1>6. inbox' = 0 /\ heard' = heard /\ sent' = sent /\ reading' = reading
  BY DEF FsmIdle, Rest, SentNothing
<1> QED BY <1>1, <1>5, <1>6, ClosedIsFine DEF IInv, Types

LEMMA ConnectStep == IInv /\ FsmConnect => IInv'
<1> SUFFICES ASSUME IInv, FsmConnect PROVE IInv'
  OBVIOUS
<1>1. s \in Session /\ SoundSession(s) /\ s.state = "Connect" /\ reading' = NotReading /\ Rest(0)
  BY DEF IInv, Types, ReadsData, FsmConnect, OpenStates
<1>2. heard \in Nat /\ sent \in Nat /\ 0 \in Nat /\ 0 \in Int
  BY DEF IInv, Types
<1>3. ASSUME NEW r \in CompleteConnection(s), Turn(Reset(r)), UNCHANGED <<heard, sent>>
      PROVE  IInv'
  <2>1. r \in Session
    BY <1>1, <1>3 DEF CompleteConnection, Session
  <2> QED BY <1>1, <1>2, <1>3, <2>1, ResetTurn
<1>4. ASSUME NEW delay \in Jitter(s.largeHoldTime),
             SendOpenMessage([s EXCEPT !.state = "OpenSent", !.socket = TRUE, !.retries = 0,
                                       !.connectRetryTimer = Off, !.holdTimer = delay])
      PROVE  IInv'
  <2> DEFINE r == [s EXCEPT !.state = "OpenSent", !.socket = TRUE, !.retries = 0,
                            !.connectRetryTimer = Off, !.holdTimer = delay]
  <2>1. delay \in Nat /\ delay <= s.largeHoldTime
    BY <1>1, JitterBounds DEF Session
  <2>2. r \in Session /\ SoundSession(r) /\ r.state = "OpenSent" /\ r.holdTimer = delay /\ r.largeHoldTime = s.largeHoldTime
    <3>1. r \in Session
      BY <1>1, <2>1, TypesHave DEF Session
    <3>2. /\ r.state = "OpenSent" /\ r.holdTimer = delay /\ r.largeHoldTime = s.largeHoldTime
          /\ r.connectRetryTimer = Off /\ r.socket = TRUE
          /\ r.capabilities = s.capabilities /\ r.keepaliveTimer = s.keepaliveTimer
      BY <1>1 DEF Session
    <3> QED BY <1>1, <2>1, <3>1, <3>2, TypesHave DEF SoundSession, OpenStates
  <2> HIDE DEF r
  <2>3. \/ Turn(r) /\ sent' = 0 /\ heard' = 0
        \/ Turn(Reset(r)) /\ UNCHANGED <<heard, sent>>
    BY <1>4 DEF SendOpenMessage, SentSomething, r
  <2>4. CASE Turn(r) /\ sent' = 0 /\ heard' = 0
    <3>1. heard' + r.holdTimer <= Patience(r)
      BY <1>1, <2>1, <2>2, <2>4 DEF Patience, Session
    <3>2. r.state \in OpenStates /\ r.state \notin {"OpenConfirm", "Established"}
      BY <2>2 DEF OpenStates
    <3> QED BY <1>1, <1>2, <2>2, <2>4, <3>1, <3>2, StaysOpen
  <2>5. CASE Turn(Reset(r)) /\ UNCHANGED <<heard, sent>>
    BY <1>1, <1>2, <2>2, <2>5, ResetTurn
  <2> QED BY <2>3, <2>4, <2>5
<1> QED BY <1>3, <1>4 DEF FsmConnect

LEMMA TimerStep == IInv /\ FsmTimer => IInv'
<1> SUFFICES ASSUME IInv, FsmTimer PROVE IInv'
  OBVIOUS
<1>1. /\ s \in Session /\ SoundSession(s) /\ s.state \in OpenStates
      /\ reading = NotReading /\ reading' = NotReading /\ heard' = heard /\ Rest(inbox)
      /\ heard \in Nat /\ sent \in Nat /\ inbox \in Nat /\ inbox \in Int
  BY DEF IInv, Types, FsmTimer
<1>2. ASSUME CheckTimers(s) = "KeepaliveTimer", NEW r \in KeepaliveTimerExpires(s), SendKeepalive(r)
      PROVE  IInv'
  <2>1. s.state \in {"OpenConfirm", "Established"}
    BY <1>1, <1>2 DEF CheckTimers, Expires, SoundSession
  <2>2. PICK delay \in Jitter(s.keepaliveInt) : r = [s EXCEPT !.keepaliveTimer = delay]
    BY <1>2 DEF KeepaliveTimerExpires
  <2>3. delay \in Nat /\ delay <= s.keepaliveInt
    BY <1>1, JitterBounds DEF Session
  <2>4. /\ r \in Session /\ SoundSession(r) /\ r.state = s.state /\ r.holdTimer = s.holdTimer
        /\ r.keepaliveTimer = delay /\ r.keepaliveInt = s.keepaliveInt /\ Patience(r) = Patience(s)
    BY <1>1, <2>1, <2>2, <2>3 DEF Session, SoundSession, Timer, Patience, Off
  <2>5. CASE Turn(r) /\ sent' = 0
    <3>1. AlwaysDue(r) \/ heard' + r.holdTimer <= Patience(r)
      <4>1. AlwaysDue(s) => AlwaysDue(r)
        BY <1>1, <2>1, <2>3, <2>4 DEF AlwaysDue, SoundSession, Off
      <4> QED BY <1>1, <2>4, <4>1 DEF IInv, Hears
    <3>2. sent' + r.keepaliveTimer <= r.keepaliveInt
      BY <2>3, <2>4, <2>5
    <3> QED BY <1>1, <2>4, <2>5, <3>1, <3>2, StaysOpen
  <2>6. CASE Turn(Reset(r)) /\ sent' = sent
    BY <1>1, <2>4, <2>6, ResetTurn
  <2> QED BY <1>2, <2>5, <2>6 DEF SendKeepalive, SentSomething, SentNothing
<1>3. CASE ResetFor("HoldTimer")
  BY <1>1, <1>3, ResetForTurn
<1> QED BY <1>2, <1>3 DEF FsmTimer

\* The hold timer starts again, and with it the time that the peer may be silent.
LEMMA RestartedHold ==
  ASSUME NEW q \in Session, NEW m, NEW r \in RestartHold(q, m)
  PROVE  \E delay \in Nat : delay <= q.holdTime /\ r = [q EXCEPT !.holdTimer = delay]
BY JitterBounds DEF RestartHold, Session

LEMMA GetsStep ==
  ASSUME IInv, s.state \in OpenStates, inbox > 0, NEW m \in Message, Gets(m)
  PROVE  IInv'
<1>1. /\ s \in Session /\ SoundSession(s) /\ reading' = NotReading /\ heard' = 0 /\ Rest(inbox - 1)
      /\ inbox - 1 \in Nat /\ inbox - 1 \in Int /\ sent \in Nat /\ heard' \in Nat
  BY DEF IInv, Types, Gets
<1>2. ASSUME NEW event, ResetFor(event) PROVE IInv'
  BY <1>1, <1>2, ResetForTurn
<1>3. CASE s.state = "OpenSent" /\ OpenSentGets(m)
  <2>1. CASE ReceiveOpenMessage(m) # "BGPOpen"
    BY <1>2, <1>3, <2>1 DEF OpenSentGets
  <2>2. CASE ReceiveOpenMessage(m) = "BGPOpen"
    <3> DEFINE q == Negotiated(s, m)
    <3>1. m.type = "OPEN" /\ m.hold \in Nat /\ m.refresh \in BOOLEAN
      BY <2>2, PeerFsmAssumption DEF ReceiveOpenMessage, Common, Message
    <3>2. /\ q \in Session /\ q.state = s.state /\ q.socket = s.socket /\ q.keepaliveTimer = s.keepaliveTimer
          /\ q.holdTimer = s.holdTimer
      <4>1. m.hold \div 3 \in Nat
        BY <3>1
      <4>2. q = s \/ q = [s EXCEPT !.holdTime = m.hold, !.keepaliveInt = m.hold \div 3]
        BY DEF Negotiated
      <4> QED BY <1>1, <3>1, <4>1, <4>2 DEF Session
    <3>3. PICK k \in Jitter(q.keepaliveInt), r \in RestartHold(q, m) :
            SendKeepalive([r EXCEPT !.state = "OpenConfirm", !.connectRetryTimer = Off,
                                    !.capabilities = TRUE, !.refresh = m.refresh,
                                    !.keepaliveTimer = k])
      BY <1>3, <2>2 DEF OpenSentGets
    <3> HIDE DEF q
    <3>4. PICK delay \in Nat : delay <= q.holdTime /\ r = [q EXCEPT !.holdTimer = delay]
      BY <3>2, RestartedHold
    <3>5. k \in Nat /\ k <= q.keepaliveInt
      BY <3>2, JitterBounds DEF Session
    <3> DEFINE t == [r EXCEPT !.state = "OpenConfirm", !.connectRetryTimer = Off,
                              !.capabilities = TRUE, !.refresh = m.refresh, !.keepaliveTimer = k]
    <3>6. /\ t \in Session /\ SoundSession(t) /\ t.state = "OpenConfirm"
          /\ t.holdTimer = delay /\ t.holdTime = q.holdTime
          /\ t.keepaliveTimer = k /\ t.keepaliveInt = q.keepaliveInt
      <4>1. s.socket = TRUE
        BY <1>1, <1>3 DEF SoundSession, OpenStates, Session
      <4>2. t \in Session
        BY <3>1, <3>2, <3>4, <3>5, TypesHave DEF Session
      <4>3. /\ t.state = "OpenConfirm" /\ t.connectRetryTimer = Off /\ t.capabilities = TRUE
            /\ t.keepaliveTimer = k /\ t.socket = q.socket /\ t.holdTimer = delay
            /\ t.holdTime = q.holdTime /\ t.keepaliveInt = q.keepaliveInt
        BY <3>2, <3>4 DEF Session
      <4> QED BY <3>2, <3>5, <4>1, <4>2, <4>3, TypesHave DEF SoundSession, OpenStates
    <3>7. SendKeepalive(t)
      BY <3>3
    <3> HIDE DEF t
    <3>8. CASE Turn(t) /\ sent' = 0
      <4>1. heard' + t.holdTimer <= Patience(t)
        BY <1>1, <3>2, <3>4, <3>6 DEF Patience, Session
      <4>2. sent' + t.keepaliveTimer <= t.keepaliveInt
        BY <3>5, <3>6, <3>8
      <4>3. t.state \in OpenStates
        BY <3>6 DEF OpenStates
      <4> QED BY <1>1, <3>6, <3>8, <4>1, <4>2, <4>3, StaysOpen
    <3>9. CASE Turn(Reset(t)) /\ sent' = sent
      BY <1>1, <3>6, <3>9, ResetTurn
    <3> QED BY <3>7, <3>8, <3>9 DEF SendKeepalive, SentSomething, SentNothing
  <2> QED BY <2>1, <2>2
<1>4. ASSUME s.state \in {"OpenConfirm", "Established"}, sent' = sent,
             NEW q \in RestartHold(s, m), NEW n \in Nat,
             Turn([q EXCEPT !.state = "Established", !.retries = n])
      PROVE  IInv'
  <2>1. PICK delay \in Nat : delay <= s.holdTime /\ q = [s EXCEPT !.holdTimer = delay]
    BY <1>1, <1>4, RestartedHold
  <2> DEFINE t == [q EXCEPT !.state = "Established", !.retries = n]
  <2>2. /\ t \in Session /\ SoundSession(t) /\ t.state = "Established"
        /\ t.holdTimer = delay /\ t.holdTime = s.holdTime
        /\ t.keepaliveTimer = s.keepaliveTimer /\ t.keepaliveInt = s.keepaliveInt
    <3>1. t \in Session
      BY <1>1, <1>4, <2>1, TypesHave DEF Session
    <3>2. /\ t.state = "Established" /\ t.connectRetryTimer = s.connectRetryTimer
          /\ t.capabilities = s.capabilities /\ t.socket = s.socket
          /\ t.holdTimer = delay /\ t.holdTime = s.holdTime
          /\ t.keepaliveTimer = s.keepaliveTimer /\ t.keepaliveInt = s.keepaliveInt
      BY <1>1, <2>1 DEF Session
    <3> QED BY <1>1, <1>4, <2>1, <3>1, <3>2, TypesHave DEF SoundSession, OpenStates
  <2> HIDE DEF t
  <2>3. heard' + t.holdTimer <= Patience(t)
    BY <1>1, <2>1, <2>2 DEF Patience, Session
  <2>4. \/ sent + s.keepaliveTimer <= s.keepaliveInt
        \/ s.keepaliveTimer = 0 /\ sent <= s.keepaliveInt + MaxStalls * RcvTimeo
    BY <1>4, SpeaksLate
  <2>5. t.state \in OpenStates
    BY <2>2 DEF OpenStates
  <2> QED BY <1>1, <1>4, <2>2, <2>3, <2>4, <2>5, StaysOpen DEF t
<1>5. CASE s.state = "OpenConfirm" /\ OpenConfirmGets(m)
  <2>1. CASE ReceiveKeepaliveMessage(m) # "KeepaliveMsg"
    BY <1>2, <1>5, <2>1 DEF OpenConfirmGets
  <2>2. CASE ReceiveKeepaliveMessage(m) = "KeepaliveMsg"
    <3>1. PICK q \in RestartHold(s, m) : Turn([q EXCEPT !.state = "Established"]) /\ sent' = sent
      BY <1>5, <2>2 DEF OpenConfirmGets, SentNothing
    <3>2. PICK delay \in Nat : delay <= s.holdTime /\ q = [s EXCEPT !.holdTimer = delay]
      BY <1>1, RestartedHold
    <3>3. q.retries \in Nat /\ [q EXCEPT !.state = "Established"] = [q EXCEPT !.state = "Established", !.retries = q.retries]
      BY <1>1, <3>2 DEF Session
    <3> QED BY <1>4, <1>5, <3>1, <3>3
  <2> QED BY <2>1, <2>2
<1>6. CASE s.state = "Established" /\ EstablishedGets(m)
  <2>1. CASE ReceiveBGPMessage(m) \notin {"KeepaliveMsg", "UpdateMsg"}
    BY <1>2, <1>6, <2>1 DEF EstablishedGets
  <2>2. CASE ReceiveBGPMessage(m) \in {"KeepaliveMsg", "UpdateMsg"}
    <3>1. PICK q \in RestartHold(s, m) :
            Turn([q EXCEPT !.retries = IF m.type = "UPDATE" THEN 0 ELSE q.retries]) /\ sent' = sent
      BY <1>6, <2>2 DEF EstablishedGets, SentNothing
    <3>2. PICK delay \in Nat : delay <= s.holdTime /\ q = [s EXCEPT !.holdTimer = delay]
      BY <1>1, RestartedHold
    <3> DEFINE n == IF m.type = "UPDATE" THEN 0 ELSE q.retries
    <3>3. n \in Nat /\ [q EXCEPT !.retries = n] = [q EXCEPT !.state = "Established", !.retries = n]
      BY <1>1, <1>6, <3>2 DEF Session
    <3> QED BY <1>4, <1>6, <3>1, <3>3
  <2> QED BY <2>1, <2>2
<1> QED BY <1>3, <1>5, <1>6 DEF Gets

\* A read begins, or goes on: what has been sent is no later than the reads that
\* still may block allow.
LEMMA BlocksStep ==
  ASSUME IInv, s.state \in OpenStates, inbox > 0, NEW n \in 1..MaxStalls, Blocks(n),
         s.state \in {"OpenConfirm", "Established"} =>
           \/ sent + s.keepaliveTimer <= s.keepaliveInt
           \/ s.keepaliveTimer = 0 /\ sent <= s.keepaliveInt + (MaxStalls * RcvTimeo - n * RcvTimeo)
  PROVE  IInv'
<1>1. /\ s' = s /\ inbox' = inbox /\ sent' = sent /\ heard' = 0
      /\ reading' = [left |-> RcvTimeo, stalls |-> n] /\ RcvTimeo \in Nat /\ RcvTimeo > 0
  BY PeerFsmAssumption DEF Blocks
<1>2. reading'.left = RcvTimeo /\ reading'.stalls = n /\ reading' # NotReading
  BY <1>1 DEF NotReading
<1>3. Types'
  BY <1>1, <1>2 DEF IInv, Types, Timer, Off
<1>4. ReadsData'
  BY <1>1 DEF ReadsData
<1>5. Hears'
  BY <1>1, <1>2 DEF Hears
<1>6. Blocked' = MaxStalls * RcvTimeo - n * RcvTimeo
  <2>1. Blocked' = MaxStalls * RcvTimeo - ((n - 1) * RcvTimeo + RcvTimeo)
    BY <1>2 DEF Blocked
  <2>2. (n - 1) * RcvTimeo + RcvTimeo = n * RcvTimeo
    BY <1>1
  <2> QED BY <2>1, <2>2
<1>7. Speaks'
  BY <1>1, <1>6 DEF Speaks
<1> QED BY <1>1, <1>3, <1>4, <1>5, <1>7 DEF IInv

LEMMA ReadStep == IInv /\ (FsmRead \/ MoreArrives \/ ReadTimesOut) => IInv'
<1> SUFFICES ASSUME IInv, FsmRead \/ MoreArrives \/ ReadTimesOut PROVE IInv'
  OBVIOUS
<1>1. s.state \in OpenStates /\ inbox > 0
  BY DEF FsmRead, MoreArrives, ReadTimesOut, IInv, ReadsData, NotReading, Off
<1>2. ASSUME NEW m \in Message, Gets(m) PROVE IInv'
  BY <1>1, <1>2, GetsStep
<1>3. ASSUME FsmRead, NEW n \in 1..MaxStalls, Blocks(n) PROVE IInv'
  <2>1. CASE s.state \in {"OpenConfirm", "Established"}
    <3>1. s.keepaliveTimer # Off /\ ~Expires(s.keepaliveTimer)
      BY <1>3, <2>1 DEF FsmRead, CheckTimers, IInv, SoundSession
    <3>2. s.keepaliveTimer # 0
      BY <3>1 DEF Expires
    <3>3. sent + s.keepaliveTimer <= s.keepaliveInt
      BY <2>1, <3>2 DEF IInv, Speaks
    <3> QED BY <1>1, <1>3, <3>3, BlocksStep
  <2>2. CASE s.state \notin {"OpenConfirm", "Established"}
    BY <1>1, <1>3, <2>2, BlocksStep
  <2> QED BY <2>1, <2>2
<1>4. ASSUME MoreArrives, reading.stalls > 1, Blocks(reading.stalls - 1) PROVE IInv'
  <2>1. reading # NotReading /\ reading.left > 0
    BY <1>4 DEF MoreArrives, NotReading, Off
  <2>2. reading.left \in 0..RcvTimeo /\ reading.stalls - 1 \in 1..MaxStalls
    <3>1. reading.left \in 0..RcvTimeo /\ reading.stalls \in 1..MaxStalls
      BY <2>1, ReadingLeft
    <3> QED BY <1>4, <3>1, PeerFsmAssumption
  <2>3. PICK n \in 1..MaxStalls : n = reading.stalls - 1
    BY <2>2
  <2>4. Blocked = MaxStalls * RcvTimeo - (n * RcvTimeo + reading.left)
    BY <2>1, <2>3, ReadingLeft
  <2> DEFINE c == MaxStalls * RcvTimeo
             d == n * RcvTimeo
  <2>5. c \in Int /\ d \in Int /\ sent \in Int /\ (s \in Session => s.keepaliveInt \in Int) /\ s \in Session
    BY PeerFsmAssumption DEF IInv, Types, Session
  <2>6. Blocked = c - (d + reading.left)
    BY <2>4
  <2> HIDE DEF c, d
  <2>7. sent <= s.keepaliveInt + Blocked => sent <= s.keepaliveInt + (c - d)
    BY <2>1, <2>2, <2>5, <2>6
  <2>8. s.state \in {"OpenConfirm", "Established"} =>
           \/ sent + s.keepaliveTimer <= s.keepaliveInt
           \/ s.keepaliveTimer = 0 /\ sent <= s.keepaliveInt + (c - d)
    BY <2>7 DEF IInv, Speaks
  <2>9. Blocks(n)
    BY <1>4, <2>3
  <2> QED BY <1>1, <2>8, <2>9, BlocksStep DEF c, d
<1>5. CASE ReadTimesOut
  <2>1. /\ ResetFor("TcpConnectionFails") /\ Rest(inbox - 1) /\ reading' = NotReading /\ heard' = heard
        /\ inbox - 1 \in Int /\ heard \in Nat
    BY <1>5 DEF ReadTimesOut, IInv, Types
  <2> QED BY <2>1, ResetForTurn
<1> QED BY <1>2, <1>3, <1>4, <1>5 DEF FsmRead, MoreArrives

LEMMA AroundStep == IInv /\ (PeerSends \/ Request) => IInv'
<1> SUFFICES ASSUME IInv, PeerSends \/ Request PROVE IInv'
  OBVIOUS
<1>1. /\ s' = s /\ reading' = reading /\ heard' = heard /\ sent' = sent
      /\ inbox' = inbox \/ inbox' = inbox + 1
  BY DEF PeerSends, Request
<1>2. Types' /\ SoundSession(s)' /\ ReadsData' /\ Hears' /\ Speaks'
  BY <1>1 DEF IInv, Types, SoundSession, ReadsData, Hears, Speaks, Blocked, Patience
<1> QED BY <1>2 DEF IInv

\* A second goes by: in select no timer has run out, in read the time it may
\* take has not.
LEMMA MaxRead == MaxStalls * RcvTimeo >= 1
<1>1. MaxStalls \in Nat \ {0} /\ RcvTimeo \in Nat \ {0}
  BY PeerFsmAssumption
<1>2. \A a, b \in Nat \ {0} : a * b >= 1
  <2> SUFFICES ASSUME NEW a \in Nat \ {0}, NEW b \in Nat \ {0} PROVE a * b >= 1
    OBVIOUS
  <2>1. a * b = (a - 1) * b + b
    OBVIOUS
  <2>2. (a - 1) * b \in Nat
    OBVIOUS
  <2> QED BY <2>1, <2>2
<1> QED BY <1>1, <1>2

LEMMA TickStep == IInv /\ Tick => IInv'
<1> SUFFICES ASSUME IInv, Tick PROVE IInv'
  OBVIOUS
<1>1. /\ s \in Session /\ inbox' = inbox /\ inbox \in Nat
      /\ s' = [s EXCEPT !.connectRetryTimer = Less(s.connectRetryTimer),
                        !.keepaliveTimer = Less(s.keepaliveTimer), !.holdTimer = Less(s.holdTimer)]
      /\ reading' = [reading EXCEPT !.left = Less(reading.left)]
      /\ heard' = Older(heard) /\ sent' = Older(sent)
  BY DEF Tick, IInv, Types
<1>2. /\ heard \in Nat /\ heard' \in Nat /\ heard' <= heard + 1
      /\ sent \in Nat /\ sent' \in Nat /\ sent' <= sent + 1
  <2>1. ASSUME NEW n \in Nat PROVE Older(n) \in Nat /\ Older(n) <= n + 1
    <3>1. n + 1 \in Nat /\ MaxAgo \in Nat
      BY PeerFsmAssumption
    <3> QED BY <3>1, TheMinOfTwo DEF Older
  <2>2. heard \in Nat /\ sent \in Nat
    BY DEF IInv, Types
  <2> QED BY <1>1, <2>1, <2>2
<1>3. ASSUME NEW t \in Timer
      PROVE  /\ Less(t) \in Timer /\ (Less(t) = Off <=> t = Off)
             /\ t > 0 => Less(t) = t - 1
             /\ t = 0 => Less(t) = 0
  BY <1>3 DEF Less, Timer, Off
<1>4. /\ s.connectRetryTimer \in Timer /\ s.keepaliveTimer \in Timer /\ s.holdTimer \in Timer
      /\ reading.left \in Timer
      /\ reading \in [left : Timer, stalls : 0..MaxStalls]
  BY <1>1 DEF Session, IInv, Types
<1>5. /\ s' \in Session /\ s'.state = s.state /\ s'.socket = s.socket /\ s'.capabilities = s.capabilities
      /\ s'.connectRetryTimer = Less(s.connectRetryTimer) /\ s'.keepaliveTimer = Less(s.keepaliveTimer)
      /\ s'.holdTimer = Less(s.holdTimer)
      /\ s'.holdTime = s.holdTime /\ s'.largeHoldTime = s.largeHoldTime /\ s'.keepaliveInt = s.keepaliveInt
  BY <1>1, <1>3, <1>4 DEF Session
<1>6. /\ reading' \in [left : Timer, stalls : 0..MaxStalls]
      /\ reading'.left = Less(reading.left) /\ reading'.stalls = reading.stalls
  BY <1>1, <1>3, <1>4
<1>7. Types'
  BY <1>1, <1>2, <1>3, <1>4, <1>5, <1>6 DEF IInv, Types
<1>8. SoundSession(s)'
  <2>1. SoundSession(s')
    BY <1>3, <1>4, <1>5 DEF IInv, SoundSession
  <2> QED BY <2>1 DEF SoundSession
<1>9. reading' = NotReading <=> reading = NotReading
  <2>1. reading = NotReading <=> reading.left = Off /\ reading.stalls = 0
    BY <1>4 DEF NotReading
  <2>2. reading' = NotReading <=> reading'.left = Off /\ reading'.stalls = 0
    BY <1>6 DEF NotReading
  <2> QED BY <2>1, <2>2, <1>3, <1>4, <1>6
<1>10. ReadsData'
  BY <1>1, <1>5, <1>9 DEF IInv, ReadsData
<1>11. Patience(s') = Patience(s) /\ (AlwaysDue(s') <=> AlwaysDue(s))
  BY <1>3, <1>4, <1>5 DEF Patience, AlwaysDue
<1>12. CASE reading = NotReading /\ ~Ready(s)
  <2>1. \A t \in Timers(s) : t > 0
    <3> SUFFICES ASSUME NEW t \in Timers(s) PROVE t > 0
      OBVIOUS
    <3>1. SessionTimer(s) \in Timers(s) /\ SessionTimer(s) <= t
      BY <1>1, SessionTimerIs
    <3>2. ~(SessionTimer(s) <= 0)
      BY <1>12 DEF Tick, Ready
    <3>3. Timers(s) \subseteq Nat
      BY <1>4 DEF Timers, Timer
    <3> QED BY <3>1, <3>2, <3>3
  <2>2. Hears'
    <3> SUFFICES ASSUME s.state \in OpenStates, ~AlwaysDue(s) PROVE heard' + s'.holdTimer <= Patience(s)
      BY <1>5, <1>9, <1>11, <1>12 DEF Hears, Patience
    <3>1. s.holdTimer \in Timers(s) /\ s.holdTimer \in Nat
      BY <1>4 DEF IInv, SoundSession, Timers, Timer
    <3>2. s'.holdTimer = s.holdTimer - 1 /\ s.holdTimer > 0
      BY <1>3, <1>4, <1>5, <2>1, <3>1
    <3>3. heard + s.holdTimer <= Patience(s) /\ Patience(s) \in Nat
      BY <1>1, <1>12 DEF IInv, Hears, Patience, Session
    <3> QED BY <1>2, <3>1, <3>2, <3>3
  <2>3. Speaks'
    <3> SUFFICES ASSUME s.state \in {"OpenConfirm", "Established"}
                 PROVE  sent' + s'.keepaliveTimer <= s.keepaliveInt
      BY <1>5 DEF Speaks
    <3>1. s.keepaliveTimer \in Timers(s) /\ s.keepaliveTimer \in Nat
      BY <1>4 DEF IInv, SoundSession, Timers, Timer
    <3>2. s'.keepaliveTimer = s.keepaliveTimer - 1 /\ s.keepaliveTimer > 0
      BY <1>3, <1>4, <1>5, <2>1, <3>1
    <3>3. sent + s.keepaliveTimer <= s.keepaliveInt /\ s.keepaliveInt \in Nat
      BY <1>1, <3>2 DEF IInv, Speaks, Session
    <3> QED BY <1>2, <3>1, <3>2, <3>3
  <2> QED BY <1>7, <1>8, <1>10, <2>2, <2>3 DEF IInv
<1>13. CASE reading # NotReading
  <2>1. /\ reading.left \in 0..RcvTimeo /\ reading.left > 0
        /\ (reading.stalls - 1) * RcvTimeo \in Nat /\ Blocked \in Nat
        /\ Blocked = MaxStalls * RcvTimeo - ((reading.stalls - 1) * RcvTimeo + reading.left)
    BY <1>13, ReadingLeft DEF Tick
  <2>2. reading'.left = reading.left - 1 /\ reading'.stalls = reading.stalls
    BY <1>3, <1>4, <1>6, <2>1
  <2>3. Hears'
    <3> SUFFICES ASSUME s.state \in OpenStates PROVE heard' + reading'.left <= RcvTimeo
      BY <1>5, <1>9, <1>13 DEF Hears
    <3>1. heard + reading.left <= RcvTimeo /\ RcvTimeo \in Nat
      BY <1>13, PeerFsmAssumption DEF IInv, Hears
    <3> QED BY <1>2, <2>1, <2>2, <3>1
  <2>4. Blocked' = Blocked + 1
    <3> DEFINE a == (reading.stalls - 1) * RcvTimeo
               c == MaxStalls * RcvTimeo
    <3>1. Blocked' = MaxStalls * RcvTimeo - ((reading'.stalls - 1) * RcvTimeo + reading'.left)
      BY <1>9, <1>13 DEF Blocked
    <3>2. Blocked' = c - (a + (reading.left - 1)) /\ Blocked = c - (a + reading.left)
      BY <2>1, <2>2, <3>1
    <3>3. a \in Nat /\ c \in Int /\ reading.left \in Int
      BY <2>1, PeerFsmAssumption
    <3> HIDE DEF a, c
    <3> QED BY <3>2, <3>3
  <2>5. Speaks'
    <3> SUFFICES ASSUME s.state \in {"OpenConfirm", "Established"}
                 PROVE  \/ sent' + s'.keepaliveTimer <= s.keepaliveInt
                        \/ s'.keepaliveTimer = 0 /\ sent' <= s.keepaliveInt + (Blocked + 1)
      BY <1>5, <2>4 DEF Speaks
    <3>1. s.keepaliveTimer \in Nat /\ s.keepaliveInt \in Nat
      BY <1>1, <1>4 DEF IInv, SoundSession, Timer, Session
    <3>2. CASE s.keepaliveTimer > 0
      <4>1. s'.keepaliveTimer = s.keepaliveTimer - 1 /\ sent + s.keepaliveTimer <= s.keepaliveInt
        BY <1>3, <1>4, <1>5, <3>2 DEF IInv, Speaks
      <4> QED BY <1>2, <3>1, <3>2, <4>1
    <3>3. CASE s.keepaliveTimer = 0
      <4>1. s'.keepaliveTimer = 0
        BY <1>3, <1>4, <1>5, <3>3
      <4>2. sent <= s.keepaliveInt + Blocked
        <5>1. sent + s.keepaliveTimer <= s.keepaliveInt \/ sent <= s.keepaliveInt + Blocked
          BY DEF IInv, Speaks
        <5> QED BY <1>2, <2>1, <3>1, <3>3, <5>1
      <4> QED BY <1>2, <2>1, <3>1, <4>1, <4>2
    <3> QED BY <3>1, <3>2, <3>3
  <2> QED BY <1>7, <1>8, <1>10, <2>3, <2>5 DEF IInv
<1>14. CASE reading = NotReading /\ Ready(s)
  <2>1. AlwaysDue(s) /\ sent = 0
    BY <1>14 DEF Tick, Spins
  <2>2. Hears'
    BY <1>9, <1>11, <1>14, <2>1 DEF Hears
  <2>3. Speaks'
    <3> SUFFICES ASSUME s.state \in {"OpenConfirm", "Established"}
                 PROVE  \/ sent' + s'.keepaliveTimer <= s.keepaliveInt
                        \/ s'.keepaliveTimer = 0 /\ sent' <= s.keepaliveInt + MaxStalls * RcvTimeo
      BY <1>5, <1>9, <1>14 DEF Speaks, Blocked
    <3>1. s.keepaliveTimer \in Nat /\ s.keepaliveInt \in Nat /\ sent' <= 1
      BY <1>1, <1>2, <1>4, <2>1 DEF IInv, SoundSession, Timer, Session
    <3>2. CASE s.keepaliveTimer > 0
      <4>1. s'.keepaliveTimer = s.keepaliveTimer - 1 /\ sent + s.keepaliveTimer <= s.keepaliveInt
        BY <1>3, <1>4, <1>5, <3>2 DEF IInv, Speaks
      <4> QED BY <1>2, <2>1, <3>1, <4>1
    <3>3. CASE s.keepaliveTimer = 0
      <4>1. s'.keepaliveTimer = 0
        BY <1>3, <1>4, <1>5, <3>3
      <4>2. MaxStalls * RcvTimeo >= 1
        BY MaxRead
      <4>3. MaxStalls * RcvTimeo \in Nat
        BY PeerFsmAssumption
      <4> QED BY <1>2, <3>1, <4>1, <4>2, <4>3
    <3> QED BY <3>1, <3>2, <3>3
  <2> QED BY <1>7, <1>8, <1>10, <2>2, <2>3 DEF IInv
<1> QED BY <1>12, <1>13, <1>14

LEMMA NextInv == IInv /\ [Next]_vars => IInv'
<1> SUFFICES ASSUME IInv, [Next]_vars PROVE IInv'
  OBVIOUS
<1>1. CASE UNCHANGED vars
  <2>1. s' = s /\ inbox' = inbox /\ reading' = reading /\ heard' = heard /\ sent' = sent
    BY <1>1 DEF vars
  <2> QED BY <2>1 DEF IInv, Types, SoundSession, ReadsData, Hears, Speaks, Blocked, Patience
<1> QED BY <1>1, IdleStep, ConnectStep, TimerStep, ReadStep, AroundStep, TickStep DEF Next, Fsm

----------------------------------------------------------------------------
\* Every variable of the session keeps its type (fsm.h, peersession.h).
THEOREM TypeCorrect == Spec => []Types
<1>1. IInv => Types
  BY DEF IInv
<1> QED BY <1>1, InitInv, NextInv, PTL DEF Spec

\* For any configuration and any messages: the socket, the capabilities and the
\* timers are those of the state, so that fsmConnect never meets a timer that
\* is not its own, and the thread reads only what is there (bgpfsm.c).
THEOREM ResourcesFollowTheState == Spec => []ResourcesByState
<1>1. IInv => ResourcesByState
  <2> SUFFICES ASSUME IInv PROVE ResourcesByState
    OBVIOUS
  <2>1. s \in Session /\ SoundSession(s) /\ ReadsData
    BY DEF IInv, Types
  <2>2. ASSUME s.state = "Connect", Ready(s) PROVE CheckTimers(s) = "ConnectRetryTimer"
    <3>1. /\ s.connectRetryTimer # Off /\ s.keepaliveTimer = Off /\ s.holdTimer = Off /\ ~s.socket
      BY <2>1, <2>2 DEF SoundSession, OpenStates
    <3>2. Timers(s) = {s.connectRetryTimer} /\ SessionTimer(s) <= 0
      BY <2>2, <3>1 DEF Timers, Ready
    <3>3. SessionTimer(s) = s.connectRetryTimer
      BY <2>1, <3>2, SessionTimerIs
    <3> QED BY <2>1, <3>1, <3>2, <3>3 DEF CheckTimers, Expires, Session, Timer
  <2>3. ASSUME s.state \in OpenStates, Ready(s), inbox = 0 PROVE CheckTimers(s) # "None"
    <3>1. s.holdTimer \in Timers(s) /\ Timers(s) \subseteq Nat
      BY <2>1, <2>3 DEF SoundSession, Timers, Session, Timer
    <3>2. SessionTimer(s) \in Timers(s) /\ SessionTimer(s) <= 0
      BY <2>1, <2>3, <3>1, SessionTimerIs DEF Ready, OpenStates
    <3>3. \/ Expires(s.connectRetryTimer) \/ Expires(s.keepaliveTimer) \/ Expires(s.holdTimer)
      BY <3>1, <3>2 DEF Timers, Expires
    <3> QED BY <3>3 DEF CheckTimers
  <2> QED BY <2>1, <2>2, <2>3 DEF ResourcesByState, SoundSession, ReadsData
<1> QED BY <1>1, InitInv, NextInv, PTL DEF Spec

\* For any stalls and any hold time from six seconds on: a peer that is silent for
\* the hold time, or for what one read may block, is dropped (checkTimers, readn).
\* The statement says nothing of a peer whose keepalive timer is always due, with
\* a shorter hold time: it may be silent for ever.
THEOREM SilentPeersAreDropped == Spec => []SilentPeerDropped
<1>1. IInv => SilentPeerDropped
  <2> SUFFICES ASSUME IInv, s.socket,
                      ~AlwaysDue(s)
               PROVE  heard <= RcvTimeo + Patience(s)
    BY DEF SilentPeerDropped, Patience
  <2>1. s.state \in OpenStates /\ s.holdTimer \in Nat /\ Patience(s) \in Nat /\ RcvTimeo \in Nat /\ heard \in Nat
    BY PeerFsmAssumption DEF IInv, Types, SoundSession, Session, Timer, Patience
  <2>2. CASE reading = NotReading
    BY <2>1, <2>2 DEF IInv, Hears
  <2>3. CASE reading # NotReading
    <3>1. reading.left \in 0..RcvTimeo /\ heard + reading.left <= RcvTimeo
      BY <2>1, <2>3, ReadingLeft DEF IInv, Hears
    <3> QED BY <2>1, <3>1
  <2> QED BY <2>2, <2>3
<1> QED BY <1>1, InitInv, NextInv, PTL DEF Spec

\* For any hold times and any stalls: from its OPEN on a peer waits for a message
\* no longer than the keepalive interval and the pieces of one message that
\* block (fsmEstablished, sendKeepaliveMessage).
THEOREM KeepalivesAreInTime == Spec => []KeepalivesInTime
<1>1. IInv => KeepalivesInTime
  <2> SUFFICES ASSUME IInv, s.state \in {"OpenConfirm", "Established"}
               PROVE  sent <= s.keepaliveInt + MaxStalls * RcvTimeo
    BY DEF KeepalivesInTime
  <2>1. \/ sent + s.keepaliveTimer <= s.keepaliveInt
        \/ s.keepaliveTimer = 0 /\ sent <= s.keepaliveInt + MaxStalls * RcvTimeo
    BY SpeaksLate
  <2>2. MaxStalls * RcvTimeo \in Nat
    BY PeerFsmAssumption
  <2>3. sent \in Nat /\ s.keepaliveInt \in Nat /\ s.keepaliveTimer \in Nat
    BY DEF IInv, Types, SoundSession, Session, Timer
  <2> QED BY <2>1, <2>2, <2>3
<1> QED BY <1>1, InitInv, NextInv, PTL DEF Spec

(***************************************************************************)
(* Recursion and induction up to a number.                                 *)
(***************************************************************************)

LEMMA LeastIn ==
  ASSUME NEW S \in SUBSET Nat, S # {}
  PROVE  \E n \in S : \A k \in S : n <= k
<1>1. PICK n \in S : \A k \in S : ~(<<k, n>> \in OpToRel(<, Nat))
  BY WFMin, NatLessThanWellFounded, Zenon
<1>2. \A k \in S : ~(k < n)
  BY <1>1 DEF OpToRel
<1> QED BY <1>2

\* A set that holds 0, and with a number the next, holds all up to n.
LEMMA UpTo ==
  ASSUME NEW n \in Nat, NEW S, 0 \in S, \A k \in 1..n : k - 1 \in S => k \in S
  PROVE  \A k \in 0..n : k \in S
<1> DEFINE out == {k \in Nat : k <= n /\ k \notin S}
<1> SUFFICES ASSUME out # {} PROVE FALSE
  OBVIOUS
<1>1. PICK k \in out : \A j \in out : k <= j
  BY LeastIn
<1>2. k \in 1..n /\ k - 1 \in Nat /\ k - 1 <= n /\ k - 1 < k
  OBVIOUS
<1>3. k - 1 \in S
  BY <1>1, <1>2
<1> QED BY <1>2, <1>3

\* A step within a set has its function of the numbers up to n.
Recursive(n, V, first, step) ==
  \E f \in [0..n -> V] : f[0] = first /\ \A k \in 1..n : f[k] = step[<<k, f[k - 1]>>]

LEMMA Recursion ==
  ASSUME NEW n, NEW V, NEW first, NEW step, n \in Nat, first \in V, step \in [(1..n) \X V -> V]
  PROVE  Recursive(n, V, first, step)
<1> DEFINE Is(f, m) == f \in [0..m -> V] /\ f[0] = first /\ \A k \in 1..m : f[k] = step[<<k, f[k - 1]>>]
           S == {m \in 0..n : \E f : Is(f, m)}
<1>1. 0 \in S
  <2>1. Is([k \in 0..0 |-> first], 0)
    OBVIOUS
  <2> HIDE DEF Is
  <2> QED BY <2>1
<1>2. ASSUME NEW m \in 1..n, m - 1 \in S PROVE m \in S
  <2>1. PICK f : Is(f, m - 1)
    BY <1>2
  <2> DEFINE g == [k \in 0..m |-> IF k = m THEN step[<<m, f[m - 1]>>] ELSE f[k]]
  <2>2. f[m - 1] \in V /\ step[<<m, f[m - 1]>>] \in V
    BY <2>1
  <2>3. g \in [0..m -> V] /\ g[0] = first /\ g[m] = step[<<m, f[m - 1]>>] /\ \A k \in 0..(m - 1) : g[k] = f[k]
    BY <2>1, <2>2
  <2> HIDE DEF g
  <2>4. ASSUME NEW k \in 1..m PROVE g[k] = step[<<k, g[k - 1]>>]
    <3>1. g[k - 1] = f[k - 1]
      BY <2>3
    <3>2. CASE k = m
      BY <2>3, <3>1, <3>2
    <3>3. CASE k \in 1..(m - 1)
      BY <2>1, <2>3, <3>1, <3>3
    <3> QED BY <3>2, <3>3
  <2> QED BY <2>3, <2>4
<1>3. \A k \in 0..n : k \in S
  <2> HIDE DEF S
  <2> QED BY <1>1, <1>2, UpTo
<1> QED BY <1>3 DEF Recursive

(***************************************************************************)
(* The tables of groups and of peers.                                      *)
(***************************************************************************)

\* A name is in use once, the default group's in slot 0, and each of the other
\* groups refers to that slot.
GroupTables ==
  {gs \in [Slots -> GroupConfs \cup {NoGroup}] :
     \A i \in Used(gs) :
       /\ \A j \in Used(gs) : gs[i].name = gs[j].name => i = j
       /\ gs[i].name = Default <=> i = 0
       /\ gs[i].groupID = IF i = 0 THEN -1 ELSE 0}

FreshTables == {gs \in GroupTables : 0 \in Used(gs)}

\* A peer that was not orphaned refers to the slot of the group it names.
PeersOk ==
  \A a \in Addresses : peers[a] # NoPeer /\ a \notin orphans =>
    peers[a].groupID \in Used(groups) /\ groups[peers[a].groupID].name = peers[a].group

ConfigIInv == TypeOK /\ groups \in GroupTables /\ PeersOk

LEMMA Shapes ==
  /\ 0 \in Slots /\ -1 \notin Slots /\ Unset = -1 /\ Slots \subseteq Nat
  /\ NoGroup \notin GroupConfs /\ NoPeer \notin PeerConfs
  /\ Default \in AllNames /\ Names \subseteq AllNames
  /\ AllUnset \in Own
  /\ DefaultGroup \in GroupConfs /\ DefaultGroup.name = Default /\ DefaultGroup.groupID = -1
<1>1. 0 \in Slots /\ -1 \notin Slots /\ Unset = -1 /\ Slots \subseteq Nat
  <2>1. MaxGroups \in Nat \ {0}
    BY PeerConfigAssumption
  <2>2. 0 \in Slots /\ Slots \subseteq Nat /\ Unset = -1
    BY <2>1 DEF Slots, Unset
  <2>3. -1 \notin Nat
    OBVIOUS
  <2> QED BY <2>2, <2>3
<1>2. "" \notin AllNames
  BY PeerConfigAssumption DEF AllNames, Default
<1>3. NoGroup \notin GroupConfs
  BY <1>2 DEF GroupConfs, NoGroup
<1>4. NoPeer \notin PeerConfs
  BY <1>2 DEF PeerConfs, NoPeer
<1>5. AllUnset \in Own
  BY DEF AllUnset, Own
<1>6. DefaultGroup.own \in Own
  BY DEF DefaultGroup, Own, Unset
<1>7. DefaultGroup \in GroupConfs /\ DefaultGroup.name = Default /\ DefaultGroup.groupID = -1
  BY <1>6 DEF DefaultGroup, GroupConfs, AllNames
<1> QED BY <1>1, <1>3, <1>4, <1>5, <1>7 DEF AllNames

\* findPeerGroupID.
LEMMA GroupIDIs ==
  ASSUME NEW gs \in GroupTables, NEW n
  PROVE  /\ GroupID(gs, n) # -1 => GroupID(gs, n) \in Used(gs) /\ gs[GroupID(gs, n)].name = n
         /\ GroupID(gs, n) = -1 => \A i \in Used(gs) : gs[i].name # n
         /\ \A i \in Used(gs) : gs[i].name = n => GroupID(gs, n) = i
         /\ GroupID(gs, n) \in {-1} \cup Slots
<1>1. Used(gs) \subseteq Slots
  BY DEF Used
<1>2. CASE \E i \in Used(gs) : gs[i].name = n
  <2>1. PICK i \in Used(gs) : gs[i].name = n
    BY <1>2
  <2>2. GroupID(gs, n) = CHOOSE j \in Used(gs) : gs[j].name = n
    BY <1>2 DEF GroupID
  <2>3. GroupID(gs, n) \in Used(gs) /\ gs[GroupID(gs, n)].name = n
    BY <2>1, <2>2
  <2> QED BY <1>1, <2>3, Shapes DEF GroupTables
<1>3. CASE ~ \E i \in Used(gs) : gs[i].name = n
  BY <1>3, Shapes DEF GroupID
<1> QED BY <1>2, <1>3

LEMMA GroupsAre ==
  ASSUME NEW gs \in GroupTables
  PROVE  /\ gs \in [Slots -> GroupConfs \cup {NoGroup}] /\ Used(gs) \subseteq Slots
         /\ \A i \in Used(gs) : gs[i] \in GroupConfs /\ gs[i].groupID = IF i = 0 THEN -1 ELSE 0
         /\ \A i \in Used(gs) : gs[i].name = Default <=> i = 0
         /\ GroupID(gs, Default) # -1 <=> 0 \in Used(gs)
         /\ 0 \in Used(gs) => GroupID(gs, Default) = 0
<1>1. gs \in [Slots -> GroupConfs \cup {NoGroup}] /\ Used(gs) \subseteq Slots
  BY DEF GroupTables, Used
<1>2. \A i \in Used(gs) : gs[i] \in GroupConfs
  BY <1>1 DEF Used
<1>3. \A i \in Used(gs) : (gs[i].name = Default <=> i = 0) /\ gs[i].groupID = IF i = 0 THEN -1 ELSE 0
  BY DEF GroupTables
<1> QED BY <1>1, <1>2, <1>3, GroupIDIs, Shapes

\* createPeerGroupStruct.
LEMMA AddGroupIs ==
  ASSUME NEW gs \in FreshTables, NEW n \in AllNames, CanAddGroup(gs, n),
         NEW c, c.groupID = 0, c.own \in Own, c.rules \in Seq(Rule), c.announce \in Seq(Capability)
  PROVE  /\ AddGroup(gs, n, c) \in FreshTables
         /\ \E i \in Slots \ Used(gs) : /\ \A j \in Slots \ Used(gs) : i <= j
                                        /\ AddGroup(gs, n, c) = [gs EXCEPT ![i] = NewGroup(n, c)]
                                        /\ Used(AddGroup(gs, n, c)) = Used(gs) \cup {i}
<1>1. gs \in GroupTables /\ 0 \in Used(gs) /\ gs \in [Slots -> GroupConfs \cup {NoGroup}] /\ Used(gs) \subseteq Slots
  BY GroupsAre DEF FreshTables
<1>2. \A i \in Used(gs) : gs[i].name # n
  BY <1>1, GroupIDIs DEF CanAddGroup
<1>3. n # Default
  BY <1>1, <1>2, GroupsAre
<1>4. \E i \in Slots \ Used(gs) : \A j \in Slots \ Used(gs) : i <= j
  <2>1. Slots \ Used(gs) # {} /\ Slots \ Used(gs) \in SUBSET Nat
    BY <1>1, Shapes DEF CanAddGroup
  <2> QED BY <2>1, LeastIn
<1> DEFINE i == CHOOSE k \in Slots \ Used(gs) : \A j \in Slots \ Used(gs) : k <= j
           g == NewGroup(n, c)
           new == [gs EXCEPT ![i] = g]
<1>5. i \in Slots \ Used(gs) /\ \A j \in Slots \ Used(gs) : i <= j
  BY <1>4
<1>6. AddGroup(gs, n, c) = new
  BY DEF AddGroup
<1> HIDE DEF i
<1>7. g \in GroupConfs /\ g.name = n /\ g.groupID = 0 /\ g # NoGroup
  <2>1. g \in GroupConfs /\ g.name = n /\ g.groupID = 0
    BY Shapes DEF NewGroup, GroupConfs
  <2> QED BY <2>1, Shapes
<1> HIDE DEF g
<1>8. new \in [Slots -> GroupConfs \cup {NoGroup}] /\ new[i] = g /\ \A j \in Slots : j # i => new[j] = gs[j]
  BY <1>1, <1>5, <1>7
<1> HIDE DEF new
<1>9. Used(new) = Used(gs) \cup {i}
  BY <1>5, <1>7, <1>8 DEF Used
<1>10. i # 0
  BY <1>1, <1>5
<1>11. new \in GroupTables
  <2>1. ASSUME NEW k \in Used(new), NEW j \in Used(new), new[k].name = new[j].name PROVE k = j
    <3>1. CASE k = i \/ j = i
      BY <3>1, <2>1, <1>1, <1>2, <1>5, <1>7, <1>8, <1>9
    <3>2. CASE k # i /\ j # i
      <4>1. k \in Used(gs) /\ j \in Used(gs) /\ gs[k].name = gs[j].name
        BY <3>2, <2>1, <1>1, <1>8, <1>9
      <4> QED BY <4>1, <1>1 DEF GroupTables
    <3> QED BY <3>1, <3>2
  <2>2. ASSUME NEW k \in Used(new)
        PROVE (new[k].name = Default <=> k = 0) /\ new[k].groupID = IF k = 0 THEN -1 ELSE 0
    <3>1. CASE k = i
      BY <3>1, <1>3, <1>7, <1>8, <1>10
    <3>2. CASE k # i
      <4>1. k \in Used(gs) /\ new[k] = gs[k]
        BY <3>2, <2>2, <1>1, <1>8, <1>9
      <4> QED BY <4>1, <1>1, GroupsAre
    <3> QED BY <3>1, <3>2
  <2> QED BY <2>1, <2>2, <1>8 DEF GroupTables
<1> QED BY <1>1, <1>5, <1>6, <1>9, <1>11 DEF FreshTables, new, g

\* What a file holds of groups, by the places in it.
GroupEntries == Entries(AllNames, {Default})
Document(doc) ==
  /\ doc.peers \subseteq Entries(Addresses, AllNames)
  /\ \A k \in 1..MaxGroups : k \in DOMAIN doc.groups => doc.groups[k] \in GroupEntries

LEMMA FilesAreDocuments ==
  ASSUME NEW doc \in Documents
  PROVE  Document(doc)
<1>1. doc.groups \in Seq(GroupEntries) /\ doc.peers \subseteq Entries(Addresses, AllNames)
  BY PeerConfigAssumption DEF File, GroupEntries
<1> QED BY <1>1 DEF Document

LEMMA ReadOneGroupIs ==
  ASSUME NEW gs \in FreshTables, NEW e \in GroupEntries
  PROVE  ReadOneGroup(gs, e) \in FreshTables
<1>1. /\ e.name \in AllNames /\ e.own \in Own /\ e.rules \in Seq(Rule) /\ e.announce \in Seq(Capability)
      /\ e.group = Default
  BY DEF GroupEntries, Entries
<1>2. GroupID(gs, Default) = 0
  BY GroupsAre DEF FreshTables
<1>3. CASE CanRead(gs, e)
  <2> DEFINE c == ReadEntry(gs, e)
  <2>1. c.groupID = 0 /\ c.own \in Own /\ c.rules \in Seq(Rule) /\ c.announce \in Seq(Capability)
    BY <1>1, <1>2 DEF ReadEntry
  <2>2. CanAddGroup(gs, e.name)
    BY <1>3 DEF CanRead
  <2> HIDE DEF c
  <2>3. AddGroup(gs, e.name, c) \in FreshTables
    BY <1>1, <2>1, <2>2, AddGroupIs
  <2> QED BY <1>3, <2>3 DEF ReadOneGroup, c
<1>4. CASE ~ CanRead(gs, e)
  BY <1>4 DEF ReadOneGroup
<1> QED BY <1>3, <1>4

LEMMA JustDefaultIs == JustDefault \in FreshTables /\ JustDefault[0] = DefaultGroup /\ Used(JustDefault) = {0}
<1>1. DefaultGroup # NoGroup
  BY Shapes
<1>2. JustDefault \in [Slots -> GroupConfs \cup {NoGroup}]
  BY Shapes DEF JustDefault
<1>3. JustDefault[0] = DefaultGroup /\ Used(JustDefault) = {0}
  BY <1>1, Shapes DEF JustDefault, Used
<1> QED BY <1>2, <1>3, Shapes DEF FreshTables, GroupTables

\* readPeerGroupsSettings: each place of the file adds a group or leaves the table as it is.
LEMMA GroupsAfterIs ==
  ASSUME NEW doc, Document(doc)
  PROVE  /\ GroupsAfter(doc)[0] = JustDefault
         /\ \A k \in 0..MaxGroups : GroupsAfter(doc)[k] \in FreshTables
         /\ \A k \in 1..MaxGroups :
              GroupsAfter(doc)[k] = IF k \in DOMAIN doc.groups
                                    THEN ReadOneGroup(GroupsAfter(doc)[k - 1], doc.groups[k])
                                    ELSE GroupsAfter(doc)[k - 1]
<1> DEFINE Take(k, gs) == IF k \in DOMAIN doc.groups THEN ReadOneGroup(gs, doc.groups[k]) ELSE gs
           step == [x \in (1..MaxGroups) \X FreshTables |-> Take(x[1], x[2])]
           Is(f) == f = [k \in 0..MaxGroups |->
                          IF k = 0 THEN JustDefault
                          ELSE IF k \in DOMAIN doc.groups THEN ReadOneGroup(f[k - 1], doc.groups[k])
                          ELSE f[k - 1]]
<1>0. MaxGroups \in Nat
  BY PeerConfigAssumption
<1>1. \A k \in 1..MaxGroups, gs \in FreshTables : Take(k, gs) \in FreshTables
  BY ReadOneGroupIs DEF Document
<1> HIDE DEF Take
<1>2. step \in [(1..MaxGroups) \X FreshTables -> FreshTables]
  BY <1>1
<1>3. \A k \in 1..MaxGroups, gs \in FreshTables : step[<<k, gs>>] = Take(k, gs)
  OBVIOUS
<1> HIDE DEF step
<1>4. PICK f \in [0..MaxGroups -> FreshTables] :
        f[0] = JustDefault /\ \A k \in 1..MaxGroups : f[k] = step[<<k, f[k - 1]>>]
  <2>1. JustDefault \in FreshTables
    BY JustDefaultIs
  <2>2. Recursive(MaxGroups, FreshTables, JustDefault, step)
    BY <1>0, <1>2, <2>1, Recursion
  <2> QED BY <2>2 DEF Recursive
<1>5. ASSUME NEW k \in 1..MaxGroups PROVE f[k] = Take(k, f[k - 1])
  <2>1. k - 1 \in 0..MaxGroups
    BY <1>0
  <2>2. f[k - 1] \in FreshTables
    BY <1>4, <2>1
  <2> QED BY <1>3, <1>4, <2>2
<1>6. Is(f)
  <2>1. f = [k \in 0..MaxGroups |-> f[k]]
    BY <1>4
  <2>2. ASSUME NEW k \in 0..MaxGroups
        PROVE  f[k] = IF k = 0 THEN JustDefault
                      ELSE IF k \in DOMAIN doc.groups THEN ReadOneGroup(f[k - 1], doc.groups[k])
                      ELSE f[k - 1]
    BY <1>0, <1>4, <1>5 DEF Take
  <2> QED BY <2>1, <2>2, Zenon
<1>7. GroupsAfter(doc) = CHOOSE h : Is(h)
  BY DEF GroupsAfter
<1> DEFINE g == GroupsAfter(doc)
<1>8. Is(g)
  <2> HIDE DEF Is
  <2> QED BY <1>6, <1>7
<1> HIDE DEF g
<1>9. g[0] = JustDefault /\ \A k \in 1..MaxGroups : g[k] = Take(k, g[k - 1])
  BY <1>0, <1>8 DEF Take
<1>10. \A k \in 0..MaxGroups : g[k] \in FreshTables
  <2> DEFINE S == {k \in 0..MaxGroups : g[k] \in FreshTables}
  <2>1. 0 \in S
    BY <1>0, <1>9, JustDefaultIs
  <2>2. ASSUME NEW k \in 1..MaxGroups, k - 1 \in S PROVE k \in S
    BY <2>2, <1>0, <1>1, <1>9
  <2>3. \A k \in 0..MaxGroups : k \in S
    <3> HIDE DEF S
    <3> QED BY <1>0, <2>1, <2>2, UpTo
  <2> QED BY <2>3
<1> QED BY <1>9, <1>10 DEF g, Take

\* readConfigFile: what is read of a file.
LEMMA ReadIs ==
  ASSUME NEW doc, Document(doc)
  PROVE  /\ ReadGroups(doc) \in FreshTables
         /\ ReadPeers(doc) \in [Addresses -> PeerConfs \cup {NoPeer}]
         /\ \A a \in Addresses : ReadPeers(doc)[a] # NoPeer /\ a \notin Groupless(ReadPeers(doc)) =>
              /\ ReadPeers(doc)[a].groupID \in Used(ReadGroups(doc))
              /\ ReadGroups(doc)[ReadPeers(doc)[a].groupID].name = ReadPeers(doc)[a].group
<1> DEFINE gs == ReadGroups(doc)
           ps == ReadPeers(doc)
<1>1. gs \in FreshTables
  <2>1. MaxGroups \in Nat
    BY PeerConfigAssumption
  <2>2. MaxGroups \in 0..MaxGroups
    BY <2>1
  <2> QED BY <2>2, GroupsAfterIs DEF ReadGroups
<1>2. gs \in GroupTables
  BY <1>1 DEF FreshTables
<1>3. ASSUME NEW a \in Addresses
      PROVE  ps[a] = NoPeer \/ \E e \in doc.peers : ps[a] = ReadEntry(gs, e)
  BY DEF ReadPeers
<1>4. DOMAIN ps = Addresses /\ ps = [a \in Addresses |-> ps[a]]
  BY DEF ReadPeers
<1> HIDE DEF gs, ps
<1>5. ASSUME NEW a \in Addresses, ps[a] # NoPeer
      PROVE  ps[a] \in PeerConfs /\ ps[a].groupID = GroupID(gs, ps[a].group)
  <2>1. PICK e \in doc.peers : ps[a] = ReadEntry(gs, e)
    BY <1>3, <1>5
  <2>2. e.group \in AllNames /\ e.own \in Own /\ e.rules \in Seq(Rule) /\ e.announce \in Seq(Capability)
    BY DEF Document, Entries
  <2>3. GroupID(gs, e.group) \in {-1} \cup Slots
    BY <1>2, GroupIDIs
  <2> QED BY <2>1, <2>2, <2>3 DEF ReadEntry, PeerConfs
<1>6. ps \in [Addresses -> PeerConfs \cup {NoPeer}]
  BY <1>4, <1>5
<1>7. ASSUME NEW a \in Addresses, ps[a] # NoPeer, a \notin Groupless(ps)
      PROVE  ps[a].groupID \in Used(gs) /\ gs[ps[a].groupID].name = ps[a].group
  <2>1. ps[a].groupID # -1
    BY <1>7 DEF Groupless
  <2> QED BY <2>1, <1>2, <1>5, <1>7, GroupIDIs
<1> QED BY <1>1, <1>6, <1>7 DEF gs, ps

LEMMA StartInv ==
  ASSUME NEW doc, Document(doc), Start(doc)
  PROVE  ConfigIInv'
<1> DEFINE gs == ReadGroups(doc)
           ps == ReadPeers(doc)
<1>1. groups' = gs /\ peers' = ps /\ crashed' = FALSE /\ orphans' = Groupless(ps)
  BY DEF Start
<1>2. /\ gs \in GroupTables /\ gs \in [Slots -> GroupConfs \cup {NoGroup}]
      /\ ps \in [Addresses -> PeerConfs \cup {NoPeer}]
      /\ \A a \in Addresses : ps[a] # NoPeer /\ a \notin Groupless(ps) =>
           ps[a].groupID \in Used(gs) /\ gs[ps[a].groupID].name = ps[a].group
  BY ReadIs DEF FreshTables, GroupTables
<1> HIDE DEF gs, ps
<1>3. TypeOK'
  BY <1>1, <1>2 DEF TypeOK, Groupless
<1>4. PeersOk'
  BY <1>1, <1>2 DEF PeersOk
<1> QED BY <1>1, <1>2, <1>3, <1>4 DEF ConfigIInv

LEMMA ConfigInitInv == ConfigInit => ConfigIInv
<1> SUFFICES ASSUME NEW doc \in Documents, groups = ReadGroups(doc), peers = ReadPeers(doc),
                    crashed = FALSE, orphans = Groupless(ReadPeers(doc))
             PROVE  ConfigIInv
  BY DEF ConfigInit
<1>1. Document(doc)
  BY FilesAreDocuments
<1>2. /\ groups \in GroupTables /\ groups \in [Slots -> GroupConfs \cup {NoGroup}]
      /\ peers \in [Addresses -> PeerConfs \cup {NoPeer}]
      /\ \A a \in Addresses : peers[a] # NoPeer /\ a \notin Groupless(peers) =>
           peers[a].groupID \in Used(groups) /\ groups[peers[a].groupID].name = peers[a].group
  BY <1>1, ReadIs DEF FreshTables, GroupTables
<1>3. TypeOK
  BY <1>2 DEF TypeOK, Groupless
<1>4. PeersOk
  BY <1>2 DEF PeersOk
<1> QED BY <1>2, <1>3, <1>4 DEF ConfigIInv

\* saveConfigFile writes what readConfigFile can read.
LEMMA SavedIsDocument ==
  ASSUME ConfigIInv
  PROVE  Document(Saved(groups, peers))
<1>1. ASSUME NEW i \in Used(groups) PROVE Entry(groups[i].name, groups[i], Default) \in GroupEntries
  <2>1. groups[i] \in GroupConfs
    BY GroupsAre DEF ConfigIInv
  <2> QED BY <2>1 DEF Entry, GroupEntries, Entries, GroupConfs
<1>2. ASSUME NEW k \in 1..MaxGroups, k \in DOMAIN Saved(groups, peers).groups
      PROVE  Saved(groups, peers).groups[k] \in GroupEntries
  BY <1>1, <1>2 DEF Saved, SavedGroups
<1>3. ASSUME NEW a \in Addresses, peers[a] # NoPeer
      PROVE  Entry(a, peers[a], peers[a].group) \in Entries(Addresses, AllNames)
  <2>1. peers[a] \in PeerConfs
    BY <1>3 DEF ConfigIInv, TypeOK
  <2> QED BY <2>1 DEF Entry, Entries, PeerConfs
<1>4. Saved(groups, peers).peers \subseteq Entries(Addresses, AllNames)
  BY <1>3 DEF Saved, SavedPeers
<1> QED BY <1>2, <1>4 DEF Document

(***************************************************************************)
(* The commands.                                                           *)
(***************************************************************************)

LEMMA CrashInv == ConfigIInv /\ Crash => ConfigIInv'
<1> SUFFICES ASSUME Crash PROVE ConfigIInv'
  OBVIOUS
<1>1. Used(groups') = {}
  BY DEF Crash, Used
<1>2. groups' \in GroupTables
  BY <1>1 DEF Crash, GroupTables
<1>3. TypeOK'
  BY DEF Crash, TypeOK
<1>4. PeersOk'
  BY DEF Crash, PeersOk
<1> QED BY <1>2, <1>3, <1>4 DEF ConfigIInv

\* A change of one peer.
LEMMA PeerInv ==
  ASSUME ConfigIInv, NEW a \in Addresses, NEW c \in PeerConfs,
         peers' = [peers EXCEPT ![a] = c], groups' = groups, crashed' = FALSE,
         orphans' \subseteq orphans, orphans \subseteq orphans' \cup {a},
         a \notin orphans' => c.groupID \in Used(groups) /\ groups[c.groupID].name = c.group
  PROVE  ConfigIInv'
<1>1. peers' \in [Addresses -> PeerConfs \cup {NoPeer}] /\ peers'[a] = c /\ c # NoPeer
  BY Shapes DEF ConfigIInv, TypeOK
<1>2. \A b \in Addresses : b # a => peers'[b] = peers[b] /\ (b \in orphans' <=> b \in orphans)
  BY DEF ConfigIInv, TypeOK
<1>3. TypeOK'
  BY <1>1, <1>2 DEF ConfigIInv, TypeOK
<1>4. PeersOk'
  BY <1>1, <1>2 DEF ConfigIInv, PeersOk
<1> QED BY <1>3, <1>4 DEF ConfigIInv

LEMMA FoundIs ==
  ASSUME ConfigIInv, NEW a \in Addresses
  PROVE  /\ Found(a) \in PeerConfs
         /\ ~ NoPeerToSet(a) /\ a \notin orphans =>
              Found(a).groupID \in Used(groups) /\ groups[Found(a).groupID].name = Found(a).group
<1>0. groups \in GroupTables
  BY DEF ConfigIInv
<1>1. CASE peers[a] # NoPeer
  BY <1>1 DEF Found, ConfigIInv, TypeOK, PeersOk
<1>2. CASE peers[a] = NoPeer
  <2> DEFINE o == [f \in Settings |-> IF f = "localAS" THEN ClientAS ELSE Unset]
  <2>1. o \in Own
    BY PeerConfigAssumption, Shapes DEF Own
  <2>2. Found(a) = [group |-> Default, groupID |-> GroupID(groups, Default), own |-> o, rules |-> <<>>, announce |-> <<>>]
    BY <1>2 DEF Found, NewConfig
  <2> HIDE DEF o
  <2>3. Found(a) \in PeerConfs
    BY <1>0, <2>1, <2>2, GroupIDIs, Shapes DEF PeerConfs
  <2>4. ~ NoPeerToSet(a) => GroupID(groups, Default) # -1
    BY <1>2 DEF NoPeerToSet
  <2> QED BY <1>0, <2>2, <2>3, <2>4, GroupIDIs
<1> QED BY <1>1, <1>2

LEMMA ChangePeerInv ==
  ASSUME ConfigIInv, NEW a \in Addresses, NEW c \in PeerConfs,
         c.group = Found(a).group, c.groupID = Found(a).groupID, ChangePeer(a, c)
  PROVE  ConfigIInv'
<1>1. CASE NoPeerToSet(a)
  BY <1>1, CrashInv DEF ChangePeer
<1>2. CASE ~ NoPeerToSet(a)
  BY <1>2, FoundIs, PeerInv DEF ChangePeer, Fine
<1> QED BY <1>1, <1>2

LEMMA ChangeGroupInv ==
  ASSUME ConfigIInv, NEW i \in Used(groups), NEW g \in GroupConfs,
         g.name = groups[i].name, g.groupID = groups[i].groupID, ChangeGroup(i, g)
  PROVE  ConfigIInv'
<1>1. groups' = [groups EXCEPT ![i] = g] /\ peers' = peers /\ orphans' = orphans /\ crashed' = FALSE
  BY DEF ChangeGroup, Fine
<1>2. groups \in GroupTables /\ groups \in [Slots -> GroupConfs \cup {NoGroup}] /\ i \in Slots
  BY GroupsAre DEF ConfigIInv
<1>3. groups' \in [Slots -> GroupConfs \cup {NoGroup}] /\ groups'[i] = g /\ g # NoGroup
  BY <1>1, <1>2, Shapes
<1>4. \A j \in Slots : j # i => groups'[j] = groups[j]
  BY <1>1, <1>2
<1>5. Used(groups') = Used(groups) /\ \A j \in Used(groups) : groups'[j].name = groups[j].name /\ groups'[j].groupID = groups[j].groupID
  BY <1>2, <1>3, <1>4 DEF Used
<1>6. groups' \in GroupTables
  BY <1>2, <1>3, <1>5 DEF GroupTables
<1>7. TypeOK'
  BY <1>1, <1>3 DEF ConfigIInv, TypeOK
<1>8. PeersOk'
  BY <1>1, <1>5 DEF ConfigIInv, PeersOk
<1> QED BY <1>6, <1>7, <1>8 DEF ConfigIInv

LEMMA SetInv ==
  ASSUME ConfigIInv, NEW f \in Settings, NEW v \in Values(f)
  PROVE  /\ \A a \in Addresses : SetPeer(a, f, v) => ConfigIInv'
         /\ \A i \in Slots : SetGroup(i, f, v) => ConfigIInv'
<1>1. v \in Nat
  BY PeerConfigAssumption DEF Values
<1>2. ASSUME NEW a \in Addresses, SetPeer(a, f, v) PROVE ConfigIInv'
  <2> DEFINE c == [Found(a) EXCEPT !.own[f] = v]
  <2>1. Found(a) \in PeerConfs
    BY FoundIs
  <2>2. c \in PeerConfs /\ c.group = Found(a).group /\ c.groupID = Found(a).groupID
    BY <1>1, <2>1 DEF PeerConfs, Own
  <2>3. ChangePeer(a, c)
    BY <1>2 DEF SetPeer
  <2> HIDE DEF c
  <2> QED BY <2>2, <2>3, ChangePeerInv
<1>3. ASSUME NEW i \in Slots, SetGroup(i, f, v) PROVE ConfigIInv'
  <2> DEFINE g == [groups[i] EXCEPT !.own[f] = v]
  <2>1. i \in Used(groups) /\ ChangeGroup(i, g)
    BY <1>3 DEF SetGroup
  <2>2. groups[i] \in GroupConfs
    BY <2>1, GroupsAre DEF ConfigIInv
  <2>3. g \in GroupConfs /\ g.name = groups[i].name /\ g.groupID = groups[i].groupID
    BY <1>1, <2>2 DEF GroupConfs, Own
  <2> HIDE DEF g
  <2> QED BY <2>1, <2>3, ChangeGroupInv
<1> QED BY <1>2, <1>3

LEMMA SettingsInv ==
  ASSUME ConfigIInv, SetLocal \/ SetRemote \/ SetFlag
  PROVE  ConfigIInv'
<1>1. /\ LocalSettings \subseteq Settings /\ (RemoteSettings \cup RemoteTexts) \subseteq Settings
      /\ FlagSettings \subseteq Settings
  BY DEF Settings
<1>2. ASSUME NEW fs, fs \subseteq Settings, Set(fs) PROVE ConfigIInv'
  BY <1>2, SetInv DEF Set
<1>3. CASE SetFlag
  BY <1>1, <1>3, SetInv, CrashInv DEF SetFlag
<1> QED BY <1>1, <1>2, <1>3 DEF SetLocal, SetRemote

\* A list stays a list when an item is added or removed.
LEMMA ListsStay ==
  ASSUME NEW S, NEW list \in Seq(S), NEW x \in S, NEW l \in Added(list, x) \cup Removed(list, x)
  PROVE  l \in Seq(S)
<1>1. CASE l \in Added(list, x)
  <2>1. l = Append(list, x)
    BY <1>1 DEF Added
  <2> QED BY <2>1
<1>2. CASE l \in Removed(list, x)
  <2>1. PICK i \in 1..Len(list) : l = RemoveAt(list, i)
    BY <1>2 DEF Removed
  <2>2. l = SubSeq(list, 1, i - 1) \o SubSeq(list, i + 1, Len(list))
    BY <2>1 DEF RemoveAt
  <2>3. SubSeq(list, 1, i - 1) \in Seq(S) /\ SubSeq(list, i + 1, Len(list)) \in Seq(S)
    OBVIOUS
  <2> QED BY <2>2, <2>3
<1> QED BY <1>1, <1>2

LEMMA ChangeRulesInv ==
  ASSUME ConfigIInv, NEW r \in CliRules, ChangeRules(r)
  PROVE  ConfigIInv'
<1>0. r \in Rule
  BY PeerConfigAssumption
<1>1. ASSUME NEW a \in Addresses, NEW l \in Added(Found(a).rules, r) \cup Removed(Found(a).rules, r),
             ChangePeer(a, [Found(a) EXCEPT !.rules = l])
      PROVE  ConfigIInv'
  <2> DEFINE c == [Found(a) EXCEPT !.rules = l]
  <2>1. Found(a) \in PeerConfs
    BY FoundIs
  <2>2. Found(a).rules \in Seq(Rule)
    BY <2>1 DEF PeerConfs
  <2>3. l \in Seq(Rule)
    BY <1>0, <2>2, ListsStay
  <2>4. c \in PeerConfs /\ c.group = Found(a).group /\ c.groupID = Found(a).groupID
    BY <2>1, <2>3 DEF PeerConfs
  <2>5. ChangePeer(a, c)
    BY <1>1
  <2> HIDE DEF c
  <2> QED BY <2>4, <2>5, ChangePeerInv
<1>2. ASSUME NEW i \in Used(groups), NEW l \in Added(groups[i].rules, r) \cup Removed(groups[i].rules, r),
             ChangeGroup(i, [groups[i] EXCEPT !.rules = l])
      PROVE  ConfigIInv'
  <2> DEFINE g == [groups[i] EXCEPT !.rules = l]
  <2>1. groups[i] \in GroupConfs
    BY GroupsAre DEF ConfigIInv
  <2>2. groups[i].rules \in Seq(Rule)
    BY <2>1 DEF GroupConfs
  <2>3. l \in Seq(Rule)
    BY <1>0, <2>2, ListsStay
  <2>4. g \in GroupConfs /\ g.name = groups[i].name /\ g.groupID = groups[i].groupID
    BY <2>1, <2>3 DEF GroupConfs
  <2>5. ChangeGroup(i, g)
    BY <1>2
  <2> HIDE DEF g
  <2> QED BY <2>4, <2>5, ChangeGroupInv
<1> QED BY <1>1, <1>2 DEF ChangeRules

LEMMA ChangeAnnouncedInv ==
  ASSUME ConfigIInv, NEW r \in CliCaps, ChangeAnnounced(r)
  PROVE  ConfigIInv'
<1>0. r \in Capability
  BY PeerConfigAssumption
<1>1. ASSUME NEW a \in Addresses, NEW l \in Added(Found(a).announce, r) \cup Removed(Found(a).announce, r),
             ChangePeer(a, [Found(a) EXCEPT !.announce = l])
      PROVE  ConfigIInv'
  <2> DEFINE c == [Found(a) EXCEPT !.announce = l]
  <2>1. Found(a) \in PeerConfs
    BY FoundIs
  <2>2. Found(a).announce \in Seq(Capability)
    BY <2>1 DEF PeerConfs
  <2>3. l \in Seq(Capability)
    BY <1>0, <2>2, ListsStay
  <2>4. c \in PeerConfs /\ c.group = Found(a).group /\ c.groupID = Found(a).groupID
    BY <2>1, <2>3 DEF PeerConfs
  <2>5. ChangePeer(a, c)
    BY <1>1
  <2> HIDE DEF c
  <2> QED BY <2>4, <2>5, ChangePeerInv
<1>2. ASSUME NEW i \in Used(groups), NEW l \in Added(groups[i].announce, r) \cup Removed(groups[i].announce, r),
             ChangeGroup(i, [groups[i] EXCEPT !.announce = l])
      PROVE  ConfigIInv'
  <2> DEFINE g == [groups[i] EXCEPT !.announce = l]
  <2>1. groups[i] \in GroupConfs
    BY GroupsAre DEF ConfigIInv
  <2>2. groups[i].announce \in Seq(Capability)
    BY <2>1 DEF GroupConfs
  <2>3. l \in Seq(Capability)
    BY <1>0, <2>2, ListsStay
  <2>4. g \in GroupConfs /\ g.name = groups[i].name /\ g.groupID = groups[i].groupID
    BY <2>1, <2>3 DEF GroupConfs
  <2>5. ChangeGroup(i, g)
    BY <1>2
  <2> HIDE DEF g
  <2> QED BY <2>4, <2>5, ChangeGroupInv
<1> QED BY <1>1, <1>2 DEF ChangeAnnounced

LEMMA CreateGroupInv ==
  ASSUME ConfigIInv, NEW n \in Names, CreateGroup(n)
  PROVE  ConfigIInv'
<1> DEFINE c == NewConfig(groups)
<1>1. groups \in FreshTables /\ GroupID(groups, Default) = 0 /\ CanAddGroup(groups, n) /\ n \in AllNames
  BY GroupsAre, Shapes DEF CreateGroup, ConfigIInv, FreshTables
<1>2. c.groupID = 0 /\ c.own \in Own /\ c.rules \in Seq(Rule) /\ c.announce \in Seq(Capability)
  BY <1>1, Shapes DEF NewConfig
<1>3. groups' = AddGroup(groups, n, c) /\ peers' = peers /\ orphans' = orphans /\ crashed' = FALSE
  BY DEF CreateGroup, Fine
<1> HIDE DEF c
<1>4. groups' \in FreshTables
  BY <1>1, <1>2, <1>3, AddGroupIs
<1>5. PICK i \in Slots \ Used(groups) : groups' = [groups EXCEPT ![i] = NewGroup(n, c)] /\ Used(groups') = Used(groups) \cup {i}
  BY <1>1, <1>2, <1>3, AddGroupIs
<1>6. groups' \in GroupTables /\ groups' \in [Slots -> GroupConfs \cup {NoGroup}]
  BY <1>4 DEF FreshTables, GroupTables
<1>7. TypeOK'
  BY <1>3, <1>6 DEF ConfigIInv, TypeOK
<1>8. \A j \in Used(groups) : j \in Used(groups') /\ groups'[j] = groups[j]
  BY <1>5, GroupsAre DEF ConfigIInv
<1>9. PeersOk'
  BY <1>3, <1>8 DEF ConfigIInv, PeersOk
<1> QED BY <1>6, <1>7, <1>9 DEF ConfigIInv

LEMMA AssignInv ==
  ASSUME ConfigIInv, NEW a \in Addresses, NEW n \in AllNames, Assign(a, n)
  PROVE  ConfigIInv'
<1> DEFINE c == [peers[a] EXCEPT !.group = n, !.groupID = GroupID(groups, n)]
<1>1. peers[a] \in PeerConfs /\ groups \in GroupTables
  BY DEF Assign, ConfigIInv, TypeOK
<1>2. c \in PeerConfs /\ c.group = n /\ c.groupID = GroupID(groups, n)
  BY <1>1, GroupIDIs DEF PeerConfs
<1>3. c.groupID \in Used(groups) /\ groups[c.groupID].name = c.group
  BY <1>1, <1>2, GroupIDIs DEF Assign
<1>4. /\ peers' = [peers EXCEPT ![a] = c] /\ groups' = groups /\ crashed' = FALSE
      /\ orphans' \subseteq orphans /\ orphans \subseteq orphans' \cup {a}
  BY <1>1 DEF Assign, Fine, PeerConfs, ConfigIInv, TypeOK
<1> HIDE DEF c
<1> QED BY <1>2, <1>3, <1>4, PeerInv

LEMMA DeleteGroupInv ==
  ASSUME ConfigIInv, NEW i \in Slots, DeleteGroup(i)
  PROVE  ConfigIInv'
<1>1. /\ i \in Used(groups) /\ groups' = [groups EXCEPT ![i] = NoGroup] /\ peers' = peers /\ crashed' = FALSE
      /\ orphans' = orphans \cup {a \in Addresses : peers[a] # NoPeer /\ peers[a].groupID = i}
  BY DEF DeleteGroup, Fine
<1>2. groups \in GroupTables /\ groups \in [Slots -> GroupConfs \cup {NoGroup}]
  BY DEF ConfigIInv, GroupTables
<1>3. groups' \in [Slots -> GroupConfs \cup {NoGroup}] /\ groups'[i] = NoGroup /\ \A j \in Slots : j # i => groups'[j] = groups[j]
  BY <1>1, <1>2
<1>4. Used(groups') = Used(groups) \ {i} /\ \A j \in Used(groups') : groups'[j] = groups[j]
  BY <1>3 DEF Used
<1>5. groups' \in GroupTables
  BY <1>2, <1>3, <1>4 DEF GroupTables
<1>6. TypeOK'
  BY <1>1, <1>3 DEF ConfigIInv, TypeOK
<1>7. PeersOk'
  BY <1>1, <1>4 DEF ConfigIInv, PeersOk
<1> QED BY <1>5, <1>6, <1>7 DEF ConfigIInv

LEMMA DeletePeerInv ==
  ASSUME ConfigIInv, NEW a \in Addresses, DeletePeer(a)
  PROVE  ConfigIInv'
<1>1. peers' = [peers EXCEPT ![a] = NoPeer] /\ orphans' = orphans \ {a} /\ groups' = groups /\ crashed' = FALSE
  BY DEF DeletePeer, Fine
<1>2. /\ peers' \in [Addresses -> PeerConfs \cup {NoPeer}] /\ peers'[a] = NoPeer
      /\ \A b \in Addresses : b # a => peers'[b] = peers[b]
  BY <1>1 DEF ConfigIInv, TypeOK
<1>3. TypeOK'
  BY <1>1, <1>2 DEF ConfigIInv, TypeOK
<1>4. PeersOk'
  BY <1>1, <1>2 DEF ConfigIInv, PeersOk
<1> QED BY <1>1, <1>3, <1>4 DEF ConfigIInv

(***************************************************************************)
(* Settings that are read.                                                 *)
(***************************************************************************)

\* A getter leaves the peer as it was, or makes it refer to a default group that is there.
LEMMA AfterGetIs ==
  ASSUME NEW gs, NEW p \in PeerConfs, NEW q \in {p, ToDefault(gs, p)}, NEW f
  PROVE  /\ AfterGet(gs, q, f) \in {p, ToDefault(gs, p)}
         /\ ~ GetCrashes(gs, q, f) => AfterGet(gs, q, f) = q \/ GroupID(gs, Default) # -1
<1>1. ToDefault(gs, ToDefault(gs, p)) = ToDefault(gs, p)
  BY DEF ToDefault, PeerConfs
<1> QED BY <1>1 DEF AfterGet, GetCrashes, Leaves

LEMMA ReadingIs ==
  ASSUME NEW gs, NEW p \in PeerConfs, NEW order, Len(order) \in Nat
  PROVE  \/ Reading(gs, p, order).crash
         \/ Reading(gs, p, order).peer = p
         \/ Reading(gs, p, order).peer = ToDefault(gs, p) /\ GroupID(gs, Default) # -1
<1> DEFINE n == Len(order)
           V == {r \in [peer : {p, ToDefault(gs, p)}, crash : BOOLEAN] :
                   r.crash \/ r.peer = p \/ GroupID(gs, Default) # -1}
           first == [peer |-> p, crash |-> FALSE]
           step == [x \in (1..n) \X V |-> ReadOne(gs, x[2], order[x[1]])]
           Is(h) == h = [k \in 0..n |-> IF k = 0 THEN first ELSE ReadOne(gs, h[k - 1], order[k])]
<1>1. first \in V
  OBVIOUS
<1>2. ASSUME NEW r \in V, NEW f PROVE ReadOne(gs, r, f) \in V
  <2>1. r.peer \in {p, ToDefault(gs, p)} /\ r.crash \in BOOLEAN /\ r = [peer |-> r.peer, crash |-> r.crash]
        /\ (r.crash \/ r.peer = p \/ GroupID(gs, Default) # -1)
    OBVIOUS
  <2>2. CASE r.crash \/ GetCrashes(gs, r.peer, f)
    <3>1. ReadOne(gs, r, f) = [peer |-> r.peer, crash |-> TRUE]
      BY <2>1, <2>2 DEF ReadOne
    <3> QED BY <2>1, <3>1
  <2>3. CASE ~ (r.crash \/ GetCrashes(gs, r.peer, f))
    <3>1. ReadOne(gs, r, f) = [peer |-> AfterGet(gs, r.peer, f), crash |-> r.crash]
      BY <2>1, <2>3 DEF ReadOne
    <3>2. /\ AfterGet(gs, r.peer, f) \in {p, ToDefault(gs, p)}
          /\ AfterGet(gs, r.peer, f) = r.peer \/ GroupID(gs, Default) # -1
      BY <2>1, <2>3, AfterGetIs
    <3> QED BY <2>1, <2>3, <3>1, <3>2
  <2> QED BY <2>2, <2>3
<1> HIDE DEF V
<1>3. step \in [(1..n) \X V -> V] /\ \A k \in 1..n, r \in V : step[<<k, r>>] = ReadOne(gs, r, order[k])
  BY <1>2
<1> HIDE DEF step, first
<1>4. PICK h \in [0..n -> V] : h[0] = first /\ \A k \in 1..n : h[k] = step[<<k, h[k - 1]>>]
  <2>1. Recursive(n, V, first, step)
    BY <1>1, <1>3, Recursion
  <2> QED BY <2>1 DEF Recursive
<1>5. ASSUME NEW k \in 1..n PROVE h[k] = ReadOne(gs, h[k - 1], order[k])
  <2>1. k - 1 \in 0..n
    OBVIOUS
  <2>2. h[k - 1] \in V
    BY <1>4, <2>1
  <2> QED BY <1>3, <1>4, <2>2
<1>6. Is(h)
  <2>1. h = [k \in 0..n |-> h[k]]
    BY <1>4
  <2>2. ASSUME NEW k \in 0..n PROVE h[k] = IF k = 0 THEN first ELSE ReadOne(gs, h[k - 1], order[k])
    BY <1>4, <1>5
  <2> QED BY <2>1, <2>2, Zenon
<1> DEFINE g == CHOOSE h_ : Is(h_)
<1>7. Is(g)
  <2> HIDE DEF Is
  <2> QED BY <1>6
<1>8. Reading(gs, p, order) = g[n]
  BY DEF Reading, first
<1> HIDE DEF g
<1>9. g[0] = first /\ \A k \in 1..n : g[k] = ReadOne(gs, g[k - 1], order[k])
  BY <1>7
<1>10. g[n] \in V
  <2> DEFINE S == {k \in 0..n : g[k] \in V}
  <2>1. 0 \in S
    BY <1>1, <1>9
  <2>2. ASSUME NEW k \in 1..n, k - 1 \in S PROVE k \in S
    BY <2>2, <1>2, <1>9
  <2>3. \A k \in 0..n : k \in S
    <3> HIDE DEF S
    <3> QED BY <2>1, <2>2, UpTo
  <2> QED BY <2>3
<1> QED BY <1>8, <1>10 DEF V

LEMMA ReadPeerInv ==
  ASSUME ConfigIInv, NEW a \in Addresses, NEW order, Len(order) \in Nat, NEW lists, ReadPeer(a, order, lists)
  PROVE  ConfigIInv'
<1> DEFINE r == Reading(groups, peers[a], order)
<1>1. CASE Crash
  BY <1>1, CrashInv
<1>2. CASE ~ Crash
  <2>1. peers[a] \in PeerConfs /\ peers[a] # NoPeer /\ groups \in GroupTables
    BY DEF ReadPeer, ConfigIInv, TypeOK
  <2>2. /\ ~ r.crash /\ peers' = [peers EXCEPT ![a] = r.peer] /\ groups' = groups /\ crashed' = FALSE
        /\ orphans' = IF r.peer # peers[a] THEN orphans \ {a} ELSE orphans
    BY <1>2 DEF ReadPeer, Fine
  <2>3. r.peer = peers[a] \/ (r.peer = ToDefault(groups, peers[a]) /\ GroupID(groups, Default) # -1)
    BY <2>1, <2>2, ReadingIs
  <2> HIDE DEF r
  <2>4. CASE r.peer = peers[a]
    BY <2>1, <2>2, <2>4, PeerInv DEF ConfigIInv, PeersOk
  <2>5. CASE r.peer = ToDefault(groups, peers[a]) /\ GroupID(groups, Default) # -1
    <3> DEFINE c == ToDefault(groups, peers[a])
    <3>1. c \in PeerConfs /\ c.group = Default /\ c.groupID = GroupID(groups, Default)
      BY <2>1, GroupIDIs, Shapes DEF ToDefault, PeerConfs
    <3>2. c.groupID \in Used(groups) /\ groups[c.groupID].name = c.group
      BY <2>1, <2>5, <3>1, GroupIDIs
    <3>3. orphans' \subseteq orphans /\ orphans \subseteq orphans' \cup {a} /\ r.peer = c
      BY <2>2, <2>5
    <3> HIDE DEF c
    <3> QED BY <2>2, <3>1, <3>2, <3>3, PeerInv
  <2> QED BY <2>3, <2>4, <2>5
<1> QED BY <1>1, <1>2

LEMMA ReadingInv ==
  ASSUME ConfigIInv, NEW a \in Addresses,
         \/ ShowRunningNeighbor(a) \/ ShowBGPNeighbor(a) \/ SetSessionConfigInUse(a) \/ LaunchAllPeers(a)
  PROVE  ConfigIInv'
<1>1. Order \in Seq(Settings)
  BY DEF Order, Settings, LocalSettings, RemoteSettings, RemoteTexts, LocalTexts, FlagSettings
<1>2. Len(Order) \in Nat /\ Len(Append(Order, "enabled")) \in Nat
  <2> HIDE DEF Order
  <2> QED BY <1>1
<1>3. CASE ShowRunningNeighbor(a)
  BY <1>2, <1>3, ReadPeerInv DEF ShowRunningNeighbor
<1>4. CASE ShowBGPNeighbor(a)
  <2>1. Len(<<>>) \in Nat
    OBVIOUS
  <2> QED BY <1>4, <2>1, ReadPeerInv DEF ShowBGPNeighbor
<1>5. CASE SetSessionConfigInUse(a)
  BY <1>2, <1>5, ReadPeerInv DEF SetSessionConfigInUse
<1>6. CASE LaunchAllPeers(a)
  <2>1. Len(<<"enabled">>) \in Nat /\ Len(<<"enabled", "remoteAS">>) \in Nat
        /\ Len(<<"enabled", "remoteAS", "localAS">>) \in Nat
    OBVIOUS
  <2>2. PICK order \in {<<"enabled">>, <<"enabled", "remoteAS">>, <<"enabled", "remoteAS", "localAS">>} :
          ReadPeer(a, order, FALSE)
    BY <1>6 DEF LaunchAllPeers
  <2> QED BY <2>1, <2>2, ReadPeerInv
<1> QED BY <1>3, <1>4, <1>5, <1>6

LEMMA ConfigNextInv == ConfigIInv /\ [ConfigNext]_configVars => ConfigIInv'
<1> SUFFICES ASSUME ConfigIInv, [ConfigNext]_configVars PROVE ConfigIInv'
  OBVIOUS
<1>1. CASE SetLocal \/ SetRemote \/ SetFlag
  BY <1>1, SettingsInv
<1>2. CASE (\E r \in CliRules : ChangeRules(r)) \/ (\E c \in CliCaps : ChangeAnnounced(c))
  BY <1>2, ChangeRulesInv, ChangeAnnouncedInv
<1>3. CASE \E a \in Addresses : (\E n \in AllNames : Assign(a, n)) \/ DeletePeer(a)
  BY <1>3, AssignInv, DeletePeerInv
<1>4. CASE \E a \in Addresses : \/ ShowRunningNeighbor(a) \/ ShowBGPNeighbor(a)
                                \/ SetSessionConfigInUse(a) \/ LaunchAllPeers(a)
  BY <1>4, ReadingInv
<1>5. CASE \E i \in Slots : DeleteGroup(i) \/ ShowRunningPeerGroup(i)
  BY <1>5, DeleteGroupInv, CrashInv DEF ShowRunningPeerGroup
<1>6. CASE \E n \in Names : CreateGroup(n)
  BY <1>6, CreateGroupInv
<1>7. CASE Restart
  BY <1>7, SavedIsDocument, StartInv DEF Restart
<1>8. CASE \E doc \in Documents : Start(doc)
  BY <1>8, FilesAreDocuments, StartInv
<1>9. CASE UNCHANGED configVars
  BY <1>9 DEF configVars, ConfigIInv, TypeOK, PeersOk
<1> QED BY <1>1, <1>2, <1>3, <1>4, <1>5, <1>6, <1>7, <1>8, <1>9 DEF ConfigNext, Command

\* Whatever the commands and the files, a slot holds a group or none, an address a peer
\* or none, and the tables' indices are slots or -1 (peers.h, peergroup.h).
THEOREM ConfigTypeCorrect == ConfigSpec => []TypeOK
<1>1. ConfigIInv => TypeOK
  BY DEF ConfigIInv
<1> QED BY <1>1, ConfigInitInv, ConfigNextInv, PTL DEF ConfigSpec

(***************************************************************************)
(* What a getter returns.                                                  *)
(***************************************************************************)

\* With a default group in slot 0, a setting is the peer's own, its group's or the
\* default group's.
LEMMA PeerGetIs ==
  ASSUME NEW gs \in FreshTables, NEW p \in PeerConfs, p.groupID \in Used(gs), NEW f \in Settings
  PROVE  PeerGet(gs, p, f) = IF p.own[f] # Unset THEN p.own[f]
                             ELSE IF gs[p.groupID].own[f] \notin {Unset, Missing(f)} THEN gs[p.groupID].own[f]
                             ELSE gs[0].own[f]
<1> DEFINE g == p.groupID
<1>1. /\ GroupID(gs, Default) = 0 /\ 0 \in Used(gs) /\ gs[0].groupID = -1 /\ g \in Slots
      /\ gs[g].groupID = IF g = 0 THEN -1 ELSE 0
  BY GroupsAre DEF FreshTables
<1>2. gs[g] # NoGroup /\ gs[0] # NoGroup
  BY <1>1 DEF Used
<1>3. GroupGet(gs, 0, f) = gs[0].own[f]
  BY <1>1, <1>2 DEF GroupGet
<1>4. GroupGet(gs, g, f) = IF gs[g].own[f] = Unset THEN gs[0].own[f] ELSE gs[g].own[f]
  BY <1>1, <1>2, <1>3 DEF GroupGet
<1> QED BY <1>1, <1>3, <1>4 DEF PeerGet, Leaves

\* A peer whose group was not deleted under it reads its own setting, its group's or the
\* default group's, for every setting and whatever groups came and went (the getters of
\* peers.c and peergroup.c).
THEOREM EveryPeerReadsAsNamed == ConfigSpec => []ReadsAsNamed
<1>1. ConfigIInv => ReadsAsNamed
  <2> SUFFICES ASSUME ConfigIInv, NEW a \in Sound, NEW f \in Settings
               PROVE  /\ groups[peers[a].groupID].name = peers[a].group
                      /\ PeerGet(groups, peers[a], f) = ByName(peers[a], f)
    BY DEF ReadsAsNamed
  <2> DEFINE p == peers[a]
  <2>1. groups \in GroupTables /\ p \in PeerConfs /\ GroupID(groups, Default) = 0
    BY DEF ConfigIInv, TypeOK, Sound
  <2>2. groups \in FreshTables
    BY <2>1, GroupsAre DEF FreshTables
  <2>3. p.groupID \in Used(groups) /\ groups[p.groupID].name = p.group
    BY DEF ConfigIInv, PeersOk, Sound
  <2>4. GroupID(groups, p.group) = p.groupID /\ p.groupID # -1
    BY <2>1, <2>3, GroupIDIs, GroupsAre, Shapes
  <2> HIDE DEF p
  <2>5. PeerGet(groups, p, f) = ByName(p, f)
    BY <2>1, <2>2, <2>3, <2>4, PeerGetIs DEF ByName, SetIn
  <2> QED BY <2>3, <2>5 DEF p
<1> QED BY <1>1, ConfigInitInv, ConfigNextInv, PTL DEF ConfigSpec

(***************************************************************************)
(* Saved, and read again.                                                  *)
(***************************************************************************)
SameGroup(g, h) == g.name = h.name /\ g.own = h.own /\ g.rules = h.rules /\ g.announce = h.announce

\* The table after k places of a file that was saved from table gs: each group saved up
\* to there is in it, nothing else is, and no slot behind the place read is taken.
Restored(gs, k, table) ==
  /\ table \in FreshTables /\ table[0] = DefaultGroup /\ Used(table) \subseteq 0..k
  /\ \A i \in Used(gs) \ {0} : i <= k => \E j \in Used(table) : SameGroup(table[j], gs[i])
  /\ \A j \in Used(table) \ {0} : \E i \in Used(gs) \ {0} : i <= k /\ table[j].name = gs[i].name

\* One more place: its group can be read, and is.
LEMMA RestoreOne ==
  ASSUME NEW gs \in GroupTables, NEW k \in 1..MaxGroups, NEW table, Restored(gs, k - 1, table),
         k \in Used(gs), Valid(gs[k])
  PROVE  LET e == Entry(gs[k].name, gs[k], Default)
         IN CanRead(table, e) /\ Restored(gs, k, ReadOneGroup(table, e))
<1> DEFINE e == Entry(gs[k].name, gs[k], Default)
           c == ReadEntry(table, e)
           new == AddGroup(table, e.name, c)
<1>1. k \in Slots /\ k \in Nat \ {0} /\ gs[k] \in GroupConfs /\ gs[k].name # Default /\ k - 1 < k /\ k - 1 \in Nat
  <2>1. k \in Slots /\ gs[k] \in GroupConfs /\ (gs[k].name = Default <=> k = 0)
    BY GroupsAre
  <2>2. MaxGroups \in Nat
    BY PeerConfigAssumption
  <2> QED BY <2>1, <2>2
<1>2. /\ e.name = gs[k].name /\ e.own = gs[k].own /\ e.rules = gs[k].rules /\ e.announce = gs[k].announce
      /\ e.group = Default
  BY DEF Entry
<1>3. /\ e.name \in AllNames /\ e.own \in Own /\ e.rules \in Seq(Rule) /\ e.announce \in Seq(Capability)
  BY <1>1, <1>2 DEF GroupConfs
<1>4. table \in FreshTables /\ table \in GroupTables /\ GroupID(table, Default) = 0 /\ 0 \in Used(table)
      /\ table[0].name = Default
  BY GroupsAre DEF Restored, FreshTables
<1>5. k \notin Used(table)
  BY <1>1 DEF Restored
<1>6. \A j \in Used(table) : table[j].name # e.name
  <2>1. ASSUME NEW j \in Used(table), j # 0 PROVE table[j].name # e.name
    <3>1. PICK i \in Used(gs) \ {0} : i <= k - 1 /\ table[j].name = gs[i].name
      BY <2>1 DEF Restored
    <3>2. i # k
      BY <1>1, <3>1
    <3> QED BY <1>2, <3>1, <3>2 DEF GroupTables
  <2> QED BY <2>1, <1>1, <1>2, <1>4
<1>7. CanAddGroup(table, e.name)
  <2> DEFINE n == e.name
  <2> HIDE DEF e, n
  <2>1. GroupID(table, n) # -1 => \E j \in Used(table) : table[j].name = n
    BY <1>4, GroupIDIs
  <2>2. GroupID(table, e.name) = -1
    BY <1>6, <2>1 DEF n
  <2> QED BY <2>2, <1>1, <1>5 DEF CanAddGroup
<1>8. CanRead(table, e)
  <2>1. Valid(e)
    BY <1>2 DEF Valid
  <2> QED BY <2>1, <1>7 DEF CanRead
<1>9. c.groupID = 0 /\ c.own = e.own /\ c.rules = e.rules /\ c.announce = e.announce
  BY <1>2, <1>4 DEF ReadEntry
<1>10. ReadOneGroup(table, e) = new
  BY <1>8 DEF ReadOneGroup
<1> HIDE DEF e, c
<1>11. new \in FreshTables
  BY <1>3, <1>4, <1>7, <1>9, AddGroupIs
<1>12. PICK slot \in Slots \ Used(table) : /\ \A j \in Slots \ Used(table) : slot <= j
                                        /\ new = [table EXCEPT ![slot] = NewGroup(e.name, c)]
                                        /\ Used(new) = Used(table) \cup {slot}
  BY <1>3, <1>4, <1>7, <1>9, AddGroupIs
<1> HIDE DEF new
<1>13. table \in [Slots -> GroupConfs \cup {NoGroup}] /\ Used(table) \subseteq Slots
  BY <1>4, GroupsAre
<1>14. new[slot] = NewGroup(e.name, c) /\ \A j \in Used(table) : new[j] = table[j] /\ j # slot
  BY <1>12, <1>13
<1>15. SameGroup(new[slot], gs[k]) /\ new[slot].name = gs[k].name
  BY <1>2, <1>9, <1>14 DEF NewGroup, SameGroup
<1>16. Used(new) \subseteq 0..k
  <2>1. slot <= k /\ slot \in Nat
    BY <1>1, <1>5, <1>12, Shapes
  <2>2. Used(table) \subseteq 0..(k - 1)
    BY DEF Restored
  <2>3. 0..(k - 1) \subseteq 0..k /\ slot \in 0..k
    BY <2>1, <1>1
  <2> HIDE DEF e, c
  <2> QED BY <2>2, <2>3, <1>12, Zenon
<1>17. new[0] = DefaultGroup
  BY <1>4, <1>14 DEF Restored
<1>18. ASSUME NEW i \in Used(gs) \ {0}, i <= k PROVE \E j \in Used(new) : SameGroup(new[j], gs[i])
  <2>1. CASE i = k
    BY <2>1, <1>12, <1>15
  <2>2. CASE i # k
    <3>1. i \in Nat
      BY GroupsAre, Shapes
    <3>2. i <= k - 1
      BY <2>2, <3>1, <1>1, <1>18
    <3>3. PICK j \in Used(table) : SameGroup(table[j], gs[i])
      BY <3>2 DEF Restored
    <3> QED BY <3>3, <1>12, <1>14
  <2> QED BY <2>1, <2>2
<1>19. ASSUME NEW j \in Used(new) \ {0} PROVE \E i \in Used(gs) \ {0} : i <= k /\ new[j].name = gs[i].name
  <2>1. CASE j = slot
    <3>1. k \in Used(gs) \ {0} /\ k <= k
      BY <1>1
    <3> QED BY <2>1, <3>1, <1>15
  <2>2. CASE j # slot
    <3>1. j \in Used(table) \ {0} /\ new[j] = table[j]
      BY <2>2, <1>12, <1>14
    <3>2. PICK i \in Used(gs) \ {0} : i <= k - 1 /\ table[j].name = gs[i].name
      BY <3>1 DEF Restored
    <3>3. i \in Nat
      BY GroupsAre, Shapes
    <3>4. i <= k
      BY <1>1, <3>2, <3>3
    <3> QED BY <3>1, <3>2, <3>4
  <2> QED BY <2>1, <2>2
<1>20. Restored(gs, k, new)
  BY <1>11, <1>16, <1>17, <1>18, <1>19 DEF Restored
<1> QED BY <1>8, <1>10, <1>20 DEF e

\* All places: every group is read.
LEMMA RestoreAll ==
  ASSUME ConfigIInv, Restorable
  PROVE  /\ Restored(groups, MaxGroups, ReadGroups(Saved(groups, peers)))
         /\ AllGroupsRead(Saved(groups, peers))
<1> DEFINE doc == Saved(groups, peers)
           after == GroupsAfter(doc)
<1>0. MaxGroups \in Nat /\ groups \in GroupTables
  <2>1. MaxGroups \in Nat
    BY PeerConfigAssumption
  <2> QED BY <2>1 DEF ConfigIInv
<1>1. /\ after[0] = JustDefault
      /\ \A k \in 1..MaxGroups : after[k] = IF k \in DOMAIN doc.groups THEN ReadOneGroup(after[k - 1], doc.groups[k])
                                            ELSE after[k - 1]
  BY SavedIsDocument, GroupsAfterIs
<1>2. /\ DOMAIN doc.groups = Used(groups) \ {0}
      /\ \A k \in Used(groups) \ {0} : doc.groups[k] = Entry(groups[k].name, groups[k], Default)
  BY DEF Saved, SavedGroups
<1>3. \A k \in Used(groups) \ {0} : Valid(groups[k])
  BY DEF Restorable
<1>4. ReadGroups(doc) = after[MaxGroups]
  BY DEF ReadGroups
<1>5. AllGroupsRead(doc) <=> \A k \in 1..MaxGroups : k \in DOMAIN doc.groups => CanRead(after[k - 1], doc.groups[k])
  BY DEF AllGroupsRead
<1> HIDE DEF doc, after
<1> DEFINE S == {k \in 0..MaxGroups : Restored(groups, k, after[k])}
<1>6. 0 \in S
  <2>1. JustDefault \in FreshTables /\ JustDefault[0] = DefaultGroup /\ Used(JustDefault) = {0}
    BY JustDefaultIs
  <2>2. \A i \in Used(groups) \ {0} : ~ (i <= 0)
    <3>1. Used(groups) \subseteq Slots
      BY <1>0, GroupsAre
    <3>2. \A i \in Used(groups) \ {0} : i \in Nat /\ i # 0
      BY <3>1, Shapes
    <3> QED BY <3>2
  <2>3. Restored(groups, 0, JustDefault)
    BY <2>1, <2>2 DEF Restored
  <2> QED BY <2>3, <1>0, <1>1
<1>7. ASSUME NEW k \in 1..MaxGroups, Restored(groups, k - 1, after[k - 1]), k \in Used(groups)
      PROVE  CanRead(after[k - 1], doc.groups[k]) /\ Restored(groups, k, after[k])
  <2>1. k \in Used(groups) \ {0}
    BY <1>7
  <2> QED BY <2>1, <1>0, <1>1, <1>2, <1>3, <1>7, RestoreOne
<1>8. ASSUME NEW k \in 1..MaxGroups, k - 1 \in S PROVE k \in S
  <2>1. CASE k \in Used(groups)
    BY <1>7, <1>8, <2>1
  <2>2. CASE k \notin Used(groups)
    <3>1. after[k] = after[k - 1]
      BY <1>1, <1>2, <2>2
    <3>2. \A i \in Used(groups) \ {0} : i \in Nat /\ i # k
      BY <1>0, <2>2, GroupsAre, Shapes
    <3>3. Restored(groups, k - 1, after[k])
      BY <1>8, <3>1
    <3>4. \A i \in Used(groups) \ {0} : i <= k <=> i <= k - 1
      BY <3>2
    <3>5. 0..(k - 1) \subseteq 0..k
      OBVIOUS
    <3>6. Restored(groups, k, after[k])
      BY <3>3, <3>4, <3>5 DEF Restored
    <3> QED BY <3>6
  <2> QED BY <2>1, <2>2
<1>9. \A k \in 0..MaxGroups : k \in S
  <2> HIDE DEF S
  <2> QED BY <1>0, <1>6, <1>8, UpTo
<1>10. Restored(groups, MaxGroups, after[MaxGroups])
  <2>1. MaxGroups \in 0..MaxGroups
    BY <1>0
  <2> QED BY <2>1, <1>9
<1>11. \A k \in 1..MaxGroups : k \in DOMAIN doc.groups => CanRead(after[k - 1], doc.groups[k])
  <2> SUFFICES ASSUME NEW k \in 1..MaxGroups, k \in DOMAIN doc.groups
               PROVE  CanRead(after[k - 1], doc.groups[k])
    OBVIOUS
  <2>1. k - 1 \in 0..MaxGroups
    BY <1>0
  <2>2. Restored(groups, k - 1, after[k - 1])
    BY <2>1, <1>9
  <2> QED BY <2>2, <1>2, <1>7
<1> QED BY <1>4, <1>5, <1>10, <1>11 DEF doc

\* The peers of a file that was saved.
LEMMA PeersAreRestored ==
  ASSUME ConfigIInv, Restorable, NEW a \in Addresses
  PROVE  LET doc == Saved(groups, peers)
         IN ReadPeers(doc)[a] = IF peers[a] = NoPeer THEN NoPeer
                                ELSE ReadEntry(ReadGroups(doc), Entry(a, peers[a], peers[a].group))
<1> DEFINE doc == Saved(groups, peers)
           good == {e \in doc.peers : Valid(e) /\ AllGroupsRead(doc)}
           mine == Entry(a, peers[a], peers[a].group)
<1>1. doc.peers = {Entry(b, peers[b], peers[b].group) : b \in {c \in Addresses : peers[c] # NoPeer}}
  BY DEF Saved, SavedPeers
<1>2. ASSUME NEW e \in doc.peers, e.name = a PROVE peers[a] # NoPeer /\ e = mine
  <2>1. PICK b \in Addresses : peers[b] # NoPeer /\ e = Entry(b, peers[b], peers[b].group)
    BY <1>1
  <2>2. b = a
    BY <2>1, <1>2 DEF Entry
  <2> QED BY <2>1, <2>2
<1>3. peers[a] # NoPeer => mine \in good /\ mine.name = a
  <2> SUFFICES ASSUME peers[a] # NoPeer PROVE mine \in good /\ mine.name = a
    OBVIOUS
  <2>1. mine \in doc.peers
    BY <1>1
  <2>2. Valid(mine)
    BY DEF Restorable, Valid, Entry
  <2>3. AllGroupsRead(doc)
    BY RestoreAll
  <2> QED BY <2>1, <2>2, <2>3 DEF Entry
<1>4. ReadPeers(doc)[a] = IF \E e \in good : e.name = a
                          THEN ReadEntry(ReadGroups(doc), CHOOSE e \in good : e.name = a) ELSE NoPeer
  BY DEF ReadPeers
<1>5. good \subseteq doc.peers
  OBVIOUS
<1> HIDE DEF good, doc, mine
<1>6. CASE peers[a] = NoPeer
  BY <1>2, <1>4, <1>5, <1>6 DEF doc
<1>7. CASE peers[a] # NoPeer
  <2>1. (CHOOSE e \in good : e.name = a) = mine
    BY <1>2, <1>3, <1>5, <1>7
  <2> QED BY <1>3, <1>4, <1>7, <2>1 DEF mine, doc
<1> QED BY <1>6, <1>7

\* A group of the new table has the place in the order of levels that it had in the old one.
LEMMA SameLevels ==
  ASSUME NEW gs \in FreshTables, NEW hs \in FreshTables, NEW p \in PeerConfs, NEW q \in PeerConfs,
         p.groupID \in Used(gs), q.groupID \in Used(hs),
         SameGroup(gs[p.groupID], hs[q.groupID]), gs[0] = hs[0],
         p.own = q.own, p.rules = q.rules, p.announce = q.announce
  PROVE  /\ \A f \in Settings : PeerGet(gs, p, f) = PeerGet(hs, q, f)
         /\ ReceiveRules(gs, p) = ReceiveRules(hs, q)
         /\ Announced(gs, p) = Announced(hs, q)
<1>1. gs \in GroupTables /\ hs \in GroupTables /\ 0 \in Used(gs) /\ 0 \in Used(hs)
  BY DEF FreshTables
<1>2. p.groupID = 0 <=> q.groupID = 0
  BY <1>1, GroupsAre DEF SameGroup
<1>3. gs[p.groupID].groupID = hs[q.groupID].groupID /\ gs[p.groupID].groupID = IF p.groupID = 0 THEN -1 ELSE 0
  BY <1>1, <1>2, GroupsAre
<1>4. /\ gs[p.groupID].own = hs[q.groupID].own /\ gs[p.groupID].rules = hs[q.groupID].rules
      /\ gs[p.groupID].announce = hs[q.groupID].announce
  BY DEF SameGroup
<1>5. ASSUME NEW f \in Settings PROVE PeerGet(gs, p, f) = PeerGet(hs, q, f)
  <2>1. PeerGet(gs, p, f) = IF p.own[f] # Unset THEN p.own[f]
                            ELSE IF gs[p.groupID].own[f] \notin {Unset, Missing(f)} THEN gs[p.groupID].own[f]
                            ELSE gs[0].own[f]
    BY PeerGetIs
  <2>2. PeerGet(hs, q, f) = IF q.own[f] # Unset THEN q.own[f]
                            ELSE IF hs[q.groupID].own[f] \notin {Unset, Missing(f)} THEN hs[q.groupID].own[f]
                            ELSE hs[0].own[f]
    BY PeerGetIs
  <2> QED BY <2>1, <2>2, <1>4
<1>6. /\ ReceiveRules(gs, p) = ReceiveRules(hs, q)
      /\ Announced(gs, p) = Announced(hs, q)
  BY <1>3, <1>4 DEF ReceiveRules, Announced, DefaultOf, Inherited
<1> QED BY <1>5, <1>6

\* A peer that is read again finds its group, or the default one, with what it held.
LEMMA RestartKeeps ==
  ASSUME ConfigIInv, Restart, Restorable, NEW a \in Addresses
  PROVE  IF peers[a] = NoPeer THEN peers'[a] = NoPeer
         ELSE /\ \A f \in Settings : PeerGet(groups', peers'[a], f) = PeerGet(groups, peers[a], f)
              /\ ReceiveRules(groups', peers'[a]) = ReceiveRules(groups, peers[a])
              /\ Announced(groups', peers'[a]) = Announced(groups, peers[a])
<1> DEFINE doc == Saved(groups, peers)
           hs == ReadGroups(doc)
           p == peers[a]
           q == ReadPeers(doc)[a]
<1>1. groups' = hs /\ peers' = ReadPeers(doc) /\ peers'[a] = q
  BY DEF Restart, Start
<1>2. q = IF p = NoPeer THEN NoPeer ELSE ReadEntry(hs, Entry(a, p, p.group))
  BY PeersAreRestored
<1>3. Restored(groups, MaxGroups, hs)
  BY RestoreAll
<1>4. ReadPeers(doc) \in [Addresses -> PeerConfs \cup {NoPeer}]
  BY SavedIsDocument, ReadIs
<1>5. CASE p = NoPeer
  BY <1>1, <1>2, <1>5
<1>6. CASE p # NoPeer
  <2> HIDE DEF p, q, hs, doc
  <2>1. q.group = p.group /\ q.groupID = GroupID(hs, p.group) /\ q.own = p.own /\ q.rules = p.rules /\ q.announce = p.announce
    BY <1>2, <1>6 DEF ReadEntry, Entry
  <2>2. p \in PeerConfs
    BY <1>6 DEF p, ConfigIInv, TypeOK
  <2>3. q \in PeerConfs
    <3>1. ReadEntry(hs, Entry(a, p, p.group)) # NoPeer
      BY <2>2 DEF ReadEntry, NoPeer
    <3> QED BY <3>1, <1>2, <1>4, <1>6 DEF q
  <2>4. groups \in GroupTables /\ 0 \in Used(groups) /\ groups[0] = DefaultGroup
    BY Shapes DEF ConfigIInv, Restorable, Used
  <2>5. groups \in FreshTables /\ hs \in FreshTables /\ hs[0] = groups[0] /\ hs \in GroupTables /\ 0 \in Used(hs)
    BY <2>4, <1>3 DEF FreshTables, Restored
  <2>6. p.groupID \in Used(groups) /\ groups[p.groupID].name = p.group
    BY <1>6 DEF ConfigIInv, PeersOk, Restorable, Sound, p
  <2>7. q.groupID \in Used(hs) /\ SameGroup(groups[p.groupID], hs[q.groupID])
    <3>1. CASE p.groupID = 0
      <4>1. q.groupID = 0
        BY <2>1, <2>4, <2>5, <2>6, <3>1, GroupsAre, Shapes
      <4> QED BY <4>1, <2>5, <3>1 DEF SameGroup
    <3>2. CASE p.groupID # 0
      <4>1. p.groupID \in Slots /\ MaxGroups \in Nat
        BY <2>6, PeerConfigAssumption DEF Used
      <4>2. p.groupID <= MaxGroups
        BY <4>1 DEF Slots
      <4>3. PICK j \in Used(hs) : SameGroup(hs[j], groups[p.groupID])
        BY <4>2, <1>3, <2>6, <3>2 DEF Restored
      <4>4. q.groupID = j
        BY <4>3, <2>1, <2>5, <2>6, GroupIDIs DEF SameGroup
      <4> QED BY <4>3, <4>4 DEF SameGroup
    <3> QED BY <3>1, <3>2
  <2>8. /\ \A f \in Settings : PeerGet(groups, p, f) = PeerGet(hs, q, f)
        /\ ReceiveRules(groups, p) = ReceiveRules(hs, q)
        /\ Announced(groups, p) = Announced(hs, q)
    BY <2>1, <2>2, <2>3, <2>5, <2>6, <2>7, SameLevels
  <2> QED BY <2>8, <1>1, <1>6 DEF p
<1> QED BY <1>5, <1>6

\* Saving and starting again changes no setting, no rule and no announcement of any peer,
\* for any number of peers, groups and slots (saveConfigFile, readConfigFile).
THEOREM EveryRestartKeepsPeers == ConfigSpec => RestartKeepsPeers
<1> DEFINE Kept(a) == IF peers[a] = NoPeer THEN peers'[a] = NoPeer
                      ELSE /\ \A f \in Settings : PeerGet(groups', peers'[a], f) = PeerGet(groups, peers[a], f)
                           /\ ReceiveRules(groups', peers'[a]) = ReceiveRules(groups, peers[a])
                           /\ Announced(groups', peers'[a]) = Announced(groups, peers[a])
           Keeps == Restart /\ ~crashed /\ Restorable => \A a \in Addresses : Kept(a)
<1>1. ConfigIInv => [Keeps]_configVars
  <2> SUFFICES ASSUME ConfigIInv, Restart, Restorable, NEW a \in Addresses PROVE Kept(a)
    OBVIOUS
  <2> QED BY RestartKeeps
<1>2. RestartKeepsPeers <=> [][Keeps]_configVars
  BY DEF RestartKeepsPeers
<1> HIDE DEF Keeps
<1> QED BY <1>1, <1>2, ConfigInitInv, ConfigNextInv, PTL DEF ConfigSpec

(***************************************************************************)
(* Rules: the first of a pattern.                                          *)
(***************************************************************************)
Decides(list, pat, k) == SamePattern(list[k], pat) /\ \A j \in 1..(k - 1) : ~SamePattern(list[j], pat)
ActionOf(list, pat) == IF Holds(list, pat) THEN list[CHOOSE k \in 1..Len(list) : Decides(list, pat, k)].action
                       ELSE "none"

LEMMA FirstIs ==
  ASSUME NEW list, Len(list) \in Nat, NEW pat
  PROVE  /\ Holds(list, pat) => \E k \in 1..Len(list) : Decides(list, pat, k)
         /\ \A k \in 1..Len(list) : Decides(list, pat, k) => Holds(list, pat) /\ ActionOf(list, pat) = list[k].action
         /\ ~Holds(list, pat) => ActionOf(list, pat) = "none"
<1>1. ASSUME Holds(list, pat) PROVE \E k \in 1..Len(list) : Decides(list, pat, k)
  <2> DEFINE S == {k \in 1..Len(list) : SamePattern(list[k], pat)}
  <2>1. S \in SUBSET Nat /\ S # {}
    BY <1>1 DEF Holds
  <2>2. PICK k \in S : \A j \in S : k <= j
    <3> HIDE DEF S
    <3> QED BY <2>1, LeastIn
  <2>3. \A j \in 1..(k - 1) : j \notin S /\ j \in 1..Len(list)
    BY <2>2
  <2> QED BY <2>2, <2>3 DEF Decides
<1>2. ASSUME NEW k \in 1..Len(list), Decides(list, pat, k)
      PROVE  Holds(list, pat) /\ ActionOf(list, pat) = list[k].action
  <2> DEFINE c == CHOOSE j \in 1..Len(list) : Decides(list, pat, j)
  <2>1. Holds(list, pat)
    BY <1>2 DEF Decides, Holds
  <2>2. c \in 1..Len(list) /\ Decides(list, pat, c)
    BY <1>2
  <2>3. ActionOf(list, pat) = list[c].action
    BY <2>1 DEF ActionOf
  <2> HIDE DEF c
  <2>4. ~ (c < k) /\ ~ (k < c)
    <3>1. ASSUME c < k PROVE FALSE
      BY <1>2, <2>2, <3>1 DEF Decides
    <3>2. ASSUME k < c PROVE FALSE
      BY <1>2, <2>2, <3>2 DEF Decides
    <3> QED BY <3>1, <3>2
  <2>5. c = k
    BY <2>2, <2>4
  <2> QED BY <2>1, <2>3, <2>5
<1> QED BY <1>1, <1>2 DEF ActionOf

LEMMA ToSetIs ==
  ASSUME NEW S, NEW list \in Seq(S), NEW x
  PROVE  x \in ToSet(list) <=> \E i \in 1..Len(list) : list[i] = x
BY DEF ToSet

\* What two lists decide one after the other.
LEMMA ConcatIs ==
  ASSUME NEW near \in Seq(Rule), NEW t \in Seq(Rule)
  PROVE  /\ near \o t \in Seq(Rule)
         /\ \A r : r \in ToSet(near \o t) <=> r \in ToSet(near) \/ r \in ToSet(t)
         /\ \A pat : /\ Holds(near \o t, pat) <=> Holds(near, pat) \/ Holds(t, pat)
                     /\ ActionOf(near \o t, pat) = IF Holds(near, pat) THEN ActionOf(near, pat) ELSE ActionOf(t, pat)
<1> DEFINE u == near \o t
<1>1. /\ u \in Seq(Rule) /\ Len(u) = Len(near) + Len(t) /\ Len(near) \in Nat /\ Len(t) \in Nat
      /\ \A i \in 1..Len(near) : i \in 1..Len(u) /\ u[i] = near[i]
      /\ \A i \in 1..Len(t) : Len(near) + i \in 1..Len(u) /\ u[Len(near) + i] = t[i]
      /\ \A i \in 1..Len(u) : i \in 1..Len(near) \/ (i - Len(near) \in 1..Len(t) /\ u[i] = t[i - Len(near)])
  OBVIOUS
<1>2. ASSUME NEW r PROVE r \in ToSet(u) <=> r \in ToSet(near) \/ r \in ToSet(t)
  <2> HIDE DEF u
  <2>1. ASSUME NEW w \in Seq(Rule) PROVE r \in ToSet(w) <=> \E i \in 1..Len(w) : w[i] = r
    BY ToSetIs
  <2> QED BY <1>1, <2>1
<1> HIDE DEF u
<1>3. ASSUME NEW pat
      PROVE  /\ Holds(u, pat) <=> Holds(near, pat) \/ Holds(t, pat)
             /\ ActionOf(u, pat) = IF Holds(near, pat) THEN ActionOf(near, pat) ELSE ActionOf(t, pat)
  <2>1. Holds(u, pat) <=> Holds(near, pat) \/ Holds(t, pat)
    BY <1>1 DEF Holds
  <2>2. CASE Holds(near, pat)
    <3>1. PICK k \in 1..Len(near) : Decides(near, pat, k)
      BY <1>1, <2>2, FirstIs
    <3>2. \A j \in 1..(k - 1) : j \in 1..Len(near)
      BY <1>1
    <3>3. Decides(u, pat, k) /\ k \in 1..Len(u)
      BY <1>1, <3>1, <3>2 DEF Decides
    <3>4. ActionOf(u, pat) = u[k].action
      <4>1. Len(u) \in Nat
        BY <1>1
      <4> QED BY <3>3, <4>1, FirstIs
    <3>5. ActionOf(near, pat) = near[k].action
      BY <1>1, <3>1, FirstIs
    <3> QED BY <1>1, <2>1, <2>2, <3>4, <3>5
  <2>3. CASE ~Holds(near, pat) /\ Holds(t, pat)
    <3>1. PICK k \in 1..Len(t) : Decides(t, pat, k)
      BY <1>1, <2>3, FirstIs
    <3> DEFINE n == Len(near) + k
    <3>2. n \in 1..Len(u) /\ u[n] = t[k]
      BY <1>1
    <3>3. ASSUME NEW j \in 1..(n - 1) PROVE ~SamePattern(u[j], pat)
      <4>1. CASE j \in 1..Len(near)
        BY <1>1, <2>3, <4>1 DEF Holds
      <4>2. CASE j \notin 1..Len(near)
        <5>1. j \in 1..Len(u)
          BY <1>1, <3>2
        <5>2. j - Len(near) \in 1..(k - 1) /\ u[j] = t[j - Len(near)]
          BY <1>1, <4>2, <5>1
        <5> QED BY <3>1, <5>2 DEF Decides
      <4> QED BY <4>1, <4>2
    <3>4. Decides(u, pat, n)
      BY <3>1, <3>2, <3>3 DEF Decides
    <3> HIDE DEF n
    <3>5. ActionOf(u, pat) = u[n].action
      <4>1. Len(u) \in Nat
        BY <1>1
      <4> QED BY <3>2, <3>4, <4>1, FirstIs
    <3>6. ActionOf(t, pat) = t[k].action
      BY <1>1, <3>1, FirstIs
    <3> QED BY <2>1, <2>3, <3>2, <3>5, <3>6
  <2>4. CASE ~Holds(near, pat) /\ ~Holds(t, pat)
    BY <2>1, <2>4 DEF ActionOf
  <2> QED BY <2>1, <2>2, <2>3, <2>4
<1> QED BY <1>1, <1>2, <1>3 DEF u

\* The nearest level that has a rule of the pattern decides.
LEMMA RulingIs ==
  ASSUME NEW p, NEW pat, Len(Levels(p)) \in Nat
  PROVE  /\ \A i \in 1..Len(Levels(p)) :
              Holds(Levels(p)[i], pat) /\ (\A j \in 1..(i - 1) : ~Holds(Levels(p)[j], pat))
                => Ruling(p, pat) = ActionOf(Levels(p)[i], pat)
         /\ (\A i \in 1..Len(Levels(p)) : ~Holds(Levels(p)[i], pat)) => Ruling(p, pat) = "none"
<1> DEFINE ls == Levels(p)
           Nearest(i) == Holds(ls[i], pat) /\ \A j \in 1..(i - 1) : ~Holds(ls[j], pat)
           level == CHOOSE i \in 1..Len(ls) : Nearest(i)
<1>1. Ruling(p, pat) = IF \E i \in 1..Len(ls) : Holds(ls[i], pat)
                       THEN ls[level][CHOOSE k \in 1..Len(ls[level]) : Decides(ls[level], pat, k)].action
                       ELSE "none"
  BY DEF Ruling, Holds, Decides
<1>2. ASSUME NEW i \in 1..Len(ls), Nearest(i) PROVE level = i
  <2>1. level \in 1..Len(ls) /\ Nearest(level)
    BY <1>2
  <2> HIDE DEF level, ls
  <2> QED BY <1>2, <2>1 DEF ls
<1>3. ASSUME NEW i \in 1..Len(ls), Nearest(i) PROVE Ruling(p, pat) = ActionOf(ls[i], pat)
  <2>1. level = i
    BY <1>2, <1>3
  <2> HIDE DEF level, ls
  <2> QED BY <1>1, <1>3, <2>1 DEF ActionOf
<1> QED BY <1>1, <1>3

LEMMA LevelTuples ==
  ASSUME NEW own, NEW its, NEW defaults
  PROVE  /\ <<own>> \o <<>> \o <<defaults>> = <<own, defaults>>
         /\ <<own>> \o <<its>> \o <<defaults>> = <<own, its, defaults>>
<1> DEFINE S == {own, its, defaults}
           near == <<own>> \o <<>>
           s2 == near \o <<defaults>>
           t == <<own>> \o <<its>>
           t3 == t \o <<defaults>>
           two == <<own, defaults>>
           three == <<own, its, defaults>>
<1>1. /\ <<own>> \in Seq(S) /\ <<its>> \in Seq(S) /\ <<defaults>> \in Seq(S) /\ <<>> \in Seq(S)
      /\ two \in Seq(S) /\ three \in Seq(S)
  OBVIOUS
<1>2. near \in Seq(S) /\ Len(near) = 1 /\ near[1] = own /\ t \in Seq(S) /\ Len(t) = 2 /\ t[1] = own /\ t[2] = its
  BY <1>1
<1>3. /\ Len(two) = 2 /\ two[1] = own /\ two[2] = defaults
      /\ Len(three) = 3 /\ three[1] = own /\ three[2] = its /\ three[3] = defaults
  OBVIOUS
<1> HIDE DEF near, t, S
<1>10. ASSUME NEW u \in Seq(S)
       PROVE  LET v == u \o <<defaults>>
              IN /\ v \in Seq(S) /\ Len(v) = Len(u) + 1 /\ v[Len(u) + 1] = defaults
                 /\ \A i \in 1..Len(u) : v[i] = u[i]
  BY <1>1
<1>4. s2 \in Seq(S) /\ Len(s2) = 2 /\ s2[1] = own /\ s2[2] = defaults
  <2>1. /\ s2 \in Seq(S) /\ Len(s2) = Len(near) + 1 /\ s2[Len(near) + 1] = defaults
        /\ \A i \in 1..Len(near) : s2[i] = near[i]
    BY <1>2, <1>10, Zenon
  <2> HIDE DEF s2
  <2>2. 1 \in 1..Len(near)
    BY <1>2
  <2> QED BY <1>2, <2>1, <2>2
<1>11. t3 \in Seq(S) /\ Len(t3) = 3 /\ t3[1] = own /\ t3[2] = its /\ t3[3] = defaults
  <2>1. /\ t3 \in Seq(S) /\ Len(t3) = Len(t) + 1 /\ t3[Len(t) + 1] = defaults
        /\ \A i \in 1..Len(t) : t3[i] = t[i]
    BY <1>2, <1>10, Zenon
  <2> HIDE DEF t3
  <2>2. 1 \in 1..Len(t) /\ 2 \in 1..Len(t)
    BY <1>2
  <2> QED BY <1>2, <2>1, <2>2
<1> HIDE DEF s2, t3, two, three
<1>5. s2 = two
  BY <1>1, <1>3, <1>4
<1>6. t3 = three
  BY <1>1, <1>3, <1>11
<1> QED BY <1>5, <1>6 DEF near, t, s2, t3, two, three

\* What comes first in the concatenation of the levels is what is nearest.
LEMMA LevelsAre ==
  ASSUME ConfigIInv, NEW a \in Sound
  PROVE  \E list \in Seq(Rule) :
           /\ ReceiveRules(groups, peers[a]) = Merged(list)
           /\ \A pat : Ruling(peers[a], pat) = ActionOf(list, pat)
           /\ \A r : r \in ToSet(list) <=> \E l \in ToSet(Levels(peers[a])) : r \in ToSet(l)
<1> DEFINE p == peers[a]
           own == p.rules
           its == groups[p.groupID].rules
           defaults == groups[0].rules
<1>1. groups \in GroupTables /\ p \in PeerConfs /\ GroupID(groups, Default) = 0 /\ 0 \in Used(groups)
  BY GroupsAre, Shapes DEF ConfigIInv, TypeOK, Sound
<1>2. p.groupID \in Used(groups) /\ groups[p.groupID].name = p.group
  BY DEF ConfigIInv, PeersOk, Sound
<1>3. GroupID(groups, p.group) = p.groupID
  BY <1>1, <1>2, GroupIDIs
<1>4. groups[p.groupID] \in GroupConfs /\ groups[0] \in GroupConfs
  BY <1>1, <1>2, GroupsAre
<1>5. own \in Seq(Rule) /\ its \in Seq(Rule) /\ defaults \in Seq(Rule)
  BY <1>1, <1>4 DEF PeerConfs, GroupConfs
<1>6. (p.group = Default <=> p.groupID = 0) /\ groups[p.groupID].groupID = IF p.groupID = 0 THEN -1 ELSE 0
  BY <1>1, <1>2, GroupsAre
<1>7. Levels(p) = <<own>> \o (IF p.group # Default THEN <<its>> ELSE <<>>) \o <<defaults>>
  BY <1>3 DEF Levels
<1>8. ReceiveRules(groups, p) = Merged(own \o its \o (IF p.groupID = 0 THEN <<>> ELSE defaults))
  BY <1>6 DEF ReceiveRules, Inherited, DefaultOf
<1> HIDE DEF p, own, its, defaults
<1>9. CASE p.groupID = 0
  <2> DEFINE list == own \o defaults
  <2>1. ReceiveRules(groups, p) = Merged(list)
    <3>1. its = defaults
      BY <1>9 DEF its, defaults
    <3>2. own \o defaults \o <<>> = own \o defaults
      BY <1>5
    <3> QED BY <1>8, <1>9, <3>1, <3>2
  <2>2. Levels(p) = <<own, defaults>>
    BY <1>6, <1>7, <1>9, LevelTuples
  <2>3. ASSUME NEW pat PROVE Ruling(p, pat) = ActionOf(list, pat)
    <3>1. ActionOf(list, pat) = IF Holds(own, pat) THEN ActionOf(own, pat) ELSE ActionOf(defaults, pat)
      BY <1>5, ConcatIs
    <3>2. Holds(own, pat) => Ruling(p, pat) = ActionOf(own, pat)
      BY <2>2, RulingIs
    <3>3. ~Holds(own, pat) /\ Holds(defaults, pat) => Ruling(p, pat) = ActionOf(defaults, pat)
      BY <2>2, RulingIs
    <3>4. ~Holds(own, pat) /\ ~Holds(defaults, pat) => Ruling(p, pat) = "none" /\ ActionOf(defaults, pat) = "none"
      BY <2>2, RulingIs DEF ActionOf
    <3> QED BY <3>1, <3>2, <3>3, <3>4
  <2>4. ASSUME NEW r PROVE r \in ToSet(list) <=> \E l \in ToSet(Levels(p)) : r \in ToSet(l)
    <3>1. ToSet(<<own, defaults>>) = {own, defaults}
      BY DEF ToSet
    <3> QED BY <1>5, <2>2, <3>1, ConcatIs
  <2>5. list \in Seq(Rule)
    BY <1>5, ConcatIs
  <2> HIDE DEF list
  <2> QED BY <2>1, <2>3, <2>4, <2>5 DEF p
<1>10. CASE p.groupID # 0
  <2> DEFINE near == own \o its
             list == near \o defaults
  <2>1. ReceiveRules(groups, p) = Merged(list)
    BY <1>8, <1>10
  <2>2. Levels(p) = <<own, its, defaults>>
    BY <1>6, <1>7, <1>10, LevelTuples
  <2>3. near \in Seq(Rule) /\ list \in Seq(Rule)
    BY <1>5, ConcatIs
  <2>4. ASSUME NEW pat PROVE Ruling(p, pat) = ActionOf(list, pat)
    <3> HIDE DEF near, list
    <3>1. /\ Holds(near, pat) <=> Holds(own, pat) \/ Holds(its, pat)
          /\ ActionOf(near, pat) = IF Holds(own, pat) THEN ActionOf(own, pat) ELSE ActionOf(its, pat)
      BY <1>5, ConcatIs DEF near
    <3>2. ActionOf(list, pat) = IF Holds(near, pat) THEN ActionOf(near, pat) ELSE ActionOf(defaults, pat)
      BY <1>5, <2>3, ConcatIs DEF list
    <3>3. Holds(own, pat) => Ruling(p, pat) = ActionOf(own, pat)
      BY <2>2, RulingIs
    <3>4. ~Holds(own, pat) /\ Holds(its, pat) => Ruling(p, pat) = ActionOf(its, pat)
      BY <2>2, RulingIs
    <3>5. ~Holds(own, pat) /\ ~Holds(its, pat) /\ Holds(defaults, pat) => Ruling(p, pat) = ActionOf(defaults, pat)
      BY <2>2, RulingIs
    <3>6. ~Holds(own, pat) /\ ~Holds(its, pat) /\ ~Holds(defaults, pat)
          => Ruling(p, pat) = "none" /\ ActionOf(defaults, pat) = "none"
      BY <2>2, RulingIs DEF ActionOf
    <3> QED BY <3>1, <3>2, <3>3, <3>4, <3>5, <3>6
  <2>5. ASSUME NEW r PROVE r \in ToSet(list) <=> \E l \in ToSet(Levels(p)) : r \in ToSet(l)
    <3>1. ToSet(<<own, its, defaults>>) = {own, its, defaults}
      BY DEF ToSet
    <3>2. r \in ToSet(near) <=> r \in ToSet(own) \/ r \in ToSet(its)
      BY <1>5, ConcatIs
    <3> HIDE DEF near
    <3>3. r \in ToSet(list) <=> r \in ToSet(near) \/ r \in ToSet(defaults)
      BY <1>5, <2>3, ConcatIs
    <3> QED BY <2>2, <3>1, <3>2, <3>3
  <2> HIDE DEF list
  <2> QED BY <2>1, <2>3, <2>4, <2>5 DEF p
<1> QED BY <1>9, <1>10

\* The capabilities' lists, merged: of each pattern in the list the first is kept, and
\* no other.
Kept(list, n, kept) ==
  /\ kept \in Seq(Rule)
  /\ \A i, j \in 1..Len(kept) : SamePattern(kept[i], kept[j]) => i = j
  /\ \A i \in 1..Len(kept) : \E k \in 1..n : kept[i] = list[k] /\ Decides(list, list[k], k)
  /\ \A k \in 1..n : Holds(kept, list[k])

LEMMA MergeOne ==
  ASSUME NEW list \in Seq(Rule), NEW n \in 1..Len(list), NEW kept, Kept(list, n - 1, kept)
  PROVE  Kept(list, n, Merge(kept, list[n]))
<1> DEFINE r == list[n]
           new == Merge(kept, r)
<1>1. /\ r \in Rule /\ Len(list) \in Nat /\ n \in Nat /\ kept \in Seq(Rule) /\ Len(kept) \in Nat
      /\ SamePattern(r, r)
  BY DEF Kept, SamePattern
<1>2. \A k \in 1..n : k \in 1..(n - 1) \/ k = n
  OBVIOUS
<1>3. \A k \in 1..(n - 1) : k \in 1..n
  OBVIOUS
<1>4. CASE Holds(kept, r)
  <2>1. new = kept
    BY <1>4 DEF Merge
  <2>2. \A k \in 1..n : Holds(kept, list[k])
    BY <1>2, <1>4 DEF Kept
  <2> HIDE DEF new
  <2> QED BY <1>3, <2>1, <2>2 DEF Kept, new
<1>5. CASE ~Holds(kept, r)
  <2>1. /\ new \in Seq(Rule) /\ Len(new) = Len(kept) + 1 /\ new[Len(kept) + 1] = r
        /\ \A i \in 1..Len(kept) : new[i] = kept[i]
        /\ \A i \in 1..Len(new) : i \in 1..Len(kept) \/ i = Len(kept) + 1
        /\ \A i \in 1..Len(kept) : i \in 1..Len(new)
        /\ Len(kept) + 1 \in 1..Len(new)
    BY <1>1, <1>5 DEF Merge
  <2> HIDE DEF new, r
  <2>2. \A i \in 1..Len(kept) : ~SamePattern(kept[i], r) /\ ~SamePattern(r, kept[i])
    BY <1>5 DEF Holds, SamePattern
  <2>3. ASSUME NEW i \in 1..Len(new), NEW j \in 1..Len(new), SamePattern(new[i], new[j]) PROVE i = j
    BY <2>1, <2>2, <2>3 DEF Kept
  <2>4. \A k \in 1..(n - 1) : ~SamePattern(list[k], r)
    <3> SUFFICES ASSUME NEW k \in 1..(n - 1), SamePattern(list[k], r) PROVE FALSE
      OBVIOUS
    <3>1. PICK i \in 1..Len(kept) : SamePattern(kept[i], list[k])
      BY DEF Kept, Holds
    <3>2. SamePattern(kept[i], r)
      BY <3>1 DEF SamePattern
    <3> QED BY <2>2, <3>2
  <2>5. ASSUME NEW i \in 1..Len(new)
        PROVE  \E k \in 1..n : new[i] = list[k] /\ Decides(list, list[k], k)
    <3>1. CASE i \in 1..Len(kept)
      <4>1. PICK k \in 1..(n - 1) : kept[i] = list[k] /\ Decides(list, list[k], k)
        BY <3>1 DEF Kept
      <4> QED BY <1>3, <2>1, <3>1, <4>1
    <3>2. CASE i = Len(kept) + 1
      <4>1. Decides(list, list[n], n) /\ n \in 1..n
        BY <1>1, <2>4 DEF Decides, r
      <4> QED BY <2>1, <3>2, <4>1 DEF r
    <3> QED BY <2>1, <3>1, <3>2
  <2>6. ASSUME NEW k \in 1..n PROVE Holds(new, list[k])
    <3>1. CASE k \in 1..(n - 1)
      <4>1. PICK i \in 1..Len(kept) : SamePattern(kept[i], list[k])
        BY <3>1 DEF Kept, Holds
      <4> QED BY <2>1, <4>1 DEF Holds
    <3>2. CASE k = n
      BY <1>1, <2>1, <3>2 DEF Holds, r
    <3> QED BY <1>2, <3>1, <3>2
  <2>7. Kept(list, n, new)
    BY <2>1, <2>3, <2>5, <2>6 DEF Kept
  <2> QED BY <2>7 DEF new, r
<1> QED BY <1>4, <1>5

LEMMA MergedIs ==
  ASSUME NEW list \in Seq(Rule)
  PROVE  Kept(list, Len(list), Merged(list))
<1> DEFINE n == Len(list)
           V == Seq(Rule)
           step == [x \in (1..n) \X V |-> Merge(x[2], list[x[1]])]
           Is(h) == h = [k \in 0..n |-> IF k = 0 THEN <<>> ELSE Merge(h[k - 1], list[k])]
<1>0. n \in Nat /\ \A k \in 1..n : list[k] \in Rule
  OBVIOUS
<1>1. ASSUME NEW k \in 1..n, NEW kept \in V PROVE Merge(kept, list[k]) \in V
  BY <1>0 DEF Merge
<1>2. <<>> \in V
  OBVIOUS
<1> HIDE DEF V
<1>3. step \in [(1..n) \X V -> V] /\ \A k \in 1..n, kept \in V : step[<<k, kept>>] = Merge(kept, list[k])
  BY <1>1
<1> HIDE DEF step
<1>4. PICK h \in [0..n -> V] : h[0] = <<>> /\ \A k \in 1..n : h[k] = step[<<k, h[k - 1]>>]
  <2>1. Recursive(n, V, <<>>, step)
    BY <1>0, <1>2, <1>3, Recursion
  <2> QED BY <2>1 DEF Recursive
<1>5. ASSUME NEW k \in 1..n PROVE h[k] = Merge(h[k - 1], list[k])
  <2>1. k - 1 \in 0..n
    BY <1>0
  <2>2. h[k - 1] \in V
    BY <1>4, <2>1
  <2> QED BY <1>3, <1>4, <2>2
<1>6. Is(h)
  <2>1. h = [k \in 0..n |-> h[k]]
    BY <1>4
  <2>2. ASSUME NEW k \in 0..n PROVE h[k] = IF k = 0 THEN <<>> ELSE Merge(h[k - 1], list[k])
    BY <1>0, <1>4, <1>5
  <2> QED BY <2>1, <2>2, Zenon
<1> DEFINE g == CHOOSE h_ : Is(h_)
<1>7. Is(g)
  <2> HIDE DEF Is
  <2> QED BY <1>6
<1>8. Merged(list) = g[n]
  BY DEF Merged
<1> HIDE DEF g
<1>9. g[0] = <<>> /\ \A k \in 1..n : g[k] = Merge(g[k - 1], list[k])
  BY <1>0, <1>7
<1>10. Kept(list, n, g[n])
  <2> DEFINE S == {k \in 0..n : Kept(list, k, g[k])}
  <2>1. 0 \in S
    <3>1. Kept(list, 0, <<>>)
      BY DEF Kept
    <3> QED BY <3>1, <1>0, <1>9
  <2>2. ASSUME NEW k \in 1..n, k - 1 \in S PROVE k \in S
    BY <2>2, <1>0, <1>9, MergeOne
  <2>3. \A k \in 0..n : k \in S
    <3> HIDE DEF S
    <3> QED BY <1>0, <2>1, <2>2, UpTo
  <2> QED BY <1>0, <2>3
<1> QED BY <1>8, <1>10

(***************************************************************************)
(* The decision on a capability.                                           *)
(***************************************************************************)
Deciding(list, n, c, v) == \E i \in 1..n : list[i].code = c.code /\ list[i].value = v /\ list[i].action # "require"
Refusing(list, n, c, v) == \E i \in 1..n : list[i].code = c.code /\ list[i].value = v /\ list[i].action = "refuse"

\* After n rules: the one for the value has decided, else the one for the code.
Judged(list, n, c, found) ==
  /\ found \in [refused : BOOLEAN, longest : BOOLEAN]
  /\ found.longest <=> c.value # AnyValue /\ Deciding(list, n, c, c.value)
  /\ found.refused <=> \/ Refusing(list, n, c, c.value)
                       \/ ~Deciding(list, n, c, c.value) /\ Refusing(list, n, c, AnyValue)

Distinct(list) == \A i, j \in 1..Len(list) : SamePattern(list[i], list[j]) => i = j

LEMMA ScanOne ==
  ASSUME NEW list \in Seq(Rule), Distinct(list), NEW n \in 1..Len(list), NEW c, NEW found,
         Judged(list, n - 1, c, found)
  PROVE  Judged(list, n, c, Scan(c, found, list[n]))
<1> DEFINE r == list[n]
           new == Scan(c, found, r)
           Of(v) == r.code = c.code /\ r.value = v
<1>1. /\ r.action \in {"refuse", "allow", "require"} /\ n - 1 \in Nat /\ n \in Nat
      /\ \A i \in 1..n : i \in 1..(n - 1) \/ i = n
      /\ \A i \in 1..(n - 1) : i \in 1..n /\ i \in 1..Len(list) /\ i # n
      /\ n \in 1..n
  <2>1. r \in Rule
    OBVIOUS
  <2> QED BY <2>1 DEF Rule
<1>2. ASSUME NEW v
      PROVE  /\ Deciding(list, n, c, v) <=> Deciding(list, n - 1, c, v) \/ (Of(v) /\ r.action # "require")
             /\ Refusing(list, n, c, v) <=> Refusing(list, n - 1, c, v) \/ (Of(v) /\ r.action = "refuse")
             /\ Refusing(list, n - 1, c, v) => Deciding(list, n - 1, c, v)
             /\ Of(v) => ~Deciding(list, n - 1, c, v)
  <2>1. Deciding(list, n, c, v) <=> Deciding(list, n - 1, c, v) \/ (Of(v) /\ r.action # "require")
    BY <1>1 DEF Deciding
  <2>2. Refusing(list, n, c, v) <=> Refusing(list, n - 1, c, v) \/ (Of(v) /\ r.action = "refuse")
    BY <1>1 DEF Refusing
  <2>3. Refusing(list, n - 1, c, v) => Deciding(list, n - 1, c, v)
    BY DEF Refusing, Deciding
  <2>4. ASSUME Of(v), Deciding(list, n - 1, c, v) PROVE FALSE
    <3>1. PICK i \in 1..(n - 1) : list[i].code = c.code /\ list[i].value = v
      BY <2>4 DEF Deciding
    <3>2. SamePattern(list[i], list[n])
      BY <2>4, <3>1 DEF SamePattern
    <3> QED BY <1>1, <3>1, <3>2 DEF Distinct
  <2> QED BY <2>1, <2>2, <2>3, <2>4
<1>3. Matches(r, c) <=> Of(AnyValue) \/ Of(c.value)
  BY DEF Matches
<1>4. /\ found \in [refused : BOOLEAN, longest : BOOLEAN]
      /\ found.longest <=> c.value # AnyValue /\ Deciding(list, n - 1, c, c.value)
      /\ found.refused <=> \/ Refusing(list, n - 1, c, c.value)
                           \/ ~Deciding(list, n - 1, c, c.value) /\ Refusing(list, n - 1, c, AnyValue)
  BY DEF Judged
<1>5. new = IF ~Matches(r, c) \/ found.longest \/ r.action = "require" THEN found
            ELSE [refused |-> r.action = "refuse", longest |-> r.value # AnyValue]
  BY DEF Scan
<1>6. Of(AnyValue) => r.value = AnyValue
  OBVIOUS
<1>7. Of(c.value) => r.value = c.value
  OBVIOUS
<1>8. Of(AnyValue) /\ Of(c.value) => c.value = AnyValue
  OBVIOUS
<1> SUFFICES Judged(list, n, c, new)
  OBVIOUS
<1> HIDE DEF new, r, Of
<1>9. new \in [refused : BOOLEAN, longest : BOOLEAN]
  BY <1>4, <1>5
<1>10. CASE ~Matches(r, c) \/ found.longest \/ r.action = "require"
  <2>1. new = found
    BY <1>5, <1>10
  <2>2. Deciding(list, n, c, c.value) <=> Deciding(list, n - 1, c, c.value)
    BY <1>1, <1>2, <1>3, <1>4, <1>10
  <2>3. Refusing(list, n, c, c.value) <=> Refusing(list, n - 1, c, c.value)
    BY <1>1, <1>2, <1>3, <1>4, <1>10
  <2>4. ~Deciding(list, n, c, c.value) =>
          (Refusing(list, n, c, AnyValue) <=> Refusing(list, n - 1, c, AnyValue))
    BY <1>1, <1>2, <1>3, <1>4, <1>10, <2>2
  <2> QED BY <1>4, <2>1, <2>2, <2>3, <2>4 DEF Judged
<1>11. CASE Matches(r, c) /\ ~found.longest /\ r.action # "require"
  <2>1. new.refused = (r.action = "refuse") /\ new.longest = (r.value # AnyValue)
    BY <1>5, <1>11
  <2>2. CASE Of(c.value)
    <3>1. /\ Deciding(list, n, c, c.value)
          /\ Refusing(list, n, c, c.value) <=> r.action = "refuse"
      BY <1>2, <1>11, <2>2
    <3>2. new.longest <=> c.value # AnyValue
      BY <1>7, <2>1, <2>2
    <3> QED BY <1>9, <2>1, <3>1, <3>2 DEF Judged
  <2>3. CASE ~Of(c.value)
    <3>1. Of(AnyValue) /\ c.value # AnyValue
      BY <1>3, <1>11, <2>3
    <3>2. ~Deciding(list, n - 1, c, c.value) /\ ~Refusing(list, n - 1, c, c.value)
      BY <1>2, <1>4, <1>11, <3>1
    <3>3. ~Deciding(list, n, c, c.value) /\ ~Refusing(list, n, c, c.value)
      BY <1>2, <2>3, <3>2
    <3>4. Refusing(list, n, c, AnyValue) <=> r.action = "refuse"
      BY <1>2, <3>1
    <3>5. ~new.longest
      BY <1>6, <2>1, <3>1
    <3> QED BY <1>9, <2>1, <3>3, <3>4, <3>5 DEF Judged
  <2> QED BY <2>2, <2>3
<1> QED BY <1>10, <1>11

LEMMA ScannedIs ==
  ASSUME NEW list \in Seq(Rule), Distinct(list), NEW c
  PROVE  Judged(list, Len(list), c, Scanned(list, c))
<1> DEFINE n == Len(list)
           V == [refused : BOOLEAN, longest : BOOLEAN]
           first == [refused |-> FALSE, longest |-> FALSE]
           step == [x \in (1..n) \X V |-> Scan(c, x[2], list[x[1]])]
           Is(h) == h = [k \in 0..n |-> IF k = 0 THEN first ELSE Scan(c, h[k - 1], list[k])]
<1>0. n \in Nat /\ first \in V
  OBVIOUS
<1>1. ASSUME NEW r, NEW found \in V PROVE Scan(c, found, r) \in V
  BY DEF Scan
<1>2. Judged(list, 0, c, first)
  BY <1>0 DEF Judged, Deciding, Refusing
<1> HIDE DEF V, first
<1>3. step \in [(1..n) \X V -> V] /\ \A k \in 1..n, found \in V : step[<<k, found>>] = Scan(c, found, list[k])
  BY <1>1
<1> HIDE DEF step
<1>4. PICK h \in [0..n -> V] : h[0] = first /\ \A k \in 1..n : h[k] = step[<<k, h[k - 1]>>]
  <2>1. Recursive(n, V, first, step)
    BY <1>0, <1>3, Recursion
  <2> QED BY <2>1 DEF Recursive
<1>5. ASSUME NEW k \in 1..n PROVE h[k] = Scan(c, h[k - 1], list[k])
  <2>1. k - 1 \in 0..n
    BY <1>0
  <2>2. h[k - 1] \in V
    BY <1>4, <2>1
  <2> QED BY <1>3, <1>4, <2>2
<1>6. Is(h)
  <2>1. h = [k \in 0..n |-> h[k]]
    BY <1>4
  <2>2. ASSUME NEW k \in 0..n PROVE h[k] = IF k = 0 THEN first ELSE Scan(c, h[k - 1], list[k])
    BY <1>0, <1>4, <1>5
  <2> QED BY <2>1, <2>2, Zenon
<1> DEFINE g == CHOOSE h_ : Is(h_)
<1>7. Is(g)
  <2> HIDE DEF Is
  <2> QED BY <1>6
<1>8. Scanned(list, c) = g[n]
  BY DEF Scanned, first
<1> HIDE DEF g
<1>9. g[0] = first /\ \A k \in 1..n : g[k] = Scan(c, g[k - 1], list[k])
  BY <1>0, <1>7
<1>10. Judged(list, n, c, g[n])
  <2> DEFINE S == {k \in 0..n : Judged(list, k, c, g[k])}
  <2>1. 0 \in S
    BY <1>0, <1>2, <1>9
  <2>2. ASSUME NEW k \in 1..n, k - 1 \in S PROVE k \in S
    BY <2>2, <1>0, <1>9, ScanOne
  <2>3. \A k \in 0..n : k \in S
    <3> HIDE DEF S
    <3> QED BY <1>0, <2>1, <2>2, UpTo
  <2> QED BY <1>0, <2>3
<1> QED BY <1>8, <1>10

\* What a merged list holds is what the list decides.
LEMMA MergedDecides ==
  ASSUME NEW list \in Seq(Rule)
  PROVE  /\ Merged(list) \in Seq(Rule) /\ Distinct(Merged(list))
         /\ \A i \in 1..Len(Merged(list)) :
              /\ Merged(list)[i] \in ToSet(list)
              /\ \A pat : SamePattern(Merged(list)[i], pat) => ActionOf(list, pat) = Merged(list)[i].action
         /\ \A pat : (\A i \in 1..Len(Merged(list)) : ~SamePattern(Merged(list)[i], pat)) => ~Holds(list, pat)
<1> DEFINE m == Merged(list)
<1>1. Kept(list, Len(list), m) /\ Len(list) \in Nat
  BY MergedIs
<1> HIDE DEF m
<1>2. m \in Seq(Rule) /\ Distinct(m)
  BY <1>1 DEF Kept, Distinct
<1>3. ASSUME NEW i \in 1..Len(m)
      PROVE  m[i] \in ToSet(list) /\ \A pat : SamePattern(m[i], pat) => ActionOf(list, pat) = m[i].action
  <2>1. PICK k \in 1..Len(list) : m[i] = list[k] /\ Decides(list, list[k], k)
    BY <1>1 DEF Kept
  <2>2. m[i] \in ToSet(list)
    BY <2>1, ToSetIs
  <2>3. ASSUME NEW pat, SamePattern(m[i], pat) PROVE ActionOf(list, pat) = m[i].action
    <3>1. Decides(list, pat, k)
      BY <2>1, <2>3 DEF Decides, SamePattern
    <3> QED BY <1>1, <2>1, <3>1, FirstIs
  <2> QED BY <2>2, <2>3
<1>4. ASSUME NEW pat, Holds(list, pat) PROVE \E i \in 1..Len(m) : SamePattern(m[i], pat)
  <2>1. PICK k \in 1..Len(list) : SamePattern(list[k], pat)
    BY <1>4 DEF Holds
  <2>2. PICK i \in 1..Len(m) : SamePattern(m[i], list[k])
    BY <1>1 DEF Kept, Holds
  <2>3. SamePattern(m[i], pat)
    BY <2>1, <2>2 DEF SamePattern
  <2> QED BY <2>3
<1> QED BY <1>2, <1>3, <1>4 DEF m

\* For lists of any length and any offer, a session opens if and only if the nearest rule
\* of each pattern says so (getPeerReceiveCapabities, checkCapabilities).
THEOREM EverySessionOpensByTheRules == ConfigSpec => []OpensByTheRules
<1>1. ConfigIInv => OpensByTheRules
  <2> SUFFICES ASSUME ConfigIInv, NEW a \in Sound, NEW offered \in SUBSET Capabilities
               PROVE  Accepts(ReceiveRules(groups, peers[a]), offered) <=>
                        /\ \A c \in offered : ~Refused(peers[a], c)
                        /\ \A l \in ToSet(Levels(peers[a])) : \A r \in ToSet(l) :
                             Ruling(peers[a], r) = "require" => \E c \in offered : Matches(r, c)
    BY DEF OpensByTheRules
  <2> DEFINE p == peers[a]
  <2>1. PICK list \in Seq(Rule) :
           /\ ReceiveRules(groups, p) = Merged(list)
           /\ \A pat : Ruling(p, pat) = ActionOf(list, pat)
           /\ \A r : r \in ToSet(list) <=> \E l \in ToSet(Levels(p)) : r \in ToSet(l)
    BY LevelsAre
  <2> DEFINE m == Merged(list)
  <2>2. /\ m \in Seq(Rule) /\ Distinct(m)
        /\ \A i \in 1..Len(m) : /\ m[i] \in ToSet(list)
                                /\ \A pat : SamePattern(m[i], pat) => ActionOf(list, pat) = m[i].action
        /\ \A pat : (\A i \in 1..Len(m) : ~SamePattern(m[i], pat)) => ~Holds(list, pat)
    BY MergedDecides
  <2> HIDE DEF p, m
  <2>3. ASSUME NEW pat
        PROVE  \/ Ruling(p, pat) = "none" /\ \A i \in 1..Len(m) : ~SamePattern(m[i], pat)
               \/ \E i \in 1..Len(m) : SamePattern(m[i], pat) /\ Ruling(p, pat) = m[i].action
    BY <2>1, <2>2 DEF ActionOf
  <2>4. \A i \in 1..Len(m) : m[i].action \in {"refuse", "allow", "require"}
    <3>1. \A i \in 1..Len(m) : m[i] \in Rule
      BY <2>2
    <3> QED BY <3>1 DEF Rule
  <2>5. ASSUME NEW c, NEW v
        PROVE  LET ruling == Ruling(p, [code |-> c.code, value |-> v])
               IN /\ Refusing(m, Len(m), c, v) <=> ruling = "refuse"
                  /\ Deciding(m, Len(m), c, v) <=> ruling \in {"refuse", "allow"}
    <3> DEFINE pat == [code |-> c.code, value |-> v]
    <3>1. \A i \in 1..Len(m) : SamePattern(m[i], pat) <=> m[i].code = c.code /\ m[i].value = v
      BY DEF SamePattern
    <3>2. \/ Ruling(p, pat) = "none" /\ \A i \in 1..Len(m) : ~SamePattern(m[i], pat)
          \/ \E i \in 1..Len(m) : SamePattern(m[i], pat) /\ Ruling(p, pat) = m[i].action
      BY <2>3
    <3>3. \A i, j \in 1..Len(m) : SamePattern(m[i], pat) /\ SamePattern(m[j], pat) => i = j
      BY <2>2 DEF Distinct, SamePattern
    <3> HIDE DEF pat
    <3>4. CASE Ruling(p, pat) = "none" /\ \A i \in 1..Len(m) : ~SamePattern(m[i], pat)
      BY <3>1, <3>4 DEF Refusing, Deciding, pat
    <3>5. CASE \E i \in 1..Len(m) : SamePattern(m[i], pat) /\ Ruling(p, pat) = m[i].action
      <4>1. PICK i \in 1..Len(m) : SamePattern(m[i], pat) /\ Ruling(p, pat) = m[i].action
        BY <3>5
      <4>2. \A j \in 1..Len(m) : m[j].code = c.code /\ m[j].value = v <=> j = i
        BY <3>1, <3>3, <4>1
      <4>3. Refusing(m, Len(m), c, v) <=> m[i].action = "refuse"
        BY <4>2 DEF Refusing
      <4>4. Deciding(m, Len(m), c, v) <=> m[i].action # "require"
        BY <4>2 DEF Deciding
      <4> QED BY <2>4, <4>1, <4>3, <4>4 DEF pat
    <3> QED BY <3>2, <3>4, <3>5
  <2>6. ASSUME NEW c \in offered PROVE Scanned(m, c).refused <=> Refused(p, c)
    <3>1. Judged(m, Len(m), c, Scanned(m, c))
      BY <2>2, ScannedIs
    <3>2. Scanned(m, c).refused <=> \/ Refusing(m, Len(m), c, c.value)
                                    \/ ~Deciding(m, Len(m), c, c.value) /\ Refusing(m, Len(m), c, AnyValue)
      BY <3>1 DEF Judged
    <3> QED BY <2>5, <3>2 DEF Refused
  <2>7. (\A i \in 1..Len(m) : m[i].action = "require" => \E c \in offered : Matches(m[i], c))
        <=> \A r \in ToSet(list) : Ruling(p, r) = "require" => \E c \in offered : Matches(r, c)
    <3>1. ASSUME \A i \in 1..Len(m) : m[i].action = "require" => \E c \in offered : Matches(m[i], c),
                 NEW r \in ToSet(list), Ruling(p, r) = "require"
          PROVE  \E c \in offered : Matches(r, c)
      <4>1. PICK i \in 1..Len(m) : SamePattern(m[i], r) /\ Ruling(p, r) = m[i].action
        BY <2>3, <3>1
      <4>2. PICK c \in offered : Matches(m[i], c)
        BY <3>1, <4>1
      <4> QED BY <4>1, <4>2 DEF Matches, SamePattern
    <3>2. ASSUME \A r \in ToSet(list) : Ruling(p, r) = "require" => \E c \in offered : Matches(r, c),
                 NEW i \in 1..Len(m), m[i].action = "require"
          PROVE  \E c \in offered : Matches(m[i], c)
      <4>1. m[i] \in ToSet(list) /\ ActionOf(list, m[i]) = m[i].action
        BY <2>2 DEF SamePattern
      <4> QED BY <2>1, <3>2, <4>1
    <3> QED BY <3>1, <3>2
  <2>8. Accepts(m, offered) <=> /\ \A c \in offered : ~Refused(p, c)
                                /\ \A r \in ToSet(list) : Ruling(p, r) = "require" => \E c \in offered : Matches(r, c)
    BY <2>6, <2>7 DEF Accepts
  <2> QED BY <2>1, <2>8 DEF p, m
<1> QED BY <1>1, ConfigInitInv, ConfigNextInv, PTL DEF ConfigSpec
=============================================================================
