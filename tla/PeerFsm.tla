------------------------------ MODULE PeerFsm ------------------------------
(***************************************************************************)
(* One peer's thread in real time: the BGP finite state machine, its three *)
(* timers, the socket and the blocking reads.  A tick is a second.  The    *)
(* thread takes no time itself; it waits in select until its earliest timer*)
(* or until data come, and in read for the rest of a message.              *)
(***************************************************************************)
EXTENDS Integers, FiniteSets

CONSTANTS
  LocalHoldTimes,   \* values of the peer's local hold time in the configuration
  HoldTimes,        \* hold times the peer offers
  ConnectRetryInt,  \* defaultConnectRetryTime
  MaxBackoff,       \* the longest wait between two attempts
  RcvTimeo,         \* SO_RCVTIMEO of the socket
  MaxStalls,        \* bound: how often one message stalls on the way
  MaxInbox,         \* bound: messages in the socket's buffer
  MaxRetries,       \* bound: where the count of retries stops
  MaxPending,       \* bound: requests pending at once
  MaxAgo,           \* bound: where the histories of time stop
  Requests          \* what other threads ask for: "reconnect", "refresh"

ASSUME PeerFsmAssumption ==
  /\ LocalHoldTimes \subseteq Nat \ {0} /\ HoldTimes \subseteq Nat
  /\ LocalHoldTimes # {} /\ HoldTimes # {}
  /\ {ConnectRetryInt, MaxBackoff, RcvTimeo, MaxStalls, MaxInbox, MaxRetries, MaxPending, MaxAgo}
       \subseteq Nat \ {0}
  /\ Requests \subseteq {"reconnect", "refresh"}

VARIABLES
  s,          \* the session: fsm, stats.connectRetryCount, configInUse.localHoldtime
  inbox,      \* how many messages are in the socket's buffer, complete or not
  reading,    \* a read that blocks: seconds until SO_RCVTIMEO, stalls left
  flags,      \* requests pending: reconnectFlag, fsm.routeRefreshFlag
  heard,      \* history: seconds since a byte was taken from the socket
  sent,       \* history: seconds since a message was sent to the peer
  told        \* history: code of the NOTIFICATION sent by the last step, or 0

vars == <<s, inbox, reading, flags, heard, sent, told>>

Off == -1        \* a timer that is zero; others count the seconds to their time
NotReading == [left |-> Off, stalls |-> 0]
OpenStates == {"OpenSent", "OpenConfirm", "Established"}
TheMin(S) == CHOOSE n \in S : \A k \in S : n <= k

\* What a message turns out to be when it is read.
Message == [type : {"OPEN"}, hold : HoldTimes, refresh : BOOLEAN]
           \cup [type : {"OPEN_REFUSED", "KEEPALIVE", "UPDATE", "NOTIFICATION", "OTHER", "BAD"}]

(***************************************************************************)
(* Timers.                                                                 *)
(***************************************************************************)
Jitter(n) == {(n * factor) \div 100 : factor \in 75..100}

\* restartSessionConnectRetryTimer: the more failures, the longer.
Backoff(r) == Jitter(TheMin({MaxBackoff, ConnectRetryInt * r.retries}))

Timers(r) == {r.connectRetryTimer, r.keepaliveTimer, r.holdTimer} \ {Off}

\* sessionTimer: select waits that long.
SessionTimer(r) == IF Timers(r) = {} THEN 0 ELSE TheMin(Timers(r))

Expires(t) == t # Off /\ t <= 1

\* Mutant: the hold timer is not looked at.
CheckTimers_NoHold(r) ==
  IF Expires(r.connectRetryTimer) THEN "ConnectRetryTimer"
  ELSE IF Expires(r.keepaliveTimer) THEN "KeepaliveTimer" ELSE "None"

\* checkTimers: one event at a time, in this order.
CheckTimers(r) ==
  IF Expires(r.connectRetryTimer) THEN "ConnectRetryTimer"
  ELSE IF Expires(r.keepaliveTimer) THEN "KeepaliveTimer"
  ELSE IF Expires(r.holdTimer) THEN "HoldTimer" ELSE "None"

\* nextStepOfSession does not wait, or no longer.
Ready(r) == \/ r.state = "Idle"
            \/ SessionTimer(r) <= 0
            \/ r.socket /\ inbox > 0

(***************************************************************************)
(* The session.                                                            *)
(***************************************************************************)
\* createSessionStruct, with the peer's configuration, which may have been
\* changed at any time.
NewSessions ==
  {[state |-> "Idle", socket |-> FALSE, capabilities |-> FALSE, refresh |-> FALSE,
    connectRetryTimer |-> Off, keepaliveTimer |-> Off, holdTimer |-> Off,
    holdTime |-> hold, largeHoldTime |-> 3 * hold, keepaliveInt |-> hold \div 3,
    localHoldtime |-> hold, retries |-> 0] : hold \in LocalHoldTimes}

\* setSessionConfigInUse for a session that exists: its intervals stay.
TakeConfig(r) == {[r EXCEPT !.localHoldtime = hold] : hold \in LocalHoldTimes}

\* resetSession.
Reset(r) ==
  [r EXCEPT !.state = "Idle", !.socket = FALSE, !.capabilities = FALSE,
            !.connectRetryTimer = Off, !.keepaliveTimer = Off, !.holdTimer = Off,
            !.retries = TheMin({@ + 1, MaxRetries})]

\* The session ends with this step and another is made, by peerThreadFunction.
Over(r) == "reconnect" \in flags \/ (s.state # "Connect" /\ r.state = "Idle")

\* What the loop does after the state machine has left the session as r: a
\* session is replaced when it is over, and one that bounces between Idle and
\* Connect takes the configuration anew.
AfterFsm(r) ==
  IF Over(r) THEN NewSessions
  ELSE IF r.state = "Connect" /\ r.retries # 0 THEN TakeConfig(r)
  ELSE {r}

Refreshes(r) == "refresh" \in flags /\ r.state = "Established"

\* A route refresh request: sent (nothing is, to a peer that knows none), or
\* the session is reset, in which case it is not replaced.
EndOfLoop(r) == IF ~Refreshes(r) THEN {r} ELSE IF r.refresh THEN {r, Reset(r)} ELSE {r}

\* One turn of the peer's thread ends with the session as r.
Turn(r) ==
  /\ \E q \in AfterFsm(r) : s' \in EndOfLoop(q)
  /\ flags' = IF Over(r) THEN {}                      \* they were the old session's
              ELSE IF Refreshes(r) THEN flags \ {"refresh"} ELSE flags

\* What is left to read: nothing of a connection that is closed.
Rest(n) == inbox' = IF s'.socket THEN n ELSE 0

SentNothing == sent' = sent
SentSomething == sent' = 0

(***************************************************************************)
(* The state machine.                                                      *)
(***************************************************************************)
FsmIdle ==
  /\ s.state = "Idle"
  /\ \E delay \in Backoff(s) :
       Turn([s EXCEPT !.state = "Connect", !.connectRetryTimer = delay,
                      !.keepaliveTimer = Off, !.holdTimer = Off])
  /\ Rest(0)
  /\ told' = 0
  /\ SentNothing
  /\ UNCHANGED <<reading, heard>>

\* completeConnection, when it fails: in some of its errors the socket is open.
CompleteConnection(r) == {[r EXCEPT !.socket = open] : open \in BOOLEAN}

\* The OPEN is sent, or the new connection is reset at once.
SendOpenMessage(r) == \/ Turn(r) /\ SentSomething /\ heard' = 0
                      \/ Turn(Reset(r)) /\ UNCHANGED <<heard, sent>>

FsmConnect ==
  /\ s.state = "Connect"
  /\ Ready(s) /\ CheckTimers(s) = "ConnectRetryTimer"
  /\ \/ /\ \E r \in CompleteConnection(s) : Turn(Reset(r))
        /\ UNCHANGED <<heard, sent>>
     \/ \E delay \in Jitter(s.largeHoldTime) :
          SendOpenMessage([s EXCEPT !.state = "OpenSent", !.socket = TRUE, !.retries = 0,
                                    !.connectRetryTimer = Off, !.holdTimer = delay])
  /\ Rest(0)
  /\ told' = 0
  /\ UNCHANGED reading

\* The code sent with a NOTIFICATION before a reset, 0 when none is: fsmOpenSent
\* answers even a NOTIFICATION, and what is wrong with an OPEN has been told by
\* checkOpenMessage or checkCapabilities.
Code(state, event) ==
  IF event = "BGPOpenMsgErr" THEN 2
  ELSE IF event = "HoldTimer" THEN 4
  ELSE IF event = "NotificationMessage" /\ state # "OpenSent" THEN 0
  ELSE IF event = "BGPHeaderErr" THEN 1
  ELSE IF event = "UpdateMsgErr" THEN 3
  ELSE 5

ResetFor(event) ==
  /\ Turn(Reset(s))
  /\ told' = Code(s.state, event)
  /\ sent' = IF told' = 0 THEN sent ELSE 0

\* A keepalive is sent with the session as r, or cannot be.
SendKeepalive(r) ==
  /\ told' = 0
  /\ \/ Turn(r) /\ SentSomething
     \/ Turn(Reset(r)) /\ SentNothing

\* Mutant: the keepalive timer is left as it is.
KeepaliveTimerExpires_Again(r) == {r}

\* Mutant: the wrong interval.
KeepaliveTimerExpires_HoldTime(r) ==
  {[r EXCEPT !.keepaliveTimer = delay] : delay \in Jitter(r.holdTime)}

\* restartSessionKeepaliveTimer.
KeepaliveTimerExpires(r) == {[r EXCEPT !.keepaliveTimer = delay] : delay \in Jitter(r.keepaliveInt)}

\* receiveOpenMessage, receiveKeepaliveMessage, receiveBGPMessage: an expired
\* timer comes before any data.
FsmTimer ==
  /\ s.state \in OpenStates
  /\ reading = NotReading /\ Ready(s)
  /\ \/ /\ CheckTimers(s) = "KeepaliveTimer"
        /\ \E r \in KeepaliveTimerExpires(s) : SendKeepalive(r)
     \/ CheckTimers(s) = "HoldTimer" /\ ResetFor("HoldTimer")
  /\ Rest(inbox)
  /\ UNCHANGED <<reading, heard>>

\* The hold time is the smaller one; the intervals follow only when it shrinks.
Negotiated(r, m) ==
  IF r.holdTime > m.hold THEN [r EXCEPT !.holdTime = m.hold, !.keepaliveInt = m.hold \div 3] ELSE r

\* Mutant: the long hold time goes on.
RestartHold_Large(r, m) == {[r EXCEPT !.holdTimer = delay] : delay \in Jitter(r.largeHoldTime)}

RestartHold(r, m) == {[r EXCEPT !.holdTimer = delay] : delay \in Jitter(r.holdTime)}

\* The events that a message is in each of the states, its body read or not.
Common(m, other) == CASE m.type = "NOTIFICATION" -> "NotificationMessage"
                      [] m.type = "BAD" -> "TcpConnectionFails"
                      [] OTHER -> other

ReceiveOpenMessage(m) == CASE m.type = "OPEN" -> "BGPOpen"
                           [] m.type = "OPEN_REFUSED" -> "BGPOpenMsgErr"
                           [] OTHER -> Common(m, "BGPFSMErr")

ReceiveKeepaliveMessage(m) ==
  IF m.type = "KEEPALIVE" THEN "KeepaliveMsg" ELSE Common(m, "BGPHeaderErr")

ReceiveBGPMessage(m) == CASE m.type = "KEEPALIVE" -> "KeepaliveMsg"
                          [] m.type = "UPDATE" -> "UpdateMsg"
                          [] OTHER -> Common(m, "UpdateMsgErr")

OpenSentGets(m) ==
  IF ReceiveOpenMessage(m) = "BGPOpen"
  THEN LET n == Negotiated(s, m) IN
       \E k \in Jitter(n.keepaliveInt) : \E r \in RestartHold(n, m) :
         SendKeepalive([r EXCEPT !.state = "OpenConfirm", !.connectRetryTimer = Off,
                                 !.capabilities = TRUE, !.refresh = m.refresh,
                                 !.keepaliveTimer = k])
  ELSE ResetFor(ReceiveOpenMessage(m))

OpenConfirmGets(m) ==
  IF ReceiveKeepaliveMessage(m) = "KeepaliveMsg"
  THEN /\ \E r \in RestartHold(s, m) : Turn([r EXCEPT !.state = "Established"])
       /\ told' = 0
       /\ SentNothing
  ELSE ResetFor(ReceiveKeepaliveMessage(m))

EstablishedGets(m) ==
  IF ReceiveBGPMessage(m) \in {"KeepaliveMsg", "UpdateMsg"}
  THEN /\ \E r \in RestartHold(s, m) :
            Turn([r EXCEPT !.retries = IF m.type = "UPDATE" THEN 0 ELSE @])
       /\ told' = 0
       /\ SentNothing
  ELSE ResetFor(ReceiveBGPMessage(m))

\* A message is read to its end and handled.
Gets(m) ==
  /\ \/ s.state = "OpenSent" /\ OpenSentGets(m)
     \/ s.state = "OpenConfirm" /\ OpenConfirmGets(m)
     \/ s.state = "Established" /\ EstablishedGets(m)
  /\ Rest(inbox - 1)
  /\ reading' = NotReading
  /\ heard' = 0

\* The rest of the message is still to come, in n pieces.
Blocks(n) ==
  /\ reading' = [left |-> RcvTimeo, stalls |-> n]
  /\ heard' = 0
  /\ told' = 0
  /\ UNCHANGED <<s, inbox, flags, sent>>

FsmRead ==
  /\ s.state \in OpenStates
  /\ reading = NotReading /\ inbox > 0 /\ CheckTimers(s) = "None"
  /\ \/ \E m \in Message : Gets(m)
     \/ \E n \in 1..MaxStalls : Blocks(n)

\* More of the message arrives: the rest of it, or the next stall begins.
MoreArrives ==
  /\ reading.left > 0
  /\ \/ reading.stalls = 1 /\ \E m \in Message : Gets(m)
     \/ reading.stalls > 1 /\ Blocks(reading.stalls - 1)

\* readn gives up: the connection counts as failed.
ReadTimesOut ==
  /\ reading.left = 0
  /\ ResetFor("TcpConnectionFails")
  /\ Rest(inbox - 1)
  /\ reading' = NotReading
  /\ UNCHANGED heard

Fsm == FsmIdle \/ FsmConnect \/ FsmTimer \/ FsmRead \/ ReadTimesOut

(***************************************************************************)
(* Around the thread.                                                      *)
(***************************************************************************)
PeerSends ==
  /\ s.socket /\ inbox < MaxInbox
  /\ inbox' = inbox + 1
  /\ told' = 0
  /\ UNCHANGED <<s, reading, flags, heard, sent>>

\* The command line reconnects the peer, the periodic thread wants a refresh.
Request ==
  /\ Cardinality(flags) < MaxPending
  /\ \E f \in Requests \ flags : flags' = flags \cup {f}
  /\ told' = 0
  /\ UNCHANGED <<s, inbox, reading, heard, sent>>

Less(t) == IF t > 0 THEN t - 1 ELSE t
Older(n) == TheMin({n + 1, MaxAgo})

\* With an interval of one second or none (a hold time below six) the keepalive
\* timer has expired as soon as it is restarted, for whatever delay is drawn.
AlwaysDue(r) == r.keepaliveTimer # Off /\ \A delay \in Jitter(r.keepaliveInt) : Expires(delay)

\* The thread turns without waiting, one keepalive after the other, and time goes on.
Spins(r) == AlwaysDue(r) /\ sent = 0

\* A second goes by while the thread waits in select or in read, or spins.
Tick ==
  /\ IF reading = NotReading THEN ~Ready(s) \/ Spins(s) ELSE reading.left > 0
  /\ s' = [s EXCEPT !.connectRetryTimer = Less(@), !.keepaliveTimer = Less(@),
                    !.holdTimer = Less(@)]
  /\ reading' = [reading EXCEPT !.left = Less(@)]
  /\ heard' = Older(heard) /\ sent' = Older(sent)
  /\ told' = 0
  /\ UNCHANGED <<inbox, flags>>

Init ==
  /\ s \in NewSessions
  /\ inbox = 0 /\ reading = NotReading /\ flags = {}
  /\ heard = 0 /\ sent = 0 /\ told = 0

Next == Fsm \/ MoreArrives \/ PeerSends \/ Request \/ Tick

Spec == Init /\ [][Next]_vars

\* The thread runs and time goes on, and jitter does not draw a delay that has
\* expired for ever when it could draw another; nothing is asked of the peer.
FairSpec == Spec /\ WF_vars(Fsm) /\ WF_vars(Tick) /\ WF_vars(FsmTimer /\ s'.keepaliveTimer > 1)

(***************************************************************************)
(* Properties.                                                             *)
(***************************************************************************)
\* ResourcesByState: the socket is open, the capabilities are known and each
\* timer is armed in exactly the states that use it, through every reset,
\* failed refresh and new session.  So fsmConnect never meets another timer
\* (its log_fatal), the thread goes into read only for data, no descriptor leaks, and a refresh has capabilities to use.
ResourcesByState ==
  /\ s.socket <=> s.state \in OpenStates
  /\ s.capabilities <=> s.state \in {"OpenConfirm", "Established"}
  /\ s.connectRetryTimer # Off <=> s.state = "Connect"
  /\ s.keepaliveTimer # Off <=> s.state \in {"OpenConfirm", "Established"}
  /\ s.holdTimer # Off <=> s.state \in OpenStates
  /\ s.state = "Connect" /\ Ready(s) => CheckTimers(s) = "ConnectRetryTimer"
  /\ s.state \in OpenStates /\ reading = NotReading /\ Ready(s) /\ inbox = 0
       => CheckTimers(s) # "None"
  /\ reading # NotReading => s.state \in OpenStates /\ inbox > 0

\* SilentPeerDropped: a peer from which nothing has come for the hold time
\* (three times that before its OPEN) is dropped, later only by what a read
\* that blocks takes.  Not when the keepalive timer is always due, which is
\* served before the hold timer: such a peer may be silent for ever.
SilentPeerDropped ==
  s.socket /\ ~AlwaysDue(s) => heard <= RcvTimeo + (IF s.state = "OpenSent" THEN s.largeHoldTime ELSE s.holdTime)

\* KeepalivesInTime: an established peer waits for a message no longer than the
\* keepalive interval and the reads that block in it, for any hold time.
KeepalivesInTime ==
  s.state \in {"OpenConfirm", "Established"} => sent <= s.keepaliveInt + MaxStalls * RcvTimeo

\* DataAreRead: what the peer sends is read, or the connection closed: timers
\* that expire again and again do not keep the thread from its data, unless the
\* hold time agreed on is below six and the keepalive timer always due.
DataAreRead == (inbox = MaxInbox) ~> (inbox < MaxInbox \/ AlwaysDue(s))
=============================================================================
