------------------------------- MODULE PubSub -------------------------------
(***************************************************************************)
(* What a BGPmon queue promises (the comment of Queues/queueinternal.h): a *)
(* publish/subscribe log.  An item is published once and stored until all  *)
(* subscribers have read it; a subscriber is given the items in the order  *)
(* of publication, each at most once; a slowest subscriber, and no other,  *)
(* may be made to skip items so that no more than Capacity are stored.     *)
(***************************************************************************)
EXTENDS Integers

CONSTANTS Subscribers, Capacity

None == -1

VARIABLES
  published,   \* how many items have been published; items are 0, 1, 2, ...
  cursor,      \* the next item of each subscriber, or None
  stored,      \* the items in memory
  inbox        \* the item a subscriber has been given, or None

vars == <<published, cursor, stored, inbox>>

Subscribed == {s \in Subscribers : cursor[s] # None}
Slowest(s) == s \in Subscribed /\ \A t \in Subscribed : cursor[s] <= cursor[t]

\* An item is stored exactly while some subscriber has still to read it.
Keep == stored' = {k \in 0..(published' - 1) :
                     \E s \in Subscribers : cursor'[s] # None /\ cursor'[s] <= k}

Init ==
  /\ published = 0
  /\ cursor = [s \in Subscribers |-> None]
  /\ stored = {}
  /\ inbox = [s \in Subscribers |-> None]

\* A new subscriber may be given items that are stored already.
Join(s) ==
  /\ cursor[s] = None
  /\ \E p \in stored \cup {published} : cursor' = [cursor EXCEPT ![s] = p]
  /\ Keep
  /\ UNCHANGED <<published, inbox>>

Leave(s) ==
  /\ cursor[s] # None
  /\ cursor' = [cursor EXCEPT ![s] = None]
  /\ Keep
  /\ UNCHANGED <<published, inbox>>

\* Nothing is published when nobody is subscribed.
Publish ==
  /\ Subscribed # {}
  /\ \A s \in Subscribed : published - cursor[s] < Capacity
  /\ published' = published + 1
  /\ Keep
  /\ UNCHANGED <<cursor, inbox>>

Deliver(s) ==
  /\ cursor[s] # None /\ cursor[s] < published
  /\ inbox' = [inbox EXCEPT ![s] = cursor[s]]
  /\ cursor' = [cursor EXCEPT ![s] = @ + 1]
  /\ Keep
  /\ UNCHANGED published

Consume(s) ==
  /\ inbox' = [inbox EXCEPT ![s] = None]
  /\ UNCHANGED <<published, cursor, stored>>

Skip(s) ==
  /\ Slowest(s)
  /\ \E p \in (cursor[s] + 1)..published : cursor' = [cursor EXCEPT ![s] = p]
  /\ Keep
  /\ UNCHANGED <<published, inbox>>

Next == \/ Publish
        \/ \E s \in Subscribers :
             Join(s) \/ Leave(s) \/ Deliver(s) \/ Consume(s) \/ Skip(s)

Spec == Init /\ [][Next]_vars
=============================================================================
