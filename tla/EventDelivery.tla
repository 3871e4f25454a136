---------------------------- MODULE EventDelivery ----------------------------
(* What the in-process event bus promises, with no driver objects, no        *)
(* microtask queue and no swap protocol: one set of subscriptions, and       *)
(* publications that owe exactly one call to every subscription that         *)
(* matched when they were made, whatever happens to the subscriptions        *)
(* afterwards.  An acknowledgement comes only when nothing is owed.          *)
EXTENDS Integers

CONSTANTS Subscription,   \* pattern and listener pairs
          Event,          \* event names
          Match,          \* Match[s][ev]: subscription s wants event ev
          Emission        \* publications, numbered in the order they are made

VARIABLES registered,     \* the subscriptions in force
          published,      \* number of publications made
          owed,           \* owed[e]: the calls publication e must make
          handled,        \* handled[e]: the calls it has completed
          acked           \* the publications whose promise has resolved

dvars == <<registered, published, owed, handled, acked>>

DInit ==
    /\ registered = {}
    /\ published = 0
    /\ owed = [e \in Emission |-> {}]
    /\ handled = [e \in Emission |-> {}]
    /\ acked = {}

Subscribe ==
    /\ \E s \in Subscription : registered' = registered \cup {s}
    /\ UNCHANGED <<published, owed, handled, acked>>

Unsubscribe ==
    /\ \E s \in Subscription : registered' = registered \ {s}
    /\ UNCHANGED <<published, owed, handled, acked>>

\* Closing or replacing a driver forgets every subscription at once.
Forget ==
    /\ registered' = {}
    /\ UNCHANGED <<published, owed, handled, acked>>

Publish(ev) ==
    /\ published + 1 \in Emission
    /\ published' = published + 1
    /\ owed' = [owed EXCEPT ![published'] = {s \in registered : Match[s][ev]}]
    /\ UNCHANGED <<registered, handled, acked>>

Handle(e, s) ==
    /\ s \in owed[e] \ handled[e]
    /\ handled' = [handled EXCEPT ![e] = @ \cup {s}]
    /\ UNCHANGED <<registered, published, owed, acked>>

Ack(e) ==
    /\ e \in 1..published
    /\ e \notin acked
    /\ handled[e] = owed[e]
    /\ acked' = acked \cup {e}
    /\ UNCHANGED <<registered, published, owed, handled>>

DNext ==
    \/ Subscribe \/ Unsubscribe \/ Forget
    \/ \E ev \in Event : Publish(ev)
    \/ \E e \in Emission, s \in Subscription : Handle(e, s)
    \/ \E e \in Emission : Ack(e)

DSpec == DInit /\ [][DNext]_dvars
=============================================================================
