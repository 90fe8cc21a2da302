---------------------------- MODULE EventBroker ----------------------------
(***************************************************************************)
(* The broker with its users: the notification loop that publishes and in  *)
(* the end closes it, Client.Close, and subscribers that subscribe,        *)
(* receive and close their subscription, in any order and at any speed.    *)
(* The history variables record what was published, where in that log a    *)
(* subscription began, and what its owner received.                        *)
(***************************************************************************)
EXTENDS Broker

CONSTANTS Events,    \* the events
          MaxEvents  \* bound: events published

ASSUME BrokerAssumption == Cap \in Nat /\ MaxEvents \in Nat

VARIABLES broker,
          made,      \* subscriptions that have been made
          log, from, got

vars == <<broker, made, log, from, got>>

Init ==
  /\ broker = newEventBroker /\ made = {} /\ log = <<>>
  /\ from = [s \in Subs |-> 0] /\ got = [s \in Subs |-> <<>>]

Subscribes(s) ==
  /\ s \notin made
  /\ broker' = Subscribe(broker, s)
  /\ made' = made \cup {s} /\ from' = [from EXCEPT ![s] = Len(log)]
  /\ UNCHANGED <<log, got>>

Publishes(e) ==
  /\ Len(log) < MaxEvents
  /\ broker' = publish(broker, e)
  /\ log' = IF broker.closed THEN log ELSE Append(log, e)
  /\ UNCHANGED <<made, from, got>>

Receives(s) ==
  /\ s \in made /\ Receivable(broker, s)
  /\ broker' = Received(broker, s)
  /\ got' = [got EXCEPT ![s] = Append(@, Oldest(broker, s))]
  /\ UNCHANGED <<made, log, from>>

\* Close on a subscription may be repeated, and may come at any time.
Unsubscribes(s) ==
  /\ s \in made
  /\ broker' = unsubscribe(broker, s)
  /\ UNCHANGED <<made, log, from, got>>

\* Both Client.Close and the end of the notification loop close the broker.
Closes == broker' = close(broker) /\ UNCHANGED <<made, log, from, got>>

Next ==
  \/ \E s \in Subs : Subscribes(s) \/ Receives(s) \/ Unsubscribes(s)
  \/ \E e \in Events : Publishes(e)
  \/ Closes

Spec == Init /\ [][Next]_vars

-----------------------------------------------------------------------------
\* Type invariant, with the capacity of the channels.
TypeOK ==
  /\ broker \in Brokers(Events) /\ \A s \in Subs : Len(broker.ch[s].buf) <= Cap
  /\ made \subseteq Subs /\ log \in Seq(Events)
  /\ from \in [Subs -> Nat] /\ got \in [Subs -> Seq(Events)]

\* No channel is closed twice or sent to after it was closed, whichever of an
\* overflow in publish, unsubscribe and close comes first: a registered
\* channel is open, and no close is repeated.
NoPanic ==
  \A s \in Subs : broker.ch[s].closes <= 1 /\ (s \in broker.subs => broker.ch[s].closes = 0)

\* A subscriber never sees a gap: what it received, then what is buffered for
\* it, is the log from the point of its subscription, all of it as long as it
\* is registered; one that cannot keep up is cut off, it does not skip events.
NoGaps ==
  \A s \in made :
    /\ \A i \in 1..Len(got[s]) : from[s] + i <= Len(log) /\ got[s][i] = log[from[s] + i]
    /\ \A i \in 1..Len(broker.ch[s].buf) :
         /\ from[s] + Len(got[s]) + i <= Len(log)
         /\ broker.ch[s].buf[i] = log[from[s] + Len(got[s]) + i]
    /\ s \in broker.subs => from[s] + Len(got[s]) + Len(broker.ch[s].buf) = Len(log)

\* Whoever is not registered any more, or subscribed too late, has a closed
\* channel, so that a range over it ends; with the broker closed, that is
\* everyone.
NobodyLeftWaiting ==
  /\ \A s \in made \ broker.subs : broker.ch[s].closes > 0
  /\ broker.closed => broker.subs = {}
=============================================================================
