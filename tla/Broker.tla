------------------------------- MODULE Broker -------------------------------
(***************************************************************************)
(* The event broker of the client (events.go) as operators on its state.   *)
(* Every method runs under b.mu from beginning to end, so each is one      *)
(* function from broker to broker.  A subscription stands for its id and   *)
(* its channel; closes counts the close() calls on the channel, because a  *)
(* second one, or a send after the first, panics.                          *)
(***************************************************************************)
EXTENDS Integers, Sequences

CONSTANTS Subs, \* the subscriptions
          Cap   \* capacity of a subscription's channel (128 in the code)

newEventBroker ==
  [closed |-> FALSE, subs |-> {}, ch |-> [s \in Subs |-> [buf |-> <<>>, closes |-> 0]]]

\* A send on the channel would not block.
HasRoom(c) == Len(c.buf) < Cap

Closing(c) == [c EXCEPT !.closes = @ + 1]

\* A subscription to a closed broker gets a closed channel and no id.
FaultSubscribeAfterClose(b, s) == [b EXCEPT !.subs = @ \cup {s}] \* seeded fault
Subscribe(b, s) ==
  IF b.closed THEN [b EXCEPT !.ch[s] = Closing(@)]
  ELSE [b EXCEPT !.subs = @ \cup {s}]

\* A subscriber with no room is closed and removed: publish never blocks.
FaultPublishSkips(b, e) == \* seeded fault: a full subscriber misses the event and stays
  IF b.closed THEN b
  ELSE [b EXCEPT !.ch = [s \in Subs |->
          IF s \in b.subs /\ HasRoom(b.ch[s])
          THEN [b.ch[s] EXCEPT !.buf = Append(@, e)] ELSE b.ch[s]]]
publish(b, e) ==
  IF b.closed THEN b
  ELSE [b EXCEPT
          !.subs = {s \in b.subs : HasRoom(b.ch[s])},
          !.ch = [s \in Subs |->
                    IF s \notin b.subs THEN b.ch[s]
                    ELSE IF HasRoom(b.ch[s]) THEN [b.ch[s] EXCEPT !.buf = Append(@, e)]
                    ELSE Closing(b.ch[s])]]

close(b) ==
  IF b.closed THEN b
  ELSE [closed |-> TRUE, subs |-> {},
        ch |-> [s \in Subs |-> IF s \in b.subs THEN Closing(b.ch[s]) ELSE b.ch[s]]]

\* EventSubscription.Close; only a subscription that is still registered is
\* closed.
FaultUnsubscribeTwice(b, s) == \* seeded fault: the id is not looked up
  [b EXCEPT !.subs = @ \ {s}, !.ch[s] = Closing(@)]
unsubscribe(b, s) ==
  IF s \in b.subs THEN [b EXCEPT !.subs = @ \ {s}, !.ch[s] = Closing(@)] ELSE b

\* Receiving from the channel: what is buffered comes out even once it is closed.
Receivable(b, s) == b.ch[s].buf # <<>>
Oldest(b, s) == Head(b.ch[s].buf)
Received(b, s) == [b EXCEPT !.ch[s].buf = Tail(@)]
Exhausted(b, s) == b.ch[s].buf = <<>> /\ b.ch[s].closes > 0

\* The states of a broker for a set of events.
Brokers(Events) ==
  [closed : BOOLEAN, subs : SUBSET Subs, ch : [Subs -> [buf : Seq(Events), closes : Nat]]]
=============================================================================
