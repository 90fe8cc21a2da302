------------------------- MODULE EventBrokerProofs -------------------------
(***************************************************************************)
(* Proofs about EventBroker, for every set of subscriptions and events and *)
(* every channel capacity.                                                 *)
(***************************************************************************)
EXTENDS EventBroker, TLAPS

\* A subscription that has not been made has an untouched channel, so the
\* first close of it is the only one.
Fresh == \A s \in Subs \ made : /\ s \notin broker.subs /\ got[s] = <<>>
                                /\ broker.ch[s].buf = <<>> /\ broker.ch[s].closes = 0

\* NoGaps for one subscription.
GapFree(s) ==
  /\ \A i \in 1..Len(got[s]) : from[s] + i <= Len(log) /\ got[s][i] = log[from[s] + i]
  /\ \A i \in 1..Len(broker.ch[s].buf) :
       /\ from[s] + Len(got[s]) + i <= Len(log)
       /\ broker.ch[s].buf[i] = log[from[s] + Len(got[s]) + i]
  /\ s \in broker.subs => from[s] + Len(got[s]) + Len(broker.ch[s].buf) = Len(log)

Channel == [buf : Seq(Events), closes : Nat]

IInv == TypeOK /\ Fresh /\ NoPanic /\ NoGaps /\ NobodyLeftWaiting

\* The parts of a broker and of the history have their types.
LEMMA TypeFacts ==
  ASSUME TypeOK
  PROVE  /\ broker = [closed |-> broker.closed, subs |-> broker.subs, ch |-> broker.ch]
         /\ broker.closed \in BOOLEAN /\ broker.subs \subseteq Subs
         /\ broker.ch \in [Subs -> Channel]
         /\ \A s \in Subs : /\ broker.ch[s] \in Channel /\ broker.ch[s].buf \in Seq(Events)
                            /\ broker.ch[s].closes \in Nat /\ Len(broker.ch[s].buf) <= Cap
                            /\ from[s] \in Nat /\ got[s] \in Seq(Events)
BY DEF TypeOK, Brokers, Channel

\* What it takes to show the type of a broker.
LEMMA BrokerType ==
  ASSUME NEW c \in BOOLEAN, NEW S \in SUBSET Subs, NEW f \in [Subs -> Channel]
  PROVE  [closed |-> c, subs |-> S, ch |-> f] \in Brokers(Events)
BY DEF Brokers, Channel

\* close() on a channel changes nothing but the count.
LEMMA ClosingFields ==
  ASSUME NEW c \in Channel
  PROVE  /\ Closing(c) \in Channel /\ Closing(c).buf = c.buf
         /\ Closing(c).closes = c.closes + 1
BY DEF Closing, Channel

\* Closing channels, or deregistering, opens no gap.
LEMMA GapFrame ==
  ASSUME TypeOK, NoGaps, UNCHANGED <<made, log, from, got>>,
         broker'.subs \subseteq broker.subs,
         \A t \in Subs : broker'.ch[t].buf = broker.ch[t].buf
  PROVE  NoGaps'
<1> SUFFICES ASSUME NEW t \in made PROVE GapFree(t)'
  BY DEF NoGaps, GapFree
<1>1. t \in Subs /\ GapFree(t)
  BY DEF TypeOK, NoGaps, GapFree
<1>2. broker'.ch[t].buf = broker.ch[t].buf /\ (t \in broker'.subs => t \in broker.subs)
  BY <1>1
<1> QED
  BY <1>1, <1>2 DEF GapFree

\* Receiving moves one event from the buffered to the received.
LEMMA Regroup ==
  ASSUME NEW a \in Int, NEW b \in Int, NEW i \in Int
  PROVE  a + (b + 1) + i = a + b + (i + 1) /\ a + (b + 1) + (i - 1) = a + b + i
OBVIOUS

LEMMA InitKeeps == Init => IInv
<1> SUFFICES ASSUME Init PROVE IInv
  OBVIOUS
<1>1. /\ broker.closed = FALSE /\ broker.subs = {} /\ made = {} /\ log = <<>>
      /\ \A s \in Subs : broker.ch[s].buf = <<>> /\ broker.ch[s].closes = 0 /\ got[s] = <<>>
  BY DEF Init, newEventBroker
<1>2. TypeOK
  <2>1. broker \in Brokers(Events)
    BY DEF Init, newEventBroker, Brokers
  <2> QED
    BY <1>1, <2>1, BrokerAssumption DEF Init, TypeOK
<1> QED
  BY <1>1, <1>2 DEF IInv, Fresh, NoPanic, NoGaps, NobodyLeftWaiting

\* A step that changes one channel, by closing it and deregistering it.
LEMMA UnsubscribesStep ==
  ASSUME IInv, NEW s \in Subs, Unsubscribes(s) PROVE IInv'
<1>1. CASE s \notin broker.subs
  BY <1>1 DEF Unsubscribes, unsubscribe, IInv, TypeOK, Fresh, NoPanic, NoGaps, NobodyLeftWaiting
<1>2. CASE s \in broker.subs
  <2> DEFINE f == [broker.ch EXCEPT ![s] = Closing(@)]
  <2>0. TypeOK
    BY DEF IInv
  <2>1. /\ broker' = [closed |-> broker.closed, subs |-> broker.subs \ {s}, ch |-> f]
        /\ UNCHANGED <<made, log, from, got>> /\ s \in made
    BY <1>2, <2>0, TypeFacts DEF Unsubscribes, unsubscribe
  <2>2. /\ f \in [Subs -> Channel]
        /\ \A t \in Subs : /\ f[t].buf = broker.ch[t].buf
                           /\ t # s => f[t] = broker.ch[t]
        /\ f[s].closes = broker.ch[s].closes + 1
    BY <2>0, TypeFacts, ClosingFields
  <2> HIDE DEF f
  <2>3. TypeOK'
    <3>1. broker' \in Brokers(Events)
      BY <2>0, <2>1, <2>2, TypeFacts, BrokerType
    <3> QED
      BY <2>1, <2>2, <3>1 DEF IInv, TypeOK
  <2>4. broker.ch[s].closes = 0
    BY <1>2 DEF IInv, NoPanic
  <2>5. Fresh' /\ NoPanic' /\ NobodyLeftWaiting'
    <3>1. made \subseteq Subs
      BY <2>0 DEF TypeOK
    <3>2. broker'.ch = f /\ broker'.subs = broker.subs \ {s} /\ broker'.closed = broker.closed
      BY <2>1
    <3>3. f[s].closes = 1
      BY <2>2, <2>4
    <3>4. Fresh'
      BY <2>1, <2>2, <3>2 DEF IInv, Fresh
    <3>5. NoPanic'
      BY <2>2, <3>2, <3>3 DEF IInv, NoPanic
    <3>6. NobodyLeftWaiting'
      BY <2>1, <2>2, <3>1, <3>2, <3>3 DEF IInv, NobodyLeftWaiting
    <3> QED
      BY <3>4, <3>5, <3>6
  <2>6. NoGaps'
    BY <2>0, <2>1, <2>2, GapFrame DEF IInv
  <2> QED
    BY <2>3, <2>5, <2>6 DEF IInv
<1> QED
  BY <1>1, <1>2

LEMMA ClosesStep == ASSUME IInv, Closes PROVE IInv'
<1>1. CASE broker.closed
  BY <1>1 DEF Closes, close, IInv, TypeOK, Fresh, NoPanic, NoGaps, NobodyLeftWaiting
<1>2. CASE ~broker.closed
  <2> DEFINE f == [s \in Subs |-> IF s \in broker.subs THEN Closing(broker.ch[s])
                                  ELSE broker.ch[s]]
  <2>0. TypeOK
    BY DEF IInv
  <2>1. /\ broker' = [closed |-> TRUE, subs |-> {}, ch |-> f]
        /\ UNCHANGED <<made, log, from, got>>
    BY <1>2 DEF Closes, close
  <2>2. /\ f \in [Subs -> Channel]
        /\ \A t \in Subs :
             /\ f[t].buf = broker.ch[t].buf
             /\ t \in broker.subs => f[t].closes = broker.ch[t].closes + 1
             /\ t \notin broker.subs => f[t].closes = broker.ch[t].closes
    BY <2>0, TypeFacts, ClosingFields
  <2> HIDE DEF f
  <2>3. TypeOK'
    <3>1. broker' \in Brokers(Events)
      BY <2>1, <2>2, BrokerType
    <3> QED
      BY <2>1, <2>2, <3>1 DEF IInv, TypeOK
  <2>4. Fresh' /\ NoPanic' /\ NobodyLeftWaiting'
    <3>1. made \subseteq Subs
      BY <2>0 DEF TypeOK
    <3> QED
      BY <2>1, <2>2, <3>1 DEF IInv, Fresh, NoPanic, NobodyLeftWaiting
  <2>5. NoGaps'
    BY <2>0, <2>1, <2>2, GapFrame DEF IInv
  <2> QED
    BY <2>3, <2>4, <2>5 DEF IInv
<1> QED
  BY <1>1, <1>2

LEMMA SubscribesStep == ASSUME IInv, NEW s \in Subs, Subscribes(s) PROVE IInv'
<1>0. TypeOK /\ made \subseteq Subs /\ log \in Seq(Events)
  BY DEF IInv, TypeOK
<1>1. /\ s \notin made /\ made' = made \cup {s} /\ UNCHANGED <<log, got>>
      /\ \A t \in Subs : from'[t] = IF t = s THEN Len(log) ELSE from[t]
      /\ from' \in [Subs -> Nat]
  BY <1>0 DEF Subscribes, TypeOK
<1>2. /\ s \notin broker.subs /\ got[s] = <<>> /\ broker.ch[s].buf = <<>>
      /\ broker.ch[s].closes = 0
  BY <1>1 DEF IInv, Fresh
<1>3. broker'.closed = broker.closed /\ broker' \in Brokers(Events)
      /\ broker'.subs = (IF broker.closed THEN broker.subs ELSE broker.subs \cup {s})
      /\ \A t \in Subs : /\ broker'.ch[t].buf = broker.ch[t].buf
                         /\ t # s => broker'.ch[t] = broker.ch[t]
                         /\ broker'.ch[s].closes = IF broker.closed THEN 1 ELSE 0
  <2>1. CASE broker.closed
    <3> DEFINE f == [broker.ch EXCEPT ![s] = Closing(@)]
    <3>1. broker' = [closed |-> broker.closed, subs |-> broker.subs, ch |-> f]
      BY <1>0, <2>1, TypeFacts DEF Subscribes, Subscribe
    <3>2. /\ f \in [Subs -> Channel]
          /\ \A t \in Subs : f[t].buf = broker.ch[t].buf /\ (t # s => f[t] = broker.ch[t])
          /\ f[s].closes = broker.ch[s].closes + 1
      BY <1>0, TypeFacts, ClosingFields
    <3> HIDE DEF f
    <3>3. broker' \in Brokers(Events)
      BY <1>0, <3>1, <3>2, TypeFacts, BrokerType
    <3>4. f[s].closes = 1
      BY <1>2, <3>2
    <3> QED
      BY <2>1, <3>1, <3>2, <3>3, <3>4
  <2>2. CASE ~broker.closed
    <3>1. broker' = [closed |-> broker.closed, subs |-> broker.subs \cup {s}, ch |-> broker.ch]
      BY <1>0, <2>2, TypeFacts DEF Subscribes, Subscribe
    <3> QED
      BY <1>0, <1>2, <2>2, <3>1, TypeFacts, BrokerType
  <2> QED
    BY <2>1, <2>2
<1>4. TypeOK'
  BY <1>0, <1>1, <1>3 DEF TypeOK
<1>5. Fresh' /\ NoPanic' /\ NobodyLeftWaiting'
  BY <1>0, <1>1, <1>2, <1>3 DEF IInv, Fresh, NoPanic, NobodyLeftWaiting
<1>6. NoGaps'
  <2> SUFFICES ASSUME NEW t \in made' PROVE GapFree(t)'
    BY DEF NoGaps, GapFree
  <2>1. CASE t = s
    <3>1. Len(got[s]) = 0 /\ Len(broker.ch[s].buf) = 0 /\ Len(log) \in Nat
      BY <1>0, <1>2
    <3> QED
      BY <1>0, <1>1, <1>3, <2>1, <3>1 DEF GapFree
  <2>2. CASE t # s
    <3>1. t \in made /\ t \in Subs /\ (t \in broker'.subs => t \in broker.subs)
      BY <1>0, <1>1, <1>3, <2>2
    <3>2. GapFree(t)
      BY <3>1 DEF IInv, NoGaps, GapFree
    <3>3. /\ from'[t] = from[t] /\ got'[t] = got[t] /\ log' = log
          /\ broker'.ch[t].buf = broker.ch[t].buf
      BY <1>1, <1>3, <2>2, <3>1
    <3> QED
      BY <3>1, <3>2, <3>3 DEF GapFree
  <2> QED
    BY <2>1, <2>2
<1> QED
  BY <1>4, <1>5, <1>6 DEF IInv

LEMMA ReceivesStep == ASSUME IInv, NEW s \in Subs, Receives(s) PROVE IInv'
<1> DEFINE box == broker.ch[s].buf
           f == [broker.ch EXCEPT ![s].buf = Tail(box)]
<1>0. TypeOK /\ made \subseteq Subs /\ log \in Seq(Events)
  BY DEF IInv, TypeOK
<1>1. /\ broker' = [closed |-> broker.closed, subs |-> broker.subs, ch |-> f]
      /\ got' = [got EXCEPT ![s] = Append(@, Head(box))]
      /\ UNCHANGED <<made, log, from>> /\ s \in made /\ box # <<>>
  BY <1>0, TypeFacts DEF Receives, Received, Receivable, Oldest
<1>2. box \in Seq(Events) /\ got[s] \in Seq(Events) /\ got \in [Subs -> Seq(Events)]
  BY <1>0, TypeFacts DEF TypeOK
<1>3. /\ \A t \in Subs : /\ t # s => f[t] = broker.ch[t]
                         /\ f[t].closes = broker.ch[t].closes
      /\ f[s].buf = Tail(box)
  BY <1>0, TypeFacts DEF Channel
<1>4. f \in [Subs -> Channel]
  <2>1. Tail(box) \in Seq(Events)
    BY <1>1, <1>2
  <2>2. broker.ch \in [Subs -> Channel]
    BY <1>0, TypeFacts
  <2> HIDE DEF box
  <2> QED
    BY <2>1, <2>2 DEF Channel
<1> HIDE DEF f, box
<1>5. /\ Len(Tail(box)) = Len(box) - 1 /\ Len(box) \in Nat /\ Len(box) > 0
      /\ Head(box) = box[1] /\ Head(box) \in Events
      /\ \A i \in 1..Len(Tail(box)) : Tail(box)[i] = box[i + 1] /\ i + 1 \in 1..Len(box)
  BY <1>1, <1>2
<1>6. /\ Append(got[s], Head(box)) \in Seq(Events)
      /\ Len(Append(got[s], Head(box))) = Len(got[s]) + 1 /\ Len(got[s]) \in Nat
      /\ \A i \in 1..Len(got[s]) : Append(got[s], Head(box))[i] = got[s][i]
      /\ Append(got[s], Head(box))[Len(got[s]) + 1] = Head(box)
  BY <1>2, <1>5
<1>7. /\ got' \in [Subs -> Seq(Events)] /\ got'[s] = Append(got[s], Head(box))
      /\ \A t \in Subs : t # s => got'[t] = got[t]
  BY <1>1, <1>2, <1>6
<1>8. TypeOK'
  <2>1. broker' \in Brokers(Events)
    BY <1>0, <1>1, <1>4, TypeFacts, BrokerType
  <2>2. \A t \in Subs : Len(f[t].buf) <= Cap
    <3>1. Len(box) <= Cap /\ \A t \in Subs : Len(broker.ch[t].buf) <= Cap
      BY <1>0, TypeFacts DEF box
    <3>2. Len(f[s].buf) <= Cap
      BY <1>3, <1>5, <3>1, BrokerAssumption
    <3> QED
      BY <1>3, <3>1, <3>2
  <2> QED
    BY <1>0, <1>1, <1>7, <2>1, <2>2 DEF TypeOK
<1>9. Fresh' /\ NoPanic' /\ NobodyLeftWaiting'
  <2>1. Fresh'
    BY <1>1, <1>3, <1>7 DEF IInv, Fresh
  <2> QED
    BY <1>0, <1>1, <1>3, <2>1 DEF IInv, NoPanic, NobodyLeftWaiting
<1>10. NoGaps'
  <2> SUFFICES ASSUME NEW t \in made' PROVE GapFree(t)'
    BY DEF NoGaps, GapFree
  <2>1. t \in made /\ t \in Subs /\ GapFree(t)
    BY <1>0, <1>1 DEF IInv, NoGaps, GapFree
  <2>2. CASE t # s
    BY <1>1, <1>3, <1>7, <2>1, <2>2 DEF GapFree
  <2>3. CASE t = s
    <3>1. from[s] \in Nat /\ Len(log) \in Nat
      BY <1>0, TypeFacts
    <3>2. \A i \in 1..Len(box) : /\ from[s] + Len(got[s]) + i <= Len(log)
                                 /\ box[i] = log[from[s] + Len(got[s]) + i]
      BY <2>1, <2>3 DEF GapFree, box
    <3>3. from[s] + Len(got[s]) + 1 <= Len(log) /\ Head(box) = log[from[s] + Len(got[s]) + 1]
      BY <1>5, <3>2
    <3>4. \A i \in 1..Len(got'[s]) : from[s] + i <= Len(log) /\ got'[s][i] = log[from[s] + i]
      <4> SUFFICES ASSUME NEW i \in 1..Len(got'[s])
                   PROVE  from[s] + i <= Len(log) /\ got'[s][i] = log[from[s] + i]
        OBVIOUS
      <4>1. CASE i \in 1..Len(got[s])
        BY <1>6, <1>7, <2>1, <2>3, <4>1 DEF GapFree
      <4>2. CASE i = Len(got[s]) + 1
        BY <1>6, <1>7, <3>1, <3>3, <4>2
      <4> QED
        BY <1>6, <1>7, <4>1, <4>2
    <3>5. \A i \in 1..Len(Tail(box)) :
            /\ from[s] + (Len(got[s]) + 1) + i <= Len(log)
            /\ Tail(box)[i] = log[from[s] + (Len(got[s]) + 1) + i]
      <4> SUFFICES ASSUME NEW i \in 1..Len(Tail(box))
                   PROVE  /\ from[s] + (Len(got[s]) + 1) + i <= Len(log)
                          /\ Tail(box)[i] = log[from[s] + (Len(got[s]) + 1) + i]
        OBVIOUS
      <4>1. from[s] + (Len(got[s]) + 1) + i = from[s] + Len(got[s]) + (i + 1)
        <5>1. from[s] \in Int /\ Len(got[s]) \in Int
          BY <1>6, <3>1
        <5>2. i \in Int
          OBVIOUS
        <5> QED
          BY <5>1, <5>2, Regroup
      <4>2. i + 1 \in 1..Len(box) /\ Tail(box)[i] = box[i + 1]
        BY <1>5
      <4> QED
        BY <3>2, <4>1, <4>2
    <3>6. s \in broker.subs => from[s] + (Len(got[s]) + 1) + (Len(box) - 1) = Len(log)
      <4>1. s \in broker.subs => from[s] + Len(got[s]) + Len(box) = Len(log)
        BY <2>1, <2>3 DEF GapFree, box
      <4>2. from[s] + (Len(got[s]) + 1) + (Len(box) - 1) = from[s] + Len(got[s]) + Len(box)
        <5>1. from[s] \in Int /\ Len(got[s]) \in Int /\ Len(box) \in Int
          BY <1>5, <1>6, <3>1
        <5> QED
          BY <5>1, Regroup
      <4> QED
        BY <4>1, <4>2
    <3>7. /\ from' = from /\ log' = log /\ broker'.subs = broker.subs
          /\ broker'.ch[s].buf = Tail(box) /\ Len(got'[s]) = Len(got[s]) + 1
      BY <1>1, <1>3, <1>6, <1>7
    <3> QED
      BY <1>5, <2>3, <3>4, <3>5, <3>6, <3>7 DEF GapFree
  <2> QED
    BY <2>2, <2>3
<1> QED
  BY <1>8, <1>9, <1>10 DEF IInv

\* A subscriber with room gets the event, one without is cut off.
LEMMA PublishesStep == ASSUME IInv, NEW e \in Events, Publishes(e) PROVE IInv'
<1>0. TypeOK /\ made \subseteq Subs /\ log \in Seq(Events)
  BY DEF IInv, TypeOK
<1>1. CASE broker.closed
  BY <1>1 DEF Publishes, publish, IInv, TypeOK, Fresh, NoPanic, NoGaps, NobodyLeftWaiting
<1>2. CASE ~broker.closed
  <2> DEFINE ch == broker.ch
             S == {s \in broker.subs : HasRoom(ch[s])}
             f == [s \in Subs |->
                     IF s \notin broker.subs THEN ch[s]
                     ELSE IF HasRoom(ch[s]) THEN [ch[s] EXCEPT !.buf = Append(@, e)]
                     ELSE Closing(ch[s])]
  <2>1. /\ broker' = [closed |-> FALSE, subs |-> S, ch |-> f]
        /\ log' = Append(log, e) /\ UNCHANGED <<made, from, got>>
    BY <1>0, <1>2, TypeFacts DEF Publishes, publish
  <2>2. ASSUME NEW s \in Subs
        PROVE  /\ ch[s] \in Channel /\ ch[s].buf \in Seq(Events) /\ Append(ch[s].buf, e) \in Seq(Events)
               /\ Len(ch[s].buf) \in Nat
    BY <1>0, TypeFacts
  <2>3. ASSUME NEW s \in Subs
        PROVE  /\ f[s] \in Channel
               /\ s \notin broker.subs => f[s] = ch[s]
               /\ s \in S => f[s].buf = Append(ch[s].buf, e) /\ f[s].closes = ch[s].closes
               /\ s \in broker.subs \ S => f[s].buf = ch[s].buf /\ f[s].closes = ch[s].closes + 1
    <3>1. CASE s \notin broker.subs
      BY <2>2, <3>1
    <3>2. CASE s \in S
      <4>1. f[s] = [ch[s] EXCEPT !.buf = Append(ch[s].buf, e)]
        BY <3>2
      <4> QED
        BY <2>2, <3>2, <4>1 DEF Channel
    <3>3. CASE s \in broker.subs \ S
      BY <2>2, <3>3, ClosingFields
    <3> QED
      BY <3>1, <3>2, <3>3
  <2>4. f \in [Subs -> Channel] /\ S \in SUBSET Subs
    BY <1>0, <2>3, TypeFacts
  <2>5. \A s \in S : s \in broker.subs /\ Len(ch[s].buf) < Cap
    BY DEF HasRoom
  <2> HIDE DEF f, S
  <2>6. TypeOK'
    <3>1. broker' \in Brokers(Events)
      BY <2>1, <2>4, BrokerType
    <3>2. log' \in Seq(Events)
      BY <1>0, <2>1
    <3>3. \A s \in Subs : Len(f[s].buf) <= Cap
      <4> SUFFICES ASSUME NEW s \in Subs PROVE Len(f[s].buf) <= Cap
        OBVIOUS
      <4>1. Len(ch[s].buf) <= Cap
        BY <1>0, TypeFacts
      <4>2. CASE s \in S
        <5>1. Len(Append(ch[s].buf, e)) = Len(ch[s].buf) + 1 /\ Len(ch[s].buf) < Cap
          BY <2>2, <2>5, <4>2
        <5>2. Len(ch[s].buf) \in Nat
          BY <2>2
        <5> QED
          BY <2>3, <4>2, <5>1, <5>2, BrokerAssumption
      <4> QED
        BY <2>3, <4>1, <4>2
    <3> QED
      BY <1>0, <2>1, <3>1, <3>2, <3>3 DEF TypeOK
  <2>7. Fresh' /\ NoPanic' /\ NobodyLeftWaiting'
    <3>1. \A s \in broker.subs : ch[s].closes = 0 /\ s \in Subs
      BY <1>0, TypeFacts DEF IInv, NoPanic
    <3>2. Fresh'
      BY <2>1, <2>3, <2>5 DEF IInv, Fresh
    <3>3. NoPanic'
      BY <2>1, <2>3, <2>5, <3>1 DEF IInv, NoPanic
    <3>4. NobodyLeftWaiting'
      BY <1>0, <2>1, <2>3, <2>5, <3>1 DEF IInv, NobodyLeftWaiting
    <3> QED
      BY <3>2, <3>3, <3>4
  <2>8. NoGaps'
    <3> SUFFICES ASSUME NEW t \in made' PROVE GapFree(t)'
      BY DEF NoGaps, GapFree
    <3>1. t \in made /\ t \in Subs /\ GapFree(t)
      BY <1>0, <2>1 DEF IInv, NoGaps, GapFree
    <3>2. /\ Len(log) \in Nat /\ Len(log') = Len(log) + 1 /\ log'[Len(log) + 1] = e
          /\ \A i \in 1..Len(log) : log'[i] = log[i]
      BY <1>0, <2>1
    <3>3. from[t] \in Nat /\ Len(got[t]) \in Nat /\ Len(ch[t].buf) \in Nat
      BY <1>0, <2>2, <3>1, TypeFacts
    <3>4. from' = from /\ got' = got /\ broker'.ch[t] = f[t] /\ broker'.subs = S
      BY <2>1
    <3>5. \A i \in 1..Len(got[t]) : from[t] + i <= Len(log') /\ got[t][i] = log'[from[t] + i]
      BY <3>1, <3>2, <3>3 DEF GapFree
    <3>6. \A i \in 1..Len(ch[t].buf) :
            /\ from[t] + Len(got[t]) + i <= Len(log')
            /\ ch[t].buf[i] = log'[from[t] + Len(got[t]) + i]
      <4> SUFFICES ASSUME NEW i \in 1..Len(ch[t].buf)
                   PROVE  /\ from[t] + Len(got[t]) + i <= Len(log')
                          /\ ch[t].buf[i] = log'[from[t] + Len(got[t]) + i]
        OBVIOUS
      <4> DEFINE at == from[t] + Len(got[t]) + i
      <4>1. at <= Len(log) /\ ch[t].buf[i] = log[at]
        BY <3>1 DEF GapFree
      <4>2. at \in Int /\ at >= 1
        BY <3>3
      <4> HIDE DEF at
      <4>3. at \in 1..Len(log) /\ at <= Len(log')
        BY <3>2, <4>1, <4>2
      <4> QED
        BY <3>2, <4>1, <4>3 DEF at
    <3>7. CASE t \notin S
      <4>1. f[t].buf = ch[t].buf
        BY <2>3, <3>1, <3>7
      <4> QED
        BY <3>4, <3>5, <3>6, <3>7, <4>1 DEF GapFree
    <3>8. CASE t \in S
      <4> DEFINE box == Append(ch[t].buf, e)
                 at == from[t] + Len(got[t])
      <4>1. f[t].buf = box
        BY <2>3, <3>1, <3>8
      <4>2. /\ Len(box) = Len(ch[t].buf) + 1 /\ box[Len(ch[t].buf) + 1] = e
            /\ \A i \in 1..Len(ch[t].buf) : box[i] = ch[t].buf[i]
        BY <2>2, <3>1
      <4>3. at + Len(ch[t].buf) = Len(log) /\ at \in Nat
        BY <2>5, <3>1, <3>3, <3>8 DEF GapFree
      <4>4. \A i \in 1..Len(ch[t].buf) : at + i <= Len(log') /\ ch[t].buf[i] = log'[at + i]
        BY <3>6
      <4> HIDE DEF box, at
      <4>5. \A i \in 1..Len(box) : at + i <= Len(log') /\ box[i] = log'[at + i]
        <5> SUFFICES ASSUME NEW i \in 1..Len(box)
                     PROVE  at + i <= Len(log') /\ box[i] = log'[at + i]
          OBVIOUS
        <5>1. CASE i \in 1..Len(ch[t].buf)
          BY <4>2, <4>4, <5>1
        <5>2. CASE i = Len(ch[t].buf) + 1
          <6>1. at + i = Len(log) + 1
            BY <3>3, <4>3, <5>2, SMTT(30)
          <6> QED
            BY <3>2, <4>2, <5>2, <6>1
        <5>3. i \in 1..Len(ch[t].buf) + 1
          BY <4>2
        <5>4. i \in 1..Len(ch[t].buf) \/ i = Len(ch[t].buf) + 1
          BY <3>3, <5>3
        <5> QED
          BY <5>1, <5>2, <5>4
      <4>6. at + Len(box) = Len(log')
        BY <3>2, <3>3, <4>2, <4>3, SMTT(30)
      <4> QED
        BY <3>4, <3>5, <4>1, <4>5, <4>6 DEF GapFree, at
    <3> QED
      BY <3>7, <3>8
  <2> QED
    BY <2>6, <2>7, <2>8 DEF IInv
<1> QED
  BY <1>1, <1>2

\* The inductive invariant holds in every reachable state.
THEOREM Inductive == Spec => []IInv
<1>1. IInv /\ [Next]_vars => IInv'
  <2> SUFFICES ASSUME IInv, [Next]_vars PROVE IInv'
    OBVIOUS
  <2>1. CASE UNCHANGED vars
    BY <2>1 DEF vars, IInv, TypeOK, Fresh, NoPanic, NoGaps, NobodyLeftWaiting
  <2> QED
    BY <2>1, SubscribesStep, ReceivesStep, UnsubscribesStep, PublishesStep, ClosesStep DEF Next
<1> QED
  BY InitKeeps, <1>1, PTL DEF Spec

\* The channels stay within their capacity (Subscribe, publish).
THEOREM TypeCorrect == Spec => []TypeOK
<1>1. IInv => TypeOK
  BY DEF IInv
<1> QED
  BY <1>1, Inductive, PTL

\* No channel is closed twice or sent to once closed (publish, close, unsubscribe).
THEOREM NeverPanics == Spec => []NoPanic
<1>1. IInv => NoPanic
  BY DEF IInv
<1> QED
  BY <1>1, Inductive, PTL

\* Subscribers see a gapless stretch of what was published (publish).
THEOREM DeliversWithoutGaps == Spec => []NoGaps
<1>1. IInv => NoGaps
  BY DEF IInv
<1> QED
  BY <1>1, Inductive, PTL

\* Every subscription that is no longer served is closed (Subscribe, close).
THEOREM LeavesNobodyWaiting == Spec => []NobodyLeftWaiting
<1>1. IInv => NobodyLeftWaiting
  BY DEF IInv
<1> QED
  BY <1>1, Inductive, PTL
=============================================================================
