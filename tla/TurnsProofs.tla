----------------------------- MODULE TurnsProofs -----------------------------
(***************************************************************************)
(* Turns end before they are returned, overlap only after a caller gave    *)
(* up, and Run returns the items the server shows or all it could have     *)
(* been told of: for any number of invocations of the three methods, any   *)
(* capacities and retry limits, and notifications in any order.            *)
(*                                                                         *)
(* The argument: an event tells the truth about its turn wherever it is on *)
(* its way (Truthful); whatever a caller concluded from one, or from a     *)
(* read, stays true because an ended turn stays ended (Concluded); turnMu  *)
(* is held from Lock to return (Locked); and Run subscribed before its     *)
(* turn began, so an item that it does not have is in its subscription or  *)
(* before it, or the subscription was closed (Gathering).                  *)
(***************************************************************************)
EXTENDS Turns, SequenceTheorems, TLAPS

Pcs == {"idle", "subscribe", "start", "starting", "poll", "check", "select", "final", "retry",
        "reread", "stream", "push", "returned"}
Items == Runs \X (1..MaxItems)
Kinds == {"item", "error", "turn/completed"}
Results == {"none", "ok", "error", "turn/completed", "cut off", "cancelled"}
RunLocals == [pc : Pcs, transient : 0..MaxTransient - 1, rereads : 0..MaxRereads - 1,
              items : SUBSET Items, sub : {"none", "open", "nil"},
              event : {"none"} \cup Kinds, result : Results]
Turn == [status : {"none", "requested", "refused", "active", "ended"},
         events : 0..MaxItems, items : SUBSET Items, stored : SUBSET Items]
Channel == [buf : Seq(Events), closes : Nat]

-----------------------------------------------------------------------------
(* The inductive invariant. *)

\* What an event says of its turn is so.
Truth(e) ==
  /\ e.kind = "turn/completed" => Terminal(e.turn)
  /\ e.kind = "item" /\ e.turn \in Runs => <<e.turn, e.item>> \in turn[e.turn].items
NotesTrue == \A i \in 1..Len(notes) : Truth(notes[i])
BuffersTrue ==
  \A r \in Callers : \A i \in 1..Len(broker.ch[r].buf) : Truth(broker.ch[r].buf[i])

\* How far a caller is says how far its turn is, and the other way round.
Concluded(r) ==
  /\ run[r].pc = "returned" <=> run[r].result # "none"
  /\ run[r].pc \in {"idle", "start"} \/ (run[r].pc = "subscribe" /\ r \in Runs) =>
       turn[r].status = "none"
  /\ run[r].pc \in {"final", "retry", "reread"} => r \in Runs /\ Terminal(r)
  /\ run[r].pc = "push" => run[r].event # "none"
  /\ run[r].event = "turn/completed" => Terminal(r)
  /\ run[r].result \in {"ok", "turn/completed"} => Terminal(r)
  /\ turn[r].status \notin {"active", "ended"} => turn[r].items = {}
  /\ turn[r].items \subseteq {r} \X (1..MaxItems)
  /\ turn[r].stored \subseteq turn[r].items

\* turnMu is held by whoever is between Lock and return.
Locked(r) ==
  /\ r \in Waiters => run[r].pc # "idle"
  /\ r \notin Waiters /\ run[r].pc \notin {"idle", "returned"} => turnMu = r

\* Run is subscribed when its turn begins; an item it does not have is on its way.
Deregistered == broker.closed => broker.subs = {}
Subscribed(r) ==
  run[r].pc \notin {"idle", "subscribe", "returned"} =>
    r \in broker.subs \/ broker.ch[r].closes > 0
Gathering(r) ==
  /\ run[r].items \subseteq turn[r].items
  /\ run[r].pc \in {"retry", "reread"} => run[r].items = {}
  /\ run[r].pc # "returned" =>
       \A i \in turn[r].items \ run[r].items :
         \/ OnTheWay(r, i, notes) \/ OnTheWay(r, i, broker.ch[r].buf)
         \/ broker.ch[r].closes > 0 \/ link = "down"

Inv ==
  /\ TypeOK /\ NotesTrue /\ BuffersTrue /\ Deregistered
  /\ \A r \in Callers : Concluded(r) /\ Locked(r)
  /\ \A r \in Runs : Subscribed(r) /\ Gathering(r)

-----------------------------------------------------------------------------
(* The broker's operations, field by field. *)

LEMMA BrokerType ==
  ASSUME NEW b \in Brokers(Events)
  PROVE  /\ b = [closed |-> b.closed, subs |-> b.subs, ch |-> b.ch]
         /\ b.closed \in BOOLEAN /\ b.subs \in SUBSET Callers /\ b.ch \in [Callers -> Channel]
  BY DEF Brokers, Channel

LEMMA BrokerMade ==
  ASSUME NEW c \in BOOLEAN, NEW S \in SUBSET Callers, NEW f \in [Callers -> Channel]
  PROVE  [closed |-> c, subs |-> S, ch |-> f] \in Brokers(Events)
  BY DEF Brokers, Channel

LEMMA ClosingFields ==
  ASSUME NEW c \in Channel
  PROVE  Closing(c) \in Channel /\ Closing(c).buf = c.buf /\ Closing(c).closes = c.closes + 1
  BY DEF Closing, Channel

\* Emptying a channel.
Emptied(b, r) == [b EXCEPT !.ch[r].buf = <<>>]
LEMMA EmptiedFields ==
  ASSUME NEW b \in Brokers(Events), NEW r \in Callers
  PROVE  /\ Emptied(b, r) \in Brokers(Events)
         /\ Emptied(b, r).closed = b.closed /\ Emptied(b, r).subs = b.subs
         /\ Emptied(b, r).ch[r].buf = <<>> /\ Emptied(b, r).ch[r].closes = b.ch[r].closes
         /\ \A s \in Callers \ {r} : Emptied(b, r).ch[s] = b.ch[s]
<1>t. /\ b = [closed |-> b.closed, subs |-> b.subs, ch |-> b.ch]
      /\ b.closed \in BOOLEAN /\ b.subs \in SUBSET Callers /\ b.ch \in [Callers -> Channel]
  BY BrokerType
<1> DEFINE f == [b.ch EXCEPT ![r].buf = <<>>]
<1>1. Emptied(b, r) = [closed |-> b.closed, subs |-> b.subs, ch |-> f]
  BY <1>t DEF Emptied
<1>2. b.ch[r] \in Channel /\ b.ch \in [Callers -> Channel]
  BY <1>t
<1>e. <<>> \in Seq(Events)
  OBVIOUS
<1>3. f \in [Callers -> Channel] /\ f[r].buf = <<>> /\ f[r].closes = b.ch[r].closes
  BY <1>2, <1>e DEF Channel
<1>4. \A s \in Callers \ {r} : f[s] = b.ch[s]
  BY <1>2
<1> HIDE DEF f
<1> QED
  BY <1>t, <1>1, <1>3, <1>4, BrokerMade

LEMMA UnsubscribeFields ==
  ASSUME NEW b \in Brokers(Events), NEW r \in Callers, NEW a, a = unsubscribe(b, r)
  PROVE  /\ a \in Brokers(Events) /\ a.closed = b.closed /\ a.subs = b.subs \ {r}
         /\ \A s \in Callers \ {r} : a.ch[s] = b.ch[s]
<1>t. /\ b = [closed |-> b.closed, subs |-> b.subs, ch |-> b.ch]
      /\ b.closed \in BOOLEAN /\ b.subs \in SUBSET Callers /\ b.ch \in [Callers -> Channel]
  BY BrokerType
<1>1. CASE r \notin b.subs
  BY <1>1 DEF unsubscribe
<1>2. CASE r \in b.subs
  <2> DEFINE f == [b.ch EXCEPT ![r] = Closing(@)]
  <2>1. a = [closed |-> b.closed, subs |-> b.subs \ {r}, ch |-> f]
    BY <1>t, <1>2 DEF unsubscribe
  <2>2. f \in [Callers -> Channel] /\ \A s \in Callers \ {r} : f[s] = b.ch[s]
    BY <1>t, ClosingFields
  <2> HIDE DEF f
  <2> QED
    BY <1>t, <2>1, <2>2, BrokerMade
<1> QED
  BY <1>1, <1>2

\* What the broker is left with by a return.
Left(b, r) == Emptied(unsubscribe(b, r), r)
LEMMA LeftFields ==
  ASSUME NEW b \in Brokers(Events), NEW r \in Callers
  PROVE  /\ Left(b, r) \in Brokers(Events) /\ Left(b, r).closed = b.closed
         /\ Left(b, r).subs = b.subs \ {r} /\ Left(b, r).ch[r].buf = <<>>
         /\ \A s \in Callers \ {r} : Left(b, r).ch[s] = b.ch[s]
  BY UnsubscribeFields, EmptiedFields DEF Left

LEMMA ReturnsLeaves ==
  ASSUME NEW r \in Callers, NEW result, Returns(r, result)
  PROVE  broker' = Left(broker, r)
  BY Zenon DEF Returns, Left, Emptied

LEMMA ReturnsItemsLeaves ==
  ASSUME NEW r \in Callers, NEW shown, NEW gathered, ReturnsItems(r, shown, gathered)
  PROVE  broker' = Left(broker, r)
  BY Zenon DEF ReturnsItems, Left, Emptied

LEMMA SubscribeFields ==
  ASSUME NEW b \in Brokers(Events), NEW r \in Callers, NEW a, a = Subscribe(b, r)
  PROVE  /\ a \in Brokers(Events) /\ a.closed = b.closed
         /\ \A s \in Callers \ {r} : a.ch[s] = b.ch[s] /\ (s \in a.subs <=> s \in b.subs)
         /\ a.ch[r].buf = b.ch[r].buf /\ a.ch[r].closes >= b.ch[r].closes
         /\ b.closed => a.subs = b.subs /\ a.ch[r].closes > 0
         /\ ~b.closed => r \in a.subs
<1>t. /\ b = [closed |-> b.closed, subs |-> b.subs, ch |-> b.ch]
      /\ b.closed \in BOOLEAN /\ b.subs \in SUBSET Callers /\ b.ch \in [Callers -> Channel]
  BY BrokerType
<1>0. b.ch[r] \in Channel /\ b.ch[r].closes \in Nat
  BY <1>t DEF Channel
<1>1. CASE ~b.closed
  <2>1. a = [closed |-> b.closed, subs |-> b.subs \cup {r}, ch |-> b.ch]
    BY <1>t, <1>1 DEF Subscribe
  <2> QED
    BY <1>t, <1>0, <1>1, <2>1, BrokerMade
<1>2. CASE b.closed
  <2> DEFINE f == [b.ch EXCEPT ![r] = Closing(@)]
  <2>1. a = [closed |-> b.closed, subs |-> b.subs, ch |-> f]
    BY <1>t, <1>2 DEF Subscribe
  <2>2. f \in [Callers -> Channel] /\ \A s \in Callers \ {r} : f[s] = b.ch[s]
    BY <1>t, ClosingFields
  <2>3. f[r].buf = b.ch[r].buf /\ f[r].closes = b.ch[r].closes + 1
    BY <1>t, <1>0, ClosingFields
  <2> HIDE DEF f
  <2>4. f[r].closes >= b.ch[r].closes /\ f[r].closes > 0
    BY <1>0, <2>3
  <2>5. a \in Brokers(Events)
    BY <1>t, <2>1, <2>2, BrokerMade
  <2>6. a.ch = f /\ a.subs = b.subs /\ a.closed = b.closed
    BY <2>1
  <2> QED
    BY <1>2, <2>2, <2>3, <2>4, <2>5, <2>6
<1> QED
  BY <1>1, <1>2

\* A channel after publish: as before, one event longer, or closed.
LEMMA PublishFields ==
  ASSUME NEW b \in Brokers(Events), NEW e \in Events, NEW a, a = publish(b, e)
  PROVE  /\ a \in Brokers(Events) /\ a.closed = b.closed /\ a.subs \subseteq b.subs
         /\ \A r \in Callers :
              \/ a.ch[r] = b.ch[r] /\ (r \notin b.subs \/ b.closed) /\ (r \in a.subs <=> r \in b.subs)
              \/ /\ r \in a.subs /\ r \in b.subs /\ Len(b.ch[r].buf) < SubCap
                 /\ a.ch[r].buf = Append(b.ch[r].buf, e) /\ a.ch[r].closes = b.ch[r].closes
              \/ a.ch[r].buf = b.ch[r].buf /\ a.ch[r].closes = b.ch[r].closes + 1
<1>t. /\ b = [closed |-> b.closed, subs |-> b.subs, ch |-> b.ch]
      /\ b.closed \in BOOLEAN /\ b.subs \in SUBSET Callers /\ b.ch \in [Callers -> Channel]
  BY BrokerType
<1>1. CASE b.closed
  BY <1>1 DEF publish
<1>2. CASE ~b.closed
  <2> DEFINE S == {s \in b.subs : HasRoom(b.ch[s])}
             f == [s \in Callers |->
                    IF s \notin b.subs THEN b.ch[s]
                    ELSE IF HasRoom(b.ch[s]) THEN [b.ch[s] EXCEPT !.buf = Append(@, e)]
                    ELSE Closing(b.ch[s])]
  <2>1. a = [closed |-> b.closed, subs |-> S, ch |-> f]
    BY <1>t, <1>2 DEF publish
  <2>2. ASSUME NEW s \in Callers
        PROVE  /\ f[s] \in Channel
               /\ \/ f[s] = b.ch[s] /\ s \notin b.subs
                  \/ /\ s \in S /\ s \in b.subs /\ Len(b.ch[s].buf) < SubCap
                     /\ f[s].buf = Append(b.ch[s].buf, e) /\ f[s].closes = b.ch[s].closes
                  \/ f[s].buf = b.ch[s].buf /\ f[s].closes = b.ch[s].closes + 1
    <3>1. b.ch[s] \in Channel
      BY <1>t
    <3>2. CASE s \notin b.subs
      BY <3>1, <3>2
    <3>3. CASE s \in b.subs /\ HasRoom(b.ch[s])
      <4>1. f[s] = [b.ch[s] EXCEPT !.buf = Append(@, e)]
        BY <3>3
      <4>a. Append(b.ch[s].buf, e) \in Seq(Events)
        BY <3>1 DEF Channel
      <4>2. /\ f[s].buf = Append(b.ch[s].buf, e) /\ f[s].closes = b.ch[s].closes
            /\ f[s] \in Channel
        BY <3>1, <4>1, <4>a DEF Channel
      <4> QED
        BY <3>3, <4>2 DEF HasRoom
    <3>4. CASE s \in b.subs /\ ~HasRoom(b.ch[s])
      BY <3>1, <3>4, ClosingFields
    <3> QED
      BY <3>2, <3>3, <3>4
  <2>3. S \subseteq b.subs /\ \A s \in Callers : s \notin b.subs => s \notin S
    OBVIOUS
  <2>4. f \in [Callers -> Channel]
    BY <2>2
  <2> HIDE DEF f, S
  <2> QED
    BY <1>t, <2>1, <2>2, <2>3, <2>4, BrokerMade
<1> QED
  BY <1>1, <1>2

LEMMA CloseFields ==
  ASSUME NEW b \in Brokers(Events), NEW a, a = close(b), b.closed => b.subs = {}
  PROVE  /\ a \in Brokers(Events) /\ a.subs = {}
         /\ \A r \in Callers : /\ a.ch[r].buf = b.ch[r].buf
                               /\ a.ch[r].closes >= b.ch[r].closes
                               /\ r \in b.subs => a.ch[r].closes > 0
<1>t. /\ b = [closed |-> b.closed, subs |-> b.subs, ch |-> b.ch]
      /\ b.closed \in BOOLEAN /\ b.subs \in SUBSET Callers /\ b.ch \in [Callers -> Channel]
  BY BrokerType
<1>0. \A s \in Callers : b.ch[s] \in Channel /\ b.ch[s].closes \in Nat
  BY <1>t DEF Channel
<1>1. CASE b.closed
  BY <1>0, <1>1 DEF close
<1>2. CASE ~b.closed
  <2> DEFINE f == [s \in Callers |-> IF s \in b.subs THEN Closing(b.ch[s]) ELSE b.ch[s]]
  <2>1. a = [closed |-> TRUE, subs |-> {}, ch |-> f]
    BY <1>2 DEF close
  <2>2. ASSUME NEW s \in Callers
        PROVE  /\ f[s] \in Channel /\ f[s].buf = b.ch[s].buf
               /\ f[s].closes = IF s \in b.subs THEN b.ch[s].closes + 1 ELSE b.ch[s].closes
    BY <1>0, ClosingFields
  <2>3. f \in [Callers -> Channel]
    BY <2>2
  <2> HIDE DEF f
  <2>4. \A s \in Callers : f[s].closes >= b.ch[s].closes /\ (s \in b.subs => f[s].closes > 0)
    BY <1>0, <2>2
  <2>5. a \in Brokers(Events)
    BY <2>1, <2>3, BrokerMade
  <2>6. a.ch = f /\ a.subs = {}
    BY <2>1
  <2> QED
    BY <2>2, <2>4, <2>5, <2>6
<1> QED
  BY <1>1, <1>2

LEMMA ReceivedFields ==
  ASSUME NEW b \in Brokers(Events), NEW r \in Callers, NEW a, a = Received(b, r), Receivable(b, r)
  PROVE  /\ a \in Brokers(Events) /\ a.closed = b.closed /\ a.subs = b.subs
         /\ a.ch[r].buf = Tail(b.ch[r].buf) /\ a.ch[r].closes = b.ch[r].closes
         /\ \A s \in Callers \ {r} : a.ch[s] = b.ch[s]
<1>t. /\ b = [closed |-> b.closed, subs |-> b.subs, ch |-> b.ch]
      /\ b.closed \in BOOLEAN /\ b.subs \in SUBSET Callers /\ b.ch \in [Callers -> Channel]
  BY BrokerType
<1> DEFINE f == [b.ch EXCEPT ![r].buf = Tail(@)]
<1>1. a = [closed |-> b.closed, subs |-> b.subs, ch |-> f]
  BY <1>t DEF Received
<1>2. b.ch[r] \in Channel /\ b.ch \in [Callers -> Channel]
  BY <1>t
<1>3. Tail(b.ch[r].buf) \in Seq(Events)
  BY <1>2 DEF Channel, Receivable
<1>4. f \in [Callers -> Channel] /\ f[r].buf = Tail(b.ch[r].buf) /\ f[r].closes = b.ch[r].closes
  BY <1>2, <1>3 DEF Channel
<1>5. \A s \in Callers \ {r} : f[s] = b.ch[s]
  BY <1>2
<1> HIDE DEF f
<1> QED
  BY <1>t, <1>1, <1>4, <1>5, BrokerMade

-----------------------------------------------------------------------------
(* The steps, and what each leaves alone. *)

CallerMoves(r) == Lock(r) \/ CallerStep(r)
ServerMoves(r) ==
  ServerStartsTurn(r) \/ ServerEmits(r) \/ ServerStores(r) \/ ServerEndsTurn(r)

LEMMA NextSplit ==
  ASSUME [Next]_vars
  PROVE  \/ \E r \in Callers : CallerMoves(r) \/ Cancel(r) \/ ServerMoves(r)
         \/ \E r \in Streams : ConsumerTakes(r)
         \/ NotificationLoop \/ CloseEvents \/ CloseTransport \/ ConnectionLost
         \/ UNCHANGED vars
  BY DEF Next, CallerMoves, ServerMoves

LEMMA CallerFrame ==
  ASSUME NEW r \in Callers, CallerMoves(r)
  PROVE  UNCHANGED <<cancelled, notes, link>>
  BY DEF CallerMoves, Lock, CallerStep, WaitStep, StreamStep, SubscribeStep, TurnStart,
       TurnStartReturns, TurnStartFails, ReadTurn, ReadTurnOver, ReadOutput, RetryDrains,
       RetryReads, RetryCancelled, ReadTurnTransient, ReadTurnFails, SelectEvent, SelectClosed,
       SelectTick, SelectCancelled, ReadFinal, StreamEvent, StreamPush, StreamSubClosed,
       StreamCancelled

LEMMA ServerFrame ==
  ASSUME NEW r \in Callers, ServerMoves(r)
  PROVE  UNCHANGED <<turnMu, run, out, cancelled, broker, link>>
  BY DEF ServerMoves, ServerStartsTurn, ServerEmits, ServerStores, ServerEndsTurn

LEMMA Bounds ==
  /\ SubCap \in Nat /\ OutCap \in Nat /\ MaxItems \in Nat
  /\ MaxTransient \in Nat /\ MaxTransient > 0 /\ MaxRereads \in Nat /\ MaxRereads > 0
  BY TurnsAssumption

LEMMA Kinded ==
  /\ Runs \subseteq Callers /\ Streams \subseteq Callers /\ Waiters \subseteq Callers
  /\ \A r \in Runs : r \notin Streams /\ r \notin Waiters
  /\ \A r \in Callers : r \notin Waiters => r \in Runs \cup Streams
  /\ \A r \in Callers : r # None
  BY TurnsAssumption DEF Callers

LEMMA Types ==
  ASSUME TypeOK
  PROVE  /\ turnMu \in Runs \cup Streams \cup {None} /\ run \in [Callers -> RunLocals]
         /\ out \in [Streams -> Seq(Kinds)] /\ broker \in Brokers(Events)
         /\ notes \in Seq(Events) /\ turn \in [Callers -> Turn]
  BY DEF TypeOK, RunLocals, Pcs, Kinds, Results, Items, Turn

LEMMA BufferTypes ==
  ASSUME TypeOK, NEW r \in Callers
  PROVE  broker.ch[r].buf \in Seq(Events) /\ broker.ch[r].closes \in Nat
<1>1. broker.ch \in [Callers -> Channel]
  BY Types, BrokerType
<1> QED
  BY <1>1 DEF Channel

\* How the callers move the turns: only while starting them.
LEMMA CallerTurn ==
  ASSUME TypeOK, NEW r \in Callers, Concluded(r), CallerMoves(r)
  PROVE  /\ turn' \in [Callers -> Turn]
         /\ \A s \in Callers \ {r} : turn'[s] = turn[s]
         /\ turn'[r].items = turn[r].items /\ turn'[r].stored = turn[r].stored
         /\ turn'[r].status = turn[r].status
            \/ /\ run[r].pc \in {"start", "starting"} /\ run'[r].pc \in {"starting", "returned"}
               /\ turn[r].status \in {"none", "requested"}
               /\ turn'[r].status \in {"requested", "refused"}
<1>0. turn \in [Callers -> Turn] /\ run \in [Callers -> RunLocals] /\ turn[r] \in Turn
  BY Types
<1>1. CASE UNCHANGED turn
  BY <1>0, <1>1
<1>2. CASE TurnStart(r)
  <2>1. turn[r].status = "none" /\ run'[r].pc = "starting"
    BY <1>0, <1>2 DEF TurnStart, Goes, Concluded, RunLocals
  <2> QED
    BY <1>0, <1>2, <2>1 DEF TurnStart, Turn
<1>3. CASE TurnStartFails(r)
  <2>1. run[r].pc \in {"start", "starting"} /\ run'[r].pc = "returned"
    BY <1>0, <1>3 DEF TurnStartFails, Returns, Locals
  <2>2. turn' = turn \/ (turn' = [turn EXCEPT ![r].status = "refused"] /\ turn[r].status = "requested")
    BY <1>0, <1>3 DEF TurnStartFails, Turn
  <2> QED
    BY <1>0, <2>1, <2>2 DEF Turn
<1> QED
  BY <1>1, <1>2, <1>3 DEF CallerMoves, Lock, CallerStep, WaitStep, StreamStep, SubscribeStep,
       TurnStartReturns, ReadTurn, ReadTurnOver, ReadOutput, RetryDrains,
       RetryReads, RetryCancelled, ReadTurnTransient, ReadTurnFails, SelectEvent, SelectClosed,
       SelectTick, SelectCancelled, ReadFinal, StreamEvent, StreamPush, StreamSubClosed,
       StreamCancelled

\* How the server moves them.
LEMMA ServerTurn ==
  ASSUME TypeOK, NEW r \in Callers, ServerMoves(r)
  PROVE  /\ turn' \in [Callers -> Turn]
         /\ \A s \in Callers \ {r} : turn'[s] = turn[s]
         /\ turn[r].items \subseteq turn'[r].items
         /\ turn[r].status = "ended" => turn'[r].status = "ended"
         /\ turn[r].status = "none" => turn'[r].status = "none"
<1>0. turn \in [Callers -> Turn] /\ turn[r] \in Turn /\ MaxItems \in Nat
  BY Types, Bounds
<1>1. CASE ServerStartsTurn(r)
  BY <1>0, <1>1 DEF ServerStartsTurn, Turn
<1>2. CASE ServerStores(r)
  BY <1>0, <1>2 DEF ServerStores, Turn
<1>3. CASE ServerEndsTurn(r)
  BY <1>0, <1>3 DEF ServerEndsTurn, Turn
<1>4. CASE ServerEmits(r)
  <2> DEFINE n == turn[r].events + 1
  <2>1. n \in 1..MaxItems /\ n \in 0..MaxItems /\ turn[r].status = "active"
    BY <1>0, <1>4 DEF ServerEmits, Turn
  <2>2. \/ turn' = [turn EXCEPT ![r].events = n,
                       ![r].items = IF r \in Runs THEN @ \cup {<<r, n>>} ELSE @]
        \/ turn' = [turn EXCEPT ![r].events = n]
    BY <1>4 DEF ServerEmits
  <2>3. r \in Runs => <<r, n>> \in Items
    BY <2>1 DEF Items
  <2> HIDE DEF n
  <2> QED
    BY <1>0, <2>1, <2>2, <2>3 DEF Turn
<1> QED
  BY <1>1, <1>2, <1>3, <1>4 DEF ServerMoves

\* Turns only go forward: what an event says of one stays so.
LEMMA TurnGrows ==
  ASSUME TypeOK, \A r \in Callers : Concluded(r), [Next]_vars, NEW s \in Callers
  PROVE  /\ turn[s].items \subseteq turn'[s].items
         /\ Terminal(s) => Terminal(s)'
<1>1. ASSUME NEW r \in Callers, CallerMoves(r) PROVE turn[s].items \subseteq turn'[s].items /\ (Terminal(s) => Terminal(s)')
  BY <1>1, CallerTurn DEF Terminal
<1>2. ASSUME NEW r \in Callers, ServerMoves(r) PROVE turn[s].items \subseteq turn'[s].items /\ (Terminal(s) => Terminal(s)')
  BY <1>2, ServerTurn DEF Terminal
<1>3. ASSUME UNCHANGED turn PROVE turn[s].items \subseteq turn'[s].items /\ (Terminal(s) => Terminal(s)')
  BY <1>3 DEF Terminal
<1> QED
  BY <1>1, <1>2, <1>3, NextSplit DEF Cancel, ConsumerTakes, NotificationLoop, CloseEvents,
       CloseTransport, ConnectionLost, vars

LEMMA TruthStays ==
  ASSUME TypeOK, \A r \in Callers : Concluded(r), [Next]_vars, NEW e \in Events, Truth(e)
  PROVE  Truth(e)'
<1>1. e.turn \in Callers
  BY DEF Events
<1> QED
  BY <1>1, TurnGrows DEF Truth

-----------------------------------------------------------------------------
(* What the callers do. *)

\* What is gathered from truthful events is of this turn, and all they say of it.
LEMMA Captured ==
  ASSUME NEW r \in Runs, NEW E \in SUBSET Events, \A e \in E : Truth(e),
         NEW x \in captureEvent(r, E), run[r].items \subseteq turn[r].items
  PROVE  /\ run[r].items \subseteq x /\ x \subseteq turn[r].items
         /\ \A n : Event(r, "item", n) \in E => <<r, n>> \in x
<1> DEFINE own == {e \in E : eventMatchesTurn(r, e)}
           items == {<<e.turn, e.item>> : e \in {f \in own : f.kind = "item"}}
<1>1. PICK t \in {{}} \cup {turn[r].items : e \in {f \in own : f.kind = "turn/completed"}} :
        x = mergeItems(captureTurn(r, items), t)
  BY DEF captureEvent
<1>2. t \subseteq turn[r].items
  BY <1>1
<1>3. x = (run[r].items \cup items) \cup t
  BY <1>1 DEF mergeItems, captureTurn
<1>4. items \subseteq turn[r].items
  BY DEF eventMatchesTurn, Truth
<1>5. ASSUME NEW n, Event(r, "item", n) \in E PROVE <<r, n>> \in items
  BY <1>5 DEF Event, eventMatchesTurn
<1> HIDE DEF items
<1> QED
  BY <1>2, <1>3, <1>4, <1>5

\* The events in a subscription, and its first one, are truthful.
LEMMA BufferedTrue ==
  ASSUME TypeOK, BuffersTrue, NEW r \in Callers
  PROVE  /\ Range(broker.ch[r].buf) \in SUBSET Events
         /\ \A e \in Range(broker.ch[r].buf) : Truth(e)
         /\ Receivable(broker, r) => Oldest(broker, r) \in Events /\ Truth(Oldest(broker, r))
<1>1. broker.ch[r].buf \in Seq(Events)
  BY BufferTypes
<1>2. \A i \in 1..Len(broker.ch[r].buf) : Truth(broker.ch[r].buf[i])
  BY DEF BuffersTrue
<1>3. ASSUME Receivable(broker, r)
      PROVE  Oldest(broker, r) = broker.ch[r].buf[1] /\ 1 \in 1..Len(broker.ch[r].buf)
  BY <1>1, <1>3 DEF Receivable, Oldest
<1> QED
  BY <1>1, <1>2, <1>3 DEF Range

\* The channel of a caller after its step; the others are left alone.
CallerBroker(r) ==
  \/ broker' = broker
  \/ broker' = Left(broker, r) /\ run'[r].pc = "returned"
  \/ /\ broker' = Subscribe(broker, r)
     /\ run[r].pc = "subscribe" /\ run'[r].pc = AfterSubscribe(r)
  \/ broker' = Received(broker, r) /\ Receivable(broker, r)
  \/ broker' = Emptied(broker, r) /\ run[r].pc \in {"poll", "retry"}

LEMMA CallerBrokerHolds ==
  ASSUME TypeOK, NEW r \in Callers, CallerMoves(r)
  PROVE  CallerBroker(r)
<1>0. run \in [Callers -> RunLocals]
  BY Types
<1>1. ASSUME NEW result, Returns(r, result) PROVE CallerBroker(r)
  <2>1. run'[r].pc = "returned"
    BY <1>0, <1>1 DEF Returns, Locals
  <2> QED
    BY <1>1, <2>1, ReturnsLeaves DEF CallerBroker
<1>2. ASSUME NEW shown, NEW gathered, ReturnsItems(r, shown, gathered) PROVE CallerBroker(r)
  <2>1. run'[r].pc = "returned"
    BY <1>0, <1>2 DEF ReturnsItems, Locals
  <2> QED
    BY <1>2, <2>1, ReturnsItemsLeaves DEF CallerBroker
<1>3. CASE UNCHANGED broker
  BY <1>3 DEF CallerBroker
<1>4. CASE SubscribeStep(r)
  <2>1. run'[r].pc = AfterSubscribe(r)
    BY <1>0, <1>4 DEF SubscribeStep, RunLocals
  <2> QED
    BY <1>4, <2>1 DEF SubscribeStep, CallerBroker
<1>5. CASE SelectEvent(r) \/ StreamEvent(r)
  BY <1>5 DEF SelectEvent, StreamEvent, CallerBroker
<1>6. CASE broker' = Emptied(broker, r) /\ run[r].pc \in {"poll", "retry"}
  BY <1>6 DEF CallerBroker
<1>7. CASE ReadOutput(r) \/ RetryDrains(r)
  <2>1. \/ \E a, b : ReturnsItems(r, a, b)
        \/ broker' = Emptied(broker, r) /\ run[r].pc \in {"poll", "retry"}
    BY <1>7, Zenon DEF ReadOutput, RetryDrains, Emptied
  <2> QED
    BY <1>2, <1>6, <2>1
<1>8. CASE RetryReads(r) \/ RetryCancelled(r) \/ ReadFinal(r)
  BY <1>2, <1>3, <1>8 DEF RetryReads, RetryCancelled, ReadFinal
<1>9. CASE \/ TurnStartFails(r) \/ ReadTurnOver(r) \/ ReadTurnTransient(r) \/ ReadTurnFails(r)
           \/ SelectCancelled(r) \/ StreamPush(r) \/ StreamSubClosed(r) \/ StreamCancelled(r)
  BY <1>1, <1>3, <1>9 DEF TurnStartFails, ReadTurnOver, ReadTurnTransient, ReadTurnFails,
       SelectCancelled, StreamPush, StreamSubClosed, StreamCancelled
<1>10. CASE \/ Lock(r) \/ TurnStart(r) \/ TurnStartReturns(r) \/ ReadTurn(r) \/ SelectClosed(r)
            \/ SelectTick(r)
  BY <1>3, <1>10 DEF Lock, TurnStart, TurnStartReturns, ReadTurn, SelectClosed, SelectTick
<1> QED
  BY <1>4, <1>5, <1>7, <1>8, <1>9, <1>10 DEF CallerMoves, CallerStep, WaitStep, StreamStep

LEMMA CallerChannels ==
  ASSUME TypeOK, NEW r \in Callers, CallerMoves(r)
  PROVE  /\ broker' \in Brokers(Events) /\ broker'.closed = broker.closed
         /\ \A s \in Callers \ {r} : /\ broker'.ch[s] = broker.ch[s]
                                     /\ s \in broker.subs => s \in broker'.subs
         /\ broker.closed => broker'.subs \subseteq broker.subs
         /\ \/ broker'.ch[r].buf \in {broker.ch[r].buf, <<>>}
            \/ Receivable(broker, r) /\ broker'.ch[r].buf = Tail(broker.ch[r].buf)
<1>0. broker \in Brokers(Events) /\ CallerBroker(r)
  BY Types, CallerBrokerHolds
<1>1. CASE broker' = broker
  BY <1>0, <1>1
<1>2. CASE broker' = Left(broker, r)
  BY <1>0, <1>2, LeftFields
<1>3. CASE broker' = Subscribe(broker, r)
  BY <1>0, <1>3, SubscribeFields
<1>4. CASE broker' = Received(broker, r) /\ Receivable(broker, r)
  BY <1>0, <1>4, ReceivedFields
<1>5. CASE broker' = Emptied(broker, r)
  BY <1>0, <1>5, EmptiedFields
<1> QED
  BY <1>0, <1>1, <1>2, <1>3, <1>4, <1>5 DEF CallerBroker

\* The locals of a caller after its step: it returns, giving back turnMu, and
\* with a turn only if that is over; or it takes turnMu; or it goes on.
GivesBack(r) == turnMu' = IF turnMu = r THEN None ELSE turnMu
Ends(r) ==
  /\ run'[r].pc = "returned" /\ run'[r].event = "none" /\ run'[r].result # "none"
  /\ run'[r].result \in {"ok", "turn/completed"} => Terminal(r)
  /\ run[r].pc \notin {"idle", "returned"} /\ GivesBack(r)
Begins(r) ==
  /\ run[r].pc = "idle" /\ turnMu = None /\ turnMu' = r
  /\ run'[r] = [run[r] EXCEPT !.pc = IF r \in Runs THEN "subscribe" ELSE "start"]
GoesOn(r) ==
  /\ run[r].pc \notin {"idle", "returned"} /\ UNCHANGED turnMu
  /\ run'[r].result = run[r].result /\ run'[r].pc \notin {"idle", "returned"}
  /\ run'[r].pc = "start" => r \in Runs /\ run[r].pc = "subscribe"
  /\ run'[r].pc = "subscribe" => r \notin Runs
  /\ run'[r].pc \in {"final", "retry", "reread"} => r \in Runs /\ Terminal(r)
  /\ run'[r].pc = "push" => run'[r].event # "none"
  /\ run'[r].event = "turn/completed" => Terminal(r)

LEMMA ReturnsEnds ==
  ASSUME TypeOK, NEW r \in Callers, NEW result \in Results \ {"none"}, Returns(r, result),
         result \in {"ok", "turn/completed"} => Terminal(r), run[r].pc \notin {"idle", "returned"}
  PROVE  Ends(r) /\ run' \in [Callers -> RunLocals] /\ \A s \in Callers \ {r} : run'[s] = run[s]
<1>1. 0 \in 0..MaxTransient - 1 /\ 0 \in 0..MaxRereads - 1
  BY Bounds
<1>2. Locals("returned", result) \in RunLocals
  BY <1>1 DEF Locals, RunLocals, Pcs
<1>3. run' = [run EXCEPT ![r] = Locals("returned", result)] /\ run \in [Callers -> RunLocals]
  BY Types DEF Returns
<1>4. run'[r] = Locals("returned", result)
  BY <1>3
<1>5. Ends(r)
  BY <1>4 DEF Returns, Ends, Locals, GivesBack
<1> QED
  BY <1>2, <1>3, <1>5

LEMMA ReturnsItemsEnds ==
  ASSUME TypeOK, NEW r \in Callers, NEW shown \in SUBSET Items, NEW gathered \in SUBSET Items,
         ReturnsItems(r, shown, gathered), Terminal(r), run[r].pc \notin {"idle", "returned"}
  PROVE  /\ Ends(r) /\ run' \in [Callers -> RunLocals]
         /\ \A s \in Callers \ {r} : run'[s] = run[s]
         /\ run'[r].items = IF shown # {} THEN shown ELSE gathered
<1> DEFINE items == IF shown # {} THEN shown ELSE gathered
           x == [Locals("returned", "ok") EXCEPT !.items = items]
<1>1. 0 \in 0..MaxTransient - 1 /\ 0 \in 0..MaxRereads - 1 /\ items \in SUBSET Items
  BY Bounds
<1>2. run' = [run EXCEPT ![r] = x] /\ run \in [Callers -> RunLocals]
  BY Types DEF ReturnsItems
<1> HIDE DEF items
<1>3. x \in RunLocals /\ x.items = items /\ x.pc = "returned" /\ x.event = "none" /\ x.result = "ok"
  BY <1>1 DEF Locals, RunLocals, Pcs, Results
<1> HIDE DEF x
<1>4. run'[r] = x
  BY <1>2
<1>5. Ends(r)
  BY <1>3, <1>4 DEF ReturnsItems, Ends, GivesBack
<1> QED
  BY <1>2, <1>3, <1>4, <1>5 DEF items

LEMMA ShownType ==
  ASSUME TypeOK, NEW r \in Callers
  PROVE  turn[r].items \in SUBSET Items /\ Shown(r) \in SUBSET Items
<1>1. turn[r] \in Turn
  BY Types
<1> QED
  BY <1>1 DEF Turn, Shown

\* All that is assumed of the caller that moves.
Ready(r) ==
  /\ TypeOK /\ BuffersTrue /\ Concluded(r) /\ Locked(r)
  /\ r \in Runs => Gathering(r)

CallerLocals(r) ==
  /\ run' \in [Callers -> RunLocals] /\ \A s \in Callers \ {r} : run'[s] = run[s]
  /\ Ends(r) \/ Begins(r) \/ GoesOn(r)

\* The parts of Run that gather items.
LEMMA PendingCaptured ==
  ASSUME NEW r \in Runs, Ready(r), NEW gathered \in capturePendingEvents(r)
  PROVE  /\ gathered \in SUBSET Items
         /\ run[r].items \subseteq gathered /\ gathered \subseteq turn[r].items
         /\ \A n : Event(r, "item", n) \in Range(broker.ch[r].buf) => <<r, n>> \in gathered
<1> DEFINE E == Range(broker.ch[r].buf)
<1>1. r \in Callers /\ TypeOK /\ BuffersTrue /\ run[r].items \subseteq turn[r].items
  BY Kinded DEF Ready, Gathering
<1>2. gathered \in captureEvent(r, E) /\ E \in SUBSET Events /\ \A e \in E : Truth(e)
  BY <1>1, BufferedTrue DEF capturePendingEvents
<1> HIDE DEF E
<1>3. /\ run[r].items \subseteq gathered /\ gathered \subseteq turn[r].items
      /\ \A n : Event(r, "item", n) \in E => <<r, n>> \in gathered
  BY <1>1, <1>2, Captured
<1>4. turn[r].items \in SUBSET Items
  BY <1>1, ShownType
<1> QED
  BY <1>3, <1>4 DEF E

LEMMA RunDrains ==
  ASSUME NEW r \in Runs, Ready(r), ReadOutput(r) \/ RetryDrains(r)
  PROVE  CallerLocals(r)
<1>0. /\ r \in Callers /\ TypeOK /\ run \in [Callers -> RunLocals] /\ run[r] \in RunLocals
      /\ Concluded(r) /\ 0 \in 0..MaxTransient - 1
  BY Kinded, Types, Bounds DEF Ready
<1>1. run[r].pc \in {"poll", "retry"} /\ Terminal(r)
  BY <1>0 DEF ReadOutput, RetryDrains, Concluded
<1>2. PICK gathered \in capturePendingEvents(r) :
        \/ \E shown \in {Shown(r), {}} : ReturnsItems(r, shown, gathered)
        \/ run' = [run EXCEPT ![r].pc = "retry", ![r].transient = 0] /\ UNCHANGED turnMu
        \/ run' = [run EXCEPT ![r].pc = "reread"] /\ UNCHANGED turnMu
  BY DEF ReadOutput, RetryDrains, Goes
<1>3. gathered \in SUBSET Items /\ Shown(r) \in SUBSET Items /\ {} \in SUBSET Items
  BY <1>0, PendingCaptured, ShownType
<1>4. ASSUME NEW shown \in {Shown(r), {}}, ReturnsItems(r, shown, gathered) PROVE CallerLocals(r)
  BY <1>0, <1>1, <1>3, <1>4, ReturnsItemsEnds DEF CallerLocals
<1>5. CASE run' = [run EXCEPT ![r].pc = "retry", ![r].transient = 0] /\ UNCHANGED turnMu
  BY <1>0, <1>1, <1>5 DEF CallerLocals, GoesOn, RunLocals, Pcs, Concluded
<1>6. CASE run' = [run EXCEPT ![r].pc = "reread"] /\ UNCHANGED turnMu
  BY <1>0, <1>1, <1>6 DEF CallerLocals, GoesOn, RunLocals, Pcs, Concluded
<1> QED
  BY <1>2, <1>4, <1>5, <1>6

LEMMA RunRetries ==
  ASSUME NEW r \in Callers, Ready(r), RetryReads(r) \/ RetryCancelled(r) \/ ReadFinal(r)
  PROVE  CallerLocals(r)
<1>0. /\ TypeOK /\ run \in [Callers -> RunLocals] /\ run[r] \in RunLocals
      /\ Concluded(r) /\ MaxRereads \in Nat
  BY Kinded, Types, Bounds DEF Ready
<1>1. run[r].pc \in {"retry", "reread", "final"} /\ r \in Runs /\ Terminal(r)
  BY <1>0 DEF RetryReads, RetryCancelled, ReadFinal, Concluded
<1>2. /\ run[r].items \in SUBSET Items /\ Shown(r) \in SUBSET Items /\ {} \in SUBSET Items
  BY <1>0, ShownType DEF RunLocals
<1>3. \/ \E shown \in {Shown(r), {}}, gathered \in {run[r].items, {}} : ReturnsItems(r, shown, gathered)
      \/ /\ run' = [run EXCEPT ![r].pc = "retry", ![r].rereads = @ + 1] /\ UNCHANGED turnMu
         /\ run[r].rereads + 1 # MaxRereads
      \/ run' = [run EXCEPT ![r].pc = "poll"] /\ UNCHANGED turnMu
  BY DEF RetryReads, RetryCancelled, ReadFinal, Goes
<1>4. ASSUME NEW shown \in {Shown(r), {}}, NEW gathered \in {run[r].items, {}},
             ReturnsItems(r, shown, gathered)
      PROVE  CallerLocals(r)
  BY <1>0, <1>1, <1>2, <1>4, ReturnsItemsEnds DEF CallerLocals
<1>5. CASE /\ run' = [run EXCEPT ![r].pc = "retry", ![r].rereads = @ + 1] /\ UNCHANGED turnMu
           /\ run[r].rereads + 1 # MaxRereads
  <2>1. run[r].rereads + 1 \in 0..MaxRereads - 1
    BY <1>0, <1>5 DEF RunLocals
  <2> QED
    BY <1>0, <1>1, <1>5, <2>1 DEF CallerLocals, GoesOn, RunLocals, Pcs, Concluded
<1>6. CASE run' = [run EXCEPT ![r].pc = "poll"] /\ UNCHANGED turnMu
  BY <1>0, <1>1, <1>6 DEF CallerLocals, GoesOn, RunLocals, Pcs, Concluded
<1> QED
  BY <1>3, <1>4, <1>5, <1>6

LEMMA GivesUp ==
  ASSUME NEW r \in Callers, Ready(r),
         \/ TurnStartFails(r) \/ ReadTurnOver(r) \/ ReadTurnFails(r)
         \/ SelectCancelled(r) \/ StreamSubClosed(r) \/ StreamCancelled(r)
  PROVE  CallerLocals(r)
<1>1. run[r].pc \notin {"idle", "returned"} /\ TypeOK
  BY DEF TurnStartFails, ReadTurnOver, ReadTurnFails, SelectCancelled, StreamSubClosed,
       StreamCancelled, Ready
<1>2. \/ Returns(r, "error") \/ Returns(r, "cut off") \/ Returns(r, "cancelled")
      \/ Returns(r, "ok") /\ Terminal(r)
  BY DEF TurnStartFails, ReadTurnOver, ReadTurnFails, SelectCancelled, StreamSubClosed,
       StreamCancelled
<1>3. {"error", "cut off", "cancelled", "ok"} \subseteq Results \ {"none"}
  BY DEF Results
<1> QED
  BY <1>1, <1>2, <1>3, ReturnsEnds DEF CallerLocals

LEMMA Starts ==
  ASSUME NEW r \in Callers, Ready(r),
         Lock(r) \/ SubscribeStep(r) \/ TurnStart(r) \/ TurnStartReturns(r)
  PROVE  CallerLocals(r)
<1>0. run \in [Callers -> RunLocals] /\ run[r] \in RunLocals /\ Concluded(r)
  BY Types DEF Ready
<1>1. CASE Lock(r)
  BY <1>0, <1>1 DEF Lock, Goes, CallerLocals, Begins, RunLocals, Pcs
<1>2. CASE SubscribeStep(r)
  BY <1>0, <1>2, Kinded DEF SubscribeStep, AfterSubscribe, CallerLocals, GoesOn, RunLocals, Pcs, Concluded
<1>3. CASE TurnStart(r)
  BY <1>0, <1>3 DEF TurnStart, Goes, CallerLocals, GoesOn, RunLocals, Pcs, Concluded
<1>4. CASE TurnStartReturns(r)
  BY <1>0, <1>4 DEF TurnStartReturns, Goes, CallerLocals, GoesOn, RunLocals, Pcs, Concluded
<1> QED
  BY <1>1, <1>2, <1>3, <1>4

LEMMA Waits ==
  ASSUME NEW r \in Callers, Ready(r), ReadTurn(r) \/ SelectClosed(r) \/ SelectTick(r)
  PROVE  CallerLocals(r)
<1>0. /\ TypeOK /\ run \in [Callers -> RunLocals] /\ run[r] \in RunLocals /\ Concluded(r)
      /\ 0 \in 0..MaxTransient - 1
  BY Types, Bounds DEF Ready
<1>1. CASE ReadTurn(r)
  <2>1. captureTurn(r, Shown(r)) \in SUBSET Items
    BY <1>0, ShownType DEF captureTurn, mergeItems, RunLocals
  <2> QED
    BY <1>0, <1>1, <2>1 DEF ReadTurn, CallerLocals, GoesOn, RunLocals, Pcs, Concluded
<1>2. CASE SelectClosed(r)
  BY <1>0, <1>2 DEF SelectClosed, CallerLocals, GoesOn, RunLocals, Pcs, Concluded
<1>3. CASE SelectTick(r)
  BY <1>0, <1>3 DEF SelectTick, Goes, CallerLocals, GoesOn, RunLocals, Pcs, Concluded
<1> QED
  BY <1>1, <1>2, <1>3

LEMMA WaitsOn ==
  ASSUME NEW r \in Callers, Ready(r), ReadTurnTransient(r)
  PROVE  CallerLocals(r)
<1>0. /\ TypeOK /\ run \in [Callers -> RunLocals] /\ run[r] \in RunLocals /\ Concluded(r)
      /\ MaxTransient \in Nat /\ "error" \in Results \ {"none"}
      /\ run[r].pc \in {"poll", "check"}
  BY Types, Bounds DEF Ready, Results, ReadTurnTransient
<1>1. CASE run[r].transient + 1 >= MaxTransient
  <2>1. Returns(r, "error")
    BY <1>1 DEF ReadTurnTransient
  <2> QED
    BY <1>0, <2>1, ReturnsEnds DEF CallerLocals
<1>2. CASE ~(run[r].transient + 1 >= MaxTransient)
  <2>1. run[r].transient + 1 \in 0..MaxTransient - 1
    BY <1>0, <1>2 DEF RunLocals
  <2>2. /\ run' = [run EXCEPT ![r].pc = IF run[r].pc = "poll" THEN "select" ELSE "poll",
                              ![r].transient = @ + 1]
        /\ UNCHANGED turnMu
    BY <1>2 DEF ReadTurnTransient
  <2> QED
    BY <1>0, <2>1, <2>2 DEF CallerLocals, GoesOn, RunLocals, Pcs, Concluded
<1> QED
  BY <1>1, <1>2

LEMMA EventCaptured ==
  ASSUME NEW r \in Runs, Ready(r), Receivable(broker, r),
         NEW items \in captureEvent(r, {Oldest(broker, r)})
  PROVE  /\ items \in SUBSET Items
         /\ run[r].items \subseteq items /\ items \subseteq turn[r].items
         /\ \A n : Event(r, "item", n) = Oldest(broker, r) => <<r, n>> \in items
<1> DEFINE E == {Oldest(broker, r)}
<1>1. r \in Callers /\ TypeOK /\ BuffersTrue /\ run[r].items \subseteq turn[r].items
  BY Kinded DEF Ready, Gathering
<1>2. items \in captureEvent(r, E) /\ E \in SUBSET Events /\ \A e \in E : Truth(e)
  BY <1>1, BufferedTrue
<1>3. \A n : Event(r, "item", n) = Oldest(broker, r) => Event(r, "item", n) \in E
  OBVIOUS
<1> HIDE DEF E
<1>4. /\ run[r].items \subseteq items /\ items \subseteq turn[r].items
      /\ \A n : Event(r, "item", n) \in E => <<r, n>> \in items
  BY <1>1, <1>2, Captured
<1>5. turn[r].items \in SUBSET Items
  BY <1>1, ShownType
<1> QED
  BY <1>3, <1>4, <1>5

LEMMA Selects ==
  ASSUME NEW r \in Callers, Ready(r), SelectEvent(r)
  PROVE  CallerLocals(r)
<1>0. /\ TypeOK /\ run \in [Callers -> RunLocals] /\ run[r] \in RunLocals /\ Concluded(r)
      /\ BuffersTrue /\ run[r].pc = "select" /\ Receivable(broker, r) /\ UNCHANGED turnMu
  BY Types DEF Ready, SelectEvent
<1> DEFINE e == Oldest(broker, r)
           p == AfterEvent(r, e)
<1>1. p \in {"poll", "final", "check"} /\ (p = "final" => r \in Runs /\ Terminal(r))
  BY <1>0, BufferedTrue DEF AfterEvent, eventMatchesTurn, Truth
<1>2. PICK items \in IF r \in Runs THEN captureEvent(r, {e}) ELSE {{}} :
        run' = [run EXCEPT ![r].pc = p, ![r].items = items]
  BY DEF SelectEvent
<1>3. items \in SUBSET Items
  BY <1>0, <1>2, EventCaptured
<1> HIDE DEF p
<1> QED
  BY <1>0, <1>1, <1>2, <1>3 DEF CallerLocals, GoesOn, RunLocals, Pcs, Concluded

LEMMA Streaming ==
  ASSUME NEW r \in Streams, Ready(r), StreamEvent(r) \/ StreamPush(r)
  PROVE  CallerLocals(r)
<1>0. /\ r \in Callers /\ TypeOK /\ run \in [Callers -> RunLocals] /\ run[r] \in RunLocals
      /\ Concluded(r) /\ BuffersTrue
  BY Kinded, Types DEF Ready
<1>1. CASE StreamEvent(r)
  <2> DEFINE e == Oldest(broker, r)
  <2>1. e \in Events /\ Truth(e) /\ run[r].pc = "stream" /\ UNCHANGED turnMu
    BY <1>0, <1>1, BufferedTrue DEF StreamEvent
  <2>2. CASE ~eventMatchesTurn(r, e)
    BY <1>0, <1>1, <2>1, <2>2 DEF StreamEvent, CallerLocals, GoesOn, Concluded
  <2>3. CASE eventMatchesTurn(r, e)
    <3>1. run' = [run EXCEPT ![r].pc = "push", ![r].event = e.kind]
      BY <1>1, <2>3 DEF StreamEvent
    <3>2. e.kind \in Kinds /\ (e.kind = "turn/completed" => Terminal(r))
      BY <2>1, <2>3 DEF Events, Kinds, Truth, eventMatchesTurn
    <3> HIDE DEF e
    <3> QED
      BY <1>0, <2>1, <3>1, <3>2 DEF CallerLocals, GoesOn, RunLocals, Pcs, Kinds, Concluded
  <2> QED
    BY <2>2, <2>3
<1>2. CASE StreamPush(r)
  <2>0. run[r].pc = "push" /\ (run[r].event = "turn/completed" => Terminal(r))
    BY <1>0, <1>2 DEF StreamPush, Concluded
  <2>1. CASE run[r].event \in {"turn/completed", "error"}
    <3>1. Returns(r, run[r].event) /\ run[r].event \in Results \ {"none"}
      BY <1>2, <2>1 DEF StreamPush, Results
    <3> QED
      BY <1>0, <2>0, <2>1, <3>1, ReturnsEnds DEF CallerLocals
  <2>2. CASE run[r].event \notin {"turn/completed", "error"}
    <3>1. run' = [run EXCEPT ![r].pc = "stream"] /\ UNCHANGED turnMu
      BY <1>2, <2>2 DEF StreamPush, Goes
    <3> QED
      BY <1>0, <2>0, <2>2, <3>1 DEF CallerLocals, GoesOn, RunLocals, Pcs, Concluded
  <2> QED
    BY <2>1, <2>2
<1> QED
  BY <1>1, <1>2

LEMMA CallerLocalsHold ==
  ASSUME NEW r \in Callers, Ready(r), CallerMoves(r)
  PROVE  CallerLocals(r)
<1>1. RetryDrains(r) => r \in Runs
  BY DEF RetryDrains, Ready, Concluded
<1> QED
  BY <1>1, Starts, GivesUp, Waits, WaitsOn, Selects, RunDrains, RunRetries, Streaming
     DEF CallerMoves, CallerStep, WaitStep, StreamStep, ReadOutput

-----------------------------------------------------------------------------
(* The notifications on their way. *)

LEMMA RemovedFields ==
  ASSUME NEW s \in Seq(Events), NEW i \in 1..Len(s)
  PROVE  /\ RemoveAt(s, i) \in Seq(Events) /\ Len(RemoveAt(s, i)) = Len(s) - 1
         /\ \A j \in 1..Len(s) - 1 : RemoveAt(s, i)[j] = IF j < i THEN s[j] ELSE s[j + 1]
<1> DEFINE a == SubSeq(s, 1, i - 1)
           b == SubSeq(s, i + 1, Len(s))
<1>0. Len(s) \in Nat /\ i \in Nat /\ i >= 1 /\ i <= Len(s)
  OBVIOUS
<1>1. a \in Seq(Events) /\ Len(a) = i - 1 /\ \A j \in 1..i - 1 : a[j] = s[j]
  BY <1>0
<1>2. b \in Seq(Events) /\ Len(b) = Len(s) - i /\ \A j \in 1..Len(s) - i : b[j] = s[i + j]
  BY <1>0
<1> HIDE DEF a, b
<1>3. a \o b \in Seq(Events) /\ Len(a \o b) = Len(s) - 1
  <2>0. a \in Seq(Events) /\ b \in Seq(Events)
    BY <1>1, <1>2
  <2>1. a \o b \in Seq(Events) /\ Len(a \o b) = Len(a) + Len(b)
    BY <2>0, ConcatProperties
  <2> QED
    BY <1>0, <1>1, <1>2, <2>1
<1>4. ASSUME NEW j \in 1..Len(s) - 1 PROVE (a \o b)[j] = IF j < i THEN s[j] ELSE s[j + 1]
  <2>1. CASE j < i
    BY <1>0, <1>1, <1>2, <2>1
  <2>2. CASE ~(j < i)
    <3>1. (a \o b)[j] = b[j - (i - 1)]
      BY <1>0, <1>1, <1>2, <2>2
    <3>2. j - (i - 1) \in 1..Len(s) - i /\ i + (j - (i - 1)) = j + 1
      BY <1>0, <2>2
    <3> QED
      BY <1>2, <2>2, <3>1, <3>2
  <2> QED
    BY <2>1, <2>2
<1>5. RemoveAt(s, i) = a \o b
  BY DEF RemoveAt, a, b
<1> QED
  BY <1>3, <1>4, <1>5

\* What is removed is all that is gone.
LEMMA RemovedKeeps ==
  ASSUME NEW s \in Seq(Events), NEW i \in 1..Len(s), NEW k \in 1..Len(s), k # i
  PROVE  \E j \in 1..Len(RemoveAt(s, i)) : RemoveAt(s, i)[j] = s[k]
<1>1. CASE k < i
  <2>1. k \in 1..Len(s) - 1
    BY <1>1
  <2> QED
    BY <1>1, <2>1, RemovedFields
<1>2. CASE k > i
  <2>1. k - 1 \in 1..Len(s) - 1 /\ ~(k - 1 < i) /\ (k - 1) + 1 = k
    BY <1>2
  <2> QED
    BY <2>1, RemovedFields
<1> QED
  BY <1>1, <1>2

LEMMA PrefixFields ==
  ASSUME NEW s \in Seq(Events), NEW n \in 0..Len(s)
  PROVE  /\ SubSeq(s, 1, n) \in Seq(Events) /\ Len(SubSeq(s, 1, n)) = n
         /\ \A j \in 1..n : SubSeq(s, 1, n)[j] = s[j]
  OBVIOUS

\* The server's steps send at most one notification, and it is true.
LEMMA ServerNotes ==
  ASSUME Inv, NEW r \in Callers, ServerMoves(r)
  PROVE  \/ UNCHANGED notes
         \/ \E e \in Events : notes' = Append(notes, e) /\ Truth(e)'
<1>0. turn \in [Callers -> Turn] /\ turn[r] \in Turn /\ MaxItems \in Nat
  BY Types, Bounds DEF Inv
<1>1. CASE ServerStartsTurn(r) \/ ServerStores(r)
  BY <1>1 DEF ServerStartsTurn, ServerStores
<1>2. CASE ServerEndsTurn(r)
  <2>0. 0 \in 0..MaxItems
    BY <1>0
  <2>1. Event(r, "turn/completed", 0) \in Events
    BY <2>0 DEF Event, Events
  <2>2. Truth(Event(r, "turn/completed", 0))'
    BY <1>0, <1>2 DEF ServerEndsTurn, Truth, Event, Terminal, Turn
  <2> QED
    BY <1>2, <2>1, <2>2 DEF ServerEndsTurn
<1>3. CASE ServerEmits(r)
  <2>1. /\ turn[r].events + 1 \in 0..MaxItems /\ 0 \in 0..MaxItems
    BY <1>0, <1>3 DEF ServerEmits, Turn
  <2>2. PICK n \in 0..MaxItems :
        \/ /\ notes' = Append(notes, Event(r, "item", n))
           /\ turn' = [turn EXCEPT ![r].events = n,
                          ![r].items = IF r \in Runs THEN @ \cup {<<r, n>>} ELSE @]
        \/ notes' = Append(notes, Event(r, "error", 0))
    BY <1>3, <2>1 DEF ServerEmits
  <2>3. Event(r, "item", n) \in Events /\ Event(r, "error", 0) \in Events
    BY <2>1 DEF Event, Events
  <2>4. Truth(Event(r, "error", 0))'
    BY DEF Truth, Event
  <2>5. ASSUME turn' = [turn EXCEPT ![r].events = n,
                          ![r].items = IF r \in Runs THEN @ \cup {<<r, n>>} ELSE @]
        PROVE  Truth(Event(r, "item", n))'
    BY <1>0, <2>5 DEF Truth, Event, Turn
  <2> QED
    BY <2>2, <2>3, <2>4, <2>5
<1> QED
  BY <1>1, <1>2, <1>3 DEF ServerMoves

TrueEvents == {e \in Events : Truth(e)}

LEMMA NotesStep == ASSUME Inv, [Next]_vars PROVE notes' \in Seq(Events) /\ NotesTrue'
<1>0. /\ TypeOK /\ notes \in Seq(Events) /\ NotesTrue /\ \A r \in Callers : Concluded(r)
      /\ Len(notes) \in Nat
  BY Types DEF Inv
<1>1. TrueEvents \subseteq TrueEvents'
  BY <1>0, TruthStays DEF TrueEvents
<1>2. \A i \in 1..Len(notes) : notes[i] \in TrueEvents'
  BY <1>0, <1>1 DEF NotesTrue, TrueEvents
<1>3. CASE UNCHANGED notes
  BY <1>0, <1>2, <1>3 DEF NotesTrue, TrueEvents
<1>4. ASSUME NEW e \in Events, notes' = Append(notes, e), Truth(e)'
      PROVE  notes' \in Seq(Events) /\ NotesTrue'
  BY <1>0, <1>2, <1>4 DEF NotesTrue, TrueEvents
<1>5. CASE NotificationLoop
  <2>1. PICK i \in 1..Len(notes) : notes' = RemoveAt(notes, i)
    BY <1>5 DEF NotificationLoop
  <2>2. /\ notes' \in Seq(Events) /\ Len(notes') = Len(notes) - 1
        /\ \A j \in 1..Len(notes) - 1 : notes'[j] = IF j < i THEN notes[j] ELSE notes[j + 1]
    BY <1>0, <2>1, RemovedFields
  <2>3. ASSUME NEW j \in 1..Len(notes') PROVE notes'[j] \in TrueEvents'
    <3>1. j \in 1..Len(notes) /\ j + 1 \in 1..Len(notes) /\ j \in 1..Len(notes) - 1
      BY <1>0, <2>2
    <3> QED
      BY <1>2, <2>2, <3>1
  <2> QED
    BY <2>2, <2>3 DEF NotesTrue, TrueEvents
<1>6. CASE ConnectionLost
  <2>1. PICK n \in 0..Len(notes) : notes' = SubSeq(notes, 1, n)
    BY <1>6 DEF ConnectionLost
  <2>2. /\ notes' \in Seq(Events) /\ Len(notes') = n /\ \A j \in 1..n : notes'[j] = notes[j]
    BY <1>0, <2>1, PrefixFields
  <2>3. ASSUME NEW j \in 1..Len(notes') PROVE notes'[j] \in TrueEvents'
    <3>1. j \in 1..Len(notes) /\ j \in 1..n
      BY <1>0, <2>2
    <3> QED
      BY <1>2, <2>2, <3>1
  <2> QED
    BY <2>2, <2>3 DEF NotesTrue, TrueEvents
<1> QED
  BY <1>3, <1>4, <1>5, <1>6, NextSplit, CallerFrame, ServerNotes
     DEF Cancel, ConsumerTakes, CloseEvents, CloseTransport, vars

-----------------------------------------------------------------------------
(* Every step keeps the invariant. *)

LEMMA ReadyCallers == ASSUME Inv, NEW r \in Callers PROVE Ready(r)
  BY DEF Inv, Ready

\* A channel keeps its capacity, and holds true events only.
LEMMA BrokerStep ==
  ASSUME Inv, [Next]_vars
  PROVE  /\ broker' \in Brokers(Events) /\ BuffersTrue' /\ Deregistered'
         /\ \A s \in Callers : Len(broker'.ch[s].buf) <= SubCap
<1>0. /\ TypeOK /\ broker \in Brokers(Events) /\ \A r \in Callers : Concluded(r)
      /\ notes \in Seq(Events) /\ SubCap \in Nat /\ Deregistered
  BY Types, Bounds DEF Inv
<1>1. TrueEvents \subseteq TrueEvents'
  BY <1>0, TruthStays DEF TrueEvents
<1>2. ASSUME NEW s \in Callers
      PROVE  /\ broker.ch[s].buf \in Seq(Events) /\ Len(broker.ch[s].buf) <= SubCap
             /\ \A i \in 1..Len(broker.ch[s].buf) : broker.ch[s].buf[i] \in TrueEvents'
  <2>1. broker.ch[s].buf \in Seq(Events) /\ Len(broker.ch[s].buf) <= SubCap
    BY <1>0, BufferTypes DEF TypeOK
  <2>2. \A i \in 1..Len(broker.ch[s].buf) : broker.ch[s].buf[i] \in TrueEvents
    BY <2>1 DEF Inv, BuffersTrue, TrueEvents
  <2> QED
    BY <1>1, <2>1, <2>2
<1>3. SUFFICES /\ broker' \in Brokers(Events) /\ Deregistered'
               /\ \A s \in Callers : /\ Len(broker'.ch[s].buf) <= SubCap
                                     /\ \A i \in 1..Len(broker'.ch[s].buf) :
                                          broker'.ch[s].buf[i] \in TrueEvents'
  BY DEF BuffersTrue, TrueEvents
<1>4. CASE UNCHANGED broker
  BY <1>0, <1>2, <1>4 DEF Deregistered
<1>5. ASSUME NEW r \in Callers, CallerMoves(r)
      PROVE  /\ broker' \in Brokers(Events) /\ Deregistered'
             /\ \A s \in Callers : /\ Len(broker'.ch[s].buf) <= SubCap
                                   /\ \A i \in 1..Len(broker'.ch[s].buf) :
                                        broker'.ch[s].buf[i] \in TrueEvents'
  <2>1. /\ broker' \in Brokers(Events) /\ broker'.closed = broker.closed
        /\ \A s \in Callers \ {r} : broker'.ch[s] = broker.ch[s]
        /\ broker.closed => broker'.subs \subseteq broker.subs
        /\ \/ broker'.ch[r].buf \in {broker.ch[r].buf, <<>>}
           \/ Receivable(broker, r) /\ broker'.ch[r].buf = Tail(broker.ch[r].buf)
    BY <1>0, <1>5, CallerChannels
  <2>2. Deregistered'
    BY <1>0, <2>1 DEF Deregistered
  <2>3. /\ Len(broker'.ch[r].buf) <= SubCap
        /\ \A i \in 1..Len(broker'.ch[r].buf) : broker'.ch[r].buf[i] \in TrueEvents'
    <3>1. CASE broker'.ch[r].buf = broker.ch[r].buf
      BY <1>2, <3>1
    <3>2. CASE broker'.ch[r].buf = <<>>
      <4>1. Len(<<>>) = 0 /\ 1..0 = {}
        OBVIOUS
      <4> QED
        BY <1>0, <3>2, <4>1
    <3>3. CASE Receivable(broker, r) /\ broker'.ch[r].buf = Tail(broker.ch[r].buf)
      <4> DEFINE q == broker.ch[r].buf
      <4>1. q \in Seq(Events) /\ q # <<>> /\ Len(q) <= SubCap
        BY <1>2, <3>3 DEF Receivable
      <4>2. \A i \in 1..Len(q) : q[i] \in TrueEvents'
        BY <1>2
      <4> HIDE DEF q
      <4>3. Len(Tail(q)) = Len(q) - 1 /\ \A i \in 1..Len(Tail(q)) : Tail(q)[i] = q[i + 1] /\ i + 1 \in 1..Len(q)
        BY <4>1
      <4>4. Len(Tail(q)) <= SubCap
        BY <1>0, <4>1, <4>3
      <4>5. broker'.ch[r].buf = Tail(q)
        BY <3>3 DEF q
      <4> QED
        BY <4>2, <4>3, <4>4, <4>5
    <3> QED
      BY <2>1, <3>1, <3>2, <3>3
  <2> QED
    BY <1>2, <2>1, <2>2, <2>3
<1>6. CASE NotificationLoop
  <2>1. PICK i \in 1..Len(notes) : broker' = publish(broker, notes[i])
    BY <1>6 DEF NotificationLoop
  <2>2. notes[i] \in Events /\ notes[i] \in TrueEvents'
    BY <1>0, <1>1 DEF Inv, NotesTrue, TrueEvents
  <2>3. /\ broker' \in Brokers(Events) /\ broker'.closed = broker.closed
        /\ broker'.subs \subseteq broker.subs
        /\ \A s \in Callers :
             \/ broker'.ch[s].buf = broker.ch[s].buf
             \/ /\ broker'.ch[s].buf = Append(broker.ch[s].buf, notes[i])
                /\ Len(broker.ch[s].buf) < SubCap
    BY <1>0, <2>1, <2>2, PublishFields
  <2>4. Deregistered'
    BY <1>0, <2>3 DEF Deregistered
  <2>5. ASSUME NEW s \in Callers
        PROVE  /\ Len(broker'.ch[s].buf) <= SubCap
               /\ \A j \in 1..Len(broker'.ch[s].buf) : broker'.ch[s].buf[j] \in TrueEvents'
    <3> DEFINE q == broker.ch[s].buf
               e == notes[i]
    <3>1. q \in Seq(Events) /\ Len(q) <= SubCap /\ \A j \in 1..Len(q) : q[j] \in TrueEvents'
      BY <1>2
    <3>2. e \in Events /\ e \in TrueEvents'
      BY <2>2
    <3>3. broker'.ch[s].buf = q \/ (broker'.ch[s].buf = Append(q, e) /\ Len(q) < SubCap)
      BY <2>3
    <3> HIDE DEF q, e
    <3>4. Len(Append(q, e)) = Len(q) + 1 /\ Len(q) \in Nat
      BY <3>1, <3>2
    <3>5. \A j \in 1..Len(Append(q, e)) : Append(q, e)[j] \in TrueEvents'
      BY <3>1, <3>2
    <3>6. Len(q) < SubCap => Len(Append(q, e)) <= SubCap
      BY <1>0, <3>4
    <3> QED
      BY <3>1, <3>3, <3>5, <3>6
  <2> QED
    BY <2>3, <2>4, <2>5
<1>7. CASE CloseEvents
  <2>1. /\ broker' \in Brokers(Events) /\ broker'.subs = {}
        /\ \A s \in Callers : broker'.ch[s].buf = broker.ch[s].buf
    BY <1>0, <1>7, CloseFields DEF CloseEvents, Deregistered
  <2> QED
    BY <1>2, <2>1 DEF Deregistered
<1> QED
  BY <1>4, <1>5, <1>6, <1>7, NextSplit, ServerFrame
     DEF Cancel, ConsumerTakes, CloseTransport, ConnectionLost, vars

LEMMA OutStep ==
  ASSUME Inv, [Next]_vars
  PROVE  out' \in [Streams -> Seq(Kinds)] /\ \A s \in Streams : Len(out'[s]) <= OutCap
<1>0. /\ TypeOK /\ out \in [Streams -> Seq(Kinds)] /\ OutCap \in Nat
      /\ \A s \in Streams : out[s] \in Seq(Kinds) /\ Len(out[s]) <= OutCap
  BY Types, Bounds DEF Inv, TypeOK, Kinds
<1>1. CASE UNCHANGED out
  BY <1>0, <1>1
<1>2. ASSUME NEW r \in Streams, StreamPush(r)
      PROVE  out' \in [Streams -> Seq(Kinds)] /\ \A s \in Streams : Len(out'[s]) <= OutCap
  <2> DEFINE q == Append(out[r], run[r].event)
  <2>1. run[r] \in RunLocals /\ Concluded(r) /\ run[r].pc = "push" /\ Len(out[r]) < OutCap
    BY <1>0, <1>2, Types, Kinded DEF Inv, StreamPush
  <2>2. run[r].event \in Kinds
    BY <2>1 DEF RunLocals, Concluded
  <2>3. q \in Seq(Kinds) /\ Len(q) <= OutCap
    BY <1>0, <2>1, <2>2
  <2>4. out' = [out EXCEPT ![r] = q]
    BY <1>2 DEF StreamPush
  <2> HIDE DEF q
  <2> QED
    BY <1>0, <2>3, <2>4
<1>3. ASSUME NEW r \in Streams, ConsumerTakes(r)
      PROVE  out' \in [Streams -> Seq(Kinds)] /\ \A s \in Streams : Len(out'[s]) <= OutCap
  <2> DEFINE q == Tail(out[r])
  <2>1. q \in Seq(Kinds) /\ Len(q) <= OutCap
    BY <1>0, <1>3 DEF ConsumerTakes
  <2>2. out' = [out EXCEPT ![r] = q]
    BY <1>3 DEF ConsumerTakes
  <2> HIDE DEF q
  <2> QED
    BY <1>0, <2>1, <2>2
<1>4. ASSUME NEW r \in Callers, CallerMoves(r)
      PROVE  UNCHANGED out \/ (r \in Streams /\ StreamPush(r))
  BY <1>4 DEF CallerMoves, Lock, CallerStep, WaitStep, StreamStep, SubscribeStep, TurnStart,
       TurnStartReturns, TurnStartFails, ReadTurn, ReadTurnOver, ReadOutput, RetryDrains,
       RetryReads, RetryCancelled, ReadTurnTransient, ReadTurnFails, SelectEvent, SelectClosed,
       SelectTick, SelectCancelled, ReadFinal, StreamEvent, StreamSubClosed, StreamCancelled
<1> QED
  BY <1>1, <1>2, <1>3, <1>4, NextSplit, ServerFrame
     DEF Cancel, NotificationLoop, CloseEvents, CloseTransport, ConnectionLost, vars

\* What the server does to the items, and when.
LEMMA ServerItems ==
  ASSUME TypeOK, NEW r \in Callers, ServerMoves(r)
  PROVE  \/ /\ turn'[r].items = turn[r].items
            /\ turn[r].stored \subseteq turn[r].items => turn'[r].stored \subseteq turn'[r].items
            /\ \/ turn'[r].status = turn[r].status
               \/ turn'[r].status \in {"active", "ended"}
         \/ /\ r \in Runs /\ turn'[r].status = "active" /\ turn[r].status = "active"
            /\ turn'[r].stored = turn[r].stored
            /\ \E n \in 1..MaxItems : /\ turn'[r].items = turn[r].items \cup {<<r, n>>}
                                      /\ notes' = Append(notes, Event(r, "item", n))
<1>0. turn \in [Callers -> Turn] /\ turn[r] \in Turn /\ MaxItems \in Nat
  BY Types, Bounds
<1>1. CASE ServerStartsTurn(r)
  BY <1>0, <1>1 DEF ServerStartsTurn, Turn
<1>2. CASE ServerStores(r)
  BY <1>0, <1>2 DEF ServerStores, Turn
<1>3. CASE ServerEndsTurn(r)
  BY <1>0, <1>3 DEF ServerEndsTurn, Turn
<1>4. CASE ServerEmits(r)
  <2>1. turn[r].events + 1 \in 1..MaxItems /\ turn[r].status = "active"
    BY <1>0, <1>4 DEF ServerEmits, Turn
  <2>2. PICK n \in 1..MaxItems :
          \/ /\ turn' = [turn EXCEPT ![r].events = n,
                            ![r].items = IF r \in Runs THEN @ \cup {<<r, n>>} ELSE @]
             /\ notes' = Append(notes, Event(r, "item", n))
          \/ turn' = [turn EXCEPT ![r].events = n]
    BY <1>4, <2>1 DEF ServerEmits
  <2>3. CASE r \in Runs /\ turn' = [turn EXCEPT ![r].events = n, ![r].items = @ \cup {<<r, n>>}]
             /\ notes' = Append(notes, Event(r, "item", n))
    BY <1>0, <2>1, <2>3 DEF Turn
  <2>4. CASE turn' = [turn EXCEPT ![r].events = n]
    BY <1>0, <2>1, <2>4 DEF Turn
  <2>5. CASE r \notin Runs /\ turn' = [turn EXCEPT ![r].events = n, ![r].items = @]
    BY <1>0, <2>1, <2>5 DEF Turn
  <2> QED
    BY <2>2, <2>3, <2>4, <2>5
<1> QED
  BY <1>1, <1>2, <1>3, <1>4 DEF ServerMoves

LEMMA ConcludedStep ==
  ASSUME Inv, [Next]_vars, NEW s \in Callers
  PROVE  Concluded(s)'
<1>0. TypeOK /\ (\A r \in Callers : Concluded(r)) /\ Concluded(s)
  BY DEF Inv
<1>1. Terminal(s) => Terminal(s)'
  BY <1>0, TurnGrows
<1>2. ASSUME UNCHANGED run[s], UNCHANGED turn[s] PROVE Concluded(s)'
  BY <1>0, <1>2 DEF Concluded, Terminal
<1>3. ASSUME NEW r \in Callers, CallerMoves(r) PROVE Concluded(s)'
  <2>1. CASE r # s
    BY <1>0, <1>2, <1>3, <2>1, ReadyCallers, CallerTurn, CallerLocalsHold DEF CallerLocals
  <2>2. CASE r = s
    <3>1. /\ turn'[s].items = turn[s].items /\ turn'[s].stored = turn[s].stored
          /\ turn'[s].status = turn[s].status
             \/ /\ run[s].pc \in {"start", "starting"} /\ run'[s].pc \in {"starting", "returned"}
                /\ turn[s].status \in {"none", "requested"}
                /\ turn'[s].status \in {"requested", "refused"}
      BY <1>0, <1>3, <2>2, CallerTurn
    <3>2. Ends(s) \/ Begins(s) \/ GoesOn(s)
      BY <1>3, <2>2, ReadyCallers, CallerLocalsHold DEF CallerLocals
    <3>3. run[s] \in RunLocals
      BY <1>0, Types
    <3>4. CASE Ends(s)
      BY <1>0, <1>1, <3>1, <3>4 DEF Ends, Concluded
    <3>5. CASE Begins(s)
      BY <1>0, <1>1, <3>1, <3>3, <3>5 DEF Begins, Concluded, RunLocals
    <3>6. CASE GoesOn(s)
      BY <1>0, <1>1, <3>1, <3>6 DEF GoesOn, Concluded
    <3> QED
      BY <3>2, <3>4, <3>5, <3>6
  <2> QED
    BY <2>1, <2>2
<1>4. ASSUME NEW r \in Callers, ServerMoves(r) PROVE Concluded(s)'
  <2>0. UNCHANGED run
    BY <1>4, ServerFrame
  <2>1. CASE r # s
    BY <1>0, <1>2, <1>4, <2>0, <2>1, ServerTurn
  <2>2. CASE r = s
    <3>1. \/ /\ turn'[s].items = turn[s].items
             /\ turn[s].stored \subseteq turn[s].items => turn'[s].stored \subseteq turn'[s].items
             /\ turn'[s].status = turn[s].status \/ turn'[s].status \in {"active", "ended"}
          \/ /\ turn'[s].status = "active" /\ turn'[s].stored = turn[s].stored
             /\ \E n \in 1..MaxItems : turn'[s].items = turn[s].items \cup {<<s, n>>}
      BY <1>0, <1>4, <2>2, ServerItems
    <3>2. turn[s].status = "none" => turn'[s].status = "none"
      BY <1>0, <1>4, <2>2, ServerTurn
    <3> QED
      BY <1>0, <1>1, <2>0, <3>1, <3>2 DEF Concluded
  <2> QED
    BY <2>1, <2>2
<1> QED
  BY <1>2, <1>3, <1>4, NextSplit
     DEF Cancel, ConsumerTakes, NotificationLoop, CloseEvents, CloseTransport, ConnectionLost, vars

LEMMA LockedStep ==
  ASSUME Inv, [Next]_vars, NEW s \in Callers
  PROVE  Locked(s)'
<1>0. TypeOK /\ Locked(s) /\ s # None
  BY Kinded DEF Inv
<1>1. ASSUME UNCHANGED <<run, turnMu>> PROVE Locked(s)'
  BY <1>0, <1>1 DEF Locked
<1>2. ASSUME NEW r \in Callers, CallerMoves(r) PROVE Locked(s)'
  <2>1. /\ Ends(r) \/ Begins(r) \/ GoesOn(r)
        /\ r # s => run'[s] = run[s]
    BY <1>2, ReadyCallers, CallerLocalsHold DEF CallerLocals
  <2>2. run[r] \in RunLocals /\ Locked(r)
    BY <1>0, Types DEF Inv
  <2>3. CASE Ends(r)
    BY <1>0, <2>1, <2>3 DEF Ends, GivesBack, Locked
  <2>4. CASE Begins(r)
    <3>1. r = s => run'[s].pc # "idle"
      BY <2>2, <2>4 DEF Begins, RunLocals
    <3> QED
      BY <1>0, <2>1, <2>4, <3>1 DEF Begins, Locked
  <2>5. CASE GoesOn(r)
    BY <1>0, <2>1, <2>5 DEF GoesOn, Locked
  <2> QED
    BY <2>1, <2>3, <2>4, <2>5
<1> QED
  BY <1>1, <1>2, NextSplit, ServerFrame
     DEF Cancel, ConsumerTakes, NotificationLoop, CloseEvents, CloseTransport, ConnectionLost, vars

LEMMA TypeStep == ASSUME Inv, [Next]_vars PROVE TypeOK'
<1>0. TypeOK /\ (\A r \in Callers : Concluded(r) /\ Locked(r)) /\ Cancellable \subseteq Callers
  BY TurnsAssumption DEF Inv
<1>1. /\ broker' \in Brokers(Events) /\ \A s \in Callers : Len(broker'.ch[s].buf) <= SubCap
  BY BrokerStep
<1>2. out' \in [Streams -> Seq(Kinds)] /\ \A s \in Streams : Len(out'[s]) <= OutCap
  BY OutStep
<1>3. notes' \in Seq(Events)
  BY NotesStep
<1>4. turn' \in [Callers -> Turn]
  <2>1. turn \in [Callers -> Turn]
    BY <1>0, Types
  <2> QED
    BY <1>0, <2>1, NextSplit, CallerTurn, ServerTurn
       DEF Cancel, ConsumerTakes, NotificationLoop, CloseEvents, CloseTransport, ConnectionLost, vars
<1>5. run' \in [Callers -> RunLocals] /\ turnMu' \in Runs \cup Streams \cup {None}
  <2>1. run \in [Callers -> RunLocals] /\ turnMu \in Runs \cup Streams \cup {None}
    BY <1>0, Types
  <2>2. ASSUME NEW r \in Callers, CallerMoves(r)
        PROVE  run' \in [Callers -> RunLocals] /\ turnMu' \in Runs \cup Streams \cup {None}
    <3>1. run' \in [Callers -> RunLocals] /\ (Ends(r) \/ Begins(r) \/ GoesOn(r))
      BY <2>2, ReadyCallers, CallerLocalsHold DEF CallerLocals
    <3>2. run[r].pc = "idle" => r \in Runs \cup Streams
      BY <1>0, Kinded DEF Locked
    <3> QED
      BY <2>1, <3>1, <3>2 DEF Ends, Begins, GoesOn, GivesBack
  <2> QED
    BY <2>1, <2>2, NextSplit, ServerFrame
       DEF Cancel, ConsumerTakes, NotificationLoop, CloseEvents, CloseTransport, ConnectionLost, vars
<1>6. cancelled' \subseteq Callers
  BY <1>0, NextSplit, CallerFrame, ServerFrame
     DEF TypeOK, Cancel, ConsumerTakes, NotificationLoop, CloseEvents, CloseTransport,
         ConnectionLost, vars
<1>7. link' \in {"up", "down", "closing", "closed"}
  BY <1>0, NextSplit, CallerFrame, ServerFrame
     DEF TypeOK, Cancel, ConsumerTakes, NotificationLoop, CloseEvents, CloseTransport,
         ConnectionLost, vars
<1> QED
  BY <1>1, <1>2, <1>3, <1>4, <1>5, <1>6, <1>7
     DEF TypeOK, RunLocals, Pcs, Kinds, Results, Items, Turn

\* A caller that is to subscribe does that next.
LEMMA SubscribesNext ==
  ASSUME NEW r \in Callers, CallerMoves(r), run[r].pc = "subscribe"
  PROVE  SubscribeStep(r)
  BY DEF CallerMoves, Lock, CallerStep, WaitStep, StreamStep, TurnStart,
       TurnStartReturns, TurnStartFails, ReadTurn, ReadTurnOver, ReadOutput, RetryDrains,
       RetryReads, RetryCancelled, ReadTurnTransient, ReadTurnFails, SelectEvent, SelectClosed,
       SelectTick, SelectCancelled, ReadFinal, StreamEvent, StreamPush, StreamSubClosed,
       StreamCancelled

\* A channel that is closed stays so, unless its caller returns.
LEMMA StaysClosed ==
  ASSUME Inv, [Next]_vars, NEW r \in Callers, run'[r].pc # "returned"
  PROVE  broker.ch[r].closes > 0 => broker'.ch[r].closes > 0
<1>0. TypeOK /\ broker \in Brokers(Events) /\ notes \in Seq(Events) /\ Deregistered
  BY Types DEF Inv
<1>1. broker.ch[r].closes \in Nat
  BY <1>0, BufferTypes
<1>2. ASSUME NEW s \in Callers, CallerMoves(s)
      PROVE  broker.ch[r].closes > 0 => broker'.ch[r].closes > 0
  <2>1. CASE s # r
    BY <1>0, <1>2, <2>1, CallerChannels
  <2>2. CASE s = r
    <3>1. CallerBroker(r)
      BY <1>0, <1>2, <2>2, CallerBrokerHolds
    <3>2. CASE broker' = Subscribe(broker, r)
      <4>1. broker'.ch[r].closes >= broker.ch[r].closes /\ broker' \in Brokers(Events)
        BY <1>0, <3>2, SubscribeFields
      <4>2. broker'.ch \in [Callers -> Channel]
        BY <4>1, BrokerType
      <4>3. broker'.ch[r].closes \in Nat
        BY <4>2 DEF Channel
      <4> QED
        BY <1>1, <4>1, <4>3
    <3>3. CASE broker' = Received(broker, r) /\ Receivable(broker, r)
      BY <1>0, <3>3, ReceivedFields
    <3>4. CASE broker' = Emptied(broker, r)
      BY <1>0, <3>4, EmptiedFields
    <3> QED
      BY <3>1, <3>2, <3>3, <3>4 DEF CallerBroker
  <2> QED
    BY <2>1, <2>2
<1>3. CASE NotificationLoop
  <2>1. PICK i \in 1..Len(notes) : broker' = publish(broker, notes[i])
    BY <1>3 DEF NotificationLoop
  <2>0. notes[i] \in Events
    BY <1>0
  <2>2. broker'.ch[r].closes \in {broker.ch[r].closes, broker.ch[r].closes + 1}
    <3>1. \/ broker'.ch[r] = broker.ch[r]
          \/ broker'.ch[r].closes = broker.ch[r].closes
          \/ broker'.ch[r].closes = broker.ch[r].closes + 1
      BY <1>0, <2>0, <2>1, PublishFields
    <3> QED
      BY <3>1
  <2> QED
    BY <1>1, <2>2
<1>4. CASE CloseEvents
  <2>1. /\ broker'.ch[r].closes >= broker.ch[r].closes /\ broker' \in Brokers(Events)
    BY <1>0, <1>4, CloseFields DEF CloseEvents, Deregistered
  <2>2. broker'.ch \in [Callers -> Channel]
    BY <2>1, BrokerType
  <2>3. broker'.ch[r].closes \in Nat
    BY <2>2 DEF Channel
  <2> QED
    BY <1>1, <2>1, <2>3
<1>5. CASE UNCHANGED broker
  BY <1>5
<1> QED
  BY <1>2, <1>3, <1>4, <1>5, NextSplit, ServerFrame
     DEF Cancel, ConsumerTakes, CloseTransport, ConnectionLost, vars

LEMMA SubscribedStep ==
  ASSUME Inv, [Next]_vars, NEW r \in Runs
  PROVE  Subscribed(r)'
<1>0. /\ TypeOK /\ broker \in Brokers(Events) /\ notes \in Seq(Events) /\ Deregistered
      /\ r \in Callers /\ Subscribed(r)
  BY Types, Kinded DEF Inv
<1> SUFFICES ASSUME run'[r].pc \notin {"idle", "subscribe", "returned"}
             PROVE  r \in broker'.subs \/ broker'.ch[r].closes > 0
  BY DEF Subscribed
<1>1. broker.ch[r].closes > 0 => broker'.ch[r].closes > 0
  BY <1>0, StaysClosed
<1>2. ASSUME UNCHANGED run[r], r \in broker.subs => r \in broker'.subs \/ broker'.ch[r].closes > 0
      PROVE  r \in broker'.subs \/ broker'.ch[r].closes > 0
  BY <1>0, <1>1, <1>2 DEF Subscribed
<1>3. ASSUME NEW s \in Callers, CallerMoves(s)
      PROVE  r \in broker'.subs \/ broker'.ch[r].closes > 0
  <2>1. CASE s # r
    BY <1>0, <1>2, <1>3, <2>1, CallerChannels, ReadyCallers, CallerLocalsHold DEF CallerLocals
  <2>2. CASE s = r /\ run[r].pc = "subscribe"
    <3>1. broker' = Subscribe(broker, r)
      BY <1>3, <2>2, SubscribesNext DEF SubscribeStep
    <3> QED
      BY <1>0, <3>1, SubscribeFields
  <2>3. CASE s = r /\ run[r].pc # "subscribe"
    <3>1. CallerBroker(r) /\ (Ends(r) \/ Begins(r) \/ GoesOn(r)) /\ run[r] \in RunLocals
      BY <1>0, <1>3, <2>3, CallerBrokerHolds, ReadyCallers, CallerLocalsHold, Types DEF CallerLocals
    <3>2. run[r].pc \notin {"idle", "returned"}
      BY <3>1 DEF Ends, Begins, GoesOn, RunLocals
    <3>3. r \in broker.subs \/ broker.ch[r].closes > 0
      BY <1>0, <2>3, <3>2 DEF Subscribed
    <3>4. r \in broker.subs => r \in broker'.subs
      BY <1>0, <2>3, <3>1, ReceivedFields, EmptiedFields DEF CallerBroker
    <3> QED
      BY <1>1, <3>3, <3>4
  <2> QED
    BY <2>1, <2>2, <2>3
<1>4. CASE NotificationLoop
  <2>1. PICK i \in 1..Len(notes) : broker' = publish(broker, notes[i])
    BY <1>4 DEF NotificationLoop
  <2>2. broker.ch[r].closes \in Nat
    BY <1>0, BufferTypes
  <2>3. \/ r \in broker.subs => r \in broker'.subs
        \/ broker'.ch[r].closes = broker.ch[r].closes + 1
    BY <1>0, <2>1, PublishFields
  <2>4. broker.ch[r].closes + 1 > 0
    BY <2>2
  <2> QED
    BY <1>2, <1>4, <2>3, <2>4 DEF NotificationLoop
<1>5. CASE CloseEvents
  BY <1>0, <1>2, <1>5, CloseFields DEF CloseEvents, Deregistered
<1>6. CASE UNCHANGED <<run, broker>>
  BY <1>2, <1>6
<1> QED
  BY <1>3, <1>4, <1>5, <1>6, NextSplit, ServerFrame
     DEF Cancel, ConsumerTakes, CloseTransport, ConnectionLost, vars

-----------------------------------------------------------------------------
(* The items that Run gathers. *)

\* An item of the turn is this turn's, and on its way if its event is.
LEMMA ItemOfTurn ==
  ASSUME Inv, NEW r \in Runs, NEW i \in turn[r].items
  PROVE  i = <<r, i[2]>>
<1>1. i \in {r} \X (1..MaxItems)
  BY Kinded DEF Inv, Concluded
<1> QED
  BY <1>1

LEMMA OnTheWayInBuffer ==
  ASSUME Inv, NEW r \in Runs, NEW i, OnTheWay(r, i, broker.ch[r].buf)
  PROVE  Event(r, "item", i[2]) \in Range(broker.ch[r].buf)
  BY DEF OnTheWay, Range

\* Run forgets no item, and takes none out of its subscription without keeping it.
Keeps(r) ==
  \A i \in turn[r].items \ run'[r].items :
    /\ i \notin run[r].items
    /\ OnTheWay(r, i, broker.ch[r].buf) => OnTheWay(r, i, broker'.ch[r].buf)
Gathers(r) ==
  /\ run'[r].items \subseteq turn[r].items
  /\ run'[r].pc \in {"retry", "reread"} => run'[r].items = {}
  /\ run'[r].pc # "returned" => Keeps(r)

\* What Run returns is what the server shows, or lacks only what Run had not
\* taken out of its subscription.
Misses(r) ==
  /\ run'[r].items \subseteq turn[r].items
  /\ \/ Shown(r) # {} /\ run'[r].items = Shown(r)
     \/ \A i \in turn[r].items \ run'[r].items :
          /\ i \notin run[r].items
          /\ \/ ~OnTheWay(r, i, broker.ch[r].buf)
             \/ run[r].pc \in {"final", "reread"} \/ r \in cancelled

LEMMA DrainedOutcome ==
  ASSUME Inv, NEW r \in Runs, ReadOutput(r) \/ RetryDrains(r)
  PROVE  Gathers(r) /\ (run'[r].pc = "returned" => Misses(r))
<1>0. /\ TypeOK /\ r \in Callers /\ run \in [Callers -> RunLocals] /\ run[r] \in RunLocals
      /\ Ready(r) /\ Concluded(r) /\ run[r].items \subseteq turn[r].items
  BY Kinded, Types, ReadyCallers DEF Inv, Gathering
<1>1. run[r].pc \in {"poll", "retry"} /\ Terminal(r)
  BY <1>0 DEF ReadOutput, RetryDrains, Concluded
<1>2. PICK gathered \in capturePendingEvents(r) :
        \/ \E shown \in {Shown(r), {}} : ReturnsItems(r, shown, gathered)
        \/ /\ gathered = {} /\ run' = [run EXCEPT ![r].pc = "retry", ![r].transient = 0]
        \/ /\ gathered = {} /\ run' = [run EXCEPT ![r].pc = "reread"]
  BY DEF ReadOutput, RetryDrains, Goes, mergeItems
<1>3. /\ gathered \in SUBSET Items
      /\ run[r].items \subseteq gathered /\ gathered \subseteq turn[r].items
      /\ \A n : Event(r, "item", n) \in Range(broker.ch[r].buf) => <<r, n>> \in gathered
  BY <1>0, PendingCaptured
<1>4. /\ Shown(r) \subseteq turn[r].items /\ Shown(r) \in SUBSET Items /\ {} \in SUBSET Items
  BY <1>0, ShownType DEF Concluded, Shown
<1>5. \A i \in turn[r].items \ gathered : i \notin run[r].items /\ ~OnTheWay(r, i, broker.ch[r].buf)
  BY <1>3, ItemOfTurn, OnTheWayInBuffer
<1>6. ASSUME NEW shown \in {Shown(r), {}}, ReturnsItems(r, shown, gathered)
      PROVE  Gathers(r) /\ (run'[r].pc = "returned" => Misses(r))
  <2>1. run'[r].items = (IF shown # {} THEN shown ELSE gathered) /\ run'[r].pc = "returned"
    BY <1>0, <1>1, <1>3, <1>4, <1>6, ReturnsItemsEnds DEF Ends
  <2>2. run'[r].items = gathered \/ (Shown(r) # {} /\ run'[r].items = Shown(r))
    BY <1>4, <2>1
  <2> QED
    BY <1>3, <1>4, <1>5, <2>1, <2>2 DEF Gathers, Misses
<1>7. ASSUME gathered = {}, run'[r].items = run[r].items, run'[r].pc # "returned"
      PROVE  Gathers(r) /\ (run'[r].pc = "returned" => Misses(r))
  BY <1>3, <1>5, <1>7 DEF Gathers, Keeps
<1>8. CASE gathered = {} /\ run' = [run EXCEPT ![r].pc = "retry", ![r].transient = 0]
  BY <1>0, <1>7, <1>8 DEF RunLocals
<1>9. CASE gathered = {} /\ run' = [run EXCEPT ![r].pc = "reread"]
  BY <1>0, <1>7, <1>9 DEF RunLocals
<1> QED
  BY <1>2, <1>6, <1>8, <1>9

LEMMA RetriedOutcome ==
  ASSUME Inv, NEW r \in Runs, RetryReads(r) \/ RetryCancelled(r) \/ ReadFinal(r)
  PROVE  Gathers(r) /\ (run'[r].pc = "returned" => Misses(r))
<1>0. /\ TypeOK /\ r \in Callers /\ run \in [Callers -> RunLocals] /\ run[r] \in RunLocals
      /\ Concluded(r) /\ run[r].items \subseteq turn[r].items
      /\ run[r].pc \in {"retry", "reread"} => run[r].items = {}
  BY Kinded, Types DEF Inv, Gathering
<1>1. run[r].pc \in {"retry", "reread", "final"} /\ Terminal(r)
  BY <1>0 DEF RetryReads, RetryCancelled, ReadFinal, Concluded
<1>2. run[r].pc \in {"final", "reread"} \/ r \in cancelled
  BY DEF RetryReads, RetryCancelled, ReadFinal
<1>3. \/ \E shown \in {Shown(r), {}} : ReturnsItems(r, shown, run[r].items)
      \/ /\ run[r].pc = "reread" /\ UNCHANGED broker
         /\ run' = [run EXCEPT ![r].pc = "retry", ![r].rereads = @ + 1]
      \/ run' = [run EXCEPT ![r].pc = "poll"] /\ UNCHANGED broker
  BY <1>0 DEF RetryReads, RetryCancelled, ReadFinal, Goes
<1>4. /\ Shown(r) \subseteq turn[r].items /\ Shown(r) \in SUBSET Items /\ {} \in SUBSET Items
      /\ run[r].items \in SUBSET Items
  BY <1>0, ShownType DEF RunLocals, Concluded, Shown
<1>5. ASSUME NEW shown \in {Shown(r), {}}, ReturnsItems(r, shown, run[r].items)
      PROVE  Gathers(r) /\ (run'[r].pc = "returned" => Misses(r))
  <2>1. run'[r].items = (IF shown # {} THEN shown ELSE run[r].items) /\ run'[r].pc = "returned"
    BY <1>0, <1>1, <1>4, <1>5, ReturnsItemsEnds DEF Ends
  <2>2. run'[r].items = run[r].items \/ (Shown(r) # {} /\ run'[r].items = Shown(r))
    BY <1>4, <2>1
  <2> QED
    BY <1>0, <1>2, <1>4, <2>1, <2>2 DEF Gathers, Misses
<1>6. CASE /\ run[r].pc = "reread" /\ UNCHANGED broker
           /\ run' = [run EXCEPT ![r].pc = "retry", ![r].rereads = @ + 1]
  BY <1>0, <1>6 DEF RunLocals, Gathers, Keeps
<1>7. CASE run' = [run EXCEPT ![r].pc = "poll"] /\ UNCHANGED broker
  BY <1>0, <1>7 DEF RunLocals, Gathers, Keeps
<1> QED
  BY <1>3, <1>5, <1>6, <1>7

LEMMA SelectedOutcome ==
  ASSUME Inv, NEW r \in Runs, SelectEvent(r)
  PROVE  Gathers(r) /\ run'[r].pc # "returned"
<1>0. /\ TypeOK /\ r \in Callers /\ run \in [Callers -> RunLocals] /\ run[r] \in RunLocals
      /\ Ready(r) /\ Receivable(broker, r) /\ broker \in Brokers(Events)
      /\ broker.ch[r].buf \in Seq(Events)
  BY Kinded, Types, ReadyCallers, BufferTypes DEF Inv, SelectEvent
<1> DEFINE p == AfterEvent(r, Oldest(broker, r))
<1>1. p \in {"poll", "final", "check"}
  BY DEF AfterEvent
<1>2. PICK items \in captureEvent(r, {Oldest(broker, r)}) :
        run' = [run EXCEPT ![r].pc = p, ![r].items = items]
  BY DEF SelectEvent
<1>3. /\ run[r].items \subseteq items /\ items \subseteq turn[r].items
      /\ \A n : Event(r, "item", n) = Oldest(broker, r) => <<r, n>> \in items
  BY <1>0, EventCaptured
<1> HIDE DEF p
<1>4. run'[r].pc = p /\ run'[r].items = items
  BY <1>0, <1>2 DEF RunLocals
<1>5. broker'.ch[r].buf = Tail(broker.ch[r].buf)
  BY <1>0, ReceivedFields DEF SelectEvent
<1>6. ASSUME NEW i \in turn[r].items \ items, OnTheWay(r, i, broker.ch[r].buf)
      PROVE  OnTheWay(r, i, broker'.ch[r].buf)
  <2> DEFINE q == broker.ch[r].buf
  <2>0. DOMAIN q = 1..Len(q)
    BY <1>0
  <2>1. PICK j \in 1..Len(q) : q[j] = Event(r, "item", i[2])
    BY <2>0, <1>6 DEF OnTheWay
  <2>2. i = <<r, i[2]>>
    BY ItemOfTurn
  <2>3. q[j] # q[1]
    BY <1>3, <1>6, <2>1, <2>2 DEF Oldest
  <2>4. q \in Seq(Events) /\ q # <<>>
    BY <1>0 DEF Receivable
  <2> HIDE DEF q
  <2>5. j - 1 \in 1..Len(Tail(q)) /\ Tail(q)[j - 1] = q[j] /\ 1..Len(Tail(q)) = DOMAIN Tail(q)
    BY <2>3, <2>4
  <2>6. OnTheWay(r, i, Tail(q))
    BY <2>1, <2>5 DEF OnTheWay
  <2> QED
    BY <1>5, <2>6 DEF q
<1> QED
  BY <1>1, <1>3, <1>4, <1>6 DEF Gathers, Keeps

LEMMA RunGathers ==
  ASSUME Inv, NEW r \in Runs, CallerMoves(r)
  PROVE  Gathers(r) /\ (run[r].result = "none" /\ run'[r].result = "ok" => Misses(r))
<1>0. /\ TypeOK /\ r \in Callers /\ run \in [Callers -> RunLocals] /\ run[r] \in RunLocals
      /\ run[r].items \subseteq turn[r].items /\ broker \in Brokers(Events) /\ Concluded(r)
      /\ r \notin Streams /\ r \notin Waiters /\ Ready(r)
  BY Kinded, Types, ReadyCallers DEF Inv, Gathering
<1>1. ASSUME Returns(r, "error")
      PROVE  Gathers(r) /\ (run[r].result = "none" /\ run'[r].result = "ok" => Misses(r))
  <2>1. run'[r].items = {} /\ run'[r].pc = "returned" /\ run'[r].result = "error"
    BY <1>0, <1>1 DEF Returns, Locals
  <2> QED
    BY <2>1 DEF Gathers
<1>2. ASSUME NEW p \in Pcs \ {"retry", "reread", "returned"}, run'[r].pc = p,
             run'[r].result = run[r].result,
             run[r].items \subseteq run'[r].items, run'[r].items \subseteq turn[r].items,
             broker'.ch[r].buf = broker.ch[r].buf
      PROVE  Gathers(r) /\ (run[r].result = "none" /\ run'[r].result = "ok" => Misses(r))
  BY <1>2 DEF Gathers, Keeps
<1>3. CASE Lock(r)
  BY <1>0, <1>2, <1>3 DEF Lock, Goes, RunLocals, Pcs
<1>4. CASE TurnStart(r)
  BY <1>0, <1>2, <1>4 DEF TurnStart, Goes, RunLocals, Pcs
<1>5. CASE TurnStartReturns(r)
  BY <1>0, <1>2, <1>5 DEF TurnStartReturns, Goes, RunLocals, Pcs
<1>6. CASE SubscribeStep(r)
  <2>1. broker'.ch[r].buf = broker.ch[r].buf
    BY <1>0, <1>6, SubscribeFields DEF SubscribeStep
  <2>2. run' = [run EXCEPT ![r].pc = "start", ![r].sub = "open"]
    BY <1>6 DEF SubscribeStep, AfterSubscribe
  <2> QED
    BY <1>0, <1>2, <2>1, <2>2 DEF RunLocals, Pcs
<1>7. CASE ReadTurn(r)
  <2>1. Shown(r) \subseteq turn[r].items
    BY <1>0 DEF Concluded, Shown
  <2>2. run' = [run EXCEPT ![r].pc = IF run[r].pc = "poll" THEN "select" ELSE "poll",
                           ![r].transient = 0, ![r].items = run[r].items \cup Shown(r)]
    BY <1>7 DEF ReadTurn, captureTurn, mergeItems
  <2>3. run'[r].items = run[r].items \cup Shown(r) /\ run'[r].pc \in {"select", "poll"}
        /\ run'[r].result = run[r].result
    BY <1>0, <2>2 DEF RunLocals
  <2>4. UNCHANGED broker
    BY <1>7 DEF ReadTurn
  <2> QED
    BY <1>0, <1>2, <2>1, <2>3, <2>4 DEF Pcs
<1>8. CASE ReadTurnTransient(r)
  <2>1. CASE ~(run[r].transient + 1 >= MaxTransient)
    <3>1. /\ run' = [run EXCEPT ![r].pc = IF run[r].pc = "poll" THEN "select" ELSE "poll",
                                ![r].transient = @ + 1]
          /\ UNCHANGED broker
      BY <1>8, <2>1 DEF ReadTurnTransient
    <3> QED
      BY <1>0, <1>2, <3>1 DEF RunLocals, Pcs
  <2> QED
    BY <1>1, <1>8, <2>1 DEF ReadTurnTransient
<1>9. CASE SelectClosed(r)
  BY <1>0, <1>2, <1>9 DEF SelectClosed, RunLocals, Pcs
<1>10. CASE SelectTick(r)
  BY <1>0, <1>2, <1>10 DEF SelectTick, Goes, RunLocals, Pcs
<1>11. CASE TurnStartFails(r) \/ ReadTurnFails(r) \/ SelectCancelled(r)
  BY <1>1, <1>11 DEF TurnStartFails, ReadTurnFails, SelectCancelled
<1>12. CASE \/ ReadOutput(r) \/ RetryDrains(r)
            \/ RetryReads(r) \/ RetryCancelled(r) \/ ReadFinal(r)
  <2>1. CallerLocals(r)
    BY <1>0, CallerLocalsHold
  <2>2. run[r].result = "none" /\ run'[r].result = "ok" => run'[r].pc = "returned"
    BY <2>1, <1>0 DEF CallerLocals, Ends, Begins, GoesOn, RunLocals
  <2> QED
    BY <1>12, <2>2, DrainedOutcome, RetriedOutcome
<1>13. CASE SelectEvent(r)
  <2>1. CallerLocals(r)
    BY <1>0, CallerLocalsHold
  <2>2. run[r].result = "none" /\ run'[r].result = "ok" => run'[r].pc = "returned"
    BY <2>1, <1>0 DEF CallerLocals, Ends, Begins, GoesOn, RunLocals
  <2> QED
    BY <1>13, <2>2, SelectedOutcome
<1> QED
  BY <1>0, <1>3, <1>4, <1>5, <1>6, <1>7, <1>8, <1>9, <1>10, <1>11, <1>12, <1>13
     DEF CallerMoves, CallerStep, WaitStep, ReadTurnOver

\* An item that is on its way to Run stays so when a notification is added.
LEMMA OnTheWayAppend ==
  ASSUME NEW r, NEW i, NEW q \in Seq(Events), NEW e \in Events,
         OnTheWay(r, i, q) \/ e = Event(r, "item", i[2])
  PROVE  OnTheWay(r, i, Append(q, e))
<1> DEFINE a == Append(q, e)
<1>1. DOMAIN a = 1..Len(q) + 1 /\ a[Len(q) + 1] = e /\ \A j \in 1..Len(q) : a[j] = q[j]
  OBVIOUS
<1>2. Len(q) \in Nat /\ DOMAIN q = 1..Len(q)
  OBVIOUS
<1>3. Len(q) + 1 \in 1..Len(q) + 1 /\ \A j \in 1..Len(q) : j \in 1..Len(q) + 1
  BY <1>2
<1> HIDE DEF a
<1>4. OnTheWay(r, i, a)
  BY <1>1, <1>2, <1>3 DEF OnTheWay
<1> QED
  BY <1>4 DEF a

LEMMA OnTheWayRemoved ==
  ASSUME NEW r, NEW i, NEW q \in Seq(Events), NEW k \in 1..Len(q), OnTheWay(r, i, q),
         q[k] # Event(r, "item", i[2])
  PROVE  OnTheWay(r, i, RemoveAt(q, k))
<1>1. PICK j \in 1..Len(q) : q[j] = Event(r, "item", i[2])
  BY DEF OnTheWay
<1>2. PICK n \in 1..Len(RemoveAt(q, k)) : RemoveAt(q, k)[n] = q[j]
  BY <1>1, RemovedKeeps
<1>3. RemoveAt(q, k) \in Seq(Events)
  BY RemovedFields
<1>4. n \in DOMAIN RemoveAt(q, k)
  BY <1>2, <1>3
<1> QED
  BY <1>1, <1>2, <1>4 DEF OnTheWay

LEMMA GatheringStep ==
  ASSUME Inv, [Next]_vars, NEW r \in Runs
  PROVE  Gathering(r)'
<1>0. /\ TypeOK /\ r \in Callers /\ broker \in Brokers(Events) /\ notes \in Seq(Events)
      /\ (\A c \in Callers : Concluded(c)) /\ Concluded(r) /\ Gathering(r) /\ Subscribed(r)
      /\ Deregistered /\ broker.ch[r].buf \in Seq(Events) /\ broker.ch[r].closes \in Nat
  BY Kinded, Types, BufferTypes DEF Inv
<1>1. turn[r].items \subseteq turn'[r].items
  BY <1>0, TurnGrows
<1>2. run'[r].pc # "returned" /\ broker.ch[r].closes > 0 => broker'.ch[r].closes > 0
  BY <1>0, StaysClosed
<1> DEFINE Way(i) ==
      \/ OnTheWay(r, i, notes) \/ OnTheWay(r, i, broker.ch[r].buf)
      \/ broker.ch[r].closes > 0 \/ link = "down"
<1>3. ASSUME UNCHANGED run[r],
             run[r].pc # "returned" => \A i \in turn'[r].items \ run[r].items :
               \/ OnTheWay(r, i, notes') \/ OnTheWay(r, i, broker'.ch[r].buf)
               \/ broker'.ch[r].closes > 0 \/ link' = "down"
      PROVE  Gathering(r)'
  <2>1. run'[r].items \subseteq turn'[r].items
    BY <1>0, <1>1, <1>3 DEF Gathering
  <2> QED
    BY <1>0, <1>3, <2>1 DEF Gathering, OnTheWay
<1>4. ASSUME NEW s \in Callers, CallerMoves(s) PROVE Gathering(r)'
  <2>1. UNCHANGED <<notes, link>>
    BY <1>4, CallerFrame
  <2>2. CASE s # r
    <3>1. run'[r] = run[r] /\ broker'.ch[r] = broker.ch[r] /\ turn'[r] = turn[r]
      BY <1>0, <1>4, <2>2, CallerChannels, CallerTurn, ReadyCallers, CallerLocalsHold DEF CallerLocals
    <3> QED
      BY <1>0, <2>1, <3>1 DEF Gathering, OnTheWay
  <2>3. CASE s = r
    <3>1. Gathers(r) /\ turn'[r].items = turn[r].items
      BY <1>0, <1>4, <2>3, RunGathers, CallerTurn
    <3>2. CASE run'[r].pc = "returned"
      BY <3>1, <3>2 DEF Gathers, Gathering
    <3>3. CASE run'[r].pc # "returned"
      <4>1. run[r].pc # "returned"
        BY <1>0, <1>4, <2>3, ReadyCallers, CallerLocalsHold DEF CallerLocals, Ends, Begins, GoesOn
      <4>2. ASSUME NEW i \in turn'[r].items \ run'[r].items
            PROVE  \/ OnTheWay(r, i, notes') \/ OnTheWay(r, i, broker'.ch[r].buf)
                   \/ broker'.ch[r].closes > 0 \/ link' = "down"
        <5>1. /\ i \in turn[r].items \ run[r].items
              /\ OnTheWay(r, i, broker.ch[r].buf) => OnTheWay(r, i, broker'.ch[r].buf)
          BY <3>1, <3>3 DEF Gathers, Keeps
        <5>2. Way(i)
          BY <1>0, <4>1, <5>1 DEF Gathering
        <5> QED
          BY <1>2, <2>1, <3>3, <5>1, <5>2
      <4>3. run'[r].items \subseteq turn'[r].items
            /\ (run'[r].pc \in {"retry", "reread"} => run'[r].items = {})
        BY <3>1 DEF Gathers
      <4> QED
        BY <4>2, <4>3 DEF Gathering, OnTheWay
    <3> QED
      BY <3>2, <3>3
  <2> QED
    BY <2>2, <2>3
<1>5. ASSUME NEW s \in Callers, ServerMoves(s) PROVE Gathering(r)'
  <2>1. UNCHANGED <<run, broker, link>>
    BY <1>5, ServerFrame
  <2>2. \/ UNCHANGED notes \/ \E e \in Events : notes' = Append(notes, e)
    BY <1>5, ServerNotes
  <2>3. \A i : OnTheWay(r, i, notes) => OnTheWay(r, i, notes')
    BY <1>0, <2>2, OnTheWayAppend
  <2>4. \A i \in turn'[r].items \ turn[r].items : OnTheWay(r, i, notes')
    <3>1. CASE turn'[r].items = turn[r].items
      BY <3>1
    <3>2. CASE turn'[r].items # turn[r].items
      <4>1. s = r
        BY <1>0, <1>5, <3>2, ServerTurn
      <4>2. PICK n \in 1..MaxItems : /\ turn'[r].items = turn[r].items \cup {<<r, n>>}
                                     /\ notes' = Append(notes, Event(r, "item", n))
        BY <1>0, <1>5, <3>2, <4>1, ServerItems
      <4>3. Event(r, "item", n) \in Events /\ <<r, n>>[2] = n
        <5>1. n \in 0..MaxItems
          BY Bounds
        <5> QED
          BY <1>0, <5>1 DEF Event, Events
      <4>4. OnTheWay(r, <<r, n>>, notes')
        BY <1>0, <4>2, <4>3, OnTheWayAppend
      <4> QED
        BY <4>2, <4>4
    <3> QED
      BY <3>1, <3>2
  <2> QED
    BY <1>0, <1>3, <2>1, <2>3, <2>4 DEF Gathering
<1>6. CASE NotificationLoop
  <2>0. UNCHANGED <<run, turn, link>>
    BY <1>6 DEF NotificationLoop
  <2>1. PICK k \in 1..Len(notes) : broker' = publish(broker, notes[k]) /\ notes' = RemoveAt(notes, k)
    BY <1>6 DEF NotificationLoop
  <2> DEFINE e == notes[k]
  <2>2. e \in Events
    BY <1>0
  <2>3. \/ broker'.ch[r] = broker.ch[r] /\ (r \notin broker.subs \/ broker.closed)
        \/ broker'.ch[r].buf = Append(broker.ch[r].buf, e)
        \/ /\ broker'.ch[r].buf = broker.ch[r].buf
           /\ broker'.ch[r].closes = broker.ch[r].closes + 1
    BY <1>0, <2>1, <2>2, PublishFields
  <2> HIDE DEF e
  <2>4. broker.ch[r].closes + 1 > 0
    BY <1>0
  <2>5. ASSUME NEW i \in turn'[r].items \ run[r].items, run[r].pc # "returned"
        PROVE  \/ OnTheWay(r, i, notes') \/ OnTheWay(r, i, broker'.ch[r].buf)
               \/ broker'.ch[r].closes > 0 \/ link' = "down"
    <3>1. Way(i) /\ turn[r].items # {}
      BY <1>0, <2>0, <2>5 DEF Gathering
    <3>2. run[r].pc \notin {"idle", "subscribe", "returned"}
      BY <1>0, <2>5, <3>1 DEF Concluded
    <3>3. r \in broker.subs \/ broker.ch[r].closes > 0
      BY <1>0, <3>2 DEF Subscribed
    <3>4. broker.ch[r].closes > 0 => broker'.ch[r].closes > 0
      BY <1>2, <2>0, <2>5
    <3>5. OnTheWay(r, i, broker.ch[r].buf) => OnTheWay(r, i, broker'.ch[r].buf)
      BY <1>0, <2>2, <2>3, OnTheWayAppend
    <3>6. OnTheWay(r, i, notes) /\ e # Event(r, "item", i[2]) => OnTheWay(r, i, notes')
      BY <1>0, <2>1, OnTheWayRemoved DEF e
    <3>7. e = Event(r, "item", i[2]) => \/ OnTheWay(r, i, broker'.ch[r].buf)
                                        \/ broker'.ch[r].closes > 0
      <4>1. CASE broker'.ch[r].buf = Append(broker.ch[r].buf, e)
        BY <1>0, <2>2, <4>1, OnTheWayAppend
      <4>2. CASE broker'.ch[r].closes = broker.ch[r].closes + 1
        BY <2>4, <4>2
      <4>3. CASE r \notin broker.subs \/ broker.closed
        BY <1>0, <3>3, <3>4, <4>3 DEF Deregistered
      <4> QED
        BY <2>3, <4>1, <4>2, <4>3
    <3> QED
      BY <2>0, <3>1, <3>4, <3>5, <3>6, <3>7
  <2> QED
    BY <1>3, <2>0, <2>5
<1>7. CASE CloseEvents
  <2>1. broker'.ch[r].buf = broker.ch[r].buf
    BY <1>0, <1>7, CloseFields DEF CloseEvents, Deregistered
  <2>2. UNCHANGED <<run, turn, notes>> /\ link # "down"
    BY <1>7 DEF CloseEvents
  <2> QED
    BY <1>0, <1>2, <1>3, <2>1, <2>2 DEF Gathering
<1>8. CASE ConnectionLost
  BY <1>3, <1>8 DEF ConnectionLost
<1>9. CASE CloseTransport
  BY <1>0, <1>3, <1>9 DEF CloseTransport, Gathering
<1>10. ASSUME UNCHANGED <<run, turn, notes, broker, link>> PROVE Gathering(r)'
  BY <1>0, <1>10 DEF Gathering, OnTheWay
<1> QED
  BY <1>4, <1>5, <1>6, <1>7, <1>8, <1>9, <1>10, NextSplit DEF Cancel, ConsumerTakes, vars

-----------------------------------------------------------------------------
LEMMA InitKeeps == Init => Inv
<1> SUFFICES ASSUME Init PROVE Inv
  OBVIOUS
<1>1. 0 \in 0..MaxTransient - 1 /\ 0 \in 0..MaxRereads - 1 /\ 0 \in 0..MaxItems
  BY Bounds
<1>2. /\ broker \in Brokers(Events) /\ broker.closed = FALSE /\ broker.subs = {}
      /\ \A s \in Callers : broker.ch[s].buf = <<>>
  <2>1. <<>> \in Seq(Events) /\ 0 \in Nat
    OBVIOUS
  <2>2. [s \in Callers |-> [buf |-> <<>>, closes |-> 0]] \in [Callers -> Channel]
    BY <2>1 DEF Channel
  <2> QED
    BY <2>2, BrokerMade DEF Init, newEventBroker
<1>3. /\ run \in [Callers -> RunLocals]
      /\ \A r \in Callers : /\ run[r].pc \in {"start", "idle"} /\ (r \in Waiters => run[r].pc = "start")
                            /\ (r \notin Waiters => run[r].pc = "idle")
                            /\ run[r].event = "none" /\ run[r].result = "none" /\ run[r].items = {}
  BY <1>1 DEF Init, Locals, RunLocals, Pcs, Results
<1>4. /\ turn \in [Callers -> Turn]
      /\ \A r \in Callers : turn[r].status = "none" /\ turn[r].items = {} /\ turn[r].stored = {}
  BY <1>1 DEF Init, Turn
<1>5. Len(<<>>) = 0 /\ 1..0 = {} /\ 0 <= SubCap /\ 0 <= OutCap
  BY Bounds
<1>6. TypeOK
  <2>1. notes \in Seq(Events) /\ out \in [Streams -> Seq(Kinds)]
    BY DEF Init
  <2>2. \A r \in Streams : Len(out[r]) <= OutCap
    BY <1>5 DEF Init
  <2>3. \A r \in Callers : Len(broker.ch[r].buf) <= SubCap
    BY <1>2, <1>5
  <2>4. turnMu = None /\ cancelled = {} /\ link = "up"
    BY DEF Init
  <2> QED
    BY <1>2, <1>3, <1>4, <2>1, <2>2, <2>3, <2>4
       DEF TypeOK, RunLocals, Pcs, Kinds, Results, Items, Turn
<1>7. NotesTrue /\ BuffersTrue
  <2>1. notes = <<>>
    BY DEF Init
  <2> QED
    BY <1>2, <1>5, <2>1 DEF NotesTrue, BuffersTrue
<1>8. \A r \in Callers : Concluded(r) /\ Locked(r)
  BY <1>3, <1>4 DEF Concluded, Locked
<1>9. \A r \in Runs : Subscribed(r) /\ Gathering(r)
  BY <1>3, <1>4, Kinded DEF Subscribed, Gathering
<1> QED
  BY <1>2, <1>6, <1>7, <1>8, <1>9 DEF Inv, Deregistered

\* Every event on its way is true of its turn, every caller has concluded only
\* what is true of it, turnMu is held from Lock to return, and every item of a
\* turn that its Run lacks can still reach it, unless its subscription was
\* closed or the connection lost.
THEOREM Invariant == Spec => []Inv
<1>1. Inv /\ [Next]_vars => Inv'
  <2> SUFFICES ASSUME Inv, [Next]_vars PROVE Inv'
    OBVIOUS
  <2>1. TypeOK' /\ NotesTrue' /\ BuffersTrue' /\ Deregistered'
    BY TypeStep, NotesStep, BrokerStep
  <2>2. \A r \in Callers : Concluded(r)' /\ Locked(r)'
    BY ConcludedStep, LockedStep
  <2>3. \A r \in Runs : Subscribed(r)' /\ Gathering(r)'
    BY SubscribedStep, GatheringStep
  <2> QED
    BY <2>1, <2>2, <2>3 DEF Inv
<1> QED
  BY <1>1, InitKeeps, PTL DEF Spec

\* The variables of Run, RunStreamed and WaitForTurn keep their types, and the
\* channels their capacities.
THEOREM TypeCorrect == Spec => []TypeOK
<1>1. Inv => TypeOK
  BY DEF Inv
<1> QED
  BY <1>1, Invariant, PTL

\* A Run or WaitForTurn that returns a turn, and a stream that ends with
\* turn/completed, belong to a turn that is over (thread.go, wait.go).
THEOREM OverWhenReturned == Spec => []ReturnsWhenOver
<1>1. Inv => ReturnsWhenOver
  BY DEF Inv, Concluded, ReturnsWhenOver
<1> QED
  BY <1>1, Invariant, PTL

\* Two turns of Run and RunStreamed are active at once only if the caller of
\* one of them has given up on it: what turnMu (thread.go) gives.
THEOREM OverlapsOnlyAfterGivingUp == Spec => []OverlapOnlyAfterGivingUp
<1>1. Inv => OverlapOnlyAfterGivingUp
  <2> SUFFICES ASSUME Inv, NEW r \in Runs \cup Streams, NEW s \in Runs \cup Streams, r # s,
                      turn[r].status = "active", turn[s].status = "active"
               PROVE  \E c \in {r, s} : run[c].result \in {"error", "cancelled", "cut off"}
    BY DEF OverlapOnlyAfterGivingUp
  <2>1. ASSUME NEW c \in {r, s}, run[c].result \notin {"error", "cancelled", "cut off"}
        PROVE  turnMu = c
    <3>1. c \in Callers /\ c \notin Waiters /\ turn[c].status = "active"
      BY TurnsAssumption DEF Callers
    <3>2. run[c] \in RunLocals /\ Concluded(c) /\ Locked(c)
      BY <3>1, Types DEF Inv
    <3>3. run[c].result = "none" /\ run[c].pc # "returned" /\ run[c].pc # "idle"
      BY <2>1, <3>1, <3>2 DEF Concluded, Terminal, RunLocals, Results
    <3> QED
      BY <3>1, <3>2, <3>3 DEF Locked
  <2> QED
    BY <2>1
<1> QED
  BY <1>1, Invariant, PTL

\* The items Run returns are its own turn's, and either those thread/read shows
\* or every item a notification could have told it of (output.go, thread.go).
THEOREM ReturnsReadOrGathered == Spec => RunReturnsReadOrGathered
<1>1. ASSUME Inv, [Next]_vars, NEW r \in Runs, ReturnsOk(r)
      PROVE  /\ run'[r].items \subseteq turn[r].items
             /\ \/ Shown(r) # {} /\ run'[r].items = Shown(r)
                \/ \A i \in turn[r].items \ run'[r].items : Excused(r, i)
  <2>0. /\ r \in Callers /\ TypeOK /\ Concluded(r) /\ Gathering(r)
        /\ run[r].result = "none" /\ run'[r].result = "ok"
    BY <1>1, Kinded DEF Inv, ReturnsOk
  <2>1. CallerMoves(r)
    <3>1. \A s \in Callers : CallerMoves(s) => s = r
      BY <1>1, <2>0, ReadyCallers, CallerLocalsHold DEF CallerLocals
    <3> QED
      BY <1>1, <2>0, <3>1, NextSplit, ServerFrame
         DEF Cancel, ConsumerTakes, NotificationLoop, CloseEvents, CloseTransport,
             ConnectionLost, vars
  <2>2. Misses(r)
    BY <1>1, <2>0, <2>1, RunGathers
  <2>3. run[r].pc # "returned"
    BY <2>0 DEF Concluded
  <2> QED
    BY <2>0, <2>2, <2>3 DEF Misses, Gathering, Excused
<1>2. Inv /\ [Next]_vars =>
        [\A r \in Runs : ReturnsOk(r) =>
           /\ run'[r].items \subseteq turn[r].items
           /\ \/ Shown(r) # {} /\ run'[r].items = Shown(r)
              \/ \A i \in turn[r].items \ run'[r].items : Excused(r, i)]_vars
  BY <1>1
<1> QED
  BY <1>2, Invariant, PTL DEF Spec, RunReturnsReadOrGathered
=============================================================================
