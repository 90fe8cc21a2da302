-------------------------------- MODULE Turns --------------------------------
(***************************************************************************)
(* Turns on one thread (thread.go, output.go, wait.go, client.go): Run and *)
(* RunStreamed, which share turnMu, and TurnStart followed by WaitForTurn, *)
(* which does not take it.  They learn of the turn in two ways, by events  *)
(* that reach them through notificationLoop and the broker, and by reading *)
(* the thread from the server, and the two race.                           *)
(*                                                                         *)
(* Each invocation (a caller) starts one turn and has one subscription, so *)
(* its name stands for both.  A Call is one step at the moment the server  *)
(* handles it.  Of what a turn produced the items are modelled, as the set *)
(* of those that Run has gathered; texts, deltas and usage are left out.   *)
(***************************************************************************)
EXTENDS Integers, Sequences, Functions

CONSTANTS
  Runs, Streams, Waiters, \* invocations of Run, RunStreamed, TurnStart + WaitForTurn
  SubCap,       \* capacity of a subscription (128 in the code)
  OutCap,       \* capacity of the channel RunStreamed returns (128 in the code)
  MaxTransient, \* maxTransientRetries (5 in the code)
  MaxRereads,   \* how often retryReadTurnForItems reads again (3 in the code)
  MaxItems,     \* bound: events of a turn besides its turn/completed
  Chatty,       \* bound: the callers whose turns have such events
  Cancellable,  \* bound: the callers whose context may be cancelled
  Ordered,      \* whether the transport keeps the order of notifications (stdio does not)
  Moves,        \* bound: what else may happen
  None

Callers == Runs \cup Streams \cup Waiters

INSTANCE Broker WITH Subs <- Callers, Cap <- SubCap

ASSUME TurnsAssumption ==
  /\ SubCap \in Nat /\ OutCap \in Nat /\ MaxItems \in Nat
  /\ MaxTransient \in Nat \ {0} /\ MaxRereads \in Nat \ {0}
  /\ Ordered \in BOOLEAN /\ None \notin Callers /\ (Chatty \cup Cancellable) \subseteq Callers
  /\ Moves \subseteq {"close", "drop", "fault", "retryableError"}
  /\ Runs \cap Streams = {} /\ Runs \cap Waiters = {} /\ Streams \cap Waiters = {}

VARIABLES
  turnMu,    \* who holds the thread's turnMu
  run,       \* locals of each invocation
  out,       \* what each RunStreamed has pushed and its consumer not yet taken
  cancelled, \* the contexts that are done
  broker,    \* client.events
  notes,     \* notifications sent by the server and not yet published
  turn,      \* the turns as the server has them
  link       \* the transport: up, down (connection lost), closing, closed

vars == <<turnMu, run, out, cancelled, broker, notes, turn, link>>

\* An event of turn t; item n of the turn, if it is an item/completed.
Event(t, kind, n) == [turn |-> t, kind |-> kind, item |-> n]
Terminal(t) == turn[t].status = "ended"
Usable == link \in {"up", "closing"}

\* The locals of an invocation that has not begun, or has returned.
Locals(pc, result) ==
  [pc |-> pc, transient |-> 0, rereads |-> 0, sub |-> "none", event |-> "none",
   items |-> {}, result |-> result]

Init ==
  /\ turnMu = None /\ cancelled = {} /\ broker = newEventBroker /\ notes = <<>>
  /\ run = [r \in Callers |-> Locals(IF r \in Waiters THEN "start" ELSE "idle", "none")]
  /\ out = [r \in Streams |-> <<>>]
  /\ turn = [r \in Callers |-> [status |-> "none", events |-> 0, items |-> {}, stored |-> {}]]
  /\ link = "up"

Goes(r, pc) == run' = [run EXCEPT ![r].pc = pc]

\* The deferred calls of every return: close the subscription, which goes out
\* of scope with the locals, and unlock.  The channel of RunStreamed is closed
\* with it (result # "none").
Returns(r, result) ==
  /\ run' = [run EXCEPT ![r] = Locals("returned", result)]
  /\ broker' = [unsubscribe(broker, r) EXCEPT !.ch[r].buf = <<>>]
  /\ turnMu' = IF turnMu = r THEN None ELSE turnMu

-----------------------------------------------------------------------------
(* Starting a turn. *)

\* turnMu.Lock waits, whatever becomes of the context.
Lock(r) ==
  /\ run[r].pc = "idle" /\ turnMu = None
  /\ turnMu' = r
  /\ Goes(r, IF r \in Runs THEN "subscribe" ELSE "start")
  /\ UNCHANGED <<out, cancelled, broker, notes, turn, link>>

\* Run subscribes before it starts the turn, the two others once they have.
AfterSubscribe(r) == IF r \in Runs THEN "start" ELSE IF r \in Streams THEN "stream" ELSE "poll"

SubscribeStep(r) ==
  /\ run[r].pc = "subscribe"
  /\ broker' = Subscribe(broker, r)
  /\ run' = [run EXCEPT ![r].pc = AfterSubscribe(r), ![r].sub = "open"]
  /\ UNCHANGED <<turnMu, out, cancelled, notes, turn, link>>

\* TurnStart writes turn/start ...
TurnStart(r) ==
  /\ run[r].pc = "start" /\ Usable
  /\ turn' = [turn EXCEPT ![r].status = "requested"]
  /\ Goes(r, "starting")
  /\ UNCHANGED <<turnMu, out, cancelled, broker, notes, link>>

\* ... and returns the server's answer ...
FaultUnlocksEarly(r) == \* seeded fault: the lock is not handed to the goroutine
  /\ run[r].pc = "starting" /\ Usable /\ turn[r].status \in {"active", "ended"}
  /\ Goes(r, IF r \in Runs THEN "poll" ELSE "subscribe")
  /\ turnMu' = IF r \in Streams THEN None ELSE turnMu
  /\ UNCHANGED <<out, cancelled, broker, notes, turn, link>>
TurnStartReturns(r) ==
  /\ run[r].pc = "starting" /\ Usable /\ turn[r].status \in {"active", "ended"}
  /\ Goes(r, IF r \in Runs THEN "poll" ELSE "subscribe")
  /\ UNCHANGED <<turnMu, out, cancelled, broker, notes, turn, link>>

\* ... or fails: refused, context done, connection lost, transport closed.  The
\* request may still be on its way.
TurnStartFails(r) ==
  /\ run[r].pc \in {"start", "starting"}
  /\ "fault" \in Moves \/ r \in cancelled \/ ~Usable
  /\ Returns(r, "error")
  /\ turn' = [turn EXCEPT ![r].status =
                IF run[r].pc = "starting" /\ @ = "requested" /\ r \notin cancelled /\ Usable
                THEN "refused" ELSE @]
  /\ UNCHANGED <<out, cancelled, notes, link>>

-----------------------------------------------------------------------------
(* What Run gathers of the turn (outputCollector). *)

\* The items in a turn that thread/read shows.
Shown(r) == turn[r].stored

\* By id: an item that comes again takes the place of the one before.
mergeItems(existing, incoming) == existing \cup incoming
captureTurn(r, items) == mergeItems(run[r].items, items)
\* eventMatchesTurn, for events that name a turn.  The others, of the whole thread
\* or of an unknown method, at most wake the wait up, as the ticker does.
FaultAnyTurn(r, e) == TRUE \* seeded fault: the turn is not compared
eventMatchesTurn(r, e) == e.turn = r

\* What Run may have after these events: the turn inside turn/completed may have
\* its items with it or not.  An item/completed is appended, so that an item can
\* be there twice, which is left out.
captureEvent(r, events) ==
  LET own    == {e \in events : eventMatchesTurn(r, e)}
      items  == {<<e.turn, e.item>> : e \in {f \in own : f.kind = "item"}}
      inTurn == {{}} \cup {turn[r].items : e \in {f \in own : f.kind = "turn/completed"}}
  IN {mergeItems(captureTurn(r, items), t) : t \in inTurn}

\* Everything that is in the subscription, without waiting.
FaultPendingLeft(r) == {run[r].items} \* seeded fault: the subscription is not drained
capturePendingEvents(r) == captureEvent(r, Range(broker.ch[r].buf))

\* Run returns the items of the turn it was given, if there are any, and else
\* what it gathered.
ReturnsItems(r, shown, gathered) ==
  /\ run' = [run EXCEPT ![r] =
               [Locals("returned", "ok") EXCEPT !.items = IF shown # {} THEN shown ELSE gathered]]
  /\ broker' = [unsubscribe(broker, r) EXCEPT !.ch[r].buf = <<>>]
  /\ turnMu' = IF turnMu = r THEN None ELSE turnMu

-----------------------------------------------------------------------------
(* waitForTurnOutputSub (Run) and WaitForTurn: read the turn, wait for an    *)
(* event or a tick, read again.                                              *)

\* readTurn, answered: the turn is not over, or not found yet.
ReadTurn(r) ==
  /\ run[r].pc \in {"poll", "check"} /\ Usable /\ ~Terminal(r)
  /\ run' = [run EXCEPT ![r].pc = IF run[r].pc = "poll" THEN "select" ELSE "poll",
                        ![r].transient = 0,
                        ![r].items = IF r \in Runs THEN captureTurn(r, Shown(r)) ELSE @]
  /\ UNCHANGED <<turnMu, out, cancelled, broker, notes, turn, link>>

\* The turn is over, and WaitForTurn returns it.
ReadTurnOver(r) ==
  /\ r \in Waiters /\ run[r].pc \in {"poll", "check"} /\ Usable /\ Terminal(r)
  /\ Returns(r, "ok")
  /\ UNCHANGED <<out, cancelled, notes, turn, link>>

\* The turn is over, and Run drains its subscription and returns it; but if it
\* has found nothing at all, of a turn that has not failed, it tries again
\* below.  A text or the usage would do as well as an item.
ReadOutput(r) ==
  /\ r \in Runs /\ run[r].pc = "poll" /\ Usable /\ Terminal(r)
  /\ \E gathered \in capturePendingEvents(r) :
       \/ ReturnsItems(r, Shown(r), gathered)
       \/ /\ mergeItems(gathered, Shown(r)) = {}
          /\ run' = [run EXCEPT ![r].pc = "retry", ![r].transient = 0]
          /\ broker' = [broker EXCEPT !.ch[r].buf = <<>>] /\ UNCHANGED turnMu
  /\ UNCHANGED <<out, cancelled, notes, turn, link>>

\* retryReadTurnForItems, 50 ms later: drain the subscription again ...
RetryDrains(r) ==
  /\ run[r].pc = "retry"
  /\ \E gathered \in capturePendingEvents(r) :
       \/ ReturnsItems(r, {}, gathered)
       \/ /\ gathered = {} /\ Goes(r, "reread")
          /\ broker' = [broker EXCEPT !.ch[r].buf = <<>>] /\ UNCHANGED turnMu
  /\ UNCHANGED <<out, cancelled, notes, turn, link>>

\* ... and read the turn again, unless that fails.
RetryReads(r) ==
  /\ run[r].pc = "reread"
  /\ \/ Usable /\ ReturnsItems(r, Shown(r), {})
     \/ /\ Usable => Shown(r) = {} \/ "fault" \in Moves \/ r \in cancelled
        /\ IF run[r].rereads + 1 = MaxRereads THEN ReturnsItems(r, {}, {})
           ELSE /\ run' = [run EXCEPT ![r].pc = "retry", ![r].rereads = @ + 1]
                /\ UNCHANGED <<broker, turnMu>>
  /\ UNCHANGED <<out, cancelled, notes, turn, link>>

\* Run returns what it has, and no error, when its context ends meanwhile.
RetryCancelled(r) ==
  /\ run[r].pc = "retry" /\ r \in cancelled
  /\ ReturnsItems(r, {}, {})
  /\ UNCHANGED <<out, cancelled, notes, turn, link>>

\* readTurn, failed for a reason worth a retry.
ReadTurnTransient(r) ==
  /\ run[r].pc \in {"poll", "check"} /\ Usable /\ "fault" \in Moves
  /\ IF run[r].transient + 1 >= MaxTransient THEN Returns(r, "error")
     ELSE /\ run' = [run EXCEPT ![r].pc = IF run[r].pc = "poll" THEN "select" ELSE "poll",
                                ![r].transient = @ + 1]
          /\ UNCHANGED <<broker, turnMu>>
  /\ UNCHANGED <<out, cancelled, notes, turn, link>>

\* readTurn, failed for good: transport closed, connection lost, context done.
ReadTurnFails(r) ==
  /\ run[r].pc \in {"poll", "check"} /\ (~Usable \/ r \in cancelled)
  /\ Returns(r, "error")
  /\ UNCHANGED <<out, cancelled, notes, turn, link>>

\* The select: an event.  A turn/completed makes Run read the turn once more
\* and return; WaitForTurn reads it at once for any of its events but errors.
AfterEvent(r, e) ==
  IF ~eventMatchesTurn(r, e) THEN "poll"
  ELSE IF r \in Runs THEN IF e.kind = "turn/completed" THEN "final" ELSE "poll"
  ELSE IF e.kind # "error" THEN "check" ELSE "poll"

SelectEvent(r) ==
  /\ run[r].pc = "select" /\ run[r].sub = "open" /\ Receivable(broker, r)
  /\ broker' = Received(broker, r)
  /\ \E items \in IF r \in Runs THEN captureEvent(r, {Oldest(broker, r)}) ELSE {{}} :
       run' = [run EXCEPT ![r].pc = AfterEvent(r, Oldest(broker, r)), ![r].items = items]
  /\ UNCHANGED <<turnMu, out, cancelled, notes, turn, link>>

\* The subscription was closed, by an overflow or with the broker: Run forgets
\* it, WaitForTurn does not.
SelectClosed(r) ==
  /\ run[r].pc = "select" /\ run[r].sub = "open" /\ Exhausted(broker, r)
  /\ run' = [run EXCEPT ![r].pc = "poll",
                        ![r].sub = IF r \in Runs THEN "nil" ELSE @]
  /\ UNCHANGED <<turnMu, out, cancelled, broker, notes, turn, link>>

FaultNoTicker(r) == FALSE \* seeded fault: only events lead to another read
SelectTick(r) ==
  /\ run[r].pc = "select"
  /\ Goes(r, "poll")
  /\ UNCHANGED <<turnMu, out, cancelled, broker, notes, turn, link>>

SelectCancelled(r) ==
  /\ run[r].pc = "select" /\ r \in cancelled
  /\ Returns(r, "error")
  /\ UNCHANGED <<out, cancelled, notes, turn, link>>

\* Run after turn/completed: what the server has now, whatever its status; if
\* that fails the turn inside the event, with all its items, which were gathered
\* with the event, or with none; or if there is no turn inside, from the top.
ReadFinal(r) ==
  /\ run[r].pc = "final"
  /\ \/ Usable /\ ReturnsItems(r, Shown(r), run[r].items)
     \/ /\ "fault" \in Moves \/ ~Usable \/ r \in cancelled
        /\ \/ ReturnsItems(r, {}, run[r].items)
           \/ Goes(r, "poll") /\ UNCHANGED <<broker, turnMu>>
  /\ UNCHANGED <<out, cancelled, notes, turn, link>>

-----------------------------------------------------------------------------
(* The goroutine of RunStreamed. *)

StreamEvent(r) ==
  /\ run[r].pc = "stream" /\ Receivable(broker, r)
  /\ LET e == Oldest(broker, r) IN
       run' = IF eventMatchesTurn(r, e)
              THEN [run EXCEPT ![r].pc = "push", ![r].event = e.kind] ELSE run
  /\ broker' = Received(broker, r)
  /\ UNCHANGED <<turnMu, out, cancelled, notes, turn, link>>

\* out <- te, then the end of the stream after turn/completed or error.
StreamPush(r) ==
  /\ run[r].pc = "push" /\ Len(out[r]) < OutCap
  /\ out' = [out EXCEPT ![r] = Append(@, run[r].event)]
  /\ IF run[r].event \in {"turn/completed", "error"} THEN Returns(r, run[r].event)
     ELSE Goes(r, "stream") /\ UNCHANGED <<broker, turnMu>>
  /\ UNCHANGED <<cancelled, notes, turn, link>>

FaultStreamSpins(r) == FALSE \* seeded fault: a closed subscription is not the end
StreamSubClosed(r) ==
  /\ run[r].pc = "stream" /\ Exhausted(broker, r)
  /\ Returns(r, "cut off")
  /\ UNCHANGED <<out, cancelled, notes, turn, link>>

FaultStreamNotCancelled(r) == \* seeded fault: ctx.Done() beside out <- te only
  /\ run[r].pc = "push" /\ r \in cancelled
  /\ Returns(r, "cancelled")
  /\ UNCHANGED <<out, cancelled, notes, turn, link>>
StreamCancelled(r) ==
  /\ run[r].pc \in {"stream", "push"} /\ r \in cancelled
  /\ Returns(r, "cancelled")
  /\ UNCHANGED <<out, cancelled, notes, turn, link>>

\* The caller's side of the channel.
ConsumerTakes(r) ==
  /\ out[r] # <<>>
  /\ out' = [out EXCEPT ![r] = Tail(@)]
  /\ UNCHANGED <<turnMu, run, cancelled, broker, notes, turn, link>>

-----------------------------------------------------------------------------
(* The client, its users and its transport. *)

\* notificationLoop.
RemoveAt(s, i) == SubSeq(s, 1, i - 1) \o SubSeq(s, i + 1, Len(s))
NotificationLoop ==
  /\ \E i \in 1..Len(notes) :
       /\ Ordered => i = 1
       /\ broker' = publish(broker, notes[i])
       /\ notes' = RemoveAt(notes, i)
  /\ UNCHANGED <<turnMu, run, out, cancelled, turn, link>>

Cancel(r) ==
  /\ r \in Cancellable /\ run[r].pc \notin {"idle", "returned"}
  /\ cancelled' = cancelled \cup {r}
  /\ UNCHANGED <<turnMu, run, out, broker, notes, turn, link>>

\* Client.Close: the broker first, then the transport.
CloseEvents ==
  /\ "close" \in Moves /\ link = "up"
  /\ broker' = close(broker) /\ link' = "closing"
  /\ UNCHANGED <<turnMu, run, out, cancelled, notes, turn>>

CloseTransport ==
  /\ link = "closing"
  /\ link' = "closed"
  /\ UNCHANGED <<turnMu, run, out, cancelled, broker, notes, turn>>

\* The connection is lost with what was on the way; the transport's channel of
\* notifications stays open, so the broker does too.
ConnectionLost ==
  /\ "drop" \in Moves /\ link = "up"
  /\ link' = "down"
  /\ \E n \in 0..Len(notes) : notes' = SubSeq(notes, 1, n)
  /\ UNCHANGED <<turnMu, run, out, cancelled, broker, turn>>

-----------------------------------------------------------------------------
(* The server (external). *)

ServerStartsTurn(r) ==
  /\ Usable /\ turn[r].status = "requested"
  /\ turn' = [turn EXCEPT ![r].status = "active"]
  /\ UNCHANGED <<turnMu, run, out, cancelled, broker, notes, link>>

\* An event in the course of a turn: an item, or an error the server is going
\* to retry (the willRetry of its error notification).
ServerEmits(r) ==
  /\ Usable /\ turn[r].status = "active" /\ r \in Chatty /\ turn[r].events < MaxItems
  /\ LET n == turn[r].events + 1 IN
     \/ /\ notes' = Append(notes, Event(r, "item", n))
        /\ turn' = [turn EXCEPT ![r].events = n,
                                ![r].items = IF r \in Runs THEN @ \cup {<<r, n>>} ELSE @]
     \/ /\ "retryableError" \in Moves /\ notes' = Append(notes, Event(r, "error", 0))
        /\ turn' = [turn EXCEPT ![r].events = n]
  /\ UNCHANGED <<turnMu, run, out, cancelled, broker, link>>

\* The items are written asynchronously, one by one, also after the turn's end:
\* thread/read shows this one from now on.
ServerStores(r) ==
  /\ \E i \in turn[r].items \ turn[r].stored :
       turn' = [turn EXCEPT ![r].stored = @ \cup {i}]
  /\ UNCHANGED <<turnMu, run, out, cancelled, broker, notes, link>>

\* The turn is over in the thread before its turn/completed is sent.
ServerEndsTurn(r) ==
  /\ Usable /\ turn[r].status = "active"
  /\ turn' = [turn EXCEPT ![r].status = "ended"]
  /\ notes' = Append(notes, Event(r, "turn/completed", 0))
  /\ UNCHANGED <<turnMu, run, out, cancelled, broker, link>>

-----------------------------------------------------------------------------
WaitStep(r) ==
  \/ ReadTurn(r) \/ ReadTurnOver(r) \/ ReadOutput(r) \/ RetryDrains(r) \/ RetryReads(r)
  \/ RetryCancelled(r) \/ ReadTurnTransient(r) \/ ReadTurnFails(r) \/ SelectEvent(r)
  \/ SelectClosed(r) \/ SelectTick(r) \/ SelectCancelled(r) \/ ReadFinal(r)

StreamStep(r) == StreamEvent(r) \/ StreamPush(r) \/ StreamSubClosed(r) \/ StreamCancelled(r)

CallerStep(r) ==
  \/ SubscribeStep(r) \/ TurnStart(r) \/ TurnStartReturns(r) \/ TurnStartFails(r)
  \/ r \notin Streams /\ WaitStep(r)
  \/ r \in Streams /\ StreamStep(r)

Next ==
  \/ \E r \in Callers :
       \/ Lock(r) \/ CallerStep(r) \/ Cancel(r)
       \/ ServerStartsTurn(r) \/ ServerEmits(r) \/ ServerStores(r)
       \/ ServerEndsTurn(r)
  \/ \E r \in Streams : ConsumerTakes(r)
  \/ NotificationLoop \/ CloseEvents \/ CloseTransport \/ ConnectionLost

Spec == Init /\ [][Next]_vars

\* Goroutines that can run do, and ticks come; users need not cancel, close or
\* consume, and the server need not answer.  A select that keeps coming back to
\* a context that is done takes that branch in the end: Go chooses among the
\* ready ones at random.
FairSpec ==
  /\ Spec
  /\ \A r \in Callers : WF_vars(CallerStep(r)) /\ SF_vars(SelectCancelled(r))
  /\ \A r \in Streams : SF_vars(StreamCancelled(r))
  /\ WF_vars(NotificationLoop) /\ WF_vars(CloseTransport)

\* The caller of RunStreamed drains the channel, as its comment demands.
DrainedSpec == FairSpec /\ \A r \in Streams : WF_vars(ConsumerTakes(r))

-----------------------------------------------------------------------------
(* Properties. *)

Events == [turn : Callers, kind : {"item", "error", "turn/completed"}, item : 0..MaxItems]

\* Type invariant, with the capacities of the channels.
TypeOK ==
  /\ turnMu \in Runs \cup Streams \cup {None}
  /\ run \in [Callers -> [pc : {"idle", "subscribe", "start", "starting", "poll", "check",
                                "select", "final", "retry", "reread", "stream", "push",
                                "returned"},
                          transient : 0..MaxTransient - 1, rereads : 0..MaxRereads - 1,
                          items : SUBSET (Runs \X (1..MaxItems)),
                          sub : {"none", "open", "nil"},
                          event : {"none", "item", "error", "turn/completed"},
                          result : {"none", "ok", "error", "turn/completed", "cut off",
                                    "cancelled"}]]
  /\ out \in [Streams -> Seq({"item", "error", "turn/completed"})]
  /\ \A r \in Streams : Len(out[r]) <= OutCap
  /\ cancelled \subseteq Callers
  /\ broker \in Brokers(Events) /\ \A r \in Callers : Len(broker.ch[r].buf) <= SubCap
  /\ notes \in Seq(Events)
  /\ turn \in [Callers -> [status : {"none", "requested", "refused", "active", "ended"},
                           events : 0..MaxItems, items : SUBSET (Runs \X (1..MaxItems)),
                           stored : SUBSET (Runs \X (1..MaxItems))]]
  /\ link \in {"up", "down", "closing", "closed"}

\* "It blocks until the turn reaches a terminal state": a Run or WaitForTurn
\* that returns a turn, and a stream that ends with turn/completed, belong to
\* a turn that is over, although Run does not look at the status it reads after
\* a turn/completed and the event may be the late one of an earlier turn.
ReturnsWhenOver ==
  \A r \in Callers : run[r].result \in {"ok", "turn/completed"} => Terminal(r)

\* What the items of a Run are: of its own turn, and either exactly those that
\* thread/read shows, if it shows any, or every item of the turn that a
\* notification could have told it of.  In the second case only items are missing
\* whose notification is still on its way (the read may see the end of the turn
\* first), came after the last look at the subscription, or found it closed.  In
\* the first case an item Run has gathered is gone if the list lacks it: a list
\* read in part takes the place of what the notifications told.
OnTheWay(r, i, queue) ==
  \E j \in DOMAIN queue : queue[j] = Event(r, "item", i[2])
Excused(r, i) ==
  \/ OnTheWay(r, i, notes) \/ broker.ch[r].closes > 0 \/ link = "down"
  \/ /\ run[r].pc \in {"final", "reread"} \/ r \in cancelled
     /\ OnTheWay(r, i, broker.ch[r].buf)
ReturnsOk(r) == run[r].result = "none" /\ run'[r].result = "ok"
RunReturnsReadOrGathered ==
  [][\A r \in Runs : ReturnsOk(r) =>
       /\ run'[r].items \subseteq turn[r].items
       /\ \/ Shown(r) # {} /\ run'[r].items = Shown(r)
          \/ \A i \in turn[r].items \ run'[r].items : Excused(r, i)]_vars

\* What turnMu really gives: two turns of the thread run at the same time only
\* if the caller of one of them has given up on it (its TurnStart failed, its
\* context was cancelled, its wait failed, its stream saw an error event or was
\* cut off by an overflow).
OverlapOnlyAfterGivingUp ==
  \A r, s \in Runs \cup Streams :
    r # s /\ turn[r].status = "active" /\ turn[s].status = "active" =>
      \E c \in {r, s} : run[c].result \in {"error", "cancelled", "cut off"}

\* turnMu "prevents concurrent turns on the same thread".
OneTurnAtATime ==
  \A r, s \in Runs \cup Streams :
    turn[r].status = "active" /\ turn[s].status = "active" => r = s

\* Run and WaitForTurn return once their turn is over, the connection lost, the
\* client closed or their context done, even if the event that says so was
\* missed, overflowed the subscription or never came.
WaitsEnd ==
  \A r \in Runs \cup Waiters :
    (/\ run[r].pc \in {"poll", "check", "select", "final", "retry", "reread"}
     /\ Terminal(r) \/ ~Usable \/ r \in cancelled) ~> (run[r].pc = "returned")

\* "Callers MUST cancel the context (or fully drain the channel ...) to ensure
\* the lock is released": cancelling is enough, also for a stream blocked on a
\* channel nobody reads.
CancelReleases == \A r \in Runs \cup Streams : (r \in cancelled) ~> (turnMu # r)

\* A stream that is subscribed when its turn/completed is still to be
\* published closes its channel and gives back the lock, even if the event is
\* lost in an overflow, unless it is blocked on a channel nobody reads or the
\* connection is lost, which nothing tells it.
SubscribedStreamCloses ==
  \A r \in Streams :
    (/\ run[r].pc \in {"stream", "push"}
     /\ \E i \in 1..Len(notes) : notes[i] = Event(r, "turn/completed", 0))
      ~> (\/ run[r].result # "none" \/ link = "down"
          \/ run[r].pc = "push" /\ Len(out[r]) = OutCap)

\* "The channel is closed when the turn completes or errors."
StreamCloses ==
  \A r \in Streams :
    (run[r].pc \in {"subscribe", "stream", "push"} /\ Terminal(r)) ~> (run[r].result # "none")

=============================================================================
