# A verification of codex-app-server-go

The repository is a Go client of the Codex app-server: a JSON-RPC peer over
stdio, WebSocket or HTTP, with a layer on top that starts threads, runs turns,
streams events and answers the server's own requests. This directory models the
parts of it in which goroutines meet, checks the models with TLC, and proves
the most important results with TLAPS.

## The system

| Part | Source | State | Operations | What is hard |
|---|---|---|---|---|
| JSONRPCTransport | `internal/transport/transport.go`, `reconnect.go` | `closed`, `sessionID`, `conn`, `nextID`, `pending`, `cancel` under `mu`; `writeMu`; channels `requests`, `notes` (32), `done` | Call, Notify, Close, Reconnect, one `readLoop` per connection, Request.Reply | everything done after an unlock; ids that start again; late ends of old sessions; a lock held during a write |
| Event broker | `events.go` | subscriptions and their channels (128), `closed` | Subscribe, publish, close, unsubscribe | three ways to close one channel, overflow |
| Turns | `thread.go`, `output.go`, `wait.go` | `turnMu`, locals of Run, RunStreamed, WaitForTurn | start a turn, learn that it is over by events or by polling, give up | the two ways race; missed, reordered, overflowing events; a lock held by a goroutine |
| Client shell | `client.go`, `options.go` | broker, transport, process, thread slots | New, Initialize, Close, notificationLoop, requestLoop | order of shutdown, error paths of New |
| Thread slots | `client.go`, `thread.go` | a semaphore channel | StartThread, ResumeThread, Fork, Close | every error path must give back its slot once |
| WebSocketTransport | `internal/transport/websocket.go` | `pending`, `done`, channels | Call, Notify, Close, readLoop, awaitReply, terminate | registration after the flush; read loop blocked by a handler that waits for it |
| ReconnectingWS, ReconnectingHTTP | `internal/transport/reconnect_*.go` | `current`, `closed`, channels | watchLoop, fan goroutines, Close | Close against a dial in progress; notifications of two connections |
| StdioTransport, adapter | `internal/transport/stdio.go`, `client.go` | channels, `done`, the jrpc2 client | Call, callbacks, Close, requestLoop | callbacks under jrpc2's lock, one goroutine per message, a Close that tests then closes |
| HTTPTransport | `internal/transport/http.go` | `nextID`, channels, `done` | Call by POST, server-sent events, Close | end of the event stream |
| RetryTransport | `internal/transport/retry.go` | none | Call with back-off | retry of what was done |
| ManagedProcess | `internal/process/process.go` | `done`, exit error | Start, Wait, Shutdown | end of input, SIGTERM, SIGKILL against exit |
| Hook bridge | `internal/hookbridge/listener.go`, `cmd/codex-sdk-hook-shim` | WaitGroup, `done` | serve, handleConn, Close | Accept against Close |
| Account | `account.go` | none | login, LoginHandle.Wait | subscription after the login began |
| Server requests | `interaction.go`, `internal/protocol/decode.go` | the handler | approvalHandlerAdapter, Dispatcher | a request nobody handles must be answered, and not by a yes |
| Wrappers, decoding, JSON helpers, schema types | the rest | none | | data conversion only |

How they meet: the transport's read loop hands responses to the waiting Calls
and puts notifications and requests in two bounded channels. `requestLoop`
takes requests to the handler; `notificationLoop` decodes notifications and
publishes them to the broker, which never blocks: it cuts off a subscriber that
is full. Run, RunStreamed and WaitForTurn subscribe to the broker and make Calls
(turn/start, thread/read). Client.Close closes the broker, then the transport,
then the process.

What would make each part correct:

- a transport: a response goes to the Call that asked and to no other; every
  Call returns once it is answered, or the transport closes, or its session
  ends; no connection, goroutine or map entry is left behind; replies go to
  the session that asked;
- the broker: no panic, no gap, no subscriber left waiting;
- turns: what is returned is over; one turn at a time; a wait ends whenever
  the turn, the connection, the client or the context does; the lock comes back;
- a reconnecting transport: messages in order and without gaps per connection,
  a dropped connection replaced, nothing sent twice that may have been done,
  everything over after Close;
- the client: the options mean what they say, New leaves nothing behind when it
  fails, every server request is answered, Close returns;
- slots, processes, hooks: what is acquired is released exactly once, and
  Close waits for everything it promises to wait for.

## The modules

| Module | Models |
|---|---|
| `RPC` | abstract: what any transport promises the caller of Call |
| `JSONRPCTransport` | the newline-delimited transport with Reconnect |
| `JSONRPCTransportProofs` | its theorems about ids, the pending map and disconnection |
| `JSONRPCSessionProofs` | its theorems about contexts, connections, replies and waiting Calls; extends the former |
| `WebSocketTransport` | one WebSocket connection under the adapter's request handler |
| `WebSocketProofs` | its theorems |
| `Reconnecting` | ReconnectingWS and ReconnectingHTTP, HTTPTransport inside, RetryTransport on top |
| `ReconnectingProofs` | its theorems |
| `ManagedProcess` | the child process: Start, its exit, Shutdown |
| `StdioTransport` | StdioTransport over jrpc2, and the adapter's requestLoop; extends `ManagedProcess` |
| `Interaction` | which handler answers which server request, and with what |
| `Options` | the options of New as functions on clientConfig |
| `Client` | New, the handshake, thread slots, server requests, Close; composes `StdioTransport`, `ManagedProcess`, `Options`, `Interaction` |
| `ClientProofs` | its theorems, those about `StdioTransport` and `ManagedProcess` under it included |
| `HookBridge` | the hook listener and the shims that ask it |
| `HookBridgeProofs` | its theorems |
| `Broker` | the broker as operators on its state |
| `EventBroker` | the broker with publishers, subscribers and closers, and a history of what was published and received |
| `EventBrokerProofs` | its theorems |
| `Login` | interactive logins and LoginHandle.Wait, over `EventBroker` |
| `Turns` | Run, RunStreamed and WaitForTurn on one thread, over `Broker`, a transport and a server |
| `TurnsProofs` | its theorems |
| `MC*` | instances for TLC: symmetry, a state constraint, the sets of worlds; the `.cfg` files hold the other constants |

`WebSocketTransport`, `Reconnecting` and `Client` are each shown to implement
`RPC` (`KeepsPromise`): a Call returns at most once, a result only if the server
answered this Call, ErrClosed only after the end of the transport. The mapping
of "the end" is where they differ. For the WebSocket it is the moment the first
terminate takes the map; for jrpc2 the moment its client is stopped; under the
reconnecting transports ErrClosed means only that *a* connection is over, since
RetryTransport does not retry it and a Call on a dropped connection fails even
if the next connection is up.

`Reconnecting` and `Client` have a constant `Worlds` and a variable `world` that
never changes: Init picks one world, which says which transport or options there
are and what the environment does. One run then covers many small instances,
each rich in one respect, in place of one instance too large to check.

### JSONRPCTransport

The fields guarded by `t.mu` are variables of the same names. An action is one
critical section of `t.mu`, or the work done after an unlock; the locals a
goroutine carries across an unlock are in `call[c]`, `loop[k]`, `rec[r]` and
`closer`. Call is CallRegister (under the lock), CallLock and CallWrite, the
select (CallCancelled, CallSeesDone, CallGetsReply) and RemovePending. `writeMu` is
the lock of writeJSON, with who holds it and the connection written to; a write
ends when it likes, on a connection that is not closed perhaps never. Of Notify
that is all there is: it takes the lock and writes (NotifyLock, NotifyWrite).
`call[c].evicted` is a ghost: which registration the removePending of this Call
has deleted. Reconnect is
ReconnectStart, ReconnectDial, ReconnectInstall (under the lock) and
ReconnectFinish. `readLoop` is LoopDecode, LoopStale, one delivery per kind of
message and HandleSessionEnd. Where several steps after an unlock are visible to
others one by one (CloseFinish, ReconnectFinish) they are one step, because
each observer may be arbitrarily late in acting on any of them.

A connection is `open`, `dropped` by the server, or `closed` by the client; a
closed one refuses writes. Payloads are left out. A response carries its id,
which the code looks at, and the call it answers, which only the properties
look at. Done changes nothing and has no action. `Request.replyCh`, used by the other transports only, is not in this model.

### WebSocketTransport

One action per critical section of `w.mu`, channel operation or operation on the
connection: Call is CallRegister, CallWrite, the select and RemovePending; the
read loop is ReadFrame, then DeliverLookup and DeliverSend, or a push into a
bounded channel (PushRequest, PushNote, PushSeesDone), and LoopTerminates;
`terminate` is two steps (it takes the map under the lock, then sends the errors
and closes done) and is run by the read loop and by every Close. The WebSocket
library closes the connection when a context ends during a write, so a
cancelled Call or Notify can take the connection from the others
(CallCancelledInWrite, NotifyCancelledInWrite). The adapter's request handler is
one goroutine that may make a Call of its own before it replies. The channels
are counters: nothing tells two requests, or two notifications, apart.

### Reconnecting

`watchLoop` waits for Done, backs off, looks at `closed`, dials and installs; two
fans per connection move notifications and requests into the outer channels;
Close sets `closed`, closes `done` and closes the current inner transport. The
WebSocket and the HTTP variant differ in how an inner Call ends and in that only a
WebSocket dial may hang (DialHangs: it has no deadline, and nothing cancels it),
both by `world.kind`. An inner transport is known by what the outer one sees.
`RetryTransport.Call` loops over attempts. The server may perform a request and
then answer or not; it answers with a response, a rate limit, which says that
nothing was performed, a failure (internal error, failed connection upstream),
which says nothing about that, or a rejection. `isRetryable` takes the second and
the third. `tally` counts, per Call, what was sent, performed and so answered. A
message is <<connection, number>>. The lengths of waits are left out: a timer may
fire at any time. Of HTTPTransport the POST that carries a reply to a server
request is left out.

### StdioTransport, ManagedProcess, Client

jrpc2 (vendored) is modelled as far as its user depends on it: one lock `mu`,
held during a write to the process and during OnNotify, one goroutine per message
(`hand`), one per callback, and the way it stops. `mu` is a variable because
these two may block; every other critical section is one action. A write fails
once the process is gone or its stdin is closed (`Writable`). The adapter's
Close tests `s.closed` and closes it in two steps (CloseTests, CloseCloses);
`overlapped` records that two Closes were between them at once. A Notify is a
Call that returns `sent` once it is written. `cmd.Wait` closes the pipe with what
is unread in it (ServerReaped).

New applies its options one by one (NewAppliesOption), then builds the transport
or starts the process, and does its handshake: initialize, initialized and, if
asked for, the login. When one fails it closes the client (`cleanup`). Starters
are StartThread, ResumeThread and Fork; they acquire a slot of `sem`, call, may
run a first turn, and every exit releases. `Interaction.Answers` gives the replies
possible for the request's method and the handler the options have set; what the
application decides is a choice.

Close is ClientClose, CloseCloses, CloseStops, CloseWaits for jrpc2's goroutines,
then Shutdown: end of input, SIGTERM, SIGKILL, each given up on at any time.

### HookBridge

Shims dial, write and read; the listener accepts, then counts the connection
(AddConn, where the code has wg.Add), scans, dispatches, responds. Close is the
first into once.Do or a later one, then the wait. The WaitGroup is Go's: when
the counter falls to 0 its waiters are released, and one that finds the counter
raised again panics, as may the wg.Add that raises it or the wg.Done it meets. A
payload is known by whether its first line is a request that can be read, and
whether that is all of it; an unreadable one is answered "allow" without the
handler, as in the code, and what is left unread may cost the shim its answer. A
shim that cannot write to its own standard output is left out.

### Broker, EventBroker and Login

Every broker method holds `b.mu` from start to end, so each is a function on
the broker's state; `closes` counts the `close()` calls on a channel so that a
second one, which would panic, can be seen. EventBroker adds the users and a
log. Turns uses the same operators. Login adds the Wait of an interactive login
as one of the subscribers: the name of a login stands for its subscription and
for the event that it is completed; `AnyLogin` is that event without an id, which
ends every Wait.

### Turns

Each caller starts one turn. `run[r].pc` follows the code: `Lock`,
`SubscribeStep`, `TurnStart` in the order of each function (Run subscribes
first, RunStreamed after the answer), then the poll loop (`ReadTurn`,
`ReadOutput`, the select, `ReadFinal`) or the stream's goroutine (`StreamEvent`,
`StreamPush`). A Call is one step at the moment the server handles it; turn/start
has two, because its answer and the turn's events race. The server ends a turn
in its own state before it sends turn/completed, and writes the items of the
turn where thread/read shows them (`stored`) one by one, in any order, at any
time or never. What Run gathers is the set of items that reads, item events and
turn/completed told it of; what it returns is the list it read last, if that has
anything in it, and else what it gathered; whether it
makes another attempt when it has none (RetryDrains, RetryReads) also depends on
texts and usage, which are left out, so both happen. The transport keeps the
order of notifications or does not (`Ordered`): over stdio the jrpc2 client starts
a goroutine per message and does not. Events that name no turn (eventMatchesTurn
lets those of the thread, and raw ones, pass) are left out: they only wake a wait
up, as the ticker does.

## The runs

| Run | Checks | Instance |
|---|---|---|
| `jsonrpc_safety` | ResponseToAsker, HonestDisconnect, PendingIsLive, WaiterReachable, ConnAccounted, LiveSessionCtx, RepliesOnceAtHome | 2 calls around 1 Reconnect and 2 connections with drops, or 2 Reconnects over 3 connections with a server request in hand and messages the loop rejects (`CallsOrRequests`) |
| `jsonrpc_close` | CloseReleasesEveryone, EndedSessionCtx | 1 call and any Notify, 1 Reconnect, channels that never have room, a server that need not read |
| `jsonrpc_id_reuse` | AnsweredCallReturns, violated | 2 calls, 1 Reconnect |
| `event_broker` | NoPanic, NoGaps, NobodyLeftWaiting, WaitSeesTheEnd | 2 free subscribers and the Wait of a login, capacity 1, 3 events |
| `turns_safety` | ReturnsWhenOver, OverlapOnlyAfterGivingUp, RunReturnsReadOrGathered | one Run, one RunStreamed and one WaitForTurn together, or one Run alone with 2 items, a lost connection and cancellation (`ItemsOrCallers`); reordering, failing reads, Close |
| `turns_live` | WaitsEnd, CancelReleases, SubscribedStreamCloses | one Run, one RunStreamed, capacities 1, failing reads |
| `turns_late_subscribe` | StreamCloses, violated | one RunStreamed |
| `turns_retryable_error` | OneTurnAtATime, violated | one RunStreamed, one Run |
| `websocket` | WaiterReachable, CloseReleasesEveryone, DropReleasesEveryone, KeepsPromise | a Call and one of the handler, one Close, capacities 1 |
| `reconnecting` | OnlyTheDialLeaks, RepeatedOnlyIfAnswered, NoGapsPerConnection, EveryMessageArrives, CloseEndsEverything, ConnectsAgain, KeepsPromise | 6 worlds: each variant with a Call of 2 attempts, with notifications, with requests; 2 connections, 2 messages on each |
| `client` | SlotsConserved, PanicOnlyIfOverlapped, NothingLeftBehind, ApprovedByHandler, OptionsHonoured, EndReleasesEveryone, RequestsAnswered, KeepsPromise | every list of 3 options out of 8, and 6 worlds over a process: handshake with login, three Closes with a full channel, server requests under each kind of handler, two threads for one slot |
| `hook_bridge` | OnlyOneOutlivesClose, HooksAnswered | 2 hooks, 2 Closes, every handler and payload |

Bounds. Two calls are what the reuse of an id takes, one in each session; a
third would repeat the part of one of them. Two connections are one Reconnect
and three are two overlapping ones. Two messages per connection are what a gap
or a swap takes. Two hooks are what a WaitGroup in use again takes, one done
and one added. Two threads for one slot make one wait. Capacities are 1 (2 for
the subscriptions of `turns_safety`) where the code has 32, 64 or 128, so that full channels happen within few steps; no
definition depends on the number. `jsonrpc_close` has capacity 0: a channel that
is full and that nobody reads. Two items are what a list shown in part takes. In
`jsonrpc_safety` a state constraint keeps notifications to the first connection
and Notify out, which share nothing but a lock and a channel with the rest; in
`turns_safety` one keeps the items of a Run to the behaviours in which it is alone,
since items and other callers together are beyond TLC. `MaxInbox` bounds what is in flight, `MaxSent`,
`MaxItems`, `Chatty` and `Cancellable` what servers send and which contexts are
cancelled, `ServerMoves` and `Moves` which misfortunes a run includes,
`MethodsAsked` which methods the server's requests have. Deadlock is not
checked: when every caller has returned and the transport is closed the system
stops, as it should.

Fairness. A goroutine that can run does (weak fairness of its steps), and
timers fire. Nothing is assumed of users, who need not cancel, close, drain or
call, nor of the server, which need not answer, unless a specification says so:

- A write of JSONRPCTransport ends for certain only on a closed connection. A Call
  that waits for writeMu gets it if it is free again and again (strong fairness):
  Go's mutexes do not starve a waiter.
- `DrainedSpec` (JSONRPCTransport, Turns) adds that the channels are read, as
  `requestLoop`, `notificationLoop` and the comment on RunStreamed have it.
- `FairSpec` of Turns has strong fairness for a select that returns again and
  again to a context that is done, because Go chooses among ready cases at
  random. `turnMu.Lock` has none: that a caller gets the lock is not claimed.
- `FairSpec` of WebSocketTransport has the client serve requests and drain
  notifications until it begins to close (`Serving`), as requestLoop and
  notificationLoop do; the handler may still be stuck in a Call of its own.
- `FairSpec` of Reconnecting has strong fairness of a dial that succeeds: a
  server that is reachable again and again is reached. That is an assumption
  on the server, needed for ConnectsAgain only. A dial that fails does so in
  finite time; one that hangs is a state of its own (`hung`) and never ends.
- `FairSpec` of Client has one weak fairness, of all internal steps together:
  the client does not stop while any of its goroutines can run. That is less
  than Go gives and enough here. It includes that a process that was sent
  SIGKILL ends; writes to the server and everything the server does are outside.
- `FairSpec` of HookBridge has the handler return ("It must return quickly") and
  the loop accept a connection that waits; `LoginSpec` has a Wait go on.

## What the runs show

JSONRPCTransport keeps responses, replies, connections and session contexts
apart under every interleaving of the instances. It has two weaknesses. One is the
map of pending calls: Reconnect starts ids at 0 again and a Call of the old
session that fails late removes whatever has its id now. `WaiterReachable` says
that this is the only way for a Call to be forgotten (`Evicted`: that very Call
must have deleted this very registration), and `jsonrpc_id_reuse` shows it happen:
a response arrives and its Call does not return. The other is writeMu, one lock
for all connections and held during the write. Close ends a blocked write by
closing its connection; but handleSessionEnd sets t.conn to nil without closing
it, so a write to a connection given up this way may block for ever, and with it
every Call that has yet to write, on any later connection too. This is the
exception `BlockedOnGivenUp` of CloseReleasesEveryone, and there is no other.

WebSocketTransport forgets nobody: a Call that registers after the map was
flushed is ended by done. A lost connection ends every Call with one exception,
which DropReleasesEveryone names `Jammed`: the read loop waits for room for a
server request, and the one handler is in a Call whose response only the read
loop could bring. Close still ends both.

The reconnecting transports deliver per connection in order and without gaps,
though not the last messages before a drop. A Call is sent again only after the
server has answered it with a limit or a failure (RepeatedOnlyIfAnswered). As a
failure may come of a request that was performed, a Call that is not idempotent
can be performed once for each failure and once more. A Call whose connection
drops is not sent again: isRetryable (retry.go:125) refuses ErrClosed, while the
comments of both transports (reconnect_ws.go:9, reconnect_http.go:31) say
"callers should layer RetryTransport on top to retry at the RPC level". A connection can outlive Close in one case (OnlyTheDialLeaks):
watchLoop was dialling, past its last look at `closed`, when Close began. Calls on
that connection, POSTs under way, and a watchLoop in a WebSocket dial that hangs
are what CloseEndsEverything excepts; ConnectsAgain excepts the last.

The client answers every server request as long as the session lasts, and
approves only by a handler of the application. Slots are conserved. New that
fails after it started the process leaves nothing of it behind; a connection
opened by an option is left open if a later option replaces it, if the process
is used instead, or if New fails before it owns it. The transport is the one the
options ask for, with the retry policy around it if it is a connection
(OptionsHonoured). Two cases the property leaves open, because there the documents
promise more than the code does. Around any other transport there is no retry
(client.go:49), where docs/index.md:239 has WithRetry "Wrap existing transport with
retry logic" and llms.txt:14 "wrap current transport with retry". And a header counts
only if it stands before the option that connects (options.go:176), a condition that
the comments of the header options (options.go:124, 144) do not name. Two Closes that overlap between the test
and the close of `s.closed` panic, and only they (PanicOnlyIfOverlapped). Close
returns except when the server runs and does not read: jrpc2 writes with its
lock held and Close needs the lock before it looks at the process
(`ServerDoesNotRead`).

The hook bridge answers every hook it accepted with the handler's decision.
Close waits for all connections but one that was accepted and not yet counted;
if that one is counted just as the wait ends, the WaitGroup may panic. Both are in
OnlyOneOutlivesClose and excepted in HooksAnswered.

The broker does what it promises. A subscriber it cuts off sees the end of its
channel after an unbroken part of the log. A Wait returns when its login ends and
does not take another's end for its own; only an end published before Wait was
called is not seen.

Run and WaitForTurn return only turns that are over, and Run always returns.
What Run returns is the list of items that thread/read showed, whole, or, if that
was empty, all it could have gathered (RunReturnsReadOrGathered). Two things can
be missing then, although Run subscribes first so that notifications "are never
missed" (thread.go:113): an item whose notification is still on its way when a read
shows the end of the turn, and, since a list that is not empty takes the place
of what was gathered, an item Run was notified of and the server has not yet
written when it has written another (thread.go:138).
RunStreamed is weaker in three ways. It subscribes after turn/start was
answered, so a fast turn leaves it waiting with the lock held
(`turns_late_subscribe`). It takes every error event for the end, also one that
the server will retry, and unlocks while the turn runs on
(`turns_retryable_error`). And it depends on events alone: the loss of the
connection closes nothing it waits on, which is why `SubscribedStreamCloses`
excepts it. `OverlapOnlyAfterGivingUp` is what remains true of turnMu in all
cases.

Observed while modelling and not the subject of a run: after an overflow
WaitForTurn, which keeps its closed subscription where Run forgets it, goes
round its loop without waiting for the ticker. And an item that a read has shown
is appended once more when its event comes, so Run can return it twice when its
last read fails.

## What is proved

For every value of the constants, thus for any number of calls, connections,
subscribers and events:

- `JSONRPCTransportProofs`: `TypeCorrect`, `ResponsesReachAskers`,
  `PendingStaysLive`, `DisconnectsAreHonest`, from `BoundsAssumption` alone.
  ResponseToAsker is not inductive: that a response goes to its asker depends
  on what was under an id when the request was written and on which session the
  read loop belongs to. The inductive invariant `IInv` adds: session numbers are
  distinct and at most the current one, the transport's connection has the
  current one, and a connection that Reconnect still holds belongs to it alone
  and its read loop has not started (`SessionsInv`); a registered call sits on
  an installed connection, and no two calls on one connection share an id
  (`CallsInv`); a response on the wire or in a loop's hands has the id and the
  connection of the call it answers (`WireInv`); the calls a goroutine has taken
  out of the map are registered calls and no longer in it, the channels of
  those still in it are empty, and a loop about to reply holds the response of
  exactly the call it took (`TakenInv`). HonestDisconnect rests on SessionsInv:
  when handleSessionEnd passes its sid test, the loop that ran it is the one of
  the transport's connection, and once a session is over it stays so. One lemma
  per action shows each part preserved.
- `JSONRPCSessionProofs`, from `BoundsAssumption` and on top of `IInv`:
  `LiveContexts`, `ConnectionsAccounted`, `RepliesGoHomeOnce`,
  `WaitersReachable`. `SessionInv` adds to ConnAccounted that a cancel function
  copied under t.mu is not that of a session that is still connected
  (`Contexts`: it is why Reconnect, which cancels after it has installed, cannot
  hit its own session), that Reconnect and Close have locals to deal with only
  in the steps that use them (`Idle`), and that a loop that runs has a session
  number (`Started`). `RequestInv` says of a server request that it is in one
  place at a time (`OnePlace`) and carries the session number of the connection
  it came on (`Home`); that a reply cannot go elsewhere then follows from IInv:
  two connections never have the same session number. WaiterReachable is kept
  together with `Registered`: a Call that has registered has a connection, and
  `Evictions`: a removePending has deleted the Call's own entry, none, or that of a
  Call of a later session with the same id, since by `IInv` no two Calls of one
  connection share an id.
- `TurnsProofs`, from `TurnsAssumption`: `TypeCorrect`, `OverWhenReturned`,
  `OverlapsOnlyAfterGivingUp`, and `ReturnsReadOrGathered`, an action property. What Run
  does with an event depends on what the event was when it was published, so the
  invariant follows it: an event tells the truth about its turn in the
  notifications and in every buffer (`NotesTrue`, `BuffersTrue`), what a caller
  concluded from it stays true (`Concluded`), turnMu is held from Lock to return
  (`Locked`), Run is subscribed before its turn begins (`Subscribed`), and an
  item that Run lacks is on its way, in its subscription, or the subscription
  was closed or the link is down (`Gathering`). The order of notifications is
  not used: the theorems hold with and without `Ordered`.
- `EventBrokerProofs`: `TypeCorrect`, `NeverPanics`, `DeliversWithoutGaps`,
  `LeavesNobodyWaiting`, from `BrokerAssumption`. Its `IInv` is the
  conjunction of the four (TypeOK, NoPanic, NoGaps, NobodyLeftWaiting) and
  `Fresh`: a subscription that was never made is empty and unclosed.
- `WebSocketProofs`, from `WebSocketAssumption`: `TypeCorrect`, `NoWaiterLost`,
  and `PromiseKept`, the refinement of RPC. Ids are never reused here, so an
  entry of the map, a response on its way and a Call that share an id belong
  together (`Ids`, `Messages`), what is in a reply channel is this Call's
  response or a terminate's ErrClosed (`Results`), and a terminate holds Calls
  only while it runs (`Held`). Every step is then a step of RPC or leaves its
  variables alone.
- `ReconnectingProofs`, from `ReconnectingAssumption`: `OnlyTheDialCanLeak` by
  `Links` (watchLoop dials only when its connection is over, and sees closed or
  is marked as dialling past it), `RepeatsOnlyIfAnswered` by `Attempts` (per
  Call, how often it was sent against the limits and failures answered, how often
  it was performed against the failures, and what each place in the retry loop
  says about the last answer), `ReceivesWithoutGaps`, an action
  property, by `Flows` (what is received, buffered and in the hands of a fan-in
  goroutine is contiguous, for each connection of its own), `PromiseKept` by
  Links and Attempts, and `TypeCorrect`.
- `ClientProofs`, from `ClientAssumption` and `StdioAssumption`. Its steps are
  grouped by the goroutine that takes them, with a lemma on what each group
  leaves alone. `SlotsAreConserved`: releasing takes one thread out of a finite
  set of holders, so the non-blocking receive of release always finds a token.
  `NoPanicAlone`. `OptionsAreHonoured`, for sequences of options of any length,
  by an invariant (`Applied`) that describes clientConfig after each prefix of
  them. `PromiseKept` by `Sources` (a message was sent by whom it should),
  `Results` (a reply channel holds a response only if the server answered) and
  `Stops` (done is closed only when jrpc2's client is stopped).
  `AcceptedByHandler` by `Approvals`: the handler does not change once there is
  a process that could ask. `NothingIsLeftBehind` by `Ends`: until New has made
  its client ready nobody else uses it, so the Close of New is the only one, and
  what has become quiet stays quiet. `TypeCorrect`.
- `HookBridgeProofs`, from `HookBridgeAssumption` (finitely many hooks, so that
  they can be counted): `TypeCorrect`, `OneOutlivesClose`. The counter of the
  WaitGroup is the number of connections between wg.Add and wg.Done
  (`WgCounts`); the accept loop holds at most one more (`OneAccepted`); Close
  closes the socket first (`ClosedFirst`); so whoever is past Wait has at most
  that one left (`LastInHand`).

The assumptions say that bounds and capacities are natural numbers, that the
names of different kinds of things differ, and that the worlds of a run are of
the type their description says; TLC evaluates them on every run. No theorem
assumes fairness or an order of messages.

Every invariant, action property and refinement of the passing runs is
stated by a theorem. Model-checked only are the liveness properties
(CloseReleasesEveryone, EndedSessionCtx, WaitsEnd, CancelReleases,
SubscribedStreamCloses, DropReleasesEveryone, ConnectsAgain,
EveryMessageArrives, CloseEndsEverything, EndReleasesEveryone,
RequestsAnswered, HooksAnswered, and WaitSeesTheEnd, with it all of Login):
they need fairness and ENABLED, which are outside the prover's reach. The three
violations are counterexamples of TLC. Type invariants are proved and need no
run. WaitsEnd is checked for Run; WaitForTurn, the same loop, is in the safety
run only.

## What is not modelled

The parts marked not_modelled in `PROJECT.json`: RPC wrappers are one Call each,
event decoding, JSON helpers, envelopes and schema types convert data, the mock
server is a test double. The model catalog of the client (validateModel,
loadModelCatalog) is code that nothing calls. JSON framing and encoding, the
goroutine of versionFixerReader that copies stdout among it, are
outside every model: a message is decoded, or it is one the loop rejects. Of the
output of a turn the texts, deltas and usage are left out, and so is which text
WaitForFinalAgentMessage and WaitForStructuredOutput pick; the wait they share
with Run is modelled. So is the clock: how long anything waits, and how fast
WaitForTurn turns on a closed subscription.

## Plan

1. Done: JSONRPCTransport and its theorems, the broker and its theorems, Turns;
   WebSocketTransport, Reconnecting with retry, the client over a process with
   its options, slots, requests and Close, the hook bridge, logins, and RPC as
   what the transports implement.
2. Done: theorems for every invariant, action property and refinement the runs
   check, and the type invariants of all components.
3. To come: JSONRPCTransport as an implementation of RPC, with the reuse of ids
   as the reason for what the mapping must except; that sessions, closed and
   returned never go back, as action properties of JSONRPCTransport; what a
   login's Wait may return, over EventBroker.
