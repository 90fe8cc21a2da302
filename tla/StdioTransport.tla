--------------------------- MODULE StdioTransport ---------------------------
(***************************************************************************)
(* StdioTransport over the jrpc2 client (internal/transport/stdio.go), and *)
(* the adapter that serves the server's requests (stdioTransport in        *)
(* client.go), over the pipes of a managed process.                        *)
(*                                                                         *)
(* Goroutines: the callers of Call, jrpc2's accept loop, one goroutine for *)
(* each message it has read, one for each server request (OnCallback), the *)
(* adapter's requestLoop, the client's notificationLoop, the callers of    *)
(* Close.  jrpc2 has one lock, c.mu.  It is held over a write to the       *)
(* server and over OnNotify, and both may block; every other critical      *)
(* section is one action.                                                  *)
(*                                                                         *)
(* A message is known by what it belongs to: the response to call c is c,  *)
(* a notification is a member of Notes, a request a member of Reqs.        *)
(***************************************************************************)
EXTENDS ManagedProcess

CONSTANTS
  Calls, Notes, Reqs, \* invocations of Call, notifications and requests of the server
  Notifies,           \* those of Calls that are invocations of Notify
  QueueCap,           \* capacity of the channels requests and notes (32 in the code)
  MaxInbox,           \* bound: messages in the process's stdout
  Garbage,            \* a line that jrpc2 cannot decode, or longer than versionFixer's buffer
  None

ASSUME StdioAssumption ==
  /\ Notifies \subseteq Calls /\ QueueCap \in Nat /\ MaxInbox \in Nat
  /\ Calls \cap (Notes \cup Reqs \cup {Garbage, None, "free", "note"}) = {}
  /\ Notes \cap (Reqs \cup {Garbage}) = {}
  /\ Reqs \cap {Garbage, None, "free", "note", "select", "ended"} = {}

VARIABLES
  mu,               \* who holds c.mu: "free", "note" (a delivery in OnNotify), a call or a request
  stopped, done,    \* jrpc2's client is stopped; t.done is closed
  pending,          \* the calls jrpc2 expects responses to
  call,             \* locals of each Call; ch is the channel of its Response
  accept, hand,     \* jrpc2's accept loop, and the messages whose goroutines are under way
  notes, requests,  \* how full the channel notes is; what is in the channel requests
  callback,         \* where OnCallback of each request is
  adapterClosed,    \* s.closed of the adapter is closed
  requestLoop,      \* "select", "ended", or the request whose handler runs
  reply,            \* what the handler answered to each request
  closer, panicked, \* where each Close is; whether a channel was closed twice
  overlapped,       \* whether two Closes were between test and close at the same time
  pipe, inbox,      \* our ends of the process's pipes, and what is in its stdout
  sent,             \* notifications, requests and garbage the server has sent
  received, answered, replies \* calls the server has read and answered, replies it has read

jrpc2 == <<stopped, pending, call, accept, hand>>
served == <<callback, requestLoop, reply>>
closing == <<adapterClosed, closer, panicked, overlapped>>
server == <<sent, received, answered, replies>>
wire == <<pipe, inbox, server>>
stdioVars == <<mu, jrpc2, done, notes, requests, served, closing, wire>>

StdioInit ==
  /\ mu = "free" /\ stopped = FALSE /\ done = FALSE /\ pending = {}
  /\ call = [c \in Calls |-> [pc |-> "start", ch |-> "empty", result |-> "none"]]
  /\ accept = "recv" /\ hand = {} /\ notes = 0 /\ requests = <<>>
  /\ callback = [q \in Reqs |-> "none"] /\ reply = [q \in Reqs |-> "none"]
  /\ requestLoop = "select"
  /\ adapterClosed = FALSE /\ closer = [k \in Closers |-> "idle"]
  /\ panicked = FALSE /\ overlapped = FALSE
  /\ pipe = "open" /\ inbox = <<>>
  /\ sent = {} /\ received = {} /\ answered = {} /\ replies = [q \in Reqs |-> "none"]

-----------------------------------------------------------------------------
(* Call, and jrpc2's Call under it. *)

CallReturns(c, r) == call' = [call EXCEPT ![c].pc = "returned", ![c].result = r]

\* The look at t.done, then req.
CallBegins(c) ==
  /\ call[c].pc = "start"
  /\ IF done THEN CallReturns(c, "ErrClosed") ELSE call' = [call EXCEPT ![c].pc = "send"]
  /\ UNCHANGED <<mu, stopped, pending, accept, hand, done, notes, requests, served, closing,
                 wire, procVars>>

\* send takes c.mu.  A stopped client has an error to return.
CallSendRefused(c) ==
  /\ call[c].pc = "send" /\ mu = "free" /\ stopped /\ CallReturns(c, "error")
  /\ UNCHANGED <<mu, stopped, pending, accept, hand, done, notes, requests, served, closing,
                 wire, procVars>>

CallSend(c) ==
  /\ call[c].pc = "send" /\ mu = "free" /\ ~stopped
  /\ mu' = c /\ call' = [call EXCEPT ![c].pc = "write"]
  /\ UNCHANGED <<stopped, pending, accept, hand, done, notes, requests, served, closing,
                 wire, procVars>>

\* What is written reaches a process that runs, unless its stdin is closed, here
\* by a stop of the client or by a Shutdown.
Writable == proc = "running" /\ stdin = "open"

\* The server reads what is written.  A Call waits for its response, a Notify
\* is through.
CallWritten(c) ==
  /\ mu = c /\ Writable /\ mu' = "free"
  /\ received' = received \cup {c}
  /\ IF c \in Notifies
     THEN CallReturns(c, "sent") /\ UNCHANGED pending
     ELSE call' = [call EXCEPT ![c].pc = "wait"] /\ pending' = pending \cup {c}
  /\ UNCHANGED <<stopped, accept, hand, done, notes, requests, served, closing, pipe, inbox,
                 sent, answered, replies, procVars>>

CallWriteFails(c) ==
  /\ mu = c /\ ~Writable /\ mu' = "free" /\ CallReturns(c, "error")
  /\ UNCHANGED <<stopped, pending, accept, hand, done, notes, requests, served, closing,
                 wire, procVars>>

CallGetsReply(c) ==
  /\ call[c].pc = "wait" /\ call[c].ch # "empty" /\ CallReturns(c, call[c].ch)
  /\ UNCHANGED <<mu, stopped, pending, accept, hand, done, notes, requests, served, closing,
                 wire, procVars>>

\* Seeded fault: the end of the context is taken for an empty result.
FaultWaitCompleteIsResult(c) ==
  /\ c \in pending /\ mu = "free"
  /\ pending' = pending \ {c} /\ call' = [call EXCEPT ![c].ch = "response"]
  /\ UNCHANGED <<mu, stopped, accept, hand, done, notes, requests, served, closing, wire,
                 procVars>>
\* waitComplete: the context of the call has ended, by itself or because the
\* client is stopped.  It takes c.mu to say so.
WaitComplete(c) ==
  /\ c \in pending /\ mu = "free"
  /\ pending' = pending \ {c} /\ call' = [call EXCEPT ![c].ch = "error"]
  /\ UNCHANGED <<mu, stopped, accept, hand, done, notes, requests, served, closing, wire,
                 procVars>>

-----------------------------------------------------------------------------
(* jrpc2's accept loop, and the delivery of each message in a goroutine of   *)
(* its own: messages overtake each other.                                    *)

Accept ==
  /\ accept = "recv" /\ inbox # <<>> /\ Head(inbox) # Garbage
  /\ hand' = hand \cup {Head(inbox)} /\ inbox' = Tail(inbox)
  /\ UNCHANGED <<mu, stopped, pending, call, accept, done, notes, requests, served, closing,
                 pipe, server, procVars>>

EndOfFile == inbox = <<>> /\ (pipe = "closed" \/ proc = "exited")

\* The end of the pipe, or a line that does not decode, stops the client.
AcceptFails ==
  /\ accept = "recv" /\ mu = "free"
  /\ EndOfFile \/ (inbox # <<>> /\ Head(inbox) = Garbage)
  /\ stopped' = TRUE /\ accept' = IF stopped THEN "ended" ELSE "stopping"
  /\ pipe' = "closed" /\ inbox' = <<>> /\ stdin' = "closed"
  /\ UNCHANGED <<mu, pending, call, hand, done, notes, requests, served, closing, server,
                 proc, reaped, signals, shutdown>>

\* OnStop.
AcceptStops ==
  /\ accept = "stopping" /\ accept' = "ended" /\ done' = TRUE
  /\ UNCHANGED <<mu, stopped, pending, call, hand, notes, requests, served, closing, wire,
                 procVars>>

DeliverResponse(c) ==
  /\ c \in hand /\ mu = "free" /\ hand' = hand \ {c}
  /\ pending' = pending \ {c}
  /\ call' = IF c \in pending THEN [call EXCEPT ![c].ch = "response"] ELSE call
  /\ UNCHANGED <<mu, stopped, accept, done, notes, requests, served, closing, wire, procVars>>

\* OnNotify waits for room in notes, or for done, with c.mu in its hands.
DeliverNote(n) ==
  /\ n \in hand /\ mu = "free" /\ hand' = hand \ {n} /\ mu' = "note"
  /\ UNCHANGED <<stopped, pending, call, accept, done, notes, requests, served, closing,
                 wire, procVars>>

NotePushed ==
  /\ mu = "note" /\ notes < QueueCap /\ mu' = "free" /\ notes' = notes + 1
  /\ UNCHANGED <<jrpc2, done, requests, served, closing, wire, procVars>>

NoteDropped ==
  /\ mu = "note" /\ done /\ mu' = "free"
  /\ UNCHANGED <<jrpc2, done, notes, requests, served, closing, wire, procVars>>

\* Seeded fault: the client stops receiving once it is closing.
FaultTakeNoteStops ==
  /\ notes > 0 /\ ~adapterClosed /\ notes' = notes - 1
  /\ UNCHANGED <<mu, jrpc2, done, requests, served, closing, wire, procVars>>
\* notificationLoop: publishing an event never blocks, and the loop never ends.
TakeNote ==
  /\ notes > 0 /\ notes' = notes - 1
  /\ UNCHANGED <<mu, jrpc2, done, requests, served, closing, wire, procVars>>

-----------------------------------------------------------------------------
(* Server requests: OnCallback, requestLoop, Reply. *)

\* The goroutine of OnCallback starts, unless the client is stopped.
DeliverRequest(q) ==
  /\ q \in hand /\ mu = "free" /\ hand' = hand \ {q}
  /\ callback' = [callback EXCEPT ![q] = IF stopped THEN "over" ELSE "push"]
  /\ UNCHANGED <<mu, stopped, pending, call, accept, done, notes, requests, requestLoop,
                 reply, closing, wire, procVars>>

CallbackPushes(q) ==
  /\ callback[q] = "push" /\ Len(requests) < QueueCap
  /\ requests' = Append(requests, q) /\ callback' = [callback EXCEPT ![q] = "await"]
  /\ UNCHANGED <<mu, jrpc2, done, notes, requestLoop, reply, closing, wire, procVars>>

\* done, or the context, which stopping the client cancels.  What is returned
\* is discarded, under c.mu.
CallbackCancelled(q) ==
  /\ callback[q] \in {"push", "await"} /\ (done \/ stopped) /\ mu = "free"
  /\ callback' = [callback EXCEPT ![q] = "over"]
  /\ UNCHANGED <<mu, jrpc2, done, notes, requests, requestLoop, reply, closing, wire, procVars>>

CallbackReplies(q) ==
  /\ callback[q] = "await" /\ reply[q] # "none" /\ mu = "free"
  /\ mu' = IF stopped THEN mu ELSE q
  /\ callback' = [callback EXCEPT ![q] = IF stopped THEN "over" ELSE "write"]
  /\ UNCHANGED <<jrpc2, done, notes, requests, requestLoop, reply, closing, wire, procVars>>

CallbackWritten(q) ==
  /\ mu = q /\ Writable /\ mu' = "free"
  /\ callback' = [callback EXCEPT ![q] = "over"]
  /\ replies' = [replies EXCEPT ![q] = reply[q]]
  /\ UNCHANGED <<jrpc2, done, notes, requests, requestLoop, reply, closing, pipe, inbox,
                 sent, received, answered, procVars>>

CallbackWriteFails(q) ==
  /\ mu = q /\ ~Writable /\ mu' = "free"
  /\ callback' = [callback EXCEPT ![q] = "over"]
  /\ UNCHANGED <<jrpc2, done, notes, requests, requestLoop, reply, closing, wire, procVars>>

RequestLoopTakes ==
  /\ requestLoop = "select" /\ requests # <<>>
  /\ requestLoop' = Head(requests) /\ requests' = Tail(requests)
  /\ UNCHANGED <<mu, jrpc2, done, notes, callback, reply, closing, wire, procVars>>

\* The handler has answered: Reply, or ReplyError.
HandlerAnswers(answer) ==
  /\ requestLoop \in Reqs /\ requestLoop' = "select"
  /\ reply' = [reply EXCEPT ![requestLoop] = answer]
  /\ UNCHANGED <<mu, jrpc2, done, notes, requests, callback, closing, wire, procVars>>

RequestLoopEnds ==
  /\ requestLoop = "select" /\ adapterClosed /\ requestLoop' = "ended"
  /\ UNCHANGED <<mu, jrpc2, done, notes, requests, callback, reply, closing, wire, procVars>>

-----------------------------------------------------------------------------
(* Close of the adapter, of StdioTransport and of jrpc2's client. *)

\* Seeded fault: the channel is closed without a look.
FaultCloseDoesNotTest(k) ==
  /\ closer[k] = "idle" /\ ~panicked /\ closer' = [closer EXCEPT ![k] = "closing"]
  /\ UNCHANGED <<mu, jrpc2, done, notes, requests, served, adapterClosed, panicked,
                 overlapped, wire, procVars>>
\* The select on s.closed ...
CloseTests(k) ==
  /\ closer[k] = "idle" /\ ~panicked
  /\ closer' = [closer EXCEPT ![k] = IF adapterClosed THEN "closed" ELSE "closing"]
  /\ overlapped' = (overlapped \/ \E j \in Closers : closer[j] = "closing")
  /\ UNCHANGED <<mu, jrpc2, done, notes, requests, served, adapterClosed, panicked, wire,
                 procVars>>

\* ... and its close, which nothing holds together.
CloseCloses(k) ==
  /\ closer[k] = "closing" /\ adapterClosed' = TRUE
  /\ IF adapterClosed
     THEN panicked' = TRUE /\ closer' = [closer EXCEPT ![k] = "panicked"]
     ELSE closer' = [closer EXCEPT ![k] = "stop"] /\ UNCHANGED panicked
  /\ UNCHANGED <<mu, jrpc2, done, notes, requests, served, overlapped, wire, procVars>>

\* stopLocked, under c.mu: both pipes are closed, every context is cancelled.
CloseStops(k) ==
  /\ closer[k] = "stop" /\ mu = "free" /\ closer' = [closer EXCEPT ![k] = "wait"]
  /\ stopped' = TRUE /\ pipe' = "closed" /\ inbox' = <<>> /\ stdin' = "closed"
  /\ UNCHANGED <<mu, pending, call, accept, hand, done, notes, requests, served,
                 adapterClosed, panicked, overlapped, server, proc, reaped, signals, shutdown>>

\* The accept loop, the deliveries and the callbacks have ended.  Only then does
\* OnStop close t.done.
Quiet == accept = "ended" /\ hand = {} /\ mu # "note" /\ \A q \in Reqs : callback[q] \in {"none", "over"}
CloseWaits(k) ==
  /\ closer[k] = "wait" /\ Quiet /\ closer' = [closer EXCEPT ![k] = "closed"] /\ done' = TRUE
  /\ UNCHANGED <<mu, jrpc2, notes, requests, served, adapterClosed, panicked, overlapped,
                 wire, procVars>>

-----------------------------------------------------------------------------
(* The server, at its end of the pipes. *)

ServerWrites(m) ==
  /\ proc = "running" /\ pipe = "open" /\ Len(inbox) < MaxInbox /\ inbox' = Append(inbox, m)
  /\ UNCHANGED <<mu, jrpc2, done, notes, requests, served, closing, pipe, received, replies,
                 procVars>>

ServerAnswers(c) ==
  /\ c \in received \ (answered \cup Notifies) /\ answered' = answered \cup {c}
  /\ ServerWrites(c) /\ UNCHANGED sent

ServerSends(m) == m \notin sent /\ sent' = sent \cup {m} /\ ServerWrites(m) /\ UNCHANGED answered

ServerExits == Exits /\ UNCHANGED stdioVars

\* cmd.Wait closes our end of stdout, with what is still in it.
ServerReaped ==
  /\ Reap /\ inbox' = <<>>
  /\ UNCHANGED <<mu, jrpc2, done, notes, requests, served, closing, pipe, server>>

StdioTypeOK ==
  /\ mu \in {"free", "note"} \cup Calls \cup Reqs
  /\ stopped \in BOOLEAN /\ done \in BOOLEAN /\ pending \subseteq Calls
  /\ call \in [Calls -> [pc : {"start", "send", "write", "wait", "returned"},
                         ch : {"empty", "response", "error"},
                         result : {"none", "response", "sent", "ErrClosed", "error"}]]
  /\ accept \in {"recv", "stopping", "ended"} /\ hand \subseteq Calls \cup Notes \cup Reqs
  /\ notes \in 0..QueueCap /\ Len(requests) <= QueueCap
  /\ callback \in [Reqs -> {"none", "push", "await", "write", "over"}]
  /\ requestLoop \in {"select", "ended"} \cup Reqs
  /\ closer \in [Closers -> {"idle", "closing", "stop", "wait", "closed", "panicked"}]
  /\ pipe \in {"open", "closed"} /\ Len(inbox) <= MaxInbox
=============================================================================
