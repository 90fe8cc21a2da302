-------------------------- MODULE JSONRPCTransport --------------------------
(***************************************************************************)
(* The newline-delimited JSON-RPC client transport                         *)
(* (internal/transport/transport.go and reconnect.go).                     *)
(*                                                                         *)
(* Goroutines: the callers of Call, one readLoop per connection, the       *)
(* callers of Reconnect and of Close, and the handlers that Reply to       *)
(* server requests.  They share the fields guarded by t.mu.  An action is  *)
(* one critical section of t.mu, or the work done between two of them: the *)
(* code unlocks before it writes, sends on a channel or closes a           *)
(* connection, and those gaps are where the goroutines interleave.         *)
(*                                                                         *)
(* Connections are numbered in the order the opener returns them; a        *)
(* session is a connection that has been installed, numbered by sessionID. *)
(* A caller makes one Call; payloads are left out, so a response is known  *)
(* by its id on the wire and by the call it answers (the ghost field of).  *)
(***************************************************************************)
EXTENDS Integers, Sequences

CONSTANTS
  Calls,        \* invocations of Call
  Reconnectors, \* goroutines that call Reconnect ({}: a transport without opener)
  ServerReqs,   \* requests the server may initiate
  QueueCap,     \* capacity of the channels requests and notes (32 in the code)
  MaxConns,     \* bound: connections the opener returns
  MaxInbox,     \* bound: messages in flight from the server on one connection
  ServerMoves,  \* bound: what the server does besides responding and requesting
  None

ASSUME BoundsAssumption ==
  /\ QueueCap \in Nat /\ MaxInbox \in Nat
  /\ MaxConns \in Nat \ {0}
  /\ ServerMoves \subseteq {"note", "malformed", "drop"}
  /\ None \notin Calls \cup ServerReqs /\ Calls \cap ServerReqs = {}

Conns == 1..MaxConns
NoConn == 0

VARIABLES
  closed, done, sessionID, conn, nextID, pending, cancel, \* fields of the transport
  requests, notes, \* its two inbound channels
  ctxCancelled,    \* the sessions whose context has been cancelled
  call,            \* locals of each Call; ch is its reply channel, of capacity 1
  loop,            \* locals of each readLoop, by connection
  rec, closer,     \* locals of each Reconnect, and of Close
  req,             \* the Request objects, and the replies written to the server
  opened, wire,    \* connections opened so far, and what is on each of them
  writeMu          \* the lock of writeJSON: who holds it, and where it writes

transport == <<closed, done, sessionID, conn, nextID, pending, cancel>>
queues    == <<requests, notes>>
net       == <<opened, wire, writeMu>>
vars == <<transport, queues, ctxCancelled, call, loop, rec, closer, req, net>>

-----------------------------------------------------------------------------
(* Values. *)

\* A callResult, or the error Call returns; of names the call whose request
\* a response answers.
Outcome(kind, of) == [kind |-> kind, of |-> of]
Empty == Outcome("empty", None)
Outcomes == {Empty}
  \cup [kind : {"ErrClosed", "ErrDisconnected", "ErrWrite", "ctxErr"}, of : {None}]
  \cup [kind : {"response"}, of : Calls \cup {None}]

\* What the server sends: a response to a call, a request, a notification, or
\* a message the read loop rejects (no id, unparsable id, method or error).
Message(kind, id, of, q) == [kind |-> kind, id |-> id, of |-> of, req |-> q]
Note      == Message("note", 0, None, None)
Malformed == Message("malformed", 0, None, None)
Messages == {Note, Malformed}
  \cup [kind : {"response"}, id : Nat, of : Calls, req : {None}]
  \cup [kind : {"request"}, id : {0}, of : {None}, req : ServerReqs]

\* The map t.pending: empty, one entry fewer, one entry more, its channels.
EmptyMap == [i \in {} |-> None]
FaultWithoutKeeps(m, id) == m \* seeded fault: the entry is not deleted
Without(m, id) == [i \in DOMAIN m \ {id} |-> m[i]]
With(m, id, c) == [i \in DOMAIN m \cup {id} |-> IF i = id THEN c ELSE m[i]]
FaultChannelsLost(m) == {} \* seeded fault: the flush returns the fresh map
Channels(m) == {m[i] : i \in DOMAIN m}

\* Send err on the channels of the flushed map: a send on a full channel is
\* skipped (select with default).
Flushed(flush, err) ==
  [c \in Calls |-> IF c \in flush /\ call[c].ch = Empty
                   THEN [call[c] EXCEPT !.ch = Outcome(err, None)] ELSE call[c]]

\* writeMu, free or taken; a Notify is anonymous, the other writers are known.
Unlocked == [by |-> None, conn |-> NoConn]
Locked(w, k) == [by |-> w, conn |-> k]

\* Room in one of the inbound channels.
HasRoom(queue) == Len(queue) < QueueCap

\* Closing a connection; nil is not closed.
CloseConn(k) ==
  [j \in Conns |-> IF j = k THEN [wire[j] EXCEPT !.state = "closed"] ELSE wire[j]]

\* Cancelling a session context; a nil cancel function is not called.
CancelCtx(s) == ctxCancelled \cup ({s} \ {0})

\* The test every delivery makes under t.mu.
FaultCurrentAnySession(sid) == ~closed \* seeded fault: the session is not compared
Current(sid) == ~closed /\ sessionID = sid

-----------------------------------------------------------------------------
(* newTransport and startSessionLocked: one open connection, session 1 and   *)
(* its read loop.                                                            *)
Init ==
  /\ closed = FALSE /\ done = FALSE
  /\ sessionID = 1 /\ conn = 1 /\ nextID = 0 /\ pending = EmptyMap /\ cancel = 1
  /\ requests = <<>> /\ notes = <<>> /\ ctxCancelled = {} /\ opened = 1
  /\ call = [c \in Calls |-> [pc |-> "start", id |-> 0, conn |-> NoConn,
                              ch |-> Empty, result |-> Empty, evicted |-> None]]
  /\ loop = [k \in Conns |-> [pc |-> IF k = 1 THEN "decode" ELSE "none",
                              sid |-> IF k = 1 THEN 1 ELSE 0,
                              msg |-> Note, flush |-> {}, cancel |-> 0]]
  /\ rec = [r \in Reconnectors |-> [pc |-> "idle", conn |-> NoConn, old |-> NoConn,
                                    flush |-> {}, cancel |-> 0]]
  /\ closer = [pc |-> "idle", conn |-> NoConn, flush |-> {}]
  /\ req = [q \in ServerReqs |-> [pc |-> "unsent", sid |-> 0, conn |-> NoConn,
                                  replied |-> FALSE, to |-> NoConn, sent |-> <<>>]]
  /\ wire = [k \in Conns |-> [state |-> IF k = 1 THEN "open" ELSE "none",
                              received |-> {}, inbox |-> <<>>]]
  /\ writeMu = Unlocked

-----------------------------------------------------------------------------
(* Call. *)

\* Early returns: context already done, transport closed, no connection.
CallRefused(c) ==
  /\ call[c].pc = "start"
  /\ \E err \in {"ctxErr", "ErrClosed", "ErrDisconnected"} :
       /\ err = "ErrClosed" => closed
       /\ err = "ErrDisconnected" => ~closed /\ conn = NoConn
       /\ call' = [call EXCEPT ![c].pc = "returned", ![c].result = Outcome(err, None)]
  /\ UNCHANGED <<transport, queues, ctxCancelled, loop, rec, closer, req, net>>

\* Under t.mu: take the next id, register the reply channel, read t.conn.
CallRegister(c) ==
  /\ call[c].pc = "start" /\ ~closed /\ conn # NoConn
  /\ nextID' = nextID + 1
  /\ pending' = With(pending, nextID + 1, c)
  /\ call' = [call EXCEPT ![c].pc = "write", ![c].id = nextID + 1, ![c].conn = conn]
  /\ UNCHANGED <<closed, done, sessionID, conn, cancel, queues, ctxCancelled, loop, rec,
                 closer, req, net>>

\* writeJSON: one writer at a time, whatever the connection.
WriteLock(w, k) ==
  /\ writeMu = Unlocked /\ writeMu' = Locked(w, k)
  /\ UNCHANGED <<transport, queues, ctxCancelled, call, loop, rec, closer, req, opened,
                 wire>>

CallLock(c) == call[c].pc = "write" /\ WriteLock(c, call[c].conn)

\* The request goes out on the connection read at registration, which may
\* have been replaced by now; a closed connection refuses it.
CallWrite(c) ==
  /\ writeMu.by = c /\ call[c].pc = "write" /\ wire[call[c].conn].state # "closed"
  /\ wire' = [wire EXCEPT ![call[c].conn].received = @ \cup {c}]
  /\ call' = [call EXCEPT ![c].pc = "await"]
  /\ writeMu' = Unlocked
  /\ UNCHANGED <<transport, queues, ctxCancelled, loop, rec, closer, req, opened>>

\* A Call that returns err removes its registration first.
CallFails(c, err) ==
  /\ call' = [call EXCEPT ![c].pc = "remove", ![c].result = Outcome(err, None)]
  /\ UNCHANGED <<transport, queues, ctxCancelled, loop, rec, closer, req, opened, wire>>

\* The write fails: connection closed or broken, or params that do not encode.
CallWriteFails(c) ==
  /\ writeMu.by = c /\ call[c].pc = "write" /\ CallFails(c, "ErrWrite")
  /\ writeMu' = Unlocked

\* The select picks any case that is ready: the context, cancelled whenever its
\* owner likes; the transport done; or the reply.
CallCancelled(c) ==
  call[c].pc = "await" /\ CallFails(c, "ctxErr") /\ UNCHANGED writeMu

CallSeesDone(c) ==
  call[c].pc = "await" /\ done /\ CallFails(c, "ErrClosed") /\ UNCHANGED writeMu

CallGetsReply(c) ==
  /\ call[c].pc = "await" /\ call[c].ch # Empty
  /\ call' = [call EXCEPT ![c].pc = "returned", ![c].result = call[c].ch, ![c].ch = Empty]
  /\ UNCHANGED <<transport, queues, ctxCancelled, loop, rec, closer, req, net>>

\* removePending deletes whatever is registered under the id now; the ghost
\* field evicted remembers the call that was.
RemovePending(c) ==
  /\ call[c].pc = "remove"
  /\ pending' = Without(pending, call[c].id)
  /\ call' = [call EXCEPT ![c].pc = "returned",
                          ![c].evicted = IF call[c].id \in DOMAIN pending
                                         THEN pending[call[c].id] ELSE None]
  /\ UNCHANGED <<closed, done, sessionID, conn, nextID, cancel, queues, ctxCancelled,
                 loop, rec, closer, req, net>>

-----------------------------------------------------------------------------
(* Notify: t.conn is read under t.mu, and by the time the lock is had it may *)
(* be any connection that has been installed.  Nothing else is left of it.   *)

NotifyLock(k) == loop[k].sid # 0 /\ WriteLock(None, k)

NotifyWrite(k) ==
  /\ writeMu = Locked(None, k) /\ writeMu' = Unlocked
  /\ UNCHANGED <<transport, queues, ctxCancelled, call, loop, rec, closer, req, opened,
                 wire>>

-----------------------------------------------------------------------------
(* Close.  Only the first one gets past the closed flag. *)

\* Under t.mu.
CloseLocked ==
  /\ ~closed
  /\ closed' = TRUE
  /\ closer' = [pc |-> "closing", conn |-> conn, flush |-> Channels(pending)]
  /\ conn' = NoConn /\ pending' = EmptyMap
  /\ UNCHANGED <<done, sessionID, nextID, cancel, queues, ctxCancelled, call, loop, rec,
                 req, net>>

\* After the unlock: cancel the session, close the connection, fail the
\* flushed calls, close done.  Each of the four is seen by other goroutines,
\* and each of those can be late in acting on it, so one step stands for them.
\* (The cancel function was copied under t.mu; nobody changes t.cancel after.)
CloseFinish ==
  /\ closer.pc = "closing"
  /\ closer' = [closer EXCEPT !.pc = "closed"]
  /\ ctxCancelled' = CancelCtx(cancel)
  /\ wire' = CloseConn(closer.conn)
  /\ call' = Flushed(closer.flush, "ErrClosed")
  /\ done' = TRUE
  /\ UNCHANGED <<closed, sessionID, conn, nextID, pending, cancel, queues, loop, rec,
                 req, opened, writeMu>>

-----------------------------------------------------------------------------
(* Reconnect. *)

ReconnectStart(r) ==
  /\ rec[r].pc = "idle" /\ ~closed
  /\ rec' = [rec EXCEPT ![r].pc = "dial"]
  /\ UNCHANGED <<transport, queues, ctxCancelled, call, loop, closer, req, net>>

\* opener runs without the lock and returns a new connection, or an error.
ReconnectDial(r) ==
  /\ rec[r].pc = "dial" /\ opened < MaxConns
  /\ opened' = opened + 1
  /\ wire' = [wire EXCEPT ![opened + 1].state = "open"]
  /\ rec' = [rec EXCEPT ![r].pc = "install", ![r].conn = opened + 1]
  /\ UNCHANGED <<transport, queues, ctxCancelled, call, loop, closer, req, writeMu>>

\* The locals go out of scope.
ReconnectReturns(r) ==
  rec' = [rec EXCEPT ![r] = [pc |-> "idle", conn |-> NoConn, old |-> NoConn,
                             flush |-> {}, cancel |-> 0]]

ReconnectDialFails(r) ==
  /\ rec[r].pc = "dial" /\ ReconnectReturns(r)
  /\ UNCHANGED <<transport, queues, ctxCancelled, call, loop, closer, req, net>>

\* Seeded fault: the late connection is not closed.
FaultTooLateLeaks(r) ==
  /\ rec[r].pc = "install" /\ closed /\ ReconnectReturns(r)
  /\ UNCHANGED <<transport, queues, ctxCancelled, call, loop, closer, req, net>>

\* Closed while dialling: the new connection is closed again.
ReconnectTooLate(r) ==
  /\ rec[r].pc = "install" /\ closed /\ ReconnectReturns(r)
  /\ wire' = CloseConn(rec[r].conn)
  /\ UNCHANGED <<transport, queues, ctxCancelled, call, loop, closer, req, opened, writeMu>>

\* Under t.mu: the new connection becomes a new session, ids start again.
ReconnectInstall(r) ==
  /\ rec[r].pc = "install" /\ ~closed
  /\ rec' = [rec EXCEPT ![r].pc = "finish", ![r].old = conn, ![r].cancel = cancel,
                        ![r].flush = Channels(pending)]
  /\ conn' = rec[r].conn /\ nextID' = 0 /\ pending' = EmptyMap
  /\ sessionID' = sessionID + 1 /\ cancel' = sessionID + 1
  /\ loop' = [loop EXCEPT ![rec[r].conn].sid = sessionID + 1]
  /\ UNCHANGED <<closed, done, queues, ctxCancelled, call, closer, req, net>>

\* The cancel function copied under t.mu.
FaultOldCancelReread(r) == cancel \* seeded fault: t.cancel is read after the unlock
FaultOldCancelSkipped(r) == 0     \* seeded fault: the old session is not cancelled
OldCancel(r) == rec[r].cancel

\* After the unlock: cancel the old session, close its connection, fail its
\* calls, start the new read loop (one step, as for CloseFinish).
ReconnectFinish(r) ==
  /\ rec[r].pc = "finish" /\ ReconnectReturns(r)
  /\ ctxCancelled' = CancelCtx(OldCancel(r))
  /\ wire' = CloseConn(rec[r].old)
  /\ call' = Flushed(rec[r].flush, "ErrDisconnected")
  /\ loop' = [loop EXCEPT ![rec[r].conn].pc = "decode"]
  /\ UNCHANGED <<transport, queues, closer, req, opened, writeMu>>

-----------------------------------------------------------------------------
(* readLoop, for the connection k and the session loop[k].sid. *)

\* A step of the loop that touches nothing shared.
LoopGoes(k, pc) ==
  /\ loop' = [loop EXCEPT ![k].pc = pc]
  /\ UNCHANGED <<transport, queues, ctxCancelled, call, rec, closer, req, net>>

\* The message is done with; the next one, or the end.
LoopForgets(k, pc) == loop' = [loop EXCEPT ![k].pc = pc, ![k].msg = Note, ![k].flush = {}]

\* The decoder may still hold messages when the connection is closed.
LoopDecode(k) ==
  /\ loop[k].pc = "decode" /\ wire[k].inbox # <<>>
  /\ loop' = [loop EXCEPT ![k].pc = "dispatch", ![k].msg = Head(wire[k].inbox)]
  /\ wire' = [wire EXCEPT ![k].inbox = Tail(@)]
  /\ UNCHANGED <<transport, queues, ctxCancelled, call, rec, closer, req, opened, writeMu>>

LoopDecodeFails(k) ==
  /\ loop[k].pc = "decode"
  /\ wire[k].state = "closed" \/ (wire[k].state = "dropped" /\ wire[k].inbox = <<>>)
  /\ LoopGoes(k, "sessionEnd")

\* isCurrentSession, and the same test in every deliver function: the answer
\* never turns from no to yes, so one test stands for both.
LoopStale(k) ==
  /\ loop[k].pc = "dispatch" /\ ~Current(loop[k].sid)
  /\ LoopForgets(k, "exited")
  /\ UNCHANGED <<transport, queues, ctxCancelled, call, rec, closer, req, net>>

\* deliverResponse under t.mu: the id is looked up and its entry deleted; a
\* response nobody waits for is dropped.
DeliverResponse(k) ==
  /\ loop[k].pc = "dispatch" /\ loop[k].msg.kind = "response" /\ Current(loop[k].sid)
  /\ LET id == loop[k].msg.id IN
       IF id \in DOMAIN pending
       THEN /\ loop' = [loop EXCEPT ![k].pc = "reply", ![k].flush = {pending[id]}]
            /\ pending' = Without(pending, id)
       ELSE LoopForgets(k, "decode") /\ UNCHANGED pending
  /\ UNCHANGED <<closed, done, sessionID, conn, nextID, cancel, queues, ctxCancelled,
                 call, rec, closer, req, net>>

\* The send on the reply channel, after the unlock.
LoopReply(k) ==
  /\ loop[k].pc = "reply"
  /\ \/ /\ \A c \in loop[k].flush : call[c].ch = Empty
        /\ call' = [c \in Calls |->
                      IF c \in loop[k].flush
                      THEN [call[c] EXCEPT !.ch = Outcome("response", loop[k].msg.of)]
                      ELSE call[c]]
        /\ LoopForgets(k, "decode")
     \/ done /\ LoopForgets(k, "exited") /\ UNCHANGED call
  /\ UNCHANGED <<transport, queues, ctxCancelled, rec, closer, req, net>>

\* deliverRequest and deliverNotification: tested under t.mu, then blocked
\* until the channel has room or done is closed.
DeliverInbound(k) ==
  /\ loop[k].pc = "dispatch" /\ loop[k].msg.kind \in {"request", "note"}
  /\ Current(loop[k].sid)
  /\ LoopGoes(k, "push")

LoopPushRequest(k) ==
  /\ loop[k].pc = "push" /\ loop[k].msg.kind = "request" /\ HasRoom(requests)
  /\ requests' = Append(requests, loop[k].msg.req)
  /\ req' = [req EXCEPT ![loop[k].msg.req].pc = "queued",
                        ![loop[k].msg.req].sid = loop[k].sid]
  /\ LoopForgets(k, "decode")
  /\ UNCHANGED <<transport, notes, ctxCancelled, call, rec, closer, net>>

LoopPushNote(k) ==
  /\ loop[k].pc = "push" /\ loop[k].msg.kind = "note" /\ HasRoom(notes)
  /\ notes' = Append(notes, loop[k].msg)
  /\ LoopForgets(k, "decode")
  /\ UNCHANGED <<transport, requests, ctxCancelled, call, rec, closer, req, net>>

FaultPushIgnoresDone(k) == FALSE \* seeded fault: no select case for done
LoopPushDone(k) ==
  /\ loop[k].pc = "push" /\ done
  /\ LoopForgets(k, "exited")
  /\ UNCHANGED <<transport, queues, ctxCancelled, call, rec, closer, req, net>>

\* A message that cannot be used ends the session.
LoopRejects(k) ==
  /\ loop[k].pc = "dispatch" /\ loop[k].msg.kind = "malformed" /\ Current(loop[k].sid)
  /\ LoopGoes(k, "sessionEnd")

\* handleSessionEnd: the early return ...
FaultStaleEndCounts(k) == ~closed \* seeded fault: the end of an old session counts
EndsSession(k) == Current(loop[k].sid)

\* ... the part under t.mu, where the connection is dropped, not closed ...
HandleSessionEnd(k) ==
  /\ loop[k].pc = "sessionEnd"
  /\ IF EndsSession(k)
     THEN /\ loop' = [loop EXCEPT ![k].pc = "flush", ![k].flush = Channels(pending),
                                  ![k].cancel = cancel, ![k].msg = Note]
          /\ conn' = NoConn /\ pending' = EmptyMap /\ cancel' = 0
     ELSE LoopForgets(k, "exited") /\ UNCHANGED <<conn, pending, cancel>>
  /\ UNCHANGED <<closed, done, sessionID, nextID, queues, ctxCancelled, call, rec, closer,
                 req, net>>

\* ... and the part after the unlock.
LoopFlush(k) ==
  /\ loop[k].pc = "flush" /\ LoopForgets(k, "exited")
  /\ ctxCancelled' = CancelCtx(loop[k].cancel)
  /\ call' = Flushed(loop[k].flush, "ErrDisconnected")
  /\ UNCHANGED <<transport, queues, rec, closer, req, net>>

-----------------------------------------------------------------------------
(* The consumers of Requests() and Notifications(), and Request.Reply.  A    *)
(* Request's own lock is held for the whole of Reply, so replies to one      *)
(* request are serial; a Reply after the first returns ErrAlreadyReplied.    *)

TakeNote ==
  /\ notes # <<>>
  /\ notes' = Tail(notes)
  /\ UNCHANGED <<transport, requests, ctxCancelled, call, loop, rec, closer, req, net>>

TakeRequest ==
  /\ requests # <<>>
  /\ requests' = Tail(requests)
  /\ req' = [req EXCEPT ![Head(requests)].pc = "held"]
  /\ UNCHANGED <<transport, notes, ctxCancelled, call, loop, rec, closer, net>>

RequestGoes(q, pc) ==
  /\ req' = [req EXCEPT ![q].pc = pc]
  /\ UNCHANGED <<transport, queues, ctxCancelled, call, loop, rec, closer, net>>

Reply(q) ==
  /\ req[q].pc = "held" /\ ~req[q].replied
  /\ req' = [req EXCEPT ![q].pc = "send", ![q].replied = TRUE]
  /\ UNCHANGED <<transport, queues, ctxCancelled, call, loop, rec, closer, net>>

\* send under t.mu: t.conn is read if the request's session is still current.
Send(q) ==
  /\ req[q].pc = "send" /\ Current(req[q].sid) /\ conn # NoConn
  /\ req' = [req EXCEPT ![q].pc = "write", ![q].to = conn]
  /\ UNCHANGED <<transport, queues, ctxCancelled, call, loop, rec, closer, net>>

\* The early returns of ReplyError and send: data that does not encode, a
\* context already done, a session that is over.
SendRefused(q) == req[q].pc = "send" /\ RequestGoes(q, "held")

\* writeJSON of the reply, on a connection that may be closed by now.
SendLock(q) == req[q].pc = "write" /\ WriteLock(q, req[q].to)

SendWrite(q) ==
  /\ writeMu.by = q /\ req[q].pc = "write" /\ wire[req[q].to].state # "closed"
  /\ req' = [req EXCEPT ![q].pc = "held", ![q].sent = Append(@, req[q].to)]
  /\ writeMu' = Unlocked
  /\ UNCHANGED <<transport, queues, ctxCancelled, call, loop, rec, closer, opened, wire>>

SendWriteFails(q) ==
  /\ writeMu.by = q /\ req[q].pc = "write"
  /\ req' = [req EXCEPT ![q].pc = "held"]
  /\ writeMu' = Unlocked
  /\ UNCHANGED <<transport, queues, ctxCancelled, call, loop, rec, closer, opened, wire>>

-----------------------------------------------------------------------------
(* The server (external). *)

ServerSends(k, m) ==
  /\ wire[k].state = "open" /\ Len(wire[k].inbox) < MaxInbox
  /\ wire' = [wire EXCEPT ![k].inbox = Append(@, m)]
  /\ UNCHANGED <<transport, queues, ctxCancelled, call, loop, rec, closer, opened, writeMu>>

\* Responses come in any order, and may come twice.
ServerResponds(k) ==
  \E c \in wire[k].received :
    ServerSends(k, Message("response", call[c].id, c, None)) /\ UNCHANGED req

ServerNotifies(k) == "note" \in ServerMoves /\ ServerSends(k, Note) /\ UNCHANGED req

ServerMisbehaves(k) ==
  "malformed" \in ServerMoves /\ ServerSends(k, Malformed) /\ UNCHANGED req

ServerRequests(k, q) ==
  /\ req[q].pc = "unsent"
  /\ ServerSends(k, Message("request", 0, None, q))
  /\ req' = [req EXCEPT ![q].pc = "wire", ![q].conn = k]

\* The connection breaks at the server's end.
ServerDrops(k) ==
  /\ "drop" \in ServerMoves /\ wire[k].state = "open"
  /\ wire' = [wire EXCEPT ![k].state = "dropped"]
  /\ UNCHANGED <<transport, queues, ctxCancelled, call, loop, rec, closer, req, opened, writeMu>>

-----------------------------------------------------------------------------
CallStep(c) == CallGetsReply(c) \/ CallSeesDone(c) \/ RemovePending(c)

\* Encode returns, for whoever holds writeMu.
WriteEnds ==
  \/ \E c \in Calls : CallWrite(c) \/ CallWriteFails(c)
  \/ \E q \in ServerReqs : SendWrite(q) \/ SendWriteFails(q)
  \/ \E k \in Conns : NotifyWrite(k)

ReconnectStep(r) ==
  \/ ReconnectDialFails(r) \/ ReconnectTooLate(r) \/ ReconnectInstall(r)
  \/ ReconnectFinish(r)

LoopStep(k) ==
  \/ LoopDecode(k) \/ LoopDecodeFails(k) \/ LoopStale(k) \/ DeliverResponse(k)
  \/ LoopReply(k) \/ DeliverInbound(k) \/ LoopPushRequest(k) \/ LoopPushNote(k)
  \/ LoopPushDone(k) \/ LoopRejects(k) \/ HandleSessionEnd(k) \/ LoopFlush(k)

RequestStep(q) == Reply(q) \/ Send(q) \/ SendRefused(q) \/ SendLock(q)

ServerStep(k) ==
  \/ ServerResponds(k) \/ ServerNotifies(k) \/ ServerMisbehaves(k) \/ ServerDrops(k)
  \/ \E q \in ServerReqs : ServerRequests(k, q)

Next ==
  \/ \E c \in Calls : \/ CallRefused(c) \/ CallRegister(c) \/ CallCancelled(c)
                      \/ CallLock(c) \/ CallStep(c)
  \/ WriteEnds
  \/ CloseLocked \/ CloseFinish
  \/ \E r \in Reconnectors : ReconnectStart(r) \/ ReconnectDial(r) \/ ReconnectStep(r)
  \/ \E k \in Conns : LoopStep(k) \/ ServerStep(k) \/ NotifyLock(k)
  \/ TakeNote \/ TakeRequest
  \/ \E q \in ServerReqs : RequestStep(q)

Spec == Init /\ [][Next]_vars

\* A goroutine that can run does, and one that waits for writeMu is not passed
\* over for ever.  Nothing forces the users of the transport to call it, to
\* cancel a context or to close it, nor the server to answer, nor even to read:
\* a write is sure to end only on a connection that has been closed.
Fairness ==
  /\ \A c \in Calls : WF_vars(CallStep(c)) /\ SF_vars(CallLock(c))
  /\ WF_vars(writeMu # Unlocked /\ wire[writeMu.conn].state = "closed" /\ WriteEnds)
  /\ \A r \in Reconnectors : WF_vars(ReconnectStep(r))
  /\ \A k \in Conns : WF_vars(LoopStep(k))
  /\ WF_vars(CloseFinish)

FairSpec == Spec /\ Fairness

\* client.go's requestLoop and notificationLoop keep draining the channels.
DrainedSpec == FairSpec /\ WF_vars(TakeNote) /\ WF_vars(TakeRequest)

-----------------------------------------------------------------------------
(* Properties. *)

\* What the locals of each goroutine, a request and a connection can hold.
CallStates == [pc : {"start", "write", "await", "remove", "returned"}, id : Nat,
               conn : 0..MaxConns, ch : Outcomes, result : Outcomes,
               evicted : Calls \cup {None}]
LoopStates == [pc : {"none", "decode", "dispatch", "reply", "push", "sessionEnd", "flush",
                     "exited"},
               sid : Nat, msg : Messages, flush : SUBSET Calls, cancel : Nat]
RecStates == [pc : {"idle", "dial", "install", "finish"}, conn : 0..MaxConns,
              old : 0..MaxConns, flush : SUBSET Calls, cancel : Nat]
CloserStates == [pc : {"idle", "closing", "closed"}, conn : 0..MaxConns,
                 flush : SUBSET Calls]
ReqStates == [pc : {"unsent", "wire", "queued", "held", "send", "write"}, sid : Nat,
              conn : 0..MaxConns, replied : BOOLEAN, to : 0..MaxConns,
              sent : Seq(0..MaxConns)]
WireStates == [state : {"none", "open", "dropped", "closed"}, received : SUBSET Calls,
               inbox : Seq(Messages)]
Locks == [by : Calls \cup ServerReqs \cup {None}, conn : 0..MaxConns]

\* Type invariant, with the capacity of the two inbound channels.
TypeOK ==
  /\ closed \in BOOLEAN /\ done \in BOOLEAN
  /\ sessionID \in Nat /\ nextID \in Nat /\ cancel \in Nat
  /\ conn \in 0..MaxConns /\ opened \in Conns
  /\ DOMAIN pending \subseteq Nat /\ pending \in [DOMAIN pending -> Calls]
  /\ requests \in Seq(ServerReqs) /\ Len(requests) <= QueueCap
  /\ notes \in Seq(Messages) /\ Len(notes) <= QueueCap
  /\ ctxCancelled \subseteq Nat
  /\ call \in [Calls -> CallStates]
  /\ loop \in [Conns -> LoopStates]
  /\ rec \in [Reconnectors -> RecStates]
  /\ closer \in CloserStates
  /\ req \in [ServerReqs -> ReqStates]
  /\ wire \in [Conns -> WireStates]
  /\ writeMu \in Locks

\* A Call never returns, nor is handed, the response to another call: ids are
\* reused after Reconnect (t.nextID = 0), and a response that was on the way
\* on the old connection must not answer the new call with the same id.
ResponseToAsker ==
  \A c \in Calls :
    /\ call[c].ch.kind = "response" => call[c].ch.of = c
    /\ call[c].result.kind = "response" => call[c].result.of = c

\* The calls a goroutine has taken out of pending and is about to fail.
BeingFailed ==
  closer.flush \cup (UNION {rec[r].flush : r \in Reconnectors})
    \cup (UNION {loop[k].flush : k \in {j \in Conns : loop[j].pc = "flush"}})

\* A session is over: the transport is closed, a later session replaced it, or
\* its own read loop has been through handleSessionEnd.
SessionOver(k) ==
  closed \/ loop[k].sid < sessionID \/ loop[k].pc \in {"flush", "exited"}

\* A registered Call is told ErrDisconnected or ErrClosed only when the session
\* it was sent in is over: the late end of an old read loop, or a slow
\* Reconnect, never fails the calls of a session that is still alive
\* (handleSessionEnd's sid test, flushPendingLocked under t.mu).
HonestDisconnect ==
  \A c \in Calls :
    (\/ c \in BeingFailed
     \/ call[c].ch.kind \in {"ErrDisconnected", "ErrClosed"}
     \/ call[c].result.kind \in {"ErrDisconnected", "ErrClosed"})
      => call[c].conn = NoConn \/ SessionOver(call[c].conn)

\* The pending map holds nothing but calls of the current session that have
\* not returned, each under its own id: no entry is leaked by a failed write,
\* a cancelled context, a Reconnect or a Close (removePending, flushPendingLocked).
PendingIsLive ==
  \A i \in DOMAIN pending :
    /\ conn # NoConn /\ call[pending[i]].conn = conn
    /\ call[pending[i]].id = i
    /\ call[pending[i]].pc \in {"write", "await", "remove"}

\* The removePending of d, a Call of an earlier session than c's that has
\* returned with an error, deleted the registration of c, whose id is the same.
Evicted(c, d) ==
  /\ call[d].evicted = c /\ call[d].pc = "returned" /\ call[d].id = call[c].id
  /\ call[d].result.kind \in {"ErrWrite", "ctxErr", "ErrClosed"}
  /\ loop[call[d].conn].sid < loop[call[c].conn].sid

\* A Call that waits can be answered or failed: its reply channel is filled,
\* registered, or in the hands of a goroutine that will send on it.  The one
\* way to be forgotten is the reuse of ids: a Call of an earlier session with
\* the same id failed late, and its removePending deleted this registration.
WaiterReachable ==
  \A c \in Calls :
    call[c].pc \in {"write", "await"} =>
      \/ done \/ call[c].ch # Empty
      \/ c \in Channels(pending) \/ c \in BeingFailed
      \/ \E k \in Conns : loop[k].pc = "reply" /\ c \in loop[k].flush
      \/ \E d \in Calls : Evicted(c, d)

\* No connection is forgotten while it is open: it is the transport's, or
\* Reconnect or Close still has to close it, or it was given up by
\* handleSessionEnd after the server broke it or the protocol.  A Reconnect
\* that loses the race with Close closes what it has just opened.
ConnAccounted ==
  \A k \in 1..opened :
    \/ wire[k].state = "closed"
    \/ k = conn
    \/ \E r \in Reconnectors : k = rec[r].old \/ (rec[r].pc = "install" /\ k = rec[r].conn)
    \/ closer.pc = "closing" /\ k = closer.conn
    \/ loop[k].pc \in {"flush", "exited"} /\ loop[k].cancel # 0

\* The context of a request is not cancelled while its session is the current
\* one and connected (Reconnect cancels the context of the session it replaced,
\* not the one it installed).
LiveSessionCtx == conn # NoConn => sessionID \notin ctxCancelled /\ cancel = sessionID

\* "Context returns a context that is canceled when the session ends."
EndedSessionCtx ==
  \A s \in 1..MaxConns :
    (s < sessionID \/ (s = sessionID /\ conn = NoConn)) ~> (s \in ctxCancelled)

\* At most one reply to a server request reaches the wire, and only on the
\* connection the request came on: the server of a new session, which may use
\* the same ids, is never sent a reply meant for the old one (the replied flag
\* and the session test of send).
RepliesOnceAtHome ==
  \A q \in ServerReqs :
    Len(req[q].sent) <= 1 /\ \A i \in 1..Len(req[q].sent) : req[q].sent[i] = req[q].conn

\* The holder of writeMu writes to a connection that handleSessionEnd has given
\* up without closing it: nobody is left who will, and the server may not read.
BlockedOnGivenUp ==
  /\ writeMu # Unlocked /\ wire[writeMu.conn].state # "closed"
  /\ loop[writeMu.conn].pc = "exited" /\ loop[writeMu.conn].cancel # 0

\* Once the transport is closed every Call that has begun returns and every
\* read loop ends, even one blocked on a full channel nobody drains and even if
\* the server has stopped reading: Close closes the connection under a blocked
\* write.  The one exception is a write to a connection that an earlier session
\* end left open; it keeps writeMu, and with it every Call that has to write.
CloseReleasesEveryone ==
  /\ \A c \in Calls :
       (closed /\ call[c].pc # "start")
         ~> (call[c].pc = "returned" \/ [](call[c].pc = "write" /\ BlockedOnGivenUp))
  /\ \A k \in Conns : (closed /\ loop[k].pc # "none") ~> (loop[k].pc = "exited")

\* "Call sends a request and decodes the result": as long as the inbound
\* channels are drained, a Call whose response is on the way returns, whatever
\* precedes the response on the connection.
AnsweredCallReturns ==
  \A c \in Calls :
    (/\ call[c].pc = "await"
     /\ \E i \in 1..Len(wire[call[c].conn].inbox) : wire[call[c].conn].inbox[i].of = c)
      ~> (call[c].pc = "returned")
=============================================================================
