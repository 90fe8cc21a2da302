------------------------ MODULE JSONRPCSessionProofs ------------------------
(***************************************************************************)
(* More about JSONRPCTransport: what becomes of the contexts, connections, *)
(* replies and waiting Calls of its sessions, for every set of calls,      *)
(* reconnectors and server requests and every capacity and bound.          *)
(*                                                                         *)
(* All of it rests on IInv of JSONRPCTransportProofs, above all on this: a *)
(* connection has one session number, and two connections never the same.  *)
(***************************************************************************)
EXTENDS JSONRPCTransportProofs

\* Contexts: t.cancel is the current session's or nil, and a cancel function
\* that was copied under t.mu is not that of a session that is still connected.
Dead(s) == s <= sessionID /\ (conn # NoConn => s < sessionID)
Contexts ==
  /\ cancel \in {0, sessionID} /\ (conn # NoConn => cancel = sessionID)
  /\ \A s \in ctxCancelled : Dead(s)
  /\ \A r \in Reconnectors : rec[r].pc = "finish" => rec[r].cancel < sessionID
  /\ \A k \in Conns : loop[k].pc = "flush" => Dead(loop[k].cancel)

\* Reconnect has something to close and to fail only once it has installed, and
\* Close only once closed is set.
Idle ==
  /\ \A r \in Reconnectors : rec[r].pc # "finish" => rec[r].old = NoConn /\ rec[r].flush = {}
  /\ closed \/ closer.flush = {}

\* A read loop that runs has a session number, and so has the one Reconnect is
\* about to start.
Started ==
  /\ \A k \in Conns : loop[k].pc # "none" => loop[k].sid # 0
  /\ \A r \in Reconnectors : rec[r].pc = "finish" => loop[rec[r].conn].sid # 0

\* A Call that has registered has a connection.
Registered == \A c \in Calls : call[c].pc \in {"write", "await", "remove"} => call[c].conn # NoConn

\* A server request is in one place at a time: on its connection, in that
\* connection's read loop, in the channel, or with its handler.
OnWire(q, k) == \E i \in 1..Len(wire[k].inbox) :
                  wire[k].inbox[i].kind = "request" /\ wire[k].inbox[i].req = q
InLoop(q, k) == loop[k].msg.kind = "request" /\ loop[k].msg.req = q
OnePlace ==
  \A q \in ServerReqs :
    /\ \A k \in Conns :
         /\ OnWire(q, k) \/ InLoop(q, k) => req[q].pc = "wire" /\ req[q].conn = k
         /\ ~(OnWire(q, k) /\ InLoop(q, k))
         /\ \A i, j \in 1..Len(wire[k].inbox) :
              /\ wire[k].inbox[i].kind = "request" /\ wire[k].inbox[i].req = q
              /\ wire[k].inbox[j].kind = "request" /\ wire[k].inbox[j].req = q
              => i = j
    /\ \A i \in 1..Len(requests) : requests[i] = q => req[q].pc = "queued"
    /\ \A i, j \in 1..Len(requests) : requests[i] = q /\ requests[j] = q => i = j

\* It carries the session number of the connection it came on, and is replied to
\* once.
Home ==
  \A q \in ServerReqs :
    /\ req[q].pc \notin {"unsent", "wire"} =>
         req[q].conn \in Conns /\ req[q].sid = loop[req[q].conn].sid /\ req[q].sid # 0
    /\ req[q].pc = "write" => req[q].to = req[q].conn
    /\ req[q].pc \in {"send", "write"} => req[q].replied
    /\ req[q].pc \in {"unsent", "wire", "queued"} => ~req[q].replied
    /\ ~req[q].replied \/ req[q].pc \in {"send", "write"} => req[q].sent = <<>>

-----------------------------------------------------------------------------
(* The steps, and what each leaves alone. *)

CallMoves(c) ==
  \/ CallRefused(c) \/ CallRegister(c) \/ CallCancelled(c) \/ CallStep(c)
  \/ CallWrite(c) \/ CallWriteFails(c)
DialMoves(r) ==
  ReconnectStart(r) \/ ReconnectDial(r) \/ ReconnectDialFails(r) \/ ReconnectTooLate(r)
QuietLoop(k) ==
  \/ LoopDecode(k) \/ LoopDecodeFails(k) \/ LoopStale(k) \/ DeliverResponse(k)
  \/ LoopReply(k) \/ DeliverInbound(k) \/ LoopPushRequest(k) \/ LoopPushNote(k)
  \/ LoopPushDone(k) \/ LoopRejects(k)
Consumes == TakeNote \/ TakeRequest
RequestMoves(q) == Reply(q) \/ Send(q) \/ SendRefused(q) \/ SendWrite(q) \/ SendWriteFails(q)

\* All but writeMu: taking it, and the whole of Notify, change nothing else.
unlocked == <<transport, queues, ctxCancelled, call, loop, rec, closer, req, opened, wire>>

LEMMA NextSplit ==
  ASSUME [Next]_vars
  PROVE  \/ \E c \in Calls : CallMoves(c)
         \/ CloseLocked \/ CloseFinish
         \/ \E r \in Reconnectors : DialMoves(r) \/ ReconnectInstall(r) \/ ReconnectFinish(r)
         \/ \E k \in Conns : QuietLoop(k) \/ HandleSessionEnd(k) \/ LoopFlush(k) \/ ServerStep(k)
         \/ Consumes \/ \E q \in ServerReqs : RequestMoves(q)
         \/ UNCHANGED unlocked
<1>1. UNCHANGED vars => UNCHANGED unlocked
  BY DEF vars, unlocked, net
<1>2. ASSUME NEW w, NEW k, WriteLock(w, k) PROVE UNCHANGED unlocked
  BY <1>2 DEF WriteLock, unlocked
<1>3. ASSUME NEW k, NotifyWrite(k) PROVE UNCHANGED unlocked
  BY <1>3 DEF NotifyWrite, unlocked
<1> QED
  BY <1>1, <1>2, <1>3 DEF Next, CallMoves, DialMoves, QuietLoop, Consumes, RequestMoves,
     ReconnectStep, LoopStep, RequestStep, WriteEnds, CallLock, SendLock, NotifyLock

LEMMA CallFrame ==
  ASSUME NEW c \in Calls, CallMoves(c)
  PROVE  UNCHANGED <<closed, done, sessionID, conn, cancel, requests, notes, ctxCancelled, loop,
                     rec, closer, req, opened>>
  BY DEF CallMoves, CallRefused, CallRegister, CallCancelled, CallStep, CallWrite,
       CallWriteFails, CallGetsReply, CallSeesDone, RemovePending, CallFails,
       transport, queues, net

LEMMA DialFrame ==
  ASSUME NEW r \in Reconnectors, DialMoves(r)
  PROVE  UNCHANGED <<closed, done, sessionID, conn, nextID, pending, cancel, requests, notes,
                     ctxCancelled, call, loop, closer, req>>
  BY DEF DialMoves, ReconnectStart, ReconnectDial, ReconnectDialFails, ReconnectTooLate,
       transport, queues, net

LEMMA QuietLoopFrame ==
  ASSUME NEW k \in Conns, QuietLoop(k)
  PROVE  UNCHANGED <<closed, done, sessionID, conn, nextID, cancel, ctxCancelled, rec, closer,
                     opened>>
  BY DEF QuietLoop, LoopDecode, LoopDecodeFails, LoopStale, DeliverResponse, LoopReply,
       DeliverInbound, LoopPushRequest, LoopPushNote, LoopPushDone, LoopRejects, LoopGoes,
       transport, queues, net

LEMMA ServerFrame ==
  ASSUME NEW k \in Conns, ServerStep(k)
  PROVE  UNCHANGED <<closed, done, sessionID, conn, nextID, pending, cancel, requests, notes,
                     ctxCancelled, call, loop, rec, closer, opened>>
  BY DEF ServerStep, ServerResponds, ServerNotifies, ServerMisbehaves, ServerDrops,
       ServerRequests, ServerSends, transport, queues, net

LEMMA ConsumeFrame ==
  ASSUME Consumes
  PROVE  UNCHANGED <<closed, done, sessionID, conn, nextID, pending, cancel, ctxCancelled, call,
                     loop, rec, closer, opened, wire>>
  BY DEF Consumes, TakeNote, TakeRequest, transport, net

LEMMA RequestFrame ==
  ASSUME NEW q \in ServerReqs, RequestMoves(q)
  PROVE  UNCHANGED <<closed, done, sessionID, conn, nextID, pending, cancel, requests, notes,
                     ctxCancelled, call, loop, rec, closer, opened, wire>>
  BY DEF RequestMoves, Reply, Send, SendRefused, SendWrite, SendWriteFails, RequestGoes,
       transport, queues, net

LEMMA FnTypes ==
  ASSUME TypeOK
  PROVE  /\ call \in [Calls -> CallStates] /\ loop \in [Conns -> LoopStates]
         /\ rec \in [Reconnectors -> RecStates] /\ closer \in CloserStates
         /\ req \in [ServerReqs -> ReqStates] /\ wire \in [Conns -> WireStates]
         /\ requests \in Seq(ServerReqs) /\ sessionID \in Nat /\ cancel \in Nat
         /\ opened \in Conns /\ conn \in 0..MaxConns
  BY DEF TypeOK

LEMMA Bounded == MaxConns \in Nat /\ MaxConns > 0 /\ QueueCap \in Nat /\ None \notin Calls
  BY BoundsAssumption

\* A read loop moves itself only; it has a session, and keeps its number.
LEMMA LoopFields ==
  ASSUME TypeOK, NEW k \in Conns, QuietLoop(k)
  PROVE  /\ \A j \in Conns \ {k} : loop'[j] = loop[j]
         /\ loop'[k].sid = loop[k].sid /\ loop'[k].cancel = loop[k].cancel
         /\ loop[k].pc \notin {"none", "exited", "flush"} /\ loop'[k].pc \notin {"none", "flush"}
<1>1. loop \in [Conns -> LoopStates]
  BY FnTypes
<1>2. CASE LoopDecode(k)
  BY <1>1, <1>2 DEF LoopDecode, LoopStates
<1>3. CASE LoopDecodeFails(k) \/ DeliverInbound(k) \/ LoopRejects(k)
  BY <1>1, <1>3 DEF LoopDecodeFails, DeliverInbound, LoopRejects, LoopGoes, LoopStates
<1>4. CASE LoopStale(k) \/ LoopReply(k) \/ LoopPushRequest(k) \/ LoopPushNote(k) \/ LoopPushDone(k)
  <2>1. \E pc \in {"exited", "decode"} : LoopForgets(k, pc)
    BY <1>4 DEF LoopStale, LoopReply, LoopPushRequest, LoopPushNote, LoopPushDone
  <2>2. loop[k].pc \in {"dispatch", "reply", "push"}
    BY <1>4 DEF LoopStale, LoopReply, LoopPushRequest, LoopPushNote, LoopPushDone
  <2> QED
    BY <1>1, <2>1, <2>2 DEF LoopForgets, LoopStates
<1>5. CASE DeliverResponse(k)
  <2>1. \/ loop' = [loop EXCEPT ![k].pc = "reply", ![k].flush = {pending[loop[k].msg.id]}]
        \/ LoopForgets(k, "decode")
    BY <1>5 DEF DeliverResponse
  <2>2. loop[k].pc = "dispatch"
    BY <1>5 DEF DeliverResponse
  <2> QED
    BY <1>1, <2>1, <2>2 DEF LoopForgets, LoopStates
<1> QED
  BY <1>2, <1>3, <1>4, <1>5 DEF QuietLoop

\* A Reconnect before it installs.
LEMMA DialFields ==
  ASSUME TypeOK, Idle, NEW r \in Reconnectors, DialMoves(r)
  PROVE  /\ \A s \in Reconnectors \ {r} : rec'[s] = rec[s]
         /\ rec[r].pc # "finish" /\ rec'[r].pc # "finish"
         /\ rec'[r].old = NoConn /\ rec'[r].flush = {}
<1>1. /\ rec \in [Reconnectors -> RecStates] /\ rec[r].pc # "finish"
      /\ rec[r].old = NoConn /\ rec[r].flush = {}
  BY FnTypes DEF Idle, DialMoves, ReconnectStart, ReconnectDial, ReconnectDialFails, ReconnectTooLate
<1>2. CASE ReconnectStart(r)
  BY <1>1, <1>2 DEF ReconnectStart, RecStates
<1>3. CASE ReconnectDial(r)
  BY <1>1, <1>3 DEF ReconnectDial, RecStates
<1>4. CASE ReconnectReturns(r)
  BY <1>1, <1>4 DEF ReconnectReturns
<1> QED
  BY <1>2, <1>3, <1>4 DEF DialMoves, ReconnectDialFails, ReconnectTooLate

LEMMA InstallFields ==
  ASSUME TypeOK, NEW r \in Reconnectors, ReconnectInstall(r)
  PROVE  /\ \A s \in Reconnectors \ {r} : rec'[s] = rec[s]
         /\ rec[r].pc = "install" /\ rec'[r].pc = "finish" /\ rec'[r].conn = rec[r].conn
         /\ rec'[r].old = conn /\ rec'[r].cancel = cancel /\ rec'[r].flush = Channels(pending)
<1>1. rec \in [Reconnectors -> RecStates]
  BY FnTypes
<1>2. rec' = [rec EXCEPT ![r].pc = "finish", ![r].old = conn, ![r].cancel = cancel,
                         ![r].flush = Channels(pending)]
  BY DEF ReconnectInstall
<1> DEFINE half == [rec EXCEPT ![r].pc = "finish", ![r].old = conn]
<1>3. rec' = [half EXCEPT ![r].cancel = cancel, ![r].flush = Channels(pending)]
  BY <1>2
<1>4. half \in [Reconnectors -> RecStates]
  BY <1>1, FnTypes DEF RecStates
<1>5. /\ \A s \in Reconnectors \ {r} : half[s] = rec[s]
      /\ half[r].pc = "finish" /\ half[r].old = conn /\ half[r].conn = rec[r].conn
  BY <1>1 DEF RecStates
<1> HIDE DEF half
<1>6. rec[r].pc = "install"
  BY DEF ReconnectInstall
<1> QED
  BY <1>3, <1>4, <1>5, <1>6 DEF RecStates

LEMMA ReturnFields ==
  ASSUME TypeOK, NEW r \in Reconnectors, ReconnectReturns(r)
  PROVE  /\ \A s \in Reconnectors \ {r} : rec'[s] = rec[s]
         /\ rec'[r].pc = "idle" /\ rec'[r].conn = NoConn
         /\ rec'[r].old = NoConn /\ rec'[r].flush = {}
  BY FnTypes DEF ReconnectReturns

LEMMA FinishLoops ==
  ASSUME TypeOK, NEW r \in Reconnectors, ReconnectFinish(r)
  PROVE  /\ \A k \in Conns \ {rec[r].conn} : loop'[k] = loop[k]
         /\ \A k \in Conns : /\ loop'[k].sid = loop[k].sid /\ loop'[k].cancel = loop[k].cancel
                             /\ loop'[k].msg = loop[k].msg /\ loop'[k].flush = loop[k].flush
         /\ rec[r].conn \in Conns => loop'[rec[r].conn].pc = "decode"
  BY FnTypes DEF ReconnectFinish, LoopStates

LEMMA InstallLoops ==
  ASSUME TypeOK, NEW r \in Reconnectors, ReconnectInstall(r)
  PROVE  /\ \A k \in Conns \ {rec[r].conn} : loop'[k] = loop[k]
         /\ \A k \in Conns : /\ loop'[k].pc = loop[k].pc /\ loop'[k].cancel = loop[k].cancel
                             /\ loop'[k].msg = loop[k].msg /\ loop'[k].flush = loop[k].flush
         /\ rec[r].conn \in Conns => loop'[rec[r].conn].sid = sessionID + 1
  BY FnTypes DEF ReconnectInstall, LoopStates

LEMMA EndLoops ==
  ASSUME TypeOK, NEW k \in Conns, HandleSessionEnd(k)
  PROVE  /\ \A j \in Conns \ {k} : loop'[j] = loop[j]
         /\ loop'[k].sid = loop[k].sid /\ loop[k].pc = "sessionEnd"
         /\ UNCHANGED <<closed, done, sessionID, nextID, requests, notes, ctxCancelled, call, rec,
                        closer, req, opened, wire>>
         /\ \/ /\ Current(loop[k].sid) /\ loop'[k].pc = "flush"
               /\ loop'[k].flush = Channels(pending) /\ loop'[k].cancel = cancel
               /\ loop'[k].msg = Note
               /\ conn' = NoConn /\ pending' = EmptyMap /\ cancel' = 0
            \/ /\ ~Current(loop[k].sid) /\ loop'[k].pc = "exited" /\ loop'[k].msg = Note
               /\ loop'[k].cancel = loop[k].cancel /\ UNCHANGED <<conn, pending, cancel>>
<1>1. loop \in [Conns -> LoopStates] /\ loop[k].pc = "sessionEnd"
  BY FnTypes DEF HandleSessionEnd
<1>2. UNCHANGED <<closed, done, sessionID, nextID, requests, notes, ctxCancelled, call, rec,
                  closer, req, opened, wire>>
  BY DEF HandleSessionEnd, queues, net
<1>3. CASE Current(loop[k].sid)
  <2>1. /\ loop' = [loop EXCEPT ![k].pc = "flush", ![k].flush = Channels(pending),
                               ![k].cancel = cancel, ![k].msg = Note]
        /\ conn' = NoConn /\ pending' = EmptyMap /\ cancel' = 0
    BY <1>3 DEF HandleSessionEnd, EndsSession
  <2> DEFINE half == [loop EXCEPT ![k].pc = "flush", ![k].msg = Note]
  <2>2. loop' = [half EXCEPT ![k].flush = Channels(pending), ![k].cancel = cancel]
    BY <2>1
  <2>3. half \in [Conns -> LoopStates]
    BY <1>1, ValueTypes DEF LoopStates
  <2>4. /\ \A j \in Conns \ {k} : half[j] = loop[j]
        /\ half[k].pc = "flush" /\ half[k].msg = Note /\ half[k].sid = loop[k].sid
    BY <1>1 DEF LoopStates
  <2> HIDE DEF half
  <2>5. /\ \A j \in Conns \ {k} : loop'[j] = loop[j]
        /\ loop'[k].pc = "flush" /\ loop'[k].msg = Note /\ loop'[k].sid = loop[k].sid
        /\ loop'[k].flush = Channels(pending) /\ loop'[k].cancel = cancel
    BY <2>2, <2>3, <2>4 DEF LoopStates
  <2> QED
    BY <1>1, <1>2, <1>3, <2>1, <2>5
<1>4. CASE ~Current(loop[k].sid)
  <2>1. LoopForgets(k, "exited") /\ UNCHANGED <<conn, pending, cancel>>
    BY <1>4 DEF HandleSessionEnd, EndsSession
  <2> QED
    BY <1>1, <1>2, <1>4, <2>1 DEF LoopForgets, LoopStates
<1> QED
  BY <1>3, <1>4

LEMMA FlushLoops ==
  ASSUME TypeOK, NEW k \in Conns, LoopFlush(k)
  PROVE  /\ \A j \in Conns \ {k} : loop'[j] = loop[j]
         /\ loop'[k].sid = loop[k].sid /\ loop[k].pc = "flush" /\ loop'[k].pc = "exited"
         /\ loop'[k].cancel = loop[k].cancel /\ loop'[k].msg = Note
         /\ ctxCancelled' = CancelCtx(loop[k].cancel)
         /\ call' = Flushed(loop[k].flush, "ErrDisconnected")
         /\ UNCHANGED <<closed, done, sessionID, conn, nextID, pending, cancel, requests, notes,
                        rec, closer, req, opened, wire>>
<1>1. loop \in [Conns -> LoopStates]
  BY FnTypes
<1> QED
  BY <1>1 DEF LoopFlush, LoopForgets, LoopStates, transport, queues, net

-----------------------------------------------------------------------------
(* Contexts, and the locals of Reconnect and of the read loops. *)

LEMMA SideInit == Init => Contexts /\ Idle /\ Started
<1> SUFFICES ASSUME Init PROVE Contexts /\ Idle /\ Started
  OBVIOUS
<1>1. Contexts
  BY DEF Init, Contexts, NoConn
<1>2. Idle
  BY DEF Init, Idle
<1>3. Started
  BY DEF Init, Started
<1> QED
  BY <1>1, <1>2, <1>3

\* A context that is dead stays dead: sessions are numbered upwards.
LEMMA DeadStays ==
  ASSUME TypeOK, NEW s \in Nat, Dead(s),
         \/ sessionID' = sessionID /\ (conn' = conn \/ conn' = NoConn)
         \/ sessionID' = sessionID + 1
  PROVE  s <= sessionID' /\ (conn' # NoConn => s < sessionID')
  BY FnTypes DEF Dead

LEMMA ContextsStep ==
  ASSUME IInv, Contexts, Idle, [Next]_vars
  PROVE  Contexts'
<1>1. /\ TypeOK /\ sessionID \in Nat /\ cancel \in Nat /\ ctxCancelled \subseteq Nat
      /\ sessionID >= 1 /\ (closed => conn = NoConn) /\ (closer.pc = "closing" => closed)
      /\ \A k \in Conns : loop[k].cancel \in Nat
      /\ \A r \in Reconnectors : rec[r].cancel \in Nat
  <2>1. TypeOK
    BY DEF IInv
  <2>2. (closed => conn = NoConn) /\ (closer.pc = "closing" => closed) /\ sessionID >= 1
    BY DEF IInv, Core, SessionsInv
  <2>3. \A k \in Conns : loop[k].cancel \in Nat
    BY <2>1, FnTypes DEF LoopStates
  <2>4. \A r \in Reconnectors : rec[r].cancel \in Nat
    BY <2>1, FnTypes DEF RecStates
  <2> QED
    BY <2>1, <2>2, <2>3, <2>4 DEF TypeOK
<1>2. ASSUME UNCHANGED <<sessionID, conn, cancel, ctxCancelled>>,
             \A r \in Reconnectors : rec'[r].pc = "finish" => rec'[r] = rec[r],
             \A k \in Conns : loop'[k].pc = "flush" => loop'[k] = loop[k]
      PROVE  Contexts'
  BY <1>2 DEF Contexts, Dead
<1>3. CASE \E c \in Calls : CallMoves(c)
  BY <1>2, <1>3, CallFrame
<1>4. CASE CloseLocked
  <2>1. conn' = NoConn /\ UNCHANGED <<sessionID, cancel, ctxCancelled, rec, loop>>
    BY <1>4 DEF CloseLocked
  <2> QED
    BY <2>1 DEF Contexts, Dead
<1>5. CASE CloseFinish
  <2>1. /\ ctxCancelled' = CancelCtx(cancel) /\ UNCHANGED <<sessionID, conn, cancel, rec, loop>>
        /\ conn = NoConn
    BY <1>1, <1>5 DEF CloseFinish
  <2>2. Dead(cancel)
    BY <1>1, <2>1 DEF Contexts, Dead
  <2>3. \A s \in ctxCancelled' : Dead(s)
    BY <2>1, <2>2 DEF Contexts, CancelCtx
  <2> QED
    BY <2>1, <2>3 DEF Contexts, Dead
<1>6. ASSUME NEW r \in Reconnectors, DialMoves(r) PROVE Contexts'
  BY <1>1, <1>2, <1>6, DialFrame, DialFields
<1>7. ASSUME NEW r \in Reconnectors, ReconnectInstall(r) PROVE Contexts'
  <2>1. /\ sessionID' = sessionID + 1 /\ cancel' = sessionID + 1 /\ ctxCancelled' = ctxCancelled
    BY <1>7 DEF ReconnectInstall
  <2>2. cancel <= sessionID
    BY <1>1 DEF Contexts
  <2>3. \A s \in Reconnectors : rec'[s].pc = "finish" => rec'[s].cancel < sessionID'
    BY <1>1, <1>7, <2>1, <2>2, InstallFields DEF Contexts
  <2>4. \A k \in Conns : loop'[k].pc = "flush" =>
          loop'[k].cancel <= sessionID' /\ (conn' # NoConn => loop'[k].cancel < sessionID')
    BY <1>1, <1>7, <2>1, InstallLoops, DeadStays DEF Contexts
  <2>5. \A s \in ctxCancelled' : s <= sessionID' /\ (conn' # NoConn => s < sessionID')
    BY <1>1, <2>1, DeadStays DEF Contexts
  <2> QED
    BY <2>1, <2>3, <2>4, <2>5 DEF Contexts, Dead
<1>8. ASSUME NEW r \in Reconnectors, ReconnectFinish(r) PROVE Contexts'
  <2>1. /\ rec[r].pc = "finish" /\ ReconnectReturns(r) /\ ctxCancelled' = CancelCtx(rec[r].cancel)
        /\ UNCHANGED <<sessionID, conn, cancel>>
    BY <1>8 DEF ReconnectFinish, OldCancel, transport
  <2>2. Dead(rec[r].cancel)
    BY <1>1, <2>1 DEF Contexts, Dead
  <2>3. \A s \in ctxCancelled' : Dead(s)
    BY <2>1, <2>2 DEF Contexts, CancelCtx
  <2>4. \A s \in Reconnectors : rec'[s].pc = "finish" => rec'[s].cancel < sessionID
    BY <1>1, <2>1, ReturnFields DEF Contexts
  <2>5. \A k \in Conns : loop'[k].pc = "flush" => Dead(loop'[k].cancel)
    <3> SUFFICES ASSUME NEW k \in Conns, loop'[k].pc = "flush" PROVE Dead(loop'[k].cancel)
      OBVIOUS
    <3>1. loop'[k] = loop[k]
      BY <1>1, <1>8, FinishLoops
    <3> QED
      BY <3>1 DEF Contexts
  <2> QED
    BY <2>1, <2>3, <2>4, <2>5 DEF Contexts, Dead
<1>9. ASSUME NEW k \in Conns, QuietLoop(k) PROVE Contexts'
  BY <1>1, <1>2, <1>9, QuietLoopFrame, LoopFields
<1>10. ASSUME NEW k \in Conns, HandleSessionEnd(k) PROVE Contexts'
  <2>1. UNCHANGED <<sessionID, ctxCancelled, rec>>
    BY <1>1, <1>10, EndLoops
  <2>2. CASE conn' = NoConn /\ cancel' = 0 /\ loop'[k].cancel = cancel
    <3>1. \A s \in ctxCancelled : s <= sessionID
      BY DEF Contexts, Dead
    <3>2. \A j \in Conns : loop'[j].pc = "flush" => loop'[j].cancel <= sessionID
      BY <1>1, <1>10, <2>2, EndLoops DEF Contexts, Dead
    <3> QED
      BY <2>1, <2>2, <3>1, <3>2 DEF Contexts, Dead
  <2>3. CASE loop'[k].pc = "exited" /\ UNCHANGED <<conn, cancel>>
    BY <1>1, <1>2, <1>10, <2>1, <2>3, EndLoops
  <2> QED
    BY <1>1, <1>10, <2>2, <2>3, EndLoops
<1>11. ASSUME NEW k \in Conns, LoopFlush(k) PROVE Contexts'
  <2>1. /\ ctxCancelled' = CancelCtx(loop[k].cancel) /\ UNCHANGED <<sessionID, conn, cancel, rec>>
        /\ loop[k].pc = "flush" /\ loop'[k].pc = "exited" /\ \A j \in Conns \ {k} : loop'[j] = loop[j]
    BY <1>1, <1>11, FlushLoops
  <2>2. \A s \in ctxCancelled' : Dead(s)
    BY <2>1 DEF Contexts, CancelCtx
  <2> QED
    BY <2>1, <2>2 DEF Contexts, Dead
<1>12. ASSUME NEW k \in Conns, ServerStep(k) PROVE Contexts'
  BY <1>2, <1>12, ServerFrame
<1>13. CASE Consumes
  BY <1>2, <1>13, ConsumeFrame
<1>14. CASE \E q \in ServerReqs : RequestMoves(q)
  BY <1>2, <1>14, RequestFrame
<1>15. CASE UNCHANGED unlocked
  BY <1>2, <1>15 DEF unlocked, transport
<1> QED
  BY <1>3, <1>4, <1>5, <1>6, <1>7, <1>8, <1>9, <1>10, <1>11, <1>12, <1>13, <1>14, <1>15, NextSplit

LEMMA IdleStep ==
  ASSUME IInv, Idle, [Next]_vars
  PROVE  Idle'
<1>1. TypeOK /\ (closer.pc = "closing" => closed)
  BY DEF IInv, Core, SessionsInv
<1>2. ASSUME UNCHANGED <<closed, closer>>,
             \A r \in Reconnectors : \/ rec'[r] = rec[r] \/ rec'[r].pc = "finish"
                                     \/ rec'[r].old = NoConn /\ rec'[r].flush = {}
      PROVE  Idle'
  BY <1>2 DEF Idle
<1>3. CASE CloseLocked
  BY <1>3 DEF CloseLocked, Idle
<1>4. CASE CloseFinish
  BY <1>1, <1>4 DEF CloseFinish, Idle
<1>5. ASSUME NEW r \in Reconnectors, DialMoves(r) PROVE Idle'
  BY <1>1, <1>2, <1>5, DialFrame, DialFields
<1>6. ASSUME NEW r \in Reconnectors, ReconnectInstall(r) PROVE Idle'
  <2>1. UNCHANGED <<closed, closer>>
    BY <1>6 DEF ReconnectInstall
  <2> QED
    BY <1>1, <1>2, <1>6, <2>1, InstallFields
<1>7. ASSUME NEW r \in Reconnectors, ReconnectFinish(r) PROVE Idle'
  <2>1. UNCHANGED <<closed, closer>> /\ ReconnectReturns(r)
    BY <1>7 DEF ReconnectFinish, transport
  <2> QED
    BY <1>1, <1>2, <2>1, ReturnFields
<1>8. CASE UNCHANGED <<closed, closer, rec>>
  BY <1>2, <1>8
<1> QED
  BY <1>1, <1>3, <1>4, <1>5, <1>6, <1>7, <1>8, NextSplit, CallFrame, QuietLoopFrame, ServerFrame,
     ConsumeFrame, RequestFrame, EndLoops, FlushLoops DEF unlocked, transport

LEMMA StartedStep ==
  ASSUME IInv, Idle, Started, [Next]_vars
  PROVE  Started'
<1>1. /\ TypeOK /\ sessionID \in Nat
      /\ \A r \in Reconnectors : rec[r].pc \in {"install", "finish"} => rec[r].conn \in Conns
  BY FnTypes DEF IInv, Core, SessionsInv, Dialled
<1>2. ASSUME \A r \in Reconnectors : rec'[r] = rec[r] \/ rec'[r].pc # "finish",
             \A k \in Conns : /\ loop'[k].sid = loop[k].sid
                              /\ loop'[k].pc = "none" \/ loop[k].pc # "none"
      PROVE  Started'
  BY <1>1, <1>2 DEF Started
<1>3. CASE UNCHANGED <<rec, loop>>
  BY <1>2, <1>3
<1>4. CASE CloseLocked \/ CloseFinish
  BY <1>3, <1>4 DEF CloseLocked, CloseFinish
<1>5. ASSUME NEW r \in Reconnectors, DialMoves(r) PROVE Started'
  BY <1>1, <1>2, <1>5, DialFrame, DialFields
<1>6. ASSUME NEW r \in Reconnectors, ReconnectInstall(r) PROVE Started'
  <2>1. \A k \in Conns : loop[k].sid # 0 => loop'[k].sid # 0
    BY <1>1, <1>6, InstallLoops
  <2>2. loop'[rec[r].conn].sid # 0
    BY <1>1, <1>6, InstallLoops, InstallFields
  <2> QED
    BY <1>1, <1>6, <2>1, <2>2, InstallLoops, InstallFields DEF Started
<1>7. ASSUME NEW r \in Reconnectors, ReconnectFinish(r) PROVE Started'
  <2>1. ReconnectReturns(r) /\ rec[r].pc = "finish"
    BY <1>7 DEF ReconnectFinish
  <2>2. \A s \in Reconnectors : rec'[s] = rec[s] \/ rec'[s].pc # "finish"
    BY <1>1, <2>1, ReturnFields
  <2> QED
    BY <1>1, <1>7, <2>1, <2>2, FinishLoops DEF Started
<1>8. ASSUME NEW k \in Conns, QuietLoop(k) PROVE Started'
  BY <1>1, <1>2, <1>8, QuietLoopFrame, LoopFields
<1>9. ASSUME NEW k \in Conns, HandleSessionEnd(k) PROVE Started'
  BY <1>1, <1>2, <1>9, EndLoops
<1>10. ASSUME NEW k \in Conns, LoopFlush(k) PROVE Started'
  BY <1>1, <1>2, <1>10, FlushLoops
<1> QED
  BY <1>3, <1>4, <1>5, <1>6, <1>7, <1>8, <1>9, <1>10, NextSplit, CallFrame, ServerFrame,
     ConsumeFrame, RequestFrame DEF unlocked

-----------------------------------------------------------------------------
(* Connections. *)

\* Nothing reopens a connection, and calls, read loops and the server close none.
LEMMA WireStays ==
  ASSUME TypeOK,
         \/ \E c \in Calls : CallMoves(c)
         \/ \E k \in Conns : QuietLoop(k) \/ ServerStep(k)
  PROVE  \A j \in Conns : wire[j].state = "closed" => wire'[j].state = "closed"
<1>1. wire \in [Conns -> WireStates]
  BY FnTypes
<1>2. ASSUME NEW c \in Calls, CallMoves(c)
      PROVE  \A j \in Conns : wire[j].state = "closed" => wire'[j].state = "closed"
  <2>1. CASE CallWrite(c)
    BY <1>1, <2>1 DEF CallWrite, WireStates
  <2>2. CASE UNCHANGED wire
    BY <2>2
  <2> QED
    BY <1>2, <2>1, <2>2 DEF CallMoves, CallRefused, CallRegister, CallCancelled, CallStep,
       CallWriteFails, CallGetsReply, CallSeesDone, RemovePending, CallFails, net
<1>3. ASSUME NEW k \in Conns, QuietLoop(k)
      PROVE  \A j \in Conns : wire[j].state = "closed" => wire'[j].state = "closed"
  <2>1. CASE LoopDecode(k)
    BY <1>1, <2>1 DEF LoopDecode, WireStates
  <2>2. CASE UNCHANGED wire
    BY <2>2
  <2> QED
    BY <1>3, <2>1, <2>2 DEF QuietLoop, LoopDecodeFails, LoopStale, DeliverResponse, LoopReply,
       DeliverInbound, LoopPushRequest, LoopPushNote, LoopPushDone, LoopRejects, LoopGoes, net
<1>4. ASSUME NEW k \in Conns, ServerStep(k)
      PROVE  \A j \in Conns : wire[j].state = "closed" => wire'[j].state = "closed"
  <2>1. CASE ServerDrops(k)
    BY <1>1, <2>1 DEF ServerDrops, WireStates
  <2>2. CASE \E m : ServerSends(k, m)
    BY <1>1, <2>2 DEF ServerSends, WireStates
  <2> QED
    BY <1>4, <2>1, <2>2 DEF ServerStep, ServerResponds, ServerNotifies, ServerMisbehaves,
       ServerRequests
<1> QED
  BY <1>2, <1>3, <1>4

LEMMA CloseConnState ==
  ASSUME TypeOK, NEW j, wire' = CloseConn(j)
  PROVE  \A k \in Conns : wire[k].state = "closed" \/ k = j => wire'[k].state = "closed"
<1>1. wire \in [Conns -> WireStates]
  BY FnTypes
<1> QED
  BY <1>1 DEF CloseConn, WireStates

LEMMA AccountedInit == Init => ConnAccounted
  BY DEF Init, ConnAccounted

\* Reconnect before it installs: the connection it has just opened is its own,
\* and is closed if Close came first.
LEMMA AccountedDial ==
  ASSUME IInv, Idle, ConnAccounted, NEW r \in Reconnectors, DialMoves(r)
  PROVE  ConnAccounted'
<1>1. /\ TypeOK /\ rec \in [Reconnectors -> RecStates] /\ wire \in [Conns -> WireStates]
      /\ opened \in Conns /\ MaxConns \in Nat
  BY FnTypes, Bounded DEF IInv
<1>2. /\ UNCHANGED <<conn, loop, closer>> /\ rec[r].old = NoConn
      /\ \A s \in Reconnectors \ {r} : rec'[s] = rec[s]
  BY <1>1, DialFrame, DialFields DEF Idle
<1>3. ASSUME NEW k \in 1..opened, rec[r].pc = "install" => rec[r].conn # k,
             wire[k].state = "closed" => wire'[k].state = "closed"
      PROVE  \/ wire'[k].state = "closed"
             \/ k = conn'
             \/ \E s \in Reconnectors : k = rec'[s].old \/ (rec'[s].pc = "install" /\ k = rec'[s].conn)
             \/ closer'.pc = "closing" /\ k = closer'.conn
             \/ loop'[k].pc \in {"flush", "exited"} /\ loop'[k].cancel # 0
  <2>1. k # rec[r].old
    BY <1>2 DEF NoConn
  <2> QED
    BY <1>2, <1>3, <2>1 DEF ConnAccounted
<1>4. CASE ReconnectDial(r)
  <2>1. /\ opened' = opened + 1 /\ rec'[r].pc = "install" /\ rec'[r].conn = opened + 1
        /\ rec[r].pc = "dial"
    BY <1>1, <1>4 DEF ReconnectDial, RecStates
  <2>2. \A k \in 1..opened : k \in Conns /\ k # opened + 1
    BY <1>1 DEF Conns
  <2>3. \A k \in 1..opened : wire'[k] = wire[k]
    BY <1>1, <1>4, <2>2 DEF ReconnectDial
  <2>4. \A k \in 1..opened' : k \in 1..opened \/ k = opened + 1
    BY <1>1, <2>1 DEF Conns
  <2> QED
    BY <1>3, <2>1, <2>3, <2>4 DEF ConnAccounted
<1>5. CASE ReconnectTooLate(r)
  <2>1. wire' = CloseConn(rec[r].conn) /\ opened' = opened
    BY <1>5 DEF ReconnectTooLate
  <2>2. \A k \in 1..opened : k \in Conns
    BY <1>1 DEF Conns
  <2>3. \A k \in 1..opened : wire[k].state = "closed" \/ k = rec[r].conn => wire'[k].state = "closed"
    BY <1>1, <2>1, <2>2, CloseConnState
  <2> QED
    BY <1>3, <2>1, <2>3 DEF ConnAccounted
<1>6. CASE ReconnectStart(r) \/ ReconnectDialFails(r)
  <2>1. rec[r].pc # "install" /\ UNCHANGED <<opened, wire>>
    BY <1>6 DEF ReconnectStart, ReconnectDialFails, net
  <2> QED
    BY <1>3, <2>1 DEF ConnAccounted
<1> QED
  BY <1>4, <1>5, <1>6 DEF DialMoves

\* A read loop that ends its session gives up the transport's connection, which
\* is the loop's own.
LEMMA AccountedEnd ==
  ASSUME IInv, Contexts, ConnAccounted, NEW k \in Conns, HandleSessionEnd(k)
  PROVE  ConnAccounted'
<1>1. /\ TypeOK /\ sessionID >= 1 /\ conn \in 0..MaxConns /\ MaxConns \in Nat /\ sessionID \in Nat
      /\ conn # NoConn => loop[conn].sid = sessionID
      /\ \A i, j \in Conns : loop[i].sid = loop[j].sid /\ loop[i].sid # 0 => i = j
  BY FnTypes, Bounded DEF IInv, Core, SessionsInv
<1>2. /\ UNCHANGED <<opened, wire, rec, closer>> /\ loop[k].pc = "sessionEnd"
      /\ \A j \in Conns \ {k} : loop'[j] = loop[j]
  BY <1>1, EndLoops
<1>5. \A j \in 1..opened : j \in Conns /\ j # NoConn
  BY <1>1, FnTypes DEF Conns, NoConn
<1>3. CASE Current(loop[k].sid) /\ loop'[k].pc = "flush" /\ loop'[k].cancel = cancel
  <2>1. conn # NoConn => conn = k /\ cancel # 0
    BY <1>1, <1>3 DEF Current, Conns, NoConn, Contexts
  <2> QED
    BY <1>2, <1>3, <1>5, <2>1 DEF ConnAccounted
<1>4. CASE UNCHANGED conn
  BY <1>2, <1>4, <1>5 DEF ConnAccounted
<1> QED
  BY <1>1, <1>3, <1>4, EndLoops

LEMMA AccountedStep ==
  ASSUME IInv, Contexts, Idle, ConnAccounted, [Next]_vars
  PROVE  ConnAccounted'
<1>1. /\ TypeOK /\ opened \in Conns /\ MaxConns \in Nat
      /\ \A k \in 1..opened : k \in Conns
      /\ closer \in CloserStates /\ (closer.pc = "closing" => closed)
      /\ \A r \in Reconnectors : rec[r].pc = "finish" =>
            rec[r].conn \in Conns /\ loop[rec[r].conn].pc = "none"
  <2>1. TypeOK /\ opened \in Conns /\ MaxConns \in Nat /\ closer \in CloserStates
    BY FnTypes, Bounded DEF IInv
  <2>2. \A k \in 1..opened : k \in Conns
    BY <2>1 DEF Conns
  <2> QED
    BY <2>1, <2>2 DEF IInv, Core, SessionsInv, Dialled
<1>2. ASSUME UNCHANGED <<opened, conn, rec, closer>>,
             \A k \in Conns : wire[k].state = "closed" => wire'[k].state = "closed",
             \A k \in Conns : \/ loop'[k] = loop[k] \/ loop[k].pc \notin {"flush", "exited"}
                              \/ loop'[k].pc = "exited" /\ loop'[k].cancel = loop[k].cancel
      PROVE  ConnAccounted'
  BY <1>1, <1>2 DEF ConnAccounted
<1>3. CASE \E c \in Calls : CallMoves(c)
  BY <1>1, <1>2, <1>3, CallFrame, WireStays
<1>4. CASE CloseLocked
  <2>1. /\ closer'.pc = "closing" /\ closer'.conn = conn /\ closer.pc # "closing"
        /\ UNCHANGED <<opened, rec, loop, wire>>
    BY <1>1, <1>4 DEF CloseLocked, net
  <2> QED
    BY <2>1 DEF ConnAccounted
<1>5. CASE CloseFinish
  <2>1. wire' = CloseConn(closer.conn) /\ UNCHANGED <<opened, rec, loop, conn>>
    BY <1>5 DEF CloseFinish
  <2>2. \A k \in 1..opened : wire[k].state = "closed" \/ k = closer.conn => wire'[k].state = "closed"
    BY <1>1, <2>1, CloseConnState
  <2> QED
    BY <2>1, <2>2 DEF ConnAccounted
<1>6. ASSUME NEW r \in Reconnectors, DialMoves(r) PROVE ConnAccounted'
  BY <1>6, AccountedDial
<1>7. ASSUME NEW r \in Reconnectors, ReconnectInstall(r) PROVE ConnAccounted'
  <2>1. conn' = rec[r].conn /\ UNCHANGED <<opened, closer, wire>>
    BY <1>7 DEF ReconnectInstall, net
  <2>2. rec[r].old = NoConn
    BY <1>7 DEF ReconnectInstall, Idle
  <2>3. /\ rec'[r].old = conn /\ \A s \in Reconnectors \ {r} : rec'[s] = rec[s]
    BY <1>1, <1>7, InstallFields
  <2>4. \A k \in Conns : loop'[k].pc = loop[k].pc /\ loop'[k].cancel = loop[k].cancel
    BY <1>1, <1>7, InstallLoops
  <2>5. \A k \in 1..opened : k # NoConn
    BY DEF NoConn
  <2> QED
    BY <1>1, <2>1, <2>2, <2>3, <2>4, <2>5 DEF ConnAccounted
<1>8. ASSUME NEW r \in Reconnectors, ReconnectFinish(r) PROVE ConnAccounted'
  <2>1. /\ wire' = CloseConn(rec[r].old) /\ ReconnectReturns(r) /\ rec[r].pc = "finish"
        /\ UNCHANGED <<opened, conn, closer>>
    BY <1>8 DEF ReconnectFinish, transport
  <2>2. \A k \in 1..opened : wire[k].state = "closed" \/ k = rec[r].old => wire'[k].state = "closed"
    BY <1>1, <2>1, CloseConnState
  <2>3. \A s \in Reconnectors \ {r} : rec'[s] = rec[s]
    BY <1>1, <2>1, ReturnFields
  <2>4. \A k \in Conns : loop[k].pc \in {"flush", "exited"} => loop'[k] = loop[k]
    BY <1>1, <1>8, <2>1, FinishLoops
  <2> QED
    BY <1>1, <2>1, <2>2, <2>3, <2>4 DEF ConnAccounted
<1>9. ASSUME NEW k \in Conns, QuietLoop(k) PROVE ConnAccounted'
  BY <1>1, <1>2, <1>9, QuietLoopFrame, LoopFields, WireStays
<1>10. ASSUME NEW k \in Conns, HandleSessionEnd(k) PROVE ConnAccounted'
  BY <1>10, AccountedEnd
<1>11. ASSUME NEW k \in Conns, LoopFlush(k) PROVE ConnAccounted'
  BY <1>1, <1>2, <1>11, FlushLoops
<1>12. ASSUME NEW k \in Conns, ServerStep(k) PROVE ConnAccounted'
  BY <1>1, <1>2, <1>12, ServerFrame, WireStays
<1>13. CASE Consumes \/ \E q \in ServerReqs : RequestMoves(q)
  BY <1>2, <1>13, ConsumeFrame, RequestFrame
<1>14. CASE UNCHANGED unlocked
  BY <1>2, <1>14 DEF unlocked, transport, net
<1> QED
  BY <1>3, <1>4, <1>5, <1>6, <1>7, <1>8, <1>9, <1>10, <1>11, <1>12, <1>13, <1>14, NextSplit

\* Contexts, the locals and the connections, together.
SessionInv == Contexts /\ Idle /\ Started /\ ConnAccounted

\* t.cancel, the copies of it that Reconnect and handleSessionEnd took under
\* t.mu, the locals of Reconnect and the connections agree with each other in
\* every reachable state.
THEOREM SessionsInvariant == Spec => []SessionInv
<1>1. Init => SessionInv
  BY SideInit, AccountedInit DEF SessionInv
<1>2. IInv /\ SessionInv /\ [Next]_vars => SessionInv'
  BY ContextsStep, IdleStep, StartedStep, AccountedStep DEF SessionInv
<1> QED
  BY <1>1, <1>2, Inductive, PTL DEF Spec

\* The context of a session is not cancelled while the session is the current
\* one and connected, however late the cancel functions of earlier sessions are
\* called (Reconnect, handleSessionEnd, Close).
THEOREM LiveContexts == Spec => []LiveSessionCtx
<1>1. SessionInv => LiveSessionCtx
  BY DEF SessionInv, Contexts, Dead, LiveSessionCtx
<1> QED
  BY <1>1, SessionsInvariant, PTL

\* No open connection is forgotten: it is the transport's, or Reconnect or Close
\* is about to close it, or handleSessionEnd gave it up.
THEOREM ConnectionsAccounted == Spec => []ConnAccounted
<1>1. SessionInv => ConnAccounted
  BY DEF SessionInv
<1> QED
  BY <1>1, SessionsInvariant, PTL

-----------------------------------------------------------------------------
(* Server requests and their replies. *)

LEMMA PlaceInit == Init => OnePlace /\ Home /\ RepliesOnceAtHome
<1> SUFFICES ASSUME Init PROVE OnePlace /\ Home /\ RepliesOnceAtHome
  OBVIOUS
<1>1. /\ requests = <<>> /\ \A k \in Conns : wire[k].inbox = <<>> /\ loop[k].msg = Note
      /\ \A q \in ServerReqs : req[q].pc = "unsent" /\ ~req[q].replied /\ req[q].sent = <<>>
  BY DEF Init
<1>2. Note.kind # "request"
  BY DEF Note, Message
<1>3. OnePlace
  BY <1>1, <1>2 DEF OnePlace, OnWire, InLoop
<1>4. Home
  BY <1>1 DEF Home
<1>5. RepliesOnceAtHome
  BY <1>1 DEF RepliesOnceAtHome
<1> QED
  BY <1>3, <1>4, <1>5

\* A step that moves no request.
SameInboxes == \A k \in Conns : wire'[k].inbox = wire[k].inbox
LEMMA PlaceFrame ==
  ASSUME OnePlace, SameInboxes, requests' = requests,
         \A k \in Conns : loop'[k].msg = loop[k].msg \/ loop'[k].msg = Note,
         \A q \in ServerReqs : req[q].pc \in {"wire", "queued"} => req'[q] = req[q]
  PROVE  OnePlace'
<1>1. Note.kind # "request"
  BY DEF Note, Message
<1>2. \A q \in ServerReqs, k \in Conns :
        OnWire(q, k)' = OnWire(q, k) /\ (InLoop(q, k)' => InLoop(q, k))
  BY <1>1 DEF OnWire, InLoop, SameInboxes
<1>3. ASSUME NEW q \in ServerReqs
      PROVE  /\ \A k \in Conns :
                  /\ OnWire(q, k)' \/ InLoop(q, k)' => req'[q].pc = "wire" /\ req'[q].conn = k
                  /\ ~(OnWire(q, k)' /\ InLoop(q, k)')
             /\ \A i \in 1..Len(requests) : requests[i] = q => req'[q].pc = "queued"
  BY <1>2 DEF OnePlace
<1> QED
  BY <1>3 DEF OnePlace, SameInboxes

\* Sequences: what the tail and an append hold.
LEMMA TailItems ==
  ASSUME NEW T, NEW s \in Seq(T), s # <<>>
  PROVE  /\ Head(s) = s[1] /\ 1 \in 1..Len(s) /\ Len(Tail(s)) = Len(s) - 1
         /\ \A i \in 1..Len(Tail(s)) : Tail(s)[i] = s[i + 1] /\ i + 1 \in 1..Len(s) /\ i + 1 # 1
  OBVIOUS

LEMMA AppendItems ==
  ASSUME NEW T, NEW s \in Seq(T), NEW x \in T
  PROVE  /\ Len(Append(s, x)) = Len(s) + 1 /\ Append(s, x)[Len(s) + 1] = x
         /\ \A i \in 1..Len(Append(s, x)) :
              i = Len(s) + 1 \/ (i \in 1..Len(s) /\ Append(s, x)[i] = s[i])
  OBVIOUS

\* The read loop takes the first message off its connection.
LEMMA PlaceDecode ==
  ASSUME TypeOK, OnePlace, NEW k \in Conns, LoopDecode(k)
  PROVE  OnePlace'
<1>1. /\ wire \in [Conns -> WireStates] /\ loop \in [Conns -> LoopStates]
      /\ wire[k].inbox \in Seq(Messages) /\ wire[k].inbox # <<>>
  BY FnTypes DEF WireStates, LoopDecode
<1> DEFINE inbox == wire[k].inbox
<1>2. /\ wire'[k].inbox = Tail(inbox) /\ loop'[k].msg = inbox[1]
      /\ \A j \in Conns \ {k} : wire'[j] = wire[j] /\ loop'[j] = loop[j]
      /\ UNCHANGED <<req, requests>>
  BY <1>1, TailItems DEF LoopDecode, WireStates, LoopStates, queues
<1>3. ASSUME NEW q \in ServerReqs
      PROVE  /\ OnWire(q, k)' \/ InLoop(q, k)' => OnWire(q, k)
             /\ ~(OnWire(q, k)' /\ InLoop(q, k)')
             /\ \A i, j \in 1..Len(wire'[k].inbox) :
                  /\ wire'[k].inbox[i].kind = "request" /\ wire'[k].inbox[i].req = q
                  /\ wire'[k].inbox[j].kind = "request" /\ wire'[k].inbox[j].req = q
                  => i = j
  <2>1. /\ 1 \in 1..Len(inbox)
        /\ \A i \in 1..Len(Tail(inbox)) :
             Tail(inbox)[i] = inbox[i + 1] /\ i + 1 \in 1..Len(inbox) /\ i + 1 # 1
    BY <1>1, TailItems
  <2>2. \A i, j \in 1..Len(inbox) :
          /\ inbox[i].kind = "request" /\ inbox[i].req = q
          /\ inbox[j].kind = "request" /\ inbox[j].req = q
          => i = j
    BY DEF OnePlace
  <2>3. OnWire(q, k)' = \E i \in 1..Len(Tail(inbox)) :
                          Tail(inbox)[i].kind = "request" /\ Tail(inbox)[i].req = q
    BY <1>2 DEF OnWire
  <2>4. InLoop(q, k)' = (inbox[1].kind = "request" /\ inbox[1].req = q)
    BY <1>2 DEF InLoop
  <2>5. OnWire(q, k) = \E i \in 1..Len(inbox) : inbox[i].kind = "request" /\ inbox[i].req = q
    BY DEF OnWire
  <2> HIDE DEF inbox
  <2>6. OnWire(q, k)' \/ InLoop(q, k)' => OnWire(q, k)
    BY <2>1, <2>3, <2>4, <2>5
  <2>7. ~(OnWire(q, k)' /\ InLoop(q, k)')
    BY <2>1, <2>2, <2>3, <2>4
  <2>8. \A i, j \in 1..Len(wire'[k].inbox) :
          /\ wire'[k].inbox[i].kind = "request" /\ wire'[k].inbox[i].req = q
          /\ wire'[k].inbox[j].kind = "request" /\ wire'[k].inbox[j].req = q
          => i = j
    BY <1>2, <2>1, <2>2
  <2> QED
    BY <2>6, <2>7, <2>8
<1>4. \A q \in ServerReqs : \A j \in Conns \ {k} :
        OnWire(q, j)' = OnWire(q, j) /\ InLoop(q, j)' = InLoop(q, j)
  BY <1>2 DEF OnWire, InLoop
<1> HIDE DEF inbox
<1>5. ASSUME NEW q \in ServerReqs, NEW j \in Conns
      PROVE  /\ OnWire(q, j)' \/ InLoop(q, j)' => req'[q].pc = "wire" /\ req'[q].conn = j
             /\ ~(OnWire(q, j)' /\ InLoop(q, j)')
  BY <1>2, <1>3, <1>4 DEF OnePlace
<1>6. ASSUME NEW q \in ServerReqs, NEW l \in Conns
      PROVE  \A i, j \in 1..Len(wire'[l].inbox) :
                  /\ wire'[l].inbox[i].kind = "request" /\ wire'[l].inbox[i].req = q
                  /\ wire'[l].inbox[j].kind = "request" /\ wire'[l].inbox[j].req = q
                  => i = j
  <2>1. CASE l = k
    BY <1>3, <2>1
  <2>2. CASE l # k
    BY <1>2, <2>2, SMTT(30) DEF OnePlace
  <2> QED
    BY <2>1, <2>2
<1> QED
  BY <1>2, <1>5, <1>6 DEF OnePlace

\* The server sends m: a new request is nowhere else yet.
LEMMA PlaceSends ==
  ASSUME TypeOK, OnePlace, NEW k \in Conns, NEW m \in Messages, ServerSends(k, m),
         \/ m.kind # "request" /\ req' = req
         \/ /\ m.kind = "request" /\ m.req \in ServerReqs /\ req[m.req].pc = "unsent"
            /\ \A q \in ServerReqs \ {m.req} : req'[q] = req[q]
            /\ req'[m.req].pc = "wire" /\ req'[m.req].conn = k
  PROVE  OnePlace'
<1>1. wire \in [Conns -> WireStates] /\ wire[k].inbox \in Seq(Messages)
  BY FnTypes DEF WireStates
<1> DEFINE inbox == wire[k].inbox
           last == Len(inbox) + 1
<1>2. /\ wire'[k].inbox = Append(inbox, m) /\ UNCHANGED <<loop, requests>>
      /\ \A j \in Conns \ {k} : wire'[j] = wire[j]
  BY <1>1 DEF ServerSends, WireStates, queues
<1>3. /\ Len(Append(inbox, m)) = last /\ Append(inbox, m)[last] = m
      /\ \A i \in 1..Len(Append(inbox, m)) :
           i = last \/ (i \in 1..Len(inbox) /\ Append(inbox, m)[i] = inbox[i])
  BY <1>1, AppendItems
<1>4. \A q \in ServerReqs : OnWire(q, k)' = \E i \in 1..Len(Append(inbox, m)) :
                          Append(inbox, m)[i].kind = "request" /\ Append(inbox, m)[i].req = q
  BY <1>2 DEF OnWire
<1>5. \A q \in ServerReqs : OnWire(q, k) = \E i \in 1..Len(inbox) :
                          inbox[i].kind = "request" /\ inbox[i].req = q
  BY DEF OnWire
<1>6. /\ \A q \in ServerReqs : \A j \in Conns \ {k} : OnWire(q, j)' = OnWire(q, j)
      /\ \A q \in ServerReqs, j \in Conns : InLoop(q, j)' = InLoop(q, j)
  BY <1>2 DEF OnWire, InLoop
<1>7. \A q \in ServerReqs : \A i, j \in 1..Len(inbox) :
          /\ inbox[i].kind = "request" /\ inbox[i].req = q
          /\ inbox[j].kind = "request" /\ inbox[j].req = q
          => i = j
  BY DEF OnePlace
<1> HIDE DEF inbox, last
<1>8. ASSUME NEW q \in ServerReqs, ~(m.kind = "request" /\ m.req = q)
      PROVE  /\ OnWire(q, k)' => OnWire(q, k)
             /\ \A i, j \in 1..Len(wire'[k].inbox) :
                  /\ wire'[k].inbox[i].kind = "request" /\ wire'[k].inbox[i].req = q
                  /\ wire'[k].inbox[j].kind = "request" /\ wire'[k].inbox[j].req = q
                  => i = j
             /\ req'[q] = req[q]
  <2>1. \A i \in 1..Len(Append(inbox, m)) :
          Append(inbox, m)[i].kind = "request" /\ Append(inbox, m)[i].req = q =>
            i \in 1..Len(inbox) /\ Append(inbox, m)[i] = inbox[i]
    BY <1>3, <1>8
  <2>2. ASSUME OnWire(q, k)' PROVE OnWire(q, k)
    <3>1. PICK i \in 1..Len(Append(inbox, m)) :
            Append(inbox, m)[i].kind = "request" /\ Append(inbox, m)[i].req = q
      BY <1>4, <2>2
    <3>2. i \in 1..Len(inbox) /\ inbox[i].kind = "request" /\ inbox[i].req = q
      BY <2>1, <3>1
    <3> QED
      BY <1>5, <3>2
  <2>3. \A i, j \in 1..Len(wire'[k].inbox) :
          /\ wire'[k].inbox[i].kind = "request" /\ wire'[k].inbox[i].req = q
          /\ wire'[k].inbox[j].kind = "request" /\ wire'[k].inbox[j].req = q
          => i = j
    BY <1>2, <1>7, <2>1
  <2>4. req'[q] = req[q]
    BY <1>8
  <2> QED
    BY <2>2, <2>3, <2>4
<1>9. ASSUME NEW q \in ServerReqs, m.kind = "request", m.req = q
      PROVE  /\ \A j \in Conns : ~OnWire(q, j) /\ ~InLoop(q, j)
             /\ \A i \in 1..Len(requests) : requests[i] # q
             /\ \A i, j \in 1..Len(wire'[k].inbox) :
                  /\ wire'[k].inbox[i].kind = "request" /\ wire'[k].inbox[i].req = q
                  /\ wire'[k].inbox[j].kind = "request" /\ wire'[k].inbox[j].req = q
                  => i = j
             /\ req'[q].pc = "wire" /\ req'[q].conn = k
  <2>1. /\ \A j \in Conns : ~OnWire(q, j) /\ ~InLoop(q, j)
        /\ \A i \in 1..Len(requests) : requests[i] # q
    BY <1>9 DEF OnePlace
  <2>2. \A i \in 1..Len(inbox) : ~(inbox[i].kind = "request" /\ inbox[i].req = q)
    BY <1>5, <2>1
  <2> QED
    BY <1>2, <1>3, <1>9, <2>1, <2>2
<1>10. ASSUME NEW q \in ServerReqs, NEW j \in Conns
       PROVE  /\ OnWire(q, j)' \/ InLoop(q, j)' => req'[q].pc = "wire" /\ req'[q].conn = j
              /\ ~(OnWire(q, j)' /\ InLoop(q, j)')
  <2>1. CASE m.kind = "request" /\ m.req = q
    BY <1>6, <1>9, <2>1
  <2>2. CASE ~(m.kind = "request" /\ m.req = q)
    <3>1. OnWire(q, j)' => OnWire(q, j)
      BY <1>6, <1>8, <2>2
    <3> QED
      BY <1>6, <1>8, <2>2, <3>1 DEF OnePlace
  <2> QED
    BY <2>1, <2>2
<1>11. ASSUME NEW q \in ServerReqs, NEW l \in Conns
      PROVE  \A i, j \in 1..Len(wire'[l].inbox) :
                  /\ wire'[l].inbox[i].kind = "request" /\ wire'[l].inbox[i].req = q
                  /\ wire'[l].inbox[j].kind = "request" /\ wire'[l].inbox[j].req = q
                  => i = j
  <2>1. CASE l = k
    BY <1>8, <1>9, <2>1
  <2>2. CASE l # k
    BY <1>2, <2>2 DEF OnePlace
  <2> QED
    BY <2>1, <2>2
<1>12. ASSUME NEW q \in ServerReqs
       PROVE  \A i \in 1..Len(requests) : requests[i] = q => req'[q].pc = "queued"
  BY <1>8, <1>9 DEF OnePlace
<1> QED
  BY <1>2, <1>10, <1>11, <1>12, SMTT(30) DEF OnePlace

\* The read loop puts its request into the channel.
LEMMA PlacePush ==
  ASSUME TypeOK, OnePlace, NEW k \in Conns, LoopPushRequest(k)
  PROVE  OnePlace'
<1>1. /\ loop \in [Conns -> LoopStates] /\ req \in [ServerReqs -> ReqStates]
      /\ requests \in Seq(ServerReqs) /\ loop[k].msg \in Messages
  BY FnTypes DEF LoopStates
<1> DEFINE p == loop[k].msg.req
           last == Len(requests) + 1
<1>2. p \in ServerReqs /\ InLoop(p, k)
  BY <1>1, MessageFields DEF LoopPushRequest, InLoop
<1>3. /\ requests' = Append(requests, p) /\ UNCHANGED wire
      /\ req' = [req EXCEPT ![p].pc = "queued", ![p].sid = loop[k].sid]
      /\ LoopForgets(k, "decode")
  BY DEF LoopPushRequest, net
<1>4. /\ loop'[k].msg = Note /\ \A j \in Conns \ {k} : loop'[j] = loop[j]
  BY <1>1, <1>3 DEF LoopForgets, LoopStates
<1>5. /\ \A q \in ServerReqs \ {p} : req'[q] = req[q]
      /\ req'[p].pc = "queued"
  BY <1>1, <1>2, <1>3 DEF ReqStates
<1>6. /\ Len(Append(requests, p)) = last /\ Append(requests, p)[last] = p
      /\ \A i \in 1..Len(Append(requests, p)) :
           i = last \/ (i \in 1..Len(requests) /\ Append(requests, p)[i] = requests[i])
  BY <1>1, <1>2, AppendItems
<1>7. /\ req[p].pc = "wire" /\ req[p].conn = k
      /\ \A j \in Conns : ~OnWire(p, j) /\ (InLoop(p, j) => j = k)
      /\ \A i \in 1..Len(requests) : requests[i] # p
  BY <1>2 DEF OnePlace
<1>8. /\ \A q \in ServerReqs, j \in Conns :
           OnWire(q, j)' = OnWire(q, j) /\ (InLoop(q, j)' => InLoop(q, j) /\ j # k)
  BY <1>3, <1>4 DEF OnWire, InLoop, Note, Message
<1> HIDE DEF p, last
<1>9. ASSUME NEW q \in ServerReqs, NEW j \in Conns
      PROVE  /\ OnWire(q, j)' \/ InLoop(q, j)' => req'[q].pc = "wire" /\ req'[q].conn = j
             /\ ~(OnWire(q, j)' /\ InLoop(q, j)')
  <2>1. CASE q = p
    BY <1>7, <1>8, <2>1
  <2>2. CASE q # p
    BY <1>5, <1>8, <2>2 DEF OnePlace
  <2> QED
    BY <2>1, <2>2
<1>10. ASSUME NEW q \in ServerReqs
       PROVE  /\ \A i \in 1..Len(requests') : requests'[i] = q => req'[q].pc = "queued"
              /\ \A i, j \in 1..Len(requests') : requests'[i] = q /\ requests'[j] = q => i = j
  <2>1. CASE q = p
    BY <1>3, <1>5, <1>6, <1>7, <2>1
  <2>2. CASE q # p
    <3>1. \A i \in 1..Len(requests') : requests'[i] = q => i \in 1..Len(requests) /\ requests[i] = q
      BY <1>3, <1>6, <2>2
    <3>2. \A i \in 1..Len(requests) : requests[i] = q => req'[q].pc = "queued"
      BY <1>5, <2>2 DEF OnePlace
    <3>3. \A i, j \in 1..Len(requests) : requests[i] = q /\ requests[j] = q => i = j
      BY DEF OnePlace
    <3> QED
      BY <3>1, <3>2, <3>3
  <2> QED
    BY <2>1, <2>2
<1>11. \A q \in ServerReqs, l \in Conns : \A i, j \in 1..Len(wire'[l].inbox) :
          /\ wire'[l].inbox[i].kind = "request" /\ wire'[l].inbox[i].req = q
          /\ wire'[l].inbox[j].kind = "request" /\ wire'[l].inbox[j].req = q
          => i = j
  BY <1>3 DEF OnePlace
<1> QED
  BY <1>9, <1>10, <1>11 DEF OnePlace

\* A consumer takes the first request out of the channel.
LEMMA PlaceTake ==
  ASSUME TypeOK, OnePlace, TakeRequest
  PROVE  OnePlace'
<1>1. req \in [ServerReqs -> ReqStates] /\ requests \in Seq(ServerReqs) /\ requests # <<>>
  BY FnTypes DEF TakeRequest
<1> DEFINE p == requests[1]
<1>2. /\ Head(requests) = p /\ 1 \in 1..Len(requests) /\ p \in ServerReqs
      /\ \A i \in 1..Len(Tail(requests)) :
           Tail(requests)[i] = requests[i + 1] /\ i + 1 \in 1..Len(requests) /\ i + 1 # 1
  BY <1>1, TailItems
<1>3. /\ requests' = Tail(requests) /\ UNCHANGED <<wire, loop>>
      /\ req' = [req EXCEPT ![p].pc = "held"]
  BY <1>2 DEF TakeRequest, net
<1>4. \A q \in ServerReqs \ {p} : req'[q] = req[q]
  BY <1>1, <1>3
<1>5. /\ req[p].pc = "queued" /\ \A i \in 1..Len(requests) : requests[i] = p => i = 1
      /\ \A j \in Conns : ~OnWire(p, j) /\ ~InLoop(p, j)
  BY <1>2 DEF OnePlace
<1>6. \A q \in ServerReqs, j \in Conns :
           OnWire(q, j)' = OnWire(q, j) /\ InLoop(q, j)' = InLoop(q, j)
  BY <1>3 DEF OnWire, InLoop
<1> HIDE DEF p
<1>7. ASSUME NEW q \in ServerReqs, NEW j \in Conns
      PROVE  /\ OnWire(q, j)' \/ InLoop(q, j)' => req'[q].pc = "wire" /\ req'[q].conn = j
             /\ ~(OnWire(q, j)' /\ InLoop(q, j)')
  <2>1. CASE q = p
    BY <1>5, <1>6, <2>1
  <2>2. CASE q # p
    BY <1>4, <1>6, <2>2 DEF OnePlace
  <2> QED
    BY <2>1, <2>2
<1>8. ASSUME NEW q \in ServerReqs
      PROVE  /\ \A i \in 1..Len(requests') : requests'[i] = q => req'[q].pc = "queued"
             /\ \A i, j \in 1..Len(requests') : requests'[i] = q /\ requests'[j] = q => i = j
  <2>1. CASE q = p
    BY <1>2, <1>3, <1>5, <2>1
  <2>2. CASE q # p
    <3>1. \A i \in 1..Len(requests) : requests[i] = q => req'[q].pc = "queued"
      BY <1>4, <2>2 DEF OnePlace
    <3>2. \A i, j \in 1..Len(requests) : requests[i] = q /\ requests[j] = q => i = j
      BY DEF OnePlace
    <3> QED
      BY <1>2, <1>3, <3>1, <3>2
  <2> QED
    BY <2>1, <2>2
<1> QED
  BY <1>3, <1>7, <1>8 DEF OnePlace

\* The read loop otherwise: it keeps its message or forgets it.
OtherLoop(k) ==
  \/ LoopDecodeFails(k) \/ LoopStale(k) \/ DeliverResponse(k) \/ LoopReply(k)
  \/ DeliverInbound(k) \/ LoopPushNote(k) \/ LoopPushDone(k) \/ LoopRejects(k)

LEMMA OtherLoopFields ==
  ASSUME TypeOK, NEW k \in Conns, OtherLoop(k)
  PROVE  /\ UNCHANGED <<wire, req, requests>>
         /\ \A j \in Conns : loop'[j].msg = loop[j].msg \/ loop'[j].msg = Note
<1>1. loop \in [Conns -> LoopStates]
  BY FnTypes
<1>2. UNCHANGED <<wire, req, requests>>
  BY DEF OtherLoop, LoopDecodeFails, LoopStale, DeliverResponse, LoopReply, DeliverInbound,
     LoopPushNote, LoopPushDone, LoopRejects, LoopGoes, queues, net
<1>3. \/ \E pc : LoopForgets(k, pc) \/ loop' = [loop EXCEPT ![k].pc = pc]
      \/ loop' = [loop EXCEPT ![k].pc = "reply", ![k].flush = {pending[loop[k].msg.id]}]
  <2>1. CASE LoopDecodeFails(k) \/ DeliverInbound(k) \/ LoopRejects(k)
    BY <2>1 DEF LoopDecodeFails, DeliverInbound, LoopRejects, LoopGoes
  <2>2. CASE LoopStale(k) \/ LoopReply(k) \/ LoopPushNote(k) \/ LoopPushDone(k)
    BY <2>2 DEF LoopStale, LoopReply, LoopPushNote, LoopPushDone
  <2>3. CASE DeliverResponse(k)
    BY <2>3 DEF DeliverResponse
  <2> QED
    BY <2>1, <2>2, <2>3 DEF OtherLoop
<1>4. ASSUME NEW pc, LoopForgets(k, pc)
      PROVE  \A j \in Conns : loop'[j].msg = loop[j].msg \/ loop'[j].msg = Note
  BY <1>1, <1>4 DEF LoopForgets, LoopStates
<1>5. ASSUME NEW pc, loop' = [loop EXCEPT ![k].pc = pc]
      PROVE  \A j \in Conns : loop'[j].msg = loop[j].msg \/ loop'[j].msg = Note
  BY <1>1, <1>5 DEF LoopStates
<1>6. ASSUME loop' = [loop EXCEPT ![k].pc = "reply", ![k].flush = {pending[loop[k].msg.id]}]
      PROVE  \A j \in Conns : loop'[j].msg = loop[j].msg \/ loop'[j].msg = Note
  BY <1>1, <1>6 DEF LoopStates
<1> QED
  BY <1>2, <1>3, <1>4, <1>5, <1>6

LEMMA InboxesStay ==
  ASSUME TypeOK,
         \/ \E c \in Calls : CallMoves(c)
         \/ CloseLocked \/ CloseFinish
         \/ \E r \in Reconnectors : DialMoves(r) \/ ReconnectInstall(r) \/ ReconnectFinish(r)
         \/ \E k \in Conns : ServerDrops(k)
  PROVE  SameInboxes
<1>1. wire \in [Conns -> WireStates]
  BY FnTypes
<1>2. ASSUME NEW j, wire' = CloseConn(j) PROVE SameInboxes
  BY <1>2, CloseConnFields DEF SameInboxes
<1>3. ASSUME NEW c \in Calls, CallWrite(c) PROVE SameInboxes
  BY <1>1, <1>3 DEF CallWrite, WireStates, SameInboxes
<1>4. ASSUME NEW k \in Conns, ServerDrops(k) PROVE SameInboxes
  BY <1>1, <1>4 DEF ServerDrops, WireStates, SameInboxes
<1>5. ASSUME NEW r \in Reconnectors, ReconnectDial(r) PROVE SameInboxes
  BY <1>1, <1>5 DEF ReconnectDial, WireStates, SameInboxes
<1>6. CASE UNCHANGED wire
  BY <1>6 DEF SameInboxes
<1>7. CASE \E c \in Calls : CallMoves(c)
  BY <1>3, <1>6, <1>7 DEF CallMoves, CallRefused, CallRegister, CallCancelled, CallStep,
     CallWriteFails, CallGetsReply, CallSeesDone, RemovePending, CallFails, net
<1>8. CASE CloseLocked \/ CloseFinish
  BY <1>2, <1>6, <1>8 DEF CloseLocked, CloseFinish, net
<1>9. CASE \E r \in Reconnectors : DialMoves(r) \/ ReconnectInstall(r) \/ ReconnectFinish(r)
  BY <1>2, <1>5, <1>6, <1>9 DEF DialMoves, ReconnectStart, ReconnectDialFails, ReconnectTooLate,
     ReconnectInstall, ReconnectFinish, net
<1> QED
  BY <1>4, <1>7, <1>8, <1>9

\* What the server sends is a message.
LEMMA ServerSplit ==
  ASSUME TypeOK, NEW k \in Conns, ServerStep(k)
  PROVE  \/ ServerDrops(k) /\ UNCHANGED req
         \/ \E m \in Messages : ServerSends(k, m) /\ m.kind # "request" /\ UNCHANGED req
         \/ \E q \in ServerReqs : ServerRequests(k, q)
<1>1. CASE ServerResponds(k)
  <2>1. PICK c \in wire[k].received :
          ServerSends(k, Message("response", call[c].id, c, None)) /\ UNCHANGED req
    BY <1>1 DEF ServerResponds
  <2>2. c \in Calls /\ call[c].id \in Nat
    BY TypeFacts
  <2>3. Message("response", call[c].id, c, None) \in Messages
    BY <2>2, ValueTypes
  <2>4. Message("response", call[c].id, c, None).kind # "request"
    BY DEF Message
  <2> QED
    BY <2>1, <2>3, <2>4
<1>2. CASE ServerNotifies(k)
  <2>1. Note \in Messages /\ Note.kind # "request"
    BY ValueTypes DEF Note, Message
  <2> QED
    BY <1>2, <2>1 DEF ServerNotifies
<1>3. CASE ServerMisbehaves(k)
  <2>1. Malformed \in Messages /\ Malformed.kind # "request"
    BY ValueTypes DEF Malformed, Message
  <2> QED
    BY <1>3, <2>1 DEF ServerMisbehaves
<1>4. CASE ServerDrops(k)
  BY <1>4 DEF ServerDrops
<1> QED
  BY <1>1, <1>2, <1>3, <1>4 DEF ServerStep

\* The fields of a request change only in its handler's hands ...
LEMMA RequestFields ==
  ASSUME TypeOK, NEW q \in ServerReqs, RequestMoves(q)
  PROVE  /\ \A p \in ServerReqs \ {q} : req'[p] = req[p]
         /\ req[q].pc \in {"held", "send", "write"} /\ req'[q].pc \in {"held", "send", "write"}
         /\ req'[q].conn = req[q].conn /\ req'[q].sid = req[q].sid
         /\ \/ /\ req[q].pc = "held" /\ ~req[q].replied /\ req'[q].pc = "send"
               /\ req'[q].replied /\ req'[q].sent = req[q].sent
            \/ /\ req[q].pc = "send" /\ Current(req[q].sid) /\ conn # NoConn
               /\ req'[q].pc = "write" /\ req'[q].to = conn
               /\ req'[q].replied = req[q].replied /\ req'[q].sent = req[q].sent
            \/ /\ req[q].pc \in {"send", "write"} /\ req'[q].pc = "held"
               /\ req'[q].replied = req[q].replied /\ req'[q].sent = req[q].sent
            \/ /\ req[q].pc = "write" /\ req'[q].pc = "held"
               /\ req'[q].replied = req[q].replied /\ req'[q].sent = Append(req[q].sent, req[q].to)
<1>1. req \in [ServerReqs -> ReqStates]
  BY FnTypes
<1>2. CASE Reply(q)
  BY <1>1, <1>2 DEF Reply, ReqStates
<1>3. CASE Send(q)
  <2>1. /\ req' = [req EXCEPT ![q].pc = "write", ![q].to = conn]
        /\ req[q].pc = "send" /\ Current(req[q].sid) /\ conn # NoConn
    BY <1>3 DEF Send
  <2> QED
    BY <1>1, <2>1 DEF ReqStates
<1>4. CASE SendRefused(q) \/ SendWriteFails(q)
  BY <1>1, <1>4 DEF SendRefused, SendWriteFails, RequestGoes, ReqStates
<1>5. CASE SendWrite(q)
  <2>1. /\ req' = [req EXCEPT ![q].pc = "held", ![q].sent = Append(req[q].sent, req[q].to)]
        /\ req[q].pc = "write"
    BY <1>1, <1>5 DEF SendWrite
  <2> QED
    BY <1>1, <2>1 DEF ReqStates
<1> QED
  BY <1>2, <1>3, <1>4, <1>5 DEF RequestMoves

\* ... and when the server sends it, the read loop queues it, a consumer takes it.
LEMMA SentFields ==
  ASSUME TypeOK, NEW k \in Conns, NEW q \in ServerReqs, ServerRequests(k, q)
  PROVE  /\ \A p \in ServerReqs \ {q} : req'[p] = req[p]
         /\ req[q].pc = "unsent" /\ req'[q].pc = "wire" /\ req'[q].conn = k
         /\ req'[q].replied = req[q].replied /\ req'[q].sent = req[q].sent
<1>1. req \in [ServerReqs -> ReqStates]
  BY FnTypes
<1>2. req' = [req EXCEPT ![q].pc = "wire", ![q].conn = k] /\ req[q].pc = "unsent"
  BY DEF ServerRequests
<1> QED
  BY <1>1, <1>2 DEF ReqStates

LEMMA QueuedFields ==
  ASSUME TypeOK, NEW k \in Conns, LoopPushRequest(k)
  PROVE  \E p \in ServerReqs :
           /\ InLoop(p, k) /\ loop[k].pc = "push"
           /\ \A q \in ServerReqs \ {p} : req'[q] = req[q]
           /\ req'[p].pc = "queued" /\ req'[p].sid = loop[k].sid /\ req'[p].conn = req[p].conn
           /\ req'[p].replied = req[p].replied /\ req'[p].sent = req[p].sent
<1>1. req \in [ServerReqs -> ReqStates] /\ loop \in [Conns -> LoopStates]
  BY FnTypes
<1>2. loop[k].msg \in Messages
  BY <1>1 DEF LoopStates
<1>3. loop[k].msg.req \in ServerReqs
  BY <1>2, MessageFields DEF LoopPushRequest
<1>4. /\ loop[k].pc = "push" /\ InLoop(loop[k].msg.req, k)
      /\ req' = [req EXCEPT ![loop[k].msg.req].pc = "queued", ![loop[k].msg.req].sid = loop[k].sid]
  BY DEF LoopPushRequest, InLoop
<1> WITNESS loop[k].msg.req \in ServerReqs
<1> QED
  BY <1>1, <1>3, <1>4 DEF ReqStates

LEMMA HeldFields ==
  ASSUME TypeOK, TakeRequest
  PROVE  \E p \in ServerReqs :
           /\ \A q \in ServerReqs \ {p} : req'[q] = req[q]
           /\ \E i \in 1..Len(requests) : requests[i] = p
           /\ req'[p].pc = "held" /\ req'[p].sid = req[p].sid /\ req'[p].conn = req[p].conn
           /\ req'[p].replied = req[p].replied /\ req'[p].sent = req[p].sent
<1>1. req \in [ServerReqs -> ReqStates] /\ requests \in Seq(ServerReqs)
  BY FnTypes
<1>2. requests # <<>> /\ req' = [req EXCEPT ![Head(requests)].pc = "held"]
  BY DEF TakeRequest
<1>3. Head(requests) = requests[1] /\ 1 \in 1..Len(requests) /\ requests[1] \in ServerReqs
  BY <1>1, <1>2, TailItems
<1> DEFINE p == requests[1]
<1>4. req' = [req EXCEPT ![p].pc = "held"] /\ p \in ServerReqs
  BY <1>2, <1>3
<1>5. \E i \in 1..Len(requests) : requests[i] = p
  BY <1>3
<1> HIDE DEF p
<1>6. /\ \A q \in ServerReqs \ {p} : req'[q] = req[q]
      /\ req'[p].pc = "held" /\ req'[p].sid = req[p].sid /\ req'[p].conn = req[p].conn
      /\ req'[p].replied = req[p].replied /\ req'[p].sent = req[p].sent
  BY <1>1, <1>4 DEF ReqStates
<1> QED
  BY <1>4, <1>5, <1>6

LEMMA PlaceStep ==
  ASSUME IInv, Idle, OnePlace, [Next]_vars
  PROVE  OnePlace'
<1>1. TypeOK
  BY DEF IInv
<1>2. ASSUME SameInboxes, UNCHANGED <<requests, req>>,
             \A k \in Conns : loop'[k].msg = loop[k].msg \/ loop'[k].msg = Note
      PROVE  OnePlace'
  BY <1>2, PlaceFrame
<1>3. CASE \E c \in Calls : CallMoves(c)
  BY <1>1, <1>2, <1>3, CallFrame, InboxesStay
<1>4. CASE CloseLocked \/ CloseFinish
  <2>1. UNCHANGED <<requests, req, loop>>
    BY <1>4 DEF CloseLocked, CloseFinish, queues
  <2> QED
    BY <1>1, <1>2, <1>4, <2>1, InboxesStay
<1>5. ASSUME NEW r \in Reconnectors, DialMoves(r) PROVE OnePlace'
  BY <1>1, <1>2, <1>5, DialFrame, InboxesStay
<1>6. ASSUME NEW r \in Reconnectors, ReconnectInstall(r) PROVE OnePlace'
  <2>1. UNCHANGED <<requests, req>>
    BY <1>6 DEF ReconnectInstall, queues
  <2> QED
    BY <1>1, <1>2, <1>6, <2>1, InboxesStay, InstallLoops
<1>7. ASSUME NEW r \in Reconnectors, ReconnectFinish(r) PROVE OnePlace'
  <2>1. UNCHANGED <<requests, req>>
    BY <1>7 DEF ReconnectFinish, queues
  <2> QED
    BY <1>1, <1>2, <1>7, <2>1, InboxesStay, FinishLoops
<1>8. ASSUME NEW k \in Conns, QuietLoop(k) PROVE OnePlace'
  <2>1. CASE OtherLoop(k)
    BY <1>1, <1>2, <2>1, OtherLoopFields DEF SameInboxes
  <2> QED
    BY <1>1, <1>8, <2>1, PlaceDecode, PlacePush DEF QuietLoop, OtherLoop
<1>9. ASSUME NEW k \in Conns, HandleSessionEnd(k) PROVE OnePlace'
  <2>1. UNCHANGED <<requests, req, wire>>
    BY <1>1, <1>9, EndLoops
  <2>2. \A j \in Conns : loop'[j].msg = loop[j].msg \/ loop'[j].msg = Note
    BY <1>1, <1>9, EndLoops
  <2> QED
    BY <1>2, <2>1, <2>2 DEF SameInboxes
<1>10. ASSUME NEW k \in Conns, LoopFlush(k) PROVE OnePlace'
  BY <1>1, <1>2, <1>10, FlushLoops DEF SameInboxes
<1>11. ASSUME NEW k \in Conns, ServerStep(k) PROVE OnePlace'
  <2>1. CASE ServerDrops(k) /\ UNCHANGED req
    BY <1>1, <1>2, <1>11, <2>1, ServerFrame, InboxesStay
  <2>2. ASSUME NEW m \in Messages, ServerSends(k, m), m.kind # "request", UNCHANGED req
        PROVE  OnePlace'
    BY <1>1, <2>2, PlaceSends
  <2>3. ASSUME NEW q \in ServerReqs, ServerRequests(k, q) PROVE OnePlace'
    <3> DEFINE m == Message("request", 0, None, q)
    <3>1. m \in Messages /\ ServerSends(k, m)
      BY <2>3, ValueTypes DEF ServerRequests
    <3>2. m.kind = "request" /\ m.req = q
      BY DEF Message
    <3>3. /\ req[q].pc = "unsent" /\ \A p \in ServerReqs \ {q} : req'[p] = req[p]
          /\ req'[q].pc = "wire" /\ req'[q].conn = k
      BY <1>1, <2>3, SentFields
    <3> HIDE DEF m
    <3> QED
      BY <1>1, <3>1, <3>2, <3>3, PlaceSends
  <2> QED
    BY <1>1, <1>11, <2>1, <2>2, <2>3, ServerSplit
<1>12. CASE TakeNote
  <2>1. UNCHANGED <<requests, req, wire, loop>>
    BY <1>12 DEF TakeNote, net
  <2> QED
    BY <1>2, <2>1 DEF SameInboxes
<1>13. CASE TakeRequest
  BY <1>1, <1>13, PlaceTake
<1>14. ASSUME NEW q \in ServerReqs, RequestMoves(q) PROVE OnePlace'
  <2>1. \A p \in ServerReqs : req[p].pc \in {"wire", "queued"} => req'[p] = req[p]
    BY <1>1, <1>14, RequestFields
  <2>2. UNCHANGED <<wire, loop, requests>>
    BY <1>14, RequestFrame
  <2> QED
    BY <2>1, <2>2, PlaceFrame DEF SameInboxes
<1>15. CASE UNCHANGED unlocked
  BY <1>2, <1>15 DEF unlocked, queues, net, SameInboxes
<1> QED
  BY <1>3, <1>4, <1>5, <1>6, <1>7, <1>8, <1>9, <1>10, <1>11, <1>12, <1>13, <1>14, <1>15, NextSplit
     DEF Consumes

\* One request's part of Home.
HomeOf(q) ==
  /\ req[q].pc \notin {"unsent", "wire"} =>
       req[q].conn \in Conns /\ req[q].sid = loop[req[q].conn].sid /\ req[q].sid # 0
  /\ req[q].pc = "write" => req[q].to = req[q].conn
  /\ req[q].pc \in {"send", "write"} => req[q].replied
  /\ req[q].pc \in {"unsent", "wire", "queued"} => ~req[q].replied
  /\ ~req[q].replied \/ req[q].pc \in {"send", "write"} => req[q].sent = <<>>

ReplyOf(q) ==
  Len(req[q].sent) <= 1 /\ \A i \in 1..Len(req[q].sent) : req[q].sent[i] = req[q].conn

LEMMA HomeParts ==
  /\ Home <=> \A q \in ServerReqs : HomeOf(q)
  /\ RepliesOnceAtHome <=> \A q \in ServerReqs : ReplyOf(q)
  BY DEF Home, HomeOf, RepliesOnceAtHome, ReplyOf

\* A session number, once given, stays.
SidsStay == \A k \in Conns : loop[k].sid # 0 => loop'[k].sid = loop[k].sid

LEMMA SidsStayStep ==
  ASSUME IInv, Idle, [Next]_vars
  PROVE  SidsStay
<1>1. TypeOK /\ \A r \in Reconnectors : rec[r].pc = "install" => loop[rec[r].conn].sid = 0
  BY DEF IInv, Core, SessionsInv, Dialled
<1>2. CASE UNCHANGED loop
  BY <1>2 DEF SidsStay
<1>3. ASSUME NEW r \in Reconnectors, ReconnectInstall(r) PROVE SidsStay
  BY <1>1, <1>3, InstallLoops, InstallFields DEF SidsStay
<1>4. ASSUME NEW r \in Reconnectors, ReconnectFinish(r) PROVE SidsStay
  BY <1>1, <1>4, FinishLoops DEF SidsStay
<1>5. ASSUME NEW k \in Conns, QuietLoop(k) PROVE SidsStay
  BY <1>1, <1>5, LoopFields DEF SidsStay
<1>6. ASSUME NEW k \in Conns, HandleSessionEnd(k) PROVE SidsStay
  BY <1>1, <1>6, EndLoops DEF SidsStay
<1>7. ASSUME NEW k \in Conns, LoopFlush(k) PROVE SidsStay
  BY <1>1, <1>7, FlushLoops DEF SidsStay
<1>8. CASE CloseLocked \/ CloseFinish
  BY <1>2, <1>8 DEF CloseLocked, CloseFinish
<1> QED
  BY <1>2, <1>3, <1>4, <1>5, <1>6, <1>7, <1>8, NextSplit, CallFrame, DialFrame, ServerFrame,
     ConsumeFrame, RequestFrame DEF unlocked

LEMMA HomeKept ==
  ASSUME SidsStay, NEW q \in ServerReqs, req'[q] = req[q], HomeOf(q), ReplyOf(q)
  PROVE  HomeOf(q)' /\ ReplyOf(q)'
<1>1. HomeOf(q)'
  BY DEF HomeOf, SidsStay
<1>2. ReplyOf(q)'
  BY DEF ReplyOf
<1> QED
  BY <1>1, <1>2

\* The handler replies: once, and to the connection of the request's session,
\* because t.conn is the connection of that session when send reads it.
LEMMA HomeReplies ==
  ASSUME IInv, NEW q \in ServerReqs, RequestMoves(q), HomeOf(q), ReplyOf(q)
  PROVE  HomeOf(q)' /\ ReplyOf(q)'
<1>1. /\ TypeOK /\ conn \in 0..MaxConns /\ MaxConns \in Nat /\ req[q].to \in 0..MaxConns
      /\ conn # NoConn => loop[conn].sid = sessionID
      /\ \A i, j \in Conns : loop[i].sid = loop[j].sid /\ loop[i].sid # 0 => i = j
  <2>1. TypeOK
    BY DEF IInv
  <2>2. req[q].to \in 0..MaxConns
    BY <2>1, FnTypes DEF ReqStates
  <2> QED
    BY <2>1, <2>2, FnTypes, Bounded DEF IInv, Core, SessionsInv
<1>2. loop' = loop
  BY RequestFrame
<1>3. /\ req[q].pc \in {"held", "send", "write"} /\ req'[q].pc \in {"held", "send", "write"}
      /\ req'[q].conn = req[q].conn /\ req'[q].sid = req[q].sid
  BY <1>1, RequestFields
<1>4. req'[q].conn \in Conns /\ req'[q].sid = loop'[req'[q].conn].sid /\ req'[q].sid # 0
  BY <1>2, <1>3 DEF HomeOf
<1>5. CASE /\ req[q].pc = "held" /\ ~req[q].replied /\ req'[q].pc = "send"
           /\ req'[q].replied /\ req'[q].sent = req[q].sent
  <2>1. HomeOf(q)'
    BY <1>4, <1>5 DEF HomeOf
  <2>2. ReplyOf(q)'
    BY <1>3, <1>5 DEF ReplyOf
  <2> QED
    BY <2>1, <2>2
<1>6. CASE /\ req[q].pc = "send" /\ Current(req[q].sid) /\ conn # NoConn
           /\ req'[q].pc = "write" /\ req'[q].to = conn
           /\ req'[q].replied = req[q].replied /\ req'[q].sent = req[q].sent
  <2>1. conn = req[q].conn
    <3>1. conn \in Conns /\ req[q].conn \in Conns
      BY <1>1, <1>3, <1>6 DEF Conns, NoConn, HomeOf
    <3>2. loop[conn].sid = loop[req[q].conn].sid /\ loop[conn].sid # 0
      BY <1>1, <1>3, <1>6 DEF HomeOf, Current
    <3> QED
      BY <1>1, <3>1, <3>2
  <2>2. HomeOf(q)'
    BY <1>3, <1>4, <1>6, <2>1 DEF HomeOf
  <2>3. ReplyOf(q)'
    BY <1>3, <1>6 DEF ReplyOf
  <2> QED
    BY <2>2, <2>3
<1>7. CASE /\ req[q].pc \in {"send", "write"} /\ req'[q].pc = "held"
           /\ req'[q].replied = req[q].replied /\ req'[q].sent = req[q].sent
  <2>1. HomeOf(q)'
    BY <1>4, <1>7 DEF HomeOf
  <2>2. ReplyOf(q)'
    BY <1>3, <1>7 DEF ReplyOf
  <2> QED
    BY <2>1, <2>2
<1>8. CASE /\ req[q].pc = "write" /\ req'[q].pc = "held"
           /\ req'[q].replied = req[q].replied /\ req'[q].sent = Append(req[q].sent, req[q].to)
  <2>1. HomeOf(q)'
    BY <1>4, <1>8 DEF HomeOf
  <2>2. req[q].sent = <<>> /\ req[q].to = req[q].conn
    BY <1>8 DEF HomeOf
  <2>3. Append(<<>>, req[q].to) = <<req[q].to>>
    BY <1>1
  <2>4. req'[q].sent = <<req[q].conn>>
    BY <1>8, <2>2, <2>3
  <2>5. ReplyOf(q)'
    BY <1>3, <2>4 DEF ReplyOf
  <2> QED
    BY <2>1, <2>5
<1> QED
  BY <1>1, <1>5, <1>6, <1>7, <1>8, RequestFields

LEMMA HomeStep ==
  ASSUME IInv, Idle, Started, OnePlace, Home, RepliesOnceAtHome, [Next]_vars
  PROVE  Home' /\ RepliesOnceAtHome'
<1>1. TypeOK /\ SidsStay /\ \A q \in ServerReqs : HomeOf(q) /\ ReplyOf(q)
  BY SidsStayStep, HomeParts DEF IInv
<1> SUFFICES ASSUME NEW q \in ServerReqs PROVE HomeOf(q)' /\ ReplyOf(q)'
  BY DEF Home, HomeOf, RepliesOnceAtHome, ReplyOf
<1>2. CASE req'[q] = req[q]
  BY <1>1, <1>2, HomeKept
<1>3. ASSUME NEW k \in Conns, ServerStep(k) PROVE HomeOf(q)' /\ ReplyOf(q)'
  <2>1. ASSUME NEW p \in ServerReqs, ServerRequests(k, p), req'[q] # req[q]
        PROVE  HomeOf(q)' /\ ReplyOf(q)'
    <3>1. /\ req[q].pc = "unsent" /\ req'[q].pc = "wire"
          /\ req'[q].replied = req[q].replied /\ req'[q].sent = req[q].sent
      BY <1>1, <2>1, SentFields
    <3>2. ~req[q].replied /\ req[q].sent = <<>>
      BY <1>1, <3>1 DEF HomeOf
    <3>3. HomeOf(q)'
      BY <3>1, <3>2 DEF HomeOf
    <3>4. ReplyOf(q)'
      BY <3>1, <3>2 DEF ReplyOf
    <3> QED
      BY <3>3, <3>4
  <2> QED
    BY <1>1, <1>2, <1>3, <2>1, ServerSplit
<1>4. ASSUME NEW k \in Conns, QuietLoop(k) PROVE HomeOf(q)' /\ ReplyOf(q)'
  <2>1. ASSUME LoopPushRequest(k), req'[q] # req[q]
        PROVE  HomeOf(q)' /\ ReplyOf(q)'
    <3>1. /\ InLoop(q, k) /\ loop[k].pc = "push"
          /\ req'[q].pc = "queued" /\ req'[q].sid = loop[k].sid /\ req'[q].conn = req[q].conn
          /\ req'[q].replied = req[q].replied /\ req'[q].sent = req[q].sent
      BY <1>1, <2>1, QueuedFields
    <3>2. req[q].pc = "wire" /\ req[q].conn = k
      BY <3>1 DEF OnePlace
    <3>3. loop[k].sid # 0 /\ loop'[k].sid = loop[k].sid
      BY <1>1, <3>1 DEF Started, SidsStay
    <3>4. ~req[q].replied /\ req[q].sent = <<>>
      BY <1>1, <3>2 DEF HomeOf
    <3>5. HomeOf(q)'
      BY <3>1, <3>2, <3>3, <3>4 DEF HomeOf
    <3>6. ReplyOf(q)'
      BY <3>1, <3>4 DEF ReplyOf
    <3> QED
      BY <3>5, <3>6
  <2>2. CASE LoopDecode(k)
    BY <1>2, <2>2 DEF LoopDecode
  <2>3. CASE OtherLoop(k)
    BY <1>1, <1>2, <2>3, OtherLoopFields
  <2> QED
    BY <1>2, <1>4, <2>1, <2>2, <2>3 DEF QuietLoop, OtherLoop
<1>5. CASE TakeRequest
  <2>1. ASSUME req'[q] # req[q] PROVE HomeOf(q)' /\ ReplyOf(q)'
    <3>1. /\ \E i \in 1..Len(requests) : requests[i] = q
          /\ req'[q].pc = "held" /\ req'[q].sid = req[q].sid /\ req'[q].conn = req[q].conn
          /\ req'[q].replied = req[q].replied /\ req'[q].sent = req[q].sent
      BY <1>1, <1>5, <2>1, HeldFields
    <3>2. req[q].pc = "queued"
      BY <3>1 DEF OnePlace
    <3>3. /\ req[q].conn \in Conns /\ req[q].sid = loop[req[q].conn].sid /\ req[q].sid # 0
          /\ ~req[q].replied /\ req[q].sent = <<>>
      BY <1>1, <3>2 DEF HomeOf
    <3>4. loop'[req[q].conn].sid = req[q].sid
      BY <1>1, <3>3 DEF SidsStay
    <3>5. HomeOf(q)'
      BY <3>1, <3>3, <3>4 DEF HomeOf
    <3>6. ReplyOf(q)'
      BY <3>1, <3>3 DEF ReplyOf
    <3> QED
      BY <3>5, <3>6
  <2> QED
    BY <1>2, <2>1
<1>6. ASSUME NEW p \in ServerReqs, RequestMoves(p) PROVE HomeOf(q)' /\ ReplyOf(q)'
  <2>1. CASE p = q
    BY <1>1, <1>6, <2>1, HomeReplies
  <2>2. CASE p # q
    BY <1>1, <1>2, <1>6, <2>2, RequestFields
  <2> QED
    BY <2>1, <2>2
<1>7. CASE UNCHANGED req
  BY <1>2, <1>7
<1>8. CASE CloseLocked \/ CloseFinish \/ TakeNote
  BY <1>7, <1>8 DEF CloseLocked, CloseFinish, TakeNote
<1>9. CASE \E r \in Reconnectors : ReconnectInstall(r) \/ ReconnectFinish(r)
  BY <1>7, <1>9 DEF ReconnectInstall, ReconnectFinish
<1>10. CASE \E k \in Conns : HandleSessionEnd(k) \/ LoopFlush(k)
  BY <1>7, <1>10 DEF HandleSessionEnd, LoopFlush
<1> QED
  BY <1>3, <1>4, <1>5, <1>6, <1>7, <1>8, <1>9, <1>10, NextSplit, CallFrame, DialFrame
     DEF Consumes, unlocked

\* Where a request is, whose session it belongs to, and what was replied.
RequestInv == OnePlace /\ Home /\ RepliesOnceAtHome

\* A server request is in one place, carries the session of the connection it came
\* on, and is replied to at most once (deliverRequest, Request.Reply, send).
THEOREM RequestsInvariant == Spec => []RequestInv
<1>1. Init => RequestInv
  BY PlaceInit DEF RequestInv
<1>2. IInv /\ SessionInv /\ RequestInv /\ [Next]_vars => RequestInv'
  BY PlaceStep, HomeStep DEF RequestInv, SessionInv
<1> QED
  BY <1>1, <1>2, Inductive, SessionsInvariant, PTL DEF Spec

\* At most one reply to a server request is written, and only on the connection
\* the request came on: send reads t.conn and tests the session under one t.mu.
THEOREM RepliesGoHomeOnce == Spec => []RepliesOnceAtHome
<1>1. RequestInv => RepliesOnceAtHome
  BY DEF RequestInv
<1> QED
  BY <1>1, RequestsInvariant, PTL

-----------------------------------------------------------------------------
(* Waiting calls. *)

\* The calls somebody will answer or fail, those whose registration another call
\* has deleted, and the waiters that are one or the other.
Replying == UNION {loop[k].flush : k \in {j \in Conns : loop[j].pc = "reply"}}
InHands == Channels(pending) \cup BeingFailed \cup Replying
Displaced(c) == \E d \in Calls \ {c} : call[d].evicted = c
Reachable(c) == done \/ call[c].ch # Empty \/ c \in InHands \/ Displaced(c)
Waits(c) == call[c].pc \in {"write", "await"}

\* removePending deletes the call's own entry, or that of a call of a later
\* session: its own session is over, and the id has started again.
EvictionOf(d) ==
  /\ call[d].pc = "remove" => call[d].result.kind \in {"ErrWrite", "ctxErr", "ErrClosed"}
  /\ call[d].evicted # None =>
       /\ call[d].pc = "returned" /\ call[d].conn # NoConn
       /\ call[d].evicted # d =>
            call[call[d].evicted].conn # NoConn /\ Evicted(call[d].evicted, d)
Evictions == \A d \in Calls : EvictionOf(d)

Waiting == \A c \in Calls : Waits(c) => Reachable(c)

LEMMA WaiterParts == Evictions /\ Waiting => WaiterReachable
<1> SUFFICES ASSUME Evictions, Waiting, NEW c \in Calls, Waits(c)
             PROVE  \/ done \/ call[c].ch # Empty
                    \/ c \in Channels(pending) \/ c \in BeingFailed
                    \/ \E k \in Conns : loop[k].pc = "reply" /\ c \in loop[k].flush
                    \/ \E d \in Calls : Evicted(c, d)
  BY DEF WaiterReachable, Waits
<1>1. c \in Replying => \E k \in Conns : loop[k].pc = "reply" /\ c \in loop[k].flush
  BY DEF Replying
<1>2. c # None
  BY Bounded
<1>3. Displaced(c) => \E d \in Calls : Evicted(c, d)
  BY <1>2 DEF Displaced, Evictions, EvictionOf
<1> QED
  BY <1>1, <1>3 DEF Waiting, Reachable, InHands

\* A waiter stays reachable if a step keeps what it waits for and the calls
\* that have returned.
CallKept(c) == call'[c].id = call[c].id /\ call'[c].conn = call[c].conn
LEMMA ReachFrame ==
  ASSUME NEW c \in Calls, Reachable(c), done => done',
         call[c].ch # Empty => call'[c].ch # Empty,
         c \in InHands => done' \/ call'[c].ch # Empty \/ c \in InHands' \/ Displaced(c)',
         \A d \in Calls : call[d].evicted = c => call'[d].evicted = c
  PROVE  Reachable(c)'
<1>1. Displaced(c) => Displaced(c)'
  BY DEF Displaced
<1> QED
  BY <1>1 DEF Reachable

LEMMA SameCalls ==
  ASSUME NEW c \in Calls, Reachable(c), UNCHANGED call, done => done',
         c \in InHands => done' \/ c \in InHands'
  PROVE  Reachable(c)'
  BY ReachFrame

LEMMA HandsSame ==
  ASSUME UNCHANGED <<pending, loop, closer>>,
         \A r \in Reconnectors : rec'[r].flush = rec[r].flush
  PROVE  InHands' = InHands
<1>1. Replying' = Replying
  BY DEF Replying
<1>2. BeingFailed' = BeingFailed
  BY DEF BeingFailed
<1> QED
  BY <1>1, <1>2 DEF InHands

\* What a Call does to itself, and to the others.
LEMMA CallEffect ==
  ASSUME TypeOK, NEW d \in Calls, CallMoves(d)
  PROVE  /\ \A c \in Calls \ {d} : call'[c] = call[c]
         /\ call[d].pc # "returned"
         /\ \/ /\ call'[d].pc = "returned" \/ (call'[d].pc = "remove" /\ Waits(d))
               /\ CallKept(d)
            \/ CallRegister(d) /\ call'[d].pc = "write" /\ call'[d].conn = conn
            \/ CallWrite(d) /\ call[d].pc = "write" /\ CallKept(d) /\ call'[d].ch = call[d].ch
         /\ \/ pending' = pending \/ CallRegister(d) \/ RemovePending(d)
         /\ call'[d].evicted = call[d].evicted \/ RemovePending(d)
<1>1. call \in [Calls -> CallStates]
  BY FnTypes
<1>2. CASE CallRefused(d)
  <2>1. PICK err : call' = [call EXCEPT ![d].pc = "returned", ![d].result = Outcome(err, None)]
    BY <1>2 DEF CallRefused
  <2>2. pending' = pending /\ call[d].pc = "start"
    BY <1>2 DEF CallRefused, transport
  <2> QED
    BY <1>1, <2>1, <2>2 DEF CallStates, CallKept
<1>3. CASE CallRegister(d)
  <2>1. /\ call' = [call EXCEPT ![d].pc = "write", ![d].id = nextID + 1, ![d].conn = conn]
        /\ call[d].pc = "start"
    BY <1>3 DEF CallRegister
  <2> QED
    BY <1>1, <1>3, <2>1 DEF CallStates
<1>4. CASE CallWriteFails(d) \/ CallCancelled(d) \/ CallSeesDone(d)
  <2>1. PICK err : CallFails(d, err)
    BY <1>4 DEF CallWriteFails, CallCancelled, CallSeesDone
  <2>2. pending' = pending /\ Waits(d)
    BY <1>4, <2>1 DEF CallWriteFails, CallCancelled, CallSeesDone, CallFails, transport, Waits
  <2> QED
    BY <1>1, <2>1, <2>2 DEF CallFails, CallStates, CallKept, Waits
<1>5. CASE CallWrite(d)
  BY <1>1, <1>5 DEF CallWrite, CallStates, CallKept, transport
<1>6. CASE CallGetsReply(d)
  <2> DEFINE half == [call EXCEPT ![d].pc = "returned", ![d].result = call[d].ch]
  <2>1. /\ call' = [half EXCEPT ![d].ch = Empty] /\ pending' = pending /\ call[d].pc = "await"
    BY <1>6 DEF CallGetsReply, transport
  <2>2. /\ half \in [Calls -> CallStates] /\ half[d].pc = "returned"
        /\ half[d].id = call[d].id /\ half[d].conn = call[d].conn
        /\ half[d].evicted = call[d].evicted
        /\ \A c \in Calls \ {d} : half[c] = call[c]
    BY <1>1 DEF CallStates
  <2> HIDE DEF half
  <2> QED
    BY <2>1, <2>2 DEF CallStates, CallKept
<1>7. CASE RemovePending(d)
  <2>1. PICK e : call' = [call EXCEPT ![d].pc = "returned", ![d].evicted = e]
    BY <1>7 DEF RemovePending
  <2>2. call[d].pc = "remove"
    BY <1>7 DEF RemovePending
  <2> QED
    BY <1>1, <1>7, <2>1, <2>2 DEF CallStates, CallKept
<1> QED
  BY <1>2, <1>3, <1>4, <1>5, <1>6, <1>7 DEF CallMoves, CallStep

LEMMA RegisteredInit == Init => Registered
  BY DEF Init, Registered

\* The calls a goroutine fails, or answers, keep all but their reply channel.
LEMMA ReplyEffect ==
  ASSUME TypeOK, NEW k \in Conns, QuietLoop(k)
  PROVE  \A c \in Calls : /\ CallKept(c) /\ call'[c].pc = call[c].pc
                           /\ call'[c].result = call[c].result
                           /\ call'[c].evicted = call[c].evicted
<1>1. call \in [Calls -> CallStates]
  BY FnTypes
<1>2. CASE UNCHANGED call
  BY <1>2 DEF CallKept
<1>3. CASE LoopReply(k) /\ ~UNCHANGED call
  <2>1. call' = [c \in Calls |->
                      IF c \in loop[k].flush
                      THEN [call[c] EXCEPT !.ch = Outcome("response", loop[k].msg.of)]
                      ELSE call[c]]
    BY <1>3 DEF LoopReply
  <2> QED
    BY <1>1, <2>1 DEF CallStates, CallKept
<1> QED
  BY <1>2, <1>3 DEF QuietLoop, LoopDecode, LoopDecodeFails, LoopStale, DeliverResponse,
     DeliverInbound, LoopPushRequest, LoopPushNote, LoopPushDone, LoopRejects, LoopGoes

LEMMA RegisteredStep ==
  ASSUME TypeOK, Registered, [Next]_vars
  PROVE  Registered'
<1>1. ASSUME \A c \in Calls : CallKept(c) /\ call'[c].pc = call[c].pc PROVE Registered'
  BY <1>1 DEF Registered, CallKept
<1>2. CASE UNCHANGED call
  BY <1>2 DEF Registered
<1>3. ASSUME NEW d \in Calls, CallMoves(d) PROVE Registered'
  <2>1. CallRegister(d) => conn # NoConn
    BY DEF CallRegister
  <2>2. call'[d].pc \in {"write", "await", "remove"} => call'[d].conn # NoConn
    BY <1>3, <2>1, CallEffect DEF Registered, CallKept, Waits
  <2> QED
    BY <1>3, <2>2, CallEffect DEF Registered
<1>4. ASSUME NEW S, NEW err, call' = Flushed(S, err) PROVE Registered'
  BY <1>1, <1>4, FlushedFields DEF CallKept
<1>5. CASE CloseLocked \/ CloseFinish
  BY <1>2, <1>4, <1>5 DEF CloseLocked, CloseFinish
<1>6. CASE \E r \in Reconnectors : ReconnectInstall(r) \/ ReconnectFinish(r)
  BY <1>2, <1>4, <1>6 DEF ReconnectInstall, ReconnectFinish
<1>7. CASE \E k \in Conns : HandleSessionEnd(k) \/ LoopFlush(k)
  BY <1>2, <1>4, <1>7 DEF HandleSessionEnd, LoopFlush
<1>8. CASE \E k \in Conns : QuietLoop(k)
  BY <1>1, <1>8, ReplyEffect
<1> QED
  BY <1>2, <1>3, <1>5, <1>6, <1>7, <1>8, NextSplit, DialFrame, ServerFrame, ConsumeFrame,
     RequestFrame DEF unlocked

\* The calls of Call.  Registering takes an id no waiter is registered under;
\* removePending takes out its own entry or, if the ids have started again, that
\* of a call on another connection.
LEMMA WaiterCall ==
  ASSUME IInv, Registered, Evictions, Waiting, NEW d \in Calls, CallMoves(d)
  PROVE  Waiting'
<1>1. /\ TypeOK /\ nextID \in Nat /\ \A i \in DOMAIN pending : pending[i] \in Calls
      /\ \A i \in DOMAIN pending : i \in Nat
      /\ \A c \in Calls : Waits(c) => Reachable(c)
      /\ \A c \in Calls \ {d} : call'[c] = call[c]
      /\ call[d].pc # "returned" /\ UNCHANGED <<done, loop, rec, closer>>
  <2>1. TypeOK
    BY DEF IInv
  <2>2. \A i \in DOMAIN pending : i \in Nat
    BY <2>1 DEF TypeOK
  <2> QED
    BY <2>1, <2>2, TypeFacts, CallEffect, CallFrame DEF Waiting
<1>2. BeingFailed' = BeingFailed /\ Replying' = Replying
  BY <1>1 DEF BeingFailed, Replying
<1>3. \A i \in DOMAIN pending : call[pending[i]].id = i /\ call[pending[i]].id <= nextID
                                /\ call[pending[i]].conn # NoConn
  BY <1>1 DEF IInv, Core, PendingIsLive, CallsInv
<1>4. ASSUME NEW c \in Calls, c # d, c \in Channels(pending)
      PROVE  c \in Channels(pending') \/ Displaced(c)'
  <2>1. PICK i \in DOMAIN pending : pending[i] = c
    BY <1>4 DEF Channels
  <2>2. CASE pending' = pending
    BY <1>4, <2>2
  <2>3. CASE CallRegister(d)
    <3>1. pending' = With(pending, nextID + 1, d)
      BY <2>3 DEF CallRegister
    <3>2. i # nextID + 1
      BY <1>1, <1>3
    <3>3. i \in DOMAIN pending' /\ pending'[i] = c
      BY <2>1, <3>1, <3>2 DEF With
    <3> QED
      BY <3>3 DEF Channels
  <2>4. CASE RemovePending(d)
    <3>1. pending' = Without(pending, call[d].id) /\ call[d].pc = "remove"
      BY <2>4 DEF RemovePending
    <3>2. CASE i # call[d].id
      <4>1. i \in DOMAIN pending' /\ pending'[i] = c
        BY <2>1, <3>1, <3>2 DEF Without
      <4> QED
        BY <4>1 DEF Channels
    <3>3. CASE i = call[d].id
      <4>1. call' = [call EXCEPT ![d].pc = "returned", ![d].evicted = pending[call[d].id]]
        BY <2>4, <3>3 DEF RemovePending
      <4>2. call'[d].evicted = c
        BY <1>1, <2>1, <3>3, <4>1, FnTypes DEF CallStates
      <4> QED
        BY <1>4, <4>2 DEF Displaced
    <3> QED
      BY <3>2, <3>3
  <2> QED
    BY <1>1, <2>2, <2>3, <2>4, CallEffect
<1>7. \A e, c \in Calls : call[e].evicted = c => call'[e].evicted = c
  <2>1. call[d].evicted = None
    BY <1>1 DEF Evictions, EvictionOf
  <2> QED
    BY <1>1, <2>1, Bounded
<1>5. ASSUME NEW c \in Calls, c # d, Waits(c)' PROVE Reachable(c)'
  <2>1. Reachable(c) /\ call'[c] = call[c]
    BY <1>1, <1>5 DEF Waits
  <2>2. c \in InHands => c \in InHands' \/ Displaced(c)'
    BY <1>2, <1>4, <1>5 DEF InHands
  <2>3. \A e \in Calls : call[e].evicted = c => call'[e].evicted = c
    BY <1>1, <1>7
  <2> QED
    BY <1>1, <2>1, <2>2, <2>3, ReachFrame
<1>6. ASSUME Waits(d)' PROVE Reachable(d)'
  <2>1. CASE CallRegister(d)
    <3>1. nextID + 1 \in DOMAIN pending' /\ pending'[nextID + 1] = d
      BY <2>1 DEF CallRegister, With
    <3> QED
      BY <3>1 DEF Reachable, InHands, Channels
  <2>2. CASE CallWrite(d) /\ Waits(d) /\ CallKept(d) /\ call'[d].ch = call[d].ch
    <3>1. Reachable(d) /\ pending' = pending
      BY <1>1, <2>2 DEF CallWrite, transport
    <3>2. InHands' = InHands
      BY <1>2, <3>1 DEF InHands
    <3>3. \A e \in Calls : call[e].evicted = d => call'[e].evicted = d
      BY <1>1, <1>7
    <3> QED
      BY <1>1, <2>2, <3>1, <3>2, <3>3, ReachFrame
  <2> QED
    BY <1>1, <1>6, <2>1, <2>2, CallEffect DEF Waits
<1> QED
  BY <1>5, <1>6 DEF Waiting

\* A read loop that answers: it holds what deliverResponse has taken out, and
\* sends it.
LEMMA WaiterLoop ==
  ASSUME IInv, NEW c \in Calls, Reachable(c), NEW k \in Conns, QuietLoop(k)
  PROVE  Reachable(c)'
<1>1. /\ TypeOK /\ UNCHANGED <<done, rec, closer>>
      /\ \A j \in Conns \ {k} : loop'[j] = loop[j]
      /\ loop[k].pc # "flush" /\ loop'[k].pc # "flush"
      /\ loop \in [Conns -> LoopStates] /\ call \in [Calls -> CallStates]
  BY QuietLoopFrame, LoopFields, FnTypes DEF IInv
<1>2. BeingFailed' = BeingFailed
  BY <1>1 DEF BeingFailed
<1>3. loop[k].pc # "reply" => Replying \subseteq Replying'
  BY <1>1 DEF Replying
<1>4. CASE LoopReply(k)
  <2>1. loop[k].pc = "reply" /\ pending' = pending
    BY <1>4 DEF LoopReply, transport
  <2>2. c \in Replying => c \in Replying' \/ c \in loop[k].flush
    BY <1>1 DEF Replying
  <2>3. CASE done
    BY <1>1, <2>3 DEF Reachable
  <2>4. CASE call' = [d \in Calls |->
                      IF d \in loop[k].flush
                      THEN [call[d] EXCEPT !.ch = Outcome("response", loop[k].msg.of)]
                      ELSE call[d]]
    <3>1. Outcome("response", loop[k].msg.of) # Empty
      BY DEF Outcome, Empty
    <3>2. \A d \in Calls : /\ d \in loop[k].flush => call'[d].ch # Empty
                           /\ call'[d].evicted = call[d].evicted
                           /\ d \notin loop[k].flush => call'[d] = call[d]
      BY <1>1, <2>4, <3>1 DEF CallStates
    <3>3. c \in InHands => call'[c].ch # Empty \/ c \in InHands'
      BY <1>2, <2>1, <2>2, <3>2 DEF InHands
    <3>4. call[c].ch # Empty => call'[c].ch # Empty
      BY <3>2
    <3> QED
      BY <1>1, <3>2, <3>3, <3>4, ReachFrame
  <2> QED
    BY <1>4, <2>3, <2>4 DEF LoopReply
<1>5. CASE DeliverResponse(k)
  <2>1. UNCHANGED call /\ loop[k].pc = "dispatch"
    BY <1>5 DEF DeliverResponse
  <2>2. c \in Channels(pending) => c \in Channels(pending') \/ c \in Replying'
    <3>1. CASE pending' = pending
      BY <3>1
    <3>2. CASE pending' # pending
      <4>1. /\ loop' = [loop EXCEPT ![k].pc = "reply", ![k].flush = {pending[loop[k].msg.id]}]
            /\ pending' = Without(pending, loop[k].msg.id)
        BY <1>5, <3>2 DEF DeliverResponse
      <4>2. loop'[k].pc = "reply" /\ loop'[k].flush = {pending[loop[k].msg.id]}
        BY <1>1, <4>1 DEF LoopStates
      <4>3. pending[loop[k].msg.id] \in Replying'
        BY <4>2 DEF Replying
      <4>4. ASSUME NEW i \in DOMAIN pending, i # loop[k].msg.id
            PROVE  i \in DOMAIN pending' /\ pending'[i] = pending[i]
        BY <4>1, <4>4 DEF Without
      <4> QED
        BY <4>3, <4>4 DEF Channels
    <3> QED
      BY <3>1, <3>2
  <2>3. c \in InHands => c \in InHands'
    BY <1>2, <1>3, <2>1, <2>2 DEF InHands
  <2> QED
    BY <1>1, <2>1, <2>3, SameCalls
<1>6. CASE ~LoopReply(k) /\ ~DeliverResponse(k)
  <2>1. UNCHANGED <<call, pending>> /\ loop[k].pc # "reply"
    BY <1>6 DEF QuietLoop, LoopDecode, LoopDecodeFails, LoopStale, DeliverInbound,
       LoopPushRequest, LoopPushNote, LoopPushDone, LoopRejects, LoopGoes, transport
  <2>2. c \in InHands => c \in InHands'
    BY <1>2, <1>3, <2>1 DEF InHands
  <2> QED
    BY <1>1, <2>1, <2>2, SameCalls
<1> QED
  BY <1>4, <1>5, <1>6

\* A goroutine that has sent its error on the channels it took.
LEMMA WaiterFlushed ==
  ASSUME TypeOK, NEW c \in Calls, Reachable(c), NEW S,
         NEW err \in {"ErrClosed", "ErrDisconnected"}, call' = Flushed(S, err), done => done',
         c \in InHands => done' \/ c \in InHands' \/ c \in S
  PROVE  Reachable(c)'
<1>1. \A d \in Calls : call'[d].evicted = call[d].evicted
  BY FlushedFields
<1>2. Outcome(err, None) # Empty
  BY DEF Outcome, Empty
<1>3. call[c].ch # Empty \/ c \in S => call'[c].ch # Empty
  <2>1. call \in [Calls -> CallStates]
    BY FnTypes
  <2> QED
    BY <1>2, <2>1 DEF Flushed, CallStates
<1> QED
  BY <1>1, <1>3, ReachFrame

\* The goroutines that take the map, and those that give it back.
LEMMA WaiterTaken ==
  ASSUME IInv, Idle, NEW c \in Calls, Reachable(c),
         \/ CloseLocked \/ CloseFinish
         \/ \E r \in Reconnectors : DialMoves(r) \/ ReconnectInstall(r) \/ ReconnectFinish(r)
         \/ \E k \in Conns : HandleSessionEnd(k) \/ LoopFlush(k)
  PROVE  Reachable(c)'
<1>1. /\ TypeOK /\ rec \in [Reconnectors -> RecStates]
      /\ \A r \in Reconnectors : rec[r].pc = "finish" =>
           rec[r].conn \in Conns /\ loop[rec[r].conn].pc = "none"
  BY FnTypes DEF IInv, Core, SessionsInv, Dialled
<1>2. CASE CloseLocked
  <2>1. /\ UNCHANGED <<call, done, loop, rec>> /\ closer.flush = {}
        /\ closer'.flush = Channels(pending)
    BY <1>2 DEF CloseLocked, Idle
  <2>2. BeingFailed \subseteq BeingFailed' /\ Channels(pending) \subseteq BeingFailed'
    BY <2>1 DEF BeingFailed
  <2>3. Replying' = Replying
    BY <2>1 DEF Replying
  <2> QED
    BY <2>1, <2>2, <2>3, SameCalls DEF InHands
<1>3. CASE CloseFinish
  BY <1>3 DEF CloseFinish, Reachable
<1>4. ASSUME NEW r \in Reconnectors, DialMoves(r) PROVE Reachable(c)'
  <2>1. UNCHANGED <<call, done, pending, loop, closer>>
    BY <1>4, DialFrame
  <2>2. \A s \in Reconnectors : rec'[s].flush = rec[s].flush
    BY <1>1, <1>4, DialFields DEF Idle
  <2> QED
    BY <2>1, <2>2, HandsSame, SameCalls
<1>5. ASSUME NEW r \in Reconnectors, ReconnectInstall(r) PROVE Reachable(c)'
  <2>1. UNCHANGED <<call, done, closer>> /\ rec[r].flush = {}
    BY <1>5 DEF ReconnectInstall, Idle
  <2>2. \A s \in Reconnectors : s # r => rec'[s] = rec[s]
    BY <1>1, <1>5, InstallFields
  <2>3. rec'[r].flush = Channels(pending)
    BY <1>1, <1>5, InstallFields
  <2>4. \A k \in Conns : loop'[k].pc = loop[k].pc /\ loop'[k].flush = loop[k].flush
    BY <1>1, <1>5, InstallLoops
  <2>5. Replying' = Replying
    BY <2>4 DEF Replying
  <2>6. (UNION {loop[k].flush : k \in {j \in Conns : loop[j].pc = "flush"}})'
          = UNION {loop[k].flush : k \in {j \in Conns : loop[j].pc = "flush"}}
    BY <2>4
  <2>7. Channels(pending) \subseteq UNION {rec'[s].flush : s \in Reconnectors}
    BY <2>3
  <2>8. UNION {rec[s].flush : s \in Reconnectors} \subseteq UNION {rec'[s].flush : s \in Reconnectors}
    BY <2>1, <2>2
  <2>9. BeingFailed \subseteq BeingFailed' /\ Channels(pending) \subseteq BeingFailed'
    BY <2>1, <2>6, <2>7, <2>8 DEF BeingFailed
  <2> QED
    BY <2>1, <2>5, <2>9, SameCalls DEF InHands
<1>6. ASSUME NEW r \in Reconnectors, ReconnectFinish(r) PROVE Reachable(c)'
  <2>1. /\ UNCHANGED <<done, closer, pending>> /\ rec[r].pc = "finish" /\ ReconnectReturns(r)
        /\ call' = Flushed(rec[r].flush, "ErrDisconnected")
    BY <1>6 DEF ReconnectFinish, transport
  <2>2. \A s \in Reconnectors : s # r => rec'[s] = rec[s]
    BY <1>1, <2>1, ReturnFields
  <2>3. \A k \in Conns : loop[k].pc \in {"flush", "reply"} => loop'[k] = loop[k]
    BY <1>1, <1>6, <2>1, FinishLoops
  <2>4. Replying \subseteq Replying'
    BY <2>3 DEF Replying
  <2>5. c \in BeingFailed => c \in BeingFailed' \/ c \in rec[r].flush
    BY <2>1, <2>2, <2>3 DEF BeingFailed
  <2> QED
    BY <1>1, <2>1, <2>4, <2>5, WaiterFlushed DEF InHands
<1>7. ASSUME NEW k \in Conns, HandleSessionEnd(k) PROVE Reachable(c)'
  <2>1. /\ UNCHANGED <<done, closer, call, rec>> /\ loop[k].pc = "sessionEnd"
        /\ \A j \in Conns \ {k} : loop'[j] = loop[j]
    BY <1>1, <1>7, EndLoops
  <2>2. Replying \subseteq Replying' /\ BeingFailed \subseteq BeingFailed'
    BY <2>1 DEF Replying, BeingFailed
  <2>3. \/ loop'[k].pc = "flush" /\ loop'[k].flush = Channels(pending)
        \/ pending' = pending
    BY <1>1, <1>7, EndLoops
  <2>4. c \in Channels(pending) => c \in BeingFailed' \/ pending' = pending
    BY <2>3 DEF BeingFailed
  <2> QED
    BY <2>1, <2>2, <2>4, SameCalls DEF InHands
<1>8. ASSUME NEW k \in Conns, LoopFlush(k) PROVE Reachable(c)'
  <2>1. /\ UNCHANGED <<done, closer, rec, pending>> /\ loop[k].pc = "flush"
        /\ \A j \in Conns \ {k} : loop'[j] = loop[j]
        /\ call' = Flushed(loop[k].flush, "ErrDisconnected")
    BY <1>1, <1>8, FlushLoops
  <2>2. Replying \subseteq Replying'
    BY <2>1 DEF Replying
  <2>3. c \in BeingFailed => c \in BeingFailed' \/ c \in loop[k].flush
    BY <2>1 DEF BeingFailed
  <2> QED
    BY <1>1, <2>1, <2>2, <2>3, WaiterFlushed DEF InHands
<1> QED
  BY <1>2, <1>3, <1>4, <1>5, <1>6, <1>7, <1>8

LEMMA WaiterStep ==
  ASSUME IInv, Idle, Registered, Evictions, Waiting, [Next]_vars
  PROVE  Waiting'
<1>1. TypeOK /\ \A c \in Calls : Waits(c) => Reachable(c)
  BY DEF IInv, Waiting
<1>2. CASE \E d \in Calls : CallMoves(d)
  BY <1>2, WaiterCall
<1>3. CASE ~\E d \in Calls : CallMoves(d)
  <2>1. \A c \in Calls : call'[c].pc = call[c].pc
    <3>1. CASE UNCHANGED call
      BY <3>1
    <3>2. ASSUME NEW S, NEW err, call' = Flushed(S, err)
          PROVE  \A c \in Calls : call'[c].pc = call[c].pc
      BY <1>1, <3>2, FlushedFields
    <3>3. CASE CloseLocked \/ CloseFinish
      BY <3>1, <3>2, <3>3 DEF CloseLocked, CloseFinish
    <3>4. CASE \E r \in Reconnectors : ReconnectInstall(r) \/ ReconnectFinish(r)
      BY <3>1, <3>2, <3>4 DEF ReconnectInstall, ReconnectFinish
    <3>5. CASE \E k \in Conns : HandleSessionEnd(k) \/ LoopFlush(k)
      BY <3>1, <3>2, <3>5 DEF HandleSessionEnd, LoopFlush
    <3>6. CASE \E k \in Conns : QuietLoop(k)
      BY <1>1, <3>6, ReplyEffect
    <3> QED
      BY <1>3, <3>1, <3>3, <3>4, <3>5, <3>6, NextSplit, DialFrame, ServerFrame, ConsumeFrame,
         RequestFrame DEF unlocked
  <2>2. ASSUME NEW c \in Calls, Waits(c)' PROVE Reachable(c)'
    <3>1. Reachable(c)
      BY <1>1, <2>1, <2>2 DEF Waits
    <3>2. CASE UNCHANGED <<call, done, pending, loop, rec, closer>>
      BY <3>1, <3>2, HandsSame, SameCalls
    <3>3. CASE Consumes \/ (\E k \in Conns : ServerStep(k)) \/ (\E q \in ServerReqs : RequestMoves(q))
      BY <3>2, <3>3, ServerFrame, ConsumeFrame, RequestFrame
    <3>4. CASE UNCHANGED unlocked
      BY <3>2, <3>4 DEF unlocked, transport
    <3> QED
      BY <1>3, <3>1, <3>3, <3>4, NextSplit, WaiterTaken, WaiterLoop
  <2> QED
    BY <2>2 DEF Waiting
<1> QED
  BY <1>2, <1>3

\* What a call that has returned evicted, or may yet evict, stays as it was: its
\* fields, and the session numbers of the two connections.
LEMMA EvictionFrame ==
  ASSUME TypeOK, CallsInv, SidsStay, Evictions, NEW d \in Calls, CallKept(d),
         call'[d].pc = call[d].pc, call'[d].result = call[d].result,
         call'[d].evicted = call[d].evicted,
         \A c \in Calls : call[c].conn # NoConn => CallKept(c)
  PROVE  EvictionOf(d)'
<1>1. call[d].pc = "remove" => call[d].result.kind \in {"ErrWrite", "ctxErr", "ErrClosed"}
  BY DEF Evictions, EvictionOf
<1>2. CASE call[d].evicted # None
  <2> DEFINE e == call[d].evicted
  <2>1. /\ e \in Calls /\ call[d].pc = "returned" /\ call[d].conn # NoConn
        /\ \A c \in Calls : call[c].conn \in 0..MaxConns
    BY <1>2, FnTypes DEF Evictions, EvictionOf, CallStates
  <2>2. \A c \in Calls : call[c].conn # NoConn =>
          loop'[call[c].conn].sid = loop[call[c].conn].sid
    BY <2>1, Bounded DEF CallsInv, SidsStay, Conns, NoConn
  <2>3. CASE e # d
    <3>1. call[e].conn # NoConn /\ Evicted(e, d)
      BY <1>2, <2>3 DEF Evictions, EvictionOf
    <3>2. call'[e].conn = call[e].conn /\ call'[e].id = call[e].id
      BY <2>1, <3>1 DEF CallKept
    <3>3. Evicted(e, d)'
      BY <2>1, <2>2, <3>1, <3>2 DEF Evicted, CallKept
    <3> QED
      BY <1>1, <2>1, <2>3, <3>1, <3>2, <3>3 DEF EvictionOf, CallKept
  <2> QED
    BY <1>1, <2>1, <2>3 DEF EvictionOf, CallKept
<1>3. CASE call[d].evicted = None
  BY <1>1, <1>3 DEF EvictionOf
<1> QED
  BY <1>2, <1>3

\* removePending deletes an entry of the current session; a call of that session
\* with the same id is the same call.
LEMMA EvictionRemove ==
  ASSUME IInv, Registered, Evictions, NEW d \in Calls, RemovePending(d)
  PROVE  EvictionOf(d)'
<1>1. /\ TypeOK /\ call \in [Calls -> CallStates] /\ MaxConns \in Nat /\ None \notin Calls
      /\ \A c \in Calls : call[c].conn \in 0..MaxConns
      /\ \A k \in Conns : loop[k].sid \in Nat
      /\ \A i \in DOMAIN pending : pending[i] \in Calls
      /\ call[d].pc = "remove" /\ UNCHANGED loop
  <2>1. TypeOK
    BY DEF IInv
  <2> QED
    BY <2>1, FnTypes, TypeFacts, Bounded DEF RemovePending
<1>2. PICK e \in Calls \cup {None} :
        /\ call' = [call EXCEPT ![d].pc = "returned", ![d].evicted = e]
        /\ e # None => call[d].id \in DOMAIN pending /\ pending[call[d].id] = e
  BY <1>1 DEF RemovePending
<1>4. /\ call'[d].pc = "returned" /\ call'[d].evicted = e /\ CallKept(d)
      /\ call'[d].result = call[d].result
      /\ \A c \in Calls \ {d} : call'[c] = call[c]
  BY <1>1, <1>2 DEF CallStates, CallKept
<1>5. /\ call[d].conn # NoConn
      /\ call[d].result.kind \in {"ErrWrite", "ctxErr", "ErrClosed"}
  BY <1>1 DEF Registered, Evictions, EvictionOf
<1>6. CASE e # None /\ e # d
  <2>1. /\ call[e].id = call[d].id /\ call[e].conn = conn /\ conn # NoConn /\ e \in Calls
    BY <1>1, <1>2, <1>6 DEF IInv, Core, PendingIsLive
  <2>2. call[d].conn # call[e].conn
    BY <1>5, <1>6, <2>1 DEF IInv, Core, CallsInv
  <2>3. call[d].conn \in Conns /\ conn \in Conns
    BY <1>1, <1>5, <2>1 DEF Conns, NoConn
  <2>4. loop[call[d].conn].sid # 0
    BY <1>5 DEF IInv, Core, CallsInv
  <2>5. loop[call[d].conn].sid # loop[conn].sid
    BY <2>1, <2>2, <2>3, <2>4 DEF IInv, Core, SessionsInv
  <2>6. loop[call[d].conn].sid <= sessionID /\ loop[conn].sid = sessionID
    BY <2>1, <2>3 DEF IInv, Core, SessionsInv
  <2>7. loop[call[d].conn].sid < loop[conn].sid
    BY <1>1, <2>3, <2>5, <2>6
  <2>8. Evicted(e, d)'
    BY <1>1, <1>4, <1>5, <1>6, <2>1, <2>7 DEF Evicted, CallKept
  <2> QED
    BY <1>4, <1>5, <1>6, <2>1, <2>8 DEF EvictionOf, CallKept
<1>7. CASE e = None \/ e = d
  BY <1>4, <1>5, <1>7 DEF EvictionOf, CallKept
<1> QED
  BY <1>6, <1>7

LEMMA EvictionStep ==
  ASSUME IInv, Idle, Registered, Evictions, [Next]_vars
  PROVE  Evictions'
<1>1. TypeOK /\ CallsInv /\ SidsStay
  BY SidsStayStep DEF IInv, Core
<1>2. ASSUME \A c \in Calls : /\ CallKept(c) /\ call'[c].pc = call[c].pc
                              /\ call'[c].result = call[c].result
                              /\ call'[c].evicted = call[c].evicted
      PROVE  Evictions'
  BY <1>1, <1>2, EvictionFrame DEF Evictions
<1>3. CASE UNCHANGED call
  BY <1>2, <1>3 DEF CallKept
<1>4. ASSUME NEW d \in Calls, CallMoves(d) PROVE Evictions'
  <2>1. /\ \A c \in Calls \ {d} : call'[c] = call[c]
        /\ call[d].pc # "returned" /\ call[d].evicted = None
        /\ \A c \in Calls : call[c].conn # NoConn => CallKept(c)
    <3>1. CallRegister(d) => call[d].conn = NoConn
      BY <1>1 DEF CallRegister, CallsInv
    <3>2. \A c \in Calls \ {d} : call'[c] = call[c]
      BY <1>1, <1>4, CallEffect
    <3>3. call[d].conn # NoConn => CallKept(d)
      BY <1>1, <1>4, <3>1, CallEffect
    <3> QED
      BY <1>1, <1>4, <3>2, <3>3, CallEffect DEF CallKept, Evictions, EvictionOf
  <2>2. ASSUME NEW c \in Calls, c # d PROVE EvictionOf(c)'
    BY <1>1, <2>1, <2>2, EvictionFrame DEF CallKept
  <2>3. EvictionOf(d)'
    <3>1. CASE RemovePending(d)
      BY <3>1, EvictionRemove
    <3>2. CASE ~RemovePending(d) /\ call'[d].pc = "remove"
      <4>1. PICK err \in {"ErrWrite", "ctxErr", "ErrClosed"} : CallFails(d, err)
        <5>1. call \in [Calls -> CallStates]
          BY <1>1, FnTypes
        <5>2. ~CallRefused(d) /\ ~CallRegister(d) /\ ~CallGetsReply(d) /\ ~CallWrite(d)
          BY <3>2, <5>1 DEF CallRefused, CallRegister, CallGetsReply, CallWrite, CallStates
        <5> QED
          BY <1>4, <3>2, <5>2 DEF CallMoves, CallStep, CallWriteFails, CallCancelled, CallSeesDone
      <4>2. call'[d].result.kind = err
        BY <1>1, <4>1, FnTypes DEF CallFails, CallStates, Outcome
      <4>3. call'[d].evicted = None
        BY <1>1, <1>4, <2>1, <3>2, CallEffect
      <4> QED
        BY <4>1, <4>2, <4>3 DEF EvictionOf
    <3>3. CASE ~RemovePending(d) /\ call'[d].pc # "remove"
      BY <1>1, <1>4, <2>1, <3>3, CallEffect DEF EvictionOf
    <3> QED
      BY <3>1, <3>2, <3>3
  <2> QED
    BY <2>2, <2>3 DEF Evictions
<1>5. ASSUME NEW S, NEW err, call' = Flushed(S, err) PROVE Evictions'
  BY <1>1, <1>2, <1>5, FlushedFields DEF CallKept
<1>6. CASE CloseLocked \/ CloseFinish
  BY <1>3, <1>5, <1>6 DEF CloseLocked, CloseFinish
<1>7. CASE \E r \in Reconnectors : ReconnectInstall(r) \/ ReconnectFinish(r)
  BY <1>3, <1>5, <1>7 DEF ReconnectInstall, ReconnectFinish
<1>8. CASE \E k \in Conns : HandleSessionEnd(k) \/ LoopFlush(k)
  BY <1>3, <1>5, <1>8 DEF HandleSessionEnd, LoopFlush
<1>9. CASE \E k \in Conns : QuietLoop(k)
  BY <1>1, <1>2, <1>9, ReplyEffect
<1> QED
  BY <1>3, <1>4, <1>6, <1>7, <1>8, <1>9, NextSplit, DialFrame, ServerFrame, ConsumeFrame,
     RequestFrame DEF unlocked

LEMMA WaiterInit == Init => Waiting /\ Evictions
  BY DEF Init, Waiting, Waits, Evictions, EvictionOf

\* A Call that waits is registered, is in the hands of a goroutine that will
\* answer or fail it, or has lost its registration to the removePending of a Call
\* of an earlier session with the same id, which failed after the ids had started
\* again (Call, deliverResponse, flushPendingLocked, removePending).
THEOREM WaitersReachable == Spec => []WaiterReachable
<1>1. Init => Registered /\ Waiting /\ Evictions
  BY RegisteredInit, WaiterInit
<1>2. IInv /\ SessionInv /\ Registered /\ Waiting /\ Evictions /\ [Next]_vars
        => Registered' /\ Waiting' /\ Evictions'
  BY RegisteredStep, WaiterStep, EvictionStep DEF SessionInv, IInv
<1> QED
  BY <1>1, <1>2, WaiterParts, Inductive, SessionsInvariant, PTL DEF Spec
=============================================================================
