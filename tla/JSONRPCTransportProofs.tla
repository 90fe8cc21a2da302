---------------------- MODULE JSONRPCTransportProofs ----------------------
(***************************************************************************)
(* Proofs about JSONRPCTransport, for every set of calls, reconnectors and *)
(* server requests and every capacity and bound.                           *)
(***************************************************************************)
EXTENDS JSONRPCTransport, TLAPS

\* The values the model is built from have their types.
LEMMA ValueTypes ==
  /\ Empty \in Outcomes
  /\ \A err \in {"ErrClosed", "ErrDisconnected", "ErrWrite", "ctxErr"} :
       Outcome(err, None) \in Outcomes
  /\ \A c \in Calls \cup {None} : Outcome("response", c) \in Outcomes
  /\ Note \in Messages /\ Malformed \in Messages
  /\ \A i \in Nat : \A c \in Calls : Message("response", i, c, None) \in Messages
  /\ \A q \in ServerReqs : Message("request", 0, None, q) \in Messages
BY DEF Outcome, Outcomes, Empty, Message, Messages, Note, Malformed

\* Only a response names a call, and only a request names a server request.
LEMMA MessageFields ==
  ASSUME NEW m \in Messages
  PROVE  /\ m.of \in Calls \cup {None}
         /\ m.kind = "response" => m.id \in Nat /\ m.of \in Calls
         /\ m.kind = "request" => m.req \in ServerReqs
BY DEF Message, Messages, Note, Malformed

\* The updates several actions share keep the types of what they update.
LEMMA LoopForgetsType ==
  ASSUME loop \in [Conns -> LoopStates], NEW k \in Conns, NEW pc \in {"decode", "exited"},
         LoopForgets(k, pc)
  PROVE  loop' \in [Conns -> LoopStates]
<1>1. Note \in Messages
  BY ValueTypes
<1> QED
  BY <1>1, ZenonT(40) DEF LoopForgets, LoopStates

LEMMA FlushedType ==
  ASSUME call \in [Calls -> CallStates], NEW S,
         NEW err \in {"ErrClosed", "ErrDisconnected"}
  PROVE  Flushed(S, err) \in [Calls -> CallStates]
<1>1. Outcome(err, None) \in Outcomes
  BY ValueTypes
<1> QED
  BY <1>1 DEF Flushed, CallStates

LEMMA CallFailsType ==
  ASSUME call \in [Calls -> CallStates], NEW c \in Calls,
         NEW err \in {"ErrClosed", "ErrDisconnected", "ErrWrite", "ctxErr"},
         NEW pc \in {"remove", "returned"}
  PROVE  [call EXCEPT ![c].pc = pc, ![c].result = Outcome(err, None)]
           \in [Calls -> CallStates]
<1>1. Outcome(err, None) \in Outcomes
  BY ValueTypes
<1> QED
  BY <1>1 DEF CallStates

\* writeMu is free, or held by a writer for a connection.
LEMMA LockTypes ==
  /\ Unlocked \in Locks
  /\ \A w \in Calls \cup ServerReqs \cup {None} : \A k \in 0..MaxConns : Locked(w, k) \in Locks
BY BoundsAssumption DEF Unlocked, Locked, Locks, NoConn

LEMMA ServerSendsType ==
  ASSUME wire \in [Conns -> WireStates], NEW k \in Conns, NEW m \in Messages,
         ServerSends(k, m)
  PROVE  wire' \in [Conns -> WireStates]
<1>1. wire[k].inbox \in Seq(Messages)
  BY DEF WireStates
<1>2. Append(wire[k].inbox, m) \in Seq(Messages)
  BY <1>1
<1>3. wire' = [wire EXCEPT ![k].inbox = Append(wire[k].inbox, m)]
  BY DEF ServerSends
<1> QED
  BY <1>2, <1>3 DEF WireStates

\* The initial state is well typed, and every step keeps the types.
LEMMA TypeInit == Init => TypeOK
<1> SUFFICES ASSUME Init PROVE TypeOK
  OBVIOUS
<1>2. call \in [Calls -> CallStates] /\ loop \in [Conns -> LoopStates]
  BY ValueTypes, BoundsAssumption DEF Init, CallStates, LoopStates, Conns, NoConn
<1>3. rec \in [Reconnectors -> RecStates] /\ closer \in CloserStates
  BY BoundsAssumption DEF Init, RecStates, CloserStates, NoConn
<1>4. req \in [ServerReqs -> ReqStates] /\ wire \in [Conns -> WireStates]
  BY BoundsAssumption DEF Init, ReqStates, WireStates, NoConn
<1>5. DOMAIN pending \subseteq Nat /\ pending \in [DOMAIN pending -> Calls]
  BY DEF Init, EmptyMap
<1>1. closed \in BOOLEAN /\ done \in BOOLEAN
  BY DEF Init
<1>6. /\ sessionID \in Nat /\ nextID \in Nat /\ cancel \in Nat
      /\ conn \in 0..MaxConns /\ opened \in Conns
      /\ ctxCancelled \subseteq Nat
  BY BoundsAssumption DEF Init, Conns
<1>7. /\ requests \in Seq(ServerReqs) /\ Len(requests) <= QueueCap
      /\ notes \in Seq(Messages) /\ Len(notes) <= QueueCap
  BY BoundsAssumption DEF Init
<1>8. writeMu \in Locks
  BY LockTypes DEF Init
<1> QED
  BY <1>1, <1>2, <1>3, <1>4, <1>5, <1>6, <1>7, <1>8 DEF TypeOK

LEMMA TypeStep == TypeOK /\ [Next]_vars => TypeOK'
<1> SUFFICES ASSUME TypeOK, [Next]_vars PROVE TypeOK'
  OBVIOUS
<1>a. call \in [Calls -> CallStates] /\ loop \in [Conns -> LoopStates]
  BY DEF TypeOK
<1>b. rec \in [Reconnectors -> RecStates] /\ closer \in CloserStates
  BY DEF TypeOK
<1>c. req \in [ServerReqs -> ReqStates] /\ wire \in [Conns -> WireStates]
  BY DEF TypeOK
<1>d. DOMAIN pending \subseteq Nat /\ pending \in [DOMAIN pending -> Calls]
  BY DEF TypeOK
<1>e. /\ sessionID \in Nat /\ nextID \in Nat /\ cancel \in Nat
      /\ conn \in 0..MaxConns /\ opened \in Conns /\ ctxCancelled \subseteq Nat
  BY DEF TypeOK
<1>f. /\ requests \in Seq(ServerReqs) /\ Len(requests) <= QueueCap
      /\ notes \in Seq(Messages) /\ Len(notes) <= QueueCap
  BY DEF TypeOK
<1>1. ASSUME NEW c \in Calls, CallRefused(c) PROVE TypeOK'
  <2>1. call' \in [Calls -> CallStates]
    <3>1. PICK err \in {"ctxErr", "ErrClosed", "ErrDisconnected"} :
            call' = [call EXCEPT ![c].pc = "returned", ![c].result = Outcome(err, None)]
      BY <1>1 DEF CallRefused
    <3> QED
      BY <3>1, <1>a, CallFailsType
  <2>2. UNCHANGED <<closed, done, sessionID, conn, nextID, pending, cancel, requests, notes, ctxCancelled, loop, rec, closer, req, opened, wire, writeMu>>
    BY <1>1 DEF CallRefused, transport, queues, net
  <2> QED
    BY <2>1, <2>2 DEF TypeOK
<1>2. ASSUME NEW c \in Calls, CallRegister(c) PROVE TypeOK'
  <2>1. nextID' \in Nat
    BY <1>2, <1>e DEF CallRegister
  <2>2. DOMAIN pending' \subseteq Nat /\ pending' \in [DOMAIN pending' -> Calls]
    BY <1>2, <1>d, <1>e DEF CallRegister, With
  <2>3. call' \in [Calls -> CallStates]
    <3>1. call' = [call EXCEPT ![c].pc = "write", ![c].id = nextID + 1, ![c].conn = conn]
      BY <1>2 DEF CallRegister
    <3>2. nextID + 1 \in Nat /\ conn \in 0..MaxConns
      BY <1>e
    <3> QED
      BY <3>1, <3>2, <1>a, ZenonT(40) DEF CallStates
  <2>4. UNCHANGED <<closed, done, sessionID, conn, cancel, requests, notes, ctxCancelled, loop, rec, closer, req, opened, wire, writeMu>>
    BY <1>2 DEF CallRegister, transport, queues, net
  <2> QED
    BY <2>1, <2>2, <2>3, <2>4 DEF TypeOK
<1>3. ASSUME NEW c \in Calls, CallCancelled(c) PROVE TypeOK'
  <2>1. call' \in [Calls -> CallStates]
    BY <1>3, <1>a, CallFailsType DEF CallCancelled, CallFails
  <2>2. UNCHANGED <<closed, done, sessionID, conn, nextID, pending, cancel, requests, notes, ctxCancelled, loop, rec, closer, req, opened, wire, writeMu>>
    BY <1>3 DEF CallCancelled, CallFails, transport, queues, net
  <2> QED
    BY <2>1, <2>2 DEF TypeOK
<1>4. ASSUME NEW c \in Calls, CallWrite(c) PROVE TypeOK'
  <2>1. call' \in [Calls -> CallStates]
    BY <1>4, <1>a, ValueTypes DEF CallWrite, CallStates
  <2>2. wire' \in [Conns -> WireStates]
    <3>1. wire' = [wire EXCEPT ![call[c].conn].received = @ \cup {c}]
      BY <1>4 DEF CallWrite
    <3> QED
      BY <3>1, <1>c DEF WireStates
  <2>3. UNCHANGED <<closed, done, sessionID, conn, nextID, pending, cancel, requests, notes, ctxCancelled, loop, rec, closer, req, opened>>
    BY <1>4 DEF CallWrite, transport, queues, net
  <2>4. writeMu' \in Locks
    BY <1>4, LockTypes DEF CallWrite
  <2> QED
    BY <2>1, <2>2, <2>3, <2>4 DEF TypeOK
<1>5. ASSUME NEW c \in Calls, CallWriteFails(c) PROVE TypeOK'
  <2>1. call' \in [Calls -> CallStates]
    BY <1>5, <1>a, CallFailsType DEF CallWriteFails, CallFails
  <2>2. UNCHANGED <<closed, done, sessionID, conn, nextID, pending, cancel, requests, notes, ctxCancelled, loop, rec, closer, req, opened, wire>>
    BY <1>5 DEF CallWriteFails, CallFails, transport, queues, net
  <2>3. writeMu' \in Locks
    BY <1>5, LockTypes DEF CallWriteFails
  <2> QED
    BY <2>1, <2>2, <2>3 DEF TypeOK
<1>6. ASSUME NEW c \in Calls, CallGetsReply(c) PROVE TypeOK'
  <2>1. call' \in [Calls -> CallStates]
    BY <1>6, <1>a, ValueTypes DEF CallGetsReply, CallStates
  <2>2. UNCHANGED <<closed, done, sessionID, conn, nextID, pending, cancel, requests, notes, ctxCancelled, loop, rec, closer, req, opened, wire, writeMu>>
    BY <1>6 DEF CallGetsReply, transport, queues, net
  <2> QED
    BY <2>1, <2>2 DEF TypeOK
<1>7. ASSUME NEW c \in Calls, CallSeesDone(c) PROVE TypeOK'
  <2>1. call' \in [Calls -> CallStates]
    BY <1>7, <1>a, CallFailsType DEF CallSeesDone, CallFails
  <2>2. UNCHANGED <<closed, done, sessionID, conn, nextID, pending, cancel, requests, notes, ctxCancelled, loop, rec, closer, req, opened, wire, writeMu>>
    BY <1>7 DEF CallSeesDone, CallFails, transport, queues, net
  <2> QED
    BY <2>1, <2>2 DEF TypeOK
<1>8. ASSUME NEW c \in Calls, RemovePending(c) PROVE TypeOK'
  <2>1. DOMAIN pending' \subseteq Nat /\ pending' \in [DOMAIN pending' -> Calls]
    BY <1>8, <1>d DEF RemovePending, Without
  <2>2. call' \in [Calls -> CallStates]
    <3> DEFINE gone == IF call[c].id \in DOMAIN pending THEN pending[call[c].id] ELSE None
    <3>1. call' = [call EXCEPT ![c].pc = "returned", ![c].evicted = gone]
      BY <1>8 DEF RemovePending
    <3>2. gone \in Calls \cup {None}
      BY <1>d
    <3> HIDE DEF gone
    <3> QED
      BY <3>1, <3>2, <1>a, ZenonT(40) DEF CallStates
  <2>3. UNCHANGED <<closed, done, sessionID, conn, nextID, cancel, requests, notes, ctxCancelled, loop, rec, closer, req, opened, wire, writeMu>>
    BY <1>8 DEF RemovePending, transport, queues, net
  <2> QED
    BY <2>1, <2>2, <2>3 DEF TypeOK
<1>9. CASE CloseLocked
  <2>1. closed' \in BOOLEAN
    BY <1>9 DEF CloseLocked
  <2>2. closer' \in CloserStates
    BY <1>9, <1>b, <1>d, <1>e DEF CloseLocked, CloserStates, Channels
  <2>3. conn' \in 0..MaxConns
    BY <1>9, <1>e, BoundsAssumption DEF CloseLocked, NoConn
  <2>4. DOMAIN pending' \subseteq Nat /\ pending' \in [DOMAIN pending' -> Calls]
    BY <1>9, <1>d DEF CloseLocked, EmptyMap
  <2>5. UNCHANGED <<done, sessionID, nextID, cancel, requests, notes, ctxCancelled, call, loop, rec, req, opened, wire, writeMu>>
    BY <1>9 DEF CloseLocked, transport, queues, net
  <2> QED
    BY <2>1, <2>2, <2>3, <2>4, <2>5 DEF TypeOK
<1>10. CASE CloseFinish
  <2>1. closer' \in CloserStates
    BY <1>10, <1>b DEF CloseFinish, CloserStates
  <2>2. ctxCancelled' \subseteq Nat
    BY <1>10, <1>e DEF CloseFinish, CancelCtx
  <2>3. wire' \in [Conns -> WireStates]
    BY <1>10, <1>c DEF CloseFinish, CloseConn, WireStates
  <2>4. call' \in [Calls -> CallStates]
    BY <1>10, <1>a, FlushedType DEF CloseFinish
  <2>5. done' \in BOOLEAN
    BY <1>10 DEF CloseFinish
  <2>6. UNCHANGED <<closed, sessionID, conn, nextID, pending, cancel, requests, notes, loop, rec, req, opened, writeMu>>
    BY <1>10 DEF CloseFinish, transport, queues, net
  <2> QED
    BY <2>1, <2>2, <2>3, <2>4, <2>5, <2>6 DEF TypeOK
<1>11. ASSUME NEW r \in Reconnectors, ReconnectStart(r) PROVE TypeOK'
  <2>1. rec' \in [Reconnectors -> RecStates]
    BY <1>11, <1>b DEF ReconnectStart, RecStates
  <2>2. UNCHANGED <<closed, done, sessionID, conn, nextID, pending, cancel, requests, notes, ctxCancelled, call, loop, closer, req, opened, wire, writeMu>>
    BY <1>11 DEF ReconnectStart, transport, queues, net
  <2> QED
    BY <2>1, <2>2 DEF TypeOK
<1>12. ASSUME NEW r \in Reconnectors, ReconnectDial(r) PROVE TypeOK'
  <2>1. opened' \in Conns
    BY <1>12, <1>e, BoundsAssumption DEF ReconnectDial, Conns
  <2>2. wire' \in [Conns -> WireStates]
    BY <1>12, <1>c, <1>e DEF ReconnectDial, WireStates
  <2>3. rec' \in [Reconnectors -> RecStates]
    <3>1. rec' = [rec EXCEPT ![r].pc = "install", ![r].conn = opened + 1]
      BY <1>12 DEF ReconnectDial
    <3>2. opened + 1 \in 0..MaxConns
      BY <1>12, <1>e, BoundsAssumption DEF ReconnectDial, Conns
    <3> QED
      BY <3>1, <3>2, <1>b DEF RecStates
  <2>4. UNCHANGED <<closed, done, sessionID, conn, nextID, pending, cancel, requests, notes, ctxCancelled, call, loop, closer, req, writeMu>>
    BY <1>12 DEF ReconnectDial, transport, queues, net
  <2> QED
    BY <2>1, <2>2, <2>3, <2>4 DEF TypeOK
<1>13. ASSUME NEW r \in Reconnectors, ReconnectDialFails(r) PROVE TypeOK'
  <2>1. rec' \in [Reconnectors -> RecStates]
    BY <1>13, <1>b, BoundsAssumption DEF ReconnectDialFails, ReconnectReturns, RecStates, NoConn
  <2>2. UNCHANGED <<closed, done, sessionID, conn, nextID, pending, cancel, requests, notes, ctxCancelled, call, loop, closer, req, opened, wire, writeMu>>
    BY <1>13 DEF ReconnectDialFails, transport, queues, net
  <2> QED
    BY <2>1, <2>2 DEF TypeOK
<1>14. ASSUME NEW r \in Reconnectors, ReconnectTooLate(r) PROVE TypeOK'
  <2>1. rec' \in [Reconnectors -> RecStates]
    BY <1>14, <1>b, BoundsAssumption DEF ReconnectTooLate, ReconnectReturns, RecStates, NoConn
  <2>2. wire' \in [Conns -> WireStates]
    BY <1>14, <1>c DEF ReconnectTooLate, CloseConn, WireStates
  <2>3. UNCHANGED <<closed, done, sessionID, conn, nextID, pending, cancel, requests, notes, ctxCancelled, call, loop, closer, req, opened, writeMu>>
    BY <1>14 DEF ReconnectTooLate, transport, queues, net
  <2> QED
    BY <2>1, <2>2, <2>3 DEF TypeOK
<1>15. ASSUME NEW r \in Reconnectors, ReconnectInstall(r) PROVE TypeOK'
  <2>1. rec' \in [Reconnectors -> RecStates]
    <3> DEFINE half == [rec EXCEPT ![r].pc = "finish", ![r].old = conn]
    <3>1. rec' = [half EXCEPT ![r].cancel = cancel, ![r].flush = Channels(pending)]
      BY <1>15 DEF ReconnectInstall
    <3>2. Channels(pending) \in SUBSET Calls
      BY <1>d DEF Channels
    <3>3. half \in [Reconnectors -> RecStates]
      BY <1>b, <1>e DEF RecStates
    <3> HIDE DEF half
    <3> QED
      BY <3>1, <3>2, <3>3, <1>e DEF RecStates
  <2>2. conn' \in 0..MaxConns
    BY <1>15, <1>e, <1>b DEF ReconnectInstall, RecStates
  <2>3. nextID' \in Nat
    BY <1>15, <1>e DEF ReconnectInstall
  <2>4. DOMAIN pending' \subseteq Nat /\ pending' \in [DOMAIN pending' -> Calls]
    BY <1>15, <1>d DEF ReconnectInstall, EmptyMap
  <2>5. sessionID' \in Nat
    BY <1>15, <1>e DEF ReconnectInstall
  <2>6. cancel' \in Nat
    BY <1>15, <1>e DEF ReconnectInstall
  <2>7. loop' \in [Conns -> LoopStates]
    <3>1. loop' = [loop EXCEPT ![rec[r].conn].sid = sessionID + 1]
      BY <1>15 DEF ReconnectInstall
    <3>2. sessionID + 1 \in Nat
      BY <1>e
    <3> QED
      BY <3>1, <3>2, <1>a, ZenonT(40) DEF LoopStates
  <2>8. UNCHANGED <<closed, done, requests, notes, ctxCancelled, call, closer, req, opened, wire, writeMu>>
    BY <1>15 DEF ReconnectInstall, transport, queues, net
  <2> QED
    BY <2>1, <2>2, <2>3, <2>4, <2>5, <2>6, <2>7, <2>8 DEF TypeOK
<1>16. ASSUME NEW r \in Reconnectors, ReconnectFinish(r) PROVE TypeOK'
  <2>1. rec' \in [Reconnectors -> RecStates]
    BY <1>16, <1>b, BoundsAssumption DEF ReconnectFinish, ReconnectReturns, RecStates, NoConn
  <2>2. ctxCancelled' \subseteq Nat
    BY <1>16, <1>e, <1>b DEF ReconnectFinish, CancelCtx, OldCancel, RecStates
  <2>3. wire' \in [Conns -> WireStates]
    BY <1>16, <1>c DEF ReconnectFinish, CloseConn, WireStates
  <2>4. call' \in [Calls -> CallStates]
    BY <1>16, <1>a, FlushedType DEF ReconnectFinish
  <2>5. loop' \in [Conns -> LoopStates]
    BY <1>16, <1>a, ZenonT(40) DEF ReconnectFinish, LoopStates
  <2>6. UNCHANGED <<closed, done, sessionID, conn, nextID, pending, cancel, requests, notes, closer, req, opened, writeMu>>
    BY <1>16 DEF ReconnectFinish, transport, queues, net
  <2> QED
    BY <2>1, <2>2, <2>3, <2>4, <2>5, <2>6 DEF TypeOK
<1>17. ASSUME NEW k \in Conns, LoopDecode(k) PROVE TypeOK'
  <2>1. loop' \in [Conns -> LoopStates]
    <3>1. loop' = [loop EXCEPT ![k].pc = "dispatch", ![k].msg = Head(wire[k].inbox)]
      BY <1>17 DEF LoopDecode
    <3>2. wire[k].inbox \in Seq(Messages) /\ wire[k].inbox # <<>>
      BY <1>17, <1>c DEF LoopDecode, WireStates
    <3>3. Head(wire[k].inbox) \in Messages
      BY <3>2
    <3> QED
      BY <3>1, <3>3, <1>a, ZenonT(40) DEF LoopStates
  <2>2. wire' \in [Conns -> WireStates]
    <3>1. wire' = [wire EXCEPT ![k].inbox = Tail(wire[k].inbox)]
      BY <1>17 DEF LoopDecode
    <3>2. wire[k].inbox \in Seq(Messages) /\ wire[k].inbox # <<>>
      BY <1>17, <1>c DEF LoopDecode, WireStates
    <3>3. Tail(wire[k].inbox) \in Seq(Messages)
      BY <3>2
    <3> QED
      BY <3>1, <3>3, <1>c DEF WireStates
  <2>3. UNCHANGED <<closed, done, sessionID, conn, nextID, pending, cancel, requests, notes, ctxCancelled, call, rec, closer, req, opened, writeMu>>
    BY <1>17 DEF LoopDecode, transport, queues, net
  <2> QED
    BY <2>1, <2>2, <2>3 DEF TypeOK
<1>18. ASSUME NEW k \in Conns, LoopDecodeFails(k) PROVE TypeOK'
  <2>1. loop' \in [Conns -> LoopStates]
    BY <1>18, <1>a DEF LoopDecodeFails, LoopGoes, LoopStates
  <2>2. UNCHANGED <<closed, done, sessionID, conn, nextID, pending, cancel, requests, notes, ctxCancelled, call, rec, closer, req, opened, wire, writeMu>>
    BY <1>18 DEF LoopDecodeFails, LoopGoes, transport, queues, net
  <2> QED
    BY <2>1, <2>2 DEF TypeOK
<1>19. ASSUME NEW k \in Conns, LoopStale(k) PROVE TypeOK'
  <2>1. loop' \in [Conns -> LoopStates]
    BY <1>19, <1>a, LoopForgetsType DEF LoopStale
  <2>2. UNCHANGED <<closed, done, sessionID, conn, nextID, pending, cancel, requests, notes, ctxCancelled, call, rec, closer, req, opened, wire, writeMu>>
    BY <1>19 DEF LoopStale, transport, queues, net
  <2> QED
    BY <2>1, <2>2 DEF TypeOK
<1>20. ASSUME NEW k \in Conns, DeliverResponse(k) PROVE TypeOK'
  <2>1. loop' \in [Conns -> LoopStates]
    BY <1>20, <1>a, <1>d, ValueTypes DEF DeliverResponse, LoopForgets, LoopStates
  <2>2. DOMAIN pending' \subseteq Nat /\ pending' \in [DOMAIN pending' -> Calls]
    BY <1>20, <1>d DEF DeliverResponse, Without
  <2>3. UNCHANGED <<closed, done, sessionID, conn, nextID, cancel, requests, notes, ctxCancelled, call, rec, closer, req, opened, wire, writeMu>>
    BY <1>20 DEF DeliverResponse, transport, queues, net
  <2> QED
    BY <2>1, <2>2, <2>3 DEF TypeOK
<1>21. ASSUME NEW k \in Conns, LoopReply(k) PROVE TypeOK'
  <2>1. loop' \in [Conns -> LoopStates]
    BY <1>21, <1>a, LoopForgetsType DEF LoopReply
  <2>2. call' \in [Calls -> CallStates]
    <3>1. loop[k].msg \in Messages
      BY <1>a DEF LoopStates
    <3>2. Outcome("response", loop[k].msg.of) \in Outcomes
      BY <3>1, MessageFields, ValueTypes
    <3>3. ASSUME NEW o \in Outcomes, NEW S
          PROVE  [c \in Calls |-> IF c \in S THEN [call[c] EXCEPT !.ch = o] ELSE call[c]]
                   \in [Calls -> CallStates]
      BY <1>a DEF CallStates
    <3> QED
      BY <1>21, <3>2, <3>3, <1>a DEF LoopReply
  <2>3. UNCHANGED <<closed, done, sessionID, conn, nextID, pending, cancel, requests, notes, ctxCancelled, rec, closer, req, opened, wire, writeMu>>
    BY <1>21 DEF LoopReply, transport, queues, net
  <2> QED
    BY <2>1, <2>2, <2>3 DEF TypeOK
<1>22. ASSUME NEW k \in Conns, DeliverInbound(k) PROVE TypeOK'
  <2>1. loop' \in [Conns -> LoopStates]
    BY <1>22, <1>a DEF DeliverInbound, LoopGoes, LoopStates
  <2>2. UNCHANGED <<closed, done, sessionID, conn, nextID, pending, cancel, requests, notes, ctxCancelled, call, rec, closer, req, opened, wire, writeMu>>
    BY <1>22 DEF DeliverInbound, LoopGoes, transport, queues, net
  <2> QED
    BY <2>1, <2>2 DEF TypeOK
<1>23. ASSUME NEW k \in Conns, LoopPushRequest(k) PROVE TypeOK'
  <2>1. loop' \in [Conns -> LoopStates]
    BY <1>23, <1>a, LoopForgetsType DEF LoopPushRequest
  <2>2. requests' \in Seq(ServerReqs) /\ Len(requests') <= QueueCap
    BY <1>23, <1>f, <1>a, MessageFields, BoundsAssumption DEF LoopPushRequest, HasRoom, LoopStates
  <2>3. req' \in [ServerReqs -> ReqStates]
    BY <1>23, <1>c, <1>a, MessageFields, ZenonT(40) DEF LoopPushRequest, LoopStates, ReqStates
  <2>4. UNCHANGED <<closed, done, sessionID, conn, nextID, pending, cancel, notes, ctxCancelled, call, rec, closer, opened, wire, writeMu>>
    BY <1>23 DEF LoopPushRequest, transport, queues, net
  <2> QED
    BY <2>1, <2>2, <2>3, <2>4 DEF TypeOK
<1>24. ASSUME NEW k \in Conns, LoopPushNote(k) PROVE TypeOK'
  <2>1. loop' \in [Conns -> LoopStates]
    BY <1>24, <1>a, LoopForgetsType DEF LoopPushNote
  <2>2. notes' \in Seq(Messages) /\ Len(notes') <= QueueCap
    BY <1>24, <1>f, <1>a, BoundsAssumption DEF LoopPushNote, HasRoom, LoopStates
  <2>3. UNCHANGED <<closed, done, sessionID, conn, nextID, pending, cancel, requests, ctxCancelled, call, rec, closer, req, opened, wire, writeMu>>
    BY <1>24 DEF LoopPushNote, transport, queues, net
  <2> QED
    BY <2>1, <2>2, <2>3 DEF TypeOK
<1>25. ASSUME NEW k \in Conns, LoopPushDone(k) PROVE TypeOK'
  <2>1. loop' \in [Conns -> LoopStates]
    BY <1>25, <1>a, LoopForgetsType DEF LoopPushDone
  <2>2. UNCHANGED <<closed, done, sessionID, conn, nextID, pending, cancel, requests, notes, ctxCancelled, call, rec, closer, req, opened, wire, writeMu>>
    BY <1>25 DEF LoopPushDone, transport, queues, net
  <2> QED
    BY <2>1, <2>2 DEF TypeOK
<1>26. ASSUME NEW k \in Conns, LoopRejects(k) PROVE TypeOK'
  <2>1. loop' \in [Conns -> LoopStates]
    BY <1>26, <1>a DEF LoopRejects, LoopGoes, LoopStates
  <2>2. UNCHANGED <<closed, done, sessionID, conn, nextID, pending, cancel, requests, notes, ctxCancelled, call, rec, closer, req, opened, wire, writeMu>>
    BY <1>26 DEF LoopRejects, LoopGoes, transport, queues, net
  <2> QED
    BY <2>1, <2>2 DEF TypeOK
<1>27. ASSUME NEW k \in Conns, HandleSessionEnd(k) PROVE TypeOK'
  <2>1. loop' \in [Conns -> LoopStates]
    <3>1. CASE EndsSession(k)
      <4> DEFINE half == [loop EXCEPT ![k].pc = "flush", ![k].flush = Channels(pending)]
      <4>1. loop' = [half EXCEPT ![k].cancel = cancel, ![k].msg = Note]
        BY <1>27, <3>1 DEF HandleSessionEnd
      <4>2. Channels(pending) \in SUBSET Calls /\ Note \in Messages
        BY <1>d, ValueTypes DEF Channels
      <4>3. half \in [Conns -> LoopStates]
        BY <4>2, <1>a DEF LoopStates
      <4> HIDE DEF half
      <4> QED
        BY <4>1, <4>2, <4>3, <1>e DEF LoopStates
    <3>2. CASE ~EndsSession(k)
      BY <1>27, <3>2, <1>a, LoopForgetsType DEF HandleSessionEnd
    <3> QED
      BY <3>1, <3>2
  <2>2. conn' \in 0..MaxConns
    BY <1>27, <1>e, BoundsAssumption DEF HandleSessionEnd, NoConn
  <2>3. DOMAIN pending' \subseteq Nat /\ pending' \in [DOMAIN pending' -> Calls]
    BY <1>27, <1>d DEF HandleSessionEnd, EmptyMap
  <2>4. cancel' \in Nat
    BY <1>27, <1>e DEF HandleSessionEnd
  <2>5. UNCHANGED <<closed, done, sessionID, nextID, requests, notes, ctxCancelled, call, rec, closer, req, opened, wire, writeMu>>
    BY <1>27 DEF HandleSessionEnd, transport, queues, net
  <2> QED
    BY <2>1, <2>2, <2>3, <2>4, <2>5 DEF TypeOK
<1>28. ASSUME NEW k \in Conns, LoopFlush(k) PROVE TypeOK'
  <2>1. loop' \in [Conns -> LoopStates]
    BY <1>28, <1>a, LoopForgetsType DEF LoopFlush
  <2>2. ctxCancelled' \subseteq Nat
    BY <1>28, <1>e, <1>a DEF LoopFlush, CancelCtx, LoopStates
  <2>3. call' \in [Calls -> CallStates]
    BY <1>28, <1>a, FlushedType DEF LoopFlush
  <2>4. UNCHANGED <<closed, done, sessionID, conn, nextID, pending, cancel, requests, notes, rec, closer, req, opened, wire, writeMu>>
    BY <1>28 DEF LoopFlush, transport, queues, net
  <2> QED
    BY <2>1, <2>2, <2>3, <2>4 DEF TypeOK
<1>29. ASSUME NEW k \in Conns, ServerResponds(k) PROVE TypeOK'
  <2>1. wire' \in [Conns -> WireStates]
    <3>1. PICK c \in wire[k].received :
            ServerSends(k, Message("response", call[c].id, c, None))
      BY <1>29 DEF ServerResponds
    <3>2. c \in Calls
      BY <1>c DEF WireStates
    <3>3. Message("response", call[c].id, c, None) \in Messages
      BY <3>2, <1>a, ValueTypes DEF CallStates
    <3> QED
      BY <3>1, <3>3, <1>c, ServerSendsType
  <2>2. UNCHANGED <<closed, done, sessionID, conn, nextID, pending, cancel, requests, notes, ctxCancelled, call, loop, rec, closer, req, opened, writeMu>>
    BY <1>29 DEF ServerResponds, ServerSends, transport, queues, net
  <2> QED
    BY <2>1, <2>2 DEF TypeOK
<1>30. ASSUME NEW k \in Conns, ServerNotifies(k) PROVE TypeOK'
  <2>1. wire' \in [Conns -> WireStates]
    BY <1>30, <1>c, ValueTypes, ServerSendsType DEF ServerNotifies
  <2>2. UNCHANGED <<closed, done, sessionID, conn, nextID, pending, cancel, requests, notes, ctxCancelled, call, loop, rec, closer, req, opened, writeMu>>
    BY <1>30 DEF ServerNotifies, ServerSends, transport, queues, net
  <2> QED
    BY <2>1, <2>2 DEF TypeOK
<1>31. ASSUME NEW k \in Conns, ServerMisbehaves(k) PROVE TypeOK'
  <2>1. wire' \in [Conns -> WireStates]
    BY <1>31, <1>c, ValueTypes, ServerSendsType DEF ServerMisbehaves
  <2>2. UNCHANGED <<closed, done, sessionID, conn, nextID, pending, cancel, requests, notes, ctxCancelled, call, loop, rec, closer, req, opened, writeMu>>
    BY <1>31 DEF ServerMisbehaves, ServerSends, transport, queues, net
  <2> QED
    BY <2>1, <2>2 DEF TypeOK
<1>32. ASSUME NEW k \in Conns, ServerDrops(k) PROVE TypeOK'
  <2>1. wire' \in [Conns -> WireStates]
    BY <1>32, <1>c DEF ServerDrops, WireStates
  <2>2. UNCHANGED <<closed, done, sessionID, conn, nextID, pending, cancel, requests, notes, ctxCancelled, call, loop, rec, closer, req, opened, writeMu>>
    BY <1>32 DEF ServerDrops, transport, queues, net
  <2> QED
    BY <2>1, <2>2 DEF TypeOK
<1>33. ASSUME NEW k \in Conns, NEW q \in ServerReqs, ServerRequests(k, q) PROVE TypeOK'
  <2>1. wire' \in [Conns -> WireStates]
    BY <1>33, <1>c, ValueTypes, ServerSendsType DEF ServerRequests
  <2>2. req' \in [ServerReqs -> ReqStates]
    <3>1. req' = [req EXCEPT ![q].pc = "wire", ![q].conn = k]
      BY <1>33 DEF ServerRequests
    <3>2. k \in 0..MaxConns
      BY BoundsAssumption DEF Conns
    <3> QED
      BY <3>1, <3>2, <1>c, ZenonT(40) DEF ReqStates
  <2>3. UNCHANGED <<closed, done, sessionID, conn, nextID, pending, cancel, requests, notes, ctxCancelled, call, loop, rec, closer, opened, writeMu>>
    BY <1>33 DEF ServerRequests, ServerSends, transport, queues, net
  <2> QED
    BY <2>1, <2>2, <2>3 DEF TypeOK
<1>34. CASE TakeNote
  <2>1. notes' \in Seq(Messages) /\ Len(notes') <= QueueCap
    BY <1>34, <1>f, BoundsAssumption DEF TakeNote
  <2>2. UNCHANGED <<closed, done, sessionID, conn, nextID, pending, cancel, requests, ctxCancelled, call, loop, rec, closer, req, opened, wire, writeMu>>
    BY <1>34 DEF TakeNote, transport, queues, net
  <2> QED
    BY <2>1, <2>2 DEF TypeOK
<1>35. CASE TakeRequest
  <2>1. requests' \in Seq(ServerReqs) /\ Len(requests') <= QueueCap
    BY <1>35, <1>f, BoundsAssumption DEF TakeRequest
  <2>2. req' \in [ServerReqs -> ReqStates]
    BY <1>35, <1>c DEF TakeRequest, ReqStates
  <2>3. UNCHANGED <<closed, done, sessionID, conn, nextID, pending, cancel, notes, ctxCancelled, call, loop, rec, closer, opened, wire, writeMu>>
    BY <1>35 DEF TakeRequest, transport, queues, net
  <2> QED
    BY <2>1, <2>2, <2>3 DEF TypeOK
<1>36. ASSUME NEW q \in ServerReqs, Reply(q) PROVE TypeOK'
  <2>1. req' \in [ServerReqs -> ReqStates]
    BY <1>36, <1>c DEF Reply, ReqStates
  <2>2. UNCHANGED <<closed, done, sessionID, conn, nextID, pending, cancel, requests, notes, ctxCancelled, call, loop, rec, closer, opened, wire, writeMu>>
    BY <1>36 DEF Reply, transport, queues, net
  <2> QED
    BY <2>1, <2>2 DEF TypeOK
<1>37. ASSUME NEW q \in ServerReqs, Send(q) PROVE TypeOK'
  <2>1. req' \in [ServerReqs -> ReqStates]
    BY <1>37, <1>c, <1>e, ZenonT(40) DEF Send, ReqStates
  <2>2. UNCHANGED <<closed, done, sessionID, conn, nextID, pending, cancel, requests, notes, ctxCancelled, call, loop, rec, closer, opened, wire, writeMu>>
    BY <1>37 DEF Send, transport, queues, net
  <2> QED
    BY <2>1, <2>2 DEF TypeOK
<1>38. ASSUME NEW q \in ServerReqs, SendRefused(q) PROVE TypeOK'
  <2>1. req' \in [ServerReqs -> ReqStates]
    BY <1>38, <1>c DEF SendRefused, RequestGoes, ReqStates
  <2>2. UNCHANGED <<closed, done, sessionID, conn, nextID, pending, cancel, requests, notes, ctxCancelled, call, loop, rec, closer, opened, wire, writeMu>>
    BY <1>38 DEF SendRefused, RequestGoes, transport, queues, net
  <2> QED
    BY <2>1, <2>2 DEF TypeOK
<1>39. ASSUME NEW q \in ServerReqs, SendWrite(q) PROVE TypeOK'
  <2>1. req' \in [ServerReqs -> ReqStates]
    <3>1. req' = [req EXCEPT ![q].pc = "held", ![q].sent = Append(req[q].sent, req[q].to)]
      BY <1>39 DEF SendWrite
    <3>2. req[q].sent \in Seq(0..MaxConns) /\ req[q].to \in 0..MaxConns
      BY <1>c DEF ReqStates
    <3>3. Append(req[q].sent, req[q].to) \in Seq(0..MaxConns)
      BY <3>2
    <3> QED
      BY <3>1, <3>3, <1>c DEF ReqStates
  <2>2. UNCHANGED <<closed, done, sessionID, conn, nextID, pending, cancel, requests, notes, ctxCancelled, call, loop, rec, closer, opened, wire>>
    BY <1>39 DEF SendWrite, transport, queues, net
  <2>3. writeMu' \in Locks
    BY <1>39, LockTypes DEF SendWrite
  <2> QED
    BY <2>1, <2>2, <2>3 DEF TypeOK
<1>40. ASSUME NEW q \in ServerReqs, SendWriteFails(q) PROVE TypeOK'
  <2>1. req' \in [ServerReqs -> ReqStates]
    BY <1>40, <1>c, ZenonT(40) DEF SendWriteFails, ReqStates
  <2>2. UNCHANGED <<closed, done, sessionID, conn, nextID, pending, cancel, requests, notes, ctxCancelled, call, loop, rec, closer, opened, wire>>
    BY <1>40 DEF SendWriteFails, transport, queues, net
  <2>3. writeMu' \in Locks
    BY <1>40, LockTypes DEF SendWriteFails
  <2> QED
    BY <2>1, <2>2, <2>3 DEF TypeOK
<1>42. ASSUME NEW w \in Calls \cup ServerReqs \cup {None}, NEW k \in 0..MaxConns,
              WriteLock(w, k)
       PROVE  TypeOK'
  <2>1. writeMu' \in Locks
    BY <1>42, LockTypes DEF WriteLock
  <2> QED
    BY <2>1, <1>42 DEF TypeOK, WriteLock, transport, queues
<1>43. ASSUME NEW c \in Calls, CallLock(c) PROVE TypeOK'
  <2>1. call[c].conn \in 0..MaxConns
    BY <1>a DEF CallStates
  <2> QED
    BY <1>42, <1>43, <2>1 DEF CallLock
<1>44. ASSUME NEW q \in ServerReqs, SendLock(q) PROVE TypeOK'
  <2>1. req[q].to \in 0..MaxConns
    BY <1>c DEF ReqStates
  <2> QED
    BY <1>42, <1>44, <2>1 DEF SendLock
<1>45. ASSUME NEW k \in Conns, NotifyLock(k) PROVE TypeOK'
  <2>1. k \in 0..MaxConns
    BY DEF Conns
  <2> QED
    BY <1>42, <1>45, <2>1 DEF NotifyLock
<1>46. ASSUME NEW k \in Conns, NotifyWrite(k) PROVE TypeOK'
  <2>1. writeMu' \in Locks
    BY <1>46, LockTypes DEF NotifyWrite
  <2> QED
    BY <2>1, <1>46 DEF TypeOK, NotifyWrite, transport, queues
<1>41. CASE UNCHANGED vars
  BY <1>41 DEF TypeOK, vars, transport, queues, net
<1> QED
  BY <1>1, <1>2, <1>3, <1>4, <1>5, <1>6, <1>7, <1>8, <1>9, <1>10, <1>11, <1>12, <1>13, <1>14, <1>15, <1>16, <1>17, <1>18, <1>19, <1>20, <1>21, <1>22, <1>23, <1>24, <1>25, <1>26, <1>27, <1>28, <1>29, <1>30, <1>31, <1>32, <1>33, <1>34, <1>35, <1>36, <1>37, <1>38, <1>39, <1>40, <1>41, <1>43, <1>44, <1>45, <1>46
     DEF Next, CallStep, WriteEnds, ReconnectStep, LoopStep, ServerStep, RequestStep

\* Every field keeps its type and the inbound channels never exceed QueueCap.
THEOREM TypeCorrect == Spec => []TypeOK
  BY TypeInit, TypeStep, PTL DEF Spec

-----------------------------------------------------------------------------
(* The inductive invariant behind ResponseToAsker, PendingIsLive and         *)
(* HonestDisconnect.                                                         *)

\* Reconnect holds a connection whose read loop has not been started.
Dialled(r) == rec[r].pc \in {"install", "finish"}

\* Sessions: a connection is installed at most once and gets a session number
\* of its own; the transport's connection is the one of the latest session.
SessionsInv ==
  /\ sessionID >= 1
  /\ done => closed
  /\ closer.pc = "closing" => closed
  /\ closed => conn = NoConn
  /\ conn # NoConn => loop[conn].sid = sessionID
  /\ \A k \in Conns : /\ loop[k].sid <= sessionID
                      /\ k > opened => loop[k].sid = 0 /\ loop[k].pc = "none"
  /\ \A j, k \in Conns : loop[j].sid = loop[k].sid /\ loop[j].sid # 0 => j = k
  /\ \A r \in Reconnectors :
       Dialled(r) =>
         /\ rec[r].conn \in Conns /\ rec[r].conn <= opened
         /\ loop[rec[r].conn].pc = "none"
         /\ rec[r].pc = "install" => loop[rec[r].conn].sid = 0
         /\ \A s \in Reconnectors :
              Dialled(s) /\ rec[s].conn = rec[r].conn => s = r

\* Calls: the connection and the id identify a registered call.
CallsInv ==
  \A c \in Calls :
    /\ call[c].pc = "start" => call[c].conn = NoConn /\ call[c].result = Empty
    /\ call[c].conn = NoConn => call[c].ch = Empty
    /\ call[c].conn # NoConn => loop[call[c].conn].sid # 0
    /\ call[c].conn # NoConn /\ call[c].conn = conn => call[c].id <= nextID
    /\ \A d \in Calls :
         call[c].conn # NoConn /\ call[d].conn = call[c].conn /\ call[d].id = call[c].id
           => d = c

\* Wires: a response on a connection answers a call registered on it, by its id.
Answers(m, k) == m.of \in Calls /\ call[m.of].conn = k /\ call[m.of].id = m.id

WireInv ==
  \A k \in Conns :
    /\ \A c \in wire[k].received : call[c].conn = k
    /\ \A i \in 1..Len(wire[k].inbox) :
         wire[k].inbox[i].kind = "response" => Answers(wire[k].inbox[i], k)
    /\ loop[k].msg.kind = "response" => Answers(loop[k].msg, k)

\* Hand-over: the channels a goroutine has taken out of pending belong to
\* registered calls, are out of pending, and a response goes to its asker.
Taken == closer.flush \cup (UNION {rec[r].flush : r \in Reconnectors})
           \cup (UNION {loop[k].flush : k \in Conns})

TakenInv ==
  /\ \A c \in Taken : call[c].conn # NoConn
  /\ \A i \in DOMAIN pending : pending[i] \notin Taken /\ call[pending[i]].ch = Empty
  /\ \A k \in Conns :
       loop[k].pc = "reply" =>
         loop[k].msg.kind = "response" /\ \A c \in loop[k].flush : c = loop[k].msg.of

Core == /\ SessionsInv /\ CallsInv /\ WireInv /\ TakenInv
        /\ PendingIsLive /\ ResponseToAsker /\ HonestDisconnect

IInv == TypeOK /\ Core

-----------------------------------------------------------------------------
(* Most actions leave most of the invariant alone; these lemmas say what     *)
(* each part needs of a step.                                                *)

\* The types in the form the proofs below use them.
LEMMA TypeFacts ==
  ASSUME TypeOK
  PROVE  /\ conn \in 0..MaxConns /\ opened \in Conns /\ sessionID \in Nat /\ nextID \in Nat
         /\ \A c \in Calls : call[c].conn \in 0..MaxConns /\ call[c].id \in Nat
         /\ \A k \in Conns : /\ loop[k].sid \in Nat /\ loop[k].flush \subseteq Calls
                             /\ wire[k].received \subseteq Calls
         /\ \A r \in Reconnectors : rec[r].flush \subseteq Calls
         /\ closer.flush \subseteq Calls
         /\ \A i \in DOMAIN pending : pending[i] \in Calls
<1>1. conn \in 0..MaxConns /\ opened \in Conns /\ sessionID \in Nat /\ nextID \in Nat
  BY DEF TypeOK
<1>2. \A c \in Calls : call[c].conn \in 0..MaxConns /\ call[c].id \in Nat
  <2>1. call \in [Calls -> CallStates]
    BY DEF TypeOK
  <2> QED
    BY <2>1 DEF CallStates
<1>3. \A k \in Conns : loop[k].sid \in Nat /\ loop[k].flush \subseteq Calls
  <2>1. loop \in [Conns -> LoopStates]
    BY DEF TypeOK
  <2> QED
    BY <2>1 DEF LoopStates
<1>4. \A k \in Conns : wire[k].received \subseteq Calls
  <2>1. wire \in [Conns -> WireStates]
    BY DEF TypeOK
  <2> QED
    BY <2>1 DEF WireStates
<1>5. \A r \in Reconnectors : rec[r].flush \subseteq Calls
  <2>1. rec \in [Reconnectors -> RecStates]
    BY DEF TypeOK
  <2> QED
    BY <2>1 DEF RecStates
<1>6. closer.flush \subseteq Calls
  <2>1. closer \in CloserStates
    BY DEF TypeOK
  <2> QED
    BY <2>1 DEF CloserStates
<1>7. \A i \in DOMAIN pending : pending[i] \in Calls
  <2>1. pending \in [DOMAIN pending -> Calls]
    BY DEF TypeOK
  <2> QED
    BY <2>1
<1> QED
  BY <1>1, <1>2, <1>3, <1>4, <1>5, <1>6, <1>7

\* What a step keeps: sessions and their ends, registrations, entries of pending.
SidsKept ==
  \A k \in Conns :
    /\ loop'[k].sid = loop[k].sid
    /\ loop[k].pc \in {"flush", "exited"} => loop'[k].pc \in {"flush", "exited"}
NotStarted == \A k \in Conns : loop[k].pc = "none" => loop'[k].pc = "none"
RegKept == \A c \in Calls : call[c].conn # NoConn =>
                              call'[c].conn = call[c].conn /\ call'[c].id = call[c].id
RegSame == \A c \in Calls : call'[c].conn = call[c].conn /\ call'[c].id = call[c].id
PendingShrinks ==
  \A i \in DOMAIN pending' : i \in DOMAIN pending /\ pending'[i] = pending[i]

LEMMA SessionsFrame ==
  ASSUME TypeOK, SessionsInv, SidsKept, NotStarted,
         UNCHANGED <<closed, done, sessionID, opened, rec, closer>>,
         conn' = conn \/ conn' = NoConn
  PROVE  SessionsInv'
BY TypeFacts, BoundsAssumption DEF SessionsInv, SidsKept, NotStarted, Dialled, Conns, NoConn

LEMMA CallsFrame ==
  ASSUME TypeOK, CallsInv, SidsKept, RegSame, nextID' = nextID,
         conn' = conn \/ conn' = NoConn,
         \A c \in Calls : call'[c].pc = "start" =>
                            call[c].pc = "start" /\ call'[c].result = call[c].result,
         \A c \in Calls : call[c].conn = NoConn => call'[c].ch = call[c].ch
  PROVE  CallsInv'
BY TypeFacts, BoundsAssumption DEF CallsInv, SidsKept, RegSame, Conns, NoConn

LEMMA WireFrame ==
  ASSUME TypeOK, WireInv, RegKept,
         \A k \in Conns : /\ wire'[k].received = wire[k].received
                          /\ wire'[k].inbox = wire[k].inbox
                          /\ loop'[k].msg = loop[k].msg \/ loop'[k].msg = Note
  PROVE  WireInv'
<1> SUFFICES ASSUME NEW k \in Conns
             PROVE  /\ \A c \in wire'[k].received : call'[c].conn = k
                    /\ \A i \in 1..Len(wire'[k].inbox) :
                         wire'[k].inbox[i].kind = "response" => Answers(wire[k].inbox[i], k)'
                    /\ loop'[k].msg.kind = "response" => Answers(loop[k].msg, k)'
  BY DEF WireInv, Answers
<1>1. k # NoConn
  BY BoundsAssumption DEF Conns, NoConn
<1>2. ASSUME NEW m, Answers(m, k)
      PROVE  m.of \in Calls /\ call'[m.of].conn = k /\ call'[m.of].id = m.id
  BY <1>1, <1>2 DEF Answers, RegKept
<1>3. \A c \in wire'[k].received : call'[c].conn = k
  BY <1>1, TypeFacts DEF WireInv, RegKept
<1>4. \A i \in 1..Len(wire'[k].inbox) :
        wire'[k].inbox[i].kind = "response" => Answers(wire[k].inbox[i], k)'
  BY <1>2 DEF WireInv, Answers
<1>5. loop'[k].msg.kind = "response" => Answers(loop[k].msg, k)'
  <2>1. Note.kind # "response"
    BY DEF Note, Message
  <2> QED
    BY <1>2, <2>1 DEF WireInv, Answers
<1> QED
  BY <1>3, <1>4, <1>5

LEMMA TakenCalls == ASSUME TypeOK PROVE Taken \subseteq Calls
<1>1. closer.flush \subseteq Calls
  BY TypeFacts
<1>2. UNION {rec[r].flush : r \in Reconnectors} \subseteq Calls
  BY TypeFacts
<1>3. UNION {loop[k].flush : k \in Conns} \subseteq Calls
  BY TypeFacts
<1> QED
  BY <1>1, <1>2, <1>3 DEF Taken

LEMMA FailedTaken == BeingFailed \subseteq Taken
BY DEF BeingFailed, Taken

LEMMA TakenFrame ==
  ASSUME TypeOK, TakenInv, RegKept, PendingShrinks, Taken' \subseteq Taken,
         \A c \in Calls : c \in Taken \/ call'[c].ch = call[c].ch \/ call'[c].ch = Empty,
         \A k \in Conns : loop'[k].pc = "reply" => loop'[k] = loop[k]
  PROVE  TakenInv'
<1> QED
  BY TakenCalls, TypeFacts DEF TakenInv, RegKept, PendingShrinks

LEMMA PendingFrame ==
  ASSUME TypeOK, PendingIsLive, RegKept, PendingShrinks, conn' = conn,
         \A i \in DOMAIN pending' : call'[pending'[i]].pc \in {"write", "await", "remove"}
  PROVE  PendingIsLive'
BY TypeFacts DEF PendingIsLive, RegKept, PendingShrinks

LEMMA ResponseFrame ==
  ASSUME ResponseToAsker,
         \A c \in Calls : /\ call'[c].ch = call[c].ch \/ call'[c].ch.kind # "response"
                          /\ call'[c].result = call[c].result \/ call'[c].result = call[c].ch
                                \/ call'[c].result.kind # "response"
  PROVE  ResponseToAsker'
BY DEF ResponseToAsker

LEMMA HonestFrame ==
  ASSUME TypeOK, HonestDisconnect, RegSame, SidsKept, UNCHANGED <<closed, sessionID>>,
         \A c \in Calls : c \in BeingFailed' => c \in BeingFailed,
         \A c \in Calls :
           /\ \/ call'[c].ch = call[c].ch \/ call'[c].ch = Empty
              \/ call'[c].ch.kind = "response" \/ c \in BeingFailed
           /\ \/ call'[c].result = call[c].result \/ call'[c].result = call[c].ch
              \/ call'[c].result.kind \notin {"ErrDisconnected", "ErrClosed"}
              \/ call'[c].conn = NoConn \/ closed
  PROVE  HonestDisconnect'
<1>1. \A k \in Conns : SessionOver(k) => SessionOver(k)'
  BY DEF SessionOver, SidsKept
<1>2. \A c \in Calls : call[c].conn = NoConn \/ call[c].conn \in Conns
  BY TypeFacts, BoundsAssumption DEF Conns, NoConn
<1>3. closed => \A k : SessionOver(k)'
  BY DEF SessionOver
<1> SUFFICES ASSUME NEW c \in Calls,
                    \/ c \in BeingFailed'
                    \/ call'[c].ch.kind \in {"ErrDisconnected", "ErrClosed"}
                    \/ call'[c].result.kind \in {"ErrDisconnected", "ErrClosed"}
             PROVE  call'[c].conn = NoConn \/ SessionOver(call[c].conn)'
  BY DEF HonestDisconnect
<1>4. \/ c \in BeingFailed
      \/ call[c].ch.kind \in {"ErrDisconnected", "ErrClosed"}
      \/ call[c].result.kind \in {"ErrDisconnected", "ErrClosed"}
      \/ call'[c].conn = NoConn \/ closed
  BY DEF Empty, Outcome
<1>5. call'[c].conn = call[c].conn
  BY DEF RegSame
<1>6. call[c].conn = NoConn \/ SessionOver(call[c].conn) \/ closed
  BY <1>4, <1>5 DEF HonestDisconnect
<1> QED
  BY <1>1, <1>2, <1>3, <1>5, <1>6 DEF SessionOver

-----------------------------------------------------------------------------
(* The actions of Call. *)

\* What the invariant reads of the state, apart from the calls.
others == <<closed, done, sessionID, conn, nextID, pending, loop, rec, closer, opened, wire>>

\* Returning err, or going to remove the registration first.
LEMMA CallEnds ==
  ASSUME IInv, NEW c \in Calls, NEW pc \in {"remove", "returned"},
         NEW err \in {"ctxErr", "ErrWrite", "ErrClosed", "ErrDisconnected"},
         pc = "returned" => call[c].pc = "start",
         err \in {"ErrClosed", "ErrDisconnected"} => call[c].conn = NoConn \/ closed,
         call' = [call EXCEPT ![c].pc = pc, ![c].result = Outcome(err, None)],
         UNCHANGED others
  PROVE  Core'
<1>1. call \in [Calls -> CallStates] /\ TypeOK
  BY DEF IInv, TypeOK
<1>2. /\ \A d \in Calls : /\ d # c => call'[d] = call[d]
                          /\ call'[d].conn = call[d].conn /\ call'[d].id = call[d].id
                          /\ call'[d].ch = call[d].ch
      /\ call'[c].pc = pc /\ call'[c].result = Outcome(err, None)
  BY <1>1 DEF CallStates
<1>3. Outcome(err, None).kind = err
  BY DEF Outcome
<1>4. RegSame /\ RegKept /\ SidsKept /\ NotStarted /\ PendingShrinks
  BY <1>2 DEF RegSame, RegKept, SidsKept, NotStarted, PendingShrinks, others
<1>5. Taken' = Taken /\ BeingFailed' = BeingFailed
  BY DEF Taken, BeingFailed, others
<1>6. SessionsInv'
  BY <1>1, <1>4, SessionsFrame DEF IInv, Core, others, net
<1>7. CallsInv'
  BY <1>1, <1>2, <1>4, CallsFrame DEF IInv, Core, others
<1>8. WireInv'
  BY <1>1, <1>4, WireFrame DEF IInv, Core, others, net
<1>9. TakenInv'
  BY <1>1, <1>2, <1>4, <1>5, TakenFrame DEF IInv, Core, others
<1>10. PendingIsLive'
  <2>1. \A i \in DOMAIN pending : /\ pending[i] \in Calls
                                  /\ call[pending[i]].pc \in {"write", "await", "remove"}
    BY <1>1, TypeFacts DEF IInv, Core, PendingIsLive
  <2>2. \A i \in DOMAIN pending : call'[pending[i]].pc \in {"write", "await", "remove"}
    BY <2>1, <1>2
  <2> QED
    BY <1>1, <1>4, <2>2, PendingFrame DEF IInv, Core, others
<1>11. ResponseToAsker'
  BY <1>2, <1>3, ResponseFrame, ZenonT(40) DEF IInv, Core
<1>12. HonestDisconnect'
  BY <1>1, <1>2, <1>3, <1>4, <1>5, HonestFrame DEF IInv, Core, others
<1> QED
  BY <1>6, <1>7, <1>8, <1>9, <1>10, <1>11, <1>12 DEF Core

LEMMA CallRefusedStep == ASSUME IInv, NEW c \in Calls, CallRefused(c) PROVE Core'
<1>1. PICK err \in {"ctxErr", "ErrClosed", "ErrDisconnected"} :
        call' = [call EXCEPT ![c].pc = "returned", ![c].result = Outcome(err, None)]
  BY DEF CallRefused
<1>2. call[c].pc = "start" /\ call[c].conn = NoConn
  BY DEF CallRefused, IInv, Core, CallsInv
<1>3. UNCHANGED others
  BY DEF CallRefused, others, transport, net
<1> QED
  BY <1>1, <1>2, <1>3, CallEnds

LEMMA CallFailsStep ==
  ASSUME IInv, NEW c \in Calls, CallWriteFails(c) \/ CallCancelled(c) \/ CallSeesDone(c)
  PROVE  Core'
<1>1. PICK err \in {"ctxErr", "ErrWrite", "ErrClosed"} :
        CallFails(c, err) /\ (err = "ErrClosed" => done)
  BY DEF CallWriteFails, CallCancelled, CallSeesDone
<1>2. err = "ErrClosed" => closed
  BY <1>1 DEF IInv, Core, SessionsInv
<1>3. UNCHANGED others
  BY <1>1 DEF CallFails, others, transport, net
<1>4. call' = [call EXCEPT ![c].pc = "remove", ![c].result = Outcome(err, None)]
  BY <1>1 DEF CallFails
<1> QED
  BY <1>2, <1>3, <1>4, CallEnds

LEMMA CallRegisterStep == ASSUME IInv, NEW c \in Calls, CallRegister(c) PROVE Core'
<1>1. call \in [Calls -> CallStates] /\ TypeOK
  BY DEF IInv, TypeOK
<1>2. /\ \A d \in Calls : /\ d # c => call'[d] = call[d]
                          /\ call'[d].ch = call[d].ch /\ call'[d].result = call[d].result
      /\ call'[c].pc = "write" /\ call'[c].id = nextID + 1 /\ call'[c].conn = conn
  BY <1>1 DEF CallRegister, CallStates
<1>3. /\ call[c].pc = "start" /\ conn # NoConn /\ nextID' = nextID + 1
      /\ UNCHANGED <<closed, done, sessionID, conn, loop, rec, closer, opened, wire>>
  BY DEF CallRegister, net
<1>4. call[c].conn = NoConn /\ call[c].ch = Empty /\ call[c].result = Empty
  BY <1>3 DEF IInv, Core, CallsInv
<1>5. /\ DOMAIN pending' = DOMAIN pending \cup {nextID + 1}
      /\ pending'[nextID + 1] = c
      /\ \A i \in DOMAIN pending : i # nextID + 1 => pending'[i] = pending[i]
  BY DEF CallRegister, With
<1>6. RegKept /\ SidsKept /\ NotStarted
  BY <1>2, <1>3, <1>4 DEF RegKept, SidsKept, NotStarted
<1>7. Taken' = Taken /\ BeingFailed' = BeingFailed
  BY <1>3 DEF Taken, BeingFailed
<1>8. c \notin Taken /\ c \notin BeingFailed
  <2>1. c \notin Taken
    BY <1>4 DEF IInv, Core, TakenInv
  <2> QED
    BY <2>1, FailedTaken
<1>9. SessionsInv'
  BY <1>1, <1>3, <1>6, SessionsFrame DEF IInv, Core
<1>10. CallsInv'
  <2> SUFFICES ASSUME NEW d \in Calls
               PROVE  /\ call'[d].pc = "start" => call'[d].conn = NoConn /\ call'[d].result = Empty
                      /\ call'[d].conn = NoConn => call'[d].ch = Empty
                      /\ call'[d].conn # NoConn => loop'[call'[d].conn].sid # 0
                      /\ call'[d].conn # NoConn /\ call'[d].conn = conn' => call'[d].id <= nextID'
                      /\ \A e \in Calls :
                           call'[d].conn # NoConn /\ call'[e].conn = call'[d].conn
                             /\ call'[e].id = call'[d].id => e = d
    BY DEF CallsInv
  <2>1. loop[conn].sid # 0
    BY <1>1, <1>3, TypeFacts DEF IInv, Core, SessionsInv
  <2>2. \A e \in Calls : e # c /\ call[e].conn = conn => call[e].id # nextID + 1
                                                      /\ call[e].id <= nextID + 1
    BY <1>1, <1>3, TypeFacts DEF IInv, Core, CallsInv
  <2>3. nextID \in Nat
    BY <1>1, TypeFacts
  <2> QED
    BY <1>2, <1>3, <1>4, <2>1, <2>2, <2>3 DEF IInv, Core, CallsInv
<1>11. WireInv'
  BY <1>1, <1>3, <1>6, WireFrame DEF IInv, Core
<1>12. TakenInv'
  BY <1>1, <1>2, <1>3, <1>4, <1>5, <1>6, <1>7, <1>8, TypeFacts, TakenCalls
     DEF IInv, Core, TakenInv, RegKept
<1>13. PendingIsLive'
  <2> SUFFICES ASSUME NEW i \in DOMAIN pending'
               PROVE  /\ conn' # NoConn /\ call'[pending'[i]].conn = conn'
                      /\ call'[pending'[i]].id = i
                      /\ call'[pending'[i]].pc \in {"write", "await", "remove"}
    BY DEF PendingIsLive
  <2>1. CASE i = nextID + 1
    BY <2>1, <1>2, <1>3, <1>5
  <2>2. CASE i # nextID + 1
    <3>1. i \in DOMAIN pending /\ pending'[i] = pending[i] /\ pending[i] \in Calls
      BY <2>2, <1>1, <1>5, TypeFacts
    <3>2. pending[i] # c
      BY <3>1, <1>3 DEF IInv, Core, PendingIsLive
    <3> QED
      BY <3>1, <3>2, <1>2, <1>3 DEF IInv, Core, PendingIsLive
  <2> QED
    BY <2>1, <2>2
<1>14. ResponseToAsker'
  BY <1>2, ResponseFrame DEF IInv, Core
<1>15. HonestDisconnect'
  BY <1>2, <1>3, <1>4, <1>7, <1>8 DEF IInv, Core, HonestDisconnect, SessionOver, Empty, Outcome
<1> QED
  BY <1>9, <1>10, <1>11, <1>12, <1>13, <1>14, <1>15 DEF Core

LEMMA CallWriteStep == ASSUME IInv, NEW c \in Calls, CallWrite(c) PROVE Core'
<1>1. call \in [Calls -> CallStates] /\ wire \in [Conns -> WireStates] /\ TypeOK
  BY DEF IInv, TypeOK
<1>2. /\ call[c].pc = "write" /\ call'[c].pc = "await"
      /\ \A d \in Calls : /\ d # c => call'[d] = call[d]
                          /\ call'[d].conn = call[d].conn /\ call'[d].id = call[d].id
                          /\ call'[d].ch = call[d].ch /\ call'[d].result = call[d].result
  BY <1>1 DEF CallWrite, CallStates
<1>3. \A k \in Conns :
        /\ wire'[k].inbox = wire[k].inbox
        /\ \A d \in wire'[k].received : d \in wire[k].received \/ (d = c /\ k = call[c].conn)
  BY <1>1 DEF CallWrite, WireStates
<1>4. UNCHANGED <<closed, done, sessionID, conn, nextID, pending, loop, rec, closer, opened>>
  BY DEF CallWrite, transport
<1>5. RegSame /\ RegKept /\ SidsKept /\ NotStarted /\ PendingShrinks
  BY <1>2, <1>4 DEF RegSame, RegKept, SidsKept, NotStarted, PendingShrinks
<1>6. Taken' = Taken /\ BeingFailed' = BeingFailed
  BY <1>4 DEF Taken, BeingFailed
<1>7. SessionsInv'
  BY <1>1, <1>4, <1>5, SessionsFrame DEF IInv, Core
<1>8. CallsInv'
  BY <1>1, <1>2, <1>4, <1>5, CallsFrame DEF IInv, Core
<1>9. WireInv'
  <2> SUFFICES ASSUME NEW k \in Conns
               PROVE  /\ \A d \in wire'[k].received : call'[d].conn = k
                      /\ \A i \in 1..Len(wire'[k].inbox) :
                           wire'[k].inbox[i].kind = "response" => Answers(wire[k].inbox[i], k)'
                      /\ loop'[k].msg.kind = "response" => Answers(loop[k].msg, k)'
    BY DEF WireInv
  <2>1. \A d \in wire'[k].received : call'[d].conn = k
    BY <1>1, <1>2, <1>3, TypeFacts DEF IInv, Core, WireInv
  <2> QED
    BY <2>1, <1>2, <1>3, <1>4, SMTT(30) DEF IInv, Core, WireInv, Answers
<1>10. TakenInv'
  BY <1>1, <1>2, <1>4, <1>5, <1>6, TakenFrame DEF IInv, Core
<1>11. PendingIsLive'
  <2>1. \A i \in DOMAIN pending : /\ pending[i] \in Calls
                                  /\ call[pending[i]].pc \in {"write", "await", "remove"}
    BY <1>1, TypeFacts DEF IInv, Core, PendingIsLive
  <2>2. \A i \in DOMAIN pending' : call'[pending'[i]].pc \in {"write", "await", "remove"}
    BY <2>1, <1>2, <1>4
  <2> QED
    BY <1>1, <1>4, <1>5, <2>2, PendingFrame DEF IInv, Core
<1>12. ResponseToAsker'
  BY <1>2, ResponseFrame DEF IInv, Core
<1>13. HonestDisconnect'
  BY <1>1, <1>2, <1>4, <1>5, <1>6, HonestFrame DEF IInv, Core
<1> QED
  BY <1>7, <1>8, <1>9, <1>10, <1>11, <1>12, <1>13 DEF Core

LEMMA CallGetsReplyStep == ASSUME IInv, NEW c \in Calls, CallGetsReply(c) PROVE Core'
<1>1. call \in [Calls -> CallStates] /\ TypeOK
  BY DEF IInv, TypeOK
<1>2. /\ call'[c].pc = "returned" /\ call'[c].result = call[c].ch /\ call'[c].ch = Empty
      /\ \A d \in Calls : /\ d # c => call'[d] = call[d]
                          /\ call'[d].conn = call[d].conn /\ call'[d].id = call[d].id
  BY <1>1 DEF CallGetsReply, CallStates
<1>3. UNCHANGED others
  BY DEF CallGetsReply, others, transport, net
<1>4. RegSame /\ RegKept /\ SidsKept /\ NotStarted /\ PendingShrinks
  BY <1>2, <1>3 DEF RegSame, RegKept, SidsKept, NotStarted, PendingShrinks, others
<1>5. Taken' = Taken /\ BeingFailed' = BeingFailed
  BY <1>3 DEF Taken, BeingFailed, others
<1>6. call[c].ch # Empty /\ call[c].conn # NoConn /\ c \notin Channels(pending)
  BY DEF CallGetsReply, IInv, Core, CallsInv, TakenInv, Channels
<1>7. SessionsInv'
  BY <1>1, <1>3, <1>4, SessionsFrame DEF IInv, Core, others, net
<1>8. CallsInv'
  BY <1>1, <1>2, <1>3, <1>4, <1>6, CallsFrame DEF IInv, Core, others
<1>9. WireInv'
  BY <1>1, <1>3, <1>4, WireFrame DEF IInv, Core, others, net
<1>10. TakenInv'
  BY <1>1, <1>2, <1>3, <1>4, <1>5, TakenFrame DEF IInv, Core, others
<1>11. PendingIsLive'
  <2>1. \A i \in DOMAIN pending : /\ pending[i] \in Calls /\ pending[i] # c
                                  /\ call[pending[i]].pc \in {"write", "await", "remove"}
    BY <1>1, <1>6, TypeFacts DEF IInv, Core, PendingIsLive, Channels
  <2>2. \A i \in DOMAIN pending' : call'[pending'[i]].pc \in {"write", "await", "remove"}
    BY <2>1, <1>2, <1>3 DEF others
  <2> QED
    BY <1>1, <1>3, <1>4, <2>2, PendingFrame DEF IInv, Core, others
<1>12. ResponseToAsker'
  BY <1>2, ResponseFrame DEF IInv, Core, Empty, Outcome
<1>13. HonestDisconnect'
  BY <1>1, <1>2, <1>3, <1>4, <1>5, HonestFrame DEF IInv, Core, others
<1> QED
  BY <1>7, <1>8, <1>9, <1>10, <1>11, <1>12, <1>13 DEF Core

LEMMA RemovePendingStep == ASSUME IInv, NEW c \in Calls, RemovePending(c) PROVE Core'
<1>1. call \in [Calls -> CallStates] /\ TypeOK
  BY DEF IInv, TypeOK
<1>2. /\ call'[c].pc = "returned"
      /\ \A d \in Calls : /\ d # c => call'[d] = call[d]
                          /\ call'[d].conn = call[d].conn /\ call'[d].id = call[d].id
                          /\ call'[d].ch = call[d].ch /\ call'[d].result = call[d].result
  BY <1>1 DEF RemovePending, CallStates
<1>3. UNCHANGED <<closed, done, sessionID, conn, nextID, loop, rec, closer, opened, wire>>
  BY DEF RemovePending, net
<1>4. /\ DOMAIN pending' = DOMAIN pending \ {call[c].id}
      /\ \A i \in DOMAIN pending' : pending'[i] = pending[i]
  BY DEF RemovePending, Without
<1>5. RegSame /\ RegKept /\ SidsKept /\ NotStarted /\ PendingShrinks
  BY <1>2, <1>3, <1>4 DEF RegSame, RegKept, SidsKept, NotStarted, PendingShrinks
<1>6. Taken' = Taken /\ BeingFailed' = BeingFailed
  BY <1>3 DEF Taken, BeingFailed
<1>7. SessionsInv'
  BY <1>1, <1>3, <1>5, SessionsFrame DEF IInv, Core
<1>8. CallsInv'
  BY <1>1, <1>2, <1>3, <1>5, CallsFrame DEF IInv, Core
<1>9. WireInv'
  BY <1>1, <1>3, <1>5, WireFrame DEF IInv, Core
<1>10. TakenInv'
  BY <1>1, <1>2, <1>3, <1>5, <1>6, TakenFrame DEF IInv, Core
<1>11. PendingIsLive'
  <2>1. \A i \in DOMAIN pending' :
          /\ pending[i] \in Calls /\ pending[i] # c
          /\ call[pending[i]].pc \in {"write", "await", "remove"}
    BY <1>1, <1>4, TypeFacts DEF IInv, Core, PendingIsLive
  <2>2. \A i \in DOMAIN pending' : call'[pending'[i]].pc \in {"write", "await", "remove"}
    BY <2>1, <1>2, <1>4
  <2> QED
    BY <1>1, <1>3, <1>5, <2>2, PendingFrame DEF IInv, Core
<1>12. ResponseToAsker'
  BY <1>2, ResponseFrame DEF IInv, Core
<1>13. HonestDisconnect'
  BY <1>1, <1>2, <1>3, <1>5, <1>6, HonestFrame DEF IInv, Core
<1> QED
  BY <1>7, <1>8, <1>9, <1>10, <1>11, <1>12, <1>13 DEF Core

-----------------------------------------------------------------------------
(* The three goroutines that take the whole map: Close, Reconnect and the    *)
(* end of a session.                                                         *)

\* Sending an error on the flushed channels changes nothing but empty channels.
LEMMA FlushedFields ==
  ASSUME TypeOK, NEW S, NEW err, call' = Flushed(S, err)
  PROVE  \A d \in Calls :
           /\ call'[d].pc = call[d].pc /\ call'[d].id = call[d].id
           /\ call'[d].conn = call[d].conn /\ call'[d].result = call[d].result
           /\ call'[d].evicted = call[d].evicted
           /\ call'[d].ch = call[d].ch \/ (d \in S /\ call'[d].ch = Outcome(err, None))
<1>1. call \in [Calls -> CallStates]
  BY DEF TypeOK
<1> QED
  BY <1>1 DEF Flushed, CallStates

\* Flushing calls that were taken out of pending, all else being equal for
\* the calls.
LEMMA FlushStep ==
  ASSUME IInv, NEW S, NEW err \in {"ErrClosed", "ErrDisconnected"},
         call' = Flushed(S, err), S \subseteq BeingFailed,
         UNCHANGED <<closed, sessionID, conn, nextID, pending>>, SidsKept,
         \A k \in Conns : /\ wire'[k].received = wire[k].received
                          /\ wire'[k].inbox = wire[k].inbox
                          /\ loop'[k].msg = loop[k].msg \/ loop'[k].msg = Note,
         \A k \in Conns : loop'[k].pc = "reply" => loop'[k] = loop[k],
         Taken' \subseteq Taken, BeingFailed' \subseteq BeingFailed
  PROVE  /\ CallsInv' /\ WireInv' /\ TakenInv'
         /\ PendingIsLive' /\ ResponseToAsker' /\ HonestDisconnect'
<1>1. TypeOK
  BY DEF IInv
<1>2. \A d \in Calls :
        /\ call'[d].pc = call[d].pc /\ call'[d].id = call[d].id
        /\ call'[d].conn = call[d].conn /\ call'[d].result = call[d].result
        /\ call'[d].ch = call[d].ch \/ (d \in S /\ call'[d].ch = Outcome(err, None))
  BY <1>1, FlushedFields
<1>3. Outcome(err, None).kind = err
  BY DEF Outcome
<1>4. RegSame /\ RegKept /\ PendingShrinks
  BY <1>2 DEF RegSame, RegKept, PendingShrinks
<1>5. S \subseteq Taken
  BY FailedTaken
<1>6. CallsInv'
  <2>1. \A d \in Calls : call[d].conn = NoConn => d \notin S
    BY <1>5 DEF IInv, Core, TakenInv
  <2> QED
    BY <1>1, <1>2, <1>4, <2>1, CallsFrame DEF IInv, Core
<1>7. WireInv'
  BY <1>1, <1>4, WireFrame DEF IInv, Core
<1>8. TakenInv'
  BY <1>1, <1>2, <1>4, <1>5, TakenFrame DEF IInv, Core
<1>9. PendingIsLive'
  <2>1. \A i \in DOMAIN pending : /\ pending[i] \in Calls
                                  /\ call[pending[i]].pc \in {"write", "await", "remove"}
    BY <1>1, TypeFacts DEF IInv, Core, PendingIsLive
  <2>2. \A i \in DOMAIN pending' : call'[pending'[i]].pc \in {"write", "await", "remove"}
    BY <2>1, <1>2
  <2> QED
    BY <1>1, <1>4, <2>2, PendingFrame DEF IInv, Core
<1>10. ResponseToAsker'
  BY <1>2, <1>3, ResponseFrame DEF IInv, Core
<1>11. HonestDisconnect'
  BY <1>1, <1>2, <1>4, HonestFrame DEF IInv, Core
<1> QED
  BY <1>6, <1>7, <1>8, <1>9, <1>10, <1>11

LEMMA CloseConnFields ==
  ASSUME TypeOK, NEW j, wire' = CloseConn(j)
  PROVE  \A k \in Conns : /\ wire'[k].received = wire[k].received
                          /\ wire'[k].inbox = wire[k].inbox
<1>1. wire \in [Conns -> WireStates]
  BY DEF TypeOK
<1> QED
  BY <1>1 DEF CloseConn, WireStates

LEMMA CloseFinishStep == ASSUME IInv, CloseFinish PROVE Core'
<1>1. TypeOK /\ closer \in CloserStates
  BY DEF IInv, TypeOK
<1>2. /\ call' = Flushed(closer.flush, "ErrClosed") /\ wire' = CloseConn(closer.conn)
      /\ UNCHANGED <<closed, sessionID, conn, nextID, pending, loop, rec, opened>>
  BY DEF CloseFinish
<1>3. closer.pc = "closing" /\ closer'.pc = "closed" /\ closer'.flush = closer.flush
  BY <1>1 DEF CloseFinish, CloserStates
<1>4. Taken' = Taken /\ BeingFailed' = BeingFailed /\ closer.flush \subseteq BeingFailed
  BY <1>2, <1>3 DEF Taken, BeingFailed
<1>5. SidsKept /\ NotStarted /\ \A k \in Conns : /\ wire'[k].received = wire[k].received
                                   /\ wire'[k].inbox = wire[k].inbox
  BY <1>1, <1>2, CloseConnFields DEF SidsKept, NotStarted
<1>6. SessionsInv'
  BY <1>2, <1>3 DEF IInv, Core, SessionsInv, Dialled
<1>7. /\ CallsInv' /\ WireInv' /\ TakenInv'
      /\ PendingIsLive' /\ ResponseToAsker' /\ HonestDisconnect'
  BY <1>2, <1>4, <1>5, FlushStep
<1> QED
  BY <1>6, <1>7 DEF Core

\* Taking the whole map: the transport's connection is replaced by none, or by
\* one on which no call is registered.
LEMMA TakeMapStep ==
  ASSUME IInv, UNCHANGED <<call, wire>>, pending' = EmptyMap,
         \A c \in Calls : call[c].conn = NoConn \/ call[c].conn # conn',
         \A k \in Conns :
           /\ loop[k].sid # 0 => loop'[k].sid # 0
           /\ loop'[k].msg = loop[k].msg \/ loop'[k].msg = Note
           /\ loop'[k].pc = "reply" => /\ loop[k].pc = "reply" /\ loop'[k].msg = loop[k].msg
                                       /\ loop'[k].flush = loop[k].flush,
         Taken' \subseteq Taken \cup Channels(pending),
         BeingFailed' \subseteq BeingFailed \cup Channels(pending),
         \A k \in Conns : loop[k].sid # 0 /\ SessionOver(k) => SessionOver(k)',
         \A c \in Channels(pending) : SessionOver(call[c].conn)'
  PROVE  /\ CallsInv' /\ WireInv' /\ TakenInv'
         /\ PendingIsLive' /\ ResponseToAsker' /\ HonestDisconnect'
<1>1. TypeOK
  BY DEF IInv
<1>2. DOMAIN pending' = {}
  BY DEF EmptyMap
<1>3. RegKept
  BY DEF RegKept
<1>4. CallsInv'
  BY <1>1, TypeFacts DEF IInv, Core, CallsInv, Conns, NoConn
<1>5. WireInv'
  BY <1>1, <1>3, WireFrame DEF IInv, Core
<1>6. TakenInv'
  <2>1. \A c \in Channels(pending) : call[c].conn # NoConn
    BY DEF Channels, IInv, Core, PendingIsLive
  <2> QED
    BY <1>2, <2>1 DEF IInv, Core, TakenInv
<1>7. PendingIsLive'
  BY <1>2 DEF PendingIsLive
<1>8. ResponseToAsker'
  BY DEF IInv, Core, ResponseToAsker
<1>9. HonestDisconnect'
  <2>1. \A c \in Calls : call[c].conn = NoConn
                          \/ (call[c].conn \in Conns /\ loop[call[c].conn].sid # 0)
    BY <1>1, TypeFacts, BoundsAssumption DEF IInv, Core, CallsInv, Conns, NoConn
  <2>2. \A c \in Calls : c \in BeingFailed' => c \in BeingFailed \/ c \in Channels(pending)
    OBVIOUS
  <2>3. \A c \in Calls : call[c].conn \in Conns /\ loop[call[c].conn].sid # 0
                            /\ SessionOver(call[c].conn) => SessionOver(call[c].conn)'
    BY DEF SessionOver
  <2> QED
    BY <2>1, <2>2, <2>3 DEF IInv, Core, HonestDisconnect
<1> QED
  BY <1>4, <1>5, <1>6, <1>7, <1>8, <1>9

LEMMA CloseLockedStep == ASSUME IInv, CloseLocked PROVE Core'
<1>1. /\ UNCHANGED <<call, wire, loop, rec, done, sessionID, opened>>
      /\ pending' = EmptyMap /\ conn' = NoConn /\ closed' = TRUE
  BY DEF CloseLocked, net
<1>2. closer'.flush = Channels(pending)
  BY DEF CloseLocked
<1>3. Taken' \subseteq Taken \cup Channels(pending)
  BY <1>1, <1>2 DEF Taken
<1>4. BeingFailed' \subseteq BeingFailed \cup Channels(pending)
  BY <1>1, <1>2 DEF BeingFailed
<1>5. \A k : SessionOver(k)'
  BY <1>1 DEF SessionOver
<1>6. \A c \in Channels(pending) : SessionOver(call[c].conn)'
  BY <1>1 DEF SessionOver
<1>7. SessionsInv'
  BY <1>1 DEF IInv, Core, SessionsInv, Dialled
<1>8. /\ CallsInv' /\ WireInv' /\ TakenInv'
      /\ PendingIsLive' /\ ResponseToAsker' /\ HonestDisconnect'
  BY <1>1, <1>3, <1>4, <1>5, <1>6, TakeMapStep
<1> QED
  BY <1>7, <1>8 DEF Core

LEMMA HandleSessionEndStep ==
  ASSUME IInv, NEW k \in Conns, HandleSessionEnd(k), EndsSession(k) PROVE Core'
<1>1. TypeOK /\ loop \in [Conns -> LoopStates]
  BY DEF IInv, TypeOK
<1>2. /\ UNCHANGED <<call, wire, closed, done, sessionID, opened, rec, closer>>
      /\ pending' = EmptyMap /\ conn' = NoConn
  BY DEF HandleSessionEnd, net
<1>3. loop' = [loop EXCEPT ![k].pc = "flush", ![k].flush = Channels(pending),
                           ![k].cancel = cancel, ![k].msg = Note]
  BY DEF HandleSessionEnd
<1>4. \A j \in Conns :
        /\ j # k => loop'[j] = loop[j]
        /\ loop'[j].sid = loop[j].sid
  BY <1>1, <1>3 DEF LoopStates
<1>5. loop'[k].pc = "flush" /\ loop'[k].flush = Channels(pending) /\ loop'[k].msg = Note
  BY <1>1, <1>3 DEF LoopStates
<1>6. /\ Taken' \subseteq Taken \cup Channels(pending)
      /\ BeingFailed' \subseteq BeingFailed \cup Channels(pending)
  <2>1. Taken' \subseteq Taken \cup Channels(pending)
    BY <1>2, <1>4, <1>5 DEF Taken
  <2>2. UNION {loop'[j].flush : j \in {i \in Conns : loop'[i].pc = "flush"}}
          \subseteq (UNION {loop[j].flush : j \in {i \in Conns : loop[i].pc = "flush"}})
                     \cup Channels(pending)
    BY <1>4, <1>5
  <2> QED
    BY <1>2, <2>1, <2>2 DEF BeingFailed
<1>7. ~closed /\ loop[k].sid = sessionID /\ sessionID # 0
  BY <1>1, TypeFacts DEF EndsSession, Current, IInv, Core, SessionsInv
<1>8. conn # NoConn => k = conn
  <2>1. conn # NoConn => conn \in Conns
    BY <1>1, TypeFacts, BoundsAssumption DEF Conns, NoConn
  <2> QED
    BY <1>7, <2>1 DEF IInv, Core, SessionsInv
<1>9. \A c \in Channels(pending) : SessionOver(call[c].conn)'
  <2> SUFFICES ASSUME NEW c \in Channels(pending) PROVE SessionOver(call[c].conn)'
    OBVIOUS
  <2>1. conn # NoConn /\ call[c].conn = conn
    BY DEF Channels, IInv, Core, PendingIsLive
  <2> QED
    BY <1>2, <1>5, <1>8, <2>1 DEF SessionOver
<1>10. SidsKept /\ NotStarted
  BY <1>4, <1>5 DEF HandleSessionEnd, SidsKept, NotStarted
<1>11. \A j \in Conns : SessionOver(j) => SessionOver(j)'
  BY <1>2, <1>10 DEF SessionOver, SidsKept
<1>12. SessionsInv'
  BY <1>1, <1>2, <1>10, SessionsFrame DEF IInv, Core
<1>13. /\ CallsInv' /\ WireInv' /\ TakenInv'
       /\ PendingIsLive' /\ ResponseToAsker' /\ HonestDisconnect'
  BY <1>2, <1>4, <1>5, <1>6, <1>9, <1>11, TakeMapStep
<1> QED
  BY <1>12, <1>13 DEF Core

LEMMA ReconnectInstallStep ==
  ASSUME IInv, NEW r \in Reconnectors, ReconnectInstall(r) PROVE Core'
<1>1. /\ TypeOK /\ loop \in [Conns -> LoopStates] /\ rec \in [Reconnectors -> RecStates]
      /\ sessionID \in Nat
  BY DEF IInv, TypeOK
<1>2. /\ UNCHANGED <<call, wire, closed, done, closer, opened>>
      /\ pending' = EmptyMap /\ conn' = rec[r].conn /\ sessionID' = sessionID + 1
      /\ rec[r].pc = "install" /\ ~closed
  BY DEF ReconnectInstall, net
<1>3. /\ rec[r].conn \in Conns /\ rec[r].conn <= opened
      /\ loop[rec[r].conn].sid = 0 /\ loop[rec[r].conn].pc = "none"
      /\ \A s \in Reconnectors : Dialled(s) /\ rec[s].conn = rec[r].conn => s = r
  BY <1>2 DEF IInv, Core, SessionsInv, Dialled
<1>4. \A j \in Conns :
        /\ j # rec[r].conn => loop'[j] = loop[j]
        /\ loop'[j].pc = loop[j].pc /\ loop'[j].msg = loop[j].msg
        /\ loop'[j].flush = loop[j].flush
  BY <1>1 DEF ReconnectInstall, LoopStates
<1>5. loop'[rec[r].conn].sid = sessionID + 1
  BY <1>1, <1>3 DEF ReconnectInstall, LoopStates
<1>6. /\ \A s \in Reconnectors : s # r => rec'[s] = rec[s]
      /\ rec'[r].pc = "finish" /\ rec'[r].flush = Channels(pending)
      /\ rec'[r].conn = rec[r].conn
  BY <1>1 DEF ReconnectInstall, RecStates
<1>7. /\ Taken' \subseteq Taken \cup Channels(pending)
      /\ BeingFailed' \subseteq BeingFailed \cup Channels(pending)
  <2>1. UNION {rec'[s].flush : s \in Reconnectors}
          \subseteq (UNION {rec[s].flush : s \in Reconnectors}) \cup Channels(pending)
    BY <1>6
  <2>2. /\ UNION {loop'[j].flush : j \in Conns} = UNION {loop[j].flush : j \in Conns}
        /\ UNION {loop'[j].flush : j \in {i \in Conns : loop'[i].pc = "flush"}}
             = UNION {loop[j].flush : j \in {i \in Conns : loop[i].pc = "flush"}}
    BY <1>4
  <2> QED
    BY <1>2, <2>1, <2>2 DEF Taken, BeingFailed
<1>8. \A c \in Calls : call[c].conn = NoConn \/ call[c].conn # conn'
  BY <1>2, <1>3 DEF IInv, Core, CallsInv
<1>9. SessionsInv'
  <2>1. /\ sessionID >= 1 /\ (done => closed) /\ (closer.pc = "closing" => closed)
        /\ \A k \in Conns : /\ loop[k].sid <= sessionID /\ loop[k].sid \in Nat
                            /\ k > opened => loop[k].sid = 0 /\ loop[k].pc = "none"
        /\ \A j, k \in Conns : loop[j].sid = loop[k].sid /\ loop[j].sid # 0 => j = k
    BY <1>1, TypeFacts DEF IInv, Core, SessionsInv
  <2>2. \A k \in Conns : /\ loop'[k].sid <= sessionID'
                         /\ k > opened' => loop'[k].sid = 0 /\ loop'[k].pc = "none"
    <3>1. opened \in Nat /\ \A k \in Conns : k \in Nat
      BY <1>1, TypeFacts, BoundsAssumption DEF Conns
    <3> QED
      BY <1>1, <1>2, <1>3, <1>4, <1>5, <2>1, <3>1
  <2>3. \A j, k \in Conns : loop'[j].sid = loop'[k].sid /\ loop'[j].sid # 0 => j = k
    BY <1>1, <1>4, <1>5, <2>1
  <2>4. \A s \in Reconnectors :
          Dialled(s)' =>
            /\ rec'[s].conn \in Conns /\ rec'[s].conn <= opened'
            /\ loop'[rec'[s].conn].pc = "none"
            /\ rec'[s].pc = "install" => loop'[rec'[s].conn].sid = 0
            /\ \A t \in Reconnectors : Dialled(t)' /\ rec'[t].conn = rec'[s].conn => t = s
    <3>1. \A s \in Reconnectors : /\ rec'[s].conn = rec[s].conn
                                  /\ Dialled(s)' => Dialled(s)
                                  /\ rec'[s].pc = "install" => s # r /\ rec[s].pc = "install"
      BY <1>2, <1>6 DEF Dialled
    <3> SUFFICES ASSUME NEW s \in Reconnectors, Dialled(s)'
                 PROVE  /\ rec'[s].conn \in Conns /\ rec'[s].conn <= opened'
                        /\ loop'[rec'[s].conn].pc = "none"
                        /\ rec'[s].pc = "install" => loop'[rec'[s].conn].sid = 0
                        /\ \A t \in Reconnectors :
                             Dialled(t)' /\ rec'[t].conn = rec'[s].conn => t = s
      OBVIOUS
    <3>2. /\ rec[s].conn \in Conns /\ rec[s].conn <= opened /\ loop[rec[s].conn].pc = "none"
          /\ rec[s].pc = "install" => loop[rec[s].conn].sid = 0
          /\ \A t \in Reconnectors : Dialled(t) /\ rec[t].conn = rec[s].conn => t = s
      BY <3>1 DEF IInv, Core, SessionsInv
    <3>3. rec'[s].pc = "install" => rec[s].conn # rec[r].conn
      BY <1>3, <3>1
    <3> QED
      BY <1>2, <1>4, <3>1, <3>2, <3>3
  <2>5. sessionID' >= 1
    BY <1>1, <1>2
  <2> QED
    BY <1>2, <1>3, <1>5, <2>1, <2>2, <2>3, <2>4, <2>5 DEF SessionsInv
<1>10. \A k \in Conns : loop[k].sid # 0 => loop'[k].sid # 0
  BY <1>3, <1>4
<1>11. \A k \in Conns : loop[k].sid # 0 => SessionOver(k)'
  <2>1. \A k \in Conns : loop[k].sid # 0 => loop'[k].sid < sessionID'
    BY <1>1, <1>2, <1>3, <1>4, TypeFacts DEF IInv, Core, SessionsInv
  <2> QED
    BY <2>1 DEF SessionOver
<1>12. \A c \in Channels(pending) : SessionOver(call[c].conn)'
  <2>1. \A c \in Channels(pending) : call[c].conn \in Conns /\ loop[call[c].conn].sid # 0
    <3>1. \A i \in DOMAIN pending : pending[i] \in Calls /\ call[pending[i]].conn # NoConn
      <4>1. \A i \in DOMAIN pending : pending[i] \in Calls
        BY <1>1, TypeFacts
      <4> QED
        BY <4>1 DEF IInv, Core, PendingIsLive
    <3>2. \A c \in Calls : call[c].conn # NoConn => call[c].conn \in Conns
      BY <1>1, TypeFacts, BoundsAssumption DEF Conns, NoConn
    <3>3. \A c \in Calls : call[c].conn # NoConn => loop[call[c].conn].sid # 0
      BY DEF IInv, Core, CallsInv
    <3> QED
      BY <3>1, <3>2, <3>3 DEF Channels
  <2> QED
    BY <1>2, <1>11, <2>1 DEF SessionOver
<1>13. /\ CallsInv' /\ WireInv' /\ TakenInv'
       /\ PendingIsLive' /\ ResponseToAsker' /\ HonestDisconnect'
  BY <1>2, <1>4, <1>7, <1>8, <1>10, <1>11, <1>12, TakeMapStep
<1> QED
  BY <1>9, <1>13 DEF Core

-----------------------------------------------------------------------------
(* The steps that leave the calls and the map alone. *)

\* What a goroutine holds can only shrink in such a step.
LEMMA TakenShrinks ==
  ASSUME closer' = closer, \A r \in Reconnectors : rec'[r].flush \subseteq rec[r].flush,
         \A k \in Conns : /\ loop'[k].flush \subseteq loop[k].flush
                          /\ loop'[k].pc = "flush" => loop[k].pc = "flush"
  PROVE  Taken' \subseteq Taken /\ BeingFailed' \subseteq BeingFailed
<1>1. UNION {rec'[r].flush : r \in Reconnectors} \subseteq UNION {rec[r].flush : r \in Reconnectors}
  OBVIOUS
<1>2. UNION {loop'[k].flush : k \in Conns} \subseteq UNION {loop[k].flush : k \in Conns}
  OBVIOUS
<1>3. UNION {loop'[k].flush : k \in {j \in Conns : loop'[j].pc = "flush"}}
        \subseteq UNION {loop[k].flush : k \in {j \in Conns : loop[j].pc = "flush"}}
  OBVIOUS
<1>4. Taken' \subseteq Taken
  BY <1>1, <1>2 DEF Taken
<1>5. BeingFailed' \subseteq BeingFailed
  BY <1>1, <1>3 DEF BeingFailed
<1> QED
  BY <1>4, <1>5

LEMMA QuietStep ==
  ASSUME IInv, UNCHANGED <<closed, sessionID, conn, nextID, pending, call, closer>>, SidsKept,
         \A k \in Conns : /\ wire'[k].received = wire[k].received
                          /\ wire'[k].inbox = wire[k].inbox
                          /\ loop'[k].msg = loop[k].msg \/ loop'[k].msg = Note
                          /\ loop'[k].flush \subseteq loop[k].flush
                          /\ loop'[k].pc = "flush" => loop[k].pc = "flush"
                          /\ loop'[k].pc = "reply" => loop'[k] = loop[k],
         \A r \in Reconnectors : rec'[r].flush \subseteq rec[r].flush
  PROVE  /\ CallsInv' /\ WireInv' /\ TakenInv'
         /\ PendingIsLive' /\ ResponseToAsker' /\ HonestDisconnect'
<1>1. TypeOK
  BY DEF IInv
<1>2. RegSame /\ RegKept /\ PendingShrinks
  BY DEF RegSame, RegKept, PendingShrinks
<1>3. Taken' \subseteq Taken /\ BeingFailed' \subseteq BeingFailed
  BY TakenShrinks
<1>4. CallsInv'
  BY <1>1, <1>2, CallsFrame DEF IInv, Core
<1>5. WireInv'
  BY <1>1, <1>2, WireFrame DEF IInv, Core
<1>6. TakenInv'
  BY <1>1, <1>2, <1>3, TakenFrame DEF IInv, Core
<1>7. PendingIsLive'
  BY <1>1, <1>2, PendingFrame DEF IInv, Core, PendingIsLive
<1>8. ResponseToAsker'
  BY ResponseFrame DEF IInv, Core
<1>9. HonestDisconnect'
  BY <1>1, <1>2, <1>3, HonestFrame DEF IInv, Core
<1> QED
  BY <1>4, <1>5, <1>6, <1>7, <1>8, <1>9

\* A step of Reconnect that installs nothing.
LEMMA SessionsRec ==
  ASSUME TypeOK, SessionsInv, SidsKept,
         UNCHANGED <<closed, done, sessionID, conn, opened, closer>>,
         \A k \in Conns : k > opened => loop'[k].pc = loop[k].pc,
         \A s \in Reconnectors :
           Dialled(s)' => rec'[s] = rec[s] /\ loop'[rec[s].conn].pc = loop[rec[s].conn].pc
  PROVE  SessionsInv'
<1>1. \A s \in Reconnectors :
        Dialled(s)' =>
          /\ rec'[s].conn \in Conns /\ rec'[s].conn <= opened'
          /\ loop'[rec'[s].conn].pc = "none"
          /\ rec'[s].pc = "install" => loop'[rec'[s].conn].sid = 0
          /\ \A t \in Reconnectors : Dialled(t)' /\ rec'[t].conn = rec'[s].conn => t = s
  BY DEF SessionsInv, SidsKept, Dialled
<1>2. conn' # NoConn => loop'[conn'].sid = sessionID'
  BY TypeFacts DEF SessionsInv, SidsKept, Conns, NoConn
<1> QED
  BY <1>1, <1>2 DEF SessionsInv, SidsKept

LEMMA ReconnectQuietStep ==
  ASSUME IInv, NEW r \in Reconnectors,
         ReconnectStart(r) \/ ReconnectDialFails(r) \/ ReconnectTooLate(r)
  PROVE  Core'
<1>1. TypeOK /\ rec \in [Reconnectors -> RecStates]
  BY DEF IInv, TypeOK
<1>2. UNCHANGED <<closed, done, sessionID, conn, nextID, pending, call, loop, closer, opened>>
  BY DEF ReconnectStart, ReconnectDialFails, ReconnectTooLate, transport, net
<1>3. wire' = wire \/ wire' = CloseConn(rec[r].conn)
  BY DEF ReconnectStart, ReconnectDialFails, ReconnectTooLate, net
<1>4. \A k \in Conns : /\ wire'[k].received = wire[k].received
                       /\ wire'[k].inbox = wire[k].inbox
  BY <1>1, <1>3, CloseConnFields
<1>5. \A s \in Reconnectors : /\ Dialled(s)' => rec'[s] = rec[s]
                              /\ rec'[s].flush \subseteq rec[s].flush
  BY <1>1 DEF ReconnectStart, ReconnectDialFails, ReconnectTooLate, ReconnectReturns, RecStates,
     Dialled
<1>6. SidsKept /\ NotStarted
  BY <1>2 DEF SidsKept, NotStarted
<1>7. SessionsInv'
  BY <1>1, <1>2, <1>5, <1>6, SessionsRec DEF IInv, Core
<1>8. /\ CallsInv' /\ WireInv' /\ TakenInv'
      /\ PendingIsLive' /\ ResponseToAsker' /\ HonestDisconnect'
  BY <1>2, <1>4, <1>5, <1>6, QuietStep
<1> QED
  BY <1>7, <1>8 DEF Core

LEMMA ReconnectDialStep ==
  ASSUME IInv, NEW r \in Reconnectors, ReconnectDial(r) PROVE Core'
<1>1. /\ TypeOK /\ rec \in [Reconnectors -> RecStates] /\ wire \in [Conns -> WireStates]
      /\ opened \in Conns
  BY DEF IInv, TypeOK
<1>2. /\ UNCHANGED <<closed, done, sessionID, conn, nextID, pending, call, loop, closer>>
      /\ opened' = opened + 1 /\ opened < MaxConns
  BY DEF ReconnectDial, transport
<1>3. \A k \in Conns : /\ wire'[k].received = wire[k].received
                       /\ wire'[k].inbox = wire[k].inbox
  BY <1>1 DEF ReconnectDial, WireStates
<1>4. /\ \A s \in Reconnectors : /\ s # r => rec'[s] = rec[s]
                                 /\ rec'[s].flush = rec[s].flush
      /\ rec'[r].conn = opened + 1 /\ rec'[r].pc = "install"
  BY <1>1 DEF ReconnectDial, RecStates
<1>5. SidsKept /\ NotStarted
  BY <1>2 DEF SidsKept, NotStarted
<1>6. SessionsInv'
  <2>1. /\ opened + 1 \in Conns /\ opened + 1 > opened
        /\ \A k \in Conns : k > opened + 1 => k > opened
        /\ \A k \in Conns : k <= opened => k <= opened + 1 /\ k # opened + 1
    BY <1>1, <1>2, BoundsAssumption DEF Conns
  <2>2. \A s \in Reconnectors : s # r =>
          /\ rec'[s] = rec[s] /\ (Dialled(s)' <=> Dialled(s))
          /\ Dialled(s) => rec[s].conn \in Conns /\ rec[s].conn <= opened
    BY <1>4 DEF IInv, Core, SessionsInv, Dialled
  <2>3. \A s \in Reconnectors :
          Dialled(s)' =>
            /\ rec'[s].conn \in Conns /\ rec'[s].conn <= opened'
            /\ loop'[rec'[s].conn].pc = "none"
            /\ rec'[s].pc = "install" => loop'[rec'[s].conn].sid = 0
            /\ \A t \in Reconnectors : Dialled(t)' /\ rec'[t].conn = rec'[s].conn => t = s
    <3>1. opened + 1 <= opened'
      BY <1>1, <1>2, BoundsAssumption DEF Conns
    <3> QED
      BY <1>2, <1>4, <2>1, <2>2, <3>1 DEF IInv, Core, SessionsInv
  <2>4. \A k \in Conns : k > opened' => loop'[k].sid = 0 /\ loop'[k].pc = "none"
    BY <1>2, <2>1 DEF IInv, Core, SessionsInv
  <2> QED
    BY <1>2, <2>3, <2>4 DEF IInv, Core, SessionsInv
<1>7. /\ CallsInv' /\ WireInv' /\ TakenInv'
      /\ PendingIsLive' /\ ResponseToAsker' /\ HonestDisconnect'
  BY <1>2, <1>3, <1>4, <1>5, QuietStep
<1> QED
  BY <1>6, <1>7 DEF Core

LEMMA ReconnectFinishStep ==
  ASSUME IInv, NEW r \in Reconnectors, ReconnectFinish(r) PROVE Core'
<1>1. /\ TypeOK /\ rec \in [Reconnectors -> RecStates] /\ loop \in [Conns -> LoopStates]
  BY DEF IInv, TypeOK
<1>2. /\ UNCHANGED <<closed, done, sessionID, conn, nextID, pending, closer, opened>>
      /\ wire' = CloseConn(rec[r].old)
      /\ call' = Flushed(rec[r].flush, "ErrDisconnected")
  BY DEF ReconnectFinish, transport
<1>3. \A k \in Conns : /\ wire'[k].received = wire[k].received
                       /\ wire'[k].inbox = wire[k].inbox
  BY <1>1, <1>2, CloseConnFields
<1>4. \A s \in Reconnectors : /\ Dialled(s)' => s # r /\ rec'[s] = rec[s]
                              /\ rec'[s].flush \subseteq rec[s].flush
  BY <1>1 DEF ReconnectFinish, ReconnectReturns, RecStates, Dialled
<1>a. /\ rec[r].conn \in Conns /\ rec[r].conn <= opened /\ loop[rec[r].conn].pc = "none"
      /\ \A s \in Reconnectors : Dialled(s) /\ s # r => rec[s].conn # rec[r].conn
  BY DEF ReconnectFinish, IInv, Core, SessionsInv, Dialled
<1>5. \A k \in Conns : /\ loop'[k].sid = loop[k].sid /\ loop'[k].msg = loop[k].msg
                       /\ loop'[k].flush = loop[k].flush
                       /\ k # rec[r].conn => loop'[k] = loop[k]
                       /\ loop'[k].pc \in {"flush", "reply"} => loop'[k] = loop[k]
  BY <1>1 DEF ReconnectFinish, LoopStates
<1>6. SidsKept
  BY <1>5, <1>a DEF SidsKept
<1>7. SessionsInv'
  <2>1. \A k \in Conns : k > opened => loop'[k].pc = loop[k].pc
    BY <1>1, <1>5, <1>a, TypeFacts, BoundsAssumption DEF Conns
  <2>2. \A s \in Reconnectors :
          Dialled(s)' => rec'[s] = rec[s] /\ loop'[rec[s].conn].pc = loop[rec[s].conn].pc
    <3>1. \A s \in Reconnectors : Dialled(s)' => Dialled(s)
      BY <1>4 DEF Dialled
    <3>2. \A s \in Reconnectors : Dialled(s) => rec[s].conn \in Conns
      BY DEF IInv, Core, SessionsInv
    <3> QED
      BY <1>4, <1>5, <1>a, <3>1, <3>2
  <2> QED
    BY <1>1, <1>2, <1>6, <2>1, <2>2, SessionsRec DEF IInv, Core
<1>8. Taken' \subseteq Taken /\ BeingFailed' \subseteq BeingFailed
  BY <1>2, <1>4, <1>5, TakenShrinks
<1>9. rec[r].flush \subseteq BeingFailed
  BY DEF BeingFailed
<1>10. /\ CallsInv' /\ WireInv' /\ TakenInv'
       /\ PendingIsLive' /\ ResponseToAsker' /\ HonestDisconnect'
  BY <1>2, <1>3, <1>5, <1>6, <1>8, <1>9, FlushStep
<1> QED
  BY <1>7, <1>10 DEF Core

-----------------------------------------------------------------------------
(* The read loop and the server. *)

\* The steps of the loop k that only move on or forget the message.
LEMMA QuietLoopStep ==
  ASSUME IInv, NEW k \in Conns, NEW pc \in {"decode", "push", "sessionEnd", "exited"},
         loop[k].pc \notin {"none", "flush", "exited"},
         LoopForgets(k, pc) \/ loop' = [loop EXCEPT ![k].pc = pc],
         UNCHANGED <<closed, done, sessionID, conn, nextID, pending, call, rec, closer, opened,
                     wire>>
  PROVE  Core'
<1>1. TypeOK /\ loop \in [Conns -> LoopStates]
  BY DEF IInv, TypeOK
<1>2. \A j \in Conns :
        /\ j # k => loop'[j] = loop[j]
        /\ loop'[j].sid = loop[j].sid /\ loop'[j].flush \subseteq loop[j].flush
        /\ loop'[j].msg = loop[j].msg \/ loop'[j].msg = Note
  BY <1>1 DEF LoopForgets, LoopStates
<1>3. loop'[k].pc = pc
  BY <1>1 DEF LoopForgets, LoopStates
<1>4. SidsKept /\ NotStarted
  BY <1>2, <1>3 DEF SidsKept, NotStarted
<1>5. SessionsInv'
  BY <1>1, <1>4, SessionsFrame DEF IInv, Core, net
<1>6. \A j \in Conns : /\ loop'[j].pc = "flush" => loop[j].pc = "flush"
                       /\ loop'[j].pc = "reply" => loop'[j] = loop[j]
  BY <1>2, <1>3
<1>7. /\ CallsInv' /\ WireInv' /\ TakenInv'
      /\ PendingIsLive' /\ ResponseToAsker' /\ HonestDisconnect'
  BY <1>2, <1>4, <1>6, QuietStep DEF net
<1> QED
  BY <1>5, <1>7 DEF Core

\* Decoding moves a message from the connection to its read loop.
LEMMA LoopDecodeStep == ASSUME IInv, NEW k \in Conns, LoopDecode(k) PROVE Core'
<1>1. TypeOK /\ loop \in [Conns -> LoopStates] /\ wire \in [Conns -> WireStates]
  BY DEF IInv, TypeOK
<1>2. /\ UNCHANGED <<closed, done, sessionID, conn, nextID, pending, call, rec, closer, opened>>
      /\ loop[k].pc = "decode" /\ wire[k].inbox # <<>>
  BY DEF LoopDecode, transport
<1>3. /\ \A j \in Conns : /\ j # k => loop'[j] = loop[j]
                          /\ loop'[j].sid = loop[j].sid /\ loop'[j].flush = loop[j].flush
      /\ loop'[k].pc = "dispatch" /\ loop'[k].msg = Head(wire[k].inbox)
  BY <1>1 DEF LoopDecode, LoopStates
<1>4. /\ \A j \in Conns : /\ j # k => wire'[j] = wire[j]
                          /\ wire'[j].received = wire[j].received
      /\ wire'[k].inbox = Tail(wire[k].inbox)
  BY <1>1 DEF LoopDecode, WireStates
<1>5. SidsKept /\ NotStarted /\ RegSame /\ RegKept /\ PendingShrinks
  BY <1>2, <1>3 DEF SidsKept, NotStarted, RegSame, RegKept, PendingShrinks
<1>6. Taken' \subseteq Taken /\ BeingFailed' \subseteq BeingFailed
  BY <1>2, <1>3, TakenShrinks
<1>7. SessionsInv'
  BY <1>1, <1>2, <1>5, SessionsFrame DEF IInv, Core
<1>8. CallsInv'
  BY <1>1, <1>2, <1>5, CallsFrame DEF IInv, Core
<1>9. WireInv'
  <2> SUFFICES ASSUME NEW j \in Conns
               PROVE  /\ \A d \in wire'[j].received : call'[d].conn = j
                      /\ \A i \in 1..Len(wire'[j].inbox) :
                           wire'[j].inbox[i].kind = "response" => Answers(wire[j].inbox[i], j)'
                      /\ loop'[j].msg.kind = "response" => Answers(loop[j].msg, j)'
    BY DEF WireInv
  <2>1. CASE j # k
    BY <2>1, <1>2, <1>3, <1>4 DEF IInv, Core, WireInv, Answers
  <2>2. CASE j = k
    <3> DEFINE box == wire[k].inbox
    <3>1. box \in Seq(Messages) /\ box # <<>>
      BY <1>1, <1>2 DEF WireStates
    <3>2. \A i \in 1..Len(box) : box[i].kind = "response" => Answers(box[i], k)
      BY DEF IInv, Core, WireInv
    <3> HIDE DEF box
    <3>3. /\ Head(box) = box[1] /\ 1 \in 1..Len(box)
          /\ \A i \in 1..Len(Tail(box)) : Tail(box)[i] = box[i + 1] /\ i + 1 \in 1..Len(box)
      BY <3>1
    <3>4. /\ Head(box).kind = "response" => Answers(Head(box), k)
          /\ \A i \in 1..Len(Tail(box)) :
               Tail(box)[i].kind = "response" => Answers(Tail(box)[i], k)
      BY <3>2, <3>3
    <3>5. \A d \in wire'[k].received : call'[d].conn = k
      BY <1>2, <1>4 DEF IInv, Core, WireInv
    <3>6. wire'[k].inbox = Tail(box) /\ loop'[k].msg = Head(box) /\ call' = call
      BY <1>2, <1>3, <1>4 DEF box
    <3>7. \A i \in 1..Len(wire'[k].inbox) :
            wire'[k].inbox[i].kind = "response" => Answers(wire[k].inbox[i], k)'
      BY <3>4, <3>6 DEF Answers
    <3>8. loop'[k].msg.kind = "response" => Answers(loop[k].msg, k)'
      BY <3>4, <3>6 DEF Answers
    <3> QED
      BY <2>2, <3>5, <3>7, <3>8
  <2> QED
    BY <2>1, <2>2
<1>10. TakenInv'
  BY <1>1, <1>2, <1>3, <1>5, <1>6, TakenFrame DEF IInv, Core
<1>11. PendingIsLive'
  BY <1>1, <1>2, <1>5, PendingFrame DEF IInv, Core, PendingIsLive
<1>12. ResponseToAsker'
  BY <1>2, ResponseFrame DEF IInv, Core
<1>13. HonestDisconnect'
  BY <1>1, <1>2, <1>5, <1>6, HonestFrame DEF IInv, Core
<1> QED
  BY <1>7, <1>8, <1>9, <1>10, <1>11, <1>12, <1>13 DEF Core

\* deliverResponse finds under the id the very call the response answers: the
\* session is current, so both are registered on the transport's connection.
LEMMA DeliverResponseStep ==
  ASSUME IInv, NEW k \in Conns, DeliverResponse(k) PROVE Core'
<1> DEFINE id == loop[k].msg.id
<1>1. TypeOK /\ loop \in [Conns -> LoopStates]
  BY DEF IInv, TypeOK
<1>2. /\ UNCHANGED <<closed, done, sessionID, conn, nextID, call, rec, closer, opened, wire>>
      /\ loop[k].msg.kind = "response" /\ ~closed /\ sessionID = loop[k].sid
      /\ loop[k].pc = "dispatch"
  BY DEF DeliverResponse, Current, net
<1>3. CASE id \notin DOMAIN pending
  <2>1. LoopForgets(k, "decode") /\ UNCHANGED pending
    BY <1>3 DEF DeliverResponse
  <2> QED
    BY <2>1, <1>2, QuietLoopStep DEF net
<1>4. CASE id \in DOMAIN pending
  <2>1. /\ loop' = [loop EXCEPT ![k].pc = "reply", ![k].flush = {pending[id]}]
        /\ DOMAIN pending' = DOMAIN pending \ {id}
        /\ \A i \in DOMAIN pending' : pending'[i] = pending[i]
    BY <1>4 DEF DeliverResponse, Without
  <2>2. /\ \A j \in Conns : /\ j # k => loop'[j] = loop[j]
                            /\ loop'[j].sid = loop[j].sid /\ loop'[j].msg = loop[j].msg
        /\ loop'[k].pc = "reply" /\ loop'[k].flush = {pending[id]}
    BY <1>1, <2>1 DEF LoopStates
  <2>3. SidsKept /\ NotStarted /\ RegSame /\ RegKept /\ PendingShrinks
    BY <1>2, <2>1, <2>2 DEF SidsKept, NotStarted, RegSame, RegKept, PendingShrinks
  <2>4. pending[id] \in Calls /\ call[pending[id]].conn = conn /\ conn # NoConn
        /\ call[pending[id]].id = id
    BY <1>1, <1>4, TypeFacts DEF IInv, Core, PendingIsLive
  <2>5. conn \in Conns
    BY <1>1, <2>4, TypeFacts, BoundsAssumption DEF Conns, NoConn
  <2>6. k = conn
    <3>1. loop[conn].sid = sessionID /\ sessionID # 0
      BY <1>1, <2>4, TypeFacts DEF IInv, Core, SessionsInv
    <3> QED
      BY <1>2, <2>5, <3>1 DEF IInv, Core, SessionsInv
  <2>7. pending[id] = loop[k].msg.of
    <3>1. Answers(loop[k].msg, k)
      BY <1>2 DEF IInv, Core, WireInv
    <3> QED
      BY <2>4, <2>6, <3>1 DEF IInv, Core, CallsInv, Answers
  <2>8. BeingFailed' \subseteq BeingFailed /\ Taken' \subseteq Taken \cup {pending[id]}
    <3>1. UNION {loop'[j].flush : j \in Conns}
            \subseteq (UNION {loop[j].flush : j \in Conns}) \cup {pending[id]}
      BY <2>2
    <3>2. UNION {loop'[j].flush : j \in {i \in Conns : loop'[i].pc = "flush"}}
            \subseteq UNION {loop[j].flush : j \in {i \in Conns : loop[i].pc = "flush"}}
      BY <2>2
    <3> QED
      BY <1>2, <3>1, <3>2 DEF BeingFailed, Taken
  <2>9. \A i \in DOMAIN pending' : pending'[i] # pending[id]
    BY <2>1, <1>4 DEF IInv, Core, PendingIsLive
  <2>10. SessionsInv'
    BY <1>1, <1>2, <2>3, SessionsFrame DEF IInv, Core
  <2>11. CallsInv'
    BY <1>1, <1>2, <2>3, CallsFrame DEF IInv, Core
  <2>12. WireInv'
    BY <1>1, <1>2, <2>2, <2>3, WireFrame DEF IInv, Core
  <2>13. TakenInv'
    <3>1. \A c \in Taken' : call'[c].conn # NoConn
      BY <1>2, <2>4, <2>8 DEF IInv, Core, TakenInv
    <3>2. \A i \in DOMAIN pending' : pending'[i] \notin Taken' /\ call'[pending'[i]].ch = Empty
      BY <1>2, <2>1, <2>8, <2>9 DEF IInv, Core, TakenInv
    <3>3. \A j \in Conns :
            loop'[j].pc = "reply" =>
              loop'[j].msg.kind = "response" /\ \A c \in loop'[j].flush : c = loop'[j].msg.of
      BY <1>2, <2>2, <2>7 DEF IInv, Core, TakenInv
    <3> QED
      BY <3>1, <3>2, <3>3 DEF TakenInv
  <2>14. PendingIsLive'
    BY <1>1, <1>2, <2>1, <2>3, PendingFrame DEF IInv, Core, PendingIsLive
  <2>15. ResponseToAsker'
    BY <1>2, ResponseFrame DEF IInv, Core
  <2>16. HonestDisconnect'
    BY <1>1, <1>2, <2>3, <2>8, HonestFrame DEF IInv, Core
  <2> QED
    BY <2>10, <2>11, <2>12, <2>13, <2>14, <2>15, <2>16 DEF Core
<1> QED
  BY <1>3, <1>4

LEMMA LoopReplyStep == ASSUME IInv, NEW k \in Conns, LoopReply(k) PROVE Core'
<1>1. TypeOK /\ loop \in [Conns -> LoopStates] /\ call \in [Calls -> CallStates]
  BY DEF IInv, TypeOK
<1>2. /\ UNCHANGED <<closed, done, sessionID, conn, nextID, pending, rec, closer, net>>
      /\ loop[k].pc = "reply"
  BY DEF LoopReply, transport
<1>3. CASE LoopForgets(k, "exited") /\ UNCHANGED call
  BY <1>2, <1>3, QuietLoopStep DEF net
<1>4. CASE /\ call' = [c \in Calls |->
                         IF c \in loop[k].flush
                         THEN [call[c] EXCEPT !.ch = Outcome("response", loop[k].msg.of)]
                         ELSE call[c]]
           /\ LoopForgets(k, "decode")
  <2>1. \A d \in Calls :
          /\ call'[d].pc = call[d].pc /\ call'[d].id = call[d].id
          /\ call'[d].conn = call[d].conn /\ call'[d].result = call[d].result
          /\ \/ call'[d].ch = call[d].ch
             \/ d \in loop[k].flush /\ call'[d].ch = Outcome("response", loop[k].msg.of)
    BY <1>1, <1>4 DEF CallStates
  <2>2. \A d \in loop[k].flush : d = loop[k].msg.of
    BY <1>2 DEF IInv, Core, TakenInv
  <2>3. \A d \in Calls : call'[d].ch = call[d].ch
                          \/ (d \in Taken /\ call'[d].ch = Outcome("response", d))
    BY <2>1, <2>2 DEF Taken
  <2>4. /\ \A j \in Conns : /\ j # k => loop'[j] = loop[j]
                            /\ loop'[j].sid = loop[j].sid
                            /\ loop'[j].flush \subseteq loop[j].flush
                            /\ loop'[j].msg = loop[j].msg \/ loop'[j].msg = Note
        /\ loop'[k].pc = "decode"
    BY <1>1, <1>4 DEF LoopForgets, LoopStates
  <2>5. SidsKept /\ NotStarted /\ RegSame /\ RegKept /\ PendingShrinks
    BY <1>2, <2>1, <2>4 DEF SidsKept, NotStarted, RegSame, RegKept, PendingShrinks
  <2>6. Taken' \subseteq Taken /\ BeingFailed' \subseteq BeingFailed
    BY <1>2, <2>4, TakenShrinks
  <2>7. \A d \in Calls : /\ Outcome("response", d).kind = "response"
                         /\ Outcome("response", d).of = d
    BY DEF Outcome
  <2>8. SessionsInv'
    BY <1>1, <1>2, <2>5, SessionsFrame DEF IInv, Core, net
  <2>9. CallsInv'
    <3>1. \A d \in Calls : call[d].conn = NoConn => d \notin Taken
      BY DEF IInv, Core, TakenInv
    <3> QED
      BY <1>1, <1>2, <2>1, <2>3, <2>5, <3>1, CallsFrame DEF IInv, Core
  <2>10. WireInv'
    BY <1>1, <1>2, <2>4, <2>5, WireFrame DEF IInv, Core, net
  <2>11. TakenInv'
    BY <1>1, <2>3, <2>4, <2>5, <2>6, TakenFrame DEF IInv, Core
  <2>12. PendingIsLive'
    <3>1. \A i \in DOMAIN pending : /\ pending[i] \in Calls
                                    /\ call[pending[i]].pc \in {"write", "await", "remove"}
      BY <1>1, TypeFacts DEF IInv, Core, PendingIsLive
    <3>2. \A i \in DOMAIN pending' : call'[pending'[i]].pc \in {"write", "await", "remove"}
      BY <1>2, <2>1, <3>1
    <3> QED
      BY <1>1, <1>2, <2>5, <3>2, PendingFrame DEF IInv, Core
  <2>13. ResponseToAsker'
    BY <2>1, <2>3, <2>7 DEF IInv, Core, ResponseToAsker
  <2>14. HonestDisconnect'
    BY <1>1, <1>2, <2>1, <2>3, <2>5, <2>6, <2>7, HonestFrame DEF IInv, Core
  <2> QED
    BY <2>8, <2>9, <2>10, <2>11, <2>12, <2>13, <2>14 DEF Core
<1> QED
  BY <1>3, <1>4 DEF LoopReply

LEMMA LoopFlushStep == ASSUME IInv, NEW k \in Conns, LoopFlush(k) PROVE Core'
<1>1. TypeOK /\ loop \in [Conns -> LoopStates]
  BY DEF IInv, TypeOK
<1>2. /\ UNCHANGED <<closed, done, sessionID, conn, nextID, pending, rec, closer, opened, wire>>
      /\ loop[k].pc = "flush" /\ LoopForgets(k, "exited")
      /\ call' = Flushed(loop[k].flush, "ErrDisconnected")
  BY DEF LoopFlush, transport, net
<1>3. /\ \A j \in Conns : /\ j # k => loop'[j] = loop[j]
                          /\ loop'[j].sid = loop[j].sid
                          /\ loop'[j].flush \subseteq loop[j].flush
                          /\ loop'[j].msg = loop[j].msg \/ loop'[j].msg = Note
      /\ loop'[k].pc = "exited"
  BY <1>1, <1>2 DEF LoopForgets, LoopStates
<1>4. SidsKept /\ NotStarted
  BY <1>2, <1>3 DEF SidsKept, NotStarted
<1>5. Taken' \subseteq Taken /\ BeingFailed' \subseteq BeingFailed
  BY <1>2, <1>3, TakenShrinks
<1>6. loop[k].flush \subseteq BeingFailed
  BY <1>2 DEF BeingFailed
<1>7. SessionsInv'
  BY <1>1, <1>2, <1>4, SessionsFrame DEF IInv, Core
<1>8. /\ CallsInv' /\ WireInv' /\ TakenInv'
      /\ PendingIsLive' /\ ResponseToAsker' /\ HonestDisconnect'
  BY <1>2, <1>3, <1>4, <1>5, <1>6, FlushStep
<1> QED
  BY <1>7, <1>8 DEF Core

\* The server sends a request, a notification, or the response to a call it
\* has received on that connection.
LEMMA ServerSendsStep ==
  ASSUME IInv, NEW k \in Conns, NEW m \in Messages, ServerSends(k, m),
         m.kind = "response" => Answers(m, k)
  PROVE  Core'
<1>1. TypeOK /\ wire \in [Conns -> WireStates]
  BY DEF IInv, TypeOK
<1>2. UNCHANGED <<closed, done, sessionID, conn, nextID, pending, call, loop, rec, closer, opened>>
  BY DEF ServerSends, transport
<1>3. \A j \in Conns : /\ j # k => wire'[j] = wire[j]
                       /\ wire'[j].received = wire[j].received
  BY <1>1 DEF ServerSends, WireStates
<1>4. wire'[k].inbox = Append(wire[k].inbox, m)
  BY <1>1 DEF ServerSends, WireStates
<1>5. SidsKept /\ NotStarted /\ RegSame /\ RegKept /\ PendingShrinks
  BY <1>2 DEF SidsKept, NotStarted, RegSame, RegKept, PendingShrinks
<1>6. Taken' = Taken /\ BeingFailed' = BeingFailed
  BY <1>2 DEF Taken, BeingFailed
<1>7. SessionsInv'
  BY <1>1, <1>2, <1>5, SessionsFrame DEF IInv, Core
<1>8. CallsInv'
  BY <1>1, <1>2, <1>5, CallsFrame DEF IInv, Core
<1>9. WireInv'
  <2> SUFFICES ASSUME NEW j \in Conns
               PROVE  /\ \A d \in wire'[j].received : call'[d].conn = j
                      /\ \A i \in 1..Len(wire'[j].inbox) :
                           wire'[j].inbox[i].kind = "response" => Answers(wire[j].inbox[i], j)'
                      /\ loop'[j].msg.kind = "response" => Answers(loop[j].msg, j)'
    BY DEF WireInv
  <2>1. /\ \A d \in wire'[j].received : call'[d].conn = j
        /\ loop'[j].msg.kind = "response" => Answers(loop[j].msg, j)'
    BY <1>2, <1>3 DEF IInv, Core, WireInv, Answers
  <2>2. CASE j # k
    BY <2>1, <2>2, <1>2, <1>3 DEF IInv, Core, WireInv, Answers
  <2>3. CASE j = k
    <3> DEFINE box == wire[k].inbox
    <3>1. box \in Seq(Messages)
      BY <1>1 DEF WireStates
    <3>2. \A i \in 1..Len(box) : box[i].kind = "response" => Answers(box[i], k)
      BY DEF IInv, Core, WireInv
    <3> HIDE DEF box
    <3>3. \A i \in 1..Len(Append(box, m)) :
            \/ i \in 1..Len(box) /\ Append(box, m)[i] = box[i]
            \/ Append(box, m)[i] = m
      BY <3>1
    <3>4. \A i \in 1..Len(Append(box, m)) :
            Append(box, m)[i].kind = "response" => Answers(Append(box, m)[i], k)
      BY <3>2, <3>3
    <3> QED
      BY <2>1, <2>3, <1>2, <1>4, <3>4 DEF Answers, box
  <2> QED
    BY <2>2, <2>3
<1>10. TakenInv'
  BY <1>1, <1>2, <1>5, <1>6, TakenFrame DEF IInv, Core
<1>11. PendingIsLive'
  BY <1>1, <1>2, <1>5, PendingFrame DEF IInv, Core, PendingIsLive
<1>12. ResponseToAsker'
  BY <1>2, ResponseFrame DEF IInv, Core
<1>13. HonestDisconnect'
  BY <1>1, <1>2, <1>5, <1>6, HonestFrame DEF IInv, Core
<1> QED
  BY <1>7, <1>8, <1>9, <1>10, <1>11, <1>12, <1>13 DEF Core

LEMMA ServerStepKeeps == ASSUME IInv, NEW k \in Conns, ServerStep(k) PROVE Core'
<1>1. CASE ServerResponds(k)
  <2>1. PICK c \in wire[k].received : ServerSends(k, Message("response", call[c].id, c, None))
    BY <1>1 DEF ServerResponds
  <2>2. c \in Calls /\ call[c].id \in Nat /\ call[c].conn = k
    BY TypeFacts DEF IInv, Core, WireInv
  <2>3. Message("response", call[c].id, c, None) \in Messages
    BY <2>2, ValueTypes
  <2>4. Answers(Message("response", call[c].id, c, None), k)
    BY <2>2 DEF Answers, Message
  <2> QED
    BY <2>1, <2>3, <2>4, ServerSendsStep
<1>2. CASE ServerNotifies(k) \/ ServerMisbehaves(k)
  <2>1. Note \in Messages /\ Malformed \in Messages
    BY ValueTypes
  <2>2. Note.kind # "response" /\ Malformed.kind # "response"
    BY DEF Note, Malformed, Message
  <2> QED
    BY <1>2, <2>1, <2>2, ServerSendsStep DEF ServerNotifies, ServerMisbehaves
<1>3. CASE \E q \in ServerReqs : ServerRequests(k, q)
  <2>1. PICK q \in ServerReqs : ServerSends(k, Message("request", 0, None, q))
    BY <1>3 DEF ServerRequests
  <2>2. Message("request", 0, None, q) \in Messages
    BY ValueTypes
  <2>3. Message("request", 0, None, q).kind # "response"
    BY DEF Message
  <2> QED
    BY <2>1, <2>2, <2>3, ServerSendsStep
<1>4. CASE ServerDrops(k)
  <2>1. TypeOK /\ wire \in [Conns -> WireStates]
    BY DEF IInv, TypeOK
  <2>2. UNCHANGED <<closed, done, sessionID, conn, nextID, pending, call, loop, rec, closer, opened>>
    BY <1>4 DEF ServerDrops, transport
  <2>3. \A j \in Conns : /\ wire'[j].received = wire[j].received
                         /\ wire'[j].inbox = wire[j].inbox
    BY <1>4, <2>1 DEF ServerDrops, WireStates
  <2>4. SidsKept /\ NotStarted
    BY <2>2 DEF SidsKept, NotStarted
  <2>5. SessionsInv'
    BY <2>1, <2>2, <2>4, SessionsFrame DEF IInv, Core
  <2>6. /\ CallsInv' /\ WireInv' /\ TakenInv'
        /\ PendingIsLive' /\ ResponseToAsker' /\ HonestDisconnect'
    BY <2>2, <2>3, <2>4, QuietStep
  <2> QED
    BY <2>5, <2>6 DEF Core
<1> QED
  BY <1>1, <1>2, <1>3, <1>4 DEF ServerStep

LEMMA LoopStepKeeps == ASSUME IInv, NEW k \in Conns, LoopStep(k) PROVE Core'
<1>1. CASE LoopDecodeFails(k) \/ DeliverInbound(k) \/ LoopRejects(k)
  <2>1. PICK pc \in {"push", "sessionEnd"} :
          LoopGoes(k, pc) /\ loop[k].pc \in {"decode", "dispatch"}
    BY <1>1 DEF LoopDecodeFails, DeliverInbound, LoopRejects
  <2>2. /\ loop' = [loop EXCEPT ![k].pc = pc]
        /\ UNCHANGED <<closed, done, sessionID, conn, nextID, pending, call, rec, closer, net>>
    BY <2>1 DEF LoopGoes, transport
  <2> QED
    BY <2>1, <2>2, QuietLoopStep DEF net
<1>2. CASE LoopStale(k) \/ LoopPushDone(k) \/ LoopPushRequest(k) \/ LoopPushNote(k)
  <2>1. PICK pc \in {"decode", "exited"} :
          LoopForgets(k, pc) /\ loop[k].pc \in {"dispatch", "push"}
    BY <1>2 DEF LoopStale, LoopPushDone, LoopPushRequest, LoopPushNote
  <2>2. UNCHANGED <<closed, done, sessionID, conn, nextID, pending, call, rec, closer, net>>
    BY <1>2 DEF LoopStale, LoopPushDone, LoopPushRequest, LoopPushNote, transport
  <2> QED
    BY <2>1, <2>2, QuietLoopStep DEF net
<1>3. CASE HandleSessionEnd(k)
  <2>1. CASE ~EndsSession(k)
    <3>1. /\ LoopForgets(k, "exited") /\ loop[k].pc = "sessionEnd"
          /\ UNCHANGED <<closed, done, sessionID, conn, nextID, pending, call, rec, closer, net>>
      BY <1>3, <2>1 DEF HandleSessionEnd
    <3> QED
      BY <3>1, QuietLoopStep DEF net
  <2> QED
    BY <1>3, <2>1, HandleSessionEndStep
<1> QED
  BY <1>1, <1>2, <1>3, LoopDecodeStep, DeliverResponseStep, LoopReplyStep, LoopFlushStep
     DEF LoopStep

-----------------------------------------------------------------------------
(* Putting the steps together. *)

LEMMA CoreInit == Init => Core
<1> SUFFICES ASSUME Init PROVE Core
  OBVIOUS
<1>1. /\ closed = FALSE /\ done = FALSE /\ sessionID = 1 /\ conn = 1 /\ opened = 1
      /\ DOMAIN pending = {}
  BY DEF Init, EmptyMap
<1>2. \A c \in Calls : /\ call[c].pc = "start" /\ call[c].conn = NoConn
                       /\ call[c].ch = Empty /\ call[c].result = Empty
  BY DEF Init
<1>3. \A k \in Conns : /\ loop[k].sid = IF k = 1 THEN 1 ELSE 0
                       /\ loop[k].pc = IF k = 1 THEN "decode" ELSE "none"
                       /\ loop[k].msg = Note /\ loop[k].flush = {}
  BY DEF Init
<1>4. \A r \in Reconnectors : rec[r].pc = "idle" /\ rec[r].flush = {}
  BY DEF Init
<1>5. closer.pc = "idle" /\ closer.flush = {}
  BY DEF Init
<1>6. \A k \in Conns : wire[k].received = {} /\ Len(wire[k].inbox) = 0
  BY DEF Init
<1>7. Note.kind # "response" /\ Empty.kind = "empty"
  BY DEF Note, Message, Empty, Outcome
<1>8. 1 \in Conns /\ \A k \in Conns : k \in Nat
  BY BoundsAssumption DEF Conns
<1>9. SessionsInv
  BY <1>1, <1>3, <1>4, <1>5, <1>8 DEF SessionsInv, Dialled
<1>10. CallsInv
  BY <1>2 DEF CallsInv
<1>11. WireInv
  BY <1>3, <1>6, <1>7 DEF WireInv
<1>12. Taken = {} /\ BeingFailed = {}
  BY <1>3, <1>4, <1>5 DEF Taken, BeingFailed
<1>13. TakenInv
  BY <1>1, <1>3, <1>12 DEF TakenInv
<1>14. PendingIsLive /\ ResponseToAsker /\ HonestDisconnect
  BY <1>1, <1>2, <1>7, <1>12 DEF PendingIsLive, ResponseToAsker, HonestDisconnect
<1> QED
  BY <1>9, <1>10, <1>11, <1>13, <1>14 DEF Core

\* A step that touches only the inbound channels, the requests and contexts.
LEMMA UntouchedStep == ASSUME IInv, UNCHANGED <<others, call>> PROVE Core'
<1>1. TypeOK /\ SidsKept /\ NotStarted
  BY DEF IInv, SidsKept, NotStarted, others
<1>2. SessionsInv'
  BY <1>1, SessionsFrame DEF IInv, Core, others, net
<1>3. /\ CallsInv' /\ WireInv' /\ TakenInv'
      /\ PendingIsLive' /\ ResponseToAsker' /\ HonestDisconnect'
  BY <1>1, QuietStep DEF others, net
<1> QED
  BY <1>2, <1>3 DEF Core

LEMMA CoreStep == IInv /\ [Next]_vars => Core'
<1> SUFFICES ASSUME IInv, [Next]_vars PROVE Core'
  OBVIOUS
<1>1. ASSUME NEW c \in Calls,
             CallRefused(c) \/ CallRegister(c) \/ CallCancelled(c) \/ CallStep(c)
      PROVE  Core'
  BY <1>1, CallRefusedStep, CallRegisterStep, CallFailsStep, CallGetsReplyStep,
     RemovePendingStep DEF CallStep
<1>7. ASSUME NEW w, NEW k, WriteLock(w, k) PROVE Core'
  BY <1>7, UntouchedStep DEF WriteLock, others, transport
<1>8. CASE WriteEnds
  <2>1. ASSUME NEW q \in ServerReqs, SendWrite(q) \/ SendWriteFails(q) PROVE Core'
    BY <2>1, UntouchedStep DEF SendWrite, SendWriteFails, others, transport
  <2>2. ASSUME NEW k \in Conns, NotifyWrite(k) PROVE Core'
    BY <2>2, UntouchedStep DEF NotifyWrite, others, transport
  <2> QED
    BY <1>8, <2>1, <2>2, CallWriteStep, CallFailsStep DEF WriteEnds
<1>2. ASSUME NEW r \in Reconnectors, ReconnectStart(r) \/ ReconnectDial(r) \/ ReconnectStep(r)
      PROVE  Core'
  BY <1>2, ReconnectQuietStep, ReconnectDialStep, ReconnectInstallStep, ReconnectFinishStep
     DEF ReconnectStep
<1>3. ASSUME NEW k \in Conns, LoopStep(k) \/ ServerStep(k) PROVE Core'
  BY <1>3, LoopStepKeeps, ServerStepKeeps
<1>4. CASE TakeNote \/ TakeRequest
  BY <1>4, UntouchedStep DEF TakeNote, TakeRequest, others, transport, net
<1>5. ASSUME NEW q \in ServerReqs, RequestStep(q) PROVE Core'
  BY <1>5, <1>7, UntouchedStep DEF RequestStep, Reply, Send, SendRefused, SendLock,
     RequestGoes, others, transport, net
<1>6. CASE UNCHANGED vars
  BY <1>6, UntouchedStep DEF vars, others, transport, net
<1> QED
  BY <1>1, <1>2, <1>3, <1>4, <1>5, <1>6, <1>7, <1>8, CloseLockedStep, CloseFinishStep
     DEF Next, CallLock, NotifyLock

\* The inductive invariant holds in every reachable state.
THEOREM Inductive == Spec => []IInv
<1>1. Init => IInv
  BY TypeInit, CoreInit DEF IInv
<1>2. IInv /\ [Next]_vars => IInv'
  BY TypeStep, CoreStep DEF IInv
<1> QED
  BY <1>1, <1>2, PTL DEF Spec

\* A Call is never given the response to another call, however many sessions
\* reuse its id (deliverResponse, Reconnect).
THEOREM ResponsesReachAskers == Spec => []ResponseToAsker
<1>1. IInv => ResponseToAsker
  BY DEF IInv, Core
<1> QED
  BY <1>1, Inductive, PTL

\* t.pending holds only calls of the current session that have not returned
\* (Call, removePending, flushPendingLocked).
THEOREM PendingStaysLive == Spec => []PendingIsLive
<1>1. IInv => PendingIsLive
  BY DEF IInv, Core
<1> QED
  BY <1>1, Inductive, PTL

\* A registered Call is told that its session ended only when it has
\* (handleSessionEnd, Reconnect, Close).
THEOREM DisconnectsAreHonest == Spec => []HonestDisconnect
<1>1. IInv => HonestDisconnect
  BY DEF IInv, Core
<1> QED
  BY <1>1, Inductive, PTL
=============================================================================
