--------------------------- MODULE WebSocketProofs ---------------------------
(***************************************************************************)
(* The WebSocket transport loses no waiter and keeps the promise of Call,  *)
(* for any number of Calls and of Closes and any capacity of its channels. *)
(*                                                                         *)
(* The argument: ids are never reused, so an entry of w.pending, a         *)
(* response on its way and a Call that share an id belong together (Ids,   *)
(* Messages); what is in a reply channel is therefore this Call's response *)
(* or a terminate's ErrClosed (Results); and whoever takes an entry out of *)
(* the map holds its Call until its channel is filled or done is closed    *)
(* (Held, WaiterReachable).                                                *)
(***************************************************************************)
EXTENDS WebSocketTransport, TLAPS

Frames == [kind : {"response", "request", "note"}, id : Nat, of : Calls \cup {None}]
LoopLocals == [pc : {"read", "push", "lookup", "send", "terminate", "ended"},
               msg : Frames, to : Calls \cup {None}]
CallLocals == [pc : {"start", "write", "await", "remove", "returned"}, id : Nat,
               ch : {"empty", "response", "foreign", "ErrClosed"},
               result : {"none", "response", "foreign", "ErrClosed", "error"}]

-----------------------------------------------------------------------------
(* The inductive invariant. *)

CallTypes ==
  /\ nextID \in Nat /\ call \in [Calls -> CallLocals]
  /\ \A c \in Calls : call[c].id <= nextID
  /\ DOMAIN pending \subseteq 1..nextID
  /\ \A i \in DOMAIN pending : pending[i] \in Calls

LoopTypes ==
  /\ loop \in LoopLocals
  /\ closer \in [Closers -> {"idle", "take", "terminate", "returned"}]
  /\ flush \in [Enders -> SUBSET Calls]
  /\ done \in BOOLEAN

QueueTypes ==
  /\ requests \in 0..QueueCap /\ notes \in 0..QueueCap /\ handling \in BOOLEAN

PeerTypes ==
  /\ conn \in {"open", "dropped", "closed"}
  /\ inbox \in Seq(Frames) /\ Len(inbox) <= MaxInbox
  /\ received \subseteq Calls /\ answered \subseteq received

\* An id is given to one Call, and names its entry of the map.
Ids ==
  /\ \A c \in Calls : call[c].pc = "start" => call[c].id = 0 /\ c \notin received
  /\ \A c \in Calls : call[c].pc \in {"write", "await", "remove"} => call[c].id # 0
  /\ \A c, d \in Calls : call[c].id = call[d].id /\ call[c].id # 0 => c = d
  /\ \A i \in DOMAIN pending : call[pending[i]].id = i
  /\ \A c \in received : call[c].id # 0

\* A response carries the id of the Call that it answers.
Right(f) == f.of \in answered /\ call[f.of].id = f.id
Messages ==
  /\ \A i \in 1..Len(inbox) : inbox[i].kind = "response" => Right(inbox[i])
  /\ loop.pc \in {"lookup", "send"} => Right(loop.msg)
  /\ loop.pc = "send" => loop.to = loop.msg.of

\* What a Call has in its channel, or is about to return, is its own.
Results ==
  \A c \in Calls :
    /\ call[c].ch # "foreign"
    /\ call[c].ch = "response" => c \in answered
    /\ call[c].ch = "ErrClosed" => done
    /\ call[c].pc = "remove" => call[c].result \in {"error", "ErrClosed"}
    /\ call[c].pc = "remove" /\ call[c].result = "ErrClosed" => done

\* A terminate holds Calls only while it runs, and the loop has closed done, or
\* seen it closed, when it ends.
Held ==
  /\ loop.pc # "terminate" => flush["loop"] = {}
  /\ \A k \in Closers : closer[k] # "terminate" => flush[k] = {}
  /\ loop.pc = "ended" => done

-----------------------------------------------------------------------------
(* Types. *)

LEMMA Bounds == QueueCap \in Nat /\ MaxInbox \in Nat /\ None \notin Calls /\ "loop" \notin Closers
  BY WebSocketAssumption

LEMMA AtReadType == AtRead \in LoopLocals /\ AtEnd \in LoopLocals
  BY DEF AtRead, AtEnd, LoopLocals, Note, Frame, Frames

\* The steps by what they do to the Calls, the ids and the map.
CallLeaves(c) ==
  \/ CallWriteFails(c) \/ CallCancelledInWrite(c) \/ CallCancelled(c) \/ CallSeesDone(c)
TakesMap(g) == Takes(g) /\ UNCHANGED <<nextID, call, received>>
FailsMap(g) == Fails(g) /\ UNCHANGED <<nextID, pending, received>>
CallsAlone == UNCHANGED <<nextID, pending, call, received>>

LEMMA StepKinds ==
  ASSUME [Next]_vars
  PROVE  \/ \E c \in Calls : \/ CallRefused(c) \/ CallRegister(c) \/ CallWrite(c)
                             \/ CallLeaves(c) \/ CallGetsReply(c) \/ RemovePending(c)
         \/ DeliverLookup \/ DeliverSend
         \/ \E g \in Enders : TakesMap(g) \/ FailsMap(g)
         \/ CallsAlone
  BY DEF Next, CallProceeds, LoopProceeds, CloseProceeds, CallLeaves, TakesMap, FailsMap,
         CallsAlone, Enders, NotifyCancelledInWrite, ReadFrame, PushRequest, PushNote,
         PushSeesDone, ReadFails, LoopTerminates, CloseNothing, CloseCancels, CloseTakes,
         CloseTerminates, HandlerTakes, HandlerReplies, NoteTaken, ServerAnswers,
         ServerRequests, ServerNotes, ServerSends, Drop, vars, peer, server

LEMMA CallTypesStep ==
  ASSUME CallTypes, LoopTypes, [Next]_vars
  PROVE  CallTypes'
<1> USE DEF CallTypes, CallLocals
<1>1. ASSUME NEW c \in Calls, CallRefused(c) PROVE CallTypes'
  BY <1>1, ZenonT(40) DEF CallRefused, CallReturns
<1>2. ASSUME NEW c \in Calls, CallRegister(c) PROVE CallTypes'
  <2>1. nextID' \in Nat /\ nextID <= nextID'
    BY <1>2 DEF CallRegister
  <2>2. call' \in [Calls -> CallLocals]
    BY <1>2, <2>1 DEF CallRegister
  <2>3. \A d \in Calls : call'[d].id <= nextID'
    BY <1>2 DEF CallRegister
  <2>4. DOMAIN pending' = DOMAIN pending \cup {nextID + 1}
    BY <1>2 DEF CallRegister, With
  <2>5. \A i \in DOMAIN pending' : pending'[i] \in Calls
    BY <1>2 DEF CallRegister, With
  <2>6. DOMAIN pending' \subseteq 1..nextID'
    BY <1>2, <2>4 DEF CallRegister
  <2> QED
    BY <2>1, <2>2, <2>3, <2>5, <2>6
<1>3. ASSUME NEW c \in Calls, CallWrite(c) PROVE CallTypes'
  BY <1>3 DEF CallWrite
<1>4. ASSUME NEW c \in Calls, CallLeaves(c) PROVE CallTypes'
  BY <1>4 DEF CallLeaves, CallWriteFails, CallCancelledInWrite, CallCancelled, CallSeesDone,
              CallFails
<1>5. ASSUME NEW c \in Calls, CallGetsReply(c) PROVE CallTypes'
  BY <1>5, ZenonT(40) DEF CallGetsReply, CallReturns
<1>6. ASSUME NEW c \in Calls, RemovePending(c) PROVE CallTypes'
  BY <1>6 DEF RemovePending, Without
<1>7. ASSUME DeliverLookup PROVE CallTypes'
  BY <1>7 DEF DeliverLookup, Without
<1>8. ASSUME DeliverSend PROVE CallTypes'
  BY <1>8 DEF DeliverSend
<1>9. ASSUME NEW g \in Enders, TakesMap(g) PROVE CallTypes'
  BY <1>9 DEF TakesMap, Takes, EmptyMap
<1>10. ASSUME NEW g \in Enders, FailsMap(g) PROVE CallTypes'
  BY <1>10 DEF FailsMap, Fails
<1>11. ASSUME CallsAlone PROVE CallTypes'
  BY <1>11 DEF CallsAlone
<1> QED
  BY <1>1, <1>2, <1>3, <1>4, <1>5, <1>6, <1>7, <1>8, <1>9, <1>10, <1>11, StepKinds

LEMMA LoopTypesStep ==
  ASSUME CallTypes, LoopTypes, PeerTypes, [Next]_vars
  PROVE  LoopTypes'
<1> USE DEF LoopTypes
<1>1. ASSUME ReadFrame PROVE LoopTypes'
  <2>1. Head(inbox) \in Frames
    BY <1>1 DEF ReadFrame, PeerTypes
  <2>2. loop' \in LoopLocals
    BY <1>1, <2>1 DEF ReadFrame, LoopLocals
  <2> QED
    BY <1>1, <2>2 DEF ReadFrame
<1>2. ASSUME DeliverLookup PROVE LoopTypes'
  <2>1. loop' \in LoopLocals
    BY <1>2, AtReadType, ZenonT(40) DEF DeliverLookup, LoopLocals, CallTypes
  <2> QED
    BY <1>2, <2>1 DEF DeliverLookup
<1>3. ASSUME PushRequest \/ PushNote \/ PushSeesDone \/ DeliverSend PROVE LoopTypes'
  BY <1>3, AtReadType DEF PushRequest, PushNote, PushSeesDone, DeliverSend
<1>4. ASSUME ReadFails PROVE LoopTypes'
  <2>1. loop' \in LoopLocals
    BY <1>4 DEF ReadFails, LoopLocals
  <2> QED
    BY <1>4, <2>1 DEF ReadFails, Takes, Channels, CallTypes
<1>5. ASSUME LoopTerminates PROVE LoopTypes'
  BY <1>5, AtReadType DEF LoopTerminates, Fails
<1>6. ASSUME NEW k \in Closers, CloseNothing(k) \/ CloseCancels(k) PROVE LoopTypes'
  BY <1>6 DEF CloseNothing, CloseCancels
<1>7. ASSUME NEW k \in Closers, CloseTakes(k) PROVE LoopTypes'
  BY <1>7 DEF CloseTakes, Takes, Channels, CallTypes
<1>8. ASSUME NEW k \in Closers, CloseTerminates(k) PROVE LoopTypes'
  BY <1>8 DEF CloseTerminates, Fails
<1>9. ASSUME UNCHANGED <<loop, closer, flush, done>> PROVE LoopTypes'
  BY <1>9
<1> QED
  BY <1>1, <1>2, <1>3, <1>4, <1>5, <1>6, <1>7, <1>8, <1>9
     DEF Next, CallProceeds, LoopProceeds, CloseProceeds, CallRefused, CallRegister,
         CallWrite, CallWriteFails, CallCancelledInWrite, CallCancelled, CallGetsReply,
         CallSeesDone, RemovePending, NotifyCancelledInWrite, HandlerTakes, HandlerReplies,
         NoteTaken, ServerAnswers, ServerRequests, ServerNotes, ServerSends, Drop, vars

LEMMA QueueTypesStep ==
  ASSUME QueueTypes, [Next]_vars
  PROVE  QueueTypes'
<1> USE Bounds DEF QueueTypes
<1>1. ASSUME PushRequest PROVE QueueTypes'
  BY <1>1 DEF PushRequest, HasRoom
<1>2. ASSUME PushNote PROVE QueueTypes'
  BY <1>2 DEF PushNote, HasRoom
<1>3. ASSUME HandlerTakes PROVE QueueTypes'
  BY <1>3 DEF HandlerTakes
<1>4. ASSUME HandlerReplies PROVE QueueTypes'
  BY <1>4 DEF HandlerReplies, queues
<1>5. ASSUME NoteTaken PROVE QueueTypes'
  BY <1>5 DEF NoteTaken
<1>6. ASSUME UNCHANGED <<requests, notes, handling>> PROVE QueueTypes'
  BY <1>6
<1> QED
  BY <1>1, <1>2, <1>3, <1>4, <1>5, <1>6
     DEF Next, CallProceeds, LoopProceeds, CloseProceeds, CallRefused, CallRegister,
         CallWrite, CallWriteFails, CallCancelledInWrite, CallCancelled, CallGetsReply,
         CallSeesDone, RemovePending, NotifyCancelledInWrite, ServerAnswers, ServerRequests,
         ServerNotes, ServerSends, Drop, ReadFrame, PushSeesDone, DeliverLookup, DeliverSend,
         ReadFails, LoopTerminates, CloseNothing, CloseCancels, CloseTakes, CloseTerminates,
         vars, queues

LEMMA PeerTypesStep ==
  ASSUME PeerTypes, CallTypes, [Next]_vars
  PROVE  PeerTypes'
<1> USE DEF PeerTypes
<1>1. ASSUME CloseConn, UNCHANGED server PROVE PeerTypes'
  BY <1>1, Bounds DEF CloseConn, server
<1>2. ASSUME NEW c \in Calls, CallWrite(c) PROVE PeerTypes'
  BY <1>2 DEF CallWrite
<1>3. ASSUME ReadFrame PROVE PeerTypes'
  <2>1. Tail(inbox) \in Seq(Frames) /\ Len(Tail(inbox)) <= MaxInbox
    BY <1>3, Bounds DEF ReadFrame
  <2> QED
    BY <1>3, <2>1 DEF ReadFrame, server
<1>4. ASSUME NEW f \in Frames, ServerSends(f) PROVE inbox' \in Seq(Frames) /\ Len(inbox') <= MaxInbox
  BY <1>4, Bounds DEF ServerSends
<1>5. ASSUME NEW c \in Calls, ServerAnswers(c) PROVE PeerTypes'
  <2>1. Frame("response", call[c].id, c) \in Frames
    BY DEF Frame, Frames, CallTypes, CallLocals
  <2>2. inbox' \in Seq(Frames) /\ Len(inbox') <= MaxInbox
    BY <1>4, <1>5, <2>1 DEF ServerAnswers
  <2> QED
    BY <1>5, <2>2 DEF ServerAnswers, ServerSends
<1>6. ASSUME ServerRequests \/ ServerNotes PROVE PeerTypes'
  <2>1. Request \in Frames /\ Note \in Frames
    BY DEF Request, Note, Frame, Frames
  <2>2. inbox' \in Seq(Frames) /\ Len(inbox') <= MaxInbox
    BY <1>4, <1>6, <2>1 DEF ServerRequests, ServerNotes
  <2> QED
    BY <1>6, <2>2 DEF ServerRequests, ServerNotes, ServerSends
<1>7. ASSUME Drop PROVE PeerTypes'
  BY <1>7 DEF Drop, server
<1>8. ASSUME UNCHANGED peer PROVE PeerTypes'
  BY <1>8 DEF peer, server
<1> QED
  BY <1>1, <1>2, <1>3, <1>5, <1>6, <1>7, <1>8
     DEF Next, CallProceeds, LoopProceeds, CloseProceeds, CallRefused, CallRegister,
         CallWriteFails, CallCancelledInWrite, CallCancelled, CallGetsReply,
         CallSeesDone, RemovePending, NotifyCancelledInWrite, PushRequest, PushNote,
         PushSeesDone, DeliverLookup, DeliverSend, ReadFails, LoopTerminates, CloseNothing,
         CloseCancels, CloseTakes, CloseTerminates, HandlerTakes, HandlerReplies, NoteTaken, vars

-----------------------------------------------------------------------------
(* Ids. *)

LEMMA IdsStep ==
  ASSUME CallTypes, PeerTypes, Ids, [Next]_vars
  PROVE  Ids'
<1> USE DEF CallTypes, CallLocals, PeerTypes, Ids
<1>1. ASSUME NEW c \in Calls, CallRefused(c) PROVE Ids'
  BY <1>1 DEF CallRefused, CallReturns, peer, server
<1>2. ASSUME NEW c \in Calls, CallRegister(c) PROVE Ids'
  <2>1. /\ call'[c].id = nextID + 1 /\ call'[c].pc = "write"
        /\ \A d \in Calls : d # c => call'[d] = call[d]
        /\ received' = received
    BY <1>2 DEF CallRegister, peer, server
  <2>2. nextID + 1 # 0 /\ \A d \in Calls : call[d].id # nextID + 1
    OBVIOUS
  <2>3. /\ DOMAIN pending' = DOMAIN pending \cup {nextID + 1} /\ pending'[nextID + 1] = c
        /\ nextID + 1 \notin DOMAIN pending
        /\ \A i \in DOMAIN pending : pending'[i] = pending[i]
    BY <1>2 DEF CallRegister, With
  <2>4. call[c].pc = "start"
    BY <1>2 DEF CallRegister
  <2>5. \A i \in DOMAIN pending' : call'[pending'[i]].id = i
    <3> SUFFICES ASSUME NEW i \in DOMAIN pending' PROVE call'[pending'[i]].id = i
      OBVIOUS
    <3>1. CASE i = nextID + 1
      BY <2>1, <2>3, <3>1
    <3>2. CASE i \in DOMAIN pending
      <4>1. i # 0 /\ pending[i] # c
        BY <2>4, <3>2
      <4> QED
        BY <2>1, <2>3, <3>2, <4>1
    <3> QED
      BY <2>3, <3>1, <3>2
  <2>6. \A e, d \in Calls : call'[e].id = call'[d].id /\ call'[e].id # 0 => e = d
    BY <2>1, <2>2
  <2>7. \A d \in received' : call'[d].id # 0
    BY <2>1, <2>4
  <2>8. \A d \in Calls : /\ call'[d].pc = "start" => call'[d].id = 0 /\ d \notin received'
                         /\ call'[d].pc \in {"write", "await", "remove"} => call'[d].id # 0
    BY <2>1, <2>2
  <2> QED
    BY <2>5, <2>6, <2>7, <2>8
<1>3. ASSUME NEW c \in Calls, CallWrite(c) PROVE Ids'
  BY <1>3 DEF CallWrite
<1>4. ASSUME NEW c \in Calls, CallLeaves(c) PROVE Ids'
  <2>1. /\ call'[c].id = call[c].id /\ call'[c].pc = "remove"
        /\ call[c].pc \in {"write", "await"}
        /\ \A d \in Calls : d # c => call'[d] = call[d]
        /\ UNCHANGED <<received, pending>>
    BY <1>4 DEF CallLeaves, CallWriteFails, CallCancelledInWrite, CallCancelled, CallSeesDone,
                CallFails, peer, server
  <2>2. \A d \in Calls : /\ call'[d].id = call[d].id
                         /\ \/ call'[d].pc = call[d].pc
                            \/ call'[d].pc = "remove" /\ call[d].pc \in {"write", "await"}
    BY <2>1
  <2> QED
    BY <2>1, <2>2
<1>5. ASSUME NEW c \in Calls, CallGetsReply(c) PROVE Ids'
  BY <1>5 DEF CallGetsReply, CallReturns, peer, server
<1>6. ASSUME NEW c \in Calls, RemovePending(c) PROVE Ids'
  BY <1>6 DEF RemovePending, Without, peer, server
<1>7. ASSUME DeliverLookup PROVE Ids'
  BY <1>7 DEF DeliverLookup, Without, peer, server
<1>8. ASSUME DeliverSend PROVE Ids'
  <2>1. /\ \A d \in Calls : call'[d].id = call[d].id /\ call'[d].pc = call[d].pc
        /\ UNCHANGED <<received, pending>>
    BY <1>8 DEF DeliverSend, peer, server
  <2> QED
    BY <2>1
<1>9. ASSUME NEW g \in Enders, TakesMap(g) PROVE Ids'
  BY <1>9 DEF TakesMap, Takes, EmptyMap
<1>10. ASSUME NEW g \in Enders, FailsMap(g) PROVE Ids'
  <2>1. /\ \A d \in Calls : call'[d].id = call[d].id /\ call'[d].pc = call[d].pc
        /\ UNCHANGED <<received, pending>>
    BY <1>10 DEF FailsMap, Fails
  <2> QED
    BY <2>1
<1>11. ASSUME CallsAlone PROVE Ids'
  BY <1>11 DEF CallsAlone
<1> QED
  BY <1>1, <1>2, <1>3, <1>4, <1>5, <1>6, <1>7, <1>8, <1>9, <1>10, <1>11, StepKinds

\* An id, once given, is kept; and what is answered stays so.
LEMMA IdsKept ==
  ASSUME CallTypes, PeerTypes, Ids, [Next]_vars
  PROVE  /\ \A c \in Calls : call[c].id # 0 => call'[c].id = call[c].id
         /\ answered \subseteq answered'
<1> USE DEF CallTypes, CallLocals, Ids
<1>1. \A c \in Calls : call[c].id # 0 => call'[c].id = call[c].id
  <2>1. ASSUME NEW c \in Calls,
               CallRefused(c) \/ CallRegister(c) \/ CallWrite(c) \/ CallGetsReply(c)
               \/ RemovePending(c)
        PROVE  \A d \in Calls : call[d].id # 0 => call'[d].id = call[d].id
    BY <2>1 DEF CallRefused, CallRegister, CallWrite, CallGetsReply, RemovePending, CallReturns
  <2>2. ASSUME NEW c \in Calls, CallLeaves(c)
        PROVE  \A d \in Calls : call[d].id # 0 => call'[d].id = call[d].id
    BY <2>2 DEF CallLeaves, CallWriteFails, CallCancelledInWrite, CallCancelled, CallSeesDone,
                CallFails
  <2>3. ASSUME DeliverSend \/ \E g \in Enders : FailsMap(g)
        PROVE  \A d \in Calls : call[d].id # 0 => call'[d].id = call[d].id
    BY <2>3 DEF DeliverSend, FailsMap, Fails
  <2>4. ASSUME UNCHANGED call
        PROVE  \A d \in Calls : call[d].id # 0 => call'[d].id = call[d].id
    BY <2>4
  <2> QED
    BY <2>1, <2>2, <2>3, <2>4, StepKinds DEF DeliverLookup, TakesMap, CallsAlone
<1>2. answered \subseteq answered'
  <2>1. ASSUME UNCHANGED answered PROVE answered \subseteq answered'
    BY <2>1
  <2> QED
    BY <2>1
     DEF Next, CallProceeds, LoopProceeds, CloseProceeds, CallRefused, CallRegister, CallWrite,
         CallWriteFails, CallCancelledInWrite, CallCancelled, CallGetsReply,
         CallSeesDone, RemovePending, NotifyCancelledInWrite, ReadFrame, PushRequest, PushNote,
         PushSeesDone, DeliverLookup, DeliverSend, ReadFails, LoopTerminates, CloseNothing,
         CloseCancels, CloseTakes, CloseTerminates, HandlerTakes, HandlerReplies, NoteTaken,
         ServerAnswers, ServerRequests, ServerNotes, Drop, vars, peer, server
<1> QED
  BY <1>1, <1>2

LEMMA MessagesStep ==
  ASSUME CallTypes, LoopTypes, PeerTypes, Ids, Messages, [Next]_vars
  PROVE  Messages'
<1>1. ASSUME NEW f, f.of \in answered, call[f.of].id = f.id
      PROVE  f.of \in answered' /\ call'[f.of].id = f.id
  BY <1>1, IdsKept DEF PeerTypes, Ids
<1>2. ASSUME inbox' = inbox \/ inbox' = <<>>
      PROVE  (\A i \in 1..Len(inbox) : inbox[i].kind = "response" => Right(inbox[i]))'
  BY <1>1, <1>2 DEF Messages, Right
<1>3. ASSUME UNCHANGED loop
      PROVE  /\ (loop.pc \in {"lookup", "send"} => Right(loop.msg))'
             /\ (loop.pc = "send" => loop.to = loop.msg.of)'
  BY <1>1, <1>3 DEF Messages, Right
<1>4. ASSUME loop'.pc \notin {"lookup", "send"}, inbox' = inbox \/ inbox' = <<>>
      PROVE  Messages'
  BY <1>4, <1>2 DEF Messages
<1>5. ASSUME ReadFrame PROVE Messages'
  <2>1. Head(inbox) = inbox[1] /\ 1 \in 1..Len(inbox)
    BY <1>5 DEF ReadFrame, PeerTypes
  <2>2. (\A i \in 1..Len(inbox) : inbox[i].kind = "response" => Right(inbox[i]))'
    <3> SUFFICES ASSUME NEW i \in 1..Len(inbox'), inbox'[i].kind = "response"
                 PROVE  inbox'[i].of \in answered' /\ call'[inbox'[i].of].id = inbox'[i].id
      BY DEF Right
    <3>1. i + 1 \in 1..Len(inbox) /\ inbox'[i] = inbox[i + 1]
      BY <1>5 DEF ReadFrame, PeerTypes
    <3> QED
      BY <3>1, <1>1 DEF Messages, Right
  <2>3. loop'.msg = inbox[1] /\ loop'.pc # "send"
        /\ (loop'.pc = "lookup" => inbox[1].kind = "response")
    BY <1>5, <2>1 DEF ReadFrame
  <2>4. inbox[1].kind = "response" => Right(inbox[1])
    BY <2>1 DEF Messages
  <2> QED
    BY <2>2, <2>3, <2>4, <1>1 DEF Messages, Right
<1>6. ASSUME DeliverLookup PROVE Messages'
  <2>1. CASE loop'.pc \notin {"lookup", "send"}
    BY <1>6, <2>1, <1>4 DEF DeliverLookup, peer
  <2>2. CASE loop'.pc \in {"lookup", "send"}
    <3>0. loop' # AtRead
      BY <2>2 DEF AtRead
    <3>1. /\ loop.msg.id \in DOMAIN pending /\ loop.pc = "lookup"
          /\ loop' = [loop EXCEPT !.pc = "send", !.to = pending[loop.msg.id]]
      BY <1>6, <3>0 DEF DeliverLookup
    <3>2. Right(loop.msg)
      BY <3>1 DEF Messages
    <3>3. /\ pending[loop.msg.id] \in Calls /\ loop.msg.of \in Calls
          /\ call[pending[loop.msg.id]].id = loop.msg.id /\ loop.msg.id # 0
      BY <3>1, <3>2 DEF CallTypes, Ids, Right, PeerTypes
    <3>4. pending[loop.msg.id] = loop.msg.of
      BY <3>2, <3>3 DEF Ids, Right
    <3>5. loop'.msg = loop.msg /\ loop'.to = loop.msg.of
      BY <3>1, <3>4 DEF LoopTypes, LoopLocals
    <3> QED
      BY <1>6, <1>1, <1>2, <3>2, <3>5 DEF Messages, Right, DeliverLookup, peer
  <2> QED
    BY <2>1, <2>2
<1>7. ASSUME NEW f, f.kind = "response" => f.of \in answered' /\ call'[f.of].id = f.id,
             f \in Frames, ServerSends(f)
      PROVE  Messages'
  <2>1. (\A i \in 1..Len(inbox) : inbox[i].kind = "response" => Right(inbox[i]))'
    <3> SUFFICES ASSUME NEW i \in 1..Len(inbox'), inbox'[i].kind = "response"
                 PROVE  inbox'[i].of \in answered' /\ call'[inbox'[i].of].id = inbox'[i].id
      BY DEF Right
    <3>1. \/ i \in 1..Len(inbox) /\ inbox'[i] = inbox[i]
          \/ inbox'[i] = f
      BY <1>7 DEF ServerSends, PeerTypes
    <3> QED
      BY <3>1, <1>1, <1>7 DEF Messages, Right
  <2> QED
    BY <2>1, <1>3, <1>7 DEF Messages, ServerSends
<1>8. ASSUME NEW c \in Calls, ServerAnswers(c) PROVE Messages'
  <2> DEFINE f == Frame("response", call[c].id, c)
  <2>1. f \in Frames /\ f.of = c /\ f.id = call[c].id
    BY DEF Frame, Frames, CallTypes, CallLocals
  <2>2. c \in answered' /\ call' = call /\ ServerSends(f)
    BY <1>8 DEF ServerAnswers, ServerSends
  <2> HIDE DEF f
  <2> QED
    BY <2>1, <2>2, <1>7
<1>9. ASSUME ServerRequests \/ ServerNotes PROVE Messages'
  <2>1. /\ Request \in Frames /\ Note \in Frames
        /\ Request.kind # "response" /\ Note.kind # "response"
    BY DEF Request, Note, Frame, Frames
  <2> QED
    BY <1>7, <1>9, <2>1 DEF ServerRequests, ServerNotes
<1>10. ASSUME UNCHANGED loop, inbox' = inbox \/ inbox' = <<>> PROVE Messages'
  BY <1>2, <1>3, <1>10 DEF Messages
<1>11. ASSUME \/ PushRequest \/ PushNote \/ PushSeesDone \/ DeliverSend \/ ReadFails
              \/ LoopTerminates
       PROVE  Messages'
  <2>1. loop'.pc \notin {"lookup", "send"}
    BY <1>11 DEF PushRequest, PushNote, PushSeesDone, DeliverSend, ReadFails, LoopTerminates,
                 AtRead, AtEnd, LoopTypes, LoopLocals
  <2>2. inbox' = inbox
    BY <1>11 DEF PushRequest, PushNote, PushSeesDone, DeliverSend, ReadFails, LoopTerminates,
                 peer
  <2> QED
    BY <2>1, <2>2, <1>4
<1> QED
  BY <1>5, <1>6, <1>8, <1>9, <1>10, <1>11
     DEF Next, CallProceeds, LoopProceeds, CloseProceeds, CallRefused, CallRegister, CallWrite,
         CallWriteFails, CallCancelledInWrite, CallCancelled, CallGetsReply,
         CallSeesDone, RemovePending, NotifyCancelledInWrite, CloseNothing,
         CloseCancels, CloseTakes, CloseTerminates, HandlerTakes, HandlerReplies, NoteTaken,
         Drop, CloseConn, vars, peer

-----------------------------------------------------------------------------
(* What the reply channels hold, and who holds the Calls. *)

LEMMA DoneKept == [Next]_vars => (done => done')
  BY DEF Next, CallProceeds, LoopProceeds, CloseProceeds, CallRefused, CallRegister, CallWrite,
         CallWriteFails, CallCancelledInWrite, CallCancelled, CallGetsReply, CallSeesDone,
         RemovePending, NotifyCancelledInWrite, ReadFrame, PushRequest, PushNote, PushSeesDone,
         DeliverLookup, DeliverSend, ReadFails, LoopTerminates, Fails, CloseNothing,
         CloseCancels, CloseTakes, CloseTerminates, HandlerTakes, HandlerReplies, NoteTaken,
         ServerAnswers, ServerRequests, ServerNotes, ServerSends, Drop, vars

LEMMA ResultsStep ==
  ASSUME CallTypes, LoopTypes, PeerTypes, Ids, Messages, Results, [Next]_vars
  PROVE  Results'
<1>0. answered \subseteq answered' /\ (done => done')
  BY IdsKept, DoneKept
<1> USE DEF CallTypes, CallLocals, Results
<1>1. ASSUME NEW c \in Calls, CallRefused(c) PROVE Results'
  BY <1>0, <1>1 DEF CallRefused, CallReturns
<1>2. ASSUME NEW c \in Calls, CallRegister(c) PROVE Results'
  BY <1>0, <1>2 DEF CallRegister
<1>3. ASSUME NEW c \in Calls, CallWrite(c) PROVE Results'
  BY <1>0, <1>3 DEF CallWrite
<1>4. ASSUME NEW c \in Calls, CallLeaves(c) PROVE Results'
  <2>0. CallFails(c, "error") \/ (CallFails(c, "ErrClosed") /\ done)
    BY <1>4 DEF CallLeaves, CallWriteFails, CallCancelledInWrite, CallCancelled, CallSeesDone
  <2>a. ASSUME NEW e \in {"error", "ErrClosed"}, CallFails(c, e)
        PROVE  /\ call'[c].ch = call[c].ch /\ call'[c].pc = "remove" /\ call'[c].result = e
               /\ \A d \in Calls : d # c => call'[d] = call[d]
    BY <2>a DEF CallFails
  <2>1. /\ call'[c].ch = call[c].ch /\ call'[c].pc = "remove"
        /\ call'[c].result = "error" \/ (call'[c].result = "ErrClosed" /\ done)
        /\ \A d \in Calls : d # c => call'[d] = call[d]
    BY <2>0, <2>a
  <2>2. ASSUME NEW d \in Calls, d # c
        PROVE  /\ call'[d].ch # "foreign"
               /\ call'[d].ch = "response" => d \in answered'
               /\ call'[d].ch = "ErrClosed" => done'
               /\ call'[d].pc = "remove" => call'[d].result \in {"error", "ErrClosed"}
               /\ call'[d].pc = "remove" /\ call'[d].result = "ErrClosed" => done'
    BY <1>0, <2>1, <2>2
  <2>3. /\ call'[c].ch # "foreign"
        /\ call'[c].ch = "response" => c \in answered'
        /\ call'[c].ch = "ErrClosed" => done'
        /\ call'[c].pc = "remove" => call'[c].result \in {"error", "ErrClosed"}
        /\ call'[c].pc = "remove" /\ call'[c].result = "ErrClosed" => done'
    BY <1>0, <2>1
  <2> QED
    BY <2>2, <2>3
<1>5. ASSUME NEW c \in Calls, CallGetsReply(c) PROVE Results'
  BY <1>0, <1>5 DEF CallGetsReply, CallReturns
<1>6. ASSUME NEW c \in Calls, RemovePending(c) PROVE Results'
  BY <1>0, <1>6 DEF RemovePending
<1>7. ASSUME DeliverSend PROVE Results'
  <2>1. loop.msg.of = loop.to /\ loop.to \in answered
    BY <1>7 DEF DeliverSend, Messages, Right
  <2>2. \/ call' = [call EXCEPT ![loop.to].ch = "response"]
        \/ call' = call
    BY <1>7, <2>1 DEF DeliverSend
  <2> QED
    BY <1>0, <2>1, <2>2
<1>8. ASSUME NEW g \in Enders, FailsMap(g) PROVE Results'
  <2>1. done'
    BY <1>8 DEF FailsMap, Fails
  <2>2. \A d \in Calls : /\ call'[d].pc = call[d].pc /\ call'[d].result = call[d].result
                         /\ call'[d].ch = call[d].ch \/ call'[d].ch = "ErrClosed"
    BY <1>8 DEF FailsMap, Fails
  <2> QED
    BY <1>0, <2>1, <2>2
<1>9. ASSUME UNCHANGED call PROVE Results'
  BY <1>0, <1>9
<1> QED
  BY <1>1, <1>2, <1>3, <1>4, <1>5, <1>6, <1>7, <1>8, <1>9, StepKinds
     DEF DeliverLookup, TakesMap, CallsAlone

LEMMA HeldStep ==
  ASSUME LoopTypes, Held, [Next]_vars
  PROVE  Held'
<1>0. done => done'
  BY DoneKept
<1> USE Bounds DEF LoopTypes, LoopLocals, Held, Enders
<1>1. ASSUME UNCHANGED <<closer, flush>>,
             loop' = loop \/ (loop'.pc # "terminate" /\ loop'.pc # "ended" /\ loop.pc # "terminate")
      PROVE  Held'
  BY <1>0, <1>1
<1>2. ASSUME PushSeesDone PROVE Held'
  BY <1>2 DEF PushSeesDone, AtEnd, AtRead
<1>3. ASSUME ReadFails PROVE Held'
  BY <1>3 DEF ReadFails, Takes
<1>4. ASSUME LoopTerminates PROVE Held'
  BY <1>4 DEF LoopTerminates, Fails
<1>5. ASSUME NEW k \in Closers, CloseNothing(k) \/ CloseCancels(k) PROVE Held'
  BY <1>5 DEF CloseNothing, CloseCancels
<1>6. ASSUME NEW k \in Closers, CloseTakes(k) PROVE Held'
  BY <1>6 DEF CloseTakes, Takes
<1>7. ASSUME NEW k \in Closers, CloseTerminates(k) PROVE Held'
  BY <1>7 DEF CloseTerminates, Fails
<1>8. ASSUME ReadFrame \/ PushRequest \/ PushNote \/ DeliverLookup \/ DeliverSend PROVE Held'
  <2>a. AtRead.pc = "read"
    BY DEF AtRead
  <2>b. CASE ReadFrame
    BY <2>b DEF ReadFrame
  <2>c. CASE DeliverLookup
    <3>1. loop'.pc \in {"read", "send"}
      BY <2>a, <2>c DEF DeliverLookup
    <3> QED
      BY <2>c, <3>1 DEF DeliverLookup
  <2>1. CASE PushRequest \/ PushNote \/ DeliverSend
    BY <1>1, <2>1, <2>a DEF PushRequest, PushNote, DeliverSend
  <2> QED
    BY <1>8, <2>1, <2>b, <2>c
<1> QED
  BY <1>1, <1>2, <1>3, <1>4, <1>5, <1>6, <1>7, <1>8
     DEF Next, CallProceeds, LoopProceeds, CloseProceeds, CallRefused, CallRegister, CallWrite,
         CallWriteFails, CallCancelledInWrite, CallCancelled, CallGetsReply, CallSeesDone,
         RemovePending, NotifyCancelledInWrite, HandlerTakes, HandlerReplies, NoteTaken,
         ServerAnswers, ServerRequests, ServerNotes, ServerSends, Drop, vars

\* Who can end a Call that waits: the disjunction of WaiterReachable.
Reachable(c) ==
  \/ call[c].ch # "empty" \/ done
  \/ loop.pc = "send" /\ loop.to = c
  \/ \E g \in Enders : c \in flush[g]
  \/ c \in Channels(pending) /\ loop.pc # "ended"

LEMMA ReachableStep ==
  ASSUME CallTypes, LoopTypes, PeerTypes, Ids, Held, WaiterReachable, [Next]_vars,
         NEW c \in Calls, call'[c].pc \in {"write", "await"}
  PROVE  Reachable(c)'
<1>0. done => done'
  BY DoneKept
<1>a. call[c].pc \in {"write", "await"} => Reachable(c)
  BY DEF WaiterReachable, Reachable
<1>1. ASSUME CallRegister(c) PROVE Reachable(c)'
  <2>1. c \in Channels(pending')
    BY <1>1 DEF CallRegister, With, Channels
  <2>2. loop'.pc # "ended"
    BY <1>1 DEF CallRegister, Held
  <2> QED
    BY <2>1, <2>2 DEF Reachable
\* The other Calls leave this one where it was.
<1>2. ASSUME NEW d \in Calls,
             \/ CallRegister(d) /\ d # c
             \/ CallRefused(d) \/ CallWrite(d) \/ CallLeaves(d) \/ CallGetsReply(d)
             \/ RemovePending(d)
      PROVE  Reachable(c)'
  <2>1. /\ UNCHANGED <<loop, flush, done>>
        /\ call'[c].ch = call[c].ch
        /\ call[c].pc \in {"write", "await"}
    BY <1>2 DEF CallRegister, CallRefused, CallWrite, CallLeaves, CallGetsReply, RemovePending,
         CallWriteFails, CallCancelledInWrite, CallCancelled, CallSeesDone, CallFails,
         CallReturns, CallTypes, CallLocals
  <2>2. c \in Channels(pending) => c \in Channels(pending')
    <3>1. CASE CallRegister(d)
      <4>1. \A i \in DOMAIN pending : i \in DOMAIN pending' /\ pending'[i] = pending[i]
        BY <3>1 DEF CallRegister, With, CallTypes
      <4> QED
        BY <4>1 DEF Channels
    <3>2. CASE RemovePending(d)
      <4>1. d # c
        BY <3>2 DEF RemovePending, CallTypes, CallLocals
      <4>2. ASSUME NEW i \in DOMAIN pending, pending[i] = c
            PROVE  i \in DOMAIN pending' /\ pending'[i] = c
        <5>1. i # call[d].id
          BY <3>2, <4>1, <4>2 DEF RemovePending, Ids, CallTypes, CallLocals
        <5> QED
          BY <3>2, <4>2, <5>1 DEF RemovePending, Without
      <4> QED
        BY <4>2 DEF Channels
    <3>3. CASE UNCHANGED pending
      BY <3>3
    <3> QED
      BY <1>2, <3>1, <3>2, <3>3
         DEF CallRefused, CallWrite, CallLeaves, CallGetsReply, CallWriteFails,
             CallCancelledInWrite, CallCancelled, CallSeesDone
  <2> QED
    BY <1>a, <2>1, <2>2 DEF Reachable
<1>3. ASSUME DeliverLookup PROVE Reachable(c)'
  <2>1. UNCHANGED <<call, flush, done>> /\ loop.pc = "lookup"
    BY <1>3 DEF DeliverLookup
  <2>2. CASE loop.msg.id \in DOMAIN pending
    <3>1. loop' = [loop EXCEPT !.pc = "send", !.to = pending[loop.msg.id]]
          /\ pending' = Without(pending, loop.msg.id)
      BY <1>3, <2>2 DEF DeliverLookup
    <3>2. loop'.pc = "send" /\ loop'.to = pending[loop.msg.id]
      BY <3>1 DEF LoopTypes, LoopLocals
    <3>3. c \in Channels(pending) => c \in Channels(pending') \/ c = pending[loop.msg.id]
      BY <3>1 DEF Channels, Without
    <3> QED
      BY <1>a, <2>1, <3>2, <3>3 DEF Reachable
  <2>3. CASE loop.msg.id \notin DOMAIN pending
    <3>1. loop' = AtRead /\ pending' = pending
      BY <1>3, <2>3 DEF DeliverLookup
    <3> QED
      BY <1>a, <2>1, <3>1 DEF Reachable, AtRead
  <2> QED
    BY <2>2, <2>3
<1>4. ASSUME DeliverSend PROVE Reachable(c)'
  <2>1. UNCHANGED <<pending, flush, done>> /\ loop.pc = "send" /\ loop'.pc = "read"
    BY <1>4 DEF DeliverSend, AtRead
  <2>2. done \/ (\A d \in Calls : /\ d = loop.to => call'[d].ch # "empty"
                                  /\ d # loop.to => call'[d] = call[d]
                                  /\ call'[d].pc = call[d].pc)
    BY <1>4 DEF DeliverSend, CallTypes, CallLocals
  <2> QED
    BY <1>0, <1>a, <2>1, <2>2 DEF Reachable
\* A terminate takes what the map has, having held nothing.
<1>5. ASSUME NEW g \in Enders, Takes(g), UNCHANGED <<call, done>>, flush[g] = {},
             loop.pc = "send" => UNCHANGED loop
      PROVE  Reachable(c)'
  <2>1. /\ flush'[g] = Channels(pending)
        /\ \A h \in Enders : h # g => flush'[h] = flush[h]
    BY <1>5 DEF Takes, LoopTypes
  <2> QED
    BY <1>a, <1>5, <2>1 DEF Reachable
<1>6. ASSUME ReadFails PROVE Reachable(c)'
  <2>1. "loop" \in Enders /\ flush["loop"] = {}
    BY <1>6 DEF ReadFails, Held, Enders
  <2> QED
    BY <1>5, <1>6, <2>1 DEF ReadFails
<1>7. ASSUME NEW k \in Closers, CloseTakes(k) PROVE Reachable(c)'
  <2>1. k \in Enders /\ flush[k] = {}
    BY <1>7 DEF CloseTakes, Held, Enders
  <2> QED
    BY <1>5, <1>7, <2>1 DEF CloseTakes
<1>8. ASSUME done' PROVE Reachable(c)'
  BY <1>8 DEF Reachable
<1>9. ASSUME UNCHANGED <<call, pending, flush, done>>, loop' = loop \/ loop.pc \in {"read", "push"},
             loop'.pc = "ended" => loop.pc = "ended"
      PROVE  Reachable(c)'
  BY <1>a, <1>9 DEF Reachable
<1>10. ASSUME ReadFrame \/ PushRequest \/ PushNote PROVE Reachable(c)'
  <2>1. loop'.pc # "ended"
    BY <1>10 DEF ReadFrame, PushRequest, PushNote, AtRead
  <2> QED
    BY <1>9, <1>10, <2>1 DEF ReadFrame, PushRequest, PushNote
<1> QED
  BY <1>0, <1>1, <1>2, <1>3, <1>4, <1>6, <1>7, <1>8, <1>9, <1>10
     DEF Next, CallProceeds, CallLeaves, LoopProceeds, CloseProceeds, NotifyCancelledInWrite,
         PushSeesDone, LoopTerminates, Fails, CloseNothing, CloseCancels, CloseTerminates,
         HandlerTakes, HandlerReplies, NoteTaken, ServerAnswers, ServerRequests, ServerNotes,
         ServerSends, Drop, vars

-----------------------------------------------------------------------------
(* The theorems. *)

Inv ==
  /\ CallTypes /\ LoopTypes /\ QueueTypes /\ PeerTypes
  /\ Ids /\ Messages /\ Results /\ Held /\ WaiterReachable

LEMMA InvInit == Init => Inv
<1> SUFFICES ASSUME Init PROVE Inv
  OBVIOUS
<1>1. CallTypes
  BY DEF Init, CallTypes, CallLocals, EmptyMap
<1>2. LoopTypes
  BY AtReadType DEF Init, LoopTypes
<1>a. <<>> \in Seq(Frames) /\ Len(<<>>) = 0
  OBVIOUS
<1>b. Len(inbox) <= MaxInbox
  BY <1>a, Bounds DEF Init
<1>c. QueueTypes
  <2>1. 0 \in 0..QueueCap
    BY Bounds
  <2> QED
    BY <2>1 DEF Init, QueueTypes
<1>3. QueueTypes /\ PeerTypes
  BY <1>a, <1>b, <1>c DEF Init, PeerTypes
<1>4. Ids
  BY DEF Init, Ids, EmptyMap
<1>5. Messages /\ Results
  BY DEF Init, Messages, Results, AtRead
<1>6. Held /\ WaiterReachable
  BY DEF Init, Held, WaiterReachable, AtRead, Enders
<1> QED
  BY <1>1, <1>2, <1>3, <1>4, <1>5, <1>6 DEF Inv

\* Ids are given once, a response carries the id of the Call it answers, and a
\* Call that waits is in the map or in somebody's hands (Call, readLoop, terminate).
THEOREM Invariant == Spec => []Inv
<1>1. Inv /\ [Next]_vars => Inv'
  <2> SUFFICES ASSUME Inv, [Next]_vars PROVE Inv'
    OBVIOUS
  <2>1. (CallTypes /\ LoopTypes /\ QueueTypes /\ PeerTypes)'
    BY CallTypesStep, LoopTypesStep, QueueTypesStep, PeerTypesStep DEF Inv
  <2>2. (Ids /\ Messages /\ Results /\ Held)'
    BY IdsStep, MessagesStep, ResultsStep, HeldStep DEF Inv
  <2>3. ASSUME NEW c \in Calls, call'[c].pc \in {"write", "await"} PROVE Reachable(c)'
    BY <2>3, ReachableStep DEF Inv
  <2>4. WaiterReachable'
    BY <2>3 DEF WaiterReachable, Reachable
  <2> QED
    BY <2>1, <2>2, <2>4 DEF Inv
<1> QED
  BY <1>1, InvInit, PTL DEF Spec

\* Type invariant: the two inbound channels of websocket.go stay within their
\* capacity, and the map holds ids that have been given.
THEOREM TypeCorrect == Spec => []TypeOK
<1>1. Inv => TypeOK
  <2> SUFFICES ASSUME Inv PROVE TypeOK
    OBVIOUS
  <2>1. call \in [Calls -> [pc : {"start", "write", "await", "remove", "returned"}, id : 0..nextID,
                         ch : {"empty", "response", "foreign", "ErrClosed"},
                         result : {"none", "response", "foreign", "ErrClosed", "error"}]]
    BY DEF Inv, CallTypes, CallLocals
  <2>2. Channels(pending) \subseteq Calls
    BY DEF Inv, CallTypes, Channels
  <2>3. /\ loop.pc \in {"read", "push", "lookup", "send", "terminate", "ended"}
        /\ loop.to \in Calls \cup {None}
    BY DEF Inv, LoopTypes, LoopLocals
  <2> QED
    BY <2>1, <2>2, <2>3 DEF Inv, CallTypes, LoopTypes, QueueTypes, PeerTypes, TypeOK
<1> QED
  BY <1>1, Invariant, PTL

\* No Call of the WebSocket transport that waits is forgotten: its channel is
\* filled, done is closed, or the read loop or a terminate still has it.
THEOREM NoWaiterLost == Spec => []WaiterReachable
<1>1. Inv => WaiterReachable
  BY DEF Inv
<1> QED
  BY <1>1, Invariant, PTL

-----------------------------------------------------------------------------
(* The promise of Call. *)

Returned == [c \in Calls |-> IF call[c].pc = "returned" THEN call[c].result ELSE "none"]

LEMMA PromiseInit == Init => Promise!Init
<1> SUFFICES ASSUME Init PROVE Promise!Init
  OBVIOUS
<1>1. Over = FALSE
  BY DEF Init, Over, AtRead
<1>2. Returned = [c \in Calls |-> "none"]
  BY DEF Init, Returned
<1> QED
  BY <1>1, <1>2 DEF Init, Promise!Init, Returned

\* Over is for good.
LEMMA OverKept ==
  ASSUME Inv, [Next]_vars, Over
  PROVE  Over'
<1>0. done => done'
  BY DoneKept
<1>1. CASE loop.pc = "terminate"
  <2>1. UNCHANGED loop \/ done'
    BY <1>1
       DEF Next, CallProceeds, LoopProceeds, CloseProceeds, CallRefused, CallRegister, CallWrite,
         CallWriteFails, CallCancelledInWrite, CallCancelled, CallGetsReply, CallSeesDone,
         RemovePending, NotifyCancelledInWrite, ReadFrame, PushRequest, PushNote, PushSeesDone,
         DeliverLookup, DeliverSend, ReadFails, LoopTerminates, Fails, CloseNothing,
         CloseCancels, CloseTakes, CloseTerminates, HandlerTakes, HandlerReplies, NoteTaken,
         ServerAnswers, ServerRequests, ServerNotes, ServerSends, Drop, vars
  <2> QED
    BY <1>1, <2>1 DEF Over
<1>2. CASE \E k \in Closers : closer[k] = "terminate"
  <2>1. PICK k \in Closers : closer[k] = "terminate"
    BY <1>2
  <2>2. closer'[k] = "terminate" \/ done'
    <3>1. ASSUME NEW j \in Closers, CloseNothing(j) \/ CloseCancels(j) \/ CloseTakes(j)
          PROVE  closer'[k] = "terminate"
      BY <2>1, <3>1 DEF CloseNothing, CloseCancels, CloseTakes, Inv, LoopTypes
    <3>2. ASSUME NEW j \in Closers, CloseTerminates(j) PROVE done'
      BY <3>2 DEF CloseTerminates, Fails
    <3>3. ASSUME UNCHANGED closer PROVE closer'[k] = "terminate"
      BY <2>1, <3>3
    <3> QED
      BY <3>1, <3>2, <3>3
       DEF Next, CallProceeds, LoopProceeds, CloseProceeds, CallRefused, CallRegister, CallWrite,
         CallWriteFails, CallCancelledInWrite, CallCancelled, CallGetsReply, CallSeesDone,
         RemovePending, NotifyCancelledInWrite, ReadFrame, PushRequest, PushNote, PushSeesDone,
         DeliverLookup, DeliverSend, ReadFails, LoopTerminates, HandlerTakes, HandlerReplies,
         NoteTaken, ServerAnswers, ServerRequests, ServerNotes, ServerSends, Drop, vars
  <2> QED
    BY <2>1, <2>2 DEF Over
<1> QED
  BY <1>0, <1>1, <1>2 DEF Over

LEMMA PromiseStep ==
  ASSUME Inv, [Next]_vars
  PROVE  [Promise!Next]_(Promise!vars)
<1> USE DEF Returned
\* A Call returns: nothing else changes.
<1>1. ASSUME NEW c \in Calls, NEW r \in {"response", "ErrClosed", "error"},
             call[c].pc # "returned", r = "response" => c \in answered, r = "ErrClosed" => done,
             call'[c].pc = "returned", call'[c].result = r,
             \A d \in Calls : d # c => call'[d] = call[d],
             UNCHANGED <<done, loop, closer, answered>>
      PROVE  Promise!Next
  <2>1. Returned[c] = "none" /\ Returned' = [Returned EXCEPT ![c] = r]
    BY <1>1
  <2>2. (r = "ErrClosed" => Over) /\ UNCHANGED <<answered, Over>>
    BY <1>1 DEF Over
  <2>3. Promise!Return(c, r)
    BY <1>1, <2>1, <2>2 DEF Promise!Return
  <2> QED
    BY <2>3 DEF Promise!Next
<1>2. ASSUME NEW c \in Calls, CallRefused(c) PROVE Promise!Next
  <2>1. PICK r \in {"ErrClosed", "error"} : CallReturns(c, r) /\ (r = "ErrClosed" => done)
    BY <1>2 DEF CallRefused
  <2>2. call'[c].pc = "returned" /\ call'[c].result = r /\ \A d \in Calls : d # c => call'[d] = call[d]
    BY <2>1 DEF CallReturns, Inv, CallTypes, CallLocals
  <2> QED
    BY <1>1, <1>2, <2>1, <2>2 DEF CallRefused, peer, server
<1>3. ASSUME NEW c \in Calls, CallGetsReply(c) PROVE Promise!Next
  <2>1. /\ call[c].ch \in {"response", "ErrClosed"} /\ (call[c].ch = "response" => c \in answered)
        /\ (call[c].ch = "ErrClosed" => done)
    BY <1>3 DEF CallGetsReply, Inv, Results, CallTypes, CallLocals
  <2>2. /\ call'[c].pc = "returned" /\ call'[c].result = call[c].ch
        /\ \A d \in Calls : d # c => call'[d] = call[d]
    BY <1>3 DEF CallGetsReply, CallReturns, Inv, CallTypes, CallLocals
  <2> QED
    BY <1>1, <1>3, <2>1, <2>2 DEF CallGetsReply, peer, server
<1>4. ASSUME NEW c \in Calls, RemovePending(c) PROVE Promise!Next
  <2>1. call[c].result \in {"error", "ErrClosed"} /\ (call[c].result = "ErrClosed" => done)
    BY <1>4 DEF RemovePending, Inv, Results
  <2>2. /\ call'[c].pc = "returned" /\ call'[c].result = call[c].result
        /\ \A d \in Calls : d # c => call'[d] = call[d]
    BY <1>4 DEF RemovePending, Inv, CallTypes, CallLocals
  <2> QED
    BY <1>1, <1>4, <2>1, <2>2 DEF RemovePending, peer, server
<1>5. ASSUME NEW c \in Calls, ServerAnswers(c) PROVE Promise!Next
  <2>1. UNCHANGED <<Over, Returned>> /\ answered' = answered \cup {c}
    BY <1>5 DEF ServerAnswers, ServerSends, Over
  <2>2. Promise!Answer(c)
    BY <2>1 DEF Promise!Answer
  <2> QED
    BY <2>2 DEF Promise!Next
\* Any other step returns nothing, and may bring the end.
<1>6. ASSUME UNCHANGED answered,
             \A c \in Calls : \/ call'[c] = call[c]
                              \/ call[c].pc # "returned" /\ call'[c].pc # "returned"
                              \/ call'[c].pc = call[c].pc /\ call'[c].result = call[c].result
      PROVE  [Promise!Next]_(Promise!vars)
  <2>1. Returned' = Returned
    BY <1>6
  <2>2. CASE Over'
    <3>1. Over' = TRUE
      BY <2>2 DEF Over
    <3>2. Promise!End
      BY <1>6, <2>1, <3>1 DEF Promise!End
    <3> QED
      BY <3>2 DEF Promise!Next
  <2>3. CASE ~Over'
    <3>1. Over' = Over
      BY <2>3, OverKept DEF Over
    <3> QED
      BY <1>6, <2>1, <3>1 DEF Promise!vars
  <2> QED
    BY <2>2, <2>3
<1>7. ASSUME UNCHANGED <<call, answered>> PROVE [Promise!Next]_(Promise!vars)
  BY <1>6, <1>7
<1>8. ASSUME NEW c \in Calls, CallRegister(c) \/ CallWrite(c) \/ CallLeaves(c)
      PROVE  [Promise!Next]_(Promise!vars)
  <2>1. /\ call[c].pc # "returned" /\ call'[c].pc # "returned"
        /\ \A d \in Calls : d # c => call'[d] = call[d]
    BY <1>8 DEF CallRegister, CallWrite, CallLeaves, CallWriteFails, CallCancelledInWrite,
                CallCancelled, CallSeesDone, CallFails, Inv, CallTypes, CallLocals
  <2>2. UNCHANGED answered
    BY <1>8 DEF CallRegister, CallWrite, CallLeaves, CallWriteFails, CallCancelledInWrite,
                CallCancelled, CallSeesDone, peer, server
  <2> QED
    BY <1>6, <2>1, <2>2
<1>9. ASSUME DeliverSend \/ LoopTerminates \/ \E k \in Closers : CloseTerminates(k)
      PROVE  [Promise!Next]_(Promise!vars)
  <2>1. \A c \in Calls : call'[c].pc = call[c].pc /\ call'[c].result = call[c].result
    BY <1>9 DEF DeliverSend, LoopTerminates, CloseTerminates, Fails, Inv, CallTypes, CallLocals
  <2>2. UNCHANGED answered
    BY <1>9 DEF DeliverSend, LoopTerminates, CloseTerminates, peer, server
  <2> QED
    BY <1>6, <2>1, <2>2
<1> QED
  BY <1>2, <1>3, <1>4, <1>5, <1>7, <1>8, <1>9
     DEF Next, CallProceeds, CallLeaves, LoopProceeds, CloseProceeds, NotifyCancelledInWrite,
         ReadFrame, PushRequest, PushNote, PushSeesDone, DeliverLookup, ReadFails,
         CloseNothing, CloseCancels, CloseTakes, HandlerTakes, HandlerReplies, NoteTaken,
         ServerRequests, ServerNotes, ServerSends, Drop, vars, peer, server

\* The WebSocket transport implements the promise of Call: a Call returns once,
\* a result only if the server has answered this very Call, ErrClosed only once
\* a terminate has begun.
THEOREM PromiseKept == Spec => KeepsPromise
<1>1. Inv /\ [Next]_vars => [Promise!Next]_(Promise!vars)
  BY PromiseStep
<1> QED
  BY <1>1, Invariant, PromiseInit, PTL DEF Spec, KeepsPromise, Promise!Spec

=============================================================================
