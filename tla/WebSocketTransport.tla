------------------------- MODULE WebSocketTransport -------------------------
(***************************************************************************)
(* One WebSocket connection (internal/transport/websocket.go) under the    *)
(* adapter that serves the server's requests (client.go, requestLoop).     *)
(*                                                                         *)
(* Goroutines: the callers of Call, the read loop, one awaitReply per      *)
(* server request, the callers of Close, the request handler (one          *)
(* goroutine, which may itself make a Call before it replies) and the      *)
(* consumer of the notifications.  An action is one critical section of    *)
(* w.mu, one channel operation or one operation on the connection.         *)
(* Nothing tells two server requests, or two notifications, apart: the     *)
(* channels requests and notes are known by how much is in them.           *)
(***************************************************************************)
EXTENDS Integers, Sequences

CONSTANTS
  Calls,        \* invocations of Call
  HandlerCalls, \* those of them the request handler makes
  Closers,      \* invocations of Close
  QueueCap,     \* capacity of the channels requests and notes (32 in the code)
  MaxInbox,     \* bound: frames on their way from the server
  None

ASSUME WebSocketAssumption ==
  /\ HandlerCalls \subseteq Calls
  /\ QueueCap \in Nat /\ MaxInbox \in Nat
  /\ None \notin Calls
  /\ "loop" \notin Closers

Enders == Closers \cup {"loop"} \* the goroutines that run terminate

VARIABLES
  done, nextID, pending,  \* fields of the transport
  requests, notes,        \* how full its two inbound channels are
  call,                   \* locals of each Call; ch is its reply channel, of capacity 1
  loop,                   \* locals of the read loop
  closer, flush,          \* where each Close is; the map each terminate took
  handling,               \* the request handler is at work on a request
  conn, inbox,            \* the connection, and the frames on their way from the server
  received, answered      \* the server: the calls it has received and answered

queues == <<requests, notes>>
server == <<received, answered>>
peer   == <<conn, inbox, server>>
vars == <<done, nextID, pending, queues, call, loop, closer, flush, handling, peer>>

-----------------------------------------------------------------------------
(* Values. *)

Frame(kind, id, of) == [kind |-> kind, id |-> id, of |-> of]
Note    == Frame("note", 0, None)
Request == Frame("request", 0, None)

\* The read loop between two frames, and after its end.
AtRead == [pc |-> "read", msg |-> Note, to |-> None]
AtEnd  == [AtRead EXCEPT !.pc = "ended"]

\* The map w.pending.
EmptyMap == [i \in {} |-> None]
Without(m, id) == [i \in DOMAIN m \ {id} |-> m[i]]
With(m, id, c) == [i \in DOMAIN m \cup {id} |-> IF i = id THEN c ELSE m[i]]
Channels(m) == {m[i] : i \in DOMAIN m}

HasRoom(queue) == queue < QueueCap

\* Our end closes the connection: nothing more is read from it.
CloseConn == conn' = "closed" /\ inbox' = <<>>

\* The Calls the handler makes belong to its handling of a request.
HandlerInCall == \E c \in HandlerCalls : call[c].pc \notin {"start", "returned"}

-----------------------------------------------------------------------------
(* NewWebSocket: the connection is up and the read loop runs. *)
Init ==
  /\ done = FALSE /\ nextID = 0 /\ pending = EmptyMap
  /\ requests = 0 /\ notes = 0
  /\ call = [c \in Calls |-> [pc |-> "start", id |-> 0, ch |-> "empty", result |-> "none"]]
  /\ loop = AtRead
  /\ closer = [k \in Closers |-> "idle"] /\ flush = [g \in Enders |-> {}]
  /\ handling = FALSE
  /\ conn = "open" /\ inbox = <<>> /\ received = {} /\ answered = {}

-----------------------------------------------------------------------------
(* Call. *)

CallReturns(c, r) == call' = [call EXCEPT ![c].pc = "returned", ![c].result = r]

\* Early returns: the transport is done, or else the context.
CallRefused(c) ==
  /\ call[c].pc = "start" /\ (c \in HandlerCalls => handling)
  /\ CallReturns(c, IF done THEN "ErrClosed" ELSE "error")
  /\ UNCHANGED <<done, nextID, pending, queues, loop, closer, flush, handling, peer>>

\* Under w.mu.  Nothing says whether terminate has flushed the map meanwhile.
CallRegister(c) ==
  /\ call[c].pc = "start" /\ (c \in HandlerCalls => handling)
  /\ ~done
  /\ nextID' = nextID + 1 /\ pending' = With(pending, nextID + 1, c)
  /\ call' = [call EXCEPT ![c].pc = "write", ![c].id = nextID + 1]
  /\ UNCHANGED <<done, queues, loop, closer, flush, handling, peer>>

CallWrite(c) ==
  /\ call[c].pc = "write" /\ conn = "open"
  /\ received' = received \cup {c}
  /\ call' = [call EXCEPT ![c].pc = "await"]
  /\ UNCHANGED <<done, nextID, pending, queues, loop, closer, flush, handling, conn, inbox, answered>>

\* An error is returned once the registration has been removed.
CallFails(c, r) == call' = [call EXCEPT ![c].pc = "remove", ![c].result = r]

\* The write fails: the connection is closed, or params do not encode.
CallWriteFails(c) ==
  /\ call[c].pc = "write" /\ CallFails(c, "error")
  /\ UNCHANGED <<done, nextID, pending, queues, loop, closer, flush, handling, peer>>

\* A context that ends in the middle of a write takes the connection with it:
\* the library closes it, for everyone.
CallCancelledInWrite(c) ==
  /\ call[c].pc = "write" /\ conn = "open" /\ CallFails(c, "error")
  /\ CloseConn
  /\ UNCHANGED <<done, nextID, pending, queues, loop, closer, flush, handling, server>>

\* So does the context of a Notify, which otherwise only writes.
NotifyCancelledInWrite ==
  /\ conn = "open" /\ CloseConn
  /\ UNCHANGED <<done, nextID, pending, queues, call, loop, closer, flush, handling, server>>

\* The select: the context, the reply, or done.
CallCancelled(c) ==
  /\ call[c].pc = "await" /\ CallFails(c, "error")
  /\ UNCHANGED <<done, nextID, pending, queues, loop, closer, flush, handling, peer>>

CallGetsReply(c) ==
  /\ call[c].pc = "await" /\ call[c].ch # "empty"
  /\ CallReturns(c, call[c].ch)
  /\ UNCHANGED <<done, nextID, pending, queues, loop, closer, flush, handling, peer>>

CallSeesDone(c) ==
  /\ call[c].pc = "await" /\ done /\ CallFails(c, "ErrClosed")
  /\ UNCHANGED <<done, nextID, pending, queues, loop, closer, flush, handling, peer>>

RemovePending(c) ==
  /\ call[c].pc = "remove"
  /\ pending' = Without(pending, call[c].id)
  /\ call' = [call EXCEPT ![c].pc = "returned"]
  /\ UNCHANGED <<done, nextID, queues, loop, closer, flush, handling, peer>>

-----------------------------------------------------------------------------
(* readLoop. *)

\* One frame.  A frame that does not decode is skipped and leaves no trace: the
\* session goes on, and the model does without such frames.
ReadFrame ==
  /\ loop.pc = "read" /\ inbox # <<>>
  /\ inbox' = Tail(inbox)
  /\ loop' = [pc |-> CASE Head(inbox).kind = "response" -> "lookup"
                       [] OTHER -> "push",
              msg |-> Head(inbox), to |-> None]
  /\ UNCHANGED <<done, nextID, pending, queues, call, closer, flush, handling, conn, server>>

\* A request goes to the requests channel and gets its awaitReply, a
\* notification goes to notes.  The loop waits for room.
PushRequest ==
  /\ loop.pc = "push" /\ loop.msg.kind = "request" /\ HasRoom(requests)
  /\ requests' = requests + 1
  /\ loop' = AtRead
  /\ UNCHANGED <<done, nextID, pending, notes, call, closer, flush, handling, peer>>

PushNote ==
  /\ loop.pc = "push" /\ loop.msg.kind = "note" /\ HasRoom(notes)
  /\ notes' = notes + 1
  /\ loop' = AtRead
  /\ UNCHANGED <<done, nextID, pending, requests, call, closer, flush, handling, peer>>

\* Seeded fault: the push has no done case.
FaultPushIgnoresDone == FALSE /\ UNCHANGED vars
PushSeesDone ==
  /\ loop.pc = "push" /\ done
  /\ loop' = AtEnd
  /\ UNCHANGED <<done, nextID, pending, queues, call, closer, flush, handling, peer>>

\* Seeded fault: the id is compared with the order of the calls.
FaultLookupOldest ==
  /\ loop.pc = "lookup"
  /\ LET id == CHOOSE i \in DOMAIN pending \cup {0} :
                 \A j \in DOMAIN pending : i # 0 /\ i <= j
     IN IF pending # EmptyMap
        THEN /\ pending' = Without(pending, id)
             /\ loop' = [loop EXCEPT !.pc = "send", !.to = pending[id]]
        ELSE loop' = AtRead /\ UNCHANGED pending
  /\ UNCHANGED <<done, nextID, queues, call, closer, flush, handling, peer>>
\* deliverResponse, under w.mu, then its send.
DeliverLookup ==
  /\ loop.pc = "lookup"
  /\ IF loop.msg.id \in DOMAIN pending
     THEN /\ pending' = Without(pending, loop.msg.id)
          /\ loop' = [loop EXCEPT !.pc = "send", !.to = pending[loop.msg.id]]
     ELSE loop' = AtRead /\ UNCHANGED pending
  /\ UNCHANGED <<done, nextID, queues, call, closer, flush, handling, peer>>

DeliverSend ==
  /\ loop.pc = "send" /\ loop' = AtRead
  /\ \/ /\ call[loop.to].ch = "empty"
        /\ call' = [call EXCEPT ![loop.to].ch =
                      IF loop.msg.of = loop.to THEN "response" ELSE "foreign"]
     \/ done /\ UNCHANGED call
  /\ UNCHANGED <<done, nextID, pending, queues, closer, flush, handling,
                 peer>>

-----------------------------------------------------------------------------
(* terminate, run by the read loop after a failed Read and by Close. *)

\* Under w.mu: take the map.
Takes(g) == flush' = [flush EXCEPT ![g] = Channels(pending)] /\ pending' = EmptyMap

\* Then fail what was in it and close done, once.  Others see the two in either
\* order: they can be late in looking at the first.
Fails(g) ==
  /\ call' = [c \in Calls |-> IF c \in flush[g] /\ call[c].ch = "empty"
                              THEN [call[c] EXCEPT !.ch = "ErrClosed"] ELSE call[c]]
  /\ done' = TRUE /\ flush' = [flush EXCEPT ![g] = {}]

\* Seeded fault: the loop just returns.
FaultReadFailsReturns ==
  /\ loop.pc = "read" /\ conn # "open" /\ inbox = <<>> /\ loop' = AtEnd
  /\ UNCHANGED <<done, nextID, pending, queues, call, closer, flush, handling, peer>>
ReadFails ==
  /\ loop.pc = "read" /\ conn # "open" /\ inbox = <<>>
  /\ Takes("loop") /\ loop' = [loop EXCEPT !.pc = "terminate"]
  /\ UNCHANGED <<done, nextID, queues, call, closer, handling, peer>>

\* Seeded fault: the loop ends without closing done.
FaultLoopForgetsDone ==
  /\ loop.pc = "terminate" /\ loop' = AtEnd
  /\ call' = [c \in Calls |-> IF c \in flush["loop"] /\ call[c].ch = "empty"
                              THEN [call[c] EXCEPT !.ch = "ErrClosed"] ELSE call[c]]
  /\ flush' = [flush EXCEPT !["loop"] = {}]
  /\ UNCHANGED <<done, nextID, pending, queues, closer, handling, peer>>
LoopTerminates ==
  /\ loop.pc = "terminate" /\ loop' = AtEnd /\ Fails("loop")
  /\ UNCHANGED <<nextID, pending, queues, closer, handling, peer>>

\* Close: nothing once done; otherwise cancel, close the connection, terminate.
\* Any number of Closes may be past the test at the same time.
CloseNothing(k) ==
  /\ closer[k] = "idle" /\ done /\ closer' = [closer EXCEPT ![k] = "returned"]
  /\ UNCHANGED <<done, nextID, pending, queues, call, loop, flush, handling,
                 peer>>

\* Cancelling the context of the pending Read closes the connection.
CloseCancels(k) ==
  /\ closer[k] = "idle" /\ ~done /\ closer' = [closer EXCEPT ![k] = "take"]
  /\ CloseConn
  /\ UNCHANGED <<done, nextID, pending, queues, call, loop, flush, handling, server>>

CloseTakes(k) ==
  /\ closer[k] = "take" /\ closer' = [closer EXCEPT ![k] = "terminate"] /\ Takes(k)
  /\ UNCHANGED <<done, nextID, queues, call, loop, handling, peer>>

CloseTerminates(k) ==
  /\ closer[k] = "terminate" /\ closer' = [closer EXCEPT ![k] = "returned"] /\ Fails(k)
  /\ UNCHANGED <<nextID, pending, queues, loop, handling, peer>>

-----------------------------------------------------------------------------
(* Server requests: requestLoop of the adapter, Request.Reply, awaitReply. *)

HandlerTakes ==
  /\ ~handling /\ requests > 0
  /\ handling' = TRUE /\ requests' = requests - 1
  /\ UNCHANGED <<done, nextID, pending, notes, call, loop, closer, flush, peer>>

\* Reply, or ReplyError, once the handler's own Calls have returned.  replyCh has
\* room for the one reply, and the request's awaitReply writes it, or drops it if
\* the transport is done by then: neither holds anything up.
HandlerReplies ==
  /\ handling /\ ~HandlerInCall /\ handling' = FALSE
  /\ UNCHANGED <<done, nextID, pending, queues, call, loop, closer, flush, peer>>

\* The consumer of Notifications().
NoteTaken ==
  /\ notes > 0 /\ notes' = notes - 1
  /\ UNCHANGED <<done, nextID, pending, requests, call, loop, closer, flush, handling, peer>>

-----------------------------------------------------------------------------
(* The server, and the network. *)

ServerSends(frame) ==
  /\ conn = "open" /\ Len(inbox) < MaxInbox
  /\ inbox' = Append(inbox, frame)
  /\ UNCHANGED <<done, nextID, pending, queues, call, loop, closer, flush, handling, conn,
                 received>>

ServerAnswers(c) ==
  /\ c \in received \ answered /\ ServerSends(Frame("response", call[c].id, c))
  /\ answered' = answered \cup {c}

ServerRequests ==
  ServerSends(Request) /\ UNCHANGED answered

ServerNotes ==
  ServerSends(Note) /\ UNCHANGED answered

\* The peer goes away: what it has sent can still be read.
Drop ==
  /\ conn = "open" /\ conn' = "dropped"
  /\ UNCHANGED <<done, nextID, pending, queues, call, loop, closer, flush, handling, inbox,
                 server>>

-----------------------------------------------------------------------------
CallProceeds(c) ==
  CallRegister(c) \/ CallWrite(c) \/ CallGetsReply(c) \/ CallSeesDone(c) \/ RemovePending(c)
LoopProceeds ==
  \/ ReadFrame \/ PushRequest \/ PushNote \/ PushSeesDone \/ DeliverLookup \/ DeliverSend
  \/ ReadFails \/ LoopTerminates
CloseProceeds(k) == CloseTakes(k) \/ CloseTerminates(k)

Next ==
  \/ \E c \in Calls :
       \/ CallProceeds(c) \/ CallRefused(c) \/ CallWriteFails(c)
       \/ CallCancelledInWrite(c) \/ CallCancelled(c) \/ ServerAnswers(c)
  \/ NotifyCancelledInWrite \/ LoopProceeds
  \/ \E k \in Closers : CloseNothing(k) \/ CloseCancels(k) \/ CloseProceeds(k)
  \/ HandlerTakes \/ HandlerReplies \/ NoteTaken
  \/ ServerRequests \/ ServerNotes \/ Drop

Spec == Init /\ [][Next]_vars

\* Goroutines that can run do; a write on a closed connection fails.  The
\* client always drains the notifications (notificationLoop never blocks) and
\* serves the requests one after the other, until it begins to close.
Serving == \A k \in Closers : closer[k] = "idle"
FairSpec ==
  /\ Spec
  /\ \A c \in Calls :
       WF_vars(CallProceeds(c)) /\ WF_vars(conn # "open" /\ CallWriteFails(c))
  /\ WF_vars(LoopProceeds)
  /\ \A k \in Closers : WF_vars(CloseProceeds(k))
  /\ WF_vars(Serving /\ HandlerTakes) /\ WF_vars(HandlerReplies) /\ WF_vars(NoteTaken)

-----------------------------------------------------------------------------
(* Properties. *)

\* Type invariant, with the capacities of the channels.
TypeOK ==
  /\ done \in BOOLEAN /\ nextID \in Nat /\ handling \in BOOLEAN
  /\ DOMAIN pending \subseteq 1..nextID /\ Channels(pending) \subseteq Calls
  /\ requests \in 0..QueueCap /\ notes \in 0..QueueCap
  /\ call \in [Calls -> [pc : {"start", "write", "await", "remove", "returned"}, id : 0..nextID,
                         ch : {"empty", "response", "foreign", "ErrClosed"},
                         result : {"none", "response", "foreign", "ErrClosed", "error"}]]
  /\ loop.pc \in {"read", "push", "lookup", "send", "terminate", "ended"}
  /\ loop.to \in Calls \cup {None}
  /\ closer \in [Closers -> {"idle", "take", "terminate", "returned"}]
  /\ flush \in [Enders -> SUBSET Calls]
  /\ conn \in {"open", "dropped", "closed"} /\ Len(inbox) <= MaxInbox
  /\ received \subseteq Calls /\ answered \subseteq received

\* No lost waiter: a Call past its registration can still be ended by someone.
\* The read loop is there to answer it, its answer is on the way or in its
\* channel, a terminate has it in its hands, or done is closed, which is what
\* ends the Call that registered after terminate had flushed the map.
WaiterReachable ==
  \A c \in Calls : call[c].pc \in {"write", "await"} =>
    \/ call[c].ch # "empty" \/ done
    \/ loop.pc = "send" /\ loop.to = c
    \/ \E g \in Enders : c \in flush[g]
    \/ c \in Channels(pending) /\ loop.pc # "ended"

\* Close returns and ends every Call and the read loop, whatever they wait for,
\* also when the connection is lost and the read loop terminates meanwhile.
CloseReleasesEveryone ==
  \A k \in Closers : (closer[k] # "idle") ~>
    /\ closer[k] = "returned" /\ loop.pc = "ended"
    /\ \A c \in Calls : call[c].pc \in {"start", "returned"}

\* A lost connection ends every Call, unless the read loop cannot see that it
\* is lost: it waits for room for a server request, and the one handler waits
\* for the response to a Call of its own, which only the read loop could bring.
Jammed ==
  loop.pc = "push" /\ loop.msg.kind = "request" /\ ~HasRoom(requests) /\ HandlerInCall
DropReleasesEveryone ==
  (conn # "open") ~> ((\A c \in Calls : call[c].pc \in {"start", "returned"}) \/ Jammed)

\* The transport implements the promise of Call.  It has come to its end when
\* the first terminate takes the map, before done tells everyone.
Over == done \/ loop.pc = "terminate" \/ \E k \in Closers : closer[k] = "terminate"
Promise == INSTANCE RPC WITH
  over <- Over,
  result <- [c \in Calls |-> IF call[c].pc = "returned" THEN call[c].result ELSE "none"]
KeepsPromise == Promise!Spec
=============================================================================
