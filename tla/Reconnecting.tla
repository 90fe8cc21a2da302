---------------------------- MODULE Reconnecting ----------------------------
(***************************************************************************)
(* The transports that connect again when the connection drops,            *)
(* ReconnectingWS and ReconnectingHTTP, over their inner transports and    *)
(* under RetryTransport (internal/transport/reconnect_ws.go,               *)
(* reconnect_http.go, http.go, retry.go).                                  *)
(*                                                                         *)
(* Goroutines: watchLoop, two fans for each connection (one moves          *)
(* notifications, one moves server requests, by the same code), Close, the *)
(* callers of RetryTransport.Call.  An inner transport is known by what    *)
(* the outer one sees of it: whether its Done is closed, what is in its    *)
(* two channels, and how a Call on it may end.                             *)
(***************************************************************************)
EXTENDS Integers, Sequences

CONSTANTS
  Calls,       \* invocations of RetryTransport.Call
  MaxAttempts, \* RetryConfig.MaxAttempts (5 by default)
  QueueCap,    \* capacity of every channel of messages (32 in the code)
  MaxConns,    \* bound: connections
  MaxSent,     \* bound: messages the server sends on a stream of a connection
  Worlds       \* which transport it is, and what its client and its server do with it

AllStreams == {"notes", "requests"}

ASSUME ReconnectingAssumption ==
  /\ MaxAttempts \in Nat \ {0} /\ QueueCap \in Nat
  /\ MaxConns \in Nat \ {0} /\ MaxSent \in Nat
  /\ Worlds \subseteq [kind : {"ws", "http"},
                      calls : SUBSET Calls, \* the Calls that are made
                      streams : SUBSET AllStreams] \* the streams that are looked at

Conns == 1..MaxConns

VARIABLES
  world,                 \* one of Worlds; it never changes
  closed, done, current, \* fields of the transport
  out,                   \* its stable channels: sequences of <<connection, number>>
  watch, closer,         \* where watchLoop and Close are
  dialling,              \* whether watchLoop was past its last look at closed when Close began
  fan,                   \* where the fan of each stream of each connection is
  opened, link,          \* the connections so far; "up", or "over" once Done is closed
  pushed, taken,         \* how much went into and out of the channels of each inner transport
  got,                   \* the number of the last message the client received, by connection
  call, answered,        \* locals of each Call; the calls the server has answered
  tally                  \* of each Call, how often it was sent, performed, and answered how

Streams == world.streams
outer   == <<world, closed, done, current>>
streams == <<out, fan, pushed, taken, got>>
callers == <<call, answered, tally>>
vars == <<outer, watch, closer, dialling, streams, opened, link, callers>>

-----------------------------------------------------------------------------
(* NewReconnectingWS, NewReconnectingHTTP: the first connection, its fans    *)
(* and watchLoop.                                                            *)
Init ==
  /\ world \in Worlds
  /\ closed = FALSE /\ done = FALSE /\ current = 1
  /\ watch = "wait" /\ closer = "idle" /\ dialling = FALSE
  /\ opened = 1 /\ link = [k \in Conns |-> IF k = 1 THEN "up" ELSE "none"]
  /\ out = [s \in Streams |-> <<>>]
  /\ fan = [s \in Streams |-> [k \in Conns |-> IF k = 1 THEN "select" ELSE "none"]]
  /\ pushed = [s \in Streams |-> [k \in Conns |-> 0]]
  /\ taken = pushed /\ got = pushed
  /\ call = [c \in Calls |-> [pc |-> "start", conn |-> 0, attempt |-> 1,
                              reply |-> "none", result |-> "none"]]
  /\ answered = {}
  /\ tally = [c \in Calls |-> [sent |-> 0, performed |-> 0, limited |-> 0, failed |-> 0,
                               acted |-> FALSE]] \* acted: on what was sent last

-----------------------------------------------------------------------------
(* watchLoop.  The waits between dials are left out: only how many and in    *)
(* which order they come matters here.                                       *)

\* The select on the current connection and on done, then isClosed.
WatchSeesDrop ==
  /\ watch = "wait" /\ link[current] = "over"
  /\ watch' = IF closed THEN "ended" ELSE "backoff"
  /\ UNCHANGED <<outer, closer, dialling, streams, opened, link, callers>>

WatchSeesDone ==
  /\ watch \in {"wait", "backoff"} /\ done /\ watch' = "ended"
  /\ UNCHANGED <<outer, closer, dialling, streams, opened, link, callers>>

\* Seeded fault: closed is not looked at once the wait is over.
FaultDialsWhenClosed ==
  /\ watch = "backoff" /\ watch' = "dial"
  /\ UNCHANGED <<outer, closer, dialling, streams, opened, link, callers>>
WatchWaited ==
  /\ watch = "backoff"
  /\ watch' = IF closed THEN "ended" ELSE "dial"
  /\ UNCHANGED <<outer, closer, dialling, streams, opened, link, callers>>

\* Seeded fault: watchLoop gives up.
FaultDialGivesUp ==
  /\ watch = "dial" /\ world.kind = "ws" /\ watch' = "ended"
  /\ UNCHANGED <<outer, closer, dialling, streams, opened, link, callers>>
\* NewWebSocket may fail, and watchLoop waits again.  NewHTTP does not: if the
\* server is not there, the new connection is over as soon as it is made.  (Both
\* fail at the bound on connections.)
DialFails ==
  /\ watch = "dial" /\ (world.kind = "ws" \/ opened = MaxConns) /\ watch' = "backoff"
  /\ UNCHANGED <<outer, closer, dialling, streams, opened, link, callers>>

\* The dial has no deadline and Close does not cancel it (context.Background()):
\* a server that accepts the connection and never answers the upgrade holds it.
DialHangs ==
  /\ watch = "dial" /\ world.kind = "ws" /\ watch' = "hung"
  /\ UNCHANGED <<outer, closer, dialling, streams, opened, link, callers>>

DialSucceeds ==
  /\ watch = "dial" /\ opened < MaxConns
  /\ opened' = opened + 1 /\ link' = [link EXCEPT ![opened + 1] = "up"]
  /\ watch' = "install"
  /\ UNCHANGED <<outer, closer, dialling, streams, callers>>

\* Nothing looks at closed any more.
Install ==
  /\ watch = "install" /\ current' = opened /\ watch' = "wait"
  /\ fan' = [s \in Streams |-> [fan[s] EXCEPT ![opened] = "select"]]
  /\ UNCHANGED <<world, closed, done, closer, dialling, out, pushed, taken, got, opened,
                 link, callers>>

-----------------------------------------------------------------------------
(* fanNotifications and fanRequests. *)

Holds(s, k) == pushed[s][k] > taken[s][k]

FanTakes(s, k) ==
  /\ fan[s][k] = "select" /\ Holds(s, k)
  /\ taken' = [taken EXCEPT ![s][k] = @ + 1] /\ fan' = [fan EXCEPT ![s][k] = "push"]
  /\ UNCHANGED <<outer, watch, closer, dialling, out, pushed, got, opened, link, callers>>

\* Seeded fault: a full channel drops the message.
FaultFanDrops(s, k) ==
  /\ fan[s][k] = "push" /\ fan' = [fan EXCEPT ![s][k] = "select"]
  /\ out' = [out EXCEPT ![s] = IF Len(@) < QueueCap
                               THEN Append(@, <<k, taken[s][k]>>) ELSE @]
  /\ UNCHANGED <<outer, watch, closer, dialling, pushed, taken, got, opened, link, callers>>
FanPushes(s, k) ==
  /\ fan[s][k] = "push" /\ Len(out[s]) < QueueCap
  /\ out' = [out EXCEPT ![s] = Append(@, <<k, taken[s][k]>>)]
  /\ fan' = [fan EXCEPT ![s][k] = "select"]
  /\ UNCHANGED <<outer, watch, closer, dialling, pushed, taken, got, opened, link, callers>>

FanEnds(s, k) ==
  /\ fan' = [fan EXCEPT ![s][k] = "ended"]
  /\ UNCHANGED <<outer, watch, closer, dialling, out, pushed, taken, got, opened, link,
                 callers>>

\* Seeded fault: the inner select has no done case.
FaultPushIgnoresDone(s, k) == fan[s][k] = "select" /\ done /\ FanEnds(s, k)
FanSeesDone(s, k) == fan[s][k] \in {"select", "push"} /\ done /\ FanEnds(s, k)

\* Also when messages are left in the channel: the select has no preference.
FanSeesOver(s, k) == fan[s][k] = "select" /\ link[k] = "over" /\ FanEnds(s, k)

\* The client receives from a stable channel (notificationLoop, requestLoop).
Receive(s) ==
  /\ out[s] # <<>>
  /\ got' = [got EXCEPT ![s][Head(out[s])[1]] = Head(out[s])[2]]
  /\ out' = [out EXCEPT ![s] = Tail(@)]
  /\ UNCHANGED <<outer, watch, closer, dialling, fan, pushed, taken, opened, link, callers>>

-----------------------------------------------------------------------------
(* Close.  A second Close sees closed and returns. *)

CloseBegins ==
  /\ closer = "idle" /\ closer' = "done"
  /\ closed' = TRUE /\ dialling' = (watch \in {"dial", "install"})
  /\ UNCHANGED <<world, done, current, watch, streams, opened, link, callers>>

CloseDone ==
  /\ closer = "done" /\ closer' = "inner" /\ done' = TRUE
  /\ UNCHANGED <<world, closed, current, watch, dialling, streams, opened, link, callers>>

\* The inner Close returns with the inner Done closed (HTTPTransport waits for it).
InnerClosed(k) == [link EXCEPT ![k] = "over"]
CloseInner ==
  /\ closer = "inner" /\ closer' = "returned" /\ link' = InnerClosed(current)
  /\ UNCHANGED <<outer, watch, dialling, streams, opened, callers>>

-----------------------------------------------------------------------------
(* RetryTransport.Call, over Call of the current inner transport. *)

Returns(c, r) == call' = [call EXCEPT ![c].pc = "returned", ![c].result = r]

CallPicks(c) ==
  /\ call[c].pc = "start" /\ c \in world.calls
  /\ call' = [call EXCEPT ![c].pc = "picked", ![c].conn = current]
  /\ UNCHANGED <<outer, watch, closer, dialling, streams, opened, link, answered, tally>>

CallRefused(c) ==
  /\ call[c].pc = "picked" /\ link[call[c].conn] = "over" /\ Returns(c, "ErrClosed")
  /\ UNCHANGED <<outer, watch, closer, dialling, streams, opened, link, answered, tally>>

\* The request is on its way to the server.
Sends(c) ==
  /\ call[c].pc = "picked" /\ link[call[c].conn] = "up"
  /\ call' = [call EXCEPT ![c].pc = "sent"]
  /\ tally' = [tally EXCEPT ![c].sent = @ + 1, ![c].acted = FALSE]
  /\ UNCHANGED <<outer, watch, closer, dialling, streams, opened, link, answered>>

CallWrites(c) == world.kind = "ws" /\ Sends(c)

\* The POST has nothing to do with the stream of events, but for the look at
\* Done before it is made.
CallPosts(c) == world.kind = "http" /\ Sends(c)

\* The write or the POST fails, or the context ends, also between attempts.
CallFails(c) ==
  /\ call[c].pc \in {"picked", "sent", "backoff"} /\ Returns(c, "error")
  /\ UNCHANGED <<outer, watch, closer, dialling, streams, opened, link, answered, tally>>

\* Seeded fault: every error is retried.
FaultRetriesEverything(r) == r # "response"
\* A rate limit; a failed connection upstream or an internal error of the server.
isRetryable(r) == r \in {"limited", "failed"}

\* The end of an attempt.
AttemptEnds(c, r) ==
  IF ~isRetryable(r) \/ call[c].attempt = MaxAttempts
  THEN Returns(c, IF r \in {"response", "ErrClosed"} THEN r ELSE "error")
  ELSE call' = [call EXCEPT ![c].pc = "backoff", ![c].attempt = @ + 1]

CallGetsReply(c) ==
  /\ call[c].pc = "sent" /\ call[c].reply # "none" /\ AttemptEnds(c, call[c].reply)
  /\ UNCHANGED <<outer, watch, closer, dialling, streams, opened, link, answered, tally>>

\* Seeded fault: the end of the connection is taken for an empty result.
FaultOverIsResult(c) ==
  /\ call[c].pc = "sent" /\ world.kind = "ws" /\ link[call[c].conn] = "over"
  /\ AttemptEnds(c, "response")
  /\ UNCHANGED <<outer, watch, closer, dialling, streams, opened, link, answered, tally>>
\* A WebSocket that drops fails what is pending on it.
CallInnerOver(c) ==
  /\ call[c].pc = "sent" /\ world.kind = "ws" /\ link[call[c].conn] = "over"
  /\ AttemptEnds(c, "ErrClosed")
  /\ UNCHANGED <<outer, watch, closer, dialling, streams, opened, link, answered, tally>>

CallWaited(c) ==
  /\ call[c].pc = "backoff" /\ call' = [call EXCEPT ![c].pc = "start", ![c].reply = "none"]
  /\ UNCHANGED <<outer, watch, closer, dialling, streams, opened, link, answered, tally>>

-----------------------------------------------------------------------------
(* The server, the network, and the reader of the inner transport. *)

\* The server acts on the request, whether or not its answer will arrive.
ServerPerforms(c) ==
  /\ call[c].pc \in {"sent", "returned"} /\ call[c].reply = "none"
  /\ tally[c].sent > 0 /\ ~tally[c].acted
  /\ tally' = [tally EXCEPT ![c].performed = @ + 1, ![c].acted = TRUE]
  /\ UNCHANGED <<outer, watch, closer, dialling, streams, opened, link, call, answered>>

\* A result comes of a request performed, a rate limit of one that was not; what
\* failed inside the server may have been performed before it did.
Answers == {"response", "limited", "failed", "rejected"}
ServerAnswers(c, r) ==
  /\ call[c].pc = "sent" /\ call[c].reply = "none" /\ (world.kind = "ws" => link[call[c].conn] = "up")
  /\ r = "response" => tally[c].acted
  /\ r = "limited" => ~tally[c].acted
  /\ call' = [call EXCEPT ![c].reply = r]
  /\ answered' = IF r = "response" THEN answered \cup {c} ELSE answered
  /\ tally' = [tally EXCEPT ![c].limited = IF r = "limited" THEN @ + 1 ELSE @,
                            ![c].failed = IF r = "failed" THEN @ + 1 ELSE @]
  /\ UNCHANGED <<outer, watch, closer, dialling, streams, opened, link>>

\* readLoop, or readEvents through dispatch, puts a message of the server into
\* a channel of the inner transport, when there is room.
Dispatch(s, k) ==
  /\ link[k] = "up" /\ pushed[s][k] < MaxSent /\ pushed[s][k] - taken[s][k] < QueueCap
  /\ pushed' = [pushed EXCEPT ![s][k] = @ + 1]
  /\ UNCHANGED <<outer, watch, closer, dialling, out, fan, taken, got, opened, link, callers>>

\* The connection, or the stream of events, breaks (or was refused): the reader
\* ends, and closes the inner Done.
ReaderEnds(k) ==
  /\ link[k] = "up" /\ link' = [link EXCEPT ![k] = "over"]
  /\ UNCHANGED <<outer, watch, closer, dialling, streams, opened, callers>>

-----------------------------------------------------------------------------
WatchProceeds == WatchSeesDrop \/ WatchSeesDone \/ WatchWaited \/ DialFails \/ Install
FanProceeds(s, k) ==
  FanTakes(s, k) \/ FanPushes(s, k) \/ FanSeesDone(s, k) \/ FanSeesOver(s, k)
CloseProceeds == CloseDone \/ CloseInner
CallProceeds(c) ==
  \/ CallPicks(c) \/ CallRefused(c) \/ CallWrites(c) \/ CallPosts(c) \/ CallGetsReply(c)
  \/ CallInnerOver(c) \/ CallWaited(c)

Next ==
  \/ WatchProceeds \/ DialSucceeds \/ DialHangs
  \/ \E s \in Streams, k \in Conns : FanProceeds(s, k) \/ Dispatch(s, k)
  \/ \E s \in Streams : Receive(s)
  \/ CloseBegins \/ CloseProceeds
  \/ \E c \in Calls :
       \/ CallProceeds(c) \/ CallFails(c) \/ ServerPerforms(c)
       \/ \E r \in Answers : ServerAnswers(c, r)
  \/ \E k \in Conns : ReaderEnds(k)

Spec == Init /\ [][Next]_vars

\* Goroutines that can run do, a timer fires, a dial that does not hang ends, and
\* succeeds in the end once the server is there again, and the client receives
\* until it begins to close.
FairSpec ==
  /\ Spec
  /\ WF_vars(WatchProceeds) /\ SF_vars(DialSucceeds)
  /\ \A s \in AllStreams : WF_vars(s \in Streams /\ ~closed /\ Receive(s))
  /\ \A s \in AllStreams, k \in Conns : WF_vars(s \in Streams /\ FanProceeds(s, k))
  /\ WF_vars(CloseProceeds)
  /\ \A c \in Calls : WF_vars(CallProceeds(c))

-----------------------------------------------------------------------------
(* Properties. *)

\* Type invariant, with the capacities of the channels.
TypeOK ==
  /\ world \in Worlds /\ closed \in BOOLEAN /\ done \in BOOLEAN /\ dialling \in BOOLEAN
  /\ current \in 1..opened /\ opened \in Conns
  /\ watch \in {"wait", "backoff", "dial", "install", "hung", "ended"}
  /\ closer \in {"idle", "done", "inner", "returned"}
  /\ link \in [Conns -> {"none", "up", "over"}]
  /\ fan \in [Streams -> [Conns -> {"none", "select", "push", "ended"}]]
  /\ \A s \in Streams :
       /\ Len(out[s]) <= QueueCap
       /\ \A k \in Conns : pushed[s][k] - taken[s][k] \in 0..QueueCap
  /\ got \in [Streams -> [Conns -> 0..MaxSent]]
  /\ call \in [Calls -> [pc : {"start", "picked", "sent", "backoff", "returned"},
                         conn : 0..opened, attempt : 1..MaxAttempts,
                         reply : {"none"} \cup Answers,
                         result : {"none", "response", "ErrClosed", "error"}]]
  /\ answered \subseteq Calls
  /\ tally \in [Calls -> [sent : Nat, performed : Nat, limited : Nat, failed : Nat,
                          acted : BOOLEAN]]

\* What the client receives of a connection is what the server sent on it,
\* from the first message on, in order and without gaps, however the channels
\* fill up and however many connections are fanned together.  Only the end of
\* it may be missing, when the connection drops.
NoGapsPerConnection ==
  [][\A s \in Streams, k \in Conns : got'[s][k] \in {got[s][k], got[s][k] + 1}]_vars

\* While the connection holds and nobody closes, every message arrives.
Outstanding(s, k) == s \in Streams /\ got[s][k] < pushed[s][k]
EveryMessageArrives ==
  \A s \in AllStreams, k \in Conns :
    Outstanding(s, k) ~> (~Outstanding(s, k) \/ link[k] = "over" \/ closed)

\* A connection outlives Close only if watchLoop was dialling, past its last
\* look at closed, when Close began; and then it is one connection at most.
\* watchLoop installs it, and nobody is left to close it.
OnlyTheDialLeaks ==
  closer = "returned" =>
    \A k \in Conns : link[k] = "up" => dialling /\ k = opened

\* After Close everything comes to its end: watchLoop, unless it is in a dial that
\* hangs, the fans, and the Calls, but for those on a connection that outlives
\* Close, and the POSTs of HTTPTransport.  Close cancels neither dial nor POST.
CloseEndsEverything ==
  closed ~>
    /\ watch \in {"ended", "hung"}
    /\ \A s \in Streams, k \in Conns : fan[s][k] \in {"none", "ended"}
    /\ \A c \in world.calls :
         \/ call[c].pc = "returned"
         \/ world.kind = "http" /\ call[c].pc = "sent"
         \/ call[c].conn # 0 /\ link[call[c].conn] = "up"

\* A dropped connection is replaced, however often dialling fails, unless a dial
\* hangs: nothing makes watchLoop give up on it.
ConnectsAgain ==
  (link[current] = "over") ~>
    (link[current] = "up" \/ closed \/ opened = MaxConns \/ watch = "hung")

\* A Call is sent again only after the server has itself answered that it was
\* limited or failed, so one whose answer is lost with the connection is not (the
\* comments of the reconnecting transports have RetryTransport retry it).  But
\* a failure may come of a request that was performed, and then it is performed
\* again: more than once only as often as the server has answered with a failure.
RepeatedOnlyIfAnswered ==
  \A c \in Calls :
    /\ tally[c].sent <= tally[c].limited + tally[c].failed + 1
    /\ tally[c].performed <= tally[c].failed + 1

\* The layers together keep the promise of Call.  ErrClosed means that a
\* connection is over, not that the transport is: RetryTransport does not retry
\* it, and a Call on a dropped connection fails although the next one is up.
Promise == INSTANCE RPC WITH
  over <- \E k \in Conns : link[k] = "over",
  result <- [c \in Calls |-> call[c].result]
KeepsPromise == Promise!Spec
=============================================================================
