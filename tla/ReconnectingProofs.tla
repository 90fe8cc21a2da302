------------------------- MODULE ReconnectingProofs -------------------------
(***************************************************************************)
(* Proofs about Reconnecting, for every set of calls, number of attempts,  *)
(* channel capacity and number of connections and messages.                *)
(***************************************************************************)
EXTENDS Reconnecting, TLAPS

Replies == {"none"} \cup Answers
Tally == [sent : Nat, performed : Nat, limited : Nat, failed : Nat, acted : BOOLEAN]
CallStates == [pc : {"start", "picked", "sent", "backoff", "returned"},
               conn : 0..MaxConns, attempt : 1..MaxAttempts, reply : Replies,
               result : {"none", "response", "ErrClosed", "error"}]

\* What each variable can hold, whatever the others hold: the transport, the
\* streams, the callers.
OuterTypes ==
  /\ world \in Worlds /\ closed \in BOOLEAN /\ done \in BOOLEAN /\ dialling \in BOOLEAN
  /\ current \in Conns /\ opened \in Conns
  /\ watch \in {"wait", "backoff", "dial", "install", "hung", "ended"}
  /\ closer \in {"idle", "done", "inner", "returned"}
  /\ link \in [Conns -> {"none", "up", "over"}]
StreamTypes ==
  /\ out \in [Streams -> Seq(Conns \X Nat)]
  /\ fan \in [Streams -> [Conns -> {"none", "select", "push", "ended"}]]
  /\ pushed \in [Streams -> [Conns -> Nat]] /\ taken \in [Streams -> [Conns -> Nat]]
  /\ got \in [Streams -> [Conns -> Nat]]
CallTypes ==
  /\ call \in [Calls -> CallStates] /\ answered \subseteq Calls
  /\ tally \in [Calls -> Tally]
Types == OuterTypes /\ StreamTypes /\ CallTypes

\* watchLoop replaces a connection only once it is over, so that at most two
\* are known, and only the newer of them can be up; and who has begun to close.
Links ==
  /\ IF watch = "install" THEN opened = current + 1 ELSE opened = current
  /\ watch \in {"backoff", "dial", "install"} => link[current] = "over"
  /\ \A k \in Conns : (link[k] = "none") <=> (k > opened)
  /\ \A k \in Conns : link[k] = "up" => k \in {current, opened}
  /\ closed <=> (closer # "idle")
  /\ closed /\ watch \in {"dial", "install"} => dialling
  /\ closer = "returned" /\ link[current] = "up" => dialling

-----------------------------------------------------------------------------
(* The types, and the connections. *)

LEMMA Bounds == MaxConns \in Nat \ {0} /\ MaxAttempts \in Nat \ {0} /\ 1 \in Conns
<1>1. MaxConns \in Nat \ {0} /\ MaxAttempts \in Nat \ {0}
  BY ReconnectingAssumption
<1> QED
  BY <1>1 DEF Conns

LEMMA TypesInit == Init => Types
<1> SUFFICES ASSUME Init PROVE Types
  OBVIOUS
<1>1. OuterTypes
  BY Bounds DEF Init, OuterTypes
<1>2. StreamTypes
  BY DEF Init, StreamTypes
<1>3. CallTypes
  BY ReconnectingAssumption DEF Init, CallTypes, CallStates, Replies, Tally
<1> QED
  BY <1>1, <1>2, <1>3 DEF Types

\* The steps of watchLoop, Close and the readers.
OuterStep ==
  \/ WatchProceeds \/ DialSucceeds \/ DialHangs \/ CloseBegins \/ CloseProceeds
  \/ \E k \in Conns : ReaderEnds(k)

\* The steps of the streams, and of the callers.
StreamStep(s) == (\E k \in Conns : FanProceeds(s, k) \/ Dispatch(s, k)) \/ Receive(s)
CallStep(c) ==
  \/ CallProceeds(c) \/ CallFails(c) \/ ServerPerforms(c)
  \/ \E r \in Answers : ServerAnswers(c, r)

LEMMA NextSplit ==
  ASSUME [Next]_vars
  PROVE  \/ OuterStep \/ (\E s \in Streams : StreamStep(s)) \/ (\E c \in Calls : CallStep(c))
         \/ UNCHANGED vars
BY DEF Next, OuterStep, StreamStep, CallStep

\* Each part leaves the variables of the others alone.
LEMMA OuterFrame ==
  ASSUME OuterStep
  PROVE  UNCHANGED <<world, out, pushed, taken, got, callers>> /\ (UNCHANGED fan \/ Install)
BY DEF OuterStep, WatchProceeds, WatchSeesDrop, WatchSeesDone, WatchWaited, DialFails, DialHangs, DialSucceeds,
       Install, CloseBegins, CloseProceeds, CloseDone, CloseInner, ReaderEnds, outer, streams

LEMMA StreamFrame ==
  ASSUME NEW s, StreamStep(s)
  PROVE  UNCHANGED <<outer, watch, closer, dialling, opened, link, callers>>
BY DEF StreamStep, FanProceeds, FanTakes, FanPushes, FanSeesDone, FanSeesOver, FanEnds, Dispatch,
       Receive

LEMMA CallFrame ==
  ASSUME NEW c, CallStep(c)
  PROVE  UNCHANGED <<outer, watch, closer, dialling, opened, link, streams>>
BY DEF CallStep, CallProceeds, CallPicks, CallRefused, CallWrites, CallPosts, Sends,
       CallGetsReply, CallInnerOver, CallWaited, CallFails, ServerPerforms, ServerAnswers

LEMMA OuterTypesStep == ASSUME OuterTypes, OuterStep PROVE OuterTypes'
<1> USE DEF OuterTypes, outer
<1>1. CASE WatchSeesDrop \/ WatchSeesDone \/ WatchWaited \/ DialFails \/ DialHangs
  BY <1>1 DEF WatchSeesDrop, WatchSeesDone, WatchWaited, DialFails, DialHangs
<1>2. CASE DialSucceeds
  <2>1. opened + 1 \in Conns
    BY <1>2, ReconnectingAssumption DEF DialSucceeds, Conns
  <2> QED
    BY <1>2, <2>1 DEF DialSucceeds
<1>3. CASE Install
  BY <1>3 DEF Install
<1>4. CASE CloseBegins
  <2>1. dialling' \in BOOLEAN
    <3>1. dialling' = (watch \in {"dial", "install"})
      BY <1>4 DEF CloseBegins
    <3> QED
      BY <3>1, watch \in {"dial", "install"} \/ watch \notin {"dial", "install"}
  <2> QED
    BY <1>4, <2>1 DEF CloseBegins
<1>5. CASE CloseDone \/ CloseInner
  BY <1>5 DEF CloseDone, CloseInner, InnerClosed
<1>6. ASSUME NEW k \in Conns, ReaderEnds(k) PROVE OuterTypes'
  BY <1>6 DEF ReaderEnds
<1> QED
  BY <1>1, <1>2, <1>3, <1>4, <1>5, <1>6 DEF OuterStep, WatchProceeds, CloseProceeds

LEMMA StreamTypesStep ==
  ASSUME StreamTypes, NEW s \in Streams, StreamStep(s) PROVE StreamTypes'
<1>0. Streams' = Streams
  BY StreamFrame DEF outer, Streams
<1> USE <1>0 DEF StreamTypes
<1>1. ASSUME NEW k \in Conns, FanTakes(s, k) PROVE StreamTypes'
  BY <1>1 DEF FanTakes
<1>2. ASSUME NEW k \in Conns, FanPushes(s, k) PROVE StreamTypes'
  <2>1. Append(out[s], <<k, taken[s][k]>>) \in Seq(Conns \X Nat)
    OBVIOUS
  <2> QED
    BY <1>2, <2>1 DEF FanPushes
<1>3. ASSUME NEW k \in Conns, FanEnds(s, k) PROVE StreamTypes'
  BY <1>3 DEF FanEnds
<1>4. ASSUME NEW k \in Conns, Dispatch(s, k) PROVE StreamTypes'
  BY <1>4 DEF Dispatch
<1>5. ASSUME Receive(s) PROVE StreamTypes'
  <2>1. out[s] \in Seq(Conns \X Nat) /\ out[s] # <<>>
    BY <1>5 DEF Receive
  <2>2. Head(out[s]) \in Conns \X Nat /\ Tail(out[s]) \in Seq(Conns \X Nat)
    BY <2>1
  <2>3. Head(out[s])[1] \in Conns /\ Head(out[s])[2] \in Nat
    BY <2>2
  <2> QED
    BY <1>5, <2>2, <2>3 DEF Receive
<1> QED
  BY <1>1, <1>2, <1>3, <1>4, <1>5 DEF StreamStep, FanProceeds, FanSeesDone, FanSeesOver

LEMMA CallTypesStep ==
  ASSUME OuterTypes, CallTypes, NEW c \in Calls, CallStep(c) PROVE CallTypes'
<1> USE DEF CallTypes
<1>0. call[c] \in CallStates
  OBVIOUS
<1>1. ASSUME CallPicks(c) PROVE CallTypes'
  <2>1. current \in 0..MaxConns
    BY Bounds DEF OuterTypes, Conns
  <2>2. \A x \in 0..MaxConns : [call[c] EXCEPT !.pc = "picked", !.conn = x] \in CallStates
    BY <1>0 DEF CallStates
  <2> QED
    BY <1>1, <2>1, <2>2 DEF CallPicks
<1>2. ASSUME CallRefused(c) \/ CallWaited(c) \/ CallFails(c) PROVE CallTypes'
  BY <1>2 DEF CallRefused, CallWaited, CallFails, Returns, CallStates, Replies
<1>t. tally[c] \in Tally /\ tally[c].sent + 1 \in Nat /\ tally[c].performed + 1 \in Nat
      /\ tally[c].limited + 1 \in Nat /\ tally[c].failed + 1 \in Nat
  BY DEF Tally
<1>3. ASSUME Sends(c) PROVE CallTypes'
  <2>1. call' \in [Calls -> CallStates] /\ UNCHANGED answered
    BY <1>3 DEF Sends, CallStates
  <2>2. tally' \in [Calls -> Tally]
    BY <1>3, <1>t DEF Sends, Tally
  <2> QED
    BY <2>1, <2>2
<1>7. ASSUME ServerPerforms(c) PROVE CallTypes'
  <2>1. tally' \in [Calls -> Tally]
    BY <1>7, <1>t DEF ServerPerforms, Tally
  <2> QED
    BY <1>7, <2>1 DEF ServerPerforms
<1>4. ASSUME NEW r \in Answers \cup {"ErrClosed"}, AttemptEnds(c, r),
             UNCHANGED <<answered, tally>>
      PROVE  CallTypes'
  <2>1. CASE ~isRetryable(r) \/ call[c].attempt = MaxAttempts
    BY <1>4, <2>1 DEF AttemptEnds, Returns, CallStates, Answers
  <2>2. CASE isRetryable(r) /\ call[c].attempt # MaxAttempts
    <3>1. call[c].attempt + 1 \in 1..MaxAttempts
      BY <1>0, <2>2, Bounds DEF CallStates
    <3> QED
      BY <1>4, <2>2, <3>1 DEF AttemptEnds, CallStates
  <2> QED
    BY <2>1, <2>2
<1>5. ASSUME CallGetsReply(c) \/ CallInnerOver(c) PROVE CallTypes'
  <2>1. call[c].reply \in Replies
    BY <1>0 DEF CallStates
  <2> QED
    BY <1>4, <1>5, <2>1 DEF CallGetsReply, CallInnerOver, Replies
<1>6. ASSUME NEW r \in Answers, ServerAnswers(c, r)
      PROVE  CallTypes'
  <2>1. call' \in [Calls -> CallStates] /\ answered' \subseteq Calls
    BY <1>6 DEF ServerAnswers, CallStates, Replies
  <2>2. tally' \in [Calls -> Tally]
    BY <1>6, <1>t DEF ServerAnswers, Tally
  <2> QED
    BY <2>1, <2>2
<1> QED
  BY <1>1, <1>2, <1>3, <1>5, <1>6, <1>7 DEF CallStep, CallProceeds, CallWrites, CallPosts

LEMMA TypesStep == Types /\ [Next]_vars => Types'
<1> SUFFICES ASSUME Types, [Next]_vars PROVE Types'
  OBVIOUS
<1> USE DEF Types
<1>1. CASE OuterStep
  <2>1. StreamTypes'
    <3>1. CASE UNCHANGED fan
      BY <1>1, <3>1, OuterFrame DEF StreamTypes, Streams
    <3>2. CASE Install
      BY <1>1, <3>2, OuterFrame DEF StreamTypes, Streams, Install
    <3> QED
      BY <1>1, <3>1, <3>2, OuterFrame
  <2>2. CallTypes'
    BY <1>1, OuterFrame DEF CallTypes, callers
  <2> QED
    BY <1>1, <2>1, <2>2, OuterTypesStep
<1>2. ASSUME NEW s \in Streams, StreamStep(s) PROVE Types'
  BY <1>2, StreamTypesStep, StreamFrame DEF OuterTypes, CallTypes, outer, callers
<1>3. ASSUME NEW c \in Calls, CallStep(c) PROVE Types'
  BY <1>3, CallTypesStep, CallFrame DEF OuterTypes, StreamTypes, outer, streams, Streams
<1>4. CASE UNCHANGED vars
  BY <1>4 DEF vars, OuterTypes, StreamTypes, CallTypes, outer, streams, callers, Streams
<1> QED
  BY <1>1, <1>2, <1>3, <1>4, NextSplit

\* Connections, streams and Calls keep their types through every dial, drop,
\* retry and Close (ReconnectingWS, ReconnectingHTTP, RetryTransport).
THEOREM TypesInvariant == Spec => []Types
BY TypesInit, TypesStep, PTL DEF Spec

LEMMA LinksInit == Init => Links
BY ReconnectingAssumption DEF Init, Links, Conns

LEMMA LinksStep == Types /\ Links /\ [Next]_vars => Links'
<1> SUFFICES ASSUME Types, Links, [Next]_vars PROVE Links'
  OBVIOUS
<1> USE DEF Links, Types, OuterTypes
<1>1. CASE WatchSeesDrop \/ WatchSeesDone \/ WatchWaited \/ DialFails \/ DialHangs
  BY <1>1 DEF WatchSeesDrop, WatchSeesDone, WatchWaited, DialFails, DialHangs, outer
<1>2. CASE DialSucceeds
  BY <1>2 DEF DialSucceeds, outer, Conns
<1>3. CASE Install
  BY <1>3 DEF Install, Conns
<1>4. CASE CloseBegins \/ CloseDone
  BY <1>4 DEF CloseBegins, CloseDone
<1>5. CASE CloseInner
  BY <1>5 DEF CloseInner, InnerClosed, outer, Conns
<1>6. ASSUME NEW k \in Conns, ReaderEnds(k) PROVE Links'
  BY <1>6 DEF ReaderEnds, outer, Conns
<1>7. ASSUME UNCHANGED <<outer, watch, closer, dialling, opened, link>> PROVE Links'
  BY <1>7 DEF outer
<1> QED
  BY <1>1, <1>2, <1>3, <1>4, <1>5, <1>6, <1>7, NextSplit, StreamFrame, CallFrame
  DEF OuterStep, WatchProceeds, CloseProceeds, vars

\* watchLoop dials only when its connection is over, and Close sets closed before
\* it closes anything, so at most the connection just dialled escapes Close.
THEOREM LinksInvariant == Spec => []Links
BY TypesInvariant, LinksInit, LinksStep, PTL DEF Spec

\* A connection outlives Close only if watchLoop was past its last look at
\* closed when Close began, and then it is the last one opened.
THEOREM OnlyTheDialCanLeak == Spec => []OnlyTheDialLeaks
<1>1. Types /\ Links => OnlyTheDialLeaks
  BY DEF Types, OuterTypes, Links, OnlyTheDialLeaks, Conns
<1> QED
  BY <1>1, TypesInvariant, LinksInvariant, PTL

-----------------------------------------------------------------------------
(* RetryTransport.Call. *)

\* A Call has been sent at most once more often than the server has answered that
\* it was limited or failed, and at most as often whenever it is about to be sent
\* again, and performed at most once more often than it has failed; the answer it
\* holds is the server's, and it is on a connection unless it is still to begin.
Settled(c) ==
  /\ tally[c].sent <= tally[c].limited + tally[c].failed
  /\ tally[c].performed <= tally[c].failed
Attempt(c) ==
  /\ call[c].pc \in {"start", "picked"} => call[c].reply = "none" /\ Settled(c)
  /\ call[c].pc = "backoff" => call[c].reply \in {"limited", "failed"}
  /\ call[c].reply \in {"limited", "failed"} => Settled(c)
  /\ tally[c].sent <= tally[c].limited + tally[c].failed + 1
  /\ tally[c].performed <= tally[c].failed + (IF tally[c].acted THEN 1 ELSE 0)
  /\ call[c].reply = "response" => c \in answered
  /\ call[c].pc # "returned" => call[c].result = "none"
  /\ call[c].pc \in {"picked", "sent"} => call[c].conn \in Conns
Attempts == \A c \in Calls : Attempt(c)

LEMMA AttemptsInit == Init => Attempts
<1> SUFFICES ASSUME Init, NEW c \in Calls PROVE Attempt(c)
  BY DEF Attempts
<1>1. /\ call[c].pc = "start" /\ call[c].reply = "none" /\ call[c].result = "none"
      /\ tally[c].sent = 0 /\ tally[c].performed = 0 /\ tally[c].limited = 0
      /\ tally[c].failed = 0 /\ tally[c].acted = FALSE
  BY DEF Init
<1> QED
  BY <1>1 DEF Attempt, Settled

\* A step of one Call leaves the others alone.
LEMMA OtherCalls ==
  ASSUME CallTypes, NEW c \in Calls, CallStep(c), NEW d \in Calls, d # c
  PROVE  /\ call'[d] = call[d] /\ tally'[d] = tally[d]
         /\ d \in answered => d \in answered'
BY DEF CallTypes, CallStep, CallProceeds, CallPicks, CallRefused, CallWrites, CallPosts, Sends,
       CallGetsReply, CallInnerOver, CallWaited, CallFails, ServerPerforms, ServerAnswers, AttemptEnds, Returns

LEMMA AttemptStep ==
  ASSUME Types, NEW c \in Calls, Attempt(c), CallStep(c) PROVE Attempt(c)'
<1> USE DEF Attempt, Settled
<1>0. /\ call \in [Calls -> CallStates] /\ call[c] \in CallStates /\ current \in Conns
      /\ tally \in [Calls -> Tally] /\ tally[c] \in Tally
  BY DEF Types, CallTypes, OuterTypes
<1>1. ASSUME CallPicks(c) PROVE Attempt(c)'
  BY <1>0, <1>1 DEF CallPicks, CallStates
<1>2. ASSUME CallRefused(c) \/ CallWaited(c) \/ CallFails(c) PROVE Attempt(c)'
  BY <1>0, <1>2 DEF CallRefused, CallWaited, CallFails, Returns, CallStates
<1>3. ASSUME Sends(c) PROVE Attempt(c)'
  BY <1>0, <1>3 DEF Sends, CallStates, Tally
<1>7. ASSUME ServerPerforms(c) PROVE Attempt(c)'
  BY <1>0, <1>7 DEF ServerPerforms, CallStates, Tally
<1>4. ASSUME CallGetsReply(c) PROVE Attempt(c)'
  BY <1>0, <1>4 DEF CallGetsReply, AttemptEnds, isRetryable, Returns, CallStates
<1>5. ASSUME CallInnerOver(c) PROVE Attempt(c)'
  BY <1>0, <1>5 DEF CallInnerOver, AttemptEnds, isRetryable, Returns, CallStates
<1>6. ASSUME NEW r \in Answers, ServerAnswers(c, r)
      PROVE  Attempt(c)'
  BY <1>0, <1>6 DEF ServerAnswers, CallStates, Tally, Answers
<1> QED
  BY <1>1, <1>2, <1>3, <1>4, <1>5, <1>6, <1>7 DEF CallStep, CallProceeds, CallWrites, CallPosts

LEMMA AttemptsStep == Types /\ Attempts /\ [Next]_vars => Attempts'
<1> SUFFICES ASSUME Types, Attempts, [Next]_vars PROVE Attempts'
  OBVIOUS
<1>1. ASSUME UNCHANGED callers PROVE Attempts'
  BY <1>1 DEF callers, Attempts, Attempt, Settled
<1>2. ASSUME NEW c \in Calls, CallStep(c) PROVE Attempts'
  <2> SUFFICES ASSUME NEW d \in Calls PROVE Attempt(d)'
    BY DEF Attempts
  <2>1. Attempt(d)
    BY DEF Attempts
  <2>2. CASE d = c
    BY <1>2, <2>1, <2>2, AttemptStep
  <2>3. CASE d # c
    BY <1>2, <2>1, <2>3, OtherCalls DEF Attempt, Settled, Types
  <2> QED
    BY <2>2, <2>3
<1> QED
  BY <1>1, <1>2, NextSplit, OuterFrame, StreamFrame DEF vars

\* RetryTransport makes a new attempt only after an answer it may retry, so a Call
\* has been sent at most once more often than the server has answered it so.
THEOREM AttemptsInvariant == Spec => []Attempts
BY TypesInvariant, AttemptsInit, AttemptsStep, PTL DEF Spec

\* A Call is sent again only after the server's own answer that it was limited or
\* failed, never because its connection was lost, and performed again only after
\* the answer that it failed (RetryTransport.Call, isRetryable).
THEOREM RepeatsOnlyIfAnswered == Spec => []RepeatedOnlyIfAnswered
<1>1. Types /\ Attempts => RepeatedOnlyIfAnswered
  <2> SUFFICES ASSUME Types, Attempts, NEW c \in Calls
               PROVE  /\ tally[c].sent <= tally[c].limited + tally[c].failed + 1
                      /\ tally[c].performed <= tally[c].failed + 1
    BY DEF RepeatedOnlyIfAnswered
  <2>1. tally[c] \in Tally /\ Attempt(c)
    BY DEF Types, CallTypes, Attempts
  <2> QED
    BY <2>1 DEF Attempt, Tally
<1> QED
  BY <1>1, TypesInvariant, AttemptsInvariant, PTL

-----------------------------------------------------------------------------
(* The promise of Call. *)

SomeOver == \E k \in Conns : link[k] = "over"
Result == [c \in Calls |-> call[c].result]

\* A connection that is over stays over.
LEMMA OverForGood ==
  ASSUME Types, Links, OuterStep, NEW k \in Conns, link[k] = "over" PROVE link'[k] = "over"
<1> USE DEF Types, OuterTypes
<1>1. CASE DialSucceeds
  <2>1. k # opened + 1
    BY DEF Links, Conns
  <2> QED
    BY <1>1, <2>1 DEF DialSucceeds
<1>2. ASSUME CloseInner \/ \E j \in Conns : ReaderEnds(j) PROVE link'[k] = "over"
  BY <1>2 DEF CloseInner, InnerClosed, ReaderEnds
<1> QED
  BY <1>1, <1>2 DEF OuterStep, WatchProceeds, WatchSeesDrop, WatchSeesDone, WatchWaited,
    DialFails, DialHangs, Install, CloseBegins, CloseProceeds, CloseDone

LEMMA PromiseInit == Init => Promise!Init
BY DEF Init, Promise!Init, Conns

LEMMA PromiseOuter ==
  ASSUME Types, Links, OuterStep PROVE [Promise!Next]_(Promise!vars)
<1>1. UNCHANGED <<answered, Result>>
  BY OuterFrame DEF callers, Result
<1>2. (SomeOver' <=> SomeOver) \/ SomeOver'
  <2> SUFFICES ASSUME SomeOver PROVE SomeOver'
    OBVIOUS
  <2>1. PICK k \in Conns : link[k] = "over"
    BY DEF SomeOver
  <2>2. link'[k] = "over"
    BY <2>1, OverForGood
  <2> QED
    BY <2>2 DEF SomeOver
<1> QED
  BY <1>1, <1>2 DEF Promise!Next, Promise!End, Promise!vars, SomeOver, Result

LEMMA PromiseCall ==
  ASSUME Types, Attempts, NEW c \in Calls, CallStep(c) PROVE [Promise!Next]_(Promise!vars)
<1>0. /\ call \in [Calls -> CallStates] /\ call[c] \in CallStates /\ Attempt(c)
      /\ answered \subseteq Calls
  BY DEF Types, CallTypes, Attempts
<1>1. UNCHANGED SomeOver
  BY CallFrame DEF SomeOver
\* A step that returns is a Return of the promise; the others do not show.
<1>2. ASSUME NEW r \in {"response", "ErrClosed", "error"}, Returns(c, r), UNCHANGED answered,
             call[c].pc # "returned", r = "response" => c \in answered,
             r = "ErrClosed" => SomeOver
      PROVE  Promise!Return(c, r)
  <2>1. Result[c] = "none" /\ Result' = [Result EXCEPT ![c] = r]
    BY <1>0, <1>2 DEF Result, Returns, Attempt, CallStates
  <2> QED
    BY <1>1, <1>2, <2>1 DEF Promise!Return, SomeOver, Result
<1>3. ASSUME UNCHANGED <<answered, Result>> PROVE UNCHANGED Promise!vars
  BY <1>1, <1>3 DEF Promise!vars, SomeOver, Result
<1>4. ASSUME UNCHANGED answered, \A d \in Calls : call'[d].result = call[d].result
      PROVE  UNCHANGED Promise!vars
  BY <1>3, <1>4 DEF Result
<1>5. CASE CallPicks(c) \/ CallWaited(c) \/ Sends(c) \/ ServerPerforms(c)
  BY <1>0, <1>4, <1>5 DEF CallPicks, CallWaited, Sends, ServerPerforms, CallStates
<1>6. CASE CallRefused(c)
  <2>1. SomeOver
    BY <1>0, <1>6 DEF CallRefused, Attempt, SomeOver
  <2> QED
    BY <1>2, <1>6, <2>1 DEF CallRefused, Promise!Next
<1>7. CASE CallFails(c)
  BY <1>2, <1>7 DEF CallFails, Promise!Next
<1>8. ASSUME NEW r \in Answers \cup {"ErrClosed"}, AttemptEnds(c, r),
             UNCHANGED answered, call[c].pc = "sent", r = "response" => c \in answered,
             r = "ErrClosed" => SomeOver
      PROVE  [Promise!Next]_(Promise!vars)
  <2>1. CASE ~isRetryable(r) \/ call[c].attempt = MaxAttempts
    BY <1>2, <1>8, <2>1 DEF AttemptEnds, Promise!Next
  <2>2. CASE isRetryable(r) /\ call[c].attempt # MaxAttempts
    BY <1>0, <1>4, <1>8, <2>2 DEF AttemptEnds, CallStates
  <2> QED
    BY <2>1, <2>2
<1>9. CASE CallGetsReply(c)
  <2>1. call[c].reply \in Replies
    BY <1>0 DEF CallStates
  <2> QED
    BY <1>0, <1>8, <1>9, <2>1 DEF CallGetsReply, Attempt, Replies, Answers
<1>10. CASE CallInnerOver(c)
  <2>1. SomeOver
    BY <1>0, <1>10 DEF CallInnerOver, Attempt, SomeOver
  <2> QED
    BY <1>8, <1>10, <2>1 DEF CallInnerOver
<1>11. ASSUME NEW r \in Answers, ServerAnswers(c, r)
       PROVE  [Promise!Next]_(Promise!vars)
  <2>1. UNCHANGED Result
    BY <1>0, <1>11 DEF ServerAnswers, CallStates, Result
  <2>2. CASE r = "response"
    <3>1. Promise!Answer(c)
      BY <1>1, <1>11, <2>1, <2>2 DEF ServerAnswers, Promise!Answer, SomeOver, Result
    <3> QED
      BY <3>1 DEF Promise!Next
  <2>3. CASE r # "response"
    BY <1>3, <1>11, <2>1, <2>3 DEF ServerAnswers
  <2> QED
    BY <2>2, <2>3
<1> QED
  BY <1>5, <1>6, <1>7, <1>9, <1>10, <1>11 DEF CallStep, CallProceeds, CallWrites, CallPosts

LEMMA PromiseStep ==
  Types /\ Links /\ Attempts /\ [Next]_vars => [Promise!Next]_(Promise!vars)
<1> SUFFICES ASSUME Types, Links, Attempts, [Next]_vars PROVE [Promise!Next]_(Promise!vars)
  OBVIOUS
<1>1. ASSUME UNCHANGED <<link, callers>> PROVE UNCHANGED Promise!vars
  BY <1>1 DEF callers, Promise!vars
<1> QED
  BY <1>1, PromiseOuter, PromiseCall, NextSplit, StreamFrame DEF vars

\* RetryTransport over the connections, one after the other, implements the
\* promise of Call: a Call returns once, a result only if the server answered
\* it, ErrClosed only if a connection is over.
THEOREM PromiseKept == Spec => KeepsPromise
BY TypesInvariant, LinksInvariant, AttemptsInvariant, PromiseInit, PromiseStep, PTL
DEF Spec, KeepsPromise, Promise!Spec

-----------------------------------------------------------------------------
(* The streams. *)

\* The messages of connection k in a channel q, when g were received and t were
\* pushed: numbers from g + 1 to t, ascending, each with the one before it ahead.
InOrder(q, k, g, t) ==
  /\ \A i \in 1..Len(q) : q[i][1] = k => g < q[i][2] /\ q[i][2] <= t
  /\ \A i, j \in 1..Len(q) : i < j /\ q[i][1] = k /\ q[j][1] = k => q[i][2] < q[j][2]
  /\ \A i \in 1..Len(q) : q[i][1] = k /\ q[i][2] > g + 1 =>
       \E j \in 1..Len(q) : j < i /\ q[j][1] = k /\ q[j][2] = q[i][2] - 1

\* The last of them is there, if any is.
Complete(q, k, g, t) == t > g => \E i \in 1..Len(q) : q[i][1] = k /\ q[i][2] = t

\* p is q with one message more at its end, or without its first.  The lemmas look
\* at the channels message by message.
Longer(p, q) ==
  /\ Len(q) \in Nat /\ Len(p) = Len(q) + 1
  /\ \A i \in 1..Len(q) : p[i] = q[i] /\ q[i][2] \in Nat
Shorter(p, q) ==
  /\ Len(q) \in Nat \ {0} /\ Len(p) = Len(q) - 1
  /\ \A i \in 1..Len(p) : p[i] = q[i + 1] /\ i + 1 \in 1..Len(q)
  /\ \A i \in 1..Len(q) : q[i][2] \in Nat

\* Pushing the next message.
LEMMA LongerOwn ==
  ASSUME NEW q, NEW p, NEW k, NEW g \in Nat, NEW t \in Nat, g <= t,
         InOrder(q, k, g, t), Complete(q, k, g, t),
         Longer(p, q), p[Len(q) + 1][1] = k, p[Len(q) + 1][2] = t + 1
  PROVE  InOrder(p, k, g, t + 1) /\ Complete(p, k, g, t + 1)
<1>1. /\ Len(q) \in Nat /\ Len(p) = Len(q) + 1
      /\ \A i \in 1..Len(q) : p[i] = q[i] /\ q[i][2] \in Nat
  BY DEF Longer
<1>2. \A i \in 1..Len(p) : i \in 1..Len(q) \/ i = Len(q) + 1
  BY <1>1
<1>3. \A i \in 1..Len(p) : p[i][1] = k => g < p[i][2] /\ p[i][2] <= t + 1
  BY <1>1, <1>2 DEF InOrder
<1>4. ASSUME NEW i \in 1..Len(p), NEW j \in 1..Len(p), i < j, p[i][1] = k, p[j][1] = k
      PROVE  p[i][2] < p[j][2]
  <2>1. i \in 1..Len(q)
    BY <1>1, <1>4
  <2>2. CASE j \in 1..Len(q)
    <3>1. p[i] = q[i] /\ p[j] = q[j]
      BY <1>1, <2>1, <2>2
    <3> QED
      BY <1>4, <2>1, <2>2, <3>1 DEF InOrder
  <2>3. CASE j = Len(q) + 1
    <3>1. p[i][2] <= t /\ p[i][2] \in Nat /\ p[j][2] = t + 1
      BY <1>1, <1>4, <2>1, <2>3 DEF InOrder
    <3> QED
      BY <3>1
  <2> QED
    BY <1>2, <2>2, <2>3
<1>5. ASSUME NEW i \in 1..Len(p), p[i][1] = k, p[i][2] > g + 1
      PROVE  \E j \in 1..Len(p) : j < i /\ p[j][1] = k /\ p[j][2] = p[i][2] - 1
  <2>1. CASE i \in 1..Len(q)
    <3>1. PICK j \in 1..Len(q) : j < i /\ q[j][1] = k /\ q[j][2] = q[i][2] - 1
      BY <1>1, <1>5, <2>1 DEF InOrder
    <3> QED
      BY <1>1, <2>1, <3>1
  <2>2. CASE i = Len(q) + 1
    <3>a. p[i][2] = t + 1
      BY <1>1, <2>2
    <3>b. t > g
      BY <1>5, <3>a
    <3>1. PICK j \in 1..Len(q) : q[j][1] = k /\ q[j][2] = t
      BY <3>b DEF Complete
    <3>2. j \in 1..Len(p) /\ j < i /\ p[j] = q[j]
      BY <1>1, <2>2
    <3>3. p[i][2] - 1 = t
      BY <3>a
    <3> QED
      BY <3>1, <3>2, <3>3
  <2> QED
    BY <1>2, <2>1, <2>2
<1>6. Complete(p, k, g, t + 1)
  BY <1>1 DEF Complete
<1>7. InOrder(p, k, g, t + 1)
  BY <1>3, <1>4, <1>5 DEF InOrder
<1> QED
  BY <1>6, <1>7

LEMMA AppendOwn ==
  ASSUME NEW q \in Seq(Conns \X Nat), NEW k \in Conns, NEW g \in Nat, NEW t \in Nat, g <= t,
         InOrder(q, k, g, t), Complete(q, k, g, t)
  PROVE  /\ InOrder(Append(q, <<k, t + 1>>), k, g, t + 1)
         /\ Complete(Append(q, <<k, t + 1>>), k, g, t + 1)
<1> DEFINE p == Append(q, <<k, t + 1>>)
<1>1. Longer(p, q) /\ p[Len(q) + 1][1] = k /\ p[Len(q) + 1][2] = t + 1
  BY DEF Longer
<1> HIDE DEF p
<1>2. InOrder(p, k, g, t + 1) /\ Complete(p, k, g, t + 1)
  BY <1>1, LongerOwn
<1> QED
  BY <1>2 DEF p

\* Pushing a message of another connection.
LEMMA AppendOther ==
  ASSUME NEW q \in Seq(Conns \X Nat), NEW k \in Conns, NEW g \in Nat, NEW t \in Nat,
         InOrder(q, k, g, t), NEW j \in Conns, j # k, NEW n \in Nat
  PROVE  /\ InOrder(Append(q, <<j, n>>), k, g, t)
         /\ Complete(q, k, g, t) => Complete(Append(q, <<j, n>>), k, g, t)
<1> DEFINE p == Append(q, <<j, n>>)
<1>1. /\ Len(q) \in Nat /\ Len(p) = Len(q) + 1 /\ p[Len(q) + 1][1] = j
      /\ \A i \in 1..Len(q) : p[i] = q[i]
  OBVIOUS
<1>2. \A i \in 1..Len(p) : i \in 1..Len(q) \/ i = Len(q) + 1
  BY <1>1
<1> HIDE DEF p
<1>3. \A i \in 1..Len(p) : p[i][1] = k => i \in 1..Len(q) /\ p[i] = q[i]
  BY <1>1, <1>2
<1>4. 1..Len(q) \subseteq 1..Len(p)
  BY <1>1
<1>5. ASSUME NEW i \in 1..Len(p), p[i][1] = k, p[i][2] > g + 1
      PROVE  \E h \in 1..Len(p) : h < i /\ p[h][1] = k /\ p[h][2] = p[i][2] - 1
  <2>1. PICK h \in 1..Len(q) : h < i /\ q[h][1] = k /\ q[h][2] = q[i][2] - 1
    BY <1>3, <1>5 DEF InOrder
  <2> QED
    BY <1>1, <1>3, <1>4, <1>5, <2>1
<1>6. InOrder(p, k, g, t)
  BY <1>3, <1>5 DEF InOrder
<1>7. Complete(q, k, g, t) => Complete(p, k, g, t)
  BY <1>1, <1>4 DEF Complete
<1> QED
  BY <1>6, <1>7 DEF p

\* Receiving: the first message of k in the channel is the next one.
LEMMA ShorterOwn ==
  ASSUME NEW q, NEW p, NEW k, NEW g \in Nat, NEW t \in Nat,
         InOrder(q, k, g, t), Shorter(p, q), q[1][1] = k
  PROVE  /\ q[1][2] = g + 1 /\ g + 1 <= t
         /\ InOrder(p, k, g + 1, t)
         /\ Complete(q, k, g, t) => Complete(p, k, g + 1, t)
<1>1. /\ Len(q) \in Nat \ {0} /\ Len(p) = Len(q) - 1
      /\ \A i \in 1..Len(p) : p[i] = q[i + 1] /\ i + 1 \in 1..Len(q)
      /\ \A i \in 1..Len(q) : q[i][2] \in Nat
  BY DEF Shorter
<1>2. \A i \in 1..Len(q) : i = 1 \/ (i - 1 \in 1..Len(p) /\ p[i - 1] = q[i])
  BY <1>1
<1>3. q[1][2] = g + 1 /\ g + 1 <= t
  BY <1>1 DEF InOrder
<1>4. \A i \in 1..Len(p) : p[i][1] = k => g + 1 < p[i][2] /\ p[i][2] <= t
  <2>1. SUFFICES ASSUME NEW i \in 1..Len(p), p[i][1] = k PROVE g + 1 < p[i][2] /\ p[i][2] <= t
    OBVIOUS
  <2>2. p[i] = q[i + 1] /\ i + 1 \in 1..Len(q)
    BY <1>1
  <2>a. Len(p) \in Nat /\ Len(q) \in Nat \ {0}
    BY <1>1
  <2>b. 1 \in 1..Len(q) /\ 1 < i + 1
    BY <2>a
  <2>3. q[1][2] < q[i + 1][2] /\ q[i + 1][2] <= t
    BY <2>1, <2>2, <2>b DEF InOrder
  <2> QED
    BY <1>3, <2>2, <2>3
<1>5. ASSUME NEW i \in 1..Len(p), NEW j \in 1..Len(p), i < j, p[i][1] = k, p[j][1] = k
      PROVE  p[i][2] < p[j][2]
  <2>1. i + 1 \in 1..Len(q) /\ p[i] = q[i + 1]
    BY <1>1
  <2>2. j + 1 \in 1..Len(q) /\ p[j] = q[j + 1]
    BY <1>1
  <2>3. i + 1 < j + 1
    BY <1>5
  <2> QED
    BY <1>5, <2>1, <2>2, <2>3 DEF InOrder
<1>6. ASSUME NEW i \in 1..Len(p), p[i][1] = k, p[i][2] > g + 2
      PROVE  \E j \in 1..Len(p) : j < i /\ p[j][1] = k /\ p[j][2] = p[i][2] - 1
  <2>0. i + 1 \in 1..Len(q) /\ p[i] = q[i + 1] /\ q[i + 1][2] \in Nat /\ q[i + 1][2] > g + 2
    BY <1>1, <1>6
  <2>1. PICK j \in 1..Len(q) : j < i + 1 /\ q[j][1] = k /\ q[j][2] = q[i + 1][2] - 1
    <3>1. q[i + 1][1] = k /\ q[i + 1][2] > g + 1
      BY <1>6, <2>0
    <3> QED
      BY <2>0, <3>1 DEF InOrder
  <2>2. j # 1
    BY <1>3, <2>0, <2>1
  <2>3. j - 1 \in 1..Len(p) /\ p[j - 1] = q[j]
    BY <1>2, <2>2
  <2>4. j - 1 < i
    BY <2>1
  <2> QED
    BY <2>0, <2>1, <2>3, <2>4
<1>7. InOrder(p, k, g + 1, t)
  BY <1>4, <1>5, <1>6 DEF InOrder
<1>8. ASSUME Complete(q, k, g, t), t > g + 1
      PROVE  \E i \in 1..Len(p) : p[i][1] = k /\ p[i][2] = t
  <2>1. PICK i \in 1..Len(q) : q[i][1] = k /\ q[i][2] = t
    BY <1>8 DEF Complete
  <2>2. i # 1
    <3>1. q[1][2] # t
      BY <1>3, <1>8
    <3> QED
      BY <2>1, <3>1
  <2>3. i - 1 \in 1..Len(p) /\ p[i - 1] = q[i]
    BY <1>2, <2>2
  <2> QED
    BY <2>1, <2>3
<1> QED
  BY <1>3, <1>7, <1>8 DEF Complete

LEMMA TailOwn ==
  ASSUME NEW q \in Seq(Conns \X Nat), NEW k \in Conns, NEW g \in Nat, NEW t \in Nat,
         InOrder(q, k, g, t), q # <<>>, q[1][1] = k
  PROVE  /\ q[1][2] = g + 1 /\ g + 1 <= t
         /\ InOrder(Tail(q), k, g + 1, t)
         /\ Complete(q, k, g, t) => Complete(Tail(q), k, g + 1, t)
<1> DEFINE p == Tail(q)
<1>1. Shorter(p, q)
  BY SMTT(30) DEF Shorter
<1> HIDE DEF p
<1>2. /\ q[1][2] = g + 1 /\ g + 1 <= t /\ InOrder(p, k, g + 1, t)
      /\ Complete(q, k, g, t) => Complete(p, k, g + 1, t)
  BY <1>1, ShorterOwn
<1> QED
  BY <1>2 DEF p

LEMMA TailOther ==
  ASSUME NEW q \in Seq(Conns \X Nat), NEW k \in Conns, NEW g \in Nat, NEW t \in Nat,
         InOrder(q, k, g, t), q # <<>>, q[1][1] # k
  PROVE  /\ InOrder(Tail(q), k, g, t)
         /\ Complete(q, k, g, t) => Complete(Tail(q), k, g, t)
<1> DEFINE p == Tail(q)
<1>1. /\ Len(q) \in Nat \ {0} /\ Len(p) = Len(q) - 1
      /\ \A i \in 1..Len(p) : p[i] = q[i + 1] /\ i + 1 \in 1..Len(q)
  OBVIOUS
<1>2. \A i \in 1..Len(q) : q[i][1] = k => i - 1 \in 1..Len(p) /\ p[i - 1] = q[i]
  BY <1>1
<1> HIDE DEF p
<1>3. ASSUME NEW i \in 1..Len(p), p[i][1] = k, p[i][2] > g + 1
      PROVE  \E j \in 1..Len(p) : j < i /\ p[j][1] = k /\ p[j][2] = p[i][2] - 1
  <2>1. i + 1 \in 1..Len(q) /\ p[i] = q[i + 1]
    BY <1>1
  <2>2. PICK j \in 1..Len(q) : j < i + 1 /\ q[j][1] = k /\ q[j][2] = q[i + 1][2] - 1
    BY <1>3, <2>1 DEF InOrder
  <2>3. j - 1 \in 1..Len(p) /\ p[j - 1] = q[j]
    BY <1>2, <2>2
  <2>4. j - 1 < i
    BY <2>2
  <2> QED
    BY <2>1, <2>2, <2>3, <2>4
<1>4. ASSUME NEW i \in 1..Len(p), NEW j \in 1..Len(p), i < j, p[i][1] = k, p[j][1] = k
      PROVE  p[i][2] < p[j][2]
  <2>1. i + 1 \in 1..Len(q) /\ p[i] = q[i + 1]
    BY <1>1
  <2>2. j + 1 \in 1..Len(q) /\ p[j] = q[j + 1]
    BY <1>1
  <2>3. i + 1 < j + 1
    BY <1>4
  <2> QED
    BY <1>4, <2>1, <2>2, <2>3 DEF InOrder
<1>5. InOrder(p, k, g, t)
  BY <1>1, <1>3, <1>4 DEF InOrder
<1>6. Complete(q, k, g, t) => Complete(p, k, g, t)
  BY <1>2 DEF Complete
<1> QED
  BY <1>5, <1>6 DEF p

\* How many messages of connection k have been pushed by its fan.
Pushed(s, k) == IF fan[s][k] = "push" THEN taken[s][k] - 1 ELSE taken[s][k]

\* What is between the server and the client, on one stream of one connection.
Flow(s, k) ==
  /\ got[s][k] <= Pushed(s, k) /\ InOrder(out[s], k, got[s][k], Pushed(s, k))
  /\ fan[s][k] \in {"select", "push"} => Complete(out[s], k, got[s][k], Pushed(s, k))
  /\ k > current => fan[s][k] = "none"
  /\ fan[s][k] = "none" => taken[s][k] = 0
  /\ taken[s][k] <= pushed[s][k] /\ pushed[s][k] - taken[s][k] <= QueueCap
  /\ pushed[s][k] <= MaxSent
Flows == \A s \in Streams : Len(out[s]) <= QueueCap /\ \A k \in Conns : Flow(s, k)

LEMMA FlowsInit == Init => Flows
<1> SUFFICES ASSUME Init, NEW s \in Streams
             PROVE  Len(out[s]) <= QueueCap /\ \A k \in Conns : Flow(s, k)
  BY DEF Flows
<1>1. /\ out[s] = <<>> /\ Len(out[s]) = 0 /\ current = 1
      /\ \A k \in Conns : /\ pushed[s][k] = 0 /\ taken[s][k] = 0 /\ got[s][k] = 0
                          /\ fan[s][k] = IF k = 1 THEN "select" ELSE "none"
  BY DEF Init
<1>2. QueueCap \in Nat /\ MaxSent \in Nat
  BY ReconnectingAssumption
<1>3. \A k \in Conns : Pushed(s, k) = 0
  BY <1>1 DEF Pushed
<1> QED
  BY <1>1, <1>2, <1>3 DEF Flow, InOrder, Complete, Conns

\* The types of one stream of one connection.
LEMMA FlowTypes ==
  ASSUME Types, NEW s \in Streams, NEW k \in Conns
  PROVE  /\ out[s] \in Seq(Conns \X Nat) /\ got[s][k] \in Nat
         /\ taken[s][k] \in Nat /\ pushed[s][k] \in Nat
         /\ fan[s][k] \in {"none", "select", "push", "ended"}
         /\ current \in Nat /\ k \in Nat /\ QueueCap \in Nat /\ MaxSent \in Nat
<1>1. QueueCap \in Nat /\ MaxSent \in Nat /\ current \in Nat /\ k \in Nat
  BY ReconnectingAssumption DEF Types, OuterTypes, Conns
<1> QED
  BY <1>1 DEF Types, StreamTypes

\* Messages go on from 1: what the fan holds is one more than what it pushed.
LEMMA PushedNat ==
  ASSUME Types, NEW s \in Streams, NEW k \in Conns, Flow(s, k)
  PROVE  /\ Pushed(s, k) \in Nat
         /\ fan[s][k] = "push" => taken[s][k] = Pushed(s, k) + 1
         /\ fan[s][k] # "push" => taken[s][k] = Pushed(s, k)
BY FlowTypes DEF Flow, Pushed

\* A step that changes nothing of a stream of a connection.
LEMMA FlowFrame ==
  ASSUME NEW s, NEW k, Flow(s, k), current' = current,
         out'[s] = out[s], got'[s][k] = got[s][k], taken'[s][k] = taken[s][k],
         pushed'[s][k] = pushed[s][k], fan'[s][k] = fan[s][k]
  PROVE  Flow(s, k)'
BY DEF Flow, Pushed

\* The fan of one stream of one connection steps; s and k are that stream and
\* connection, t and j any.
LEMMA FanTakesFlow ==
  ASSUME Types, Flows, NEW s \in Streams, NEW k \in Conns, FanTakes(s, k) PROVE Flows'
<1> SUFFICES ASSUME NEW t \in Streams, NEW j \in Conns
             PROVE  Len(out'[t]) <= QueueCap /\ Flow(t, j)'
  BY DEF Flows, FanTakes, outer, Streams
<1>0. Flow(t, j) /\ Len(out[t]) <= QueueCap
  BY DEF Flows
<1>1. UNCHANGED <<current, out, pushed, got>>
  BY DEF FanTakes, outer
<1>2. CASE t = s /\ j = k
  <2>1. /\ taken'[t][j] = taken[t][j] + 1 /\ fan'[t][j] = "push"
        /\ fan[t][j] = "select" /\ pushed[t][j] > taken[t][j]
    BY <1>2 DEF FanTakes, Holds, Types, StreamTypes
  <2>2. Pushed(t, j)' = Pushed(t, j) /\ Pushed(t, j) = taken[t][j]
    BY <1>0, <2>1, FlowTypes DEF Pushed
  <2> QED
    BY <1>0, <1>1, <2>1, <2>2, FlowTypes DEF Flow
<1>3. CASE ~(t = s /\ j = k)
  <2>1. taken'[t][j] = taken[t][j] /\ fan'[t][j] = fan[t][j]
    BY <1>3 DEF FanTakes, Types, StreamTypes
  <2> QED
    BY <1>0, <1>1, <2>1, FlowFrame
<1> QED
  BY <1>2, <1>3

LEMMA FanPushesFlow ==
  ASSUME Types, Flows, NEW s \in Streams, NEW k \in Conns, FanPushes(s, k) PROVE Flows'
<1> SUFFICES ASSUME NEW t \in Streams, NEW j \in Conns
             PROVE  Len(out'[t]) <= QueueCap /\ Flow(t, j)'
  BY DEF Flows, FanPushes, outer, Streams
<1>0. Flow(t, j) /\ Len(out[t]) <= QueueCap
  BY DEF Flows
<1>1. UNCHANGED <<current, pushed, taken, got>>
  BY DEF FanPushes, outer
<1>2. /\ out'[s] = Append(out[s], <<k, taken[s][k]>>)
      /\ Len(out[s]) < QueueCap /\ fan[s][k] = "push" /\ fan'[s][k] = "select"
      /\ t # s => out'[t] = out[t]
      /\ ~(t = s /\ j = k) => fan'[t][j] = fan[t][j]
  BY DEF FanPushes, Types, StreamTypes
<1>3. Len(out'[t]) <= QueueCap
  <2>1. Len(out'[s]) = Len(out[s]) + 1 /\ Len(out[s]) \in Nat
    BY <1>2, FlowTypes
  <2> QED
    BY <1>0, <1>2, <2>1, FlowTypes
<1>4. CASE t = s /\ j = k
  <2>1. Pushed(t, j) \in Nat /\ taken[t][j] = Pushed(t, j) + 1
    BY <1>0, <1>2, <1>4, PushedNat
  <2>2. Pushed(t, j)' = Pushed(t, j) + 1
    BY <1>1, <1>2, <1>4, <2>1 DEF Pushed
  <2>3. /\ InOrder(out'[t], j, got[t][j], Pushed(t, j) + 1)
        /\ Complete(out'[t], j, got[t][j], Pushed(t, j) + 1)
    <3>1. out'[t] = Append(out[t], <<j, Pushed(t, j) + 1>>)
      BY <1>2, <1>4, <2>1
    <3>2. /\ got[t][j] <= Pushed(t, j) /\ InOrder(out[t], j, got[t][j], Pushed(t, j))
          /\ Complete(out[t], j, got[t][j], Pushed(t, j))
      BY <1>0, <1>2, <1>4 DEF Flow
    <3> QED
      <4>1. out[t] \in Seq(Conns \X Nat) /\ got[t][j] \in Nat
        BY FlowTypes
      <4>2. /\ InOrder(Append(out[t], <<j, Pushed(t, j) + 1>>), j, got[t][j], Pushed(t, j) + 1)
            /\ Complete(Append(out[t], <<j, Pushed(t, j) + 1>>), j, got[t][j], Pushed(t, j) + 1)
        BY <2>1, <3>2, <4>1, AppendOwn
      <4> QED
        BY <3>1, <4>2
  <2>4. got[t][j] <= Pushed(t, j) + 1
    <3>1. got[t][j] \in Nat /\ got[t][j] <= Pushed(t, j)
      BY <1>0, FlowTypes DEF Flow
    <3> QED
      BY <2>1, <3>1
  <2>5. ~(j > current) /\ taken[t][j] <= pushed[t][j]
        /\ pushed[t][j] - taken[t][j] <= QueueCap /\ pushed[t][j] <= MaxSent
    BY <1>0, <1>2, <1>4 DEF Flow
  <2> QED
    BY <1>1, <1>2, <1>3, <1>4, <2>2, <2>3, <2>4, <2>5 DEF Flow
<1>5. CASE t = s /\ j # k
  <2>1. Pushed(t, j) \in Nat /\ Pushed(t, j)' = Pushed(t, j) /\ fan'[t][j] = fan[t][j]
    BY <1>0, <1>1, <1>2, <1>5, PushedNat DEF Pushed
  <2>2. InOrder(out[t], j, got[t][j], Pushed(t, j))
    BY <1>0 DEF Flow
  <2>3. /\ InOrder(out'[t], j, got[t][j], Pushed(t, j))
        /\ Complete(out[t], j, got[t][j], Pushed(t, j))
             => Complete(out'[t], j, got[t][j], Pushed(t, j))
    <3>1. /\ out[t] \in Seq(Conns \X Nat) /\ got[t][j] \in Nat /\ taken[s][k] \in Nat
          /\ out'[t] = Append(out[t], <<k, taken[s][k]>>)
      BY <1>2, <1>5, FlowTypes
    <3>2. /\ InOrder(Append(out[t], <<k, taken[s][k]>>), j, got[t][j], Pushed(t, j))
          /\ Complete(out[t], j, got[t][j], Pushed(t, j))
               => Complete(Append(out[t], <<k, taken[s][k]>>), j, got[t][j], Pushed(t, j))
      BY <1>5, <2>1, <2>2, <3>1, AppendOther
    <3> QED
      BY <3>1, <3>2
  <2> QED
    BY <1>0, <1>1, <1>3, <2>1, <2>3 DEF Flow
<1>6. CASE t # s
  BY <1>0, <1>1, <1>2, <1>3, <1>6, FlowFrame
<1> QED
  BY <1>4, <1>5, <1>6

LEMMA FanEndsFlow ==
  ASSUME Types, Flows, NEW s \in Streams, NEW k \in Conns, fan[s][k] \in {"select", "push"},
         FanEnds(s, k)
  PROVE  Flows'
<1> SUFFICES ASSUME NEW t \in Streams, NEW j \in Conns
             PROVE  Len(out'[t]) <= QueueCap /\ Flow(t, j)'
  BY DEF Flows, FanEnds, outer, Streams
<1>0. Flow(t, j) /\ Len(out[t]) <= QueueCap
  BY DEF Flows
<1>1. UNCHANGED <<current, out, pushed, taken, got>>
  BY DEF FanEnds, outer
<1>2. CASE t = s /\ j = k
  <2>1. fan'[t][j] = "ended" /\ fan[t][j] \in {"select", "push"}
    BY <1>2 DEF FanEnds, Types, StreamTypes
  <2>2. Pushed(t, j)' = taken[t][j] /\ Pushed(t, j) <= taken[t][j] /\ Pushed(t, j) \in Nat
    BY <1>0, <1>1, <2>1, FlowTypes, PushedNat, SMTT(30) DEF Pushed
  <2>3. j <= current
    BY <1>0, <2>1, FlowTypes DEF Flow
  <2>4. InOrder(out[t], j, got[t][j], taken[t][j])
    <3>1. out[t] \in Seq(Conns \X Nat) /\ taken[t][j] \in Nat
      BY FlowTypes
    <3>2. \A i \in 1..Len(out[t]) : out[t][i][2] \in Nat
      BY <3>1
    <3>3. InOrder(out[t], j, got[t][j], Pushed(t, j))
      BY <1>0 DEF Flow
    <3>4. \A i \in 1..Len(out[t]) : out[t][i][1] = j =>
            got[t][j] < out[t][i][2] /\ out[t][i][2] <= taken[t][j]
      <4>1. SUFFICES ASSUME NEW i \in 1..Len(out[t]), out[t][i][1] = j
                     PROVE  got[t][j] < out[t][i][2] /\ out[t][i][2] <= taken[t][j]
        OBVIOUS
      <4>2. got[t][j] < out[t][i][2] /\ out[t][i][2] <= Pushed(t, j)
        BY <3>3, <4>1 DEF InOrder
      <4>3. out[t][i][2] \in Nat /\ Pushed(t, j) \in Nat
        BY <3>2, <2>2
      <4> QED
        BY <2>2, <3>1, <4>2, <4>3
    <3> QED
      BY <3>3, <3>4 DEF InOrder
  <2> QED
    BY <1>0, <1>1, <2>1, <2>2, <2>3, <2>4, FlowTypes, SMTT(30) DEF Flow
<1>3. CASE ~(t = s /\ j = k)
  <2>1. fan'[t][j] = fan[t][j]
    BY <1>3 DEF FanEnds, Types, StreamTypes
  <2> QED
    BY <1>0, <1>1, <2>1, FlowFrame
<1> QED
  BY <1>2, <1>3

LEMMA DispatchFlow ==
  ASSUME Types, Flows, NEW s \in Streams, NEW k \in Conns, Dispatch(s, k) PROVE Flows'
<1> SUFFICES ASSUME NEW t \in Streams, NEW j \in Conns
             PROVE  Len(out'[t]) <= QueueCap /\ Flow(t, j)'
  BY DEF Flows, Dispatch, outer, Streams
<1>0. Flow(t, j) /\ Len(out[t]) <= QueueCap
  BY DEF Flows
<1>1. UNCHANGED <<current, out, fan, taken, got>> /\ Pushed(t, j)' = Pushed(t, j)
  BY DEF Dispatch, outer, Pushed
<1>2. CASE t = s /\ j = k
  <2>1. /\ pushed'[t][j] = pushed[t][j] + 1 /\ pushed[t][j] < MaxSent
        /\ pushed[t][j] - taken[t][j] < QueueCap
    BY <1>2 DEF Dispatch, Types, StreamTypes
  <2> QED
    BY <1>0, <1>1, <2>1, FlowTypes, SMTT(30) DEF Flow
<1>3. CASE ~(t = s /\ j = k)
  <2>1. pushed'[t][j] = pushed[t][j]
    BY <1>3 DEF Dispatch, Types, StreamTypes
  <2> QED
    BY <1>0, <1>1, <2>1 DEF Flow
<1> QED
  BY <1>2, <1>3

\* What the client receives is the next message of its connection.
LEMMA ReceiveNext ==
  ASSUME Types, Flows, NEW s \in Streams, Receive(s)
  PROVE  \E k \in Conns :
           /\ out[s] # <<>> /\ out[s][1][1] = k /\ out'[s] = Tail(out[s])
           /\ got'[s][k] = got[s][k] + 1 /\ got[s][k] + 1 <= Pushed(s, k)
           /\ \A t \in Streams, j \in Conns : ~(t = s /\ j = k) => got'[t][j] = got[t][j]
           /\ \A t \in Streams : t # s => out'[t] = out[t]
<1>1. out[s] \in Seq(Conns \X Nat) /\ out[s] # <<>>
  BY DEF Receive, Types, StreamTypes
<1>2. Head(out[s]) = out[s][1] /\ out[s][1] \in Conns \X Nat
  BY <1>1
<1>3. PICK k \in Conns : k = out[s][1][1]
  BY <1>2
<1>4. Flow(s, k)
  BY DEF Flows
<1>5. got[s][k] \in Nat /\ Pushed(s, k) \in Nat
  BY <1>4, FlowTypes, PushedNat
<1>6. out[s][1][2] = got[s][k] + 1 /\ got[s][k] + 1 <= Pushed(s, k)
  <2>1. InOrder(out[s], k, got[s][k], Pushed(s, k))
    BY <1>4 DEF Flow
  <2> DEFINE q == out[s]  g == got[s][k]  n == Pushed(s, k)
  <2>2. /\ q \in Seq(Conns \X Nat) /\ g \in Nat /\ n \in Nat
        /\ InOrder(q, k, g, n) /\ q # <<>> /\ q[1][1] = k
    BY <1>1, <1>3, <1>5, <2>1
  <2> HIDE DEF q, g, n
  <2>3. q[1][2] = g + 1 /\ g + 1 <= n
    BY <2>2, TailOwn
  <2> QED
    BY <2>3 DEF q, g, n
<1>7. out' = [out EXCEPT ![s] = Tail(@)] /\ got' = [got EXCEPT ![s][k] = got[s][k] + 1]
  BY <1>2, <1>3, <1>6 DEF Receive
<1> QED
  BY <1>1, <1>3, <1>6, <1>7 DEF Types, StreamTypes

LEMMA ReceiveFlow == ASSUME Types, Flows, NEW s \in Streams, Receive(s) PROVE Flows'
<1>a. Streams' = Streams
  BY DEF Receive, outer, Streams
<1> SUFFICES ASSUME NEW t \in Streams, NEW j \in Conns
             PROVE  Len(out'[t]) <= QueueCap /\ Flow(t, j)'
  BY <1>a, Bounds DEF Flows
<1>0. Flow(t, j) /\ Len(out[t]) <= QueueCap
  BY DEF Flows
<1>1. UNCHANGED <<current, pushed, taken, fan>> /\ Pushed(t, j)' = Pushed(t, j)
  BY DEF Receive, outer, Pushed
<1>2. PICK k \in Conns :
        /\ out[s] # <<>> /\ out[s][1][1] = k /\ out'[s] = Tail(out[s])
        /\ got'[s][k] = got[s][k] + 1 /\ got[s][k] + 1 <= Pushed(s, k)
        /\ \A u \in Streams, i \in Conns : ~(u = s /\ i = k) => got'[u][i] = got[u][i]
        /\ \A u \in Streams : u # s => out'[u] = out[u]
  BY ReceiveNext
<1>3. /\ out[t] \in Seq(Conns \X Nat) /\ got[t][j] \in Nat /\ Pushed(t, j) \in Nat
      /\ InOrder(out[t], j, got[t][j], Pushed(t, j))
  BY <1>0, FlowTypes, PushedNat DEF Flow
<1>4. Len(out'[t]) <= QueueCap
  <2>1. CASE t = s
    <3>0. out[t] # <<>> /\ QueueCap \in Nat
      BY <1>2, <2>1, ReconnectingAssumption
    <3>1. Len(Tail(out[t])) = Len(out[t]) - 1 /\ Len(out[t]) \in Nat
      BY <1>3, <3>0
    <3>2. out'[t] = Tail(out[t])
      BY <1>2, <2>1
    <3> QED
      BY <1>0, <3>0, <3>1, <3>2
  <2> QED
    BY <1>0, <1>2, <2>1
<1>5. CASE t = s /\ j = k
  <2>1. /\ InOrder(Tail(out[t]), j, got[t][j] + 1, Pushed(t, j))
        /\ Complete(out[t], j, got[t][j], Pushed(t, j))
             => Complete(Tail(out[t]), j, got[t][j] + 1, Pushed(t, j))
    <3>1. out[t] # <<>> /\ out[t][1][1] = j
      BY <1>2, <1>5
    <3> DEFINE q == out[t]  g == got[t][j]  n == Pushed(t, j)
    <3>2. /\ q \in Seq(Conns \X Nat) /\ g \in Nat /\ n \in Nat
          /\ InOrder(q, j, g, n) /\ q # <<>> /\ q[1][1] = j
      BY <1>3, <3>1
    <3> HIDE DEF q, g, n
    <3>3. /\ InOrder(Tail(q), j, g + 1, n)
          /\ Complete(q, j, g, n) => Complete(Tail(q), j, g + 1, n)
      BY <3>2, TailOwn
    <3> QED
      BY <3>3 DEF q, g, n
  <2> QED
    BY <1>0, <1>1, <1>2, <1>4, <1>5, <2>1 DEF Flow
<1>6. CASE t = s /\ j # k
  <2>1. /\ InOrder(Tail(out[t]), j, got[t][j], Pushed(t, j))
        /\ Complete(out[t], j, got[t][j], Pushed(t, j))
             => Complete(Tail(out[t]), j, got[t][j], Pushed(t, j))
    BY <1>2, <1>3, <1>6, TailOther
  <2> QED
    BY <1>0, <1>1, <1>2, <1>4, <1>6, <2>1 DEF Flow
<1>7. CASE t # s
  BY <1>0, <1>1, <1>2, <1>4, <1>7, FlowFrame
<1> QED
  BY <1>5, <1>6, <1>7

\* The fans of a connection begin when it is installed, with nothing taken.
LEMMA InstallFlow == ASSUME Types, Links, Flows, Install PROVE Flows'
<1> SUFFICES ASSUME NEW t \in Streams, NEW j \in Conns
             PROVE  Len(out'[t]) <= QueueCap /\ Flow(t, j)'
  BY DEF Flows, Install, Streams
<1>0. Flow(t, j) /\ Len(out[t]) <= QueueCap
  BY DEF Flows
<1>1. UNCHANGED <<out, pushed, taken, got>> /\ current' = current + 1 /\ opened = current + 1
  BY DEF Install, Links
<1>2. CASE j = opened
  <2>1. fan'[t][j] = "select" /\ fan[t][j] = "none"
    BY <1>0, <1>1, <1>2, FlowTypes DEF Install, Types, StreamTypes, Flow
  <2>2. taken[t][j] = 0 /\ Pushed(t, j) = 0 /\ Pushed(t, j)' = 0 /\ got[t][j] = 0
    BY <1>0, <1>1, <2>1, FlowTypes DEF Flow, Pushed
  <2>3. Complete(out[t], j, 0, 0)
    BY DEF Complete
  <2> QED
    BY <1>0, <1>1, <1>2, <2>1, <2>2, <2>3, FlowTypes DEF Flow
<1>3. CASE j # opened
  <2>1. fan'[t][j] = fan[t][j]
    BY <1>3 DEF Install, Types, StreamTypes
  <2>2. Pushed(t, j)' = Pushed(t, j)
    BY <1>1, <2>1 DEF Pushed
  <2> QED
    BY <1>0, <1>1, <1>3, <2>1, <2>2, FlowTypes DEF Flow
<1> QED
  BY <1>2, <1>3

LEMMA FlowsStep == Types /\ Links /\ Flows /\ [Next]_vars => Flows'
<1> SUFFICES ASSUME Types, Links, Flows, [Next]_vars PROVE Flows'
  OBVIOUS
<1>1. ASSUME UNCHANGED <<world, current, streams>> PROVE Flows'
  BY <1>1 DEF streams, Streams, Flows, Flow, Pushed
<1>2. ASSUME OuterStep, ~Install PROVE UNCHANGED <<world, current, streams>>
  BY <1>2 DEF OuterStep, WatchProceeds, WatchSeesDrop, WatchSeesDone, WatchWaited, DialFails, DialHangs,
    DialSucceeds, CloseBegins, CloseProceeds, CloseDone, CloseInner, ReaderEnds, outer
<1>3. ASSUME NEW s \in Streams, StreamStep(s) PROVE Flows'
  BY <1>3, FanTakesFlow, FanPushesFlow, FanEndsFlow, DispatchFlow, ReceiveFlow
  DEF StreamStep, FanProceeds, FanSeesDone, FanSeesOver
<1>4. ASSUME NEW c \in Calls, CallStep(c) PROVE UNCHANGED <<world, current, streams>>
  BY <1>4, CallFrame DEF outer
<1>5. ASSUME UNCHANGED vars PROVE UNCHANGED <<world, current, streams>>
  BY <1>5 DEF vars, outer
<1> QED
  BY <1>1, <1>2, <1>3, <1>4, <1>5, InstallFlow, NextSplit

\* The fan-in goroutines pass on what they take of a connection one by one and in
\* order, so that what is received, buffered and in hand of it has no gap.
THEOREM FlowsInvariant == Spec => []Flows
BY TypesInvariant, LinksInvariant, FlowsInit, FlowsStep, PTL DEF Spec

\* What the client receives of a connection comes from the first message on, in
\* order and without gaps.
THEOREM ReceivesWithoutGaps == Spec => NoGapsPerConnection
<1> DEFINE NoGap == \A s \in Streams, k \in Conns : got'[s][k] \in {got[s][k], got[s][k] + 1}
<1>1. Types /\ Flows /\ [Next]_vars => [NoGap]_vars
  <2> SUFFICES ASSUME Types, Flows, Next, NEW s \in Streams, NEW k \in Conns
               PROVE  got'[s][k] \in {got[s][k], got[s][k] + 1}
    OBVIOUS
  <2>1. ASSUME NEW t \in Streams, Receive(t)
        PROVE  got'[s][k] \in {got[s][k], got[s][k] + 1}
    BY <2>1, ReceiveNext
  <2>2. ASSUME NEW t \in Streams, StreamStep(t), ~Receive(t) PROVE UNCHANGED got
    BY <2>2 DEF StreamStep, FanProceeds, FanTakes, FanPushes, FanSeesDone, FanSeesOver, FanEnds,
                Dispatch
  <2>3. ASSUME NEW c \in Calls, CallStep(c) PROVE UNCHANGED got
    BY <2>3, CallFrame DEF streams
  <2> QED
    BY <2>1, <2>2, <2>3, OuterFrame, NextSplit DEF vars, streams
<1> QED
  BY <1>1, TypesInvariant, FlowsInvariant, PTL DEF Spec, NoGapsPerConnection

-----------------------------------------------------------------------------
(* TypeOK. *)

\* A Call is never on a connection that is still to be opened.
Behind == \A c \in Calls : call[c].conn <= opened

LEMMA BehindStep == Types /\ Links /\ Behind /\ [Next]_vars => Behind'
<1> SUFFICES ASSUME Types, Links, Behind, [Next]_vars, NEW d \in Calls
             PROVE  call'[d].conn <= opened'
  BY DEF Behind
<1>0. /\ call \in [Calls -> CallStates] /\ call[d].conn \in Nat /\ call[d].conn <= opened
      /\ opened \in Nat /\ current <= opened
  BY Bounds DEF Types, CallTypes, OuterTypes, Behind, CallStates, Conns, Links
<1>1. CASE OuterStep
  <2>1. opened <= opened' /\ opened' \in Nat
    BY <1>0, <1>1 DEF OuterStep, WatchProceeds, WatchSeesDrop, WatchSeesDone, WatchWaited,
      DialFails, DialHangs, DialSucceeds, Install, CloseBegins, CloseProceeds, CloseDone, CloseInner,
      ReaderEnds
  <2> QED
    BY <1>0, <1>1, <2>1, OuterFrame DEF callers
<1>2. ASSUME NEW c \in Calls, CallStep(c) PROVE call'[d].conn <= opened'
  <2>1. UNCHANGED opened
    BY <1>2, CallFrame
  <2>2. CASE CallPicks(c)
    BY <1>0, <2>1, <2>2 DEF CallPicks, CallStates
  <2>3. CASE ~CallPicks(c)
    <3>1. call'[d].conn = call[d].conn
      <4>1. CASE CallRefused(c) \/ CallWaited(c) \/ CallFails(c) \/ ServerPerforms(c)
        BY <1>0, <4>1 DEF CallRefused, CallWaited, CallFails, ServerPerforms, Returns, CallStates
      <4>2. CASE Sends(c)
        BY <1>0, <4>2 DEF Sends, CallStates
      <4>3. CASE CallGetsReply(c) \/ CallInnerOver(c)
        BY <1>0, <4>3 DEF CallGetsReply, CallInnerOver, AttemptEnds, Returns, CallStates
      <4>4. ASSUME NEW r \in Answers, ServerAnswers(c, r) PROVE call'[d].conn = call[d].conn
        BY <1>0, <4>4 DEF ServerAnswers, CallStates
      <4> QED
        BY <1>2, <2>3, <4>1, <4>2, <4>3, <4>4 DEF CallStep, CallProceeds, CallWrites, CallPosts
    <3> QED
      BY <1>0, <2>1, <3>1
  <2> QED
    BY <2>2, <2>3
<1> QED
  BY <1>0, <1>1, <1>2, StreamFrame, NextSplit DEF vars, callers

\* The type invariant, with the capacities of the channels.
THEOREM TypeCorrect == Spec => []TypeOK
<1>1. Init => Behind
  <2> SUFFICES ASSUME Init, NEW c \in Calls PROVE call[c].conn <= opened
    BY DEF Behind
  <2>1. call[c].conn = 0 /\ opened = 1
    BY DEF Init
  <2> QED
    BY <2>1
<1>2. Types /\ Links /\ Flows /\ Behind => TypeOK
  <2> SUFFICES ASSUME Types, Links, Flows, Behind PROVE TypeOK
    OBVIOUS
  <2>1. current \in 1..opened
    BY DEF Types, OuterTypes, Links, Conns
  <2>2. \A c \in Calls : call[c].conn \in 0..opened
    <3> SUFFICES ASSUME NEW c \in Calls PROVE call[c].conn \in 0..opened
      OBVIOUS
    <3>1. call[c].conn \in 0..MaxConns /\ opened \in 1..MaxConns /\ call[c].conn <= opened
      BY DEF Types, OuterTypes, CallTypes, CallStates, Behind, Conns
    <3> QED
      BY <3>1, Bounds
  <2>3. call \in [Calls -> [pc : {"start", "picked", "sent", "backoff", "returned"},
                            conn : 0..opened, attempt : 1..MaxAttempts,
                            reply : {"none"} \cup Answers,
                            result : {"none", "response", "ErrClosed", "error"}]]
    BY <2>2, SMTT(30) DEF Types, CallTypes, CallStates, Replies
  <2>4. \A s \in Streams, k \in Conns : got[s][k] \in 0..MaxSent
    BY FlowTypes, PushedNat, SMTT(30) DEF Flows, Flow
  <2>5. \A s \in Streams, k \in Conns : pushed[s][k] - taken[s][k] \in 0..QueueCap
    BY FlowTypes DEF Flows, Flow
  <2>6. got \in [Streams -> [Conns -> 0..MaxSent]]
    BY <2>4 DEF Types, StreamTypes
  <2>7. \A s \in Streams : Len(out[s]) <= QueueCap
    BY DEF Flows
  <2>8. /\ answered \subseteq Calls
        /\ tally \in [Calls -> [sent : Nat, performed : Nat, limited : Nat, failed : Nat,
                                acted : BOOLEAN]]
    BY DEF Types, CallTypes, Tally
  <2>9. fan \in [Streams -> [Conns -> {"none", "select", "push", "ended"}]]
    BY DEF Types, StreamTypes
  <2> QED
    BY <2>1, <2>3, <2>5, <2>6, <2>7, <2>8, <2>9, SMTT(30) DEF TypeOK, Types, OuterTypes
<1> QED
  BY <1>1, <1>2, TypesInvariant, LinksInvariant, FlowsInvariant, BehindStep, PTL DEF Spec
=============================================================================
