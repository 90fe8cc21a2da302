---------------------------- MODULE ClientProofs ----------------------------
(***************************************************************************)
(* The client over a managed process, for any number of threads, Calls,    *)
(* Closes and server requests, and any sequence of options.                *)
(*                                                                         *)
(* The steps of the client are grouped by the goroutines that take them;   *)
(* each group leaves most of the state alone (NextSplit and the lemmas     *)
(* after it), so each invariant below is about a few groups only.          *)
(***************************************************************************)
EXTENDS Client, FiniteSetTheorems, TLAPS

NewStep ==
  \/ NewAppliesOption \/ NewOptionFails \/ NewBuilds \/ NewStartsProcess \/ NewStartFails
  \/ NewHandshake \/ NewFails

SlotStep(s) ==
  \/ Acquire(s) \/ AcquireCancelled(s) \/ StartFails(s) \/ StartSucceeds(s)
  \/ RunSucceeds(s) \/ RunFails(s) \/ CloseThread(s)

ClientAlone == UNCHANGED <<newVars, slotVars, method>>

CallStep(c) ==
  \/ ClientCall(c)
  \/ /\ \/ CallSendRefused(c) \/ CallSend(c) \/ CallWritten(c) \/ CallWriteFails(c)
        \/ CallGetsReply(c) \/ WaitComplete(c) \/ DeliverResponse(c)
     /\ ClientAlone

AcceptStep == (Accept \/ AcceptFails \/ AcceptStops) /\ ClientAlone

NoteStep == ((\E n \in Notes : DeliverNote(n)) \/ NotePushed \/ NoteDropped \/ TakeNote) /\ ClientAlone

RequestStep(q) ==
  /\ \/ DeliverRequest(q) \/ CallbackPushes(q) \/ CallbackCancelled(q)
     \/ CallbackReplies(q) \/ CallbackWritten(q) \/ CallbackWriteFails(q)
  /\ ClientAlone

HandlerStep == HandleServerRequest \/ ((RequestLoopTakes \/ RequestLoopEnds) /\ ClientAlone)

CloseStep(k) == ClientClose(k) \/ ((CloseCloses(k) \/ CloseStops(k) \/ CloseWaits(k)) /\ ClientAlone)

ShutdownStep(k) == ClientShutdown(k) \/ (ShutdownProceeds(k) /\ UNCHANGED stdioVars /\ ClientAlone)

ServerStep ==
  \/ \E q \in Reqs : ServerRequests(q)
  \/ (\E c \in Calls : ServerAnswers(c)) /\ ClientAlone
  \/ (\E m \in world.sends \ Reqs : ServerSends(m)) /\ ClientAlone

ExitStep == (ServerExits \/ ServerReaped) /\ ClientAlone

LEMMA NextSplit ==
  ASSUME [Next]_vars
  PROVE  \/ NewStep
         \/ \E s \in Starters : SlotStep(s)
         \/ \E c \in Calls : CallStep(c)
         \/ AcceptStep \/ NoteStep
         \/ \E q \in Reqs : RequestStep(q)
         \/ HandlerStep
         \/ \E k \in Closers : CloseStep(k) \/ ShutdownStep(k)
         \/ ServerStep \/ ExitStep
         \/ UNCHANGED vars
  BY DEF Next, Internal, Environment, Proceeds, TransportProceeds, ProcessProceeds, Killed,
         NewStep, SlotStep, CallStep, AcceptStep, NoteStep, RequestStep, HandlerStep, CloseStep,
         ShutdownStep, ServerStep, ExitStep, ClientAlone

-----------------------------------------------------------------------------
(* What each group leaves alone. *)

LEMMA NewFrame ==
  ASSUME NewStep
  PROVE  UNCHANGED <<slotVars, method, stdioVars, world, reaped, stdin, signals, shutdown>>
  BY DEF NewStep, NewAppliesOption, NewOptionFails, NewBuilds, NewStartsProcess, NewStartFails,
         NewHandshake, NewFails, Start, transportVars, procVars

LEMMA SlotFrame ==
  ASSUME NEW s \in Starters, SlotStep(s)
  PROVE  UNCHANGED <<newVars, method, stdioVars, procVars>>
  BY DEF SlotStep, Acquire, AcquireCancelled, StartFails, StartSucceeds, RunSucceeds, RunFails,
         CloseThread, Release, transportVars

LEMMA CallFrame ==
  ASSUME NEW c \in Calls, CallStep(c)
  PROVE  /\ UNCHANGED <<newVars, slotVars, method, procVars>>
         /\ UNCHANGED <<stopped, accept, done, notes, requests, callback, requestLoop, reply>>
         /\ UNCHANGED <<adapterClosed, closer, panicked, overlapped>>
         /\ UNCHANGED <<pipe, inbox, sent, answered, replies>>
  BY DEF CallStep, ClientAlone, ClientCall, CallBegins, CallSendRefused, CallSend, CallWritten,
         CallWriteFails, CallGetsReply, WaitComplete, DeliverResponse, served, closing, wire,
         server

LEMMA AcceptFrame ==
  ASSUME AcceptStep
  PROVE  /\ UNCHANGED <<newVars, slotVars, method>>
         /\ UNCHANGED <<mu, pending, call, notes, requests, callback, requestLoop, reply>>
         /\ UNCHANGED <<adapterClosed, closer, panicked, overlapped>>
         /\ UNCHANGED <<sent, received, answered, replies, proc, reaped, signals, shutdown>>
  BY DEF AcceptStep, ClientAlone, Accept, AcceptFails, AcceptStops, served, closing, wire, server,
         procVars

LEMMA NoteFrame ==
  ASSUME NoteStep
  PROVE  /\ UNCHANGED <<newVars, slotVars, method, procVars>>
         /\ UNCHANGED <<stopped, pending, call, accept, done, requests, callback, requestLoop,
                        reply>>
         /\ UNCHANGED <<adapterClosed, closer, panicked, overlapped>>
         /\ UNCHANGED <<pipe, inbox, sent, received, answered, replies>>
  BY DEF NoteStep, ClientAlone, DeliverNote, NotePushed, NoteDropped, TakeNote, jrpc2, served,
         closing, wire, server

LEMMA RequestFrame ==
  ASSUME NEW q \in Reqs, RequestStep(q)
  PROVE  /\ UNCHANGED <<newVars, slotVars, method, procVars>>
         /\ UNCHANGED <<stopped, pending, call, accept, done, notes, requestLoop, reply>>
         /\ UNCHANGED <<adapterClosed, closer, panicked, overlapped>>
         /\ UNCHANGED <<pipe, inbox, sent, received, answered>>
  BY DEF RequestStep, ClientAlone, DeliverRequest, CallbackPushes, CallbackCancelled,
         CallbackReplies, CallbackWritten, CallbackWriteFails, jrpc2, closing, wire, server

LEMMA HandlerFrame ==
  ASSUME HandlerStep
  PROVE  /\ UNCHANGED <<newVars, slotVars, method, procVars>>
         /\ UNCHANGED <<mu, stopped, pending, call, accept, hand, done, notes, callback>>
         /\ UNCHANGED <<adapterClosed, closer, panicked, overlapped>>
         /\ UNCHANGED <<pipe, inbox, sent, received, answered, replies>>
  BY DEF HandlerStep, ClientAlone, HandleServerRequest, HandlerAnswers, RequestLoopTakes,
         RequestLoopEnds, jrpc2, closing, wire, server

LEMMA CloseFrame ==
  ASSUME NEW k \in Closers, CloseStep(k)
  PROVE  /\ UNCHANGED <<newVars, slotVars, method>>
         /\ UNCHANGED <<mu, pending, call, accept, hand, notes, requests, callback, requestLoop,
                        reply>>
         /\ UNCHANGED <<sent, received, answered, replies, proc, reaped, signals, shutdown>>
  BY DEF CloseStep, ClientAlone, ClientClose, CloseTests, CloseCloses, CloseStops, CloseWaits, jrpc2,
         served, wire, server, procVars

LEMMA ShutdownFrame ==
  ASSUME NEW k \in Closers, ShutdownStep(k)
  PROVE  UNCHANGED <<newVars, slotVars, method, stdioVars, proc, reaped>>
  BY DEF ShutdownStep, ClientAlone, ClientShutdown, ShutdownBegins, ShutdownProceeds,
         ShutdownSeesExit, ShutdownTerm, ShutdownKill

LEMMA ServerFrame ==
  ASSUME ServerStep
  PROVE  /\ UNCHANGED <<newVars, slotVars, procVars>>
         /\ UNCHANGED <<mu, jrpc2, done, notes, requests, served, closing, pipe, received,
                        replies>>
  BY DEF ServerStep, ClientAlone, ServerRequests, ServerAnswers, ServerSends, ServerWrites

LEMMA ExitFrame ==
  ASSUME ExitStep
  PROVE  /\ UNCHANGED <<newVars, slotVars, method, stdin, signals, shutdown>>
         /\ UNCHANGED <<mu, jrpc2, done, notes, requests, served, closing, pipe, server>>
  BY DEF ExitStep, ClientAlone, ServerExits, ServerReaped, Exits, Reap, stdioVars, wire

-----------------------------------------------------------------------------
(* The slots. *)

\* The threads that hold a slot; they are finitely many.
Holders == {s \in Starters : starter[s] \in Holding}

Slots ==
  /\ sem \in Nat /\ sem <= MaxThreads
  /\ starter \in [Starters -> Holding \cup {"idle", "failed", "closed"}]
  /\ IsFiniteSet(Holders) /\ sem = Cardinality(Holders)

LEMMA Capacity == MaxThreads \in Nat
  BY ClientAssumption

\* Giving a slot back takes one thread out of the holders.
LEMMA ReleaseStep ==
  ASSUME Slots, NEW s \in Starters, starter[s] \in Holding,
         NEW to \in {"failed", "closed"}, Release(s, to)
  PROVE  Slots'
<1>1. s \in Holders
  BY DEF Holders
<1>2. /\ starter' = [starter EXCEPT ![s] = to]
      /\ starter' \in [Starters -> Holding \cup {"idle", "failed", "closed"}]
  BY DEF Release, Slots
<1>3. Holders' = Holders \ {s}
  BY <1>2 DEF Holders, Holding, Slots
<1>4. IsFiniteSet(Holders') /\ Cardinality(Holders') = sem - 1
  BY <1>1, <1>3, FS_RemoveElement DEF Slots
<1>5. sem > 0
  BY <1>1, FS_EmptySet DEF Slots
<1>6. sem' = sem - 1
  BY <1>5 DEF Release
<1>7. sem' \in Nat /\ sem' <= MaxThreads
  BY <1>5, <1>6, Capacity DEF Slots
<1> QED
  BY <1>2, <1>4, <1>6, <1>7 DEF Slots

LEMMA SlotsStep ==
  ASSUME Slots, [Next]_vars
  PROVE  Slots'
<1>1. ASSUME NEW s \in Starters, Acquire(s) PROVE Slots'
  <2>1. starter' \in [Starters -> Holding \cup {"idle", "failed", "closed"}]
    BY <1>1 DEF Acquire, Slots, Holding
  <2>2. s \notin Holders /\ Holders' = Holders \cup {s}
    BY <1>1 DEF Acquire, Holders, Holding, Slots
  <2>3. IsFiniteSet(Holders') /\ Cardinality(Holders') = sem + 1
    BY <2>2, FS_AddElement DEF Slots
  <2>4. sem' = sem + 1 /\ sem' \in Nat /\ sem' <= MaxThreads
    BY <1>1, Capacity DEF Acquire, Slots
  <2> QED
    BY <2>1, <2>3, <2>4 DEF Slots
<1>2. ASSUME NEW s \in Starters, AcquireCancelled(s) PROVE Slots'
  <2>1. starter' \in [Starters -> Holding \cup {"idle", "failed", "closed"}]
    BY <1>2 DEF AcquireCancelled, Slots
  <2>2. Holders' = Holders
    BY <1>2 DEF AcquireCancelled, Holders, Holding, Slots
  <2> QED
    BY <1>2, <2>1, <2>2 DEF AcquireCancelled, Slots
<1>3. ASSUME NEW s \in Starters, StartSucceeds(s) \/ RunSucceeds(s) PROVE Slots'
  <2>1. PICK to \in {"running", "open"} :
          starter' = [starter EXCEPT ![s] = to] /\ starter[s] \in {"calling", "running"}
    BY <1>3 DEF StartSucceeds, RunSucceeds
  <2>2. starter' \in [Starters -> Holding \cup {"idle", "failed", "closed"}]
    BY <2>1 DEF Slots, Holding
  <2>3. Holders' = Holders
    BY <2>1 DEF Holders, Holding, Slots
  <2> QED
    BY <1>3, <2>2, <2>3 DEF StartSucceeds, RunSucceeds, Slots
<1>4. ASSUME NEW s \in Starters, StartFails(s) \/ RunFails(s) \/ CloseThread(s) PROVE Slots'
  BY <1>4, ReleaseStep DEF StartFails, RunFails, CloseThread, Holding
<1>5. ASSUME UNCHANGED slotVars PROVE Slots'
  BY <1>5 DEF slotVars, Slots, Holders
<1> QED
  BY <1>1, <1>2, <1>3, <1>4, <1>5, NextSplit, NewFrame, CallFrame, AcceptFrame, NoteFrame,
     RequestFrame, HandlerFrame, CloseFrame, ShutdownFrame, ServerFrame, ExitFrame
     DEF SlotStep, vars

LEMMA SlotsInit == Init => Slots
<1> SUFFICES ASSUME Init PROVE Slots
  OBVIOUS
<1>1. Holders = {}
  BY DEF Init, Holders, Holding
<1>2. 0 <= MaxThreads
  BY Capacity
<1> QED
  BY <1>1, <1>2, FS_EmptySet DEF Init, Slots

\* The threads of a client never hold more slots than there are, and a slot is
\* held exactly while its thread is being started, runs its first turn or is
\* open (StartThread, ResumeThread, Fork, SessionThread.Close).
THEOREM SlotsAreConserved == Spec => []SlotsConserved
<1>1. Init => Slots
  BY SlotsInit
<1>2. Slots /\ [Next]_vars => Slots'
  BY SlotsStep
<1>3. Slots => SlotsConserved
  BY DEF Slots, SlotsConserved, Holders
<1> QED
  BY <1>1, <1>2, <1>3, PTL DEF Spec

-----------------------------------------------------------------------------
(* Closing the adapter twice. *)

Closes ==
  /\ closer \in [Closers -> {"idle", "closing", "stop", "wait", "closed", "panicked"}]
  /\ \A j, k \in Closers : closer[j] = "closing" /\ closer[k] = "closing" /\ j # k => overlapped
  /\ \A k \in Closers : closer[k] = "closing" /\ adapterClosed => overlapped
  /\ panicked => overlapped

LEMMA ClosesStep ==
  ASSUME Closes, [Next]_vars
  PROVE  Closes'
<1> USE DEF Closes
<1>1. ASSUME NEW k \in Closers, ClientClose(k) PROVE Closes'
  <2>1. /\ closer' = [closer EXCEPT ![k] = IF adapterClosed THEN "closed" ELSE "closing"]
        /\ UNCHANGED <<adapterClosed, panicked>> /\ closer[k] = "idle"
        /\ overlapped' = (overlapped \/ \E j \in Closers : closer[j] = "closing")
    BY <1>1 DEF ClientClose, CloseTests
  <2>2. overlapped => overlapped'
    BY <2>1
  <2>3. (\E j \in Closers : closer[j] = "closing") => overlapped'
    BY <2>1
  <2>4. \A j \in Closers : j # k => closer'[j] = closer[j]
    BY <2>1
  <2>5. closer'[k] = "closing" => ~adapterClosed
    BY <2>1
  <2>6. closer' \in [Closers -> {"idle", "closing", "stop", "wait", "closed", "panicked"}]
    BY <2>1
  <2>7. \A i, j \in Closers : closer'[i] = "closing" /\ closer'[j] = "closing" /\ i # j => overlapped'
    BY <2>2, <2>3, <2>4
  <2>8. \A j \in Closers : closer'[j] = "closing" /\ adapterClosed' => overlapped'
    BY <2>1, <2>2, <2>4, <2>5
  <2> QED
    BY <2>1, <2>2, <2>6, <2>7, <2>8
<1>2. ASSUME NEW k \in Closers, CloseCloses(k) PROVE Closes'
  BY <1>2 DEF CloseCloses
<1>3. ASSUME NEW k \in Closers, CloseStops(k) \/ CloseWaits(k) PROVE Closes'
  BY <1>3 DEF CloseStops, CloseWaits
<1>4. ASSUME UNCHANGED closing PROVE Closes'
  BY <1>4 DEF closing
<1> QED
  BY <1>1, <1>2, <1>3, <1>4, NextSplit, NewFrame, SlotFrame, CallFrame, AcceptFrame, NoteFrame,
     RequestFrame, HandlerFrame, ShutdownFrame, ServerFrame, ExitFrame
     DEF CloseStep, vars, transportVars, stdioVars, closing

\* s.closed of the adapter is closed twice, which panics, only if two Closes
\* looked at it before either had closed it.
THEOREM NoPanicAlone == Spec => []PanicOnlyIfOverlapped
<1>1. Init => Closes
  BY DEF Init, StdioInit, Closes
<1>2. Closes /\ [Next]_vars => Closes'
  BY ClosesStep
<1>3. Closes => PanicOnlyIfOverlapped
  BY DEF Closes, PanicOnlyIfOverlapped
<1> QED
  BY <1>1, <1>2, <1>3, PTL DEF Spec

-----------------------------------------------------------------------------
(* Where messages come from, and what comes of the Calls. *)

\* The names of the different kinds are different.
LEMMA Kinds ==
  /\ Notifies \subseteq Calls /\ QueueCap \in Nat /\ MaxInbox \in Nat
  /\ \A c \in Calls : c \notin Notes /\ c \notin Reqs /\ c # Garbage /\ c # "free" /\ c # "note"
  /\ \A q \in Reqs : q \notin Notes /\ q # Garbage /\ q # "free" /\ q # "note"
                     /\ q # "select" /\ q # "ended"
  BY StdioAssumption

LEMMA Asks == MethodsAsked \subseteq Methods
  BY ClientAssumption

Known(m) == (m \in Calls => m \in answered) /\ (m \in Reqs => m \in sent)

\* A message on its way was sent: a response is the server's answer to its
\* Call, a request is served only once the server has made it.
Sources ==
  /\ inbox \in Seq(Calls \cup Notes \cup Reqs \cup {Garbage})
  /\ \A i \in 1..Len(inbox) : Known(inbox[i])
  /\ \A m \in hand : Known(m)
  /\ mu \in Reqs => mu \in sent
  /\ requests \in Seq(Reqs) /\ \A i \in 1..Len(requests) : requests[i] \in sent
  /\ callback \in [Reqs -> {"none", "push", "await", "write", "over"}]
  /\ reply \in [Reqs -> {"none", "accept", "decline", "empty", "error"}]
  /\ requestLoop \in Reqs => requestLoop \in sent
  /\ \A q \in Reqs : callback[q] # "none" => q \in sent
  /\ \A q \in Reqs : reply[q] # "none" => q \in sent
  /\ method \in [Reqs -> Methods \cup {None}]
  /\ \A q \in Reqs : q \in sent => method[q] \in Methods
  /\ world \in Worlds

LEMMA TakeFirst ==
  ASSUME NEW S, NEW q \in Seq(S), q # <<>>
  PROVE  /\ Tail(q) \in Seq(S) /\ Head(q) = q[1] /\ 1 \in 1..Len(q)
         /\ \A i \in 1..Len(Tail(q)) : i + 1 \in 1..Len(q) /\ Tail(q)[i] = q[i + 1]
  OBVIOUS

LEMMA PutLast ==
  ASSUME NEW S, NEW q \in Seq(S), NEW m \in S
  PROVE  /\ Append(q, m) \in Seq(S)
         /\ \A i \in 1..Len(Append(q, m)) :
              Append(q, m)[i] = m \/ (i \in 1..Len(q) /\ Append(q, m)[i] = q[i])
  OBVIOUS

LEMMA AnswersTyped ==
  ASSUME NEW h \in Handlers, NEW m \in Methods
  PROVE  Answers(h, m) \subseteq {"accept", "decline", "empty", "error"}
<1>1. h.kind \in {"none", "approval", "dispatcher"}
  BY DEF Handlers
<1>2. ApprovalAnswers(m) \subseteq {"accept", "decline", "empty", "error"}
  BY DEF ApprovalAnswers, Asked
<1>3. DispatcherAnswers(h.has, m) \subseteq {"accept", "decline", "empty", "error"}
  BY DEF DispatcherAnswers, Asked, Methods
<1> QED
  BY <1>1, <1>2, <1>3 DEF Answers

\* No handler of the SDK's own accepts.
LEMMA AcceptsByHandler ==
  ASSUME NEW h \in Handlers, NEW m \in Methods, "accept" \in Answers(h, m)
  PROVE  CanApprove(h, m)
<1>1. h.kind \in {"none", "approval", "dispatcher"}
  BY DEF Handlers
<1>2. CASE h.kind = "none"
  BY <1>2 DEF Answers
<1>3. CASE h.kind = "approval"
  BY <1>3 DEF Answers, ApprovalAnswers, CanApprove
<1>4. CASE h.kind = "dispatcher"
  <2>1. "accept" \in DispatcherAnswers(h.has, m)
    BY <1>4 DEF Answers
  <2>2. m \in h.has \/ "fallback" \in h.has
    BY <2>1 DEF DispatcherAnswers, Methods
  <2> QED
    BY <1>4, <2>2 DEF CanApprove
<1> QED
  BY <1>1, <1>2, <1>3, <1>4

\* A server request, or anything else the server sends, is made once.
LEMMA ServerEffect ==
  ASSUME Sources, ServerStep
  PROVE  /\ answered \subseteq answered' /\ sent \subseteq sent'
         /\ \E m \in Calls \cup Notes \cup Reqs \cup {Garbage} :
              inbox' = Append(inbox, m) /\ Known(m)'
         /\ \/ UNCHANGED method /\ (\A q \in Reqs : q \in sent' => q \in sent)
            \/ \E q \in Reqs, m \in MethodsAsked :
                 /\ q \notin sent /\ sent' = sent \cup {q}
                 /\ method' = [method EXCEPT ![q] = m]
<1>1. ASSUME NEW q \in Reqs, ServerRequests(q)
      PROVE  /\ answered \subseteq answered' /\ sent \subseteq sent'
             /\ inbox' = Append(inbox, q) /\ Known(q)'
             /\ \E m \in MethodsAsked : /\ q \notin sent /\ sent' = sent \cup {q}
                                        /\ method' = [method EXCEPT ![q] = m]
  <2>1. /\ q \notin sent /\ sent' = sent \cup {q} /\ inbox' = Append(inbox, q)
        /\ answered' = answered /\ \E m \in MethodsAsked : method' = [method EXCEPT ![q] = m]
    BY <1>1 DEF ServerRequests, ServerSends, ServerWrites
  <2> QED
    BY <2>1, Kinds DEF Known
<1>2. ASSUME NEW c \in Calls, ServerAnswers(c), ClientAlone
      PROVE  /\ answered \subseteq answered' /\ sent' = sent /\ UNCHANGED method
             /\ inbox' = Append(inbox, c) /\ Known(c)'
  BY <1>2, Kinds DEF ServerAnswers, ServerWrites, ClientAlone, Known
<1>3. ASSUME NEW m \in world.sends \ Reqs, ServerSends(m), ClientAlone
      PROVE  /\ answered' = answered /\ sent' = sent \cup {m} /\ UNCHANGED method
             /\ inbox' = Append(inbox, m) /\ Known(m)' /\ m \in Notes \cup {Garbage}
  <2>1. m \in Notes \cup {Garbage}
    BY <1>3, ClientAssumption DEF Sources
  <2> QED
    BY <1>3, <2>1, Kinds DEF ServerSends, ServerWrites, ClientAlone, Known
<1>4. CASE \E q \in Reqs : ServerRequests(q)
  BY <1>1, <1>4
<1>5. CASE (\E c \in Calls : ServerAnswers(c)) /\ ClientAlone
  BY <1>2, <1>5
<1>6. CASE (\E m \in world.sends \ Reqs : ServerSends(m)) /\ ClientAlone
  <2>1. PICK m \in world.sends \ Reqs : ServerSends(m)
    BY <1>6
  <2>2. /\ answered' = answered /\ sent' = sent \cup {m} /\ UNCHANGED method
        /\ inbox' = Append(inbox, m) /\ Known(m)' /\ m \in Notes \cup {Garbage}
    BY <1>3, <1>6, <2>1
  <2> QED
    BY <2>2
<1> QED
  BY <1>4, <1>5, <1>6 DEF ServerStep

\* The parts of Sources, for the steps that disturb one of them.
InboxKnown ==
  /\ inbox \in Seq(Calls \cup Notes \cup Reqs \cup {Garbage})
  /\ \A i \in 1..Len(inbox) : Known(inbox[i])
HandKnown == (\A m \in hand : Known(m)) /\ (mu \in Reqs => mu \in sent)
ServedKnown ==
  /\ requests \in Seq(Reqs) /\ \A i \in 1..Len(requests) : requests[i] \in sent
  /\ callback \in [Reqs -> {"none", "push", "await", "write", "over"}]
  /\ reply \in [Reqs -> {"none", "accept", "decline", "empty", "error"}]
  /\ requestLoop \in Reqs => requestLoop \in sent
  /\ \A q \in Reqs : callback[q] # "none" => q \in sent
  /\ \A q \in Reqs : reply[q] # "none" => q \in sent
MethodsKnown ==
  /\ method \in [Reqs -> Methods \cup {None}]
  /\ \A q \in Reqs : q \in sent => method[q] \in Methods
  /\ world \in Worlds

LEMMA SourcesParts == Sources <=> InboxKnown /\ HandKnown /\ ServedKnown /\ MethodsKnown
  BY DEF Sources, InboxKnown, HandKnown, ServedKnown, MethodsKnown

LEMMA SourcesStep ==
  ASSUME Sources, cfg.handler \in Handlers, [Next]_vars
  PROVE  Sources'
<1>0. InboxKnown /\ HandKnown /\ ServedKnown /\ MethodsKnown
  BY SourcesParts
<1>a. ASSUME UNCHANGED inbox \/ inbox' = <<>>, answered \subseteq answered', sent \subseteq sent'
      PROVE  InboxKnown'
  <2>1. CASE inbox' = <<>>
    BY <2>1 DEF InboxKnown
  <2>2. CASE inbox' = inbox
    BY <1>0, <1>a, <2>2 DEF InboxKnown, Known
  <2> QED
    BY <1>a, <2>1, <2>2
<1>b. ASSUME hand' \subseteq hand, mu' = mu \/ mu' \notin Reqs \/ mu' \in sent,
             answered \subseteq answered', sent \subseteq sent'
      PROVE  HandKnown'
  BY <1>0, <1>b DEF HandKnown, Known
<1>c. ASSUME UNCHANGED <<requests, callback, reply, requestLoop>>, sent \subseteq sent'
      PROVE  ServedKnown'
  BY <1>0, <1>c DEF ServedKnown
<1>d. ASSUME UNCHANGED <<method, world, sent>> PROVE MethodsKnown'
  BY <1>0, <1>d DEF MethodsKnown
<1>1. ASSUME UNCHANGED <<answered, sent, mu, hand, inbox, requests, callback, reply, requestLoop,
                         method, world>>
      PROVE  Sources'
  <2>1. InboxKnown' /\ HandKnown' /\ ServedKnown' /\ MethodsKnown'
    BY <1>1, <1>a, <1>b, <1>c, <1>d
  <2> QED
    BY <2>1 DEF Sources, InboxKnown, HandKnown, ServedKnown, MethodsKnown
<1>2. ASSUME NEW c \in Calls, CallStep(c) PROVE Sources'
  <2>1. hand' \subseteq hand /\ (mu' = mu \/ mu' \notin Reqs)
    BY <1>2, Kinds DEF CallStep, ClientCall, CallBegins, CallSendRefused, CallSend, CallWritten,
                CallWriteFails, CallGetsReply, WaitComplete, DeliverResponse
  <2>2. InboxKnown' /\ HandKnown' /\ ServedKnown' /\ MethodsKnown'
    BY <1>2, <2>1, <1>a, <1>b, <1>c, <1>d, CallFrame DEF newVars
  <2> QED
    BY <2>2 DEF Sources, InboxKnown, HandKnown, ServedKnown, MethodsKnown
<1>3. ASSUME AcceptStep PROVE Sources'
  <2>1. InboxKnown' /\ HandKnown'
    <3>1. CASE Accept
      <4>1. /\ inbox # <<>> /\ inbox' = Tail(inbox) /\ hand' = hand \cup {Head(inbox)}
            /\ UNCHANGED <<answered, sent, mu>>
        BY <3>1 DEF Accept, server
      <4>2. /\ inbox' \in Seq(Calls \cup Notes \cup Reqs \cup {Garbage})
            /\ Known(Head(inbox))
            /\ \A i \in 1..Len(inbox') : Known(inbox'[i])
        BY <1>0, <4>1, TakeFirst DEF InboxKnown
      <4> QED
        BY <1>0, <4>1, <4>2 DEF InboxKnown, HandKnown, Known
    <3>2. CASE AcceptFails
      BY <1>3, <3>2, <1>a, <1>b, AcceptFrame DEF AcceptFails
    <3>3. CASE AcceptStops
      BY <1>3, <3>3, <1>a, <1>b, AcceptFrame DEF AcceptStops, wire
    <3> QED
      BY <1>3, <3>1, <3>2, <3>3 DEF AcceptStep
  <2>2. ServedKnown' /\ MethodsKnown'
    BY <1>3, <1>c, <1>d, AcceptFrame DEF newVars
  <2> QED
    BY <2>1, <2>2 DEF Sources, InboxKnown, HandKnown, ServedKnown, MethodsKnown
<1>4. ASSUME NoteStep PROVE Sources'
  <2>1. hand' \subseteq hand /\ (mu' = mu \/ mu' \notin Reqs)
    BY <1>4, Kinds DEF NoteStep, DeliverNote, NotePushed, NoteDropped, TakeNote, jrpc2
  <2>2. InboxKnown' /\ HandKnown' /\ ServedKnown' /\ MethodsKnown'
    BY <1>4, <2>1, <1>a, <1>b, <1>c, <1>d, NoteFrame DEF newVars
  <2> QED
    BY <2>2 DEF Sources, InboxKnown, HandKnown, ServedKnown, MethodsKnown
<1>5. ASSUME NEW q \in Reqs, RequestStep(q) PROVE Sources'
  <2>0. UNCHANGED <<sent, answered, inbox, method, world, reply, requestLoop>>
    BY <1>5, RequestFrame DEF newVars
  <2>1. /\ hand' \subseteq hand /\ (callback[q] # "none" \/ q \in hand \/ mu = q)
        /\ mu' = mu \/ mu' = "free" \/ mu' = q
    BY <1>5 DEF RequestStep, DeliverRequest, CallbackPushes, CallbackCancelled,
                CallbackReplies, CallbackWritten, CallbackWriteFails, jrpc2
  <2>a. q \in sent
    BY <1>0, <2>1 DEF HandKnown, ServedKnown, Known
  <2>b. HandKnown'
    BY <2>0, <2>1, <2>a, <1>b, Kinds
  <2>2. CASE DeliverRequest(q)
    <3>1. q \in sent
      BY <2>a
    <3>2. ServedKnown'
      BY <1>0, <2>0, <2>2, <3>1 DEF DeliverRequest, ServedKnown
    <3>3. InboxKnown' /\ HandKnown' /\ MethodsKnown'
      BY <2>0, <2>b, <1>a, <1>d
    <3> QED
      BY <3>2, <3>3 DEF Sources, InboxKnown, HandKnown, ServedKnown, MethodsKnown
  <2>3. CASE CallbackPushes(q)
    <3>1. q \in sent
      BY <2>a
    <3>2. requests' = Append(requests, q) /\ requests \in Seq(Reqs)
      BY <1>0, <2>3 DEF CallbackPushes, ServedKnown
    <3>3. requests' \in Seq(Reqs) /\ \A i \in 1..Len(requests') : requests'[i] \in sent
      BY <1>0, <3>1, <3>2, PutLast DEF ServedKnown
    <3>4. ServedKnown'
      BY <1>0, <2>0, <2>3, <3>1, <3>3 DEF CallbackPushes, ServedKnown
    <3>5. InboxKnown' /\ HandKnown' /\ MethodsKnown'
      BY <2>0, <2>b, <1>a, <1>d
    <3> QED
      BY <3>4, <3>5 DEF Sources, InboxKnown, HandKnown, ServedKnown, MethodsKnown
  <2>4. CASE CallbackCancelled(q) \/ CallbackReplies(q) \/ CallbackWritten(q) \/ CallbackWriteFails(q)
    <3>1. q \in sent
      BY <2>a
    <3>2. \E at \in {"write", "over"} : callback' = [callback EXCEPT ![q] = at]
      BY <2>4 DEF CallbackCancelled, CallbackReplies, CallbackWritten, CallbackWriteFails
    <3>3. UNCHANGED requests
      BY <2>4 DEF CallbackCancelled, CallbackReplies, CallbackWritten, CallbackWriteFails
    <3>4. ServedKnown'
      BY <1>0, <2>0, <3>1, <3>2, <3>3 DEF ServedKnown
    <3>5. InboxKnown' /\ HandKnown' /\ MethodsKnown'
      BY <2>0, <2>b, <1>a, <1>d
    <3> QED
      BY <3>4, <3>5 DEF Sources, InboxKnown, HandKnown, ServedKnown, MethodsKnown
  <2> QED
    BY <1>5, <2>2, <2>3, <2>4 DEF RequestStep
<1>6. ASSUME HandlerStep PROVE Sources'
  <2>0. UNCHANGED <<sent, answered, inbox, mu, hand, method, world, callback>>
    BY <1>6, HandlerFrame DEF newVars
  <2>1. CASE HandleServerRequest
    <3>1. PICK answer \in Answers(cfg.handler, method[requestLoop]) : HandlerAnswers(answer)
      BY <2>1 DEF HandleServerRequest
    <3>2. requestLoop \in Reqs /\ requestLoop \in sent /\ method[requestLoop] \in Methods
      BY <1>0, <2>1 DEF HandleServerRequest, ServedKnown, MethodsKnown
    <3>3. answer \in {"accept", "decline", "empty", "error"}
      BY <3>1, <3>2, AnswersTyped
    <3>4. ServedKnown'
      BY <1>0, <2>0, <3>1, <3>2, <3>3, Kinds DEF HandlerAnswers, ServedKnown
    <3> QED
      BY <2>0, <3>4, <1>a, <1>b, <1>d DEF Sources, InboxKnown, HandKnown, ServedKnown, MethodsKnown
  <2>2. CASE RequestLoopTakes
    <3>1. /\ requests # <<>> /\ requestLoop' = Head(requests) /\ requests' = Tail(requests)
          /\ requests \in Seq(Reqs) /\ reply' = reply
      BY <1>0, <2>2 DEF RequestLoopTakes, ServedKnown
    <3>2. requests' \in Seq(Reqs) /\ requestLoop' \in sent
          /\ \A i \in 1..Len(requests') : requests'[i] \in sent
      BY <1>0, <3>1, TakeFirst DEF ServedKnown
    <3>3. ServedKnown'
      BY <1>0, <2>0, <3>1, <3>2 DEF ServedKnown
    <3> QED
      BY <2>0, <3>3, <1>a, <1>b, <1>d DEF Sources, InboxKnown, HandKnown, ServedKnown, MethodsKnown
  <2>3. CASE RequestLoopEnds
    <3>1. ServedKnown'
      BY <1>0, <2>0, <2>3, Kinds DEF RequestLoopEnds, ServedKnown
    <3> QED
      BY <2>0, <3>1, <1>a, <1>b, <1>d DEF Sources, InboxKnown, HandKnown, ServedKnown, MethodsKnown
  <2> QED
    BY <1>6, <2>1, <2>2, <2>3 DEF HandlerStep
<1>7. ASSUME NEW k \in Closers, CloseStep(k) PROVE Sources'
  <2>1. UNCHANGED inbox \/ inbox' = <<>>
    BY <1>7 DEF CloseStep, ClientClose, CloseTests, CloseCloses, CloseStops, CloseWaits, wire
  <2>2. InboxKnown' /\ HandKnown' /\ ServedKnown' /\ MethodsKnown'
    BY <1>7, <2>1, <1>a, <1>b, <1>c, <1>d, CloseFrame DEF newVars
  <2> QED
    BY <2>2 DEF Sources, InboxKnown, HandKnown, ServedKnown, MethodsKnown
<1>8. ASSUME ServerStep PROVE Sources'
  <2>1. /\ answered \subseteq answered' /\ sent \subseteq sent'
        /\ UNCHANGED <<mu, hand, requests, callback, reply, requestLoop, world>>
    BY <1>8, ServerEffect, ServerFrame DEF jrpc2, served, newVars
  <2>2. PICK m \in Calls \cup Notes \cup Reqs \cup {Garbage} :
          inbox' = Append(inbox, m) /\ Known(m)'
    BY <1>8, ServerEffect
  <2>3. InboxKnown'
    <3>1. /\ inbox' \in Seq(Calls \cup Notes \cup Reqs \cup {Garbage})
          /\ \A i \in 1..Len(inbox') :
               inbox'[i] = m \/ (i \in 1..Len(inbox) /\ inbox'[i] = inbox[i])
      BY <1>0, <2>2, PutLast DEF InboxKnown
    <3>3. ASSUME NEW i \in 1..Len(inbox') PROVE Known(inbox[i])'
      <4>1. CASE inbox'[i] = m
        BY <2>2, <4>1 DEF Known
      <4>2. CASE i \in 1..Len(inbox) /\ inbox'[i] = inbox[i]
        BY <1>0, <2>1, <4>2 DEF InboxKnown, Known
      <4> QED
        BY <3>1, <4>1, <4>2
    <3> QED
      BY <3>1, <3>3 DEF InboxKnown
  <2>4. MethodsKnown'
    <3>1. CASE UNCHANGED method /\ (\A q \in Reqs : q \in sent' => q \in sent)
      BY <1>0, <2>1, <3>1 DEF MethodsKnown
    <3>2. ASSUME NEW q \in Reqs, NEW x \in MethodsAsked, sent' = sent \cup {q},
                 method' = [method EXCEPT ![q] = x]
          PROVE  MethodsKnown'
      BY <1>0, <2>1, <3>2, Asks DEF MethodsKnown
    <3> QED
      BY <1>8, <3>1, <3>2, ServerEffect
  <2>5. HandKnown' /\ ServedKnown'
    BY <2>1, <1>b, <1>c
  <2> QED
    BY <2>3, <2>4, <2>5 DEF Sources, InboxKnown, HandKnown, ServedKnown, MethodsKnown
<1>9. ASSUME ExitStep PROVE Sources'
  <2>1. UNCHANGED inbox \/ inbox' = <<>>
    BY <1>9 DEF ExitStep, ServerExits, ServerReaped, stdioVars, wire
  <2>2. InboxKnown' /\ HandKnown' /\ ServedKnown' /\ MethodsKnown'
    BY <1>9, <2>1, <1>a, <1>b, <1>c, <1>d, ExitFrame DEF newVars, jrpc2, served, server
  <2> QED
    BY <2>2 DEF Sources, InboxKnown, HandKnown, ServedKnown, MethodsKnown
<1>10. ASSUME UNCHANGED <<stdioVars, method, world>> PROVE Sources'
  BY <1>1, <1>10 DEF stdioVars, jrpc2, served, wire, server
<1> QED
  BY <1>2, <1>3, <1>4, <1>5, <1>6, <1>7, <1>8, <1>9, <1>10, NextSplit, NewFrame, SlotFrame,
     ShutdownFrame DEF vars, newVars, transportVars

CallLocals == [pc : {"start", "send", "write", "wait", "returned"},
               ch : {"empty", "response", "error"},
               result : {"none", "response", "sent", "ErrClosed", "error"}]

\* A Call that has not returned has no result; it has its response only from
\* the server; a Notify has no response.
Results ==
  /\ call \in [Calls -> CallLocals]
  /\ \A c \in Calls :
       /\ mu = c => call[c].pc = "write"
       /\ call[c].pc # "returned" => call[c].result = "none"
       /\ call[c].pc = "wait" => c \notin Notifies
       /\ c \in Notifies => call[c].result # "response"
       /\ c \notin Notifies => call[c].result # "sent"
       /\ call[c].ch = "response" => c \in answered

\* done is closed only when jrpc2's client is stopped.
Stops ==
  /\ done => stopped
  /\ accept # "recv" => stopped
  /\ closer \in [Closers -> {"idle", "closing", "stop", "wait", "closed", "panicked"}]
  /\ \A k \in Closers : closer[k] = "wait" => stopped

\* What a Call does to its own record.
LEMMA CallEffect ==
  ASSUME Results, HandKnown, NEW c \in Calls, CallStep(c)
  PROVE  /\ call' \in [Calls -> CallLocals]
         /\ \A d \in Calls : d # c => call'[d] = call[d]
         /\ mu' = mu \/ mu' = "free" \/ (mu' = c /\ call'[c].pc = "write")
         /\ mu' = c => call'[c].pc = "write"
         /\ call'[c].pc # "returned" => call'[c].result = "none"
         /\ call'[c].pc = "wait" => c \notin Notifies
         /\ c \in Notifies => call'[c].result # "response"
         /\ c \notin Notifies => call'[c].result # "sent"
         /\ call'[c].ch = "response" => c \in answered
<1> USE Kinds DEF Results, CallLocals
<1>1. CASE ClientCall(c)
  BY <1>1 DEF ClientCall, CallBegins, CallReturns
<1>2. CASE CallSendRefused(c)
  BY <1>2 DEF CallSendRefused, CallReturns
<1>3. CASE CallSend(c)
  BY <1>3 DEF CallSend
<1>4. CASE CallWritten(c)
  <2>1. CASE c \in Notifies
    <3>1. call' = [call EXCEPT ![c].pc = "returned", ![c].result = "sent"] /\ mu' = "free"
      BY <1>4, <2>1 DEF CallWritten, CallReturns
    <3> QED
      BY <2>1, <3>1
  <2>2. CASE c \notin Notifies
    <3>1. call' = [call EXCEPT ![c].pc = "wait"] /\ mu' = "free" /\ mu = c
      BY <1>4, <2>2 DEF CallWritten
    <3> QED
      BY <2>2, <3>1
  <2> QED
    BY <2>1, <2>2
<1>5. CASE CallWriteFails(c)
  BY <1>5 DEF CallWriteFails, CallReturns
<1>6. CASE CallGetsReply(c)
  <2>1. c \notin Notifies /\ call[c].ch \in {"response", "error"} /\ mu' = mu /\ mu # c
    BY <1>6 DEF CallGetsReply
  <2>2. call' = [call EXCEPT ![c].pc = "returned", ![c].result = call[c].ch]
    BY <1>6 DEF CallGetsReply, CallReturns
  <2> QED
    BY <2>1, <2>2
<1>7. CASE WaitComplete(c)
  BY <1>7 DEF WaitComplete
<1>8. CASE DeliverResponse(c)
  <2>1. c \in answered /\ mu' = mu
    BY <1>8 DEF DeliverResponse, HandKnown, Known
  <2>2. call' = [call EXCEPT ![c].ch = "response"] \/ call' = call
    BY <1>8 DEF DeliverResponse
  <2> QED
    BY <2>1, <2>2
<1> QED
  BY <1>1, <1>2, <1>3, <1>4, <1>5, <1>6, <1>7, <1>8 DEF CallStep

LEMMA ResultsStep ==
  ASSUME Results, Sources, [Next]_vars
  PROVE  Results'
<1>1. ASSUME NEW c \in Calls, CallStep(c) PROVE Results'
  <2>1. HandKnown /\ answered' = answered
    BY <1>1, SourcesParts, CallFrame
  <2> QED
    BY <1>1, <2>1, CallEffect, Kinds DEF Results
<1>2. ASSUME UNCHANGED call, answered \subseteq answered', mu' = mu \/ mu' \notin Calls
      PROVE  Results'
  BY <1>2 DEF Results
<1>3. ASSUME NoteStep \/ \E q \in Reqs : RequestStep(q) PROVE mu' = mu \/ mu' \notin Calls
  BY <1>3, Kinds
     DEF NoteStep, DeliverNote, NotePushed, NoteDropped, TakeNote, RequestStep, DeliverRequest,
         CallbackPushes, CallbackCancelled, CallbackReplies, CallbackWritten, CallbackWriteFails
<1>4. ASSUME ServerStep PROVE Results'
  BY <1>2, <1>4, ServerEffect, ServerFrame DEF jrpc2
<1> QED
  BY <1>1, <1>2, <1>3, <1>4, NextSplit, NewFrame, SlotFrame, AcceptFrame, NoteFrame,
     RequestFrame, HandlerFrame, CloseFrame, ShutdownFrame, ExitFrame
     DEF vars, transportVars, stdioVars, jrpc2, wire, server

LEMMA StopsStep ==
  ASSUME Stops, [Next]_vars
  PROVE  Stops' /\ (stopped => stopped')
<1> USE DEF Stops
<1>1. ASSUME AcceptStep PROVE Stops' /\ (stopped => stopped')
  <2>1. UNCHANGED closer
    BY <1>1, AcceptFrame
  <2>2. CASE Accept
    BY <2>1, <2>2 DEF Accept
  <2>3. CASE AcceptFails
    BY <2>1, <2>3 DEF AcceptFails
  <2>4. CASE AcceptStops
    BY <2>1, <2>4 DEF AcceptStops
  <2> QED
    BY <1>1, <2>2, <2>3, <2>4 DEF AcceptStep
<1>2. ASSUME NEW k \in Closers, ClientClose(k) PROVE Stops' /\ (stopped => stopped')
  BY <1>2 DEF ClientClose, CloseTests, jrpc2
<1>3. ASSUME NEW k \in Closers, CloseCloses(k) PROVE Stops' /\ (stopped => stopped')
  BY <1>3 DEF CloseCloses, jrpc2
<1>4. ASSUME NEW k \in Closers, CloseStops(k) PROVE Stops' /\ (stopped => stopped')
  BY <1>4 DEF CloseStops
<1>5. ASSUME NEW k \in Closers, CloseWaits(k) PROVE Stops' /\ (stopped => stopped')
  BY <1>5 DEF CloseWaits, jrpc2
<1>6. ASSUME UNCHANGED <<stopped, done, accept, closer>> PROVE Stops' /\ (stopped => stopped')
  BY <1>6
<1> QED
  BY <1>1, <1>2, <1>3, <1>4, <1>5, <1>6, NextSplit, NewFrame, SlotFrame, CallFrame, NoteFrame,
     RequestFrame, HandlerFrame, ShutdownFrame, ServerFrame, ExitFrame
     DEF CloseStep, vars, transportVars, stdioVars, jrpc2, closing

-----------------------------------------------------------------------------
(* Options. *)

HTTPNames == {"WithHTTPTransport", "WithReconnectingHTTPTransport"}
WSNames == {"WithWSTransport", "WithReconnectingWSTransport", "WithUnixSocketWSTransport"}
PlainNames == {"WithTransport", "WithStdioTransport"}
SwitchNames == {"WithStdioProcess", "WithHTTPBearerToken", "WithWSBearerToken", "WithRetry",
                "WithAutoLogin"}
Names == HTTPNames \cup WSNames \cup PlainNames \cup SwitchNames
           \cup {"WithApprovalHandler", "WithRequestHandler"}

Config ==
  [transport : [by : Names \cup {"none"}, auth : BOOLEAN],
   inner : [by : Names \cup {"none"}, auth : BOOLEAN],
   process : BOOLEAN, autoInit : BOOLEAN, login : BOOLEAN, httpAuth : BOOLEAN,
   wsAuth : BOOLEAN, retry : BOOLEAN, handler : Handlers]

\* An option is known by its name.
LEMMA OptionNames ==
  ASSUME NEW o \in AllOptions
  PROVE  /\ o.name \in Names /\ o.has \in SUBSET Fields
         /\ o \in HTTPOptions <=> o.name \in HTTPNames
         /\ o \in WSOptions <=> o.name \in WSNames
         /\ o \in InnerOptions <=> o.name \in HTTPNames \cup WSNames
         /\ \A N \in SUBSET (PlainNames \cup SwitchNames) : o \in Named(N) <=> o.name \in N
<1> USE DEF HTTPNames, WSNames, PlainNames, SwitchNames, Names
<1>1. \A N : \A p : p \in Named(N) <=> \E name \in N : p = Option(name, {})
  BY DEF Named
<1>2. \A name, has : Option(name, has).name = name /\ Option(name, has).has = has
  BY DEF Option
<1>3. \/ \E name \in Names \ {"WithRequestHandler"} : o = Option(name, {})
      \/ \E has \in SUBSET Fields : o = Option("WithRequestHandler", has)
  BY <1>1 DEF AllOptions, InnerOptions, HTTPOptions, WSOptions
<1>4. o.name \in Names /\ o.has \in SUBSET Fields
  BY <1>2, <1>3
<1>5. \A N \in SUBSET (Names \ {"WithRequestHandler"}) : o \in Named(N) <=> o.name \in N
  BY <1>1, <1>2, <1>3
<1>6. o \in HTTPOptions <=> o.name \in HTTPNames
  BY <1>5 DEF HTTPOptions
<1>7. o \in WSOptions <=> o.name \in WSNames
  BY <1>5 DEF WSOptions
<1> QED
  BY <1>4, <1>5, <1>6, <1>7 DEF InnerOptions

\* What an option does to the configuration.
LEMMA ApplyEffect ==
  ASSUME NEW c \in Config, NEW o \in AllOptions
  PROVE  /\ Apply(c, o) \in Config
         /\ Apply(c, o).process = (c.process \/ o.name = "WithStdioProcess")
         /\ Apply(c, o).httpAuth = (c.httpAuth \/ o.name = "WithHTTPBearerToken")
         /\ Apply(c, o).wsAuth = (c.wsAuth \/ o.name = "WithWSBearerToken")
         /\ Apply(c, o).retry = (c.retry \/ o.name = "WithRetry")
         /\ Apply(c, o).inner = IF o \in InnerOptions THEN Opened(c, o) ELSE c.inner
         /\ Apply(c, o).transport =
              IF o.name \in PlainNames THEN [by |-> o.name, auth |-> c.transport.auth]
              ELSE c.transport
<1>1. o.name \in Names /\ o.has \in SUBSET Fields
  BY OptionNames
<1>2. /\ o \in InnerOptions <=> o.name \in HTTPNames \cup WSNames
      /\ o \in HTTPOptions <=> o.name \in HTTPNames
  BY OptionNames
<1>a. c.handler \in Handlers
  BY DEF Config
<1> USE DEF HTTPNames, WSNames, PlainNames, SwitchNames, Names
<1>3. CASE o \in InnerOptions
  <2>1. Apply(c, o) = [c EXCEPT !.inner = Opened(c, o), !.autoInit = TRUE]
    BY <1>2, <1>3 DEF Apply
  <2>2. Opened(c, o) \in [by : Names \cup {"none"}, auth : BOOLEAN]
    BY <1>1 DEF Opened, Config
  <2> QED
    BY <1>2, <1>3, <2>1, <2>2, ZenonT(40) DEF Config
<1>4. CASE o.name = "WithTransport"
  <2>1. Apply(c, o) = [c EXCEPT !.transport.by = o.name, !.autoInit = TRUE]
    BY <1>2, <1>4 DEF Apply
  <2>2. Apply(c, o) = [c EXCEPT !.transport = [by |-> o.name, auth |-> c.transport.auth],
                                !.autoInit = TRUE]
    BY <2>1 DEF Config
  <2>3. [by |-> o.name, auth |-> c.transport.auth] \in [by : Names \cup {"none"}, auth : BOOLEAN]
    BY <1>1 DEF Config
  <2> QED
    BY <1>2, <1>4, <2>2, <2>3, ZenonT(40) DEF Config
<1>5. CASE o.name = "WithStdioTransport"
  <2>1. Apply(c, o) = [c EXCEPT !.transport.by = o.name]
    BY <1>2, <1>5 DEF Apply
  <2> QED
    BY <1>2, <1>5, <2>1 DEF Config
<1>6. CASE o.name = "WithStdioProcess"
  <2>1. Apply(c, o) = [c EXCEPT !.process = TRUE, !.autoInit = TRUE]
    BY <1>2, <1>6 DEF Apply
  <2> QED
    BY <1>2, <1>6, <2>1 DEF Config
<1>7. CASE o.name = "WithHTTPBearerToken"
  <2>1. Apply(c, o) = [c EXCEPT !.httpAuth = TRUE]
    BY <1>2, <1>7 DEF Apply
  <2> QED
    BY <1>2, <1>7, <2>1 DEF Config
<1>8. CASE o.name = "WithWSBearerToken"
  <2>1. Apply(c, o) = [c EXCEPT !.wsAuth = TRUE]
    BY <1>2, <1>8 DEF Apply
  <2> QED
    BY <1>2, <1>8, <2>1 DEF Config
<1>9. CASE o.name = "WithRetry"
  <2>1. Apply(c, o) = [c EXCEPT !.retry = TRUE]
    BY <1>2, <1>9 DEF Apply
  <2> QED
    BY <1>2, <1>9, <2>1 DEF Config
<1>10. CASE o.name = "WithAutoLogin"
  <2>1. Apply(c, o) = [c EXCEPT !.login = TRUE]
    BY <1>2, <1>10 DEF Apply
  <2> QED
    BY <1>2, <1>10, <2>1 DEF Config
<1>11. CASE o.name \in {"WithApprovalHandler", "WithRequestHandler"}
  <2>1. PICK h \in Handlers : Apply(c, o) = [c EXCEPT !.handler = h]
    <3>1. CASE o.name = "WithApprovalHandler"
      <4>1. Apply(c, o) = [c EXCEPT !.handler = [kind |-> "approval", has |-> {}]]
        BY <1>2, <3>1 DEF Apply
      <4>2. [kind |-> "approval", has |-> {}] \in Handlers
        BY DEF Handlers
      <4> QED
        BY <4>1, <4>2
    <3>2. CASE o.name = "WithRequestHandler"
      <4>1. Apply(c, o) = [c EXCEPT !.handler = [kind |-> "dispatcher", has |-> o.has]]
        BY <1>2, <3>2 DEF Apply
      <4>2. [kind |-> "dispatcher", has |-> o.has] \in Handlers
        BY <1>1 DEF Handlers
      <4> QED
        BY <4>1, <4>2
    <3> QED
      BY <1>11, <3>1, <3>2
  <2> QED
    BY <1>2, <1>11, <2>1 DEF Config
<1> QED
  BY <1>1, <1>2, <1>3, <1>4, <1>5, <1>6, <1>7, <1>8, <1>9, <1>10, <1>11

\* The last of the first n options that is one of P.
Latest(l, P, n) == l \in 1..n /\ given[l] \in P /\ \A j \in 1..n : given[j] \in P => j <= l
Nowhere(P, n) == \A j \in 1..n : given[j] \notin P
Somewhere(name, n) == \E i \in 1..n : given[i].name = name

PlainOptions == Named({"WithTransport", "WithStdioTransport"})

\* The configuration says what the options applied so far asked for.
Applied ==
  /\ world \in Worlds /\ cfg \in Config /\ step \in 0..Len(given)
  /\ phase \in {"built", "init"} => step = Len(given)
  /\ cfg.process <=> Somewhere("WithStdioProcess", step)
  /\ cfg.httpAuth <=> Somewhere("WithHTTPBearerToken", step)
  /\ cfg.wsAuth <=> Somewhere("WithWSBearerToken", step)
  /\ cfg.retry <=> Somewhere("WithRetry", step)
  /\ \/ Nowhere(InnerOptions, step) /\ cfg.inner = NoTransport
     \/ \E l \in 1..step : /\ Latest(l, InnerOptions, step) /\ cfg.inner.by = given[l].name
                           /\ cfg.inner.auth <=> Somewhere(Header(given[l]), l - 1)
  /\ \/ Nowhere(PlainOptions, step) /\ cfg.transport = NoTransport
     \/ \E l \in 1..step : Latest(l, PlainOptions, step) /\ cfg.transport.by = given[l].name

\* The options of New are a sequence.
LEMMA Given ==
  ASSUME Applied
  PROVE  /\ Len(given) \in Nat /\ \A i \in 1..Len(given) : given[i] \in AllOptions
         /\ step \in Nat /\ step <= Len(given)
<1>1. given \in Seq(AllOptions)
  BY ClientAssumption DEF Applied, given
<1> QED
  BY <1>1 DEF Applied

LEMMA AppliesOption ==
  ASSUME Applied, NewAppliesOption
  PROVE  Applied'
<1> DEFINE n == step + 1
           o == given[n]
<1>0. /\ step \in Nat /\ step + 1 \in 1..Len(given) /\ Len(given) \in Nat
      /\ o \in AllOptions
  BY Given DEF NewAppliesOption
<1>1. /\ given' = given /\ world' = world /\ step' = step + 1 /\ phase' = phase
      /\ phase = "options" /\ cfg' = Apply(cfg, o)
  BY DEF NewAppliesOption, given
<1>2. \A j \in 1..n : j \in 1..step \/ j = n
  BY <1>0
<1>3. \A j \in 1..step : j \in 1..n /\ j < n
  BY <1>0
<1>4. n \in 1..n /\ n - 1 = step
  BY <1>0
<1>5. cfg \in Config
  BY DEF Applied
<1> HIDE DEF n
<1>6. /\ cfg' \in Config
      /\ cfg'.process = (cfg.process \/ o.name = "WithStdioProcess")
      /\ cfg'.httpAuth = (cfg.httpAuth \/ o.name = "WithHTTPBearerToken")
      /\ cfg'.wsAuth = (cfg.wsAuth \/ o.name = "WithWSBearerToken")
      /\ cfg'.retry = (cfg.retry \/ o.name = "WithRetry")
      /\ cfg'.inner = IF o \in InnerOptions THEN Opened(cfg, o) ELSE cfg.inner
      /\ cfg'.transport =
           IF o.name \in PlainNames THEN [by |-> o.name, auth |-> cfg.transport.auth]
           ELSE cfg.transport
  BY <1>0, <1>1, <1>5, ApplyEffect
<1>7. ASSUME NEW name PROVE Somewhere(name, n) <=> Somewhere(name, step) \/ o.name = name
  BY <1>2, <1>3, <1>4 DEF Somewhere
<1>8. ASSUME NEW P, o \notin P
      PROVE  /\ Nowhere(P, step) => Nowhere(P, n)
             /\ \A l \in 1..step : Latest(l, P, step) => l \in 1..n /\ Latest(l, P, n)
  BY <1>2, <1>3, <1>8 DEF Nowhere, Latest
<1>9. ASSUME NEW P, o \in P PROVE Latest(n, P, n)
  BY <1>0, <1>2, <1>3, <1>4, <1>9 DEF Latest
<1>10. \/ Nowhere(InnerOptions, n) /\ cfg'.inner = NoTransport
       \/ \E l \in 1..n : /\ Latest(l, InnerOptions, n) /\ cfg'.inner.by = given[l].name
                          /\ cfg'.inner.auth <=> Somewhere(Header(given[l]), l - 1)
  <2>1. CASE o \in InnerOptions
    <3>1. cfg'.inner.by = o.name /\ cfg'.inner.auth = IF o \in HTTPOptions THEN cfg.httpAuth ELSE cfg.wsAuth
      BY <1>6, <2>1 DEF Opened
    <3>2. cfg'.inner.auth <=> Somewhere(Header(o), step)
      BY <3>1 DEF Header, Applied
    <3> QED
      BY <1>4, <1>9, <2>1, <3>1, <3>2
  <2>2. CASE o \notin InnerOptions
    <3>1. cfg'.inner = cfg.inner
      BY <1>6, <2>2
    <3> QED
      BY <1>8, <2>2, <3>1 DEF Applied
  <2> QED
    BY <2>1, <2>2
<1>11. o \in PlainOptions <=> o.name \in PlainNames
  BY <1>0, OptionNames DEF PlainOptions, PlainNames
<1>12. \/ Nowhere(PlainOptions, n) /\ cfg'.transport = NoTransport
       \/ \E l \in 1..n : Latest(l, PlainOptions, n) /\ cfg'.transport.by = given[l].name
  <2>1. CASE o \in PlainOptions
    BY <1>4, <1>6, <1>9, <1>11, <2>1
  <2>2. CASE o \notin PlainOptions
    <3>1. cfg'.transport = cfg.transport
      BY <1>6, <1>11, <2>2
    <3> QED
      BY <1>8, <2>2, <3>1 DEF Applied
  <2> QED
    BY <2>1, <2>2
<1>13. /\ cfg'.process <=> Somewhere("WithStdioProcess", n)
       /\ cfg'.httpAuth <=> Somewhere("WithHTTPBearerToken", n)
       /\ cfg'.wsAuth <=> Somewhere("WithWSBearerToken", n)
       /\ cfg'.retry <=> Somewhere("WithRetry", n)
  BY <1>6, <1>7 DEF Applied
<1>14. step' = n /\ step' \in 0..Len(given) /\ phase' \notin {"built", "init"}
  BY <1>0, <1>1 DEF n
<1>15. world' \in Worlds
  BY <1>1 DEF Applied
<1> HIDE DEF o
<1>16. /\ \A P : Nowhere(P, step)' <=> Nowhere(P, n)
       /\ \A l, P : Latest(l, P, step)' <=> Latest(l, P, n)
       /\ \A name, m : Somewhere(name, m)' <=> Somewhere(name, m)
  BY <1>1, <1>14 DEF Latest, Nowhere, Somewhere
<1>17. (\/ Nowhere(InnerOptions, step) /\ cfg.inner = NoTransport
        \/ \E l \in 1..step : /\ Latest(l, InnerOptions, step) /\ cfg.inner.by = given[l].name
                              /\ cfg.inner.auth <=> Somewhere(Header(given[l]), l - 1))'
  BY <1>1, <1>10, <1>14, <1>16
<1>18. (\/ Nowhere(PlainOptions, step) /\ cfg.transport = NoTransport
        \/ \E l \in 1..step : Latest(l, PlainOptions, step) /\ cfg.transport.by = given[l].name)'
  BY <1>1, <1>12, <1>14, <1>16
<1>19. (/\ cfg.process <=> Somewhere("WithStdioProcess", step)
        /\ cfg.httpAuth <=> Somewhere("WithHTTPBearerToken", step)
        /\ cfg.wsAuth <=> Somewhere("WithWSBearerToken", step)
        /\ cfg.retry <=> Somewhere("WithRetry", step))'
  BY <1>1, <1>13, <1>14 DEF Somewhere
<1> QED
  BY <1>1, <1>6, <1>14, <1>15, <1>17, <1>18, <1>19 DEF Applied

\* Where the handshake goes on.
LEMMA HandshakeEffect ==
  ASSUME Results, NewHandshake
  PROVE  /\ phase \in Handshake /\ phase \in Calls /\ call[phase].pc = "returned"
         /\ phase' \in {"cleanup", "initialized", "login", "ready"}
<1>1. /\ {"init", "login"} \subseteq Calls \ Notifies /\ "initialized" \in Notifies
      /\ Notifies \subseteq Calls
  BY ClientAssumption, Kinds
<1>2. phase \in Handshake /\ call[phase].pc = "returned"
  BY DEF NewHandshake
<1>3. phase \in Calls
  BY <1>1, <1>2 DEF Handshake
<1>4. CASE call[phase].result \notin {"response", "sent"}
  BY <1>2, <1>3, <1>4 DEF NewHandshake
<1>5. CASE phase = "init" /\ call[phase].result \in {"response", "sent"}
  <2>1. call[phase].result = "response"
    BY <1>1, <1>5 DEF Results
  <2> QED
    BY <1>2, <1>3, <1>5, <2>1 DEF NewHandshake
<1>6. CASE phase = "initialized" /\ call[phase].result \in {"response", "sent"}
  <2>1. call[phase].result = "sent"
    BY <1>1, <1>6 DEF Results
  <2> QED
    BY <1>2, <1>3, <1>6, <2>1 DEF NewHandshake
<1>7. CASE phase = "login" /\ call[phase].result \in {"response", "sent"}
  <2>1. call[phase].result = "response"
    BY <1>1, <1>7 DEF Results
  <2> QED
    BY <1>2, <1>3, <1>7, <2>1 DEF NewHandshake
<1> QED
  BY <1>2, <1>4, <1>5, <1>6, <1>7 DEF Handshake

LEMMA AppliedStep ==
  ASSUME Applied, Results, [Next]_vars
  PROVE  Applied'
<1>1. ASSUME UNCHANGED <<world, cfg, step>>,
             phase' \in {"built", "init"} => phase \in {"built", "init"} \/ step = Len(given)
      PROVE  Applied'
  <2>1. given' = given
    BY <1>1 DEF given
  <2>2. /\ \A P, n : Nowhere(P, n)' <=> Nowhere(P, n)
        /\ \A l, P, n : Latest(l, P, n)' <=> Latest(l, P, n)
        /\ \A name, n : Somewhere(name, n)' <=> Somewhere(name, n)
    BY <2>1 DEF Latest, Nowhere, Somewhere
  <2>3. (phase \in {"built", "init"} => step = Len(given))'
    BY <1>1, <2>1 DEF Applied
  <2>4. (\/ Nowhere(InnerOptions, step) /\ cfg.inner = NoTransport
         \/ \E l \in 1..step : /\ Latest(l, InnerOptions, step) /\ cfg.inner.by = given[l].name
                               /\ cfg.inner.auth <=> Somewhere(Header(given[l]), l - 1))'
    BY <1>1, <2>1, <2>2 DEF Applied
  <2>5. (\/ Nowhere(PlainOptions, step) /\ cfg.transport = NoTransport
         \/ \E l \in 1..step : Latest(l, PlainOptions, step) /\ cfg.transport.by = given[l].name)'
    BY <1>1, <2>1, <2>2 DEF Applied
  <2>6. (/\ cfg.process <=> Somewhere("WithStdioProcess", step)
         /\ cfg.httpAuth <=> Somewhere("WithHTTPBearerToken", step)
         /\ cfg.wsAuth <=> Somewhere("WithWSBearerToken", step)
         /\ cfg.retry <=> Somewhere("WithRetry", step))'
    BY <1>1, <2>1 DEF Applied, Somewhere
  <2>7. (world \in Worlds /\ cfg \in Config /\ step \in 0..Len(given))'
    BY <1>1, <2>1 DEF Applied
  <2> QED
    BY <2>3, <2>4, <2>5, <2>6, <2>7 DEF Applied
<1>2. ASSUME UNCHANGED newVars PROVE Applied'
  BY <1>1, <1>2 DEF newVars
<1>3. ASSUME NewStep PROVE Applied'
  <2>1. CASE NewAppliesOption
    BY <2>1, AppliesOption
  <2>2. CASE ~NewAppliesOption
    <3>1. UNCHANGED <<world, cfg, step>>
      BY <1>3, <2>2 DEF NewStep, NewOptionFails, NewBuilds, NewStartsProcess, NewStartFails,
                        NewHandshake, NewFails
    <3>2. phase' \in {"built", "init"} => phase \in {"built", "init"} \/ step = Len(given)
      BY <1>3, <2>2, HandshakeEffect
         DEF NewStep, NewOptionFails, NewBuilds, NewStartsProcess, NewStartFails, NewFails
    <3> QED
      BY <1>1, <3>1, <3>2
  <2> QED
    BY <2>1, <2>2
<1> QED
  BY <1>2, <1>3, NextSplit, SlotFrame, CallFrame, AcceptFrame, NoteFrame, RequestFrame,
     HandlerFrame, CloseFrame, ShutdownFrame, ServerFrame, ExitFrame DEF vars

LEMMA AppliedInit == Init => Applied
<1> SUFFICES ASSUME Init PROVE Applied
  OBVIOUS
<1>1. cfg \in Config
  BY DEF Init, clientConfig, Config, NoTransport, Handlers
<1>2. world.options \in Seq(AllOptions)
  BY ClientAssumption DEF Init
<1>3. step \in 0..Len(given) /\ 1..step = {}
  BY <1>2 DEF Init, given
<1> QED
  BY <1>1, <1>3 DEF Init, Applied, clientConfig, Nowhere, Somewhere

\* The inductive invariant on the options, the messages and the Calls.
Inv == Applied /\ Sources /\ Results /\ Stops

\* New has applied a prefix of its options, every message comes from where it
\* should, and a Call has a result only from the server or from a client that was
\* stopped (New, requestLoop, jrpc2's stop).
THEOREM Invariant == Spec => []Inv
<1>1. Init => Inv
  <2> SUFFICES ASSUME Init PROVE Inv
    OBVIOUS
  <2>1. Results
    BY Kinds DEF Init, StdioInit, Results, CallLocals
  <2>2. Sources
    BY Kinds DEF Init, StdioInit, Sources
  <2>3. Stops
    BY DEF Init, StdioInit, Stops
  <2> QED
    BY <2>1, <2>2, <2>3, AppliedInit DEF Inv
<1>2. Inv /\ [Next]_vars => Inv'
  <2> SUFFICES ASSUME Inv, [Next]_vars PROVE Inv'
    OBVIOUS
  <2>1. cfg.handler \in Handlers
    BY DEF Inv, Applied, Config
  <2> QED
    BY <2>1, AppliedStep, SourcesStep, ResultsStep, StopsStep DEF Inv
<1> QED
  BY <1>1, <1>2, PTL DEF Spec

\* Last names the greatest element of a set that has one.
LEMMA LastIs ==
  ASSUME NEW S \in SUBSET Int, NEW l \in S, \A j \in S : j <= l
  PROVE  Last(S) = l
<1>1. \E i \in S : \A j \in S : j <= i
  OBVIOUS
<1>2. Last(S) \in S /\ \A j \in S : j <= Last(S)
  BY <1>1 DEF Last
<1>3. Last(S) <= l /\ l <= Last(S) /\ Last(S) \in Int /\ l \in Int
  BY <1>2
<1> QED
  BY <1>3

\* Exactly what New builds, headers that come too late included.
AsGiven ==
  LET conn == At(InnerOptions)
      other == At(PlainOptions)
      header == Header(given[Last(conn)])
  IN IF At(Named({"WithStdioProcess"})) # {} THEN Transport("WithStdioProcess", FALSE, FALSE)
     ELSE IF conn # {} THEN Transport(given[Last(conn)].name,
                                      \E i \in At(Named({header})) : i < Last(conn),
                                      At(Named({"WithRetry"})) # {})
     ELSE IF other # {} THEN Transport(given[Last(other)].name, FALSE, FALSE)
     ELSE Transport("os.Stdin", FALSE, FALSE)

LEMMA ChosenAsGiven == Applied => (Built => Chosen(cfg) = AsGiven)
<1>1. ASSUME Applied, phase \in {"built", "init"} PROVE Chosen(cfg) = AsGiven
  <2> USE <1>1
  <2> DEFINE conn == At(InnerOptions)
             other == At(PlainOptions)
             header == Header(given[Last(conn)])
  <2>0. AsGiven =
         IF At(Named({"WithStdioProcess"})) # {} THEN Transport("WithStdioProcess", FALSE, FALSE)
         ELSE IF conn # {} THEN Transport(given[Last(conn)].name,
                                          \E i \in At(Named({header})) : i < Last(conn),
                                          At(Named({"WithRetry"})) # {})
         ELSE IF other # {} THEN Transport(given[Last(other)].name, FALSE, FALSE)
         ELSE Transport("os.Stdin", FALSE, FALSE)
    BY DEF AsGiven
  <2>1. step = Len(given) /\ step \in Nat
    BY Given DEF Applied
  <2>2. \A i \in 1..step : given[i] \in AllOptions
    BY Given, <2>1
  <2>3. \A P, i : i \in At(P) <=> i \in 1..step /\ given[i] \in P
    BY <2>1 DEF At
  <2>4. ASSUME NEW name \in SwitchNames, NEW i \in 1..step
        PROVE  given[i] \in Named({name}) <=> given[i].name = name
    <3>1. {name} \in SUBSET (PlainNames \cup SwitchNames)
      OBVIOUS
    <3> QED
      BY <2>2, <3>1, OptionNames
  <2>5. ASSUME NEW name \in SwitchNames
        PROVE  At(Named({name})) # {} <=> Somewhere(name, step)
    BY <2>3, <2>4 DEF Somewhere
  <2>6. At(Named({"WithStdioProcess"})) # {} <=> cfg.process
    BY <2>5 DEF SwitchNames, Applied
  <2>7. cfg \in Config
    BY DEF Applied
  <2>8. CASE cfg.process
    BY <2>0, <2>6, <2>8 DEF Chosen
  <2>9. CASE ~cfg.process /\ Nowhere(InnerOptions, step) /\ cfg.inner = NoTransport
    <3>1. conn = {}
      BY <2>3, <2>9 DEF Nowhere
    <3>2. CASE Nowhere(PlainOptions, step) /\ cfg.transport = NoTransport
      <4>1. other = {}
        BY <2>3, <3>2 DEF Nowhere
      <4> QED
        BY <2>0, <2>6, <2>9, <3>1, <3>2, <4>1 DEF Chosen
    <3>3. ASSUME NEW l \in 1..step, Latest(l, PlainOptions, step),
                 cfg.transport.by = given[l].name
          PROVE  Chosen(cfg) = AsGiven
      <4>1. l \in other /\ other \in SUBSET Int /\ \A j \in other : j <= l
        BY <2>3, <3>3 DEF Latest
      <4> HIDE DEF other
      <4>2. Last(other) = l /\ other # {}
        BY <4>1, LastIs
      <4>3. given[l].name \in PlainNames
        <5>1. PlainOptions = Named(PlainNames) /\ PlainNames \in SUBSET (PlainNames \cup SwitchNames)
          BY DEF PlainOptions, PlainNames
        <5> QED
          BY <2>2, <3>3, <5>1, OptionNames DEF Latest
      <4>4. cfg.transport # NoTransport
        BY <3>3, <4>3 DEF NoTransport, PlainNames
      <4> QED
        BY <2>0, <2>6, <2>9, <3>1, <3>3, <4>2, <4>4 DEF Chosen
    <3> QED
      BY <3>2, <3>3 DEF Applied
  <2>10. ASSUME ~cfg.process, NEW l \in 1..step, Latest(l, InnerOptions, step),
                cfg.inner.by = given[l].name,
                cfg.inner.auth <=> Somewhere(Header(given[l]), l - 1)
         PROVE  Chosen(cfg) = AsGiven
    <3>1. l \in conn /\ conn \in SUBSET Int /\ \A j \in conn : j <= l
      BY <2>3, <2>10 DEF Latest
    <3>a. header = Header(given[Last(conn)])
      OBVIOUS
    <3> HIDE DEF conn, header
    <3>2. Last(conn) = l /\ conn # {}
      BY <3>1, LastIs
    <3>3. header = Header(given[l]) /\ header \in SwitchNames
      BY <3>2, <3>a DEF Header, SwitchNames
    <3>4. (\E i \in At(Named({header})) : i < l) <=> Somewhere(header, l - 1)
      <4>1. \A i : i \in At(Named({header})) <=> i \in 1..step /\ given[i].name = header
        BY <2>3, <2>4, <3>3
      <4>2. \A i : i \in 1..(l - 1) <=> i \in 1..step /\ i < l
        BY <2>1, <2>10
      <4> QED
        BY <4>1, <4>2 DEF Somewhere
    <3>5. cfg.inner.auth = (\E i \in At(Named({header})) : i < l)
      <4>1. cfg.inner.auth \in BOOLEAN
        BY <2>7 DEF Config
      <4> QED
        BY <2>10, <3>3, <3>4, <4>1
    <3>6. cfg.retry = (At(Named({"WithRetry"})) # {})
      <4>1. cfg.retry \in BOOLEAN
        BY <2>7 DEF Config
      <4> QED
        BY <2>5, <4>1 DEF SwitchNames, Applied
    <3>7. cfg.inner # NoTransport
      <4>1. given[l].name \in HTTPNames \cup WSNames
        BY <2>2, <2>10, OptionNames DEF Latest
      <4> QED
        BY <2>10, <4>1 DEF NoTransport, HTTPNames, WSNames
    <3>8. AsGiven = Transport(given[l].name, \E i \in At(Named({header})) : i < l,
                              At(Named({"WithRetry"})) # {})
      BY <2>0, <2>6, <2>10, <3>2
    <3>9. Chosen(cfg) = Transport(cfg.inner.by, cfg.inner.auth, cfg.retry)
      BY <2>10, <3>7 DEF Chosen
    <3> QED
      BY <2>10, <3>5, <3>6, <3>8, <3>9
  <2> QED
    BY <2>8, <2>9, <2>10 DEF Applied
<1> QED
  BY <1>1 DEF Built

\* New builds the transport the options ask for, in whatever order and however
\* often they are given: the process before any other, the last connection before
\* WithTransport, the retry policy on a connection wherever it stands, the headers
\* that stand before it and none of the other kind (options.go, New in client.go).
THEOREM OptionsAreHonoured == Spec => []OptionsHonoured
<1>1. Applied => OptionsHonoured
  <2> SUFFICES ASSUME Applied, Built PROVE OptionsHonoured
    BY DEF OptionsHonoured
  <2> DEFINE conn == At(InnerOptions)
             other == At(PlainOptions)
             before == \E i \in At(Named({Header(given[Last(conn)])})) : i < Last(conn)
             retry == At(Named({"WithRetry"})) # {}
             process == At(Named({"WithStdioProcess"})) # {}
  <2>1. Chosen(cfg) = AsGiven
    BY ChosenAsGiven
  <2>2. AsGiven = IF process THEN Transport("WithStdioProcess", FALSE, FALSE)
                  ELSE IF conn # {} THEN Transport(given[Last(conn)].name, before, retry)
                  ELSE IF other # {} THEN Transport(given[Last(other)].name, FALSE, FALSE)
                  ELSE Transport("os.Stdin", FALSE, FALSE)
    BY DEF AsGiven
  <2>3. AskedFor = IF process THEN "WithStdioProcess"
                   ELSE IF conn # {} THEN given[Last(conn)].name
                   ELSE IF other # {} THEN given[Last(other)].name ELSE "os.Stdin"
    BY DEF AskedFor, IsGiven, PlainOptions
  <2>4. OverConnection <=> ~process /\ conn # {}
    BY DEF OverConnection, IsGiven
  <2>5. before => IsGiven(Header(given[Last(conn)]))
    BY DEF IsGiven
  <2>6. retry = IsGiven("WithRetry")
    BY DEF IsGiven
  <2>7. OptionsHonoured <=>
          /\ Chosen(cfg).by = AskedFor
          /\ OverConnection => /\ Chosen(cfg).retry = IsGiven("WithRetry")
                               /\ Chosen(cfg).auth => IsGiven(Header(given[Last(conn)]))
                               /\ before => Chosen(cfg).auth
          /\ ~OverConnection => ~Chosen(cfg).auth
    BY DEF OptionsHonoured
  <2> HIDE DEF conn, other, before, retry, process
  <2>8. CASE OverConnection
    <3>1. Chosen(cfg) = Transport(given[Last(conn)].name, before, retry)
      BY <2>1, <2>2, <2>4, <2>8
    <3>2. /\ Chosen(cfg).by = given[Last(conn)].name /\ Chosen(cfg).auth = before
          /\ Chosen(cfg).retry = retry
      BY <3>1 DEF Transport
    <3>3. AskedFor = given[Last(conn)].name
      BY <2>3, <2>4, <2>8
    <3> QED
      BY <2>5, <2>6, <2>7, <2>8, <3>2, <3>3
  <2>9. CASE ~OverConnection
    <3>1. Chosen(cfg) = Transport(AskedFor, FALSE, FALSE)
      BY <2>1, <2>2, <2>3, <2>4, <2>9
    <3>2. Chosen(cfg).by = AskedFor /\ Chosen(cfg).auth = FALSE
      BY <3>1 DEF Transport
    <3> QED
      BY <2>7, <2>9, <3>2
  <2> QED
    BY <2>8, <2>9
<1>2. Inv => Applied
  BY DEF Inv
<1> QED
  BY <1>1, <1>2, Invariant, PTL

-----------------------------------------------------------------------------
(* The promise of Call. *)

Returned == [c \in Calls \ Notifies |-> call[c].result]

LEMMA PromiseInit == Init => Promise!Init
  BY DEF Init, StdioInit, Promise!Init

LEMMA PromiseStep ==
  ASSUME Inv, [Next]_vars
  PROVE  [Promise!Next]_(Promise!vars)
<1>0. HandKnown /\ Results /\ Stops /\ Sources
  BY SourcesParts DEF Inv
<1>1. ASSUME NEW c \in Calls, UNCHANGED <<stopped, answered>>,
             \A d \in Calls : d # c => call'[d] = call[d],
             c \notin Notifies =>
               \/ call'[c].result = call[c].result
               \/ /\ call[c].result = "none"
                  /\ call'[c].result \in {"response", "ErrClosed", "error"}
                  /\ call'[c].result = "response" => c \in answered
                  /\ call'[c].result = "ErrClosed" => stopped
      PROVE  [Promise!Next]_(Promise!vars)
  <2>1. CASE c \in Notifies \/ call'[c].result = call[c].result
    <3>1. Returned' = Returned
      BY <1>1, <2>1 DEF Returned
    <3> QED
      BY <1>1, <3>1 DEF Promise!vars, Returned
  <2>2. CASE c \notin Notifies /\ call'[c].result # call[c].result
    <3>1. /\ Returned[c] = "none"
          /\ \E x \in {"response", "ErrClosed", "error"} :
               /\ Returned' = [Returned EXCEPT ![c] = x]
               /\ x = "response" => c \in answered
               /\ x = "ErrClosed" => stopped
      BY <1>1, <2>2 DEF Returned
    <3>2. ASSUME NEW x \in {"response", "ErrClosed", "error"},
                 Returned' = [Returned EXCEPT ![c] = x],
                 x = "response" => c \in answered, x = "ErrClosed" => stopped
          PROVE  Promise!Next
      BY <1>1, <2>2, <3>1, <3>2 DEF Promise!Next, Promise!Return
    <3> QED
      BY <3>1, <3>2
  <2> QED
    BY <2>1, <2>2
<1>2. ASSUME NEW c \in Calls, CallStep(c) PROVE [Promise!Next]_(Promise!vars)
  <2>1. UNCHANGED <<stopped, answered>> /\ \A d \in Calls : d # c => call'[d] = call[d]
    BY <1>0, <1>2, CallEffect, CallFrame
  <2>2. \/ call'[c].result = call[c].result
        \/ /\ call[c].result = "none" /\ call[c].pc # "returned"
           /\ \/ call'[c].result = "error" \/ call'[c].result = "sent"
              \/ call'[c].result = "ErrClosed" /\ done
              \/ call'[c].result = call[c].ch /\ call[c].ch # "empty"
    <3> USE <1>0 DEF Results, CallLocals
    <3>1. CASE ClientCall(c)
      BY <3>1 DEF ClientCall, CallBegins, CallReturns
    <3>2. CASE CallSendRefused(c) \/ CallWriteFails(c)
      BY <3>2 DEF CallSendRefused, CallWriteFails, CallReturns
    <3>3. CASE CallSend(c) \/ WaitComplete(c) \/ DeliverResponse(c)
      BY <3>3 DEF CallSend, WaitComplete, DeliverResponse
    <3>4. CASE CallWritten(c)
      BY <3>4 DEF CallWritten, CallReturns
    <3>5. CASE CallGetsReply(c)
      BY <3>5 DEF CallGetsReply, CallReturns
    <3> QED
      BY <1>2, <3>1, <3>2, <3>3, <3>4, <3>5 DEF CallStep
  <2>3. /\ call[c].ch \in {"empty", "response", "error"} /\ (call[c].ch = "response" => c \in answered)
        /\ c \notin Notifies => call'[c].result # "sent"
    BY <1>0, <1>2, CallEffect DEF Results, CallLocals
  <2>4. done => stopped
    BY <1>0 DEF Stops
  <2> QED
    BY <1>1, <2>1, <2>2, <2>3, <2>4
<1>3. ASSUME UNCHANGED <<call, answered>> PROVE [Promise!Next]_(Promise!vars)
  <2>1. UNCHANGED stopped \/ stopped' = TRUE
    BY DEF Next, Internal, Environment, Proceeds, TransportProceeds, ProcessProceeds, Killed,
         NewAppliesOption, NewOptionFails, NewBuilds, NewStartsProcess, NewStartFails,
         NewHandshake, NewFails, Acquire, AcquireCancelled, StartFails, StartSucceeds,
         RunSucceeds, RunFails, CloseThread, Release, ClientCall, CallBegins, CallSendRefused,
         CallSend, CallWritten, CallWriteFails, CallGetsReply, WaitComplete, DeliverResponse,
         Accept, AcceptFails, AcceptStops, DeliverNote, NotePushed, NoteDropped, TakeNote,
         DeliverRequest, CallbackPushes, CallbackCancelled, CallbackReplies, CallbackWritten,
         CallbackWriteFails, RequestLoopTakes, RequestLoopEnds, HandleServerRequest,
         HandlerAnswers, ClientClose, CloseTests, CloseCloses, CloseStops, CloseWaits,
         ClientShutdown, ServerRequests, ServerSends, ServerAnswers, ServerWrites, ServerExits,
         ServerReaped, transportVars, stdioVars, jrpc2, vars
  <2>2. CASE UNCHANGED stopped
    BY <1>3, <2>2 DEF Promise!vars
  <2>3. CASE stopped' = TRUE
    BY <1>3, <2>3 DEF Promise!Next, Promise!End
  <2> QED
    BY <2>1, <2>2, <2>3
<1>4. ASSUME ServerStep PROVE [Promise!Next]_(Promise!vars)
  <2>0. UNCHANGED <<stopped, call>>
    BY <1>4, ServerFrame DEF jrpc2
  <2>1. UNCHANGED answered \/ \E c \in Calls \ Notifies : answered' = answered \cup {c}
    BY <1>4 DEF ServerStep, ServerRequests, ServerSends, ServerAnswers
  <2>2. ASSUME NEW c \in Calls \ Notifies, answered' = answered \cup {c} PROVE Promise!Next
    BY <2>0, <2>2 DEF Promise!Next, Promise!Answer
  <2> QED
    BY <1>3, <2>0, <2>1, <2>2
<1> QED
  BY <1>2, <1>3, <1>4, NextSplit, NewFrame, SlotFrame, AcceptFrame, NoteFrame, RequestFrame,
     HandlerFrame, CloseFrame, ShutdownFrame, ExitFrame
     DEF vars, transportVars, stdioVars, jrpc2, wire, server

\* StdioTransport over jrpc2, with its adapter and its process, implements the
\* promise of Call: a Call returns once, a result only if the server answered
\* this very Call, ErrClosed only once jrpc2's client is stopped.
THEOREM PromiseKept == Spec => KeepsPromise
<1>1. Inv /\ [Next]_vars => [Promise!Next]_(Promise!vars)
  BY PromiseStep
<1> QED
  BY <1>1, Invariant, PromiseInit, PTL DEF Spec, KeepsPromise, Promise!Spec

-----------------------------------------------------------------------------
(* Approvals. *)

\* What is accepted is accepted by the handler there is; and there is no request
\* before there is a process, nor a change of the handler after.
Approvals ==
  /\ phase = "options" => proc = "none"
  /\ proc = "none" => sent = {}
  /\ replies \in [Reqs -> {"none", "accept", "decline", "empty", "error"}]
  /\ \A q \in Reqs : replies[q] # "none" => q \in sent
  /\ \A q \in Reqs : reply[q] = "accept" => CanApprove(cfg.handler, method[q])
  /\ \A q \in Reqs : replies[q] = "accept" => CanApprove(cfg.handler, method[q])

LEMMA ApprovalsStep ==
  ASSUME Inv, Approvals, [Next]_vars
  PROVE  Approvals'
<1>0. /\ reply \in [Reqs -> {"none", "accept", "decline", "empty", "error"}]
      /\ \A q \in Reqs : reply[q] # "none" => q \in sent
      /\ \A q \in Reqs : q \in sent => method[q] \in Methods
      /\ requestLoop \in Reqs => requestLoop \in sent
      /\ mu \in Reqs => mu \in sent
      /\ method \in [Reqs -> Methods \cup {None}]
      /\ cfg.handler \in Handlers
  BY DEF Inv, Sources, Applied, Config
<1>1. ASSUME NewStep PROVE Approvals'
  <2>1. CASE phase = "options"
    <3>1. sent = {} /\ UNCHANGED <<sent, reply, replies, method>>
      BY <1>1, <2>1, NewFrame DEF Approvals, stdioVars, wire, server, served
    <3>2. (phase' = "options" => proc' = "none") /\ (proc' = "none" => proc = "none")
      BY <1>1, <2>1 DEF NewStep, NewAppliesOption, NewOptionFails, NewBuilds, NewStartsProcess,
                   NewStartFails, NewHandshake, NewFails, Start, transportVars, procVars,
                   Approvals, Handshake
    <3> QED
      BY <1>0, <3>1, <3>2 DEF Approvals
  <2>2. CASE phase # "options"
    <3>1. /\ UNCHANGED <<sent, reply, replies, method>>
          /\ UNCHANGED <<cfg, proc>>
      BY <1>1, <2>2, NewFrame
         DEF stdioVars, wire, server, served, NewStep, NewAppliesOption, NewOptionFails,
             NewBuilds, NewStartsProcess, NewStartFails, NewHandshake, NewFails, transportVars,
             procVars
    <3>2. phase' # "options"
      BY <1>1, <2>2, HandshakeEffect
         DEF NewStep, NewAppliesOption, NewOptionFails, NewBuilds, NewStartsProcess,
             NewStartFails, NewFails, Inv
    <3> QED
      BY <3>1, <3>2 DEF Approvals
  <2> QED
    BY <2>1, <2>2
<1>2. ASSUME HandlerStep PROVE Approvals'
  <2>0. UNCHANGED <<phase, cfg, proc, sent, replies, method>>
    BY <1>2, HandlerFrame DEF newVars, procVars
  <2>1. CASE HandleServerRequest
    <3>1. PICK answer \in Answers(cfg.handler, method[requestLoop]) : HandlerAnswers(answer)
      BY <2>1 DEF HandleServerRequest
    <3>2. requestLoop \in Reqs /\ method[requestLoop] \in Methods
      BY <1>0, <2>1 DEF HandleServerRequest
    <3>3. answer = "accept" => CanApprove(cfg.handler, method[requestLoop])
      BY <1>0, <3>1, <3>2, AcceptsByHandler
    <3>4. reply' = [reply EXCEPT ![requestLoop] = answer]
      BY <3>1 DEF HandlerAnswers
    <3> QED
      BY <1>0, <2>0, <3>2, <3>3, <3>4 DEF Approvals
  <2>2. CASE RequestLoopTakes \/ RequestLoopEnds
    <3>1. UNCHANGED reply
      BY <2>2 DEF RequestLoopTakes, RequestLoopEnds
    <3> QED
      BY <2>0, <3>1 DEF Approvals
  <2> QED
    BY <1>2, <2>1, <2>2 DEF HandlerStep
<1>3. ASSUME NEW q \in Reqs, RequestStep(q) PROVE Approvals'
  <2>0. UNCHANGED <<phase, cfg, proc, sent, reply, method>>
    BY <1>3, RequestFrame DEF newVars, procVars
  <2>1. CASE CallbackWritten(q)
    <3>1. replies' = [replies EXCEPT ![q] = reply[q]] /\ q \in sent
      BY <1>0, <2>1 DEF CallbackWritten
    <3> QED
      BY <1>0, <2>0, <3>1 DEF Approvals
  <2>2. CASE UNCHANGED replies
    BY <2>0, <2>2 DEF Approvals
  <2> QED
    BY <1>3, <2>1, <2>2
       DEF RequestStep, DeliverRequest, CallbackPushes, CallbackCancelled, CallbackReplies,
           CallbackWriteFails, wire, server
<1>4. ASSUME ServerStep PROVE Approvals'
  <2>0. UNCHANGED <<phase, cfg, proc, reply, replies>> /\ proc = "running"
    BY <1>4, ServerFrame
       DEF newVars, procVars, served, ServerStep, ServerRequests, ServerAnswers, ServerSends,
           ServerWrites
  <2>1. sent \subseteq sent' /\ \A q \in Reqs : q \in sent => method'[q] = method[q]
    BY <1>0, <1>4, ServerEffect DEF Inv
  <2> QED
    BY <1>0, <2>0, <2>1 DEF Approvals
<1>5. ASSUME ExitStep PROVE Approvals'
  <2>1. proc # "none" /\ proc' # "none"
    BY <1>5 DEF ExitStep, ServerExits, ServerReaped, Exits, Reap
  <2>2. UNCHANGED <<phase, cfg, sent, reply, replies, method>>
    BY <1>5, ExitFrame DEF newVars, served, server
  <2> QED
    BY <2>1, <2>2 DEF Approvals
<1>6. ASSUME UNCHANGED <<phase, cfg, proc, sent, reply, replies, method>> PROVE Approvals'
  BY <1>6 DEF Approvals
<1> QED
  BY <1>1, <1>2, <1>3, <1>4, <1>5, <1>6, NextSplit, SlotFrame, CallFrame, AcceptFrame, NoteFrame,
     CloseFrame, ShutdownFrame
     DEF vars, newVars, procVars, transportVars, stdioVars, served, wire, server

\* A reply, on its way or read by the server, is an acceptance only if the handler
\* could have made it, and the handler is fixed before the process starts
\* (requestLoop, handleServerRequest, New).
THEOREM ApprovalsInvariant == Spec => []Approvals
<1>1. Init => Approvals
  BY DEF Init, StdioInit, ProcInit, Approvals
<1>2. Inv /\ Approvals /\ [Next]_vars => Approvals'
  BY ApprovalsStep
<1> QED
  BY <1>1, <1>2, Invariant, PTL DEF Spec

\* The server reads an acceptance only if the application's own handler, the one
\* New was given, could have made it: neither a missing handler, nor a missing
\* field of the Dispatcher, nor a late reply accepts (interaction.go,
\* requestLoop in client.go).
THEOREM AcceptedByHandler == Spec => []ApprovedByHandler
<1>1. Approvals => ApprovedByHandler
  BY DEF Approvals, ApprovedByHandler
<1> QED
  BY <1>1, ApprovalsInvariant, PTL

-----------------------------------------------------------------------------
(* What is left behind. *)

Over(c) == call[c].pc \in {"start", "returned"}

\* Until New has returned its client nobody but New uses it: only the handshake
\* calls, and only New closes.
Private ==
  /\ \A s \in Starters : starter[s] = "idle"
  /\ \A k \in Closers : k # "new" => closer[k] = "idle"
  /\ \A c \in Calls : Over(c) \/ (c \in Handshake /\ phase = c)
  /\ closer["new"] # "idle" => phase \in {"cleanup", "failed"}
  /\ adapterClosed => closer["new"] \notin {"idle", "closing"}
  /\ closer["new"] = "closed" => Quiet

Ends ==
  /\ shutdown \in [Closers -> {"idle", "eof", "term", "kill", "returned"}]
  /\ \A k \in Closers : shutdown[k] = "returned" => reaped
  /\ shutdown["new"] # "idle" => closer["new"] = "closed"
  /\ phase = "failed" /\ proc # "none" => shutdown["new"] = "returned"
  /\ phase # "ready" => Private

LEMMA NewCloses == "new" \in Closers
  BY ClientAssumption

\* What has become quiet stays so.
LEMMA QuietKept ==
  ASSUME Sources, [Next]_vars, Quiet
  PROVE  Quiet'
<1>1. ASSUME UNCHANGED <<accept, callback>>, hand' \subseteq hand, mu' # "note" PROVE Quiet'
  BY <1>1 DEF Quiet
<1>2. ASSUME NEW c \in Calls, CallStep(c) PROVE Quiet'
  <2>1. hand' \subseteq hand /\ mu' # "note"
    BY <1>2, Kinds
       DEF Quiet, CallStep, ClientCall, CallBegins, CallSendRefused, CallSend, CallWritten,
           CallWriteFails, CallGetsReply, WaitComplete, DeliverResponse
  <2> QED
    BY <1>1, <1>2, <2>1, CallFrame
<1>3. ASSUME AcceptStep PROVE Quiet'
  BY <1>3 DEF AcceptStep, Accept, AcceptFails, AcceptStops, Quiet
<1>4. ASSUME NoteStep PROVE Quiet'
  <2>1. hand' \subseteq hand /\ mu' # "note"
    BY <1>4 DEF Quiet, NoteStep, DeliverNote, NotePushed, NoteDropped, TakeNote, jrpc2
  <2> QED
    BY <1>1, <1>4, <2>1, NoteFrame
<1>5. ASSUME NEW q \in Reqs, RequestStep(q) PROVE Quiet'
  <2>1. CASE CallbackWritten(q) \/ CallbackWriteFails(q)
    <3>1. /\ callback' = [callback EXCEPT ![q] = "over"] /\ mu' = "free"
          /\ UNCHANGED <<accept, hand>>
      BY <2>1 DEF CallbackWritten, CallbackWriteFails, jrpc2
    <3> QED
      BY <3>1 DEF Quiet, Sources
  <2>2. CASE ~(CallbackWritten(q) \/ CallbackWriteFails(q))
    BY <1>5, <2>2 DEF Quiet, RequestStep, DeliverRequest, CallbackPushes, CallbackCancelled,
                      CallbackReplies
  <2> QED
    BY <2>1, <2>2
<1>6. ASSUME UNCHANGED <<mu, accept, hand, callback>> PROVE Quiet'
  BY <1>1, <1>6 DEF Quiet
<1> QED
  BY <1>2, <1>3, <1>4, <1>5, <1>6, NextSplit, NewFrame, SlotFrame, HandlerFrame, CloseFrame,
     ShutdownFrame, ServerFrame, ExitFrame
     DEF vars, transportVars, stdioVars, jrpc2, served

\* The phases New goes through.
LEMMA NewPhases ==
  ASSUME Results, NewStep
  PROVE  /\ phase # "ready"
         /\ phase \in {"cleanup", "failed"} => phase' = "failed" /\ shutdown["new"] = "returned"
         /\ \/ phase = "options"
            \/ phase \in Handshake /\ phase \in Calls /\ call[phase].pc = "returned"
            \/ phase = "cleanup"
         /\ phase' = "failed" => phase = "cleanup" \/ (phase = "options" /\ UNCHANGED proc)
         /\ phase # "options" => UNCHANGED proc
<1>1. CASE NewHandshake
  BY <1>1, HandshakeEffect DEF NewHandshake, Handshake, transportVars, procVars
<1>2. CASE NewFails
  BY <1>2 DEF NewFails, Handshake, transportVars, procVars
<1>3. CASE \/ NewAppliesOption \/ NewOptionFails \/ NewBuilds \/ NewStartsProcess
           \/ NewStartFails
  BY <1>3 DEF NewAppliesOption, NewOptionFails, NewBuilds, NewStartsProcess, NewStartFails,
              transportVars, procVars, Handshake
<1> QED
  BY <1>1, <1>2, <1>3 DEF NewStep

LEMMA PrivateStep ==
  ASSUME Inv, Private, Ends, phase # "ready", [Next]_vars, phase' # "ready"
  PROVE  Private'
<1>0. Quiet => Quiet'
  BY QuietKept DEF Inv
<1>a. Results /\ Sources /\ Stops
  BY DEF Inv
<1>1. ASSUME UNCHANGED <<phase, starter, closer, adapterClosed>>,
             \A c \in Calls : call'[c].pc = call[c].pc \/ (c \in Handshake /\ phase = c)
      PROVE  Private'
  BY <1>0, <1>1 DEF Private, Over
<1>2. ASSUME NewStep PROVE Private'
  <2>1. UNCHANGED <<starter, call, closer, adapterClosed>>
    BY <1>2, NewFrame DEF slotVars, stdioVars, jrpc2, closing
  <2>2. \A c \in Calls : Over(c)
    BY <1>2, <1>a, NewPhases DEF Private, Over, Handshake
  <2>3. closer["new"] # "idle" => phase' \in {"cleanup", "failed"}
    BY <1>2, <1>a, NewPhases DEF Private
  <2> QED
    BY <1>0, <2>1, <2>2, <2>3 DEF Private, Over
<1>3. ASSUME NEW s \in Starters, SlotStep(s) PROVE Private'
  BY <1>3 DEF Private, SlotStep, Acquire, AcquireCancelled, StartFails, StartSucceeds,
              RunSucceeds, RunFails, CloseThread
<1>4. ASSUME NEW c \in Calls, CallStep(c) PROVE Private'
  <2>1. UNCHANGED <<phase, starter, closer, adapterClosed>>
    BY <1>4, CallFrame DEF newVars, slotVars
  <2>2. \A d \in Calls : d # c => call'[d] = call[d]
    BY <1>4, <1>a, SourcesParts, CallEffect
  <2>3. call'[c].pc = call[c].pc \/ (c \in Handshake /\ phase = c)
    <3>1. CASE ClientCall(c)
      <4>1. MayCall(c)
        BY <3>1 DEF ClientCall
      <4>2. CASE c \in Handshake
        <5>1. c \notin Starters
          BY <4>2, ClientAssumption DEF Handshake
        <5> QED
          BY <4>1, <4>2, <5>1 DEF MayCall
      <4>3. CASE c \in Starters
        <5>1. c \notin Handshake
          BY <4>3, ClientAssumption DEF Handshake
        <5> QED
          BY <4>1, <4>3, <5>1 DEF MayCall, Private
      <4>4. CASE c \notin Handshake /\ c \notin Starters
        BY <4>1, <4>4 DEF MayCall
      <4> QED
        BY <4>2, <4>3, <4>4
    <3>2. CASE \/ CallSendRefused(c) \/ CallSend(c) \/ CallWritten(c) \/ CallWriteFails(c)
               \/ CallGetsReply(c)
      <4>1. call[c].pc \in {"send", "write", "wait"}
        BY <3>2, <1>a DEF CallSendRefused, CallSend, CallWritten, CallWriteFails, CallGetsReply,
                          Results
      <4> QED
        BY <4>1 DEF Private, Over
    <3>3. CASE WaitComplete(c) \/ DeliverResponse(c)
      BY <3>3, <1>a DEF WaitComplete, DeliverResponse, Results, CallLocals
    <3> QED
      BY <1>4, <3>1, <3>2, <3>3 DEF CallStep
  <2> QED
    BY <1>1, <2>1, <2>2, <2>3
<1>5. ASSUME NEW k \in Closers, CloseStep(k) PROVE Private'
  <2>1. UNCHANGED <<phase, starter, call>>
    BY <1>5, CloseFrame DEF newVars, slotVars
  <2>2. k = "new" /\ phase \in {"cleanup", "failed"}
    BY <1>5 DEF CloseStep, ClientClose, MayClose, CloseCloses, CloseStops, CloseWaits, Private
  <2>3. \A j \in Closers : j # "new" => closer'[j] = closer[j]
    BY <1>5, <2>2, <1>a
       DEF CloseStep, ClientClose, CloseTests, CloseCloses, CloseStops, CloseWaits, Stops
  <2>4. /\ closer'["new"] = "closed" => Quiet
        /\ adapterClosed' => closer'["new"] \notin {"idle", "closing"}
    <3> USE <2>2, <1>a, NewCloses DEF Stops, Private
    <3>1. CASE ClientClose(k)
      BY <3>1 DEF ClientClose, CloseTests
    <3>2. CASE CloseCloses(k)
      BY <3>2 DEF CloseCloses
    <3>3. CASE CloseStops(k)
      BY <3>3 DEF CloseStops
    <3>4. CASE CloseWaits(k)
      BY <3>4 DEF CloseWaits
    <3> QED
      BY <1>5, <3>1, <3>2, <3>3, <3>4 DEF CloseStep
  <2> QED
    BY <1>0, <2>1, <2>2, <2>3, <2>4 DEF Private, Over
<1>6. ASSUME UNCHANGED <<phase, starter, call, closer, adapterClosed>> PROVE Private'
  BY <1>1, <1>6
<1> QED
  BY <1>2, <1>3, <1>4, <1>5, <1>6, NextSplit, AcceptFrame, NoteFrame, RequestFrame,
     HandlerFrame, ShutdownFrame, ServerFrame, ExitFrame
     DEF vars, newVars, slotVars, transportVars, stdioVars, jrpc2, closing

LEMMA EndsStep ==
  ASSUME Inv, Approvals, Ends, [Next]_vars
  PROVE  Ends'
<1>a. Results /\ Stops
  BY DEF Inv
<1>b. phase' # "ready" => phase # "ready"
  BY <1>a, NextSplit, NewPhases, SlotFrame, CallFrame, AcceptFrame, NoteFrame, RequestFrame,
     HandlerFrame, CloseFrame, ShutdownFrame, ServerFrame, ExitFrame DEF vars, newVars
<1>c. phase' # "ready" => Private'
  BY <1>b, PrivateStep DEF Ends
<1>d. closer["new"] = "closed" => closer'["new"] = "closed"
  <2>1. ASSUME NEW k \in Closers, CloseStep(k), closer["new"] = "closed"
        PROVE  closer'["new"] = "closed"
    BY <2>1, <1>a, NewCloses
       DEF CloseStep, ClientClose, CloseTests, CloseCloses, CloseStops, CloseWaits, Stops
  <2> QED
    BY <2>1, NextSplit, NewFrame, SlotFrame, CallFrame, AcceptFrame, NoteFrame, RequestFrame,
       HandlerFrame, ShutdownFrame, ServerFrame, ExitFrame
       DEF vars, transportVars, stdioVars, closing
<1>1. ASSUME NEW k \in Closers, ShutdownStep(k) PROVE Ends'
  <2>0. UNCHANGED <<phase, proc, reaped, closer>>
    BY <1>1, ShutdownFrame DEF newVars, stdioVars, closing
  <2>1. CASE ClientShutdown(k)
    <3>1. /\ shutdown[k] = "idle" /\ shutdown' = [shutdown EXCEPT ![k] = "eof"]
          /\ closer[k] = "closed"
      BY <2>1 DEF ClientShutdown, ShutdownBegins
    <3> QED
      BY <1>c, <2>0, <3>1, NewCloses DEF Ends
  <2>2. CASE ShutdownProceeds(k)
    <3>1. \E x \in {"term", "kill", "returned"} :
            /\ shutdown' = [shutdown EXCEPT ![k] = x]
            /\ x = "returned" => reaped
            /\ shutdown[k] \in {"eof", "term", "kill"}
      BY <2>2 DEF ShutdownProceeds, ShutdownSeesExit, ShutdownTerm, ShutdownKill
    <3> QED
      BY <1>c, <2>0, <3>1, NewCloses DEF Ends
  <2> QED
    BY <1>1, <2>1, <2>2 DEF ShutdownStep
<1>2. ASSUME NewStep PROVE Ends'
  <2>1. UNCHANGED <<shutdown, reaped>>
    BY <1>2, NewFrame
  <2>2. phase' = "failed" /\ proc' # "none" => shutdown["new"] = "returned"
    BY <1>2, <1>a, NewPhases DEF Approvals
  <2> QED
    BY <1>c, <1>d, <2>1, <2>2 DEF Ends
<1>3. ASSUME ExitStep PROVE Ends'
  <2>1. UNCHANGED <<shutdown, phase, closer>>
    BY <1>3, ExitFrame DEF newVars, closing
  <2>2. proc # "none" /\ (reaped => reaped')
    BY <1>3 DEF ExitStep, ServerExits, ServerReaped, Exits, Reap
  <2> QED
    BY <1>c, <2>1, <2>2 DEF Ends
<1>4. ASSUME UNCHANGED <<phase, proc, reaped, shutdown>> PROVE Ends'
  BY <1>c, <1>d, <1>4 DEF Ends
<1> QED
  BY <1>1, <1>2, <1>3, <1>4, NextSplit, SlotFrame, CallFrame, AcceptFrame, NoteFrame,
     RequestFrame, HandlerFrame, CloseFrame, ServerFrame
     DEF vars, newVars, transportVars, procVars

\* The connections that options have opened so far.
Dials == {i \in 1..step : given[i] \in InnerOptions}
Abandons == abandoned # {} => phase = "failed" \/ cfg.process \/ Cardinality(Dials) > 1

LEMMA AbandonsStep ==
  ASSUME Inv, Abandons, [Next]_vars
  PROVE  Abandons'
<1>a. Applied /\ Results
  BY DEF Inv
<1>0. step \in Nat /\ IsFiniteSet(Dials)
  <2>1. step \in Nat
    BY <1>a, Given
  <2>2. IsFiniteSet(1..step)
    BY <2>1, FS_Interval
  <2> QED
    BY <2>1, <2>2, FS_Subset DEF Dials
<1>1. ASSUME NewAppliesOption PROVE Abandons'
  <2>1. /\ given' = given /\ step' = step + 1 /\ phase = "options"
        /\ cfg' = Apply(cfg, given[step + 1])
        /\ abandoned' = IF given[step + 1] \in InnerOptions
                        THEN abandoned \cup ({cfg.inner} \ {NoTransport}) ELSE abandoned
    BY <1>1 DEF NewAppliesOption, given
  <2>2. given[step + 1] \in AllOptions /\ cfg \in Config
    <3>1. step + 1 \in 1..Len(given)
      BY <1>1, <1>a, Given DEF NewAppliesOption
    <3> QED
      BY <1>a, <3>1, Given DEF Applied
  <2>3. cfg.process => cfg'.process
    BY <2>1, <2>2, ApplyEffect
  <2>4. Dials \subseteq Dials' /\ (given[step + 1] \in InnerOptions => step + 1 \in Dials')
    BY <1>0, <2>1 DEF Dials
  <2>5. IsFiniteSet(Dials')
    <3>1. Dials' \subseteq 1..(step + 1)
      BY <2>1 DEF Dials
    <3>2. IsFiniteSet(1..(step + 1))
      BY <1>0, FS_Interval
    <3> QED
      BY <3>1, <3>2, FS_Subset
  <2>6. Cardinality(Dials) \in Nat /\ Cardinality(Dials') \in Nat
    BY <1>0, <2>5, FS_CardinalityType
  <2>7. Cardinality(Dials) <= Cardinality(Dials')
    BY <2>4, <2>5, FS_Subset
  <2>8. CASE abandoned # {}
    <3>1. cfg.process \/ Cardinality(Dials) > 1
      BY <2>1, <2>8 DEF Abandons
    <3> QED
      BY <2>3, <2>6, <2>7, <3>1 DEF Abandons
  <2>9. CASE abandoned = {} /\ abandoned' # {}
    <3>1. given[step + 1] \in InnerOptions /\ cfg.inner # NoTransport
      BY <2>1, <2>9
    <3>2. PICK l \in 1..step : given[l] \in InnerOptions
      BY <1>a, <3>1 DEF Applied, Latest
    <3>3. l \in Dials' /\ step + 1 \in Dials' \ {l}
      BY <1>0, <2>4, <3>1, <3>2 DEF Dials
    <3>4. /\ IsFiniteSet(Dials' \ {l})
          /\ Cardinality(Dials' \ {l}) = Cardinality(Dials') - 1
      BY <2>5, <3>3, FS_RemoveElement
    <3>5. Cardinality(Dials' \ {l}) # 0 /\ Cardinality(Dials' \ {l}) \in Nat
      BY <3>3, <3>4, FS_EmptySet, FS_CardinalityType
    <3>6. Cardinality(Dials') > 1
      BY <2>6, <3>4, <3>5
    <3> QED
      BY <3>6 DEF Abandons
  <2> QED
    BY <2>8, <2>9 DEF Abandons
<1>2. ASSUME UNCHANGED <<world, step, cfg>>, phase = "failed" => phase' = "failed",
             abandoned' = abandoned \/ phase' = "failed" \/ cfg.process
      PROVE  Abandons'
  <2>1. Dials' = Dials
    BY <1>2 DEF Dials, given
  <2> QED
    BY <1>2, <2>1 DEF Abandons
<1>3. ASSUME NewStep PROVE Abandons'
  <2>1. CASE ~NewAppliesOption
    <3>1. UNCHANGED <<world, step, cfg>> /\ (abandoned' = abandoned \/ phase' = "failed" \/ cfg.process)
      BY <1>3, <2>1 DEF NewStep, NewOptionFails, NewBuilds, NewStartsProcess, NewStartFails,
                        NewHandshake, NewFails
    <3>2. phase = "failed" => phase' = "failed"
      BY <1>3, <1>a, NewPhases
    <3> QED
      BY <1>2, <3>1, <3>2
  <2> QED
    BY <1>1, <2>1
<1> QED
  BY <1>2, <1>3, NextSplit, SlotFrame, CallFrame, AcceptFrame, NoteFrame, RequestFrame,
     HandlerFrame, CloseFrame, ShutdownFrame, ServerFrame, ExitFrame DEF vars, newVars

\* A New that has not made its client ready has it for itself, and a Close that has
\* returned has seen the process reaped (New, ManagedProcess.Shutdown).
THEOREM EndsInvariant == Spec => [](Ends /\ Abandons)
<1>1. Init => Ends /\ Abandons
  <2> SUFFICES ASSUME Init PROVE Ends /\ Abandons
    OBVIOUS
  <2>1. Private
    BY NewCloses DEF Init, StdioInit, Private, Over
  <2>2. Ends
    BY <2>1, NewCloses DEF Init, ProcInit, Ends
  <2>3. Abandons
    BY DEF Init, Abandons
  <2> QED
    BY <2>2, <2>3
<1>2. Inv /\ Approvals /\ Ends /\ Abandons /\ [Next]_vars => Ends' /\ Abandons'
  BY EndsStep, AbandonsStep
<1> QED
  BY <1>1, <1>2, Invariant, ApprovalsInvariant, PTL DEF Spec

\* A Close that has returned leaves no process; a New that fails after it has
\* started the process leaves no process, no goroutine of jrpc2 and no Call,
\* whatever the server was doing; and what an option opened is abandoned only by
\* a New that fails, or when another transport takes its place.
THEOREM NothingIsLeftBehind == Spec => []NothingLeftBehind
<1>1. Ends /\ Abandons => NothingLeftBehind
  <2> SUFFICES ASSUME Ends, Abandons PROVE NothingLeftBehind
    OBVIOUS
  <2>1. ASSUME phase = "failed", proc # "none"
        PROVE  reaped /\ Quiet /\ \A c \in Calls : call[c].pc \in {"start", "returned"}
    BY <2>1, NewCloses DEF Ends, Private, Over, Handshake
  <2> QED
    BY <2>1 DEF Ends, Abandons, Dials, NothingLeftBehind
<1> QED
  BY <1>1, EndsInvariant, PTL

-----------------------------------------------------------------------------
(* The type invariant: what the invariants above do not say of it. *)

Phases == {"options", "built", "init", "initialized", "login", "ready", "cleanup", "failed"}
Rest ==
  /\ proc \in {"none", "running", "exited"} /\ reaped \in BOOLEAN
  /\ stdin \in {"open", "closed"} /\ signals \subseteq {"SIGTERM", "SIGKILL"}
  /\ mu \in {"free", "note"} \cup Calls \cup Reqs
  /\ stopped \in BOOLEAN /\ done \in BOOLEAN /\ pending \subseteq Calls
  /\ accept \in {"recv", "stopping", "ended"} /\ hand \subseteq Calls \cup Notes \cup Reqs
  /\ notes \in 0..QueueCap /\ Len(requests) <= QueueCap
  /\ requestLoop \in {"select", "ended"} \cup Reqs
  /\ pipe \in {"open", "closed"} /\ Len(inbox) <= MaxInbox
  /\ phase \in Phases

LEMMA RestStep ==
  ASSUME Inv, Rest, [Next]_vars
  PROVE  Rest'
<1>0. /\ inbox \in Seq(Calls \cup Notes \cup Reqs \cup {Garbage}) /\ requests \in Seq(Reqs)
      /\ QueueCap \in Nat /\ MaxInbox \in Nat
  BY StdioAssumption DEF Inv, Sources
<1>e. Len(<<>>) = 0
  OBVIOUS
<1>1. ASSUME NewStep PROVE Rest'
  <2>1. UNCHANGED <<stdioVars, reaped, stdin, signals>>
    BY <1>1, NewFrame
  <2>2. phase' \in Phases /\ proc' \in {"none", "running", "exited"}
    <3>1. ASSUME NewHandshake PROVE phase' \in Phases /\ proc' = proc
      BY <3>1, HandshakeEffect DEF Inv, NewHandshake, Phases, transportVars, procVars
    <3> QED
      BY <1>1, <3>1 DEF NewStep, NewAppliesOption, NewOptionFails, NewBuilds, NewStartsProcess,
         NewStartFails, NewFails, Start, Phases, Rest, newVars, transportVars, procVars
  <2> QED
    BY <2>1, <2>2 DEF Rest, stdioVars, jrpc2, served, wire
<1>2. ASSUME NEW s \in Starters, SlotStep(s) PROVE Rest'
  BY <1>2, SlotFrame DEF Rest, newVars, procVars, stdioVars, jrpc2, served, wire
<1>3. ASSUME NEW c \in Calls, CallStep(c) PROVE Rest'
  <2>1. /\ mu' \in {"free", "note"} \cup Calls \cup Reqs
        /\ pending' \subseteq Calls /\ hand' \subseteq Calls \cup Notes \cup Reqs
    BY <1>3 DEF CallStep, ClientCall, CallBegins, CallSendRefused, CallSend, CallWritten,
       CallWriteFails, CallGetsReply, WaitComplete, DeliverResponse, Rest
  <2> QED
    BY <1>3, <2>1, CallFrame DEF Rest, newVars, procVars
<1>4. ASSUME AcceptStep PROVE Rest'
  <2>1. CASE Accept
    <3>1. /\ Head(inbox) \in Calls \cup Notes \cup Reqs \cup {Garbage} /\ Head(inbox) # Garbage
          /\ Len(Tail(inbox)) <= Len(inbox)
      BY <2>1, <1>0 DEF Accept
    <3>2. hand' \subseteq Calls \cup Notes \cup Reqs
      BY <2>1, <3>1 DEF Accept, Rest
    <3>3. Len(inbox') <= MaxInbox
      BY <2>1, <3>1, <1>0 DEF Accept, Rest
    <3> QED
      BY <1>4, <2>1, <3>2, <3>3, AcceptFrame DEF Accept, Rest, newVars, procVars
  <2>2. CASE AcceptFails
    BY <1>4, <2>2, <1>0, <1>e, AcceptFrame DEF AcceptFails, Rest, newVars
  <2>3. CASE AcceptStops
    BY <1>4, <2>3, AcceptFrame DEF AcceptStops, Rest, newVars, procVars, wire
  <2> QED
    BY <1>4, <2>1, <2>2, <2>3 DEF AcceptStep
<1>5. ASSUME NoteStep PROVE Rest'
  <2>1. /\ mu' \in {"free", "note"} \cup Calls \cup Reqs
        /\ hand' \subseteq Calls \cup Notes \cup Reqs
    BY <1>5 DEF NoteStep, DeliverNote, NotePushed, NoteDropped, TakeNote, jrpc2, Rest
  <2>2. notes' \in 0..QueueCap
    BY <1>5, <1>0 DEF NoteStep, DeliverNote, NotePushed, NoteDropped, TakeNote, Rest
  <2> QED
    BY <1>5, <2>1, <2>2, NoteFrame DEF Rest, newVars, procVars
<1>6. ASSUME NEW q \in Reqs, RequestStep(q) PROVE Rest'
  <2>1. /\ mu' \in {"free", "note"} \cup Calls \cup Reqs
        /\ hand' \subseteq Calls \cup Notes \cup Reqs
    BY <1>6 DEF RequestStep, DeliverRequest, CallbackPushes, CallbackCancelled, CallbackReplies,
       CallbackWritten, CallbackWriteFails, jrpc2, Rest
  <2>2. Len(requests') <= QueueCap
    BY <1>6, <1>0 DEF RequestStep, DeliverRequest, CallbackPushes, CallbackCancelled,
       CallbackReplies, CallbackWritten, CallbackWriteFails, Rest
  <2> QED
    BY <1>6, <2>1, <2>2, RequestFrame DEF Rest, newVars, procVars
<1>7. ASSUME HandlerStep PROVE Rest'
  <2>1. requestLoop' \in {"select", "ended"} \cup Reqs /\ Len(requests') <= QueueCap
    <3>1. CASE RequestLoopTakes
      <4>1. Head(requests) \in Reqs /\ Len(Tail(requests)) <= Len(requests)
        BY <3>1, <1>0 DEF RequestLoopTakes
      <4> QED
        BY <3>1, <4>1, <1>0 DEF RequestLoopTakes, Rest
    <3> QED
      BY <1>7, <3>1 DEF HandlerStep, HandleServerRequest, HandlerAnswers, RequestLoopEnds, Rest
  <2> QED
    BY <1>7, <2>1, HandlerFrame DEF Rest, newVars, procVars
<1>8. ASSUME NEW k \in Closers, CloseStep(k) PROVE Rest'
  <2>1. /\ stopped' \in BOOLEAN /\ done' \in BOOLEAN /\ stdin' \in {"open", "closed"}
        /\ pipe' \in {"open", "closed"} /\ (inbox' = inbox \/ inbox' = <<>>)
    BY <1>8 DEF CloseStep, ClientClose, CloseTests, CloseCloses, CloseStops, CloseWaits, jrpc2,
       wire, procVars, Rest
  <2>2. Len(inbox') <= MaxInbox
    BY <2>1, <1>0, <1>e DEF Rest
  <2> QED
    BY <1>8, <2>1, <2>2, CloseFrame DEF Rest, newVars
<1>9. ASSUME NEW k \in Closers, ShutdownStep(k) PROVE Rest'
  <2>1. stdin' \in {"open", "closed"} /\ signals' \subseteq {"SIGTERM", "SIGKILL"}
    BY <1>9 DEF ShutdownStep, ClientShutdown, ShutdownBegins, ShutdownProceeds, ShutdownSeesExit,
       ShutdownTerm, ShutdownKill, Rest
  <2> QED
    BY <1>9, <2>1, ShutdownFrame DEF Rest, newVars, stdioVars, jrpc2, served, wire
<1>10. ASSUME ServerStep PROVE Rest'
  <2>1. PICK m \in Calls \cup Notes \cup Reqs \cup {Garbage} :
          Len(inbox) < MaxInbox /\ inbox' = Append(inbox, m)
    <3>1. world.sends \subseteq Notes \cup Reqs \cup {Garbage}
      BY ClientAssumption DEF Inv, Sources
    <3> QED
      BY <1>10, <3>1 DEF ServerStep, ServerRequests, ServerAnswers, ServerSends, ServerWrites
  <2>2. Len(inbox') <= MaxInbox
    BY <2>1, <1>0
  <2> QED
    BY <1>10, <2>2, ServerFrame DEF Rest, newVars, procVars, jrpc2, served
<1>11. ASSUME ExitStep PROVE Rest'
  <2>1. proc' \in {"none", "running", "exited"} /\ reaped' \in BOOLEAN
        /\ (inbox' = inbox \/ inbox' = <<>>)
    BY <1>11 DEF ExitStep, ServerExits, ServerReaped, Exits, Reap, stdioVars, wire, Rest
  <2>2. Len(inbox') <= MaxInbox
    BY <2>1, <1>0, <1>e DEF Rest
  <2> QED
    BY <1>11, <2>1, <2>2, ExitFrame DEF Rest, newVars, jrpc2, served
<1>12. ASSUME UNCHANGED vars PROVE Rest'
  BY <1>12 DEF Rest, vars, newVars, transportVars, procVars, stdioVars, jrpc2, served, wire
<1> QED
  BY <1>1, <1>2, <1>3, <1>4, <1>5, <1>6, <1>7, <1>8, <1>9, <1>10, <1>11, <1>12, NextSplit

\* Every part of the client, the transport and the process keeps its type, and
\* the channels of the transport and the semaphore keep to their capacities.
THEOREM TypeCorrect == Spec => []TypeOK
<1>1. Init => Rest
  <2> SUFFICES ASSUME Init PROVE Rest
    OBVIOUS
  <2>1. QueueCap \in Nat /\ MaxInbox \in Nat /\ Len(<<>>) = 0
    BY StdioAssumption
  <2>2. 0 \in 0..QueueCap /\ Len(<<>>) <= QueueCap /\ Len(<<>>) <= MaxInbox
    BY <2>1
  <2>3. notes = 0 /\ requests = <<>> /\ inbox = <<>> /\ phase \in Phases
    BY DEF Init, StdioInit, Phases
  <2> QED
    BY <2>2, <2>3 DEF Init, StdioInit, ProcInit, Rest
<1>2. Inv /\ Rest /\ [Next]_vars => Rest'
  BY RestStep
<1>3. Init => Slots
  BY SlotsInit
<1>4. Slots /\ [Next]_vars => Slots'
  BY SlotsStep
<1>5. Inv /\ Ends /\ Slots /\ Rest => TypeOK
  <2> SUFFICES ASSUME Inv, Ends, Slots, Rest PROVE TypeOK
    OBVIOUS
  <2>1. ProcTypeOK
    BY DEF Rest, Ends, ProcTypeOK
  <2>2. StdioTypeOK
    BY DEF Rest, Inv, Results, CallLocals, Sources, Stops, StdioTypeOK
  <2>3. sem \in 0..MaxThreads
    BY Capacity DEF Slots
  <2> QED
    BY <2>1, <2>2, <2>3 DEF Rest, Slots, Phases, TypeOK
<1> QED
  BY <1>1, <1>2, <1>3, <1>4, <1>5, Invariant, EndsInvariant, PTL DEF Spec

=============================================================================
