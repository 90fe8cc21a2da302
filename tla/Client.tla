------------------------------- MODULE Client -------------------------------
(***************************************************************************)
(* The client over a managed process: New with its options, Initialize and *)
(* the automatic login, Close, the slots for threads, and the server's     *)
(* requests (client.go, options.go, interaction.go, thread.go), composed   *)
(* with StdioTransport and ManagedProcess.                                 *)
(*                                                                         *)
(* New with another transport is followed up to the point where that       *)
(* transport, which has a module of its own, takes over.                   *)
(***************************************************************************)
EXTENDS StdioTransport, Options, FiniteSets

CONSTANTS
  Starters,    \* the calls made by StartThread, ResumeThread and Fork
  MaxThreads,  \* capacity of threadSem (64 by default)
  MethodsAsked, \* bound: the methods of the requests the server makes
  Worlds       \* what New is called with, and what is done with its client

ASSUME ClientAssumption ==
  /\ {"init", "login"} \cup Starters \subseteq Calls \ Notifies
  /\ Starters \cap {"init", "login"} = {}
  /\ "initialized" \in Notifies /\ "new" \in Closers
  /\ MaxThreads \in Nat /\ MethodsAsked \subseteq Methods
  /\ \A w \in Worlds :
       /\ w.options \in Seq(AllOptions)
       /\ w.calls \subseteq Calls /\ w.closers \subseteq Closers \* those that are made
       /\ w.sends \subseteq Notes \cup Reqs \cup {Garbage}       \* what the server may send

VARIABLES
  world,            \* one of Worlds; it never changes
  cfg, step,        \* clientConfig, and how many options are applied
  phase,            \* where New is
  abandoned,        \* connections opened by options that the client does not use
  sem, starter,     \* how full threadSem is, and where each StartThread is
  method            \* of each request of the server

given == world.options \* the options of New
newVars == <<world, cfg, step, phase, abandoned>>
slotVars == <<sem, starter>>
transportVars == <<stdioVars, procVars>>
vars == <<newVars, slotVars, method, transportVars>>

Init ==
  /\ world \in Worlds /\ cfg = clientConfig /\ step = 0 /\ phase = "options"
  /\ abandoned = {}
  /\ sem = 0 /\ starter = [s \in Starters |-> "idle"] /\ method = [q \in Reqs |-> None]
  /\ StdioInit /\ ProcInit

-----------------------------------------------------------------------------
(* New. *)

\* What an option opened is forgotten by New when a later one replaces it.
NewAppliesOption ==
  /\ phase = "options" /\ step < Len(given) /\ step' = step + 1
  /\ cfg' = Apply(cfg, given[step + 1])
  /\ abandoned' = IF given[step + 1] \in InnerOptions
                  THEN abandoned \cup ({cfg.inner} \ {NoTransport}) ELSE abandoned
  /\ UNCHANGED <<world, phase, slotVars, method, transportVars>>

\* NewWebSocket or NewReconnectingWS fails, and New returns its error.
NewOptionFails ==
  /\ phase = "options" /\ step < Len(given) /\ given[step + 1] \in WSOptions
  /\ phase' = "failed" /\ abandoned' = abandoned \cup ({cfg.inner} \ {NoTransport})
  /\ UNCHANGED <<world, cfg, step, slotVars, method, transportVars>>

\* The transport, the handler, the notification loop, the semaphore; then
\* Initialize, if an option asked for it.  Transports other than the process's
\* go their own way from here.
NewBuilds ==
  /\ phase = "options" /\ step = Len(given) /\ ~cfg.process /\ phase' = "built"
  /\ UNCHANGED <<world, cfg, step, abandoned, slotVars, method, transportVars>>

NewStartsProcess ==
  /\ phase = "options" /\ step = Len(given) /\ cfg.process /\ phase' = "init"
  /\ Start /\ abandoned' = abandoned \cup ({cfg.inner} \ {NoTransport})
  /\ UNCHANGED <<world, cfg, step, slotVars, method, stdioVars>>

NewStartFails ==
  /\ phase = "options" /\ step = Len(given) /\ cfg.process /\ phase' = "failed"
  /\ abandoned' = abandoned \cup ({cfg.inner} \ {NoTransport})
  /\ UNCHANGED <<world, cfg, step, slotVars, method, transportVars>>

\* Initialize is a Call and a Notify, LoginAPIKey a Call; if one of them fails
\* New closes the client.
Handshake == {"init", "initialized", "login"}
NewHandshake ==
  /\ phase \in Handshake /\ call[phase].pc = "returned"
  /\ phase' = CASE call[phase].result \notin {"response", "sent"} -> "cleanup"
                [] phase = "init" /\ call[phase].result = "response" -> "initialized"
                [] phase = "initialized" /\ call[phase].result = "sent" ->
                     IF cfg.login THEN "login" ELSE "ready"
                [] phase = "login" /\ call[phase].result = "response" -> "ready"
  /\ UNCHANGED <<world, cfg, step, abandoned, slotVars, method, transportVars>>

NewFails ==
  /\ phase = "cleanup" /\ shutdown["new"] = "returned" /\ phase' = "failed"
  /\ UNCHANGED <<world, cfg, step, abandoned, slotVars, method, transportVars>>

-----------------------------------------------------------------------------
(* StartThread, ResumeThread and Fork, and the slots they hold. *)

Holding == {"calling", "running", "open"}

Acquire(s) ==
  /\ phase = "ready" /\ s \in world.calls /\ starter[s] = "idle" /\ sem < MaxThreads
  /\ sem' = sem + 1 /\ starter' = [starter EXCEPT ![s] = "calling"]
  /\ UNCHANGED <<newVars, method, transportVars>>

\* The context ends while all slots are taken.
AcquireCancelled(s) ==
  /\ phase = "ready" /\ s \in world.calls /\ starter[s] = "idle"
  /\ starter' = [starter EXCEPT ![s] = "failed"]
  /\ UNCHANGED <<newVars, sem, method, transportVars>>

\* release: a receive that does not wait.
Release(s, to) ==
  /\ sem' = IF sem > 0 THEN sem - 1 ELSE sem
  /\ starter' = [starter EXCEPT ![s] = to]
  /\ UNCHANGED <<newVars, method, transportVars>>

\* Seeded fault: the slot of a thread that could not be started is kept.
FaultStartKeepsSlot(s) ==
  /\ starter[s] = "calling" /\ call[s].pc = "returned" /\ call[s].result # "response"
  /\ starter' = [starter EXCEPT ![s] = "failed"]
  /\ UNCHANGED <<newVars, sem, method, transportVars>>
StartFails(s) ==
  /\ starter[s] = "calling" /\ call[s].pc = "returned" /\ call[s].result # "response"
  /\ Release(s, "failed")

\* With an initial input the thread runs a turn first (StartThread, ResumeThread).
StartSucceeds(s) ==
  /\ starter[s] = "calling" /\ call[s].pc = "returned" /\ call[s].result = "response"
  /\ \E to \in {"running", "open"} : starter' = [starter EXCEPT ![s] = to]
  /\ UNCHANGED <<newVars, sem, method, transportVars>>

RunSucceeds(s) ==
  /\ starter[s] = "running" /\ starter' = [starter EXCEPT ![s] = "open"]
  /\ UNCHANGED <<newVars, sem, method, transportVars>>

\* st.Close, as closeThread.
RunFails(s) == starter[s] = "running" /\ Release(s, "failed")

\* SessionThread.Close: closeOnce makes the second Close do nothing.
CloseThread(s) == starter[s] = "open" /\ Release(s, "closed")

-----------------------------------------------------------------------------
(* Calls, requests and Close, in the phases in which they can be made. *)

MayCall(c) ==
  CASE c \in Handshake -> phase = c
    [] c \in Starters  -> starter[c] = "calling"
    [] OTHER           -> phase = "ready" /\ c \in world.calls

ClientCall(c) == MayCall(c) /\ CallBegins(c) /\ UNCHANGED <<newVars, slotVars, method>>

\* Seeded fault: without a handler there is no reply.
FaultNoHandlerNoReply ==
  /\ requestLoop \in Reqs
  /\ \E answer \in IF cfg.handler.kind = "none" THEN {"none"}
                    ELSE Answers(cfg.handler, method[requestLoop]) : HandlerAnswers(answer)
  /\ UNCHANGED <<newVars, slotVars, method>>
\* The handler New has set serves the request.
HandleServerRequest ==
  /\ requestLoop \in Reqs
  /\ \E answer \in Answers(cfg.handler, method[requestLoop]) : HandlerAnswers(answer)
  /\ UNCHANGED <<newVars, slotVars, method>>

MayClose(k) == k \in world.closers /\ phase = IF k = "new" THEN "cleanup" ELSE "ready"
ClientClose(k) == MayClose(k) /\ CloseTests(k) /\ UNCHANGED <<newVars, slotVars, method>>

\* Once the transport is closed the process is shut down, by every Close.
ClientShutdown(k) ==
  /\ closer[k] = "closed" /\ ShutdownBegins(k)
  /\ UNCHANGED <<newVars, slotVars, method, stdioVars>>

ServerRequests(q) ==
  /\ q \in world.sends /\ ServerSends(q) /\ \E m \in MethodsAsked : method' = [method EXCEPT ![q] = m]
  /\ UNCHANGED <<newVars, slotVars>>

-----------------------------------------------------------------------------
\* Steps of the client's own goroutines that nothing outside can hold up.
Proceeds ==
  \/ NewAppliesOption \/ NewStartsProcess \/ NewHandshake \/ NewFails
  \/ \E s \in Starters : StartFails(s) \/ StartSucceeds(s)
  \/ \E c \in Calls : ClientCall(c)
  \/ HandleServerRequest
  \/ \E k \in Closers : ClientShutdown(k)
TransportProceeds ==
  \/ \E c \in Calls :
       \/ CallSendRefused(c) \/ CallSend(c) \/ CallWriteFails(c) \/ CallGetsReply(c)
       \/ DeliverResponse(c)
       \/ stopped /\ WaitComplete(c)
  \/ Accept \/ AcceptFails \/ AcceptStops
  \/ \E n \in Notes : DeliverNote(n)
  \/ NotePushed \/ NoteDropped \/ TakeNote
  \/ \E q \in Reqs :
       \/ DeliverRequest(q) \/ CallbackPushes(q) \/ CallbackCancelled(q)
       \/ CallbackReplies(q) \/ CallbackWriteFails(q)
  \/ RequestLoopTakes \/ RequestLoopEnds
  \/ \E k \in Closers : CloseCloses(k) \/ CloseStops(k) \/ CloseWaits(k)
  \/ ServerReaped
ProcessProceeds ==
  \E k \in Closers : ShutdownProceeds(k) /\ UNCHANGED stdioVars

\* A process that has been killed ends.
Killed == "SIGKILL" \in signals /\ ServerExits

Internal ==
  \/ Proceeds
  \/ (TransportProceeds \/ ProcessProceeds \/ Killed) /\ UNCHANGED <<newVars, slotVars, method>>

\* What the application, the server and the passing of contexts may do.
Environment ==
  \/ NewOptionFails \/ NewStartFails \/ NewBuilds
  \/ \E s \in Starters :
       Acquire(s) \/ AcquireCancelled(s) \/ RunSucceeds(s) \/ RunFails(s) \/ CloseThread(s)
  \/ \E k \in Closers : ClientClose(k)
  \/ \E q \in Reqs : ServerRequests(q)
  \/ /\ \/ \E c \in Calls : WaitComplete(c) \/ CallWritten(c) \/ ServerAnswers(c)
        \/ \E m \in world.sends \ Reqs : ServerSends(m)
        \/ \E q \in Reqs : CallbackWritten(q)
        \/ ServerExits
     /\ UNCHANGED <<newVars, slotVars, method>>

Next == Internal \/ Environment

Spec == Init /\ [][Next]_vars

\* The client's goroutines do not stop while one of them can run.  That is all:
\* the server need not read, answer, or end before it is killed.
FairSpec == Spec /\ WF_vars(Internal)

-----------------------------------------------------------------------------
(* Properties. *)

\* Type invariant, with the capacities of the channels.
TypeOK ==
  /\ ProcTypeOK /\ StdioTypeOK
  /\ phase \in {"options", "built", "init", "initialized", "login", "ready", "cleanup", "failed"}
  /\ sem \in 0..MaxThreads
  /\ starter \in [Starters -> Holding \cup {"idle", "failed", "closed"}]

\* Every way out of StartThread, ResumeThread and Fork, and SessionThread.Close,
\* gives back the slot it holds, and no other.
SlotsConserved == sem = Cardinality({s \in Starters : starter[s] \in Holding})

\* Closing the client twice is harmless, also from New; only two Closes of which
\* neither has closed s.closed when the other looks can close it twice.
PanicOnlyIfOverlapped == panicked => overlapped

\* When Close returns the process is gone; when New fails after it has started
\* the process, no process, no goroutine of jrpc2 and no Call is left.  What is
\* left open is the connection of an option, when another takes its place or New
\* fails before the client owns it.
NothingLeftBehind ==
  /\ \A k \in Closers : shutdown[k] = "returned" => reaped
  /\ (phase = "failed" /\ proc # "none") =>
       reaped /\ Quiet /\ \A c \in Calls : call[c].pc \in {"start", "returned"}
  /\ abandoned # {} =>
       phase = "failed" \/ cfg.process
         \/ Cardinality({i \in 1..step : given[i] \in InnerOptions}) > 1

\* The server is told to go on only by a handler of the application.
CanApprove(handler, m) ==
  \/ handler.kind = "approval" /\ m \in {"exec", "file", "permissions", "input"}
  \/ handler.kind = "dispatcher" /\ (m \in handler.has \/ "fallback" \in handler.has)
ApprovedByHandler ==
  \A q \in Reqs : replies[q] = "accept" => CanApprove(cfg.handler, method[q])

\* The transport New builds is the one the options ask for: the process before
\* any other, the last connection before WithTransport.  A connection has the
\* retry policy wherever WithRetry stands, the headers that stand before it, and
\* none of the other kind; no other transport has headers.  Two things the
\* documents promise and the code does not do are left open: WithRetry around a
\* transport that is no connection, and a header given after its connection.
Last(S) == CHOOSE i \in S : \A j \in S : j <= i
At(options) == {i \in 1..Len(given) : given[i] \in options}
IsGiven(name) == At(Named({name})) # {}
Header(o) == IF o \in HTTPOptions THEN "WithHTTPBearerToken" ELSE "WithWSBearerToken"
Built == phase \in {"built", "init"}
OverConnection == ~IsGiven("WithStdioProcess") /\ At(InnerOptions) # {}
AskedFor ==
  LET other == At(Named({"WithTransport", "WithStdioTransport"}))
  IN IF IsGiven("WithStdioProcess") THEN "WithStdioProcess"
     ELSE IF At(InnerOptions) # {} THEN given[Last(At(InnerOptions))].name
     ELSE IF other # {} THEN given[Last(other)].name
     ELSE "os.Stdin"
OptionsHonoured ==
  Built =>
    LET last == Last(At(InnerOptions))
    IN /\ Chosen(cfg).by = AskedFor
       /\ OverConnection =>
            /\ Chosen(cfg).retry = IsGiven("WithRetry")
            /\ Chosen(cfg).auth => IsGiven(Header(given[last]))
            /\ (\E i \in At(Named({Header(given[last])})) : i < last) => Chosen(cfg).auth
       /\ ~OverConnection => ~Chosen(cfg).auth

\* The server holds up c.mu: it does not read what a Call or a reply writes.
ServerDoesNotRead == mu \in Calls \cup Reqs /\ Writable
CallsOver == \A c \in Calls : call[c].pc \in {"start", "returned"}

\* Close returns, with the process killed if need be, and it ends every Call,
\* also with a full notes channel and a request in the handler's hands; so does
\* the end of the process.  Only a server that runs but does not read can hold
\* Close up, since Close waits for c.mu before it looks at the process.
EndReleasesEveryone ==
  /\ \A k \in Closers : (closer[k] # "idle") ~>
       \/ shutdown[k] = "returned" /\ CallsOver
       \/ panicked \/ ServerDoesNotRead
  /\ (proc = "exited") ~> CallsOver

\* A request of the server is answered, whatever its method and whoever is or
\* is not there to handle it, as long as the session lasts.
RequestsAnswered ==
  \A q \in Reqs : (callback[q] # "none") ~>
    (replies[q] # "none" \/ stopped \/ ServerDoesNotRead)

\* The transport implements the promise of Call.
Promise == INSTANCE RPC WITH
  Calls <- Calls \ Notifies,
  over <- stopped, result <- [c \in Calls \ Notifies |-> call[c].result]
KeepsPromise == Promise!Spec
=============================================================================
