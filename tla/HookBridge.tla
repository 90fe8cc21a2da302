----------------------------- MODULE HookBridge -----------------------------
(***************************************************************************)
(* The hook bridge: the listener that answers Codex's hooks                *)
(* (internal/hookbridge/listener.go) and the shim Codex runs for each of   *)
(* them (cmd/codex-sdk-hook-shim/main.go), which asks the listener over a  *)
(* Unix socket.                                                            *)
(*                                                                         *)
(* Goroutines and processes: the accept loop, one handleConn per           *)
(* connection, the callers of Close, and the shims.  A shim makes one      *)
(* connection, so connections are named after their shims.  A payload is   *)
(* known by whether its first line is a request that the scanner can hold  *)
(* and json can decode, and whether anything is left unread behind it.     *)
(* The WaitGroup is Go's: a waiter that finds it in use again when it      *)
(* wakes up panics, wg.Add and wg.Done may panic when they meet as the     *)
(* counter falls to 0, and a panic ends the program.                       *)
(***************************************************************************)
EXTENDS Naturals, FiniteSets

CONSTANTS
  Shims,   \* hooks that fire
  Closers  \* invocations of Close

ASSUME HookBridgeAssumption == IsFiniteSet(Shims)

VARIABLES
  open, done,       \* the socket listens; l.done is closed
  serve,            \* where the accept loop is
  wg,               \* the counter of l.wg
  closer,           \* where each Close is
  panicked,         \* the program has ended in a panic
  conn, answer,     \* where each connection is; what was written to it
  shim,             \* where each shim is; "answered" and "failed" are exit codes 0 and 1
  decides,          \* what the handler decided for each hook, "" if nothing
  handler,          \* whether there is a handler
  readable,         \* the shims whose payload starts with a whole request
  whole             \* those of them whose payload is that request and no more

inputs == <<handler, readable, whole>>
vars == <<open, done, serve, wg, closer, panicked, conn, answer, shim, decides, inputs>>

Running == ~panicked

Init ==
  /\ open = TRUE /\ done = FALSE /\ panicked = FALSE
  /\ serve = "accept" /\ wg = 0
  /\ closer = [k \in Closers |-> "idle"]
  /\ conn = [s \in Shims |-> "none"]
  /\ answer = [s \in Shims |-> "none"]
  /\ shim = [s \in Shims |-> "start"]
  /\ decides = [s \in Shims |-> "unasked"]
  /\ handler \in BOOLEAN
  /\ readable \in SUBSET Shims /\ whole \in SUBSET readable

-----------------------------------------------------------------------------
(* The shim.  It has read its standard input to the end before it dials. *)

ShimGivesUp(s) == \* no socket path, or no standard input
  /\ shim[s] = "start"
  /\ shim' = [shim EXCEPT ![s] = "refused"]
  /\ UNCHANGED <<open, done, serve, wg, closer, panicked, conn, answer, decides, inputs>>

ShimDials(s) ==
  /\ shim[s] = "start"
  /\ shim' = [shim EXCEPT ![s] = IF open THEN "dialled" ELSE "refused"]
  /\ conn' = [conn EXCEPT ![s] = IF open THEN "queued" ELSE "none"]
  /\ UNCHANGED <<open, done, serve, wg, closer, panicked, answer, decides, inputs>>

ShimWrites(s) == \* the payload, a newline and the end of the stream
  /\ shim[s] = "dialled"
  /\ shim' = [shim EXCEPT ![s] = IF conn[s] = "reset" THEN "failed" ELSE "reading"]
  /\ UNCHANGED <<open, done, serve, wg, closer, panicked, conn, answer, decides, inputs>>

\* The listener has closed the connection.  When it left a part of the payload
\* unread the kernel may report that instead of the end of the stream.
ShimReads(s) ==
  /\ shim[s] = "reading" /\ conn[s] \in {"closed", "finished"}
  /\ \E pc \in {"answered"} \cup IF s \in whole THEN {} ELSE {"failed"} :
       shim' = [shim EXCEPT ![s] = pc]
  /\ UNCHANGED <<open, done, serve, wg, closer, panicked, conn, answer, decides, inputs>>

ShimReset(s) == \* closed with the listening socket
  /\ shim[s] = "reading" /\ conn[s] = "reset"
  /\ shim' = [shim EXCEPT ![s] = "failed"]
  /\ UNCHANGED <<open, done, serve, wg, closer, panicked, conn, answer, decides, inputs>>

-----------------------------------------------------------------------------
(* The accept loop. *)

Accept(s) ==
  /\ Running /\ open /\ serve = "accept" /\ conn[s] = "queued"
  /\ serve' = "accepted"
  /\ conn' = [conn EXCEPT ![s] = "accepted"]
  /\ UNCHANGED <<open, done, wg, closer, panicked, answer, shim, decides, inputs>>

\* Seeded fault: the loop ends at the first error of Accept.
FaultFirstErrorEnds ==
  /\ Running /\ serve = "accept"
  /\ serve' = "ended"
  /\ UNCHANGED <<open, done, wg, closer, panicked, conn, answer, shim, decides, inputs>>

\* A transient error, or the listening socket is closed.
AcceptFails ==
  /\ Running /\ serve = "accept"
  /\ serve' = IF done THEN "ended" ELSE "accept"
  /\ UNCHANGED <<open, done, wg, closer, panicked, conn, answer, shim, decides, inputs>>

\* wg.Add and the start of handleConn.  A wg.Done that is waking up the waiters
\* and this Add may see each other, and then one of the two panics.
AddConn(s) ==
  /\ Running /\ conn[s] = "accepted"
  /\ panicked' \in {FALSE} \cup {wg = 0 /\ closer[k] = "woken" : k \in Closers}
  /\ serve' = "accept"
  /\ wg' = wg + 1
  /\ conn' = [conn EXCEPT ![s] = "scan"]
  /\ UNCHANGED <<open, done, closer, answer, shim, decides, inputs>>

-----------------------------------------------------------------------------
(* handleConn. *)

dispatch(decision) == IF decision = "" THEN "allow" ELSE decision

Scan(s) ==
  /\ Running /\ conn[s] = "scan" /\ shim[s] = "reading"
  /\ conn' = [conn EXCEPT ![s] = IF s \in readable THEN "dispatch" ELSE "respond"]
  /\ answer' = [answer EXCEPT ![s] = IF s \in readable THEN @ ELSE "allow"]
  /\ UNCHANGED <<open, done, serve, wg, closer, panicked, shim, decides, inputs>>

Dispatch(s) ==
  /\ Running /\ conn[s] = "dispatch"
  /\ conn' = [conn EXCEPT ![s] = "respond"]
  /\ \E decision \in IF handler THEN {"allow", "block", ""} ELSE {""} :
       /\ decides' = [decides EXCEPT ![s] = decision]
       /\ answer' = [answer EXCEPT ![s] = dispatch(decision)]
  /\ UNCHANGED <<open, done, serve, wg, closer, panicked, shim, inputs>>

Respond(s) == \* writeResponse and conn.Close
  /\ Running /\ conn[s] = "respond"
  /\ conn' = [conn EXCEPT ![s] = "closed"]
  /\ UNCHANGED <<open, done, serve, wg, closer, panicked, answer, shim, decides, inputs>>

Done(s) == \* wg.Done
  /\ Running /\ conn[s] = "closed"
  /\ conn' = [conn EXCEPT ![s] = "finished"]
  /\ wg' = wg - 1
  /\ closer' = [k \in Closers |->
       IF wg = 1 /\ closer[k] = "waiting" THEN "woken" ELSE closer[k]]
  /\ UNCHANGED <<open, done, serve, panicked, answer, shim, decides, inputs>>

-----------------------------------------------------------------------------
(* Close. *)

CloseListener(k) == \* the first into once.Do: connections nobody accepted are reset
  /\ Running /\ closer[k] = "idle" /\ \A j \in Closers : closer[j] = "idle"
  /\ open' = FALSE
  /\ conn' = [s \in Shims |-> IF conn[s] = "queued" THEN "reset" ELSE conn[s]]
  /\ closer' = [closer EXCEPT ![k] = "closing"]
  /\ UNCHANGED <<done, serve, wg, panicked, answer, shim, decides, inputs>>

CloseDone(k) ==
  /\ Running /\ closer[k] = "closing"
  /\ done' = TRUE
  /\ closer' = [closer EXCEPT ![k] = "closed"]
  /\ UNCHANGED <<open, serve, wg, panicked, conn, answer, shim, decides, inputs>>

CloseAgain(k) == \* once.Do waits for the first to be through
  /\ Running /\ closer[k] = "idle" /\ done
  /\ closer' = [closer EXCEPT ![k] = "closed"]
  /\ UNCHANGED <<open, done, serve, wg, panicked, conn, answer, shim, decides, inputs>>

\* Seeded fault: Close returns without waiting for the connections.
FaultDoesNotWait(k) ==
  /\ Running /\ closer[k] = "closed"
  /\ closer' = [closer EXCEPT ![k] = "returned"]
  /\ UNCHANGED <<open, done, serve, wg, panicked, conn, answer, shim, decides, inputs>>

CloseWaits(k) ==
  /\ Running /\ closer[k] = "closed"
  /\ closer' = [closer EXCEPT ![k] = IF wg = 0 THEN "returned" ELSE "waiting"]
  /\ UNCHANGED <<open, done, serve, wg, panicked, conn, answer, shim, decides, inputs>>

CloseWakes(k) ==
  /\ Running /\ closer[k] = "woken"
  /\ closer' = [closer EXCEPT ![k] = IF wg = 0 THEN "returned" ELSE "woken"]
  /\ panicked' = (wg # 0)
  /\ UNCHANGED <<open, done, serve, wg, conn, answer, shim, decides, inputs>>

\* What becomes of a shim whose listener's process is gone: the end of the
\* stream, with nothing before it, or an error.
ShimCutOff(s) ==
  /\ panicked /\ shim[s] \in {"dialled", "reading"}
  /\ conn[s] \notin {"closed", "finished", "reset"}
  /\ \E pc \in {"answered", "failed"} : shim' = [shim EXCEPT ![s] = pc]
  /\ UNCHANGED <<open, done, serve, wg, closer, panicked, conn, answer, decides, inputs>>

-----------------------------------------------------------------------------
ShimStep(s) == ShimWrites(s) \/ ShimReads(s) \/ ShimReset(s) \/ ShimCutOff(s)
HandleConn(s) == Scan(s) \/ Dispatch(s) \/ Respond(s) \/ Done(s)
CloseStep(k) == CloseDone(k) \/ CloseWaits(k) \/ CloseWakes(k)

Next ==
  \/ \E s \in Shims : ShimGivesUp(s) \/ ShimDials(s) \/ ShimStep(s)
                      \/ Accept(s) \/ AddConn(s) \/ HandleConn(s)
  \/ AcceptFails
  \/ \E k \in Closers : CloseListener(k) \/ CloseAgain(k) \/ CloseStep(k)

Spec == Init /\ [][Next]_vars

\* Goroutines and shims that can go on do; Accept is served while it has
\* connections; the handler returns ("It must return quickly").
Fairness ==
  /\ \A s \in Shims : /\ WF_vars(ShimStep(s)) /\ WF_vars(HandleConn(s))
                      /\ WF_vars(Accept(s) \/ AddConn(s))
  /\ WF_vars(AcceptFails)
  /\ \A k \in Closers : WF_vars(CloseStep(k) \/ CloseAgain(k))

FairSpec == Spec /\ Fairness

-----------------------------------------------------------------------------
(* Properties. *)

\* Type invariant: the WaitGroup counts at most one per connection.
TypeOK ==
  /\ open \in BOOLEAN /\ done \in BOOLEAN /\ panicked \in BOOLEAN
  /\ serve \in {"accept", "accepted", "ended"}
  /\ wg \in 0..Cardinality(Shims)
  /\ closer \in [Closers ->
       {"idle", "closing", "closed", "waiting", "woken", "returned"}]
  /\ conn \in [Shims -> {"none", "queued", "reset", "accepted", "scan",
                         "dispatch", "respond", "closed", "finished"}]
  /\ answer \in [Shims -> {"none", "allow", "block"}]
  /\ shim \in [Shims ->
       {"start", "refused", "dialled", "reading", "answered", "failed"}]
  /\ handler \in BOOLEAN /\ decides \in [Shims -> {"unasked", "allow", "block", ""}]
  /\ readable \in SUBSET Shims /\ whole \in SUBSET readable

InHand == {s \in Shims : conn[s] \in {"accepted", "scan", "dispatch", "respond", "closed"}}

\* "Close stops the listener and waits for all in-flight connections to
\* finish" (listener.go:90), but for the one that serve had accepted and not
\* yet added to the WaitGroup: when a Close has returned, or the WaitGroup
\* panicked because that one was added as the waiters woke up, at most one connection is still
\* in hand and no other can come.
OnlyOneOutlivesClose ==
  (panicked \/ \E k \in Closers : closer[k] = "returned")
    => ~open /\ Cardinality(InHand) <= 1

\* What the shim prints once it has the answer to a request the listener could
\* read is the handler's decision.
DecidedByHandler(s) == shim[s] = "answered" /\ (s \in readable => answer[s] = dispatch(decides[s]))

\* Every hook that reaches the socket is answered, by the handler's decision
\* if its payload was readable; it fails only if the listener was closed or
\* left a part of the payload unread.  And Close and the accept loop come to their end.
HooksAnswered ==
  /\ \A s \in Shims : shim[s] = "dialled"
       ~> \/ DecidedByHandler(s) \/ panicked
          \/ shim[s] = "failed" /\ (s \in whole => ~open)
  /\ \A s \in Shims : shim[s] = "dialled" ~> shim[s] \in {"answered", "failed"}
  /\ \A k \in Closers : closer[k] = "closing"
       ~> panicked \/ (closer[k] = "returned" /\ serve = "ended")

=============================================================================
