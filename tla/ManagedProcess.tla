--------------------------- MODULE ManagedProcess ---------------------------
(***************************************************************************)
(* The app-server as a subprocess (internal/process/process.go).           *)
(*                                                                         *)
(* Start spawns it and a goroutine that waits for its exit; Shutdown       *)
(* closes its stdin, then sends SIGTERM, then SIGKILL, and waits after     *)
(* each of them.  Several Shutdowns may run at the same time.  A process   *)
(* may end whenever it likes, and only SIGKILL makes it end.               *)
(***************************************************************************)
EXTENDS Integers, Sequences

CONSTANT Closers \* the goroutines that call Shutdown

VARIABLES
  proc,    \* "none", "running", "exited"
  reaped,  \* cmd.Wait has returned: stdout is closed at our end, and p.done is closed
  stdin,   \* whether our end of the process's stdin is open
  signals, \* sent to the process so far
  shutdown \* where each Shutdown is

procVars == <<proc, reaped, stdin, signals, shutdown>>

ProcInit ==
  /\ proc = "none" /\ reaped = FALSE /\ stdin = "open" /\ signals = {}
  /\ shutdown = [k \in Closers |-> "idle"]

Start ==
  /\ proc = "none" /\ proc' = "running"
  /\ UNCHANGED <<reaped, stdin, signals, shutdown>>

Exits ==
  /\ proc = "running" /\ proc' = "exited"
  /\ UNCHANGED <<reaped, stdin, signals, shutdown>>

\* The goroutine of Start.  What nobody has read from stdout by now is lost.
Reap ==
  /\ proc = "exited" /\ ~reaped /\ reaped' = TRUE
  /\ UNCHANGED <<proc, stdin, signals, shutdown>>

\* Stage 1: end of file on stdin.
ShutdownBegins(k) ==
  /\ shutdown[k] = "idle" /\ shutdown' = [shutdown EXCEPT ![k] = "eof"]
  /\ stdin' = "closed"
  /\ UNCHANGED <<proc, reaped, signals>>

\* waitWithin returns true.
ShutdownSeesExit(k) ==
  /\ shutdown[k] \in {"eof", "term", "kill"} /\ reaped
  /\ shutdown' = [shutdown EXCEPT ![k] = "returned"]
  /\ UNCHANGED <<proc, reaped, stdin, signals>>

\* waitWithin returns false: stages 2 and 3.
ShutdownTerm(k) ==
  /\ shutdown[k] = "eof" /\ shutdown' = [shutdown EXCEPT ![k] = "term"]
  /\ signals' = signals \cup {"SIGTERM"}
  /\ UNCHANGED <<proc, reaped, stdin>>

\* Seeded fault: the last stage does not wait.
FaultKillDoesNotWait(k) ==
  /\ shutdown[k] = "term" /\ shutdown' = [shutdown EXCEPT ![k] = "returned"]
  /\ signals' = signals \cup {"SIGKILL"}
  /\ UNCHANGED <<proc, reaped, stdin>>
ShutdownKill(k) ==
  /\ shutdown[k] = "term" /\ shutdown' = [shutdown EXCEPT ![k] = "kill"]
  /\ signals' = signals \cup {"SIGKILL"}
  /\ UNCHANGED <<proc, reaped, stdin>>

ShutdownProceeds(k) == ShutdownSeesExit(k) \/ ShutdownTerm(k) \/ ShutdownKill(k)

ProcTypeOK ==
  /\ proc \in {"none", "running", "exited"} /\ reaped \in BOOLEAN
  /\ stdin \in {"open", "closed"} /\ signals \subseteq {"SIGTERM", "SIGKILL"}
  /\ shutdown \in [Closers -> {"idle", "eof", "term", "kill", "returned"}]
=============================================================================
