---------------------------- MODULE Interaction ----------------------------
(***************************************************************************)
(* Which handler a server request goes to, and what it can be answered     *)
(* with (interaction.go, requestLoop in client.go).                        *)
(*                                                                         *)
(* A handler is [kind, has]: nil ("none"), an approvalHandlerAdapter       *)
(* ("approval"), or a Dispatcher ("dispatcher") with the fields in has.    *)
(***************************************************************************)

Methods == {"exec", "file", "permissions", "input", "mcp", "tool", "other"}
Fields  == {"exec", "file", "mcp", "tool", "fallback"}
Handlers == [kind : {"none", "approval"}, has : {{}}]
              \cup [kind : {"dispatcher"}, has : SUBSET Fields]

\* What the application's own code may answer.
Asked == {"accept", "decline", "error"}

\* DecodeServerRequest knows mcp too, but the adapter has no case for it.
ApprovalAnswers(m) ==
  IF m \in {"exec", "file", "permissions", "input"} THEN Asked ELSE {"error"}

\* Seeded fault: a missing handler lets everything through.
FaultDispatcherAccepts(has, m) == IF m \in has THEN Asked ELSE {"accept"}
DispatcherAnswers(has, m) ==
  CASE m \in has                                        -> Asked
    [] m \notin has /\ m \in {"exec", "file", "mcp"}    -> {"decline"}
    [] m \notin has /\ m = "tool"                       -> {"empty"}
    [] m \in {"permissions", "input", "other"}          ->
         IF "fallback" \in has THEN Asked ELSE {"error"}

\* requestLoop: without a handler the reply is an error.
Answers(handler, m) ==
  CASE handler.kind = "none"       -> {"error"}
    [] handler.kind = "approval"   -> ApprovalAnswers(m)
    [] handler.kind = "dispatcher" -> DispatcherAnswers(handler.has, m)
=============================================================================
