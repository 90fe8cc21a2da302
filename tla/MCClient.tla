------------------------------ MODULE MCClient ------------------------------
(***************************************************************************)
(* The instance of Client for TLC, as a set of worlds, each about one      *)
(* thing: the order of the options, the handshake of New, concurrent       *)
(* Closes with a full notes channel, server requests, threads.             *)
(***************************************************************************)
EXTENDS Client

CONSTANTS n1, n2, q1

World(options, calls, closers, sends) ==
  [options |-> options, calls |-> calls, closers |-> closers, sends |-> sends]

OtherOptions ==
  Named({"WithTransport", "WithStdioTransport", "WithHTTPTransport", "WithWSTransport",
         "WithReconnectingHTTPTransport", "WithHTTPBearerToken", "WithWSBearerToken",
         "WithRetry"})
Process == Option("WithStdioProcess", {})
Dispatcher == Option("WithRequestHandler", {"exec"})
Approver == Option("WithApprovalHandler", {})

MCWorlds ==
  {World(options, {}, {}, {}) : options \in [1..3 -> OtherOptions] \cup {<<>>}} \cup
  { World(<<Process, Option("WithAutoLogin", {})>>, {}, {"new"}, {n1, Garbage}),
    World(<<Option("WithWSTransport", {}), Process>>, {}, {"new", "k1", "k2"}, {n1, n2}),
    World(<<Dispatcher, Process>>, {}, {"k1"}, {q1, n1}),
    World(<<Process, Approver>>, {}, {"new"}, {q1}),
    World(<<Process>>, {}, {"new"}, {q1}),
    World(<<Process>>, {"s1", "s2"}, {"k1"}, {Garbage}) }
=============================================================================
