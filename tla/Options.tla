------------------------------ MODULE Options ------------------------------
(***************************************************************************)
(* The options of New (options.go), which New applies in the order they    *)
(* are given: each is a function on clientConfig, and those that name a    *)
(* connection open it at once.                                             *)
(***************************************************************************)
EXTENDS Integers, Sequences, Interaction

Option(name, has) == [name |-> name, has |-> has] \* has: the fields of a Dispatcher
Named(names) == {Option(name, {}) : name \in names}

\* Options that open a connection; those of WSOptions dial, and so may fail.
HTTPOptions == Named({"WithHTTPTransport", "WithReconnectingHTTPTransport"})
WSOptions ==
  Named({"WithWSTransport", "WithReconnectingWSTransport", "WithUnixSocketWSTransport"})
InnerOptions == HTTPOptions \cup WSOptions

AllOptions ==
  InnerOptions \cup Named({"WithTransport", "WithStdioTransport", "WithStdioProcess",
    "WithHTTPBearerToken", "WithWSBearerToken", "WithRetry", "WithAutoLogin",
    "WithApprovalHandler"}) \cup {Option("WithRequestHandler", has) : has \in SUBSET Fields}

NoTransport == [by |-> "none", auth |-> FALSE]
clientConfig ==
  [transport |-> NoTransport, inner |-> NoTransport, process |-> FALSE, autoInit |-> FALSE,
   login |-> FALSE, httpAuth |-> FALSE, wsAuth |-> FALSE, retry |-> FALSE,
   handler |-> [kind |-> "none", has |-> {}]]

\* Seeded fault: the headers of the other kind of transport.
FaultOpenedMixesHeaders(cfg, o) ==
  [by |-> o.name, auth |-> IF o \in HTTPOptions THEN cfg.wsAuth ELSE cfg.httpAuth]
\* The connection an option opens, with the headers there are by now.
Opened(cfg, o) ==
  [by |-> o.name, auth |-> IF o \in HTTPOptions THEN cfg.httpAuth ELSE cfg.wsAuth]

Apply(cfg, o) ==
  CASE o \in InnerOptions -> [cfg EXCEPT !.inner = Opened(cfg, o), !.autoInit = TRUE]
    [] o.name = "WithTransport" -> [cfg EXCEPT !.transport.by = o.name, !.autoInit = TRUE]
    [] o.name = "WithStdioTransport"  -> [cfg EXCEPT !.transport.by = o.name]
    [] o.name = "WithStdioProcess"    -> [cfg EXCEPT !.process = TRUE, !.autoInit = TRUE]
    [] o.name = "WithHTTPBearerToken" -> [cfg EXCEPT !.httpAuth = TRUE]
    [] o.name = "WithWSBearerToken"   -> [cfg EXCEPT !.wsAuth = TRUE]
    [] o.name = "WithRetry"           -> [cfg EXCEPT !.retry = TRUE]
    [] o.name = "WithAutoLogin"       -> [cfg EXCEPT !.login = TRUE]
    [] o.name = "WithApprovalHandler" ->
         [cfg EXCEPT !.handler = [kind |-> "approval", has |-> {}]]
    [] o.name = "WithRequestHandler"  ->
         [cfg EXCEPT !.handler = [kind |-> "dispatcher", has |-> o.has]]

\* New puts the transport together once all options have been applied.
Transport(by, auth, retry) == [by |-> by, auth |-> auth, retry |-> retry]
Chosen(cfg) ==
  IF cfg.process THEN Transport("WithStdioProcess", FALSE, FALSE)
  ELSE IF cfg.inner # NoTransport THEN Transport(cfg.inner.by, cfg.inner.auth, cfg.retry)
  ELSE IF cfg.transport # NoTransport THEN Transport(cfg.transport.by, FALSE, FALSE)
  ELSE Transport("os.Stdin", FALSE, FALSE)
=============================================================================
