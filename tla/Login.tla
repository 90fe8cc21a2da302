------------------------------- MODULE Login -------------------------------
(***************************************************************************)
(* Interactive logins (account.go) on the event broker.  A login is        *)
(* started by a Call; the server announces its end by an event, and        *)
(* LoginHandle.Wait waits for that event on a subscription of its own.     *)
(*                                                                         *)
(* The name of a login stands for the subscription of its Wait and for the *)
(* event account/login/completed with its id.  Cancel is a Call and no     *)
(* more: what comes of it is that event.                                   *)
(***************************************************************************)
EXTENDS EventBroker

CONSTANTS Logins,  \* the logins
          AnyLogin \* account/login/completed without an id

ASSUME LoginAssumption ==
  Logins \subseteq Subs \cap Events /\ AnyLogin \in Events \ Logins

VARIABLES started, \* the logins there is a LoginHandle for
          wait     \* where Wait is, for each login, and what it returns

loginVars == <<vars, started, wait>>

LoginInit ==
  /\ Init /\ started = {}
  /\ wait = [h \in Logins |-> [pc |-> "idle", result |-> "none"]]

\* account/login/start has returned an id.  Otherwise there is no handle.
startInteractiveLogin(h) ==
  /\ h \notin started /\ started' = started \cup {h}
  /\ UNCHANGED <<vars, wait>>

WaitSubscribes(h) ==
  /\ wait[h].pc = "idle" /\ h \in started /\ Subscribes(h)
  /\ wait' = [wait EXCEPT ![h].pc = "select"] /\ UNCHANGED started

Leaves(h, r) == wait' = [wait EXCEPT ![h] = [pc |-> "leave", result |-> r]]

\* Seeded fault: a completion without an id is nobody's.
FaultMatchesOwnId(h, e) == e = h
\* "A null loginId on the notification matches any pending attempt."
Matches(h, e) == e \in {h, AnyLogin}

WaitReceives(h) ==
  /\ wait[h].pc = "select" /\ Receives(h)
  /\ IF Matches(h, Oldest(broker, h)) THEN Leaves(h, "completed") ELSE UNCHANGED wait
  /\ UNCHANGED started

WaitClosed(h) ==
  /\ wait[h].pc = "select" /\ Exhausted(broker, h) /\ Leaves(h, "closed")
  /\ UNCHANGED <<vars, started>>

WaitCancelled(h) ==
  /\ wait[h].pc = "select" /\ Leaves(h, "cancelled")
  /\ UNCHANGED <<vars, started>>

\* The deferred sub.Close.
WaitReturns(h) ==
  /\ wait[h].pc = "leave" /\ Unsubscribes(h)
  /\ wait' = [wait EXCEPT ![h].pc = "returned"] /\ UNCHANGED started

\* A login ends once.  The event may come at any time: before the Call that
\* starts the login returns, or before Wait is called.
LoginCompletes(h) ==
  /\ \A i \in 1..Len(log) : log[i] # h
  /\ Publishes(h) /\ UNCHANGED <<started, wait>>

WaitStep(h) == WaitReceives(h) \/ WaitClosed(h) \/ WaitReturns(h)

LoginNext ==
  \/ \E h \in Logins :
       \/ startInteractiveLogin(h) \/ WaitSubscribes(h) \/ WaitStep(h)
       \/ WaitCancelled(h) \/ LoginCompletes(h)
  \/ /\ \/ \E s \in Subs \ Logins : Subscribes(s) \/ Receives(s) \/ Unsubscribes(s)
        \/ \E e \in Events \ Logins : Publishes(e)
        \/ Closes
     /\ UNCHANGED <<started, wait>>

\* A Wait that can go on does.
LoginSpec ==
  LoginInit /\ [][LoginNext]_loginVars /\ \A h \in Logins : WF_loginVars(WaitStep(h))

-----------------------------------------------------------------------------
\* The end of login h has been published since its Wait subscribed.
Completed(h) == \E i \in from[h] + 1 .. Len(log) : log[i] \in {h, AnyLogin}

\* Wait returns once the login has ended or the broker is closed, however many
\* other events, and ends of other logins, come before; and it never takes
\* another event for the end of its login.  Only an end that was published
\* before Wait subscribed is not seen.
WaitSeesTheEnd ==
  \A h \in Logins :
    /\ (wait[h].pc = "select" /\ (Completed(h) \/ broker.closed)) ~> wait[h].pc = "returned"
    /\ [](wait[h].result = "completed" => Completed(h))

=============================================================================
