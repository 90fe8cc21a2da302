-------------------------------- MODULE RPC --------------------------------
(***************************************************************************)
(* What every transport promises the caller of Call, whatever it is built  *)
(* on (the Transport interface of internal/transport/transport.go): a Call *)
(* returns at most once; it returns a result only if the server has        *)
(* answered this very Call, and ErrClosed only if the transport has come   *)
(* to its end, which is for good.  Any other error may come at any time.   *)
(***************************************************************************)
CONSTANT Calls

VARIABLES answered, \* the calls the server has answered
          over,     \* the transport has come to its end
          result    \* what each Call returned, "none" before it does

vars == <<answered, over, result>>

Init == answered = {} /\ over = FALSE /\ result = [c \in Calls |-> "none"]

Answer(c) == answered' = answered \cup {c} /\ UNCHANGED <<over, result>>

End == over' = TRUE /\ UNCHANGED <<answered, result>>

Return(c, r) ==
  /\ result[c] = "none"
  /\ r = "response" => c \in answered
  /\ r = "ErrClosed" => over
  /\ result' = [result EXCEPT ![c] = r]
  /\ UNCHANGED <<answered, over>>

Next ==
  \/ End
  \/ \E c \in Calls : Answer(c) \/ \E r \in {"response", "ErrClosed", "error"} : Return(c, r)

Spec == Init /\ [][Next]_vars
=============================================================================
