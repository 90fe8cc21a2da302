------------------------ MODULE MCJSONRPCTransport ------------------------
(***************************************************************************)
(* Instances of JSONRPCTransport for TLC; the cfg files choose how many    *)
(* calls, reconnectors, connections and server requests there are.         *)
(***************************************************************************)
EXTENDS JSONRPCTransport, FiniteSets, TLC

\* Calls, and callers of Reconnect, are interchangeable: nothing orders them
\* (safety runs only).
Interchangeable == Permutations(Calls) \cup Permutations(Reconnectors)

\* The safety run explores two kinds of behaviour, each in every interleaving:
\* Calls around one Reconnect and a server that may drop the connection, and
\* two Reconnects over three connections with a server request in hand, of which
\* the first two may end by a message the read loop rejects.  Notifications come
\* and go on the first connection only, and no Notify holds writeMu: neither
\* touches what the others work with.
Holds(k, m) == m \in {wire[k].inbox[i] : i \in DOMAIN wire[k].inbox}
AroundCalls ==
  /\ opened <= 2 /\ Cardinality({r \in Reconnectors : rec[r].pc # "idle"}) <= 1
  /\ \A q \in ServerReqs : req[q].pc = "unsent"
  /\ \A k \in Conns : ~Holds(k, Malformed)
AroundRequests ==
  /\ \A c \in Calls : call[c].pc = "start"
  /\ \A k \in Conns : wire[k].state # "dropped" /\ (Holds(k, Malformed) => k <= 2)
Notes ==
  \/ notes # <<>>
  \/ \E k \in Conns : Holds(k, Note) \/ (loop[k].pc = "push" /\ loop[k].msg = Note)
CallsOrRequests ==
  /\ writeMu.conn # NoConn => writeMu.by # None
  /\ AroundCalls \/ AroundRequests
  /\ Notes => AroundCalls /\ AroundRequests /\ opened = 1
=============================================================================
