--------------------------- MODULE MCReconnecting ---------------------------
(***************************************************************************)
(* The instance of Reconnecting for TLC.  Calls, notifications and server  *)
(* requests meet only in the connections they use, so each of them has     *)
(* worlds of its own.                                                      *)
(***************************************************************************)
EXTENDS Reconnecting

MCWorlds ==
  [kind : {"ws", "http"}, calls : {Calls}, streams : {{}}]
    \cup [kind : {"ws", "http"}, calls : {{}}, streams : {{"notes"}, {"requests"}}]
=============================================================================
