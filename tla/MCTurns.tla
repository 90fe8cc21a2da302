------------------------------ MODULE MCTurns ------------------------------
(* The instances of Turns: every bound is a constant of the .cfg files. The
   runs have one invocation of each method, so there is no symmetry to use. *)
EXTENDS Turns

\* The safety run explores two kinds of behaviour, each in every interleaving: a
\* Run whose turn has items, alone and with everything that may happen to it, and
\* all the callers together, with at most one event of the stream's turn before
\* its end, no Run cancelled and the connection not lost.
Begun(r) == run[r].pc # (IF r \in Waiters THEN "start" ELSE "idle")
RunAlone == \A r \in Streams \cup Waiters : ~Begun(r)
Together ==
  /\ \A r \in Runs : turn[r].events = 0 /\ r \notin cancelled
  /\ \A r \in Streams : turn[r].events <= 1
  /\ link # "down"
ItemsOrCallers == RunAlone \/ Together
=============================================================================
