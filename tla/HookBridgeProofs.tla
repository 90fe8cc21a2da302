-------------------------- MODULE HookBridgeProofs --------------------------
(***************************************************************************)
(* Close of the hook bridge leaves at most one connection behind, for any  *)
(* number of hooks and of callers of Close.                                *)
(*                                                                         *)
(* The argument is about the WaitGroup: its counter is the number of       *)
(* connections between wg.Add and wg.Done, so a waiter that wakes up, or   *)
(* finds it at zero, knows that nothing is in hand but what the accept     *)
(* loop holds between Accept and wg.Add: one connection, as the loop is    *)
(* one goroutine, and the last, as the socket is closed by then.           *)
(***************************************************************************)
EXTENDS HookBridge, FiniteSetTheorems, TLAPS

\* The connections between wg.Add and wg.Done.
Counted == {s \in Shims : conn[s] \in {"scan", "dispatch", "respond", "closed"}}

Types ==
  /\ open \in BOOLEAN /\ done \in BOOLEAN /\ panicked \in BOOLEAN
  /\ serve \in {"accept", "accepted", "ended"}
  /\ wg \in Nat
  /\ closer \in [Closers ->
       {"idle", "closing", "closed", "waiting", "woken", "returned"}]
  /\ conn \in [Shims -> {"none", "queued", "reset", "accepted", "scan",
                         "dispatch", "respond", "closed", "finished"}]
  /\ answer \in [Shims -> {"none", "allow", "block"}]
  /\ shim \in [Shims ->
       {"start", "refused", "dialled", "reading", "answered", "failed"}]
  /\ handler \in BOOLEAN /\ decides \in [Shims -> {"unasked", "allow", "block", ""}]
  /\ readable \in SUBSET Shims /\ whole \in SUBSET readable

WgCounts == wg = Cardinality(Counted)

\* The accept loop holds at most one connection.
OneAccepted ==
  /\ \A s \in Shims : conn[s] = "accepted" => serve = "accepted"
  /\ \A s, t \in Shims : conn[s] = "accepted" /\ conn[t] = "accepted" => s = t

\* Close closes the socket first, and with it what was queued.
ClosedFirst ==
  /\ \A s \in Shims : conn[s] = "queued" => open
  /\ \A k \in Closers : closer[k] # "idle" => ~open
  /\ panicked \/ done => ~open

Through == panicked \/ \E k \in Closers : closer[k] \in {"woken", "returned"}
LastInHand == Through => \A s, t \in InHand : s = t

\* A shim dials once.
Fresh == \A s \in Shims : shim[s] = "start" => conn[s] = "none"

Inv == Types /\ Fresh /\ WgCounts /\ OneAccepted /\ ClosedFirst /\ LastInHand

-----------------------------------------------------------------------------
(* The counter. *)

LEMMA CountedFinite ==
  /\ IsFiniteSet(Counted) /\ Cardinality(Counted) \in Nat
  /\ Cardinality(Counted) <= Cardinality(Shims)
  /\ Cardinality(Shims) \in Nat
<1>1. Counted \subseteq Shims
  BY DEF Counted
<1> QED
  BY <1>1, HookBridgeAssumption, FS_Subset, FS_CardinalityType

\* A counter at zero means that no connection is counted.
LEMMA CountedEmpty ==
  ASSUME WgCounts, wg = 0
  PROVE  Counted = {}
<1> QED
  BY CountedFinite, FS_EmptySet DEF WgCounts

\* A counter at one means that a counted connection is the only one.
LEMMA CountedLast ==
  ASSUME WgCounts, wg = 1, NEW s \in Counted
  PROVE  \A t \in Counted : t = s
<1>1. PICK x : Counted = {x}
  BY CountedFinite, FS_Singleton DEF WgCounts
<1> QED
  BY <1>1

-----------------------------------------------------------------------------
(* The invariant is inductive. *)

LEMMA InvInit == Init => Inv
<1> SUFFICES ASSUME Init PROVE Inv
  OBVIOUS
<1>1. Types
  BY DEF Init, Types
<1>2. Counted = {}
  BY DEF Init, Counted
<1>3. WgCounts
  BY <1>2, FS_EmptySet DEF Init, WgCounts
<1>4. OneAccepted /\ ClosedFirst /\ Fresh
  BY DEF Init, OneAccepted, ClosedFirst, Fresh
<1>5. LastInHand
  BY DEF Init, LastInHand, Through
<1> QED
  BY <1>1, <1>3, <1>4, <1>5 DEF Inv

LEMMA TypesStep == Types /\ Fresh /\ WgCounts /\ [Next]_vars => Types' /\ Fresh'
<1> SUFFICES ASSUME Types, Fresh, WgCounts, [Next]_vars PROVE Types' /\ Fresh'
  OBVIOUS
<1>a. wg \in Nat
  BY DEF Types
<1>b. ASSUME NEW s \in Shims, AddConn(s) PROVE wg' \in Nat
  BY <1>a, <1>b DEF AddConn
<1>c. ASSUME NEW s \in Shims, Done(s) PROVE wg' \in Nat
  <2>1. s \in Counted
    BY <1>c DEF Done, Counted
  <2>2. wg # 0
    BY <2>1, CountedEmpty
  <2> QED
    BY <1>a, <1>c, <2>2 DEF Done
<1> USE DEF Types, Fresh, inputs
<1>1. ASSUME NEW s \in Shims, ShimGivesUp(s) PROVE Types' /\ Fresh'
  BY <1>1 DEF ShimGivesUp
<1>2. ASSUME NEW s \in Shims, ShimDials(s) PROVE Types' /\ Fresh'
  BY <1>2 DEF ShimDials
<1>3. ASSUME NEW s \in Shims, ShimWrites(s) PROVE Types' /\ Fresh'
  BY <1>3 DEF ShimWrites
<1>4. ASSUME NEW s \in Shims, ShimReads(s) PROVE Types' /\ Fresh'
  <2>1. PICK pc \in {"answered", "failed"} : shim' = [shim EXCEPT ![s] = pc]
    BY <1>4 DEF ShimReads
  <2> QED
    BY <1>4, <2>1 DEF ShimReads
<1>5. ASSUME NEW s \in Shims, ShimReset(s) PROVE Types' /\ Fresh'
  BY <1>5 DEF ShimReset
<1>6. ASSUME NEW s \in Shims, ShimCutOff(s) PROVE Types' /\ Fresh'
  <2>1. PICK pc \in {"answered", "failed"} : shim' = [shim EXCEPT ![s] = pc]
    BY <1>6 DEF ShimCutOff
  <2> QED
    BY <1>6, <2>1 DEF ShimCutOff
<1>7. ASSUME NEW s \in Shims, Accept(s) PROVE Types' /\ Fresh'
  BY <1>7 DEF Accept
<1>8. ASSUME NEW s \in Shims, AddConn(s) PROVE Types' /\ Fresh'
  <2>1. wg' \in Nat
    BY <1>8, <1>b
  <2>2. conn' \in [Shims -> {"none", "queued", "reset", "accepted", "scan",
                            "dispatch", "respond", "closed", "finished"}]
    BY <1>8 DEF AddConn
  <2> QED
    BY <1>8, <2>1, <2>2 DEF AddConn
<1>9. ASSUME NEW s \in Shims, Scan(s) PROVE Types' /\ Fresh'
  BY <1>9 DEF Scan
<1>10. ASSUME NEW s \in Shims, Dispatch(s) PROVE Types' /\ Fresh'
  <2>1. PICK decision \in {"allow", "block", ""} :
          /\ decides' = [decides EXCEPT ![s] = decision]
          /\ answer' = [answer EXCEPT ![s] = dispatch(decision)]
    BY <1>10 DEF Dispatch
  <2>2. dispatch(decision) \in {"allow", "block"}
    BY DEF dispatch
  <2> QED
    BY <1>10, <2>1, <2>2 DEF Dispatch
<1>11. ASSUME NEW s \in Shims, Respond(s) PROVE Types' /\ Fresh'
  BY <1>11 DEF Respond
<1>12. ASSUME NEW s \in Shims, Done(s) PROVE Types' /\ Fresh'
  <2>3. wg' \in Nat
    BY <1>12, <1>c
  <2>4. closer' \in [Closers ->
          {"idle", "closing", "closed", "waiting", "woken", "returned"}]
    BY <1>12 DEF Done
  <2>5. conn' \in [Shims -> {"none", "queued", "reset", "accepted", "scan",
                            "dispatch", "respond", "closed", "finished"}]
    BY <1>12 DEF Done
  <2> QED
    BY <1>12, <2>3, <2>4, <2>5 DEF Done
<1>13. ASSUME AcceptFails PROVE Types' /\ Fresh'
  BY <1>13 DEF AcceptFails
<1>14. ASSUME NEW k \in Closers, CloseListener(k) PROVE Types' /\ Fresh'
  BY <1>14 DEF CloseListener
<1>15. ASSUME NEW k \in Closers, CloseDone(k) PROVE Types' /\ Fresh'
  BY <1>15 DEF CloseDone
<1>16. ASSUME NEW k \in Closers, CloseAgain(k) PROVE Types' /\ Fresh'
  BY <1>16 DEF CloseAgain
<1>17. ASSUME NEW k \in Closers, CloseWaits(k) PROVE Types' /\ Fresh'
  BY <1>17 DEF CloseWaits
<1>18. ASSUME NEW k \in Closers, CloseWakes(k) PROVE Types' /\ Fresh'
  BY <1>18 DEF CloseWakes
<1>19. CASE UNCHANGED vars
  BY <1>19 DEF vars
<1> QED
  BY <1>1, <1>2, <1>3, <1>4, <1>5, <1>6, <1>7, <1>8, <1>9, <1>10, <1>11, <1>12, <1>13,
     <1>14, <1>15, <1>16, <1>17, <1>18, <1>19
     DEF Next, ShimStep, HandleConn, CloseStep

LEMMA WgCountsStep == Inv /\ [Next]_vars => WgCounts'
<1> SUFFICES ASSUME Inv, [Next]_vars PROVE WgCounts'
  OBVIOUS
<1> USE DEF Inv
<1>1. ASSUME NEW s \in Shims, AddConn(s) PROVE WgCounts'
  <2>1. s \notin Counted /\ Counted' = Counted \cup {s}
    BY <1>1 DEF AddConn, Counted, Types
  <2> QED
    BY <1>1, <2>1, CountedFinite, FS_AddElement DEF AddConn, WgCounts
<1>2. ASSUME NEW s \in Shims, Done(s) PROVE WgCounts'
  <2>1. s \in Counted /\ Counted' = Counted \ {s}
    BY <1>2 DEF Done, Counted, Types
  <2> QED
    BY <1>2, <2>1, CountedFinite, FS_RemoveElement DEF Done, WgCounts
<1>3. ASSUME NEW s \in Shims, ShimDials(s) PROVE WgCounts'
  <2>1. Counted' = Counted
    BY <1>3 DEF ShimDials, Counted, Types, Fresh
  <2> QED
    BY <1>3, <2>1 DEF ShimDials, WgCounts
<1>4. ASSUME NEW s \in Shims, Accept(s) \/ Scan(s) \/ Dispatch(s) \/ Respond(s)
      PROVE  WgCounts'
  <2>1. Counted' = Counted
    BY <1>4, ZenonT(40) DEF Accept, Scan, Dispatch, Respond, Counted, Types
  <2> QED
    BY <1>4, <2>1 DEF Accept, Scan, Dispatch, Respond, WgCounts
<1>5. ASSUME NEW k \in Closers, CloseListener(k) PROVE WgCounts'
  <2>1. Counted' = Counted
    BY <1>5 DEF CloseListener, Counted, Types
  <2> QED
    BY <1>5, <2>1 DEF CloseListener, WgCounts
<1>6. ASSUME UNCHANGED <<wg, conn>> PROVE WgCounts'
  BY <1>6 DEF WgCounts, Counted
<1> QED
  BY <1>1, <1>2, <1>3, <1>4, <1>5, <1>6
     DEF Next, ShimStep, HandleConn, CloseStep, ShimGivesUp, ShimWrites, ShimReads,
         ShimReset, ShimCutOff, AcceptFails, CloseDone, CloseAgain, CloseWaits,
         CloseWakes, vars

LEMMA SocketStep == Inv /\ [Next]_vars => OneAccepted' /\ ClosedFirst'
<1> SUFFICES ASSUME Inv, [Next]_vars PROVE OneAccepted' /\ ClosedFirst'
  OBVIOUS
<1> USE DEF Inv, Types, OneAccepted, ClosedFirst
<1>1. ASSUME NEW s \in Shims, ShimDials(s) PROVE OneAccepted' /\ ClosedFirst'
  BY <1>1 DEF ShimDials
<1>2. ASSUME NEW s \in Shims, Accept(s) PROVE OneAccepted' /\ ClosedFirst'
  BY <1>2, ZenonT(40) DEF Accept
<1>3. ASSUME NEW s \in Shims, AddConn(s) PROVE OneAccepted' /\ ClosedFirst'
  BY <1>3 DEF AddConn
<1>4. ASSUME NEW s \in Shims, Scan(s) \/ Dispatch(s) \/ Respond(s)
      PROVE  OneAccepted' /\ ClosedFirst'
  <2>1. /\ UNCHANGED <<open, done, serve, closer, panicked>>
        /\ \A t \in Shims : conn'[t] \in {"accepted", "queued"} => conn'[t] = conn[t]
    BY <1>4 DEF Scan, Dispatch, Respond
  <2> QED
    BY <2>1
<1>5. ASSUME NEW s \in Shims, Done(s) PROVE OneAccepted' /\ ClosedFirst'
  <2>1. \A k \in Closers : closer'[k] # "idle" => closer[k] # "idle"
    BY <1>5 DEF Done
  <2> QED
    BY <1>5, <2>1 DEF Done
<1>6. ASSUME AcceptFails PROVE OneAccepted' /\ ClosedFirst'
  BY <1>6 DEF AcceptFails
<1>7. ASSUME NEW k \in Closers, CloseListener(k) PROVE OneAccepted' /\ ClosedFirst'
  BY <1>7 DEF CloseListener
<1>8. ASSUME NEW k \in Closers, CloseDone(k) \/ CloseAgain(k) \/ CloseWaits(k)
      PROVE  OneAccepted' /\ ClosedFirst'
  <2>1. CASE CloseDone(k)
    BY <2>1 DEF CloseDone
  <2>2. CASE CloseAgain(k)
    BY <2>2 DEF CloseAgain
  <2>3. CASE CloseWaits(k)
    BY <2>3 DEF CloseWaits
  <2> QED
    BY <1>8, <2>1, <2>2, <2>3
<1>9. ASSUME NEW k \in Closers, CloseWakes(k) PROVE OneAccepted' /\ ClosedFirst'
  BY <1>9 DEF CloseWakes
<1>10. ASSUME UNCHANGED <<open, done, serve, closer, panicked, conn>>
       PROVE  OneAccepted' /\ ClosedFirst'
  BY <1>10
<1> QED
  BY <1>1, <1>2, <1>3, <1>4, <1>5, <1>6, <1>7, <1>8, <1>9, <1>10
     DEF Next, ShimStep, HandleConn, CloseStep, ShimGivesUp, ShimWrites, ShimReads,
         ShimReset, ShimCutOff, vars

\* Nothing is accepted once a Close is past its wait, and what was in hand
\* only gets less.
LEMMA LastInHandStep == Inv /\ [Next]_vars => LastInHand'
<1> SUFFICES ASSUME Inv, [Next]_vars, Through' PROVE (\A s, t \in InHand : s = t)'
  BY DEF LastInHand
<1> USE DEF Inv
<1>0. Through => ~open
  BY DEF Through, ClosedFirst
<1>1. ASSUME Through PROVE (\A s, t \in InHand : s = t)'
  <2>1. InHand' \subseteq InHand
    <3> USE DEF InHand, Types
    <3>1. ASSUME NEW s \in Shims, ShimDials(s) PROVE InHand' \subseteq InHand
      BY <3>1 DEF ShimDials
    <3>2. ASSUME NEW s \in Shims, Accept(s) PROVE InHand' \subseteq InHand
      BY <1>0, <1>1, <3>2 DEF Accept
    <3>3. ASSUME NEW s \in Shims, AddConn(s) PROVE InHand' \subseteq InHand
      BY <3>3 DEF AddConn
    <3>4. ASSUME NEW s \in Shims, HandleConn(s) PROVE InHand' \subseteq InHand
      BY <3>4 DEF HandleConn, Scan, Dispatch, Respond, Done
    <3>5. ASSUME NEW k \in Closers, CloseListener(k) PROVE InHand' \subseteq InHand
      BY <3>5 DEF CloseListener
    <3>6. ASSUME UNCHANGED conn PROVE InHand' \subseteq InHand
      BY <3>6
    <3> QED
      BY <3>1, <3>2, <3>3, <3>4, <3>5, <3>6
         DEF Next, ShimStep, CloseStep, ShimGivesUp, ShimWrites, ShimReads, ShimReset,
             ShimCutOff, AcceptFails, CloseDone, CloseAgain, CloseWaits, CloseWakes, vars
  <2> QED
    BY <1>1, <2>1 DEF LastInHand
<1>2. ASSUME ~Through, NEW s \in Shims, Done(s) PROVE (\A u, t \in InHand : u = t)'
  <2>1. wg = 1
    BY <1>2 DEF Through, Done
  <2>2. \A t \in Counted : t = s
    <3>1. s \in Counted
      BY <1>2 DEF Done, Counted
    <3> QED
      BY <2>1, <3>1, CountedLast
  <2>3. \A t \in InHand' : conn[t] = "accepted"
    BY <1>2, <2>2 DEF Done, InHand, Counted, Types
  <2> QED
    BY <2>3 DEF OneAccepted, InHand
<1>3. ASSUME ~Through, NEW k \in Closers, CloseWaits(k)
      PROVE  (\A s, t \in InHand : s = t)'
  <2>1. wg = 0
    BY <1>3 DEF Through, CloseWaits, Types
  <2>2. \A t \in InHand' : conn[t] = "accepted"
    BY <1>3, <2>1, CountedEmpty DEF CloseWaits, InHand, Counted
  <2> QED
    BY <2>2 DEF OneAccepted, InHand
<1>4. ASSUME ~Through, ~\E s \in Shims : Done(s), ~\E k \in Closers : CloseWaits(k)
      PROVE  FALSE
  <2>1. ASSUME NEW k \in Closers, CloseListener(k) \/ CloseDone(k) \/ CloseAgain(k) PROVE FALSE
    BY <1>4, <2>1, ZenonT(40) DEF Through, CloseListener, CloseDone, CloseAgain, Types
  <2>2. ASSUME NEW k \in Closers, CloseWakes(k) PROVE FALSE
    BY <1>4, <2>2 DEF Through, CloseWakes
  <2>3. ASSUME UNCHANGED <<closer, panicked>> PROVE FALSE
    BY <1>4, <2>3 DEF Through
  <2>4. ASSUME NEW s \in Shims, AddConn(s) PROVE FALSE
    <3>1. panicked' = FALSE /\ closer' = closer
      BY <1>4, <2>4 DEF AddConn, Through
    <3> QED
      BY <1>4, <3>1 DEF Through
  <2> QED
    BY <1>4, <2>1, <2>2, <2>3, <2>4
       DEF Next, ShimStep, HandleConn, CloseStep, ShimGivesUp, ShimDials, ShimWrites,
           ShimReads, ShimReset, ShimCutOff, Accept, Scan, Dispatch, Respond,
           AcceptFails, vars
<1> QED
  BY <1>1, <1>2, <1>3, <1>4

\* The WaitGroup counts the connections between wg.Add and wg.Done, the accept loop
\* holds at most one more, and the socket is closed before Close waits.
THEOREM Invariant == Spec => []Inv
<1>1. Inv /\ [Next]_vars => Inv'
  BY TypesStep, WgCountsStep, SocketStep, LastInHandStep DEF Inv
<1> QED
  BY <1>1, InvInit, PTL DEF Spec

-----------------------------------------------------------------------------
(* What it gives. *)

\* Type invariant: the WaitGroup of listener.go counts at most one per
\* connection, and never falls below zero (it would panic).
THEOREM TypeCorrect == Spec => []TypeOK
<1>1. Inv => TypeOK
  <2> SUFFICES ASSUME Inv PROVE TypeOK
    OBVIOUS
  <2>1. wg \in 0..Cardinality(Shims)
    BY CountedFinite DEF Inv, WgCounts
  <2> QED
    BY <2>1 DEF Inv, Types, TypeOK
<1> QED
  BY <1>1, Invariant, PTL

\* When a Close of the listener has returned, or has panicked in wg.Wait, at
\* most one connection is still in hand and no other can come, however many
\* hooks fire and however many goroutines call Close.
THEOREM OneOutlivesClose == Spec => []OnlyOneOutlivesClose
<1>1. Inv => OnlyOneOutlivesClose
  <2> SUFFICES ASSUME Inv, panicked \/ \E k \in Closers : closer[k] = "returned"
               PROVE  ~open /\ Cardinality(InHand) <= 1
    BY DEF OnlyOneOutlivesClose
  <2>1. Through /\ ~open
    BY DEF Inv, Through, ClosedFirst
  <2>2. \A s, t \in InHand : s = t
    BY <2>1 DEF Inv, LastInHand
  <2>3. CASE InHand = {}
    BY <2>1, <2>3, FS_EmptySet
  <2>4. CASE InHand # {}
    <3>1. PICK s : InHand = {s}
      BY <2>2, <2>4
    <3> QED
      BY <2>1, <3>1, FS_Singleton
  <2> QED
    BY <2>3, <2>4
<1> QED
  BY <1>1, Invariant, PTL

=============================================================================
