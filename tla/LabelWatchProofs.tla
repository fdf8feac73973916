------------------------- MODULE LabelWatchProofs --------------------------
(***************************************************************************)
(* Proofs about LabelWatch, for every bound on label changes.              *)
(***************************************************************************)
EXTENDS LabelWatch, TLAPS

USE MaxLabelChangesAssumption

(***************************************************************************)
(* ClosedOnlyAfterQuit is not inductive: a Recv on a cancelled context     *)
(* ends the watcher, so the proof needs that the context is cancelled only *)
(* by the canceller after quitCh closed, or by WatchMatches itself after   *)
(* its first RPC failed, in which case there is no watcher.                *)
(***************************************************************************)
CancelledOnlyByQuit ==
  cancelled => quit \/ phase = "failed"

IInv ==
  /\ TypeOK
  /\ CancelledOnlyByQuit
  /\ ClosedOnlyAfterQuit

(* The initial state satisfies IInv. *)
LEMMA InitIInv == Init => IInv
<1> SUFFICES ASSUME Init PROVE IInv
  OBVIOUS
<1>1. resp \in Responses \cup {NoResp}
  BY Zenon DEF Init
<1>2. TypeOK
  <2>1. labels \in 0..MaxLabelChanges /\ seen \in 0..MaxLabelChanges
    BY DEF Init
  <2>2. phase \in Phases /\ canceller \in {"waiting", "done"}
    BY DEF Init, Phases
  <2>3. quit \in BOOLEAN /\ cancelled \in BOOLEAN
    BY DEF Init
  <2>4. QED
    BY <1>1, <2>1, <2>2, <2>3 DEF TypeOK
<1>3. QED
  BY <1>2 DEF Init, IInv, CancelledOnlyByQuit, ClosedOnlyAfterQuit

(* Every step of WatchMatches and its environment keeps IInv. *)
LEMMA IInvStep == IInv /\ [Next]_vars => IInv'
<1> SUFFICES ASSUME IInv, [Next]_vars PROVE IInv'
  OBVIOUS
<1> USE DEF IInv, TypeOK, Phases, CancelledOnlyByQuit, ClosedOnlyAfterQuit
<1>1. CASE CancelOnQuit
  BY <1>1 DEF CancelOnQuit
<1>2. ASSUME NEW ok \in BOOLEAN, OpenStream(ok) PROVE IInv'
  BY <1>2 DEF OpenStream
<1>3. ASSUME NEW r \in Responses \cup {NoResp}, Recv(r) PROVE IInv'
  BY <1>3 DEF Recv, Responses, NoResp
<1>4. CASE DropResponse \/ Deliver \/ AbandonOnQuit
  BY <1>4 DEF DropResponse, Deliver, AbandonOnQuit, Responses, NoResp
<1>5. CASE RetrySleep
  BY <1>5 DEF RetrySleep
<1>6. ASSUME NEW ok \in BOOLEAN, RestartStream(ok) PROVE IInv'
  BY <1>6 DEF RestartStream
<1>7. CASE Quit
  BY <1>7 DEF Quit
<1>8. CASE LabelChange
  BY <1>8 DEF LabelChange
<1>9. CASE Terminated \/ UNCHANGED vars
  BY <1>9 DEF Terminated, vars
<1>10. QED
  BY <1>1, <1>2, <1>3, <1>4, <1>5, <1>6, <1>7, <1>8, <1>9 DEF Next, Watcher

(***************************************************************************)
(* In every reachable state outCh is closed only once quitCh has been     *)
(* closed, and every variable is well typed.                               *)
(***************************************************************************)
THEOREM ClosedOnlyAfterQuitInvariant == Spec => [](TypeOK /\ ClosedOnlyAfterQuit)
<1>1. IInv => TypeOK /\ ClosedOnlyAfterQuit
  BY DEF IInv
<1>2. QED
  BY InitIInv, IInvStep, <1>1, PTL DEF Spec

=============================================================================
