------------------------ MODULE HealthMonitorProofs ------------------------
(***************************************************************************)
(* Proofs about HealthMonitor, for every set of pods, ports and codes and  *)
(* every bound.                                                            *)
(***************************************************************************)
EXTENDS HealthMonitor, TLAPS

USE IdsAssumption, PortsAssumption, CodesAssumption, BoundsAssumption

-----------------------------------------------------------------------------
(***************************************************************************)
(* Type correctness.                                                       *)
(***************************************************************************)

(* resultFromCheck always returns a status and an error flag. *)
LEMMA ResultFromCheckType ==
  ASSUME NEW o \in Outcomes
  PROVE  ResultFromCheck(o) \in CheckResults
BY DEF Outcomes, ResultFromCheck, CheckResults, Statuses

(* Every step of the monitor keeps every variable in its type. *)
LEMMA TypeOKStep == TypeOK /\ [Next]_vars => TypeOK'
<1> SUFFICES ASSUME TypeOK, [Next]_vars PROVE TypeOK'
  OBVIOUS
<1>1. ASSUME NEW ok \in BOOLEAN, UpdateHealthMonitors(ok) PROVE TypeOK'
  <2> DEFINE snap == Fetched(ok)
  <2>1. snap \in [Ids -> Ports \cup {Absent}]
    BY DEF TypeOK, Fetched
  <2>2. \A id \in ToSpawn(snap) : spawned[id] + 1 \in 1..MaxGen
    BY <1>1, <2>1 DEF UpdateHealthMonitors, TypeOK, ToSpawn
  <2>3. current' \subseteq Watches
    <3>1. Kept(snap) \subseteq Watches
      BY DEF TypeOK, Kept
    <3>2. NewWatches(snap) \subseteq Watches
      <4>1. ToSpawn(snap) \subseteq Ids
        BY DEF ToSpawn
      <4>2. QED
        BY <2>2, <4>1 DEF NewWatches, Watches
    <3>3. current' = Kept(snap) \cup NewWatches(snap)
      BY <1>1 DEF UpdateHealthMonitors
    <3>4. QED
      BY <3>1, <3>2, <3>3
  <2>4. spawned' \in [Ids -> 0..MaxGen]
    BY <1>1, <2>2 DEF UpdateHealthMonitors, TypeOK
  <2>5. QED
    BY <1>1, <2>1, <2>3, <2>4 DEF UpdateHealthMonitors, TypeOK, Live
<1>2. CASE Shutdown
  BY <1>2 DEF Shutdown, TypeOK
<1>3. ASSUME NEW w \in Watches, StartProbe(w) PROVE TypeOK'
  BY <1>3 DEF StartProbe, TypeOK, Live
<1>4. ASSUME NEW w \in Watches, NEW o \in Outcomes, ProbeReturn(w, o) PROVE TypeOK'
  BY <1>4, ResultFromCheckType DEF ProbeReturn, TypeOK, Live
<1>5. ASSUME NEW w \in Watches, PutHealth(w) PROVE TypeOK'
  <2>1. res[w].status \in Statuses \cup {NoHealth}
    BY DEF TypeOK, CheckResults, NoResult
  <2>2. Svc(w) \in Ids
    BY DEF Svc, Watches
  <2>3. QED
    BY <1>5, <2>1, <2>2 DEF PutHealth, TypeOK, Live, CheckResults, NoResult
<1>6. ASSUME NEW w \in Watches, ObserveStop(w) PROVE TypeOK'
  BY <1>6 DEF ObserveStop, TypeOK, Live
<1>7. ASSUME NEW id \in Ids, NEW p \in Ports \cup {Absent}, StoreWrite(id, p)
      PROVE TypeOK'
  BY <1>7 DEF StoreWrite, TypeOK
<1>8. CASE SignalShutdown
  BY <1>8 DEF SignalShutdown, TypeOK
<1>9. CASE Terminated \/ UNCHANGED vars
  BY <1>9 DEF Terminated, vars, TypeOK
<1>10. QED
  BY <1>1, <1>2, <1>3, <1>4, <1>5, <1>6, <1>7, <1>8, <1>9
  DEF Next, Reconciler, Worker, Environment

(* The initial states are well typed. *)
LEMMA TypeInit == Init => TypeOK
<1> SUFFICES ASSUME Init PROVE TypeOK
  OBVIOUS
<1>1. pc \in [Watches -> {"unused", "stopped"} \cup Live]
  BY DEF Init
<1>2. res \in [Watches -> CheckResults \cup {NoResult}]
  BY DEF Init
<1>3. health \in [Ids -> Statuses \cup {NoHealth}]
  BY DEF Init
<1>4. spawned \in [Ids -> 0..MaxGen] /\ stopSent \in [Watches -> Nat]
  BY DEF Init
<1>5. snapshot \in [Ids -> Ports \cup {Absent}]
  BY DEF Init
<1>6. storeChanges \in 0..MaxStoreChanges
  BY DEF Init
<1>7. QED
  BY <1>1, <1>2, <1>3, <1>4, <1>5, <1>6 DEF Init, TypeOK

(* Spec keeps TypeOK true in every reachable state. *)
THEOREM TypeCorrect == Spec => []TypeOK
BY TypeInit, TypeOKStep, PTL DEF Spec

-----------------------------------------------------------------------------
(***************************************************************************)
(* The safety invariants.  Safety is not inductive by itself: a step of    *)
(* updatePods preserves it only because (1) every PodWatch in the slice is *)
(* running and has never been sent a stop, so the first loop's send is the *)
(* first one on that channel, and (2) the generation a new PodWatch gets   *)
(* has never been used, so the new goroutine is distinct from all others. *)
(***************************************************************************)

(* Every PodWatch in the reconciler's slice runs and has not been stopped. *)
CurrentRunning ==
  \A w \in current : pc[w] \in Live /\ stopSent[w] = 0

(* A generation above the pod's count of PodWatches has never been used. *)
FreshGenerations ==
  \A w \in Watches : w[2] > spawned[Svc(w)] => pc[w] = "unused" /\ stopSent[w] = 0

IInv ==
  /\ TypeOK
  /\ CurrentRunning
  /\ FreshGenerations
  /\ Safety

(* The part of IInv besides TypeOK, which is all a step has to re-establish *)
(* once TypeOKStep gives TypeOK'.                                           *)
Core ==
  /\ CurrentRunning
  /\ FreshGenerations
  /\ NoOrphanWorker
  /\ StopSendNeverBlocks
  /\ SingleSupervision

(* A worker step changes only its own pc and res: the invariants, which   *)
(* read pc only through "is it Live" and "is it unused", are kept as long  *)
(* as a running PodWatch stays running or, having a stop, stops.           *)
LEMMA WorkerStepCore ==
  ASSUME TypeOK, Core, NEW w \in Watches,
         pc[w] \in Live,
         pc'[w] \in Live \/ (pc'[w] = "stopped" /\ stopSent[w] > 0),
         pc' = [pc EXCEPT ![w] = pc'[w]],
         UNCHANGED <<current, spawned, stopSent>>
  PROVE  Core'
<1>1. w \notin current \/ pc'[w] \in Live
  BY DEF Core, CurrentRunning
<1>2. w[2] <= spawned[Svc(w)]
  BY DEF Core, FreshGenerations, TypeOK, Watches, Svc, Live
<1>3. QED
  BY <1>1, <1>2 DEF Core, CurrentRunning, FreshGenerations, NoOrphanWorker,
                    StopSendNeverBlocks, SingleSupervision, TypeOK, Live

(* An environment step leaves everything the invariants read unchanged. *)
LEMMA EnvironmentStepCore ==
  ASSUME Core, UNCHANGED <<current, spawned, pc, stopSent>>
  PROVE  Core'
BY DEF Core, CurrentRunning, FreshGenerations, NoOrphanWorker,
       StopSendNeverBlocks, SingleSupervision

(* updatePods keeps the invariants. *)
LEMMA UpdateStepCore ==
  ASSUME TypeOK, Core, NEW ok \in BOOLEAN, UpdateHealthMonitors(ok)
  PROVE  Core'
<1> DEFINE snap == Fetched(ok)
           gone == Removed(snap)
           kept == Kept(snap)
           born == NewWatches(snap)
<1>1. /\ current' = kept \cup born
      /\ pc' = [w \in Watches |-> IF w \in born THEN "idle" ELSE pc[w]]
      /\ stopSent' = [w \in Watches |->
                        IF w \in gone THEN stopSent[w] + 1 ELSE stopSent[w]]
      /\ spawned' = [id \in Ids |->
                       IF id \in ToSpawn(snap) THEN spawned[id] + 1 ELSE spawned[id]]
      /\ \A id \in ToSpawn(snap) : spawned[id] < MaxGen
  BY DEF UpdateHealthMonitors
<1>2. /\ gone \subseteq current
      /\ kept = current \ gone
  BY DEF Removed, Kept
<1>3. ToSpawn(snap) \subseteq Ids
  BY DEF ToSpawn
<1>4. \A id \in ToSpawn(snap) : ~\E w \in kept : Svc(w) = id
  BY DEF ToSpawn
<1>5. \A w \in born : /\ w \in Watches
                      /\ Svc(w) \in ToSpawn(snap)
                      /\ w[2] = spawned[Svc(w)] + 1
                      /\ w[2] = spawned'[Svc(w)]
                      /\ pc[w] = "unused" /\ stopSent[w] = 0
  BY <1>1, <1>3, BoundsAssumption
  DEF NewWatches, Svc, Watches, Core, FreshGenerations, TypeOK
<1>6. \A w1, w2 \in born : Svc(w1) = Svc(w2) => w1 = w2
  BY DEF NewWatches, Svc
<1>7. \A w \in current : w \notin born /\ pc[w] \in Live /\ stopSent[w] = 0
  BY <1>5 DEF Core, CurrentRunning, Live
<1>8. CurrentRunning'
  BY <1>1, <1>2, <1>5, <1>7 DEF CurrentRunning, TypeOK, Live
<1>9. FreshGenerations'
  <2> SUFFICES ASSUME NEW w \in Watches, w[2] > spawned'[Svc(w)]
               PROVE  pc'[w] = "unused" /\ stopSent'[w] = 0
    BY DEF FreshGenerations
  <2>0. Svc(w) \in Ids /\ w[2] \in Nat /\ spawned[Svc(w)] \in Nat
    BY DEF Svc, Watches, TypeOK
  <2>1. spawned'[Svc(w)] \in Nat /\ spawned[Svc(w)] <= spawned'[Svc(w)]
    BY <1>1, <2>0
  <2>2. pc[w] = "unused" /\ stopSent[w] = 0
    <3>1. w[2] > spawned[Svc(w)]
      BY <2>0, <2>1
    <3>2. QED
      BY <3>1 DEF Core, FreshGenerations
  <2>3. w \notin born
    BY <1>5, <2>0, <2>1
  <2>4. w \notin gone
    BY <1>2, <1>7, <2>2 DEF Live
  <2>5. QED
    BY <1>1, <2>2, <2>3, <2>4
<1>10. NoOrphanWorker'
  BY <1>1, <1>2, <1>5 DEF Core, NoOrphanWorker, TypeOK, Live
<1>11. StopSendNeverBlocks'
  BY <1>1, <1>2, <1>7 DEF Core, StopSendNeverBlocks, TypeOK
<1>12. SingleSupervision'
  <2> SUFFICES ASSUME NEW w1 \in current', NEW w2 \in current', Svc(w1) = Svc(w2)
               PROVE  w1 = w2
    BY DEF SingleSupervision
  <2>1. CASE w1 \in kept /\ w2 \in kept
    BY <2>1, <1>2 DEF Core, SingleSupervision
  <2>2. CASE w1 \in born /\ w2 \in born
    BY <2>2, <1>6
  <2>3. CASE w1 \in kept /\ w2 \in born
    BY <2>3, <1>4, <1>5
  <2>4. CASE w1 \in born /\ w2 \in kept
    BY <2>4, <1>4, <1>5
  <2>5. QED
    BY <1>1, <2>1, <2>2, <2>3, <2>4
<1>13. QED
  BY <1>8, <1>9, <1>10, <1>11, <1>12 DEF Core

(* The shutdown path keeps the invariants. *)
LEMMA ShutdownStepCore ==
  ASSUME TypeOK, Core, Shutdown
  PROVE  Core'
<1>1. /\ current' = {}
      /\ stopSent' = [w \in Watches |->
                        IF w \in current THEN stopSent[w] + 1 ELSE stopSent[w]]
      /\ UNCHANGED <<spawned, pc>>
  BY DEF Shutdown
<1>2. \A w \in current : pc[w] # "unused" /\ stopSent[w] = 0
  BY DEF Core, CurrentRunning, Live
<1>3. FreshGenerations'
  BY <1>1, <1>2 DEF Core, FreshGenerations, TypeOK
<1>4. NoOrphanWorker'
  BY <1>1 DEF Core, NoOrphanWorker, TypeOK
<1>5. StopSendNeverBlocks'
  BY <1>1, <1>2 DEF Core, StopSendNeverBlocks, TypeOK
<1>6. QED
  BY <1>1, <1>3, <1>4, <1>5 DEF Core, CurrentRunning, SingleSupervision

(* IInv is inductive. *)
LEMMA IInvStep == IInv /\ [Next]_vars => IInv'
<1> SUFFICES ASSUME TypeOK, Core, [Next]_vars PROVE TypeOK' /\ Core'
  BY DEF IInv, Core, Safety
<1>1. TypeOK'
  BY TypeOKStep
<1>2. CASE \E ok \in BOOLEAN : UpdateHealthMonitors(ok)
  BY <1>1, <1>2, UpdateStepCore
<1>3. CASE Shutdown
  BY <1>1, <1>3, ShutdownStepCore
<1>4. ASSUME NEW w \in Watches, StartProbe(w) PROVE Core'
  BY <1>4, WorkerStepCore DEF StartProbe, Live, TypeOK
<1>5. ASSUME NEW w \in Watches, NEW o \in Outcomes, ProbeReturn(w, o) PROVE Core'
  BY <1>5, WorkerStepCore DEF ProbeReturn, Live, TypeOK
<1>6. ASSUME NEW w \in Watches, PutHealth(w) PROVE Core'
  BY <1>6, WorkerStepCore DEF PutHealth, Live, TypeOK
<1>7. ASSUME NEW w \in Watches, ObserveStop(w) PROVE Core'
  BY <1>7, WorkerStepCore DEF ObserveStop, Live, TypeOK
<1>8. CASE Environment \/ Terminated \/ UNCHANGED vars
  <2>1. UNCHANGED <<current, spawned, pc, stopSent>>
    BY <1>8 DEF Environment, StoreWrite, SignalShutdown, Terminated, vars
  <2>2. QED
    BY <1>1, <2>1, EnvironmentStepCore
<1>9. QED
  BY <1>1, <1>2, <1>3, <1>4, <1>5, <1>6, <1>7, <1>8 DEF Next, Reconciler, Worker

(***************************************************************************)
(* In every reachable state no MonitorHealth goroutine is leaked, no       *)
(* shutdownCh is sent on twice (so the reconciler never blocks on a stop)  *)
(* and no pod has two PodWatches in the reconciler's slice.                *)
(***************************************************************************)
THEOREM SafetyInvariant == Spec => []Safety
<1>1. Init => IInv
  <2> SUFFICES ASSUME Init PROVE IInv
    OBVIOUS
  <2>1. TypeOK
    BY TypeInit
  <2>2. Core
    BY DEF Init, Core, CurrentRunning, FreshGenerations, NoOrphanWorker,
           StopSendNeverBlocks, SingleSupervision, Live
  <2>3. QED
    BY <2>1, <2>2 DEF IInv, Core, Safety
<1>2. IInv => Safety
  BY DEF IInv
<1>3. QED
  BY <1>1, <1>2, IInvStep, PTL DEF Spec


(***************************************************************************)
(* No MonitorHealth goroutine outlives both the reconciler's slice and a   *)
(* stop message: every running worker is supervised or has been told to  *)
(* stop (updatePods, the shutdown loop of MonitorPodHealth).               *)
(***************************************************************************)
THEOREM NoOrphanWorkerInvariant == Spec => []NoOrphanWorker
  BY SafetyInvariant, PTL DEF Safety

(***************************************************************************)
(* Each buffered shutdownCh receives at most one send, so the sends in     *)
(* updatePods and in the shutdown loop never block.                        *)
(***************************************************************************)
THEOREM StopSendNeverBlocksInvariant == Spec => []StopSendNeverBlocks
  BY SafetyInvariant, PTL DEF Safety

(***************************************************************************)
(* updatePods never keeps two PodWatches of the same pod id.               *)
(***************************************************************************)
THEOREM SingleSupervisionInvariant == Spec => []SingleSupervision
  BY SafetyInvariant, PTL DEF Safety

=============================================================================
