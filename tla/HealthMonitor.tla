--------------------------- MODULE HealthMonitor ---------------------------
(***************************************************************************)
(* The preparer's health monitor (package watch, src/unnamed/part_000).    *)
(*                                                                         *)
(* One reconciler goroutine (MonitorPodHealth) polls the reality store,    *)
(* diffs it against its slice of PodWatches (updatePods), sends a stop on  *)
(* the buffered shutdownCh of every PodWatch whose pod left the store and  *)
(* starts a MonitorHealth goroutine for every new pod with a non-zero      *)
(* status port.  Every MonitorHealth goroutine probes its pod              *)
(* (StatusChecker.Check), classifies the answer (resultFromCheck) and      *)
(* writes it with its HealthUpdater (PutHealth) until it receives its      *)
(* stop, when it closes its updater and returns.                           *)
(*                                                                         *)
(* A PodWatch is named by <<pod id, generation>>: the n-th PodWatch ever  *)
(* created for a pod has generation n.                                     *)
(***************************************************************************)
EXTENDS Naturals

CONSTANTS
  Ids,              \* pod ids that may appear in the reality store
  Ports,            \* status ports a manifest may declare; 0 means "none"
  Codes,            \* HTTP status codes a status endpoint may answer with
  MaxGen,           \* bound: PodWatches created per pod id
  MaxStoreChanges,  \* bound: writes to the reality store
  Absent            \* model value: the pod is not in the reality store

ASSUME IdsAssumption == Ids # {}
ASSUME PortsAssumption == 0 \in Ports /\ Ports \subseteq Nat /\ Absent \notin Ports
ASSUME CodesAssumption == Codes \subseteq Nat
ASSUME BoundsAssumption == MaxGen \in Nat \ {0} /\ MaxStoreChanges \in Nat

VARIABLES
  reality,       \* the reality store: pod id -> status port, or Absent
  storeChanges,  \* number of writes the environment made to the store
  shutdown,      \* the preparer has sent on MonitorPodHealth's shutdownCh
  rstate,        \* the reconciler goroutine: "starting", "running", "exited"
  current,       \* the reconciler's []PodWatch, as a set of PodWatch names
  snapshot,      \* the reality it fetched in its last updateHealthMonitors
  spawned,       \* pod id -> number of PodWatches created for it so far
  pc,            \* PodWatch -> "unused", "idle", "probing", "checked", "stopped"
  res,           \* PodWatch -> the (health.Result, error) Check returned, while
                 \* checkHealth holds it; NoResult otherwise
  stopSent,      \* PodWatch -> number of sends made on its shutdownCh
  hmClosed,      \* healthManager.Close() has been called
  health         \* the health tree: pod id -> last status written, or NoHealth

vars == <<reality, storeChanges, shutdown, rstate, current, snapshot,
          spawned, pc, res, stopSent, hmClosed, health>>

Watches == Ids \X (1..MaxGen)
Svc(w) == w[1]

Passing == "passing"
Critical == "critical"
NoHealth == "none"
Statuses == {Passing, Critical}

Live == {"idle", "probing", "checked"}

(***************************************************************************)
(* What one http.Client.Get can do: fail with a transport error, or answer *)
(* with a status code, and the read of its body may then fail.             *)
(***************************************************************************)
Outcomes ==
  [transportErr : {TRUE}, code : {0}, bodyErr : {FALSE}]
    \cup [transportErr : {FALSE}, code : Codes, bodyErr : BOOLEAN]

CheckResults == [status : Statuses, err : BOOLEAN]
NoResult == [status |-> NoHealth, err |-> FALSE]

(***************************************************************************)
(* resultFromCheck: a transport error is a Critical result and no error;   *)
(* an answer is Passing iff its code is in [200, 300), and a failed body   *)
(* read is returned as the error next to that status.                      *)
(***************************************************************************)
(* Mutant: 1xx answers fall through both branches and keep Status "". *)
ResultFromCheckNo1xx(o) ==
  IF o.transportErr
  THEN [status |-> Critical, err |-> FALSE]
  ELSE [status |-> IF o.code >= 200 /\ o.code < 300 THEN Passing
                   ELSE IF o.code >= 300 THEN Critical ELSE "",
        err |-> o.bodyErr]

ResultFromCheck(o) ==
  IF o.transportErr
  THEN [status |-> Critical, err |-> FALSE]
  ELSE [status |-> IF o.code >= 200 /\ o.code < 300 THEN Passing ELSE Critical,
        err |-> o.bodyErr]

-----------------------------------------------------------------------------
(***************************************************************************)
(* The reconciler.                                                         *)
(***************************************************************************)

(* The snapshot updateHealthMonitors works from: ListPods' answer, or     *)
(* nothing when ListPods fails (the error is only logged).                 *)
Fetched(ok) == IF ok THEN reality ELSE [id \in Ids |-> Absent]

(* updatePods, first loop: the PodWatches whose pod is not in the snapshot *)
Removed(snap) == {w \in current : snap[Svc(w)] = Absent}

(* Mutant: a stopped PodWatch is still appended to newCurrent. *)
KeptAll(snap) == current

(* updatePods, first loop: newCurrent, the PodWatches whose pod is still  *)
(* in the snapshot                                                         *)
Kept(snap) == current \ Removed(snap)

(* Mutant: the second loop forgets to look for an existing PodWatch. *)
ToSpawnNoMissing(snap) ==
  {id \in Ids : snap[id] # Absent /\ snap[id] # 0}

(* updatePods, second loop: the pods in the snapshot with no PodWatch in  *)
(* newCurrent and a non-zero status port.                                  *)
ToSpawn(snap) ==
  {id \in Ids : /\ snap[id] # Absent
                /\ ~\E w \in Kept(snap) : Svc(w) = id
                /\ snap[id] # 0}

NewWatches(snap) == {<<id, spawned[id] + 1>> : id \in ToSpawn(snap)}

(***************************************************************************)
(* One call of updateHealthMonitors: the first one MonitorPodHealth makes, *)
(* or one after POLL_KV_FOR_PODS.  The select waits on a fresh 3s timer,   *)
(* so a shutdown already pending is taken before the timer can fire.  The *)
(* stops are sends on buffered channels and the go statements only create *)
(* goroutines, so the whole call is one step of the reconciler.            *)
(***************************************************************************)
UpdateHealthMonitors(ok) ==
  LET snap == Fetched(ok)
      gone == Removed(snap)
      born == NewWatches(snap)
  IN /\ \/ rstate = "starting"
        \/ rstate = "running" /\ ~shutdown
     /\ \A id \in ToSpawn(snap) : spawned[id] < MaxGen
     /\ stopSent' = [w \in Watches |->
                       IF w \in gone THEN stopSent[w] + 1 ELSE stopSent[w]]
     /\ current' = Kept(snap) \cup born
     /\ pc' = [w \in Watches |-> IF w \in born THEN "idle" ELSE pc[w]]
     /\ spawned' = [id \in Ids |->
                      IF id \in ToSpawn(snap) THEN spawned[id] + 1 ELSE spawned[id]]
     /\ snapshot' = snap
     /\ rstate' = "running"
     /\ UNCHANGED <<reality, storeChanges, shutdown, res, hmClosed, health>>

(***************************************************************************)
(* MonitorPodHealth receives from its shutdownCh: it sends a stop to every *)
(* PodWatch in its slice, closes the health manager without waiting for   *)
(* the goroutines, and returns (its slice goes out of scope).              *)
(***************************************************************************)
(* Mutant: the loop over the slice is missing; nothing is stopped. *)
ShutdownNoStops ==
  /\ rstate = "running"
  /\ shutdown
  /\ hmClosed' = TRUE
  /\ rstate' = "exited"
  /\ current' = {}
  /\ UNCHANGED <<reality, storeChanges, shutdown, snapshot, spawned, pc, res,
                 health, stopSent>>

Shutdown ==
  /\ rstate = "running"
  /\ shutdown
  /\ stopSent' = [w \in Watches |->
                    IF w \in current THEN stopSent[w] + 1 ELSE stopSent[w]]
  /\ hmClosed' = TRUE
  /\ rstate' = "exited"
  /\ current' = {}
  /\ UNCHANGED <<reality, storeChanges, shutdown, snapshot, spawned, pc, res, health>>

-----------------------------------------------------------------------------
(***************************************************************************)
(* A MonitorHealth goroutine.  Its select waits on a fresh 1s timer and    *)
(* its shutdownCh: a stop already buffered is always taken before the     *)
(* timer can fire.                                                         *)
(***************************************************************************)

(* Mutant: the timer may fire although a stop is pending. *)
StartProbeIgnoresStop(w) ==
  /\ pc[w] = "idle"
  /\ pc' = [pc EXCEPT ![w] = "probing"]
  /\ UNCHANGED <<reality, storeChanges, shutdown, rstate, current, snapshot,
                 spawned, res, stopSent, hmClosed, health>>

(* The timer fires: checkHealth calls Check, whose GET is now in flight. *)
StartProbe(w) ==
  /\ pc[w] = "idle"
  /\ stopSent[w] = 0
  /\ pc' = [pc EXCEPT ![w] = "probing"]
  /\ UNCHANGED <<reality, storeChanges, shutdown, rstate, current, snapshot,
                 spawned, res, stopSent, hmClosed, health>>

(* The GET returns and resultFromCheck classifies its outcome. *)
ProbeReturn(w, o) ==
  /\ pc[w] = "probing"
  /\ pc' = [pc EXCEPT ![w] = "checked"]
  /\ res' = [res EXCEPT ![w] = ResultFromCheck(o)]
  /\ UNCHANGED <<reality, storeChanges, shutdown, rstate, current, snapshot,
                 spawned, stopSent, hmClosed, health>>

(* checkHealth ends: an error from Check is logged and nothing is written; *)
(* otherwise PutHealth writes the result.                                  *)
PutHealth(w) ==
  /\ pc[w] = "checked"
  /\ pc' = [pc EXCEPT ![w] = "idle"]
  /\ health' = IF res[w].err THEN health
               ELSE [health EXCEPT ![Svc(w)] = res[w].status]
  /\ res' = [res EXCEPT ![w] = NoResult]
  /\ UNCHANGED <<reality, storeChanges, shutdown, rstate, current, snapshot,
                 spawned, stopSent, hmClosed>>

(* Mutant: the return after updater.Close() is missing. *)
ObserveStopNoReturn(w) ==
  /\ pc[w] = "idle"
  /\ stopSent[w] > 0
  /\ pc' = [pc EXCEPT ![w] = "idle"]
  /\ UNCHANGED <<reality, storeChanges, shutdown, rstate, current, snapshot,
                 spawned, res, stopSent, hmClosed, health>>

(* The stop is received: updater.Close() and return. *)
ObserveStop(w) ==
  /\ pc[w] = "idle"
  /\ stopSent[w] > 0
  /\ pc' = [pc EXCEPT ![w] = "stopped"]
  /\ UNCHANGED <<reality, storeChanges, shutdown, rstate, current, snapshot,
                 spawned, res, stopSent, hmClosed, health>>

-----------------------------------------------------------------------------
(***************************************************************************)
(* The environment: the scheduler writes the reality store, and the        *)
(* preparer asks the monitor to shut down.                                 *)
(***************************************************************************)
StoreWrite(id, p) ==
  /\ storeChanges < MaxStoreChanges
  /\ reality[id] # p
  /\ reality' = [reality EXCEPT ![id] = p]
  /\ storeChanges' = storeChanges + 1
  /\ UNCHANGED <<shutdown, rstate, current, snapshot, spawned, pc, res,
                 stopSent, hmClosed, health>>

SignalShutdown ==
  /\ ~shutdown
  /\ shutdown' = TRUE
  /\ UNCHANGED <<reality, storeChanges, rstate, current, snapshot, spawned,
                 pc, res, stopSent, hmClosed, health>>

(* MonitorPodHealth has returned and every goroutine it started has too. *)
Terminated ==
  /\ rstate = "exited"
  /\ \A w \in Watches : pc[w] \notin Live
  /\ UNCHANGED vars

-----------------------------------------------------------------------------
Init ==
  /\ reality \in [Ids -> Ports \cup {Absent}]
  /\ storeChanges = 0
  /\ shutdown = FALSE
  /\ rstate = "starting"
  /\ current = {}
  /\ snapshot = [id \in Ids |-> Absent]
  /\ spawned = [id \in Ids |-> 0]
  /\ pc = [w \in Watches |-> "unused"]
  /\ res = [w \in Watches |-> NoResult]
  /\ stopSent = [w \in Watches |-> 0]
  /\ hmClosed = FALSE
  /\ health = [id \in Ids |-> NoHealth]

Reconciler == (\E ok \in BOOLEAN : UpdateHealthMonitors(ok)) \/ Shutdown

Worker(w) ==
  \/ StartProbe(w)
  \/ \E o \in Outcomes : ProbeReturn(w, o)
  \/ PutHealth(w)
  \/ ObserveStop(w)

Environment ==
  \/ \E id \in Ids, p \in Ports \cup {Absent} : StoreWrite(id, p)
  \/ SignalShutdown

Next ==
  \/ Reconciler
  \/ \E w \in Watches : Worker(w)
  \/ Environment
  \/ Terminated

(***************************************************************************)
(* Fairness.  The reconciler's timer and shutdownCh are served by the Go   *)
(* scheduler, so the reconciler is weakly fair.  A worker that holds a     *)
(* stop receives it at its next select, and the GET is assumed to return   *)
(* (the http.Client built by config.GetClient bounds it), so the steps     *)
(* that end a probe and the receipt of a stop are weakly fair.  The timer  *)
(* that starts a probe and the environment get no fairness.                *)
(***************************************************************************)
Fairness ==
  /\ WF_vars(Reconciler)
  /\ \A w \in Watches :
       /\ WF_vars(\E o \in Outcomes : ProbeReturn(w, o))
       /\ WF_vars(PutHealth(w))
       /\ WF_vars(ObserveStop(w))

Spec == Init /\ [][Next]_vars /\ Fairness

-----------------------------------------------------------------------------
(***************************************************************************)
(* Properties.                                                             *)
(***************************************************************************)

(* Every variable holds a value of its type. *)
TypeOK ==
  /\ reality \in [Ids -> Ports \cup {Absent}]
  /\ storeChanges \in 0..MaxStoreChanges
  /\ shutdown \in BOOLEAN
  /\ rstate \in {"starting", "running", "exited"}
  /\ current \subseteq Watches
  /\ snapshot \in [Ids -> Ports \cup {Absent}]
  /\ spawned \in [Ids -> 0..MaxGen]
  /\ pc \in [Watches -> {"unused", "stopped"} \cup Live]
  /\ res \in [Watches -> CheckResults \cup {NoResult}]
  /\ stopSent \in [Watches -> Nat]
  /\ hmClosed \in BOOLEAN
  /\ health \in [Ids -> Statuses \cup {NoHealth}]

(***************************************************************************)
(* No goroutine leak: every MonitorHealth goroutine still running is       *)
(* either held in the reconciler's slice or has been sent its stop, so     *)
(* no removal by updatePods and no shutdown forgets a worker.              *)
(***************************************************************************)
NoOrphanWorker ==
  \A w \in Watches : pc[w] \in Live => w \in current \/ stopSent[w] > 0

(***************************************************************************)
(* The reconciler never blocks on a stop: each shutdownCh (capacity 1) is  *)
(* sent on at most once, by updatePods or by the shutdown loop, never by  *)
(* both and never twice.                                                   *)
(***************************************************************************)
StopSendNeverBlocks ==
  \A w \in Watches : stopSent[w] <= 1

(***************************************************************************)
(* No pod is supervised twice: however the store changes and however many *)
(* ListPods calls fail, the reconciler's slice holds at most one PodWatch  *)
(* per pod id.                                                             *)
(***************************************************************************)
SingleSupervision ==
  \A w1, w2 \in current : Svc(w1) = Svc(w2) => w1 = w2

Safety == NoOrphanWorker /\ StopSendNeverBlocks /\ SingleSupervision

(***************************************************************************)
(* A MonitorHealth goroutine that has been sent its stop eventually       *)
(* returns, whatever it was doing when the stop arrived.                   *)
(***************************************************************************)
StoppedWorkerExits ==
  \A w \in Watches : (stopSent[w] > 0) ~> (pc[w] = "stopped")

(***************************************************************************)
(* Once the preparer signals shutdown, MonitorPodHealth eventually returns *)
(* and so does every MonitorHealth goroutine it ever started.              *)
(***************************************************************************)
ShutdownStopsAllWorkers ==
  shutdown ~> (rstate = "exited" /\ \A w \in Watches : pc[w] \notin Live)

-----------------------------------------------------------------------------
(***************************************************************************)
(* What the spec says of the monitor where the code does otherwise.       *)
(***************************************************************************)

(***************************************************************************)
(* Spec 8, "Sequential probing": for one service no two Check() calls are  *)
(* ever in flight at once, across the PodWatches the pod has had.          *)
(***************************************************************************)
SequentialProbing ==
  \A w1, w2 \in Watches :
    /\ w1 # w2
    /\ Svc(w1) = Svc(w2)
    => ~(pc[w1] \in {"probing", "checked"} /\ pc[w2] \in {"probing", "checked"})

(***************************************************************************)
(* Spec 9: no MonitorHealth goroutine writes through the health manager   *)
(* after MonitorPodHealth has closed it.                                   *)
(***************************************************************************)
NoPutAfterManagerClose ==
  [][\A w \in Watches :
       (pc[w] = "checked" /\ pc'[w] = "idle" /\ ~res[w].err) => ~hmClosed]_vars

(***************************************************************************)
(* Spec 4.1 and 7: when reading the body of a response fails, the status   *)
(* classified from its code is still published by checkHealth.             *)
(***************************************************************************)
ClassificationPublished ==
  [][\A w \in Watches :
       (pc[w] = "checked" /\ pc'[w] = "idle") => health'[Svc(w)] = res[w].status]_vars

(***************************************************************************)
(* Spec 3: whenever the reconciler waits for its next poll, the pods it    *)
(* supervises are exactly the pods of the snapshot it fetched last that    *)
(* declare a non-zero status port.                                         *)
(***************************************************************************)
SupervisedMatchesSnapshot ==
  rstate = "running" =>
    {Svc(w) : w \in current} = {id \in Ids : snapshot[id] \notin {Absent, 0}}

=============================================================================
