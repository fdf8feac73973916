---------------------------- MODULE HookListener ----------------------------
(***************************************************************************)
(* HookListener.Sync and installHook (src/pkg/preparer/listener.go).       *)
(*                                                                         *)
(* Sync starts a pod watcher on the hook prefix of the intent store and    *)
(* loops on a select: quit stops the watcher and returns, a watcher error  *)
(* is forwarded on errCh, and a list of manifests is installed one by one *)
(* with installHook, each error being forwarded on errCh.  installHook     *)
(* authorizes the manifest, works out the hook's directory from its path, *)
(* compares its SHA with the current manifest on disk and, if they differ, *)
(* installs the pod, writes the current manifest and links the hook        *)
(* scripts into the exec directory.  The file system outlives every step.  *)
(***************************************************************************)

EXTENDS Naturals, Sequences, FiniteSets

CONSTANTS
  HookTypes,         \* the hook types (hooks.AsHookType accepts exactly these)
  Events,            \* first path segments determineEvent may return
  PodIds,            \* manifest ids of hook pods
  Global,            \* the event of a pod directly under the prefix: ""
  Paths,             \* intent keys, as <<event, pod id>> (see determineEvent)
  Versions,          \* manifest contents, told apart by their SHA
  Signed,            \* the manifests the auth policy accepts
  None,              \* no manifest: nothing installed, no current manifest
  MaxIntentChanges,  \* bound: writes to the intent store
  MaxFailures        \* bound: I/O failures (watch, read, install, write, link)

ASSUME PathsAssumption ==
  /\ HookTypes \subseteq Events
  /\ Global \notin Events
  /\ Paths \subseteq (Events \cup {Global}) \X PodIds
ASSUME VersionsAssumption == Signed \subseteq Versions /\ None \notin Versions
ASSUME BoundsAssumption == MaxIntentChanges \in Nat /\ MaxFailures \in Nat

VARIABLES
  intent,         \* the intent store under the hook prefix: path -> manifest
  intentChanges,
  installed,      \* per hook pod directory: the manifest whose pod is installed
  onDisk,         \* per directory: the current manifest written there
  linked,         \* per directory: the manifest whose hook scripts are linked
  failures,
  quit,           \* the caller has closed quit
  sync,           \* Sync's control point, see SyncPcs
  pending,        \* results of the list being installed, not yet handled
  watcher         \* the WatchPods goroutine: "running" or "returned"

vars == <<intent, intentChanges, installed, onDisk, linked, failures, quit,
          sync, pending, watcher>>

SyncPcs == {"select", "install", "senderr", "quitting", "done"}

(***************************************************************************)
(* The event of a path is its first segment after the prefix, or "" for a *)
(* pod directly under it (determineEvent); the pod is installed under     *)
(* path.Join(DestinationDir, event, id), which drops an empty event.      *)
(***************************************************************************)
EventOf(p) == p[1]
IdOf(p) == p[2]
Dir(p) == IF EventOf(p) = Global THEN <<IdOf(p)>> ELSE <<EventOf(p), IdOf(p)>>
Dirs == {Dir(p) : p \in Paths}

(* One kp.ManifestResult: an intent path and the manifest stored there. *)
Results == [path : Paths, man : Versions]

(* A global hook pod whose id is a hook type would share its directory. *)
Collides(p) == EventOf(p) = Global /\ IdOf(p) \in HookTypes

(* One way installHook can fail on I/O, or "none". *)
Faults == {"none", "read", "install", "write", "link"}

-----------------------------------------------------------------------------
(* The pod watcher hands Sync the manifests under the prefix. *)
ReceivePods ==
  /\ sync = "select"
  /\ watcher = "running"
  /\ pending' = {[path |-> p, man |-> intent[p]] :
                   p \in {q \in Paths : intent[q] \in Versions}}
  /\ sync' = IF pending' = {} THEN "select" ELSE "install"
  /\ UNCHANGED <<intent, intentChanges, installed, onDisk, linked, failures,
                 quit, watcher>>

(* The pod watcher reports an error, which Sync forwards on errCh. *)
ReceiveWatchError ==
  /\ sync = "select"
  /\ watcher = "running"
  /\ failures < MaxFailures
  /\ failures' = failures + 1
  /\ sync' = "senderr"
  /\ UNCHANGED <<intent, intentChanges, installed, onDisk, linked, quit,
                 pending, watcher>>

(* The caller receives the error from errCh; Sync resumes where it was. *)
ErrorReceived ==
  /\ sync = "senderr"
  /\ sync' = IF pending = {} THEN "select" ELSE "install"
  /\ UNCHANGED <<intent, intentChanges, installed, onDisk, linked, failures,
                 quit, pending, watcher>>

(***************************************************************************)
(* What installHook(r) leaves in r's directory when the I/O step named by  *)
(* f fails ("none": no failure): the installed pod, the current manifest, *)
(* the linked hook scripts, and whether it returns an error.  Each early  *)
(* return of the code is one branch, in the code's order.                 *)
(***************************************************************************)
Failed(inst, disk, link) == [inst |-> inst, disk |-> disk, link |-> link, err |-> TRUE]
Done(inst, disk, link) == [inst |-> inst, disk |-> disk, link |-> link, err |-> FALSE]

(* Mutant: the manifest is not authorized first. *)
OutcomeNoAuth(r, f) ==
  LET d == Dir(r.path) IN
  IF Collides(r.path) \/ f = "read" THEN Failed(installed[d], onDisk[d], linked[d])
  ELSE IF onDisk[d] = r.man THEN Done(installed[d], onDisk[d], linked[d])
  ELSE IF f = "install" THEN Failed(installed[d], onDisk[d], linked[d])
  ELSE IF f = "write" THEN Failed(r.man, onDisk[d], linked[d])
  ELSE IF f = "link" THEN Failed(r.man, r.man, linked[d])
  ELSE Done(r.man, r.man, r.man)

(* Mutant: a global hook whose id is a hook type is not refused. *)
OutcomeNoCollisionCheck(r, f) ==
  LET d == Dir(r.path) IN
  IF r.man \notin Signed \/ f = "read" THEN Failed(installed[d], onDisk[d], linked[d])
  ELSE IF onDisk[d] = r.man THEN Done(installed[d], onDisk[d], linked[d])
  ELSE IF f = "install" THEN Failed(installed[d], onDisk[d], linked[d])
  ELSE IF f = "write" THEN Failed(r.man, onDisk[d], linked[d])
  ELSE IF f = "link" THEN Failed(r.man, r.man, linked[d])
  ELSE Done(r.man, r.man, r.man)

(* Mutant: the current manifest is written before the pod is installed. *)
OutcomeWriteFirst(r, f) ==
  LET d == Dir(r.path) IN
  IF r.man \notin Signed \/ Collides(r.path) \/ f = "read"
    THEN Failed(installed[d], onDisk[d], linked[d])
  ELSE IF onDisk[d] = r.man THEN Done(installed[d], onDisk[d], linked[d])
  ELSE IF f = "write" THEN Failed(installed[d], onDisk[d], linked[d])
  ELSE IF f = "install" THEN Failed(installed[d], r.man, linked[d])
  ELSE IF f = "link" THEN Failed(r.man, r.man, linked[d])
  ELSE Done(r.man, r.man, r.man)

Outcome(r, f) ==
  LET d == Dir(r.path) IN
  IF r.man \notin Signed \/ Collides(r.path) \/ f = "read"
    THEN Failed(installed[d], onDisk[d], linked[d])
  ELSE IF onDisk[d] = r.man THEN Done(installed[d], onDisk[d], linked[d])
  ELSE IF f = "install" THEN Failed(installed[d], onDisk[d], linked[d])
  ELSE IF f = "write" THEN Failed(r.man, onDisk[d], linked[d])
  ELSE IF f = "link" THEN Failed(r.man, r.man, linked[d])
  ELSE Done(r.man, r.man, r.man)

(* One installHook call of Sync's loop, and its error sent on errCh. *)
InstallHook(r, f) ==
  /\ sync = "install"
  /\ r \in pending
  /\ f = "none" \/ failures < MaxFailures
  /\ LET d == Dir(r.path)
         o == Outcome(r, f)
     IN  /\ installed' = [installed EXCEPT ![d] = o.inst]
         /\ onDisk' = [onDisk EXCEPT ![d] = o.disk]
         /\ linked' = [linked EXCEPT ![d] = o.link]
         /\ pending' = pending \ {r}
         /\ sync' = IF o.err THEN "senderr"
                    ELSE IF pending' = {} THEN "select" ELSE "install"
  /\ failures' = IF f = "none" THEN failures ELSE failures + 1
  /\ UNCHANGED <<intent, intentChanges, quit, watcher>>

(* quit is closed: Sync hands the watcher its quit and returns. *)
ReceiveQuit ==
  /\ sync = "select"
  /\ quit
  /\ sync' = "quitting"
  /\ UNCHANGED <<intent, intentChanges, installed, onDisk, linked, failures,
                 quit, pending, watcher>>

StopWatcher ==
  /\ sync = "quitting"
  /\ watcher = "running"
  /\ watcher' = "returned"
  /\ sync' = "done"
  /\ UNCHANGED <<intent, intentChanges, installed, onDisk, linked, failures,
                 quit, pending>>

-----------------------------------------------------------------------------
(* An operator writes a manifest under the hook prefix. *)
IntentWrite(p, v) ==
  /\ intentChanges < MaxIntentChanges
  /\ intent[p] # v
  /\ intent' = [intent EXCEPT ![p] = v]
  /\ intentChanges' = intentChanges + 1
  /\ UNCHANGED <<installed, onDisk, linked, failures, quit, sync, pending,
                 watcher>>

CloseQuit ==
  /\ ~quit
  /\ quit' = TRUE
  /\ UNCHANGED <<intent, intentChanges, installed, onDisk, linked, failures,
                 sync, pending, watcher>>

Terminated ==
  /\ sync = "done"
  /\ UNCHANGED vars

-----------------------------------------------------------------------------
Init ==
  /\ intent \in [Paths -> Versions \cup {None}]
  /\ intentChanges = 0
  /\ installed = [d \in Dirs |-> None]
  /\ onDisk = [d \in Dirs |-> None]
  /\ linked = [d \in Dirs |-> None]
  /\ failures = 0
  /\ quit = FALSE
  /\ sync = "select"
  /\ pending = {}
  /\ watcher = "running"

Next ==
  \/ ReceivePods
  \/ ReceiveWatchError
  \/ ErrorReceived
  \/ \E r \in Results, f \in Faults : InstallHook(r, f)
  \/ ReceiveQuit
  \/ StopWatcher
  \/ \E p \in Paths, v \in Versions \cup {None} : IntentWrite(p, v)
  \/ CloseQuit
  \/ Terminated

(***************************************************************************)
(* Fairness: Sync, the watcher and the caller draining errCh are running   *)
(* goroutines; the watcher keeps delivering the manifest list (WatchPods   *)
(* sends it on every poll).  I/O faults are bounded, so each installHook  *)
(* eventually runs without one.                                            *)
(***************************************************************************)
Fairness ==
  /\ WF_vars(ReceivePods)
  /\ WF_vars(ErrorReceived)
  /\ WF_vars(\E r \in Results, f \in Faults : InstallHook(r, f))
  /\ WF_vars(StopWatcher)

Spec == Init /\ [][Next]_vars /\ Fairness


-----------------------------------------------------------------------------
(* Every variable holds a value of its type. *)
TypeOK ==
  /\ intent \in [Paths -> Versions \cup {None}]
  /\ intentChanges \in 0..MaxIntentChanges
  /\ installed \in [Dirs -> Versions \cup {None}]
  /\ onDisk \in [Dirs -> Versions \cup {None}]
  /\ linked \in [Dirs -> Versions \cup {None}]
  /\ failures \in 0..MaxFailures
  /\ quit \in BOOLEAN
  /\ sync \in SyncPcs
  /\ pending \subseteq Results
  /\ watcher \in {"running", "returned"}

(* Directory d lies inside directory e on disk. *)
Inside(d, e) == Len(e) < Len(d) /\ SubSeq(d, 1, Len(e)) = e

(***************************************************************************)
(* The hook types' directories are kept for their own hooks: no installed *)
(* hook pod contains the installed pod of an event hook of a hook type.   *)
(* This is what the AsHookType check on a global hook's id (listener.go:  *)
(* 93) protects.                                                          *)
(***************************************************************************)
HookTypeDirsNotNested ==
  \A p, q \in Paths :
    EventOf(p) \in HookTypes /\ installed[Dir(p)] # None /\ installed[Dir(q)] # None
      => ~Inside(Dir(p), Dir(q))

(***************************************************************************)
(* The comment at listener.go:94-96: a global hook pod is never installed *)
(* into a directory that contains other hooks.  determineEvent accepts    *)
(* any first segment as the event, while installHook refuses only global  *)
(* ids that are hook types.                                               *)
(***************************************************************************)
NoNestedHookDirs ==
  \A p, q \in Paths :
    installed[Dir(p)] # None /\ installed[Dir(q)] # None
      => ~Inside(Dir(p), Dir(q))

(***************************************************************************)
(* Only manifests the auth policy accepts are ever installed or have their *)
(* hook scripts linked, whatever the intent store holds.                  *)
(***************************************************************************)
OnlySignedHooks ==
  \A d \in Dirs :
    /\ installed[d] \in Signed \cup {None}
    /\ linked[d] \in Signed \cup {None}

(* The intent at p is a manifest installHook accepts. *)
Wanted(p) == intent[p] \in Signed /\ ~Collides(p)

(***************************************************************************)
(* As long as Sync runs, every accepted hook pod in the intent store ends  *)
(* up installed with its manifest recorded on disk, despite failed reads, *)
(* installs and writes (installHook is retried on every manifest list).   *)
(***************************************************************************)
HooksInstalled ==
  ([]~quit) =>
    <>[](\A p \in Paths :
           Wanted(p) => installed[Dir(p)] = intent[p] /\ onDisk[Dir(p)] = intent[p])

(***************************************************************************)
(* Sync's purpose (its doc comment): as long as it runs, every accepted    *)
(* hook pod ends up with its hook scripts linked into the exec directory. *)
(***************************************************************************)
HooksLinked ==
  ([]~quit) =>
    <>[](\A p \in Paths : Wanted(p) => linked[Dir(p)] = intent[p])

====
