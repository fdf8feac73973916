------------------------- MODULE HookListenerProofs -------------------------
(***************************************************************************)
(* Proofs that HookListener is well typed, never installs or links an     *)
(* unsigned manifest, and never installs a hook pod inside the directory  *)
(* of a hook type's hooks, for every set of events, paths and manifests.  *)
(***************************************************************************)
EXTENDS HookListener, TLAPS

USE PathsAssumption, VersionsAssumption, BoundsAssumption

(* Distinct intent paths name distinct hook pod directories. *)
LEMMA DirInjective ==
  ASSUME NEW p \in Paths, NEW q \in Paths, Dir(p) = Dir(q)
  PROVE  p = q
<1>1. p \in (Events \cup {Global}) \X PodIds /\ q \in (Events \cup {Global}) \X PodIds
  OBVIOUS
<1>2. p = <<p[1], p[2]>> /\ q = <<q[1], q[2]>>
  BY <1>1
<1>3. QED
  BY <1>1, <1>2 DEF Dir, EventOf, IdOf

(* The outcome of installHook keeps the directory's state well typed. *)
LEMMA OutcomeType ==
  ASSUME NEW r \in Results, NEW f \in Faults,
         installed \in [Dirs -> Versions \cup {None}],
         onDisk \in [Dirs -> Versions \cup {None}],
         linked \in [Dirs -> Versions \cup {None}]
  PROVE  /\ Outcome(r, f).inst \in Versions \cup {None}
         /\ Outcome(r, f).disk \in Versions \cup {None}
         /\ Outcome(r, f).link \in Versions \cup {None}
         /\ Outcome(r, f).err \in BOOLEAN
<1>1. Dir(r.path) \in Dirs /\ r.man \in Versions
  BY DEF Results, Dirs
<1>2. QED
  BY <1>1 DEF Outcome, Failed, Done

(* What installHook leaves in the directory is signed, or what was there. *)
LEMMA OutcomeSigned ==
  ASSUME NEW r \in Results, NEW f \in Faults
  PROVE  LET d == Dir(r.path) IN
         /\ Outcome(r, f).inst \in Signed \cup {installed[d]}
         /\ Outcome(r, f).disk \in Signed \cup {onDisk[d]}
         /\ Outcome(r, f).link \in Signed \cup {linked[d]}
         /\ Collides(r.path) => Outcome(r, f).inst = installed[d]
  BY DEF Outcome, Failed, Done

-----------------------------------------------------------------------------
LEMMA TypeInit == Init => TypeOK
<1> SUFFICES ASSUME Init PROVE TypeOK
  OBVIOUS
<1>1. installed \in [Dirs -> Versions \cup {None}] /\ onDisk \in [Dirs -> Versions \cup {None}]
      /\ linked \in [Dirs -> Versions \cup {None}]
  BY DEF Init
<1>2. pending \subseteq Results /\ sync \in SyncPcs /\ watcher \in {"running", "returned"}
  BY DEF Init, SyncPcs
<1>3. intent \in [Paths -> Versions \cup {None}] /\ quit \in BOOLEAN
  BY DEF Init
<1>4. intentChanges \in 0..MaxIntentChanges /\ failures \in 0..MaxFailures
  BY DEF Init
<1>5. QED
  BY <1>1, <1>2, <1>3, <1>4 DEF TypeOK

LEMMA TypeStep == TypeOK /\ [Next]_vars => TypeOK'
<1> SUFFICES ASSUME TypeOK, [Next]_vars PROVE TypeOK'
  OBVIOUS
<1>1. CASE ReceivePods
  BY <1>1 DEF ReceivePods, TypeOK, Results, SyncPcs
<1>2. CASE ReceiveWatchError
  BY <1>2 DEF ReceiveWatchError, TypeOK, SyncPcs
<1>3. CASE ErrorReceived
  BY <1>3 DEF ErrorReceived, TypeOK, SyncPcs
<1>4. ASSUME NEW r \in Results, NEW f \in Faults, InstallHook(r, f)
      PROVE TypeOK'
  <2> DEFINE d == Dir(r.path)
             o == Outcome(r, f)
  <2>1. d \in Dirs
    BY DEF Dirs, Results
  <2>2. o.inst \in Versions \cup {None} /\ o.disk \in Versions \cup {None}
        /\ o.link \in Versions \cup {None} /\ o.err \in BOOLEAN
    BY OutcomeType DEF TypeOK
  <2>3. /\ installed' = [installed EXCEPT ![d] = o.inst]
        /\ onDisk' = [onDisk EXCEPT ![d] = o.disk]
        /\ linked' = [linked EXCEPT ![d] = o.link]
        /\ pending' = pending \ {r}
        /\ sync' \in SyncPcs
        /\ failures' \in 0..MaxFailures
        /\ UNCHANGED <<intent, intentChanges, quit, watcher>>
    BY <1>4 DEF InstallHook, SyncPcs, TypeOK
  <2>4. QED
    BY <2>1, <2>2, <2>3 DEF TypeOK
<1>5. CASE ReceiveQuit
  BY <1>5 DEF ReceiveQuit, TypeOK, SyncPcs
<1>6. CASE StopWatcher
  BY <1>6 DEF StopWatcher, TypeOK, SyncPcs
<1>7. ASSUME NEW p \in Paths, NEW v \in Versions \cup {None}, IntentWrite(p, v)
      PROVE TypeOK'
  BY <1>7 DEF IntentWrite, TypeOK
<1>8. CASE CloseQuit
  BY <1>8 DEF CloseQuit, TypeOK
<1>9. CASE Terminated \/ UNCHANGED vars
  BY <1>9 DEF Terminated, vars, TypeOK
<1>10. QED
  BY <1>1, <1>2, <1>3, <1>4, <1>5, <1>6, <1>7, <1>8, <1>9 DEF Next

(***************************************************************************)
(* Every reachable state of the hook listener is well typed.              *)
(***************************************************************************)
THEOREM TypeCorrect == Spec => []TypeOK
  BY TypeInit, TypeStep, PTL DEF Spec


-----------------------------------------------------------------------------
(***************************************************************************)
(* The strengthening: the directory of a global hook path whose id is a   *)
(* hook type never holds an installed pod.                                *)
(***************************************************************************)
NoCollidingInstall ==
  \A p \in Paths : Collides(p) => installed[Dir(p)] = None

IInv == TypeOK /\ NoCollidingInstall /\ OnlySignedHooks

(* A hook pod directory lies inside another only when the outer one is   *)
(* the directory of a global hook whose id is the inner one's event.      *)
LEMMA InsideGlobal ==
  ASSUME NEW p \in Paths, NEW q \in Paths, Inside(Dir(p), Dir(q))
  PROVE  EventOf(q) = Global /\ IdOf(q) = EventOf(p)
<1>1. EventOf(p) \in Events \cup {Global} /\ EventOf(q) \in Events \cup {Global}
  BY DEF EventOf
<1>2. Len(Dir(q)) < Len(Dir(p))
  BY DEF Inside
<1>3. EventOf(q) = Global /\ EventOf(p) # Global
  BY <1>2 DEF Dir
<1>4. Dir(q) = <<IdOf(q)>> /\ Dir(p) = <<EventOf(p), IdOf(p)>>
  BY <1>3 DEF Dir
<1>5. SubSeq(Dir(p), 1, Len(Dir(q))) = Dir(q)
  BY DEF Inside
<1>6. IdOf(q) = EventOf(p)
  <2> DEFINE s == <<EventOf(p), IdOf(p)>>
  <2>1. SubSeq(s, 1, 1) = <<IdOf(q)>>
    BY <1>4, <1>5
  <2>2. SubSeq(s, 1, 1)[1] = s[1]
    OBVIOUS
  <2>3. <<IdOf(q)>>[1] = IdOf(q) /\ s[1] = EventOf(p)
    OBVIOUS
  <2>4. QED
    BY <2>1, <2>2, <2>3
<1>7. QED
  BY <1>3, <1>6

LEMMA IInvInit == Init => IInv
<1> SUFFICES ASSUME Init PROVE IInv
  OBVIOUS
<1>1. \A p \in Paths : Dir(p) \in Dirs
  BY DEF Dirs
<1>2. QED
  BY <1>1, TypeInit DEF Init, IInv, NoCollidingInstall, OnlySignedHooks

LEMMA IInvStep == IInv /\ [Next]_vars => IInv'
<1> SUFFICES ASSUME IInv, [Next]_vars PROVE IInv'
  OBVIOUS
<1>1. TypeOK'
  BY TypeStep DEF IInv
<1>2. ASSUME NEW r \in Results, NEW f \in Faults, InstallHook(r, f)
      PROVE IInv'
  <2> DEFINE d == Dir(r.path)
             o == Outcome(r, f)
  <2>1. d \in Dirs /\ r.path \in Paths
    BY DEF Dirs, Results
  <2>2. installed' = [installed EXCEPT ![d] = o.inst]
        /\ linked' = [linked EXCEPT ![d] = o.link]
    BY <1>2 DEF InstallHook
  <2>3. /\ o.inst \in Signed \cup {installed[d]}
        /\ o.link \in Signed \cup {linked[d]}
        /\ Collides(r.path) => o.inst = installed[d]
    BY OutcomeSigned
  <2>4. NoCollidingInstall'
    <3> SUFFICES ASSUME NEW p \in Paths, Collides(p)
                 PROVE installed'[Dir(p)] = None
      BY DEF NoCollidingInstall
    <3>1. Dir(p) \in Dirs
      BY DEF Dirs
    <3>2. CASE Dir(p) = d
      <4>1. p = r.path
        BY <3>2, <2>1, DirInjective
      <4>2. QED
        BY <4>1, <3>2, <2>1, <2>2, <2>3 DEF IInv, NoCollidingInstall, TypeOK
    <3>3. CASE Dir(p) # d
      BY <3>1, <3>3, <2>2 DEF IInv, NoCollidingInstall, TypeOK
    <3>4. QED
      BY <3>2, <3>3
  <2>5. OnlySignedHooks'
    BY <2>1, <2>2, <2>3 DEF IInv, OnlySignedHooks, TypeOK
  <2>6. QED
    BY <1>1, <2>4, <2>5 DEF IInv
<1>3. CASE ~\E r \in Results, f \in Faults : InstallHook(r, f)
  <2>1. UNCHANGED <<installed, linked>>
    BY <1>3 DEF Next, ReceivePods, ReceiveWatchError, ErrorReceived, ReceiveQuit,
                StopWatcher, IntentWrite, CloseQuit, Terminated, vars
  <2>2. QED
    BY <1>1, <2>1 DEF IInv, NoCollidingInstall, OnlySignedHooks
<1>4. QED
  BY <1>2, <1>3

(***************************************************************************)
(* installHook never installs or links a manifest the auth policy rejects. *)
(***************************************************************************)
THEOREM OnlySignedHooksInvariant == Spec => []OnlySignedHooks
  BY IInvInit, IInvStep, PTL DEF Spec, IInv

(***************************************************************************)
(* installHook's refusal of a global hook named like a hook type keeps     *)
(* every installed hook pod out of the directory of a hook type's hooks,   *)
(* whatever other event segments the intent store holds.                  *)
(***************************************************************************)
THEOREM HookTypeDirsNotNestedInvariant == Spec => []HookTypeDirsNotNested
<1>1. IInv => HookTypeDirsNotNested
  <2> SUFFICES ASSUME IInv, NEW p \in Paths, NEW q \in Paths,
                      EventOf(p) \in HookTypes,
                      installed[Dir(p)] # None, installed[Dir(q)] # None,
                      Inside(Dir(p), Dir(q))
               PROVE FALSE
    BY DEF HookTypeDirsNotNested
  <2>1. Collides(q)
    BY InsideGlobal DEF Collides
  <2>2. QED
    BY <2>1 DEF IInv, NoCollidingInstall
<1>2. QED
  BY <1>1, IInvInit, IInvStep, PTL DEF Spec

====
