# Verification of the node health monitor and its neighbours

TLA+ models, TLC runs and TLAPS proofs for the Go sources under `src/`.
Every definition is translated from the Go code. The line ranges are in
`PROJECT.json` under `map`.

## The system and its parts

| Part | Source | State | Concurrency |
|---|---|---|---|
| Reconciler: `MonitorPodHealth`, `updateHealthMonitors`, `updatePods` | `src/unnamed/part_000` 63-184 | the slice of `PodWatch`es; the reality store | one goroutine; a select between the 3 s poll timer and `shutdownCh` |
| Health worker: `PodWatch.MonitorHealth`, `checkHealth` | `src/unnamed/part_000` 190-210 | a buffered `shutdownCh` (capacity 1) and a health updater | one goroutine per supervised pod; a select between the 1 s timer and `shutdownCh` |
| `StatusChecker`: `Check`, `resultFromCheck`, `getBody` | `src/unnamed/part_000` 212-263 | none (pure classification of an HTTP outcome) | runs inside the worker |
| Label watch client: `Client.WatchMatches`, `sendOnChannel` | `src/pkg/grpc/labelstore/client/client.go` | an RPC context, a stream, and `outCh` | a canceller goroutine and a watcher goroutine, plus the consumer |
| Hook listener: `HookListener.Sync`, `installHook` | `src/pkg/preparer/listener.go` | hook pods on disk: the installed artifact, the current manifest, the linked hook scripts | a Sync loop fed by a pod watcher goroutine |
| Artifact verifiers: `CompositeVerifier`, `BuildManifestVerifier`, `BuildVerifier`, `noopVerifier` | `src/pkg/auth/artifact_verifier.go` 22-262 | the read position of the local copy (`*os.File`) | sequential, within the caller |
| Audit log store protocol | `src/pkg/grpc/auditlogstore/protos/audit_log_store.proto` | none | none |
| Pod cluster controller tests | `src/unnamed/part_001` | none | tests of code that is not in the repository |

How the parts interact:
- The reconciler spawns and stops the workers.
- Each worker uses its `StatusChecker`.
- Workers publish through the health manager. The reconciler closes that manager at shutdown.
- The label client and the hook listener are independent consumers of store watches. They use the same watch/retry pattern.
- The artifact verifiers are called by the launchable installation code, which is outside `src/`. That code passes them the downloaded artifact as an open file.

The behaviours that make this code hard to test:
- **Interleavings.** The reconciler and the workers run concurrently, and a stop may arrive while a probe is in flight.
- **Blocking channel sends.** These include the buffered `shutdownCh`, and `outCh` / `quitCh` in the label client.
- **Retry loops on a cancelled context.**
- **Partial failures inside one step.** Examples are a body-read error after the status code was read, and a failed `ListPods` that is treated as an empty list.
- **Shutdown without a join.** The reconciler does not wait for its workers before closing the health manager.

## Modules

### `HealthMonitor` (reconciler, workers, status checker)

The model has two kinds of process.

**The reconciler.** `rstate` is "starting", then "running", then "exited".
- `UpdateHealthMonitors(ok)` models one whole call of `updateHealthMonitors`, including `updatePods`. `ok` says whether `ListPods` succeeded. On failure, `Fetched` is an empty reality (`part_000:109-114`).
  - `Removed` / `Kept` are the first loop (129-145). A removed watch gets one send on its `shutdownCh` (`stopSent`).
  - `ToSpawn` / `NewWatches` are the second loop (148-181). A missing id with a non-zero port is spawned as a new worker.
- `Shutdown` is the `shutdownCh` case (87-92). It sends a stop to every watch, then `healthManager.Close()` (`hmClosed`), then returns.

**The workers.** Each `PodWatch` is identified by `<<pod id, generation>>`. A pod removed and re-added gets a new goroutine, so two workers of one id may coexist. `pc[w]` moves through these states:
- "unused", until `updatePods` spawns the worker;
- "idle", waiting in the worker's select;
- "probing", in `Client.Get`;
- "checked", once `resultFromCheck` has returned;
- back to "idle" after the `PutHealth` or the skip;
- "stopped", after observing `shutdownCh`.

`ProbeReturn(w, o)` ranges over every HTTP outcome `o`. An outcome is:
- a transport error, or
- a status code from `Codes` (199, 200 and 300 in the runs, the classification boundaries), combined with whether the body read failed.

`ResultFromCheck` is `resultFromCheck` (218-239).

**The environment.**
- `StoreWrite` changes a pod's entry in the reality store: present with a port, present with port 0, or `Absent`.
- `SignalShutdown` closes the reconciler's `shutdownCh`.

A select between a fresh `time.After` and a ready channel takes the channel, because the fresh timer cannot be ready yet. That is why two guards are in the model:
- a worker with a pending stop cannot start a probe (`StartProbe` needs `stopSent[w] = 0`);
- the reconciler does not take its timer while shutdown is pending.

### `LabelWatch` (gRPC label client)

`phase` follows the caller and then the watcher goroutine of `WatchMatches`: "call", "failed", "recv", "send", "sleep", "restart" and "done".
- `CancelOnQuit` is the canceller goroutine (51-57).
- `OpenStream` is the first RPC (59-66).
- `Recv` models lines 72-83. A `codes.Canceled` error ends the watcher; any other error leads to the retry loop.
- `RetrySleep` and `RestartStream` model the retry loop (84-96).
- `DropResponse`, `Deliver` and `AbandonOnQuit` model `sendOnChannel` (110-132).
- `labels` and `seen` version the label set on the server and at the consumer.

### `HookListener` (preparer hook synchronizer)

`sync` is Sync's control point:
- "select": in its select;
- "install": inside the loop over a manifest list;
- "senderr": blocked in `errCh <- err`;
- "quitting": blocked in `watcherQuit <- struct{}{}`;
- "done": returned.

Each intent path is a pair `<<event, pod id>>`. The event is a member of `Events` or `Global` (determineEvent's ""). determineEvent returns any first path segment, so `Events` is a constant of its own; the hook types (`HookTypes`, what `hooks.AsHookType` accepts) are a subset of it. `Dir` is `path.Join(DestinationDir, event, id)`, which drops an empty event. The pod id is the path's second segment. In the code it is `Manifest.ID()`, which the model takes to agree with the path.

Per directory, the file system state is three values:
- `installed`: the manifest whose pod `Install` put there;
- `onDisk`: the current manifest;
- `linked`: the manifest whose hook scripts `InstallHookScripts` linked.

`InstallHook(r, f)` models one `installHook` call together with the error send that follows it. `f` names the I/O step that fails, if any, up to `MaxFailures` failures. `Outcome` is the code's chain of early returns, in order:
1. authorization;
2. a global id that collides with a hook type;
3. an unreadable current manifest;
4. the SHA equal to the current manifest on disk;
5. a failed install;
6. a failed manifest write;
7. a failed link.

The pod watcher `kp.WatchPods` is outside `src/`. It is reduced to its channels: it delivers the current manifest list, reports errors, and takes the quit.

### `AbstractVerifier` and `ArtifactVerifier` (artifact verification)

`AbstractVerifier` is what an `ArtifactVerifier` promises, taken from the interface's and the composite's comments. It has two parts:
- The world of one call: the policy `mode`, the location's `scheme`, the artifact content `file`, whether the build manifest's signature is valid (`manSigned`), the content the manifest certifies (`manDigest`), and the content the detached signature signs (`buildSig`).
- A single `Decide` step. It may always reject, and it may accept only when `Trusted`.

`ArtifactVerifier` is one `VerifyHoistArtifact` call:
- `pc` is the call's control point:
  - "call";
  - "man": the manifest verifier;
  - "seek": the composite's `Seek(0)`;
  - "build": the build verifier;
  - "done".
- `pos` is the file's read position: "start", "mid" or "end".
- `Bytes` is what `ReadAll` returns from that position: the content, or `Empty`, or `Partial`.
- `ManifestCheck` and `BuildCheck` are each verifier's chain of early returns, in order. A download, temporary directory or `ReadFile` failure ("io") leaves the file untouched. A failed `ReadAll` ("readlocal") leaves it part read. OpenPGP and SHA-256 are abstracted to equality of contents.
- `faulted` is a history variable recording that some I/O step failed.
- `Verdict` maps the call's state to the abstract `result`. `AV == INSTANCE AbstractVerifier WITH result <- Verdict` is the refinement mapping.

## Runs

The health monitor runs use two pods `a` and `b` (model values), ports {0, 8080}, codes {199, 200, 300}, `MaxGen = 2` and `MaxStoreChanges = 2`.

| Run | Properties | Result |
|---|---|---|
| `hm_safety` (`MCHealthMonitor.cfg`, symmetry on the pods) | `TypeOK`, `NoOrphanWorker`, `StopSendNeverBlocks`, `SingleSupervision` | pass, about 2.1 M distinct states |
| `hm_liveness` (`MCHealthMonitorLive.cfg`, one pod) | `StoppedWorkerExits`, `ShutdownStopsAllWorkers` | pass |
| `hm_sequential_probing` | `SequentialProbing` (spec §4.2) | violated |
| `hm_put_after_close` | `NoPutAfterManagerClose` (spec §9) | violated |
| `hm_classification_published` | `ClassificationPublished` (spec §4.1, §7) | violated |
| `hm_supervised_matches_snapshot` | `SupervisedMatchesSnapshot` (spec §3) | violated |
| `lw_safety` (`MCLabelWatch.cfg`) | `ClosedOnlyAfterQuit` | pass |
| `hl_safety` (`MCHookListener.cfg`) | `HookTypeDirsNotNested`, `OnlySignedHooks`, `HooksInstalled` | pass, about 910 k distinct states |
| `hl_hooks_linked` | `HooksLinked` (Sync's doc comment) | violated |
| `hl_nested_hook_dirs` | `NoNestedHookDirs` (the comment at `listener.go:94-96`) | violated |
| `lw_quit_ends_watch` | `QuitEndsWatch` (the comment at `client.go:75`) | violated |
| `av_safety` (`MCArtifactVerifier.cfg`) | `FaultFreeVerdict`, `ImplementsAbstract` | pass, about 1.4 k distinct states |

The hook listener runs use:
- one hook type `E`, and one event segment `F` that is not a hook type;
- the paths `E/x`, `F/x`, and the global hooks `E` and `F`, named like the two segments;
- two signed manifests and one unsigned;
- one intent write, and one I/O failure (two in the violation runs).

That is enough to fail each step of `installHook` and retry it, to replace a manifest by an unsigned one or delete it, and to meet both kinds of global id that equal an event segment.

The artifact verifier run covers:
- two artifact contents;
- the schemes `https`, `s3` (rejected by the switch) and `unparsable`;
- all four policies;
- every combination of manifest signature, manifest digest and detached signature;
- each fault (none, early I/O, a partial `ReadAll`) at each verifier, and a failing or succeeding `Seek`.

Two contents are enough to tell a matching digest or signature from a wrong one. The partial read and the end of the file are distinct values, so a verifier reading from the wrong position is caught.

**Bounds.**
- With two generations, a pod can be removed and re-added once.
- With two store changes, that remove/re-add can happen, or a change to port 0, or one change for each pod, all interleaved with every worker step.
- Two pods are enough to interleave one pod's stop with another's spawn.
- With symmetry, the run finishes in about 70 s.
- The liveness run uses one pod, since liveness cannot be checked under symmetry.

**What the violations show.**
- **`SequentialProbing`:** a pod can be removed and re-added while the old worker's GET is in flight. The new worker probes concurrently with it.
- **`NoPutAfterManagerClose`:** shutdown closes the manager while stopped workers may still call `PutHealth`.
- **`ClassificationPublished`:** when the body read fails, `checkHealth` drops the classified result. Spec §7 says the classification is still honoured.
- **`SupervisedMatchesSnapshot`:** the identity-only diff keeps a pod whose port changed to 0.
- **`HooksLinked`:** when `InstallHookScripts` fails after the current manifest was written, the SHA comparison at `listener.go:121` skips the hook on every later sync. Its scripts are never linked.
- **`NoNestedHookDirs`:** determineEvent accepts any first segment, but `installHook` refuses only global ids that are hook types. A global hook `F` is installed at the directory that holds the hooks of `/hooks/F/x`.
- **`QuitEndsWatch`:** the label client's retry loop never leaves once the context is cancelled.

**Mutants.** Each passing property has a mutant of the code that TLC shows breaks it (`PROJECT.json`, `mutants`):
- 1xx answers left unclassified;
- the shutdown loop not sending stops;
- removed pods kept;
- the `missing` check dropped;
- a worker that keeps looping after its stop;
- a worker that ignores a pending stop;
- every stream error closing `outCh`;
- installHook without authorization;
- installHook without the collision check;
- the current manifest written before the install;
- the composite not rewinding the file before its fallback;
- the composite ignoring a failed `Seek`.

## Fairness

Only the behaviour of goroutines is assumed fair. There is weak fairness on:
- the reconciler;
- every worker's `ProbeReturn`, `PutHealth` and `ObserveStop`;
- the label client's canceller and watcher steps;
- Sync's receive of the manifest list;
- `installHook` (I/O failures are bounded, so a call without failure eventually happens);
- the caller draining `errCh`;
- the pod watcher taking its quit.

The Go scheduler runs every runnable goroutine. Each fairness condition covers an action that stays enabled until it is taken: a receive on a ready channel, or the return of a call.

Two things are deliberately not assumed fair: the environment (store writes, shutdown, quit, label changes) and `StartProbe`.
- `ProbeReturn` assumes the GET returns. The code has no timeout of its own (`part_000:243`). That assumption is recorded as an open hazard.

## Proofs (TLAPS)

The theorems below are proved for every value of the constants allowed by the `ASSUME`s. In the `ASSUME`s, `Ids` is non-empty, `Ports` contains 0, and the bounds are naturals.

- `HealthMonitorProofs!TypeCorrect`: `Spec => []TypeOK`.
- `HealthMonitorProofs!SafetyInvariant`: `Spec => []Safety`, and the corollaries `NoOrphanWorkerInvariant`, `StopSendNeverBlocksInvariant` and `SingleSupervisionInvariant`.
  - `Safety` is not inductive by itself. The strengthening `IInv` adds two conjuncts:
    - `CurrentRunning`: every watch in the slice is live and has no pending stop.
    - `FreshGenerations`: a generation not yet spawned is "unused" and has no stop sent.
  - `FreshGenerations` is what makes a newly spawned worker harmless: it cannot already have a stop or a running goroutine.
  - `IInv` was checked with TLC as an invariant before it was proved.
  - The step lemma has one case per action class: worker, environment, update and shutdown.
- `LabelWatchProofs!ClosedOnlyAfterQuitInvariant`: `Spec => [](TypeOK /\ ClosedOnlyAfterQuit)`. It is proved from the strengthening `CancelledOnlyByQuit`: the context is cancelled only after quit, or by the failed first RPC, which leaves the watcher unstarted.

- `HookListenerProofs`:
  - `TypeCorrect`;
  - `OnlySignedHooksInvariant`;
  - `HookTypeDirsNotNestedInvariant`: no installed hook pod lies inside the directory of a hook type's hooks, for every set of hook types and event segments. Its strengthening `NoCollidingInstall` says that the directory of a global path whose id is a hook type never holds an installed pod. The lemmas it rests on:
    - `DirInjective`: distinct paths have distinct directories;
    - `InsideGlobal`: a directory lies inside another only when the outer one is a global hook's and its id is the inner one's event.

- `ArtifactVerifierProofs`:
  - `TypeCorrect`.
  - `Refinement`: `Spec => ImplementsAbstract`, i.e. the verifiers implement `AbstractVerifier`, for any artifacts and schemes. This rests on the assumptions that `Empty` and `Partial` are no artifact and no signature (`BytesAssumption`).
    - The proof follows the usual refinement layout: `Init => AV!Init`, and every step under the invariant `TypeOK /\ PcMode` is an `AV!Decide` or leaves `<<world, Verdict>>` unchanged.
    - `PcMode` says that each verifier runs only under a policy that calls it.
    - The lemma `BytesArtifact` says that a read that matches an artifact or a signature was made from the start of the file. Only that makes an accepted digest or signature say something about the artifact.
  - `FaultFreeVerdictInvariant`: `Spec => []FaultFreeVerdict`. Its strengthening `FaultFree` adds two facts that hold without faults:
    - the file is at its start whenever a verifier is about to read it;
    - the fallback is taken only when the manifest does not vouch for the artifact.

**Only model-checked.** Every safety invariant of a passing run is stated by a theorem above. The liveness properties `StoppedWorkerExits`, `ShutdownStopsAllWorkers` and `HooksInstalled` are only model-checked, because the proof system does not handle liveness under fairness or ENABLED. The violations are also TLC results. No module with a theorem uses recursion.

## Not modelled yet, and the plan

1. **The blocking sends of `Sync`** (`listener.go:52,56,62`). Checking them needs models of `kp.WatchPods` and of Sync's caller, neither of which is in `src/`.
2. **An abstract "supervised set" specification** of the reconciler, refined by `HealthMonitor` through a mapping from `current`.
3. **More proofs.** For example, that `ResultFromCheck` respects the 2xx boundary for every code.

The audit log proto and the pod cluster test file have no behaviour to model.

The artifact verifier model leaves out three things:
- its constructors and `LoadKeyring`, which only build the verifiers;
- the cryptography, which is abstracted to equality of contents;
- what the caller does with the file after a successful verification, which is outside `src/`.
