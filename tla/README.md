# TLA+ models of kapp-controller's App status pipeline

These modules model the parts of this repository that read, write and guard the
status of an App:

- how the kctrl CLI tails that status;
- how a PackageRepository's hooks block deletion and persist status;
- how raw kapp options are restricted.

Each module is translated from the code under `src/`. The reconciliation engine and
the flag-set gate are not under `src/`, so they are modelled from `spec.md` and marked
`spec_modelled` in `PROJECT.json`.

## The system and how its parts interact

| Part | Code | Role |
|---|---|---|
| Reconciliation engine (`App.Reconcile`) | not under `src/`; spec 3, 4.1, 5, 7 | Runs Fetch, Template, Deploy. After every step it persists the AppStatus through `Hooks.UpdateStatus`. It calls `Hooks.BlockDeletion` before deploying and `Hooks.UnblockDeletion` after the delete path. |
| PackageRepository hooks (`pkgrepository.CRDApp`) | `src/unnamed/part_000` | The three hooks for a PackageRepository. Each one Gets the latest object and then calls Update or UpdateStatus. The API server rejects that write if the object changed in between. |
| App watcher (`AppWatcher`) | `src/cli/pkg/kctrl/cmd/app/app-watcher.go` | Reads the App once (`printTillCurrent`). Then it runs a shared informer whose UpdateFunc (`printUpdate`) prints stage lines and calls `stopWatch` on terminal states. `TailAppStatus` blocks until `stopperChan` is closed. |
| kapp flag allow-lists | `src/pkg/deploy/kapp_restrict.go` | The flags an App's `rawOptions` may pass to kapp deploy, inspect and delete. |
| `kctrl dev deploy` | `src/cli/pkg/kctrl/cmd/dev/deploy.go` | Runs the local reconciler with a tailer goroutine and sleeps 100 ms before returning. |

The components interact in two places:

- **Watcher and engine.** The engine writes status snapshots and the watcher reads them through an informer. The informer can coalesce several writes into one update, and it re-delivers the cached object every 30 minutes.
- **Hooks and the world around them.** The hooks race user edits and deletion on the same object. The engine chooses the live path or the delete path from a cached copy that may lag behind the stored object.

## Modules

| Module | Models | State | Actions |
|---|---|---|---|
| `AppStatusView` | `printTillCurrent`, `printUpdate`, `hasReconciled`, `stopWatch` (app-watcher.go 40-118, 175-182, 214-216) | none (operators) | `printTillCurrent(status)` returns a verdict `[stage, failed]`. `printUpdate(old, new)` returns the effects in code order: a line, `"stop"` for a `close(stopperChan)`, or `"nil"` for a nil dereference. `RunEffects` (RECURSIVE) applies them to the channel. |
| `AppReconciler` | the engine as the writer of the status (spec_modelled) | `clock`, `phase`, `runs`, `obj` (persisted status plus a ghost `truth` of each stage's real outcome) | `ReconcileStart`, `FetchStart` (a restarted stage keeps the previous ExitCode and UpdatedAt and gets a new StartedAt: `Restarted`), `FetchDone`, `TemplateDone`, `DeployStart`, `DeployProgress`, `DeployDone`, `ReconcileComplete`, `Abandon` |
| `AppTailing` | `TailAppStatus` with the informer and its listener (app-watcher.go 184-223); extends `AppReconciler` | `tail`, `cache`, `queue` of `<<old,new>>` notifications, `closed`, `panic`, `lastLines` | `TailStart` (initial read and early return), `InformerSync` (the informer's list), `CacheSynced` (WaitForCacheSync returns, or gives up when `stopperChan` is already closed), `InformerObserve` (watch event or coalescing relist), `InformerResync`, `HandleUpdate` (`udpateEventhandler` → `printUpdate`), `TailReturn` |
| `CRDApp` | `blockDeletion`, `unblockDeletion`, `updateStatus`/`updateStatusOnce`, `updatePackageRepository` (part_000 46-123), driven by a spec_modelled engine, a user and an informer | `store`, `cache`, `pkgrModel`, `pc`, `fetched`, `dirty` (the resourceVersion moved since our Get), `attempt`, `sv`, `deployed`, `recs`, `edits`, `faults` | each Get and each write is its own action (`BlockGet`/`BlockUpdate`, `UnblockGet`/`UnblockUpdate`, `StatusGet`/`StatusPut`); every Get may fail transiently, and every write goes through `Call`, which can succeed, be rejected, fail with no effect, or be applied with its reply lost; plus `ReconcileStart`, `Deploy`, `StatusFailed`, `DeleteDeploy`, `UserEdit`, `UserDelete`, `InformerSync` |
| `DeletionGate` | the abstract promise of the deletion hooks (spec 4.1, 6) | `exists`, `deleting`, `deployed` | `Apply`, `MarkDeleted` (may go at once when nothing is deployed), `RemoveResources`, `Vanish`; weak fairness on the last two |
| `DevDeploy` | `DeployOptions.Run`, `beforeAppReconcile`, `afterAppReconcile` (deploy.go 62-115); extends `AppReconciler` | `main`, `tailer`, `shown` (the status the tailer goroutine last printed) | `BeforeAppReconcile` (`printRs` returns a marshalling error, or the goroutine is started), `Reconcile` (engine steps), `ReconcileReturns`, `Wake` (the 100 ms sleep ends; the process exits), `TailerStart`, `TailerShow` |
| `KappRestrict` | the allow-lists (kapp_restrict.go 11-84) and the `rawOptions` fields (92-102); the gate (`exec.NewFlagSet` and the check, spec 4.3) is spec_modelled | `op`, `opts`, `result` | `Build` (`BuildInvocation`, a recursive first-offender walk) |

`MCAppReconciler`, `MCAppTailing`, `MCCRDApp`, `MCDevDeploy` and `MCKappRestrict` give the constants their bounds.

### Abstractions

- **Times** are whole seconds. metav1.Time is serialised to the second and the code compares `.Unix()` values. The zero time is 0, which is below every clock value.
- **Text** (Stdout, Stderr, colours, ages) is left out. A printed line is `<<stage, verdict>>`.
- **Conditions.** The conditions list is reduced to the single condition the engine keeps.
- **Finalizers.** Finalizers are lists, as in ObjectMeta, so that a duplicate name can be seen. `removeString` removes every occurrence.
- **Resource versions.** In `CRDApp` the resourceVersion is reduced to `dirty`.
- **API faults.** A transient error (timeout, dropped connection, server error) is one of `MaxApiFaults` faults. On a Get it means no object came back. On an Update or UpdateStatus it means one of two things: the request never took effect, or the server applied the write and the reply was lost. In both cases the code sees only `err != nil`: `updateStatus` starts its next round, and `blockDeletion` and `unblockDeletion` return the error to the engine, which ends the reconcile (spec 7). No partial finalizer state is assumed by the code; the lost reply is how the model creates one.
- **Status content.** The status content is reduced to the number of the engine status it came from.
- **Raw options.** A raw option is a record `[name, value]`. `OptionText` puts the record back together as `name=value`, and `FlagName` splits it at `=`.

## Runs

| Run | Expect | Bounds | What it shows |
|---|---|---|---|
| `AppReconciler_verdicts` | pass (4170 states) | 2 runs, clock 1..4 | `ReconciledVerdict`: "reconciled" is reported exactly for ReconcileSucceeded, even when stages share seconds. |
| `AppReconciler_FetchVerdictCurrent` | violation | same | Run 2's fetch restarts in the second run 1's fetch ended. The kept UpdatedAt equals the new StartedAt, so the running fetch is not reported (line 46). Had the old fetch failed, its failure would be reported as current (line 42). |
| `AppReconciler_ReportedFailureIsCurrent` | violation | same | The previous run's Deploy failure is reported while the new run is about to deploy (line 66). |
| `AppReconciler_CurrentFailureReported` | violation | same | A Template failure in the same second as Fetch start is missed (strict `<`, line 54). |
| `AppTailing_liveness` | pass (277548 states, ~2 min) | 1 run, clock 1..3, at most 2 pending changes plus one resync | `ReconciledEndsTailing`: if the App ends up reconciled, the watcher stops. |
| `AppTailing_NoNilDereference` | violation | same | A first-run fetch failure dereferences the nil Template (line 87). |
| `AppTailing_NoDoubleClose` | violation | same | A resync handled after the reconciled update closes `stopperChan` twice (line 116). |
| `AppTailing_NoContradictoryLines` | violation | same | "Template failed" is followed by "Template succeeded" (lines 96-99). |
| `AppTailing_FailedEndsTailing` | violation | same | A deploy failure delivered to the watcher as an update never stops it: the Deploy failure test reads the Template exit code (line 107). The premise asks for the failure to come after the informer's list; a failure that lands before it is redelivered by the controller's next run, so it only delays the stop. |
| `CRDApp_hooks` | pass (73138 states) | 3 live reconciles, 2 user edits, 2 transient API errors, both finalizer names | Three properties are checked. `ImplementsDeletionGate`: under the mapping `exists <- store.exists`, `deleting <- store.deleting`, `deployed <- deployed`, every behaviour of CRDApp is one of `DeletionGate`'s, fairness included. So the object never goes while its App is deployed, and a deleted object is undeployed and goes, whichever finalizer name it carries. `NoDuplicateFinalizers`: no name is listed twice, although blockDeletion's fast path reads a possibly stale cached copy. `StatusPersistedDespiteConflicts`: with fewer failed rounds (conflicting edits and transient errors) than the 5 rounds of `updateStatus`, the engine's status is persisted. All three hold when the transient error falls on any call: a lost reply of `blockDeletion` leaves the finalizer on the object while the reconcile ends, and the next one does not add it twice; a lost reply of `unblockDeletion` removes the object, and the requeued delete path ends at NotFound. |
| `DevDeploy_FinalStatusShown` | violation | 1 run, clock 1..3 | Run can return after its 100 ms sleep before the tailer printed the final status (deploy.go:84, the TODO there). |
| `KappRestrict_gate` | pass (6666 states) | 3 ops × every option sequence of length ≤ 3 over one flag of each kind (shared, change, deploy-only, inspect-only, none), bare or with a value | `TypeOK`: the gate rejects only a flag name the raw options carried, split from its value at `=`. |

Each property of a passing run has a mutant in `PROJECT.json`. The mutant is a plausible bug in the mapped definition, and TLC finds it. Examples:

- `>=` for the strict `>` of line 58;
- 4 rounds instead of 5 in `updateStatus`;
- unblocking only the current finalizer name;
- the whole option looked up instead of its name.

Type invariants are checked only where such a mutant breaks them (`KappRestrict`). Elsewhere the types hold by the shape of the model: a mutant could only move a bound of the model, not of the code.

### Bounds

- **Two engine runs.** This is the least number that leaves a stale stage status behind for the next run.
- **Clock of four seconds.** This is enough for stages to share a second and to be strictly ordered.
- **Tailing model.** The tailing model uses one run. The queue bound of 2 pending changes plus one resync lets the handler see a coalesced change and a resync behind a terminal update. Two runs of the tailing model exceed the time budget.
- **Two user edits and two transient errors in `CRDApp`.** Together they are one fewer than the rounds of `updateStatus`, so every round but the last can fail, by a conflict or by an error. With two errors, one behaviour can lose the reply of the block and then of the unblock, or fail a Get after a lost write. Any more failures could exhaust `updateStatus`, and `StatusPersistedDespiteConflicts` assumes they do not.

### Fairness

- **Engine and controller.** Weak fairness on the engine and on the controller's work queue. Both requeue an App until it is reconciled.
- **Informer and watcher.** Weak fairness on each informer and watcher action. The informer goroutine and the listener run as long as `stopperChan` is open.
- **dev deploy.** `DevDeploy` states weak fairness on Run's steps and on the tailer goroutine while the process lives, but its one run checks an invariant. Nothing makes the goroutine run before the 100 ms sleep ends, so `Wake` is not ordered after any tailer step. Run never joins the goroutine, so that it returns holds by construction and is not checked.
- **No fairness for the user.** Edits and deletions may stop at any time.
- **Deadlock.** Deadlock is not checked (`CHECK_DEADLOCK FALSE`). The bounded models stop when the run or edit counters are used up, and the real system would go on requeueing.

## Not modelled

- **Rendering in app-watcher.go.** Nothing under `src/` calls `PrintInfo`, `metricString` or `statusString`. `PrintInfo`, `metricString`, `statusString`, `printLogLine`, `indentMessageBlock` and `prettyPrint` only render text. `statusString` indexes `Conditions[0]` without a length check and panics for an App that has no condition yet. That shows from the first status of every App, and a unit test reaches it; there is nothing to explore.
- **Parts of `kctrl dev deploy`.** Its tailer (`NewAppTailer`) is not the watcher of this repository, so `DevDeploy` keeps only what the tailer has printed. It stops on a terminal condition. `printRs` is kept as its outcomes: the Get errors it ignores, and the marshalling error it returns. `hackyConfigureKubernetesDst` is never called in this repository. `afterAppReconcile`'s debug `printRs` only prints; its error goes to the local reconciler, which is not under `src/` and which the spec does not describe.
- **A property for WaitForCacheSync's race (app-watcher.go:207).** `AppTailing` models it: an update handled between the informer's list and WaitForCacheSync's poll can close `stopperChan`, and `CacheSynced` then ends in `timedOut`. That is the "Timed out waiting for caches to sync" error, returned for an App that just reconciled. When the channel is already closed, the poll's select may take either branch, so `CacheSynced` may also go on to `wait`. The liveness run reaches both outcomes. A property of the return value would need a violation run of its own, so the race is listed as a hazard and not checked.
- **The flag gate's agreement with the spec's allow-list.** It would only restate the list compositions of kapp_restrict.go, and the gate itself is modelled from the spec.
- **Fetch, template and deploy tools, and the reference tracker.** These are not under `src/`.

## Why there is no abstract spec of the watcher

An abstract spec of the watcher would say that it stops exactly when the App reaches a terminal status. `AppTailing` could only refine it under a handler different from the code: the four `AppTailing` violation runs each break that promise. The refinement in this project is therefore the one the code meets, `CRDApp` implementing `DeletionGate`.
