--------------------------- MODULE AppReconciler ---------------------------
(***************************************************************************)
(* The reconciliation engine (App.Reconcile) as seen through the status it *)
(* persists.  Its code is not part of this repository's sources; the       *)
(* module follows spec.md sections 3, 4.1, 5 and 7.  One reconcile run     *)
(* marks the App Reconciling, then runs Fetch, Template and Deploy in      *)
(* order, stops at the first failing stage, and records ReconcileSucceeded *)
(* or ReconcileFailed.  Each step writes the in-memory status and persists *)
(* it through Hooks.UpdateStatus in the same action.  A run may be         *)
(* abandoned between two steps: the caller cancels it, or UpdateStatus     *)
(* exhausted its retries (spec 5, 7); the next run starts from whatever   *)
(* was last persisted, stale stage statuses included.                     *)
(*                                                                         *)
(* obj is the persisted status, a snapshot as described in AppStatusView. *)
(* The engine's in-memory status equals it: every step persists, and a run *)
(* that stops early leaves the next run to start from obj.  The ghost      *)
(* field truth records each stage's real outcome in the run that wrote    *)
(* the snapshot.                                                           *)
(***************************************************************************)
EXTENDS AppStatusView

CONSTANTS MaxRuns,   \* bound on reconcile runs (the real controller requeues forever)
          MaxClock   \* bound on the wall clock, in seconds

ASSUME MaxRuns \in Nat \ {0} /\ MaxClock \in Nat \ {0}

VARIABLES clock,   \* the wall clock, whole seconds
          phase,   \* where the engine is in its run
          runs,    \* runs started so far
          obj      \* persisted AppStatus (with ghost truth)

engineVars == <<clock, phase, runs, obj>>

Time == 1..MaxClock
Outcomes == {"none", "running", "ok", "failed"}
ExitCodes == {0, 1}

FetchStatus == [startedAt: Time, updatedAt: Time \cup {ZeroTime}, exit: ExitCodes]
TemplateStatus == [updatedAt: Time, exit: ExitCodes]
DeployStatus == [startedAt: Time, updatedAt: Time \cup {ZeroTime},
                 exit: ExitCodes, finished: BOOLEAN]
Truth == [run: 0..MaxRuns, fetch: Outcomes, template: Outcomes, deploy: Outcomes]
Snapshot == [fetch: FetchStatus \cup {Nil}, template: TemplateStatus \cup {Nil},
             deploy: DeployStatus \cup {Nil},
             cond: {"none", "Reconciling", "ReconcileSucceeded", "ReconcileFailed"},
             truth: Truth]

\* A newly created App: empty status.
NewApp == [fetch |-> Nil, template |-> Nil, deploy |-> Nil, cond |-> "none",
           truth |-> [run |-> 0, fetch |-> "none", template |-> "none", deploy |-> "none"]]

Outcome(exit) == IF exit = 0 THEN "ok" ELSE "failed"
RunFailed(s) == "failed" \in {s.truth.fetch, s.truth.template, s.truth.deploy}

\* Every step ends with Hooks.UpdateStatus: the new in-memory status is persisted.
Write(s) == obj' = s

\* A step takes less than a second or a little more: the time it stamps is
\* the clock now or one second later (at most MaxClock).
Elapse == clock' \in {clock, clock + 1} \cap Time

EngineInit ==
    /\ clock = 1
    /\ phase = "idle"
    /\ runs = 0
    /\ obj = NewApp

\* Reconcile: mark Reconciling and start a run; stage statuses of the
\* previous run stay as they were.
ReconcileStart ==
    /\ phase = "idle" /\ runs < MaxRuns
    /\ Elapse
    /\ runs' = runs + 1
    /\ phase' = "fetch"
    /\ Write([obj EXCEPT !.cond = "Reconciling",
                         !.truth = [run |-> runs + 1, fetch |-> "none",
                                    template |-> "none", deploy |-> "none"]])

\* A stage (re)started at time t: StartedAt = t; the ExitCode and UpdatedAt
\* of the previous run stay until the stage reports (spec 3, 8: a stage
\* with UpdatedAt < StartedAt is in progress from a new run).
Restarted(stage, fresh, t) ==
    IF stage = Nil THEN fresh ELSE [stage EXCEPT !.startedAt = t]

\* Fetch started.
FetchStart ==
    /\ phase = "fetch"
    /\ Elapse
    /\ phase' = "fetching"
    /\ Write([obj EXCEPT !.fetch = Restarted(@, [startedAt |-> clock', updatedAt |-> ZeroTime,
                                                exit |-> 0], clock'),
                         !.truth.fetch = "running"])
    /\ UNCHANGED runs

\* Fetch completed with exit code e; a failure ends the pipeline.
FetchDone ==
    /\ phase = "fetching"
    /\ Elapse
    /\ \E e \in ExitCodes:
        /\ phase' = IF e = 0 THEN "template" ELSE "complete"
        /\ Write([obj EXCEPT !.fetch.updatedAt = clock', !.fetch.exit = e,
                             !.truth.fetch = Outcome(e),
                             !.truth.template = IF e = 0 THEN "running" ELSE @])
    /\ UNCHANGED runs

\* Template completed: the Template status records UpdatedAt and the exit code.
TemplateDone ==
    /\ phase = "template"
    /\ Elapse
    /\ \E e \in ExitCodes:
        /\ phase' = IF e = 0 THEN "deploy" ELSE "complete"
        /\ Write([obj EXCEPT !.template = [updatedAt |-> clock', exit |-> e],
                             !.truth.template = Outcome(e)])
    /\ UNCHANGED runs

\* Deploy started.
DeployStart ==
    /\ phase = "deploy"
    /\ Elapse
    /\ phase' = "deploying"
    /\ Write([obj EXCEPT !.deploy = Restarted(@, [startedAt |-> clock', updatedAt |-> ZeroTime,
                                                  exit |-> 0, finished |-> FALSE], clock'),
                         !.truth.deploy = "running"])
    /\ UNCHANGED runs

\* The deploy tool reports progress: UpdatedAt moves, Finished stays false.
DeployProgress ==
    /\ phase = "deploying"
    /\ Elapse
    /\ obj.deploy.updatedAt # clock'
    /\ Write([obj EXCEPT !.deploy.updatedAt = clock'])
    /\ UNCHANGED <<runs, phase>>

\* Deploy finished with exit code e.
DeployDone ==
    /\ phase = "deploying"
    /\ Elapse
    /\ \E e \in ExitCodes:
        Write([obj EXCEPT !.deploy.updatedAt = clock', !.deploy.exit = e,
                          !.deploy.finished = TRUE, !.truth.deploy = Outcome(e)])
    /\ phase' = "complete"
    /\ UNCHANGED runs

\* The run's terminal condition.
ReconcileComplete ==
    /\ phase = "complete"
    /\ Elapse
    /\ phase' = "idle"
    /\ Write([obj EXCEPT !.cond = IF RunFailed(obj) THEN "ReconcileFailed"
                                  ELSE "ReconcileSucceeded"])
    /\ UNCHANGED runs

\* The run is abandoned between two steps: cancelled by the caller, or a
\* status write failed after its retries.  Nothing more is persisted.
Abandon ==
    /\ phase # "idle"
    /\ phase' = "idle"
    /\ UNCHANGED <<clock, runs, obj>>

EngineNext ==
    \/ ReconcileStart \/ FetchStart \/ FetchDone \/ TemplateDone
    \/ DeployStart \/ DeployProgress \/ DeployDone \/ ReconcileComplete
    \/ Abandon

\* The persisted statuses alone; the controller keeps reconciling.
EngineSpec == EngineInit /\ [][EngineNext]_engineVars /\ WF_engineVars(EngineNext)

-----------------------------------------------------------------------------
(***************************************************************************)
(* What printTillCurrent makes of every status the engine persists: the    *)
(* first thing a watcher started at that moment prints.                    *)
(***************************************************************************)
Now == printTillCurrent(obj)

(***************************************************************************)
(* Once the current run has started its fetch, printTillCurrent stops at   *)
(* the Fetch stage exactly while that fetch is running or has failed, and  *)
(* reports it failed exactly when it failed: the ExitCode and              *)
(* UpdatedAt >= StartedAt test of printTillCurrent, on a Fetch status the  *)
(* engine wrote fresh at fetch start.                                      *)
(***************************************************************************)
FetchVerdictCurrent ==
    obj.truth.fetch # "none" =>
        /\ (Now.stage = "fetch") <=> (obj.truth.fetch \in {"running", "failed"})
        /\ Now.stage = "fetch" => (Now.failed <=> obj.truth.fetch = "failed")

(***************************************************************************)
(* printTillCurrent reports a reconciled App exactly when the persisted    *)
(* App carries ReconcileSucceeded: none of its earlier returns (a stage    *)
(* failed, fetch or template started, by timestamp comparison) fires on    *)
(* the status of a run that succeeded, whatever seconds its stages shared. *)
(***************************************************************************)
ReconciledVerdict ==
    (Now.stage = "reconciled") <=> (obj.cond = "ReconcileSucceeded")

CurrentFailureReported ==
    RunFailed(obj) => Now.failed

=============================================================================
