----------------------------- MODULE DevDeploy -----------------------------
(***************************************************************************)
(* kctrl dev deploy (cli/pkg/kctrl/cmd/dev/deploy.go): DeployOptions.Run   *)
(* reconciles the App in memory; its BeforeAppReconcile hook starts a      *)
(* goroutine that tails the App's status, and after the reconcile Run      *)
(* sleeps 100 ms and returns, which ends the process and the goroutine     *)
(* with it.  Nothing orders the goroutine's steps with the sleep: the      *)
(* scheduler may run it for any number of steps, or none, before Run       *)
(* returns.                                                                *)
(*                                                                         *)
(* The reconcile is the engine of AppReconciler; the tailer (AppTailer,    *)
(* not in this repository's sources) is abstracted to what it prints: the *)
(* status it last showed.  It stops on a terminal condition, as            *)
(* printTillCurrent and printUpdate do for a reconciled App.              *)
(***************************************************************************)
EXTENDS AppReconciler

VARIABLES main,    \* where Run is: "before", "reconcile", "sleep", "exited"
          tailer,  \* the goroutine: "none", "started", "tailing", "done"
          shown    \* the status it last printed (Nil before its first read)

devVars == <<main, tailer, shown>>
vars == <<engineVars, devVars>>

Terminal(s) == s.cond \in {"ReconcileSucceeded", "ReconcileFailed"}

\* The process is alive until Run returns.
Alive == main # "exited"

DevInit == main = "before" /\ tailer = "none" /\ shown = Nil

\* The outcomes of printRs: a failed Get of the App or of the PackageInstall
\* only skips its print; an error of yaml.Marshal is returned.
printRs == {"ok", "marshalError"}

\* beforeAppReconcile: printRs, then the tailer goroutine is started.  An
\* error of printRs is returned and the App is not reconciled.
BeforeAppReconcile ==
    /\ main = "before"
    /\ \E r \in printRs :
         IF r = "ok" THEN main' = "reconcile" /\ tailer' = "started"
                     ELSE main' = "sleep" /\ UNCHANGED tailer
    /\ UNCHANGED <<shown, engineVars>>

\* The in-memory reconcile of the App.
Reconcile ==
    /\ main = "reconcile"
    /\ EngineNext
    /\ UNCHANGED devVars

\* reconciler.Reconcile returns (afterAppReconcile only prints in debug
\* mode); Run sleeps.
ReconcileReturns ==
    /\ main = "reconcile"
    /\ phase = "idle" /\ runs = MaxRuns
    /\ main' = "sleep"
    /\ UNCHANGED <<tailer, shown, engineVars>>

\* time.Sleep(100 ms) ends and Run returns reconcileErr.
Wake ==
    /\ main = "sleep"
    /\ main' = "exited"
    /\ UNCHANGED <<tailer, shown, engineVars>>

\* The goroutine's first read of the App.
TailerStart ==
    /\ Alive /\ tailer = "started"
    /\ shown' = obj
    /\ tailer' = IF Terminal(obj) THEN "done" ELSE "tailing"
    /\ UNCHANGED <<main, engineVars>>

\* The goroutine prints a status it has not shown yet.
TailerShow ==
    /\ Alive /\ tailer = "tailing"
    /\ obj # shown
    /\ shown' = obj
    /\ tailer' = IF Terminal(obj) THEN "done" ELSE "tailing"
    /\ UNCHANGED <<main, engineVars>>

Init == EngineInit /\ DevInit

Next ==
    \/ BeforeAppReconcile \/ Reconcile \/ ReconcileReturns \/ Wake
    \/ TailerStart \/ TailerShow

\* Run's own steps and the reconcile always proceed; the goroutine is
\* scheduled fairly while the process lives.
Spec ==
    /\ Init /\ [][Next]_vars
    /\ WF_vars(BeforeAppReconcile) /\ WF_vars(Reconcile)
    /\ WF_vars(ReconcileReturns) /\ WF_vars(Wake)
    /\ WF_vars(TailerStart) /\ WF_vars(TailerShow)

-----------------------------------------------------------------------------
(***************************************************************************)
(* When dev deploy returns, the tailer has printed the App's final status *)
(* (the TODO at the sleep: "app watcher needs a little time to run").     *)
(***************************************************************************)
FinalStatusShown == (main = "exited" /\ tailer # "none") => shown = obj
====
