---------------------------- MODULE AppTailing ----------------------------
(***************************************************************************)
(* The App watcher of kctrl (AppWatcher.TailAppStatus, app-watcher.go)     *)
(* tailing the status that the reconciler persists.                        *)
(*                                                                         *)
(* TailAppStatus reads the App once and calls printTillCurrent; unless     *)
(* that reports a failure or a reconciled App it starts a shared informer  *)
(* on the App, waits for its cache to sync and blocks on stopperChan.     *)
(* The informer turns every change of the persisted object into an        *)
(* UpdateFunc(old, new) notification, old being its cached copy; a relist *)
(* after a broken watch coalesces several changes into one notification, *)
(* and the 30-minute resync delivers UpdateFunc(cached, cached).           *)
(* Notifications are handled one at a time, in order, by the listener    *)
(* goroutine; the handler is printUpdate, which calls stopWatch (close of  *)
(* stopperChan) on what it takes for a terminal state.  A notification    *)
(* already queued when the channel is closed may still be handled before  *)
(* TailAppStatus returns and the command exits.                           *)
(***************************************************************************)
EXTENDS AppReconciler, FiniteSets

CONSTANT MaxQueue   \* bound on undelivered change notifications

ASSUME MaxQueue \in Nat \ {0}

VARIABLES tail,      \* TailAppStatus: "start", "sync", "listed", "wait",
                     \* "done", "timedOut" or "crashed"
          cache,     \* the informer's cached App status
          queue,     \* notifications <<old, new>> not yet handled
          closed,    \* stopperChan has been closed
          panic,     \* "none", or why the handler panicked
          lastLines  \* the lines printed by the last handled notification

watcherVars == <<tail, cache, queue, closed, panic, lastLines>>
vars == <<engineVars, watcherVars>>

Lines == (Stages \cup {"app"}) \X {"started", "failed", "succeeded", "progressing", "reconciled"}

WatcherInit ==
    /\ tail = "start"
    /\ cache = Nil
    /\ queue = <<>>
    /\ closed = FALSE
    /\ panic = "none"
    /\ lastLines = {}

\* TailAppStatus, up to starting the informer: print what the App shows now
\* and return at once on a failure or a reconciled App.
TailStart ==
    /\ tail = "start"
    /\ tail' = IF Now.failed \/ Now.stage = "reconciled" THEN "done" ELSE "sync"
    /\ UNCHANGED <<cache, queue, closed, panic, lastLines, engineVars>>

\* go informer.Run: the informer lists the App (a later version than the
\* one printed); from now on HasSynced is true and the listener runs.
InformerSync ==
    /\ tail = "sync"
    /\ tail' = "listed"
    /\ cache' = obj
    /\ UNCHANGED <<queue, closed, panic, lastLines, engineVars>>

\* WaitForCacheSync's poll sees HasSynced and TailAppStatus goes on to
\* wait on stopperChan.  When stopperChan is already closed the poll's
\* select may take the closed channel instead: WaitForCacheSync returns
\* false and TailAppStatus returns "Timed out waiting for caches to sync".
CacheSynced ==
    /\ tail = "listed"
    /\ tail' \in IF closed THEN {"timedOut", "wait"} ELSE {"wait"}
    /\ UNCHANGED <<cache, queue, closed, panic, lastLines, engineVars>>

Listening == tail \in {"listed", "wait"}

InformerRunning == Listening /\ ~closed

\* A resync notification carries the cached object as both old and new.
IsResync(n) == n[1] = n[2]
Pending(resync) == {i \in 1..Len(queue) : IsResync(queue[i]) = resync}

\* The informer sees the persisted App differ from its cache (a watch event,
\* or a relist that skipped intermediate versions) and queues an update.
InformerObserve ==
    /\ InformerRunning
    /\ obj # cache
    /\ Cardinality(Pending(FALSE)) < MaxQueue
    /\ queue' = Append(queue, <<cache, obj>>)
    /\ cache' = obj
    /\ UNCHANGED <<tail, closed, panic, lastLines, engineVars>>

\* The periodic resync re-delivers the cached App as an update of itself;
\* it fires every 30 minutes, so at most one is pending at a time.
InformerResync ==
    /\ InformerRunning
    /\ Pending(TRUE) = {}
    /\ queue' = Append(queue, <<cache, cache>>)
    /\ UNCHANGED <<tail, cache, closed, panic, lastLines, engineVars>>

\* udpateEventhandler: printUpdate on the oldest queued notification.
HandleUpdate ==
    /\ Listening
    /\ queue # <<>>
    /\ LET n == Head(queue)
           r == RunEffects(printUpdate(n[1], n[2]),
                           [closed |-> closed, panic |-> "none", lines |-> {}])
       IN  /\ closed' = r.closed
           /\ panic' = r.panic
           /\ lastLines' = r.lines
           /\ tail' = IF r.panic # "none" THEN "crashed" ELSE tail
    /\ queue' = Tail(queue)
    /\ UNCHANGED <<cache, engineVars>>

\* <-o.stopperChan returns and TailAppStatus returns nil.
TailReturn ==
    /\ tail = "wait"
    /\ closed
    /\ tail' = "done"
    /\ UNCHANGED <<cache, queue, closed, panic, lastLines, engineVars>>

WatcherNext ==
    \/ TailStart \/ InformerSync \/ CacheSynced \/ InformerObserve \/ InformerResync
    \/ HandleUpdate \/ TailReturn

Init == EngineInit /\ WatcherInit

Next == (EngineNext /\ UNCHANGED watcherVars) \/ (WatcherNext)

\* The controller keeps reconciling; the CLI, the informer and its listener
\* goroutine are never stopped for good while they can run.
Fairness ==
    /\ WF_vars(EngineNext /\ UNCHANGED watcherVars)
    /\ WF_vars(TailStart) /\ WF_vars(InformerSync) /\ WF_vars(CacheSynced)
    /\ WF_vars(InformerObserve)
    /\ WF_vars(InformerResync) /\ WF_vars(HandleUpdate) /\ WF_vars(TailReturn)

Spec == Init /\ [][Next]_vars /\ Fairness

-----------------------------------------------------------------------------
Tailing == tail \in {"start", "sync", "listed", "wait"}

(***************************************************************************)
(* The update handler never dereferences a nil stage status.               *)
(***************************************************************************)
NoNilDereference == panic # "nil"

(***************************************************************************)
(* stopWatch is never called on an already closed stopperChan.            *)
(***************************************************************************)
NoDoubleClose == panic # "double_close"

(***************************************************************************)
(* One update never prints both that a stage failed and that it succeeded. *)
(***************************************************************************)
NoContradictoryLines ==
    \A st \in Stages : ~({<<st, "failed">>, <<st, "succeeded">>} \subseteq lastLines)

(***************************************************************************)
(* If the App ends up reconciled for good, the watcher stops tailing.      *)
(***************************************************************************)
ReconciledEndsTailing ==
    <>[](obj.cond = "ReconcileSucceeded") => <>~Tailing

(***************************************************************************)
(* If the App ends up failed for good, and the failure reaches the watcher *)
(* as an update (its cache held a status of the run without a failed      *)
(* stage while it waited), the watcher stops tailing: printUpdate's test   *)
(* for the failed stage calls stopWatch.                                   *)
(***************************************************************************)
FailedEndsTailing ==
    (<>[](obj.cond = "ReconcileFailed") /\ <>(tail = "wait" /\ ~RunFailed(cache)))
        => <>~Tailing

=============================================================================
