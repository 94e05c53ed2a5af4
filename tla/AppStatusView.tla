--------------------------- MODULE AppStatusView ---------------------------
(***************************************************************************)
(* The status-reading logic of the App watcher of the kctrl CLI           *)
(* (cli/pkg/kctrl/cmd/app/app-watcher.go): how it turns an AppStatus       *)
(* snapshot, or a pair of consecutive snapshots delivered by an informer,  *)
(* into log lines, a stage verdict and calls to stopWatch.                 *)
(*                                                                         *)
(* A snapshot is a record                                                  *)
(*   [fetch, template, deploy, cond, truth]                                *)
(* where fetch/template/deploy are Nil (the Go pointer is nil) or a stage  *)
(* record, cond is the type of the single condition the reconciler keeps   *)
(* ("none" for an empty Conditions list), and truth is a ghost record the  *)
(* reconciler model attaches: what really happened to each stage in the   *)
(* run that wrote the snapshot.  Times are whole seconds: metav1.Time is   *)
(* serialised with second precision, and the code compares .Unix() values. *)
(* Text (Stdout, Stderr, colours, ages) is left out: lines are             *)
(* <<stage, verdict>> pairs.                                               *)
(***************************************************************************)
EXTENDS Naturals, Sequences

CONSTANT Nil    \* a model value: an absent (nil) stage status

\* metav1.Time{} (the zero time) is earlier than every time the clock shows.
ZeroTime == 0

Stages == {"fetch", "template", "deploy"}

\* hasReconciled: some condition is ReconcileSucceeded (its Status is always
\* True in the statuses the reconciler writes).
hasReconciled(status) == status.cond = "ReconcileSucceeded"

(***************************************************************************)
(* printTillCurrent: the stage the App is in and whether it failed; the    *)
(* early returns of the Go function in order.                              *)
(***************************************************************************)
Verdict(stage, failed) == [stage |-> stage, failed |-> failed]

\* The stage failure tests; Template has no StartedAt and is compared with
\* the StartedAt of the Fetch of the same status.
FetchFailed(f) == f.exit # 0 /\ f.updatedAt >= f.startedAt
TemplateFailed(f, t) == t.exit # 0 /\ f.startedAt < t.updatedAt
DeployFailed(d) == d.exit # 0 /\ d.startedAt < d.updatedAt

\* Mutant: a template finished in the second its fetch started is running.
TemplateStartedNonStrict(f, t) == f.startedAt >= t.updatedAt

\* A Template status older than the current Fetch is from an earlier run.
TemplateStarted(f, t) == f.startedAt > t.updatedAt

printTillCurrent(status) ==
    LET f == status.fetch
        t == status.template
        d == status.deploy
    IN  IF f # Nil /\ FetchFailed(f) THEN Verdict("fetch", TRUE)
        ELSE IF f # Nil /\ f.startedAt > f.updatedAt THEN Verdict("fetch", FALSE)
        ELSE IF t # Nil /\ TemplateFailed(f, t) THEN Verdict("template", TRUE)
        ELSE IF t # Nil /\ TemplateStarted(f, t) THEN Verdict("template", FALSE)
        ELSE IF d # Nil /\ DeployFailed(d) THEN Verdict("deploy", TRUE)
        ELSE IF d # Nil /\ hasReconciled(status) THEN Verdict("reconciled", FALSE)
        ELSE Verdict("", FALSE)

(***************************************************************************)
(* printUpdate: the effects of one UpdateFunc call, in the order the code  *)
(* performs them.  An effect is a line <<stage, verdict>>, "stop" (a call  *)
(* of stopWatch, which closes stopperChan) or "nil" (a dereference of a    *)
(* nil stage pointer, which panics).                                       *)
(***************************************************************************)
Changed(old, new, field) == old = Nil \/ old[field] # new[field]

FetchEffects(old, status) ==
    LET f == status.fetch  o == old.fetch IN
    IF f = Nil THEN <<>>
    ELSE (IF o = Nil \/ (o.startedAt # f.startedAt /\ f.updatedAt <= f.startedAt)
          THEN << <<"fetch", "started">> >> ELSE <<>>)
         \o
         (IF Changed(o, f, "updatedAt")
          THEN (IF FetchFailed(f)
                \* the failure line prints status.Template.Stderr
                THEN IF status.template = Nil THEN <<"nil">>
                     ELSE << <<"fetch", "failed">>, "stop" >>
                ELSE <<>>)
               \o << <<"fetch", "succeeded">> >>
          ELSE <<>>)

TemplateEffects(old, status) ==
    LET t == status.template  o == old.template IN
    IF t = Nil \/ ~Changed(o, t, "updatedAt") THEN <<>>
    ELSE (IF t.exit # 0 THEN << <<"template", "failed">>, "stop" >> ELSE <<>>)
         \o << <<"template", "succeeded">> >>

DeployEffects(old, status) ==
    LET d == status.deploy  o == old.deploy IN
    IF d = Nil THEN <<>>
    ELSE (IF Changed(o, d, "startedAt") THEN << <<"deploy", "started">> >> ELSE <<>>)
         \o
         (IF Changed(o, d, "updatedAt")
          \* the failure test reads status.Template.ExitCode
          THEN (IF status.template = Nil THEN <<"nil">>
                ELSE IF status.template.exit # 0 /\ d.finished
                     THEN << <<"deploy", "failed">>, "stop" >> ELSE <<>>)
               \o << <<"deploy", "progressing">> >>
          ELSE <<>>)

\* Mutant: the reconciled line without stopWatch.
ReconciledEffectsNoStop(status) ==
    IF hasReconciled(status) THEN << <<"app", "reconciled">> >> ELSE <<>>

ReconciledEffects(status) ==
    IF hasReconciled(status) THEN << <<"app", "reconciled">>, "stop" >> ELSE <<>>

printUpdate(old, status) ==
    FetchEffects(old, status) \o TemplateEffects(old, status)
        \o DeployEffects(old, status) \o ReconciledEffects(status)

(***************************************************************************)
(* Running a list of effects against the state of stopperChan: the result *)
(* is the lines printed, whether the channel is closed afterwards, and     *)
(* the panic that ended the handler ("none", "nil" or "double_close").     *)
(* The effects after a panic do not happen.                                *)
(***************************************************************************)
RECURSIVE RunEffects(_, _)
RunEffects(effs, acc) ==
    IF effs = <<>> \/ acc.panic # "none" THEN acc
    ELSE LET e == Head(effs)
             next == CASE e = "nil"  -> [acc EXCEPT !.panic = "nil"]
                       [] e = "stop" -> IF acc.closed
                                        THEN [acc EXCEPT !.panic = "double_close"]
                                        ELSE [acc EXCEPT !.closed = TRUE]
                       [] OTHER      -> [acc EXCEPT !.lines = @ \cup {e}]
         IN  RunEffects(Tail(effs), next)

=============================================================================
