------------------------------- MODULE CRDApp -------------------------------
(***************************************************************************)
(* The Hooks of a PackageRepository (pkgrepository.CRDApp, part_000):     *)
(* blockDeletion, unblockDeletion and updateStatus, each a Get of the      *)
(* latest object followed by an Update or UpdateStatus that the API server *)
(* rejects when the object changed in between (optimistic concurrency).   *)
(* They are driven by the engine as spec 4.1 describes: a reconcile of a   *)
(* live object blocks deletion, deploys, and persists status; a reconcile  *)
(* of an object marked for deletion deletes what was deployed and unblocks *)
(* deletion.  The engine decides from pkgrModel, the informer's cached     *)
(* copy it was built with, which may lag behind the stored object.        *)
(* Concurrently a user edits the object (each edit makes an in-flight      *)
(* Update conflict) and deletes it.                                        *)
(*                                                                         *)
(* The resourceVersion is abstracted to the flag dirty: some write hit the *)
(* stored object after the adapter's last Get.  Status content is          *)
(* abstracted to the number of the engine status it came from.            *)
(***************************************************************************)
EXTENDS Naturals, Sequences, SequencesExt

CONSTANTS deleteFinalizerName,      \* model values: the current finalizer name
          deletePrevFinalizerName,  \* and the one older versions added
          MaxReconciles,            \* bound on reconciles of the live object
          MaxUserEdits,             \* bound on concurrent user edits
          MaxApiFaults              \* bound on transient API errors

ASSUME deleteFinalizerName # deletePrevFinalizerName
ASSUME MaxReconciles \in Nat /\ MaxUserEdits \in Nat /\ MaxApiFaults \in Nat

VARIABLES store,     \* the stored PackageRepository
          cache,     \* the informer's copy of it
          pkgrModel, \* the copy the running reconcile was built from
          pc,        \* where the engine and its hooks are
          fetched,   \* the object the last Get returned
          dirty,     \* the store was written after that Get
          attempt,   \* updateStatus rounds that failed so far
          sv,        \* number of the engine's in-memory status
          deployed,  \* the App's resources are on the cluster
          recs,      \* reconciles of the live object so far
          edits,     \* user edits so far
          faults     \* transient API errors so far

vars == <<store, cache, pkgrModel, pc, fetched, dirty, attempt,
          sv, deployed, recs, edits, faults>>

-----------------------------------------------------------------------------
(* The API server.                                                         *)

\* Every write makes the adapter's outstanding Get stale.
Written(obj) == store' = obj /\ dirty' = TRUE

\* An object marked for deletion goes away once its last finalizer does;
\* no finalizer may be added to it.
Stored(obj) == IF obj.deleting /\ obj.finalizers = <<>>
               THEN [obj EXCEPT !.exists = FALSE] ELSE obj

UpdateAllowed(obj) ==
    /\ store.exists /\ ~dirty
    /\ store.deleting => ToSet(obj.finalizers) \subseteq ToSet(store.finalizers)

\* A transient error of the API (timeout, dropped connection, 5xx).
Fault == faults < MaxApiFaults /\ faults' = faults + 1

\* Update or UpdateStatus of obj, which the server accepts when allowed;
\* ok and err are what the caller does with nil and with an error.  A
\* transient error may hide a write the server made: the reply was lost.
Call(allowed, obj, ok, err) ==
    \/ allowed /\ Written(obj) /\ UNCHANGED faults /\ ok
    \/ ~allowed /\ UNCHANGED <<store, dirty, faults>> /\ err
    \/ Fault /\ UNCHANGED <<store, dirty>> /\ err
    \/ allowed /\ Fault /\ Written(obj) /\ err

-----------------------------------------------------------------------------
(* The hooks (part_000).                                                   *)

containsString(list, s) == Contains(list, s)

\* removeString drops every occurrence.
removeString(list, s) == Remove(list, s)

\* blockDeletion: skip when pkgrModel already has the finalizer.
blockDeletion ==
    /\ pc = "block"
    /\ pc' = IF containsString(pkgrModel.finalizers, deleteFinalizerName)
             THEN "deploy" ELSE "blockGet"
    /\ UNCHANGED <<store, cache, pkgrModel, fetched, dirty, attempt,
                   sv, deployed, recs, edits, faults>>

\* The Get of updatePackageRepository; an error (NotFound or transient)
\* ends the reconcile.
Get(next) ==
    /\ \/ store.exists /\ fetched' = store /\ dirty' = FALSE /\ pc' = next
          /\ UNCHANGED faults
       \/ ~store.exists /\ pc' = "idle" /\ UNCHANGED <<fetched, dirty, faults>>
       \/ Fault /\ pc' = "idle" /\ UNCHANGED <<fetched, dirty>>
    /\ UNCHANGED <<store, cache, pkgrModel, attempt, sv, deployed, recs, edits>>

BlockGet == pc = "blockGet" /\ Get("blockUpdate")
UnblockGet == pc = "unblockGet" /\ Get("unblockUpdate")

\* The updateFunc of blockDeletion: append the name unless the fetched
\* object has it.  AddFinalizerAlways is a mutant without that check.
AddFinalizerAlways(list) == Append(list, deleteFinalizerName)
AddFinalizer(list) ==
    IF containsString(list, deleteFinalizerName) THEN list
    ELSE Append(list, deleteFinalizerName)

\* The updateFunc of blockDeletion, then Update; on error the reconcile ends.
BlockUpdate ==
    /\ pc = "blockUpdate"
    /\ LET obj == [fetched EXCEPT !.finalizers = AddFinalizer(@)] IN
        Call(UpdateAllowed(obj), Stored(obj), pc' = "deploy", pc' = "idle")
    /\ UNCHANGED <<cache, pkgrModel, fetched, attempt, sv, deployed, recs, edits>>

\* Mutant: only the current finalizer name is removed.
UnblockUpdateCurrentOnly ==
    /\ pc = "unblockUpdate"
    /\ LET obj == [fetched EXCEPT !.finalizers = removeString(@, deleteFinalizerName)] IN
        Call(UpdateAllowed(obj), Stored(obj), pc' = "idle", pc' = "idle")
    /\ UNCHANGED <<cache, pkgrModel, fetched, attempt, sv, deployed, recs, edits>>

\* The updateFunc of unblockDeletion removes both names, then Update.
UnblockUpdate ==
    /\ pc = "unblockUpdate"
    /\ LET obj == [fetched EXCEPT !.finalizers =
                       removeString(removeString(@, deleteFinalizerName), deletePrevFinalizerName)] IN
        Call(UpdateAllowed(obj), Stored(obj), pc' = "idle", pc' = "idle")
    /\ UNCHANGED <<cache, pkgrModel, fetched, attempt, sv, deployed, recs, edits>>

\* updateStatus: up to StatusAttempts rounds of updateStatusOnce, then the
\* last error.  A round that fails (Get or UpdateStatus) starts the next.
\* StatusAttemptsOffByOne is a mutant of the loop bound.
StatusAttemptsOffByOne == 4
StatusAttempts == 5

StatusRoundFailed ==
    /\ attempt' = attempt + 1
    /\ pc' = IF attempt + 1 < StatusAttempts THEN "statusGet" ELSE "statusFailed"

\* updateStatusOnce, first half: Get the latest PackageRepository.
StatusGet ==
    /\ pc = "statusGet"
    /\ \/ store.exists /\ pc' = "statusPut" /\ dirty' = FALSE
          /\ UNCHANGED <<attempt, faults>>
       \/ ~store.exists /\ StatusRoundFailed /\ UNCHANGED <<dirty, faults>>
       \/ Fault /\ StatusRoundFailed /\ UNCHANGED dirty
    /\ UNCHANGED <<store, cache, pkgrModel, fetched, sv, deployed, recs, edits>>

\* updateStatusOnce, second half: copy the engine's status onto it and
\* UpdateStatus; success returns nil to the engine.
StatusPut ==
    /\ pc = "statusPut"
    /\ Call(store.exists /\ ~dirty, [store EXCEPT !.status = sv],
            pc' = "idle" /\ UNCHANGED attempt, StatusRoundFailed)
    /\ UNCHANGED <<cache, pkgrModel, fetched, sv, deployed, recs, edits>>

-----------------------------------------------------------------------------
(* The engine around the hooks (spec 4.1; not in this repository's code). *)

\* A reconcile, triggered by the informer: the engine is built from the
\* cached object and takes the delete path if that copy is being deleted.
\* Reconciles of a live object are bounded; the delete path is requeued
\* until the object is gone.
ReconcileStart ==
    /\ pc = "idle"
    /\ cache.exists
    /\ cache.deleting \/ recs < MaxReconciles
    /\ pkgrModel' = cache
    /\ pc' = IF cache.deleting THEN "deleteDeploy" ELSE "block"
    /\ recs' = IF cache.deleting THEN recs ELSE recs + 1
    /\ UNCHANGED <<store, cache, fetched, dirty, attempt, sv, deployed, edits, faults>>

\* Fetch, template and deploy: the resources are on the cluster and the
\* engine's status is the one of this reconcile; then Hooks.UpdateStatus.
Deploy ==
    /\ pc = "deploy"
    /\ deployed' = TRUE
    /\ sv' = recs
    /\ pc' = "statusGet"
    /\ attempt' = 0
    /\ UNCHANGED <<store, cache, pkgrModel, fetched, dirty, recs, edits, faults>>

\* A status update that gave up: a reconcile-level error (spec 7).
StatusFailed ==
    /\ pc = "statusFailed"
    /\ pc' = "idle"
    /\ UNCHANGED <<store, cache, pkgrModel, fetched, dirty, attempt,
                   sv, deployed, recs, edits, faults>>

\* The delete path: the deployed resources are deleted, then
\* Hooks.UnblockDeletion.
DeleteDeploy ==
    /\ pc = "deleteDeploy"
    /\ deployed' = FALSE
    /\ pc' = "unblockGet"
    /\ UNCHANGED <<store, cache, pkgrModel, fetched, dirty, attempt, sv, recs, edits, faults>>

-----------------------------------------------------------------------------
(* The user and the informer.                                              *)

\* An edit of the object (labels, annotations, spec).
UserEdit ==
    /\ store.exists /\ edits < MaxUserEdits
    /\ Written(store)
    /\ edits' = edits + 1
    /\ UNCHANGED <<cache, pkgrModel, pc, fetched, attempt, sv, deployed, recs, faults>>

\* kubectl delete: the object is marked, and goes at once if it has no
\* finalizer.
UserDelete ==
    /\ store.exists /\ ~store.deleting
    /\ Written(Stored([store EXCEPT !.deleting = TRUE]))
    /\ UNCHANGED <<cache, pkgrModel, pc, fetched, attempt, sv, deployed, recs, edits, faults>>

\* The informer catches up with the stored object.
InformerSync ==
    /\ cache # store
    /\ cache' = store
    /\ UNCHANGED <<store, pkgrModel, pc, fetched, dirty, attempt, sv, deployed, recs, edits, faults>>

-----------------------------------------------------------------------------
\* A PackageRepository created by this or by an older controller version.
Init ==
    /\ store \in {[exists |-> TRUE, finalizers |-> f, deleting |-> FALSE, status |-> 0] :
                  f \in {<<>>, <<deletePrevFinalizerName>>}}
    /\ cache = store
    /\ pkgrModel = store
    /\ pc = "idle"
    /\ fetched = store
    /\ dirty = FALSE
    /\ attempt = 0
    /\ sv = 0
    /\ deployed = FALSE
    /\ recs = 0 /\ edits = 0 /\ faults = 0

Controller ==
    \/ ReconcileStart \/ blockDeletion \/ BlockGet \/ BlockUpdate \/ Deploy
    \/ StatusGet \/ StatusPut \/ StatusFailed \/ DeleteDeploy \/ UnblockGet
    \/ UnblockUpdate

Next == Controller \/ InformerSync \/ UserEdit \/ UserDelete

\* The work queue keeps reconciling and the informer keeps watching; the
\* user need not do anything.
Spec == Init /\ [][Next]_vars /\ WF_vars(Controller) /\ WF_vars(InformerSync)

-----------------------------------------------------------------------------
(***************************************************************************)
(* While the object lives, the status persisted in the end is the one of   *)
(* the engine: fewer concurrent edits than updateStatus has rounds never   *)
(* make it give up (spec 8: four conflicts, then success).                 *)
(***************************************************************************)
StatusPersistedDespiteConflicts ==
    <>[](store.exists /\ ~store.deleting) => <>[](store.status = sv)

(***************************************************************************)
(* The hooks implement the deletion gate: mapped to whether the stored     *)
(* object exists and is marked, and whether the App is deployed, every     *)
(* behaviour of the hooks, the engine, the user and the informer is one of *)
(* DeletionGate's, fairness included: the object never goes while         *)
(* deployed, and a marked object is undeployed and goes.                   *)
(***************************************************************************)
Gate == INSTANCE DeletionGate WITH exists <- store.exists,
                                   deleting <- store.deleting,
                                   deployed <- deployed

ImplementsDeletionGate == Gate!GateSpec

(***************************************************************************)
(* The finalizer list never holds a name twice (spec 6: BlockDeletion is   *)
(* idempotent), although blockDeletion's fast path reads the possibly      *)
(* stale pkgrModel: the updateFunc re-checks the freshly fetched object.  *)
(***************************************************************************)
NoDuplicateFinalizers == IsInjective(store.finalizers)
====
