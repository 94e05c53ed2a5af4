---------------------------- MODULE DeletionGate ----------------------------
(***************************************************************************)
(* What the deletion hooks promise (spec 4.1, 6): a resource whose App has *)
(* resources on the cluster cannot disappear; once it is marked for       *)
(* deletion those resources are eventually deleted and the resource then   *)
(* goes.  Nothing else about the resource is visible here.                 *)
(***************************************************************************)
VARIABLES exists,    \* the resource is stored
          deleting,  \* it is marked for deletion
          deployed   \* its App's resources are on the cluster

gateVars == <<exists, deleting, deployed>>

GateInit == exists = TRUE /\ deleting = FALSE /\ deployed = FALSE

\* The App's resources are applied; only for a resource that still exists.
Apply == exists /\ deployed' = TRUE /\ UNCHANGED <<exists, deleting>>

\* A user marks the resource for deletion; with nothing deployed it may go
\* at once (no finalizer holds it).
MarkDeleted ==
    /\ exists /\ ~deleting /\ deleting' = TRUE
    /\ exists' \in IF deployed THEN {TRUE} ELSE BOOLEAN
    /\ UNCHANGED deployed

\* The delete path removes the App's resources.
RemoveResources == deleting /\ deployed /\ deployed' = FALSE /\ UNCHANGED <<exists, deleting>>

\* The resource goes, only when nothing of its App is left.
Vanish == exists /\ deleting /\ ~deployed /\ exists' = FALSE /\ UNCHANGED <<deleting, deployed>>

GateNext == Apply \/ MarkDeleted \/ RemoveResources \/ Vanish

\* Deletion is carried through; applying and marking are up to the user.
GateSpec == GateInit /\ [][GateNext]_gateVars /\ WF_gateVars(RemoveResources) /\ WF_gateVars(Vanish)
====
