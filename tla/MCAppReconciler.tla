-------------------------- MODULE MCAppReconciler --------------------------
(* Model-checking instance of AppReconciler: two reconcile runs (so that a *)
(* run reads the stage statuses its predecessor left) and a clock of four  *)
(* seconds (so that stages can share a second or be a second apart).      *)
EXTENDS AppReconciler

MCMaxRuns == 2
MCMaxClock == 4
=============================================================================
