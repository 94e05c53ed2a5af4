--------------------------- MODULE MCAppTailing ---------------------------
(* Model-checking instance of AppTailing: one reconcile run, a clock of    *)
(* three seconds (stages can share a second or be a second apart) and up  *)
(* to two queued informer notifications (an update and a resync, or two   *)
(* updates, pending together).                                             *)
EXTENDS AppTailing

MCMaxRuns == 1
MCMaxClock == 3
MCMaxQueue == 2
=============================================================================
