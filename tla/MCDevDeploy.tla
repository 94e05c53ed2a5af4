---------------------------- MODULE MCDevDeploy ----------------------------
(* One in-memory reconcile, as dev deploy runs, over three seconds.        *)
EXTENDS DevDeploy

MCMaxRuns == 1
MCMaxClock == 3
====
