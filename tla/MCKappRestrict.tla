--------------------------- MODULE MCKappRestrict ---------------------------
(* One flag of each kind: shared, change, deploy-only, inspect-only, and   *)
(* one no list allows; each bare or with a value.                          *)
EXTENDS KappRestrict

MCSampleNames == {"--json", "--wait", "--into-ns", "--raw", "--kubeconfig"}
MCValues == {"v"}
MCMaxOptions == 3
====
