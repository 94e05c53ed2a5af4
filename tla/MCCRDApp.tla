------------------------------ MODULE MCCRDApp ------------------------------
(* Model-checking instance of CRDApp: three reconciles of the live object, *)
(* two user edits and two transient API errors.  Edits and errors        *)
(* together stay one below the five rounds of updateStatus, so that a      *)
(* single status update can fail in all but its last round; two errors    *)
(* can hit two different calls of one behaviour (a lost reply of the       *)
(* block and then of the unblock, say).                                     *)
EXTENDS CRDApp

MCMaxReconciles == 3
MCMaxUserEdits == 2
MCMaxApiFaults == 2
=============================================================================
