---------------------------- MODULE MCClickWorker ----------------------------
(* The instances of ClickWorker that TLC checks: the cfg files give the       *)
(* constants.                                                                 *)
EXTENDS ClickWorker
=============================================================================
