--------------------------- MODULE MCClickProducer ---------------------------
(* The instance of ClickProducer that TLC checks: the cfg file gives the      *)
(* constants.                                                                 *)
EXTENDS ClickProducer
=============================================================================
