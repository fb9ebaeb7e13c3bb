----------------------------- MODULE MCLinkCache -----------------------------
(* The instance of LinkCache that TLC checks, with its history variable: the  *)
(* cfg file gives the constants.                                              *)
EXTENDS LinkCacheHistory
=============================================================================
