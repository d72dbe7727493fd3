---------------------------- MODULE MCRunManager ----------------------------
(* Instances of RunManager for TLC: the configurations give its constants  *)
(* their values.                                                           *)
EXTENDS RunManager
=============================================================================
