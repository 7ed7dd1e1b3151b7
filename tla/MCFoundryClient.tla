---------------------------- MODULE MCFoundryClient ----------------------------
(* Instances of FoundryClient for TLC.                                         *)
EXTENDS FoundryClient

ASSUME ClientIsFit == ClientAssumption
=============================================================================
