---------------------------- MODULE MCRefreshTokens ----------------------------
(***************************************************************************)
(* Instances of RefreshTokens for TLC.  The identifiers are                *)
(* interchangeable, and so are the workers.                                *)
(***************************************************************************)
EXTENDS RefreshTokens, TLC

Interchangeable == Permutations(Jtis) \cup Permutations(Workers)
================================================================================
