--------------------------- MODULE MCBrowserSession ---------------------------
(***************************************************************************)
(* Instances of BrowserSession for TLC.  Accounts are interchangeable, and *)
(* so are calls.                                                           *)
(***************************************************************************)
EXTENDS BrowserSession, TLC

Interchangeable == Permutations(Users) \cup Permutations(Calls)
================================================================================
