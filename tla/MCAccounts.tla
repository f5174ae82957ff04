----------------------------- MODULE MCAccounts -----------------------------
(***************************************************************************)
(* One browser with two tabs.                                              *)
(***************************************************************************)
EXTENDS Sessions, TLC

===========================================================================
