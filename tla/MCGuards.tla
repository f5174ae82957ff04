----------------------------- MODULE MCGuards ------------------------------
(***************************************************************************)
(* Two requests of one account at a time, whose role and tenant change.    *)
(***************************************************************************)
EXTENDS AuthContext, TLC

===========================================================================
