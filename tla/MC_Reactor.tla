----------------------------- MODULE MC_Reactor -----------------------------
(* Model-checking instance of Reactor: the constants bound in the .cfg.    *)
EXTENDS Reactor
=============================================================================
