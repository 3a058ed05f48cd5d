---------------------------- MODULE MCCardEngine ----------------------------
(* TLC's instance of CardEngine: numbers come from the configuration.      *)
EXTENDS CardEngine
=============================================================================
