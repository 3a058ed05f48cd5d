-------------------------- MODULE MCBootHandshake --------------------------
(* TLC's instance of BootHandshake: every cartridge, and the parameter     *)
(* blocks in which the options take all values that matter together.       *)
EXTENDS BootHandshake

MCCarts == Cart

(* The two clock and VRAM options only pass through the mailbox: they move *)
(* together.  SD access matters in NTR mode, and the debug build prints    *)
(* whatever the options are, so it is taken with one set of them.  An      *)
(* engine for WRAM-A is passed on a DSi only, and doubled memory matters   *)
(* for nothing else here.                                                  *)
MCBootConfigs ==
  {b \in BootConfig :
     /\ b.twlClock = b.boostVram
     /\ b.baseEngine => b.dsiMode /\ ~b.debugPrints /\ b.twlClock /\ ~b.debugger
     /\ b.hasDoubleRAM => b.baseEngine /\ b.sdAccess
     /\ ~b.dsiMode => ~b.sdAccess /\ ~b.debugger
     /\ b.debugPrints => b.scfgUnlock /\ b.debugger /\ b.sdAccess /\ b.twlClock}
=============================================================================
