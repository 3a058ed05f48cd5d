--------------------------- MODULE MCOptionsMenu ---------------------------
(* TLC's instance of OptionsMenu: one file of each version, with values    *)
(* unlike the defaults, and none; every console but one that adds nothing. *)
EXTENDS OptionsMenu

MCConsoles == {c \in Console : c.dsi /\ c.debugger => c.nand}

MCFiles ==
  {<< >>,
   <<V0, 0, 1, 2, 1>>,
   <<V1, 2, 0, -1, 0>>,
   <<V1_1, 1, 1, 3, 0, 0>>,
   <<V1_2, 0, 1, -1, 0, 1, 0>>,
   <<SAVED_VERSION, 2, 1, 6, 0, 1, 1, 0, 0>>}

(* Any of them on the SD card, the newest or none on the NAND.             *)
MCInitialFiles ==
  {f \in [Media -> MCFiles] :
     f["nand"] = << >> \/ f["nand"][1] = SAVED_VERSION}
=============================================================================
