------------------------------- MODULE MCBoot -------------------------------
(* The clock, the keyboard and one channel of drives; ata_init registers   *)
(* its handler like the two that kernel_main calls at present.             *)
EXTENDS Boot

InOrder == <<0, 1, 14>>

=============================================================================
