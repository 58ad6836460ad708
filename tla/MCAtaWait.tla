----------------------------- MODULE MCAtaWait -----------------------------
(* Three clicks to a second, a timeout of one second, and a thread that is *)
(* interrupted at most once between two of its steps.                      *)
EXTENDS AtaWait
============================================================================
