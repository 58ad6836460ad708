---------------------------- MODULE MCScheduler ----------------------------
(* Small instances of the scheduler on a memory without holes: page 0      *)
(* holds the boot stack, page 1 the interrupt stack.                       *)
EXTENDS Layout

FirstPagesUsed == {0, 1}

============================================================================
