----------------------------- MODULE MCAnyStack -----------------------------
(* Small instances of the scheduler that leave the stack sizes open. *)
EXTENDS Scheduler

FirstPagesUsed == {0, 1}

============================================================================
