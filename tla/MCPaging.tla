------------------------------ MODULE MCPaging ------------------------------
(* Four tables of four pages of 16 bytes: the kernel in the first table,   *)
(* the directory and the tables behind it.                                 *)
EXTENDS Paging

Kernel == [first |-> 1, last |-> 2]
Empty == [i \in 0 .. 3 |-> [frame |-> 0, present |-> FALSE, user |-> FALSE]]
SmallRanges == {[first |-> 150, length |-> 12], [first |-> 154, length |-> 6]}
Leftover == [Empty EXCEPT ![1] = Entry(11, FALSE)]
Contents == {Empty, Leftover}

============================================================================
