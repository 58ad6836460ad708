--------------------------- MODULE MCKernelMemory ---------------------------
(* A machine of 14 pages: the kernel lies in pages 2 and 3, the memory map *)
(* across pages 4 and 5.                                                   *)
EXTENDS KernelMemory

Region(base, length, free) == [base |-> base, length |-> length, free |-> free]

(* One region above the kernel's address; two with a hole, the second not  *)
(* aligned; and a second one that does not reach a whole page.             *)
Maps ==
  {{Region(0, 8192, TRUE), Region(8192, 9 * PageSize, TRUE),
    Region(11 * PageSize, 2 * PageSize, FALSE)},
   {Region(8192, 6 * PageSize + 50, TRUE),
    Region(10 * PageSize + 100, 3 * PageSize, TRUE)},
   {Region(8192, 6 * PageSize, TRUE), Region(12 * PageSize + 100, 50, TRUE)}}

Ends == {10000, 13192}

============================================================================
