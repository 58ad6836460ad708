---------------------------- MODULE PageBitmap ----------------------------
(***************************************************************************)
(* The page allocator of mem.c, as operators on the set of page numbers    *)
(* whose bit is set in memory_bitmap.  Addresses are byte addresses; an    *)
(* allocation that fails returns address 0, which is also the address of   *)
(* page 0.                                                                 *)
(***************************************************************************)
EXTENDS Integers

CONSTANT NumPages     \* number of pages the bitmap describes

ASSUME NumPagesAssumption == NumPages \in Nat \ {0}

PageSize == 4096

Pages == 0 .. NumPages - 1

(* How many pages hold that many bytes. *)
BlocksFor(length) == (length + PageSize - 1) \div PageSize

(* Where n consecutive free pages start. *)
FreeRuns(bitmap, n) ==
  {i \in Pages : \A j \in i .. i + n - 1 : j \in Pages \ bitmap}

(* The scan of kmalloc, if it counted one page more, and as it is: it      *)
(* stops at the lowest run, if there is one.                               *)
LowestRunLonger(bitmap, n) ==
  {i \in FreeRuns(bitmap, n + 1) : \A k \in FreeRuns(bitmap, n + 1) : i <= k}
LowestRun(bitmap, n) ==
  {i \in FreeRuns(bitmap, n) : \A k \in FreeRuns(bitmap, n) : i <= k}

(* The number of the first page kmalloc returns: 0 also for a failure. *)
FirstFit(bitmap, n) ==
  IF LowestRun(bitmap, n) = {} THEN 0
  ELSE CHOOSE i \in LowestRun(bitmap, n) : TRUE

(* The bitmap after kmalloc, and before it with one page too many or too   *)
(* few marked.                                                             *)
MarkUsedInclusive(bitmap, n) ==
  bitmap \cup UNION {i .. i + n : i \in LowestRun(bitmap, n)}
MarkUsedShort(bitmap, n) ==
  bitmap \cup UNION {i .. i + n - 2 : i \in LowestRun(bitmap, n)}
MarkUsed(bitmap, n) ==
  bitmap \cup UNION {i .. i + n - 1 : i \in LowestRun(bitmap, n)}

============================================================================
