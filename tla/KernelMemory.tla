---------------------------- MODULE KernelMemory ----------------------------
(***************************************************************************)
(* The memory of the kernel: which pages memory_init leaves free, kmalloc  *)
(* and kfree of mem.c, and the heap of heap.c, from which kmalloc serves   *)
(* small requests and which takes its nodes from kmalloc, one page each.   *)
(*                                                                         *)
(* Nothing is ever freed in the heap (heap_free does nothing), so the used *)
(* bits of a node are the first ones, and a number stands for its bitmap.  *)
(***************************************************************************)
EXTENDS PageBitmap, Sequences

CONSTANTS
  MemoryMaps,     \* memory maps of multiboot: sets of [base, length, free]
  KernelBase,     \* kernel_location
  KernelEnds,     \* __end and the ends of the modules
  MapStart,       \* mem_map_start
  MapLength,      \* mem_map_size
  Lengths,        \* arguments of kmalloc
  MaxCalls        \* bound on the calls of kmalloc

VARIABLES
  memory_map,     \* the memory map of this machine
  memory_bitmap,  \* pages in use
  heap_list,      \* heap nodes: [page, used, edge]
  pages,          \* history: page allocations in use, [page, length]
  cells,          \* history: heap allocations, [page, start, words]
  returned,       \* the last call: [length, address]
  calls

vars ==
  <<memory_map, memory_bitmap, heap_list, pages, cells, returned, calls>>

----------------------------------------------------------------------------
(* memory_init                                                             *)

kernel_end == CHOOSE e \in KernelEnds : \A f \in KernelEnds : f <= e

(* A region starts at its first whole page.  The number of its pages is -1 *)
(* if it does not reach one: the code's 64-bit difference wraps, and so    *)
(* does the 32-bit sum.                                                    *)
StartingChunk(e) == BlocksFor(e.base)
EndingChunk(e) ==
  StartingChunk(e)
    + (e.length - (StartingChunk(e) * PageSize - e.base)) \div PageSize

Usable(e) == e.free /\ e.base >= KernelBase

FreeChunks(e) ==
  {StartingChunk(e), EndingChunk(e)} \cup StartingChunk(e) .. EndingChunk(e)

KernelBlocksRoundedDown ==
  LET first == KernelBase \div PageSize
  IN first .. first + (kernel_end - KernelBase) \div PageSize - 1
KernelBlocks ==
  LET first == KernelBase \div PageSize
  IN first .. first + BlocksFor(kernel_end - KernelBase) - 1

MapBlocks ==
  LET first == MapStart \div PageSize
      size == MapLength + (PageSize - (MapLength % PageSize))
                + (MapStart % PageSize)
  IN first .. first + BlocksFor(size) - 1

Reserved == (KernelBlocks \cup MapBlocks) \cap Pages

memory_init(map) ==
  (Pages \ UNION {FreeChunks(e) : e \in {f \in map : Usable(f)}}) \cup Reserved

----------------------------------------------------------------------------
(* The heap: nodes of one page, with a header, data and a bitmap of words. *)

HeaderSize == 8      \* HEAP_CHUNK_HEADER_SIZE
DataSize == 3964     \* HEAP_CHUNK_DATA_SIZE
BitmapBits == 984    \* HEAP_CHUNK_BITMAP_SIZE * 8

(* The search for free bits may go one bit beyond the bitmap.  That bit is *)
(* in the last byte of the page, which memset does not reach: `edge' tells *)
(* whether it happens to be set.                                           *)
Bits(node) == IF node.edge THEN BitmapBits ELSE BitmapBits + 1

WordsFor(length) == length \div 4 + (IF length % 4 # 0 THEN 1 ELSE 0)

(* The two conditions of heap_alloc and heap_allocate_from_node. *)
FitsAnywhere(node, length) == DataSize - 4 * node.used > length
Fits(node, length) ==
  /\ DataSize - 4 * node.used > length
  /\ node.used < BitmapBits
  /\ node.used + WordsFor(length) <= Bits(node)

CellAt(page, start) == page * PageSize + HeaderSize + 4 * start

ASSUME MemoryAssumption ==
  /\ KernelBase \in Nat /\ KernelBase % PageSize = 0
  /\ KernelBase >= 2 * PageSize
  /\ kernel_end \in Nat /\ kernel_end >= KernelBase
  /\ MapStart \in Nat /\ MapLength \in Nat
  /\ Lengths \subseteq Nat \ {0}
  /\ MaxCalls \in Nat
  /\ \A map \in MemoryMaps :
       /\ \A e \in map : e.base \in Nat /\ e.length \in Nat /\ e.free \in BOOLEAN
       /\ LowestRun(memory_init(map), 1) # {}

(* memory_init, then heap_init. *)
Init ==
  /\ memory_map \in MemoryMaps
  /\ LET bitmap == memory_init(memory_map)
     IN \E edge \in BOOLEAN :
          /\ memory_bitmap = MarkUsed(bitmap, 1)
          /\ heap_list = <<[page |-> FirstFit(bitmap, 1), used |-> 0,
                            edge |-> edge]>>
  /\ pages = {}
  /\ cells = {}
  /\ returned = [length |-> 0, address |-> 0]
  /\ calls = 0

(* A request above DataSize gets whole pages. *)
AllocatePages(length) ==
  LET n == BlocksFor(length)
  IN /\ memory_bitmap' = MarkUsed(memory_bitmap, n)
     /\ pages' = pages \cup {[page |-> i, length |-> length] :
                               i \in LowestRun(memory_bitmap, n)}
     /\ returned' = [length |-> length,
                     address |-> FirstFit(memory_bitmap, n) * PageSize]
     /\ UNCHANGED <<heap_list, cells>>

(* The first node of the heap that has room serves a small one. *)
Fitting(length) == {i \in DOMAIN heap_list : Fits(heap_list[i], length)}

AllocateFromNode(length) ==
  \E i \in Fitting(length) :
    LET node == heap_list[i]
        words == WordsFor(length)
    IN /\ \A j \in Fitting(length) : i <= j
       /\ heap_list' = [heap_list EXCEPT ![i].used = node.used + words]
       /\ cells' = cells \cup
            {[page |-> node.page, start |-> node.used, words |-> words]}
       /\ returned' = [length |-> length,
                       address |-> CellAt(node.page, node.used)]
       /\ UNCHANGED <<memory_bitmap, pages>>

(* Otherwise a new node does.  When no page is left it lies at address 0,  *)
(* which ends the list, and is used all the same.  The request may be too  *)
(* long for any node.                                                      *)
AllocateNode(length) ==
  /\ Fitting(length) = {}
  /\ \E edge \in BOOLEAN :
       LET page == FirstFit(memory_bitmap, 1)
           words == WordsFor(length)
           fits == words <= Bits([edge |-> edge])
           node == [page |-> page, used |-> IF fits THEN words ELSE 0,
                    edge |-> edge]
       IN /\ memory_bitmap' = MarkUsed(memory_bitmap, 1)
          /\ heap_list' = IF page = 0 THEN heap_list
                          ELSE Append(heap_list, node)
          /\ cells' = IF fits
                      THEN cells \cup {[page |-> page, start |-> 0,
                                        words |-> words]}
                      ELSE cells
          /\ returned' = [length |-> length,
                          address |-> IF fits THEN CellAt(page, 0) ELSE 0]
          /\ UNCHANGED pages

heap_alloc(length) == AllocateFromNode(length) \/ AllocateNode(length)

Kmalloc ==
  /\ calls < MaxCalls
  /\ calls' = calls + 1
  /\ \E length \in Lengths :
       IF length <= DataSize THEN heap_alloc(length) ELSE AllocatePages(length)
  /\ UNCHANGED memory_map

(* kfree counts whole pages only, and refuses an address within a page,    *)
(* which that of every heap allocation is.                                 *)
FreedInclusive(base, length) ==
  LET first == base \div PageSize
  IN IF base % PageSize # 0 THEN {}
     ELSE first .. first + length \div PageSize
Freed(base, length) ==
  LET first == base \div PageSize
  IN IF base % PageSize # 0 THEN {}
     ELSE first .. first + length \div PageSize - 1

Kfree ==
  /\ \E a \in pages :
       /\ memory_bitmap' = memory_bitmap \ Freed(a.page * PageSize, a.length)
       /\ pages' = pages \ {a}
  /\ returned' = [length |-> 0, address |-> 0]
  /\ UNCHANGED <<memory_map, heap_list, cells, calls>>

Next == Kmalloc \/ Kfree

Spec == Init /\ [][Next]_vars

----------------------------------------------------------------------------
(* Properties                                                              *)

Nodes == [page : Pages, used : 0 .. BitmapBits + 1, edge : BOOLEAN]

(* Types of the variables. *)
TypeOK ==
  /\ memory_map \in MemoryMaps
  /\ memory_bitmap \subseteq Pages
  /\ heap_list \in Seq(Nodes)
  /\ pages \subseteq [page : Pages, length : Lengths]
  /\ cells \subseteq [page : Pages, start : 0 .. BitmapBits - 1,
                     words : Nat \ {0}]
  /\ returned \in [length : Nat, address : Nat]
  /\ calls \in 0 .. MaxCalls

(* The pages that hold a byte of the kernel, the modules or the memory map.*)
Holding(first, end) ==
  {i \in Pages : i * PageSize < end /\ first < (i + 1) * PageSize}
BootPages ==
  Holding(KernelBase, kernel_end) \cup Holding(MapStart, MapStart + MapLength)

(* The regions in use: those pages, page allocations, and, in each node of *)
(* the heap, its header, its bitmap and the cells handed out               *)
(* (heap_node_t).  What was handed out in page 0 was out of memory.        *)
ReservedRegions ==
  {[base |-> i * PageSize, length |-> PageSize] : i \in BootPages}
PageRegions ==
  {[base |-> a.page * PageSize, length |-> a.length] : a \in pages}
HeaderRegions ==
  {[base |-> heap_list[i].page * PageSize, length |-> HeaderSize] :
     i \in DOMAIN heap_list}
BitmapRegions ==
  {[base |-> heap_list[i].page * PageSize + HeaderSize + DataSize,
    length |-> PageSize - HeaderSize - DataSize] : i \in DOMAIN heap_list}
CellRegions ==
  {[base |-> CellAt(c.page, c.start), length |-> 4 * c.words] :
     c \in {d \in cells : d.page # 0}}

Live == ReservedRegions \cup PageRegions \cup HeaderRegions
          \cup BitmapRegions \cup CellRegions

Promise == INSTANCE Allocator WITH live <- Live

(* No two regions in use at the same time overlap (kmalloc, heap_alloc). *)
NoOverlap == Promise!AllApart

(* kmalloc, kfree and heap_alloc keep the promise of an allocator. *)
ImplementsAllocator == Promise!Spec

(* A call gets nothing only when there is no room for it: for pages, no    *)
(* run of free ones long enough.                                           *)
FailsOnlyWhenFull ==
  returned.length > 0 /\ returned.address = 0 =>
    FreeRuns(memory_bitmap, BlocksFor(returned.length)) = {}

(* The pages of an allocation, and those of the heap's nodes.              *)
PagesOf(a) == a.page .. a.page + BlocksFor(a.length) - 1
NodePages == {heap_list[i].page : i \in DOMAIN heap_list}

----------------------------------------------------------------------------
(* Why no two regions overlap: each page in use has one use, and each word *)
(* of a node at most one cell.                                             *)
ReservedInv == Reserved \cup {0} \subseteq memory_bitmap

PagesInv ==
  \A a \in pages :
    /\ PagesOf(a) \subseteq memory_bitmap \ (Reserved \cup {0} \cup NodePages)
    /\ \A b \in pages : a = b \/ PagesOf(a) \cap PagesOf(b) = {}

NodesInv ==
  \A i \in DOMAIN heap_list :
    /\ heap_list[i].page \in memory_bitmap \ (Reserved \cup {0})
    /\ \A j \in DOMAIN heap_list :
         heap_list[i].page = heap_list[j].page => i = j

Holds(node, c) == node.page = c.page /\ c.start + c.words <= node.used
CellsInv ==
  \A c \in cells : c.page # 0 =>
    /\ \E i \in DOMAIN heap_list : Holds(heap_list[i], c)
    /\ \A d \in cells : \/ c = d
                         \/ c.page # d.page
                         \/ c.start + c.words <= d.start
                         \/ d.start + d.words <= c.start

MemoryInv == ReservedInv /\ PagesInv /\ NodesInv /\ CellsInv

============================================================================
