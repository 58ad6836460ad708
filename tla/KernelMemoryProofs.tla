------------------------- MODULE KernelMemoryProofs -------------------------
(***************************************************************************)
(* The allocator keeps its promise on every machine, for every sequence of *)
(* requests, whether memory runs out or not.                               *)
(***************************************************************************)
EXTENDS KernelMemory, WellFoundedInduction, TLAPS

(* A scan either finds nothing and changes nothing, or finds the first of  *)
(* n free pages and marks these.                                           *)
LEMMA Scan ==
  ASSUME NEW bitmap, NEW n \in Nat \ {0}
  PROVE  \/ /\ LowestRun(bitmap, n) = {}
            /\ FirstFit(bitmap, n) = 0
            /\ MarkUsed(bitmap, n) = bitmap
         \/ \E i \in Pages :
              /\ LowestRun(bitmap, n) = {i}
              /\ FirstFit(bitmap, n) = i
              /\ i .. i + n - 1 \subseteq Pages \ bitmap
              /\ MarkUsed(bitmap, n) = bitmap \cup i .. i + n - 1
<1>1. CASE LowestRun(bitmap, n) = {}
  BY <1>1 DEF FirstFit, MarkUsed
<1>2. CASE LowestRun(bitmap, n) # {}
  <2>1. PICK i \in LowestRun(bitmap, n) : TRUE
    BY <1>2
  <2>2. /\ i \in Pages /\ i .. i + n - 1 \subseteq Pages \ bitmap
        /\ \A k \in FreeRuns(bitmap, n) : i <= k
    BY <2>1 DEF LowestRun, FreeRuns
  <2>3. \A k \in LowestRun(bitmap, n) : k = i
    <3> TAKE k \in LowestRun(bitmap, n)
    <3>1. k \in Pages /\ k \in FreeRuns(bitmap, n) /\ i \in FreeRuns(bitmap, n)
      BY <2>1 DEF LowestRun, FreeRuns
    <3>2. k <= i /\ i <= k
      BY <2>1, <3>1 DEF LowestRun
    <3>3. k \in Nat /\ i \in Nat
      BY <2>2, <3>1, NumPagesAssumption DEF Pages
    <3> QED BY <3>2, <3>3
  <2>4. LowestRun(bitmap, n) = {i}
    BY <2>1, <2>3
  <2> QED BY <2>2, <2>4 DEF FirstFit, MarkUsed
<1> QED BY <1>1, <1>2

----------------------------------------------------------------------------
(* How many pages and words a request takes. *)
LEMMA RequestType ==
  ASSUME NEW length \in Lengths
  PROVE  /\ length \in Nat \ {0}
         /\ BlocksFor(length) \in Nat \ {0}
         /\ length <= BlocksFor(length) * PageSize
         /\ WordsFor(length) \in Nat \ {0}
<1>1. length \in Nat \ {0}
  BY MemoryAssumption
<1> QED BY <1>1 DEF BlocksFor, PageSize, WordsFor

(* The fields of a heap node. *)
LEMMA NodeType ==
  ASSUME NEW node \in Nodes
  PROVE  /\ node.page \in Pages /\ node.page \in Nat
         /\ node.used \in Nat /\ node.used <= 985
<1>1. node.page \in Pages /\ node.used \in 0 .. BitmapBits + 1
  BY DEF Nodes
<1>2. BitmapBits + 1 = 985
  BY DEF BitmapBits
<1>3. node.used \in 0 .. 985
  BY <1>1, <1>2
<1> QED BY <1>1, <1>3, NumPagesAssumption DEF Pages

(* memory_init never frees page 0, nor what it reserves. *)
LEMMA BootBitmap ==
  ASSUME NEW map \in MemoryMaps
  PROVE  /\ memory_init(map) \subseteq Pages
         /\ Reserved \cup {0} \subseteq memory_init(map)
<1>1. \A e \in map : Usable(e) => 0 \notin FreeChunks(e)
  <2> SUFFICES ASSUME NEW e \in map, Usable(e) PROVE 0 \notin FreeChunks(e)
    OBVIOUS
  <2>1. e.base \in Nat /\ e.length \in Nat /\ e.base >= 8192
    BY MemoryAssumption DEF Usable, PageSize
  <2>2. StartingChunk(e) \in Nat /\ StartingChunk(e) >= 2
        /\ StartingChunk(e) * PageSize - e.base <= 4095
    BY <2>1 DEF StartingChunk, BlocksFor, PageSize
  <2>3. EndingChunk(e) \in Int /\ EndingChunk(e) >= 1
    <3> DEFINE d == e.length - (StartingChunk(e) * PageSize - e.base)
    <3>1. d \in Int /\ d >= -4095
      BY <2>1, <2>2 DEF PageSize
    <3> HIDE DEF d
    <3>2. d \div PageSize >= -1 /\ d \div PageSize \in Int
      BY <3>1 DEF PageSize
    <3>3. EndingChunk(e) = StartingChunk(e) + d \div PageSize
      BY DEF EndingChunk, d
    <3> QED BY <2>2, <3>2, <3>3
  <2> QED BY <2>2, <2>3 DEF FreeChunks
<1>2. 0 \in Pages /\ Reserved \subseteq Pages
  BY NumPagesAssumption DEF Pages, Reserved
<1> QED BY <1>1, <1>2 DEF memory_init

(* Where memory_init and heap_init leave the memory. *)
LEMMA MemoryInit == Init => TypeOK /\ MemoryInv
<1> SUFFICES ASSUME Init PROVE TypeOK /\ MemoryInv
  OBVIOUS
<1> DEFINE bitmap == memory_init(memory_map)
<1>1. /\ memory_map \in MemoryMaps
      /\ bitmap \subseteq Pages /\ Reserved \cup {0} \subseteq bitmap
      /\ LowestRun(bitmap, 1) # {}
  BY BootBitmap, MemoryAssumption DEF Init
<1>2. PICK edge \in BOOLEAN :
        /\ memory_bitmap = MarkUsed(bitmap, 1)
        /\ heap_list = <<[page |-> FirstFit(bitmap, 1), used |-> 0,
                          edge |-> edge]>>
  BY DEF Init
<1> HIDE DEF bitmap
<1>3. PICK p \in Pages : /\ FirstFit(bitmap, 1) = p
                         /\ p \notin bitmap
                         /\ memory_bitmap = bitmap \cup {p}
  <2>1. PICK p \in Pages : /\ FirstFit(bitmap, 1) = p
                           /\ p .. p + 1 - 1 \subseteq Pages \ bitmap
                           /\ MarkUsed(bitmap, 1) = bitmap \cup p .. p + 1 - 1
    BY <1>1, Scan
  <2>2. p .. p + 1 - 1 = {p}
    BY NumPagesAssumption DEF Pages
  <2> QED BY <1>2, <2>1, <2>2
<1>4. heap_list = <<[page |-> p, used |-> 0, edge |-> edge]>>
  BY <1>2, <1>3
<1>5. DOMAIN heap_list = {1} /\ heap_list \in Seq(Nodes)
      /\ heap_list[1].page = p
  BY <1>3, <1>4 DEF Nodes, BitmapBits
<1>6. TypeOK
  BY <1>1, <1>3, <1>5, MemoryAssumption DEF TypeOK, Init
<1>7. MemoryInv
  BY <1>1, <1>3, <1>5
     DEF Init, MemoryInv, ReservedInv, PagesInv, NodesInv, CellsInv
<1> QED BY <1>6, <1>7

----------------------------------------------------------------------------
(* Each operation keeps the invariant.                                     *)

(* kmalloc of whole pages. *)
LEMMA AllocatePagesInv ==
  ASSUME TypeOK, MemoryInv, NEW length \in Lengths, AllocatePages(length)
  PROVE  /\ memory_bitmap' \subseteq Pages
         /\ pages' \subseteq [page : Pages, length : Lengths]
         /\ returned' \in [length : Nat, address : Nat]
         /\ MemoryInv'
<1> DEFINE n == BlocksFor(length)
<1>1. n \in Nat \ {0} /\ length \in Nat
  BY RequestType
<1>2. heap_list' = heap_list /\ cells' = cells
  BY DEF AllocatePages
<1>3. FirstFit(memory_bitmap, n) * PageSize \in Nat
  <2>1. FirstFit(memory_bitmap, n) \in Nat
    BY NumPagesAssumption DEF FirstFit, LowestRun, FreeRuns, Pages
  <2> QED BY <2>1 DEF PageSize
<1>4. returned' \in [length : Nat, address : Nat]
  BY <1>1, <1>3 DEF AllocatePages
<1>5. CASE LowestRun(memory_bitmap, n) = {}
  <2>1. memory_bitmap' = memory_bitmap /\ pages' = pages
    BY <1>5 DEF AllocatePages, MarkUsed
  <2> QED BY <1>2, <1>4, <2>1
          DEF TypeOK, MemoryInv, ReservedInv, PagesInv, NodesInv, CellsInv,
              NodePages
<1>6. CASE LowestRun(memory_bitmap, n) # {}
  <2>1. PICK p \in Pages :
          /\ LowestRun(memory_bitmap, n) = {p}
          /\ p .. p + n - 1 \subseteq Pages \ memory_bitmap
          /\ MarkUsed(memory_bitmap, n) = memory_bitmap \cup p .. p + n - 1
    BY <1>1, <1>6, Scan
  <2> DEFINE a == [page |-> p, length |-> length]
  <2>2. memory_bitmap' = memory_bitmap \cup PagesOf(a)
        /\ PagesOf(a) \subseteq Pages \ memory_bitmap
        /\ pages' = pages \cup {a}
    BY <2>1 DEF AllocatePages, PagesOf
  <2>3. memory_bitmap' \subseteq Pages
        /\ pages' \subseteq [page : Pages, length : Lengths]
    BY <2>2 DEF TypeOK
  <2> HIDE DEF a
  <2>4. ReservedInv'
    BY <2>2 DEF MemoryInv, ReservedInv
  <2>5. NodesInv' /\ CellsInv' /\ NodePages' = NodePages
    BY <1>2, <2>2 DEF MemoryInv, NodesInv, CellsInv, NodePages
  <2>6. PagesOf(a) \subseteq memory_bitmap' \ (Reserved \cup {0} \cup NodePages')
    BY <2>2, <2>5 DEF MemoryInv, ReservedInv, NodesInv, NodePages
  <2>7. \A b \in pages : PagesOf(a) \cap PagesOf(b) = {}
    BY <2>2 DEF MemoryInv, PagesInv
  <2>8. PagesInv'
    BY <2>2, <2>5, <2>6, <2>7 DEF MemoryInv, PagesInv
  <2> QED BY <1>4, <2>3, <2>4, <2>5, <2>8 DEF MemoryInv
<1> QED BY <1>5, <1>6

(* A small request served by a node of the heap. *)
LEMMA AllocateFromNodeInv ==
  ASSUME TypeOK, MemoryInv, NEW length \in Lengths, AllocateFromNode(length)
  PROVE  /\ heap_list' \in Seq(Nodes)
         /\ cells' \subseteq [page : Pages, start : 0 .. BitmapBits - 1,
                              words : Nat \ {0}]
         /\ returned' \in [length : Nat, address : Nat]
         /\ MemoryInv'
<1> DEFINE words == WordsFor(length)
<1>1. words \in Nat \ {0} /\ length \in Nat
  BY RequestType
<1>2. PICK i \in DOMAIN heap_list :
        /\ Fits(heap_list[i], length)
        /\ heap_list' = [heap_list EXCEPT ![i].used = heap_list[i].used + words]
        /\ cells' = cells \cup {[page |-> heap_list[i].page,
                                 start |-> heap_list[i].used, words |-> words]}
        /\ returned' = [length |-> length,
                        address |-> CellAt(heap_list[i].page, heap_list[i].used)]
        /\ memory_bitmap' = memory_bitmap /\ pages' = pages
  BY DEF AllocateFromNode, Fitting
<1> DEFINE node == heap_list[i]
           c == [page |-> node.page, start |-> node.used, words |-> words]
<1>3. heap_list \in Seq(Nodes) /\ node \in Nodes
  BY <1>2 DEF TypeOK
<1>4. /\ node.page \in Pages /\ node.page \in Nat /\ node.used \in Nat
      /\ node.used < BitmapBits /\ node.used + words <= BitmapBits + 1
  <2>1. node.page \in Pages /\ node.used \in Nat
    BY <1>3, NodeType
  <2>2. node.page \in Nat
    BY <1>3, NodeType
  <2>3. node.used < BitmapBits /\ node.used + words <= Bits(node)
    BY <1>2 DEF Fits
  <2>4. Bits(node) <= BitmapBits + 1 /\ Bits(node) \in Nat
    BY DEF Bits, BitmapBits
  <2> HIDE DEF node
  <2> QED BY <1>1, <2>1, <2>2, <2>3, <2>4 DEF BitmapBits
<1> DEFINE after == [node EXCEPT !.used = node.used + words]
<1>5. after \in Nodes /\ after.page = node.page /\ after.used = node.used + words
  <2>1. node.used + words \in 0 .. BitmapBits + 1
    <3>1. BitmapBits + 1 \in Nat
      BY DEF BitmapBits
    <3> HIDE DEF node, words
    <3> QED BY <1>1, <1>4, <3>1
  <2> QED BY <1>3, <2>1 DEF Nodes
<1>6. heap_list' = [heap_list EXCEPT ![i] = after]
  BY <1>2
<1>7. /\ heap_list' \in Seq(Nodes) /\ DOMAIN heap_list' = DOMAIN heap_list
      /\ \A j \in DOMAIN heap_list : heap_list'[j] = IF j = i THEN after ELSE heap_list[j]
  BY <1>2, <1>3, <1>5, <1>6
<1>8. CellAt(node.page, node.used) \in Nat
  BY <1>4 DEF CellAt, PageSize, HeaderSize
<1>9. cells' = cells \cup {c}
  BY <1>2
<1>10. c \in [page : Pages, start : 0 .. BitmapBits - 1, words : Nat \ {0}]
  <2>1. node.used \in 0 .. BitmapBits - 1
    <3>1. BitmapBits \in Nat
      BY DEF BitmapBits
    <3> HIDE DEF node
    <3> QED BY <1>4, <3>1
  <2> QED BY <1>1, <1>4, <2>1
<1> HIDE DEF after, node
<1>11. \A j \in DOMAIN heap_list : heap_list'[j].page = heap_list[j].page
  BY <1>5, <1>7 DEF node
<1>12. NodePages' = NodePages
  BY <1>7, <1>11 DEF NodePages
<1>13. ReservedInv' /\ PagesInv' /\ NodesInv'
  BY <1>2, <1>7, <1>11, <1>12 DEF MemoryInv, ReservedInv, PagesInv, NodesInv
<1>14. CellsInv'
  <2>1. \A d \in cells : d.page # 0 =>
          \E j \in DOMAIN heap_list' : Holds(heap_list'[j], d)
    <3> SUFFICES ASSUME NEW d \in cells, d.page # 0
                 PROVE  \E j \in DOMAIN heap_list' : Holds(heap_list'[j], d)
      OBVIOUS
    <3>1. PICK j \in DOMAIN heap_list : Holds(heap_list[j], d)
      BY DEF MemoryInv, CellsInv
    <3>2. d.start \in Nat /\ d.words \in Nat
      BY DEF TypeOK
    <3>3. Holds(heap_list'[j], d)
      BY <1>1, <1>4, <1>5, <1>7, <3>1, <3>2 DEF Holds, node
    <3> QED BY <1>7, <3>1, <3>3
  <2>2. Holds(heap_list'[i], c)
    <3>1. c.page = after.page /\ c.start + c.words <= after.used
      BY <1>1, <1>4, <1>5
    <3> QED BY <1>2, <1>7, <3>1 DEF Holds
  <2>3. \A d \in cells : d.page # 0 /\ d.page = node.page =>
          d.start + d.words <= node.used
    <3> SUFFICES ASSUME NEW d \in cells, d.page # 0, d.page = node.page
                 PROVE  d.start + d.words <= node.used
      OBVIOUS
    <3>1. PICK j \in DOMAIN heap_list : Holds(heap_list[j], d)
      BY DEF MemoryInv, CellsInv
    <3>2. j = i
      BY <1>2, <3>1 DEF Holds, MemoryInv, NodesInv, node
    <3> QED BY <3>1, <3>2 DEF Holds, node
  <2> HIDE DEF c
  <2>4. c.page = node.page /\ c.start = node.used
    BY DEF c
  <2> QED BY <1>2, <1>7, <1>9, <2>1, <2>2, <2>3, <2>4
          DEF MemoryInv, CellsInv
<1> QED BY <1>1, <1>2, <1>7, <1>8, <1>9, <1>10, <1>13, <1>14 DEF MemoryInv, node, TypeOK

(* A small request that takes a new node. *)
LEMMA AllocateNodeInv ==
  ASSUME TypeOK, MemoryInv, NEW length \in Lengths, AllocateNode(length)
  PROVE  /\ memory_bitmap' \subseteq Pages
         /\ heap_list' \in Seq(Nodes)
         /\ cells' \subseteq [page : Pages, start : 0 .. BitmapBits - 1,
                              words : Nat \ {0}]
         /\ returned' \in [length : Nat, address : Nat]
         /\ MemoryInv'
<1> DEFINE words == WordsFor(length)
           page == FirstFit(memory_bitmap, 1)
<1>1. words \in Nat \ {0} /\ length \in Nat
  BY RequestType
<1>2. PICK edge \in BOOLEAN, fits \in BOOLEAN :
        /\ fits <=> words <= Bits([edge |-> edge])
        /\ memory_bitmap' = MarkUsed(memory_bitmap, 1)
        /\ heap_list' = IF page = 0 THEN heap_list
                        ELSE Append(heap_list,
                               [page |-> page, used |-> IF fits THEN words ELSE 0,
                                edge |-> edge])
        /\ cells' = IF fits THEN cells \cup {[page |-> page, start |-> 0,
                                             words |-> words]}
                    ELSE cells
        /\ returned' = [length |-> length,
                        address |-> IF fits THEN CellAt(page, 0) ELSE 0]
        /\ pages' = pages
  <2>1. PICK edge \in BOOLEAN :
          /\ memory_bitmap' = MarkUsed(memory_bitmap, 1)
          /\ heap_list' = IF page = 0 THEN heap_list
                          ELSE Append(heap_list,
                                 [page |-> page,
                                  used |-> IF words <= Bits([edge |-> edge])
                                           THEN words ELSE 0,
                                  edge |-> edge])
          /\ cells' = IF words <= Bits([edge |-> edge])
                      THEN cells \cup {[page |-> page, start |-> 0,
                                        words |-> words]}
                      ELSE cells
          /\ returned' = [length |-> length,
                          address |-> IF words <= Bits([edge |-> edge])
                                      THEN CellAt(page, 0) ELSE 0]
          /\ pages' = pages
    BY DEF AllocateNode
  <2>2. CASE words <= Bits([edge |-> edge])
    BY <2>1, <2>2
  <2>3. CASE ~(words <= Bits([edge |-> edge]))
    BY <2>1, <2>3
  <2> QED BY <2>2, <2>3
<1> HIDE DEF page
<1>3. /\ page \in Nat /\ CellAt(page, 0) \in Nat
      /\ returned' \in [length : Nat, address : Nat]
  <2>1. page \in Nat
    BY NumPagesAssumption DEF page, FirstFit, LowestRun, FreeRuns, Pages
  <2>2. CellAt(page, 0) \in Nat
    BY <2>1 DEF CellAt, PageSize, HeaderSize
  <2> QED BY <1>1, <1>2, <2>1, <2>2
<1> DEFINE used == IF fits THEN words ELSE 0
           node == [page |-> page, used |-> used, edge |-> edge]
           c == [page |-> page, start |-> 0, words |-> words]
<1>4. used \in 0 .. BitmapBits + 1
  <2>1. BitmapBits + 1 \in Nat
    BY DEF BitmapBits
  <2>2. Bits([edge |-> edge]) \in Nat /\ Bits([edge |-> edge]) <= BitmapBits + 1
    BY DEF Bits, BitmapBits
  <2> QED BY <1>1, <1>2, <2>1, <2>2
<1>5. cells' = IF fits THEN cells \cup {c} ELSE cells
  BY <1>2
<1>6. page \in Pages /\ 0 \in Pages => c \in [page : Pages, start : 0 .. BitmapBits - 1, words : Nat \ {0}]
  BY <1>1 DEF BitmapBits
<1>7. 0 \in Pages
  BY NumPagesAssumption DEF Pages
<1>8. CASE LowestRun(memory_bitmap, 1) = {}
  <2>1. page = 0 /\ memory_bitmap' = memory_bitmap
    BY <1>2, <1>8 DEF page, FirstFit, MarkUsed
  <2>2. heap_list' = heap_list /\ pages' = pages
    BY <1>2, <2>1
  <2>3. ReservedInv' /\ PagesInv' /\ NodesInv'
    BY <2>1, <2>2 DEF MemoryInv, ReservedInv, PagesInv, NodesInv, NodePages
  <2>4. CellsInv'
    BY <1>5, <2>1, <2>2 DEF MemoryInv, CellsInv
  <2> QED BY <1>3, <1>5, <1>6, <1>7, <2>1, <2>2, <2>3, <2>4 DEF TypeOK, MemoryInv
<1>9. CASE LowestRun(memory_bitmap, 1) # {}
  <2>1. page \in Pages /\ page \notin memory_bitmap
        /\ memory_bitmap' = memory_bitmap \cup {page}
    <3>1. PICK p \in Pages :
            /\ FirstFit(memory_bitmap, 1) = p
            /\ p .. p + 1 - 1 \subseteq Pages \ memory_bitmap
            /\ MarkUsed(memory_bitmap, 1) = memory_bitmap \cup p .. p + 1 - 1
      BY <1>9, Scan
    <3>2. p .. p + 1 - 1 = {p}
      BY NumPagesAssumption DEF Pages
    <3> QED BY <1>2, <3>1, <3>2 DEF page
  <2>2. page # 0
    BY <2>1 DEF MemoryInv, ReservedInv
  <2>3. heap_list' = Append(heap_list, node) /\ node \in Nodes
    BY <1>2, <1>4, <2>1, <2>2 DEF Nodes
  <2>4. node.page = page /\ node.used = used
    OBVIOUS
  <2> HIDE DEF node, used
  <2> DEFINE k == Len(heap_list) + 1
  <2>5. /\ heap_list' \in Seq(Nodes) /\ DOMAIN heap_list' = DOMAIN heap_list \cup {k}
        /\ k \notin DOMAIN heap_list
        /\ heap_list'[k] = node
        /\ \A j \in DOMAIN heap_list : heap_list'[j] = heap_list[j]
    <3>1. heap_list \in Seq(Nodes)
      BY DEF TypeOK
    <3> QED BY <2>3, <3>1
  <2> HIDE DEF k
  <2>6. NodePages' = NodePages \cup {page}
    BY <2>4, <2>5 DEF NodePages
  <2>7. \A j \in DOMAIN heap_list : heap_list[j].page # page
    BY <2>1 DEF MemoryInv, NodesInv
  <2>8. ReservedInv'
    BY <2>1 DEF MemoryInv, ReservedInv
  <2>9. PagesInv'
    BY <1>2, <2>1, <2>6 DEF MemoryInv, PagesInv
  <2>10. NodesInv'
    <3>1. page \in memory_bitmap' \ (Reserved \cup {0})
      BY <2>1 DEF MemoryInv, ReservedInv
    <3> QED BY <2>1, <2>4, <2>5, <2>7, <3>1 DEF MemoryInv, NodesInv
  <2>11. CellsInv'
    <3>1. \A d \in cells : d.page # 0 =>
            /\ d.page # page
            /\ \E j \in DOMAIN heap_list' : Holds(heap_list'[j], d)
      BY <2>5, <2>7 DEF MemoryInv, CellsInv, Holds
    <3>2. fits => Holds(heap_list'[k], c)
      BY <1>1, <2>4, <2>5 DEF Holds, used
    <3>3. c.page = page
      OBVIOUS
    <3> HIDE DEF c
    <3>4. CASE fits
      <4>1. \E j \in DOMAIN heap_list' : Holds(heap_list'[j], c)
        BY <2>5, <3>2, <3>4
      <4> QED BY <1>5, <3>1, <3>3, <3>4, <4>1 DEF MemoryInv, CellsInv
    <3>5. CASE ~fits
      BY <1>5, <3>1, <3>5 DEF MemoryInv, CellsInv
    <3> QED BY <3>4, <3>5
  <2>12. memory_bitmap' \subseteq Pages
    BY <2>1 DEF TypeOK
  <2>13. cells' \subseteq [page : Pages, start : 0 .. BitmapBits - 1,
                          words : Nat \ {0}]
    BY <1>5, <1>6, <1>7, <2>1 DEF TypeOK
  <2> QED BY <1>3, <2>5, <2>8, <2>9, <2>10, <2>11, <2>12, <2>13 DEF MemoryInv
<1> QED BY <1>8, <1>9

(* kfree frees pages of one allocation only. *)
LEMMA KfreeInv == TypeOK /\ MemoryInv /\ Kfree => TypeOK' /\ MemoryInv'
<1> SUFFICES ASSUME TypeOK, MemoryInv, Kfree PROVE TypeOK' /\ MemoryInv'
  OBVIOUS
<1>1. PICK a \in pages :
        /\ memory_bitmap' = memory_bitmap \ Freed(a.page * PageSize, a.length)
        /\ pages' = pages \ {a}
  BY DEF Kfree
<1>2. Freed(a.page * PageSize, a.length) \subseteq PagesOf(a)
  <2>1. a.page \in Nat /\ a.length \in Nat
    <3>1. a.page \in Pages /\ a.length \in Lengths
      BY DEF TypeOK
    <3>2. a.page \in Nat
      BY <3>1, NumPagesAssumption DEF Pages
    <3>3. a.length \in Nat
      BY <3>1, MemoryAssumption
    <3> QED BY <3>2, <3>3
  <2>2. (a.page * PageSize) \div PageSize = a.page
    BY <2>1 DEF PageSize
  <2>3. /\ a.length \div PageSize \in Nat /\ BlocksFor(a.length) \in Nat
        /\ a.length \div PageSize <= BlocksFor(a.length)
    BY <2>1 DEF PageSize, BlocksFor
  <2> QED BY <2>1, <2>2, <2>3 DEF Freed, PagesOf
<1>3. UNCHANGED <<memory_map, heap_list, cells, calls>>
      /\ returned' = [length |-> 0, address |-> 0]
  BY DEF Kfree
<1>4. memory_bitmap \ PagesOf(a) \subseteq memory_bitmap'
  BY <1>1, <1>2
<1>5. PagesOf(a) \cap (Reserved \cup {0} \cup NodePages) = {}
  BY DEF MemoryInv, PagesInv
<1>6. TypeOK'
  BY <1>1, <1>3 DEF TypeOK
<1>7. ReservedInv'
  BY <1>4, <1>5 DEF MemoryInv, ReservedInv
<1>8. PagesInv' /\ CellsInv'
  BY <1>1, <1>3, <1>4 DEF MemoryInv, PagesInv, CellsInv, NodePages
<1>9. NodesInv'
  BY <1>3, <1>4, <1>5 DEF MemoryInv, NodesInv, NodePages
<1> QED BY <1>6, <1>7, <1>8, <1>9 DEF MemoryInv

(* kmalloc, whichever way it is served. *)
LEMMA KmallocInv == TypeOK /\ MemoryInv /\ Kmalloc => TypeOK' /\ MemoryInv'
<1> SUFFICES ASSUME TypeOK, MemoryInv, Kmalloc PROVE TypeOK' /\ MemoryInv'
  OBVIOUS
<1>1. memory_map' = memory_map /\ calls' \in 0 .. MaxCalls
  BY MemoryAssumption DEF Kmalloc, TypeOK
<1>2. PICK length \in Lengths : \/ AllocatePages(length)
                               \/ AllocateFromNode(length)
                               \/ AllocateNode(length)
  BY DEF Kmalloc, heap_alloc
<1>3. CASE AllocatePages(length)
  <2>1. heap_list' = heap_list /\ cells' = cells
    BY <1>3 DEF AllocatePages
  <2> QED BY <1>1, <1>3, <2>1, AllocatePagesInv DEF TypeOK
<1>4. CASE AllocateFromNode(length)
  <2>1. memory_bitmap' = memory_bitmap /\ pages' = pages
    BY <1>4 DEF AllocateFromNode
  <2> QED BY <1>1, <1>4, <2>1, AllocateFromNodeInv DEF TypeOK
<1>5. CASE AllocateNode(length)
  <2>1. pages' = pages
    BY <1>5 DEF AllocateNode
  <2> QED BY <1>1, <1>5, <2>1, AllocateNodeInv DEF TypeOK
<1> QED BY <1>2, <1>3, <1>4, <1>5

(* Types, and one use for each page and word in use. *)
THEOREM MemoryKept == Spec => [](TypeOK /\ MemoryInv)
<1>1. Init => TypeOK /\ MemoryInv
  BY MemoryInit
<1>2. TypeOK /\ MemoryInv /\ [Next]_vars => (TypeOK /\ MemoryInv)'
  <2>1. TypeOK /\ MemoryInv /\ UNCHANGED vars => (TypeOK /\ MemoryInv)'
    BY DEF vars, TypeOK, MemoryInv, ReservedInv, PagesInv, NodesInv, CellsInv,
           NodePages
  <2> QED BY <2>1, KmallocInv, KfreeInv DEF Next
<1> QED BY <1>1, <1>2, PTL DEF Spec

(* Types of the variables. *)
THEOREM MemoryTypes == Spec => []TypeOK
BY MemoryKept, PTL

(* Every page in use has one use. *)
THEOREM OneUsePerPage == Spec => []MemoryInv
BY MemoryKept, PTL

----------------------------------------------------------------------------
(* From the pages to the regions.                                          *)

Within(r, p, k) ==
  /\ r.base \in Nat /\ r.length \in Nat
  /\ p \in Nat /\ k \in Nat \ {0}
  /\ p * PageSize <= r.base /\ r.base + r.length <= (p + k) * PageSize

(* Regions within different pages do not overlap. *)
LEMMA DifferentPages ==
  ASSUME NEW r, NEW s, NEW p, NEW k, NEW q, NEW m,
         Within(r, p, k), Within(s, q, m),
         (p .. p + k - 1) \cap (q .. q + m - 1) = {}
  PROVE  Promise!Apart(r, s) /\ Promise!Apart(s, r)
<1>1. p \in Nat /\ q \in Nat /\ k \in Nat \ {0} /\ m \in Nat \ {0}
  BY DEF Within
<1>2. p + k <= q \/ q + m <= p
  BY <1>1
<1> QED BY <1>1, <1>2 DEF Within, Promise!Apart, PageSize

(* memory_init reserves all of the kernel, the modules and the memory map. *)
LEMMA BootReserved == BootPages \subseteq Reserved
<1>1. ASSUME NEW i \in Holding(KernelBase, kernel_end)
      PROVE  i \in KernelBlocks
  <2>1. i \in Nat /\ i * PageSize < kernel_end /\ KernelBase < (i + 1) * PageSize
    BY NumPagesAssumption DEF Holding, Pages
  <2> QED BY <2>1, MemoryAssumption DEF KernelBlocks, BlocksFor, PageSize
<1>2. ASSUME NEW i \in Holding(MapStart, MapStart + MapLength)
      PROVE  i \in MapBlocks
  <2>1. /\ i \in Nat /\ i * PageSize < MapStart + MapLength
        /\ MapStart < (i + 1) * PageSize
    BY NumPagesAssumption DEF Holding, Pages
  <2> DEFINE first == MapStart \div PageSize
             size == MapLength + (PageSize - (MapLength % PageSize))
                       + (MapStart % PageSize)
             offset == MapStart % PageSize
             rest == MapLength % PageSize
  <2>2. MapStart \in Nat /\ MapLength \in Nat
    BY MemoryAssumption
  <2>3. /\ first \in Nat /\ MapStart = first * 4096 + offset
        /\ offset \in 0 .. 4095 /\ rest \in 0 .. 4095
    BY <2>2 DEF PageSize
  <2>4. size = MapLength + (4096 - rest) + offset
    BY DEF PageSize
  <2> HIDE DEF first, size, offset, rest
  <2>5. size \in Nat /\ size > MapLength + offset
    BY <2>2, <2>3, <2>4
  <2>6. BlocksFor(size) \in Nat /\ size <= BlocksFor(size) * 4096
    BY <2>5 DEF BlocksFor, PageSize
  <2>7. first <= i /\ (i - first) * 4096 < size
    BY <2>1, <2>2, <2>3, <2>5 DEF PageSize
  <2>8. i \in first .. first + BlocksFor(size) - 1
    BY <2>1, <2>3, <2>5, <2>6, <2>7
  <2> QED BY <2>8 DEF MapBlocks, first, size
<1> QED BY <1>1, <1>2 DEF BootPages, Reserved, Holding

(* Which pages a reserved region and a page allocation lie in. *)
LEMMA PagesOfRegion ==
  ASSUME TypeOK
  PROVE  /\ \A p \in Reserved : Within([base |-> p * PageSize,
                                        length |-> PageSize], p, 1)
         /\ \A a \in pages : Within([base |-> a.page * PageSize,
                                     length |-> a.length],
                                    a.page, BlocksFor(a.length))
<1>1. \A p \in Reserved : p \in Nat
  BY NumPagesAssumption DEF Reserved, Pages
<1>2. ASSUME NEW a \in pages
      PROVE  a.page \in Nat /\ a.length \in Nat
             /\ BlocksFor(a.length) \in Nat \ {0}
             /\ a.length <= BlocksFor(a.length) * PageSize
  <2>1. a.page \in Pages /\ a.length \in Lengths
    BY DEF TypeOK
  <2>2. a.page \in Nat
    BY <2>1, NumPagesAssumption DEF Pages
  <2> QED BY <2>1, <2>2, RequestType
<1> QED BY <1>1, <1>2 DEF Within, PageSize

(* Regions of node i: the header, the bitmap, the cells. *)
CellRegion(c) == [base |-> CellAt(c.page, c.start), length |-> 4 * c.words]
InNode(r, i) ==
  \/ r = [base |-> heap_list[i].page * PageSize, length |-> HeaderSize]
  \/ r = [base |-> heap_list[i].page * PageSize + HeaderSize + DataSize,
          length |-> PageSize - HeaderSize - DataSize]
  \/ \E c \in cells : c.page # 0 /\ Holds(heap_list[i], c) /\ r = CellRegion(c)

(* The numbers of a cell that node i holds. *)
LEMMA CellType ==
  ASSUME TypeOK, NEW i \in DOMAIN heap_list, NEW c \in cells,
         Holds(heap_list[i], c)
  PROVE  /\ c.page = heap_list[i].page /\ c.page \in Nat
         /\ c.start \in Nat /\ c.words \in Nat \ {0}
         /\ c.start + c.words <= 985
<1>1. heap_list[i] \in Nodes
  BY DEF TypeOK
<1>2. c.start \in 0 .. BitmapBits - 1 /\ c.words \in Nat \ {0}
  BY DEF TypeOK
<1>3. c.start \in Nat
  BY <1>2 DEF BitmapBits
<1> QED BY <1>1, <1>2, <1>3, NodeType DEF Holds

(* What lies in a node lies in its page. *)
LEMMA NodeRegion ==
  ASSUME TypeOK, NEW r, NEW i \in DOMAIN heap_list, InNode(r, i)
  PROVE  Within(r, heap_list[i].page, 1)
<1>1. heap_list[i].page \in Nat
  BY NodeType DEF TypeOK
<1>2. ASSUME NEW c \in cells, Holds(heap_list[i], c), r = CellRegion(c)
      PROVE  Within(r, heap_list[i].page, 1)
  BY <1>1, <1>2, CellType
     DEF Within, CellRegion, CellAt, PageSize, HeaderSize
<1> QED BY <1>1, <1>2 DEF InNode, Within, PageSize, HeaderSize, DataSize

(* Within one node nothing overlaps. *)
LEMMA SameNode ==
  ASSUME TypeOK, MemoryInv, NEW r, NEW s, NEW i \in DOMAIN heap_list,
         InNode(r, i), InNode(s, i), r # s
  PROVE  Promise!Apart(r, s)
<1> DEFINE base == heap_list[i].page * PageSize
           header == [base |-> base, length |-> HeaderSize]
           bits == [base |-> base + HeaderSize + DataSize,
                    length |-> PageSize - HeaderSize - DataSize]
           IsCell(x) == \E c \in cells : /\ c.page # 0
                                         /\ Holds(heap_list[i], c)
                                         /\ x = CellRegion(c)
<1>1. heap_list[i].page \in Nat
  BY NodeType DEF TypeOK
<1>2. base \in Nat
  BY <1>1 DEF PageSize
<1>3. \A x : IsCell(x) =>
        /\ x.base \in Nat /\ x.length \in Nat
        /\ base + 8 <= x.base /\ x.base + x.length <= base + 3948
  BY <1>1, CellType DEF CellRegion, CellAt, PageSize, HeaderSize
<1>4. ASSUME IsCell(r), IsCell(s)
      PROVE  Promise!Apart(r, s)
  <2>1. PICK c \in cells : /\ c.page # 0 /\ Holds(heap_list[i], c)
                           /\ r = CellRegion(c)
    BY <1>4
  <2>2. PICK d \in cells : /\ d.page # 0 /\ Holds(heap_list[i], d)
                           /\ s = CellRegion(d)
    BY <1>4
  <2>3. c # d /\ c.page = d.page
    BY <2>1, <2>2 DEF Holds
  <2>4. c.start + c.words <= d.start \/ d.start + d.words <= c.start
    BY <2>1, <2>3 DEF MemoryInv, CellsInv
  <2>5. /\ c.page \in Nat /\ c.start \in Nat /\ c.words \in Nat
        /\ d.start \in Nat /\ d.words \in Nat
    BY <2>1, <2>2, CellType
  <2> QED BY <2>1, <2>2, <2>3, <2>4, <2>5
          DEF CellRegion, CellAt, PageSize, HeaderSize, Promise!Apart
<1>5. /\ header.base = base /\ header.length = 8
      /\ bits.base = base + 3972 /\ bits.length = 124
  BY <1>2 DEF HeaderSize, DataSize, PageSize
<1>6. /\ r = header \/ r = bits \/ IsCell(r)
      /\ s = header \/ s = bits \/ IsCell(s)
  BY DEF InNode
<1> HIDE DEF base, header, bits, IsCell
<1>7. CASE IsCell(r) /\ IsCell(s)
  BY <1>4, <1>7
<1>8. CASE IsCell(r) /\ ~IsCell(s)
  BY <1>2, <1>3, <1>5, <1>6, <1>8 DEF Promise!Apart
<1>9. CASE ~IsCell(r)
  BY <1>2, <1>3, <1>5, <1>6, <1>9 DEF Promise!Apart
<1> QED BY <1>7, <1>8, <1>9

(* Every region in use is reserved, a page allocation, or in a node. *)
LEMMA LiveIs ==
  ASSUME TypeOK, MemoryInv, NEW r \in Live
  PROVE  \/ \E p \in Reserved : r = [base |-> p * PageSize, length |-> PageSize]
         \/ \E a \in pages : r = [base |-> a.page * PageSize, length |-> a.length]
         \/ \E i \in DOMAIN heap_list : InNode(r, i)
<1>1. ASSUME r \in CellRegions
      PROVE  \E i \in DOMAIN heap_list : InNode(r, i)
  <2>1. PICK c \in cells : c.page # 0 /\ r = CellRegion(c)
    BY <1>1 DEF CellRegions, CellRegion
  <2>2. PICK i \in DOMAIN heap_list : Holds(heap_list[i], c)
    BY <2>1 DEF MemoryInv, CellsInv
  <2> QED BY <2>1, <2>2 DEF InNode
<1> QED BY <1>1, BootReserved
        DEF Live, ReservedRegions, PageRegions, HeaderRegions, BitmapRegions,
            InNode

(* One use for each page, and no two regions overlap. *)
LEMMA InvNoOverlap == TypeOK /\ MemoryInv => NoOverlap
<1> SUFFICES ASSUME TypeOK, MemoryInv, NEW r \in Live, NEW s \in Live, r # s
             PROVE  Promise!Apart(r, s)
  BY DEF NoOverlap, Promise!AllApart
<1> DEFINE R(x, p) == p \in Reserved
                      /\ x = [base |-> p * PageSize, length |-> PageSize]
           P(x, a) == a \in pages
                      /\ x = [base |-> a.page * PageSize, length |-> a.length]
           N(x, i) == i \in DOMAIN heap_list /\ InNode(x, i)
           Pg(i) == heap_list[i].page
<1>1. /\ (\E p : R(r, p)) \/ (\E a : P(r, a)) \/ (\E i : N(r, i))
      /\ (\E p : R(s, p)) \/ (\E a : P(s, a)) \/ (\E i : N(s, i))
  <2>1. (\E p : R(r, p)) \/ (\E a : P(r, a)) \/ (\E i : N(r, i))
    BY LiveIs
  <2>2. (\E p : R(s, p)) \/ (\E a : P(s, a)) \/ (\E i : N(s, i))
    BY LiveIs
  <2> QED BY <2>1, <2>2
<1>2. /\ \A x, p : R(x, p) => Within(x, p, 1) /\ p \in Nat /\ p .. p + 1 - 1 = {p}
      /\ \A x, a : P(x, a) => Within(x, a.page, BlocksFor(a.length))
      /\ \A x, i : N(x, i) => /\ Within(x, Pg(i), 1)
                              /\ Pg(i) .. Pg(i) + 1 - 1 = {Pg(i)}
  <2>1. \A n \in Nat : n .. n + 1 - 1 = {n}
    OBVIOUS
  <2> QED BY <2>1, PagesOfRegion, NodeRegion DEF Within
<1>3. /\ \A a \in pages : PagesOf(a) \cap (Reserved \cup NodePages) = {}
      /\ \A a, b \in pages : a = b \/ PagesOf(a) \cap PagesOf(b) = {}
      /\ \A i \in DOMAIN heap_list : Pg(i) \in NodePages /\ Pg(i) \notin Reserved
      /\ \A i, j \in DOMAIN heap_list : Pg(i) = Pg(j) => i = j
  BY DEF MemoryInv, PagesInv, NodesInv, NodePages
<1>4. ASSUME NEW x, NEW y, NEW p, R(x, p), NEW q, R(y, q), x # y
      PROVE  Promise!Apart(x, y)
  BY <1>2, <1>4, DifferentPages
<1>5. ASSUME NEW x, NEW y, NEW p, R(x, p), NEW a, P(y, a)
      PROVE  Promise!Apart(x, y) /\ Promise!Apart(y, x)
  BY <1>2, <1>3, <1>5, DifferentPages DEF PagesOf
<1>6. ASSUME NEW x, NEW y, NEW p, R(x, p), NEW i, N(y, i)
      PROVE  Promise!Apart(x, y) /\ Promise!Apart(y, x)
  BY <1>2, <1>3, <1>6, DifferentPages
<1>7. ASSUME NEW x, NEW y, NEW a, P(x, a), NEW b, P(y, b), x # y
      PROVE  Promise!Apart(x, y)
  BY <1>2, <1>3, <1>7, DifferentPages DEF PagesOf
<1>8. ASSUME NEW x, NEW y, NEW a, P(x, a), NEW i, N(y, i)
      PROVE  Promise!Apart(x, y) /\ Promise!Apart(y, x)
  BY <1>2, <1>3, <1>8, DifferentPages DEF PagesOf
<1>9. ASSUME NEW x, NEW y, NEW i, N(x, i), NEW j, N(y, j), x # y
      PROVE  Promise!Apart(x, y)
  <2>1. CASE i = j
    BY <1>9, <2>1, SameNode
  <2>2. CASE i # j
    BY <1>2, <1>3, <1>9, <2>2, DifferentPages
  <2> QED BY <2>1, <2>2
<1> HIDE DEF R, P, N
<1> QED BY <1>1, <1>4, <1>5, <1>6, <1>7, <1>8, <1>9

(* kmalloc never hands out memory that is in use, and what it returns      *)
(* overlaps neither the kernel nor what the heap keeps for itself.         *)
THEOREM NothingOverlaps == Spec => []NoOverlap
BY MemoryKept, InvNoOverlap, PTL

(* kmalloc leaves every region in use where it was. *)
LEMMA KmallocKeeps == TypeOK /\ MemoryInv /\ Kmalloc => Live \subseteq Live'
<1> SUFFICES ASSUME TypeOK, MemoryInv, Kmalloc PROVE Live \subseteq Live'
  OBVIOUS
<1>1. PICK length \in Lengths : \/ AllocatePages(length)
                               \/ AllocateFromNode(length)
                               \/ AllocateNode(length)
  BY DEF Kmalloc, heap_alloc
<1>2. pages \subseteq pages' /\ cells \subseteq cells'
  BY <1>1 DEF AllocatePages, AllocateFromNode, AllocateNode
<1>3. \A i \in DOMAIN heap_list :
        i \in DOMAIN heap_list' /\ heap_list'[i].page = heap_list[i].page
  <2>1. heap_list \in Seq(Nodes)
    BY DEF TypeOK
  <2>2. CASE AllocatePages(length)
    BY <2>2 DEF AllocatePages
  <2>3. CASE AllocateFromNode(length)
    <3>1. PICK i \in DOMAIN heap_list :
            \E n : heap_list' = [heap_list EXCEPT ![i].used = n]
      BY <2>3 DEF AllocateFromNode, Fitting
    <3> PICK n : heap_list' = [heap_list EXCEPT ![i].used = n]
      BY <3>1
    <3>2. heap_list' = [heap_list EXCEPT ![i] = [heap_list[i] EXCEPT !.used = n]]
      OBVIOUS
    <3>3. [heap_list[i] EXCEPT !.used = n].page = heap_list[i].page
      <4>1. heap_list[i] \in Nodes
        BY <2>1
      <4> QED BY <4>1 DEF Nodes
    <3> QED BY <2>1, <3>2, <3>3
  <2>4. CASE AllocateNode(length)
    <3>1. PICK edge \in BOOLEAN :
            LET page == FirstFit(memory_bitmap, 1)
                words == WordsFor(length)
                fits == words <= Bits([edge |-> edge])
                node == [page |-> page, used |-> IF fits THEN words ELSE 0,
                         edge |-> edge]
            IN heap_list' = IF page = 0 THEN heap_list
                            ELSE Append(heap_list, node)
      BY <2>4 DEF AllocateNode
    <3>2. heap_list' = heap_list \/ \E node : heap_list' = Append(heap_list, node)
      BY <3>1
    <3> QED BY <2>1, <3>2
  <2> QED BY <1>1, <2>2, <2>3, <2>4
<1> QED BY <1>2, <1>3 DEF Live, ReservedRegions, PageRegions, HeaderRegions,
                          BitmapRegions, CellRegions

(* kfree takes one region out of use. *)
LEMMA KfreeRemoves ==
  TypeOK /\ MemoryInv /\ Kfree => \E r \in Live : Live' = Live \ {r}
<1> SUFFICES ASSUME TypeOK, MemoryInv, Kfree
             PROVE  \E r \in Live : Live' = Live \ {r}
  OBVIOUS
<1>1. PICK a \in pages : pages' = pages \ {a}
  BY DEF Kfree
<1>2. heap_list' = heap_list /\ cells' = cells
  BY DEF Kfree
<1> DEFINE r == [base |-> a.page * PageSize, length |-> a.length]
           Others == ReservedRegions \cup HeaderRegions \cup BitmapRegions
                       \cup CellRegions
<1>3. r \in PageRegions /\ Live = PageRegions \cup Others
  BY DEF PageRegions, Live
<1>4. Live' = PageRegions' \cup Others
  BY <1>2 DEF Live, ReservedRegions, HeaderRegions, BitmapRegions, CellRegions
<1>5. /\ Within(r, a.page, BlocksFor(a.length))
      /\ a.page \in PagesOf(a) /\ a.page \in Nat
  <2>1. Within(r, a.page, BlocksFor(a.length))
    BY PagesOfRegion
  <2> QED BY <2>1 DEF Within, PagesOf
<1>6. \A b \in pages : b # a => b.page # a.page
  <2> SUFFICES ASSUME NEW b \in pages, b # a PROVE b.page # a.page
    OBVIOUS
  <2>1. b.page \in PagesOf(b)
    <3>1. Within([base |-> b.page * PageSize, length |-> b.length],
                 b.page, BlocksFor(b.length))
      BY PagesOfRegion
    <3> QED BY <3>1 DEF Within, PagesOf
  <2> QED BY <1>5, <2>1 DEF MemoryInv, PagesInv
<1>7. PageRegions' = PageRegions \ {r}
  <2>1. \A b \in pages : b.page \in Nat
    BY NumPagesAssumption DEF TypeOK, Pages
  <2>2. \A b \in pages : b # a =>
          [base |-> b.page * PageSize, length |-> b.length] # r
    BY <1>5, <1>6, <2>1 DEF PageSize
  <2> QED BY <1>1, <2>2 DEF PageRegions
<1>8. r \notin Others
  <2>1. ASSUME r \in ReservedRegions PROVE FALSE
    <3>1. PICK p \in Reserved : r.base = p * PageSize
      BY <2>1, BootReserved DEF ReservedRegions
    <3>2. p \in Nat
      BY NumPagesAssumption DEF Reserved, Pages
    <3>3. p = a.page
      BY <1>5, <3>1, <3>2 DEF PageSize
    <3> QED BY <1>5, <3>3 DEF MemoryInv, PagesInv
  <2>2. ASSUME NEW i \in DOMAIN heap_list, InNode(r, i) PROVE FALSE
    <3>1. Within(r, heap_list[i].page, 1) /\ r.base = a.page * PageSize
      BY <2>2, NodeRegion
    <3>2. a.length > 0
      <4>1. a.length \in Lengths
        BY DEF TypeOK
      <4> QED BY <4>1, RequestType
    <3>3. heap_list[i].page = a.page
      BY <1>5, <3>1, <3>2 DEF Within, PageSize
    <3> QED BY <1>5, <3>3 DEF MemoryInv, PagesInv, NodePages
  <2>3. ASSUME r \in CellRegions PROVE FALSE
    <3>1. PICK c \in cells : c.page # 0 /\ r = CellRegion(c)
      BY <2>3 DEF CellRegions, CellRegion
    <3>2. PICK i \in DOMAIN heap_list : Holds(heap_list[i], c)
      BY <3>1 DEF MemoryInv, CellsInv
    <3>3. InNode(r, i)
      BY <3>1, <3>2 DEF InNode
    <3> HIDE DEF r
    <3> QED BY <2>2, <3>3
  <2>4. ASSUME r \in HeaderRegions \cup BitmapRegions PROVE FALSE
    <3>1. PICK i \in DOMAIN heap_list : InNode(r, i)
      BY <2>4 DEF HeaderRegions, BitmapRegions, InNode
    <3> HIDE DEF r
    <3> QED BY <2>2, <3>1
  <2> QED BY <2>1, <2>3, <2>4
<1> HIDE DEF r, Others
<1> QED BY <1>3, <1>4, <1>7, <1>8

(* kmalloc and kfree, on pages and in the heap, implement an allocator:    *)
(* what they hand out is apart from everything in use, and stays so until  *)
(* it is freed.                                                            *)
THEOREM KeepsThePromise == Spec => ImplementsAllocator
<1> DEFINE Inv == TypeOK /\ MemoryInv
<1>1. Inv => Promise!AllApart
  BY InvNoOverlap DEF NoOverlap
<1>2. Inv /\ Inv' /\ [Next]_vars
        => [Promise!Allocate \/ Promise!Free]_Live
  <2> SUFFICES ASSUME Inv, Inv', [Next]_vars
               PROVE  Promise!Allocate \/ Promise!Free \/ Live' = Live
    OBVIOUS
  <2>1. CASE Kmalloc
    <3>1. NoOverlap'
      BY InvNoOverlap, PTL
    <3> QED BY <2>1, <3>1, KmallocKeeps DEF NoOverlap, Promise!Allocate
  <2>2. CASE Kfree
    BY <2>2, KfreeRemoves DEF Promise!Free
  <2>3. CASE UNCHANGED vars
    BY <2>3 DEF vars, Live, ReservedRegions, PageRegions, HeaderRegions,
                BitmapRegions, CellRegions
  <2> QED BY <2>1, <2>2, <2>3 DEF Next
<1>3. Spec => []Inv
  BY MemoryKept
<1> QED BY <1>1, <1>2, <1>3, PTL DEF Spec, ImplementsAllocator, Promise!Spec

----------------------------------------------------------------------------
(* When a call gets nothing.                                               *)

(* If there is a run of free pages, there is a lowest one. *)
LEMMA NothingFound ==
  ASSUME NEW bitmap, NEW n, LowestRun(bitmap, n) = {}
  PROVE  FreeRuns(bitmap, n) = {}
<1> SUFFICES ASSUME FreeRuns(bitmap, n) # {} PROVE FALSE
  OBVIOUS
<1> DEFINE R == OpToRel(<, Nat)
           runs == FreeRuns(bitmap, n)
<1>1. runs \subseteq Nat
  BY NumPagesAssumption DEF FreeRuns, Pages
<1>2. IsWellFoundedOn(R, Nat)
  BY NatLessThanWellFounded
<1>3. \A x, y \in Nat : <<y, x>> \in R <=> y < x
  BY DEF OpToRel
<1> HIDE DEF R, runs
<1>4. PICK i \in runs : \A k \in runs : ~(<<k, i>> \in R)
  BY <1>1, <1>2, WFMin DEF runs
<1>5. \A k \in runs : i <= k
  <2> TAKE k \in runs
  <2>1. i \in Nat /\ k \in Nat
    BY <1>1
  <2>2. ~(k < i)
    BY <1>3, <1>4, <2>1, Zenon
  <2> QED BY <2>1, <2>2
<1> QED BY <1>4, <1>5 DEF LowestRun, runs

(* The lengths a new node of the heap may have no bits for, although its   *)
(* data has room for them.                                                 *)
PastBitmap(length) == length <= DataSize /\ WordsFor(length) > BitmapBits

LEMMA PagesFail ==
  ASSUME TypeOK, MemoryInv, NEW length \in Lengths, AllocatePages(length)
  PROVE  FailsOnlyWhenFull'
<1> DEFINE n == BlocksFor(length)
<1>1. /\ memory_bitmap' = MarkUsed(memory_bitmap, n)
      /\ returned' = [length |-> length,
                      address |-> FirstFit(memory_bitmap, n) * PageSize]
  BY DEF AllocatePages
<1>2. returned'.length = length
      /\ returned'.address = FirstFit(memory_bitmap, n) * PageSize
  BY <1>1
<1>3. n \in Nat \ {0}
  BY RequestType
<1> HIDE DEF n
<1>4. CASE LowestRun(memory_bitmap, n) = {}
  <2>1. memory_bitmap' = memory_bitmap
    BY <1>1, <1>3, <1>4, Scan
  <2>2. FreeRuns(memory_bitmap', n) = {}
    BY <1>4, <2>1, NothingFound
  <2> QED BY <1>2, <2>2 DEF FailsOnlyWhenFull, n
<1>5. CASE LowestRun(memory_bitmap, n) # {}
  <2>1. PICK i \in Pages : /\ FirstFit(memory_bitmap, n) = i
                           /\ i .. i + n - 1 \subseteq Pages \ memory_bitmap
    BY <1>3, <1>5, Scan
  <2>2. i \in Nat
    BY NumPagesAssumption DEF Pages
  <2>3. i # 0
    <3>1. i \in i .. i + n - 1
      BY <1>3, <2>2
    <3> QED BY <2>1, <3>1 DEF MemoryInv, ReservedInv
  <2>4. returned'.address # 0
    BY <1>2, <2>1, <2>2, <2>3 DEF PageSize
  <2> QED BY <2>4 DEF FailsOnlyWhenFull
<1> QED BY <1>4, <1>5

LEMMA HeapFails ==
  ASSUME TypeOK, NEW length \in Lengths, length <= DataSize, heap_alloc(length),
         ~PastBitmap(returned'.length)
  PROVE  FailsOnlyWhenFull'
<1>1. CASE AllocateFromNode(length)
  <2>1. PICK i \in DOMAIN heap_list :
          returned' = [length |-> length,
                       address |-> CellAt(heap_list[i].page, heap_list[i].used)]
    BY <1>1 DEF AllocateFromNode, Fitting
  <2>2. heap_list[i] \in Nodes
    BY DEF TypeOK
  <2>3. heap_list[i].page \in Nat /\ heap_list[i].used \in Nat
    BY <2>2, NodeType
  <2>4. CellAt(heap_list[i].page, heap_list[i].used) # 0
    BY <2>3 DEF CellAt, PageSize, HeaderSize
  <2> QED BY <2>1, <2>4 DEF FailsOnlyWhenFull
<1>2. CASE AllocateNode(length)
  <2> DEFINE page == FirstFit(memory_bitmap, 1)
  <2>1. PICK edge \in BOOLEAN :
          returned' = [length |-> length,
                       address |-> IF WordsFor(length) <= Bits([edge |-> edge])
                                   THEN CellAt(page, 0) ELSE 0]
    BY <1>2 DEF AllocateNode
  <2>2. returned'.length = length
    BY <2>1
  <2>3. WordsFor(length) <= BitmapBits
    <3>1. WordsFor(length) \in Nat /\ BitmapBits \in Nat
      BY RequestType DEF BitmapBits
    <3> QED BY <2>2, <3>1 DEF PastBitmap
  <2>4. WordsFor(length) <= Bits([edge |-> edge])
    <3>1. WordsFor(length) \in Nat /\ BitmapBits \in Nat
      BY RequestType DEF BitmapBits
    <3>2. Bits([edge |-> edge]) \in {BitmapBits, BitmapBits + 1}
      BY DEF Bits
    <3> QED BY <2>3, <3>1, <3>2
  <2>5. returned'.address = CellAt(page, 0)
    BY <2>1, <2>4
  <2>6. page \in Nat
    BY Scan, NumPagesAssumption DEF Pages
  <2>7. CellAt(page, 0) # 0
    <3> HIDE DEF page
    <3> QED BY <2>6 DEF CellAt, PageSize, HeaderSize
  <2> QED BY <2>5, <2>7 DEF FailsOnlyWhenFull
<1> QED BY <1>1, <1>2 DEF heap_alloc

(* A call gets nothing only when no run of free pages is long enough; the  *)
(* one exception is a length whose words exceed the bitmap of a heap node  *)
(* (kmalloc, heap_alloc).                                                  *)
THEOREM OnlyFullMemoryFails ==
  Spec => [](~PastBitmap(returned.length) => FailsOnlyWhenFull)
<1> DEFINE Fails == ~PastBitmap(returned.length) => FailsOnlyWhenFull
<1>1. Init => Fails
  BY DEF Init, FailsOnlyWhenFull
<1>2. TypeOK /\ MemoryInv /\ Fails /\ [Next]_vars => Fails'
  <2> SUFFICES ASSUME TypeOK, MemoryInv, Fails, [Next]_vars,
                      ~PastBitmap(returned'.length)
               PROVE  FailsOnlyWhenFull'
    OBVIOUS
  <2>1. CASE Kmalloc
    <3>1. PICK length \in Lengths :
            IF length <= DataSize THEN heap_alloc(length)
            ELSE AllocatePages(length)
      BY <2>1 DEF Kmalloc
    <3>2. CASE length <= DataSize
      BY <3>1, <3>2, HeapFails
    <3>3. CASE ~(length <= DataSize)
      BY <3>1, <3>3, PagesFail
    <3> QED BY <3>2, <3>3
  <2>2. CASE Kfree
    <3>1. returned'.length = 0
      BY <2>2 DEF Kfree
    <3> QED BY <3>1 DEF FailsOnlyWhenFull
  <2>3. CASE UNCHANGED vars
    <3>1. returned' = returned /\ memory_bitmap' = memory_bitmap
      BY <2>3 DEF vars
    <3> QED BY <3>1 DEF FailsOnlyWhenFull
  <2> QED BY <2>1, <2>2, <2>3 DEF Next
<1> QED BY <1>1, <1>2, MemoryKept, PTL DEF Spec

============================================================================
