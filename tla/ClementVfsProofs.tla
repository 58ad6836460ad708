-------------------------- MODULE ClementVfsProofs --------------------------
(***************************************************************************)
(* The file system of clement_vfs.c keeps files apart on disks and with    *)
(* tables of every size, with contents of every length, and whenever the   *)
(* computer stops, except inside clement_vfs_delfile.                      *)
(***************************************************************************)
EXTENDS ClementVfs, FiniteSetTheorems, WellFoundedInduction, TLAPS

(* The types of entries, of blocks and of the call in progress.            *)
EntryType == [in_use : BOOLEAN, name : Names \cup {"none"},
              blocks : 0 .. NumBlocks, first : DataBlocks \cup {0}]
BlockType == [used : BOOLEAN, next : DataBlocks \cup {0},
              content : Contents \cup {NoContent}, part : Nat]
OpType == [kind : {"idle", "mkfile", "delfile", "write", "format"},
           step : {"none", "blocks", "mark", "entry", "copy"},
           name : Names \cup {"none"}, entry : Entries,
           block : 0 .. NumBlocks + 1, todo : Seq(DataBlocks),
           content : Contents \cup {NoContent}, part : Nat]
TypeInv ==
  /\ boot \in BOOLEAN
  /\ fat \in [Entries -> EntryType] /\ data \in [DataBlocks -> BlockType]
  /\ op \in OpType /\ stops \in Nat

(* The table: an entry says one block, whatever was written (the count is  *)
(* updated only by a content that fits in one), and names and first blocks *)
(* are those of one file only.                                             *)
FatInv ==
  /\ \A e \in Files :
       fat[e].blocks = 1 /\ fat[e].first \in DataBlocks /\ fat[e].name \in Names
  /\ \A e, f \in Files : fat[e].name = fat[f].name => e = f
  /\ \A e, f \in Files : fat[e].first = fat[f].first => e = f

(* A first block is marked until delfile has deleted it.                   *)
Doomed(e) == op.kind = "delfile" /\ op.todo = <<>> /\ fat[e].name = op.name
UsedInv == \A e \in Files : data[fat[e].first].used \/ Doomed(e)

(* A block that is not marked is as memset left it. *)
FreeInv == \A b \in DataBlocks : ~data[b].used => data[b] = Zero

(* What a call in progress may rely on, between any two of its writes.     *)
NoOnesBlock(b) ==
  b \in DataBlocks /\ data[b].used /\ \A e \in Files : fat[e].first # b
MkfileInv ==
  /\ op.step = "none" /\ op.todo = <<>>
  /\ op.entry \notin Files /\ op.name \in Names
  /\ \A e \in Files : fat[e].name # op.name
  /\ NoOnesBlock(op.block) /\ data[op.block].content = NoContent
DelfileInv ==
  /\ op.step = "blocks"
  /\ \E e \in Files : /\ fat[e].name = op.name
                      /\ \/ op.todo = <<fat[e].first>>
                         \/ op.todo = <<>> /\ ~data[fat[e].first].used
WriteInv ==
  /\ op.step \in {"mark", "entry", "copy"} /\ op.todo = <<>>
  /\ op.entry \in Files
  /\ op.content \in Contents /\ op.part < BlocksOf(op.content)
  /\ op.step = "entry" => EndsIn(op.content, op.part)
  /\ op.step # "mark" =>
       IF op.part = 0 THEN op.block = fat[op.entry].first
       ELSE op.block = 0 \/ NoOnesBlock(op.block)
FormatInv ==
  /\ op.step = "none" /\ op.todo = <<>>
  /\ op.block > BOOT_BLOCKS => Files = {}
  /\ \A b \in DataBlocks : b < op.block => data[b] = Zero
CallInv ==
  /\ op.kind = "idle" => op = Idle
  /\ op.kind = "mkfile" => MkfileInv
  /\ op.kind = "delfile" => DelfileInv
  /\ op.kind = "write" => WriteInv
  /\ op.kind = "format" => FormatInv

VfsInv == TypeInv /\ FatInv /\ UsedInv /\ FreeInv /\ CallInv

----------------------------------------------------------------------------
(* What the helpers return.                                                *)

(* A set of natural numbers that is not empty has a least element. *)
LEMMA LeastExists ==
  ASSUME NEW S \in SUBSET Nat, S # {}
  PROVE  LowestOf(S) # {}
<1> DEFINE R == OpToRel(<, Nat)
<1>1. IsWellFoundedOn(R, Nat)
  BY NatLessThanWellFounded
<1>2. \A x, y \in Nat : <<y, x>> \in R <=> y < x
  BY DEF OpToRel
<1> HIDE DEF R
<1>3. PICK x \in S : \A y \in S : ~(<<y, x>> \in R)
  BY <1>1, WFMin
<1>4. \A y \in S : x <= y
  <2> TAKE y \in S
  <2>1. x \in Nat /\ y \in Nat
    OBVIOUS
  <2>2. ~(y < x)
    BY <1>2, <1>3, <2>1, Zenon
  <2> QED BY <2>1, <2>2
<1> QED BY <1>4 DEF LowestOf

LEMMA DiskSize ==
  /\ START_OF_DATA = 9 /\ BOOT_BLOCKS = 1
  /\ NumBlocks \in Nat /\ NumBlocks > START_OF_DATA
<1>1. START_OF_DATA = 9 /\ BOOT_BLOCKS = 1
  BY DEF START_OF_DATA, BOOT_BLOCKS
<1>2. PICK most : NumBlocks \in START_OF_DATA + 1 .. most
  BY VfsAssumption
<1>3. NumBlocks \in Int /\ NumBlocks > START_OF_DATA
  BY <1>1, <1>2
<1> QED BY <1>1, <1>3

(* find_free_block returns a free block, or 0. *)
LEMMA FindFreeBlock ==
  \/ find_free_block = 0 /\ 0 \notin DataBlocks
  \/ find_free_block \in DataBlocks /\ ~data[find_free_block].used
<1>1. DataBlocks \subseteq Nat /\ 0 \notin DataBlocks
  BY DiskSize DEF DataBlocks
<1>2. CASE FreeBlocks = {}
  BY <1>1, <1>2 DEF find_free_block
<1>3. CASE FreeBlocks # {}
  <2>1. FreeBlocks \in SUBSET Nat
    BY <1>1 DEF FreeBlocks
  <2>2. LowestOf(FreeBlocks) # {} /\ LowestOf(FreeBlocks) \subseteq FreeBlocks
    BY <1>3, <2>1, LeastExists DEF LowestOf
  <2>3. find_free_block \in FreeBlocks
    BY <1>3, <2>2 DEF find_free_block
  <2> QED BY <2>3 DEF FreeBlocks
<1> QED BY <1>2, <1>3

(* A file of one block has that block in its chain. *)
LEMMA OneBlockNumber ==
  ASSUME NEW e, fat[e].blocks = 1
  PROVE  FileBlockNumbers(e) = <<fat[e].first>>
<1> DEFINE Chain(f) == [i \in 1 .. fat[e].blocks |->
                          IF i = 1 THEN fat[e].first ELSE data[f[i - 1]].next]
           one == <<fat[e].first>>
<1>1. FileBlockNumbers(e) = CHOOSE f : f = Chain(f)
  BY DEF FileBlockNumbers
<1>2. one = Chain(one)
  OBVIOUS
<1>3. \A f : f = Chain(f) => f = one
  OBVIOUS
<1> QED BY <1>1, <1>2, <1>3

(* A content that ends in a block that is written has only that one.       *)
LEMMA OneBlockContent ==
  ASSUME NEW content \in Contents, NEW part \in Nat,
         part < BlocksOf(content), EndsIn(content, part)
  PROVE  BlocksOf(content) = 1
<1>1. content.length \in Lengths /\ Lengths \subseteq Nat
  BY VfsAssumption DEF Contents
<1>2. CASE content.length < 508
  BY <1>2 DEF BlocksOf, BlockData
<1>3. CASE ~(content.length < 508)
  <2>1. PICK n \in Nat : n = content.length
    BY <1>1
  <2>2. BlocksOf(content) = n \div 508
    BY <1>3, <2>1 DEF BlocksOf, BlockData
  <2>3. n < 508 * (part + 1)
    BY <2>1 DEF EndsIn, BlockData
  <2>4. part < n \div 508
    BY <2>2
  <2> HIDE <1>3
  <2> QED BY <2>3, <2>4
<1> QED BY <1>2, <1>3

(* find_fat_entry finds the file of a name, if there is one. *)
LEMMA FindEntryFinds ==
  ASSUME NEW name
  PROVE  /\ \A e \in FindEntry(name) : e \in Files /\ fat[e].name = name
         /\ FindEntry(name) = {} => \A e \in Files : fat[e].name # name
<1> DEFINE found == {e \in Entries : fat[e].name = name /\ fat[e].in_use}
<1>1. found \in SUBSET Nat
  BY VfsAssumption DEF Entries
<1>2. found # {} => LowestOf(found) # {}
  BY <1>1, LeastExists
<1>3. LowestOf(found) \subseteq found
  BY DEF LowestOf
<1> QED BY <1>2, <1>3 DEF FindEntry, Files

----------------------------------------------------------------------------
(* Every step keeps VfsInv.                                                *)

LEMMA ConstantTypes ==
  /\ Entries \subseteq Nat /\ 0 \in Entries
  /\ DataBlocks \subseteq 0 .. NumBlocks /\ NumBlocks \in Nat
  /\ \A b \in DataBlocks : b > BOOT_BLOCKS /\ b < NumBlocks
<1>1. Entries \subseteq Nat /\ 0 \in Entries
  <2>1. PICK most : NumEntries \in 1 .. most
    BY VfsAssumption
  <2> QED BY <2>1 DEF Entries
<1>2. DataBlocks \subseteq 0 .. NumBlocks /\ NumBlocks \in Nat
  BY DiskSize DEF DataBlocks
<1>3. \A b \in DataBlocks : b > BOOT_BLOCKS /\ b < NumBlocks
  BY DiskSize DEF DataBlocks
<1> QED BY <1>1, <1>2, <1>3

LEMMA ConstantRecords ==
  /\ Idle \in OpType /\ NoEntry \in EntryType /\ Zero \in BlockType
BY ConstantTypes
   DEF Idle, OpType, NoEntry, EntryType, Zero, BlockType, LAST_BLOCK

LEMMA VfsInit == Init => VfsInv
<1> SUFFICES ASSUME Init PROVE VfsInv
  OBVIOUS
<1>1. TypeInv
  BY ConstantRecords DEF Init, TypeInv
<1>2. Files = {}
  BY DEF Init, Files, NoEntry
<1>3. CallInv
  BY DEF Init, CallInv, Idle
<1> QED BY <1>1, <1>2, <1>3 DEF VfsInv, FatInv, UsedInv, FreeInv, Init

LEMMA MkfileBlockInv == VfsInv /\ MkfileBlock => VfsInv'
<1> SUFFICES ASSUME VfsInv, MkfileBlock PROVE VfsInv'
  OBVIOUS
<1>1. PICK name \in Names, e \in FreeEntry, b \in LowestOf(FreeBlocks) :
        /\ FindEntry(name) = {}
        /\ data' = [data EXCEPT ![b].used = TRUE, ![b].next = LAST_BLOCK]
        /\ op' = [Idle EXCEPT !.kind = "mkfile", !.name = name, !.entry = e,
                              !.block = b]
  BY DEF MkfileBlock
<1>2. op = Idle /\ UNCHANGED <<boot, fat, stops>>
  BY DEF MkfileBlock
<1>3. e \in Entries /\ e \notin Files /\ b \in DataBlocks /\ ~data[b].used
  BY DEF FreeEntry, FreeBlocks, LowestOf, Files
<1>4. /\ fat \in [Entries -> EntryType] /\ data \in [DataBlocks -> BlockType]
      /\ data[b] = Zero
  BY <1>3 DEF VfsInv, TypeInv, FreeInv
<1>5. op' = [kind |-> "mkfile", step |-> "none", name |-> name, entry |-> e,
             block |-> b, todo |-> <<>>, content |-> NoContent, part |-> 0]
  BY <1>1 DEF Idle
<1>6. /\ data' \in [DataBlocks -> BlockType]
      /\ data'[b].used /\ data'[b].content = NoContent
      /\ \A c \in DataBlocks : c # b => data'[c] = data[c]
  <2> DEFINE marked == [data[b] EXCEPT !.used = TRUE, !.next = LAST_BLOCK]
  <2>1. data' = [data EXCEPT ![b] = marked]
    BY <1>1, <1>3, <1>4
  <2>2. data[b] \in BlockType /\ data[b].content = NoContent
    <3>1. Zero.content = NoContent
      BY DEF Zero
    <3> QED BY <1>3, <1>4, <3>1
  <2>3. marked \in BlockType /\ marked.used /\ marked.content = NoContent
    BY <2>2 DEF BlockType, LAST_BLOCK
  <2> HIDE DEF marked
  <2>4. /\ data'[b] = marked
        /\ \A c \in DataBlocks : c # b => data'[c] = data[c]
    BY <1>3, <1>4, <2>1
  <2>5. data' \in [DataBlocks -> BlockType]
    BY <1>3, <1>4, <2>1, <2>3
  <2> QED BY <2>3, <2>4, <2>5
<1>7. \A f \in Files : data[fat[f].first].used /\ fat[f].first # b
  BY <1>2, <1>3 DEF VfsInv, UsedInv, Doomed, Idle
<1>8. TypeInv'
  <2>1. op' \in OpType
    BY <1>3, <1>5, ConstantTypes DEF OpType
  <2> QED BY <1>2, <1>6, <2>1 DEF VfsInv, TypeInv
<1>9. Files' = Files
  BY <1>2 DEF Files
<1>10. FatInv' /\ UsedInv'
  BY <1>2, <1>6, <1>7, <1>9 DEF VfsInv, FatInv, UsedInv
<1>11. FreeInv'
  BY <1>6 DEF VfsInv, FreeInv
<1>12. MkfileInv'
  <2>1. /\ op'.step = "none" /\ op'.todo = <<>> /\ op'.entry = e
        /\ op'.name = name /\ op'.block = b
    BY <1>5
  <2>2. \A f \in Files : fat[f].name # name
    BY <1>1, FindEntryFinds
  <2>3. NoOnesBlock(b)'
    BY <1>2, <1>3, <1>6, <1>7, <1>9 DEF NoOnesBlock
  <2> QED BY <1>2, <1>3, <1>6, <1>9, <2>1, <2>2, <2>3 DEF MkfileInv, NoOnesBlock
<1>13. CallInv'
  BY <1>5, <1>12 DEF CallInv
<1> QED BY <1>8, <1>10, <1>11, <1>13 DEF VfsInv

LEMMA MkfileEntryInv == VfsInv /\ MkfileEntry => VfsInv'
<1> SUFFICES ASSUME VfsInv, MkfileEntry PROVE VfsInv'
  OBVIOUS
<1> DEFINE entry == [in_use |-> TRUE, name |-> op.name, blocks |-> 1,
                     first |-> op.block]
<1>1. /\ op.kind = "mkfile" /\ fat' = [fat EXCEPT ![op.entry] = entry]
      /\ op' = Idle /\ UNCHANGED <<boot, data, stops>>
  BY DEF MkfileEntry
<1>2. MkfileInv
  BY <1>1 DEF VfsInv, CallInv
<1>3. /\ fat \in [Entries -> EntryType] /\ op.entry \in Entries
      /\ op.name \in Names /\ op.block \in DataBlocks
  BY <1>2 DEF VfsInv, TypeInv, OpType, MkfileInv, NoOnesBlock
<1>4. entry \in EntryType
  <2>1. 1 \in 0 .. NumBlocks
    BY DiskSize
  <2> QED BY <1>3, <2>1 DEF EntryType
<1>5. /\ fat'[op.entry] = entry /\ fat' \in [Entries -> EntryType]
      /\ \A e \in Entries : e # op.entry => fat'[e] = fat[e]
  BY <1>1, <1>3, <1>4
<1>6. Files' = Files \cup {op.entry}
  BY <1>3, <1>5 DEF Files
<1>7. TypeInv'
  BY <1>1, <1>5, ConstantRecords DEF VfsInv, TypeInv
<1>8. \A e \in Files : /\ e \in Entries /\ e # op.entry /\ fat'[e] = fat[e]
                       /\ fat[e].name # op.name /\ fat[e].first # op.block
  BY <1>2, <1>5 DEF MkfileInv, NoOnesBlock, Files
<1>9. FatInv'
  BY <1>3, <1>5, <1>6, <1>8 DEF VfsInv, FatInv
<1>10. UsedInv'
  <2>1. \A e \in Files : data[fat[e].first].used
    BY <1>1 DEF VfsInv, UsedInv, Doomed
  <2>2. data[op.block].used
    BY <1>2 DEF MkfileInv, NoOnesBlock
  <2> QED BY <1>1, <1>5, <1>6, <1>8, <2>1, <2>2 DEF UsedInv
<1>11. FreeInv' /\ CallInv'
  BY <1>1 DEF VfsInv, FreeInv, CallInv, Idle
<1> QED BY <1>7, <1>9, <1>10, <1>11 DEF VfsInv

LEMMA DelfileStartInv == VfsInv /\ Delfile => VfsInv'
<1> SUFFICES ASSUME VfsInv, Delfile PROVE VfsInv'
  OBVIOUS
<1>1. PICK name \in Names, e \in Entries :
        /\ e \in FindEntry(name)
        /\ op' = [Idle EXCEPT !.kind = "delfile", !.step = "blocks",
                              !.name = name, !.todo = FileBlockNumbers(e)]
  BY DEF Delfile
<1>2. op = Idle /\ UNCHANGED <<boot, fat, data, stops>>
  BY DEF Delfile
<1>3. /\ e \in Files /\ fat[e].name = name /\ fat[e].first \in DataBlocks
      /\ FileBlockNumbers(e) = <<fat[e].first>>
  BY <1>1, FindEntryFinds, OneBlockNumber DEF VfsInv, FatInv
<1>4. op' = [kind |-> "delfile", step |-> "blocks", name |-> name, entry |-> 0,
             block |-> 0, todo |-> <<fat[e].first>>, content |-> NoContent,
             part |-> 0]
  BY <1>1, <1>3 DEF Idle
<1>5. op' \in OpType /\ op'.todo # <<>>
  BY <1>3, <1>4, ConstantTypes DEF OpType
<1>6. Files' = Files
  BY <1>2 DEF Files
<1>7. TypeInv' /\ FatInv' /\ FreeInv'
  BY <1>2, <1>5, <1>6 DEF VfsInv, TypeInv, FatInv, FreeInv
<1>8. UsedInv'
  BY <1>2, <1>6 DEF VfsInv, UsedInv, Doomed, Idle
<1>9. CallInv'
  BY <1>2, <1>3, <1>4, <1>6 DEF CallInv, DelfileInv
<1> QED BY <1>7, <1>8, <1>9 DEF VfsInv

(* What writing one block leaves of the data.                              *)
LEMMA WrittenBlock ==
  ASSUME data \in [DataBlocks -> BlockType], NEW b, NEW v \in BlockType
  PROVE  /\ Written(b, v) \in [DataBlocks -> BlockType]
         /\ \A c \in DataBlocks :
              Written(b, v)[c] = IF c = b THEN v ELSE data[c]
BY DEF Written

LEMMA UsedBlock ==
  ASSUME data \in [DataBlocks -> BlockType], NEW b
  PROVE  /\ WithUse(b) \in [DataBlocks -> BlockType]
         /\ \A c \in DataBlocks :
              /\ WithUse(b)[c].used = (c = b \/ data[c].used)
              /\ WithUse(b)[c].content = data[c].content
              /\ WithUse(b)[c].part = data[c].part
              /\ c # b => WithUse(b)[c] = data[c]
<1>1. CASE b \notin DataBlocks
  BY <1>1 DEF WithUse, BlockType
<1>2. CASE b \in DataBlocks
  <2> DEFINE marked == [data[b] EXCEPT !.used = TRUE]
  <2>1. /\ marked \in BlockType /\ marked.used = TRUE
        /\ marked.content = data[b].content /\ marked.part = data[b].part
    BY <1>2 DEF BlockType
  <2>2. WithUse(b) = [data EXCEPT ![b] = marked]
    BY <1>2 DEF WithUse
  <2> HIDE DEF marked
  <2>3. \A c \in DataBlocks : WithUse(b)[c] = IF c = b THEN marked ELSE data[c]
    BY <1>2, <2>2
  <2>4. WithUse(b) \in [DataBlocks -> BlockType]
    BY <1>2, <2>1, <2>2
  <2>5. \A c \in DataBlocks : data[c].used \in BOOLEAN
    BY DEF BlockType
  <2> QED BY <2>1, <2>3, <2>4, <2>5
<1> QED BY <1>1, <1>2

(* delete_data_block deletes the one block of the file that delfile deletes. *)
LEMMA DeleteDataBlockDoes ==
  ASSUME VfsInv, DeleteDataBlock
  PROVE  \E e \in Files :
           /\ op.kind = "delfile" /\ fat[e].name = op.name
           /\ op.todo = <<fat[e].first>> /\ fat[e].first \in DataBlocks
           /\ data' \in [DataBlocks -> BlockType]
           /\ \A c \in DataBlocks :
                data'[c] = IF c = fat[e].first THEN Zero ELSE data[c]
           /\ op' = [op EXCEPT !.todo = <<>>]
<1>1. op \in OpType /\ op.todo # <<>> /\ data \in [DataBlocks -> BlockType]
  BY DEF VfsInv, TypeInv, DeleteDataBlock
<1>2. op.kind \in {"idle", "mkfile", "delfile", "write", "format"}
  BY <1>1 DEF OpType
<1>3. Idle.todo = <<>>
  BY DEF Idle
<1>4. op.kind = "delfile" /\ DelfileInv
  BY <1>1, <1>2, <1>3 DEF VfsInv, CallInv, MkfileInv, WriteInv, FormatInv
<1>5. PICK e \in Files : fat[e].name = op.name /\ op.todo = <<fat[e].first>>
  BY <1>1, <1>4 DEF DelfileInv
<1>6. fat[e].first \in DataBlocks
  BY DEF VfsInv, FatInv
<1>7. data' = Written(fat[e].first, Zero) /\ op' = [op EXCEPT !.todo = <<>>]
  BY <1>5 DEF DeleteDataBlock, Deleted
<1> QED BY <1>1, <1>4, <1>5, <1>6, <1>7, WrittenBlock, ConstantRecords

LEMMA DeleteDataBlockInv == VfsInv /\ DeleteDataBlock => VfsInv'
<1> SUFFICES ASSUME VfsInv, DeleteDataBlock PROVE VfsInv'
  OBVIOUS
<1>1. PICK e \in Files :
        /\ op.kind = "delfile" /\ fat[e].name = op.name
        /\ op.todo = <<fat[e].first>> /\ fat[e].first \in DataBlocks
        /\ data' \in [DataBlocks -> BlockType]
        /\ \A c \in DataBlocks :
             data'[c] = IF c = fat[e].first THEN Zero ELSE data[c]
        /\ op' = [op EXCEPT !.todo = <<>>]
  BY DeleteDataBlockDoes
<1>2. UNCHANGED <<boot, fat, stops>> /\ Files' = Files
  BY DEF DeleteDataBlock, Files
<1>3. op \in OpType /\ op.step = "blocks"
  BY <1>1 DEF VfsInv, TypeInv, CallInv, DelfileInv
<1>4. /\ op' \in OpType /\ op'.kind = "delfile" /\ op'.step = "blocks"
      /\ op'.todo = <<>> /\ op'.name = op.name
  <2>1. <<>> \in Seq(DataBlocks)
    OBVIOUS
  <2> DEFINE empty == <<>>
  <2> HIDE DEF empty
  <2>2. op' = [op EXCEPT !.todo = empty] /\ empty \in Seq(DataBlocks)
    BY <1>1, <2>1 DEF empty
  <2>3. op' \in OpType
    BY <1>3, <2>2 DEF OpType
  <2>4. /\ op'.kind = op.kind /\ op'.step = op.step /\ op'.name = op.name
        /\ op'.todo = empty
    BY <1>3, <2>2 DEF OpType
  <2> QED BY <1>1, <1>3, <2>3, <2>4 DEF empty
<1>5. TypeInv' /\ FatInv'
  BY <1>1, <1>2, <1>4 DEF VfsInv, TypeInv, FatInv
<1>6. UsedInv'
  <2> SUFFICES ASSUME NEW f \in Files PROVE data'[fat[f].first].used \/ Doomed(f)'
    BY <1>2 DEF UsedInv
  <2>1. CASE f = e
    BY <1>1, <1>2, <1>4, <2>1 DEF Doomed
  <2>2. CASE f # e
    <3>1. fat[f].first # fat[e].first /\ fat[f].first \in DataBlocks
      BY <2>2 DEF VfsInv, FatInv
    <3>2. data[fat[f].first].used
      BY <1>1 DEF VfsInv, UsedInv, Doomed
    <3> QED BY <1>1, <3>1, <3>2
  <2> QED BY <2>1, <2>2
<1>7. FreeInv'
  BY <1>1 DEF VfsInv, FreeInv
<1>8. CallInv'
  <2>1. ~data'[fat[e].first].used
    BY <1>1 DEF Zero
  <2>2. DelfileInv'
    BY <1>1, <1>2, <1>4, <2>1 DEF DelfileInv
  <2> QED BY <1>4, <2>2 DEF CallInv
<1> QED BY <1>5, <1>6, <1>7, <1>8 DEF VfsInv

(* delete_fat_entry deletes the entry of the file whose block is deleted.  *)
LEMMA DeleteFatEntryDoes ==
  ASSUME VfsInv, DeleteFatEntry
  PROVE  \E e \in Files :
           /\ op.kind = "delfile" /\ op.todo = <<>> /\ fat[e].name = op.name
           /\ ~data[fat[e].first].used
           /\ fat' = [fat EXCEPT ![e] = NoEntry] /\ Files' = Files \ {e}
           /\ \A f \in Files : f # e => fat'[f] = fat[f] /\ fat[f].name # op.name
<1>1. PICK e \in FindEntry(op.name) : fat' = [fat EXCEPT ![e] = NoEntry]
  BY DEF DeleteFatEntry
<1>2. op.kind = "delfile" /\ op.todo = <<>> /\ DelfileInv
  BY DEF DeleteFatEntry, VfsInv, CallInv
<1>3. e \in Files /\ e \in Entries /\ fat[e].name = op.name
  BY FindEntryFinds DEF Files
<1>4. \A f \in Files : f # e => fat[f].name # op.name
  BY <1>3 DEF VfsInv, FatInv
<1>5. ~data[fat[e].first].used
  BY <1>2, <1>4 DEF DelfileInv
<1>6. fat \in [Entries -> EntryType]
  BY DEF VfsInv, TypeInv
<1>7. \A f \in Entries : fat'[f] = IF f = e THEN NoEntry ELSE fat[f]
  BY <1>1, <1>3, <1>6
<1>8. Files' = Files \ {e}
  BY <1>3, <1>7 DEF Files, NoEntry
<1>9. \A f \in Files : f # e => fat'[f] = fat[f] /\ fat[f].name # op.name
  BY <1>4, <1>7 DEF Files
<1> QED BY <1>1, <1>2, <1>3, <1>5, <1>8, <1>9

LEMMA DeleteFatEntryInv == VfsInv /\ DeleteFatEntry => VfsInv'
<1> SUFFICES ASSUME VfsInv, DeleteFatEntry PROVE VfsInv'
  OBVIOUS
<1>1. PICK e \in Files :
        /\ op.kind = "delfile" /\ op.todo = <<>> /\ fat[e].name = op.name
        /\ ~data[fat[e].first].used
        /\ fat' = [fat EXCEPT ![e] = NoEntry] /\ Files' = Files \ {e}
        /\ \A f \in Files : f # e => fat'[f] = fat[f] /\ fat[f].name # op.name
  BY DeleteFatEntryDoes
<1>2. op' = Idle /\ UNCHANGED <<boot, data, stops>>
  BY DEF DeleteFatEntry
<1>3. TypeInv'
  BY <1>1, <1>2, ConstantRecords DEF VfsInv, TypeInv, Files
<1>4. FatInv'
  BY <1>1 DEF VfsInv, FatInv
<1>5. UsedInv'
  <2>1. \A f \in Files : f # e => data[fat[f].first].used
    BY <1>1 DEF VfsInv, UsedInv, Doomed
  <2> QED BY <1>1, <1>2, <2>1 DEF UsedInv
<1>6. FreeInv' /\ CallInv'
  BY <1>2 DEF VfsInv, FreeInv, CallInv, Idle
<1> QED BY <1>3, <1>4, <1>5, <1>6 DEF VfsInv

(* clement_vfs_write has no other blocks to delete, and has one to write.  *)
LEMMA TruncateDoes ==
  ASSUME VfsInv, Truncate
  PROVE  \E e \in Files, content \in Contents :
           /\ op = Idle /\ fat[e].first \in DataBlocks
           /\ data' \in [DataBlocks -> BlockType]
           /\ \A c \in DataBlocks :
                /\ data'[c].used = data[c].used
                /\ data'[c].content = data[c].content
                /\ data'[c].part = data[c].part
                /\ c # fat[e].first => data'[c] = data[c]
           /\ op' = [kind |-> "write", step |-> "mark", name |-> fat[e].name,
                     entry |-> e, block |-> 0, todo |-> <<>>,
                     content |-> content, part |-> 0]
<1>1. PICK name \in Names, e \in Entries, content \in Contents :
        /\ e \in FindEntry(name)
        /\ data' = [data EXCEPT ![fat[e].first].next = LAST_BLOCK]
        /\ op' = [Idle EXCEPT !.kind = "write", !.step = "mark", !.name = name,
                              !.entry = e, !.todo = Tail(FileBlockNumbers(e)),
                              !.content = content]
  BY DEF Truncate
<1>2. /\ e \in Files /\ fat[e].name = name /\ fat[e].first \in DataBlocks
      /\ FileBlockNumbers(e) = <<fat[e].first>>
  BY <1>1, FindEntryFinds, OneBlockNumber DEF VfsInv, FatInv
<1>3. Tail(FileBlockNumbers(e)) = <<>>
  BY <1>2
<1>4. op' = [kind |-> "write", step |-> "mark", name |-> fat[e].name,
             entry |-> e, block |-> 0, todo |-> <<>>,
             content |-> content, part |-> 0]
  BY <1>1, <1>2, <1>3 DEF Idle
<1>5. op = Idle /\ data \in [DataBlocks -> BlockType]
  BY DEF Truncate, VfsInv, TypeInv
<1> DEFINE b == fat[e].first
           last == [data[b] EXCEPT !.next = LAST_BLOCK]
<1>6. /\ last \in BlockType /\ last.used = data[b].used
      /\ last.content = data[b].content /\ last.part = data[b].part
  BY <1>2, <1>5 DEF BlockType, LAST_BLOCK
<1>7. data' = [data EXCEPT ![b] = last]
  BY <1>1
<1> HIDE DEF last
<1>8. data' \in [DataBlocks -> BlockType]
  BY <1>2, <1>5, <1>6, <1>7
<1>9. \A c \in DataBlocks : data'[c] = IF c = b THEN last ELSE data[c]
  BY <1>5, <1>7
<1>10. \A c \in DataBlocks :
         /\ data'[c].used = data[c].used
         /\ data'[c].content = data[c].content
         /\ data'[c].part = data[c].part
         /\ c # b => data'[c] = data[c]
  BY <1>6, <1>9
<1> QED BY <1>2, <1>4, <1>5, <1>8, <1>10

LEMMA SomeBlock ==
  ASSUME NEW content \in Contents PROVE BlocksOf(content) \in Nat \ {0}
<1> content.length \in Lengths /\ Lengths \subseteq Nat
  BY VfsAssumption DEF Contents
<1>1. PICK n \in Nat : n = content.length
  OBVIOUS
<1>2. n < 508 \/ n \div 508 \in Nat \ {0}
  OBVIOUS
<1> QED BY <1>1, <1>2 DEF BlocksOf, BlockData

LEMMA TruncateInv == VfsInv /\ Truncate => VfsInv'
<1> SUFFICES ASSUME VfsInv, Truncate PROVE VfsInv'
  OBVIOUS
<1>1. PICK e \in Files, content \in Contents :
        /\ op = Idle /\ fat[e].first \in DataBlocks
        /\ data' \in [DataBlocks -> BlockType]
        /\ \A c \in DataBlocks :
             /\ data'[c].used = data[c].used
             /\ data'[c].content = data[c].content
             /\ data'[c].part = data[c].part
             /\ c # fat[e].first => data'[c] = data[c]
        /\ op' = [kind |-> "write", step |-> "mark", name |-> fat[e].name,
                  entry |-> e, block |-> 0, todo |-> <<>>,
                  content |-> content, part |-> 0]
  BY TruncateDoes
<1>2. UNCHANGED <<boot, fat, stops>> /\ Files' = Files
  BY DEF Truncate, Files
<1>3. e \in Entries /\ fat[e].name \in Names \cup {"none"}
  BY DEF VfsInv, TypeInv, Files, EntryType
<1>4. op' \in OpType
  BY <1>1, <1>3, ConstantTypes DEF OpType
<1>5. TypeInv' /\ FatInv'
  BY <1>1, <1>2, <1>4 DEF VfsInv, TypeInv, FatInv
<1>6. \A f \in Files : data[fat[f].first].used /\ fat[f].first \in DataBlocks
  BY <1>1 DEF VfsInv, UsedInv, Doomed, Idle, FatInv
<1>7. UsedInv' /\ FreeInv'
  BY <1>1, <1>2, <1>6 DEF VfsInv, UsedInv, FreeInv
<1>8. CallInv'
  <2>1. op'.part < BlocksOf(content)
    BY <1>1, SomeBlock
  <2> QED BY <1>1, <1>2, <2>1 DEF CallInv, WriteInv
<1> QED BY <1>5, <1>7, <1>8 DEF VfsInv

LEMMA Writing ==
  ASSUME VfsInv, op.step \in {"mark", "entry", "copy"}
  PROVE  op.kind = "write" /\ WriteInv
<1>1. op.kind \in {"idle", "mkfile", "delfile", "write", "format"}
  BY DEF VfsInv, TypeInv, OpType
<1>2. Idle.step = "none"
  BY DEF Idle
<1> QED BY <1>1, <1>2 DEF VfsInv, CallInv, MkfileInv, DelfileInv, FormatInv

LEMMA MarkBlockDoes ==
  ASSUME VfsInv, MarkBlock
  PROVE  \E b \in DataBlocks \cup {0} :
           /\ op.kind = "write" /\ WriteInv
           /\ IF op.part = 0 THEN b = fat[op.entry].first
              ELSE b = 0 \/ (b \in DataBlocks /\ ~data[b].used)
           /\ data' = WithUse(b)
           /\ op' = [op EXCEPT !.block = b,
                       !.step = IF EndsIn(op.content, op.part) THEN "entry"
                                ELSE "copy"]
           /\ boot' \in BOOLEAN
<1> DEFINE b == IF op.part = 0 THEN fat[op.entry].first ELSE find_free_block
<1>1. op.kind = "write" /\ WriteInv
  BY Writing DEF MarkBlock
<1>2. fat[op.entry].first \in DataBlocks
  BY <1>1 DEF WriteInv, VfsInv, FatInv
<1>3. b \in DataBlocks \cup {0}
  BY <1>2, FindFreeBlock
<1>4. IF op.part = 0 THEN b = fat[op.entry].first
      ELSE b = 0 \/ (b \in DataBlocks /\ ~data[b].used)
  <2>1. CASE op.part = 0
    BY <2>1
  <2>2. CASE op.part # 0
    BY <2>2, FindFreeBlock
  <2> QED BY <2>1, <2>2
<1>5. /\ data' = WithUse(b)
      /\ op' = [op EXCEPT !.block = b,
                  !.step = IF EndsIn(op.content, op.part) THEN "entry"
                           ELSE "copy"]
      /\ boot' \in BOOLEAN
  BY DEF MarkBlock
<1> QED BY <1>1, <1>3, <1>4, <1>5

LEMMA MarkBlockInv == VfsInv /\ MarkBlock => VfsInv'
<1> SUFFICES ASSUME VfsInv, MarkBlock PROVE VfsInv'
  OBVIOUS
<1>1. PICK b \in DataBlocks \cup {0} :
        /\ op.kind = "write" /\ WriteInv
        /\ IF op.part = 0 THEN b = fat[op.entry].first
           ELSE b = 0 \/ (b \in DataBlocks /\ ~data[b].used)
        /\ data' = WithUse(b)
        /\ op' = [op EXCEPT !.block = b,
                    !.step = IF EndsIn(op.content, op.part) THEN "entry"
                             ELSE "copy"]
        /\ boot' \in BOOLEAN
  BY MarkBlockDoes
<1>2. UNCHANGED <<fat, stops>> /\ Files' = Files
  BY DEF MarkBlock, Files
<1>3. data \in [DataBlocks -> BlockType] /\ op \in OpType
  BY DEF VfsInv, TypeInv
<1>4. /\ data' \in [DataBlocks -> BlockType]
      /\ \A c \in DataBlocks : /\ data'[c].used = (c = b \/ data[c].used)
                               /\ c # b => data'[c] = data[c]
  BY <1>1, <1>3, UsedBlock
<1>5. b \in 0 .. NumBlocks + 1
  BY <1>1, ConstantTypes
<1>6. /\ op' \in OpType /\ op'.kind = "write" /\ op'.block = b
      /\ op'.step = (IF EndsIn(op.content, op.part) THEN "entry" ELSE "copy")
      /\ op'.todo = op.todo /\ op'.entry = op.entry
      /\ op'.content = op.content /\ op'.part = op.part
  <2> DEFINE step == IF EndsIn(op.content, op.part) THEN "entry" ELSE "copy"
  <2>1. step \in {"entry", "copy"} /\ op' = [op EXCEPT !.block = b, !.step = step]
    BY <1>1
  <2> HIDE DEF step
  <2>2. op' \in OpType /\ op'.kind = op.kind /\ op'.block = b /\ op'.step = step
    BY <1>3, <1>5, <2>1 DEF OpType
  <2>3. /\ op'.todo = op.todo /\ op'.entry = op.entry
        /\ op'.content = op.content /\ op'.part = op.part
    BY <1>3, <2>1 DEF OpType
  <2> QED BY <1>1, <2>2, <2>3 DEF step
<1>7. TypeInv' /\ FatInv'
  BY <1>1, <1>2, <1>4, <1>6 DEF VfsInv, TypeInv, FatInv
<1>8. \A f \in Files : data[fat[f].first].used /\ fat[f].first \in DataBlocks
  BY <1>1 DEF VfsInv, UsedInv, Doomed, FatInv
<1>9. UsedInv' /\ FreeInv'
  BY <1>2, <1>4, <1>8 DEF VfsInv, UsedInv, FreeInv
<1>10. WriteInv'
  <2>1. /\ op'.step \in {"mark", "entry", "copy"} /\ op'.todo = <<>>
        /\ op'.entry \in Files'
        /\ op'.content \in Contents /\ op'.part < BlocksOf(op'.content)
        /\ op'.step = "entry" => EndsIn(op'.content, op'.part)
    BY <1>1, <1>2, <1>6 DEF WriteInv
  <2>2. op.part = 0 => op'.block = fat'[op'.entry].first
    BY <1>1, <1>2, <1>6
  <2>3. b \in DataBlocks /\ ~data[b].used => NoOnesBlock(op.block)'
    BY <1>2, <1>4, <1>6, <1>8 DEF NoOnesBlock
  <2>4. op.part # 0 => op'.block = 0 \/ NoOnesBlock(op.block)'
    BY <1>1, <1>6, <2>3
  <2> QED BY <1>6, <2>1, <2>2, <2>4 DEF WriteInv
<1>11. CallInv'
  BY <1>6, <1>10 DEF CallInv
<1> QED BY <1>7, <1>9, <1>11 DEF VfsInv

(* The count of blocks that the entry gets is the one it has.              *)
LEMMA UpdateFatEntryDoes ==
  ASSUME VfsInv, UpdateFatEntry
  PROVE  /\ op.kind = "write" /\ WriteInv /\ fat' = fat
         /\ op' = [op EXCEPT !.step = "copy"]
<1>1. op.kind = "write" /\ WriteInv
  BY Writing DEF UpdateFatEntry
<1>2. /\ op.entry \in Entries /\ fat[op.entry].blocks = 1
      /\ fat \in [Entries -> EntryType] /\ op \in OpType
  BY <1>1 DEF WriteInv, Files, VfsInv, FatInv, TypeInv
<1>3. BlocksOf(op.content) = 1
  <2>1. op.part \in Nat
    BY <1>2 DEF OpType
  <2> QED BY <1>1, <2>1, OneBlockContent DEF WriteInv, UpdateFatEntry
<1>4. fat' = [fat EXCEPT ![op.entry].blocks = 1]
  BY <1>3 DEF UpdateFatEntry
<1>5. fat[op.entry] \in EntryType
  BY <1>2
<1>6. [fat[op.entry] EXCEPT !.blocks = 1] = fat[op.entry]
  BY <1>2, <1>5 DEF EntryType
<1>7. fat' = fat
  BY <1>2, <1>4, <1>6
<1> QED BY <1>1, <1>7 DEF UpdateFatEntry

LEMMA UpdateFatEntryInv == VfsInv /\ UpdateFatEntry => VfsInv'
<1> SUFFICES ASSUME VfsInv, UpdateFatEntry PROVE VfsInv'
  OBVIOUS
<1>1. /\ op.kind = "write" /\ WriteInv /\ fat' = fat
      /\ op' = [op EXCEPT !.step = "copy"]
  BY UpdateFatEntryDoes
<1>2. UNCHANGED <<boot, fat, data, stops>> /\ Files' = Files
  BY <1>1 DEF UpdateFatEntry, Files
<1>3. op \in OpType /\ op.step = "entry"
  BY DEF VfsInv, TypeInv, UpdateFatEntry
<1>4. /\ op' \in OpType /\ op'.kind = "write" /\ op'.step = "copy"
      /\ op'.todo = op.todo /\ op'.entry = op.entry /\ op'.block = op.block
      /\ op'.content = op.content /\ op'.part = op.part
  BY <1>1, <1>3 DEF OpType
<1>5. TypeInv' /\ FatInv' /\ FreeInv'
  BY <1>2, <1>4 DEF VfsInv, TypeInv, FatInv, FreeInv
<1>6. UsedInv'
  BY <1>1, <1>2 DEF VfsInv, UsedInv, Doomed
<1>7. WriteInv'
  BY <1>1, <1>2, <1>3, <1>4 DEF WriteInv, NoOnesBlock
<1> QED BY <1>4, <1>5, <1>6, <1>7 DEF VfsInv, CallInv

(* A part is written to the first block, or to one that is no file's.      *)
LEMMA CopyBlockDoes ==
  ASSUME VfsInv, CopyBlock
  PROVE  \E v \in BlockType :
           /\ op.kind = "write" /\ WriteInv
           /\ v.used = TRUE /\ v.content = op.content /\ v.part = op.part
           /\ IF op.part = 0 THEN op.block = fat[op.entry].first
              ELSE op.block = 0 \/ NoOnesBlock(op.block)
           /\ data' \in [DataBlocks -> BlockType]
           /\ \A c \in DataBlocks : data'[c] = IF c = op.block THEN v ELSE data[c]
           /\ \/ op' = Idle
              \/ /\ op' = [op EXCEPT !.step = "mark", !.part = op.part + 1]
                 /\ op.part + 1 < BlocksOf(op.content)
<1>1. op.kind = "write" /\ WriteInv
  BY Writing DEF CopyBlock
<1>2. op \in OpType /\ data \in [DataBlocks -> BlockType]
  BY DEF VfsInv, TypeInv
<1> DEFINE next == IF EndsIn(op.content, op.part) THEN LAST_BLOCK
                   ELSE find_free_block
           v == [used |-> TRUE, next |-> next, content |-> op.content,
                 part |-> op.part]
<1>3. next \in DataBlocks \cup {0}
  <2>1. CASE EndsIn(op.content, op.part)
    BY <2>1 DEF LAST_BLOCK
  <2>2. CASE ~EndsIn(op.content, op.part)
    BY <2>2, FindFreeBlock
  <2> QED BY <2>1, <2>2
<1>4. data' = Written(op.block, v)
  BY DEF CopyBlock
<1>5. /\ v \in BlockType /\ v.used = TRUE /\ v.content = op.content
      /\ v.part = op.part
  <2> HIDE DEF next
  <2> QED BY <1>2, <1>3 DEF BlockType, OpType
<1> HIDE DEF v
<1>6. /\ data' \in [DataBlocks -> BlockType]
      /\ \A c \in DataBlocks : data'[c] = IF c = op.block THEN v ELSE data[c]
  BY <1>2, <1>4, <1>5, WrittenBlock
<1>7. \/ op' = Idle
      \/ /\ op' = [op EXCEPT !.step = "mark", !.part = op.part + 1]
         /\ op.part + 1 < BlocksOf(op.content)
  BY DEF CopyBlock
<1>8. IF op.part = 0 THEN op.block = fat[op.entry].first
      ELSE op.block = 0 \/ NoOnesBlock(op.block)
  BY <1>1 DEF WriteInv, CopyBlock
<1> QED BY <1>1, <1>5, <1>6, <1>7, <1>8

LEMMA CopyBlockInv == VfsInv /\ CopyBlock => VfsInv'
<1> SUFFICES ASSUME VfsInv, CopyBlock PROVE VfsInv'
  OBVIOUS
<1>1. PICK v \in BlockType :
        /\ op.kind = "write" /\ WriteInv
        /\ v.used = TRUE /\ v.content = op.content /\ v.part = op.part
        /\ IF op.part = 0 THEN op.block = fat[op.entry].first
           ELSE op.block = 0 \/ NoOnesBlock(op.block)
        /\ data' \in [DataBlocks -> BlockType]
        /\ \A c \in DataBlocks : data'[c] = IF c = op.block THEN v ELSE data[c]
        /\ \/ op' = Idle
           \/ /\ op' = [op EXCEPT !.step = "mark", !.part = op.part + 1]
              /\ op.part + 1 < BlocksOf(op.content)
  BY CopyBlockDoes
<1>2. UNCHANGED <<boot, fat, stops>> /\ Files' = Files
  BY DEF CopyBlock, Files
<1>3. op \in OpType
  BY DEF VfsInv, TypeInv
<1>4. op' \in OpType /\ CallInv'
  <2>1. CASE op' = Idle
    BY <2>1, ConstantRecords DEF CallInv, Idle
  <2>2. CASE /\ op' = [op EXCEPT !.step = "mark", !.part = op.part + 1]
             /\ op.part + 1 < BlocksOf(op.content)
    <3>1. /\ op' \in OpType /\ op'.kind = op.kind /\ op'.step = "mark"
          /\ op'.todo = op.todo /\ op'.entry = op.entry
          /\ op'.content = op.content /\ op'.part = op.part + 1
      <4>1. PICK n \in Nat : n = op.part + 1
        BY <1>3 DEF OpType
      <4>2. op' = [op EXCEPT !.step = "mark", !.part = n]
        BY <2>2, <4>1
      <4>3. /\ op'.kind = op.kind /\ op'.step = "mark"
            /\ op'.todo = op.todo /\ op'.entry = op.entry
            /\ op'.content = op.content /\ op'.part = n
        BY <1>3, <4>2 DEF OpType
      <4>4. op' \in OpType
        BY <1>3, <4>2 DEF OpType
      <4> QED BY <4>1, <4>3, <4>4
    <3>2. WriteInv'
      BY <1>1, <1>2, <2>2, <3>1 DEF WriteInv
    <3> QED BY <1>1, <3>1, <3>2 DEF CallInv
  <2> QED BY <1>1, <2>1, <2>2
<1>5. TypeInv' /\ FatInv'
  BY <1>1, <1>2, <1>4 DEF VfsInv, TypeInv, FatInv
<1>6. \A f \in Files : data[fat[f].first].used /\ fat[f].first \in DataBlocks
  BY <1>1 DEF VfsInv, UsedInv, Doomed, FatInv
<1>7. UsedInv' /\ FreeInv'
  BY <1>1, <1>2, <1>6 DEF VfsInv, UsedInv, FreeInv
<1> QED BY <1>4, <1>5, <1>7 DEF VfsInv

LEMMA FormatStartInv == VfsInv /\ Format => VfsInv'
<1> SUFFICES ASSUME VfsInv, Format PROVE VfsInv'
  OBVIOUS
<1>1. /\ op = Idle /\ op' = [Idle EXCEPT !.kind = "format"]
      /\ UNCHANGED <<boot, fat, data, stops>>
  BY DEF Format
<1>2. op' = [kind |-> "format", step |-> "none", name |-> "none", entry |-> 0,
             block |-> 0, todo |-> <<>>, content |-> NoContent, part |-> 0]
  BY <1>1 DEF Idle
<1>3. op' \in OpType
  BY <1>2, ConstantTypes DEF OpType
<1>4. Files' = Files
  BY <1>1 DEF Files
<1>5. TypeInv' /\ FatInv' /\ FreeInv'
  BY <1>1, <1>3, <1>4 DEF VfsInv, TypeInv, FatInv, FreeInv
<1>6. UsedInv'
  BY <1>1, <1>4 DEF VfsInv, UsedInv, Doomed, Idle
<1>7. CallInv'
  BY <1>2, ConstantTypes DEF CallInv, FormatInv, BOOT_BLOCKS
<1> QED BY <1>5, <1>6, <1>7 DEF VfsInv

LEMMA ZeroBlockInv == VfsInv /\ ZeroBlock => VfsInv'
<1> SUFFICES ASSUME VfsInv, ZeroBlock PROVE VfsInv'
  OBVIOUS
<1>1. /\ op.kind = "format" /\ op.block < NumBlocks
      /\ boot' = (boot /\ op.block # 0)
      /\ fat' = IF op.block = BOOT_BLOCKS THEN [e \in Entries |-> NoEntry]
                ELSE fat
      /\ data' = Written(op.block, Zero)
      /\ op' = [op EXCEPT !.block = op.block + 1]
      /\ UNCHANGED stops
  BY DEF ZeroBlock
<1>2. FormatInv /\ TypeInv
  BY <1>1 DEF VfsInv, CallInv
<1>3. op.block \in Nat /\ NumBlocks \in Nat
  BY <1>2, ConstantTypes DEF TypeInv, OpType
<1>4. /\ op' \in OpType /\ op'.kind = "format" /\ op'.step = op.step
      /\ op'.todo = op.todo /\ op'.block = op.block + 1
  <2>1. op \in OpType
    BY <1>2 DEF TypeInv
  <2>2. PICK n \in 0 .. NumBlocks + 1 : n = op.block + 1
    BY <1>1, <1>3
  <2> QED BY <1>1, <2>1, <2>2 DEF OpType
<1>5. /\ data' \in [DataBlocks -> BlockType]
      /\ \A c \in DataBlocks :
           data'[c] = IF c = op.block THEN Zero ELSE data[c]
  BY <1>1, <1>2, WrittenBlock, ConstantRecords DEF TypeInv
<1>6. TypeInv'
  <2>1. fat' \in [Entries -> EntryType]
    BY <1>1, <1>2, ConstantRecords DEF TypeInv
  <2>2. boot' \in BOOLEAN
    BY <1>1
  <2> QED BY <1>1, <1>2, <1>4, <1>5, <2>1, <2>2 DEF TypeInv
<1>7. op.block >= BOOT_BLOCKS => Files' = {}
  <2>1. CASE op.block = BOOT_BLOCKS
    BY <1>1, <2>1 DEF Files, NoEntry
  <2>2. CASE op.block > BOOT_BLOCKS
    <3>1. fat' = fat /\ Files = {}
      BY <1>1, <1>2, <2>2 DEF FormatInv, BOOT_BLOCKS
    <3> QED BY <3>1 DEF Files
  <2> QED BY <1>3, <2>1, <2>2 DEF BOOT_BLOCKS
<1>8. op.block < BOOT_BLOCKS =>
        Files' = Files /\ fat' = fat /\ \A c \in DataBlocks : data'[c] = data[c]
  BY <1>1, <1>3, <1>5, ConstantTypes DEF Files, BOOT_BLOCKS
<1>9. FatInv' /\ UsedInv'
  <2>1. CASE op.block >= BOOT_BLOCKS
    BY <1>7, <2>1 DEF FatInv, UsedInv
  <2>2. CASE op.block < BOOT_BLOCKS
    BY <1>1, <1>8, <2>2 DEF VfsInv, FatInv, UsedInv, Doomed
  <2> QED BY <1>3, <2>1, <2>2 DEF BOOT_BLOCKS
<1>10. FreeInv'
  BY <1>5 DEF VfsInv, FreeInv
<1>11. FormatInv'
  <2>1. op'.block > BOOT_BLOCKS => Files' = {}
    BY <1>3, <1>4, <1>7 DEF BOOT_BLOCKS
  <2>2. \A c \in DataBlocks : c < op'.block => data'[c] = Zero
    BY <1>2, <1>3, <1>4, <1>5, ConstantTypes DEF FormatInv
  <2> QED BY <1>2, <1>4, <2>1, <2>2 DEF FormatInv
<1> QED BY <1>4, <1>6, <1>9, <1>10, <1>11 DEF VfsInv, CallInv

LEMMA FormatBootInv == VfsInv /\ FormatBoot => VfsInv'
<1> SUFFICES ASSUME VfsInv, FormatBoot PROVE VfsInv'
  OBVIOUS
<1>1. /\ op.kind = "format" /\ op.block = NumBlocks /\ boot' = TRUE
      /\ op' = [op EXCEPT !.block = NumBlocks + 1]
      /\ UNCHANGED <<fat, data, stops>>
  BY DEF FormatBoot
<1>2. FormatInv /\ op \in OpType /\ NumBlocks \in Nat
  BY <1>1, ConstantTypes DEF VfsInv, CallInv, TypeInv
<1>3. /\ op' \in OpType /\ op'.kind = "format" /\ op'.step = op.step
      /\ op'.todo = op.todo /\ op'.block = NumBlocks + 1
  BY <1>1, <1>2 DEF OpType
<1>4. Files = {} /\ Files' = Files
  <2>1. NumBlocks > BOOT_BLOCKS
    BY DiskSize
  <2> QED BY <1>1, <1>2, <2>1 DEF FormatInv, Files
<1>5. TypeInv' /\ FatInv' /\ UsedInv' /\ FreeInv'
  BY <1>1, <1>3, <1>4 DEF VfsInv, TypeInv, FatInv, UsedInv, FreeInv
<1>6. FormatInv'
  BY <1>1, <1>2, <1>3, <1>4, ConstantTypes DEF FormatInv
<1> QED BY <1>3, <1>5, <1>6 DEF VfsInv, CallInv

LEMMA FormatFatInv == VfsInv /\ FormatFat => VfsInv'
<1> SUFFICES ASSUME VfsInv, FormatFat PROVE VfsInv'
  OBVIOUS
<1>1. /\ fat' = [e \in Entries |-> NoEntry] /\ op' = Idle
      /\ UNCHANGED <<boot, data, stops>>
  BY DEF FormatFat
<1>2. Files' = {}
  BY <1>1 DEF Files, NoEntry
<1>3. TypeInv'
  BY <1>1, ConstantRecords DEF VfsInv, TypeInv
<1> QED BY <1>1, <1>2, <1>3
        DEF VfsInv, FatInv, UsedInv, FreeInv, CallInv, Idle

(* Stopping inside delfile would leave a file without its block. *)
LEMMA StopInv ==
  ASSUME "delfile" \notin MayStop, VfsInv, Stop
  PROVE  VfsInv'
<1>1. /\ op.kind \in MayStop /\ op' = Idle /\ stops' = stops + 1
      /\ UNCHANGED <<boot, fat, data>>
  BY DEF Stop
<1>2. Files' = Files
  BY <1>1 DEF Files
<1>3. TypeInv' /\ FatInv' /\ FreeInv'
  BY <1>1, <1>2, ConstantRecords DEF VfsInv, TypeInv, FatInv, FreeInv
<1>4. UsedInv'
  BY <1>1, <1>2 DEF VfsInv, UsedInv, Doomed
<1> QED BY <1>1, <1>3, <1>4 DEF VfsInv, CallInv, Idle

LEMMA VfsStep ==
  ASSUME "delfile" \notin MayStop
  PROVE  VfsInv /\ [Next]_vars => VfsInv'
<1> SUFFICES ASSUME VfsInv, [Next]_vars PROVE VfsInv'
  OBVIOUS
<1>1. CASE UNCHANGED vars
  BY <1>1 DEF vars, VfsInv, TypeInv, FatInv, UsedInv, Doomed, FreeInv, CallInv,
     MkfileInv, DelfileInv, WriteInv, FormatInv, NoOnesBlock, Files
<1> QED BY <1>1, MkfileBlockInv, MkfileEntryInv, DelfileStartInv,
           DeleteDataBlockInv, DeleteFatEntryInv, TruncateInv, MarkBlockInv,
           UpdateFatEntryInv, CopyBlockInv, FormatStartInv, ZeroBlockInv,
           FormatBootInv, FormatFatInv, StopInv
        DEF Next

----------------------------------------------------------------------------
(* The theorems.                                                           *)

(* Wherever the computer stops, except inside clement_vfs_delfile, the     *)
(* table, the marks of the blocks and the call in progress fit together.   *)
THEOREM VfsSafe ==
  ASSUME "delfile" \notin MayStop
  PROVE  Spec => []VfsInv
<1>1. VfsInv /\ [Next]_vars => VfsInv'
  BY VfsStep
<1> QED BY VfsInit, <1>1, PTL DEF Spec

(* Two files never have a block in common, and a file never lies in a free *)
(* one, on a disk and with a table of any size                             *)
(* (clement_vfs_mkfile, clement_vfs_write, clement_vfs_delfile).           *)
THEOREM FilesStayApart ==
  ASSUME "delfile" \notin MayStop
  PROVE  Spec => []FilesApart
<1>1. VfsInv => FilesApart
  BY DEF VfsInv, FatInv, UsedInv, Doomed, FilesApart, Idle
<1> QED BY VfsSafe, <1>1, PTL

----------------------------------------------------------------------------
(* What a stop may lose.                                                   *)

(* The block that write has marked last is lost by the next mark only if   *)
(* it is not written: it is, or it is the first block, or there was none.  *)
MarkedInv ==
  op.kind = "write" /\ op.step = "mark" =>
    \/ op.block \notin DataBlocks
    \/ data[op.block].part # 0
    \/ \E e \in Files : fat[e].first = op.block

LEMMA MarkedInit == Init => MarkedInv
BY DEF Init, MarkedInv, Idle

LEMMA MarkedStep ==
  ASSUME VfsInv, MarkedInv, [Next]_vars
  PROVE  MarkedInv'
<1>1. CASE UNCHANGED vars
  BY <1>1 DEF vars, MarkedInv, Files
<1>2. CASE MkfileBlock
  BY <1>2 DEF MkfileBlock, MarkedInv, Idle
<1>3. CASE MkfileEntry \/ DeleteFatEntry \/ FormatFat \/ Stop
  BY <1>3 DEF MkfileEntry, DeleteFatEntry, FormatFat, Stop, MarkedInv, Idle
<1>4. CASE Delfile \/ Format
  BY <1>4 DEF Delfile, Format, MarkedInv, Idle
<1>5. CASE DeleteDataBlock
  <2>1. op.kind = "delfile" /\ op' = [op EXCEPT !.todo = <<>>] /\ op \in OpType
    BY <1>5, DeleteDataBlockDoes DEF VfsInv, TypeInv
  <2> DEFINE empty == <<>>
  <2> HIDE DEF empty
  <2>2. op' = [op EXCEPT !.todo = empty]
    BY <2>1 DEF empty
  <2>3. op'.kind = op.kind
    BY <2>1, <2>2 DEF OpType
  <2> QED BY <2>1, <2>3 DEF MarkedInv
<1>6. CASE Truncate
  BY <1>6, TruncateDoes, ConstantTypes DEF MarkedInv, BOOT_BLOCKS
<1>7. CASE MarkBlock
  <2>1. /\ op \in OpType
        /\ op'.step = IF EndsIn(op.content, op.part) THEN "entry" ELSE "copy"
    BY <1>7 DEF MarkBlock, VfsInv, TypeInv, OpType
  <2> QED BY <2>1 DEF MarkedInv
<1>8. CASE UpdateFatEntry
  BY <1>8 DEF UpdateFatEntry, MarkedInv, VfsInv, TypeInv, OpType
<1>9. CASE CopyBlock
  <2>1. PICK v \in BlockType :
          /\ op.kind = "write" /\ WriteInv
          /\ v.part = op.part
          /\ IF op.part = 0 THEN op.block = fat[op.entry].first
             ELSE op.block = 0 \/ NoOnesBlock(op.block)
          /\ \A c \in DataBlocks :
               data'[c] = IF c = op.block THEN v ELSE data[c]
          /\ \/ op' = Idle
             \/ op' = [op EXCEPT !.step = "mark", !.part = op.part + 1]
    BY <1>9, CopyBlockDoes
  <2>2. fat' = fat /\ Files' = Files /\ op.entry \in Files /\ op \in OpType
    BY <1>9, <2>1 DEF CopyBlock, Files, WriteInv, VfsInv, TypeInv
  <2>3. op' = Idle \/ op'.block = op.block
    BY <2>1, <2>2 DEF OpType
  <2>4. CASE op' = Idle
    BY <2>4 DEF MarkedInv, Idle
  <2>5. CASE op'.block = op.block /\ op.part = 0
    BY <2>1, <2>2, <2>5 DEF MarkedInv
  <2>6. CASE op'.block = op.block /\ op.part # 0
    BY <2>1, <2>2, <2>6 DEF MarkedInv
  <2> QED BY <2>3, <2>4, <2>5, <2>6
<1>10. CASE ZeroBlock \/ FormatBoot
  <2>1. op.kind = "format" /\ op \in OpType
    BY <1>10 DEF ZeroBlock, FormatBoot, VfsInv, TypeInv
  <2>2. op'.kind = "format"
    BY <1>10, <2>1 DEF ZeroBlock, FormatBoot, OpType
  <2> QED BY <2>2 DEF MarkedInv
<1> QED BY <1>1, <1>2, <1>3, <1>4, <1>5, <1>6, <1>7, <1>8, <1>9, <1>10 DEF Next

(* Blocks that are marked but neither hold a later part nor are a file's.  *)
Unnamed ==
  {b \in DataBlocks : /\ data[b].used /\ data[b].part = 0
                      /\ \A e \in Files : fat[e].first # b}

LEMMA LostIs ==
  /\ op.kind \in {"mkfile", "write"} => Lost = Unnamed \ {op.block}
  /\ op.kind \notin {"mkfile", "write"} => Lost = Unnamed
BY DEF Lost, Unnamed

(* No step but a stop loses a block, and format gets all of them back.     *)
LEMMA MkfileLoses ==
  ASSUME VfsInv, MkfileBlock \/ MkfileEntry
  PROVE  Lost' \subseteq Lost
<1>1. CASE MkfileBlock
  <2>1. PICK b \in DataBlocks :
          /\ data' = [data EXCEPT ![b].used = TRUE, ![b].next = LAST_BLOCK]
          /\ op' = [op EXCEPT !.kind = "mkfile", !.name = op'.name,
                              !.entry = op'.entry, !.block = b]
    BY <1>1 DEF MkfileBlock, LowestOf, FreeBlocks, Idle
  <2>2. /\ op.kind = "idle" /\ op'.kind = "mkfile" /\ op'.block = b
        /\ UNCHANGED fat
    BY <1>1, <2>1 DEF MkfileBlock, Idle
  <2>3. \A c \in DataBlocks : c # b => data'[c] = data[c]
    BY <2>1 DEF VfsInv, TypeInv
  <2>4. Lost = Unnamed /\ Files' = Files
    BY <2>2, LostIs DEF Files
  <2>5. Lost' \subseteq Unnamed' \ {b}
    BY <2>2 DEF Lost, Unnamed
  <2> QED BY <2>2, <2>3, <2>4, <2>5 DEF Unnamed
<1>2. CASE MkfileEntry
  <2>1. /\ op.kind = "mkfile" /\ op' = Idle /\ UNCHANGED data /\ MkfileInv
        /\ fat' = [fat EXCEPT ![op.entry] =
                     [in_use |-> TRUE, name |-> op.name, blocks |-> 1,
                      first |-> op.block]]
        /\ fat \in [Entries -> EntryType] /\ op.entry \in Entries
    BY <1>2 DEF MkfileEntry, VfsInv, TypeInv, CallInv, OpType
  <2>2. /\ fat'[op.entry].in_use /\ fat'[op.entry].first = op.block
        /\ \A f \in Entries : f # op.entry => fat'[f] = fat[f]
    BY <2>1
  <2>3. Files' = Files \cup {op.entry} /\ op.entry \notin Files
    BY <2>1, <2>2 DEF Files, MkfileInv
  <2>4. Lost = Unnamed \ {op.block}
    BY <2>1, LostIs
  <2>5. \A c \in Unnamed' : c \in Unnamed /\ c # op.block
    BY <2>1, <2>2, <2>3 DEF Unnamed, Files
  <2> QED BY <2>4, <2>5 DEF Lost, Unnamed
<1> QED BY <1>1, <1>2

LEMMA DelfileLoses ==
  ASSUME VfsInv, Delfile \/ DeleteDataBlock \/ DeleteFatEntry
  PROVE  Lost' \subseteq Lost
<1>1. op.kind \in {"idle", "delfile"} /\ Lost = Unnamed /\ Lost' \subseteq Unnamed'
  <2>1. op.kind \in {"idle", "delfile"}
    <3>1. Idle.kind = "idle"
      BY DEF Idle
    <3>2. Delfile \/ DeleteFatEntry => op.kind \in {"idle", "delfile"}
      BY <3>1 DEF Delfile, DeleteFatEntry
    <3>3. DeleteDataBlock => op.kind = "delfile"
      BY DeleteDataBlockDoes
    <3> QED BY <3>2, <3>3
  <2>2. Lost' \subseteq Unnamed'
    BY DEF Lost, Unnamed
  <2> QED BY <2>1, <2>2, LostIs
<1>2. CASE Delfile
  BY <1>1, <1>2 DEF Delfile, Unnamed, Files
<1>3. CASE DeleteDataBlock
  <2>1. PICK e \in Files : \A c \in DataBlocks :
          data'[c] = IF c = fat[e].first THEN Zero ELSE data[c]
    BY <1>3, DeleteDataBlockDoes
  <2>2. fat' = fat /\ Files' = Files /\ ~Zero.used
    BY <1>3 DEF DeleteDataBlock, Files, Zero
  <2> QED BY <1>1, <2>1, <2>2 DEF Unnamed
<1>4. CASE DeleteFatEntry
  <2>1. PICK e \in Files :
          /\ ~data[fat[e].first].used /\ Files' = Files \ {e}
          /\ \A f \in Files : f # e => fat'[f] = fat[f]
    BY <1>4, DeleteFatEntryDoes
  <2>2. data' = data
    BY <1>4 DEF DeleteFatEntry
  <2> QED BY <1>1, <2>1, <2>2 DEF Unnamed
<1> QED BY <1>2, <1>3, <1>4

LEMMA WriteLoses ==
  ASSUME VfsInv, MarkedInv,
         Truncate \/ MarkBlock \/ UpdateFatEntry \/ CopyBlock
  PROVE  Lost' \subseteq Lost
<1>1. CASE Truncate
  <2>1. op = Idle
    BY <1>1 DEF Truncate
  <2>2. Lost = Unnamed /\ Lost' \subseteq Unnamed'
    BY <2>1, LostIs DEF Idle, Lost, Unnamed
  <2>3. \A c \in DataBlocks : data'[c].used = data[c].used
                              /\ data'[c].part = data[c].part
    BY <1>1, TruncateDoes
  <2>4. fat' = fat /\ Files' = Files
    BY <1>1 DEF Truncate, Files
  <2> QED BY <2>2, <2>3, <2>4 DEF Unnamed
<1>2. CASE MarkBlock
  <2>1. PICK b \in DataBlocks \cup {0} :
          /\ op.kind = "write"
          /\ data' = WithUse(b)
          /\ op' = [op EXCEPT !.block = b,
                      !.step = IF EndsIn(op.content, op.part) THEN "entry"
                               ELSE "copy"]
    BY <1>2, MarkBlockDoes
  <2>2. op \in OpType /\ data \in [DataBlocks -> BlockType] /\ op.step = "mark"
    BY <1>2 DEF VfsInv, TypeInv, MarkBlock
  <2>3. op'.kind = "write" /\ op'.block = b
    BY <2>1, <2>2 DEF OpType
  <2>4. \A c \in DataBlocks : c # b => data'[c] = data[c]
    BY <2>1, <2>2, UsedBlock
  <2>5. fat' = fat /\ Files' = Files
    BY <1>2 DEF MarkBlock, Files
  <2>6. Lost = Unnamed \ {op.block}
    BY <2>1, LostIs
  <2>7. Lost' \subseteq Unnamed' \ {b}
    BY <2>3 DEF Lost, Unnamed
  <2>8. op.block \notin Unnamed
    BY <2>1, <2>2 DEF MarkedInv, Unnamed
  <2> QED BY <2>4, <2>5, <2>6, <2>7, <2>8 DEF Unnamed
<1>3. CASE UpdateFatEntry
  <2>1. /\ op.kind = "write" /\ fat' = fat /\ data' = data /\ op \in OpType
        /\ op' = [op EXCEPT !.step = "copy"]
    BY <1>3, UpdateFatEntryDoes DEF UpdateFatEntry, VfsInv, TypeInv
  <2>2. op'.kind = op.kind /\ op'.block = op.block
    BY <2>1 DEF OpType
  <2> QED BY <2>1, <2>2 DEF Lost, Files
<1>4. CASE CopyBlock
  <2>1. PICK v \in BlockType :
          /\ op.kind = "write" /\ WriteInv
          /\ v.part = op.part
          /\ IF op.part = 0 THEN op.block = fat[op.entry].first
             ELSE op.block = 0 \/ NoOnesBlock(op.block)
          /\ \A c \in DataBlocks :
               data'[c] = IF c = op.block THEN v ELSE data[c]
    BY <1>4, CopyBlockDoes
  <2>2. fat' = fat /\ Files' = Files /\ op.entry \in Files
    BY <1>4, <2>1 DEF CopyBlock, Files, WriteInv
  <2>3. op.block \notin Unnamed'
    BY <2>1, <2>2 DEF Unnamed
  <2>4. Lost = Unnamed \ {op.block}
    BY <2>1, LostIs
  <2>5. Lost' \subseteq Unnamed'
    BY DEF Lost, Unnamed
  <2> QED BY <2>1, <2>2, <2>3, <2>4, <2>5 DEF Unnamed
<1> QED BY <1>1, <1>2, <1>3, <1>4

LEMMA FormatLoses ==
  ASSUME VfsInv, FormatFat
  PROVE  Lost' = {}
<1>1. /\ op.kind = "format" /\ op.block = NumBlocks + 1 /\ data' = data
      /\ FormatInv
  BY DEF FormatFat, VfsInv, CallInv
<1>2. \A c \in DataBlocks : data'[c] = Zero
  BY <1>1, ConstantTypes DEF FormatInv
<1> QED BY <1>2 DEF Lost, Zero

(* A stop loses the block that the call has marked last, if any.           *)
LEMMA StopLoses ==
  ASSUME VfsInv, Stop, MayStop \subseteq {"mkfile", "write"}
  PROVE  Lost' \subseteq Lost \cup {op.block}
<1>1. op.kind \in {"mkfile", "write"} /\ op' = Idle /\ UNCHANGED <<fat, data>>
  BY DEF Stop
<1>2. Lost = Unnamed \ {op.block} /\ Files' = Files
  BY <1>1, LostIs DEF Files
<1>3. Lost' \subseteq Unnamed' /\ Unnamed' = Unnamed
  BY <1>1, <1>2 DEF Lost, Unnamed
<1> QED BY <1>2, <1>3

LEMMA LostIsFinite ==
  ASSUME NEW S \in SUBSET DataBlocks
  PROVE  IsFiniteSet(S) /\ Cardinality(S) \in Nat
<1>1. 0 \in Int /\ NumBlocks \in Int /\ S \in SUBSET (0 .. NumBlocks)
  BY ConstantTypes
<1>2. IsFiniteSet(0 .. NumBlocks)
  BY <1>1, FS_Interval
<1>3. IsFiniteSet(S)
  BY <1>1, <1>2, FS_Subset
<1> QED BY <1>3, FS_CardinalityType

(* A set grows by one at most. *)
LEMMA AddOne ==
  ASSUME NEW S, NEW x, IsFiniteSet(S)
  PROVE  /\ IsFiniteSet(S \cup {x})
         /\ Cardinality(S \cup {x}) <= Cardinality(S) + 1
<1>1. Cardinality(S) \in Nat /\ \A n \in Nat : n <= n + 1 /\ n + 1 <= n + 1
  BY FS_CardinalityType
<1>2. IsFiniteSet(S \cup {x})
  BY FS_AddElement
<1>3. CASE x \in S
  <2>1. Cardinality(S \cup {x}) = Cardinality(S)
    BY <1>3, FS_AddElement
  <2> QED BY <1>1, <1>2, <2>1
<1>4. CASE x \notin S
  <2>1. Cardinality(S \cup {x}) = Cardinality(S) + 1
    BY <1>4, FS_AddElement
  <2> QED BY <1>1, <1>2, <2>1
<1> QED BY <1>3, <1>4

LEMMA LeaksStep ==
  ASSUME MayStop \subseteq {"mkfile", "write"}, VfsInv, MarkedInv, LeaksBounded,
         [Next]_vars
  PROVE  LeaksBounded'
<1>1. SUFFICES ASSUME op'.kind # "format" PROVE Cardinality(Lost') <= stops'
  BY DEF LeaksBounded
<1>2. Lost \in SUBSET DataBlocks /\ Lost' \in SUBSET DataBlocks /\ stops \in Nat
  BY DEF Lost, VfsInv, TypeInv
<1>3. /\ IsFiniteSet(Lost) /\ Cardinality(Lost) \in Nat
      /\ IsFiniteSet(Lost') /\ Cardinality(Lost') \in Nat
  BY <1>2, LostIsFinite
<1>4. CASE op.kind # "format" /\ Lost' \subseteq Lost /\ stops' = stops
  <2>1. Cardinality(Lost) <= stops
    BY <1>4 DEF LeaksBounded
  <2>2. Cardinality(Lost') <= Cardinality(Lost)
    BY <1>3, <1>4, FS_Subset
  <2> QED BY <1>2, <1>3, <1>4, <2>1, <2>2
<1> Idle.kind = "idle"
  BY DEF Idle
<1>5. CASE MkfileBlock \/ MkfileEntry
  <2>1. op.kind # "format" /\ stops' = stops
    BY <1>5 DEF MkfileBlock, MkfileEntry
  <2> QED BY <1>4, <1>5, <2>1, MkfileLoses
<1>6. CASE Delfile \/ DeleteDataBlock \/ DeleteFatEntry
  <2>1. Delfile \/ DeleteFatEntry => op.kind # "format"
    BY DEF Delfile, DeleteFatEntry
  <2>2. DeleteDataBlock => op.kind # "format"
    BY DeleteDataBlockDoes
  <2>3. stops' = stops
    BY <1>6 DEF Delfile, DeleteDataBlock, DeleteFatEntry
  <2> QED BY <1>4, <1>6, <2>1, <2>2, <2>3, DelfileLoses
<1>7. CASE Truncate \/ MarkBlock \/ UpdateFatEntry \/ CopyBlock
  <2>1. Truncate => op.kind # "format"
    BY DEF Truncate
  <2>2. MarkBlock \/ UpdateFatEntry \/ CopyBlock => op.kind # "format"
    BY Writing DEF MarkBlock, UpdateFatEntry, CopyBlock
  <2>3. stops' = stops
    BY <1>7 DEF Truncate, MarkBlock, UpdateFatEntry, CopyBlock
  <2> QED BY <1>4, <1>7, <2>1, <2>2, <2>3, WriteLoses
<1>8. CASE FormatFat
  BY <1>2, <1>8, FormatLoses, FS_EmptySet DEF FormatFat
<1>9. CASE Stop
  <2>1. Lost' \subseteq Lost \cup {op.block} /\ stops' = stops + 1
    BY <1>9, StopLoses DEF Stop
  <2>2. Cardinality(Lost) <= stops
    BY <1>9 DEF LeaksBounded, Stop
  <2>3. /\ IsFiniteSet(Lost \cup {op.block})
        /\ Cardinality(Lost \cup {op.block}) <= Cardinality(Lost) + 1
    BY <1>3, AddOne
  <2>4. Cardinality(Lost') <= Cardinality(Lost \cup {op.block})
    BY <2>1, <2>3, FS_Subset
  <2>5. Cardinality(Lost \cup {op.block}) \in Nat
    BY <2>3, FS_CardinalityType
  <2> QED BY <1>2, <1>3, <2>1, <2>2, <2>3, <2>4, <2>5
<1>10. CASE Format \/ ZeroBlock \/ FormatBoot
  <2>1. op'.kind = "format"
    BY <1>10 DEF Format, ZeroBlock, FormatBoot, Idle, VfsInv, TypeInv, OpType
  <2> QED BY <1>1, <2>1
<1>11. CASE UNCHANGED vars
  <2>1. Lost' = Lost
    BY <1>11 DEF vars, Lost, Files
  <2> QED BY <1>1, <1>4, <1>11, <2>1 DEF vars
<1> QED BY <1>5, <1>6, <1>7, <1>8, <1>9, <1>10, <1>11 DEF Next

(* Each time the computer stops inside clement_vfs_mkfile or               *)
(* clement_vfs_write, at most one data block is lost for ever, on a disk   *)
(* of any size and however often it stops.                                 *)
THEOREM AtMostOneBlockPerStop ==
  ASSUME MayStop \subseteq {"mkfile", "write"}
  PROVE  Spec => []LeaksBounded
<1>1. Init => LeaksBounded
  <2> SUFFICES ASSUME Init PROVE Cardinality(Lost) <= stops
    BY DEF LeaksBounded
  <2>1. Lost = {} /\ stops = 0
    BY DEF Init, Lost, Zero
  <2> QED BY <2>1, FS_EmptySet
<1>2. VfsInv /\ MarkedInv /\ LeaksBounded /\ [Next]_vars
      => VfsInv' /\ MarkedInv' /\ LeaksBounded'
  BY VfsStep, MarkedStep, LeaksStep
<1> QED BY VfsInit, MarkedInit, <1>1, <1>2, PTL DEF Spec

----------------------------------------------------------------------------
(* The file system implements a store of files.                            *)

VisibleNames == {fat[e].name : e \in Visible}
Shown ==
  /\ Contained = [n \in VisibleNames |-> Contained[n]]
  /\ \A e \in Visible : Contained[fat[e].name] = data[fat[e].first].content

LEMMA ContainedShows == VfsInv => Shown
<1> SUFFICES ASSUME VfsInv PROVE Shown
  OBVIOUS
<1>1. Contained = [n \in VisibleNames |-> Contained[n]]
  BY DEF Contained, VisibleNames
<1>2. ASSUME NEW e \in Visible
      PROVE  Contained[fat[e].name] = data[fat[e].first].content
  <2>1. (CHOOSE f \in Visible : fat[f].name = fat[e].name) = e
    BY <1>2 DEF VfsInv, FatInv, Visible
  <2>2. fat[e].name \in {fat[f].name : f \in Visible}
    OBVIOUS
  <2> QED BY <2>1, <2>2 DEF Contained
<1> QED BY <1>1, <1>2 DEF Shown

(* Which files are visible depends on the call in progress.                *)
LEMMA VisibleIs ==
  /\ op.kind \notin {"format", "delfile"} => Visible = Files
  /\ op.kind = "format" => Visible = {}
  /\ op.kind = "delfile" /\ op.todo # <<>> => Visible = Files
  /\ op.kind = "delfile" /\ op.todo = <<>> =>
       Visible = {e \in Files : fat[e].name # op.name}
BY DEF Visible

(* A step that changes neither the visible files, nor their names and      *)
(* contents, is none of the store.                                         *)
LEMMA SameStore ==
  ASSUME Shown, Shown', Visible' = Visible,
         \A e \in Visible :
           /\ fat'[e].name = fat[e].name
           /\ data'[fat'[e].first].content = data[fat[e].first].content
  PROVE  Contained' = Contained
<1>1. VisibleNames' = VisibleNames
  BY DEF VisibleNames
<1>2. \A n \in VisibleNames : Contained'[n] = Contained[n]
  BY DEF Shown, VisibleNames
<1> QED BY <1>1, <1>2 DEF Shown

LEMMA StoreInit == Init => Store!Init
<1> SUFFICES ASSUME Init PROVE DOMAIN Contained = {}
  BY DEF Store!Init
<1>1. Visible = {}
  BY DEF Init, Visible, Files, NoEntry
<1> QED BY <1>1 DEF Contained

LEMMA MkfileStores ==
  ASSUME VfsInv, Shown, Shown', MkfileBlock \/ MkfileEntry
  PROVE  [Store!Next]_Contained
<1>1. CASE MkfileBlock
  <2>1. PICK b \in LowestOf(FreeBlocks) :
          data' = [data EXCEPT ![b].used = TRUE, ![b].next = LAST_BLOCK]
    BY <1>1 DEF MkfileBlock
  <2>2. op.kind = "idle" /\ op'.kind = "mkfile" /\ fat' = fat
    BY <1>1 DEF MkfileBlock, Idle
  <2>3. b \in DataBlocks /\ data \in [DataBlocks -> BlockType]
    BY DEF LowestOf, FreeBlocks, VfsInv, TypeInv
  <2>4. \A c \in DataBlocks : data'[c].content = data[c].content
    <3> DEFINE marked == [data[b] EXCEPT !.used = TRUE, !.next = LAST_BLOCK]
    <3>1. data' = [data EXCEPT ![b] = marked]
      BY <2>1
    <3>2. marked.content = data[b].content
      BY <2>3 DEF BlockType
    <3> HIDE DEF marked
    <3> QED BY <2>3, <3>1, <3>2
  <2>5. Visible = Files /\ Visible' = Files
    BY <2>2, VisibleIs DEF Visible, Files
  <2>6. \A e \in Files : fat[e].first \in DataBlocks
    BY DEF VfsInv, FatInv
  <2> QED BY <2>2, <2>4, <2>5, <2>6, SameStore
<1>2. CASE MkfileEntry
  <2>1. /\ op.kind = "mkfile" /\ op' = Idle /\ UNCHANGED data /\ MkfileInv
        /\ fat' = [fat EXCEPT ![op.entry] =
                     [in_use |-> TRUE, name |-> op.name, blocks |-> 1,
                      first |-> op.block]]
        /\ fat \in [Entries -> EntryType] /\ op.entry \in Entries
    BY <1>2 DEF MkfileEntry, VfsInv, TypeInv, CallInv, OpType
  <2>2. /\ fat'[op.entry].in_use /\ fat'[op.entry].first = op.block
        /\ fat'[op.entry].name = op.name
        /\ \A f \in Entries : f # op.entry => fat'[f] = fat[f]
    BY <2>1
  <2>3. Files' = Files \cup {op.entry} /\ op.entry \notin Files
    BY <2>1, <2>2 DEF Files, MkfileInv
  <2>4. Visible = Files /\ Visible' = Files'
    BY <2>1, VisibleIs DEF Visible, Idle
  <2>5. op.name \in Names /\ op.name \notin VisibleNames
    BY <2>1, <2>4 DEF MkfileInv, VisibleNames
  <2>6. VisibleNames' = VisibleNames \cup {op.name}
    BY <2>2, <2>3, <2>4 DEF VisibleNames, Files
  <2>7. Contained'[op.name] = NoContent
    BY <2>1, <2>2, <2>3, <2>4 DEF Shown, MkfileInv
  <2>8. \A n \in VisibleNames : Contained'[n] = Contained[n]
    BY <2>1, <2>2, <2>3, <2>4 DEF Shown, VisibleNames, Files
  <2>9. Contained' = [n \in VisibleNames \cup {op.name} |->
                        IF n = op.name THEN NoContent ELSE Contained[n]]
    BY <2>5, <2>6, <2>7, <2>8 DEF Shown
  <2>10. DOMAIN Contained = VisibleNames
    BY DEF Shown
  <2>11. Store!Create(op.name)
    BY <2>5, <2>9, <2>10 DEF Store!Create
  <2> QED BY <2>5, <2>11 DEF Store!Next
<1> QED BY <1>1, <1>2

LEMMA DelfileStores ==
  ASSUME VfsInv, Shown, Shown', Delfile \/ DeleteDataBlock \/ DeleteFatEntry
  PROVE  [Store!Next]_Contained
<1>1. CASE Delfile
  <2>1. PICK name \in Names, e \in Entries :
          /\ e \in FindEntry(name)
          /\ op' = [Idle EXCEPT !.kind = "delfile", !.step = "blocks",
                                !.name = name, !.todo = FileBlockNumbers(e)]
    BY <1>1 DEF Delfile
  <2>2. op'.kind = "delfile" /\ op'.todo # <<>>
    <3>1. FileBlockNumbers(e) = <<fat[e].first>>
      BY <2>1, FindEntryFinds, OneBlockNumber DEF VfsInv, FatInv
    <3>2. op'.kind = "delfile" /\ op'.todo = FileBlockNumbers(e)
      BY <2>1 DEF Idle
    <3> QED BY <3>1, <3>2
  <2>3. op.kind = "idle" /\ fat' = fat /\ data' = data /\ Files' = Files
    BY <1>1 DEF Delfile, Idle, Files
  <2>4. Visible = Files /\ Visible' = Files
    BY <2>2, <2>3, VisibleIs DEF Visible
  <2> QED BY <2>3, <2>4, SameStore
<1>2. CASE DeleteDataBlock
  <2>1. PICK e \in Files :
          /\ op.kind = "delfile" /\ fat[e].name = op.name
          /\ op.todo = <<fat[e].first>>
          /\ \A c \in DataBlocks :
               data'[c] = IF c = fat[e].first THEN Zero ELSE data[c]
          /\ op' = [op EXCEPT !.todo = <<>>]
    BY <1>2, DeleteDataBlockDoes
  <2>2. fat' = fat /\ Files' = Files /\ op \in OpType
    BY <1>2 DEF DeleteDataBlock, Files, VfsInv, TypeInv
  <2>3. op'.kind = "delfile" /\ op'.todo = <<>> /\ op'.name = op.name
    <3> DEFINE empty == <<>>
    <3> HIDE DEF empty
    <3>1. op' = [op EXCEPT !.todo = empty]
      BY <2>1 DEF empty
    <3>2. op'.kind = op.kind /\ op'.todo = empty /\ op'.name = op.name
      BY <2>2, <3>1 DEF OpType
    <3> QED BY <2>1, <3>2 DEF empty
  <2>4. op.todo # <<>>
    BY <2>1
  <2>5. Visible = Files
    BY <2>1, <2>4, VisibleIs
  <2>6. Visible' = {f \in Files : fat[f].name # op.name}
    BY <2>2, <2>3 DEF Visible, Files
  <2>7. \A f \in Files : f # e =>
          /\ fat[f].name # fat[e].name
          /\ data'[fat[f].first].content = data[fat[f].first].content
    BY <2>1 DEF VfsInv, FatInv
  <2>8. VisibleNames' = VisibleNames \ {op.name} /\ op.name \in VisibleNames
    BY <2>1, <2>2, <2>5, <2>6, <2>7 DEF VisibleNames
  <2>9. \A n \in VisibleNames \ {op.name} : Contained'[n] = Contained[n]
    BY <2>1, <2>2, <2>5, <2>6, <2>7 DEF Shown, VisibleNames
  <2>10. Contained' = [n \in VisibleNames \ {op.name} |-> Contained[n]]
    BY <2>8, <2>9 DEF Shown
  <2>11. DOMAIN Contained = VisibleNames
    BY DEF Shown
  <2>12. Store!Remove(op.name)
    BY <2>8, <2>10, <2>11 DEF Store!Remove, Store!Without
  <2>13. op.name \in Names
    BY <2>1 DEF VfsInv, FatInv
  <2> QED BY <2>12, <2>13 DEF Store!Next
<1>3. CASE DeleteFatEntry
  <2>1. PICK e \in Files :
          /\ op.kind = "delfile" /\ op.todo = <<>> /\ fat[e].name = op.name
          /\ Files' = Files \ {e}
          /\ \A f \in Files : f # e => fat'[f] = fat[f] /\ fat[f].name # op.name
    BY <1>3, DeleteFatEntryDoes
  <2>2. data' = data /\ op'.kind = "idle"
    BY <1>3 DEF DeleteFatEntry, Idle
  <2>3. Visible = Files \ {e}
    BY <2>1, VisibleIs
  <2>4. Visible' = Files \ {e}
    BY <2>1, <2>2 DEF Visible
  <2> QED BY <2>1, <2>2, <2>3, <2>4, SameStore
<1> QED BY <1>1, <1>2, <1>3

LEMMA WriteStores ==
  ASSUME VfsInv, Shown, Shown',
         Truncate \/ MarkBlock \/ UpdateFatEntry \/ CopyBlock
  PROVE  [Store!Next]_Contained
<1>1. \A e \in Files : fat[e].first \in DataBlocks /\ fat[e].name \in Names
  BY DEF VfsInv, FatInv
<1>2. fat' = fat /\ Files' = Files
  BY UpdateFatEntryDoes DEF Truncate, MarkBlock, CopyBlock, Files
<1>3. Visible = Files
  <2>1. Idle.kind = "idle"
    BY DEF Idle
  <2>2. op.kind \in {"idle", "write"}
    BY <2>1, Writing DEF Truncate, MarkBlock, UpdateFatEntry, CopyBlock
  <2> QED BY <2>2, VisibleIs
<1>4. Visible' = Files
  <2>1. Truncate => op'.kind = "write"
    BY TruncateDoes
  <2>2. MarkBlock => op'.kind = "write"
    BY Writing DEF MarkBlock, VfsInv, TypeInv, OpType
  <2>3. UpdateFatEntry => op'.kind = "write"
    BY UpdateFatEntryDoes DEF VfsInv, TypeInv, OpType
  <2>4. CopyBlock => op'.kind \in {"idle", "write"}
    <3> SUFFICES ASSUME CopyBlock PROVE op'.kind \in {"idle", "write"}
      OBVIOUS
    <3>1. \/ op' = Idle
          \/ op' = [op EXCEPT !.step = "mark", !.part = op.part + 1]
      BY CopyBlockDoes
    <3>2. op.kind = "write" /\ op \in OpType
      BY CopyBlockDoes DEF VfsInv, TypeInv
    <3>3. Idle.kind = "idle"
      BY DEF Idle
    <3>4. [op EXCEPT !.step = "mark", !.part = op.part + 1].kind = op.kind
      BY <3>2 DEF OpType
    <3> QED BY <3>1, <3>2, <3>3, <3>4
  <2>5. op'.kind \in {"idle", "write"}
    BY <2>1, <2>2, <2>3, <2>4
  <2> QED BY <1>2, <2>5 DEF Visible
<1>5. CASE \A c \in DataBlocks : data'[c].content = data[c].content
  BY <1>1, <1>2, <1>3, <1>4, <1>5, SameStore
<1>6. CASE Truncate
  BY <1>5, <1>6, TruncateDoes
<1>7. CASE MarkBlock
  <2>1. data \in [DataBlocks -> BlockType]
    BY DEF VfsInv, TypeInv
  <2>2. PICK b : data' = WithUse(b)
    BY <1>7 DEF MarkBlock
  <2> QED BY <1>5, <2>1, <2>2, UsedBlock
<1>8. CASE UpdateFatEntry
  BY <1>5, <1>8 DEF UpdateFatEntry
<1>9. CASE CopyBlock
  <2>1. PICK v \in BlockType :
          /\ op.kind = "write" /\ WriteInv
          /\ v.content = op.content
          /\ IF op.part = 0 THEN op.block = fat[op.entry].first
             ELSE op.block = 0 \/ NoOnesBlock(op.block)
          /\ \A c \in DataBlocks :
               data'[c] = IF c = op.block THEN v ELSE data[c]
    BY <1>9, CopyBlockDoes
  <2>2. 0 \notin DataBlocks
    BY ConstantTypes DEF BOOT_BLOCKS
  <2>3. CASE op.part # 0
    <3>1. \A e \in Files : fat[e].first # op.block
      BY <1>1, <2>1, <2>2, <2>3 DEF NoOnesBlock
    <3>2. \A e \in Visible : /\ fat'[e].name = fat[e].name
                             /\ data'[fat'[e].first].content
                                  = data[fat[e].first].content
      BY <1>1, <1>2, <1>3, <2>1, <3>1
    <3> QED BY <1>3, <1>4, <3>2, SameStore
  <2>4. CASE op.part = 0
    <3> DEFINE e == op.entry
               name == fat[e].name
    <3>1. e \in Files /\ op.content \in Contents /\ op.block = fat[e].first
      BY <2>1, <2>4 DEF WriteInv
    <3>2. VisibleNames' = VisibleNames /\ name \in VisibleNames
      BY <1>2, <1>3, <1>4, <3>1 DEF VisibleNames
    <3>3. \A f \in Files : f # e => /\ fat[f].name # name
                                    /\ fat[f].first # op.block
      BY <3>1 DEF VfsInv, FatInv
    <3>4. Contained'[name] = op.content
      BY <1>1, <1>2, <1>4, <2>1, <3>1 DEF Shown
    <3>5. \A n \in VisibleNames : n # name => Contained'[n] = Contained[n]
      BY <1>1, <1>2, <1>3, <1>4, <2>1, <3>1, <3>3 DEF Shown, VisibleNames
    <3>6. DOMAIN Contained = VisibleNames
      BY DEF Shown
    <3>7. Contained' = [Contained EXCEPT ![name] = op.content]
      <4> HIDE DEF name
      <4> QED BY <3>2, <3>4, <3>5, <3>6 DEF Shown
    <3>8. Store!Replace(name, op.content)
      BY <3>2, <3>6, <3>7 DEF Store!Replace
    <3>9. name \in Names
      BY <1>1, <3>1
    <3> HIDE DEF name
    <3> QED BY <3>1, <3>8, <3>9 DEF Store!Next
  <2> QED BY <2>3, <2>4
<1> QED BY <1>6, <1>7, <1>8, <1>9

LEMMA FormatStores ==
  ASSUME VfsInv, Shown, Shown',
         Format \/ ZeroBlock \/ FormatBoot \/ FormatFat
  PROVE  [Store!Next]_Contained
<1>1. Visible' = {}
  <2>1. CASE FormatFat
    <3>1. Files' = {}
      BY <2>1 DEF FormatFat, Files, NoEntry
    <3> QED BY <3>1 DEF Visible
  <2>2. CASE Format
    BY <2>2 DEF Format, Visible, Idle
  <2>3. CASE ZeroBlock \/ FormatBoot
    <3>1. op \in OpType /\ op.kind = "format"
      BY <2>3 DEF ZeroBlock, FormatBoot, VfsInv, TypeInv
    <3>2. op'.kind = "format"
      BY <2>3, <3>1 DEF ZeroBlock, FormatBoot, OpType
    <3> QED BY <3>2 DEF Visible
  <2> QED BY <2>1, <2>2, <2>3
<1>2. VisibleNames' = {}
  BY <1>1 DEF VisibleNames
<1>3. DOMAIN Contained' = {}
  BY <1>2 DEF Shown
<1> QED BY <1>3 DEF Store!Next, Store!Erase

LEMMA StopStores ==
  ASSUME VfsInv, Shown, Shown', Stop, MayStop \subseteq {"mkfile", "write"}
  PROVE  Contained' = Contained
<1>1. /\ op.kind \in {"mkfile", "write"} /\ op' = Idle
      /\ UNCHANGED <<fat, data>> /\ Files' = Files
  BY DEF Stop, Files
<1>2. Visible = Files
  BY <1>1, VisibleIs
<1>3. Visible' = Files
  BY <1>1 DEF Visible, Idle
<1> QED BY <1>1, <1>2, <1>3, SameStore

(* Making, writing and deleting files is what a file system promises: each *)
(* is done entirely or not at all and disturbs no other file, wherever the *)
(* computer stops inside clement_vfs_mkfile or clement_vfs_write.          *)
THEOREM FileStoreImplemented ==
  ASSUME MayStop \subseteq {"mkfile", "write"}
  PROVE  Spec => ImplementsFileStore
<1>1. ASSUME VfsInv, Shown, Shown', [Next]_vars
      PROVE  [Store!Next]_Contained
  <2>1. CASE UNCHANGED vars
    BY <2>1 DEF vars, Contained, Visible, Files
  <2>2. CASE Stop
    BY <1>1, <2>2, StopStores
  <2>3. CASE MkfileBlock \/ MkfileEntry
    BY <1>1, <2>3, MkfileStores
  <2>4. CASE Delfile \/ DeleteDataBlock \/ DeleteFatEntry
    BY <1>1, <2>4, DelfileStores
  <2>5. CASE Truncate \/ MarkBlock \/ UpdateFatEntry \/ CopyBlock
    BY <1>1, <2>5, WriteStores
  <2>6. CASE Format \/ ZeroBlock \/ FormatBoot \/ FormatFat
    BY <1>1, <2>6, FormatStores
  <2> QED BY <1>1, <2>1, <2>2, <2>3, <2>4, <2>5, <2>6 DEF Next
<1>2. "delfile" \notin MayStop
  OBVIOUS
<1>3. Spec => []VfsInv
  BY <1>2, VfsSafe
<1> QED BY <1>1, <1>3, StoreInit, ContainedShows, PTL
        DEF Spec, ImplementsFileStore, Store!Spec

=============================================================================
