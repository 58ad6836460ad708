----------------------------- MODULE ClementVfs -----------------------------
(***************************************************************************)
(* The file system of clement_vfs.c: a boot block, a table of files (FAT)  *)
(* and data blocks in chains.  A call is a sequence of block writes, and   *)
(* each write is an action; what the call reads before it is part of it.   *)
(* The computer may stop between two of them.                              *)
(*                                                                         *)
(* A content is a tag and a length in characters; a block holds one part   *)
(* of it.  A call that finds nothing to do (the file is missing or there   *)
(* already, the table or the disk is full) writes nothing.                 *)
(***************************************************************************)
EXTENDS Integers, Sequences, FiniteSets

CONSTANTS
  Names,          \* names of files
  Tags, Lengths,  \* what is written
  NumEntries,     \* entries of the FAT
  NumBlocks,      \* device.nblocks
  MayStop,        \* calls during which the computer may stop
  MaxStops        \* bound on how often it does

VARIABLES
  boot,           \* the boot block has its signature
  fat,            \* the entries of the FAT
  data,           \* the data blocks
  op,             \* the call in progress, with its variables
  stops           \* how often the computer stopped

vars == <<boot, fat, data, op, stops>>

BOOT_BLOCKS == 1
START_OF_DATA == 9
LAST_BLOCK == 0
BlockData == 508     \* device.blocksize - 4

ASSUME VfsAssumption ==
  /\ Lengths \subseteq Nat
  /\ NumEntries \in 1 .. 32
  /\ NumBlocks \in START_OF_DATA + 1 .. 65536
  /\ MaxStops \in Nat

Entries == 0 .. NumEntries - 1
DataBlocks == START_OF_DATA .. NumBlocks - 1

Contents == [tag : Tags, length : Lengths]
NoContent == [tag |-> "none", length |-> 0]

(* What memset leaves of an entry or a block, and the FAT after format.    *)
NoEntry == [in_use |-> FALSE, name |-> "none", blocks |-> 0, first |-> 0]
Zero == [used |-> FALSE, next |-> LAST_BLOCK, content |-> NoContent, part |-> 0]

Idle == [kind |-> "idle", step |-> "none", name |-> "none", entry |-> 0,
         block |-> 0, todo |-> <<>>, content |-> NoContent, part |-> 0]

LowestOf(S) == {x \in S : \A y \in S : x <= y}

(* find_fat_entry, and the search for an unused entry.  The FAT has 8      *)
(* blocks of 32 entries; a call changes one entry, and the model has so    *)
(* few that they are all in the first block.                               *)
FindEntry(name) ==
  LowestOf({e \in Entries : fat[e].name = name /\ fat[e].in_use})
AnyEntry == LowestOf(Entries)
FreeEntry == LowestOf({e \in Entries : ~fat[e].in_use})

(* find_free_block returns 0 when there is none.  The free blocks, twice    *)
(* wrong and as they are.                                                  *)
FreeBlocksAll == DataBlocks
FreeBlocksInclusive == {b \in DataBlocks : ~data[b].used} \cup {NumBlocks}
FreeBlocks == {b \in DataBlocks : ~data[b].used}
find_free_block ==
  IF FreeBlocks = {} THEN 0 ELSE CHOOSE b \in LowestOf(FreeBlocks) : TRUE

(* The block numbers of a file, as many as its entry says.                 *)
FileBlockNumbers(e) ==
  LET number[i \in 1 .. fat[e].blocks] ==
        IF i = 1 THEN fat[e].first ELSE data[number[i - 1]].next
  IN number

(* How many blocks clement_vfs_write writes, and whether it meets the end  *)
(* of the string in one of them.                                           *)
BlocksOf(content) ==
  IF content.length < BlockData THEN 1 ELSE content.length \div BlockData
EndsIn(content, part) == content.length < BlockData * (part + 1)

(* ata_write of one data block; a block of another number is not one.      *)
Written(b, v) == IF b \in DataBlocks THEN [data EXCEPT ![b] = v] ELSE data
WithUse(b) == IF b \in DataBlocks THEN [data EXCEPT ![b].used = TRUE] ELSE data

Init ==
  /\ boot = TRUE
  /\ fat = [e \in Entries |-> NoEntry]
  /\ data = [b \in DataBlocks |-> Zero]
  /\ op = Idle
  /\ stops = 0

----------------------------------------------------------------------------
(* clement_vfs_mkfile writes the data block first, then the entry.         *)

MkfileBlock ==
  /\ op = Idle
  /\ \E name \in Names, e \in FreeEntry, b \in LowestOf(FreeBlocks) :
       /\ FindEntry(name) = {}
       /\ data' = [data EXCEPT ![b].used = TRUE, ![b].next = LAST_BLOCK]
       /\ op' = [Idle EXCEPT !.kind = "mkfile", !.name = name, !.entry = e,
                             !.block = b]
  /\ UNCHANGED <<boot, fat, stops>>

MkfileEntry ==
  /\ op.kind = "mkfile"
  /\ fat' = [fat EXCEPT ![op.entry] =
               [in_use |-> TRUE, name |-> op.name, blocks |-> 1,
                first |-> op.block]]
  /\ op' = Idle
  /\ UNCHANGED <<boot, data, stops>>

----------------------------------------------------------------------------
(* clement_vfs_delfile deletes the blocks first, then the entry.           *)

Delfile ==
  /\ op = Idle
  /\ \E name \in Names, e \in Entries :
       /\ e \in FindEntry(name)
       /\ op' = [Idle EXCEPT !.kind = "delfile", !.step = "blocks",
                             !.name = name, !.todo = FileBlockNumbers(e)]
  /\ UNCHANGED <<boot, fat, data, stops>>

ZeroKeptUsed == [Zero EXCEPT !.used = TRUE]
Deleted == Zero

(* delete_data_block, for delfile and write. *)
DeleteDataBlock ==
  /\ op.todo # <<>>
  /\ data' = Written(Head(op.todo), Deleted)
  /\ op' = [op EXCEPT !.todo = Tail(op.todo)]
  /\ UNCHANGED <<boot, fat, stops>>

DeleteFatEntry ==
  /\ op.kind = "delfile" /\ op.todo = <<>>
  /\ \E e \in FindEntry(op.name) : fat' = [fat EXCEPT ![e] = NoEntry]
  /\ op' = Idle
  /\ UNCHANGED <<boot, data, stops>>

----------------------------------------------------------------------------
(* clement_vfs_write, overwriting: the first block becomes the last, the   *)
(* others are deleted, and then the blocks of the new content are written, *)
(* each marked as used first.                                              *)

Truncate ==
  /\ op = Idle
  /\ \E name \in Names, e \in Entries, content \in Contents :
       /\ e \in FindEntry(name)
       /\ data' = [data EXCEPT ![fat[e].first].next = LAST_BLOCK]
       /\ op' = [Idle EXCEPT !.kind = "write", !.step = "mark", !.name = name,
                             !.entry = e, !.todo = Tail(FileBlockNumbers(e)),
                             !.content = content]
  /\ UNCHANGED <<boot, fat, stops>>

(* A write to block 0 overwrites the boot block. *)
MarkBlock ==
  /\ op.step = "mark" /\ op.todo = <<>>
  /\ LET b == IF op.part = 0 THEN fat[op.entry].first ELSE find_free_block
     IN /\ data' = WithUse(b)
        /\ boot' = (boot /\ b # 0)
        /\ op' = [op EXCEPT !.block = b,
                    !.step = IF EndsIn(op.content, op.part) THEN "entry"
                             ELSE "copy"]
  /\ UNCHANGED <<fat, stops>>

UpdateFatEntry ==
  /\ op.step = "entry"
  /\ fat' = [fat EXCEPT ![op.entry].blocks = BlocksOf(op.content)]
  /\ op' = [op EXCEPT !.step = "copy"]
  /\ UNCHANGED <<boot, data, stops>>

CopyBlock ==
  /\ op.step = "copy"
  /\ LET next == IF EndsIn(op.content, op.part) THEN LAST_BLOCK
                 ELSE find_free_block
     IN data' = Written(op.block,
                  [used |-> TRUE, next |-> next, content |-> op.content,
                   part |-> op.part])
  /\ op' = IF op.part + 1 < BlocksOf(op.content)
           THEN [op EXCEPT !.step = "mark", !.part = op.part + 1]
           ELSE Idle
  /\ UNCHANGED <<boot, fat, stops>>

----------------------------------------------------------------------------
(* clement_vfs_format zeroes all blocks in order, the FAT and the boot     *)
(* block among them, then writes these two.                                *)

Format ==
  /\ op = Idle
  /\ op' = [Idle EXCEPT !.kind = "format"]
  /\ UNCHANGED <<boot, fat, data, stops>>

ZeroBlock ==
  /\ op.kind = "format" /\ op.block < NumBlocks
  /\ boot' = (boot /\ op.block # 0)
  /\ fat' = IF op.block = BOOT_BLOCKS THEN [e \in Entries |-> NoEntry] ELSE fat
  /\ data' = Written(op.block, Zero)
  /\ op' = [op EXCEPT !.block = op.block + 1]
  /\ UNCHANGED stops

FormatBoot ==
  /\ op.kind = "format" /\ op.block = NumBlocks
  /\ boot' = TRUE
  /\ op' = [op EXCEPT !.block = NumBlocks + 1]
  /\ UNCHANGED <<fat, data, stops>>

FormatFat ==
  /\ op.kind = "format" /\ op.block = NumBlocks + 1
  /\ fat' = [e \in Entries |-> NoEntry]
  /\ op' = Idle
  /\ UNCHANGED <<boot, data, stops>>

----------------------------------------------------------------------------
(* The computer stops; the disk is what was written so far. *)
Stop ==
  /\ op.kind \in MayStop /\ stops < MaxStops
  /\ op' = Idle
  /\ stops' = stops + 1
  /\ UNCHANGED <<boot, fat, data>>

Next ==
  \/ MkfileBlock \/ MkfileEntry
  \/ Delfile \/ DeleteDataBlock \/ DeleteFatEntry
  \/ Truncate \/ MarkBlock \/ UpdateFatEntry \/ CopyBlock
  \/ Format \/ ZeroBlock \/ FormatBoot \/ FormatFat
  \/ Stop

Spec == Init /\ [][Next]_vars

----------------------------------------------------------------------------
(* Properties                                                              *)

Files == {e \in Entries : fat[e].in_use}

(* Types of the variables. *)
TypeOK ==
  /\ boot \in BOOLEAN
  /\ fat \in [Entries -> [in_use : BOOLEAN, name : Names \cup {"none"},
                          blocks : 0 .. NumBlocks, first : DataBlocks \cup {0}]]
  /\ data \in [DataBlocks -> [used : BOOLEAN, next : DataBlocks \cup {0},
                              content : Contents \cup {NoContent},
                              part : 0 .. NumBlocks]]
  /\ op.name \in Names \cup {"none"} /\ op.entry \in Entries
  /\ op.block \in 0 .. NumBlocks + 1 /\ op.todo \in Seq(DataBlocks)
  /\ stops \in 0 .. MaxStops

(* A file holds what its first block does, from the entry's writing until  *)
(* its first block is deleted.  A disk being formatted holds none.         *)
Visible ==
  {e \in Files : /\ op.kind # "format"
                 /\ ~(op.kind = "delfile" /\ op.todo = <<>> /\ fat[e].name = op.name)}
Contained ==
  [n \in {fat[e].name : e \in Visible} |->
     data[fat[CHOOSE e \in Visible : fat[e].name = n].first].content]

Store == INSTANCE FileStore WITH files <- Contained

(* Making, writing and deleting files is what a file system promises: each *)
(* is done entirely or not at all, and disturbs no other file              *)
(* (clement_vfs_mkfile, clement_vfs_write, clement_vfs_delfile).           *)
ImplementsFileStore == Store!Spec

(* Each time the computer stops, at most one data block is lost for ever   *)
(* (clement_vfs_mkfile and clement_vfs_write mark it before anything       *)
(* refers to it).  The later blocks of a long content are not counted: the *)
(* entry does not say that they are there.                                 *)
Lost ==
  {b \in DataBlocks : /\ data[b].used /\ data[b].part = 0
                      /\ \A e \in Files : fat[e].first # b}
    \ (IF op.kind \in {"mkfile", "write"} THEN {op.block} ELSE {})
LeaksBounded == op.kind # "format" => Cardinality(Lost) <= stops

(* Two files never have a block in common, and a file never lies in a free *)
(* one (clement_vfs_delfile).                                              *)
FilesApart ==
  op = Idle =>
    \A e, f \in Files : /\ data[fat[e].first].used
                        /\ fat[e].first = fat[f].first => e = f

============================================================================
