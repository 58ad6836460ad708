------------------------------ MODULE Ramdisk ------------------------------
(***************************************************************************)
(* The boot ram disk of ramdisk.c: a root directory that is a list of      *)
(* files, each with a descriptor and a list of blocks.  The nodes of these *)
(* lists come from the same heap as those of the list of threads, which    *)
(* pm.c changes with the same operations.                                  *)
(***************************************************************************)
EXTENDS LinkedList

CONSTANTS
  RAMDISK_BLOCKSIZE,  \* in characters
  Lengths,            \* of the texts that are written
  MaxNodes,           \* bound on the nodes that are allocated
  MaxEarly,           \* and on those when there is one not for a file
  MaxWrites           \* bound on the number of writes

VARIABLES
  nodes,              \* the memory of the nodes
  threads,            \* head of the list of pm.c
  disk_head,          \* head of the root directory
  descs,              \* the descriptors of the files
  blocks,             \* the blocks of the files; the first is at address 0
  wrote               \* history: the writes

vars == <<nodes, threads, disk_head, descs, blocks, wrote>>

ASSUME RamdiskAssumption ==
  /\ RAMDISK_BLOCKSIZE \in Nat \ {0}
  /\ Lengths \subseteq Nat \ {0}
  /\ MaxNodes \in Nat \ {0} /\ MaxEarly \in 0 .. MaxNodes /\ MaxWrites \in Nat

RAMDISK_FILE == 9
RAMDISK_DIRECTORY == 1

(* A character is 0, one of the k-th text, or what was there before.       *)
NUL == 0
Junk == -1
Text(k, length) == [i \in 1 .. length |-> 10 * k + i]

(* kmalloc clears no page; the nodes come from the heap, which does.       *)
Leftovers == {[i \in 1 .. RAMDISK_BLOCKSIZE |-> char] : char \in {NUL, Junk}}
Room(n) == Len(nodes) + n <= MaxNodes
EarlyRoom(n) == Len(nodes) + n <= MaxEarly

Init ==
  /\ nodes = <<Node(0)>> /\ threads = 1
  /\ disk_head = NULL /\ descs = <<>>
  /\ \E low \in Leftovers : blocks = <<low>>
  /\ wrote = <<>>

----------------------------------------------------------------------------
(* The list of threads                                                     *)

OnlyNodes == UNCHANGED <<disk_head, descs, blocks, wrote>>

AddThread ==
  /\ EarlyRoom(1)
  /\ nodes' = list_add_node(nodes, threads, 0)
  /\ UNCHANGED threads /\ OnlyNodes

AddChild ==
  /\ EarlyRoom(1) /\ MayHaveChild(nodes, threads)
  /\ nodes' = list_add_child(nodes, threads, 0)
  /\ UNCHANGED threads /\ OnlyNodes

(* proc_kill removes the head, of a list that has more than one node.      *)
RemoveThread ==
  \E index \in 0 .. Len(Chain(nodes, threads)) - 1 :
    LET removed == list_remove_node(nodes, threads, index)
    IN  /\ Len(Chain(nodes, threads)) > 1
        /\ nodes' = removed.m /\ threads' = removed.head
        /\ OnlyNodes

MoveToEnd ==
  LET moved == list_move_to_end(nodes, threads)
  IN  nodes' = moved.m /\ threads' = moved.head /\ OnlyNodes

TestList ==
  /\ EarlyRoom(3) /\ nodes' = test_list(nodes)
  /\ UNCHANGED threads /\ OnlyNodes

----------------------------------------------------------------------------
(* The ram disk                                                            *)

(* load_ramdisk prints the list of modules, and makes the root directory.  *)
load_ramdisk ==
  /\ disk_head = NULL /\ Room(1)
  /\ nodes' = Append(nodes, Node(0))
  /\ disk_head' = Len(nodes) + 1
  /\ UNCHANGED <<threads, descs, blocks, wrote>>

create_rd_file(type) ==
  LET added == list_add_node(nodes, disk_head, type)
      file  == list_access_node(added, disk_head, NewIndex(nodes, disk_head))
      head  == [Node(0) EXCEPT !.data = IF type = RAMDISK_FILE THEN Len(blocks) ELSE NULL]
  IN  /\ disk_head # NULL /\ Room(2)
      /\ nodes' = Append([added EXCEPT ![file].data = Len(descs) + 1], head)
      /\ descs' = Append(descs, [type |-> type, file_head |-> Len(added) + 1])
      /\ IF type = RAMDISK_FILE
         THEN \E left \in Leftovers : blocks' = Append(blocks, left)
         ELSE UNCHANGED blocks
      /\ UNCHANGED <<threads, disk_head, wrote>>

(* The block at an address, and where its text ends, if it does.           *)
Block(b, address) == b[address + 1]
Ends(block) == \E i \in DOMAIN block : block[i] = NUL
FirstNul(block) ==
  (CHOOSE i \in DOMAIN block :
     block[i] = NUL /\ \A j \in 1 .. i - 1 : block[j] # NUL) - 1

(* An appending write begins at the first NUL of the last block, or at the *)
(* start of that block if there is none.                                   *)
BeginsBehind(block) == IF Ends(block) THEN FirstNul(block) + 1 ELSE 0
Begins(block) == IF Ends(block) THEN FirstNul(block) ELSE 0

(* How many blocks a write from an offset has gone through at its i-th     *)
(* character, and which place of a block the character goes to.            *)
Turn(offset, i) == (offset + i - 1) \div RAMDISK_BLOCKSIZE
Place(offset, i) == 1 + ((offset + i - 1) % RAMDISK_BLOCKSIZE)

(* Each time a block is full a node is added at the end of the list.       *)
Grown(head, n) ==
  LET added[i \in 0 .. n] ==
        IF i = 0 THEN nodes ELSE list_add_node(added[i - 1], head, 0)
  IN  added[n]

(* The new block goes to the node behind the present one, which need not   *)
(* be the new one: to those that follow the node where the write begins.   *)
Follows(chain, at, n, a) == {turn \in 1 .. n : chain[at + turn] = a}
Filled(m, chain, at, n) ==
  [a \in DOMAIN m |->
     IF Follows(chain, at, n, a) = {} THEN m[a]
     ELSE [m[a] EXCEPT !.data =
             Len(blocks) - 1 + (CHOOSE turn \in Follows(chain, at, n, a) : TRUE)]]

(* The block at an address after a text was written into the one at start  *)
(* and then into new ones.                                                 *)
Goes(start, offset, i) ==
  IF Turn(offset, i) = 0 THEN start ELSE Len(blocks) + Turn(offset, i) - 1
Hits(text, start, offset, address, p) ==
  {i \in DOMAIN text : Goes(start, offset, i) = address /\ Place(offset, i) = p}
Written(text, start, offset, address, old) ==
  [p \in 1 .. RAMDISK_BLOCKSIZE |->
     IF Hits(text, start, offset, address, p) = {} THEN old[p]
     ELSE text[CHOOSE i \in Hits(text, start, offset, address, p) : TRUE]]

write_rd_file(file, length, append) ==
  LET head   == descs[file].file_head
      chain  == Chain(nodes, head)
      at     == IF append THEN Len(chain) ELSE 1
      start  == nodes[chain[at]].data
      offset == IF append THEN Begins(Block(blocks, start)) ELSE 0
      growth == Turn(offset, length)
      text   == Text(Len(wrote) + 1, length)
      grown  == Grown(head, growth)
  IN  /\ descs[file].type # RAMDISK_DIRECTORY
      /\ Len(wrote) < MaxWrites /\ Room(growth)
      /\ nodes' = Filled(grown, Chain(grown, head), at, growth)
      /\ \E left \in Leftovers :
           blocks' = [b \in 1 .. Len(blocks) + growth |->
                        Written(text, start, offset, b - 1,
                                IF b \in DOMAIN blocks THEN blocks[b] ELSE left)]
      /\ wrote' = Append(wrote, [file |-> file, text |-> text, append |-> append])
      /\ UNCHANGED <<threads, disk_head, descs>>

Next ==
  \/ AddThread \/ AddChild \/ RemoveThread \/ MoveToEnd \/ TestList
  \/ load_ramdisk
  \/ \E type \in {RAMDISK_FILE, RAMDISK_DIRECTORY} : create_rd_file(type)
  \/ \E file \in DOMAIN descs, length \in Lengths, append \in BOOLEAN :
       write_rd_file(file, length, append)

Spec == Init /\ [][Next]_vars

----------------------------------------------------------------------------
(* Properties                                                              *)

Heads ==
  {threads} \cup {descs[f].file_head : f \in DOMAIN descs}
    \cup (IF disk_head = NULL THEN {} ELSE {disk_head})
    \cup {nodes[a].child : a \in {b \in DOMAIN nodes : nodes[b].child # NULL}}

(* Every list comes to an end, no node is in two of them, and no block has *)
(* two nodes: the lists that share the heap do not get into each other,    *)
(* whatever is added, removed and moved (list.c, write_rd_file).           *)
ListsApart ==
  /\ \A head \in Heads :
       LET chain == Chain(nodes, head)
       IN  nodes[Last(chain)].next = NULL /\ IsInjective(chain)
  /\ \A h1, h2 \in Heads :
       h1 # h2 => Range(Chain(nodes, h1)) \cap Range(Chain(nodes, h2)) = {}
  /\ \A f1, f2 \in DOMAIN descs :
       \A a1 \in Range(Chain(nodes, descs[f1].file_head)),
          a2 \in Range(Chain(nodes, descs[f2].file_head)) :
         a1 # a2 => nodes[a1].data # nodes[a2].data \/ nodes[a1].data = NULL

FileOf(f) == Chain(nodes, descs[f].file_head)
Lacks(f) == \E a \in Range(FileOf(f)) : nodes[a].data = NULL
Contents(f) ==
  FlattenSeq([i \in DOMAIN FileOf(f) |-> Block(blocks, nodes[FileOf(f)[i]].data)])

LastBlock(f) == Block(blocks, nodes[Last(FileOf(f))].data)
Visible(f) ==
  SubSeq(Contents(f), 1,
         (Len(FileOf(f)) - 1) * RAMDISK_BLOCKSIZE + FirstNul(LastBlock(f)))

(* After an overwriting write the file begins with the text; after an      *)
(* appending one with what it showed before, if that had an end, and the   *)
(* text; no other file changes.  This is so unless a write over a file of  *)
(* several blocks has left it with a node that has none.                   *)
WritesShown ==
  [][\A f \in DOMAIN descs :
       wrote' # wrote /\ ~Lacks(f) =>
         LET w == Last(wrote')
         IN  IF f # w.file THEN Contents(f)' = Contents(f)
             ELSE IF ~w.append THEN IsPrefix(w.text, Contents(f)')
             ELSE Ends(LastBlock(f)) => IsPrefix(Visible(f) \o w.text, Contents(f)')]_vars

(* The lists behave as sequences.                                          *)
Lists ==
  INSTANCE NodeLists WITH
    Nodes <- 1 .. MaxNodes,
    threads <- Chain(nodes, threads),
    root <- IF disk_head = NULL THEN <<>> ELSE Chain(nodes, disk_head),
    files <- [f \in DOMAIN descs |-> FileOf(f)]

ImplementsNodeLists == Lists!Spec

============================================================================
