--------------------------- MODULE RamdiskProofs ---------------------------
(***************************************************************************)
(* Theorems about the linked lists and the boot ram disk: the lists stay   *)
(* lists and apart, behave as sequences, and files show what was written.  *)
(***************************************************************************)
EXTENDS Ramdisk, WellFoundedInduction, TLAPS

----------------------------------------------------------------------------
(* Recursive functions.  Two that start alike and go on alike are alike.   *)

LEMMA LeastExists ==
  ASSUME NEW S \in SUBSET Nat, S # {}
  PROVE  \E x \in S : \A y \in S : x <= y
<1> DEFINE R == OpToRel(<, Nat)
<1>1. IsWellFoundedOn(R, Nat)
  BY NatLessThanWellFounded
<1>2. \A x, y \in Nat : <<y, x>> \in R <=> y < x
  BY DEF OpToRel
<1> HIDE DEF R
<1>3. PICK x \in S : \A y \in S : ~(<<y, x>> \in R)
  BY <1>1, WFMin
<1>4. \A y \in S : x <= y
  <2> TAKE y \in S
  <2>1. x \in Nat /\ y \in Nat
    OBVIOUS
  <2>2. ~(y < x)
    BY <1>2, <1>3, <2>1, Zenon
  <2> QED BY <2>1, <2>2
<1> QED BY <1>4

GoAlike(f, g, lo, n) ==
  /\ f[lo] = g[lo]
  /\ \A k \in lo .. n : k # lo /\ f[k - 1] = g[k - 1] => f[k] = g[k]

LEMMA SameFunction ==
  ASSUME NEW lo \in Nat, NEW n \in Nat, NEW f, NEW g, GoAlike(f, g, lo, n)
  PROVE  \A k \in lo .. n : f[k] = g[k]
<1> USE DEF GoAlike
<1> DEFINE differ == {k \in lo .. n : f[k] # g[k]}
<1>1. SUFFICES ASSUME differ # {} PROVE FALSE
  OBVIOUS
<1>2. differ \in SUBSET Nat
  OBVIOUS
<1>3. PICK k \in differ : \A j \in differ : k <= j
  <2> HIDE DEF differ
  <2> QED BY <1>1, <1>2, LeastExists
<1>4. k \in lo .. n /\ k # lo /\ f[k] # g[k]
  OBVIOUS
<1>5. k - 1 \in lo .. n /\ ~(k <= k - 1)
  BY <1>4
<1>6. f[k - 1] = g[k - 1]
  BY <1>3, <1>5
<1> QED BY <1>4, <1>6

----------------------------------------------------------------------------
(* Chains.  A path is what Chain finds, if there is one.                   *)

NodeRecords == [val : Nat, data : Nat, child : Nat, next : Nat]
Memory == Seq(NodeRecords)

IsPath(m, p) ==
  /\ p \in Seq(DOMAIN m) /\ p # <<>> /\ Len(p) <= Len(m)
  /\ \A i \in 1 .. Len(p) - 1 : m[p[i]].next = p[i + 1]
  /\ m[p[Len(p)]].next = NULL

(* Where the walk along p is after k steps.                                *)
Walked(p, k) == IF k < Len(p) THEN SubSeq(p, 1, k + 1) ELSE p

Further(m) ==
  [walked \in Seq(DOMAIN m) |->
     IF m[Last(walked)].next = NULL THEN walked
     ELSE Append(walked, m[Last(walked)].next)]

LEMMA WalkedFurther ==
  ASSUME NEW m \in Memory, NEW p, IsPath(m, p), NEW k \in 1 .. Len(m)
  PROVE  Walked(p, k) = Further(m)[Walked(p, k - 1)]
<1>1. Len(m) \in Nat /\ DOMAIN m = 1 .. Len(m) /\ NULL \notin DOMAIN m
  BY DEF Memory, NULL
<1>2. /\ p \in Seq(DOMAIN m) /\ p # <<>> /\ Len(p) \in Nat /\ Len(p) > 0
      /\ m[p[Len(p)]].next = NULL
      /\ \A i \in 1 .. Len(p) - 1 : m[p[i]].next = p[i + 1]
  BY DEF IsPath
<1>3. CASE k < Len(p)
  <2>1. Walked(p, k) = SubSeq(p, 1, k + 1) /\ Walked(p, k - 1) = SubSeq(p, 1, k)
    BY <1>2, <1>3 DEF Walked
  <2>2. SubSeq(p, 1, k) \in Seq(DOMAIN m) /\ Last(SubSeq(p, 1, k)) = p[k]
    BY <1>2, <1>3 DEF Last
  <2>3. m[p[k]].next = p[k + 1] /\ p[k + 1] # NULL
    BY <1>1, <1>2, <1>3
  <2>4. SubSeq(p, 1, k + 1) = Append(SubSeq(p, 1, k), p[k + 1])
    BY <1>2, <1>3
  <2>5. Further(m)[SubSeq(p, 1, k)] = Append(SubSeq(p, 1, k), p[k + 1])
    BY <2>2, <2>3 DEF Further
  <2> QED BY <2>1, <2>4, <2>5
<1>4. CASE k >= Len(p)
  <2>1. SubSeq(p, 1, Len(p)) = p
    BY <1>2
  <2>2. Walked(p, k) = p /\ Walked(p, k - 1) = p
    <3>1. Walked(p, k) = p
      BY <1>2, <1>4 DEF Walked
    <3>2. CASE k = Len(p)
      <4>1. k - 1 < Len(p) /\ k - 1 + 1 = Len(p)
        BY <1>2, <3>2
      <4>2. Walked(p, k - 1) = SubSeq(p, 1, k - 1 + 1)
        BY <4>1 DEF Walked
      <4> QED BY <2>1, <3>1, <4>1, <4>2
    <3>3. CASE k > Len(p)
      BY <1>2, <3>1, <3>3 DEF Walked
    <3> QED BY <1>2, <1>4, <3>2, <3>3
  <2>3. Further(m)[p] = p
    BY <1>2 DEF Further, Last
  <2> QED BY <2>2, <2>3
<1> QED BY <1>2, <1>3, <1>4

LEMMA ChainIs ==
  ASSUME NEW m \in Memory, NEW p, IsPath(m, p)
  PROVE  Chain(m, p[1]) = p
<1>1. Len(m) \in Nat
  BY DEF Memory
<1>2. /\ Len(p) \in Nat \ {0} /\ Len(p) <= Len(m) /\ p \in Seq(DOMAIN m)
      /\ SubSeq(p, 1, 1) = <<p[1]>> /\ SubSeq(p, 1, Len(p)) = p
  <2>1. p \in Seq(DOMAIN m) /\ p # <<>> /\ Len(p) <= Len(m)
    BY DEF IsPath
  <2>2. Len(p) \in Nat \ {0}
    BY <2>1
  <2>3. SubSeq(p, 1, 1) = <<p[1]>>
    <3>1. SubSeq(p, 1, 1) = [i \in 1 .. 1 |-> p[i]]
      BY <2>1, <2>2
    <3>2. <<p[1]>> = [i \in 1 .. 1 |-> p[i]]
      OBVIOUS
    <3> QED BY <3>1, <3>2
  <2>4. SubSeq(p, 1, Len(p)) = p
    BY <2>1
  <2> QED BY <2>1, <2>2, <2>3, <2>4
<1> DEFINE Walk(f) == [k \in 0 .. Len(m) |->
                         IF k = 0 THEN <<p[1]>> ELSE Further(m)[f[k - 1]]]
           way == CHOOSE f : f = Walk(f)
           found == [k \in 0 .. Len(m) |-> Walked(p, k)]
<1>3. Chain(m, p[1]) = way[Len(m)]
  BY DEF Chain, Further
<1>4. found = Walk(found)
  <2> SUFFICES ASSUME NEW k \in 0 .. Len(m)
      PROVE  Walked(p, k) = IF k = 0 THEN <<p[1]>> ELSE Further(m)[found[k - 1]]
    OBVIOUS
  <2>1. CASE k = 0
    BY <1>2, <2>1 DEF Walked
  <2>2. CASE k # 0
    <3>1. k \in 1 .. Len(m) /\ found[k - 1] = Walked(p, k - 1)
      BY <1>1, <2>2
    <3> QED BY <2>2, <3>1, WalkedFurther
  <2> QED BY <2>1, <2>2
<1>5. way = Walk(way)
  <2> HIDE DEF Walk, found
  <2> QED BY <1>4
<1>6. way[0] = found[0]
  <2>1. way[0] = <<p[1]>>
    <3> HIDE DEF way
    <3> QED BY <1>1, <1>5
  <2>2. found[0] = <<p[1]>>
    BY <1>1, <1>2 DEF Walked
  <2> QED BY <2>1, <2>2
<1>7. \A k \in 0 .. Len(m) : k # 0 /\ way[k - 1] = found[k - 1] => way[k] = found[k]
  <2> SUFFICES ASSUME NEW k \in 0 .. Len(m), k # 0
      PROVE  way[k - 1] = found[k - 1] => way[k] = found[k]
    OBVIOUS
  <2>1. way[k] = Further(m)[way[k - 1]]
    <3> HIDE DEF way
    <3> QED BY <1>1, <1>5
  <2>2. found[k] = Further(m)[found[k - 1]]
    <3> HIDE DEF found
    <3> QED BY <1>1, <1>4
  <2> QED BY <2>1, <2>2
<1>8. way[Len(m)] = found[Len(m)]
  <2> HIDE DEF way, found
  <2>1. PICK n \in Nat : n = Len(m)
    BY <1>1
  <2>2. \A k \in 0 .. n : k # 0 /\ way[k - 1] = found[k - 1] => way[k] = found[k]
    BY <1>7, <2>1
  <2>3. \A k \in 0 .. n : way[k] = found[k]
    <3>1. PICK f, g : f = way /\ g = found
      OBVIOUS
    <3>2. PICK lo \in Nat : lo = 0
      OBVIOUS
    <3>3. GoAlike(f, g, lo, n)
      BY <1>6, <2>2, <3>1, <3>2 DEF GoAlike
    <3>4. \A k \in lo .. n : f[k] = g[k]
      BY <3>3, SameFunction
    <3> QED BY <3>1, <3>2, <3>4
  <2> QED BY <2>1, <2>3
<1>9. found[Len(m)] = p
  <2>1. found[Len(m)] = Walked(p, Len(m)) /\ ~(Len(m) < Len(p))
    BY <1>1, <1>2
  <2> QED BY <2>1 DEF Walked
<1> QED BY <1>3, <1>8, <1>9

----------------------------------------------------------------------------
(* The invariant                                                           *)

IsList(m, h) ==
  IsPath(m, Chain(m, h)) /\ Chain(m, h)[1] = h /\ IsInjective(Chain(m, h))

On(m, h) == Range(Chain(m, h))

Apart(m, H) ==
  /\ \A h \in H : IsList(m, h)
  /\ \A h, k \in H : h # k => On(m, h) \cap On(m, k) = {}

TypeInv ==
  /\ nodes \in Memory /\ Len(nodes) \in 1 .. MaxNodes
  /\ threads \in DOMAIN nodes /\ disk_head \in DOMAIN nodes \cup {NULL}
  /\ descs \in Seq([type : {RAMDISK_FILE, RAMDISK_DIRECTORY}, file_head : Nat])
  /\ blocks \in Seq([1 .. RAMDISK_BLOCKSIZE -> Int]) /\ blocks # <<>>
  /\ wrote \in Seq([file : Nat, text : Seq(Int), append : BOOLEAN])

(* No node is the head of two of the lists: threads, the root directory,   *)
(* the files, the children of a thread.                                    *)
FileHead(f) == descs[f].file_head
FileHeads == {FileHead(f) : f \in DOMAIN descs}
DiskHeads == {disk_head} \ {NULL}
Children(m) == {m[a].child : a \in DOMAIN m} \ {NULL}
RolesApart ==
  /\ threads # disk_head
  /\ threads \notin FileHeads /\ disk_head \notin FileHeads
  /\ \A f, g \in DOMAIN descs : f # g => FileHead(f) # FileHead(g)
  /\ Children(nodes) \cap ({threads, disk_head} \cup FileHeads) = {}

(* The nodes of files have blocks, if any, of their own.                   *)
DataInv ==
  /\ \A f \in DOMAIN descs : \A a \in On(nodes, FileHead(f)) :
       nodes[a].data \in 0 .. Len(blocks) - 1
  /\ \A f, g \in DOMAIN descs :
       \A a \in On(nodes, FileHead(f)), b \in On(nodes, FileHead(g)) :
         a # b => nodes[a].data # nodes[b].data \/ nodes[a].data = NULL

RamdiskInv == TypeInv /\ Apart(nodes, Heads) /\ RolesApart /\ DataInv
----------------------------------------------------------------------------
(* Lists and the memory they are in                                        *)

LEMMA MemoryType ==
  ASSUME NEW m \in Memory
  PROVE  /\ Len(m) \in Nat /\ DOMAIN m = 1 .. Len(m) /\ NULL \notin DOMAIN m
         /\ \A a \in DOMAIN m : /\ m[a] \in NodeRecords /\ m[a].next \in Nat
                                /\ m[a].data \in Nat /\ m[a].child \in Nat
<1>1. Len(m) \in Nat /\ DOMAIN m = 1 .. Len(m) /\ NULL \notin DOMAIN m
  BY DEF Memory, NULL
<1>2. \A a \in DOMAIN m : m[a] \in NodeRecords
  BY DEF Memory
<1> QED BY <1>1, <1>2 DEF NodeRecords

LEMMA PathType ==
  ASSUME NEW m \in Memory, NEW p, IsPath(m, p)
  PROVE  /\ p \in Seq(DOMAIN m) /\ Len(p) \in Nat \ {0} /\ Len(p) <= Len(m)
         /\ DOMAIN p = 1 .. Len(p)
         /\ \A i \in 1 .. Len(p) : p[i] \in DOMAIN m /\ p[i] \in Nat \ {0}
         /\ p[1] \in DOMAIN m /\ p[Len(p)] \in DOMAIN m
         /\ Last(p) = p[Len(p)] /\ Range(p) \subseteq DOMAIN m
         /\ Range(p) = {p[i] : i \in 1 .. Len(p)}
<1>1. /\ p \in Seq(DOMAIN m) /\ p # <<>> /\ Len(p) <= Len(m)
  BY DEF IsPath
<1>2. Len(p) \in Nat \ {0} /\ DOMAIN p = 1 .. Len(p)
  BY <1>1
<1>3. \A i \in 1 .. Len(p) : p[i] \in DOMAIN m
  BY <1>1
<1>4. DOMAIN m \subseteq Nat \ {0}
  BY MemoryType
<1>5. Range(p) = {p[i] : i \in 1 .. Len(p)}
  BY <1>2 DEF Range
<1>6. 1 \in 1 .. Len(p) /\ Len(p) \in 1 .. Len(p)
  BY <1>2
<1> QED BY <1>1, <1>2, <1>3, <1>4, <1>5, <1>6 DEF Last

LEMMA ListIs ==
  ASSUME NEW m \in Memory, NEW p, IsPath(m, p), IsInjective(p)
  PROVE  IsList(m, p[1]) /\ Chain(m, p[1]) = p /\ On(m, p[1]) = Range(p)
  BY ChainIs DEF IsList, On

LEMMA ListType ==
  ASSUME NEW m \in Memory, NEW h, IsList(m, h)
  PROVE  /\ IsPath(m, Chain(m, h)) /\ IsInjective(Chain(m, h))
         /\ Chain(m, h)[1] = h /\ h \in DOMAIN m
         /\ h \in On(m, h) /\ On(m, h) \subseteq DOMAIN m
<1>1. IsPath(m, Chain(m, h)) /\ IsInjective(Chain(m, h)) /\ Chain(m, h)[1] = h
  BY DEF IsList
<1>2. PICK p : p = Chain(m, h)
  OBVIOUS
<1>3. /\ p[1] \in DOMAIN m /\ Range(p) \subseteq DOMAIN m
      /\ Len(p) \in Nat \ {0} /\ Range(p) = {p[i] : i \in 1 .. Len(p)}
  <2>1. IsPath(m, p)
    BY <1>1, <1>2
  <2> QED BY <2>1, PathType
<1>4. p[1] \in Range(p)
  BY <1>3
<1> QED BY <1>1, <1>2, <1>3, <1>4 DEF On

(* A change of the memory that leaves a path alone.                        *)
LEMMA PathKept ==
  ASSUME NEW m \in Memory, NEW m2 \in Memory, Len(m) <= Len(m2),
         NEW p, IsPath(m, p),
         \A i \in 1 .. Len(p) : m2[p[i]].next = m[p[i]].next
  PROVE  IsPath(m2, p)
<1>1. /\ Len(m) \in Nat /\ Len(m2) \in Nat
      /\ DOMAIN m = 1 .. Len(m) /\ DOMAIN m2 = 1 .. Len(m2)
  BY MemoryType
<1>2. DOMAIN m \subseteq DOMAIN m2
  BY <1>1
<1>3. /\ p \in Seq(DOMAIN m) /\ p # <<>> /\ Len(p) <= Len(m)
      /\ m[p[Len(p)]].next = NULL /\ Len(p) \in Nat \ {0}
  BY PathType DEF IsPath
<1>4. p \in Seq(DOMAIN m2)
  BY <1>2, <1>3
<1>5. \A i \in 1 .. Len(p) - 1 : m2[p[i]].next = p[i + 1]
  <2> TAKE i \in 1 .. Len(p) - 1
  <2>1. i \in 1 .. Len(p)
    BY <1>3
  <2> QED BY <2>1 DEF IsPath
<1>6. m2[p[Len(p)]].next = NULL
  BY <1>3
<1>7. Len(p) <= Len(m2)
  BY <1>1, <1>3
<1> QED BY <1>3, <1>4, <1>5, <1>6, <1>7 DEF IsPath

LEMMA ListKept ==
  ASSUME NEW m \in Memory, NEW m2 \in Memory, Len(m) <= Len(m2),
         NEW h, IsList(m, h),
         \A a \in On(m, h) : m2[a].next = m[a].next
  PROVE  IsList(m2, h) /\ Chain(m2, h) = Chain(m, h) /\ On(m2, h) = On(m, h)
<1>1. PICK p : p = Chain(m, h)
  OBVIOUS
<1>2. IsPath(m, p) /\ IsInjective(p) /\ p[1] = h
  BY <1>1 DEF IsList
<1>3. \A i \in 1 .. Len(p) : p[i] \in On(m, h)
  BY <1>1, <1>2, PathType DEF On
<1>4. IsPath(m2, p)
  BY <1>2, <1>3, PathKept
<1>5. IsList(m2, p[1]) /\ Chain(m2, p[1]) = p /\ On(m2, p[1]) = Range(p)
  BY <1>2, <1>4, ListIs
<1> QED BY <1>1, <1>2, <1>5 DEF On

(* Some nodes, S, change their next; of the lists of H those that have     *)
(* none of them stay as they are, and the others make room for those of N. *)
Rearranged(m, m2, H, H2, S, C, N) ==
  /\ m \in Memory /\ m2 \in Memory /\ Len(m) <= Len(m2) /\ Apart(m, H)
  /\ \A a \in DOMAIN m : a \notin S => m2[a].next = m[a].next
  /\ \A h \in H : h \notin C => On(m, h) \cap S = {}
  /\ H2 \subseteq (H \ C) \cup N
  /\ \A h \in N : IsList(m2, h) /\ On(m2, h) \cap DOMAIN m \subseteq S
  /\ \A h, k \in N : h # k => On(m2, h) \cap On(m2, k) = {}

Kept(m, m2, K) ==
  \A h \in K : Chain(m2, h) = Chain(m, h) /\ On(m2, h) = On(m, h)

LEMMA ListsStep ==
  ASSUME NEW m, NEW m2, NEW H, NEW H2, NEW S, NEW C, NEW N,
         Rearranged(m, m2, H, H2, S, C, N)
  PROVE  Apart(m2, H2) /\ Kept(m, m2, H \ C)
<1> USE DEF Rearranged
<1>1. \A h \in H \ C : /\ IsList(m2, h) /\ Chain(m2, h) = Chain(m, h)
                       /\ On(m2, h) = On(m, h) /\ On(m, h) \subseteq DOMAIN m
                       /\ On(m, h) \cap S = {}
  <2> TAKE h \in H \ C
  <2>1. IsList(m, h) /\ On(m, h) \cap S = {}
    BY DEF Apart
  <2>2. On(m, h) \subseteq DOMAIN m
    BY <2>1, ListType
  <2>3. \A a \in On(m, h) : m2[a].next = m[a].next
    BY <2>1, <2>2
  <2> QED BY <2>1, <2>2, <2>3, ListKept
<1>2. \A h \in H2 : IsList(m2, h)
  BY <1>1
<1>3. \A h \in H \ C : \A k \in N : On(m2, h) \cap On(m2, k) = {}
  BY <1>1
<1>4. \A h, k \in H \ C : h # k => On(m2, h) \cap On(m2, k) = {}
  BY <1>1 DEF Apart
<1>5. \A h, k \in H2 : h # k => On(m2, h) \cap On(m2, k) = {}
  BY <1>3, <1>4
<1> QED BY <1>1, <1>2, <1>5 DEF Apart, Kept

----------------------------------------------------------------------------
(* Nodes are added at the end of a path                                    *)

(* The path p and n new nodes.                                             *)
Longer(m, p, n) == p \o [k \in 1 .. n |-> Len(m) + k]

GrownBy(m, m2, p, n) ==
  /\ m2 \in Memory /\ Len(m2) = Len(m) + n
  /\ \A a \in DOMAIN m : /\ m2[a].data = m[a].data /\ m2[a].child = m[a].child
                         /\ a # p[Len(p)] => m2[a].next = m[a].next
  /\ m2[p[Len(p)]].next = IF n = 0 THEN NULL ELSE Len(m) + 1
  /\ \A k \in 1 .. n :
       /\ m2[Len(m) + k].data = NULL /\ m2[Len(m) + k].child = NULL
       /\ m2[Len(m) + k].next = IF k = n THEN NULL ELSE Len(m) + k + 1

IsLonger(m, p, n, q) ==
  /\ q \in Seq(Nat) /\ Len(q) = Len(p) + n
  /\ \A i \in 1 .. Len(p) : q[i] = p[i]
  /\ \A i \in Len(p) + 1 .. Len(p) + n : q[i] = Len(m) + (i - Len(p))

LEMMA LongerType ==
  ASSUME NEW m \in Memory, NEW p, IsPath(m, p), NEW n \in Nat
  PROVE  IsLonger(m, p, n, Longer(m, p, n))
<1> PICK q : q = Longer(m, p, n)
  OBVIOUS
<1> DEFINE news == [k \in 1 .. n |-> Len(m) + k]
<1>1. Len(m) \in Nat
  BY MemoryType
<1>2. news \in Seq(Nat) /\ Len(news) = n
  BY <1>1
<1>3. \A k \in 1 .. n : news[k] = Len(m) + k
  OBVIOUS
<1>4. p \in Seq(Nat) /\ Len(p) \in Nat
  <2>1. p \in Seq(DOMAIN m) /\ DOMAIN m \subseteq Nat
    BY PathType, MemoryType
  <2> QED BY <2>1
<1>5. q = p \o news
  BY DEF Longer
<1> HIDE DEF news
<1>6. q \in Seq(Nat) /\ Len(q) = Len(p) + n
  <2>1. p \o news \in Seq(Nat) /\ Len(p \o news) = Len(p) + Len(news)
    BY <1>2, <1>4
  <2> QED BY <1>2, <1>5, <2>1
<1>7. \A i \in 1 .. Len(p) : q[i] = p[i]
  BY <1>2, <1>4, <1>5
<1>8. \A i \in Len(p) + 1 .. Len(p) + n : q[i] = Len(m) + (i - Len(p))
  <2> TAKE i \in Len(p) + 1 .. Len(p) + n
  <2>1. i - Len(p) \in 1 .. n
    BY <1>4
  <2>2. (p \o news)[i] = news[i - Len(p)]
    BY <1>2, <1>4
  <2> QED BY <1>3, <1>5, <2>1, <2>2
<1>9. IsLonger(m, p, n, q)
  BY <1>6, <1>7, <1>8 DEF IsLonger
<1> QED BY <1>9

LEMMA GrowthPath ==
  ASSUME NEW m \in Memory, NEW p, IsPath(m, p), IsInjective(p),
         NEW n \in Nat, NEW m2, GrownBy(m, m2, p, n)
  PROVE  /\ IsPath(m2, Longer(m, p, n)) /\ IsInjective(Longer(m, p, n))
         /\ Range(Longer(m, p, n)) = Range(p) \cup Len(m) + 1 .. Len(m) + n
<1>1. Len(m) \in Nat /\ DOMAIN m = 1 .. Len(m)
  BY MemoryType
<1>2. Len(p) \in Nat \ {0} /\ Len(p) <= Len(m)
  BY PathType
<1>3. DOMAIN p = 1 .. Len(p) /\ Range(p) = {p[i] : i \in 1 .. Len(p)}
  BY PathType
<1>4. \A i \in 1 .. Len(p) : p[i] \in 1 .. Len(m)
  BY <1>1, PathType
<1>5. \A i, j \in 1 .. Len(p) : p[i] = p[j] => i = j
  BY <1>3 DEF IsInjective
<1>6. /\ m2 \in Memory /\ Len(m2) = Len(m) + n /\ DOMAIN m2 = 1 .. Len(m) + n
      /\ m2[p[Len(p)]].next = IF n = 0 THEN NULL ELSE Len(m) + 1
      /\ \A k \in 1 .. n :
           m2[Len(m) + k].next = IF k = n THEN NULL ELSE Len(m) + k + 1
  BY MemoryType DEF GrownBy
<1>7. \A i \in 1 .. Len(p) - 1 : m2[p[i]].next = p[i + 1]
  <2> TAKE i \in 1 .. Len(p) - 1
  <2>1. i \in 1 .. Len(p) /\ i # Len(p)
    BY <1>2
  <2>2. Len(p) \in 1 .. Len(p)
    BY <1>2
  <2>3. p[i] # p[Len(p)] /\ p[i] \in DOMAIN m
    BY <1>1, <1>4, <1>5, <2>1, <2>2
  <2>4. m2[p[i]].next = m[p[i]].next
    BY <2>3 DEF GrownBy
  <2> QED BY <2>4 DEF IsPath
<1>8. PICK q : q = Longer(m, p, n)
  OBVIOUS
<1>9. /\ q \in Seq(Nat) /\ Len(q) = Len(p) + n
      /\ \A i \in 1 .. Len(p) : q[i] = p[i]
      /\ \A i \in Len(p) + 1 .. Len(p) + n : q[i] = Len(m) + (i - Len(p))
  <2>1. IsLonger(m, p, n, q)
    BY <1>8, LongerType
  <2> QED BY <2>1 DEF IsLonger
<1>10. \A i \in 1 .. Len(q) : \/ i \in 1 .. Len(p) /\ q[i] = p[i]
                              \/ i - Len(p) \in 1 .. n /\ q[i] = Len(m) + (i - Len(p))
  <2> TAKE i \in 1 .. Len(q)
  <2>1. CASE i \in 1 .. Len(p)
    BY <1>9, <2>1
  <2>2. CASE i \notin 1 .. Len(p)
    <3>1. i - Len(p) \in 1 .. n /\ Len(p) + (i - Len(p)) = i
      BY <1>2, <1>9, <2>2
    <3>2. q[Len(p) + (i - Len(p))] = Len(m) + (i - Len(p))
      BY <1>9, <3>1
    <3> QED BY <3>1, <3>2
  <2> QED BY <2>1, <2>2
<1>11. \A i \in 1 .. Len(q) : q[i] \in 1 .. Len(m2)
  <2> TAKE i \in 1 .. Len(q)
  <2>1. CASE i \in 1 .. Len(p) /\ q[i] = p[i]
    <3>1. q[i] \in 1 .. Len(m)
      BY <1>4, <2>1
    <3> QED BY <1>1, <1>6, <3>1
  <2>2. CASE i - Len(p) \in 1 .. n /\ q[i] = Len(m) + (i - Len(p))
    BY <1>1, <1>6, <2>2
  <2> QED BY <1>10, <2>1, <2>2
<1>12. q \in Seq(DOMAIN m2) /\ q # <<>> /\ Len(q) <= Len(m2)
  BY <1>1, <1>2, <1>6, <1>9, <1>11
<1>13. \A i \in 1 .. Len(q) - 1 : m2[q[i]].next = q[i + 1]
  <2> TAKE i \in 1 .. Len(q) - 1
  <2>1. CASE i \in 1 .. Len(p) - 1
    <3>1. q[i] = p[i] /\ q[i + 1] = p[i + 1]
      BY <1>2, <1>9, <2>1
    <3> QED BY <1>7, <2>1, <3>1
  <2>2. CASE i = Len(p)
    <3>1. 1 \in 1 .. n /\ i \in 1 .. Len(p)
      BY <1>2, <1>9, <2>2
    <3>2. q[i] = p[Len(p)] /\ q[i + 1] = Len(m) + 1
      BY <1>9, <2>2, <3>1
    <3> QED BY <1>6, <3>1, <3>2
  <2>3. CASE i > Len(p)
    <3>1. PICK k \in 1 .. n - 1 : i = Len(p) + k
      <4>1. i - Len(p) \in 1 .. n - 1 /\ i = Len(p) + (i - Len(p))
        BY <1>2, <1>9, <2>3
      <4> QED BY <4>1
    <3>2. k \in 1 .. n /\ k + 1 \in 1 .. n /\ k # n /\ i + 1 = Len(p) + (k + 1)
      BY <1>2, <3>1
    <3>3. q[i] = Len(m) + k
      <4>1. i \in Len(p) + 1 .. Len(p) + n /\ i - Len(p) = k
        BY <1>2, <3>1, <3>2
      <4> QED BY <1>9, <4>1
    <3>4. q[i + 1] = Len(m) + (k + 1)
      <4>1. PICK j \in Len(p) + 1 .. Len(p) + n : j = i + 1
        BY <1>2, <3>2
      <4>2. q[j] = Len(m) + (j - Len(p))
        BY <1>9
      <4> QED BY <1>2, <3>2, <4>1, <4>2
    <3>5. m2[Len(m) + k].next = Len(m) + k + 1
      BY <1>6, <3>2
    <3> QED BY <1>1, <3>2, <3>3, <3>4, <3>5
  <2>4. i \in 1 .. Len(p) - 1 \/ i = Len(p) \/ i > Len(p)
    BY <1>2
  <2> QED BY <2>1, <2>2, <2>3, <2>4
<1>14. m2[q[Len(q)]].next = NULL
  <2>1. CASE n = 0
    <3>1. Len(q) = Len(p) /\ q[Len(q)] = p[Len(p)]
      BY <1>2, <1>9, <2>1
    <3> QED BY <1>6, <2>1, <3>1
  <2>2. CASE n # 0
    <3>1. n \in 1 .. n /\ Len(q) = Len(p) + n
      BY <1>9, <2>2
    <3>2. q[Len(q)] = Len(m) + n
      <4>1. Len(q) \in Len(p) + 1 .. Len(p) + n /\ Len(q) - Len(p) = n
        BY <1>2, <3>1
      <4> QED BY <1>9, <4>1
    <3> QED BY <1>6, <3>1, <3>2
  <2> QED BY <2>1, <2>2
<1>15. IsPath(m2, q)
  BY <1>12, <1>13, <1>14 DEF IsPath
<1>16. IsInjective(q)
  <2>1. DOMAIN q = 1 .. Len(q)
    BY <1>9
  <2>2. \A i, j \in 1 .. Len(q) : q[i] = q[j] => i = j
    <3> SUFFICES ASSUME NEW i \in 1 .. Len(q), NEW j \in 1 .. Len(q), q[i] = q[j]
        PROVE  i = j
      OBVIOUS
    <3>1. CASE i \in 1 .. Len(p) /\ j \in 1 .. Len(p)
      BY <1>5, <1>9, <3>1
    <3>2. CASE i \notin 1 .. Len(p) /\ j \notin 1 .. Len(p)
      BY <1>1, <1>2, <1>9, <1>10, <3>2
    <3>3. CASE i \in 1 .. Len(p) /\ j \notin 1 .. Len(p)
      BY <1>1, <1>4, <1>10, <3>3
    <3>4. CASE i \notin 1 .. Len(p) /\ j \in 1 .. Len(p)
      <4>1. q[j] \in 1 .. Len(m)
        BY <1>4, <1>9, <3>4
      <4>2. q[i] = Len(m) + (i - Len(p)) /\ i - Len(p) \in 1 .. n
        BY <1>10, <3>4
      <4> QED BY <1>1, <4>1, <4>2
    <3> QED BY <3>1, <3>2, <3>3, <3>4
  <2> QED BY <2>1, <2>2 DEF IsInjective
<1>17. Range(q) = Range(p) \cup Len(m) + 1 .. Len(m) + n
  <2>1. Range(q) = {q[i] : i \in 1 .. Len(q)}
    BY <1>9 DEF Range
  <2>2. Range(q) \subseteq Range(p) \cup Len(m) + 1 .. Len(m) + n
    <3> SUFFICES ASSUME NEW i \in 1 .. Len(q)
        PROVE  q[i] \in Range(p) \cup Len(m) + 1 .. Len(m) + n
      BY <2>1
    <3>1. CASE i \in 1 .. Len(p) /\ q[i] = p[i]
      BY <1>3, <3>1
    <3>2. CASE i - Len(p) \in 1 .. n /\ q[i] = Len(m) + (i - Len(p))
      BY <1>1, <3>2
    <3> QED BY <1>10, <3>1, <3>2
  <2>3. \A i \in 1 .. Len(p) : p[i] \in Range(q)
    <3> TAKE i \in 1 .. Len(p)
    <3>1. i \in 1 .. Len(q) /\ q[i] = p[i]
      BY <1>2, <1>9
    <3> QED BY <2>1, <3>1
  <2>4. \A a \in Len(m) + 1 .. Len(m) + n : a \in Range(q)
    <3> TAKE a \in Len(m) + 1 .. Len(m) + n
    <3>1. PICK k \in 1 .. n : a = Len(m) + k
      <4>1. a - Len(m) \in 1 .. n /\ a = Len(m) + (a - Len(m))
        BY <1>1
      <4> QED BY <4>1
    <3>2. q[Len(p) + k] = a
      <4>1. PICK j \in Len(p) + 1 .. Len(p) + n : j = Len(p) + k
        BY <1>2
      <4>2. q[j] = Len(m) + (j - Len(p))
        BY <1>9
      <4>3. j - Len(p) = k
        BY <1>2, <4>1
      <4> QED BY <3>1, <4>1, <4>2, <4>3
    <3>3. Len(p) + k \in 1 .. Len(q)
      BY <1>2, <1>9
    <3> QED BY <2>1, <3>2, <3>3
  <2> QED BY <1>3, <2>2, <2>3, <2>4
<1> QED BY <1>8, <1>15, <1>16, <1>17

(* One node is changed, or one is new. *)
IsReplaced(m, m2, a, r) ==
  /\ m2 \in Memory /\ Len(m2) = Len(m) /\ m2[a] = r
  /\ \A b \in DOMAIN m : b # a => m2[b] = m[b]

IsAppended(m, m2, r) ==
  /\ m2 \in Memory /\ Len(m2) = Len(m) + 1 /\ m2[Len(m) + 1] = r
  /\ \A b \in DOMAIN m : m2[b] = m[b]

LEMMA Replaced ==
  ASSUME NEW m \in Memory, NEW a \in DOMAIN m, NEW r \in NodeRecords
  PROVE  IsReplaced(m, [m EXCEPT ![a] = r], a, r)
  BY DEF IsReplaced, Memory

LEMMA Appended ==
  ASSUME NEW m \in Memory, NEW r \in NodeRecords
  PROVE  IsAppended(m, Append(m, r), r)
<1> PICK m2 : m2 = Append(m, r)
  OBVIOUS
<1>1. m \in Seq(NodeRecords) /\ Len(m) \in Nat /\ DOMAIN m = 1 .. Len(m)
  BY DEF Memory
<1>2. m2 \in Seq(NodeRecords) /\ Len(m2) = Len(m) + 1 /\ m2[Len(m) + 1] = r
  BY <1>1
<1>3. \A b \in DOMAIN m : m2[b] = m[b]
  BY <1>1
<1>4. IsAppended(m, m2, r)
  BY <1>2, <1>3 DEF IsAppended, Memory
<1> QED BY <1>4

LEMMA NodeType ==
  ASSUME NEW v \in Nat
  PROVE  /\ Node(v) \in NodeRecords
         /\ Node(v).next = NULL /\ Node(v).data = NULL /\ Node(v).child = NULL
  BY DEF Node, NodeRecords, NULL

LEMMA NextSet ==
  ASSUME NEW r \in NodeRecords, NEW x \in Nat
  PROVE  /\ [r EXCEPT !.next = x] \in NodeRecords
         /\ [r EXCEPT !.next = x].next = x
         /\ [r EXCEPT !.next = x].data = r.data
         /\ [r EXCEPT !.next = x].child = r.child
  BY DEF NodeRecords

LEMMA AddNode ==
  ASSUME NEW m \in Memory, NEW p, IsPath(m, p), NEW v \in Nat
  PROVE  /\ GrownBy(m, list_add_node(m, p[1], v), p, 1)
         /\ list_add_node(m, p[1], v)[Len(m) + 1] = Node(v)
<1> PICK m2 : m2 = list_add_node(m, p[1], v)
  OBVIOUS
<1>1. PICK last \in DOMAIN m : last = p[Len(p)]
  BY PathType
<1>2. Len(m) \in Nat /\ DOMAIN m = 1 .. Len(m) /\ m[last] \in NodeRecords
  BY MemoryType
<1>3. PICK r : r = [m[last] EXCEPT !.next = Len(m) + 1]
  OBVIOUS
<1>4. Len(m) + 1 \in Nat
  BY <1>2
<1>5. /\ r \in NodeRecords /\ r.next = Len(m) + 1
      /\ r.data = m[last].data /\ r.child = m[last].child
  BY <1>2, <1>3, <1>4, NextSet
<1>6. PICK m1 : m1 = [m EXCEPT ![last] = r]
  OBVIOUS
<1>7. IsReplaced(m, m1, last, r)
  BY <1>5, <1>6, Replaced
<1>8. m2 = Append(m1, Node(v))
  <2>1. Last(Chain(m, p[1])) = last
    BY <1>1, ChainIs, PathType
  <2>2. m2 = Append([m EXCEPT ![last].next = Len(m) + 1], Node(v))
    BY <2>1 DEF list_add_node
  <2>3. [m EXCEPT ![last].next = Len(m) + 1] = m1
    BY <1>3, <1>6
  <2> QED BY <2>2, <2>3
<1>9. m1 \in Memory /\ Len(m1) = Len(m) /\ DOMAIN m1 = DOMAIN m
  BY <1>2, <1>7, MemoryType DEF IsReplaced
<1>10. IsAppended(m1, m2, Node(v))
  BY <1>8, <1>9, Appended, NodeType
<1>11. m2 \in Memory /\ Len(m2) = Len(m) + 1 /\ m2[Len(m) + 1] = Node(v)
  BY <1>9, <1>10 DEF IsAppended
<1>12. m2[last] = r
  BY <1>7, <1>9, <1>10 DEF IsAppended, IsReplaced
<1>13. \A a \in DOMAIN m : a # last => m2[a] = m[a]
  BY <1>7, <1>9, <1>10 DEF IsAppended, IsReplaced
<1>14. \A a \in DOMAIN m : /\ m2[a].data = m[a].data /\ m2[a].child = m[a].child
                           /\ a # last => m2[a].next = m[a].next
  BY <1>5, <1>12, <1>13
<1>15. \A k \in 1 .. 1 :
         /\ m2[Len(m) + k].data = NULL /\ m2[Len(m) + k].child = NULL
         /\ m2[Len(m) + k].next = IF k = 1 THEN NULL ELSE Len(m) + k + 1
  <2> TAKE k \in 1 .. 1
  <2>1. k = 1
    OBVIOUS
  <2> QED BY <1>11, <2>1, NodeType
<1>16. m2[last].next = IF 1 = 0 THEN NULL ELSE Len(m) + 1
  BY <1>5, <1>12
<1>17. GrownBy(m, m2, p, 1)
  BY <1>1, <1>11, <1>14, <1>15, <1>16 DEF GrownBy
<1> QED BY <1>11, <1>17

(* The memory after k additions, written down.                             *)
After(p, k) ==
  [a \in 1 .. Len(nodes) + k |->
     IF a > Len(nodes)
     THEN [Node(0) EXCEPT !.next = IF a = Len(nodes) + k THEN NULL ELSE a + 1]
     ELSE IF a = p[Len(p)] /\ k # 0 THEN [nodes[a] EXCEPT !.next = Len(nodes) + 1]
     ELSE nodes[a]]

LEMMA AfterGrown ==
  ASSUME nodes \in Memory, NEW p, IsPath(nodes, p), NEW k \in Nat
  PROVE  GrownBy(nodes, After(p, k), p, k)
<1> PICK m2 : m2 = After(p, k)
  OBVIOUS
<1>1. PICK last \in DOMAIN nodes : last = p[Len(p)]
  BY PathType
<1>2. /\ Len(nodes) \in Nat /\ DOMAIN nodes = 1 .. Len(nodes)
      /\ \A a \in DOMAIN nodes : nodes[a] \in NodeRecords
  BY MemoryType
<1>3. \A a \in DOMAIN nodes :
        m2[a] = IF a = last /\ k # 0 THEN [nodes[a] EXCEPT !.next = Len(nodes) + 1]
                ELSE nodes[a]
  BY <1>1, <1>2 DEF After
<1>4. \A i \in 1 .. k :
        m2[Len(nodes) + i] = [Node(0) EXCEPT !.next =
                                IF i = k THEN NULL ELSE Len(nodes) + i + 1]
  <2> TAKE i \in 1 .. k
  <2>1. PICK a \in 1 .. Len(nodes) + k : a = Len(nodes) + i
    BY <1>2
  <2>2. a > Len(nodes) /\ (a = Len(nodes) + k <=> i = k)
    BY <1>2, <2>1
  <2>3. m2[a] = [Node(0) EXCEPT !.next =
                   IF a = Len(nodes) + k THEN NULL ELSE a + 1]
    BY <2>2 DEF After
  <2> QED BY <2>1, <2>2, <2>3
<1>5. \A a \in DOMAIN nodes :
        /\ m2[a] \in NodeRecords
        /\ m2[a].data = nodes[a].data /\ m2[a].child = nodes[a].child
        /\ a # last => m2[a].next = nodes[a].next
  <2> TAKE a \in DOMAIN nodes
  <2>1. CASE a = last /\ k # 0
    <3>1. PICK x \in Nat : x = Len(nodes) + 1
      BY <1>2
    <3>2. m2[a] = [nodes[a] EXCEPT !.next = x]
      BY <1>3, <2>1, <3>1
    <3> QED BY <1>2, <2>1, <3>2, NextSet
  <2>2. CASE ~(a = last /\ k # 0)
    <3>1. m2[a] = nodes[a]
      BY <1>3, <2>2
    <3> QED BY <1>2, <3>1
  <2> QED BY <2>1, <2>2
<1>6. \A i \in 1 .. k :
        /\ m2[Len(nodes) + i] \in NodeRecords
        /\ m2[Len(nodes) + i].data = NULL /\ m2[Len(nodes) + i].child = NULL
        /\ m2[Len(nodes) + i].next = IF i = k THEN NULL ELSE Len(nodes) + i + 1
  <2> TAKE i \in 1 .. k
  <2>1. PICK x \in Nat : x = IF i = k THEN NULL ELSE Len(nodes) + i + 1
    BY <1>2 DEF NULL
  <2>2. m2[Len(nodes) + i] = [Node(0) EXCEPT !.next = x]
    BY <1>4, <2>1
  <2>3. PICK r \in NodeRecords : r = Node(0) /\ r.data = NULL /\ r.child = NULL
    BY NodeType
  <2>4. /\ [r EXCEPT !.next = x] \in NodeRecords /\ [r EXCEPT !.next = x].next = x
        /\ [r EXCEPT !.next = x].data = NULL /\ [r EXCEPT !.next = x].child = NULL
    BY <2>3, NextSet
  <2> QED BY <2>1, <2>2, <2>3, <2>4
<1>7. DOMAIN m2 = 1 .. Len(nodes) + k
  BY DEF After
<1>8. \A a \in 1 .. Len(nodes) + k : m2[a] \in NodeRecords
  <2> TAKE a \in 1 .. Len(nodes) + k
  <2>1. CASE a \in DOMAIN nodes
    BY <1>5, <2>1
  <2>2. CASE a \notin DOMAIN nodes
    <3>1. a - Len(nodes) \in 1 .. k /\ Len(nodes) + (a - Len(nodes)) = a
      BY <1>2, <2>2
    <3> QED BY <1>6, <3>1
  <2> QED BY <2>1, <2>2
<1>9. m2 \in Memory /\ Len(m2) = Len(nodes) + k
  <2>1. m2 = [a \in 1 .. Len(nodes) + k |-> m2[a]]
    BY DEF After
  <2>2. Len(nodes) + k \in Nat
    BY <1>2
  <2> QED BY <1>8, <2>1, <2>2 DEF Memory
<1>10. m2[last].next = IF k = 0 THEN NULL ELSE Len(nodes) + 1
  <2>1. CASE k = 0
    <3>1. m2[last] = nodes[last]
      BY <1>3, <2>1
    <3> QED BY <1>1, <2>1, <3>1 DEF IsPath
  <2>2. CASE k # 0
    <3>1. PICK x \in Nat : x = Len(nodes) + 1
      BY <1>2
    <3>2. m2[last] = [nodes[last] EXCEPT !.next = x]
      BY <1>3, <2>2, <3>1
    <3> QED BY <1>2, <2>2, <3>1, <3>2, NextSet
  <2> QED BY <2>1, <2>2
<1>11. GrownBy(nodes, m2, p, k)
  BY <1>1, <1>5, <1>6, <1>9, <1>10 DEF GrownBy
<1> QED BY <1>11

LEMMA AfterNext ==
  ASSUME nodes \in Memory, NEW p, IsPath(nodes, p), IsInjective(p),
         NEW k \in Nat, k # 0
  PROVE  After(p, k) = list_add_node(After(p, k - 1), p[1], 0)
<1> PICK L \in Nat : L = Len(nodes)
  BY MemoryType
<1> PICK i \in Nat : i = k - 1
  OBVIOUS
<1> PICK m : m = After(p, i)
  OBVIOUS
<1> PICK q : q = Longer(nodes, p, i)
  OBVIOUS
<1>1. GrownBy(nodes, m, p, i)
  BY AfterGrown
<1>2. m \in Memory /\ Len(m) = L + i /\ DOMAIN m = 1 .. L + i
  BY <1>1, MemoryType DEF GrownBy
<1>3. IsPath(m, q)
  BY <1>1, GrowthPath
<1>4. IsLonger(nodes, p, i, q)
  BY LongerType
<1>5. PICK last \in DOMAIN m : last = q[Len(q)]
  BY <1>2, <1>3, PathType
<1>6. Len(p) \in Nat \ {0} /\ p[Len(p)] \in 1 .. L
  BY PathType, MemoryType
<1>7. last = IF i = 0 THEN p[Len(p)] ELSE L + i
  <2>1. Len(q) = Len(p) + i
    BY <1>4 DEF IsLonger
  <2>2. CASE i = 0
    <3>1. Len(p) \in 1 .. Len(p) /\ Len(q) = Len(p)
      BY <1>6, <2>1, <2>2
    <3> QED BY <1>4, <1>5, <2>2, <3>1 DEF IsLonger
  <2>3. CASE i # 0
    <3>1. PICK j \in Len(p) + 1 .. Len(p) + i : j = Len(q)
      <4>1. Len(p) + i \in Len(p) + 1 .. Len(p) + i
        BY <1>6, <2>3
      <4> QED BY <2>1, <4>1
    <3>2. q[j] = L + (j - Len(p))
      BY <1>4 DEF IsLonger
    <3>3. j - Len(p) = i
      BY <1>6, <2>1, <3>1
    <3> QED BY <1>5, <2>3, <3>1, <3>2, <3>3
  <2> QED BY <2>2, <2>3
<1>8. q[1] = p[1]
  <2>1. 1 \in 1 .. Len(p)
    BY <1>6
  <2> QED BY <1>4, <2>1 DEF IsLonger
<1>9. Last(Chain(m, p[1])) = last
  BY <1>2, <1>3, <1>5, <1>8, ChainIs, PathType
<1>10. PICK r : r = [m[last] EXCEPT !.next = L + k]
  OBVIOUS
<1>11. list_add_node(m, p[1], 0) = Append([m EXCEPT ![last] = r], Node(0))
  <2>1. Len(m) + 1 = L + k
    BY <1>2
  <2>2. list_add_node(m, p[1], 0)
          = Append([m EXCEPT ![last].next = Len(m) + 1], Node(0))
    BY <1>9 DEF list_add_node
  <2>3. [m EXCEPT ![last].next = L + k] = [m EXCEPT ![last] = r]
    BY <1>10
  <2> QED BY <2>1, <2>2, <2>3
<1>12. PICK m1 : m1 = [m EXCEPT ![last] = r]
  OBVIOUS
<1>13. r \in NodeRecords
  <2>1. L + k \in Nat /\ m[last] \in NodeRecords
    BY <1>2, MemoryType
  <2> QED BY <1>10, <2>1, NextSet
<1>14. IsReplaced(m, m1, last, r)
  BY <1>2, <1>12, <1>13, Replaced
<1>15. m1 \in Memory /\ Len(m1) = L + i
  BY <1>2, <1>14 DEF IsReplaced
<1>16. PICK m2 : m2 = Append(m1, Node(0))
  OBVIOUS
<1>17. IsAppended(m1, m2, Node(0))
  BY <1>15, <1>16, Appended, NodeType
<1>18. m2 \in Memory /\ Len(m2) = L + k /\ m2[L + k] = Node(0)
  <2>1. L + i + 1 = L + k
    OBVIOUS
  <2> QED BY <1>15, <1>17, <2>1 DEF IsAppended
<1>19. \A a \in 1 .. L + i : m2[a] = IF a = last THEN r ELSE m[a]
  BY <1>2, <1>14, <1>15, <1>17, MemoryType DEF IsAppended, IsReplaced
<1>20. m2 = After(p, k)
  <2>1. \A a \in 1 .. L + k : m2[a] = After(p, k)[a]
    <3> TAKE a \in 1 .. L + k
    <3>1. After(p, k)[a] =
            IF a > L
            THEN [Node(0) EXCEPT !.next = IF a = L + k THEN NULL ELSE a + 1]
            ELSE IF a = p[Len(p)] THEN [nodes[a] EXCEPT !.next = L + 1]
            ELSE nodes[a]
      BY DEF After
    <3>2. a # L + k =>
            m[a] = IF a > L
                   THEN [Node(0) EXCEPT !.next = IF a = L + i THEN NULL ELSE a + 1]
                   ELSE IF a = p[Len(p)] /\ i # 0
                   THEN [nodes[a] EXCEPT !.next = L + 1]
                   ELSE nodes[a]
      <4>1. a # L + k => a \in 1 .. Len(nodes) + i
        OBVIOUS
      <4>2. a \in 1 .. Len(nodes) + i =>
              After(p, i)[a] = IF a > L
                   THEN [Node(0) EXCEPT !.next = IF a = L + i THEN NULL ELSE a + 1]
                   ELSE IF a = p[Len(p)] /\ i # 0
                   THEN [nodes[a] EXCEPT !.next = L + 1]
                   ELSE nodes[a]
        BY DEF After
      <4> QED BY <4>1, <4>2
    <3>3. CASE a = L + k
      <4>1. Node(0) = [Node(0) EXCEPT !.next = NULL]
        BY DEF Node
      <4> QED BY <1>18, <3>1, <3>3, <4>1
    <3>4. CASE a # L + k /\ a = last
      <4>1. m2[a] = [m[a] EXCEPT !.next = L + k]
        BY <1>10, <1>19, <3>4
      <4>2. CASE i = 0
        <5>1. a = p[Len(p)] /\ ~(a > L) /\ k = 1
          BY <1>6, <1>7, <3>4, <4>2
        <5> QED BY <3>1, <3>2, <3>4, <4>1, <4>2, <5>1
      <4>3. CASE i # 0
        <5>1. a = L + i /\ a > L /\ a + 1 = L + k
          BY <1>7, <3>4, <4>3
        <5>2. m[a] = [Node(0) EXCEPT !.next = NULL]
          BY <3>2, <3>4, <5>1
        <5>3. After(p, k)[a] = [Node(0) EXCEPT !.next = L + k]
          BY <3>1, <3>4, <5>1
        <5>4. [[Node(0) EXCEPT !.next = NULL] EXCEPT !.next = L + k]
                = [Node(0) EXCEPT !.next = L + k]
          BY DEF Node
        <5> QED BY <4>1, <5>2, <5>3, <5>4
      <4> QED BY <4>2, <4>3
    <3>5. CASE a # L + k /\ a # last
      <4>1. m2[a] = m[a] /\ a \in 1 .. L + i
        BY <1>19, <3>5
      <4>2. CASE a > L
        <5>1. a # L + i
          BY <1>7, <3>5, <4>1, <4>2
        <5> QED BY <3>1, <3>2, <3>5, <4>1, <4>2, <5>1
      <4>3. CASE ~(a > L)
        <5>1. a = p[Len(p)] => i # 0
          BY <1>7, <3>5
        <5> QED BY <3>1, <3>2, <3>5, <4>1, <4>3, <5>1
      <4> QED BY <4>2, <4>3
    <3> QED BY <3>3, <3>4, <3>5
  <2>2. m2 = [a \in 1 .. L + k |-> m2[a]]
    BY <1>18 DEF Memory
  <2>3. After(p, k) = [a \in 1 .. L + k |-> After(p, k)[a]]
    BY DEF After
  <2> QED BY <2>1, <2>2, <2>3
<1> QED BY <1>11, <1>12, <1>16, <1>20

(* The loop of write_rd_file adds as many nodes as it is asked for.        *)
LEMMA GrownIs ==
  ASSUME nodes \in Memory, NEW p, IsPath(nodes, p), IsInjective(p), NEW n \in Nat
  PROVE  GrownBy(nodes, Grown(p[1], n), p, n)
<1> DEFINE Adding(f) == [i \in 0 .. n |-> IF i = 0 THEN nodes
                                          ELSE list_add_node(f[i - 1], p[1], 0)]
           added == CHOOSE f : f = Adding(f)
           found == [i \in 0 .. n |-> After(p, i)]
<1>1. Grown(p[1], n) = added[n]
  BY DEF Grown
<1>2. After(p, 0) = nodes
  <2>1. Len(nodes) \in Nat /\ nodes = [a \in 1 .. Len(nodes) |-> nodes[a]]
    BY DEF Memory
  <2>2. After(p, 0) = [a \in 1 .. Len(nodes) |-> nodes[a]]
    BY <2>1 DEF After
  <2> QED BY <2>1, <2>2
<1>3. found = Adding(found)
  <2> SUFFICES ASSUME NEW i \in 0 .. n
      PROVE  After(p, i) = IF i = 0 THEN nodes
                           ELSE list_add_node(found[i - 1], p[1], 0)
    OBVIOUS
  <2>1. CASE i = 0
    BY <1>2, <2>1
  <2>2. CASE i # 0
    <3>1. i \in Nat /\ found[i - 1] = After(p, i - 1)
      BY <2>2
    <3> QED BY <2>2, <3>1, AfterNext
  <2> QED BY <2>1, <2>2
<1>4. added = Adding(added)
  <2> HIDE DEF Adding, found
  <2> QED BY <1>3
<1>5. PICK f, g : f = added /\ g = found
  OBVIOUS
<1>6. f = Adding(f) /\ g = Adding(g)
  <2> HIDE DEF Adding, added, found
  <2> QED BY <1>3, <1>4, <1>5
<1> HIDE DEF added, found
<1>7. f[0] = g[0]
  BY <1>6
<1>8. \A i \in 0 .. n : i # 0 /\ f[i - 1] = g[i - 1] => f[i] = g[i]
  <2> SUFFICES ASSUME NEW i \in 0 .. n, i # 0
      PROVE  f[i - 1] = g[i - 1] => f[i] = g[i]
    OBVIOUS
  <2>1. f[i] = list_add_node(f[i - 1], p[1], 0)
    BY <1>6
  <2>2. g[i] = list_add_node(g[i - 1], p[1], 0)
    BY <1>6
  <2> QED BY <2>1, <2>2
<1>9. \A i \in 0 .. n : f[i] = g[i]
  <2>1. PICK lo \in Nat : lo = 0
    OBVIOUS
  <2>2. GoAlike(f, g, lo, n)
    BY <1>7, <1>8, <2>1 DEF GoAlike
  <2>3. \A i \in lo .. n : f[i] = g[i]
    BY <2>2, SameFunction
  <2> QED BY <2>1, <2>3
<1>10. f[n] = g[n] /\ g[n] = After(p, n)
  BY <1>5, <1>9 DEF found
<1> QED BY <1>1, <1>5, <1>10, AfterGrown

LEMMA ListGrown ==
  ASSUME NEW m \in Memory, NEW h, IsList(m, h), NEW n \in Nat,
         NEW m2, GrownBy(m, m2, Chain(m, h), n)
  PROVE  /\ IsList(m2, h) /\ Chain(m2, h) = Longer(m, Chain(m, h), n)
         /\ On(m2, h) = On(m, h) \cup Len(m) + 1 .. Len(m) + n
<1> PICK p : p = Chain(m, h)
  OBVIOUS
<1> PICK q : q = Longer(m, p, n)
  OBVIOUS
<1>1. IsPath(m, p) /\ IsInjective(p) /\ p[1] = h
  BY DEF IsList
<1>2. m2 \in Memory
  BY DEF GrownBy
<1>3. GrownBy(m, m2, p, n)
  OBVIOUS
<1>4. /\ IsPath(m2, q) /\ IsInjective(q)
      /\ Range(q) = Range(p) \cup Len(m) + 1 .. Len(m) + n
  BY <1>1, <1>3, GrowthPath
<1>5. q[1] = h
  <2>1. 1 \in 1 .. Len(p)
    BY <1>1, PathType
  <2>2. IsLonger(m, p, n, q)
    BY <1>1, LongerType
  <2> QED BY <1>1, <2>1, <2>2 DEF IsLonger
<1>6. IsList(m2, h) /\ Chain(m2, h) = q /\ On(m2, h) = Range(q)
  BY <1>2, <1>4, <1>5, ListIs
<1> QED BY <1>4, <1>6 DEF On

----------------------------------------------------------------------------
(* What the lists of a state are                                           *)

LEMMA HeadsAre ==
  /\ Heads = {threads} \cup FileHeads \cup DiskHeads \cup Children(nodes)
  /\ Heads' = {threads'} \cup FileHeads' \cup DiskHeads' \cup Children(nodes')
<1>1. /\ (IF disk_head = NULL THEN {} ELSE {disk_head}) = DiskHeads
      /\ (IF disk_head' = NULL THEN {} ELSE {disk_head'}) = DiskHeads'
  BY DEF DiskHeads
<1>2. \A m : {m[a].child : a \in {b \in DOMAIN m : m[b].child # NULL}} = Children(m)
  BY DEF Children
<1> QED BY <1>1, <1>2 DEF Heads, FileHeads, FileHead

LEMMA HeadIsList ==
  ASSUME RamdiskInv, NEW h \in Heads
  PROVE  /\ IsList(nodes, h) /\ h \in DOMAIN nodes
         /\ h \in On(nodes, h) /\ On(nodes, h) \subseteq DOMAIN nodes
<1>1. IsList(nodes, h) /\ nodes \in Memory
  BY DEF RamdiskInv, Apart, TypeInv
<1> QED BY <1>1, ListType

(* The data of files stay in order if their lists and blocks do.           *)
LEMMA FilesKept ==
  ASSUME DataInv, descs' = descs, blocks' = blocks,
         \A f \in DOMAIN descs : On(nodes', FileHead(f)) = On(nodes, FileHead(f)),
         \A f \in DOMAIN descs : \A a \in On(nodes, FileHead(f)) :
           nodes'[a].data = nodes[a].data
  PROVE  DataInv'
<1>1. \A f : FileHead(f)' = FileHead(f)
  BY DEF FileHead
<1>2. \A f \in DOMAIN descs : On(nodes, FileHead(f))' = On(nodes, FileHead(f))
  <2> SUFFICES ASSUME NEW f \in DOMAIN descs
      PROVE  On(nodes, FileHead(f))' = On(nodes, FileHead(f))
    OBVIOUS
  <2>1. On(nodes, FileHead(f))' = On(nodes', FileHead(f)')
    OBVIOUS
  <2> QED BY <1>1, <2>1
<1> HIDE DEF FileHead
<1>3. \A f \in DOMAIN descs : \A a \in On(nodes, FileHead(f))' :
        nodes'[a].data \in 0 .. Len(blocks') - 1
  BY <1>2 DEF DataInv
<1>4. \A f, g \in DOMAIN descs :
        \A a \in On(nodes, FileHead(f))', b \in On(nodes, FileHead(g))' :
          a # b => nodes'[a].data # nodes'[b].data \/ nodes'[a].data = NULL
  BY <1>2 DEF DataInv
<1> QED BY <1>3, <1>4 DEF DataInv

(* A step with the list of threads, or the children of one: of the heads C *)
(* give way to N.                                                          *)
ThreadsMove(S, C, N) ==
  /\ OnlyNodes /\ nodes' \in Memory
  /\ Len(nodes) <= Len(nodes') /\ Len(nodes') <= MaxNodes
  /\ C \subseteq {threads} \cup Children(nodes)
  /\ \A a \in DOMAIN nodes : /\ nodes'[a].data = nodes[a].data
                             /\ a \notin S => nodes'[a].next = nodes[a].next
  /\ \A h \in Heads : h \notin C => On(nodes, h) \cap S = {}
  /\ \A h, k \in N : h = k
  /\ \A h \in N : IsList(nodes', h) /\ On(nodes', h) \cap DOMAIN nodes \subseteq S
  /\ Children(nodes') \subseteq (Children(nodes) \ C) \cup N
  /\ threads' \notin Children(nodes')
  /\ threads' \in N \/ (threads' = threads /\ threads \notin C)

LEMMA ThreadsStep ==
  ASSUME RamdiskInv, NEW S, NEW C, NEW N, ThreadsMove(S, C, N)
  PROVE  /\ RamdiskInv' /\ Kept(nodes, nodes', Heads \ C)
         /\ FileHeads \cup DiskHeads \subseteq Heads \ C
<1> USE DEF ThreadsMove
<1>1. /\ TypeInv /\ Apart(nodes, Heads) /\ RolesApart /\ DataInv
  BY DEF RamdiskInv
<1>2. nodes \in Memory
  BY <1>1 DEF TypeInv
<1>3. disk_head' = disk_head /\ descs' = descs /\ blocks' = blocks /\ wrote' = wrote
  BY DEF OnlyNodes
<1>4. FileHeads' = FileHeads /\ DiskHeads' = DiskHeads
  BY <1>3 DEF FileHeads, DiskHeads, FileHead
<1>5. /\ Heads = {threads} \cup FileHeads \cup DiskHeads \cup Children(nodes)
      /\ Heads' = {threads'} \cup FileHeads \cup DiskHeads \cup Children(nodes')
  BY <1>4, HeadsAre
<1>6. FileHeads \cup DiskHeads \subseteq Heads \ C
  BY <1>1, <1>5 DEF RolesApart, DiskHeads
<1>7. Heads' \subseteq (Heads \ C) \cup N
  BY <1>5, <1>6
<1>8. PICK m2 : m2 = nodes'
  OBVIOUS
<1>9. PICK H2 : H2 = Heads'
  OBVIOUS
<1>10. /\ Apart(m2, H2)
       /\ \A h \in Heads \ C : /\ Chain(m2, h) = Chain(nodes, h)
                               /\ On(m2, h) = On(nodes, h)
  <2>1. PICK m, H : m = nodes /\ H = Heads
    OBVIOUS
  <2>2. /\ m \in Memory /\ m2 \in Memory /\ Len(m) <= Len(m2) /\ Apart(m, H)
    BY <1>1, <1>2, <1>8, <2>1
  <2>3. \A a \in DOMAIN m : a \notin S => m2[a].next = m[a].next
    BY <1>8, <2>1
  <2>4. \A h \in H : h \notin C => On(m, h) \cap S = {}
    BY <2>1
  <2>5. H2 \subseteq (H \ C) \cup N
    BY <1>7, <1>9, <2>1
  <2>6. \A h \in N : IsList(m2, h) /\ On(m2, h) \cap DOMAIN m \subseteq S
    BY <1>8, <2>1
  <2>7. \A h, k \in N : h # k => On(m2, h) \cap On(m2, k) = {}
    OBVIOUS
  <2>8. Rearranged(m, m2, H, H2, S, C, N)
    BY <2>2, <2>3, <2>4, <2>5, <2>6, <2>7 DEF Rearranged
  <2>9. Apart(m2, H2) /\ Kept(m, m2, H \ C)
    BY <2>8, ListsStep
  <2> QED BY <2>1, <2>9 DEF Kept
<1>11. \A h \in Heads \ C : h \in On(nodes, h) /\ On(nodes, h) \subseteq DOMAIN nodes
  BY HeadIsList
<1>12. \A h \in Heads \ C : \A k \in N : h # k
  <2> SUFFICES ASSUME NEW h \in Heads \ C, h \in N PROVE FALSE
    OBVIOUS
  <2>1. h \in On(nodes, h) /\ On(nodes, h) \subseteq DOMAIN nodes
    BY <1>11
  <2>2. h \in On(m2, h) /\ On(m2, h) = On(nodes, h)
    BY <1>10, <2>1
  <2>3. h \in S
    BY <1>8, <2>1, <2>2
  <2> QED BY <2>1, <2>3
<1>13. threads' \notin FileHeads \cup DiskHeads
  <2>1. CASE threads' \in N
    BY <1>6, <1>12, <2>1
  <2>2. CASE threads' = threads
    BY <1>1, <2>2 DEF RolesApart, DiskHeads
  <2> QED BY <2>1, <2>2
<1>14. threads' \in DOMAIN nodes'
  <2>1. threads' \in Heads'
    BY <1>5
  <2>2. IsList(nodes', threads')
    BY <1>8, <1>9, <1>10, <2>1 DEF Apart
  <2> QED BY <2>2, ListType
<1>15. Children(nodes') \cap (FileHeads \cup DiskHeads) = {}
  BY <1>1, <1>6, <1>12 DEF RolesApart, DiskHeads
<1>16. TypeInv'
  <2>1. Len(nodes) \in Nat /\ DOMAIN nodes = 1 .. Len(nodes) /\ DOMAIN nodes' = 1 .. Len(nodes')
    BY <1>2, MemoryType
  <2>2. Len(nodes') \in 1 .. MaxNodes
    <3>1. Len(nodes) \in 1 .. MaxNodes /\ MaxNodes \in Nat /\ Len(nodes') \in Nat
      BY <1>1, RamdiskAssumption, MemoryType DEF TypeInv
    <3> QED BY <3>1
  <2>3. disk_head \in DOMAIN nodes' \cup {NULL}
    <3>1. disk_head \in DOMAIN nodes \cup {NULL}
      BY <1>1 DEF TypeInv
    <3>2. Len(nodes') \in Nat
      BY MemoryType
    <3> QED BY <2>1, <3>1, <3>2
  <2> QED BY <1>1, <1>3, <1>14, <2>2, <2>3 DEF TypeInv
<1>17. RolesApart'
  <2>1. threads' # disk_head
    <3>1. CASE disk_head = NULL
      <4>1. NULL \notin DOMAIN nodes'
        BY MemoryType
      <4> QED BY <1>14, <3>1, <4>1
    <3>2. CASE disk_head # NULL
      BY <1>13, <3>2 DEF DiskHeads
    <3> QED BY <3>1, <3>2
  <2>2. \A f, g \in DOMAIN descs' : f # g => FileHead(f)' # FileHead(g)'
    BY <1>1, <1>3 DEF RolesApart, FileHead
  <2>3. Children(nodes') \cap ({threads', disk_head} \cup FileHeads) = {}
    <3>1. disk_head \notin Children(nodes')
      BY <1>15 DEF DiskHeads, Children
    <3> QED BY <1>15, <3>1
  <2> QED BY <1>1, <1>3, <1>4, <1>13, <2>1, <2>2, <2>3 DEF RolesApart
<1>18. DataInv'
  <2>1. \A f \in DOMAIN descs : FileHead(f) \in Heads \ C
    BY <1>6 DEF FileHeads
  <2>2. \A f \in DOMAIN descs : On(nodes', FileHead(f)) = On(nodes, FileHead(f))
    BY <1>8, <1>10, <2>1
  <2>3. \A f \in DOMAIN descs : \A a \in On(nodes, FileHead(f)) :
          nodes'[a].data = nodes[a].data
    BY <1>11, <2>1
  <2> QED BY <1>1, <1>3, <2>2, <2>3, FilesKept
<1>19. Apart(nodes', Heads')
  BY <1>8, <1>9, <1>10
<1>20. RamdiskInv'
  BY <1>16, <1>17, <1>18, <1>19 DEF RamdiskInv
<1>21. Kept(nodes, nodes', Heads \ C)
  BY <1>8, <1>10 DEF Kept
<1> QED BY <1>6, <1>20, <1>21

----------------------------------------------------------------------------
(* The steps of the list of threads                                        *)

LEMMA GrownChildren ==
  ASSUME NEW m \in Memory, NEW m2, NEW p, NEW n \in Nat, GrownBy(m, m2, p, n)
  PROVE  Children(m2) \subseteq Children(m)
<1>1. /\ m2 \in Memory /\ Len(m) \in Nat /\ Len(m2) = Len(m) + n
      /\ DOMAIN m = 1 .. Len(m) /\ DOMAIN m2 = 1 .. Len(m) + n
  BY MemoryType DEF GrownBy
<1>2. \A a \in DOMAIN m2 : m2[a].child # NULL => m2[a].child \in Children(m)
  <2> TAKE a \in DOMAIN m2
  <2>1. CASE a \in DOMAIN m
    BY <2>1 DEF GrownBy, Children
  <2>2. CASE a \notin DOMAIN m
    <3>1. a - Len(m) \in 1 .. n /\ Len(m) + (a - Len(m)) = a
      BY <1>1, <2>2
    <3> QED BY <3>1 DEF GrownBy
  <2> QED BY <2>1, <2>2
<1> QED BY <1>2 DEF Children

LEMMA HeadsApart ==
  ASSUME RamdiskInv, NEW h \in Heads
  PROVE  \A k \in Heads : k \notin {h} => On(nodes, k) \cap On(nodes, h) = {}
  BY DEF RamdiskInv, Apart

LEMMA ThreadsList ==
  ASSUME RamdiskInv
  PROVE  /\ nodes \in Memory /\ threads \in Heads /\ IsList(nodes, threads)
         /\ threads \notin Children(nodes)
         /\ IsPath(nodes, Chain(nodes, threads)) /\ IsInjective(Chain(nodes, threads))
         /\ Chain(nodes, threads)[1] = threads
<1>1. threads \in Heads
  BY HeadsAre
<1>2. nodes \in Memory /\ threads \notin Children(nodes)
  BY DEF RamdiskInv, TypeInv, RolesApart
<1> QED BY <1>1, <1>2, HeadIsList, ListType

LEMMA Rooms ==
  ASSUME RamdiskInv, NEW n \in Nat, EarlyRoom(n)
  PROVE  Len(nodes) + n <= MaxNodes
  BY RamdiskAssumption, MemoryType DEF RamdiskInv, TypeInv, EarlyRoom

LEMMA AddThreadMoves ==
  ASSUME RamdiskInv, AddThread
  PROVE  /\ ThreadsMove(On(nodes, threads), {threads}, {threads})
         /\ threads' = threads
         /\ Chain(nodes', threads') = Longer(nodes, Chain(nodes, threads), 1)
<1> PICK p : p = Chain(nodes, threads)
  OBVIOUS
<1> PICK m2 : m2 = nodes'
  OBVIOUS
<1>1. /\ nodes \in Memory /\ threads \in Heads /\ IsList(nodes, threads)
      /\ threads \notin Children(nodes) /\ IsPath(nodes, p) /\ p[1] = threads
  BY ThreadsList
<1>2. m2 = list_add_node(nodes, p[1], 0) /\ threads' = threads /\ OnlyNodes
  BY <1>1 DEF AddThread
<1>3. GrownBy(nodes, m2, p, 1)
  BY <1>1, <1>2, AddNode
<1>4. m2 \in Memory /\ Len(m2) = Len(nodes) + 1 /\ Len(nodes) \in Nat
  BY <1>1, <1>3, MemoryType DEF GrownBy
<1>5. /\ IsList(m2, threads) /\ Chain(m2, threads) = Longer(nodes, p, 1)
      /\ On(m2, threads) = On(nodes, threads) \cup Len(nodes) + 1 .. Len(nodes) + 1
  BY <1>1, <1>3, ListGrown
<1>6. Len(m2) <= MaxNodes
  BY <1>4, Rooms DEF AddThread
<1>7. \A a \in DOMAIN nodes : /\ m2[a].data = nodes[a].data
                              /\ a \notin On(nodes, threads) => m2[a].next = nodes[a].next
  <2>1. p[Len(p)] \in On(nodes, threads)
    <3>1. Range(p) = {p[i] : i \in 1 .. Len(p)} /\ Len(p) \in Nat \ {0}
      BY <1>1, PathType
    <3> QED BY <3>1 DEF On
  <2> QED BY <1>3, <2>1 DEF GrownBy
<1>8. Children(m2) \subseteq Children(nodes)
  BY <1>1, <1>3, GrownChildren
<1>9. On(m2, threads) \cap DOMAIN nodes \subseteq On(nodes, threads)
  BY <1>1, <1>4, <1>5, MemoryType
<1>10. \A h \in Heads : h \notin {threads} => On(nodes, h) \cap On(nodes, threads) = {}
  BY <1>1, HeadsApart
<1>11. Len(nodes) <= Len(m2)
  BY <1>4
<1>12. ThreadsMove(On(nodes, threads), {threads}, {threads})
  BY <1>1, <1>2, <1>4, <1>5, <1>6, <1>7, <1>8, <1>9, <1>10, <1>11 DEF ThreadsMove
<1> QED BY <1>2, <1>5, <1>12

LEMMA SinglePath ==
  ASSUME NEW m \in Memory, NEW a \in DOMAIN m, m[a].next = NULL
  PROVE  /\ IsPath(m, <<a>>) /\ IsInjective(<<a>>)
         /\ IsList(m, a) /\ Chain(m, a) = <<a>> /\ On(m, a) = {a}
<1> PICK p : p = <<a>>
  OBVIOUS
<1>1. Len(m) \in Nat /\ DOMAIN m = 1 .. Len(m)
  BY MemoryType
<1>2. p \in Seq(DOMAIN m) /\ Len(p) = 1 /\ p[1] = a /\ p # <<>>
  OBVIOUS
<1>3. DOMAIN p = {1}
  BY <1>2
<1>4. IsPath(m, p)
  BY <1>1, <1>2 DEF IsPath
<1>5. IsInjective(p) /\ Range(p) = {a}
  BY <1>2, <1>3 DEF IsInjective, Range
<1>6. IsList(m, p[1]) /\ Chain(m, p[1]) = p /\ On(m, p[1]) = Range(p)
  BY <1>4, <1>5, ListIs
<1> QED BY <1>2, <1>4, <1>5, <1>6

LEMMA FirstChild ==
  ASSUME RamdiskInv, AddChild, nodes[threads].child = NULL
  PROVE  ThreadsMove({}, {}, {Len(nodes) + 1})
<1> PICK L \in Nat : L = Len(nodes)
  BY ThreadsList, MemoryType
<1> PICK m2 : m2 = nodes'
  OBVIOUS
<1>1. /\ nodes \in Memory /\ threads \in Heads /\ threads \in DOMAIN nodes
      /\ threads \notin Children(nodes) /\ DOMAIN nodes = 1 .. L
  BY ThreadsList, HeadIsList, MemoryType
<1>2. PICK r : r = [nodes[threads] EXCEPT !.child = L + 1]
  OBVIOUS
<1>3. /\ r \in NodeRecords /\ r.child = L + 1
      /\ r.next = nodes[threads].next /\ r.data = nodes[threads].data
  <2>1. nodes[threads] \in NodeRecords
    BY <1>1, MemoryType
  <2> QED BY <1>2, <2>1 DEF NodeRecords
<1>4. PICK m1 : m1 = [nodes EXCEPT ![threads] = r]
  OBVIOUS
<1>5. m2 = Append(m1, Node(0)) /\ threads' = threads /\ OnlyNodes
  BY <1>2, <1>4 DEF AddChild, list_add_child
<1>6. IsReplaced(nodes, m1, threads, r)
  BY <1>1, <1>3, <1>4, Replaced
<1>7. m1 \in Memory /\ Len(m1) = L /\ DOMAIN m1 = 1 .. L
  BY <1>6, MemoryType DEF IsReplaced
<1>8. IsAppended(m1, m2, Node(0))
  BY <1>5, <1>7, Appended, NodeType
<1>9. /\ m2 \in Memory /\ Len(m2) = L + 1 /\ DOMAIN m2 = 1 .. L + 1
      /\ m2[L + 1] = Node(0) /\ L + 1 \in DOMAIN m2
  BY <1>7, <1>8, MemoryType DEF IsAppended
<1>10. \A a \in DOMAIN nodes :
         /\ m2[a].data = nodes[a].data /\ m2[a].next = nodes[a].next
         /\ m2[a].child = IF a = threads THEN L + 1 ELSE nodes[a].child
  <2> TAKE a \in DOMAIN nodes
  <2>1. m2[a] = IF a = threads THEN r ELSE nodes[a]
    BY <1>1, <1>6, <1>7, <1>8 DEF IsAppended, IsReplaced
  <2> QED BY <1>3, <2>1
<1>11. IsList(m2, L + 1) /\ On(m2, L + 1) = {L + 1}
  <2>1. PICK h \in DOMAIN m2 : h = L + 1
    BY <1>9
  <2>2. m2[h].next = NULL
    BY <1>9, <2>1, NodeType
  <2> QED BY <1>9, <2>1, <2>2, SinglePath
<1>12. Children(m2) \subseteq Children(nodes) \cup {L + 1}
  <2>1. \A a \in DOMAIN m2 : m2[a].child \in Children(nodes) \cup {L + 1, NULL}
    <3> TAKE a \in DOMAIN m2
    <3>1. CASE a \in DOMAIN nodes
      BY <1>10, <3>1 DEF Children
    <3>2. CASE a = L + 1
      BY <1>9, <3>2, NodeType
    <3> QED BY <1>1, <1>9, <3>1, <3>2
  <2> QED BY <2>1 DEF Children
<1>13. threads # L + 1
  BY <1>1
<1>14. Len(m2) <= MaxNodes
  BY <1>9, Rooms DEF AddChild
<1>15. Len(nodes) <= Len(m2)
  BY <1>9
<1>16. \A h \in {L + 1} : IsList(m2, h) /\ On(m2, h) \cap DOMAIN nodes \subseteq {}
  BY <1>1, <1>11
<1> QED
  BY <1>1, <1>5, <1>9, <1>10, <1>12, <1>13, <1>14, <1>15, <1>16 DEF ThreadsMove

LEMMA SecondChild ==
  ASSUME RamdiskInv, AddChild, NEW c, c = nodes[threads].child, c # NULL
  PROVE  ThreadsMove(On(nodes, c), {c}, {c})
<1> PICK m2 : m2 = nodes'
  OBVIOUS
<1> PICK p : p = <<c>>
  OBVIOUS
<1>1. /\ nodes \in Memory /\ threads \in DOMAIN nodes
      /\ threads \notin Children(nodes)
  BY ThreadsList, HeadIsList
<1>2. c \in Children(nodes)
  BY <1>1 DEF Children
<1>3. c \in Heads /\ c # threads
  BY <1>1, <1>2, HeadsAre
<1>4. c \in DOMAIN nodes /\ nodes[c].next = NULL /\ IsList(nodes, c)
  BY <1>3, HeadIsList DEF AddChild, MayHaveChild
<1>5. IsPath(nodes, p) /\ Chain(nodes, c) = p /\ On(nodes, c) = {c}
  BY <1>1, <1>4, SinglePath
<1>6. p[1] = c /\ Last(p) = c /\ Len(p) = 1
  BY DEF Last
<1>7. /\ m2 = list_add_node(nodes, p[1], 0) /\ threads' = threads /\ OnlyNodes
  <2>1. m2 = Append([nodes EXCEPT ![c].next = Len(nodes) + 1], Node(0))
    BY DEF AddChild, list_add_child
  <2>2. Last(Chain(nodes, p[1])) = c
    BY <1>5, <1>6
  <2> QED BY <2>1, <2>2 DEF list_add_node, AddChild
<1>8. GrownBy(nodes, m2, p, 1)
  BY <1>1, <1>5, <1>7, AddNode
<1>9. m2 \in Memory /\ Len(m2) = Len(nodes) + 1 /\ Len(nodes) \in Nat
  BY <1>1, <1>8, MemoryType DEF GrownBy
<1>10. /\ IsList(m2, c)
       /\ On(m2, c) = On(nodes, c) \cup Len(nodes) + 1 .. Len(nodes) + 1
  BY <1>1, <1>4, <1>5, <1>8, ListGrown
<1>11. \A a \in DOMAIN nodes : /\ m2[a].data = nodes[a].data
                               /\ a \notin On(nodes, c) => m2[a].next = nodes[a].next
  BY <1>5, <1>6, <1>8 DEF GrownBy
<1>12. Len(m2) <= MaxNodes
  BY <1>9, Rooms DEF AddChild
<1>13. Children(m2) \subseteq Children(nodes)
  BY <1>1, <1>8, GrownChildren
<1>14. On(m2, c) \cap DOMAIN nodes \subseteq On(nodes, c)
  BY <1>1, <1>9, <1>10, MemoryType
<1>15. \A h \in Heads : h \notin {c} => On(nodes, h) \cap On(nodes, c) = {}
  BY <1>3, HeadsApart
<1>16. Len(nodes) <= Len(m2)
  BY <1>9
<1> QED
  BY <1>1, <1>2, <1>3, <1>7, <1>9, <1>10, <1>11, <1>12, <1>13, <1>14, <1>15, <1>16
     DEF ThreadsMove

(* The list of test_list, in new nodes, concerns no other.                 *)
LEMMA TestListMoves ==
  ASSUME RamdiskInv, TestList
  PROVE  ThreadsMove({}, {}, {})
<1> PICK L \in Nat : L = Len(nodes)
  BY ThreadsList, MemoryType
<1> PICK m2 : m2 = nodes'
  OBVIOUS
<1> PICK m \in Memory : m = nodes
  BY ThreadsList
<1> PICK list \in Nat : list = L + 1
  OBVIOUS
<1>1. DOMAIN nodes = 1 .. L /\ threads \notin Children(nodes)
  BY ThreadsList, MemoryType
<1>2. PICK m0 : m0 = Append(m, Node(0))
  OBVIOUS
<1>3. PICK m1 : m1 = list_add_node(m0, list, 1)
  OBVIOUS
<1>4. PICK m3 : m3 = list_add_node(m1, list, 2)
  OBVIOUS
<1>5. IsAppended(m, m0, Node(0))
  BY <1>2, Appended, NodeType
<1>6. /\ m0 \in Memory /\ Len(m0) = L + 1 /\ list \in DOMAIN m0
      /\ m0[list] = Node(0)
  BY <1>5, MemoryType DEF IsAppended
<1>7. PICK p0 : p0 = <<list>>
  OBVIOUS
<1>8. IsList(m0, list) /\ Chain(m0, list) = p0 /\ IsPath(m0, p0) /\ p0[1] = list
  <2>1. m0[list].next = NULL
    BY <1>6, NodeType
  <2> QED BY <1>6, <1>7, <2>1, SinglePath
<1>9. GrownBy(m0, m1, p0, 1)
  BY <1>3, <1>6, <1>8, AddNode
<1>10. m1 \in Memory /\ Len(m1) = L + 2
  BY <1>6, <1>9 DEF GrownBy
<1>11. PICK p1 : p1 = Longer(m0, p0, 1)
  OBVIOUS
<1>12. IsList(m1, list) /\ Chain(m1, list) = p1
  BY <1>6, <1>8, <1>9, <1>11, ListGrown
<1>13. IsPath(m1, p1) /\ p1[1] = list /\ IsLonger(m0, p0, 1, p1)
  BY <1>6, <1>8, <1>10, <1>11, <1>12, ListType, LongerType
<1>14. GrownBy(m1, m3, p1, 1)
  BY <1>4, <1>10, <1>13, AddNode
<1>15. m3 \in Memory /\ Len(m3) = L + 3
  BY <1>10, <1>14 DEF GrownBy
<1>16. PICK p3 : p3 = Longer(m1, p1, 1)
  OBVIOUS
<1>17. IsList(m3, list) /\ Chain(m3, list) = p3 /\ IsLonger(m1, p1, 1, p3)
  BY <1>10, <1>12, <1>13, <1>14, <1>16, ListGrown, LongerType
<1>18. Len(p0) = 1 /\ Len(p1) = 2 /\ p1[2] = L + 2
  <2>1. Len(p0) = 1
    BY <1>7
  <2>2. Len(p1) = 2
    BY <1>13, <2>1 DEF IsLonger
  <2>3. 2 \in Len(p0) + 1 .. Len(p0) + 1
    BY <2>1
  <2>4. p1[2] = Len(m0) + (2 - Len(p0))
    BY <1>13, <2>3 DEF IsLonger
  <2> QED BY <1>6, <2>1, <2>2, <2>4
<1>19. Len(p3) = 3 /\ p3[2] = L + 2 /\ p3[3] = L + 3
  <2>1. Len(p3) = 3 /\ p3[2] = p1[2]
    BY <1>17, <1>18 DEF IsLonger
  <2>2. 3 \in Len(p1) + 1 .. Len(p1) + 1
    BY <1>18
  <2>3. p3[3] = Len(m1) + (3 - Len(p1))
    BY <1>17, <2>2 DEF IsLonger
  <2> QED BY <1>10, <1>18, <2>1, <2>3
<1>20. m3[L + 2].next = L + 3
  <2>1. 2 \in 1 .. Len(p3) - 1 /\ IsPath(m3, p3)
    BY <1>15, <1>17, <1>19, ListType
  <2> QED BY <1>19, <2>1 DEF IsPath
<1>21. PICK temp \in DOMAIN m3 : temp = L + 2
  BY <1>15, MemoryType
<1>22. PICK r : r = [m3[temp] EXCEPT !.next = m3[L + 3].next]
  OBVIOUS
<1>23. m2 = [m3 EXCEPT ![temp] = r]
  <2>1. m2 = list_remove_node(m3, list, NewIndex(m1, list)).m
    BY <1>2, <1>3, <1>4 DEF TestList, test_list
  <2>2. NewIndex(m1, list) = 2
    BY <1>12, <1>18 DEF NewIndex
  <2>3. list_access_node(m3, list, 1) = temp
    BY <1>17, <1>19, <1>21 DEF list_access_node, NewIndex
  <2>4. list_remove_node(m3, list, 2)
          = [m |-> [m3 EXCEPT ![temp].next = m3[m3[temp].next].next], head |-> list]
    BY <2>3 DEF list_remove_node
  <2>5. m2 = [m3 EXCEPT ![temp].next = m3[L + 3].next]
    <3>1. m3[temp].next = L + 3
      BY <1>20, <1>21
    <3>2. m2 = list_remove_node(m3, list, 2).m
      BY <2>1, <2>2
    <3>3. m2 = [m3 EXCEPT ![temp].next = m3[m3[temp].next].next]
      <4>1. PICK x : x = [m3 EXCEPT ![temp].next = m3[m3[temp].next].next]
        OBVIOUS
      <4>2. list_remove_node(m3, list, 2) = [m |-> x, head |-> list]
        BY <2>4, <4>1
      <4>3. list_remove_node(m3, list, 2).m = x
        BY <4>2
      <4> QED BY <3>2, <4>1, <4>3
    <3> QED BY <3>1, <3>3
  <2> QED BY <1>22, <2>5
<1>24. /\ r \in NodeRecords /\ r.data = m3[temp].data /\ r.child = m3[temp].child
  <2>1. m3[temp] \in NodeRecords /\ L + 3 \in DOMAIN m3
    BY <1>15, <1>21, MemoryType
  <2>2. PICK x \in Nat : x = m3[L + 3].next
    BY <1>15, <2>1, MemoryType
  <2> QED BY <1>22, <2>1, <2>2, NextSet
<1>25. IsReplaced(m3, m2, temp, r)
  <2>1. m3 \in Memory /\ r \in NodeRecords /\ m2 = [m3 EXCEPT ![temp] = r]
    BY <1>15, <1>23, <1>24
  <2> QED BY <2>1, Replaced
<1>26. m2 \in Memory /\ Len(m2) = L + 3
  BY <1>15, <1>25 DEF IsReplaced
<1>27. \A a \in DOMAIN m : m2[a].data = m[a].data /\ m2[a].next = m[a].next
  <2> TAKE a \in DOMAIN m
  <2>1. a \in 1 .. L /\ a \in DOMAIN m0 /\ a \in DOMAIN m1 /\ a \in DOMAIN m3
    BY <1>1, <1>6, <1>10, <1>15, MemoryType
  <2>2. m0[a] = m[a]
    BY <1>5 DEF IsAppended
  <2>3. m1[a].data = m0[a].data /\ m1[a].next = m0[a].next
    <3>1. p0[Len(p0)] = L + 1
      BY <1>8, <1>18
    <3> QED BY <1>9, <2>1, <3>1 DEF GrownBy
  <2>4. m3[a].data = m1[a].data /\ m3[a].next = m1[a].next
    <3>1. p1[Len(p1)] = L + 2
      BY <1>18
    <3> QED BY <1>14, <2>1, <3>1 DEF GrownBy
  <2>5. m2[a] = m3[a]
    BY <1>21, <1>25, <2>1 DEF IsReplaced
  <2> QED BY <2>2, <2>3, <2>4, <2>5
<1>28. Children(m2) \subseteq Children(m)
  <2>1. Children(m0) \subseteq Children(m)
    <3>1. \A a \in DOMAIN m0 : m0[a].child \in Children(m) \cup {NULL}
      <4> TAKE a \in DOMAIN m0
      <4>1. CASE a \in DOMAIN m
        BY <1>5, <4>1 DEF IsAppended, Children
      <4>2. CASE a = list
        BY <1>6, <4>2, NodeType
      <4> QED BY <1>1, <1>6, <4>1, <4>2, MemoryType
    <3> QED BY <3>1 DEF Children
  <2>2. Children(m1) \subseteq Children(m0) /\ Children(m3) \subseteq Children(m1)
    BY <1>6, <1>9, <1>10, <1>14, GrownChildren
  <2>3. Children(m2) \subseteq Children(m3)
    <3>1. \A a \in DOMAIN m2 : a \in DOMAIN m3 /\ m2[a].child = m3[a].child
      BY <1>15, <1>24, <1>25, <1>26, MemoryType DEF IsReplaced
    <3> QED BY <3>1 DEF Children
  <2> QED BY <2>1, <2>2, <2>3
<1>29. Len(m2) <= MaxNodes
  BY <1>26, Rooms DEF TestList
<1>30. threads' = threads /\ OnlyNodes
  BY DEF TestList
<1>31. Len(nodes) <= Len(m2)
  BY <1>26
<1> QED BY <1>1, <1>26, <1>27, <1>28, <1>29, <1>30, <1>31 DEF ThreadsMove

LEMMA Joined ==
  ASSUME NEW s \in Seq(Nat), NEW t \in Seq(Nat), NEW j \in 1 .. Len(s) + Len(t)
  PROVE  (s \o t)[j] = IF j <= Len(s) THEN s[j] ELSE t[j - Len(s)]
  OBVIOUS

(* A path without its i-th node.                                           *)
IsWithout(p, i, q) ==
  /\ q \in Seq(Nat) /\ Len(q) = Len(p) - 1
  /\ \A j \in 1 .. i - 1 : q[j] = p[j]
  /\ \A j \in i .. Len(p) - 1 : q[j] = p[j + 1]

LEMMA WithoutType ==
  ASSUME NEW p \in Seq(Nat), NEW i \in 1 .. Len(p)
  PROVE  IsWithout(p, i, RemoveAt(p, i))
<1> PICK n \in Nat : n = Len(p)
  OBVIOUS
<1>1. PICK s, t : s = SubSeq(p, 1, i - 1) /\ t = SubSeq(p, i + 1, n)
  OBVIOUS
<1> PICK q : q = RemoveAt(p, i)
  OBVIOUS
<1>2. q = s \o t
  BY <1>1 DEF RemoveAt
<1>3. s \in Seq(Nat) /\ Len(s) = i - 1 /\ \A j \in 1 .. i - 1 : s[j] = p[j]
  BY <1>1
<1>4. t \in Seq(Nat) /\ Len(t) = n - i /\ \A j \in 1 .. n - i : t[j] = p[j + i]
  <2>1. t \in Seq(Nat)
    BY <1>1
  <2>2. Len(t) = n - i
    BY <1>1, <2>1
  <2>3. \A j \in 1 .. n - i : t[j] = p[j + i]
    <3> TAKE j \in 1 .. n - i
    <3>1. t[j] = p[i + 1 + j - 1]
      <4>1. t = [k \in 1 .. n - (i + 1) + 1 |-> p[i + 1 + k - 1]]
        BY <1>1
      <4>2. j \in 1 .. n - (i + 1) + 1
        OBVIOUS
      <4> QED BY <4>1, <4>2
    <3>2. i + 1 + j - 1 = j + i
      OBVIOUS
    <3> QED BY <3>1, <3>2
  <2> QED BY <2>1, <2>2, <2>3
<1>5. s \in Seq(Nat) /\ t \in Seq(Nat) /\ Len(s) = i - 1 /\ Len(t) = n - i
  BY <1>3, <1>4
<1>6. q \in Seq(Nat) /\ Len(q) = n - 1
  <2>1. s \in Seq(Nat) /\ t \in Seq(Nat)
    BY <1>5
  <2>2. s \o t \in Seq(Nat) /\ Len(s \o t) = Len(s) + Len(t)
    BY <2>1
  <2>3. i - 1 + (n - i) = n - 1
    OBVIOUS
  <2> QED BY <1>2, <1>5, <2>2, <2>3
<1>7. \A j \in 1 .. i - 1 : q[j] = p[j]
  <2> TAKE j \in 1 .. i - 1
  <2>1. j \in 1 .. Len(s) + Len(t) /\ j <= Len(s)
    BY <1>5
  <2>2. (s \o t)[j] = s[j]
    BY <1>5, <2>1, Joined
  <2> QED BY <1>2, <1>3, <2>2
<1>8. \A j \in i .. n - 1 : q[j] = p[j + 1]
  <2> TAKE j \in i .. n - 1
  <2>1. PICK k \in 1 .. n - i : k = j - (i - 1)
    OBVIOUS
  <2>2. (s \o t)[j] = t[j - Len(s)]
    <3>1. j \in 1 .. Len(s) + Len(t) /\ ~(j <= Len(s))
      BY <1>5
    <3> QED BY <1>5, <3>1, Joined
  <2>3. t[k] = p[k + i]
    BY <1>4
  <2>4. k + i = j + 1 /\ k = j - Len(s)
    BY <1>5, <2>1
  <2> QED BY <1>2, <2>2, <2>3, <2>4
<1>9. IsWithout(p, i, q)
  BY <1>6, <1>7, <1>8 DEF IsWithout
<1> QED BY <1>9

(* How list_remove_node takes the i-th node of a path out.                 *)
TakenOut(m, m2, p, i) ==
  /\ m2 \in Memory /\ Len(m2) = Len(m)
  /\ \A a \in DOMAIN m : i = 1 \/ a # p[i - 1] => m2[a].next = m[a].next
  /\ i # 1 => m2[p[i - 1]].next = m[p[i]].next

LEMMA WithoutPath ==
  ASSUME NEW m \in Memory, NEW p, IsPath(m, p), IsInjective(p),
         NEW i \in 1 .. Len(p), Len(p) # 1, NEW m2, TakenOut(m, m2, p, i)
  PROVE  /\ IsPath(m2, RemoveAt(p, i)) /\ IsInjective(RemoveAt(p, i))
         /\ Range(RemoveAt(p, i)) \subseteq Range(p)
         /\ RemoveAt(p, i)[1] = IF i = 1 THEN p[2] ELSE p[1]
<1> PICK q : q = RemoveAt(p, i)
  OBVIOUS
<1> PICK n \in Nat \ {0, 1} : n = Len(p)
  BY PathType
<1>1. p \in Seq(Nat) /\ i \in 1 .. n /\ n <= Len(m)
  <2>1. p \in Seq(DOMAIN m) /\ DOMAIN m \subseteq Nat
    BY PathType, MemoryType
  <2> QED BY <2>1, PathType
<1>2. IsWithout(p, i, q)
  BY <1>1, WithoutType
<1>3. /\ q \in Seq(Nat) /\ Len(q) = n - 1
      /\ \A j \in 1 .. i - 1 : q[j] = p[j]
      /\ \A j \in i .. n - 1 : q[j] = p[j + 1]
  BY <1>2 DEF IsWithout
<1>4. DOMAIN m2 = DOMAIN m /\ m2 \in Memory /\ Len(m2) = Len(m)
  BY MemoryType DEF TakenOut
<1>5. \A j \in 1 .. n : p[j] \in DOMAIN m
  BY PathType
<1>6. \A j, k \in 1 .. n : p[j] = p[k] => j = k
  <2>1. DOMAIN p = 1 .. n
    BY PathType
  <2> QED BY <2>1 DEF IsInjective
<1>7. \A j \in 1 .. n - 1 : \/ j < i /\ q[j] = p[j]
                            \/ j >= i /\ q[j] = p[j + 1]
  <2> TAKE j \in 1 .. n - 1
  <2>1. i \in Int
    BY <1>1
  <2>2. CASE j < i
    <3>1. j \in 1 .. i - 1
      BY <2>1, <2>2
    <3>2. q[j] = p[j]
      BY <1>3, <3>1
    <3> QED BY <2>2, <3>2
  <2>3. CASE j >= i
    <3>1. j \in i .. n - 1
      BY <2>1, <2>3
    <3> QED BY <1>3, <2>3, <3>1
  <2> QED BY <2>1, <2>2, <2>3
<1>8. \A j \in 1 .. n - 1 : q[j] \in DOMAIN m /\ q[j] \in Range(p)
  <2> TAKE j \in 1 .. n - 1
  <2>1. \A k \in 1 .. n : p[k] \in Range(p)
    BY PathType
  <2>2. j \in 1 .. n /\ j + 1 \in 1 .. n
    OBVIOUS
  <2> QED BY <1>5, <1>7, <2>1, <2>2
<1>9. \A j \in 1 .. n : m[p[j]].next = IF j = n THEN NULL ELSE p[j + 1]
  <2> TAKE j \in 1 .. n
  <2>1. CASE j = n
    BY <2>1 DEF IsPath
  <2>2. CASE j # n
    <3>1. j \in 1 .. Len(p) - 1
      BY <2>2
    <3> QED BY <2>2, <3>1 DEF IsPath
  <2> QED BY <2>1, <2>2
<1>10. \A j \in 1 .. n : j # i - 1 => m2[p[j]].next = m[p[j]].next
  <2> SUFFICES ASSUME NEW j \in 1 .. n, j # i - 1
      PROVE  m2[p[j]].next = m[p[j]].next
    OBVIOUS
  <2>1. i = 1 \/ i - 1 \in 1 .. n
    BY <1>1
  <2>2. i = 1 \/ p[j] # p[i - 1]
    BY <1>6, <2>1
  <2> QED BY <1>5, <2>2 DEF TakenOut
<1>11. \A j \in 1 .. n - 1 :
         m2[q[j]].next = IF j = n - 1 THEN NULL ELSE q[j + 1]
  <2> TAKE j \in 1 .. n - 1
  <2>1. CASE j >= i
    <3>1. PICK k \in 1 .. n : k = j + 1
      OBVIOUS
    <3>2. q[j] = p[k] /\ k # i - 1
      BY <1>1, <1>7, <2>1, <3>1
    <3>3. m2[p[k]].next = IF k = n THEN NULL ELSE p[k + 1]
      BY <1>9, <1>10, <3>2
    <3>4. j # n - 1 => q[k] = p[k + 1]
      <4>1. j # n - 1 => k \in 1 .. n - 1 /\ ~(k < i)
        BY <1>1, <2>1, <3>1
      <4> QED BY <1>7, <4>1
    <3>5. k = n <=> j = n - 1
      BY <3>1
    <3> QED BY <3>1, <3>2, <3>3, <3>4, <3>5
  <2>2. CASE j < i - 1
    <3>1. PICK k \in 1 .. n - 1 : k = j + 1
      BY <1>1, <2>2
    <3>2. q[j] = p[j] /\ q[k] = p[k] /\ j \in 1 .. n /\ j # n /\ j # n - 1
      BY <1>1, <1>7, <2>2, <3>1
    <3>3. m2[p[j]].next = p[k]
      BY <1>9, <1>10, <2>2, <3>1, <3>2
    <3> QED BY <3>1, <3>2, <3>3
  <2>3. CASE j = i - 1
    <3>1. q[j] = p[j] /\ i # 1 /\ m2[p[j]].next = m[p[i]].next
      BY <1>1, <1>7, <2>3 DEF TakenOut
    <3>2. m[p[i]].next = IF i = n THEN NULL ELSE p[i + 1]
      BY <1>1, <1>9
    <3>3. i # n => q[i] = p[i + 1]
      <4>1. i # n => i \in 1 .. n - 1 /\ ~(i < i)
        BY <1>1
      <4> QED BY <1>7, <4>1
    <3>4. j + 1 = i /\ (i = n <=> j = n - 1)
      BY <1>1, <2>3
    <3> QED BY <3>1, <3>2, <3>3, <3>4
  <2> QED BY <1>1, <2>1, <2>2, <2>3
<1>12. IsPath(m2, q)
  <2>1. Len(q) = n - 1 /\ Len(q) \in 1 .. n - 1 /\ q # <<>>
    BY <1>3
  <2>2. q \in Seq(DOMAIN m2)
    <3>1. \A j \in 1 .. n - 1 : q[j] \in DOMAIN m2
      BY <1>4, <1>8
    <3>2. q = [j \in 1 .. n - 1 |-> q[j]] /\ n - 1 \in Nat
      BY <1>3, <2>1
    <3>3. q \in [1 .. n - 1 -> DOMAIN m2]
      BY <3>1, <3>2
    <3> QED BY <3>2, <3>3
  <2>3. Len(q) <= Len(m2)
    <3>1. Len(m) \in Nat
      BY MemoryType
    <3> QED BY <1>1, <1>4, <2>1, <3>1
  <2>4. \A j \in 1 .. Len(q) - 1 : m2[q[j]].next = q[j + 1]
    BY <1>11, <2>1
  <2>5. m2[q[Len(q)]].next = NULL
    BY <1>11, <2>1
  <2> QED BY <2>1, <2>2, <2>3, <2>4, <2>5 DEF IsPath
<1>13. IsInjective(q)
  <2>1. DOMAIN q = 1 .. n - 1
    BY <1>3
  <2>2. \A j, k \in 1 .. n - 1 : q[j] = q[k] => j = k
    <3> SUFFICES ASSUME NEW j \in 1 .. n - 1, NEW k \in 1 .. n - 1, q[j] = q[k]
        PROVE  j = k
      OBVIOUS
    <3>1. PICK jj \in 1 .. n : q[j] = p[jj] /\ jj = IF j < i THEN j ELSE j + 1
      <4>1. PICK x \in 1 .. n : x = IF j < i THEN j ELSE j + 1
        <5>1. j \in 1 .. n /\ j + 1 \in 1 .. n
          BY <1>1
        <5> QED BY <5>1
      <4>2. q[j] = p[x]
        <5>1. CASE j < i
          BY <1>1, <1>7, <4>1, <5>1
        <5>2. CASE ~(j < i)
          BY <1>1, <1>7, <4>1, <5>2
        <5> QED BY <5>1, <5>2
      <4> QED BY <4>1, <4>2
    <3>2. PICK kk \in 1 .. n : q[k] = p[kk] /\ kk = IF k < i THEN k ELSE k + 1
      <4>1. PICK x \in 1 .. n : x = IF k < i THEN k ELSE k + 1
        <5>1. k \in 1 .. n /\ k + 1 \in 1 .. n
          BY <1>1
        <5> QED BY <5>1
      <4>2. q[k] = p[x]
        <5>1. CASE k < i
          BY <1>1, <1>7, <4>1, <5>1
        <5>2. CASE ~(k < i)
          BY <1>1, <1>7, <4>1, <5>2
        <5> QED BY <5>1, <5>2
      <4> QED BY <4>1, <4>2
    <3>3. jj = kk
      BY <1>6, <3>1, <3>2
    <3> QED BY <1>1, <3>1, <3>2, <3>3
  <2> QED BY <2>1, <2>2 DEF IsInjective
<1>14. Range(q) \subseteq Range(p)
  <2>1. DOMAIN q = 1 .. n - 1
    BY <1>3
  <2> QED BY <1>8, <2>1 DEF Range
<1>15. q[1] = IF i = 1 THEN p[2] ELSE p[1]
  <2>1. 1 \in 1 .. n - 1 /\ (1 < i <=> i # 1) /\ 1 + 1 = 2
    BY <1>1
  <2> QED BY <1>7, <2>1
<1> QED BY <1>12, <1>13, <1>14, <1>15

(* The list of threads with its nodes in another order, or without some.   *)
Reordered(q) ==
  /\ OnlyNodes /\ nodes' \in Memory /\ Len(nodes') = Len(nodes)
  /\ \A a \in DOMAIN nodes :
       /\ nodes'[a].data = nodes[a].data /\ nodes'[a].child = nodes[a].child
       /\ a \notin On(nodes, threads) => nodes'[a].next = nodes[a].next
  /\ IsPath(nodes', q) /\ IsInjective(q) /\ Range(q) \subseteq On(nodes, threads)
  /\ q[1] = threads'

LEMMA ReorderedMoves ==
  ASSUME RamdiskInv, NEW q, Reordered(q)
  PROVE  /\ ThreadsMove(On(nodes, threads), {threads}, {threads'})
         /\ Chain(nodes', threads') = q
<1> PICK m2 : m2 = nodes'
  OBVIOUS
<1> PICK t : t = threads'
  OBVIOUS
<1>1. /\ nodes \in Memory /\ threads \in Heads
      /\ DOMAIN nodes = 1 .. Len(nodes) /\ Len(nodes) \in Nat
  BY ThreadsList, MemoryType
<1>2. m2 \in Memory /\ Len(m2) = Len(nodes) /\ DOMAIN m2 = DOMAIN nodes
  BY <1>1, MemoryType DEF Reordered
<1>3. IsPath(m2, q) /\ IsInjective(q) /\ q[1] = t
  BY DEF Reordered
<1>4. IsList(m2, t) /\ Chain(m2, t) = q /\ On(m2, t) = Range(q)
  BY <1>2, <1>3, ListIs
<1>5. On(m2, t) \subseteq On(nodes, threads) /\ t \in On(m2, t)
  BY <1>2, <1>4, ListType DEF Reordered
<1>6. Children(m2) = Children(nodes)
  BY <1>2 DEF Children, Reordered
<1>7. \A h \in Heads : h \notin {threads} => On(nodes, h) \cap On(nodes, threads) = {}
  BY <1>1, HeadsApart
<1>8. t \notin Children(m2)
  <2> SUFFICES ASSUME t \in Children(nodes) PROVE FALSE
    BY <1>6
  <2>1. t \in Heads /\ t # threads
    BY HeadsAre, ThreadsList
  <2>2. t \in On(nodes, t)
    BY <2>1, HeadIsList
  <2> QED BY <1>5, <1>7, <2>1, <2>2
<1>9. threads \notin Children(nodes)
  BY ThreadsList
<1>10. Len(m2) <= MaxNodes /\ Len(nodes) <= Len(m2)
  BY <1>1, <1>2, RamdiskAssumption DEF RamdiskInv, TypeInv
<1>11. \A a \in DOMAIN nodes :
         /\ m2[a].data = nodes[a].data
         /\ a \notin On(nodes, threads) => m2[a].next = nodes[a].next
  BY DEF Reordered
<1>12. OnlyNodes
  BY DEF Reordered
<1>13. ThreadsMove(On(nodes, threads), {threads}, {threads'})
  BY <1>1, <1>2, <1>4, <1>5, <1>6, <1>7, <1>8, <1>9, <1>10, <1>11, <1>12 DEF ThreadsMove
<1> QED BY <1>4, <1>13

LEMMA RemoveReorders ==
  ASSUME RamdiskInv, OnlyNodes, NEW p, p = Chain(nodes, threads),
         NEW index \in 0 .. Len(p) - 1, Len(p) > 1,
         nodes' = list_remove_node(nodes, threads, index).m,
         threads' = list_remove_node(nodes, threads, index).head
  PROVE  Reordered(RemoveAt(p, index + 1))
<1> PICK m2 : m2 = nodes'
  OBVIOUS
<1> PICK t : t = threads'
  OBVIOUS
<1>1. /\ nodes \in Memory /\ IsPath(nodes, p) /\ IsInjective(p) /\ p[1] = threads
      /\ On(nodes, threads) = Range(p)
  BY ThreadsList DEF On
<1>2. PICK n \in Nat : n = Len(p) /\ n > 1
  BY <1>1, PathType
<1>3. PICK i \in 1 .. Len(p) : i = index + 1
  BY <1>2
<1>4. \A j \in 1 .. n : p[j] \in DOMAIN nodes /\ p[j] \in On(nodes, threads)
  BY <1>1, <1>2, PathType
<1>5. /\ m2 \in Memory /\ Len(m2) = Len(nodes)
      /\ \A a \in DOMAIN nodes :
           /\ m2[a].data = nodes[a].data /\ m2[a].child = nodes[a].child
           /\ i = 1 \/ a # p[i - 1] => m2[a].next = nodes[a].next
      /\ i # 1 => m2[p[i - 1]].next = nodes[p[i]].next
      /\ t = IF i = 1 THEN p[2] ELSE p[1]
  <2>1. CASE index = 0
    <3>1. m2 = nodes /\ t = nodes[threads].next
      BY <2>1 DEF list_remove_node
    <3>2. nodes[p[1]].next = p[2]
      <4>1. 1 \in 1 .. Len(p) - 1
        BY <1>2
      <4> QED BY <1>1, <4>1 DEF IsPath
    <3> QED BY <1>1, <1>3, <2>1, <3>1, <3>2
  <2>2. CASE index # 0
    <3>1. index \in 1 .. n - 1 /\ index \in 1 .. n /\ i - 1 = index /\ i # 1 /\ i \in 1 .. n
      BY <1>2, <1>3, <2>2
    <3>2. PICK temp \in DOMAIN nodes : temp = p[index]
      BY <1>4, <3>1
    <3>3. list_access_node(nodes, threads, index - 1) = temp
      <4>1. PICK j : j = index - 1
        OBVIOUS
      <4>2. j < Len(p) /\ j + 1 = index
        BY <1>2, <3>1, <4>1
      <4>3. list_access_node(nodes, threads, j) = temp
        BY <3>2, <4>2 DEF list_access_node, NewIndex
      <4> QED BY <4>1, <4>3
    <3>4. nodes[temp].next = p[i]
      BY <1>1, <1>2, <1>3, <3>1, <3>2 DEF IsPath
    <3>5. PICK x \in Nat : x = nodes[p[i]].next
      BY <1>1, <1>4, <3>1, MemoryType
    <3>6. PICK r : r = [nodes[temp] EXCEPT !.next = x]
      OBVIOUS
    <3>7. PICK m1 : m1 = [nodes EXCEPT ![temp] = r]
      OBVIOUS
    <3>8. list_remove_node(nodes, threads, index) = [m |-> m1, head |-> threads]
      <4>1. [nodes EXCEPT ![temp].next = nodes[nodes[temp].next].next] = m1
        BY <3>4, <3>5, <3>6, <3>7
      <4> QED BY <2>2, <3>3, <4>1 DEF list_remove_node
    <3>9. m2 = m1 /\ t = threads
      BY <3>8
    <3>10. /\ r \in NodeRecords /\ r.next = x
           /\ r.data = nodes[temp].data /\ r.child = nodes[temp].child
      BY <1>1, <3>2, <3>5, <3>6, NextSet, MemoryType
    <3>11. IsReplaced(nodes, m2, temp, r)
      <4>1. nodes \in Memory /\ r \in NodeRecords /\ m2 = [nodes EXCEPT ![temp] = r]
        BY <1>1, <3>7, <3>9, <3>10
      <4> QED BY <4>1, Replaced
    <3>12. m2 \in Memory /\ Len(m2) = Len(nodes)
      BY <3>11 DEF IsReplaced
    <3>13. \A a \in DOMAIN nodes :
             /\ m2[a].data = nodes[a].data /\ m2[a].child = nodes[a].child
             /\ a # temp => m2[a].next = nodes[a].next
      BY <3>10, <3>11 DEF IsReplaced
    <3>14. m2[temp].next = x
      BY <3>10, <3>11 DEF IsReplaced
    <3> QED BY <1>1, <3>1, <3>2, <3>5, <3>9, <3>12, <3>13, <3>14
  <2> QED BY <2>1, <2>2
<1>6. TakenOut(nodes, m2, p, i)
  BY <1>5 DEF TakenOut
<1>7. PICK q : q = RemoveAt(p, i)
  OBVIOUS
<1>8. /\ IsPath(m2, q) /\ IsInjective(q) /\ Range(q) \subseteq Range(p)
      /\ q[1] = IF i = 1 THEN p[2] ELSE p[1]
  <2>1. Len(p) # 1
    BY <1>2
  <2> QED BY <1>1, <1>6, <1>7, <2>1, WithoutPath
<1>9. \A a \in DOMAIN nodes :
        a \notin On(nodes, threads) => m2[a].next = nodes[a].next
  <2>1. i = 1 \/ p[i - 1] \in On(nodes, threads)
    <3>1. i = 1 \/ i - 1 \in 1 .. n
      BY <1>2, <1>3
    <3> QED BY <1>4, <3>1
  <2> QED BY <1>5, <2>1
<1>10. Reordered(q)
  BY <1>1, <1>5, <1>8, <1>9 DEF Reordered
<1> QED BY <1>3, <1>7, <1>10

LEMMA RotatedType ==
  ASSUME NEW p \in Seq(Nat), NEW n \in Nat \ {0}, Len(p) = n,
         NEW q, q = Append(Tail(p), Head(p))
  PROVE  /\ q \in Seq(Nat) /\ Len(q) = n /\ q[n] = p[1]
         /\ \A j \in 1 .. n - 1 : q[j] = p[j + 1]
<1>1. PICK s : s = Tail(p)
  OBVIOUS
<1>2. p # <<>>
  OBVIOUS
<1>3. s \in Seq(Nat) /\ Len(s) = n - 1 /\ \A j \in 1 .. n - 1 : s[j] = p[j + 1]
  BY <1>1, <1>2
<1>4. p[1] \in Nat /\ Head(p) = p[1]
  BY <1>2
<1>5. q = Append(s, p[1])
  BY <1>1, <1>4
<1> QED BY <1>3, <1>4, <1>5

LEMMA MoveReorders ==
  ASSUME RamdiskInv, MoveToEnd, NEW p, p = Chain(nodes, threads),
         nodes[threads].next # NULL
  PROVE  Reordered(Append(Tail(p), Head(p)))
<1> PICK m2 : m2 = nodes'
  OBVIOUS
<1> PICK t : t = threads'
  OBVIOUS
<1>1. /\ nodes \in Memory /\ IsPath(nodes, p) /\ IsInjective(p) /\ p[1] = threads
      /\ On(nodes, threads) = Range(p)
  BY ThreadsList DEF On
<1>2. PICK n \in Nat \ {0} : n = Len(p)
  BY <1>1, PathType
<1>3. n > 1
  <2>1. n # 1
    BY <1>1, <1>2 DEF IsPath
  <2> QED BY <2>1
<1>4. \A j \in 1 .. n : p[j] \in DOMAIN nodes /\ p[j] \in Nat /\ p[j] \in Range(p)
  BY <1>1, <1>2, PathType
<1>5. \A j, k \in 1 .. n : p[j] = p[k] => j = k
  <2>1. DOMAIN p = 1 .. n
    BY <1>1, <1>2, PathType
  <2> QED BY <1>1, <2>1 DEF IsInjective
<1>6. \A j \in 1 .. n - 1 : nodes[p[j]].next = p[j + 1]
  BY <1>1, <1>2 DEF IsPath
<1>7. PICK last \in DOMAIN nodes, head \in DOMAIN nodes : last = p[n] /\ head = p[1]
  <2>1. 1 \in 1 .. n /\ n \in 1 .. n
    BY <1>2
  <2> QED BY <1>4, <2>1
<1>8. last # head
  <2>1. 1 \in 1 .. n /\ n \in 1 .. n
    BY <1>2
  <2> QED BY <1>3, <1>5, <1>7, <2>1
<1>9. PICK r, r1 : /\ r = [nodes[last] EXCEPT !.next = head]
                   /\ r1 = [nodes[head] EXCEPT !.next = NULL]
  OBVIOUS
<1>10. PICK m1 : m1 = [nodes EXCEPT ![last] = r]
  OBVIOUS
<1>11. /\ r \in NodeRecords /\ r.next = head
       /\ r.data = nodes[last].data /\ r.child = nodes[last].child
  <2>1. nodes[last] \in NodeRecords /\ head \in Nat
    BY <1>1, <1>7, MemoryType
  <2> QED BY <1>9, <2>1, NextSet
<1>12. /\ r1 \in NodeRecords /\ r1.next = NULL
       /\ r1.data = nodes[head].data /\ r1.child = nodes[head].child
  <2>1. nodes[head] \in NodeRecords /\ NULL \in Nat
    BY <1>1, <1>7, MemoryType DEF NULL
  <2> QED BY <1>9, <2>1, NextSet
<1>13. IsReplaced(nodes, m1, last, r)
  BY <1>1, <1>7, <1>10, <1>11, Replaced
<1>14. m1 \in Memory /\ DOMAIN m1 = DOMAIN nodes /\ m1[head] = nodes[head]
  BY <1>1, <1>7, <1>8, <1>13, MemoryType DEF IsReplaced
<1>15. OnlyNodes /\ m2 = [m1 EXCEPT ![head] = r1] /\ t = p[2]
  <2>1. Last(Chain(nodes, threads)) = last
    BY <1>1, <1>2, <1>7, PathType
  <2>2. [nodes EXCEPT ![last].next = head, ![head].next = NULL] = [m1 EXCEPT ![head] = r1]
    <3>1. [nodes EXCEPT ![last].next = head] = m1
      BY <1>9, <1>10
    <3>2. [m1 EXCEPT ![head].next = NULL] = [m1 EXCEPT ![head] = r1]
      BY <1>9, <1>14
    <3> QED BY <3>1, <3>2
  <2>3. nodes[threads].next = p[2]
    <3>1. 1 \in 1 .. n - 1
      BY <1>3
    <3> QED BY <1>1, <1>6, <3>1
  <2>4. list_move_to_end(nodes, threads)
          = [m |-> [nodes EXCEPT ![last].next = head, ![head].next = NULL], head |-> p[2]]
    BY <1>1, <1>7, <2>1, <2>3 DEF list_move_to_end, Moved
  <2>5. PICK moved : moved = list_move_to_end(nodes, threads)
    OBVIOUS
  <2>6. moved = [m |-> [m1 EXCEPT ![head] = r1], head |-> p[2]]
    BY <2>2, <2>4, <2>5
  <2>7. m2 = moved.m /\ t = moved.head /\ OnlyNodes
    BY <2>5 DEF MoveToEnd
  <2> QED BY <2>6, <2>7
<1>16. IsReplaced(m1, m2, head, r1)
  <2>1. m1 \in Memory /\ head \in DOMAIN m1 /\ r1 \in NodeRecords
    BY <1>7, <1>12, <1>14
  <2>2. m2 = [m1 EXCEPT ![head] = r1]
    BY <1>15
  <2> QED BY <2>1, <2>2, Replaced
<1>17. m2 \in Memory /\ Len(m2) = Len(nodes) /\ DOMAIN m2 = DOMAIN nodes
  BY <1>1, <1>13, <1>14, <1>16, MemoryType DEF IsReplaced
<1>18. \A a \in DOMAIN nodes :
         /\ m2[a].data = nodes[a].data /\ m2[a].child = nodes[a].child
         /\ m2[a].next = IF a = head THEN NULL ELSE IF a = last THEN head
                         ELSE nodes[a].next
  <2> TAKE a \in DOMAIN nodes
  <2>1. m2[a] = IF a = head THEN r1 ELSE IF a = last THEN r ELSE nodes[a]
    BY <1>7, <1>8, <1>13, <1>14, <1>16 DEF IsReplaced
  <2>2. CASE a = head
    BY <1>12, <2>1, <2>2
  <2>3. CASE a # head /\ a = last
    BY <1>11, <2>1, <2>3
  <2>4. CASE a # head /\ a # last
    BY <2>1, <2>4
  <2> QED BY <2>2, <2>3, <2>4
<1>19. PICK q : q = Append(Tail(p), Head(p))
  OBVIOUS
<1>20. p \in Seq(Nat)
  <2>1. p \in Seq(DOMAIN nodes) /\ DOMAIN nodes \subseteq Nat
    BY <1>1, PathType, MemoryType
  <2> QED BY <2>1
<1>21. /\ q \in Seq(Nat) /\ Len(q) = n /\ q[n] = head
       /\ \A j \in 1 .. n - 1 : q[j] = p[j + 1]
  BY <1>2, <1>7, <1>19, <1>20, RotatedType
<1>22. \A j \in 1 .. n : q[j] = IF j = n THEN p[1] ELSE p[j + 1]
  BY <1>7, <1>21
<1>23. \A j \in 1 .. n : q[j] \in DOMAIN m2 /\ q[j] \in Range(p)
  <2> TAKE j \in 1 .. n
  <2>1. 1 \in 1 .. n /\ (j # n => j + 1 \in 1 .. n)
    BY <1>2
  <2> QED BY <1>4, <1>17, <1>22, <2>1
<1>24. \A j \in 1 .. n - 1 : m2[q[j]].next = q[j + 1]
  <2> TAKE j \in 1 .. n - 1
  <2>1. PICK k \in 1 .. n : k = j + 1
    OBVIOUS
  <2>2. q[j] = p[k] /\ p[k] \in DOMAIN nodes /\ p[k] # head
    <3>1. 1 \in 1 .. n /\ k # 1
      BY <2>1
    <3> QED BY <1>4, <1>5, <1>7, <1>21, <2>1, <3>1
  <2>3. CASE k = n
    BY <1>7, <1>18, <1>21, <2>1, <2>2, <2>3
  <2>4. CASE k # n
    <3>1. k \in 1 .. n - 1 /\ n \in 1 .. n
      BY <2>1, <2>4
    <3>2. p[k] # last
      BY <1>5, <1>7, <2>4, <3>1
    <3>3. m2[p[k]].next = p[k + 1] /\ q[k] = p[k + 1]
      BY <1>6, <1>18, <1>21, <2>2, <3>1, <3>2
    <3> QED BY <2>1, <2>2, <3>3
  <2> QED BY <2>3, <2>4
<1>25. IsPath(m2, q)
  <2>1. q \in Seq(DOMAIN m2) /\ q # <<>>
    BY <1>21, <1>23
  <2>2. Len(q) <= Len(m2)
    BY <1>1, <1>2, <1>17, <1>21, PathType
  <2>3. m2[q[Len(q)]].next = NULL
    BY <1>7, <1>18, <1>21
  <2> QED BY <1>21, <1>24, <2>1, <2>2, <2>3 DEF IsPath
<1>26. IsInjective(q)
  <2>1. DOMAIN q = 1 .. n
    BY <1>21
  <2>2. \A j, k \in 1 .. n : q[j] = q[k] => j = k
    <3> SUFFICES ASSUME NEW j \in 1 .. n, NEW k \in 1 .. n, q[j] = q[k]
        PROVE  j = k
      OBVIOUS
    <3>1. PICK jj \in 1 .. n : jj = IF j = n THEN 1 ELSE j + 1
      BY <1>2
    <3>2. PICK kk \in 1 .. n : kk = IF k = n THEN 1 ELSE k + 1
      BY <1>2
    <3>3. q[j] = p[jj]
      BY <1>22, <3>1
    <3>4. q[k] = p[kk]
      BY <1>22, <3>2
    <3>5. jj = kk
      BY <1>5, <3>3, <3>4
    <3> QED BY <3>1, <3>2, <3>5
  <2> QED BY <2>1, <2>2 DEF IsInjective
<1>27. Range(q) \subseteq Range(p)
  <2>1. DOMAIN q = 1 .. n
    BY <1>21
  <2> QED BY <1>23, <2>1 DEF Range
<1>28. q[1] = t
  <2>1. 1 \in 1 .. n - 1 /\ 1 + 1 = 2
    BY <1>3
  <2> QED BY <1>15, <1>21, <2>1
<1>29. \A a \in DOMAIN nodes :
         a \notin On(nodes, threads) => m2[a].next = nodes[a].next
  <2>1. head \in Range(p) /\ last \in Range(p)
    <3>1. 1 \in 1 .. n /\ n \in 1 .. n
      BY <1>2
    <3> QED BY <1>4, <1>7, <3>1
  <2> QED BY <1>1, <1>18, <2>1
<1>30. Reordered(q)
  BY <1>1, <1>15, <1>17, <1>18, <1>25, <1>26, <1>27, <1>28, <1>29 DEF Reordered
<1> QED BY <1>19, <1>30

(* What a step with the list of threads comes to: it is now q.             *)
ThreadsGo(q) ==
  /\ RamdiskInv' /\ OnlyNodes /\ Chain(nodes', threads') = q
  /\ Kept(nodes, nodes', FileHeads \cup DiskHeads)

LEMMA ThreadsMoved ==
  ASSUME RamdiskInv, NEW S, NEW C, NEW N, ThreadsMove(S, C, N),
         NEW q, Chain(nodes', threads') = q
  PROVE  ThreadsGo(q)
<1>1. /\ RamdiskInv' /\ Kept(nodes, nodes', Heads \ C)
      /\ FileHeads \cup DiskHeads \subseteq Heads \ C
  BY ThreadsStep
<1>2. Kept(nodes, nodes', FileHeads \cup DiskHeads)
  BY <1>1 DEF Kept
<1> QED BY <1>1, <1>2 DEF ThreadsGo, ThreadsMove

(* The list itself stays if it is not among those that change.             *)
LEMMA ThreadsStay ==
  ASSUME RamdiskInv, NEW S, NEW C, NEW N, ThreadsMove(S, C, N),
         threads' = threads, threads \notin C
  PROVE  ThreadsGo(Chain(nodes, threads))
<1>1. Kept(nodes, nodes', Heads \ C) /\ threads \in Heads \ C
  BY ThreadsStep, ThreadsList
<1>2. PICK q : q = Chain(nodes, threads)
  OBVIOUS
<1>3. Chain(nodes', threads') = q
  BY <1>1, <1>2 DEF Kept
<1>4. ThreadsGo(q)
  BY <1>3, ThreadsMoved
<1> QED BY <1>2, <1>4

LEMMA AddThreadGoes ==
  ASSUME RamdiskInv, AddThread
  PROVE  ThreadsGo(Longer(nodes, Chain(nodes, threads), 1))
<1>1. PICK q : q = Longer(nodes, Chain(nodes, threads), 1)
  OBVIOUS
<1>2. ThreadsMove(On(nodes, threads), {threads}, {threads}) /\ Chain(nodes', threads') = q
  BY <1>1, AddThreadMoves
<1>3. ThreadsGo(q)
  BY <1>2, ThreadsMoved
<1> QED BY <1>1, <1>3

LEMMA AddChildGoes ==
  ASSUME RamdiskInv, AddChild
  PROVE  ThreadsGo(Chain(nodes, threads))
<1>1. threads' = threads /\ threads \notin Children(nodes) /\ threads \in DOMAIN nodes
  BY ThreadsList, HeadIsList DEF AddChild
<1>2. CASE nodes[threads].child = NULL
  BY <1>1, <1>2, FirstChild, ThreadsStay
<1>3. CASE nodes[threads].child # NULL
  <2>1. PICK c : c = nodes[threads].child
    OBVIOUS
  <2>2. threads \notin {c}
    BY <1>1, <1>3, <2>1 DEF Children
  <2>3. ThreadsMove(On(nodes, c), {c}, {c})
    BY <1>3, <2>1, SecondChild
  <2> QED BY <1>1, <2>2, <2>3, ThreadsStay
<1> QED BY <1>2, <1>3

LEMMA TestListGoes ==
  ASSUME RamdiskInv, TestList
  PROVE  ThreadsGo(Chain(nodes, threads))
<1>1. threads' = threads /\ ThreadsMove({}, {}, {})
  BY TestListMoves DEF TestList
<1> QED BY <1>1, ThreadsStay

LEMMA RemoveThreadGoes ==
  ASSUME RamdiskInv, RemoveThread
  PROVE  \E i \in 1 .. Len(Chain(nodes, threads)) :
           ThreadsGo(RemoveAt(Chain(nodes, threads), i))
<1>1. PICK p : p = Chain(nodes, threads)
  OBVIOUS
<1>2. PICK index \in 0 .. Len(p) - 1 :
        /\ Len(p) > 1 /\ OnlyNodes
        /\ nodes' = list_remove_node(nodes, threads, index).m
        /\ threads' = list_remove_node(nodes, threads, index).head
  BY <1>1 DEF RemoveThread
<1>3. PICK q : q = RemoveAt(p, index + 1)
  OBVIOUS
<1>4. Reordered(q)
  BY <1>1, <1>2, <1>3, RemoveReorders
<1>5. /\ ThreadsMove(On(nodes, threads), {threads}, {threads'})
      /\ Chain(nodes', threads') = q
  BY <1>4, ReorderedMoves
<1>6. ThreadsGo(q)
  BY <1>5, ThreadsMoved
<1>7. index + 1 \in 1 .. Len(p)
  BY <1>1, ThreadsList, PathType
<1> QED BY <1>1, <1>3, <1>6, <1>7

LEMMA MoveToEndGoes ==
  ASSUME RamdiskInv, MoveToEnd, NEW p, p = Chain(nodes, threads)
  PROVE  ThreadsGo(p) \/ ThreadsGo(Append(Tail(p), Head(p)))
<1>1. CASE nodes[threads].next = NULL
  <2>1. PICK moved : moved = list_move_to_end(nodes, threads)
    OBVIOUS
  <2>2. moved = [m |-> nodes, head |-> threads]
    BY <1>1, <2>1 DEF list_move_to_end
  <2>3. nodes' = moved.m /\ threads' = moved.head /\ OnlyNodes
    BY <2>1 DEF MoveToEnd
  <2>4. nodes' = nodes /\ threads' = threads /\ OnlyNodes
    BY <2>2, <2>3
  <2>5. /\ nodes \in Memory /\ threads \notin Children(nodes)
        /\ Len(nodes) <= MaxNodes /\ Len(nodes) <= Len(nodes)
    <3>1. Len(nodes) \in 1 .. MaxNodes
      BY DEF RamdiskInv, TypeInv
    <3> QED BY <3>1, ThreadsList, MemoryType, RamdiskAssumption
  <2>6. ThreadsMove({}, {}, {})
    BY <2>4, <2>5 DEF ThreadsMove
  <2> QED BY <2>4, <2>6, ThreadsStay
<1>2. CASE nodes[threads].next # NULL
  <2>1. PICK q : q = Append(Tail(p), Head(p))
    OBVIOUS
  <2>2. Reordered(q)
    BY <1>2, <2>1, MoveReorders
  <2>3. /\ ThreadsMove(On(nodes, threads), {threads}, {threads'})
        /\ Chain(nodes', threads') = q
    BY <2>2, ReorderedMoves
  <2>4. ThreadsGo(q)
    BY <2>3, ThreadsMoved
  <2> QED BY <2>1, <2>4
<1> QED BY <1>1, <1>2

----------------------------------------------------------------------------
(* The steps of the ram disk                                               *)

(* A step that adds nodes and lists them, and takes no head away.          *)
DiskMove(S, C, N) ==
  /\ nodes' \in Memory /\ Len(nodes) <= Len(nodes')
  /\ C \subseteq FileHeads \cup DiskHeads
  /\ \A a \in DOMAIN nodes : a \notin S => nodes'[a].next = nodes[a].next
  /\ \A h \in Heads : h \notin C => On(nodes, h) \cap S = {}
  /\ \A h \in N : IsList(nodes', h) /\ On(nodes', h) \cap DOMAIN nodes \subseteq S
  /\ \A h, k \in N : h # k => On(nodes', h) \cap On(nodes', k) = {}
  /\ Heads' \subseteq (Heads \ C) \cup N

LEMMA DiskStep ==
  ASSUME RamdiskInv, NEW S, NEW C, NEW N, DiskMove(S, C, N)
  PROVE  /\ Apart(nodes, Heads)' /\ Kept(nodes, nodes', Heads \ C)
         /\ threads \in Heads \ C /\ Children(nodes) \subseteq Heads \ C
<1>1. PICK m, m2, H, H2 : m = nodes /\ m2 = nodes' /\ H = Heads /\ H2 = Heads'
  OBVIOUS
<1>2. m \in Memory /\ Apart(m, H)
  BY <1>1 DEF RamdiskInv, TypeInv
<1>3. /\ m2 \in Memory /\ Len(m) <= Len(m2) /\ H2 \subseteq (H \ C) \cup N
      /\ \A a \in DOMAIN m : a \notin S => m2[a].next = m[a].next
      /\ \A h \in H : h \notin C => On(m, h) \cap S = {}
  BY <1>1 DEF DiskMove
<1>4. /\ \A h \in N : IsList(m2, h) /\ On(m2, h) \cap DOMAIN m \subseteq S
      /\ \A h, k \in N : h # k => On(m2, h) \cap On(m2, k) = {}
  BY <1>1 DEF DiskMove
<1>5. Rearranged(m, m2, H, H2, S, C, N)
  BY <1>2, <1>3, <1>4 DEF Rearranged
<1>6. Apart(m2, H2) /\ Kept(m, m2, H \ C)
  BY <1>5, ListsStep
<1>7. Apart(nodes, Heads)'
  BY <1>1, <1>6
<1>8. threads \in Heads \ C /\ Children(nodes) \subseteq Heads \ C
  <2>1. Heads = {threads} \cup FileHeads \cup DiskHeads \cup Children(nodes)
    BY HeadsAre
  <2>2. C \subseteq FileHeads \cup DiskHeads
    BY DEF DiskMove
  <2>3. ({threads} \cup Children(nodes)) \cap (FileHeads \cup DiskHeads) = {}
    BY DEF RamdiskInv, RolesApart, DiskHeads
  <2> QED BY <2>1, <2>2, <2>3
<1> QED BY <1>1, <1>6, <1>7, <1>8

LEMMA load_ramdiskMoves ==
  ASSUME RamdiskInv, load_ramdisk
  PROVE  /\ DiskMove({}, {}, {Len(nodes) + 1})
         /\ IsAppended(nodes, nodes', Node(0)) /\ Children(nodes') \subseteq Children(nodes)
         /\ Chain(nodes', Len(nodes) + 1) = <<Len(nodes) + 1>>
<1> PICK m2 : m2 = nodes'
  OBVIOUS
<1> PICK L \in Nat : L = Len(nodes)
  BY ThreadsList, MemoryType
<1>1. nodes \in Memory /\ DOMAIN nodes = 1 .. L
  BY ThreadsList, MemoryType
<1>2. IsAppended(nodes, m2, Node(0))
  BY <1>1, Appended, NodeType DEF load_ramdisk
<1>3. /\ m2 \in Memory /\ Len(m2) = L + 1 /\ DOMAIN m2 = 1 .. L + 1
      /\ m2[L + 1] = Node(0) /\ \A a \in DOMAIN nodes : m2[a] = nodes[a]
  BY <1>2, MemoryType DEF IsAppended
<1>4. PICK h \in DOMAIN m2 : h = L + 1
  BY <1>3
<1>5. IsList(m2, h) /\ Chain(m2, h) = <<h>> /\ On(m2, h) = {h}
  <2>1. m2[h].next = NULL
    BY <1>3, <1>4, NodeType
  <2> QED BY <1>3, <2>1, SinglePath
<1>6. Children(m2) \subseteq Children(nodes)
  <2>1. \A a \in DOMAIN m2 : m2[a].child # NULL => m2[a].child \in Children(nodes)
    <3> TAKE a \in DOMAIN m2
    <3>1. CASE a \in DOMAIN nodes
      BY <1>3, <3>1 DEF Children
    <3>2. CASE a \notin DOMAIN nodes
      <4>1. a = L + 1
        BY <1>1, <1>3, <3>2
      <4> QED BY <1>3, <4>1, NodeType
    <3> QED BY <3>1, <3>2
  <2> QED BY <2>1 DEF Children
<1>7. Heads' \subseteq Heads \cup {h}
  <2>1. /\ Heads = {threads} \cup FileHeads \cup DiskHeads \cup Children(nodes)
        /\ Heads' = {threads'} \cup FileHeads' \cup DiskHeads' \cup Children(nodes')
    BY HeadsAre
  <2>2. threads' = threads /\ descs' = descs /\ disk_head' = h
    BY <1>4 DEF load_ramdisk
  <2>3. FileHeads' = FileHeads
    BY <2>2 DEF FileHeads, FileHead
  <2>4. DiskHeads' \subseteq {h}
    BY <2>2 DEF DiskHeads
  <2> QED BY <1>6, <2>1, <2>2, <2>3, <2>4
<1>8. h \notin DOMAIN nodes
  BY <1>1, <1>4
<1>9. DiskMove({}, {}, {h})
  <2>1. \A k \in {h} : IsList(nodes', k) /\ On(nodes', k) \cap DOMAIN nodes \subseteq {}
    BY <1>5, <1>8
  <2>2. \A a \in DOMAIN nodes : nodes'[a].next = nodes[a].next
    BY <1>3
  <2>3. nodes' \in Memory /\ Len(nodes) <= Len(nodes')
    BY <1>3
  <2> QED BY <1>7, <2>1, <2>2, <2>3 DEF DiskMove
<1> QED BY <1>2, <1>4, <1>5, <1>6, <1>9

LEMMA HeadsIn ==
  ASSUME RamdiskInv
  PROVE  /\ Heads \subseteq DOMAIN nodes /\ threads \in DOMAIN nodes
         /\ FileHeads \subseteq DOMAIN nodes /\ DiskHeads \subseteq DOMAIN nodes
         /\ Children(nodes) \subseteq DOMAIN nodes
<1>1. Heads \subseteq DOMAIN nodes
  BY HeadIsList
<1>2. Heads = {threads} \cup FileHeads \cup DiskHeads \cup Children(nodes)
  BY HeadsAre
<1> QED BY <1>1, <1>2

(* What load_ramdisk comes to.                                             *)
LEMMA load_ramdiskGoes ==
  ASSUME RamdiskInv, load_ramdisk
  PROVE  /\ RamdiskInv' /\ Chain(nodes', disk_head') = <<Len(nodes) + 1>>
         /\ Kept(nodes, nodes', {threads} \cup FileHeads)
<1> PICK m2 : m2 = nodes'
  OBVIOUS
<1> PICK L \in Nat : L = Len(nodes)
  BY ThreadsList, MemoryType
<1> PICK h \in Nat : h = L + 1
  OBVIOUS
<1>1. TypeInv /\ RolesApart /\ DataInv /\ nodes \in Memory /\ DOMAIN nodes = 1 .. L
  BY ThreadsList, MemoryType DEF RamdiskInv
<1>2. /\ threads' = threads /\ descs' = descs /\ disk_head' = h
      /\ blocks' = blocks /\ wrote' = wrote /\ disk_head = NULL
  BY DEF load_ramdisk
<1>3. /\ DiskMove({}, {}, {h}) /\ Chain(m2, h) = <<h>>
      /\ IsAppended(nodes, m2, Node(0)) /\ Children(m2) \subseteq Children(nodes)
  BY load_ramdiskMoves
<1>4. Apart(nodes, Heads)' /\ Kept(nodes, nodes', Heads)
  BY <1>3, DiskStep
<1>5. /\ m2 \in Memory /\ Len(m2) = L + 1 /\ DOMAIN m2 = 1 .. L + 1
      /\ \A a \in DOMAIN nodes : m2[a] = nodes[a]
  BY <1>3, MemoryType DEF IsAppended
<1>6. FileHeads' = FileHeads
  BY <1>2 DEF FileHeads, FileHead
<1>7. /\ Heads = {threads} \cup FileHeads \cup DiskHeads \cup Children(nodes)
      /\ threads \in 1 .. L /\ FileHeads \subseteq 1 .. L
      /\ Children(nodes) \subseteq 1 .. L
  BY <1>1, HeadsAre, HeadsIn
<1>8. TypeInv'
  <2>1. Len(m2) \in 1 .. MaxNodes
    BY <1>5, RamdiskAssumption DEF load_ramdisk, Room
  <2>2. threads \in DOMAIN m2 /\ h \in DOMAIN m2
    BY <1>5, <1>7
  <2> QED BY <1>1, <1>2, <1>5, <2>1, <2>2 DEF TypeInv
<1>9. RolesApart'
  <2>1. h # threads /\ h \notin FileHeads /\ h \notin Children(nodes)
    BY <1>7
  <2>2. \A f, g \in DOMAIN descs' : f # g => FileHead(f)' # FileHead(g)'
    BY <1>1, <1>2 DEF RolesApart, FileHead
  <2>3. Children(nodes') \cap ({threads, h} \cup FileHeads) = {}
    BY <1>1, <1>3, <2>1 DEF RolesApart
  <2> QED BY <1>1, <1>2, <1>6, <2>1, <2>2, <2>3 DEF RolesApart
<1>10. DataInv'
  <2>1. \A f \in DOMAIN descs : FileHead(f) \in Heads
    BY <1>7 DEF FileHeads
  <2>2. \A f \in DOMAIN descs : On(nodes', FileHead(f)) = On(nodes, FileHead(f))
    BY <1>4, <2>1 DEF Kept
  <2>3. \A f \in DOMAIN descs : \A a \in On(nodes, FileHead(f)) :
          nodes'[a].data = nodes[a].data
    BY <1>5, <2>1, HeadIsList
  <2> QED BY <1>1, <1>2, <2>2, <2>3, FilesKept
<1>11. RamdiskInv'
  BY <1>4, <1>8, <1>9, <1>10 DEF RamdiskInv
<1>12. Kept(nodes, nodes', {threads} \cup FileHeads)
  BY <1>4, <1>7 DEF Kept
<1> QED BY <1>2, <1>3, <1>11, <1>12

(* A file or a directory in the root directory: one node at the end of the *)
(* list of that, and one, with data d, that is the list of the file.       *)
Created(m2, d) ==
  /\ m2 \in Memory /\ Len(m2) = Len(nodes) + 2
  /\ \A a \in DOMAIN nodes :
       /\ m2[a].data = nodes[a].data /\ m2[a].child = nodes[a].child
       /\ a \notin On(nodes, disk_head) => m2[a].next = nodes[a].next
  /\ m2[Len(nodes) + 1].child = NULL
  /\ m2[Len(nodes) + 2] = [Node(0) EXCEPT !.data = d]
  /\ IsList(m2, disk_head)
  /\ Chain(m2, disk_head) = Longer(nodes, Chain(nodes, disk_head), 1)
  /\ On(m2, disk_head) = On(nodes, disk_head) \cup {Len(nodes) + 1}

LEMMA create_rd_fileCreates ==
  ASSUME RamdiskInv, NEW type \in {RAMDISK_FILE, RAMDISK_DIRECTORY},
         create_rd_file(type)
  PROVE  Created(nodes', IF type = RAMDISK_FILE THEN Len(blocks) ELSE NULL)
<1> PICK d : d = IF type = RAMDISK_FILE THEN Len(blocks) ELSE NULL
  OBVIOUS
<1> PICK L \in Nat : L = Len(nodes)
  BY ThreadsList, MemoryType
<1> PICK p : p = Chain(nodes, disk_head)
  OBVIOUS
<1> PICK m2 : m2 = nodes'
  OBVIOUS
<1>1. /\ nodes \in Memory /\ DOMAIN nodes = 1 .. L
      /\ d \in Nat /\ Len(descs) + 1 \in Nat /\ type \in Nat
  <2>1. nodes \in Memory /\ DOMAIN nodes = 1 .. L
    BY ThreadsList, MemoryType
  <2>2. Len(blocks) \in Nat /\ Len(descs) \in Nat
    BY DEF RamdiskInv, TypeInv
  <2> QED BY <2>1, <2>2 DEF NULL, RAMDISK_FILE, RAMDISK_DIRECTORY
<1>2. disk_head \in Heads
  BY HeadsAre DEF create_rd_file, DiskHeads
<1>3. IsList(nodes, disk_head) /\ IsPath(nodes, p) /\ IsInjective(p) /\ p[1] = disk_head
  BY <1>1, <1>2, HeadIsList, ListType
<1>4. PICK n \in Nat \ {0} : n = Len(p)
  BY <1>1, <1>3, PathType
<1>5. PICK added : added = list_add_node(nodes, disk_head, type)
  OBVIOUS
<1>6. GrownBy(nodes, added, p, 1)
  BY <1>1, <1>3, <1>5, AddNode
<1>7. /\ added \in Memory /\ Len(added) = L + 1 /\ DOMAIN added = 1 .. L + 1
      /\ added[L + 1].child = NULL
      /\ \A a \in DOMAIN nodes :
           /\ added[a].data = nodes[a].data /\ added[a].child = nodes[a].child
           /\ a # p[n] => added[a].next = nodes[a].next
  <2>1. added \in Memory /\ Len(added) = L + 1
    BY <1>6 DEF GrownBy
  <2>2. 1 \in 1 .. 1
    OBVIOUS
  <2> QED BY <1>4, <1>6, <2>1, <2>2, MemoryType DEF GrownBy
<1>8. /\ IsList(added, disk_head) /\ Chain(added, disk_head) = Longer(nodes, p, 1)
      /\ On(added, disk_head) = On(nodes, disk_head) \cup L + 1 .. L + 1
  BY <1>1, <1>3, <1>6, ListGrown
<1>9. PICK file \in DOMAIN added : file = L + 1
  BY <1>7
<1>10. list_access_node(added, disk_head, NewIndex(nodes, disk_head)) = file
  <2>1. PICK q : q = Longer(nodes, p, 1)
    OBVIOUS
  <2>2. IsLonger(nodes, p, 1, q)
    BY <1>1, <1>3, <2>1, LongerType
  <2>3. Len(q) = n + 1 /\ q[n + 1] = L + (n + 1 - n)
    BY <1>4, <2>2 DEF IsLonger
  <2>4. Chain(added, disk_head) = q /\ NewIndex(nodes, disk_head) = n
    BY <1>4, <1>8, <2>1 DEF NewIndex
  <2> QED BY <1>9, <2>3, <2>4 DEF list_access_node, NewIndex
<1>11. PICK r : r = [added[file] EXCEPT !.data = Len(descs) + 1]
  OBVIOUS
<1>12. /\ r \in NodeRecords /\ r.next = added[file].next /\ r.child = added[file].child
  <2>1. added[file] \in NodeRecords
    BY <1>7, <1>9, MemoryType
  <2> QED BY <1>1, <1>11, <2>1 DEF NodeRecords
<1>13. PICK m1 : m1 = [added EXCEPT ![file] = r]
  OBVIOUS
<1>14. IsReplaced(added, m1, file, r)
  BY <1>7, <1>9, <1>12, <1>13, Replaced
<1>15. PICK head : head = [Node(0) EXCEPT !.data = d]
  OBVIOUS
<1>16. head \in NodeRecords
  BY <1>1, <1>15, NodeType DEF NodeRecords
<1>17. m2 = Append(m1, head)
  <2>1. m1 = [added EXCEPT ![file].data = Len(descs) + 1]
    BY <1>11, <1>13
  <2>2. m2 = Append([added EXCEPT ![list_access_node(added, disk_head,
                          NewIndex(nodes, disk_head))].data = Len(descs) + 1], head)
    BY <1>5, <1>15 DEF create_rd_file
  <2> QED BY <1>10, <2>1, <2>2
<1>18. m1 \in Memory /\ Len(m1) = L + 1 /\ DOMAIN m1 = 1 .. L + 1
  BY <1>7, <1>14, MemoryType DEF IsReplaced
<1>19. IsAppended(m1, m2, head)
  BY <1>16, <1>17, <1>18, Appended
<1>20. m2 \in Memory /\ Len(m2) = L + 2 /\ m2[L + 2] = head
  <2>1. L + 1 + 1 = L + 2
    OBVIOUS
  <2> QED BY <1>18, <1>19, <2>1 DEF IsAppended
<1>21. \A a \in DOMAIN added : /\ m2[a].next = added[a].next
                               /\ m2[a].child = added[a].child
                               /\ a # file => m2[a].data = added[a].data
  <2> TAKE a \in DOMAIN added
  <2>1. m2[a] = m1[a]
    BY <1>7, <1>18, <1>19 DEF IsAppended
  <2>2. m1[a] = IF a = file THEN r ELSE added[a]
    BY <1>14 DEF IsReplaced
  <2> QED BY <1>12, <2>1, <2>2
<1>22. /\ IsList(m2, disk_head) /\ Chain(m2, disk_head) = Chain(added, disk_head)
       /\ On(m2, disk_head) = On(added, disk_head)
  <2>1. Len(added) <= Len(m2)
    BY <1>7, <1>20
  <2>2. \A a \in On(added, disk_head) : m2[a].next = added[a].next
    BY <1>7, <1>8, <1>21, ListType
  <2> QED BY <1>7, <1>8, <1>20, <2>1, <2>2, ListKept
<1>23. On(m2, disk_head) = On(nodes, disk_head) \cup {L + 1}
  BY <1>8, <1>22
<1>24. \A a \in DOMAIN nodes :
         /\ m2[a].data = nodes[a].data /\ m2[a].child = nodes[a].child
         /\ a \notin On(nodes, disk_head) => m2[a].next = nodes[a].next
  <2>1. p[n] \in On(nodes, disk_head)
    <3>1. Range(p) = {p[i] : i \in 1 .. Len(p)}
      BY <1>1, <1>3, PathType
    <3> QED BY <1>4, <3>1 DEF On
  <2> TAKE a \in DOMAIN nodes
  <2>2. a \in DOMAIN added /\ a # file
    BY <1>1, <1>7, <1>9
  <2> QED BY <1>7, <1>21, <2>1, <2>2
<1>25. m2[L + 1].child = NULL
  BY <1>7, <1>9, <1>21
<1>26. Created(m2, d)
  BY <1>8, <1>15, <1>20, <1>22, <1>23, <1>24, <1>25 DEF Created
<1> QED BY <1>26

(* What create_rd_file leaves alone and what it adds to the files.         *)
LEMMA create_rd_fileAdds ==
  ASSUME RamdiskInv, NEW type \in {RAMDISK_FILE, RAMDISK_DIRECTORY},
         create_rd_file(type)
  PROVE  /\ threads' = threads /\ disk_head' = disk_head /\ wrote' = wrote
         /\ disk_head \in DiskHeads /\ Len(nodes) + 2 <= MaxNodes
         /\ descs' \in Seq([type : {RAMDISK_FILE, RAMDISK_DIRECTORY}, file_head : Nat])
         /\ DOMAIN descs' = 1 .. Len(descs) + 1 /\ DOMAIN descs = 1 .. Len(descs)
         /\ Len(descs) \in Nat
         /\ \A f \in DOMAIN descs : FileHead(f)' = FileHead(f)
         /\ \A f \in {Len(descs) + 1} : FileHead(f)' = Len(nodes) + 2
<1> PICK p : p = Chain(nodes, disk_head)
  OBVIOUS
<1>1. /\ threads' = threads /\ disk_head' = disk_head /\ wrote' = wrote
      /\ disk_head \in DiskHeads /\ Len(nodes) + 2 <= MaxNodes
  BY DEF create_rd_file, Room, DiskHeads
<1>2. disk_head \in Heads /\ nodes \in Memory /\ Len(nodes) \in Nat
  BY <1>1, HeadsAre, ThreadsList, MemoryType
<1>3. IsPath(nodes, p) /\ p[1] = disk_head
  BY <1>2, HeadIsList, ListType
<1>4. PICK added : added = list_add_node(nodes, disk_head, type)
  OBVIOUS
<1>5. GrownBy(nodes, added, p, 1)
  BY <1>2, <1>3, <1>4, AddNode DEF RAMDISK_FILE, RAMDISK_DIRECTORY
<1>6. Len(added) + 1 = Len(nodes) + 2
  BY <1>2, <1>5 DEF GrownBy
<1>7. PICK head : head = Len(nodes) + 2
  OBVIOUS
<1>8. PICK D : D = [type |-> type, file_head |-> head]
  OBVIOUS
<1>9. D \in [type : {RAMDISK_FILE, RAMDISK_DIRECTORY}, file_head : Nat] /\ D.file_head = head
  BY <1>2, <1>7, <1>8
<1>10. descs' = Append(descs, D)
  BY <1>4, <1>6, <1>7, <1>8 DEF create_rd_file
<1>11. /\ descs \in Seq([type : {RAMDISK_FILE, RAMDISK_DIRECTORY}, file_head : Nat])
       /\ Len(descs) \in Nat /\ DOMAIN descs = 1 .. Len(descs)
  BY DEF RamdiskInv, TypeInv
<1>12. PICK ds : ds = descs'
  OBVIOUS
<1>13. /\ ds \in Seq([type : {RAMDISK_FILE, RAMDISK_DIRECTORY}, file_head : Nat])
       /\ DOMAIN ds = 1 .. Len(descs) + 1 /\ ds[Len(descs) + 1] = D
       /\ \A f \in DOMAIN descs : ds[f] = descs[f]
  BY <1>9, <1>10, <1>11, <1>12
<1>14. \A f \in DOMAIN descs : FileHead(f)' = FileHead(f)
  BY <1>12, <1>13 DEF FileHead
<1>15. \A f \in {Len(descs) + 1} : FileHead(f)' = head
  BY <1>9, <1>11, <1>12, <1>13 DEF FileHead
<1> QED BY <1>1, <1>7, <1>11, <1>12, <1>13, <1>14, <1>15

LEMMA create_rd_fileMoves ==
  ASSUME RamdiskInv, NEW type \in {RAMDISK_FILE, RAMDISK_DIRECTORY},
         create_rd_file(type)
  PROVE  /\ DiskMove(On(nodes, disk_head), {disk_head}, {disk_head, Len(nodes) + 2})
         /\ Chain(nodes', Len(nodes) + 2) = <<Len(nodes) + 2>>
         /\ On(nodes', Len(nodes) + 2) = {Len(nodes) + 2}
         /\ Children(nodes') \subseteq Children(nodes)
         /\ FileHeads' = FileHeads \cup {Len(nodes) + 2}
<1> PICK m2 : m2 = nodes'
  OBVIOUS
<1> PICK L \in Nat : L = Len(nodes)
  BY ThreadsList, MemoryType
<1> PICK d : d = IF type = RAMDISK_FILE THEN Len(blocks) ELSE NULL
  OBVIOUS
<1>1. Created(m2, d)
  BY create_rd_fileCreates
<1>2. /\ nodes \in Memory /\ DOMAIN nodes = 1 .. L
      /\ m2 \in Memory /\ Len(m2) = L + 2 /\ DOMAIN m2 = 1 .. L + 2
  BY <1>1, ThreadsList, MemoryType DEF Created
<1>3. PICK h \in DOMAIN m2 : h = L + 2
  BY <1>2
<1>4. m2[h] = [Node(0) EXCEPT !.data = d]
  BY <1>1, <1>3 DEF Created
<1>5. m2[h].next = NULL /\ m2[h].child = NULL
  BY <1>4 DEF Node
<1>6. IsList(m2, h) /\ Chain(m2, h) = <<h>> /\ On(m2, h) = {h}
  BY <1>2, <1>5, SinglePath
<1>7. /\ threads' = threads /\ disk_head' = disk_head /\ disk_head \in DiskHeads
      /\ DOMAIN descs' = 1 .. Len(descs) + 1 /\ DOMAIN descs = 1 .. Len(descs)
      /\ Len(descs) \in Nat /\ (\A f \in {Len(descs) + 1} : FileHead(f)' = h)
      /\ \A f \in DOMAIN descs : FileHead(f)' = FileHead(f)
  BY <1>3, create_rd_fileAdds
<1>8. FileHeads' = FileHeads \cup {h}
  <2>1. FileHeads' = {FileHead(f)' : f \in DOMAIN descs'}
    BY DEF FileHeads
  <2>2. DOMAIN descs' = DOMAIN descs \cup {Len(descs) + 1}
    BY <1>7
  <2> QED BY <1>7, <2>1, <2>2 DEF FileHeads
<1>9. Children(m2) \subseteq Children(nodes)
  <2>1. \A a \in DOMAIN m2 : m2[a].child # NULL => m2[a].child \in Children(nodes)
    <3> TAKE a \in DOMAIN m2
    <3>1. CASE a \in DOMAIN nodes
      BY <1>1, <3>1 DEF Children, Created
    <3>2. CASE a = L + 1
      BY <1>1, <3>2 DEF Created
    <3>3. CASE a = h
      BY <1>5, <3>3
    <3> QED BY <1>2, <1>3, <3>1, <3>2, <3>3
  <2> QED BY <2>1 DEF Children
<1>10. /\ IsList(m2, disk_head) /\ On(m2, disk_head) = On(nodes, disk_head) \cup {L + 1}
       /\ \A a \in DOMAIN nodes :
            a \notin On(nodes, disk_head) => m2[a].next = nodes[a].next
  BY <1>1 DEF Created
<1>11. disk_head \in Heads /\ On(nodes, disk_head) \subseteq DOMAIN nodes
  BY <1>7, HeadsAre, HeadIsList
<1>12. On(m2, disk_head) \cap On(m2, h) = {}
  BY <1>2, <1>3, <1>6, <1>10, <1>11
<1>13. \A k \in Heads :
         k \notin {disk_head} => On(nodes, k) \cap On(nodes, disk_head) = {}
  BY <1>11, HeadsApart
<1>14. Heads' \subseteq (Heads \ {disk_head}) \cup {disk_head, h}
  <2>1. /\ Heads = {threads} \cup FileHeads \cup DiskHeads \cup Children(nodes)
        /\ Heads' = {threads'} \cup FileHeads' \cup DiskHeads' \cup Children(nodes')
    BY HeadsAre
  <2>2. DiskHeads' = DiskHeads
    BY <1>7 DEF DiskHeads
  <2> QED BY <1>7, <1>8, <1>9, <2>1, <2>2
<1>15. \A k \in {disk_head, h} :
         IsList(m2, k) /\ On(m2, k) \cap DOMAIN nodes \subseteq On(nodes, disk_head)
  BY <1>2, <1>3, <1>6, <1>10
<1>16. DiskMove(On(nodes, disk_head), {disk_head}, {disk_head, h})
  <2>1. Len(nodes) <= Len(nodes')
    BY <1>2
  <2>2. \A j, k \in {disk_head, h} : j # k => On(m2, j) \cap On(m2, k) = {}
    BY <1>12
  <2> QED BY <1>2, <1>7, <1>10, <1>13, <1>14, <1>15, <2>1, <2>2 DEF DiskMove
<1> QED BY <1>3, <1>6, <1>8, <1>9, <1>16

LEMMA create_rd_fileData ==
  ASSUME RamdiskInv, NEW type \in {RAMDISK_FILE, RAMDISK_DIRECTORY},
         create_rd_file(type), Kept(nodes, nodes', FileHeads)
  PROVE  DataInv' /\ blocks' \in Seq([1 .. RAMDISK_BLOCKSIZE -> Int]) /\ blocks' # <<>>
<1> PICK d : d = IF type = RAMDISK_FILE THEN Len(blocks) ELSE NULL
  OBVIOUS
<1> PICK h : h = Len(nodes) + 2
  OBVIOUS
<1> PICK new : new = Len(descs) + 1
  OBVIOUS
<1>1. PICK B \in Nat \ {0} : B = Len(blocks)
  BY DEF RamdiskInv, TypeInv
<1>2. PICK B2 \in Nat \ {0} : B2 = Len(blocks') /\ B <= B2 /\ d \in 0 .. B2 - 1
                              /\ (d = NULL \/ d = B)
                              /\ blocks' \in Seq([1 .. RAMDISK_BLOCKSIZE -> Int])
  <2>1. blocks \in Seq([1 .. RAMDISK_BLOCKSIZE -> Int])
    BY DEF RamdiskInv, TypeInv
  <2>2. CASE type = RAMDISK_FILE
    <3>1. PICK left \in Leftovers : blocks' = Append(blocks, left)
      BY <2>2 DEF create_rd_file
    <3>2. left \in [1 .. RAMDISK_BLOCKSIZE -> Int]
      BY <3>1 DEF Leftovers, NUL, Junk
    <3>3. /\ blocks' \in Seq([1 .. RAMDISK_BLOCKSIZE -> Int])
          /\ Len(blocks') = B + 1
      BY <1>1, <2>1, <3>1, <3>2
    <3>4. d = B
      BY <1>1, <2>2
    <3> QED BY <3>3, <3>4
  <2>3. CASE type # RAMDISK_FILE
    <3>1. blocks' = blocks /\ d = 0
      BY <2>3 DEF create_rd_file, NULL
    <3> QED BY <1>1, <2>1, <3>1 DEF NULL
  <2> QED BY <2>2, <2>3
<1>3. /\ DOMAIN descs' = DOMAIN descs \cup {new} /\ new \notin DOMAIN descs
      /\ FileHead(new)' = h /\ \A f \in DOMAIN descs : FileHead(f)' = FileHead(f)
  <2>1. /\ DOMAIN descs' = 1 .. Len(descs) + 1 /\ DOMAIN descs = 1 .. Len(descs)
        /\ Len(descs) \in Nat
        /\ \A f \in DOMAIN descs : FileHead(f)' = FileHead(f)
    BY create_rd_fileAdds
  <2>2. \A f \in {Len(descs) + 1} : FileHead(f)' = h
    BY create_rd_fileAdds
  <2>3. FileHead(new)' = h
    BY <2>2
  <2> QED BY <2>1, <2>3
<1>4. On(nodes, FileHead(new))' = {h}
  <2>1. On(nodes', h) = {h}
    BY create_rd_fileMoves
  <2> QED BY <1>3, <2>1
<1>5. \A f \in DOMAIN descs : On(nodes, FileHead(f))' = On(nodes, FileHead(f))
  <2> TAKE f \in DOMAIN descs
  <2>1. On(nodes', FileHead(f)) = On(nodes, FileHead(f))
    BY DEF Kept, FileHeads
  <2>2. FileHead(f)' = FileHead(f)
    BY <1>3
  <2> QED BY <2>1, <2>2
<1>6. Created(nodes', d)
  BY create_rd_fileCreates
<1>7. nodes'[h].data = d
  BY <1>6 DEF Created, Node
<1>8. \A f \in DOMAIN descs : \A a \in On(nodes, FileHead(f)) :
        nodes'[a].data = nodes[a].data /\ nodes[a].data \in 0 .. B - 1
  <2> TAKE f \in DOMAIN descs
  <2> TAKE a \in On(nodes, FileHead(f))
  <2>1. FileHead(f) \in Heads
    BY HeadsAre DEF FileHeads
  <2>2. a \in DOMAIN nodes
    BY <2>1, HeadIsList
  <2>3. nodes[a].data \in 0 .. Len(blocks) - 1
    BY DEF RamdiskInv, DataInv
  <2> QED BY <1>1, <1>6, <2>2, <2>3 DEF Created
<1> HIDE DEF FileHead
<1>9. ASSUME NEW f \in DOMAIN descs', NEW a \in On(nodes, FileHead(f))'
      PROVE  /\ nodes'[a].data \in 0 .. B2 - 1
             /\ f = new => a = h
             /\ f # new => f \in DOMAIN descs /\ a \in On(nodes, FileHead(f))
  <2>1. CASE f = new
    BY <1>2, <1>4, <1>7, <2>1
  <2>2. CASE f # new
    <3>1. f \in DOMAIN descs
      BY <1>3, <2>2
    <3>2. a \in On(nodes, FileHead(f))
      BY <1>5, <3>1
    <3>3. nodes'[a].data = nodes[a].data /\ nodes[a].data \in 0 .. B - 1
      BY <1>8, <3>1, <3>2
    <3> QED BY <1>2, <2>2, <3>1, <3>2, <3>3
  <2> QED BY <2>1, <2>2
<1>10. ASSUME NEW f \in DOMAIN descs', NEW g \in DOMAIN descs',
              NEW a \in On(nodes, FileHead(f))', NEW b \in On(nodes, FileHead(g))', a # b
       PROVE  nodes'[a].data # nodes'[b].data \/ nodes'[a].data = NULL
  <2>1. CASE f # new /\ g # new
    <3>1. /\ f \in DOMAIN descs /\ a \in On(nodes, FileHead(f))
          /\ g \in DOMAIN descs /\ b \in On(nodes, FileHead(g))
      BY <1>9, <2>1
    <3>2. nodes'[a].data = nodes[a].data /\ nodes'[b].data = nodes[b].data
      BY <1>8, <3>1
    <3>3. nodes[a].data # nodes[b].data \/ nodes[a].data = NULL
      BY <1>10, <3>1 DEF RamdiskInv, DataInv
    <3> QED BY <3>2, <3>3
  <2>2. CASE f = new /\ g # new
    <3>1. nodes'[a].data = d /\ g \in DOMAIN descs /\ b \in On(nodes, FileHead(g))
      BY <1>7, <1>9, <2>2
    <3>2. nodes'[b].data \in 0 .. B - 1
      BY <1>8, <3>1
    <3> QED BY <1>1, <1>2, <3>1, <3>2
  <2>3. CASE f # new /\ g = new
    <3>1. nodes'[b].data = d /\ f \in DOMAIN descs /\ a \in On(nodes, FileHead(f))
      BY <1>7, <1>9, <2>3
    <3>2. nodes'[a].data \in 0 .. B - 1
      BY <1>8, <3>1
    <3> QED BY <1>1, <1>2, <3>1, <3>2
  <2>4. CASE f = new /\ g = new
    <3>1. a = h
      BY <1>9, <2>4
    <3>2. b = h
      BY <1>9, <2>4
    <3> QED BY <1>10, <3>1, <3>2
  <2> QED BY <2>1, <2>2, <2>3, <2>4
<1>11. DataInv'
  <2>1. \A f \in DOMAIN descs' : \A a \in On(nodes, FileHead(f))' :
          nodes'[a].data \in 0 .. Len(blocks') - 1
    BY <1>2, <1>9
  <2>2. \A f, g \in DOMAIN descs' :
          \A a \in On(nodes, FileHead(f))', b \in On(nodes, FileHead(g))' :
            a # b => nodes'[a].data # nodes'[b].data \/ nodes'[a].data = NULL
    BY <1>10
  <2> QED BY <2>1, <2>2 DEF DataInv
<1>12. blocks' # <<>>
  BY <1>2
<1> QED BY <1>2, <1>11, <1>12

LEMMA create_rd_fileGoes ==
  ASSUME RamdiskInv, NEW type \in {RAMDISK_FILE, RAMDISK_DIRECTORY},
         create_rd_file(type)
  PROVE  /\ RamdiskInv' /\ Kept(nodes, nodes', {threads} \cup FileHeads)
         /\ Chain(nodes', disk_head') = Longer(nodes, Chain(nodes, disk_head), 1)
         /\ Chain(nodes', Len(nodes) + 2) = <<Len(nodes) + 2>>
<1> PICK m2 : m2 = nodes'
  OBVIOUS
<1> PICK L \in Nat : L = Len(nodes)
  BY ThreadsList, MemoryType
<1> PICK h \in Nat : h = L + 2
  OBVIOUS
<1> PICK d : d = IF type = RAMDISK_FILE THEN Len(blocks) ELSE NULL
  OBVIOUS
<1>1. TypeInv /\ RolesApart /\ DataInv /\ nodes \in Memory /\ DOMAIN nodes = 1 .. L
  BY ThreadsList, MemoryType DEF RamdiskInv
<1>2. Created(m2, d)
  BY create_rd_fileCreates
<1>3. /\ DiskMove(On(nodes, disk_head), {disk_head}, {disk_head, h})
      /\ Chain(m2, h) = <<h>> /\ Children(m2) \subseteq Children(nodes)
      /\ FileHeads' = FileHeads \cup {h}
  BY create_rd_fileMoves
<1>4. Apart(nodes, Heads)' /\ Kept(nodes, nodes', Heads \ {disk_head})
  BY <1>3, DiskStep
<1>5. /\ threads' = threads /\ disk_head' = disk_head /\ wrote' = wrote
      /\ disk_head \in DiskHeads /\ L + 2 <= MaxNodes
      /\ descs' \in Seq([type : {RAMDISK_FILE, RAMDISK_DIRECTORY}, file_head : Nat])
      /\ DOMAIN descs' = 1 .. Len(descs) + 1 /\ DOMAIN descs = 1 .. Len(descs)
      /\ Len(descs) \in Nat
      /\ \A f \in DOMAIN descs : FileHead(f)' = FileHead(f)
      /\ \A f \in {Len(descs) + 1} : FileHead(f)' = h
  BY create_rd_fileAdds
<1>6. /\ m2 \in Memory /\ Len(m2) = L + 2 /\ DOMAIN m2 = 1 .. L + 2
      /\ Chain(m2, disk_head) = Longer(nodes, Chain(nodes, disk_head), 1)
  BY <1>2, MemoryType DEF Created
<1>7. /\ Heads = {threads} \cup FileHeads \cup DiskHeads \cup Children(nodes)
      /\ threads \in 1 .. L /\ FileHeads \subseteq 1 .. L /\ disk_head \in 1 .. L
      /\ Children(nodes) \subseteq 1 .. L
  <2>1. /\ threads \in DOMAIN nodes /\ FileHeads \subseteq DOMAIN nodes
        /\ DiskHeads \subseteq DOMAIN nodes /\ Children(nodes) \subseteq DOMAIN nodes
    BY HeadsIn
  <2> QED BY <1>1, <1>5, <2>1, HeadsAre
<1>8. Kept(nodes, nodes', {threads} \cup FileHeads)
  <2>1. disk_head \notin {threads} \cup FileHeads
    BY <1>1 DEF RolesApart
  <2> QED BY <1>4, <1>7, <2>1 DEF Kept
<1>9. /\ DataInv' /\ blocks' \in Seq([1 .. RAMDISK_BLOCKSIZE -> Int]) /\ blocks' # <<>>
  <2>1. Kept(nodes, nodes', FileHeads)
    BY <1>8 DEF Kept
  <2> QED BY <2>1, create_rd_fileData
<1>10. TypeInv'
  <2>1. Len(m2) \in 1 .. MaxNodes
    BY <1>5, <1>6, RamdiskAssumption
  <2>2. threads \in DOMAIN m2 /\ disk_head \in DOMAIN m2
    BY <1>6, <1>7
  <2> QED BY <1>1, <1>5, <1>6, <1>9, <2>1, <2>2 DEF TypeInv
<1>11. RolesApart'
  <2>1. h # threads /\ h # disk_head /\ h \notin FileHeads /\ h \notin Children(nodes)
    BY <1>7
  <2>2. \A f, g \in DOMAIN descs' : f # g => FileHead(f)' # FileHead(g)'
    <3> SUFFICES ASSUME NEW f \in DOMAIN descs', NEW g \in DOMAIN descs', f # g
        PROVE  FileHead(f)' # FileHead(g)'
      OBVIOUS
    <3> HIDE DEF FileHead
    <3>1. CASE f \in DOMAIN descs /\ g \in DOMAIN descs
      <4>1. FileHead(f) # FileHead(g)
        BY <1>1, <3>1 DEF RolesApart
      <4> QED BY <1>5, <3>1, <4>1
    <3>2. CASE f \in DOMAIN descs /\ g \notin DOMAIN descs
      <4>1. g \in {Len(descs) + 1} /\ FileHead(f) \in FileHeads
        BY <1>5, <3>2 DEF FileHeads
      <4> QED BY <1>5, <2>1, <3>2, <4>1
    <3>3. CASE f \notin DOMAIN descs /\ g \in DOMAIN descs
      <4>1. f \in {Len(descs) + 1} /\ FileHead(g) \in FileHeads
        BY <1>5, <3>3 DEF FileHeads
      <4> QED BY <1>5, <2>1, <3>3, <4>1
    <3>4. CASE f \notin DOMAIN descs /\ g \notin DOMAIN descs
      <4>1. f = Len(descs) + 1 /\ g = Len(descs) + 1
        BY <1>5, <3>4
      <4> QED BY <4>1
    <3> QED BY <3>1, <3>2, <3>3, <3>4
  <2>3. Children(nodes') \cap ({threads, disk_head} \cup FileHeads \cup {h}) = {}
    BY <1>1, <1>3, <2>1 DEF RolesApart
  <2> QED BY <1>1, <1>3, <1>5, <2>1, <2>2, <2>3 DEF RolesApart
<1>12. RamdiskInv'
  BY <1>4, <1>9, <1>10, <1>11 DEF RamdiskInv
<1> QED BY <1>3, <1>5, <1>6, <1>8, <1>12

(* The nodes of c behind the at-th have blocks, the first n of them.       *)
IsFilled(m, m2, c, at, n) ==
  /\ m2 \in Memory /\ Len(m2) = Len(m)
  /\ \A a \in DOMAIN m : /\ m2[a].next = m[a].next /\ m2[a].child = m[a].child
                         /\ (\A turn \in 1 .. n : c[at + turn] # a) => m2[a].data = m[a].data
  /\ \A turn \in 1 .. n : m2[c[at + turn]].data = Len(blocks) - 1 + turn

LEMMA FilledIs ==
  ASSUME NEW m \in Memory, NEW c, IsPath(m, c), IsInjective(c),
         NEW at \in Nat, NEW n \in Nat, at # 0, at + n <= Len(c),
         Len(blocks) \in Nat \ {0}
  PROVE  IsFilled(m, Filled(m, c, at, n), c, at, n)
<1> PICK m2 : m2 = Filled(m, c, at, n)
  OBVIOUS
<1> PICK L \in Nat : L = Len(m)
  BY MemoryType
<1>1. /\ DOMAIN m = 1 .. L /\ Len(c) \in Nat
      /\ \A i \in 1 .. Len(c) : c[i] \in DOMAIN m
  BY PathType, MemoryType
<1>2. \A i, j \in 1 .. Len(c) : c[i] = c[j] => i = j
  <2>1. DOMAIN c = 1 .. Len(c)
    BY PathType
  <2> QED BY <2>1 DEF IsInjective
<1>3. \A turn \in 1 .. n : at + turn \in 1 .. Len(c)
  BY <1>1
<1>4. \A a \in DOMAIN m : m2[a] = IF Follows(c, at, n, a) = {} THEN m[a]
        ELSE [m[a] EXCEPT !.data =
                Len(blocks) - 1 + (CHOOSE turn \in Follows(c, at, n, a) : TRUE)]
  BY DEF Filled
<1>5. \A a \in DOMAIN m : (\A turn \in 1 .. n : c[at + turn] # a) => m2[a] = m[a]
  <2> TAKE a \in DOMAIN m
  <2> HAVE \A turn \in 1 .. n : c[at + turn] # a
  <2>1. Follows(c, at, n, a) = {}
    BY DEF Follows
  <2> QED BY <1>4, <2>1
<1>6. ASSUME NEW turn \in 1 .. n, NEW a \in DOMAIN m, a = c[at + turn]
      PROVE  m2[a] = [m[a] EXCEPT !.data = Len(blocks) - 1 + turn]
  <2>1. Follows(c, at, n, a) = {turn}
    <3>1. \A k \in 1 .. n : c[at + k] = a => k = turn
      <4> TAKE k \in 1 .. n
      <4> HAVE c[at + k] = a
      <4>1. at + k = at + turn
        BY <1>2, <1>3, <1>6
      <4> QED BY <4>1
    <3> QED BY <1>6, <3>1 DEF Follows
  <2>2. (CHOOSE k \in {turn} : TRUE) = turn
    OBVIOUS
  <2> QED BY <1>4, <2>1, <2>2
<1>7. \A a \in DOMAIN m : /\ m2[a] \in NodeRecords /\ m2[a].next = m[a].next
                          /\ m2[a].child = m[a].child
  <2> TAKE a \in DOMAIN m
  <2>1. m[a] \in NodeRecords
    BY MemoryType
  <2>2. CASE \A turn \in 1 .. n : c[at + turn] # a
    BY <1>5, <2>1, <2>2
  <2>3. CASE ~ \A turn \in 1 .. n : c[at + turn] # a
    <3>1. PICK turn \in 1 .. n : c[at + turn] = a
      BY <2>3
    <3>2. m2[a] = [m[a] EXCEPT !.data = Len(blocks) - 1 + turn]
      BY <1>6, <3>1
    <3>3. Len(blocks) - 1 + turn \in Nat
      OBVIOUS
    <3> QED BY <2>1, <3>2, <3>3 DEF NodeRecords
  <2> QED BY <2>2, <2>3
<1>8. m2 \in Memory /\ Len(m2) = L
  <2>1. m2 = [a \in 1 .. L |-> m2[a]]
    BY <1>1 DEF Filled
  <2>2. \A a \in 1 .. L : m2[a] \in NodeRecords
    BY <1>1, <1>7
  <2>3. m2 \in [1 .. L -> NodeRecords]
    BY <2>1, <2>2
  <2> QED BY <2>3 DEF Memory
<1>9. \A turn \in 1 .. n : m2[c[at + turn]].data = Len(blocks) - 1 + turn
  <2> TAKE turn \in 1 .. n
  <2>1. PICK a \in DOMAIN m : a = c[at + turn]
    BY <1>1, <1>3
  <2>2. m2[a] = [m[a] EXCEPT !.data = Len(blocks) - 1 + turn]
    BY <1>6, <2>1
  <2>3. m[a] \in NodeRecords
    BY MemoryType
  <2> QED BY <2>1, <2>2, <2>3 DEF NodeRecords
<1>10. IsFilled(m, m2, c, at, n)
  BY <1>5, <1>7, <1>8, <1>9 DEF IsFilled
<1> QED BY <1>10

(* A write, in the file's list from the at-th node on, and in the block of *)
(* that from the offset.                                                   *)
Writing(file, length, append, at, start, offset, growth) ==
  /\ at = (IF append THEN Len(FileOf(file)) ELSE 1)
  /\ start = nodes[FileOf(file)[at]].data
  /\ offset = (IF append THEN Begins(Block(blocks, start)) ELSE 0)
  /\ growth = Turn(offset, length) /\ Len(nodes) + growth <= MaxNodes
  /\ nodes' = Filled(Grown(FileHead(file), growth),
                     Chain(Grown(FileHead(file), growth), FileHead(file)), at, growth)
  /\ \E left \in Leftovers :
       blocks' = [b \in 1 .. Len(blocks) + growth |->
                    Written(Text(Len(wrote) + 1, length), start, offset, b - 1,
                            IF b \in DOMAIN blocks THEN blocks[b] ELSE left)]
  /\ wrote' = Append(wrote, [file |-> file, text |-> Text(Len(wrote) + 1, length),
                             append |-> append])
  /\ UNCHANGED <<threads, disk_head, descs>>

LEMMA FileList ==
  ASSUME RamdiskInv, NEW f \in DOMAIN descs
  PROVE  /\ FileHead(f) \in FileHeads /\ FileHead(f) \in Heads
         /\ IsList(nodes, FileHead(f)) /\ FileOf(f) = Chain(nodes, FileHead(f))
         /\ IsPath(nodes, FileOf(f)) /\ IsInjective(FileOf(f))
         /\ FileOf(f)[1] = FileHead(f) /\ Range(FileOf(f)) = On(nodes, FileHead(f))
         /\ Len(FileOf(f)) \in Nat \ {0} /\ DOMAIN FileOf(f) = 1 .. Len(FileOf(f))
         /\ \A i \in 1 .. Len(FileOf(f)) :
              /\ FileOf(f)[i] \in On(nodes, FileHead(f)) /\ FileOf(f)[i] \in DOMAIN nodes
              /\ nodes[FileOf(f)[i]].data \in 0 .. Len(blocks) - 1
<1>1. PICK p : p = FileOf(f)
  OBVIOUS
<1>2. p = Chain(nodes, FileHead(f))
  BY <1>1 DEF FileOf, FileHead
<1>3. FileHead(f) \in FileHeads /\ FileHead(f) \in Heads
  BY HeadsAre DEF FileHeads
<1>4. nodes \in Memory /\ IsList(nodes, FileHead(f))
  BY <1>3, ThreadsList, HeadIsList
<1>5. IsPath(nodes, p) /\ IsInjective(p) /\ p[1] = FileHead(f)
  BY <1>2, <1>4 DEF IsList
<1>6. Range(p) = On(nodes, FileHead(f))
  BY <1>2 DEF On
<1>7. /\ Len(p) \in Nat \ {0} /\ DOMAIN p = 1 .. Len(p)
      /\ \A i \in 1 .. Len(p) : p[i] \in DOMAIN nodes
  BY <1>4, <1>5, PathType
<1>8. \A i \in 1 .. Len(p) : p[i] \in Range(p)
  BY <1>7 DEF Range
<1>9. \A i \in 1 .. Len(p) : nodes[p[i]].data \in 0 .. Len(blocks) - 1
  BY <1>6, <1>8 DEF RamdiskInv, DataInv
<1> QED BY <1>1, <1>2, <1>3, <1>4, <1>5, <1>6, <1>7, <1>8, <1>9

LEMMA BlockIs ==
  ASSUME RamdiskInv, NEW address \in 0 .. Len(blocks) - 1
  PROVE  /\ Block(blocks, address) \in [1 .. RAMDISK_BLOCKSIZE -> Int]
         /\ Begins(Block(blocks, address)) \in 0 .. RAMDISK_BLOCKSIZE - 1
<1>1. PICK block : block = Block(blocks, address)
  OBVIOUS
<1>2. block \in [1 .. RAMDISK_BLOCKSIZE -> Int]
  <2>1. blocks \in Seq([1 .. RAMDISK_BLOCKSIZE -> Int])
    BY DEF RamdiskInv, TypeInv
  <2>2. address + 1 \in 1 .. Len(blocks)
    BY <2>1
  <2> QED BY <1>1, <2>1, <2>2 DEF Block
<1>3. RAMDISK_BLOCKSIZE \in Nat \ {0}
  BY RamdiskAssumption
<1>4. CASE ~Ends(block)
  BY <1>1, <1>2, <1>3, <1>4 DEF Begins
<1>5. CASE Ends(block)
  <2> DEFINE nuls == {i \in 1 .. RAMDISK_BLOCKSIZE : block[i] = NUL}
  <2>1. nuls \in SUBSET Nat /\ nuls # {}
    BY <1>2, <1>5 DEF Ends
  <2>2. PICK i \in nuls : \A j \in nuls : i <= j
    <3> HIDE DEF nuls
    <3> QED BY <2>1, LeastExists
  <2>3. /\ i \in DOMAIN block /\ block[i] = NUL
        /\ \A j \in 1 .. i - 1 : block[j] # NUL
    BY <1>2, <1>3, <2>2
  <2>4. FirstNul(block) \in 0 .. RAMDISK_BLOCKSIZE - 1
    <3> DEFINE First(k) == block[k] = NUL /\ \A j \in 1 .. k - 1 : block[j] # NUL
    <3>1. First(i)
      BY <2>3
    <3>2. (CHOOSE k \in DOMAIN block : First(k)) \in DOMAIN block
      <4> HIDE DEF First
      <4> QED BY <2>3, <3>1
    <3>3. PICK k : k = CHOOSE j \in DOMAIN block : First(j)
      OBVIOUS
    <3>4. FirstNul(block) = k - 1
      BY <3>3 DEF FirstNul
    <3> QED BY <1>2, <1>3, <3>2, <3>3, <3>4
  <2> QED BY <1>1, <1>2, <1>5, <2>4 DEF Begins
<1> QED BY <1>1, <1>2, <1>4, <1>5

LEMMA Division ==
  ASSUME NEW x \in Nat, NEW size \in Nat \ {0}
  PROVE  /\ x \div size \in Nat /\ x % size \in 0 .. size - 1
         /\ x = size * (x \div size) + (x % size)
  OBVIOUS

LEMMA WriteIs ==
  ASSUME RamdiskInv, NEW file \in DOMAIN descs, NEW length \in Lengths,
         NEW append \in BOOLEAN, write_rd_file(file, length, append)
  PROVE  \E at, start, offset, growth \in Nat :
           /\ Writing(file, length, append, at, start, offset, growth)
           /\ at \in 1 .. Len(FileOf(file)) /\ start \in 0 .. Len(blocks) - 1
           /\ offset \in 0 .. RAMDISK_BLOCKSIZE - 1
<1>1. PICK p : p = FileOf(file)
  OBVIOUS
<1>2. /\ Len(p) \in Nat \ {0}
      /\ \A i \in 1 .. Len(p) : nodes[p[i]].data \in 0 .. Len(blocks) - 1
  BY <1>1, FileList
<1>3. PICK at \in 1 .. Len(p) : at = IF append THEN Len(p) ELSE 1
  BY <1>2
<1>4. PICK start \in 0 .. Len(blocks) - 1 : start = nodes[p[at]].data
  BY <1>2
<1>5. RAMDISK_BLOCKSIZE \in Nat \ {0} /\ length \in Nat \ {0}
  BY RamdiskAssumption
<1>6. PICK offset \in 0 .. RAMDISK_BLOCKSIZE - 1 :
        offset = IF append THEN Begins(Block(blocks, start)) ELSE 0
  <2>1. Begins(Block(blocks, start)) \in 0 .. RAMDISK_BLOCKSIZE - 1
    BY BlockIs
  <2> QED BY <1>5, <2>1
<1>7. PICK growth \in Nat : growth = Turn(offset, length)
  <2>1. PICK x \in Nat : x = offset + length - 1
    BY <1>5
  <2>2. x \div RAMDISK_BLOCKSIZE \in Nat
    BY <1>5, Division
  <2> QED BY <2>1, <2>2 DEF Turn
<1>8. FileHead(file) = descs[file].file_head /\ p = Chain(nodes, descs[file].file_head)
  BY <1>1 DEF FileHead, FileOf
<1>9. Writing(file, length, append, at, start, offset, growth)
  <2>1. PICK head : head = descs[file].file_head /\ head = FileHead(file)
    BY <1>8
  <2>2. /\ p = Chain(nodes, head) /\ at = (IF append THEN Len(Chain(nodes, head)) ELSE 1)
        /\ start = nodes[Chain(nodes, head)[at]].data
    BY <1>3, <1>4, <1>8, <2>1
  <2>3. /\ Len(nodes) + growth <= MaxNodes
        /\ nodes' = Filled(Grown(head, growth), Chain(Grown(head, growth), head), at, growth)
        /\ UNCHANGED <<threads, disk_head, descs>>
        /\ wrote' = Append(wrote, [file |-> file, text |-> Text(Len(wrote) + 1, length),
                                   append |-> append])
    BY <1>6, <1>7, <2>1, <2>2 DEF write_rd_file, Room
  <2>4. \E left \in Leftovers :
          blocks' = [b \in 1 .. Len(blocks) + growth |->
                       Written(Text(Len(wrote) + 1, length), start, offset, b - 1,
                               IF b \in DOMAIN blocks THEN blocks[b] ELSE left)]
    BY <1>6, <1>7, <2>1, <2>2, SMTT(30) DEF write_rd_file
  <2> QED BY <1>1, <1>6, <1>7, <2>1, <2>2, <2>3, <2>4 DEF Writing
<1>10. at \in Nat /\ start \in Nat /\ offset \in Nat
  BY <1>2, <1>3, <1>4, <1>5, <1>6
<1> QED BY <1>1, <1>3, <1>4, <1>6, <1>7, <1>9, <1>10

(* The list q of the file after the write, and what else it leaves alone.  *)
WrittenList(m2, file, q, at, growth) ==
  /\ m2 \in Memory /\ Len(m2) = Len(nodes) + growth
  /\ IsList(m2, FileHead(file)) /\ Chain(m2, FileHead(file)) = q
  /\ On(m2, FileHead(file))
       = On(nodes, FileHead(file)) \cup Len(nodes) + 1 .. Len(nodes) + growth
  /\ \A a \in DOMAIN nodes : a \notin On(nodes, FileHead(file)) =>
       m2[a].next = nodes[a].next /\ m2[a].data = nodes[a].data
  /\ Children(m2) \subseteq Children(nodes)
  /\ \A i \in 1 .. Len(FileOf(file)) + growth :
       m2[q[i]].data = IF i \in at + 1 .. at + growth THEN Len(blocks) - 1 + (i - at)
                       ELSE IF i <= Len(FileOf(file)) THEN nodes[FileOf(file)[i]].data
                       ELSE NULL

LEMMA WriteLists ==
  ASSUME RamdiskInv, NEW file \in DOMAIN descs, NEW length, NEW append,
         NEW at \in 1 .. Len(FileOf(file)), NEW start, NEW offset, NEW growth \in Nat,
         Writing(file, length, append, at, start, offset, growth)
  PROVE  WrittenList(nodes', file, Longer(nodes, FileOf(file), growth), at, growth)
<1> PICK m2 : m2 = nodes'
  OBVIOUS
<1> PICK L \in Nat : L = Len(nodes)
  BY ThreadsList, MemoryType
<1> PICK p : p = FileOf(file)
  OBVIOUS
<1> PICK q : q = Longer(nodes, p, growth)
  OBVIOUS
<1> PICK h : h = FileHead(file)
  OBVIOUS
<1> PICK g : g = Grown(h, growth)
  OBVIOUS
<1>1. nodes \in Memory /\ DOMAIN nodes = 1 .. L
  BY ThreadsList, MemoryType
<1>2. /\ IsList(nodes, h) /\ p = Chain(nodes, h) /\ IsPath(nodes, p) /\ IsInjective(p)
      /\ p[1] = h /\ On(nodes, h) = Range(p)
  BY FileList
<1>3. PICK n \in Nat \ {0} : n = Len(p)
  BY FileList
<1>4. at \in 1 .. n /\ at \in Nat
  BY <1>3
<1>5. GrownBy(nodes, g, p, growth)
  BY <1>1, <1>2, GrownIs
<1>6. g \in Memory /\ Len(g) = L + growth /\ DOMAIN g = 1 .. L + growth
  BY <1>5, MemoryType DEF GrownBy
<1>7. /\ IsList(g, h) /\ Chain(g, h) = q
      /\ On(g, h) = On(nodes, h) \cup L + 1 .. L + growth
  BY <1>1, <1>2, <1>5, ListGrown
<1>8. IsPath(g, q) /\ IsInjective(q)
  BY <1>6, <1>7, ListType
<1>9. IsLonger(nodes, p, growth, q)
  BY <1>1, <1>2, LongerType
<1>10. /\ Len(q) = n + growth
       /\ \A i \in 1 .. n : q[i] = p[i]
       /\ \A i \in n + 1 .. n + growth : q[i] = L + (i - n)
  BY <1>3, <1>9 DEF IsLonger
<1>11. m2 = Filled(g, q, at, growth)
  BY <1>7 DEF Writing
<1>12. IsFilled(g, m2, q, at, growth)
  <2>1. at + growth <= Len(q) /\ at # 0
    BY <1>4, <1>10
  <2>2. Len(blocks) \in Nat \ {0}
    BY DEF RamdiskInv, TypeInv
  <2> QED BY <1>4, <1>6, <1>8, <1>11, <2>1, <2>2, FilledIs
<1>13. /\ m2 \in Memory /\ Len(m2) = L + growth /\ DOMAIN m2 = DOMAIN g
       /\ \A a \in DOMAIN g : m2[a].next = g[a].next /\ m2[a].child = g[a].child
  BY <1>6, <1>12, MemoryType DEF IsFilled
<1>14. IsList(m2, h) /\ Chain(m2, h) = q /\ On(m2, h) = On(g, h)
  <2>1. Len(g) <= Len(m2)
    BY <1>6, <1>13
  <2>2. \A a \in On(g, h) : m2[a].next = g[a].next
    BY <1>6, <1>7, <1>13, ListType
  <2> QED BY <1>6, <1>7, <1>13, <2>1, <2>2, ListKept
<1>15. Children(m2) \subseteq Children(nodes)
  <2>1. DOMAIN m2 = DOMAIN g /\ \A a \in DOMAIN g : m2[a].child = g[a].child
    BY <1>13
  <2>2. Children(m2) = Children(g)
    BY <2>1 DEF Children
  <2> QED BY <1>1, <1>5, <2>2, GrownChildren
<1>16. \A i, j \in 1 .. n + growth : q[i] = q[j] => i = j
  <2>1. DOMAIN q = 1 .. n + growth
    BY <1>6, <1>8, <1>10, PathType
  <2> QED BY <1>8, <2>1 DEF IsInjective
<1>17. \A i \in 1 .. n + growth : q[i] \in On(g, h) /\ q[i] \in DOMAIN g
  <2>1. \A i \in 1 .. Len(q) : q[i] \in DOMAIN g
    BY <1>6, <1>8, PathType
  <2>2. DOMAIN q = 1 .. Len(q)
    BY <1>6, <1>8, PathType
  <2>3. On(g, h) = {q[i] : i \in DOMAIN q}
    BY <1>7 DEF On, Range
  <2> QED BY <1>10, <2>1, <2>2, <2>3
<1>18. \A a \in DOMAIN nodes : a \notin On(nodes, h) =>
         m2[a].next = nodes[a].next /\ m2[a].data = nodes[a].data
  <2> TAKE a \in DOMAIN nodes
  <2> HAVE a \notin On(nodes, h)
  <2>1. a \in DOMAIN g /\ a \notin On(g, h)
    BY <1>1, <1>6, <1>7
  <2>2. p[n] \in On(nodes, h)
    <3>1. Range(p) = {p[i] : i \in 1 .. Len(p)}
      BY <1>1, <1>2, PathType
    <3> QED BY <1>2, <1>3, <3>1
  <2>3. g[a].data = nodes[a].data /\ g[a].next = nodes[a].next
    BY <1>3, <1>5, <2>2 DEF GrownBy
  <2>4. \A turn \in 1 .. growth : q[at + turn] # a
    <3> TAKE turn \in 1 .. growth
    <3>1. at + turn \in 1 .. n + growth
      BY <1>4
    <3> QED BY <1>17, <2>1, <3>1
  <2>5. m2[a].data = g[a].data
    BY <1>12, <2>1, <2>4 DEF IsFilled
  <2> QED BY <1>13, <2>1, <2>3, <2>5
<1>19. ASSUME NEW i \in 1 .. n + growth
       PROVE  m2[q[i]].data = IF i \in at + 1 .. at + growth THEN Len(blocks) - 1 + (i - at)
                              ELSE IF i <= n THEN nodes[p[i]].data ELSE NULL
  <2>1. CASE i \in at + 1 .. at + growth
    <3>1. PICK turn \in 1 .. growth : turn = i - at /\ at + turn = i
      BY <1>4, <2>1
    <3>2. m2[q[at + turn]].data = Len(blocks) - 1 + turn
      BY <1>12 DEF IsFilled
    <3> QED BY <2>1, <3>1, <3>2
  <2>2. CASE i \notin at + 1 .. at + growth
    <3>1. \A turn \in 1 .. growth : q[at + turn] # q[i]
      <4> TAKE turn \in 1 .. growth
      <4>1. at + turn \in 1 .. n + growth /\ at + turn # i
        BY <1>4, <2>2
      <4> QED BY <1>16, <4>1
    <3>2. m2[q[i]].data = g[q[i]].data
      BY <1>12, <1>17, <3>1 DEF IsFilled
    <3>3. CASE i <= n
      <4>1. i \in 1 .. n /\ q[i] = p[i]
        BY <1>10, <3>3
      <4>2. p[i] \in DOMAIN nodes
        BY <1>1, <1>2, <1>3, <4>1, PathType
      <4>3. g[p[i]].data = nodes[p[i]].data
        BY <1>5, <4>2 DEF GrownBy
      <4> QED BY <2>2, <3>2, <3>3, <4>1, <4>3
    <3>4. CASE i > n
      <4>1. PICK k \in 1 .. growth : k = i - n
        BY <1>3, <3>4
      <4>2. q[i] = L + k
        <5>1. i \in n + 1 .. n + growth
          BY <1>3, <3>4
        <5> QED BY <1>10, <4>1, <5>1
      <4>3. g[L + k].data = NULL
        BY <1>5 DEF GrownBy
      <4>4. ~(i <= n)
        BY <1>3, <3>4
      <4> QED BY <2>2, <3>2, <4>2, <4>3, <4>4
    <3> QED BY <1>3, <3>3, <3>4
  <2> QED BY <2>1, <2>2
<1>20. WrittenList(m2, file, q, at, growth)
  BY <1>3, <1>7, <1>13, <1>14, <1>15, <1>18, <1>19 DEF WrittenList
<1> QED BY <1>20

LEMMA WriteMoves ==
  ASSUME RamdiskInv, NEW file \in DOMAIN descs, NEW length, NEW append,
         NEW at \in 1 .. Len(FileOf(file)), NEW start, NEW offset, NEW growth \in Nat,
         Writing(file, length, append, at, start, offset, growth)
  PROVE  DiskMove(On(nodes, FileHead(file)), {FileHead(file)}, {FileHead(file)})
<1> PICK m2 : m2 = nodes'
  OBVIOUS
<1> PICK L \in Nat : L = Len(nodes)
  BY ThreadsList, MemoryType
<1> PICK q : q = Longer(nodes, FileOf(file), growth)
  OBVIOUS
<1> PICK h : h = FileHead(file)
  OBVIOUS
<1>1. DOMAIN nodes = 1 .. L
  BY ThreadsList, MemoryType
<1>2. WrittenList(m2, file, q, at, growth)
  BY WriteLists
<1>3. /\ m2 \in Memory /\ Len(m2) = L + growth /\ IsList(m2, h)
      /\ On(m2, h) = On(nodes, h) \cup L + 1 .. L + growth
      /\ Children(m2) \subseteq Children(nodes)
      /\ \A a \in DOMAIN nodes : a \notin On(nodes, h) => m2[a].next = nodes[a].next
  BY <1>2 DEF WrittenList
<1>4. h \in FileHeads /\ h \in Heads
  BY FileList
<1>5. \A k \in Heads : k \notin {h} => On(nodes, k) \cap On(nodes, h) = {}
  BY <1>4, HeadsApart
<1>6. On(m2, h) \cap DOMAIN nodes \subseteq On(nodes, h)
  BY <1>1, <1>3
<1>7. Heads' \subseteq (Heads \ {h}) \cup {h}
  <2>1. /\ Heads = {threads} \cup FileHeads \cup DiskHeads \cup Children(nodes)
        /\ Heads' = {threads'} \cup FileHeads' \cup DiskHeads' \cup Children(nodes')
    BY HeadsAre
  <2>2. threads' = threads /\ disk_head' = disk_head /\ descs' = descs
    BY DEF Writing
  <2>3. FileHeads' = FileHeads /\ DiskHeads' = DiskHeads
    BY <2>2 DEF FileHeads, FileHead, DiskHeads
  <2> QED BY <1>3, <2>1, <2>2, <2>3
<1>8. Len(nodes) <= Len(m2)
  BY <1>3
<1>9. DiskMove(On(nodes, h), {h}, {h})
  BY <1>3, <1>4, <1>5, <1>6, <1>7, <1>8 DEF DiskMove
<1> QED BY <1>9

(* The blocks of the nodes of a file after a write, and of the others.     *)
LEMMA WriteData ==
  ASSUME RamdiskInv, NEW file \in DOMAIN descs, NEW length, NEW append,
         NEW at \in 1 .. Len(FileOf(file)), NEW start, NEW offset, NEW growth \in Nat,
         Writing(file, length, append, at, start, offset, growth),
         Kept(nodes, nodes', Heads \ {FileHead(file)}),
         Len(blocks') = Len(blocks) + growth
  PROVE  DataInv'
<1> PICK m2 : m2 = nodes'
  OBVIOUS
<1> PICK p : p = FileOf(file)
  OBVIOUS
<1> PICK q : q = Longer(nodes, p, growth)
  OBVIOUS
<1> PICK h : h = FileHead(file)
  OBVIOUS
<1>1. PICK n \in Nat \ {0} : n = Len(p)
  BY FileList
<1>2. PICK B \in Nat \ {0} : B = Len(blocks)
  BY DEF RamdiskInv, TypeInv
<1>3. /\ p = Chain(nodes, h) /\ h \in Heads
      /\ \A i \in 1 .. n : /\ p[i] \in On(nodes, h)
                           /\ nodes[p[i]].data \in 0 .. B - 1
  BY <1>1, <1>2, FileList
<1>4. \A i, j \in 1 .. n : p[i] = p[j] => i = j
  BY <1>1, FileList DEF IsInjective
<1>5. \A i, j \in 1 .. n :
        i # j => nodes[p[i]].data # nodes[p[j]].data \/ nodes[p[i]].data = NULL
  <2> SUFFICES ASSUME NEW i \in 1 .. n, NEW j \in 1 .. n, i # j
      PROVE  nodes[p[i]].data # nodes[p[j]].data \/ nodes[p[i]].data = NULL
    OBVIOUS
  <2>1. p[i] # p[j] /\ p[i] \in On(nodes, h) /\ p[j] \in On(nodes, h)
    BY <1>3, <1>4
  <2> QED BY <2>1 DEF RamdiskInv, DataInv
<1>6. WrittenList(m2, file, q, at, growth)
  BY WriteLists
<1>7. \A i \in 1 .. n + growth :
        m2[q[i]].data = IF i \in at + 1 .. at + growth THEN B - 1 + (i - at)
                        ELSE IF i <= n THEN nodes[p[i]].data ELSE NULL
  BY <1>1, <1>2, <1>6 DEF WrittenList
<1>8. \A i \in 1 .. n + growth :
        \/ i \in at + 1 .. at + growth /\ m2[q[i]].data = B - 1 + (i - at)
        \/ i \in 1 .. n /\ m2[q[i]].data = nodes[p[i]].data
        \/ m2[q[i]].data = NULL
  BY <1>1, <1>7
<1>9. On(m2, h) = {q[i] : i \in 1 .. n + growth}
  <2>1. Chain(m2, h) = q /\ IsPath(m2, q) /\ m2 \in Memory
    BY <1>6, ListType DEF WrittenList
  <2>2. DOMAIN q = 1 .. Len(q)
    BY <2>1, PathType
  <2>3. IsPath(nodes, p) /\ nodes \in Memory
    BY FileList, ThreadsList
  <2>4. IsLonger(nodes, p, growth, q)
    BY <2>3, LongerType
  <2>5. Len(q) = n + growth
    BY <1>1, <2>4 DEF IsLonger
  <2> QED BY <2>1, <2>2, <2>5 DEF On, Range
<1>10. \A f : FileHead(f)' = FileHead(f)
  BY DEF FileHead, Writing
<1>11. DOMAIN descs' = DOMAIN descs /\ Len(blocks') = B + growth
  BY <1>2 DEF Writing
<1>12. \A f \in DOMAIN descs : f # file =>
         /\ On(nodes, FileHead(f))' = On(nodes, FileHead(f))
         /\ \A a \in On(nodes, FileHead(f)) :
              m2[a].data = nodes[a].data /\ nodes[a].data \in 0 .. B - 1
  <2> SUFFICES ASSUME NEW f \in DOMAIN descs, f # file
      PROVE  /\ On(nodes, FileHead(f))' = On(nodes, FileHead(f))
             /\ \A a \in On(nodes, FileHead(f)) :
                  m2[a].data = nodes[a].data /\ nodes[a].data \in 0 .. B - 1
    OBVIOUS
  <2>1. PICK k : k = FileHead(f)
    OBVIOUS
  <2>2. k \in Heads /\ k # h
    BY <2>1, FileList DEF RamdiskInv, RolesApart
  <2>3. On(nodes', k) = On(nodes, k)
    BY <2>2 DEF Kept
  <2>4. On(nodes, FileHead(f))' = On(nodes, FileHead(f))
    BY <1>10, <2>1, <2>3
  <2>5. On(nodes, k) \cap On(nodes, h) = {} /\ On(nodes, k) \subseteq DOMAIN nodes
    BY <1>3, <2>2, HeadsApart, HeadIsList
  <2>6. \A a \in On(nodes, k) : m2[a].data = nodes[a].data
    BY <1>6, <2>5 DEF WrittenList
  <2>7. \A a \in On(nodes, k) : nodes[a].data \in 0 .. B - 1
    BY <1>2, <2>1 DEF RamdiskInv, DataInv
  <2> QED BY <2>1, <2>4, <2>6, <2>7
<1>13. On(nodes, FileHead(file))' = {q[i] : i \in 1 .. n + growth}
  <2>1. FileHead(file)' = h
    BY <1>10
  <2> QED BY <1>9, <2>1
<1> HIDE DEF FileHead
<1>14. ASSUME NEW f \in DOMAIN descs, NEW a \in On(nodes, FileHead(f))'
       PROVE  m2[a].data \in 0 .. B + growth - 1
  <2>1. CASE f # file
    BY <1>12, <2>1
  <2>2. CASE f = file
    <3>1. PICK i \in 1 .. n + growth : a = q[i]
      BY <1>13, <2>2
    <3>2. at \in 1 .. n
      BY <1>1
    <3>3. CASE i \in at + 1 .. at + growth /\ m2[q[i]].data = B - 1 + (i - at)
      BY <3>1, <3>2, <3>3
    <3>4. CASE i \in 1 .. n /\ m2[q[i]].data = nodes[p[i]].data
      <4>1. nodes[p[i]].data \in 0 .. B - 1
        BY <1>3, <3>4
      <4> QED BY <3>1, <3>4, <4>1
    <3>5. CASE m2[q[i]].data = NULL
      BY <3>1, <3>5 DEF NULL
    <3> QED BY <1>8, <3>3, <3>4, <3>5
  <2> QED BY <2>1, <2>2
<1>15. ASSUME NEW i \in 1 .. n + growth, NEW j \in 1 .. n + growth, i # j
       PROVE  m2[q[i]].data # m2[q[j]].data \/ m2[q[i]].data = NULL
  <2>1. CASE i \in at + 1 .. at + growth /\ m2[q[i]].data = B - 1 + (i - at)
    <3>1. at \in 1 .. n
      BY <1>1
    <3>2. CASE j \in at + 1 .. at + growth /\ m2[q[j]].data = B - 1 + (j - at)
      BY <1>15, <2>1, <3>1, <3>2
    <3>3. CASE j \in 1 .. n /\ m2[q[j]].data = nodes[p[j]].data
      <4>1. nodes[p[j]].data \in 0 .. B - 1
        BY <1>3, <3>3
      <4> QED BY <2>1, <3>1, <3>3, <4>1
    <3>4. CASE m2[q[j]].data = NULL
      BY <2>1, <3>1, <3>4 DEF NULL
    <3> QED BY <1>8, <3>2, <3>3, <3>4
  <2>2. CASE i \in 1 .. n /\ m2[q[i]].data = nodes[p[i]].data
    BY <1>3, <1>5, <1>8, <1>15, <2>2 DEF NULL
  <2>3. CASE m2[q[i]].data = NULL
    BY <2>3
  <2> QED BY <1>8, <2>1, <2>2, <2>3
<1>16. ASSUME NEW i \in 1 .. n + growth, NEW g \in DOMAIN descs, g # file,
              NEW b \in On(nodes, FileHead(g))
       PROVE  \/ m2[q[i]].data # m2[b].data
              \/ m2[q[i]].data = NULL /\ m2[b].data = NULL
  <2>1. m2[b].data = nodes[b].data /\ nodes[b].data \in 0 .. B - 1
    BY <1>12, <1>16
  <2>2. CASE i \in at + 1 .. at + growth /\ m2[q[i]].data = B - 1 + (i - at)
    BY <2>1, <2>2
  <2>3. CASE i \in 1 .. n /\ m2[q[i]].data = nodes[p[i]].data
    <3>1. p[i] \in On(nodes, FileHead(file))
      BY <1>3, <2>3
    <3>2. p[i] # b
      <4>1. FileHead(g) \in Heads /\ FileHead(file) \in Heads
        BY FileList
      <4>2. FileHead(g) # FileHead(file)
        BY <1>16 DEF RamdiskInv, RolesApart
      <4>3. On(nodes, FileHead(g)) \cap On(nodes, FileHead(file)) = {}
        BY <4>1, <4>2, HeadsApart
      <4> QED BY <3>1, <4>3
    <3>3. nodes[p[i]].data # nodes[b].data \/ nodes[p[i]].data = NULL
      BY <3>1, <3>2 DEF RamdiskInv, DataInv
    <3> QED BY <2>1, <2>3, <3>3
  <2>4. CASE m2[q[i]].data = NULL
    BY <2>4
  <2> QED BY <1>8, <2>2, <2>3, <2>4
<1>17. ASSUME NEW f \in DOMAIN descs, NEW g \in DOMAIN descs,
              NEW a \in On(nodes, FileHead(f))', NEW b \in On(nodes, FileHead(g))', a # b
       PROVE  m2[a].data # m2[b].data \/ m2[a].data = NULL
  <2>1. CASE f # file /\ g # file
    <3>1. a \in On(nodes, FileHead(f)) /\ b \in On(nodes, FileHead(g))
      BY <1>12, <2>1
    <3>2. nodes[a].data # nodes[b].data \/ nodes[a].data = NULL
      BY <1>17, <3>1 DEF RamdiskInv, DataInv
    <3> QED BY <1>12, <2>1, <3>1, <3>2
  <2>2. CASE f = file /\ g # file
    <3>1. PICK i \in 1 .. n + growth : a = q[i]
      BY <1>13, <2>2
    <3>2. b \in On(nodes, FileHead(g))
      BY <1>12, <2>2
    <3> QED BY <1>16, <2>2, <3>1, <3>2
  <2>3. CASE f # file /\ g = file
    <3>1. PICK j \in 1 .. n + growth : b = q[j]
      BY <1>13, <2>3
    <3>2. a \in On(nodes, FileHead(f))
      BY <1>12, <2>3
    <3> QED BY <1>16, <2>3, <3>1, <3>2
  <2>4. CASE f = file /\ g = file
    <3>1. PICK i \in 1 .. n + growth : a = q[i]
      BY <1>13, <2>4
    <3>2. PICK j \in 1 .. n + growth : b = q[j]
      BY <1>13, <2>4
    <3>3. i # j
      BY <1>17, <3>1, <3>2
    <3> QED BY <1>15, <3>1, <3>2, <3>3
  <2> QED BY <2>1, <2>2, <2>3, <2>4
<1>18. \A f \in DOMAIN descs' : \A a \in On(nodes, FileHead(f))' :
         nodes'[a].data \in 0 .. Len(blocks') - 1
  BY <1>11, <1>14
<1>19. \A f, g \in DOMAIN descs' :
         \A a \in On(nodes, FileHead(f))', b \in On(nodes, FileHead(g))' :
           a # b => nodes'[a].data # nodes'[b].data \/ nodes'[a].data = NULL
  BY <1>11, <1>17
<1> QED BY <1>18, <1>19 DEF DataInv

(* The blocks after a write.                                               *)
LEMMA WriteBlocks ==
  ASSUME RamdiskInv, NEW file, NEW length \in Nat, NEW append, NEW at,
         NEW start, NEW offset, NEW growth \in Nat,
         Writing(file, length, append, at, start, offset, growth)
  PROVE  /\ blocks' \in Seq([1 .. RAMDISK_BLOCKSIZE -> Int]) /\ blocks' # <<>>
         /\ Len(blocks') = Len(blocks) + growth
         /\ Text(Len(wrote) + 1, length) \in Seq(Int)
<1> PICK text : text = Text(Len(wrote) + 1, length)
  OBVIOUS
<1>1. PICK B \in Nat \ {0} : B = Len(blocks)
  BY DEF RamdiskInv, TypeInv
<1>2. /\ \A b \in DOMAIN blocks : blocks[b] \in [1 .. RAMDISK_BLOCKSIZE -> Int]
      /\ Len(wrote) \in Nat
  BY DEF RamdiskInv, TypeInv
<1>3. text \in [1 .. length -> Int]
  BY <1>2 DEF Text
<1>4. PICK left \in Leftovers :
        blocks' = [b \in 1 .. B + growth |->
                     Written(text, start, offset, b - 1,
                             IF b \in DOMAIN blocks THEN blocks[b] ELSE left)]
  BY <1>1 DEF Writing
<1>5. left \in [1 .. RAMDISK_BLOCKSIZE -> Int]
  BY <1>4 DEF Leftovers, NUL, Junk
<1>6. ASSUME NEW old \in [1 .. RAMDISK_BLOCKSIZE -> Int], NEW b
      PROVE  Written(text, start, offset, b - 1, old) \in [1 .. RAMDISK_BLOCKSIZE -> Int]
  <2> SUFFICES ASSUME NEW p \in 1 .. RAMDISK_BLOCKSIZE
      PROVE  (IF Hits(text, start, offset, b - 1, p) = {} THEN old[p]
              ELSE text[CHOOSE i \in Hits(text, start, offset, b - 1, p) : TRUE]) \in Int
    BY DEF Written
  <2>1. PICK hits : hits = Hits(text, start, offset, b - 1, p)
    OBVIOUS
  <2>2. hits \subseteq 1 .. length
    BY <1>3, <2>1 DEF Hits
  <2>3. hits # {} => text[CHOOSE i \in hits : TRUE] \in Int
    BY <1>3, <2>2
  <2> QED BY <2>1, <2>3
<1>7. \A b \in 1 .. B + growth :
        (IF b \in DOMAIN blocks THEN blocks[b] ELSE left) \in [1 .. RAMDISK_BLOCKSIZE -> Int]
  BY <1>2, <1>5
<1>8. blocks' \in [1 .. B + growth -> [1 .. RAMDISK_BLOCKSIZE -> Int]]
  <2>1. \A b \in 1 .. B + growth : blocks'[b] \in [1 .. RAMDISK_BLOCKSIZE -> Int]
    <3> TAKE b \in 1 .. B + growth
    <3>1. PICK old \in [1 .. RAMDISK_BLOCKSIZE -> Int] :
            old = IF b \in DOMAIN blocks THEN blocks[b] ELSE left
      BY <1>7
    <3>2. blocks'[b] = Written(text, start, offset, b - 1, old)
      BY <1>4, <3>1
    <3> QED BY <1>6, <3>2
  <2> QED BY <1>4, <2>1
<1>9. B + growth \in Nat \ {0}
  OBVIOUS
<1> QED BY <1>1, <1>3, <1>8, <1>9

LEMMA write_rd_fileGoes ==
  ASSUME RamdiskInv, NEW file \in DOMAIN descs, NEW length \in Nat, NEW append \in BOOLEAN,
         NEW at \in 1 .. Len(FileOf(file)), NEW start, NEW offset, NEW growth \in Nat,
         Writing(file, length, append, at, start, offset, growth)
  PROVE  /\ RamdiskInv' /\ Kept(nodes, nodes', Heads \ {FileHead(file)})
         /\ Chain(nodes', FileHead(file)) = Longer(nodes, FileOf(file), growth)
<1> PICK m2 : m2 = nodes'
  OBVIOUS
<1> PICK L \in Nat : L = Len(nodes)
  BY ThreadsList, MemoryType
<1> PICK q : q = Longer(nodes, FileOf(file), growth)
  OBVIOUS
<1> PICK h : h = FileHead(file)
  OBVIOUS
<1>1. TypeInv /\ RolesApart /\ DOMAIN nodes = 1 .. L
  BY ThreadsList, MemoryType DEF RamdiskInv
<1>2. WrittenList(m2, file, q, at, growth)
  BY WriteLists
<1>3. DiskMove(On(nodes, h), {h}, {h})
  BY WriteMoves
<1>4. Apart(nodes, Heads)' /\ Kept(nodes, nodes', Heads \ {h})
  BY <1>3, DiskStep
<1>5. /\ blocks' \in Seq([1 .. RAMDISK_BLOCKSIZE -> Int]) /\ blocks' # <<>>
      /\ Len(blocks') = Len(blocks) + growth
      /\ Text(Len(wrote) + 1, length) \in Seq(Int)
  BY WriteBlocks
<1>6. /\ m2 \in Memory /\ Len(m2) = L + growth /\ DOMAIN m2 = 1 .. L + growth
      /\ Chain(m2, h) = q /\ Children(m2) \subseteq Children(nodes)
  BY <1>2, MemoryType DEF WrittenList
<1>7. /\ threads' = threads /\ disk_head' = disk_head /\ descs' = descs
      /\ L + growth <= MaxNodes
  BY DEF Writing
<1>8. DataInv'
  BY <1>4, <1>5, WriteData
<1>9. TypeInv'
  <2>1. Len(m2) \in 1 .. MaxNodes
    BY <1>1, <1>6, <1>7, RamdiskAssumption DEF TypeInv
  <2>2. threads \in DOMAIN m2 /\ disk_head \in DOMAIN m2 \cup {NULL}
    BY <1>1, <1>6 DEF TypeInv
  <2>3. wrote' \in Seq([file : Nat, text : Seq(Int), append : BOOLEAN])
    <3>1. PICK w : w = [file |-> file, text |-> Text(Len(wrote) + 1, length),
                        append |-> append]
      OBVIOUS
    <3>2. file \in Nat
      BY <1>1 DEF TypeInv
    <3>3. w \in [file : Nat, text : Seq(Int), append : BOOLEAN]
      BY <1>5, <3>1, <3>2
    <3>4. wrote \in Seq([file : Nat, text : Seq(Int), append : BOOLEAN])
      BY <1>1 DEF TypeInv
    <3>5. wrote' = Append(wrote, w)
      BY <3>1 DEF Writing
    <3> QED BY <3>3, <3>4, <3>5
  <2>4. descs \in Seq([type : {RAMDISK_FILE, RAMDISK_DIRECTORY}, file_head : Nat])
    BY <1>1 DEF TypeInv
  <2> QED BY <1>5, <1>6, <1>7, <2>1, <2>2, <2>3, <2>4 DEF TypeInv
<1>10. RolesApart'
  <2>1. FileHeads' = FileHeads
    BY <1>7 DEF FileHeads, FileHead
  <2>2. \A f, g \in DOMAIN descs' : f # g => FileHead(f)' # FileHead(g)'
    BY <1>1, <1>7 DEF RolesApart, FileHead
  <2>3. Children(nodes') \cap ({threads, disk_head} \cup FileHeads) = {}
    BY <1>1, <1>6 DEF RolesApart
  <2> QED BY <1>1, <1>7, <2>1, <2>2, <2>3 DEF RolesApart
<1>11. RamdiskInv'
  BY <1>4, <1>8, <1>9, <1>10 DEF RamdiskInv
<1> QED BY <1>4, <1>6, <1>11

----------------------------------------------------------------------------
(* The lists stay lists, and apart.                                        *)

LEMMA InitInv ==
  Init => RamdiskInv
<1> SUFFICES ASSUME Init PROVE RamdiskInv
  OBVIOUS
<1>1. /\ nodes = <<Node(0)>> /\ threads = 1 /\ disk_head = NULL
      /\ descs = <<>> /\ wrote = <<>>
  BY DEF Init
<1>2. PICK low \in Leftovers : blocks = <<low>>
  BY DEF Init
<1>3. low \in [1 .. RAMDISK_BLOCKSIZE -> Int]
  BY <1>2 DEF Leftovers, NUL, Junk
<1>4. /\ nodes \in Memory /\ Len(nodes) = 1 /\ DOMAIN nodes = {1}
      /\ nodes[1] = Node(0)
  <2>1. PICK node \in NodeRecords : node = Node(0)
    BY NodeType
  <2> QED BY <1>1, <2>1 DEF Memory
<1>5. nodes[1].next = NULL /\ nodes[1].child = NULL
  BY <1>4, NodeType
<1>6. Children(nodes) = {} /\ FileHeads = {} /\ DiskHeads = {} /\ DOMAIN descs = {}
  BY <1>1, <1>4, <1>5 DEF Children, FileHeads, DiskHeads
<1>7. Heads = {threads}
  BY <1>6, HeadsAre
<1>8. TypeInv
  <2>1. Len(nodes) \in 1 .. MaxNodes
    BY <1>4, RamdiskAssumption
  <2> QED BY <1>1, <1>2, <1>3, <1>4, <2>1 DEF TypeInv
<1>9. Apart(nodes, Heads)
  <2>1. IsList(nodes, threads)
    BY <1>1, <1>4, <1>5, SinglePath
  <2> QED BY <1>7, <2>1 DEF Apart
<1>10. RolesApart
  BY <1>1, <1>6 DEF RolesApart, NULL
<1>11. DataInv
  BY <1>6 DEF DataInv
<1> QED BY <1>8, <1>9, <1>10, <1>11 DEF RamdiskInv

LEMMA StutterInv ==
  ASSUME RamdiskInv, UNCHANGED vars
  PROVE  RamdiskInv'
<1>1. /\ nodes' = nodes /\ threads' = threads /\ disk_head' = disk_head
      /\ descs' = descs /\ blocks' = blocks /\ wrote' = wrote
  BY DEF vars
<1>2. Heads' = Heads
  BY <1>1 DEF Heads
<1>3. FileHeads' = FileHeads /\ \A f : FileHead(f)' = FileHead(f)
  BY <1>1 DEF FileHeads, FileHead
<1>4. TypeInv'
  BY <1>1 DEF RamdiskInv, TypeInv
<1>5. RolesApart'
  BY <1>1, <1>3 DEF RamdiskInv, RolesApart, FileHead
<1>6. DataInv'
  <2>1. DataInv
    BY DEF RamdiskInv
  <2> QED BY <1>1, <2>1, FilesKept
<1>7. Apart(nodes, Heads)'
  <2>1. Apart(nodes, Heads)
    BY DEF RamdiskInv
  <2>2. Apart(nodes, Heads)' <=> Apart(nodes', Heads')
    OBVIOUS
  <2> QED BY <1>1, <1>2, <2>1, <2>2
<1> QED BY <1>4, <1>5, <1>6, <1>7 DEF RamdiskInv

LEMMA NextInv ==
  ASSUME RamdiskInv, [Next]_vars
  PROVE  RamdiskInv'
<1>1. CASE AddThread
  BY <1>1, AddThreadGoes DEF ThreadsGo
<1>2. CASE AddChild
  BY <1>2, AddChildGoes DEF ThreadsGo
<1>3. CASE RemoveThread
  BY <1>3, RemoveThreadGoes DEF ThreadsGo
<1>4. CASE MoveToEnd
  <2>1. PICK p : p = Chain(nodes, threads)
    OBVIOUS
  <2>2. ThreadsGo(p) \/ ThreadsGo(Append(Tail(p), Head(p)))
    BY <1>4, <2>1, MoveToEndGoes
  <2> QED BY <2>2 DEF ThreadsGo
<1>5. CASE TestList
  BY <1>5, TestListGoes DEF ThreadsGo
<1>6. CASE load_ramdisk
  BY <1>6, load_ramdiskGoes
<1>7. CASE \E type \in {RAMDISK_FILE, RAMDISK_DIRECTORY} : create_rd_file(type)
  BY <1>7, create_rd_fileGoes
<1>8. ASSUME NEW file \in DOMAIN descs, NEW length \in Lengths, NEW append \in BOOLEAN,
             write_rd_file(file, length, append)
      PROVE  RamdiskInv'
  <2>1. PICK at, start, offset, growth \in Nat :
          /\ Writing(file, length, append, at, start, offset, growth)
          /\ at \in 1 .. Len(FileOf(file))
    BY <1>8, WriteIs
  <2>2. length \in Nat
    BY RamdiskAssumption
  <2> QED BY <2>1, <2>2, write_rd_fileGoes
<1>9. CASE UNCHANGED vars
  BY <1>9, StutterInv
<1> QED BY <1>1, <1>2, <1>3, <1>4, <1>5, <1>6, <1>7, <1>8, <1>9 DEF Next

(* In every state every list comes to an end, has no node twice and shares *)
(* none with another, a node has one part to play, and no block of a file  *)
(* belongs to two nodes (list.c, pm.c, ramdisk.c).                         *)
THEOREM RamdiskSafe ==
  Spec => []RamdiskInv
<1>1. Init => RamdiskInv
  BY InitInv
<1>2. RamdiskInv /\ [Next]_vars => RamdiskInv'
  BY NextInv
<1> QED BY <1>1, <1>2, PTL DEF Spec

LEMMA InvListsApart ==
  RamdiskInv => ListsApart
<1> SUFFICES ASSUME RamdiskInv PROVE ListsApart
  OBVIOUS
<1>1. \A head \in Heads : /\ nodes[Last(Chain(nodes, head))].next = NULL
                          /\ IsInjective(Chain(nodes, head))
  <2> TAKE head \in Heads
  <2>1. PICK p : p = Chain(nodes, head)
    OBVIOUS
  <2>2. IsPath(nodes, p) /\ IsInjective(p) /\ nodes \in Memory
    BY <2>1, HeadIsList, ListType, ThreadsList
  <2>3. Last(p) = p[Len(p)] /\ nodes[p[Len(p)]].next = NULL
    BY <2>2, PathType DEF IsPath
  <2> QED BY <2>1, <2>2, <2>3
<1>2. \A h1, h2 \in Heads :
        h1 # h2 => Range(Chain(nodes, h1)) \cap Range(Chain(nodes, h2)) = {}
  BY DEF RamdiskInv, Apart, On
<1>3. \A f1, f2 \in DOMAIN descs :
        \A a1 \in Range(Chain(nodes, descs[f1].file_head)),
           a2 \in Range(Chain(nodes, descs[f2].file_head)) :
          a1 # a2 => nodes[a1].data # nodes[a2].data \/ nodes[a1].data = NULL
  BY DEF RamdiskInv, DataInv, On, FileHead
<1> QED BY <1>1, <1>2, <1>3 DEF ListsApart

(* The lists that share the heap do not get into each other, whatever is   *)
(* added, removed and moved, and no two nodes of files have the same block *)
(* (list.c, write_rd_file).                                                *)
THEOREM ListsStayApart ==
  Spec => []ListsApart
  BY RamdiskSafe, InvListsApart, PTL

----------------------------------------------------------------------------
(* The lists behave as sequences: every step is one of NodeLists, or none. *)

RootList == IF disk_head = NULL THEN <<>> ELSE Chain(nodes, disk_head)
FileLists == [f \in DOMAIN descs |-> FileOf(f)]
News(n) == [k \in 1 .. n |-> Len(nodes) + k]

LEMMA ListsAre ==
  ASSUME RamdiskInv
  PROVE  /\ Chain(nodes, threads) \in Seq(DOMAIN nodes)
         /\ RootList \in Seq(DOMAIN nodes) /\ FileLists \in Seq(Seq(DOMAIN nodes))
         /\ Len(FileLists) = Len(descs) /\ DOMAIN FileLists = DOMAIN descs
         /\ Len(nodes) \in Nat /\ DOMAIN nodes = 1 .. Len(nodes)
<1>1. nodes \in Memory /\ Len(nodes) \in Nat /\ DOMAIN nodes = 1 .. Len(nodes)
  BY ThreadsList, MemoryType
<1>2. Chain(nodes, threads) \in Seq(DOMAIN nodes)
  BY ThreadsList, PathType
<1>3. RootList \in Seq(DOMAIN nodes)
  <2>1. CASE disk_head = NULL
    BY <2>1 DEF RootList
  <2>2. CASE disk_head # NULL
    <3>1. disk_head \in Heads
      BY <2>2, HeadsAre DEF DiskHeads
    <3>2. IsPath(nodes, Chain(nodes, disk_head))
      BY <1>1, <3>1, HeadIsList, ListType
    <3>3. PICK p : p = Chain(nodes, disk_head)
      OBVIOUS
    <3>4. p \in Seq(DOMAIN nodes)
      BY <1>1, <3>2, <3>3, PathType
    <3> QED BY <2>2, <3>3, <3>4 DEF RootList
  <2> QED BY <2>1, <2>2
<1>4. \A f \in DOMAIN descs : FileOf(f) \in Seq(DOMAIN nodes)
  <2> TAKE f \in DOMAIN descs
  <2>1. PICK p : p = FileOf(f)
    OBVIOUS
  <2>2. p \in Seq(DOMAIN nodes)
    BY <1>1, <2>1, FileList, PathType
  <2> QED BY <2>1, <2>2
<1>5. Len(descs) \in Nat /\ DOMAIN descs = 1 .. Len(descs)
  BY DEF RamdiskInv, TypeInv
<1>6. FileLists \in [1 .. Len(descs) -> Seq(DOMAIN nodes)]
  BY <1>4, <1>5 DEF FileLists
<1>7. FileLists \in Seq(Seq(DOMAIN nodes)) /\ Len(FileLists) = Len(descs)
  BY <1>5, <1>6
<1> QED BY <1>1, <1>2, <1>3, <1>5, <1>6, <1>7

LEMMA UsedIs ==
  ASSUME RamdiskInv
  PROVE  Lists!Used \subseteq DOMAIN nodes
<1>1. /\ Chain(nodes, threads) \in Seq(DOMAIN nodes)
      /\ RootList \in Seq(DOMAIN nodes) /\ FileLists \in Seq(Seq(DOMAIN nodes))
  BY ListsAre
<1>2. ASSUME NEW S, NEW s \in Seq(S) PROVE Lists!RangeOf(s) \subseteq S
  BY DEF Lists!RangeOf
<1>3. \A f \in Lists!RangeOf(FileLists) : f \in Seq(DOMAIN nodes)
  BY <1>1, <1>2
<1>4. /\ Lists!RangeOf(Chain(nodes, threads)) \subseteq DOMAIN nodes
      /\ Lists!RangeOf(RootList) \subseteq DOMAIN nodes
      /\ \A f \in Lists!RangeOf(FileLists) : Lists!RangeOf(f) \subseteq DOMAIN nodes
  BY <1>1, <1>2, <1>3
<1>5. Lists!Used = Lists!RangeOf(Chain(nodes, threads)) \cup Lists!RangeOf(RootList)
                     \cup UNION {Lists!RangeOf(f) : f \in Lists!RangeOf(FileLists)}
  BY DEF Lists!Used, RootList, FileLists
<1>6. UNION {Lists!RangeOf(f) : f \in Lists!RangeOf(FileLists)} \subseteq DOMAIN nodes
  BY <1>4
<1> QED BY <1>4, <1>5, <1>6

(* The new nodes are in no list.                                           *)
LEMMA NewsAre ==
  ASSUME RamdiskInv, NEW n \in Nat, Len(nodes) + n <= MaxNodes
  PROVE  /\ News(n) \in Lists!New(n) /\ Lists!Increasing(News(n))
         /\ News(n) \in Seq(Nat) /\ Len(News(n)) = n /\ DOMAIN News(n) = 1 .. n
         /\ \A k \in 1 .. n : News(n)[k] = Len(nodes) + k
         /\ Lists!RangeOf(News(n)) \subseteq (1 .. MaxNodes) \ Lists!Used
<1>1. PICK s : s = News(n)
  OBVIOUS
<1>2. PICK L \in Nat : L = Len(nodes) /\ DOMAIN nodes = 1 .. L /\ L + n <= MaxNodes
  BY ListsAre
<1>3. MaxNodes \in Nat
  BY RamdiskAssumption
<1>4. s \in [1 .. n -> Nat] /\ \A k \in 1 .. n : s[k] = L + k
  BY <1>1, <1>2 DEF News
<1>5. \A k \in 1 .. n : s[k] \in 1 .. MaxNodes /\ s[k] \notin DOMAIN nodes
  BY <1>2, <1>3, <1>4
<1>6. \A k \in 1 .. n : s[k] \in (1 .. MaxNodes) \ Lists!Used
  BY <1>5, UsedIs
<1>7. s \in [1 .. n -> (1 .. MaxNodes) \ Lists!Used]
  <2>1. DOMAIN s = 1 .. n /\ s = [k \in 1 .. n |-> s[k]]
    BY <1>4
  <2> QED BY <1>6, <2>1
<1>8. Lists!Increasing(s)
  BY <1>4 DEF Lists!Increasing
<1>9. s \in Seq(Nat) /\ Len(s) = n /\ DOMAIN s = 1 .. n
  BY <1>4
<1>10. Lists!RangeOf(s) \subseteq (1 .. MaxNodes) \ Lists!Used
  BY <1>6, <1>9 DEF Lists!RangeOf
<1>11. s \in Lists!New(n)
  BY <1>7, <1>8 DEF Lists!New
<1> QED BY <1>1, <1>2, <1>4, <1>8, <1>9, <1>10, <1>11

LEMMA FileListsKept ==
  ASSUME RamdiskInv, Kept(nodes, nodes', FileHeads), descs' = descs
  PROVE  FileLists' = FileLists
<1>1. \A f \in DOMAIN descs : FileOf(f)' = FileOf(f)
  <2> SUFFICES ASSUME NEW f \in DOMAIN descs PROVE FileOf(f)' = FileOf(f)
    OBVIOUS
  <2>1. Chain(nodes', FileHead(f)) = Chain(nodes, FileHead(f))
    BY DEF Kept, FileHeads
  <2>2. FileOf(f)' = Chain(nodes', FileHead(f))
    BY DEF FileOf, FileHead
  <2> QED BY <2>1, <2>2 DEF FileOf, FileHead
<1>2. FileLists' = [f \in DOMAIN descs' |-> FileOf(f)']
  BY DEF FileLists
<1> QED BY <1>1, <1>2 DEF FileLists

LEMMA ThreadsRest ==
  ASSUME RamdiskInv, NEW q, ThreadsGo(q)
  PROVE  /\ Chain(nodes', threads') = q
         /\ RootList' = RootList /\ FileLists' = FileLists
<1>1. /\ Chain(nodes', threads') = q /\ OnlyNodes
      /\ Kept(nodes, nodes', FileHeads \cup DiskHeads)
  BY DEF ThreadsGo
<1>2. FileLists' = FileLists
  BY <1>1, FileListsKept DEF Kept, OnlyNodes
<1>3. RootList' = RootList
  <2>1. disk_head' = disk_head
    BY <1>1 DEF OnlyNodes
  <2>2. disk_head # NULL => Chain(nodes', disk_head) = Chain(nodes, disk_head)
    BY <1>1 DEF Kept, DiskHeads
  <2> QED BY <2>1, <2>2 DEF RootList
<1> QED BY <1>1, <1>2, <1>3

LEMMA InitLists ==
  Init => Lists!Init
<1> SUFFICES ASSUME Init PROVE Lists!Init
  OBVIOUS
<1>1. nodes = <<Node(0)>> /\ threads = 1 /\ disk_head = NULL /\ descs = <<>>
  BY DEF Init
<1>2. nodes \in Memory /\ DOMAIN nodes = {1} /\ nodes[1].next = NULL
  <2>1. PICK node \in NodeRecords : node = Node(0) /\ node.next = NULL
    BY NodeType
  <2> QED BY <1>1, <2>1 DEF Memory
<1>3. Chain(nodes, threads) = <<threads>>
  BY <1>1, <1>2, SinglePath
<1>4. Len(Chain(nodes, threads)) = 1
  BY <1>3
<1>5. [f \in DOMAIN descs |-> FileOf(f)] = <<>>
  BY <1>1
<1> QED BY <1>1, <1>4, <1>5 DEF Lists!Init

LEMMA AddThreadLists ==
  ASSUME RamdiskInv, AddThread
  PROVE  Lists!AddThread
<1>1. PICK q : q = Longer(nodes, Chain(nodes, threads), 1)
  OBVIOUS
<1>2. ThreadsGo(q)
  BY <1>1, AddThreadGoes
<1>3. /\ Chain(nodes', threads') = q
      /\ RootList' = RootList /\ FileLists' = FileLists
  BY <1>2, ThreadsRest
<1>4. PICK s : s = News(1)
  OBVIOUS
<1>5. q = Chain(nodes, threads) \o s
  BY <1>1, <1>4 DEF Longer, News
<1>6. s \in Lists!New(1)
  <2>1. Len(nodes) + 1 <= MaxNodes
    BY Rooms DEF AddThread
  <2> QED BY <1>4, <2>1, NewsAre
<1> QED BY <1>3, <1>5, <1>6 DEF Lists!AddThread, RootList, FileLists

LEMMA RemoveThreadLists ==
  ASSUME RamdiskInv, RemoveThread
  PROVE  Lists!RemoveThread
<1>1. PICK p : p = Chain(nodes, threads)
  OBVIOUS
<1>2. PICK i \in 1 .. Len(p) : ThreadsGo(RemoveAt(p, i))
  BY <1>1, RemoveThreadGoes
<1>3. PICK q : q = RemoveAt(p, i)
  OBVIOUS
<1>4. /\ Chain(nodes', threads') = q
      /\ RootList' = RootList /\ FileLists' = FileLists
  BY <1>2, <1>3, ThreadsRest
<1>5. q = SubSeq(p, 1, i - 1) \o SubSeq(p, i + 1, Len(p))
  BY <1>3 DEF RemoveAt
<1>6. DOMAIN p = 1 .. Len(p)
  BY <1>1, ThreadsList, PathType
<1> QED BY <1>1, <1>4, <1>5, <1>6 DEF Lists!RemoveThread, RootList, FileLists

LEMMA MoveToEndLists ==
  ASSUME RamdiskInv, MoveToEnd
  PROVE  Lists!MoveToEnd \/ UNCHANGED Lists!vars
<1>1. PICK p : p = Chain(nodes, threads)
  OBVIOUS
<1>2. PICK q : q = Append(Tail(p), Head(p))
  OBVIOUS
<1>3. ThreadsGo(p) \/ ThreadsGo(q)
  BY <1>1, <1>2, MoveToEndGoes
<1>4. CASE ThreadsGo(p)
  <2>1. /\ Chain(nodes', threads') = p
        /\ RootList' = RootList /\ FileLists' = FileLists
    BY <1>4, ThreadsRest
  <2> QED BY <1>1, <2>1 DEF Lists!vars, RootList, FileLists
<1>5. CASE ThreadsGo(q)
  <2>1. /\ Chain(nodes', threads') = q
        /\ RootList' = RootList /\ FileLists' = FileLists
    BY <1>5, ThreadsRest
  <2> QED BY <1>1, <1>2, <2>1 DEF Lists!MoveToEnd, RootList, FileLists
<1> QED BY <1>3, <1>4, <1>5

LEMMA ThreadsStayLists ==
  ASSUME RamdiskInv, ThreadsGo(Chain(nodes, threads))
  PROVE  UNCHANGED Lists!vars
<1>1. PICK p : p = Chain(nodes, threads)
  OBVIOUS
<1>2. /\ Chain(nodes', threads') = p
      /\ RootList' = RootList /\ FileLists' = FileLists
  BY <1>1, ThreadsRest
<1> QED BY <1>1, <1>2 DEF Lists!vars, RootList, FileLists

LEMMA load_ramdiskLists ==
  ASSUME RamdiskInv, load_ramdisk
  PROVE  Lists!Load
<1>1. /\ Chain(nodes', disk_head') = <<Len(nodes) + 1>>
      /\ Kept(nodes, nodes', {threads} \cup FileHeads)
  BY load_ramdiskGoes
<1>2. /\ disk_head = NULL /\ disk_head' = Len(nodes) + 1 /\ threads' = threads
      /\ descs' = descs /\ Len(nodes) + 1 <= MaxNodes
  BY DEF load_ramdisk, Room
<1>3. Chain(nodes', threads') = Chain(nodes, threads)
  BY <1>1, <1>2 DEF Kept
<1>4. FileLists' = FileLists
  BY <1>1, <1>2, FileListsKept DEF Kept
<1>5. PICK s : s = News(1)
  OBVIOUS
<1>6. s \in Lists!New(1)
  BY <1>2, <1>5, NewsAre
<1>7. RootList' = s
  <2>1. Len(nodes) \in Nat
    BY ListsAre
  <2>2. disk_head' # NULL
    BY <1>2, <2>1 DEF NULL
  <2>3. <<Len(nodes) + 1>> = [k \in 1 .. 1 |-> Len(nodes) + k]
    OBVIOUS
  <2> QED BY <1>1, <1>5, <2>2, <2>3 DEF RootList, News
<1>8. RootList = <<>>
  BY <1>2 DEF RootList
<1> QED BY <1>3, <1>4, <1>6, <1>7, <1>8 DEF Lists!Load, RootList, FileLists

LEMMA create_rd_fileLists ==
  ASSUME RamdiskInv, NEW type \in {RAMDISK_FILE, RAMDISK_DIRECTORY},
         create_rd_file(type)
  PROVE  Lists!Create
<1>1. PICK L \in Nat : L = Len(nodes)
  BY ListsAre
<1>2. PICK p : p = Chain(nodes, disk_head)
  OBVIOUS
<1>3. PICK F : F = FileLists
  OBVIOUS
<1>4. /\ Kept(nodes, nodes', {threads} \cup FileHeads)
      /\ Chain(nodes', disk_head') = Longer(nodes, p, 1)
      /\ Chain(nodes', L + 2) = <<L + 2>>
  BY <1>1, <1>2, create_rd_fileGoes
<1>5. /\ threads' = threads /\ disk_head' = disk_head /\ disk_head \in DiskHeads
      /\ L + 2 <= MaxNodes
      /\ DOMAIN descs' = 1 .. Len(descs) + 1 /\ DOMAIN descs = 1 .. Len(descs)
      /\ Len(descs) \in Nat
      /\ \A f \in DOMAIN descs : FileHead(f)' = FileHead(f)
      /\ \A f \in {Len(descs) + 1} : FileHead(f)' = L + 2
  BY <1>1, create_rd_fileAdds
<1>6. PICK s : s = News(2)
  OBVIOUS
<1>7. s \in Lists!New(2) /\ s[1] = L + 1 /\ s[2] = L + 2
  <2>1. 1 \in 1 .. 2 /\ 2 \in 1 .. 2
    OBVIOUS
  <2> QED BY <1>1, <1>5, <1>6, <2>1, NewsAre
<1>8. RootList = p /\ p \in Seq(Nat)
  <2>1. RootList = p
    BY <1>2, <1>5 DEF RootList, DiskHeads
  <2>2. RootList \in Seq(DOMAIN nodes) /\ DOMAIN nodes = 1 .. L
    BY <1>1, ListsAre
  <2> QED BY <2>1, <2>2
<1>9. RootList' = Append(p, s[1])
  <2>1. RootList' = Longer(nodes, p, 1)
    BY <1>4, <1>5 DEF RootList, DiskHeads
  <2>2. Longer(nodes, p, 1) = p \o <<L + 1>>
    <3>1. [k \in 1 .. 1 |-> L + k] = <<L + 1>>
      OBVIOUS
    <3> QED BY <1>1, <3>1 DEF Longer
  <2>3. p \o <<L + 1>> = Append(p, L + 1)
    BY <1>8
  <2> QED BY <1>7, <2>1, <2>2, <2>3
<1>10. FileLists' = Append(F, <<s[2]>>)
  <2>1. FileLists' = [f \in DOMAIN descs' |-> FileOf(f)']
    BY DEF FileLists
  <2>2. /\ F \in Seq(Seq(Nat)) /\ Len(F) = Len(descs)
        /\ F = [f \in DOMAIN descs |-> FileOf(f)]
    <3>1. F \in Seq(Seq(DOMAIN nodes)) /\ Len(F) = Len(descs) /\ DOMAIN nodes = 1 .. L
      BY <1>1, <1>3, ListsAre
    <3>2. Seq(DOMAIN nodes) \subseteq Seq(Nat)
      BY <3>1
    <3> QED BY <1>3, <3>1, <3>2 DEF FileLists
  <2>3. Append(F, <<L + 2>>)
          = [f \in 1 .. Len(descs) + 1 |-> IF f = Len(descs) + 1 THEN <<L + 2>> ELSE F[f]]
    BY <1>1, <1>5, <2>2
  <2>4. \A f \in DOMAIN descs' :
          FileOf(f)' = IF f = Len(descs) + 1 THEN <<L + 2>> ELSE F[f]
    <3> TAKE f \in DOMAIN descs'
    <3>1. FileOf(f)' = Chain(nodes', FileHead(f)')
      BY DEF FileOf, FileHead
    <3>2. CASE f = Len(descs) + 1
      BY <1>4, <1>5, <3>1, <3>2
    <3>3. CASE f # Len(descs) + 1
      <4>1. f \in DOMAIN descs
        BY <1>5, <3>3
      <4>2. Chain(nodes', FileHead(f)) = Chain(nodes, FileHead(f))
        BY <1>4, <4>1 DEF Kept, FileHeads
      <4>3. F[f] = Chain(nodes, FileHead(f))
        BY <2>2, <4>1 DEF FileOf, FileHead
      <4> QED BY <1>5, <3>1, <3>3, <4>1, <4>2, <4>3
    <3> QED BY <3>2, <3>3
  <2> QED BY <1>5, <1>7, <2>1, <2>3, <2>4
<1>11. Chain(nodes', threads') = Chain(nodes, threads)
  BY <1>4, <1>5 DEF Kept
<1> QED BY <1>3, <1>7, <1>8, <1>9, <1>10, <1>11 DEF Lists!Create, RootList, FileLists

(* What is behind a list in the longer one is what was added.              *)
LEMMA BehindIs ==
  ASSUME RamdiskInv, NEW p \in Seq(Nat), NEW n \in Nat, Len(nodes) + n <= MaxNodes
  PROVE  /\ Lists!Behind(p, Longer(nodes, p, n)) = News(n)
         /\ p \o News(n) = Longer(nodes, p, n)
<1>1. PICK s : s = News(n)
  OBVIOUS
<1>2. s \in Seq(Nat) /\ Len(s) = n
  BY <1>1, NewsAre
<1>3. PICK q : q = Longer(nodes, p, n)
  OBVIOUS
<1>4. q = p \o s
  BY <1>1, <1>3 DEF Longer, News
<1>5. SubSeq(q, Len(p) + 1, Len(q)) = s
  <2>1. PICK l \in Nat : l = Len(p)
    OBVIOUS
  <2>2. q \in Seq(Nat) /\ Len(q) = l + n
    <3>1. p \o s \in Seq(Nat) /\ Len(p \o s) = Len(p) + Len(s)
      BY <1>2
    <3> QED BY <1>2, <1>4, <2>1, <3>1
  <2>3. PICK t : t = SubSeq(q, l + 1, l + n)
    OBVIOUS
  <2>4. t \in Seq(Nat) /\ Len(t) = n /\ \A k \in 1 .. n : t[k] = q[l + k]
    <3>1. t \in Seq(Nat)
      BY <2>1, <2>2, <2>3
    <3>2. Len(t) = n
      BY <2>1, <2>2, <2>3
    <3>3. \A k \in 1 .. n : t[k] = q[l + k]
      BY <2>1, <2>2, <2>3
    <3> QED BY <3>1, <3>2, <3>3
  <2>5. \A k \in 1 .. n : q[l + k] = s[k]
    BY <1>2, <1>4, <2>1
  <2>6. t = s
    <3>1. s = [k \in 1 .. n |-> s[k]]
      BY <1>2
    <3>2. t = [k \in 1 .. n |-> t[k]]
      BY <2>4
    <3> QED BY <2>4, <2>5, <3>1, <3>2
  <2> QED BY <2>1, <2>2, <2>3, <2>6
<1> QED BY <1>1, <1>3, <1>4, <1>5 DEF Lists!Behind

LEMMA write_rd_fileLists ==
  ASSUME RamdiskInv, NEW file \in DOMAIN descs, NEW length \in Lengths,
         NEW append \in BOOLEAN, write_rd_file(file, length, append)
  PROVE  Lists!Grow
<1>1. PICK at, start, offset, growth \in Nat :
        /\ Writing(file, length, append, at, start, offset, growth)
        /\ at \in 1 .. Len(FileOf(file))
  BY WriteIs
<1>2. PICK h : h = FileHead(file)
  OBVIOUS
<1>3. PICK p : p = FileOf(file)
  OBVIOUS
<1>4. PICK q : q = Longer(nodes, p, growth)
  OBVIOUS
<1>5. PICK F : F = FileLists
  OBVIOUS
<1>6. Kept(nodes, nodes', Heads \ {h}) /\ Chain(nodes', h) = q
  <2>1. length \in Nat
    BY RamdiskAssumption
  <2> QED BY <1>1, <1>2, <1>3, <1>4, <2>1, write_rd_fileGoes
<1>7. /\ threads' = threads /\ disk_head' = disk_head /\ descs' = descs
      /\ Len(nodes) + growth <= MaxNodes
  BY <1>1 DEF Writing
<1>8. /\ Heads = {threads} \cup FileHeads \cup DiskHeads \cup Children(nodes)
      /\ h \in FileHeads /\ threads \notin FileHeads /\ disk_head \notin FileHeads
  BY <1>2, HeadsAre, FileList DEF RamdiskInv, RolesApart
<1>9. Chain(nodes', threads') = Chain(nodes, threads)
  <2>1. threads \in Heads \ {h}
    BY <1>8
  <2> QED BY <1>6, <1>7, <2>1 DEF Kept
<1>10. RootList' = RootList
  <2>1. CASE disk_head = NULL
    BY <1>7, <2>1 DEF RootList
  <2>2. CASE disk_head # NULL
    <3>1. disk_head \in Heads \ {h}
      BY <1>8, <2>2 DEF DiskHeads
    <3>2. Chain(nodes', disk_head) = Chain(nodes, disk_head)
      BY <1>6, <3>1 DEF Kept
    <3> QED BY <1>7, <3>2 DEF RootList
  <2> QED BY <2>1, <2>2
<1>11. F[file] = p /\ DOMAIN F = DOMAIN descs /\ p \in Seq(Nat)
  <2>1. F[file] = p /\ DOMAIN F = DOMAIN descs
    BY <1>3, <1>5 DEF FileLists
  <2>2. F \in Seq(Seq(DOMAIN nodes)) /\ DOMAIN nodes \subseteq Nat
    BY <1>5, ListsAre
  <2>3. p \in Seq(DOMAIN nodes)
    BY <2>1, <2>2
  <2> QED BY <2>1, <2>2, <2>3
<1>12. FileLists' = [F EXCEPT ![file] = q]
  <2>1. FileLists' = [f \in DOMAIN descs |-> FileOf(f)']
    BY <1>7 DEF FileLists
  <2>2. \A f \in DOMAIN descs : FileOf(f)' = IF f = file THEN q ELSE F[f]
    <3> TAKE f \in DOMAIN descs
    <3>1. FileOf(f)' = Chain(nodes', FileHead(f))
      BY <1>7 DEF FileOf, FileHead
    <3>2. CASE f = file
      BY <1>2, <1>6, <3>1, <3>2
    <3>3. CASE f # file
      <4>1. FileHead(f) \in Heads \ {h}
        BY <1>2, <3>3, FileList DEF RamdiskInv, RolesApart
      <4>2. Chain(nodes', FileHead(f)) = Chain(nodes, FileHead(f))
        BY <1>6, <4>1 DEF Kept
      <4> QED BY <1>5, <3>1, <3>3, <4>2 DEF FileLists, FileOf, FileHead
    <3> QED BY <3>2, <3>3
  <2>3. F = [f \in DOMAIN descs |-> F[f]]
    BY <1>5 DEF FileLists
  <2>4. [F EXCEPT ![file] = q] = [f \in DOMAIN descs |-> IF f = file THEN q ELSE F[f]]
    BY <2>3
  <2> QED BY <2>1, <2>2, <2>4
<1>13. PICK s : s = News(growth)
  OBVIOUS
<1>14. Lists!Behind(p, q) = s /\ p \o s = q
  BY <1>4, <1>7, <1>11, <1>13, BehindIs
<1>15. Lists!Increasing(s) /\ Lists!RangeOf(s) \subseteq (1 .. MaxNodes) \ Lists!Used
  BY <1>7, <1>13, NewsAre
<1>16. PICK F2 : F2 = FileLists'
  OBVIOUS
<1>17. F2[file] = q /\ F2 = [F EXCEPT ![file] = q]
  BY <1>11, <1>12, <1>16
<1>18. F2 = [F EXCEPT ![file] = p \o Lists!Behind(p, F2[file])]
  BY <1>14, <1>17
<1>19. F2 = [F EXCEPT ![file] = @ \o Lists!Behind(@, F2[file])]
  BY <1>11, <1>18
<1>20. /\ file \in DOMAIN F
       /\ Lists!RangeOf(Lists!Behind(F[file], F2[file])) \subseteq (1 .. MaxNodes) \ Lists!Used
       /\ Lists!Increasing(Lists!Behind(F[file], F2[file]))
  BY <1>11, <1>14, <1>15, <1>17
<1>21. /\ F = [f \in DOMAIN descs |-> FileOf(f)]
       /\ F2 = [f \in DOMAIN descs |-> FileOf(f)]'
  BY <1>5, <1>16 DEF FileLists
<1> QED BY <1>9, <1>10, <1>19, <1>20, <1>21 DEF Lists!Grow, RootList

LEMMA NextLists ==
  ASSUME RamdiskInv, [Next]_vars
  PROVE  [Lists!Next]_(Lists!vars)
<1>1. CASE AddThread
  BY <1>1, AddThreadLists DEF Lists!Next
<1>2. CASE AddChild
  BY <1>2, AddChildGoes, ThreadsStayLists
<1>3. CASE RemoveThread
  BY <1>3, RemoveThreadLists DEF Lists!Next
<1>4. CASE MoveToEnd
  BY <1>4, MoveToEndLists DEF Lists!Next
<1>5. CASE TestList
  BY <1>5, TestListGoes, ThreadsStayLists
<1>6. CASE load_ramdisk
  BY <1>6, load_ramdiskLists DEF Lists!Next
<1>7. CASE \E type \in {RAMDISK_FILE, RAMDISK_DIRECTORY} : create_rd_file(type)
  BY <1>7, create_rd_fileLists DEF Lists!Next
<1>8. CASE \E file \in DOMAIN descs, length \in Lengths, append \in BOOLEAN :
             write_rd_file(file, length, append)
  BY <1>8, write_rd_fileLists DEF Lists!Next
<1>9. CASE UNCHANGED vars
  BY <1>9 DEF vars, Lists!vars, FileOf
<1> QED BY <1>1, <1>2, <1>3, <1>4, <1>5, <1>6, <1>7, <1>8, <1>9 DEF Next

(* The list of threads, the root directory and the lists of files behave   *)
(* as sequences of nodes of their own: what list.c and write_rd_file do    *)
(* with pointers is an addition, removal or move in one sequence.          *)
THEOREM NodeListsImplemented ==
  Spec => ImplementsNodeLists
<1>1. Init => Lists!Init
  BY InitLists
<1>2. RamdiskInv /\ [Next]_vars => [Lists!Next]_(Lists!vars)
  BY NextLists
<1> QED BY <1>1, <1>2, RamdiskSafe, PTL DEF Spec, ImplementsNodeLists, Lists!Spec

----------------------------------------------------------------------------
(* A place in a sequence of blocks                                         *)

LEMMA PartsAre ==
  ASSUME NEW size \in Nat \ {0}, NEW q \in Nat, NEW r \in 0 .. size - 1,
         NEW x \in Nat, x = q * size + r
  PROVE  x \div size = q /\ x % size = r
<1>1. PICK d \in Nat, m \in 0 .. size - 1 :
        d = x \div size /\ m = x % size /\ x = size * d + m
  BY Division
<1>2. q * size + r = d * size + m
  BY <1>1
<1>3. ASSUME q < d PROVE FALSE
  <2>1. PICK e \in Nat : d = q + 1 + e
    <3>1. d - q - 1 \in Nat /\ d = q + 1 + (d - q - 1)
      BY <1>3
    <3> QED BY <3>1
  <2>2. d * size = q * size + size + e * size
    BY <2>1
  <2>3. e * size \in Nat
    OBVIOUS
  <2> QED BY <1>2, <2>2, <2>3
<1>4. ASSUME d < q PROVE FALSE
  <2>1. PICK e \in Nat : q = d + 1 + e
    <3>1. q - d - 1 \in Nat /\ q = d + 1 + (q - d - 1)
      BY <1>4
    <3> QED BY <3>1
  <2>2. q * size = d * size + size + e * size
    BY <2>1
  <2>3. e * size \in Nat
    OBVIOUS
  <2> QED BY <1>2, <2>2, <2>3
<1>5. q = d
  BY <1>3, <1>4
<1> QED BY <1>1, <1>2, <1>5

LEMMA TurnPlaceAre ==
  ASSUME NEW offset \in Nat, NEW i \in Nat \ {0}
  PROVE  /\ Turn(offset, i) \in Nat /\ Place(offset, i) \in 1 .. RAMDISK_BLOCKSIZE
         /\ offset + i = Turn(offset, i) * RAMDISK_BLOCKSIZE + Place(offset, i)
<1>1. RAMDISK_BLOCKSIZE \in Nat \ {0}
  BY RamdiskAssumption
<1>2. PICK size \in Nat \ {0} : size = RAMDISK_BLOCKSIZE
  BY <1>1
<1>3. PICK x \in Nat : x = offset + i - 1
  OBVIOUS
<1>4. /\ x \div size \in Nat /\ x % size \in 0 .. size - 1
      /\ x = size * (x \div size) + (x % size)
  BY Division
<1>5. PICK d \in Nat, m \in 0 .. size - 1 : d = x \div size /\ m = x % size
  BY <1>4
<1>6. x = size * d + m
  BY <1>4, <1>5
<1>7. Turn(offset, i) = d /\ Place(offset, i) = 1 + m
  BY <1>2, <1>3, <1>5 DEF Turn, Place
<1>8. offset + i = d * size + (1 + m)
  BY <1>3, <1>6
<1>9. 1 + m \in 1 .. size
  OBVIOUS
<1> QED BY <1>2, <1>7, <1>8, <1>9

LEMMA TurnPlaceIs ==
  ASSUME NEW offset \in Nat, NEW i \in Nat \ {0}, NEW t \in Nat,
         NEW p \in 1 .. RAMDISK_BLOCKSIZE, offset + i = t * RAMDISK_BLOCKSIZE + p
  PROVE  Turn(offset, i) = t /\ Place(offset, i) = p
<1>1. PICK size \in Nat \ {0} : size = RAMDISK_BLOCKSIZE
  BY RamdiskAssumption
<1>2. PICK r \in 0 .. size - 1 : r = p - 1
  BY <1>1
<1>3. PICK x \in Nat : x = offset + i - 1
  OBVIOUS
<1>4. x = t * size + r
  BY <1>1, <1>2, <1>3
<1>5. x \div size = t /\ x % size = r
  BY <1>4, PartsAre
<1> QED BY <1>1, <1>2, <1>3, <1>5 DEF Turn, Place

(* The first k blocks of s, one behind the other.                          *)
Texts == [1 .. RAMDISK_BLOCKSIZE -> Int]
Flat(s, k) ==
  [i \in 1 .. k * RAMDISK_BLOCKSIZE |-> s[Turn(0, i) + 1][Place(0, i)]]

LEMMA TurnBelow ==
  ASSUME NEW k \in Nat, NEW i \in 1 .. k * RAMDISK_BLOCKSIZE
  PROVE  Turn(0, i) \in 0 .. k - 1 /\ Place(0, i) \in 1 .. RAMDISK_BLOCKSIZE
<1>1. PICK size \in Nat \ {0} : size = RAMDISK_BLOCKSIZE
  BY RamdiskAssumption
<1>2. PICK o \in Nat : o = 0
  OBVIOUS
<1>3. i \in Nat \ {0} /\ i <= k * size
  BY <1>1
<1>4. PICK t \in Nat, p \in 1 .. size :
        t = Turn(o, i) /\ p = Place(o, i) /\ o + i = t * size + p
  <2>1. /\ Turn(o, i) \in Nat /\ Place(o, i) \in 1 .. size
        /\ o + i = Turn(o, i) * size + Place(o, i)
    BY <1>1, <1>3, TurnPlaceAre
  <2> QED BY <2>1
<1>5. t < k
  <2> SUFFICES ASSUME ~(t < k) PROVE FALSE
    OBVIOUS
  <2>1. PICK e \in Nat : t = k + e
    <3>1. t - k \in Nat /\ t = k + (t - k)
      OBVIOUS
    <3> QED BY <3>1
  <2>2. t * size = k * size + e * size /\ e * size \in Nat
    BY <2>1
  <2>3. k * size \in Nat /\ t * size \in Nat
    OBVIOUS
  <2> QED BY <1>2, <1>3, <1>4, <2>2, <2>3
<1> QED BY <1>1, <1>2, <1>4, <1>5

LEMMA FlatFirst ==
  ASSUME NEW s \in Seq(Texts), s # <<>>
  PROVE  Flat(s, 1) = s[1]
<1>1. PICK size \in Nat \ {0} : size = RAMDISK_BLOCKSIZE
  BY RamdiskAssumption
<1>2. s[1] = [i \in 1 .. size |-> s[1][i]]
  BY <1>1 DEF Texts
<1>3. \A i \in 1 .. size : s[Turn(0, i) + 1][Place(0, i)] = s[1][i]
  <2> TAKE i \in 1 .. size
  <2>1. PICK o \in Nat, t \in Nat, k \in Nat \ {0} : o = 0 /\ t = 0 /\ k = i
    OBVIOUS
  <2>2. k \in 1 .. RAMDISK_BLOCKSIZE /\ o + k = t * RAMDISK_BLOCKSIZE + k
    BY <1>1, <2>1
  <2>3. Turn(o, k) = t /\ Place(o, k) = k
    BY <2>2, TurnPlaceIs
  <2> QED BY <2>1, <2>3
<1>4. Flat(s, 1) = [i \in 1 .. size |-> s[Turn(0, i) + 1][Place(0, i)]]
  <2>1. 1 * RAMDISK_BLOCKSIZE = size
    BY <1>1
  <2> QED BY <2>1 DEF Flat
<1> QED BY <1>2, <1>3, <1>4

LEMMA JoinedIs ==
  ASSUME NEW f \in Seq(Int), NEW g \in Seq(Int),
         NEW l \in Nat, Len(f) = l, NEW n \in Nat, Len(g) = n
  PROVE  f \o g = [i \in 1 .. l + n |-> IF i <= l THEN f[i] ELSE g[i - l]]
<1>1. PICK h : h = f \o g
  OBVIOUS
<1>2. h \in Seq(Int) /\ Len(h) = l + n
  BY <1>1
<1>3. \A i \in 1 .. l + n : h[i] = IF i <= l THEN f[i] ELSE g[i - l]
  BY <1>1
<1>4. h = [i \in 1 .. l + n |-> h[i]]
  BY <1>2
<1> QED BY <1>1, <1>3, <1>4

LEMMA FlatNext ==
  ASSUME NEW s \in Seq(Texts), NEW k \in 1 .. Len(s), k # 1
  PROVE  Flat(s, k) = Flat(s, k - 1) \o s[k]
<1>1. PICK size \in Nat \ {0} : size = RAMDISK_BLOCKSIZE
  BY RamdiskAssumption
<1>2. PICK j \in Nat \ {0} : j = k - 1 /\ k = j + 1
  OBVIOUS
<1>3. PICK l \in Nat : l = j * size
  OBVIOUS
<1>4. k * RAMDISK_BLOCKSIZE = l + size /\ j * RAMDISK_BLOCKSIZE = l
  BY <1>1, <1>2, <1>3
<1>5. \A i \in 1 .. l + size : s[Turn(0, i) + 1][Place(0, i)] \in Int
  <2> TAKE i \in 1 .. l + size
  <2>1. PICK kk \in Nat : kk = k
    OBVIOUS
  <2>2. i \in 1 .. kk * RAMDISK_BLOCKSIZE
    BY <1>4, <2>1
  <2>3. Turn(0, i) \in 0 .. kk - 1 /\ Place(0, i) \in 1 .. RAMDISK_BLOCKSIZE
    BY <2>2, TurnBelow
  <2>4. Turn(0, i) + 1 \in 1 .. Len(s)
    BY <2>1, <2>3
  <2>5. s[Turn(0, i) + 1] \in Texts
    BY <2>4
  <2> QED BY <2>3, <2>5 DEF Texts
<1>6. PICK f, g : f = Flat(s, j) /\ g = s[k]
  OBVIOUS
<1>7. f = [i \in 1 .. l |-> s[Turn(0, i) + 1][Place(0, i)]]
  BY <1>4, <1>6 DEF Flat
<1>8. f \in Seq(Int) /\ Len(f) = l
  <2>1. \A i \in 1 .. l : i \in 1 .. l + size
    OBVIOUS
  <2>2. f \in [1 .. l -> Int]
    BY <1>5, <1>7, <2>1
  <2> QED BY <2>2
<1>9. g \in Seq(Int) /\ Len(g) = size
  <2>1. g \in [1 .. size -> Int]
    BY <1>1, <1>6 DEF Texts
  <2> QED BY <2>1
<1>10. f \o g = [i \in 1 .. l + size |-> IF i <= l THEN f[i] ELSE g[i - l]]
  <2>1. PICK n \in Nat : n = size
    OBVIOUS
  <2>2. /\ f \in Seq(Int) /\ g \in Seq(Int) /\ Len(f) = l /\ Len(g) = n
    BY <1>8, <1>9, <2>1
  <2>3. f \o g = [i \in 1 .. l + n |-> IF i <= l THEN f[i] ELSE g[i - l]]
    BY <2>2, JoinedIs
  <2> QED BY <2>1, <2>3
<1>11. \A i \in 1 .. l + size :
         s[Turn(0, i) + 1][Place(0, i)] = IF i <= l THEN f[i] ELSE g[i - l]
  <2> TAKE i \in 1 .. l + size
  <2>1. CASE i <= l
    BY <1>7, <2>1
  <2>2. CASE i > l
    <3>1. PICK o \in Nat, n \in Nat \ {0} : o = 0 /\ n = i
      OBVIOUS
    <3>2. PICK p \in 1 .. size : p = i - l
      BY <2>2
    <3>3. o + n = j * RAMDISK_BLOCKSIZE + p
      BY <1>4, <3>1, <3>2
    <3>4. j \in Nat /\ p \in 1 .. RAMDISK_BLOCKSIZE
      BY <1>1
    <3>5. Turn(o, n) = j /\ Place(o, n) = p
      BY <3>3, <3>4, TurnPlaceIs
    <3>6. Turn(0, i) + 1 = k /\ Place(0, i) = i - l
      BY <1>2, <3>1, <3>2, <3>5
    <3>7. ~(i <= l)
      BY <2>2
    <3> QED BY <1>6, <3>6, <3>7
  <2> QED BY <2>1, <2>2
<1>12. Flat(s, k) = [i \in 1 .. l + size |-> s[Turn(0, i) + 1][Place(0, i)]]
  BY <1>4 DEF Flat
<1>13. Flat(s, k) = f \o g
  BY <1>10, <1>11, <1>12
<1> QED BY <1>2, <1>6, <1>13

Joining(s, n, f) == [i \in 1 .. n |-> IF i = 1 THEN s[i] ELSE f[i - 1] \o s[i]]

LEMMA SameJoining ==
  ASSUME NEW s, NEW n \in Nat, n # 0, NEW f, NEW g,
         f = Joining(s, n, f), g = Joining(s, n, g)
  PROVE  f[n] = g[n]
<1>1. PICK lo \in Nat : lo = 1
  OBVIOUS
<1>2. f[lo] = g[lo]
  BY <1>1 DEF Joining
<1>3. \A i \in lo .. n : i # lo /\ f[i - 1] = g[i - 1] => f[i] = g[i]
  <2> SUFFICES ASSUME NEW i \in 1 .. n, i # 1
      PROVE  f[i - 1] = g[i - 1] => f[i] = g[i]
    BY <1>1
  <2>1. f[i] = f[i - 1] \o s[i]
    BY DEF Joining
  <2>2. g[i] = g[i - 1] \o s[i]
    BY DEF Joining
  <2> QED BY <2>1, <2>2
<1>4. GoAlike(f, g, lo, n)
  BY <1>2, <1>3 DEF GoAlike
<1>5. \A i \in lo .. n : f[i] = g[i]
  BY <1>4, SameFunction
<1> QED BY <1>1, <1>5

LEMMA FlattenIs ==
  ASSUME NEW s \in Seq(Texts), s # <<>>
  PROVE  FlattenSeq(s) = Flat(s, Len(s))
<1>1. PICK n \in Nat : n = Len(s) /\ n # 0
  OBVIOUS
<1> DEFINE flatten == CHOOSE f : f = Joining(s, n, f)
           found == [i \in 1 .. n |-> Flat(s, i)]
<1>2. FlattenSeq(s) = flatten[n]
  BY <1>1 DEF FlattenSeq, Joining
<1>3. found = Joining(s, n, found)
  <2> SUFFICES ASSUME NEW i \in 1 .. n
      PROVE  Flat(s, i) = IF i = 1 THEN s[i] ELSE found[i - 1] \o s[i]
    BY DEF Joining
  <2>1. CASE i = 1
    BY <2>1, FlatFirst
  <2>2. CASE i # 1
    <3>1. i \in 1 .. Len(s) /\ found[i - 1] = Flat(s, i - 1)
      BY <1>1, <2>2
    <3> QED BY <2>2, <3>1, FlatNext
  <2> QED BY <2>1, <2>2
<1>4. flatten = Joining(s, n, flatten)
  <2> HIDE DEF found
  <2> QED BY <1>3
<1>5. PICK f, g : f = flatten /\ g = found
  OBVIOUS
<1>6. f = Joining(s, n, f) /\ g = Joining(s, n, g)
  <2> HIDE DEF flatten, found
  <2> QED BY <1>3, <1>4, <1>5
<1> HIDE DEF flatten, found
<1>7. f[n] = g[n] /\ g[n] = Flat(s, n)
  <2>1. n \in 1 .. n
    BY <1>1
  <2>2. f[n] = g[n]
    BY <1>1, <1>6, SameJoining
  <2> QED BY <1>5, <2>1, <2>2 DEF found
<1> QED BY <1>1, <1>2, <1>5, <1>7

(* What the nodes of p show.                                               *)
BlocksIn(m, p, bs) == [i \in DOMAIN p |-> Block(bs, m[p[i]].data)]
Shown(m, p, bs, n) ==
  [i \in 1 .. n * RAMDISK_BLOCKSIZE |->
     bs[m[p[Turn(0, i) + 1]].data + 1][Place(0, i)]]

HasBlocks(m, p, bs, n) ==
  /\ DOMAIN p = 1 .. n /\ bs \in Seq(Texts)
  /\ \A i \in 1 .. n : m[p[i]].data \in 0 .. Len(bs) - 1

LEMMA ShownIs ==
  ASSUME NEW m, NEW p, NEW bs, NEW n \in Nat, n # 0, HasBlocks(m, p, bs, n)
  PROVE  /\ FlattenSeq(BlocksIn(m, p, bs)) = Shown(m, p, bs, n)
         /\ Shown(m, p, bs, n) \in Seq(Int)
         /\ Len(Shown(m, p, bs, n)) = n * RAMDISK_BLOCKSIZE
<1>1. PICK s : s = BlocksIn(m, p, bs)
  OBVIOUS
<1>2. s = [i \in 1 .. n |-> bs[m[p[i]].data + 1]]
  BY <1>1 DEF BlocksIn, HasBlocks, Block
<1>3. \A i \in 1 .. n : bs[m[p[i]].data + 1] \in Texts
  <2> TAKE i \in 1 .. n
  <2>1. bs \in Seq(Texts) /\ m[p[i]].data \in 0 .. Len(bs) - 1
    BY DEF HasBlocks
  <2>2. m[p[i]].data + 1 \in 1 .. Len(bs)
    BY <2>1
  <2> QED BY <2>1, <2>2
<1>4. s \in Seq(Texts) /\ Len(s) = n /\ s # <<>>
  <2>1. s \in [1 .. n -> Texts]
    BY <1>2, <1>3
  <2> QED BY <2>1
<1>5. FlattenSeq(s) = Flat(s, n)
  BY <1>4, FlattenIs
<1>6. ASSUME NEW i \in 1 .. n * RAMDISK_BLOCKSIZE
      PROVE  /\ s[Turn(0, i) + 1][Place(0, i)]
                  = bs[m[p[Turn(0, i) + 1]].data + 1][Place(0, i)]
             /\ s[Turn(0, i) + 1][Place(0, i)] \in Int
  <2>1. Turn(0, i) \in 0 .. n - 1 /\ Place(0, i) \in 1 .. RAMDISK_BLOCKSIZE
    BY TurnBelow
  <2>2. PICK t \in 1 .. n : t = Turn(0, i) + 1
    BY <2>1
  <2>3. s[t] = bs[m[p[t]].data + 1] /\ s[t] \in Texts
    BY <1>2, <1>3
  <2> QED BY <2>1, <2>2, <2>3 DEF Texts
<1>7. Flat(s, n) = Shown(m, p, bs, n)
  BY <1>6 DEF Flat, Shown
<1>8. n * RAMDISK_BLOCKSIZE \in Nat
  BY RamdiskAssumption
<1>9. PICK f : f = Shown(m, p, bs, n)
  OBVIOUS
<1>10. f = [i \in 1 .. n * RAMDISK_BLOCKSIZE |-> s[Turn(0, i) + 1][Place(0, i)]]
  BY <1>7, <1>9 DEF Flat
<1>11. f \in [1 .. n * RAMDISK_BLOCKSIZE -> Int]
  BY <1>6, <1>10
<1>12. f \in Seq(Int) /\ Len(f) = n * RAMDISK_BLOCKSIZE
  BY <1>8, <1>11
<1> QED BY <1>1, <1>5, <1>7, <1>9, <1>12

LEMMA TurnMonotonic ==
  ASSUME NEW offset \in Nat, NEW i \in Nat \ {0}, NEW j \in Nat \ {0}, i <= j
  PROVE  Turn(offset, i) <= Turn(offset, j)
<1>1. PICK size \in Nat \ {0} : size = RAMDISK_BLOCKSIZE
  BY RamdiskAssumption
<1>2. PICK t \in Nat, p \in 1 .. size :
        t = Turn(offset, i) /\ offset + i = t * size + p
  <2>1. /\ Turn(offset, i) \in Nat /\ Place(offset, i) \in 1 .. size
        /\ offset + i = Turn(offset, i) * size + Place(offset, i)
    BY <1>1, TurnPlaceAre
  <2> QED BY <2>1
<1>3. PICK u \in Nat, r \in 1 .. size :
        u = Turn(offset, j) /\ offset + j = u * size + r
  <2>1. /\ Turn(offset, j) \in Nat /\ Place(offset, j) \in 1 .. size
        /\ offset + j = Turn(offset, j) * size + Place(offset, j)
    BY <1>1, TurnPlaceAre
  <2> QED BY <2>1
<1>4. ASSUME u < t PROVE FALSE
  <2>1. PICK e \in Nat : t = u + 1 + e
    <3>1. t - u - 1 \in Nat /\ t = u + 1 + (t - u - 1)
      BY <1>4
    <3> QED BY <3>1
  <2>2. t * size = u * size + size + e * size /\ e * size \in Nat
    BY <2>1
  <2>3. u * size \in Nat
    OBVIOUS
  <2> QED BY <1>2, <1>3, <2>2, <2>3
<1> QED BY <1>2, <1>3, <1>4

(* The blocks that a write leaves alone, and where it puts the text.       *)
BlocksWritten(text, start, offset, growth) ==
  /\ \A b \in DOMAIN blocks : b # start + 1 => blocks'[b] = blocks[b]
  /\ \A p \in 1 .. offset : blocks'[start + 1][p] = blocks[start + 1][p]
  /\ \A k \in DOMAIN text :
       /\ Turn(offset, k) \in 0 .. growth
       /\ blocks'[Goes(start, offset, k) + 1][Place(offset, k)] = text[k]

LEMMA WriteReaches ==
  ASSUME RamdiskInv, NEW file, NEW length \in Nat, length # 0, NEW append, NEW at,
         NEW start \in 0 .. Len(blocks) - 1, NEW offset \in 0 .. RAMDISK_BLOCKSIZE - 1,
         NEW growth \in Nat, NEW text, text = Text(Len(wrote) + 1, length),
         Writing(file, length, append, at, start, offset, growth)
  PROVE  BlocksWritten(text, start, offset, growth)
<1>1. PICK B \in Nat \ {0} : B = Len(blocks) /\ DOMAIN blocks = 1 .. B
  BY DEF RamdiskInv, TypeInv
<1>2. PICK size \in Nat \ {0} : size = RAMDISK_BLOCKSIZE
  BY RamdiskAssumption
<1>3. offset \in Nat /\ offset < size /\ start \in Nat /\ start < B
  BY <1>1, <1>2
<1>4. DOMAIN text = 1 .. length
  BY DEF Text
<1>5. growth = Turn(offset, length)
  BY DEF Writing
<1>6. PICK left \in Leftovers :
        blocks' = [b \in 1 .. B + growth |->
                     Written(text, start, offset, b - 1,
                             IF b \in DOMAIN blocks THEN blocks[b] ELSE left)]
  BY <1>1 DEF Writing
<1>7. ASSUME NEW k \in DOMAIN text
      PROVE  /\ Turn(offset, k) \in 0 .. growth /\ Place(offset, k) \in 1 .. size
             /\ offset + k = Turn(offset, k) * size + Place(offset, k)
  <2>1. k \in Nat \ {0} /\ k <= length /\ length \in Nat \ {0}
    BY <1>4
  <2>2. Turn(offset, k) <= growth
    BY <1>3, <1>5, <2>1, TurnMonotonic
  <2>3. /\ Turn(offset, k) \in Nat /\ Place(offset, k) \in 1 .. size
        /\ offset + k = Turn(offset, k) * size + Place(offset, k)
    BY <1>2, <1>3, <2>1, TurnPlaceAre
  <2> QED BY <2>2, <2>3
<1>8. ASSUME NEW k \in DOMAIN text
      PROVE  Goes(start, offset, k)
               = (IF Turn(offset, k) = 0 THEN start ELSE B + Turn(offset, k) - 1)
  BY <1>1 DEF Goes
<1>9. ASSUME NEW b \in DOMAIN blocks, b # start + 1
      PROVE  blocks'[b] = blocks[b]
  <2>1. b \in Nat /\ b <= B /\ b \in 1 .. B + growth
    BY <1>1
  <2>2. \A k \in DOMAIN text : Goes(start, offset, k) # b - 1
    <3> TAKE k \in DOMAIN text
    <3>1. PICK t \in 0 .. growth : t = Turn(offset, k)
      BY <1>7
    <3>2. Goes(start, offset, k) = IF t = 0 THEN start ELSE B + t - 1
      BY <1>8, <3>1
    <3>3. b - 1 # start /\ b - 1 < B
      BY <1>3, <1>9, <2>1
    <3> QED BY <1>3, <2>1, <3>2, <3>3
  <2>3. \A p : Hits(text, start, offset, b - 1, p) = {}
    BY <2>2 DEF Hits
  <2>4. blocks'[b] = Written(text, start, offset, b - 1, blocks[b])
    BY <1>6, <2>1
  <2>5. Written(text, start, offset, b - 1, blocks[b]) = [p \in 1 .. size |-> blocks[b][p]]
    BY <1>2, <2>3 DEF Written
  <2>6. blocks[b] \in [1 .. size -> Int]
    <3>1. blocks \in Seq([1 .. size -> Int])
      BY <1>2 DEF RamdiskInv, TypeInv
    <3> QED BY <3>1
  <2> QED BY <2>4, <2>5, <2>6
<1>10. ASSUME NEW p \in 1 .. offset
       PROVE  blocks'[start + 1][p] = blocks[start + 1][p]
  <2>1. p \in 1 .. size /\ start + 1 \in 1 .. B + growth /\ start + 1 \in DOMAIN blocks
    BY <1>1, <1>3
  <2>2. \A k \in DOMAIN text : Goes(start, offset, k) = start => Place(offset, k) # p
    <3> TAKE k \in DOMAIN text
    <3> HAVE Goes(start, offset, k) = start
    <3>1. PICK t \in 0 .. growth, r \in 1 .. size :
            t = Turn(offset, k) /\ r = Place(offset, k) /\ offset + k = t * size + r
      BY <1>7
    <3>2. t = 0
      <4>1. Goes(start, offset, k) = IF t = 0 THEN start ELSE B + t - 1
        BY <1>8, <3>1
      <4>2. t # 0 => start # B + t - 1
        BY <1>3
      <4> QED BY <4>1, <4>2
    <3>3. k \in Nat \ {0}
      BY <1>4
    <3>4. offset + k = r
      BY <3>1, <3>2
    <3>5. r # p
      BY <1>3, <3>3, <3>4
    <3> QED BY <3>1, <3>5
  <2>3. Hits(text, start, offset, start, p) = {}
    BY <2>2 DEF Hits
  <2>4. PICK b \in DOMAIN blocks : b = start + 1 /\ b - 1 = start /\ b \in 1 .. B + growth
    BY <1>3, <2>1
  <2>5. blocks'[b] = Written(text, start, offset, start, blocks[b])
    BY <1>6, <2>4
  <2>6. Written(text, start, offset, start, blocks[b])[p] = blocks[b][p]
    BY <1>2, <2>1, <2>3 DEF Written
  <2> QED BY <2>4, <2>5, <2>6
<1>11. ASSUME NEW k \in DOMAIN text
       PROVE  blocks'[Goes(start, offset, k) + 1][Place(offset, k)] = text[k]
  <2>1. PICK t \in 0 .. growth, r \in 1 .. size :
          t = Turn(offset, k) /\ r = Place(offset, k) /\ offset + k = t * size + r
    BY <1>7
  <2>2. PICK a \in 0 .. B + growth - 1 : a = Goes(start, offset, k)
    BY <1>3, <1>8, <2>1
  <2>3. ASSUME NEW i \in DOMAIN text, Goes(start, offset, i) = a, Place(offset, i) = r
        PROVE  i = k
    <3>1. PICK u \in 0 .. growth :
            u = Turn(offset, i) /\ offset + i = u * size + r
      BY <1>7, <2>3
    <3>2. u = t
      <4>1. a = IF t = 0 THEN start ELSE B + t - 1
        BY <1>8, <2>1, <2>2
      <4>2. a = IF u = 0 THEN start ELSE B + u - 1
        BY <1>8, <2>3, <3>1
      <4> QED BY <1>3, <4>1, <4>2
    <3>3. offset + i = offset + k
      BY <2>1, <3>1, <3>2
    <3> QED BY <1>3, <1>4, <3>3
  <2>4. Hits(text, start, offset, a, r) = {k}
    BY <2>1, <2>2, <2>3 DEF Hits
  <2>5. (CHOOSE i \in {k} : TRUE) = k
    OBVIOUS
  <2>6. PICK b \in 1 .. B + growth : b = a + 1 /\ b - 1 = a
    OBVIOUS
  <2>7. PICK old : old = IF b \in DOMAIN blocks THEN blocks[b] ELSE left
    OBVIOUS
  <2>8. blocks'[b] = Written(text, start, offset, a, old)
    BY <1>6, <2>6, <2>7
  <2>9. Written(text, start, offset, a, old)[r] = text[k]
    BY <1>2, <2>4, <2>5 DEF Written
  <2> QED BY <2>1, <2>2, <2>6, <2>8, <2>9
<1>12. \A k \in DOMAIN text : Turn(offset, k) \in 0 .. growth
  BY <1>7
<1> QED BY <1>9, <1>10, <1>11, <1>12 DEF BlocksWritten

(* The files that are not written show what they did.                      *)
LEMMA OthersShow ==
  ASSUME RamdiskInv, NEW file \in DOMAIN descs, NEW length \in Nat, length # 0,
         NEW append \in BOOLEAN, NEW at \in 1 .. Len(FileOf(file)),
         NEW start \in 0 .. Len(blocks) - 1, NEW offset \in 0 .. RAMDISK_BLOCKSIZE - 1,
         NEW growth \in Nat, Writing(file, length, append, at, start, offset, growth),
         NEW f \in DOMAIN descs, f # file, ~Lacks(f)
  PROVE  Contents(f)' = Contents(f)
<1>1. PICK p : p = FileOf(f)
  OBVIOUS
<1>2. PICK n \in Nat : n = Len(p) /\ n # 0 /\ DOMAIN p = 1 .. n
  BY <1>1, FileList
<1>3. PICK text : text = Text(Len(wrote) + 1, length)
  OBVIOUS
<1>4. BlocksWritten(text, start, offset, growth)
  BY <1>3, WriteReaches
<1>5. /\ blocks' \in Seq(Texts) /\ Len(blocks') = Len(blocks) + growth
      /\ blocks \in Seq(Texts) /\ Len(blocks) \in Nat /\ DOMAIN blocks = 1 .. Len(blocks)
  <2>1. blocks' \in Seq(Texts) /\ Len(blocks') = Len(blocks) + growth
    BY WriteBlocks DEF Texts
  <2>2. blocks \in Seq(Texts)
    BY DEF RamdiskInv, TypeInv, Texts
  <2> QED BY <2>1, <2>2
<1>6. PICK h, k : h = FileHead(file) /\ k = FileHead(f)
  OBVIOUS
<1>7. h \in Heads /\ k \in Heads /\ k # h /\ p = Chain(nodes, k)
  BY <1>1, <1>6, FileList DEF RamdiskInv, RolesApart
<1>8. Kept(nodes, nodes', Heads \ {h})
  BY <1>6, write_rd_fileGoes
<1>9. FileOf(f)' = p
  <2>1. FileOf(f)' = Chain(nodes', k)
    BY <1>6 DEF FileOf, FileHead, Writing
  <2> QED BY <1>7, <1>8, <2>1 DEF Kept
<1>10. \A i \in 1 .. n : /\ p[i] \in On(nodes, k) /\ p[i] \in DOMAIN nodes
                         /\ nodes[p[i]].data \in 0 .. Len(blocks) - 1
                         /\ nodes[p[i]].data # NULL
  <2>1. \A i \in 1 .. n : /\ p[i] \in On(nodes, k) /\ p[i] \in DOMAIN nodes
                          /\ nodes[p[i]].data \in 0 .. Len(blocks) - 1
    BY <1>1, <1>2, <1>6, FileList
  <2>2. \A i \in 1 .. n : nodes[p[i]].data # NULL
    BY <1>1, <1>2 DEF Lacks, Range
  <2> QED BY <2>1, <2>2
<1>11. On(nodes, k) \cap On(nodes, h) = {}
  BY <1>7, HeadsApart
<1>12. \A i \in 1 .. n : nodes'[p[i]].data = nodes[p[i]].data
  <2>1. PICK q : q = Longer(nodes, FileOf(file), growth)
    OBVIOUS
  <2>2. WrittenList(nodes', file, q, at, growth)
    BY <2>1, WriteLists
  <2>3. \A a \in DOMAIN nodes : a \notin On(nodes, h) => nodes'[a].data = nodes[a].data
    BY <1>6, <2>2 DEF WrittenList
  <2> QED BY <1>10, <1>11, <2>3
<1>13. \A i \in 1 .. n : nodes[p[i]].data # start
  <2> TAKE i \in 1 .. n
  <2>1. PICK a : a = FileOf(file)[at]
    OBVIOUS
  <2>2. a \in On(nodes, h) /\ start = nodes[a].data
    BY <1>6, <2>1, FileList DEF Writing
  <2>3. p[i] \in On(nodes, k) /\ p[i] # a
    BY <1>10, <1>11, <2>2
  <2>4. nodes[p[i]].data # nodes[a].data \/ nodes[p[i]].data = NULL
    BY <1>6, <2>2, <2>3 DEF RamdiskInv, DataInv
  <2> QED BY <1>10, <2>2, <2>4
<1>14. \A i \in 1 .. n : blocks'[nodes[p[i]].data + 1] = blocks[nodes[p[i]].data + 1]
  <2> TAKE i \in 1 .. n
  <2>1. PICK d \in 0 .. Len(blocks) - 1 : d = nodes[p[i]].data /\ d # start
    BY <1>10, <1>13
  <2>2. d + 1 \in DOMAIN blocks /\ d + 1 # start + 1
    <3>1. PICK B \in Nat : B = Len(blocks) /\ DOMAIN blocks = 1 .. B
      BY <1>5
    <3>2. d \in 0 .. B - 1 /\ start \in 0 .. B - 1
      BY <3>1
    <3>3. d + 1 \in 1 .. B
      BY <3>2
    <3>4. d + 1 # start + 1
      <4>1. d \in Int /\ start \in Int /\ d # start
        BY <2>1, <3>2
      <4> QED BY <4>1
    <3> QED BY <3>1, <3>3, <3>4
  <2> QED BY <1>4, <2>1, <2>2 DEF BlocksWritten
<1>15. PICK m2, b2 : m2 = nodes' /\ b2 = blocks'
  OBVIOUS
<1>16. HasBlocks(nodes, p, blocks, n) /\ HasBlocks(m2, p, b2, n)
  <2>1. HasBlocks(nodes, p, blocks, n)
    BY <1>2, <1>5, <1>10 DEF HasBlocks
  <2>2. \A i \in 1 .. n : m2[p[i]].data \in 0 .. Len(b2) - 1
    <3> TAKE i \in 1 .. n
    <3>1. m2[p[i]].data \in 0 .. Len(blocks) - 1
      BY <1>10, <1>12, <1>15
    <3>2. Len(b2) = Len(blocks) + growth
      BY <1>5, <1>15
    <3> QED BY <1>5, <3>1, <3>2
  <2> QED BY <1>2, <1>5, <1>15, <2>1, <2>2 DEF HasBlocks
<1>17. Contents(f) = Shown(nodes, p, blocks, n)
  <2>1. Contents(f) = FlattenSeq(BlocksIn(nodes, p, blocks))
    BY <1>1 DEF Contents, BlocksIn
  <2> QED BY <1>2, <1>16, <2>1, ShownIs
<1>18. Contents(f)' = Shown(m2, p, b2, n)
  <2>1. Contents(f)' = FlattenSeq(BlocksIn(m2, p, b2))
    BY <1>9, <1>15 DEF Contents, BlocksIn
  <2> QED BY <1>2, <1>16, <2>1, ShownIs
<1>19. \A i \in 1 .. n * RAMDISK_BLOCKSIZE :
         b2[m2[p[Turn(0, i) + 1]].data + 1][Place(0, i)]
           = blocks[nodes[p[Turn(0, i) + 1]].data + 1][Place(0, i)]
  <2> TAKE i \in 1 .. n * RAMDISK_BLOCKSIZE
  <2>1. PICK t \in 1 .. n : t = Turn(0, i) + 1
    <3>1. Turn(0, i) \in 0 .. n - 1
      BY TurnBelow
    <3> QED BY <3>1
  <2>2. b2[m2[p[t]].data + 1] = blocks[nodes[p[t]].data + 1]
    BY <1>12, <1>14, <1>15
  <2> QED BY <2>1, <2>2
<1> QED BY <1>17, <1>18, <1>19 DEF Shown

(* The file that is written: the text comes behind base characters, and    *)
(* these are as they were if the write is an appending one.                *)
Begun(at, offset) == (at - 1) * RAMDISK_BLOCKSIZE + offset

TextShows(c, c2, text, base, append) ==
  /\ c \in Seq(Int) /\ c2 \in Seq(Int)
  /\ \A k \in DOMAIN text : base + k <= Len(c2) /\ c2[base + k] = text[k]
  /\ append => /\ base <= Len(c)
               /\ \A i \in 1 .. base : c2[i] = c[i]

LEMMA FileShows ==
  ASSUME RamdiskInv, NEW file \in DOMAIN descs, NEW length \in Nat, length # 0,
         NEW append \in BOOLEAN, NEW at \in 1 .. Len(FileOf(file)),
         NEW start \in 0 .. Len(blocks) - 1, NEW offset \in 0 .. RAMDISK_BLOCKSIZE - 1,
         NEW growth \in Nat, Writing(file, length, append, at, start, offset, growth),
         NEW text, text = Text(Len(wrote) + 1, length), ~Lacks(file)
  PROVE  TextShows(Contents(file), Contents(file)', text, Begun(at, offset), append)
<1>1. PICK p : p = FileOf(file)
  OBVIOUS
<1>2. PICK q : q = Longer(nodes, p, growth)
  OBVIOUS
<1>3. PICK n \in Nat : n = Len(p) /\ n # 0 /\ DOMAIN p = 1 .. n
  BY <1>1, FileList
<1>4. PICK size \in Nat \ {0} : size = RAMDISK_BLOCKSIZE
  BY RamdiskAssumption
<1>5. PICK B \in Nat \ {0} : B = Len(blocks) /\ DOMAIN blocks = 1 .. B
  BY DEF RamdiskInv, TypeInv
<1>6. /\ at \in Nat \ {0} /\ at <= n /\ at \in 1 .. n /\ offset \in Nat /\ offset < size
      /\ start \in Nat /\ start < B
  BY <1>1, <1>3, <1>4, <1>5
<1>7. PICK base \in Nat : base = Begun(at, offset) /\ base = (at - 1) * size + offset
  <2>1. PICK a \in Nat : a = at - 1
    BY <1>6
  <2>2. a * size + offset \in Nat
    BY <1>6
  <2> QED BY <1>4, <2>1, <2>2 DEF Begun
<1>8. PICK m2, b2 : m2 = nodes' /\ b2 = blocks'
  OBVIOUS
<1>9. BlocksWritten(text, start, offset, growth) /\ DOMAIN text = 1 .. length
  BY WriteReaches DEF Text
<1>10. /\ b2 \in Seq(Texts) /\ Len(b2) = B + growth /\ blocks \in Seq(Texts)
  <2>1. blocks' \in Seq(Texts) /\ Len(blocks') = B + growth
    BY <1>5, WriteBlocks DEF Texts
  <2> QED BY <1>8, <2>1 DEF RamdiskInv, TypeInv, Texts
<1>11. WrittenList(m2, file, q, at, growth)
  BY <1>1, <1>2, <1>8, WriteLists
<1>12. \A i \in 1 .. n + growth :
         m2[q[i]].data = IF i \in at + 1 .. at + growth THEN B - 1 + (i - at)
                         ELSE IF i <= n THEN nodes[p[i]].data ELSE NULL
  BY <1>1, <1>3, <1>5, <1>11 DEF WrittenList
<1>13. FileOf(file)' = q
  <2>1. FileOf(file)' = Chain(m2, FileHead(file))
    BY <1>8 DEF FileOf, FileHead, Writing
  <2> QED BY <1>11, <2>1 DEF WrittenList
<1>14. DOMAIN q = 1 .. n + growth
  <2>1. IsPath(m2, q) /\ m2 \in Memory
    BY <1>11, ListType DEF WrittenList
  <2>2. DOMAIN q = 1 .. Len(q)
    BY <2>1, PathType
  <2>3. IsPath(nodes, p) /\ nodes \in Memory
    BY <1>1, FileList, ThreadsList
  <2>4. IsLonger(nodes, p, growth, q)
    BY <1>2, <2>3, LongerType
  <2> QED BY <1>3, <2>2, <2>4 DEF IsLonger
<1>15. \A i \in 1 .. n : nodes[p[i]].data \in 0 .. B - 1 /\ nodes[p[i]].data # NULL
  <2>1. \A i \in 1 .. n : nodes[p[i]].data \in 0 .. B - 1
    BY <1>1, <1>3, <1>5, FileList
  <2>2. \A i \in 1 .. n : nodes[p[i]].data # NULL
    BY <1>1, <1>3 DEF Lacks, Range
  <2> QED BY <2>1, <2>2
<1>16. start = nodes[p[at]].data
  BY <1>1 DEF Writing
<1>17. PICK total \in Nat : total = n + growth /\ total # 0
  BY <1>3
<1>18. HasBlocks(nodes, p, blocks, n) /\ HasBlocks(m2, q, b2, total)
  <2>1. HasBlocks(nodes, p, blocks, n)
    BY <1>3, <1>5, <1>10, <1>15 DEF HasBlocks
  <2>2. \A i \in 1 .. total : m2[q[i]].data \in 0 .. Len(b2) - 1
    <3> TAKE i \in 1 .. total
    <3>1. CASE i \in at + 1 .. at + growth
      BY <1>6, <1>10, <1>12, <1>17, <3>1
    <3>2. CASE i \notin at + 1 .. at + growth /\ i <= n
      <4>1. m2[q[i]].data = nodes[p[i]].data /\ i \in 1 .. n
        BY <1>12, <1>17, <3>2
      <4>2. PICK d \in 0 .. B - 1 : d = nodes[p[i]].data
        BY <1>15, <4>1
      <4>3. d \in 0 .. B + growth - 1
        OBVIOUS
      <4> QED BY <1>10, <4>1, <4>2, <4>3
    <3>3. CASE i \notin at + 1 .. at + growth /\ ~(i <= n)
      <4>1. m2[q[i]].data = 0
        BY <1>12, <1>17, <3>3 DEF NULL
      <4> QED BY <1>10, <4>1
    <3> QED BY <3>1, <3>2, <3>3
  <2> QED BY <1>10, <1>14, <1>17, <2>1, <2>2 DEF HasBlocks
<1>19. PICK c, c2 : c = Contents(file) /\ c2 = Contents(file)'
  OBVIOUS
<1>20. c = Shown(nodes, p, blocks, n) /\ c \in Seq(Int) /\ Len(c) = n * size
  <2>1. Contents(file) = FlattenSeq(BlocksIn(nodes, p, blocks))
    BY <1>1 DEF Contents, BlocksIn
  <2> QED BY <1>3, <1>4, <1>18, <1>19, <2>1, ShownIs
<1>21. c2 = Shown(m2, q, b2, total) /\ c2 \in Seq(Int) /\ Len(c2) = total * size
  <2>1. Contents(file)' = FlattenSeq(BlocksIn(m2, q, b2))
    BY <1>8, <1>13 DEF Contents, BlocksIn
  <2> QED BY <1>4, <1>17, <1>18, <1>19, <2>1, ShownIs
<1>22. ASSUME NEW k \in DOMAIN text
       PROVE  base + k <= Len(c2) /\ c2[base + k] = text[k]
  <2>1. k \in Nat \ {0}
    BY <1>9
  <2>2. PICK t \in 0 .. growth, r \in 1 .. size :
          t = Turn(offset, k) /\ r = Place(offset, k) /\ offset + k = t * size + r
    BY <1>4, <1>6, <1>9, <2>1, TurnPlaceAre DEF BlocksWritten
  <2>3. PICK u \in Nat : u = at - 1 + t
    BY <1>6
  <2>4. base + k = u * size + r
    <3>1. PICK a \in Nat : a = at - 1 /\ u = a + t /\ base = a * size + offset
      <4>1. PICK a \in Nat : a = at - 1
        BY <1>6
      <4> QED BY <1>7, <2>3, <4>1
    <3>2. PICK x \in Nat, y \in Nat : x = a * size /\ y = t * size
      OBVIOUS
    <3>3. u * size = x + y
      BY <3>1, <3>2
    <3>4. base = x + offset
      BY <3>1, <3>2
    <3>5. offset + k = y + r
      BY <2>2, <3>2
    <3> QED BY <1>6, <2>1, <3>3, <3>4, <3>5
  <2>5. base + k <= total * size
    <3>1. PICK e \in Nat : total = u + 1 + e
      <4>1. total - u - 1 \in Nat /\ total = u + 1 + (total - u - 1)
        BY <1>6, <1>17, <2>3
      <4> QED BY <4>1
    <3>2. total * size = u * size + size + e * size /\ e * size \in Nat
      BY <3>1
    <3> QED BY <2>4, <3>2
  <2>6. PICK o \in Nat, i \in Nat \ {0} : o = 0 /\ i = base + k
    <3>1. base + k \in Nat \ {0}
      BY <2>1
    <3> QED BY <3>1
  <2>7. Turn(o, i) = u /\ Place(o, i) = r
    <3>1. r \in 1 .. RAMDISK_BLOCKSIZE
      BY <1>4
    <3>2. o + i = u * RAMDISK_BLOCKSIZE + r
      BY <1>4, <2>4, <2>6
    <3> QED BY <3>1, <3>2, TurnPlaceIs
  <2>8. c2[i] = b2[m2[q[u + 1]].data + 1][r]
    <3>1. i \in 1 .. total * RAMDISK_BLOCKSIZE
      BY <1>4, <2>5, <2>6
    <3> QED BY <1>21, <2>6, <2>7, <3>1 DEF Shown
  <2>9. m2[q[u + 1]].data = Goes(start, offset, k)
    <3>1. u + 1 = at + t /\ at + t \in 1 .. n + growth
      BY <1>6, <2>3
    <3>2. CASE t = 0
      <4>1. u + 1 = at /\ at \notin at + 1 .. at + growth
        BY <1>6, <3>1, <3>2
      <4>2. m2[q[at]].data = nodes[p[at]].data
        BY <1>6, <1>12, <3>1, <4>1
      <4> QED BY <1>16, <2>2, <3>2, <4>1, <4>2 DEF Goes
    <3>3. CASE t # 0
      <4>1. at + t \in at + 1 .. at + growth
        BY <1>6, <3>3
      <4>2. m2[q[at + t]].data = B - 1 + (at + t - at)
        BY <1>12, <3>1, <4>1
      <4>3. B - 1 + (at + t - at) = B + t - 1
        BY <1>6
      <4> QED BY <1>5, <2>2, <3>1, <3>3, <4>2, <4>3 DEF Goes
    <3> QED BY <3>2, <3>3
  <2>10. b2[Goes(start, offset, k) + 1][r] = text[k]
    BY <1>8, <1>9, <2>2 DEF BlocksWritten
  <2> QED BY <1>21, <2>5, <2>6, <2>8, <2>9, <2>10
<1>23. ASSUME append PROVE base <= Len(c) /\ \A i \in 1 .. base : c2[i] = c[i]
  <2>1. at = n
    BY <1>1, <1>3, <1>23 DEF Writing
  <2>2. PICK before \in Nat : before = n - 1 /\ n = before + 1
    BY <1>3
  <2>3. base = before * size + offset /\ n * size = before * size + size
    BY <1>7, <2>1, <2>2
  <2>4. before * size \in Nat
    OBVIOUS
  <2>5. base <= n * size
    BY <1>6, <2>3, <2>4
  <2>6. ASSUME NEW j \in 1 .. base PROVE c2[j] = c[j]
    <3>1. PICK o \in Nat, i \in Nat \ {0} : o = 0 /\ i = j /\ i <= base
      OBVIOUS
    <3>2. PICK t \in Nat, r \in 1 .. size :
            t = Turn(o, i) /\ r = Place(o, i) /\ o + i = t * size + r
      <4>1. /\ Turn(o, i) \in Nat /\ Place(o, i) \in 1 .. size
            /\ o + i = Turn(o, i) * size + Place(o, i)
        BY <1>4, TurnPlaceAre
      <4> QED BY <4>1
    <3>3. i \in 1 .. n * RAMDISK_BLOCKSIZE
      BY <1>4, <2>3, <2>4, <1>6, <3>1
    <3>4. t \in 0 .. n - 1
      BY <3>1, <3>2, <3>3, TurnBelow
    <3>5. i \in 1 .. total * RAMDISK_BLOCKSIZE
      <4>1. total * size = n * size + growth * size /\ growth * size \in Nat
        BY <1>17
      <4> QED BY <1>4, <3>3, <4>1
    <3>6. c[j] = blocks[nodes[p[t + 1]].data + 1][r]
      BY <1>20, <3>1, <3>2, <3>3 DEF Shown
    <3>7. c2[j] = b2[m2[q[t + 1]].data + 1][r]
      BY <1>21, <3>1, <3>2, <3>5 DEF Shown
    <3>8. PICK s \in 1 .. n : s = t + 1
      BY <3>4
    <3>9. m2[q[s]].data = nodes[p[s]].data
      <4>1. s \in 1 .. n + growth /\ s \notin at + 1 .. at + growth /\ s <= n
        BY <2>1
      <4> QED BY <1>12, <4>1
    <3>10. CASE s = n
      <4>1. r \in 1 .. offset
        <5>1. t = before
          BY <2>2, <3>8, <3>10
        <5>2. t * size + r <= t * size + offset
          BY <2>3, <3>1, <3>2, <5>1
        <5>3. t * size \in Nat
          OBVIOUS
        <5> QED BY <1>6, <5>2, <5>3
      <4>2. b2[start + 1][r] = blocks[start + 1][r]
        BY <1>8, <1>9, <4>1 DEF BlocksWritten
      <4> QED BY <1>16, <2>1, <3>6, <3>7, <3>8, <3>9, <3>10, <4>2
    <3>11. CASE s # n
      <4>1. PICK d \in 0 .. B - 1 : d = nodes[p[s]].data /\ d # NULL
        BY <1>15
      <4>2. d # start
        <5>1. p[s] # p[n]
          <6>1. n \in 1 .. n
            BY <1>3
          <6> QED BY <1>1, <1>3, <3>11, <6>1, FileList DEF IsInjective
        <5>2. p[s] \in On(nodes, FileHead(file)) /\ p[n] \in On(nodes, FileHead(file))
          <6>1. n \in 1 .. n
            BY <1>3
          <6> QED BY <1>1, <1>3, <6>1, FileList
        <5>3. nodes[p[s]].data # nodes[p[n]].data \/ nodes[p[s]].data = NULL
          BY <5>1, <5>2 DEF RamdiskInv, DataInv
        <5> QED BY <1>16, <2>1, <4>1, <5>3
      <4>3. d + 1 \in DOMAIN blocks /\ d + 1 # start + 1
        BY <1>5, <1>6, <4>2
      <4>4. b2[d + 1] = blocks[d + 1]
        BY <1>8, <1>9, <4>3 DEF BlocksWritten
      <4> QED BY <3>6, <3>7, <3>8, <3>9, <4>1, <4>4
    <3> QED BY <3>10, <3>11
  <2> QED BY <1>20, <2>5, <2>6
<1>24. TextShows(c, c2, text, base, append)
  BY <1>20, <1>21, <1>22, <1>23 DEF TextShows
<1> QED BY <1>7, <1>19, <1>24

(* What WritesShown says of one file and one write.                        *)
ShowsWrite(f, w) ==
  IF f # w.file THEN Contents(f)' = Contents(f)
  ELSE IF ~w.append THEN IsPrefix(w.text, Contents(f)')
  ELSE Ends(LastBlock(f)) => IsPrefix(Visible(f) \o w.text, Contents(f)')

LEMMA StartsWith ==
  ASSUME NEW s \in Seq(Int), NEW c \in Seq(Int), Len(s) <= Len(c),
         \A k \in 1 .. Len(s) : c[k] = s[k]
  PROVE  IsPrefix(s, c)
<1>1. PICK n \in Nat : n = Len(s) /\ n <= Len(c)
  OBVIOUS
<1>2. SubSeq(s, 1, n) = [i \in 1 .. n |-> s[i]]
  BY <1>1
<1>3. SubSeq(c, 1, n) = [i \in 1 .. n |-> c[i]]
  BY <1>1
<1>4. SubSeq(s, 1, n) = SubSeq(c, 1, n)
  BY <1>1, <1>2, <1>3
<1> QED BY <1>1, <1>4 DEF IsPrefix

IsJoined(s, f, g, l, n) ==
  /\ s \in Seq(Int) /\ Len(s) = l + n
  /\ \A i \in 1 .. l : s[i] = f[i]
  /\ \A k \in 1 .. n : s[l + k] = g[k]

LEMMA JoinedParts ==
  ASSUME NEW f \in Seq(Int), NEW g \in Seq(Int), NEW l \in Nat, Len(f) = l,
         NEW n \in Nat, Len(g) = n, NEW s, s = f \o g
  PROVE  IsJoined(s, f, g, l, n)
<1>1. s \in Seq(Int) /\ Len(s) = l + n
  OBVIOUS
<1>2. s = [i \in 1 .. l + n |-> IF i <= l THEN f[i] ELSE g[i - l]]
  BY JoinedIs
<1>3. ASSUME NEW i \in 1 .. l PROVE s[i] = f[i]
  BY <1>2
<1>4. ASSUME NEW k \in 1 .. n PROVE s[l + k] = g[k]
  <2>1. l + k \in 1 .. l + n /\ ~(l + k <= l) /\ l + k - l = k
    OBVIOUS
  <2> QED BY <1>2, <2>1
<1> QED BY <1>1, <1>3, <1>4 DEF IsJoined

LEMMA VisibleIs ==
  ASSUME RamdiskInv, NEW f \in DOMAIN descs, Ends(LastBlock(f)),
         NEW at, NEW start \in 0 .. Len(blocks) - 1, NEW offset,
         at = Len(FileOf(f)), start = nodes[FileOf(f)[at]].data,
         offset = Begins(Block(blocks, start))
  PROVE  Visible(f) = SubSeq(Contents(f), 1, Begun(at, offset))
<1>1. PICK p : p = FileOf(f)
  OBVIOUS
<1>2. Last(p) = p[at]
  BY <1>1 DEF Last
<1>3. LastBlock(f) = Block(blocks, start)
  BY <1>1, <1>2 DEF LastBlock
<1>4. FirstNul(LastBlock(f)) = offset
  BY <1>3 DEF Begins
<1> QED BY <1>4 DEF Visible, Begun

LEMMA WriteShows ==
  ASSUME RamdiskInv, NEW file \in DOMAIN descs, NEW length \in Lengths,
         NEW append \in BOOLEAN, write_rd_file(file, length, append),
         NEW f \in DOMAIN descs, ~Lacks(f)
  PROVE  ShowsWrite(f, Last(wrote'))
<1>1. PICK at, start, offset, growth \in Nat :
        /\ Writing(file, length, append, at, start, offset, growth)
        /\ at \in 1 .. Len(FileOf(file)) /\ start \in 0 .. Len(blocks) - 1
        /\ offset \in 0 .. RAMDISK_BLOCKSIZE - 1
  BY WriteIs
<1>2. length \in Nat /\ length # 0
  BY RamdiskAssumption
<1>3. PICK text : text = Text(Len(wrote) + 1, length)
  OBVIOUS
<1>4. PICK w : w = Last(wrote') /\ w.file = file /\ w.text = text /\ w.append = append
  <2>1. PICK w : w = [file |-> file, text |-> text, append |-> append]
    OBVIOUS
  <2>2. wrote' = Append(wrote, w)
    BY <1>1, <1>3, <2>1 DEF Writing
  <2>3. wrote \in Seq([file : Nat, text : Seq(Int), append : BOOLEAN])
    BY DEF RamdiskInv, TypeInv
  <2>4. Len(wrote') = Len(wrote) + 1 /\ wrote'[Len(wrote) + 1] = w
    BY <2>2, <2>3
  <2>5. Last(wrote') = w
    BY <2>4 DEF Last
  <2> QED BY <2>1, <2>5
<1>5. CASE f # file
  <2>1. Contents(f)' = Contents(f)
    BY <1>1, <1>2, <1>5, OthersShow
  <2> QED BY <1>4, <1>5, <2>1 DEF ShowsWrite
<1>6. CASE f = file
  <2>1. TextShows(Contents(f), Contents(f)', text, Begun(at, offset), append)
    BY <1>1, <1>2, <1>3, <1>6, FileShows
  <2>2. PICK c, c2, base : c = Contents(f) /\ c2 = Contents(f)' /\ base = Begun(at, offset)
    OBVIOUS
  <2>3. /\ c \in Seq(Int) /\ c2 \in Seq(Int)
        /\ \A k \in DOMAIN text : base + k <= Len(c2) /\ c2[base + k] = text[k]
        /\ append => base <= Len(c) /\ \A i \in 1 .. base : c2[i] = c[i]
    BY <2>1, <2>2 DEF TextShows
  <2>4. text \in Seq(Int) /\ DOMAIN text = 1 .. length /\ Len(text) = length
    <3>1. PICK n \in Nat : n = 10 * (Len(wrote) + 1)
      BY DEF RamdiskInv, TypeInv
    <3>2. text = [i \in 1 .. length |-> n + i]
      BY <1>3, <3>1 DEF Text
    <3>3. text \in [1 .. length -> Int]
      BY <3>2
    <3> QED BY <1>2, <3>3
  <2>5. length \in DOMAIN text
    BY <1>2, <2>4
  <2>6. CASE ~append
    <3>1. base = 0
      <4>1. at = 1 /\ offset = 0
        BY <1>1, <2>6 DEF Writing
      <4>2. (1 - 1) * RAMDISK_BLOCKSIZE + 0 = 0
        BY RamdiskAssumption
      <4> QED BY <2>2, <4>1, <4>2 DEF Begun
    <3>2. Len(text) <= Len(c2)
      BY <1>2, <2>3, <2>4, <2>5, <3>1
    <3>3. \A k \in 1 .. Len(text) : c2[k] = text[k]
      <4> TAKE k \in 1 .. Len(text)
      <4>1. base + k = k /\ k \in DOMAIN text
        BY <1>2, <2>4, <3>1
      <4> QED BY <2>3, <4>1
    <3>4. IsPrefix(text, c2)
      BY <2>3, <2>4, <3>2, <3>3, StartsWith
    <3> QED BY <1>4, <1>6, <2>2, <2>6, <3>4 DEF ShowsWrite
  <2>7. CASE append
    <3>1. ASSUME Ends(LastBlock(f)) PROVE IsPrefix(Visible(f) \o text, c2)
      <4>1. /\ at = Len(FileOf(f)) /\ start = nodes[FileOf(f)[at]].data
            /\ offset = Begins(Block(blocks, start))
        BY <1>1, <1>6, <2>7 DEF Writing
      <4>2. Visible(f) = SubSeq(c, 1, base)
        BY <1>1, <2>2, <3>1, <4>1, VisibleIs
      <4>3. base \in Nat
        <5>1. PICK a \in Nat, size \in Nat : a = at - 1 /\ size = RAMDISK_BLOCKSIZE
          BY <1>1, RamdiskAssumption, FileList
        <5>2. a * size + offset \in Nat
          BY <1>1
        <5> QED BY <2>2, <5>1, <5>2 DEF Begun
      <4>4. PICK v : v = SubSeq(c, 1, base)
        OBVIOUS
      <4>5. v \in Seq(Int) /\ Len(v) = base /\ \A i \in 1 .. base : v[i] = c[i]
        BY <2>3, <2>7, <4>3, <4>4
      <4>6. PICK s : s = v \o text
        OBVIOUS
      <4>7. /\ s \in Seq(Int) /\ Len(s) = base + length
            /\ \A i \in 1 .. base : s[i] = v[i]
            /\ \A k \in 1 .. length : s[base + k] = text[k]
        <5>1. v \in Seq(Int) /\ Len(v) = base
          BY <4>5
        <5>2. text \in Seq(Int) /\ Len(text) = length
          BY <2>4
        <5>3. base \in Nat /\ length \in Nat
          BY <1>2, <4>3
        <5>4. IsJoined(s, v, text, base, length)
          BY <4>6, <5>1, <5>2, <5>3, JoinedParts
        <5> QED BY <5>4 DEF IsJoined
      <4>8. Len(s) <= Len(c2)
        BY <2>3, <2>5, <4>7
      <4>9. \A k \in 1 .. Len(s) : c2[k] = s[k]
        <5> TAKE k \in 1 .. Len(s)
        <5>1. CASE k <= base
          <6>1. k \in 1 .. base
            BY <4>3, <4>7, <5>1
          <6> QED BY <2>3, <2>7, <4>5, <4>7, <6>1
        <5>2. CASE ~(k <= base)
          <6>1. PICK i \in 1 .. length : k = base + i
            <7>1. k - base \in 1 .. length /\ k = base + (k - base)
              BY <1>2, <4>3, <4>7, <5>2
            <7> QED BY <7>1
          <6>2. i \in DOMAIN text
            BY <2>4
          <6> QED BY <2>3, <4>7, <6>1, <6>2
        <5> QED BY <5>1, <5>2
      <4>10. IsPrefix(s, c2)
        BY <2>3, <4>7, <4>8, <4>9, StartsWith
      <4> QED BY <4>2, <4>4, <4>6, <4>10
    <3> QED BY <1>4, <1>6, <2>2, <2>7, <3>1 DEF ShowsWrite
  <2> QED BY <2>6, <2>7
<1> QED BY <1>5, <1>6

LEMMA StepShows ==
  ASSUME RamdiskInv, [Next]_vars, NEW f \in DOMAIN descs, wrote' # wrote, ~Lacks(f)
  PROVE  ShowsWrite(f, Last(wrote'))
<1>1. \E file \in DOMAIN descs, length \in Lengths, append \in BOOLEAN :
        write_rd_file(file, length, append)
  <2>1. ~UNCHANGED vars
    BY DEF vars
  <2>2. ~AddThread /\ ~AddChild /\ ~RemoveThread /\ ~MoveToEnd /\ ~TestList
    BY DEF AddThread, AddChild, RemoveThread, MoveToEnd, TestList, OnlyNodes
  <2>3. ~load_ramdisk
    BY DEF load_ramdisk
  <2>4. ~\E type \in {RAMDISK_FILE, RAMDISK_DIRECTORY} : create_rd_file(type)
    BY DEF create_rd_file
  <2> QED BY <2>1, <2>2, <2>3, <2>4 DEF Next
<1> QED BY <1>1, WriteShows

(* A file begins with the text of the last overwriting write, or shows what*)
(* it did and the text of an appending one; no write changes what another  *)
(* file shows (write_rd_file).  Files that an overwriting write has left   *)
(* with a node without a block are left out, as in the property.           *)
THEOREM WritesAreShown ==
  Spec => WritesShown
<1>1. ASSUME RamdiskInv, [Next]_vars
      PROVE  [\A f \in DOMAIN descs :
                wrote' # wrote /\ ~Lacks(f) =>
                  LET w == Last(wrote')
                  IN  IF f # w.file THEN Contents(f)' = Contents(f)
                      ELSE IF ~w.append THEN IsPrefix(w.text, Contents(f)')
                      ELSE Ends(LastBlock(f)) =>
                             IsPrefix(Visible(f) \o w.text, Contents(f)')]_vars
  BY <1>1, StepShows DEF ShowsWrite
<1> QED BY <1>1, RamdiskSafe, PTL DEF Spec, WritesShown

============================================================================
