------------------------------- MODULE Paging -------------------------------
(***************************************************************************)
(* paging.c: a page directory whose last entry maps the directory itself,  *)
(* so that the last E pages are a window on the tables, and the TLB of the *)
(* CPU, which keeps translations until invlpg.  The kernel reaches tables  *)
(* only through the window, and the window goes through the TLB too.       *)
(*                                                                         *)
(* A page and a frame are numbers, its address divided by 4096; page       *)
(* d * E + t has entry d of the directory and entry t of a table.  Whether *)
(* an entry allows writes is left out: the kernel may write everywhere.    *)
(***************************************************************************)
EXTENDS Integers, FiniteSets

CONSTANTS
  E,                 \* entries of a table: 1024 in the code
  KernelPages,       \* first and last page that the kernel checks against
  DirFrame, FirstTableFrame,  \* what init_paging got from kmalloc
  KmallocFrames,     \* what map_page may get from kmalloc
  KmallocContents,   \* what is in it
  Targets,           \* pages that are set, mapped and swapped
  ForcedTargets,     \* pages that map_page is forced to map
  TableTargets,      \* pages given to the operations on tables
  PhysFrames,        \* where they are mapped to
  Ranges,            \* [first, length] in bytes, for set_memory_range_dpl
  PageSize,          \* PAGE_SIZE
  TlbSize,           \* bound on the translations in the TLB
  MaxOps             \* bound on the calls

VARIABLES
  mem,               \* the frames that serve as directory and tables
  tlb,               \* the translations that the CPU keeps
  free,              \* frames that kmalloc has left
  granted,           \* history: pages last set to ring 3
  dirty,             \* history: kept pages that changed and were not invalidated
  moved,             \* history: directory entries that lost their table
  ops                \* calls so far

vars == <<mem, tlb, free, granted, dirty, moved, ops>>

Indices == 0 .. E - 1
AllPages == 0 .. E * E - 1
UserPages == 0 .. E * (E - 1) - 1      \* below the window
TableFrame(d) == FirstTableFrame + d
TableFrames == {DirFrame} \cup {TableFrame(d) : d \in Indices} \cup KmallocFrames
PrivilegeLevels == {0, 3}

Entry(frame, user) == [frame |-> frame, present |-> TRUE, user |-> user]
Entries == [frame : Int, present : BOOLEAN, user : BOOLEAN]
PagesMeant(r) == {b \div PageSize : b \in r.first .. r.first + r.length - 1}

(* The frames that kmalloc hands out are different ones, and the callers   *)
(* leave the window alone.                                                 *)
ASSUME PagingAssumption ==
  /\ E \in Nat \ {0, 1} /\ PageSize \in Nat \ {0}
  /\ Targets \cup TableTargets \cup ForcedTargets \subseteq UserPages
  /\ DirFrame \in Nat /\ FirstTableFrame \in Nat /\ KmallocFrames \subseteq Nat
  /\ DirFrame \notin KmallocFrames
  /\ \A d \in Indices : TableFrame(d) \notin KmallocFrames \cup {DirFrame}
  /\ PhysFrames \subseteq Nat
  /\ KmallocContents \subseteq [Indices -> Entries]
  /\ KernelPages.first \in Nat /\ KernelPages.last \in Nat
  /\ \A r \in Ranges : /\ r.first \in Nat /\ r.length \in Nat \ {0}
                       /\ PagesMeant(r) \subseteq UserPages

Table(p) == p \div E
Slot(p) == p % E
WindowPage(d) == E * (E - 1) + d
PagesOfTable(d) == {d * E + t : t \in Indices}

SelfEntryBefore(f, i) == Entry((f - FirstTableFrame) * E + i - 1, FALSE)
SelfEntry(f, i) == Entry((f - FirstTableFrame) * E + i, FALSE)

(* init_paging: everything mapped to itself, for ring 0. *)
Init ==
  /\ mem = [f \in TableFrames |->
              IF f = DirFrame
              THEN [i \in Indices |->
                      Entry(IF i = E - 1 THEN DirFrame ELSE TableFrame(i), FALSE)]
              ELSE [i \in Indices |-> SelfEntry(f, i)]]
  /\ tlb = {} /\ free = KmallocFrames
  /\ granted = {} /\ dirty = {} /\ moved = {} /\ ops = 0

----------------------------------------------------------------------------
(* The CPU: the walk through directory and table, and what it keeps of it. *)

Pde(m, p) == m[DirFrame][Table(p)]
Walk(m, p) ==
  LET pte == m[Pde(m, p).frame][Slot(p)]
  IN IF Pde(m, p).present /\ pte.present
     THEN {[page |-> p, frame |-> pte.frame, user |-> Pde(m, p).user /\ pte.user]}
     ELSE {}
Cached(t, p) == {e \in t : e.page = p}
Through(m, t, p) == IF Cached(t, p) # {} THEN Cached(t, p) ELSE Walk(m, p)

Fill ==
  /\ Cardinality(tlb) < TlbSize
  /\ \E p \in AllPages : Cached(tlb, p) = {} /\ tlb' = tlb \cup Walk(mem, p)
  /\ UNCHANGED <<mem, free, granted, dirty, moved, ops>>

Evict ==
  /\ \E e \in tlb : tlb' = tlb \ {e} /\ dirty' = dirty \ {e.page}
  /\ UNCHANGED <<mem, free, granted, moved, ops>>

----------------------------------------------------------------------------
(* The operations.                                                         *)

(* The table of page p as the window shows it: the TLB may still know an   *)
(* earlier one.                                                            *)
Pt(m, t, p) == (CHOOSE e \in Through(m, t, WindowPage(Table(p))) : TRUE).frame
Pte(m, t, p) == m[Pt(m, t, p)][Slot(p)]
Mapped(m, t, p) == Pde(m, p).present /\ Pte(m, t, p).present
WithPte(m, t, p, entry) == [m EXCEPT ![Pt(m, t, p)][Slot(p)] = entry]
WithPde(m, p, entry) == [m EXCEPT ![DirFrame][Table(p)] = entry]

Grant(p, dpl) == IF dpl # 0 THEN granted \cup {p} ELSE granted \ {p}
InTlb(pages) == {e.page : e \in tlb} \cap pages
Call == ops < MaxOps /\ ops' = ops + 1
Nothing == UNCHANGED <<mem, tlb, granted, dirty, moved>>

(* get_kernel_location and get_kernel_end, rounded; the end is included.   *)
OfKernelShort(p) == KernelPages.first < p /\ p <= KernelPages.last
OfKernel(p) == KernelPages.first <= p /\ p <= KernelPages.last

(* set_page_dpl as a function of the tables and the TLB: the entry of the  *)
(* page, that of the directory if it is the stricter one, and the page it  *)
(* invalidates: the frame that the table of init_paging holds for p.       *)
PdeKept(m, p, dpl) == m
PdeOpened(m, p, dpl) ==
  IF dpl = 0 THEN m ELSE [m EXCEPT ![DirFrame][Table(p)].user = TRUE]
InitialPte(m, p) == m[TableFrame(Table(p))][Slot(p)]
InvalidatedNone(m, p) == -1
Invalidated(m, p) == InitialPte(m, p).frame
AfterDpl(s, p, dpl) ==
  IF ~Mapped(s.mem, s.tlb, p) THEN s
  ELSE LET entry == [Pte(s.mem, s.tlb, p) EXCEPT !.user = (dpl # 0)]
           m == PdeOpened(WithPte(s.mem, s.tlb, p, entry), p, dpl)
           q == Invalidated(m, p)
       IN [mem |-> m, tlb |-> s.tlb \ Cached(s.tlb, q),
           granted |-> IF dpl # 0 THEN s.granted \cup {p} ELSE s.granted \ {p},
           dirty |-> (s.dirty \ {q}) \cup
             IF dpl = 0 /\ InitialPte(m, p).frame # p THEN InTlb({p}) ELSE {}]
Now == [mem |-> mem, tlb |-> tlb, granted |-> granted, dirty |-> dirty]
Becomes(s) ==
  mem' = s.mem /\ tlb' = s.tlb /\ granted' = s.granted /\ dirty' = s.dirty

SetPageDpl ==
  /\ Call /\ UNCHANGED <<free, moved>>
  /\ \E p \in Targets, dpl \in PrivilegeLevels : Becomes(AfterDpl(Now, p, dpl))

PageCountLong(r) == (r.length \div PageSize) + 2
PageCount(r) ==
  LET length == r.length + (r.first % PageSize)
  IN (length \div PageSize) + (IF length % PageSize # 0 THEN 1 ELSE 0)

RangeSteps(r, dpl) ==
  LET after[n \in 0 .. PageCount(r)] ==
        IF n = 0 THEN Now
        ELSE AfterDpl(after[n - 1], (r.first \div PageSize) + n - 1, dpl)
  IN after

SetMemoryRangeDpl ==
  /\ Call /\ UNCHANGED <<free, moved>>
  /\ \E r \in Ranges, dpl \in PrivilegeLevels :
       LET z == RangeSteps(r, dpl)[PageCount(r)]
           meant == {p \in PagesMeant(r) : Mapped(mem, tlb, p)}
       IN /\ mem' = z.mem /\ tlb' = z.tlb /\ dirty' = z.dirty
          /\ granted' = IF dpl = 0 THEN granted \ meant ELSE granted \cup meant

SetPageTableDpl ==
  /\ Call /\ UNCHANGED <<free, moved>>
  /\ \E p \in TableTargets, dpl \in PrivilegeLevels :
       IF ~Pde(mem, p).present THEN Nothing
       ELSE /\ mem' = [mem EXCEPT ![DirFrame][Table(p)].user = (dpl # 0)]
            /\ dirty' = dirty \cup
                 IF dpl = 0 THEN InTlb(PagesOfTable(Table(p))) ELSE {}
            /\ UNCHANGED <<tlb, granted>>

(* map_page, first the table, which is what kmalloc has and is not cleared, *)
(* and then the page; a page that is there stays unless it is forced, and  *)
(* the address that is invalidated is the physical one.                    *)
WithTable(p, dpl) ==
  IF Pde(mem, p).present THEN {<<mem, free>>}
  ELSE {<<[WithPde(mem, p, Entry(f, dpl # 0)) EXCEPT ![f] = c], free \ {f}>> :
          f \in free, c \in KmallocContents}

MapPage ==
  /\ Call /\ UNCHANGED moved
  /\ \E p \in Targets, frame \in PhysFrames, dpl \in PrivilegeLevels,
        force \in BOOLEAN :
       /\ force => p \in ForcedTargets
       /\ \E new \in WithTable(p, dpl) :
            LET m == new[1]
                keep == Pte(m, tlb, p).present /\ ~force
            IN /\ free' = new[2]
               /\ mem' = IF keep THEN m ELSE WithPte(m, tlb, p, Entry(frame, dpl # 0))
               /\ IF keep THEN UNCHANGED <<tlb, granted, dirty>>
                  ELSE /\ tlb' = tlb \ Cached(tlb, frame)
                       /\ granted' = Grant(p, dpl)
                       /\ dirty' = (dirty \cup InTlb({p})) \ {frame}

SetPagePresent(p, present) ==
  IF ~Mapped(mem, tlb, p) THEN Nothing
  ELSE /\ mem' = WithPte(mem, tlb, p, [Pte(mem, tlb, p) EXCEPT !.present = present])
       /\ dirty' = dirty \cup InTlb({p})
       /\ UNCHANGED <<tlb, granted, moved>>

UnmapPage ==
  /\ Call /\ UNCHANGED free
  /\ \E p \in Targets : IF OfKernel(p) THEN Nothing ELSE SetPagePresent(p, FALSE)

(* A directory entry is written and nothing invalidated: neither the pages *)
(* of the table nor its page in the window.                                *)
NewPde(p, m) ==
  /\ mem' = m
  /\ dirty' = dirty \cup InTlb(PagesOfTable(Table(p)) \cup {WindowPage(Table(p))})
  /\ moved' = moved \cup {Table(p)}
  /\ UNCHANGED <<tlb, granted>>

SetPageTablePresent(p, present) ==
  IF ~Pde(mem, p).present THEN Nothing
  ELSE NewPde(p, WithPde(mem, p, [Pde(mem, p) EXCEPT !.present = present]))

UnmapPageTable ==
  /\ Call /\ UNCHANGED free
  /\ \E p \in TableTargets :
       IF OfKernel(p) THEN Nothing ELSE SetPageTablePresent(p, FALSE)

(* The caller brings the frame of the new table, empty.                    *)
EmptyTable == [i \in Indices |-> [frame |-> 0, present |-> FALSE, user |-> FALSE]]

SwapPageTable ==
  /\ Call
  /\ \E p \in TableTargets, frame \in free, dpl \in PrivilegeLevels :
       IF ~Pde(mem, p).present \/ OfKernel(Pde(mem, p).frame) \/ OfKernel(p)
       THEN Nothing /\ UNCHANGED free
       ELSE /\ NewPde(p, [WithPde(mem, p, Entry(frame, dpl # 0)) EXCEPT
                            ![frame] = EmptyTable])
            /\ free' = free \ {frame}

SwapPage ==
  /\ Call /\ UNCHANGED <<free, moved>>
  /\ \E p \in Targets, frame \in PhysFrames, dpl \in PrivilegeLevels :
       IF \/ ~Mapped(mem, tlb, p) \/ OfKernel(p)
          \/ OfKernel(Pte(mem, tlb, p).frame)
       THEN Nothing
       ELSE /\ mem' = WithPte(mem, tlb, p, Entry(frame, dpl # 0))
            /\ granted' = Grant(p, dpl)
            /\ dirty' = dirty \cup InTlb({p})
            /\ UNCHANGED tlb

Next ==
  \/ Fill \/ Evict
  \/ SetPageDpl \/ SetMemoryRangeDpl \/ SetPageTableDpl
  \/ MapPage \/ UnmapPage \/ UnmapPageTable \/ SwapPageTable \/ SwapPage

Spec == Init /\ [][Next]_vars

----------------------------------------------------------------------------
(* Properties                                                              *)

(* Types of the variables. *)
TypeOK ==
  /\ mem \in [TableFrames -> [Indices -> Entries]]
  /\ tlb \subseteq [page : AllPages, frame : Int, user : BOOLEAN]
  /\ free \subseteq KmallocFrames /\ granted \subseteq UserPages
  /\ dirty \subseteq {e.page : e \in tlb} /\ moved \subseteq Indices
  /\ ops \in 0 .. MaxOps

(* The pages of the kernel stay mapped to themselves (unmap_page,          *)
(* unmap_page_table, swap_page and swap_page_table check for that).        *)
KernelKept ==
  \A p \in KernelPages.first .. KernelPages.last :
    \E e \in Walk(mem, p) : e.frame = p

(* What the CPU keeps is what the tables say, or stricter, except for      *)
(* pages that were unmapped, closed or mapped elsewhere and not            *)
(* invalidated since: set_page_dpl leaves nothing stale on a page that is  *)
(* mapped to itself, map_page nothing on one that was not mapped.          *)
NothingStale ==
  \A e \in tlb : \/ e.page \in dirty
                 \/ \E w \in Walk(mem, e.page) : w.frame = e.frame /\ (e.user => w.user)

(* Ring 3 reaches a page only if that was asked for it last, by its own    *)
(* address or in a range that has a byte in it (set_page_dpl,              *)
(* set_memory_range_dpl, map_page, swap_page), unless its table was        *)
(* exchanged under the window.                                             *)
UserOnlyWhereGranted ==
  \A p \in UserPages : \A e \in Walk(mem, p) :
    e.user => p \in granted \/ Table(p) \in moved

(* Setting the level of a page to ring 3 opens it, whatever its directory  *)
(* entry said, and at once if the table of init_paging still maps it to    *)
(* itself (set_page_dpl, set_memory_range_dpl); map_page and swap_page do  *)
(* neither in a table of ring 0.                                           *)
GrantOpens ==
  [][SetPageDpl \/ SetMemoryRangeDpl =>
       \A p \in granted' \ granted : WindowPage(Table(p)) \notin dirty =>
         \A e \in Walk(mem', p) :
           /\ e.user
           /\ InitialPte(mem, p).frame = p => \A t \in Cached(tlb', p) : t.user]_vars

============================================================================
