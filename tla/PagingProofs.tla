---------------------------- MODULE PagingProofs ----------------------------
(***************************************************************************)
(* Theorems about paging.c, for tables of any size, any pages mapped       *)
(* anywhere, any ranges, and a TLB that keeps and forgets what it likes.   *)
(***************************************************************************)
EXTENDS Paging, WellFoundedInduction, TLAPS

Dirs == 0 .. E - 2              \* the tables below the window
Kernel == KernelPages.first .. KernelPages.last
Tables == [Indices -> Entries]
Translations == [page : AllPages, frame : Int, user : BOOLEAN]

----------------------------------------------------------------------------
(* Numbers.                                                                *)

(* Division is what its remainder says. *)
LEMMA DivMod ==
  ASSUME NEW n \in Int, NEW b \in Nat \ {0}
  PROVE  /\ n \div b \in Int /\ n % b \in 0 .. b - 1
         /\ n = b * (n \div b) + (n % b)
OBVIOUS

LEMMA DivModUnique ==
  ASSUME NEW b \in Nat \ {0}, NEW q \in Int, NEW r \in 0 .. b - 1
  PROVE  (b * q + r) \div b = q /\ (b * q + r) % b = r
OBVIOUS

LEMMA Between ==
  ASSUME NEW b \in Nat \ {0}, NEW q \in Int, NEW r \in 0 .. b - 1, NEW c \in Int
  PROVE  /\ b * q + r < b * c <=> q < c
         /\ 0 <= b * q + r <=> 0 <= q
OBVIOUS

(* A page has a place in a table, and no other page has the same. *)
LEMMA SizeOfTables ==
  E \in Nat \ {0} /\ E - 1 \in Nat /\ E - 1 \in Indices /\ Dirs \subseteq Indices
BY PagingAssumption DEF Indices, Dirs

LEMMA PageParts ==
  ASSUME NEW p \in AllPages
  PROVE  /\ Table(p) \in Indices /\ Slot(p) \in Indices
         /\ p = Table(p) * E + Slot(p)
         /\ p \in PagesOfTable(Table(p))
         /\ p \in UserPages <=> Table(p) \in Dirs
         /\ Table(p) \notin Dirs => Table(p) = E - 1 /\ p = WindowPage(Slot(p))
<1>1. E \in Nat \ {0} /\ p \in Nat /\ p < E * E
  BY PagingAssumption DEF AllPages
<1> DEFINE q == p \div E
           r == p % E
<1>2. q \in Int /\ r \in 0 .. E - 1 /\ p = E * q + r
  BY <1>1, DivMod
<1>3. Table(p) = q /\ Slot(p) = r
  BY DEF Table, Slot
<1> HIDE DEF q, r
<1>4. 0 <= q /\ q < E
  BY <1>1, <1>2, Between
<1>5. E * q + r < E * (E - 1) <=> q < E - 1
  BY <1>1, <1>2, Between
<1>6. q * E = E * q
  BY <1>1, <1>2
<1>7. Table(p) \in Indices /\ Slot(p) \in Indices
  BY <1>1, <1>2, <1>3, <1>4 DEF Indices
<1>8. p = Table(p) * E + Slot(p)
  BY <1>2, <1>3, <1>6
<1>9. p \in UserPages <=> Table(p) \in Dirs
  <2>1. E * (E - 1) \in Int
    BY <1>1
  <2>2. p \in UserPages <=> p < E * (E - 1)
    BY <1>1, <2>1 DEF UserPages
  <2>3. Table(p) \in Dirs <=> q < E - 1
    BY <1>1, <1>2, <1>3, <1>4 DEF Dirs
  <2> QED BY <1>2, <1>5, <2>2, <2>3
<1>10. ASSUME Table(p) \notin Dirs PROVE Table(p) = E - 1 /\ p = WindowPage(Slot(p))
  <2>1. q = E - 1
    BY <1>1, <1>2, <1>3, <1>4, <1>10 DEF Dirs
  <2> QED BY <1>2, <1>3, <2>1 DEF WindowPage
<1> QED BY <1>7, <1>8, <1>9, <1>10 DEF PagesOfTable

LEMMA SamePlace ==
  ASSUME NEW p \in AllPages, NEW q \in AllPages,
         Table(p) = Table(q), Slot(p) = Slot(q)
  PROVE  p = q
BY PageParts

LEMMA WindowParts ==
  ASSUME NEW d \in Indices
  PROVE  /\ WindowPage(d) \in AllPages
         /\ Table(WindowPage(d)) = E - 1 /\ Slot(WindowPage(d)) = d
<1>1. E \in Nat \ {0} /\ d \in 0 .. E - 1 /\ E - 1 \in Int
  BY PagingAssumption DEF Indices
<1>2. (E * (E - 1) + d) \div E = E - 1 /\ (E * (E - 1) + d) % E = d
  BY <1>1, DivModUnique
<1>3. E * (E - 1) + d < E * E /\ 0 <= E * (E - 1) + d
  BY <1>1, Between
<1>4. E * (E - 1) + d \in Int /\ E * E \in Int
  BY <1>1
<1> QED BY <1>2, <1>3, <1>4 DEF WindowPage, Table, Slot, AllPages

LEMMA UserPlace ==
  ASSUME NEW p \in UserPages
  PROVE  p \in AllPages /\ Table(p) \in Dirs /\ Table(p) \in Indices
         /\ Slot(p) \in Indices
<1>1. E \in Nat \ {0} /\ E * (E - 1) \in Int /\ E * E \in Int
  BY PagingAssumption
<1>2. p \in Int /\ 0 <= p /\ p <= E * (E - 1) - 1
  BY <1>1 DEF UserPages
<1>3. E * (E - 1) <= E * E
  BY <1>1
<1>4. p \in AllPages
  BY <1>1, <1>2, <1>3 DEF AllPages
<1> QED BY <1>4, PageParts

----------------------------------------------------------------------------
(* What stays true of directory, tables and TLB.                           *)

OnePerPage(t) == \A a, b \in t : a.page = b.page => a = b

(* The frames in which the window may show the table d: the one that the   *)
(* directory says and the one that the TLB remembers.                      *)
Seen(m, t, d) ==
  {m[DirFrame][d].frame} \cup {e.frame : e \in Cached(t, WindowPage(d))}

(* The window is the directory's own last entry; what it shows of a table  *)
(* is no part of another, nor of the directory, nor free; and a table that *)
(* was never exchanged is the one of init_paging.                          *)
WindowInv(m, t, fr, mv) ==
  /\ m[DirFrame][E - 1] = Entry(DirFrame, FALSE)
  /\ \A d \in Dirs : Seen(m, t, d) \subseteq TableFrames \ (fr \cup {DirFrame})
  /\ \A c, d \in Dirs : c # d => Seen(m, t, c) \cap Seen(m, t, d) = {}
  /\ \A d \in Dirs \ mv :
       m[DirFrame][d].present /\ Seen(m, t, d) = {TableFrame(d)}

(* NothingStale, of any tables and TLB. *)
AsTheTablesSay(m, e) ==
  \E w \in Walk(m, e.page) : w.frame = e.frame /\ (e.user => w.user)
StaleInv(m, t, dt) == \A e \in t : e.page \in dt \/ AsTheTablesSay(m, e)

StoreInv(m, t, fr, mv, dt) ==
  /\ m \in [TableFrames -> Tables] /\ t \in SUBSET Translations
  /\ OnePerPage(t) /\ WindowInv(m, t, fr, mv) /\ StaleInv(m, t, dt)

(* An entry for ring 3 is one that was asked for, whatever the directory   *)
(* says of its table at present.                                           *)
GrantInv(m, g, mv) ==
  \A p \in UserPages : Table(p) \notin mv /\ InitialPte(m, p).user => p \in g

PagingInv ==
  /\ free \subseteq KmallocFrames /\ moved \subseteq Indices
  /\ StoreInv(mem, tlb, free, moved, dirty)
  /\ GrantInv(mem, granted, moved)

(* The kernel lies below the window, and the callers neither force its     *)
(* pages elsewhere nor exchange the tables it lies in: the code does not   *)
(* check for that.                                                         *)
KernelLeftAlone ==
  /\ Kernel \subseteq UserPages /\ Kernel \cap ForcedTargets = {}
  /\ \A p \in TableTargets, k \in Kernel : Table(p) # Table(k)

KernelInv ==
  \A p \in Kernel : /\ Table(p) \notin moved
                    /\ InitialPte(mem, p).present /\ InitialPte(mem, p).frame = p

----------------------------------------------------------------------------
(* What a translation reads.                                               *)

LEMMA EntryParts ==
  ASSUME NEW e \in Entries
  PROVE  e.frame \in Int /\ e.present \in BOOLEAN /\ e.user \in BOOLEAN
BY DEF Entries

LEMMA FrameKinds ==
  /\ DirFrame \in TableFrames /\ KmallocFrames \subseteq TableFrames
  /\ DirFrame \notin KmallocFrames
  /\ \A d \in Indices : TableFrame(d) \in TableFrames
                        /\ TableFrame(d) \notin KmallocFrames \cup {DirFrame}
BY PagingAssumption DEF TableFrames

(* The window on a table: what the directory says, for the kernel only. *)
LEMMA WindowWalk ==
  ASSUME NEW m, NEW d \in Dirs, m[DirFrame][E - 1] = Entry(DirFrame, FALSE)
  PROVE  Walk(m, WindowPage(d)) =
           IF m[DirFrame][d].present
           THEN {[page |-> WindowPage(d), frame |-> m[DirFrame][d].frame,
                  user |-> FALSE]}
           ELSE {}
<1>1. d \in Indices
  BY SizeOfTables
<1>2. Table(WindowPage(d)) = E - 1 /\ Slot(WindowPage(d)) = d
  BY <1>1, WindowParts
<1>3. Pde(m, WindowPage(d)) = Entry(DirFrame, FALSE)
  BY <1>2 DEF Pde
<1>4. /\ Entry(DirFrame, FALSE).frame = DirFrame
      /\ Entry(DirFrame, FALSE).present = TRUE
      /\ Entry(DirFrame, FALSE).user = FALSE
  BY DEF Entry
<1> QED BY <1>2, <1>3, <1>4 DEF Walk

(* The window shows the table through a frame that it may, and the one of  *)
(* the directory if the TLB does not say otherwise.                        *)
LEMMA PtIsSeen ==
  ASSUME NEW m, NEW t, NEW p \in UserPages,
         m[DirFrame][E - 1] = Entry(DirFrame, FALSE),
         m[DirFrame][Table(p)].present
  PROVE  Pt(m, t, p) \in Seen(m, t, Table(p))
<1> DEFINE W == WindowPage(Table(p))
<1>1. Table(p) \in Dirs
  BY UserPlace
<1>2. CASE Cached(t, W) # {}
  <2>1. Through(m, t, W) = Cached(t, W)
    BY <1>2 DEF Through
  <2>2. (CHOOSE e \in Cached(t, W) : TRUE) \in Cached(t, W)
    BY <1>2
  <2> QED BY <2>1, <2>2 DEF Pt, Seen
<1>3. CASE Cached(t, W) = {}
  <2>1. Through(m, t, W) = Walk(m, W)
    BY <1>3 DEF Through
  <2> DEFINE w == [page |-> W, frame |-> m[DirFrame][Table(p)].frame, user |-> FALSE]
  <2>2. Through(m, t, W) = {w}
    BY <1>1, <2>1, WindowWalk
  <2>3. (CHOOSE e \in {w} : TRUE) = w
    OBVIOUS
  <2> QED BY <2>2, <2>3 DEF Pt, Seen
<1> QED BY <1>2, <1>3

----------------------------------------------------------------------------
(* Writing an entry of a table through the window.                         *)

Written(m, f, p, entry) == [m EXCEPT ![f][Slot(p)] = entry]

(* It changes the translation of its page, if any. *)
LEMMA WriteStore ==
  ASSUME NEW m \in [TableFrames -> Tables], NEW t, NEW fr, NEW mv,
         WindowInv(m, t, fr, mv), NEW p \in UserPages,
         NEW f \in Seen(m, t, Table(p)), NEW entry \in Entries,
         NEW n, n = Written(m, f, p, entry)
  PROVE  /\ n \in [TableFrames -> Tables] /\ WindowInv(n, t, fr, mv)
         /\ n[DirFrame] = m[DirFrame]
         /\ \A q \in AllPages : q # p => Walk(n, q) = Walk(m, q)
         /\ f # m[DirFrame][Table(p)].frame => Walk(n, p) = Walk(m, p)
         /\ \A q \in UserPages : q # p /\ Table(q) \notin mv =>
              InitialPte(n, q) = InitialPte(m, q)
<1>1. /\ p \in AllPages /\ Table(p) \in Dirs /\ Table(p) \in Indices
      /\ Slot(p) \in Indices
  BY UserPlace
<1>2. f \in TableFrames /\ f # DirFrame
  BY <1>1 DEF WindowInv
<1> USE DEF Written
<1>3. n \in [TableFrames -> Tables]
  <2>1. m[f] \in Tables
    BY <1>2
  <2>2. [m[f] EXCEPT ![Slot(p)] = entry] \in Tables
    BY <2>1 DEF Tables
  <2> QED BY <1>2, <2>2
<1>4. n[DirFrame] = m[DirFrame]
  BY <1>2, FrameKinds
<1>5. \A d : Seen(n, t, d) = Seen(m, t, d)
  BY <1>4 DEF Seen
<1>6. WindowInv(n, t, fr, mv)
  BY <1>4, <1>5 DEF WindowInv
<1>7. \A g \in TableFrames, i \in Indices :
        g # f \/ i # Slot(p) => n[g][i] = m[g][i]
  <2> TAKE g \in TableFrames, i \in Indices
  <2>1. m[f] \in [Indices -> Entries]
    BY <1>2 DEF Tables
  <2>2. CASE g # f
    BY <2>2
  <2>3. CASE g = f /\ i # Slot(p)
    BY <2>1, <2>3
  <2> QED BY <2>2, <2>3
<1>8. ASSUME NEW q \in AllPages,
             q # p \/ f # m[DirFrame][Table(p)].frame
      PROVE  Walk(n, q) = Walk(m, q)
  <2> DEFINE g == m[DirFrame][Table(q)].frame
  <2> SUFFICES n[g][Slot(q)] = m[g][Slot(q)]
    <3>1. n[DirFrame][Table(q)] = m[DirFrame][Table(q)]
      BY <1>4
    <3> QED BY <3>1 DEF Walk, Pde
  <2>1. Table(q) \in Indices /\ Slot(q) \in Indices
    BY PageParts
  <2>2. CASE Table(q) \notin Dirs
    <3>1. Table(q) = E - 1
      BY <2>2, PageParts
    <3>2. g = DirFrame
      BY <3>1 DEF WindowInv, Entry
    <3> QED BY <1>4, <3>2
  <2>3. CASE Table(q) \in Dirs /\ Table(q) # Table(p)
    <3>1. g \in Seen(m, t, Table(q)) /\ g \in TableFrames
      BY <2>3 DEF WindowInv, Seen
    <3>2. g # f
      BY <1>1, <2>3, <3>1 DEF WindowInv
    <3> QED BY <1>7, <2>1, <3>1, <3>2
  <2>4. CASE Table(q) = Table(p)
    <3>1. g \in TableFrames
      BY <1>1, <2>4 DEF WindowInv, Seen
    <3>2. g # f \/ Slot(q) # Slot(p)
      BY <1>1, <1>8, <2>4, SamePlace
    <3> QED BY <1>7, <2>1, <3>1, <3>2
  <2> QED BY <2>2, <2>3, <2>4
<1>9. ASSUME NEW q \in UserPages, q # p, Table(q) \notin mv
      PROVE  InitialPte(n, q) = InitialPte(m, q)
  <2>1. /\ q \in AllPages /\ Table(q) \in Dirs /\ Table(q) \in Indices
        /\ Slot(q) \in Indices
    BY UserPlace
  <2>2. Seen(m, t, Table(q)) = {TableFrame(Table(q))}
    BY <1>9, <2>1 DEF WindowInv
  <2>3. TableFrame(Table(q)) \in TableFrames
    BY <2>1, FrameKinds
  <2>4. TableFrame(Table(q)) # f \/ Slot(q) # Slot(p)
    <3>1. CASE Table(q) = Table(p)
      BY <1>1, <1>9, <2>1, <3>1, SamePlace
    <3>2. CASE Table(q) # Table(p)
      BY <1>1, <2>1, <2>2, <3>2 DEF WindowInv
    <3> QED BY <3>1, <3>2
  <2> QED BY <1>7, <2>1, <2>3, <2>4 DEF InitialPte
<1> QED BY <1>3, <1>4, <1>6, <1>8, <1>9, <1>1

(* Nothing is lost when the TLB forgets. *)
LEMMA ForgetStore ==
  ASSUME NEW m, NEW t, NEW fr, NEW mv, NEW dt, StoreInv(m, t, fr, mv, dt),
         NEW u \in SUBSET t, NEW du, \A e \in u : e.page \in dt => e.page \in du
  PROVE  StoreInv(m, u, fr, mv, du)
<1>1. \A d : Seen(m, u, d) \subseteq Seen(m, t, d)
  BY DEF Seen, Cached
<1>2. \A d : m[DirFrame][d].frame \in Seen(m, u, d)
  BY DEF Seen
<1>3. WindowInv(m, u, fr, mv)
  <2>1. WindowInv(m, t, fr, mv)
    BY DEF StoreInv
  <2>2. \A d \in Dirs : Seen(m, u, d) \subseteq TableFrames \ (fr \cup {DirFrame})
    BY <1>1, <2>1 DEF WindowInv
  <2>3. \A c, d \in Dirs : c # d => Seen(m, u, c) \cap Seen(m, u, d) = {}
    <3> SUFFICES ASSUME NEW c \in Dirs, NEW d \in Dirs, c # d
                 PROVE  Seen(m, u, c) \cap Seen(m, u, d) = {}
      OBVIOUS
    <3>1. Seen(m, t, c) \cap Seen(m, t, d) = {}
      BY <2>1 DEF WindowInv
    <3> QED BY <1>1, <3>1
  <2>4. \A d \in Dirs \ mv :
          m[DirFrame][d].present /\ Seen(m, u, d) = {TableFrame(d)}
    <3> TAKE d \in Dirs \ mv
    <3>1. m[DirFrame][d].present /\ Seen(m, t, d) = {TableFrame(d)}
      BY <2>1 DEF WindowInv
    <3> QED BY <1>1, <1>2, <3>1
  <2> QED BY <2>1, <2>2, <2>3, <2>4 DEF WindowInv
<1>4. u \in SUBSET Translations /\ OnePerPage(u) /\ StaleInv(m, u, du)
  BY DEF StoreInv, OnePerPage, StaleInv
<1> QED BY <1>3, <1>4 DEF StoreInv

(* A write leaves nothing stale but its own page, ... *)
LEMMA WriteInv ==
  ASSUME NEW m, NEW t, NEW fr, NEW mv, NEW dt, StoreInv(m, t, fr, mv, dt),
         NEW p \in UserPages, NEW f \in Seen(m, t, Table(p)),
         NEW entry \in Entries, NEW n, n = Written(m, f, p, entry),
         NEW du, \A e \in t : e.page \in dt \/ e.page = p => e.page \in du
  PROVE  StoreInv(n, t, fr, mv, du)
<1>1. /\ m \in [TableFrames -> Tables] /\ WindowInv(m, t, fr, mv)
      /\ t \in SUBSET Translations /\ OnePerPage(t) /\ StaleInv(m, t, dt)
  BY DEF StoreInv
<1>2. /\ n \in [TableFrames -> Tables] /\ WindowInv(n, t, fr, mv)
      /\ \A q \in AllPages : q # p => Walk(n, q) = Walk(m, q)
  BY <1>1, WriteStore
<1>3. StaleInv(n, t, du)
  <2> SUFFICES ASSUME NEW e \in t, e.page \notin du PROVE AsTheTablesSay(n, e)
    BY DEF StaleInv
  <2>1. e.page # p /\ e.page \notin dt
    OBVIOUS
  <2>2. AsTheTablesSay(m, e)
    BY <1>1, <2>1 DEF StaleInv
  <2>3. e.page \in AllPages
    BY <1>1 DEF Translations
  <2>4. Walk(n, e.page) = Walk(m, e.page)
    BY <1>2, <2>1, <2>3
  <2> QED BY <2>2, <2>4 DEF AsTheTablesSay
<1> QED BY <1>1, <1>2, <1>3 DEF StoreInv

(* ... and not that when it only opens an entry for ring 3. *)
LEMMA RaiseInv ==
  ASSUME NEW m, NEW t, NEW fr, NEW mv, NEW dt, StoreInv(m, t, fr, mv, dt),
         NEW p \in UserPages, NEW f \in Seen(m, t, Table(p)),
         NEW entry \in Entries, entry.frame = m[f][Slot(p)].frame,
         entry.present = m[f][Slot(p)].present,
         m[f][Slot(p)].user => entry.user,
         NEW n, n = Written(m, f, p, entry)
  PROVE  StoreInv(n, t, fr, mv, dt)
<1>1. /\ m \in [TableFrames -> Tables] /\ WindowInv(m, t, fr, mv)
      /\ t \in SUBSET Translations /\ OnePerPage(t) /\ StaleInv(m, t, dt)
  BY DEF StoreInv
<1>2. /\ p \in AllPages /\ Table(p) \in Dirs /\ Slot(p) \in Indices
  BY UserPlace
<1>3. f \in TableFrames
  BY <1>1, <1>2 DEF WindowInv
<1>4. /\ n \in [TableFrames -> Tables] /\ WindowInv(n, t, fr, mv)
      /\ n[DirFrame] = m[DirFrame]
      /\ \A q \in AllPages : q # p => Walk(n, q) = Walk(m, q)
      /\ f # m[DirFrame][Table(p)].frame => Walk(n, p) = Walk(m, p)
  BY <1>1, WriteStore
<1>5. n[f][Slot(p)] = entry
  BY <1>1, <1>2, <1>3 DEF Tables, Written
<1>6. ASSUME NEW w \in Walk(m, p)
      PROVE  \E v \in Walk(n, p) : v.frame = w.frame /\ (w.user => v.user)
  <2>1. CASE f # m[DirFrame][Table(p)].frame
    BY <1>4, <2>1
  <2>2. CASE f = m[DirFrame][Table(p)].frame
    <3> DEFINE pde == m[DirFrame][Table(p)]
               old == m[f][Slot(p)]
    <3>1. /\ pde.present /\ old.present
          /\ w = [page |-> p, frame |-> old.frame, user |-> pde.user /\ old.user]
      BY <2>2 DEF Walk, Pde
    <3>2. Walk(n, p) = {[page |-> p, frame |-> entry.frame,
                         user |-> pde.user /\ entry.user]}
      <4>1. n[DirFrame][Table(p)] = pde
        BY <1>4
      <4>2. n[pde.frame][Slot(p)] = entry
        BY <1>5, <2>2
      <4>3. pde.present /\ entry.present
        BY <2>2, <3>1
      <4> HIDE DEF pde
      <4> QED BY <4>1, <4>2, <4>3 DEF Walk, Pde
    <3> DEFINE v == [page |-> p, frame |-> entry.frame, user |-> pde.user /\ entry.user]
    <3>3. v.frame = w.frame /\ (w.user => v.user)
      BY <3>1
    <3> QED BY <3>2, <3>3
  <2> QED BY <2>1, <2>2
<1>7. StaleInv(n, t, dt)
  <2> SUFFICES ASSUME NEW e \in t, e.page \notin dt PROVE AsTheTablesSay(n, e)
    BY DEF StaleInv
  <2>1. AsTheTablesSay(m, e)
    BY <1>1 DEF StaleInv
  <2>2. e.page \in AllPages
    BY <1>1 DEF Translations
  <2>3. CASE e.page # p
    BY <1>4, <2>1, <2>2, <2>3 DEF AsTheTablesSay
  <2>4. CASE e.page = p
    <3>1. PICK w \in Walk(m, p) : w.frame = e.frame /\ (e.user => w.user)
      BY <2>1, <2>4 DEF AsTheTablesSay
    <3>2. PICK v \in Walk(n, p) : v.frame = w.frame /\ (w.user => v.user)
      BY <1>6
    <3> QED BY <2>4, <3>1, <3>2 DEF AsTheTablesSay
  <2> QED BY <2>3, <2>4
<1> QED BY <1>1, <1>4, <1>7 DEF StoreInv

----------------------------------------------------------------------------
(* Writing an entry of the directory.                                      *)

DirWritten(m, d, entry) == [m EXCEPT ![DirFrame][d] = entry]

LEMMA DirStore ==
  ASSUME NEW m \in [TableFrames -> Tables], NEW t, NEW fr, NEW mv,
         WindowInv(m, t, fr, mv), NEW d \in Dirs, NEW entry \in Entries,
         NEW n, n = DirWritten(m, d, entry)
  PROVE  /\ n \in [TableFrames -> Tables]
         /\ n[DirFrame][d] = entry
         /\ \A c \in Indices : c # d => n[DirFrame][c] = m[DirFrame][c]
         /\ \A g \in TableFrames : g # DirFrame => n[g] = m[g]
         /\ \A q \in AllPages : Table(q) # d /\ q # WindowPage(d) =>
              Walk(n, q) = Walk(m, q)
         /\ \A q \in UserPages : InitialPte(n, q) = InitialPte(m, q)
<1> USE DEF DirWritten
<1>1. d \in Indices /\ d # E - 1 /\ DirFrame \in TableFrames
  BY SizeOfTables, FrameKinds DEF Dirs
<1>2. m[DirFrame] \in [Indices -> Entries]
  BY <1>1 DEF Tables
<1>3. n = [m EXCEPT ![DirFrame] = [m[DirFrame] EXCEPT ![d] = entry]]
  OBVIOUS
<1>4. n[DirFrame] = [m[DirFrame] EXCEPT ![d] = entry]
  BY <1>1, <1>3
<1>5. n[DirFrame] \in Tables
  BY <1>2, <1>4 DEF Tables
<1>6. \A g \in TableFrames : g # DirFrame => n[g] = m[g]
  BY <1>3
<1>7. n \in [TableFrames -> Tables]
  BY <1>1, <1>3, <1>4, <1>5
<1>8. n[DirFrame][d] = entry /\ \A c \in Indices : c # d => n[DirFrame][c] = m[DirFrame][c]
  BY <1>1, <1>2, <1>4
<1>9. ASSUME NEW q \in AllPages, Table(q) # d, q # WindowPage(d)
      PROVE  Walk(n, q) = Walk(m, q)
  <2> DEFINE g == m[DirFrame][Table(q)].frame
  <2>1. Table(q) \in Indices /\ Slot(q) \in Indices
    BY PageParts
  <2>2. n[DirFrame][Table(q)] = m[DirFrame][Table(q)]
    BY <1>8, <1>9, <2>1
  <2> SUFFICES n[g][Slot(q)] = m[g][Slot(q)]
    BY <2>2 DEF Walk, Pde
  <2>3. CASE Table(q) \in Dirs
    <3>1. g \in TableFrames /\ g # DirFrame
      BY <2>3 DEF WindowInv, Seen
    <3> QED BY <1>6, <3>1
  <2>4. CASE Table(q) \notin Dirs
    <3>1. Table(q) = E - 1 /\ q = WindowPage(Slot(q))
      BY <2>4, PageParts
    <3>2. g = DirFrame
      BY <3>1 DEF WindowInv, Entry
    <3>3. Slot(q) # d
      BY <1>9, <3>1
    <3> QED BY <1>8, <2>1, <3>2, <3>3
  <2> QED BY <2>3, <2>4
<1>10. ASSUME NEW q \in UserPages PROVE InitialPte(n, q) = InitialPte(m, q)
  <2>1. TableFrame(Table(q)) \in TableFrames /\ TableFrame(Table(q)) # DirFrame
    BY UserPlace, FrameKinds
  <2> QED BY <1>6, <2>1 DEF InitialPte
<1> QED BY <1>6, <1>7, <1>8, <1>9, <1>10

(* As long as the entry names the same table, the window stays. *)
LEMMA SameTableWindow ==
  ASSUME NEW m \in [TableFrames -> Tables], NEW t, NEW fr, NEW mv, NEW mw,
         WindowInv(m, t, fr, mv), NEW d \in Dirs, NEW entry \in Entries,
         entry.frame = m[DirFrame][d].frame, entry.present \/ d \in mw,
         mv \subseteq mw, NEW n, n = DirWritten(m, d, entry)
  PROVE  WindowInv(n, t, fr, mw)
<1>1. /\ n[DirFrame][d] = entry
      /\ \A c \in Indices : c # d => n[DirFrame][c] = m[DirFrame][c]
  BY DirStore
<1>2. \A c \in Dirs : n[DirFrame][c].frame = m[DirFrame][c].frame
  BY <1>1, SizeOfTables
<1>3. \A c \in Dirs : Seen(n, t, c) = Seen(m, t, c)
  BY <1>2 DEF Seen
<1>4. n[DirFrame][E - 1] = Entry(DirFrame, FALSE)
  <2>1. d # E - 1 /\ E - 1 \in Indices
    BY SizeOfTables DEF Dirs
  <2> QED BY <1>1, <2>1 DEF WindowInv
<1>5. \A c \in Dirs \ mw : n[DirFrame][c].present /\ Seen(n, t, c) = {TableFrame(c)}
  BY <1>1, <1>3, SizeOfTables DEF WindowInv
<1> QED BY <1>3, <1>4, <1>5 DEF WindowInv

(* A new level leaves nothing stale if it opens the table. *)
LEMMA LevelInv ==
  ASSUME NEW m, NEW t, NEW fr, NEW mv, NEW dt, StoreInv(m, t, fr, mv, dt),
         NEW d \in Dirs, NEW entry \in Entries,
         entry.frame = m[DirFrame][d].frame,
         entry.present = m[DirFrame][d].present,
         NEW n, n = DirWritten(m, d, entry),
         NEW du, \A e \in t : e.page \in dt => e.page \in du,
         \/ m[DirFrame][d].user => entry.user
         \/ \A e \in t : Table(e.page) = d => e.page \in du
  PROVE  StoreInv(n, t, fr, mv, du)
<1>1. /\ m \in [TableFrames -> Tables] /\ WindowInv(m, t, fr, mv)
      /\ t \in SUBSET Translations /\ OnePerPage(t) /\ StaleInv(m, t, dt)
  BY DEF StoreInv
<1>2. d \in mv \/ entry.present
  BY <1>1 DEF WindowInv
<1>3. WindowInv(n, t, fr, mv)
  BY <1>1, <1>2, SameTableWindow
<1>4. /\ n \in [TableFrames -> Tables] /\ n[DirFrame][d] = entry
      /\ \A g \in TableFrames : g # DirFrame => n[g] = m[g]
      /\ \A q \in AllPages : Table(q) # d /\ q # WindowPage(d) =>
           Walk(n, q) = Walk(m, q)
  BY <1>1, DirStore
<1>5. StaleInv(n, t, du)
  <2> SUFFICES ASSUME NEW e \in t, e.page \notin du PROVE AsTheTablesSay(n, e)
    BY DEF StaleInv
  <2>1. AsTheTablesSay(m, e)
    BY <1>1 DEF StaleInv
  <2>2. e.page \in AllPages
    BY <1>1 DEF Translations
  <2>3. CASE e.page = WindowPage(d)
    <3>1. Walk(n, e.page) = Walk(m, e.page)
      <4>1. /\ m[DirFrame][E - 1] = Entry(DirFrame, FALSE)
            /\ n[DirFrame][E - 1] = Entry(DirFrame, FALSE)
        BY <1>1, <1>3 DEF WindowInv
      <4>2. /\ n[DirFrame][d].frame = m[DirFrame][d].frame
            /\ n[DirFrame][d].present = m[DirFrame][d].present
        BY <1>4
      <4> QED BY <2>3, <4>1, <4>2, WindowWalk
    <3> QED BY <2>1, <3>1 DEF AsTheTablesSay
  <2>4. CASE Table(e.page) = d
    <3> DEFINE g == m[DirFrame][d].frame
               i == Slot(e.page)
    <3>1. m[DirFrame][d].user => entry.user
      BY <2>4
    <3>2. n[g] = m[g]
      BY <1>1, <1>4 DEF WindowInv, Seen
    <3>3. /\ m[DirFrame][d].present /\ m[g][i].present /\ m[g][i].frame = e.frame
          /\ e.user => m[DirFrame][d].user /\ m[g][i].user
      <4>1. PICK w \in Walk(m, e.page) : w.frame = e.frame /\ (e.user => w.user)
        BY <2>1 DEF AsTheTablesSay
      <4>2. /\ m[DirFrame][d].present /\ m[g][i].present
            /\ w = [page |-> e.page, frame |-> m[g][i].frame,
                    user |-> m[DirFrame][d].user /\ m[g][i].user]
        BY <2>4, <4>1 DEF Walk, Pde
      <4> QED BY <4>1, <4>2
    <3> DEFINE w == [page |-> e.page, frame |-> m[g][i].frame,
                     user |-> entry.user /\ m[g][i].user]
    <3>4. Walk(n, e.page) = {w}
      <4>1. Pde(n, e.page) = entry
        BY <1>4, <2>4 DEF Pde
      <4>2. n[Pde(n, e.page).frame][i] = m[g][i] /\ Pde(n, e.page).present
        BY <3>2, <3>3, <4>1
      <4> QED BY <3>3, <4>1, <4>2 DEF Walk
    <3>5. w.frame = e.frame /\ (e.user => w.user)
      BY <3>1, <3>3
    <3> QED BY <3>4, <3>5 DEF AsTheTablesSay
  <2>5. CASE e.page # WindowPage(d) /\ Table(e.page) # d
    BY <1>4, <2>1, <2>2, <2>5 DEF AsTheTablesSay
  <2> QED BY <2>3, <2>4, <2>5
<1> QED BY <1>1, <1>3, <1>4, <1>5 DEF StoreInv

(* A table that comes or goes leaves what was known of it stale: its pages *)
(* and the window on it.                                                   *)
LEMMA ExchangeStale ==
  ASSUME NEW m, NEW t, NEW dt, StaleInv(m, t, dt), t \in SUBSET Translations,
         NEW d \in Dirs, NEW n,
         \A q \in AllPages : Table(q) # d /\ q # WindowPage(d) =>
           Walk(n, q) = Walk(m, q),
         NEW du, \A e \in t : e.page \in dt \/ Table(e.page) = d
                                \/ e.page = WindowPage(d) => e.page \in du
  PROVE  StaleInv(n, t, du)
<1> SUFFICES ASSUME NEW e \in t, e.page \notin du PROVE AsTheTablesSay(n, e)
  BY DEF StaleInv
<1>1. AsTheTablesSay(m, e)
  BY DEF StaleInv
<1>2. /\ e.page \in AllPages
      /\ Table(e.page) # d /\ e.page # WindowPage(d)
  BY DEF Translations
<1> QED BY <1>1, <1>2 DEF AsTheTablesSay

LEMMA PresenceInv ==
  ASSUME NEW m, NEW t, NEW fr, NEW mv, NEW dt, StoreInv(m, t, fr, mv, dt),
         NEW d \in Dirs, NEW entry \in Entries,
         entry.frame = m[DirFrame][d].frame,
         NEW n, n = DirWritten(m, d, entry),
         NEW du, \A e \in t : e.page \in dt \/ Table(e.page) = d
                                \/ e.page = WindowPage(d) => e.page \in du
  PROVE  StoreInv(n, t, fr, mv \cup {d}, du)
<1>1. /\ m \in [TableFrames -> Tables] /\ WindowInv(m, t, fr, mv)
      /\ t \in SUBSET Translations /\ OnePerPage(t) /\ StaleInv(m, t, dt)
  BY DEF StoreInv
<1>2. WindowInv(n, t, fr, mv \cup {d})
  <2>1. mv \subseteq mv \cup {d} /\ d \in mv \cup {d}
    OBVIOUS
  <2> HIDE DEF WindowInv
  <2> QED BY <1>1, <2>1, SameTableWindow
<1>3. /\ n \in [TableFrames -> Tables]
      /\ \A q \in AllPages : Table(q) # d /\ q # WindowPage(d) =>
           Walk(n, q) = Walk(m, q)
  BY <1>1, DirStore
<1>4. StaleInv(n, t, du)
  BY <1>1, <1>3, ExchangeStale
<1> QED BY <1>1, <1>2, <1>3, <1>4 DEF StoreInv

(* A fresh table in the place of another. *)
TableWritten(m, d, entry, f, c) == [DirWritten(m, d, entry) EXCEPT ![f] = c]

Covered(t, dt, d, du) ==
  \A e \in t : e.page \in dt \/ Table(e.page) = d \/ e.page = WindowPage(d) =>
              e.page \in du
Refreshed(m, n, t, fr, mv, d, entry, du) ==
  /\ StoreInv(n, t, fr, mv, du) /\ n[DirFrame][d] = entry
  /\ \A q \in UserPages : InitialPte(n, q) = InitialPte(m, q)

LEMMA FreshInv ==
  ASSUME NEW m, NEW t, NEW fr \in SUBSET KmallocFrames, NEW mv, NEW dt,
         StoreInv(m, t, fr, mv, dt),
         NEW d \in Dirs, NEW f \in fr, NEW entry \in Entries, entry.frame = f,
         NEW c \in Tables, NEW n, n = TableWritten(m, d, entry, f, c),
         NEW du, Covered(t, dt, d, du)
  PROVE  Refreshed(m, n, t, fr \ {f}, mv \cup {d}, d, entry, du)
<1>1. /\ m \in [TableFrames -> Tables] /\ WindowInv(m, t, fr, mv)
      /\ t \in SUBSET Translations /\ OnePerPage(t) /\ StaleInv(m, t, dt)
  BY DEF StoreInv
<1> DEFINE k == DirWritten(m, d, entry)
<1>2. /\ k \in [TableFrames -> Tables] /\ k[DirFrame][d] = entry
      /\ \A b \in Indices : b # d => k[DirFrame][b] = m[DirFrame][b]
      /\ \A q \in AllPages : Table(q) # d /\ q # WindowPage(d) =>
           Walk(k, q) = Walk(m, q)
      /\ \A q \in UserPages : InitialPte(k, q) = InitialPte(m, q)
  BY <1>1, DirStore
<1> HIDE DEF k
<1>3. n = [k EXCEPT ![f] = c]
  BY DEF k, TableWritten
<1>4. f \in TableFrames /\ f # DirFrame /\ \A b \in Indices : f # TableFrame(b)
  BY FrameKinds
<1>5. /\ n \in [TableFrames -> Tables] /\ n[DirFrame] = k[DirFrame]
      /\ \A g \in TableFrames : g # f => n[g] = k[g]
  <2>1. DirFrame \in TableFrames /\ DirFrame # f
    BY <1>4, FrameKinds
  <2>2. n \in [TableFrames -> Tables]
    BY <1>2, <1>3
  <2>3. \A g \in TableFrames : g # f => n[g] = k[g]
    BY <1>2, <1>3
  <2> QED BY <2>1, <2>2, <2>3
<1>6. \A q \in UserPages : InitialPte(n, q) = InitialPte(m, q)
  <2> TAKE q \in UserPages
  <2>1. TableFrame(Table(q)) \in TableFrames /\ TableFrame(Table(q)) # f
    BY <1>4, UserPlace, FrameKinds
  <2>2. InitialPte(n, q) = InitialPte(k, q)
    BY <1>5, <2>1 DEF InitialPte
  <2> QED BY <1>2, <2>2
<1>7. ASSUME NEW b \in Dirs, b # d
      PROVE  n[DirFrame][b] = m[DirFrame][b] /\ Seen(n, t, b) = Seen(m, t, b)
  BY <1>2, <1>5, <1>7, SizeOfTables DEF Seen
<1>8. Seen(n, t, d) \subseteq {f} \cup Seen(m, t, d)
  BY <1>2, <1>5 DEF Seen
<1>9. ASSUME NEW q \in AllPages, Table(q) # d, q # WindowPage(d)
      PROVE  Walk(n, q) = Walk(m, q)
  <2> DEFINE g == m[DirFrame][Table(q)].frame
  <2>1. Table(q) \in Indices /\ Slot(q) \in Indices
    BY PageParts
  <2>2. k[DirFrame][Table(q)] = m[DirFrame][Table(q)]
    BY <1>2, <1>9, <2>1
  <2>3. g \in TableFrames /\ g # f
    <3>1. CASE Table(q) \in Dirs
      BY <1>1, <3>1 DEF WindowInv, Seen
    <3>2. CASE Table(q) \notin Dirs
      <4>1. g = DirFrame
        BY <1>1, <3>2, PageParts DEF WindowInv, Entry
      <4> QED BY <1>4, <4>1, FrameKinds
    <3> QED BY <3>1, <3>2
  <2>4. n[g] = k[g]
    BY <1>5, <2>3
  <2>5. Walk(n, q) = Walk(k, q)
    BY <1>5, <2>2, <2>4 DEF Walk, Pde
  <2> QED BY <1>2, <1>9, <2>5
<1>10. WindowInv(n, t, fr \ {f}, mv \cup {d})
  <2>1. n[DirFrame][E - 1] = Entry(DirFrame, FALSE)
    <3>1. d # E - 1 /\ E - 1 \in Indices
      BY SizeOfTables DEF Dirs
    <3> QED BY <1>1, <1>2, <1>5, <3>1, ZenonT(60) DEF WindowInv
  <2>2. \A b \in Dirs : Seen(n, t, b) \subseteq TableFrames \ ((fr \ {f}) \cup {DirFrame})
    <3> TAKE b \in Dirs
    <3>1. Seen(m, t, b) \subseteq TableFrames \ (fr \cup {DirFrame})
      BY <1>1 DEF WindowInv
    <3>2. CASE b = d
      BY <1>4, <1>8, <3>1, <3>2
    <3>3. CASE b # d
      BY <1>7, <3>1, <3>3
    <3> QED BY <3>2, <3>3
  <2>3. ASSUME NEW a \in Dirs, NEW b \in Dirs, a # b
        PROVE  Seen(n, t, a) \cap Seen(n, t, b) = {}
    <3>1. /\ Seen(m, t, a) \cap Seen(m, t, b) = {}
          /\ f \notin Seen(m, t, a) /\ f \notin Seen(m, t, b)
      BY <1>1, <2>3 DEF WindowInv
    <3>2. CASE a = d
      BY <1>7, <1>8, <2>3, <3>1, <3>2
    <3>3. CASE b = d
      BY <1>7, <1>8, <2>3, <3>1, <3>3
    <3>4. CASE a # d /\ b # d
      BY <1>7, <3>1, <3>4
    <3> QED BY <3>2, <3>3, <3>4
  <2>4. \A b \in Dirs \ (mv \cup {d}) :
          n[DirFrame][b].present /\ Seen(n, t, b) = {TableFrame(b)}
    BY <1>1, <1>7 DEF WindowInv
  <2> QED BY <2>1, <2>2, <2>3, <2>4 DEF WindowInv
<1>11. StaleInv(n, t, du)
  <2>1. \A q \in AllPages : Table(q) # d /\ q # WindowPage(d) =>
          Walk(n, q) = Walk(m, q)
    BY <1>9
  <2> SUFFICES ASSUME NEW e \in t, e.page \notin du PROVE AsTheTablesSay(n, e)
    BY DEF StaleInv
  <2>2. AsTheTablesSay(m, e)
    BY <1>1 DEF StaleInv, Covered
  <2>3. e.page \in AllPages /\ Table(e.page) # d /\ e.page # WindowPage(d)
    BY <1>1 DEF Translations, Covered
  <2> QED BY <2>1, <2>2, <2>3 DEF AsTheTablesSay
<1> QED BY <1>1, <1>2, <1>5, <1>6, <1>10, <1>11 DEF StoreInv, Refreshed

----------------------------------------------------------------------------
(* set_page_dpl.                                                           *)

(* Tables that map the same pages to the same frames. *)
SameMap(n, m) ==
  \A f \in TableFrames, i \in Indices :
    n[f][i].frame = m[f][i].frame /\ n[f][i].present = m[f][i].present

(* The entry that set_page_dpl writes. *)
LevelEntry(m, t, p, dpl) == [Pte(m, t, p) EXCEPT !.user = (dpl # 0)]

LEMMA LevelEntryParts ==
  ASSUME NEW m, NEW t, NEW fr, NEW mv, NEW dt, StoreInv(m, t, fr, mv, dt),
         NEW p \in UserPages, Mapped(m, t, p), NEW dpl \in PrivilegeLevels
  PROVE  /\ Pt(m, t, p) \in Seen(m, t, Table(p)) /\ Pt(m, t, p) \in TableFrames
         /\ Pt(m, t, p) # DirFrame
         /\ Pte(m, t, p) \in Entries
         /\ LevelEntry(m, t, p, dpl) \in Entries
         /\ LevelEntry(m, t, p, dpl).frame = Pte(m, t, p).frame
         /\ LevelEntry(m, t, p, dpl).present = Pte(m, t, p).present
         /\ LevelEntry(m, t, p, dpl).user = (dpl # 0)
<1>1. m \in [TableFrames -> Tables] /\ WindowInv(m, t, fr, mv)
  BY DEF StoreInv
<1>2. Pt(m, t, p) \in Seen(m, t, Table(p))
  BY <1>1, PtIsSeen DEF WindowInv, Mapped, Pde
<1>3. Table(p) \in Dirs /\ Slot(p) \in Indices
  BY UserPlace
<1>4. Pt(m, t, p) \in TableFrames /\ Pt(m, t, p) # DirFrame
  BY <1>1, <1>2, <1>3 DEF WindowInv
<1>5. Pte(m, t, p) \in Entries
  BY <1>1, <1>3, <1>4 DEF Pte, Tables
<1> QED BY <1>2, <1>4, <1>5 DEF LevelEntry, Entries

(* The tables behind the two writes, and the level they give the page.     *)
LEMMA LevelWritten ==
  ASSUME NEW m, NEW t, NEW fr, NEW mv, NEW dt, StoreInv(m, t, fr, mv, dt),
         NEW p \in UserPages, Mapped(m, t, p), NEW dpl \in PrivilegeLevels,
         NEW n, n = PdeOpened(WithPte(m, t, p, LevelEntry(m, t, p, dpl)), p, dpl)
  PROVE  /\ StoreInv(n, t, fr, mv, IF dpl # 0 THEN dt ELSE dt \cup {p})
         /\ SameMap(n, m)
         /\ n[Pt(m, t, p)][Slot(p)].user = (dpl # 0)
         /\ \A q \in UserPages : Table(q) \notin mv => InitialPte(n, q).user =
              IF q = p THEN dpl # 0 ELSE InitialPte(m, q).user
         /\ dpl # 0 =>
              /\ n[DirFrame][Table(p)].user
              /\ \A f \in TableFrames, i \in Indices : m[f][i].user => n[f][i].user
<1> DEFINE f == Pt(m, t, p)
           entry == LevelEntry(m, t, p, dpl)
           k == Written(m, f, p, entry)
           d == Table(p)
<1>1. /\ m \in [TableFrames -> Tables] /\ WindowInv(m, t, fr, mv)
      /\ d \in Dirs /\ d \in Indices /\ Slot(p) \in Indices
  BY UserPlace DEF StoreInv
<1>2. /\ f \in Seen(m, t, d) /\ f \in TableFrames /\ f # DirFrame
      /\ Pte(m, t, p) = m[f][Slot(p)] /\ Pte(m, t, p) \in Entries
      /\ entry \in Entries /\ entry.user = (dpl # 0)
      /\ entry.frame = m[f][Slot(p)].frame /\ entry.present = m[f][Slot(p)].present
  BY LevelEntryParts DEF Pte
<1>3. k = WithPte(m, t, p, entry)
  BY DEF Written, WithPte
<1> HIDE DEF f, entry, d
<1>4. /\ k \in [TableFrames -> Tables] /\ WindowInv(k, t, fr, mv)
      /\ k[DirFrame] = m[DirFrame]
      /\ \A q \in UserPages : q # p /\ Table(q) \notin mv =>
           InitialPte(k, q) = InitialPte(m, q)
  BY <1>1, <1>2, WriteStore DEF d
<1>5. /\ k[f][Slot(p)] = entry
      /\ \A g \in TableFrames, i \in Indices :
           g # f \/ i # Slot(p) => k[g][i] = m[g][i]
  <2>1. m[f] \in [Indices -> Entries]
    BY <1>1, <1>2 DEF Tables
  <2> QED BY <1>1, <1>2, <2>1 DEF Written
<1> HIDE DEF k
<1>6. SameMap(k, m)
  BY <1>2, <1>5 DEF SameMap
<1>7. \A q \in UserPages : Table(q) \notin mv => InitialPte(k, q).user =
        IF q = p THEN dpl # 0 ELSE InitialPte(m, q).user
  <2> TAKE q \in UserPages
  <2> HAVE Table(q) \notin mv
  <2>1. CASE q = p
    <3>1. TableFrame(d) = f
      BY <1>1, <1>2, <2>1 DEF WindowInv, d
    <3> QED BY <1>2, <1>5, <2>1, <3>1 DEF InitialPte, d
  <2>2. CASE q # p
    BY <1>4, <2>2
  <2> QED BY <2>1, <2>2
<1>8. CASE dpl = 0
  <2>1. n = k
    BY <1>3, <1>8 DEF PdeOpened, entry
  <2>2. \A e \in t : e.page \in dt \/ e.page = p => e.page \in dt \cup {p}
    OBVIOUS
  <2>3. StoreInv(k, t, fr, mv, dt \cup {p})
    BY <1>2, <2>2, WriteInv DEF k, d
  <2> QED BY <1>2, <1>5, <1>6, <1>7, <1>8, <2>1, <2>3 DEF f
<1>9. CASE dpl # 0
  <2> DEFINE pde == k[DirFrame][d]
             opened == [pde EXCEPT !.user = TRUE]
  <2>1. pde \in Entries
    BY <1>1, <1>4, FrameKinds DEF Tables
  <2>2. /\ opened \in Entries /\ opened.frame = pde.frame
        /\ opened.present = pde.present /\ opened.user = TRUE
    BY <2>1 DEF Entries
  <2>3. n = DirWritten(k, d, opened)
    BY <1>3, <1>9 DEF PdeOpened, DirWritten, entry, d
  <2> HIDE DEF opened
  <2>4. StoreInv(k, t, fr, mv, dt)
    BY <1>2, <1>9, RaiseInv DEF k, d
  <2>5. StoreInv(n, t, fr, mv, dt)
    BY <1>1, <2>2, <2>3, <2>4, LevelInv
  <2>6. /\ n[DirFrame][d] = opened
        /\ \A c \in Indices : c # d => n[DirFrame][c] = k[DirFrame][c]
        /\ \A g \in TableFrames : g # DirFrame => n[g] = k[g]
        /\ \A q \in UserPages : InitialPte(n, q) = InitialPte(k, q)
    BY <1>1, <1>4, <2>2, <2>3, DirStore
  <2>7. SameMap(n, k) /\ \A g \in TableFrames, i \in Indices : k[g][i].user => n[g][i].user
    <3> SUFFICES ASSUME NEW g \in TableFrames, NEW i \in Indices
                 PROVE  /\ n[g][i].frame = k[g][i].frame
                        /\ n[g][i].present = k[g][i].present
                        /\ k[g][i].user => n[g][i].user
      BY DEF SameMap
    <3>1. CASE g = DirFrame /\ i = d
      BY <2>2, <2>6, <3>1
    <3>2. CASE g # DirFrame \/ i # d
      BY <2>6, <3>2
    <3> QED BY <3>1, <3>2
  <2>8. SameMap(n, m)
    BY <1>6, <2>7 DEF SameMap
  <2>9. n[f][Slot(p)].user = (dpl # 0)
    BY <1>2, <1>5, <2>6
  <2>10. \A g \in TableFrames, i \in Indices : m[g][i].user => k[g][i].user
    <3> TAKE g \in TableFrames, i \in Indices
    <3>1. CASE g = f /\ i = Slot(p)
      BY <1>2, <1>5, <1>9, <3>1
    <3>2. CASE g # f \/ i # Slot(p)
      BY <1>5, <3>2
    <3> QED BY <3>1, <3>2
  <2> QED BY <1>7, <1>9, <2>2, <2>5, <2>6, <2>7, <2>8, <2>9, <2>10 DEF f, d
<1> QED BY <1>8, <1>9

(* What it does to a page that is mapped. *)
LevelSet(s, z, mv, p, dpl) ==
  /\ z.tlb \subseteq s.tlb /\ SameMap(z.mem, s.mem)
  /\ z.granted = IF dpl # 0 THEN s.granted \cup {p} ELSE s.granted \ {p}
  /\ z.mem[Pt(s.mem, s.tlb, p)][Slot(p)].user = (dpl # 0)
  /\ \A q \in UserPages : Table(q) \notin mv => InitialPte(z.mem, q).user =
       IF q = p THEN dpl # 0 ELSE InitialPte(s.mem, q).user
  /\ Cached(z.tlb, InitialPte(s.mem, p).frame) = {}
  /\ dpl # 0 => /\ z.mem[DirFrame][Table(p)].user
                /\ \A f \in TableFrames, i \in Indices :
                     s.mem[f][i].user => z.mem[f][i].user

(* The page that it invalidates is the one that the table of init_paging   *)
(* names, and with it nothing stale is left.                               *)
LEMMA AfterDplInv ==
  ASSUME NEW s, NEW fr, NEW mv, StoreInv(s.mem, s.tlb, fr, mv, s.dirty),
         s.tlb \subseteq tlb,
         NEW p \in UserPages, Mapped(s.mem, s.tlb, p), NEW dpl \in PrivilegeLevels,
         NEW z, z = AfterDpl(s, p, dpl)
  PROVE  StoreInv(z.mem, z.tlb, fr, mv, z.dirty) /\ LevelSet(s, z, mv, p, dpl)
<1> DEFINE n == PdeOpened(WithPte(s.mem, s.tlb, p,
                                  LevelEntry(s.mem, s.tlb, p, dpl)), p, dpl)
           q == InitialPte(s.mem, p).frame
<1> HIDE DEF n
<1>0. n = PdeOpened(WithPte(s.mem, s.tlb, p, LevelEntry(s.mem, s.tlb, p, dpl)), p, dpl)
  BY DEF n
<1>1. /\ StoreInv(n, s.tlb, fr, mv, IF dpl # 0 THEN s.dirty ELSE s.dirty \cup {p})
      /\ SameMap(n, s.mem)
      /\ n[Pt(s.mem, s.tlb, p)][Slot(p)].user = (dpl # 0)
      /\ \A x \in UserPages : Table(x) \notin mv => InitialPte(n, x).user =
           IF x = p THEN dpl # 0 ELSE InitialPte(s.mem, x).user
      /\ dpl # 0 =>
           /\ n[DirFrame][Table(p)].user
           /\ \A f \in TableFrames, i \in Indices : s.mem[f][i].user => n[f][i].user
  BY <1>0, LevelWritten
<1>2. Invalidated(n, p) = q /\ InitialPte(n, p).frame = q
  <2>1. TableFrame(Table(p)) \in TableFrames /\ Slot(p) \in Indices
    BY UserPlace, FrameKinds
  <2> QED BY <1>1, <2>1 DEF Invalidated, InitialPte, SameMap
<1>3. z = [mem |-> n, tlb |-> s.tlb \ Cached(s.tlb, q),
           granted |-> IF dpl # 0 THEN s.granted \cup {p} ELSE s.granted \ {p},
           dirty |-> (s.dirty \ {q}) \cup
             IF dpl = 0 /\ q # p THEN InTlb({p}) ELSE {}]
  BY <1>2 DEF AfterDpl, LevelEntry, n
<1> HIDE DEF q
<1>4. /\ z.mem = n /\ z.tlb = s.tlb \ Cached(s.tlb, q)
      /\ z.granted = IF dpl # 0 THEN s.granted \cup {p} ELSE s.granted \ {p}
      /\ z.dirty = (s.dirty \ {q}) \cup IF dpl = 0 /\ q # p THEN InTlb({p}) ELSE {}
  BY <1>3
<1>5. Cached(z.tlb, q) = {}
  BY <1>4 DEF Cached
<1>6. z.tlb \in SUBSET s.tlb
  BY <1>4
<1>7. StoreInv(n, z.tlb, fr, mv, z.dirty)
  <2>1. \A e \in z.tlb : e.page # q
    BY <1>5 DEF Cached
  <2>2. CASE dpl # 0
    <3>1. \A e \in z.tlb : e.page \in s.dirty => e.page \in z.dirty
      BY <1>4, <2>1, <2>2
    <3> QED BY <1>1, <1>6, <2>2, <3>1, ForgetStore
  <2>3. CASE dpl = 0
    <3>1. \A e \in z.tlb : e.page = p => p \in InTlb({p})
      BY <1>6 DEF InTlb
    <3>2. \A e \in z.tlb : e.page \in s.dirty \cup {p} => e.page \in z.dirty
      BY <1>4, <2>1, <2>3, <3>1
    <3> QED BY <1>1, <1>6, <2>3, <3>2, ForgetStore
  <2> QED BY <2>2, <2>3
<1> QED BY <1>1, <1>4, <1>5, <1>6, <1>7 DEF q, LevelSet

LEMMA AfterDplNot ==
  ASSUME NEW s, NEW p, NEW dpl, ~Mapped(s.mem, s.tlb, p)
  PROVE  AfterDpl(s, p, dpl) = s
BY DEF AfterDpl

LEMMA SetPageDplInv == PagingInv /\ SetPageDpl => PagingInv'
<1> SUFFICES ASSUME PagingInv, SetPageDpl PROVE PagingInv'
  OBVIOUS
<1>1. PICK p \in Targets, dpl \in PrivilegeLevels : Becomes(AfterDpl(Now, p, dpl))
  BY DEF SetPageDpl
<1>2. free' = free /\ moved' = moved
  BY DEF SetPageDpl
<1>3. p \in UserPages
  BY PagingAssumption
<1> DEFINE s == Now
           z == AfterDpl(s, p, dpl)
<1>4. s.mem = mem /\ s.tlb = tlb /\ s.granted = granted /\ s.dirty = dirty
  BY DEF Now
<1>5. mem' = z.mem /\ tlb' = z.tlb /\ granted' = z.granted /\ dirty' = z.dirty
  BY <1>1 DEF Becomes
<1> HIDE DEF s, z
<1>8. z = AfterDpl(s, p, dpl)
  BY DEF z
<1>6. CASE ~Mapped(s.mem, s.tlb, p)
  <2>1. z = s
    BY <1>8, <1>6, AfterDplNot
  <2> QED BY <1>2, <1>4, <1>5, <2>1 DEF PagingInv
<1>7. CASE Mapped(s.mem, s.tlb, p)
  <2>1. StoreInv(s.mem, s.tlb, free, moved, s.dirty) /\ s.tlb \subseteq tlb
    BY <1>4 DEF PagingInv
  <2>2. /\ StoreInv(z.mem, z.tlb, free, moved, z.dirty)
        /\ z.granted = IF dpl # 0 THEN s.granted \cup {p} ELSE s.granted \ {p}
        /\ \A x \in UserPages : Table(x) \notin moved => InitialPte(z.mem, x).user =
             IF x = p THEN dpl # 0 ELSE InitialPte(s.mem, x).user
    <3>1. StoreInv(z.mem, z.tlb, free, moved, z.dirty) /\ LevelSet(s, z, moved, p, dpl)
      BY <1>8, <1>3, <1>7, <2>1, AfterDplInv
    <3> QED BY <3>1 DEF LevelSet
  <2>3. GrantInv(z.mem, z.granted, moved)
    <3> SUFFICES ASSUME NEW x \in UserPages, Table(x) \notin moved,
                        InitialPte(z.mem, x).user
                 PROVE  x \in z.granted
      BY DEF GrantInv
    <3>1. CASE x = p
      BY <2>2, <3>1
    <3>2. CASE x # p
      <4>1. InitialPte(s.mem, x).user
        BY <2>2, <3>2
      <4>2. x \in s.granted
        BY <1>4, <4>1 DEF PagingInv, GrantInv
      <4> QED BY <2>2, <3>2, <4>2
    <3> QED BY <3>1, <3>2
  <2> QED BY <1>2, <1>5, <2>2, <2>3 DEF PagingInv
<1> QED BY <1>6, <1>7

----------------------------------------------------------------------------
(* The other operations.                                                   *)

LEMMA FillInv == PagingInv /\ Fill => PagingInv'
<1> SUFFICES ASSUME PagingInv, Fill PROVE PagingInv'
  OBVIOUS
<1>1. PICK p \in AllPages : Cached(tlb, p) = {} /\ tlb' = tlb \cup Walk(mem, p)
  BY DEF Fill
<1>2. UNCHANGED <<mem, free, granted, dirty, moved>>
  BY DEF Fill
<1>3. /\ mem \in [TableFrames -> Tables] /\ WindowInv(mem, tlb, free, moved)
      /\ tlb \in SUBSET Translations /\ OnePerPage(tlb)
      /\ StaleInv(mem, tlb, dirty)
  BY DEF PagingInv, StoreInv
<1> DEFINE pde == Pde(mem, p)
           pte == mem[pde.frame][Slot(p)]
<1>4. pde.frame \in TableFrames /\ pde \in Entries /\ Slot(p) \in Indices
  <2>1. Table(p) \in Indices /\ Slot(p) \in Indices
    BY PageParts
  <2>2. CASE Table(p) \in Dirs
    BY <1>3, <2>1, <2>2, FrameKinds DEF WindowInv, Seen, Pde, Tables
  <2>3. CASE Table(p) \notin Dirs
    <3>1. pde = Entry(DirFrame, FALSE)
      BY <1>3, <2>3, PageParts DEF WindowInv, Pde
    <3>2. pde.frame = DirFrame
      BY <3>1 DEF Entry
    <3>3. pde \in Entries
      BY <1>3, <2>1, FrameKinds DEF Pde, Tables
    <3> QED BY <2>1, <3>2, <3>3, FrameKinds
  <2> QED BY <2>2, <2>3
<1>5. pte \in Entries
  BY <1>3, <1>4 DEF Tables
<1>6. \A w \in Walk(mem, p) :
        /\ pde.present /\ pte.present
        /\ w = [page |-> p, frame |-> pte.frame, user |-> pde.user /\ pte.user]
  BY DEF Walk
<1> HIDE DEF pde, pte
<1>7. \A w \in Walk(mem, p) : w \in Translations /\ w.page = p
  BY <1>4, <1>5, <1>6 DEF Translations, Entries
<1>8. tlb' \in SUBSET Translations
  BY <1>1, <1>3, <1>7
<1>9. OnePerPage(tlb')
  <2> SUFFICES ASSUME NEW a \in tlb', NEW b \in tlb', a.page = b.page PROVE a = b
    BY DEF OnePerPage
  <2>1. CASE a.page = p
    <3>1. a \in Walk(mem, p) /\ b \in Walk(mem, p)
      BY <1>1, <2>1 DEF Cached
    <3> QED BY <1>6, <3>1
  <2>2. CASE a.page # p
    <3>1. a \in tlb /\ b \in tlb
      BY <1>1, <1>7, <2>2
    <3> QED BY <1>3, <3>1 DEF OnePerPage
  <2> QED BY <2>1, <2>2
<1>10. \A d \in Dirs : Seen(mem, tlb', d) = Seen(mem, tlb, d)
  <2> TAKE d \in Dirs
  <2>1. CASE p = WindowPage(d)
    <3>1. mem[DirFrame][E - 1] = Entry(DirFrame, FALSE)
      BY <1>3 DEF WindowInv
    <3>2. \A w \in Walk(mem, p) : w.frame = mem[DirFrame][d].frame
      <4>1. Walk(mem, WindowPage(d)) =
              IF mem[DirFrame][d].present
              THEN {[page |-> WindowPage(d), frame |-> mem[DirFrame][d].frame,
                     user |-> FALSE]}
              ELSE {}
        BY <3>1, WindowWalk
      <4> QED BY <2>1, <4>1
    <3> QED BY <1>1, <3>2 DEF Seen, Cached
  <2>2. CASE p # WindowPage(d)
    <3>1. Cached(tlb', WindowPage(d)) = Cached(tlb, WindowPage(d))
      BY <1>1, <1>7, <2>2 DEF Cached
    <3> QED BY <3>1 DEF Seen
  <2> QED BY <2>1, <2>2
<1>11. WindowInv(mem, tlb', free, moved)
  BY <1>3, <1>10 DEF WindowInv
<1>12. StaleInv(mem, tlb', dirty)
  <2> SUFFICES ASSUME NEW e \in tlb', e.page \notin dirty
               PROVE  AsTheTablesSay(mem, e)
    BY DEF StaleInv
  <2>1. CASE e \in tlb
    BY <1>3, <2>1 DEF StaleInv
  <2>2. CASE e \in Walk(mem, p)
    BY <1>7, <2>2 DEF AsTheTablesSay
  <2> QED BY <1>1, <2>1, <2>2
<1> QED BY <1>2, <1>3, <1>8, <1>9, <1>11, <1>12 DEF PagingInv, StoreInv, GrantInv

LEMMA EvictInv == PagingInv /\ Evict => PagingInv'
<1> SUFFICES ASSUME PagingInv, Evict PROVE PagingInv'
  OBVIOUS
<1>1. PICK e \in tlb : tlb' = tlb \ {e} /\ dirty' = dirty \ {e.page}
  BY DEF Evict
<1>2. UNCHANGED <<mem, free, granted, moved>>
  BY DEF Evict
<1>3. StoreInv(mem, tlb, free, moved, dirty)
  BY DEF PagingInv
<1>4. tlb' \in SUBSET tlb /\ \A u \in tlb' : u.page \in dirty => u.page \in dirty'
  BY <1>1, <1>3 DEF StoreInv, OnePerPage
<1>5. StoreInv(mem, tlb', free, moved, dirty')
  BY <1>3, <1>4, ForgetStore
<1> QED BY <1>2, <1>5 DEF PagingInv, GrantInv

(* What InTlb adds to the pages that may be stale. *)
LEMMA InTlbCovers ==
  ASSUME NEW S, NEW e \in tlb, e.page \in S
  PROVE  e.page \in InTlb(S)
BY DEF InTlb

LEMMA PagesOfTableCover ==
  ASSUME tlb \in SUBSET Translations, NEW e \in tlb
  PROVE  e.page \in PagesOfTable(Table(e.page))
BY PageParts DEF Translations

(* The directory's entry of a user page. *)
LEMMA PdeParts ==
  ASSUME NEW m \in [TableFrames -> Tables], NEW p \in UserPages
  PROVE  Table(p) \in Dirs /\ Pde(m, p) \in Entries
BY UserPlace, FrameKinds DEF Pde, Tables

LEMMA SetPageTableDplInv == PagingInv /\ SetPageTableDpl => PagingInv'
<1> SUFFICES ASSUME PagingInv, SetPageTableDpl PROVE PagingInv'
  OBVIOUS
<1>1. free' = free /\ moved' = moved
  BY DEF SetPageTableDpl
<1>2. PICK p \in TableTargets, dpl \in PrivilegeLevels :
        IF ~Pde(mem, p).present THEN Nothing
        ELSE /\ mem' = [mem EXCEPT ![DirFrame][Table(p)].user = (dpl # 0)]
             /\ dirty' = dirty \cup
                  IF dpl = 0 THEN InTlb(PagesOfTable(Table(p))) ELSE {}
             /\ UNCHANGED <<tlb, granted>>
  BY DEF SetPageTableDpl
<1>3. p \in UserPages
  BY PagingAssumption
<1>4. /\ StoreInv(mem, tlb, free, moved, dirty) /\ mem \in [TableFrames -> Tables]
      /\ tlb \in SUBSET Translations /\ WindowInv(mem, tlb, free, moved)
  BY DEF PagingInv, StoreInv
<1>5. CASE ~Pde(mem, p).present
  BY <1>1, <1>2, <1>5 DEF Nothing, PagingInv, GrantInv
<1>6. CASE Pde(mem, p).present
  <2> DEFINE d == Table(p)
             entry == [mem[DirFrame][d] EXCEPT !.user = (dpl # 0)]
  <2>1. d \in Dirs /\ mem[DirFrame][d] \in Entries
    BY <1>3, <1>4, PdeParts DEF Pde
  <2>2. /\ entry \in Entries /\ entry.frame = mem[DirFrame][d].frame
        /\ entry.present = mem[DirFrame][d].present /\ entry.user = (dpl # 0)
    BY <2>1 DEF Entries
  <2>3. mem' = DirWritten(mem, d, entry) /\ UNCHANGED <<tlb, granted>>
    BY <1>2, <1>6 DEF DirWritten
  <2>4. dirty' = dirty \cup IF dpl = 0 THEN InTlb(PagesOfTable(d)) ELSE {}
    BY <1>2, <1>6
  <2> HIDE DEF entry, d
  <2>5. dpl = 0 => \A e \in tlb : Table(e.page) = d => e.page \in dirty'
    BY <1>4, <2>4, InTlbCovers, PagesOfTableCover
  <2>6. StoreInv(mem', tlb, free, moved, dirty')
    <3>1. \A e \in tlb : e.page \in dirty => e.page \in dirty'
      BY <2>4
    <3>2. \/ mem[DirFrame][d].user => entry.user
          \/ \A e \in tlb : Table(e.page) = d => e.page \in dirty'
      BY <2>2, <2>5
    <3> QED BY <1>4, <2>1, <2>2, <2>3, <3>1, <3>2, LevelInv
  <2>7. \A q \in UserPages : InitialPte(mem', q) = InitialPte(mem, q)
    BY <1>4, <2>1, <2>2, <2>3, DirStore
  <2>8. GrantInv(mem', granted, moved)
    BY <2>7 DEF PagingInv, GrantInv
  <2> QED BY <1>1, <2>3, <2>6, <2>8 DEF PagingInv
<1> QED BY <1>5, <1>6

(* A level goes with an entry that is written. *)
LEMMA WriteGrant ==
  ASSUME NEW m \in [TableFrames -> Tables], NEW t, NEW fr, NEW mv, NEW g,
         WindowInv(m, t, fr, mv), GrantInv(m, g, mv), NEW p \in UserPages,
         NEW f \in Seen(m, t, Table(p)), NEW entry \in Entries,
         NEW n, n = Written(m, f, p, entry),
         NEW h, \A q \in UserPages : q # p /\ q \in g => q \in h,
         Table(p) \notin mv /\ entry.user => p \in h
  PROVE  GrantInv(n, h, mv)
<1> SUFFICES ASSUME NEW q \in UserPages, Table(q) \notin mv, InitialPte(n, q).user
             PROVE  q \in h
  BY DEF GrantInv
<1>1. CASE q = p
  <2>1. Table(p) \in Dirs /\ Slot(p) \in Indices
    BY UserPlace
  <2>2. TableFrame(Table(p)) = f /\ f \in TableFrames
    BY <1>1, <2>1 DEF WindowInv
  <2>3. n[f][Slot(p)] = entry
    BY <2>1, <2>2 DEF Written, Tables
  <2> QED BY <1>1, <2>2, <2>3 DEF InitialPte
<1>2. CASE q # p
  <2>1. InitialPte(n, q) = InitialPte(m, q)
    BY <1>2, WriteStore
  <2> QED BY <1>2, <2>1 DEF GrantInv
<1> QED BY <1>1, <1>2

(* An entry that is written through the window, and what map_page          *)
(* invalidates afterwards.                                                 *)
LEMMA MappedInv ==
  ASSUME NEW m, NEW fr, NEW mv, NEW dt, StoreInv(m, tlb, fr, mv, dt),
         NEW g, GrantInv(m, g, mv), NEW p \in UserPages,
         NEW f \in Seen(m, tlb, Table(p)), NEW entry \in Entries,
         NEW n, n = Written(m, f, p, entry),
         NEW h, \A q \in UserPages : q # p /\ q \in g => q \in h,
         Table(p) \notin mv /\ entry.user => p \in h,
         NEW u \in SUBSET tlb,
         NEW du, \A e \in u : e.page \in dt \/ e.page = p => e.page \in du
  PROVE  StoreInv(n, u, fr, mv, du) /\ GrantInv(n, h, mv)
<1>1. m \in [TableFrames -> Tables] /\ WindowInv(m, tlb, fr, mv)
  BY DEF StoreInv
<1> DEFINE dv == dt \cup {p}
<1>2. /\ \A e \in tlb : e.page \in dt \/ e.page = p => e.page \in dv
      /\ \A e \in u : e.page \in dv => e.page \in du
  OBVIOUS
<1> HIDE DEF dv
<1>3. StoreInv(n, tlb, fr, mv, dv)
  BY <1>2, WriteInv
<1>4. StoreInv(n, u, fr, mv, du)
  BY <1>2, <1>3, ForgetStore
<1> QED BY <1>1, <1>4, WriteGrant

LEMMA UnmapPageInv == PagingInv /\ UnmapPage => PagingInv'
<1> SUFFICES ASSUME PagingInv, UnmapPage PROVE PagingInv'
  OBVIOUS
<1>1. PICK p \in Targets :
        IF OfKernel(p) THEN Nothing ELSE SetPagePresent(p, FALSE)
  BY DEF UnmapPage
<1>2. free' = free /\ p \in UserPages
  BY PagingAssumption DEF UnmapPage
<1>3. CASE Nothing
  BY <1>2, <1>3 DEF Nothing, PagingInv, GrantInv
<1>4. CASE ~Nothing
  <2> DEFINE f == Pt(mem, tlb, p)
             entry == [Pte(mem, tlb, p) EXCEPT !.present = FALSE]
  <2>1. /\ Mapped(mem, tlb, p)
        /\ mem' = WithPte(mem, tlb, p, entry) /\ dirty' = dirty \cup InTlb({p})
        /\ UNCHANGED <<tlb, granted, moved>>
    BY <1>1, <1>4 DEF SetPagePresent
  <2>2. StoreInv(mem, tlb, free, moved, dirty) /\ GrantInv(mem, granted, moved)
    BY DEF PagingInv
  <2>3. f \in Seen(mem, tlb, Table(p)) /\ Pte(mem, tlb, p) \in Entries
    <3>1. 0 \in PrivilegeLevels
      BY DEF PrivilegeLevels
    <3> QED BY <1>2, <2>1, <2>2, <3>1, LevelEntryParts
  <2>4. entry \in Entries /\ entry.user = Pte(mem, tlb, p).user
    BY <2>3 DEF Entries
  <2>5. Table(p) \notin moved /\ entry.user => p \in granted
    <3>1. Table(p) \in Dirs
      BY <1>2, UserPlace
    <3>2. Table(p) \notin moved => f = TableFrame(Table(p))
      BY <2>2, <2>3, <3>1 DEF StoreInv, WindowInv
    <3> QED BY <1>2, <2>2, <2>4, <3>2 DEF GrantInv, InitialPte, Pte
  <2>6. mem' = Written(mem, f, p, entry)
    BY <2>1 DEF WithPte, Written
  <2> HIDE DEF f, entry
  <2>7. /\ tlb \in SUBSET tlb
        /\ \A e \in tlb : e.page \in dirty \/ e.page = p => e.page \in dirty'
    BY <2>1, InTlbCovers
  <2>8. StoreInv(mem', tlb, free, moved, dirty') /\ GrantInv(mem', granted, moved)
    BY <1>2, <2>2, <2>3, <2>4, <2>5, <2>6, <2>7, MappedInv
  <2> QED BY <1>2, <2>1, <2>8 DEF PagingInv
<1> QED BY <1>3, <1>4

LEMMA SwapPageInv == PagingInv /\ SwapPage => PagingInv'
<1> SUFFICES ASSUME PagingInv, SwapPage PROVE PagingInv'
  OBVIOUS
<1>1. PICK p \in Targets, frame \in PhysFrames, dpl \in PrivilegeLevels :
        IF \/ ~Mapped(mem, tlb, p) \/ OfKernel(p)
           \/ OfKernel(Pte(mem, tlb, p).frame)
        THEN Nothing
        ELSE /\ mem' = WithPte(mem, tlb, p, Entry(frame, dpl # 0))
             /\ granted' = Grant(p, dpl)
             /\ dirty' = dirty \cup InTlb({p})
             /\ UNCHANGED tlb
  BY DEF SwapPage
<1>2. free' = free /\ moved' = moved /\ p \in UserPages /\ frame \in Int
  BY PagingAssumption DEF SwapPage
<1>3. CASE Nothing
  BY <1>2, <1>3 DEF Nothing, PagingInv, GrantInv
<1>4. CASE ~Nothing
  <2> DEFINE f == Pt(mem, tlb, p)
             entry == Entry(frame, dpl # 0)
  <2>1. /\ Mapped(mem, tlb, p)
        /\ mem' = WithPte(mem, tlb, p, entry) /\ granted' = Grant(p, dpl)
        /\ dirty' = dirty \cup InTlb({p}) /\ UNCHANGED tlb
    BY <1>1, <1>4
  <2>2. StoreInv(mem, tlb, free, moved, dirty) /\ GrantInv(mem, granted, moved)
    BY DEF PagingInv
  <2>3. f \in Seen(mem, tlb, Table(p))
    BY <1>2, <2>1, <2>2, LevelEntryParts
  <2>4. entry \in Entries /\ entry.user = (dpl # 0)
    BY <1>2 DEF Entries, Entry
  <2>5. /\ \A q \in UserPages : q # p /\ q \in granted => q \in granted'
        /\ entry.user => p \in granted'
    BY <2>1, <2>4 DEF Grant
  <2>6. mem' = Written(mem, f, p, entry)
    BY <2>1 DEF WithPte, Written
  <2> HIDE DEF f, entry
  <2>7. /\ tlb \in SUBSET tlb
        /\ \A e \in tlb : e.page \in dirty \/ e.page = p => e.page \in dirty'
    BY <2>1, InTlbCovers
  <2>8. StoreInv(mem', tlb, free, moved, dirty') /\ GrantInv(mem', granted', moved)
    BY <1>2, <2>2, <2>3, <2>4, <2>5, <2>6, <2>7, MappedInv
  <2> QED BY <1>2, <2>1, <2>8 DEF PagingInv
<1> QED BY <1>3, <1>4

(* What is not invalidated when the entry of a table changes. *)
LEMMA TableCovered ==
  ASSUME tlb \in SUBSET Translations, NEW d, NEW e \in tlb,
         Table(e.page) = d \/ e.page = WindowPage(d)
  PROVE  e.page \in InTlb(PagesOfTable(d) \cup {WindowPage(d)})
<1>1. e.page \in PagesOfTable(d) \cup {WindowPage(d)}
  BY PagesOfTableCover
<1> QED BY <1>1, InTlbCovers

LEMMA UnmapPageTableInv == PagingInv /\ UnmapPageTable => PagingInv'
<1> SUFFICES ASSUME PagingInv, UnmapPageTable PROVE PagingInv'
  OBVIOUS
<1>1. PICK p \in TableTargets :
        IF OfKernel(p) THEN Nothing ELSE SetPageTablePresent(p, FALSE)
  BY DEF UnmapPageTable
<1>2. free' = free /\ p \in UserPages
  BY PagingAssumption DEF UnmapPageTable
<1>3. CASE Nothing
  BY <1>2, <1>3 DEF Nothing, PagingInv, GrantInv
<1>4. CASE ~Nothing
  <2> DEFINE d == Table(p)
             entry == [Pde(mem, p) EXCEPT !.present = FALSE]
  <2>1. NewPde(p, WithPde(mem, p, entry))
    BY <1>1, <1>4 DEF SetPageTablePresent
  <2>2. /\ mem' = WithPde(mem, p, entry) /\ moved' = moved \cup {d}
        /\ UNCHANGED <<tlb, granted>>
        /\ dirty' = dirty \cup InTlb(PagesOfTable(d) \cup {WindowPage(d)})
    BY <2>1 DEF NewPde
  <2>3. /\ StoreInv(mem, tlb, free, moved, dirty) /\ mem \in [TableFrames -> Tables]
        /\ tlb \in SUBSET Translations /\ WindowInv(mem, tlb, free, moved)
        /\ GrantInv(mem, granted, moved)
    BY DEF PagingInv, StoreInv
  <2>4. d \in Dirs /\ d \in Indices /\ Pde(mem, p) \in Entries
    BY <1>2, <2>3, PdeParts, UserPlace
  <2>5. entry \in Entries /\ entry.frame = mem[DirFrame][d].frame
    BY <2>4 DEF Entries, Pde
  <2>6. mem' = DirWritten(mem, d, entry)
    BY <2>2 DEF DirWritten, WithPde
  <2>7. \A e \in tlb : e.page \in dirty \/ Table(e.page) = d
                         \/ e.page = WindowPage(d) => e.page \in dirty'
    <3> SUFFICES ASSUME NEW e \in tlb, Table(e.page) = d \/ e.page = WindowPage(d)
                 PROVE  e.page \in dirty'
      BY <2>2
    <3>1. e.page \in InTlb(PagesOfTable(d) \cup {WindowPage(d)})
      BY <2>3, TableCovered
    <3> QED BY <2>2, <3>1
  <2> HIDE DEF d, entry
  <2>8. StoreInv(mem', tlb, free, moved \cup {d}, dirty')
    BY <2>3, <2>4, <2>5, <2>6, <2>7, PresenceInv
  <2>9. \A q \in UserPages : InitialPte(mem', q) = InitialPte(mem, q)
    BY <2>3, <2>4, <2>5, <2>6, DirStore
  <2>10. GrantInv(mem', granted, moved')
    BY <2>2, <2>3, <2>9 DEF GrantInv
  <2>11. StoreInv(mem', tlb', free', moved', dirty') /\ moved' \subseteq Indices
    BY <1>2, <2>2, <2>4, <2>8 DEF PagingInv
  <2> QED BY <1>2, <2>2, <2>10, <2>11 DEF PagingInv
<1> QED BY <1>3, <1>4

LEMMA EmptyTableType == EmptyTable \in Tables
BY DEF EmptyTable, Tables, Entries

LEMMA SwapPageTableInv == PagingInv /\ SwapPageTable => PagingInv'
<1> SUFFICES ASSUME PagingInv, SwapPageTable PROVE PagingInv'
  OBVIOUS
<1>1. PICK p \in TableTargets, frame \in free, dpl \in PrivilegeLevels :
        IF ~Pde(mem, p).present \/ OfKernel(Pde(mem, p).frame) \/ OfKernel(p)
        THEN Nothing /\ UNCHANGED free
        ELSE /\ NewPde(p, [WithPde(mem, p, Entry(frame, dpl # 0)) EXCEPT
                             ![frame] = EmptyTable])
             /\ free' = free \ {frame}
  BY DEF SwapPageTable
<1>2. p \in UserPages
  BY PagingAssumption
<1>3. CASE Nothing /\ UNCHANGED free
  BY <1>2, <1>3 DEF Nothing, PagingInv, GrantInv
<1>4. CASE ~(Nothing /\ UNCHANGED free)
  <2> DEFINE d == Table(p)
             entry == Entry(frame, dpl # 0)
             n == [WithPde(mem, p, entry) EXCEPT ![frame] = EmptyTable]
  <2>1. NewPde(p, n) /\ free' = free \ {frame}
    BY <1>1, <1>4
  <2>2. /\ mem' = n /\ moved' = moved \cup {d} /\ UNCHANGED <<tlb, granted>>
        /\ dirty' = dirty \cup InTlb(PagesOfTable(d) \cup {WindowPage(d)})
    BY <2>1 DEF NewPde
  <2>3. /\ StoreInv(mem, tlb, free, moved, dirty)
        /\ tlb \in SUBSET Translations /\ free \in SUBSET KmallocFrames
        /\ GrantInv(mem, granted, moved) /\ moved \subseteq Indices
    BY DEF PagingInv, StoreInv
  <2>4. d \in Dirs /\ d \in Indices
    BY <1>2, UserPlace
  <2>5. entry \in Entries /\ entry.frame = frame
    <3>1. frame \in Int
      BY <2>3, PagingAssumption
    <3> QED BY <3>1 DEF Entries, Entry
  <2>6. mem' = TableWritten(mem, d, entry, frame, EmptyTable)
    BY <2>2 DEF TableWritten, DirWritten, WithPde
  <2>7. \A e \in tlb : e.page \in dirty \/ Table(e.page) = d
                         \/ e.page = WindowPage(d) => e.page \in dirty'
    <3> SUFFICES ASSUME NEW e \in tlb, Table(e.page) = d \/ e.page = WindowPage(d)
                 PROVE  e.page \in dirty'
      BY <2>2
    <3>1. e.page \in InTlb(PagesOfTable(d) \cup {WindowPage(d)})
      BY <2>3, TableCovered
    <3> QED BY <2>2, <3>1
  <2>11. Covered(tlb, dirty, d, dirty')
    BY <2>7 DEF Covered
  <2> HIDE DEF d, entry, n
  <2>8. Refreshed(mem, mem', tlb, free \ {frame}, moved \cup {d}, d, entry, dirty')
    BY <2>3, <2>4, <2>5, <2>6, <2>11, EmptyTableType, FreshInv
  <2>9. GrantInv(mem', granted, moved')
    BY <2>2, <2>3, <2>8 DEF GrantInv, Refreshed
  <2>10. StoreInv(mem', tlb', free', moved', dirty') /\ moved' \subseteq Indices
    BY <2>1, <2>2, <2>3, <2>4, <2>8 DEF Refreshed
  <2> QED BY <2>1, <2>2, <2>3, <2>9, <2>10 DEF PagingInv
<1> QED BY <1>3, <1>4

(* A table that map_page needs: what was there before, or what kmalloc     *)
(* gave.  Of a table that is not there nothing but stale entries is known. *)
LEMMA WithTableInv ==
  ASSUME PagingInv, NEW p \in UserPages, NEW dpl \in PrivilegeLevels,
         NEW new \in WithTable(p, dpl)
  PROVE  /\ StoreInv(new[1], tlb, new[2], moved, dirty)
         /\ GrantInv(new[1], granted, moved)
         /\ new[2] \subseteq KmallocFrames
         /\ new[1][DirFrame][Table(p)].present
         /\ Pde(mem, p).present => new = <<mem, free>>
         /\ \A q \in UserPages : InitialPte(new[1], q) = InitialPte(mem, q)
<1>1. /\ StoreInv(mem, tlb, free, moved, dirty) /\ StaleInv(mem, tlb, dirty)
      /\ WindowInv(mem, tlb, free, moved)
      /\ tlb \in SUBSET Translations /\ free \in SUBSET KmallocFrames
      /\ GrantInv(mem, granted, moved)
  BY DEF PagingInv, StoreInv
<1>2. CASE Pde(mem, p).present
  BY <1>1, <1>2 DEF WithTable, Pde
<1>3. CASE ~Pde(mem, p).present
  <2>1. PICK f \in free, c \in KmallocContents :
          new = <<[WithPde(mem, p, Entry(f, dpl # 0)) EXCEPT ![f] = c], free \ {f}>>
    BY <1>3 DEF WithTable
  <2> DEFINE d == Table(p)
             entry == Entry(f, dpl # 0)
             n == new[1]
  <2>2. n = TableWritten(mem, d, entry, f, c) /\ new[2] = free \ {f}
    BY <2>1 DEF TableWritten, DirWritten, WithPde
  <2>3. d \in Dirs /\ d \in Indices
    BY UserPlace
  <2>4. entry \in Entries /\ entry.frame = f
    <3>1. f \in Int
      BY <1>1, PagingAssumption
    <3> QED BY <3>1 DEF Entries, Entry
  <2>13. entry.present
    BY DEF Entry
  <2>5. c \in Tables
    BY PagingAssumption DEF Tables
  <2>6. mem[DirFrame][d].present = FALSE \/ ~mem[DirFrame][d].present
    BY <1>3 DEF Pde
  <2>7. d \in moved
    BY <1>1, <2>3, <2>6 DEF WindowInv
  <2>8. ASSUME NEW e \in tlb, Table(e.page) = d \/ e.page = WindowPage(d)
        PROVE  e.page \in dirty
    <3>1. Walk(mem, e.page) = {}
      <4>1. CASE Table(e.page) = d
        BY <2>6, <4>1 DEF Walk, Pde
      <4>2. CASE e.page = WindowPage(d)
        <5>1. mem[DirFrame][E - 1] = Entry(DirFrame, FALSE)
          BY <1>1 DEF WindowInv
        <5> QED BY <2>3, <2>6, <4>2, <5>1, WindowWalk
      <4> QED BY <2>8, <4>1, <4>2
    <3> QED BY <1>1, <3>1 DEF StaleInv, AsTheTablesSay
  <2> HIDE DEF d, entry, n
  <2>9. Covered(tlb, dirty, d, dirty)
    BY <2>8 DEF Covered
  <2>10. Refreshed(mem, n, tlb, free \ {f}, moved \cup {d}, d, entry, dirty)
    <3>1. PICK table \in Tables : table = c
      BY <2>5
    <3>2. n = TableWritten(mem, d, entry, f, table)
      BY <2>2, <3>1
    <3>3. d \in Dirs /\ StoreInv(mem, tlb, free, moved, dirty)
          /\ free \in SUBSET KmallocFrames
      BY <1>1, <2>3
    <3> QED BY <2>4, <2>9, <3>2, <3>3, FreshInv
  <2>11. moved \cup {d} = moved
    BY <2>7
  <2>12. GrantInv(n, granted, moved)
    BY <1>1, <2>10 DEF GrantInv, Refreshed
  <2> QED BY <1>1, <1>3, <2>2, <2>13, <2>10, <2>11, <2>12 DEF n, d, Pde, Refreshed
<1> QED BY <1>2, <1>3

LEMMA MapPageInv == PagingInv /\ MapPage => PagingInv'
<1> SUFFICES ASSUME PagingInv, MapPage PROVE PagingInv'
  OBVIOUS
<1>6. PICK p \in Targets, frame \in PhysFrames, dpl \in PrivilegeLevels,
           force \in BOOLEAN :
        \E new \in WithTable(p, dpl) :
          LET m == new[1]
              keep == Pte(m, tlb, p).present /\ ~force
          IN /\ free' = new[2]
             /\ mem' = IF keep THEN m ELSE WithPte(m, tlb, p, Entry(frame, dpl # 0))
             /\ IF keep THEN UNCHANGED <<tlb, granted, dirty>>
                ELSE /\ tlb' = tlb \ Cached(tlb, frame)
                     /\ granted' = Grant(p, dpl)
                     /\ dirty' = (dirty \cup InTlb({p})) \ {frame}
  BY ZenonT(60) DEF MapPage
<1>1. PICK new \in WithTable(p, dpl) :
        /\ free' = new[2]
        /\ mem' = IF Pte(new[1], tlb, p).present /\ ~force THEN new[1]
                  ELSE WithPte(new[1], tlb, p, Entry(frame, dpl # 0))
        /\ IF Pte(new[1], tlb, p).present /\ ~force
           THEN UNCHANGED <<tlb, granted, dirty>>
           ELSE /\ tlb' = tlb \ Cached(tlb, frame)
                /\ granted' = Grant(p, dpl)
                /\ dirty' = (dirty \cup InTlb({p})) \ {frame}
  BY <1>6
<1>2. moved' = moved /\ p \in UserPages /\ frame \in Int
  BY PagingAssumption DEF MapPage
<1>3. /\ StoreInv(new[1], tlb, new[2], moved, dirty)
      /\ GrantInv(new[1], granted, moved)
      /\ new[2] \subseteq KmallocFrames /\ new[1][DirFrame][Table(p)].present
  BY <1>2, WithTableInv
<1>4. CASE Pte(new[1], tlb, p).present /\ ~force
  BY <1>1, <1>2, <1>3, <1>4 DEF PagingInv, GrantInv
<1>5. CASE ~(Pte(new[1], tlb, p).present /\ ~force)
  <2>10. PICK m, fr : m = new[1] /\ fr = new[2]
    OBVIOUS
  <2> DEFINE f == Pt(m, tlb, p)
             entry == Entry(frame, dpl # 0)
  <2>1. /\ free' = fr /\ mem' = WithPte(m, tlb, p, entry)
        /\ tlb' = tlb \ Cached(tlb, frame) /\ granted' = Grant(p, dpl)
        /\ dirty' = (dirty \cup InTlb({p})) \ {frame}
    BY <1>1, <1>5, <2>10
  <2>2. StoreInv(m, tlb, fr, moved, dirty) /\ GrantInv(m, granted, moved)
    BY <1>3, <2>10
  <2>3. f \in Seen(m, tlb, Table(p))
    <3>1. m[DirFrame][E - 1] = Entry(DirFrame, FALSE)
      BY <2>2 DEF StoreInv, WindowInv
    <3> QED BY <1>2, <1>3, <2>10, <3>1, PtIsSeen
  <2>4. entry \in Entries /\ entry.user = (dpl # 0)
    BY <1>2 DEF Entries, Entry
  <2>5. /\ \A q \in UserPages : q # p /\ q \in granted => q \in granted'
        /\ entry.user => p \in granted'
    BY <2>1, <2>4 DEF Grant
  <2>6. mem' = Written(m, f, p, entry)
    BY <2>1 DEF WithPte, Written
  <2>7. /\ tlb' \in SUBSET tlb
        /\ \A e \in tlb' : e.page \in dirty \/ e.page = p => e.page \in dirty'
    <3>1. \A e \in tlb' : e.page # frame /\ e \in tlb
      BY <2>1 DEF Cached
    <3>2. \A e \in tlb : e.page \in dirty \/ e.page = p =>
                           e.page \in dirty \cup InTlb({p})
      BY InTlbCovers
    <3> QED BY <2>1, <3>1, <3>2
  <2> HIDE DEF f, entry
  <2>8. StoreInv(mem', tlb', fr, moved, dirty') /\ GrantInv(mem', granted', moved)
    <3>1. PICK k \in Entries : k = entry
      BY <2>4
    <3>2. /\ mem' = Written(m, f, p, k)
          /\ Table(p) \notin moved /\ k.user => p \in granted'
      BY <2>5, <2>6, <3>1
    <3> QED BY <1>2, <2>2, <2>3, <2>5, <2>7, <3>2, MappedInv
  <2>9. fr \subseteq KmallocFrames /\ moved \subseteq Indices
    BY <1>3, <2>10 DEF PagingInv
  <2> QED BY <1>2, <2>1, <2>8, <2>9 DEF PagingInv
<1> QED BY <1>4, <1>5
----------------------------------------------------------------------------
(* set_memory_range_dpl: what is true after some of its pages.             *)

(* The window shows the table that the directory says, before and after    *)
(* any number of pages were set.                                           *)
ClearView(d) == d \notin moved \/ WindowPage(d) \notin dirty

LEMMA OneTable ==
  ASSUME PagingInv, NEW s, SameMap(s.mem, mem), s.tlb \subseteq tlb,
         NEW d \in Dirs, ClearView(d)
  PROVE  Seen(s.mem, s.tlb, d) = {mem[DirFrame][d].frame}
<1>1. /\ WindowInv(mem, tlb, free, moved) /\ StaleInv(mem, tlb, dirty)
      /\ d \in Indices
  BY SizeOfTables DEF PagingInv, StoreInv
<1>2. s.mem[DirFrame][d].frame = mem[DirFrame][d].frame
  BY <1>1, FrameKinds DEF SameMap
<1>3. \A e \in Cached(tlb, WindowPage(d)) : e.frame = mem[DirFrame][d].frame
  <2>1. CASE d \notin moved
    BY <1>1, <2>1 DEF WindowInv, Seen
  <2>2. CASE WindowPage(d) \notin dirty
    <3> TAKE e \in Cached(tlb, WindowPage(d))
    <3>1. e \in tlb /\ e.page = WindowPage(d)
      BY DEF Cached
    <3>2. PICK w \in Walk(mem, WindowPage(d)) : w.frame = e.frame
      BY <1>1, <2>2, <3>1 DEF StaleInv, AsTheTablesSay
    <3>3. mem[DirFrame][E - 1] = Entry(DirFrame, FALSE)
      BY <1>1 DEF WindowInv
    <3>4. w.frame = mem[DirFrame][d].frame
      <4>1. Walk(mem, WindowPage(d)) =
              IF mem[DirFrame][d].present
              THEN {[page |-> WindowPage(d), frame |-> mem[DirFrame][d].frame,
                     user |-> FALSE]}
              ELSE {}
        BY <3>3, WindowWalk
      <4> QED BY <4>1
    <3> QED BY <3>2, <3>4
  <2> QED BY <2>1, <2>2 DEF ClearView
<1>4. \A e \in Cached(s.tlb, WindowPage(d)) : e \in Cached(tlb, WindowPage(d))
  BY DEF Cached
<1> QED BY <1>2, <1>3, <1>4 DEF Seen

LEMMA SameTable ==
  ASSUME PagingInv, NEW s, NEW fr, NEW mv, NEW dt,
         StoreInv(s.mem, s.tlb, fr, mv, dt),
         SameMap(s.mem, mem), s.tlb \subseteq tlb,
         NEW p \in UserPages, ClearView(Table(p))
  PROVE  /\ Mapped(s.mem, s.tlb, p) <=> Mapped(mem, tlb, p)
         /\ Mapped(mem, tlb, p) =>
              Pt(s.mem, s.tlb, p) = mem[DirFrame][Table(p)].frame
<1> DEFINE g == mem[DirFrame][Table(p)].frame
<1>1. /\ Table(p) \in Dirs /\ Table(p) \in Indices /\ Slot(p) \in Indices
      /\ WindowInv(mem, tlb, free, moved) /\ WindowInv(s.mem, s.tlb, fr, mv)
  BY UserPlace DEF PagingInv, StoreInv
<1>2. SameMap(mem, mem) /\ tlb \subseteq tlb
  BY DEF SameMap
<1>3. Seen(s.mem, s.tlb, Table(p)) = {g}
  BY <1>1, OneTable
<1>4. Seen(mem, tlb, Table(p)) = {g}
  <2>1. Now.mem = mem /\ Now.tlb = tlb
    BY DEF Now
  <2>2. SameMap(Now.mem, mem) /\ Now.tlb \subseteq tlb
    BY <1>2, <2>1
  <2>3. Seen(Now.mem, Now.tlb, Table(p)) = {g}
    BY <1>1, <2>2, OneTable
  <2> QED BY <2>1, <2>3
<1>5. g \in TableFrames
  BY <1>1, <1>4 DEF WindowInv
<1> HIDE DEF g
<1>6. /\ s.mem[DirFrame][Table(p)].present = mem[DirFrame][Table(p)].present
      /\ s.mem[g][Slot(p)].present = mem[g][Slot(p)].present
  BY <1>1, <1>5, FrameKinds DEF SameMap
<1>7. mem[DirFrame][Table(p)].present => Pt(mem, tlb, p) = g
  <2> HAVE mem[DirFrame][Table(p)].present
  <2>1. Pt(mem, tlb, p) \in Seen(mem, tlb, Table(p))
    BY <1>1, PtIsSeen DEF WindowInv
  <2> QED BY <1>4, <2>1
<1>8. s.mem[DirFrame][Table(p)].present => Pt(s.mem, s.tlb, p) = g
  <2> HAVE s.mem[DirFrame][Table(p)].present
  <2>1. Pt(s.mem, s.tlb, p) \in Seen(s.mem, s.tlb, Table(p))
    BY <1>1, PtIsSeen DEF WindowInv
  <2> QED BY <1>3, <2>1
<1> QED BY <1>6, <1>7, <1>8 DEF Mapped, Pde, Pte, g
(* The pages V were set: each is open or closed as it was asked for, the   *)
(* others are as they were.                                                *)
Opened(z, p) ==
  /\ z.mem[DirFrame][Table(p)].user
  /\ z.mem[mem[DirFrame][Table(p)].frame][Slot(p)].user
  /\ InitialPte(mem, p).frame = p => Cached(z.tlb, p) = {}

LevelsOf(V, z, dpl) ==
  \A p \in UserPages : Table(p) \notin moved =>
    InitialPte(z.mem, p).user = IF p \in V /\ Mapped(mem, tlb, p) THEN dpl # 0
                                ELSE InitialPte(mem, p).user
AllOpened(V, z, dpl) ==
  \A p \in V : dpl # 0 /\ Mapped(mem, tlb, p) /\ ClearView(Table(p)) => Opened(z, p)

LevelsDone(V, z, dpl) ==
  /\ StoreInv(z.mem, z.tlb, free, moved, z.dirty)
  /\ z.tlb \subseteq tlb /\ SameMap(z.mem, mem)
  /\ LevelsOf(V, z, dpl) /\ AllOpened(V, z, dpl)

LEMMA NothingDone ==
  ASSUME PagingInv, NEW dpl
  PROVE  LevelsDone({}, Now, dpl)
<1>1. Now.mem = mem /\ Now.tlb = tlb /\ Now.dirty = dirty
  BY DEF Now
<1> QED BY <1>1 DEF PagingInv, LevelsDone, LevelsOf, AllOpened, SameMap

LEMMA OneMoreDone ==
  ASSUME PagingInv, NEW dpl \in PrivilegeLevels, NEW V \in SUBSET UserPages,
         NEW s, LevelsDone(V, s, dpl), NEW p \in UserPages,
         NEW z, z = AfterDpl(s, p, dpl)
  PROVE  LevelsDone(V \cup {p}, z, dpl)
<1>1. /\ StoreInv(s.mem, s.tlb, free, moved, s.dirty)
      /\ s.tlb \subseteq tlb /\ SameMap(s.mem, mem)
      /\ LevelsOf(V, s, dpl) /\ AllOpened(V, s, dpl)
  BY DEF LevelsDone
<1>2. CASE ~Mapped(s.mem, s.tlb, p)
  <2>1. z = s
    BY <1>2, AfterDplNot
  <2>2. ClearView(Table(p)) => ~Mapped(mem, tlb, p)
    BY <1>1, <1>2, SameTable
  <2>3. LevelsOf(V \cup {p}, s, dpl)
    BY <1>1, <2>2 DEF LevelsOf, ClearView
  <2>4. AllOpened(V \cup {p}, s, dpl)
    BY <1>1, <2>2 DEF AllOpened
  <2> QED BY <1>1, <2>1, <2>3, <2>4 DEF LevelsDone
<1>3. CASE Mapped(s.mem, s.tlb, p)
  <2>1. StoreInv(z.mem, z.tlb, free, moved, z.dirty) /\ LevelSet(s, z, moved, p, dpl)
    BY <1>1, <1>3, AfterDplInv
  <2>2. z.tlb \subseteq s.tlb /\ SameMap(z.mem, s.mem)
    BY <2>1 DEF LevelSet
  <2>3. z.tlb \subseteq tlb /\ SameMap(z.mem, mem)
    <3>1. SameMap(z.mem, mem)
      BY <1>1, <2>2 DEF SameMap
    <3> QED BY <1>1, <2>2, <3>1
  <2>4. LevelsOf(V \cup {p}, z, dpl)
    <3> SUFFICES ASSUME NEW x \in UserPages, Table(x) \notin moved
                 PROVE  InitialPte(z.mem, x).user =
                          IF x \in V \cup {p} /\ Mapped(mem, tlb, x) THEN dpl # 0
                          ELSE InitialPte(mem, x).user
      BY DEF LevelsOf
    <3>1. InitialPte(z.mem, x).user =
            IF x = p THEN dpl # 0 ELSE InitialPte(s.mem, x).user
      BY <2>1 DEF LevelSet
    <3>2. CASE x = p
      <4>1. Mapped(mem, tlb, p)
        BY <1>1, <1>3, <3>2, SameTable DEF ClearView
      <4> QED BY <3>1, <3>2, <4>1
    <3>3. CASE x # p
      <4>1. InitialPte(s.mem, x).user =
              IF x \in V /\ Mapped(mem, tlb, x) THEN dpl # 0
              ELSE InitialPte(mem, x).user
        BY <1>1 DEF LevelsOf
      <4> QED BY <3>1, <3>3, <4>1
    <3> QED BY <3>2, <3>3
  <2>5. AllOpened(V \cup {p}, z, dpl)
    <3> SUFFICES ASSUME NEW x \in V \cup {p}, dpl # 0, Mapped(mem, tlb, x),
                        ClearView(Table(x))
                 PROVE  Opened(z, x)
      BY DEF AllOpened
    <3> DEFINE d == Table(x)
               g == mem[DirFrame][Table(x)].frame
    <3>1. x \in UserPages /\ d \in Dirs /\ d \in Indices /\ Slot(x) \in Indices
      BY UserPlace
    <3>2. \A f \in TableFrames, i \in Indices : s.mem[f][i].user => z.mem[f][i].user
      BY <2>1, <3>1 DEF LevelSet
    <3>3. CASE x = p
      <4>1. Pt(s.mem, s.tlb, p) = g
        BY <1>1, <1>3, <3>3, SameTable
      <4>2. z.mem[DirFrame][d].user /\ z.mem[g][Slot(x)].user
        BY <2>1, <3>3, <4>1 DEF LevelSet
      <4>3. InitialPte(s.mem, p).frame = InitialPte(mem, p).frame
        BY <1>1, <3>1, <3>3, FrameKinds DEF SameMap, InitialPte
      <4>4. InitialPte(mem, p).frame = p => Cached(z.tlb, p) = {}
        BY <2>1, <4>3 DEF LevelSet
      <4> QED BY <3>3, <4>2, <4>4 DEF Opened
    <3>4. CASE x # p
      <4>1. Opened(s, x)
        BY <1>1, <3>4 DEF AllOpened
      <4>2. g \in TableFrames
        <5>1. WindowInv(mem, tlb, free, moved)
          BY DEF PagingInv, StoreInv
        <5> QED BY <3>1, <5>1 DEF WindowInv, Seen
      <4>3. z.mem[DirFrame][d].user /\ z.mem[g][Slot(x)].user
        BY <3>1, <3>2, <4>1, <4>2, FrameKinds DEF Opened
      <4>4. Cached(z.tlb, x) \subseteq Cached(s.tlb, x)
        BY <2>2 DEF Cached
      <4> QED BY <4>1, <4>3, <4>4 DEF Opened
    <3> QED BY <3>3, <3>4
  <2> QED BY <2>1, <2>3, <2>4, <2>5 DEF LevelsDone
<1> QED BY <1>2, <1>3
(* A set of natural numbers that has 0 and with a number the next has all. *)
LEMMA SetInduction ==
  ASSUME NEW S \in SUBSET Nat, 0 \in S, \A n \in S : n + 1 \in S
  PROVE  S = Nat
<1> SUFFICES ASSUME Nat \ S # {} PROVE FALSE
  OBVIOUS
<1> DEFINE R == OpToRel(<, Nat)
<1>1. IsWellFoundedOn(R, Nat)
  BY NatLessThanWellFounded
<1>2. \A x, y \in Nat : <<y, x>> \in R <=> y < x
  BY DEF OpToRel
<1> HIDE DEF R
<1> DEFINE T == Nat \ S
<1>3. T \in SUBSET Nat /\ T # {}
  OBVIOUS
<1> HIDE DEF T
<1>4. PICK x \in T : \A y \in T : ~(<<y, x>> \in R)
  BY <1>1, <1>3, WFMin
<1>5. x \in Nat /\ x \notin S /\ x # 0
  BY <1>3, <1>4 DEF T
<1>6. x - 1 \in Nat /\ x - 1 < x
  BY <1>5
<1>7. x - 1 \in S
  <2>1. ~(<<x - 1, x>> \in R) => x - 1 \notin Nat
    BY <1>2, <1>5, <1>6, Zenon
  <2>2. x - 1 \notin T
    BY <1>4, <1>6, <2>1
  <2> QED BY <1>6, <2>2 DEF T
<1>8. (x - 1) + 1 \in S
  BY <1>7
<1> QED BY <1>5, <1>8

(* The recursion of set_memory_range_dpl has a result. *)
StepOf(r, dpl, f, n) ==
  IF n = 0 THEN Now ELSE AfterDpl(f[n - 1], (r.first \div PageSize) + n - 1, dpl)
StepsUpTo(r, dpl, f, m) == f = [n \in 0 .. m |-> StepOf(r, dpl, f, n)]

LEMMA StepsExist ==
  ASSUME NEW r, NEW dpl, NEW m \in Nat
  PROVE  \E f : StepsUpTo(r, dpl, f, m)
<1> DEFINE S == {k \in Nat : \E f : StepsUpTo(r, dpl, f, k)}
<1>1. 0 \in S
  <2> DEFINE f == [n \in 0 .. 0 |-> Now]
  <2>1. \A n \in 0 .. 0 : f[n] = StepOf(r, dpl, f, n)
    BY DEF StepOf
  <2>2. StepsUpTo(r, dpl, f, 0)
    BY <2>1 DEF StepsUpTo
  <2> QED BY <2>2
<1>2. \A k \in S : k + 1 \in S
  <2> TAKE k \in S
  <2>1. PICK g : StepsUpTo(r, dpl, g, k)
    OBVIOUS
  <2>2. g = [n \in 0 .. k |-> StepOf(r, dpl, g, n)]
    BY <2>1 DEF StepsUpTo
  <2> DEFINE last == AfterDpl(g[k], (r.first \div PageSize) + (k + 1) - 1, dpl)
             f == [n \in 0 .. k + 1 |-> IF n = k + 1 THEN last ELSE g[n]]
  <2>3. k \in Nat
    OBVIOUS
  <2> HIDE DEF last
  <2>4. \A n \in 0 .. k : f[n] = g[n]
    BY <2>3
  <2>5. \A n \in 0 .. k + 1 : f[n] = StepOf(r, dpl, f, n)
    <3> TAKE n \in 0 .. k + 1
    <3>1. CASE n = k + 1
      <4>1. f[n] = last /\ n # 0 /\ n - 1 = k /\ k \in 0 .. k
        BY <2>3, <3>1
      <4>2. f[n - 1] = g[k]
        BY <2>4, <4>1
      <4> QED BY <3>1, <4>1, <4>2 DEF StepOf, last
    <3>2. CASE n # k + 1
      <4>1. n \in 0 .. k /\ f[n] = g[n]
        BY <2>3, <2>4, <3>2
      <4>2. g[n] = StepOf(r, dpl, g, n)
        BY <2>2, <4>1
      <4>3. n # 0 => f[n - 1] = g[n - 1]
        BY <2>3, <2>4, <4>1
      <4> QED BY <4>1, <4>2, <4>3 DEF StepOf
    <3> QED BY <3>1, <3>2
  <2>6. f = [n \in 0 .. k + 1 |-> StepOf(r, dpl, f, n)]
    BY <2>5
  <2>7. StepsUpTo(r, dpl, f, k + 1)
    BY <2>6 DEF StepsUpTo
  <2> HIDE DEF f
  <2> QED BY <2>3, <2>7
<1>3. S \in SUBSET Nat
  OBVIOUS
<1> HIDE DEF S
<1>4. S = Nat
  BY <1>1, <1>2, <1>3, SetInduction
<1> QED BY <1>4 DEF S

LEMMA StepsAreSteps ==
  ASSUME NEW r \in Ranges, NEW dpl, PageCount(r) \in Nat
  PROVE  /\ RangeSteps(r, dpl)[0] = Now
         /\ \A n \in 0 .. PageCount(r) - 1 : RangeSteps(r, dpl)[n + 1] =
              AfterDpl(RangeSteps(r, dpl)[n], (r.first \div PageSize) + n, dpl)
<1> DEFINE m == PageCount(r)
<1>1. RangeSteps(r, dpl) = CHOOSE f : StepsUpTo(r, dpl, f, m)
  BY DEF RangeSteps, StepsUpTo, StepOf
<1> DEFINE f == RangeSteps(r, dpl)
<1> HIDE DEF f, m
<1>2. m \in Nat
  BY DEF m
<1>3. \E g : StepsUpTo(r, dpl, g, m)
  BY <1>2, StepsExist
<1>4. StepsUpTo(r, dpl, f, m)
  BY <1>1, <1>3 DEF f
<1>5. \A n \in 0 .. m : f[n] = StepOf(r, dpl, f, n)
  BY <1>4 DEF StepsUpTo
<1>6. f[0] = Now
  BY <1>2, <1>5 DEF StepOf
<1>7. ASSUME NEW n \in 0 .. m - 1
      PROVE  f[n + 1] = AfterDpl(f[n], (r.first \div PageSize) + n, dpl)
  <2>1. n + 1 \in 0 .. m /\ n + 1 # 0 /\ (n + 1) - 1 = n
    BY <1>2
  <2>2. f[n + 1] = AfterDpl(f[n], (r.first \div PageSize) + (n + 1) - 1, dpl)
    BY <1>5, <2>1 DEF StepOf
  <2>3. (r.first \div PageSize) + (n + 1) - 1 = (r.first \div PageSize) + n
    <3> DEFINE a == r.first
    <3>1. a \in Int /\ PageSize \in Nat \ {0}
      BY PagingAssumption
    <3> HIDE DEF a
    <3>2. a \div PageSize \in Int
      BY <3>1, DivMod
    <3> QED BY <3>2, <2>1 DEF a
  <2> QED BY <2>2, <2>3
<1> QED BY <1>6, <1>7 DEF f, m
(* The pages that are visited are those that have a byte in the range.     *)
Visited(r, n) == {(r.first \div PageSize) + k : k \in 0 .. n - 1}

LEMMA LessThan ==
  ASSUME NEW b \in Nat \ {0}, NEW q \in Int, NEW r \in 0 .. b - 1, NEW c \in Int,
         NEW s \in Nat
  PROVE  b * q + r < b * c + s /\ s < b => q <= c
<1> SUFFICES ASSUME b * q + r < b * c + s, s < b PROVE q <= c
  OBVIOUS
<1>1. b * c + s < b * (c + 1)
  <2>1. s \in 0 .. b - 1 /\ c + 1 \in Int /\ c < c + 1
    OBVIOUS
  <2> QED BY <2>1, Between
<1>2. b * q + r < b * (c + 1)
  <2>1. b * q + r \in Int /\ b * c + s \in Int /\ b * (c + 1) \in Int
    OBVIOUS
  <2> QED BY <1>1, <2>1
<1>3. q < c + 1
  <2>1. c + 1 \in Int
    OBVIOUS
  <2> QED BY <1>2, <2>1, Between
<1> QED BY <1>3

LEMMA PagesVisited ==
  ASSUME NEW r \in Ranges
  PROVE  PageCount(r) \in Nat /\ Visited(r, PageCount(r)) = PagesMeant(r)
<1> DEFINE P == PageSize
           a == r.first
           len == r.length
<1>1. P \in Nat \ {0} /\ a \in Nat /\ len \in Nat \ {0}
  BY PagingAssumption
<1> HIDE DEF P, a, len
<1> DEFINE q == a \div P
           o == a % P
           c == (len + o) \div P
           m == (len + o) % P
           pc == PageCount(r)
<1>2. q \in Int /\ o \in 0 .. P - 1 /\ a = P * q + o
  BY <1>1, DivMod
<1>3. c \in Int /\ m \in 0 .. P - 1 /\ len + o = P * c + m
  <2>1. len + o \in Int
    BY <1>1, <1>2
  <2> QED BY <1>1, <2>1, DivMod
<1>4. pc = c + (IF m # 0 THEN 1 ELSE 0)
  BY DEF PageCount, P, a, len
<1>5. PagesMeant(r) = {b \div P : b \in a .. a + len - 1}
  BY DEF PagesMeant, P, a, len
<1>6. Visited(r, pc) = {q + k : k \in 0 .. pc - 1}
  BY DEF Visited, P, a
<1>13. a \div P = q
  OBVIOUS
<1> HIDE DEF q, o, c, m, pc
<1>7. 0 <= c
  <2>1. 0 <= P * c + m
    BY <1>1, <1>2, <1>3
  <2> QED BY <1>1, <1>3, <2>1, Between
<1>8. pc \in Nat
  BY <1>3, <1>4, <1>7
<1>9. a + len = P * (q + c) + m
  <2>1. P * (q + c) = P * q + P * c
    BY <1>1, <1>2, <1>3
  <2>2. P * q \in Int /\ P * c \in Int
    BY <1>1, <1>2, <1>3
  <2> QED BY <1>1, <1>2, <1>3, <2>1, <2>2
<1>10. ASSUME NEW b \in a .. a + len - 1
       PROVE  b \div P \in {q + k : k \in 0 .. pc - 1}
  <2> DEFINE j == b \div P
             i == b % P
  <2>1. b \in Int /\ a <= b /\ b < a + len
    BY <1>1
  <2>2. j \in Int /\ i \in 0 .. P - 1 /\ b = P * j + i
    BY <1>1, <2>1, DivMod
  <2> HIDE DEF j, i
  <2>3. q <= j
    <3> SUFFICES ASSUME j < q PROVE FALSE
      BY <1>2, <2>2
    <3>1. P * j + i < P * q
      BY <1>1, <1>2, <2>2, Between
    <3>2. P * q \in Int /\ P * j \in Int
      BY <1>1, <1>2, <2>2
    <3> QED BY <1>2, <2>1, <2>2, <3>1, <3>2
  <2>4. j < q + pc
    <3>1. P * j + i < P * (q + c) + m
      BY <1>9, <2>1, <2>2
    <3>2. CASE m = 0
      <4>1. P * (q + c) \in Int /\ q + c \in Int
        BY <1>1, <1>2, <1>3
      <4>2. P * j + i < P * (q + c)
        BY <3>1, <3>2, <4>1
      <4>3. j < q + c
        BY <1>1, <2>2, <4>1, <4>2, Between
      <4> QED BY <1>4, <3>2, <4>3, <1>3
    <3>3. CASE m # 0
      <4>1. q + c \in Int /\ m \in Nat /\ m < P
        BY <1>1, <1>2, <1>3
      <4>2. j <= q + c
        BY <1>1, <2>2, <3>1, <4>1, LessThan
      <4> QED BY <1>2, <1>3, <1>4, <2>2, <3>3, <4>2
    <3> QED BY <3>2, <3>3
  <2>5. j - q \in 0 .. pc - 1 /\ j = q + (j - q)
    BY <1>2, <1>8, <2>2, <2>3, <2>4
  <2> QED BY <2>5 DEF j
<1>11. ASSUME NEW k \in 0 .. pc - 1
       PROVE  q + k \in {b \div P : b \in a .. a + len - 1}
  <2>1. CASE k = 0
    <3>1. a \in a .. a + len - 1 /\ q + k = q
      BY <1>1, <1>2, <2>1
    <3> QED BY <1>13, <3>1
  <2>2. CASE k # 0
    <3> DEFINE j == q + k
               b == P * j
    <3>1. j \in Int /\ b \in Int /\ q < j /\ j < q + pc
      BY <1>1, <1>2, <1>8, <2>2
    <3>2. b \div P = j
      <4>1. 0 \in 0 .. P - 1 /\ b + 0 = b
        BY <1>1, <3>1
      <4>2. (P * j + 0) \div P = j
        BY <1>1, <3>1, <4>1, DivModUnique
      <4> QED BY <4>1, <4>2
    <3>3. a <= b
      <4>1. P * q + o < P * j
        BY <1>1, <1>2, <3>1, Between
      <4> QED BY <1>1, <1>2, <3>1, <4>1
    <3>4. b < a + len
      <4>1. P * (q + c) \in Int /\ q + c \in Int
        BY <1>1, <1>2, <1>3
      <4>2. CASE m = 0
        <5>1. j < q + c
          BY <1>2, <1>3, <1>4, <3>1, <4>2
        <5>2. P * j + 0 < P * (q + c)
          <6>1. 0 \in 0 .. P - 1
            BY <1>1
          <6> QED BY <1>1, <3>1, <4>1, <5>1, <6>1, Between
        <5> QED BY <1>9, <3>1, <4>1, <4>2, <5>2
      <4>3. CASE m # 0
        <5>1. j < (q + c) + 1
          BY <1>2, <1>3, <1>4, <3>1, <4>3
        <5>2. P * j <= P * (q + c)
          <6>1. j <= q + c
            BY <3>1, <4>1, <5>1
          <6> HIDE DEF j, b
          <6> QED BY <1>1, <3>1, <4>1, <6>1
        <5> QED BY <1>3, <1>9, <3>1, <4>1, <4>3, <5>2
      <4> QED BY <4>2, <4>3
    <3>5. b \in a .. a + len - 1
      BY <1>1, <3>1, <3>3, <3>4
    <3> HIDE DEF j, b
    <3>6. j \in {x \div P : x \in a .. a + len - 1}
      BY <3>2, <3>5
    <3> QED BY <3>6 DEF j
  <2> QED BY <2>1, <2>2
<1>12. {q + k : k \in 0 .. pc - 1} = {b \div P : b \in a .. a + len - 1}
  <2>1. \A k \in 0 .. pc - 1 : q + k \in {b \div P : b \in a .. a + len - 1}
    BY <1>11
  <2>2. \A b \in a .. a + len - 1 : b \div P \in {q + k : k \in 0 .. pc - 1}
    BY <1>10
  <2> QED BY <2>1, <2>2
<1> QED BY <1>5, <1>6, <1>8, <1>12 DEF pc
LEMMA RangeDone ==
  ASSUME PagingInv, NEW r \in Ranges, NEW dpl \in PrivilegeLevels,
         NEW z, z = RangeSteps(r, dpl)[PageCount(r)]
  PROVE  LevelsDone(PagesMeant(r), z, dpl)
<1> DEFINE after == RangeSteps(r, dpl)
           m == PageCount(r)
           q == r.first \div PageSize
           S == {n \in Nat : n <= m => LevelsDone(Visited(r, n), after[n], dpl)}
<1>1. /\ m \in Nat /\ Visited(r, m) = PagesMeant(r)
      /\ PagesMeant(r) \subseteq UserPages
  BY PagesVisited, PagingAssumption
<1>2. /\ after[0] = Now
      /\ \A n \in 0 .. m - 1 : after[n + 1] = AfterDpl(after[n], q + n, dpl)
  BY <1>1, StepsAreSteps
<1>3. \A n : Visited(r, n) = {q + k : k \in 0 .. n - 1}
  BY DEF Visited
<1> HIDE DEF after, m, q
<1>4. 0 \in S
  <2>1. Visited(r, 0) = {}
    BY <1>3
  <2>2. LevelsDone({}, Now, dpl)
    BY NothingDone
  <2> QED BY <1>2, <2>1, <2>2
<1>5. ASSUME NEW n \in S PROVE n + 1 \in S
  <2> SUFFICES ASSUME n + 1 <= m
               PROVE  LevelsDone(Visited(r, n + 1), after[n + 1], dpl)
    OBVIOUS
  <2>1. n \in 0 .. m - 1
    BY <1>1
  <2>2. LevelsDone(Visited(r, n), after[n], dpl)
    BY <1>1, <2>1
  <2>3. Visited(r, n + 1) = Visited(r, n) \cup {q + n}
    <3>1. 0 .. (n + 1) - 1 = (0 .. n - 1) \cup {n}
      BY <2>1
    <3> QED BY <1>3, <3>1
  <2>4. Visited(r, n + 1) \subseteq UserPages
    <3>1. \A k \in 0 .. (n + 1) - 1 : k \in 0 .. m - 1
      BY <1>1, <2>1
    <3>2. Visited(r, n + 1) \subseteq Visited(r, m)
      BY <1>3, <3>1
    <3> QED BY <1>1, <3>2
  <2> DEFINE p == q + n
             V == Visited(r, n)
             s == after[n]
             y == after[n + 1]
  <2>5. p \in UserPages /\ V \in SUBSET UserPages
    BY <2>3, <2>4
  <2>6. y = AfterDpl(s, p, dpl)
    BY <1>2, <2>1
  <2>7. LevelsDone(V, s, dpl)
    BY <2>2
  <2> HIDE DEF p, V, s, y
  <2>8. LevelsDone(V \cup {p}, y, dpl)
    BY <2>5, <2>6, <2>7, OneMoreDone
  <2> QED BY <2>3, <2>8 DEF p, V, y
<1>6. S \in SUBSET Nat
  OBVIOUS
<1> HIDE DEF S
<1>7. S = Nat
  BY <1>4, <1>5, <1>6, SetInduction
<1>8. LevelsDone(Visited(r, m), after[m], dpl)
  BY <1>1, <1>7 DEF S
<1> QED BY <1>1, <1>8 DEF after, m

(* It ends as it is asked to: every page of the range, and no other, is    *)
(* open or closed.                                                         *)
LEMMA SetMemoryRangeDplInv == PagingInv /\ SetMemoryRangeDpl => PagingInv'
<1> SUFFICES ASSUME PagingInv, SetMemoryRangeDpl PROVE PagingInv'
  OBVIOUS
<1>1. PICK r \in Ranges, dpl \in PrivilegeLevels :
        LET z == RangeSteps(r, dpl)[PageCount(r)]
            meant == {p \in PagesMeant(r) : Mapped(mem, tlb, p)}
        IN /\ mem' = z.mem /\ tlb' = z.tlb /\ dirty' = z.dirty
           /\ granted' = IF dpl = 0 THEN granted \ meant ELSE granted \cup meant
  BY DEF SetMemoryRangeDpl
<1>2. free' = free /\ moved' = moved
  BY DEF SetMemoryRangeDpl
<1>3. PICK z : z = RangeSteps(r, dpl)[PageCount(r)]
  OBVIOUS
<1> DEFINE meant == {p \in PagesMeant(r) : Mapped(mem, tlb, p)}
<1>4. /\ mem' = z.mem /\ tlb' = z.tlb /\ dirty' = z.dirty
      /\ granted' = IF dpl = 0 THEN granted \ meant ELSE granted \cup meant
  BY <1>1, <1>3
<1>5. LevelsDone(PagesMeant(r), z, dpl)
  BY <1>3, RangeDone
<1>6. GrantInv(mem', granted', moved)
  <2> SUFFICES ASSUME NEW x \in UserPages, Table(x) \notin moved,
                      InitialPte(mem', x).user
               PROVE  x \in granted'
    BY DEF GrantInv
  <2>1. InitialPte(mem', x).user =
          IF x \in meant THEN dpl # 0 ELSE InitialPte(mem, x).user
    BY <1>4, <1>5 DEF LevelsDone, LevelsOf
  <2>2. InitialPte(mem, x).user => x \in granted
    BY DEF PagingInv, GrantInv
  <2> HIDE DEF meant
  <2> QED BY <1>4, <2>1, <2>2
<1> QED BY <1>2, <1>4, <1>5, <1>6 DEF LevelsDone, PagingInv

----------------------------------------------------------------------------
(* The invariant holds at the beginning and is kept.                       *)

LEMMA PagingInit == Init => PagingInv
<1> SUFFICES ASSUME Init PROVE PagingInv
  OBVIOUS
<1>1. /\ mem = [f \in TableFrames |->
                  IF f = DirFrame
                  THEN [i \in Indices |->
                          Entry(IF i = E - 1 THEN DirFrame ELSE TableFrame(i), FALSE)]
                  ELSE [i \in Indices |-> SelfEntry(f, i)]]
      /\ tlb = {} /\ free = KmallocFrames
      /\ granted = {} /\ dirty = {} /\ moved = {}
  BY DEF Init
<1>2. \A k \in Int : Entry(k, FALSE) \in Entries
  BY DEF Entry, Entries
<1>3. /\ E \in Nat \ {0} /\ DirFrame \in Int /\ FirstTableFrame \in Int
      /\ \A i \in Indices : i \in Int /\ TableFrame(i) \in Int
      /\ KmallocFrames \subseteq Int
  BY PagingAssumption DEF Indices, TableFrame
<1>4. \A f \in TableFrames : f \in Int
  BY <1>3 DEF TableFrames
<1>5. \A f \in TableFrames, i \in Indices : SelfEntry(f, i) \in Entries
  <2> TAKE f \in TableFrames, i \in Indices
  <2>1. (f - FirstTableFrame) * E + i \in Int
    BY <1>3, <1>4
  <2> QED BY <1>2, <2>1 DEF SelfEntry
<1>6. mem \in [TableFrames -> Tables]
  <2>1. [i \in Indices |-> Entry(IF i = E - 1 THEN DirFrame ELSE TableFrame(i), FALSE)]
          \in Tables
    BY <1>2, <1>3 DEF Tables
  <2>2. \A f \in TableFrames : [i \in Indices |-> SelfEntry(f, i)] \in Tables
    BY <1>5 DEF Tables
  <2> QED BY <1>1, <2>1, <2>2
<1>7. mem[DirFrame] =
        [i \in Indices |-> Entry(IF i = E - 1 THEN DirFrame ELSE TableFrame(i), FALSE)]
  BY <1>1, FrameKinds
<1>8. mem[DirFrame][E - 1] = Entry(DirFrame, FALSE)
  BY <1>7, SizeOfTables
<1>9. ASSUME NEW d \in Dirs
      PROVE  mem[DirFrame][d] = Entry(TableFrame(d), FALSE) /\ d \in Indices
  <2>1. d \in Indices /\ d # E - 1
    BY <1>3 DEF Dirs, Indices
  <2> QED BY <1>7, <2>1
<1>10. ASSUME NEW d \in Dirs
       PROVE  mem[DirFrame][d].present /\ Seen(mem, tlb, d) = {TableFrame(d)}
  <2>1. mem[DirFrame][d] = Entry(TableFrame(d), FALSE)
    BY <1>9
  <2>2. mem[DirFrame][d].present /\ mem[DirFrame][d].frame = TableFrame(d)
    BY <2>1 DEF Entry
  <2>3. Cached(tlb, WindowPage(d)) = {}
    BY <1>1 DEF Cached
  <2> QED BY <2>2, <2>3 DEF Seen
<1>11. ASSUME NEW c \in Dirs, NEW d \in Dirs, c # d
       PROVE  TableFrame(c) # TableFrame(d)
  <2>1. c \in Int /\ d \in Int
    BY <1>3, <1>9
  <2> QED BY <1>3, <1>11, <2>1 DEF TableFrame
<1>12. WindowInv(mem, tlb, free, moved)
  <2>1. ASSUME NEW d \in Dirs
        PROVE  Seen(mem, tlb, d) \subseteq TableFrames \ (free \cup {DirFrame})
    <3>1. d \in Indices /\ Seen(mem, tlb, d) = {TableFrame(d)}
      BY <1>9, <1>10
    <3> QED BY <1>1, <3>1, FrameKinds
  <2>2. \A c, d \in Dirs : c # d => Seen(mem, tlb, c) \cap Seen(mem, tlb, d) = {}
    BY <1>10, <1>11
  <2> QED BY <1>8, <1>10, <2>1, <2>2 DEF WindowInv
<1>13. GrantInv(mem, granted, moved)
  <2>1. ASSUME NEW p \in UserPages PROVE ~InitialPte(mem, p).user
    <3>1. Table(p) \in Indices /\ Slot(p) \in Indices
      BY UserPlace
    <3>2. InitialPte(mem, p) = SelfEntry(TableFrame(Table(p)), Slot(p))
      BY <1>1, <3>1, FrameKinds DEF InitialPte
    <3> QED BY <3>2 DEF SelfEntry, Entry
  <2> QED BY <2>1 DEF GrantInv
<1> QED BY <1>1, <1>6, <1>12, <1>13 DEF PagingInv, StoreInv, OnePerPage, StaleInv

LEMMA PagingStep == PagingInv /\ [Next]_vars => PagingInv'
<1>1. PagingInv /\ UNCHANGED vars => PagingInv'
  BY DEF PagingInv, vars, GrantInv
<1> QED BY <1>1, FillInv, EvictInv, SetPageDplInv, SetMemoryRangeDplInv,
           SetPageTableDplInv, MapPageInv, UnmapPageInv, UnmapPageTableInv,
           SwapPageTableInv, SwapPageInv DEF Next

(* PagingInv holds always (paging.c and the CPU). *)
THEOREM PagingSafe == Spec => []PagingInv
BY PagingInit, PagingStep, PTL DEF Spec

(* What the CPU keeps of a translation is what the tables say, or          *)
(* stricter, unless the page was unmapped, closed or mapped elsewhere      *)
(* (set_page_dpl, map_page and what they invalidate).                      *)
THEOREM NothingIsStale == Spec => []NothingStale
<1>1. PagingInv => NothingStale
  BY DEF PagingInv, StoreInv, StaleInv, AsTheTablesSay, NothingStale
<1> QED BY <1>1, PagingSafe, PTL

(* Ring 3 reaches no page that was not given to it, nor a page next to a   *)
(* range that was (set_memory_range_dpl, set_page_dpl).                    *)
THEOREM UserOnlyByGrant == Spec => []UserOnlyWhereGranted
<1>1. PagingInv => UserOnlyWhereGranted
  <2> SUFFICES ASSUME PagingInv, NEW p \in UserPages, NEW e \in Walk(mem, p),
                      e.user, Table(p) \notin moved
               PROVE  p \in granted
    BY DEF UserOnlyWhereGranted
  <2>1. Table(p) \in Dirs
    BY UserPlace
  <2>2. Pde(mem, p).frame = TableFrame(Table(p))
    BY <2>1, SMTT(30) DEF PagingInv, StoreInv, WindowInv, Seen, Pde
  <2>3. mem[Pde(mem, p).frame][Slot(p)].user
    <3> DEFINE pte == mem[Pde(mem, p).frame][Slot(p)]
    <3>1. e = [page |-> p, frame |-> pte.frame, user |-> Pde(mem, p).user /\ pte.user]
      BY DEF Walk
    <3>2. e.user = (Pde(mem, p).user /\ pte.user)
      BY <3>1
    <3> QED BY <3>2
  <2>4. InitialPte(mem, p).user
    BY <2>2, <2>3 DEF InitialPte
  <2> QED BY <2>4 DEF PagingInv, GrantInv
<1> QED BY <1>1, PagingSafe, PTL
(* A page that was set to ring 3 through a window that shows the truth is  *)
(* open, and the CPU keeps nothing of it.                                  *)
IsOpen(m, t, p) ==
  \A e \in Walk(m, p) :
    e.user /\ (InitialPte(mem, p).frame = p => \A x \in Cached(t, p) : x.user)

LEMMA OpenedIsOpen ==
  ASSUME PagingInv, NEW V \in SUBSET UserPages, NEW dpl, dpl # 0, NEW z,
         LevelsDone(V, z, dpl), NEW p \in V, Mapped(mem, tlb, p),
         WindowPage(Table(p)) \notin dirty
  PROVE  IsOpen(z.mem, z.tlb, p)
<1> DEFINE d == Table(p)
           g == mem[DirFrame][Table(p)].frame
<1>1. Opened(z, p) /\ SameMap(z.mem, mem)
  BY DEF LevelsDone, AllOpened, ClearView
<1>2. d \in Indices
  BY UserPlace
<1>3. Pde(z.mem, p).frame = g
  BY <1>1, <1>2, FrameKinds DEF SameMap, Pde
<1> SUFFICES ASSUME NEW e \in Walk(z.mem, p)
             PROVE  e.user /\ (InitialPte(mem, p).frame = p =>
                                 \A x \in Cached(z.tlb, p) : x.user)
  BY DEF IsOpen
<1>4. e.user = (Pde(z.mem, p).user /\ z.mem[Pde(z.mem, p).frame][Slot(p)].user)
  <2> DEFINE pte == z.mem[Pde(z.mem, p).frame][Slot(p)]
  <2>1. e = [page |-> p, frame |-> pte.frame, user |-> Pde(z.mem, p).user /\ pte.user]
    BY DEF Walk
  <2> QED BY <2>1
<1>5. Pde(z.mem, p).user /\ z.mem[g][Slot(p)].user
  BY <1>1 DEF Opened, Pde
<1>6. InitialPte(mem, p).frame = p => Cached(z.tlb, p) = {}
  BY <1>1 DEF Opened
<1> QED BY <1>3, <1>4, <1>5, <1>6

SetOpens ==
  \A p \in granted' \ granted :
    WindowPage(Table(p)) \notin dirty => IsOpen(mem', tlb', p)

LEMMA SetPageOpens == PagingInv /\ SetPageDpl => SetOpens
<1> SUFFICES ASSUME PagingInv, SetPageDpl, NEW p \in granted' \ granted,
                    WindowPage(Table(p)) \notin dirty
             PROVE  IsOpen(mem', tlb', p)
  BY DEF SetOpens
<1>1. PICK q \in Targets, dpl \in PrivilegeLevels : Becomes(AfterDpl(Now, q, dpl))
  BY DEF SetPageDpl
<1>2. q \in UserPages
  BY PagingAssumption
<1>3. PICK s, z : s = Now /\ z = AfterDpl(s, q, dpl)
  OBVIOUS
<1>4. s.mem = mem /\ s.tlb = tlb /\ s.granted = granted
  BY <1>3 DEF Now
<1>5. mem' = z.mem /\ tlb' = z.tlb /\ granted' = z.granted
  BY <1>1, <1>3 DEF Becomes
<1>6. Mapped(mem, tlb, q)
  <2> SUFFICES ASSUME ~Mapped(s.mem, s.tlb, q) PROVE FALSE
    BY <1>4
  <2>1. z = s
    BY <1>3, AfterDplNot
  <2> QED BY <1>4, <1>5, <2>1
<1>7. LevelsDone({}, s, dpl)
  BY <1>3, NothingDone
<1>8. LevelsDone({} \cup {q}, z, dpl)
  <2> DEFINE V == {}
  <2>1. V \in SUBSET UserPages /\ LevelsDone(V, s, dpl)
    BY <1>7
  <2>2. V \cup {q} = {} \cup {q}
    OBVIOUS
  <2> HIDE DEF V
  <2>3. LevelsDone(V \cup {q}, z, dpl)
    BY <1>2, <1>3, <2>1, OneMoreDone
  <2> QED BY <2>2, <2>3
<1>9. p = q /\ dpl # 0
  <2>1. StoreInv(s.mem, s.tlb, free, moved, s.dirty) /\ s.tlb \subseteq tlb
    BY <1>3 DEF PagingInv, Now
  <2>2. LevelSet(s, z, moved, q, dpl)
    BY <1>2, <1>3, <1>4, <1>6, <2>1, AfterDplInv
  <2>3. z.granted = IF dpl # 0 THEN s.granted \cup {q} ELSE s.granted \ {q}
    BY <2>2 DEF LevelSet
  <2> QED BY <1>4, <1>5, <2>3
<1>10. p \in {} \cup {q} /\ {} \cup {q} \in SUBSET UserPages
  BY <1>2, <1>9
<1> DEFINE V == {} \cup {q}
<1> HIDE DEF V
<1>11. LevelsDone(V, z, dpl) /\ p \in V /\ V \in SUBSET UserPages
  BY <1>8, <1>10 DEF V
<1>12. IsOpen(z.mem, z.tlb, p)
  BY <1>6, <1>9, <1>11, OpenedIsOpen
<1> QED BY <1>5, <1>12

LEMMA SetRangeOpens == PagingInv /\ SetMemoryRangeDpl => SetOpens
<1> SUFFICES ASSUME PagingInv, SetMemoryRangeDpl, NEW p \in granted' \ granted,
                    WindowPage(Table(p)) \notin dirty
             PROVE  IsOpen(mem', tlb', p)
  BY DEF SetOpens
<1>1. PICK r \in Ranges, dpl \in PrivilegeLevels :
        LET z == RangeSteps(r, dpl)[PageCount(r)]
            meant == {x \in PagesMeant(r) : Mapped(mem, tlb, x)}
        IN /\ mem' = z.mem /\ tlb' = z.tlb /\ dirty' = z.dirty
           /\ granted' = IF dpl = 0 THEN granted \ meant ELSE granted \cup meant
  BY DEF SetMemoryRangeDpl
<1>2. PICK z : z = RangeSteps(r, dpl)[PageCount(r)]
  OBVIOUS
<1>3. /\ mem' = z.mem /\ tlb' = z.tlb
      /\ dpl # 0 /\ p \in PagesMeant(r) /\ Mapped(mem, tlb, p)
  BY <1>1, <1>2
<1>4. PICK V : V = PagesMeant(r)
  OBVIOUS
<1>5. LevelsDone(V, z, dpl) /\ V \in SUBSET UserPages
  BY <1>2, <1>4, RangeDone, PagingAssumption
<1>6. IsOpen(z.mem, z.tlb, p)
  BY <1>3, <1>4, <1>5, OpenedIsOpen
<1> QED BY <1>3, <1>6

(* A page that is set to ring 3, alone or in a range, is open to it when   *)
(* the operation returns, in its table, in the directory and, if it is     *)
(* mapped to itself, in what the CPU keeps (set_page_dpl,                  *)
(* set_memory_range_dpl).                                                  *)
THEOREM GrantAlwaysOpens == Spec => GrantOpens
<1>1. PagingInv /\ [Next]_vars =>
        [SetPageDpl \/ SetMemoryRangeDpl =>
           \A p \in granted' \ granted : WindowPage(Table(p)) \notin dirty =>
             \A e \in Walk(mem', p) :
               /\ e.user
               /\ InitialPte(mem, p).frame = p => \A t \in Cached(tlb', p) : t.user]_vars
  BY SetPageOpens, SetRangeOpens DEF SetOpens, IsOpen
<1> QED BY <1>1, PagingSafe, PTL DEF Spec, GrantOpens
----------------------------------------------------------------------------
(* The pages of the kernel.                                                *)

KernelStill ==
  /\ \A q \in Kernel : Table(q) \notin moved'
  /\ \A q \in Kernel : /\ InitialPte(mem', q).frame = InitialPte(mem, q).frame
                       /\ InitialPte(mem', q).present = InitialPte(mem, q).present

LEMMA KernelStays == KernelInv /\ KernelStill => KernelInv'
BY DEF KernelInv, KernelStill

LEMMA NotOfKernel ==
  ASSUME NEW p \in UserPages
  PROVE  OfKernel(p) <=> p \in Kernel
<1>1. p \in Int
  BY PagingAssumption DEF UserPages
<1>2. KernelPages.first \in Int /\ KernelPages.last \in Int
  BY PagingAssumption
<1> QED BY <1>1, <1>2 DEF OfKernel, Kernel

(* An entry that is written through the window is not the kernel's.        *)
LEMMA WriteKeepsKernel ==
  ASSUME KernelLeftAlone, KernelInv, NEW m, NEW fr,
         StoreInv(m, tlb, fr, moved, dirty),
         \A q \in UserPages : InitialPte(m, q) = InitialPte(mem, q),
         NEW p \in UserPages, p \notin Kernel,
         NEW f \in Seen(m, tlb, Table(p)), NEW entry \in Entries,
         mem' = Written(m, f, p, entry), UNCHANGED moved
  PROVE  KernelStill
<1>1. m \in [TableFrames -> Tables] /\ WindowInv(m, tlb, fr, moved)
  BY DEF StoreInv
<1>2. \A q \in UserPages : q # p /\ Table(q) \notin moved =>
        InitialPte(mem', q) = InitialPte(m, q)
  BY <1>1, WriteStore
<1> QED BY <1>2 DEF KernelLeftAlone, KernelInv, KernelStill

(* Nor is a frame that is none of the kernel's tables. *)
LEMMA FrameKeepsKernel ==
  ASSUME KernelLeftAlone, NEW F,
         \A q \in Kernel : TableFrame(Table(q)) \notin F,
         \A g \in TableFrames : g \notin F => mem'[g] = mem[g],
         \A q \in Kernel : Table(q) \notin moved'
  PROVE  KernelStill
<1>1. \A q \in Kernel : TableFrame(Table(q)) \in TableFrames
  BY UserPlace, FrameKinds DEF KernelLeftAlone
<1> QED BY <1>1 DEF KernelStill, InitialPte

LEMMA LevelsKeepKernel ==
  ASSUME KernelLeftAlone, KernelInv, NEW V, NEW z, NEW dpl, LevelsDone(V, z, dpl),
         mem' = z.mem, UNCHANGED moved
  PROVE  KernelStill
<1>1. SameMap(z.mem, mem)
  BY DEF LevelsDone
<1>2. \A q \in Kernel : TableFrame(Table(q)) \in TableFrames /\ Slot(q) \in Indices
  BY UserPlace, FrameKinds DEF KernelLeftAlone
<1> QED BY <1>1, <1>2 DEF KernelInv, KernelStill, InitialPte, SameMap

LEMMA SetPageKeepsKernel ==
  KernelLeftAlone /\ PagingInv /\ KernelInv /\ SetPageDpl => KernelStill
<1> SUFFICES ASSUME KernelLeftAlone, PagingInv, KernelInv, SetPageDpl
             PROVE  KernelStill
  OBVIOUS
<1>1. PICK p \in Targets, dpl \in PrivilegeLevels : Becomes(AfterDpl(Now, p, dpl))
  BY DEF SetPageDpl
<1>2. UNCHANGED moved /\ p \in UserPages
  BY PagingAssumption DEF SetPageDpl
<1>3. PICK V : V = {}
  OBVIOUS
<1>4. PICK s, z : s = Now /\ z = AfterDpl(s, p, dpl)
  OBVIOUS
<1>5. mem' = z.mem
  BY <1>1, <1>4 DEF Becomes
<1>6. LevelsDone(V, s, dpl) /\ V \in SUBSET UserPages
  BY <1>3, <1>4, NothingDone
<1>7. LevelsDone(V \cup {p}, z, dpl)
  BY <1>2, <1>4, <1>6, OneMoreDone
<1> QED BY <1>2, <1>5, <1>7, LevelsKeepKernel

LEMMA SetRangeKeepsKernel ==
  KernelLeftAlone /\ PagingInv /\ KernelInv /\ SetMemoryRangeDpl => KernelStill
<1> SUFFICES ASSUME KernelLeftAlone, PagingInv, KernelInv, SetMemoryRangeDpl
             PROVE  KernelStill
  OBVIOUS
<1>1. PICK r \in Ranges, dpl \in PrivilegeLevels :
        mem' = RangeSteps(r, dpl)[PageCount(r)].mem
  BY DEF SetMemoryRangeDpl
<1>2. UNCHANGED moved
  BY DEF SetMemoryRangeDpl
<1>3. PICK z : z = RangeSteps(r, dpl)[PageCount(r)]
  OBVIOUS
<1>4. mem' = z.mem
  BY <1>1, <1>3
<1>5. LevelsDone(PagesMeant(r), z, dpl)
  BY <1>3, RangeDone
<1> QED BY <1>2, <1>4, <1>5, LevelsKeepKernel

LEMMA TableOpsKeepKernel ==
  ASSUME KernelLeftAlone, PagingInv, KernelInv,
         SetPageTableDpl \/ UnmapPageTable \/ SwapPageTable
  PROVE  KernelStill
<1>1. mem \in [TableFrames -> Tables] /\ free \subseteq KmallocFrames
  BY DEF PagingInv, StoreInv
<1>2. \A q \in Kernel : /\ Table(q) \in Indices /\ Table(q) \notin moved
                        /\ TableFrame(Table(q)) # DirFrame
                        /\ TableFrame(Table(q)) \notin KmallocFrames
  BY UserPlace, FrameKinds DEF KernelLeftAlone, KernelInv
<1>3. CASE Nothing
  BY <1>1, <1>2, <1>3 DEF Nothing, KernelStill
<1>4. CASE ~Nothing /\ SetPageTableDpl
  <2>1. UNCHANGED moved
    BY <1>4 DEF SetPageTableDpl
  <2>2. PICK p \in TableTargets, dpl \in PrivilegeLevels :
          mem' = [mem EXCEPT ![DirFrame][Table(p)].user = (dpl # 0)]
    BY <1>4 DEF SetPageTableDpl
  <2>3. \A g \in TableFrames : g \notin {DirFrame} => mem'[g] = mem[g]
    BY <1>1, <2>2
  <2> QED BY <1>2, <2>1, <2>3, FrameKeepsKernel
<1>5. CASE ~Nothing /\ UnmapPageTable
  <2>1. PICK p \in TableTargets :
          NewPde(p, WithPde(mem, p, [Pde(mem, p) EXCEPT !.present = FALSE]))
    BY <1>5 DEF UnmapPageTable, SetPageTablePresent
  <2>2. moved' = moved \cup {Table(p)} /\ \A q \in Kernel : Table(q) # Table(p)
    BY <2>1 DEF NewPde, KernelLeftAlone
  <2>3. \A g \in TableFrames : g \notin {DirFrame} => mem'[g] = mem[g]
    BY <1>1, <2>1 DEF NewPde, WithPde
  <2> QED BY <1>2, <2>2, <2>3, FrameKeepsKernel
<1>6. CASE ~Nothing /\ SwapPageTable
  <2>1. PICK p \in TableTargets, frame \in free, dpl \in PrivilegeLevels :
          NewPde(p, [WithPde(mem, p, Entry(frame, dpl # 0)) EXCEPT
                       ![frame] = EmptyTable])
    BY <1>6 DEF SwapPageTable
  <2>2. moved' = moved \cup {Table(p)} /\ \A q \in Kernel : Table(q) # Table(p)
    BY <2>1 DEF NewPde, KernelLeftAlone
  <2>3. \A g \in TableFrames : g \notin {DirFrame, frame} => mem'[g] = mem[g]
    BY <1>1, <2>1 DEF NewPde, WithPde
  <2>4. \A q \in Kernel : TableFrame(Table(q)) \notin {DirFrame, frame}
    BY <1>1, <1>2
  <2> QED BY <1>2, <2>2, <2>3, <2>4, FrameKeepsKernel
<1> QED BY <1>3, <1>4, <1>5, <1>6

LEMMA PageOpsKeepKernel ==
  ASSUME KernelLeftAlone, PagingInv, KernelInv, UnmapPage \/ SwapPage
  PROVE  KernelStill
<1>1. StoreInv(mem, tlb, free, moved, dirty)
  BY DEF PagingInv
<1>2. CASE Nothing
  BY <1>2 DEF Nothing, KernelInv, KernelStill
<1>3. CASE ~Nothing
  <2>a. PICK p \in Targets : \E e :
          /\ Mapped(mem, tlb, p) /\ ~OfKernel(p)
          /\ mem' = WithPte(mem, tlb, p, e) /\ UNCHANGED moved
          /\ \/ e = [Pte(mem, tlb, p) EXCEPT !.present = FALSE]
             \/ \E frame \in PhysFrames, dpl \in PrivilegeLevels :
                  e = Entry(frame, dpl # 0)
    <3>1. CASE UnmapPage
      BY <1>3, <3>1 DEF UnmapPage, SetPagePresent
    <3>2. CASE SwapPage
      BY <1>3, <3>2 DEF SwapPage
    <3> QED BY <3>1, <3>2
  <2>1. PICK entry :
          /\ Mapped(mem, tlb, p) /\ ~OfKernel(p)
          /\ mem' = WithPte(mem, tlb, p, entry) /\ UNCHANGED moved
          /\ \/ entry = [Pte(mem, tlb, p) EXCEPT !.present = FALSE]
             \/ \E frame \in PhysFrames, dpl \in PrivilegeLevels :
                  entry = Entry(frame, dpl # 0)
    BY <2>a
  <2>2. p \in UserPages /\ p \notin Kernel
    BY <2>1, <2>a, PagingAssumption, NotOfKernel
  <2>3. Pt(mem, tlb, p) \in Seen(mem, tlb, Table(p)) /\ Pte(mem, tlb, p) \in Entries
    <3>1. 0 \in PrivilegeLevels
      BY DEF PrivilegeLevels
    <3> QED BY <1>1, <2>1, <2>2, <3>1, LevelEntryParts
  <2>4. entry \in Entries
    <3>1. CASE entry = [Pte(mem, tlb, p) EXCEPT !.present = FALSE]
      BY <2>3, <3>1 DEF Entries
    <3>2. ASSUME NEW frame \in PhysFrames, NEW dpl \in PrivilegeLevels,
                 entry = Entry(frame, dpl # 0)
          PROVE  entry \in Entries
      BY <3>2, PagingAssumption DEF Entry, Entries
    <3> QED BY <2>1, <3>1, <3>2
  <2>5. mem' = Written(mem, Pt(mem, tlb, p), p, entry)
    BY <2>1 DEF WithPte, Written
  <2> QED BY <1>1, <2>1, <2>2, <2>3, <2>4, <2>5, WriteKeepsKernel
<1> QED BY <1>2, <1>3
(* A page of the kernel is there: map_page keeps it as it is.              *)
LEMMA KernelIsThere ==
  ASSUME KernelLeftAlone, PagingInv, KernelInv, NEW p \in Kernel
  PROVE  /\ p \in UserPages /\ p \notin ForcedTargets
         /\ Pde(mem, p).present /\ Pde(mem, p).frame = TableFrame(Table(p))
         /\ Pte(mem, tlb, p) = InitialPte(mem, p)
<1>1. p \in UserPages /\ p \notin ForcedTargets
  BY DEF KernelLeftAlone
<1>2. Table(p) \in Dirs /\ Table(p) \notin moved
  BY <1>1, UserPlace DEF KernelInv
<1>3. WindowInv(mem, tlb, free, moved)
  BY DEF PagingInv, StoreInv
<1>4. /\ Pde(mem, p).present
      /\ Seen(mem, tlb, Table(p)) = {TableFrame(Table(p))}
  BY <1>2, <1>3 DEF WindowInv, Pde
<1>5. Pde(mem, p).frame = TableFrame(Table(p))
  BY <1>4 DEF Seen, Pde
<1>6. Pt(mem, tlb, p) = TableFrame(Table(p))
  <2>1. Pt(mem, tlb, p) \in Seen(mem, tlb, Table(p))
    BY <1>1, <1>3, <1>4, PtIsSeen DEF WindowInv, Pde
  <2> QED BY <1>4, <2>1
<1> QED BY <1>1, <1>4, <1>5, <1>6 DEF Pte, InitialPte

LEMMA MapPageKeepsKernel ==
  ASSUME KernelLeftAlone, PagingInv, KernelInv, MapPage
  PROVE  KernelStill
<1>1. PICK p \in Targets, frame \in PhysFrames, dpl \in PrivilegeLevels,
           force \in BOOLEAN :
        /\ force => p \in ForcedTargets
        /\ \E new \in WithTable(p, dpl) :
             LET m == new[1]
                 keep == Pte(m, tlb, p).present /\ ~force
             IN mem' = IF keep THEN m ELSE WithPte(m, tlb, p, Entry(frame, dpl # 0))
  BY DEF MapPage
<1>2. PICK new \in WithTable(p, dpl) :
        mem' = IF Pte(new[1], tlb, p).present /\ ~force THEN new[1]
               ELSE WithPte(new[1], tlb, p, Entry(frame, dpl # 0))
  BY <1>1
<1>3. UNCHANGED moved /\ p \in UserPages /\ frame \in Int
  BY PagingAssumption DEF MapPage
<1>4. PICK m, fr : m = new[1] /\ fr = new[2]
  OBVIOUS
<1>5. /\ StoreInv(m, tlb, fr, moved, dirty) /\ m[DirFrame][Table(p)].present
      /\ Pde(mem, p).present => m = mem
      /\ \A q \in UserPages : InitialPte(m, q) = InitialPte(mem, q)
  <2>1. /\ StoreInv(new[1], tlb, new[2], moved, dirty)
        /\ new[1][DirFrame][Table(p)].present
        /\ Pde(mem, p).present => new = <<mem, free>>
        /\ \A q \in UserPages : InitialPte(new[1], q) = InitialPte(mem, q)
    BY <1>3, WithTableInv
  <2> QED BY <1>4, <2>1
<1>6. CASE mem' = m
  BY <1>3, <1>5, <1>6 DEF KernelLeftAlone, KernelInv, KernelStill
<1>7. CASE mem' # m
  <2>1. mem' = WithPte(m, tlb, p, Entry(frame, dpl # 0))
        /\ (~Pte(m, tlb, p).present \/ force)
    BY <1>2, <1>4, <1>7
  <2>2. p \notin Kernel
    <3> SUFFICES ASSUME p \in Kernel PROVE FALSE
      OBVIOUS
    <3>1. /\ p \notin ForcedTargets /\ Pde(mem, p).present
          /\ Pte(mem, tlb, p) = InitialPte(mem, p)
      BY KernelIsThere
    <3>2. InitialPte(mem, p).present
      BY DEF KernelInv
    <3> QED BY <1>1, <1>5, <2>1, <3>1, <3>2
  <2>3. Pt(m, tlb, p) \in Seen(m, tlb, Table(p))
    <3>1. m[DirFrame][E - 1] = Entry(DirFrame, FALSE)
      BY <1>5 DEF StoreInv, WindowInv
    <3> QED BY <1>3, <1>5, <3>1, PtIsSeen
  <2>4. Entry(frame, dpl # 0) \in Entries
    BY <1>3 DEF Entry, Entries
  <2>5. PICK entry \in Entries : mem' = Written(m, Pt(m, tlb, p), p, entry)
    BY <2>1, <2>4 DEF WithPte, Written
  <2> QED BY <1>3, <1>5, <2>2, <2>3, <2>5, WriteKeepsKernel
<1> QED BY <1>6, <1>7

LEMMA KernelStep ==
  ASSUME KernelLeftAlone
  PROVE  PagingInv /\ KernelInv /\ [Next]_vars => KernelInv'
<1> SUFFICES ASSUME PagingInv, KernelInv, [Next]_vars PROVE KernelInv'
  OBVIOUS
<1>1. KernelStill
  <2>1. CASE UNCHANGED vars \/ Fill \/ Evict
    BY <2>1 DEF vars, Fill, Evict, KernelInv, KernelStill
  <2> QED BY <2>1, SetPageKeepsKernel, SetRangeKeepsKernel, TableOpsKeepKernel,
             PageOpsKeepKernel, MapPageKeepsKernel DEF Next
<1> QED BY <1>1, KernelStays

LEMMA KernelInit ==
  ASSUME KernelLeftAlone
  PROVE  Init => KernelInv
<1> SUFFICES ASSUME Init, NEW p \in Kernel
             PROVE  /\ Table(p) \notin moved
                    /\ InitialPte(mem, p).present /\ InitialPte(mem, p).frame = p
  BY DEF KernelInv
<1>1. /\ p \in AllPages /\ Table(p) \in Indices /\ Slot(p) \in Indices
  BY UserPlace DEF KernelLeftAlone
<1>2. InitialPte(mem, p) = SelfEntry(TableFrame(Table(p)), Slot(p))
  BY <1>1, FrameKinds DEF Init, InitialPte
<1>3. TableFrame(Table(p)) - FirstTableFrame = Table(p)
  <2>1. Table(p) \in Int /\ FirstTableFrame \in Int
    BY <1>1, PagingAssumption DEF Indices
  <2> QED BY <2>1 DEF TableFrame
<1>4. p = Table(p) * E + Slot(p)
  BY <1>1, PageParts
<1>5. SelfEntry(TableFrame(Table(p)), Slot(p)) = Entry(p, FALSE)
  BY <1>3, <1>4 DEF SelfEntry
<1>6. moved = {}
  BY DEF Init
<1> QED BY <1>2, <1>5, <1>6 DEF Entry

(* The kernel keeps its pages, whatever is unmapped, exchanged or mapped,  *)
(* as long as the callers leave its tables alone (unmap_page, swap_page,   *)
(* map_page): unmap_page_table and swap_page_table check the address that  *)
(* they are given, not the table it lies in.                               *)
THEOREM KernelStaysMapped ==
  ASSUME KernelLeftAlone
  PROVE  Spec => []KernelKept
<1>1. Init => KernelInv
  BY KernelInit
<1>2. PagingInv /\ KernelInv /\ [Next]_vars => KernelInv'
  BY KernelStep
<1>3. PagingInv /\ KernelInv => KernelKept
  <2> SUFFICES ASSUME PagingInv, KernelInv, NEW p \in Kernel
               PROVE  \E e \in Walk(mem, p) : e.frame = p
    BY DEF KernelKept, Kernel
  <2>1. /\ Pde(mem, p).present
        /\ mem[Pde(mem, p).frame][Slot(p)] = InitialPte(mem, p)
    BY KernelIsThere DEF InitialPte
  <2>2. InitialPte(mem, p).present /\ InitialPte(mem, p).frame = p
    BY DEF KernelInv
  <2> DEFINE e == [page |-> p, frame |-> InitialPte(mem, p).frame,
                   user |-> Pde(mem, p).user /\ InitialPte(mem, p).user]
  <2>3. Walk(mem, p) = {e}
    BY <2>1, <2>2 DEF Walk
  <2>4. e.frame = p
    BY <2>2
  <2> QED BY <2>3, <2>4
<1> QED BY <1>1, <1>2, <1>3, PagingSafe, PTL DEF Spec


=============================================================================
