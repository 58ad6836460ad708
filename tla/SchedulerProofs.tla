--------------------------- MODULE SchedulerProofs ---------------------------
(***************************************************************************)
(* Theorems about Scheduler, for every number of threads and pages, every  *)
(* quantum and every order of interrupts, faults and system calls.  Those  *)
(* on types, list and quantum hold for any stack sizes; the others, that   *)
(* no thread ever loses its registers because ContextInv is inductive, on  *)
(* a memory without holes (LayoutAssumption).                              *)
(***************************************************************************)
EXTENDS Layout, TLAPS

(* What the scan of kmalloc finds and marks.                               *)

(* kmalloc returns a page number. *)
LEMMA FirstFitType ==
  ASSUME NEW bitmap, NEW n
  PROVE  FirstFit(bitmap, n) \in Nat
BY NumPagesAssumption DEF FirstFit, LowestRun, FreeRuns, Pages

(* kmalloc marks only pages of the bitmap. *)
LEMMA MarkUsedType ==
  ASSUME NEW bitmap \in SUBSET Pages, NEW n \in Nat
  PROVE  MarkUsed(bitmap, n) \in SUBSET Pages
BY NumPagesAssumption DEF MarkUsed, LowestRun, FreeRuns, Pages

(* kmalloc takes the next pages of a bitmap whose used pages are the first. *)
LEMMA FirstFitPrefix ==
  ASSUME NEW m \in Nat, NEW n \in Nat \ {0}, m + n <= NumPages
  PROVE  /\ FirstFit(0 .. m - 1, n) = m
         /\ MarkUsed(0 .. m - 1, n) = 0 .. (m + n) - 1
<1> DEFINE runs == FreeRuns(0 .. m - 1, n)
<1>1. m \in runs
  BY NumPagesAssumption DEF FreeRuns, Pages
<1>2. \A k \in runs : k \in Nat /\ m <= k
  <2> SUFFICES ASSUME NEW k \in runs PROVE k \in Nat /\ m <= k
    OBVIOUS
  <2>1. k \in Nat /\ \A j \in k .. k + n - 1 : j \in Pages \ (0 .. m - 1)
    BY NumPagesAssumption DEF FreeRuns, Pages
  <2>2. k \in k .. k + n - 1
    BY <2>1
  <2> QED BY <2>1, <2>2
<1>3. LowestRun(0 .. m - 1, n) = {m}
  BY <1>1, <1>2 DEF LowestRun
<1> QED BY <1>3 DEF FirstFit, MarkUsed

----------------------------------------------------------------------------
(* Types, the list and the quantum.                                        *)

(* The list holds each thread at most once, only threads that were created *)
(* and always the boot thread, which runs in ring 0 and so is never killed *)
(* (pm_init, pm_new_thread, isr_handler).                                  *)
ListOK(list, count) ==
  /\ \A i, j \in 1 .. Len(list) : list[i] = list[j] => i = j
  /\ \A i \in 1 .. Len(list) : list[i] <= count
  /\ \E i \in 1 .. Len(list) : list[i] = 0

ListInv == ListOK(threads, thread_count) /\ privilege[0] = PL0

TypeInv == TypeOK /\ ListInv

----------------------------------------------------------------------------
(* What the helpers return.                                                *)

(* A stack takes a natural number of pages. *)
LEMMA StackBlocksType ==
  ASSUME NEW size \in Nat
  PROVE  StackBlocks(size) \in Nat
BY DEF StackBlocks, BlocksFor, PageSize

(* What the stub pops is a context or garbage. *)
LEMMA PoppedType ==
  ASSUME NEW fs \in SUBSET Frames, NEW base
  PROVE  Popped(fs, base) \in Contexts \cup {Wild}
BY DEF Popped, FramesAt, Frames

(* Writing over frames leaves some of them. *)
LEMMA OverwriteType ==
  ASSUME NEW fs \in SUBSET Frames, NEW a, NEW n
  PROVE  Overwrite(fs, a, n) \in SUBSET Frames
BY DEF Overwrite

(* list_move_to_end keeps a list a list. *)
LEMMA MoveToEndType ==
  ASSUME NEW list \in Seq(Tid), list # <<>>
  PROVE  /\ MoveToEnd(list) \in Seq(Tid)
         /\ MoveToEnd(list) # <<>>
         /\ Len(MoveToEnd(list)) = Len(list)
         /\ \A i \in 1 .. Len(list) - 1 : MoveToEnd(list)[i] = list[i + 1]
         /\ MoveToEnd(list)[Len(list)] = list[1]
BY DEF MoveToEnd

(* proc_schedule keeps the list a permutation of what it was given and     *)
(* every variable it assigns of its type.                                  *)
LEMMA ScheduleType ==
  ASSUME TypeOK,
         NEW list \in Seq(Tid), list # <<>>,
         NEW regs \in [Tid -> SavedRegs], NEW esp0 \in Nat,
         NEW fs \in SUBSET Frames,
         Schedule(list, regs, esp0, fs)
  PROVE  /\ threads' \in {list, MoveToEnd(list)}
         /\ threads' \in Seq(Tid) /\ threads' # <<>>
         /\ quantum' \in [Tid -> 0 .. TimeQuantum]
         /\ thread_regs' \in [Tid -> SavedRegs]
         /\ tss_esp0' \in Nat
         /\ cpu' \in Contexts \cup {Wild}
         /\ frames' \in SUBSET Frames
<1> DEFINE left == Charged(quantum[Head(list)])
           next == Reordered(list, left)
           head == Head(next)
<1>1. Head(list) \in Tid
  OBVIOUS
<1>2. left \in 0 .. TimeQuantum
  <2>1. quantum[Head(list)] \in 0 .. TimeQuantum
    BY <1>1 DEF TypeOK
  <2> QED BY <2>1, SchedulerAssumption DEF Charged
<1>3. next \in Seq(Tid) /\ next # <<>> /\ next \in {list, MoveToEnd(list)}
  <2>1. MoveToEnd(list) \in Seq(Tid) /\ MoveToEnd(list) # <<>>
    BY MoveToEndType
  <2>2. next = MoveToEnd(list) \/ next = list
    BY DEF Reordered
  <2> QED BY <2>1, <2>2
<1>4. head \in Tid
  BY <1>3
<1>5. /\ threads' = next
      /\ quantum' = [quantum EXCEPT ![Head(list)] = Renewed(left)]
      /\ thread_regs' = regs
      /\ tss_esp0' = RingZeroEsp(head, regs[head].ctx, esp0)
      /\ Iret(fs, regs[head].esp - EspOffset)
  BY DEF Schedule
<1> HIDE DEF left, next, head
<1>6. Renewed(left) \in 0 .. TimeQuantum
  BY <1>2, SchedulerAssumption DEF Renewed
<1>7. quantum' \in [Tid -> 0 .. TimeQuantum]
  BY <1>1, <1>5, <1>6 DEF TypeOK
<1>8. tss_esp0' \in Nat
  BY <1>4, <1>5 DEF RingZeroEsp, TypeOK
<1>9. cpu' \in Contexts \cup {Wild} /\ frames' \in SUBSET Frames
  BY <1>5, PoppedType DEF Iret
<1> QED BY <1>3, <1>5, <1>7, <1>8, <1>9

(* The frame of an executing context, and what proc_save does with it.     *)
LEMMA SaveType ==
  ASSUME TypeOK, Executing
  PROVE  /\ FrameOf(cpu) \in Frames
         /\ cpu \in Contexts
         /\ RegsSaved(FrameOf(cpu)) \in [Tid -> SavedRegs]
         /\ EspSaved(FrameOf(cpu)) \in Nat
         /\ Pushed(frames, FrameOf(cpu)) \in SUBSET Frames
<1>1. cpu \in Contexts
  BY DEF TypeOK, Executing
<1>2. FrameBase(cpu) \in Int
  BY <1>1 DEF FrameBase, Contexts, TypeOK, RegsSize, Ring0Size
<1>3. FrameSize(cpu) \in {Ring0Size, RegsSize}
  BY DEF FrameSize
<1>4. FrameOf(cpu) \in Frames
  BY <1>1, <1>2, <1>3 DEF FrameOf, Frames
<1>5. Active \in Tid
  BY DEF TypeOK, Active
<1>6. [esp |-> FrameOf(cpu).base + EspOffset, ctx |-> FrameOf(cpu).ctx]
        \in SavedRegs
  BY <1>1, <1>2 DEF FrameOf, SavedRegs, EspOffset
<1>7. RegsSaved(FrameOf(cpu)) \in [Tid -> SavedRegs]
  BY <1>5, <1>6 DEF RegsSaved, TypeOK
<1>8. EspSaved(FrameOf(cpu)) \in Nat
  BY <1>5 DEF EspSaved, RingZeroEsp, TypeOK
<1>9. Pushed(frames, FrameOf(cpu)) \in SUBSET Frames
  BY <1>4, OverwriteType DEF Pushed, TypeOK
<1> QED BY <1>1, <1>4, <1>7, <1>8, <1>9

----------------------------------------------------------------------------
(* The operations on the list.                                             *)

(* list_move_to_end permutes the list. *)
LEMMA MoveToEndOK ==
  ASSUME NEW list \in Seq(Tid), list # <<>>, NEW count, ListOK(list, count)
  PROVE  ListOK(MoveToEnd(list), count)
<1> DEFINE n == Len(list)
           moved == MoveToEnd(list)
<1>1. /\ Len(moved) = n /\ n \in Nat \ {0}
      /\ \A i \in 1 .. n - 1 : moved[i] = list[i + 1]
      /\ moved[n] = list[1]
  BY MoveToEndType
<1> HIDE DEF moved
<1>2. \A i, j \in 1 .. n : moved[i] = moved[j] => i = j
  <2> TAKE i, j \in 1 .. n
  <2>1. CASE i = n /\ j = n
    BY <2>1
  <2>2. CASE i = n /\ j # n
    <3>1. moved[i] = list[1] /\ moved[j] = list[j + 1]
      BY <1>1, <2>2
    <3>2. 1 \in 1 .. n /\ j + 1 \in 1 .. n /\ 1 # j + 1
      BY <1>1, <2>2
    <3> QED BY <3>1, <3>2 DEF ListOK
  <2>3. CASE i # n /\ j = n
    BY <1>1, <2>3 DEF ListOK
  <2>4. CASE i # n /\ j # n
    BY <1>1, <2>4 DEF ListOK
  <2> QED BY <2>1, <2>2, <2>3, <2>4
<1>3. \A i \in 1 .. n : moved[i] <= count
  <2> TAKE i \in 1 .. n
  <2>1. CASE i = n
    BY <1>1, <2>1 DEF ListOK
  <2>2. CASE i # n
    BY <1>1, <2>2 DEF ListOK
  <2> QED BY <2>1, <2>2
<1>4. \E i \in 1 .. n : moved[i] = 0
  <2> PICK i \in 1 .. n : list[i] = 0
    BY DEF ListOK
  <2>1. CASE i = 1
    BY <1>1, <2>1
  <2>2. CASE i # 1
    <3>1. i - 1 \in 1 .. n - 1
      BY <1>1, <2>2
    <3>2. moved[i - 1] = 0
      BY <1>1, <3>1
    <3> QED BY <1>1, <3>1, <3>2
  <2> QED BY <2>1, <2>2
<1> QED BY <1>1, <1>2, <1>3, <1>4 DEF ListOK, moved

(* Removing a head that is not the boot thread leaves a list. *)
LEMMA TailOK ==
  ASSUME NEW list \in Seq(Tid), list # <<>>, NEW count, ListOK(list, count),
         Head(list) # 0
  PROVE  Tail(list) \in Seq(Tid) /\ Tail(list) # <<>> /\ ListOK(Tail(list), count)
<1>1. /\ Tail(list) \in Seq(Tid)
      /\ Len(Tail(list)) = Len(list) - 1
      /\ \A i \in 1 .. Len(list) - 1 : Tail(list)[i] = list[i + 1]
  OBVIOUS
<1>2. PICK i \in 1 .. Len(list) : list[i] = 0 /\ i # 1
  BY DEF ListOK
<1>3. i - 1 \in 1 .. Len(Tail(list)) /\ Tail(list)[i - 1] = 0
  BY <1>1, <1>2
<1>4. \A k, j \in 1 .. Len(Tail(list)) : Tail(list)[k] = Tail(list)[j] => k = j
  BY <1>1 DEF ListOK
<1>5. \A k \in 1 .. Len(Tail(list)) : Tail(list)[k] <= count
  BY <1>1 DEF ListOK
<1>6. ListOK(Tail(list), count)
  BY <1>3, <1>4, <1>5 DEF ListOK
<1>7. Tail(list) # <<>>
  BY <1>3
<1> QED BY <1>1, <1>6, <1>7

(* list_add_node with the next thread id. *)
LEMMA AddNodeOK ==
  ASSUME NEW list \in Seq(Tid), list # <<>>, NEW count \in Nat,
         ListOK(list, count), count + 1 \in Tid
  PROVE  /\ AddNode(list, count + 1) \in Seq(Tid)
         /\ AddNode(list, count + 1) # <<>>
         /\ ListOK(AddNode(list, count + 1), count + 1)
<1> DEFINE longer == AddNode(list, count + 1)
<1>1. /\ longer \in Seq(Tid) /\ Len(longer) = Len(list) + 1
      /\ \A i \in 1 .. Len(list) : longer[i] = list[i]
      /\ longer[Len(list) + 1] = count + 1
  BY DEF AddNode
<1> HIDE DEF longer
<1>2. \A i \in 1 .. Len(list) : longer[i] # count + 1 /\ longer[i] <= count + 1
  <2> TAKE i \in 1 .. Len(list)
  <2>1. list[i] \in Nat /\ list[i] <= count
    BY SchedulerAssumption DEF ListOK, Tid
  <2> QED BY <1>1, <2>1
<1>3. \A i, j \in 1 .. Len(longer) : longer[i] = longer[j] => i = j
  <2> TAKE i, j \in 1 .. Len(longer)
  <2> HAVE longer[i] = longer[j]
  <2>1. Len(list) \in Nat
    OBVIOUS
  <2>2. CASE i = Len(list) + 1 \/ j = Len(list) + 1
    BY <1>1, <1>2, <2>1, <2>2
  <2>3. CASE i # Len(list) + 1 /\ j # Len(list) + 1
    <3>1. i \in 1 .. Len(list) /\ j \in 1 .. Len(list)
      BY <1>1, <2>1, <2>3
    <3>2. list[i] = list[j]
      BY <1>1, <3>1
    <3> QED BY <3>1, <3>2 DEF ListOK
  <2> QED BY <2>2, <2>3
<1>4. \A i \in 1 .. Len(longer) : longer[i] <= count + 1
  BY <1>1, <1>2
<1>5. \E i \in 1 .. Len(longer) : longer[i] = 0
  BY <1>1 DEF ListOK
<1>6. Len(longer) # 0
  BY <1>1
<1> QED BY <1>1, <1>3, <1>4, <1>5, <1>6 DEF ListOK, longer

----------------------------------------------------------------------------
(* Every action keeps the types and the list.                              *)

LEMMA TypeInit == Init => TypeInv
<1> SUFFICES ASSUME Init PROVE TypeInv
  OBVIOUS
<1>1. 0 \in Tid /\ Tid \subseteq Nat
  BY SchedulerAssumption DEF Tid
<1>2. threads \in Seq(Tid) /\ threads # <<>> /\ Len(threads) = 1
      /\ threads[1] = 0
  BY <1>1 DEF Init
<1>3. ListInv
  BY <1>1, <1>2 DEF ListInv, ListOK, Init
<1>4. quantum \in [Tid -> 0 .. TimeQuantum] /\ privilege \in [Tid -> {PL0, PL3}]
      /\ int_stack_esp \in [Tid -> Nat]
  BY SchedulerAssumption DEF Init
<1>5. thread_regs \in [Tid -> SavedRegs]
  BY SchedulerAssumption DEF Init, SavedRegs
<1>6. cpu \in Contexts
  BY <1>1, SchedulerAssumption DEF Init, Contexts
<1>7. stack \in [Tid -> [base : Nat, length : Nat, top : Nat]]
  BY SchedulerAssumption DEF Init
<1> QED
  BY <1>1, <1>2, <1>3, <1>4, <1>5, <1>6, <1>7, SchedulerAssumption
  DEF Init, TypeInv, TypeOK

(* proc_schedule on a list that is in order, by whichever handler.         *)
LEMMA ScheduleInv ==
  ASSUME TypeInv,
         NEW list \in Seq(Tid), list # <<>>, ListOK(list, thread_count),
         NEW regs \in [Tid -> SavedRegs], NEW esp0 \in Nat,
         NEW fs \in SUBSET Frames,
         Schedule(list, regs, esp0, fs),
         UNCHANGED <<thread_count, privilege, int_stack_esp, memory_bitmap,
                     stack, halted>>
  PROVE  TypeInv'
<1>1. TypeOK'
  BY ScheduleType DEF TypeInv, TypeOK
<1>2. ListInv'
  <2>1. threads' \in {list, MoveToEnd(list)}
    BY ScheduleType DEF TypeInv
  <2>2. ListOK(threads', thread_count)
    BY <2>1, MoveToEndOK
  <2> QED BY <2>2 DEF ListInv, ListOK, TypeInv
<1> QED BY <1>1, <1>2 DEF TypeInv

(* pm_new_thread. *)
LEMMA NewThreadInv ==
  ASSUME TypeInv, NEW size \in StackSizes, NEW pl \in {PL0, PL3},
         NEW grow \in BOOLEAN, pm_new_thread(size, pl, grow)
  PROVE  TypeInv'
<1> DEFINE t == thread_count + 1
           heap == IF grow THEN MarkUsed(memory_bitmap, 1) ELSE memory_bitmap
           cleared == IF grow
                      THEN Overwrite(frames, FirstFit(memory_bitmap, 1) * PageSize,
                                     PageSize)
                      ELSE frames
           n == StackBlocks(size)
           base == FirstFit(heap, n) * PageSize
           taken == MarkUsed(heap, n)
           ctx == NewContext(t, base, size, pl)
           frame == [base |-> base + size, size |-> RegsSize, ctx |-> ctx]
<1>1. /\ AtRing0 /\ thread_count < MaxThreads
      /\ threads' = AddNode(threads, t)
      /\ thread_count' = t
      /\ quantum' = [quantum EXCEPT ![t] = TimeQuantum]
      /\ privilege' = [privilege EXCEPT ![t] = pl]
      /\ thread_regs' = [thread_regs EXCEPT ![t] =
                           [esp |-> base + size + EspOffset, ctx |-> ctx]]
      /\ IF pl = PL3
         THEN /\ int_stack_esp' = [int_stack_esp EXCEPT ![t] =
                                     FirstFit(taken, 1) * PageSize]
              /\ memory_bitmap' = MarkUsed(taken, 1)
         ELSE /\ memory_bitmap' = taken
              /\ UNCHANGED int_stack_esp
      /\ frames' = Pushed(cleared, frame)
      /\ stack' = [stack EXCEPT ![t] = [base |-> base, length |-> n * PageSize,
                                        top |-> ctx.sp]]
      /\ cpu' = [cpu EXCEPT !.intr = TRUE]
      /\ UNCHANGED <<tss_esp0, halted>>
  BY DEF pm_new_thread
<1>2. t \in Tid /\ t # 0 /\ thread_count \in Nat
  <2>1. thread_count \in Tid
    BY DEF TypeInv, TypeOK
  <2>2. thread_count < MaxThreads
    BY <1>1
  <2> QED BY <2>1, <2>2, SchedulerAssumption DEF Tid
<1>3. size \in Nat /\ n \in Nat
  BY StackBlocksType, SchedulerAssumption
<1>4. heap \in SUBSET Pages
  BY MarkUsedType DEF TypeInv, TypeOK
<1>5. taken \in SUBSET Pages
  BY <1>3, <1>4, MarkUsedType
<1>6. base \in Nat
  BY FirstFitType DEF PageSize
<1>7. cleared \in SUBSET Frames
  BY OverwriteType DEF TypeInv, TypeOK
<1> HIDE DEF heap, cleared, taken, n, base
<1>8. ctx \in Contexts /\ ctx.sp \in Nat
  BY <1>2, <1>3, <1>6 DEF NewContext, Contexts, Useresp, Ring0Size
<1>9. frame \in Frames
  BY <1>3, <1>6, <1>8 DEF Frames
<1>10. Pushed(cleared, frame) \in SUBSET Frames
  BY <1>7, <1>9, OverwriteType DEF Pushed
<1>11. thread_regs' \in [Tid -> SavedRegs]
  <2>1. [esp |-> base + size + EspOffset, ctx |-> ctx] \in SavedRegs
    BY <1>3, <1>6, <1>8 DEF SavedRegs, EspOffset
  <2> QED BY <1>1, <2>1 DEF TypeInv, TypeOK
<1>12. stack' \in [Tid -> [base : Nat, length : Nat, top : Nat]]
  <2>1. n * PageSize \in Nat
    BY <1>3 DEF PageSize
  <2>2. [base |-> base, length |-> n * PageSize, top |-> ctx.sp]
          \in [base : Nat, length : Nat, top : Nat]
    BY <1>6, <1>8, <2>1
  <2> QED BY <1>1, <2>2 DEF TypeInv, TypeOK
<1>13. int_stack_esp' \in [Tid -> Nat] /\ memory_bitmap' \in SUBSET Pages
  <2>1. FirstFit(taken, 1) * PageSize \in Nat
    BY FirstFitType DEF PageSize
  <2>2. MarkUsed(taken, 1) \in SUBSET Pages
    BY <1>5, MarkUsedType
  <2> QED BY <1>1, <1>5, <2>1, <2>2 DEF TypeInv, TypeOK
<1> HIDE DEF ctx, frame
<1>14. cpu' \in Contexts
  BY <1>1 DEF TypeInv, TypeOK, AtRing0, Executing, Contexts
<1>15. /\ threads' \in Seq(Tid) /\ threads' # <<>>
       /\ ListOK(threads', thread_count')
  BY <1>1, <1>2, AddNodeOK DEF TypeInv, TypeOK, ListInv
<1>16. /\ quantum' \in [Tid -> 0 .. TimeQuantum]
       /\ privilege' \in [Tid -> {PL0, PL3}]
       /\ privilege'[0] = PL0
  <2>1. quantum' = [quantum EXCEPT ![t] = TimeQuantum]
        /\ privilege' = [privilege EXCEPT ![t] = pl]
    BY <1>1
  <2>2. quantum \in [Tid -> 0 .. TimeQuantum]
        /\ privilege \in [Tid -> {PL0, PL3}] /\ privilege[0] = PL0
    BY DEF TypeInv, TypeOK, ListInv
  <2>3. 0 \in Tid
    BY SchedulerAssumption DEF Tid
  <2> QED BY <1>2, <2>1, <2>2, <2>3, SchedulerAssumption
<1>17. TypeOK'
  BY <1>1, <1>2, <1>10, <1>11, <1>12, <1>13, <1>14, <1>15, <1>16
  DEF TypeInv, TypeOK
<1> QED BY <1>15, <1>16, <1>17 DEF TypeInv, ListInv, ListOK

(* An interrupt that is not the system timer's. *)
LEMMA OtherIrqInv == TypeInv /\ OtherIrq => TypeInv'
<1> SUFFICES ASSUME TypeInv, OtherIrq PROVE TypeInv'
  OBVIOUS
<1>1. Executing
  BY DEF OtherIrq
<1>2. /\ RegsSaved(FrameOf(cpu)) \in [Tid -> SavedRegs]
      /\ EspSaved(FrameOf(cpu)) \in Nat
      /\ Pushed(frames, FrameOf(cpu)) \in SUBSET Frames
  BY <1>1, SaveType DEF TypeInv
<1>3. cpu' \in Contexts \cup {Wild} /\ frames' \in SUBSET Frames
  BY <1>2, PoppedType DEF OtherIrq, Iret
<1> QED BY <1>2, <1>3 DEF OtherIrq, TypeInv, TypeOK, ListInv, ListOK

(* An exception of a user thread: it is not the boot thread, so the list   *)
(* does not become empty.                                                  *)
LEMMA UserFaultInv == TypeInv /\ UserFault => TypeInv'
<1> SUFFICES ASSUME TypeInv, UserFault PROVE TypeInv'
  OBVIOUS
<1>1. Head(threads) # 0
  BY DEF UserFault, TypeInv, ListInv, Active, PL0, PL3
<1>2. Tail(threads) \in Seq(Tid) /\ Tail(threads) # <<>>
      /\ ListOK(Tail(threads), thread_count)
  BY <1>1, TailOK DEF TypeInv, TypeOK, ListInv
<1>3. Overwrite(frames, FrameBase(cpu), FrameSize(cpu)) \in SUBSET Frames
  BY OverwriteType DEF TypeInv, TypeOK
<1>4. thread_regs \in [Tid -> SavedRegs] /\ tss_esp0 \in Nat
  BY DEF TypeInv, TypeOK
<1> QED BY <1>2, <1>3, <1>4, ScheduleInv DEF UserFault

(* A tick or a system call. *)
LEMMA TickInv == TypeInv /\ (TimerIrq \/ Syscall) => TypeInv'
<1> SUFFICES ASSUME TypeInv, TimerIrq \/ Syscall PROVE TypeInv'
  OBVIOUS
<1> DEFINE f == FrameOf(cpu)
<1>1. Executing /\ Schedule(threads, RegsSaved(f), EspSaved(f), Pushed(frames, f))
      /\ UNCHANGED <<thread_count, privilege, int_stack_esp, memory_bitmap,
                     stack, halted>>
  BY DEF TimerIrq, Syscall
<1>2. /\ RegsSaved(f) \in [Tid -> SavedRegs]
      /\ EspSaved(f) \in Nat
      /\ Pushed(frames, f) \in SUBSET Frames
  BY <1>1, SaveType DEF TypeInv
<1>3. threads \in Seq(Tid) /\ threads # <<>> /\ ListOK(threads, thread_count)
  BY DEF TypeInv, TypeOK, ListInv
<1> HIDE DEF f
<1> QED BY <1>1, <1>2, <1>3, ScheduleInv

(* The steps of a thread. *)
LEMMA ComputeInv == TypeInv /\ Compute => TypeInv'
<1> SUFFICES ASSUME TypeInv, Compute PROVE TypeInv'
  OBVIOUS
<1>1. cpu \in Contexts /\ cpu.tid \in Tid
  BY DEF Compute, Executing, TypeInv, TypeOK, Contexts
<1>2. PICK d \in Depths :
        /\ cpu' = [cpu EXCEPT !.sp = stack[cpu.tid].top - d]
        /\ frames' = Overwrite(frames, stack[cpu.tid].top - d, d)
  BY DEF Compute
<1>3. stack[cpu.tid].top - d \in Int
  <2>1. stack[cpu.tid].top \in Nat
    BY <1>1 DEF TypeInv, TypeOK
  <2>2. d \in Nat
    BY SchedulerAssumption
  <2> QED BY <2>1, <2>2
<1>4. cpu' \in Contexts
  BY <1>1, <1>2, <1>3 DEF Contexts
<1>5. frames' \in SUBSET Frames
  BY <1>2, OverwriteType DEF TypeInv, TypeOK
<1> QED BY <1>4, <1>5 DEF Compute, TypeInv, TypeOK, ListInv, ListOK

LEMMA InterruptFlagInv ==
  TypeInv /\ (InterruptBlock \/ InterruptUnblock) => TypeInv'
<1> SUFFICES ASSUME TypeInv, InterruptBlock \/ InterruptUnblock PROVE TypeInv'
  OBVIOUS
<1>1. cpu' \in Contexts
  BY DEF InterruptBlock, InterruptUnblock, AtRing0, Executing, TypeInv,
         TypeOK, Contexts
<1> QED
  BY <1>1 DEF InterruptBlock, InterruptUnblock, TypeInv, TypeOK, ListInv, ListOK

LEMMA KernelFaultInv == TypeInv /\ KernelFault => TypeInv'
BY OverwriteType DEF KernelFault, TypeInv, TypeOK, ListInv, ListOK

(* The types of all variables, and the list in order, at every step. *)
THEOREM TypeCorrect == Spec => []TypeInv
<1>1. Init => TypeInv
  BY TypeInit
<1>2. TypeInv /\ [Next]_vars => TypeInv'
  <2> SUFFICES ASSUME TypeInv, [Next]_vars PROVE TypeInv'
    OBVIOUS
  <2>1. CASE NewThread
    BY <2>1, NewThreadInv DEF NewThread
  <2>2. CASE TimerIrq \/ Syscall
    BY <2>2, TickInv
  <2>3. CASE OtherIrq
    BY <2>3, OtherIrqInv
  <2>4. CASE UserFault
    BY <2>4, UserFaultInv
  <2>5. CASE KernelFault
    BY <2>5, KernelFaultInv
  <2>6. CASE Compute
    BY <2>6, ComputeInv
  <2>7. CASE InterruptBlock \/ InterruptUnblock
    BY <2>7, InterruptFlagInv
  <2>8. CASE UNCHANGED vars
    BY <2>8 DEF vars, TypeInv, TypeOK, ListInv, ListOK
  <2> QED
    BY <2>1, <2>2, <2>3, <2>4, <2>5, <2>6, <2>7, <2>8 DEF Next, Spin
<1> QED BY <1>1, <1>2, PTL DEF Spec

----------------------------------------------------------------------------
(* The round: quanta and turns.                                            *)

(* proc_schedule leaves every waiting thread a whole quantum, and the one  *)
(* it resumes some of it, if it was given a list for which this holds.     *)
LEMMA ScheduleQuantum ==
  ASSUME TypeInv,
         NEW list \in Seq(Tid), list # <<>>, ListOK(list, thread_count),
         NEW regs, NEW esp0, NEW fs,
         \A i \in 2 .. Len(list) : quantum[list[i]] = TimeQuantum,
         quantum[list[1]] > 0,
         Schedule(list, regs, esp0, fs)
  PROVE  QuantumLeft'
<1> DEFINE n == Len(list)
           left == Charged(quantum[Head(list)])
<1>1. /\ threads' = Reordered(list, left)
      /\ quantum' = [quantum EXCEPT ![Head(list)] = Renewed(left)]
  BY DEF Schedule
<1>2. /\ n \in Nat \ {0} /\ Head(list) = list[1] /\ list[1] \in Tid
      /\ \A i \in 2 .. n : list[i] \in Tid /\ list[i] # list[1]
      /\ quantum \in [Tid -> 0 .. TimeQuantum] /\ TimeQuantum \in Nat \ {0, 1}
  <2>1. n \in Nat \ {0} /\ Head(list) = list[1] /\ list[1] \in Tid
    OBVIOUS
  <2>2. \A i \in 2 .. n : list[i] \in Tid /\ list[i] # list[1]
    BY <2>1 DEF ListOK
  <2>3. quantum \in [Tid -> 0 .. TimeQuantum] /\ TimeQuantum \in Nat \ {0, 1}
    BY SchedulerAssumption DEF TypeInv, TypeOK
  <2> QED BY <2>1, <2>2, <2>3
<1>3. quantum[list[1]] \in Nat
  BY <1>2
<1>4. left = quantum[list[1]] - 1 /\ left \in Nat /\ (left = 0 \/ left > 0)
  BY <1>2, <1>3 DEF Charged
<1> HIDE DEF left
<1>5. \A i \in 2 .. n : quantum'[list[i]] = TimeQuantum
  BY <1>1, <1>2
<1>6. quantum'[list[1]] = Renewed(left)
  BY <1>1, <1>2
<1>7. CASE left = 0
  <2>1. quantum'[list[1]] = TimeQuantum
    BY <1>6, <1>7 DEF Renewed
  <2>2. threads' = MoveToEnd(list)
    BY <1>1, <1>7 DEF Reordered
  <2>3. /\ Len(threads') = n
        /\ \A i \in 1 .. n - 1 : threads'[i] = list[i + 1]
        /\ threads'[n] = list[1]
        /\ threads' # <<>>
    BY <2>2, MoveToEndType
  <2>4. \A i \in 1 .. n : quantum'[threads'[i]] = TimeQuantum
    <3> TAKE i \in 1 .. n
    <3>1. CASE i = n
      BY <2>1, <2>3, <3>1
    <3>2. CASE i # n
      <4>1. i \in 1 .. n - 1 /\ i + 1 \in 2 .. n
        BY <1>2, <3>2
      <4> QED BY <1>5, <2>3, <4>1
    <3> QED BY <3>1, <3>2
  <2>5. Active' = threads'[1]
    BY <2>3 DEF Active
  <2>6. \A t \in Waiting' : quantum'[t] = TimeQuantum
    BY <1>2, <2>3, <2>4 DEF Waiting
  <2> QED BY <1>2, <2>4, <2>5, <2>6 DEF QuantumLeft
<1>8. CASE left > 0
  <2>1. threads' = list /\ quantum'[list[1]] > 0
    BY <1>1, <1>4, <1>6, <1>8 DEF Reordered, Renewed
  <2>2. Active' = list[1] /\ Waiting' = {list[i] : i \in 2 .. n}
    BY <1>2, <2>1 DEF Active, Waiting
  <2> QED BY <1>5, <2>1, <2>2 DEF QuantumLeft
<1> QED BY <1>4, <1>7, <1>8

(* The same, for the members of the list.                                  *)
LEMMA QuantumOfList ==
  ASSUME TypeInv, QuantumLeft
  PROVE  /\ \A i \in 2 .. Len(threads) : quantum[threads[i]] = TimeQuantum
         /\ quantum[threads[1]] > 0
<1>1. threads \in Seq(Tid) /\ threads # <<>>
  BY DEF TypeInv, TypeOK
<1>2. Active = threads[1]
  BY <1>1 DEF Active
<1> QED BY <1>2 DEF QuantumLeft, Waiting

(* The successor of a killed thread pays the tick of the kill.             *)
LEMMA UserFaultQuantum == TypeInv /\ QuantumLeft /\ UserFault => QuantumLeft'
<1> SUFFICES ASSUME TypeInv, QuantumLeft, UserFault PROVE QuantumLeft'
  OBVIOUS
<1> DEFINE list == Tail(threads)
<1>1. threads \in Seq(Tid) /\ threads # <<>> /\ ListOK(threads, thread_count)
      /\ Head(threads) # 0
  <2>1. /\ threads \in Seq(Tid) /\ threads # <<>>
        /\ ListOK(threads, thread_count) /\ privilege[0] = PL0
    BY DEF TypeInv, TypeOK, ListInv
  <2>2. privilege[Head(threads)] = PL3
    BY DEF UserFault, Active
  <2> QED BY <2>1, <2>2 DEF PL0, PL3
<1>2. list \in Seq(Tid) /\ list # <<>> /\ ListOK(list, thread_count)
  BY <1>1, TailOK
<1>3. /\ Len(list) = Len(threads) - 1 /\ Len(list) \in Nat \ {0}
      /\ \A i \in 1 .. Len(list) : list[i] = threads[i + 1]
  <2>1. /\ Len(list) = Len(threads) - 1
        /\ \A i \in 1 .. Len(threads) - 1 : list[i] = threads[i + 1]
    BY <1>1
  <2>2. Len(list) \in Nat \ {0}
    BY <1>2
  <2> QED BY <2>1, <2>2
<1>4. Schedule(list, thread_regs, tss_esp0,
               Overwrite(frames, FrameBase(cpu), FrameSize(cpu)))
  BY DEF UserFault
<1> HIDE DEF list
<1>5. \A i \in 1 .. Len(list) : quantum[list[i]] = TimeQuantum
  <2> TAKE i \in 1 .. Len(list)
  <2>1. i + 1 \in 2 .. Len(threads)
    BY <1>3
  <2> QED BY <1>3, <2>1, QuantumOfList
<1>6. quantum[list[1]] > 0
  BY <1>3, <1>5, SchedulerAssumption
<1> QED BY <1>2, <1>3, <1>4, <1>5, <1>6, ScheduleQuantum

(* A new thread waits with a quantum of its own, at the tail.              *)
LEMMA NewThreadQuantum == TypeInv /\ QuantumLeft /\ NewThread => QuantumLeft'
<1> SUFFICES ASSUME TypeInv, QuantumLeft,
                    NEW size \in StackSizes, NEW pl \in {PL0, PL3},
                    NEW grow \in BOOLEAN, pm_new_thread(size, pl, grow)
             PROVE  QuantumLeft'
  BY DEF NewThread
<1> DEFINE t == thread_count + 1
           n == Len(threads)
<1>1. /\ threads' = Append(threads, t) /\ thread_count < MaxThreads
      /\ quantum' = [quantum EXCEPT ![t] = TimeQuantum]
  BY DEF pm_new_thread, AddNode
<1>2. /\ threads \in Seq(Tid) /\ n \in Nat \ {0} /\ thread_count \in Nat
      /\ t \in Tid /\ quantum \in [Tid -> 0 .. TimeQuantum]
  <2>1. threads \in Seq(Tid) /\ threads # <<>> /\ thread_count \in Tid
        /\ quantum \in [Tid -> 0 .. TimeQuantum]
    BY DEF TypeInv, TypeOK
  <2>2. n \in Nat \ {0}
    BY <2>1
  <2> QED BY <1>1, <2>1, <2>2, SchedulerAssumption DEF Tid
<1>3. \A i \in 1 .. n : threads[i] \in Tid /\ threads[i] # t
  <2> TAKE i \in 1 .. n
  <2>1. threads[i] \in Tid /\ threads[i] <= thread_count
    BY <1>2 DEF TypeInv, ListInv, ListOK
  <2> QED BY <1>2, <2>1, SchedulerAssumption DEF Tid
<1>4. /\ Len(threads') = n + 1 /\ threads' # <<>> /\ threads'[n + 1] = t
      /\ \A i \in 1 .. n : threads'[i] = threads[i]
  BY <1>1, <1>2
<1>5. quantum'[t] = TimeQuantum
      /\ \A i \in 1 .. n : quantum'[threads[i]] = quantum[threads[i]]
  BY <1>1, <1>2, <1>3
<1>6. \A i \in 2 .. n + 1 : quantum'[threads'[i]] = TimeQuantum
  <2> TAKE i \in 2 .. n + 1
  <2>1. CASE i = n + 1
    BY <1>4, <1>5, <2>1
  <2>2. CASE i # n + 1
    <3>1. i \in 1 .. n /\ i \in 2 .. n
      BY <1>2, <2>2
    <3> QED BY <1>4, <1>5, <3>1, QuantumOfList
  <2> QED BY <2>1, <2>2
<1>7. quantum'[threads'[1]] > 0
  BY <1>2, <1>4, <1>5, QuantumOfList
<1> QED BY <1>2, <1>4, <1>6, <1>7 DEF QuantumLeft, Active, Waiting

(* Steps that leave the list and the quanta alone.                         *)
LEMMA RoundStays ==
  ASSUME QuantumLeft, UNCHANGED <<threads, quantum>>
  PROVE  QuantumLeft'
BY DEF QuantumLeft, Active, Waiting

(* A thread that waits has its whole quantum before it, and the one that   *)
(* runs has some of it left (pm_new_thread, proc_schedule, isr_handler).   *)
THEOREM QuantumAlwaysLeft == Spec => []QuantumLeft
<1>1. Init => QuantumLeft
  BY SchedulerAssumption DEF Init, QuantumLeft, Active, Waiting, Tid
<1>2. TypeInv /\ QuantumLeft /\ [Next]_vars => QuantumLeft'
  <2> SUFFICES ASSUME TypeInv, QuantumLeft, [Next]_vars PROVE QuantumLeft'
    OBVIOUS
  <2>1. CASE NewThread
    BY <2>1, NewThreadQuantum
  <2>2. CASE TimerIrq \/ Syscall
    <3>1. PICK regs, esp0, fs : Schedule(threads, regs, esp0, fs)
      BY <2>2 DEF TimerIrq, Syscall
    <3> QED
      BY <3>1, QuantumOfList, ScheduleQuantum DEF TypeInv, TypeOK, ListInv
  <2>3. CASE UserFault
    BY <2>3, UserFaultQuantum
  <2>4. CASE UNCHANGED <<threads, quantum>>
    BY <2>4, RoundStays
  <2> QED
    BY <2>1, <2>2, <2>3, <2>4
    DEF Next, Spin, OtherIrq, KernelFault, Compute, InterruptBlock,
        InterruptUnblock, vars
<1> QED BY <1>1, <1>2, TypeCorrect, PTL DEF Spec

(* list_add_node, list_move_to_end and list_remove_node find a thread at   *)
(* the one place where it is in the list.                                  *)
LEMMA PositionOf ==
  ASSUME NEW list \in Seq(Tid), NEW count, ListOK(list, count),
         NEW i \in 1 .. Len(list)
  PROVE  Position(list, list[i]) = i
BY DEF Position, ListOK

(* A thread of the list stands no later in the list proc_schedule leaves,  *)
(* unless it is the head that has used up its quantum.                     *)
LEMMA ScheduleOrder ==
  ASSUME TypeInv, NEW list \in Seq(Tid), list # <<>>, ListOK(list, thread_count),
         NEW regs, NEW esp0, NEW fs, Schedule(list, regs, esp0, fs),
         NEW i \in 1 .. Len(list),
         i # 1 \/ Charged(quantum[list[1]]) > 0
  PROVE  /\ threads' \in Seq(Tid) /\ ListOK(threads', thread_count)
         /\ \E j \in 1 .. Len(threads') : j <= i /\ threads'[j] = list[i]
<1> DEFINE left == Charged(quantum[Head(list)])
<1>1. threads' = Reordered(list, left)
  BY DEF Schedule
<1>2. Head(list) = list[1]
  OBVIOUS
<1> HIDE DEF left
<1>3. CASE threads' = list
  BY <1>3
<1>4. CASE threads' = MoveToEnd(list) /\ left <= 0
  <2>1. i # 1
    <3>1. ~(left > 0)
      <4>1. quantum[list[1]] \in Nat /\ Head(list) = list[1]
        <5>1. list[1] \in Tid
          OBVIOUS
        <5> QED BY <5>1, SchedulerAssumption DEF TypeInv, TypeOK
      <4>2. left \in Int
        BY <4>1 DEF left, Charged
      <4> QED BY <1>4, <4>2
    <3> QED BY <1>2, <3>1 DEF left
  <2>2. i - 1 \in 1 .. Len(list) - 1 /\ Len(list) \in Nat
    BY <2>1
  <2>3. /\ threads' \in Seq(Tid) /\ ListOK(threads', thread_count)
        /\ Len(threads') = Len(list) /\ threads'[i - 1] = list[(i - 1) + 1]
    BY <1>4, <2>2, MoveToEndType, MoveToEndOK
  <2> QED BY <2>2, <2>3
<1> QED BY <1>1, <1>3, <1>4 DEF Reordered

(* A waiting thread stays in the list and moves only towards the head.     *)
LEMMA OrderKept ==
  ASSUME TypeInv, QuantumLeft, Next, NEW i \in 2 .. Len(threads)
  PROVE  /\ threads' \in Seq(Tid)
         /\ \E c : ListOK(threads', c)
         /\ \E j \in 1 .. Len(threads') : j <= i /\ threads'[j] = threads[i]
<1>1. /\ threads \in Seq(Tid) /\ threads # <<>>
      /\ ListOK(threads, thread_count)
      /\ thread_count \in Tid
  BY DEF TypeInv, TypeOK, ListInv
<1>2. CASE NewThread
  <2>1. threads' = AddNode(threads, thread_count + 1)
        /\ thread_count < MaxThreads
    BY <1>2 DEF NewThread, pm_new_thread
  <2>2. thread_count + 1 \in Tid /\ thread_count \in Nat
    BY <1>1, <2>1, SchedulerAssumption DEF Tid
  <2>3. threads' \in Seq(Tid) /\ ListOK(threads', thread_count + 1)
    BY <1>1, <2>1, <2>2, AddNodeOK
  <2>4. i \in 1 .. Len(threads') /\ threads'[i] = threads[i]
    BY <1>1, <2>1 DEF AddNode
  <2> QED BY <2>3, <2>4
<1>3. CASE TimerIrq \/ Syscall
  <2>1. PICK regs, esp0, fs : Schedule(threads, regs, esp0, fs)
    BY <1>3 DEF TimerIrq, Syscall
  <2> QED BY <1>1, <2>1, ScheduleOrder
<1>4. CASE UserFault
  <2> DEFINE list == Tail(threads)
  <2>1. PICK regs, esp0, fs : Schedule(list, regs, esp0, fs)
    BY <1>4 DEF UserFault
  <2>2. Head(threads) # 0
    BY <1>4 DEF UserFault, TypeInv, ListInv, Active, PL0, PL3
  <2>3. list \in Seq(Tid) /\ list # <<>> /\ ListOK(list, thread_count)
    BY <1>1, <2>2, TailOK
  <2>4. /\ i - 1 \in 1 .. Len(list) /\ list[i - 1] = threads[i]
        /\ list[1] = threads[2] /\ 2 \in 2 .. Len(threads)
    BY <1>1
  <2> HIDE DEF list
  <2>5. Charged(quantum[list[1]]) > 0
    <3>1. quantum[list[1]] = TimeQuantum
      BY <2>4, QuantumOfList
    <3> QED BY <3>1, SchedulerAssumption DEF Charged
  <2>6. /\ threads' \in Seq(Tid) /\ ListOK(threads', thread_count)
        /\ \E j \in 1 .. Len(threads') : j <= i - 1 /\ threads'[j] = list[i - 1]
    BY <2>1, <2>3, <2>4, <2>5, ScheduleOrder
  <2> QED BY <2>4, <2>6
<1>5. CASE UNCHANGED threads
  BY <1>1, <1>5
<1> QED
  BY <1>2, <1>3, <1>4, <1>5
  DEF Next, Spin, OtherIrq, KernelFault, Compute, InterruptBlock,
      InterruptUnblock, vars

(* No thread is lost while it waits, and none overtakes it: in particular  *)
(* the kill of the running thread, after which its successor pays a tick,  *)
(* never sends that successor to the tail, because its quantum is whole.   *)
THEOREM NoThreadOvertakes == Spec => NoOvertaking
<1>1. TypeInv /\ QuantumLeft /\ [Next]_vars =>
        [\A t \in Waiting :
           /\ t \in Live'
           /\ Position(threads', t) <= Position(threads, t)]_vars
  <2> SUFFICES ASSUME TypeInv, QuantumLeft, Next, NEW t \in Waiting
               PROVE  /\ t \in Live'
                      /\ Position(threads', t) <= Position(threads, t)
    OBVIOUS
  <2>1. PICK i \in 2 .. Len(threads) : t = threads[i]
    BY DEF Waiting
  <2>2. Position(threads, t) = i
    BY <2>1, PositionOf DEF TypeInv, TypeOK, ListInv
  <2>3. PICK j \in 1 .. Len(threads') : j <= i /\ threads'[j] = t
    BY <2>1, OrderKept
  <2>4. Position(threads', t) = j
    BY <2>1, <2>3, OrderKept, PositionOf
  <2> QED BY <2>2, <2>3, <2>4 DEF Live
<1> QED BY <1>1, TypeCorrect, QuantumAlwaysLeft, PTL DEF Spec, NoOvertaking

----------------------------------------------------------------------------
(* Where stacks and frames lie.                                            *)

(* Every stack takes at least one page.                                    *)
LEMMA StackBlocksPositive ==
  ASSUME NEW size \in StackSizes
  PROVE  StackBlocks(size) \in Nat \ {0}
<1>1. size \in Nat
  BY SchedulerAssumption
<1> QED BY <1>1 DEF StackBlocks, BlocksFor, PageSize

----------------------------------------------------------------------------
(* Threads keep to themselves.                                             *)

(* The types of what ContextInv computes with. *)
LEMMA RegionType ==
  ASSUME TypeInv, NEW t \in Created
  PROVE  /\ t \in Tid
         /\ stack[t].base \in Nat /\ stack[t].length \in Nat
         /\ stack[t].top \in Nat /\ End(t) \in Nat
<1>1. thread_count \in Tid
  BY DEF TypeInv, TypeOK
<1>2. t \in Tid
  BY <1>1, SchedulerAssumption DEF Created, Tid
<1>3. stack[t] \in [base : Nat, length : Nat, top : Nat]
  BY <1>2 DEF TypeInv, TypeOK
<1> QED BY <1>2, <1>3 DEF End

(* What lies on the stack of one thread does not overlap the frame of      *)
(* another.                                                                *)
LEMMA Separate ==
  ASSUME TypeInv, MemoryInv, NEW t \in Created, NEW g \in Frames, FrameInv(g),
         g.ctx.tid # t,
         NEW a \in Int, NEW n \in Int, stack[t].base <= a, a + n <= End(t)
  PROVE  ~Overlap(a, n, g.base, g.size)
<1> DEFINE u == g.ctx.tid
<1>1. u \in Created /\ Within(g, stack[u].base, stack[u].length)
  BY DEF FrameInv
<1>2. g.base \in Int /\ g.size \in Int
  BY DEF Frames, Ring0Size, RegsSize
<1>3. stack[u].base <= g.base /\ g.base + g.size <= End(u)
  BY <1>1 DEF Within, End
<1>4. t \in Nat /\ u \in Nat
  BY <1>1, RegionType, SchedulerAssumption DEF Tid
<1>5. End(t) <= stack[u].base \/ End(u) <= stack[t].base
  BY <1>1, <1>4 DEF MemoryInv
<1>6. /\ stack[t].base \in Nat /\ End(t) \in Nat
      /\ stack[u].base \in Nat /\ End(u) \in Nat
  BY <1>1, RegionType
<1> QED BY <1>2, <1>3, <1>5, <1>6 DEF Overlap

(* Writing on the stack of a thread that has no frame leaves the frames.   *)
LEMMA OverwriteOwn ==
  ASSUME TypeInv, MemoryInv, NEW t \in Created,
         \A g \in frames : FrameInv(g) /\ g.ctx.tid # t,
         NEW a \in Int, NEW n \in Int, stack[t].base <= a, a + n <= End(t)
  PROVE  Overwrite(frames, a, n) = frames
<1>1. \A g \in frames : ~Overlap(a, n, g.base, g.size)
  BY Separate DEF TypeInv, TypeOK
<1> QED BY <1>1 DEF Overwrite

(* Popping the frame of a thread finds that frame and no other.            *)
LEMMA PoppedFrame ==
  ASSUME TypeInv, MemoryInv, NEW fs \in SUBSET Frames, FramesInv(fs),
         NEW f \in fs
  PROVE  FramesAt(fs, f.base) = {f} /\ Popped(fs, f.base) = f.ctx
<1>1. \A g \in fs : g.base = f.base => g = f
  <2> SUFFICES ASSUME NEW g \in fs, g.base = f.base, g.ctx.tid # f.ctx.tid
               PROVE  FALSE
    BY DEF FramesInv
  <2>1. FrameInv(f) /\ FrameInv(g)
    BY DEF FramesInv
  <2>2. /\ f.base \in Int /\ f.size \in Int /\ f.size > 0
        /\ g.size \in Int /\ g.size > 0
    BY DEF Frames, Ring0Size, RegsSize
  <2>3. f.ctx.tid \in Created /\ stack[f.ctx.tid].base <= f.base
        /\ f.base + f.size <= End(f.ctx.tid)
    BY <2>1 DEF FrameInv, Within, End
  <2>4. ~Overlap(f.base, f.size, g.base, g.size)
    BY <2>1, <2>2, <2>3, Separate
  <2> QED BY <2>2, <2>4 DEF Overlap
<1>2. FramesAt(fs, f.base) = {f}
  BY <1>1 DEF FramesAt
<1> QED BY <1>2 DEF Popped

----------------------------------------------------------------------------
(* An interrupt.                                                           *)

(* The active thread is a created one, and no waiting one. *)
LEMMA ActiveCreated ==
  ASSUME TypeInv
  PROVE  /\ Active \in Created /\ Active \notin Waiting
         /\ Waiting \subseteq Created
<1>1. /\ threads \in Seq(Tid) /\ threads # <<>>
      /\ ListOK(threads, thread_count)
  BY DEF TypeInv, TypeOK, ListInv
<1>2. \A i \in 1 .. Len(threads) : threads[i] \in Created
  <2> TAKE i \in 1 .. Len(threads)
  <2>1. threads[i] \in Nat /\ threads[i] <= thread_count
    BY <1>1, SchedulerAssumption DEF ListOK, Tid
  <2>2. thread_count \in Nat
    BY SchedulerAssumption DEF TypeInv, TypeOK, Tid
  <2> QED BY <2>1, <2>2 DEF Created
<1>3. Active = threads[1] /\ 1 \in 1 .. Len(threads)
  BY <1>1 DEF Active
<1>4. Waiting \subseteq Created
  BY <1>2 DEF Waiting
<1>5. Active \notin Waiting
  BY <1>1, <1>3 DEF Waiting, ListOK
<1> QED BY <1>2, <1>3, <1>4, <1>5

(* The frame that an interrupt of the active thread pushes. *)
LEMMA ActiveFrame ==
  ASSUME TypeInv, ContextInv, Executing
  PROVE  /\ FrameOf(cpu) \in Frames
         /\ FrameInv(FrameOf(cpu))
         /\ FrameOf(cpu).ctx = cpu /\ cpu.tid = Active
<1> DEFINE f == FrameOf(cpu)
           t == Active
<1>1. f \in Frames /\ f.base = FrameBase(cpu) /\ f.size = FrameSize(cpu)
      /\ f.ctx = cpu
  BY SaveType DEF TypeInv, FrameOf
<1>2. t \in Created
  BY ActiveCreated
<1>3. /\ stack[t].base \in Nat /\ End(t) \in Nat /\ stack[t].top \in Nat
      /\ End(t) = stack[t].base + stack[t].length
  BY <1>2, RegionType DEF End
<1>4. /\ cpu \in Contexts /\ cpu.tid = t /\ cpu.cs = privilege[t]
      /\ LowestSp(t) <= cpu.sp /\ cpu.sp <= stack[t].top
      /\ cpu.cs = PL3 => tss_esp0 = int_stack_esp[t]
  BY DEF ContextInv, RunningInv, ContextOf
<1>5. /\ stack[t].top <= End(t)
      /\ privilege[t] = PL3 => /\ int_stack_esp[t] = End(t)
                               /\ stack[t].top + RegsSize <= End(t)
  BY <1>2 DEF ContextInv, StackInv
<1>6. CASE cpu.cs = PL3
  <2>1. LowestSp(t) = stack[t].base
    BY <1>3, <1>4, <1>6 DEF LowestSp, PL0, PL3
  <2>2. f.base = End(t) - RegsSize /\ f.size = RegsSize
    BY <1>1, <1>4, <1>5, <1>6 DEF FrameBase, FrameSize
  <2>3. cpu.sp \in Int
    BY <1>4 DEF Contexts
  <2>4. Within(f, stack[t].base, stack[t].length) /\ stack[t].top <= f.base
    BY <1>3, <1>4, <1>5, <1>6, <2>1, <2>2, <2>3 DEF Within, RegsSize
  <2> QED BY <1>1, <1>2, <1>4, <2>4 DEF FrameInv
<1>7. CASE cpu.cs = PL0
  <2>1. LowestSp(t) = stack[t].base + Ring0Size
    BY <1>4, <1>7 DEF LowestSp
  <2>2. f.base = cpu.sp - Ring0Size /\ f.size = Ring0Size
    BY <1>1, <1>7 DEF FrameBase, FrameSize, PL0, PL3
  <2>3. cpu.sp \in Int
    BY <1>4 DEF Contexts
  <2>4. Within(f, stack[t].base, stack[t].length)
        /\ f.base + f.size <= f.ctx.sp
    BY <1>1, <1>3, <1>4, <1>5, <2>1, <2>2, <2>3 DEF Within, Ring0Size
  <2> QED BY <1>1, <1>2, <1>4, <2>4 DEF FrameInv
<1> QED BY <1>1, <1>4, <1>6, <1>7 DEF Contexts

(* An interrupt touches no other frame. *)
LEMMA ActivePush ==
  ASSUME TypeInv, ContextInv, Executing
  PROVE  /\ Overwrite(frames, FrameBase(cpu), FrameSize(cpu)) = frames
         /\ Pushed(frames, FrameOf(cpu)) = frames \cup {FrameOf(cpu)}
         /\ FramesInv(frames \cup {FrameOf(cpu)})
<1> DEFINE f == FrameOf(cpu)
<1>1. f \in Frames /\ FrameInv(f) /\ f.ctx.tid = Active
  BY ActiveFrame
<1>2. f.base = FrameBase(cpu) /\ f.size = FrameSize(cpu)
  BY DEF FrameOf
<1> HIDE DEF f
<1>3. Active \in Created /\ Active \notin Waiting
  BY ActiveCreated
<1>4. \A g \in frames : FrameInv(g) /\ g.ctx.tid # Active
  BY <1>3 DEF ContextInv, FramesInv
<1>5. /\ f.base \in Int /\ f.size \in Int
      /\ stack[Active].base <= f.base /\ f.base + f.size <= End(Active)
  BY <1>1 DEF FrameInv, Within, End, Frames, Ring0Size, RegsSize
<1>6. Overwrite(frames, f.base, f.size) = frames
  BY <1>3, <1>4, <1>5, OverwriteOwn DEF ContextInv
<1>7. FramesInv(frames \cup {f})
  BY <1>1, <1>4 DEF FramesInv, ContextInv
<1> QED BY <1>2, <1>6, <1>7 DEF Pushed, f

(* list_move_to_end keeps the members of the list. *)
LEMMA MoveToEndMembers ==
  ASSUME NEW list \in Seq(Tid), list # <<>>
  PROVE  /\ \A i \in 1 .. Len(MoveToEnd(list)) :
              \E j \in 1 .. Len(list) : MoveToEnd(list)[i] = list[j]
         /\ \A j \in 1 .. Len(list) :
              \E i \in 1 .. Len(MoveToEnd(list)) : MoveToEnd(list)[i] = list[j]
<1> DEFINE n == Len(list)
           moved == MoveToEnd(list)
<1>1. /\ Len(moved) = n /\ n \in Nat \ {0}
      /\ \A i \in 1 .. n - 1 : moved[i] = list[i + 1]
      /\ moved[n] = list[1]
  BY MoveToEndType
<1> HIDE DEF moved
<1>2. \A i \in 1 .. n : \E j \in 1 .. n : moved[i] = list[j]
  <2> TAKE i \in 1 .. n
  <2>1. CASE i = n
    BY <1>1, <2>1
  <2>2. CASE i # n
    <3>1. i + 1 \in 1 .. n /\ moved[i] = list[i + 1]
      BY <1>1, <2>2
    <3> QED BY <3>1
  <2> QED BY <2>1, <2>2
<1>3. \A j \in 1 .. n : \E i \in 1 .. n : moved[i] = list[j]
  <2> TAKE j \in 1 .. n
  <2>1. CASE j = 1
    BY <1>1, <2>1
  <2>2. CASE j # 1
    <3>1. j - 1 \in 1 .. n /\ moved[j - 1] = list[j]
      BY <1>1, <2>2
    <3> QED BY <3>1
  <2> QED BY <2>1, <2>2
<1> QED BY <1>1, <1>2, <1>3 DEF moved

(* proc_schedule: if every thread of the list can be resumed, the one at   *)
(* the head is, and every other one still can be.                          *)
LEMMA ScheduleContext ==
  ASSUME TypeInv, MemoryInv, StackInv,
         NEW list \in Seq(Tid), list # <<>>, ListOK(list, thread_count),
         NEW regs \in [Tid -> SavedRegs], NEW esp0 \in Nat,
         NEW fs \in SUBSET Frames, FramesInv(fs),
         \A f \in fs : \E i \in 1 .. Len(list) : f.ctx.tid = list[i],
         \A i \in 1 .. Len(list) : Resumable(list[i], regs, fs),
         Schedule(list, regs, esp0, fs),
         UNCHANGED <<thread_count, privilege, int_stack_esp, memory_bitmap,
                     stack, halted>>
  PROVE  ContextInv'
<1> DEFINE next == Reordered(list, Charged(quantum[Head(list)]))
           head == Head(next)
<1>1. /\ threads' = next
      /\ thread_regs' = regs
      /\ tss_esp0' = RingZeroEsp(head, regs[head].ctx, esp0)
      /\ Iret(fs, regs[head].esp - EspOffset)
  BY DEF Schedule
<1>2. next = list \/ next = MoveToEnd(list)
  BY DEF Reordered
<1> HIDE DEF next
<1>3. /\ next \in Seq(Tid) /\ next # <<>> /\ ListOK(next, thread_count)
      /\ \A i \in 1 .. Len(next) : \E j \in 1 .. Len(list) : next[i] = list[j]
      /\ \A j \in 1 .. Len(list) : \E i \in 1 .. Len(next) : next[i] = list[j]
  <2>1. CASE next = list
    BY <2>1
  <2>2. CASE next = MoveToEnd(list)
    BY <2>2, MoveToEndType, MoveToEndOK, MoveToEndMembers
  <2> QED BY <1>2, <2>1, <2>2
<1>4. \A i \in 1 .. Len(next) : Resumable(next[i], regs, fs)
  BY <1>3
<1>5. head = next[1] /\ 1 \in 1 .. Len(next)
  BY <1>3
<1>6. PICK f \in fs : f.base = regs[head].esp - EspOffset
                      /\ f.ctx = regs[head].ctx
  BY <1>4, <1>5 DEF Resumable
<1>7. cpu' = regs[head].ctx /\ frames' = fs \ {f}
  BY <1>1, <1>6, PoppedFrame DEF Iret
<1>8. ContextOf(regs[head].ctx, head)
  BY <1>4, <1>5 DEF Resumable
<1>9. f.ctx.tid = head
  BY <1>6, <1>8 DEF ContextOf
<1>10. Active' = head /\ Waiting' = {next[i] : i \in 2 .. Len(next)}
  BY <1>1 DEF Active, Waiting
<1>11. MemoryInv' /\ StackInv'
  BY DEF MemoryInv, StackInv, Created, End, LowestSp
<1>12. FramesInv(frames)'
  BY <1>7 DEF FramesInv, FrameInv, Created
<1>13. \A g \in frames' : g.ctx.tid \in Waiting'
  <2> SUFFICES ASSUME NEW g \in fs, g # f PROVE g.ctx.tid \in Waiting'
    BY <1>7
  <2>1. PICK i \in 1 .. Len(next) : g.ctx.tid = next[i]
    BY <1>3
  <2>2. g.ctx.tid # f.ctx.tid
    BY DEF FramesInv
  <2>3. i # 1
    BY <1>5, <1>9, <2>1, <2>2
  <2>4. i \in 2 .. Len(next)
    BY <1>3, <2>3
  <2> QED BY <1>10, <2>1, <2>4
<1>14. \A t \in Waiting' : Resumable(t, thread_regs, frames)'
  <2> SUFFICES ASSUME NEW t \in Waiting'
               PROVE  Resumable(t, thread_regs, frames)'
    OBVIOUS
  <2>1. PICK i \in 1 .. Len(next) : t = next[i] /\ i # 1
    <3>1. PICK i \in 2 .. Len(next) : t = next[i]
      BY <1>10
    <3>2. Len(next) \in Nat
      BY <1>3
    <3>3. i \in 1 .. Len(next) /\ i # 1
      BY <3>2
    <3> QED BY <3>1, <3>3
  <2>2. t # head
    BY <1>3, <1>5, <2>1 DEF ListOK
  <2>3. Resumable(t, regs, fs)
    BY <1>4, <2>1
  <2>4. PICK g \in fs : g.base = regs[t].esp - EspOffset /\ g.ctx = regs[t].ctx
    BY <2>3 DEF Resumable
  <2>5. ContextOf(regs[t].ctx, t)
    BY <2>3 DEF Resumable
  <2>6. g \in frames'
    BY <1>7, <1>9, <2>2, <2>4, <2>5 DEF ContextOf
  <2>7. ContextOf(thread_regs[t].ctx, t)'
    BY <1>1, <2>5 DEF ContextOf, LowestSp
  <2> QED BY <1>1, <2>4, <2>6, <2>7 DEF Resumable
<1>15. RunningInv'
  <2>1. ContextOf(cpu, Active)'
    BY <1>7, <1>8, <1>10 DEF ContextOf, LowestSp
  <2>2. cpu'.cs = PL3 => tss_esp0' = int_stack_esp'[Active']
    BY <1>1, <1>7, <1>10 DEF RingZeroEsp
  <2> QED BY <2>1, <2>2 DEF RunningInv
<1> QED BY <1>11, <1>12, <1>13, <1>14, <1>15 DEF ContextInv

----------------------------------------------------------------------------
(* Every action keeps ContextInv.                                          *)

(* After proc_save the interrupted thread can be resumed as well.          *)
LEMMA SavedResumable ==
  ASSUME TypeInv, ContextInv, Executing
  PROVE  LET f == FrameOf(cpu)
         IN \A i \in 1 .. Len(threads) :
              Resumable(threads[i], RegsSaved(f), frames \cup {f})
<1> DEFINE f == FrameOf(cpu)
<1>1. f.ctx = cpu /\ f.base \in Int
  BY ActiveFrame DEF Frames
<1>2. /\ threads \in Seq(Tid) /\ threads # <<>>
      /\ ListOK(threads, thread_count)
      /\ thread_regs \in [Tid -> SavedRegs]
  BY DEF TypeInv, TypeOK, ListInv
<1>3. Active = threads[1]
  BY <1>2 DEF Active
<1>4. ContextOf(cpu, Active)
  BY DEF ContextInv, RunningInv
<1> HIDE DEF f
<1> SUFFICES ASSUME NEW i \in 1 .. Len(threads)
             PROVE  Resumable(threads[i], RegsSaved(f), frames \cup {f})
  BY DEF f
<1>5. CASE i = 1
  <2>1. RegsSaved(f)[Active] = [esp |-> f.base + EspOffset, ctx |-> f.ctx]
    BY <1>2, <1>3 DEF RegsSaved
  <2>2. f.base = RegsSaved(f)[Active].esp - EspOffset
    BY <1>1, <2>1 DEF EspOffset
  <2>3. RegsSaved(f)[Active].ctx = cpu
    BY <1>1, <2>1
  <2>4. Resumable(Active, RegsSaved(f), frames \cup {f})
    BY <1>1, <1>4, <2>2, <2>3 DEF Resumable
  <2> QED BY <1>3, <1>5, <2>4
<1>6. CASE i # 1
  <2>1. threads[i] \in Waiting /\ threads[i] # Active
    BY <1>2, <1>3, <1>6, ActiveCreated DEF Waiting
  <2>2. RegsSaved(f)[threads[i]] = thread_regs[threads[i]]
    BY <1>2, <2>1 DEF RegsSaved
  <2>3. Resumable(threads[i], thread_regs, frames)
    BY <2>1 DEF ContextInv
  <2> QED BY <2>2, <2>3 DEF Resumable
<1> QED BY <1>5, <1>6

(* Frames belong to members of the list. *)
LEMMA FrameMembers ==
  ASSUME TypeInv, ContextInv, NEW g \in frames
  PROVE  \E i \in 2 .. Len(threads) : g.ctx.tid = threads[i]
BY DEF ContextInv, Waiting

LEMMA TickContext ==
  TypeInv /\ ContextInv /\ (TimerIrq \/ Syscall) => ContextInv'
<1> SUFFICES ASSUME TypeInv, ContextInv, TimerIrq \/ Syscall
             PROVE  ContextInv'
  OBVIOUS
<1> DEFINE f == FrameOf(cpu)
           fs == frames \cup {f}
<1>1. Executing
  BY DEF TimerIrq, Syscall
<1>2. Pushed(frames, f) = fs /\ FramesInv(fs)
  BY <1>1, ActivePush
<1>3. /\ Schedule(threads, RegsSaved(f), EspSaved(f), fs)
      /\ UNCHANGED <<thread_count, privilege, int_stack_esp, memory_bitmap,
                     stack, halted>>
  BY <1>2 DEF TimerIrq, Syscall
<1>4. /\ RegsSaved(f) \in [Tid -> SavedRegs] /\ EspSaved(f) \in Nat
      /\ fs \in SUBSET Frames
  BY <1>1, <1>2, SaveType DEF TypeInv
<1>5. threads \in Seq(Tid) /\ threads # <<>> /\ ListOK(threads, thread_count)
  BY DEF TypeInv, TypeOK, ListInv
<1>6. \A i \in 1 .. Len(threads) : Resumable(threads[i], RegsSaved(f), fs)
  BY <1>1, SavedResumable
<1>7. f.ctx.tid = threads[1] /\ 1 \in 1 .. Len(threads)
  BY <1>1, <1>5, ActiveFrame DEF Active
<1>8. \A g \in fs : \E i \in 1 .. Len(threads) : g.ctx.tid = threads[i]
  <2> SUFFICES ASSUME NEW g \in fs
               PROVE  \E i \in 1 .. Len(threads) : g.ctx.tid = threads[i]
    OBVIOUS
  <2>1. CASE g = f
    BY <1>7, <2>1
  <2>2. CASE g \in frames
    BY <2>2, FrameMembers
  <2> QED BY <2>1, <2>2
<1> HIDE DEF f, fs
<1> QED
  BY <1>2, <1>3, <1>4, <1>5, <1>6, <1>8, ScheduleContext DEF ContextInv

LEMMA UserFaultContext == TypeInv /\ ContextInv /\ UserFault => ContextInv'
<1> SUFFICES ASSUME TypeInv, ContextInv, UserFault PROVE ContextInv'
  OBVIOUS
<1>1. Executing
  BY DEF UserFault
<1>2. Overwrite(frames, FrameBase(cpu), FrameSize(cpu)) = frames
  BY <1>1, ActivePush
<1>3. /\ Schedule(Tail(threads), thread_regs, tss_esp0, frames)
      /\ UNCHANGED <<thread_count, privilege, int_stack_esp, memory_bitmap,
                     stack, halted>>
  BY <1>2 DEF UserFault
<1>4. /\ threads \in Seq(Tid) /\ threads # <<>>
      /\ thread_regs \in [Tid -> SavedRegs] /\ tss_esp0 \in Nat
      /\ frames \in SUBSET Frames
  BY DEF TypeInv, TypeOK
<1>5. Tail(threads) \in Seq(Tid) /\ Tail(threads) # <<>>
      /\ ListOK(Tail(threads), thread_count)
  <2>1. Head(threads) # 0
    BY DEF UserFault, TypeInv, ListInv, Active, PL0, PL3
  <2> QED BY <1>4, <2>1, TailOK DEF TypeInv, ListInv
<1>6. Len(Tail(threads)) = Len(threads) - 1
      /\ \A i \in 1 .. Len(threads) - 1 : Tail(threads)[i] = threads[i + 1]
  BY <1>4
<1>7. \A i \in 1 .. Len(Tail(threads)) :
        Resumable(Tail(threads)[i], thread_regs, frames)
  <2> TAKE i \in 1 .. Len(Tail(threads))
  <2>1. i + 1 \in 2 .. Len(threads) /\ Tail(threads)[i] = threads[i + 1]
    BY <1>4, <1>6
  <2> QED BY <2>1 DEF ContextInv, Waiting
<1>8. \A g \in frames : \E i \in 1 .. Len(Tail(threads)) :
        g.ctx.tid = Tail(threads)[i]
  <2> TAKE g \in frames
  <2>1. PICK i \in 2 .. Len(threads) : g.ctx.tid = threads[i]
    BY FrameMembers
  <2>2. i - 1 \in 1 .. Len(Tail(threads)) /\ Tail(threads)[i - 1] = threads[i]
    BY <1>4, <1>6
  <2> QED BY <2>1, <2>2
<1> QED
  BY <1>3, <1>4, <1>5, <1>7, <1>8, ScheduleContext DEF ContextInv

(* A formula about contexts stays true while what it speaks of stays. *)
LEMMA FrameInvStays ==
  ASSUME FramesInv(frames), MemoryInv, StackInv,
         UNCHANGED <<thread_count, privilege, int_stack_esp, memory_bitmap,
                     frames, stack>>
  PROVE  FramesInv(frames)' /\ MemoryInv' /\ StackInv'
BY DEF FramesInv, FrameInv, MemoryInv, StackInv, Created, End, LowestSp

LEMMA OtherIrqContext == TypeInv /\ ContextInv /\ OtherIrq => ContextInv'
<1> SUFFICES ASSUME TypeInv, ContextInv, OtherIrq PROVE ContextInv'
  OBVIOUS
<1> DEFINE f == FrameOf(cpu)
           fs == frames \cup {f}
<1>1. Executing
  BY DEF OtherIrq
<1>2. Pushed(frames, f) = fs /\ FramesInv(fs) /\ fs \in SUBSET Frames
  BY <1>1, ActivePush, SaveType DEF TypeInv
<1>3. f.ctx = cpu /\ cpu.tid = Active
  BY <1>1, ActiveFrame
<1>4. /\ thread_regs' = RegsSaved(f) /\ tss_esp0' = EspSaved(f)
      /\ Iret(fs, f.base)
      /\ UNCHANGED <<threads, thread_count, quantum, privilege, int_stack_esp,
                     memory_bitmap, stack, halted>>
  BY <1>2 DEF OtherIrq
<1> HIDE DEF f
<1>5. f \notin frames
  <2>1. Active \notin Waiting
    BY ActiveCreated
  <2> QED BY <1>3, <2>1 DEF ContextInv
<1>6. FramesAt(fs, f.base) = {f} /\ Popped(fs, f.base) = f.ctx
  BY <1>2, PoppedFrame DEF ContextInv
<1>7. cpu' = cpu /\ frames' = frames
  BY <1>3, <1>4, <1>5, <1>6 DEF Iret
<1>8. Active' = Active /\ Waiting' = Waiting
  BY <1>4 DEF Active, Waiting
<1>9. FramesInv(frames)' /\ MemoryInv' /\ StackInv'
  BY <1>4, <1>7, FrameInvStays DEF ContextInv
<1>10. \A t \in Waiting' : Resumable(t, thread_regs, frames)'
  <2> SUFFICES ASSUME NEW t \in Waiting
               PROVE  Resumable(t, thread_regs, frames)'
    BY <1>8
  <2>1. t # Active
    BY ActiveCreated
  <2>2. thread_regs'[t] = thread_regs[t]
    BY <1>4, <2>1 DEF RegsSaved, TypeInv, TypeOK
  <2>3. Resumable(t, thread_regs, frames)
    BY DEF ContextInv
  <2> QED BY <1>4, <1>7, <2>2, <2>3 DEF Resumable, ContextOf, LowestSp
<1>11. RunningInv'
  <2>1. ContextOf(cpu, Active)'
    BY <1>4, <1>7, <1>8 DEF ContextInv, RunningInv, ContextOf, LowestSp
  <2>2. cpu.cs = PL3 => tss_esp0' = int_stack_esp[Active]
    BY <1>3, <1>4 DEF EspSaved, RingZeroEsp
  <2> QED BY <1>4, <1>7, <1>8, <2>1, <2>2 DEF RunningInv
<1> QED BY <1>7, <1>8, <1>9, <1>10, <1>11 DEF ContextInv

(* Steps that change the CPU only, within what a context may be.           *)
LEMMA CpuStepContext ==
  ASSUME TypeInv, ContextInv,
         UNCHANGED <<threads, thread_count, privilege, int_stack_esp,
                     thread_regs, tss_esp0, memory_bitmap, frames, stack>>,
         ContextOf(cpu', Active), cpu'.cs = cpu.cs
  PROVE  ContextInv'
<1>1. Active' = Active /\ Waiting' = Waiting
  BY DEF Active, Waiting
<1>2. FramesInv(frames)' /\ MemoryInv' /\ StackInv'
  BY FrameInvStays DEF ContextInv
<1>3. \A t \in Waiting' : Resumable(t, thread_regs, frames)'
  BY <1>1 DEF ContextInv, Resumable, ContextOf, LowestSp
<1>4. RunningInv'
  BY <1>1 DEF ContextInv, RunningInv, ContextOf, LowestSp
<1> QED BY <1>1, <1>2, <1>3, <1>4 DEF ContextInv

LEMMA ComputeContext == TypeInv /\ ContextInv /\ Compute => ContextInv'
<1> SUFFICES ASSUME TypeInv, ContextInv, Compute PROVE ContextInv'
  OBVIOUS
<1> DEFINE t == Active
<1>1. PICK d \in Depths :
        /\ cpu' = [cpu EXCEPT !.sp = stack[cpu.tid].top - d]
        /\ frames' = Overwrite(frames, stack[cpu.tid].top - d, d)
  BY DEF Compute
<1>2. /\ cpu \in Contexts /\ cpu.tid = t /\ cpu.cs = privilege[t]
      /\ cpu.cs = PL3 => cpu.intr
  BY DEF ContextInv, RunningInv, ContextOf
<1>3. t \in Created /\ t \notin Waiting
  BY ActiveCreated
<1>4. /\ stack[t].base \in Nat /\ stack[t].top \in Nat /\ d \in Nat
      /\ stack[t].top <= End(t) /\ LowestSp(t) <= stack[t].top - d
  BY <1>3, RegionType, SchedulerAssumption DEF ContextInv, StackInv
<1>5. stack[t].base <= LowestSp(t)
  BY <1>4 DEF LowestSp, Ring0Size
<1>6. LowestSp(t) \in Int
  BY <1>4 DEF LowestSp, Ring0Size
<1>7. ContextOf(cpu', t) /\ cpu'.cs = cpu.cs
  BY <1>1, <1>2, <1>4, <1>6 DEF ContextOf, Contexts
<1>8. frames' = frames
  <2>1. \A g \in frames : FrameInv(g) /\ g.ctx.tid # t
    BY <1>3 DEF ContextInv, FramesInv
  <2>2. stack[t].top - d \in Int /\ stack[t].base <= stack[t].top - d
        /\ (stack[t].top - d) + d <= End(t)
    BY <1>3, <1>4, <1>5, <1>6, RegionType
  <2>3. Overwrite(frames, stack[t].top - d, d) = frames
    BY <1>3, <1>4, <2>1, <2>2, OverwriteOwn DEF ContextInv
  <2> QED BY <1>1, <1>2, <2>3
<1> QED BY <1>7, <1>8, CpuStepContext DEF Compute

LEMMA InterruptFlagContext ==
  TypeInv /\ ContextInv /\ (InterruptBlock \/ InterruptUnblock) => ContextInv'
<1> SUFFICES ASSUME TypeInv, ContextInv, InterruptBlock \/ InterruptUnblock
             PROVE  ContextInv'
  OBVIOUS
<1>1. PICK b \in BOOLEAN : cpu' = [cpu EXCEPT !.intr = b]
  BY DEF InterruptBlock, InterruptUnblock
<1>2. cpu.cs = PL0
  BY DEF InterruptBlock, InterruptUnblock, AtRing0
<1>3. ContextOf(cpu', Active) /\ cpu'.cs = cpu.cs
  BY <1>1, <1>2 DEF ContextInv, RunningInv, ContextOf, Contexts, PL0, PL3
<1> QED BY <1>3, CpuStepContext DEF InterruptBlock, InterruptUnblock

LEMMA KernelFaultContext == TypeInv /\ ContextInv /\ KernelFault => ContextInv'
<1> SUFFICES ASSUME TypeInv, ContextInv, KernelFault PROVE ContextInv'
  OBVIOUS
<1>1. frames' = frames
  BY ActivePush DEF KernelFault
<1>2. ContextOf(cpu', Active)
  BY DEF KernelFault, ContextInv, RunningInv
<1> QED BY <1>1, <1>2, CpuStepContext DEF KernelFault

----------------------------------------------------------------------------
(* pm_new_thread.                                                          *)

(* There is memory for one more thread. *)
LEMMA RoomForOneMore ==
  ASSUME thread_count \in Nat, thread_count < MaxThreads,
         NEW m \in Nat, m <= BootCount + thread_count * (StackPages + 2)
  PROVE  /\ m + (StackPages + 2) <= NumPages
         /\ m + (StackPages + 2) <= BootCount + (thread_count + 1) * (StackPages + 2)
<1> DEFINE p == StackPages + 2
<1>1. /\ p \in Nat /\ BootCount \in Nat /\ MaxThreads \in Nat /\ NumPages \in Nat
      /\ BootCount + MaxThreads * p <= NumPages
  BY LayoutAssumption, SchedulerAssumption, NumPagesAssumption
<1>2. m <= BootCount + thread_count * p
  OBVIOUS
<1> HIDE DEF p
<1>3. (thread_count + 1) * p = thread_count * p + p
  BY <1>1
<1>4. PICK r \in Nat : MaxThreads = (thread_count + 1) + r
  <2>1. MaxThreads - (thread_count + 1) \in Nat
    BY <1>1
  <2>2. MaxThreads = (thread_count + 1) + (MaxThreads - (thread_count + 1))
    BY <1>1
  <2> QED BY <2>1, <2>2
<1>5. MaxThreads * p = (thread_count + 1) * p + r * p /\ r * p >= 0
  BY <1>1, <1>4
<1>6. thread_count * p \in Nat /\ r * p \in Nat
  BY <1>1
<1> QED BY <1>1, <1>2, <1>3, <1>5, <1>6 DEF p

(* The pages a new thread gets follow those in use. *)
LEMMA NewThreadMemory ==
  ASSUME TypeInv, MemoryInv, NEW size \in StackSizes, NEW pl \in {PL0, PL3},
         NEW grow \in BOOLEAN, pm_new_thread(size, pl, grow),
         \A g \in frames : FrameInv(g)
  PROVE  \E m, k \in Nat :
           LET t == thread_count + 1
               n == StackBlocks(size)
               base == k * PageSize
               ctx == NewContext(t, base, size, pl)
           IN /\ \A u \in Created : End(u) <= m * PageSize
              /\ m <= k
              /\ stack' = [stack EXCEPT ![t] =
                   [base |-> base, length |-> n * PageSize, top |-> ctx.sp]]
              /\ int_stack_esp' = IF pl = PL3
                   THEN [int_stack_esp EXCEPT ![t] = (k + n) * PageSize]
                   ELSE int_stack_esp
              /\ thread_regs' = [thread_regs EXCEPT ![t] =
                   [esp |-> base + size + EspOffset, ctx |-> ctx]]
              /\ frames' = Pushed(frames, [base |-> base + size,
                                           size |-> RegsSize, ctx |-> ctx])
              /\ \E used \in 0 .. NumPages :
                   /\ memory_bitmap' = 0 .. used - 1
                   /\ used <= BootCount + t * (StackPages + 2)
                   /\ k + n <= used
<1>1. PICK m \in 0 .. NumPages :
        /\ memory_bitmap = 0 .. m - 1
        /\ m <= BootCount + thread_count * (StackPages + 2)
        /\ \A u \in Created : End(u) <= m * PageSize
  BY DEF MemoryInv
<1> DEFINE n == StackBlocks(size)
           k == IF grow THEN m + 1 ELSE m
           base == k * PageSize
           t == thread_count + 1
<1>2. n \in Nat \ {0} /\ n <= StackPages /\ StackPages \in Nat
      /\ BootCount \in Nat /\ NumPages \in Nat
  BY StackBlocksPositive, LayoutAssumption, NumPagesAssumption
<1>3. m \in Nat /\ m + (StackPages + 2) <= NumPages
      /\ m + (StackPages + 2) <= BootCount + t * (StackPages + 2)
  <2>1. thread_count \in Nat /\ thread_count < MaxThreads
    BY SchedulerAssumption DEF TypeInv, TypeOK, Tid, pm_new_thread
  <2>2. m \in Nat
    BY <1>2
  <2> QED BY <1>1, <2>1, <2>2, RoomForOneMore
<1>4. k \in Nat /\ m <= k /\ k <= m + 1
  BY <1>3
<1>5. (IF grow THEN MarkUsed(memory_bitmap, 1) ELSE memory_bitmap) = 0 .. k - 1
  <2>1. m + 1 <= NumPages
    BY <1>2, <1>3
  <2> QED BY <1>1, <1>3, <2>1, FirstFitPrefix
<1>6. FirstFit(0 .. k - 1, n) = k /\ MarkUsed(0 .. k - 1, n) = 0 .. (k + n) - 1
  <2>1. k + n <= NumPages
    BY <1>2, <1>3, <1>4
  <2> QED BY <1>2, <1>4, <2>1, FirstFitPrefix
<1>7. FirstFit(0 .. (k + n) - 1, 1) = k + n
      /\ MarkUsed(0 .. (k + n) - 1, 1) = 0 .. (k + n + 1) - 1
  <2>1. k + n + 1 <= NumPages /\ k + n \in Nat
    BY <1>2, <1>3, <1>4
  <2> QED BY <2>1, FirstFitPrefix
<1>8. grow => Overwrite(frames, FirstFit(memory_bitmap, 1) * PageSize, PageSize)
              = frames
  <2> SUFFICES ASSUME grow, NEW g \in frames
               PROVE  ~Overlap(m * PageSize, PageSize, g.base, g.size)
    <3>1. FirstFit(memory_bitmap, 1) = m
      <4>1. m + 1 <= NumPages
        BY <1>2, <1>3
      <4> QED BY <1>1, <1>3, <4>1, FirstFitPrefix
    <3> QED BY <3>1 DEF Overwrite
  <2>1. FrameInv(g) /\ g \in Frames
    BY DEF TypeInv, TypeOK
  <2>2. g.base + g.size <= End(g.ctx.tid) /\ g.ctx.tid \in Created
    BY <2>1 DEF FrameInv, Within, End
  <2>3. End(g.ctx.tid) \in Nat /\ End(g.ctx.tid) <= m * PageSize
    BY <1>1, <2>2, RegionType
  <2>4. g.base \in Int /\ g.size \in Int
    BY <2>1 DEF Frames, Ring0Size, RegsSize
  <2> QED BY <1>3, <2>2, <2>3, <2>4 DEF Overlap, PageSize
<1> DEFINE ctx == NewContext(t, base, size, pl)
           region == [base |-> base, length |-> n * PageSize, top |-> ctx.sp]
           saved == [esp |-> base + size + EspOffset, ctx |-> ctx]
           frame == [base |-> base + size, size |-> RegsSize, ctx |-> ctx]
<1>9. /\ stack' = [stack EXCEPT ![t] = region]
      /\ thread_regs' = [thread_regs EXCEPT ![t] = saved]
      /\ frames' = Pushed(frames, frame)
  BY <1>5, <1>6, <1>8 DEF pm_new_thread
<1>10. /\ int_stack_esp' = IF pl = PL3
              THEN [int_stack_esp EXCEPT ![t] = (k + n) * PageSize]
              ELSE int_stack_esp
       /\ memory_bitmap' = IF pl = PL3 THEN 0 .. (k + n + 1) - 1
                           ELSE 0 .. (k + n) - 1
  BY <1>5, <1>6, <1>7 DEF pm_new_thread
<1>11. \E used \in 0 .. NumPages : /\ memory_bitmap' = 0 .. used - 1
                                   /\ used <= BootCount + t * (StackPages + 2)
                                   /\ k + n <= used
  <2> DEFINE used == IF pl = PL3 THEN k + n + 1 ELSE k + n
             limit == BootCount + t * (StackPages + 2)
  <2>1. used \in Nat /\ k + n <= used /\ used <= m + (StackPages + 2)
    BY <1>2, <1>3, <1>4
  <2>2. thread_count \in Nat
    BY SchedulerAssumption DEF TypeInv, TypeOK, Tid
  <2>3. limit \in Nat /\ m + (StackPages + 2) <= limit
    BY <1>2, <1>3, <2>2
  <2>4. memory_bitmap' = 0 .. used - 1
    BY <1>10
  <2> HIDE DEF limit, used
  <2>5. used \in 0 .. NumPages /\ used <= limit
    BY <1>2, <1>3, <2>1, <2>3
  <2> QED BY <2>1, <2>4, <2>5 DEF limit
<1> QED BY <1>1, <1>3, <1>4, <1>9, <1>10, <1>11

LEMMA NewThreadContext == TypeInv /\ ContextInv /\ NewThread => ContextInv'
<1> SUFFICES ASSUME TypeInv, ContextInv,
                    NEW size \in StackSizes, NEW pl \in {PL0, PL3},
                    NEW grow \in BOOLEAN, pm_new_thread(size, pl, grow),
                    NEW t, t = thread_count + 1
             PROVE  ContextInv'
  BY DEF NewThread
<1> DEFINE n == StackBlocks(size)
<1>1. /\ thread_count \in Nat /\ t \in Tid /\ t \notin Created
      /\ thread_count' = t
      /\ \A u \in Created' : u = t \/ u \in Created
      /\ \A u \in Created : u < t /\ u \in Tid
  <2>1. /\ thread_count \in Nat /\ thread_count < MaxThreads
        /\ MaxThreads \in Nat /\ thread_count' = t
    BY SchedulerAssumption DEF TypeInv, TypeOK, Tid, pm_new_thread
  <2> QED BY <2>1 DEF Tid, Created
<1>2. PICK m \in Nat, k \in Nat :
        LET base == k * PageSize
            ctx == NewContext(t, base, size, pl)
        IN /\ \A u \in Created : End(u) <= m * PageSize
           /\ m <= k
           /\ stack' = [stack EXCEPT ![t] =
                [base |-> base, length |-> n * PageSize, top |-> ctx.sp]]
           /\ int_stack_esp' = IF pl = PL3
                THEN [int_stack_esp EXCEPT ![t] = (k + n) * PageSize]
                ELSE int_stack_esp
           /\ thread_regs' = [thread_regs EXCEPT ![t] =
                [esp |-> base + size + EspOffset, ctx |-> ctx]]
           /\ frames' = Pushed(frames, [base |-> base + size,
                                        size |-> RegsSize, ctx |-> ctx])
           /\ \E used \in 0 .. NumPages :
                /\ memory_bitmap' = 0 .. used - 1
                /\ used <= BootCount + t * (StackPages + 2)
                /\ k + n <= used
  <2>1. \A g \in frames : FrameInv(g)
    BY DEF ContextInv, FramesInv
  <2> QED BY <1>1, <2>1, NewThreadMemory, ZenonT(60) DEF ContextInv
<1> DEFINE base == k * PageSize
           ctx == NewContext(t, base, size, pl)
           region == [base |-> base, length |-> n * PageSize, top |-> ctx.sp]
           saved == [esp |-> base + size + EspOffset, ctx |-> ctx]
           f == [base |-> base + size, size |-> RegsSize, ctx |-> ctx]
<1>3. /\ stack' = [stack EXCEPT ![t] = region]
      /\ thread_regs' = [thread_regs EXCEPT ![t] = saved]
      /\ frames' = Pushed(frames, f)
  BY <1>2
<1>4. /\ stack \in [Tid -> [base : Nat, length : Nat, top : Nat]]
      /\ thread_regs \in [Tid -> SavedRegs] /\ privilege \in [Tid -> {PL0, PL3}]
      /\ int_stack_esp \in [Tid -> Nat] /\ frames \in SUBSET Frames
      /\ cpu \in Contexts
      /\ threads \in Seq(Tid) /\ threads # <<>>
  BY DEF TypeInv, TypeOK, ContextInv, RunningInv, ContextOf
<1>5. /\ size \in Nat /\ n \in Nat \ {0} /\ base \in Nat
      /\ size + 124 <= n * PageSize
      /\ \A d \in Depths : d \in Nat /\ d <= size
  BY SchedulerAssumption, LayoutAssumption, StackBlocksPositive
     DEF PageSize, Useresp, RegsSize
<1>6. /\ ctx \in Contexts /\ ctx.tid = t /\ ctx.cs = pl /\ ctx.intr
      /\ ctx.sp = base + size + (IF pl = PL3 THEN 48 ELSE 68)
  BY <1>1, <1>5 DEF NewContext, Contexts, Useresp, Ring0Size
<1> HIDE DEF ctx
<1>7. /\ stack'[t] = region
      /\ \A u \in Created : stack'[u] = stack[u]
      /\ End(t)' = base + n * PageSize
      /\ \A u \in Created : End(u)' = End(u)
  BY <1>1, <1>3, <1>4 DEF End
<1>8. /\ privilege'[t] = pl /\ \A u \in Created : privilege'[u] = privilege[u]
      /\ pl = PL3 => int_stack_esp'[t] = base + n * PageSize
      /\ \A u \in Created : int_stack_esp'[u] = int_stack_esp[u]
      /\ thread_regs'[t] = saved
      /\ \A u \in Created : thread_regs'[u] = thread_regs[u]
  <2>1. privilege' = [privilege EXCEPT ![t] = pl]
    BY <1>1 DEF pm_new_thread
  <2>2. (k + n) * PageSize = base + n * PageSize
    BY <1>5 DEF PageSize
  <2> QED BY <1>1, <1>2, <1>3, <1>4, <2>1, <2>2
<1>9. \A u \in Created : End(u) \in Nat /\ End(u) <= base
  BY <1>2, <1>5, RegionType DEF PageSize
<1>10. MemoryInv'
  <2>1. \E used \in 0 .. NumPages :
          /\ memory_bitmap' = 0 .. used - 1
          /\ used <= BootCount + thread_count' * (StackPages + 2)
          /\ \A u \in Created' : End(u)' <= used * PageSize
    <3>1. PICK used \in 0 .. NumPages :
            /\ memory_bitmap' = 0 .. used - 1
            /\ used <= BootCount + t * (StackPages + 2)
            /\ k + n <= used
      BY <1>2
    <3>2. used \in Nat
      BY NumPagesAssumption
    <3>3. base + n * PageSize <= used * PageSize
      BY <1>5, <3>1, <3>2 DEF PageSize
    <3>4. \A u \in Created' : End(u)' <= used * PageSize
      <4> TAKE u \in Created'
      <4>1. CASE u = t
        BY <1>7, <3>3, <4>1
      <4>2. CASE u \in Created
        BY <1>5, <1>7, <1>9, <3>2, <3>3, <4>2 DEF PageSize
      <4> QED BY <1>1, <4>1, <4>2
    <3> QED BY <1>1, <3>1, <3>4
  <2>2. \A u, v \in Created' : u < v => End(u)' <= stack'[v].base
    <3> TAKE u, v \in Created'
    <3> HAVE u < v
    <3>1. CASE u \in Created /\ v \in Created
      BY <1>7, <3>1 DEF ContextInv, MemoryInv
    <3>2. CASE u \in Created /\ v = t
      BY <1>7, <1>9, <3>2
    <3>3. CASE u = t
      <4>1. v <= t /\ v \in Nat /\ t \in Nat
        BY <1>1, SchedulerAssumption DEF Tid
      <4> QED BY <3>3, <4>1
    <3> QED BY <1>1, <3>1, <3>2, <3>3
  <2> QED BY <2>1, <2>2 DEF MemoryInv
<1>11. StackInv'
  <2> SUFFICES ASSUME NEW u \in Created'
               PROVE  /\ stack'[u].top <= End(u)'
                      /\ \A d \in Depths : LowestSp(u)' <= stack'[u].top - d
                      /\ privilege'[u] = PL3 =>
                           /\ int_stack_esp'[u] = End(u)'
                           /\ stack'[u].top + RegsSize <= End(u)'
    BY DEF StackInv
  <2>1. CASE u \in Created
    <3>1. LowestSp(u)' = LowestSp(u)
      BY <1>7, <1>8, <2>1 DEF LowestSp
    <3> QED BY <1>7, <1>8, <2>1, <3>1 DEF ContextInv, StackInv
  <2>2. CASE u = t
    <3>1. LowestSp(t)' = base + (IF pl = PL0 THEN 68 ELSE 0)
      BY <1>7, <1>8 DEF LowestSp, Ring0Size
    <3>2. n * PageSize \in Nat
      BY <1>5 DEF PageSize
    <3>3. stack'[t].top = base + size + (IF pl = PL3 THEN 48 ELSE 68)
      BY <1>6, <1>7
    <3> QED BY <1>5, <1>7, <1>8, <2>2, <3>1, <3>2, <3>3 DEF PL0, PL3, RegsSize
  <2> QED BY <1>1, <2>1, <2>2
<1>12. \A g \in frames : /\ g.ctx.tid \in Created /\ g.ctx.tid # t
                         /\ ~Overlap(base + size, RegsSize, g.base, g.size)
  <2> TAKE g \in frames
  <2>1. FrameInv(g) /\ g \in Frames
    BY <1>4 DEF ContextInv, FramesInv
  <2>2. g.ctx.tid \in Created /\ g.base + g.size <= End(g.ctx.tid)
    BY <2>1 DEF FrameInv, Within, End
  <2>3. g.base \in Int /\ g.size \in Int
    BY <2>1 DEF Frames, Ring0Size, RegsSize
  <2> QED BY <1>1, <1>5, <1>9, <2>2, <2>3 DEF Overlap, RegsSize
<1>13. frames' = frames \cup {f}
  BY <1>3, <1>12 DEF Pushed, Overwrite
<1>14. FramesInv(frames)'
  <2>1. FrameInv(f)'
    <3>1. Within(f, stack'[t].base, stack'[t].length)
      BY <1>5, <1>7 DEF Within, RegsSize, PageSize
    <3>2. t \in Created'
      BY <1>1 DEF Created
    <3>3. stack'[t].top = f.ctx.sp /\ f.ctx.tid = t
      BY <1>6, <1>7
    <3> QED BY <3>1, <3>2, <3>3 DEF FrameInv
  <2>2. \A g \in frames : FrameInv(g)'
    <3> TAKE g \in frames
    <3>1. FrameInv(g) /\ g.ctx.tid \in Created'
      BY <1>1, <1>12 DEF ContextInv, FramesInv, Created
    <3> QED BY <1>7, <1>12, <3>1 DEF FrameInv
  <2>3. \A g \in frames : g.ctx.tid # f.ctx.tid
    BY <1>6, <1>12
  <2>4. \A g, h \in frames : g.ctx.tid = h.ctx.tid => g = h
    BY DEF ContextInv, FramesInv
  <2> QED BY <1>13, <2>1, <2>2, <2>3, <2>4 DEF FramesInv
<1>15. Active' = Active /\ Waiting' = Waiting \cup {t}
  <2>1. threads' = Append(threads, t)
    BY <1>1 DEF pm_new_thread, AddNode
  <2>2. /\ Len(threads') = Len(threads) + 1 /\ Len(threads) \in Nat \ {0}
        /\ threads'[Len(threads) + 1] = t
        /\ \A i \in 1 .. Len(threads) : threads'[i] = threads[i]
        /\ threads' \in Seq(Tid) /\ threads' # <<>>
    BY <1>1, <1>4, <2>1
  <2>3. Active' = threads'[1] /\ Active = threads[1]
    BY <1>4, <2>2 DEF Active
  <2>4. Waiting' \subseteq Waiting \cup {t}
    BY <2>2 DEF Waiting
  <2>5. Waiting \cup {t} \subseteq Waiting'
    <3>1. Len(threads) + 1 \in 2 .. Len(threads')
      BY <2>2
    <3>2. 2 .. Len(threads) \subseteq 2 .. Len(threads')
      BY <2>2
    <3> QED BY <2>2, <3>1, <3>2 DEF Waiting
  <2> QED BY <2>2, <2>3, <2>4, <2>5
<1>16. \A g \in frames' : g.ctx.tid \in Waiting'
  BY <1>6, <1>13, <1>15 DEF ContextInv
<1>17. \A u \in Created : LowestSp(u)' = LowestSp(u)
  BY <1>7, <1>8 DEF LowestSp
<1>18. \A u \in Waiting' : Resumable(u, thread_regs, frames)'
  <2> SUFFICES ASSUME NEW u \in Waiting'
               PROVE  Resumable(u, thread_regs, frames)'
    OBVIOUS
  <2>1. CASE u \in Waiting
    <3>1. Resumable(u, thread_regs, frames) /\ u \in Created
      BY <2>1, ActiveCreated DEF ContextInv
    <3>2. ContextOf(thread_regs[u].ctx, u)'
      BY <1>7, <1>8, <1>17, <3>1 DEF Resumable, ContextOf
    <3> QED BY <1>8, <1>13, <3>1, <3>2 DEF Resumable
  <2>2. CASE u = t
    <3>1. LowestSp(t)' <= stack'[t].top
      <4>1. 0 \in Depths /\ t \in Created'
        BY <1>1, SchedulerAssumption DEF Created
      <4>2. LowestSp(t)' <= stack'[t].top - 0
        BY <1>11, <4>1 DEF StackInv
      <4>3. stack'[t].top \in Int
        BY <1>6, <1>7 DEF Contexts
      <4> QED BY <4>2, <4>3
    <3>2. ctx.sp <= stack'[t].top
      BY <1>6, <1>7 DEF Contexts
    <3>3. ContextOf(thread_regs[t].ctx, t)'
      BY <1>6, <1>7, <1>8, <3>1, <3>2 DEF ContextOf
    <3>4. f.base = thread_regs'[t].esp - EspOffset /\ f.ctx = thread_regs'[t].ctx
      BY <1>5, <1>8 DEF EspOffset
    <3> QED BY <1>13, <2>2, <3>3, <3>4 DEF Resumable
  <2> QED BY <1>15, <2>1, <2>2
<1>19. RunningInv'
  <2>1. Active \in Created
    BY ActiveCreated
  <2>2. cpu' = [cpu EXCEPT !.intr = TRUE] /\ tss_esp0' = tss_esp0
    BY DEF pm_new_thread
  <2>3. /\ cpu' \in Contexts /\ cpu'.tid = cpu.tid /\ cpu'.cs = cpu.cs
        /\ cpu'.sp = cpu.sp /\ cpu'.intr
    BY <1>4, <2>2 DEF Contexts
  <2>4. ContextOf(cpu, Active)'
    BY <1>7, <1>8, <1>15, <1>17, <2>1, <2>3
       DEF ContextInv, RunningInv, ContextOf
  <2>5. cpu'.cs = PL3 => tss_esp0' = int_stack_esp'[Active']
    BY <1>8, <1>15, <2>1, <2>2, <2>3 DEF ContextInv, RunningInv
  <2> QED BY <2>4, <2>5 DEF RunningInv
<1> QED BY <1>10, <1>11, <1>14, <1>16, <1>18, <1>19 DEF ContextInv

----------------------------------------------------------------------------
(* The boot thread alone, on its own stack. *)
LEMMA ContextInit == Init => ContextInv
<1> SUFFICES ASSUME Init PROVE ContextInv
  OBVIOUS
<1>1. /\ Created = {0} /\ Waiting = {} /\ Active = 0 /\ 0 \in Tid
      /\ StackTop \in Nat
  BY SchedulerAssumption DEF Init, Created, Waiting, Active, Tid
<1>2. /\ stack[0] = [base |-> 0, length |-> StackTop, top |-> StackTop]
      /\ privilege[0] = PL0 /\ End(0) = StackTop
      /\ LowestSp(0) = Ring0Size
  BY <1>1 DEF Init, End, LowestSp, Ring0Size
<1>3. MemoryInv
  <2>1. /\ BootCount \in Nat /\ BootCount \in 0 .. NumPages
        /\ BootCount <= BootCount + thread_count * (StackPages + 2)
    <3>1. /\ MaxThreads \in Nat /\ StackPages \in Nat /\ NumPages \in Nat
          /\ BootCount \in Nat
          /\ BootCount + MaxThreads * (StackPages + 2) <= NumPages
      BY LayoutAssumption, SchedulerAssumption, NumPagesAssumption
    <3>2. MaxThreads * (StackPages + 2) \in Nat
      BY <3>1
    <3>3. thread_count * (StackPages + 2) = 0
      BY <3>1 DEF Init
    <3> QED BY <3>1, <3>2, <3>3
  <2>2. memory_bitmap = 0 .. BootCount - 1 /\ StackTop <= BootCount * PageSize
    BY LayoutAssumption DEF Init
  <2> QED BY <1>1, <1>2, <2>1, <2>2 DEF MemoryInv
<1>4. \A d \in Depths : d \in Nat /\ d + Ring0Size <= StackTop
  BY SchedulerAssumption, LayoutAssumption
<1>5. StackInv
  BY <1>1, <1>2, <1>4 DEF StackInv, Ring0Size, PL0, PL3
<1>6. RunningInv
  <2>1. Ring0Size <= StackTop
    BY <1>1, <1>4, SchedulerAssumption DEF Ring0Size
  <2>2. cpu = [tid |-> 0, sp |-> StackTop, cs |-> PL0, intr |-> FALSE]
    BY DEF Init
  <2> QED BY <1>1, <1>2, <2>1, <2>2
          DEF RunningInv, ContextOf, Contexts, PL0, PL3
<1> QED BY <1>1, <1>3, <1>5, <1>6 DEF Init, ContextInv, FramesInv

(* No thread loses its registers: at every step each waiting thread has    *)
(* its frame on its own stack, and the running one is within its stack.    *)
THEOREM ContextsKept == Spec => []ContextInv
<1>1. Init => ContextInv
  BY ContextInit
<1>2. TypeInv /\ ContextInv /\ [Next]_vars => ContextInv'
  <2> SUFFICES ASSUME TypeInv, ContextInv, [Next]_vars PROVE ContextInv'
    OBVIOUS
  <2>1. CASE NewThread
    BY <2>1, NewThreadContext
  <2>2. CASE TimerIrq \/ Syscall
    BY <2>2, TickContext
  <2>3. CASE OtherIrq
    BY <2>3, OtherIrqContext
  <2>4. CASE UserFault
    BY <2>4, UserFaultContext
  <2>5. CASE KernelFault
    BY <2>5, KernelFaultContext
  <2>6. CASE Compute
    BY <2>6, ComputeContext
  <2>7. CASE InterruptBlock \/ InterruptUnblock
    BY <2>7, InterruptFlagContext
  <2>8. CASE UNCHANGED vars
    <3>1. ContextOf(cpu', Active)
      BY <2>8 DEF vars, ContextInv, RunningInv
    <3> QED BY <2>8, <3>1, CpuStepContext DEF vars
  <2> QED
    BY <2>1, <2>2, <2>3, <2>4, <2>5, <2>6, <2>7, <2>8 DEF Next, Spin
<1>3. Spec => []TypeInv
  BY TypeCorrect
<1> QED BY <1>1, <1>2, <1>3, PTL DEF Spec

(* The types of all variables (struct thread_t, tss, memory_bitmap). *)
THEOREM TypesKept == Spec => []TypeOK
<1>1. TypeInv => TypeOK
  BY DEF TypeInv
<1> QED BY <1>1, TypeCorrect, PTL

(* Whatever a thread is resumed with is what it was interrupted with:      *)
(* iret finds, for every waiting thread, the frame that was saved for it.  *)
THEOREM SavedContextsIntact == Spec => []SavedContextIntact
<1>1. ContextInv => SavedContextIntact
  BY DEF ContextInv, Resumable, ContextOf, SavedContextIntact
<1> QED BY <1>1, ContextsKept, PTL

(* The handlers that take the head of the list for the interrupted thread  *)
(* are right to.                                                           *)
THEOREM HeadAlwaysRunning == Spec => []HeadIsRunning
<1>1. ContextInv => HeadIsRunning
  BY DEF ContextInv, RunningInv, ContextOf, HeadIsRunning
<1> QED BY <1>1, ContextsKept, PTL

(* No register frame leaves the memory of the thread it belongs to. *)
THEOREM FramesStayInOwnMemory == Spec => []FramesInOwnMemory
<1>1. ContextInv => FramesInOwnMemory
  BY DEF ContextInv, FramesInv, FrameInv, FramesInOwnMemory
<1> QED BY <1>1, ContextsKept, PTL

(* No register frame is written over what a thread has on its stack. *)
THEOREM StacksStayIntact == Spec => []StacksIntact
<1>1. TypeInv /\ ContextInv => StacksIntact
  <2> SUFFICES ASSUME TypeInv, ContextInv, NEW t \in Live, NEW f \in frames
               PROVE  LET sp == StackPointer(t)
                      IN ~Overlap(f.base, f.size, sp, stack[t].top - sp)
    BY DEF StacksIntact
  <2> DEFINE sp == StackPointer(t)
             u == f.ctx.tid
  <2>1. cpu.tid = Active /\ Active \in Created /\ Waiting \subseteq Created
    BY ActiveCreated DEF ContextInv, RunningInv, ContextOf
  <2>2. t = Active \/ t \in Waiting
    <3>1. threads \in Seq(Tid) /\ threads # <<>>
      BY DEF TypeInv, TypeOK
    <3>2. PICK i \in 1 .. Len(threads) : t = threads[i]
      BY DEF Live
    <3>3. i = 1 \/ i \in 2 .. Len(threads)
      BY <3>2
    <3> QED BY <3>1, <3>2, <3>3 DEF Active, Waiting
  <2>3. /\ t \in Created /\ sp \in Int
        /\ LowestSp(t) <= sp /\ sp <= stack[t].top
    BY <2>1, <2>2
       DEF ContextInv, RunningInv, Resumable, ContextOf, Contexts, StackPointer
  <2>4. /\ stack[t].base \in Nat /\ stack[t].top \in Nat /\ End(t) \in Nat
        /\ stack[t].top <= End(t)
    BY <2>3, RegionType DEF ContextInv, StackInv
  <2>5. FrameInv(f) /\ f \in Frames /\ u \in Waiting
    BY DEF ContextInv, FramesInv, TypeInv, TypeOK
  <2>6. f.base \in Int /\ f.size \in Int
    BY <2>5 DEF Frames, Ring0Size, RegsSize
  <2>7. CASE u # t
    <3>1. stack[t].base <= LowestSp(t) /\ LowestSp(t) \in Int
      BY <2>4 DEF LowestSp, Ring0Size
    <3>2. stack[t].base <= sp /\ sp + (stack[t].top - sp) <= End(t)
          /\ stack[t].top - sp \in Int
      BY <2>3, <2>4, <3>1
    <3>3. ~Overlap(sp, stack[t].top - sp, f.base, f.size)
      BY <2>3, <2>5, <2>7, <3>2, Separate DEF ContextInv
    <3> QED BY <2>3, <2>4, <2>6, <3>3 DEF Overlap
  <2>8. CASE u = t
    <3>1. t # cpu.tid /\ t \in Waiting
      BY <2>1, <2>5, <2>8, ActiveCreated
    <3>2. PICK g \in frames : g.ctx = thread_regs[t].ctx /\ g.ctx.tid = t
      BY <3>1 DEF ContextInv, Resumable, ContextOf
    <3>3. g = f
      BY <2>8, <3>2 DEF ContextInv, FramesInv
    <3>4. f.ctx.sp = sp
      BY <3>1, <3>2, <3>3 DEF StackPointer
    <3>5. f.base + f.size <= sp \/ stack[t].top <= f.base \/ stack[t].top = sp
      BY <2>5, <2>8, <3>4 DEF FrameInv
    <3> QED BY <2>3, <2>4, <2>6, <3>5 DEF Overlap
  <2> QED BY <2>7, <2>8
<1> QED BY <1>1, TypeCorrect, ContextsKept, PTL

----------------------------------------------------------------------------
(* The scheduler implements ideal multithreading.                          *)

(* Where the registers of a thread are found: in the CPU, in the saved     *)
(* context of a waiting thread, or nowhere.                                *)
Registers(t) ==
  IF t = Active THEN cpu
  ELSE IF t \in Waiting THEN thread_regs[t].ctx
  ELSE Wild

(* A thread that was not created yet is no user thread.                    *)
UncreatedInv == \A t \in Tid : t > thread_count => privilege[t] = PL0

(* The list is the active thread and those that wait.                      *)
LEMMA LiveThreads ==
  ASSUME TypeInv
  PROVE  Live = {Active} \cup Waiting
<1>1. threads \in Seq(Tid) /\ threads # <<>>
  BY DEF TypeInv, TypeOK
<1>2. Active = threads[1] /\ Len(threads) \in Nat \ {0}
  BY <1>1 DEF Active
<1>3. 1 .. Len(threads) = {1} \cup (2 .. Len(threads))
  BY <1>2
<1> QED BY <1>2, <1>3 DEF Live, Waiting

(* What iret would pop for a waiting thread is its saved context.          *)
RegistersKnown == \A t \in Tid : RegistersOf(t) = Registers(t)

LEMMA RegistersAre == TypeInv /\ ContextInv => RegistersKnown
<1> SUFFICES ASSUME TypeInv, ContextInv, NEW t \in Tid
             PROVE  RegistersOf(t) = Registers(t)
  BY DEF RegistersKnown
<1>1. Live = {Active} \cup Waiting
  BY LiveThreads
<1>2. CASE t \in Waiting /\ t # Active
  <2>1. PICK f \in frames : /\ f.base = thread_regs[t].esp - EspOffset
                            /\ f.ctx = thread_regs[t].ctx
    BY <1>2 DEF ContextInv, Resumable
  <2>2. frames \in SUBSET Frames /\ MemoryInv /\ FramesInv(frames)
    BY DEF TypeInv, TypeOK, ContextInv
  <2>3. Popped(frames, f.base) = f.ctx
    BY <2>2, PoppedFrame
  <2> QED BY <1>1, <1>2, <2>1, <2>3 DEF RegistersOf, Registers
<1>3. CASE t \notin Waiting \/ t = Active
  BY <1>1, <1>3 DEF RegistersOf, Registers
<1> QED BY <1>2, <1>3

(* A context is not what the CPU runs when it popped no frame.             *)
LEMMA ContextNotWild == Wild \notin Contexts
BY SchedulerAssumption DEF Wild, Contexts, Tid

(* A created thread that is in the list has registers, another has none.   *)
LEMMA RegistersType ==
  ASSUME TypeInv, ContextInv, NEW t \in Tid
  PROVE  /\ Registers(t) \in Contexts \cup {Wild}
         /\ Registers(t) = Wild <=> t \notin Live
<1>1. Live = {Active} \cup Waiting
  BY LiveThreads
<1>2. t \in Live => Registers(t) \in Contexts
  BY <1>1 DEF Registers, ContextInv, RunningInv, Resumable, ContextOf
<1>3. t \notin Live => Registers(t) = Wild
  BY <1>1 DEF Registers
<1> QED BY <1>2, <1>3, ContextNotWild

(* After proc_schedule on a list, its members have the registers that were *)
(* given to it, and no other thread has any.                               *)
LEMMA ScheduleRegisters ==
  ASSUME TypeInv, NEW list \in Seq(Tid), list # <<>>,
         NEW regs \in [Tid -> SavedRegs], NEW esp0, NEW fs \in SUBSET Frames,
         Schedule(list, regs, esp0, fs),
         MemoryInv, FramesInv(fs), ListOK(list, thread_count),
         \A i \in 1 .. Len(list) : Resumable(list[i], regs, fs),
         NEW t \in Tid
  PROVE  Registers(t)' = IF \E i \in 1 .. Len(list) : t = list[i]
                         THEN regs[t].ctx ELSE Wild
<1> DEFINE next == Reordered(list, Charged(quantum[Head(list)]))
           head == Head(next)
<1>1. /\ threads' = next /\ thread_regs' = regs
      /\ cpu' = Popped(fs, regs[head].esp - EspOffset)
  BY DEF Schedule, Iret
<1>2. /\ next \in Seq(Tid) /\ next # <<>>
      /\ \A i \in 1 .. Len(next) : \E j \in 1 .. Len(list) : next[i] = list[j]
      /\ \A j \in 1 .. Len(list) : \E i \in 1 .. Len(next) : next[i] = list[j]
  <2>1. CASE next = list
    BY <2>1
  <2>2. CASE next = MoveToEnd(list)
    BY <2>2, MoveToEndType, MoveToEndMembers
  <2> QED BY <2>1, <2>2 DEF Reordered
<1> HIDE DEF next
<1>3. head = next[1] /\ 1 \in 1 .. Len(next)
  BY <1>2
<1>4. Resumable(head, regs, fs)
  BY <1>2, <1>3
<1>5. cpu' = regs[head].ctx
  <2>1. PICK f \in fs : /\ f.base = regs[head].esp - EspOffset
                        /\ f.ctx = regs[head].ctx
    BY <1>4 DEF Resumable
  <2> QED BY <1>1, <2>1, PoppedFrame
<1>6. Active' = head /\ Waiting' = {next[i] : i \in 2 .. Len(next)}
  BY <1>1 DEF Active, Waiting
<1>7. CASE \E i \in 1 .. Len(list) : t = list[i]
  <2>1. PICK i \in 1 .. Len(next) : t = next[i]
    BY <1>2, <1>7
  <2>2. CASE t = head
    BY <1>5, <1>6, <1>7, <2>2 DEF Registers
  <2>3. CASE t # head
    <3>1. i \in 2 .. Len(next)
      BY <1>3, <2>1, <2>3
    <3>2. t \in Waiting' /\ t # Active'
      BY <1>6, <2>1, <2>3, <3>1
    <3> QED BY <1>1, <1>7, <3>2 DEF Registers
  <2> QED BY <2>2, <2>3
<1>8. CASE ~\E i \in 1 .. Len(list) : t = list[i]
  <2>1. \A i \in 1 .. Len(next) : t # next[i]
    BY <1>2, <1>8
  <2>2. t # Active' /\ t \notin Waiting'
    BY <1>3, <1>6, <2>1
  <2> QED BY <1>8, <2>2 DEF Registers
<1> QED BY <1>7, <1>8

(* A system call or tick changes nobody's registers; the list is the same  *)
(* or turned by one.                                                       *)
LEMMA TickRefines ==
  TypeInv /\ ContextInv /\ RegistersKnown /\ RegistersKnown'
  /\ (TimerIrq \/ Syscall) => [Ideal!Next]_Ideal!vars
<1> SUFFICES ASSUME TypeInv, ContextInv, RegistersKnown, RegistersKnown',
                    TimerIrq \/ Syscall
             PROVE  Ideal!Switch \/ UNCHANGED Ideal!vars
  BY DEF Ideal!Next
<1> DEFINE f == FrameOf(cpu)
           fs == frames \cup {f}
<1>1. Executing
  BY DEF TimerIrq, Syscall
<1>2. Pushed(frames, f) = fs /\ FramesInv(fs)
  BY <1>1, ActivePush
<1>3. /\ Schedule(threads, RegsSaved(f), EspSaved(f), fs)
      /\ UNCHANGED <<privilege, halted>>
  BY <1>2 DEF TimerIrq, Syscall
<1>4. /\ RegsSaved(f) \in [Tid -> SavedRegs] /\ fs \in SUBSET Frames
      /\ f.ctx = cpu
  BY <1>1, <1>2, SaveType, ActiveFrame DEF TypeInv
<1>5. /\ threads \in Seq(Tid) /\ threads # <<>> /\ ListOK(threads, thread_count)
      /\ thread_regs \in [Tid -> SavedRegs]
  BY DEF TypeInv, TypeOK, ListInv
<1>6. \A i \in 1 .. Len(threads) : Resumable(threads[i], RegsSaved(f), fs)
  BY <1>1, SavedResumable
<1>7. threads' = threads \/ threads' = MoveToEnd(threads)
  BY <1>3 DEF Schedule, Reordered
<1>8. \A t \in Tid : RegistersOf(t)' = RegistersOf(t)
  <2> TAKE t \in Tid
  <2>1. Registers(t)' = IF t \in Live THEN RegsSaved(f)[t].ctx ELSE Wild
    <3> HIDE DEF f, fs
    <3> QED BY <1>2, <1>3, <1>4, <1>5, <1>6, ScheduleRegisters DEF ContextInv, Live
  <2>2. Live = {Active} \cup Waiting /\ Active \in Tid
    BY <1>5, LiveThreads DEF Active
  <2>3. RegsSaved(f)[t].ctx = IF t = Active THEN cpu ELSE thread_regs[t].ctx
    BY <1>4, <1>5, <2>2 DEF RegsSaved
  <2>4. Registers(t)' = Registers(t)
    BY <2>1, <2>2, <2>3 DEF Registers
  <2> QED BY <2>4 DEF RegistersKnown
<1>9. ([t \in Tid |-> RegistersOf(t)])' = [t \in Tid |-> RegistersOf(t)]
  BY <1>8
<1>10. ~halted
  BY <1>1 DEF Executing
<1> QED
  BY <1>3, <1>7, <1>9, <1>10
  DEF Ideal!Switch, Ideal!vars, Ideal!Running, MoveToEnd

(* The kill removes the head, whose registers are gone, and nothing else   *)
(* moves: the successor has a whole quantum and is not sent to the tail.   *)
LEMMA UserFaultRefines ==
  TypeInv /\ ContextInv /\ QuantumLeft /\ RegistersKnown /\ RegistersKnown'
  /\ UserFault => [Ideal!Next]_Ideal!vars
<1> SUFFICES ASSUME TypeInv, ContextInv, QuantumLeft, RegistersKnown,
                    RegistersKnown', UserFault
             PROVE  Ideal!Kill
  BY DEF Ideal!Next
<1> DEFINE list == Tail(threads)
<1>1. Executing /\ privilege[Active] = PL3
  BY DEF UserFault
<1>2. Overwrite(frames, FrameBase(cpu), FrameSize(cpu)) = frames
  BY <1>1, ActivePush
<1>3. /\ Schedule(list, thread_regs, tss_esp0, frames)
      /\ UNCHANGED <<privilege, halted>>
  BY <1>2 DEF UserFault
<1>4. /\ threads \in Seq(Tid) /\ threads # <<>> /\ ListOK(threads, thread_count)
      /\ thread_regs \in [Tid -> SavedRegs] /\ frames \in SUBSET Frames
      /\ privilege[0] = PL0
  BY DEF TypeInv, TypeOK, ListInv
<1>5. list \in Seq(Tid) /\ list # <<>> /\ ListOK(list, thread_count)
  <2>1. Head(threads) # 0
    BY <1>1, <1>4 DEF Active, PL0, PL3
  <2> QED BY <1>4, <2>1, TailOK
<1>6. /\ Len(list) = Len(threads) - 1 /\ Len(threads) \in Nat
      /\ \A i \in 1 .. Len(list) : list[i] = threads[i + 1]
      /\ Head(list) = threads[2] /\ 2 \in 2 .. Len(threads)
  <2>1. /\ Len(list) = Len(threads) - 1 /\ Len(threads) \in Nat
        /\ \A i \in 1 .. Len(threads) - 1 : list[i] = threads[i + 1]
    BY <1>4
  <2>2. Len(list) \in Nat \ {0} /\ Head(list) = list[1]
    <3> HIDE DEF list
    <3> QED BY <1>5
  <2> QED BY <2>1, <2>2
<1> HIDE DEF list
<1>7. {list[i] : i \in 1 .. Len(list)} = Waiting
  <2>1. \A i \in 1 .. Len(list) : i + 1 \in 2 .. Len(threads)
    BY <1>6
  <2>2. \A j \in 2 .. Len(threads) : /\ j - 1 \in 1 .. Len(list)
                                     /\ list[j - 1] = threads[j]
    BY <1>6
  <2> QED BY <1>6, <2>1, <2>2 DEF Waiting
<1>8. \A i \in 1 .. Len(list) : Resumable(list[i], thread_regs, frames)
  BY <1>7 DEF ContextInv
<1>9. threads' = list
  <2>1. quantum[Head(list)] = TimeQuantum
    BY <1>6, QuantumOfList
  <2>2. Charged(quantum[Head(list)]) > 0 /\ Charged(quantum[Head(list)]) \in Nat
    BY <2>1, SchedulerAssumption DEF Charged
  <2> QED BY <1>3, <2>2 DEF Schedule, Reordered
<1>10. Active \in Tid /\ Active \notin Waiting
  BY <1>4, ActiveCreated DEF Active
<1>11. \A t \in Tid : RegistersOf(t)' = IF t = Active THEN Wild ELSE RegistersOf(t)
  <2> TAKE t \in Tid
  <2>1. Registers(t)' = IF t \in Waiting THEN thread_regs[t].ctx ELSE Wild
    BY <1>3, <1>4, <1>5, <1>7, <1>8, ScheduleRegisters DEF ContextInv
  <2> QED BY <1>10, <2>1 DEF Registers, RegistersKnown
<1>12. ([t \in Tid |-> RegistersOf(t)])'
        = [[t \in Tid |-> RegistersOf(t)] EXCEPT ![Active] = Wild]
  BY <1>10, <1>11
<1>13. ~halted
  BY <1>1 DEF Executing
<1> QED
  BY <1>1, <1>3, <1>9, <1>10, <1>12, <1>13
  DEF Ideal!Kill, Ideal!Running, Active, list

(* pm_new_thread gives registers to a thread that had none.                *)
LEMMA NewThreadRefines ==
  TypeInv /\ TypeInv' /\ ContextInv /\ ContextInv' /\ UncreatedInv
  /\ RegistersKnown /\ RegistersKnown' /\ NewThread => [Ideal!Next]_Ideal!vars
<1> SUFFICES ASSUME TypeInv, TypeInv', ContextInv, ContextInv', UncreatedInv,
                    RegistersKnown, RegistersKnown',
                    NEW size \in StackSizes, NEW pl \in {PL0, PL3},
                    NEW grow \in BOOLEAN, pm_new_thread(size, pl, grow),
                    NEW u, u = thread_count + 1,
                    NEW a, a = Active
             PROVE  Ideal!Create
  BY DEF NewThread, Ideal!Next
<1> DEFINE R == [t \in Tid |-> RegistersOf(t)]
<1>1. /\ threads' = Append(threads, u) /\ thread_count < MaxThreads
      /\ privilege' = [privilege EXCEPT ![u] = pl]
      /\ cpu' = [cpu EXCEPT !.intr = TRUE]
      /\ \E saved : thread_regs' = [thread_regs EXCEPT ![u] = saved]
      /\ UNCHANGED halted /\ ~halted
  BY DEF pm_new_thread, AddNode, AtRing0, Executing
<1>2. /\ threads \in Seq(Tid) /\ threads # <<>> /\ ListOK(threads, thread_count)
      /\ privilege \in [Tid -> {PL0, PL3}] /\ thread_regs \in [Tid -> SavedRegs]
      /\ thread_count \in Tid /\ threads' # <<>>
  BY DEF TypeInv, TypeOK, ListInv
<1>3. u \in Tid /\ u > thread_count /\ thread_count \in Nat
  BY <1>1, <1>2, SchedulerAssumption DEF Tid
<1>4. Live = {a} \cup Waiting /\ a \in Tid /\ a \notin Waiting
  BY <1>2, LiveThreads, ActiveCreated DEF Active
<1>5. u \notin Live
  <2>1. \A i \in 1 .. Len(threads) : threads[i] \in Nat /\ threads[i] <= thread_count
    BY <1>2, SchedulerAssumption DEF ListOK, Tid
  <2> QED BY <1>3, <2>1 DEF Live
<1>6. Active' = a /\ Live' = Live \cup {u} /\ Waiting' = Waiting \cup {u}
  <2>1. /\ Len(threads') = Len(threads) + 1 /\ Len(threads) \in Nat \ {0}
        /\ threads'[Len(threads) + 1] = u
        /\ \A i \in 1 .. Len(threads) : threads'[i] = threads[i]
    BY <1>1, <1>2, <1>3
  <2>2. Active' = a
    BY <1>1, <1>2, <1>3 DEF Active
  <2>3. 2 .. Len(threads') = (2 .. Len(threads)) \cup {Len(threads) + 1}
    BY <2>1
  <2>4. Waiting' = Waiting \cup {u}
    BY <2>1, <2>3 DEF Waiting
  <2>5. 1 .. Len(threads') = (1 .. Len(threads)) \cup {Len(threads) + 1}
    BY <2>1
  <2> QED BY <2>1, <2>2, <2>4, <2>5 DEF Live
<1>7. /\ Registers(u) = Wild
      /\ Registers(a)' \in Contexts
      /\ Registers(u)' \in Contexts
      /\ \A t \in Tid : t # u /\ t # a => Registers(t)' = Registers(t)
  <2>1. Registers(u) = Wild
    BY <1>4, <1>5 DEF Registers
  <2>2. Registers(a)' \in Contexts
    BY <1>6 DEF Registers, ContextInv, RunningInv, ContextOf
  <2>3. Registers(u)' \in Contexts
    BY <1>4, <1>5, <1>6 DEF Registers, ContextInv, Resumable, ContextOf
  <2>4. \A t \in Tid : t # u => thread_regs'[t] = thread_regs[t]
    BY <1>1, <1>2
  <2>5. \A t \in Tid : t # u /\ t # a => Registers(t)' = Registers(t)
    BY <1>6, <2>4 DEF Registers
  <2> QED BY <2>1, <2>2, <2>3, <2>5
<1>8. /\ RegistersOf(u) = Wild
      /\ RegistersOf(a)' \in Contexts
      /\ RegistersOf(u)' \in Contexts
      /\ \A t \in Tid : t # u /\ t # a => RegistersOf(t)' = RegistersOf(t)
  BY <1>3, <1>4, <1>6, <1>7 DEF RegistersKnown
<1>9. /\ R[u] = Wild /\ R'[u] \in Contexts /\ R'[a] \in Contexts
      /\ R' = [R EXCEPT ![u] = R'[u], ![a] = R'[a]]
  <2>1. \A t \in Tid : R[t] = RegistersOf(t) /\ R'[t] = RegistersOf(t)'
    OBVIOUS
  <2>2. R \in [Tid -> {R[t] : t \in Tid}] /\ R' \in [Tid -> {R'[t] : t \in Tid}]
    OBVIOUS
  <2> HIDE DEF R
  <2> QED BY <1>3, <1>4, <1>8, <2>1, <2>2
<1>10. /\ u \notin {t \in Tid : privilege[t] = PL3}
       /\ {t \in Tid : privilege'[t] = PL3}
            \in {{t \in Tid : privilege[t] = PL3},
                 {t \in Tid : privilege[t] = PL3} \cup {u}}
  <2>1. privilege[u] = PL0
    BY <1>3 DEF UncreatedInv
  <2>2. CASE pl = PL3
    <3>1. \A t \in Tid : privilege'[t] = PL3 <=> privilege[t] = PL3 \/ t = u
      BY <1>1, <1>2, <1>3, <2>2
    <3>2. {t \in Tid : privilege'[t] = PL3}
            = {t \in Tid : privilege[t] = PL3} \cup {u}
      BY <1>3, <3>1
    <3> QED BY <2>1, <3>2 DEF PL0, PL3
  <2>3. CASE pl = PL0
    <3>1. privilege' = privilege
      BY <1>1, <1>2, <2>1, <2>3
    <3> QED BY <2>1, <3>1 DEF PL0, PL3
  <2> QED BY <2>2, <2>3
<1> QED
  BY <1>1, <1>3, <1>9, <1>10 DEF Ideal!Create, Ideal!Running, Active

(* The steps that leave the list alone: the running thread computes, or    *)
(* is interrupted without losing its turn, or stops the kernel.            *)
LEMMA RunRefines ==
  TypeInv /\ ContextInv /\ ContextInv' /\ RegistersKnown /\ RegistersKnown'
  /\ (Compute \/ InterruptBlock \/ InterruptUnblock \/ OtherIrq)
    => [Ideal!Next]_Ideal!vars
<1> SUFFICES ASSUME TypeInv, ContextInv, ContextInv', RegistersKnown,
                    RegistersKnown',
                    Compute \/ InterruptBlock \/ InterruptUnblock \/ OtherIrq,
                    NEW a, a = Active
             PROVE  Ideal!Run
  BY DEF Ideal!Next
<1> DEFINE R == [t \in Tid |-> RegistersOf(t)]
<1>1. Executing /\ UNCHANGED <<threads, privilege, halted>>
  BY DEF Compute, InterruptBlock, InterruptUnblock, AtRing0, OtherIrq
<1>2. Active' = a /\ Waiting' = Waiting /\ a \in Tid
  BY <1>1 DEF Active, Waiting, TypeInv, TypeOK
<1>3. \A t \in Tid : t # a => thread_regs'[t] = thread_regs[t]
  BY <1>2 DEF Compute, InterruptBlock, InterruptUnblock, OtherIrq, RegsSaved,
              TypeInv, TypeOK
<1>4. Registers(a)' \in Contexts
  BY <1>2 DEF Registers, ContextInv, RunningInv, ContextOf
<1>5. \A t \in Tid : t # a => Registers(t)' = Registers(t)
  BY <1>2, <1>3 DEF Registers
<1>6. /\ RegistersOf(a)' \in Contexts
      /\ \A t \in Tid : t # a => RegistersOf(t)' = RegistersOf(t)
  BY <1>2, <1>4, <1>5 DEF RegistersKnown
<1>7. R'[a] \in Contexts /\ R' = [R EXCEPT ![a] = R'[a]]
  <2>1. \A t \in Tid : R[t] = RegistersOf(t) /\ R'[t] = RegistersOf(t)'
    OBVIOUS
  <2>2. R \in [Tid -> {R[t] : t \in Tid}] /\ R' \in [Tid -> {R'[t] : t \in Tid}]
    OBVIOUS
  <2> HIDE DEF R
  <2> QED BY <1>2, <1>6, <2>1, <2>2
<1> QED
  BY <1>1, <1>7 DEF Executing, Ideal!Run, Ideal!Running, Active

LEMMA KernelFaultRefines ==
  TypeInv /\ ContextInv /\ RegistersKnown /\ RegistersKnown' /\ KernelFault
    => [Ideal!Next]_Ideal!vars
<1> SUFFICES ASSUME TypeInv, ContextInv, RegistersKnown, RegistersKnown',
                    KernelFault
             PROVE  Ideal!Stop
  BY DEF Ideal!Next
<1>1. /\ UNCHANGED <<threads, privilege, thread_regs, cpu>>
      /\ halted' = TRUE /\ ~halted /\ privilege[Active] = PL0
  BY DEF KernelFault, Executing
<1>2. \A t \in Tid : RegistersOf(t)' = RegistersOf(t)
  BY <1>1 DEF RegistersKnown, Registers, Active, Waiting
<1>3. ([t \in Tid |-> RegistersOf(t)])' = [t \in Tid |-> RegistersOf(t)]
  BY <1>2
<1> QED
  BY <1>1, <1>3 DEF Ideal!Stop, Ideal!Running, Active, PL0, PL3

(* The boot thread alone has registers, those of the CPU.                  *)
LEMMA InitRefines ==
  TypeInv /\ ContextInv /\ RegistersKnown /\ Init => Ideal!Init
<1> SUFFICES ASSUME TypeInv, ContextInv, RegistersKnown, Init PROVE Ideal!Init
  OBVIOUS
<1>1. threads = <<0>> /\ ~halted /\ \A t \in Tid : privilege[t] = PL0
  BY DEF Init
<1>2. Live = {0}
  BY <1>1 DEF Live
<1>3. \A t \in Tid : /\ RegistersOf(t) \in Contexts \cup {Wild}
                     /\ RegistersOf(t) = Wild <=> t # 0
  BY <1>2, RegistersType DEF RegistersKnown
<1>4. [t \in Tid |-> RegistersOf(t)] \in [Tid -> Contexts \cup {Wild}]
  <2>1. \A t \in Tid : RegistersOf(t) \in Contexts \cup {Wild}
    BY <1>3
  <2> QED BY <2>1, Zenon
<1>5. {t \in Tid : privilege[t] = PL3} = {}
  BY <1>1 DEF PL0, PL3
<1>6. halted = FALSE
  BY DEF Init
<1> QED
  BY <1>1, <1>3, <1>4, <1>5, <1>6 DEF Ideal!Init

(* Only a created thread is a user thread.                                 *)
LEMMA UncreatedKept == Spec => []UncreatedInv
<1>1. Init => UncreatedInv
  BY DEF Init, UncreatedInv
<1>2. TypeInv /\ UncreatedInv /\ [Next]_vars => UncreatedInv'
  <2> SUFFICES ASSUME TypeInv, UncreatedInv, [Next]_vars PROVE UncreatedInv'
    OBVIOUS
  <2>1. CASE NewThread
    <3>1. PICK pl : /\ thread_count' = thread_count + 1
                    /\ privilege' = [privilege EXCEPT ![thread_count + 1] = pl]
      BY <2>1, ZenonT(60) DEF NewThread, pm_new_thread
    <3>2. thread_count \in Nat /\ Tid \subseteq Nat
          /\ privilege \in [Tid -> {PL0, PL3}]
      BY SchedulerAssumption DEF TypeInv, TypeOK, Tid
    <3> QED BY <3>1, <3>2 DEF UncreatedInv
  <2>2. CASE UNCHANGED <<thread_count, privilege>>
    BY <2>2 DEF UncreatedInv
  <2> QED
    BY <2>1, <2>2
    DEF Next, Spin, TimerIrq, Syscall, UserFault, OtherIrq, KernelFault, Compute,
        InterruptBlock, InterruptUnblock, vars
<1> QED BY <1>1, <1>2, TypeCorrect, PTL DEF Spec

(* Preemption, system calls, faults and new threads together give every    *)
(* thread registers of its own that only its own steps change, and turns   *)
(* in the order of the list (pm.c, idt.c, idt.asm).                        *)
THEOREM MultithreadingImplemented == Spec => ImplementsMultithreading
<1>1. TypeInv /\ ContextInv /\ RegistersKnown /\ Init => Ideal!Init
  BY InitRefines
<1>2. TypeInv /\ TypeInv' /\ ContextInv /\ ContextInv' /\ QuantumLeft
      /\ UncreatedInv /\ RegistersKnown /\ RegistersKnown' /\ [Next]_vars
        => [Ideal!Next]_Ideal!vars
  <2> SUFFICES ASSUME TypeInv, TypeInv', ContextInv, ContextInv', QuantumLeft,
                      UncreatedInv, RegistersKnown, RegistersKnown', [Next]_vars
               PROVE  [Ideal!Next]_Ideal!vars
    OBVIOUS
  <2>1. CASE UNCHANGED vars
    <3>1. \A t \in Tid : RegistersOf(t)' = RegistersOf(t)
      BY <2>1 DEF vars, RegistersKnown, Registers, Active, Waiting
    <3>2. ([t \in Tid |-> RegistersOf(t)])' = [t \in Tid |-> RegistersOf(t)]
      BY <3>1
    <3> QED BY <2>1, <3>2 DEF vars, Ideal!vars
  <2>2. CASE NewThread
    BY <2>2, NewThreadRefines
  <2>3. CASE TimerIrq \/ Syscall
    BY <2>3, TickRefines
  <2>4. CASE UserFault
    BY <2>4, UserFaultRefines
  <2>5. CASE KernelFault
    BY <2>5, KernelFaultRefines
  <2>6. CASE Compute \/ InterruptBlock \/ InterruptUnblock \/ OtherIrq
    BY <2>6, RunRefines
  <2> QED BY <2>1, <2>2, <2>3, <2>4, <2>5, <2>6 DEF Next, Spin
<1> QED
  BY <1>1, <1>2, RegistersAre, TypeCorrect, ContextsKept, QuantumAlwaysLeft,
     UncreatedKept, PTL DEF Spec, ImplementsMultithreading, Ideal!Spec

----------------------------------------------------------------------------
(* The scheduler asks of its list what NodeLists promises, and no more: a  *)
(* thread stands for its node, and of the other lists there are none.      *)
ThreadList == INSTANCE NodeLists WITH Nodes <- Tid, root <- <<>>, files <- <<>>

LEMMA NewThreadLists ==
  TypeInv /\ NewThread => ThreadList!AddThread
<1> SUFFICES ASSUME TypeInv, NewThread PROVE ThreadList!AddThread
  OBVIOUS
<1>1. PICK u : u = thread_count + 1
  OBVIOUS
<1>2. threads' = Append(threads, u) /\ thread_count < MaxThreads
  BY <1>1 DEF NewThread, pm_new_thread, AddNode
<1>3. /\ threads \in Seq(Tid) /\ ListOK(threads, thread_count)
      /\ thread_count \in Tid
  BY DEF TypeInv, TypeOK, ListInv
<1>4. u \in Tid /\ u > thread_count /\ thread_count \in Nat
  BY <1>1, <1>2, <1>3, SchedulerAssumption DEF Tid
<1>5. u \notin ThreadList!Used
  <2>1. \A i \in 1 .. Len(threads) : threads[i] \in Nat /\ threads[i] <= thread_count
    BY <1>3, SchedulerAssumption DEF ListOK, Tid
  <2>2. \A i \in 1 .. Len(threads) : threads[i] # u
    BY <1>4, <2>1
  <2>3. ThreadList!Used = {threads[i] : i \in 1 .. Len(threads)}
    BY <1>3 DEF ThreadList!Used, ThreadList!RangeOf
  <2> QED BY <2>2, <2>3
<1>6. PICK s : s = [i \in 1 .. 1 |-> u]
  OBVIOUS
<1>7. s \in ThreadList!New(1)
  <2>1. s \in [1 .. 1 -> Tid \ ThreadList!Used]
    BY <1>4, <1>5, <1>6
  <2>2. ThreadList!Increasing(s)
    BY <1>6 DEF ThreadList!Increasing
  <2> QED BY <2>1, <2>2 DEF ThreadList!New
<1>8. threads' = threads \o s
  <2>1. s = <<u>>
    BY <1>6
  <2> QED BY <1>2, <1>3, <1>4, <2>1
<1> QED BY <1>7, <1>8 DEF ThreadList!AddThread

LEMMA TickLists ==
  TimerIrq \/ Syscall => ThreadList!MoveToEnd \/ UNCHANGED threads
<1> SUFFICES ASSUME TimerIrq \/ Syscall
             PROVE  ThreadList!MoveToEnd \/ UNCHANGED threads
  OBVIOUS
<1>1. threads' = threads \/ threads' = MoveToEnd(threads)
  BY DEF TimerIrq, Syscall, Schedule, Reordered
<1> QED BY <1>1 DEF MoveToEnd, ThreadList!MoveToEnd

(* The kill is a removal only, although it is followed by a schedule: the  *)
(* successor has its whole quantum, so it is not moved behind the others.  *)
LEMMA UserFaultLists ==
  TypeInv /\ QuantumLeft /\ UserFault => ThreadList!RemoveThread
<1> SUFFICES ASSUME TypeInv, QuantumLeft, UserFault PROVE ThreadList!RemoveThread
  OBVIOUS
<1>1. PICK list : list = Tail(threads)
  OBVIOUS
<1>2. /\ threads \in Seq(Tid) /\ threads # <<>> /\ ListOK(threads, thread_count)
      /\ privilege[0] = PL0 /\ Len(threads) \in Nat
  BY DEF TypeInv, TypeOK, ListInv
<1>3. PICK regs, esp0, fs : Schedule(list, regs, esp0, fs)
  BY <1>1 DEF UserFault
<1>4. list # <<>>
  <2>1. Head(threads) # 0
    BY <1>2 DEF UserFault, Active, PL0, PL3
  <2> QED BY <1>1, <1>2, <2>1, TailOK
<1>5. Head(list) = threads[2] /\ 2 \in 2 .. Len(threads)
  <2>1. Len(list) = Len(threads) - 1 /\ list \in Seq(Tid)
    BY <1>1, <1>2
  <2>2. Len(list) \in Nat \ {0} /\ Head(list) = list[1]
    <3>1. list \in Seq(Tid)
      BY <2>1
    <3> QED BY <1>4, <3>1
  <2>3. 1 \in 1 .. Len(threads) - 1 /\ list[1] = threads[2]
    BY <1>1, <1>2, <2>1, <2>2
  <2> QED BY <2>1, <2>2, <2>3
<1>6. threads' = list
  <2>1. quantum[Head(list)] = TimeQuantum
    BY <1>5, QuantumOfList
  <2>2. Charged(quantum[Head(list)]) > 0 /\ Charged(quantum[Head(list)]) \in Nat
    BY <2>1, SchedulerAssumption DEF Charged
  <2> QED BY <1>3, <2>2 DEF Schedule, Reordered
<1>7. PICK i \in DOMAIN threads : i = 1
  BY <1>2, <1>5
<1>8. threads' = SubSeq(threads, 1, i - 1) \o SubSeq(threads, i + 1, Len(threads))
  <2>1. SubSeq(threads, 1, i - 1) = <<>>
    BY <1>2, <1>7
  <2>2. SubSeq(threads, i + 1, Len(threads)) = list
    BY <1>1, <1>2, <1>7
  <2>3. <<>> \o list = list
    BY <1>1, <1>2
  <2> QED BY <1>6, <2>1, <2>2, <2>3
<1> QED BY <1>8 DEF ThreadList!RemoveThread

(* What pm.c and idt.c do with their list are additions of a thread that   *)
(* is in no list, removals, and moves of the head to the end: what Ramdisk *)
(* implements with nodes and pointers is what the scheduler needs.         *)
THEOREM ThreadsAreANodeList == Spec => ThreadList!Spec
<1>1. Init => ThreadList!Init
  BY DEF Init, ThreadList!Init
<1>2. TypeInv /\ QuantumLeft /\ [Next]_vars => [ThreadList!Next]_(ThreadList!vars)
  <2> SUFFICES ASSUME TypeInv, QuantumLeft, [Next]_vars
               PROVE  ThreadList!Next \/ UNCHANGED threads
    BY DEF ThreadList!vars
  <2>1. CASE NewThread
    BY <2>1, NewThreadLists DEF ThreadList!Next
  <2>2. CASE TimerIrq \/ Syscall
    BY <2>2, TickLists DEF ThreadList!Next
  <2>3. CASE UserFault
    BY <2>3, UserFaultLists DEF ThreadList!Next
  <2>4. CASE UNCHANGED threads
    BY <2>4
  <2> QED
    BY <2>1, <2>2, <2>3, <2>4
    DEF Next, Spin, OtherIrq, KernelFault, Compute, InterruptBlock,
        InterruptUnblock, vars
<1> QED BY <1>1, <1>2, TypeCorrect, QuantumAlwaysLeft, PTL DEF Spec, ThreadList!Spec

==============================================================================
