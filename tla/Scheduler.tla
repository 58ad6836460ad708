----------------------------- MODULE Scheduler -----------------------------
(***************************************************************************)
(* Preemptive multithreading on one CPU: the thread list of pm.c, the      *)
(* interrupt and exception handlers of idt.c, the register frames the      *)
(* stubs of idt.asm build on stacks, and the stack switch the CPU makes    *)
(* through the TSS when ring 3 is interrupted.                             *)
(*                                                                         *)
(* A handler runs behind an interrupt gate with interrupts off and         *)
(* returns through `sti; iret', which no interrupt can split, so a whole   *)
(* handler is one action.  Memory is kept in bytes: a frame is an interval *)
(* of addresses, and whatever is written over a frame destroys it.         *)
(***************************************************************************)
EXTENDS PageBitmap, Sequences

CONSTANTS
  MaxThreads,     \* bound on the calls of pm_new_thread
  TimeQuantum,    \* PM_THREAD_TIME_QUANTUM
  StackSizes,     \* stack_size arguments of pm_new_thread
  Depths,         \* bytes a thread may have pushed on its stack
  BootPages,      \* pages in use when pm_init has run
  StackTop,       \* &stack_top, where the boot stack of thread 0 begins
  IntStackTop     \* int_stack.stack_top

ASSUME SchedulerAssumption ==
  /\ MaxThreads \in Nat
  /\ TimeQuantum \in Nat \ {0, 1}
  /\ StackSizes \subseteq Nat
  /\ Depths \subseteq Nat /\ 0 \in Depths
  /\ BootPages \subseteq Pages
  /\ StackTop \in Nat
  /\ IntStackTop \in Nat

VARIABLES
  threads,        \* the list: thread ids, the active thread first
  thread_count,
  quantum,        \* thread_t.quantum
  privilege,      \* thread_t.privilege
  int_stack_esp,  \* thread_t.int_stack_esp
  thread_regs,    \* thread_t.thread_regs: [esp, ctx]
  tss_esp0,       \* tss.esp0
  memory_bitmap,  \* pages in use
  frames,         \* register frames that lie intact on some stack
  cpu,            \* the context the CPU is executing
  stack,          \* history: the memory kmalloc gave each thread as a stack
  halted          \* the kernel stopped after an exception in ring 0

vars == <<threads, thread_count, quantum, privilege, int_stack_esp,
          thread_regs, tss_esp0, memory_bitmap, frames, cpu, stack, halted>>

Tid == 0 .. MaxThreads
PL0 == 0
PL3 == 3
Active == Head(threads)
Waiting == {threads[i] : i \in 2 .. Len(threads)}
Live == {threads[i] : i \in 1 .. Len(threads)}

----------------------------------------------------------------------------
(* Register contexts and the frames that hold them.                        *)

(* A context: whose it is, its stack pointer (which stands for how far it  *)
(* has come), its ring (cs) and its interrupt flag (in eflags).            *)
Contexts == [tid : Tid, sp : Int, cs : {PL0, PL3}, intr : BOOLEAN]

(* What the CPU runs after it popped bytes that are no frame: anything. *)
Wild == [tid |-> MaxThreads + 1, sp |-> 0, cs |-> PL0, intr |-> FALSE]

EspOffset == 48      \* PM_ESP_OFFSET: from a frame's base to its saved esp
RegsSize == 76       \* sizeof(struct x86_registers)
Ring0Size == 68      \* the same without useresp and ss
Useresp == 48        \* a new thread's stack pointer above ebp + stack_size

Frames == [base : Int, size : {Ring0Size, RegsSize}, ctx : Contexts]
SavedRegs == [esp : Int, ctx : Contexts \cup {Wild}]

Overlap(a, n, b, m) == n > 0 /\ m > 0 /\ a < b + m /\ b < a + n

(* Writing n bytes at address a destroys the frames that lie there. *)
Overwrite(fs, a, n) == {f \in fs : ~Overlap(a, n, f.base, f.size)}

(* The CPU and the stub push a frame: from ring 3 the CPU first switches   *)
(* to tss.esp0, from ring 0 it goes on with the stack it is on.            *)
FrameSize(c) == IF c.cs = PL3 THEN RegsSize ELSE Ring0Size
FrameBase(c) == IF c.cs = PL3 THEN tss_esp0 - RegsSize ELSE c.sp - Ring0Size
FrameOf(c) == [base |-> FrameBase(c), size |-> FrameSize(c), ctx |-> c]
Pushed(fs, f) == Overwrite(fs, f.base, f.size) \cup {f}

(* The stub pops the frame at an address and returns to what it holds. *)
FramesAt(fs, base) == {f \in fs : f.base = base}
Popped(fs, base) ==
  IF FramesAt(fs, base) = {} THEN Wild
  ELSE (CHOOSE f \in FramesAt(fs, base) : TRUE).ctx
Iret(fs, base) ==
  /\ cpu' = Popped(fs, base)
  /\ frames' = fs \ FramesAt(fs, base)

----------------------------------------------------------------------------
(* pm.c                                                                    *)

Init ==
  /\ threads = <<0>>
  /\ thread_count = 0
  /\ quantum = [t \in Tid |-> IF t = 0 THEN TimeQuantum ELSE 0]
  /\ privilege = [t \in Tid |-> PL0]
  /\ int_stack_esp = [t \in Tid |-> 0]
  /\ cpu = [tid |-> 0, sp |-> StackTop, cs |-> PL0, intr |-> FALSE]
  /\ thread_regs = [t \in Tid |-> [esp |-> StackTop, ctx |-> Wild]]
  /\ tss_esp0 = IntStackTop
  /\ memory_bitmap = BootPages
  /\ frames = {}
  /\ stack = [t \in Tid |-> [base |-> 0, length |-> StackTop,
                             top |-> StackTop]]
  /\ halted = FALSE

(* The thread at the head of the list is the one the CPU is executing. *)
Executing == ~halted /\ cpu # Wild
AtRing0 == Executing /\ cpu.cs = PL0

(* save_ring_0_esp, for a thread whose saved cs is that of ring 3. *)
RingZeroEspKept(t, ctx, esp0) == esp0
RingZeroEsp(t, ctx, esp0) ==
  IF ctx.cs = PL3 THEN int_stack_esp[t] ELSE esp0

(* proc_save: the frame of the interrupted context is copied to the head   *)
(* of the list, and tss.esp0 set again if it came from ring 3.             *)
RegsSavedUnadjusted(f) ==
  [thread_regs EXCEPT ![Active] = [esp |-> f.base, ctx |-> f.ctx]]
RegsSaved(f) ==
  [thread_regs EXCEPT ![Active] =
     [esp |-> f.base + EspOffset, ctx |-> f.ctx]]
EspSaved(f) == RingZeroEsp(Active, f.ctx, tss_esp0)

(* list_add_node and list_move_to_end. *)
AddSecond(list, t) == <<Head(list), t>> \o Tail(list)
AddNode(list, t) == Append(list, t)

SwapFirstTwo(list) ==
  IF Len(list) = 1 THEN list
  ELSE <<list[2], list[1]>> \o Tail(Tail(list))
MoveToEnd(list) == Append(Tail(list), Head(list))

(* proc_schedule: the head pays a tick, at the end of its quantum it goes  *)
(* to the tail with a new one, and the frame of the (new) head is popped.  *)
Charged(q) == IF q > 0 THEN q - 1 ELSE q
NeverRenewed(q) == q
Renewed(q) == IF q <= 0 THEN TimeQuantum ELSE q
Reordered(list, q) == IF q <= 0 THEN MoveToEnd(list) ELSE list
Schedule(list, regs, esp0, fs) ==
  LET left == Charged(quantum[Head(list)])
      next == Reordered(list, left)
      head == Head(next)
  IN /\ threads' = next
     /\ quantum' = [quantum EXCEPT ![Head(list)] = Renewed(left)]
     /\ thread_regs' = regs
     /\ tss_esp0' = RingZeroEsp(head, regs[head].ctx, esp0)
     /\ Iret(fs, regs[head].esp - EspOffset)

(* pm_new_thread.  Node and descriptor come from the heap, which may take  *)
(* a page of its own for them (`grow') before the stack is allocated.      *)
StackBlocksRoundedDown(size) == (IF size < PageSize THEN PageSize ELSE size) \div PageSize
StackBlocks(size) == BlocksFor(IF size < PageSize THEN PageSize ELSE size)

NewContextBlocked(t, base, size, pl) ==
  [tid |-> t, cs |-> pl, intr |-> FALSE,
   sp |-> base + size + (IF pl = PL3 THEN Useresp ELSE Ring0Size)]
NewContext(t, base, size, pl) ==
  [tid |-> t, cs |-> pl, intr |-> TRUE,
   sp |-> base + size + (IF pl = PL3 THEN Useresp ELSE Ring0Size)]

pm_new_thread(size, pl, grow) ==
  LET t == thread_count + 1
      heap == IF grow THEN MarkUsed(memory_bitmap, 1) ELSE memory_bitmap
      cleared == IF grow
                 THEN Overwrite(frames, FirstFit(memory_bitmap, 1) * PageSize,
                                PageSize)
                 ELSE frames
      n == StackBlocks(size)
      base == FirstFit(heap, n) * PageSize
      taken == MarkUsed(heap, n)
      ctx == NewContext(t, base, size, pl)
      frame == [base |-> base + size, size |-> RegsSize, ctx |-> ctx]
  IN /\ AtRing0
     /\ thread_count < MaxThreads
     /\ threads' = AddNode(threads, t)
     /\ thread_count' = t
     /\ quantum' = [quantum EXCEPT ![t] = TimeQuantum]
     /\ privilege' = [privilege EXCEPT ![t] = pl]
     /\ thread_regs' = [thread_regs EXCEPT ![t] =
                          [esp |-> base + size + EspOffset, ctx |-> ctx]]
     /\ IF pl = PL3
        THEN /\ int_stack_esp' = [int_stack_esp EXCEPT ![t] =
                                    FirstFit(taken, 1) * PageSize]
             /\ memory_bitmap' = MarkUsed(taken, 1)
        ELSE /\ memory_bitmap' = taken
             /\ UNCHANGED int_stack_esp
     /\ frames' = Pushed(cleared, frame)
     /\ stack' = [stack EXCEPT ![t] = [base |-> base, length |-> n * PageSize,
                                       top |-> ctx.sp]]
     /\ cpu' = [cpu EXCEPT !.intr = TRUE]
     /\ UNCHANGED <<tss_esp0, halted>>

NewThread ==
  \E size \in StackSizes, pl \in {PL0, PL3}, grow \in BOOLEAN :
    pm_new_thread(size, pl, grow)

----------------------------------------------------------------------------
(* idt.c and idt.asm                                                       *)

(* irq_handler for the system timer: save, acknowledge, schedule. *)
TimerIrq ==
  /\ Executing /\ cpu.intr
  /\ LET f == FrameOf(cpu)
     IN Schedule(threads, RegsSaved(f), EspSaved(f), Pushed(frames, f))
  /\ UNCHANGED <<thread_count, privilege, int_stack_esp, memory_bitmap,
                 stack, halted>>

(* irq_handler for any other line: the interrupted context goes on. *)
OtherIrq ==
  /\ Executing /\ cpu.intr
  /\ LET f == FrameOf(cpu)
     IN /\ thread_regs' = RegsSaved(f)
        /\ tss_esp0' = EspSaved(f)
        /\ Iret(Pushed(frames, f), f.base)
  /\ UNCHANGED <<threads, thread_count, quantum, privilege, int_stack_esp,
                 memory_bitmap, stack, halted>>

(* isr_handler for int 0x80, which costs the caller a tick. *)
Syscall ==
  /\ Executing
  /\ LET f == FrameOf(cpu)
     IN Schedule(threads, RegsSaved(f), EspSaved(f), Pushed(frames, f))
  /\ UNCHANGED <<thread_count, privilege, int_stack_esp, memory_bitmap,
                 stack, halted>>

(* isr_handler for an exception while the head is a user thread: the head  *)
(* is removed without a save, and its successor scheduled.                 *)
UserFault ==
  /\ Executing /\ privilege[Active] = PL3
  /\ Schedule(Tail(threads), thread_regs, tss_esp0,
              Overwrite(frames, FrameBase(cpu), FrameSize(cpu)))
  /\ UNCHANGED <<thread_count, privilege, int_stack_esp, memory_bitmap,
                 stack, halted>>

(* ... and while it is a kernel thread: the system stops. *)
KernelFault ==
  /\ Executing /\ privilege[Active] = PL0
  /\ halted' = TRUE
  /\ frames' = Overwrite(frames, FrameBase(cpu), FrameSize(cpu))
  /\ UNCHANGED <<threads, thread_count, quantum, privilege, int_stack_esp,
                 thread_regs, tss_esp0, memory_bitmap, cpu, stack>>

Spin == halted /\ UNCHANGED vars

----------------------------------------------------------------------------
(* The code of the threads: kernel threads may bracket a critical section  *)
(* with interrupt_block and interrupt_unblock, and every thread computes   *)
(* and pushes data on its stack.                                           *)

Compute ==
  /\ Executing
  /\ \E d \in Depths :
       /\ cpu' = [cpu EXCEPT !.sp = stack[cpu.tid].top - d]
       /\ frames' = Overwrite(frames, stack[cpu.tid].top - d, d)
  /\ UNCHANGED <<threads, thread_count, quantum, privilege, int_stack_esp,
                 thread_regs, tss_esp0, memory_bitmap, stack, halted>>

InterruptBlock ==
  /\ AtRing0 /\ cpu.intr
  /\ cpu' = [cpu EXCEPT !.intr = FALSE]
  /\ UNCHANGED <<threads, thread_count, quantum, privilege, int_stack_esp,
                 thread_regs, tss_esp0, memory_bitmap, frames, stack, halted>>

InterruptUnblock ==
  /\ AtRing0 /\ ~cpu.intr
  /\ cpu' = [cpu EXCEPT !.intr = TRUE]
  /\ UNCHANGED <<threads, thread_count, quantum, privilege, int_stack_esp,
                 thread_regs, tss_esp0, memory_bitmap, frames, stack, halted>>

Next == \/ NewThread \/ TimerIrq \/ OtherIrq \/ Syscall
        \/ UserFault \/ KernelFault \/ Spin
        \/ Compute \/ InterruptBlock \/ InterruptUnblock

Spec == Init /\ [][Next]_vars

(* The PIC latches a tick that arrives while interrupts are off, so one is *)
(* taken whenever interrupts are on again and again; and every critical    *)
(* section of the kernel ends.                                             *)
Fairness == SF_vars(TimerIrq) /\ WF_vars(InterruptUnblock)

FairSpec == Spec /\ Fairness

----------------------------------------------------------------------------
(* Properties                                                              *)

(* Types of the variables (struct thread_t, tss, memory_bitmap). *)
TypeOK ==
  /\ threads \in Seq(Tid) /\ threads # <<>>
  /\ thread_count \in Tid
  /\ quantum \in [Tid -> 0 .. TimeQuantum]
  /\ privilege \in [Tid -> {PL0, PL3}]
  /\ int_stack_esp \in [Tid -> Nat]
  /\ thread_regs \in [Tid -> SavedRegs]
  /\ tss_esp0 \in Nat
  /\ memory_bitmap \subseteq Pages
  /\ frames \subseteq Frames
  /\ cpu \in Contexts \cup {Wild}
  /\ stack \in [Tid -> [base : Nat, length : Nat, top : Nat]]
  /\ halted \in BOOLEAN

(* While a thread waits, the frame that iret will pop for it lies intact   *)
(* at the address proc_schedule computes from its saved esp, and holds the *)
(* registers proc_save (or pm_new_thread) recorded for that thread.        *)
SavedContextIntact ==
  \A t \in Waiting :
    \E f \in frames : /\ f.base = thread_regs[t].esp - EspOffset
                      /\ f.ctx = thread_regs[t].ctx
                      /\ f.ctx.tid = t

(* isr_handler and proc_save take the head of the list for the interrupted *)
(* thread: it is the one the CPU executes, in the ring its descriptor says *)
(* and, in ring 3, with interrupts on and with tss.esp0 on its own stack.  *)
HeadIsRunning ==
  /\ cpu.tid = Active
  /\ cpu.cs = privilege[Active]
  /\ cpu.cs = PL3 => cpu.intr /\ tss_esp0 = int_stack_esp[Active]

(* A thread that waits has its whole quantum before it, and the one that   *)
(* runs has some of it left (pm_new_thread, proc_schedule, and the kill of *)
(* isr_handler, whose tick the successor pays).                            *)
QuantumLeft ==
  /\ \A t \in Waiting : quantum[t] = TimeQuantum
  /\ quantum[Active] > 0

(* Every register frame lies in memory that kmalloc gave to the thread     *)
(* whose registers it holds: its stack or its page for interrupts.         *)
Within(f, lo, n) == lo <= f.base /\ f.base + f.size <= lo + n
FramesInOwnMemory ==
  \A f \in frames :
    LET t == f.ctx.tid
    IN \/ Within(f, stack[t].base, stack[t].length)
       \/ privilege[t] = PL3 /\ Within(f, int_stack_esp[t], PageSize)

(* No interrupt or new thread writes over what a thread has pushed.        *)
StackPointer(t) == IF t = cpu.tid THEN cpu.sp ELSE thread_regs[t].ctx.sp
StacksIntact ==
  \A t \in Live, f \in frames :
    ~Overlap(f.base, f.size, StackPointer(t), stack[t].top - StackPointer(t))

(* A thread once created stays in the list until it is itself the one that *)
(* faults, and no thread overtakes one that waits (list_add_node,          *)
(* list_move_to_end, list_remove_node).                                    *)
Position(list, t) == CHOOSE i \in 1 .. Len(list) : list[i] = t
NoOvertaking ==
  [][\A t \in Waiting : /\ t \in Live'
                        /\ Position(threads', t) <= Position(threads, t)]_vars

(* A thread that waits runs again, unless the kernel stops. *)
EveryThreadRuns ==
  \A t \in Tid : t \in Waiting ~> (cpu.tid = t \/ halted)

(* The scheduler implements ideal multithreading: the registers of the     *)
(* running thread are the CPU's, those of a waiting one lie in the frame   *)
(* on its stack.                                                           *)
RegistersOf(t) ==
  IF t \notin Live THEN Wild
  ELSE IF t = Active THEN cpu
  ELSE Popped(frames, thread_regs[t].esp - EspOffset)

Ideal == INSTANCE Multithreading
           WITH Thread <- Tid, First <- 0, Context <- Contexts,
                NoContext <- Wild, queue <- threads,
                registers <- [t \in Tid |-> RegistersOf(t)],
                user <- {t \in Tid : privilege[t] = PL3},
                stopped <- halted

ImplementsMultithreading == Ideal!Spec

============================================================================
