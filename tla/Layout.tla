------------------------------- MODULE Layout -------------------------------
(***************************************************************************)
(* The scheduler on a memory whose free pages have no hole, with stacks    *)
(* that leave room for what the kernel adds to them; and the invariant     *)
(* that explains why contexts survive there although int_stack_esp is the  *)
(* lower end of the page allocated for it: the frame of a user thread ends *)
(* up at the upper end of the page below, which is its own stack's.        *)
(***************************************************************************)
EXTENDS Scheduler

CONSTANTS
  BootCount,      \* pages in use when pm_init has run
  StackPages      \* most pages a stack takes

ASSUME LayoutAssumption ==
  /\ BootCount \in Nat \ {0} /\ StackPages \in Nat
  /\ BootPages = 0 .. BootCount - 1
  /\ StackTop <= BootCount * PageSize
  /\ \A s \in StackSizes :
       /\ StackBlocks(s) <= StackPages
       /\ s + Useresp + RegsSize <= StackBlocks(s) * PageSize
  /\ \A d \in Depths : /\ d + Ring0Size <= StackTop
                       /\ \A s \in StackSizes : d <= s
  /\ BootCount + MaxThreads * (StackPages + 2) <= NumPages

Created == 0 .. thread_count
End(t) == stack[t].base + stack[t].length

(* Pages are handed out from the bottom up, to one thread after another.   *)
MemoryInv ==
  /\ \E m \in 0 .. NumPages :
       /\ memory_bitmap = 0 .. m - 1
       /\ m <= BootCount + thread_count * (StackPages + 2)
       /\ \A t \in Created : End(t) <= m * PageSize
  /\ \A t, u \in Created : t < u => End(t) <= stack[u].base

(* A thread stays within its stack, and above a user thread's stack pointer *)
(* there is room for the frame that an interrupt puts below int_stack_esp.  *)
LowestSp(t) == stack[t].base + (IF privilege[t] = PL0 THEN Ring0Size ELSE 0)
StackInv ==
  \A t \in Created :
    /\ stack[t].top <= End(t)
    /\ \A d \in Depths : LowestSp(t) <= stack[t].top - d
    /\ privilege[t] = PL3 => /\ int_stack_esp[t] = End(t)
                             /\ stack[t].top + RegsSize <= End(t)

(* A context of a thread, on the CPU or saved. *)
ContextOf(c, t) ==
  /\ c \in Contexts /\ c.tid = t /\ c.cs = privilege[t]
  /\ c.cs = PL3 => c.intr
  /\ LowestSp(t) <= c.sp /\ c.sp <= stack[t].top

(* A frame lies on the stack of its thread, clear of what the thread has   *)
(* pushed, and is the only one of that thread.                             *)
FrameInv(f) ==
  LET t == f.ctx.tid
  IN /\ t \in Created
     /\ Within(f, stack[t].base, stack[t].length)
     /\ \/ f.base + f.size <= f.ctx.sp
        \/ stack[t].top <= f.base
        \/ stack[t].top = f.ctx.sp
FramesInv(fs) ==
  /\ \A f \in fs : FrameInv(f)
  /\ \A f, g \in fs : f.ctx.tid = g.ctx.tid => f = g

(* What proc_schedule needs of a thread it is to resume. *)
Resumable(t, regs, fs) ==
  /\ ContextOf(regs[t].ctx, t)
  /\ \E f \in fs : /\ f.base = regs[t].esp - EspOffset
                   /\ f.ctx = regs[t].ctx

RunningInv ==
  /\ ContextOf(cpu, Active)
  /\ cpu.cs = PL3 => tss_esp0 = int_stack_esp[Active]

ContextInv ==
  /\ MemoryInv
  /\ StackInv
  /\ FramesInv(frames)
  /\ \A f \in frames : f.ctx.tid \in Waiting
  /\ \A t \in Waiting : Resumable(t, thread_regs, frames)
  /\ RunningInv

============================================================================
