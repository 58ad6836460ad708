----------------------------- MODULE BootProofs -----------------------------
(***************************************************************************)
(* Interrupts during the boot: at whatever point of kernel_main one comes, *)
(* its gate, the segments and the list of threads are there, and each end  *)
(* of interrupt ends the line that is being handled.  Proved for every set *)
(* of wired lines, every order of drivers and any number of keys.          *)
(***************************************************************************)
EXTENDS Boot, TLAPS

(* kernel_main has made exactly the calls that come before the one it is   *)
(* at, or has refused the header of the boot loader and made none.  The    *)
(* drivers are not noted in `ready', but in irq_handlers.                  *)
Before(i) == {Order[j] : j \in 1 .. i - 1} \ {"drivers"}
PlaceInv ==
  \/ main = "panic" /\ ready = {}
  \/ \E i \in 1 .. Len(Order) : main = Order[i] /\ ready = Before(i)

(* idt_init sets the gates up and moves the lines to them.                 *)
Wiring ==
  gates = Gates /\ offset = [chip \in {0, 1} |-> IF chip = 0 THEN 32 ELSE 40]
WiringInv == "idt_init" \in ready => Wiring

(* Interrupts are on, or one is handled, only when all they need is there. *)
Needed == {"gdt_init", "idt_init", "pm_init", "interrupt_unblock"}
IntrInv == intr \/ service # Idle => Needed \subseteq ready

(* What is handled came through one of the gates of the sixteen lines.     *)
ServiceInv ==
  \/ service = Idle
  \/ service \in [vector : 32 .. 47, step : {"handler", "EOI", "return"}]

BootInv ==
  /\ PlaceInv /\ WiringInv /\ IntrInv /\ ServiceInv
  /\ InterruptsFindTheirWay /\ InServiceWhileServed

----------------------------------------------------------------------------
(* The order of the calls.                                                 *)

(* The calls of kernel_main are fifteen different ones. *)
LEMMA OrderOnce ==
  /\ Len(Order) = 15
  /\ \A i, j \in 1 .. 15 : Order[i] = Order[j] => i = j
BY DEF Order

(* Where those that matter to interrupts come. *)
LEMMA Places ==
  /\ Order[1] = "multiboot_init"
  /\ Order[4] = "gdt_init" /\ Order[5] = "idt_init" /\ Order[9] = "pm_init"
  /\ Order[10] = "interrupt_unblock" /\ Order[11] = "drivers"
  /\ Order[12] = "graphics_init" /\ Order[14] = "pm_new_thread"
  /\ \A i \in 1 .. 15 : Order[i] # "panic"
BY DEF Order

(* The place of kernel_main is the only one with that call. *)
LEMMA AfterNext ==
  ASSUME NEW i \in 1 .. 14
  PROVE  After(Order[i]) = Order[i + 1]
<1>1. (CHOOSE k \in 1 .. 15 : Order[k] = Order[i]) = i
  BY OrderOnce
<1> QED BY <1>1, OrderOnce DEF After

(* A call of kernel_main that returns. *)
LEMMA ReturnPlace ==
  ASSUME PlaceInv, NEW call, main = call, Return(call),
         call \notin {"panic", "drivers", "idle"}
  PROVE  PlaceInv'
<1>1. PICK i \in 1 .. 15 : main = Order[i] /\ ready = Before(i)
  BY OrderOnce DEF PlaceInv
<1>2. i \in 1 .. 14 /\ i # 11
  BY <1>1 DEF Order
<1>3. main' = Order[i + 1] /\ ready' = Before(i) \cup {Order[i]}
  BY <1>1, <1>2, AfterNext DEF Return
<1>4. 1 .. (i + 1) - 1 = (1 .. i - 1) \cup {i}
  BY <1>2
<1>5. Order[i] # "drivers"
  BY <1>2, OrderOnce, Places
<1>6. ready' = Before(i + 1)
  BY <1>3, <1>4, <1>5 DEF Before
<1> QED BY <1>2, <1>3, <1>6, OrderOnce DEF PlaceInv

(* The last driver registered. *)
LEMMA DriversPlace ==
  ASSUME PlaceInv, main = "drivers", main' = After("drivers"), UNCHANGED ready
  PROVE  PlaceInv'
<1>1. PICK i \in 1 .. 15 : main = Order[i] /\ ready = Before(i)
  BY OrderOnce DEF PlaceInv
<1>2. i = 11
  BY <1>1, OrderOnce, Places
<1>3. main' = Order[12]
  BY <1>2, AfterNext, Places
<1>4. 1 .. 12 - 1 = (1 .. 11 - 1) \cup {11}
  OBVIOUS
<1>5. Before(12) = Before(11)
  BY <1>4, Places DEF Before
<1> QED BY <1>1, <1>2, <1>3, <1>5, OrderOnce DEF PlaceInv

(* The steps of kernel_main keep the order, and forget nothing that is     *)
(* ready.                                                                  *)
LEMMA MainPlace == PlaceInv /\ KernelMain => PlaceInv' /\ ready \subseteq ready'
<1> SUFFICES ASSUME PlaceInv, KernelMain
             PROVE  PlaceInv' /\ ready \subseteq ready'
  OBVIOUS
<1>1. CASE \E call : /\ main = call /\ Return(call)
                     /\ call \notin {"panic", "drivers", "idle"}
  BY <1>1, ReturnPlace DEF Return
<1>2. CASE main = "multiboot_init" /\ main' = "panic" /\ UNCHANGED ready
  <2>1. PICK i \in 1 .. 15 : main = Order[i] /\ ready = Before(i)
    BY <1>2, OrderOnce DEF PlaceInv
  <2>2. i = 1
    BY <1>2, <2>1, OrderOnce, Places
  <2>3. ready = {}
    BY <2>1, <2>2 DEF Before
  <2> QED BY <1>2, <2>3 DEF PlaceInv
<1>3. CASE StoreHandler
  <2>1. CASE UNCHANGED main
    BY <1>3, <2>1 DEF StoreHandler, cpuVars, PlaceInv
  <2>2. CASE main' = After("drivers")
    BY <1>3, <2>2, DriversPlace DEF StoreHandler, Main, cpuVars
  <2> QED BY <1>3, <2>1, <2>2 DEF StoreHandler
<1>4. CASE UNCHANGED <<main, ready>>
  BY <1>4 DEF PlaceInv
<1> QED
  BY <1>1, <1>2, <1>3, <1>4
  DEF KernelMain, MultibootInit, SetUp, StartupGraphicsInit, PrintLine, GdtInit,
      IdtInit, InterruptUnblock, Enable, GraphicsInit, PmNewThread, Main, Silent,
      cpuVars

(* interrupt_unblock comes after all that an interrupt needs.              *)
LEMMA NeededBefore ==
  ASSUME PlaceInv, main \in {"interrupt_unblock", "pm_new_thread"}
  PROVE  Needed \subseteq ready \cup {"interrupt_unblock"}
<1>1. PICK i \in 1 .. 15 : main = Order[i] /\ ready = Before(i)
  BY OrderOnce DEF PlaceInv
<1>2. i = 10 \/ i = 14
  BY <1>1, OrderOnce, Places
<1>3. 4 \in 1 .. i - 1 /\ 5 \in 1 .. i - 1 /\ 9 \in 1 .. i - 1
  BY <1>2
<1>4. {Order[4], Order[5], Order[9]} \subseteq ready
  BY <1>1, <1>3, Places DEF Before
<1>5. i = 14 => "interrupt_unblock" \in ready
  <2>1. i = 14 => 10 \in 1 .. i - 1
    OBVIOUS
  <2> QED BY <1>1, <2>1, Places DEF Before
<1> QED BY <1>4, Places DEF Needed

(* gdt_init and idt_init are never called again. *)
LEMMA EarlyCalls ==
  ASSUME PlaceInv, main \in {"gdt_init", "idt_init"}
  PROVE  "interrupt_unblock" \notin ready /\ "idt_init" \notin ready
<1>1. PICK i \in 1 .. 15 : main = Order[i] /\ ready = Before(i)
  BY OrderOnce DEF PlaceInv
<1>2. i = 4 \/ i = 5
  BY <1>1, OrderOnce, Places
<1>3. \A j \in 1 .. i - 1 : j \in 1 .. 15 /\ j # 5 /\ j # 10
  BY <1>2
<1>4. \A j \in 1 .. i - 1 : Order[j] # Order[5] /\ Order[j] # Order[10]
  BY <1>3, OrderOnce
<1> QED BY <1>1, <1>4, Places DEF Before

----------------------------------------------------------------------------
(* Every step keeps BootInv.                                               *)

LEMMA MainInv == BootInv /\ KernelMain => BootInv'
<1> SUFFICES ASSUME BootInv, KernelMain PROVE BootInv'
  OBVIOUS
<1>1. /\ PlaceInv /\ WiringInv /\ IntrInv /\ ServiceInv
      /\ ~derailed /\ InServiceWhileServed
  BY DEF BootInv, InterruptsFindTheirWay
<1>2. service = Idle /\ UNCHANGED <<service, derailed>>
  BY DEF KernelMain, MultibootInit, SetUp, StartupGraphicsInit, PrintLine,
         GdtInit, IdtInit, InterruptUnblock, Enable, StoreHandler,
         GraphicsInit, PmNewThread, Main, cpuVars
<1>3. PlaceInv' /\ ready \subseteq ready'
  BY <1>1, MainPlace
<1>4. isr = {}
  BY <1>1, <1>2 DEF InServiceWhileServed, Idle
<1>5. isr' = {}
  <2>1. CASE IdtInit
    BY <1>4, <2>1 DEF IdtInit, interrupt_init, pic_acknowledge
  <2>2. CASE ~IdtInit
    BY <1>4, <2>2
    DEF KernelMain, MultibootInit, SetUp, StartupGraphicsInit, PrintLine,
        GdtInit, InterruptUnblock, Enable, StoreHandler, GraphicsInit,
        PmNewThread, picVars
  <2> QED BY <2>1, <2>2
<1>6. WiringInv'
  <2>1. CASE IdtInit
    BY <2>1 DEF IdtInit, interrupt_init, pic_init, WiringInv, Wiring
  <2>2. CASE ~IdtInit
    <3>1. UNCHANGED <<gates, offset>>
      BY <2>2
      DEF KernelMain, MultibootInit, SetUp, StartupGraphicsInit, PrintLine,
          GdtInit, InterruptUnblock, Enable, StoreHandler, GraphicsInit,
          PmNewThread, picVars, cpuVars, pic_enable
    <3>2. "idt_init" \in ready' => "idt_init" \in ready
      BY <2>2
      DEF KernelMain, MultibootInit, SetUp, StartupGraphicsInit, PrintLine,
          GdtInit, InterruptUnblock, Enable, StoreHandler, GraphicsInit,
          PmNewThread, Return, Silent, cpuVars
    <3> QED BY <1>1, <3>1, <3>2 DEF WiringInv, Wiring
  <2> QED BY <2>1, <2>2
<1>7. IntrInv'
  <2>1. CASE InterruptUnblock \/ PmNewThread
    <3>1. Needed \subseteq ready \cup {"interrupt_unblock"}
      BY <1>1, <2>1, NeededBefore DEF InterruptUnblock, PmNewThread, Main
    <3>2. CASE InterruptUnblock
      BY <3>1, <3>2 DEF InterruptUnblock, Return, IntrInv
    <3>3. CASE PmNewThread
      <4>1. "interrupt_unblock" \in ready
        <5>1. PICK k \in 1 .. 15 : main = Order[k] /\ ready = Before(k)
          BY <1>1, <3>3, OrderOnce DEF PlaceInv, PmNewThread, Main
        <5>2. k = 14
          BY <3>3, <5>1, OrderOnce, Places DEF PmNewThread, Main
        <5> QED BY <5>1, <5>2, Places DEF Before
      <4> QED BY <3>1, <3>3, <4>1 DEF PmNewThread, Return, IntrInv
    <3> QED BY <2>1, <3>2, <3>3
  <2>2. CASE ~(InterruptUnblock \/ PmNewThread)
    <3>1. intr' \in {intr, FALSE}
      BY <2>2
      DEF KernelMain, MultibootInit, SetUp, StartupGraphicsInit, PrintLine,
          GdtInit, IdtInit, Enable, StoreHandler, GraphicsInit, cpuVars
    <3> QED BY <1>1, <1>2, <1>3, <3>1 DEF IntrInv
  <2> QED BY <2>1, <2>2
<1> QED
  BY <1>1, <1>2, <1>3, <1>5, <1>6, <1>7
  DEF BootInv, InterruptsFindTheirWay, InServiceWhileServed, ServiceInv

(* Where the lines are once idt_init has run. *)
LEMMA WiredVectors ==
  ASSUME Wiring, NEW irq \in 0 .. 15
  PROVE  Vector(irq) = 32 + irq /\ Vector(irq) \in Gates
BY DEF Wiring, Vector, Chip, Gates

(* An interrupt begins. *)
LEMMA EnterInv ==
  ASSUME BootInv, Interruptible, NEW irq \in 0 .. 15, Enter(Vector(irq)),
         isr' \subseteq isr \cup (IF Chip(irq) = 1 THEN {irq, Cascade} ELSE {irq})
  PROVE  BootInv'
<1>1. service = Idle /\ Needed \subseteq ready /\ Wiring /\ isr = {}
  BY DEF BootInv, Interruptible, IntrInv, WiringInv, Needed,
         InServiceWhileServed, Idle
<1>2. Vector(irq) = 32 + irq /\ Vector(irq) \in gates
  BY <1>1, WiredVectors DEF Wiring
<1>3. /\ service' = [vector |-> 32 + irq, step |-> "handler"]
      /\ UNCHANGED <<offset, ready, gates, main>> /\ intr' = FALSE
      /\ derailed' = ~({"gdt_init", "idt_init", "pm_init"} \subseteq ready)
  BY <1>2 DEF Enter
<1>4. ServiceInv'
  BY <1>3 DEF ServiceInv
<1>5. InServiceWhileServed'
  <2>1. Line' = irq
    BY <1>3 DEF Line
  <2>2. service'.step = "handler"
    BY <1>3
  <2> QED BY <1>1, <2>1, <2>2 DEF InServiceWhileServed
<1>6. ~derailed'
  BY <1>1, <1>3 DEF Needed
<1>7. PlaceInv' /\ WiringInv' /\ IntrInv'
  BY <1>1, <1>3 DEF BootInv, PlaceInv, WiringInv, Wiring, IntrInv
<1> QED
  BY <1>4, <1>5, <1>6, <1>7 DEF BootInv, InterruptsFindTheirWay

(* The steps of a handler that leave the lines in service alone. *)
LEMMA HandlerInv == BootInv /\ Handler => BootInv'
<1> SUFFICES ASSUME BootInv, Handler PROVE BootInv'
  OBVIOUS
<1>1. /\ service.step = "handler"
      /\ service' = [service EXCEPT !.step = "EOI"]
      /\ UNCHANGED <<offset, isr, intr, ready, gates, derailed, main>>
  BY DEF Handler, Serving, NextStep, picVars
<1>2. service \in [vector : 32 .. 47, step : {"handler", "EOI", "return"}]
  BY <1>1 DEF BootInv, ServiceInv, Idle
<1>3. /\ service' \in [vector : 32 .. 47, step : {"handler", "EOI", "return"}]
      /\ service'.step = "EOI" /\ service'.vector = service.vector
  BY <1>1, <1>2
<1>4. InServiceWhileServed'
  BY <1>1, <1>3 DEF BootInv, InServiceWhileServed, Line
<1>5. service # Idle
  BY <1>1 DEF Idle
<1> QED
  BY <1>1, <1>3, <1>4, <1>5
  DEF BootInv, InterruptsFindTheirWay, PlaceInv, WiringInv, Wiring, IntrInv,
      ServiceInv

(* The end of interrupt: the highest line in service of each chip is the   *)
(* one that is handled, or the cascade it came through.                    *)
LEMMA EndOfInterruptInv == BootInv /\ EndOfInterrupt => BootInv'
<1> SUFFICES ASSUME BootInv, EndOfInterrupt PROVE BootInv'
  OBVIOUS
<1>1. /\ service.step = "EOI"
      /\ service' = [service EXCEPT !.step = "return"]
      /\ irq_send_EOI_8259(Line)
      /\ UNCHANGED <<offset, intr, ready, gates, derailed, main>>
  BY DEF EndOfInterrupt, Serving, NextStep
<1>2. service \in [vector : 32 .. 47, step : {"handler", "EOI", "return"}]
  BY <1>1 DEF BootInv, ServiceInv, Idle
<1>3. /\ service' \in [vector : 32 .. 47, step : {"handler", "EOI", "return"}]
      /\ service'.step = "return"
  BY <1>1, <1>2
<1>4. service # Idle
  BY <1>1 DEF Idle
<1>5. Wiring /\ Line \in 0 .. 15
  BY <1>2, <1>4 DEF BootInv, IntrInv, WiringInv, Needed, Line
<1>6. isr \subseteq IF Chip(Line) = 1 THEN {Line, Cascade} ELSE {Line}
  BY <1>1 DEF BootInv, InServiceWhileServed
<1>7. Vector(Line) = 32 + Line
  BY <1>5, WiredVectors
<1>8. isr' = {}
  <2>1. isr' = isr \ (Highest(OnChip(0)) \cup
                      IF Vector(Line) >= 40 THEN Highest(OnChip(1)) ELSE {})
    BY <1>1 DEF irq_send_EOI_8259
  <2>2. CASE Line < 8
    <3>1. Chip(Line) = 0
      BY <1>5, <2>2 DEF Chip
    <3>2. isr \subseteq {Line}
      BY <1>6, <3>1
    <3>3. isr \subseteq Highest(OnChip(0))
      BY <1>5, <3>1, <3>2 DEF Highest, OnChip
    <3> QED BY <2>1, <3>3
  <2>3. CASE Line >= 8
    <3>1. Chip(Line) = 1 /\ Chip(Cascade) = 0
      BY <1>5, <2>3 DEF Chip, Cascade
    <3>2. isr \subseteq {Line, Cascade}
      BY <1>6, <3>1
    <3>3. isr \cap {Cascade} \subseteq Highest(OnChip(0))
      BY <3>1, <3>2 DEF Highest, OnChip, Cascade
    <3>4. isr \cap {Line} \subseteq Highest(OnChip(1))
      BY <1>5, <3>1, <3>2 DEF Highest, OnChip
    <3>5. Vector(Line) >= 40
      BY <1>5, <1>7, <2>3
    <3> QED BY <2>1, <3>2, <3>3, <3>4, <3>5
  <2> QED BY <1>5, <2>2, <2>3
<1>9. InServiceWhileServed'
  BY <1>8 DEF InServiceWhileServed
<1> QED
  BY <1>1, <1>3, <1>4, <1>9
  DEF BootInv, InterruptsFindTheirWay, PlaceInv, WiringInv, Wiring, IntrInv,
      ServiceInv

LEMMA IretInv == BootInv /\ Iret => BootInv'
<1> SUFFICES ASSUME BootInv, Iret PROVE BootInv'
  OBVIOUS
<1>1. /\ service.step = "return" /\ service' = Idle
      /\ UNCHANGED <<offset, isr, ready, gates, derailed, main>>
  BY DEF Iret, Serving, picVars
<1>2. service # Idle
  BY <1>1 DEF Idle
<1>3. isr' = {}
  BY <1>1 DEF BootInv, InServiceWhileServed
<1> QED
  BY <1>1, <1>2, <1>3
  DEF BootInv, InterruptsFindTheirWay, PlaceInv, WiringInv, Wiring, IntrInv,
      ServiceInv, InServiceWhileServed

(* What kernel_main has made ready is there for every interrupt, and no    *)
(* line is left in service.                                                *)
THEOREM BootSafe == Spec => []BootInv
<1>1. Init => BootInv
  <2> SUFFICES ASSUME Init PROVE BootInv
    OBVIOUS
  <2>1. main = Order[1] /\ ready = Before(1)
    BY Places DEF Init, Before
  <2> QED
    BY <2>1, OrderOnce
    DEF Init, BootInv, PlaceInv, WiringInv, IntrInv, ServiceInv,
        InterruptsFindTheirWay, InServiceWhileServed
<1>2. BootInv /\ [Next]_vars => BootInv'
  <2> SUFFICES ASSUME BootInv, [Next]_vars PROVE BootInv'
    OBVIOUS
  <2>1. CASE KernelMain
    BY <2>1, MainInv
  <2>2. CASE \E irq \in Wired : Take(irq)
    <3>1. PICK irq \in Wired : Take(irq)
      BY <2>2
    <3>2. irq \in 0 .. 15
      BY PicAssumption DEF Lines
    <3> QED BY <3>1, <3>2, EnterInv DEF Take, Taken
  <2>3. CASE \E chip \in {0, 1} : TakeSpurious(chip)
    <3>1. PICK chip \in {0, 1} : TakeSpurious(chip)
      BY <2>3
    <3>2. Last(chip) \in 0 .. 15 /\ Chip(Last(chip)) = chip
      BY DEF Last, Chip
    <3> QED BY <3>1, <3>2, EnterInv DEF TakeSpurious, TakenSpurious
  <2>4. CASE Handler
    BY <2>4, HandlerInv
  <2>5. CASE EndOfInterrupt
    BY <2>5, EndOfInterruptInv
  <2>6. CASE Iret
    BY <2>6, IretInv
  <2>7. CASE Rise \/ KeyPressed \/ UNCHANGED vars
    <3>1. UNCHANGED <<isr, offset, intr, ready, gates, service, derailed, main>>
      BY <2>7 DEF Rise, KeyPressed, vars, picVars, cpuVars
    <3> QED
      BY <3>1
      DEF BootInv, InterruptsFindTheirWay, PlaceInv, WiringInv, Wiring,
          IntrInv, ServiceInv, InServiceWhileServed, Line
  <2> QED
    BY <2>1, <2>2, <2>3, <2>4, <2>5, <2>6, <2>7 DEF Next, Panic, Interrupt
<1> QED BY <1>1, <1>2, PTL DEF Spec

(* An interrupt, a spurious one too, finds a gate of its own and what the  *)
(* stub and proc_save need, at whatever point of the boot it comes         *)
(* (kernel_main, idt_init, pic_init).                                      *)
THEOREM InterruptsAlwaysFindTheirWay == Spec => []InterruptsFindTheirWay
<1>1. BootInv => InterruptsFindTheirWay
  BY DEF BootInv
<1> QED BY <1>1, BootSafe, PTL

(* Each end of interrupt ends the line that is handled, and its cascade    *)
(* (irq_send_EOI_8259).                                                    *)
THEOREM NoLineLeftInService == Spec => []InServiceWhileServed
<1>1. BootInv => InServiceWhileServed
  BY DEF BootInv
<1> QED BY <1>1, BootSafe, PTL

=============================================================================
