-------------------------------- MODULE Boot --------------------------------
(***************************************************************************)
(* The boot of the kernel: kernel_main calls one initialisation after      *)
(* another, and from interrupt_unblock on interrupts come in between.      *)
(* The model composes what they meet there: the interrupt controllers      *)
(* (Pic), the gates and the table of handlers of idt.c, the keyboard with  *)
(* its one byte, and the text of console.c on its way through the frame    *)
(* buffer of vga.c to the screen.                                          *)
(***************************************************************************)
EXTENDS Pic, FrameBuffer, Sequences

CONSTANTS
  Drivers,       \* lines that irq_set_handler is called for, in this order
  MaxKeys        \* bound on the bytes of the keyboard

VARIABLES
  main,          \* what kernel_main does next
  intr,          \* the interrupt flag
  ready,         \* what has been set up
  gates,         \* vectors that have a gate
  irq_handlers,  \* lines that have a handler
  register,      \* drivers yet to register
  service,       \* the interrupt that is handled: [vector, step]
  derailed,      \* an interrupt found no gate, or what its handler needs
  obf,           \* the keyboard has a byte
  keys,          \* how many it had
  deaf           \* history: an interrupt of the keyboard went unheard

cpuVars == <<intr, ready, gates, service, derailed>>
keyVars == <<obf, keys, deaf>>
vars == <<picVars, screenVars, cpuVars, keyVars, main, irq_handlers, register>>

Timer == 0
Keyboard == 1
Idle == [vector |-> 0, step |-> "none"]

ASSUME BootAssumption ==
  /\ Drivers \in Seq(Wired)
  /\ {Timer, Keyboard} \subseteq Wired
  /\ MaxKeys \in Nat /\ NumCells >= MaxKeys + 2

Init ==
  /\ main = "multiboot_init"
  /\ intr = FALSE /\ ready = {} /\ gates = {} /\ irq_handlers = {}
  /\ register = Drivers
  /\ service = Idle /\ derailed = FALSE
  /\ obf = FALSE /\ keys = 0 /\ deaf = FALSE
  /\ imr \in SUBSET Wired /\ irr = {} /\ isr = {}
  /\ offset = [chip \in {0, 1} |-> IF chip = 0 THEN 8 ELSE 112]
  /\ ScreenInit

----------------------------------------------------------------------------
(* kernel_main                                                             *)

(* The order of its calls. *)
EarlyOrder ==
  <<"multiboot_init", "startup_graphics_init", "console_init", "gdt_init",
    "idt_init", "memory_init", "heap_init", "interrupt_unblock",
    "init_paging", "pm_init", "drivers", "graphics_init", "load_ramdisk",
    "pm_new_thread", "idle">>
Order ==
  <<"multiboot_init", "startup_graphics_init", "console_init", "gdt_init",
    "idt_init", "memory_init", "heap_init", "init_paging", "pm_init",
    "interrupt_unblock", "drivers", "graphics_init", "load_ramdisk",
    "pm_new_thread", "idle">>

After(call) == Order[1 + CHOOSE i \in 1 .. Len(Order) : Order[i] = call]

(* The boot thread runs unless an interrupt is handled. *)
Main(call) == main = call /\ service = Idle /\ ~derailed
Return(call) == main' = After(call) /\ ready' = ready \cup {call}

Silent == {"memory_init", "heap_init", "init_paging", "pm_init"}

(* Calls of which the rest of the model sees only that they were made. *)
SetUp ==
  \E call \in Silent :
    /\ Main(call) /\ Return(call)
    /\ UNCHANGED <<picVars, screenVars, intr, gates, service, derailed,
                   keyVars, irq_handlers, register>>

(* It copies the header of the boot loader, or refuses it, and then        *)
(* nothing follows.                                                        *)
MultibootInit ==
  /\ Main("multiboot_init")
  /\ \/ Return("multiboot_init")
     \/ main' = "panic" /\ UNCHANGED ready
  /\ UNCHANGED <<picVars, screenVars, intr, gates, service, derailed,
                 keyVars, irq_handlers, register>>

Panic == main = "panic" /\ UNCHANGED vars

StartupGraphicsInit ==
  /\ Main("startup_graphics_init") /\ Return("startup_graphics_init")
  /\ startup_graphics_init
  /\ UNCHANGED <<picVars, intr, gates, service, derailed, keyVars,
                 irq_handlers, register>>

(* console_init and load_ramdisk print; so do others, in the same way. *)
PrintLine ==
  \E call \in {"console_init", "load_ramdisk"} :
    /\ Main(call) /\ Return(call)
    /\ console_putchar(call)
    /\ UNCHANGED <<picVars, intr, gates, service, derailed, keyVars,
                   irq_handlers, register>>

GdtInit ==
  /\ Main("gdt_init") /\ Return("gdt_init")
  /\ intr' = FALSE
  /\ UNCHANGED <<picVars, screenVars, gates, service, derailed, keyVars,
                 irq_handlers, register>>

(* The vectors of isr_init and irq_init. *)
MasterGates == (0 .. 31) \cup {128} \cup (32 .. 39)
Gates == (0 .. 31) \cup {128} \cup (32 .. 47)

(* idt_init, with interrupt_init at its end.  A byte that the keyboard has *)
(* already keeps its line up, and the line does not rise again.            *)
IdtInit ==
  /\ Main("idt_init") /\ Return("idt_init")
  /\ intr' = FALSE /\ gates' = Gates
  /\ irq_handlers' = {}
  /\ interrupt_init
  /\ deaf' = (deaf \/ obf)
  /\ UNCHANGED <<screenVars, service, derailed, obf, keys, register>>

InterruptUnblock ==
  /\ Main("interrupt_unblock") /\ Return("interrupt_unblock")
  /\ intr' = TRUE
  /\ UNCHANGED <<picVars, screenVars, gates, service, derailed, keyVars,
                 irq_handlers, register>>

(* irq_set_handler unmasks the line, and then stores the handler. *)
Enable ==
  /\ Main("drivers") /\ register # <<>>
  /\ Head(register) \in imr
  /\ pic_enable(Head(register))
  /\ UNCHANGED <<irr, isr, offset, screenVars, cpuVars, keyVars, irq_handlers,
                 register, main>>

StoreHandler ==
  /\ Main("drivers") /\ register # <<>>
  /\ Head(register) \notin imr
  /\ irq_handlers' = irq_handlers \cup {Head(register)}
  /\ register' = Tail(register)
  /\ main' = IF Tail(register) = <<>> THEN After("drivers") ELSE main
  /\ UNCHANGED <<picVars, screenVars, cpuVars, keyVars>>

(* graphics_init, in the steps between which an interrupt changes things. *)
GraphicsInit ==
  /\ Main("graphics_init")
  /\ \/ AllocateBuffer /\ UNCHANGED <<main, ready>>
     \/ ClearBuffer /\ UNCHANGED <<main, ready>>
     \/ RefreshRead /\ UNCHANGED <<main, ready>>
     \/ RefreshWrite /\ UNCHANGED <<main, ready>>
     \/ Refreshed /\ Return("graphics_init")
  /\ UNCHANGED <<picVars, intr, gates, service, derailed, keyVars,
                 irq_handlers, register>>

(* The four calls of pm_new_thread, which unblock interrupts. *)
PmNewThread ==
  /\ Main("pm_new_thread") /\ Return("pm_new_thread")
  /\ intr' = TRUE
  /\ UNCHANGED <<picVars, screenVars, gates, service, derailed, keyVars,
                 irq_handlers, register>>

KernelMain == \/ MultibootInit \/ SetUp \/ StartupGraphicsInit \/ PrintLine
              \/ GdtInit \/ IdtInit \/ InterruptUnblock \/ Enable
              \/ StoreHandler \/ GraphicsInit \/ PmNewThread

----------------------------------------------------------------------------
(* Interrupts                                                              *)

(* A device raises its line; the keyboard does so once for each byte, and  *)
(* keeps the line up until the byte is read.                               *)
Rise ==
  /\ \E irq \in Wired \ {Keyboard} : Latched(irq)
  /\ UNCHANGED <<imr, isr, offset, screenVars, cpuVars, keyVars, main,
                 irq_handlers, register>>

KeyPressed ==
  /\ keys < MaxKeys /\ ~obf
  /\ obf' = TRUE /\ keys' = keys + 1
  /\ Latched(Keyboard)
  /\ UNCHANGED <<imr, isr, offset, screenVars, cpuVars, deaf, main,
                 irq_handlers, register>>

(* The CPU goes through the gate, with interrupts off, and the stub and    *)
(* proc_save use the segments and the list of threads.                     *)
Enter(vector) ==
  /\ service' = [vector |-> vector, step |-> "handler"]
  /\ intr' = FALSE
  /\ derailed' = ~( /\ vector \in gates /\ vector >= 32
                    /\ {"gdt_init", "idt_init", "pm_init"} \subseteq ready )
  /\ UNCHANGED <<imr, offset, screenVars, ready, gates, obf, keys, main,
                 irq_handlers, register>>

Interruptible == intr /\ service = Idle /\ ~derailed

Take(irq) ==
  /\ Interruptible /\ Foremost(irq)
  /\ Taken(irq)
  /\ Enter(Vector(irq))
  /\ deaf' = (deaf \/ (irq = Keyboard /\ irq \notin irq_handlers))

TakeSpurious(chip) ==
  /\ Interruptible /\ SpuriousPossible(chip)
  /\ TakenSpurious(chip)
  /\ Enter(Vector(Last(chip)))
  /\ UNCHANGED deaf

Serving(step) == service.step = step /\ ~derailed
NextStep(step) == service' = [service EXCEPT !.step = step]
Line == service.vector - 32

(* irq_handler calls the handler if there is one: the clock's shows the    *)
(* frame buffer, the keyboard's reads the byte and may print a character,  *)
(* the drive's sets a flag that no one reads.  The table is indexed by the *)
(* line, not by the vector.                                                *)
HandledAtVector(irq) == service.vector = irq /\ irq \in irq_handlers
Handled(irq) == Line = irq /\ irq \in irq_handlers
Handler ==
  /\ Serving("handler") /\ NextStep("EOI")
  /\ \/ Handled(Timer) /\ graphics_update_fb /\ UNCHANGED obf
     \/ Handled(Keyboard) /\ console_putchar("key") /\ obf' = FALSE
     \/ Handled(Keyboard) /\ UNCHANGED screenVars /\ obf' = FALSE
     \/ /\ ~Handled(Timer) /\ ~Handled(Keyboard)
        /\ UNCHANGED <<screenVars, obf>>
  /\ UNCHANGED <<picVars, intr, ready, gates, derailed, keys, deaf, main,
                 irq_handlers, register>>

EndOfInterrupt ==
  /\ Serving("EOI") /\ NextStep("return")
  /\ irq_send_EOI_8259(Line)
  /\ UNCHANGED <<imr, irr, offset, screenVars, intr, ready, gates, derailed,
                 keyVars, main, irq_handlers, register>>

(* proc_schedule, and `sti; iret' into some thread. *)
Iret ==
  /\ Serving("return")
  /\ service' = Idle /\ intr' = TRUE
  /\ UNCHANGED <<picVars, screenVars, ready, gates, derailed, keyVars, main,
                 irq_handlers, register>>

Interrupt == \/ \E irq \in Wired : Take(irq)
             \/ \E chip \in {0, 1} : TakeSpurious(chip)
             \/ Handler \/ EndOfInterrupt \/ Iret

Next == Panic \/ KernelMain \/ Rise \/ KeyPressed \/ Interrupt

Spec == Init /\ [][Next]_vars

(* The boot goes on, a handler runs to its end, the timer ticks, and a     *)
(* request that is the foremost again and again is taken.                  *)
Fairness ==
  /\ SF_vars(KernelMain)
  /\ WF_vars(Handler \/ EndOfInterrupt \/ Iret)
  /\ WF_vars(Latched(Timer) /\ Rise)
  /\ \A irq \in Wired : SF_vars(Take(irq))

FairSpec == Spec /\ Fairness

----------------------------------------------------------------------------
(* Properties                                                              *)

(* Types of the variables. *)
TypeOK ==
  /\ imr \subseteq Lines /\ irr \subseteq Wired /\ isr \subseteq Lines
  /\ offset \in [{0, 1} -> 0 .. 255]
  /\ main \in {Order[i] : i \in 1 .. Len(Order)} \cup {"panic"}
  /\ intr \in BOOLEAN /\ derailed \in BOOLEAN /\ obf \in BOOLEAN
  /\ deaf \in BOOLEAN /\ keys \in 0 .. MaxKeys
  /\ gates \subseteq 0 .. 255 /\ irq_handlers \subseteq Wired
  /\ service \in [vector : 0 .. 255, step : {"none", "handler", "EOI", "return"}]
  /\ ScreenTypeOK

(* An interrupt, a spurious one too, finds a gate of its own and what the  *)
(* stub and proc_save need, at whatever point of the boot it comes.        *)
InterruptsFindTheirWay == ~derailed

(* Between interrupts no line is in service, and while one is handled no   *)
(* line but its own: each end of interrupt meant the line it ended.        *)
InServiceWhileServed ==
  isr \subseteq
    (IF service.step \in {"handler", "EOI"}
     THEN IF Chip(Line) = 1 THEN {Line, Cascade} ELSE {Line}
     ELSE {})

(* The clock's handler, which copies the screen, ends before the next      *)
(* tick often enough to let the lines behind it through.                   *)
TicksLeaveRoom == []<>(Interruptible /\ Timer \notin irr)

(* A byte of the keyboard is read, unless its interrupt came before there  *)
(* was a handler for it (idt_init, irq_set_handler).                       *)
KeysAreRead ==
  TicksLeaveRoom => ((obf /\ main # "panic") ~> (~obf \/ deaf))

(* Each character printed gets to the screen and stays there, unless the   *)
(* redrawing of graphics_init has taken it back (console_refresh).         *)
TextIsShown ==
  \A c \in Cells :
    printed[c] # Blank ~> (screen[c] = printed[c] \/ c \in takenBack)

(* The interrupts of a line that has a handler go on being handled, even   *)
(* behind the cascade (pic_enable, irq_send_EOI_8259).                     *)
LinesAreServed ==
  TicksLeaveRoom =>
    \A irq \in Wired :
      irq \in irr \cap irq_handlers ~> service.vector = 32 + irq

============================================================================
