-------------------------------- MODULE Pic --------------------------------
(***************************************************************************)
(* The two interrupt controllers as pic.c and interrupt.c program them,    *)
(* and what they do by themselves: a line that rises is latched, the one   *)
(* of highest priority that is neither masked nor behind one in service    *)
(* interrupts the CPU, and only an end-of-interrupt lets its equals and    *)
(* inferiors through again.  The slave is on line 2 of the master.         *)
(***************************************************************************)
EXTENDS Integers

CONSTANT Wired       \* lines that have a device

VARIABLES
  imr,     \* lines that are masked
  irr,     \* lines that have risen and were not taken yet
  isr,     \* lines in service
  offset   \* vector of each chip's first line

picVars == <<imr, irr, isr, offset>>

Lines == 0 .. 15
Cascade == 2
Chip(irq) == irq \div 8

ASSUME PicAssumption == Wired \subseteq Lines \ {Cascade}

Vector(irq) == offset[Chip(irq)] + (irq % 8)

----------------------------------------------------------------------------
(* The hardware                                                            *)

(* Lines 8 to 15 have the priority of line 2. *)
Priority(irq) == IF Chip(irq) = 1 THEN Cascade * 10 + irq ELSE irq * 10

Behind(irq) ==
  \E k \in isr : \/ Chip(k) = Chip(irq) /\ k <= irq
                 \/ Chip(irq) = 1 /\ Chip(k) = 0 /\ k <= Cascade

Deliverable(irq) ==
  /\ irq \in irr \ imr
  /\ Chip(irq) = 1 => Cascade \notin imr
  /\ ~Behind(irq)

Foremost(irq) ==
  /\ Deliverable(irq)
  /\ \A k \in Wired : Deliverable(k) => Priority(irq) <= Priority(k)

Latched(irq) == irr' = irr \cup {irq}

Taken(irq) ==
  /\ irr' = irr \ {irq}
  /\ isr' = isr \cup {irq} \cup (IF Chip(irq) = 1 THEN {Cascade} ELSE {})

(* A request that was withdrawn is taken as the chip's last line, which is *)
(* not in service then; the master takes the slave's for a request.        *)
Last(chip) == 8 * chip + 7
SpuriousPossible(chip) ==
  /\ ~Behind(Last(chip))
  /\ chip = 1 => Cascade \notin imr
TakenSpurious(chip) ==
  /\ isr' = IF chip = 1 THEN isr \cup {Cascade} ELSE isr
  /\ UNCHANGED irr

OnChip(chip) == {k \in isr : Chip(k) = chip}
Highest(s) == {k \in s : \A j \in s : k <= j}

----------------------------------------------------------------------------
(* pic.c and interrupt.c.  An ICW1 forgets masks, requests and services.   *)

pic_init(pic0base, pic1base) ==
  /\ offset' = [chip \in {0, 1} |-> IF chip = 0 THEN pic0base ELSE pic1base]
  /\ irr' = {}

(* Left where the BIOS put them, the lines raise the vectors of exceptions. *)
LeftAtBios ==
  /\ offset' = [chip \in {0, 1} |-> IF chip = 0 THEN 8 ELSE 112]
  /\ irr' = {} /\ imr' = Lines /\ isr' = {}

(* The masks that pic_init leaves let the cascade through; interrupt_init  *)
(* masks the lines one by one, that one too, and acknowledges each.        *)
InitialMasks == Lines \ {Cascade}
pic_disable(irqs) == imr' = InitialMasks \cup irqs
pic_acknowledge(irqs) == isr' = isr \ irqs

interrupt_init == pic_init(32, 40) /\ pic_disable(Lines) /\ pic_acknowledge(Lines)

(* A line of the slave needs the cascade as well. *)
UnmaskedAlone(irq) == {irq}
Unmasked(irq) == IF Chip(irq) = 1 THEN {irq, Cascade} ELSE {irq}

pic_enable(irq) == imr' = imr \ Unmasked(irq)

(* The non-specific end of interrupt: of the highest line in service; for  *)
(* a line of the slave it has to go to both.                               *)
EOIToMaster(irq) == isr' = isr \ Highest(OnChip(0))
irq_send_EOI_8259(irq) ==
  isr' = isr \ (Highest(OnChip(0)) \cup
                IF Vector(irq) >= 40 THEN Highest(OnChip(1)) ELSE {})

============================================================================
