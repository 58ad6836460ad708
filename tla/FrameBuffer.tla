---------------------------- MODULE FrameBuffer ----------------------------
(***************************************************************************)
(* The text of console.c on its way to the screen through vga.c: a         *)
(* character is kept in console_buffer and drawn where fbuffer points, at  *)
(* first on the screen itself, later in memory that the clock's interrupt  *)
(* copies to the screen.  A picture of a character is the character.       *)
(***************************************************************************)
EXTENDS Integers

CONSTANT NumCells      \* positions for characters

VARIABLES
  console_buffer,   \* the character of each cell
  cursor,           \* xpos and ypos
  fbuffer,          \* where is drawn: "none", "screen", "memory"
  memory,           \* the buffer of graphics_init
  screen,
  refresh,          \* graphics_init: [cell, step, ch]
  printed,          \* history: the last character printed in each cell
  takenBack         \* history: cells that the refresh set to an older one

screenVars == <<console_buffer, cursor, fbuffer, memory, screen, refresh,
                printed, takenBack>>

Cells == 1 .. NumCells
Chars == {"console_init", "load_ramdisk", "key"}
Blank == " "
Garbage == "?"

ASSUME FrameBufferAssumption == NumCells \in Nat \ {0}

ScreenInit ==
  /\ console_buffer = [c \in Cells |-> Blank]
  /\ cursor = 1 /\ fbuffer = "none"
  /\ memory = [c \in Cells |-> Garbage]
  /\ screen = [c \in Cells |-> Garbage]
  /\ refresh = [cell |-> 1, step |-> "allocate", ch |-> Blank]
  /\ printed = [c \in Cells |-> Blank]
  /\ takenBack = {}

(* graphics_char, to wherever fbuffer points. *)
graphics_char(c, ch) ==
  /\ screen' = IF fbuffer = "screen" THEN [screen EXCEPT ![c] = ch] ELSE screen
  /\ memory' = IF fbuffer = "memory" THEN [memory EXCEPT ![c] = ch] ELSE memory

startup_graphics_init ==
  /\ fbuffer' = "screen"
  /\ screen' = [c \in Cells |-> Blank]
  /\ UNCHANGED <<console_buffer, cursor, memory, refresh, printed, takenBack>>

(* console_putchar, with interrupts off: the character goes to the cell of *)
(* the cursor, which moves on.                                             *)
console_putchar(ch) ==
  /\ console_buffer' = [console_buffer EXCEPT ![cursor] = ch]
  /\ graphics_char(cursor, ch)
  /\ cursor' = cursor + 1
  /\ printed' = [printed EXCEPT ![cursor] = ch]
  /\ takenBack' = takenBack \ {cursor}
  /\ UNCHANGED <<fbuffer, refresh>>

(* The memcpy of graphics_update_fb copies the screen to itself at first.  *)
CopyToMemory ==
  /\ memory' = IF fbuffer = "memory" THEN screen ELSE memory
  /\ UNCHANGED <<console_buffer, cursor, fbuffer, screen, refresh, printed,
                 takenBack>>
graphics_update_fb ==
  /\ screen' = IF fbuffer = "memory" THEN memory ELSE screen
  /\ UNCHANGED <<console_buffer, cursor, fbuffer, memory, refresh, printed,
                 takenBack>>

----------------------------------------------------------------------------
(* graphics_init: kmalloc, graphics_clear, and console_refresh cell by     *)
(* cell, which reads a character and writes it again.                      *)

Step(step) == refresh' = [refresh EXCEPT !.step = step]

AllocateBuffer ==
  /\ refresh.step = "allocate" /\ Step("clear")
  /\ fbuffer' = "memory"
  /\ UNCHANGED <<console_buffer, cursor, memory, screen, printed, takenBack>>

ClearBuffer ==
  /\ refresh.step = "clear" /\ Step("read")
  /\ memory' = [c \in Cells |-> Blank]
  /\ UNCHANGED <<console_buffer, cursor, fbuffer, screen, printed, takenBack>>

RefreshRead ==
  /\ refresh.step = "read" /\ refresh.cell <= NumCells
  /\ refresh' = [refresh EXCEPT !.step = "write",
                                !.ch = console_buffer[refresh.cell]]
  /\ UNCHANGED <<console_buffer, cursor, fbuffer, memory, screen, printed,
                 takenBack>>

RefreshWrite ==
  LET c == refresh.cell
  IN /\ refresh.step = "write"
     /\ refresh' = [refresh EXCEPT !.step = "read", !.cell = c + 1]
     /\ console_buffer' = [console_buffer EXCEPT ![c] = refresh.ch]
     /\ graphics_char(c, refresh.ch)
     /\ takenBack' = IF printed[c] # refresh.ch THEN takenBack \cup {c}
                     ELSE takenBack
     /\ UNCHANGED <<cursor, fbuffer, printed>>

Refreshed ==
  /\ refresh.step = "read" /\ refresh.cell > NumCells
  /\ UNCHANGED screenVars

ScreenTypeOK ==
  /\ console_buffer \in [Cells -> Chars \cup {Blank}]
  /\ cursor \in 1 .. NumCells + 1
  /\ fbuffer \in {"none", "screen", "memory"}
  /\ memory \in [Cells -> Chars \cup {Blank, Garbage}]
  /\ screen \in [Cells -> Chars \cup {Blank, Garbage}]
  /\ refresh \in [cell : 1 .. NumCells + 1, ch : Chars \cup {Blank},
                  step : {"allocate", "clear", "read", "write"}]
  /\ printed \in [Cells -> Chars \cup {Blank}]
  /\ takenBack \subseteq Cells

============================================================================
