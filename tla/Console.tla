------------------------------ MODULE Console ------------------------------
(***************************************************************************)
(* The console of console.c, on which threads print while the keyboard     *)
(* interrupts them and prints too.  console_putchar turns interrupts off   *)
(* while it works and keeps in one global, ints, whether to turn them on   *)
(* again.  Every step that an interrupt can come between is an action, the *)
(* ones behind cli too: that nothing comes between those is a result.      *)
(*                                                                         *)
(* One CPU: the interrupt handler runs on top of the current thread, and   *)
(* the timer changes threads only while interrupts are on.                 *)
(***************************************************************************)
EXTENDS Integers, Keyboard

CONSTANTS
  Threads,
  xsize, ysize,     \* of the screen, in characters
  Printed,          \* characters that threads print
  Positions,        \* where printf_xy is called to print
  MaxCalls          \* bound on the characters and calls of printf_xy

VARIABLES
  xpos, ypos, console_buffer,
  ints,             \* the global of console_putchar
  interrupts,       \* the interrupt flag of the CPU
  current,          \* the thread on the CPU, or interrupted on it
  call,             \* where each thread and the keyboard's handler are
  xy,               \* the variables of each thread's printf_xy
  calls,            \* characters and calls of printf_xy so far
  shown             \* history: the screen before the character in work

screen == <<xpos, ypos, console_buffer>>
vars == <<screen, ints, interrupts, current, call, xy, calls, shown, keyboardVars>>

ASSUME ConsoleAssumption ==
  /\ xsize \in Nat \ {0} /\ ysize \in Nat \ {0}
  /\ "keyboard" \notin Threads
  /\ Positions \subseteq [x : 0 .. xsize - 1, y : 0 .. ysize - 1]

Controls == {"newline", "ff", "up", "bs"}
Blank == " "
Mark == "_"
Index(x, y) == x + y * xsize
Places == 0 .. xsize * ysize - 1

Actors == Threads \cup {"keyboard"}
Running == IF call["keyboard"].pc # "idle" THEN "keyboard" ELSE current
At(place) == call[Running].pc = place
Goto(place) == call' = [call EXCEPT ![Running].pc = place]

(* A variable of a call that is not in progress has one fixed value. *)
CallAt(place) == [pc |-> place, char |-> Blank, back |-> "idle"]
NoXy == [x |-> 0, y |-> 0, to |-> [x |-> 0, y |-> 0]]
NotShown == [cells |-> <<>>, cursor |-> 0]

(* console_writechar; the pixels follow the buffer. *)
Written(buffer, x, y, ch) == [buffer EXCEPT ![Index(x, y)] = ch]

(* After console_reset. *)
Init ==
  /\ KeyboardInit
  /\ xpos = 0 /\ ypos = 0
  /\ console_buffer = [p \in Places |-> Blank]
  /\ ints = FALSE /\ interrupts = TRUE
  /\ current \in Threads
  /\ call = [a \in Actors |-> CallAt("idle")]
  /\ xy = [t \in Threads |-> NoXy]
  /\ calls = 0
  /\ shown = NotShown

Unchanged == UNCHANGED <<xy, calls, current, keyboardVars>>

----------------------------------------------------------------------------
(* console_putchar: up to the first write.                                 *)

CheckInterrupts ==
  /\ At("check")
  /\ Goto(IF interrupts THEN "block" ELSE "keep")
  /\ UNCHANGED <<screen, ints, interrupts, shown>> /\ Unchanged

Block ==
  /\ At("block")
  /\ interrupts' = FALSE
  /\ Goto("note")
  /\ UNCHANGED <<screen, ints, shown>> /\ Unchanged

Begin ==
  /\ shown' = [cells |-> console_buffer, cursor |-> Index(xpos, ypos)]
  /\ Goto("erase")
  /\ UNCHANGED <<screen, interrupts>> /\ Unchanged

Note == At("note") /\ ints' = TRUE /\ Begin

(* Without the else branch, and as it is. *)
StaleInts == ints
KeptInts == FALSE
Keep == At("keep") /\ ints' = KeptInts /\ Begin

----------------------------------------------------------------------------
(* The work on the screen.                                                 *)

Erase ==
  /\ At("erase")
  /\ console_buffer' = Written(console_buffer, xpos, ypos, Blank)
  /\ Goto("place")
  /\ UNCHANGED <<xpos, ypos, ints, interrupts, shown>> /\ Unchanged

Place ==
  /\ At("place")
  /\ LET c == call[Running].char
     IN /\ xpos' = CASE c = "newline" -> 0
                     [] c \in {"ff", "bs"} -> xpos - 1
                     [] c = "up" -> xpos
                     [] OTHER -> xpos + 1
        /\ ypos' = CASE c \in {"newline", "ff"} -> ypos + 1
                     [] c = "up" -> ypos - 2
                     [] OTHER -> ypos
        /\ console_buffer' = IF c \in Controls THEN console_buffer
                             ELSE Written(console_buffer, xpos, ypos, c)
  /\ Goto("bounds")
  /\ UNCHANGED <<ints, interrupts, shown>> /\ Unchanged

(* The four corrections in their order; the loops that scroll.             *)
UpOneRow(buffer) ==
  [p \in Places |-> IF p < Index(0, ysize - 1) THEN buffer[p + xsize] ELSE Blank]

Wrapped(x, y) ==
  LET left == IF x < 0 THEN [x |-> xsize - 1, y |-> y - 1] ELSE [x |-> x, y |-> y]
      right == IF left.x >= xsize THEN [x |-> 0, y |-> left.y + 1] ELSE left
  IN IF right.y < 0 THEN [x |-> 0, y |-> 0] ELSE right

TooLowByOne(y) == y > ysize
TooLow(y) == y >= ysize

Bounds ==
  /\ At("bounds")
  /\ LET at == Wrapped(xpos, ypos)
     IN IF TooLow(at.y)
        THEN /\ xpos' = 0 /\ ypos' = ysize - 1
             /\ console_buffer' = UpOneRow(console_buffer)
        ELSE /\ xpos' = at.x /\ ypos' = at.y
             /\ UNCHANGED console_buffer
  /\ Goto("mark")
  /\ UNCHANGED <<ints, interrupts, shown>> /\ Unchanged

WriteMark ==
  /\ At("mark")
  /\ console_buffer' = Written(console_buffer, xpos, ypos, Mark)
  /\ Goto("end")
  /\ UNCHANGED <<xpos, ypos, ints, interrupts, shown>> /\ Unchanged

End ==
  /\ At("end")
  /\ interrupts' = (interrupts \/ ints)
  /\ call' = [call EXCEPT ![Running] = CallAt(call[Running].back)]
  /\ shown' = NotShown
  /\ UNCHANGED <<screen, ints>> /\ Unchanged

putchar == \/ CheckInterrupts \/ Block \/ Note \/ Keep
           \/ Erase \/ Place \/ Bounds \/ WriteMark \/ End

----------------------------------------------------------------------------
(* What threads call: printf, which prints character by character, and     *)
(* printf_xy, which does so elsewhere and puts the cursor back.            *)

PrintChar(place) ==
  /\ At(place) /\ Running \in Threads /\ calls < MaxCalls
  /\ calls' = calls + 1
  /\ \E c \in Printed : call' = [call EXCEPT ![Running] =
                          [pc |-> "check", char |-> c, back |-> place]]
  /\ UNCHANGED <<screen, ints, interrupts, current, xy, shown, keyboardVars>>

printf == PrintChar("idle")

XyStep(from, next) ==
  /\ At(from)
  /\ Goto(next)
  /\ UNCHANGED <<console_buffer, ints, interrupts, current, shown, keyboardVars>>

SaveX ==
  /\ calls < MaxCalls /\ calls' = calls + 1
  /\ Running \in Threads /\ XyStep("idle", "save y")
  /\ \E p \in Positions : xy' = [xy EXCEPT ![current] = [x |-> xpos, y |-> 0, to |-> p]]
  /\ UNCHANGED <<xpos, ypos>>

SaveY ==
  /\ XyStep("save y", "set x")
  /\ xy' = [xy EXCEPT ![current].y = ypos]
  /\ UNCHANGED <<xpos, ypos, calls>>

SetX ==
  /\ XyStep("set x", "set y")
  /\ xpos' = xy[current].to.x
  /\ UNCHANGED <<ypos, xy, calls>>

SetY ==
  /\ XyStep("set y", "print xy")
  /\ ypos' = xy[current].to.y
  /\ UNCHANGED <<xpos, xy, calls>>

RestoreX ==
  /\ XyStep("print xy", "restore y")
  /\ xpos' = xy[current].x
  /\ UNCHANGED <<ypos, xy, calls>>

RestoreY ==
  /\ XyStep("restore y", "idle")
  /\ ypos' = xy[current].y
  /\ xy' = [xy EXCEPT ![current] = NoXy]
  /\ UNCHANGED <<xpos, calls>>

printf_xy ==
  SaveX \/ SaveY \/ SetX \/ SetY \/ PrintChar("print xy") \/ RestoreX \/ RestoreY

----------------------------------------------------------------------------
(* The interrupts.                                                         *)

(* keyboard_interrupt, up to its call of console_putchar; without one it   *)
(* returns at once.                                                        *)
KeyboardInterrupt ==
  /\ interrupts
  /\ \E code \in Codes :
       /\ Scan(code)
       /\ IF GetKey(code) = KEY_INVALID THEN UNCHANGED <<interrupts, call, calls>>
          ELSE /\ calls < MaxCalls /\ calls' = calls + 1
               /\ interrupts' = FALSE
               /\ call' = [call EXCEPT !["keyboard"] =
                             [pc |-> "check", char |-> GetKey(code), back |-> "return"]]
  /\ UNCHANGED <<screen, ints, current, xy, shown>>

Return ==
  /\ At("return") /\ Running = "keyboard"
  /\ interrupts' = TRUE
  /\ Goto("idle")
  /\ UNCHANGED <<screen, ints, shown>> /\ Unchanged

(* The timer changes threads. *)
Switch ==
  /\ interrupts
  /\ current' \in Threads \ {current}
  /\ UNCHANGED <<screen, ints, interrupts, call, xy, calls, shown, keyboardVars>>

Next == putchar \/ printf \/ printf_xy \/ KeyboardInterrupt \/ Return \/ Switch

Spec == Init /\ [][Next]_vars

----------------------------------------------------------------------------
(* Properties                                                              *)

(* What may be printed: by threads anything, 0 too, but no key brings 0. *)
KeyChars ==
  UNION {{k.normal, k.shifted, k.ctrled} : k \in {keymap[n] : n \in DOMAIN keymap}}
Chars == Printed \cup (KeyChars \ {KEY_INVALID})

(* Types of the variables. *)
TypeOK ==
  /\ xpos \in -1 .. xsize /\ ypos \in -2 .. ysize
  /\ console_buffer \in [Places -> {Blank, Mark} \cup Chars]
  /\ ints \in BOOLEAN /\ interrupts \in BOOLEAN
  /\ current \in Threads
  /\ xy \in [Threads -> [x : 0 .. xsize - 1, y : 0 .. ysize - 1, to : Positions
                           \cup {[x |-> 0, y |-> 0]}]]
  /\ calls \in 0 .. MaxCalls

(* Between two characters the cursor is on the screen, wherever it has     *)
(* been moved and whoever was interrupted (console_putchar, printf_xy).    *)
Halfway == \E a \in Actors : call[a].pc \in {"erase", "place", "bounds", "mark"}
CursorOnScreen ==
  ~Halfway => xpos \in 0 .. xsize - 1 /\ ypos \in 0 .. ysize - 1

(* The keyboard's handler is never interrupted, and a thread outside       *)
(* console_putchar always can be: the one global holds the right flag for  *)
(* each of the calls (console_putchar).                                    *)
InPutchar(a) == call[a].pc \in {"note", "keep", "erase", "place", "bounds", "mark", "end"}
FlagKept ==
  /\ call["keyboard"].pc # "idle" => ~interrupts
  /\ call["keyboard"].pc = "idle" => (interrupts <=> ~InPutchar(current))

(* What is on the screen is as if each character had been put there in one *)
(* step, by threads and the keyboard in some order (console_putchar).      *)
Screen == INSTANCE Terminal WITH
  Columns <- xsize, Rows <- ysize,
  Printable <- Chars \ Controls,
  cells <- IF Halfway THEN shown.cells ELSE console_buffer,
  cursor <- IF Halfway THEN shown.cursor ELSE Index(xpos, ypos)
ImplementsTerminal == Screen!Spec

(* A key prints when it goes down, and never while it is held: no press is  *)
(* lost and no repeat is printed (GetKey, keyboard_interrupt).             *)
HandlerBusy == call["keyboard"].pc # "idle"
OneCharPerPress ==
  [][/\ ~HandlerBusy
     /\ lastCode'.down /\ keymap[lastCode'.key].special = "none"
     => (HandlerBusy' <=> lastCode' # lastCode)]_vars

============================================================================
