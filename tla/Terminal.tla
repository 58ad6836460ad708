------------------------------ MODULE Terminal ------------------------------
(***************************************************************************)
(* What the console promises: a screen of Columns times Rows cells, one    *)
(* after the other, a cursor on one of them, and characters that are put   *)
(* there each in one step.  What does not fit at the end moves everything  *)
(* up by a row.                                                            *)
(***************************************************************************)
EXTENDS Integers

CONSTANTS Columns, Rows, Printable, Controls

VARIABLES cells, cursor

Blank == " "
Mark == "_"
Size == Columns * Rows
Places == 0 .. Size - 1

(* How far a character moves the cursor: a newline to the next row, ff     *)
(* down and left, up two rows up, and the others to the left.              *)
Moved(c, at) ==
  IF c \in Printable THEN at + 1
  ELSE IF c = "newline" THEN at + Columns - (at % Columns)
  ELSE IF c = "ff" THEN at + Columns - 1
  ELSE IF c = "up" THEN at - 2 * Columns
  ELSE at - 1

ScrolledUp(cs) ==
  [p \in Places |-> IF p + Columns \in Places THEN cs[p + Columns] ELSE Blank]

Put(c) ==
  LET left == [cells EXCEPT ![cursor] = IF c \in Printable THEN c ELSE Blank]
      to == Moved(c, cursor)
  IN /\ cursor' = IF to < 0 THEN 0
                  ELSE IF to < Size THEN to ELSE Size - Columns
     /\ cells' = [(IF to < Size THEN left ELSE ScrolledUp(left))
                    EXCEPT ![cursor'] = Mark]

(* The cursor goes to another row or another column. *)
Move ==
  /\ cursor' \in {p \in Places : \/ p % Columns = cursor % Columns
                                 \/ p \div Columns = cursor \div Columns}
  /\ UNCHANGED cells

Init == cells = [p \in Places |-> Blank] /\ cursor = 0

Next == Move \/ \E c \in Printable \cup Controls : Put(c)

Spec == Init /\ [][Next]_<<cells, cursor>>

============================================================================
