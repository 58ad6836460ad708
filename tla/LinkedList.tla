----------------------------- MODULE LinkedList -----------------------------
(***************************************************************************)
(* The operations of list.c on the memory they work in: a sequence m of    *)
(* nodes, whose addresses are its indices.  kmalloc gives the next one.    *)
(* The first node of a list is its head; there is no empty list.           *)
(***************************************************************************)
EXTENDS Integers, SequencesExt

NULL == 0

Node(val) == [val |-> val, data |-> NULL, child |-> NULL, next |-> NULL]

(* The nodes on the way from head along next, cut off if it has no end.    *)
Chain(m, head) ==
  LET further == [walked \in Seq(DOMAIN m) |->
                    IF m[Last(walked)].next = NULL THEN walked
                    ELSE Append(walked, m[Last(walked)].next)]
      way[k \in 0 .. Len(m)] == IF k = 0 THEN <<head>> ELSE further[way[k - 1]]
  IN  way[Len(m)]

list_add_node(m, head, val) ==
  Append([m EXCEPT ![Last(Chain(m, head))].next = Len(m) + 1], Node(val))

(* What list_add_node returns.                                             *)
NewIndex(m, head) == Len(Chain(m, head))

list_access_node(m, head, index) ==
  IF index < NewIndex(m, head) THEN Chain(m, head)[index + 1] ELSE NULL

(* The first two children; the loop for a third follows child, not next,   *)
(* and leaves the list.                                                    *)
list_add_child(m, head, val) ==
  LET child == m[head].child
  IN  IF child = NULL THEN Append([m EXCEPT ![head].child = Len(m) + 1], Node(val))
      ELSE Append([m EXCEPT ![child].next = Len(m) + 1], Node(val))

MayHaveChild(m, head) ==
  m[head].child # NULL => m[m[head].child].next = NULL

(* The memory and the head after a removal.  What kfree gets is less than  *)
(* a page, and it frees nothing.                                           *)
list_remove_node(m, head, index) ==
  IF index = 0 THEN [m |-> m, head |-> m[head].next]
  ELSE LET temp    == list_access_node(m, head, index - 1)
           current == m[temp].next
       IN  [m |-> [m EXCEPT ![temp].next = m[current].next], head |-> head]

(* The old head goes to the end; without its last assignment the list is a *)
(* ring.                                                                   *)
MovedIntoRing(m, head) ==
  [m |-> [m EXCEPT ![Last(Chain(m, head))].next = head], head |-> m[head].next]

Moved(m, head) ==
  [m |-> [m EXCEPT ![Last(Chain(m, head))].next = head, ![head].next = NULL],
   head |-> m[head].next]

list_move_to_end(m, head) ==
  IF m[head].next = NULL THEN [m |-> m, head |-> head] ELSE Moved(m, head)

(* test_list makes a list of its own and leaves it behind.                 *)
test_list(m) ==
  LET list == Len(m) + 1
      m1   == list_add_node(Append(m, Node(0)), list, 1)
      m2   == list_add_node(m1, list, 2)
  IN  list_remove_node(m2, list, NewIndex(m1, list)).m

============================================================================
