----------------------------- MODULE NodeLists -----------------------------
(***************************************************************************)
(* What the linked lists promise to those who keep threads, directories    *)
(* and blocks of files in them: each list is a sequence of nodes of its    *)
(* own, and an operation on one list is that operation on its sequence.    *)
(***************************************************************************)
EXTENDS Integers, Sequences

CONSTANT Nodes

VARIABLES
  threads,    \* the list of threads
  root,       \* the root directory
  files       \* a list of blocks for each file

vars == <<threads, root, files>>

RangeOf(s) == {s[i] : i \in DOMAIN s}
Used == RangeOf(threads) \cup RangeOf(root) \cup UNION {RangeOf(f) : f \in RangeOf(files)}

(* Sequences of nodes that are in no list.                                 *)
Increasing(s) == \A i, j \in DOMAIN s : i < j => s[i] < s[j]
New(n) == {s \in [1 .. n -> Nodes \ Used] : Increasing(s)}

Init == root = <<>> /\ files = <<>> /\ Len(threads) = 1

AddThread == \E s \in New(1) : threads' = threads \o s /\ UNCHANGED <<root, files>>
MoveToEnd == threads' = Append(Tail(threads), Head(threads)) /\ UNCHANGED <<root, files>>
RemoveThread ==
  /\ \E i \in DOMAIN threads :
       threads' = SubSeq(threads, 1, i - 1) \o SubSeq(threads, i + 1, Len(threads))
  /\ UNCHANGED <<root, files>>

Load == root = <<>> /\ root' \in New(1) /\ UNCHANGED <<threads, files>>
Create ==
  /\ \E s \in New(2) : root' = Append(root, s[1]) /\ files' = Append(files, <<s[2]>>)
  /\ UNCHANGED threads

(* A file may grow by any number of nodes.                                 *)
Behind(f, g) == SubSeq(g, Len(f) + 1, Len(g))
Grow ==
  /\ \E i \in DOMAIN files :
       /\ files' = [files EXCEPT ![i] = @ \o Behind(@, files'[i])]
       /\ RangeOf(Behind(files[i], files'[i])) \subseteq Nodes \ Used
       /\ Increasing(Behind(files[i], files'[i]))
  /\ UNCHANGED <<threads, root>>

Next == AddThread \/ MoveToEnd \/ RemoveThread \/ Load \/ Create \/ Grow

Spec == Init /\ [][Next]_vars

============================================================================
