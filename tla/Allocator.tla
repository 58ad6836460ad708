----------------------------- MODULE Allocator -----------------------------
(***************************************************************************)
(* What a memory allocator promises: regions that are in use at the same   *)
(* time do not overlap, and stay in use, where they are, until they are    *)
(* freed.                                                                  *)
(***************************************************************************)
EXTENDS Integers

VARIABLE live     \* the regions in use: [base, length], in bytes

Apart(a, b) == \/ a.base + a.length <= b.base
               \/ b.base + b.length <= a.base

AllApart == \A a, b \in live : a = b \/ Apart(a, b)

Allocate == live \subseteq live' /\ AllApart'

Free == \E r \in live : live' = live \ {r}

Spec == AllApart /\ [][Allocate \/ Free]_live

============================================================================
