----------------------------- MODULE MCConsole -----------------------------
(* Two threads on a screen of two columns and three rows, a keyboard with  *)
(* one letter and a shift key.                                             *)
EXTENDS Console

Key(normal, shifted, special) ==
  [normal |-> normal, shifted |-> shifted, ctrled |-> normal, special |-> special]

SmallKeymap ==
  [a |-> Key("a", "A", "none"), shift |-> Key(KEY_INVALID, KEY_INVALID, "shift")]

SmallPositions == {[x |-> 1, y |-> 0]}

============================================================================
