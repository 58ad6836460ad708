------------------------------ MODULE Keyboard ------------------------------
(***************************************************************************)
(* keyboard.c: from a scan code, which says that a key went down or up, to *)
(* the character that keyboard_interrupt prints, if any.                   *)
(***************************************************************************)
CONSTANT keymap     \* for each key [normal, shifted, ctrled, special]

VARIABLES
  shift_mode, alt_mode, ctrl_mode, shiftlock_mode,
  lKey,             \* what the last scan code meant
  lastCode          \* history: the last scan code

modes == <<shift_mode, alt_mode, ctrl_mode, shiftlock_mode>>
keyboardVars == <<modes, lKey, lastCode>>

KEY_INVALID == "none"

Codes == [key : DOMAIN keymap, down : BOOLEAN]

KeyboardInit ==
  /\ shift_mode = FALSE /\ alt_mode = FALSE
  /\ ctrl_mode = FALSE /\ shiftlock_mode = FALSE
  /\ lKey = KEY_INVALID
  /\ lastCode = [key |-> "none", down |-> FALSE]

Special(code, what) == keymap[code.key].special = what

(* The new modes, and what keyboard_map returns. *)
ModesAfter(code) ==
  /\ shift_mode' = IF Special(code, "shift") THEN code.down ELSE shift_mode
  /\ alt_mode' = IF Special(code, "alt") THEN code.down ELSE alt_mode
  /\ ctrl_mode' = IF Special(code, "ctrl") THEN code.down ELSE ctrl_mode
  /\ shiftlock_mode' = IF Special(code, "shiftlock") /\ ~code.down
                       THEN ~shiftlock_mode ELSE shiftlock_mode

keyboard_map(code) ==
  LET entry == keymap[code.key]
  IN IF entry.special # "none" \/ ~code.down THEN KEY_INVALID
     ELSE IF shiftlock_mode THEN IF shift_mode THEN entry.normal ELSE entry.shifted
     ELSE IF shift_mode THEN entry.shifted
     ELSE IF ctrl_mode THEN entry.ctrled
     ELSE entry.normal

(* lKey is set in every case; a plausible slip would keep it when the key  *)
(* goes up.                                                                *)
LastKeyHeld(key) == IF key = KEY_INVALID THEN lKey ELSE key
LastKey(key) == key

GetKey(code) == IF keyboard_map(code) = lKey THEN KEY_INVALID ELSE keyboard_map(code)

Scan(code) ==
  /\ ModesAfter(code)
  /\ lKey' = LastKey(keyboard_map(code))
  /\ lastCode' = code

============================================================================
