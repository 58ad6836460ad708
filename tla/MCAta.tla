-------------------------------- MODULE MCAta -------------------------------
(* Two drives on one channel and one on another, in the ways that matter:  *)
(* both places taken or one, by drives of the same kind or of two.         *)
EXTENDS Ata

SomeEquipment ==
  {<<"ata", "atapi", "none">>, <<"ata", "ata", "ata">>, <<"atapi", "none", "ata">>,
   <<"none", "ata", "none">>}
Attachments == {[d \in Drives |-> e[d + 1]] : e \in SomeEquipment}

=============================================================================
