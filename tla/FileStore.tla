----------------------------- MODULE FileStore -----------------------------
(***************************************************************************)
(* What a file system promises: a file is there from its creation to its   *)
(* removal, and holds what was written to it last, whatever happens to     *)
(* other files.                                                            *)
(***************************************************************************)
CONSTANTS Names, Contents, NoContent

VARIABLE files     \* a function from the names of the files to contents

Without(name) == [n \in DOMAIN files \ {name} |-> files[n]]

Create(name) ==
  /\ name \notin DOMAIN files
  /\ files' = [n \in DOMAIN files \cup {name} |->
                 IF n = name THEN NoContent ELSE files[n]]

Replace(name, content) ==
  name \in DOMAIN files /\ files' = [files EXCEPT ![name] = content]

Remove(name) == name \in DOMAIN files /\ files' = Without(name)

Erase == DOMAIN files' = {}

Init == DOMAIN files = {}

Next ==
  \/ \E name \in Names : \/ Create(name)
                         \/ Remove(name)
                         \/ \E content \in Contents : Replace(name, content)
  \/ Erase

Spec == Init /\ [][Next]_files

============================================================================
