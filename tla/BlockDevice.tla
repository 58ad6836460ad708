---------------------------- MODULE BlockDevice ----------------------------
(***************************************************************************)
(* What the drives promise to their user: a read that succeeds brings the  *)
(* blocks that were asked for, in order; a write stores its blocks one     *)
(* after another, all of them if it succeeds; no other block changes.      *)
(* A drive may refuse a block.  A write that is refused its last block may *)
(* succeed all the same: no one looks at the error then.                   *)
(***************************************************************************)
EXTENDS Integers, Sequences

CONSTANTS Requests, NoRequest, Answers, NoAnswer

VARIABLES
  medium,     \* the blocks of each drive
  request,    \* what the user has asked for
  stored,     \* blocks of it that were stored
  refused,    \* the drive has refused one
  answer      \* to the last request

vars == <<medium, request, stored, refused, answer>>

Init ==
  /\ request = NoRequest /\ answer = NoAnswer
  /\ stored = 0 /\ refused = FALSE

Ask ==
  /\ request = NoRequest
  /\ request' \in Requests
  /\ stored' = 0 /\ refused' = FALSE /\ answer' = NoAnswer
  /\ UNCHANGED medium

Writing == request # NoRequest /\ request.op = "write"

Store ==
  /\ Writing /\ ~refused /\ stored < Len(request.data)
  /\ request.offset + stored \in DOMAIN medium[request.id]
  /\ medium' =
       [medium EXCEPT ![request.id][request.offset + stored] =
                        request.data[stored + 1]]
  /\ stored' = stored + 1
  /\ UNCHANGED <<request, refused, answer>>

Refuse ==
  /\ Writing /\ ~refused
  /\ refused' = TRUE
  /\ UNCHANGED <<medium, request, stored, answer>>

Asked == [i \in 1 .. request.nblocks |->
            medium[request.id][request.offset + i - 1]]

OnDrive ==
  request.offset .. request.offset + request.nblocks - 1
    \subseteq DOMAIN medium[request.id]

Succeed ==
  /\ request # NoRequest
  /\ IF Writing
     THEN /\ stored = request.nblocks - (IF refused THEN 1 ELSE 0)
          /\ answer' = [ok |-> TRUE, data |-> <<>>]
     ELSE OnDrive /\ answer' = [ok |-> TRUE, data |-> Asked]
  /\ request' = NoRequest
  /\ UNCHANGED <<medium, stored, refused>>

Fail ==
  /\ request # NoRequest
  /\ answer' \in {a \in Answers : ~a.ok}
  /\ request' = NoRequest
  /\ UNCHANGED <<medium, stored, refused>>

Next == Ask \/ Store \/ Refuse \/ Succeed \/ Fail

Spec == Init /\ [][Next]_vars

============================================================================
