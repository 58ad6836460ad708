--------------------------- MODULE Multithreading ---------------------------
(***************************************************************************)
(* What the process manager promises its threads: each has registers of    *)
(* its own that nothing but its own steps changes, however often it is     *)
(* interrupted; threads take turns in the order of a queue; only a user    *)
(* thread that faults leaves it.                                           *)
(***************************************************************************)
EXTENDS Integers, Sequences

CONSTANTS
  Thread,         \* thread identifiers
  First,          \* the thread the kernel boots in
  Context,        \* what the registers of a thread may hold
  NoContext       \* registers of a thread that does not exist

VARIABLES
  queue,          \* the running thread, then those that wait for their turn
  registers,
  user,           \* threads that run in ring 3
  stopped

vars == <<queue, registers, user, stopped>>

Running == Head(queue)

Init ==
  /\ queue = <<First>>
  /\ registers \in [Thread -> Context \cup {NoContext}]
  /\ \A t \in Thread : registers[t] = NoContext <=> t # First
  /\ user = {}
  /\ stopped = FALSE

(* The running thread executes; the others keep their registers. *)
Run ==
  /\ ~stopped
  /\ registers' = [registers EXCEPT ![Running] = registers'[Running]]
  /\ registers'[Running] \in Context
  /\ UNCHANGED <<queue, user, stopped>>

(* The turn passes to the next thread. *)
Switch ==
  /\ ~stopped
  /\ queue' = Append(Tail(queue), Running)
  /\ UNCHANGED <<registers, user, stopped>>

(* The running thread creates one that waits behind all others. *)
Create ==
  /\ ~stopped
  /\ \E t \in Thread :
       /\ registers[t] = NoContext /\ t \notin user
       /\ queue' = Append(queue, t)
       /\ registers' = [registers EXCEPT ![t] = registers'[t],
                                        ![Running] = registers'[Running]]
       /\ registers'[t] \in Context /\ registers'[Running] \in Context
       /\ user' \in {user, user \cup {t}}
  /\ UNCHANGED stopped

(* The running thread is removed after a fault. *)
Kill ==
  /\ ~stopped
  /\ Running \in user
  /\ queue' = Tail(queue)
  /\ registers' = [registers EXCEPT ![Running] = NoContext]
  /\ UNCHANGED <<user, stopped>>

(* A kernel thread faults. *)
Stop ==
  /\ ~stopped
  /\ Running \notin user
  /\ stopped' = TRUE
  /\ UNCHANGED <<queue, registers, user>>

Next == Run \/ Switch \/ Create \/ Kill \/ Stop

Spec == Init /\ [][Next]_vars

=============================================================================
