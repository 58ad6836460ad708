------------------------------ MODULE AtaWait ------------------------------
(***************************************************************************)
(* ata_wait of ata.c: it polls the status of a drive until it is what the  *)
(* caller waits for, or an error, or the time is over, and resets the      *)
(* drive in the last two cases.  It takes the time from the clock while    *)
(* that ticks.                                                             *)
(***************************************************************************)
EXTENDS Clock

CONSTANTS
  ATA_TIMEOUT,       \* seconds
  MaxStart           \* bound on when ata_wait is called

VARIABLES
  status,     \* of the drive, as ata_wait sees it: busy, ready, error
  pc,         \* where the thread is
  caller,     \* of clock_wait: between two polls, or in ata_reset
  start,      \* when ata_wait began, by the clock
  waitStart,  \* when clock_wait began, by the clock
  result,     \* why ata_wait returns
  began, held \* history: ticks at its call, and at the reset

thread == <<pc, caller, start, waitStart, result, began, held>>
waitVars == <<clockVars, status, thread>>

Zero == [seconds |-> 0, millis |-> 0]

ASSUME AtaWaitAssumption == ATA_TIMEOUT \in Nat /\ MaxStart \in Nat

WaitInit ==
  /\ ClockInit
  /\ status \in {"busy", "ready", "error"}
  /\ pc = "idle" /\ caller = "pause"
  /\ start = Zero /\ waitStart = Zero
  /\ result = "none"
  /\ began = 0 /\ held = 0

Interrupt == clock_interrupt /\ UNCHANGED <<status, thread>>

(* The drive answers when it likes, or never. *)
Answer ==
  /\ status = "busy" /\ status' \in {"ready", "error"}
  /\ UNCHANGED <<clockVars, thread>>

CallWait ==
  /\ pc = "idle" /\ ticks <= MaxStart
  /\ pc' = "start" /\ began' = ticks
  /\ NoRead
  /\ UNCHANGED <<status, caller, start, waitStart, result, held>>

BeginRead ==
  /\ pc \in {"start", "check", "wait start", "wait"} /\ ReadFirst
  /\ UNCHANGED <<status, thread>>

TakeStart ==
  /\ pc = "start" /\ ReadSecond
  /\ pc' = "poll" /\ start' = Now
  /\ UNCHANGED <<status, caller, waitStart, result, began, held>>

(* clock_wait, called from one of three places. *)
ClockWait(place) == pc' = "wait start" /\ caller' = place

(* ata_reset sets the reset bit and waits. *)
Fail(why) == result' = why /\ held' = ticks /\ ClockWait("hold")

(* One look at the status register. *)
Poll ==
  /\ pc = "poll"
  /\ \/ /\ status = "ready"
        /\ pc' = "done" /\ result' = "ready"
        /\ UNCHANGED <<caller, held>>
     \/ status = "error" /\ Fail("error")
     \/ status = "busy" /\ pc' = "check" /\ UNCHANGED <<caller, result, held>>
  /\ NoRead
  /\ UNCHANGED <<status, start, waitStart, began>>

(* The comparison with the wrong field, and as it is. *)
TimedOutByMillis(elapsed) == elapsed.millis > 1000 * ATA_TIMEOUT
TimedOut(elapsed) == elapsed.seconds > ATA_TIMEOUT

Check ==
  /\ pc = "check" /\ ReadSecond
  /\ IF TimedOut(clock_diff(start, Now)) THEN Fail("timeout")
     ELSE ClockWait("pause") /\ UNCHANGED <<result, held>>
  /\ UNCHANGED <<status, start, waitStart, began>>

WaitStart ==
  /\ pc = "wait start" /\ ReadSecond
  /\ pc' = "wait" /\ waitStart' = Now
  /\ UNCHANGED <<status, caller, start, result, began, held>>

Millis == IF caller = "pause" THEN 0 ELSE 1

(* The total wraps too, but no less than half the range above any wait.    *)
NoWait(elapsed) == TRUE
WaitOver(elapsed) ==
  elapsed.millis + elapsed.seconds * 1000 >= Millis

(* Once round the loop of clock_wait.  The first of the two waits of       *)
(* ata_reset ends with the reset bit cleared.                              *)
Wait ==
  /\ pc = "wait" /\ ReadSecond
  /\ IF ~WaitOver(clock_diff(waitStart, Now)) THEN UNCHANGED <<pc, caller>>
     ELSE \/ caller = "pause" /\ pc' = "poll" /\ UNCHANGED caller
          \/ caller = "hold" /\ ClockWait("settle")
          \/ caller = "settle" /\ pc' = "done" /\ UNCHANGED caller
  /\ UNCHANGED <<status, start, waitStart, result, began, held>>

Waiter == CallWait \/ BeginRead \/ TakeStart \/ Poll \/ Check \/ WaitStart \/ Wait

WaitNext == Interrupt \/ Answer \/ Waiter

WaitSpec == WaitInit /\ [][WaitNext]_waitVars

(* The timer keeps ticking, and the thread is scheduled. *)
FairWaitSpec == WaitSpec /\ WF_waitVars(Interrupt) /\ WF_waitVars(Waiter)

----------------------------------------------------------------------------
(* Properties                                                              *)

Times == [seconds : 0 .. Modulus - 1, millis : 0 .. 999]

(* Types of the variables; a reading never leaves the range of clock_t.    *)
TypeOK ==
  /\ clicks \in 0 .. CLICKS_PER_SECOND - 1
  /\ seconds \in 0 .. Modulus - 1
  /\ ticks \in 0 .. MaxTicks /\ late \in 0 .. MaxLate
  /\ reading \in [first : {"none", "seconds", "clicks"}, value : Nat,
                  since : 0 .. MaxTicks]
  /\ status \in {"busy", "ready", "error"}
  /\ pc \in {"idle", "start", "poll", "check", "wait start", "wait", "done"}
  /\ caller \in {"pause", "hold", "settle"}
  /\ start \in Times /\ waitStart \in Times
  /\ result \in {"none", "ready", "error", "timeout"}
  /\ began \in 0 .. MaxTicks /\ held \in 0 .. MaxTicks

(* ata_wait returns, even if the drive never answers. *)
WaitEnds == pc = "start" ~> pc = "done"

(* The clock ticks at least once while ata_reset holds the drive in reset, *)
(* whatever clock_wait reads.                                             *)
ResetHeld ==
  [][(caller = "hold" /\ caller' = "settle" /\ ticks < MaxTicks => ticks > held)]_waitVars

(* A drive has all of the timeout window to answer. *)
WindowKept ==
  [][result # "timeout" /\ result' = "timeout" /\ ticks < MaxTicks =>
       ticks - began >= ATA_TIMEOUT * CLICKS_PER_SECOND]_waitVars

============================================================================
