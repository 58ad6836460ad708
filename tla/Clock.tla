------------------------------- MODULE Clock -------------------------------
(***************************************************************************)
(* The clock of clock.c: two counters that the timer interrupt advances,   *)
(* and clock_read, which a thread calls with interrupts enabled and which  *)
(* copies them one after the other.  They are neither volatile nor         *)
(* protected, so the compiler may read either first.                       *)
(***************************************************************************)
EXTENDS Integers

CONSTANTS
  CLICKS_PER_SECOND,
  Modulus,           \* of uint32_t: 2^32 in the code
  MaxLate,           \* bound on the interrupts between two steps of a thread
  MaxTicks           \* where the history stops counting

VARIABLES
  clicks, seconds,   \* the clock
  reading,           \* clock_read in progress: what was read first
  late,              \* interrupts since the last step of the thread
  ticks              \* history: how many interrupts there were

clockVars == <<clicks, seconds, reading, late, ticks>>

ASSUME ClockAssumption ==
  /\ CLICKS_PER_SECOND \in Nat \ {0}
  /\ MaxLate \in Nat \ {0} /\ MaxTicks \in Nat
  /\ Modulus \in Nat \ {0}
  /\ MaxTicks < Modulus * CLICKS_PER_SECOND

NotReading == [first |-> "none", value |-> 0, since |-> 0]

ClockInit ==
  /\ clicks = 0 /\ seconds = 0
  /\ reading = NotReading
  /\ late = 0 /\ ticks = 0

(* The handler runs with interrupts disabled.  Its guard, one click late   *)
(* and as it is.                                                           *)
SecondOverLate == clicks + 1 > CLICKS_PER_SECOND
SecondOver == clicks + 1 >= CLICKS_PER_SECOND

clock_interrupt ==
  /\ late < MaxLate /\ late' = late + 1
  /\ ticks' = IF ticks < MaxTicks THEN ticks + 1 ELSE ticks
  /\ clicks' = IF SecondOver THEN 0 ELSE clicks + 1
  /\ seconds' = IF SecondOver THEN (seconds + 1) % Modulus ELSE seconds
  /\ UNCHANGED reading

ReadFirst ==
  /\ reading = NotReading
  /\ \/ reading' = [first |-> "seconds", value |-> seconds, since |-> ticks]
     \/ reading' = [first |-> "clicks", value |-> clicks, since |-> ticks]
  /\ late' = 0
  /\ UNCHANGED <<clicks, seconds, ticks>>

(* What clock_read returns if it reads the other one now. *)
Now ==
  LET s == IF reading.first = "seconds" THEN reading.value ELSE seconds
      c == IF reading.first = "clicks" THEN reading.value ELSE clicks
  IN [seconds |-> s, millis |-> (1000 * c) \div CLICKS_PER_SECOND]

ReadSecond ==
  /\ reading # NotReading
  /\ reading' = NotReading
  /\ late' = 0
  /\ UNCHANGED <<clicks, seconds, ticks>>

(* A step of the thread that does not read the clock. *)
NoRead == late' = 0 /\ UNCHANGED <<clicks, seconds, reading, ticks>>

clock_diff(start, stop) ==
  LET borrow == stop.millis < start.millis
      s == IF borrow THEN stop.seconds - 1 ELSE stop.seconds
      m == IF borrow THEN stop.millis + 1000 ELSE stop.millis
  IN [seconds |-> (s - start.seconds) % Modulus, millis |-> m - start.millis]

----------------------------------------------------------------------------
(* A reading is less than a second before clock_read began, or after it    *)
(* ended, however many interrupts there are in between.                    *)
ReadingWithinASecond ==
  reading # NotReading /\ ticks < MaxTicks =>
    LET s == IF reading.first = "seconds" THEN reading.value ELSE seconds
        c == IF reading.first = "clicks" THEN reading.value ELSE clicks
        r == s * CLICKS_PER_SECOND + c
    IN reading.since - CLICKS_PER_SECOND < r /\ r < ticks + CLICKS_PER_SECOND

============================================================================
