---------------------------- MODULE ConsoleProofs ----------------------------
(***************************************************************************)
(* The console keeps the interrupt flag, the cursor and the screen right   *)
(* for any number of threads, any size of the screen and any keymap.       *)
(***************************************************************************)
EXTENDS Console, TLAPS

(* The places of console_putchar behind the check, of a thread outside and *)
(* of the keyboard's handler outside.                                      *)
Work == {"erase", "place", "bounds", "mark", "end"}
Outside == {"idle", "save y", "set x", "set y", "print xy", "restore y",
            "check", "block"}
HandlerOutside == {"idle", "check", "return"}
Printing == {"check", "block", "note", "keep"} \cup Work
Backs == {"idle", "print xy", "return"}
CallType == [pc : Outside \cup HandlerOutside \cup Printing,
             char : Chars \cup {Blank}, back : Backs]

(* Who is where: a thread asks for its interrupts back, the handler never  *)
(* does, and no one else is inside while one of them is.                   *)
CallsInv ==
  /\ call \in [Actors -> CallType] /\ current \in Threads
  /\ \A t \in Threads : /\ call[t].pc \in Outside \cup {"note"} \cup Work
                        /\ call[t].back \in {"idle", "print xy"}
  /\ call["keyboard"].pc \in HandlerOutside \cup {"keep"} \cup Work
  /\ call["keyboard"].pc \notin {"idle", "return"} => call["keyboard"].back = "return"
  /\ \A a \in Actors : call[a].pc \in Printing => call[a].char \in Chars
OneInside == \A a \in Actors : InPutchar(a) => a = Running
FlagInv ==
  /\ interrupts \in BOOLEAN /\ ints \in BOOLEAN
  /\ interrupts = (~HandlerBusy /\ ~InPutchar(current))
  /\ call[Running].pc \in Work => ints = ~HandlerBusy
ControlInv == CallsInv /\ OneInside /\ FlagInv

----------------------------------------------------------------------------
(* Interrupts.                                                             *)

LEMMA ActorTypes ==
  ASSUME ControlInv
  PROVE  /\ Running \in Actors /\ "keyboard" \notin Threads
         /\ HandlerBusy => Running = "keyboard"
         /\ ~HandlerBusy => Running = current /\ Running \in Threads
BY ConsoleAssumption DEF ControlInv, CallsInv, Running, HandlerBusy, Actors

LEMMA ControlInit == Init => ControlInv
<1> SUFFICES ASSUME Init PROVE ControlInv
  OBVIOUS
<1>1. /\ call = [a \in Actors |-> [pc |-> "idle", char |-> Blank, back |-> "idle"]]
      /\ current \in Threads /\ ints = FALSE /\ interrupts = TRUE
  BY DEF Init, CallAt
<1>2. \A a \in Actors :
        call[a] = [pc |-> "idle", char |-> Blank, back |-> "idle"]
  BY <1>1
<1>3. "keyboard" \in Actors /\ Threads \subseteq Actors
  BY DEF Actors
<1>4. CallsInv
  BY <1>1, <1>2, <1>3
  DEF CallsInv, CallType, Outside, HandlerOutside, Printing, Work, Backs
<1>5. \A a \in Actors : ~InPutchar(a)
  BY <1>2 DEF InPutchar
<1>6. ~HandlerBusy /\ Running = current
  BY <1>2, <1>3 DEF HandlerBusy, Running
<1> QED BY <1>1, <1>2, <1>3, <1>4, <1>5, <1>6
        DEF ControlInv, OneInside, FlagInv, Work

(* A step of the running actor to another place that leaves the other     *)
(* actors alone.                                                           *)
LEMMA GotoKeeps ==
  ASSUME ControlInv, NEW place \in Outside \cup HandlerOutside \cup Printing,
         Goto(place), current' = current
  PROVE  /\ call' \in [Actors -> CallType]
         /\ call'[Running].pc = place
         /\ call'[Running].char = call[Running].char
         /\ call'[Running].back = call[Running].back
         /\ \A a \in Actors : a # Running => call'[a] = call[a]
<1>1. call \in [Actors -> CallType] /\ Running \in Actors
  BY ActorTypes DEF ControlInv, CallsInv
<1> DEFINE here == [call[Running] EXCEPT !.pc = place]
<1>2. call' = [call EXCEPT ![Running] = here]
  BY DEF Goto
<1>3. /\ here \in CallType /\ here.pc = place
      /\ here.char = call[Running].char /\ here.back = call[Running].back
  BY <1>1 DEF CallType
<1> HIDE DEF here
<1> QED BY <1>1, <1>2, <1>3

(* A step inside console_putchar, which is not the last one.               *)
LEMMA WorkKeeps ==
  ASSUME ControlInv, NEW place \in Work \ {"end"}, NEW next \in Work,
         At(place), Goto(next), UNCHANGED <<current, ints, interrupts>>
  PROVE  ControlInv' /\ Running' = Running
<1>1. /\ call' \in [Actors -> CallType]
      /\ call'[Running].pc = next
      /\ call'[Running].char = call[Running].char
      /\ call'[Running].back = call[Running].back
      /\ \A a \in Actors : a # Running => call'[a] = call[a]
  BY GotoKeeps DEF Printing
<1>2. /\ call[Running].pc = place /\ place # "idle" /\ next # "idle"
      /\ next # "return" /\ Running \in Actors
  BY ActorTypes DEF At, Work
<1>3. /\ HandlerBusy' = HandlerBusy /\ Running' = Running
  BY <1>1, <1>2 DEF HandlerBusy, Running, Actors
<1>4. \A a \in Actors : InPutchar(a)' = InPutchar(a)
  BY <1>1, <1>2 DEF InPutchar, Work
<1>5. CallsInv'
  BY <1>1, <1>2, ActorTypes
  DEF ControlInv, CallsInv, Actors, Printing, Work, HandlerOutside, Outside, HandlerBusy
<1>6. OneInside'
  BY <1>3, <1>4 DEF ControlInv, OneInside
<1>7. FlagInv'
  BY <1>1, <1>2, <1>3, <1>4 DEF ControlInv, FlagInv, CallsInv, Actors
<1> QED BY <1>3, <1>5, <1>6, <1>7 DEF ControlInv

(* A thread finds interrupts on and turns them off, the handler finds them *)
(* off.                                                                    *)
LEMMA CheckControl == ControlInv /\ CheckInterrupts => ControlInv'
<1> SUFFICES ASSUME ControlInv, CheckInterrupts PROVE ControlInv'
  OBVIOUS
<1> DEFINE place == IF interrupts THEN "block" ELSE "keep"
<1>1. /\ call[Running].pc = "check" /\ Goto(place)
      /\ UNCHANGED <<current, ints, interrupts>>
  BY DEF CheckInterrupts, At, Unchanged
<1>2. /\ call' \in [Actors -> CallType]
      /\ call'[Running].pc = place
      /\ call'[Running].char = call[Running].char
      /\ call'[Running].back = call[Running].back
      /\ \A a \in Actors : a # Running => call'[a] = call[a]
  BY <1>1, GotoKeeps DEF Outside, Printing
<1>3. interrupts = ~HandlerBusy
  BY <1>1, ActorTypes DEF ControlInv, FlagInv, InPutchar
<1>4. place = (IF HandlerBusy THEN "keep" ELSE "block") /\ Running \in Actors
  BY <1>3, ActorTypes
<1>5. HandlerBusy' = HandlerBusy /\ Running' = Running
  BY <1>1, <1>2, <1>4, ActorTypes DEF HandlerBusy, Running, Actors
<1>6. CallsInv'
  <2>1. CASE HandlerBusy
    <3>1. Running = "keyboard" /\ place = "keep"
      BY <1>4, <2>1, ActorTypes
    <3> QED BY <1>1, <1>2, <3>1, ActorTypes
            DEF ControlInv, CallsInv, Actors, Printing
  <2>2. CASE ~HandlerBusy
    <3>1. Running \in Threads /\ place = "block"
      BY <1>4, <2>2, ActorTypes
    <3> QED BY <1>1, <1>2, <3>1, ActorTypes
            DEF ControlInv, CallsInv, Actors, Printing, Outside
  <2> QED BY <2>1, <2>2
<1>7. \A a \in Actors : a # Running => InPutchar(a)' = InPutchar(a)
  BY <1>2 DEF InPutchar
<1>8. OneInside'
  BY <1>5, <1>7 DEF ControlInv, OneInside
<1>9. FlagInv'
  <2>1. place \notin Work
    BY DEF Work
  <2>2. HandlerBusy => InPutchar(current)' = InPutchar(current)
    BY <1>1, <1>2, ActorTypes DEF InPutchar, ControlInv, CallsInv, Actors
  <2>3. ~HandlerBusy => InPutchar(current)' = InPutchar(current)
    BY <1>1, <1>2, <1>4, ActorTypes DEF InPutchar
  <2> QED BY <1>1, <1>2, <1>5, <2>1, <2>2, <2>3 DEF ControlInv, FlagInv
<1> QED BY <1>6, <1>8, <1>9 DEF ControlInv

LEMMA BlockControl == ControlInv /\ Block => ControlInv'
<1> SUFFICES ASSUME ControlInv, Block PROVE ControlInv'
  OBVIOUS
<1>1. /\ call[Running].pc = "block" /\ Goto("note") /\ interrupts' = FALSE
      /\ UNCHANGED <<current, ints>>
  BY DEF Block, At, Unchanged
<1>2. /\ call' \in [Actors -> CallType]
      /\ call'[Running].pc = "note"
      /\ call'[Running].char = call[Running].char
      /\ call'[Running].back = call[Running].back
      /\ \A a \in Actors : a # Running => call'[a] = call[a]
  BY <1>1, GotoKeeps DEF Printing
<1>3. ~HandlerBusy /\ Running = current /\ Running \in Threads
  BY <1>1, ActorTypes
  DEF ControlInv, CallsInv, HandlerOutside, Work
<1>4. ~HandlerBusy' /\ Running' = Running
  BY <1>1, <1>2, <1>3, ActorTypes DEF HandlerBusy, Running, Actors
<1>5. CallsInv'
  BY <1>1, <1>2, <1>3, ActorTypes DEF ControlInv, CallsInv, Actors, Printing
<1>6. OneInside'
  BY <1>2, <1>4 DEF ControlInv, OneInside, InPutchar
<1>7. FlagInv'
  BY <1>1, <1>2, <1>3, <1>4 DEF ControlInv, FlagInv, InPutchar, Work
<1> QED BY <1>5, <1>6, <1>7 DEF ControlInv

LEMMA NoteControl == ControlInv /\ (Note \/ Keep) => ControlInv' /\ Running' = Running
<1> SUFFICES ASSUME ControlInv, Note \/ Keep PROVE ControlInv' /\ Running' = Running
  OBVIOUS
<1>1. /\ call[Running].pc \in {"note", "keep"} /\ Goto("erase")
      /\ ints' = (call[Running].pc = "note")
      /\ UNCHANGED <<current, interrupts>>
  BY DEF Note, Keep, KeptInts, Begin, At, Unchanged
<1>2. /\ call' \in [Actors -> CallType]
      /\ call'[Running].pc = "erase"
      /\ call'[Running].char = call[Running].char
      /\ call'[Running].back = call[Running].back
      /\ \A a \in Actors : a # Running => call'[a] = call[a]
  BY <1>1, GotoKeeps DEF Printing, Work
<1>3. HandlerBusy <=> call[Running].pc = "keep"
  <2>1. HandlerBusy => call[Running].pc # "note"
    BY ActorTypes DEF ControlInv, CallsInv, HandlerOutside, Work
  <2>2. ~HandlerBusy => call[Running].pc # "keep"
    BY ActorTypes DEF ControlInv, CallsInv, Outside, Work
  <2> QED BY <1>1, <2>1, <2>2
<1>4. HandlerBusy' = HandlerBusy /\ Running' = Running
  BY <1>1, <1>2, ActorTypes DEF HandlerBusy, Running, Actors
<1>5. CallsInv'
  <2>1. CASE HandlerBusy
    BY <1>1, <1>2, <2>1, ActorTypes
    DEF ControlInv, CallsInv, Actors, Printing, Work
  <2>2. CASE ~HandlerBusy
    BY <1>1, <1>2, <2>2, ActorTypes
    DEF ControlInv, CallsInv, Actors, Printing, Work
  <2> QED BY <2>1, <2>2
<1>6. \A a \in Actors : InPutchar(a)' = InPutchar(a)
  BY <1>1, <1>2 DEF InPutchar
<1>7. OneInside'
  BY <1>4, <1>6 DEF ControlInv, OneInside
<1>8. FlagInv'
  BY <1>1, <1>3, <1>4, <1>6 DEF ControlInv, FlagInv, CallsInv, Actors
<1> QED BY <1>4, <1>5, <1>7, <1>8 DEF ControlInv

LEMMA EndControl == ControlInv /\ End => ControlInv' /\ Running' = Running
<1> SUFFICES ASSUME ControlInv, End PROVE ControlInv' /\ Running' = Running
  OBVIOUS
<1> DEFINE back == call[Running].back
<1>1. /\ call[Running].pc = "end" /\ interrupts' = (interrupts \/ ints)
      /\ call' = [call EXCEPT ![Running] =
                    [pc |-> back, char |-> Blank, back |-> "idle"]]
      /\ UNCHANGED <<current, ints>>
  BY DEF End, At, CallAt, Unchanged
<1>2. /\ call \in [Actors -> CallType] /\ Running \in Actors
      /\ back = "return" <=> HandlerBusy
      /\ back \in {"idle", "print xy", "return"}
  BY <1>1, ActorTypes DEF ControlInv, CallsInv, CallType, Backs
<1>3. [pc |-> back, char |-> Blank, back |-> "idle"] \in CallType
  BY <1>2 DEF CallType, Outside, HandlerOutside, Backs
<1>4. /\ call' \in [Actors -> CallType]
      /\ call'[Running].pc = back /\ call'[Running].back = "idle"
      /\ \A a \in Actors : a # Running => call'[a] = call[a]
  BY <1>1, <1>2, <1>3
<1> HIDE DEF back
<1>5. HandlerBusy' = HandlerBusy /\ Running' = Running
  BY <1>1, <1>2, <1>4, ActorTypes DEF HandlerBusy, Running, Actors
<1>6. CallsInv'
  <2>1. CASE HandlerBusy
    BY <1>1, <1>2, <1>4, <2>1, ActorTypes, ZenonT(60)
    DEF ControlInv, CallsInv, Actors, Printing, Work, HandlerOutside
  <2>2. CASE ~HandlerBusy
    BY <1>1, <1>2, <1>4, <2>2, ActorTypes
    DEF ControlInv, CallsInv, Actors, Printing, Work, Outside
  <2> QED BY <2>1, <2>2
<1>7. \A a \in Actors : ~InPutchar(a)'
  <2>1. ~InPutchar(Running)'
    <3>1. (call[Running].pc)' = back
      BY <1>4, <1>5
    <3> QED BY <1>2, <3>1 DEF InPutchar
  <2>2. \A a \in Actors : a # Running => ~InPutchar(a)'
    BY <1>4 DEF ControlInv, OneInside, InPutchar
  <2> QED BY <1>5, <2>1, <2>2
<1>8. FlagInv'
  <2>1. ints = ~HandlerBusy
    BY <1>1 DEF ControlInv, FlagInv, Work
  <2>2. interrupts' = ~HandlerBusy
    BY <1>1, <2>1, ActorTypes DEF ControlInv, FlagInv, InPutchar
  <2>3. call'[Running].pc \notin Work /\ current \in Actors
    BY <1>2, <1>4 DEF Work, ControlInv, CallsInv, Actors
  <2> QED BY <1>1, <1>5, <1>7, <2>2, <2>3 DEF ControlInv, FlagInv
<1> QED BY <1>5, <1>6, <1>7, <1>8 DEF ControlInv, OneInside

(* A step outside console_putchar. *)
LEMMA OutsideControl ==
  ASSUME ControlInv, NEW place \in Outside \ Printing,
         At(place), Running \in Threads,
         NEW next \in Outside \ {"check", "block"}, Goto(next),
         UNCHANGED <<current, ints, interrupts>>
  PROVE  ControlInv' /\ Running' = Running
<1>1. /\ call' \in [Actors -> CallType]
      /\ call'[Running].pc = next
      /\ call'[Running].char = call[Running].char
      /\ call'[Running].back = call[Running].back
      /\ \A a \in Actors : a # Running => call'[a] = call[a]
  BY GotoKeeps
<1>2. call[Running].pc = place /\ place \notin Printing /\ next \notin Printing
  BY DEF At, Outside, Printing, Work
<1>3. ~HandlerBusy /\ Running = current /\ Running \in Actors
  BY ActorTypes
<1>4. ~HandlerBusy' /\ Running' = Running
  BY <1>1, <1>3, ActorTypes DEF HandlerBusy, Running, Actors
<1>5. CallsInv'
  BY <1>1, <1>2, <1>3, ActorTypes DEF ControlInv, CallsInv, Actors
<1>6. \A a \in Actors : InPutchar(a)' = InPutchar(a)
  BY <1>1, <1>2 DEF InPutchar, Printing, Work
<1>7. OneInside'
  BY <1>4, <1>6 DEF ControlInv, OneInside
<1>8. FlagInv'
  BY <1>1, <1>2, <1>3, <1>4, <1>6 DEF ControlInv, FlagInv, Printing
<1> QED BY <1>4, <1>5, <1>7, <1>8 DEF ControlInv

LEMMA PrintCharControl ==
  ASSUME ControlInv, NEW place \in {"idle", "print xy"}, PrintChar(place)
  PROVE  ControlInv' /\ Running' = Running
<1>1. PICK c \in Printed : call' = [call EXCEPT ![Running] =
                                      [pc |-> "check", char |-> c, back |-> place]]
  BY DEF PrintChar
<1>2. /\ call[Running].pc = place /\ Running \in Threads
      /\ UNCHANGED <<current, ints, interrupts>>
  BY DEF PrintChar, At
<1>3. /\ call \in [Actors -> CallType] /\ Running \in Actors
      /\ ~HandlerBusy /\ Running = current /\ c \in Chars
  BY <1>2, ActorTypes DEF ControlInv, CallsInv, Chars
<1>4. [pc |-> "check", char |-> c, back |-> place] \in CallType
  BY <1>3 DEF CallType, Outside, Backs
<1>5. /\ call' \in [Actors -> CallType]
      /\ call'[Running].pc = "check" /\ call'[Running].char = c
      /\ call'[Running].back = place
      /\ \A a \in Actors : a # Running => call'[a] = call[a]
  BY <1>1, <1>3, <1>4
<1>6. ~HandlerBusy' /\ Running' = Running
  BY <1>2, <1>3, <1>5, ActorTypes DEF HandlerBusy, Running, Actors
<1>7. CallsInv'
  BY <1>2, <1>3, <1>5, ActorTypes DEF ControlInv, CallsInv, Actors, Outside
<1>8. \A a \in Actors : InPutchar(a)' <=> InPutchar(a)
  <2> SUFFICES ASSUME NEW a \in Actors PROVE InPutchar(a)' <=> InPutchar(a)
    OBVIOUS
  <2>1. CASE a = Running
    <3>1. call[a].pc \in {"idle", "print xy"} /\ call'[a].pc = "check"
      BY <1>2, <1>5, <2>1
    <3>2. ~InPutchar(a)
      BY <3>1 DEF InPutchar
    <3>3. ~InPutchar(a)'
      BY <3>1 DEF InPutchar
    <3> QED BY <3>2, <3>3
  <2>2. CASE a # Running
    BY <1>5, <2>2 DEF InPutchar
  <2> QED BY <2>1, <2>2
<1>9. OneInside'
  BY <1>6, <1>8 DEF ControlInv, OneInside
<1>10. FlagInv'
  BY <1>2, <1>3, <1>5, <1>6, <1>8 DEF ControlInv, FlagInv, Work
<1> QED BY <1>6, <1>7, <1>9, <1>10 DEF ControlInv

LEMMA PutcharControl == ControlInv /\ putchar => ControlInv'
<1> SUFFICES ASSUME ControlInv, putchar PROVE ControlInv'
  OBVIOUS
<1>1. CASE Erase
  BY <1>1, WorkKeeps DEF Erase, Unchanged, Work
<1>2. CASE Place
  BY <1>2, WorkKeeps DEF Place, Unchanged, Work
<1>3. CASE Bounds
  BY <1>3, WorkKeeps DEF Bounds, Unchanged, Work
<1>4. CASE WriteMark
  BY <1>4, WorkKeeps DEF WriteMark, Unchanged, Work
<1> QED BY <1>1, <1>2, <1>3, <1>4, CheckControl, BlockControl, NoteControl,
           EndControl
        DEF putchar

(* At the places of printf and printf_xy there is a thread.                *)
LEMMA OnlyThreads ==
  ASSUME ControlInv,
         call[Running].pc \in {"idle", "save y", "set x", "set y", "print xy",
                               "restore y"}
  PROVE  Running \in Threads
BY ActorTypes DEF ControlInv, CallsInv, HandlerOutside, HandlerBusy, Work

(* One step of printf_xy: where the thread is, and where it goes.          *)
LEMMA XyStepControl ==
  ASSUME ControlInv, NEW from, NEW next, XyStep(from, next),
         from \in {"idle", "save y", "set x", "set y", "print xy", "restore y"},
         next \in {"idle", "save y", "set x", "set y", "print xy", "restore y"}
  PROVE  ControlInv' /\ Running' = Running
<1>1. At(from) /\ Goto(next) /\ UNCHANGED <<current, ints, interrupts>>
  BY DEF XyStep
<1>2. Running \in Threads
  BY <1>1, OnlyThreads DEF At
<1>3. from \in Outside \ Printing /\ next \in Outside \ {"check", "block"}
  BY DEF Outside, Printing, Work
<1> QED BY <1>1, <1>2, <1>3, OutsideControl

LEMMA XyControl ==
  ASSUME ControlInv, printf \/ printf_xy
  PROVE  ControlInv' /\ Running' = Running
<1>1. CASE printf
  BY <1>1, PrintCharControl DEF printf
<1>2. CASE PrintChar("print xy")
  BY <1>2, PrintCharControl
<1>3. CASE SaveX \/ SaveY \/ SetX \/ SetY \/ RestoreX \/ RestoreY
  BY <1>3, XyStepControl DEF SaveX, SaveY, SetX, SetY, RestoreX, RestoreY
<1> QED BY <1>1, <1>2, <1>3 DEF printf_xy

LEMMA KeyChar ==
  ASSUME NEW code \in Codes, GetKey(code) # KEY_INVALID
  PROVE  GetKey(code) \in Chars
<1>1. code.key \in DOMAIN keymap
  BY DEF Codes
<1>2. GetKey(code) \in {keymap[code.key].normal, keymap[code.key].shifted,
                        keymap[code.key].ctrled}
  BY DEF GetKey, keyboard_map
<1> QED BY <1>1, <1>2 DEF Chars, KeyChars

LEMMA KeyboardControl ==
  ASSUME ControlInv, KeyboardInterrupt
  PROVE  /\ ControlInv' /\ ~HandlerBusy
         /\ HandlerBusy' => call'["keyboard"].pc = "check"
<1>1. PICK code \in Codes :
        IF GetKey(code) = KEY_INVALID THEN UNCHANGED <<interrupts, call, calls>>
        ELSE /\ interrupts' = FALSE
             /\ call' = [call EXCEPT !["keyboard"] =
                           [pc |-> "check", char |-> GetKey(code), back |-> "return"]]
  BY DEF KeyboardInterrupt
<1>2. interrupts = TRUE /\ UNCHANGED <<ints, current>>
  BY DEF KeyboardInterrupt, ControlInv, FlagInv
<1>3. ~HandlerBusy /\ ~InPutchar(current) /\ "keyboard" \in Actors
  BY <1>2 DEF ControlInv, FlagInv, Actors
<1>4. CASE GetKey(code) = KEY_INVALID
  BY <1>1, <1>2, <1>3, <1>4
  DEF ControlInv, CallsInv, OneInside, FlagInv, InPutchar, Running, HandlerBusy
<1>5. CASE GetKey(code) # KEY_INVALID
  <2> DEFINE key == GetKey(code)
  <2>1. key \in Chars
    BY <1>5, KeyChar
  <2>2. interrupts' = FALSE /\ call' = [call EXCEPT !["keyboard"] =
                           [pc |-> "check", char |-> key, back |-> "return"]]
    BY <1>1, <1>5
  <2> HIDE DEF key
  <2>3. [pc |-> "check", char |-> key, back |-> "return"] \in CallType
    BY <2>1 DEF CallType, Outside, Backs
  <2>4. /\ call' \in [Actors -> CallType]
        /\ call'["keyboard"].pc = "check" /\ call'["keyboard"].char = key
        /\ call'["keyboard"].back = "return"
        /\ \A t \in Actors : t # "keyboard" => call'[t] = call[t]
    BY <1>3, <2>2, <2>3 DEF ControlInv, CallsInv
  <2>5. HandlerBusy' /\ Running' = "keyboard"
    BY <2>4 DEF HandlerBusy, Running
  <2>6. \A a \in Actors : ~InPutchar(a)'
    <3> SUFFICES ASSUME NEW a \in Actors PROVE ~InPutchar(a)'
      OBVIOUS
    <3>1. CASE a = "keyboard"
      BY <2>4, <3>1 DEF InPutchar
    <3>2. CASE a # "keyboard"
      BY <1>3, <2>4, <3>2, ActorTypes DEF InPutchar, ControlInv, OneInside
    <3> QED BY <3>1, <3>2
  <2>7. CallsInv'
    <3>1. \A t \in Threads : t \in Actors /\ t # "keyboard"
      BY ActorTypes DEF Actors
    <3>2. "check" \in HandlerOutside
      BY DEF HandlerOutside
    <3> QED BY <1>2, <2>1, <2>4, <3>1, <3>2 DEF ControlInv, CallsInv
  <2>8. FlagInv'
    <3>1. "check" \notin Work
      BY DEF Work
    <3> QED BY <1>2, <2>2, <2>4, <2>5, <3>1 DEF ControlInv, FlagInv
  <2> QED BY <1>3, <2>4, <2>6, <2>7, <2>8 DEF ControlInv, OneInside
<1> QED BY <1>4, <1>5

LEMMA ReturnControl == ControlInv /\ Return => ControlInv' /\ ~HandlerBusy'
<1> SUFFICES ASSUME ControlInv, Return PROVE ControlInv' /\ ~HandlerBusy'
  OBVIOUS
<1>1. /\ call[Running].pc = "return" /\ Running = "keyboard" /\ Goto("idle")
      /\ interrupts' = TRUE /\ UNCHANGED <<current, ints>>
  BY DEF Return, At, Unchanged
<1>2. /\ call' \in [Actors -> CallType]
      /\ call'["keyboard"].pc = "idle"
      /\ call'["keyboard"].char = call["keyboard"].char
      /\ call'["keyboard"].back = call["keyboard"].back
      /\ \A a \in Actors : a # "keyboard" => call'[a] = call[a]
  BY <1>1, GotoKeeps DEF Outside
<1>3. ~HandlerBusy' /\ Running' = current
  BY <1>1, <1>2 DEF HandlerBusy, Running
<1>4. \A a \in Actors : ~InPutchar(a)'
  <2> SUFFICES ASSUME NEW a \in Actors PROVE ~InPutchar(a)'
    OBVIOUS
  <2>1. CASE a = "keyboard"
    BY <1>2, <2>1 DEF InPutchar
  <2>2. CASE a # "keyboard"
    BY <1>1, <1>2, <2>2 DEF InPutchar, ControlInv, OneInside
  <2> QED BY <2>1, <2>2
<1>5. CallsInv'
  <2>1. "idle" \in HandlerOutside /\ "idle" \notin Printing
    BY DEF HandlerOutside, Printing, Work
  <2> QED BY <1>1, <1>2, <2>1, ActorTypes DEF ControlInv, CallsInv, Actors
<1>6. FlagInv'
  <2>1. current \in Actors /\ current # "keyboard"
    BY ActorTypes DEF ControlInv, CallsInv, Actors
  <2>2. call'[current].pc \notin Work
    BY <1>4, <2>1 DEF InPutchar, Work
  <2> QED BY <1>1, <1>3, <1>4, <2>1, <2>2 DEF ControlInv, FlagInv
<1> QED BY <1>3, <1>4, <1>5, <1>6 DEF ControlInv, OneInside

LEMMA SwitchControl == ControlInv /\ Switch => ControlInv'
<1> SUFFICES ASSUME ControlInv, Switch PROVE ControlInv'
  OBVIOUS
<1>1. /\ interrupts = TRUE /\ current' \in Threads
      /\ UNCHANGED <<ints, interrupts, call>>
  BY DEF Switch, ControlInv, FlagInv
<1>2. ~HandlerBusy /\ ~HandlerBusy' /\ Running = current /\ Running' = current'
  BY <1>1, ActorTypes DEF ControlInv, FlagInv, HandlerBusy, Running
<1>3. \A a \in Actors : ~InPutchar(a)
  BY <1>1, <1>2 DEF ControlInv, OneInside, FlagInv
<1>4. \A a \in Actors : ~InPutchar(a)'
  BY <1>1, <1>3 DEF InPutchar
<1>5. CallsInv'
  BY <1>1 DEF ControlInv, CallsInv
<1>6. FlagInv'
  <2>1. current' \in Actors
    BY <1>1 DEF Actors
  <2>2. call'[current'].pc \notin Work
    BY <1>1, <1>3, <2>1 DEF InPutchar, Work
  <2> QED BY <1>1, <1>2, <1>4, <2>1, <2>2 DEF ControlInv, FlagInv, InPutchar
<1> QED BY <1>4, <1>5, <1>6 DEF ControlInv, OneInside

LEMMA ControlStep == ControlInv /\ [Next]_vars => ControlInv'
<1> SUFFICES ASSUME ControlInv, [Next]_vars PROVE ControlInv'
  OBVIOUS
<1>1. CASE UNCHANGED vars
  BY <1>1 DEF vars, ControlInv, CallsInv, OneInside, FlagInv, InPutchar, Running,
     HandlerBusy
<1> QED BY <1>1, PutcharControl, XyControl, KeyboardControl, ReturnControl,
           SwitchControl
        DEF Next

LEMMA ControlFlag == ControlInv => FlagKept
BY DEF ControlInv, CallsInv, FlagInv, FlagKept, HandlerBusy

(* The keyboard's handler is never interrupted, and a thread outside       *)
(* console_putchar always can be: the one global ints holds the right flag *)
(* for each of the calls, whatever the threads do.                         *)
THEOREM FlagAlwaysKept == Spec => []FlagKept
BY ControlInit, ControlStep, ControlFlag, PTL DEF Spec

----------------------------------------------------------------------------
(* The places on the screen.                                               *)

LEMMA Sizes == xsize \in Nat \ {0} /\ ysize \in Nat \ {0}
BY ConsoleAssumption

(* The place of a row and a column is on the screen if they are.           *)
LEMMA IndexOnScreen ==
  ASSUME NEW x \in 0 .. xsize - 1, NEW y \in 0 .. ysize - 1
  PROVE  Index(x, y) \in Places
<1>1. PICK X \in Nat, Y \in Nat, i \in Nat, j \in Nat :
        X = xsize /\ Y = ysize /\ i = x /\ j = y /\ i < X /\ j < Y
  BY Sizes
<1>2. i + j * X >= 0
  BY <1>1
<1>3. i + j * X < X * Y
  <2>1. j * X <= (Y - 1) * X
    BY <1>1
  <2> QED BY <1>1, <2>1
<1>4. i + j * X \in Int /\ X * Y \in Int
  BY <1>1
<1> QED BY <1>1, <1>2, <1>3, <1>4 DEF Index, Places

(* It tells the row and the column apart. *)
LEMMA IndexParts ==
  ASSUME NEW x \in 0 .. xsize - 1, NEW y \in Int
  PROVE  /\ Index(x, y) % xsize = x /\ Index(x, y) \div xsize = y
         /\ Index(x, y) \in Int
<1>1. PICK X \in Nat, i \in Nat : X = xsize /\ i = x /\ i < X
  BY Sizes
<1>2. (i + y * X) % X = i /\ (i + y * X) \div X = y
  BY <1>1
<1> QED BY <1>1, <1>2 DEF Index

----------------------------------------------------------------------------
(* The cursor and the cells.                                               *)

Columns == 0 .. xsize - 1
Rows == 0 .. ysize - 1
OnScreen == xpos \in Columns /\ ypos \in Rows
XyType == [x : Columns, y : Rows, to : [x : Columns, y : Rows]]
CursorInv ==
  /\ xy \in [Threads -> XyType]
  /\ IF call[Running].pc = "bounds"
     THEN xpos \in -1 .. xsize /\ ypos \in -2 .. ysize
     ELSE OnScreen

(* How far the screen is with the character in work, from what it showed   *)
(* before.                                                                 *)
Drawing == {"erase", "place", "bounds", "mark"}
CellType == Chars \cup {Blank, Mark}
Left == [shown.cells EXCEPT ![shown.cursor] =
           IF call[Running].char \in Controls THEN Blank ELSE call[Running].char]
To == Screen!Moved(call[Running].char, shown.cursor)
DrawInv(place) ==
  /\ shown.cells \in [Places -> CellType] /\ shown.cursor \in Places
  /\ place = "erase" =>
       shown.cells = console_buffer /\ shown.cursor = Index(xpos, ypos)
  /\ place = "place" =>
       /\ shown.cursor = Index(xpos, ypos)
       /\ console_buffer = [shown.cells EXCEPT ![shown.cursor] = Blank]
  /\ place = "bounds" => console_buffer = Left /\ Index(xpos, ypos) = To
  /\ place = "mark" =>
       /\ Index(xpos, ypos) = IF To < 0 THEN 0
                              ELSE IF To < xsize * ysize THEN To
                                   ELSE xsize * ysize - xsize
       /\ console_buffer = IF To < xsize * ysize THEN Left
                           ELSE Screen!ScrolledUp(Left)
ScreenInv ==
  /\ console_buffer \in [Places -> CellType]
  /\ call[Running].pc \in Drawing => DrawInv(call[Running].pc)

ConsoleInv == ControlInv /\ CursorInv /\ ScreenInv

(* What the terminal shows. *)
ShownCells == IF Halfway THEN shown.cells ELSE console_buffer
ShownCursor == IF Halfway THEN shown.cursor ELSE Index(xpos, ypos)
TerminalStep == [Screen!Next]_<<ShownCells, ShownCursor>>

OneAtWork == Halfway <=> call[Running].pc \in Drawing

LEMMA OneDraws == ControlInv => OneAtWork
<1> SUFFICES ASSUME ControlInv PROVE Halfway <=> call[Running].pc \in Drawing
  BY DEF OneAtWork
<1>1. Running \in Actors
  BY ActorTypes
<1> QED BY <1>1 DEF Halfway, Drawing, ControlInv, OneInside, InPutchar

LEMMA ScreenInit == Init => CursorInv /\ ScreenInv
<1> SUFFICES ASSUME Init PROVE CursorInv /\ ScreenInv
  OBVIOUS
<1>1. ControlInv
  BY ControlInit
<1>2. call[Running].pc = "idle"
  BY <1>1, ActorTypes DEF Init, CallAt
<1>3. 0 \in Columns /\ 0 \in Rows
  BY Sizes DEF Columns, Rows
<1>4. NoXy \in XyType
  BY <1>3 DEF NoXy, XyType
<1>5. CursorInv
  BY <1>2, <1>3, <1>4 DEF Init, CursorInv, OnScreen
<1> QED BY <1>2, <1>5 DEF Init, ScreenInv, CellType, Drawing

(* A step outside, or into or out of it, that does not move the cursor.    *)
LEMMA QuietStep ==
  ASSUME ConsoleInv, ControlInv', ~Halfway, ~Halfway', UNCHANGED <<screen, xy>>
  PROVE  CursorInv' /\ ScreenInv' /\ TerminalStep
<1>1. call[Running].pc \notin Drawing /\ OnScreen
  BY OneDraws DEF ConsoleInv, CursorInv, Drawing, OneAtWork
<1>2. (call[Running].pc \notin Drawing)'
  <2>1. OneAtWork'
    BY OneDraws, PTL
  <2> QED BY <2>1 DEF OneAtWork
<1>3. OnScreen'
  BY <1>1 DEF OnScreen, screen
<1>4. CursorInv'
  BY <1>2, <1>3 DEF ConsoleInv, CursorInv, Drawing
<1>5. ScreenInv'
  BY <1>2 DEF ConsoleInv, ScreenInv, screen
<1>6. UNCHANGED <<ShownCells, ShownCursor>>
  BY DEF ShownCells, ShownCursor, screen
<1> QED BY <1>4, <1>5, <1>6 DEF TerminalStep

(* A step that moves the cursor within its row or its column. *)
LEMMA MoveStep ==
  ASSUME ConsoleInv, ControlInv', ~Halfway, ~Halfway', OnScreen',
         xpos' = xpos \/ ypos' = ypos, UNCHANGED console_buffer,
         xy' \in [Threads -> XyType]
  PROVE  CursorInv' /\ ScreenInv' /\ TerminalStep
<1>1. call[Running].pc \notin Drawing /\ OnScreen
  BY OneDraws DEF ConsoleInv, CursorInv, Drawing, OneAtWork
<1>2. (call[Running].pc \notin Drawing)'
  <2>1. OneAtWork'
    BY OneDraws, PTL
  <2> QED BY <2>1 DEF OneAtWork
<1>3. CursorInv'
  BY <1>2 DEF CursorInv, Drawing
<1>4. ScreenInv'
  BY <1>2 DEF ConsoleInv, ScreenInv
<1>5. /\ xpos \in Columns /\ ypos \in Rows /\ xpos' \in Columns /\ ypos' \in Rows
  BY <1>1 DEF OnScreen
<1> DEFINE from == Index(xpos, ypos)
           to == Index(xpos', ypos')
<1>6. /\ from % xsize = xpos /\ from \div xsize = ypos
      /\ to % xsize = xpos' /\ to \div xsize = ypos' /\ to \in Places
  BY <1>5, IndexParts, IndexOnScreen DEF Columns, Rows
<1>7. to \in {p \in Places : \/ p % xsize = from % xsize
                             \/ p \div xsize = from \div xsize}
  BY <1>6
<1>8. Screen!Move
  <2>1. /\ (IF Halfway THEN shown.cursor ELSE Index(xpos, ypos)) = from
        /\ (IF Halfway THEN shown.cursor ELSE Index(xpos, ypos))' = to
    BY DEF Index
  <2>2. (IF Halfway THEN shown.cells ELSE console_buffer)'
          = (IF Halfway THEN shown.cells ELSE console_buffer)
    OBVIOUS
  <2>3. Screen!Places = Places
    BY DEF Screen!Places, Screen!Size, Places
  <2> HIDE DEF from, to
  <2> QED BY <1>7, <2>1, <2>2, <2>3 DEF Screen!Move
<1> QED BY <1>3, <1>4, <1>8 DEF TerminalStep, Screen!Next

LEMMA XyScreen ==
  ASSUME ConsoleInv, ControlInv', Running' = Running,
         SaveX \/ SaveY \/ SetX \/ SetY \/ RestoreX \/ RestoreY
  PROVE  CursorInv' /\ ScreenInv' /\ TerminalStep
<1>1. /\ call[Running].pc \in {"idle", "save y", "set x", "set y", "print xy",
                               "restore y"}
      /\ UNCHANGED console_buffer
  BY DEF SaveX, SaveY, SetX, SetY, RestoreX, RestoreY, XyStep, At
<1>2. Running = current /\ current \in Threads
  BY <1>1, OnlyThreads, ActorTypes DEF ConsoleInv
<1>3. ~Halfway /\ OnScreen
  BY <1>1, OneDraws DEF OneAtWork, Drawing, ConsoleInv, CursorInv
<1>4. ~Halfway'
  <2>1. \E next \in {"idle", "save y", "set x", "set y", "restore y", "print xy"} :
          Goto(next)
    BY DEF SaveX, SaveY, SetX, SetY, RestoreX, RestoreY, XyStep
  <2>2. call'[Running].pc \notin Drawing
    <3>1. PICK next \in {"idle", "save y", "set x", "set y", "restore y",
                         "print xy"} : Goto(next)
      BY <2>1
    <3>2. call'[Running].pc = next
      <4>1. ControlInv /\ next \in Outside /\ current' = current
        BY DEF ConsoleInv, Outside, SaveX, SaveY, SetX, SetY, RestoreX, RestoreY,
           XyStep
      <4> QED BY <3>1, <4>1, GotoKeeps
    <3> QED BY <3>2 DEF Drawing
  <2>3. OneAtWork'
    BY OneDraws, PTL
  <2> QED BY <2>2, <2>3 DEF OneAtWork
<1>5. xy[current] \in XyType /\ xy \in [Threads -> XyType]
  BY <1>2 DEF ConsoleInv, CursorInv
<1>6. xpos \in Columns /\ ypos \in Rows /\ 0 \in Rows
  BY <1>3, Sizes DEF OnScreen, Rows
<1>7. Positions \subseteq [x : Columns, y : Rows]
  BY ConsoleAssumption DEF Columns, Rows
<1>8. CASE SaveX
  <2>1. PICK p \in Positions :
          xy' = [xy EXCEPT ![current] = [x |-> xpos, y |-> 0, to |-> p]]
    BY <1>8 DEF SaveX
  <2>2. [x |-> xpos, y |-> 0, to |-> p] \in XyType
    BY <1>6, <1>7 DEF XyType
  <2>3. xy' \in [Threads -> XyType]
    BY <1>2, <1>5, <2>1, <2>2
  <2>4. xpos' = xpos /\ ypos' = ypos
    BY <1>8 DEF SaveX
  <2> QED BY <1>1, <1>3, <1>4, <2>3, <2>4, MoveStep DEF OnScreen
<1>9. CASE SaveY
  <2>1. /\ xy' = [xy EXCEPT ![current] = [xy[current] EXCEPT !.y = ypos]]
        /\ xpos' = xpos /\ ypos' = ypos
    BY <1>9 DEF SaveY
  <2>2. [xy[current] EXCEPT !.y = ypos] \in XyType
    BY <1>5, <1>6 DEF XyType
  <2>3. xy' \in [Threads -> XyType]
    BY <1>2, <1>5, <2>1, <2>2
  <2> QED BY <1>1, <1>3, <1>4, <2>1, <2>3, MoveStep DEF OnScreen
<1>10. CASE SetX \/ SetY \/ RestoreX
  <2>1. /\ xy' = xy
        /\ \/ ypos' = ypos /\ xpos' \in {xy[current].to.x, xy[current].x}
           \/ xpos' = xpos /\ ypos' = xy[current].to.y
    BY <1>10 DEF SetX, SetY, RestoreX
  <2>2. OnScreen' /\ (xpos' = xpos \/ ypos' = ypos)
    BY <1>5, <1>6, <2>1 DEF OnScreen, XyType
  <2> QED BY <1>1, <1>3, <1>4, <1>5, <2>1, <2>2, MoveStep
<1>11. CASE RestoreY
  <2>1. /\ xy' = [xy EXCEPT ![current] = NoXy]
        /\ xpos' = xpos /\ ypos' = xy[current].y
    BY <1>11 DEF RestoreY
  <2>2. NoXy \in XyType
    BY <1>6, Sizes DEF NoXy, XyType, Columns
  <2>3. xy' \in [Threads -> XyType]
    BY <1>2, <1>5, <2>1, <2>2
  <2>4. OnScreen' /\ (xpos' = xpos \/ ypos' = ypos)
    BY <1>5, <1>6, <2>1 DEF OnScreen, XyType
  <2> QED BY <1>1, <1>3, <1>4, <2>3, <2>4, MoveStep
<1> QED BY <1>8, <1>9, <1>10, <1>11

(* What a step to another place within a character leaves alone.           *)
LEMMA DrawGoto ==
  ASSUME ControlInv, NEW place \in Drawing \cup {"end"}, Goto(place),
         current' = current, Running' = Running
  PROVE  /\ call'[Running'].pc = place
         /\ call'[Running'].char = call[Running].char
BY GotoKeeps DEF Drawing, Printing, Work

LEMMA BeginScreen ==
  ASSUME ConsoleInv, ControlInv', Running' = Running, Note \/ Keep
  PROVE  CursorInv' /\ ScreenInv' /\ TerminalStep
<1>1. /\ call[Running].pc \in {"note", "keep"} /\ Goto("erase")
      /\ shown' = [cells |-> console_buffer, cursor |-> Index(xpos, ypos)]
      /\ UNCHANGED <<xpos, ypos, console_buffer, current, xy>>
  BY DEF Note, Keep, Begin, At, Unchanged, screen
<1>2. call'[Running'].pc = "erase"
  BY <1>1, DrawGoto DEF ConsoleInv, Drawing
<1>3. OnScreen /\ ~Halfway
  BY <1>1, OneDraws DEF ConsoleInv, CursorInv, OneAtWork, Drawing
<1>4. Halfway'
  <2>1. OneAtWork'
    BY OneDraws, PTL
  <2> QED BY <1>2, <2>1 DEF OneAtWork, Drawing
<1>5. CursorInv'
  BY <1>1, <1>2, <1>3 DEF ConsoleInv, CursorInv, OnScreen
<1>6. Index(xpos, ypos) \in Places
  BY <1>3, IndexOnScreen DEF OnScreen, Columns, Rows
<1>7. shown'.cells = console_buffer /\ shown'.cursor = Index(xpos, ypos)
  BY <1>1
<1>8. Index(xpos, ypos)' = Index(xpos, ypos)
  BY <1>1
<1>9. ScreenInv'
  <2>1. DrawInv("erase")'
    BY <1>1, <1>6, <1>7, <1>8 DEF ConsoleInv, ScreenInv, DrawInv
  <2> QED BY <1>1, <1>2, <2>1 DEF ConsoleInv, ScreenInv
<1>10. UNCHANGED <<ShownCells, ShownCursor>>
  BY <1>3, <1>4, <1>7, <1>1 DEF ShownCells, ShownCursor
<1> QED BY <1>5, <1>9, <1>10 DEF TerminalStep

(* Within a character the terminal does not move. *)
LEMMA DrawStep ==
  ASSUME ConsoleInv, ControlInv', Running' = Running, UNCHANGED <<current, xy, shown>>,
         NEW place \in Drawing, NEW next \in Drawing, At(place), Goto(next),
         DrawInv(next)', console_buffer' \in [Places -> CellType],
         IF next = "bounds" THEN xpos' \in -1 .. xsize /\ ypos' \in -2 .. ysize
         ELSE OnScreen'
  PROVE  CursorInv' /\ ScreenInv' /\ TerminalStep
<1>1. call'[Running'].pc = next
  BY DrawGoto DEF ConsoleInv
<1>2. Halfway
  BY OneDraws DEF OneAtWork, At, ConsoleInv
<1>3. Halfway'
  <2>1. OneAtWork'
    BY OneDraws, PTL
  <2> QED BY <1>1, <2>1 DEF OneAtWork
<1>4. CursorInv'
  BY <1>1 DEF ConsoleInv, CursorInv
<1>5. ScreenInv'
  BY <1>1 DEF ScreenInv
<1>6. UNCHANGED <<ShownCells, ShownCursor>>
  BY <1>2, <1>3 DEF ShownCells, ShownCursor
<1> QED BY <1>4, <1>5, <1>6 DEF TerminalStep

LEMMA EraseScreen ==
  ASSUME ConsoleInv, ControlInv', Running' = Running, Erase
  PROVE  CursorInv' /\ ScreenInv' /\ TerminalStep
<1>1. /\ call[Running].pc = "erase" /\ Goto("place")
      /\ console_buffer' = [console_buffer EXCEPT ![Index(xpos, ypos)] = Blank]
      /\ UNCHANGED <<xpos, ypos, shown, current, xy>>
  BY DEF Erase, At, Unchanged, Written
<1>2. /\ DrawInv("erase") /\ OnScreen
      /\ console_buffer \in [Places -> CellType]
  BY <1>1 DEF ConsoleInv, ScreenInv, CursorInv, Drawing
<1>3. console_buffer' \in [Places -> CellType]
  BY <1>1, <1>2 DEF CellType
<1>4. DrawInv("place")'
  <2>1. Index(xpos, ypos)' = Index(xpos, ypos)
    BY <1>1
  <2> QED BY <1>1, <1>2, <2>1 DEF DrawInv
<1>5. OnScreen'
  BY <1>1, <1>2 DEF OnScreen
<1> QED BY <1>1, <1>3, <1>4, <1>5, DrawStep DEF At, Drawing

LEMMA PlaceScreen ==
  ASSUME ConsoleInv, ControlInv', Running' = Running, Place
  PROVE  CursorInv' /\ ScreenInv' /\ TerminalStep
<1> DEFINE c == call[Running].char
<1>1. /\ call[Running].pc = "place" /\ Goto("bounds")
      /\ xpos' = CASE c = "newline" -> 0
                   [] c \in {"ff", "bs"} -> xpos - 1
                   [] c = "up" -> xpos
                   [] OTHER -> xpos + 1
      /\ ypos' = CASE c \in {"newline", "ff"} -> ypos + 1
                   [] c = "up" -> ypos - 2
                   [] OTHER -> ypos
      /\ console_buffer' = IF c \in Controls THEN console_buffer
                           ELSE [console_buffer EXCEPT ![Index(xpos, ypos)] = c]
      /\ UNCHANGED <<shown, current, xy>>
  BY DEF Place, At, Unchanged, Written
<1>2. /\ DrawInv("place") /\ xpos \in Columns /\ ypos \in Rows
      /\ console_buffer \in [Places -> CellType]
  BY <1>1 DEF ConsoleInv, ScreenInv, CursorInv, Drawing, OnScreen
<1>3. c \in Chars /\ c \in CellType /\ call'[Running'].char = c
  <2>1. c \in Chars
    BY <1>1, ActorTypes
    DEF ConsoleInv, ControlInv, CallsInv, Printing, Work
  <2> QED BY <1>1, <2>1, DrawGoto DEF ConsoleInv, Drawing, CellType
<1> HIDE DEF c
<1>4. console_buffer' \in [Places -> CellType]
  BY <1>1, <1>2, <1>3
<1>5. xpos' \in -1 .. xsize /\ ypos' \in -2 .. ysize
  BY <1>1, <1>2, Sizes DEF Columns, Rows
<1>6. console_buffer' = [shown.cells EXCEPT ![shown.cursor] =
                           IF c \in Controls THEN Blank ELSE c]
  <2>1. /\ shown.cells \in [Places -> CellType] /\ shown.cursor \in Places
        /\ shown.cursor = Index(xpos, ypos)
        /\ console_buffer = [shown.cells EXCEPT ![shown.cursor] = Blank]
    BY <1>2 DEF DrawInv
  <2>2. CASE c \in Controls
    BY <1>1, <2>1, <2>2
  <2>3. CASE c \notin Controls
    BY <1>1, <2>1, <2>3
  <2> QED BY <2>2, <2>3
<1>7. Index(xpos', ypos') = Screen!Moved(c, shown.cursor)
  <2>1. shown.cursor = xpos + ypos * xsize /\ shown.cursor % xsize = xpos
    BY <1>2, IndexParts DEF DrawInv, Index, Columns, Rows
  <2>2. PICK X \in Nat, i \in Nat, j \in Nat : X = xsize /\ i = xpos /\ j = ypos
    BY <1>2, Sizes DEF Columns, Rows
  <2>3. CASE c \notin Controls
    <3>1. c \notin {"newline", "ff", "up", "bs"} /\ c \in Chars \ Controls
      BY <1>3, <2>3 DEF Controls
    <3>2. xpos' = i + 1 /\ ypos' = j
      BY <1>1, <2>2, <3>1
    <3>3. Screen!Moved(c, shown.cursor) = shown.cursor + 1
      BY <3>1 DEF Screen!Moved
    <3> QED BY <2>1, <2>2, <3>2, <3>3 DEF Index
  <2>4. CASE c = "newline"
    <3>1. xpos' = 0 /\ ypos' = j + 1
      BY <1>1, <2>2, <2>4
    <3>2. Screen!Moved(c, shown.cursor) = shown.cursor + X - i
      BY <2>1, <2>2, <2>4 DEF Screen!Moved, Controls
    <3> QED BY <2>1, <2>2, <3>1, <3>2 DEF Index
  <2>5. CASE c = "ff"
    <3>1. xpos' = i - 1 /\ ypos' = j + 1
      BY <1>1, <2>2, <2>5
    <3>2. Screen!Moved(c, shown.cursor) = shown.cursor + X - 1
      BY <2>1, <2>2, <2>5 DEF Screen!Moved, Controls
    <3> QED BY <2>1, <2>2, <3>1, <3>2 DEF Index
  <2>6. CASE c = "up"
    <3>1. xpos' = i /\ ypos' = j - 2
      BY <1>1, <2>2, <2>6
    <3>2. Screen!Moved(c, shown.cursor) = shown.cursor - 2 * X
      BY <2>1, <2>2, <2>6 DEF Screen!Moved, Controls
    <3> QED BY <2>1, <2>2, <3>1, <3>2 DEF Index
  <2>7. CASE c = "bs"
    <3>1. xpos' = i - 1 /\ ypos' = j
      BY <1>1, <2>2, <2>7
    <3>2. Screen!Moved(c, shown.cursor) = shown.cursor - 1
      BY <2>1, <2>2, <2>7 DEF Screen!Moved, Controls
    <3> QED BY <2>1, <2>2, <3>1, <3>2 DEF Index
  <2> QED BY <2>3, <2>4, <2>5, <2>6, <2>7 DEF Controls
<1>8. DrawInv("bounds")'
  <2>1. shown' = shown /\ call'[Running'].char = c
    BY <1>1, <1>3
  <2>2. Left' = console_buffer'
    BY <1>6, <2>1 DEF Left
  <2>3. To' = Index(xpos', ypos')
    BY <1>7, <2>1 DEF To
  <2>4. Index(xpos, ypos)' = Index(xpos', ypos')
    OBVIOUS
  <2> QED BY <1>2, <2>1, <2>2, <2>3, <2>4 DEF DrawInv
<1> QED BY <1>1, <1>4, <1>5, <1>8, DrawStep DEF At, Drawing

(* The corrections bring a place that is on the screen, or below it, to    *)
(* its row and column, and one that is above the screen to the first.      *)
LEMMA WrappedPlace ==
  ASSUME NEW x \in -1 .. xsize, NEW y \in -2 .. ysize
  PROVE  /\ Wrapped(x, y).x \in Columns /\ Wrapped(x, y).y \in Nat
         /\ Wrapped(x, y).y >= ysize <=> Index(x, y) >= xsize * ysize
         /\ Index(Wrapped(x, y).x, Wrapped(x, y).y) =
              IF Index(x, y) < 0 THEN 0 ELSE Index(x, y)
<1>1. PICK X \in Nat \ {0}, Y \in Nat \ {0} : X = xsize /\ Y = ysize
  BY Sizes
<1> DEFINE left == IF x < 0 THEN [x |-> xsize - 1, y |-> y - 1]
                   ELSE [x |-> x, y |-> y]
           right == IF left.x >= xsize THEN [x |-> 0, y |-> left.y + 1] ELSE left
<1>2. PICK i \in 0 .. X - 1, j \in Int : right = [x |-> i, y |-> j]
                                         /\ i + j * X = x + y * X
  <2>1. CASE x = -1
    <3>1. left = [x |-> X - 1, y |-> y - 1]
      BY <1>1, <2>1
    <3>2. right = [x |-> X - 1, y |-> y - 1]
      BY <1>1, <3>1
    <3>3. (X - 1) + (y - 1) * X = x + y * X
      BY <1>1, <2>1
    <3> QED BY <1>1, <3>2, <3>3
  <2>2. CASE x = X
    <3>1. left = [x |-> X, y |-> y]
      BY <1>1, <2>2
    <3>2. right = [x |-> 0, y |-> y + 1]
      BY <1>1, <3>1
    <3>3. 0 + (y + 1) * X = x + y * X
      BY <1>1, <2>2
    <3> QED BY <1>1, <3>2, <3>3
  <2>3. CASE x \in 0 .. X - 1
    BY <1>1, <2>3
  <2> QED BY <1>1, <2>1, <2>2, <2>3
<1>3. Wrapped(x, y) = IF j < 0 THEN [x |-> 0, y |-> 0] ELSE [x |-> i, y |-> j]
  <2>1. Wrapped(x, y) = IF right.y < 0 THEN [x |-> 0, y |-> 0] ELSE right
    BY DEF Wrapped
  <2> HIDE DEF right
  <2> QED BY <1>2, <2>1
<1>4. Index(x, y) = i + j * X
  BY <1>1, <1>2 DEF Index
<1>5. CASE j < 0
  <2>1. i + j * X < 0
    BY <1>5
  <2>2. X * Y >= 0 /\ i + j * X \in Int
    OBVIOUS
  <2>3. Wrapped(x, y).x = 0 /\ Wrapped(x, y).y = 0
    BY <1>3, <1>5
  <2>4. ~(Index(x, y) >= xsize * ysize)
    BY <1>1, <1>4, <2>1, <2>2
  <2> QED BY <1>1, <1>4, <2>1, <2>3, <2>4 DEF Index, Columns
<1>6. CASE j >= 0
  <2>1. i + j * X >= 0
    BY <1>6
  <2>2. j >= Y <=> i + j * X >= X * Y
    <3>1. j >= Y => j * X >= Y * X
      OBVIOUS
    <3>2. ~(j >= Y) => j * X <= (Y - 1) * X
      OBVIOUS
    <3> QED BY <3>1, <3>2
  <2>3. Wrapped(x, y).x = i /\ Wrapped(x, y).y = j
    BY <1>3, <1>6
  <2> QED BY <1>1, <1>4, <1>6, <2>1, <2>2, <2>3 DEF Index, Columns
<1> QED BY <1>5, <1>6

LEMMA BoundsScreen ==
  ASSUME ConsoleInv, ControlInv', Running' = Running, Bounds
  PROVE  CursorInv' /\ ScreenInv' /\ TerminalStep
<1> DEFINE at == Wrapped(xpos, ypos)
           last == xsize * ysize
<1>1. /\ call[Running].pc = "bounds" /\ Goto("mark")
      /\ IF at.y >= ysize
         THEN /\ xpos' = 0 /\ ypos' = ysize - 1
              /\ console_buffer' = UpOneRow(console_buffer)
         ELSE /\ xpos' = at.x /\ ypos' = at.y
              /\ UNCHANGED console_buffer
      /\ UNCHANGED <<shown, current, xy>>
  BY DEF Bounds, At, Unchanged, TooLow
<1>2. /\ DrawInv("bounds") /\ xpos \in -1 .. xsize /\ ypos \in -2 .. ysize
      /\ console_buffer \in [Places -> CellType]
  BY <1>1 DEF ConsoleInv, ScreenInv, CursorInv, Drawing
<1>3. To = Index(xpos, ypos) /\ console_buffer = Left /\ To \in Int
  BY <1>2, Sizes DEF DrawInv, Index
<1>4. /\ at.x \in Columns /\ at.y \in Nat
      /\ at.y >= ysize <=> To >= last
      /\ Index(at.x, at.y) = IF To < 0 THEN 0 ELSE To
  BY <1>2, <1>3, WrappedPlace
<1>5. last \in Int /\ last > 0 /\ Index(0, ysize - 1) = last - xsize
  BY Sizes DEF Index
<1> HIDE DEF at, last
<1>6. call'[Running'].char = call[Running].char
  BY <1>1, DrawGoto DEF ConsoleInv, Drawing
<1>7. Left' = Left /\ To' = To
  BY <1>1, <1>6 DEF Left, To
<1>8. CASE To >= last
  <2>1. /\ xpos' = 0 /\ ypos' = ysize - 1
        /\ console_buffer' = UpOneRow(console_buffer)
    BY <1>1, <1>4, <1>8
  <2>2. UpOneRow(console_buffer) = Screen!ScrolledUp(console_buffer)
    <3>1. Screen!Places = Places /\ Screen!Blank = Blank
      BY DEF Screen!Places, Screen!Size, Places, Screen!Blank, Blank
    <3>2. \A p \in Places : p < Index(0, ysize - 1) <=> p + xsize \in Places
      BY <1>5, Sizes DEF Places, last
    <3> QED BY <3>1, <3>2 DEF UpOneRow, Screen!ScrolledUp
  <2>3. UpOneRow(console_buffer) \in [Places -> CellType]
    <3>1. \A p \in Places : p < Index(0, ysize - 1) => p + xsize \in Places
      BY <1>5, Sizes DEF Places, last
    <3> QED BY <1>2, <3>1 DEF UpOneRow, CellType
  <2>4. OnScreen'
    BY <2>1, Sizes DEF OnScreen, Columns, Rows
  <2>5. Index(xpos', ypos') = last - xsize
    BY <1>5, <2>1
  <2>6. DrawInv("mark")'
    <3>1. ~(To < 0) /\ ~(To < last)
      BY <1>3, <1>5, <1>8
    <3>2. Index(xpos, ypos)' = IF To < 0 THEN 0
                               ELSE IF To < last THEN To ELSE last - xsize
      BY <2>5, <3>1 DEF Index
    <3>3. console_buffer' = IF To < last THEN Left ELSE Screen!ScrolledUp(Left)
      BY <1>3, <2>1, <2>2, <3>1
    <3>4. shown' = shown /\ Screen!ScrolledUp(Left)' = Screen!ScrolledUp(Left)
      BY <1>1, <1>7 DEF Screen!ScrolledUp
    <3> QED BY <1>2, <1>7, <3>2, <3>3, <3>4 DEF DrawInv, last
  <2> QED BY <1>1, <2>1, <2>3, <2>4, <2>6, DrawStep DEF At, Drawing
<1>9. CASE To < last
  <2>1. xpos' = at.x /\ ypos' = at.y /\ UNCHANGED console_buffer /\ at.y < ysize
    BY <1>1, <1>3, <1>4, <1>5, <1>9, Sizes
  <2>2. OnScreen'
    BY <1>4, <2>1, Sizes DEF OnScreen, Rows
  <2>3. DrawInv("mark")'
    <3>1. Index(xpos, ypos)' = IF To < 0 THEN 0
                               ELSE IF To < last THEN To ELSE last - xsize
      BY <1>4, <1>9, <2>1 DEF Index
    <3>2. console_buffer' = IF To < last THEN Left ELSE Screen!ScrolledUp(Left)
      BY <1>3, <1>9, <2>1
    <3>3. shown' = shown /\ Screen!ScrolledUp(Left)' = Screen!ScrolledUp(Left)
      BY <1>1, <1>7 DEF Screen!ScrolledUp
    <3> QED BY <1>2, <1>7, <3>1, <3>2, <3>3 DEF DrawInv, last
  <2> QED BY <1>1, <1>2, <2>1, <2>2, <2>3, DrawStep DEF At, Drawing
<1> QED BY <1>3, <1>5, <1>8, <1>9

(* The mark is the last of a character: now the terminal shows it.         *)
LEMMA MarkScreen ==
  ASSUME ConsoleInv, ControlInv', Running' = Running, WriteMark
  PROVE  CursorInv' /\ ScreenInv' /\ TerminalStep
<1>1. /\ call[Running].pc = "mark" /\ Goto("end")
      /\ console_buffer' = [console_buffer EXCEPT ![Index(xpos, ypos)] = Mark]
      /\ UNCHANGED <<xpos, ypos, shown, current, xy>>
  BY DEF WriteMark, At, Unchanged, Written
<1>2. /\ DrawInv("mark") /\ OnScreen /\ console_buffer \in [Places -> CellType]
  BY <1>1 DEF ConsoleInv, ScreenInv, CursorInv, Drawing
<1>3. call'[Running'].pc = "end"
  BY <1>1, DrawGoto DEF ConsoleInv
<1>4. CursorInv'
  BY <1>1, <1>2, <1>3 DEF ConsoleInv, CursorInv, OnScreen
<1>5. console_buffer' \in [Places -> CellType]
  BY <1>1, <1>2 DEF CellType
<1>6. ScreenInv'
  BY <1>3, <1>5 DEF ScreenInv, Drawing
<1>7. Halfway
  BY <1>1, OneDraws DEF OneAtWork, Drawing, ConsoleInv
<1>8. ~Halfway'
  <2>1. OneAtWork'
    BY OneDraws, PTL
  <2> QED BY <1>3, <2>1 DEF OneAtWork, Drawing
<1> DEFINE c == call[Running].char
<1>9. c \in Chars /\ c \in (Chars \ Controls) \cup Controls
  BY <1>1, ActorTypes DEF ConsoleInv, ControlInv, CallsInv, Printing, Work
<1>10. Screen!Put(c)
  <2> DEFINE cells0 == IF Halfway THEN shown.cells ELSE console_buffer
             cursor0 == IF Halfway THEN shown.cursor ELSE Index(xpos, ypos)
             left == [cells0 EXCEPT ![cursor0] =
                        IF c \in Chars \ Controls THEN c ELSE Screen!Blank]
             to == Screen!Moved(c, cursor0)
  <2>1. cells0 = shown.cells /\ cursor0 = shown.cursor
    BY <1>7
  <2>2. cells0' = console_buffer' /\ cursor0' = Index(xpos, ypos)
    BY <1>1, <1>8 DEF Index
  <2>3. to = To
    BY <2>1 DEF To
  <2>4. left = Left
    BY <1>9, <2>1 DEF Left, Screen!Blank, Blank
  <2> HIDE DEF left, to
  <2>5. Screen!Size = xsize * ysize
    BY DEF Screen!Size
  <2>6. cursor0' = IF to < 0 THEN 0
                   ELSE IF to < Screen!Size THEN to ELSE Screen!Size - xsize
    BY <1>2, <2>2, <2>3, <2>5 DEF DrawInv
  <2>7. cells0' = [(IF to < Screen!Size THEN left ELSE Screen!ScrolledUp(left))
                     EXCEPT ![cursor0'] = Screen!Mark]
    BY <1>1, <1>2, <2>2, <2>3, <2>4, <2>5 DEF DrawInv, Screen!Mark, Mark
  <2> QED BY <2>6, <2>7 DEF Screen!Put, left, to
<1>11. Screen!Next
  BY <1>9, <1>10 DEF Screen!Next
<1> QED BY <1>4, <1>6, <1>11 DEF TerminalStep

(* Steps that neither draw nor move the cursor. *)
LEMMA StillHalfway ==
  ASSUME ConsoleInv, NEW place, place \notin Drawing,
         call'[Running].pc = place,
         \A a \in Actors : a # Running => call'[a] = call[a],
         ~Halfway
  PROVE  ~Halfway'
BY DEF Halfway, Drawing

LEMMA QuietScreen ==
  ASSUME ConsoleInv, ControlInv',
         \/ CheckInterrupts \/ Block \/ End \/ printf \/ PrintChar("print xy")
         \/ KeyboardInterrupt \/ Return \/ Switch
  PROVE  CursorInv' /\ ScreenInv' /\ TerminalStep
<1>1. UNCHANGED <<screen, xy>>
  BY DEF CheckInterrupts, Block, End, printf, PrintChar, KeyboardInterrupt,
     Return, Switch, Unchanged
<1>2. call \in [Actors -> CallType] /\ Running \in Actors
  BY ActorTypes DEF ConsoleInv, ControlInv, CallsInv
<1>3. CASE CheckInterrupts \/ Block \/ End \/ Return
  <2>1. ~Halfway
    BY <1>3, OneDraws
    DEF CheckInterrupts, Block, End, Return, At, OneAtWork, Drawing, ConsoleInv
  <2>2. PICK place \in {"block", "keep", "note", "idle", "print xy", "return"} :
          /\ call'[Running].pc = place
          /\ \A a \in Actors : a # Running => call'[a] = call[a]
    <3>1. CASE CheckInterrupts \/ Block \/ Return
      BY <1>2, <3>1, ZenonT(60) DEF CheckInterrupts, Block, Return, Goto, CallType
    <3>2. CASE End
      <4> DEFINE back == call[Running].back
      <4>1. call' = [call EXCEPT ![Running] =
                       [pc |-> back, char |-> Blank, back |-> "idle"]]
        BY <3>2 DEF End, CallAt
      <4>2. back \in {"idle", "print xy", "return"}
        BY <1>2 DEF CallType, Backs
      <4> HIDE DEF back
      <4>3. /\ call'[Running].pc = back
            /\ \A a \in Actors : a # Running => call'[a] = call[a]
        BY <1>2, <4>1
      <4> QED BY <4>2, <4>3
    <3> QED BY <1>3, <3>1, <3>2
  <2>3. place \notin Drawing
    BY DEF Drawing
  <2>4. ~Halfway'
    BY <2>1, <2>2, <2>3, StillHalfway
  <2> QED BY <1>1, <2>1, <2>4, QuietStep
<1>4. CASE printf \/ PrintChar("print xy")
  <2>1. PICK place \in {"idle", "print xy"} : PrintChar(place)
    BY <1>4 DEF printf
  <2>2. PICK c \in Printed :
          /\ call[Running].pc = place
          /\ call' = [call EXCEPT ![Running] =
                        [pc |-> "check", char |-> c, back |-> place]]
    BY <2>1 DEF PrintChar, At
  <2>3. ~Halfway
    BY <2>2, OneDraws DEF OneAtWork, Drawing, ConsoleInv
  <2>4. /\ call'[Running].pc = "check"
        /\ \A a \in Actors : a # Running => call'[a] = call[a]
    BY <1>2, <2>2
  <2>5. ~Halfway'
    BY <2>3, <2>4, StillHalfway DEF Drawing
  <2> QED BY <1>1, <2>3, <2>5, QuietStep
<1>5. CASE KeyboardInterrupt \/ Switch
  <2>1. interrupts = TRUE
    BY <1>5 DEF KeyboardInterrupt, Switch, ConsoleInv, ControlInv, FlagInv
  <2>2. ~HandlerBusy /\ Running = current /\ ~InPutchar(current)
    BY <2>1, ActorTypes DEF ConsoleInv, ControlInv, FlagInv
  <2>3. ~Halfway
    BY <2>2, OneDraws DEF OneAtWork, Drawing, InPutchar, ConsoleInv
  <2>4. \A a \in Actors : call'[a].pc = "check" \/ call'[a] = call[a]
    <3>1. CASE Switch
      BY <3>1 DEF Switch
    <3>2. CASE KeyboardInterrupt
      <4>1. PICK start : /\ start.pc = "check"
                         /\ \/ call' = call
                            \/ call' = [call EXCEPT !["keyboard"] = start]
        <5>1. PICK key : \/ call' = call
                         \/ call' = [call EXCEPT !["keyboard"] =
                              [pc |-> "check", char |-> key, back |-> "return"]]
          BY <3>2 DEF KeyboardInterrupt
        <5>2. [pc |-> "check", char |-> key, back |-> "return"].pc = "check"
          OBVIOUS
        <5> QED BY <5>1, <5>2
      <4> QED BY <1>2, <4>1
    <3> QED BY <1>5, <3>1, <3>2
  <2>5. ~Halfway'
    BY <2>3, <2>4 DEF Halfway
  <2> QED BY <1>1, <2>3, <2>5, QuietStep
<1> QED BY <1>3, <1>4, <1>5

LEMMA ConsoleStep ==
  ConsoleInv /\ [Next]_vars => ConsoleInv' /\ TerminalStep
<1> SUFFICES ASSUME ConsoleInv, [Next]_vars PROVE ConsoleInv' /\ TerminalStep
  OBVIOUS
<1>1. ControlInv /\ ControlInv'
  BY ControlStep DEF ConsoleInv
<1>2. CASE UNCHANGED vars
  <2>1. CursorInv'
    BY <1>2 DEF vars, screen, ConsoleInv, CursorInv, OnScreen, Running
  <2>2. ScreenInv'
    <3>1. UNCHANGED <<xpos, ypos, console_buffer, shown, call, Running>>
      BY <1>2 DEF vars, screen, Running
    <3>2. UNCHANGED <<Left, To>>
      BY <3>1 DEF Left, To, Screen!Moved
    <3>3. \A place : DrawInv(place)' = DrawInv(place)
      BY <3>1, <3>2 DEF DrawInv, Index, Screen!ScrolledUp
    <3> QED BY <3>1, <3>3 DEF ConsoleInv, ScreenInv
  <2>3. TerminalStep
    BY <1>2 DEF vars, screen, TerminalStep, ShownCells, ShownCursor, Halfway, Index
  <2> QED BY <1>1, <2>1, <2>2, <2>3 DEF ConsoleInv
<1>3. CASE CheckInterrupts \/ Block \/ End \/ printf \/ PrintChar("print xy")
           \/ KeyboardInterrupt \/ Return \/ Switch
  BY <1>1, <1>3, QuietScreen DEF ConsoleInv
<1>4. CASE SaveX \/ SaveY \/ SetX \/ SetY \/ RestoreX \/ RestoreY
  <2>1. Running' = Running
    BY <1>1, <1>4, XyControl DEF printf_xy
  <2> QED BY <1>1, <1>4, <2>1, XyScreen DEF ConsoleInv
<1>5. CASE Note \/ Keep
  BY <1>1, <1>5, NoteControl, BeginScreen DEF ConsoleInv
<1>6. CASE Erase \/ Place \/ Bounds \/ WriteMark
  <2>1. Running' = Running
    BY <1>1, <1>6, WorkKeeps DEF Erase, Place, Bounds, WriteMark, Unchanged, Work
  <2> QED BY <1>1, <1>6, <2>1, EraseScreen, PlaceScreen, BoundsScreen, MarkScreen
          DEF ConsoleInv
<1> QED BY <1>2, <1>3, <1>4, <1>5, <1>6 DEF Next, putchar, printf_xy

(* The inductive invariant of the console: who is inside console_putchar,  *)
(* what ints is worth, where the cursor is and how far a character is.     *)
THEOREM ConsoleSafe == Spec => []ConsoleInv
<1>1. Init => ConsoleInv
  BY ControlInit, ScreenInit DEF ConsoleInv
<1> QED BY <1>1, ConsoleStep, PTL DEF Spec

(* Between two characters the cursor is on the screen, wherever it has     *)
(* been moved and whoever was interrupted (console_putchar, printf_xy).    *)
THEOREM CursorStaysOnScreen == Spec => []CursorOnScreen
<1>1. ConsoleInv => CursorOnScreen
  <2> SUFFICES ASSUME ConsoleInv, ~Halfway PROVE OnScreen
    BY DEF CursorOnScreen, OnScreen, Columns, Rows
  <2> QED BY OneDraws DEF OneAtWork, Drawing, ConsoleInv, CursorInv
<1> QED BY ConsoleSafe, <1>1, PTL

(* What is on the screen is as if each character had been put there in one *)
(* step, by threads and the keyboard in some order (console_putchar).      *)
THEOREM TerminalImplemented == Spec => ImplementsTerminal
<1>1. Init => Screen!Init
  <2> SUFFICES ASSUME Init PROVE Screen!Init
    OBVIOUS
  <2>1. ~Halfway
    BY DEF Init, Halfway, CallAt, Actors
  <2>2. xpos = 0 /\ ypos = 0 /\ console_buffer = [p \in Places |-> Blank]
    BY DEF Init
  <2>3. Index(xpos, ypos) = 0
    BY <2>2, Sizes DEF Index
  <2>4. Screen!Places = Places /\ Screen!Blank = Blank
    BY DEF Screen!Places, Screen!Size, Places, Screen!Blank, Blank
  <2> QED BY <2>1, <2>2, <2>3, <2>4 DEF Screen!Init
<1>2. ConsoleInv /\ [Next]_vars => TerminalStep
  BY ConsoleStep
<1> QED BY <1>1, <1>2, ConsoleSafe, PTL
        DEF Spec, ImplementsTerminal, Screen!Spec, TerminalStep, ShownCells,
            ShownCursor

=============================================================================
