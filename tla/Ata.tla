-------------------------------- MODULE Ata --------------------------------
(***************************************************************************)
(* The ATA driver of ata.c, and those who use it to find the drives (fs.c) *)
(* or to look at a partition (fat16.c).  One thread calls it.  A wait for  *)
(* a drive is one step here, together with what the caller does up to the  *)
(* next wait; what ata_wait does within the step is the module AtaWait.    *)
(* The drives work beside the thread, and may be late, or fail.            *)
(***************************************************************************)
EXTENDS Integers, Sequences

CONSTANTS
  ATA_ATAPI_DEVICE_COUNT,
  Equipment,      \* what may be attached: functions from Drives to kinds
  NumBlocks,      \* of each drive
  CountRange,     \* of the register for the number of blocks
  Counts, Offsets,  \* what is asked for
  MaxCalls        \* bound on the number of calls

VARIABLES
  kind,           \* what each drive is
  select,         \* the drive that each channel has selected
  drive,          \* what each drive does
  medium,         \* the blocks of each drive
  call,           \* the call in progress
  buffer,         \* the blocks that were read
  devices,        \* the table of fs.c
  probed,         \* history: how the last look at a drive went
  calls,          \* how many there were
  stored, refused, answer   \* history: for BlockDevice

history == <<probed, stored, refused, answer>>
vars == <<kind, select, drive, medium, call, buffer, devices, calls, history>>

Drives == 0 .. ATA_ATAPI_DEVICE_COUNT - 1
Channels == {d \div 2 : d \in Drives}
Blocks == 0 .. NumBlocks - 1

ASSUME AtaAssumption ==
  /\ ATA_ATAPI_DEVICE_COUNT \in Nat \ {0}
  /\ Equipment \subseteq [Drives -> {"none", "ata", "atapi"}]
  /\ NumBlocks \in Nat \ {0} /\ CountRange \in Nat \ {0}
  /\ Counts \subseteq Nat \ {0} /\ Offsets \subseteq Nat
  /\ MaxCalls \in Nat

(* What is on a drive at first, and what the calls write.                  *)
Old(d, b) == <<"old", d, b>>
New(c, k) == <<"new", c, k>>

NoCall == [fun |-> "none", pc |-> "idle", command |-> "none", id |-> 0,
           nblocks |-> 0, offset |-> 0, i |-> 0]
NoAnswer == [ok |-> FALSE, data |-> <<>>]
NoDevice == [present |-> FALSE, blocksize |-> 0, type |-> "ATAPI_CDROM"]

NoBlock == <<>>
Resting(op) == [op |-> op, busy |-> FALSE, lba |-> 0, left |-> 0, block |-> NoBlock]
Resetting == [Resting("asleep") EXCEPT !.busy = TRUE]

Init ==
  /\ kind \in Equipment
  /\ select = [c \in Channels |-> 0]
  /\ drive = [d \in Drives |-> Resting("idle")]
  /\ medium = [d \in Drives |-> [b \in Blocks |-> Old(d, b)]]
  /\ call = NoCall /\ buffer = <<>> /\ calls = 0
  /\ devices = [d \in Drives |-> NoDevice]
  /\ probed = [d \in Drives |-> "not yet"]
  /\ stored = 0 /\ refused = FALSE /\ answer = NoAnswer

----------------------------------------------------------------------------
(* The drives                                                              *)

(* The channel and the place on it of a number: ata_base, and id%2.        *)
Channel(id) == id \div 2
Mates(id) == {d \in Drives : Channel(d) = Channel(id)}
Selected(id) == 2 * Channel(id) + select[Channel(id)]

Attached(d) == d \in Drives /\ kind[d] # "none"
Floating(id) == \A d \in Mates(id) : ~Attached(d)

AllBits == {"BSY", "RDY", "DRQ", "ERR"}

(* The status register of a drive that is there.  A packet drive does not  *)
(* raise RDY between a reset and its next command.                         *)
StatusOf(d) ==
  IF drive[d].busy THEN {"BSY"}
  ELSE {bit \in AllBits :
          \/ bit = "RDY" /\ (kind[d] = "ata" \/ drive[d].op # "asleep")
          \/ bit = "DRQ" /\ drive[d].op \in {"read", "write", "identify", "packet"}
          \/ bit = "ERR" /\ drive[d].op = "error"}

Status(id) ==
  IF Floating(id) THEN AllBits
  ELSE IF Attached(Selected(id)) THEN StatusOf(Selected(id)) ELSE {}

Accepts(d) == IF kind[d] = "ata" THEN {"read", "write", "identify"}
              ELSE {"atapi identify", "packet"}

(* A drive gets a command.  A count of 0 means the whole range.            *)
Commanded(d, command, count, lba) ==
  IF ~Attached(d) THEN drive
  ELSE [drive EXCEPT ![d] =
          IF command \notin Accepts(d) THEN Resting("error")
          ELSE [op |-> IF command = "atapi identify" THEN "identify" ELSE command,
                busy |-> TRUE, lba |-> lba, block |-> NoBlock,
                left |-> IF count % CountRange = 0 THEN CountRange
                         ELSE count % CountRange]]

(* A block has gone through the data register.                             *)
Transferred(d, block) ==
  CASE drive[d].op = "read" /\ drive[d].left > 1 ->
         [drive[d] EXCEPT !.busy = TRUE, !.lba = @ + 1, !.left = @ - 1]
    [] drive[d].op = "write" -> [drive[d] EXCEPT !.op = "store", !.busy = TRUE, !.block = block]
    [] OTHER -> Resting("idle")

Hitch(id) ==
  probed' = IF call.fun = "fs_init" THEN [probed EXCEPT ![id] = "hitch"] ELSE probed

(* A busy drive gets ready for the next block, stores one, or fails.       *)
Work ==
  \E d \in Drives :
    /\ Attached(d) /\ drive[d].busy
    /\ \/ /\ drive[d].op \in {"write", "identify", "packet", "asleep"}
          /\ drive' = [drive EXCEPT ![d].busy = FALSE]
          /\ UNCHANGED <<medium, history>>
       \/ /\ drive[d].op = "read" /\ drive[d].lba \in Blocks
          /\ drive' = [drive EXCEPT ![d].busy = FALSE]
          /\ UNCHANGED <<medium, history>>
       \/ /\ drive[d].op = "store" /\ drive[d].lba \in Blocks
          /\ medium' = [medium EXCEPT ![d][drive[d].lba] = drive[d].block]
          /\ drive' = [drive EXCEPT ![d] =
                         IF @.left = 1 THEN Resting("idle")
                         ELSE [op |-> "write", busy |-> FALSE, block |-> NoBlock,
                               lba |-> @.lba + 1, left |-> @.left - 1]]
          /\ stored' = stored + 1
          /\ UNCHANGED <<probed, refused, answer>>
       \/ /\ drive[d].op # "asleep"
          /\ drive' = [drive EXCEPT ![d] = Resting("error")]
          /\ Hitch(d)
          /\ refused' = (refused \/ drive[d].op = "store")
          /\ UNCHANGED <<medium, stored, answer>>
  /\ UNCHANGED <<kind, select, call, buffer, devices, calls>>

----------------------------------------------------------------------------
(* Waits and commands                                                      *)

(* ata_wait looks at the status before anything else: an error that leaves *)
(* the bits as they should be is not seen.                                 *)
Ready(mask, state) == Status(call.id) \cap mask = state

(* ata_reset resets both drives of the channel.                            *)
ata_reset(id) ==
  /\ drive' = [d \in Drives |-> IF d \in Mates(id) THEN Resetting ELSE drive[d]]
  /\ select' = [select EXCEPT ![Channel(id)] = 0]

(* An error, or the time is over.                                          *)
GivenUp(mask, state) ==
  /\ ~Ready(mask, state)
  /\ ata_reset(call.id)
  /\ IF "BSY" \in Status(call.id) THEN Hitch(call.id) ELSE UNCHANGED probed

Pc(pc) == call.pc = pc
Goto(pc) == call' = [call EXCEPT !.pc = pc]

(* The command is sent again, as another: ata_probe after a failure.       *)
Begin(fun, command, id, nblocks, offset) ==
  call' = [fun |-> fun, pc |-> "calm", command |-> command, id |-> id,
           nblocks |-> nblocks, offset |-> offset, i |-> 0]

Identifying == call.command \in {"identify", "atapi identify"}
Probing(id, fun) == call' = [NoCall EXCEPT !.fun = fun, !.pc = "probe", !.id = id]

(* The end of ata_probe and of a turn of the loop around it.  fs_init      *)
(* keeps what was found; a device that is not there keeps what it had.     *)
(* The two types are the wrong way round.                                  *)
Found(blocksize) ==
  [present |-> TRUE, blocksize |-> blocksize,
   type |-> IF blocksize = 2048 THEN "ATA_HDD" ELSE "ATAPI_CDROM"]

Probed(device) ==
  /\ devices' = IF call.fun = "fs_init"
                THEN [devices EXCEPT ![call.id] = device] ELSE devices
  /\ IF call.id + 1 \in Drives THEN Probing(call.id + 1, call.fun)
     ELSE call' = NoCall
  /\ buffer' = <<>>

Missing == Probed([devices[call.id] EXCEPT !.present = FALSE])

----------------------------------------------------------------------------
(* What the callers do with a result                                       *)

Answered(ok) ==
  answer' = [ok |-> ok, data |-> IF call.command = "write" THEN <<>> ELSE buffer']

Return(ok) ==
  /\ ~Identifying
  /\ Answered(ok)
  /\ CASE call.fun = "fat16_format" -> Goto("partition")
       [] call.fun = "boot sector" -> Goto("sizes")
       [] OTHER -> call' = NoCall
  /\ UNCHANGED devices

(* A return with a failure.                                                *)
ReturnFailure ==
  \/ UNCHANGED buffer /\ Return(FALSE)
  \/ /\ call.command = "identify"
     /\ Begin(call.fun, "atapi identify", call.id, 0, 0)
     /\ UNCHANGED <<buffer, devices, answer>>
  \/ call.command = "atapi identify" /\ Missing /\ UNCHANGED answer

FailedWait(mask, state) ==
  /\ GivenUp(mask, state)
  /\ ReturnFailure
  /\ UNCHANGED <<kind, medium, calls, stored, refused>>

----------------------------------------------------------------------------
(* The thread                                                              *)

NewCall == call = NoCall /\ calls < MaxCalls /\ calls' = calls + 1

(* ata_read, ata_write and atapi_read, and the first read of fat16_format. *)
Call ==
  /\ NewCall
  /\ \/ \E id \in Drives, n \in Counts, offset \in Offsets :
          \/ Begin("ata_read", "read", id, n, offset)
          \/ Begin("ata_write", "write", id, n, offset)
          \/ Begin("atapi_read", "packet", id, n, offset)
     \/ \E id \in Drives : Begin("fat16_format", "read", id, 1, 0)
  /\ buffer' = <<>> /\ stored' = 0 /\ refused' = FALSE /\ answer' = NoAnswer
  /\ UNCHANGED <<kind, select, drive, medium, devices, probed>>

(* ata_init and fs_init look at one drive after another.                   *)
Initialise ==
  /\ NewCall
  /\ \E fun \in {"ata_init", "fs_init"} : Probing(0, fun)
  /\ UNCHANGED <<kind, select, drive, medium, buffer, devices, history>>

(* ata_probe, up to ata_identify.                                          *)
Probe ==
  /\ Pc("probe")
  /\ probed' = IF call.fun = "fs_init" THEN [probed EXCEPT ![call.id] = "clean"]
               ELSE probed
  /\ IF Status(call.id) = AllBits
     THEN Missing /\ UNCHANGED <<select, drive>>
     ELSE /\ ata_reset(call.id)
          /\ Begin(call.fun, "identify", call.id, 0, 0)
          /\ UNCHANGED <<buffer, devices>>
  /\ UNCHANGED <<kind, medium, calls, stored, refused, answer>>

(* Where the command goes to: one of two drives, of one of two channels.   *)
Master(id) == 0
Slave(id) == id % 2

Calm ==
  /\ Pc("calm")
  /\ \/ /\ Ready({"BSY"}, {})
        /\ select' = [select EXCEPT ![Channel(call.id)] = Slave(call.id)]
        /\ Goto("ready")
        /\ UNCHANGED <<kind, drive, medium, buffer, devices, calls, history>>
     \/ FailedWait({"BSY"}, {})

(* Only commands for ATA drives wait for RDY.                              *)
AlwaysRDY(command) == {"BSY", "RDY"}
ReadyMask(command) ==
  IF command \in {"atapi identify", "packet"} THEN {"BSY"} ELSE {"BSY", "RDY"}

SendCommand ==
  LET mask == ReadyMask(call.command)
  IN  /\ Pc("ready")
      /\ \/ /\ Ready(mask, mask \ {"BSY"})
            /\ drive' = Commanded(Selected(call.id), call.command,
                                  call.nblocks, call.offset)
            /\ Goto(IF call.command = "packet" THEN "packet" ELSE "data")
            /\ UNCHANGED <<kind, select, medium, buffer, devices, calls, history>>
         \/ FailedWait(mask, mask \ {"BSY"})

(* atapi_begin sends the packet whether the drive waits for it or not.     *)
SendPacket ==
  LET mask == {"BSY", "DRQ"}
      d    == Selected(call.id)
  IN  /\ Pc("packet") /\ Goto("data")
      /\ \/ /\ Ready(mask, {"DRQ"})
            /\ drive' = [drive EXCEPT ![d] =
                           IF @.op = "packet"
                           THEN [op |-> "read", busy |-> TRUE, block |-> NoBlock,
                                 lba |-> call.offset, left |-> call.nblocks]
                           ELSE @]
            /\ UNCHANGED <<select, probed>>
         \/ GivenUp(mask, {"DRQ"})
      /\ UNCHANGED <<kind, medium, buffer, devices, calls, stored, refused, answer>>

(* The blocks go to the buffer one behind the other, or come from there.   *)
ata_pio_read(d) ==
  buffer' = IF call.command = "write" \/ drive[d].op # "read" THEN buffer
            ELSE Append(buffer, medium[d][drive[d].lba])

(* How many turns the loop makes, and once too few.                        *)
OneLess == IF call.nblocks > 1 THEN call.nblocks - 1 ELSE 1
Turns == IF Identifying THEN 1 ELSE call.nblocks

Transfer ==
  LET d == Selected(call.id)
  IN  /\ Pc("data")
      /\ \/ /\ Ready({"DRQ"}, {"DRQ"})
            /\ drive' = [drive EXCEPT ![d] = Transferred(d, New(calls, call.i))]
            /\ \/ /\ call.i + 1 < Turns
                  /\ call' = [call EXCEPT !.i = @ + 1]
                  /\ ata_pio_read(d)
                  /\ UNCHANGED <<devices, answer>>
               \/ /\ call.i + 1 = Turns /\ call.command \in {"read", "write"}
                  /\ Goto("end")
                  /\ ata_pio_read(d)
                  /\ UNCHANGED <<devices, answer>>
               \/ /\ call.i + 1 = Turns /\ call.command = "packet"
                  /\ ata_pio_read(d)
                  /\ Return(TRUE)
               \/ /\ Identifying
                  /\ Probed(Found(IF call.command = "identify" THEN 512 ELSE 2048))
                  /\ UNCHANGED answer
            /\ UNCHANGED <<kind, select, medium, calls, stored, refused, probed>>
         \/ FailedWait({"DRQ"}, {"DRQ"})

End ==
  /\ Pc("end") /\ UNCHANGED buffer
  /\ \/ Ready({"BSY"}, {}) /\ Return(TRUE) /\ UNCHANGED <<select, drive, probed>>
     \/ GivenUp({"BSY"}, {}) /\ Return(FALSE)
  /\ UNCHANGED <<kind, medium, calls, stored, refused>>

(* fat16_format ignores how its first read went.  It looks for a partition *)
(* of type 6 in what it has, and takes what lies behind the table if there *)
(* is none.                                                                *)
Start(d) == NumBlocks - 1
Starts == IF buffer = <<Old(call.id, 0)>> THEN {Start(call.id)} ELSE Offsets

Partition ==
  /\ Pc("partition")
  /\ \E start \in Starts : Begin("boot sector", "read", call.id, 1, start)
  /\ buffer' = <<>> /\ stored' = 0 /\ refused' = FALSE /\ answer' = NoAnswer
  /\ UNCHANGED <<kind, select, drive, medium, devices, calls, probed>>

(* It ends after a division by a field of the second block, which is zero  *)
(* or not unless the block is the first of a FAT16 partition.              *)
Sizes ==
  /\ Pc("sizes")
  /\ \/ call' = NoCall
     \/ /\ buffer # <<Old(call.id, Start(call.id))>>
        /\ Goto("divide error")
  /\ UNCHANGED <<kind, select, drive, medium, buffer, devices, calls, history>>

Thread == \/ Call \/ Initialise \/ Probe \/ Calm \/ SendCommand \/ SendPacket
          \/ Transfer \/ End \/ Partition \/ Sizes

Next == Work \/ Thread

Spec == Init /\ [][Next]_vars

----------------------------------------------------------------------------
(* Properties                                                              *)

(* A call, also one that fails, leaves no command half done on a drive: no *)
(* drive waits for the words of a caller that is gone, or has some for it  *)
(* (the loops over the blocks; ata_reset after every failure).             *)
NothingOwed ==
  call.pc \in {"idle", "partition", "sizes"} =>
    \A d \in Drives : drive[d].op \in {"idle", "asleep", "error"}

(* The drives found are those that there are, and have the block size of   *)
(* their kind, whatever fails; a drive is missed only if it was late or    *)
(* failed when it was asked (ata_probe, ata_identify, ata_begin).          *)
DevicesDescribed ==
  \A d \in Drives :
    /\ devices[d].present =>
         /\ kind[d] # "none"
         /\ devices[d].blocksize = IF kind[d] = "ata" THEN 512 ELSE 2048
    /\ call.pc = "idle" /\ probed[d] = "clean" =>
         (kind[d] # "none" => devices[d].present)

(* ata_read, atapi_read and ata_write keep the promise of BlockDevice.     *)
Request ==
  [op |-> call.command, id |-> call.id, nblocks |-> call.nblocks,
   offset |-> call.offset,
   data |-> IF call.command = "write"
            THEN [k \in 1 .. call.nblocks |-> New(calls, k - 1)] ELSE <<>>]
InRequest == call.pc \in {"calm", "ready", "packet", "data", "end"} /\ ~Identifying

Values == {Old(d, b) : d \in Drives, b \in Blocks}
            \cup {"new"} \X (1 .. MaxCalls) \X Nat
Device ==
  INSTANCE BlockDevice WITH
    Requests <- [op : {"read", "write", "packet"}, id : Drives, nblocks : Nat,
                 offset : Nat, data : Seq(Values)],
    NoRequest <- NoCall,
    Answers <- [ok : BOOLEAN, data : Seq(Values)],
    NoAnswer <- NoAnswer,
    request <- IF InRequest THEN Request ELSE NoCall

ImplementsBlockDevice == Device!Spec

============================================================================
