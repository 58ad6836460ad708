----------------------------- MODULE AtaProofs -----------------------------
(***************************************************************************)
(* Theorems about the ATA driver: what a call leaves behind on the drives, *)
(* what fs_init finds, and that reads and writes keep their promise; and,  *)
(* in the last part, about its waits and the clock they read (AtaWait).    *)
(***************************************************************************)
EXTENDS Ata, AtaWait, TLAPS

Quiet(d) == drive[d].op \in {"idle", "asleep", "error"}

Inits == {"ata_init", "fs_init"}
Users == {"ata_read", "ata_write", "atapi_read", "fat16_format", "boot sector"}
Sending == {"calm", "ready", "packet", "data", "end"}
Transfers == {"read", "write", "packet"}
Identifies == {"identify", "atapi identify"}
Kinds == {"none", "ata", "atapi"}
Looks == {"not yet", "clean", "hitch"}

States == [op : {"idle", "asleep", "error", "read", "write", "store",
                 "identify", "packet"},
           busy : BOOLEAN, lba : Nat, left : Nat, block : Values \cup {NoBlock}]
CallRecords ==
  [fun : Inits \cup Users \cup {"none"},
   pc : Sending \cup {"idle", "probe", "partition", "sizes", "divide error"},
   command : Transfers \cup Identifies \cup {"none"},
   id : Drives, nblocks : Nat, offset : Nat, i : Nat]
DeviceTypes == {"ATA_HDD", "ATAPI_CDROM"}
Devices == [present : BOOLEAN, blocksize : Nat, type : DeviceTypes]

TypeInv ==
  /\ kind \in [Drives -> Kinds]
  /\ select \in [Channels -> {0, 1}]
  /\ drive \in [Drives -> States]
  /\ medium \in [Drives -> [Blocks -> Values]]
  /\ call \in CallRecords
  /\ buffer \in Seq(Values)
  /\ devices \in [Drives -> Devices]
  /\ probed \in [Drives -> Looks]
  /\ calls \in 0 .. MaxCalls
  /\ stored \in Nat /\ refused \in BOOLEAN

(* Where the thread is in a call, and what it has selected.  After a       *)
(* packet that no drive waited for the master is selected, and no drive    *)
(* has a command.                                                          *)
CallInv ==
  /\ Pc("idle") => call = NoCall
  /\ ~Pc("idle") => calls > 0
  /\ Pc("probe") => call.fun \in Inits
  /\ call.pc \in Sending =>
       \/ /\ Identifying /\ call.fun \in Inits
          /\ call.nblocks = 0 /\ call.i = 0 /\ call.pc \in {"calm", "ready", "data"}
       \/ /\ call.command \in Transfers /\ call.fun \in Users
          /\ call.i < call.nblocks
  /\ call.pc \in {"calm", "ready", "packet"} => call.i = 0
  /\ Pc("packet") => call.command = "packet"
  /\ Pc("end") => call.command \in {"read", "write"} /\ call.i + 1 = call.nblocks
  /\ call.pc \in {"partition", "sizes", "divide error"} => call.fun \in Users
  /\ call.pc \in {"ready", "packet", "data", "end"} =>
       /\ ~Floating(call.id)
       /\ \/ select[Channel(call.id)] = call.id % 2
          \/ Pc("data") /\ Quiet(call.id)

(* Which drives have a command, and how much of it is left.                *)
DriveInv ==
  /\ \A d \in Drives :
       /\ drive[d].op \in {"idle", "error"} => ~drive[d].busy
       /\ drive[d].op = "store" => drive[d].busy
       /\ drive[d].op \in {"read", "write", "store"} => drive[d].left > 0
       /\ d # call.id \/ call.pc \notin {"packet", "data", "end"} => Quiet(d)
       /\ Quiet(d) \/ kind[d] # "none"
  /\ Pc("packet") => Quiet(call.id) \/ drive[call.id].op = "packet"
  /\ Pc("data") =>
       \/ Quiet(call.id)
       \/ Identifying /\ drive[call.id].op = "identify"
       \/ /\ call.command \in {"read", "packet"} /\ drive[call.id].op = "read"
          /\ drive[call.id].left <= call.nblocks - call.i
       \/ /\ call.command = "write" /\ drive[call.id].op = "write"
          /\ drive[call.id].left <= call.nblocks - call.i
       \/ /\ call.command = "write" /\ drive[call.id].op = "store"
          /\ drive[call.id].left <= call.nblocks - call.i + 1
  /\ Pc("end") =>
       \/ Quiet(call.id)
       \/ /\ call.command = "write" /\ drive[call.id].op = "store"
          /\ drive[call.id].left = 1

(* What is known of a drive that fs_init looks at, or has looked at.       *)
Described(d) ==
  devices[d].present =>
    /\ kind[d] # "none"
    /\ devices[d].blocksize = IF kind[d] = "ata" THEN 512 ELSE 2048
LookingAt(d) == call.fun = "fs_init" /\ d = call.id /\ ~Pc("probe")
Known(d) ==
  probed[d] = "clean" /\ kind[d] # "none" => devices[d].present \/ LookingAt(d)

DeviceInv ==
  /\ \A d \in Drives : Described(d) /\ Known(d)
  /\ Identifying /\ call.pc \in {"calm", "ready"} => drive[call.id].op = "asleep"
  /\ Pc("data") /\ drive[call.id].op = "identify" =>
       kind[call.id] = IF call.command = "identify" THEN "ata" ELSE "atapi"
  /\ /\ call.fun = "fs_init" /\ call.pc \in {"calm", "ready", "data"}
     /\ probed[call.id] = "clean" /\ kind[call.id] # "none"
     => /\ kind[call.id] = "ata" => call.command = "identify"
        /\ Pc("data") => drive[call.id].op = "identify"

(* How far a request has come.                                             *)
Read(n) ==
  /\ Len(buffer) = n
  /\ \A k \in 1 .. n :
       /\ call.offset + k - 1 \in Blocks
       /\ buffer[k] = medium[call.id][call.offset + k - 1]

TransferInv ==
  /\ call.pc \in {"calm", "ready", "packet"} /\ ~Identifying =>
       buffer = <<>> /\ stored = 0 /\ ~refused
  /\ Pc("data") /\ call.command \in {"read", "packet"} =>
       /\ Read(call.i)
       /\ drive[call.id].op = "read" =>
            /\ drive[call.id].lba = call.offset + call.i
            /\ drive[call.id].busy \/ drive[call.id].lba \in Blocks
  /\ Pc("end") /\ call.command = "read" => Read(call.nblocks)
  /\ Pc("data") /\ drive[call.id].op = "write" =>
       /\ drive[call.id].lba = call.offset + call.i
       /\ stored = call.i /\ ~refused
  /\ call.pc \in {"data", "end"} /\ drive[call.id].op = "store" =>
       /\ drive[call.id].lba = call.offset + stored
       /\ drive[call.id].block = New(calls, stored)
       /\ ~refused
       /\ stored = IF Pc("data") THEN call.i - 1 ELSE call.i
  /\ Pc("end") /\ call.command = "write" =>
       \/ drive[call.id].op = "store"
       \/ /\ drive[call.id].op = "idle"
          /\ stored = call.nblocks /\ ~refused
       \/ /\ drive[call.id].op = "error"
          /\ stored = call.i /\ refused

AtaInv == TypeInv /\ CallInv /\ DriveInv /\ DeviceInv /\ TransferInv

----------------------------------------------------------------------------
(* Drives, channels and what their status says                             *)

(* What the blocks of the drives and of the calls are.                     *)
LEMMA OldIsValue == \A d \in Drives, b \in Blocks : Old(d, b) \in Values
  BY DEF Values, Old

LEMMA NewIsValue == \A c \in 1 .. MaxCalls, k \in Nat : New(c, k) \in Values
  BY DEF Values, New

LEMMA NothingIsRead == <<>> \in Seq(Values) /\ Len(<<>>) = 0
  OBVIOUS

LEMMA Bounds ==
  /\ MaxCalls \in Nat /\ NumBlocks \in Nat \ {0} /\ CountRange \in Nat \ {0}
  /\ Counts \subseteq Nat \ {0} /\ Offsets \subseteq Nat
  BY AtaAssumption

(* The place of a drive on its channel.                                    *)
LEMMA Places ==
  ASSUME NEW id \in Drives
  PROVE  /\ id \in Int /\ id >= 0
         /\ Channel(id) \in Channels
         /\ Channel(id) \in Int
         /\ id \in Mates(id)
         /\ id % 2 \in {0, 1}
         /\ 2 * Channel(id) + (id % 2) = id
<1>1. id \in Int /\ id >= 0
  BY AtaAssumption DEF Drives
<1>2. id \div 2 \in Int /\ id % 2 \in {0, 1}
  BY <1>1
<1>3. id % 2 = id - 2 * (id \div 2)
  BY <1>1
<1>4. PICK q \in Int : q = id \div 2
  BY <1>2
<1>5. 2 * (id \div 2) + (id % 2) = id
  <2>1. PICK r \in Int : r = id % 2
    BY <1>2
  <2>2. 2 * q + r = id
    BY <1>1, <1>3, <1>4, <2>1
  <2> QED
    BY <1>4, <2>1, <2>2, Zenon
<1> QED
  BY <1>1, <1>2, <1>5 DEF Channel, Channels, Mates

LEMMA SlavePlace ==
  ASSUME NEW id \in Drives, select[Channel(id)] = id % 2
  PROVE  Selected(id) = id
<1> DEFINE c == select[Channel(id)]
<1>1. c = id % 2 /\ Selected(id) = 2 * Channel(id) + c
  BY DEF Selected
<1> HIDE DEF c
<1>2. 2 * Channel(id) + c = 2 * Channel(id) + (id % 2)
  BY <1>1, Zenon
<1> QED
  BY <1>1, <1>2, Places, Zenon

LEMMA RecordsOfDrives ==
  /\ \A op \in {"idle", "asleep", "error"} : Resting(op) \in States
  /\ \A op : Resting(op).op = op /\ ~Resting(op).busy
  /\ Resetting \in States /\ Resetting.op = "asleep" /\ Resetting.busy
  BY DEF Resting, Resetting, States

(* What a drive must be doing for its status to have a bit.                *)
LEMMA BusyBit ==
  ASSUME NEW id \in Drives, "BSY" \notin Status(id)
  PROVE  /\ ~Floating(id)
         /\ Attached(Selected(id)) => ~drive[Selected(id)].busy
<1>1. ~Floating(id)
  BY DEF Status, AllBits
<1>2. ASSUME Attached(Selected(id)), drive[Selected(id)].busy
      PROVE  "BSY" \in Status(id)
  BY <1>1, <1>2 DEF Status, StatusOf
<1> QED
  BY <1>1, <1>2

LEMMA DataBit ==
  ASSUME NEW id \in Drives, "DRQ" \in Status(id), ~Floating(id)
  PROVE  /\ Attached(Selected(id)) /\ ~drive[Selected(id)].busy
         /\ drive[Selected(id)].op \in {"read", "write", "identify", "packet"}
  BY DEF Status, StatusOf

LEMMA QuietNoData ==
  ASSUME NEW id \in Drives, ~Floating(id), Attached(Selected(id)),
         drive[Selected(id)].op \in {"read", "write", "identify", "packet"}
  PROVE  "BSY" \in Status(id) \/ "DRQ" \in Status(id)
  BY DEF Status, StatusOf, AllBits

(* A drive that is not busy is ready, but for a packet drive asleep.       *)
LEMMA ReadyBit ==
  ASSUME NEW id \in Drives, ~Floating(id), Attached(Selected(id)),
         kind[Selected(id)] = "ata"
  PROVE  "BSY" \in Status(id) \/ "RDY" \in Status(id)
  BY DEF Status, StatusOf, AllBits

LEMMA AsleepNotReady ==
  ASSUME NEW id \in Drives, ~Floating(id), Attached(Selected(id)),
         kind[Selected(id)] # "ata", drive[Selected(id)].op = "asleep"
  PROVE  "RDY" \notin Status(id)
  BY DEF Status, StatusOf, AllBits

----------------------------------------------------------------------------
(* Calls                                                                   *)

LEMMA GotoFields ==
  ASSUME TypeInv, NEW place, Goto(place),
         place \in Sending \cup {"idle", "probe", "partition", "sizes", "divide error"}
  PROVE  /\ call' \in CallRecords /\ call'.pc = place
         /\ call'.fun = call.fun /\ call'.command = call.command
         /\ call'.id = call.id /\ call'.nblocks = call.nblocks
         /\ call'.offset = call.offset /\ call'.i = call.i
  BY DEF Goto, TypeInv, CallRecords

LEMMA BeginFields ==
  ASSUME NEW fun \in Inits \cup Users, NEW id \in Drives, NEW n \in Nat,
         NEW offset \in Nat,
         NEW command \in Transfers \cup Identifies,
         Begin(fun, command, id, n, offset)
  PROVE  /\ call' \in CallRecords /\ call'.pc = "calm"
         /\ call'.fun = fun /\ call'.command = command
         /\ call'.id = id /\ call'.nblocks = n
         /\ call'.offset = offset /\ call'.i = 0
  BY DEF Begin, CallRecords, Sending, Transfers, Identifies

LEMMA ProbingFields ==
  ASSUME NEW fun \in Inits, NEW id \in Drives, Probing(id, fun)
  PROVE  /\ call' \in CallRecords /\ call'.pc = "probe"
         /\ call'.fun = fun /\ call'.command = "none" /\ call'.id = id
  BY DEF Probing, CallRecords, NoCall

LEMMA NoCallFields ==
  /\ NoCall \in CallRecords /\ NoCall.pc = "idle" /\ NoCall.fun = "none"
  /\ NoCall.command = "none" /\ NoCall.id = 0
<1> 0 \in Drives
  BY AtaAssumption DEF Drives
<1> QED
  BY DEF CallRecords, NoCall

----------------------------------------------------------------------------
(* What ata_reset and a failed wait do                                     *)

LEMMA NotIdle ==
  ASSUME TypeInv
  PROVE  call.id \in Drives /\ call.nblocks \in Nat /\ call.offset \in Nat
         /\ call.i \in Nat
  BY DEF TypeInv, CallRecords

LEMMA ResetDrives ==
  ASSUME TypeInv, NEW id \in Drives, ata_reset(id)
  PROVE  /\ drive' \in [Drives -> States] /\ select' \in [Channels -> {0, 1}]
         /\ drive'[id] = Resetting
         /\ \A d \in Drives : drive'[d] = drive[d] \/ drive'[d] = Resetting
  BY Places, RecordsOfDrives DEF TypeInv, ata_reset

(* Every drive rests.                                                      *)
AtRest ==
  \A d \in Drives : Quiet(d) /\ (drive[d].op \in {"idle", "error"} => ~drive[d].busy)

LEMMA RestBetweenCommands ==
  ASSUME TypeInv, DriveInv, call.pc \notin {"packet", "data", "end"}
  PROVE  AtRest
  BY DEF DriveInv, AtRest

LEMMA RestIsEnough ==
  ASSUME call \in CallRecords, AtRest
  PROVE  DriveInv
  BY DEF AtRest, DriveInv, Quiet, CallRecords

LEMMA RestIsEnoughPrimed ==
  ASSUME call' \in CallRecords, AtRest'
  PROVE  DriveInv'
  BY DEF AtRest, DriveInv, Quiet, CallRecords

LEMMA ResetIsRest ==
  ASSUME TypeInv, DriveInv, ata_reset(call.id)
  PROVE  AtRest'
<1>1. \A d \in Drives : d # call.id =>
        Quiet(d) /\ (drive[d].op \in {"idle", "error"} => ~drive[d].busy)
  BY DEF DriveInv
<1>2. \A d \in Drives : drive'[d] = drive[d] \/ drive'[d] = Resetting
  BY NotIdle, ResetDrives
<1>3. drive'[call.id] = Resetting
  BY NotIdle, ResetDrives
<1> QED
  BY <1>1, <1>2, <1>3, RecordsOfDrives DEF AtRest, Quiet

LEMMA HitchSeen ==
  ASSUME TypeInv, NEW id \in Drives, Hitch(id) \/ UNCHANGED probed
  PROVE  /\ probed' \in [Drives -> Looks]
         /\ \A d \in Drives : probed'[d] = "clean" => probed[d] = "clean"
         /\ Hitch(id) /\ call.fun = "fs_init" => probed'[id] # "clean"
         /\ call.fun # "fs_init" => UNCHANGED probed
  BY DEF TypeInv, Hitch, Looks

LEMMA GivenUpHitch ==
  ASSUME TypeInv, NEW mask, NEW state, GivenUp(mask, state)
  PROVE  /\ probed' \in [Drives -> Looks]
         /\ \A d \in Drives : probed'[d] = "clean" => probed[d] = "clean"
         /\ "BSY" \in Status(call.id) /\ call.fun = "fs_init"
              => probed'[call.id] # "clean"
         /\ call.fun # "fs_init" => UNCHANGED probed
<1>1. Hitch(call.id) \/ UNCHANGED probed
  BY DEF GivenUp
<1>2. "BSY" \in Status(call.id) => Hitch(call.id)
  BY DEF GivenUp
<1> QED
  BY <1>1, <1>2, NotIdle, HitchSeen

LEMMA GoneIsDevice ==
  ASSUME NEW e \in Devices
  PROVE  /\ [e EXCEPT !.present = FALSE] \in Devices
         /\ ~([e EXCEPT !.present = FALSE].present)
<1>1. [e EXCEPT !.present = FALSE] \in Devices
  BY DEF Devices
<1>2. ~([e EXCEPT !.present = FALSE].present)
  BY SMT DEF Devices
<1> QED
  BY <1>1, <1>2

LEMMA FoundIsDevice ==
  \A n \in {512, 2048} : /\ Found(n) \in Devices /\ Found(n).present
                         /\ Found(n).blocksize = n
  BY DEF Found, Devices, DeviceTypes

----------------------------------------------------------------------------
(* The ends of a request and of a look at a drive                          *)

LEMMA ReturnFields ==
  ASSUME TypeInv, NEW ok, Return(ok)
  PROVE  /\ call' \in CallRecords /\ ~Identifying
         /\ call' = NoCall \/ /\ call'.pc \in {"partition", "sizes"}
                              /\ call'.fun = call.fun
<1>1. ~Identifying
  BY DEF Return
<1>2. CASE call.fun = "fat16_format"
  <2>1. Goto("partition")
    BY <1>2 DEF Return
  <2> QED
    BY <1>1, <2>1, GotoFields
<1>3. CASE call.fun = "boot sector"
  <2>1. Goto("sizes")
    BY <1>3 DEF Return
  <2> QED
    BY <1>1, <2>1, GotoFields
<1>4. CASE call.fun \notin {"fat16_format", "boot sector"}
  <2>1. call' = NoCall
    BY <1>4 DEF Return
  <2> QED
    BY <1>1, <2>1, NoCallFields
<1> QED
  BY <1>2, <1>3, <1>4

LEMMA ReturnKeeps ==
  ASSUME AtaInv, call.pc \in Sending, NEW ok, Return(ok),
         AtRest', drive' \in [Drives -> States], select' \in [Channels -> {0, 1}],
         buffer' \in Seq(Values),
         probed' \in [Drives -> Looks],
         \A d \in Drives : probed'[d] = "clean" => probed[d] = "clean",
         UNCHANGED <<kind, medium, calls, stored, refused>>
  PROVE  AtaInv'
<1> TypeInv /\ CallInv /\ DriveInv /\ DeviceInv /\ TransferInv
  BY DEF AtaInv
<1>1. call' \in CallRecords /\ ~Identifying
  BY ReturnFields
<1>2. call.fun \in Users /\ call.pc # "idle"
  BY <1>1 DEF CallInv, Identifying, Sending
<1>3. /\ call'.pc \in {"idle", "partition", "sizes"} /\ call'.fun \notin Inits
      /\ call'.pc = "idle" => call' = NoCall
      /\ call'.pc # "idle" => call'.fun \in Users
  BY <1>2, ReturnFields, NoCallFields DEF Inits, Users
<1>4. devices' = devices
  BY DEF Return
<1>5. TypeInv'
  BY <1>1, <1>4 DEF TypeInv
<1>6. CallInv'
  BY <1>2, <1>3 DEF CallInv, Pc, Sending
<1>7. DriveInv'
  BY <1>1, RestIsEnoughPrimed
<1>8. DeviceInv'
  <2>1. \A d \in Drives : probed[d] = "clean" /\ kind[d] # "none" => devices[d].present
    <3>1. call.fun # "fs_init"
      BY <1>2 DEF Users
    <3> QED
      BY <3>1 DEF DeviceInv, Known, LookingAt
  <2>2. \A d \in Drives : Described(d)' /\ Known(d)'
    BY <1>4, <2>1 DEF DeviceInv, Described, Known
  <2> QED
    BY <1>3, <2>2 DEF DeviceInv, Pc
<1>9. TransferInv'
  BY <1>3 DEF TransferInv, Pc
<1> QED
  BY <1>5, <1>6, <1>7, <1>8, <1>9 DEF AtaInv

LEMMA ProbedFields ==
  ASSUME TypeInv, NEW device, Probed(device), call.fun \in Inits
  PROVE  /\ call' \in CallRecords
         /\ call' = NoCall \/ (call'.pc = "probe" /\ call'.fun = call.fun)
         /\ buffer' = <<>>
<1>1. buffer' = <<>>
  BY DEF Probed
<1>2. CASE call.id + 1 \in Drives
  BY <1>1, <1>2, ProbingFields DEF Probed
<1>3. CASE call.id + 1 \notin Drives
  BY <1>1, <1>3, NoCallFields DEF Probed
<1> QED
  BY <1>2, <1>3

(* The table keeps to the drives: what is found is right, and a drive is   *)
(* only missing when it was late or failed, or is not there.               *)
LEMMA ProbedKeeps ==
  ASSUME AtaInv, call.fun \in Inits, call.pc # "idle",
         NEW device \in Devices, Probed(device),
         AtRest', drive' \in [Drives -> States], select' \in [Channels -> {0, 1}],
         probed' \in [Drives -> Looks],
         \A d \in Drives : d # call.id /\ probed'[d] = "clean" => probed[d] = "clean",
         device.present => /\ kind[call.id] # "none"
                           /\ device.blocksize = IF kind[call.id] = "ata" THEN 512 ELSE 2048,
         call.fun = "fs_init" /\ probed'[call.id] = "clean" /\ kind[call.id] # "none"
           => device.present,
         call.fun = "ata_init" => UNCHANGED probed,
         UNCHANGED <<kind, medium, calls, stored, refused>>
  PROVE  AtaInv'
<1> TypeInv /\ CallInv /\ DriveInv /\ DeviceInv /\ TransferInv
  BY DEF AtaInv
<1>1. /\ call' \in CallRecords /\ buffer' = <<>>
      /\ call' = NoCall \/ (call'.pc = "probe" /\ call'.fun = call.fun)
  BY ProbedFields
<1>2. /\ call'.pc \in {"idle", "probe"}
      /\ call'.pc = "idle" => call' = NoCall
      /\ call'.pc = "probe" => call'.fun \in Inits
  BY <1>1, NoCallFields
<1>3. devices' = IF call.fun = "fs_init" THEN [devices EXCEPT ![call.id] = device]
                 ELSE devices
  BY DEF Probed
<1>4. call.id \in Drives
  BY NotIdle
<1>5. devices' \in [Drives -> Devices]
  BY <1>3, <1>4 DEF TypeInv
<1>6. TypeInv'
  BY <1>1, <1>5 DEF TypeInv
<1>7. CallInv'
  BY <1>2 DEF CallInv, Pc, Sending
<1>8. DriveInv'
  BY <1>1, RestIsEnoughPrimed
<1>9. DeviceInv'
  <2>1. CASE call.fun = "fs_init"
    <3>1. ASSUME NEW d \in Drives
          PROVE  Described(d)' /\ Known(d)'
      <4>1. CASE d = call.id
        BY <1>3, <1>4, <2>1, <4>1 DEF TypeInv, Described, Known
      <4>2. CASE d # call.id
        <5>1. devices'[d] = devices[d]
          BY <1>3, <2>1, <4>2 DEF TypeInv
        <5>2. Described(d) /\ (probed[d] = "clean" /\ kind[d] # "none" => devices[d].present)
          BY <4>2 DEF DeviceInv, Known, LookingAt
        <5> QED
          BY <4>2, <5>1, <5>2 DEF Described, Known
      <4> QED
        BY <4>1, <4>2
    <3> QED
      BY <1>2, <3>1 DEF DeviceInv, Pc
  <2>2. CASE call.fun = "ata_init"
    <3>1. devices' = devices /\ probed' = probed
      BY <1>3, <2>2
    <3>2. \A d \in Drives : ~LookingAt(d)
      BY <2>2 DEF LookingAt
    <3>3. \A d \in Drives : Described(d)' /\ Known(d)'
      BY <3>1, <3>2 DEF DeviceInv, Described, Known
    <3> QED
      BY <1>2, <3>3 DEF DeviceInv, Pc
  <2> QED
    BY <2>1, <2>2 DEF Inits
<1>10. TransferInv'
  BY <1>2 DEF TransferInv, Pc
<1> QED
  BY <1>6, <1>7, <1>8, <1>9, <1>10 DEF AtaInv

(* A failed wait, also one for a drive that fs_init looks at.              *)
LEMMA FailedWaitKeeps ==
  ASSUME AtaInv, call.pc \in Sending, NEW mask, NEW state, FailedWait(mask, state),
         call.fun = "fs_init" /\ probed'[call.id] = "clean" /\ kind[call.id] # "none"
           => call.command = "identify" /\ kind[call.id] # "ata"
  PROVE  AtaInv'
<1> TypeInv /\ CallInv /\ DriveInv /\ DeviceInv /\ TransferInv
  BY DEF AtaInv
<1>1. GivenUp(mask, state) /\ ata_reset(call.id) /\ ReturnFailure
      /\ UNCHANGED <<kind, medium, calls, stored, refused>>
  BY DEF FailedWait, GivenUp
<1>2. /\ drive' \in [Drives -> States] /\ select' \in [Channels -> {0, 1}]
      /\ drive'[call.id] = Resetting
      /\ AtRest'
  BY <1>1, NotIdle, ResetDrives, ResetIsRest
<1>3. /\ probed' \in [Drives -> Looks]
      /\ \A d \in Drives : probed'[d] = "clean" => probed[d] = "clean"
      /\ call.fun # "fs_init" => UNCHANGED probed
  BY <1>1, GivenUpHitch
<1>4. call.id \in Drives
  BY NotIdle
<1>5. call.pc # "idle" /\ call.pc # "probe"
  BY DEF Sending
<1>6. Identifying => call.fun \in Inits
  BY DEF CallInv, Identifying, Transfers
<1>7. CASE UNCHANGED buffer /\ Return(FALSE)
  BY <1>1, <1>2, <1>3, <1>7, ReturnKeeps DEF TypeInv
<1>8. CASE /\ call.command = "identify"
           /\ Begin(call.fun, "atapi identify", call.id, 0, 0)
           /\ UNCHANGED <<buffer, devices, answer>>
  <2>1. call.fun \in Inits
    BY <1>6, <1>8 DEF Identifying
  <2>2. /\ call' \in CallRecords /\ call'.pc = "calm" /\ call'.fun = call.fun
        /\ call'.command = "atapi identify" /\ call'.id = call.id
        /\ call'.nblocks = 0 /\ call'.i = 0
    BY <1>4, <1>8, <2>1, BeginFields DEF Identifies
  <2>3. TypeInv'
    BY <1>1, <1>2, <1>3, <1>8, <2>2 DEF TypeInv
  <2>4. CallInv'
    BY <1>1, <1>5, <2>1, <2>2 DEF CallInv, Pc, Identifying, Sending
  <2>5. DriveInv'
    BY <1>2, <2>2, RestIsEnoughPrimed
  <2>6. DeviceInv'
    <3>1. kind' = kind /\ devices' = devices
      BY <1>1, <1>8
    <3>2. \A d \in Drives : LookingAt(d) => LookingAt(d)'
      BY <2>2 DEF LookingAt, Pc
    <3>3. drive'[call.id].op = "asleep"
      BY <1>2, RecordsOfDrives
    <3>4. call.fun = "fs_init" /\ probed'[call.id] = "clean" /\ kind[call.id] # "none"
            => kind[call.id] # "ata"
      OBVIOUS
    <3>5. \A d \in Drives : Described(d)' /\ Known(d)'
      BY <1>3, <3>1, <3>2 DEF DeviceInv, Described, Known
    <3> QED
      BY <2>2, <3>1, <3>3, <3>4, <3>5 DEF DeviceInv, Pc
  <2>7. TransferInv'
    BY <2>2 DEF TransferInv, Pc, Identifying
  <2> QED
    BY <2>3, <2>4, <2>5, <2>6, <2>7 DEF AtaInv
<1>9. CASE call.command = "atapi identify" /\ Missing /\ UNCHANGED answer
  <2> DEFINE device == [devices[call.id] EXCEPT !.present = FALSE]
  <2>1. call.fun \in Inits
    BY <1>6, <1>9 DEF Identifying
  <2>2. device \in Devices /\ ~device.present
    <3>1. PICK e \in Devices : e = devices[call.id]
      BY <1>4 DEF TypeInv
    <3> QED
      BY <3>1, GoneIsDevice
  <2>3. Probed(device)
    BY <1>9 DEF Missing
  <2>4. ~(call.fun = "fs_init" /\ probed'[call.id] = "clean" /\ kind[call.id] # "none")
    BY <1>9
  <2> HIDE DEF device
  <2>5. call.fun = "ata_init" => UNCHANGED probed
    BY <1>3
  <2> QED
    BY <1>1, <1>2, <1>3, <1>5, <2>1, <2>2, <2>3, <2>4, <2>5, ProbedKeeps
<1> QED
  BY <1>1, <1>7, <1>8, <1>9 DEF ReturnFailure

----------------------------------------------------------------------------
(* Every step keeps the invariant                                          *)

LEMMA DevicesKept ==
  ASSUME DeviceInv, UNCHANGED <<kind, devices>>,
         \A d \in Drives : probed'[d] = "clean" => probed[d] = "clean",
         \A d \in Drives : LookingAt(d) => LookingAt(d)'
  PROVE  \A d \in Drives : Described(d)' /\ Known(d)'
  BY DEF DeviceInv, Described, Known

LEMMA RestKept ==
  ASSUME AtRest, UNCHANGED drive
  PROVE  AtRest'
  BY DEF AtRest, Quiet

LEMMA InitKeeps ==
  ASSUME Init
  PROVE  AtaInv
<1>1. /\ NoDevice \in Devices /\ ~NoDevice.present
      /\ Resting("idle") \in States
      /\ Resting("idle").op = "idle" /\ ~Resting("idle").busy
  BY RecordsOfDrives DEF NoDevice, Devices, DeviceTypes
<1>2. TypeInv
  <2>1. kind \in [Drives -> Kinds]
    BY AtaAssumption DEF Init, Kinds
  <2>2. medium \in [Drives -> [Blocks -> Values]]
    BY OldIsValue DEF Init
  <2>3. "not yet" \in Looks
    BY DEF Looks
  <2>4. calls \in 0 .. MaxCalls /\ stored \in Nat
    <3>1. calls = 0 /\ stored = 0
      BY DEF Init
    <3> QED
      BY <3>1, Bounds
  <2>5. drive \in [Drives -> States] /\ devices \in [Drives -> Devices]
    BY <1>1 DEF Init
  <2>6. select \in [Channels -> {0, 1}] /\ probed \in [Drives -> Looks]
    BY <2>3 DEF Init
  <2>7. call \in CallRecords /\ buffer \in Seq(Values) /\ refused \in BOOLEAN
    BY NoCallFields, NothingIsRead DEF Init
  <2> QED
    BY <2>1, <2>2, <2>4, <2>5, <2>6, <2>7 DEF TypeInv
<1>3. call = NoCall /\ call.pc = "idle" /\ call.fun = "none"
  BY NoCallFields DEF Init
<1>4. CallInv
  BY <1>3 DEF CallInv, Pc, Sending
<1>5. DriveInv
  <2>1. AtRest
    BY <1>1 DEF Init, AtRest, Quiet
  <2> QED
    BY <1>2, <2>1, RestIsEnough DEF TypeInv
<1>6. DeviceInv
  <2>1. \A d \in Drives : ~devices[d].present /\ probed[d] # "clean"
    BY <1>1 DEF Init
  <2> QED
    BY <1>3, <2>1 DEF DeviceInv, Described, Known, Pc
<1>7. TransferInv
  BY <1>3 DEF TransferInv, Pc
<1> QED
  BY <1>2, <1>4, <1>5, <1>6, <1>7 DEF AtaInv

(* A request begins while every drive rests.                               *)
LEMMA BeginKeeps ==
  ASSUME AtaInv, call.pc \in {"idle", "partition"}, call.fun # "fs_init",
         NEW fun \in Users, NEW command \in Transfers,
         NEW id \in Drives, NEW n \in Nat \ {0}, NEW offset \in Nat,
         Begin(fun, command, id, n, offset),
         calls' \in 1 .. MaxCalls, buffer' = <<>>, stored' = 0, refused' = FALSE,
         UNCHANGED <<kind, select, drive, medium, devices, probed>>
  PROVE  AtaInv'
<1> TypeInv /\ CallInv /\ DriveInv /\ DeviceInv /\ TransferInv
  BY DEF AtaInv
<1>1. /\ call' \in CallRecords /\ call'.pc = "calm" /\ call'.fun = fun
      /\ call'.command = command /\ call'.nblocks = n /\ call'.i = 0
  <2>1. fun \in Inits \cup Users /\ n \in Nat
    OBVIOUS
  <2> QED
    BY <2>1, BeginFields
<1>2. TypeInv'
  <2>1. calls' \in 0 .. MaxCalls
    BY Bounds
  <2>2. buffer' \in Seq(Values) /\ stored' \in Nat /\ refused' \in BOOLEAN
    BY NothingIsRead
  <2> QED
    BY <1>1, <2>1, <2>2 DEF TypeInv
<1>3. CallInv'
  <2>1. calls' > 0 /\ n > 0
    BY Bounds
  <2> QED
    BY <1>1, <2>1 DEF CallInv, Pc, Sending
<1>4. AtRest'
  BY RestBetweenCommands, RestKept
<1>5. DriveInv'
  BY <1>1, <1>4, RestIsEnoughPrimed
<1>6. DeviceInv'
  <2>1. \A d \in Drives : Described(d)' /\ Known(d)'
    BY DevicesKept DEF LookingAt
  <2>2. call'.fun # "fs_init"
    BY <1>1 DEF Users
  <2> QED
    BY <1>1, <2>1, <2>2 DEF DeviceInv, Pc, Identifying, Transfers
<1>7. TransferInv'
  BY <1>1 DEF TransferInv, Pc
<1> QED
  BY <1>2, <1>3, <1>5, <1>6, <1>7 DEF AtaInv

LEMMA CallKeeps ==
  ASSUME AtaInv, Call
  PROVE  AtaInv'
<1>1. call = NoCall /\ call.pc = "idle" /\ call.fun = "none"
  BY NoCallFields DEF Call, NewCall
<1>2. calls' \in 1 .. MaxCalls
  BY Bounds DEF AtaInv, TypeInv, Call, NewCall
<1>3. PICK fun \in Users, command \in Transfers, id \in Drives,
           n \in Nat \ {0}, offset \in Nat : Begin(fun, command, id, n, offset)
  <2>1. Counts \subseteq Nat \ {0} /\ Offsets \subseteq Nat /\ 1 \in Nat \ {0} /\ 0 \in Nat
    BY Bounds
  <2>2. /\ {"ata_read", "ata_write", "atapi_read", "fat16_format"} \subseteq Users
        /\ {"read", "write", "packet"} \subseteq Transfers
    BY DEF Users, Transfers
  <2> QED
    BY <2>1, <2>2 DEF Call
<1> QED
  BY <1>1, <1>2, <1>3, BeginKeeps DEF Call

LEMMA PartitionKeeps ==
  ASSUME AtaInv, Partition
  PROVE  AtaInv'
<1>1. call.pc = "partition" /\ call.fun # "fs_init" /\ call.id \in Drives
  BY NotIdle DEF Partition, Pc, AtaInv, CallInv, Users
<1>2. calls' \in 1 .. MaxCalls
  <2>1. calls \in 0 .. MaxCalls /\ calls > 0
    BY <1>1 DEF AtaInv, TypeInv, CallInv, Pc
  <2>2. calls' = calls
    BY DEF Partition
  <2> QED
    BY <2>1, <2>2, Bounds
<1>3. PICK offset \in Nat : Begin("boot sector", "read", call.id, 1, offset)
  <2>1. PICK from \in Starts : Begin("boot sector", "read", call.id, 1, from)
    BY DEF Partition
  <2>2. Start(call.id) \in Nat /\ Offsets \subseteq Nat
    BY Bounds DEF Start
  <2>3. Starts \subseteq Nat
    BY <2>2 DEF Starts
  <2> QED
    BY <2>1, <2>3
<1>4. "boot sector" \in Users /\ "read" \in Transfers /\ 1 \in Nat \ {0}
  BY DEF Users, Transfers
<1> QED
  BY <1>1, <1>2, <1>3, <1>4, BeginKeeps DEF Partition

LEMMA InitialiseKeeps ==
  ASSUME AtaInv, Initialise
  PROVE  AtaInv'
<1> TypeInv /\ CallInv /\ DriveInv /\ DeviceInv /\ TransferInv
  BY DEF AtaInv
<1>1. call = NoCall /\ call.pc = "idle" /\ call.fun = "none" /\ 0 \in Drives
  BY NoCallFields, AtaAssumption DEF Initialise, NewCall, Drives
<1>2. calls' \in 1 .. MaxCalls
  BY Bounds DEF TypeInv, Initialise, NewCall
<1>3. PICK fun \in Inits : Probing(0, fun)
  BY DEF Initialise, Inits
<1>4. call' \in CallRecords /\ call'.pc = "probe" /\ call'.fun = fun
  BY <1>1, <1>3, ProbingFields
<1>5. UNCHANGED <<kind, select, drive, medium, buffer, devices, probed, stored, refused>>
  BY DEF Initialise, history
<1>6. TypeInv'
  BY <1>2, <1>4, <1>5 DEF TypeInv
<1>7. CallInv'
  <2>1. calls' > 0
    BY <1>2, Bounds
  <2> QED
    BY <1>4, <2>1 DEF CallInv, Pc, Sending
<1>8. DriveInv'
  BY <1>1, <1>4, <1>5, RestBetweenCommands, RestKept, RestIsEnoughPrimed
<1>9. DeviceInv'
  <2>1. \A d \in Drives : Described(d)' /\ Known(d)'
    BY <1>1, <1>5, DevicesKept DEF LookingAt
  <2> QED
    BY <1>4, <2>1 DEF DeviceInv, Pc
<1>10. TransferInv'
  BY <1>4 DEF TransferInv, Pc
<1> QED
  BY <1>6, <1>7, <1>8, <1>9, <1>10 DEF AtaInv

LEMMA FloatingKept ==
  ASSUME UNCHANGED kind, call'.id = call.id
  PROVE  Floating(call.id)' <=> Floating(call.id)
  BY DEF Floating, Attached, Mates, Channel

LEMMA AllBitsFloat ==
  ASSUME TypeInv, Status(call.id) = AllBits
  PROVE  kind[call.id] = "none"
<1>1. call.id \in Drives /\ call.id \in Mates(call.id)
  BY NotIdle, Places
<1>2. Floating(call.id)
  <2>1. ASSUME NEW d, StatusOf(d) = AllBits
        PROVE  FALSE
    <3>1. CASE drive[d].busy
      BY <2>1, <3>1 DEF StatusOf, AllBits
    <3>2. CASE ~drive[d].busy
      <4>1. "BSY" \notin StatusOf(d)
        BY <3>2 DEF StatusOf
      <4> QED
        BY <2>1, <4>1 DEF AllBits
    <3> QED
      BY <3>1, <3>2
  <2>2. {} # AllBits
    BY DEF AllBits
  <2> QED
    BY <2>1, <2>2 DEF Status
<1> QED
  BY <1>1, <1>2 DEF Floating, Attached

LEMMA ProbeKeeps ==
  ASSUME AtaInv, Probe
  PROVE  AtaInv'
<1> TypeInv /\ CallInv /\ DriveInv /\ DeviceInv /\ TransferInv
  BY DEF AtaInv
<1>1. call.pc = "probe" /\ call.fun \in Inits /\ calls > 0
  BY DEF Probe, CallInv, Pc
<1>2. call.id \in Drives
  BY NotIdle
<1>3. AtRest
  BY <1>1, RestBetweenCommands
<1>4. /\ probed' \in [Drives -> Looks]
      /\ \A d \in Drives : d # call.id => probed'[d] = probed[d]
      /\ call.fun = "ata_init" => UNCHANGED probed
  <2>1. "clean" \in Looks
    BY DEF Looks
  <2> QED
    BY <1>2, <2>1 DEF Probe, TypeInv
<1>5. UNCHANGED <<kind, medium, calls, stored, refused>>
  BY DEF Probe
<1>6. CASE Status(call.id) = AllBits
  <2> DEFINE device == [devices[call.id] EXCEPT !.present = FALSE]
  <2>1. device \in Devices /\ ~device.present
    <3>1. PICK e \in Devices : e = devices[call.id]
      BY <1>2 DEF TypeInv
    <3> QED
      BY <3>1, GoneIsDevice
  <2>2. Probed(device) /\ UNCHANGED <<select, drive>>
    BY <1>6 DEF Probe, Missing
  <2>3. kind[call.id] = "none"
    BY <1>6, AllBitsFloat
  <2> HIDE DEF device
  <2>4. AtRest'
    BY <1>3, <2>2, RestKept
  <2>5. drive' \in [Drives -> States] /\ select' \in [Channels -> {0, 1}]
    BY <2>2 DEF TypeInv
  <2> QED
    BY <1>1, <1>4, <1>5, <2>1, <2>2, <2>3, <2>4, <2>5, ProbedKeeps
<1>7. CASE Status(call.id) # AllBits
  <2>1. ata_reset(call.id) /\ UNCHANGED <<buffer, devices>>
        /\ Begin(call.fun, "identify", call.id, 0, 0)
    BY <1>7 DEF Probe
  <2>2. /\ call' \in CallRecords /\ call'.pc = "calm" /\ call'.fun = call.fun
        /\ call'.command = "identify" /\ call'.id = call.id
        /\ call'.nblocks = 0 /\ call'.i = 0
    BY <1>1, <1>2, <2>1, BeginFields DEF Identifies
  <2>3. /\ drive' \in [Drives -> States] /\ select' \in [Channels -> {0, 1}]
        /\ drive'[call.id] = Resetting
        /\ AtRest'
    BY <1>2, <2>1, ResetDrives, ResetIsRest
  <2>4. TypeInv'
    BY <1>4, <1>5, <2>1, <2>2, <2>3 DEF TypeInv
  <2>5. CallInv'
    BY <1>1, <1>5, <2>2 DEF CallInv, Pc, Identifying, Sending
  <2>6. DriveInv'
    BY <2>2, <2>3, RestIsEnoughPrimed
  <2>7. DeviceInv'
    <3>1. drive'[call.id].op = "asleep"
      BY <2>3, RecordsOfDrives
    <3>2. ASSUME NEW d \in Drives
          PROVE  Described(d)' /\ Known(d)'
      <4>1. Described(d)'
        BY <1>5, <2>1 DEF DeviceInv, Described
      <4>2. ~LookingAt(d)
        BY <1>1 DEF LookingAt, Pc
      <4>3. CASE d = call.id /\ call.fun = "fs_init"
        <5>1. LookingAt(d)'
          BY <2>2, <4>3 DEF LookingAt, Pc
        <5> QED
          BY <4>1, <5>1 DEF Known
      <4>4. CASE d # call.id \/ call.fun # "fs_init"
        <5>1. probed'[d] = probed[d]
          BY <1>1, <1>4, <4>4 DEF Inits
        <5>2. devices' = devices /\ kind' = kind
          BY <1>5, <2>1
        <5>3. probed[d] = "clean" /\ kind[d] # "none" => devices[d].present
          BY <4>2 DEF DeviceInv, Known
        <5> QED
          BY <4>1, <5>1, <5>2, <5>3 DEF Known
      <4> QED
        BY <4>1, <4>3, <4>4
    <3> QED
      BY <2>2, <3>1, <3>2 DEF DeviceInv, Pc
  <2>8. TransferInv'
    BY <2>2 DEF TransferInv, Pc, Identifying
  <2> QED
    BY <2>4, <2>5, <2>6, <2>7, <2>8 DEF AtaInv
<1> QED
  BY <1>6, <1>7

LEMMA CalmKeeps ==
  ASSUME AtaInv, Calm
  PROVE  AtaInv'
<1> TypeInv /\ CallInv /\ DriveInv /\ DeviceInv /\ TransferInv
  BY DEF AtaInv
<1>1. call.pc = "calm" /\ call.pc \in Sending
  BY DEF Calm, Pc, Sending
<1>2. call.id \in Drives
  BY NotIdle
<1>3. CASE FailedWait({"BSY"}, {})
  <2>1. "BSY" \in Status(call.id) /\ GivenUp({"BSY"}, {})
    BY <1>3 DEF FailedWait, GivenUp, Ready
  <2>2. ~(call.fun = "fs_init" /\ probed'[call.id] = "clean")
    BY <2>1, GivenUpHitch
  <2> QED
    BY <1>1, <1>3, <2>2, FailedWaitKeeps
<1>4. CASE /\ Ready({"BSY"}, {})
           /\ select' = [select EXCEPT ![Channel(call.id)] = Slave(call.id)]
           /\ Goto("ready")
           /\ UNCHANGED <<kind, drive, medium, buffer, devices, calls, history>>
  <2>1. /\ call' \in CallRecords /\ call'.pc = "ready"
        /\ call'.fun = call.fun /\ call'.command = call.command
        /\ call'.id = call.id /\ call'.nblocks = call.nblocks
        /\ call'.i = call.i
    BY <1>4, GotoFields DEF Sending
  <2>2. UNCHANGED <<kind, drive, medium, buffer, devices, calls, probed, stored, refused>>
    BY <1>4 DEF history
  <2>3. ~Floating(call.id)'
    <3>1. ~Floating(call.id)
      BY <1>2, <1>4, BusyBit DEF Ready
    <3> QED
      BY <2>1, <2>2, <3>1, FloatingKept
  <2>4. select' \in [Channels -> {0, 1}] /\ select'[Channel(call.id)] = call.id % 2
    BY <1>2, <1>4, Places DEF TypeInv, Slave
  <2>5. TypeInv'
    BY <2>1, <2>2, <2>4 DEF TypeInv
  <2>6. CallInv'
    <3>1. \/ /\ Identifying /\ call.fun \in Inits
             /\ call.nblocks = 0 /\ call.i = 0
          \/ /\ call.command \in Transfers /\ call.fun \in Users
             /\ call.i < call.nblocks
      BY <1>1 DEF CallInv
    <3>2. calls > 0 /\ call.i = 0
      BY <1>1 DEF CallInv, Pc
    <3>3. Channel(call.id)' = Channel(call.id)
      BY <2>1 DEF Channel
    <3> QED
      BY <2>1, <2>2, <2>3, <2>4, <3>1, <3>2, <3>3 DEF CallInv, Pc, Identifying, Sending
  <2>7. DriveInv'
    BY <1>1, <2>1, <2>2, RestBetweenCommands, RestKept, RestIsEnoughPrimed
  <2>8. DeviceInv'
    <3>1. \A d \in Drives : LookingAt(d) => LookingAt(d)'
      BY <2>1 DEF LookingAt, Pc
    <3>2. \A d \in Drives : Described(d)' /\ Known(d)'
      BY <2>2, <3>1, DevicesKept
    <3> QED
      BY <1>1, <2>1, <2>2, <3>2 DEF DeviceInv, Pc, Identifying
  <2>9. TransferInv'
    BY <1>1, <2>1, <2>2 DEF TransferInv, Pc, Identifying
  <2> QED
    BY <2>5, <2>6, <2>7, <2>8, <2>9 DEF AtaInv
<1> QED
  BY <1>3, <1>4 DEF Calm

LEMMA SizesKeeps ==
  ASSUME AtaInv, Sizes
  PROVE  AtaInv'
<1> TypeInv /\ CallInv /\ DriveInv /\ DeviceInv /\ TransferInv
  BY DEF AtaInv
<1>1. call.pc = "sizes" /\ call.fun \in Users /\ calls > 0
  BY DEF Sizes, CallInv, Pc
<1>2. UNCHANGED <<kind, select, drive, medium, buffer, devices, calls, probed,
                  stored, refused>>
  BY DEF Sizes, history
<1>3. /\ call' \in CallRecords /\ call'.pc \in {"idle", "divide error"}
      /\ call'.pc = "idle" => call' = NoCall
      /\ call'.pc # "idle" => call'.fun \in Users
      /\ call'.fun # "fs_init"
  <2>1. CASE call' = NoCall
    BY <2>1, NoCallFields
  <2>2. CASE Goto("divide error")
    <3>1. /\ call' \in CallRecords /\ call'.pc = "divide error"
          /\ call'.fun = call.fun
      BY <2>2, GotoFields
    <3> QED
      BY <1>1, <3>1 DEF Users
  <2> QED
    BY <2>1, <2>2 DEF Sizes
<1>4. TypeInv'
  BY <1>2, <1>3 DEF TypeInv
<1>5. CallInv'
  BY <1>1, <1>2, <1>3 DEF CallInv, Pc, Sending
<1>6. DriveInv'
  BY <1>1, <1>2, <1>3, RestBetweenCommands, RestKept, RestIsEnoughPrimed
<1>7. DeviceInv'
  <2>1. \A d \in Drives : ~LookingAt(d)
    BY <1>1 DEF LookingAt, Users
  <2>2. \A d \in Drives : Described(d)' /\ Known(d)'
    BY <1>2, <2>1, DevicesKept
  <2> QED
    BY <1>3, <2>2 DEF DeviceInv, Pc
<1>8. TransferInv'
  BY <1>3 DEF TransferInv, Pc
<1> QED
  BY <1>4, <1>5, <1>6, <1>7, <1>8 DEF AtaInv

(* At the end the last block is stored, or not, before anyone sees it.     *)
LEMMA EndRests ==
  ASSUME AtaInv, Pc("end"), Ready({"BSY"}, {})
  PROVE  AtRest /\ drive[call.id].op # "store"
<1> TypeInv /\ CallInv /\ DriveInv
  BY DEF AtaInv
<1>1. call.pc = "end" /\ call.id \in Drives
  BY NotIdle DEF Pc
<1>2. Selected(call.id) = call.id
  BY <1>1, SlavePlace DEF CallInv, Pc
<1>3. Attached(call.id) => ~drive[call.id].busy
  <2>1. "BSY" \notin Status(call.id)
    BY DEF Ready
  <2> QED
    BY <1>1, <1>2, <2>1, BusyBit
<1>4. drive[call.id].op # "store"
  BY <1>1, <1>3 DEF DriveInv, Attached, Quiet
<1>5. Quiet(call.id)
  BY <1>1, <1>4 DEF DriveInv, Pc
<1> QED
  BY <1>4, <1>5 DEF AtRest, DriveInv

LEMMA EndKeeps ==
  ASSUME AtaInv, End
  PROVE  AtaInv'
<1> TypeInv /\ CallInv /\ DriveInv /\ DeviceInv /\ TransferInv
  BY DEF AtaInv
<1>1. Pc("end") /\ call.pc \in Sending
      /\ UNCHANGED <<kind, medium, buffer, calls, stored, refused>>
  BY DEF End, Pc, Sending
<1>2. buffer' \in Seq(Values)
  BY <1>1 DEF TypeInv
<1>3. CASE Ready({"BSY"}, {}) /\ Return(TRUE) /\ UNCHANGED <<select, drive, probed>>
  <2>1. AtRest'
    BY <1>1, <1>3, EndRests, RestKept
  <2>2. /\ drive' \in [Drives -> States] /\ select' \in [Channels -> {0, 1}]
        /\ probed' \in [Drives -> Looks]
        /\ \A d \in Drives : probed'[d] = "clean" => probed[d] = "clean"
    BY <1>3 DEF TypeInv
  <2> QED
    BY <1>1, <1>2, <1>3, <2>1, <2>2, ReturnKeeps
<1>4. CASE GivenUp({"BSY"}, {}) /\ Return(FALSE)
  <2>1. ata_reset(call.id)
    BY <1>4 DEF GivenUp
  <2>2. /\ drive' \in [Drives -> States] /\ select' \in [Channels -> {0, 1}]
        /\ AtRest'
    BY <2>1, NotIdle, ResetDrives, ResetIsRest
  <2>3. /\ probed' \in [Drives -> Looks]
        /\ \A d \in Drives : probed'[d] = "clean" => probed[d] = "clean"
    BY <1>4, GivenUpHitch
  <2> QED
    BY <1>1, <1>2, <1>4, <2>2, <2>3, ReturnKeeps
<1> QED
  BY <1>3, <1>4 DEF End

(* A count that the register cannot hold asks for fewer blocks, not more.  *)
LEMMA Remainder ==
  ASSUME NEW n \in Nat, NEW m \in Nat \ {0}
  PROVE  LET left == IF n % m = 0 THEN m ELSE n % m
         IN  left \in Nat \ {0} /\ (n > 0 => left <= n)
<1>1. PICK r \in Nat : r = n % m
  OBVIOUS
<1>2. PICK q \in Nat : q = n \div m
  OBVIOUS
<1>3. n = m * q + r
  BY <1>1, <1>2
<1>4. r <= n
  BY <1>3
<1>5. r = 0 /\ n > 0 => m <= n
  BY <1>3
<1> QED
  BY <1>1, <1>4, <1>5

LEMMA CommandedDrives ==
  ASSUME TypeInv, NEW id \in Drives, NEW command \in Transfers \cup Identifies,
         NEW count \in Nat, NEW lba \in Nat,
         drive' = Commanded(id, command, count, lba)
  PROVE  /\ drive' \in [Drives -> States]
         /\ \A d \in Drives : d # id => drive'[d] = drive[d]
         /\ \/ kind[id] = "none" /\ drive'[id] = drive[id]
            \/ /\ kind[id] # "none" /\ command \notin Accepts(id)
               /\ drive'[id] = Resting("error")
            \/ /\ kind[id] # "none" /\ command \in Accepts(id)
               /\ drive'[id].op = IF command = "atapi identify" THEN "identify"
                                  ELSE command
               /\ drive'[id].busy /\ drive'[id].lba = lba
               /\ drive'[id].left \in Nat \ {0}
               /\ count > 0 => drive'[id].left <= count
<1> DEFINE op == IF command = "atapi identify" THEN "identify" ELSE command
           left == IF count % CountRange = 0 THEN CountRange ELSE count % CountRange
           begun == [op |-> op, busy |-> TRUE, lba |-> lba, block |-> NoBlock,
                     left |-> left]
<1>1. left \in Nat \ {0} /\ (count > 0 => left <= count)
  BY Remainder, Bounds
<1>2. op \in {"read", "write", "packet", "identify"}
  BY DEF Transfers, Identifies
<1>3. drive' = IF kind[id] = "none" THEN drive
               ELSE [drive EXCEPT ![id] = IF command \notin Accepts(id)
                                          THEN Resting("error") ELSE begun]
  BY DEF Commanded, Attached
<1> HIDE DEF left, op
<1>4. begun \in States
  BY <1>1, <1>2 DEF States
<1>5. /\ begun.op = op /\ begun.busy /\ begun.lba = lba /\ begun.left = left
  OBVIOUS
<1> HIDE DEF begun
<1>6. Resting("error") \in States
  BY RecordsOfDrives
<1>7. drive' \in [Drives -> States]
  BY <1>3, <1>4, <1>6 DEF TypeInv
<1>8. \A d \in Drives : d # id => drive'[d] = drive[d]
  BY <1>3 DEF TypeInv
<1>9. CASE kind[id] = "none"
  BY <1>3, <1>7, <1>8, <1>9
<1>10. CASE kind[id] # "none" /\ command \notin Accepts(id)
  BY <1>3, <1>7, <1>8, <1>10 DEF TypeInv
<1>11. CASE kind[id] # "none" /\ command \in Accepts(id)
  <2>1. drive'[id] = begun
    BY <1>3, <1>11 DEF TypeInv
  <2> QED
    BY <1>1, <1>5, <1>7, <1>8, <1>11, <2>1 DEF op
<1> QED
  BY <1>9, <1>10, <1>11

LEMMA SendCommandKeeps ==
  ASSUME AtaInv, SendCommand
  PROVE  AtaInv'
<1> DEFINE id == call.id
           mask == ReadyMask(call.command)
<1> TypeInv /\ CallInv /\ DriveInv /\ DeviceInv /\ TransferInv
  BY DEF AtaInv
<1>1. call.pc = "ready" /\ call.pc \in Sending /\ call.i = 0 /\ calls > 0
  BY DEF SendCommand, CallInv, Pc, Sending
<1>2. id \in Drives /\ call.nblocks \in Nat /\ call.offset \in Nat
  BY NotIdle
<1>3. \/ Identifying /\ call.fun \in Inits /\ call.nblocks = 0
      \/ /\ call.command \in Transfers /\ call.fun \in Users /\ ~Identifying
         /\ call.nblocks > 0
  BY <1>1, <1>2 DEF CallInv, Transfers, Identifying
<1>4. Selected(id) = id /\ ~Floating(id) /\ select[Channel(id)] = id % 2
  BY <1>1, <1>2, SlavePlace DEF CallInv, Pc
<1>5. mask = IF call.command \in {"atapi identify", "packet"} THEN {"BSY"}
             ELSE {"BSY", "RDY"}
  BY DEF ReadyMask
<1>6. CASE FailedWait(mask, mask \ {"BSY"})
  <2>1. ASSUME call.fun = "fs_init", probed'[id] = "clean", kind[id] # "none"
        PROVE  call.command = "identify" /\ kind[id] # "ata"
    <3>1. "BSY" \notin Status(id) /\ ~Ready(mask, mask \ {"BSY"})
      BY <1>6, <2>1, GivenUpHitch DEF FailedWait, GivenUp
    <3>2. call.command = "identify"
      <4>1. Identifying
        BY <1>3, <2>1 DEF Users
      <4>2. call.command # "atapi identify"
        BY <1>5, <3>1 DEF Ready
      <4> QED
        BY <4>1, <4>2 DEF Identifying
    <3>3. "RDY" \notin Status(id)
      BY <1>5, <3>1, <3>2 DEF Ready
    <3>4. kind[id] # "ata"
      BY <1>2, <1>4, <2>1, <3>1, <3>3, ReadyBit DEF Attached
    <3> QED
      BY <3>2, <3>4
  <2> QED
    BY <1>1, <1>6, <2>1, FailedWaitKeeps
<1>7. CASE /\ Ready(mask, mask \ {"BSY"})
           /\ drive' = Commanded(Selected(id), call.command, call.nblocks, call.offset)
           /\ Goto(IF call.command = "packet" THEN "packet" ELSE "data")
           /\ UNCHANGED <<kind, select, medium, buffer, devices, calls, history>>
  <2>1. /\ call' \in CallRecords
        /\ call'.pc = IF call.command = "packet" THEN "packet" ELSE "data"
        /\ call'.fun = call.fun /\ call'.command = call.command
        /\ call'.id = id /\ call'.nblocks = call.nblocks
        /\ call'.offset = call.offset /\ call'.i = 0
    BY <1>1, <1>7, GotoFields DEF Sending
  <2>2. UNCHANGED <<kind, select, medium, buffer, devices, calls, probed,
                    stored, refused>>
    BY <1>7 DEF history
  <2>3. /\ drive' \in [Drives -> States]
        /\ \A d \in Drives : d # id => drive'[d] = drive[d]
        /\ \/ kind[id] = "none" /\ drive'[id] = drive[id]
           \/ /\ kind[id] # "none" /\ call.command \notin Accepts(id)
              /\ drive'[id] = Resting("error")
           \/ /\ kind[id] # "none" /\ call.command \in Accepts(id)
              /\ drive'[id].op = IF call.command = "atapi identify" THEN "identify"
                                 ELSE call.command
              /\ drive'[id].busy /\ drive'[id].lba = call.offset
              /\ drive'[id].left \in Nat \ {0}
              /\ call.nblocks > 0 => drive'[id].left <= call.nblocks
    <3>1. call.command \in Transfers \cup Identifies
      BY <1>3 DEF Identifying, Identifies
    <3> QED
      BY <1>2, <1>4, <1>7, <3>1, CommandedDrives
  <2>4. /\ AtRest
        /\ \/ drive'[id].op \in {"idle", "asleep", "error"} /\ (AtRest)'
           \/ /\ kind[id] # "none" /\ call.command \in Accepts(id)
              /\ drive'[id].op = IF call.command = "atapi identify" THEN "identify"
                                 ELSE call.command
              /\ drive'[id].busy /\ drive'[id].lba = call.offset
              /\ drive'[id].left \in Nat \ {0}
              /\ call.nblocks > 0 => drive'[id].left <= call.nblocks
    <3>1. AtRest
      BY <1>1, RestBetweenCommands
    <3>2. CASE drive'[id] = drive[id] \/ drive'[id] = Resting("error")
      <4>1. \A d \in Drives : drive'[d] = drive[d] \/ drive'[d] = Resting("error")
        BY <2>3, <3>2
      <4>2. AtRest'
        BY <3>1, <4>1, RecordsOfDrives DEF AtRest, Quiet
      <4> QED
        BY <1>2, <3>1, <4>2 DEF AtRest, Quiet
    <3> QED
      BY <2>3, <3>1, <3>2
  <2>5. TypeInv'
    BY <2>1, <2>2, <2>3 DEF TypeInv
  <2>6. CallInv'
    <3>1. ~Floating(id)'
      BY <1>4, <2>1, <2>2, FloatingKept
    <3>2. Channel(id)' = Channel(id)
      BY <2>1 DEF Channel
    <3>3. call.command = "packet" => ~Identifying
      BY DEF Identifying
    <3> QED
      BY <1>1, <1>3, <1>4, <2>1, <2>2, <3>1, <3>2, <3>3
      DEF CallInv, Pc, Identifying, Sending
  <2>7. DriveInv'
    <3>1. CASE AtRest'
      BY <2>1, <3>1, RestIsEnoughPrimed
    <3>2. CASE /\ kind[id] # "none"
               /\ drive'[id].op = IF call.command = "atapi identify" THEN "identify"
                                  ELSE call.command
               /\ drive'[id].busy
               /\ drive'[id].left \in Nat \ {0}
               /\ call.nblocks > 0 => drive'[id].left <= call.nblocks
      <4>1. ASSUME NEW d \in Drives
            PROVE  ( /\ drive[d].op \in {"idle", "error"} => ~drive[d].busy
                     /\ drive[d].op = "store" => drive[d].busy
                     /\ drive[d].op \in {"read", "write", "store"} => drive[d].left > 0
                     /\ (d # call.id \/ call.pc \notin {"packet", "data", "end"})
                          => Quiet(d)
                     /\ Quiet(d) \/ kind[d] # "none" )'
        <5>1. CASE d # id
          BY <2>1, <2>2, <2>3, <2>4, <5>1 DEF AtRest, Quiet
        <5>2. CASE d = id
          <6>1. drive'[id].op \in {"read", "write", "packet", "identify"}
            BY <1>3, <3>2 DEF Transfers, Identifying
          <6>2. call'.id = id /\ call'.pc \in {"packet", "data", "end"}
            BY <2>1
          <6>3. kind'[id] # "none"
            BY <2>2, <3>2
          <6>4. drive'[id].left > 0
            <7>1. \A n \in Nat \ {0} : n > 0
              OBVIOUS
            <7> QED
              BY <3>2, <7>1
          <6> QED
            BY <3>2, <5>2, <6>1, <6>2, <6>3, <6>4
        <5> QED
          BY <5>1, <5>2
      <4>2. call.nblocks - 0 = call.nblocks
        BY <1>2
      <4>3. call.command = "packet" => drive'[id].op = "packet"
        BY <3>2
      <4>4. call.command # "packet" =>
              \/ Identifying /\ drive'[id].op = "identify"
              \/ /\ call.command \in {"read", "write"}
                 /\ drive'[id].op = call.command
                 /\ drive'[id].left <= call.nblocks
        BY <1>3, <3>2 DEF Transfers, Identifying
      <4> QED
        BY <2>1, <4>1, <4>2, <4>3, <4>4 DEF DriveInv, Pc, Identifying
    <3> QED
      BY <2>4, <3>1, <3>2
  <2>8. DeviceInv'
    <3>1. \A d \in Drives : LookingAt(d) => LookingAt(d)'
      BY <2>1 DEF LookingAt, Pc
    <3>2. \A d \in Drives : Described(d)' /\ Known(d)'
      BY <2>2, <3>1, DevicesKept
    <3>3. drive'[id].op = "identify" =>
            /\ call.command \in {"identify", "atapi identify"}
            /\ kind[id] # "none" /\ call.command \in Accepts(id)
      BY <1>3, <2>4 DEF Transfers, Identifying
    <3>4. kind[id] \in Kinds
      BY <1>2 DEF TypeInv
    <3>5. drive'[id].op = "identify" =>
            kind[id] = IF call.command = "identify" THEN "ata" ELSE "atapi"
      BY <3>3, <3>4 DEF Accepts, Kinds
    <3>6. ASSUME call.fun = "fs_init", probed[id] = "clean", kind[id] # "none"
          PROVE  /\ kind[id] = "ata" => call.command = "identify"
                 /\ drive'[id].op = "identify"
      <4>1. Identifying
        BY <1>3, <3>6 DEF Users
      <4>2. kind[id] = "ata" => call.command = "identify"
        BY <1>1, <3>6 DEF DeviceInv
      <4>3. kind[id] # "ata" => call.command = "atapi identify"
        <5>1. SUFFICES ASSUME kind[id] # "ata", call.command = "identify" PROVE FALSE
          BY <4>1 DEF Identifying
        <5>2. drive[id].op = "asleep"
          BY <1>1, <4>1 DEF DeviceInv
        <5>3. "RDY" \notin Status(id)
          BY <1>2, <1>4, <3>6, <5>1, <5>2, AsleepNotReady DEF Attached
        <5>4. "RDY" \in Status(id)
          BY <1>5, <1>7, <5>1 DEF Ready
        <5> QED
          BY <5>3, <5>4
      <4>4. call.command \in Accepts(id)
        BY <3>4, <3>6, <4>2, <4>3 DEF Accepts, Kinds
      <4>5. drive'[id].op = "identify"
        BY <2>3, <3>6, <4>1, <4>4 DEF Identifying
      <4> QED
        BY <4>2, <4>5
    <3>7. Identifying => call'.pc = "data"
      BY <2>1 DEF Identifying
    <3> QED
      BY <2>1, <2>2, <3>2, <3>5, <3>6, <3>7 DEF DeviceInv, Pc
  <2>9. TransferInv'
    <3>1. ~Identifying => buffer = <<>> /\ stored = 0 /\ ~refused
      BY <1>1 DEF TransferInv
    <3>2. call.command = "packet" \/ call.command = "read" \/ call.command = "write"
          => ~Identifying
      BY DEF Identifying
    <3>3. call.offset + 0 = call.offset
      BY <1>2
    <3>4. \A n : n = 0 => Len(<<>>) = n /\ 1 .. n = {}
      BY NothingIsRead
    <3>5. drive'[id].op # "store"
      BY <1>3, <2>4 DEF Transfers, Identifying
    <3>6. drive'[id].op \in {"read", "write"} =>
            /\ drive'[id].op = call.command
            /\ drive'[id].busy /\ drive'[id].lba = call.offset
      BY <2>4
    <3>7. call.command \in {"read", "packet"} => Read(call.i)'
      BY <2>1, <2>2, <3>1, <3>2, <3>4 DEF Read
    <3> QED
      BY <2>1, <2>2, <3>1, <3>2, <3>3, <3>5, <3>6, <3>7 DEF TransferInv, Pc, Identifying
  <2> QED
    BY <2>5, <2>6, <2>7, <2>8, <2>9 DEF AtaInv
<1> QED
  BY <1>6, <1>7 DEF SendCommand

LEMMA SendPacketKeeps ==
  ASSUME AtaInv, SendPacket
  PROVE  AtaInv'
<1> DEFINE id == call.id
<1> TypeInv /\ CallInv /\ DriveInv /\ DeviceInv /\ TransferInv
  BY DEF AtaInv
<1>1. /\ call.pc = "packet" /\ call.pc \in Sending /\ call.i = 0 /\ calls > 0
      /\ call.command = "packet"
  BY DEF SendPacket, CallInv, Pc, Sending
<1>2. /\ id \in Drives /\ call.nblocks \in Nat /\ call.offset \in Nat
      /\ call.nblocks > 0 /\ call.fun \in Users /\ ~Floating(id)
      /\ select[Channel(id)] = id % 2
  BY <1>1, NotIdle DEF CallInv, Pc, Identifying
<1>3. /\ call' \in CallRecords /\ call'.pc = "data"
      /\ call'.fun = call.fun /\ call'.command = "packet"
      /\ call'.id = id /\ call'.nblocks = call.nblocks
      /\ call'.offset = call.offset /\ call'.i = 0
  <2>1. Goto("data")
    BY DEF SendPacket
  <2> QED
    BY <1>1, <2>1, GotoFields DEF Sending
<1>4. UNCHANGED <<kind, medium, buffer, devices, calls, stored, refused>>
  BY DEF SendPacket
<1>5. /\ drive' \in [Drives -> States] /\ select' \in [Channels -> {0, 1}]
      /\ probed' \in [Drives -> Looks]
      /\ \A d \in Drives : probed'[d] = "clean" => probed[d] = "clean"
      /\ \/ AtRest'
         \/ /\ \A d \in Drives : d # id => drive'[d] = drive[d]
            /\ select' = select /\ kind[id] # "none"
            /\ drive'[id].op = "read" /\ drive'[id].busy
            /\ drive'[id].left = call.nblocks /\ drive'[id].lba = call.offset
  <2>1. CASE GivenUp({"BSY", "DRQ"}, {"DRQ"})
    <3>1. ata_reset(id)
      BY <2>1 DEF GivenUp
    <3> QED
      BY <1>2, <2>1, <3>1, ResetDrives, ResetIsRest, GivenUpHitch
  <2>2. CASE /\ Ready({"BSY", "DRQ"}, {"DRQ"})
             /\ drive' = [drive EXCEPT ![Selected(id)] =
                            IF @.op = "packet"
                            THEN [op |-> "read", busy |-> TRUE, block |-> NoBlock,
                                  lba |-> call.offset, left |-> call.nblocks]
                            ELSE @]
             /\ UNCHANGED <<select, probed>>
    <3> DEFINE begun == [op |-> "read", busy |-> TRUE, block |-> NoBlock,
                         lba |-> call.offset, left |-> call.nblocks]
    <3>1. Selected(id) = id
      BY <1>2, SlavePlace
    <3>2. "DRQ" \in Status(id)
      BY <2>2 DEF Ready
    <3>3. Attached(id) /\ drive[id].op \in {"read", "write", "identify", "packet"}
      BY <1>2, <3>1, <3>2, DataBit
    <3>4. drive[id].op = "packet"
      BY <1>1, <3>3 DEF DriveInv, Pc, Quiet
    <3>5. begun \in States /\ begun.op = "read" /\ begun.busy
          /\ begun.left = call.nblocks /\ begun.lba = call.offset
      BY <1>2 DEF States
    <3>6. drive' = [drive EXCEPT ![id] = begun]
      BY <2>2, <3>1, <3>4
    <3> HIDE DEF begun
    <3>7. /\ drive' \in [Drives -> States] /\ drive'[id] = begun
          /\ \A d \in Drives : d # id => drive'[d] = drive[d]
      BY <1>2, <3>5, <3>6 DEF TypeInv
    <3> QED
      BY <2>2, <3>3, <3>5, <3>7 DEF TypeInv, Attached
  <2> QED
    BY <2>1, <2>2 DEF SendPacket
<1>6. TypeInv'
  BY <1>3, <1>4, <1>5 DEF TypeInv
<1>7. CallInv'
  <2>1. ~Floating(id)'
    BY <1>2, <1>3, <1>4, FloatingKept
  <2>2. Channel(id)' = Channel(id)
    BY <1>3 DEF Channel
  <2>3. Quiet(id)' \/ select'[Channel(id)] = id % 2
    BY <1>2, <1>3, <1>5 DEF AtRest, Quiet
  <2>4. call.i < call.nblocks /\ "packet" \in Transfers
    BY <1>1, <1>2 DEF Transfers
  <2> QED
    BY <1>1, <1>2, <1>3, <1>4, <2>1, <2>2, <2>3, <2>4
    DEF CallInv, Pc, Sending
<1>8. DriveInv'
  <2>1. CASE AtRest'
    BY <1>3, <2>1, RestIsEnoughPrimed
  <2>2. CASE /\ \A d \in Drives : d # id => drive'[d] = drive[d]
             /\ kind[id] # "none"
             /\ drive'[id].op = "read" /\ drive'[id].busy
             /\ drive'[id].left = call.nblocks
    <3>1. ASSUME NEW d \in Drives
          PROVE  ( /\ drive[d].op \in {"idle", "error"} => ~drive[d].busy
                   /\ drive[d].op = "store" => drive[d].busy
                   /\ drive[d].op \in {"read", "write", "store"} => drive[d].left > 0
                   /\ (d # call.id \/ call.pc \notin {"packet", "data", "end"})
                        => Quiet(d)
                   /\ Quiet(d) \/ kind[d] # "none" )'
      <4>1. CASE d # id
        BY <1>3, <1>4, <2>2, <4>1 DEF DriveInv, Quiet
      <4>2. CASE d = id
        BY <1>2, <1>3, <1>4, <2>2, <4>2
      <4> QED
        BY <4>1, <4>2
    <3>2. call.nblocks <= call.nblocks - 0
      BY <1>2
    <3> QED
      BY <1>3, <2>2, <3>1, <3>2 DEF DriveInv, Pc
  <2> QED
    BY <1>5, <2>1, <2>2
<1>9. DeviceInv'
  <2>1. \A d \in Drives : LookingAt(d) => LookingAt(d)'
    BY <1>3 DEF LookingAt, Pc
  <2>2. \A d \in Drives : Described(d)' /\ Known(d)'
    BY <1>4, <1>5, <2>1, DevicesKept
  <2>3. drive'[id].op # "identify" /\ call'.fun # "fs_init"
    BY <1>2, <1>3, <1>5 DEF AtRest, Quiet, Users
  <2> QED
    BY <1>3, <2>2, <2>3 DEF DeviceInv, Pc
<1>10. TransferInv'
  <2>1. buffer = <<>>
    BY <1>1 DEF TransferInv, Identifying
  <2>2. \A n : n = 0 => Len(<<>>) = n /\ 1 .. n = {}
    BY NothingIsRead
  <2>3. Read(call.i)'
    BY <1>3, <1>4, <2>1, <2>2 DEF Read
  <2>4. drive'[id].op \in {"idle", "asleep", "error"}
        \/ /\ drive'[id].op = "read" /\ drive'[id].busy
           /\ drive'[id].lba = call.offset
    BY <1>2, <1>3, <1>5 DEF AtRest, Quiet
  <2>5. call.offset + 0 = call.offset
    BY <1>2
  <2> QED
    BY <1>3, <2>3, <2>4, <2>5 DEF TransferInv, Pc
<1> QED
  BY <1>6, <1>7, <1>8, <1>9, <1>10 DEF AtaInv

(* A drive that has data, or waits for some, is the one that was asked.    *)
LEMMA DataReady ==
  ASSUME AtaInv, Pc("data"), Ready({"DRQ"}, {"DRQ"})
  PROVE  /\ Selected(call.id) = call.id /\ kind[call.id] # "none"
         /\ ~drive[call.id].busy
         /\ \/ Identifying /\ drive[call.id].op = "identify"
            \/ /\ call.command \in {"read", "packet"} /\ drive[call.id].op = "read"
               /\ drive[call.id].left <= call.nblocks - call.i
            \/ /\ call.command = "write" /\ drive[call.id].op = "write"
               /\ drive[call.id].left <= call.nblocks - call.i
<1> TypeInv /\ CallInv /\ DriveInv
  BY DEF AtaInv
<1>1. call.id \in Drives /\ call.pc = "data" /\ ~Floating(call.id)
  BY NotIdle DEF Pc, CallInv
<1>2. "DRQ" \in Status(call.id)
  BY DEF Ready
<1>3. /\ Attached(Selected(call.id)) /\ ~drive[Selected(call.id)].busy
      /\ drive[Selected(call.id)].op \in {"read", "write", "identify", "packet"}
  BY <1>1, <1>2, DataBit
<1>4. Selected(call.id) = call.id
  BY <1>1, <1>3, SlavePlace DEF CallInv, Pc, DriveInv, Quiet, Attached
<1> QED
  BY <1>1, <1>3, <1>4 DEF DriveInv, Pc, Quiet, Attached

(* A block goes through the data register.                                 *)
LEMMA TransferredDrive ==
  ASSUME TypeInv, NEW id \in Drives, NEW block \in Values,
         drive' = [drive EXCEPT ![id] = Transferred(id, block)],
         drive[id].op \in {"read", "write", "identify"}
  PROVE  /\ drive' \in [Drives -> States]
         /\ \A d \in Drives : d # id => drive'[d] = drive[d]
         /\ \/ /\ drive[id].op = "read" /\ drive[id].left > 1
               /\ drive'[id].op = "read" /\ drive'[id].busy
               /\ drive'[id].lba = drive[id].lba + 1
               /\ drive'[id].left = drive[id].left - 1
            \/ /\ drive[id].op = "write"
               /\ drive'[id].op = "store" /\ drive'[id].busy
               /\ drive'[id].lba = drive[id].lba /\ drive'[id].left = drive[id].left
               /\ drive'[id].block = block
            \/ /\ drive[id].op = "read" => drive[id].left <= 1
               /\ drive[id].op # "write"
               /\ drive'[id] = Resting("idle")
<1>1. PICK r \in States : r = drive[id]
  BY DEF TypeInv
<1>2. r.left \in Nat /\ r.lba \in Nat
  BY DEF States
<1>3. Transferred(id, block) \in States => drive' \in [Drives -> States]
  BY DEF TypeInv
<1>4. /\ drive'[id] = Transferred(id, block)
      /\ \A d \in Drives : d # id => drive'[d] = drive[d]
  BY DEF TypeInv
<1>5. CASE drive[id].op = "read" /\ drive[id].left > 1
  <2>1. PICK n \in Nat, lba \in Nat : n = r.left - 1 /\ lba = r.lba + 1
    BY <1>1, <1>2, <1>5
  <2> DEFINE s == [[[r EXCEPT !.busy = TRUE] EXCEPT !.lba = lba] EXCEPT !.left = n]
  <2>2. Transferred(id, block) = s
    BY <1>1, <1>5, <2>1 DEF Transferred
  <2>3. s \in States /\ s.op = r.op /\ s.busy /\ s.lba = lba /\ s.left = n
    BY <2>1 DEF States
  <2> HIDE DEF s
  <2> QED
    BY <1>1, <1>3, <1>4, <1>5, <2>1, <2>2, <2>3
<1>6. CASE drive[id].op = "write"
  <2> DEFINE s == [[[r EXCEPT !.op = "store"] EXCEPT !.busy = TRUE] EXCEPT !.block = block]
  <2>1. Transferred(id, block) = s
    BY <1>1, <1>6 DEF Transferred
  <2>2. /\ s \in States /\ s.op = "store" /\ s.busy /\ s.lba = r.lba
        /\ s.left = r.left /\ s.block = block
    BY DEF States
  <2> HIDE DEF s
  <2> QED
    BY <1>1, <1>3, <1>4, <1>6, <2>1, <2>2
<1>7. CASE drive[id].op # "write" /\ (drive[id].op = "read" => ~(drive[id].left > 1))
  <2>1. Transferred(id, block) = Resting("idle")
    BY <1>7 DEF Transferred
  <2>2. drive[id].op = "read" => drive[id].left <= 1
    BY <1>1, <1>2, <1>7
  <2> QED
    BY <1>3, <1>4, <1>7, <2>1, <2>2, RecordsOfDrives
<1> QED
  BY <1>5, <1>6, <1>7

(* What is in the buffer after one more block.                             *)
LEMMA OneMoreBlock ==
  ASSUME TypeInv, Read(call.i), ata_pio_read(call.id),
         call.command # "write", drive[call.id].op = "read",
         drive[call.id].lba = call.offset + call.i, drive[call.id].lba \in Blocks
  PROVE  /\ buffer' \in Seq(Values)
         /\ Len(buffer') = call.i + 1
         /\ \A k \in 1 .. call.i + 1 :
              /\ call.offset + k - 1 \in Blocks
              /\ buffer'[k] = medium[call.id][call.offset + k - 1]
<1>1. PICK i \in Nat, offset \in Nat : i = call.i /\ offset = call.offset
  BY NotIdle
<1>2. /\ Len(buffer) = i
      /\ \A k \in 1 .. i : /\ offset + k - 1 \in Blocks
                           /\ buffer[k] = medium[call.id][offset + k - 1]
  BY <1>1 DEF Read
<1>3. PICK b \in Values : b = medium[call.id][offset + i]
  BY <1>1, NotIdle DEF TypeInv
<1>4. buffer' = Append(buffer, b)
  BY <1>1, <1>3 DEF ata_pio_read
<1>5. buffer \in Seq(Values)
  BY DEF TypeInv
<1>6. /\ buffer' \in Seq(Values) /\ Len(buffer') = i + 1
      /\ buffer'[i + 1] = b
      /\ \A k \in 1 .. i : buffer'[k] = buffer[k]
  BY <1>2, <1>4, <1>5
<1>7. ASSUME NEW k \in 1 .. i + 1
      PROVE  /\ offset + k - 1 \in Blocks
             /\ buffer'[k] = medium[call.id][offset + k - 1]
  <2>1. CASE k \in 1 .. i
    BY <1>2, <1>6, <2>1
  <2>2. CASE k = i + 1
    <3>1. offset + k - 1 = offset + i
      BY <2>2
    <3> QED
      BY <1>1, <1>3, <1>6, <2>2, <3>1
  <2> QED
    BY <2>1, <2>2
<1> QED
  BY <1>1, <1>6, <1>7

LEMMA TransferKeeps ==
  ASSUME AtaInv, Transfer
  PROVE  AtaInv'
<1> DEFINE id == call.id
           block == New(calls, call.i)
<1> TypeInv /\ CallInv /\ DriveInv /\ DeviceInv /\ TransferInv
  BY DEF AtaInv
<1>1. Pc("data") /\ call.pc = "data" /\ call.pc \in Sending /\ calls > 0
  BY DEF Transfer, CallInv, Pc, Sending
<1>2. /\ id \in Drives /\ call.nblocks \in Nat /\ call.offset \in Nat
      /\ call.i \in Nat
  BY NotIdle
<1>3. \/ Identifying /\ call.fun \in Inits /\ call.i = 0 /\ Turns = 1
      \/ /\ ~Identifying /\ call.command \in Transfers /\ call.fun \in Users
         /\ call.i < call.nblocks /\ Turns = call.nblocks
  BY <1>1 DEF CallInv, Transfers, Identifying, Turns
<1>4. block \in Values
  <2>1. calls \in 1 .. MaxCalls
    BY <1>1, Bounds DEF TypeInv
  <2> QED
    BY <1>2, <2>1, NewIsValue
<1>5. CASE FailedWait({"DRQ"}, {"DRQ"})
  <2>1. ASSUME call.fun = "fs_init", probed'[id] = "clean", kind[id] # "none"
        PROVE  FALSE
    <3>1. "DRQ" \notin Status(id) /\ "BSY" \notin Status(id)
      BY <1>5, <2>1, GivenUpHitch DEF FailedWait, GivenUp, Ready
    <3>2. probed[id] = "clean"
      BY <1>2, <1>5, <2>1, GivenUpHitch DEF FailedWait
    <3>3. drive[id].op = "identify"
      BY <1>1, <2>1, <3>2 DEF DeviceInv
    <3>4. Selected(id) = id /\ ~Floating(id)
      BY <1>1, <1>2, <3>3, SlavePlace DEF CallInv, Quiet
    <3> QED
      BY <1>2, <2>1, <3>1, <3>3, <3>4, QuietNoData DEF Attached
  <2> QED
    BY <1>1, <1>5, <2>1, FailedWaitKeeps
<1>6. ASSUME Ready({"DRQ"}, {"DRQ"}),
             drive' = [drive EXCEPT ![Selected(id)] = Transferred(Selected(id), block)],
             UNCHANGED <<kind, select, medium, calls, stored, refused, probed>>
      PROVE  /\ drive' \in [Drives -> States]
             /\ \A d \in Drives : d # id => drive'[d] = drive[d]
             /\ kind[id] # "none" /\ Selected(id) = id
             /\ \/ /\ Identifying /\ drive[id].op = "identify"
                   /\ drive'[id] = Resting("idle")
                \/ /\ call.command \in {"read", "packet"} /\ drive[id].op = "read"
                   /\ drive[id].left > 1 /\ ~drive[id].busy
                   /\ drive'[id].op = "read" /\ drive'[id].busy
                   /\ drive'[id].lba = drive[id].lba + 1
                   /\ drive'[id].left = drive[id].left - 1
                   /\ drive[id].left <= call.nblocks - call.i
                \/ /\ call.command \in {"read", "packet"} /\ drive[id].op = "read"
                   /\ drive[id].left <= 1 /\ ~drive[id].busy
                   /\ drive'[id] = Resting("idle")
                \/ /\ call.command = "write" /\ drive[id].op = "write"
                   /\ drive'[id].op = "store" /\ drive'[id].busy
                   /\ drive'[id].lba = drive[id].lba
                   /\ drive'[id].left = drive[id].left
                   /\ drive'[id].block = block
                   /\ drive[id].left <= call.nblocks - call.i
             /\ drive'[id].op \in {"idle", "read", "store"}
             /\ drive'[id] = Resting("idle") => AtRest'
  <2>1. /\ Selected(id) = id /\ kind[id] # "none" /\ ~drive[id].busy
        /\ \/ Identifying /\ drive[id].op = "identify"
           \/ /\ call.command \in {"read", "packet"} /\ drive[id].op = "read"
              /\ drive[id].left <= call.nblocks - call.i
           \/ /\ call.command = "write" /\ drive[id].op = "write"
              /\ drive[id].left <= call.nblocks - call.i
    BY <1>1, <1>6, DataReady
  <2> HIDE DEF block
  <2>2. /\ drive' \in [Drives -> States]
        /\ \A d \in Drives : d # id => drive'[d] = drive[d]
        /\ \/ /\ drive[id].op = "read" /\ drive[id].left > 1
              /\ drive'[id].op = "read" /\ drive'[id].busy
              /\ drive'[id].lba = drive[id].lba + 1
              /\ drive'[id].left = drive[id].left - 1
           \/ /\ drive[id].op = "write"
              /\ drive'[id].op = "store" /\ drive'[id].busy
              /\ drive'[id].lba = drive[id].lba /\ drive'[id].left = drive[id].left
              /\ drive'[id].block = block
           \/ /\ drive[id].op = "read" => drive[id].left <= 1
              /\ drive[id].op # "write"
              /\ drive'[id] = Resting("idle")
    BY <1>2, <1>4, <1>6, <2>1, TransferredDrive
  <2>3. drive'[id] = Resting("idle") => AtRest'
    BY <2>2, RecordsOfDrives DEF DriveInv, AtRest, Quiet
  <2> QED
    BY <2>1, <2>2, <2>3, RecordsOfDrives
<1>7. ASSUME Ready({"DRQ"}, {"DRQ"}), ata_pio_read(Selected(id)), ~Identifying
      PROVE  /\ buffer' \in Seq(Values)
             /\ call.command \in {"read", "packet"} =>
                  /\ Len(buffer') = call.i + 1
                  /\ \A k \in 1 .. call.i + 1 :
                       /\ call.offset + k - 1 \in Blocks
                       /\ buffer'[k] = medium[call.id][call.offset + k - 1]
  <2>1. /\ Selected(id) = id /\ ~drive[id].busy
        /\ \/ call.command \in {"read", "packet"} /\ drive[id].op = "read"
           \/ call.command = "write"
    BY <1>1, <1>7, DataReady
  <2>2. CASE call.command = "write"
    BY <1>7, <2>2 DEF ata_pio_read, TypeInv
  <2>3. CASE call.command \in {"read", "packet"} /\ drive[id].op = "read"
    <3>1. /\ Read(call.i) /\ drive[id].lba = call.offset + call.i
          /\ drive[id].lba \in Blocks
      BY <1>1, <2>1, <2>3 DEF TransferInv
    <3> QED
      BY <1>7, <2>1, <2>3, <3>1, OneMoreBlock
  <2> QED
    BY <2>1, <2>2, <2>3
<1> DEFINE Step ==
      /\ Ready({"DRQ"}, {"DRQ"})
      /\ drive' = [drive EXCEPT ![Selected(id)] = Transferred(Selected(id), block)]
      /\ UNCHANGED <<kind, select, medium, calls, stored, refused, probed>>
<1> HIDE DEF block
<1>8. CASE Step /\ Identifying
           /\ Probed(Found(IF call.command = "identify" THEN 512 ELSE 2048))
  <2> DEFINE device == Found(IF call.command = "identify" THEN 512 ELSE 2048)
  <2>1. drive' \in [Drives -> States] /\ AtRest' /\ drive[id].op = "identify"
    BY <1>6, <1>8 DEF Identifying
  <2>2. kind[id] = IF call.command = "identify" THEN "ata" ELSE "atapi"
    BY <1>1, <2>1 DEF DeviceInv
  <2>3. /\ device \in Devices /\ device.present
        /\ device.blocksize = IF kind[id] = "ata" THEN 512 ELSE 2048
    BY <2>2, FoundIsDevice
  <2>4. Probed(device) /\ kind[id] # "none"
    BY <1>8, <2>2
  <2>5. call.fun \in Inits
    BY <1>3, <1>8
  <2> HIDE DEF device
  <2>6. UNCHANGED <<kind, medium, calls, stored, refused>> /\ UNCHANGED probed
    BY <1>8
  <2>7. /\ select' \in [Channels -> {0, 1}] /\ probed' \in [Drives -> Looks]
        /\ \A d \in Drives : d # id /\ probed'[d] = "clean" => probed[d] = "clean"
    BY <1>8 DEF TypeInv
  <2> QED
    BY <1>1, <2>1, <2>3, <2>4, <2>5, <2>6, <2>7, ProbedKeeps
<1>9. CASE Step /\ call.i + 1 = Turns /\ call.command = "packet"
           /\ ata_pio_read(Selected(id)) /\ Return(TRUE)
  <2>1. ~Identifying
    BY <1>9 DEF Identifying
  <2>2. call.nblocks - call.i = 1
    BY <1>2, <1>3, <1>9, <2>1
  <2>3. drive' \in [Drives -> States] /\ AtRest'
    <3>1. ~(drive[id].left > 1 /\ drive[id].left <= 1)
      BY <1>2 DEF TypeInv, States
    <3> QED
      BY <1>6, <1>9, <2>1, <2>2, <3>1
  <2>4. buffer' \in Seq(Values)
    BY <1>7, <1>9, <2>1
  <2>5. /\ select' \in [Channels -> {0, 1}] /\ probed' \in [Drives -> Looks]
        /\ \A d \in Drives : probed'[d] = "clean" => probed[d] = "clean"
    BY <1>9 DEF TypeInv
  <2>6. UNCHANGED <<kind, medium, calls, stored, refused>>
    BY <1>9
  <2> QED
    BY <1>1, <1>9, <2>3, <2>4, <2>5, <2>6, ReturnKeeps
<1>10. CASE Step /\ call.i + 1 < Turns /\ call' = [call EXCEPT !.i = @ + 1]
            /\ ata_pio_read(Selected(id)) /\ UNCHANGED devices
  <2>1. /\ call' \in CallRecords /\ call'.pc = "data"
        /\ call'.fun = call.fun /\ call'.command = call.command
        /\ call'.id = id /\ call'.nblocks = call.nblocks
        /\ call'.offset = call.offset /\ call'.i = call.i + 1
    <3>1. PICK n \in Nat : n = call.i + 1
      BY <1>2
    <3> QED
      BY <1>1, <1>10, <3>1 DEF TypeInv, CallRecords
  <2>2. /\ ~Identifying /\ call.i + 1 < call.nblocks
        /\ call.command \in Transfers /\ call.fun \in Users
    BY <1>2, <1>3, <1>10
  <2>3. /\ drive' \in [Drives -> States] /\ kind[id] # "none"
        /\ \A d \in Drives : d # id => drive'[d] = drive[d]
        /\ \/ AtRest'
           \/ /\ call.command \in {"read", "packet"}
              /\ drive[id].left > 1 /\ drive[id].left <= call.nblocks - call.i
              /\ drive'[id].op = "read" /\ drive'[id].busy
              /\ drive'[id].lba = drive[id].lba + 1
              /\ drive'[id].left = drive[id].left - 1
              /\ drive[id].op = "read"
           \/ /\ call.command = "write"
              /\ drive'[id].op = "store" /\ drive'[id].busy
              /\ drive'[id].lba = drive[id].lba /\ drive'[id].left = drive[id].left
              /\ drive'[id].block = block
              /\ drive[id].left <= call.nblocks - call.i
              /\ drive[id].op = "write"
    BY <1>6, <1>10, <2>2
  <2>4. UNCHANGED <<kind, select, medium, calls, stored, refused, probed, devices>>
    BY <1>10
  <2>5. TypeInv'
    BY <1>7, <1>10, <2>1, <2>2, <2>3, <2>4 DEF TypeInv
  <2>6. CallInv'
    <3>1. ~Floating(id)' /\ Channel(id)' = Channel(id)
      BY <1>1, <2>1, <2>4, FloatingKept DEF CallInv, Channel
    <3>2. select[Channel(id)] = id % 2
      <4>1. ~Quiet(id)
        BY <1>1, <1>10, <2>2, DataReady DEF Quiet
      <4> QED
        BY <1>1, <4>1 DEF CallInv
    <3> QED
      BY <1>1, <2>1, <2>2, <2>4, <3>1, <3>2 DEF CallInv, Pc, Sending
  <2>7. DriveInv'
    <3>1. CASE AtRest'
      BY <2>1, <3>1, RestIsEnoughPrimed
    <3>2. CASE ~AtRest'
      <4>1. drive[id].left \in Nat /\ drive[id].left > 0
        BY <1>2, <2>3, <3>2 DEF TypeInv, States, DriveInv
      <4>2. drive'[id].op \in {"read", "store"} /\ drive'[id].busy
            /\ drive'[id].left > 0
        BY <2>3, <3>2, <4>1
      <4>3. ASSUME NEW d \in Drives
            PROVE  ( /\ drive[d].op \in {"idle", "error"} => ~drive[d].busy
                     /\ drive[d].op = "store" => drive[d].busy
                     /\ drive[d].op \in {"read", "write", "store"} => drive[d].left > 0
                     /\ (d # call.id \/ call.pc \notin {"packet", "data", "end"})
                          => Quiet(d)
                     /\ Quiet(d) \/ kind[d] # "none" )'
        <5>1. CASE d # id
          BY <2>1, <2>3, <2>4, <5>1 DEF DriveInv, Quiet
        <5>2. CASE d = id
          BY <2>1, <2>3, <2>4, <4>2, <5>2
        <5> QED
          BY <5>1, <5>2
      <4>4. \/ /\ call.command \in {"read", "packet"} /\ drive'[id].op = "read"
               /\ drive'[id].left <= call.nblocks - (call.i + 1)
            \/ /\ call.command = "write" /\ drive'[id].op = "store"
               /\ drive'[id].left <= call.nblocks - (call.i + 1) + 1
        BY <1>2, <2>3, <3>2, <4>1
      <4> QED
        BY <2>1, <4>3, <4>4 DEF DriveInv, Pc
    <3> QED
      BY <3>1, <3>2
  <2>8. DeviceInv'
    <3>1. \A d \in Drives : LookingAt(d) => LookingAt(d)'
      BY <2>1 DEF LookingAt, Pc
    <3>2. \A d \in Drives : Described(d)' /\ Known(d)'
      BY <2>4, <3>1, DevicesKept
    <3>3. drive'[id].op # "identify" /\ call'.fun # "fs_init"
      BY <1>2, <2>1, <2>2, <2>3 DEF AtRest, Quiet, Users
    <3> QED
      BY <2>1, <3>2, <3>3 DEF DeviceInv, Pc
  <2>9. TransferInv'
    <3>1. call.command \in {"read", "packet"} => Read(call.i)'
      BY <1>7, <1>10, <2>1, <2>2, <2>4 DEF Read
    <3>2. drive'[id].op = "read" =>
            drive'[id].lba = call.offset + (call.i + 1) /\ drive'[id].busy
      <4>1. SUFFICES ASSUME drive'[id].op = "read" PROVE drive'[id].busy
                     /\ drive'[id].lba = call.offset + (call.i + 1)
        OBVIOUS
      <4>2. /\ call.command \in {"read", "packet"} /\ drive[id].op = "read"
            /\ drive'[id].lba = drive[id].lba + 1 /\ drive'[id].busy
        BY <1>2, <2>3, <4>1 DEF AtRest, Quiet
      <4>3. drive[id].lba = call.offset + call.i
        BY <1>1, <4>2 DEF TransferInv
      <4> QED
        BY <1>2, <4>2, <4>3
    <3>3. drive'[id].op = "store" =>
            /\ drive'[id].lba = call.offset + stored
            /\ drive'[id].block = New(calls, stored)
            /\ ~refused /\ stored = (call.i + 1) - 1
      <4>1. SUFFICES ASSUME drive'[id].op = "store"
                     PROVE  /\ drive'[id].lba = call.offset + stored
                            /\ drive'[id].block = New(calls, stored)
                            /\ ~refused /\ stored = (call.i + 1) - 1
        OBVIOUS
      <4>2. /\ drive[id].op = "write" /\ drive'[id].lba = drive[id].lba
            /\ drive'[id].block = block
        BY <1>2, <2>3, <4>1 DEF AtRest, Quiet
      <4>3. drive[id].lba = call.offset + call.i /\ stored = call.i /\ ~refused
        BY <1>1, <4>2 DEF TransferInv
      <4> QED
        BY <1>2, <4>2, <4>3 DEF block
    <3>4. drive'[id].op # "write"
      BY <1>2, <2>3 DEF AtRest, Quiet
    <3> QED
      BY <2>1, <2>4, <3>1, <3>2, <3>3, <3>4 DEF TransferInv, Pc
  <2> QED
    BY <2>5, <2>6, <2>7, <2>8, <2>9 DEF AtaInv
<1>11. CASE Step /\ call.i + 1 = Turns /\ call.command \in {"read", "write"}
            /\ Goto("end") /\ ata_pio_read(Selected(id)) /\ UNCHANGED devices
  <2>1. /\ call' \in CallRecords /\ call'.pc = "end"
        /\ call'.fun = call.fun /\ call'.command = call.command
        /\ call'.id = id /\ call'.nblocks = call.nblocks
        /\ call'.offset = call.offset /\ call'.i = call.i
    BY <1>11, GotoFields DEF Sending
  <2>2. /\ ~Identifying /\ call.i + 1 = call.nblocks /\ call.nblocks - call.i = 1
        /\ call.command \in Transfers /\ call.fun \in Users
    <3>1. ~Identifying
      BY <1>11 DEF Identifying
    <3> QED
      BY <1>2, <1>3, <1>11, <3>1
  <2>3. /\ drive' \in [Drives -> States] /\ kind[id] # "none"
        /\ \A d \in Drives : d # id => drive'[d] = drive[d]
        /\ \/ AtRest' /\ call.command = "read"
           \/ /\ call.command = "write"
              /\ drive'[id].op = "store" /\ drive'[id].busy
              /\ drive'[id].lba = drive[id].lba /\ drive'[id].left = 1
              /\ drive'[id].block = block
              /\ drive[id].op = "write"
    <3>1. drive[id].left \in Nat
      BY <1>2 DEF TypeInv, States
    <3>2. drive[id].op = "write" => drive[id].left > 0
      BY <1>2 DEF DriveInv
    <3>3. ~(drive[id].left > 1 /\ drive[id].left <= call.nblocks - call.i)
      BY <2>2, <3>1
    <3>4. drive[id].left > 0 /\ drive[id].left <= call.nblocks - call.i
            => drive[id].left = 1
      BY <2>2, <3>1
    <3>5. call.command # "packet"
      BY <1>11
    <3> QED
      BY <1>6, <1>11, <2>2, <3>2, <3>3, <3>4, <3>5
  <2>4. UNCHANGED <<kind, select, medium, calls, stored, refused, probed, devices>>
    BY <1>11
  <2>5. TypeInv'
    BY <1>7, <1>11, <2>1, <2>2, <2>3, <2>4 DEF TypeInv
  <2>6. CallInv'
    <3>1. ~Floating(id)' /\ Channel(id)' = Channel(id)
      BY <1>1, <2>1, <2>4, FloatingKept DEF CallInv, Channel
    <3>2. select[Channel(id)] = id % 2
      <4>1. ~Quiet(id)
        BY <1>1, <1>11, <2>2, DataReady DEF Quiet
      <4> QED
        BY <1>1, <4>1 DEF CallInv
    <3>3. call.i < call.nblocks
      BY <1>2, <2>2
    <3> QED
      BY <1>1, <1>11, <2>1, <2>2, <2>4, <3>1, <3>2, <3>3 DEF CallInv, Pc, Sending
  <2>7. DriveInv'
    <3>1. CASE AtRest'
      BY <2>1, <3>1, RestIsEnoughPrimed
    <3>2. CASE ~AtRest'
      <4>1. ASSUME NEW d \in Drives
            PROVE  ( /\ drive[d].op \in {"idle", "error"} => ~drive[d].busy
                     /\ drive[d].op = "store" => drive[d].busy
                     /\ drive[d].op \in {"read", "write", "store"} => drive[d].left > 0
                     /\ (d # call.id \/ call.pc \notin {"packet", "data", "end"})
                          => Quiet(d)
                     /\ Quiet(d) \/ kind[d] # "none" )'
        <5>1. CASE d # id
          BY <2>1, <2>3, <2>4, <5>1 DEF DriveInv, Quiet
        <5>2. CASE d = id
          BY <2>1, <2>3, <2>4, <3>2, <5>2
        <5> QED
          BY <5>1, <5>2
      <4> QED
        BY <2>1, <2>3, <3>2, <4>1 DEF DriveInv, Pc
    <3> QED
      BY <3>1, <3>2
  <2>8. DeviceInv'
    <3>1. \A d \in Drives : LookingAt(d) => LookingAt(d)'
      BY <2>1 DEF LookingAt, Pc
    <3>2. \A d \in Drives : Described(d)' /\ Known(d)'
      BY <2>4, <3>1, DevicesKept
    <3> QED
      BY <2>1, <3>2 DEF DeviceInv, Pc
  <2>9. TransferInv'
    <3>1. call.command = "read" => Read(call.nblocks)'
      BY <1>7, <1>11, <2>1, <2>2, <2>4 DEF Read
    <3>2. call.command = "write" => drive'[id].op = "store"
      BY <2>3
    <3>3. drive'[id].op = "store" =>
            /\ drive'[id].lba = call.offset + stored
            /\ drive'[id].block = New(calls, stored)
            /\ ~refused /\ stored = call.i
      <4>1. SUFFICES ASSUME drive'[id].op = "store"
                     PROVE  /\ drive'[id].lba = call.offset + stored
                            /\ drive'[id].block = New(calls, stored)
                            /\ ~refused /\ stored = call.i
        OBVIOUS
      <4>2. /\ drive[id].op = "write" /\ drive'[id].lba = drive[id].lba
            /\ drive'[id].block = block
        BY <1>2, <2>3, <4>1 DEF AtRest, Quiet
      <4>3. drive[id].lba = call.offset + call.i /\ stored = call.i /\ ~refused
        BY <1>1, <4>2 DEF TransferInv
      <4> QED
        BY <1>2, <4>2, <4>3 DEF block
    <3> QED
      BY <2>1, <2>4, <3>1, <3>2, <3>3 DEF TransferInv, Pc
  <2> QED
    BY <2>5, <2>6, <2>7, <2>8, <2>9 DEF AtaInv
<1> QED
  BY <1>5, <1>8, <1>9, <1>10, <1>11 DEF Transfer, block

(* Only the drive that has the command does more than wake up.             *)
LEMMA WorkingDrive ==
  ASSUME AtaInv, NEW d \in Drives, drive[d].busy, drive[d].op # "asleep"
  PROVE  /\ d = call.id /\ ~Quiet(d) /\ call.pc \in {"packet", "data", "end"}
         /\ drive[d].op = "store" => call.pc # "packet" /\ call.command = "write"
  BY DEF AtaInv, DriveInv, Quiet, Pc

LEMMA WorkKeeps ==
  ASSUME AtaInv, Work
  PROVE  AtaInv'
<1> TypeInv /\ CallInv /\ DriveInv /\ DeviceInv /\ TransferInv
  BY DEF AtaInv
<1>1. PICK d \in Drives :
        /\ kind[d] # "none" /\ drive[d].busy
        /\ \/ /\ \/ drive[d].op \in {"write", "identify", "packet", "asleep"}
                 \/ drive[d].op = "read" /\ drive[d].lba \in Blocks
              /\ drive' = [drive EXCEPT ![d].busy = FALSE]
              /\ UNCHANGED <<medium, history>>
           \/ /\ drive[d].op = "store" /\ drive[d].lba \in Blocks
              /\ medium' = [medium EXCEPT ![d][drive[d].lba] = drive[d].block]
              /\ drive' = [drive EXCEPT ![d] =
                             IF @.left = 1 THEN Resting("idle")
                             ELSE [op |-> "write", busy |-> FALSE, block |-> NoBlock,
                                   lba |-> @.lba + 1, left |-> @.left - 1]]
              /\ stored' = stored + 1
              /\ UNCHANGED <<probed, refused, answer>>
           \/ /\ drive[d].op # "asleep"
              /\ drive' = [drive EXCEPT ![d] = Resting("error")]
              /\ Hitch(d)
              /\ refused' = (refused \/ drive[d].op = "store")
              /\ UNCHANGED <<medium, stored, answer>>
  BY DEF Work, Attached
<1>2. UNCHANGED <<kind, select, call, buffer, devices, calls>>
  BY DEF Work
<1>3. /\ call.id \in Drives /\ call.nblocks \in Nat /\ call.offset \in Nat
      /\ call.i \in Nat
  BY NotIdle
<1>4. Floating(call.id)' <=> Floating(call.id)
  BY <1>2, FloatingKept
<1>5. \A e \in Drives : LookingAt(e) => LookingAt(e)'
  BY <1>2 DEF LookingAt, Pc
<1>6. CASE /\ \/ drive[d].op \in {"write", "identify", "packet", "asleep"}
              \/ drive[d].op = "read" /\ drive[d].lba \in Blocks
           /\ drive' = [drive EXCEPT ![d].busy = FALSE]
           /\ UNCHANGED <<medium, history>>
  <2>1. UNCHANGED <<medium, probed, stored, refused>>
    BY <1>6 DEF history
  <2>2. /\ drive' \in [Drives -> States]
        /\ \A e \in Drives : /\ drive'[e].op = drive[e].op
                             /\ drive'[e].left = drive[e].left
                             /\ drive'[e].lba = drive[e].lba
                             /\ drive'[e].block = drive[e].block
                             /\ e # d => drive'[e].busy = drive[e].busy
        /\ ~drive'[d].busy
    <3>1. PICK r \in States : r = drive[d]
      BY DEF TypeInv
    <3> DEFINE s == [r EXCEPT !.busy = FALSE]
    <3>2. drive' = [drive EXCEPT ![d] = s]
      BY <1>6, <3>1
    <3>3. /\ s \in States /\ s.op = r.op /\ s.left = r.left /\ s.lba = r.lba
          /\ s.block = r.block /\ ~s.busy
      BY DEF States
    <3> HIDE DEF s
    <3>4. /\ drive' \in [Drives -> States] /\ drive'[d] = s
          /\ \A e \in Drives : e # d => drive'[e] = drive[e]
      BY <3>2, <3>3 DEF TypeInv
    <3> QED
      BY <3>1, <3>3, <3>4
  <2>3. TypeInv'
    BY <1>2, <2>1, <2>2 DEF TypeInv
  <2>4. \A e \in Drives : Quiet(e)' <=> Quiet(e)
    BY <2>2 DEF Quiet
  <2>5. Quiet(call.id)' <=> Quiet(call.id)
    BY <1>2, <1>3, <2>4 DEF Quiet
  <2>6. CallInv'
    BY <1>2, <1>4, <2>5 DEF CallInv, Pc, Identifying, Channel
  <2>7. DriveInv'
    <3>1. ASSUME NEW e \in Drives
          PROVE  ( /\ drive[e].op \in {"idle", "error"} => ~drive[e].busy
                   /\ drive[e].op = "store" => drive[e].busy
                   /\ drive[e].op \in {"read", "write", "store"} => drive[e].left > 0
                   /\ (e # call.id \/ call.pc \notin {"packet", "data", "end"})
                        => Quiet(e)
                   /\ Quiet(e) \/ kind[e] # "none" )'
      <4>1. CASE e # d
        BY <1>2, <2>2, <2>4, <4>1 DEF DriveInv
      <4>2. CASE e = d
        BY <1>2, <1>6, <2>2, <2>4, <4>2 DEF DriveInv
      <4> QED
        BY <4>1, <4>2
    <3> QED
      BY <1>2, <1>3, <2>2, <2>5, <3>1 DEF DriveInv, Pc, Identifying
  <2>8. DeviceInv'
    <3>1. \A e \in Drives : Described(e)' /\ Known(e)'
      BY <1>2, <1>5, <2>1, DevicesKept
    <3> QED
      BY <1>2, <1>3, <2>1, <2>2, <3>1 DEF DeviceInv, Pc, Identifying
  <2>9. TransferInv'
    <3>1. drive'[call.id].op = "read" /\ ~drive'[call.id].busy =>
            drive[call.id].lba \in Blocks \/ ~drive[call.id].busy
      BY <1>3, <1>6, <2>2
    <3>2. \A n : Read(n)' <=> Read(n)
      BY <1>2, <2>1 DEF Read
    <3> QED
      BY <1>2, <1>3, <2>1, <2>2, <3>1, <3>2 DEF TransferInv, Pc, Identifying
  <2> QED
    BY <2>3, <2>6, <2>7, <2>8, <2>9 DEF AtaInv
<1>7. CASE /\ drive[d].op = "store" /\ drive[d].lba \in Blocks
           /\ medium' = [medium EXCEPT ![d][drive[d].lba] = drive[d].block]
           /\ drive' = [drive EXCEPT ![d] =
                          IF @.left = 1 THEN Resting("idle")
                          ELSE [op |-> "write", busy |-> FALSE, block |-> NoBlock,
                                lba |-> @.lba + 1, left |-> @.left - 1]]
           /\ stored' = stored + 1
           /\ UNCHANGED <<probed, refused, answer>>
  <2>1. /\ d = call.id /\ call.pc \in {"data", "end"} /\ call.command = "write"
        /\ ~Quiet(d)
    BY <1>1, <1>7, WorkingDrive
  <2>2. /\ drive[d].lba = call.offset + stored
        /\ drive[d].block = New(calls, stored)
        /\ ~refused
        /\ stored = IF Pc("data") THEN call.i - 1 ELSE call.i
    BY <1>7, <2>1 DEF TransferInv
  <2>3. PICK left \in Nat, n \in Nat :
          /\ left = drive[d].left /\ left > 0 /\ n = left - 1
          /\ Pc("data") => left <= call.nblocks - call.i + 1
          /\ Pc("end") => left = 1
    <3>1. drive[d].left \in Nat /\ drive[d].left > 0
      BY <1>7 DEF TypeInv, States, DriveInv
    <3>2. Pc("data") => drive[d].left <= call.nblocks - call.i + 1
      BY <1>7, <2>1 DEF DriveInv, Quiet
    <3>3. Pc("end") => drive[d].left = 1
      BY <1>7, <2>1 DEF DriveInv, Quiet
    <3>4. drive[d].left - 1 \in Nat
      BY <3>1
    <3> QED
      BY <3>1, <3>2, <3>3, <3>4
  <2>4. PICK lba \in Nat : lba = drive[d].lba + 1
    BY DEF TypeInv, States
  <2> DEFINE s == [op |-> "write", busy |-> FALSE, block |-> NoBlock,
                   lba |-> lba, left |-> n]
  <2>5. s \in States /\ s.op = "write" /\ ~s.busy /\ s.lba = lba /\ s.left = n
    BY DEF States
  <2>6. drive' = [drive EXCEPT ![d] = IF left = 1 THEN Resting("idle") ELSE s]
    BY <1>7, <2>3, <2>4
  <2> HIDE DEF s
  <2>7. /\ drive' \in [Drives -> States]
        /\ \A e \in Drives : e # d => drive'[e] = drive[e]
        /\ \/ left = 1 /\ drive'[d] = Resting("idle")
           \/ /\ left > 1 /\ drive'[d].op = "write" /\ ~drive'[d].busy
              /\ drive'[d].lba = drive[d].lba + 1 /\ drive'[d].left = left - 1
    <3>1. drive'[d] = IF left = 1 THEN Resting("idle") ELSE s
      BY <2>6 DEF TypeInv
    <3>2. drive' \in [Drives -> States]
      BY <2>5, <2>6, RecordsOfDrives DEF TypeInv
    <3>3. \A e \in Drives : e # d => drive'[e] = drive[e]
      BY <2>6 DEF TypeInv
    <3>4. left # 1 => left > 1
      BY <2>3
    <3> QED
      BY <2>3, <2>4, <2>5, <3>1, <3>2, <3>3, <3>4
  <2>8. left = 1 => AtRest'
    BY <2>1, <2>7, RecordsOfDrives DEF AtRest, DriveInv, Quiet
  <2>9. TypeInv'
    <3>1. New(calls, stored) \in Values
      <4>1. calls \in 1 .. MaxCalls
        <5>1. calls > 0
          BY <2>1 DEF CallInv, Pc
        <5> QED
          BY <5>1, Bounds DEF TypeInv
      <4> QED
        BY <4>1, NewIsValue DEF TypeInv
    <3>2. medium' \in [Drives -> [Blocks -> Values]]
      BY <1>7, <2>2, <3>1 DEF TypeInv
    <3>3. stored' \in Nat
      BY <1>7 DEF TypeInv
    <3> QED
      BY <1>2, <1>7, <2>7, <3>2, <3>3 DEF TypeInv
  <2>10. CallInv'
    <3>1. select[Channel(call.id)] = call.id % 2
      BY <2>1 DEF CallInv
    <3> QED
      BY <1>2, <1>4, <3>1 DEF CallInv, Pc, Identifying, Channel
  <2>11. DriveInv'
    <3>1. CASE left = 1
      BY <1>2, <2>8, <3>1, RestIsEnoughPrimed DEF TypeInv
    <3>2. CASE left > 1
      <4>1. ASSUME NEW e \in Drives
            PROVE  ( /\ drive[e].op \in {"idle", "error"} => ~drive[e].busy
                     /\ drive[e].op = "store" => drive[e].busy
                     /\ drive[e].op \in {"read", "write", "store"} => drive[e].left > 0
                     /\ (e # call.id \/ call.pc \notin {"packet", "data", "end"})
                          => Quiet(e)
                     /\ Quiet(e) \/ kind[e] # "none" )'
        <5>1. CASE e # d
          BY <1>2, <2>7, <5>1 DEF DriveInv, Quiet
        <5>2. CASE e = d
          <6>1. drive'[d].op = "write" /\ ~drive'[d].busy /\ drive'[d].left > 0
            BY <2>3, <2>7, <3>2
          <6> QED
            BY <1>1, <1>2, <2>1, <5>2, <6>1
        <5> QED
          BY <5>1, <5>2
      <4>2. call.pc = "data" /\ drive'[d].op = "write"
            /\ drive'[d].left <= call.nblocks - call.i
        BY <1>3, <2>1, <2>3, <2>7, <3>2 DEF Pc
      <4> QED
        BY <1>2, <2>1, <4>1, <4>2 DEF DriveInv, Pc
    <3> QED
      BY <2>3, <3>1, <3>2
  <2>12. DeviceInv'
    <3>1. \A e \in Drives : Described(e)' /\ Known(e)'
      BY <1>2, <1>5, <1>7, DevicesKept
    <3>2. drive'[d].op # "identify" /\ call.fun # "fs_init" /\ ~Identifying
      <4>1. call.fun # "fs_init" /\ ~Identifying
        BY <2>1 DEF CallInv, Identifying, Sending, Users
      <4> QED
        BY <2>7, <4>1, RecordsOfDrives
    <3> QED
      BY <1>2, <2>1, <3>1, <3>2 DEF DeviceInv, Pc, Identifying
  <2>13. TransferInv'
    <3>1. CASE left = 1
      <4>1. drive'[d].op = "idle"
        BY <2>7, <3>1, RecordsOfDrives
      <4>2. Pc("end") => stored' = call.nblocks
        <5>1. SUFFICES ASSUME Pc("end") PROVE stored' = call.nblocks
          OBVIOUS
        <5>2. call.i + 1 = call.nblocks /\ stored = call.i
          BY <2>2, <5>1 DEF CallInv, Pc
        <5> QED
          BY <1>7, <5>2
      <4> QED
        BY <1>2, <1>7, <2>1, <2>2, <4>1, <4>2 DEF TransferInv, Pc
    <3>2. CASE left > 1
      <4>1. call.pc = "data" /\ drive'[d].op = "write"
            /\ drive'[d].lba = drive[d].lba + 1
        BY <2>1, <2>3, <2>7, <3>2 DEF Pc
      <4>2. stored = call.i - 1
        BY <2>2, <4>1 DEF Pc
      <4>3. stored' = call.i /\ drive'[d].lba = call.offset + call.i
        BY <1>3, <1>7, <2>2, <4>1, <4>2 DEF TypeInv
      <4> QED
        BY <1>2, <1>7, <2>1, <2>2, <4>1, <4>3 DEF TransferInv, Pc
    <3> QED
      BY <2>3, <3>1, <3>2
  <2> QED
    BY <2>9, <2>10, <2>11, <2>12, <2>13 DEF AtaInv
<1>8. CASE /\ drive[d].op # "asleep"
           /\ drive' = [drive EXCEPT ![d] = Resting("error")]
           /\ Hitch(d)
           /\ refused' = (refused \/ drive[d].op = "store")
           /\ UNCHANGED <<medium, stored, answer>>
  <2>1. /\ d = call.id /\ call.pc \in {"packet", "data", "end"} /\ ~Quiet(d)
        /\ drive[d].op = "store" => call.pc # "packet" /\ call.command = "write"
    BY <1>1, <1>8, WorkingDrive
  <2>2. /\ drive' \in [Drives -> States]
        /\ drive'[d].op = "error" /\ ~drive'[d].busy
        /\ \A e \in Drives : e # d => drive'[e] = drive[e]
    BY <1>8, RecordsOfDrives DEF TypeInv
  <2>3. /\ probed' \in [Drives -> Looks]
        /\ \A e \in Drives : probed'[e] = "clean" => probed[e] = "clean"
        /\ call.fun = "fs_init" => probed'[call.id] # "clean"
    BY <1>8, <2>1, HitchSeen
  <2>4. TypeInv'
    <3>1. refused' \in BOOLEAN
      BY <1>8
    <3> QED
      BY <1>2, <1>8, <2>2, <2>3, <3>1 DEF TypeInv
  <2>5. CallInv'
    <3>1. select[Channel(call.id)] = call.id % 2
      BY <2>1 DEF CallInv
    <3> QED
      BY <1>2, <1>4, <3>1 DEF CallInv, Pc, Identifying, Channel
  <2>6. DriveInv'
    <3>1. AtRest'
      BY <2>1, <2>2 DEF AtRest, DriveInv, Quiet
    <3> QED
      BY <1>2, <3>1, RestIsEnoughPrimed DEF TypeInv
  <2>7. DeviceInv'
    <3>1. \A e \in Drives : Described(e)' /\ Known(e)'
      BY <1>2, <1>5, <2>3, DevicesKept
    <3> QED
      BY <1>2, <2>1, <2>2, <2>3, <3>1 DEF DeviceInv, Pc, Identifying
  <2>8. TransferInv'
    <3>1. \A n : Read(n)' <=> Read(n)
      BY <1>2, <1>8 DEF Read
    <3>2. call.pc = "packet" => refused' = refused
      BY <1>8, <2>1 DEF TypeInv
    <3>3. call.pc = "end" /\ call.command = "write" => stored = call.i /\ refused'
      <4>1. SUFFICES ASSUME call.pc = "end", call.command = "write"
                     PROVE  stored = call.i /\ refused'
        OBVIOUS
      <4>2. drive[d].op = "store"
        BY <2>1, <4>1 DEF DriveInv, Pc
      <4> QED
        BY <1>8, <2>1, <4>1, <4>2 DEF TransferInv, Pc
    <3> QED
      BY <1>2, <1>8, <2>1, <2>2, <3>1, <3>2, <3>3 DEF TransferInv, Pc, Identifying
  <2> QED
    BY <2>4, <2>5, <2>6, <2>7, <2>8 DEF AtaInv
<1> QED
  BY <1>1, <1>6, <1>7, <1>8

----------------------------------------------------------------------------
(* Theorems                                                                *)

LEMMA AtaInvInductive == AtaInv /\ [Next]_vars => AtaInv'
<1> SUFFICES ASSUME AtaInv, [Next]_vars PROVE AtaInv'
  OBVIOUS
<1>1. CASE Work
  BY <1>1, WorkKeeps
<1>2. CASE Call
  BY <1>2, CallKeeps
<1>3. CASE Initialise
  BY <1>3, InitialiseKeeps
<1>4. CASE Probe
  BY <1>4, ProbeKeeps
<1>5. CASE Calm
  BY <1>5, CalmKeeps
<1>6. CASE SendCommand
  BY <1>6, SendCommandKeeps
<1>7. CASE SendPacket
  BY <1>7, SendPacketKeeps
<1>8. CASE Transfer
  BY <1>8, TransferKeeps
<1>9. CASE End
  BY <1>9, EndKeeps
<1>10. CASE Partition
  BY <1>10, PartitionKeeps
<1>11. CASE Sizes
  BY <1>11, SizesKeeps
<1>12. CASE UNCHANGED vars
  <2>1. UNCHANGED <<kind, select, drive, medium, call, buffer, devices, calls,
                    probed, stored, refused>>
    BY <1>12 DEF vars, history
  <2>2. TypeInv'
    BY <2>1 DEF AtaInv, TypeInv
  <2>3. CallInv'
    BY <2>1 DEF AtaInv, CallInv, Pc, Identifying, Quiet, Floating, Attached, Mates,
                Channel
  <2>4. DriveInv'
    BY <2>1 DEF AtaInv, DriveInv, Pc, Identifying, Quiet
  <2>5. DeviceInv'
    <3>1. \A d \in Drives : LookingAt(d) => LookingAt(d)'
      BY <2>1 DEF LookingAt, Pc
    <3>2. \A d \in Drives : Described(d)' /\ Known(d)'
      BY <2>1, <3>1, DevicesKept DEF AtaInv
    <3> QED
      BY <2>1, <3>2 DEF AtaInv, DeviceInv, Pc, Identifying
  <2>6. TransferInv'
    BY <2>1 DEF AtaInv, TransferInv, Pc, Identifying, Read
  <2> QED
    BY <2>2, <2>3, <2>4, <2>5, <2>6 DEF AtaInv
<1> QED
  BY <1>1, <1>2, <1>3, <1>4, <1>5, <1>6, <1>7, <1>8, <1>9, <1>10, <1>11, <1>12
  DEF Next, Thread

(* The inductive invariant: where the thread is in a call, which drive has *)
(* a command and how much of it is left, what fs_init knows of the drives, *)
(* and how far a transfer has come, for any number of drives, any size of  *)
(* the medium and of the register for the count, and any number of calls.  *)
THEOREM AtaSafe == Spec => []AtaInv
<1>1. Init => AtaInv
  BY InitKeeps
<1> QED
  BY <1>1, AtaInvInductive, PTL DEF Spec

(* A call that is over, also one that failed, leaves no drive with half a  *)
(* command (ata_reset after every failure, the loops over the blocks).     *)
THEOREM NoDriveIsOwed == Spec => []NothingOwed
<1>1. AtaInv => NothingOwed
  BY DEF AtaInv, DriveInv, NothingOwed, Quiet
<1> QED
  BY <1>1, AtaSafe, PTL

(* What fs_init writes down is what there is, whatever fails; and a drive  *)
(* that answers in time is found.                                          *)
THEOREM DevicesAreDescribed == Spec => []DevicesDescribed
<1>1. AtaInv => DevicesDescribed
  <2> SUFFICES ASSUME AtaInv PROVE DevicesDescribed
    OBVIOUS
  <2>1. call.pc = "idle" => call.fun # "fs_init"
    BY NoCallFields DEF AtaInv, CallInv, Pc
  <2> QED
    BY <2>1 DEF AtaInv, DeviceInv, Described, Known, LookingAt, DevicesDescribed
<1> QED
  BY <1>1, AtaSafe, PTL

----------------------------------------------------------------------------
(* Reads and writes keep the promise of BlockDevice                        *)

Asking == IF InRequest THEN Request ELSE NoCall

LEMMA WrittenBlocks ==
  ASSUME NEW n \in Nat, NEW c \in 1 .. MaxCalls
  PROVE  LET data == [k \in 1 .. n |-> New(c, k - 1)]
         IN  /\ data \in Seq(Values) /\ Len(data) = n
             /\ \A k \in 0 .. n - 1 : data[k + 1] = New(c, k)
<1> DEFINE data == [k \in 1 .. n |-> New(c, k - 1)]
<1>1. \A k \in 1 .. n : New(c, k - 1) \in Values
  <2>1. \A k \in 1 .. n : k - 1 \in Nat
    OBVIOUS
  <2> QED
    BY <2>1, NewIsValue
<1>2. data \in [1 .. n -> Values]
  BY <1>1
<1>3. data \in Seq(Values) /\ Len(data) = n
  BY <1>2
<1>4. ASSUME NEW k \in 0 .. n - 1
      PROVE  data[k + 1] = New(c, k)
  <2>1. k + 1 \in 1 .. n /\ (k + 1) - 1 = k
    OBVIOUS
  <2> QED
    BY <2>1
<1> QED
  BY <1>3, <1>4

(* The fields of what is asked for.                                        *)
LEMMA RequestFields ==
  ASSUME AtaInv, InRequest
  PROVE  /\ Asking = Request /\ Request # NoCall
         /\ Request.op = call.command /\ Request.id = call.id
         /\ Request.nblocks = call.nblocks /\ Request.offset = call.offset
         /\ call.command = "write" =>
              /\ Len(Request.data) = call.nblocks
              /\ \A k \in 0 .. call.nblocks - 1 : Request.data[k + 1] = New(calls, k)
         /\ call.command \in Transfers
<1>1. Asking = Request
  BY DEF Asking
<1>2. Request # NoCall
  <2>1. DOMAIN Request = {"op", "id", "nblocks", "offset", "data"}
    BY DEF Request
  <2>2. DOMAIN NoCall = {"fun", "pc", "command", "id", "nblocks", "offset", "i"}
    BY DEF NoCall
  <2>3. "op" \in DOMAIN Request /\ "op" \notin DOMAIN NoCall
    BY <2>1, <2>2
  <2> QED
    BY <2>3
<1>3. call.command = "write" =>
        Request.data = [k \in 1 .. call.nblocks |-> New(calls, k - 1)]
  BY DEF Request
<1>4. call.command = "write" =>
        /\ Len(Request.data) = call.nblocks
        /\ \A k \in 0 .. call.nblocks - 1 : Request.data[k + 1] = New(calls, k)
  <2>1. calls \in 1 .. MaxCalls /\ call.nblocks \in Nat
    <3>1. TypeInv /\ calls > 0
      BY DEF AtaInv, CallInv, InRequest, Pc
    <3> QED
      BY <3>1, Bounds, NotIdle DEF TypeInv
  <2> QED
    BY <1>3, <2>1, WrittenBlocks
<1>5. call.command \in Transfers
  BY DEF AtaInv, CallInv, InRequest, Sending, Pc
<1> QED
  BY <1>1, <1>2, <1>4, <1>5 DEF Request

(* The user sees nothing of a step that changes none of its variables.     *)
LEMMA SameRequest ==
  ASSUME call'.command = call.command, call'.id = call.id,
         call'.nblocks = call.nblocks, call'.offset = call.offset, calls' = calls,
         call.pc \in Sending, call'.pc \in Sending
  PROVE  Asking' = Asking
<1>1. Identifying' <=> Identifying
  BY DEF Identifying
<1>2. InRequest' <=> InRequest
  BY <1>1 DEF InRequest, Sending
<1>3. Request' = Request
  BY DEF Request
<1> QED
  BY <1>2, <1>3 DEF Asking

LEMMA NothingAsked ==
  /\ ~InRequest => Asking = NoCall
  /\ call.pc \notin Sending => ~InRequest
  /\ (~InRequest => Asking = NoCall)'
  /\ (call.pc \notin Sending => ~InRequest)'
  BY DEF Asking, InRequest, Sending

(* The end of a request.                                                   *)
LEMMA FailImplements ==
  ASSUME AtaInv, call.pc \in Sending, Return(FALSE), buffer' \in Seq(Values),
         UNCHANGED <<medium, stored, refused>>
  PROVE  Device!Fail
<1>1. TypeInv /\ ~Identifying /\ InRequest
  BY ReturnFields DEF AtaInv, InRequest, Sending
<1>2. Asking # NoCall
  BY <1>1, RequestFields
<1>3. Asking' = NoCall
  <2>1. call'.pc \notin Sending
    BY <1>1, ReturnFields, NoCallFields DEF Sending
  <2> QED
    BY <2>1, NothingAsked
<1>4. answer' \in [ok : BOOLEAN, data : Seq(Values)] /\ ~answer'.ok
  BY NothingIsRead DEF Return, Answered
<1> QED
  BY <1>2, <1>3, <1>4 DEF Device!Fail, Asking

LEMMA SucceedImplements ==
  ASSUME AtaInv, call.pc \in Sending, Return(TRUE),
         UNCHANGED <<medium, stored, refused>>,
         call.command = "write" =>
           stored = call.nblocks - (IF refused THEN 1 ELSE 0),
         call.command # "write" =>
           /\ buffer' \in Seq(Values) /\ Len(buffer') = call.nblocks
           /\ \A k \in 1 .. call.nblocks :
                /\ call.offset + k - 1 \in Blocks
                /\ buffer'[k] = medium[call.id][call.offset + k - 1]
  PROVE  Device!Succeed
<1>1. TypeInv /\ ~Identifying /\ InRequest
  BY ReturnFields DEF AtaInv, InRequest, Sending
<1>2. /\ Asking = Request /\ Request # NoCall
      /\ Request.op = call.command /\ Request.id = call.id
      /\ Request.nblocks = call.nblocks /\ Request.offset = call.offset
  BY <1>1, RequestFields
<1>3. Asking' = NoCall
  <2>1. call'.pc \notin Sending
    BY <1>1, ReturnFields, NoCallFields DEF Sending
  <2> QED
    BY <2>1, NothingAsked
<1>4. CASE call.command = "write"
  <2>1. answer' = [ok |-> TRUE, data |-> <<>>]
    BY <1>4 DEF Return, Answered
  <2> QED
    BY <1>2, <1>3, <1>4, <2>1 DEF Device!Succeed, Device!Writing, Asking
<1>5. CASE call.command # "write"
  <2>1. PICK n \in Nat, offset \in Nat : n = call.nblocks /\ offset = call.offset
    BY <1>1, NotIdle
  <2>2. DOMAIN medium[call.id] = Blocks
    BY <1>1, NotIdle DEF TypeInv
  <2>3. offset .. offset + n - 1 \subseteq Blocks
    <3>1. ASSUME NEW b \in offset .. offset + n - 1
          PROVE  b \in Blocks
      <4>1. b - offset + 1 \in 1 .. n /\ offset + (b - offset + 1) - 1 = b
        BY <2>1
      <4> QED
        BY <1>5, <2>1, <4>1
    <3> QED
      BY <3>1
  <2>4. buffer' = [k \in 1 .. n |-> medium[call.id][offset + k - 1]]
    <3>1. buffer' = [k \in 1 .. n |-> buffer'[k]]
      BY <1>5, <2>1
    <3> QED
      BY <1>5, <2>1, <3>1
  <2>5. answer' = [ok |-> TRUE, data |-> buffer']
    BY <1>5 DEF Return, Answered
  <2> QED
    BY <1>2, <1>3, <1>5, <2>1, <2>2, <2>3, <2>4, <2>5
    DEF Device!Succeed, Device!Writing, Device!OnDrive, Device!Asked, Asking
<1> QED
  BY <1>4, <1>5

LEMMA AskImplements ==
  ASSUME AtaInv, ~InRequest, NEW fun, NEW command \in Transfers, NEW id \in Drives,
         NEW n \in Nat, NEW offset \in Nat, Begin(fun, command, id, n, offset),
         calls' \in 1 .. MaxCalls, stored' = 0, refused' = FALSE, answer' = NoAnswer,
         UNCHANGED medium
  PROVE  Device!Ask
<1>1. /\ call'.pc = "calm" /\ call'.command = command /\ call'.id = id
      /\ call'.nblocks = n /\ call'.offset = offset
  BY DEF Begin
<1>2. InRequest'
  BY <1>1 DEF InRequest, Identifying, Transfers
<1>3. Asking' = Request'
  BY <1>2 DEF Asking
<1>4. Asking = NoCall
  BY NothingAsked
<1> DEFINE data == IF command = "write" THEN [k \in 1 .. n |-> New(calls', k - 1)]
                   ELSE <<>>
<1>5. data \in Seq(Values)
  BY WrittenBlocks, NothingIsRead
<1>6. Request' = [op |-> command, id |-> id, nblocks |-> n, offset |-> offset,
                  data |-> data]
  BY <1>1 DEF Request
<1> HIDE DEF data
<1>7. Request' \in [op : {"read", "write", "packet"}, id : Drives, nblocks : Nat,
                    offset : Nat, data : Seq(Values)]
  BY <1>5, <1>6 DEF Transfers
<1> QED
  BY <1>3, <1>4, <1>7 DEF Device!Ask, Asking

LEMMA FailedWaitImplements ==
  ASSUME AtaInv, call.pc \in Sending, NEW mask, NEW state, FailedWait(mask, state)
  PROVE  Device!Next \/ UNCHANGED Device!vars
<1> TypeInv /\ CallInv
  BY DEF AtaInv
<1>1. ReturnFailure /\ UNCHANGED <<medium, calls, stored, refused>>
  BY DEF FailedWait
<1>2. call.id \in Drives
  BY NotIdle
<1>3. CASE UNCHANGED buffer /\ Return(FALSE)
  <2>1. buffer' \in Seq(Values)
    BY <1>3 DEF TypeInv
  <2>2. Device!Fail
    BY <1>1, <1>3, <2>1, FailImplements
  <2> QED
    BY <2>2 DEF Device!Next
<1>4. CASE /\ call.command = "identify"
           /\ Begin(call.fun, "atapi identify", call.id, 0, 0)
           /\ UNCHANGED <<buffer, devices, answer>>
  <2>1. ~InRequest /\ ~InRequest'
    BY <1>4 DEF InRequest, Identifying, Begin
  <2>2. Asking = NoCall /\ Asking' = NoCall
    BY <2>1, NothingAsked
  <2> QED
    BY <1>1, <1>4, <2>2 DEF Device!vars, Asking
<1>5. CASE call.command = "atapi identify" /\ Missing /\ UNCHANGED answer
  <2>1. ~InRequest
    BY <1>5 DEF InRequest, Identifying
  <2>2. call.fun \in Inits
    BY <1>5 DEF CallInv, Transfers
  <2>3. call'.pc \notin Sending
    <3>1. Probed([devices[call.id] EXCEPT !.present = FALSE])
      BY <1>5 DEF Missing
    <3> QED
      BY <2>2, <3>1, ProbedFields, NoCallFields DEF Sending
  <2>4. Asking = NoCall /\ Asking' = NoCall
    BY <2>1, <2>3, NothingAsked
  <2> QED
    BY <1>1, <1>5, <2>4 DEF Device!vars, Asking
<1> QED
  BY <1>1, <1>3, <1>4, <1>5 DEF ReturnFailure

(* A drive stores a block, or refuses one.                                 *)
LEMMA WorkImplements ==
  ASSUME AtaInv, Work
  PROVE  Device!Next \/ UNCHANGED Device!vars
<1> TypeInv /\ CallInv /\ DriveInv /\ TransferInv
  BY DEF AtaInv
<1>1. PICK d \in Drives :
        /\ drive[d].busy
        /\ \/ UNCHANGED <<medium, history>>
           \/ /\ drive[d].op = "store" /\ drive[d].lba \in Blocks
              /\ medium' = [medium EXCEPT ![d][drive[d].lba] = drive[d].block]
              /\ stored' = stored + 1
              /\ UNCHANGED <<probed, refused, answer>>
           \/ /\ refused' = (refused \/ drive[d].op = "store")
              /\ UNCHANGED <<medium, stored, answer>>
  BY DEF Work
<1>2. UNCHANGED <<call, calls>>
  BY DEF Work
<1>3. Asking' = Asking
  BY <1>2 DEF Asking, InRequest, Request, Identifying
<1>4. drive[d].op = "store" =>
        /\ d = call.id /\ call.command = "write" /\ InRequest
        /\ stored < call.nblocks /\ stored \in 0 .. call.nblocks - 1
        /\ ~refused
        /\ drive[d].lba = call.offset + stored
        /\ drive[d].block = New(calls, stored)
  <2> SUFFICES ASSUME drive[d].op = "store"
      PROVE  /\ d = call.id /\ call.command = "write" /\ InRequest
             /\ stored < call.nblocks /\ stored \in 0 .. call.nblocks - 1
             /\ ~refused
             /\ drive[d].lba = call.offset + stored
             /\ drive[d].block = New(calls, stored)
    OBVIOUS
  <2>1. /\ d = call.id /\ call.command = "write" /\ call.pc \in {"data", "end"}
    BY <1>1, WorkingDrive
  <2>2. InRequest /\ call.i < call.nblocks
    BY <2>1 DEF InRequest, Identifying, CallInv, Sending
  <2>3. /\ drive[d].lba = call.offset + stored
        /\ drive[d].block = New(calls, stored)
        /\ ~refused
        /\ stored = IF Pc("data") THEN call.i - 1 ELSE call.i
    BY <2>1 DEF TransferInv
  <2>4. stored \in 0 .. call.nblocks - 1 /\ stored < call.nblocks
    <3>1. stored \in Nat /\ call.i \in Nat /\ call.nblocks \in Nat
      BY NotIdle DEF TypeInv
    <3> QED
      BY <2>2, <2>3, <3>1
  <2> QED
    BY <2>1, <2>2, <2>3, <2>4
<1>5. drive[d].op = "store" =>
        /\ Asking = Request /\ Request # NoCall
        /\ Request.op = "write" /\ Request.id = d
        /\ Request.offset = call.offset
        /\ stored < Len(Request.data)
        /\ Request.data[stored + 1] = drive[d].block
  BY <1>4, RequestFields
<1>6. CASE UNCHANGED <<medium, history>>
  BY <1>3, <1>6 DEF history, Device!vars, Asking
<1>7. CASE /\ drive[d].op = "store" /\ drive[d].lba \in Blocks
           /\ medium' = [medium EXCEPT ![d][drive[d].lba] = drive[d].block]
           /\ stored' = stored + 1
           /\ UNCHANGED <<probed, refused, answer>>
  <2>1. DOMAIN medium[d] = Blocks
    BY DEF TypeInv
  <2>2. Device!Store
    BY <1>3, <1>4, <1>5, <1>7, <2>1 DEF Device!Store, Device!Writing, Asking
  <2> QED
    BY <2>2 DEF Device!Next
<1>8. CASE /\ refused' = (refused \/ drive[d].op = "store")
           /\ UNCHANGED <<medium, stored, answer>>
  <2>1. CASE drive[d].op = "store"
    <3>1. Device!Refuse
      BY <1>3, <1>4, <1>5, <1>8, <2>1 DEF Device!Refuse, Device!Writing, Asking
    <3> QED
      BY <3>1 DEF Device!Next
  <2>2. CASE drive[d].op # "store"
    <3>1. refused' = refused
      BY <1>8, <2>2 DEF TypeInv
    <3> QED
      BY <1>3, <1>8, <3>1 DEF Device!vars, Asking
  <2> QED
    BY <2>1, <2>2
<1> QED
  BY <1>1, <1>6, <1>7, <1>8

(* The last block of a read, and the end of a read or a write.             *)
LEMMA TransferImplements ==
  ASSUME AtaInv, Transfer
  PROVE  Device!Next \/ UNCHANGED Device!vars
<1> TypeInv /\ CallInv /\ DriveInv /\ TransferInv
  BY DEF AtaInv
<1>1. Pc("data") /\ call.pc = "data" /\ call.pc \in Sending
  BY DEF Transfer, Pc, Sending
<1>2. CASE FailedWait({"DRQ"}, {"DRQ"})
  BY <1>1, <1>2, FailedWaitImplements
<1> DEFINE Same == UNCHANGED <<medium, calls, stored, refused>>
<1>3. CASE Same /\ call' = [call EXCEPT !.i = @ + 1] /\ UNCHANGED answer
  <2>1. /\ call'.command = call.command /\ call'.id = call.id
        /\ call'.nblocks = call.nblocks /\ call'.offset = call.offset
        /\ call'.pc = call.pc
    BY <1>3 DEF TypeInv, CallRecords
  <2>2. Asking' = Asking
    BY <1>1, <1>3, <2>1, SameRequest
  <2> QED
    BY <1>3, <2>2 DEF Device!vars, Asking
<1>4. CASE Same /\ Goto("end") /\ UNCHANGED answer
  <2>1. /\ call'.command = call.command /\ call'.id = call.id
        /\ call'.nblocks = call.nblocks /\ call'.offset = call.offset
        /\ call'.pc \in Sending
    BY <1>4, GotoFields DEF Sending
  <2>2. Asking' = Asking
    BY <1>1, <1>4, <2>1, SameRequest
  <2> QED
    BY <1>4, <2>2 DEF Device!vars, Asking
<1>5. CASE /\ Same /\ Ready({"DRQ"}, {"DRQ"})
           /\ call.i + 1 = Turns /\ call.command = "packet"
           /\ ata_pio_read(Selected(call.id)) /\ Return(TRUE)
  <2>1. ~Identifying /\ Turns = call.nblocks
    BY <1>5 DEF Identifying, Turns
  <2>2. /\ Selected(call.id) = call.id /\ ~drive[call.id].busy
        /\ drive[call.id].op = "read"
    BY <1>1, <1>5, <2>1, DataReady
  <2>3. /\ Read(call.i) /\ drive[call.id].lba = call.offset + call.i
        /\ drive[call.id].lba \in Blocks
    BY <1>1, <1>5, <2>2 DEF TransferInv
  <2>4. /\ buffer' \in Seq(Values) /\ Len(buffer') = call.nblocks
        /\ \A k \in 1 .. call.nblocks :
             /\ call.offset + k - 1 \in Blocks
             /\ buffer'[k] = medium[call.id][call.offset + k - 1]
    <3>1. call.i + 1 = call.nblocks
      BY <1>5, <2>1
    <3> QED
      BY <1>5, <2>2, <2>3, <3>1, OneMoreBlock
  <2>5. Device!Succeed
    BY <1>1, <1>5, <2>4, SucceedImplements
  <2> QED
    BY <2>5 DEF Device!Next
<1>6. CASE /\ Same /\ Identifying /\ UNCHANGED answer
           /\ Probed(Found(IF call.command = "identify" THEN 512 ELSE 2048))
  <2>1. ~InRequest
    BY <1>6 DEF InRequest
  <2>2. call.fun \in Inits
    BY <1>1, <1>6 DEF CallInv, Identifying, Transfers
  <2>3. call'.pc \notin Sending
    BY <1>6, <2>2, ProbedFields, NoCallFields DEF Sending
  <2>4. Asking = NoCall /\ Asking' = NoCall
    BY <2>1, <2>3, NothingAsked
  <2> QED
    BY <1>6, <2>4 DEF Device!vars, Asking
<1> QED
  BY <1>2, <1>3, <1>4, <1>5, <1>6 DEF Transfer

LEMMA EndImplements ==
  ASSUME AtaInv, End
  PROVE  Device!Next \/ UNCHANGED Device!vars
<1> TypeInv /\ CallInv /\ TransferInv
  BY DEF AtaInv
<1>1. /\ Pc("end") /\ call.pc = "end" /\ call.pc \in Sending
      /\ UNCHANGED <<medium, buffer, stored, refused>>
  BY DEF End, Pc, Sending
<1>2. buffer' \in Seq(Values)
  BY <1>1 DEF TypeInv
<1>3. CASE Return(FALSE)
  BY <1>1, <1>2, <1>3, FailImplements DEF Device!Next
<1>4. CASE Ready({"BSY"}, {}) /\ Return(TRUE)
  <2>1. call.command \in {"read", "write"} /\ call.i + 1 = call.nblocks
        /\ call.i \in Nat /\ call.nblocks \in Nat
    BY <1>1, NotIdle DEF CallInv
  <2>2. call.command = "write" => stored = call.nblocks - (IF refused THEN 1 ELSE 0)
    <3>1. SUFFICES ASSUME call.command = "write"
                   PROVE  stored = call.nblocks - (IF refused THEN 1 ELSE 0)
      OBVIOUS
    <3>2. drive[call.id].op # "store"
      BY <1>1, <1>4, EndRests
    <3>3. \/ stored = call.nblocks /\ ~refused
          \/ stored = call.i /\ refused
      BY <1>1, <3>1, <3>2 DEF TransferInv
    <3>4. CASE stored = call.nblocks /\ ~refused
      BY <2>1, <3>4
    <3>5. CASE stored = call.i /\ refused
      BY <2>1, <3>5
    <3> QED
      BY <3>3, <3>4, <3>5
  <2>3. call.command # "write" => Read(call.nblocks)
    BY <1>1, <2>1 DEF TransferInv
  <2>4. Device!Succeed
    BY <1>1, <1>2, <1>4, <2>2, <2>3, SucceedImplements DEF Read
  <2> QED
    BY <2>4 DEF Device!Next
<1> QED
  BY <1>3, <1>4 DEF End

(* A step of a command or of a look at a drive is none of BlockDevice.     *)
LEMMA CommandImplements ==
  ASSUME AtaInv, Calm \/ SendCommand \/ SendPacket
  PROVE  Device!Next \/ UNCHANGED Device!vars
<1> TypeInv
  BY DEF AtaInv
<1>1. call.pc \in {"calm", "ready", "packet"} /\ call.pc \in Sending
  BY DEF Calm, SendCommand, SendPacket, Pc, Sending
<1>2. CASE \E mask, state : FailedWait(mask, state)
  BY <1>1, <1>2, FailedWaitImplements
<1>3. CASE /\ \E place \in {"ready", "packet", "data"} : Goto(place)
           /\ UNCHANGED <<medium, calls, stored, refused, answer>>
  <2>1. PICK place \in {"ready", "packet", "data"} : Goto(place)
    BY <1>3
  <2>2. /\ call'.command = call.command /\ call'.id = call.id
        /\ call'.nblocks = call.nblocks /\ call'.offset = call.offset
        /\ call'.pc \in Sending
    BY <2>1, GotoFields DEF Sending
  <2>3. Asking' = Asking
    BY <1>1, <1>3, <2>2, SameRequest
  <2> QED
    BY <1>3, <2>3 DEF Device!vars, Asking
<1>4. CASE Calm
  BY <1>2, <1>3, <1>4 DEF Calm, history
<1>5. CASE SendCommand
  BY <1>2, <1>3, <1>5 DEF SendCommand, history
<1>6. CASE SendPacket
  BY <1>3, <1>6 DEF SendPacket
<1> QED
  BY <1>4, <1>5, <1>6

LEMMA OtherImplements ==
  ASSUME AtaInv, Initialise \/ Probe \/ Sizes
  PROVE  UNCHANGED Device!vars
<1> TypeInv /\ CallInv
  BY DEF AtaInv
<1>1. /\ call.pc \in {"idle", "probe", "sizes"}
      /\ UNCHANGED <<medium, stored, refused, answer>>
  BY NoCallFields DEF Initialise, NewCall, Probe, Sizes, Pc, history
<1>2. ~InRequest
  BY <1>1 DEF InRequest
<1>3. ~InRequest'
  <2>1. CASE Initialise
    <3>1. call'.pc = "probe"
      BY <2>1 DEF Initialise, Probing, NoCall
    <3> QED
      BY <3>1 DEF InRequest
  <2>2. CASE Probe
    <3>1. call.pc = "probe" /\ call.fun \in Inits
      BY <2>2 DEF Probe, Pc, CallInv
    <3>2. CASE Begin(call.fun, "identify", call.id, 0, 0)
      BY <3>2 DEF Begin, InRequest, Identifying
    <3>3. CASE Missing
      <4>1. call'.pc \notin Sending
        BY <3>1, <3>3, ProbedFields, NoCallFields DEF Missing, Sending
      <4> QED
        BY <4>1, NothingAsked
    <3> QED
      BY <2>2, <3>2, <3>3 DEF Probe
  <2>3. CASE Sizes
    <3>1. call'.pc \in {"idle", "divide error"}
      BY <2>3, NoCallFields, GotoFields DEF Sizes
    <3> QED
      BY <3>1 DEF InRequest
  <2> QED
    BY <2>1, <2>2, <2>3
<1>4. Asking = NoCall /\ Asking' = NoCall
  BY <1>2, <1>3, NothingAsked
<1> QED
  BY <1>1, <1>4 DEF Device!vars, Asking

LEMMA CallImplements ==
  ASSUME AtaInv, Call \/ Partition
  PROVE  Device!Next
<1> TypeInv /\ CallInv
  BY DEF AtaInv
<1>1. /\ call.pc \in {"idle", "partition"} /\ UNCHANGED medium
      /\ stored' = 0 /\ refused' = FALSE /\ answer' = NoAnswer
  BY NoCallFields DEF Call, NewCall, Partition, Pc
<1>2. ~InRequest
  BY <1>1 DEF InRequest
<1>3. CASE Call
  <2>1. calls' \in 1 .. MaxCalls
    BY <1>3, Bounds DEF TypeInv, Call, NewCall
  <2>2. PICK fun \in Users, command \in Transfers, id \in Drives, n \in Nat,
             offset \in Nat : Begin(fun, command, id, n, offset)
    <3>1. Counts \subseteq Nat /\ Offsets \subseteq Nat /\ 1 \in Nat /\ 0 \in Nat
      BY Bounds
    <3>2. /\ {"ata_read", "ata_write", "atapi_read", "fat16_format"} \subseteq Users
          /\ {"read", "write", "packet"} \subseteq Transfers
      BY DEF Users, Transfers
    <3> QED
      BY <1>3, <3>1, <3>2 DEF Call
  <2>3. Device!Ask
    BY <1>1, <1>2, <2>1, <2>2, AskImplements
  <2> QED
    BY <2>3 DEF Device!Next
<1>4. CASE Partition
  <2>1. calls' \in 1 .. MaxCalls
    <3>1. calls > 0 /\ calls' = calls
      BY <1>4 DEF CallInv, Pc, Partition
    <3> QED
      BY <3>1, Bounds DEF TypeInv
  <2>2. PICK from \in Starts : Begin("boot sector", "read", call.id, 1, from)
    BY <1>4 DEF Partition
  <2>3. from \in Nat
    BY Bounds DEF Starts, Start
  <2>4. call.id \in Drives /\ "read" \in Transfers /\ 1 \in Nat
    BY NotIdle DEF Transfers
  <2>5. Device!Ask
    BY <1>1, <1>2, <2>1, <2>2, <2>3, <2>4, AskImplements
  <2> QED
    BY <2>5 DEF Device!Next
<1> QED
  BY <1>3, <1>4

(* ata_read, ata_write and atapi_read bring and store the blocks they were *)
(* asked for, in order and no others, or fail; whatever the drives do in   *)
(* between, and whatever was left of the call before.                      *)
THEOREM BlockDeviceImplemented == Spec => ImplementsBlockDevice
<1>1. Init => Device!Init
  BY NoCallFields DEF Init, Device!Init, InRequest
<1>2. AtaInv /\ [Next]_vars => [Device!Next]_(Device!vars)
  <2> SUFFICES ASSUME AtaInv, [Next]_vars
      PROVE  Device!Next \/ UNCHANGED Device!vars
    OBVIOUS
  <2>1. CASE Work
    BY <2>1, WorkImplements
  <2>2. CASE Call \/ Partition
    BY <2>2, CallImplements
  <2>3. CASE Initialise \/ Probe \/ Sizes
    BY <2>3, OtherImplements
  <2>4. CASE Calm \/ SendCommand \/ SendPacket
    BY <2>4, CommandImplements
  <2>5. CASE Transfer
    BY <2>5, TransferImplements
  <2>6. CASE End
    BY <2>6, EndImplements
  <2>7. CASE UNCHANGED vars
    BY <2>7 DEF vars, history, Device!vars, InRequest, Request, Identifying
  <2> QED
    BY <2>1, <2>2, <2>3, <2>4, <2>5, <2>6, <2>7 DEF Next, Thread
<1> QED
  BY <1>1, <1>2, AtaSafe, PTL DEF Spec, ImplementsBlockDevice, Device!Spec

----------------------------------------------------------------------------
(* ata_wait and ata_reset, and the clock they read while a timer interrupt *)
(* may divide clock_read: for any number of clicks to a second, any        *)
(* timeout and any number of interrupts.                                   *)

Counting == ticks < MaxTicks          \* the history still counts

(* The counters say how many interrupts there were. *)
CounterInv ==
  /\ clicks \in 0 .. CLICKS_PER_SECOND - 1 /\ seconds \in Nat
  /\ ticks \in 0 .. MaxTicks
  /\ Counting => ticks = seconds * CLICKS_PER_SECOND + clicks

(* What was read first was the clock at that time. *)
FirstRead ==
  \/ /\ reading.first = "seconds" /\ reading.value \in Nat
     /\ Counting => /\ reading.value * CLICKS_PER_SECOND <= reading.since
                    /\ reading.since < reading.value * CLICKS_PER_SECOND
                                         + CLICKS_PER_SECOND
  \/ reading.first = "clicks" /\ reading.value \in 0 .. CLICKS_PER_SECOND - 1

StillCurrent ==
  /\ reading.first = "seconds" => reading.value = seconds
  /\ reading.first = "clicks" => reading.value = clicks

ReadingInv ==
  reading # NotReading =>
    /\ reading.since \in Nat /\ reading.since <= ticks
    /\ FirstRead
    /\ Counting /\ reading.since = ticks => StillCurrent

ClockInv == CounterInv /\ ReadingInv

(* While ata_reset waits, and no interrupt came since the reset bit was    *)
(* set, clock_wait has seen no other time than the present one.            *)
Present == [seconds |-> seconds, millis |-> (1000 * clicks) \div CLICKS_PER_SECOND]
Holding == pc \in {"wait start", "wait"} /\ caller = "hold"

HoldInv ==
  /\ pc \in {"idle", "poll", "done"} => reading = NotReading
  /\ Holding =>
       /\ held \in Nat /\ held <= ticks
       /\ reading # NotReading => held <= reading.since
       /\ pc = "wait" /\ Counting /\ ticks = held => waitStart = Present

WaitInv == ClockInv /\ HoldInv

----------------------------------------------------------------------------
(* The clock.                                                              *)

LEMMA CounterStep == CounterInv /\ [WaitNext]_waitVars => CounterInv'
<1> SUFFICES ASSUME CounterInv, [WaitNext]_waitVars PROVE CounterInv'
  OBVIOUS
<1>1. CASE UNCHANGED <<clicks, seconds, ticks>>
  BY <1>1 DEF CounterInv, Counting
<1>2. CASE clock_interrupt
  <2> DEFINE C == CLICKS_PER_SECOND
  <2>1. /\ C \in Nat \ {0} /\ MaxTicks \in Nat /\ Modulus \in Nat \ {0}
        /\ MaxTicks < Modulus * C
    BY ClockAssumption
  <2>2. /\ clicks \in 0 .. C - 1 /\ seconds \in Nat /\ ticks \in 0 .. MaxTicks
        /\ ticks < MaxTicks => ticks = seconds * C + clicks
    BY DEF CounterInv, Counting
  <2>3. /\ ticks' = IF ticks < MaxTicks THEN ticks + 1 ELSE ticks
        /\ clicks' = IF clicks + 1 >= C THEN 0 ELSE clicks + 1
        /\ seconds' = IF clicks + 1 >= C THEN (seconds + 1) % Modulus ELSE seconds
    BY <1>2 DEF clock_interrupt, SecondOver
  <2> HIDE DEF C
  <2>4. clicks' \in 0 .. C - 1 /\ seconds' \in Nat /\ ticks' \in 0 .. MaxTicks
    BY <2>1, <2>2, <2>3
  <2>5. ASSUME ticks' < MaxTicks PROVE ticks' = seconds' * C + clicks'
    <3>1. ticks' = ticks + 1 /\ ticks = seconds * C + clicks
      BY <2>2, <2>3, <2>5
    <3>2. CASE clicks + 1 >= C
      <4>1. clicks = C - 1 /\ clicks' = 0
        BY <2>1, <2>2, <2>3, <3>2
      <4>2. ticks' = (seconds + 1) * C
        BY <2>1, <2>2, <3>1, <4>1
      <4>3. seconds + 1 < Modulus
        <5> DEFINE n == seconds + 1
        <5>1. n \in Nat /\ n * C < Modulus * C
          <6>1. (seconds + 1) * C \in Int /\ Modulus * C \in Int
            BY <2>1, <2>2
          <6> QED BY <2>1, <2>2, <2>5, <4>2, <6>1
        <5> HIDE DEF n
        <5>2. n < Modulus
          <6> SUFFICES ASSUME n >= Modulus PROVE FALSE
            BY <2>1, <5>1
          <6>1. n * C >= Modulus * C
            BY <2>1, <5>1
          <6> QED BY <2>1, <5>1, <6>1
        <5> QED BY <5>2 DEF n
      <4>4. seconds' = seconds + 1
        BY <2>1, <2>2, <2>3, <3>2, <4>3
      <4> QED BY <2>1, <2>2, <4>1, <4>2, <4>4
    <3>3. CASE ~(clicks + 1 >= C)
      BY <2>1, <2>2, <2>3, <3>1, <3>3
    <3> QED BY <3>2, <3>3
  <2> QED BY <2>4, <2>5 DEF CounterInv, Counting, C
<1> QED BY <1>1, <1>2 DEF WaitNext, Interrupt, Answer, Waiter, CallWait, BeginRead, TakeStart,
           Poll, Check, WaitStart, Wait, ReadFirst, ReadSecond, NoRead, waitVars,
           clockVars

LEMMA ReadingStep == ClockInv /\ [WaitNext]_waitVars => ReadingInv'
<1> SUFFICES ASSUME ClockInv, [WaitNext]_waitVars, reading' # NotReading
             PROVE  /\ reading'.since \in Nat /\ reading'.since <= ticks'
                    /\ FirstRead'
                    /\ (Counting /\ reading.since = ticks => StillCurrent)'
  BY DEF ReadingInv
<1>1. CounterInv /\ ReadingInv
  BY DEF ClockInv
<1>2. CASE UNCHANGED <<clicks, seconds, reading, ticks>>
  BY <1>1, <1>2 DEF ReadingInv, FirstRead, StillCurrent, Counting
<1>3. CASE clock_interrupt
  <2>1. reading' = reading /\ reading # NotReading
    BY <1>3 DEF clock_interrupt
  <2>2. ticks \in 0 .. MaxTicks /\ MaxTicks \in Nat
    BY <1>1, ClockAssumption DEF CounterInv
  <2>3. ticks' = IF ticks < MaxTicks THEN ticks + 1 ELSE ticks
    BY <1>3 DEF clock_interrupt
  <2>4. Counting' => Counting
    BY <2>2, <2>3 DEF Counting
  <2>5. reading.since \in Nat /\ reading.since <= ticks /\ FirstRead
    BY <1>1, <2>1 DEF ReadingInv
  <2>6. reading'.since <= ticks' /\ ~(Counting' /\ reading'.since = ticks')
    BY <2>1, <2>2, <2>3, <2>5 DEF Counting
  <2> QED BY <2>1, <2>4, <2>5, <2>6 DEF FirstRead
<1>4. CASE ReadFirst
  <2>1. UNCHANGED <<clicks, seconds, ticks>>
    BY <1>4 DEF ReadFirst
  <2>2. /\ CLICKS_PER_SECOND \in Nat \ {0} /\ clicks \in 0 .. CLICKS_PER_SECOND - 1
        /\ seconds \in Nat /\ ticks \in Nat
        /\ Counting => ticks = seconds * CLICKS_PER_SECOND + clicks
    BY <1>1, ClockAssumption DEF CounterInv
  <2>3. CASE reading' = [first |-> "seconds", value |-> seconds, since |-> ticks]
    <3>1. reading'.first = "seconds" /\ reading'.value = seconds /\ reading'.since = ticks
      BY <2>3
    <3>2. seconds * CLICKS_PER_SECOND \in Nat
      BY <2>2
    <3>3. Counting' => /\ seconds * CLICKS_PER_SECOND <= ticks
                       /\ ticks < seconds * CLICKS_PER_SECOND + CLICKS_PER_SECOND
      BY <2>1, <2>2, <3>2 DEF Counting
    <3> QED BY <2>1, <2>2, <3>1, <3>3 DEF FirstRead, StillCurrent
  <2>4. CASE reading' = [first |-> "clicks", value |-> clicks, since |-> ticks]
    <3>1. reading'.first = "clicks" /\ reading'.value = clicks /\ reading'.since = ticks
      BY <2>4
    <3> QED BY <2>1, <2>2, <3>1 DEF FirstRead, StillCurrent
  <2> QED BY <1>4, <2>3, <2>4 DEF ReadFirst
<1>5. CASE ReadSecond
  BY <1>5 DEF ReadSecond
<1> QED BY <1>2, <1>3, <1>4, <1>5 DEF WaitNext, Interrupt, Answer, Waiter, CallWait,
           BeginRead, TakeStart, Poll, Check, WaitStart, Wait, NoRead, waitVars, clockVars

LEMMA ClockInitially == WaitInit => ClockInv
<1> SUFFICES ASSUME WaitInit PROVE ClockInv
  OBVIOUS
<1>1. clicks = 0 /\ seconds = 0 /\ ticks = 0 /\ reading = NotReading
  BY DEF WaitInit, ClockInit
<1>2. CLICKS_PER_SECOND \in Nat \ {0} /\ MaxTicks \in Nat
  BY ClockAssumption
<1> QED BY <1>1, <1>2 DEF ClockInv, CounterInv, ReadingInv

(* The counters and a reading in progress are what the interrupts made of  *)
(* them (clock_interrupt, clock_read).                                     *)
THEOREM ClockSafe == WaitSpec => []ClockInv
<1>1. ClockInv /\ [WaitNext]_waitVars => ClockInv'
  BY CounterStep, ReadingStep DEF ClockInv
<1> QED BY <1>1, ClockInitially, PTL DEF WaitSpec

(* However many interrupts come between the two loads of clock_read, what  *)
(* it returns is less than a second before it began or after it ended.     *)
THEOREM ReadingIsWithinASecond == WaitSpec => []ReadingWithinASecond
<1>1. ClockInv => ReadingWithinASecond
  <2> SUFFICES ASSUME ClockInv, reading # NotReading, Counting
               PROVE  LET s == IF reading.first = "seconds" THEN reading.value
                               ELSE seconds
                          c == IF reading.first = "clicks" THEN reading.value
                               ELSE clicks
                          r == s * CLICKS_PER_SECOND + c
                      IN reading.since - CLICKS_PER_SECOND < r
                         /\ r < ticks + CLICKS_PER_SECOND
    BY DEF ReadingWithinASecond, Counting
  <2> DEFINE C == CLICKS_PER_SECOND
             v == reading.value
             b == reading.since
  <2>1. /\ C \in Nat \ {0} /\ clicks \in 0 .. C - 1 /\ seconds \in Nat
        /\ ticks = seconds * C + clicks /\ ticks \in Nat
    BY ClockAssumption DEF ClockInv, CounterInv
  <2>2. b \in Nat /\ b <= ticks /\ FirstRead
    BY DEF ClockInv, ReadingInv
  <2>3. CASE reading.first = "seconds"
    <3>1. v \in Nat /\ v * C <= b /\ b < v * C + C
      BY <2>2, <2>3 DEF FirstRead
    <3> HIDE DEF C, v, b
    <3>2. v * C \in Nat
      BY <2>1, <3>1
    <3>3. b - C < v * C + clicks /\ v * C + clicks < ticks + C
      BY <2>1, <2>2, <3>1, <3>2
    <3> QED BY <2>3, <3>3 DEF C, v, b
  <2>4. CASE reading.first = "clicks"
    <3>1. v \in 0 .. C - 1
      BY <2>2, <2>4 DEF FirstRead
    <3> HIDE DEF C, v, b
    <3>2. seconds * C \in Nat
      BY <2>1
    <3>3. b - C < seconds * C + v /\ seconds * C + v < ticks + C
      BY <2>1, <2>2, <3>1, <3>2
    <3> QED BY <2>4, <3>3 DEF C, v, b
  <2> QED BY <2>2, <2>3, <2>4 DEF FirstRead
<1> QED BY <1>1, ClockSafe, PTL

----------------------------------------------------------------------------
(* The wait of ata_reset.                                                  *)

(* No time passes between two equal readings, and 0 ms are not enough.     *)
LEMMA NoTimePassed ==
  ASSUME CounterInv, caller = "hold"
  PROVE  ~WaitOver(clock_diff(Present, Present))
<1> DEFINE m == (1000 * clicks) \div CLICKS_PER_SECOND
           elapsed == clock_diff(Present, Present)
<1>1. /\ CLICKS_PER_SECOND \in Nat \ {0} /\ Modulus \in Nat \ {0}
      /\ clicks \in Nat /\ seconds \in Nat
  BY ClockAssumption DEF CounterInv
<1>2. m \in Int
  BY <1>1
<1> HIDE DEF m
<1>3. Present = [seconds |-> seconds, millis |-> m]
  BY DEF Present, m
<1>4. elapsed = [seconds |-> (seconds - seconds) % Modulus, millis |-> m - m]
  BY <1>2, <1>3 DEF clock_diff
<1>5. elapsed.seconds = 0 /\ elapsed.millis = 0
  <2>1. (seconds - seconds) % Modulus = 0 /\ m - m = 0
    BY <1>1, <1>2
  <2> QED BY <1>4, <2>1
<1> HIDE DEF elapsed
<1>6. ~WaitOver(elapsed)
  BY <1>5 DEF WaitOver, Millis
<1> QED BY <1>6 DEF elapsed

(* A reading that began at this tick is the present time.                  *)
LEMMA NowIsPresent ==
  ASSUME ClockInv, reading # NotReading, Counting, reading.since = ticks
  PROVE  Now = Present
BY DEF ClockInv, ReadingInv, FirstRead, StillCurrent, Now, Present

(* The present time stands still between two interrupts.                   *)
LEMMA TimeStands ==
  UNCHANGED <<clicks, seconds, ticks>> => Present' = Present /\ Counting' = Counting
BY DEF Present, Counting

LEMMA HoldKept ==
  ASSUME HoldInv,
         UNCHANGED <<clicks, seconds, ticks, reading, pc, caller, waitStart, held>>
  PROVE  HoldInv'
<1>1. Present' = Present /\ Counting' = Counting
  BY TimeStands
<1>2. Holding' = Holding
  BY DEF Holding
<1> QED BY <1>1, <1>2 DEF HoldInv

LEMMA HoldStep == WaitInv /\ [WaitNext]_waitVars => HoldInv'
<1> SUFFICES ASSUME WaitInv, [WaitNext]_waitVars PROVE HoldInv'
  OBVIOUS
<1>1. ClockInv /\ HoldInv /\ ticks \in Nat /\ ticks <= MaxTicks /\ MaxTicks \in Nat
  BY ClockAssumption DEF WaitInv, ClockInv, CounterInv
<1>2. CASE UNCHANGED waitVars
  <2>1. UNCHANGED <<clicks, seconds, ticks, reading, pc, caller, waitStart, held>>
    BY <1>2 DEF waitVars, clockVars, thread
  <2> QED BY <1>1, <2>1, HoldKept
<1>3. CASE Interrupt
  <2>1. /\ UNCHANGED <<reading, pc, caller, waitStart, held>>
        /\ ticks' = IF ticks < MaxTicks THEN ticks + 1 ELSE ticks
    BY <1>3 DEF Interrupt, clock_interrupt, thread
  <2>2. ticks' \in Nat /\ ticks <= ticks' /\ (Counting' => ticks' = ticks + 1)
    BY <1>1, <2>1 DEF Counting
  <2>3. Holding' => Holding
    BY <2>1 DEF Holding
  <2>4. pc' \in {"idle", "poll", "done"} => reading' = NotReading
    BY <1>1, <2>1 DEF HoldInv
  <2>5. ASSUME Holding'
        PROVE  /\ held' \in Nat /\ held' <= ticks'
               /\ reading' # NotReading => held' <= reading'.since
               /\ ~(Counting' /\ ticks' = held')
    <3>1. /\ held \in Nat /\ held <= ticks
          /\ reading # NotReading => held <= reading.since
      BY <1>1, <2>3, <2>5 DEF HoldInv
    <3> QED BY <1>1, <2>1, <2>2, <3>1
  <2> QED BY <2>4, <2>5 DEF HoldInv
<1>4. CASE Answer
  <2>1. UNCHANGED <<clicks, seconds, ticks, reading, pc, caller, waitStart, held>>
    BY <1>4 DEF Answer, clockVars, thread
  <2> QED BY <1>1, <2>1, HoldKept
<1>5. CASE CallWait
  BY <1>1, <1>5 DEF CallWait, NoRead, HoldInv, Holding
<1>6. CASE BeginRead
  <2>1. /\ UNCHANGED <<clicks, seconds, ticks, pc, caller, waitStart, held>>
        /\ pc \in {"start", "check", "wait start", "wait"}
    BY <1>6 DEF BeginRead, ReadFirst, thread
  <2>2. reading'.since = ticks
    <3>1. CASE reading' = [first |-> "seconds", value |-> seconds, since |-> ticks]
      BY <3>1
    <3>2. CASE reading' = [first |-> "clicks", value |-> clicks, since |-> ticks]
      BY <3>2
    <3> QED BY <1>6, <3>1, <3>2 DEF BeginRead, ReadFirst
  <2>3. Present' = Present /\ Counting' = Counting
    BY <2>1, TimeStands
  <2>4. Holding' = Holding
    BY <2>1 DEF Holding
  <2>5. pc' \in {"idle", "poll", "done"} => reading' = NotReading
    BY <2>1
  <2>6. Holding' => held' \in Nat /\ held' <= ticks' /\ held' <= reading'.since
    BY <1>1, <2>1, <2>2, <2>4 DEF HoldInv
  <2>7. Holding' /\ pc' = "wait" /\ Counting' /\ ticks' = held'
        => waitStart' = Present'
    BY <1>1, <2>1, <2>3, <2>4 DEF HoldInv
  <2> QED BY <2>5, <2>6, <2>7 DEF HoldInv
<1>7. CASE TakeStart
  BY <1>1, <1>7 DEF TakeStart, ReadSecond, HoldInv, Holding
<1>8. CASE Poll
  <2>1. UNCHANGED <<reading, ticks>> /\ reading = NotReading
    BY <1>1, <1>8 DEF Poll, NoRead, HoldInv
  <2>2. \/ pc' \in {"done", "check"}
        \/ pc' = "wait start" /\ held' = ticks
    BY <1>8 DEF Poll, Fail, ClockWait
  <2>3. Holding' => /\ held' \in Nat /\ held' <= ticks' /\ reading' = NotReading
                    /\ pc' # "wait"
    <3>1. Holding' => pc' = "wait start" /\ held' = ticks
      BY <2>2 DEF Holding
    <3>2. pc' = "wait start" => pc' # "wait"
      OBVIOUS
    <3>3. held' = ticks => held' \in Nat /\ held' <= ticks'
      BY <1>1, <2>1
    <3>4. reading' = NotReading
      BY <2>1
    <3> QED BY <3>1, <3>2, <3>3, <3>4
  <2> QED BY <2>1, <2>3 DEF HoldInv
<1>9. CASE Check
  <2>1. UNCHANGED ticks /\ reading' = NotReading
    BY <1>9 DEF Check, ReadSecond
  <2>2. pc' = "wait start" /\ (held' = ticks \/ caller' = "pause")
    BY <1>9 DEF Check, Fail, ClockWait
  <2>3. Holding' => /\ held' \in Nat /\ held' <= ticks' /\ reading' = NotReading
                    /\ pc' # "wait"
    <3>1. Holding' => pc' = "wait start" /\ held' = ticks
      BY <2>2 DEF Holding
    <3>2. pc' = "wait start" => pc' # "wait"
      OBVIOUS
    <3>3. held' = ticks => held' \in Nat /\ held' <= ticks'
      BY <1>1, <2>1
    <3>4. reading' = NotReading
      BY <2>1
    <3> QED BY <3>1, <3>2, <3>3, <3>4
  <2> QED BY <2>1, <2>3 DEF HoldInv
<1>10. CASE WaitStart
  <2>1. /\ UNCHANGED <<clicks, seconds, ticks, caller, held>>
        /\ reading # NotReading /\ reading' = NotReading
        /\ pc = "wait start" /\ pc' = "wait" /\ waitStart' = Now
    BY <1>10 DEF WaitStart, ReadSecond
  <2>2. ASSUME caller = "hold", Counting, ticks = held PROVE waitStart' = Present'
    <3>1. reading.since <= ticks /\ held <= reading.since /\ reading.since \in Nat
      BY <1>1, <2>1, <2>2 DEF HoldInv, Holding, ClockInv, ReadingInv
    <3>2. reading.since = ticks
      BY <1>1, <2>2, <3>1
    <3>3. Now = Present
      BY <1>1, <2>1, <2>2, <3>2, NowIsPresent
    <3>4. Present' = Present
      BY <2>1, TimeStands
    <3> QED BY <2>1, <3>3, <3>4
  <2> QED BY <1>1, <2>1, <2>2 DEF HoldInv, Holding, Counting
<1>11. CASE Wait
  <2>1. /\ UNCHANGED <<clicks, seconds, ticks, held, waitStart>>
        /\ reading' = NotReading /\ pc = "wait"
    BY <1>11 DEF Wait, ReadSecond
  <2>2. \/ UNCHANGED <<pc, caller>>
        \/ pc' = "wait start" /\ caller' = "settle"
        \/ pc' \in {"poll", "done"}
    BY <1>11 DEF Wait, ClockWait
  <2>3. Present' = Present /\ Counting' = Counting
    BY <2>1, TimeStands
  <2>4. Holding' => Holding
    BY <2>1, <2>2 DEF Holding
  <2>5. pc' \in {"idle", "poll", "done"} => reading' = NotReading
    BY <2>1
  <2>6. Holding' =>
          /\ held' \in Nat /\ held' <= ticks'
          /\ reading' # NotReading => held' <= reading'.since
          /\ pc' = "wait" /\ Counting' /\ ticks' = held' => waitStart' = Present'
    BY <1>1, <2>1, <2>3, <2>4 DEF HoldInv
  <2> QED BY <2>5, <2>6 DEF HoldInv
<1> QED BY <1>2, <1>3, <1>4, <1>5, <1>6, <1>7, <1>8, <1>9, <1>10, <1>11
        DEF WaitNext, Waiter

LEMMA HoldEnds ==
  ASSUME WaitInv, [WaitNext]_waitVars, caller = "hold", caller' = "settle", ticks < MaxTicks
  PROVE  ticks > held
<1>1. ClockInv /\ HoldInv /\ ticks \in Nat
  BY DEF WaitInv, ClockInv, CounterInv
<1>2. /\ pc = "wait" /\ reading # NotReading
      /\ WaitOver(clock_diff(waitStart, Now))
  BY DEF WaitNext, waitVars, thread, Interrupt, Answer, Waiter, CallWait, BeginRead, TakeStart,
         Poll, Check, WaitStart, Wait, Fail, ClockWait, ReadSecond
<1>3. /\ held \in Nat /\ held <= ticks /\ held <= reading.since
      /\ reading.since \in Nat /\ reading.since <= ticks
  BY <1>1, <1>2 DEF HoldInv, Holding, ClockInv, ReadingInv
<1> SUFFICES ASSUME ticks = held PROVE FALSE
  BY <1>1, <1>3
<1>4. waitStart = Present
  BY <1>1, <1>2 DEF HoldInv, Holding, Counting
<1>5. Now = Present
  <2>1. reading.since = ticks
    BY <1>1, <1>3
  <2> QED BY <1>1, <1>2, <2>1, NowIsPresent DEF Counting
<1>6. ~WaitOver(clock_diff(Present, Present))
  BY <1>1, NoTimePassed DEF ClockInv
<1> QED BY <1>2, <1>4, <1>5, <1>6

(* ata_reset holds the drive in reset over at least one tick of the clock, *)
(* whatever its two readings of the clock were divided by (clock_wait,     *)
(* clock_diff).                                                            *)
THEOREM ResetIsHeld == WaitSpec => ResetHeld
<1>1. WaitInit => WaitInv
  <2> SUFFICES ASSUME WaitInit PROVE HoldInv
    BY ClockInitially DEF WaitInv
  <2> QED BY DEF WaitInit, ClockInit, HoldInv, Holding
<1>2. WaitInv /\ [WaitNext]_waitVars => WaitInv'
  <2>1. ClockInv /\ [WaitNext]_waitVars => ClockInv'
    BY CounterStep, ReadingStep DEF ClockInv
  <2> QED BY <2>1, HoldStep DEF WaitInv
<1>3. WaitInv /\ [WaitNext]_waitVars =>
        [(caller = "hold" /\ caller' = "settle" /\ ticks < MaxTicks => ticks > held)]_waitVars
  BY HoldEnds
<1> QED BY <1>1, <1>2, <1>3, PTL DEF WaitSpec, ResetHeld

============================================================================
