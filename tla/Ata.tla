--------------------------------- MODULE Ata ---------------------------------
(***************************************************************************)
(* The disk driver (src/src/ata.c: ata_read, ata_write, ata_poll) and the  *)
(* device it talks to.                                                     *)
(*                                                                         *)
(* The driver writes six registers, the last of which starts a command,    *)
(* then waits for every sector and moves it. The device works at its own   *)
(* pace between any two of these steps. The device is not in the           *)
(* repository: an ATA disk without DMA that ignores its registers while it *)
(* is busy or has a sector to move, takes a count of 0 for 256 and moves   *)
(* one sector per request.                                                 *)
(*                                                                         *)
(* Memory is counted in sectors: slot k of the caller's buffer is its      *)
(* bytes 512 * k to 512 * k + 511.                                         *)
(***************************************************************************)
EXTENDS Integers, Sequences

CONSTANTS
  Sectors,   \* the sectors callers ask for
  Counts,    \* how many sectors callers ask for
  MaxCalls,  \* bound: how many calls are made
  Noise,     \* what the data port gives when the device has nothing to move
  Nothing    \* no sector on its way to the medium

ASSUME AtaAssumption ==
  /\ Sectors \subseteq Nat
  /\ Counts \subseteq 0 .. 255      \* uint8_t
  /\ MaxCalls \in Nat

Byte  == 0 .. 255
Reg   == {"drive", "count", "lo", "mid", "hi"}
Place == [unit : {0, 1}, lba : Nat]      \* a sector of one of the two drives
Slots == 0 .. 2 * 255 + 1                \* the widest stride a call can reach
Token == [call : 1 .. MaxCalls, slot : Slots]   \* what a call of ata_write wrote

ASSUME NothingAssumption == Nothing \notin Token

VARIABLES
  call,    \* the call in progress, or the last one
  pc,      \* "idle", "out", "poll" or "flush"
  step,    \* the registers written
  moved,   \* the loop variable i: sectors moved
  buffer,  \* the slots of the caller's buffer that were named so far
  result,  \* what the last call returned
  calls,   \* how many calls were made
  taken,   \* the device took every register of this call
  dev,     \* the device
  medium   \* the places written since the start, and what was written there

driver == <<call, pc, step, moved, buffer, result, calls, taken>>
vars   == <<driver, dev, medium>>

Op      == {"read", "write"}
Results == {"OK", "HARDWARE"}

DeviceState ==
  [regs : [Reg -> Byte], state : {"ready", "busy", "drq", "failed"},
   cmd : Op \cup {"flush"}, place : Place, left : 0 .. 256, pending : Token \cup {Nothing}]

TypeOK ==
  /\ call \in [op : Op, sector : Sectors \cup {0}, count : Counts \cup {0}]
  /\ pc \in {"idle", "out", "poll", "flush"}
  /\ step \in 0 .. 6 /\ moved \in 0 .. 255 /\ calls \in 0 .. MaxCalls
  /\ \A k \in DOMAIN buffer : k \in Slots
  /\ result \in Results /\ taken \in BOOLEAN
  /\ dev \in DeviceState
  /\ DOMAIN medium \subseteq Place

-----------------------------------------------------------------------------
(* Bugs the code could have had: a register that is not cut to its width,  *)
(* two registers swapped, a wait for "not busy" only, a loop that goes one *)
(* too far, a buffer that is advanced before the sector is moved.          *)

WideRegisters(s, n) ==
  [drive |-> 224 + ((s \div 16777216) % 32), count |-> n, lo |-> s % 256,
   mid |-> s \div 256, hi |-> (s \div 65536) % 256]

SwapsMidAndHi(s, n) ==
  [drive |-> 224 + ((s \div 16777216) % 32), count |-> n, lo |-> s % 256,
   mid |-> (s \div 65536) % 256, hi |-> (s \div 256) % 256]

WaitsForNotBusy   == dev.state # "busy"
GoesOneFurther(i) == i = call.count
AdvancesFirst(i)  == 2 * i + 1

-----------------------------------------------------------------------------
(* The device.                                                             *)

(* 28 bits of address in four registers, and the drive in bit 4 of drive.  *)
Addressed(regs) ==
  [unit |-> (regs.drive \div 16) % 2,
   lba  |-> (regs.drive % 16) * 16777216 + regs.hi * 65536 + regs.mid * 256 + regs.lo]

Accepts == dev.state \in {"ready", "failed"}

Contents(place) == IF place \in DOMAIN medium THEN medium[place] ELSE place

Following(place) == [place EXCEPT !.lba = @ + 1]

Command(cmd) ==
  [dev EXCEPT !.state = "busy", !.cmd = cmd, !.place = Addressed(dev.regs),
              !.left = IF dev.regs.count = 0 THEN 256 ELSE dev.regs.count,
              !.pending = Nothing]

(* One sector over the data port, if the device has asked for it.          *)
Serves(op) == dev.state = "drq" /\ dev.cmd = op

SectorGiven ==
  IF Serves("read")
  THEN [dev EXCEPT !.place = Following(@), !.left = @ - 1,
                   !.state = IF dev.left = 1 THEN "ready" ELSE "busy"]
  ELSE dev

SectorTaken(data) ==
  IF Serves("write") THEN [dev EXCEPT !.state = "busy", !.pending = data] ELSE dev

(* The device at work: it fails, or goes on to its next request.           *)
DeviceFails ==
  /\ dev.state = "busy"
  /\ dev' = [dev EXCEPT !.state = "failed", !.pending = Nothing]
  /\ UNCHANGED <<driver, medium>>

DeviceAsks ==
  /\ dev.state = "busy" /\ dev.cmd # "flush" /\ dev.pending = Nothing
  /\ dev' = [dev EXCEPT !.state = "drq"]
  /\ UNCHANGED <<driver, medium>>

DeviceStores ==
  /\ dev.state = "busy" /\ dev.pending # Nothing
  /\ medium' = [p \in DOMAIN medium \cup {dev.place} |->
                  IF p = dev.place THEN dev.pending ELSE medium[p]]
  /\ dev' = [dev EXCEPT !.place = Following(@), !.left = @ - 1, !.pending = Nothing,
                        !.state = IF dev.left = 1 THEN "ready" ELSE "drq"]
  /\ UNCHANGED driver

DeviceFlushed ==
  /\ dev.state = "busy" /\ dev.cmd = "flush"
  /\ dev' = [dev EXCEPT !.state = "ready"]
  /\ UNCHANGED <<driver, medium>>

Device == DeviceFails \/ DeviceAsks \/ DeviceStores \/ DeviceFlushed

-----------------------------------------------------------------------------
(* The driver.                                                             *)

(* What the calls of outb store; each keeps the low byte. Or-ing 0xe0 to   *)
(* the top byte of the sector keeps its lowest five bits.                  *)
Registers(s, n) ==
  [drive |-> 224 + ((s \div 16777216) % 32), count |-> n, lo |-> s % 256,
   mid |-> (s \div 256) % 256, hi |-> (s \div 65536) % 256]

Order == <<"drive", "count", "lo", "mid", "hi">>

(* outb of the k-th register of a call. *)
Out(c, k) ==
  /\ taken' = (Accepts /\ (k = 1 \/ taken))
  /\ dev' = IF Accepts THEN [dev EXCEPT !.regs[Order[k]] = Registers(c.sector, c.count)[Order[k]]]
                       ELSE dev
  /\ step' = k

(* ata_poll ends well when the device is not busy and has a request.       *)
Polled == dev.state = "drq"

Last(i) == i + 1 = call.count

(* Where sector i lands, or comes from: rep insw moves buf past the sector *)
(* and buf += 256 moves it as far again.                                   *)
BufferSlot(i) == 2 * i

NoData == <<>>     \* no slot named, no place written
Named(data) == [k \in DOMAIN buffer \cup {BufferSlot(moved)} |->
                  IF k = BufferSlot(moved) THEN data ELSE buffer[k]]

Return(r) == pc' = "idle" /\ result' = r

Init ==
  /\ call = [op |-> "read", sector |-> 0, count |-> 0]
  /\ pc = "idle" /\ step = 0 /\ moved = 0 /\ calls = 0
  /\ buffer = NoData /\ result = "HARDWARE" /\ taken = FALSE
  /\ dev = [regs |-> [r \in Reg |-> 0], state |-> "ready", cmd |-> "read",
            place |-> [unit |-> 0, lba |-> 0], left |-> 0, pending |-> Nothing]
  /\ medium = NoData

(* A call: outb of the drive register comes first.                         *)
Begin(op, s, n) ==
  /\ pc = "idle"
  /\ calls < MaxCalls                                           \* bound
  /\ call' = [op |-> op, sector |-> s, count |-> n]
  /\ pc' = "out" /\ moved' = 0 /\ buffer' = NoData /\ calls' = calls + 1
  /\ Out(call', 1)
  /\ UNCHANGED <<result, medium>>

OutRegister ==
  /\ pc = "out" /\ step < 5
  /\ Out(call, step + 1)
  /\ UNCHANGED <<call, pc, moved, buffer, result, calls, medium>>

(* outb of the command. Nothing is moved when the count is 0.              *)
OutCommand ==
  /\ pc = "out" /\ step = 5
  /\ step' = 6
  /\ taken' = (taken /\ Accepts)
  /\ dev' = IF Accepts THEN Command(call.op) ELSE dev
  /\ IF call.count > 0 THEN pc' = "poll" /\ UNCHANGED result
     ELSE IF call.op = "read" THEN Return("OK")
     ELSE pc' = "flush" /\ UNCHANGED result
  /\ UNCHANGED <<call, moved, buffer, calls, medium>>

(* ata_poll reads an error: the device's, or, as it looks at the bit while *)
(* the device is busy and need not keep it valid, anything. While it reads *)
(* neither an error nor a request it goes on reading, which changes        *)
(* nothing.                                                                *)
ErrorRead == dev.state \in {"failed", "busy"}
PollError ==
  /\ pc = "poll" /\ ~ Polled /\ ErrorRead
  /\ Return("HARDWARE")
  /\ UNCHANGED <<call, step, moved, buffer, calls, taken, dev, medium>>

MoveIn ==
  /\ pc = "poll" /\ Polled /\ call.op = "read"
  /\ buffer' = Named(IF Serves("read") THEN Contents(dev.place) ELSE Noise)
  /\ dev' = SectorGiven
  /\ moved' = moved + 1
  /\ IF Last(moved) THEN Return("OK") ELSE UNCHANGED <<pc, result>>
  /\ UNCHANGED <<call, step, calls, taken, medium>>

MoveOut ==
  /\ pc = "poll" /\ Polled /\ call.op = "write"
  /\ LET data == [call |-> calls, slot |-> BufferSlot(moved)]
     IN  buffer' = Named(data) /\ dev' = SectorTaken(data)
  /\ moved' = moved + 1
  /\ pc' = IF Last(moved) THEN "flush" ELSE pc
  /\ UNCHANGED <<call, step, result, calls, taken, medium>>

(* The flush command, at once: the device may still be busy and ignore it. *)
Flush ==
  /\ pc = "flush"
  /\ dev' = IF Accepts THEN Command("flush") ELSE dev
  /\ Return("OK")
  /\ UNCHANGED <<call, step, moved, buffer, calls, taken, medium>>

Driver == OutRegister \/ OutCommand \/ PollError \/ MoveIn \/ MoveOut \/ Flush

Next ==
  \/ \E op \in Op, s \in Sectors, n \in Counts : Begin(op, s, n)
  \/ Driver
  \/ Device

(* The driver is the only code that runs, and a device that has a command  *)
(* ends it one way or the other.                                           *)
Fairness == WF_vars(Driver) /\ WF_vars(Device)

Spec == Init /\ [][Next]_vars /\ Fairness

-----------------------------------------------------------------------------
(* Properties.                                                             *)

Asked(i) == [unit |-> 0, lba |-> call.sector + i]

(* The first sector that 28 bits cannot name.                              *)
AddressLimit == 268435456

InRange == call.sector + call.count <= AddressLimit

Returned(op) == pc = "idle" /\ call.op = op /\ result = "OK" /\ taken

(* A read that returns OK and whose registers the device took has put      *)
(* sector sector + i at twice the distance the caller may expect, for      *)
(* every i, whatever was read, written or failed before.                   *)
ReadDelivers ==
  Returned("read") /\ InRange =>
    \A i \in 0 .. call.count - 1 : /\ 2 * i \in DOMAIN buffer
                                   /\ buffer[2 * i] = Contents(Asked(i))

(* No call names a slot between two sectors, or one past the last sector's *)
(* place: what ata_read does to the memory after its buffer is bounded by  *)
(* 1024 * (count - 1) + 512 bytes.                                         *)
StridePlaces ==
  \A k \in DOMAIN buffer : k % 2 = 0 /\ k \div 2 < call.count

(* When a write returns OK every sector but the last is on the medium. The *)
(* last is there too, or on its way, or was lost without the caller being  *)
(* told.                                                                   *)
OnlyLastAtRisk ==
  Returned("write") /\ InRange =>
    \A i \in 0 .. call.count - 2 : /\ Asked(i) \in DOMAIN medium
                                   /\ medium[Asked(i)] = [call |-> calls, slot |-> 2 * i]

(* A call whose registers were taken changes no other sectors than those   *)
(* it was asked to write, also after it has returned.                      *)
WritesWhereAsked ==
  [][medium' # medium /\ taken /\ InRange =>
       \E i \in 0 .. call.count - 1 :
         \A p \in DOMAIN medium' \ {Asked(i)} : p \in DOMAIN medium /\ medium'[p] = medium[p]]_vars

(* What driver and device have left to do, if there is no other call.      *)
DriverWork == CASE pc = "idle"  -> 0
                [] pc = "out"   -> 5 * call.count + 3 * (7 - step)
                [] pc = "poll"  -> 5 * (call.count - moved)
                [] pc = "flush" -> 3
DeviceWork == CASE dev.state = "busy" -> 2 [] dev.state = "drq" -> 1 [] OTHER -> 0
Work       == DriverWork + DeviceWork

(* ata_poll, which has no limit, is not called for a sector that the       *)
(* device does not have: a device that took the registers has a sector to  *)
(* move for every one of the loop, or has failed.                          *)
PollsADeviceAtWork == pc = "poll" /\ taken => dev.state # "ready"

(* No step of the driver or of the device undoes or repeats another: each  *)
(* leaves less to do, within a call and after it, whether or not the       *)
(* device took the registers, and a call whose registers were taken polls  *)
(* only a device with something to answer. A poll that reads neither error *)
(* nor request is no step: that it is not repeated for ever is not said    *)
(* here, but in CallsReturn, for the calls that is true of.                *)
WorkDecreases ==
  [][/\ PollsADeviceAtWork'
     /\ calls' = calls => Work' \in 0 .. Work - 1]_vars

(* A call whose registers the device took returns. (One that met a device  *)
(* still busy with the write before may poll for ever.)                    *)
CallsReturn == (pc \in {"poll", "flush"} /\ taken) ~> (pc = "idle")

==============================================================================
