------------------------------ MODULE AtaProofs ------------------------------
(***************************************************************************)
(* What the disk driver does for every sector, count and device.           *)
(***************************************************************************)
EXTENDS Ata, TLAPS

(* The four registers that carry a sector number are the digits of its     *)
(* first 28 bits, and bit 28 selects the drive: a sector the registers can *)
(* name is the one the device goes to, any other is a different one        *)
(* (ata_read and ata_write, the calls of outb).                            *)
LEMMA Digits ==
  ASSUME NEW s \in Nat, NEW n \in Byte
  PROVE  /\ Registers(s, n) \in [Reg -> Byte]
         /\ Addressed(Registers(s, n)).unit = (s \div AddressLimit) % 2
         /\ Addressed(Registers(s, n)).lba = s % AddressLimit
<1> DEFINE d == (s \div 16777216) % 32
<1>1. d \in 0 .. 31
  BY SMT
<1>2. ((224 + d) \div 16) % 2 = d \div 16 /\ (224 + d) % 16 = d % 16
  BY <1>1, SMT
<1>3. d \div 16 = (s \div AddressLimit) % 2
  BY SMT DEF AddressLimit
<1>4. d % 16 = (s \div 16777216) % 16
  BY SMT
<1>5. ((s \div 16777216) % 16) * 16777216 + ((s \div 65536) % 256) * 65536
        + ((s \div 256) % 256) * 256 + (s % 256) = s % AddressLimit
  BY SMT DEF AddressLimit
<1>6. Registers(s, n) \in [Reg -> Byte]
  BY <1>1, SMT DEF Registers, Reg, Byte
<1> QED
  BY <1>2, <1>3, <1>4, <1>5, <1>6, SMT DEF Registers, Addressed

(* Every sector below 2^28 is read from and written to its own place.      *)
THEOREM AddressExact ==
  ASSUME NEW s \in Nat, s < AddressLimit, NEW n \in Byte
  PROVE  Addressed(Registers(s, n)) = [unit |-> 0, lba |-> s]
<1>1. s \div AddressLimit = 0 /\ s % AddressLimit = s
  BY SMT DEF AddressLimit
<1>2. (s \div AddressLimit) % 2 = 0
  BY <1>1, SMT
<1>3. /\ Addressed(Registers(s, n)).unit = (s \div AddressLimit) % 2
      /\ Addressed(Registers(s, n)).lba = s % AddressLimit
  BY Digits, Zenon
<1>4. /\ Addressed(Registers(s, n)).unit = 0
      /\ Addressed(Registers(s, n)).lba = s
  BY <1>1, <1>2, <1>3, Zenon
<1>5. \A r : Addressed(r) = [unit |-> Addressed(r).unit, lba |-> Addressed(r).lba]
  BY SMT DEF Addressed
<1> QED
  BY <1>4, <1>5, Zenon

-----------------------------------------------------------------------------
(* The inductive invariant: what the driver and the device each keep to,   *)
(* and, while a read whose registers were taken is in progress, where the  *)
(* device is in it.                                                        *)

DriverInv ==
  /\ pc = "out" => moved = 0 /\ step \in 1 .. 5
  /\ pc = "poll" => moved < call.count
  /\ moved <= call.count
  /\ DOMAIN buffer = {2 * i : i \in 0 .. moved - 1}
  /\ pc # "idle" => calls > 0

DeviceInv ==
  /\ dev.pending # Nothing => dev.state = "busy" /\ dev.cmd = "write"
  /\ dev.state \in {"busy", "drq"} /\ dev.cmd # "flush" => dev.left > 0

Reading == taken /\ call.op = "read" /\ InRange

RegistersSet == \A k \in 1 .. step : dev.regs[Order[k]] = Registers(call.sector, call.count)[Order[k]]

InStep ==
  \/ dev.state = "failed"
  \/ /\ dev.state \in {"busy", "drq"} /\ dev.cmd = "read"
     /\ dev.left = call.count - moved /\ dev.place = Asked(moved)

Delivered == \A i \in 0 .. moved - 1 : buffer[2 * i] = Contents(Asked(i))

ReadInv ==
  Reading =>
    /\ pc = "out" => Accepts /\ RegistersSet
    /\ pc = "poll" => InStep
    /\ pc # "out" => dev.pending = Nothing
    /\ pc # "flush"
    /\ pc = "idle" /\ result = "OK" => moved = call.count
    /\ Delivered

AtaInv == TypeOK /\ DriverInv /\ DeviceInv /\ ReadInv

(* The invariant holds when the kernel starts: no call was made.           *)
LEMMA InvInit == Init => AtaInv
<1> SUFFICES ASSUME Init PROVE AtaInv
  OBVIOUS
<1> USE DEF Init, NoData
<1>1. dev \in DeviceState
  BY DEF DeviceState, Op, Byte, Place
<1>2. DOMAIN buffer = {} /\ DOMAIN medium = {}
  OBVIOUS
<1>3. TypeOK
  <2>1. call \in [op : Op, sector : Sectors \cup {0}, count : Counts \cup {0}]
    BY DEF Op
  <2>2. step \in 0 .. 6 /\ moved \in 0 .. 255 /\ calls \in 0 .. MaxCalls
    BY AtaAssumption
  <2>3. pc \in {"idle", "out", "poll", "flush"} /\ result \in Results /\ taken \in BOOLEAN
    BY DEF Results
  <2> QED
    BY <1>1, <1>2, <2>1, <2>2, <2>3 DEF TypeOK
<1>4. DriverInv
  BY <1>2 DEF DriverInv
<1>5. DeviceInv /\ ReadInv
  BY DEF DeviceInv, ReadInv, Reading
<1> QED
  BY <1>3, <1>4, <1>5 DEF AtaInv

(* What one outb to a register does, to the device and to the invariant.   *)
LEMMA OutStep ==
  ASSUME TypeOK, DeviceInv,
         NEW c \in [op : Op, sector : Sectors \cup {0}, count : Counts \cup {0}],
         NEW k \in 1 .. 5, Out(c, k)
  PROVE  /\ dev' \in DeviceState /\ DeviceInv'
         /\ dev'.state = dev.state /\ dev'.pending = dev.pending
         /\ step' = k /\ taken' \in BOOLEAN
         /\ taken' => /\ Accepts /\ (k = 1 \/ taken)
                      /\ dev'.regs[Order[k]] = Registers(c.sector, c.count)[Order[k]]
                      /\ \A j \in 1 .. 5 : j # k => dev'.regs[Order[j]] = dev.regs[Order[j]]
<1> DEFINE R == Registers(c.sector, c.count)
<1>1. c.sector \in Nat /\ c.count \in Byte
  <2>1. c.sector \in Sectors \cup {0} /\ c.count \in Counts \cup {0}
    OBVIOUS
  <2>2. Sectors \cup {0} \subseteq Nat
    BY AtaAssumption
  <2>3. Counts \cup {0} \subseteq 0 .. 255
    BY AtaAssumption
  <2> QED
    BY <2>1, <2>2, <2>3 DEF Byte
<1>2. R \in [Reg -> Byte]
  BY <1>1, Digits
<1> HIDE DEF R
<1>3. \A j \in 1 .. 5 : Order[j] \in Reg /\ (j # k => Order[j] # Order[k])
  BY DEF Order, Reg
<1>4. dev \in DeviceState /\ dev.regs \in [Reg -> Byte]
  BY DEF TypeOK, DeviceState
<1>5. dev' = IF Accepts THEN [dev EXCEPT !.regs = [dev.regs EXCEPT ![Order[k]] = R[Order[k]]]]
                        ELSE dev
  BY DEF Out, R
<1>6. [dev.regs EXCEPT ![Order[k]] = R[Order[k]]] \in [Reg -> Byte]
  BY <1>2, <1>3, <1>4
<1>7. /\ dev' \in DeviceState /\ dev'.state = dev.state /\ dev'.pending = dev.pending
      /\ dev'.cmd = dev.cmd /\ dev'.left = dev.left
  BY <1>4, <1>5, <1>6 DEF DeviceState
<1>8. step' = k /\ taken' = (Accepts /\ (k = 1 \/ taken))
  BY DEF Out
<1>9. DeviceInv'
  BY <1>7 DEF DeviceInv
<1>10. ASSUME Accepts
       PROVE  /\ dev'.regs[Order[k]] = R[Order[k]]
              /\ \A j \in 1 .. 5 : j # k => dev'.regs[Order[j]] = dev.regs[Order[j]]
  BY <1>3, <1>4, <1>5, <1>10 DEF DeviceState
<1> QED
  BY <1>7, <1>8, <1>9, <1>10 DEF R, Accepts

(* The facts about the current call that the action proofs use.            *)
LEMMA CallTyped ==
  ASSUME TypeOK
  PROVE  call.op \in Op /\ call.sector \in Nat /\ call.count \in Byte /\ moved \in Nat
<1>1. /\ call.op \in Op /\ call.sector \in Sectors \cup {0} /\ call.count \in Counts \cup {0}
      /\ moved \in 0 .. 255
  BY DEF TypeOK
<1>2. Sectors \cup {0} \subseteq Nat /\ Counts \cup {0} \subseteq 0 .. 255
  BY AtaAssumption
<1> QED
  BY <1>1, <1>2 DEF Byte

(* A call begins.                                                          *)
LEMMA BeginInv ==
  ASSUME AtaInv, NEW op \in Op, NEW s \in Sectors, NEW n \in Counts, Begin(op, s, n)
  PROVE  AtaInv'
<1> USE DEF AtaInv
<1>1. /\ call' = [op |-> op, sector |-> s, count |-> n] /\ Out(call', 1)
      /\ pc' = "out" /\ moved' = 0 /\ buffer' = <<>> /\ calls' = calls + 1
      /\ result' = result /\ medium' = medium /\ calls < MaxCalls
  BY DEF Begin, NoData
<1>2. call' \in [op : Op, sector : Sectors \cup {0}, count : Counts \cup {0}]
  BY <1>1
<1>3. /\ dev' \in DeviceState /\ DeviceInv' /\ dev'.state = dev.state
      /\ step' = 1 /\ taken' \in BOOLEAN
      /\ taken' => /\ Accepts
                   /\ dev'.regs[Order[1]] = Registers(call'.sector, call'.count)[Order[1]]
  BY <1>1, <1>2, OutStep
<1>4. call'.count \in Nat
  <2>1. call'.count = n /\ n \in 0 .. 255
    BY <1>1, AtaAssumption
  <2> QED
    BY <2>1
<1>5. TypeOK'
  <2>1. calls' \in 0 .. MaxCalls
    BY <1>1, AtaAssumption DEF TypeOK
  <2>2. step' \in 0 .. 6 /\ moved' \in 0 .. 255
    BY <1>1, <1>3
  <2>3. \A k \in DOMAIN buffer' : k \in Slots
    BY <1>1
  <2>4. result' \in Results /\ DOMAIN medium' \subseteq Place
    BY <1>1 DEF TypeOK
  <2> QED
    BY <1>1, <1>2, <1>3, <2>1, <2>2, <2>3, <2>4 DEF TypeOK
<1>6. DriverInv'
  <2>1. calls' > 0
    <3>1. calls \in Nat
      BY AtaAssumption DEF TypeOK
    <3> QED
      BY <1>1, <3>1
  <2> QED
    BY <1>1, <1>3, <1>4, <2>1 DEF DriverInv
<1>7. ReadInv'
  <2>1. Reading' => Accepts' /\ RegistersSet'
    BY <1>3 DEF Reading, Accepts, RegistersSet
  <2>2. Delivered'
    BY <1>1 DEF Delivered
  <2> QED
    BY <1>1, <2>1, <2>2 DEF ReadInv
<1> QED
  BY <1>3, <1>5, <1>6, <1>7

(* The registers a call has written stay as it wrote them.                 *)
LEMMA RegistersKept ==
  ASSUME AtaInv, OutRegister, taken', RegistersSet
  PROVE  Accepts' /\ RegistersSet'
<1> USE DEF AtaInv
<1>1. /\ pc = "out" /\ step < 5 /\ Out(call, step + 1) /\ call' = call
  BY DEF OutRegister
<1>2. step \in 1 .. 5 /\ step + 1 \in 1 .. 5
  BY <1>1 DEF DriverInv
<1>3. call \in [op : Op, sector : Sectors \cup {0}, count : Counts \cup {0}]
  BY DEF TypeOK
<1>4. /\ Accepts /\ dev'.state = dev.state /\ step' = step + 1
      /\ dev'.regs[Order[step + 1]] = Registers(call.sector, call.count)[Order[step + 1]]
      /\ \A j \in 1 .. 5 : j # step + 1 => dev'.regs[Order[j]] = dev.regs[Order[j]]
  BY <1>1, <1>2, <1>3, OutStep
<1>5. Accepts'
  BY <1>4 DEF Accepts
<1>6. ASSUME NEW k \in 1 .. step'
      PROVE  dev'.regs[Order[k]] = Registers(call'.sector, call'.count)[Order[k]]
  <2>1. CASE k = step + 1
    BY <1>1, <1>4, <2>1
  <2>2. CASE k # step + 1
    <3>1. k \in 1 .. step /\ k \in 1 .. 5
      BY <1>2, <1>4, <2>2
    <3> QED
      BY <1>1, <1>4, <2>2, <3>1 DEF RegistersSet
  <2> QED
    BY <2>1, <2>2
<1> QED
  BY <1>5, <1>6 DEF RegistersSet

(* One more register.                                                      *)
LEMMA OutRegisterInv ==
  ASSUME AtaInv, OutRegister
  PROVE  AtaInv'
<1> USE DEF AtaInv
<1>1. /\ pc = "out" /\ step < 5 /\ Out(call, step + 1)
      /\ UNCHANGED <<call, pc, moved, buffer, result, calls, medium>>
  BY DEF OutRegister
<1>2. step \in 1 .. 5 /\ moved = 0 /\ step + 1 \in 1 .. 5
  BY <1>1 DEF DriverInv
<1>3. call \in [op : Op, sector : Sectors \cup {0}, count : Counts \cup {0}]
  BY DEF TypeOK
<1>4. /\ dev' \in DeviceState /\ DeviceInv' /\ dev'.state = dev.state
      /\ step' = step + 1 /\ taken' \in BOOLEAN
      /\ taken' =>
           /\ taken /\ Accepts
           /\ dev'.regs[Order[step + 1]] = Registers(call.sector, call.count)[Order[step + 1]]
           /\ \A j \in 1 .. 5 : j # step + 1 => dev'.regs[Order[j]] = dev.regs[Order[j]]
  BY <1>1, <1>2, <1>3, OutStep
<1>5. TypeOK'
  BY <1>1, <1>2, <1>4 DEF TypeOK
<1>6. DriverInv'
  BY <1>1, <1>2, <1>4 DEF DriverInv
<1>7. ReadInv'
  <2>1. ASSUME Reading' PROVE Accepts' /\ RegistersSet'
    <3>1. taken' /\ Reading /\ Accepts /\ RegistersSet
      BY <1>1, <1>4, <2>1 DEF Reading, InRange, ReadInv
    <3> QED
      BY <3>1, RegistersKept
  <2>2. Delivered'
    BY <1>1, <1>2 DEF Delivered
  <2> QED
    BY <1>1, <2>1, <2>2 DEF ReadInv
<1> QED
  BY <1>4, <1>5, <1>6, <1>7

(* Registers name a sector of one of the two drives.                       *)
LEMMA AddressedPlace ==
  ASSUME NEW regs \in [Reg -> Byte]
  PROVE  Addressed(regs) \in Place
<1>1. /\ regs.drive \in Nat /\ regs.lo \in Nat /\ regs.mid \in Nat /\ regs.hi \in Nat
  BY SMT DEF Reg, Byte
<1>2. (regs.drive \div 16) % 2 \in {0, 1}
  BY <1>1, SMT
<1>3. (regs.drive % 16) * 16777216 + regs.hi * 65536 + regs.mid * 256 + regs.lo \in Nat
  BY <1>1, SMT
<1> QED
  BY <1>2, <1>3, SMT DEF Addressed, Place

(* What a command does to the device.                                      *)
LEMMA CommandTyped ==
  ASSUME TypeOK, NEW cmd \in Op \cup {"flush"}
  PROVE  /\ Command(cmd) \in DeviceState
         /\ Command(cmd).state = "busy" /\ Command(cmd).cmd = cmd
         /\ Command(cmd).pending = Nothing /\ Command(cmd).left > 0
         /\ Command(cmd).place = Addressed(dev.regs)
         /\ dev.regs.count > 0 => Command(cmd).left = dev.regs.count
<1>1. dev \in DeviceState /\ dev.regs \in [Reg -> Byte]
  BY DEF TypeOK, DeviceState
<1>2. dev.regs.count \in Byte
  BY <1>1 DEF Reg
<1>3. Addressed(dev.regs) \in Place
  BY <1>1, AddressedPlace
<1> DEFINE n == IF dev.regs.count = 0 THEN 256 ELSE dev.regs.count
<1>4. n \in 0 .. 256 /\ n > 0 /\ (dev.regs.count > 0 => n = dev.regs.count)
  BY <1>2 DEF Byte
<1>5. Command(cmd) = [dev EXCEPT !.state = "busy", !.cmd = cmd, !.place = Addressed(dev.regs),
                                 !.left = n, !.pending = Nothing]
  BY DEF Command
<1> HIDE DEF n
<1> QED
  BY ZenonT(30), <1>1, <1>3, <1>4, <1>5 DEF DeviceState

(* Registers that were all taken name the call's own sectors.              *)
LEMMA CommandAims ==
  ASSUME TypeOK, RegistersSet, step = 5, InRange, call.count > 0
  PROVE  Addressed(dev.regs) = Asked(0) /\ dev.regs.count = call.count
<1>1. call.sector \in Nat /\ call.count \in Nat /\ call.count \in Byte
  BY CallTyped DEF Byte
<1>2. call.sector < AddressLimit
  BY <1>1, SMT DEF AddressLimit, InRange
<1>3. \A k \in 1 .. 5 : dev.regs[Order[k]] = Registers(call.sector, call.count)[Order[k]]
  BY DEF RegistersSet
<1>4. \A r \in Reg : dev.regs[r] = Registers(call.sector, call.count)[r]
  BY <1>3 DEF Order, Reg
<1>5. Addressed(dev.regs) = Addressed(Registers(call.sector, call.count))
  BY <1>4, SMT DEF Addressed, Reg
<1>6. Addressed(dev.regs) = [unit |-> 0, lba |-> call.sector]
  BY <1>1, <1>2, <1>5, AddressExact
<1>7. dev.regs.count = call.count
  BY <1>4, SMT DEF Registers, Reg
<1> QED
  BY <1>1, <1>6, <1>7 DEF Asked

(* The command register.                                                   *)
LEMMA OutCommandInv ==
  ASSUME AtaInv, OutCommand
  PROVE  AtaInv'
<1> USE DEF AtaInv
<1>1. /\ pc = "out" /\ step = 5 /\ step' = 6 /\ taken' = (taken /\ Accepts)
      /\ dev' = IF Accepts THEN Command(call.op) ELSE dev
      /\ UNCHANGED <<call, moved, buffer, calls, medium>>
      /\ pc' \in {"idle", "poll", "flush"}
      /\ pc' = "poll" => call.count > 0
      /\ call.op = "read" => (pc' = "poll" \/ (pc' = "idle" /\ call.count = 0))
      /\ result' \in {result, "OK"}
  <2>1. /\ pc = "out" /\ step = 5 /\ step' = 6 /\ taken' = (taken /\ Accepts)
        /\ dev' = IF Accepts THEN Command(call.op) ELSE dev
        /\ UNCHANGED <<call, moved, buffer, calls, medium>>
    BY DEF OutCommand
  <2>2. call.count \in Nat
    BY CallTyped DEF Byte
  <2>3. CASE call.count > 0
    BY <2>1, <2>3 DEF OutCommand
  <2>4. CASE ~ call.count > 0 /\ call.op = "read"
    BY <2>1, <2>2, <2>4 DEF OutCommand, Return
  <2>5. CASE ~ call.count > 0 /\ call.op # "read"
    BY <2>1, <2>5 DEF OutCommand
  <2> QED
    BY <2>3, <2>4, <2>5
<1>2. call.op \in Op /\ call.count \in Byte /\ moved = 0
  BY <1>1, CallTyped DEF DriverInv
<1>3. /\ Command(call.op) \in DeviceState
      /\ Command(call.op).state = "busy" /\ Command(call.op).cmd = call.op
      /\ Command(call.op).pending = Nothing /\ Command(call.op).left > 0
      /\ Command(call.op).place = Addressed(dev.regs)
      /\ dev.regs.count > 0 => Command(call.op).left = dev.regs.count
  BY <1>2, CommandTyped
<1>4. TypeOK'
  BY <1>1, <1>2, <1>3 DEF TypeOK, Results
<1>5. DriverInv'
  BY <1>1, <1>2 DEF DriverInv, Byte
<1>6. DeviceInv'
  BY <1>1, <1>3 DEF DeviceInv
<1>7. ReadInv'
  <2> SUFFICES ASSUME Reading'
               PROVE  /\ pc' = "poll" => InStep'
                      /\ dev'.pending = Nothing /\ pc' # "flush" /\ pc' # "out"
                      /\ pc' = "idle" => moved' = call'.count
                      /\ Delivered'
    BY DEF ReadInv
  <2>1. Reading /\ Accepts /\ RegistersSet /\ dev' = Command("read") /\ call.op = "read"
    BY <1>1 DEF Reading, InRange, ReadInv
  <2>2. Delivered'
    BY <1>1, <1>2 DEF Delivered
  <2>3. ASSUME pc' = "poll" PROVE InStep'
    <3>1. call.count > 0 /\ call.count \in Nat
      BY <1>1, <1>2, <2>3 DEF Byte
    <3>2. Addressed(dev.regs) = Asked(0) /\ dev.regs.count = call.count
      BY <1>1, <2>1, <3>1, CommandAims DEF Reading
    <3>3. dev'.left = call'.count - moved' /\ dev'.place = Asked(moved)'
      BY <1>1, <1>2, <1>3, <2>1, <3>1, <3>2 DEF Asked
    <3> QED
      BY <1>3, <2>1, <3>3 DEF InStep
  <2> QED
    BY <1>1, <1>2, <1>3, <2>1, <2>2, <2>3
<1> QED
  BY <1>4, <1>5, <1>6, <1>7

(* ata_poll sees an error.                                                 *)
LEMMA PollErrorInv ==
  ASSUME AtaInv, PollError
  PROVE  AtaInv'
<1> USE DEF AtaInv
<1>1. /\ pc = "poll" /\ pc' = "idle" /\ result' = "HARDWARE"
      /\ UNCHANGED <<call, step, moved, buffer, calls, taken, dev, medium>>
  BY DEF PollError, Return
<1>2. TypeOK' /\ DriverInv' /\ DeviceInv'
  BY <1>1 DEF TypeOK, Results, DriverInv, DeviceInv
<1>3. ReadInv'
  BY <1>1 DEF ReadInv, Reading, InRange, Delivered, Contents, Asked
<1> QED
  BY <1>2, <1>3

(* The flush command.                                                      *)
LEMMA FlushInv ==
  ASSUME AtaInv, Flush
  PROVE  AtaInv'
<1> USE DEF AtaInv
<1>1. /\ pc = "flush" /\ pc' = "idle" /\ result' = "OK"
      /\ dev' = IF Accepts THEN Command("flush") ELSE dev
      /\ UNCHANGED <<call, step, moved, buffer, calls, taken, medium>>
  BY DEF Flush, Return
<1>2. /\ Command("flush") \in DeviceState /\ Command("flush").cmd = "flush"
      /\ Command("flush").pending = Nothing
  BY CommandTyped
<1>3. TypeOK' /\ DriverInv' /\ DeviceInv'
  BY <1>1, <1>2 DEF TypeOK, Results, DriverInv, DeviceInv
<1>4. ~ Reading'
  BY <1>1 DEF Reading, InRange, ReadInv
<1> QED
  BY <1>3, <1>4 DEF ReadInv

(* A sector from the device.                                               *)
LEMMA MoveInInv ==
  ASSUME AtaInv, MoveIn
  PROVE  AtaInv'
<1> USE DEF AtaInv
<1>1. /\ pc = "poll" /\ dev.state = "drq" /\ call.op = "read" /\ moved' = moved + 1
      /\ buffer' = Named(IF Serves("read") THEN Contents(dev.place) ELSE Noise)
      /\ dev' = SectorGiven
      /\ pc' \in {"poll", "idle"} /\ result' \in {result, "OK"}
      /\ (pc' = "idle") <=> Last(moved)
      /\ UNCHANGED <<call, step, calls, taken, medium>>
  BY DEF MoveIn, Polled, Return
<1>2. call.count \in 0 .. 255 /\ moved \in Nat /\ moved < call.count
  BY <1>1, CallTyped DEF DriverInv, Byte
<1>3. /\ DOMAIN buffer' = {2 * i : i \in 0 .. moved' - 1}
      /\ \A i \in 0 .. moved - 1 : buffer'[2 * i] = buffer[2 * i]
      /\ buffer'[2 * moved] = IF Serves("read") THEN Contents(dev.place) ELSE Noise
  <2>1. DOMAIN buffer = {2 * i : i \in 0 .. moved - 1}
    BY DEF DriverInv
  <2>2. DOMAIN buffer' = DOMAIN buffer \cup {2 * moved}
    BY <1>1 DEF Named, BufferSlot
  <2>3. 0 .. moved' - 1 = (0 .. moved - 1) \cup {moved}
    BY <1>1, <1>2
  <2>4. \A i \in 0 .. moved - 1 : 2 * i # 2 * moved
    BY <1>2
  <2>5. DOMAIN buffer' = {2 * i : i \in 0 .. moved' - 1}
    BY <2>1, <2>2, <2>3
  <2>6. \A k \in DOMAIN buffer' :
          buffer'[k] = IF k = 2 * moved
                       THEN IF Serves("read") THEN Contents(dev.place) ELSE Noise
                       ELSE buffer[k]
    BY <1>1, <2>2 DEF Named, BufferSlot
  <2> QED
    BY <2>1, <2>2, <2>4, <2>5, <2>6
<1>4. /\ dev' \in DeviceState /\ DeviceInv' /\ dev'.pending = dev.pending
      /\ Serves("read") => /\ dev'.place = Following(dev.place) /\ dev'.left = dev.left - 1
                           /\ dev'.cmd = "read"
                           /\ dev'.state = IF dev.left = 1 THEN "ready" ELSE "busy"
  <2>1. CASE Serves("read")
    <3>1. /\ dev \in DeviceState /\ dev.place \in Place /\ dev.left \in 0 .. 256 /\ dev.left > 0
          /\ dev.cmd = "read"
      BY <2>1 DEF TypeOK, DeviceState, DeviceInv, Serves
    <3>2. Following(dev.place) \in Place /\ dev.left - 1 \in 0 .. 256
      BY <3>1 DEF Following, Place
    <3>3. dev' = [dev EXCEPT !.place = Following(dev.place), !.left = dev.left - 1,
                             !.state = IF dev.left = 1 THEN "ready" ELSE "busy"]
      BY <1>1, <2>1 DEF SectorGiven
    <3>4. /\ dev' \in DeviceState /\ dev'.pending = dev.pending
          /\ dev'.place = Following(dev.place) /\ dev'.left = dev.left - 1
          /\ dev'.cmd = "read" /\ dev'.state = IF dev.left = 1 THEN "ready" ELSE "busy"
      BY <3>1, <3>2, <3>3 DEF DeviceState
    <3>5. dev.pending = Nothing
      BY <1>1 DEF DeviceInv
    <3>6. DeviceInv'
      BY <3>1, <3>4, <3>5 DEF DeviceInv
    <3> QED
      BY <3>4, <3>6
  <2>2. CASE ~ Serves("read")
    <3>1. dev' = dev
      BY <1>1, <2>2 DEF SectorGiven
    <3> QED
      BY <2>2, <3>1 DEF TypeOK, DeviceInv
  <2> QED
    BY <2>1, <2>2
<1>5. TypeOK'
  <2>1. \A k \in DOMAIN buffer' : k \in Slots
    BY <1>1, <1>2, <1>3 DEF Slots
  <2>2. moved' \in 0 .. 255
    BY <1>1, <1>2
  <2> QED
    BY <1>1, <1>4, <2>1, <2>2 DEF TypeOK, Results
<1>6. DriverInv'
  <2>1. pc' = "poll" => moved' < call'.count
    BY <1>1, <1>2 DEF Last
  <2>2. moved' <= call'.count
    BY <1>1, <1>2
  <2>3. calls' > 0
    BY <1>1 DEF DriverInv
  <2> QED
    BY <1>1, <1>3, <2>1, <2>2, <2>3 DEF DriverInv
<1>7. ReadInv'
  <2> SUFFICES ASSUME Reading'
               PROVE  /\ pc' = "poll" => InStep'
                      /\ dev'.pending = Nothing
                      /\ pc' = "idle" => moved' = call'.count
                      /\ Delivered'
    BY <1>1 DEF ReadInv
  <2>1. Reading /\ InStep /\ Delivered /\ dev.pending = Nothing
    BY <1>1 DEF Reading, InRange, ReadInv
  <2>2. /\ Serves("read") /\ dev.left = call.count - moved /\ dev.place = Asked(moved)
    BY <1>1, <2>1 DEF InStep, Serves
  <2>3. pc' = "idle" => moved' = call'.count
    BY <1>1 DEF Last
  <2>4. ASSUME pc' = "poll" PROVE InStep'
    <3>1. dev.left # 1
      BY <1>1, <1>2, <2>2, <2>4 DEF Last
    <3>2. Asked(moved)' = Following(dev.place)
      <4>1. call.sector \in Nat
        BY CallTyped
      <4> QED
        BY <1>1, <1>2, <2>2, <4>1 DEF Asked, Following
    <3> QED
      BY <1>1, <1>2, <1>4, <2>2, <3>1, <3>2 DEF InStep
  <2>5. Delivered'
    <3> SUFFICES ASSUME NEW i \in 0 .. moved' - 1
                 PROVE  buffer'[2 * i] = Contents(Asked(i))'
      BY DEF Delivered
    <3>1. Contents(Asked(i))' = Contents(Asked(i))
      BY <1>1 DEF Contents, Asked
    <3>2. CASE i = moved
      BY <1>3, <2>2, <3>1, <3>2
    <3>3. CASE i # moved
      <4>1. i \in 0 .. moved - 1
        BY <1>1, <1>2, <3>3
      <4> QED
        BY <1>3, <2>1, <3>1, <4>1 DEF Delivered
    <3> QED
      BY <3>2, <3>3
  <2> QED
    BY <1>4, <2>1, <2>3, <2>4, <2>5
<1> QED
  BY <1>4, <1>5, <1>6, <1>7

(* A sector to the device.                                                 *)
LEMMA MoveOutInv ==
  ASSUME AtaInv, MoveOut
  PROVE  AtaInv'
<1> USE DEF AtaInv
<1> DEFINE token == [call |-> calls, slot |-> BufferSlot(moved)]
<1>1. /\ pc = "poll" /\ dev.state = "drq" /\ call.op = "write" /\ moved' = moved + 1
      /\ buffer' = Named(token) /\ dev' = SectorTaken(token)
      /\ pc' = IF Last(moved) THEN "flush" ELSE pc
      /\ UNCHANGED <<call, step, result, calls, taken, medium>>
  BY DEF MoveOut, Polled
<1>2. call.count \in 0 .. 255 /\ moved \in Nat /\ moved < call.count
  BY <1>1, CallTyped DEF DriverInv, Byte
<1>3. DOMAIN buffer' = {2 * i : i \in 0 .. moved' - 1}
  <2>1. DOMAIN buffer' = {2 * i : i \in 0 .. moved - 1} \cup {2 * moved}
    BY <1>1 DEF DriverInv, Named, BufferSlot
  <2>2. 0 .. moved' - 1 = (0 .. moved - 1) \cup {moved}
    BY <1>1, <1>2
  <2> QED
    BY <2>1, <2>2
<1>4. dev' \in DeviceState /\ DeviceInv'
  <2>1. CASE Serves("write")
    <3>1. token \in Token
      <4>1. calls \in 1 .. MaxCalls
        BY <1>1, AtaAssumption DEF TypeOK, DriverInv
      <4>2. BufferSlot(moved) \in Slots
        BY <1>2 DEF BufferSlot, Slots
      <4> QED
        BY <4>1, <4>2 DEF Token
    <3>2. dev' = [dev EXCEPT !.state = "busy", !.pending = token] /\ dev.cmd = "write"
      BY <1>1, <2>1 DEF SectorTaken, Serves
    <3>3. dev \in DeviceState /\ dev.left > 0
      BY <2>1 DEF TypeOK, DeviceInv, Serves
    <3> HIDE DEF token
    <3>4. dev' \in DeviceState /\ dev'.left = dev.left /\ dev'.state = "busy" /\ dev'.cmd = "write"
      BY <3>1, <3>2, <3>3 DEF DeviceState
    <3> QED
      BY <3>3, <3>4 DEF DeviceInv
  <2>2. CASE ~ Serves("write")
    <3>1. dev' = dev
      BY <1>1, <2>2 DEF SectorTaken
    <3> QED
      BY <3>1 DEF TypeOK, DeviceInv
  <2> QED
    BY <2>1, <2>2
<1>5. TypeOK'
  <2>1. \A k \in DOMAIN buffer' : k \in Slots
    BY <1>1, <1>2, <1>3 DEF Slots
  <2>2. moved' \in 0 .. 255
    BY <1>1, <1>2
  <2> QED
    BY <1>1, <1>4, <2>1, <2>2 DEF TypeOK
<1>6. DriverInv'
  BY <1>1, <1>2, <1>3 DEF DriverInv, Last
<1>7. ReadInv'
  BY <1>1 DEF ReadInv, Reading
<1> QED
  BY <1>4, <1>5, <1>6, <1>7

(* The device goes on, or fails, between two steps of the driver.          *)
LEMMA DeviceStepInv ==
  ASSUME AtaInv, Device
  PROVE  AtaInv'
<1> USE DEF AtaInv
<1>1. UNCHANGED driver /\ dev.state = "busy"
  BY DEF Device, DeviceFails, DeviceAsks, DeviceStores, DeviceFlushed
<1>2. /\ dev' \in DeviceState /\ DeviceInv' /\ DOMAIN medium' \subseteq Place
  <2>1. dev \in DeviceState /\ dev.place \in Place /\ DOMAIN medium \subseteq Place
    BY DEF TypeOK, DeviceState
  <2>2. CASE DeviceFails \/ DeviceAsks \/ DeviceFlushed
    BY ZenonT(30), <2>1, <2>2 DEF DeviceFails, DeviceAsks, DeviceFlushed, DeviceState, DeviceInv
  <2>3. CASE DeviceStores
    <3>1. dev.left \in 0 .. 256 /\ dev.left > 0 /\ dev.cmd = "write"
      BY <2>1, <2>3 DEF DeviceStores, DeviceState, DeviceInv
    <3>2. Following(dev.place) \in Place /\ dev.left - 1 \in 0 .. 256
      BY <2>1, <3>1 DEF Following, Place
    <3>3. dev' = [dev EXCEPT !.place = Following(dev.place), !.left = dev.left - 1,
                             !.pending = Nothing,
                             !.state = IF dev.left = 1 THEN "ready" ELSE "drq"]
      BY <2>3 DEF DeviceStores
    <3>4. /\ dev' \in DeviceState /\ dev'.pending = Nothing /\ dev'.left = dev.left - 1
          /\ dev'.state = IF dev.left = 1 THEN "ready" ELSE "drq"
      BY <2>1, <3>2, <3>3 DEF DeviceState
    <3>5. DOMAIN medium' \subseteq Place
      BY <2>1, <2>3 DEF DeviceStores
    <3> QED
      BY <3>1, <3>4, <3>5 DEF DeviceInv
  <2> QED
    BY <2>2, <2>3 DEF Device
<1>3. TypeOK' /\ DriverInv'
  BY <1>1, <1>2 DEF TypeOK, DriverInv, driver
<1>4. ReadInv'
  <2> SUFFICES ASSUME Reading'
               PROVE  /\ pc' # "out"
                      /\ pc' = "poll" => InStep'
                      /\ dev'.pending = Nothing
                      /\ pc' # "flush"
                      /\ pc' = "idle" /\ result' = "OK" => moved' = call'.count
                      /\ Delivered'
    BY DEF ReadInv
  <2>1. Reading
    BY <1>1 DEF Reading, InRange, driver
  <2>2. /\ pc # "out" /\ dev.pending = Nothing /\ pc # "flush" /\ Delivered
        /\ pc = "poll" => InStep
        /\ pc = "idle" /\ result = "OK" => moved = call.count
    BY <1>1, <2>1 DEF ReadInv, Accepts
  <2>3. medium' = medium /\ dev'.pending = Nothing
    BY <2>2 DEF TypeOK, DeviceState, Device, DeviceFails, DeviceAsks, DeviceStores, DeviceFlushed
  <2>4. pc = "poll" => InStep'
    <3>1. CASE DeviceFails
      BY <3>1 DEF DeviceFails, TypeOK, DeviceState, InStep
    <3>2. CASE DeviceAsks
      BY <1>1, <2>2, <3>2 DEF DeviceAsks, TypeOK, DeviceState, InStep, Asked, driver
    <3>3. CASE DeviceFlushed
      BY <1>1, <2>2, <3>3 DEF DeviceFlushed, InStep
    <3> QED
      BY <2>2, <3>1, <3>2, <3>3 DEF Device, DeviceStores
  <2>5. Delivered'
    BY <1>1, <2>2, <2>3 DEF Delivered, Contents, Asked, driver
  <2> QED
    BY <1>1, <2>2, <2>3, <2>4, <2>5 DEF driver
<1> QED
  BY <1>2, <1>3, <1>4

(* Every step keeps the invariant.                                         *)
LEMMA InvNext == AtaInv /\ [Next]_vars => AtaInv'
<1> SUFFICES ASSUME AtaInv, [Next]_vars PROVE AtaInv'
  OBVIOUS
<1>1. ASSUME NEW op \in Op, NEW s \in Sectors, NEW n \in Counts, Begin(op, s, n)
      PROVE  AtaInv'
  BY <1>1, BeginInv
<1>2. CASE Driver
  BY <1>2, OutRegisterInv, OutCommandInv, PollErrorInv, MoveInInv, MoveOutInv, FlushInv
  DEF Driver
<1>3. CASE Device
  BY <1>3, DeviceStepInv
<1>4. CASE UNCHANGED vars
  BY <1>4 DEF vars, driver, AtaInv, TypeOK, DriverInv, DeviceInv, ReadInv, Reading, InRange,
              Accepts, RegistersSet, InStep, Asked, Delivered, Contents
<1> QED
  BY <1>1, <1>2, <1>3, <1>4 DEF Next

(* Hence AtaInv holds in every state: driver and disk agree on the call in *)
(* progress.                                                               *)
LEMMA InvAlways == Spec => []AtaInv
<1>1. Init => AtaInv
  BY InvInit
<1>2. AtaInv /\ [Next]_vars => AtaInv'
  BY InvNext
<1> QED
  BY <1>1, <1>2, PTL DEF Spec

(* Every variable keeps its type: no register leaves its byte, no sector   *)
(* is counted below zero, for every set of sectors and counts.             *)
THEOREM TypeCorrect == Spec => []TypeOK
<1>1. AtaInv => TypeOK
  BY DEF AtaInv
<1> QED
  BY <1>1, InvAlways, PTL

(* ata_read and ata_write name memory at the stride of 1024 bytes only,    *)
(* and nothing behind the place of their last sector, however many sectors *)
(* they are asked for and whatever the device does.                        *)
THEOREM StrideKept == Spec => []StridePlaces
<1>1. AtaInv => StridePlaces
  <2> SUFFICES ASSUME AtaInv, NEW k \in DOMAIN buffer
               PROVE  k % 2 = 0 /\ k \div 2 < call.count
    BY DEF StridePlaces
  <2>1. moved \in Nat /\ moved <= call.count /\ call.count \in Nat
    BY CallTyped DEF AtaInv, DriverInv, Byte
  <2>2. PICK i \in 0 .. moved - 1 : k = 2 * i
    BY DEF AtaInv, DriverInv
  <2>3. (2 * i) % 2 = 0 /\ (2 * i) \div 2 = i
    BY SMT
  <2> QED
    BY <2>1, <2>2, <2>3
<1> QED
  BY <1>1, InvAlways, PTL

(* A read that returns OK has delivered the sectors it was asked for, each *)
(* at its place, if the device took its registers and 28 bits can name the *)
(* sectors. It holds for every sector and count, whatever calls were made  *)
(* before and however the device timed its answers.                        *)
THEOREM ReadsDeliver == Spec => []ReadDelivers
<1>1. AtaInv => ReadDelivers
  <2> SUFFICES ASSUME AtaInv, Returned("read"), InRange, NEW i \in 0 .. call.count - 1
               PROVE  2 * i \in DOMAIN buffer /\ buffer[2 * i] = Contents(Asked(i))
    BY DEF ReadDelivers
  <2>1. moved = call.count /\ Delivered
    BY DEF AtaInv, ReadInv, Reading, Returned
  <2>2. 2 * i \in DOMAIN buffer
    BY <2>1 DEF AtaInv, DriverInv
  <2> QED
    BY <2>1, <2>2 DEF Delivered
<1> QED
  BY <1>1, InvAlways, PTL

-----------------------------------------------------------------------------
(* The writing side. While a write whose registers were taken is in        *)
(* progress the device has stored every sector it was handed but at most   *)
(* the last, which is then the only one on its way; once the driver is     *)
(* done with its loop the device may still have that one to store, also    *)
(* after ata_write has returned.                                           *)

Writing == taken /\ call.op = "write" /\ InRange

Stored(n) ==
  \A i \in 0 .. n - 1 : /\ Asked(i) \in DOMAIN medium
                        /\ medium[Asked(i)] = [call |-> calls, slot |-> 2 * i]

LastOnItsWay ==
  dev.pending # Nothing =>
    /\ moved > 0 /\ dev.place = Asked(moved - 1)
    /\ dev.pending = [call |-> calls, slot |-> 2 * (moved - 1)]

WriteStep ==
  \/ dev.state = "failed"
  \/ /\ dev.state \in {"busy", "drq"} /\ dev.cmd = "write"
     /\ IF dev.pending = Nothing
        THEN dev.left = call.count - moved /\ dev.place = Asked(moved) /\ Stored(moved)
        ELSE dev.left = call.count - moved + 1 /\ Stored(moved - 1)

WriteInv ==
  Writing =>
    /\ pc = "out" => Accepts /\ RegistersSet
    /\ pc # "out" => LastOnItsWay
    /\ pc = "poll" => WriteStep
    /\ pc = "flush" \/ (pc = "idle" /\ result = "OK") =>
         moved = call.count /\ Stored(moved - 1)

(* A call begins: its first register is taken or nothing is claimed.       *)
LEMMA BeginWrite ==
  ASSUME AtaInv, NEW op \in Op, NEW s \in Sectors, NEW n \in Counts, Begin(op, s, n)
  PROVE  WriteInv'
<1>1. /\ call' = [op |-> op, sector |-> s, count |-> n] /\ Out(call', 1) /\ pc' = "out"
  BY DEF Begin
<1>2. call' \in [op : Op, sector : Sectors \cup {0}, count : Counts \cup {0}]
  BY <1>1
<1>3. /\ step' = 1 /\ dev'.state = dev.state
      /\ taken' => /\ Accepts
                   /\ dev'.regs[Order[1]] = Registers(call'.sector, call'.count)[Order[1]]
  BY <1>1, <1>2, OutStep DEF AtaInv
<1>4. Writing' => Accepts' /\ RegistersSet'
  BY <1>3 DEF Writing, Accepts, RegistersSet
<1> QED
  BY <1>1, <1>4 DEF WriteInv

(* One more register.                                                      *)
LEMMA OutRegisterWrite ==
  ASSUME AtaInv, WriteInv, OutRegister
  PROVE  WriteInv'
<1>1. /\ pc = "out" /\ Out(call, step + 1) /\ UNCHANGED <<call, pc>>
      /\ step \in 1 .. 5 /\ step + 1 \in 1 .. 5
  BY DEF OutRegister, AtaInv, DriverInv
<1>2. ASSUME Writing' PROVE Accepts' /\ RegistersSet'
  <2>1. taken' => taken
    BY <1>1, OutStep DEF AtaInv, TypeOK
  <2>2. taken' /\ RegistersSet
    BY <1>1, <1>2, <2>1 DEF Writing, InRange, WriteInv
  <2> QED
    BY <2>2, RegistersKept
<1> QED
  BY <1>1, <1>2 DEF WriteInv

(* The command register: the device starts at the first sector asked for.  *)
LEMMA OutCommandWrite ==
  ASSUME AtaInv, WriteInv, OutCommand
  PROVE  WriteInv'
<1>1. /\ pc = "out" /\ step = 5 /\ taken' = (taken /\ Accepts)
      /\ dev' = IF Accepts THEN Command(call.op) ELSE dev
      /\ UNCHANGED <<call, moved, buffer, calls, medium>>
  BY DEF OutCommand
<1>2. /\ TypeOK /\ moved = 0 /\ call.count \in Nat
  BY <1>1, CallTyped DEF AtaInv, DriverInv, Byte
<1>3. SUFFICES ASSUME Writing' PROVE WriteInv'
  BY DEF WriteInv
<1>4. Writing /\ Accepts /\ RegistersSet /\ call.op = "write" /\ dev' = Command("write")
  BY <1>1, <1>3 DEF Writing, InRange, WriteInv
<1>5. /\ dev'.state = "busy" /\ dev'.cmd = "write" /\ dev'.pending = Nothing
      /\ dev'.place = Addressed(dev.regs)
      /\ dev.regs.count > 0 => dev'.left = dev.regs.count
  BY <1>2, <1>4, CommandTyped DEF Op
<1>6. CASE call.count > 0
  <2>1. pc' = "poll"
    BY <1>6 DEF OutCommand
  <2>2. Addressed(dev.regs) = Asked(0) /\ dev.regs.count = call.count
    BY <1>1, <1>2, <1>4, <1>6, CommandAims DEF Writing
  <2>3. dev'.left = call'.count - moved' /\ dev'.place = Asked(moved)'
    BY <1>1, <1>2, <1>5, <1>6, <2>2 DEF Asked
  <2>4. Stored(moved)'
    BY <1>1, <1>2 DEF Stored
  <2> QED
    BY <1>5, <2>1, <2>3, <2>4 DEF WriteInv, WriteStep, LastOnItsWay
<1>7. CASE call.count = 0
  <2>1. pc' = "flush"
    BY <1>4, <1>7 DEF OutCommand
  <2>2. moved' = call'.count /\ Stored(moved - 1)'
    BY <1>1, <1>2, <1>7 DEF Stored
  <2> QED
    BY <1>5, <2>1, <2>2 DEF WriteInv, LastOnItsWay
<1> QED
  BY <1>2, <1>6, <1>7

(* ata_poll sees an error: what is on its way may still be stored.         *)
LEMMA PollErrorWrite ==
  ASSUME AtaInv, WriteInv, PollError
  PROVE  WriteInv'
<1>1. /\ pc = "poll" /\ pc' = "idle" /\ result' = "HARDWARE"
      /\ UNCHANGED <<call, step, moved, buffer, calls, taken, dev, medium>>
  BY DEF PollError, Return
<1> QED
  BY <1>1 DEF WriteInv, Writing, InRange, LastOnItsWay, Asked

(* The flush command: ignored, or the device had nothing left to store.    *)
LEMMA FlushWrite ==
  ASSUME AtaInv, WriteInv, Flush
  PROVE  WriteInv'
<1>1. /\ pc = "flush" /\ pc' = "idle"
      /\ dev' = IF Accepts THEN Command("flush") ELSE dev
      /\ UNCHANGED <<call, step, moved, buffer, calls, taken, medium>>
  BY DEF Flush, Return
<1>2. Command("flush").pending = Nothing
  BY CommandTyped DEF AtaInv
<1>3. SUFFICES ASSUME Writing' PROVE WriteInv'
  BY DEF WriteInv
<1>4. LastOnItsWay /\ moved = call.count /\ Stored(moved - 1)
  BY <1>1, <1>3 DEF WriteInv, Writing, InRange
<1>5. LastOnItsWay'
  BY <1>1, <1>2, <1>4 DEF LastOnItsWay, Asked
<1>6. moved' = call'.count /\ Stored(moved - 1)'
  BY <1>1, <1>4 DEF Stored, Asked
<1> QED
  BY <1>1, <1>5, <1>6 DEF WriteInv

(* A sector from the device is no write's.                                 *)
LEMMA MoveInWrite ==
  ASSUME AtaInv, WriteInv, MoveIn
  PROVE  WriteInv'
BY DEF MoveIn, WriteInv, Writing

(* A sector to the device: all the ones before it are stored.              *)
LEMMA MoveOutWrite ==
  ASSUME AtaInv, WriteInv, MoveOut
  PROVE  WriteInv'
<1> DEFINE token == [call |-> calls, slot |-> BufferSlot(moved)]
<1>1. /\ pc = "poll" /\ dev.state = "drq" /\ moved' = moved + 1
      /\ dev' = SectorTaken(token)
      /\ pc' = IF Last(moved) THEN "flush" ELSE pc
      /\ UNCHANGED <<call, step, result, calls, taken, medium>>
  BY DEF MoveOut, Polled
<1>2. call.count \in 0 .. 255 /\ moved \in Nat /\ moved < call.count /\ dev \in DeviceState
  BY <1>1, CallTyped DEF AtaInv, DriverInv, TypeOK, Byte
<1>3. token \in Token
  <2>1. calls \in 1 .. MaxCalls
    BY <1>1, AtaAssumption DEF AtaInv, TypeOK, DriverInv
  <2>2. BufferSlot(moved) \in Slots
    BY <1>2 DEF BufferSlot, Slots
  <2> QED
    BY <2>1, <2>2 DEF Token
<1>4. SUFFICES ASSUME Writing' PROVE WriteInv'
  BY DEF WriteInv
<1>5. /\ dev.cmd = "write" /\ dev.pending = Nothing
      /\ dev.left = call.count - moved /\ dev.place = Asked(moved) /\ Stored(moved)
  BY <1>1, <1>4 DEF AtaInv, DeviceInv, WriteInv, WriteStep, Writing, InRange
<1>6. dev' = [dev EXCEPT !.state = "busy", !.pending = token]
  BY <1>1, <1>5 DEF SectorTaken, Serves
<1>7. token # Nothing /\ token = [call |-> calls, slot |-> 2 * moved]
  BY <1>3, NothingAssumption DEF BufferSlot
<1> HIDE DEF token
<1>8. /\ dev'.pending = token /\ dev'.state = "busy" /\ dev'.cmd = "write"
      /\ dev'.left = dev.left /\ dev'.place = dev.place
  BY <1>2, <1>5, <1>6 DEF DeviceState
<1>9. moved' - 1 = moved /\ dev'.left = call'.count - moved' + 1
  BY <1>1, <1>2, <1>5, <1>8
<1>10. Stored(moved - 1)'
  BY <1>1, <1>5, <1>9 DEF Stored, Asked
<1>11. LastOnItsWay'
  <2>1. moved' > 0
    BY <1>1, <1>2
  <2>2. Asked(moved - 1)' = Asked(moved)
    BY <1>1, <1>9 DEF Asked
  <2>3. dev'.pending = [call |-> calls', slot |-> 2 * (moved' - 1)]
    BY <1>1, <1>7, <1>8, <1>9
  <2> QED
    BY <1>5, <1>8, <2>1, <2>2, <2>3 DEF LastOnItsWay
<1>12. WriteStep'
  BY <1>7, <1>8, <1>9, <1>10 DEF WriteStep
<1>13. pc' = "flush" => moved' = call'.count
  BY <1>1 DEF Last
<1> QED
  BY <1>1, <1>10, <1>11, <1>12, <1>13 DEF WriteInv

(* Different sectors of a call have different places.                      *)
LEMMA PlacesApart ==
  ASSUME TypeOK, NEW i \in Int, NEW j \in Int, i # j
  PROVE  Asked(i) # Asked(j)
<1>1. call.sector \in Nat
  BY CallTyped
<1>2. call.sector + i # call.sector + j
  BY <1>1
<1> QED
  BY <1>2 DEF Asked

(* The device stores the sector on its way, fails or goes on.              *)
LEMMA DeviceStepWrite ==
  ASSUME AtaInv, WriteInv, Device
  PROVE  WriteInv'
<1>1. UNCHANGED driver /\ dev.state = "busy" /\ dev \in DeviceState
  BY DEF Device, DeviceFails, DeviceAsks, DeviceStores, DeviceFlushed, AtaInv, TypeOK
<1>2. SUFFICES ASSUME Writing' PROVE WriteInv'
  BY DEF WriteInv
<1>3. Writing /\ pc # "out" /\ pc' # "out" /\ LastOnItsWay
  BY <1>1, <1>2 DEF WriteInv, Writing, InRange, Accepts, driver
<1>4. call.count \in Nat /\ moved \in Nat /\ moved <= call.count
  BY CallTyped DEF AtaInv, DriverInv, Byte
<1>5. CASE DeviceFails
  <2>1. dev'.state = "failed" /\ dev'.pending = Nothing /\ medium' = medium
    BY <1>1, <1>5 DEF DeviceFails, DeviceState
  <2>2. LastOnItsWay' /\ WriteStep'
    BY <2>1 DEF LastOnItsWay, WriteStep
  <2> QED
    BY <1>1, <1>3, <2>1, <2>2 DEF WriteInv, Stored, Asked, driver
<1>6. CASE DeviceAsks \/ DeviceFlushed
  <2>1. /\ dev'.pending = dev.pending /\ dev'.place = dev.place /\ dev'.cmd = dev.cmd
        /\ dev'.left = dev.left /\ medium' = medium
        /\ dev.cmd # "flush" => dev'.state = "drq"
    BY <1>1, <1>6 DEF DeviceAsks, DeviceFlushed, DeviceState
  <2>2. LastOnItsWay'
    BY <1>1, <1>3, <2>1 DEF LastOnItsWay, Asked, driver
  <2>3. pc = "poll" => WriteStep'
    BY <1>1, <1>3, <2>1 DEF WriteInv, WriteStep, Stored, Asked, driver
  <2> QED
    BY <1>1, <1>3, <2>1, <2>2, <2>3 DEF WriteInv, Stored, Asked, driver
<1>7. CASE DeviceStores
  <2>1. /\ dev.pending # Nothing /\ dev.cmd = "write" /\ dev.left \in Nat
        /\ moved > 0 /\ dev.place = Asked(moved - 1)
        /\ dev.pending = [call |-> calls, slot |-> 2 * (moved - 1)]
    BY <1>1, <1>3, <1>7 DEF DeviceStores, LastOnItsWay, AtaInv, DeviceInv, DeviceState
  <2>2. /\ dev'.pending = Nothing /\ dev'.place = Following(dev.place) /\ dev'.cmd = "write"
        /\ dev'.left = dev.left - 1
        /\ dev'.state = IF dev.left = 1 THEN "ready" ELSE "drq"
    BY <1>1, <1>7, <2>1 DEF DeviceStores, DeviceState
  <2>3. /\ DOMAIN medium' = DOMAIN medium \cup {Asked(moved - 1)}
        /\ medium'[Asked(moved - 1)] = [call |-> calls, slot |-> 2 * (moved - 1)]
        /\ \A p \in DOMAIN medium : p # Asked(moved - 1) => medium'[p] = medium[p]
    BY <1>7, <2>1 DEF DeviceStores
  <2>4. ASSUME Stored(moved - 1) PROVE Stored(moved)'
    <3> SUFFICES ASSUME NEW i \in 0 .. moved - 1
                 PROVE  /\ Asked(i) \in DOMAIN medium'
                        /\ medium'[Asked(i)] = [call |-> calls, slot |-> 2 * i]
      BY <1>1 DEF Stored, Asked, driver
    <3>1. CASE i = moved - 1
      BY <2>3, <3>1
    <3>2. CASE i # moved - 1
      <4>1. i \in 0 .. (moved - 1) - 1 /\ i \in Int /\ moved - 1 \in Int
        BY <1>4, <3>2
      <4>2. Asked(i) # Asked(moved - 1)
        BY <3>2, <4>1, PlacesApart DEF AtaInv
      <4>3. /\ Asked(i) \in DOMAIN medium
            /\ medium[Asked(i)] = [call |-> calls, slot |-> 2 * i]
        BY <2>4, <4>1 DEF Stored
      <4> QED
        BY <2>3, <4>2, <4>3
    <3> QED
      BY <3>1, <3>2
  <2>5. LastOnItsWay'
    BY <2>2 DEF LastOnItsWay
  <2>6. ASSUME pc = "poll" PROVE WriteStep'
    <3>1. dev.left = call.count - moved + 1 /\ Stored(moved - 1) /\ moved < call.count
      BY <1>1, <1>3, <2>1, <2>6 DEF WriteInv, WriteStep, AtaInv, DriverInv
    <3>2. dev.left # 1 /\ dev'.left = call.count - moved
      BY <1>4, <2>1, <2>2, <3>1
    <3>3. Following(dev.place) = Asked(moved)
      <4>1. call.sector \in Nat
        BY CallTyped DEF AtaInv
      <4>2. (call.sector + (moved - 1)) + 1 = call.sector + moved
        BY <1>4, <4>1
      <4> QED
        BY <2>1, <4>2 DEF Asked, Following
    <3> QED
      BY <1>1, <2>2, <2>4, <3>1, <3>2, <3>3 DEF WriteStep, Asked, driver
  <2>7. ASSUME pc = "flush" \/ (pc = "idle" /\ result = "OK")
        PROVE  moved = call.count /\ Stored(moved - 1)'
    <3>1. moved = call.count /\ Stored(moved)'
      BY <1>3, <2>4, <2>7 DEF WriteInv
    <3>2. 0 .. (moved' - 1) - 1 \subseteq 0 .. moved' - 1
      BY <1>1, <1>4 DEF driver
    <3> QED
      BY <3>1, <3>2 DEF Stored
  <2> QED
    BY <1>1, <1>3, <2>5, <2>6, <2>7 DEF WriteInv, driver
<1> QED
  BY <1>5, <1>6, <1>7 DEF Device

(* WriteInv holds in every state. It is inductive only together with       *)
(* AtaInv, which says what the disk was told.                              *)
LEMMA WriteInvAlways == Spec => []WriteInv
<1>1. Init => WriteInv
  BY DEF Init, WriteInv, Writing
<1>2. AtaInv /\ WriteInv /\ [Next]_vars => WriteInv'
  <2> SUFFICES ASSUME AtaInv, WriteInv, [Next]_vars PROVE WriteInv'
    OBVIOUS
  <2>1. ASSUME NEW op \in Op, NEW s \in Sectors, NEW n \in Counts, Begin(op, s, n)
        PROVE  WriteInv'
    BY <2>1, BeginWrite
  <2>2. CASE Driver
    BY <2>2, OutRegisterWrite, OutCommandWrite, PollErrorWrite, MoveInWrite, MoveOutWrite,
       FlushWrite
    DEF Driver
  <2>3. CASE Device
    BY <2>3, DeviceStepWrite
  <2>4. CASE UNCHANGED vars
    BY <2>4 DEF vars, driver, WriteInv, Writing, InRange, Accepts, RegistersSet, LastOnItsWay,
                WriteStep, Stored, Asked
  <2> QED
    BY <2>1, <2>2, <2>3, <2>4 DEF Next
<1> QED
  BY <1>1, <1>2, InvAlways, PTL DEF Spec

(* When ata_write returns OK every sector but the last is on the medium,   *)
(* with this call's data, if the device took its registers: the missing    *)
(* wait before the flush command costs at most the last sector, for every  *)
(* sector and count and however the device timed its answers.              *)
THEOREM OneSectorAtRisk == Spec => []OnlyLastAtRisk
<1>1. AtaInv /\ WriteInv => OnlyLastAtRisk
  <2> SUFFICES ASSUME AtaInv, WriteInv, Returned("write"), InRange,
                      NEW i \in 0 .. call.count - 2
               PROVE  /\ Asked(i) \in DOMAIN medium
                      /\ medium[Asked(i)] = [call |-> calls, slot |-> 2 * i]
    BY DEF OnlyLastAtRisk
  <2>1. moved = call.count /\ Stored(moved - 1)
    BY DEF WriteInv, Writing, Returned
  <2>2. i \in 0 .. (moved - 1) - 1
    BY <2>1, CallTyped DEF AtaInv, Byte
  <2> QED
    BY <2>1, <2>2 DEF Stored
<1> QED
  BY <1>1, InvAlways, WriteInvAlways, PTL

(* A call whose registers the device took changes no other sector than one *)
(* it was asked to write, also after it has returned, with an error or     *)
(* without; a read changes none.                                           *)
THEOREM WritesStay == Spec => WritesWhereAsked
<1> DEFINE A == medium' # medium /\ taken /\ InRange =>
                  \E i \in 0 .. call.count - 1 :
                    \A p \in DOMAIN medium' \ {Asked(i)} :
                      p \in DOMAIN medium /\ medium'[p] = medium[p]
<1>1. ASSUME AtaInv, WriteInv, [Next]_vars PROVE A
  <2>1. SUFFICES ASSUME medium' # medium, taken, InRange PROVE A
    OBVIOUS
  <2>2. DeviceStores
    BY <1>1, <2>1 DEF Next, Begin, Driver, OutRegister, OutCommand, PollError, MoveIn, MoveOut,
                      Flush, Device, DeviceFails, DeviceAsks, DeviceFlushed, vars
  <2>3. dev.pending # Nothing /\ dev.state = "busy" /\ ~ Accepts
    BY <2>2 DEF DeviceStores, Accepts
  <2>4. call.op = "write"
    BY <1>1, <2>1, <2>3, CallTyped DEF AtaInv, ReadInv, Reading, Op
  <2>5. moved > 0 /\ dev.place = Asked(moved - 1)
    BY <1>1, <2>1, <2>3, <2>4 DEF WriteInv, Writing, LastOnItsWay
  <2>6. moved - 1 \in 0 .. call.count - 1
    BY <1>1, <2>5, CallTyped DEF AtaInv, DriverInv, Byte
  <2>7. \A p \in DOMAIN medium' \ {Asked(moved - 1)} :
          p \in DOMAIN medium /\ medium'[p] = medium[p]
    BY <2>2, <2>5 DEF DeviceStores
  <2> QED
    BY <2>6, <2>7
<1>2. AtaInv /\ WriteInv /\ [Next]_vars => [A]_vars
  BY <1>1
<1> QED
  BY <1>2, InvAlways, WriteInvAlways, PTL DEF Spec, WritesWhereAsked

-----------------------------------------------------------------------------
(* Every call ends: how much there is left to do, and that ata_poll is     *)
(* called of a device that has something to do.                            *)

(* What there is to do is a number, by where the driver and the device are. *)
LEMMA WorkIs ==
  ASSUME AtaInv
  PROVE  /\ call.count \in 0 .. 255 /\ moved \in 0 .. call.count
         /\ DriverWork \in Nat /\ DeviceWork \in 0 .. 2
<1>1. call.count \in 0 .. 255 /\ moved \in Nat /\ moved <= call.count
  BY CallTyped DEF AtaInv, DriverInv, Byte
<1>2. pc \in {"idle", "out", "poll", "flush"} /\ (pc = "out" => step \in 1 .. 5)
  BY DEF AtaInv, TypeOK, DriverInv
<1>3. DriverWork \in Nat
  BY SMTT(30), <1>1, <1>2 DEF DriverWork
<1>4. DeviceWork \in 0 .. 2
  BY DEF DeviceWork
<1>. QED
  BY <1>1, <1>3, <1>4

(* A step of the driver. Where it hands the device something to do, it has *)
(* that much less to do itself.                                            *)
LEMMA DriverWorks ==
  ASSUME AtaInv, Driver
  PROVE  Work' \in 0 .. Work - 1
<1>1. /\ call.count \in 0 .. 255 /\ moved \in 0 .. call.count
      /\ DriverWork \in Nat /\ DeviceWork \in 0 .. 2
  BY WorkIs
<1>2. dev \in DeviceState /\ (dev.state = "drq" => DeviceWork = 1) /\ (Accepts => DeviceWork = 0)
  BY DEF AtaInv, TypeOK, DeviceWork, Accepts
<1>3. AtaInv' /\ DriverWork' \in Nat /\ DeviceWork' \in 0 .. 2
  <2>1. AtaInv'
    BY InvNext DEF Next
  <2>2. DeviceWork' \in 0 .. 2
    BY DEF DeviceWork
  <2>3. /\ call'.count \in 0 .. 255 /\ moved' \in Nat /\ moved' <= call'.count
        /\ pc' \in {"idle", "out", "poll", "flush"} /\ (pc' = "out" => step' \in 1 .. 5)
    <3>1. call' = call
      BY DEF Driver, OutRegister, OutCommand, PollError, MoveIn, MoveOut, Flush
    <3>. QED
      BY <1>1, <2>1, <3>1 DEF AtaInv, TypeOK, DriverInv
  <2>. QED
    BY SMTT(30), <2>1, <2>2, <2>3 DEF DriverWork
<1>4. SUFFICES DriverWork' + DeviceWork' < DriverWork + DeviceWork
  <2>1. Work = DriverWork + DeviceWork /\ Work' = DriverWork' + DeviceWork'
    BY DEF Work
  <2>2. PICK a, b, c, d : a = DriverWork /\ b = DeviceWork /\ c = DriverWork' /\ d = DeviceWork'
    OBVIOUS
  <2>3. a \in Nat /\ b \in 0 .. 2 /\ c \in Nat /\ d \in 0 .. 2
    BY <1>1, <1>3, <2>2
  <2>4. c + d < a + b
    BY <1>4, <2>2
  <2>5. c + d \in 0 .. a + b - 1
    BY <2>3, <2>4
  <2>. QED
    BY <2>1, <2>2, <2>5
<1>5. CASE OutRegister
  <2>1. /\ pc = "out" /\ pc' = "out" /\ call' = call /\ step \in 1 .. 5 /\ step' = step + 1
        /\ dev'.state = dev.state
    <3>1. /\ pc = "out" /\ pc' = pc /\ call' = call /\ Out(call, step + 1)
      BY <1>5 DEF OutRegister
    <3>2. step \in 1 .. 5 /\ step + 1 \in 1 .. 5
      BY <1>5 DEF OutRegister, AtaInv, DriverInv
    <3>. QED
      BY <3>1, <3>2, OutStep DEF AtaInv, TypeOK
  <2>2. DeviceWork' = DeviceWork
    BY <2>1 DEF DeviceWork
  <2>3. DriverWork' = DriverWork - 3
    BY <1>1, <2>1 DEF DriverWork
  <2>. QED
    BY <1>1, <1>3, <2>2, <2>3
<1>6. CASE OutCommand
  <2>1. /\ pc = "out" /\ step = 5 /\ call' = call /\ moved' = moved /\ moved = 0
        /\ pc' = "poll" \/ (pc' \in {"idle", "flush"} /\ call.count = 0)
        /\ (Accepts => DeviceWork' <= 2) /\ (~ Accepts => dev' = dev)
    BY <1>1, <1>3, <1>6 DEF OutCommand, Return, AtaInv, DriverInv
  <2>2. DriverWork = 5 * call.count + 6
    BY <1>1, <2>1 DEF DriverWork
  <2>3. DriverWork' <= 5 * call.count + 3
    BY <1>1, <2>1 DEF DriverWork
  <2>4. DeviceWork' <= DeviceWork + 2
    BY <1>2, <1>1, <1>3, <2>1 DEF DeviceWork
  <2>. QED
    BY <1>1, <1>3, <2>2, <2>3, <2>4
<1>7. CASE PollError
  <2>1. pc = "poll" /\ pc' = "idle" /\ dev' = dev /\ moved < call.count
    BY <1>7 DEF PollError, Return, AtaInv, DriverInv
  <2>2. DriverWork = 5 * (call.count - moved) /\ DriverWork' = 0 /\ DeviceWork' = DeviceWork
    BY <2>1 DEF DriverWork, DeviceWork
  <2>. QED
    BY <1>1, <2>1, <2>2
<1>8. CASE MoveIn \/ MoveOut
  <2>1. /\ pc = "poll" /\ dev.state = "drq" /\ call' = call /\ moved' = moved + 1
        /\ moved < call.count
        /\ (pc' = "poll" /\ moved + 1 < call.count) \/ (pc' \in {"idle", "flush"} /\ moved + 1 = call.count)
    <3>1. /\ pc = "poll" /\ dev.state = "drq" /\ call' = call /\ moved' = moved + 1
          /\ (pc' = "poll" /\ ~ Last(moved)) \/ (pc' \in {"idle", "flush"} /\ Last(moved))
      BY <1>8 DEF MoveIn, MoveOut, Polled, Return
    <3>2. moved < call.count
      BY <3>1 DEF AtaInv, DriverInv
    <3>. QED
      BY <1>1, <3>1, <3>2 DEF Last
  <2>2. DriverWork = 5 * (call.count - moved) /\ DeviceWork = 1
    BY <2>1, <1>2 DEF DriverWork
  <2>3. DriverWork' <= 5 * (call.count - moved) - 2
    BY <1>1, <2>1 DEF DriverWork
  <2>4. DeviceWork' <= 2
    BY <1>3
  <2>. QED
    BY <1>1, <1>3, <2>2, <2>3, <2>4
<1>9. CASE Flush
  <2>1. pc = "flush" /\ pc' = "idle" /\ (~ Accepts => dev' = dev)
    BY <1>9 DEF Flush, Return
  <2>2. DriverWork = 3 /\ DriverWork' = 0
    BY <2>1 DEF DriverWork
  <2>3. DeviceWork' <= DeviceWork + 2
    BY <1>1, <1>2, <1>3, <2>1 DEF DeviceWork
  <2>4. PICK b, d : b = DeviceWork /\ d = DeviceWork'
    OBVIOUS
  <2>5. b \in 0 .. 2 /\ d \in 0 .. 2 /\ d <= b + 2
    BY <1>1, <1>3, <2>3, <2>4
  <2>6. 0 + d < 3 + b
    BY <2>5
  <2>. QED
    BY <2>2, <2>4, <2>6
<1>. QED
  BY <1>5, <1>6, <1>7, <1>8, <1>9 DEF Driver

(* A step of the device.                                                   *)
LEMMA DeviceWorks ==
  ASSUME AtaInv, Device
  PROVE  Work' \in 0 .. Work - 1
<1>1. DriverWork \in Nat /\ dev \in DeviceState
  BY WorkIs DEF AtaInv, TypeOK
<1>2. dev.state = "busy" /\ UNCHANGED driver
  BY DEF Device, DeviceFails, DeviceAsks, DeviceStores, DeviceFlushed
<1>3. DriverWork' = DriverWork
  BY <1>2 DEF driver, DriverWork
<1>4. dev'.state \in {"ready", "failed", "drq"}
  BY <1>1 DEF Device, DeviceFails, DeviceAsks, DeviceStores, DeviceFlushed, DeviceState
<1>5. DeviceWork = 2 /\ DeviceWork' \in 0 .. 1
  BY <1>2, <1>4 DEF DeviceWork
<1>6. Work = DriverWork + DeviceWork /\ Work' = DriverWork' + DeviceWork'
  BY DEF Work
<1>7. PICK a, d : a = DriverWork /\ d = DeviceWork'
  OBVIOUS
<1>8. a + d \in 0 .. (a + 2) - 1
  <2>1. a \in Nat /\ d \in 0 .. 1
    BY <1>1, <1>5, <1>7
  <2>. QED
    BY <2>1
<1>. QED
  BY <1>3, <1>5, <1>6, <1>7, <1>8

(* The device is at the command of the call, and owes it as many sectors   *)
(* as the loop has to go: the one it has not stored yet counts for it.     *)
InHand == IF dev.pending = Nothing THEN 0 ELSE 1

AtWork ==
  \/ dev.state = "failed"
  \/ /\ dev.state \in {"busy", "drq"} /\ dev.cmd = call.op
     /\ dev.left = call.count - moved + InHand

AimInv ==
  taken => /\ pc = "out"  => Accepts /\ RegistersSet
           /\ pc = "poll" => AtWork

(* The first registers of a call, and one more of them.                    *)
LEMMA BeginAims ==
  ASSUME AtaInv, NEW op \in Op, NEW s \in Sectors, NEW n \in Counts, Begin(op, s, n)
  PROVE  AimInv'
<1>1. /\ call' = [op |-> op, sector |-> s, count |-> n] /\ Out(call', 1) /\ pc' = "out"
  BY DEF Begin
<1>2. call' \in [op : Op, sector : Sectors \cup {0}, count : Counts \cup {0}]
  BY <1>1
<1>3. /\ step' = 1 /\ dev'.state = dev.state
      /\ taken' => /\ Accepts
                   /\ dev'.regs[Order[1]] = Registers(call'.sector, call'.count)[Order[1]]
  BY <1>1, <1>2, OutStep DEF AtaInv
<1>4. taken' => Accepts' /\ RegistersSet'
  BY <1>3 DEF Accepts, RegistersSet
<1> QED
  BY <1>1, <1>4 DEF AimInv

(* One register after the other: those that are written stay as they are.  *)
LEMMA OutRegisterAims ==
  ASSUME AtaInv, AimInv, OutRegister
  PROVE  AimInv'
<1>1. /\ pc = "out" /\ Out(call, step + 1) /\ UNCHANGED <<call, pc>>
      /\ step \in 1 .. 5 /\ step + 1 \in 1 .. 5
  BY DEF OutRegister, AtaInv, DriverInv
<1>2. ASSUME taken' PROVE Accepts' /\ RegistersSet'
  <2>1. taken' => taken
    BY <1>1, OutStep DEF AtaInv, TypeOK
  <2>2. taken' /\ RegistersSet
    BY <1>1, <1>2, <2>1 DEF AimInv
  <2> QED
    BY <2>2, RegistersKept
<1> QED
  BY <1>1, <1>2 DEF AimInv

(* The command starts with the count of the call.                          *)
LEMMA OutCommandAims ==
  ASSUME AtaInv, AimInv, OutCommand
  PROVE  AimInv'
<1>1. /\ pc = "out" /\ step = 5 /\ taken' = (taken /\ Accepts)
      /\ dev' = IF Accepts THEN Command(call.op) ELSE dev
      /\ call' = call /\ moved' = moved
      /\ pc' = "poll" => call.count > 0
      /\ pc' # "out"
  BY DEF OutCommand, Return
<1>2. TypeOK /\ moved = 0 /\ call.count \in Nat /\ call.sector \in Nat /\ call.op \in Op
  BY <1>1, CallTyped DEF AtaInv, DriverInv, Byte
<1>3. SUFFICES ASSUME taken', pc' = "poll" PROVE AtWork'
  BY <1>1 DEF AimInv
<1>4. Accepts /\ RegistersSet /\ dev' = Command(call.op) /\ call.count > 0
  BY <1>1, <1>3 DEF AimInv
<1>5. dev.regs.count = call.count
  <2>1. dev.regs[Order[2]] = Registers(call.sector, call.count)[Order[2]]
    BY <1>1, <1>4 DEF RegistersSet
  <2>. QED
    BY <2>1 DEF Order, Registers
<1>6. /\ dev'.state = "busy" /\ dev'.cmd = call.op /\ dev'.pending = Nothing
      /\ dev.regs.count > 0 => dev'.left = dev.regs.count
  BY <1>2, <1>4, CommandTyped
<1>7. dev'.left = call'.count - moved'
  BY <1>1, <1>2, <1>4, <1>5, <1>6
<1>8. InHand' = 0
  BY <1>6 DEF InHand
<1>. QED
  BY <1>1, <1>2, <1>6, <1>7, <1>8 DEF AtWork

(* A sector is moved: the device owes one less, or it has it in hand.      *)
LEMMA MoveInAims ==
  ASSUME AtaInv, AimInv, MoveIn
  PROVE  AimInv'
<1>1. /\ pc = "poll" /\ dev.state = "drq" /\ call.op = "read" /\ moved' = moved + 1
      /\ dev' = SectorGiven /\ (pc' = "poll" => ~ Last(moved)) /\ pc' # "out"
      /\ call' = call /\ taken' = taken
  BY DEF MoveIn, Polled, Return
<1>2. /\ call.count \in 0 .. 255 /\ moved \in Nat /\ moved < call.count
      /\ dev \in DeviceState /\ dev.left \in 0 .. 256
  BY <1>1, CallTyped DEF AtaInv, DriverInv, TypeOK, DeviceState, Byte
<1>3. SUFFICES ASSUME taken, pc' = "poll" PROVE AtWork'
  BY <1>1 DEF AimInv
<1>4. dev.pending = Nothing /\ dev.cmd = "read" /\ dev.left = call.count - moved
  <2>1. dev.pending = Nothing /\ AtWork
    BY <1>1, <1>3 DEF AtaInv, DeviceInv, AimInv
  <2>2. InHand = 0
    BY <2>1 DEF InHand
  <2>. QED
    BY <1>1, <1>2, <2>1, <2>2 DEF AtWork
<1>5. dev.left # 1 /\ dev.left - 1 = call.count - (moved + 1)
  BY <1>1, <1>2, <1>3, <1>4 DEF Last
<1>6. dev' = [dev EXCEPT !.place = Following(dev.place), !.left = dev.left - 1, !.state = "busy"]
  BY <1>1, <1>4, <1>5 DEF SectorGiven, Serves
<1>7. /\ dev'.state = "busy" /\ dev'.cmd = "read" /\ dev'.left = dev.left - 1
      /\ dev'.pending = Nothing
  BY <1>2, <1>4, <1>6 DEF DeviceState
<1>8. InHand' = 0
  BY <1>7 DEF InHand
<1>9. dev'.left = call'.count - moved' + InHand'
  BY <1>1, <1>2, <1>5, <1>7, <1>8
<1>. QED
  BY <1>1, <1>7, <1>9 DEF AtWork

(* A sector is given to the device, which has it in hand until it stores   *)
(* it.                                                                     *)
LEMMA MoveOutAims ==
  ASSUME AtaInv, AimInv, MoveOut
  PROVE  AimInv'
<1> DEFINE token == [call |-> calls, slot |-> BufferSlot(moved)]
<1>1. /\ pc = "poll" /\ dev.state = "drq" /\ call.op = "write" /\ moved' = moved + 1
      /\ dev' = SectorTaken(token) /\ pc' # "out" /\ call' = call /\ taken' = taken
  BY DEF MoveOut, Polled
<1>2. /\ call.count \in 0 .. 255 /\ moved \in Nat /\ moved < call.count
      /\ dev \in DeviceState /\ dev.left \in 0 .. 256
  BY <1>1, CallTyped DEF AtaInv, DriverInv, TypeOK, DeviceState, Byte
<1>3. SUFFICES ASSUME taken, pc' = "poll" PROVE AtWork'
  BY <1>1 DEF AimInv
<1>4. dev.pending = Nothing /\ dev.cmd = "write" /\ dev.left = call.count - moved
  <2>1. dev.pending = Nothing /\ AtWork
    BY <1>1, <1>3 DEF AtaInv, DeviceInv, AimInv
  <2>2. InHand = 0
    BY <2>1 DEF InHand
  <2>. QED
    BY <1>1, <1>2, <2>1, <2>2 DEF AtWork
<1>5. token # Nothing
  <2>1. calls \in 1 .. MaxCalls
    BY <1>1, AtaAssumption DEF AtaInv, TypeOK, DriverInv
  <2>2. BufferSlot(moved) \in Slots
    BY <1>2 DEF BufferSlot, Slots
  <2>3. token \in Token
    BY <2>1, <2>2 DEF Token
  <2>. QED
    BY <2>3, NothingAssumption
<1>6. dev' = [dev EXCEPT !.state = "busy", !.pending = token]
  BY <1>1, <1>4 DEF SectorTaken, Serves
<1> HIDE DEF token
<1>7. /\ dev'.state = "busy" /\ dev'.cmd = "write" /\ dev'.left = dev.left
      /\ dev'.pending = token
  BY <1>2, <1>4, <1>6 DEF DeviceState
<1>8. InHand' = 1
  BY <1>5, <1>7 DEF InHand
<1>9. dev'.left = call'.count - moved' + InHand'
  BY <1>1, <1>2, <1>4, <1>7, <1>8
<1>. QED
  BY <1>1, <1>7, <1>9 DEF AtWork

(* The device stores what it has in hand, asks for the next, or fails.     *)
LEMMA DeviceAims ==
  ASSUME AtaInv, AimInv, Device
  PROVE  AimInv'
<1>1. UNCHANGED driver /\ dev.state = "busy" /\ dev \in DeviceState
  BY DEF Device, DeviceFails, DeviceAsks, DeviceStores, DeviceFlushed, AtaInv, TypeOK
<1>2. SUFFICES ASSUME taken, pc = "poll" PROVE AtWork'
  BY <1>1 DEF AimInv, Accepts, driver
<1>3. /\ call.count \in 0 .. 255 /\ moved \in Nat /\ moved < call.count /\ dev.left \in 0 .. 256
      /\ call.op \in Op
  BY <1>1, <1>2, CallTyped DEF AtaInv, DriverInv, DeviceState, Byte
<1>4. dev.cmd = call.op /\ dev.left = call.count - moved + InHand
  BY <1>1, <1>2 DEF AimInv, AtWork
<1>5. CASE DeviceFails
  <2>1. dev'.state = "failed"
    BY <1>1, <1>5 DEF DeviceFails, DeviceState
  <2>. QED
    BY <2>1 DEF AtWork
<1>6. CASE DeviceAsks
  <2>1. /\ dev'.state = "drq" /\ dev'.cmd = dev.cmd /\ dev'.left = dev.left
        /\ dev'.pending = dev.pending
    BY <1>1, <1>6 DEF DeviceAsks, DeviceState
  <2>2. InHand' = InHand
    BY <2>1 DEF InHand
  <2>. QED
    BY <1>1, <1>4, <2>1, <2>2 DEF AtWork, driver
<1>7. CASE DeviceStores
  <2>1. dev.pending # Nothing /\ InHand = 1
    BY <1>7 DEF DeviceStores, InHand
  <2>2. dev.left = call.count - moved + 1 /\ dev.left # 1
    BY <1>3, <1>4, <2>1
  <2>3. dev' = [dev EXCEPT !.place = Following(dev.place), !.left = dev.left - 1,
                           !.pending = Nothing, !.state = "drq"]
    BY <1>7, <2>2 DEF DeviceStores
  <2>4. /\ dev'.state = "drq" /\ dev'.cmd = dev.cmd /\ dev'.left = dev.left - 1
        /\ dev'.pending = Nothing
    BY <1>1, <2>3 DEF DeviceState
  <2>5. InHand' = 0
    BY <2>4 DEF InHand
  <2>6. dev'.left = call'.count - moved' + InHand'
    BY <1>1, <1>3, <2>2, <2>4, <2>5 DEF driver
  <2>. QED
    BY <1>1, <1>4, <2>4, <2>6 DEF AtWork, driver
<1>8. CASE DeviceFlushed
  BY <1>3, <1>4, <1>8 DEF DeviceFlushed, Op
<1>. QED
  BY <1>5, <1>6, <1>7, <1>8 DEF Device

(* ata_poll never waits for a sector that the device has not been asked    *)
(* for: one that took all registers of a call has a sector for each turn   *)
(* of the loop, or has failed, which ata_poll sees.                        *)
THEOREM PollsAtWork == Spec => []PollsADeviceAtWork
<1>1. Init => AimInv
  BY DEF Init, AimInv
<1>2. AtaInv /\ AimInv /\ [Next]_vars => AimInv'
  <2> SUFFICES ASSUME AtaInv, AimInv, [Next]_vars PROVE AimInv'
    OBVIOUS
  <2>1. ASSUME NEW op \in Op, NEW s \in Sectors, NEW n \in Counts, Begin(op, s, n)
        PROVE  AimInv'
    BY <2>1, BeginAims
  <2>2. CASE PollError \/ Flush
    BY <2>2 DEF PollError, Flush, Return, AimInv
  <2>3. CASE UNCHANGED vars
    BY <2>3 DEF vars, driver, AimInv, Accepts, RegistersSet, AtWork, InHand
  <2> QED
    BY <2>1, <2>2, <2>3, OutRegisterAims, OutCommandAims, MoveInAims, MoveOutAims, DeviceAims
    DEF Next, Driver
<1>3. AimInv => PollsADeviceAtWork
  BY DEF AimInv, AtWork, PollsADeviceAtWork
<1>. QED
  BY <1>1, <1>2, <1>3, InvAlways, PTL DEF Spec

(* Each step of ata_read, ata_write or the device leaves less to do,       *)
(* whatever the sectors and counts, however the device fails and whether   *)
(* or not it took the registers; and a call whose registers were taken     *)
(* polls only a device with something to answer. (It says nothing of the   *)
(* polls that read neither an error nor a request: they are no steps.)     *)
THEOREM WorkGoesDown == Spec => WorkDecreases
<1>1. AtaInv /\ [Next]_vars => [calls' = calls => Work' \in 0 .. Work - 1]_vars
  <2> SUFFICES ASSUME AtaInv, [Next]_vars, calls' = calls, vars' # vars
               PROVE  Work' \in 0 .. Work - 1
    OBVIOUS
  <2>1. ASSUME NEW op \in Op, NEW s \in Sectors, NEW n \in Counts, Begin(op, s, n)
        PROVE  FALSE
    <3>1. calls' = calls + 1 /\ calls \in Nat
      BY <2>1, AtaAssumption DEF Begin, AtaInv, TypeOK
    <3>. QED
      BY <3>1
  <2>. QED
    BY <2>1, DriverWorks, DeviceWorks DEF Next
<1>2. AtaInv /\ PollsADeviceAtWork' /\ [Next]_vars =>
        [/\ PollsADeviceAtWork'
         /\ calls' = calls => Work' \in 0 .. Work - 1]_vars
  BY <1>1
<1>. QED
  BY <1>2, InvAlways, PollsAtWork, PTL DEF Spec, WorkDecreases

==============================================================================
