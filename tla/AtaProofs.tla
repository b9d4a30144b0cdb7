------------------------------ MODULE AtaProofs -----------------------------
(***************************************************************************)
(* Proofs about Ata, for every register width, sector size and set of      *)
(* addresses: the driver keeps the discipline of the ports and implements  *)
(* the sector store.                                                       *)
(***************************************************************************)
EXTENDS Ata, Integers, TLAPS

AddressByte == 0 .. Base - 1

Jobs == {"none", "reset", "load", "give", "accept", "take", "store"}

Device ==
    [bsy : BOOLEAN, drq : BOOLEAN, job : Jobs, words : Seq(Data),
     reg : [select : [lba : BOOLEAN, top : AddressByte], count : {0, 1},
            low : AddressByte, mid : AddressByte, high : AddressByte]]

\* The bits of the status register say what the controller is at.
StatusOK ==
    /\ dev.bsy <=> dev.job \in {"reset", "load", "accept", "store"}
    /\ dev.drq <=> dev.job \in {"give", "take"}

\* Between calls, and until a call has polled, the controller may have
\* nothing left to do but to reset or to store the sector of the last call.
QuietOK ==
    pc \in {"off", "init", "idle", "wait_idle"} =>
        dev.job \in {"none", "reset", "store"}

\* No call has been made since the power came on.
EarlyOK == pc \in {"off", "init"} => request = NoRequest

StoringOK ==
    dev.job = "store" =>
        /\ pc \in {"idle", "wait_idle"}
        /\ dev.words \in Sector
        /\ Addressed(dev.reg) \in Lba

\* The caller's data is there for as long as the call may read it.
DataOK == InCall /\ request.op = "write" => buffer \in Sector

\* The registers that the call has written hold the address.
RegistersOK ==
    pc = "registers" =>
        /\ dev.job = "none"
        /\ k > 1 => dev.reg.select.lba = TRUE
        /\ k > 1 => dev.reg.select.top = Shifted(Base * Base * Base)
        /\ k > 3 => dev.reg.low = Shifted(1)
        /\ k > 4 => dev.reg.mid = Shifted(Base)
        /\ k > 5 => dev.reg.high = Shifted(Base * Base)

\* From the command on, the controller works on the sector of the call.
CommandOK ==
    pc \in {"wait_bsy", "wait_drq", "transfer"} =>
        /\ Addressed(dev.reg) = request.lba
        /\ dev.job \in IF request.op = "read" THEN {"load", "give"}
                       ELSE {"accept", "take"}

\* What the controller holds when it is ready, before the first word moves.
ReadyOK ==
    pc \in {"wait_bsy", "wait_drq"} =>
        /\ k = 1
        /\ dev.job = "give" => dev.words = media[request.lba]
        /\ dev.job = "take" => dev.words = <<>>

\* In a read the words given are in the buffer, and the others are still in
\* the controller; in a write the words taken are those of the buffer.
GiveOK ==
    pc = "transfer" /\ request.op = "read" =>
        /\ dev.job = "give"
        /\ Len(dev.words) = WORDS - k + 1
        /\ \A i \in 1 .. WORDS - k + 1 : dev.words[i] = media[request.lba][k - 1 + i]
        /\ \A i \in 1 .. k - 1 : buffer[i] = media[request.lba][i]

TakeOK ==
    pc = "transfer" /\ request.op = "write" =>
        /\ dev.job = "take"
        /\ Len(dev.words) = k - 1
        /\ \A i \in 1 .. k - 1 : dev.words[i] = buffer[i]

IInv ==
    /\ TypeOK
    /\ dev \in Device
    /\ StatusOK
    /\ QuietOK
    /\ EarlyOK
    /\ StoringOK
    /\ DataOK
    /\ RegistersOK
    /\ CommandOK
    /\ ReadyOK
    /\ GiveOK
    /\ TakeOK

-----------------------------------------------------------------------------
(***************************************************************************)
(* Splitting an address into registers and putting it together again.      *)
(***************************************************************************)

\* Quotient and remainder, for a divisor that is a variable.
LEMMA DivMod ==
    ASSUME NEW x \in Nat, NEW b \in Nat, b > 0
    PROVE  \E q \in Nat, r \in 0 .. b - 1 :
               q = x \div b /\ r = x % b /\ x = b * q + r
  <1>1. PICK q \in Nat : q = x \div b
    OBVIOUS
  <1>2. PICK r \in 0 .. b - 1 : r = x % b
    OBVIOUS
  <1>3. x = b * q + r
    BY <1>1, <1>2
  <1> QED  BY <1>1, <1>2, <1>3

LEMMA QuotientUnique ==
    ASSUME NEW x \in Nat, NEW b \in Nat, b > 0,
           NEW q \in Nat, NEW r \in Nat, r < b, x = b * q + r
    PROVE  x \div b = q
  OBVIOUS

\* Shifting twice is shifting once by both amounts.
LEMMA DivDiv ==
    ASSUME NEW x \in Nat, NEW a \in Nat, a > 0, NEW b \in Nat, b > 0
    PROVE  x \div (a * b) = (x \div a) \div b
  <1>1. PICK q \in Nat, r \in 0 .. a - 1 : q = x \div a /\ x = a * q + r
    BY DivMod
  <1>2. PICK p \in Nat, s \in 0 .. b - 1 : p = q \div b /\ q = b * p + s
    BY DivMod
  <1>3. a * b \in Nat /\ a * b > 0
    OBVIOUS
  <1>4. a * s + r \in Nat /\ a * s + r < a * b
    <2>1. a * s \in Nat /\ a * s <= a * (b - 1)
      OBVIOUS
    <2>2. a * (b - 1) = a * b - a
      OBVIOUS
    <2> QED  BY <2>1, <2>2, <1>3
  <1>5. x = (a * b) * p + (a * s + r)
    <2>1. a * (b * p + s) = (a * b) * p + a * s
      OBVIOUS
    <2> QED  BY <2>1, <1>1, <1>2
  <1>6. x \div (a * b) = p
    BY <1>3, <1>4, <1>5, QuotientUnique
  <1> QED  BY <1>1, <1>2, <1>6

\* The four registers hold the whole address: nothing of it is cut off.
LEMMA FourBytes ==
    ASSUME NEW x \in Lba
    PROVE  /\ x \in Nat
           /\ (x \div 1) % Base \in AddressByte
           /\ (x \div Base) % Base \in AddressByte
           /\ (x \div (Base * Base)) % Base \in AddressByte
           /\ (x \div (Base * Base * Base)) % Base \in AddressByte
           /\ x = ((x \div 1) % Base)
                  + Base * (((x \div Base) % Base)
                  + Base * (((x \div (Base * Base)) % Base)
                  + Base * ((x \div (Base * Base * Base)) % Base)))
  <1>0. Base \in Nat /\ Base > 0
    BY AtaAssumption
  <1>1. x \in Nat /\ x < Base * Base * Base * Base
    BY <1>0 DEF Lba
  <1>2. x \div 1 = x
    BY <1>1
  <1>3. PICK x1 \in Nat, b0 \in 0 .. Base - 1 :
            /\ x1 = x \div Base /\ b0 = x % Base
            /\ x = Base * x1 + b0
    BY <1>0, <1>1, DivMod
  <1>4. PICK x2 \in Nat, b1 \in 0 .. Base - 1 :
            /\ x2 = x1 \div Base /\ b1 = x1 % Base
            /\ x1 = Base * x2 + b1
    BY <1>0, DivMod
  <1>5. PICK x3 \in Nat, b2 \in 0 .. Base - 1 :
            /\ x3 = x2 \div Base /\ b2 = x2 % Base
            /\ x2 = Base * x3 + b2
    BY <1>0, DivMod
  <1>6. Base * Base \in Nat /\ Base * Base > 0
    BY <1>0
  <1>7. x2 = x \div (Base * Base)
    BY <1>0, <1>1, <1>3, <1>4, DivDiv
  <1>8. x3 = x \div (Base * Base * Base)
    BY <1>0, <1>1, <1>5, <1>6, <1>7, DivDiv
  <1>9. x3 < Base
    <2>1. x2 * (Base * Base) <= x
      <3>1. x1 * Base <= x  BY <1>0, <1>3
      <3>2. x2 * Base <= x1  BY <1>0, <1>4
      <3>3. (x2 * Base) * Base <= x1 * Base  BY <3>2, <1>0
      <3> QED  BY <3>1, <3>3, <1>0, <1>1
    <2>2. x3 * Base <= x2
      BY <1>0, <1>5
    <2>3. (x3 * Base) * (Base * Base) <= x2 * (Base * Base)
      BY <2>2, <1>0, <1>6
    <2>4. x3 * (Base * Base * Base) <= x
      BY <2>1, <2>3, <1>0, <1>1
    <2>5. ASSUME x3 >= Base  PROVE FALSE
      <3>1. x3 * (Base * Base * Base) >= Base * (Base * Base * Base)
        BY <2>5, <1>0
      <3> QED  BY <3>1, <2>4, <1>0, <1>1
    <2> QED  BY <2>5, <1>0
  <1>10. x3 % Base = x3
    BY <1>0, <1>9
  <1>11. x = b0 + Base * (b1 + Base * (b2 + Base * x3))
    BY <1>0, <1>3, <1>4, <1>5
  <1> QED
    BY <1>0, <1>1, <1>2, <1>3, <1>4, <1>5, <1>7, <1>8, <1>9, <1>10, <1>11
       DEF AddressByte

-----------------------------------------------------------------------------
(***************************************************************************)
(* The invariant.                                                          *)
(***************************************************************************)

LEMMA BlankBuffer == [w \in 1 .. WORDS |-> Junk] \in Buffer
  BY DEF Buffer

LEMMA ResetType == Reset \in Device
  BY AtaAssumption DEF Reset, Device, AddressByte, Jobs, NoWords

LEMMA InitInv == Init => IInv
  <1> SUFFICES ASSUME Init PROVE IInv
    OBVIOUS
  <1>1. media \in [Lba -> Sector]
    BY DEF Init, Sector
  <1>2. TypeOK
    BY <1>1, BlankBuffer, AtaAssumption
       DEF Init, TypeOK, InCall, Reset
  <1>3. dev \in Device
    BY ResetType DEF Init
  <1> QED
    BY <1>2, <1>3 DEF Init, IInv, Reset, StatusOK, QuietOK, EarlyOK, StoringOK, DataOK,
       InCall, RegistersOK, CommandOK, ReadyOK, GiveOK, TakeOK

LEMMA PowerLossInv == ASSUME IInv, PowerLoss PROVE IInv'
  <1>1. TypeOK'
    BY BlankBuffer, AtaAssumption DEF IInv, PowerLoss, TypeOK, InCall, Reset
  <1>2. dev' \in Device
    BY ResetType DEF PowerLoss
  <1> QED
    BY <1>1, <1>2 DEF PowerLoss, IInv, Reset, StatusOK, QuietOK, EarlyOK, StoringOK,
       DataOK, InCall, RegistersOK, CommandOK, ReadyOK, GiveOK, TakeOK

LEMMA PowerOnInv == ASSUME IInv, PowerOn PROVE IInv'
  <1>1. dev' \in Device
    BY DEF IInv, PowerOn, Device
  <1> QED
    BY <1>1 DEF PowerOn, IInv, TypeOK, StatusOK, QuietOK, EarlyOK, StoringOK,
       DataOK, InCall, RegistersOK, CommandOK, ReadyOK, GiveOK, TakeOK

LEMMA DriveInitInv == ASSUME IInv, drive_init PROVE IInv'
  <1> DEFINE master == [lba |-> FALSE, top |-> 0]
  <1>1. CASE dev.bsy
    <2>1. dev' = dev
      BY <1>1 DEF drive_init, Outb
    <2> QED
      BY <2>1 DEF drive_init, IInv, TypeOK, StatusOK, QuietOK, EarlyOK, StoringOK,
         DataOK, InCall, RegistersOK, CommandOK, ReadyOK, GiveOK, TakeOK
  <1>2. CASE ~dev.bsy
    <2>1. dev' = [dev EXCEPT !.reg["select"] = master]
      BY <1>2 DEF drive_init, Outb
    <2>2. master \in [lba : BOOLEAN, top : AddressByte]
      BY AtaAssumption DEF AddressByte
    <2>3. dev' \in Device /\ dev'.job = dev.job /\ dev'.bsy = dev.bsy /\ dev'.drq = dev.drq
      BY <2>1, <2>2 DEF IInv, Device
    <2>4. dev.job = "none"
      BY <1>2 DEF drive_init, IInv, QuietOK, StatusOK
    <2> QED
      BY <1>2, <2>3, <2>4 DEF drive_init, IInv, TypeOK, StatusOK, QuietOK, EarlyOK, StoringOK,
         DataOK, InCall, RegistersOK, CommandOK, ReadyOK, GiveOK, TakeOK
  <1> QED  BY <1>1, <1>2 DEF IInv, TypeOK

LEMMA ReadCallInv ==
    ASSUME IInv, NEW lba \in Addresses, drive_read_sector(lba)
    PROVE  IInv'
  <1>1. lba \in Lba
    BY AtaAssumption DEF Lba
  <1>2. request' \in [op : {"read", "write"}, lba : Lba]
    BY <1>1 DEF drive_read_sector
  <1>3. request' # NoRequest
    BY <1>2, AtaAssumption DEF Lba
  <1> QED
    BY <1>2, <1>3 DEF drive_read_sector, IInv, TypeOK, StatusOK, QuietOK,
       EarlyOK, StoringOK, DataOK, InCall, RegistersOK, CommandOK, ReadyOK, GiveOK, TakeOK

LEMMA WriteCallInv ==
    ASSUME IInv, NEW lba \in Addresses, NEW data \in Sector,
           drive_write_sector(lba, data)
    PROVE  IInv'
  <1>1. lba \in Lba
    BY AtaAssumption DEF Lba
  <1>2. request' \in [op : {"read", "write"}, lba : Lba]
    BY <1>1 DEF drive_write_sector
  <1>3. request' # NoRequest
    BY <1>2, AtaAssumption DEF Lba
  <1>4. data \in Buffer
    BY DEF Sector, Buffer
  <1> QED
    BY <1>2, <1>3, <1>4 DEF drive_write_sector, IInv, TypeOK, StatusOK, QuietOK,
       EarlyOK, StoringOK, DataOK, InCall, RegistersOK, CommandOK, ReadyOK, GiveOK, TakeOK

LEMMA WaitIdleInv == ASSUME IInv, WaitIdle PROVE IInv'
  <1>1. dev.job = "none"
    BY DEF WaitIdle, IInv, QuietOK, StatusOK
  <1>2. k' \in 1 .. Len(Registers)
    BY DEF WaitIdle, Registers
  <1> QED
    BY <1>1, <1>2 DEF WaitIdle, IInv, TypeOK, StatusOK, QuietOK, EarlyOK, StoringOK,
       DataOK, InCall, RegistersOK, CommandOK, ReadyOK, GiveOK, TakeOK

LEMMA WaitBsyInv == ASSUME IInv, WaitBsy PROVE IInv'
  BY DEF WaitBsy, IInv, TypeOK, StatusOK, QuietOK, EarlyOK, StoringOK,
     DataOK, InCall, RegistersOK, CommandOK, ReadyOK, GiveOK, TakeOK

LEMMA WaitDrqInv == ASSUME IInv, WaitDrq PROVE IInv'
  <1>1. request.lba \in Lba /\ request.op \in {"read", "write"}
    BY DEF WaitDrq, IInv, TypeOK, InCall
  <1>2. media[request.lba] \in Sector
    BY <1>1 DEF IInv, TypeOK
  <1>3. /\ k = 1
        /\ dev.job = IF request.op = "read" THEN "give" ELSE "take"
        /\ dev.job = "give" => dev.words = media[request.lba]
        /\ dev.job = "take" => dev.words = <<>>
    BY DEF WaitDrq, IInv, StatusOK, CommandOK, ReadyOK
  <1>4. request.op = "read" => /\ Len(dev.words) = WORDS
                               /\ \A i \in 1 .. WORDS : dev.words[i] = media[request.lba][i]
    BY <1>2, <1>3, AtaAssumption DEF Sector
  <1>5. GiveOK'
    BY <1>3, <1>4, AtaAssumption DEF WaitDrq, GiveOK
  <1>6. TakeOK'
    BY <1>1, <1>3 DEF WaitDrq, TakeOK
  <1> QED
    BY <1>5, <1>6 DEF WaitDrq, IInv, TypeOK, StatusOK, QuietOK, EarlyOK, StoringOK,
       DataOK, InCall, RegistersOK, CommandOK, ReadyOK

\* What a call writes to the registers.
LEMMA ValueType ==
    ASSUME request.lba \in Lba
    PROVE  /\ Shifted(1) \in AddressByte
           /\ Shifted(Base) \in AddressByte
           /\ Shifted(Base * Base) \in AddressByte
           /\ Shifted(Base * Base * Base) \in AddressByte
           /\ request.lba = Shifted(1) + Base * (Shifted(Base)
                  + Base * (Shifted(Base * Base)
                  + Base * Shifted(Base * Base * Base)))
  BY FourBytes DEF Shifted

LEMMA OutRegisterInv == ASSUME IInv, OutRegister PROVE IInv'
  <1> USE DEF Registers
  <1>1. /\ request.lba \in Lba /\ request.op \in {"read", "write"}
        /\ ~dev.bsy /\ dev.job = "none" /\ dev \in Device
        /\ request # NoRequest /\ request \in [op : {"read", "write"}, lba : Lba]
    BY DEF OutRegister, IInv, TypeOK, InCall, RegistersOK, StatusOK
  <1>2. k \in 1 .. 6
    BY DEF OutRegister, IInv, TypeOK
  <1>3. UNCHANGED <<request, buffer, media>>
    BY DEF OutRegister
  <1>4. request' \in [op : {"read", "write"}, lba : Lba] \cup {NoRequest} /\ DataOK'
        /\ (InCall => request # NoRequest)'
        /\ (buffer \in Buffer)' /\ (media \in [Lba -> Sector])'
    BY <1>1, <1>3 DEF OutRegister, IInv, TypeOK, DataOK, InCall
  <1>5. CASE k < 6
    <2>1. pc' = "registers" /\ k' = k + 1
      BY <1>5 DEF OutRegister
    <2>2. dev' = [dev EXCEPT !.reg[Registers[k]] = Value(Registers[k])]
      BY <1>1, <1>2, <1>5 DEF OutRegister, Outb
    <2>0. /\ pc = "registers"
          /\ k > 1 => dev.reg.select.lba = TRUE
          /\ k > 1 => dev.reg.select.top = Shifted(Base * Base * Base)
          /\ k > 3 => dev.reg.low = Shifted(1)
          /\ k > 4 => dev.reg.mid = Shifted(Base)
      BY DEF OutRegister, IInv, RegistersOK
    <2> DEFINE Written ==
           /\ dev' \in Device
           /\ dev'.bsy = dev.bsy /\ dev'.drq = dev.drq /\ dev'.job = dev.job
           /\ RegistersOK'
    <2>3. ASSUME k = 1 PROVE Written
      <3>1. dev' = [dev EXCEPT !.reg["select"] = [lba |-> TRUE, top |-> Shifted(Base * Base * Base)]]
        BY <2>2, <2>3 DEF Value
      <3>2. dev'.job = dev.job /\ dev'.bsy = dev.bsy /\ dev'.drq = dev.drq
        BY <1>1, <3>1 DEF Device
      <3>3. /\ dev'.reg.select = [lba |-> TRUE, top |-> Shifted(Base * Base * Base)]
            /\ dev'.reg.count = dev.reg.count
            /\ dev'.reg.low = dev.reg.low
            /\ dev'.reg.mid = dev.reg.mid
            /\ dev'.reg.high = dev.reg.high
        BY <1>1, <3>1 DEF Device
      <3>4. dev' \in Device
        BY <1>1, <3>1, ValueType DEF Device
      <3>5. RegistersOK'
        BY <1>1, <1>3, <2>0, <2>1, <2>3, <3>2, <3>3 DEF RegistersOK, Shifted
      <3> QED  BY <3>2, <3>4, <3>5
    <2>4. ASSUME k = 2 PROVE Written
      <3>1. dev' = [dev EXCEPT !.reg["count"] = 1]
        BY <2>2, <2>4 DEF Value
      <3>2. dev'.job = dev.job /\ dev'.bsy = dev.bsy /\ dev'.drq = dev.drq
        BY <1>1, <3>1 DEF Device
      <3>3. /\ dev'.reg.count = 1
            /\ dev'.reg.select = dev.reg.select
            /\ dev'.reg.low = dev.reg.low
            /\ dev'.reg.mid = dev.reg.mid
            /\ dev'.reg.high = dev.reg.high
        BY <1>1, <3>1 DEF Device
      <3>4. dev' \in Device
        BY <1>1, <3>1, ValueType DEF Device
      <3>5. RegistersOK'
        BY <1>1, <1>3, <2>0, <2>1, <2>4, <3>2, <3>3 DEF RegistersOK, Shifted
      <3> QED  BY <3>2, <3>4, <3>5
    <2>5. ASSUME k = 3 PROVE Written
      <3>1. dev' = [dev EXCEPT !.reg["low"] = Shifted(1)]
        BY <2>2, <2>5 DEF Value
      <3>2. dev'.job = dev.job /\ dev'.bsy = dev.bsy /\ dev'.drq = dev.drq
        BY <1>1, <3>1 DEF Device
      <3>3. /\ dev'.reg.low = Shifted(1)
            /\ dev'.reg.select = dev.reg.select
            /\ dev'.reg.count = dev.reg.count
            /\ dev'.reg.mid = dev.reg.mid
            /\ dev'.reg.high = dev.reg.high
        BY <1>1, <3>1 DEF Device
      <3>4. dev' \in Device
        BY <1>1, <3>1, ValueType DEF Device
      <3>5. RegistersOK'
        BY <1>1, <1>3, <2>0, <2>1, <2>5, <3>2, <3>3 DEF RegistersOK, Shifted
      <3> QED  BY <3>2, <3>4, <3>5
    <2>6. ASSUME k = 4 PROVE Written
      <3>1. dev' = [dev EXCEPT !.reg["mid"] = Shifted(Base)]
        BY <2>2, <2>6 DEF Value
      <3>2. dev'.job = dev.job /\ dev'.bsy = dev.bsy /\ dev'.drq = dev.drq
        BY <1>1, <3>1 DEF Device
      <3>3. /\ dev'.reg.mid = Shifted(Base)
            /\ dev'.reg.select = dev.reg.select
            /\ dev'.reg.count = dev.reg.count
            /\ dev'.reg.low = dev.reg.low
            /\ dev'.reg.high = dev.reg.high
        BY <1>1, <3>1 DEF Device
      <3>4. dev' \in Device
        BY <1>1, <3>1, ValueType DEF Device
      <3>5. RegistersOK'
        BY <1>1, <1>3, <2>0, <2>1, <2>6, <3>2, <3>3 DEF RegistersOK, Shifted
      <3> QED  BY <3>2, <3>4, <3>5
    <2>7. ASSUME k = 5 PROVE Written
      <3>1. dev' = [dev EXCEPT !.reg["high"] = Shifted(Base * Base)]
        BY <2>2, <2>7 DEF Value
      <3>2. dev'.job = dev.job /\ dev'.bsy = dev.bsy /\ dev'.drq = dev.drq
        BY <1>1, <3>1 DEF Device
      <3>3. /\ dev'.reg.high = Shifted(Base * Base)
            /\ dev'.reg.select = dev.reg.select
            /\ dev'.reg.count = dev.reg.count
            /\ dev'.reg.low = dev.reg.low
            /\ dev'.reg.mid = dev.reg.mid
        BY <1>1, <3>1 DEF Device
      <3>4. dev' \in Device
        BY <1>1, <3>1, ValueType DEF Device
      <3>5. RegistersOK'
        BY <1>1, <1>3, <2>0, <2>1, <2>7, <3>2, <3>3 DEF RegistersOK, Shifted
      <3> QED  BY <3>2, <3>4, <3>5
    <2>8. Written
      BY <1>2, <1>5, <2>3, <2>4, <2>5, <2>6, <2>7
    <2> QED
      BY <1>1, <1>2, <1>3, <1>4, <1>5, <2>1, <2>8
         DEF IInv, TypeOK, StatusOK, QuietOK, EarlyOK, StoringOK, InCall, CommandOK,
             ReadyOK, GiveOK, TakeOK, Device
  <1>6. CASE k = 6
    <2>1. pc' = "wait_bsy" /\ k' = 1
      BY <1>6 DEF OutRegister
    <2>2. /\ dev.reg.select.lba = TRUE
          /\ Addressed(dev.reg) = request.lba
      BY <1>1, <1>6, ValueType DEF OutRegister, IInv, RegistersOK, Addressed
    <2>3. dev' = Begun(IF request.op = "read" THEN "load" ELSE "accept")
      BY <1>1, <1>6, <2>2 DEF OutRegister, Outb, Value
    <2>4. /\ dev'.bsy = TRUE /\ dev'.drq = FALSE
          /\ dev'.job = (IF request.op = "read" THEN "load" ELSE "accept")
          /\ dev'.reg = dev.reg
      BY <1>1, <2>3 DEF Begun, Device
    <2>5. dev' \in Device
      BY <1>1, <2>3 DEF Begun, Device, Jobs
    <2>6. CommandOK'
      BY <1>3, <2>1, <2>2, <2>4 DEF CommandOK, Addressed
    <2>7. TypeOK'
      <3>1. k' \in 1 .. (IF pc' = "registers" THEN Len(Registers) ELSE WORDS)
        BY <2>1, AtaAssumption
      <3>2. dev'.job \in {"load", "accept"}
        BY <2>4
      <3> QED
        BY <1>4, <2>1, <2>4, <3>1, <3>2 DEF TypeOK
    <2> QED
      BY <1>1, <1>4, <2>1, <2>4, <2>5, <2>6, <2>7
         DEF IInv, StatusOK, QuietOK, EarlyOK, StoringOK, RegistersOK, ReadyOK, GiveOK, TakeOK
  <1> QED  BY <1>2, <1>5, <1>6

LEMMA SameSector ==
    ASSUME NEW f \in Sector, NEW g \in Sector, \A i \in 1 .. WORDS : f[i] = g[i]
    PROVE  f = g
  <1>1. f = [i \in 1 .. WORDS |-> f[i]]
    BY DEF Sector
  <1>2. g = [i \in 1 .. WORDS |-> g[i]]
    BY DEF Sector
  <1> QED  BY <1>1, <1>2, Zenon

\* One word of a read: it is the next word of the sector, and what is left in
\* the controller is the rest.
LEMMA ReadWord ==
    ASSUME IInv, Transfer, request.op = "read"
    PROVE  /\ InwValue = media[request.lba][k]
           /\ InwValue \in Data
           /\ buffer' = [buffer EXCEPT ![k] = InwValue]
           /\ k < WORDS => /\ dev' = [dev EXCEPT !.words = Tail(@)]
                           /\ Len(dev.words) > 1
           /\ k = WORDS => dev' = Ready("none", NoWords)
  <1>1. /\ dev.job = "give" /\ dev.words \in Seq(Data)
        /\ Len(dev.words) = WORDS - k + 1
        /\ \A i \in 1 .. WORDS - k + 1 : dev.words[i] = media[request.lba][k - 1 + i]
        /\ k \in 1 .. WORDS /\ WORDS \in Nat
        /\ media[request.lba] \in Sector
    BY AtaAssumption DEF Transfer, IInv, TypeOK, InCall, GiveOK, Device
  <1>2. dev.words # <<>> /\ dev.words[1] = media[request.lba][k]
    BY <1>1
  <1>3. InwValue = media[request.lba][k]
    BY <1>1, <1>2 DEF InwValue
  <1>4. InwValue \in Data
    BY <1>1, <1>3 DEF Sector
  <1>5. Inw /\ buffer' = [buffer EXCEPT ![k] = InwValue]
    BY DEF Transfer
  <1> QED
    BY <1>1, <1>3, <1>4, <1>5 DEF Inw

\* One word of a write: the controller takes it, and after the last it stores
\* the buffer.
LEMMA WriteWord ==
    ASSUME IInv, Transfer, request.op = "write"
    PROVE  /\ buffer' = buffer /\ buffer \in Sector
           /\ dev.words \in Seq(Data) /\ Len(dev.words) = k - 1
           /\ Append(dev.words, buffer[k]) \in Seq(Data)
           /\ \A i \in 1 .. k : Append(dev.words, buffer[k])[i] = buffer[i]
           /\ k < WORDS => dev' = [dev EXCEPT !.words = Append(dev.words, buffer[k])]
           /\ k = WORDS =>
                /\ dev' = [Begun("store") EXCEPT !.words = Append(dev.words, buffer[k])]
                /\ Append(dev.words, buffer[k]) = buffer
  <1> DEFINE words == Append(dev.words, buffer[k])
  <1>1. /\ dev.job = "take" /\ dev.words \in Seq(Data)
        /\ Len(dev.words) = k - 1
        /\ \A i \in 1 .. k - 1 : dev.words[i] = buffer[i]
        /\ k \in 1 .. WORDS /\ WORDS \in Nat
        /\ buffer \in Sector
    BY AtaAssumption DEF Transfer, IInv, TypeOK, InCall, TakeOK, DataOK, Device
  <1>2. words \in Seq(Data) /\ Len(words) = k /\ \A i \in 1 .. k : words[i] = buffer[i]
    BY <1>1 DEF Sector
  <1>3. Outw(buffer[k]) /\ buffer' = buffer
    BY DEF Transfer
  <1>4. k < WORDS => dev' = [dev EXCEPT !.words = words]
    BY <1>1, <1>2, <1>3 DEF Outw
  <1>5. k = WORDS => dev' = [Begun("store") EXCEPT !.words = words]
    BY <1>1, <1>2, <1>3 DEF Outw
  <1>6. k = WORDS => words = buffer
    <2> HIDE DEF words
    <2> SUFFICES ASSUME k = WORDS PROVE words = buffer
      OBVIOUS
    <2>1. words \in [1 .. WORDS -> Data]
      BY <1>1, <1>2
    <2>2. buffer \in [1 .. WORDS -> Data]
      BY <1>1 DEF Sector
    <2>3. \A i \in 1 .. WORDS : words[i] = buffer[i]
      BY <1>2
    <2> QED
      BY <2>1, <2>2, <2>3, SameSector DEF Sector
  <1> QED
    BY <1>1, <1>2, <1>3, <1>4, <1>5, <1>6

LEMMA TransferInv == ASSUME IInv, Transfer PROVE IInv'
  <1>1. /\ pc = "transfer" /\ dev \in Device
        /\ k \in 1 .. WORDS /\ WORDS \in Nat
        /\ request.lba \in Lba /\ request.op \in {"read", "write"}
        /\ request # NoRequest /\ request \in [op : {"read", "write"}, lba : Lba]
        /\ buffer \in Buffer /\ media \in [Lba -> Sector]
        /\ Addressed(dev.reg) = request.lba
    BY AtaAssumption DEF Transfer, IInv, TypeOK, InCall, CommandOK
  <1>2. /\ UNCHANGED <<request, media>>
        /\ k < WORDS => k' = k + 1 /\ pc' = "transfer"
        /\ k = WORDS => k' = 1 /\ pc' = "idle"
    BY <1>1 DEF Transfer
  <1>3. CASE request.op = "read"
    <2>1. buffer' \in Buffer
      BY <1>1, <1>3, ReadWord DEF Buffer
    <2>2. CASE k < WORDS
      <3>1. dev' = [dev EXCEPT !.words = Tail(@)] /\ Len(dev.words) > 1
        BY <1>3, <2>2, ReadWord
      <3>2. dev.words \in Seq(Data)
        BY <1>1 DEF Device
      <3>3. Tail(dev.words) \in Seq(Data)
        BY <3>1, <3>2
      <3>4. /\ dev' \in Device
            /\ dev'.bsy = dev.bsy /\ dev'.drq = dev.drq
            /\ dev'.job = dev.job /\ dev'.reg = dev.reg
            /\ dev'.words = Tail(dev.words)
        BY <1>1, <3>1, <3>3 DEF Device
      <3>5. GiveOK'
        <4>1. /\ dev.job = "give" /\ Len(dev.words) = WORDS - k + 1
              /\ \A i \in 1 .. WORDS - k + 1 : dev.words[i] = media[request.lba][k - 1 + i]
              /\ \A i \in 1 .. k - 1 : buffer[i] = media[request.lba][i]
          BY <1>1, <1>3 DEF IInv, GiveOK
        <4>2. Len(Tail(dev.words)) = WORDS - (k + 1) + 1
          BY <1>1, <3>1, <3>2, <4>1
        <4>3. \A i \in 1 .. WORDS - (k + 1) + 1 :
                  Tail(dev.words)[i] = media[request.lba][(k + 1) - 1 + i]
          <5> SUFFICES ASSUME NEW i \in 1 .. WORDS - (k + 1) + 1
                       PROVE  Tail(dev.words)[i] = media[request.lba][(k + 1) - 1 + i]
            OBVIOUS
          <5>1. i + 1 \in 1 .. WORDS - k + 1
            BY <1>1
          <5>2. Tail(dev.words)[i] = dev.words[i + 1]
            BY <1>1, <3>1, <3>2, <4>1, <5>1
          <5>3. dev.words[i + 1] = media[request.lba][k - 1 + (i + 1)]
            BY <4>1, <5>1
          <5>4. k - 1 + (i + 1) = (k + 1) - 1 + i
            BY <1>1
          <5> QED  BY <5>2, <5>3, <5>4
        <4>4. \A i \in 1 .. (k + 1) - 1 : buffer'[i] = media[request.lba][i]
          BY <1>1, <1>3, <4>1, ReadWord DEF Buffer
        <4> QED
          BY <1>1, <1>2, <2>2, <3>4, <4>1, <4>2, <4>3, <4>4 DEF GiveOK
      <3> QED
        BY <1>1, <1>2, <1>3, <2>1, <2>2, <3>4, <3>5
           DEF IInv, TypeOK, StatusOK, QuietOK, EarlyOK, StoringOK, DataOK, InCall,
               RegistersOK, CommandOK, ReadyOK, TakeOK, Addressed
    <2>3. CASE k = WORDS
      <3>1. dev' = Ready("none", NoWords)
        BY <1>3, <2>3, ReadWord
      <3>2. /\ dev' \in Device
            /\ dev'.bsy = FALSE /\ dev'.drq = FALSE /\ dev'.job = "none"
        <4>1. NoWords \in Seq(Data)
          BY DEF NoWords
        <4> QED  BY <1>1, <3>1, <4>1 DEF Ready, Device, Jobs
      <3>3. TypeOK'
        <4>1. k' \in 1 .. WORDS /\ pc' = "idle"
          BY <1>1, <1>2, <2>3
        <4>2. request' = request /\ media' = media
          BY <1>2
        <4> QED  BY <1>1, <2>1, <3>2, <4>1, <4>2 DEF TypeOK, InCall
      <3> QED
        BY <1>2, <2>3, <3>2, <3>3
           DEF IInv, StatusOK, QuietOK, EarlyOK, StoringOK, DataOK, InCall,
               RegistersOK, CommandOK, ReadyOK, GiveOK, TakeOK
    <2> QED  BY <1>1, <2>2, <2>3
  <1>4. CASE request.op = "write"
    <2> DEFINE words == Append(dev.words, buffer[k])
    <2>1. /\ buffer' = buffer /\ buffer \in Sector
          /\ words \in Seq(Data) /\ Len(dev.words) = k - 1
          /\ \A i \in 1 .. k : words[i] = buffer[i]
          /\ k < WORDS => dev' = [dev EXCEPT !.words = words]
          /\ k = WORDS => /\ dev' = [Begun("store") EXCEPT !.words = words]
                          /\ words = buffer
      BY <1>4, WriteWord
    <2>2. CASE k < WORDS
      <3>1. /\ dev' \in Device
            /\ dev'.bsy = dev.bsy /\ dev'.drq = dev.drq
            /\ dev'.job = dev.job /\ dev'.reg = dev.reg
            /\ dev'.words = words
        <4> HIDE DEF words
        <4> QED  BY <1>1, <2>1, <2>2 DEF Device
      <3>2. Len(words) = k
        BY <1>1, <2>1 DEF Device
      <3>3. TakeOK'
        <4>1. dev.job = "take"
          BY <1>1, <1>4 DEF IInv, TakeOK
        <4> HIDE DEF words
        <4> QED
          BY <1>1, <1>2, <2>1, <2>2, <3>1, <3>2, <4>1 DEF TakeOK
      <3> HIDE DEF words
      <3> QED
        BY <1>1, <1>2, <1>4, <2>1, <2>2, <3>1, <3>3
           DEF IInv, TypeOK, StatusOK, QuietOK, EarlyOK, StoringOK, DataOK, InCall,
               RegistersOK, CommandOK, ReadyOK, GiveOK, Addressed
    <2>3. CASE k = WORDS
      <3> HIDE DEF words
      <3>0. dev' = [dev EXCEPT !.bsy = TRUE, !.drq = FALSE, !.job = "store",
                               !.words = words]
        BY <2>1, <2>3 DEF Begun
      <3>1. /\ dev' \in Device
            /\ dev'.bsy = TRUE /\ dev'.drq = FALSE
            /\ dev'.job = "store" /\ dev'.reg = dev.reg
            /\ dev'.words = words
        BY <1>1, <2>1, <3>0 DEF Device, Jobs
      <3>2. StoringOK'
        <4>1. Addressed(dev'.reg) = request.lba
          BY <1>1, <3>1
        <4> QED  BY <1>1, <1>2, <2>1, <2>3, <3>1, <4>1 DEF StoringOK, Addressed
      <3>3. TypeOK'
        <4>1. k' \in 1 .. WORDS /\ pc' = "idle"
          BY <1>1, <1>2, <2>3
        <4>2. request' = request /\ media' = media /\ buffer' \in Buffer
          BY <1>1, <1>2, <2>1
        <4> QED  BY <1>1, <3>1, <4>1, <4>2 DEF TypeOK, InCall
      <3> QED
        BY <1>2, <2>3, <3>1, <3>2, <3>3
           DEF IInv, StatusOK, QuietOK, EarlyOK, DataOK, InCall,
               RegistersOK, CommandOK, ReadyOK, GiveOK, TakeOK
    <2> QED  BY <1>1, <2>2, <2>3
  <1> QED  BY <1>1, <1>3, <1>4

LEMMA NoWordsType == NoWords \in Seq(Data)
  BY DEF NoWords

\* What the controller has done when it has finished something.
LEMMA Finished ==
    ASSUME dev \in Device, NEW job \in Jobs, NEW words \in Seq(Data),
           dev' = Ready(job, words)
    PROVE  /\ dev' \in Device
           /\ dev'.bsy = FALSE /\ dev'.drq = (job # "none") /\ dev'.job = job
           /\ dev'.words = words /\ dev'.reg = dev.reg
  <1>1. dev' = [dev EXCEPT !.bsy = FALSE, !.drq = (job # "none"), !.job = job,
                           !.words = words]
    BY DEF Ready
  <1>2. (job # "none") \in BOOLEAN
    OBVIOUS
  <1> QED  BY <1>1, <1>2 DEF Device

LEMMA DevStepInv == ASSUME IInv, DevStep PROVE IInv'
  <1>1. /\ dev.bsy = TRUE /\ dev \in Device /\ media \in [Lba -> Sector]
        /\ dev.job \in {"reset", "load", "accept", "store"}
        /\ UNCHANGED <<pc, request, buffer, k>>
    BY DEF DevStep, IInv, StatusOK, TypeOK
  <1>2. NoWords \in Seq(Data)
    BY DEF NoWords
  <1>3. /\ pc \notin {"registers", "transfer"}
        /\ pc = "wait_drq" => k = 1
        /\ pc = "wait_bsy" => k = 1
    BY <1>1 DEF IInv, RegistersOK, GiveOK, TakeOK, StatusOK, ReadyOK, TypeOK, InCall
  <1>4. CASE dev.job = "load"
    <2>1. dev' = Ready("give", media[Addressed(dev.reg)]) /\ media' = media
      BY <1>4 DEF DevStep
    <2>2. /\ pc \in {"wait_bsy", "wait_drq"} /\ request.op = "read"
          /\ Addressed(dev.reg) = request.lba /\ request.lba \in Lba
      BY <1>3, <1>4 DEF IInv, QuietOK, CommandOK, TypeOK, InCall
    <2>3. media[request.lba] \in Seq(Data)
      BY <1>1, <2>2, AtaAssumption DEF Sector
    <2>4. /\ dev' \in Device
          /\ dev'.bsy = FALSE /\ dev'.drq = TRUE /\ dev'.job = "give"
          /\ dev'.words = media[request.lba] /\ dev'.reg = dev.reg
      BY <1>1, <2>1, <2>2, <2>3, Finished DEF Jobs
    <2>5. TypeOK'
      BY <1>1, <2>1, <2>4 DEF IInv, TypeOK, InCall
    <2>6. CommandOK' /\ ReadyOK'
      BY <1>1, <1>3, <2>1, <2>2, <2>4 DEF CommandOK, ReadyOK, Addressed
    <2> QED
      BY <1>1, <2>2, <2>4, <2>5, <2>6 DEF IInv, StatusOK, QuietOK, EarlyOK, StoringOK,
         DataOK, InCall, RegistersOK, GiveOK, TakeOK
  <1>5. CASE dev.job = "accept"
    <2>1. dev' = Ready("take", NoWords) /\ media' = media
      BY <1>5 DEF DevStep
    <2>2. /\ pc \in {"wait_bsy", "wait_drq"} /\ request.op # "read"
          /\ Addressed(dev.reg) = request.lba
      BY <1>3, <1>5 DEF IInv, QuietOK, CommandOK, TypeOK, InCall
    <2>4. /\ dev' \in Device
          /\ dev'.bsy = FALSE /\ dev'.drq = TRUE /\ dev'.job = "take"
          /\ dev'.words = <<>> /\ dev'.reg = dev.reg
      BY <1>1, <1>2, <2>1, Finished DEF Jobs, NoWords
    <2>5. TypeOK'
      BY <1>1, <2>1, <2>4 DEF IInv, TypeOK, InCall
    <2>6. CommandOK' /\ ReadyOK'
      BY <1>1, <1>3, <2>1, <2>2, <2>4 DEF CommandOK, ReadyOK, Addressed
    <2>7. DataOK'
      BY <1>1 DEF IInv, DataOK, InCall
    <2> QED
      BY <1>1, <2>2, <2>4, <2>5, <2>6, <2>7 DEF IInv, StatusOK, QuietOK, EarlyOK, StoringOK,
         RegistersOK, GiveOK, TakeOK
  <1>6. CASE dev.job \in {"reset", "store"}
    <2>1. dev' = Ready("none", NoWords)
      BY <1>6 DEF DevStep
    <2>2. media' \in [Lba -> Sector]
      BY <1>1, <1>6 DEF DevStep, IInv, StoringOK
    <2>3. pc \in {"off", "init", "idle", "wait_idle"}
      BY <1>3, <1>6 DEF IInv, CommandOK, TypeOK
    <2>4. /\ dev' \in Device
          /\ dev'.bsy = FALSE /\ dev'.drq = FALSE /\ dev'.job = "none"
      BY <1>1, <1>2, <2>1, Finished DEF Jobs
    <2>5. TypeOK'
      BY <1>1, <2>2, <2>4 DEF IInv, TypeOK, InCall
    <2>7. DataOK'
      BY <1>1 DEF IInv, DataOK, InCall
    <2> QED
      BY <1>1, <2>3, <2>4, <2>5, <2>7 DEF IInv, StatusOK, QuietOK, EarlyOK, StoringOK,
         RegistersOK, CommandOK, ReadyOK, GiveOK, TakeOK
  <1> QED  BY <1>1, <1>4, <1>5, <1>6

LEMMA NextInv == IInv /\ [Next]_vars => IInv'
  <1> SUFFICES ASSUME IInv, [Next]_vars PROVE IInv'
    OBVIOUS
  <1>1. CASE UNCHANGED vars
    BY <1>1 DEF vars, IInv, TypeOK, StatusOK, QuietOK, EarlyOK, StoringOK, DataOK, InCall,
       RegistersOK, CommandOK, ReadyOK, GiveOK, TakeOK, Shifted
  <1>2. CASE PowerOn  BY <1>2, PowerOnInv
  <1>3. CASE drive_init  BY <1>3, DriveInitInv
  <1>4. CASE \E lba \in Addresses : drive_read_sector(lba)  BY <1>4, ReadCallInv
  <1>5. CASE \E lba \in Addresses, data \in Sector : drive_write_sector(lba, data)
    BY <1>5, WriteCallInv
  <1>6. CASE WaitIdle  BY <1>6, WaitIdleInv
  <1>7. CASE OutRegister  BY <1>7, OutRegisterInv
  <1>8. CASE WaitBsy  BY <1>8, WaitBsyInv
  <1>9. CASE WaitDrq  BY <1>9, WaitDrqInv
  <1>10. CASE Transfer  BY <1>10, TransferInv
  <1>11. CASE DevStep  BY <1>11, DevStepInv
  <1>12. CASE PowerLoss  BY <1>12, PowerLossInv
  <1> QED
    BY <1>1, <1>2, <1>3, <1>4, <1>5, <1>6, <1>7, <1>8, <1>9, <1>10, <1>11, <1>12
       DEF Next, DriverStep

LEMMA SpecInv == Spec => []IInv
  BY InitInv, NextInv, PTL DEF Spec

\* The driver touches the registers and the data port of drive.c only when the
\* controller is listening, and its loop over the words of a sector leaves none
\* behind, whatever the width of a register and the size of a sector.
THEOREM PortsKept == Spec => []PortDiscipline
  <1>1. IInv => PortDiscipline
    <2> SUFFICES ASSUME IInv PROVE PortDiscipline
      OBVIOUS
    <2>1. pc = "registers" => dev.job = "none"
      BY DEF IInv, RegistersOK
    <2>2. pc = "transfer" => request.op \in {"read", "write"}
      BY DEF IInv, TypeOK, InCall
    <2>3. pc = "transfer" /\ request.op = "read" =>
              dev.job = "give" /\ Len(dev.words) = WORDS - k + 1
      BY DEF IInv, GiveOK
    <2>4. pc = "transfer" /\ request.op = "write" =>
              dev.job = "take" /\ Len(dev.words) = k - 1
      BY DEF IInv, TakeOK
    <2> QED
      BY <2>1, <2>2, <2>3, <2>4 DEF PortDiscipline, IInv, StatusOK
  <1> QED  BY <1>1, SpecInv, PTL

-----------------------------------------------------------------------------
(***************************************************************************)
(* The refinement: each step of the driver or the controller is a step of  *)
(* the sector store, or changes nothing of it.                             *)
(***************************************************************************)

callOf ==
    IF ~InCall THEN NoRequest
    ELSE IF request.op = "read" THEN request
    ELSE [op |-> "write", lba |-> request.lba, data |-> buffer]

onItsWayOf ==
    IF dev.job = "store"
       THEN [lba |-> Addressed(dev.reg), data |-> dev.words]
       ELSE NoRequest

answerOf ==
    IF pc = "idle" /\ request # NoRequest /\ request.op = "read"
       THEN buffer ELSE NoRequest

LEMMA InitMaps == Init => Store!StoreInit
  BY DEF Init, Store!StoreInit, InCall, Reset, Sector

\* Where no call begins or ends and no sector is stored, nothing is seen.
LEMMA Unseen ==
    ASSUME callOf' = callOf, onItsWayOf' = onItsWayOf, answerOf' = answerOf,
           media' = media
    PROVE  UNCHANGED Store!storeVars
  BY DEF callOf, onItsWayOf, answerOf, Store!storeVars

LEMMA CallMaps ==
    ASSUME IInv, NEW lba \in Addresses,
           \/ drive_read_sector(lba)
           \/ \E data \in Sector : drive_write_sector(lba, data)
    PROVE  Store!Call
  <1>1. lba \in Lba /\ pc = "idle" /\ pc' = "wait_idle" /\ UNCHANGED <<dev, media>>
    BY AtaAssumption DEF Lba, drive_read_sector, drive_write_sector
  <1>2. callOf = NoRequest /\ onItsWayOf' = onItsWayOf /\ answerOf' = NoRequest
    BY <1>1 DEF callOf, onItsWayOf, answerOf, InCall
  <1>3. callOf' \in Store!ReadCall \cup Store!WriteCall
    <2>1. CASE drive_read_sector(lba)
      <3>1. request' = [op |-> "read", lba |-> lba]
        BY <2>1 DEF drive_read_sector
      <3>2. callOf' = request'
        BY <1>1, <3>1 DEF callOf, InCall
      <3> QED  BY <1>1, <3>1, <3>2 DEF Store!ReadCall
    <2>2. CASE \E data \in Sector : drive_write_sector(lba, data)
      <3>1. PICK data \in Sector : drive_write_sector(lba, data)
        BY <2>2
      <3>2. request' = [op |-> "write", lba |-> lba] /\ buffer' = data
        BY <3>1 DEF drive_write_sector
      <3>3. callOf' = [op |-> "write", lba |-> lba, data |-> data]
        BY <1>1, <3>2 DEF callOf, InCall
      <3> QED  BY <1>1, <3>3 DEF Store!WriteCall
    <2> QED  BY <2>1, <2>2
  <1> QED
    BY <1>1, <1>2, <1>3 DEF Store!Call, callOf, onItsWayOf, answerOf

\* PowerOn, drive_init, the polls and the registers change nothing that a
\* caller sees.
LEMMA QuietMaps ==
    ASSUME IInv, PowerOn \/ drive_init \/ WaitIdle \/ OutRegister \/ WaitBsy \/ WaitDrq
    PROVE  UNCHANGED Store!storeVars
  <1>1. UNCHANGED <<request, buffer, media>>
    BY DEF PowerOn, drive_init, WaitIdle, OutRegister, WaitBsy, WaitDrq
  <1>2. CASE PowerOn \/ drive_init
    <2>1. request = NoRequest
      BY <1>2 DEF IInv, EarlyOK, PowerOn, drive_init
    <2>2. onItsWayOf = NoRequest /\ onItsWayOf' = NoRequest
      <3>1. dev.job # "store"
        BY <1>2 DEF IInv, StoringOK, PowerOn, drive_init
      <3>2. dev' = dev \/ dev' = [dev EXCEPT !.reg["select"] = [lba |-> FALSE, top |-> 0]]
        BY <1>2 DEF PowerOn, drive_init, Outb
      <3>3. dev'.job = dev.job
        BY <3>2 DEF IInv, Device
      <3> QED  BY <3>1, <3>3 DEF onItsWayOf
    <2> QED
      BY <1>1, <1>2, <2>1, <2>2, Unseen
         DEF PowerOn, drive_init, callOf, answerOf, InCall
  <1>3. CASE WaitIdle \/ WaitBsy \/ WaitDrq
    BY <1>1, <1>3, Unseen
       DEF WaitIdle, WaitBsy, WaitDrq, callOf, answerOf, onItsWayOf, InCall
  <1>4. CASE OutRegister
    <2>1. pc = "registers" /\ pc' \in {"registers", "wait_bsy"}
      BY <1>4 DEF OutRegister
    <2>2. dev.job # "store" /\ dev'.job # "store"
      <3>1. dev.job # "store"
        BY <2>1 DEF IInv, StoringOK
      <3>2. IInv'
        BY <1>4, OutRegisterInv
      <3> QED  BY <2>1, <3>1, <3>2 DEF IInv, StoringOK
    <2> QED
      BY <1>1, <2>1, <2>2, Unseen DEF callOf, answerOf, onItsWayOf, InCall
  <1> QED  BY <1>2, <1>3, <1>4

LEMMA TransferMaps ==
    ASSUME IInv, Transfer
    PROVE  [Store!StoreNext]_(Store!storeVars)
  <1>1. /\ pc = "transfer" /\ InCall
        /\ k \in 1 .. WORDS /\ WORDS \in Nat
        /\ request.lba \in Lba /\ request.op \in {"read", "write"}
        /\ request # NoRequest /\ request \in [op : {"read", "write"}, lba : Lba]
        /\ media[request.lba] \in Sector
        /\ dev \in Device /\ dev.job \in {"give", "take"}
        /\ Addressed(dev.reg) = request.lba
        /\ buffer \in Buffer
    BY AtaAssumption
       DEF Transfer, IInv, TypeOK, InCall, CommandOK, StatusOK, GiveOK, TakeOK
  <1>2. /\ UNCHANGED <<request, media>>
        /\ k < WORDS => k' = k + 1 /\ pc' = "transfer"
        /\ k = WORDS => k' = 1 /\ pc' = "idle"
    BY <1>1 DEF Transfer
  <1>3. onItsWayOf = NoRequest /\ answerOf = NoRequest
    BY <1>1 DEF onItsWayOf, answerOf
  <1>4. CASE k < WORDS
    <2>1. IInv'
      BY TransferInv
    <2>2. onItsWayOf' = NoRequest /\ answerOf' = NoRequest
      BY <1>2, <1>4, <2>1 DEF IInv, StoringOK, onItsWayOf, answerOf
    <2>3. callOf' = callOf
      BY <1>1, <1>2, <1>4, WriteWord DEF callOf, InCall
    <2> QED
      BY <1>2, <1>3, <2>2, <2>3, Unseen
  <1>5. CASE k = WORDS /\ request.op = "read"
    <2>1. callOf = request /\ request \in Store!ReadCall /\ callOf' = NoRequest
      BY <1>1, <1>2, <1>5 DEF callOf, InCall, Store!ReadCall
    <2>2. buffer' = media[request.lba]
      <3>1. /\ InwValue = media[request.lba][k] /\ InwValue \in Data
            /\ buffer' = [buffer EXCEPT ![k] = InwValue]
        BY <1>5, ReadWord
      <3>2. \A i \in 1 .. k - 1 : buffer[i] = media[request.lba][i]
        BY <1>1, <1>5 DEF IInv, GiveOK
      <3>3. \A i \in 1 .. WORDS : buffer'[i] = media[request.lba][i]
        BY <1>1, <1>5, <3>1, <3>2 DEF Buffer
      <3>4. buffer' \in [1 .. WORDS -> Data \cup {Junk}]
        BY <1>1, <3>1 DEF Buffer
      <3>5. buffer' \in Sector
        <4>1. \A i \in 1 .. WORDS : buffer'[i] \in Data
          BY <1>1, <3>3 DEF Sector
        <4> QED  BY <3>4, <4>1 DEF Sector
      <3> QED  BY <1>1, <3>3, <3>5, SameSector
    <2>3. answerOf' = media[request.lba]
      BY <1>1, <1>2, <1>5, <2>2 DEF answerOf
    <2>4. onItsWayOf' = NoRequest
      <3>1. dev' = Ready("none", NoWords)
        BY <1>5, ReadWord
      <3>2. dev'.job = "none"
        BY <1>1, <3>1, Finished, NoWordsType DEF Jobs
      <3> QED  BY <3>2 DEF onItsWayOf
    <2>5. Store!ReturnRead
      BY <1>2, <1>3, <2>1, <2>3, <2>4
         DEF Store!ReturnRead, callOf, onItsWayOf, answerOf
    <2> QED  BY <2>5 DEF Store!StoreNext
  <1>6. CASE k = WORDS /\ request.op = "write"
    <2>1. /\ buffer' = buffer /\ buffer \in Sector
          /\ dev' = [Begun("store") EXCEPT !.words = Append(dev.words, buffer[k])]
          /\ Append(dev.words, buffer[k]) = buffer
      BY <1>6, WriteWord
    <2>2. dev' = [dev EXCEPT !.bsy = TRUE, !.drq = FALSE, !.job = "store",
                             !.words = buffer]
      BY <2>1 DEF Begun
    <2>3. dev'.job = "store" /\ dev'.words = buffer /\ dev'.reg = dev.reg
      BY <1>1, <2>2 DEF Device
    <2>4. Addressed(dev'.reg) = request.lba
      BY <1>1, <2>3
    <2>5. onItsWayOf' = [lba |-> request.lba, data |-> buffer]
      BY <2>3, <2>4 DEF onItsWayOf, Addressed
    <2>6. /\ callOf = [op |-> "write", lba |-> request.lba, data |-> buffer]
          /\ callOf \in Store!WriteCall /\ callOf' = NoRequest
          /\ answerOf' = answerOf
      BY <1>1, <1>2, <1>3, <1>6, <2>1 DEF callOf, InCall, answerOf, Store!WriteCall
    <2>7. Store!ReturnWrite
      BY <1>2, <1>3, <2>5, <2>6
         DEF Store!ReturnWrite, callOf, onItsWayOf, answerOf
    <2> QED  BY <2>7 DEF Store!StoreNext
  <1> QED  BY <1>1, <1>4, <1>5, <1>6

LEMMA DevStepMaps ==
    ASSUME IInv, DevStep
    PROVE  [Store!StoreNext]_(Store!storeVars)
  <1>1. /\ dev \in Device /\ UNCHANGED <<pc, request, buffer, k>>
        /\ dev.job \in {"reset", "load", "accept", "store"}
    BY DEF DevStep, IInv, StatusOK, TypeOK
  <1>2. callOf' = callOf /\ answerOf' = answerOf
    BY <1>1 DEF callOf, answerOf, InCall
  <1>3. CASE dev.job = "store"
    <2>1. /\ media' = [media EXCEPT ![Addressed(dev.reg)] = dev.words]
          /\ dev' = Ready("none", NoWords)
      BY <1>3 DEF DevStep
    <2>2. dev'.job = "none"
      BY <1>1, <2>1, Finished, NoWordsType DEF Jobs
    <2>3. onItsWayOf' = NoRequest
      BY <2>2 DEF onItsWayOf
    <2>4. onItsWayOf = [lba |-> Addressed(dev.reg), data |-> dev.words]
      BY <1>3 DEF onItsWayOf
    <2>5. onItsWayOf # NoRequest
      <3>1. Addressed(dev.reg) \in Nat /\ dev.words \in [1 .. WORDS -> Data]
        BY <1>3, AtaAssumption DEF IInv, StoringOK, Lba, Sector
      <3> QED  BY <2>4, <3>1, AtaAssumption
    <2>6. Store!Arrive
      BY <1>2, <2>1, <2>3, <2>4, <2>5
         DEF Store!Arrive, callOf, onItsWayOf, answerOf
    <2> QED  BY <2>6 DEF Store!StoreNext
  <1>4. CASE dev.job # "store"
    <2>1. media' = media
      BY <1>1, <1>4 DEF DevStep
    <2>2. dev'.job # "store"
      <3>1. IInv' /\ dev'.bsy = FALSE
        BY <1>1, <1>4, DevStepInv DEF DevStep, Ready, Device
      <3> QED  BY <3>1 DEF IInv, StatusOK
    <2>3. onItsWayOf' = onItsWayOf
      BY <1>4, <2>2 DEF onItsWayOf
    <2> QED  BY <1>2, <2>1, <2>3, Unseen
  <1> QED  BY <1>3, <1>4

LEMMA PowerLossMaps == ASSUME PowerLoss PROVE Store!LosePower
  BY DEF PowerLoss, Store!LosePower, InCall, Reset

LEMMA NextMaps ==
    ASSUME IInv, [Next]_vars
    PROVE  [Store!StoreNext]_(Store!storeVars)
  <1>1. CASE UNCHANGED vars
    BY <1>1, Unseen DEF vars, callOf, onItsWayOf, answerOf, InCall
  <1>2. CASE \E lba \in Addresses : drive_read_sector(lba)
    BY <1>2, CallMaps DEF Store!StoreNext
  <1>3. CASE \E lba \in Addresses, data \in Sector : drive_write_sector(lba, data)
    BY <1>3, CallMaps DEF Store!StoreNext
  <1>4. CASE PowerLoss
    BY <1>4, PowerLossMaps DEF Store!StoreNext
  <1> QED
    BY <1>1, <1>2, <1>3, <1>4, QuietMaps, TransferMaps, DevStepMaps
       DEF Next, DriverStep

\* The polling driver of drive.c and its controller implement the sector
\* store: what the file system may rely on holds for every register width,
\* every sector size and every way the controller and the power behave.
THEOREM DriverIsSectorStore == Spec => ImplementsSectorStore
  <1>1. Init => Store!StoreInit
    BY InitMaps
  <1>2. IInv /\ [Next]_vars => [Store!StoreNext]_(Store!storeVars)
    BY NextMaps
  <1> QED
    BY <1>1, <1>2, SpecInv, PTL DEF Spec, ImplementsSectorStore, Store!StoreSpec
=============================================================================
