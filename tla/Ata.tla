--------------------------------- MODULE Ata --------------------------------
(***************************************************************************)
(* The polling driver of drivers/drive/drive.c and the disk controller it  *)
(* talks to through the ports of drive.h.  The driver's steps are its port *)
(* accesses; the controller works on its own between them, and the power   *)
(* can go at any step.                                                     *)
(*                                                                         *)
(* The controller is external: an ATA disk in PIO mode that raises BSY in  *)
(* the very access that gives it work, drops register writes while BSY is  *)
(* up, and has no errors to report.  The driver always asks for 1 sector,  *)
(* so the sector count has no further effect here.                         *)
(***************************************************************************)
EXTENDS Naturals, Sequences

CONSTANTS
    Base,     \* values of an address register; 256, or 16 for the top one
    WORDS,    \* words of a sector, 256
    Data,     \* values of a word
    Junk,     \* what the data port gives when the drive has nothing to give
    Addresses, \* sectors the callers use
    NoRequest \* no call since the power came on

ASSUME AtaAssumption ==
    /\ Base \in Nat \ {0}
    /\ WORDS \in Nat \ {0}
    /\ Addresses \subseteq 0 .. Base * Base * Base * Base - 1
    /\ Junk \notin Data
    /\ NoRequest \notin [op : {"read", "write"}, lba : Nat]
    /\ NoRequest \notin [lba : Nat, data : [1 .. WORDS -> Data]]

Lba == 0 .. Base * Base * Base * Base - 1
Sector == [1 .. WORDS -> Data]
Buffer == [1 .. WORDS -> Data \cup {Junk}]

\* The registers in the order in which a call writes them.
Registers == <<"select", "count", "low", "mid", "high", "command">>

VARIABLES
    pc,       \* "off", "init", "idle", or the place in the call in progress
    request,  \* the call: its operation and sector
    buffer,   \* the caller's buffer
    k,        \* the register or word that is next
    dev,      \* the controller: BSY, DRQ, its job, its registers, its words
    media     \* the sectors of the disk

vars == <<pc, request, buffer, k, dev, media>>

InCall == pc \notin {"off", "init", "idle"}

TypeOK ==
    /\ pc \in {"off", "init", "idle", "wait_idle", "registers", "wait_bsy",
               "wait_drq", "transfer"}
    /\ request \in [op : {"read", "write"}, lba : Lba] \cup {NoRequest}
    /\ InCall => request # NoRequest
    /\ buffer \in Buffer
    /\ k \in 1 .. (IF pc = "registers" THEN Len(Registers) ELSE WORDS)
    /\ dev.bsy \in BOOLEAN /\ dev.drq \in BOOLEAN
    /\ dev.job \in {"none", "reset", "load", "give", "accept", "take", "store"}
    /\ media \in [Lba -> Sector]

-----------------------------------------------------------------------------
(***************************************************************************)
(* The controller.                                                         *)
(***************************************************************************)

NoWords == <<>>

Reset ==
    [bsy |-> TRUE, drq |-> FALSE, job |-> "reset", words |-> NoWords,
     reg |-> [select |-> [lba |-> FALSE, top |-> 0], count |-> 0,
              low |-> 0, mid |-> 0, high |-> 0]]

Addressed(reg) ==
    reg.low + Base * (reg.mid + Base * (reg.high + Base * reg.select.top))

Begun(job) == [dev EXCEPT !.bsy = TRUE, !.drq = FALSE, !.job = job]
Ready(job, words) ==
    [dev EXCEPT !.bsy = FALSE, !.drq = (job # "none"), !.job = job,
                !.words = words]

\* The controller finishes what it was busy with.
DevStep ==
    /\ dev.bsy
    /\ CASE dev.job = "load" ->
                /\ dev' = Ready("give", media[Addressed(dev.reg)])
                /\ UNCHANGED media
         [] dev.job = "accept" ->
                /\ dev' = Ready("take", NoWords)
                /\ UNCHANGED media
         [] dev.job = "store" ->
                /\ media' = [media EXCEPT ![Addressed(dev.reg)] = dev.words]
                /\ dev' = Ready("none", NoWords)
         [] OTHER ->
                /\ dev' = Ready("none", NoWords)
                /\ UNCHANGED media
    /\ UNCHANGED <<pc, request, buffer, k>>

\* outb to a register: ignored while the controller is busy.
Outb(register, value) ==
    IF dev.bsy THEN UNCHANGED dev
    ELSE IF register # "command" THEN dev' = [dev EXCEPT !.reg[register] = value]
    ELSE IF ~dev.reg.select.lba THEN UNCHANGED dev
    ELSE dev' = Begun(IF value = "read" THEN "load" ELSE "accept")

\* inw of the data port: its value, and the controller after it.
InwValue == IF dev.job = "give" /\ dev.words # <<>> THEN Head(dev.words) ELSE Junk
Inw ==
    IF dev.job # "give" THEN UNCHANGED dev
    ELSE IF Len(dev.words) = 1 THEN dev' = Ready("none", NoWords)
    ELSE dev' = [dev EXCEPT !.words = Tail(@)]

\* outw to the data port: after the last word the controller stores the sector.
Outw(word) ==
    LET words == Append(dev.words, word) IN
    IF dev.job # "take" THEN UNCHANGED dev
    ELSE IF Len(words) < WORDS THEN dev' = [dev EXCEPT !.words = words]
    ELSE dev' = [Begun("store") EXCEPT !.words = words]

-----------------------------------------------------------------------------
(***************************************************************************)
(* The driver.                                                             *)
(***************************************************************************)

Init ==
    /\ pc = "off"
    /\ request = NoRequest
    /\ buffer = [w \in 1 .. WORDS |-> Junk]
    /\ k = 1
    /\ dev = Reset
    /\ \E d \in Data : media = [l \in Lba |-> [w \in 1 .. WORDS |-> d]]

PowerOn ==
    /\ pc = "off"
    /\ pc' = "init"
    /\ UNCHANGED <<request, buffer, k, dev, media>>

\* drive_init selects the master without waiting for it.
drive_init ==
    /\ pc = "init"
    /\ Outb("select", [lba |-> FALSE, top |-> 0])
    /\ pc' = "idle"
    /\ UNCHANGED <<request, buffer, k, media>>

drive_read_sector(lba) ==
    /\ pc = "idle"
    /\ pc' = "wait_idle"
    /\ request' = [op |-> "read", lba |-> lba]
    /\ UNCHANGED <<buffer, k, dev, media>>

drive_write_sector(lba, data) ==
    /\ pc = "idle"
    /\ pc' = "wait_idle"
    /\ request' = [op |-> "write", lba |-> lba]
    /\ buffer' = data
    /\ UNCHANGED <<k, dev, media>>

\* The first ata_wait_bsy of a call.
WaitIdle ==
    /\ pc = "wait_idle"
    /\ ~dev.bsy
    /\ pc' = "registers"
    /\ k' = 1
    /\ UNCHANGED <<request, buffer, dev, media>>

Shifted(unit) == (request.lba \div unit) % Base

\* Mutant: the address goes out with its middle and high bytes swapped.
Value_Swapped(register) ==
    CASE register = "select" -> [lba |-> TRUE, top |-> Shifted(Base * Base * Base)]
      [] register = "count" -> 1
      [] register = "low" -> Shifted(1)
      [] register = "mid" -> Shifted(Base * Base)
      [] register = "high" -> Shifted(Base)
      [] register = "command" -> request.op

\* Mutant: the call selects the drive as drive_init does, not for LBA.
Value_NoLbaMode(register) ==
    CASE register = "select" -> [lba |-> FALSE, top |-> Shifted(Base * Base * Base)]
      [] register = "count" -> 1
      [] register = "low" -> Shifted(1)
      [] register = "mid" -> Shifted(Base)
      [] register = "high" -> Shifted(Base * Base)
      [] register = "command" -> request.op

Value(register) ==
    CASE register = "select" -> [lba |-> TRUE, top |-> Shifted(Base * Base * Base)]
      [] register = "count" -> 1
      [] register = "low" -> Shifted(1)
      [] register = "mid" -> Shifted(Base)
      [] register = "high" -> Shifted(Base * Base)
      [] register = "command" -> request.op

\* Mutant: the loop over the words starts where the registers ended.
OutRegister_NoReset ==
    /\ pc = "registers"
    /\ Outb(Registers[k], Value(Registers[k]))
    /\ IF k < Len(Registers)
          THEN k' = k + 1 /\ UNCHANGED pc
          ELSE pc' = "wait_bsy" /\ UNCHANGED k
    /\ UNCHANGED <<request, buffer, media>>

\* One of the six outb of a call.
OutRegister ==
    /\ pc = "registers"
    /\ Outb(Registers[k], Value(Registers[k]))
    /\ IF k < Len(Registers)
          THEN k' = k + 1 /\ UNCHANGED pc
          ELSE k' = 1 /\ pc' = "wait_bsy"
    /\ UNCHANGED <<request, buffer, media>>

\* Mutant: the data is moved without waiting for the controller.
WaitBsy_NoWait ==
    /\ pc = "wait_bsy"
    /\ pc' = "transfer"
    /\ UNCHANGED <<request, buffer, k, dev, media>>

\* The second ata_wait_bsy of a call.
WaitBsy ==
    /\ pc = "wait_bsy"
    /\ ~dev.bsy
    /\ pc' = "wait_drq"
    /\ UNCHANGED <<request, buffer, k, dev, media>>

WaitDrq ==
    /\ pc = "wait_drq"
    /\ dev.drq
    /\ pc' = "transfer"
    /\ UNCHANGED <<request, buffer, k, dev, media>>

\* Mutant: the last word of the sector is not moved.
Transfer_OneShort ==
    /\ pc = "transfer"
    /\ IF request.op = "read"
          THEN Inw /\ buffer' = [buffer EXCEPT ![k] = InwValue]
          ELSE Outw(buffer[k]) /\ UNCHANGED buffer
    /\ IF k < WORDS - 1
          THEN k' = k + 1 /\ UNCHANGED pc
          ELSE k' = 1 /\ pc' = "idle"
    /\ UNCHANGED <<request, media>>

\* One inw or outw; the call returns after the last, without a final wait.
Transfer ==
    /\ pc = "transfer"
    /\ IF request.op = "read"
          THEN Inw /\ buffer' = [buffer EXCEPT ![k] = InwValue]
          ELSE Outw(buffer[k]) /\ UNCHANGED buffer
    /\ IF k < WORDS
          THEN k' = k + 1 /\ UNCHANGED pc
          ELSE k' = 1 /\ pc' = "idle"
    /\ UNCHANGED <<request, media>>

PowerLoss ==
    /\ pc # "off"
    /\ pc' = "off"
    /\ request' = NoRequest
    /\ buffer' = [w \in 1 .. WORDS |-> Junk]
    /\ k' = 1
    /\ dev' = Reset
    /\ UNCHANGED media

DriverStep == WaitIdle \/ OutRegister \/ WaitBsy \/ WaitDrq \/ Transfer

Next ==
    \/ PowerOn
    \/ drive_init
    \/ \E lba \in Addresses : drive_read_sector(lba)
    \/ \E lba \in Addresses, data \in Sector : drive_write_sector(lba, data)
    \/ DriverStep
    \/ DevStep
    \/ PowerLoss

Spec == Init /\ [][Next]_vars

\* The processor runs the driver's loops, and the controller gets done.
Fairness == WF_vars(DriverStep) /\ WF_vars(DevStep)

FairSpec == Spec /\ Fairness

-----------------------------------------------------------------------------
\* The registers are written, and the data port is used, only when the
\* controller is listening: no poll of the status register comes too early
\* and none is missing, also right after a write that is still being stored.
\* Within a transfer the controller has exactly the words left to give that the
\* loop has left to take, and the other way round: the 256 iterations leave no
\* word behind.
PortDiscipline ==
    /\ pc = "registers" => ~dev.bsy /\ ~dev.drq
    /\ pc = "transfer" =>
          dev.drq /\ dev.job = (IF request.op = "read" THEN "give" ELSE "take")
    /\ pc = "transfer" =>
          Len(dev.words) = IF request.op = "read" THEN WORDS - k + 1 ELSE k - 1

\* A call returns, unless the power goes: the two polling loops are left.
CallReturns == InCall ~> ~InCall

\* The drive as its caller sees it.
Store ==
    INSTANCE SectorStore WITH
        None <- NoRequest,
        sectors <- media,
        call <- IF ~InCall THEN NoRequest
                ELSE IF request.op = "read" THEN request
                ELSE [op |-> "write", lba |-> request.lba, data |-> buffer],
        onItsWay <- IF dev.job = "store"
                       THEN [lba |-> Addressed(dev.reg), data |-> dev.words]
                       ELSE NoRequest,
        answer <- IF pc = "idle" /\ request # NoRequest /\ request.op = "read"
                     THEN buffer ELSE NoRequest

\* A read gives the sector last written to its address, writes reach the
\* disk in the order of the calls, and a power loss costs at most the write
\* that returned last.
ImplementsSectorStore == Store!StoreSpec
=============================================================================
