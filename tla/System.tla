------------------------------- MODULE System -------------------------------
(***************************************************************************)
(* system/system.c on the machine that it drives: the tick count and       *)
(* system_wait, system_reboot against the keyboard controller, and         *)
(* system_shutdown against a hypervisor or against the tables of the       *)
(* firmware, which are read through the pages of module Paging.            *)
(*                                                                         *)
(* The kernel does one thing at a time; the timer, the controller and the  *)
(* processor's cache of translations go on by themselves.                  *)
(***************************************************************************)
EXTENDS Paging, Sequences

CONSTANTS
    TickWord,       \* 2^32, where timer_ticks wraps
    Ms,             \* the waits asked for, int
    SHUTDOWN_PORTS, \* the port and value of each hypervisor, in order
    Machine,        \* the machines the kernel may find itself on
    PackageOp       \* 0x12 of the firmware's byte code

ASSUME SystemAssumption ==
    /\ TickWord \in Nat \ {0}
    /\ Ms \subseteq Int
    /\ \A m \in Machine : m.hypervisor \in BOOLEAN

VARIABLES
    pc,           \* what the kernel is doing
    timer_ticks,
    wait,         \* the wait that is on
    ticks,        \* since the last step of the wait's loop, one at most
    controller,   \* the two buffers of the keyboard controller
    inputFull,    \* the bit of the status that the reboot read last
    machine, power

vars == <<pagingVars, pc, timer_ticks, wait, ticks, controller, inputFull,
          machine, power>>

Waiting == pc \in {"compare", "hlt", "asleep"}
Rebooting == pc \in {"status", "data", "command"}
Stopped == pc \in {"halted", "panic"} \/ power # "on"

Tick == 0 .. TickWord - 1

NoWait == [ms |-> 0, start |-> 0, target |-> 0, elapsed |-> 0]
Idle == [input |-> "empty", output |-> FALSE]

TypeOK ==
    /\ PagingTypeOK
    /\ pc \in {"boot", "kernel", "compare", "hlt", "asleep", "status", "data",
               "command", "shutdown", "halted", "panic"}
    /\ timer_ticks \in Tick
    /\ wait \in [ms : Ms \cup {0}, start : Tick, target : Tick,
                 elapsed : 0 .. TickWord]
    /\ ticks \in {0, 1}
    /\ controller \in [input : {"empty", "old", "reset"}, output : BOOLEAN]
    /\ inputFull \in BOOLEAN
    /\ machine \in Machine \cup {None}
    /\ power \in {"on", "off", "sleep", "reset"}

\* Interrupts are on before system_init_timer is called.
Init ==
    /\ PagingInit
    /\ pc = "boot"
    /\ timer_ticks = 0
    /\ wait = NoWait
    /\ ticks = 0
    /\ controller = Idle
    /\ inputFull = FALSE
    /\ machine = None
    /\ power = "on"

-----------------------------------------------------------------------------
\* The tick count and system_wait

system_init_timer ==
    /\ pc = "boot"
    /\ pc' = "kernel"
    /\ timer_ticks' = 0
    /\ UNCHANGED <<pagingVars, wait, ticks, controller, inputFull, machine, power>>

\* The timer's interrupt.  It ends a hlt.  While the loop of a wait is awake at
\* most one comes between two of its steps; how long a wait has gone on is
\* counted up to TickWord.
timer_handler ==
    /\ ~Stopped /\ ticks = 0
    /\ timer_ticks' = (timer_ticks + 1) % TickWord
    /\ pc' = IF pc = "asleep" THEN "compare" ELSE pc
    /\ ticks' = IF pc \in {"compare", "hlt"} THEN 1 ELSE 0
    /\ wait' = IF Waiting /\ wait.elapsed < TickWord
                  THEN [wait EXCEPT !.elapsed = @ + 1] ELSE wait
    /\ UNCHANGED <<pagingVars, controller, inputFull, machine, power>>

Target(ms) == (timer_ticks + ms) % TickWord

system_wait(ms) ==
    /\ pc = "kernel" /\ flushing = None
    /\ pc' = "compare"
    /\ wait' = [ms |-> ms, start |-> timer_ticks, target |-> Target(ms), elapsed |-> 0]
    /\ UNCHANGED <<pagingVars, timer_ticks, ticks, controller, inputFull,
                   machine, power>>

\* Mutant: the loop ends only when the count is the target.
Arrived_Equal == timer_ticks = wait.target

Arrived == timer_ticks >= wait.target

\* The condition of the loop.
Compare ==
    /\ pc = "compare"
    /\ pc' = IF Arrived THEN "kernel" ELSE "hlt"
    /\ wait' = IF Arrived THEN NoWait ELSE wait
    /\ ticks' = 0
    /\ UNCHANGED <<pagingVars, timer_ticks, controller, inputFull, machine, power>>

\* Its body: an interrupt that comes before the hlt does not end it.
Hlt ==
    /\ pc = "hlt"
    /\ pc' = "asleep"
    /\ ticks' = 0
    /\ UNCHANGED <<pagingVars, timer_ticks, wait, controller, inputFull,
                   machine, power>>

-----------------------------------------------------------------------------
\* system_reboot and the keyboard controller

\* The controller may still be busy with what the firmware asked of it.
system_reboot ==
    /\ pc = "kernel" /\ flushing = None
    /\ pc' = "status"
    /\ controller' \in [input : {"empty", "old"}, output : BOOLEAN]
    /\ UNCHANGED <<pagingVars, timer_ticks, wait, ticks, inputFull, machine, power>>

\* Mutant: the data register is not read.
AfterStatus_NoDrain ==
    IF controller.input # "empty" THEN "status" ELSE "command"

\* Mutant: the loop goes on while there is something to read.
AfterStatus_WaitsForOutput ==
    IF controller.output THEN "data" ELSE "command"

AfterStatus ==
    IF controller.output THEN "data"
    ELSE IF controller.input # "empty" THEN "status" ELSE "command"

ReadStatus ==
    /\ pc = "status"
    /\ inputFull' = (controller.input # "empty")
    /\ pc' = AfterStatus
    /\ UNCHANGED <<pagingVars, timer_ticks, wait, ticks, controller, machine, power>>

ReadData ==
    /\ pc = "data"
    /\ controller' = [controller EXCEPT !.output = FALSE]
    /\ pc' = IF inputFull THEN "status" ELSE "command"
    /\ UNCHANGED <<pagingVars, timer_ticks, wait, ticks, inputFull, machine, power>>

\* The reset command, lost if the input buffer is full, and system_halt.
WriteReset ==
    /\ pc = "command"
    /\ controller' = [controller EXCEPT
                         !.input = IF @ = "empty" THEN "reset" ELSE @]
    /\ pc' = "halted"
    /\ UNCHANGED <<pagingVars, timer_ticks, wait, ticks, inputFull, machine, power>>

\* The controller takes a byte; it may have to answer, for which the output
\* buffer must be free.
ControllerTakes ==
    /\ power = "on"
    /\ \/ /\ controller.input = "old" /\ ~controller.output
          /\ controller' \in [input : {"empty"}, output : BOOLEAN]
          /\ UNCHANGED power
       \/ /\ controller.input = "reset"
          /\ power' = "reset"
          /\ UNCHANGED controller
    /\ UNCHANGED <<pagingVars, pc, timer_ticks, wait, ticks, inputFull, machine>>

KeyPressed ==
    /\ Rebooting /\ ~controller.output
    /\ controller' = [controller EXCEPT !.output = TRUE]
    /\ UNCHANGED <<pagingVars, pc, timer_ticks, wait, ticks, inputFull, machine,
                   power>>

-----------------------------------------------------------------------------
\* system_shutdown

\* The tables that the RSDT lists: the first that is the FADT or that lies on
\* a page that is not mapped ends the search.
EndsSearch(m, k) == m.tables[k].page \notin Mapped \/ m.tables[k].fadt

acpi_get_fadt(m) ==
    IF ~m.rsdp THEN "NULL"
    ELSE IF m.rsdt \notin Mapped THEN "fault"
    ELSE LET ends == {k \in DOMAIN m.tables : EndsSearch(m, k)} IN
         IF ends = {} THEN "NULL"
         ELSE LET k == CHOOSE k \in ends : \A j \in ends : k <= j IN
              IF m.tables[k].page \in Mapped THEN "found" ELSE "fault"

\* The characters "_S5_".
S5 == <<95, 83, 53, 95>>

\* Byte i of the DSDT, and what follows it.
Dsdt(m, i) == IF i < Len(m.aml) THEN m.aml[i + 1] ELSE 0

\* Mutant: any place with the name is taken for the object.
IsS5Object_NameOnly(m, i) == [k \in 1 .. 4 |-> Dsdt(m, i + k - 1)] = S5

IsS5Object(m, i) ==
    /\ [k \in 1 .. 4 |-> Dsdt(m, i + k - 1)] = S5
    /\ PackageOp \in {Dsdt(m, i + 4), Dsdt(m, i + 5)}

\* The search is as long as the FADT less 4, not as the DSDT.  That length is
\* unsigned: from a FADT of less than 4 bytes it wraps, and the search goes on
\* until it finds an object or a page that is not mapped.
Wraps(m) == m.fadtLength < 4

Searched(m) == 0 .. (IF Wraps(m) THEN Len(m.aml) ELSE m.fadtLength - 4) - 1

S5Objects(m) == {i \in Searched(m) : IsS5Object(m, i)}

acpi_get_s5_sleep_type(m) ==
    LET found == S5Objects(m) IN
    IF found = {} THEN 0
    ELSE Dsdt(m, (CHOOSE i \in found : \A j \in found : i <= j) + 5)

\* The register has three bits for the kind of sleep.
Sleep(m, slp_typa) ==
    IF slp_typa % 8 = m.s5 THEN "off"
    ELSE IF slp_typa % 8 \in m.otherSleeps THEN "sleep" ELSE "on"

system_shutdown ==
    /\ pc = "kernel" /\ flushing = None
    /\ machine' \in Machine
    /\ pc' = "shutdown"
    /\ UNCHANGED <<pagingVars, timer_ticks, wait, ticks, controller, inputFull,
                   power>>

\* Mutant: only the first port is written.
Outw_First ==
    /\ pc = "shutdown" /\ power = "on" /\ machine.hypervisor
    /\ power' = IF machine.port = Head(SHUTDOWN_PORTS) THEN "off" ELSE "on"
    /\ pc' = "halted"
    /\ UNCHANGED <<pagingVars, timer_ticks, wait, ticks, controller, inputFull,
                   machine>>

\* The ports of the hypervisors, one after the other; then system_halt.
Outw ==
    /\ pc = "shutdown" /\ power = "on" /\ machine.hypervisor
    /\ power' = IF \E k \in DOMAIN SHUTDOWN_PORTS : machine.port = SHUTDOWN_PORTS[k]
                   THEN "off" ELSE "on"
    /\ pc' = "halted"
    /\ UNCHANGED <<pagingVars, timer_ticks, wait, ticks, controller, inputFull,
                   machine>>

\* The way over the firmware's tables: the kernel stops in a page fault, halts
\* with a message, or writes PM1a_CNT and halts.
AcpiShutdown ==
    /\ pc = "shutdown" /\ power = "on" /\ ~machine.hypervisor
    /\ LET fadt == acpi_get_fadt(machine)
           slp_typa == acpi_get_s5_sleep_type(machine) IN
       IF \/ fadt = "fault"
          \/ /\ fadt = "found"
             /\ \/ machine.dsdt \notin Mapped
                \/ Wraps(machine) /\ S5Objects(machine) = {}
       THEN pc' = "panic" /\ UNCHANGED power
       ELSE /\ pc' = "halted"
            /\ power' = IF fadt = "NULL" \/ machine.pm1a_cnt = 0 \/ slp_typa = 0
                           THEN "on" ELSE Sleep(machine, slp_typa)
    /\ UNCHANGED <<pagingVars, timer_ticks, wait, ticks, controller, inputFull,
                   machine>>

-----------------------------------------------------------------------------
Call ==
    \/ \E ms \in Ms : system_wait(ms)
    \/ system_reboot
    \/ system_shutdown
    \/ /\ pc = "kernel"
       /\ \E v \in Virt, f \in Phys, flags \in Flags : paging_map_page(v, f, flags)
       /\ UNCHANGED <<pc, timer_ticks, wait, ticks, controller, inputFull,
                      machine, power>>

\* The processor's own doings; nothing but paging_map_page depends on them.
Processor ==
    /\ pc = "kernel"
    /\ \/ \E v \in Mapped : Fill(v) \/ Evict(v)
       \/ Invlpg
    /\ UNCHANGED <<pc, timer_ticks, wait, ticks, controller, inputFull, machine,
                   power>>

Next ==
    \/ system_init_timer \/ timer_handler
    \/ Call \/ Processor
    \/ Compare \/ Hlt
    \/ ReadStatus \/ ReadData \/ WriteReset \/ ControllerTakes \/ KeyPressed
    \/ Outw \/ AcpiShutdown

Spec == Init /\ [][Next]_vars

\* The kernel executes, the timer ticks, and the controller takes what it was
\* sent although keys go on being pressed.
Fairness ==
    /\ WF_vars(timer_handler) /\ WF_vars(Compare) /\ WF_vars(Hlt)
    /\ WF_vars(ReadStatus) /\ WF_vars(ReadData) /\ WF_vars(WriteReset)
    /\ SF_vars(ControllerTakes)
    /\ WF_vars(Outw) /\ WF_vars(AcpiShutdown)

FairSpec == Spec /\ Fairness

-----------------------------------------------------------------------------
\* A wait whose end lies before the count wraps, with room for the ticks that
\* may come between two comparisons.
Regular == wait.ms >= 0 /\ wait.start + wait.ms <= TickWord - 3

\* system_wait waits as long as asked: such a wait returns after at least ms
\* ticks, and never later than two ticks after that, one that came before its
\* hlt and one before its comparison.
WaitsAsAsked ==
    [][Waiting /\ Regular =>
          /\ wait'.elapsed <= wait.ms + 2
          /\ pc' = "kernel" => wait.elapsed >= wait.ms]_vars

\* Every wait ends whose end is not among the last two counts, also one whose
\* end lies past the wrap or before the call.  One that waits for the last
\* count misses it if the tick comes between the comparison and the hlt, and
\* then waits for all of the next round, or for ever.
WaitReturns ==
    (Waiting /\ wait.target <= TickWord - 3) ~> pc = "kernel"

\* A reboot reboots: the loop ends, also when the controller cannot take its
\* byte before it is rid of an answer, and the command finds room.
RebootResets == Rebooting ~> power = "reset"

\* What the kernel needs to find to switch the machine off: a hypervisor it
\* knows, or tables it can reach, whose FADT is at least as long as the way to
\* the object of state S5, or so short that the length of the search wraps, and
\* in that object a length that is the number of the state, for it is the
\* length that the kernel takes.
CanPowerOff(m) ==
    IF m.hypervisor THEN \E k \in DOMAIN SHUTDOWN_PORTS : SHUTDOWN_PORTS[k] = m.port
    ELSE /\ m.rsdp /\ m.pm1a_cnt # 0
         /\ {m.rsdt, m.dsdt} \subseteq Mapped
         /\ \E k \in DOMAIN m.tables :
               m.tables[k].fadt /\ \A j \in 1 .. k : m.tables[j].page \in Mapped
         /\ m.s5At + 5 <= m.fadtLength \/ m.fadtLength < 4
         /\ m.s5Length % 8 = m.s5

\* system_shutdown switches such a machine off, and stops on every other.
ShutdownStops ==
    /\ (pc = "shutdown" /\ CanPowerOff(machine)) ~> power = "off"
    /\ pc = "shutdown" ~> Stopped
=============================================================================
