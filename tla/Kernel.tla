-------------------------------- MODULE Kernel ------------------------------
(***************************************************************************)
(* The processor as the kernel uses it: the boot's order of tables and     *)
(* sti (interrupts/idt.c, kernel/main.c), the stubs of interrupts/isr.asm  *)
(* with the words they push and pop, the common C handler, the system      *)
(* calls, the timer, the start of a program (system/process.c) and the     *)
(* two places where the kernel stops for good.                             *)
(*                                                                         *)
(* A processor that may take an interrupt takes it before its next         *)
(* instruction.  All gates are interrupt gates, so handlers run with       *)
(* interrupts off, and only a non-maskable interrupt can break into them.  *)
(* Non-maskable interrupts during the boot are left out: before lidt no    *)
(* kernel could take one.                                                  *)
(***************************************************************************)
EXTENDS Integers, Sequences

CONSTANTS
    Regs,     \* register files of the program: eax, ebx, ecx, edx
    Buf,      \* what ecx may name
    Value,    \* values of the other registers, as signed numbers
    Char,     \* characters
    Text,     \* the characters in each buffer, up to its NUL, or up to memory
              \* that is not mapped
    Unended,  \* the buffers that have no NUL before memory that is not mapped
    NoRegs,   \* no program has been started
    KernelRegs, \* what is in the registers while C code of the kernel runs
    TickWord  \* 2^32, the modulus of timer_ticks

ASSUME RegsAssumption ==
    /\ {-1, 0, 1} \subseteq Value /\ Value \subseteq Int
    /\ Regs \subseteq [eax : Value, ebx : Value, ecx : Buf, edx : Value]
    /\ KernelRegs \in [eax : Value, ebx : Value, ecx : Buf, edx : Value]
    /\ Text \in [Buf -> Seq(Char)] /\ Unended \subseteq Buf
    /\ TickWord \in Nat \ {0}

SYS_EXIT == 0
SYS_WRITE == 2
SYS_CLOSE == 4
SYS_GETPID == 5
SYSCALL_MAX == 6

NMI == 2
ProtectionFault == 13
PageFault == 14
INT_TIMER == 32
INT_SYSCALL == 128

\* The exceptions that an instruction may raise.  Missing are the breakpoint
\* and overflow instructions, 3 and 4, which stop at their gates' ring and so
\* raise 13 from a program; 8, 9 and 18, which no sound instruction raises; and
\* from 20 on those of features that the kernel never switches on.  Whether 16,
\* 17 and 19 can come is up to the switches that the boot loader has left.
Exception == {0, 1, 5, 6, 7} \cup 10 .. 14 \cup {16, 17, 19}

\* The exceptions for which processors push an error code.
HasErrorCode == {8} \cup 10 .. 14 \cup {17, 21, 29, 30}

\* Lines of the interrupt controller: 0 is the timer, 1 the keyboard.
Line == {0, 1}

VARIABLES
    pc,      \* what the processor runs
    booted,  \* boot steps done
    cpu,     \* ring, interrupt flag, data segments, registers
    stack,   \* the kernel's stack, top first, in groups of words
    trap,    \* the interrupt or exception taken last, as the processor saw it
    tables,  \* whether the IDT and the task register are loaded
    pic,     \* the interrupt controller
    nmi_blocked,
    timer_ticks,
    printed  \* what the last system call printed

vars == <<pc, booted, cpu, stack, trap, tables, pic, nmi_blocked, timer_ticks,
          printed>>

-----------------------------------------------------------------------------
(***************************************************************************)
(* Words of the stack.                                                     *)
(***************************************************************************)

Word(tag, value) == [tag |-> tag, value |-> value]

\* What iret pops: three words, or five when it leaves for ring 3.
ReturnFrame(eip, ring, if) ==
    <<Word("eip", eip), Word("cs", ring), Word("eflags", if)>>
        \o IF ring = 3 THEN <<Word("esp", "user"), Word("ss", "user")>> ELSE <<>>

\* regs_t, as exception_handler finds it on the stack.
IntNo == stack[3]
Interrupted(place) ==
    pc = place \/ \E w \in 1 .. Len(stack) : stack[w] = Word("eip", place)

TypeOK ==
    /\ pc \in {"boot", "shell", "exec", "user", "stub", "timer", "handler",
               "leave", "exited", "halted", "lost"}
    /\ booted \in 0 .. 5
    /\ cpu.ring \in {0, 3} /\ cpu.if \in BOOLEAN
    /\ cpu.ds \in {"kernel", "user"}
    /\ cpu.regs \in [eax : Value, ebx : Value, ecx : Buf, edx : Value]
    /\ Len(stack) <= 24
    /\ tables \in [idt : BOOLEAN, tr : BOOLEAN]
    /\ pic \in [mapped : BOOLEAN, masked : SUBSET Line,
                pending : SUBSET Line, in_service : BOOLEAN]
    /\ nmi_blocked \in BOOLEAN
    /\ timer_ticks \in 0 .. TickWord - 1

\* boot.asm has loaded the GDT and called kmain.
Init ==
    /\ pc = "boot"
    /\ booted = 0
    /\ cpu = [ring |-> 0, if |-> FALSE, ds |-> "kernel", regs |-> KernelRegs]
    /\ stack = <<Word("eip", "kmain")>>
    /\ trap = [vector |-> 0, code |-> FALSE, eip |-> "boot", ring |-> 0]
    /\ tables = [idt |-> FALSE, tr |-> FALSE]
    /\ pic = [mapped |-> FALSE, masked |-> {}, pending |-> {},
              in_service |-> FALSE]
    /\ nmi_blocked = FALSE
    /\ timer_ticks = 0
    /\ printed = <<>>

-----------------------------------------------------------------------------
(***************************************************************************)
(* The processor and the interrupt controller.                             *)
(***************************************************************************)

\* Mutant: the timer is given no gate.
Gates_NoTimer == 0 .. 31 \cup {INT_SYSCALL}

\* idt_set_gate: the vectors that have a gate.
Gates == 0 .. 31 \cup {INT_TIMER, INT_SYSCALL}

\* The processor takes vector v, with an error code or without.  A vector
\* without a gate is a protection fault, and so is a program's int v for a
\* gate of ring 0 (see UserInt).  From ring 3 it goes to the stack of the
\* TSS, from ring 0 it stays on the stack it has.
Take(v, code) ==
    LET w == IF v \in Gates THEN v ELSE ProtectionFault
        c == IF v \in Gates THEN code ELSE TRUE
        ready == tables.idt /\ (cpu.ring = 3 => tables.tr)
    IN  /\ trap' = [vector |-> w, code |-> c, eip |-> pc, ring |-> cpu.ring]
        /\ stack' = (IF c THEN <<Word("err", "code")>> ELSE <<>>)
                       \o ReturnFrame(pc, cpu.ring, cpu.if)
                       \o (IF cpu.ring = 3 THEN <<>> ELSE stack)
        /\ cpu' = [cpu EXCEPT !.ring = 0, !.if = FALSE]
        /\ pc' = IF ready THEN "stub" ELSE "lost"

RaiseIrq(line) ==
    /\ pic' = [pic EXCEPT !.pending = @ \cup {line}]
    /\ UNCHANGED <<pc, booted, cpu, stack, trap, tables, nmi_blocked,
                   timer_ticks, printed>>

Deliverable == IF pic.in_service THEN {} ELSE pic.pending \ pic.masked
Preempted == cpu.if /\ Deliverable # {}

Interrupt ==
    /\ Preempted
    /\ LET line == IF 0 \in Deliverable THEN 0 ELSE 1 IN
       /\ Take((IF pic.mapped THEN INT_TIMER ELSE 8) + line, FALSE)
       /\ pic' = [pic EXCEPT !.pending = @ \ {line}, !.in_service = TRUE]
    /\ UNCHANGED <<booted, tables, nmi_blocked, timer_ticks, printed>>

NonMaskable ==
    /\ pc \notin {"boot", "lost"}
    /\ ~nmi_blocked
    /\ nmi_blocked' = TRUE
    /\ Take(NMI, FALSE)
    /\ UNCHANGED <<booted, tables, pic, timer_ticks, printed>>

\* iret with frame on top of rest.  The hlt of kernel_panic is passed when an
\* interrupt that woke it returns, and the handler goes on to its end.
Iret(frame, ds, regs) ==
    LET n == IF Len(frame) >= 3 /\ frame[2] = Word("cs", 3) THEN 5 ELSE 3
        sound == Len(frame) >= n /\ frame[1].tag = "eip" /\ frame[2].tag = "cs"
    IN  /\ IF sound
              THEN /\ pc' = IF frame[1].value = "halted" THEN "leave"
                                                         ELSE frame[1].value
                   /\ cpu' = [ring |-> frame[2].value, if |-> frame[3].value,
                              ds |-> ds, regs |-> regs]
                   /\ stack' = SubSeq(frame, n + 1, Len(frame))
              ELSE pc' = "lost" /\ UNCHANGED <<cpu, stack>>
        /\ nmi_blocked' = FALSE

-----------------------------------------------------------------------------
(***************************************************************************)
(* Boot, and the start of a program.                                       *)
(***************************************************************************)

\* Mutant: interrupts are enabled before the IDT is loaded.
BootOrder_StiFirst ==
    <<"pic_remap", "sti", "lidt", "tss_flush", "system_init_timer">>

\* The steps of kinit that the processor sees, of idt_init the first three.
BootOrder == <<"pic_remap", "lidt", "sti", "tss_flush", "system_init_timer">>

BootStep ==
    /\ pc = "boot" /\ ~Preempted
    /\ LET step == BootOrder[booted + 1] IN
       /\ cpu' = IF step = "sti" THEN [cpu EXCEPT !.if = TRUE] ELSE cpu
       /\ tables' = [idt |-> tables.idt \/ step = "lidt",
                     tr |-> tables.tr \/ step = "tss_flush"]
       /\ pic' = IF step = "pic_remap"
                    THEN [pic EXCEPT !.mapped = TRUE, !.masked = Line \ {0}]
                    ELSE pic
       /\ timer_ticks' = IF step = "system_init_timer" THEN 0 ELSE timer_ticks
    /\ booted' = booted + 1
    /\ pc' = IF booted' = Len(BootOrder) THEN "shell" ELSE "boot"
    /\ UNCHANGED <<stack, trap, nmi_blocked, printed>>

\* cmd_run, when elf_load has succeeded: process_exec sets the segments ...
ProcessExec ==
    /\ pc = "shell" /\ ~Preempted
    /\ pc' = "exec"
    /\ cpu' = [cpu EXCEPT !.ds = "user"]
    /\ UNCHANGED <<booted, stack, trap, tables, pic, nmi_blocked, timer_ticks,
                   printed>>

\* ... and irets to a frame it has pushed for ring 3.
EnterProgram ==
    /\ pc = "exec" /\ ~Preempted
    /\ \E regs \in Regs :
          Iret(ReturnFrame("user", 3, TRUE) \o stack, cpu.ds, regs)
    /\ UNCHANGED <<booted, trap, tables, pic, timer_ticks, printed>>

UserCompute ==
    /\ pc = "user" /\ ~Preempted
    /\ \E regs \in Regs : cpu' = [cpu EXCEPT !.regs = regs]
    /\ UNCHANGED <<pc, booted, stack, trap, tables, pic, nmi_blocked,
                   timer_ticks, printed>>

\* int 0x80, the one gate that ring 3 may use.
UserInt ==
    /\ pc = "user" /\ ~Preempted
    /\ Take(INT_SYSCALL, FALSE)
    /\ UNCHANGED <<booted, tables, pic, nmi_blocked, timer_ticks, printed>>

\* An exception of the program (int n for another gate is a protection fault);
\* a page fault of a shell command.
Fault(v) ==
    /\ ~Preempted
    /\ pc = "user" \/ (pc = "shell" /\ v = PageFault)
    /\ Take(v, v \in HasErrorCode)
    /\ UNCHANGED <<booted, tables, pic, nmi_blocked, timer_ticks, printed>>

-----------------------------------------------------------------------------
(***************************************************************************)
(* The stubs of isr.asm and the handlers.                                  *)
(***************************************************************************)

\* Mutant: the alignment check's stub pushes a zero where the processor has
\* pushed an error code.
ISR_ERRCODE_NoAlignment == {8, 10, 11, 12, 13, 14, 30}

\* The vectors whose stub pushes no zero in place of an error code.
ISR_ERRCODE == {8, 10, 11, 12, 13, 14, 17, 30}

Pusha == Word("general", cpu.regs)

isr_timer ==
    /\ pc = "stub" /\ trap.vector = INT_TIMER
    /\ stack' = <<Pusha>> \o stack
    /\ cpu' = [cpu EXCEPT !.regs = KernelRegs]
    /\ pc' = "timer"
    /\ UNCHANGED <<booted, trap, tables, pic, nmi_blocked, timer_ticks, printed>>

\* isr0 to isr31 and isr_syscall, and isr_common_stub up to its call.
isr_common_stub ==
    /\ pc = "stub" /\ trap.vector # INT_TIMER
    /\ LET zero == IF trap.vector \in ISR_ERRCODE
                      THEN <<>> ELSE <<Word("err", "zero")>>
       IN  stack' = <<Word("segments", cpu.ds), Pusha,
                      Word("num", trap.vector)>> \o zero \o stack
    /\ cpu' = [cpu EXCEPT !.ds = "kernel", !.regs = KernelRegs]
    /\ pc' = "handler"
    /\ UNCHANGED <<booted, trap, tables, pic, nmi_blocked, timer_ticks, printed>>

Ticked == (timer_ticks + 1) % TickWord

\* Mutant: the interrupt controller is not told that the handler is done.
timer_handler_NoEoi ==
    /\ pc = "timer"
    /\ timer_ticks' = Ticked
    /\ Iret(Tail(stack), cpu.ds, stack[1].value)
    /\ UNCHANGED <<booted, trap, tables, pic, printed>>

\* timer_handler, the end of interrupt, popa and iret.
timer_handler ==
    /\ pc = "timer"
    /\ timer_ticks' = Ticked
    /\ pic' = [pic EXCEPT !.in_service = FALSE]
    /\ Iret(Tail(stack), cpu.ds, stack[1].value)
    /\ UNCHANGED <<booted, trap, tables, printed>>

\* What the functions of syscall_table return; -1 for a number outside it.
Answer(regs) ==
    CASE regs.eax = SYS_WRITE /\ regs.ebx \in {1, 2} -> regs.edx
      [] regs.eax = SYS_CLOSE -> 0
      [] regs.eax = SYS_GETPID -> 1
      [] OTHER -> -1

\* sys_write stops at a NUL, and returns the count it was given all the same.
Printed(regs) ==
    LET n == Len(Text[regs.ecx]) IN
    IF regs.edx < n THEN SubSeq(Text[regs.ecx], 1, regs.edx) ELSE Text[regs.ecx]

\* sys_write comes to the end of mapped memory before a NUL or its count.
ReadsUnmapped(regs) ==
    /\ regs.eax = SYS_WRITE /\ regs.ebx \in {1, 2}
    /\ regs.ecx \in Unended /\ regs.edx > Len(Text[regs.ecx])

syscall_handler ==
    /\ pc = "handler" /\ IntNo = Word("num", INT_SYSCALL)
    /\ LET regs == stack[2].value IN
       /\ regs.eax # SYS_EXIT
       /\ ~ReadsUnmapped(regs)
       /\ stack' = [stack EXCEPT ![2].value.eax = Answer(regs)]
       /\ printed' = IF regs.eax = SYS_WRITE /\ regs.ebx \in {1, 2}
                        THEN Printed(regs) ELSE printed
    /\ pc' = "leave"
    /\ UNCHANGED <<booted, cpu, trap, tables, pic, nmi_blocked, timer_ticks>>

\* The page fault inside sys_write, when it has printed what was mapped.
WriteFault ==
    /\ pc = "handler" /\ IntNo = Word("num", INT_SYSCALL)
    /\ ReadsUnmapped(stack[2].value)
    /\ printed' = Text[stack[2].value.ecx]
    /\ Take(PageFault, TRUE)
    /\ UNCHANGED <<booted, tables, pic, nmi_blocked, timer_ticks>>

sys_exit ==
    /\ pc = "handler" /\ IntNo = Word("num", INT_SYSCALL)
    /\ stack[2].value.eax = SYS_EXIT
    /\ pc' = "exited"
    /\ UNCHANGED <<booted, cpu, stack, trap, tables, pic, nmi_blocked,
                   timer_ticks, printed>>

\* Mutant: a non-maskable interrupt is ignored.
exception_handler_NmiIgnored ==
    /\ pc = "handler" /\ IntNo # Word("num", INT_SYSCALL)
    /\ pc' = IF IntNo.tag = "num" /\ IntNo.value < 32 /\ IntNo.value # NMI
                THEN "halted" ELSE "leave"
    /\ UNCHANGED <<booted, cpu, stack, trap, tables, pic, nmi_blocked,
                   timer_ticks, printed>>

\* exception_handler for an exception: kernel_panic, up to its cli and hlt.
exception_handler ==
    /\ pc = "handler" /\ IntNo # Word("num", INT_SYSCALL)
    /\ pc' = IF IntNo.tag = "num" /\ IntNo.value < 32 THEN "halted" ELSE "leave"
    /\ UNCHANGED <<booted, cpu, stack, trap, tables, pic, nmi_blocked,
                   timer_ticks, printed>>

\* Mutant: the segments are discarded instead of popped.
Leave_KeepsSegments ==
    /\ pc = "leave"
    /\ Iret(SubSeq(stack, 5, Len(stack)), cpu.ds, stack[2].value)
    /\ UNCHANGED <<booted, trap, tables, pic, timer_ticks, printed>>

\* isr_common_stub from the return of its call to iret.
Leave ==
    /\ pc = "leave"
    /\ Iret(SubSeq(stack, 5, Len(stack)), stack[1].value, stack[2].value)
    /\ UNCHANGED <<booted, trap, tables, pic, timer_ticks, printed>>

Next ==
    \/ BootStep
    \/ ProcessExec
    \/ EnterProgram
    \/ UserCompute
    \/ UserInt
    \/ \E v \in Exception : Fault(v)
    \/ \E line \in Line : RaiseIrq(line)
    \/ Interrupt
    \/ NonMaskable
    \/ isr_timer
    \/ isr_common_stub
    \/ timer_handler
    \/ syscall_handler
    \/ WriteFault
    \/ sys_exit
    \/ exception_handler
    \/ Leave

Spec == Init /\ [][Next]_vars

\* The processor executes what it has to execute, and the timer runs.
Fairness ==
    /\ WF_vars(BootStep)
    /\ WF_vars(RaiseIrq(0))
    /\ WF_vars(Interrupt)
    /\ WF_vars(isr_timer) /\ WF_vars(timer_handler)
    /\ WF_vars(isr_common_stub)
    /\ WF_vars(syscall_handler) /\ WF_vars(WriteFault) /\ WF_vars(sys_exit)
    /\ WF_vars(exception_handler) /\ WF_vars(Leave)

FairSpec == Spec /\ Fairness

-----------------------------------------------------------------------------
\* No interrupt comes before the tables are there to take it, and no iret
\* finds anything but the frame that its interrupt pushed: the order of the
\* boot, the mask of the interrupt controller and the stubs fit together.
NeverLost == pc # "lost"

\* regs_t shows the C handlers the interrupt that was taken and the place it
\* was taken at: for every exception that an instruction may raise the stub
\* agrees with the processor on the error code, also for a page fault that a
\* system call runs into.
RegsMatchFrame ==
    pc = "handler" =>
        /\ stack[3] = Word("num", trap.vector)
        /\ stack[4] = Word("err", IF trap.code THEN "code" ELSE "zero")
        /\ stack[5] = Word("eip", trap.eip)
        /\ stack[6] = Word("cs", trap.ring)

\* The rings stay apart: the program runs in ring 3, with interrupts on and on
\* its own segments, whatever interrupts came while it was started and since,
\* and a protection fault comes from it alone, for no interrupt that the
\* controller lets through, in any phase of the boot, is without a gate.
RingsApart ==
    /\ pc = "user" => cpu.ring = 3 /\ cpu.if /\ cpu.ds = "user"
    /\ pc = "stub" /\ trap.vector = ProtectionFault => trap.ring = 3

\* The timer goes on ticking until the kernel stops for good: no handler
\* forgets to let the next interrupt in.
Stopped == Interrupted("exited") \/ Interrupted("halted")
TimeGoesOn ==
    \A t \in 0 .. TickWord - 1 : (timer_ticks = t) ~> (timer_ticks # t \/ Stopped)

-----------------------------------------------------------------------------
\* The program's registers are the processor's, or those that the handler
\* nearest to the bottom of the kernel's stack has saved.
Saved ==
    LET at == {i \in 1 .. Len(stack) : stack[i].tag = "general"}
    IN  IF at = {} THEN cpu.regs
        ELSE stack[CHOOSE i \in at : \A j \in at : j <= i].value

Program ==
    INSTANCE Process WITH
        life <- IF Interrupted("halted") THEN "panicked"
                ELSE IF Interrupted("exited") THEN "exited"
                ELSE IF Interrupted("user") THEN "running" ELSE "none",
        regs <- IF ~Interrupted("user") THEN NoRegs
                ELSE IF pc = "user" THEN cpu.regs ELSE Saved

\* Interrupts, also one inside the handling of another, are invisible to the
\* program; a call changes eax and nothing else; write shows no more than it
\* was given; and after an exit or a panic nothing of the program runs again,
\* although kernel_panic halts only once.
ImplementsProcess == Program!ProcessSpec
=============================================================================
