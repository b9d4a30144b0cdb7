------------------------------- MODULE Process ------------------------------
(***************************************************************************)
(* What the kernel promises the one program it runs: registers of its own  *)
(* that nothing but a system call changes, system calls that change eax    *)
(* only, and no way back to life after it exited or the kernel panicked.   *)
(***************************************************************************)
EXTENDS Integers, Sequences

CONSTANTS
    Regs,      \* register files
    NoRegs,    \* no program has been started
    Value,     \* what eax may hold
    Text,      \* the characters that can be read of each buffer ecx may name
    SYS_EXIT, SYS_WRITE

VARIABLES life, regs, printed

processVars == <<life, regs, printed>>

ProcessInit ==
    /\ life = "none"
    /\ regs = NoRegs
    /\ printed = <<>>

Start ==
    /\ life = "none"
    /\ life' = "running"
    /\ regs' \in Regs
    /\ UNCHANGED printed

Compute ==
    /\ life = "running"
    /\ regs' \in Regs
    /\ UNCHANGED <<life, printed>>

\* Only write prints, and only characters of the buffer it was given.
Call ==
    /\ life = "running"
    /\ regs.eax # SYS_EXIT
    /\ \E v \in Value : regs' = [regs EXCEPT !.eax = v]
    /\ \/ UNCHANGED printed
       \/ /\ regs.eax = SYS_WRITE
          /\ \E n \in 0 .. Len(Text[regs.ecx]) :
                /\ n > 0 => n <= regs.edx
                /\ printed' = SubSeq(Text[regs.ecx], 1, n)
    /\ UNCHANGED life

Exit ==
    /\ life = "running"
    /\ regs.eax = SYS_EXIT
    /\ life' = "exited"
    /\ UNCHANGED <<regs, printed>>

\* A fault, of the program or of the kernel, or a non-maskable interrupt.
Panic ==
    /\ life' = "panicked"
    /\ UNCHANGED <<regs, printed>>

ProcessNext == Start \/ Compute \/ Call \/ Exit \/ Panic

ProcessSpec == ProcessInit /\ [][ProcessNext]_processVars
=============================================================================
