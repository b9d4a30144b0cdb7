------------------------------- MODULE MCKernel -----------------------------
(***************************************************************************)
(* Small instances of Kernel for TLC.  The register files are calls of     *)
(* each kind, among them writes past the NUL and to a bad descriptor, a    *)
(* negative count, a number outside syscall_table, and writes up to and    *)
(* past the end of mapped memory.                                          *)
(***************************************************************************)
EXTENDS Kernel

CONSTANTS ab, cut, h, i

MCRegisters(eax, ebx, edx) == [eax |-> eax, ebx |-> ebx, ecx |-> ab, edx |-> edx]

MCRegs ==
    {MCRegisters(SYS_EXIT, 0, 0), MCRegisters(1, 0, 1),
     MCRegisters(SYS_WRITE, 1, 1), MCRegisters(SYS_WRITE, 2, 5),
     MCRegisters(SYS_WRITE, 0, 1), MCRegisters(SYS_WRITE, 1, -1),
     MCRegisters(SYS_CLOSE, 0, 0), MCRegisters(SYSCALL_MAX, 0, 0)}
        \cup {[MCRegisters(SYS_WRITE, 1, n) EXCEPT !.ecx = cut] : n \in {2, 5}}

MCKernelRegs == MCRegisters(5, 5, 5)
MCValue == {-1, 0, 1, 2, 4, 5, 6}
MCText == [b \in Buf |-> <<h, i>>]
=============================================================================
