------------------------------ MODULE Allocator -----------------------------
(***************************************************************************)
(* What a caller of kmalloc and kfree may count on: memory that nobody     *)
(* else has, as long as there is a hole for it.                            *)
(***************************************************************************)
EXTENDS Integers

CONSTANTS
    Low, High,   \* the arena, from Low up to and without High
    Reached,     \* the end of what the processor can reach of it
    Margin,      \* bytes in front of an allocation that are nobody's
    Slack,       \* what a hole must have over the bytes asked for
    Modulus,     \* requests from here up are not served as asked
    Ask          \* sizes asked for

VARIABLES
    live,        \* the allocations held: where, and how many bytes
    crashed      \* the request that stopped the processor; 0 without one

allocatorVars == <<live, crashed>>

Taken == UNION {a.ptr - Margin .. a.ptr + a.len - 1 : a \in live}

\* n bytes in a row that nobody has, below limit.
Hole(n, limit) ==
    \E p \in Low .. limit : p + n <= limit /\ p .. p + n - 1 \cap Taken = {}

AllocatorInit ==
    /\ live = {}
    /\ crashed = 0

\* A request so large that rounding wraps it gets an empty allocation.
Allocate ==
    \E n \in Ask, p \in Low .. High :
        LET len == IF n < Modulus THEN n ELSE 0 IN
        /\ n > 0
        /\ p + len <= High
        /\ p - Margin .. p + len - 1 \cap Taken = {}
        /\ live' = live \cup {[ptr |-> p, len |-> len]}
        /\ UNCHANGED crashed

Free ==
    /\ \E a \in live : live' = live \ {a}
    /\ UNCHANGED crashed

\* The reachable part of the arena has no hole for what is asked.
Crash ==
    /\ \E n \in Ask : ~Hole(n + Slack, Reached) /\ crashed' = n
    /\ UNCHANGED live

AllocatorNext == crashed = 0 /\ (Allocate \/ Free \/ Crash)

AllocatorSpec == AllocatorInit /\ [][AllocatorNext]_allocatorVars
=============================================================================
