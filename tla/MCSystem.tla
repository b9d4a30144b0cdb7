------------------------------- MODULE MCSystem -----------------------------
(***************************************************************************)
(* A small instance of System for TLC: pages 0 to 2 are mapped, page 0     *)
(* holds the directory and page 1 its table; firmware tables lie on page 2 *)
(* or, out of reach, on page 8.                                            *)
(***************************************************************************)
EXTENDS System

CONSTANTS rw, user

MCMs == {-1, 0, 1, 3}

MCPorts == <<<<"0x604", "0x2000">>, <<"0xB004", "0x2000">>, <<"0x4004", "0x3400">>>>

\* A DSDT with an object for S5 that is "length" bytes long, after "at" bytes
\* that begin with a mention of its name.
Aml(at, length, state) ==
    [k \in 1 .. at |-> IF k <= 4 THEN S5[k] ELSE 8]
        \o S5 \o <<PackageOp, length, 4, 10, state>>

Bare ==
    [hypervisor |-> FALSE, port |-> None, rsdp |-> TRUE, rsdt |-> 2,
     tables |-> <<[page |-> 2, fadt |-> FALSE], [page |-> 2, fadt |-> TRUE]>>,
     fadtLength |-> 13, dsdt |-> 2, pm1a_cnt |-> 1, aml |-> Aml(8, 7, 7),
     s5At |-> 8, s5Length |-> 7, s5 |-> 7, otherSleeps |-> {1, 5, 6}]

Guest(p) == [Bare EXCEPT !.hypervisor = TRUE, !.port = p]

MCMachine ==
    {Guest(MCPorts[k]) : k \in 1 .. 3} \cup
    {Guest(None), Bare,
     [Bare EXCEPT !.rsdp = FALSE], [Bare EXCEPT !.rsdt = 8],
     [Bare EXCEPT !.dsdt = 8], [Bare EXCEPT !.pm1a_cnt = 0],
     [Bare EXCEPT !.tables = <<[page |-> 2, fadt |-> FALSE]>>],
     [Bare EXCEPT !.tables[1].page = 8], [Bare EXCEPT !.tables[2].page = 8],
     [Bare EXCEPT !.tables = <<[page |-> 2, fadt |-> TRUE], [page |-> 8, fadt |-> FALSE]>>],
     [Bare EXCEPT !.fadtLength = 12], [Bare EXCEPT !.fadtLength = 3],
     [Bare EXCEPT !.fadtLength = 3, !.aml = [k \in 1 .. 8 |-> 8], !.s5Length = 0],
     [Bare EXCEPT !.aml = Aml(8, 6, 7), !.s5Length = 6],
     [Bare EXCEPT !.aml = Aml(8, 10, 7), !.s5Length = 10],
     [Bare EXCEPT !.aml = Aml(0, 7, 7), !.s5At = 0, !.fadtLength = 5]}
=============================================================================
