------------------------------- MODULE Paging -------------------------------
(***************************************************************************)
(* mm/paging.c: one page directory with one table, which maps the first    *)
(* PAGE_ENTRIES pages to themselves, and paging_map_page, which changes an *)
(* entry of that table.  The processor keeps translations that it has      *)
(* used in a cache of its own (the TLB) and does not look at the table     *)
(* again until it drops them or is told to by invlpg.                      *)
(*                                                                         *)
(* The table is itself written through a page, so a caller that maps that  *)
(* page elsewhere loses the table.  Callers are taken to leave the page of *)
(* the directory alone and not to map the two tables anywhere else.        *)
(***************************************************************************)
EXTENDS Integers

CONSTANTS
    PAGE_ENTRIES,      \* entries of a directory and of a table
    first_page_table,  \* the page, and frame, of the table
    Virt,              \* pages that callers ask to map
    Phys,              \* frames that they ask to map them to
    Flags, BootFlags,  \* flags they ask for; those of paging_init
    None               \* no page, no translation

Page == 0 .. PAGE_ENTRIES * PAGE_ENTRIES - 1

\* The pages whose entry in the directory is present.
Mapped == {v \in Page : v \div PAGE_ENTRIES = 0}

ASSUME PagingAssumption ==
    /\ PAGE_ENTRIES \in Nat \ {0}
    /\ first_page_table \in Mapped
    /\ Virt \subseteq Page
    /\ Phys \subseteq Int
    /\ BootFlags \in Flags
    /\ None \notin Page

VARIABLES
    table,     \* the entries of first_page_table
    tlb,       \* the translations that the processor has kept
    flushing,  \* the page that paging_map_page has yet to invalidate, or None
    meant      \* what callers have asked each page to be

pagingVars == <<table, tlb, flushing, meant>>

Entry(frame, flags) == [frame |-> frame, flags |-> flags]

Entries == [frame : Phys \cup Mapped, flags : Flags]

PagingTypeOK ==
    /\ table \in [Mapped -> Entries]
    /\ \A v \in Mapped : tlb[v] = None \/ tlb[v] \in Entries
    /\ flushing \in Mapped \cup {None}
    /\ meant \in [Mapped -> Entries]

\* Where an access to a page goes.
Translation(v) == IF tlb[v] = None THEN table[v] ELSE tlb[v]

-----------------------------------------------------------------------------
\* paging_init: loading the directory leaves no kept translation.
PagingInit ==
    /\ table = [v \in Mapped |-> Entry(v, BootFlags)]
    /\ tlb = [v \in Mapped |-> None]
    /\ flushing = None
    /\ meant = table

\* The processor keeps a translation, for an access or ahead of one.
Fill(v) ==
    /\ tlb[v] = None
    /\ tlb' = [tlb EXCEPT ![v] = table[v]]
    /\ UNCHANGED <<table, flushing, meant>>

Evict(v) ==
    /\ tlb[v] # None
    /\ tlb' = [tlb EXCEPT ![v] = None]
    /\ UNCHANGED <<table, flushing, meant>>

\* Writes of the kernel through the table's page reach the table.
TableReached == Translation(first_page_table).frame = first_page_table

\* paging_map_page up to the write of the entry.  For a page without a table
\* it returns at once, and nothing has happened.
paging_map_page(virt, phys, flags) ==
    /\ flushing = None
    /\ virt \in Mapped
    /\ table' = IF TableReached
                   THEN [table EXCEPT ![virt] = Entry(phys, flags)] ELSE table
    /\ meant' = [meant EXCEPT ![virt] = Entry(phys, flags)]
    /\ flushing' = virt
    /\ UNCHANGED tlb

\* Mutant: no invlpg.
Invlpg_Missing ==
    /\ flushing # None
    /\ flushing' = None
    /\ UNCHANGED <<table, tlb, meant>>

\* Its invlpg, after which it returns.
Invlpg ==
    /\ flushing # None
    /\ tlb' = [tlb EXCEPT ![flushing] = None]
    /\ flushing' = None
    /\ UNCHANGED <<table, meant>>

-----------------------------------------------------------------------------
\* When paging_map_page returns, every access sees what all calls so far have
\* asked for, whatever the processor kept, also between the write of the entry
\* and the invlpg; up to the call that maps the table's own page elsewhere.
MapTakesEffect ==
    flushing = None /\ table[first_page_table].frame = first_page_table
        => \A v \in Mapped : Translation(v) = meant[v]
=============================================================================
