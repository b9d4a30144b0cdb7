------------------------------- MODULE MCLoader -----------------------------
(***************************************************************************)
(* A small instance of Loader for TLC: files for a drive that keeps twelve *)
(* bytes of each, with an ELF header of two and program headers of one.    *)
(***************************************************************************)
EXTENDS Loader

Load(offset, vaddr, filesz, memsz) ==
    [type |-> PT_LOAD, offset |-> offset, vaddr |-> vaddr,
     filesz |-> filesz, memsz |-> memsz]
Note(offset, vaddr, size) ==
    [type |-> 4, offset |-> offset, vaddr |-> vaddr, filesz |-> size, memsz |-> size]

File(length, phoff, headers) ==
    [length |-> length, magic |-> TRUE, phoff |-> phoff, phentsize |-> 1,
     headers |-> headers]

Programs ==
    [whole     |-> File(10, 2, <<Load(5, 1, 2, 2), Load(7, 3, 3, 5), Note(4, 0, 1)>>),
     bss       |-> File(5, 2, <<Note(3, 0, 1), Load(4, 2, 1, 3), Load(5, 5, 0, 2)>>),
     cutdata   |-> File(14, 2, <<Load(4, 0, 3, 3), Load(10, 3, 4, 4)>>),
     cutends   |-> File(14, 2, <<Load(4, 4, 2, 2), Load(12, 1, 2, 3)>>),
     cutlater  |-> File(16, 2, <<Load(4, 3, 4, 5), Load(13, 0, 3, 3)>>),
     latetable |-> File(13, 11, <<Load(2, 2, 4, 4), Load(6, 6, 1, 2)>>),
     tablepast |-> File(15, 13, <<Load(2, 1, 3, 3)>>),
     lies      |-> File(6, 2, <<Load(4, 2, 2, 3), Load(9, 5, 1, 1)>>),
     tiny      |-> File(1, 0, <<>>),
     text      |-> [File(8, 0, <<>>) EXCEPT !.magic = FALSE]]

Files == DOMAIN Programs
=============================================================================
