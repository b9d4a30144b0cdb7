-------------------------------- MODULE Loader ------------------------------
(***************************************************************************)
(* The run command: cmd_run of drivers/command/command.c and elf_load of   *)
(* fs/elf.c, which copies the segments of a program from a file to memory  *)
(* one program header at a time and returns at the first one that it       *)
(* cannot read in full.  A file may hold less than the program: tools/     *)
(* mkfs.py cuts what it installs at MAX_FILE_SIZE.                         *)
(*                                                                         *)
(* A byte is known by the file and the place in it that it comes from.     *)
(* Reading is vfs_read_at of module File, whose length wraps for a start   *)
(* past the end of the file: the copy then runs wild and the machine       *)
(* stops.  What a program writes once it runs is left out.                 *)
(***************************************************************************)
EXTENDS Integers, Sequences

CONSTANTS
    FileId,         \* what tools/mkfs.py may have installed on the drive
    Program,        \* the file on the host that each was made from
    MAX_FILE_SIZE,
    Word,           \* 2^32
    MAPPED,         \* bytes of memory
    Ehdr, Phdr,     \* bytes of the ELF header and of a program header
    Old, Zeroed     \* a byte as a cold start leaves it, and one set to 0

PT_LOAD == 1

UInt32 == 0 .. Word - 1
ProgramHeader ==
    [type : UInt32, offset : UInt32, vaddr : UInt32, filesz : UInt32, memsz : UInt32]

Segments(f) ==
    {Program[f].headers[k] : k \in {k \in 1 .. Len(Program[f].headers) :
                                      Program[f].headers[k].type = PT_LOAD}}

ASSUME SizeAssumption ==
    /\ MAX_FILE_SIZE \in Nat /\ MAPPED \in Nat
    /\ Ehdr \in Nat /\ Phdr \in Nat
    /\ Word \in Nat
    /\ MAX_FILE_SIZE < Word /\ Ehdr < Word /\ Phdr < Word

\* Header k stands at phoff + (k - 1) * phentsize of the file.
ASSUME ProgramAssumption ==
    \A f \in FileId :
        /\ Program[f].length \in UInt32
        /\ Program[f].magic \in BOOLEAN
        /\ Program[f].phoff \in UInt32 /\ Program[f].phentsize \in UInt32
        /\ Program[f].headers \in Seq(ProgramHeader)

\* What a linker sees to: segments fit memory, do not lack room for what the
\* file gives them, and do not overlap.
ASSUME SegmentAssumption ==
    \A f \in FileId :
        /\ \A seg \in Segments(f) :
              seg.filesz <= seg.memsz /\ seg.vaddr + seg.memsz <= MAPPED
        /\ \A j, k \in 1 .. Len(Program[f].headers) :
              LET one == Program[f].headers[j]
                  other == Program[f].headers[k]
              IN  (j < k /\ one.type = PT_LOAD /\ other.type = PT_LOAD)
                     => \/ one.vaddr + one.memsz <= other.vaddr
                        \/ other.vaddr + other.memsz <= one.vaddr

Address == 0 .. MAPPED - 1

VARIABLES
    pc,      \* "off", "shell", "load", "running" or "halted"
    file,    \* the program on the drive
    i,       \* the loop over the program headers
    memory   \* what each byte of memory holds

vars == <<pc, file, i, memory>>

Byte(f, at) == <<f, at>>

TypeOK ==
    /\ pc \in {"off", "shell", "load", "running", "halted"}
    /\ file \in FileId
    /\ i \in 0 .. Len(Program[file].headers)
    /\ memory \in [Address -> {Old, Zeroed} \cup (FileId \X (0 .. MAX_FILE_SIZE - 1))]

Init ==
    /\ pc = "off"
    /\ file \in FileId
    /\ i = 0
    /\ memory = [a \in Address |-> Old]

\* What mkfs.py stores of a file.
StoredSize(f) ==
    IF Program[f].length > MAX_FILE_SIZE THEN MAX_FILE_SIZE ELSE Program[f].length

\* vfs_read_at: how many bytes it copies, and whether that leaves the file.
ReadLength(f, size, offset) ==
    IF (offset + size) % Word > StoredSize(f)
       THEN (StoredSize(f) - offset) % Word ELSE size
Wild(f, size, offset) == offset + ReadLength(f, size, offset) > MAX_FILE_SIZE

Copied(f, dest, offset, n) ==
    [a \in Address |-> IF dest <= a /\ a < dest + n
                          THEN Byte(f, offset + a - dest) ELSE memory[a]]

\* Mutant: the bytes after the file's part of a segment are left as they are.
Segment_NoMemset(f, seg) == Copied(f, seg.vaddr, seg.offset, seg.filesz)

\* Memory with a whole segment loaded.
Segment(f, seg) ==
    [a \in Address |->
        IF seg.vaddr + seg.filesz <= a /\ a < seg.vaddr + seg.memsz
           THEN Zeroed ELSE Copied(f, seg.vaddr, seg.offset, seg.filesz)[a]]

-----------------------------------------------------------------------------
\* Power off or a reset at any moment.  Meanwhile mkfs.py may make the image
\* anew; a reset leaves the memory as it was.
PowerOff ==
    /\ pc # "off"
    /\ pc' = "off"
    /\ i' = 0
    /\ UNCHANGED <<file, memory>>

Boot ==
    /\ pc = "off"
    /\ pc' = "shell"
    /\ file' \in FileId
    /\ memory' \in {memory, [a \in Address |-> Old]}
    /\ UNCHANGED i

\* cmd_run of a file with an ELF header; any other is refused and nothing
\* changes.
ReadHeader ==
    /\ pc = "shell"
    /\ ReadLength(file, Ehdr, 0) = Ehdr
    /\ Program[file].magic
    /\ pc' = "load"
    /\ UNCHANGED <<file, i, memory>>

\* The program header the loop reads next.
Offset == (Program[file].phoff + i * Program[file].phentsize) % Word
Header == Program[file].headers[i + 1]
More == pc = "load" /\ i < Len(Program[file].headers)

\* A copy runs through memory until it hits what is not mapped.
Halt ==
    /\ pc' = "halted"
    /\ UNCHANGED <<file, i, memory>>

Refuse(mem) ==
    /\ pc' = "shell"
    /\ memory' = mem
    /\ i' = 0
    /\ UNCHANGED file

\* A round of the loop whose header cannot be read.
WildHeader == More /\ Wild(file, Phdr, Offset) /\ Halt

ShortHeader ==
    /\ More /\ ~Wild(file, Phdr, Offset)
    /\ ReadLength(file, Phdr, Offset) # Phdr
    /\ Refuse(memory)

ReadableHeader ==
    More /\ ~Wild(file, Phdr, Offset) /\ ReadLength(file, Phdr, Offset) = Phdr

\* Mutant: every program header is taken for a segment to load.
Loadable_Any == TRUE

Loadable == Header.type = PT_LOAD

\* Mutant: skipping a header counts it twice.
SkipHeader_Twice ==
    /\ ReadableHeader /\ ~Loadable
    /\ i' = i + 2
    /\ UNCHANGED <<pc, file, memory>>

SkipHeader ==
    /\ ReadableHeader /\ ~Loadable
    /\ i' = i + 1
    /\ UNCHANGED <<pc, file, memory>>

\* Mutant: the count is compared with the segment's size in memory.
Short_Memsz(n) == n # Header.memsz

Short(n) == n # Header.filesz

\* A round of the loop that loads a segment.
SegmentRead == ReadLength(file, Header.filesz, Header.offset)

WildSegment ==
    /\ ReadableHeader /\ Loadable
    /\ Wild(file, Header.filesz, Header.offset)
    /\ Halt

ShortSegment ==
    /\ ReadableHeader /\ Loadable
    /\ ~Wild(file, Header.filesz, Header.offset)
    /\ Short(SegmentRead)
    /\ Refuse(Copied(file, Header.vaddr, Header.offset, SegmentRead))

LoadSegment ==
    /\ ReadableHeader /\ Loadable
    /\ ~Wild(file, Header.filesz, Header.offset)
    /\ ~Short(SegmentRead)
    /\ memory' = Segment(file, Header)
    /\ i' = i + 1
    /\ UNCHANGED <<pc, file>>

\* The loop is done: process_exec enters the program.
Execute ==
    /\ pc = "load" /\ ~More
    /\ pc' = "running"
    /\ i' = 0
    /\ UNCHANGED <<file, memory>>

Next ==
    \/ PowerOff
    \/ Boot
    \/ ReadHeader
    \/ WildHeader
    \/ ShortHeader
    \/ SkipHeader
    \/ WildSegment
    \/ ShortSegment
    \/ LoadSegment
    \/ Execute

Spec == Init /\ [][Next]_vars

-----------------------------------------------------------------------------
\* What address a holds once segment seg of f is loaded.
Loaded(f, seg, a) ==
    IF a < seg.vaddr + seg.filesz THEN Byte(f, seg.offset + a - seg.vaddr) ELSE Zeroed

InMemory(f, seg) ==
    \A a \in seg.vaddr .. seg.vaddr + seg.memsz - 1 : memory[a] = Loaded(f, seg, a)

\* When the program that elf_load read starts, all of its segments are in
\* memory, byte for byte and with their zeroes, whatever earlier loads that
\* were given up half way, or resets, have left behind.
RunsTheFile ==
    [][pc = "load" /\ pc' = "running"
          => \A seg \in Segments(file) : InMemory(file, seg)]_vars

\* Loading, finished or given up, writes inside segments only: every byte that
\* elf_load has changed holds what some program wants there.
OnlySegmentsWritten ==
    \A a \in Address :
        \/ memory[a] = Old
        \/ \E f \in FileId : \E seg \in Segments(f) :
              /\ a \in seg.vaddr .. seg.vaddr + seg.memsz - 1
              /\ memory[a] = Loaded(f, seg, a)

\* Everything the headers of f say lies within the file on the host.
Complete(f) ==
    /\ \A k \in 1 .. Len(Program[f].headers) :
          Program[f].phoff + (k - 1) * Program[f].phentsize + Phdr <= Program[f].length
    /\ \A seg \in Segments(f) : seg.offset + seg.filesz <= Program[f].length

Cut(f) == StoredSize(f) < Program[f].length

BeginsPastEnd(f) ==
    \/ \E k \in 1 .. Len(Program[f].headers) :
          Program[f].phoff + (k - 1) * Program[f].phentsize > StoredSize(f)
    \/ \E seg \in Segments(f) : seg.offset > StoredSize(f)

\* elf_load refuses a complete program only if mkfs.py has cut it, and the
\* machine stops only when a header or a segment begins past the cut.
RefusesOnlyCutFiles ==
    [][Complete(file) /\ pc = "load"
          => /\ pc' = "shell" => Cut(file)
             /\ pc' = "halted" => Cut(file) /\ BeginsPastEnd(file)]_vars
=============================================================================
