----------------------------- MODULE LoaderProofs ---------------------------
(***************************************************************************)
(* Proofs about Loader, for every family of programs that meets the        *)
(* assumptions on its sizes and segments.                                  *)
(***************************************************************************)
EXTENDS Loader, TLAPS

\* What uint32_t arithmetic makes of a sum or a difference of two words.
LEMMA Wraps ==
    ASSUME NEW x \in Int, -Word < x, x < 2 * Word
    PROVE  /\ x < 0 => x % Word = x + Word
           /\ (0 <= x /\ x < Word) => x % Word = x
           /\ Word <= x => x % Word = x - Word
  BY SizeAssumption

\* The sizes that mkfs.py stores and the reads of vfs_read_at are words.
LEMMA Stored ==
    ASSUME NEW f \in FileId
    PROVE  /\ StoredSize(f) \in 0 .. MAX_FILE_SIZE
           /\ StoredSize(f) <= Program[f].length
           /\ ~Cut(f) => StoredSize(f) = Program[f].length
  BY SizeAssumption, ProgramAssumption DEF StoredSize, Cut, UInt32

\* A read that does not run wild stays in the file and gives no more than it
\* was asked for.
LEMMA ReadInFile ==
    ASSUME NEW f \in FileId, NEW size \in UInt32, NEW offset \in UInt32,
           ~Wild(f, size, offset)
    PROVE  /\ ReadLength(f, size, offset) \in 0 .. size
           /\ offset + ReadLength(f, size, offset) <= MAX_FILE_SIZE
  <1> DEFINE n == ReadLength(f, size, offset)
             stored == StoredSize(f)
  <1>1. /\ stored \in 0 .. MAX_FILE_SIZE /\ MAX_FILE_SIZE < Word
        /\ Word \in Nat /\ MAX_FILE_SIZE \in Nat
        /\ size \in 0 .. Word - 1 /\ offset \in 0 .. Word - 1
    BY Stored, SizeAssumption DEF UInt32
  <1>2. n = IF (offset + size) % Word > stored THEN (stored - offset) % Word ELSE size
    BY DEF ReadLength
  <1>3. offset + n <= MAX_FILE_SIZE
    <2>1. n \in Int
      BY <1>1, <1>2
    <2> QED  BY <2>1, <1>1 DEF Wild
  <1>4. /\ stored < offset => (stored - offset) % Word = stored - offset + Word
        /\ offset <= stored => (stored - offset) % Word = stored - offset
    <2> HIDE DEF stored
    <2> QED  BY <1>1, Wraps
  <1>5. /\ offset + size < Word => (offset + size) % Word = offset + size
        /\ Word <= offset + size => (offset + size) % Word = offset + size - Word
    BY <1>1, Wraps
  <1> HIDE DEF n, stored
  <1>6. n \in 0 .. size
    BY <1>1, <1>2, <1>3, <1>4, <1>5
  <1> QED  BY <1>3, <1>6 DEF n

\* A read that lies within the file on the host is complete unless mkfs.py has
\* cut the file, and runs wild only when it begins past the cut.
LEMMA ReadComplete ==
    ASSUME NEW f \in FileId, NEW size \in UInt32, NEW offset \in UInt32,
           offset + size <= Program[f].length
    PROVE  /\ ~Cut(f) => ReadLength(f, size, offset) = size
           /\ Wild(f, size, offset) => Cut(f) /\ offset > StoredSize(f)
  <1> DEFINE n == ReadLength(f, size, offset)
             stored == StoredSize(f)
  <1>1. /\ stored \in 0 .. MAX_FILE_SIZE /\ MAX_FILE_SIZE < Word
        /\ Word \in Nat /\ MAX_FILE_SIZE \in Nat
        /\ size \in 0 .. Word - 1 /\ offset \in 0 .. Word - 1
        /\ Program[f].length \in 0 .. Word - 1
    BY Stored, SizeAssumption, ProgramAssumption DEF UInt32
  <1>2. n = IF offset + size > stored THEN (stored - offset) % Word ELSE size
    <2>1. (offset + size) % Word = offset + size
      BY <1>1, Wraps
    <2> QED  BY <2>1 DEF ReadLength
  <1>3. offset <= stored => (stored - offset) % Word = stored - offset
    <2> HIDE DEF stored
    <2> QED  BY <1>1, Wraps
  <1>4. ~Cut(f) => stored = Program[f].length
    BY Stored
  <1>5. Wild(f, size, offset) <=> offset + n > MAX_FILE_SIZE
    BY DEF Wild
  <1> HIDE DEF n, stored
  <1>6. ~Cut(f) => n = size
    BY <1>1, <1>2, <1>4
  <1>7. Wild(f, size, offset) => Cut(f) /\ offset > stored
    <2>1. CASE ~Cut(f)
      BY <2>1, <1>1, <1>4, <1>5, <1>6
    <2>2. CASE offset <= stored
      BY <2>2, <1>1, <1>2, <1>3, <1>5
    <2> QED  BY <2>1, <2>2, <1>1
  <1> QED  BY <1>6, <1>7 DEF n, stored

-----------------------------------------------------------------------------
\* The header that the loop stands at.
LEMMA AtHeader ==
    ASSUME TypeOK, More
    PROVE  /\ i + 1 \in 1 .. Len(Program[file].headers)
           /\ Header \in ProgramHeader
           /\ Loadable => Header \in Segments(file)
  <1>1. file \in FileId /\ Program[file].headers \in Seq(ProgramHeader)
    BY ProgramAssumption DEF TypeOK
  <1>2. i + 1 \in 1 .. Len(Program[file].headers)
    BY <1>1 DEF TypeOK, More
  <1> QED  BY <1>1, <1>2 DEF Header, Loadable, Segments

\* What a copy of n bytes out of a file makes of memory.
LEMMA CopiedBytes ==
    ASSUME TypeOK, NEW f \in FileId, NEW dest \in UInt32, NEW offset \in UInt32,
           NEW n \in Nat, offset + n <= MAX_FILE_SIZE
    PROVE  /\ Copied(f, dest, offset, n) \in
                [Address -> {Old, Zeroed} \cup (FileId \X (0 .. MAX_FILE_SIZE - 1))]
           /\ \A a \in Address :
                Copied(f, dest, offset, n)[a] =
                    IF dest <= a /\ a < dest + n
                       THEN Byte(f, offset + a - dest) ELSE memory[a]
  <1>1. SUFFICES ASSUME NEW a \in Address, dest <= a, a < dest + n
                 PROVE  Byte(f, offset + a - dest) \in FileId \X (0 .. MAX_FILE_SIZE - 1)
    BY DEF Copied, TypeOK
  <1>2. offset + a - dest \in 0 .. MAX_FILE_SIZE - 1
    BY <1>1, SizeAssumption DEF Address, UInt32
  <1> QED  BY <1>2 DEF Byte

\* What loading a whole segment makes of memory.
LEMMA SegmentBytes ==
    ASSUME TypeOK, NEW f \in FileId, NEW seg \in ProgramHeader,
           seg.filesz <= seg.memsz, seg.offset + seg.filesz <= MAX_FILE_SIZE
    PROVE  /\ Segment(f, seg) \in
                [Address -> {Old, Zeroed} \cup (FileId \X (0 .. MAX_FILE_SIZE - 1))]
           /\ \A a \in Address :
                Segment(f, seg)[a] =
                    IF seg.vaddr <= a /\ a < seg.vaddr + seg.memsz
                       THEN Loaded(f, seg, a) ELSE memory[a]
  <1> DEFINE copy == Copied(f, seg.vaddr, seg.offset, seg.filesz)
  <1>1. /\ seg.vaddr \in UInt32 /\ seg.offset \in UInt32
        /\ seg.filesz \in UInt32 /\ seg.memsz \in UInt32
        /\ seg.filesz \in Nat
    BY SizeAssumption DEF ProgramHeader, UInt32
  <1>2. /\ copy \in [Address -> {Old, Zeroed} \cup (FileId \X (0 .. MAX_FILE_SIZE - 1))]
        /\ \A a \in Address :
             copy[a] = IF seg.vaddr <= a /\ a < seg.vaddr + seg.filesz
                          THEN Byte(f, seg.offset + a - seg.vaddr) ELSE memory[a]
    BY <1>1, CopiedBytes
  <1> HIDE DEF copy
  <1>3. Segment(f, seg) =
          [a \in Address |->
             IF seg.vaddr + seg.filesz <= a /\ a < seg.vaddr + seg.memsz
                THEN Zeroed ELSE copy[a]]
    BY DEF Segment, copy
  <1>4. Segment(f, seg) \in
           [Address -> {Old, Zeroed} \cup (FileId \X (0 .. MAX_FILE_SIZE - 1))]
    BY <1>2, <1>3
  <1>5. ASSUME NEW a \in Address
        PROVE  Segment(f, seg)[a] =
                  IF seg.vaddr <= a /\ a < seg.vaddr + seg.memsz
                     THEN Loaded(f, seg, a) ELSE memory[a]
    BY <1>1, <1>2, <1>3, SizeAssumption DEF Loaded, Address, UInt32
  <1> QED  BY <1>4, <1>5

-----------------------------------------------------------------------------
\* The segments that the loop has passed are in memory.
PrefixInMemory ==
    pc = "load" =>
        \A k \in 1 .. i :
            Program[file].headers[k].type = PT_LOAD
                => InMemory(file, Program[file].headers[k])

\* Every load starts with the first header.
LoopAtStart == pc \in {"off", "shell"} => i = 0

IInv == TypeOK /\ OnlySegmentsWritten /\ PrefixInMemory /\ LoopAtStart

LEMMA OffsetIsWord ==
    ASSUME TypeOK
    PROVE  Offset \in UInt32
  <1>1. /\ Program[file].phoff \in Nat /\ Program[file].phentsize \in Nat /\ i \in Nat
        /\ Word \in Nat /\ 0 < Word
    BY ProgramAssumption, SizeAssumption DEF TypeOK, UInt32
  <1>2. \A x \in Int : x % Word \in 0 .. Word - 1
    BY <1>1
  <1>3. Program[file].phoff + i * Program[file].phentsize \in Int
    BY <1>1
  <1> QED  BY <1>2, <1>3 DEF Offset, UInt32

\* The read of a segment that stays in the file, and the memory it needs.
LEMMA SegmentRoom ==
    ASSUME TypeOK, More, Loadable, ~Wild(file, Header.filesz, Header.offset)
    PROVE  /\ SegmentRead \in 0 .. Header.filesz
           /\ Header.offset + SegmentRead <= MAX_FILE_SIZE
           /\ Header.filesz <= Header.memsz
           /\ Header.vaddr + Header.memsz <= MAPPED
           /\ Header.vaddr \in UInt32 /\ Header.offset \in UInt32
           /\ Header.filesz \in UInt32 /\ Header.memsz \in UInt32
  <1>1. file \in FileId /\ Header \in ProgramHeader /\ Header \in Segments(file)
    BY AtHeader DEF TypeOK
  <1>2. /\ Header.vaddr \in UInt32 /\ Header.offset \in UInt32
        /\ Header.filesz \in UInt32 /\ Header.memsz \in UInt32
    BY <1>1 DEF ProgramHeader
  <1>3. /\ SegmentRead \in 0 .. Header.filesz
        /\ Header.offset + SegmentRead <= MAX_FILE_SIZE
    BY <1>1, <1>2, ReadInFile DEF SegmentRead
  <1> QED  BY <1>1, <1>2, <1>3, SegmentAssumption

\* A load that is given up keeps types, and what it has written is the
\* beginning of a segment.
LEMMA ShortSegmentInv ==
    ASSUME IInv, ShortSegment
    PROVE  IInv'
  <1>1. TypeOK /\ More /\ Loadable /\ ~Wild(file, Header.filesz, Header.offset)
    BY DEF IInv, ShortSegment, ReadableHeader
  <1>2. file \in FileId /\ Header \in Segments(file)
    BY <1>1, AtHeader DEF TypeOK
  <1>3. memory' = Copied(file, Header.vaddr, Header.offset, SegmentRead)
        /\ pc' = "shell" /\ i' = 0 /\ file' = file
    BY DEF ShortSegment, Refuse
  <1>4. /\ memory' \in [Address -> {Old, Zeroed} \cup (FileId \X (0 .. MAX_FILE_SIZE - 1))]
        /\ \A a \in Address :
             memory'[a] = IF Header.vaddr <= a /\ a < Header.vaddr + SegmentRead
                             THEN Byte(file, Header.offset + a - Header.vaddr)
                             ELSE memory[a]
    <2>1. SegmentRead \in Nat
      BY <1>1, SegmentRoom, SizeAssumption DEF UInt32
    <2> QED  BY <2>1, <1>1, <1>2, <1>3, SegmentRoom, CopiedBytes
  <1>5. TypeOK'
    <2>1. Len(Program[file].headers) \in Nat
      BY <1>2, ProgramAssumption
    <2> QED  BY <1>2, <1>3, <1>4, <2>1 DEF TypeOK
  <1>6. OnlySegmentsWritten'
    <2>1. SUFFICES ASSUME NEW a \in Address,
                          Header.vaddr <= a, a < Header.vaddr + SegmentRead
                   PROVE  /\ a \in Header.vaddr .. Header.vaddr + Header.memsz - 1
                          /\ memory'[a] = Loaded(file, Header, a)
      BY <1>2, <1>4 DEF IInv, OnlySegmentsWritten, Loaded
    <2>2. /\ a < Header.vaddr + Header.filesz
          /\ a \in Header.vaddr .. Header.vaddr + Header.memsz - 1
      BY <2>1, <1>1, SegmentRoom, SizeAssumption DEF Address, UInt32
    <2> QED  BY <2>1, <2>2, <1>4 DEF Loaded
  <1>7. PrefixInMemory' /\ LoopAtStart'
    BY <1>3 DEF PrefixInMemory, LoopAtStart
  <1> QED  BY <1>5, <1>6, <1>7 DEF IInv

\* A segment that is loaded does not disturb those before it.
LEMMA LoadSegmentInv ==
    ASSUME IInv, LoadSegment
    PROVE  IInv'
  <1>1. TypeOK /\ More /\ Loadable /\ ~Wild(file, Header.filesz, Header.offset)
    BY DEF IInv, LoadSegment, ReadableHeader
  <1>2. /\ file \in FileId /\ Header \in Segments(file) /\ Header \in ProgramHeader
        /\ i + 1 \in 1 .. Len(Program[file].headers)
    BY <1>1, AtHeader DEF TypeOK
  <1>3. memory' = Segment(file, Header) /\ pc' = "load" /\ i' = i + 1 /\ file' = file
    BY <1>1 DEF LoadSegment, More
  <1>4. /\ memory' \in [Address -> {Old, Zeroed} \cup (FileId \X (0 .. MAX_FILE_SIZE - 1))]
        /\ \A a \in Address :
             memory'[a] = IF Header.vaddr <= a /\ a < Header.vaddr + Header.memsz
                             THEN Loaded(file, Header, a) ELSE memory[a]
    <2>1. Header.offset + Header.filesz <= MAX_FILE_SIZE
      BY <1>1, SegmentRoom DEF LoadSegment, Short
    <2> QED  BY <2>1, <1>1, <1>2, <1>3, SegmentRoom, SegmentBytes
  <1>5. /\ Header.vaddr \in Nat /\ Header.memsz \in Nat
        /\ Header.vaddr + Header.memsz <= MAPPED
    BY <1>1, SegmentRoom, SizeAssumption DEF UInt32
  <1>6. TypeOK'
    BY <1>2, <1>3, <1>4 DEF TypeOK
  <1>7. OnlySegmentsWritten'
    <2>1. SUFFICES ASSUME NEW a \in Address,
                          Header.vaddr <= a, a < Header.vaddr + Header.memsz
                   PROVE  /\ a \in Header.vaddr .. Header.vaddr + Header.memsz - 1
                          /\ memory'[a] = Loaded(file, Header, a)
      BY <1>2, <1>4 DEF IInv, OnlySegmentsWritten, Loaded
    <2> QED  BY <2>1, <1>4, <1>5, SizeAssumption DEF Address
  <1>8. PrefixInMemory'
    <2>1. SUFFICES ASSUME NEW k \in 1 .. i + 1,
                          Program[file].headers[k].type = PT_LOAD,
                          NEW a \in Program[file].headers[k].vaddr ..
                                       Program[file].headers[k].vaddr
                                         + Program[file].headers[k].memsz - 1
                   PROVE  memory'[a] = Loaded(file, Program[file].headers[k], a)
      BY <1>3 DEF PrefixInMemory, InMemory, Loaded
    <2> DEFINE seg == Program[file].headers[k]
    <2>2. /\ k \in 1 .. Len(Program[file].headers)
          /\ seg \in ProgramHeader /\ seg \in Segments(file)
      <3>1. k \in 1 .. Len(Program[file].headers)
        BY <1>1, <1>2 DEF TypeOK
      <3> QED  BY <3>1, <2>1, <1>2, ProgramAssumption DEF Segments
    <2>3. seg.vaddr \in Nat /\ seg.memsz \in Nat /\ seg.vaddr + seg.memsz <= MAPPED
      <3> HIDE DEF seg
      <3>1. seg.vaddr + seg.memsz <= MAPPED
        BY <2>2, <1>2, SegmentAssumption
      <3> QED  BY <3>1, <2>2, SizeAssumption DEF ProgramHeader, UInt32
    <2>4. a \in Address
      BY <2>1, <2>3, SizeAssumption DEF Address
    <2>5. CASE k = i + 1
      BY <2>1, <2>3, <2>4, <2>5, <1>4 DEF Header
    <2>6. CASE k < i + 1
      <3>1. k \in 1 .. i /\ memory[a] = Loaded(file, seg, a)
        BY <2>1, <2>6, <1>1 DEF IInv, PrefixInMemory, InMemory, More, TypeOK
      <3>2. \/ seg.vaddr + seg.memsz <= Header.vaddr
            \/ Header.vaddr + Header.memsz <= seg.vaddr
        BY <2>1, <2>2, <2>6, <1>1, <1>2, SegmentAssumption DEF Header, Loadable
      <3>3. ~(Header.vaddr <= a /\ a < Header.vaddr + Header.memsz)
        BY <3>2, <2>1, <2>3, <1>5
      <3> QED  BY <3>1, <3>3, <2>4, <1>4
    <2> QED  BY <2>1, <2>5, <2>6, <1>2
  <1>9. LoopAtStart'
    BY <1>3 DEF LoopAtStart
  <1> QED  BY <1>6, <1>7, <1>8, <1>9 DEF IInv

LEMMA NextInv ==
    ASSUME IInv, [Next]_vars
    PROVE  IInv'
  <1> USE DEF IInv
  <1>0. /\ TypeOK /\ file \in FileId /\ i \in Nat
        /\ \A f \in FileId : Len(Program[f].headers) \in Nat
    BY ProgramAssumption DEF TypeOK
  <1>1. CASE PowerOff
    <2>1. TypeOK' /\ PrefixInMemory' /\ LoopAtStart'
      BY <1>0, <1>1 DEF PowerOff, TypeOK, PrefixInMemory, LoopAtStart
    <2> QED  BY <2>1, <1>1 DEF PowerOff, OnlySegmentsWritten, Loaded
  <1>2. CASE Boot
    <2>1. /\ memory' = memory \/ memory' = [a \in Address |-> Old]
          /\ pc' = "shell" /\ i = 0 /\ i' = 0 /\ file' \in FileId
      BY <1>2 DEF Boot, LoopAtStart
    <2>2. TypeOK'
      BY <1>0, <2>1 DEF TypeOK
    <2>3. OnlySegmentsWritten'
      <3>1. CASE memory' = memory
        BY <3>1 DEF OnlySegmentsWritten, Loaded
      <3>2. CASE memory' = [a \in Address |-> Old]
        BY <3>2 DEF OnlySegmentsWritten
      <3> QED  BY <2>1, <3>1, <3>2
    <2> QED  BY <2>1, <2>2, <2>3 DEF PrefixInMemory, LoopAtStart
  <1>3. CASE ReadHeader
    <2>1. /\ pc' = "load" /\ i = 0
          /\ UNCHANGED <<file, i, memory>>
      BY <1>3 DEF ReadHeader, LoopAtStart
    <2>2. TypeOK' /\ PrefixInMemory' /\ LoopAtStart'
      BY <1>0, <2>1 DEF TypeOK, PrefixInMemory, LoopAtStart
    <2> QED  BY <2>1, <2>2 DEF OnlySegmentsWritten, Loaded
  <1>4. CASE Halt
    <2>1. TypeOK' /\ PrefixInMemory' /\ LoopAtStart'
      BY <1>0, <1>4 DEF Halt, TypeOK, PrefixInMemory, LoopAtStart
    <2> QED  BY <2>1, <1>4 DEF Halt, OnlySegmentsWritten, Loaded
  <1>5. CASE ShortHeader
    <2>1. TypeOK' /\ PrefixInMemory' /\ LoopAtStart'
      BY <1>0, <1>5 DEF ShortHeader, Refuse, TypeOK, PrefixInMemory, LoopAtStart
    <2> QED  BY <2>1, <1>5 DEF ShortHeader, Refuse, OnlySegmentsWritten, Loaded
  <1>6. CASE SkipHeader
    <2>1. /\ pc = "load" /\ i' = i + 1 /\ UNCHANGED <<pc, file, memory>>
          /\ i < Len(Program[file].headers)
          /\ Program[file].headers[i + 1].type # PT_LOAD
      BY <1>6 DEF SkipHeader, ReadableHeader, More, Loadable, Header
    <2>2. TypeOK' /\ LoopAtStart'
      BY <1>0, <2>1 DEF TypeOK, LoopAtStart
    <2>3. PrefixInMemory'
      BY <1>0, <2>1 DEF PrefixInMemory, InMemory, Loaded
    <2> QED  BY <2>1, <2>2, <2>3 DEF OnlySegmentsWritten, Loaded
  <1>7. CASE ShortSegment
    BY <1>7, ShortSegmentInv
  <1>8. CASE LoadSegment
    BY <1>8, LoadSegmentInv
  <1>9. CASE Execute
    <2>1. TypeOK' /\ PrefixInMemory' /\ LoopAtStart'
      BY <1>0, <1>9 DEF Execute, TypeOK, PrefixInMemory, LoopAtStart
    <2> QED  BY <2>1, <1>9 DEF Execute, OnlySegmentsWritten, Loaded
  <1>10. CASE UNCHANGED vars
    <2>1. TypeOK' /\ LoopAtStart'
      BY <1>10 DEF vars, TypeOK, LoopAtStart
    <2>2. PrefixInMemory'
      BY <1>10 DEF vars, PrefixInMemory, InMemory, Loaded
    <2> QED  BY <2>1, <2>2, <1>10 DEF vars, OnlySegmentsWritten, Loaded
  <1> QED
    BY <1>1, <1>2, <1>3, <1>4, <1>5, <1>6, <1>7, <1>8, <1>9, <1>10
       DEF Next, WildHeader, WildSegment

LEMMA InitInv == Init => IInv
  <1>1. SUFFICES ASSUME Init PROVE IInv
    OBVIOUS
  <1>2. TypeOK
    BY <1>1, ProgramAssumption DEF Init, TypeOK
  <1> QED  BY <1>1, <1>2 DEF Init, IInv, OnlySegmentsWritten, PrefixInMemory, LoopAtStart

\* The inductive invariant: the loop of elf_load has loaded every segment that
\* it has passed, and starts each time with the first header.
THEOREM InductiveInvariant == Spec => []IInv
  BY InitInv, NextInv, PTL DEF Spec

\* Types of Loader: elf_load never copies a byte from outside a file's data,
\* nor leaves its loop's bounds.
THEOREM TypeCorrect == Spec => []TypeOK
  BY InductiveInvariant, PTL DEF IInv

\* elf_load writes nothing but bytes that a segment wants where it puts them.
THEOREM WritesOnlySegments == Spec => []OnlySegmentsWritten
  BY InductiveInvariant, PTL DEF IInv

\* The step of run that enters a program finds all of its segments in memory.
LEMMA ExecuteStep ==
    ASSUME IInv, [Next]_vars, pc = "load", pc' = "running"
    PROVE  \A seg \in Segments(file) : InMemory(file, seg)
  <1>1. Execute
    BY DEF Next, vars, PowerOff, Boot, ReadHeader, WildHeader, ShortHeader, SkipHeader,
           WildSegment, ShortSegment, LoadSegment, Halt, Refuse
  <1>2. i = Len(Program[file].headers)
    BY <1>1, ProgramAssumption DEF Execute, More, IInv, TypeOK
  <1> QED  BY <1>2 DEF IInv, PrefixInMemory, Segments

\* A program starts with all of its segments in memory, byte for byte and with
\* its zeroes, however many loads were given up half way before.
THEOREM RunsWhatTheFileHolds == Spec => RunsTheFile
  <1>1. IInv /\ [Next]_vars
          => [pc = "load" /\ pc' = "running"
                => \A seg \in Segments(file) : InMemory(file, seg)]_vars
    BY ExecuteStep
  <1> QED  BY <1>1, InductiveInvariant, PTL DEF Spec, RunsTheFile

-----------------------------------------------------------------------------
\* A header of a complete program is read unless mkfs.py has cut the file.
LEMMA HeaderRead ==
    ASSUME TypeOK, More, Complete(file)
    PROVE  /\ ~Cut(file) => ReadLength(file, Phdr, Offset) = Phdr
           /\ Wild(file, Phdr, Offset) => Cut(file) /\ BeginsPastEnd(file)
  <1>1. /\ file \in FileId /\ i + 1 \in 1 .. Len(Program[file].headers)
        /\ i \in Nat /\ (i + 1) - 1 = i
    BY AtHeader, ProgramAssumption DEF TypeOK
  <1> DEFINE at == Program[file].phoff + i * Program[file].phentsize
  <1>2. at + Phdr <= Program[file].length
    BY <1>1 DEF Complete
  <1>3. at \in UInt32 /\ Phdr \in UInt32
    <2>1. /\ Program[file].phoff \in Nat /\ Program[file].phentsize \in Nat
          /\ Program[file].length \in 0 .. Word - 1
      BY <1>1, ProgramAssumption, SizeAssumption DEF UInt32
    <2>2. \A x, y, z \in Nat : x + y * z \in Nat
      OBVIOUS
    <2>3. at \in Nat
      BY <1>1, <2>1, <2>2
    <2> HIDE DEF at
    <2> QED  BY <2>1, <2>3, <1>2, SizeAssumption DEF UInt32
  <1>4. Offset = at
    <2>1. Offset = at % Word
      BY DEF Offset
    <2> HIDE DEF at
    <2> QED  BY <2>1, <1>3, Wraps, SizeAssumption DEF UInt32
  <1>5. at > StoredSize(file) => BeginsPastEnd(file)
    BY <1>1 DEF BeginsPastEnd
  <1> HIDE DEF at
  <1> QED  BY <1>1, <1>2, <1>3, <1>4, <1>5, ReadComplete

\* A segment of a complete program is read unless mkfs.py has cut the file.
LEMMA SegmentIsRead ==
    ASSUME TypeOK, More, Loadable, Complete(file)
    PROVE  /\ ~Cut(file) => ~Short(SegmentRead)
           /\ Wild(file, Header.filesz, Header.offset) => Cut(file) /\ BeginsPastEnd(file)
  <1>1. /\ file \in FileId /\ Header \in Segments(file)
        /\ Header.filesz \in UInt32 /\ Header.offset \in UInt32
    BY AtHeader DEF TypeOK, ProgramHeader
  <1>2. Header.offset + Header.filesz <= Program[file].length
    BY <1>1 DEF Complete
  <1>3. Header.offset > StoredSize(file) => BeginsPastEnd(file)
    BY <1>1 DEF BeginsPastEnd
  <1> QED  BY <1>1, <1>2, <1>3, ReadComplete DEF Short, SegmentRead

LEMMA LoadStep ==
    ASSUME IInv, [Next]_vars, Complete(file), pc = "load"
    PROVE  /\ pc' = "shell" => Cut(file)
           /\ pc' = "halted" => Cut(file) /\ BeginsPastEnd(file)
  <1>1. TypeOK
    BY DEF IInv
  <1>2. CASE WildHeader
    BY <1>1, <1>2, HeaderRead DEF WildHeader, Halt
  <1>3. CASE ShortHeader
    BY <1>1, <1>3, HeaderRead DEF ShortHeader, Refuse
  <1>4. CASE WildSegment
    BY <1>1, <1>4, SegmentIsRead DEF WildSegment, ReadableHeader, Halt
  <1>5. CASE ShortSegment
    BY <1>1, <1>5, SegmentIsRead DEF ShortSegment, ReadableHeader, Refuse
  <1> QED
    BY <1>2, <1>3, <1>4, <1>5
       DEF Next, vars, PowerOff, Boot, ReadHeader, SkipHeader, LoadSegment, Execute

\* run refuses a complete program only when mkfs.py has cut it, and stops the
\* machine only when a header or a segment begins past the cut.
THEOREM RefusalsAreCuts == Spec => RefusesOnlyCutFiles
  <1>1. IInv /\ [Next]_vars
          => [Complete(file) /\ pc = "load"
                => /\ pc' = "shell" => Cut(file)
                   /\ pc' = "halted" => Cut(file) /\ BeginsPastEnd(file)]_vars
    BY LoadStep
  <1> QED  BY <1>1, InductiveInvariant, PTL DEF Spec, RefusesOnlyCutFiles
=============================================================================
