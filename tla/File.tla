-------------------------------- MODULE File --------------------------------
(***************************************************************************)
(* The descriptors of fs/file.c and the calls of fs/vfs.c that read and    *)
(* write a whole file through one.  The table of inodes and its names are  *)
(* module Vfs's: here a file is found or it is not, and FileId are the     *)
(* inodes of type INODE_FILE.  file.h is an interface, so any caller may   *)
(* make any sequence of its calls.                                         *)
(*                                                                         *)
(* Sizes and positions are uint32_t, so their sums are taken modulo Word.  *)
(* A memcpy that leaves the data array of the inode writes over or reads   *)
(* nearly the whole address space: the machine does not survive it.        *)
(***************************************************************************)
EXTENDS Integers, Sequences

CONSTANTS
    MAX_OPEN_FILES, \* entries of fd_table
    MAX_FILE_SIZE,  \* bytes of data in an inode
    Word,           \* 2^32
    FileId,         \* the inodes that are files
    Byte,           \* values of a byte of data
    Zero,           \* the byte that memset leaves
    Size,           \* sizes a caller asks to read
    Offset,         \* offsets a caller seeks to
    Buffer,         \* what callers write
    NotOpen,        \* a descriptor that is closed, for the mapping below
    Running         \* no copy has run wild

ASSUME LimitAssumption ==
    /\ MAX_OPEN_FILES \in Nat
    /\ MAX_FILE_SIZE \in Nat
    /\ Word \in Nat
    /\ 2 * MAX_FILE_SIZE < Word

ASSUME CallAssumption ==
    /\ Zero \in Byte
    /\ Size \subseteq 0 .. Word - 1
    /\ Offset \subseteq 0 .. Word - 1
    /\ {0, MAX_FILE_SIZE} \subseteq Size
    /\ 0 \in Offset
    /\ Buffer \subseteq Seq(Byte)
    /\ \A buf \in Buffer : Len(buf) < Word \div 2
    /\ Running \notin [pos : 0 .. Word - 1, size : 0 .. Word - 1,
                       end : 0 .. MAX_FILE_SIZE]
    /\ NotOpen \notin [file : FileId, pos : 0 .. Word - 1]

Fd == 0 .. MAX_OPEN_FILES - 1

VARIABLES
    inode,     \* size and data of each file
    fd_table,  \* the descriptors
    returned,  \* what the last call returned, and the bytes it copied out
    halted     \* Running, or the request whose memcpy ran wild

vars == <<inode, fd_table, returned, halted>>

Request == [pos : 0 .. Word - 1, size : 0 .. Word - 1, end : 0 .. MAX_FILE_SIZE]

TypeOK ==
    /\ inode \in [FileId -> [size : 0 .. MAX_FILE_SIZE,
                             data : [0 .. MAX_FILE_SIZE - 1 -> Byte]]]
    /\ fd_table \in [Fd -> [in_use : BOOLEAN, inode_index : FileId,
                            position : 0 .. Word - 1]]
    /\ returned \in [ret : -1 .. Word - 1, bytes : Seq(Byte)]
    /\ halted \in {Running} \cup Request

\* fd_table is zeroed at boot, and file_create zeroes an inode.
Init ==
    /\ inode = [f \in FileId |->
                  [size |-> 0, data |-> [k \in 0 .. MAX_FILE_SIZE - 1 |-> Zero]]]
    /\ fd_table \in [Fd -> [in_use : {FALSE}, inode_index : FileId,
                            position : {0}]]
    /\ returned = [ret |-> 0, bytes |-> <<>>]
    /\ halted = Running

-----------------------------------------------------------------------------
Return(n, bytes) == returned' = [ret |-> n, bytes |-> bytes]

Fail ==
    /\ Return(-1, <<>>)
    /\ UNCHANGED <<inode, fd_table, halted>>

Halt(pos, size, end) ==
    /\ halted' = [pos |-> pos, size |-> size, end |-> end]
    /\ UNCHANGED <<inode, fd_table, returned>>

\* Mutant: the search takes a descriptor that is in use.
FreeFd_Any(fd) == TRUE

\* find_free_fd gives the lowest descriptor that is not in use.
FreeFd(fd) ==
    /\ ~fd_table[fd].in_use
    /\ \A j \in Fd : j < fd => fd_table[j].in_use

NoFreeFd == \A fd \in Fd : fd_table[fd].in_use

\* bytes_to_read of file_read and bytes_to_write of file_write.
ReadLength(pos, size, isize) ==
    IF (pos + size) % Word > isize THEN (isize - pos) % Word ELSE size
WriteLength(pos, size) ==
    IF (pos + size) % Word > MAX_FILE_SIZE
       THEN (MAX_FILE_SIZE - pos) % Word ELSE size

\* memcpy of n bytes at data + pos leaves the array.
Wild(pos, n) == pos + n > MAX_FILE_SIZE

CopiedOut(node, pos, n) == [k \in 1 .. n |-> node.data[pos + k - 1]]

\* Mutant: the size becomes the length written, not the end position.
CopiedIn_SizeOfWrite(node, pos, n, buf) ==
    [size |-> IF n > node.size THEN n ELSE node.size,
     data |-> [k \in 0 .. MAX_FILE_SIZE - 1 |->
                 IF pos <= k /\ k < pos + n THEN buf[k - pos + 1]
                                            ELSE node.data[k]]]

CopiedIn(node, pos, n, buf) ==
    [size |-> IF pos + n > node.size THEN pos + n ELSE node.size,
     data |-> [k \in 0 .. MAX_FILE_SIZE - 1 |->
                 IF pos <= k /\ k < pos + n THEN buf[k - pos + 1]
                                            ELSE node.data[k]]]

-----------------------------------------------------------------------------
file_open(f) ==
    IF NoFreeFd
       THEN Fail
       ELSE \E fd \in Fd :
               /\ FreeFd(fd)
               /\ fd_table' = [fd_table EXCEPT ![fd] =
                     [in_use |-> TRUE, inode_index |-> f, position |-> 0]]
               /\ Return(fd, <<>>)
               /\ UNCHANGED <<inode, halted>>

file_close(fd) ==
    /\ fd_table' = [fd_table EXCEPT ![fd].in_use = FALSE]
    /\ Return(0, <<>>)
    /\ UNCHANGED <<inode, halted>>

file_seek(fd, offset) ==
    IF ~fd_table[fd].in_use
       THEN Fail
       ELSE /\ fd_table' = [fd_table EXCEPT ![fd].position = offset]
            /\ Return(0, <<>>)
            /\ UNCHANGED <<inode, halted>>

file_read(fd, size) ==
    LET node == inode[fd_table[fd].inode_index]
        pos == fd_table[fd].position
        n == ReadLength(pos, size, node.size)
    IN  IF ~fd_table[fd].in_use THEN Fail
        ELSE IF Wild(pos, n) THEN Halt(pos, size, node.size)
        ELSE /\ fd_table' = [fd_table EXCEPT ![fd].position = pos + n]
             /\ Return(n, CopiedOut(node, pos, n))
             /\ UNCHANGED <<inode, halted>>

file_write(fd, buf) ==
    LET f == fd_table[fd].inode_index
        pos == fd_table[fd].position
        n == WriteLength(pos, Len(buf))
    IN  IF ~fd_table[fd].in_use THEN Fail
        ELSE IF Wild(pos, n) THEN Halt(pos, Len(buf), MAX_FILE_SIZE)
        ELSE /\ inode' = [inode EXCEPT ![f] = CopiedIn(@, pos, n, buf)]
             /\ fd_table' = [fd_table EXCEPT ![fd].position = pos + n]
             /\ Return(n, <<>>)
             /\ UNCHANGED halted

\* The entry that a call of vfs.c leaves behind in the descriptor it used.
Released(f, pos) == [in_use |-> FALSE, inode_index |-> f, position |-> pos]

\* vfs_read_at: open, seek, read, close.  vfs_read is the same at offset 0
\* and vfs_cat at offset 0 with size MAX_FILE_SIZE.
vfs_read_at(f, size, offset) ==
    LET n == ReadLength(offset, size, inode[f].size)
    IN  IF NoFreeFd THEN Fail
        ELSE IF Wild(offset, n) THEN Halt(offset, size, inode[f].size)
        ELSE \E fd \in Fd :
                /\ FreeFd(fd)
                /\ fd_table' = [fd_table EXCEPT ![fd] = Released(f, offset + n)]
                /\ Return(n, CopiedOut(inode[f], offset, n))
                /\ UNCHANGED <<inode, halted>>

\* Mutant: the early return of an incomplete write skips file_close.
vfs_write_file_Leak(f, buf) ==
    LET n == WriteLength(0, Len(buf))
    IN  IF NoFreeFd
           THEN Fail
           ELSE \E fd \in Fd :
                   /\ FreeFd(fd)
                   /\ inode' = [inode EXCEPT ![f] = CopiedIn(@, 0, n, buf)]
                   /\ fd_table' = [fd_table EXCEPT ![fd] =
                        [Released(f, n) EXCEPT !.in_use = n < Len(buf)]]
                   /\ Return(IF n < Len(buf) THEN -1 ELSE 0, <<>>)
                   /\ UNCHANGED halted

\* vfs_write_file: open, write, close, and an error if the write was cut.
vfs_write_file(f, buf) ==
    LET n == WriteLength(0, Len(buf))
    IN  IF NoFreeFd
           THEN Fail
           ELSE \E fd \in Fd :
                   /\ FreeFd(fd)
                   /\ inode' = [inode EXCEPT ![f] = CopiedIn(@, 0, n, buf)]
                   /\ fd_table' = [fd_table EXCEPT ![fd] = Released(f, n)]
                   /\ Return(IF n < Len(buf) THEN -1 ELSE 0, <<>>)
                   /\ UNCHANGED halted

Next ==
    /\ halted = Running
    /\ \/ \E f \in FileId : file_open(f)
       \/ \E fd \in Fd : file_close(fd)
       \/ \E fd \in Fd, offset \in Offset : file_seek(fd, offset)
       \/ \E fd \in Fd, size \in Size : file_read(fd, size)
       \/ \E fd \in Fd, buf \in Buffer : file_write(fd, buf)
       \/ \E f \in FileId, size \in Size, offset \in Offset :
             vfs_read_at(f, size, offset)
       \/ \E f \in FileId, buf \in Buffer : vfs_write_file(f, buf)

Spec == Init /\ [][Next]_vars

-----------------------------------------------------------------------------
\* What lies beyond the end of a file is zero, so a file that grows over a
\* gap that file_seek left never shows bytes of an earlier write.
HolesAreZero ==
    \A f \in FileId : \A k \in inode[f].size .. MAX_FILE_SIZE - 1 :
        inode[f].data[k] = Zero

\* The files as a caller sees them.
Store ==
    INSTANCE FileStore WITH
        Blank <- Zero,
        Limit <- MAX_FILE_SIZE,
        Modulus <- Word,
        ReadSize <- Size,
        Position <- Offset,
        Up <- Running,
        content <- [f \in FileId |->
                      [k \in 1 .. inode[f].size |-> inode[f].data[k - 1]]],
        opened <- [fd \in Fd |->
                     IF fd_table[fd].in_use
                        THEN [file |-> fd_table[fd].inode_index,
                              pos |-> fd_table[fd].position]
                        ELSE NotOpen],
        answer <- returned,
        down <- halted

\* Reads give the bytes last written, writes extend and never shift a file,
\* a descriptor's offset moves by what its own calls transferred, and the
\* calls of vfs.c leave every descriptor of other callers alone.  The lengths
\* wrap, and the machine halts, only when a read starts past the end of the
\* file, a write past MAX_FILE_SIZE, or start and size add up to 2^32.
ImplementsFileStore == Store!StoreSpec
=============================================================================
