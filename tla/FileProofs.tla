------------------------------ MODULE FileProofs ----------------------------
(***************************************************************************)
(* Proofs about File, for every number of descriptors, every size of an    *)
(* inode that is less than half a word, and every set of files, bytes,     *)
(* sizes, offsets and buffers.                                             *)
(*                                                                         *)
(* The arithmetic is in ReadFacts: a memcpy stays in the data array just   *)
(* when the range begins no later than its end and does not wrap, and then *)
(* the uint32_t lengths are the true ones.  With what lies beyond the end  *)
(* of every file known to be zero, each call of file.c and vfs.c is then   *)
(* an operation of FileStore.                                              *)
(***************************************************************************)
EXTENDS File, SequenceTheorems, TLAPS

Node == [size : 0 .. MAX_FILE_SIZE, data : [0 .. MAX_FILE_SIZE - 1 -> Byte]]
Entry == [in_use : BOOLEAN, inode_index : FileId, position : 0 .. Word - 1]

\* The inodes and descriptors are well typed, and holes are zero.
FileInv ==
    /\ inode \in [FileId -> Node]
    /\ fd_table \in [Fd -> Entry]
    /\ HolesAreZero

-----------------------------------------------------------------------------
(* Lengths *)

\* What uint32_t arithmetic makes of a sum or a difference of two words.
LEMMA Wraps ==
    ASSUME NEW x \in Int, -Word < x, x < 2 * Word
    PROVE  /\ x < 0 => x % Word = x + Word
           /\ (0 <= x /\ x < Word) => x % Word = x
           /\ Word <= x => x % Word = x - Word
  BY LimitAssumption

\* The length that file_read and file_write compute for a file that ends at
\* end: the copy stays in the data array when the range was promised, and
\* then it is the smaller of what was asked for and what is there.
LEMMA ReadFacts ==
    ASSUME NEW pos \in 0 .. Word - 1, NEW size \in 0 .. Word - 1,
           NEW end \in 0 .. MAX_FILE_SIZE
    PROVE  LET n == IF (pos + size) % Word > end THEN (end - pos) % Word ELSE size
           IN  /\ n \in 0 .. Word - 1
               /\ ~Wild(pos, n) <=> Store!Promised(pos, size, end)
               /\ ~Wild(pos, n) => /\ n = Store!Smaller(size, end - pos)
                                   /\ n \in 0 .. MAX_FILE_SIZE
                                   /\ n <= size
                                   /\ pos + n \in 0 .. MAX_FILE_SIZE
                                   /\ pos + n \in 0 .. Word - 1
  <1> DEFINE sum == (pos + size) % Word
             rest == (end - pos) % Word
             n == IF sum > end THEN rest ELSE size
  <1>1. /\ Word \in Nat /\ MAX_FILE_SIZE \in Nat /\ 2 * MAX_FILE_SIZE < Word
        /\ pos \in Nat /\ size \in Nat /\ end \in Nat
        /\ pos < Word /\ size < Word /\ end <= MAX_FILE_SIZE
    BY LimitAssumption
  <1>2. /\ pos + size < Word => sum = pos + size
        /\ Word <= pos + size => sum = pos + size - Word
    BY <1>1, Wraps
  <1>3. /\ pos <= end => rest = end - pos
        /\ end < pos => rest = end - pos + Word
    BY <1>1, Wraps
  <1> HIDE DEF sum, rest
  <1>4. n \in 0 .. Word - 1
    BY <1>1, <1>2, <1>3
  <1>5. ~(pos + n > MAX_FILE_SIZE) <=> pos <= end /\ pos + size < Word
    BY <1>1, <1>2, <1>3
  <1>6. ~(pos + n > MAX_FILE_SIZE) =>
            /\ n = IF size < end - pos THEN size ELSE end - pos
            /\ n \in 0 .. MAX_FILE_SIZE
            /\ n <= size
            /\ pos + n \in 0 .. MAX_FILE_SIZE
            /\ pos + n \in 0 .. Word - 1
    BY <1>1, <1>2, <1>3, <1>4, <1>5
  <1> QED
    BY <1>4, <1>5, <1>6 DEF Wild, Store!Promised, Store!Smaller, n, sum, rest

\* A range of a read, by the length the code computes.
LEMMA ReadLengthFacts ==
    ASSUME NEW pos \in 0 .. Word - 1, NEW size \in 0 .. Word - 1,
           NEW end \in 0 .. MAX_FILE_SIZE
    PROVE  LET n == ReadLength(pos, size, end)
           IN  /\ n \in 0 .. Word - 1
               /\ ~Wild(pos, n) <=> Store!Promised(pos, size, end)
               /\ ~Wild(pos, n) => /\ n = Store!Smaller(size, end - pos)
                                   /\ n \in 0 .. MAX_FILE_SIZE
                                   /\ n <= size
                                   /\ pos + n \in 0 .. MAX_FILE_SIZE
                                   /\ pos + n \in 0 .. Word - 1
  BY ReadFacts DEF ReadLength

\* The buffers that callers write are shorter than half a word.
LEMMA BufferFacts ==
    ASSUME NEW buf \in Buffer
    PROVE  /\ buf \in Seq(Byte)
           /\ Len(buf) \in 0 .. Word - 1
           /\ Store!Promised(0, Len(buf), MAX_FILE_SIZE)
  <1>1. buf \in Seq(Byte) /\ Len(buf) < Word \div 2
    BY CallAssumption
  <1>2. Len(buf) \in Nat
    BY <1>1, LenProperties
  <1>3. Word \in Nat /\ MAX_FILE_SIZE \in Nat /\ Word \div 2 <= Word
    BY LimitAssumption
  <1>4. Word \div 2 \in Int
    BY <1>3
  <1>5. Len(buf) < Word
    <2> DEFINE l == Len(buf)
               h == Word \div 2
    <2> HIDE DEF l, h
    <2>1. l \in Nat /\ h \in Int /\ l < h /\ h <= Word
      BY <1>1, <1>2, <1>3, <1>4 DEF l, h
    <2>2. l < Word
      BY <2>1, <1>3
    <2> QED  BY <2>2 DEF l
  <1> QED  BY <1>1, <1>2, <1>3, <1>5 DEF Store!Promised

\* A range of a write, by the length the code computes.
LEMMA WriteLengthFacts ==
    ASSUME NEW pos \in 0 .. Word - 1, NEW buf \in Buffer
    PROVE  LET n == WriteLength(pos, Len(buf))
           IN  /\ n \in 0 .. Word - 1
               /\ ~Wild(pos, n) <=> Store!Promised(pos, Len(buf), MAX_FILE_SIZE)
               /\ ~Wild(pos, n) => /\ n = Store!Fitting(pos, buf)
                                   /\ n \in 0 .. MAX_FILE_SIZE
                                   /\ n <= Len(buf)
                                   /\ pos + n \in 0 .. MAX_FILE_SIZE
                                   /\ pos + n \in 0 .. Word - 1
  <1>1. MAX_FILE_SIZE \in 0 .. MAX_FILE_SIZE
    BY LimitAssumption
  <1> QED
    BY <1>1, BufferFacts, ReadFacts DEF WriteLength, Store!Fitting
-----------------------------------------------------------------------------
(* Data *)

\* A copy that stays in the array leaves an inode an inode, and what lies
\* beyond its end zero.
LEMMA CopiedInFacts ==
    ASSUME NEW node \in Node, NEW pos \in Nat, NEW n \in Nat,
           pos + n <= MAX_FILE_SIZE,
           NEW buf \in Seq(Byte), n <= Len(buf),
           \A k \in node.size .. MAX_FILE_SIZE - 1 : node.data[k] = Zero
    PROVE  LET new == CopiedIn(node, pos, n, buf)
           IN  /\ new \in Node
               /\ new.size = Store!Larger(node.size, pos + n)
               /\ \A k \in new.size .. MAX_FILE_SIZE - 1 : new.data[k] = Zero
               /\ \A k \in 0 .. MAX_FILE_SIZE - 1 :
                     new.data[k] = IF pos <= k /\ k < pos + n
                                      THEN buf[k - pos + 1] ELSE node.data[k]
  <1> DEFINE size == IF pos + n > node.size THEN pos + n ELSE node.size
             data == [k \in 0 .. MAX_FILE_SIZE - 1 |->
                        IF pos <= k /\ k < pos + n THEN buf[k - pos + 1]
                                                   ELSE node.data[k]]
             new == CopiedIn(node, pos, n, buf)
  <1>1. /\ node.size \in 0 .. MAX_FILE_SIZE
        /\ node.data \in [0 .. MAX_FILE_SIZE - 1 -> Byte]
        /\ MAX_FILE_SIZE \in Nat
    BY LimitAssumption DEF Node
  <1>2. Len(buf) \in Nat
    BY LenProperties
  <1>3. \A k \in Int : pos <= k /\ k < pos + n => buf[k - pos + 1] \in Byte
    BY <1>2, ElementOfSeq
  <1>4. data \in [0 .. MAX_FILE_SIZE - 1 -> Byte]
    BY <1>1, <1>3
  <1>5. size \in 0 .. MAX_FILE_SIZE
    BY <1>1
  <1>6. \A k \in 0 .. MAX_FILE_SIZE - 1 :
           data[k] = IF pos <= k /\ k < pos + n THEN buf[k - pos + 1]
                                                ELSE node.data[k]
    OBVIOUS
  <1>7. new = [size |-> size, data |-> data]
    BY DEF CopiedIn
  <1>8. \A k \in size .. MAX_FILE_SIZE - 1 : data[k] = Zero
    <2> SUFFICES ASSUME NEW k \in size .. MAX_FILE_SIZE - 1
                 PROVE  data[k] = Zero
      OBVIOUS
    <2>1. /\ k \in node.size .. MAX_FILE_SIZE - 1
          /\ k \in 0 .. MAX_FILE_SIZE - 1
          /\ ~(k < pos + n)
      BY <1>1, <1>5
    <2> QED  BY <2>1, <1>6
  <1>9. size = Store!Larger(node.size, pos + n)
    BY <1>1 DEF Store!Larger
  <1> HIDE DEF size, data
  <1>10. new \in Node /\ new.size = size /\ new.data = data
    BY <1>4, <1>5, <1>7 DEF Node
  <1> HIDE DEF new
  <1> QED  BY <1>6, <1>8, <1>9, <1>10 DEF new

\* The bytes of a file that its caller can see.
Run(node) == [k \in 1 .. node.size |-> node.data[k - 1]]

LEMMA RunFacts ==
    ASSUME NEW node \in Node
    PROVE  /\ Run(node) \in Seq(Byte)
           /\ Len(Run(node)) = node.size
           /\ DOMAIN Run(node) = 1 .. node.size
           /\ \A k \in 1 .. node.size : Run(node)[k] = node.data[k - 1]
  <1>1. /\ node.size \in 0 .. MAX_FILE_SIZE
        /\ node.data \in [0 .. MAX_FILE_SIZE - 1 -> Byte]
        /\ MAX_FILE_SIZE \in Nat
    BY LimitAssumption DEF Node
  <1>2. \A k \in 1 .. node.size : k - 1 \in 0 .. MAX_FILE_SIZE - 1
    BY <1>1
  <1>3. Run(node) \in [1 .. node.size -> Byte]
    BY <1>1, <1>2 DEF Run
  <1>4. Run(node) \in Seq(Byte)
    BY <1>1, <1>3
  <1>5. DOMAIN Run(node) = 1 .. node.size
    BY DEF Run
  <1>6. Len(Run(node)) = node.size
    BY <1>1, <1>4, <1>5, LenProperties
  <1> QED  BY <1>4, <1>5, <1>6 DEF Run
\* What a read copies out is what a caller of the abstract store would see.
LEMMA CopiedOutIsBytesAt ==
    ASSUME NEW node \in Node, NEW pos \in 0 .. Word - 1,
           NEW size \in 0 .. Word - 1,
           Store!Promised(pos, size, node.size)
    PROVE  LET n == ReadLength(pos, size, node.size)
           IN  /\ CopiedOut(node, pos, n) = Store!BytesAt(Run(node), pos, size)
               /\ Len(CopiedOut(node, pos, n)) = n
  <1> DEFINE n == ReadLength(pos, size, node.size)
             out == CopiedOut(node, pos, n)
             run == Run(node)
  <1>1. /\ node.size \in 0 .. MAX_FILE_SIZE
        /\ node.data \in [0 .. MAX_FILE_SIZE - 1 -> Byte]
        /\ MAX_FILE_SIZE \in Nat
    BY LimitAssumption DEF Node
  <1>2. /\ n = Store!Smaller(size, node.size - pos)
        /\ n \in 0 .. MAX_FILE_SIZE
        /\ pos <= node.size
    BY <1>1, ReadLengthFacts DEF Store!Promised
  <1>3. n <= node.size - pos
    <2>1. size \in Int /\ node.size \in Int /\ pos \in Int
      BY <1>1, LimitAssumption
    <2> HIDE DEF n
    <2> QED  BY <2>1, <1>2 DEF Store!Smaller
  <1>4. \A k \in 1 .. n : /\ pos + k \in 1 .. node.size
                          /\ pos + k - 1 \in 0 .. MAX_FILE_SIZE - 1
                          /\ (pos + k) - 1 = pos + k - 1
    <2>1. pos \in Nat
      BY LimitAssumption
    <2> HIDE DEF n
    <2> QED  BY <2>1, <1>1, <1>2, <1>3
  <1>5. /\ Len(run) = node.size
        /\ \A k \in 1 .. node.size : run[k] = node.data[k - 1]
    BY RunFacts
  <1>6. \A k \in 1 .. n : run[pos + k] = node.data[pos + k - 1]
    <2> HIDE DEF n, run
    <2> QED  BY <1>4, <1>5
  <1>7. out = [k \in 1 .. n |-> node.data[pos + k - 1]]
    BY DEF CopiedOut
  <1>8. Store!BytesAt(run, pos, size) = [k \in 1 .. n |-> run[pos + k]]
    <2> HIDE DEF n, run
    <2> QED  BY <1>2, <1>5 DEF Store!BytesAt
  <1> HIDE DEF n, run, out
  <1>9. out = Store!BytesAt(run, pos, size)
    BY <1>6, <1>7, <1>8
  <1>10. out \in [1 .. n -> Byte] /\ DOMAIN out = 1 .. n
    BY <1>1, <1>4, <1>7
  <1>11. out \in Seq(Byte)
    BY <1>2, <1>10
  <1>12. Len(out) = n
    BY <1>2, <1>10, <1>11, LenProperties
  <1> QED  BY <1>9, <1>12 DEF n, run, out

\* What a write leaves is the abstract file with the buffer patched in: here
\* the gap that a seek left is blank because what lay there was zero.
LEMMA CopiedInIsPatched ==
    ASSUME NEW node \in Node, NEW pos \in 0 .. Word - 1, NEW buf \in Buffer,
           \A k \in node.size .. MAX_FILE_SIZE - 1 : node.data[k] = Zero,
           Store!Promised(pos, Len(buf), MAX_FILE_SIZE)
    PROVE  LET n == WriteLength(pos, Len(buf))
               new == CopiedIn(node, pos, n, buf)
           IN  /\ new \in Node
               /\ \A k \in new.size .. MAX_FILE_SIZE - 1 : new.data[k] = Zero
               /\ Run(new) = Store!Patched(Run(node), pos, buf)
  <1> DEFINE n == WriteLength(pos, Len(buf))
             new == CopiedIn(node, pos, n, buf)
             run == Run(node)
  <1>1. /\ node.size \in 0 .. MAX_FILE_SIZE
        /\ MAX_FILE_SIZE \in Nat
        /\ pos \in Nat
    BY LimitAssumption DEF Node
  <1>2. /\ n = Store!Fitting(pos, buf)
        /\ n \in Nat
        /\ n <= Len(buf)
        /\ pos + n <= MAX_FILE_SIZE
    BY WriteLengthFacts
  <1>3. buf \in Seq(Byte)
    BY BufferFacts
  <1> HIDE DEF n
  <1>4. /\ new \in Node
        /\ new.size = Store!Larger(node.size, pos + n)
        /\ \A k \in new.size .. MAX_FILE_SIZE - 1 : new.data[k] = Zero
        /\ \A k \in 0 .. MAX_FILE_SIZE - 1 :
              new.data[k] = IF pos <= k /\ k < pos + n
                               THEN buf[k - pos + 1] ELSE node.data[k]
    BY <1>1, <1>2, <1>3, CopiedInFacts
  <1> HIDE DEF new
  <1>5. /\ new.size \in 0 .. MAX_FILE_SIZE
        /\ Len(run) = node.size
        /\ \A k \in 1 .. node.size : run[k] = node.data[k - 1]
    BY <1>4, RunFacts DEF Node
  <1> HIDE DEF run
  <1>6. ASSUME NEW k \in 1 .. new.size
        PROVE  new.data[k - 1] = IF pos < k /\ k <= pos + n THEN buf[k - pos]
                                 ELSE IF k <= node.size THEN run[k] ELSE Zero
    <2> DEFINE j == k - 1
    <2>1. /\ j \in 0 .. MAX_FILE_SIZE - 1
          /\ (pos <= j /\ j < pos + n) <=> (pos < k /\ k <= pos + n)
          /\ j - pos + 1 = k - pos
      BY <1>1, <1>2, <1>5
    <2>2. new.data[j] = IF pos < k /\ k <= pos + n THEN buf[k - pos]
                                                   ELSE node.data[j]
      <3>1. new.data[j] = IF pos <= j /\ j < pos + n
                             THEN buf[j - pos + 1] ELSE node.data[j]
        BY <1>4, <2>1
      <3> HIDE DEF j
      <3> QED  BY <3>1, <2>1
    <2>3. k <= node.size => run[k] = node.data[j]
      BY <1>1, <1>5
    <2>4. ~(k <= node.size) => node.data[j] = Zero
      <3>1. ~(k <= node.size) => j \in node.size .. MAX_FILE_SIZE - 1
        BY <1>1, <2>1
      <3> QED  BY <3>1
    <2> HIDE DEF j
    <2>5. new.data[j] = IF pos < k /\ k <= pos + n THEN buf[k - pos]
                        ELSE IF k <= node.size THEN run[k] ELSE Zero
      BY <2>2, <2>3, <2>4
    <2> QED  BY <2>5 DEF j
  <1>7. Run(new) = [k \in 1 .. new.size |->
                      IF pos < k /\ k <= pos + n THEN buf[k - pos]
                      ELSE IF k <= node.size THEN run[k] ELSE Zero]
    BY <1>6 DEF Run
  <1>8. Run(new) = Store!Patched(run, pos, buf)
    BY <1>2, <1>4, <1>5, <1>7 DEF Store!Patched
  <1> QED  BY <1>4, <1>8 DEF n, new, run
-----------------------------------------------------------------------------
(* The invariant *)

\* Opening a descriptor and closing it again leave well-typed entries.
LEMMA EntryFacts ==
    ASSUME FileInv, NEW fd \in Fd
    PROVE  /\ inode[fd_table[fd].inode_index] \in Node
           /\ fd_table[fd].inode_index \in FileId
           /\ fd_table[fd].position \in 0 .. Word - 1
           /\ fd_table[fd].in_use \in BOOLEAN
           /\ \A pos \in 0 .. Word - 1 :
                 [fd_table[fd] EXCEPT !.position = pos] \in Entry
           /\ [fd_table[fd] EXCEPT !.in_use = FALSE] \in Entry
           /\ \A f \in FileId, pos \in 0 .. Word - 1 :
                 /\ Released(f, pos) \in Entry
                 /\ [in_use |-> TRUE, inode_index |-> f, position |-> pos] \in Entry
  BY DEF FileInv, Entry, Released

\* One entry of fd_table changes and no inode does.
LEMMA TableStep ==
    ASSUME FileInv, NEW fd \in Fd, NEW e \in Entry,
           fd_table' = [fd_table EXCEPT ![fd] = e], UNCHANGED inode
    PROVE  FileInv'
  BY DEF FileInv, HolesAreZero

\* A buffer that fits is written to a file through a descriptor.
LEMMA WriteStep ==
    ASSUME FileInv, NEW fd \in Fd, NEW e \in Entry, NEW f \in FileId,
           NEW pos \in 0 .. Word - 1, NEW buf \in Buffer,
           ~Wild(pos, WriteLength(pos, Len(buf))),
           inode' = [inode EXCEPT ![f] =
                       CopiedIn(@, pos, WriteLength(pos, Len(buf)), buf)],
           fd_table' = [fd_table EXCEPT ![fd] = e]
    PROVE  FileInv'
  <1> DEFINE new == CopiedIn(inode[f], pos, WriteLength(pos, Len(buf)), buf)
  <1>1. inode[f] \in Node
    BY DEF FileInv
  <1>2. \A k \in inode[f].size .. MAX_FILE_SIZE - 1 : inode[f].data[k] = Zero
    BY DEF FileInv, HolesAreZero
  <1>3. Store!Promised(pos, Len(buf), MAX_FILE_SIZE)
    BY WriteLengthFacts
  <1>4. /\ new \in Node
        /\ \A k \in new.size .. MAX_FILE_SIZE - 1 : new.data[k] = Zero
    BY <1>1, <1>2, <1>3, CopiedInIsPatched
  <1>5. inode' = [inode EXCEPT ![f] = new]
    OBVIOUS
  <1> HIDE DEF new
  <1> QED  BY <1>4, <1>5 DEF FileInv, HolesAreZero

LEMMA InductiveInvariant == Spec => []FileInv
  <1>1. Init => FileInv
    <2> SUFFICES ASSUME Init PROVE FileInv
      OBVIOUS
    <2> DEFINE blank == [k \in 0 .. MAX_FILE_SIZE - 1 |-> Zero]
               empty == [size |-> 0, data |-> blank]
    <2>1. blank \in [0 .. MAX_FILE_SIZE - 1 -> Byte]
      BY CallAssumption
    <2>2. \A k \in 0 .. MAX_FILE_SIZE - 1 : blank[k] = Zero
      OBVIOUS
    <2>3. 0 \in 0 .. MAX_FILE_SIZE
      BY LimitAssumption
    <2> HIDE DEF blank
    <2>4. empty \in Node /\ empty.size = 0 /\ empty.data = blank
      BY <2>1, <2>3 DEF Node
    <2>5. inode = [f \in FileId |-> empty]
      BY DEF Init, blank
    <2> HIDE DEF empty
    <2>6. inode \in [FileId -> Node] /\ HolesAreZero
      BY <2>2, <2>4, <2>5 DEF HolesAreZero
    <2>7. fd_table \in [Fd -> Entry]
      <3>1. 0 \in 0 .. Word - 1
        BY LimitAssumption
      <3>2. [in_use : {FALSE}, inode_index : FileId, position : {0}] \subseteq Entry
        BY <3>1 DEF Entry
      <3> QED  BY <3>2 DEF Init
    <2> QED  BY <2>6, <2>7 DEF FileInv
  <1>2. FileInv /\ [Next]_vars => FileInv'
    <2> SUFFICES ASSUME FileInv, [Next]_vars
                 PROVE  FileInv'
      OBVIOUS
    <2>1. ASSUME UNCHANGED <<inode, fd_table>> PROVE FileInv'
      BY <2>1 DEF FileInv, HolesAreZero
    <2>2. ASSUME NEW f \in FileId, file_open(f) PROVE FileInv'
      <3>1. CASE NoFreeFd
        BY <2>1, <2>2, <3>1 DEF file_open, Fail
      <3>2. CASE ~NoFreeFd
        <4>1. PICK fd \in Fd :
                /\ fd_table' = [fd_table EXCEPT ![fd] =
                      [in_use |-> TRUE, inode_index |-> f, position |-> 0]]
                /\ UNCHANGED inode
          BY <2>2, <3>2 DEF file_open
        <4>2. 0 \in 0 .. Word - 1
          BY LimitAssumption
        <4> QED  BY <4>1, <4>2, EntryFacts, TableStep
      <3> QED  BY <3>1, <3>2
    <2>3. ASSUME NEW fd \in Fd, file_close(fd) PROVE FileInv'
      BY <2>3, EntryFacts, TableStep DEF file_close
    <2>4. ASSUME NEW fd \in Fd, NEW offset \in Offset, file_seek(fd, offset)
          PROVE  FileInv'
      <3>1. CASE ~fd_table[fd].in_use
        BY <2>1, <2>4, <3>1 DEF file_seek, Fail
      <3>2. CASE fd_table[fd].in_use
        <4>1. offset \in 0 .. Word - 1
          BY CallAssumption
        <4>2. /\ fd_table' = [fd_table EXCEPT ![fd] =
                                 [fd_table[fd] EXCEPT !.position = offset]]
              /\ UNCHANGED inode
          BY <2>4, <3>2 DEF file_seek
        <4> QED  BY <4>1, <4>2, EntryFacts, TableStep
      <3> QED  BY <3>1, <3>2
    <2>5. ASSUME NEW fd \in Fd, NEW size \in Size, file_read(fd, size)
          PROVE  FileInv'
      <3> DEFINE node == inode[fd_table[fd].inode_index]
                 pos == fd_table[fd].position
                 n == ReadLength(pos, size, node.size)
      <3>1. CASE ~fd_table[fd].in_use \/ Wild(pos, n)
        BY <2>1, <2>5, <3>1 DEF file_read, Fail, Halt
      <3>2. CASE fd_table[fd].in_use /\ ~Wild(pos, n)
        <4>1. /\ node \in Node /\ pos \in 0 .. Word - 1
              /\ size \in 0 .. Word - 1
          BY EntryFacts, CallAssumption
        <4>2. pos + n \in 0 .. Word - 1
          BY <3>2, <4>1, ReadLengthFacts DEF Node
        <4>3. /\ fd_table' = [fd_table EXCEPT ![fd] =
                                 [fd_table[fd] EXCEPT !.position = pos + n]]
              /\ UNCHANGED inode
          BY <2>5, <3>2 DEF file_read
        <4> QED  BY <4>2, <4>3, EntryFacts, TableStep
      <3> QED  BY <3>1, <3>2
    <2>6. ASSUME NEW fd \in Fd, NEW buf \in Buffer, file_write(fd, buf)
          PROVE  FileInv'
      <3> DEFINE f == fd_table[fd].inode_index
                 pos == fd_table[fd].position
                 n == WriteLength(pos, Len(buf))
                 e == [fd_table[fd] EXCEPT !.position = pos + n]
      <3>1. CASE ~fd_table[fd].in_use \/ Wild(pos, n)
        BY <2>1, <2>6, <3>1 DEF file_write, Fail, Halt
      <3>2. CASE fd_table[fd].in_use /\ ~Wild(pos, n)
        <4>1. f \in FileId /\ pos \in 0 .. Word - 1
          BY EntryFacts
        <4>2. pos + n \in 0 .. Word - 1
          BY <3>2, <4>1, WriteLengthFacts
        <4>3. e \in Entry
          BY <4>2, EntryFacts
        <4>4. /\ inode' = [inode EXCEPT ![f] = CopiedIn(@, pos, n, buf)]
              /\ fd_table' = [fd_table EXCEPT ![fd] = e]
          BY <2>6, <3>2 DEF file_write
        <4> HIDE DEF f, pos, e
        <4> QED  BY <3>2, <4>1, <4>3, <4>4, WriteStep
      <3> QED  BY <3>1, <3>2
    <2>7. ASSUME NEW f \in FileId, NEW size \in Size, NEW offset \in Offset,
                 vfs_read_at(f, size, offset)
          PROVE  FileInv'
      <3> DEFINE n == ReadLength(offset, size, inode[f].size)
      <3>1. CASE NoFreeFd \/ Wild(offset, n)
        BY <2>1, <2>7, <3>1 DEF vfs_read_at, Fail, Halt
      <3>2. CASE ~NoFreeFd /\ ~Wild(offset, n)
        <4>1. /\ inode[f].size \in 0 .. MAX_FILE_SIZE
              /\ size \in 0 .. Word - 1 /\ offset \in 0 .. Word - 1
          BY CallAssumption DEF FileInv, Node
        <4>2. offset + n \in 0 .. Word - 1
          BY <3>2, <4>1, ReadLengthFacts
        <4>3. PICK fd \in Fd :
                /\ fd_table' = [fd_table EXCEPT ![fd] = Released(f, offset + n)]
                /\ UNCHANGED inode
          BY <2>7, <3>2 DEF vfs_read_at
        <4> QED  BY <4>2, <4>3, EntryFacts, TableStep
      <3> QED  BY <3>1, <3>2
    <2>8. ASSUME NEW f \in FileId, NEW buf \in Buffer, vfs_write_file(f, buf)
          PROVE  FileInv'
      <3> DEFINE n == WriteLength(0, Len(buf))
      <3>1. CASE NoFreeFd
        BY <2>1, <2>8, <3>1 DEF vfs_write_file, Fail
      <3>2. CASE ~NoFreeFd
        <4>1. 0 \in 0 .. Word - 1
          BY LimitAssumption
        <4>2. ~Wild(0, n) /\ n \in 0 .. Word - 1
          BY <4>1, BufferFacts, WriteLengthFacts
        <4>3. PICK fd \in Fd :
                /\ inode' = [inode EXCEPT ![f] = CopiedIn(@, 0, n, buf)]
                /\ fd_table' = [fd_table EXCEPT ![fd] = Released(f, n)]
          BY <2>8, <3>2 DEF vfs_write_file
        <4>4. Released(f, n) \in Entry
          BY <4>2, EntryFacts
        <4> QED  BY <4>1, <4>2, <4>3, <4>4, WriteStep
      <3> QED  BY <3>1, <3>2
    <2>9. CASE UNCHANGED vars
      BY <2>1, <2>9 DEF vars
    <2> QED
      BY <2>2, <2>3, <2>4, <2>5, <2>6, <2>7, <2>8, <2>9 DEF Next
  <1> QED  BY <1>1, <1>2, PTL DEF Spec

\* What lies beyond the end of a file is zero after any sequence of calls of
\* file.c and vfs.c, so the gap that file_seek leaves never shows old bytes.
THEOREM HolesStayZero == Spec => []HolesAreZero
  <1>1. FileInv => HolesAreZero
    BY DEF FileInv
  <1> QED  BY <1>1, InductiveInvariant, PTL
-----------------------------------------------------------------------------
(* The refinement *)

\* What a caller of the abstract store sees of the inodes and descriptors.
View(e) ==
    IF e.in_use THEN [file |-> e.inode_index, pos |-> e.position] ELSE NotOpen
Content == [f \in FileId |-> Run(inode[f])]
Opened == [fd \in Fd |-> View(fd_table[fd])]
LEMMA OpenedStep ==
    ASSUME NEW fd \in Fd, NEW e,
           fd_table \in [Fd -> Entry],
           fd_table' = [fd_table EXCEPT ![fd] = e]
    PROVE  Opened' = [Opened EXCEPT ![fd] = View(e)]
  BY DEF Opened

LEMMA ContentStep ==
    ASSUME NEW f \in FileId, NEW node,
           inode \in [FileId -> Node],
           inode' = [inode EXCEPT ![f] = node]
    PROVE  Content' = [Content EXCEPT ![f] = Run(node)]
  BY DEF Content

\* A free descriptor that is opened and closed again shows nothing.
LEMMA ReleasedStep ==
    ASSUME NEW fd \in Fd, NEW f, NEW pos, FreeFd(fd),
           fd_table \in [Fd -> Entry],
           fd_table' = [fd_table EXCEPT ![fd] = Released(f, pos)]
    PROVE  Opened' = Opened
  <1> DEFINE e == Released(f, pos)
  <1>1. Opened' = [Opened EXCEPT ![fd] = NotOpen]
    <2>1. View(e) = NotOpen
      BY DEF View, Released
    <2>2. fd_table' = [fd_table EXCEPT ![fd] = e]
      OBVIOUS
    <2> HIDE DEF e
    <2>3. Opened' = [Opened EXCEPT ![fd] = View(e)]
      BY <2>2, OpenedStep
    <2> QED  BY <2>1, <2>3
  <1>2. Opened[fd] = NotOpen
    BY DEF FreeFd, Opened, View
  <1>3. Opened = [d \in Fd |-> Opened[d]]
    BY DEF Opened
  <1> HIDE DEF Opened
  <1> QED  BY <1>1, <1>2, <1>3

\* A descriptor that is in use shows a file and an offset.
LEMMA InUse ==
    ASSUME FileInv, NEW fd \in Fd, fd_table[fd].in_use
    PROVE  /\ Opened[fd] = [file |-> fd_table[fd].inode_index,
                            pos |-> fd_table[fd].position]
           /\ Opened[fd].file = fd_table[fd].inode_index
           /\ Opened[fd].pos = fd_table[fd].position
           /\ Opened[fd] # NotOpen
           /\ Content[fd_table[fd].inode_index] =
                 Run(inode[fd_table[fd].inode_index])
  <1>1. Opened[fd] = [file |-> fd_table[fd].inode_index,
                      pos |-> fd_table[fd].position]
    BY DEF Opened, View
  <1>2. [file |-> fd_table[fd].inode_index, pos |-> fd_table[fd].position]
           \in [file : FileId, pos : 0 .. Word - 1]
    BY EntryFacts
  <1>3. fd_table[fd].inode_index \in FileId
    BY EntryFacts
  <1> QED  BY <1>1, <1>2, <1>3, CallAssumption DEF Content

\* The offset of a descriptor that is in use moves.
LEMMA PositionStep ==
    ASSUME FileInv, NEW fd \in Fd, fd_table[fd].in_use,
           NEW pos \in 0 .. Word - 1,
           fd_table' = [fd_table EXCEPT ![fd].position = pos]
    PROVE  Opened' = [Opened EXCEPT ![fd].pos = pos]
  <1> DEFINE old == fd_table[fd]
             e == [old EXCEPT !.position = pos]
  <1>1. old \in Entry
    BY DEF FileInv
  <1>2. View(e) = [file |-> old.inode_index, pos |-> pos]
    <2> HIDE DEF old
    <2> QED  BY <1>1 DEF View, Entry, old
  <1>3. Opened' = [Opened EXCEPT ![fd] = View(e)]
    <2>1. fd_table' = [fd_table EXCEPT ![fd] = e] /\ fd_table \in [Fd -> Entry]
      BY DEF FileInv
    <2> HIDE DEF e
    <2> QED  BY <2>1, OpenedStep
  <1>4. [Opened[fd] EXCEPT !.pos = pos] = [file |-> old.inode_index, pos |-> pos]
    <2>1. Opened[fd] = [file |-> old.inode_index, pos |-> old.position]
      BY InUse
    <2> HIDE DEF old
    <2> QED  BY <2>1
  <1> HIDE DEF e, old
  <1>5. [Opened EXCEPT ![fd].pos = pos] =
            [Opened EXCEPT ![fd] = [Opened[fd] EXCEPT !.pos = pos]]
    OBVIOUS
  <1> QED  BY <1>2, <1>3, <1>4, <1>5
\* The operations of the abstract store, in terms of Content and Opened.
LEMMA CallOperations ==
    /\ \A d \in Fd, f \in FileId : Store!Open(d, f) <=>
          /\ Opened[d] = NotOpen
          /\ Opened' = [Opened EXCEPT ![d] = [file |-> f, pos |-> 0]]
          /\ returned' = [ret |-> d, bytes |-> <<>>]
          /\ Content' = Content /\ halted' = halted
    /\ \A d \in Fd : Store!Close(d) <=>
          /\ Opened' = [Opened EXCEPT ![d] = NotOpen]
          /\ returned' = [ret |-> 0, bytes |-> <<>>]
          /\ Content' = Content /\ halted' = halted
    /\ \A d \in Fd, pos \in Offset : Store!Seek(d, pos) <=>
          /\ Opened[d] # NotOpen
          /\ Opened' = [Opened EXCEPT ![d].pos = pos]
          /\ returned' = [ret |-> 0, bytes |-> <<>>]
          /\ Content' = Content /\ halted' = halted
    /\ Store!Refuse <=>
          /\ returned' = [ret |-> -1, bytes |-> <<>>]
          /\ Content' = Content /\ Opened' = Opened /\ halted' = halted
  BY DEF Store!Open, Store!Close, Store!Seek, Store!Refuse, Store!Answer,
         Content, Opened, Run, View

LEMMA ReadOperation ==
    ASSUME NEW d \in Fd, NEW size \in Size
    PROVE  LET run == Content[Opened[d].file]
               pos == Opened[d].pos
               got == Store!BytesAt(run, pos, size)
           IN  Store!Read(d, size) <=>
                 /\ Opened[d] # NotOpen
                 /\ Store!Promised(pos, size, Len(run))
                 /\ Opened' = [Opened EXCEPT ![d].pos = pos + Len(got)]
                 /\ returned' = [ret |-> Len(got), bytes |-> got]
                 /\ Content' = Content /\ halted' = halted
  BY DEF Store!Read, Store!Answer, Content, Opened, Run, View

LEMMA WriteOperation ==
    ASSUME NEW d \in Fd, NEW buf \in Buffer
    PROVE  LET f == Opened[d].file
               pos == Opened[d].pos
               n == Store!Fitting(pos, buf)
           IN  Store!Write(d, buf) <=>
                 /\ Opened[d] # NotOpen
                 /\ Store!Promised(pos, Len(buf), MAX_FILE_SIZE)
                 /\ Content' = [Content EXCEPT ![f] = Store!Patched(@, pos, buf)]
                 /\ Opened' = [Opened EXCEPT ![d].pos = pos + n]
                 /\ returned' = [ret |-> n, bytes |-> <<>>]
                 /\ halted' = halted
  BY DEF Store!Write, Store!Answer, Content, Opened, Run, View

LEMMA WholeOperations ==
    ASSUME NEW f \in FileId
    PROVE  /\ \A size \in Size, pos \in Offset :
                LET got == Store!BytesAt(Content[f], pos, size)
                IN  Store!ReadWhole(f, size, pos) <=>
                      /\ Store!Promised(pos, size, Len(Content[f]))
                      /\ returned' = [ret |-> Len(got), bytes |-> got]
                      /\ Content' = Content /\ Opened' = Opened
                      /\ halted' = halted
           /\ \A buf \in Buffer : Store!WriteWhole(f, buf) <=>
                /\ Store!Promised(0, Len(buf), MAX_FILE_SIZE)
                /\ Content' = [Content EXCEPT ![f] = Store!Patched(@, 0, buf)]
                /\ returned' = IF Store!Fitting(0, buf) < Len(buf)
                                  THEN [ret |-> -1, bytes |-> <<>>]
                                  ELSE [ret |-> 0, bytes |-> <<>>]
                /\ Opened' = Opened /\ halted' = halted
  BY DEF Store!ReadWhole, Store!WriteWhole, Store!Answer,
         Content, Opened, Run, View

\* A halt is the abstract machine's when its request was not promised.
LEMMA HaltOperation ==
    ASSUME NEW pos, NEW size, NEW end,
           Halt(pos, size, end), ~Store!Promised(pos, size, end),
           \/ \E d \in {d \in Fd : Opened[d] # NotOpen} :
                 /\ pos = Opened[d].pos
                 /\ \/ size \in Size /\ end = Len(Content[Opened[d].file])
                    \/ (\E buf \in Buffer : size = Len(buf)) /\ end = MAX_FILE_SIZE
           \/ /\ size \in Size /\ pos \in Offset
              /\ \E f \in FileId : end = Len(Content[f])
    PROVE  Store!OutOfRange
  <1>1. Store!GoDown(pos, size, end)
    BY DEF Halt, Store!GoDown
  <1>2. Store!OutOfRange <=>
          \/ \E d \in {d \in Fd : Opened[d] # NotOpen} :
                \/ \E s \in Size :
                      Store!GoDown(Opened[d].pos, s, Len(Content[Opened[d].file]))
                \/ \E buf \in Buffer :
                      Store!GoDown(Opened[d].pos, Len(buf), MAX_FILE_SIZE)
          \/ \E f \in FileId, s \in Size, p \in Offset :
                Store!GoDown(p, s, Len(Content[f]))
    BY DEF Store!OutOfRange, Content, Opened, Run, View
  <1> QED  BY <1>1, <1>2
\* Reads give the bytes last written, writes extend a file and never shift
\* it, the calls of vfs.c leave the descriptors of others alone, and only a
\* range that is outside the promise brings the machine down: file.c and the
\* calls of vfs.c that go through it implement FileStore, step by step.
THEOREM DescriptorsAreFileStore == Spec => ImplementsFileStore
  <1>1. Init => Store!StoreInit
    <2> SUFFICES ASSUME Init PROVE Store!StoreInit
      OBVIOUS
    <2>1. \A f \in FileId : inode[f].size = 0
      BY DEF Init
    <2>2. \A f \in FileId :
             [k \in 1 .. inode[f].size |-> inode[f].data[k - 1]] = <<>>
      <3> SUFFICES ASSUME NEW f \in FileId
                   PROVE  [k \in 1 .. inode[f].size |-> inode[f].data[k - 1]] = <<>>
        OBVIOUS
      <3> DEFINE run == [k \in 1 .. inode[f].size |-> inode[f].data[k - 1]]
      <3>1. DOMAIN run = 1 .. 0 /\ run \in [1 .. 0 -> {run[k] : k \in 1 .. 0}]
        BY <2>1
      <3> HIDE DEF run
      <3>2. run \in Seq({run[k] : k \in 1 .. 0})
        BY <3>1
      <3>3. Len(run) = 0
        BY <3>1, <3>2, LenProperties
      <3>4. run = <<>>
        BY <3>2, <3>3, EmptySeq
      <3> QED  BY <3>4 DEF run
    <2>3. \A fd \in Fd : ~fd_table[fd].in_use
      BY DEF Init
    <2> QED
      BY <2>2, <2>3 DEF Init, Store!StoreInit, Store!Answer
  <1>2. FileInv /\ [Next]_vars => [Store!StoreNext]_(Store!storeVars)
    <2> SUFFICES ASSUME FileInv, [Next]_vars
                 PROVE  [Store!StoreNext]_(Store!storeVars)
      OBVIOUS
    <2>1. CASE UNCHANGED vars
      <3>1. Content' = Content /\ Opened' = Opened
        BY <2>1 DEF vars, Content, Opened
      <3> QED
        BY <2>1, <3>1 DEF vars, Store!storeVars, Content, Opened, Run, View
    <2>2. CASE Next
      <3>1. halted = Running
        BY <2>2 DEF Next
      <3>2. ASSUME UNCHANGED inode PROVE Content' = Content
        BY <3>2 DEF Content
      <3>3. ASSUME UNCHANGED fd_table PROVE Opened' = Opened
        BY <3>3 DEF Opened
      <3>4. ASSUME Fail PROVE Store!StoreNext
        <4>1. Store!Refuse
          BY <3>2, <3>3, <3>4, CallOperations DEF Fail, Return
        <4> QED  BY <3>1, <4>1 DEF Store!StoreNext
      <3>5. ASSUME NEW f \in FileId, file_open(f) PROVE Store!StoreNext
        <4>1. CASE NoFreeFd
          BY <3>4, <3>5, <4>1 DEF file_open
        <4>2. CASE ~NoFreeFd
          <5> DEFINE e == [in_use |-> TRUE, inode_index |-> f, position |-> 0]
          <5>1. PICK fd \in Fd : /\ FreeFd(fd)
                                 /\ fd_table' = [fd_table EXCEPT ![fd] = e]
                                 /\ returned' = [ret |-> fd, bytes |-> <<>>]
                                 /\ UNCHANGED <<inode, halted>>
            BY <3>5, <4>2 DEF file_open, Return
          <5>2. View(e) = [file |-> f, pos |-> 0]
            BY DEF View
          <5> HIDE DEF e
          <5>3. Opened' = [Opened EXCEPT ![fd] = [file |-> f, pos |-> 0]]
            <6>1. Opened' = [Opened EXCEPT ![fd] = View(e)]
              BY <5>1, OpenedStep DEF FileInv
            <6> QED  BY <6>1, <5>2
          <5>4. Opened[fd] = NotOpen
            BY <5>1 DEF FreeFd, Opened, View
          <5>5. Store!Open(fd, f)
            BY <3>2, <5>1, <5>3, <5>4, CallOperations
          <5> QED  BY <3>1, <5>5 DEF Store!StoreNext
        <4> QED  BY <4>1, <4>2
      <3>6. ASSUME NEW fd \in Fd, file_close(fd) PROVE Store!StoreNext
        <4> DEFINE e == [fd_table[fd] EXCEPT !.in_use = FALSE]
        <4>1. View(e) = NotOpen
          BY DEF View, FileInv, Entry
        <4>2. fd_table' = [fd_table EXCEPT ![fd] = e]
          BY <3>6 DEF file_close
        <4> HIDE DEF e
        <4>3. Opened' = [Opened EXCEPT ![fd] = NotOpen]
          <5>1. Opened' = [Opened EXCEPT ![fd] = View(e)]
            BY <4>2, OpenedStep DEF FileInv
          <5> QED  BY <5>1, <4>1
        <4>4. Store!Close(fd)
          BY <3>2, <3>6, <4>3, CallOperations DEF file_close, Return
        <4> QED  BY <3>1, <4>4 DEF Store!StoreNext
      <3>7. ASSUME NEW fd \in Fd, NEW offset \in Offset, file_seek(fd, offset)
            PROVE  Store!StoreNext
        <4>1. CASE ~fd_table[fd].in_use
          BY <3>4, <3>7, <4>1 DEF file_seek
        <4>2. CASE fd_table[fd].in_use
          <5>1. offset \in 0 .. Word - 1
            BY CallAssumption
          <5>2. /\ fd_table' = [fd_table EXCEPT ![fd].position = offset]
                /\ returned' = [ret |-> 0, bytes |-> <<>>]
                /\ UNCHANGED <<inode, halted>>
            BY <3>7, <4>2 DEF file_seek, Return
          <5>3. Opened' = [Opened EXCEPT ![fd].pos = offset]
            BY <4>2, <5>1, <5>2, PositionStep
          <5>4. Store!Seek(fd, offset)
            BY <3>2, <4>2, <5>2, <5>3, InUse, CallOperations
          <5> QED  BY <3>1, <5>4 DEF Store!StoreNext
        <4> QED  BY <4>1, <4>2
      <3>8. ASSUME NEW fd \in Fd, NEW size \in Size, file_read(fd, size)
            PROVE  Store!StoreNext
        <4> DEFINE f == fd_table[fd].inode_index
                   node == inode[f]
                   pos == fd_table[fd].position
                   n == ReadLength(pos, size, node.size)
        <4>1. CASE ~fd_table[fd].in_use
          BY <3>4, <3>8, <4>1 DEF file_read
        <4>2. CASE fd_table[fd].in_use
          <5>1. /\ Opened[fd] # NotOpen
                /\ Opened[fd].file = f /\ Opened[fd].pos = pos
                /\ Content[f] = Run(node)
            BY <4>2, InUse
          <5>2. /\ node \in Node /\ pos \in 0 .. Word - 1
                /\ size \in 0 .. Word - 1 /\ node.size \in 0 .. MAX_FILE_SIZE
            BY EntryFacts, CallAssumption DEF Node
          <5>3. Len(Content[f]) = node.size
            BY <5>1, <5>2, RunFacts
          <5>4. ~Wild(pos, n) <=> Store!Promised(pos, size, node.size)
            BY <5>2, ReadLengthFacts
          <5>5. CASE Wild(pos, n)
            <6>1. Halt(pos, size, node.size)
              BY <3>8, <4>2, <5>5 DEF file_read
            <6> HIDE DEF f, node, pos, n
            <6>2. Store!OutOfRange
              BY <5>1, <5>3, <5>4, <5>5, <6>1, HaltOperation
            <6> QED  BY <3>1, <6>2 DEF Store!StoreNext
          <5>6. CASE ~Wild(pos, n)
            <6>1. /\ fd_table' = [fd_table EXCEPT ![fd].position = pos + n]
                  /\ returned' = [ret |-> n, bytes |-> CopiedOut(node, pos, n)]
                  /\ UNCHANGED <<inode, halted>>
              BY <3>8, <4>2, <5>6 DEF file_read, Return
            <6>2. pos + n \in 0 .. Word - 1
              BY <5>2, <5>6, ReadLengthFacts
            <6>3. /\ CopiedOut(node, pos, n) = Store!BytesAt(Run(node), pos, size)
                  /\ Len(CopiedOut(node, pos, n)) = n
              BY <5>2, <5>4, <5>6, CopiedOutIsBytesAt
            <6> HIDE DEF f, node, pos, n
            <6>4. Opened' = [Opened EXCEPT ![fd].pos = pos + n]
              BY <4>2, <6>1, <6>2, PositionStep
            <6>5. Store!Read(fd, size)
              <7> DEFINE got == CopiedOut(node, pos, n)
              <7>1. got = Store!BytesAt(Content[Opened[fd].file], Opened[fd].pos, size)
                BY <5>1, <6>3
              <7>2. /\ Store!Promised(Opened[fd].pos, size, Len(Content[Opened[fd].file]))
                    /\ Opened' = [Opened EXCEPT ![fd].pos = Opened[fd].pos + Len(got)]
                BY <5>1, <5>3, <5>4, <5>6, <6>3, <6>4
              <7>3. returned' = [ret |-> Len(got), bytes |-> got]
                BY <6>1, <6>3
              <7> HIDE DEF got
              <7> QED
                BY <3>2, <5>1, <6>1, <7>1, <7>2, <7>3, ReadOperation
            <6> QED  BY <3>1, <6>5 DEF Store!StoreNext
          <5> QED  BY <5>5, <5>6
        <4> QED  BY <4>1, <4>2
      <3>9. ASSUME NEW fd \in Fd, NEW buf \in Buffer, file_write(fd, buf)
            PROVE  Store!StoreNext
        <4> DEFINE f == fd_table[fd].inode_index
                   pos == fd_table[fd].position
                   n == WriteLength(pos, Len(buf))
        <4>1. CASE ~fd_table[fd].in_use
          BY <3>4, <3>9, <4>1 DEF file_write
        <4>2. CASE fd_table[fd].in_use
          <5>1. /\ Opened[fd] # NotOpen
                /\ Opened[fd].file = f /\ Opened[fd].pos = pos
                /\ Content[f] = Run(inode[f])
            BY <4>2, InUse
          <5>2. /\ f \in FileId /\ pos \in 0 .. Word - 1 /\ inode[f] \in Node
            BY EntryFacts
          <5>3. ~Wild(pos, n) <=> Store!Promised(pos, Len(buf), MAX_FILE_SIZE)
            BY <5>2, WriteLengthFacts
          <5>4. CASE Wild(pos, n)
            <6>1. Halt(pos, Len(buf), MAX_FILE_SIZE)
              BY <3>9, <4>2, <5>4 DEF file_write
            <6> HIDE DEF f, pos, n
            <6>2. Store!OutOfRange
              BY <5>1, <5>3, <5>4, <6>1, HaltOperation
            <6> QED  BY <3>1, <6>2 DEF Store!StoreNext
          <5>5. CASE ~Wild(pos, n)
            <6> DEFINE new == CopiedIn(inode[f], pos, n, buf)
            <6>1. /\ inode' = [inode EXCEPT ![f] = new]
                  /\ fd_table' = [fd_table EXCEPT ![fd].position = pos + n]
                  /\ returned' = [ret |-> n, bytes |-> <<>>]
                  /\ UNCHANGED halted
              BY <3>9, <4>2, <5>5 DEF file_write, Return
            <6>2. pos + n \in 0 .. Word - 1 /\ n = Store!Fitting(pos, buf)
              BY <5>2, <5>5, WriteLengthFacts
            <6>3. \A k \in inode[f].size .. MAX_FILE_SIZE - 1 :
                     inode[f].data[k] = Zero
              BY <5>2 DEF FileInv, HolesAreZero
            <6>4. Run(new) = Store!Patched(Run(inode[f]), pos, buf)
              BY <5>2, <5>3, <5>5, <6>3, CopiedInIsPatched
            <6> HIDE DEF new
            <6>5. Content' = [Content EXCEPT ![f] = Run(new)]
              BY <5>2, <6>1, ContentStep DEF FileInv
            <6> HIDE DEF f, pos, n
            <6>6. Opened' = [Opened EXCEPT ![fd].pos = pos + n]
              BY <4>2, <6>1, <6>2, PositionStep
            <6>7. Store!Write(fd, buf)
              BY <5>1, <5>3, <5>5, <6>1, <6>2, <6>4, <6>5, <6>6, WriteOperation
            <6> QED  BY <3>1, <6>7 DEF Store!StoreNext
          <5> QED  BY <5>4, <5>5
        <4> QED  BY <4>1, <4>2
      <3>10. ASSUME NEW f \in FileId, NEW size \in Size, NEW offset \in Offset,
                    vfs_read_at(f, size, offset)
             PROVE  Store!StoreNext
        <4> DEFINE node == inode[f]
                   n == ReadLength(offset, size, node.size)
        <4>1. CASE NoFreeFd
          BY <3>4, <3>10, <4>1 DEF vfs_read_at
        <4>2. CASE ~NoFreeFd
          <5>1. Content[f] = Run(node)
            BY DEF Content
          <5>2. /\ node \in Node /\ offset \in 0 .. Word - 1
                /\ size \in 0 .. Word - 1 /\ node.size \in 0 .. MAX_FILE_SIZE
            BY CallAssumption DEF FileInv, Node
          <5>3. Len(Content[f]) = node.size
            BY <5>1, <5>2, RunFacts
          <5>4. ~Wild(offset, n) <=> Store!Promised(offset, size, node.size)
            BY <5>2, ReadLengthFacts
          <5>5. CASE Wild(offset, n)
            <6>1. Halt(offset, size, node.size)
              BY <3>10, <4>2, <5>5 DEF vfs_read_at
            <6> HIDE DEF node, n
            <6>2. Store!OutOfRange
              BY <5>3, <5>4, <5>5, <6>1, HaltOperation
            <6> QED  BY <3>1, <6>2 DEF Store!StoreNext
          <5>6. CASE ~Wild(offset, n)
            <6>1. PICK fd \in Fd :
                    /\ FreeFd(fd)
                    /\ fd_table' = [fd_table EXCEPT ![fd] = Released(f, offset + n)]
                    /\ returned' = [ret |-> n, bytes |-> CopiedOut(node, offset, n)]
                    /\ UNCHANGED <<inode, halted>>
              BY <3>10, <4>2, <5>6 DEF vfs_read_at, Return
            <6>2. /\ CopiedOut(node, offset, n) =
                        Store!BytesAt(Run(node), offset, size)
                  /\ Len(CopiedOut(node, offset, n)) = n
              BY <5>2, <5>4, <5>6, CopiedOutIsBytesAt
            <6> HIDE DEF node, n
            <6>3. Opened' = Opened
              BY <6>1, ReleasedStep DEF FileInv
            <6>4. Store!ReadWhole(f, size, offset)
              BY <3>2, <5>1, <5>3, <5>4, <5>6, <6>1, <6>2, <6>3, WholeOperations
            <6> QED  BY <3>1, <6>4 DEF Store!StoreNext
          <5> QED  BY <5>5, <5>6
        <4> QED  BY <4>1, <4>2
      <3>11. ASSUME NEW f \in FileId, NEW buf \in Buffer, vfs_write_file(f, buf)
             PROVE  Store!StoreNext
        <4> DEFINE n == WriteLength(0, Len(buf))
                   new == CopiedIn(inode[f], 0, n, buf)
        <4>1. CASE NoFreeFd
          BY <3>4, <3>11, <4>1 DEF vfs_write_file
        <4>2. CASE ~NoFreeFd
          <5>1. /\ inode[f] \in Node
                /\ \A k \in inode[f].size .. MAX_FILE_SIZE - 1 :
                      inode[f].data[k] = Zero
            BY DEF FileInv, HolesAreZero
          <5>2. 0 \in 0 .. Word - 1
            BY LimitAssumption
          <5>3. Store!Promised(0, Len(buf), MAX_FILE_SIZE)
            BY BufferFacts
          <5>4. n = Store!Fitting(0, buf)
            BY <5>2, <5>3, WriteLengthFacts
          <5>5. Run(new) = Store!Patched(Run(inode[f]), 0, buf)
            BY <5>1, <5>2, <5>3, CopiedInIsPatched
          <5>6. PICK fd \in Fd :
                  /\ FreeFd(fd)
                  /\ inode' = [inode EXCEPT ![f] = new]
                  /\ fd_table' = [fd_table EXCEPT ![fd] = Released(f, n)]
                  /\ returned' = [ret |-> IF n < Len(buf) THEN -1 ELSE 0,
                                  bytes |-> <<>>]
                  /\ UNCHANGED halted
            BY <3>11, <4>2 DEF vfs_write_file, Return
          <5> HIDE DEF n, new
          <5>7. Opened' = Opened
            BY <5>6, ReleasedStep DEF FileInv
          <5>8. Content' = [Content EXCEPT ![f] = Run(new)]
            BY <5>6, ContentStep DEF FileInv
          <5>9. Content[f] = Run(inode[f])
            BY DEF Content
          <5>10. Store!WriteWhole(f, buf)
            BY <5>3, <5>4, <5>5, <5>6, <5>7, <5>8, <5>9, WholeOperations
          <5> QED  BY <3>1, <5>10 DEF Store!StoreNext
        <4> QED  BY <4>1, <4>2
      <3> QED
        BY <2>2, <3>5, <3>6, <3>7, <3>8, <3>9, <3>10, <3>11 DEF Next
    <2> QED  BY <2>1, <2>2
  <1> QED
    BY <1>1, <1>2, InductiveInvariant, PTL
       DEF Spec, ImplementsFileStore, Store!StoreSpec
=============================================================================
