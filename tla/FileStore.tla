------------------------------ MODULE FileStore -----------------------------
(***************************************************************************)
(* What open, seek, read and write promise: files that are sequences of    *)
(* bytes, descriptors that are a file and an offset, and whole-file calls  *)
(* that leave no descriptor behind.  A read that starts past the end of    *)
(* its file, a write that starts past the largest size and a range that    *)
(* wraps are outside the promise: the machine may go down, and stays down. *)
(***************************************************************************)
EXTENDS Integers, Sequences

CONSTANTS
    Fd,         \* descriptors
    FileId,     \* files
    Blank,      \* the byte that fills a hole
    Limit,      \* the largest size of a file
    Modulus,    \* sizes and offsets are below this
    ReadSize,   \* sizes a caller asks for
    Position,   \* offsets a caller seeks to
    Buffer,     \* sequences of bytes a caller writes
    NotOpen,    \* the state of a closed descriptor
    Up          \* no call has brought the machine down

VARIABLES
    content,    \* the bytes of each file
    opened,     \* opened[d] is NotOpen or a file and an offset
    answer,     \* what the last call returned
    down        \* Up, or the request that brought the machine down

storeVars == <<content, opened, answer, down>>

Smaller(m, n) == IF m < n THEN m ELSE n
Larger(m, n) == IF m < n THEN n ELSE m

\* The bytes that a read of size bytes at pos gives.
BytesAt(run, pos, size) ==
    [k \in 1 .. Smaller(size, Len(run) - pos) |-> run[pos + k]]

\* How much of buf fits at pos.
Fitting(pos, buf) == Smaller(Len(buf), Limit - pos)

\* The file after buf was written at pos.  Blanks fill the gap between the
\* end of the file and pos, even when no byte follows them.
Patched(run, pos, buf) ==
    [k \in 1 .. Larger(Len(run), pos + Fitting(pos, buf)) |->
        IF pos < k /\ k <= pos + Fitting(pos, buf) THEN buf[k - pos]
        ELSE IF k <= Len(run) THEN run[k] ELSE Blank]

\* A range of size bytes at pos that begins no later than end.
Promised(pos, size, end) == pos <= end /\ pos + size < Modulus

Answer(n, bytes) == [ret |-> n, bytes |-> bytes]

StoreInit ==
    /\ content \in [FileId -> {<<>>}]
    /\ opened = [d \in Fd |-> NotOpen]
    /\ answer = Answer(0, <<>>)
    /\ down = Up

\* A call that cannot be carried out changes nothing.
Refuse ==
    /\ answer' = Answer(-1, <<>>)
    /\ UNCHANGED <<content, opened, down>>

Open(d, f) ==
    /\ opened[d] = NotOpen
    /\ opened' = [opened EXCEPT ![d] = [file |-> f, pos |-> 0]]
    /\ answer' = Answer(d, <<>>)
    /\ UNCHANGED <<content, down>>

Close(d) ==
    /\ opened' = [opened EXCEPT ![d] = NotOpen]
    /\ answer' = Answer(0, <<>>)
    /\ UNCHANGED <<content, down>>

Seek(d, pos) ==
    /\ opened[d] # NotOpen
    /\ opened' = [opened EXCEPT ![d].pos = pos]
    /\ answer' = Answer(0, <<>>)
    /\ UNCHANGED <<content, down>>

Read(d, size) ==
    /\ opened[d] # NotOpen
    /\ LET run == content[opened[d].file]
           pos == opened[d].pos
           got == BytesAt(run, pos, size)
       IN  /\ Promised(pos, size, Len(run))
           /\ opened' = [opened EXCEPT ![d].pos = pos + Len(got)]
           /\ answer' = Answer(Len(got), got)
    /\ UNCHANGED <<content, down>>

Write(d, buf) ==
    /\ opened[d] # NotOpen
    /\ LET f == opened[d].file
           pos == opened[d].pos
       IN  /\ Promised(pos, Len(buf), Limit)
           /\ content' = [content EXCEPT ![f] = Patched(@, pos, buf)]
           /\ opened' = [opened EXCEPT ![d].pos = pos + Fitting(pos, buf)]
           /\ answer' = Answer(Fitting(pos, buf), <<>>)
    /\ UNCHANGED down

\* The calls on whole files leave every descriptor as it was.
ReadWhole(f, size, pos) ==
    /\ Promised(pos, size, Len(content[f]))
    /\ LET got == BytesAt(content[f], pos, size) IN
       answer' = Answer(Len(got), got)
    /\ UNCHANGED <<content, opened, down>>

WriteWhole(f, buf) ==
    /\ Promised(0, Len(buf), Limit)
    /\ content' = [content EXCEPT ![f] = Patched(@, 0, buf)]
    /\ answer' = IF Fitting(0, buf) < Len(buf) THEN Answer(-1, <<>>)
                                               ELSE Answer(0, <<>>)
    /\ UNCHANGED <<opened, down>>

\* The machine goes down in a call that is outside the promise, only.
GoDown(pos, size, end) ==
    /\ ~Promised(pos, size, end)
    /\ down' = [pos |-> pos, size |-> size, end |-> end]
    /\ UNCHANGED <<content, opened, answer>>

OutOfRange ==
    \/ \E d \in {d \in Fd : opened[d] # NotOpen} :
          \/ \E size \in ReadSize :
                GoDown(opened[d].pos, size, Len(content[opened[d].file]))
          \/ \E buf \in Buffer : GoDown(opened[d].pos, Len(buf), Limit)
    \/ \E f \in FileId, size \in ReadSize, pos \in Position :
          GoDown(pos, size, Len(content[f]))

StoreNext ==
    /\ down = Up
    /\ \/ Refuse
       \/ \E d \in Fd, f \in FileId : Open(d, f)
       \/ \E d \in Fd : Close(d)
       \/ \E d \in Fd, pos \in Position : Seek(d, pos)
       \/ \E d \in Fd, size \in ReadSize : Read(d, size)
       \/ \E d \in Fd, buf \in Buffer : Write(d, buf)
       \/ \E f \in FileId, size \in ReadSize, pos \in Position :
             ReadWhole(f, size, pos)
       \/ \E f \in FileId, buf \in Buffer : WriteWhole(f, buf)
       \/ OutOfRange

StoreSpec == StoreInit /\ [][StoreNext]_storeVars
=============================================================================
