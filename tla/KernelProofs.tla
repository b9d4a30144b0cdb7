----------------------------- MODULE KernelProofs ---------------------------
(***************************************************************************)
(* Proofs about Kernel, for every set of register files and buffers and    *)
(* every modulus of the tick count.                                        *)
(*                                                                         *)
(* The inductive invariant says what lies on the kernel's stack for each   *)
(* place the processor can be at.  A handler that will return, the timer's *)
(* or a system call's, has below its own words one frame that iret accepts *)
(* (Frame), and below that nothing but the return into boot.asm.  A fault  *)
(* or a non-maskable interrupt never returns, so of its stack only the     *)
(* words matter that regs_t shows.                                         *)
(*                                                                         *)
(* The second part proves that Kernel implements Process: every step but   *)
(* six is Unseen, it changes neither the places nor the registers that    *)
(* the program can be found at and with.                                   *)
(***************************************************************************)
EXTENDS Kernel, SequenceTheorems, WellFoundedInduction, TLAPS

\* Where the processor is when it is in no handler, and anywhere.
Outside == {"boot", "shell", "exec", "user"}
Place == Outside \cup {"stub", "timer", "handler", "leave", "exited", "halted",
                       "kmain"}

RegisterFile == [eax : Value, ebx : Value, ecx : Buf, edx : Value]
Vector == {0, 1, 2, 5, 6, 7, 10, 11, 12, 13, 14, 16, 17, 19, 32, 128}

\* Those of the vectors for which the processor pushes an error code.
Coded == {10, 11, 12, 13, 14, 17}

StackWord ==
    [tag : {"eip"}, value : Place] \cup [tag : {"cs"}, value : {0, 3}]
        \cup [tag : {"eflags"}, value : BOOLEAN]
        \cup [tag : {"esp", "ss", "segments"}, value : {"kernel", "user"}]
        \cup [tag : {"err"}, value : {"code", "zero"}]
        \cup [tag : {"num"}, value : Vector]
        \cup [tag : {"general"}, value : RegisterFile]

RingOf(p) == IF p = "user" THEN 3 ELSE 0
SegmentsOf(p) == IF p \in {"exec", "user"} THEN "user" ELSE "kernel"

\* At word k begins the frame of a return to p, with interrupts on.
Frame(s, k, p) ==
    /\ p \in Outside
    /\ s[k] = Word("eip", p)
    /\ s[k + 1] = Word("cs", RingOf(p))
    /\ s[k + 2] = Word("eflags", TRUE)
    /\ p = "user" => /\ Len(s) = k + 4
                     /\ s[k + 3] = Word("esp", "user")
                     /\ s[k + 4] = Word("ss", "user")
    /\ p # "user" => /\ Len(s) = k + 3
                     /\ s[k + 3] = Word("eip", "kmain")

\* Outside of handlers the stack holds the return into boot.asm; a program's
\* first interrupt forgets that too.
Bare(s, p) ==
    \/ Len(s) = 1 /\ s[1] = Word("eip", "kmain")
    \/ Len(s) = 0 /\ p = "user"

\* How far the boot is when a handler has interrupted it, or what follows.
BootedAt(p) == IF p = "boot" THEN booted \in 3 .. 4 ELSE booted = 5

\* From the words of a handler the processor can go back to p.
ReturnsTo(k, p) ==
    /\ Frame(stack, k, p)
    /\ BootedAt(p)

Types ==
    /\ pc \in Place \ {"kmain"}
    /\ booted \in 0 .. 5
    /\ cpu \in [ring : {0, 3}, if : BOOLEAN, ds : {"kernel", "user"},
                regs : RegisterFile]
    /\ stack \in Seq(StackWord)
    /\ trap \in [vector : Vector, code : BOOLEAN, eip : Place, ring : {0, 3}]
    /\ tables \in [idt : BOOLEAN, tr : BOOLEAN]
    /\ pic \in [mapped : BOOLEAN, masked : SUBSET Line,
                pending : SUBSET Line, in_service : BOOLEAN]
    /\ nmi_blocked \in BOOLEAN
    /\ timer_ticks \in 0 .. TickWord - 1

\* What the steps of the boot have done so far.
BootDone ==
    /\ pic.mapped <=> booted >= 1
    /\ pic.mapped => pic.masked = {1}
    /\ tables.idt <=> booted >= 2
    /\ tables.tr <=> booted >= 4

AtOutside ==
    pc \in Outside =>
        /\ IF pc = "boot" THEN booted < 5 ELSE booted = 5
        /\ cpu.if <=> booted >= 3
        /\ cpu.ring = RingOf(pc)
        /\ cpu.ds = SegmentsOf(pc)
        /\ Bare(stack, pc)
        /\ ~nmi_blocked

InHandlers ==
    pc \notin Outside => /\ cpu.ring = 0 /\ ~cpu.if
                         /\ booted >= 3

\* The words that the processor has pushed for the interrupt it took.
AtStub ==
    pc = "stub" =>
        LET k == IF trap.code THEN 2 ELSE 1 IN
        /\ trap.code <=> trap.vector \in Coded
        /\ Len(stack) >= k + 2
        /\ trap.code => stack[1] = Word("err", "code")
        /\ stack[k] = Word("eip", trap.eip)
        /\ stack[k + 1] = Word("cs", trap.ring)
        /\ trap.vector = ProtectionFault => trap.ring = 3
        /\ trap.vector \in {INT_TIMER, INT_SYSCALL} =>
              \E p \in Outside : /\ ReturnsTo(1, p)
                                 /\ cpu.ds = SegmentsOf(p)
                                 /\ trap.vector = INT_SYSCALL => p = "user"

\* What isr_timer has saved.
AtTimer ==
    pc = "timer" =>
        \E p \in Outside : /\ ReturnsTo(2, p)
                           /\ cpu.ds = SegmentsOf(p)
                           /\ stack[1].tag = "general"

\* What isr_common_stub has saved for a system call of the program.
CallSaved ==
    /\ ReturnsTo(5, "user")
    /\ stack[1] = Word("segments", "user")
    /\ stack[2].tag = "general"
    /\ stack[3] = Word("num", INT_SYSCALL)
    /\ stack[4] = Word("err", "zero")

AtHandler ==
    pc = "handler" =>
        /\ Len(stack) >= 7
        /\ stack[3] = Word("num", trap.vector)
        /\ stack[4] = Word("err", IF trap.code THEN "code" ELSE "zero")
        /\ stack[5] = Word("eip", trap.eip)
        /\ stack[6] = Word("cs", trap.ring)
        /\ trap.vector # INT_TIMER
        /\ trap.vector = INT_SYSCALL => CallSaved

AtLeave == pc = "leave" => CallSaved

\* Only a non-maskable interrupt blocks the next one, and it stops the kernel.
\* So the stack holds the words of three handlers at most: a system call's, the
\* page fault's that it has run into, and a non-maskable interrupt's.
Depth ==
    /\ nmi_blocked => pc = "halted" \/ (pc \in {"stub", "handler"} /\ trap.vector = NMI)
    /\ pc \in Outside => Len(stack) <= 1
    /\ pc = "stub" => Len(stack) <= IF nmi_blocked THEN 19
                                    ELSE IF trap.code THEN 13 ELSE 5
    /\ Len(stack) <= IF nmi_blocked THEN 23 ELSE 16

KernelInv ==
    /\ Types
    /\ BootDone
    /\ AtOutside
    /\ InHandlers
    /\ AtStub
    /\ AtTimer
    /\ AtHandler
    /\ AtLeave
    /\ Depth

-----------------------------------------------------------------------------
(* The stack *)

\* A part of the stack, from word k to the last.
LEMMA Above ==
    ASSUME NEW s \in Seq(StackWord), NEW k \in 1 .. Len(s)
    PROVE  LET t == SubSeq(s, k, Len(s))
           IN  /\ t \in Seq(StackWord)
               /\ Len(t) = Len(s) - k + 1
               /\ \A i \in 1 .. Len(t) : t[i] = s[i + k - 1]
  <1> DEFINE t == SubSeq(s, k, Len(s))
  <1>1. Len(s) \in Nat
    BY LenProperties
  <1>2. \A i \in k .. Len(s) : s[i] \in StackWord
    BY <1>1, ElementOfSeq
  <1>3. /\ t \in Seq(StackWord)
        /\ Len(t) = IF k <= Len(s) THEN Len(s) - k + 1 ELSE 0
        /\ \A i \in 1 .. Len(s) - k + 1 : t[i] = s[k + i - 1]
    BY <1>1, <1>2, SubSeqProperties
  <1> HIDE DEF t
  <1>4. /\ Len(t) = Len(s) - k + 1
        /\ \A i \in 1 .. Len(t) : t[i] = s[i + k - 1]
    BY <1>1, <1>3
  <1> QED  BY <1>3, <1>4 DEF t

\* iret with a frame on top goes where the frame says, and pops it.
LEMMA IretFacts ==
    ASSUME NEW frame \in Seq(StackWord), NEW ds, NEW regs, NEW n \in {3, 5},
           Iret(frame, ds, regs),
           frame[1].tag = "eip", frame[1].value # "halted", frame[2].tag = "cs",
           n = IF frame[2] = Word("cs", 3) THEN 5 ELSE 3,
           Len(frame) >= n
    PROVE  /\ pc' = frame[1].value
           /\ cpu' = [ring |-> frame[2].value, if |-> frame[3].value,
                      ds |-> ds, regs |-> regs]
           /\ stack' \in Seq(StackWord)
           /\ Len(stack') = Len(frame) - n
           /\ \A j \in 1 .. Len(stack') : stack'[j] = frame[j + n]
           /\ nmi_blocked' = FALSE
  <1>1. Len(frame) \in Nat /\ Len(frame) >= 3
    BY LenProperties
  <1>3. (IF Len(frame) >= 3 /\ frame[2] = Word("cs", 3) THEN 5 ELSE 3) = n
    BY <1>1
  <1>5. /\ pc' = frame[1].value
        /\ cpu' = [ring |-> frame[2].value, if |-> frame[3].value,
                   ds |-> ds, regs |-> regs]
        /\ stack' = SubSeq(frame, n + 1, Len(frame))
        /\ nmi_blocked' = FALSE
    <2> DEFINE m == IF Len(frame) >= 3 /\ frame[2] = Word("cs", 3) THEN 5 ELSE 3
               sound == Len(frame) >= m /\ frame[1].tag = "eip" /\ frame[2].tag = "cs"
    <2>1. m = n
      BY <1>3
    <2>2. sound
      BY <2>1
    <2>3. /\ IF sound
               THEN /\ pc' = IF frame[1].value = "halted" THEN "leave"
                                                          ELSE frame[1].value
                    /\ cpu' = [ring |-> frame[2].value, if |-> frame[3].value,
                               ds |-> ds, regs |-> regs]
                    /\ stack' = SubSeq(frame, m + 1, Len(frame))
               ELSE pc' = "lost" /\ UNCHANGED <<cpu, stack>>
          /\ nmi_blocked' = FALSE
      BY DEF Iret
    <2> HIDE DEF sound
    <2>4. /\ pc' = IF frame[1].value = "halted" THEN "leave" ELSE frame[1].value
          /\ cpu' = [ring |-> frame[2].value, if |-> frame[3].value,
                     ds |-> ds, regs |-> regs]
          /\ stack' = SubSeq(frame, m + 1, Len(frame))
          /\ nmi_blocked' = FALSE
      BY <2>2, <2>3, Zenon
    <2> HIDE DEF m
    <2>5. pc' = frame[1].value
      BY <2>4
    <2>6. stack' = SubSeq(frame, n + 1, Len(frame))
      BY <2>1, <2>4
    <2> QED  BY <2>4, <2>5, <2>6, Zenon
  <1>6. \A j \in n + 1 .. Len(frame) : frame[j] \in StackWord
    BY <1>1, ElementOfSeq
  <1>7. /\ stack' \in Seq(StackWord)
        /\ Len(stack') = IF n + 1 <= Len(frame) THEN Len(frame) - (n + 1) + 1 ELSE 0
        /\ \A j \in 1 .. Len(frame) - (n + 1) + 1 : stack'[j] = frame[(n + 1) + j - 1]
    BY <1>1, <1>5, <1>6, SubSeqProperties
  <1>8. /\ Len(stack') = Len(frame) - n
        /\ \A j \in 1 .. Len(stack') : stack'[j] = frame[j + n]
    <2> DEFINE l == Len(frame)
    <2>1. l \in Nat /\ n \in Int /\ n <= l
      BY <1>1
    <2>2. /\ Len(stack') = IF n + 1 <= l THEN l - (n + 1) + 1 ELSE 0
          /\ \A j \in 1 .. l - (n + 1) + 1 : stack'[j] = frame[(n + 1) + j - 1]
      BY <1>7
    <2> HIDE DEF l
    <2>3. Len(stack') = l - n
      BY <2>1, <2>2
    <2>4. ASSUME NEW j \in 1 .. Len(stack')
          PROVE  stack'[j] = frame[j + n]
      <3>1. j \in 1 .. l - (n + 1) + 1 /\ (n + 1) + j - 1 = j + n
        BY <2>1, <2>3
      <3>2. stack'[j] = frame[(n + 1) + j - 1]
        BY <2>2, <3>1
      <3> QED  BY <3>1, <3>2
    <2> QED  BY <2>3, <2>4 DEF l
  <1> QED  BY <1>5, <1>7, <1>8

\* The processor goes back to p.
BackAt(p, ds, regs) ==
    /\ pc' = p
    /\ cpu' = [ring |-> RingOf(p), if |-> TRUE, ds |-> ds, regs |-> regs]
    /\ nmi_blocked' = FALSE

\* A handler that returns leaves the processor where it was interrupted.
LEMMA Returned ==
    ASSUME NEW s \in Seq(StackWord), NEW k \in {2, 5}, NEW p, NEW ds, NEW regs,
           Frame(s, k, p),
           NEW u, u = SubSeq(s, k, Len(s)), Iret(u, ds, regs)
    PROVE  /\ p \in Outside
           /\ BackAt(p, ds, regs)
           /\ stack' \in Seq(StackWord)
           /\ Bare(stack', p)
  <1> DEFINE t == SubSeq(s, k, Len(s))
             n == IF RingOf(p) = 3 THEN 5 ELSE 3
  <1>1. Len(s) = IF p = "user" THEN k + 4 ELSE k + 3
    BY DEF Frame
  <1>2. k \in 1 .. Len(s)
    BY <1>1
  <1>3. /\ t \in Seq(StackWord)
        /\ Len(t) = Len(s) - k + 1
        /\ \A i \in 1 .. Len(t) : t[i] = s[i + k - 1]
    BY <1>2, Above
  <1>4. Iret(t, ds, regs)
    OBVIOUS
  <1> HIDE DEF t
  <1>5. Len(t) = IF p = "user" THEN 5 ELSE 4
    BY <1>1, <1>3
  <1>6. /\ t[1] = Word("eip", p) /\ t[2] = Word("cs", RingOf(p))
        /\ t[3] = Word("eflags", TRUE)
        /\ p # "user" => t[4] = Word("eip", "kmain")
    <2>1. /\ t[1] = s[k] /\ t[2] = s[k + 1] /\ t[3] = s[k + 2]
          /\ p # "user" => t[4] = s[k + 3]
      BY <1>3, <1>5
    <2> QED  BY <2>1 DEF Frame
  <1>7. /\ RingOf(p) \in {0, 3} /\ p \in Outside /\ p # "halted"
        /\ n = IF p = "user" THEN 5 ELSE 3
    BY DEF Frame, RingOf, Outside
  <1>8. Len(t) >= n
    <2> HIDE DEF n
    <2> QED  BY <1>5, <1>7
  <1>9. /\ pc' = p
        /\ cpu' = [ring |-> RingOf(p), if |-> TRUE, ds |-> ds, regs |-> regs]
        /\ stack' \in Seq(StackWord)
        /\ Len(stack') = Len(t) - n
        /\ \A j \in 1 .. Len(stack') : stack'[j] = t[j + n]
        /\ nmi_blocked' = FALSE
    <2>1. /\ t[1].tag = "eip" /\ t[1].value = p
          /\ t[2].tag = "cs" /\ t[2].value = RingOf(p)
          /\ t[3].value = TRUE
          /\ n = IF t[2] = Word("cs", 3) THEN 5 ELSE 3
          /\ n \in {3, 5}
      BY <1>6, <1>7 DEF Word
    <2> HIDE DEF n
    <2>2. /\ pc' = t[1].value
          /\ cpu' = [ring |-> t[2].value, if |-> t[3].value,
                     ds |-> ds, regs |-> regs]
          /\ stack' \in Seq(StackWord)
          /\ Len(stack') = Len(t) - n
          /\ \A j \in 1 .. Len(stack') : stack'[j] = t[j + n]
          /\ nmi_blocked' = FALSE
      BY <1>3, <1>4, <1>7, <1>8, <2>1, IretFacts
    <2> QED  BY <2>1, <2>2
  <1> HIDE DEF n
  <1>a. BackAt(p, ds, regs)
    BY <1>9 DEF BackAt
  <1>10. CASE p = "user"
    <2>1. Len(stack') = 0
      BY <1>5, <1>7, <1>9, <1>10
    <2> QED  BY <1>7, <1>9, <1>a, <1>10, <2>1, Zenon DEF Bare
  <1>11. CASE p # "user"
    <2>1. Len(stack') = 1 /\ stack'[1] = t[4]
      BY <1>5, <1>7, <1>9, <1>11
    <2> QED  BY <1>6, <1>7, <1>9, <1>a, <1>11, <2>1, Zenon DEF Bare
  <1> QED  BY <1>10, <1>11
\* The words that the processor pushes for a return to p.
LEMMA ReturnFrameFacts ==
    ASSUME NEW p \in Place, NEW r \in {0, 3}, NEW i \in BOOLEAN
    PROVE  LET f == ReturnFrame(p, r, i)
           IN  /\ f \in Seq(StackWord)
               /\ Len(f) = IF r = 3 THEN 5 ELSE 3
               /\ f[1] = Word("eip", p) /\ f[2] = Word("cs", r)
               /\ f[3] = Word("eflags", i)
               /\ r = 3 => /\ f[4] = Word("esp", "user")
                           /\ f[5] = Word("ss", "user")
  <1> DEFINE a == <<Word("eip", p), Word("cs", r), Word("eflags", i)>>
             b == <<Word("esp", "user"), Word("ss", "user")>>
             c == IF r = 3 THEN b ELSE <<>>
  <1>1. /\ Word("eip", p) \in StackWord /\ Word("cs", r) \in StackWord
        /\ Word("eflags", i) \in StackWord
        /\ Word("esp", "user") \in StackWord /\ Word("ss", "user") \in StackWord
    BY DEF Word, StackWord
  <1>2. /\ a \in Seq(StackWord) /\ Len(a) = 3
        /\ a[1] = Word("eip", p) /\ a[2] = Word("cs", r)
        /\ a[3] = Word("eflags", i)
    BY <1>1
  <1>3. /\ b \in Seq(StackWord) /\ Len(b) = 2
        /\ b[1] = Word("esp", "user") /\ b[2] = Word("ss", "user")
    BY <1>1
  <1>4. <<>> \in Seq(StackWord) /\ Len(<<>>) = 0
    OBVIOUS
  <1> HIDE DEF a, b
  <1>5. /\ c \in Seq(StackWord)
        /\ Len(c) = IF r = 3 THEN 2 ELSE 0
        /\ r = 3 => c = b
    BY <1>3, <1>4
  <1>6. ReturnFrame(p, r, i) = a \o c
    BY DEF ReturnFrame, a, b
  <1> HIDE DEF c
  <1>7. /\ a \o c \in Seq(StackWord)
        /\ Len(a \o c) = Len(a) + Len(c)
        /\ \A j \in 1 .. Len(a) + Len(c) :
              (a \o c)[j] = IF j <= Len(a) THEN a[j] ELSE c[j - Len(a)]
    BY <1>2, <1>5, ConcatProperties
  <1> DEFINE f == a \o c
  <1> HIDE DEF f
  <1>8. /\ f \in Seq(StackWord)
        /\ Len(f) = IF r = 3 THEN 5 ELSE 3
        /\ f[1] = a[1] /\ f[2] = a[2] /\ f[3] = a[3]
        /\ r = 3 => f[4] = c[1] /\ f[5] = c[2]
    BY <1>2, <1>5, <1>7 DEF f
  <1> QED  BY <1>2, <1>3, <1>5, <1>6, <1>8 DEF f

\* What the processor does to take a vector once its tables are loaded: its
\* words are on top, and below them, unless it came from ring 3, the stack.
LEMMA TakeFacts ==
    ASSUME Types, NEW v \in Vector, NEW c \in BOOLEAN, Take(v, c),
           tables.idt, cpu.ring = 3 => tables.tr
    PROVE  LET k == IF c THEN 1 ELSE 0
               n == k + (IF cpu.ring = 3 THEN 5 ELSE 3)
           IN  /\ pc' = "stub"
               /\ trap' = [vector |-> v, code |-> c, eip |-> pc, ring |-> cpu.ring]
               /\ cpu' = [cpu EXCEPT !.ring = 0, !.if = FALSE]
               /\ stack' \in Seq(StackWord)
               /\ c => stack'[1] = Word("err", "code")
               /\ stack'[k + 1] = Word("eip", pc)
               /\ stack'[k + 2] = Word("cs", cpu.ring)
               /\ stack'[k + 3] = Word("eflags", cpu.if)
               /\ cpu.ring = 3 => /\ stack'[k + 4] = Word("esp", "user")
                                  /\ stack'[k + 5] = Word("ss", "user")
                                  /\ Len(stack') = n
               /\ cpu.ring # 3 => /\ Len(stack') = n + Len(stack)
                                  /\ \A i \in 1 .. Len(stack) :
                                        stack'[n + i] = stack[i]
  <1> DEFINE e == IF c THEN <<Word("err", "code")>> ELSE <<>>
             f == ReturnFrame(pc, cpu.ring, cpu.if)
             r == IF cpu.ring = 3 THEN <<>> ELSE stack
             k == IF c THEN 1 ELSE 0
             m == IF cpu.ring = 3 THEN 5 ELSE 3
             b == IF cpu.ring = 3 THEN 0 ELSE Len(stack)
  <1>1. v \in Gates
    BY DEF Vector, Gates, INT_TIMER, INT_SYSCALL
  <1>2. /\ pc' = "stub"
        /\ trap' = [vector |-> v, code |-> c, eip |-> pc, ring |-> cpu.ring]
        /\ cpu' = [cpu EXCEPT !.ring = 0, !.if = FALSE]
        /\ stack' = (e \o f) \o r
    BY <1>1 DEF Take
  <1>3. <<>> \in Seq(StackWord) /\ Len(<<>>) = 0
    OBVIOUS
  <1>4. /\ <<Word("err", "code")>> \in Seq(StackWord)
        /\ Len(<<Word("err", "code")>>) = 1
        /\ <<Word("err", "code")>>[1] = Word("err", "code")
    <2>1. Word("err", "code") \in StackWord
      BY DEF Word, StackWord
    <2> QED  BY <2>1
  <1>5. /\ e \in Seq(StackWord) /\ Len(e) = k
        /\ c => e[1] = Word("err", "code")
    BY <1>3, <1>4
  <1>6. /\ f \in Seq(StackWord) /\ Len(f) = m
        /\ f[1] = Word("eip", pc) /\ f[2] = Word("cs", cpu.ring)
        /\ f[3] = Word("eflags", cpu.if)
        /\ cpu.ring = 3 => f[4] = Word("esp", "user") /\ f[5] = Word("ss", "user")
    <2>1. pc \in Place /\ cpu.ring \in {0, 3} /\ cpu.if \in BOOLEAN
      BY DEF Types
    <2> DEFINE ring == cpu.ring
               if == cpu.if
               place == pc
               g == ReturnFrame(place, ring, if)
    <2>2. place \in Place /\ ring \in {0, 3} /\ if \in BOOLEAN
      BY <2>1
    <2> HIDE DEF ring, if, place
    <2>3. /\ g \in Seq(StackWord) /\ Len(g) = IF ring = 3 THEN 5 ELSE 3
          /\ g[1] = Word("eip", place) /\ g[2] = Word("cs", ring)
          /\ g[3] = Word("eflags", if)
          /\ ring = 3 => g[4] = Word("esp", "user") /\ g[5] = Word("ss", "user")
      BY <2>2, ReturnFrameFacts
    <2> QED  BY <2>3 DEF ring, if, place
  <1>7. stack \in Seq(StackWord) /\ Len(stack) \in Nat
    BY LenProperties DEF Types
  <1>8. r \in Seq(StackWord) /\ Len(r) = b /\ (cpu.ring # 3 => r = stack)
    BY <1>3, <1>7
  <1>9. k \in {0, 1} /\ (c => k = 1) /\ m \in {3, 5} /\ (cpu.ring = 3 => m = 5)
        /\ b \in Nat /\ (cpu.ring # 3 => b = Len(stack)) /\ (cpu.ring = 3 => b = 0)
    BY <1>7
  <1> HIDE DEF e, f, r, k, m, b
  <1> DEFINE ef == e \o f
  <1>10. /\ ef \in Seq(StackWord)
         /\ Len(ef) = k + m
         /\ \A j \in 1 .. k + m : ef[j] = IF j <= k THEN e[j] ELSE f[j - k]
    BY <1>5, <1>6, ConcatProperties
  <1> HIDE DEF ef
  <1>11. /\ stack' \in Seq(StackWord)
         /\ Len(stack') = k + m + b
         /\ \A j \in 1 .. k + m + b :
               stack'[j] = IF j <= k + m THEN ef[j] ELSE r[j - (k + m)]
    <2> DEFINE all == ef \o r
    <2>1. stack' = all
      BY <1>2 DEF ef
    <2>2. /\ all \in Seq(StackWord)
          /\ Len(all) = Len(ef) + Len(r)
          /\ \A j \in 1 .. Len(ef) + Len(r) :
                all[j] = IF j <= Len(ef) THEN ef[j] ELSE r[j - Len(ef)]
      BY <1>8, <1>10, ConcatProperties
    <2> HIDE DEF all
    <2>3. Len(ef) = k + m /\ Len(r) = b
      BY <1>8, <1>10
    <2> QED  BY <2>1, <2>2, <2>3
  <1>12. /\ c => stack'[1] = e[1]
         /\ stack'[k + 1] = f[1] /\ stack'[k + 2] = f[2] /\ stack'[k + 3] = f[3]
         /\ m = 5 => stack'[k + 4] = f[4] /\ stack'[k + 5] = f[5]
    <2>1. \A j \in 1 .. k + m : stack'[j] = ef[j]
      BY <1>9, <1>11
    <2>2. \A j \in 1 .. k : stack'[j] = e[j]
      BY <1>9, <1>10, <2>1
    <2>3. \A j \in 1 .. m : stack'[k + j] = f[j]
      <3> SUFFICES ASSUME NEW j \in 1 .. m PROVE stack'[k + j] = f[j]
        OBVIOUS
      <3>1. k + j \in 1 .. k + m /\ ~(k + j <= k) /\ (k + j) - k = j
        BY <1>9
      <3>2. ef[k + j] = f[j]
        BY <1>10, <3>1
      <3>3. stack'[k + j] = ef[k + j]
        BY <2>1, <3>1
      <3> QED  BY <3>2, <3>3
    <2> QED  BY <1>9, <2>2, <2>3
  <1>13. \A i \in 1 .. b : stack'[k + m + i] = r[i]
    <2> SUFFICES ASSUME NEW i \in 1 .. b PROVE stack'[k + m + i] = r[i]
      OBVIOUS
    <2>1. /\ k + m + i \in 1 .. k + m + b /\ ~(k + m + i <= k + m)
          /\ (k + m + i) - (k + m) = i
      BY <1>9
    <2> QED  BY <1>11, <2>1
  <1>14. /\ cpu.ring = 3 => Len(stack') = k + m
         /\ cpu.ring # 3 => Len(stack') = k + m + Len(stack)
    BY <1>9, <1>11
  <1>15. cpu.ring # 3 =>
            \A i \in 1 .. Len(stack) : stack'[k + m + i] = stack[i]
    BY <1>8, <1>9, <1>13
  <1>16. c => stack'[1] = Word("err", "code")
    BY <1>5, <1>12
  <1>17. /\ stack'[k + 1] = Word("eip", pc)
         /\ stack'[k + 2] = Word("cs", cpu.ring)
         /\ stack'[k + 3] = Word("eflags", cpu.if)
         /\ cpu.ring = 3 => /\ stack'[k + 4] = Word("esp", "user")
                            /\ stack'[k + 5] = Word("ss", "user")
    BY <1>6, <1>9, <1>12
  <1> QED
    BY <1>2, <1>11, <1>14, <1>15, <1>16, <1>17, Zenon DEF k, m
\* What a stub pushes lies on top of the stack.
LEMMA PushOne ==
    ASSUME NEW s \in Seq(StackWord), NEW a \in StackWord
    PROVE  LET t == <<a>> \o s
           IN  /\ t \in Seq(StackWord) /\ Len(t) = Len(s) + 1 /\ t[1] = a
               /\ \A i \in 1 .. Len(s) : t[i + 1] = s[i]
  OBVIOUS

LEMMA PushThree ==
    ASSUME NEW s \in Seq(StackWord), NEW a \in StackWord, NEW b \in StackWord,
           NEW c \in StackWord
    PROVE  LET t == <<a, b, c>> \o <<>> \o s
           IN  /\ t \in Seq(StackWord) /\ Len(t) = Len(s) + 3
               /\ t[1] = a /\ t[2] = b /\ t[3] = c
               /\ \A i \in 1 .. Len(s) : t[i + 3] = s[i]
  <1>1. <<a, b, c>> \in Seq(StackWord)
    OBVIOUS
  <1>2. <<a, b, c>> \o <<>> = <<a, b, c>>
    BY <1>1, ConcatEmptySeq
  <1>3. LET t == <<a, b, c>> \o s
        IN  /\ t \in Seq(StackWord) /\ Len(t) = Len(s) + 3
            /\ t[1] = a /\ t[2] = b /\ t[3] = c
            /\ \A i \in 1 .. Len(s) : t[i + 3] = s[i]
    OBVIOUS
  <1> QED  BY <1>2, <1>3

LEMMA PushFour ==
    ASSUME NEW s \in Seq(StackWord), NEW a \in StackWord, NEW b \in StackWord,
           NEW c \in StackWord, NEW d \in StackWord
    PROVE  LET t == <<a, b, c>> \o <<d>> \o s
           IN  /\ t \in Seq(StackWord) /\ Len(t) = Len(s) + 4
               /\ t[1] = a /\ t[2] = b /\ t[3] = c /\ t[4] = d
               /\ \A i \in 1 .. Len(s) : t[i + 4] = s[i]
  <1> DEFINE u == <<a, b, c>> \o <<d>>
  <1>1. /\ u \in Seq(StackWord) /\ Len(u) = 4
        /\ u[1] = a /\ u[2] = b /\ u[3] = c /\ u[4] = d
    OBVIOUS
  <1> HIDE DEF u
  <1> DEFINE t == u \o s
  <1>2. /\ t \in Seq(StackWord) /\ Len(t) = Len(u) + Len(s)
        /\ \A i \in 1 .. Len(u) + Len(s) :
              t[i] = IF i <= Len(u) THEN u[i] ELSE s[i - Len(u)]
    BY <1>1, ConcatProperties
  <1>3. Len(s) \in Nat
    BY LenProperties
  <1> HIDE DEF t
  <1>4. /\ t \in Seq(StackWord) /\ Len(t) = Len(s) + 4
        /\ \A i \in 1 .. Len(s) + 4 :
              t[i] = IF i <= 4 THEN u[i] ELSE s[i - 4]
    BY <1>1, <1>2, <1>3
  <1>5. t[1] = a /\ t[2] = b /\ t[3] = c /\ t[4] = d
    BY <1>1, <1>3, <1>4
  <1>6. \A i \in 1 .. Len(s) : t[i + 4] = s[i]
    BY <1>3, <1>4
  <1> QED  BY <1>4, <1>5, <1>6 DEF t, u

-----------------------------------------------------------------------------
(* The invariant *)

\* Which vectors are taken where: a program's faults, a shell's page fault,
\* the timer and the system call outside of handlers, a page fault also from
\* within a system call, and a non-maskable interrupt anywhere but in the boot.
Takeable(v) ==
    /\ v \in Vector
    /\ v # NMI => /\ \/ pc \in Outside /\ cpu.if
                     \/ pc = "handler" /\ trap.vector = INT_SYSCALL /\ v = PageFault
                  /\ nmi_blocked' = nmi_blocked
    /\ v = NMI => /\ pc # "boot"
                  /\ ~nmi_blocked
                  /\ nmi_blocked' = TRUE
    /\ v \in {ProtectionFault, INT_SYSCALL} => pc = "user"

LEMMA TakenFromRing ==
    ASSUME KernelInv
    PROVE  /\ cpu.ring = 3 <=> pc = "user"
           /\ pc = "user" => tables.tr /\ cpu.if /\ cpu.ds = "user"
           /\ pc # "boot" \/ cpu.if => tables.idt /\ booted >= 3
           /\ Len(stack) \in Nat
  <1>1. /\ tables.idt <=> booted >= 2
        /\ tables.tr <=> booted >= 4
        /\ booted \in 0 .. 5
        /\ pc \in Outside => /\ cpu.ring = RingOf(pc)
                             /\ cpu.ds = SegmentsOf(pc)
                             /\ cpu.if <=> booted >= 3
                             /\ pc # "boot" => booted = 5
        /\ pc \notin Outside => /\ cpu.ring = 0 /\ ~cpu.if
                                /\ booted >= 3
    BY DEF KernelInv, Types, BootDone, AtOutside, InHandlers
  <1>2. cpu.ring = 3 <=> pc = "user"
    BY <1>1 DEF Outside, RingOf
  <1>3. pc = "user" => tables.tr /\ cpu.if /\ cpu.ds = "user"
    BY <1>1 DEF Outside, SegmentsOf
  <1>4. pc # "boot" \/ cpu.if => tables.idt /\ booted >= 3
    BY <1>1
  <1>5. Len(stack) \in Nat
    BY LenProperties DEF KernelInv, Types
  <1> QED  BY <1>2, <1>3, <1>4, <1>5

LEMMA TakenKeepsInv ==
    ASSUME KernelInv, NEW v, Takeable(v), Take(v, v \in Coded),
           UNCHANGED <<booted, tables, timer_ticks>>,
           pic' \in [mapped : BOOLEAN, masked : SUBSET Line,
                     pending : SUBSET Line, in_service : BOOLEAN],
           pic'.mapped = pic.mapped, pic'.masked = pic.masked
    PROVE  KernelInv'
  <1> DEFINE c == v \in Coded
             k == IF c THEN 1 ELSE 0
             n == k + (IF cpu.ring = 3 THEN 5 ELSE 3)
  <1>1. /\ cpu.ring = 3 <=> pc = "user"
        /\ pc = "user" => tables.tr /\ cpu.if /\ cpu.ds = "user"
        /\ tables.idt /\ booted >= 3
        /\ Len(stack) \in Nat
    BY TakenFromRing DEF Takeable, Outside
  <1>2. v \in Vector /\ c \in BOOLEAN /\ Types
    BY DEF Takeable, KernelInv
  <1>3. /\ pc' = "stub"
        /\ trap' = [vector |-> v, code |-> c, eip |-> pc, ring |-> cpu.ring]
        /\ cpu' = [cpu EXCEPT !.ring = 0, !.if = FALSE]
        /\ stack' \in Seq(StackWord)
        /\ c => stack'[1] = Word("err", "code")
        /\ stack'[k + 1] = Word("eip", pc)
        /\ stack'[k + 2] = Word("cs", cpu.ring)
        /\ stack'[k + 3] = Word("eflags", cpu.if)
        /\ cpu.ring = 3 => /\ stack'[k + 4] = Word("esp", "user")
                           /\ stack'[k + 5] = Word("ss", "user")
                           /\ Len(stack') = n
        /\ cpu.ring # 3 => /\ Len(stack') = n + Len(stack)
                           /\ \A i \in 1 .. Len(stack) :
                                 stack'[n + i] = stack[i]
    <2> DEFINE code == c
    <2>1. code \in BOOLEAN /\ Take(v, code)
      OBVIOUS
    <2> HIDE DEF code
    <2>2. LET kk == IF code THEN 1 ELSE 0
              nn == kk + (IF cpu.ring = 3 THEN 5 ELSE 3)
          IN  /\ pc' = "stub"
              /\ trap' = [vector |-> v, code |-> code, eip |-> pc, ring |-> cpu.ring]
              /\ cpu' = [cpu EXCEPT !.ring = 0, !.if = FALSE]
              /\ stack' \in Seq(StackWord)
              /\ code => stack'[1] = Word("err", "code")
              /\ stack'[kk + 1] = Word("eip", pc)
              /\ stack'[kk + 2] = Word("cs", cpu.ring)
              /\ stack'[kk + 3] = Word("eflags", cpu.if)
              /\ cpu.ring = 3 => /\ stack'[kk + 4] = Word("esp", "user")
                                 /\ stack'[kk + 5] = Word("ss", "user")
                                 /\ Len(stack') = nn
              /\ cpu.ring # 3 => /\ Len(stack') = nn + Len(stack)
                                 /\ \A i \in 1 .. Len(stack) :
                                       stack'[nn + i] = stack[i]
      BY <1>1, <1>2, <2>1, TakeFacts
    <2> QED  BY <2>2 DEF code
  <1>4. pc \in Outside =>
            /\ cpu.ring = RingOf(pc) /\ cpu.ds = SegmentsOf(pc)
            /\ Bare(stack, pc)
            /\ cpu.if => BootedAt(pc)
    BY DEF KernelInv, Types, AtOutside, BootedAt
  <1>5. v = 13 => pc = "user"
    BY DEF Takeable, ProtectionFault
  <1> HIDE DEF c
  <1>6. /\ k \in {0, 1} /\ k = (IF c THEN 1 ELSE 0)
        /\ n = k + (IF cpu.ring = 3 THEN 5 ELSE 3)
    OBVIOUS
  <1> HIDE DEF k, n
  <1>7. /\ trap'.vector = v /\ trap'.code = c /\ trap'.eip = pc
        /\ trap'.ring = cpu.ring
        /\ cpu'.ring = 0 /\ cpu'.if = FALSE /\ cpu'.ds = cpu.ds
    BY <1>3 DEF KernelInv, Types
  <1>8. Types'
    <2>1. trap' \in [vector : Vector, code : BOOLEAN, eip : Place, ring : {0, 3}]
      BY <1>2, <1>3 DEF Types
    <2>2. cpu' \in [ring : {0, 3}, if : BOOLEAN, ds : {"kernel", "user"},
                    regs : RegisterFile]
      BY <1>2, <1>3 DEF Types
    <2>3. nmi_blocked' \in BOOLEAN
      BY <1>2 DEF Takeable, Types
    <2>4. pc' \in Place \ {"kmain"}
      BY <1>3 DEF Place
    <2> QED  BY <1>2, <1>3, <2>1, <2>2, <2>3, <2>4 DEF Types
  <1>9. BootDone'
    BY DEF KernelInv, BootDone
  <1>10. AtOutside' /\ AtTimer' /\ AtHandler' /\ AtLeave'
    BY <1>3 DEF AtOutside, AtTimer, AtHandler, AtLeave, Outside
  <1>11. InHandlers'
    BY <1>1, <1>3, <1>7 DEF InHandlers
  <1>12. Len(stack') = IF cpu.ring = 3 THEN k + 5 ELSE k + 3 + Len(stack)
    BY <1>1, <1>3, <1>6
  <1>13. ASSUME v \in {INT_TIMER, INT_SYSCALL}, NEW p, p = pc
         PROVE  /\ p \in Outside
                /\ ReturnsTo(1, p)'
                /\ cpu'.ds = SegmentsOf(p)
                /\ v = INT_SYSCALL => p = "user"
    <2>1. /\ pc \in Outside /\ cpu.if
          /\ v = INT_SYSCALL => pc = "user"
      BY <1>13 DEF Takeable, INT_TIMER, INT_SYSCALL, NMI, PageFault,
                   ProtectionFault
    <2>2. k = 0
      BY <1>6, <1>13 DEF c, Coded, INT_TIMER, INT_SYSCALL
    <2>3. /\ stack'[1] = Word("eip", pc)
          /\ stack'[2] = Word("cs", RingOf(pc))
          /\ stack'[3] = Word("eflags", cpu.if)
          /\ pc = "user" => /\ stack'[4] = Word("esp", "user")
                            /\ stack'[5] = Word("ss", "user")
      <3>1. /\ stack'[k + 1] = Word("eip", pc)
            /\ stack'[k + 2] = Word("cs", cpu.ring)
            /\ stack'[k + 3] = Word("eflags", cpu.if)
            /\ cpu.ring = 3 => /\ stack'[k + 4] = Word("esp", "user")
                               /\ stack'[k + 5] = Word("ss", "user")
        BY <1>3
      <3>2. k + 1 = 1 /\ k + 2 = 2 /\ k + 3 = 3 /\ k + 4 = 4 /\ k + 5 = 5
        BY <2>2
      <3> QED  BY <1>1, <1>4, <2>1, <3>1, <3>2
    <2>4. stack'[3] = Word("eflags", TRUE)
      BY <2>1, <2>3, <1>2 DEF Types, Word
    <2>5. pc = "user" => Len(stack') = 5
      BY <1>1, <1>12, <2>2
    <2>6. pc # "user" => Len(stack') = 4 /\ stack'[4] = Word("eip", "kmain")
      <3> SUFFICES ASSUME pc # "user"
                   PROVE  Len(stack') = 4 /\ stack'[4] = Word("eip", "kmain")
        OBVIOUS
      <3>1. Len(stack) = 1 /\ stack[1] = Word("eip", "kmain")
        BY <1>4, <2>1 DEF Bare
      <3>2. cpu.ring # 3 /\ n = 3
        BY <1>1, <1>6, <2>2
      <3>3. Len(stack') = n + Len(stack) /\ stack'[n + 1] = stack[1]
        BY <1>3, <3>1, <3>2
      <3> QED  BY <3>1, <3>2, <3>3
    <2>7. Frame(stack', 1, p)
      <3>1. /\ stack'[1] = Word("eip", p)
            /\ stack'[1 + 1] = Word("cs", RingOf(p))
            /\ stack'[1 + 2] = Word("eflags", TRUE)
            /\ p = "user" => /\ Len(stack') = 1 + 4
                             /\ stack'[1 + 3] = Word("esp", "user")
                             /\ stack'[1 + 4] = Word("ss", "user")
            /\ p # "user" => /\ Len(stack') = 1 + 3
                             /\ stack'[1 + 3] = Word("eip", "kmain")
        <4>1. 1 + 1 = 2 /\ 1 + 2 = 3 /\ 1 + 3 = 4 /\ 1 + 4 = 5
          OBVIOUS
        <4> QED  BY <1>13, <2>3, <2>4, <2>5, <2>6, <4>1, Zenon
      <3> QED  BY <1>13, <2>1, <3>1 DEF Frame
    <2>8. BootedAt(p)'
      BY <1>4, <1>13, <2>1 DEF BootedAt
    <2> QED  BY <1>4, <1>7, <1>13, <2>1, <2>7, <2>8 DEF ReturnsTo
  <1>14. AtStub'
    <2> DEFINE j == IF c THEN 2 ELSE 1
    <2>1. /\ j = k + 1 /\ j + 1 = k + 2
          /\ Len(stack') >= j + 2
      BY <1>1, <1>6, <1>12
    <2>2. /\ c => stack'[1] = Word("err", "code")
          /\ stack'[k + 1] = Word("eip", pc)
          /\ stack'[k + 2] = Word("cs", cpu.ring)
      BY <1>3
    <2> HIDE DEF j
    <2>3. /\ stack'[j] = Word("eip", trap'.eip)
          /\ stack'[j + 1] = Word("cs", trap'.ring)
          /\ trap'.code => stack'[1] = Word("err", "code")
      BY <1>7, <2>1, <2>2
    <2>4. trap'.code <=> trap'.vector \in Coded
      BY <1>7 DEF c
    <2>5. trap'.vector = ProtectionFault => trap'.ring = 3
      BY <1>1, <1>5, <1>7 DEF ProtectionFault
    <2>6. trap'.vector \in {INT_TIMER, INT_SYSCALL} =>
              \E p \in Outside : /\ ReturnsTo(1, p)'
                                 /\ cpu'.ds = SegmentsOf(p)
                                 /\ trap'.vector = INT_SYSCALL => p = "user"
      <3> SUFFICES ASSUME v \in {INT_TIMER, INT_SYSCALL}
                   PROVE  \E p \in Outside : /\ ReturnsTo(1, p)'
                                             /\ cpu'.ds = SegmentsOf(p)
                                             /\ v = INT_SYSCALL => p = "user"
        BY <1>7
      <3>1. PICK p : p = pc
        OBVIOUS
      <3> QED  BY <1>13, <3>1
    <2>7. j = IF trap'.code THEN 2 ELSE 1
      BY <1>7 DEF j
    <2> QED  BY <2>1, <2>3, <2>4, <2>5, <2>6, <2>7 DEF AtStub
  <1>15. Depth'
    <2>1. nmi_blocked => v # NMI
      BY DEF Takeable
    <2>2. /\ v = NMI => nmi_blocked' = TRUE
          /\ v # NMI => ~nmi_blocked /\ nmi_blocked' = nmi_blocked
      BY DEF Takeable, KernelInv, AtOutside, Depth, NMI, INT_SYSCALL, Outside
    <2>3. nmi_blocked' <=> v = NMI
      BY <2>2
    <2>4. ~nmi_blocked => Len(stack) <= 16
      BY <1>1 DEF KernelInv, Depth
    <2>5. Len(stack') <= IF nmi_blocked' THEN 19 ELSE IF c THEN 13 ELSE 5
      <3>1. v = NMI => k = 0
        BY <1>6 DEF c, NMI, Coded
      <3>2. CASE v = NMI
        <4>1. ~nmi_blocked
          BY <3>2 DEF Takeable
        <4> QED  BY <1>1, <1>12, <2>3, <2>4, <3>1, <3>2, <4>1
      <3>3. CASE v # NMI /\ pc \in Outside
        <4>1. Len(stack) <= 1
          BY <3>3 DEF KernelInv, Depth
        <4> QED  BY <1>1, <1>6, <1>12, <2>2, <2>3, <3>3, <4>1
      <3>4. CASE v # NMI /\ pc \notin Outside
        <4>1. /\ pc = "handler" /\ trap.vector = INT_SYSCALL /\ v = PageFault
          BY <3>4 DEF Takeable
        <4>2. Frame(stack, 5, "user")
          BY <4>1 DEF KernelInv, AtHandler, CallSaved, ReturnsTo
        <4>3. Len(stack) = 5 + 4
          BY <4>2, Zenon DEF Frame
        <4>4. c /\ cpu.ring # 3
          BY <1>1, <4>1 DEF c, Coded, PageFault
        <4> QED  BY <1>1, <1>6, <1>12, <2>2, <2>3, <3>4, <4>3, <4>4
      <3> QED  BY <3>2, <3>3, <3>4
    <2> QED  BY <1>3, <1>7, <2>3, <2>5 DEF Depth, Outside
  <1> QED
    BY <1>8, <1>9, <1>10, <1>11, <1>14, <1>15 DEF KernelInv
LEMMA BootStepKeepsInv == KernelInv /\ BootStep => KernelInv'
  <1> SUFFICES ASSUME KernelInv, BootStep PROVE KernelInv'
    OBVIOUS
  <1> DEFINE step == BootOrder[booted + 1]
  <1>1. /\ pc = "boot" /\ pc \in Outside
        /\ cpu' = IF step = "sti" THEN [cpu EXCEPT !.if = TRUE] ELSE cpu
        /\ tables' = [idt |-> tables.idt \/ step = "lidt",
                      tr |-> tables.tr \/ step = "tss_flush"]
        /\ pic' = IF step = "pic_remap"
                     THEN [pic EXCEPT !.mapped = TRUE, !.masked = Line \ {0}]
                     ELSE pic
        /\ timer_ticks' = IF step = "system_init_timer" THEN 0 ELSE timer_ticks
        /\ booted' = booted + 1
        /\ pc' = IF booted' = 5 THEN "shell" ELSE "boot"
        /\ UNCHANGED <<stack, trap, nmi_blocked, printed>>
    BY DEF BootStep, BootOrder, Outside
  <1>2. /\ booted \in 0 .. 4
        /\ pic.mapped <=> booted >= 1
        /\ pic.mapped => pic.masked = {1}
        /\ tables.idt <=> booted >= 2
        /\ tables.tr <=> booted >= 4
        /\ cpu.if <=> booted >= 3
        /\ cpu.ring = 0 /\ cpu.ds = "kernel"
        /\ Len(stack) = 1 /\ stack[1] = Word("eip", "kmain")
        /\ ~nmi_blocked
    BY <1>1 DEF KernelInv, Types, BootDone, AtOutside, Bare, RingOf, SegmentsOf
  <1>3. /\ step = "pic_remap" <=> booted = 0
        /\ step = "lidt" <=> booted = 1
        /\ step = "sti" <=> booted = 2
        /\ step = "tss_flush" <=> booted = 3
    <2>1. booted + 1 \in 1 .. 5
      BY <1>2
    <2> DEFINE n == booted + 1
    <2>2. /\ n = 1 <=> booted = 0
          /\ n = 2 <=> booted = 1
          /\ n = 3 <=> booted = 2
          /\ n = 4 <=> booted = 3
      BY <1>2
    <2> HIDE DEF n
    <2>3. n \in {1, 2, 3, 4, 5}
      BY <2>1 DEF n
    <2>4. /\ BootOrder[n] = "pic_remap" <=> n = 1
          /\ BootOrder[n] = "lidt" <=> n = 2
          /\ BootOrder[n] = "sti" <=> n = 3
          /\ BootOrder[n] = "tss_flush" <=> n = 4
      BY <2>3 DEF BootOrder
    <2> QED  BY <2>2, <2>4 DEF n
  <1> HIDE DEF step
  <1>4. Line \ {0} = {1}
    BY DEF Line
  <1>5. /\ booted' \in 1 .. 5 /\ booted' >= 1
        /\ pic' \in [mapped : BOOLEAN, masked : SUBSET Line,
                     pending : SUBSET Line, in_service : BOOLEAN]
        /\ pic'.mapped
        /\ pic'.masked = {1}
    <2>1. pic \in [mapped : BOOLEAN, masked : SUBSET Line,
                   pending : SUBSET Line, in_service : BOOLEAN]
      BY DEF KernelInv, Types
    <2>2. booted' \in 1 .. 5 /\ booted' >= 1
      BY <1>1, <1>2
    <2>3. CASE booted = 0
      <3>1. pic' = [pic EXCEPT !.mapped = TRUE, !.masked = {1}]
        BY <1>1, <1>3, <1>4, <2>3
      <3>2. {1} \in SUBSET Line
        BY DEF Line
      <3> QED  BY <2>1, <2>2, <3>1, <3>2
    <2>4. CASE booted # 0
      <3>1. pic' = pic /\ booted >= 1
        BY <1>1, <1>2, <1>3, <2>4
      <3> QED  BY <1>2, <2>1, <2>2, <3>1
    <2> QED  BY <2>3, <2>4
  <1>6. /\ tables' \in [idt : BOOLEAN, tr : BOOLEAN]
        /\ tables'.idt <=> booted' >= 2
        /\ tables'.tr <=> booted' >= 4
    <2>1. booted' >= 2 <=> booted >= 2 \/ booted = 1
      BY <1>1, <1>2
    <2>2. booted' >= 4 <=> booted >= 4 \/ booted = 3
      BY <1>1, <1>2
    <2>3. /\ tables'.idt <=> tables.idt \/ step = "lidt"
          /\ tables'.tr <=> tables.tr \/ step = "tss_flush"
      BY <1>1
    <2>4. tables' \in [idt : BOOLEAN, tr : BOOLEAN]
      BY <1>1
    <2> QED  BY <1>2, <1>3, <2>1, <2>2, <2>3, <2>4
  <1>7. /\ cpu' \in [ring : {0, 3}, if : BOOLEAN, ds : {"kernel", "user"},
                     regs : RegisterFile]
        /\ cpu'.if <=> booted' >= 3
        /\ cpu'.ring = 0 /\ cpu'.ds = "kernel"
    <2>1. booted' >= 3 <=> booted >= 3 \/ booted = 2
      BY <1>1, <1>2
    <2>2. cpu \in [ring : {0, 3}, if : BOOLEAN, ds : {"kernel", "user"},
                   regs : RegisterFile]
      BY DEF KernelInv, Types
    <2>3. CASE booted = 2
      <3>1. cpu' = [cpu EXCEPT !.if = TRUE]
        BY <1>1, <1>3, <2>3
      <3> QED  BY <1>2, <2>1, <2>2, <2>3, <3>1
    <2>4. CASE booted # 2
      <3>1. cpu' = cpu
        BY <1>1, <1>3, <2>4
      <3> QED  BY <1>2, <2>1, <2>2, <2>4, <3>1
    <2> QED  BY <2>3, <2>4
  <1>8. /\ pc' \in {"boot", "shell"}
        /\ pc' = "boot" => booted' < 5
        /\ pc' = "shell" => booted' = 5
    BY <1>1, <1>5
  <1>9. timer_ticks' \in 0 .. TickWord - 1
    BY <1>1, RegsAssumption DEF KernelInv, Types
  <1>10. Types'
    BY <1>1, <1>5, <1>6, <1>7, <1>8, <1>9 DEF KernelInv, Types, Place, Outside
  <1>11. BootDone'
    BY <1>5, <1>6 DEF BootDone
  <1>12. AtOutside'
    BY <1>1, <1>2, <1>7, <1>8 DEF AtOutside, Bare, RingOf, SegmentsOf
  <1>13. InHandlers' /\ AtStub' /\ AtTimer' /\ AtHandler' /\ AtLeave'
    BY <1>8 DEF InHandlers, AtStub, AtTimer, AtHandler, AtLeave, Outside
  <1>14. Depth'
    BY <1>1, <1>2, <1>8 DEF Depth
  <1> QED
    BY <1>10, <1>11, <1>12, <1>13, <1>14 DEF KernelInv

\* The steps outside of handlers that change the processor alone.
LEMMA OutsideKeepsInv ==
    ASSUME KernelInv,
           pc \in Outside, pc # "boot", pc' \in {"exec", "user"},
           cpu' \in [ring : {0, 3}, if : BOOLEAN, ds : {"kernel", "user"},
                     regs : RegisterFile],
           cpu'.if, cpu'.ring = RingOf(pc'), cpu'.ds = "user",
           stack' \in Seq(StackWord), Bare(stack', pc'), ~nmi_blocked',
           nmi_blocked' \in BOOLEAN,
           UNCHANGED <<booted, trap, tables, pic, timer_ticks>>
    PROVE  KernelInv'
  <1>1. booted = 5
    BY DEF KernelInv, AtOutside
  <1>2. Types'
    BY DEF KernelInv, Types, Place, Outside
  <1>3. BootDone'
    BY DEF KernelInv, BootDone
  <1>4. AtOutside'
    BY <1>1 DEF AtOutside, SegmentsOf
  <1>5. InHandlers' /\ AtStub' /\ AtTimer' /\ AtHandler' /\ AtLeave'
    BY DEF InHandlers, AtStub, AtTimer, AtHandler, AtLeave, Outside
  <1>6. Depth'
    <2>1. Len(stack') \in {0, 1} /\ pc' # "stub" /\ ~nmi_blocked'
      BY DEF Bare
    <2>2. Len(stack') <= 1 /\ Len(stack') <= 16
      <3>1. 0 <= 1 /\ 1 <= 1 /\ 0 <= 16 /\ 1 <= 16
        OBVIOUS
      <3>2. Len(stack') = 0 \/ Len(stack') = 1
        BY <2>1
      <3> QED  BY <3>1, <3>2, Zenon
    <2>3. (IF nmi_blocked' THEN 23 ELSE 16) = 16
      BY <2>1
    <2> QED  BY <2>1, <2>2, <2>3, Zenon DEF Depth
  <1> QED
    BY <1>2, <1>3, <1>4, <1>5, <1>6 DEF KernelInv

\* The frame that process_exec has pushed is popped again.
LEMMA EnterFacts ==
    ASSUME KernelInv, EnterProgram
    PROVE  /\ pc = "exec" /\ pc' = "user"
           /\ \E regs \in Regs :
                 cpu' = [ring |-> 3, if |-> TRUE, ds |-> "user", regs |-> regs]
           /\ stack' \in Seq(StackWord) /\ Bare(stack', "user")
           /\ nmi_blocked' = FALSE
           /\ UNCHANGED <<booted, trap, tables, pic, timer_ticks, printed>>
  <1>1. PICK regs \in Regs :
            /\ pc = "exec"
            /\ Iret(ReturnFrame("user", 3, TRUE) \o stack, cpu.ds, regs)
            /\ UNCHANGED <<booted, trap, tables, pic, timer_ticks, printed>>
    BY DEF EnterProgram
  <1>2. /\ cpu.ds = "user" /\ Len(stack) = 1 /\ stack[1] = Word("eip", "kmain")
        /\ stack \in Seq(StackWord)
    BY <1>1 DEF KernelInv, Types, AtOutside, Outside, SegmentsOf, Bare
  <1> DEFINE top == ReturnFrame("user", 3, TRUE)
             frame == top \o stack
  <1>3. /\ top \in Seq(StackWord) /\ Len(top) = 5
        /\ top[1] = Word("eip", "user") /\ top[2] = Word("cs", 3)
        /\ top[3] = Word("eflags", TRUE)
    <2>1. "user" \in Place
      BY DEF Place, Outside
    <2> QED  BY <2>1, ReturnFrameFacts
  <1> HIDE DEF top
  <1>4. stack \in Seq(StackWord)
    BY <1>2
  <1>5. /\ frame \in Seq(StackWord) /\ Len(frame) = 6
        /\ frame[1] = top[1] /\ frame[2] = top[2] /\ frame[3] = top[3]
        /\ frame[6] = stack[1]
    <2>1. /\ frame \in Seq(StackWord) /\ Len(frame) = Len(top) + Len(stack)
          /\ \A i \in 1 .. Len(top) + Len(stack) :
                frame[i] = IF i <= Len(top) THEN top[i] ELSE stack[i - Len(top)]
      BY <1>3, <1>4, ConcatProperties
    <2> HIDE DEF frame
    <2>2. \A i \in 1 .. 6 : frame[i] = IF i <= 5 THEN top[i] ELSE stack[i - 5]
      BY <1>2, <1>3, <2>1
    <2>3. frame[1] = top[1] /\ frame[2] = top[2] /\ frame[3] = top[3]
      BY <2>2
    <2>4. frame[6] = stack[6 - 5] /\ 6 - 5 = 1
      BY <2>2
    <2> QED  BY <1>2, <1>3, <2>1, <2>3, <2>4
  <1>6. Iret(frame, cpu.ds, regs)
    BY <1>1 DEF top
  <1> HIDE DEF frame
  <1>7. /\ frame[1].tag = "eip" /\ frame[1].value = "user"
        /\ frame[2].tag = "cs" /\ frame[2].value = 3
        /\ frame[3].value = TRUE
        /\ frame[2] = Word("cs", 3)
    BY <1>3, <1>5 DEF Word
  <1> DEFINE n == 5
  <1>8. /\ pc' = frame[1].value
        /\ cpu' = [ring |-> frame[2].value, if |-> frame[3].value,
                   ds |-> cpu.ds, regs |-> regs]
        /\ stack' \in Seq(StackWord)
        /\ nmi_blocked' = FALSE
        /\ Len(stack') = Len(frame) - n
        /\ \A j \in 1 .. Len(stack') : stack'[j] = frame[j + n]
    <2>1. n = (IF frame[2] = Word("cs", 3) THEN 5 ELSE 3) /\ n \in {3, 5}
      BY <1>7
    <2>2. Len(frame) >= n /\ frame[1].value # "halted"
      BY <1>5, <1>7
    <2> DEFINE segments == cpu.ds
    <2>3. Iret(frame, segments, regs)
      BY <1>6
    <2>4. /\ frame \in Seq(StackWord) /\ frame[1].tag = "eip"
          /\ frame[2].tag = "cs"
      BY <1>5, <1>7
    <2> HIDE DEF n, segments
    <2>5. /\ pc' = frame[1].value
          /\ cpu' = [ring |-> frame[2].value, if |-> frame[3].value,
                     ds |-> segments, regs |-> regs]
          /\ stack' \in Seq(StackWord)
          /\ Len(stack') = Len(frame) - n
          /\ \A j \in 1 .. Len(stack') : stack'[j] = frame[j + n]
          /\ nmi_blocked' = FALSE
      BY <2>1, <2>2, <2>3, <2>4, IretFacts
    <2> QED  BY <2>5 DEF segments
  <1>9. Bare(stack', "user")
    <2> HIDE DEF n
    <2>1. Len(stack') = 6 - n /\ \A j \in 1 .. Len(stack') : stack'[j] = frame[j + n]
      BY <1>5, <1>8
    <2>2. Len(stack') = 1 /\ stack'[1] = frame[6]
      BY <2>1 DEF n
    <2> QED  BY <1>2, <1>5, <2>2 DEF Bare
  <1>10. /\ pc' = "user"
         /\ cpu' = [ring |-> 3, if |-> TRUE, ds |-> "user", regs |-> regs]
    BY <1>2, <1>7, <1>8
  <1> QED  BY <1>1, <1>8, <1>9, <1>10

LEMMA ProgramKeepsInv ==
    KernelInv /\ (ProcessExec \/ EnterProgram \/ UserCompute) => KernelInv'
  <1> SUFFICES ASSUME KernelInv, ProcessExec \/ EnterProgram \/ UserCompute
               PROVE  KernelInv'
    OBVIOUS
  <1>1. ASSUME pc \in {"shell", "exec", "user"}
        PROVE  /\ cpu \in [ring : {0, 3}, if : BOOLEAN, ds : {"kernel", "user"},
                           regs : RegisterFile]
               /\ cpu.if /\ cpu.ring = RingOf(pc) /\ cpu.ds = SegmentsOf(pc)
               /\ stack \in Seq(StackWord) /\ Bare(stack, pc)
               /\ ~nmi_blocked /\ nmi_blocked \in BOOLEAN
               /\ pc \in Outside /\ pc # "boot"
    BY <1>1 DEF KernelInv, Types, AtOutside, Outside
  <1>2. Regs \subseteq RegisterFile
    BY RegsAssumption DEF RegisterFile
  <1>3. CASE ProcessExec
    <2>1. /\ pc = "shell" /\ pc' = "exec" /\ cpu' = [cpu EXCEPT !.ds = "user"]
          /\ UNCHANGED <<booted, stack, trap, tables, pic, nmi_blocked, timer_ticks>>
      BY <1>3 DEF ProcessExec
    <2>2. RingOf("shell") = 0 /\ RingOf("exec") = 0
      BY DEF RingOf
    <2>3. /\ cpu' \in [ring : {0, 3}, if : BOOLEAN, ds : {"kernel", "user"},
                       regs : RegisterFile]
          /\ cpu'.if /\ cpu'.ring = RingOf(pc') /\ cpu'.ds = "user"
      BY <1>1, <2>1, <2>2
    <2>4. Bare(stack', pc')
      BY <1>1, <2>1 DEF Bare
    <2> QED  BY <1>1, <2>1, <2>3, <2>4, OutsideKeepsInv
  <1>4. CASE EnterProgram
    <2>1. /\ pc = "exec" /\ pc' = "user"
          /\ stack' \in Seq(StackWord) /\ Bare(stack', "user")
          /\ nmi_blocked' = FALSE
          /\ UNCHANGED <<booted, trap, tables, pic, timer_ticks>>
      BY <1>4, EnterFacts
    <2>2. PICK regs \in Regs :
              cpu' = [ring |-> 3, if |-> TRUE, ds |-> "user", regs |-> regs]
      BY <1>4, EnterFacts
    <2>3. /\ cpu' \in [ring : {0, 3}, if : BOOLEAN, ds : {"kernel", "user"},
                       regs : RegisterFile]
          /\ cpu'.if /\ cpu'.ring = RingOf(pc') /\ cpu'.ds = "user"
      BY <1>2, <2>1, <2>2 DEF RingOf
    <2> QED
      BY <1>1, <2>1, <2>3, OutsideKeepsInv
  <1>5. CASE UserCompute
    <2>1. PICK regs \in Regs :
              /\ pc = "user" /\ pc' = pc /\ cpu' = [cpu EXCEPT !.regs = regs]
              /\ UNCHANGED <<booted, stack, trap, tables, pic, nmi_blocked,
                             timer_ticks>>
      BY <1>5 DEF UserCompute
    <2>2. /\ cpu' \in [ring : {0, 3}, if : BOOLEAN, ds : {"kernel", "user"},
                       regs : RegisterFile]
          /\ cpu'.if /\ cpu'.ring = RingOf(pc') /\ cpu'.ds = "user"
      BY <1>1, <1>2, <2>1 DEF SegmentsOf
    <2> QED  BY <1>1, <2>1, <2>2, OutsideKeepsInv
  <1> QED  BY <1>3, <1>4, <1>5
\* One of the vectors is taken, and of the kernel nothing else changes than the
\* interrupt controller.
Taken ==
    \E v \in Vector :
        /\ Takeable(v) /\ Take(v, v \in Coded)
        /\ UNCHANGED <<booted, tables, timer_ticks>>
        /\ pic' \in [mapped : BOOLEAN, masked : SUBSET Line,
                     pending : SUBSET Line, in_service : BOOLEAN]
        /\ pic'.mapped = pic.mapped /\ pic'.masked = pic.masked

\* In a handler the number on the stack is that of the interrupt taken last.
LEMMA ServesCall ==
    ASSUME KernelInv, pc = "handler", stack[3] = Word("num", INT_SYSCALL)
    PROVE  trap.vector = INT_SYSCALL /\ CallSaved
  <1>1. /\ stack[3] = Word("num", trap.vector)
        /\ trap.vector = INT_SYSCALL => CallSaved
    BY DEF KernelInv, AtHandler
  <1>2. stack[3].value = trap.vector /\ stack[3].value = INT_SYSCALL
    BY <1>1 DEF Word
  <1> QED  BY <1>1, <1>2

LEMMA InterruptTakes ==
    ASSUME KernelInv,
           \/ UserInt \/ (\E v \in Exception : Fault(v)) \/ Interrupt \/ NonMaskable
           \/ WriteFault
    PROVE  Taken
  <1>1. /\ pic \in [mapped : BOOLEAN, masked : SUBSET Line,
                    pending : SUBSET Line, in_service : BOOLEAN]
        /\ pc \in Place \ {"kmain"}
        /\ pc = "user" => cpu.if
        /\ pc = "shell" => cpu.if
        /\ "user" \in Outside /\ "shell" \in Outside
    BY TakenFromRing DEF KernelInv, Types, AtOutside, Outside
  <1>2. CASE UserInt
    <2>1. /\ pc = "user" /\ Take(INT_SYSCALL, FALSE)
          /\ UNCHANGED <<booted, tables, pic, nmi_blocked, timer_ticks,
                         printed>>
      BY <1>2 DEF UserInt
    <2>2. Takeable(INT_SYSCALL)
      BY <1>1, <2>1 DEF Takeable, Vector, INT_SYSCALL, NMI, ProtectionFault
    <2>3. Take(INT_SYSCALL, INT_SYSCALL \in Coded)
      <3>1. (INT_SYSCALL \in Coded) = FALSE
        BY DEF INT_SYSCALL, Coded
      <3> QED  BY <2>1, <3>1
    <2> QED  BY <1>1, <2>1, <2>2, <2>3, Zenon DEF Taken, Takeable
  <1>3. ASSUME NEW v \in Exception, Fault(v) PROVE Taken
    <2>1. /\ pc = "user" \/ (pc = "shell" /\ v = PageFault)
          /\ Take(v, v \in HasErrorCode)
          /\ UNCHANGED <<booted, tables, pic, nmi_blocked, timer_ticks,
                         printed>>
      BY <1>3 DEF Fault
    <2>0. v \in Vector /\ v # NMI
      BY <1>3 DEF Exception, Vector, NMI
    <2>2. Takeable(v)
      BY <1>1, <2>0, <2>1 DEF Takeable, INT_SYSCALL, PageFault, ProtectionFault
    <2>3. (v \in HasErrorCode) = (v \in Coded)
      BY <1>3 DEF HasErrorCode, Coded, Exception
    <2>4. Take(v, v \in Coded)
      BY <2>1, <2>3
    <2> QED  BY <1>1, <2>1, <2>2, <2>4, Zenon DEF Taken, Takeable
  <1>5. CASE Interrupt
    <2>1. cpu.if /\ Deliverable # {}
      BY <1>5 DEF Interrupt, Preempted
    <2>2. pc \in Outside
      BY <2>1 DEF KernelInv, InHandlers
    <2>3. pic.mapped /\ pic.masked = {1}
      BY <2>1, <2>2 DEF KernelInv, Types, AtOutside, BootDone
    <2>4. 0 \in Deliverable
      BY <1>1, <2>1, <2>3 DEF Deliverable, Line
    <2>5. /\ Take(32 + 0, FALSE)
          /\ pic' = [pic EXCEPT !.pending = @ \ {0}, !.in_service = TRUE]
          /\ UNCHANGED <<booted, tables, nmi_blocked, timer_ticks, printed>>
      <3>1. LET line == IF 0 \in Deliverable THEN 0 ELSE 1
            IN  /\ Take((IF pic.mapped THEN INT_TIMER ELSE 8) + line, FALSE)
                /\ pic' = [pic EXCEPT !.pending = @ \ {line}, !.in_service = TRUE]
        BY <1>5 DEF Interrupt
      <3>2. UNCHANGED <<booted, tables, nmi_blocked, timer_ticks, printed>>
        BY <1>5 DEF Interrupt
      <3> QED  BY <2>3, <2>4, <3>1, <3>2, Zenon DEF INT_TIMER
    <2>6. Take(32, 32 \in Coded)
      <3>1. 32 + 0 = 32 /\ (32 \in Coded) = FALSE
        BY DEF Coded
      <3> QED  BY <2>5, <3>1
    <2>7. Takeable(32)
      BY <2>1, <2>2, <2>5 DEF Takeable, Vector, INT_SYSCALL, NMI, ProtectionFault
    <2>8. /\ pic' \in [mapped : BOOLEAN, masked : SUBSET Line,
                       pending : SUBSET Line, in_service : BOOLEAN]
          /\ pic'.mapped = pic.mapped /\ pic'.masked = pic.masked
      BY <1>1, <2>5
    <2> QED  BY <2>5, <2>6, <2>7, <2>8, Zenon DEF Taken, Takeable
  <1>6. CASE NonMaskable
    <2>1. /\ pc # "boot" /\ ~nmi_blocked /\ nmi_blocked' = TRUE
          /\ Take(NMI, FALSE)
          /\ UNCHANGED <<booted, tables, pic, timer_ticks, printed>>
      BY <1>6 DEF NonMaskable
    <2>2. Takeable(NMI)
      BY <2>1 DEF Takeable, Vector, INT_SYSCALL, NMI, ProtectionFault
    <2>3. (NMI \in Coded) = FALSE
      BY DEF NMI, Coded
    <2>4. Take(NMI, NMI \in Coded)
      BY <2>1, <2>3
    <2> QED  BY <1>1, <2>1, <2>2, <2>4, Zenon DEF Taken, Takeable
  <1>7. CASE WriteFault
    <2>1. /\ pc = "handler" /\ stack[3] = Word("num", INT_SYSCALL)
          /\ Take(PageFault, TRUE)
          /\ UNCHANGED <<booted, tables, pic, nmi_blocked, timer_ticks>>
      BY <1>7 DEF WriteFault, IntNo
    <2>2. trap.vector = INT_SYSCALL
      BY <2>1, ServesCall
    <2>3. Takeable(PageFault)
      BY <2>1, <2>2 DEF Takeable, Vector, INT_SYSCALL, NMI, PageFault,
                        ProtectionFault
    <2>4. (PageFault \in Coded) = TRUE
      BY DEF PageFault, Coded
    <2>5. Take(PageFault, PageFault \in Coded)
      BY <2>1, <2>4
    <2> QED  BY <1>1, <2>1, <2>3, <2>5, Zenon DEF Taken, Takeable
  <1> QED  BY <1>2, <1>3, <1>5, <1>6, <1>7

LEMMA InterruptKeepsInv ==
    ASSUME KernelInv,
           \/ UserInt \/ (\E v \in Exception : Fault(v))
           \/ (\E line \in Line : RaiseIrq(line)) \/ Interrupt \/ NonMaskable
           \/ WriteFault
    PROVE  KernelInv'
  <1>1. pic \in [mapped : BOOLEAN, masked : SUBSET Line,
                 pending : SUBSET Line, in_service : BOOLEAN]
    BY DEF KernelInv, Types
  <1>2. ASSUME Taken PROVE KernelInv'
    BY <1>2, TakenKeepsInv DEF Taken
  <1>4. ASSUME NEW line \in Line, RaiseIrq(line) PROVE KernelInv'
    <2>1. /\ pic' = [pic EXCEPT !.pending = @ \cup {line}]
          /\ UNCHANGED <<pc, booted, cpu, stack, trap, tables, nmi_blocked,
                         timer_ticks>>
      BY <1>4 DEF RaiseIrq
    <2>2. /\ pic' \in [mapped : BOOLEAN, masked : SUBSET Line,
                       pending : SUBSET Line, in_service : BOOLEAN]
          /\ pic'.mapped = pic.mapped /\ pic'.masked = pic.masked
      BY <1>1, <2>1
    <2>3. Types' /\ BootDone'
      BY <2>1, <2>2 DEF KernelInv, Types, BootDone
    <2>4. AtOutside' /\ InHandlers' /\ AtStub' /\ AtTimer' /\ AtHandler' /\ AtLeave'
          /\ Depth'
      BY <2>1 DEF KernelInv, AtOutside, InHandlers, AtStub, AtTimer, AtHandler,
                  AtLeave, Depth, ReturnsTo, BootedAt, CallSaved
    <2> QED  BY <2>3, <2>4 DEF KernelInv
  <1> QED  BY <1>2, <1>4, InterruptTakes
\* A frame stays a frame when words are pushed on top of it.
LEMMA FrameShift ==
    ASSUME NEW s \in Seq(StackWord), NEW t \in Seq(StackWord), NEW m \in {1, 4},
           NEW p
    PROVE  /\ Frame(s, 1, p)
           /\ Len(t) = Len(s) + m
           /\ \A i \in 1 .. Len(s) : t[i + m] = s[i]
           => Frame(t, 1 + m, p)
  <1>1. SUFFICES ASSUME Frame(s, 1, p), Len(t) = Len(s) + m,
                        \A i \in 1 .. Len(s) : t[i + m] = s[i]
                 PROVE  Frame(t, 1 + m, p)
    OBVIOUS
  <1>2. /\ s[1] = Word("eip", p) /\ s[2] = Word("cs", RingOf(p))
        /\ s[3] = Word("eflags", TRUE)
        /\ p = "user" => /\ Len(s) = 5
                         /\ s[4] = Word("esp", "user")
                         /\ s[5] = Word("ss", "user")
        /\ p # "user" => Len(s) = 4 /\ s[4] = Word("eip", "kmain")
        /\ p \in Outside
    <2>1. 1 + 1 = 2 /\ 1 + 2 = 3 /\ 1 + 3 = 4 /\ 1 + 4 = 5
      OBVIOUS
    <2> QED  BY <1>1, <2>1, Zenon DEF Frame
  <1>3. /\ 1 \in 1 .. Len(s) /\ 2 \in 1 .. Len(s) /\ 3 \in 1 .. Len(s)
        /\ 4 \in 1 .. Len(s) /\ (p = "user" => 5 \in 1 .. Len(s))
    BY <1>2
  <1>4. /\ t[1 + m] = s[1] /\ t[2 + m] = s[2] /\ t[3 + m] = s[3]
        /\ t[4 + m] = s[4] /\ (p = "user" => t[5 + m] = s[5])
    BY <1>1, <1>3, Zenon
  <1> DEFINE k == 1 + m
  <1>5. k + 1 = 2 + m /\ k + 2 = 3 + m /\ k + 3 = 4 + m /\ k + 4 = 5 + m
    OBVIOUS
  <1>6. /\ p = "user" => Len(t) = k + 4
        /\ p # "user" => Len(t) = k + 3
    <2>1. 5 + m = k + 4 /\ 4 + m = k + 3
      OBVIOUS
    <2> QED  BY <1>1, <1>2, <2>1, Zenon
  <1>7. /\ t[k] = s[1] /\ t[k + 1] = s[2] /\ t[k + 2] = s[3]
        /\ t[k + 3] = s[4] /\ (p = "user" => t[k + 4] = s[5])
    BY <1>4, <1>5, Zenon
  <1> HIDE DEF k
  <1>8. Frame(t, k, p)
    BY <1>2, <1>6, <1>7, Zenon DEF Frame
  <1> QED  BY <1>8 DEF k

LEMMA TimerStubKeepsInv == KernelInv /\ isr_timer => KernelInv'
  <1> SUFFICES ASSUME KernelInv, isr_timer PROVE KernelInv'
    OBVIOUS
  <1>1. /\ pc = "stub" /\ trap.vector = INT_TIMER
        /\ stack' = <<Word("general", cpu.regs)>> \o stack
        /\ cpu' = [cpu EXCEPT !.regs = KernelRegs]
        /\ pc' = "timer"
        /\ UNCHANGED <<booted, trap, tables, pic, nmi_blocked, timer_ticks>>
    BY DEF isr_timer, Pusha
  <1>2. PICK p \in Outside : /\ Frame(stack, 1, p) /\ BootedAt(p)
                             /\ cpu.ds = SegmentsOf(p)
    BY <1>1 DEF KernelInv, AtStub, ReturnsTo
  <1>3. /\ stack \in Seq(StackWord) /\ Word("general", cpu.regs) \in StackWord
        /\ Len(stack) \in Nat
    BY LenProperties DEF KernelInv, Types, Word, StackWord
  <1>4. /\ stack' \in Seq(StackWord) /\ Len(stack') = Len(stack) + 1
        /\ stack'[1] = Word("general", cpu.regs)
        /\ \A i \in 1 .. Len(stack) : stack'[i + 1] = stack[i]
    BY <1>1, <1>3, PushOne
  <1>5. Frame(stack', 2, p)
    <2>1. Frame(stack', 1 + 1, p)
      BY <1>2, <1>3, <1>4, FrameShift
    <2> QED  BY <2>1
  <1>6. /\ cpu' \in [ring : {0, 3}, if : BOOLEAN, ds : {"kernel", "user"},
                     regs : RegisterFile]
        /\ cpu'.ring = 0 /\ cpu'.if = FALSE /\ cpu'.ds = cpu.ds /\ booted >= 3
    BY <1>1, RegsAssumption DEF KernelInv, Types, InHandlers, Outside, RegisterFile
  <1>7. Types' /\ BootDone'
    BY <1>1, <1>4, <1>6 DEF KernelInv, Types, BootDone, Place
  <1>8. AtTimer'
    <2>1. stack'[1].tag = "general"
      BY <1>4 DEF Word
    <2>2. BootedAt(p)'
      BY <1>1, <1>2 DEF BootedAt
    <2> QED  BY <1>2, <1>5, <1>6, <2>1, <2>2 DEF AtTimer, ReturnsTo
  <1>9. AtOutside' /\ InHandlers' /\ AtStub' /\ AtHandler' /\ AtLeave'
    BY <1>1, <1>6 DEF AtOutside, InHandlers, AtStub, AtHandler, AtLeave, Outside
  <1>10. Depth'
    <2>1. ~nmi_blocked
      BY <1>1 DEF KernelInv, Depth, INT_TIMER, NMI
    <2>2. Len(stack) <= 13
      BY <1>1, <1>3, <2>1 DEF KernelInv, Depth
    <2>3. Len(stack') <= 16
      BY <1>3, <1>4, <2>2
    <2> QED  BY <1>1, <2>1, <2>3 DEF Depth, Outside
  <1> QED
    BY <1>7, <1>8, <1>9, <1>10 DEF KernelInv

LEMMA CommonStubKeepsInv == KernelInv /\ isr_common_stub => KernelInv'
  <1> SUFFICES ASSUME KernelInv, isr_common_stub PROVE KernelInv'
    OBVIOUS
  <1> DEFINE a == Word("segments", cpu.ds)
             b == Word("general", cpu.regs)
             c == Word("num", trap.vector)
             d == Word("err", "zero")
  <1>1. /\ pc = "stub" /\ trap.vector # INT_TIMER
        /\ stack' = IF trap.vector \in ISR_ERRCODE
                       THEN <<a, b, c>> \o <<>> \o stack
                       ELSE <<a, b, c>> \o <<d>> \o stack
        /\ cpu' = [cpu EXCEPT !.ds = "kernel", !.regs = KernelRegs]
        /\ pc' = "handler"
        /\ UNCHANGED <<booted, trap, tables, pic, nmi_blocked, timer_ticks>>
    BY DEF isr_common_stub, Pusha
  <1>2. /\ trap.vector \in Vector /\ trap.code \in BOOLEAN
        /\ stack \in Seq(StackWord) /\ Len(stack) \in Nat
    BY LenProperties DEF KernelInv, Types
  <1>3. a \in StackWord /\ b \in StackWord /\ c \in StackWord /\ d \in StackWord
    BY <1>2 DEF KernelInv, Types, Word, StackWord
  <1>4. /\ trap.code <=> trap.vector \in Coded
        /\ trap.code => Len(stack) >= 4
        /\ ~trap.code => Len(stack) >= 3
        /\ trap.code => /\ stack[1] = Word("err", "code")
                        /\ stack[2] = Word("eip", trap.eip)
                        /\ stack[3] = Word("cs", trap.ring)
        /\ ~trap.code => /\ stack[1] = Word("eip", trap.eip)
                         /\ stack[2] = Word("cs", trap.ring)
    BY <1>1, <1>2 DEF KernelInv, AtStub
  <1>5. trap.vector \in ISR_ERRCODE <=> trap.code
    BY <1>2, <1>4 DEF ISR_ERRCODE, Vector, Coded
  <1>6. b.tag = "general"
    BY DEF Word
  <1> HIDE DEF a, b, c, d
  <1> DEFINE m == IF trap.code THEN 3 ELSE 4
  <1>7. /\ stack' \in Seq(StackWord)
        /\ Len(stack') = Len(stack) + m
        /\ stack'[1] = a /\ stack'[2] = b /\ stack'[3] = c
        /\ ~trap.code => stack'[4] = d
        /\ \A i \in 1 .. Len(stack) : stack'[i + m] = stack[i]
    <2>1. CASE trap.code
      <3>1. stack' = <<a, b, c>> \o <<>> \o stack
        BY <1>1, <1>5, <2>1
      <3> QED  BY <1>2, <1>3, <2>1, <3>1, PushThree
    <2>2. CASE ~trap.code
      <3>1. stack' = <<a, b, c>> \o <<d>> \o stack
        BY <1>1, <1>5, <2>2
      <3> QED  BY <1>2, <1>3, <2>2, <3>1, PushFour
    <2> QED  BY <2>1, <2>2
  <1>8. /\ Len(stack') >= 7
        /\ stack'[4] = Word("err", IF trap.code THEN "code" ELSE "zero")
        /\ stack'[5] = Word("eip", trap.eip)
        /\ stack'[6] = Word("cs", trap.ring)
    <2>1. CASE trap.code
      <3>1. m = 3
        BY <2>1
      <3> HIDE DEF m
      <3>2. /\ stack'[4] = stack[1] /\ stack'[5] = stack[2] /\ stack'[6] = stack[3]
            /\ Len(stack') >= 7
        BY <1>2, <1>4, <1>7, <2>1, <3>1
      <3> QED  BY <1>4, <2>1, <3>2
    <2>2. CASE ~trap.code
      <3>1. m = 4
        BY <2>2
      <3> HIDE DEF m
      <3>2. /\ stack'[5] = stack[1] /\ stack'[6] = stack[2]
            /\ Len(stack') >= 7
        BY <1>2, <1>4, <1>7, <2>2, <3>1
      <3> QED  BY <1>4, <1>7, <2>2, <3>2 DEF d
    <2> QED  BY <2>1, <2>2
  <1>9. trap.vector = INT_SYSCALL => CallSaved'
    <2> SUFFICES ASSUME trap.vector = INT_SYSCALL PROVE CallSaved'
      OBVIOUS
    <2>1. /\ Frame(stack, 1, "user") /\ BootedAt("user")
          /\ cpu.ds = "user"
      BY <1>1 DEF KernelInv, AtStub, ReturnsTo, SegmentsOf
    <2>2. ~trap.code
      BY <1>4 DEF INT_SYSCALL, Coded
    <2>3. /\ Len(stack') = Len(stack) + 4
          /\ \A i \in 1 .. Len(stack) : stack'[i + 4] = stack[i]
          /\ stack'[4] = d
      BY <1>7, <2>2
    <2>4. Frame(stack', 5, "user")
      <3>1. Frame(stack', 1 + 4, "user")
        BY <1>2, <1>7, <2>1, <2>3, FrameShift
      <3> QED  BY <3>1
    <2>5. BootedAt("user")'
      BY <1>1, <2>1 DEF BootedAt
    <2> QED
      BY <1>6, <1>7, <2>1, <2>3, <2>4, <2>5 DEF CallSaved, ReturnsTo, a, c, d
  <1>10. /\ cpu' \in [ring : {0, 3}, if : BOOLEAN, ds : {"kernel", "user"},
                      regs : RegisterFile]
         /\ cpu'.ring = 0 /\ cpu'.if = FALSE /\ booted >= 3
    BY <1>1, RegsAssumption DEF KernelInv, Types, InHandlers, Outside, RegisterFile
  <1>11. Types' /\ BootDone'
    BY <1>1, <1>7, <1>10 DEF KernelInv, Types, BootDone, Place
  <1>12. AtHandler'
    BY <1>1, <1>7, <1>8, <1>9 DEF AtHandler, c
  <1>13. AtOutside' /\ InHandlers' /\ AtStub' /\ AtTimer' /\ AtLeave'
    BY <1>1, <1>10 DEF AtOutside, InHandlers, AtStub, AtTimer, AtLeave, Outside
  <1>14. Depth'
    <2>0. nmi_blocked => trap.vector = NMI /\ Len(stack) <= 19
      BY <1>1 DEF KernelInv, Depth
    <2>1. nmi_blocked => trap.vector = NMI /\ Len(stack) <= 19 /\ ~trap.code
      <3>1. NMI \notin Coded
        BY DEF NMI, Coded
      <3> QED  BY <1>4, <2>0, <3>1
    <2>2. ~nmi_blocked => Len(stack) <= IF trap.code THEN 13 ELSE 5
      BY <1>1 DEF KernelInv, Depth
    <2>3. Len(stack') <= IF nmi_blocked THEN 23 ELSE 16
      BY <1>2, <1>7, <2>1, <2>2
    <2> QED  BY <1>1, <2>1, <2>3 DEF Depth, Outside
  <1> QED
    BY <1>11, <1>12, <1>13, <1>14 DEF KernelInv

\* A return from a handler keeps the invariant.
LEMMA ReturnKeepsInv ==
    ASSUME KernelInv,
           NEW p \in Outside, NEW regs \in RegisterFile, BootedAt(p),
           BackAt(p, SegmentsOf(p), regs),
           stack' \in Seq(StackWord), Bare(stack', p),
           UNCHANGED <<booted, trap, tables>>,
           pic' \in [mapped : BOOLEAN, masked : SUBSET Line,
                     pending : SUBSET Line, in_service : BOOLEAN],
           pic'.mapped = pic.mapped, pic'.masked = pic.masked,
           timer_ticks' \in 0 .. TickWord - 1
    PROVE  KernelInv'
  <1>1. /\ RingOf(p) \in {0, 3} /\ SegmentsOf(p) \in {"kernel", "user"}
        /\ p \in Place /\ p # "kmain"
    BY DEF RingOf, SegmentsOf, Place, Outside
  <1>2. /\ cpu' \in [ring : {0, 3}, if : BOOLEAN, ds : {"kernel", "user"},
                     regs : RegisterFile]
        /\ cpu'.ring = RingOf(p) /\ cpu'.if = TRUE /\ cpu'.ds = SegmentsOf(p)
        /\ pc' = p /\ nmi_blocked' = FALSE
    BY <1>1 DEF BackAt
  <1>3. /\ booted >= 3
        /\ p = "boot" => booted < 5
        /\ p # "boot" => booted = 5
    BY DEF BootedAt
  <1>4. Types'
    BY <1>1, <1>2 DEF KernelInv, Types
  <1>5. BootDone'
    BY DEF KernelInv, BootDone
  <1>6. AtOutside'
    <2>1. /\ ~nmi_blocked' /\ booted' = booted
      BY <1>2
    <2>2. IF p = "boot" THEN booted' < 5 ELSE booted' = 5
      BY <1>3, <2>1
    <2>3. booted' >= 3
      BY <1>3, <2>1
    <2> QED  BY <1>2, <2>1, <2>2, <2>3, Zenon DEF AtOutside
  <1>7. InHandlers' /\ AtStub' /\ AtTimer' /\ AtHandler' /\ AtLeave'
    BY <1>2 DEF InHandlers, AtStub, AtTimer, AtHandler, AtLeave, Outside
  <1>8. Depth'
    <2>1. Len(stack') \in {0, 1} /\ pc' # "stub" /\ ~nmi_blocked'
      BY <1>2 DEF Bare, Outside
    <2>2. Len(stack') <= 1 /\ Len(stack') <= 16
      <3>1. 0 <= 1 /\ 1 <= 1 /\ 0 <= 16 /\ 1 <= 16
        OBVIOUS
      <3>2. Len(stack') = 0 \/ Len(stack') = 1
        BY <2>1
      <3> QED  BY <3>1, <3>2, Zenon
    <2>3. (IF nmi_blocked' THEN 23 ELSE 16) = 16
      BY <2>1
    <2> QED  BY <2>1, <2>2, <2>3, Zenon DEF Depth
  <1> QED
    BY <1>4, <1>5, <1>6, <1>7, <1>8 DEF KernelInv

LEMMA TimerKeepsInv == KernelInv /\ timer_handler => KernelInv'
  <1> SUFFICES ASSUME KernelInv, timer_handler PROVE KernelInv'
    OBVIOUS
  <1>1. /\ pc = "timer" /\ timer_ticks' = (timer_ticks + 1) % TickWord
        /\ pic' = [pic EXCEPT !.in_service = FALSE]
        /\ Iret(Tail(stack), cpu.ds, stack[1].value)
        /\ UNCHANGED <<booted, trap, tables>>
    BY DEF timer_handler, Ticked
  <1>2. PICK p \in Outside : /\ Frame(stack, 2, p) /\ BootedAt(p)
                             /\ cpu.ds = SegmentsOf(p)
                             /\ stack[1].tag = "general"
    BY <1>1 DEF KernelInv, AtTimer, ReturnsTo
  <1>3. stack \in Seq(StackWord) /\ Len(stack) >= 5
    BY <1>2 DEF KernelInv, Types, Frame
  <1>4. stack[1].value \in RegisterFile
    <2>1. stack[1] \in StackWord
      BY <1>3
    <2> QED  BY <1>2, <2>1 DEF StackWord
  <1>5. Tail(stack) = SubSeq(stack, 2, Len(stack))
    <2>1. stack # <<>>
      BY <1>3
    <2> QED  BY <1>3, <2>1, TailIsSubSeq
  <1> DEFINE ds == cpu.ds
             regs == stack[1].value
             k == 2
             t == SubSeq(stack, k, Len(stack))
  <1>6. Iret(t, ds, regs)
    BY <1>1, <1>5
  <1>7. /\ regs \in RegisterFile /\ ds = SegmentsOf(p)
        /\ Frame(stack, k, p) /\ k \in {2, 5}
        /\ t = SubSeq(stack, k, Len(stack))
    BY <1>2, <1>4
  <1> HIDE DEF ds, regs, k, t
  <1>8. /\ BackAt(p, ds, regs)
        /\ stack' \in Seq(StackWord)
        /\ Bare(stack', p)
    BY <1>3, <1>6, <1>7, Returned, Zenon
  <1>9. /\ pic' \in [mapped : BOOLEAN, masked : SUBSET Line,
                     pending : SUBSET Line, in_service : BOOLEAN]
        /\ pic'.mapped = pic.mapped /\ pic'.masked = pic.masked
    BY <1>1 DEF KernelInv, Types
  <1>10. timer_ticks' \in 0 .. TickWord - 1
    BY <1>1, RegsAssumption DEF KernelInv, Types
  <1> QED  BY <1>1, <1>2, <1>7, <1>8, <1>9, <1>10, ReturnKeepsInv

LEMMA LeaveKeepsInv == KernelInv /\ Leave => KernelInv'
  <1> SUFFICES ASSUME KernelInv, Leave PROVE KernelInv'
    OBVIOUS
  <1>1. /\ pc = "leave"
        /\ Iret(SubSeq(stack, 5, Len(stack)), stack[1].value, stack[2].value)
        /\ UNCHANGED <<booted, trap, tables, pic, timer_ticks>>
    BY DEF Leave
  <1>2. CallSaved
    BY <1>1 DEF KernelInv, AtLeave
  <1>3. /\ Frame(stack, 5, "user") /\ BootedAt("user")
        /\ stack[1].value = "user" /\ stack[2].tag = "general"
    BY <1>2 DEF CallSaved, ReturnsTo, Word
  <1>4. stack \in Seq(StackWord) /\ Len(stack) >= 5
    <2>1. Len(stack) = 5 + 4
      BY <1>3, Zenon DEF Frame
    <2> QED  BY <2>1 DEF KernelInv, Types
  <1>5. stack[2].value \in RegisterFile
    <2>1. stack[2] \in StackWord
      BY <1>4
    <2> QED  BY <1>3, <2>1 DEF StackWord
  <1> DEFINE ds == "user"
             regs == stack[2].value
             p == "user"
             k == 5
             t == SubSeq(stack, k, Len(stack))
  <1>6. Iret(t, ds, regs)
    BY <1>1, <1>3
  <1>7. /\ regs \in RegisterFile /\ ds = SegmentsOf(p) /\ p \in Outside
        /\ BootedAt(p) /\ Frame(stack, k, p) /\ k \in {2, 5}
        /\ t = SubSeq(stack, k, Len(stack))
    BY <1>3, <1>5 DEF SegmentsOf, Outside
  <1> HIDE DEF ds, regs, p, k, t
  <1>8. /\ BackAt(p, ds, regs)
        /\ stack' \in Seq(StackWord)
        /\ Bare(stack', p)
    BY <1>4, <1>6, <1>7, Returned, Zenon
  <1>9. /\ pic' \in [mapped : BOOLEAN, masked : SUBSET Line,
                     pending : SUBSET Line, in_service : BOOLEAN]
        /\ pic'.mapped = pic.mapped /\ pic'.masked = pic.masked
        /\ timer_ticks' \in 0 .. TickWord - 1
    BY <1>1 DEF KernelInv, Types
  <1> QED  BY <1>1, <1>7, <1>8, <1>9, ReturnKeepsInv

LEMMA AnswerIsValue ==
    ASSUME NEW regs \in RegisterFile
    PROVE  Answer(regs) \in Value
  BY RegsAssumption DEF Answer, RegisterFile

\* A call changes one word of the stack: the eax that its program gets back.
LEMMA CallWrites ==
    ASSUME KernelInv, syscall_handler
    PROVE  LET regs == stack[2].value IN
           /\ pc = "handler" /\ pc' = "leave"
           /\ CallSaved /\ CallSaved'
           /\ trap.vector = INT_SYSCALL
           /\ regs \in RegisterFile /\ regs.eax # SYS_EXIT
           /\ stack'[2].value = [regs EXCEPT !.eax = Answer(regs)]
           /\ stack' \in Seq(StackWord) /\ Len(stack') = 9
           /\ printed' = IF regs.eax = SYS_WRITE /\ regs.ebx \in {1, 2}
                            THEN Printed(regs) ELSE printed
           /\ UNCHANGED <<booted, cpu, trap, tables, pic, nmi_blocked, timer_ticks>>
  <1> DEFINE regs == stack[2].value
             a == Answer(regs)
             w == [stack[2] EXCEPT !.value.eax = a]
  <1>1. /\ pc = "handler" /\ stack[3] = Word("num", INT_SYSCALL)
        /\ stack' = [stack EXCEPT ![2].value.eax = a]
        /\ pc' = "leave"
        /\ UNCHANGED <<booted, cpu, trap, tables, pic, nmi_blocked, timer_ticks>>
        /\ regs.eax # SYS_EXIT
        /\ printed' = IF regs.eax = SYS_WRITE /\ regs.ebx \in {1, 2}
                         THEN Printed(regs) ELSE printed
    BY DEF syscall_handler, IntNo
  <1>2. CallSaved /\ trap.vector = INT_SYSCALL
    BY <1>1, ServesCall
  <1>3. /\ stack \in Seq(StackWord) /\ Len(stack) = 9
        /\ Frame(stack, 5, "user") /\ BootedAt("user")
    <2>1. Frame(stack, 5, "user") /\ BootedAt("user")
      BY <1>2 DEF CallSaved, ReturnsTo
    <2>2. Len(stack) = 5 + 4
      BY <2>1, Zenon DEF Frame
    <2> QED  BY <2>1, <2>2 DEF KernelInv, Types
  <1>4. /\ stack[2] \in StackWord /\ stack[2].tag = "general"
        /\ stack[2] = [tag |-> "general", value |-> regs]
        /\ regs \in RegisterFile
    <2>1. stack[2] \in StackWord
      BY <1>3
    <2>2. stack[2].tag = "general"
      BY <1>2 DEF CallSaved
    <2> QED  BY <2>1, <2>2 DEF StackWord
  <1>5. a \in Value
    BY <1>4, AnswerIsValue
  <1> HIDE DEF a
  <1>6. /\ stack' = [stack EXCEPT ![2] = w]
        /\ w.tag = "general" /\ w \in StackWord
        /\ w.value = [regs EXCEPT !.eax = a]
    <2>1. stack' = [stack EXCEPT ![2] = w]
      BY <1>1, Zenon
    <2>2. w = [tag |-> "general", value |-> [regs EXCEPT !.eax = a]]
      BY <1>4
    <2>3. [regs EXCEPT !.eax = a] \in RegisterFile
      BY <1>4, <1>5 DEF RegisterFile
    <2> QED  BY <2>1, <2>2, <2>3 DEF StackWord
  <1> HIDE DEF w
  <1>7. /\ stack' \in Seq(StackWord) /\ Len(stack') = 9
        /\ stack'[2] = w
        /\ \A i \in 1 .. 9 : i # 2 => stack'[i] = stack[i]
    <2> DEFINE n == 2
    <2>1. n \in 1 .. Len(stack) /\ w \in StackWord /\ stack \in Seq(StackWord)
          /\ stack' = [stack EXCEPT ![n] = w]
      BY <1>3, <1>6
    <2> HIDE DEF n
    <2>2. /\ stack' \in Seq(StackWord)
          /\ Len(stack') = Len(stack)
          /\ \A j \in 1 .. Len(stack) :
                stack'[j] = IF j = n THEN w ELSE stack[j]
      BY <2>1, ExceptSeq
    <2>3. Len(stack) = 9
      BY <1>3
    <2>4. /\ stack' \in Seq(StackWord) /\ Len(stack') = 9
          /\ \A j \in 1 .. 9 : stack'[j] = IF j = 2 THEN w ELSE stack[j]
      BY <2>2, <2>3, Zenon DEF n
    <2> QED  BY <2>4
  <1>8. Frame(stack', 5, "user")
    <2>1. /\ stack'[5] = stack[5] /\ stack'[5 + 1] = stack[5 + 1]
          /\ stack'[5 + 2] = stack[5 + 2] /\ stack'[5 + 3] = stack[5 + 3]
          /\ stack'[5 + 4] = stack[5 + 4] /\ Len(stack') = Len(stack)
      <3>1. \A i \in 5 .. 9 : stack'[i] = stack[i]
        BY <1>7
      <3> QED  BY <1>3, <1>7, <3>1
    <2> QED  BY <1>3, <2>1, Zenon DEF Frame
  <1>9. CallSaved'
    <2>1. BootedAt("user")'
      BY <1>1, <1>3 DEF BootedAt
    <2>2. /\ stack'[1] = stack[1] /\ stack'[3] = stack[3] /\ stack'[4] = stack[4]
      BY <1>7
    <2> QED  BY <1>2, <1>6, <1>7, <1>8, <2>1, <2>2 DEF CallSaved, ReturnsTo
  <1> QED  BY <1>1, <1>2, <1>4, <1>6, <1>7, <1>9 DEF a

LEMMA CallKeepsInv == KernelInv /\ syscall_handler => KernelInv'
  <1> SUFFICES ASSUME KernelInv, syscall_handler PROVE KernelInv'
    OBVIOUS
  <1>1. /\ pc = "handler" /\ pc' = "leave" /\ CallSaved'
        /\ trap.vector = INT_SYSCALL
        /\ stack' \in Seq(StackWord) /\ Len(stack') = 9
        /\ UNCHANGED <<booted, cpu, trap, tables, pic, nmi_blocked, timer_ticks>>
    BY CallWrites
  <1>2. Types' /\ BootDone'
    BY <1>1 DEF KernelInv, Types, BootDone, Place
  <1>3. ~nmi_blocked /\ InHandlers
    BY <1>1 DEF KernelInv, Depth, NMI, INT_SYSCALL
  <1>4. AtOutside' /\ InHandlers' /\ AtStub' /\ AtTimer' /\ AtHandler' /\ AtLeave'
    <2>1. cpu.ring = 0 /\ ~cpu.if /\ booted >= 3
      BY <1>1, <1>3 DEF InHandlers, Outside
    <2>2. pc' \notin Outside
      BY <1>1 DEF Outside
    <2>3. InHandlers' /\ AtOutside'
      BY <1>1, <2>1, <2>2, Zenon DEF InHandlers, AtOutside
    <2> QED  BY <1>1, <2>3 DEF AtStub, AtTimer, AtHandler, AtLeave
  <1>5. Depth'
    <2>1. Len(stack') <= 16
      BY <1>1
    <2>2. ~nmi_blocked' /\ pc' = "leave" /\ pc' \notin Outside
      BY <1>1, <1>3 DEF Outside
    <2> QED  BY <2>1, <2>2 DEF Depth
  <1> QED
    BY <1>2, <1>4, <1>5 DEF KernelInv

\* The handler of an exception always stops the kernel.
LEMMA ExceptionHalts ==
    ASSUME KernelInv, exception_handler PROVE pc' = "halted"
  <1>1. /\ pc = "handler" /\ stack[3] # Word("num", INT_SYSCALL)
        /\ pc' = IF stack[3].tag = "num" /\ stack[3].value < 32
                    THEN "halted" ELSE "leave"
    BY DEF exception_handler, IntNo
  <1>2. /\ stack[3] = Word("num", trap.vector) /\ trap.vector \in Vector
        /\ trap.vector # INT_TIMER
    BY <1>1 DEF KernelInv, AtHandler, Types
  <1>3. trap.vector < 32
    BY <1>1, <1>2 DEF Vector, INT_SYSCALL, INT_TIMER
  <1>4. stack[3].tag = "num" /\ stack[3].value = trap.vector
    BY <1>2 DEF Word
  <1> QED  BY <1>1, <1>3, <1>4

\* The handlers that stop the kernel leave the stack as it is; an exception's
\* always stops it.
LEMMA StopKeepsInv == KernelInv /\ (sys_exit \/ exception_handler) => KernelInv'
  <1> SUFFICES ASSUME KernelInv, sys_exit \/ exception_handler PROVE KernelInv'
    OBVIOUS
  <1>1. /\ pc = "handler"
        /\ UNCHANGED <<booted, cpu, stack, trap, tables, pic, nmi_blocked,
                       timer_ticks>>
    BY DEF sys_exit, exception_handler
  <1>2. /\ stack[3] = Word("num", trap.vector) /\ trap.vector \in Vector
        /\ trap.vector # INT_TIMER
    BY <1>1 DEF KernelInv, AtHandler, Types
  <1>3. /\ sys_exit => pc' = "exited" /\ trap.vector = INT_SYSCALL
        /\ exception_handler => pc' = "halted"
    <2>1. CASE sys_exit
      <3>1. pc' = "exited" /\ stack[3] = Word("num", INT_SYSCALL)
        BY <2>1 DEF sys_exit, IntNo
      <3> QED  BY <1>2, <3>1 DEF Word, exception_handler, IntNo
    <2>2. CASE exception_handler
      <3>1. stack[3] # Word("num", INT_SYSCALL) /\ pc' = "halted"
        BY <2>2, ExceptionHalts DEF exception_handler, IntNo
      <3> QED  BY <3>1 DEF sys_exit, IntNo
    <2> QED  BY <2>1, <2>2
  <1>4. pc' \in {"exited", "halted"}
    BY <1>3
  <1>5. Types' /\ BootDone'
    BY <1>1, <1>4 DEF KernelInv, Types, BootDone, Place
  <1>6. AtOutside' /\ InHandlers' /\ AtStub' /\ AtTimer' /\ AtHandler' /\ AtLeave'
    BY <1>1, <1>4 DEF KernelInv, AtOutside, InHandlers, AtStub, AtTimer,
                      AtHandler, AtLeave, Outside
  <1>7. Depth'
    <2>1. nmi_blocked => trap.vector = NMI
      BY <1>1 DEF KernelInv, Depth
    <2>2. nmi_blocked => pc' = "halted"
      BY <1>3, <2>1 DEF NMI, INT_SYSCALL
    <2>3. Len(stack) <= IF nmi_blocked THEN 23 ELSE 16
      BY DEF KernelInv, Depth
    <2> QED  BY <1>1, <1>4, <2>2, <2>3 DEF Depth, Outside
  <1> QED
    BY <1>5, <1>6, <1>7 DEF KernelInv

-----------------------------------------------------------------------------
(* The invariant, and what it says of the kernel *)

LEMMA InitInv == Init => KernelInv
  <1> SUFFICES ASSUME Init PROVE KernelInv
    OBVIOUS
  <1>1. /\ stack = <<Word("eip", "kmain")>> /\ Word("eip", "kmain") \in StackWord
        /\ KernelRegs \in RegisterFile
    BY RegsAssumption DEF Init, Word, StackWord, Place, RegisterFile
  <1>2. stack \in Seq(StackWord) /\ Len(stack) = 1 /\ stack[1] = Word("eip", "kmain")
    BY <1>1
  <1>3. Types
    <2>1. timer_ticks \in 0 .. TickWord - 1
      BY RegsAssumption DEF Init
    <2>2. cpu \in [ring : {0, 3}, if : BOOLEAN, ds : {"kernel", "user"},
                   regs : RegisterFile]
      BY <1>1 DEF Init
    <2>3. booted \in 0 .. 5 /\ nmi_blocked \in BOOLEAN /\ 0 \in Vector
      <3>1. booted = 0 /\ nmi_blocked = FALSE
        BY DEF Init
      <3> QED  BY <3>1, 0 \in 0 .. 5 DEF Vector
    <2>6. "boot" \in Place \ {"kmain"}
      BY DEF Place, Outside
    <2>7. pc \in Place \ {"kmain"}
      BY <2>6 DEF Init
    <2>4. /\ tables \in [idt : BOOLEAN, tr : BOOLEAN]
          /\ pic \in [mapped : BOOLEAN, masked : SUBSET Line,
                      pending : SUBSET Line, in_service : BOOLEAN]
      BY DEF Init
    <2>5. trap \in [vector : Vector, code : BOOLEAN, eip : Place, ring : {0, 3}]
      BY <2>3, <2>6 DEF Init
    <2> QED  BY <1>2, <2>1, <2>2, <2>3, <2>4, <2>5, <2>7 DEF Types
  <1>4. BootDone
    BY DEF Init, BootDone
  <1>5. AtOutside
    BY <1>2 DEF Init, AtOutside, Bare, RingOf, SegmentsOf
  <1>6. InHandlers /\ AtStub /\ AtTimer /\ AtHandler /\ AtLeave
    BY DEF Init, InHandlers, AtStub, AtTimer, AtHandler, AtLeave, Outside
  <1>7. Depth
    BY <1>2 DEF Init, Depth
  <1> QED
    BY <1>3, <1>4, <1>5, <1>6, <1>7 DEF KernelInv

LEMMA StepInv == KernelInv /\ [Next]_vars => KernelInv'
  <1> SUFFICES ASSUME KernelInv, [Next]_vars PROVE KernelInv'
    OBVIOUS
  <1>1. CASE UNCHANGED vars
    BY <1>1 DEF vars, KernelInv, Types, BootDone, AtOutside, InHandlers, AtStub,
                AtTimer, AtHandler, AtLeave, Depth, ReturnsTo, BootedAt, CallSaved
  <1>2. CASE BootStep
    BY <1>2, BootStepKeepsInv
  <1>3. CASE ProcessExec \/ EnterProgram \/ UserCompute
    BY <1>3, ProgramKeepsInv
  <1>4. CASE \/ UserInt \/ (\E v \in Exception : Fault(v))
             \/ (\E line \in Line : RaiseIrq(line)) \/ Interrupt \/ NonMaskable
             \/ WriteFault
    BY <1>4, InterruptKeepsInv
  <1>5. CASE isr_timer
    BY <1>5, TimerStubKeepsInv
  <1>6. CASE isr_common_stub
    BY <1>6, CommonStubKeepsInv
  <1>7. CASE timer_handler
    BY <1>7, TimerKeepsInv
  <1>8. CASE syscall_handler
    BY <1>8, CallKeepsInv
  <1>9. CASE sys_exit \/ exception_handler
    BY <1>9, StopKeepsInv
  <1>10. CASE Leave
    BY <1>10, LeaveKeepsInv
  <1> QED
    BY <1>1, <1>2, <1>3, <1>4, <1>5, <1>6, <1>7, <1>8, <1>9, <1>10, Zenon DEF Next

LEMMA InductiveInvariant == Spec => []KernelInv
  BY InitInv, StepInv, PTL DEF Spec

\* Every variable keeps its type, and no sequence of interrupts, exceptions and
\* calls puts more than 24 groups of words on the kernel's stack.
THEOREM TypeCorrect == Spec => []TypeOK
  <1>1. KernelInv => TypeOK
    <2> SUFFICES ASSUME KernelInv PROVE TypeOK
      OBVIOUS
    <2>1. Len(stack) \in Nat /\ Len(stack) <= 24
      <3>1. stack \in Seq(StackWord) /\ Len(stack) <= IF nmi_blocked THEN 23 ELSE 16
        BY DEF KernelInv, Types, Depth
      <3>2. Len(stack) \in Nat
        BY <3>1, LenProperties
      <3> QED  BY <3>1, <3>2
    <2> QED
      BY <2>1 DEF KernelInv, Types, TypeOK, Place, Outside, RegisterFile
  <1> QED  BY <1>1, InductiveInvariant, PTL

\* An interrupt never finds the tables missing, and an iret never finds
\* anything but the frame of its own interrupt, in any phase of the boot and
\* under any nesting of handlers.
THEOREM InterruptsAlwaysReturn == Spec => []NeverLost
  <1>1. KernelInv => NeverLost
    BY DEF KernelInv, Types, NeverLost, Place, Outside
  <1> QED  BY <1>1, InductiveInvariant, PTL

\* regs_t always shows the C handlers what the processor pushed: for every
\* exception that an instruction may raise, also when a system call runs into
\* it, and for the system call and the non-maskable interrupt, the stub agrees
\* with the processor on the error code.
THEOREM StubsMatchProcessor == Spec => []RegsMatchFrame
  <1>1. KernelInv => RegsMatchFrame
    BY DEF KernelInv, AtHandler, RegsMatchFrame
  <1> QED  BY <1>1, InductiveInvariant, PTL

\* The program runs in ring 3, on its own segments and with interrupts on,
\* whatever has interrupted it, and nothing else ever causes a protection fault.
THEOREM RingsStayApart == Spec => []RingsApart
  <1>1. KernelInv => RingsApart
    <2> SUFFICES ASSUME KernelInv PROVE RingsApart
      OBVIOUS
    <2>1. ASSUME pc = "user"
          PROVE  cpu.ring = 3 /\ cpu.if /\ cpu.ds = "user"
      BY <2>1 DEF KernelInv, AtOutside, Outside, RingOf, SegmentsOf
    <2>2. pc = "stub" /\ trap.vector = ProtectionFault => trap.ring = 3
      BY DEF KernelInv, AtStub
    <2> QED  BY <2>1, <2>2 DEF RingsApart
  <1> QED  BY <1>1, InductiveInvariant, PTL

-----------------------------------------------------------------------------
(***************************************************************************)
(* What the program sees.  Its registers are saved nearest to the bottom   *)
(* of the stack, and what is pushed on top of them, or pushed and popped   *)
(* again, changes nothing of it.                                           *)
(***************************************************************************)

LEMMA LeastNat ==
    ASSUME NEW S, S \subseteq Nat, S # {}
    PROVE  \E x \in S : \A y \in S : x <= y
  <1>1. \E x \in S : \A y \in S : ~ (<<y, x>> \in OpToRel(<, Nat))
    BY WFMin, NatLessThanWellFounded, Zenon
  <1>2. PICK x \in S : \A y \in S : ~ (<<y, x>> \in OpToRel(<, Nat))
    BY <1>1, Zenon
  <1>3. \A y \in S : ~ (y < x)
    BY <1>2, Zenon DEF OpToRel
  <1> QED  BY <1>3

Has(s, w) == \E i \in 1 .. Len(s) : s[i] = w

Generals(s) == {i \in 1 .. Len(s) : s[i].tag = "general"}

\* What Saved takes from a stack s, with registers r in the processor.
SavedIn(s, r) ==
    IF Generals(s) = {} THEN r
    ELSE s[CHOOSE i \in Generals(s) : \A j \in Generals(s) : j <= i].value

Lowest(s, i) == i \in Generals(s) /\ \A j \in Generals(s) : j <= i

LEMMA SavedIs ==
    ASSUME NEW s, NEW r, NEW i, Lowest(s, i)
    PROVE  SavedIn(s, r) = s[i].value
  <1> DEFINE at == Generals(s)
             c == CHOOSE x \in at : \A j \in at : j <= x
  <1>1. i \in at /\ \A j \in at : j <= i
    BY DEF Lowest
  <1>2. at \subseteq Int
    BY DEF Generals
  <1>3. SavedIn(s, r) = s[c].value
    BY <1>1, Zenon DEF SavedIn
  <1> HIDE DEF at
  <1>4. c \in at /\ \A j \in at : j <= c
    BY <1>1, Zenon
  <1> HIDE DEF c
  <1>5. c = i
    BY <1>1, <1>2, <1>4
  <1> QED  BY <1>3, <1>5

LEMMA LowestExists ==
    ASSUME NEW s, Len(s) \in Nat, Generals(s) # {}
    PROVE  \E i \in Generals(s) : Lowest(s, i)
  <1> DEFINE S == {Len(s) - i : i \in Generals(s)}
  <1>1. \A i \in Generals(s) : i \in Nat /\ i <= Len(s)
    BY DEF Generals
  <1>2. S \subseteq Nat /\ S # {}
    BY <1>1
  <1>3. PICK x \in S : \A y \in S : x <= y
    BY <1>2, LeastNat
  <1>4. PICK i \in Generals(s) : x = Len(s) - i
    BY <1>3
  <1>5. ASSUME NEW j \in Generals(s) PROVE j <= i
    <2>1. Len(s) - j \in S
      OBVIOUS
    <2>2. Len(s) - i <= Len(s) - j
      BY <1>3, <1>4, <2>1
    <2> QED  BY <1>1, <2>2
  <1> QED  BY <1>5 DEF Lowest

\* t is s with n words on top.
Pushed(s, t, n) ==
    /\ n \in Nat /\ Len(s) \in Nat
    /\ Len(t) = n + Len(s)
    /\ \A i \in 1 .. Len(s) : t[n + i] = s[i]

LEMMA PushedPlaces ==
    ASSUME NEW s, NEW t, NEW n, Pushed(s, t, n), NEW j
    PROVE  j \in 1 .. Len(t) <=>
              \/ j \in 1 .. n
              \/ \E i \in 1 .. Len(s) : j = n + i /\ t[j] = s[i]
  <1>1. /\ n \in Nat /\ Len(s) \in Nat /\ Len(t) = n + Len(s)
        /\ \A i \in 1 .. Len(s) : t[n + i] = s[i]
    BY DEF Pushed
  <1>2. ASSUME j \in 1 .. Len(t), j \notin 1 .. n
        PROVE  \E i \in 1 .. Len(s) : j = n + i /\ t[j] = s[i]
    <2>1. j - n \in 1 .. Len(s) /\ j = n + (j - n)
      BY <1>1, <1>2
    <2> QED  BY <1>1, <2>1
  <1>3. ASSUME NEW i \in 1 .. Len(s) PROVE n + i \in 1 .. Len(t)
    BY <1>1
  <1>4. j \in 1 .. n => j \in 1 .. Len(t)
    BY <1>1
  <1> QED  BY <1>2, <1>3, <1>4

LEMMA HasPushed ==
    ASSUME NEW s, NEW t, NEW n, Pushed(s, t, n), NEW w
    PROVE  Has(t, w) <=> (\E j \in 1 .. n : t[j] = w) \/ Has(s, w)
  <1>1. ASSUME Has(t, w) PROVE (\E j \in 1 .. n : t[j] = w) \/ Has(s, w)
    BY <1>1, PushedPlaces DEF Has
  <1>2. ASSUME NEW j \in 1 .. n, t[j] = w PROVE Has(t, w)
    BY <1>2, PushedPlaces DEF Has
  <1>3. ASSUME Has(s, w) PROVE Has(t, w)
    <2>1. PICK i \in 1 .. Len(s) : s[i] = w
      BY <1>3 DEF Has
    <2>2. n + i \in 1 .. Len(t) /\ t[n + i] = w
      BY <2>1 DEF Pushed
    <2> QED  BY <2>2 DEF Has
  <1> QED  BY <1>1, <1>2, <1>3

\* The registers that the processor holds when words are pushed are saved
\* with them, or are still in the processor.
LEMMA SavedPushed ==
    ASSUME NEW s, NEW t, NEW n, Pushed(s, t, n), NEW r, NEW q,
           \/ q = r /\ \A j \in 1 .. n : t[j].tag # "general"
           \/ \E k \in 1 .. n : /\ t[k].tag = "general" /\ t[k].value = r
                                /\ \A j \in 1 .. n : t[j].tag = "general" => j = k
    PROVE  SavedIn(t, q) = SavedIn(s, r)
  <1>1. /\ n \in Nat /\ Len(s) \in Nat /\ Len(t) = n + Len(s)
        /\ \A i \in 1 .. Len(s) : t[n + i] = s[i]
    BY DEF Pushed
  <1>2. CASE Generals(s) # {}
    <2>1. PICK i \in Generals(s) : Lowest(s, i)
      BY <1>1, <1>2, LowestExists
    <2>2. i \in 1 .. Len(s) /\ s[i].tag = "general" /\ \A j \in Generals(s) : j <= i
      BY <2>1 DEF Lowest, Generals
    <2>3. n + i \in Generals(t) /\ t[n + i] = s[i]
      BY <1>1, <2>2 DEF Generals
    <2>4. ASSUME NEW j \in Generals(t) PROVE j <= n + i
      <3>1. j \in 1 .. Len(t) /\ t[j].tag = "general"
        BY DEF Generals
      <3>2. CASE j \in 1 .. n
        BY <1>1, <2>2, <3>2
      <3>3. ASSUME NEW x \in 1 .. Len(s), j = n + x, t[j] = s[x] PROVE j <= n + i
        <4>1. x \in Generals(s)
          BY <3>1, <3>3 DEF Generals
        <4>2. x <= i
          BY <2>2, <4>1
        <4> QED  BY <1>1, <2>2, <3>3, <4>2
      <3> QED  BY <3>1, <3>2, <3>3, PushedPlaces
    <2>5. Lowest(t, n + i)
      BY <2>3, <2>4 DEF Lowest
    <2> QED  BY <2>1, <2>3, <2>5, SavedIs
  <1>3. CASE Generals(s) = {}
    <2>1. SavedIn(s, r) = r
      BY <1>3 DEF SavedIn
    <2>2. ASSUME NEW j \in Generals(t) PROVE j \in 1 .. n /\ t[j].tag = "general"
      <3>1. j \in 1 .. Len(t) /\ t[j].tag = "general"
        BY DEF Generals
      <3>2. \A i \in 1 .. Len(s) : s[i].tag # "general"
        BY <1>3 DEF Generals
      <3> QED  BY <3>1, <3>2, PushedPlaces
    <2>3. CASE q = r /\ \A j \in 1 .. n : t[j].tag # "general"
      <3>1. Generals(t) = {}
        BY <2>2, <2>3
      <3> QED  BY <2>1, <2>3, <3>1 DEF SavedIn
    <2>4. ASSUME NEW k \in 1 .. n, t[k].tag = "general", t[k].value = r,
                 \A j \in 1 .. n : t[j].tag = "general" => j = k
          PROVE  SavedIn(t, q) = SavedIn(s, r)
      <3>1. k \in Generals(t)
        BY <1>1, <2>4 DEF Generals
      <3>2. \A j \in Generals(t) : j <= k
        BY <1>1, <2>2, <2>4
      <3> QED  BY <2>1, <2>4, <3>1, <3>2, SavedIs DEF Lowest
    <2> QED  BY <2>3, <2>4
  <1> QED  BY <1>2, <1>3

\* The places that decide about the life of the program.
Tracked == {"halted", "exited", "user"}

LEMMA WhereAndWhat ==
    /\ \A x \in Tracked : Interrupted(x) <=> pc = x \/ Has(stack, Word("eip", x))
    /\ Saved = SavedIn(stack, cpu.regs)
    /\ \A x \in Tracked :
          Interrupted(x)' <=> pc' = x \/ Has(stack', Word("eip", x))
    /\ Saved' = SavedIn(stack', cpu'.regs)
  <1>1. \A x \in Tracked : Interrupted(x) <=> pc = x \/ Has(stack, Word("eip", x))
    BY DEF Interrupted, Has
  <1>2. \A x \in Tracked :
           Interrupted(x)' <=> pc' = x \/ Has(stack', Word("eip", x))
    BY DEF Interrupted, Has
  <1>3. Saved = SavedIn(stack, cpu.regs)
    BY Zenon DEF Saved, SavedIn, Generals
  <1>4. Saved' = SavedIn(stack', cpu'.regs)
    BY Zenon DEF Saved, SavedIn, Generals
  <1> QED  BY <1>1, <1>2, <1>3, <1>4

\* A step that neither moves the program nor touches its registers, and one
\* that it does not see at all.
Unmoved ==
    /\ \A x \in Tracked : Interrupted(x)' <=> Interrupted(x)
    /\ Interrupted("user") => Saved' = Saved

Unseen == Unmoved /\ printed' = printed

\* Words without a return address but that of the processor's own place, on
\* top of the stack.
LEMMA PushMovesNothing ==
    ASSUME NEW n, Pushed(stack, stack', n),
           pc' \notin Tracked,
           \A x \in Tracked :
               (\E j \in 1 .. n : stack'[j] = Word("eip", x)) <=> pc = x,
           \/ cpu'.regs = cpu.regs /\ \A j \in 1 .. n : stack'[j].tag # "general"
           \/ \E k \in 1 .. n :
                 /\ stack'[k].tag = "general" /\ stack'[k].value = cpu.regs
                 /\ \A j \in 1 .. n : stack'[j].tag = "general" => j = k
    PROVE  Unmoved
  <1>1. ASSUME NEW x \in Tracked PROVE Interrupted(x)' <=> Interrupted(x)
    <2>1. Has(stack', Word("eip", x)) <=> pc = x \/ Has(stack, Word("eip", x))
      BY HasPushed
    <2>2. pc' # x
      OBVIOUS
    <2> QED  BY <2>1, <2>2, WhereAndWhat
  <1>2. Saved' = Saved
    <2> DEFINE r == cpu.regs
               q == cpu'.regs
               t == stack'
    <2>1. Pushed(stack, t, n)
      OBVIOUS
    <2>2. \/ q = r /\ \A j \in 1 .. n : t[j].tag # "general"
          \/ \E k \in 1 .. n : /\ t[k].tag = "general" /\ t[k].value = r
                               /\ \A j \in 1 .. n : t[j].tag = "general" => j = k
      OBVIOUS
    <2> HIDE DEF r, q, t
    <2>3. SavedIn(t, q) = SavedIn(stack, r)
      BY <2>1, <2>2, SavedPushed
    <2> QED  BY <2>3, WhereAndWhat DEF r, q, t
  <1> QED  BY <1>1, <1>2 DEF Unmoved

\* Neither the stack nor the registers nor a tracked place.
LEMMA SameStackIsUnseen ==
    ASSUME stack' = stack, cpu'.regs = cpu.regs, printed' = printed,
           pc' = pc \/ (pc \notin Tracked /\ pc' \notin Tracked)
    PROVE  Unseen
  BY WhereAndWhat DEF Unseen, Unmoved

LEMMA BootIsUnseen ==
    ASSUME KernelInv, BootStep \/ ProcessExec \/ \E line \in Line : RaiseIrq(line)
    PROVE  Unseen
  <1>1. CASE BootStep
    <2>1. /\ pc = "boot" /\ pc' \in {"shell", "boot"}
          /\ UNCHANGED <<stack, printed>>
      BY <1>1 DEF BootStep
    <2>2. cpu'.regs = cpu.regs
      <3>1. cpu' = [cpu EXCEPT !.if = TRUE] \/ cpu' = cpu
        BY <1>1 DEF BootStep
      <3> QED  BY <3>1 DEF KernelInv, Types
    <2> QED  BY <2>1, <2>2, SameStackIsUnseen DEF Tracked
  <1>2. CASE ProcessExec
    <2>1. /\ pc = "shell" /\ pc' = "exec" /\ cpu' = [cpu EXCEPT !.ds = "user"]
          /\ UNCHANGED <<stack, printed>>
      BY <1>2 DEF ProcessExec
    <2>2. cpu'.regs = cpu.regs
      BY <2>1 DEF KernelInv, Types
    <2> QED  BY <2>1, <2>2, SameStackIsUnseen DEF Tracked
  <1>3. ASSUME NEW line \in Line, RaiseIrq(line) PROVE Unseen
    BY <1>3, SameStackIsUnseen DEF RaiseIrq
  <1> QED  BY <1>1, <1>2, <1>3

\* Outside of handlers nothing is saved, and no handler is left.
LEMMA BareFacts ==
    ASSUME NEW s, NEW p, Bare(s, p)
    PROVE  /\ \A x \in Tracked : ~Has(s, Word("eip", x))
           /\ Generals(s) = {}
           /\ Len(s) \in Nat
  <1>1. CASE Len(s) = 1 /\ s[1] = Word("eip", "kmain")
    <2>1. \A i \in 1 .. Len(s) : s[i] = [tag |-> "eip", value |-> "kmain"]
      BY <1>1 DEF Word
    <2>2. \A x \in Tracked : ~Has(s, Word("eip", x))
      BY <2>1 DEF Has, Word, Tracked
    <2>3. Generals(s) = {}
      BY <2>1 DEF Generals
    <2> QED  BY <1>1, <2>2, <2>3
  <1>2. CASE Len(s) = 0
    BY <1>2 DEF Has, Generals
  <1> QED  BY <1>1, <1>2 DEF Bare

LEMMA TakenMovesNothing ==
    ASSUME KernelInv, Taken PROVE Unmoved
  <1>1. PICK v \in Vector :
           /\ Takeable(v) /\ Take(v, v \in Coded)
           /\ UNCHANGED <<booted, tables, timer_ticks>>
    BY Zenon DEF Taken
  <1> DEFINE c == v \in Coded
  <1>11. c \in BOOLEAN /\ Take(v, c) /\ Types
    BY <1>1 DEF KernelInv
  <1> HIDE DEF c
  <1> DEFINE k == IF c THEN 1 ELSE 0
             m == IF cpu.ring = 3 THEN 5 ELSE 3
             n == k + m
  <1>2. /\ cpu.ring = 3 <=> pc = "user"
        /\ pc = "user" => tables.tr
        /\ tables.idt
        /\ Len(stack) \in Nat
    BY <1>1, TakenFromRing DEF Takeable
  <1>3. /\ pc' = "stub"
        /\ cpu' = [cpu EXCEPT !.ring = 0, !.if = FALSE]
        /\ c => stack'[1] = Word("err", "code")
        /\ stack'[k + 1] = Word("eip", pc)
        /\ stack'[k + 2] = Word("cs", cpu.ring)
        /\ stack'[k + 3] = Word("eflags", cpu.if)
        /\ cpu.ring = 3 => /\ stack'[k + 4] = Word("esp", "user")
                           /\ stack'[k + 5] = Word("ss", "user")
                           /\ Len(stack') = n
        /\ cpu.ring # 3 => /\ Len(stack') = n + Len(stack)
                           /\ \A i \in 1 .. Len(stack) :
                                 stack'[n + i] = stack[i]
    BY <1>2, <1>11, TakeFacts
  <1>4. cpu'.regs = cpu.regs
    BY <1>3 DEF KernelInv, Types
  <1>5. /\ c \in BOOLEAN /\ k \in {0, 1} /\ (c <=> k = 1)
        /\ m \in {3, 5} /\ (cpu.ring = 3 <=> m = 5)
    BY <1>11
  <1> HIDE DEF k, m
  <1>6. ASSUME NEW j \in 1 .. n
        PROVE  /\ stack'[j].tag = "eip" <=> j = k + 1
               /\ stack'[j].tag # "general"
    <2>1. \/ j = 1 /\ c
          \/ j = k + 1
          \/ j = k + 2 \/ j = k + 3
          \/ (j = k + 4) /\ (cpu.ring = 3)
          \/ (j = k + 5) /\ (cpu.ring = 3)
      <3> DEFINE l == n
                 user == cpu.ring = 3
      <3>1. /\ k \in {0, 1} /\ (c <=> k = 1)
            /\ m \in {3, 5} /\ (user <=> m = 5)
            /\ j \in 1 .. l /\ l = k + m
        BY <1>5
      <3> HIDE DEF l, user
      <3>2. \/ (j = 1) /\ (k = 1)
            \/ j = k + 1 \/ j = k + 2 \/ j = k + 3
            \/ ((j = k + 4) \/ (j = k + 5)) /\ (m = 5)
        BY <3>1
      <3>3. \/ (j = 1) /\ c
            \/ j = k + 1 \/ j = k + 2 \/ j = k + 3
            \/ ((j = k + 4) \/ (j = k + 5)) /\ user
        BY <3>1, <3>2, Zenon
      <3> QED  BY <3>3 DEF user
    <2>2. CASE j = 1 /\ c
      <3>1. stack'[j].tag = "err"
        BY <1>3, <2>2 DEF Word
      <3>2. j # k + 1
        BY <1>5, <2>2
      <3> QED  BY <3>1, <3>2
    <2>3. CASE j = k + 1
      BY <1>3, <1>5, <2>3 DEF Word
    <2>4. CASE j = k + 2 \/ j = k + 3
      BY <1>3, <1>5, <2>4 DEF Word
    <2>5. CASE j \in {k + 4, k + 5} /\ cpu.ring = 3
      BY <1>3, <1>5, <2>5 DEF Word
    <2> QED  BY <2>1, <2>2, <2>3, <2>4, <2>5
  <1>7. k + 1 \in 1 .. n /\ stack'[k + 1].value = pc /\ n \in Nat
    BY <1>3, <1>5 DEF Word
  <1>8. ASSUME NEW x
        PROVE  (\E j \in 1 .. n : stack'[j] = Word("eip", x)) <=> pc = x
    <2>1. ASSUME NEW j \in 1 .. n, stack'[j] = Word("eip", x) PROVE pc = x
      <3>1. stack'[j].tag = "eip" /\ stack'[j].value = x
        BY <2>1 DEF Word
      <3>2. j = k + 1
        BY <1>6, <3>1
      <3> QED  BY <1>7, <3>1, <3>2
    <2> QED  BY <1>3, <1>7, <2>1
  <1> HIDE DEF n
  <1>9. CASE cpu.ring # 3
    <2>1. Pushed(stack, stack', n)
      BY <1>2, <1>3, <1>7, <1>9 DEF Pushed
    <2>2. pc' \notin Tracked
      BY <1>3 DEF Tracked
    <2> QED  BY <1>1, <1>4, <1>6, <1>8, <2>1, <2>2, PushMovesNothing
  <1>10. CASE cpu.ring = 3
    <2>1. pc = "user" /\ Bare(stack, pc)
      BY <1>2, <1>10 DEF KernelInv, AtOutside, Outside
    <2>2. /\ \A x \in Tracked : ~Has(stack, Word("eip", x))
          /\ Generals(stack) = {}
      BY <2>1, BareFacts
    <2>3. \A x \in Tracked : Has(stack', Word("eip", x)) <=> x = "user"
      BY <1>3, <1>8, <1>10, <2>1 DEF Has
    <2>4. Generals(stack') = {}
      BY <1>3, <1>6, <1>10 DEF Generals
    <2>5. \A x \in Tracked : Interrupted(x)' <=> Interrupted(x)
      BY <1>3, <2>1, <2>2, <2>3, WhereAndWhat DEF Tracked
    <2>6. Saved' = Saved
      BY <1>4, <2>2, <2>4, WhereAndWhat DEF SavedIn
    <2> QED  BY <1>1, <2>5, <2>6 DEF Unmoved
  <1> QED  BY <1>9, <1>10

LEMMA InterruptIsUnseen ==
    ASSUME KernelInv,
           UserInt \/ (\E v \in Exception : Fault(v)) \/ Interrupt \/ NonMaskable
    PROVE  Unseen
  <1>1. printed' = printed
    BY DEF UserInt, Fault, Interrupt, NonMaskable
  <1> QED  BY <1>1, InterruptTakes, TakenMovesNothing DEF Unseen

LEMMA TimerStubIsUnseen ==
    ASSUME KernelInv, isr_timer PROVE Unseen
  <1>1. /\ pc = "stub" /\ pc' = "timer" /\ printed' = printed
        /\ stack' = <<Word("general", cpu.regs)>> \o stack
    BY DEF isr_timer, Pusha
  <1>2. /\ stack \in Seq(StackWord) /\ Len(stack) \in Nat
        /\ Word("general", cpu.regs) \in StackWord
    BY LenProperties DEF KernelInv, Types, Word, StackWord
  <1>3. /\ Len(stack') = Len(stack) + 1
        /\ stack'[1] = Word("general", cpu.regs)
        /\ \A i \in 1 .. Len(stack) : stack'[i + 1] = stack[i]
    BY <1>1, <1>2, PushOne
  <1> DEFINE n == 1
  <1>4. /\ Pushed(stack, stack', n)
        /\ 1 \in 1 .. n /\ \A j \in 1 .. n : j = 1
    BY <1>2, <1>3 DEF Pushed
  <1> HIDE DEF n
  <1>5. stack'[1].tag = "general" /\ stack'[1].value = cpu.regs
    BY <1>3 DEF Word
  <1>6. \A x \in Tracked :
            (\E j \in 1 .. n : stack'[j] = Word("eip", x)) <=> pc = x
    <2>1. \A x, j : stack'[j] = Word("eip", x) => stack'[j].tag = "eip"
      BY DEF Word
    <2> QED  BY <1>1, <1>4, <1>5, <2>1 DEF Tracked
  <1>7. pc' \notin Tracked
    BY <1>1 DEF Tracked
  <1> QED  BY <1>1, <1>4, <1>5, <1>6, <1>7, PushMovesNothing DEF Unseen

LEMMA CommonStubIsUnseen ==
    ASSUME KernelInv, isr_common_stub PROVE Unseen
  <1> DEFINE a == Word("segments", cpu.ds)
             b == Word("general", cpu.regs)
             c == Word("num", trap.vector)
             d == Word("err", "zero")
  <1>1. /\ pc = "stub" /\ pc' = "handler" /\ printed' = printed
        /\ \/ stack' = <<a, b, c>> \o <<>> \o stack
           \/ stack' = <<a, b, c>> \o <<d>> \o stack
    BY DEF isr_common_stub, Pusha
  <1>2. stack \in Seq(StackWord) /\ Len(stack) \in Nat
    BY LenProperties DEF KernelInv, Types
  <1>3. a \in StackWord /\ b \in StackWord /\ c \in StackWord /\ d \in StackWord
    BY DEF KernelInv, Types, Word, StackWord
  <1>4. /\ a.tag = "segments" /\ b.tag = "general" /\ c.tag = "num" /\ d.tag = "err"
        /\ b.value = cpu.regs
    BY DEF Word
  <1> HIDE DEF a, b, c, d
  <1>5. \E n \in {3, 4} :
           /\ Pushed(stack, stack', n)
           /\ stack'[1] = a /\ stack'[2] = b /\ stack'[3] = c
           /\ n = 4 => stack'[4] = d
    <2>1. CASE stack' = <<a, b, c>> \o <<>> \o stack
      <3>1. /\ Len(stack') = Len(stack) + 3
            /\ stack'[1] = a /\ stack'[2] = b /\ stack'[3] = c
            /\ \A i \in 1 .. Len(stack) : stack'[i + 3] = stack[i]
        BY <1>2, <1>3, <2>1, PushThree
      <3>2. Pushed(stack, stack', 3)
        BY <1>2, <3>1 DEF Pushed
      <3> QED  BY <3>1, <3>2
    <2>2. CASE stack' = <<a, b, c>> \o <<d>> \o stack
      <3>1. /\ Len(stack') = Len(stack) + 4
            /\ stack'[1] = a /\ stack'[2] = b /\ stack'[3] = c /\ stack'[4] = d
            /\ \A i \in 1 .. Len(stack) : stack'[i + 4] = stack[i]
        BY <1>2, <1>3, <2>2, PushFour
      <3>2. Pushed(stack, stack', 4)
        BY <1>2, <3>1 DEF Pushed
      <3> QED  BY <3>1, <3>2
    <2> QED  BY <1>1, <2>1, <2>2
  <1>6. PICK n \in {3, 4} :
           /\ Pushed(stack, stack', n)
           /\ stack'[1] = a /\ stack'[2] = b /\ stack'[3] = c
           /\ n = 4 => stack'[4] = d
    BY <1>5
  <1>7. ASSUME NEW j \in 1 .. n
        PROVE  stack'[j].tag # "eip" /\ (stack'[j].tag = "general" => j = 2)
    <2>1. j = 1 \/ j = 2 \/ j = 3 \/ (j = 4 /\ n = 4)
      OBVIOUS
    <2> QED  BY <1>4, <1>6, <2>1
  <1>8. \A x \in Tracked :
            (\E j \in 1 .. n : stack'[j] = Word("eip", x)) <=> pc = x
    <2>1. \A x, j : stack'[j] = Word("eip", x) => stack'[j].tag = "eip"
      BY DEF Word
    <2> QED  BY <1>1, <1>7, <2>1 DEF Tracked
  <1>9. /\ 2 \in 1 .. n /\ stack'[2].tag = "general" /\ stack'[2].value = cpu.regs
        /\ pc' \notin Tracked
    BY <1>1, <1>4, <1>6 DEF Tracked
  <1> QED  BY <1>1, <1>6, <1>7, <1>8, <1>9, PushMovesNothing DEF Unseen

\* What the words of a handler that returns to p say of the program.
LEMMA ReturnShows ==
    ASSUME NEW s, NEW k \in {2, 5}, NEW p, Frame(s, k, p),
           NEW g \in 1 .. k - 1, s[g].tag = "general",
           \A j \in 1 .. k - 1 : s[j].tag # "eip" /\ (s[j].tag = "general" => j = g)
    PROVE  /\ \A x \in Tracked : Has(s, Word("eip", x)) <=> x = p
           /\ Lowest(s, g)
  <1>1. /\ s[k] = Word("eip", p) /\ s[k + 1] = Word("cs", RingOf(p))
        /\ s[k + 2] = Word("eflags", TRUE)
        /\ Len(s) = IF p = "user" THEN k + 4 ELSE k + 3
        /\ p = "user" => s[k + 3] = Word("esp", "user") /\ s[k + 4] = Word("ss", "user")
        /\ p # "user" => s[k + 3] = Word("eip", "kmain")
    BY DEF Frame
  <1>2. ASSUME NEW j \in 1 .. Len(s)
        PROVE  /\ s[j].tag = "general" => j = g
               /\ s[j].tag = "eip" => s[j].value \in {p, "kmain"}
    <2>1. \/ j \in 1 .. k - 1
          \/ j = k \/ j = k + 1 \/ j = k + 2
          \/ j = k + 3
          \/ (p = "user") /\ (j = k + 4)
      <3> DEFINE l == Len(s)
                 user == p = "user"
      <3>1. (user /\ l = k + 4) \/ l = k + 3
        BY <1>1, Zenon
      <3>2. j \in 1 .. l
        OBVIOUS
      <3> HIDE DEF l, user
      <3>3. \/ j \in 1 .. k - 1
            \/ j = k \/ j = k + 1 \/ j = k + 2
            \/ j = k + 3
            \/ user /\ (j = k + 4)
        BY <3>1, <3>2
      <3> QED  BY <3>3 DEF user
    <2>2. /\ s[k].tag = "eip" /\ s[k].value = p
          /\ s[k + 1].tag = "cs" /\ s[k + 2].tag = "eflags"
          /\ p = "user" => s[k + 3].tag = "esp" /\ s[k + 4].tag = "ss"
          /\ p # "user" => s[k + 3].tag = "eip" /\ s[k + 3].value = "kmain"
      <3> DEFINE k1 == k + 1
                 k2 == k + 2
                 k3 == k + 3
                 k4 == k + 4
      <3>2. /\ s[k] = Word("eip", p) /\ s[k1] = Word("cs", RingOf(p))
            /\ s[k2] = Word("eflags", TRUE)
            /\ p = "user" => s[k3] = Word("esp", "user") /\ s[k4] = Word("ss", "user")
            /\ p # "user" => s[k3] = Word("eip", "kmain")
        BY <1>1, Zenon
      <3> HIDE DEF k1, k2, k3, k4
      <3>3. /\ s[k].tag = "eip" /\ s[k].value = p
            /\ s[k1].tag = "cs" /\ s[k2].tag = "eflags"
            /\ p = "user" => s[k3].tag = "esp" /\ s[k4].tag = "ss"
            /\ p # "user" => s[k3].tag = "eip" /\ s[k3].value = "kmain"
        <4> DEFINE r == RingOf(p)
                   w == s[k]
                   w1 == s[k1]
                   w2 == s[k2]
                   w3 == s[k3]
                   w4 == s[k4]
                   user == p = "user"
        <4>1. /\ w = Word("eip", p) /\ w1 = Word("cs", r)
              /\ w2 = Word("eflags", TRUE)
              /\ user => w3 = Word("esp", "user") /\ w4 = Word("ss", "user")
              /\ ~user => w3 = Word("eip", "kmain")
          BY <3>2, Zenon
        <4> HIDE DEF r, w, w1, w2, w3, w4, user
        <4>2. /\ w.tag = "eip" /\ w.value = p /\ w1.tag = "cs" /\ w2.tag = "eflags"
              /\ user => w3.tag = "esp" /\ w4.tag = "ss"
              /\ ~user => w3.tag = "eip" /\ w3.value = "kmain"
          BY <4>1 DEF Word
        <4> QED  BY <4>2 DEF w, w1, w2, w3, w4, user
      <3> QED  BY <3>3 DEF k1, k2, k3, k4
    <2>3. CASE j \in 1 .. k - 1
      BY <2>3
    <2>4. CASE j = k \/ j = k + 1 \/ j = k + 2 \/ j = k + 3
      BY <2>2, <2>4, Zenon
    <2>5. CASE (p = "user") /\ (j = k + 4)
      BY <2>2, <2>5, Zenon
    <2> QED  BY <2>1, <2>3, <2>4, <2>5, Zenon
  <1>3. k \in 1 .. Len(s) /\ g \in 1 .. Len(s)
    <2> DEFINE l == Len(s)
    <2>1. l = k + 4 \/ l = k + 3
      BY <1>1, Zenon
    <2> HIDE DEF l
    <2>2. k \in 1 .. l /\ g \in 1 .. l
      BY <2>1
    <2> QED  BY <2>2 DEF l
  <1>4. ASSUME NEW x \in Tracked PROVE Has(s, Word("eip", x)) <=> x = p
    <2>1. ASSUME NEW j \in 1 .. Len(s), s[j] = Word("eip", x) PROVE x = p
      <3>1. s[j].tag = "eip" /\ s[j].value = x
        BY <2>1 DEF Word
      <3> QED  BY <1>2, <3>1 DEF Tracked
    <2> QED  BY <1>1, <1>3, <2>1 DEF Has
  <1>5. Lowest(s, g)
    <2>1. g \in Generals(s) /\ \A j \in Generals(s) : j = g
      BY <1>2, <1>3 DEF Generals
    <2> QED  BY <1>3, <2>1 DEF Lowest
  <1> QED  BY <1>4, <1>5

LEMMA ReturnIsUnseen ==
    ASSUME NEW k \in {2, 5}, NEW p, Frame(stack, k, p),
           NEW g \in 1 .. k - 1, stack[g].tag = "general",
           \A j \in 1 .. k - 1 :
               stack[j].tag # "eip" /\ (stack[j].tag = "general" => j = g),
           NEW ds, BackAt(p, ds, stack[g].value), Bare(stack', p),
           pc \notin Tracked, printed' = printed
    PROVE  Unseen
  <1>1. /\ \A x \in Tracked : Has(stack, Word("eip", x)) <=> x = p
        /\ Lowest(stack, g)
    BY ReturnShows
  <1>2. /\ \A x \in Tracked : ~Has(stack', Word("eip", x))
        /\ Generals(stack') = {}
    BY BareFacts
  <1>3. pc' = p /\ cpu'.regs = stack[g].value
    BY DEF BackAt
  <1>4. \A x \in Tracked : Interrupted(x)' <=> Interrupted(x)
    BY <1>1, <1>2, <1>3, WhereAndWhat
  <1>5. Saved' = stack[g].value
    BY <1>2, <1>3, WhereAndWhat DEF SavedIn
  <1>6. Saved = stack[g].value
    BY <1>1, SavedIs, WhereAndWhat
  <1> QED  BY <1>4, <1>5, <1>6 DEF Unseen, Unmoved

LEMMA TimerReturnIsUnseen ==
    ASSUME KernelInv, timer_handler PROVE Unseen
  <1>1. /\ pc = "timer" /\ UNCHANGED printed
        /\ Iret(Tail(stack), cpu.ds, stack[1].value)
    BY DEF timer_handler
  <1>2. PICK p \in Outside : /\ Frame(stack, 2, p)
                             /\ stack[1].tag = "general"
    BY <1>1 DEF KernelInv, AtTimer, ReturnsTo
  <1>3. stack \in Seq(StackWord) /\ Len(stack) >= 5
    BY <1>2 DEF KernelInv, Types, Frame
  <1>4. Tail(stack) = SubSeq(stack, 2, Len(stack))
    <2>1. stack # <<>>
      BY <1>3
    <2> QED  BY <1>3, <2>1, TailIsSubSeq
  <1> DEFINE ds == cpu.ds
             g == 1
             regs == stack[g].value
             k == 2
             t == SubSeq(stack, k, Len(stack))
  <1>5. /\ Iret(t, ds, regs) /\ Frame(stack, k, p)
        /\ k \in {2, 5} /\ g \in 1 .. k - 1 /\ stack[g].tag = "general"
        /\ \A j \in 1 .. k - 1 :
               stack[j].tag # "eip" /\ (stack[j].tag = "general" => j = g)
    <2>1. Iret(t, ds, regs)
      BY <1>1, <1>4
    <2>2. 1 \in 1 .. 2 - 1 /\ \A j \in 1 .. 2 - 1 : j = 1
      OBVIOUS
    <2>3. \A j \in 1 .. 2 - 1 :
             stack[j].tag # "eip" /\ (stack[j].tag = "general" => j = 1)
      BY <1>2, <2>2
    <2> QED  BY <1>2, <2>1, <2>2, <2>3
  <1>6. t = SubSeq(stack, k, Len(stack)) /\ regs = stack[g].value
    OBVIOUS
  <1> HIDE DEF ds, g, regs, k, t
  <1>7. BackAt(p, ds, regs) /\ Bare(stack', p)
    BY <1>3, <1>5, <1>6, Returned, Zenon
  <1>8. pc \notin Tracked
    BY <1>1 DEF Tracked
  <1> QED  BY <1>1, <1>5, <1>6, <1>7, <1>8, ReturnIsUnseen

\* The stack while a system call is being served.
LEMMA CallFacts ==
    ASSUME NEW s, Frame(s, 5, "user"), s[1] = Word("segments", "user"),
           s[2].tag = "general", s[3] = Word("num", INT_SYSCALL),
           s[4] = Word("err", "zero")
    PROVE  /\ s[1].value = "user" /\ 2 \in 1 .. 5 - 1
           /\ \A j \in 1 .. 5 - 1 :
                 s[j].tag # "eip" /\ (s[j].tag = "general" => j = 2)
           /\ \A x \in Tracked : Has(s, Word("eip", x)) <=> x = "user"
           /\ Lowest(s, 2)
  <1>1. /\ s[1].tag = "segments" /\ s[1].value = "user"
        /\ s[3].tag = "num" /\ s[4].tag = "err"
    BY DEF Word
  <1>2. \A j \in 1 .. 5 - 1 : j = 1 \/ j = 2 \/ j = 3 \/ j = 4
    OBVIOUS
  <1>3. \A j \in 1 .. 5 - 1 :
           s[j].tag # "eip" /\ (s[j].tag = "general" => j = 2)
    BY <1>1, <1>2
  <1> DEFINE k == 5
             g == 2
             p == "user"
  <1>4. /\ k \in {2, 5} /\ g \in 1 .. k - 1
        /\ Frame(s, k, p) /\ s[g].tag = "general"
        /\ \A j \in 1 .. k - 1 :
              s[j].tag # "eip" /\ (s[j].tag = "general" => j = g)
    BY <1>3
  <1> HIDE DEF k, g, p
  <1>5. /\ \A x \in Tracked : Has(s, Word("eip", x)) <=> x = p
        /\ Lowest(s, g)
    BY <1>4, ReturnShows
  <1> QED  BY <1>1, <1>3, <1>5 DEF k, g, p

LEMMA LeaveIsUnseen ==
    ASSUME KernelInv, Leave PROVE Unseen
  <1>1. /\ pc = "leave" /\ UNCHANGED printed
        /\ Iret(SubSeq(stack, 5, Len(stack)), stack[1].value, stack[2].value)
    BY DEF Leave
  <1>2. CallSaved /\ stack \in Seq(StackWord)
    BY <1>1 DEF KernelInv, AtLeave, Types
  <1> DEFINE ds == stack[1].value
             g == 2
             regs == stack[g].value
             k == 5
             p == "user"
             t == SubSeq(stack, k, Len(stack))
  <1>3. /\ Iret(t, ds, regs) /\ Frame(stack, k, p)
        /\ k \in {2, 5} /\ g \in 1 .. k - 1 /\ stack[g].tag = "general"
        /\ \A j \in 1 .. k - 1 :
               stack[j].tag # "eip" /\ (stack[j].tag = "general" => j = g)
    BY <1>1, <1>2, CallFacts DEF CallSaved, ReturnsTo
  <1>4. t = SubSeq(stack, k, Len(stack)) /\ regs = stack[g].value
    OBVIOUS
  <1> HIDE DEF ds, g, regs, k, t, p
  <1>5. BackAt(p, ds, regs) /\ Bare(stack', p)
    BY <1>2, <1>3, <1>4, Returned, Zenon
  <1>6. pc \notin Tracked
    BY <1>1 DEF Tracked
  <1> QED  BY <1>1, <1>3, <1>4, <1>5, <1>6, ReturnIsUnseen

-----------------------------------------------------------------------------
(* Kernel implements Process *)

Life == IF Interrupted("halted") THEN "panicked"
        ELSE IF Interrupted("exited") THEN "exited"
        ELSE IF Interrupted("user") THEN "running" ELSE "none"

View == IF ~Interrupted("user") THEN NoRegs ELSE Saved

\* While the program computes, nothing of it is saved.
LEMMA ViewIs ==
    /\ KernelInv =>
          View = IF ~Interrupted("user") THEN NoRegs
                 ELSE IF pc = "user" THEN cpu.regs ELSE Saved
    /\ KernelInv' =>
          View' = IF ~Interrupted("user")' THEN NoRegs
                  ELSE IF pc' = "user" THEN cpu'.regs ELSE Saved'
  <1>1. ASSUME KernelInv, pc = "user" PROVE Saved = cpu.regs
    <2>1. Bare(stack, pc)
      BY <1>1 DEF KernelInv, AtOutside, Outside
    <2> QED  BY <2>1, BareFacts, WhereAndWhat DEF SavedIn
  <1>2. ASSUME KernelInv', pc' = "user" PROVE Saved' = cpu'.regs
    <2>1. Bare(stack', pc')
      BY <1>2 DEF KernelInv, AtOutside, Outside
    <2> QED  BY <2>1, BareFacts, WhereAndWhat DEF SavedIn
  <1> QED  BY <1>1, <1>2 DEF View

LEMMA UnmovedKeeps ==
    ASSUME Unmoved PROVE UNCHANGED <<Life, View>>
  <1>1. \A x \in Tracked : Interrupted(x)' <=> Interrupted(x)
    BY DEF Unmoved
  <1>2. /\ Interrupted("halted")' <=> Interrupted("halted")
        /\ Interrupted("exited")' <=> Interrupted("exited")
        /\ Interrupted("user")' <=> Interrupted("user")
    BY <1>1 DEF Tracked
  <1>3. Life' = Life
    BY <1>2 DEF Life
  <1>4. View' = View
    BY <1>2 DEF View, Unmoved
  <1> QED  BY <1>3, <1>4

LEMMA UnseenKeeps ==
    ASSUME Unseen PROVE UNCHANGED <<Life, View, printed>>
  BY UnmovedKeeps DEF Unseen

LEMMA EnterStarts ==
    ASSUME KernelInv, EnterProgram
    PROVE  /\ Life = "none" /\ Life' = "running"
           /\ View' \in Regs
           /\ UNCHANGED printed
  <1>1. /\ pc = "exec" /\ pc' = "user" /\ Bare(stack', "user")
        /\ UNCHANGED printed
    BY EnterFacts
  <1>2. PICK regs \in Regs :
            cpu' = [ring |-> 3, if |-> TRUE, ds |-> "user", regs |-> regs]
    BY EnterFacts
  <1>3. /\ \A x \in Tracked : ~Has(stack, Word("eip", x))
        /\ \A x \in Tracked : ~Has(stack', Word("eip", x))
        /\ Generals(stack') = {}
    <2>1. Bare(stack, pc)
      BY <1>1 DEF KernelInv, AtOutside, Outside
    <2> QED  BY <1>1, <2>1, BareFacts
  <1>4. /\ ~Interrupted("halted") /\ ~Interrupted("exited") /\ ~Interrupted("user")
    BY <1>1, <1>3, WhereAndWhat DEF Tracked
  <1>5. /\ ~Interrupted("halted")' /\ ~Interrupted("exited")' /\ Interrupted("user")'
    BY <1>1, <1>3, WhereAndWhat DEF Tracked
  <1>6. Saved' = regs
    BY <1>2, <1>3, WhereAndWhat DEF SavedIn
  <1> QED  BY <1>1, <1>4, <1>5, <1>6 DEF Life, View

LEMMA ComputeComputes ==
    ASSUME KernelInv, UserCompute
    PROVE  /\ Life = "running" /\ View' \in Regs
           /\ UNCHANGED <<Life, printed>>
  <1>1. PICK regs \in Regs :
            /\ pc = "user" /\ cpu' = [cpu EXCEPT !.regs = regs]
            /\ UNCHANGED <<pc, stack, printed>>
    BY DEF UserCompute
  <1>2. cpu'.regs = regs
    BY <1>1 DEF KernelInv, Types
  <1>3. /\ \A x \in Tracked : ~Has(stack, Word("eip", x))
        /\ Generals(stack) = {}
    <2>1. Bare(stack, pc)
      BY <1>1 DEF KernelInv, AtOutside, Outside
    <2> QED  BY <2>1, BareFacts
  <1>4. /\ ~Interrupted("halted") /\ ~Interrupted("exited") /\ Interrupted("user")
    BY <1>1, <1>3, WhereAndWhat DEF Tracked
  <1>5. /\ ~Interrupted("halted")' /\ ~Interrupted("exited")' /\ Interrupted("user")'
    BY <1>1, <1>3, WhereAndWhat DEF Tracked
  <1>6. Saved' = regs
    BY <1>1, <1>2, <1>3, WhereAndWhat DEF SavedIn
  <1> QED  BY <1>1, <1>4, <1>5, <1>6 DEF Life, View

\* While a call is served the program runs, and its registers lie second.
LEMMA CallShows ==
    ASSUME CallSaved, pc \notin Tracked
    PROVE  /\ ~Interrupted("halted") /\ ~Interrupted("exited") /\ Interrupted("user")
           /\ Saved = stack[2].value
  <1>1. /\ \A x \in Tracked : Has(stack, Word("eip", x)) <=> x = "user"
        /\ Lowest(stack, 2)
    BY CallFacts DEF CallSaved, ReturnsTo
  <1>2. Saved = stack[2].value
    BY <1>1, SavedIs, WhereAndWhat
  <1> QED  BY <1>1, <1>2, WhereAndWhat DEF Tracked

\* What sys_write prints is no more than it was given, up to the NUL.
LEMMA PrintedFacts ==
    ASSUME NEW regs \in RegisterFile
    PROVE  \E n \in 0 .. Len(Text[regs.ecx]) :
              /\ n > 0 => n <= regs.edx
              /\ Printed(regs) = SubSeq(Text[regs.ecx], 1, n)
  <1> DEFINE t == Text[regs.ecx]
             e == regs.edx
  <1>1. t \in Seq(Char) /\ e \in Int
    BY RegsAssumption DEF RegisterFile
  <1>2. Printed(regs) = IF e < Len(t) THEN SubSeq(t, 1, e) ELSE t
    BY DEF Printed
  <1> HIDE DEF t, e
  <1>3. Len(t) \in Nat
    BY <1>1
  <1>4. CASE e < 0
    <2>1. SubSeq(t, 1, e) = <<>> /\ SubSeq(t, 1, 0) = <<>>
      <3>1. 1 \in Int /\ 0 \in Int /\ e < 1 /\ 0 < 1
        BY <1>1, <1>4
      <3> QED  BY <1>1, <3>1, SubSeqEmpty
    <2>2. e < Len(t) /\ 0 \in 0 .. Len(t)
      BY <1>1, <1>3, <1>4
    <2>3. Printed(regs) = SubSeq(t, 1, 0)
      BY <1>2, <2>1, <2>2, Zenon
    <2> QED  BY <2>2, <2>3 DEF t, e
  <1>5. CASE e >= 0 /\ e < Len(t)
    <2>1. e \in 0 .. Len(t) /\ Printed(regs) = SubSeq(t, 1, e) /\ e <= e
      BY <1>1, <1>2, <1>3, <1>5
    <2> QED  BY <2>1 DEF t, e
  <1>6. CASE e >= Len(t)
    <2>1. ~(e < Len(t)) /\ Len(t) \in 0 .. Len(t) /\ Len(t) <= e
      BY <1>1, <1>3, <1>6
    <2>2. Printed(regs) = SubSeq(t, 1, Len(t))
      BY <1>1, <1>2, <2>1, SubSeqFull
    <2> QED  BY <2>1, <2>2 DEF t, e
  <1> QED  BY <1>1, <1>3, <1>4, <1>5, <1>6

LEMMA CallCalls ==
    ASSUME KernelInv, syscall_handler
    PROVE  /\ Life = "running" /\ View.eax # SYS_EXIT
           /\ \E v \in Value : View' = [View EXCEPT !.eax = v]
           /\ \/ UNCHANGED printed
              \/ /\ View.eax = SYS_WRITE
                 /\ \E n \in 0 .. Len(Text[View.ecx]) :
                       /\ n > 0 => n <= View.edx
                       /\ printed' = SubSeq(Text[View.ecx], 1, n)
           /\ UNCHANGED Life
  <1> DEFINE regs == stack[2].value
  <1>1. /\ pc = "handler" /\ pc' = "leave"
        /\ CallSaved /\ CallSaved'
        /\ regs \in RegisterFile /\ regs.eax # SYS_EXIT
        /\ stack'[2].value = [regs EXCEPT !.eax = Answer(regs)]
        /\ printed' = IF regs.eax = SYS_WRITE /\ regs.ebx \in {1, 2}
                         THEN Printed(regs) ELSE printed
    BY CallWrites
  <1>2. /\ ~Interrupted("halted") /\ ~Interrupted("exited") /\ Interrupted("user")
        /\ Saved = regs
    <2>1. pc \notin Tracked
      BY <1>1 DEF Tracked
    <2> QED  BY <1>1, <2>1, CallShows
  <1>3. /\ ~Interrupted("halted")' /\ ~Interrupted("exited")' /\ Interrupted("user")'
        /\ Saved' = stack'[2].value
    <2>1. /\ \A x \in Tracked : Has(stack', Word("eip", x)) <=> x = "user"
          /\ Lowest(stack', 2)
      BY <1>1, CallFacts DEF CallSaved, ReturnsTo
    <2>2. pc' \notin Tracked
      BY <1>1 DEF Tracked
    <2>3. Saved' = stack'[2].value
      BY <2>1, SavedIs, WhereAndWhat
    <2> QED  BY <2>1, <2>2, <2>3, WhereAndWhat DEF Tracked
  <1>4. /\ View = regs /\ View' = [regs EXCEPT !.eax = Answer(regs)]
        /\ Life = "running" /\ Life' = "running"
    BY <1>1, <1>2, <1>3, Zenon DEF View, Life
  <1> HIDE DEF regs
  <1>5. Answer(regs) \in Value
    BY <1>1, AnswerIsValue
  <1>6. \/ UNCHANGED printed
        \/ /\ regs.eax = SYS_WRITE
           /\ \E n \in 0 .. Len(Text[regs.ecx]) :
                 /\ n > 0 => n <= regs.edx
                 /\ printed' = SubSeq(Text[regs.ecx], 1, n)
    BY <1>1, PrintedFacts, Zenon
  <1> QED  BY <1>1, <1>4, <1>5, <1>6, Zenon

\* To the program the call that runs into unmapped memory is one that printed
\* what was mapped and left eax alone; the panic comes after it.
LEMMA WriteFaultCalls ==
    ASSUME KernelInv, WriteFault
    PROVE  /\ Life = "running" /\ View.eax # SYS_EXIT
           /\ \E v \in Value : View' = [View EXCEPT !.eax = v]
           /\ View.eax = SYS_WRITE
           /\ \E n \in 0 .. Len(Text[View.ecx]) :
                 /\ n > 0 => n <= View.edx
                 /\ printed' = SubSeq(Text[View.ecx], 1, n)
           /\ UNCHANGED Life
  <1> DEFINE regs == stack[2].value
  <1>1. /\ pc = "handler" /\ stack[3] = Word("num", INT_SYSCALL)
        /\ regs.eax = SYS_WRITE /\ regs.edx > Len(Text[regs.ecx])
        /\ printed' = Text[regs.ecx]
    BY DEF WriteFault, ReadsUnmapped, IntNo
  <1>2. CallSaved
    BY <1>1, ServesCall
  <1>3. /\ ~Interrupted("halted") /\ ~Interrupted("exited") /\ Interrupted("user")
        /\ Saved = regs
    <2>1. pc \notin Tracked
      BY <1>1 DEF Tracked
    <2> QED  BY <1>2, <2>1, CallShows
  <1>4. regs \in RegisterFile
    <2>1. stack[2].tag = "general" /\ Frame(stack, 5, "user")
      BY <1>2 DEF CallSaved, ReturnsTo
    <2>2. Len(stack) = 5 + 4
      BY <2>1, Zenon DEF Frame
    <2>3. stack \in Seq(StackWord)
      BY DEF KernelInv, Types
    <2>4. 2 \in 1 .. Len(stack)
      BY <2>2
    <2>5. stack[2] \in StackWord
      BY <2>3, <2>4, ElementOfSeq
    <2> QED  BY <2>1, <2>5 DEF StackWord
  <1>5. View = regs /\ Life = "running"
    BY <1>3, Zenon DEF View, Life
  <1>6. UNCHANGED <<Life, View>>
    BY InterruptTakes, TakenMovesNothing, UnmovedKeeps
  <1> HIDE DEF regs
  <1>7. View' = [View EXCEPT !.eax = regs.eax] /\ regs.eax \in Value
    BY <1>4, <1>5, <1>6 DEF RegisterFile
  <1>8. regs.eax # SYS_EXIT
    BY <1>1 DEF SYS_WRITE, SYS_EXIT
  <1>9. \E n \in 0 .. Len(Text[regs.ecx]) :
           /\ n > 0 => n <= regs.edx
           /\ printed' = SubSeq(Text[regs.ecx], 1, n)
    <2> DEFINE t == Text[regs.ecx]
               e == regs.edx
    <2>1. t \in Seq(Char) /\ e \in Int
      BY <1>4, RegsAssumption DEF RegisterFile
    <2>2. printed' = t /\ e > Len(t)
      BY <1>1
    <2> HIDE DEF t, e
    <2>3. Len(t) \in 0 .. Len(t) /\ Len(t) <= e /\ SubSeq(t, 1, Len(t)) = t
      BY <2>1, <2>2, SubSeqFull
    <2> QED  BY <2>2, <2>3 DEF t, e
  <1> QED  BY <1>1, <1>5, <1>6, <1>7, <1>8, <1>9, Zenon

LEMMA ExitExits ==
    ASSUME KernelInv, sys_exit
    PROVE  /\ Life = "running" /\ View.eax = SYS_EXIT /\ Life' = "exited"
           /\ UNCHANGED <<View, printed>>
  <1>1. /\ pc = "handler" /\ pc' = "exited"
        /\ stack[3] = Word("num", INT_SYSCALL)
        /\ stack[2].value.eax = SYS_EXIT
        /\ UNCHANGED <<stack, cpu, printed>>
    BY DEF sys_exit, IntNo
  <1>2. CallSaved
    BY <1>1, ServesCall
  <1>3. /\ ~Interrupted("halted") /\ ~Interrupted("exited") /\ Interrupted("user")
        /\ Saved = stack[2].value
    <2>1. pc \notin Tracked
      BY <1>1 DEF Tracked
    <2> QED  BY <1>2, <2>1, CallShows
  <1>4. /\ ~Interrupted("halted")' /\ Interrupted("exited")' /\ Interrupted("user")'
        /\ Saved' = Saved
    BY <1>1, <1>3, WhereAndWhat DEF Tracked
  <1> QED  BY <1>1, <1>3, <1>4, Zenon DEF View, Life

LEMMA FaultPanics ==
    ASSUME KernelInv, exception_handler
    PROVE  Life' = "panicked" /\ UNCHANGED <<View, printed>>
  <1>1. /\ pc = "handler" /\ pc' = "halted"
        /\ UNCHANGED <<stack, cpu, printed>>
    BY ExceptionHalts DEF exception_handler
  <1>2. /\ Interrupted("halted")'
        /\ Interrupted("user")' <=> Interrupted("user")
        /\ Saved' = Saved
    BY <1>1, WhereAndWhat DEF Tracked
  <1> QED  BY <1>1, <1>2, Zenon DEF View, Life

\* Interrupts, also one inside the handling of another, are invisible to the
\* program; a system call changes eax and nothing else, and write shows no
\* more than it was given; after an exit or a panic nothing of the program
\* runs again.
THEOREM KernelIsProcess == Spec => ImplementsProcess
  <1> DEFINE registers == IF ~Interrupted("user") THEN NoRegs
                          ELSE IF pc = "user" THEN cpu.regs ELSE Saved
  <1>1. Init => Program!ProcessInit
    <2> SUFFICES ASSUME Init PROVE Program!ProcessInit
      OBVIOUS
    <2>1. /\ pc = "boot" /\ stack = <<Word("eip", "kmain")>> /\ printed = <<>>
      BY DEF Init
    <2>2. Bare(stack, pc)
      BY <2>1 DEF Bare
    <2>3. \A x \in Tracked : ~Interrupted(x)
      BY <2>1, <2>2, BareFacts, WhereAndWhat DEF Tracked
    <2>4. /\ ~Interrupted("halted") /\ ~Interrupted("exited")
          /\ ~Interrupted("user")
      BY <2>3 DEF Tracked
    <2> QED  BY <2>1, <2>4, Zenon DEF Program!ProcessInit
  <1>2. KernelInv /\ KernelInv' /\ [Next]_vars
           => [Program!ProcessNext]_(Program!processVars)
    <2> SUFFICES ASSUME KernelInv, KernelInv', [Next]_vars
                 PROVE  [Program!ProcessNext]_(Program!processVars)
      OBVIOUS
    <2>1. registers = View /\ registers' = View'
      BY ViewIs, Zenon
    <2> HIDE DEF registers
    <2>2. ASSUME UNCHANGED <<Life, View, printed>>
          PROVE  UNCHANGED Program!processVars
      BY <2>1, <2>2, Zenon DEF Program!processVars, Life, registers
    <2>3. CASE UNCHANGED vars
      <3>1. Unseen
        BY <2>3, SameStackIsUnseen DEF vars
      <3> QED  BY <2>2, <3>1, UnseenKeeps
    <2>4. CASE BootStep \/ ProcessExec \/ \E line \in Line : RaiseIrq(line)
      BY <2>2, <2>4, BootIsUnseen, UnseenKeeps
    <2>5. CASE EnterProgram
      <3>1. Program!Start
        BY <2>1, <2>5, EnterStarts DEF Program!Start, Life, registers
      <3> QED  BY <3>1 DEF Program!ProcessNext
    <2>6. CASE UserCompute
      <3>1. Program!Compute
        BY <2>1, <2>6, ComputeComputes DEF Program!Compute, Life, registers
      <3> QED  BY <3>1 DEF Program!ProcessNext
    <2>7. CASE \/ UserInt \/ (\E v \in Exception : Fault(v))
               \/ Interrupt \/ NonMaskable
      BY <2>2, <2>7, InterruptIsUnseen, UnseenKeeps
    <2>8. CASE isr_timer \/ isr_common_stub
      BY <2>2, <2>8, TimerStubIsUnseen, CommonStubIsUnseen, UnseenKeeps
    <2>9. CASE timer_handler \/ Leave
      BY <2>2, <2>9, TimerReturnIsUnseen, LeaveIsUnseen, UnseenKeeps
    <2>10. CASE syscall_handler
      <3>1. Program!Call
        BY <2>1, <2>10, CallCalls DEF Program!Call, Life, registers
      <3> QED  BY <3>1 DEF Program!ProcessNext
    <2>13. CASE WriteFault
      <3>1. Program!Call
        BY <2>1, <2>13, WriteFaultCalls DEF Program!Call, Life, registers
      <3> QED  BY <3>1 DEF Program!ProcessNext
    <2>11. CASE sys_exit
      <3>1. Program!Exit
        BY <2>1, <2>11, ExitExits DEF Program!Exit, Life, registers
      <3> QED  BY <3>1 DEF Program!ProcessNext
    <2>12. CASE exception_handler
      <3>1. Program!Panic
        BY <2>1, <2>12, FaultPanics DEF Program!Panic, Life, registers
      <3> QED  BY <3>1 DEF Program!ProcessNext
    <2> QED
      BY <2>3, <2>4, <2>5, <2>6, <2>7, <2>8, <2>9, <2>10, <2>11, <2>12,
         <2>13, Zenon DEF Next
  <1>3. KernelInv /\ [Next]_vars => [Program!ProcessNext]_(Program!processVars)
    BY <1>2, StepInv
  <1> QED
    BY <1>1, <1>3, InductiveInvariant, PTL
       DEF Spec, ImplementsProcess, Program!ProcessSpec
=============================================================================
