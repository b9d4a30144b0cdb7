---------------------------- MODULE SystemProofs ----------------------------
(***************************************************************************)
(* Proofs about System and Paging: that remapped pages take effect,        *)
(* whatever the processor keeps, and that a wait lasts as long as asked,   *)
(* whenever the ticks come and however wide the count is.  And about Pci   *)
(* and Printf: that the log of the scan tells what is on the bus, and that *)
(* the scan goes on.                                                       *)
(***************************************************************************)
EXTENDS System, Pci, SequenceTheorems, WellFoundedInduction, TLAPS

-----------------------------------------------------------------------------
(***************************************************************************)
(* Pages.  What the processor keeps is what the table says, but for the    *)
(* page that is being invalidated; so while the table is mapped to itself  *)
(* every write of paging_map_page reaches it.                              *)
(***************************************************************************)
PagingInv ==
    /\ table \in [Mapped -> [frame : Int, flags : Flags]]
    /\ meant \in [Mapped -> [frame : Int, flags : Flags]]
    /\ DOMAIN tlb = Mapped
    /\ \A v \in Mapped : v # flushing => tlb[v] \in {None, table[v]}
    /\ table[first_page_table].frame = first_page_table => meant = table

LEMMA PagingInitInv == Init => PagingInv
  <1> SUFFICES ASSUME Init PROVE PagingInv
    OBVIOUS
  <1>1. table = [v \in Mapped |-> Entry(v, BootFlags)] /\ meant = table
        /\ tlb = [v \in Mapped |-> None]
    BY DEF Init, PagingInit
  <1>2. \A v \in Mapped : Entry(v, BootFlags) \in [frame : Int, flags : Flags]
    BY PagingAssumption DEF Mapped, Page, Entry
  <1> QED  BY <1>1, <1>2 DEF PagingInv

\* An entry is changed only where the table is the one the processor walks.
LEMMA MapStep ==
    ASSUME PagingInv, NEW v \in Virt, NEW f \in Phys, NEW flags \in Flags,
           paging_map_page(v, f, flags)
    PROVE  PagingInv'
  <1> DEFINE e == Entry(f, flags)
  <1>1. v \in Mapped /\ first_page_table \in Mapped /\ None \notin Mapped
        /\ flushing = None /\ flushing' = v /\ tlb' = tlb
        /\ meant' = [meant EXCEPT ![v] = e]
        /\ table' = IF TableReached THEN [table EXCEPT ![v] = e] ELSE table
    BY PagingAssumption DEF paging_map_page, Mapped
  <1>2. e \in [frame : Int, flags : Flags]
    BY PagingAssumption DEF Entry
  <1>3. Translation(first_page_table) = table[first_page_table]
    BY <1>1 DEF Translation, PagingInv
  <1>4. TableReached <=> table[first_page_table].frame = first_page_table
    BY <1>3 DEF TableReached
  <1> HIDE DEF e
  <1>5. /\ table' \in [Mapped -> [frame : Int, flags : Flags]]
        /\ meant' \in [Mapped -> [frame : Int, flags : Flags]]
    BY <1>1, <1>2 DEF PagingInv
  <1>6. \A u \in Mapped : u # flushing' => tlb'[u] \in {None, table'[u]}
    BY <1>1 DEF PagingInv
  <1>7. table'[first_page_table].frame = first_page_table => meant' = table'
    BY <1>1, <1>4 DEF PagingInv
  <1> QED  BY <1>1, <1>5, <1>6, <1>7 DEF PagingInv

\* What the processor does keeps the translations true.
LEMMA ProcessorStep ==
    ASSUME PagingInv, Processor PROVE PagingInv'
  <1>1. CASE \E v \in Mapped : Fill(v) \/ Evict(v)
    BY <1>1 DEF Fill, Evict, PagingInv
  <1>2. CASE Invlpg
    BY <1>2 DEF Invlpg, PagingInv
  <1> QED  BY <1>1, <1>2 DEF Processor

LEMMA PagingNextInv == PagingInv /\ [Next]_vars => PagingInv'
  <1> SUFFICES ASSUME PagingInv, [Next]_vars PROVE PagingInv'
    OBVIOUS
  <1>1. CASE UNCHANGED pagingVars
    BY <1>1 DEF PagingInv, pagingVars
  <1>2. CASE \E v \in Virt, f \in Phys, flags \in Flags : paging_map_page(v, f, flags)
    BY <1>2, MapStep
  <1>3. CASE Processor
    BY <1>3, ProcessorStep
  <1> QED
    BY <1>1, <1>2, <1>3
       DEF Next, vars, Call, system_init_timer, timer_handler, system_wait, Compare, Hlt,
           system_reboot, ReadStatus, ReadData, WriteReset, ControllerTakes, KeyPressed,
           system_shutdown, Outw, AcpiShutdown

\* Whatever translations the processor kept, after paging_map_page returns every
\* access goes where the calls so far have asked for, up to the call that maps
\* the table's own page elsewhere.
THEOREM RemapsTakeEffect == Spec => []MapTakesEffect
  <1>1. PagingInv => MapTakesEffect
    <2> SUFFICES ASSUME PagingInv, flushing = None,
                        table[first_page_table].frame = first_page_table,
                        NEW v \in Mapped
                 PROVE  Translation(v) = meant[v]
      BY DEF MapTakesEffect
    <2>1. v # flushing
      BY PagingAssumption DEF Mapped
    <2> QED  BY <2>1 DEF PagingInv, Translation
  <1> QED  BY <1>1, PagingInitInv, PagingNextInv, PTL DEF Spec

-----------------------------------------------------------------------------
(***************************************************************************)
(* Waits.  While a regular wait is on, the count has not wrapped since its *)
(* start, and at most one tick has come since the last step of its loop.   *)
(***************************************************************************)
OnTime ==
    /\ wait.target = wait.start + wait.ms
    /\ timer_ticks = wait.start + wait.elapsed
    /\ pc = "compare" => wait.elapsed <= wait.ms + 1 + ticks
    /\ pc = "hlt" => wait.elapsed <= wait.ms - 1 + ticks
    /\ pc = "asleep" => wait.elapsed <= wait.ms

WaitInv ==
    /\ timer_ticks \in Tick
    /\ ticks \in {0, 1}
    /\ ticks = 1 => pc \in {"compare", "hlt"}
    /\ wait \in [ms : Int, start : Tick, target : Int, elapsed : 0 .. TickWord]
    /\ Waiting /\ Regular => OnTime

LEMMA InTick ==
    ASSUME NEW x \in Int
    PROVE  /\ x % TickWord \in Tick
           /\ x \in Tick => x % TickWord = x
  <1>1. TickWord \in Nat /\ TickWord > 0
    BY SystemAssumption
  <1>2. x % TickWord \in Int /\ 0 <= x % TickWord /\ x % TickWord < TickWord
    BY <1>1
  <1>3. ASSUME 0 <= x, x < TickWord PROVE x % TickWord = x
    BY <1>1, <1>3
  <1> QED  BY <1>1, <1>2, <1>3 DEF Tick

LEMMA WaitInitInv == Init => WaitInv
  <1>1. 0 \in Tick /\ 0 \in 0 .. TickWord
    BY SystemAssumption DEF Tick
  <1>2. NoWait \in [ms : Int, start : Tick, target : Int, elapsed : 0 .. TickWord]
    BY <1>1 DEF NoWait
  <1> QED  BY <1>1, <1>2 DEF Init, WaitInv, Waiting

\* A tick while a regular wait is on: the count stays below its wrap.
LEMMA TickStep == ASSUME WaitInv, timer_handler PROVE WaitInv'
  <1>1. TickWord \in Nat /\ TickWord > 0
    BY SystemAssumption
  <1>2. /\ timer_ticks \in Int /\ 0 <= timer_ticks /\ timer_ticks < TickWord
        /\ wait.ms \in Int /\ wait.elapsed \in 0 .. TickWord
        /\ wait.start \in Int /\ 0 <= wait.start
    BY <1>1 DEF WaitInv, Tick
  <1>3. timer_ticks' \in Tick /\ (timer_ticks + 1 \in Tick => timer_ticks' = timer_ticks + 1)
    BY <1>2, InTick DEF timer_handler
  <1>4. /\ ticks' \in {0, 1}
        /\ ticks' = 1 => pc' \in {"compare", "hlt"}
    BY DEF timer_handler
  <1>5. /\ wait' \in [ms : Int, start : Tick, target : Int, elapsed : 0 .. TickWord]
        /\ wait'.ms = wait.ms /\ wait'.start = wait.start /\ wait'.target = wait.target
        /\ Waiting /\ wait.elapsed < TickWord => wait'.elapsed = wait.elapsed + 1
    <2>1. wait \in [ms : Int, start : Tick, target : Int, elapsed : 0 .. TickWord]
      BY DEF WaitInv
    <2>2. CASE Waiting /\ wait.elapsed < TickWord
      <3>1. wait' = [wait EXCEPT !.elapsed = @ + 1] /\ wait.elapsed + 1 \in 0 .. TickWord
        BY <1>1, <1>2, <2>2 DEF timer_handler
      <3> QED  BY <2>1, <2>2, <3>1
    <2>3. CASE ~(Waiting /\ wait.elapsed < TickWord)
      BY <2>1, <2>3 DEF timer_handler
    <2> QED  BY <2>2, <2>3
  <1>6. ASSUME Waiting', Regular' PROVE OnTime'
    <2>1. Waiting /\ Regular /\ OnTime
      BY <1>5, <1>6 DEF WaitInv, Waiting, Regular, timer_handler
    <2>2. wait.elapsed <= wait.ms + 1 /\ ticks = 0
      BY <1>2, <2>1 DEF OnTime, timer_handler, Waiting
    <2>3. wait'.elapsed = wait.elapsed + 1 /\ timer_ticks' = timer_ticks + 1
      BY <1>1, <1>2, <1>3, <1>5, <2>1, <2>2 DEF OnTime, Regular, Tick
    <2>4. /\ pc = "asleep" => pc' = "compare" /\ ticks' = 0
          /\ pc # "asleep" => pc' = pc /\ ticks' = 1
      BY <2>1 DEF timer_handler, Waiting
    <2> QED  BY <1>2, <1>5, <2>1, <2>2, <2>3, <2>4 DEF OnTime, Waiting
  <1> QED  BY <1>3, <1>4, <1>5, <1>6 DEF WaitInv

\* The call of a regular wait: its target does not wrap.
LEMMA CallStep ==
    ASSUME WaitInv, NEW ms \in Ms, system_wait(ms)
    PROVE  WaitInv'
  <1>1. TickWord \in Nat /\ TickWord > 0 /\ ms \in Int
    BY SystemAssumption
  <1>2. timer_ticks \in Int /\ 0 <= timer_ticks /\ timer_ticks < TickWord
    BY <1>1 DEF WaitInv, Tick
  <1>3. /\ Target(ms) \in Int
        /\ timer_ticks + ms \in Tick => Target(ms) = timer_ticks + ms
    BY <1>1, <1>2, InTick DEF Target, Tick
  <1>4. /\ wait' = [ms |-> ms, start |-> timer_ticks, target |-> Target(ms), elapsed |-> 0]
        /\ pc' = "compare" /\ ticks = 0 /\ ticks' = ticks /\ timer_ticks' = timer_ticks
    BY DEF system_wait, WaitInv
  <1>5. wait' \in [ms : Int, start : Tick, target : Int, elapsed : 0 .. TickWord]
    BY <1>1, <1>3, <1>4 DEF WaitInv
  <1>6. Regular' => OnTime'
    BY <1>1, <1>2, <1>3, <1>4 DEF Regular, OnTime, Tick
  <1> QED  BY <1>4, <1>5, <1>6 DEF WaitInv

\* The loop: a wait that is due ends at its next comparison.
LEMMA LoopStep == ASSUME WaitInv, Compare \/ Hlt PROVE WaitInv'
  <1>1. TickWord \in Nat /\ TickWord > 0
    BY SystemAssumption
  <1>2. NoWait \in [ms : Int, start : Tick, target : Int, elapsed : 0 .. TickWord]
    BY <1>1 DEF NoWait, Tick
  <1>3. /\ timer_ticks \in Int /\ wait.ms \in Int /\ wait.elapsed \in Int
        /\ wait.start \in Int
    BY <1>1 DEF WaitInv, Tick
  <1>4. CASE Compare /\ Arrived
    BY <1>2, <1>4 DEF Compare, WaitInv, Waiting
  <1>5. CASE Compare /\ ~Arrived
    <2>1. /\ pc = "compare" /\ pc' = "hlt" /\ ticks' = 0 /\ wait' = wait
          /\ timer_ticks' = timer_ticks
      BY <1>5 DEF Compare
    <2>2. Regular => OnTime /\ timer_ticks < wait.target
      BY <1>3, <1>5, <2>1 DEF WaitInv, Waiting, Arrived, OnTime
    <2>3. Regular' => OnTime'
      BY <1>3, <2>1, <2>2 DEF OnTime, Regular
    <2> QED  BY <2>1, <2>3, <1>5 DEF WaitInv, Compare
  <1>6. CASE Hlt
    <2>1. /\ pc = "hlt" /\ pc' = "asleep" /\ ticks' = 0 /\ wait' = wait
          /\ timer_ticks' = timer_ticks /\ ticks' \in {0, 1}
      BY <1>6 DEF Hlt
    <2>2. Regular' => OnTime'
      BY <1>3, <2>1 DEF WaitInv, Waiting, OnTime, Regular
    <2> QED  BY <2>1, <2>2 DEF WaitInv
  <1> QED  BY <1>4, <1>5, <1>6

\* No other step touches a wait, nor can one begin or end in it.
LEMMA OtherStep ==
    ASSUME WaitInv, UNCHANGED <<wait, ticks>>,
           \/ UNCHANGED <<pc, timer_ticks>>
           \/ ~Waiting /\ ~Waiting' /\ timer_ticks' \in {timer_ticks, 0}
    PROVE  WaitInv'
  <1>1. 0 \in Tick
    BY SystemAssumption DEF Tick
  <1>2. CASE UNCHANGED <<pc, timer_ticks>>
    BY <1>2 DEF WaitInv, Waiting, Regular, OnTime
  <1>3. CASE ~Waiting /\ ~Waiting' /\ timer_ticks' \in {timer_ticks, 0}
    BY <1>1, <1>3 DEF WaitInv, Waiting
  <1> QED  BY <1>2, <1>3

LEMMA WaitNextInv == WaitInv /\ [Next]_vars => WaitInv'
  <1> SUFFICES ASSUME WaitInv, [Next]_vars PROVE WaitInv'
    OBVIOUS
  <1>1. CASE timer_handler
    BY <1>1, TickStep
  <1>2. CASE \E ms \in Ms : system_wait(ms)
    BY <1>2, CallStep
  <1>3. CASE Compare \/ Hlt
    BY <1>3, LoopStep
  <1>4. CASE UNCHANGED <<pc, timer_ticks, wait, ticks>>
    BY <1>4, OtherStep
  <1>5. CASE system_init_timer \/ system_reboot \/ system_shutdown
    BY <1>5, OtherStep DEF system_init_timer, system_reboot, system_shutdown, Waiting
  <1>6. CASE ReadStatus \/ ReadData \/ WriteReset
    BY <1>6, OtherStep DEF ReadStatus, ReadData, WriteReset, AfterStatus, Waiting
  <1>7. CASE Outw \/ AcpiShutdown
    <2>1. /\ pc = "shutdown" /\ pc' \in {"halted", "panic"}
          /\ UNCHANGED <<timer_ticks, wait, ticks>>
      BY <1>7 DEF Outw, AcpiShutdown
    <2> QED  BY <2>1, OtherStep DEF Waiting
  <1> QED
    BY <1>1, <1>2, <1>3, <1>4, <1>5, <1>6, <1>7
       DEF Next, vars, Call, Processor, ControllerTakes, KeyPressed

\* A wait whose end leaves room for two ticks before the count wraps returns
\* after at least the ticks asked for, and is not still on more than two later.
THEOREM WaitsLastAsLongAsAsked == Spec => WaitsAsAsked
  <1>1. ASSUME WaitInv, [Next]_vars, Waiting, Regular
        PROVE  /\ wait'.elapsed <= wait.ms + 2
               /\ pc' = "kernel" => wait.elapsed >= wait.ms
    <2>1. /\ OnTime /\ wait.ms \in Int /\ wait.ms >= 0 /\ wait.elapsed \in Int
          /\ wait.start \in Int /\ ticks \in {0, 1}
      BY <1>1, SystemAssumption DEF WaitInv, Regular, Tick
    <2>2. wait.elapsed <= wait.ms + 2
      BY <1>1, <2>1 DEF OnTime, Waiting
    <2>3. CASE timer_handler
      <3>1. wait.elapsed <= wait.ms + 1
        BY <1>1, <2>1, <2>3 DEF OnTime, Waiting, timer_handler
      <3>2. wait' = wait \/ wait'.elapsed = wait.elapsed + 1
        BY <1>1, <2>3 DEF timer_handler, WaitInv
      <3>3. pc' # "kernel"
        BY <1>1, <2>3 DEF timer_handler, Waiting
      <3> QED  BY <2>1, <3>1, <3>2, <3>3
    <2>4. CASE Compare
      <3>1. CASE Arrived
        BY <1>1, <2>1, <2>4, <3>1 DEF Compare, Arrived, OnTime, NoWait
      <3>2. CASE ~Arrived
        BY <1>1, <2>2, <2>4, <3>2 DEF Compare
      <3> QED  BY <3>1, <3>2
    <2>5. CASE Hlt
      BY <2>2, <2>5 DEF Hlt
    <2>6. CASE UNCHANGED <<pc, wait>>
      BY <1>1, <2>2, <2>6 DEF Waiting
    <2> QED
      BY <1>1, <2>3, <2>4, <2>5, <2>6
         DEF Next, vars, Call, Processor, ControllerTakes, KeyPressed, Waiting,
             system_init_timer, system_wait, system_reboot, system_shutdown, ReadStatus,
             ReadData, WriteReset, Outw, AcpiShutdown
  <1>2. WaitInv /\ [Next]_vars
          => [Waiting /\ Regular =>
                 /\ wait'.elapsed <= wait.ms + 2
                 /\ pc' = "kernel" => wait.elapsed >= wait.ms]_vars
    BY <1>1
  <1> QED  BY <1>2, WaitInitInv, WaitNextInv, PTL DEF Spec, WaitsAsAsked

-----------------------------------------------------------------------------
(***************************************************************************)
(* Printed numbers. The buffer of the digit loop and the reading of digits *)
(* are recursive functions; that there are such functions is shown first,  *)
(* for every length of their domain. Digits read back to the number that   *)
(* they were printed of.                                                   *)
(***************************************************************************)
\* What the proofs by induction use: a least number, and induction over a set.
LEMMA LeastNat ==
    ASSUME NEW S, S \subseteq Nat, S # {}
    PROVE  \E x \in S : \A y \in S : x <= y
  <1>1. \E x \in S : \A y \in S : ~ (<<y, x>> \in OpToRel(<, Nat))
    BY WFMin, NatLessThanWellFounded, Zenon
  <1>2. PICK x \in S : \A y \in S : ~ (<<y, x>> \in OpToRel(<, Nat))
    BY <1>1, Zenon
  <1>3. \A y \in S : ~ (y < x)
    BY <1>2, Zenon DEF OpToRel
  <1> QED  BY <1>3

LEMMA NatInd ==
    ASSUME NEW S, 0 \in S, \A n \in Nat : n \in S => n + 1 \in S
    PROVE  Nat \subseteq S
  <1> SUFFICES ASSUME Nat \ S # {} PROVE FALSE
    OBVIOUS
  <1>1. PICK x \in Nat \ S : \A y \in Nat \ S : x <= y
    BY LeastNat
  <1>2. x - 1 \in Nat /\ x - 1 \notin Nat \ S
    BY <1>1
  <1> QED  BY <1>1, <1>2

\* A number less than the one that is divided, when there is something to divide.
LEMMA QuotientLess ==
    ASSUME NEW n \in Nat, NEW base \in Nat, base >= 2, n > 0
    PROVE  /\ n \div base \in Nat /\ n \div base < n
           /\ n % base \in 0 .. base - 1
           /\ n = (n \div base) * base + (n % base)
  <1> DEFINE q == n \div base
             r == n % base
  <1>1. q \in Int
    OBVIOUS
  <1>2. r \in 0 .. base - 1
    OBVIOUS
  <1>3. n = base * q + r
    OBVIOUS
  <1> SUFFICES q \in Nat /\ q < n /\ r \in 0 .. base - 1 /\ n = q * base + r
    OBVIOUS
  <1> HIDE DEF q, r
  <1>4. q < 0 => base * q <= -base
    <2> SUFFICES ASSUME q < 0 PROVE base * q <= -base
      OBVIOUS
    <2>1. PICK p \in Nat : q = -1 - p
      <3>1. -1 - q \in Nat /\ q = -1 - (-1 - q)
        BY <1>1
      <3> QED  BY <3>1
    <2>2. base * q = -base - base * p /\ base * p >= 0
      BY <2>1
    <2> QED  BY <1>1, <2>2
  <1>5. q >= 0
    BY <1>1, <1>2, <1>3, <1>4
  <1>6. base * q >= 2 * q /\ base * q = q * base
    <2>1. q \in Nat
      BY <1>1, <1>5
    <2> QED  BY <2>1
  <1> QED  BY <1>1, <1>2, <1>3, <1>5, <1>6

\* The digit loop's buffer is a function on the numbers up to any bound.
Fills(buf, N, base) ==
    buf = [n \in 0 .. N |->
              IF n = 0 THEN <<>> ELSE <<n % base>> \o buf[n \div base]]

LEMMA FillsExists ==
    ASSUME NEW base \in Nat, base >= 2
    PROVE  \A N \in Nat : \E buf : Fills(buf, N, base)
  <1> DEFINE S == {N \in Nat : \E buf : Fills(buf, N, base)}
  <1>1. 0 \in S
    <2> DEFINE buf == [n \in 0 .. 0 |-> <<>>]
    <2>1. buf = [n \in 0 .. 0 |->
                    IF n = 0 THEN <<>> ELSE <<n % base>> \o buf[n \div base]]
      <3>1. \A n \in 0 .. 0 :
               <<>> = IF n = 0 THEN <<>> ELSE <<n % base>> \o buf[n \div base]
        <4>1. \A n \in 0 .. 0 : n = 0
          OBVIOUS
        <4> HIDE DEF buf
        <4> QED  BY <4>1, Zenon
      <3> QED  BY <3>1, Zenon
    <2> HIDE DEF buf
    <2> QED  BY <2>1 DEF Fills
  <1>2. ASSUME NEW N \in Nat, N \in S PROVE N + 1 \in S
    <2>1. PICK buf : Fills(buf, N, base)
      BY <1>2
    <2> DEFINE ext == [n \in 0 .. N + 1 |->
                 IF n = 0 THEN <<>> ELSE <<n % base>> \o buf[n \div base]]
    <2>2. \A n \in 0 .. N : ext[n] = buf[n]
      <3> DEFINE d(n) == IF n = 0 THEN <<>> ELSE <<n % base>> \o buf[n \div base]
      <3>1. buf = [n \in 0 .. N |-> d(n)]
        BY <2>1 DEF Fills
      <3>2. ext = [n \in 0 .. N + 1 |-> d(n)]
        OBVIOUS
      <3>3. 0 .. N \subseteq 0 .. N + 1
        OBVIOUS
      <3> HIDE DEF d, ext
      <3> QED  BY <3>1, <3>2, <3>3
    <2>3. \A n \in 0 .. N + 1 : n # 0 => n \div base \in 0 .. N
      BY QuotientLess
    <2>4. DOMAIN ext = 0 .. N + 1
      OBVIOUS
    <2>5. \A n \in 0 .. N + 1 :
             ext[n] = IF n = 0 THEN <<>> ELSE <<n % base>> \o ext[n \div base]
      BY <2>2, <2>3
    <2>6. ext = [n \in 0 .. N + 1 |-> ext[n]]
      OBVIOUS
    <2> HIDE DEF ext
    <2>7. Fills(ext, N + 1, base)
      BY <2>5, <2>6 DEF Fills
    <2> QED  BY <2>7
  <1> HIDE DEF S
  <1>3. Nat \subseteq S
    BY <1>1, <1>2, NatInd
  <1> QED  BY <1>3 DEF S

LEMMA BufferedIs ==
    ASSUME Word \in Nat, Word > 0, NEW base \in Nat, base >= 2
    PROVE  \A n \in UInt32 :
              Buffered(base)[n] = IF n = 0 THEN <<>>
                                  ELSE <<n % base>> \o Buffered(base)[n \div base]
  <1>1. PICK buf : Fills(buf, Word - 1, base)
    <2>1. Word - 1 \in Nat
      OBVIOUS
    <2> QED  BY <2>1, FillsExists
  <1>2. Fills(Buffered(base), Word - 1, base)
    BY <1>1, Zenon DEF Fills, Buffered, UInt32
  <1> QED  BY <1>2, Zenon DEF Fills, UInt32

\* Reading digits is a function on their prefixes.
ReadsTo(upto, N, digits, base) ==
    upto = [k \in 0 .. N |-> IF k = 0 THEN 0 ELSE upto[k - 1] * base + digits[k]]

LEMMA ReadsToExists ==
    ASSUME NEW base, NEW digits
    PROVE  \A N \in Nat : \E upto : ReadsTo(upto, N, digits, base)
  <1> DEFINE S == {N \in Nat : \E upto : ReadsTo(upto, N, digits, base)}
  <1>1. 0 \in S
    <2>1. ReadsTo([k \in 0 .. 0 |-> 0], 0, digits, base)
      BY DEF ReadsTo
    <2> QED  BY <2>1
  <1>2. ASSUME NEW N \in Nat, N \in S PROVE N + 1 \in S
    <2>1. PICK upto : ReadsTo(upto, N, digits, base)
      BY <1>2
    <2> DEFINE ext == [k \in 0 .. N + 1 |->
                 IF k = 0 THEN 0 ELSE upto[k - 1] * base + digits[k]]
    <2>2. \A k \in 0 .. N : ext[k] = upto[k]
      BY <2>1 DEF ReadsTo
    <2>3. \A k \in 0 .. N + 1 : k # 0 => k - 1 \in 0 .. N
      OBVIOUS
    <2>5. \A k \in 0 .. N + 1 :
             ext[k] = IF k = 0 THEN 0 ELSE ext[k - 1] * base + digits[k]
      BY <2>2, <2>3
    <2>6. ext = [k \in 0 .. N + 1 |-> ext[k]]
      OBVIOUS
    <2> HIDE DEF ext
    <2>7. ReadsTo(ext, N + 1, digits, base)
      BY <2>5, <2>6 DEF ReadsTo
    <2> QED  BY <2>7
  <1> HIDE DEF S
  <1>3. Nat \subseteq S
    BY <1>1, <1>2, NatInd
  <1> QED  BY <1>3 DEF S

LEMMA ReadUpToIs ==
    ASSUME NEW base, NEW digits, Len(digits) \in Nat
    PROVE  \A k \in 0 .. Len(digits) :
              ReadUpTo(digits, base)[k] =
                 IF k = 0 THEN 0
                 ELSE ReadUpTo(digits, base)[k - 1] * base + digits[k]
  <1>1. PICK upto : ReadsTo(upto, Len(digits), digits, base)
    BY ReadsToExists
  <1>2. ReadsTo(ReadUpTo(digits, base), Len(digits), digits, base)
    BY <1>1 DEF ReadsTo, ReadUpTo
  <1> QED  BY <1>2 DEF ReadsTo

\* Digits read from the front: one more digit counts for itself, and the
\* others for the base times as much.
LEMMA UnsignedAppend ==
    ASSUME NEW base \in Nat, NEW s \in Seq(Nat), NEW d \in Nat
    PROVE  Unsigned(Append(s, d), base) = Unsigned(s, base) * base + d
  <1> DEFINE t == Append(s, d)
             S == {k \in Nat : k <= Len(s) =>
                      ReadUpTo(t, base)[k] = ReadUpTo(s, base)[k]}
  <1>1. /\ Len(s) \in Nat /\ Len(t) = Len(s) + 1 /\ t[Len(t)] = d
        /\ \A k \in 1 .. Len(s) : t[k] = s[k]
    OBVIOUS
  <1> HIDE DEF t
  <1>2. \A k \in 0 .. Len(s) :
           ReadUpTo(s, base)[k] =
              IF k = 0 THEN 0 ELSE ReadUpTo(s, base)[k - 1] * base + s[k]
    BY <1>1, ReadUpToIs
  <1>3. \A k \in 0 .. Len(t) :
           ReadUpTo(t, base)[k] =
              IF k = 0 THEN 0 ELSE ReadUpTo(t, base)[k - 1] * base + t[k]
    BY <1>1, ReadUpToIs
  <1> DEFINE a(k) == ReadUpTo(s, base)[k]
             b(k) == ReadUpTo(t, base)[k]
  <1>4. \A k \in 0 .. Len(s) : a(k) = IF k = 0 THEN 0 ELSE a(k - 1) * base + s[k]
    BY <1>2
  <1>5. \A k \in 0 .. Len(t) : b(k) = IF k = 0 THEN 0 ELSE b(k - 1) * base + t[k]
    BY <1>3
  <1>6. S = {k \in Nat : k <= Len(s) => b(k) = a(k)}
    OBVIOUS
  <1>7. Unsigned(t, base) = b(Len(t)) /\ Unsigned(s, base) = a(Len(s))
    BY DEF Unsigned
  <1> HIDE DEF a, b, S
  <1>8. 0 \in S
    BY <1>1, <1>4, <1>5, <1>6
  <1>9. ASSUME NEW k \in Nat, k \in S PROVE k + 1 \in S
    <2> SUFFICES ASSUME k + 1 <= Len(s) PROVE b(k + 1) = a(k + 1)
      BY <1>6
    <2>1. b(k) = a(k) /\ t[k + 1] = s[k + 1]
      BY <1>1, <1>6, <1>9
    <2>2. /\ k + 1 \in 0 .. Len(s) /\ k + 1 \in 0 .. Len(t)
          /\ k + 1 # 0 /\ (k + 1) - 1 = k
      BY <1>1
    <2>3. a(k + 1) = a(k) * base + s[k + 1]
      BY <1>4, <2>2, Zenon
    <2>4. b(k + 1) = b(k) * base + t[k + 1]
      BY <1>5, <2>2, Zenon
    <2> QED  BY <2>1, <2>3, <2>4
  <1>10. Len(s) \in S
    BY <1>1, <1>8, <1>9, NatInd
  <1>11. b(Len(s)) = a(Len(s))
    BY <1>1, <1>6, <1>10
  <1>12. /\ Len(t) \in 0 .. Len(t) /\ Len(t) # 0 /\ Len(t) - 1 = Len(s)
    BY <1>1
  <1>13. b(Len(t)) = b(Len(s)) * base + t[Len(t)]
    BY <1>5, <1>12, Zenon
  <1> QED  BY <1>1, <1>7, <1>11, <1>13 DEF t

LEMMA ReverseSeq ==
    ASSUME NEW S, NEW s \in Seq(S)
    PROVE  Reverse(s) \in Seq(S) /\ Len(Reverse(s)) = Len(s)
  <1>1. Len(s) \in Nat /\ s \in [1 .. Len(s) -> S]
    OBVIOUS
  <1>2. Reverse(s) \in [1 .. Len(s) -> S]
    BY <1>1 DEF Reverse
  <1> QED  BY <1>1, <1>2

LEMMA ReverseCons ==
    ASSUME NEW S, NEW s \in Seq(S), NEW d \in S
    PROVE  Reverse(<<d>> \o s) = Append(Reverse(s), d)
  <1>1. Len(s) \in Nat /\ s \in [1 .. Len(s) -> S]
    OBVIOUS
  <1>2. Reverse(s) \in [1 .. Len(s) -> S]
    BY <1>1 DEF Reverse
  <1>3. Reverse(s) \in Seq(S) /\ Len(Reverse(s)) = Len(s)
    BY ReverseSeq
  <1> DEFINE t == <<d>> \o s
  <1>4. /\ Len(t) = Len(s) + 1 /\ t[1] = d
        /\ \A i \in 1 .. Len(s) : t[i + 1] = s[i]
    OBVIOUS
  <1> HIDE DEF t
  <1>5. \A i \in 1 .. Len(s) : Reverse(s)[i] = s[Len(s) - i + 1]
    BY <1>1 DEF Reverse
  <1>6. Reverse(t) = [i \in 1 .. Len(s) + 1 |-> t[(Len(s) + 1 - i) + 1]]
    BY <1>4 DEF Reverse
  <1>7. \A i \in 1 .. Len(s) : Reverse(t)[i] = Reverse(s)[i]
    <2> SUFFICES ASSUME NEW i \in 1 .. Len(s) PROVE Reverse(t)[i] = Reverse(s)[i]
      OBVIOUS
    <2>1. Len(s) - i + 1 \in 1 .. Len(s) /\ (Len(s) + 1 - i) + 1 = (Len(s) - i + 1) + 1
      BY <1>1
    <2> QED  BY <1>1, <1>4, <1>5, <1>6, <2>1
  <1>8. Reverse(t)[Len(s) + 1] = d
    BY <1>1, <1>4, <1>6
  <1>9. Reverse(t) \in Seq(S)
    <2>1. \A i \in 1 .. Len(s) + 1 : Reverse(t)[i] \in S
      BY <1>1, <1>2, <1>7, <1>8
    <2> QED  BY <1>1, <1>6, <2>1
  <1>10. Reverse(t) = Append(Reverse(s), d)
    <2> DEFINE r == Reverse(s)
               u == Reverse(t)
               v == Append(r, d)
    <2>1. /\ v \in Seq(S) /\ Len(v) = Len(s) + 1
          /\ \A i \in 1 .. Len(s) : v[i] = r[i]
          /\ v[Len(s) + 1] = d
      BY <1>3, AppendProperties
    <2>2. /\ u \in Seq(S) /\ Len(u) = Len(s) + 1
          /\ \A i \in 1 .. Len(s) : u[i] = r[i]
          /\ u[Len(s) + 1] = d
      <3>1. Len(u) \in Nat /\ 1 .. Len(u) = 1 .. Len(s) + 1
        BY <1>6, <1>9, LenProperties
      <3>2. Len(u) = Len(s) + 1
        BY <1>1, <3>1
      <3> QED  BY <1>7, <1>8, <1>9, <3>2, Zenon
    <2> HIDE DEF u, v
    <2>3. \A i \in 1 .. Len(u) : u[i] = v[i]
      BY <1>1, <2>1, <2>2
    <2>4. u = v
      BY <2>1, <2>2, <2>3, SeqEqual
    <2> QED  BY <2>4 DEF u, v
  <1> QED  BY <1>10 DEF t

\* The buffer holds digits, and backwards they stand for the number.
Reads(n, base) ==
    LET s == Buffered(base)[n] IN
    /\ s \in Seq(0 .. base - 1)
    /\ n > 0 => s # <<>>
    /\ Unsigned(Reverse(s), base) = n

LEMMA EmptyReads ==
    ASSUME NEW base \in Nat
    PROVE  Reverse(<<>>) = <<>> /\ Unsigned(<<>>, base) = 0
  <1>1. Reverse(<<>>) = <<>>
    BY DEF Reverse
  <1>2. ReadUpTo(<<>>, base)[0] = 0
    BY ReadUpToIs
  <1> QED  BY <1>1, <1>2 DEF Unsigned

LEMMA DigitsRead ==
    ASSUME Word \in Nat, Word > 0, NEW base \in Nat, base >= 2
    PROVE  \A n \in UInt32 : Reads(n, base)
  <1> DEFINE Bad == {n \in UInt32 : ~Reads(n, base)}
             buf == Buffered(base)
  <1> SUFFICES ASSUME Bad # {} PROVE FALSE
    OBVIOUS
  <1>1. Bad \subseteq Nat
    BY DEF UInt32
  <1>2. PICK n \in Bad : \A m \in Bad : n <= m
    BY <1>1, LeastNat
  <1>3. n \in UInt32 /\ n \in Nat /\ ~Reads(n, base)
    BY <1>1, <1>2
  <1>4. buf[n] = IF n = 0 THEN <<>> ELSE <<n % base>> \o buf[n \div base]
    BY <1>3, BufferedIs
  <1>5. n # 0
    <2> SUFFICES ASSUME n = 0 PROVE FALSE
      OBVIOUS
    <2>1. buf[n] = <<>>
      BY <1>4
    <2> HIDE DEF buf
    <2>2. buf[n] \in Seq(0 .. base - 1) /\ Unsigned(Reverse(buf[n]), base) = 0
      BY <2>1, EmptyReads
    <2> QED  BY <1>3, <2>2 DEF Reads, buf
  <1> DEFINE q == n \div base
             r == n % base
             s == buf[q]
  <1>6. q \in Nat /\ q < n /\ r \in 0 .. base - 1 /\ n = q * base + r
    BY <1>3, <1>5, QuotientLess
  <1>7. buf[n] = <<r>> \o s
    BY <1>4, <1>5
  <1> HIDE DEF q, r
  <1>8. Reads(q, base)
    <2>1. q \in UInt32 /\ ~ (n <= q)
      BY <1>3, <1>6 DEF UInt32
    <2> QED  BY <1>2, <2>1
  <1>9. s \in Seq(0 .. base - 1) /\ Unsigned(Reverse(s), base) = q
    BY <1>8 DEF Reads
  <1> HIDE DEF s
  <1>10. /\ Reverse(s) \in Seq(0 .. base - 1)
         /\ Reverse(<<r>> \o s) = Append(Reverse(s), r)
    BY <1>6, <1>9, ReverseSeq, ReverseCons
  <1>11. Unsigned(Append(Reverse(s), r), base) = q * base + r
    <2>1. Reverse(s) \in Seq(Nat) /\ r \in Nat
      BY <1>6, <1>10
    <2> QED  BY <1>9, <2>1, UnsignedAppend
  <1>12. <<r>> \o s \in Seq(0 .. base - 1) /\ <<r>> \o s # <<>>
    BY <1>6, <1>9
  <1> QED  BY <1>3, <1>6, <1>7, <1>10, <1>11, <1>12 DEF Reads

\* Digits are not taken for a sign.
LEMMA UnsignedReadBack ==
    ASSUME Word \in Nat, Word > 0, NEW base \in Nat, base >= 2, NEW n \in UInt32
    PROVE  /\ Value(kprint_unsigned(n, base), base) = n
           /\ Unsigned(kprint_unsigned(n, base), base) = n
           /\ kprint_unsigned(n, base) \in Seq(Nat)
  <1> DEFINE p == kprint_unsigned(n, base)
  <1>1. p \in Seq(0 .. base - 1) /\ p # <<>> /\ Unsigned(p, base) = n
    <2>1. CASE n = 0
      <3>1. p = <<0>>
        BY <2>1 DEF kprint_unsigned
      <3>2. p = Append(<<>>, 0) /\ p \in Seq(0 .. base - 1) /\ p # <<>>
        BY <3>1
      <3>3. <<>> \in Seq(Nat) /\ 0 \in Nat
        OBVIOUS
      <3>4. Unsigned(Append(<<>>, 0), base) = Unsigned(<<>>, base) * base + 0
        BY <3>3, UnsignedAppend, Zenon
      <3>5. Unsigned(<<>>, base) = 0
        BY EmptyReads
      <3>6. Unsigned(Append(<<>>, 0), base) = 0
        BY <3>4, <3>5
      <3> HIDE DEF p
      <3> QED  BY <2>1, <3>2, <3>6
    <2>2. CASE n # 0
      <3> DEFINE s == Buffered(base)[n]
      <3>1. p = Reverse(s)
        BY <2>2 DEF kprint_unsigned
      <3>2. n > 0
        BY <2>2 DEF UInt32
      <3>3. s \in Seq(0 .. base - 1) /\ s # <<>> /\ Unsigned(Reverse(s), base) = n
        BY <3>2, DigitsRead DEF Reads
      <3> HIDE DEF s
      <3>4. /\ Reverse(s) \in Seq(0 .. base - 1) /\ Len(Reverse(s)) = Len(s)
        BY <3>3, ReverseSeq, Zenon
      <3>5. Len(s) # 0
        BY <3>3
      <3> QED  BY <3>1, <3>3, <3>4, <3>5
    <2> QED  BY <2>1, <2>2
  <1> HIDE DEF p
  <1>2. Head(p) \in 0 .. base - 1
    BY <1>1
  <1>3. Head(p) # Minus
    BY <1>2 DEF Minus
  <1>4. p \in Seq(Nat)
    BY <1>1
  <1> QED  BY <1>1, <1>3, <1>4 DEF Value, p

\* What kprintf shows of a number, read in the base it is printed in, is the
\* number: of an int with its sign, and of a word in any base.
THEOREM PrintedNumbersReadBack ==
    ASSUME Word \in Nat, Word > 1, NEW w \in UInt32
    PROVE  /\ Value(kprint_num(Signed(w)), 10) = Signed(w)
           /\ \A base \in Nat : base >= 2 => Value(kprint_unsigned(w, base), base) = w
  <1>1. \A base \in Nat : base >= 2 => Value(kprint_unsigned(w, base), base) = w
    BY UnsignedReadBack
  <1>2. CASE w < Word \div 2
    <2>1. Signed(w) = w /\ ~ (w < 0)
      BY <1>2 DEF Signed, UInt32
    <2>2. kprint_num(Signed(w)) = kprint_unsigned(w, 10)
      BY <2>1 DEF kprint_num
    <2> QED  BY <1>1, <2>1, <2>2
  <1>3. CASE ~ (w < Word \div 2)
    <2> DEFINE v == Word - w
    <2>1. Signed(w) = -v /\ -v < 0 /\ v \in UInt32 /\ -(-v) = v
      BY <1>3 DEF Signed, UInt32
    <2> HIDE DEF v
    <2> DEFINE s == kprint_unsigned(v, 10)
    <2>2. kprint_num(Signed(w)) = <<Minus>> \o s
      BY <2>1 DEF kprint_num
    <2>3. Unsigned(s, 10) = v /\ s \in Seq(Nat)
      BY <2>1, UnsignedReadBack
    <2> HIDE DEF s
    <2>4. Head(<<Minus>> \o s) = Minus /\ Tail(<<Minus>> \o s) = s
      <3>1. <<Minus>> \o s \in Seq(Int)
        BY <2>3 DEF Minus
      <3> QED  BY <2>3, <3>1 DEF Minus
    <2> QED  BY <1>1, <2>1, <2>2, <2>3, <2>4 DEF Value
  <1> QED  BY <1>2, <1>3

-----------------------------------------------------------------------------
(***************************************************************************)
(* The scan. It has gone past the functions before the place where it is;  *)
(* a slot's functions other than 0 are looked at when its header says that *)
(* there are some, and only then.                                          *)
(***************************************************************************)
\* What the scan has gone past.
Passed(f) ==
    \/ f[1] < bus
    \/ f[1] = bus /\ f[2] < slot
    \/ f[1] = bus /\ f[2] = slot /\ phase = "function" /\ f[3] < func

\* The functions that the log has to tell of by now.
Found == {f \in Reachable : Passed(f)}

\* Where it is, and that it knows of more functions what the header says.
ScanInv ==
    /\ space \in Space
    /\ bus \in 0 .. MAX_PCI_BUS /\ slot \in 0 .. MAX_PCI_SLOT - 1
    /\ func \in 0 .. Functions - 1
    /\ multi \in BOOLEAN /\ phase \in {"slot", "function", "done"}
    /\ phase = "done" <=> bus = MAX_PCI_BUS
    /\ phase = "function" =>
          /\ multi = pci_read_config(<<bus, slot, 0>>).multi
          /\ func > 0 => multi

LEMMA PciConstants ==
    /\ Word \in Nat /\ Word > 1 /\ Word \div 2 \in Nat /\ Word \div 2 < Word
    /\ MAX_PCI_BUS \in 1 .. Word \div 2 /\ MAX_PCI_SLOT \in 1 .. Word \div 2
    /\ Functions \in 1 .. Word \div 2
    /\ BusWord \in Nat /\ MAX_PCI_BUS < BusWord
  <1>1. Word \in Nat /\ MAX_PCI_BUS < BusWord
    BY PciAssumption
  <1>2. /\ MAX_PCI_BUS \in 1 .. Word \div 2 /\ MAX_PCI_SLOT \in 1 .. Word \div 2
        /\ Functions \in 1 .. Word \div 2 /\ BusWord \in 1 .. Word \div 2
    BY PciAssumption, Zenon
  <1> DEFINE h == Word \div 2
  <1>3. h \in Nat /\ Word >= 2 * h
    BY <1>1
  <1> HIDE DEF h
  <1>4. h >= 1 /\ BusWord \in Nat
    BY <1>2, <1>3 DEF h
  <1>5. Word > 1 /\ h < Word
    BY <1>1, <1>3, <1>4
  <1> QED  BY <1>1, <1>2, <1>3, <1>4, <1>5 DEF h

\* A function has a bus, a slot and a number.
LEMMA PlaceTypes ==
    ASSUME space \in Space, NEW f \in DOMAIN space
    PROVE  /\ f[1] \in 0 .. MAX_PCI_BUS - 1 /\ f[2] \in 0 .. MAX_PCI_SLOT - 1
           /\ f[3] \in 0 .. Functions - 1
           /\ f = <<f[1], f[2], f[3]>>
  <1>1. f \in (0 .. MAX_PCI_BUS - 1) \X (0 .. MAX_PCI_SLOT - 1) \X (0 .. Functions - 1)
    BY PciAssumption, Zenon
  <1> QED  BY <1>1

LEMMA RegisterTypes ==
    ASSUME space \in Space, NEW f \in DOMAIN space
    PROVE  /\ space[f].vendor \in UInt32 /\ space[f].device \in UInt32
           /\ space[f].bar0 \in UInt32 /\ space[f].bar1 \in UInt32
           /\ space[f].bar4 \in UInt32
           /\ space[f].vendor # PCI_VENDOR_NONE
           /\ space[f].multi \in BOOLEAN
           /\ pci_read_config(f) = space[f] /\ pci_device_exists(f)
  <1>1. /\ {space[f].vendor, space[f].device, space[f].bar0, space[f].bar1,
            space[f].bar4} \subseteq UInt32
        /\ space[f].vendor # PCI_VENDOR_NONE
        /\ space[f].multi \in BOOLEAN
    BY PciAssumption, Zenon
  <1> QED  BY <1>1, Zenon DEF pci_read_config, pci_device_exists

LEMMA NoneThere ==
    ASSUME NEW f, f \notin DOMAIN space
    PROVE  ~pci_device_exists(f) /\ pci_read_config(f).multi = TRUE
  <1>1. pci_read_config(f) = AllOnes
    BY DEF pci_read_config
  <1>2. AllOnes.vendor = PCI_VENDOR_NONE /\ AllOnes.multi = TRUE
    BY DEF AllOnes
  <1> QED  BY <1>1, <1>2, Zenon DEF pci_device_exists

\* A function with another number than 0 can be reached when the header of
\* its slot's function 0, there or not, says that there are more.
LEMMA ReachableIs ==
    ASSUME space \in Space, NEW f \in DOMAIN space
    PROVE  f \in Reachable <=>
              (f[3] > 0 => pci_read_config(<<f[1], f[2], 0>>).multi)
  <1> DEFINE head == <<f[1], f[2], 0>>
  <1>1. CASE head \in DOMAIN space
    BY <1>1, RegisterTypes DEF Reachable
  <1>2. CASE head \notin DOMAIN space
    <2>1. pci_read_config(head).multi = TRUE
      BY <1>2, NoneThere
    <2> QED  BY <1>2, <2>1 DEF Reachable
  <1> QED  BY <1>1, <1>2

LEMMA ScanInit == PciInit => ScanInv
  <1> SUFFICES ASSUME PciInit PROVE ScanInv
    OBVIOUS
  <1>1. /\ space \in Space /\ bus = 0 /\ slot = 0 /\ func = 0
        /\ multi = FALSE /\ phase = "slot"
    BY DEF PciInit
  <1>2. /\ 0 \in 0 .. MAX_PCI_BUS /\ 0 \in 0 .. MAX_PCI_SLOT - 1
        /\ 0 \in 0 .. Functions - 1 /\ MAX_PCI_BUS # 0
    BY PciConstants
  <1> QED  BY <1>1, <1>2 DEF ScanInv

LEMMA ScanSlotStep ==
    ASSUME ScanInv, ScanSlot
    PROVE  ScanInv' /\ Found' = Found
  <1>1. /\ phase = "slot" /\ phase' = "function" /\ func' = 0
        /\ space' = space /\ bus' = bus /\ slot' = slot
        /\ multi' = pci_read_config(<<bus, slot, 0>>).multi
    BY DEF ScanSlot
  <1>2. pci_read_config(<<bus, slot, 0>>).multi \in BOOLEAN
    BY RegisterTypes, NoneThere DEF ScanInv
  <1>3. pci_read_config(<<bus, slot, 0>>)' = pci_read_config(<<bus, slot, 0>>)
    BY <1>1 DEF pci_read_config, AllOnes
  <1>4. 0 \in 0 .. Functions - 1
    BY PciConstants
  <1>5. ScanInv'
    BY <1>1, <1>2, <1>3, <1>4 DEF ScanInv
  <1>6. Reachable' = Reachable
    BY <1>1 DEF Reachable
  <1>7. \A f \in Reachable : Passed(f)' <=> Passed(f)
    <2> TAKE f \in Reachable
    <2>1. f[3] \in Nat
      BY PlaceTypes, PciConstants DEF ScanInv, Reachable
    <2> QED  BY <1>1, <2>1 DEF Passed
  <1> QED  BY <1>5, <1>6, <1>7 DEF Found

\* A round takes the scan past the function that it looks at, and past none
\* that can be reached but this one.
LEMMA ScanFunctionStep ==
    ASSUME ScanInv, ScanFunction
    PROVE  /\ ScanInv'
           /\ Found' = Found \cup ({<<bus, slot, func>>} \cap DOMAIN space)
           /\ <<bus, slot, func>> \notin Found
  <1> DEFINE at == <<bus, slot, func>>
             head == pci_read_config(<<bus, slot, 0>>)
  <1>1. /\ phase = "function" /\ space' = space /\ multi' = multi
        /\ multi = head.multi /\ (func > 0 => multi) /\ space \in Space
    BY DEF ScanFunction, ScanInv
  <1>2. /\ bus \in 0 .. MAX_PCI_BUS - 1 /\ slot \in 0 .. MAX_PCI_SLOT - 1
        /\ func \in 0 .. Functions - 1
    BY <1>1, PciConstants DEF ScanInv
  <1>3. \/ /\ multi /\ func + 1 < Functions
           /\ func' = func + 1 /\ bus' = bus /\ slot' = slot /\ phase' = "function"
        \/ /\ ~ (multi /\ func + 1 < Functions) /\ slot + 1 < MAX_PCI_SLOT
           /\ slot' = slot + 1 /\ phase' = "slot" /\ bus' = bus /\ func' = func
        \/ /\ ~ (multi /\ func + 1 < Functions) /\ ~ (slot + 1 < MAX_PCI_SLOT)
           /\ slot' = 0 /\ bus' = bus + 1 /\ func' = func
           /\ phase' = IF bus + 1 < MAX_PCI_BUS THEN "slot" ELSE "done"
    <2>1. NextBus = bus + 1
      BY <1>2, PciConstants DEF NextBus
    <2> QED  BY <2>1 DEF ScanFunction, MoreFunctions
  <1>4. bus' = bus /\ slot' = slot => head' = head
    BY <1>1 DEF pci_read_config, AllOnes
  <1>5. ScanInv'
    <2>1. /\ bus' \in 0 .. MAX_PCI_BUS /\ slot' \in 0 .. MAX_PCI_SLOT - 1
          /\ func' \in 0 .. Functions - 1
          /\ phase' \in {"slot", "function", "done"}
          /\ phase' = "done" <=> bus' = MAX_PCI_BUS
      BY <1>2, <1>3, PciConstants
    <2>2. space' \in Space /\ multi' \in BOOLEAN
      BY <1>1 DEF ScanInv
    <2>3. phase' = "function" => multi' = head'.multi /\ (func' > 0 => multi')
      BY <1>1, <1>3, <1>4
    <2> HIDE DEF at, head
    <2> QED  BY <2>1, <2>2, <2>3 DEF ScanInv, head
  <1>6. Reachable' = Reachable
    BY <1>1 DEF Reachable
  <1>7. \A f \in Reachable : f = at <=> (f[1] = bus /\ f[2] = slot /\ f[3] = func)
    <2> TAKE f \in Reachable
    <2>1. f \in DOMAIN space
      BY DEF Reachable
    <2>2. f = <<f[1], f[2], f[3]>>
      BY <1>1, <2>1, PlaceTypes
    <2> QED  BY <2>2
  <1>8. \A f \in Reachable : Passed(f)' <=> (Passed(f) \/ f = at)
    <2> TAKE f \in Reachable
    <2>1. f \in DOMAIN space
      BY DEF Reachable
    <2>2. /\ f[1] \in 0 .. MAX_PCI_BUS - 1 /\ f[2] \in 0 .. MAX_PCI_SLOT - 1
          /\ f[3] \in 0 .. Functions - 1
      BY <1>1, <2>1, PlaceTypes
    <2>3. f[1] = bus /\ f[2] = slot /\ f[3] > 0 => multi
      BY <1>1, <2>1, ReachableIs
    <2>4. f = at <=> (f[1] = bus /\ f[2] = slot /\ f[3] = func)
      BY <1>7
    <2> DEFINE x == f[1]
               y == f[2]
               z == f[3]
               same == f = at
    <2>5. Passed(f) <=> x < bus \/ (x = bus /\ y < slot) \/ (x = bus /\ y = slot /\ z < func)
      BY <1>1 DEF Passed
    <2>6. Passed(f)' <=> x < bus' \/ (x = bus' /\ y < slot')
                           \/ (x = bus' /\ y = slot' /\ phase' = "function" /\ z < func')
      BY DEF Passed
    <2> HIDE DEF at, head, x, y, z, same
    <2>7. /\ x \in 0 .. MAX_PCI_BUS - 1 /\ y \in 0 .. MAX_PCI_SLOT - 1
          /\ z \in 0 .. Functions - 1
          /\ x = bus /\ y = slot /\ z > 0 => multi
          /\ same <=> (x = bus /\ y = slot /\ z = func)
      BY <2>2, <2>3, <2>4 DEF x, y, z, same
    <2>8. Passed(f)' <=> Passed(f) \/ same
      BY <1>1, <1>2, <1>3, <2>5, <2>6, <2>7, PciConstants
    <2> QED  BY <2>8 DEF same
  <1>9. at \in DOMAIN space => at \in Reachable
    <2> SUFFICES ASSUME at \in DOMAIN space PROVE at \in Reachable
      OBVIOUS
    <2>1. at \in Reachable <=> (at[3] > 0 => pci_read_config(<<at[1], at[2], 0>>).multi)
      BY <1>1, ReachableIs
    <2> QED  BY <1>1, <2>1
  <1>10. Reachable \subseteq DOMAIN space
    BY DEF Reachable
  <1>11. Found' = Found \cup ({at} \cap DOMAIN space)
    <2> HIDE DEF at
    <2> QED  BY <1>6, <1>8, <1>9, <1>10 DEF Found
  <1>12. ~Passed(at)
    BY <1>2 DEF Passed
  <1> QED  BY <1>5, <1>11, <1>12 DEF Found

-----------------------------------------------------------------------------
(***************************************************************************)
(* The log. Lines of one kind show one fact each, and none twice. What is  *)
(* printed is put together of three logs: the line of a function, those of *)
(* a controller and those of a card.                                       *)
(***************************************************************************)
\* A sequence of whatever lies in it.
Plain(l) == l \in Seq({l[k] : k \in DOMAIN l})

\* Where the lines of two sequences are in one made of both.
Joined(lm, l, m) ==
    /\ Len(l) \in Nat /\ Len(m) \in Nat
    /\ DOMAIN l = 1 .. Len(l) /\ DOMAIN m = 1 .. Len(m)
    /\ DOMAIN lm = 1 .. Len(l) + Len(m)
    /\ \A k \in DOMAIN l : lm[k] = l[k]
    /\ \A k \in DOMAIN m : lm[Len(l) + k] = m[k]

LEMMA PlainConcat ==
    ASSUME NEW l, Plain(l), NEW m, Plain(m)
    PROVE  Plain(l \o m) /\ Joined(l \o m, l, m)
  <1> DEFINE L == {l[k] : k \in DOMAIN l}
             M == {m[k] : k \in DOMAIN m}
             U == L \cup M
             lm == l \o m
  <1>1. l \in Seq(L) /\ m \in Seq(M)
    BY DEF Plain
  <1>2. /\ DOMAIN l = 1 .. Len(l) /\ DOMAIN m = 1 .. Len(m)
        /\ Len(l) \in Nat /\ Len(m) \in Nat
    BY <1>1, LenProperties
  <1>3. \A k \in DOMAIN l : l[k] \in U
    OBVIOUS
  <1>4. \A k \in DOMAIN m : m[k] \in U
    OBVIOUS
  <1> HIDE DEF L, M, U
  <1>5. l \in Seq(U) /\ m \in Seq(U)
    BY <1>1, <1>2, <1>3, <1>4
  <1>6. /\ lm \in Seq(U) /\ Len(lm) = Len(l) + Len(m)
        /\ \A k \in 1 .. Len(l) + Len(m) :
              lm[k] = IF k <= Len(l) THEN l[k] ELSE m[k - Len(l)]
    BY <1>5, ConcatProperties
  <1>7. DOMAIN lm = 1 .. Len(l) + Len(m)
    BY <1>6, LenProperties
  <1> HIDE DEF lm
  <1>8. \A k \in DOMAIN l : lm[k] = l[k]
    BY <1>2, <1>6
  <1>9. \A k \in DOMAIN m : lm[Len(l) + k] = m[k]
    BY <1>2, <1>6
  <1>10. Plain(lm)
    <2> DEFINE E == {lm[k] : k \in DOMAIN lm}
    <2>1. \A k \in DOMAIN lm : lm[k] \in E
      OBVIOUS
    <2> HIDE DEF E
    <2>2. lm \in Seq(E)
      BY <1>2, <1>6, <1>7, <2>1
    <2> QED  BY <2>2 DEF Plain, E
  <1> QED  BY <1>2, <1>7, <1>8, <1>9, <1>10 DEF Joined, lm

\* What two logs show of the lines of one kind, when no fact is in both.
LEMMA ShownConcat ==
    ASSUME NEW l, Plain(l), NEW m, Plain(m), NEW text, NEW bases, NEW A, NEW B,
           Shown(l, text, bases, A), Shown(m, text, bases, B), A \cap B = {}
    PROVE  Shown(l \o m, text, bases, A \cup B)
  <1> DEFINE lm == l \o m
             n == Len(l)
             read(line) == Read(line, bases)
  <1>1. /\ n \in Nat /\ Len(m) \in Nat
        /\ DOMAIN l = 1 .. n /\ DOMAIN m = 1 .. Len(m)
        /\ DOMAIN lm = 1 .. n + Len(m)
        /\ \A k \in DOMAIN l : lm[k] = l[k]
        /\ \A k \in DOMAIN m : lm[n + k] = m[k]
    <2>1. Joined(lm, l, m)
      BY PlainConcat, Zenon
    <2> HIDE DEF lm
    <2> QED  BY <2>1, Zenon DEF Joined
  <1> DEFINE P == Lines(l, text)
             Q == Lines(m, text)
             R == Lines(lm, text)
  <1>2. P \subseteq DOMAIN l /\ Q \subseteq DOMAIN m
    BY DEF Lines
  <1>3. R = P \cup {n + k : k \in Q}
    <2> HIDE DEF lm, n
    <2>1. \A k \in P : k \in R
      BY <1>1 DEF Lines
    <2>2. \A k \in Q : n + k \in R
      BY <1>1 DEF Lines
    <2>3. \A k \in R : k \in P \/ \E i \in Q : k = n + i
      <3> TAKE k \in R
      <3>1. k \in 1 .. n + Len(m) /\ lm[k].text = text
        BY <1>1 DEF Lines
      <3>2. CASE k <= n
        BY <1>1, <3>1, <3>2 DEF Lines
      <3>3. CASE k > n
        <4>1. k - n \in DOMAIN m /\ k = n + (k - n)
          BY <1>1, <3>1, <3>3
        <4>2. lm[k] = m[k - n]
          BY <1>1, <4>1
        <4>3. k - n \in Q
          BY <3>1, <4>1, <4>2 DEF Lines
        <4> QED  BY <4>1, <4>3
      <3> QED  BY <1>1, <3>1, <3>2, <3>3
    <2> HIDE DEF P, Q, R
    <2> QED  BY <2>1, <2>2, <2>3
  <1>4. /\ \A j, k \in P : read(l[j]) = read(l[k]) => j = k
        /\ {read(l[k]) : k \in P} = A
        /\ \A j, k \in Q : read(m[j]) = read(m[k]) => j = k
        /\ {read(m[k]) : k \in Q} = B
    BY DEF Shown
  <1> HIDE DEF P, Q, R, lm, n, read
  <1>5. \A k \in P : read(lm[k]) = read(l[k]) /\ read(lm[k]) \in A
    BY <1>1, <1>2, <1>4
  <1>6. \A k \in Q : read(lm[n + k]) = read(m[k]) /\ read(lm[n + k]) \in B
    BY <1>1, <1>2, <1>4
  <1>7. \A j, k \in R : read(lm[j]) = read(lm[k]) => j = k
    <2> SUFFICES ASSUME NEW j \in R, NEW k \in R, read(lm[j]) = read(lm[k])
                 PROVE  j = k
      OBVIOUS
    <2>1. CASE j \in P /\ k \in P
      BY <1>4, <1>5, <2>1, Zenon
    <2>2. CASE j \notin P /\ k \notin P
      <3>1. PICK a \in Q : j = n + a
        BY <1>3, <2>2, Zenon
      <3>2. PICK b \in Q : k = n + b
        BY <1>3, <2>2, Zenon
      <3>3. read(m[a]) = read(m[b])
        BY <1>6, <3>1, <3>2, Zenon
      <3>4. a = b
        BY <1>4, <3>3, Zenon
      <3> QED  BY <3>1, <3>2, <3>4, Zenon
    <2>3. CASE j \in P /\ k \notin P
      <3>1. PICK b \in Q : k = n + b
        BY <1>3, <2>3, Zenon
      <3> QED  BY <1>5, <1>6, <2>3, <3>1
    <2>4. CASE j \notin P /\ k \in P
      <3>1. PICK a \in Q : j = n + a
        BY <1>3, <2>4, Zenon
      <3> QED  BY <1>5, <1>6, <2>4, <3>1
    <2> QED  BY <2>1, <2>2, <2>3, <2>4, Zenon
  <1>8. {read(lm[k]) : k \in R} = A \cup B
    <2>1. \A k \in R : read(lm[k]) \in A \cup B
      BY <1>3, <1>5, <1>6
    <2>2. \A x \in A : \E k \in R : read(lm[k]) = x
      BY <1>3, <1>4, <1>5
    <2>3. \A x \in B : \E k \in R : read(lm[k]) = x
      <3> TAKE x \in B
      <3>1. PICK k \in Q : read(m[k]) = x
        BY <1>4
      <3> QED  BY <1>3, <1>6, <3>1
    <2> QED  BY <2>1, <2>2, <2>3
  <1> QED  BY <1>7, <1>8 DEF Shown, R, read, lm

LEMMA ShownNone ==
    ASSUME NEW m, NEW text, NEW bases, \A k \in DOMAIN m : m[k].text # text
    PROVE  Shown(m, text, bases, {})
  <1>1. Lines(m, text) = {}
    BY DEF Lines
  <1> QED  BY <1>1 DEF Shown

LEMMA ShownOne ==
    ASSUME NEW m, NEW text, NEW bases, NEW i \in DOMAIN m, m[i].text = text,
           \A k \in DOMAIN m : k # i => m[k].text # text
    PROVE  Shown(m, text, bases, {Read(m[i], bases)})
  <1>1. Lines(m, text) = {i}
    BY DEF Lines
  <1> QED  BY <1>1 DEF Shown

\* A line that is in a log is in every longer one.
LEMMA StillThere ==
    ASSUME NEW l, Plain(l), NEW m, Plain(m), NEW text, NEW bases, NEW n,
           Has(l, text, bases, n)
    PROVE  Has(l \o m, text, bases, n)
  <1> DEFINE lm == l \o m
  <1>1. PICK k \in Lines(l, text) : Read(l[k], bases) = n
    BY DEF Has
  <1>2. k \in DOMAIN l /\ l[k].text = text
    BY DEF Lines
  <1>3. lm[k] = l[k] /\ k \in DOMAIN lm
    <2>1. Joined(lm, l, m)
      BY PlainConcat, Zenon
    <2> HIDE DEF lm
    <2> QED  BY <1>2, <2>1 DEF Joined
  <1> HIDE DEF lm
  <1>4. k \in Lines(lm, text)
    BY <1>2, <1>3 DEF Lines
  <1>5. Read(lm[k], bases) = n
    BY <1>1, <1>3
  <1>6. Has(lm, text, bases, n)
    BY <1>4, <1>5 DEF Has
  <1> QED  BY <1>6, Zenon DEF lm

LEMMA NowThere ==
    ASSUME NEW l, Plain(l), NEW m, Plain(m), NEW text, NEW bases, NEW n,
           Has(m, text, bases, n)
    PROVE  Has(l \o m, text, bases, n)
  <1> DEFINE lm == l \o m
             j == Len(l)
  <1>0. Joined(lm, l, m)
    BY PlainConcat, Zenon
  <1>1. PICK k \in Lines(m, text) : Read(m[k], bases) = n
    BY DEF Has
  <1>2. k \in DOMAIN m /\ m[k].text = text
    BY DEF Lines
  <1>3. lm[j + k] = m[k] /\ j + k \in DOMAIN lm
    <2> HIDE DEF lm
    <2> QED  BY <1>0, <1>2 DEF Joined, j
  <1> HIDE DEF lm, j
  <1>4. j + k \in Lines(lm, text)
    BY <1>2, <1>3 DEF Lines
  <1>5. Read(lm[j + k], bases) = n
    BY <1>1, <1>3
  <1>6. Has(lm, text, bases, n)
    BY <1>4, <1>5 DEF Has
  <1> QED  BY <1>6, Zenon DEF lm

\* So what a log shows of a card it goes on showing.
LEMMA StillShown ==
    ASSUME NEW l, Plain(l), NEW m, Plain(m), NEW f, ShowsRegisters(l, f)
    PROVE  ShowsRegisters(l \o m, f)
  BY StillThere, Zenon DEF ShowsRegisters

LEMMA NowShown ==
    ASSUME NEW l, Plain(l), NEW m, Plain(m), NEW f, ShowsRegisters(m, f)
    PROVE  ShowsRegisters(l \o m, f)
  BY NowThere, Zenon DEF ShowsRegisters

LEMMA IntShown ==
    ASSUME NEW w \in Nat, w < Word \div 2
    PROVE  Value(Directive("%d", w), 10) = w
  <1>1. w \in UInt32 /\ Word \in Nat /\ Word > 1
    BY PciConstants DEF UInt32
  <1>2. Directive("%d", w) = kprint_num(Signed(w))
    BY DEF Directive
  <1>3. Signed(w) = w
    BY DEF Signed
  <1>4. Value(kprint_num(Signed(w)), 10) = Signed(w)
    BY <1>1, PrintedNumbersReadBack
  <1> QED  BY <1>2, <1>3, <1>4

LEMMA HexShown ==
    ASSUME NEW w \in UInt32
    PROVE  /\ Value(Directive("%x", w), 16) = w
           /\ Value(Directive("%lx", w), 16) = w
  <1>1. Word \in Nat /\ Word > 1
    BY PciConstants
  <1>2. /\ Directive("%x", w) = kprint_unsigned(w, 16)
        /\ Directive("%lx", w) = kprint_unsigned(w, 16)
    BY DEF Directive
  <1>3. Value(kprint_unsigned(w, 16), 16) = w
    BY <1>1, PrintedNumbersReadBack
  <1> QED  BY <1>2, <1>3

\* A place is printed as ints.
LEMMA PlaceShown ==
    ASSUME space \in Space, NEW f \in DOMAIN space
    PROVE  \A i \in 1 .. 3 : Value(Directive("%d", f[i]), 10) = f[i]
  <1>1. /\ f[1] \in Nat /\ f[1] < Word \div 2
        /\ f[2] \in Nat /\ f[2] < Word \div 2
        /\ f[3] \in Nat /\ f[3] < Word \div 2
    <2> DEFINE h == Word \div 2
    <2>1. /\ h \in Nat /\ MAX_PCI_BUS \in 1 .. h /\ MAX_PCI_SLOT \in 1 .. h
          /\ Functions \in 1 .. h
      BY PciConstants
    <2>2. /\ f[1] \in 0 .. MAX_PCI_BUS - 1 /\ f[2] \in 0 .. MAX_PCI_SLOT - 1
          /\ f[3] \in 0 .. Functions - 1
      BY PlaceTypes
    <2> HIDE DEF h
    <2>3. /\ f[1] \in Nat /\ f[1] < h
          /\ f[2] \in Nat /\ f[2] < h
          /\ f[3] \in Nat /\ f[3] < h
      BY <2>1, <2>2
    <2> QED  BY <2>3 DEF h
  <1> QED  BY <1>1, IntShown

LEMMA JoinFive ==
    ASSUME NEW a, NEW b, NEW c, NEW v, NEW d
    PROVE  <<a, b, c>> \o <<v, d>> = <<a, b, c, v, d>>
  <1> DEFINE S == {a, b, c, v, d}
             s == <<a, b, c>>
             t == <<v, d>>
             u == <<a, b, c, v, d>>
  <1>1. s \in Seq(S) /\ t \in Seq(S) /\ u \in Seq(S)
    OBVIOUS
  <1>2. Len(s) = 3 /\ Len(t) = 2 /\ Len(u) = 5
    OBVIOUS
  <1>3. /\ s[1] = a /\ s[2] = b /\ s[3] = c /\ t[1] = v /\ t[2] = d
        /\ u[1] = a /\ u[2] = b /\ u[3] = c /\ u[4] = v /\ u[5] = d
    OBVIOUS
  <1> HIDE DEF S, s, t, u
  <1>4. /\ s \o t \in Seq(S) /\ Len(s \o t) = 5
        /\ \A i \in 1 .. 5 : (s \o t)[i] = IF i <= 3 THEN s[i] ELSE t[i - 3]
    <2>1. /\ s \o t \in Seq(S) /\ Len(s \o t) = Len(s) + Len(t)
          /\ \A i \in 1 .. Len(s) + Len(t) :
                (s \o t)[i] = IF i <= Len(s) THEN s[i] ELSE t[i - Len(s)]
      BY <1>1, ConcatProperties, Zenon
    <2>2. Len(s) + Len(t) = 5 /\ Len(s) = 3
      BY <1>2
    <2> QED  BY <2>1, <2>2, Zenon
  <1>5. \A i \in 1 .. 5 : (s \o t)[i] = u[i]
    BY <1>3, <1>4
  <1>6. s \o t = u
    BY <1>1, <1>2, <1>4, <1>5, SeqEqual
  <1> QED  BY <1>6 DEF s, t, u

LEMMA DeviceShown ==
    ASSUME space \in Space, NEW f \in DOMAIN space
    PROVE  /\ DeviceLine(f).text = "PCI Device"
           /\ Read(DeviceLine(f), <<10, 10, 10, 16, 16>>) = Fact(f)
  <1> DEFINE v == space[f].vendor
             d == space[f].device
             format == <<"%d", "%d", "%d", "%x", "%x">>
             words == <<f[1], f[2], f[3], v, d>>
             bases == <<10, 10, 10, 16, 16>>
             shown == kprintf(format, words)
  <1>1. DeviceLine(f) = [text |-> "PCI Device", shown |-> shown]
    BY RegisterTypes, Zenon DEF DeviceLine, Line
  <1>2. /\ v \in UInt32 /\ d \in UInt32
        /\ f = <<f[1], f[2], f[3]>>
    BY RegisterTypes, PlaceTypes
  <1>3. /\ Value(Directive("%d", f[1]), 10) = f[1]
        /\ Value(Directive("%d", f[2]), 10) = f[2]
        /\ Value(Directive("%d", f[3]), 10) = f[3]
    BY PlaceShown
  <1>4. Value(Directive("%x", v), 16) = v /\ Value(Directive("%x", d), 16) = d
    BY <1>2, HexShown
  <1>5. shown = [k \in 1 .. 5 |-> Directive(format[k], words[k])]
    <2>1. DOMAIN format = 1 .. 5
      OBVIOUS
    <2> HIDE DEF format, words
    <2> QED  BY <2>1, Zenon DEF kprintf
  <1>6. DeviceLine(f).text = "PCI Device" /\ DeviceLine(f).shown = shown
    <2> DEFINE text == "PCI Device"
    <2> HIDE DEF shown, text
    <2>1. DeviceLine(f) = [text |-> text, shown |-> shown]
      BY <1>1 DEF text
    <2>2. DeviceLine(f).text = text /\ DeviceLine(f).shown = shown
      BY <2>1
    <2> QED  BY <2>2 DEF text
  <1> HIDE DEF v, d, shown
  <1>7. /\ shown[1] = Directive("%d", f[1]) /\ shown[2] = Directive("%d", f[2])
        /\ shown[3] = Directive("%d", f[3])
        /\ shown[4] = Directive("%x", v) /\ shown[5] = Directive("%x", d)
    BY <1>5
  <1>8. Read(DeviceLine(f), bases) = [i \in 1 .. 5 |-> Value(shown[i], bases[i])]
    <2>1. DOMAIN bases = 1 .. 5
      OBVIOUS
    <2> HIDE DEF bases
    <2> QED  BY <1>6, <2>1, Zenon DEF Read
  <1>9. \A i \in 1 .. 5 : Value(shown[i], bases[i]) = words[i]
    <2>1. /\ Value(shown[1], 10) = f[1] /\ Value(shown[2], 10) = f[2]
          /\ Value(shown[3], 10) = f[3]
          /\ Value(shown[4], 16) = v /\ Value(shown[5], 16) = d
      BY <1>3, <1>4, <1>7, Zenon
    <2>2. \A i \in 1 .. 5 : i = 1 \/ i = 2 \/ i = 3 \/ i = 4 \/ i = 5
      OBVIOUS
    <2>3. /\ bases[1] = 10 /\ bases[2] = 10 /\ bases[3] = 10
          /\ bases[4] = 16 /\ bases[5] = 16
          /\ words[1] = f[1] /\ words[2] = f[2] /\ words[3] = f[3]
          /\ words[4] = v /\ words[5] = d
      OBVIOUS
    <2> HIDE DEF bases, words
    <2> QED  BY <2>1, <2>2, <2>3, Zenon
  <1>10. [i \in 1 .. 5 |-> Value(shown[i], bases[i])] = words
    <2>1. words = [i \in 1 .. 5 |-> words[i]]
      OBVIOUS
    <2> HIDE DEF bases, words
    <2> QED  BY <1>9, <2>1, Zenon
  <1>11. Fact(f) = words
    <2> DEFINE x == f[1]
               y == f[2]
               z == f[3]
    <2>1. Fact(f) = <<x, y, z>> \o <<v, d>>
      BY <1>2, Zenon DEF Fact, v, d
    <2> HIDE DEF x, y, z
    <2>2. <<x, y, z>> \o <<v, d>> = <<x, y, z, v, d>>
      BY JoinFive
    <2> QED  BY <2>1, <2>2, Zenon DEF x, y, z
  <1> QED  BY <1>6, <1>8, <1>10, <1>11

LEMMA MaskedIn ==
    ASSUME NEW bar \in UInt32, NEW unit \in {4, 16}
    PROVE  Masked(bar, unit) \in UInt32 /\ Masked(bar, unit) % unit = 0
  <1>1. Word \in Nat /\ bar \in Nat /\ bar < Word
    BY PciConstants DEF UInt32
  <1>2. CASE unit = 4
    BY <1>1, <1>2 DEF Masked, UInt32
  <1>3. CASE unit = 16
    BY <1>1, <1>3 DEF Masked, UInt32
  <1> QED  BY <1>2, <1>3

LEMMA OneLine ==
    ASSUME NEW a
    PROVE  Plain(<<a>>) /\ DOMAIN <<a>> = {1} /\ <<a>>[1] = a
  BY DEF Plain

LEMMA TwoLines ==
    ASSUME NEW a, NEW b
    PROVE  /\ Plain(<<a, b>>) /\ DOMAIN <<a, b>> = {1, 2}
           /\ <<a, b>>[1] = a /\ <<a, b>>[2] = b
  <1> DEFINE s == <<a, b>>
             E == {s[k] : k \in DOMAIN s}
  <1>1. DOMAIN s = {1, 2} /\ s[1] = a /\ s[2] = b
    OBVIOUS
  <1>2. E = {a, b} /\ s \in Seq({a, b})
    BY <1>1
  <1> HIDE DEF s, E
  <1>3. s \in Seq(E)
    BY <1>2, Zenon
  <1> QED  BY <1>1, <1>3 DEF Plain, s, E

LEMMA FiveLines ==
    ASSUME NEW a, NEW b, NEW c, NEW d, NEW e
    PROVE  /\ Plain(<<a, b, c, d, e>>)
           /\ DOMAIN <<a, b, c, d, e>> = {1, 2, 3, 4, 5}
           /\ <<a, b, c, d, e>>[1] = a /\ <<a, b, c, d, e>>[2] = b
           /\ <<a, b, c, d, e>>[3] = c /\ <<a, b, c, d, e>>[4] = d
           /\ <<a, b, c, d, e>>[5] = e
  <1> DEFINE s == <<a, b, c, d, e>>
             E == {s[k] : k \in DOMAIN s}
  <1>1. /\ DOMAIN s = {1, 2, 3, 4, 5}
        /\ s[1] = a /\ s[2] = b /\ s[3] = c /\ s[4] = d /\ s[5] = e
    OBVIOUS
  <1>2. /\ a \in E /\ b \in E /\ c \in E /\ d \in E /\ e \in E
    BY <1>1
  <1> HIDE DEF E
  <1>3. s \in Seq(E)
    BY <1>2
  <1> QED  BY <1>1, <1>3 DEF Plain, E

LEMMA LineText ==
    ASSUME NEW text, NEW format, NEW words
    PROVE  Line(text, format, words).text = text
  BY DEF Line

LEMMA LineShown ==
    ASSUME NEW text, NEW format, NEW words
    PROVE  Line(text, format, words).shown = kprintf(format, words)
  <1> DEFINE shown == kprintf(format, words)
  <1>1. Line(text, format, words) = [text |-> text, shown |-> shown]
    BY DEF Line
  <1> HIDE DEF shown
  <1>2. Line(text, format, words).shown = shown
    BY <1>1
  <1> QED  BY <1>2 DEF shown

\* The set-up of a controller prints no line of the other kinds.
LEMMA UsbShown ==
    ASSUME NEW f
    PROVE  /\ Plain(UsbLines(f))
           /\ \A k \in DOMAIN UsbLines(f) :
                 UsbLines(f)[k].text \notin {"PCI Device", "Found Intel"}
  <1> DEFINE kind == pci_read_config(f).kind
             a == Line("UHCI", <<>>, <<>>)
             b == Line("Resetting controller", <<"%d">>, <<UhciBase(f)>>)
             c == Line(kind, <<>>, <<>>)
             lines == UsbLines(f)
             others == {"PCI Device", "Found Intel"}
  <1>1. a.text \notin others /\ b.text \notin others
    <2>1. a.text = "UHCI"
      BY LineText
    <2>2. b.text = "Resetting controller"
      BY LineText
    <2> HIDE DEF a, b
    <2> QED  BY <2>1, <2>2, Zenon
  <1>2. c.text = kind
    BY LineText
  <1>3. kind = "UHCI" => lines = <<a, b>>
    BY DEF UsbLines
  <1>4. kind \in {"OHCI", "EHCI", "XHCI"} => lines = <<c>> /\ kind \notin others
    BY DEF UsbLines
  <1>5. kind # "UHCI" /\ kind \notin {"OHCI", "EHCI", "XHCI"} => lines = <<>>
    BY DEF UsbLines
  <1> DEFINE Apart(l) == Plain(l) /\ \A k \in DOMAIN l : l[k].text \notin others
  <1> HIDE DEF a, b, c, lines, others
  <1>6. ASSUME kind = "UHCI" PROVE Apart(lines)
    <2>1. /\ Plain(<<a, b>>) /\ DOMAIN <<a, b>> = {1, 2}
          /\ <<a, b>>[1] = a /\ <<a, b>>[2] = b
      BY TwoLines, Zenon
    <2>2. Apart(<<a, b>>)
      BY <1>1, <2>1
    <2> QED  BY <1>3, <1>6, <2>2, Zenon
  <1>7. ASSUME kind \in {"OHCI", "EHCI", "XHCI"} PROVE Apart(lines)
    <2>1. Plain(<<c>>) /\ DOMAIN <<c>> = {1} /\ <<c>>[1] = c
      BY OneLine, Zenon
    <2>2. c.text \notin others
      BY <1>2, <1>4, <1>7, Zenon
    <2>3. Apart(<<c>>)
      BY <2>1, <2>2
    <2> QED  BY <1>4, <1>7, <2>3, Zenon
  <1>8. ASSUME kind # "UHCI" /\ kind \notin {"OHCI", "EHCI", "XHCI"}
        PROVE  Apart(lines)
    <2>1. Plain(<<>>)
      BY DEF Plain
    <2>2. Apart(<<>>)
      BY <2>1
    <2> QED  BY <1>5, <1>8, <2>2, Zenon
  <1>9. Apart(lines)
    BY <1>6, <1>7, <1>8, Zenon
  <1> QED  BY <1>9, Zenon DEF lines, others

\* The words that the set-up of a card takes for where its registers are: the
\* low one is right, and both are unless BAR0 is 32 bits of memory.
LEMMA MmioIsRegisters ==
    ASSUME space \in Space, NEW f \in DOMAIN space
    PROVE  /\ Registers(f)[1] \in UInt32 /\ Registers(f)[2] \in UInt32
           /\ MmioBase(f)[1] = Registers(f)[1]
           /\ ForPorts(f) \/ Wide(f) => MmioBase(f) = Registers(f)
           /\ Registers(f) = <<Registers(f)[1], Registers(f)[2]>>
  <1> DEFINE bar == space[f].bar0
             upper == space[f].bar1
             low == Masked(bar, IF bar % 2 = 1 THEN 4 ELSE 16)
             high == IF Wide(f) THEN upper ELSE 0
  <1>1. bar \in UInt32 /\ upper \in UInt32 /\ pci_read_config(f) = space[f]
    BY RegisterTypes
  <1>2. Registers(f) = <<low, high>> /\ (ForPorts(f) <=> bar % 2 = 1)
    BY Zenon DEF Registers, ForPorts
  <1>3. low \in UInt32
    <2>1. low = Masked(bar, 4) \/ low = Masked(bar, 16)
      BY Zenon
    <2>2. 4 \in {4, 16} /\ 16 \in {4, 16}
      OBVIOUS
    <2> QED  BY <1>1, <2>1, <2>2, MaskedIn, Zenon
  <1>4. high \in UInt32
    <2>1. 0 \in UInt32
      BY PciConstants DEF UInt32
    <2> QED  BY <1>1, <2>1, Zenon
  <1>5. MmioBase(f) = <<low, IF bar % 2 = 1 THEN 0 ELSE upper>>
    <2>1. CASE bar % 2 = 1
      BY <1>1, <2>1, Zenon DEF MmioBase
    <2>2. CASE bar % 2 # 1
      BY <1>1, <2>2, Zenon DEF MmioBase
    <2> QED  BY <2>1, <2>2
  <1>6. ForPorts(f) => high = 0
    BY Zenon DEF Wide
  <1> HIDE DEF bar, upper, low, high
  <1>7. Registers(f)[1] = low /\ Registers(f)[2] = high
    BY <1>2
  <1>8. ForPorts(f) \/ Wide(f) => MmioBase(f) = Registers(f)
    <2>1. ForPorts(f) => MmioBase(f) = <<low, high>>
      BY <1>2, <1>5, <1>6, Zenon
    <2>2. Wide(f) => high = upper /\ bar % 2 # 1
      BY <1>2, Zenon DEF Wide, high
    <2>3. Wide(f) => MmioBase(f) = <<low, high>>
      BY <1>5, <2>2, Zenon
    <2> QED  BY <1>2, <2>1, <2>3, Zenon
  <1>9. MmioBase(f)[1] = low
    BY <1>5
  <1> QED  BY <1>2, <1>3, <1>4, <1>5, <1>7, <1>8, <1>9, Zenon

\* A line of one word reads back to it.
LEMMA WordShown ==
    ASSUME NEW text, NEW words, words[1] \in UInt32
    PROVE  Read(Line(text, <<"%lx">>, words), <<16>>) = <<words[1]>>
  <1> DEFINE format == <<"%lx">>
             bases == <<16>>
             line == Line(text, format, words)
             shown == kprintf(format, words)
             w == words[1]
  <1>1. line.shown = shown
    BY LineShown, Zenon
  <1>2. /\ DOMAIN format = {1} /\ format[1] = "%lx"
        /\ DOMAIN bases = {1} /\ bases[1] = 16
    OBVIOUS
  <1>3. Value(Directive("%lx", w), 16) = w
    BY HexShown
  <1> HIDE DEF format, bases, line
  <1>4. shown[1] = Directive("%lx", w)
    BY <1>2 DEF kprintf
  <1> HIDE DEF shown, w
  <1>5. Read(line, bases) = [i \in {1} |-> Value(shown[i], bases[i])]
    BY <1>1, <1>2, Zenon DEF Read
  <1>6. \A i \in {1} : Value(shown[i], bases[i]) = w
    BY <1>2, <1>3, <1>4
  <1>7. Read(line, bases) = [i \in {1} |-> w]
    BY <1>5, <1>6, Zenon
  <1>8. [i \in {1} |-> w] = <<w>>
    OBVIOUS
  <1> QED  BY <1>7, <1>8, Zenon DEF line, format, bases, w

\* And so do the first two of a line of three.
LEMMA TwoWordsShown ==
    ASSUME NEW text, NEW words, words[1] \in UInt32, words[2] \in UInt32
    PROVE  Read(Line(text, <<"%lx", "%lx", "%lx">>, words), <<16, 16>>)
              = <<words[1], words[2]>>
  <1> DEFINE format == <<"%lx", "%lx", "%lx">>
             bases == <<16, 16>>
             line == Line(text, format, words)
             shown == kprintf(format, words)
             v == words[1]
             w == words[2]
  <1>1. line.shown = shown
    BY LineShown, Zenon
  <1>2. /\ DOMAIN format = {1, 2, 3} /\ format[1] = "%lx" /\ format[2] = "%lx"
        /\ DOMAIN bases = {1, 2} /\ bases[1] = 16 /\ bases[2] = 16
    OBVIOUS
  <1>3. Value(Directive("%lx", v), 16) = v /\ Value(Directive("%lx", w), 16) = w
    BY HexShown
  <1> HIDE DEF format, bases, line
  <1>4. shown[1] = Directive("%lx", v) /\ shown[2] = Directive("%lx", w)
    BY <1>2 DEF kprintf
  <1> HIDE DEF shown, v, w
  <1> DEFINE pair == <<v, w>>
  <1>5. Read(line, bases) = [i \in {1, 2} |-> Value(shown[i], bases[i])]
    BY <1>1, <1>2, Zenon DEF Read
  <1>6. pair = [i \in {1, 2} |-> pair[i]] /\ pair[1] = v /\ pair[2] = w
    OBVIOUS
  <1> HIDE DEF pair
  <1>7. \A i \in {1, 2} : Value(shown[i], bases[i]) = pair[i]
    BY <1>2, <1>3, <1>4, <1>6
  <1>8. Read(line, bases) = [i \in {1, 2} |-> pair[i]]
    BY <1>5, <1>7, Zenon
  <1> QED  BY <1>6, <1>8, Zenon DEF line, format, bases, pair, v, w

\* What two sequences come to begins as the first does.
LEMMA JoinTwo ==
    ASSUME NEW a, NEW b, NEW S, NEW t \in Seq(S)
    PROVE  LET s == <<a, b>> \o t IN
           /\ s[1] = a /\ s[2] = b
           /\ s \in Seq(S \cup {a, b})
  <1> DEFINE T == S \cup {a, b}
             u == <<a, b>>
             s == u \o t
  <1>1. u \in Seq(T) /\ t \in Seq(T) /\ Len(u) = 2 /\ u[1] = a /\ u[2] = b
    OBVIOUS
  <1>2. Len(t) \in Nat
    OBVIOUS
  <1> HIDE DEF u, T
  <1>3. /\ s \in Seq(T)
        /\ \A i \in 1 .. Len(u) + Len(t) :
              s[i] = IF i <= Len(u) THEN u[i] ELSE t[i - Len(u)]
    BY <1>1, ConcatProperties, Zenon
  <1> HIDE DEF s
  <1>4. s[1] = u[1] /\ s[2] = u[2]
    BY <1>1, <1>2, <1>3
  <1> QED  BY <1>1, <1>3, <1>4, Zenon DEF s, u, T

\* The words of a line that begins with those of an address.
LEMMA FinalShown ==
    ASSUME NEW text, NEW a \in UInt32, NEW b \in UInt32, NEW c, NEW d, NEW x, NEW y
    PROVE  Read(Line(text, <<"%lx", "%lx", "%lx">>,
                     <<a, b>> \o <<c, d>> \o <<x, y>>), <<16, 16>>) = <<a, b>>
  <1> DEFINE S == {c, d}
             s == <<a, b>> \o <<c, d>>
             words == s \o <<x, y>>
             T == S \cup {a, b}
             U == T \cup {x, y}
             last == <<x, y>>
  <1>1. <<c, d>> \in Seq(S)
    OBVIOUS
  <1>2. s[1] = a /\ s[2] = b /\ s \in Seq(T)
    BY <1>1, JoinTwo, Zenon
  <1>3. Len(s) >= 2 /\ Len(s) \in Nat
    <2> DEFINE u == <<a, b>>
               v == <<c, d>>
    <2>1. u \in Seq(T) /\ v \in Seq(T) /\ Len(u) = 2 /\ Len(v) = 2
      OBVIOUS
    <2> HIDE DEF u, v, T
    <2>2. Len(u \o v) = Len(u) + Len(v)
      BY <2>1, ConcatProperties, Zenon
    <2>3. Len(u \o v) >= 2 /\ Len(u \o v) \in Nat
      BY <2>1, <2>2
    <2> QED  BY <2>3, Zenon DEF u, v
  <1> HIDE DEF s
  <1>4. s \in Seq(U) /\ last \in Seq(U) /\ Len(last) = 2
    BY <1>2
  <1> HIDE DEF last, U
  <1>5. \A i \in 1 .. Len(s) + Len(last) :
           (s \o last)[i] = IF i <= Len(s) THEN s[i] ELSE last[i - Len(s)]
    BY <1>4, ConcatProperties, Zenon
  <1>6. words[1] = a /\ words[2] = b
    <2>1. (s \o last)[1] = s[1] /\ (s \o last)[2] = s[2]
      BY <1>3, <1>4, <1>5
    <2> QED  BY <1>2, <2>1, Zenon DEF last
  <1> HIDE DEF words
  <1>7. words[1] \in UInt32 /\ words[2] \in UInt32
    BY <1>6, Zenon
  <1>8. Read(Line(text, <<"%lx", "%lx", "%lx">>, words), <<16, 16>>)
           = <<words[1], words[2]>>
    BY <1>7, TwoWordsShown, Zenon
  <1> QED  BY <1>6, <1>8, Zenon DEF words, s

\* The place of a card, as its first line shows it.
LEMMA CardShown ==
    ASSUME space \in Space, NEW f \in DOMAIN space
    PROVE  Read(Line("Found Intel", <<"%d", "%d", "%d">>, f), <<10, 10, 10>>) = f
  <1> DEFINE format == <<"%d", "%d", "%d">>
             bases == <<10, 10, 10>>
             line == Line("Found Intel", format, f)
             shown == kprintf(format, f)
  <1>1. line.shown = shown
    BY LineShown, Zenon
  <1>2. /\ Value(Directive("%d", f[1]), 10) = f[1]
        /\ Value(Directive("%d", f[2]), 10) = f[2]
        /\ Value(Directive("%d", f[3]), 10) = f[3]
    BY PlaceShown
  <1>3. /\ DOMAIN format = 1 .. 3 /\ DOMAIN bases = 1 .. 3
        /\ \A i \in 1 .. 3 : format[i] = "%d" /\ bases[i] = 10
    OBVIOUS
  <1>4. f = [i \in 1 .. 3 |-> f[i]]
    <2>1. f = <<f[1], f[2], f[3]>>
      BY PlaceTypes
    <2> QED  BY <2>1
  <1> HIDE DEF format, bases, line
  <1>5. shown = [i \in 1 .. 3 |-> Directive(format[i], f[i])]
    BY <1>3, Zenon DEF kprintf
  <1> HIDE DEF shown
  <1>6. Read(line, bases) = [i \in 1 .. 3 |-> Value(shown[i], bases[i])]
    BY <1>1, <1>3, Zenon DEF Read
  <1>7. \A i \in 1 .. 3 : Value(shown[i], bases[i]) = f[i]
    <2> TAKE i \in 1 .. 3
    <2>1. shown[i] = Directive("%d", f[i]) /\ bases[i] = 10
      BY <1>3, <1>5
    <2>2. i = 1 \/ i = 2 \/ i = 3
      OBVIOUS
    <2> QED  BY <1>2, <2>1, <2>2, Zenon
  <1>8. [i \in 1 .. 3 |-> Value(shown[i], bases[i])] = [i \in 1 .. 3 |-> f[i]]
    BY <1>7, Zenon
  <1> QED  BY <1>4, <1>6, <1>8, Zenon DEF line, format, bases

\* The set-up of a card prints its place and where its registers are.
LEMMA NetworkShown ==
    ASSUME space \in Space, NEW f \in DOMAIN space
    PROVE  /\ Plain(NetworkLines(f))
           /\ Shown(NetworkLines(f), "PCI Device", <<10, 10, 10, 16, 16>>, {})
           /\ Shown(NetworkLines(f), "Found Intel", <<10, 10, 10>>,
                    IF IsNetwork(f) THEN {f} ELSE {})
           /\ IsNetwork(f) => ShowsRegisters(NetworkLines(f), f)
  <1> DEFINE lines == NetworkLines(f)
             p == "PCI Device"
             q == "Found Intel"
             r == "MMIO Base"
             z == "Final state"
             Good == /\ Plain(lines)
                     /\ Shown(lines, p, <<10, 10, 10, 16, 16>>, {})
                     /\ Shown(lines, q, <<10, 10, 10>>,
                              IF IsNetwork(f) THEN {f} ELSE {})
                     /\ IsNetwork(f) => ShowsRegisters(lines, f)
  <1>1. ASSUME ~IsNetwork(f) PROVE Good
    <2>1. lines = <<>>
      BY <1>1 DEF NetworkLines
    <2> HIDE DEF lines, p, q, r, z
    <2>2. Plain(lines) /\ DOMAIN lines = {}
      BY <2>1 DEF Plain
    <2>3. \A text, bases : Shown(lines, text, bases, {})
      BY <2>2, ShownNone
    <2> QED  BY <1>1, <2>2, <2>3, Zenon
  <1>2. ASSUME IsNetwork(f) PROVE Good
    <2> DEFINE dev == e1000_init(MmioBase(f))
               rx == dev.rx_ring
               tx == dev.tx_ring
               a == Line("Found Intel", <<"%d", "%d", "%d">>, f)
               b == Line("MMIO Base", <<"%lx">>, dev.mmio_base)
               c == Line("RX Ring", <<"%lx", "%d">>, Append(rx.base, RX_RING_SIZE))
               d == Line("TX Ring", <<"%lx", "%d">>, Append(tx.base, TX_RING_SIZE))
               e == Line("Final state", <<"%lx", "%lx", "%lx">>,
                         dev.mmio_base \o rx.base \o tx.base)
    <2>1. lines = <<a, b, c, d, e>>
      BY <1>2, Zenon DEF NetworkLines
    <2>2. dev.mmio_base = MmioBase(f)
      BY DEF e1000_init
    <2>3. a.text = "Found Intel"
      BY LineText, Zenon
    <2>4. b.text = "MMIO Base"
      BY LineText, Zenon
    <2>5. c.text = "RX Ring"
      BY LineText, Zenon
    <2>6. d.text = "TX Ring"
      BY LineText, Zenon
    <2>7. e.text = "Final state"
      BY LineText, Zenon
    <2>8. /\ Read(b, <<16>>) = <<Registers(f)[1]>>
          /\ ForPorts(f) \/ Wide(f) => Read(e, <<16, 16>>) = Registers(f)
      <3>1. /\ MmioBase(f)[1] = Registers(f)[1] /\ Registers(f)[1] \in UInt32
            /\ Registers(f)[2] \in UInt32
            /\ ForPorts(f) \/ Wide(f) => MmioBase(f) = Registers(f)
            /\ Registers(f) = <<Registers(f)[1], Registers(f)[2]>>
        BY MmioIsRegisters, Zenon
      <3>2. Read(b, <<16>>) = <<Registers(f)[1]>>
        <4>1. Read(b, <<16>>) = <<dev.mmio_base[1]>>
          <5>1. dev.mmio_base[1] \in UInt32
            BY <2>2, <3>1, Zenon
          <5> HIDE DEF dev
          <5> QED  BY <5>1, WordShown, Zenon
        <4> QED  BY <2>2, <3>1, <4>1, Zenon
      <3>3. ASSUME ForPorts(f) \/ Wide(f) PROVE Read(e, <<16, 16>>) = Registers(f)
        <4> DEFINE low == Registers(f)[1]
                   high == Registers(f)[2]
        <4>1. dev.mmio_base = <<low, high>>
          BY <2>2, <3>1, <3>3, Zenon
        <4>2. rx.base = <<Stack[1], 0>> /\ tx.base = <<Stack[2], 0>>
          BY DEF e1000_init
        <4>3. low \in UInt32 /\ high \in UInt32 /\ Registers(f) = <<low, high>>
          BY <3>1, Zenon
        <4> DEFINE words == dev.mmio_base \o rx.base \o tx.base
        <4> HIDE DEF dev, rx, tx, low, high
        <4>4. words = <<low, high>> \o <<Stack[1], 0>> \o <<Stack[2], 0>>
          BY <4>1, <4>2
        <4>5. e = Line("Final state", <<"%lx", "%lx", "%lx">>, words)
          BY Zenon
        <4> HIDE DEF words, e
        <4>6. Read(Line("Final state", <<"%lx", "%lx", "%lx">>,
                        <<low, high>> \o <<Stack[1], 0>> \o <<Stack[2], 0>>),
                   <<16, 16>>) = <<low, high>>
          <5> DEFINE rxLow == Stack[1]
                     txLow == Stack[2]
                     text == "Final state"
          <5> HIDE DEF rxLow, txLow, text
          <5>1. Read(Line(text, <<"%lx", "%lx", "%lx">>,
                          <<low, high>> \o <<rxLow, 0>> \o <<txLow, 0>>),
                     <<16, 16>>) = <<low, high>>
            BY <4>3, FinalShown
          <5> QED  BY <5>1, Zenon DEF rxLow, txLow, text
        <4> QED  BY <4>3, <4>4, <4>5, <4>6, Zenon
      <3> QED  BY <3>2, <3>3, Zenon
    <2>9. Read(a, <<10, 10, 10>>) = f
      BY CardShown, Zenon
    <2> HIDE DEF a, b, c, d, e, dev
    <2>10. /\ a.text # p /\ b.text # p /\ c.text # p /\ d.text # p /\ e.text # p
           /\ a.text = q /\ b.text # q /\ c.text # q /\ d.text # q /\ e.text # q
           /\ b.text = r /\ e.text = z
      BY <2>3, <2>4, <2>5, <2>6, <2>7, Zenon
    <2> HIDE DEF lines, p, q, r, z
    <2>11. /\ Plain(lines) /\ DOMAIN lines = {1, 2, 3, 4, 5}
           /\ lines[1] = a /\ lines[2] = b /\ lines[3] = c /\ lines[4] = d
           /\ lines[5] = e
      <3> DEFINE s == <<a, b, c, d, e>>
      <3>1. Plain(s)
        BY FiveLines, Zenon
      <3>2. DOMAIN s = {1, 2, 3, 4, 5}
        OBVIOUS
      <3>3. s[1] = a /\ s[2] = b /\ s[3] = c /\ s[4] = d /\ s[5] = e
        OBVIOUS
      <3> HIDE DEF s
      <3>4. lines = s
        BY <2>1, Zenon DEF s
      <3> QED  BY <3>1, <3>2, <3>3, <3>4, Zenon
    <2>12. Shown(lines, p, <<10, 10, 10, 16, 16>>, {})
      <3>1. \A k \in DOMAIN lines : lines[k].text # p
        BY <2>10, <2>11, Zenon
      <3> QED  BY <3>1, ShownNone, Zenon
    <2>13. Shown(lines, q, <<10, 10, 10>>, {f})
      <3>1. \A k \in DOMAIN lines : k # 1 => lines[k].text # q
        BY <2>10, <2>11, Zenon
      <3>2. 1 \in DOMAIN lines /\ lines[1].text = q
        BY <2>10, <2>11, Zenon
      <3>3. Shown(lines, q, <<10, 10, 10>>, {Read(lines[1], <<10, 10, 10>>)})
        BY <3>1, <3>2, ShownOne, Zenon
      <3> QED  BY <2>9, <2>11, <3>3, Zenon
    <2>14. ShowsRegisters(lines, f)
      <3>1. 2 \in Lines(lines, r) /\ 5 \in Lines(lines, z)
        <4>1. 2 \in DOMAIN lines /\ 5 \in DOMAIN lines
          BY <2>11
        <4> QED  BY <2>10, <2>11, <4>1, Zenon DEF Lines
      <3>2. Has(lines, r, <<16>>, <<Registers(f)[1]>>)
        BY <2>8, <2>11, <3>1, Zenon DEF Has
      <3>3. ForPorts(f) \/ Wide(f) => Has(lines, z, <<16, 16>>, Registers(f))
        BY <2>8, <2>11, <3>1, Zenon DEF Has
      <3> QED  BY <3>2, <3>3, Zenon DEF ShowsRegisters, r, z
    <2> QED  BY <1>2, <2>11, <2>12, <2>13, <2>14, Zenon
  <1>3. Good
    BY <1>1, <1>2, Zenon
  <1> QED  BY <1>3, Zenon

\* Facts about different functions differ.
LEMMA FactsDiffer ==
    ASSUME space \in Space, NEW f \in DOMAIN space, NEW g \in DOMAIN space,
           Fact(f) = Fact(g)
    PROVE  f = g
  <1>1. f = <<f[1], f[2], f[3]>> /\ g = <<g[1], g[2], g[3]>>
    BY PlaceTypes
  <1> DEFINE a == f[1]
             b == f[2]
             c == f[3]
             v == space[f].vendor
             d == space[f].device
             x == g[1]
             y == g[2]
             z == g[3]
             w == space[g].vendor
             e == space[g].device
  <1>2. /\ Fact(f) = <<a, b, c>> \o <<v, d>> /\ Fact(g) = <<x, y, z>> \o <<w, e>>
        /\ f = <<a, b, c>> /\ g = <<x, y, z>>
    BY <1>1, Zenon DEF Fact
  <1> HIDE DEF a, b, c, v, d, x, y, z, w, e
  <1>3. Fact(f) = <<a, b, c, v, d>>
    <2>1. <<a, b, c>> \o <<v, d>> = <<a, b, c, v, d>>
      BY JoinFive, Zenon
    <2> QED  BY <1>2, <2>1, Zenon
  <1>4. Fact(g) = <<x, y, z, w, e>>
    <2>1. <<x, y, z>> \o <<w, e>> = <<x, y, z, w, e>>
      BY JoinFive, Zenon
    <2> QED  BY <1>2, <2>1, Zenon
  <1>5. a = x /\ b = y /\ c = z
    <2>1. <<a, b, c, v, d>> = <<x, y, z, w, e>>
      BY <1>3, <1>4, Zenon
    <2> QED  BY <2>1
  <1> QED  BY <1>2, <1>5, Zenon

\* What a function that the scan finds adds to a log.
LogWith(l, f) == l \o <<DeviceLine(f)>> \o UsbLines(f) \o NetworkLines(f)

LEMMA TellsMore ==
    ASSUME space \in Space, NEW l, Plain(l), NEW F, F \subseteq DOMAIN space,
           NEW f \in DOMAIN space, f \notin F, Tells(l, F)
    PROVE  Plain(LogWith(l, f)) /\ Tells(LogWith(l, f), F \cup {f})
  <1> DEFINE D == <<DeviceLine(f)>>
             U == UsbLines(f)
             N == NetworkLines(f)
             l1 == l \o D
             l2 == l1 \o U
             l3 == l2 \o N
             p == "PCI Device"
             q == "Found Intel"
             pb == <<10, 10, 10, 16, 16>>
             qb == <<10, 10, 10>>
             facts == {Fact(g) : g \in F}
             cards == {g \in F : IsNetwork(g)}
             card == IF IsNetwork(f) THEN {f} ELSE {}
  <1>1. /\ Shown(l, p, pb, facts) /\ Shown(l, q, qb, cards)
        /\ \A g \in cards : ShowsRegisters(l, g)
    BY Zenon DEF Tells
  <1>2. /\ DeviceLine(f).text = p /\ Read(DeviceLine(f), pb) = Fact(f)
    BY DeviceShown, Zenon
  <1>3. /\ Plain(D) /\ DOMAIN D = {1} /\ D[1] = DeviceLine(f)
    BY OneLine, Zenon
  <1>4. p # q
    BY Zenon
  <1>5. Plain(U) /\ \A k \in DOMAIN U : U[k].text \notin {p, q}
    BY UsbShown, Zenon
  <1>6. Plain(N)
    BY NetworkShown, Zenon
  <1>7. Shown(N, p, pb, {}) /\ Shown(N, q, qb, card)
    BY NetworkShown, Zenon
  <1>8. IsNetwork(f) => ShowsRegisters(N, f)
    BY NetworkShown, Zenon
  <1>9. Fact(f) \notin facts
    BY FactsDiffer, Zenon
  <1>10. cards \cap card = {} /\ cards \cup card = {g \in F \cup {f} : IsNetwork(g)}
    OBVIOUS
  <1>11. facts \cup {Fact(f)} = {Fact(g) : g \in F \cup {f}}
    OBVIOUS
  <1> HIDE DEF D, U, N, l1, l2, l3, p, q, pb, qb, facts, cards, card
  <1>12. Shown(D, p, pb, {Fact(f)})
    <2>1. Shown(D, p, pb, {Read(D[1], pb)})
      <3>1. 1 \in DOMAIN D /\ D[1].text = p /\ \A k \in DOMAIN D : k = 1
        BY <1>2, <1>3
      <3> QED  BY <3>1, ShownOne, Zenon
    <2> QED  BY <1>2, <1>3, <2>1, Zenon
  <1>13. Shown(D, q, qb, {})
    <2>1. \A k \in DOMAIN D : D[k].text # q
      BY <1>2, <1>3, <1>4, Zenon
    <2> QED  BY <2>1, ShownNone, Zenon
  <1>14. Shown(U, p, pb, {}) /\ Shown(U, q, qb, {})
    BY <1>5, ShownNone, Zenon
  <1>15. Plain(l1)
    BY <1>3, PlainConcat, Zenon DEF l1
  <1>16. Plain(l2)
    BY <1>5, <1>15, PlainConcat, Zenon DEF l2
  <1>17. Plain(l3)
    BY <1>6, <1>16, PlainConcat, Zenon DEF l3
  <1>18. Shown(l3, p, pb, facts \cup {Fact(f)})
    <2>1. facts \cap {Fact(f)} = {}
      BY <1>9
    <2>2. Shown(l1, p, pb, facts \cup {Fact(f)})
      BY <1>1, <1>3, <1>12, <2>1, ShownConcat, Zenon DEF l1
    <2> DEFINE S == facts \cup {Fact(f)}
    <2> HIDE DEF S
    <2>3. S \cap {} = {} /\ S \cup {} = S
      OBVIOUS
    <2>4. Shown(l1, p, pb, S)
      BY <2>2, Zenon DEF S
    <2>5. Shown(l2, p, pb, S \cup {})
      BY <1>5, <1>14, <1>15, <2>3, <2>4, ShownConcat, Zenon DEF l2
    <2>6. Shown(l2, p, pb, S)
      BY <2>3, <2>5, Zenon
    <2>7. Shown(l3, p, pb, S \cup {})
      BY <1>6, <1>7, <1>16, <2>3, <2>6, ShownConcat, Zenon DEF l3
    <2> QED  BY <2>3, <2>7, Zenon DEF S
  <1>19. Shown(l3, q, qb, cards \cup card)
    <2>1. cards \cap {} = {} /\ cards \cup {} = cards
      OBVIOUS
    <2>2. Shown(l1, q, qb, cards \cup {})
      BY <1>1, <1>3, <1>13, <2>1, ShownConcat, Zenon DEF l1
    <2>3. Shown(l1, q, qb, cards)
      BY <2>1, <2>2, Zenon
    <2>4. Shown(l2, q, qb, cards \cup {})
      BY <1>5, <1>14, <1>15, <2>1, <2>3, ShownConcat, Zenon DEF l2
    <2>5. Shown(l2, q, qb, cards)
      BY <2>1, <2>4, Zenon
    <2> QED  BY <1>6, <1>7, <1>10, <1>16, <2>5, ShownConcat, Zenon DEF l3
  <1>20. \A g \in F \cup {f} : IsNetwork(g) => ShowsRegisters(l3, g)
    <2> SUFFICES ASSUME NEW g \in F \cup {f}, IsNetwork(g) PROVE ShowsRegisters(l3, g)
      OBVIOUS
    <2>1. CASE g \in F
      <3>1. ShowsRegisters(l, g)
        BY <1>1, <2>1 DEF cards
      <3>2. ShowsRegisters(l1, g)
        BY <1>3, <3>1, StillShown, Zenon DEF l1
      <3>3. ShowsRegisters(l2, g)
        BY <1>5, <1>15, <3>2, StillShown, Zenon DEF l2
      <3> QED  BY <1>6, <1>16, <3>3, StillShown, Zenon DEF l3
    <2>2. CASE g = f
      <3>1. ShowsRegisters(N, g)
        BY <1>8, <2>2
      <3> QED  BY <1>6, <1>16, <3>1, NowShown, Zenon DEF l3
    <2> QED  BY <2>1, <2>2
  <1>21. Tells(l3, F \cup {f})
    BY <1>10, <1>11, <1>18, <1>19, <1>20, Zenon DEF Tells, p, q, pb, qb
  <1> QED  BY <1>17, <1>21, Zenon DEF LogWith, l1, l2, l3, D, U, N

\* So far the log tells what the scan has gone past.
LogInv ==
    /\ log \in Seq({log[k] : k \in DOMAIN log})
    /\ Tells(log, Found)

LEMMA LogInit == PciInit => LogInv
  <1> SUFFICES ASSUME PciInit PROVE LogInv
    OBVIOUS
  <1>1. log = <<>> /\ bus = 0 /\ slot = 0 /\ phase = "slot" /\ space \in Space
    BY DEF PciInit
  <1>2. Found = {}
    <2>1. \A f \in DOMAIN space : f[1] \in Nat /\ f[2] \in Nat
      BY <1>1, PlaceTypes, PciConstants
    <2>2. \A f \in DOMAIN space : ~Passed(f)
      BY <1>1, <2>1 DEF Passed
    <2> QED  BY <2>2 DEF Found, Reachable
  <1>3. Plain(log) /\ DOMAIN log = {}
    BY <1>1 DEF Plain
  <1>4. \A text, bases : Shown(log, text, bases, {})
    BY <1>3, ShownNone
  <1>5. Tells(log, {})
    <2>1. {Fact(f) : f \in {}} = {} /\ {f \in {} : IsNetwork(f)} = {}
      OBVIOUS
    <2> QED  BY <1>4, <2>1, Zenon DEF Tells
  <1> QED  BY <1>2, <1>3, <1>5, Zenon DEF LogInv, Plain

\* What a log has to tell depends on the machine alone.
LEMMA TellsNext ==
    ASSUME space' = space, Tells(log', Found')
    PROVE  Tells(log, Found)'
  <1>1. \A f : pci_read_config(f)' = pci_read_config(f)
    BY DEF pci_read_config, AllOnes
  <1>2. \A f : IsNetwork(f)' <=> IsNetwork(f)
    BY <1>1 DEF IsNetwork
  <1>3. \A f : Fact(f)' = Fact(f) /\ Registers(f)' = Registers(f)
    BY DEF Fact, Registers, Wide, ForPorts
  <1>4. \A f : (ForPorts(f)' <=> ForPorts(f)) /\ (Wide(f)' <=> Wide(f))
    BY DEF Wide, ForPorts
  <1>5. \A f : ShowsRegisters(log, f)' <=> ShowsRegisters(log', f)
    BY <1>3, <1>4, Zenon DEF ShowsRegisters, Has, Lines
  <1>6. /\ {Fact(f)' : f \in Found'} = {Fact(f) : f \in Found'}
        /\ {f \in Found' : IsNetwork(f)'} = {f \in Found' : IsNetwork(f)}
    BY <1>2, <1>3
  <1> QED  BY <1>3, <1>6, <1>5, Zenon DEF Tells

LEMMA LogStep ==
    ASSUME ScanInv, LogInv, ScanFunction
    PROVE  LogInv'
  <1> DEFINE at == <<bus, slot, func>>
  <1>1. /\ Found' = Found \cup ({at} \cap DOMAIN space) /\ at \notin Found
        /\ Found \subseteq DOMAIN space /\ space \in Space /\ space' = space
    BY ScanFunctionStep DEF ScanInv, Found, Reachable, ScanFunction
  <1>2. Plain(log) /\ Tells(log, Found)
    BY DEF LogInv, Plain
  <1>3. Scan(at)
    BY DEF ScanFunction
  <1> HIDE DEF at
  <1>4. Plain(log') /\ Tells(log', Found')
    <2>1. CASE at \in DOMAIN space
      <3>1. pci_device_exists(at)
        BY <1>1, <2>1, RegisterTypes
      <3>2. log' = LogWith(log, at)
        BY <1>3, <3>1, Zenon DEF Scan, LogWith
      <3>3. Found' = Found \cup {at}
        BY <1>1, <2>1
      <3>4. Plain(LogWith(log, at)) /\ Tells(LogWith(log, at), Found \cup {at})
        BY <1>1, <1>2, <2>1, TellsMore, Zenon
      <3> QED  BY <3>2, <3>3, <3>4, Zenon
    <2>2. CASE at \notin DOMAIN space
      <3>1. log' = log
        BY <1>3, <2>2, NoneThere, Zenon DEF Scan
      <3>2. Found' = Found
        BY <1>1, <2>2
      <3> QED  BY <1>2, <3>1, <3>2, Zenon
    <2> QED  BY <2>1, <2>2
  <1>5. Tells(log, Found)'
    BY <1>1, <1>4, TellsNext
  <1> QED  BY <1>4, <1>5, Zenon DEF LogInv, Plain

LEMMA LogSame ==
    ASSUME LogInv, space' = space, log' = log, Found' = Found
    PROVE  LogInv'
  <1>1. Tells(log', Found')
    BY Zenon DEF LogInv
  <1>2. Tells(log, Found)'
    BY <1>1, TellsNext
  <1> QED  BY <1>2, Zenon DEF LogInv

-----------------------------------------------------------------------------
(***************************************************************************)
(* The scan as a whole.                                                    *)
(***************************************************************************)
PciInv == ScanInv /\ LogInv

LEMMA PciInitInv == PciInit => PciInv
  BY ScanInit, LogInit, Zenon DEF PciInv

LEMMA PciNextInv == PciInv /\ [PciNext]_pciVars => PciInv'
  <1> SUFFICES ASSUME PciInv, [PciNext]_pciVars PROVE PciInv'
    OBVIOUS
  <1>1. CASE ScanSlot
    <2>1. space' = space /\ log' = log
      BY <1>1 DEF ScanSlot
    <2>2. ScanInv' /\ Found' = Found
      BY <1>1, ScanSlotStep DEF PciInv
    <2>3. LogInv'
      BY <2>1, <2>2, LogSame DEF PciInv
    <2> QED  BY <2>2, <2>3 DEF PciInv
  <1>2. CASE ScanFunction
    BY <1>2, ScanFunctionStep, LogStep DEF PciInv
  <1>3. CASE UNCHANGED pciVars
    <2>1. /\ space' = space /\ bus' = bus /\ slot' = slot /\ func' = func
          /\ multi' = multi /\ phase' = phase /\ log' = log
      BY <1>3 DEF pciVars
    <2>2. Found' = Found
      BY <2>1 DEF Found, Reachable, Passed
    <2>3. pci_read_config(<<bus, slot, 0>>)' = pci_read_config(<<bus, slot, 0>>)
      BY <2>1 DEF pci_read_config, AllOnes
    <2>4. ScanInv'
      BY <2>1, <2>3 DEF PciInv, ScanInv
    <2>5. LogInv'
      BY <2>1, <2>2, LogSame DEF PciInv
    <2> QED  BY <2>4, <2>5 DEF PciInv
  <1> QED  BY <1>1, <1>2, <1>3 DEF PciNext

LEMMA PciSpecInv == PciSpec => []PciInv
  BY PciInitInv, PciNextInv, PTL DEF PciSpec

\* When all buses are counted the scan has gone past every function.
LEMMA AllFound ==
    ASSUME PciInv, phase = "done"
    PROVE  Found = Reachable
  <1>1. space \in Space /\ bus = MAX_PCI_BUS
    BY DEF PciInv, ScanInv
  <1>2. \A f \in Reachable : f[1] \in 0 .. MAX_PCI_BUS - 1
    BY <1>1, PlaceTypes DEF Reachable
  <1>3. \A f \in Reachable : Passed(f)
    BY <1>1, <1>2, PciConstants DEF Passed
  <1> QED  BY <1>3 DEF Found

\* After the scan the log tells what the machine has, whatever it has.
THEOREM LogIsTheBus == PciSpec => []LogTellsTheBus
  <1>1. PciInv => LogTellsTheBus
    BY AllFound, Zenon DEF PciInv, LogInv, LogTellsTheBus
  <1> QED  BY <1>1, PciSpecInv, PTL

\* Every step brings the scan nearer to its end: it goes on to a later bus, to
\* a later slot, from a header to function 0 or to the next function.
Later ==
    \/ bus' > bus
    \/ bus' = bus /\ slot' > slot
    \/ /\ bus' = bus /\ slot' = slot /\ phase' = "function"
       /\ phase = "slot" \/ func' > func

\* No place is looked at twice, and there are only so many: a bus counter that
\* wraps would begin again.
THEOREM ScanGoesOn == PciSpec => [][Later /\ bus' <= MAX_PCI_BUS]_pciVars
  <1>1. ASSUME PciInv, ScanSlot PROVE Later /\ bus' <= MAX_PCI_BUS
    <2>1. bus \in Nat /\ bus <= MAX_PCI_BUS
      BY <1>1, PciConstants DEF PciInv, ScanInv
    <2> QED  BY <1>1, <2>1 DEF ScanSlot, Later
  <1>2. ASSUME PciInv, ScanFunction PROVE Later /\ bus' <= MAX_PCI_BUS
    <2>1. /\ bus \in Nat /\ slot \in Nat /\ func \in Nat
          /\ bus < MAX_PCI_BUS /\ phase = "function"
      BY <1>2, PciConstants DEF PciInv, ScanInv, ScanFunction
    <2>2. NextBus = bus + 1
      BY <2>1, PciConstants DEF NextBus
    <2>3. \/ func' = func + 1 /\ bus' = bus /\ slot' = slot /\ phase' = phase
          \/ slot' = slot + 1 /\ bus' = bus
          \/ bus' = bus + 1
      BY <1>2, <2>2 DEF ScanFunction
    <2> QED  BY <2>1, <2>3, PciConstants DEF Later
  <1>3. PciInv /\ [PciNext]_pciVars => [Later /\ bus' <= MAX_PCI_BUS]_pciVars
    BY <1>1, <1>2 DEF PciNext
  <1> QED  BY <1>3, PciSpecInv, PTL DEF PciSpec
=============================================================================
