------------------------------ MODULE HeapProofs ----------------------------
(***************************************************************************)
(* Proofs about Heap, for every place and size of the heap, of the mapped  *)
(* memory, of a header and of the alignment, and every set of requests.    *)
(*                                                                         *)
(* The list is a chain of blocks from the start of the heap to its end     *)
(* (Chain); a block that is not free belongs to one caller and is at most  *)
(* a header larger than what it asked for, rounded (Owned).  So a hole     *)
(* between the callers' bytes is, but for the last bytes of one taken      *)
(* block, inside one free block (HoleInBlock): what kmalloc refuses, and   *)
(* what it faults for, follows from the sizes of the free blocks.          *)
(***************************************************************************)
EXTENDS Heap, SequenceTheorems, WellFoundedInduction, TLAPS

End(b) == b.addr + HEADER + b.size

\* A list whose blocks cover the memory from the start of the heap to limit.
Chain(bs, limit) ==
    /\ bs \in Seq(Block)
    /\ Len(bs) >= 1
    /\ bs[1].addr = HEAP_START
    /\ End(bs[Len(bs)]) = limit
    /\ \A i \in 1 .. Len(bs) - 1 : End(bs[i]) = bs[i + 1].addr
    /\ \A i, j \in 1 .. Len(bs) : i < j => End(bs[i]) <= bs[j].addr

NoTwoFree(bs) == \A i \in 1 .. Len(bs) - 1 : ~(bs[i].free /\ bs[i + 1].free)

\* The block of an allocation.
BlockOf(b, a) ==
    /\ ~b.free
    /\ a.ptr = b.addr + HEADER
    /\ Rounded(a.asked) <= b.size
    /\ b.size <= Rounded(a.asked) + HEADER

Held == [ptr : HEAP_START .. HeapEnd, asked : Size \ {0}]

\* The taken blocks of a list and the allocations in hold correspond.
Owned(bs, hold) ==
    /\ hold \subseteq Held
    /\ \A a \in hold : \E i \in 1 .. Len(bs) : BlockOf(bs[i], a)
    /\ \A i \in 1 .. Len(bs) : ~bs[i].free => \E a \in hold : BlockOf(bs[i], a)
    /\ \A a, b \in hold : a.ptr = b.ptr => a = b

HeapInv ==
    /\ blocks = <<>> \/ (Chain(blocks, HeapEnd) /\ NoTwoFree(blocks))
    /\ Owned(blocks, held)
    /\ faulted \in Size \cup {0}

-----------------------------------------------------------------------------
(* Numbers *)

LEMMA Places ==
    /\ HEAP_START \in Nat /\ HEAP_START >= 1
    /\ HEAP_SIZE \in Nat /\ HEADER < HEAP_SIZE
    /\ HEADER \in Nat /\ HEADER >= 1
    /\ ALIGN \in Nat /\ ALIGN >= 1 /\ Word % ALIGN = 0
    /\ MAPPED \in Nat /\ Word \in Nat
    /\ HeapEnd \in Nat /\ HeapEnd = HEAP_START + HEAP_SIZE /\ HeapEnd < Word
    /\ Size \subseteq 0 .. Word - 1
  <1>1. /\ HEAP_START \in Nat \ {0} /\ HEAP_SIZE \in Nat \ {0}
        /\ HEADER \in Nat \ {0} /\ ALIGN \in Nat \ {0}
        /\ MAPPED \in Nat \ {0} /\ Word \in Nat \ {0}
    BY HeapAssumption
  <1>2. /\ HEADER < HEAP_SIZE /\ HEAP_START + HEAP_SIZE < Word
        /\ Word % ALIGN = 0 /\ Size \subseteq 0 .. Word - 1
    BY HeapAssumption
  <1> QED  BY <1>1, <1>2 DEF HeapEnd

\* Rounding adds less than ALIGN bytes, unless it wraps to 0.
LEMMA RoundedFacts ==
    ASSUME NEW n \in 0 .. Word - 1
    PROVE  /\ Rounded(n) \in Nat
           /\ Rounded(n) <= n + ALIGN - 1
           /\ n < Word - ALIGN + 1 => n <= Rounded(n)
           /\ n >= Word - ALIGN + 1 => Rounded(n) = 0
  <1> DEFINE x == n + ALIGN - 1
             sum == x % Word
             rest == sum % ALIGN
  <1>1. ALIGN <= Word
    <2> SUFFICES ASSUME ALIGN > Word PROVE FALSE
      BY Places
    <2>1. Word % ALIGN = Word
      BY Places
    <2>2. Word # 0
      BY Places
    <2> QED  BY <2>1, <2>2, Places
  <1>2. x \in Nat /\ x < 2 * Word
    BY <1>1, Places
  <1>3. Rounded(n) = sum - rest
    BY DEF Rounded
  <1> HIDE DEF x
  <1>4. /\ x < Word => sum = x
        /\ x >= Word => sum = x - Word
        /\ sum \in Nat
    BY <1>2, Places
  <1> HIDE DEF sum
  <1>5. /\ rest \in Nat /\ rest <= ALIGN - 1 /\ rest <= sum
        /\ sum < ALIGN => rest = sum
    BY <1>4, Places
  <1> HIDE DEF rest
  <1> QED  BY <1>3, <1>4, <1>5, Places DEF x

LEMMA LeastNat ==
    ASSUME NEW S, S \subseteq Nat, S # {}
    PROVE  \E x \in S : \A y \in S : x <= y
  <1>1. \E x \in S : \A y \in S : ~ (<<y, x>> \in OpToRel(<, Nat))
    BY WFMin, NatLessThanWellFounded, Zenon
  <1>2. PICK x \in S : \A y \in S : ~ (<<y, x>> \in OpToRel(<, Nat))
    BY <1>1, Zenon
  <1>3. \A y \in S : ~ (y < x)
    BY <1>2, Zenon DEF OpToRel
  <1> QED  BY <1>3

LEMMA NatInd ==
    ASSUME NEW S, 0 \in S, \A n \in Nat : n \in S => n + 1 \in S
    PROVE  Nat \subseteq S
  <1> SUFFICES ASSUME Nat \ S # {} PROVE FALSE
    OBVIOUS
  <1>1. PICK x \in Nat \ S : \A y \in Nat \ S : x <= y
    BY LeastNat
  <1>2. x - 1 \in Nat /\ x - 1 \notin Nat \ S
    BY <1>1
  <1> QED  BY <1>1, <1>2

-----------------------------------------------------------------------------
(* Holes *)

LEMMA BlockTypes ==
    ASSUME NEW b \in Block
    PROVE  /\ b.addr \in Nat /\ b.size \in Nat /\ b.free \in BOOLEAN
           /\ End(b) \in Nat /\ b.addr < End(b)
  <1>1. b.addr \in Nat /\ b.size \in Nat /\ b.free \in BOOLEAN
    BY Places DEF Block
  <1> QED  BY <1>1, Places DEF End

LEMMA ChainTypes ==
    ASSUME NEW bs, NEW limit, Chain(bs, limit)
    PROVE  /\ Len(bs) \in Nat
           /\ \A i \in 1 .. Len(bs) :
                 /\ bs[i] \in Block
                 /\ bs[i].addr \in Nat /\ bs[i].size \in Nat
                 /\ bs[i].free \in BOOLEAN
                 /\ End(bs[i]) \in Nat /\ bs[i].addr < End(bs[i])
  <1>1. bs \in Seq(Block) /\ Len(bs) \in Nat
    BY LenProperties DEF Chain
  <1>2. ASSUME NEW i \in 1 .. Len(bs)
        PROVE  /\ bs[i] \in Block
               /\ bs[i].addr \in Nat /\ bs[i].size \in Nat
               /\ bs[i].free \in BOOLEAN
               /\ End(bs[i]) \in Nat /\ bs[i].addr < End(bs[i])
    <2>1. bs[i] \in Block
      BY <1>1
    <2> QED  BY <2>1, BlockTypes
  <1> QED  BY <1>1, <1>2

\* The taken bytes T begin with the first byte of every taken block and
\* leave at most slack bytes at its end.
Leaves(bs, T, slack) ==
    \A i \in 1 .. Len(bs) :
        ~bs[i].free => /\ bs[i].addr \in T
                       /\ \A x \in bs[i].addr .. End(bs[i]) - slack - 1 : x \in T

\* A hole that begins before the end of a free block ends no later than it.
LEMMA HoleEnds ==
    ASSUME NEW bs, Chain(bs, HeapEnd), NoTwoFree(bs), NEW T, NEW slack,
           Leaves(bs, T, slack),
           NEW p \in Nat, NEW n \in Nat, p + n <= HeapEnd,
           \A x \in p .. p + n - 1 : x \notin T,
           NEW i \in 1 .. Len(bs), bs[i].free, p < End(bs[i])
    PROVE  p + n <= End(bs[i])
  <1>1. Len(bs) \in Nat /\ End(bs[i]) \in Nat
    BY ChainTypes
  <1>2. CASE i = Len(bs)
    BY <1>2 DEF Chain
  <1>3. CASE i # Len(bs)
    <2>1. i \in 1 .. Len(bs) - 1 /\ i + 1 \in 1 .. Len(bs)
      BY <1>1, <1>3
    <2>2. ~bs[i + 1].free /\ bs[i + 1].addr = End(bs[i])
      BY <2>1 DEF NoTwoFree, Chain
    <2>3. End(bs[i]) \in T
      BY <2>1, <2>2, Zenon DEF Leaves
    <2>4. End(bs[i]) \notin p .. p + n - 1
      BY <2>3
    <2> QED  BY <1>1, <2>4
  <1> QED  BY <1>2, <1>3

\* A hole longer than slack lies in one free block, but for slack bytes that
\* it may begin with at the end of a taken one.
LEMMA HoleInBlock ==
    ASSUME NEW bs, Chain(bs, HeapEnd), NoTwoFree(bs), NEW T, NEW slack \in Nat,
           Leaves(bs, T, slack),
           NEW p \in Nat, NEW n \in Nat, n > slack,
           HEAP_START <= p, p + n <= HeapEnd,
           \A x \in p .. p + n - 1 : x \notin T
    PROVE  \E i \in 1 .. Len(bs) : /\ bs[i].free
                                   /\ bs[i].addr <= p + slack
                                   /\ p + n <= End(bs[i])
  <1> DEFINE S == {i \in 1 .. Len(bs) : p < End(bs[i])}
  <1>1. /\ Len(bs) \in Nat /\ Len(bs) >= 1
        /\ \A i \in 1 .. Len(bs) : /\ bs[i].addr \in Nat /\ End(bs[i]) \in Nat
                                   /\ bs[i].free \in BOOLEAN
    BY ChainTypes DEF Chain
  <1>2. Len(bs) \in S /\ S \subseteq Nat
    <2>1. End(bs[Len(bs)]) = HeapEnd
      BY DEF Chain
    <2>2. p < HeapEnd
      BY Places
    <2> QED  BY <1>1, <2>1, <2>2
  <1>3. PICK i \in S : \A k \in S : i <= k
    BY <1>2, LeastNat
  <1>4. i \in 1 .. Len(bs) /\ p < End(bs[i]) /\ bs[i].addr <= p
    <2>1. i \in 1 .. Len(bs) /\ p < End(bs[i])
      BY <1>3
    <2>2. CASE i = 1
      BY <2>1, <2>2 DEF Chain
    <2>3. CASE i # 1
      <3>1. i - 1 \in 1 .. Len(bs) - 1 /\ i - 1 \in 1 .. Len(bs) /\ ~(i <= i - 1)
            /\ (i - 1) + 1 = i
        BY <1>1, <2>1, <2>3
      <3>2. i - 1 \notin S
        BY <1>3, <3>1, Zenon
      <3>3. ~(p < End(bs[i - 1]))
        BY <3>1, <3>2
      <3>4. End(bs[i - 1]) = bs[i].addr
        BY <3>1, Zenon DEF Chain
      <3> QED  BY <1>1, <2>1, <3>3, <3>4
    <2> QED  BY <2>1, <2>2, <2>3
  <1>5. CASE bs[i].free
    <2>1. p + n <= End(bs[i])
      BY <1>4, <1>5, HoleEnds
    <2> QED  BY <1>1, <1>4, <1>5, <2>1
  <1>6. CASE ~bs[i].free
    <2>1. End(bs[i]) <= p + slack
      <3>1. p \notin bs[i].addr .. End(bs[i]) - slack - 1
        <4>1. p \in p .. p + n - 1
          OBVIOUS
        <4>2. p \notin T
          BY <4>1
        <4> QED  BY <1>4, <1>6, <4>2 DEF Leaves
      <3> QED  BY <1>1, <1>4, <3>1
    <2>2. End(bs[i]) \in p .. p + n - 1
      BY <1>1, <1>4, <2>1
    <2>3. i # Len(bs)
      <3>1. End(bs[i]) # HeapEnd
        BY <2>2, Places
      <3> QED  BY <3>1 DEF Chain
    <2>4. i \in 1 .. Len(bs) - 1 /\ i + 1 \in 1 .. Len(bs)
      BY <1>1, <1>4, <2>3
    <2>5. bs[i + 1].addr = End(bs[i])
      BY <2>4 DEF Chain
    <2>6. bs[i + 1].free
      <3>1. bs[i + 1].addr \notin T
        BY <2>2, <2>5
      <3> QED  BY <1>1, <2>4, <3>1, Zenon DEF Leaves
    <2>7. p < End(bs[i + 1])
      <3>1. bs[i + 1].addr < End(bs[i + 1])
        BY <2>4, ChainTypes
      <3> QED  BY <1>1, <1>4, <2>4, <2>5, <3>1
    <2>8. p + n <= End(bs[i + 1])
      BY <2>4, <2>6, <2>7, HoleEnds
    <2> QED  BY <2>1, <2>4, <2>5, <2>6, <2>8
  <1> QED  BY <1>1, <1>4, <1>5, <1>6

-----------------------------------------------------------------------------
(* kmalloc *)

\* Element i of a list replaced by the elements of p.
LEMMA Splice ==
    ASSUME NEW s \in Seq(Block), NEW i \in 1 .. Len(s), NEW p \in Seq(Block)
    PROVE  LET t == SubSeq(s, 1, i - 1) \o p \o SubSeq(s, i + 1, Len(s))
           IN  /\ t \in Seq(Block)
               /\ Len(t) = Len(s) - 1 + Len(p)
               /\ \A j \in 1 .. i - 1 : t[j] = s[j]
               /\ \A j \in 1 .. Len(p) : t[(i - 1) + j] = p[j]
               /\ \A j \in i + 1 .. Len(s) : t[j - 1 + Len(p)] = s[j]
  <1> DEFINE a == SubSeq(s, 1, i - 1)
             c == SubSeq(s, i + 1, Len(s))
             n == Len(s)
             m == Len(p)
  <1>1. n \in Nat /\ m \in Nat /\ i \in 1 .. n /\ i \in Nat
    BY LenProperties
  <1>2. \A j \in 1 .. n : s[j] \in Block
    OBVIOUS
  <1>3. /\ a \in Seq(Block) /\ Len(a) = i - 1
        /\ \A j \in 1 .. i - 1 : a[j] = s[j]
    <2>1. \A j \in 1 .. i - 1 : s[j] \in Block
      BY <1>1, <1>2
    <2>2. /\ a \in Seq(Block)
          /\ Len(a) = IF 1 <= i - 1 THEN (i - 1) - 1 + 1 ELSE 0
          /\ \A j \in 1 .. (i - 1) - 1 + 1 : a[j] = s[1 + j - 1]
      BY <1>1, <2>1, SubSeqProperties
    <2> HIDE DEF a
    <2>3. /\ Len(a) = i - 1
          /\ \A j \in 1 .. i - 1 : a[j] = s[j]
      BY <1>1, <2>2
    <2> QED  BY <2>2, <2>3
  <1>4. /\ c \in Seq(Block) /\ Len(c) = n - i
        /\ \A j \in 1 .. n - i : c[j] = s[i + j]
    <2>1. \A j \in i + 1 .. n : s[j] \in Block
      BY <1>1, <1>2
    <2>2. /\ c \in Seq(Block)
          /\ Len(c) = IF i + 1 <= n THEN n - (i + 1) + 1 ELSE 0
          /\ \A j \in 1 .. n - (i + 1) + 1 : c[j] = s[(i + 1) + j - 1]
      BY <1>1, <2>1, SubSeqProperties
    <2> HIDE DEF c, n
    <2>3. Len(c) = n - i
      BY <1>1, <2>2
    <2>4. \A j \in 1 .. n - i : c[j] = s[i + j]
      <3> TAKE j \in 1 .. n - i
      <3>1. j \in 1 .. n - (i + 1) + 1 /\ (i + 1) + j - 1 = i + j
        BY <1>1
      <3>2. c[j] = s[(i + 1) + j - 1]
        BY <2>2, <3>1
      <3> QED  BY <3>1, <3>2
    <2> QED  BY <2>2, <2>3, <2>4
  <1> HIDE DEF a, c, n, m
  <1> DEFINE b == a \o p
             t == b \o c
  <1>5. /\ b \in Seq(Block) /\ Len(b) = (i - 1) + m
        /\ \A j \in 1 .. (i - 1) + m :
              b[j] = IF j <= i - 1 THEN a[j] ELSE p[j - (i - 1)]
    <2>1. /\ b \in Seq(Block) /\ Len(b) = Len(a) + Len(p)
          /\ \A j \in 1 .. Len(a) + Len(p) :
                b[j] = IF j <= Len(a) THEN a[j] ELSE p[j - Len(a)]
      BY <1>3, ConcatProperties
    <2> HIDE DEF b
    <2>2. Len(a) = i - 1 /\ Len(p) = m
      BY <1>3 DEF m
    <2> QED  BY <2>1, <2>2, Zenon
  <1> HIDE DEF b
  <1>6. /\ t \in Seq(Block) /\ Len(t) = Len(b) + Len(c)
        /\ \A j \in 1 .. Len(b) + Len(c) :
              t[j] = IF j <= Len(b) THEN b[j] ELSE c[j - Len(b)]
    BY <1>4, <1>5, ConcatProperties
  <1> HIDE DEF t
  <1>7. Len(t) = n - 1 + m
    BY <1>1, <1>4, <1>5, <1>6
  <1>8. ASSUME NEW j \in 1 .. i - 1 PROVE t[j] = s[j]
    BY <1>1, <1>3, <1>4, <1>5, <1>6
  <1>9. ASSUME NEW j \in 1 .. m PROVE t[(i - 1) + j] = p[j]
    <2> DEFINE k == (i - 1) + j
    <2>1. /\ k \in 1 .. (i - 1) + m /\ ~(k <= i - 1) /\ k - (i - 1) = j
          /\ k <= Len(b) /\ k \in 1 .. Len(b) + Len(c)
      BY <1>1, <1>4, <1>5
    <2> HIDE DEF k
    <2>2. t[k] = b[k] /\ b[k] = p[j]
      BY <1>5, <1>6, <2>1
    <2> QED  BY <2>2 DEF k
  <1>10. ASSUME NEW j \in i + 1 .. n PROVE t[j - 1 + m] = s[j]
    <2> DEFINE k == j - 1 + m
    <2>1. /\ ~(k <= Len(b)) /\ k - Len(b) = j - i /\ k \in 1 .. Len(b) + Len(c)
          /\ j - i \in 1 .. n - i /\ i + (j - i) = j
      BY <1>1, <1>4, <1>5
    <2> HIDE DEF k
    <2>2. t[k] = c[j - i] /\ c[j - i] = s[j]
      BY <1>4, <1>6, <2>1
    <2> QED  BY <2>2 DEF k
  <1>11. /\ t \in Seq(Block)
         /\ Len(t) = n - 1 + m
         /\ \A j \in 1 .. i - 1 : t[j] = s[j]
         /\ \A j \in 1 .. m : t[(i - 1) + j] = p[j]
         /\ \A j \in i + 1 .. n : t[j - 1 + m] = s[j]
    BY <1>6, <1>7, <1>8, <1>9, <1>10, Zenon
  <1> QED  BY <1>11, Zenon DEF a, b, c, n, m, t

\* Blocks have places of their own.
LEMMA Distinct ==
    ASSUME NEW bs, NEW limit, Chain(bs, limit),
           NEW i \in 1 .. Len(bs), NEW j \in 1 .. Len(bs),
           bs[i].addr = bs[j].addr
    PROVE  i = j
  <1>1. /\ bs[i].addr < End(bs[i]) /\ bs[j].addr < End(bs[j])
        /\ bs[i].addr \in Nat /\ bs[j].addr \in Nat
        /\ End(bs[i]) \in Nat /\ End(bs[j]) \in Nat /\ Len(bs) \in Nat
    BY ChainTypes
  <1>2. /\ i < j => End(bs[i]) <= bs[j].addr
        /\ j < i => End(bs[j]) <= bs[i].addr
    BY DEF Chain
  <1> QED  BY <1>1, <1>2

\* Marks change nothing of the chain.
LEMMA SameShape ==
    ASSUME NEW bs, NEW limit, Chain(bs, limit), NEW t \in Seq(Block),
           Len(t) = Len(bs),
           \A j \in 1 .. Len(bs) : t[j].addr = bs[j].addr /\ t[j].size = bs[j].size
    PROVE  Chain(t, limit)
  <1>1. \A j \in 1 .. Len(bs) : End(t[j]) = End(bs[j])
    BY DEF End
  <1>2. Len(bs) \in Nat /\ Len(bs) >= 1
    BY ChainTypes DEF Chain
  <1>3. t[1].addr = HEAP_START /\ End(t[Len(t)]) = limit
    BY <1>1, <1>2 DEF Chain
  <1>4. \A j \in 1 .. Len(t) - 1 : End(t[j]) = t[j + 1].addr
    BY <1>1, <1>2 DEF Chain
  <1>5. \A j, k \in 1 .. Len(t) : j < k => End(t[j]) <= t[k].addr
    BY <1>1 DEF Chain
  <1> QED  BY <1>2, <1>3, <1>4, <1>5 DEF Chain

\* A block cut in two leaves a chain.
LEMMA Cut ==
    ASSUME NEW bs, NEW limit, Chain(bs, limit), NEW i \in 1 .. Len(bs),
           NEW t \in Seq(Block), Len(t) = Len(bs) + 1,
           \A j \in 1 .. i - 1 : t[j] = bs[j],
           \A j \in i + 1 .. Len(bs) : t[j + 1] = bs[j],
           t[i].addr = bs[i].addr, t[i + 1].addr = End(t[i]),
           End(t[i + 1]) = End(bs[i])
    PROVE  Chain(t, limit)
  <1> DEFINE n == Len(bs)
  <1>1. /\ n \in Nat /\ n >= 1 /\ i \in Nat /\ i >= 1 /\ i <= n /\ Len(t) = n + 1
        /\ \A j \in 1 .. n : /\ bs[j].addr \in Nat /\ End(bs[j]) \in Nat
                             /\ bs[j].addr < End(bs[j])
    BY ChainTypes DEF Chain
  <1>2. /\ \A j \in 1 .. n - 1 : End(bs[j]) = bs[j + 1].addr
        /\ \A j, k \in 1 .. n : j < k => End(bs[j]) <= bs[k].addr
        /\ bs[1].addr = HEAP_START /\ End(bs[n]) = limit
    BY DEF Chain
  <1>3. /\ t[i].addr \in Nat /\ End(t[i]) \in Nat /\ t[i].addr < End(t[i])
        /\ t[i + 1].addr \in Nat /\ End(t[i + 1]) \in Nat
        /\ t[i + 1].addr < End(t[i + 1])
    <2>1. t[i] \in Block /\ t[i + 1] \in Block
      BY <1>1
    <2> QED  BY <2>1, BlockTypes
  <1> HIDE DEF n
  <1>4. t[1].addr = HEAP_START
    <2>1. CASE i = 1
      BY <1>2, <2>1
    <2>2. CASE i # 1
      BY <1>1, <1>2, <2>2
    <2> QED  BY <2>1, <2>2
  <1>5. End(t[n + 1]) = limit
    <2>1. CASE i = n
      BY <1>2, <2>1
    <2>2. CASE i # n
      <3>1. t[n + 1] = bs[n]
        BY <1>1, <2>2 DEF n
      <3> QED  BY <1>2, <3>1
    <2> QED  BY <2>1, <2>2
  <1>6. ASSUME NEW j \in 1 .. n PROVE End(t[j]) = t[j + 1].addr
    <2>1. CASE j < i - 1
      <3>1. j \in 1 .. i - 1 /\ j + 1 \in 1 .. i - 1 /\ j \in 1 .. n - 1
        BY <1>1, <2>1
      <3>2. t[j] = bs[j] /\ t[j + 1] = bs[j + 1]
        BY <3>1, Zenon
      <3> QED  BY <1>2, <3>1, <3>2
    <2>2. CASE j = i - 1
      <3>1. t[j] = bs[j] /\ j + 1 = i /\ j \in 1 .. n - 1
        BY <1>1, <2>2
      <3> QED  BY <1>2, <3>1
    <2>3. CASE j = i
      BY <2>3
    <2>4. CASE j = i + 1
      <3>1. t[j + 1] = bs[j] /\ j - 1 \in 1 .. n - 1 /\ (j - 1) + 1 = j /\ j - 1 = i
        BY <1>1, <2>4 DEF n
      <3>2. End(bs[j - 1]) = bs[(j - 1) + 1].addr
        BY <1>2, <3>1, Zenon
      <3> QED  BY <2>4, <3>1, <3>2
    <2>5. CASE j > i + 1
      <3>1. /\ j - 1 \in i + 1 .. n /\ (j - 1) + 1 = j /\ j \in i + 1 .. n
            /\ j - 1 \in 1 .. n - 1
        BY <1>1, <2>5
      <3>2. t[(j - 1) + 1] = bs[j - 1] /\ t[j + 1] = bs[j]
        BY <3>1, Zenon DEF n
      <3>3. End(bs[j - 1]) = bs[(j - 1) + 1].addr
        BY <1>2, <3>1, Zenon
      <3> QED  BY <3>1, <3>2, <3>3
    <2>6. j < i - 1 \/ j = i - 1 \/ j = i \/ j = i + 1 \/ j > i + 1
      <3>1. j \in Int /\ i \in Int
        BY <1>1
      <3> QED  BY <3>1
    <2> QED  BY <2>1, <2>2, <2>3, <2>4, <2>5, <2>6, Zenon
  <1>7. ASSUME NEW j \in 1 .. n + 1, NEW k \in 1 .. n + 1, j < k
        PROVE  End(t[j]) <= t[k].addr
    <2>1. /\ j < i => t[j] = bs[j]
          /\ k < i => t[k] = bs[k]
      <3>1. \A x \in 1 .. n + 1 : x < i => x \in 1 .. i - 1
        BY <1>1
      <3> QED  BY <3>1
    <2>2. /\ j > i + 1 => t[j] = bs[j - 1] /\ j - 1 \in i + 1 .. n
          /\ k > i + 1 => t[k] = bs[k - 1] /\ k - 1 \in i + 1 .. n
      <3>1. ASSUME NEW x \in 1 .. n + 1, x > i + 1
            PROVE  t[x] = bs[x - 1] /\ x - 1 \in i + 1 .. n
        <4>1. x - 1 \in i + 1 .. n /\ (x - 1) + 1 = x
          BY <1>1, <3>1
        <4>2. t[(x - 1) + 1] = bs[x - 1]
          BY <4>1, Zenon DEF n
        <4> QED  BY <4>1, <4>2
      <3> QED  BY <3>1
    <2>3. CASE k < i
      <3>1. j \in 1 .. n /\ k \in 1 .. n /\ j < i
        BY <1>1, <1>7, <2>3
      <3> QED  BY <1>2, <1>7, <2>1, <2>3, <3>1
    <2>4. CASE k = i
      <3>1. j \in 1 .. n /\ i \in 1 .. n /\ j < i
        BY <1>1, <1>7, <2>4
      <3>2. End(bs[j]) <= bs[i].addr
        BY <1>2, <3>1
      <3>3. t[j] = bs[j]
        BY <2>1, <3>1
      <3> QED  BY <2>4, <3>2, <3>3
    <2>5. CASE k = i + 1 /\ j < i
      <3>1. j \in 1 .. n /\ End(bs[j]) <= bs[i].addr
        BY <1>1, <1>2, <2>5
      <3> QED  BY <1>1, <1>3, <2>1, <2>5, <3>1
    <2>6. CASE k = i + 1 /\ j = i
      BY <1>3, <2>6
    <2>7. CASE k > i + 1 /\ j < i
      <3>1. j \in 1 .. n /\ k - 1 \in 1 .. n /\ j < k - 1
        BY <1>1, <2>7
      <3>2. End(bs[j]) <= bs[k - 1].addr
        BY <1>2, <3>1, Zenon
      <3>3. t[j] = bs[j] /\ t[k] = bs[k - 1]
        BY <2>1, <2>2, <2>7, Zenon
      <3> QED  BY <3>2, <3>3, Zenon
    <2>8. CASE k > i + 1 /\ j \in {i, i + 1}
      <3>1. k - 1 \in 1 .. n /\ i < k - 1
        BY <1>1, <2>8
      <3>2. End(bs[i]) <= bs[k - 1].addr
        BY <1>1, <1>2, <3>1
      <3>3. t[k] = bs[k - 1]
        BY <2>2, <2>8, Zenon
      <3>4. bs[i].addr \in Nat /\ End(bs[i]) \in Nat /\ t[k].addr \in Nat
        BY <1>1, <3>1, <3>3
      <3>5. End(t[i + 1]) = End(bs[i]) /\ t[i + 1].addr = End(t[i])
        OBVIOUS
      <3>6. End(t[i]) <= End(bs[i])
        BY <1>3, <3>5
      <3>7. CASE j = i
        BY <1>3, <3>2, <3>3, <3>4, <3>6, <3>7
      <3>8. CASE j = i + 1
        BY <3>2, <3>3, <3>5, <3>8
      <3> QED  BY <2>8, <3>7, <3>8
    <2>9. CASE k > i + 1 /\ j > i + 1
      <3>1. j - 1 \in 1 .. n /\ k - 1 \in 1 .. n /\ j - 1 < k - 1
        BY <1>1, <1>7, <2>9
      <3> QED  BY <1>2, <2>2, <2>9, <3>1
    <2>10. \/ k < i
           \/ k = i
           \/ (k = i + 1) /\ (j < i)
           \/ (k = i + 1) /\ (j = i)
           \/ (k > i + 1) /\ (j < i)
           \/ (k > i + 1) /\ (j \in {i, i + 1})
           \/ (k > i + 1) /\ (j > i + 1)
      <3>1. j \in Int /\ k \in Int /\ i \in Int
        BY <1>1
      <3> QED  BY <1>7, <3>1
    <2> QED  BY <2>3, <2>4, <2>5, <2>6, <2>7, <2>8, <2>9, <2>10, Zenon
  <1>8. /\ t \in Seq(Block) /\ Len(t) >= 1
        /\ t[1].addr = HEAP_START
        /\ End(t[Len(t)]) = limit
        /\ \A j \in 1 .. Len(t) - 1 : End(t[j]) = t[j + 1].addr
        /\ \A j, k \in 1 .. Len(t) : j < k => End(t[j]) <= t[k].addr
    <2>1. Len(t) = n + 1 /\ Len(t) - 1 = n /\ Len(t) >= 1
      <3>1. n \in Nat /\ Len(t) = n + 1
        BY <1>1
      <3>2. (n + 1) - 1 = n /\ n + 1 >= 1
        BY <3>1
      <3> QED  BY <3>1, <3>2, Zenon
    <2> QED  BY <1>4, <1>5, <1>6, <1>7, <2>1, Zenon
  <1> QED  BY <1>8, Zenon DEF Chain

\* A list has what a call works on, also before the first call.
LEMMA ListFacts ==
    ASSUME HeapInv
    PROVE  /\ Chain(Initialized, HeapEnd)
           /\ NoTwoFree(Initialized)
           /\ Owned(Initialized, held)
  <1>1. CASE blocks # <<>>
    BY <1>1 DEF HeapInv, Initialized
  <1>2. CASE blocks = <<>>
    <2> DEFINE b == [addr |-> HEAP_START, size |-> HEAP_SIZE - HEADER, free |-> TRUE]
    <2>1. Initialized = <<b>>
      BY <1>2 DEF Initialized
    <2>2. /\ b \in Block /\ b.addr = HEAP_START /\ b.size = HEAP_SIZE - HEADER
          /\ b.free
      <3>1. HEAP_START \in HEAP_START .. HeapEnd /\ HEAP_SIZE - HEADER \in 0 .. HEAP_SIZE
        BY Places
      <3> QED  BY <3>1 DEF Block
    <2>3. End(b) = HeapEnd
      <3> HIDE DEF b
      <3> QED  BY <2>2, Places DEF End
    <2> HIDE DEF b
    <2>4. /\ <<b>> \in Seq(Block) /\ Len(<<b>>) = 1 /\ <<b>>[1] = b
      BY <2>2
    <2> DEFINE l == <<b>>
    <2> HIDE DEF l
    <2>5. l \in Seq(Block) /\ Len(l) = 1 /\ l[1] = b
      BY <2>4 DEF l
    <2>6. Chain(l, HeapEnd)
      BY <2>2, <2>3, <2>5 DEF Chain
    <2>7. NoTwoFree(l)
      BY <2>5 DEF NoTwoFree
    <2>8. held = {}
      <3>1. \A a \in held : \E i \in 1 .. Len(blocks) : BlockOf(blocks[i], a)
        BY DEF HeapInv, Owned
      <3>2. Len(blocks) = 0
        BY <1>2
      <3> QED  BY <3>1, <3>2
    <2>9. Owned(l, held)
      <3>1. \A i \in 1 .. Len(l) : l[i].free
        BY <2>2, <2>5
      <3> QED  BY <2>8, <3>1, Zenon DEF Owned
    <2> QED  BY <2>1, <2>6, <2>7, <2>9 DEF l
  <1> QED  BY <1>1, <1>2

\* t has the taken blocks of bs, and block m.
OneMore(bs, t, m) ==
    /\ \A j \in 1 .. Len(bs) : ~bs[j].free => \E k \in 1 .. Len(t) : t[k] = bs[j]
    /\ \A k \in 1 .. Len(t) :
          ~t[k].free => k = m \/ \E j \in 1 .. Len(bs) : t[k] = bs[j]

\* A free block, or the first part of it, is handed out for a.
LEMMA OwnedMore ==
    ASSUME NEW bs, NEW limit, Chain(bs, limit), NEW hold, Owned(bs, hold),
           NEW i \in 1 .. Len(bs), bs[i].free,
           NEW t, NEW m \in 1 .. Len(t), t[m].addr = bs[i].addr,
           NEW a \in Held, BlockOf(t[m], a), OneMore(bs, t, m)
    PROVE  Owned(t, hold \cup {a})
  <1>1. ASSUME NEW x \in hold \cup {a}
        PROVE  \E k \in 1 .. Len(t) : BlockOf(t[k], x)
    <2>1. CASE x = a
      BY <2>1
    <2>2. CASE x \in hold
      <3>1. PICK j \in 1 .. Len(bs) : BlockOf(bs[j], x)
        BY <2>2 DEF Owned
      <3>2. PICK k \in 1 .. Len(t) : t[k] = bs[j]
        BY <3>1 DEF BlockOf, OneMore
      <3> QED  BY <3>1, <3>2
    <2> QED  BY <2>1, <2>2
  <1>2. ASSUME NEW k \in 1 .. Len(t), ~t[k].free
        PROVE  \E x \in hold \cup {a} : BlockOf(t[k], x)
    <2>1. CASE k = m
      BY <2>1
    <2>2. CASE k # m
      <3>1. PICK j \in 1 .. Len(bs) : t[k] = bs[j]
        BY <1>2, <2>2, Zenon DEF OneMore
      <3> QED  BY <1>2, <3>1, Zenon DEF Owned
    <2> QED  BY <2>1, <2>2
  <1>3. ASSUME NEW x \in hold PROVE x.ptr # a.ptr
    <2>1. PICK j \in 1 .. Len(bs) : BlockOf(bs[j], x)
      BY Zenon DEF Owned
    <2>2. j # i
      BY <2>1 DEF BlockOf
    <2>3. bs[j].addr # bs[i].addr
      BY <2>2, Distinct
    <2>4. x.ptr = bs[j].addr + HEADER /\ a.ptr = bs[i].addr + HEADER
      BY <2>1 DEF BlockOf
    <2>5. bs[j].addr \in Nat /\ bs[i].addr \in Nat
      BY ChainTypes
    <2>6. bs[j].addr + HEADER # bs[i].addr + HEADER
      <3>1. HEADER \in Nat
        BY Places
      <3> DEFINE x1 == bs[j].addr
                 x2 == bs[i].addr
      <3>2. x1 \in Nat /\ x2 \in Nat /\ x1 # x2
        BY <2>3, <2>5, Zenon
      <3> HIDE DEF x1, x2
      <3>3. x1 + HEADER # x2 + HEADER
        BY <3>1, <3>2
      <3> QED  BY <3>3, Zenon DEF x1, x2
    <2> QED  BY <2>4, <2>6, Zenon
  <1>4. \A x, y \in hold \cup {a} : x.ptr = y.ptr => x = y
    BY <1>3 DEF Owned
  <1>5. hold \cup {a} \subseteq Held
    BY DEF Owned
  <1> QED  BY <1>1, <1>2, <1>4, <1>5, Zenon DEF Owned

LEMMA EndsBelow ==
    ASSUME NEW bs, NEW limit, Chain(bs, limit), NEW i \in 1 .. Len(bs)
    PROVE  End(bs[i]) <= limit
  <1>1. /\ Len(bs) \in Nat /\ End(bs[Len(bs)]) = limit
        /\ End(bs[i]) \in Nat
    BY ChainTypes DEF Chain
  <1>2. CASE i = Len(bs)
    BY <1>1, <1>2
  <1>3. CASE i # Len(bs)
    <2>1. Len(bs) \in 1 .. Len(bs) /\ i < Len(bs)
      BY <1>1, <1>3
    <2>2. End(bs[i]) <= bs[Len(bs)].addr
      BY <2>1 DEF Chain
    <2>3. bs[Len(bs)].addr \in Nat /\ bs[Len(bs)].addr < End(bs[Len(bs)])
      BY <2>1, ChainTypes, Zenon
    <2> DEFINE x == bs[Len(bs)].addr
               e == End(bs[Len(bs)])
               d == End(bs[i])
    <2>4. x \in Nat /\ x < e /\ d <= x /\ d \in Nat /\ e = limit
      BY <1>1, <2>2, <2>3, Zenon
    <2>5. e \in Nat
      BY <2>1, ChainTypes, Zenon
    <2> HIDE DEF x, e, d
    <2>6. d <= limit
      BY <2>4, <2>5
    <2> QED  BY <2>6, Zenon DEF d
  <1> QED  BY <1>2, <1>3

Allocation(b, n) == [ptr |-> b.addr + HEADER, asked |-> n]

LEMMA AllocationHeld ==
    ASSUME NEW bs, Chain(bs, HeapEnd), NEW i \in 1 .. Len(bs), NEW n \in Size \ {0}
    PROVE  Allocation(bs[i], n) \in Held
  <1>1. bs[i] \in Block /\ End(bs[i]) <= HeapEnd
    BY ChainTypes, EndsBelow
  <1>2. bs[i].addr + HEADER \in HEAP_START .. HeapEnd
    <2>1. bs[i].addr \in HEAP_START .. HeapEnd /\ bs[i].size \in Nat
      BY <1>1, Places DEF Block
    <2> QED  BY <1>1, <2>1, Places DEF End
  <1> QED  BY <1>2 DEF Allocation, Held

\* A block handed out whole.
LEMMA WholeBlock ==
    ASSUME NEW bs, Chain(bs, HeapEnd), NoTwoFree(bs), NEW hold, Owned(bs, hold),
           NEW i \in 1 .. Len(bs), NEW n \in Size \ {0},
           Fits(bs[i], Rounded(n)), bs[i].size <= Rounded(n) + HEADER,
           NEW t \in Seq(Block), Len(t) = Len(bs),
           \A j \in 1 .. Len(bs) : j # i => t[j] = bs[j],
           t[i] = [bs[i] EXCEPT !.free = FALSE]
    PROVE  /\ Chain(t, HeapEnd)
           /\ NoTwoFree(t)
           /\ Owned(t, hold \cup {Allocation(bs[i], n)})
  <1>1. /\ Len(bs) \in Nat /\ bs[i] \in Block /\ bs[i].free
        /\ bs[i].size >= Rounded(n)
    BY ChainTypes DEF Fits
  <1>2. /\ t[i].addr = bs[i].addr /\ t[i].size = bs[i].size /\ t[i].free = FALSE
    BY <1>1 DEF Block
  <1>3. Chain(t, HeapEnd)
    <2>1. \A j \in 1 .. Len(bs) : t[j].addr = bs[j].addr /\ t[j].size = bs[j].size
      BY <1>2
    <2> QED  BY <2>1, SameShape
  <1>4. NoTwoFree(t)
    <2>1. ASSUME NEW k \in 1 .. Len(t) - 1, t[k].free, t[k + 1].free PROVE FALSE
      <3>1. k # i /\ k + 1 # i
        BY <1>2, <2>1
      <3>2. k \in 1 .. Len(bs) - 1 /\ k \in 1 .. Len(bs) /\ k + 1 \in 1 .. Len(bs)
        BY <1>1
      <3> QED  BY <2>1, <3>1, <3>2 DEF NoTwoFree
    <2> QED  BY <2>1 DEF NoTwoFree
  <1>5. BlockOf(t[i], Allocation(bs[i], n))
    <2>1. /\ Allocation(bs[i], n).ptr = bs[i].addr + HEADER
          /\ Allocation(bs[i], n).asked = n
      BY DEF Allocation
    <2> QED  BY <1>1, <1>2, <2>1 DEF BlockOf
  <1>6. Allocation(bs[i], n) \in Held
    BY AllocationHeld
  <1>7. \A j \in 1 .. Len(bs) : ~bs[j].free => \E k \in 1 .. Len(t) : t[k] = bs[j]
    BY <1>1
  <1>8. \A k \in 1 .. Len(t) :
           ~t[k].free => k = i \/ \E j \in 1 .. Len(bs) : t[k] = bs[j]
    OBVIOUS
  <1>9. i \in 1 .. Len(t)
    OBVIOUS
  <1>10. OneMore(bs, t, i)
    BY <1>7, <1>8, Zenon DEF OneMore
  <1> DEFINE a == Allocation(bs[i], n)
  <1> HIDE DEF a
  <1>11. Owned(t, hold \cup {a})
    <2>1. a \in Held /\ BlockOf(t[i], a)
      BY <1>5, <1>6, Zenon DEF a
    <2> QED  BY <1>1, <1>2, <1>9, <1>10, <2>1, OwnedMore, Zenon
  <1> QED  BY <1>3, <1>4, <1>11, Zenon DEF a

\* A block of which the first part is handed out.
LEMMA FirstPart ==
    ASSUME NEW bs, Chain(bs, HeapEnd), NoTwoFree(bs), NEW hold, Owned(bs, hold),
           NEW i \in 1 .. Len(bs), NEW n \in Size \ {0}, bs[i].free,
           NEW t \in Seq(Block), Len(t) = Len(bs) + 1,
           \A j \in 1 .. i - 1 : t[j] = bs[j],
           \A j \in i + 1 .. Len(bs) : t[j + 1] = bs[j],
           t[i].addr = bs[i].addr, t[i].size = Rounded(n), ~t[i].free,
           t[i + 1].addr = End(t[i]), End(t[i + 1]) = End(bs[i]), t[i + 1].free
    PROVE  /\ Chain(t, HeapEnd)
           /\ NoTwoFree(t)
           /\ Owned(t, hold \cup {Allocation(bs[i], n)})
  <1>1. Len(bs) \in Nat /\ Rounded(n) \in Nat
    BY ChainTypes, RoundedFacts, Places
  <1>2. Chain(t, HeapEnd)
    BY Cut
  <1>3. \A x \in i + 2 .. Len(bs) + 1 : t[x] = bs[x - 1] /\ x - 1 \in i + 1 .. Len(bs)
    <2> TAKE x \in i + 2 .. Len(bs) + 1
    <2>1. x - 1 \in i + 1 .. Len(bs) /\ (x - 1) + 1 = x
      BY <1>1
    <2>2. t[(x - 1) + 1] = bs[x - 1]
      BY <2>1, Zenon
    <2> QED  BY <2>1, <2>2
  <1>4. NoTwoFree(t)
    <2>1. ASSUME NEW k \in 1 .. Len(bs), t[k].free, t[k + 1].free PROVE FALSE
      <3>1. k # i /\ k + 1 # i
        BY <2>1
      <3>2. CASE k < i
        <4>1. t[k] = bs[k] /\ t[k + 1] = bs[k + 1] /\ k \in 1 .. Len(bs) - 1
          <5>1. k \in 1 .. i - 1 /\ k + 1 \in 1 .. i - 1 /\ k \in 1 .. Len(bs) - 1
            BY <1>1, <3>1, <3>2
          <5> QED  BY <5>1
        <4> QED  BY <2>1, <4>1 DEF NoTwoFree
      <3>3. CASE k = i + 1
        <4>1. k + 1 \in i + 2 .. Len(bs) + 1 /\ (k + 1) - 1 = i + 1
              /\ i \in 1 .. Len(bs) - 1
          BY <1>1, <3>3
        <4>2. t[k + 1] = bs[i + 1]
          BY <1>3, <4>1
        <4> QED  BY <2>1, <4>1, <4>2 DEF NoTwoFree
      <3>4. CASE k > i + 1
        <4>1. /\ k \in i + 2 .. Len(bs) + 1 /\ k + 1 \in i + 2 .. Len(bs) + 1
              /\ (k + 1) - 1 = (k - 1) + 1 /\ k - 1 \in 1 .. Len(bs) - 1
          BY <1>1, <3>4
        <4>2. t[k] = bs[k - 1] /\ t[k + 1] = bs[(k + 1) - 1]
          BY <1>3, <4>1
        <4>3. t[k + 1] = bs[(k - 1) + 1]
          BY <4>1, <4>2
        <4> QED  BY <2>1, <4>1, <4>2, <4>3, Zenon DEF NoTwoFree
      <3> QED  BY <1>1, <3>1, <3>2, <3>3, <3>4
    <2>2. Len(t) - 1 = Len(bs)
      BY <1>1
    <2> QED  BY <2>1, <2>2, Zenon DEF NoTwoFree
  <1>5. BlockOf(t[i], Allocation(bs[i], n))
    <2>1. /\ Allocation(bs[i], n).ptr = bs[i].addr + HEADER
          /\ Allocation(bs[i], n).asked = n
      BY DEF Allocation
    <2> QED  BY <1>1, <2>1, Places DEF BlockOf
  <1>6. Allocation(bs[i], n) \in Held
    BY AllocationHeld
  <1>7. ASSUME NEW j \in 1 .. Len(bs), ~bs[j].free
        PROVE  \E k \in 1 .. Len(t) : t[k] = bs[j]
    <2>1. CASE j < i
      <3>1. j \in 1 .. i - 1 /\ j \in 1 .. Len(t)
        BY <1>1, <2>1
      <3> QED  BY <3>1
    <2>2. CASE j > i
      <3>1. j \in i + 1 .. Len(bs) /\ j + 1 \in 1 .. Len(t)
        BY <1>1, <2>2
      <3> QED  BY <3>1
    <2> QED  BY <1>7, <2>1, <2>2
  <1>8. ASSUME NEW k \in 1 .. Len(t), ~t[k].free, k # i
        PROVE  \E j \in 1 .. Len(bs) : t[k] = bs[j]
    <2>1. CASE k < i
      <3>1. k \in 1 .. i - 1 /\ k \in 1 .. Len(bs)
        BY <1>1, <2>1
      <3> QED  BY <3>1
    <2>2. CASE k > i
      <3>1. k # i + 1
        BY <1>8
      <3>2. k \in i + 2 .. Len(bs) + 1
        BY <1>1, <2>2, <3>1
      <3>3. t[k] = bs[k - 1] /\ k - 1 \in 1 .. Len(bs)
        BY <1>1, <1>3, <3>2
      <3> QED  BY <3>3
    <2> QED  BY <1>8, <2>1, <2>2
  <1>9. i \in 1 .. Len(t)
    BY <1>1
  <1>10. OneMore(bs, t, i)
    BY <1>7, <1>8, Zenon DEF OneMore
  <1> DEFINE a == Allocation(bs[i], n)
  <1> HIDE DEF a
  <1>11. Owned(t, hold \cup {a})
    <2>1. a \in Held /\ BlockOf(t[i], a)
      BY <1>5, <1>6, Zenon DEF a
    <2> QED  BY <1>9, <1>10, <2>1, OwnedMore, Zenon
  <1> QED  BY <1>2, <1>4, <1>11, Zenon DEF a

\* p is block b in two, the first taken and of size bytes.
InTwo(p, b, size) ==
    /\ p \in Seq(Block) /\ Len(p) = 2
    /\ p[1].addr = b.addr /\ p[1].size = size /\ ~p[1].free
    /\ p[2].addr = End(p[1]) /\ End(p[2]) = End(b) /\ p[2].free
    /\ p[2].addr = b.addr + HEADER + size

LEMMA PiecesFacts ==
    ASSUME NEW b \in Block, NEW size \in Nat, b.size > size + HEADER,
           End(b) <= HeapEnd
    PROVE  InTwo(Pieces(b, size), b, size)
  <1> DEFINE addr == b.addr + HEADER + size
             rest == b.size - size - HEADER
             p == [b EXCEPT !.size = size, !.free = FALSE]
             q == [addr |-> addr, size |-> rest, free |-> TRUE]
  <1>1. /\ b.addr \in HEAP_START .. HeapEnd /\ b.size \in 0 .. HEAP_SIZE
        /\ b.free \in BOOLEAN
        /\ b = [addr |-> b.addr, size |-> b.size, free |-> b.free]
    BY DEF Block
  <1>2. /\ addr \in HEAP_START .. HeapEnd /\ rest \in 0 .. HEAP_SIZE
        /\ size \in 0 .. HEAP_SIZE
        /\ addr + HEADER + rest = b.addr + HEADER + b.size
    BY <1>1, Places DEF End
  <1> HIDE DEF addr, rest
  <1>3. b \in Block /\ size \in 0 .. HEAP_SIZE
    BY <1>2
  <1>4. p \in Block /\ p.addr = b.addr /\ p.size = size /\ p.free = FALSE
    <2> HIDE <1>1, <1>2
    <2> QED  BY <1>3 DEF Block
  <1>5. q \in Block /\ q.addr = addr /\ q.size = rest /\ q.free = TRUE
    BY <1>2 DEF Block
  <1>6. Pieces(b, size) = <<p, q>>
    BY DEF Pieces, addr, rest
  <1> HIDE DEF p, q
  <1> DEFINE s == <<p, q>>
  <1>7. s \in Seq(Block) /\ Len(s) = 2 /\ s[1] = p /\ s[2] = q
    BY <1>4, <1>5
  <1> HIDE DEF s
  <1>8. addr = End(p) /\ End(q) = End(b)
    BY <1>2, <1>4, <1>5 DEF End, addr
  <1>9. /\ s \in Seq(Block) /\ Len(s) = 2
        /\ s[1].addr = b.addr /\ s[1].size = size /\ ~s[1].free
        /\ s[2].addr = End(s[1]) /\ End(s[2]) = End(b) /\ s[2].free
        /\ s[2].addr = b.addr + HEADER + size
    <2>1. addr = b.addr + HEADER + size
      BY DEF addr
    <2> QED  BY <1>4, <1>5, <1>7, <1>8, <2>1
  <1> QED  BY <1>6, <1>9, Zenon DEF s, InTwo

LEMMA MallocKeeps ==
    ASSUME HeapInv, NEW n \in Size, kmalloc(n)
    PROVE  HeapInv'
  <1> DEFINE L == Initialized
             size == Rounded(n)
  <1>1. Chain(L, HeapEnd) /\ NoTwoFree(L) /\ Owned(L, held)
    BY ListFacts
  <1>2. PICK i \in 1 .. Len(L) :
          /\ n # 0
          /\ Fits(L[i], size)
          /\ IF Unmapped(HandedOut(L[i], size))
                THEN /\ faulted' = n
                     /\ blocks' = L
                     /\ held' = held
                ELSE /\ blocks' = SubSeq(L, 1, i - 1) \o HandedOut(L[i], size)
                                     \o SubSeq(L, i + 1, Len(L))
                     /\ held' = held \cup {Allocation(L[i], n)}
                     /\ faulted' = faulted
    BY Zenon DEF kmalloc, Allocation
  <1>3. L \in Seq(Block) /\ L[i] \in Block /\ size \in Nat /\ Len(L) \in Nat
        /\ End(L[i]) <= HeapEnd /\ n \in Size \ {0}
    <2>1. L \in Seq(Block)
      BY <1>1, Zenon DEF Chain
    <2>2. L[i] \in Block /\ Len(L) \in Nat
      BY <1>1, ChainTypes, Zenon
    <2>3. size \in Nat
      <3>1. n \in 0 .. Word - 1
        BY Places
      <3> QED  BY <3>1, RoundedFacts
    <2>4. End(L[i]) <= HeapEnd
      BY <1>1, EndsBelow, Zenon
    <2>5. n \in Size \ {0}
      BY <1>2
    <2> QED  BY <2>1, <2>2, <2>3, <2>4, <2>5
  <1> HIDE DEF L, size
  <1>4. CASE Unmapped(HandedOut(L[i], size))
    <2>1. faulted' = n /\ blocks' = L /\ held' = held
      BY <1>2, <1>4
    <2> QED  BY <1>1, <2>1, Zenon DEF HeapInv
  <1>5. CASE ~Unmapped(HandedOut(L[i], size))
    <2> DEFINE p == HandedOut(L[i], size)
               t == SubSeq(L, 1, i - 1) \o p \o SubSeq(L, i + 1, Len(L))
    <2>1. blocks' = t /\ held' = held \cup {Allocation(L[i], n)} /\ faulted' = faulted
      BY <1>2, <1>5
    <2>2. /\ L[i].free /\ L[i].size >= size /\ L[i].size \in Nat
      BY <1>2, <1>3, BlockTypes DEF Fits
    <2> HIDE DEF t
    <2>3. /\ Chain(t, HeapEnd) /\ NoTwoFree(t)
          /\ Owned(t, held \cup {Allocation(L[i], n)})
      <3>1. CASE L[i].size > size + HEADER
        <4>1. p = Pieces(L[i], size)
          BY <3>1 DEF HandedOut
        <4> HIDE DEF p
        <4>2. /\ p \in Seq(Block) /\ Len(p) = 2
              /\ p[1].addr = L[i].addr /\ p[1].size = size /\ ~p[1].free
              /\ p[2].addr = End(p[1]) /\ End(p[2]) = End(L[i]) /\ p[2].free
          <5>1. InTwo(Pieces(L[i], size), L[i], size)
            BY <1>3, <3>1, PiecesFacts, Zenon
          <5> QED  BY <4>1, <5>1, Zenon DEF InTwo
        <4>3. /\ t \in Seq(Block)
              /\ Len(t) = Len(L) - 1 + Len(p)
              /\ \A j \in 1 .. i - 1 : t[j] = L[j]
              /\ \A j \in 1 .. Len(p) : t[(i - 1) + j] = p[j]
              /\ \A j \in i + 1 .. Len(L) : t[j - 1 + Len(p)] = L[j]
          BY <1>3, <4>2, Splice, Zenon DEF t
        <4>4. Len(t) = Len(L) + 1
          BY <1>3, <4>2, <4>3
        <4>5. t[i] = p[1] /\ t[i + 1] = p[2]
          <5>1. /\ 1 \in 1 .. Len(p) /\ 2 \in 1 .. Len(p)
                /\ (i - 1) + 1 = i /\ (i - 1) + 2 = i + 1
            BY <1>3, <4>2
          <5> QED  BY <4>2, <4>3, <5>1, Zenon
        <4>6. \A j \in i + 1 .. Len(L) : t[j + 1] = L[j]
          <5> TAKE j \in i + 1 .. Len(L)
          <5>1. j - 1 + Len(p) = j + 1
            BY <1>3, <4>2
          <5> QED  BY <4>3, <5>1
        <4>7. /\ t[i].addr = L[i].addr /\ t[i].size = size /\ ~t[i].free
              /\ t[i + 1].addr = End(t[i]) /\ End(t[i + 1]) = End(L[i])
              /\ t[i + 1].free
          BY <4>2, <4>5, Zenon
        <4>8. t[i].size = Rounded(n)
          BY <4>7 DEF size
        <4> QED
          BY <1>1, <1>3, <2>2, <4>3, <4>4, <4>6, <4>7, <4>8, FirstPart, Zenon
      <3>2. CASE ~(L[i].size > size + HEADER)
        <4> DEFINE q == [L[i] EXCEPT !.free = FALSE]
        <4>1. p = <<q>>
          BY <3>2 DEF HandedOut
        <4>2. q \in Block
          BY <1>3 DEF Block
        <4> HIDE DEF q, p
        <4>3. p \in Seq(Block) /\ Len(p) = 1 /\ p[1] = q
          BY <4>1, <4>2
        <4>4. /\ t \in Seq(Block)
              /\ Len(t) = Len(L) - 1 + Len(p)
              /\ \A j \in 1 .. i - 1 : t[j] = L[j]
              /\ \A j \in 1 .. Len(p) : t[(i - 1) + j] = p[j]
              /\ \A j \in i + 1 .. Len(L) : t[j - 1 + Len(p)] = L[j]
          BY <1>3, <4>3, Splice, Zenon DEF t, p
        <4>5. Len(t) = Len(L)
          BY <1>3, <4>3, <4>4
        <4>6. t[i] = q
          <5>1. 1 \in 1 .. 1 /\ (i - 1) + 1 = i
            BY <1>3
          <5> QED  BY <4>3, <4>4, <5>1, Zenon
        <4>7. ASSUME NEW j \in 1 .. Len(L), j # i PROVE t[j] = L[j]
          <5>1. CASE j < i
            <6>1. j \in 1 .. i - 1
              BY <1>3, <5>1
            <6> QED  BY <4>4, <6>1
          <5>2. CASE j > i
            <6>1. j \in i + 1 .. Len(L) /\ j - 1 + Len(p) = j
              BY <1>3, <4>3, <5>2
            <6> QED  BY <4>4, <6>1
          <5> QED  BY <1>3, <4>7, <5>1, <5>2
        <4>8. L[i].size <= size + HEADER
          BY <1>3, <2>2, <3>2, Places
        <4> QED
          BY <1>1, <1>2, <1>3, <4>4, <4>5, <4>6, <4>7, <4>8, WholeBlock, Zenon
             DEF size, q
      <3> QED  BY <3>1, <3>2
    <2> QED  BY <2>1, <2>3, Zenon DEF HeapInv
  <1> QED  BY <1>4, <1>5

-----------------------------------------------------------------------------
(* kfree *)

\* The walk over the list is defined: it begins with nothing, and takes one
\* block after the other.
LEMMA WalkSteps ==
    ASSUME NEW list \in Seq(Block)
    PROVE  /\ Walk(list)[0] = <<>>
           /\ \A k \in 1 .. Len(list) :
                 Walk(list)[k] = Join(Walk(list)[k - 1], list[k])
  <1> DEFINE After(d, k) == Join(d, list[k])
             Goes(f, n) == /\ f = [k \in 0 .. n |-> f[k]]
                           /\ f[0] = <<>>
                           /\ \A k \in 1 .. n : f[k] = After(f[k - 1], k)
             Reached == {n \in Nat : \E f : Goes(f, n)}
             N == Len(list)
  <1>1. N \in Nat
    BY LenProperties
  <1> HIDE DEF After
  <1>2. 0 \in Reached
    <2> DEFINE f == [k \in 0 .. 0 |-> <<>>]
    <2>1. Goes(f, 0)
      OBVIOUS
    <2> QED  BY <2>1
  <1>3. \A n \in Nat : n \in Reached => n + 1 \in Reached
    <2> SUFFICES ASSUME NEW n \in Nat, n \in Reached PROVE n + 1 \in Reached
      OBVIOUS
    <2>1. PICK f : Goes(f, n)
      OBVIOUS
    <2> DEFINE g == [k \in 0 .. n + 1 |->
                        IF k = n + 1 THEN After(f[n], n + 1) ELSE f[k]]
    <2>2. g = [k \in 0 .. n + 1 |-> g[k]]
      OBVIOUS
    <2>3. g[0] = <<>>
      BY <2>1
    <2>4. \A k \in 1 .. n + 1 : g[k] = After(g[k - 1], k)
      <3> SUFFICES ASSUME NEW k \in 1 .. n + 1 PROVE g[k] = After(g[k - 1], k)
        OBVIOUS
      <3>1. g[k - 1] = f[k - 1]
        OBVIOUS
      <3>2. CASE k = n + 1
        BY <3>1, <3>2
      <3>3. CASE k # n + 1
        BY <2>1, <3>1, <3>3
      <3> QED  BY <3>2, <3>3
    <2>5. Goes(g, n + 1)
      BY <2>2, <2>3, <2>4
    <2> HIDE DEF g, Goes
    <2> QED  BY <2>5
  <1>4. N \in Reached
    <2> HIDE DEF Reached, N
    <2>1. Nat \subseteq Reached
      BY <1>2, <1>3, NatInd, Zenon
    <2> QED  BY <1>1, <2>1
  <1>5. PICK f : Goes(f, N)
    BY <1>4
  <1>6. f = [k \in 0 .. N |-> IF k = 0 THEN <<>> ELSE Join(f[k - 1], list[k])]
    <2>1. \A k \in 0 .. N : f[k] = IF k = 0 THEN <<>> ELSE Join(f[k - 1], list[k])
      BY <1>1, <1>5 DEF After
    <2> QED  BY <1>5, <2>1, Zenon
  <1> DEFINE w == Walk(list)
             walk == CHOOSE x : x = [k \in 0 .. N |->
                        IF k = 0 THEN <<>> ELSE Join(x[k - 1], list[k])]
  <1>7. w = [k \in 0 .. N |-> IF k = 0 THEN <<>> ELSE Join(w[k - 1], list[k])]
    <2>1. w = walk
      BY DEF Walk
    <2>2. walk = [k \in 0 .. N |-> IF k = 0 THEN <<>> ELSE Join(walk[k - 1], list[k])]
      <3> HIDE DEF N
      <3> QED  BY <1>6, Zenon
    <2> QED  BY <2>1, <2>2, Zenon
  <1> HIDE DEF w
  <1>8. \A k \in 0 .. N : w[k] = IF k = 0 THEN <<>> ELSE Join(w[k - 1], list[k])
    BY <1>7, Zenon
  <1>9. w[0] = <<>> /\ \A k \in 1 .. N : w[k] = Join(w[k - 1], list[k])
    BY <1>1, <1>8
  <1> QED  BY <1>9 DEF w

\* A block at the end of a chain.
LEMMA ChainAppend ==
    ASSUME NEW d, NEW limit, Chain(d, limit), NEW b \in Block, b.addr = limit,
           NEW e \in Seq(Block), Len(e) = Len(d) + 1, e[Len(d) + 1] = b,
           \A j \in 1 .. Len(d) : e[j] = d[j]
    PROVE  Chain(e, End(b))
  <1> DEFINE n == Len(d)
  <1>1. /\ n \in Nat /\ n >= 1 /\ Len(e) = n + 1 /\ n \in 1 .. n
        /\ \A j \in 1 .. n : /\ d[j].addr \in Nat /\ End(d[j]) \in Nat
    BY ChainTypes DEF Chain
  <1>2. /\ d[1].addr = HEAP_START
        /\ End(d[n]) = limit
        /\ \A j \in 1 .. n - 1 : End(d[j]) = d[j + 1].addr
        /\ \A j, k \in 1 .. n : j < k => End(d[j]) <= d[k].addr
    BY Zenon DEF Chain
  <1>3. \A j \in 1 .. n : End(d[j]) <= limit
    BY EndsBelow, Zenon
  <1> HIDE DEF n
  <1>4. /\ e[1].addr = HEAP_START /\ e[n + 1] = b
        /\ \A j \in 1 .. n : e[j] = d[j]
    BY <1>1, <1>2 DEF n
  <1>5. ASSUME NEW j \in 1 .. n PROVE End(e[j]) = e[j + 1].addr
    <2>1. CASE j = n
      BY <1>2, <1>4, <2>1
    <2>2. CASE j # n
      <3>1. j \in 1 .. n - 1 /\ j + 1 \in 1 .. n
        BY <1>1, <2>2
      <3> QED  BY <1>2, <1>4, <3>1
    <2> QED  BY <2>1, <2>2
  <1>6. ASSUME NEW j \in 1 .. n + 1, NEW k \in 1 .. n + 1, j < k
        PROVE  End(e[j]) <= e[k].addr
    <2>1. j \in 1 .. n
      BY <1>1, <1>6
    <2>2. CASE k = n + 1
      BY <1>3, <1>4, <2>1, <2>2
    <2>3. CASE k # n + 1
      <3>1. k \in 1 .. n
        BY <1>1, <2>3
      <3> QED  BY <1>2, <1>4, <1>6, <2>1, <3>1
    <2> QED  BY <2>2, <2>3
  <1>7. /\ e \in Seq(Block) /\ Len(e) >= 1
        /\ e[1].addr = HEAP_START
        /\ End(e[Len(e)]) = End(b)
        /\ \A j \in 1 .. Len(e) - 1 : End(e[j]) = e[j + 1].addr
        /\ \A j, k \in 1 .. Len(e) : j < k => End(e[j]) <= e[k].addr
    <2>1. Len(e) = n + 1 /\ Len(e) - 1 = n /\ Len(e) >= 1
      <3>1. n \in Nat /\ Len(e) = n + 1
        BY <1>1, Zenon
      <3>2. \A x \in Nat : (x + 1) - 1 = x /\ x + 1 >= 1
        OBVIOUS
      <3> QED  BY <3>1, <3>2, Zenon
    <2> QED  BY <1>4, <1>5, <1>6, <2>1, Zenon
  <1> QED  BY <1>7, Zenon DEF Chain

\* The last block of a chain replaced by one at the same place.
LEMMA ChainLast ==
    ASSUME NEW d, NEW limit, Chain(d, limit), NEW b \in Block,
           b.addr = d[Len(d)].addr,
           NEW e \in Seq(Block), Len(e) = Len(d), e[Len(d)] = b,
           \A j \in 1 .. Len(d) - 1 : e[j] = d[j]
    PROVE  Chain(e, End(b))
  <1> DEFINE n == Len(d)
  <1>1. /\ n \in Nat /\ n >= 1 /\ Len(e) = n /\ n \in 1 .. n
    BY ChainTypes DEF Chain
  <1>2. /\ d[1].addr = HEAP_START
        /\ \A j \in 1 .. n - 1 : End(d[j]) = d[j + 1].addr
        /\ \A j, k \in 1 .. n : j < k => End(d[j]) <= d[k].addr
    BY Zenon DEF Chain
  <1> HIDE DEF n
  <1>3. /\ \A j \in 1 .. n : e[j].addr = d[j].addr
        /\ \A j \in 1 .. n - 1 : e[j] = d[j]
        /\ e[n] = b
    <2>1. \A j \in 1 .. n - 1 : e[j] = d[j]
      BY DEF n
    <2>2. e[n] = b /\ b.addr = d[n].addr
      BY DEF n
    <2> QED  BY <1>1, <2>1, <2>2
  <1>4. ASSUME NEW j \in 1 .. n - 1 PROVE End(e[j]) = e[j + 1].addr
    <2>1. j + 1 \in 1 .. n
      BY <1>1
    <2> QED  BY <1>2, <1>3, <2>1
  <1>5. ASSUME NEW j \in 1 .. n, NEW k \in 1 .. n, j < k
        PROVE  End(e[j]) <= e[k].addr
    <2>1. j \in 1 .. n - 1
      BY <1>1, <1>5
    <2> QED  BY <1>2, <1>3, <1>5, <2>1
  <1>6. /\ e \in Seq(Block) /\ Len(e) >= 1
        /\ e[1].addr = HEAP_START
        /\ End(e[Len(e)]) = End(b)
        /\ \A j \in 1 .. Len(e) - 1 : End(e[j]) = e[j + 1].addr
        /\ \A j, k \in 1 .. Len(e) : j < k => End(e[j]) <= e[k].addr
    <2>1. e[1].addr = HEAP_START
      BY <1>1, <1>2, <1>3
    <2> QED  BY <1>1, <1>3, <1>4, <1>5, <2>1, Zenon
  <1> QED  BY <1>6, Zenon DEF Chain

\* d is what the walk has made of the first i blocks of bs.
WalkedTo(bs, d, i) ==
    /\ Chain(d, End(bs[i]))
    /\ NoTwoFree(d)
    /\ d[Len(d)].free = bs[i].free
    /\ \A j \in 1 .. i : ~bs[j].free => \E k \in 1 .. Len(d) : d[k] = bs[j]
    /\ \A k \in 1 .. Len(d) : ~d[k].free => \E j \in 1 .. i : d[k] = bs[j]

\* A block that does not join is put behind the others.
LEMMA JoinAppends ==
    ASSUME NEW bs, Chain(bs, HeapEnd), NEW i \in 1 .. Len(bs) - 1,
           NEW d, WalkedTo(bs, d, i), ~(bs[i].free /\ bs[i + 1].free)
    PROVE  WalkedTo(bs, Append(d, bs[i + 1]), i + 1)
  <1> DEFINE b == bs[i + 1]
             n == Len(d)
             e == Append(d, b)
  <1>1. /\ i \in Nat /\ i + 1 \in 1 .. Len(bs) /\ i \in 1 .. Len(bs)
    BY ChainTypes
  <1>2. b \in Block /\ b.addr = End(bs[i])
    BY <1>1, ChainTypes DEF Chain
  <1>3. /\ Chain(d, End(bs[i])) /\ NoTwoFree(d) /\ d[n].free = bs[i].free
        /\ \A j \in 1 .. i : ~bs[j].free => \E k \in 1 .. n : d[k] = bs[j]
        /\ \A k \in 1 .. n : ~d[k].free => \E j \in 1 .. i : d[k] = bs[j]
    BY Zenon DEF WalkedTo
  <1>4. d \in Seq(Block) /\ n \in Nat /\ n >= 1
    BY <1>3, ChainTypes DEF Chain
  <1>5. /\ e \in Seq(Block) /\ Len(e) = n + 1 /\ e[n + 1] = b
        /\ \A j \in 1 .. n : e[j] = d[j]
    BY <1>2, <1>4, AppendProperties
  <1> HIDE DEF e, b
  <1>6. Chain(e, End(b))
    BY <1>2, <1>3, <1>5, ChainAppend, Zenon
  <1>7. NoTwoFree(e)
    <2>1. ASSUME NEW k \in 1 .. n, e[k].free, e[k + 1].free PROVE FALSE
      <3>1. CASE k = n
        <4>1. bs[i].free /\ b.free
          BY <1>3, <1>5, <2>1, <3>1
        <4> QED  BY <4>1 DEF b
      <3>2. CASE k # n
        <4>1. k \in 1 .. n - 1 /\ k + 1 \in 1 .. n
          BY <1>4, <3>2
        <4>2. d[k].free /\ d[k + 1].free
          BY <1>5, <2>1, <4>1
        <4> QED  BY <1>3, <4>1, <4>2, Zenon DEF NoTwoFree
      <3> QED  BY <3>1, <3>2
    <2>2. Len(e) - 1 = n
      BY <1>4, <1>5
    <2> QED  BY <2>1, <2>2, Zenon DEF NoTwoFree
  <1>8. e[Len(e)].free = b.free
    BY <1>5
  <1>9. ASSUME NEW j \in 1 .. i + 1, ~bs[j].free
        PROVE  \E k \in 1 .. n + 1 : e[k] = bs[j]
    <2>1. CASE j = i + 1
      <3>1. n + 1 \in 1 .. n + 1
        BY <1>4
      <3>2. e[n + 1] = bs[j]
        BY <1>5, <2>1 DEF b
      <3> QED  BY <3>1, <3>2
    <2>2. CASE j # i + 1
      <3>1. j \in 1 .. i
        BY <1>1, <2>2
      <3>2. PICK k \in 1 .. n : d[k] = bs[j]
        BY <1>3, <1>9, <3>1
      <3>3. k \in 1 .. n + 1
        BY <1>4
      <3> QED  BY <1>5, <3>2, <3>3
    <2> QED  BY <2>1, <2>2
  <1>10. ASSUME NEW k \in 1 .. n + 1, ~e[k].free
         PROVE  \E j \in 1 .. i + 1 : e[k] = bs[j]
    <2>1. CASE k = n + 1
      <3>1. i + 1 \in 1 .. i + 1
        BY <1>1
      <3> QED  BY <1>5, <2>1, <3>1 DEF b
    <2>2. CASE k # n + 1
      <3>1. k \in 1 .. n
        BY <1>4, <2>2
      <3>2. PICK j \in 1 .. i : d[k] = bs[j]
        BY <1>3, <1>5, <1>10, <3>1
      <3>3. j \in 1 .. i + 1
        BY <1>1
      <3> QED  BY <1>5, <3>1, <3>2, <3>3
    <2> QED  BY <2>1, <2>2
  <1>11. Len(e) = n + 1
    BY <1>5
  <1> HIDE DEF n
  <1>12. WalkedTo(bs, e, i + 1)
    BY <1>6, <1>7, <1>8, <1>9, <1>10, <1>11, Zenon DEF WalkedTo, b
  <1> QED  BY <1>12 DEF e, b

LEMMA Sums ==
    ASSUME NEW h \in Nat, NEW low \in Nat, NEW len \in Nat,
           NEW a1 \in Nat, NEW s1 \in Nat, NEW a2 \in Nat, NEW s2 \in Nat,
           low <= a1, a1 + h + s1 = a2, a2 + h + s2 <= low + len
    PROVE  /\ s1 + h + s2 \in 0 .. len
           /\ a1 + h + (s1 + h + s2) = a2 + h + s2
  OBVIOUS

\* A free block behind a free one is taken into it.
LEMMA JoinJoins ==
    ASSUME NEW bs, Chain(bs, HeapEnd), NEW i \in 1 .. Len(bs) - 1,
           NEW d, WalkedTo(bs, d, i), bs[i].free, bs[i + 1].free
    PROVE  WalkedTo(bs, [d EXCEPT ![Len(d)].size = @ + HEADER + bs[i + 1].size],
                    i + 1)
  <1> DEFINE b == bs[i + 1]
             n == Len(d)
             size == d[n].size + HEADER + b.size
             c == [d[n] EXCEPT !.size = size]
             e == [d EXCEPT ![n] = c]
  <1>1. /\ i \in Nat /\ i + 1 \in 1 .. Len(bs) /\ i \in 1 .. Len(bs)
    BY ChainTypes
  <1>2. b \in Block /\ b.addr = End(bs[i]) /\ End(b) <= HeapEnd /\ b.free
    BY <1>1, ChainTypes, EndsBelow DEF Chain
  <1>3. /\ Chain(d, End(bs[i])) /\ NoTwoFree(d) /\ d[n].free = bs[i].free
        /\ \A j \in 1 .. i : ~bs[j].free => \E k \in 1 .. n : d[k] = bs[j]
        /\ \A k \in 1 .. n : ~d[k].free => \E j \in 1 .. i : d[k] = bs[j]
    BY Zenon DEF WalkedTo
  <1>4. /\ d \in Seq(Block) /\ n \in Nat /\ n \in 1 .. n
        /\ d[n] \in Block /\ End(d[n]) = b.addr
    BY <1>2, <1>3, ChainTypes DEF Chain
  <1>5. c \in Block /\ c.addr = d[n].addr /\ c.free = d[n].free /\ End(c) = End(b)
    <2>1. size \in 0 .. HEAP_SIZE /\ d[n].addr + HEADER + size = End(b)
      <3> DEFINE x == d[n]
      <3>1. x \in Block /\ b \in Block /\ End(x) = b.addr /\ End(b) <= HeapEnd
        BY <1>2, <1>4
      <3>2. /\ x.addr \in HEAP_START .. HeapEnd /\ x.size \in Nat
            /\ b.addr \in Nat /\ b.size \in Nat
        <4> HIDE DEF b, x
        <4> QED  BY <3>1, Places DEF Block
      <3> HIDE DEF x, b
      <3>3. /\ x.addr + HEADER + x.size = b.addr
            /\ b.addr + HEADER + b.size <= HeapEnd
        BY <3>1 DEF End
      <3>4. HEADER \in Nat /\ HEAP_START \in Nat /\ HEAP_SIZE \in Nat
            /\ x.addr \in Nat /\ HEAP_START <= x.addr
            /\ HeapEnd = HEAP_START + HEAP_SIZE
        BY <3>2, Places
      <3>6. b.addr + HEADER + b.size <= HEAP_START + HEAP_SIZE
        BY <3>3, <3>4, Zenon
      <3>5. /\ x.size + HEADER + b.size \in 0 .. HEAP_SIZE
            /\ x.addr + HEADER + (x.size + HEADER + b.size) = b.addr + HEADER + b.size
        <4> DEFINE a1 == x.addr
                   s1 == x.size
                   a2 == b.addr
                   s2 == b.size
        <4>1. /\ HEADER \in Nat /\ HEAP_START \in Nat /\ HEAP_SIZE \in Nat
              /\ a1 \in Nat /\ s1 \in Nat /\ a2 \in Nat /\ s2 \in Nat
              /\ HEAP_START <= a1 /\ a1 + HEADER + s1 = a2
              /\ a2 + HEADER + s2 <= HEAP_START + HEAP_SIZE
          BY <3>2, <3>3, <3>4, <3>6, Zenon
        <4> HIDE DEF a1, s1, a2, s2
        <4>2. /\ s1 + HEADER + s2 \in 0 .. HEAP_SIZE
              /\ a1 + HEADER + (s1 + HEADER + s2) = a2 + HEADER + s2
          BY <4>1, Sums
        <4> QED  BY <4>2, Zenon DEF a1, s1, a2, s2
      <3> QED  BY <3>5, Zenon DEF x, End
    <2> HIDE DEF size
    <2>2. c \in Block /\ c.addr = d[n].addr /\ c.free = d[n].free /\ c.size = size
      BY <1>4, <2>1 DEF Block
    <2> HIDE DEF c
    <2> QED  BY <2>1, <2>2 DEF End
  <1>6. /\ e \in Seq(Block) /\ Len(e) = n /\ e[n] = c
        /\ \A j \in 1 .. n - 1 : e[j] = d[j]
    <2> HIDE DEF c, n
    <2>1. /\ e \in Seq(Block) /\ Len(e) = Len(d)
          /\ \A j \in 1 .. Len(d) : e[j] = IF j = n THEN c ELSE d[j]
      <3>1. n \in 1 .. Len(d)
        BY <1>4 DEF n
      <3> QED  BY <1>4, <1>5, <3>1, ExceptSeq
    <2> HIDE DEF e
    <2>2. Len(d) = n
      BY DEF n
    <2> QED  BY <1>4, <2>1, <2>2
  <1>7. e = [d EXCEPT ![Len(d)].size = @ + HEADER + bs[i + 1].size]
    OBVIOUS
  <1> HIDE DEF e, c, size, b
  <1>8. Chain(e, End(b))
    BY <1>3, <1>5, <1>6, ChainLast, Zenon
  <1>9. \A j \in 1 .. n : e[j].free = d[j].free /\ (~d[j].free => e[j] = d[j])
    <2> TAKE j \in 1 .. n
    <2>1. CASE j = n
      <3>1. d[n].free = TRUE
        BY <1>3, <1>4 DEF Block
      <3> QED  BY <1>5, <1>6, <2>1, <3>1
    <2>2. CASE j # n
      <3>1. j \in 1 .. n - 1
        BY <1>4, <2>2
      <3> QED  BY <1>6, <3>1
    <2> QED  BY <2>1, <2>2
  <1>10. NoTwoFree(e)
    <2>1. ASSUME NEW k \in 1 .. n - 1, e[k].free, e[k + 1].free PROVE FALSE
      <3>1. k \in 1 .. n /\ k + 1 \in 1 .. n
        BY <1>4
      <3>2. d[k].free /\ d[k + 1].free
        BY <1>9, <2>1, <3>1
      <3> QED  BY <1>3, <3>2, Zenon DEF NoTwoFree
    <2> QED  BY <1>6, <2>1, Zenon DEF NoTwoFree
  <1>11. e[Len(e)].free = bs[i + 1].free
    <2>1. e[n].free = d[n].free
      BY <1>4, <1>9
    <2>2. d[n] \in Block /\ bs[i + 1] \in Block /\ d[n].free = bs[i].free
      BY <1>2, <1>3, <1>4 DEF b
    <2>3. bs[i] \in Block
      BY <1>1, ChainTypes
    <2> QED  BY <1>6, <2>1, <2>2, <2>3 DEF Block
  <1>12. ASSUME NEW j \in 1 .. i + 1, ~bs[j].free
         PROVE  \E k \in 1 .. n : e[k] = bs[j]
    <2>1. j # i + 1
      BY <1>12
    <2>2. j \in 1 .. i
      BY <1>1, <2>1
    <2>3. PICK k \in 1 .. n : d[k] = bs[j]
      BY <1>3, <1>12, <2>2
    <2> QED  BY <1>9, <1>12, <2>3
  <1>13. ASSUME NEW k \in 1 .. n, ~e[k].free
         PROVE  \E j \in 1 .. i + 1 : e[k] = bs[j]
    <2>1. ~d[k].free /\ e[k] = d[k]
      BY <1>9, <1>13
    <2>2. PICK j \in 1 .. i : d[k] = bs[j]
      BY <1>3, <2>1
    <2>3. j \in 1 .. i + 1
      BY <1>1
    <2> QED  BY <2>1, <2>2, <2>3
  <1>14. Len(e) = n
    BY <1>6
  <1> HIDE DEF n
  <1>15. WalkedTo(bs, e, i + 1)
    BY <1>8, <1>10, <1>11, <1>12, <1>13, <1>14, Zenon DEF WalkedTo, b
  <1> QED  BY <1>7, <1>15, Zenon

\* Every round of the walk keeps the blocks in a chain.
LEMMA WalkKeeps ==
    ASSUME NEW bs, Chain(bs, HeapEnd)
    PROVE  WalkedTo(bs, Coalesced(bs), Len(bs))
  <1> DEFINE w == Walk(bs)
             N == Len(bs)
             S == {k \in Nat : k + 1 <= N => WalkedTo(bs, w[k + 1], k + 1)}
  <1>1. bs \in Seq(Block) /\ N \in Nat /\ N >= 1 /\ bs[1].addr = HEAP_START
    BY ChainTypes DEF Chain
  <1>2. w[0] = <<>> /\ \A k \in 1 .. N : w[k] = Join(w[k - 1], bs[k])
    BY <1>1, WalkSteps, Zenon
  <1> HIDE DEF w
  <1>3. 0 \in S
    <2> DEFINE b == bs[1]
               e == Append(<<>>, b)
    <2>1. 1 \in 1 .. N /\ 1 - 1 = 0 /\ 0 + 1 = 1
      BY <1>1
    <2>2. w[1] = Join(<<>>, b)
      BY <1>2, <2>1
    <2>3. Join(<<>>, b) = e
      BY DEF Join
    <2>4. b \in Block
      BY <1>1, <2>1
    <2>5. e \in Seq(Block) /\ Len(e) = 1 /\ e[1] = b
      BY <2>4
    <2> HIDE DEF e
    <2>6. Chain(e, End(b))
      BY <1>1, <2>5 DEF Chain
    <2>7. NoTwoFree(e)
      BY <2>5 DEF NoTwoFree
    <2>8. WalkedTo(bs, e, 1)
      <3>1. e[Len(e)].free = bs[1].free
        BY <2>5
      <3>2. \A j \in 1 .. 1 : ~bs[j].free => \E k \in 1 .. Len(e) : e[k] = bs[j]
        BY <2>5
      <3>3. \A k \in 1 .. Len(e) : ~e[k].free => \E j \in 1 .. 1 : e[k] = bs[j]
        BY <2>5
      <3> QED  BY <2>6, <2>7, <3>1, <3>2, <3>3, Zenon DEF WalkedTo
    <2>9. WalkedTo(bs, w[0 + 1], 0 + 1)
      BY <2>1, <2>2, <2>3, <2>8, Zenon
    <2> QED  BY <2>9
  <1>4. \A k \in Nat : k \in S => k + 1 \in S
    <2> SUFFICES ASSUME NEW k \in Nat, k \in S, (k + 1) + 1 <= N
                 PROVE  WalkedTo(bs, w[(k + 1) + 1], (k + 1) + 1)
      OBVIOUS
    <2> DEFINE i == k + 1
    <2>1. /\ i \in 1 .. N - 1 /\ i + 1 \in 1 .. N /\ (i + 1) - 1 = i /\ i <= N
          /\ i \in 1 .. N
      BY <1>1
    <2>2. WalkedTo(bs, w[i], i)
      BY <2>1
    <2>3. w[i + 1] = Join(w[i], bs[i + 1])
      BY <1>2, <2>1
    <2> HIDE DEF i, S
    <2> DEFINE d == w[i]
    <2>4. /\ d # <<>> /\ d[Len(d)].free = bs[i].free
      <3>1. Chain(d, End(bs[i])) /\ d[Len(d)].free = bs[i].free
        BY <2>2, Zenon DEF WalkedTo
      <3>2. Len(d) >= 1
        BY <3>1 DEF Chain
      <3>3. d # <<>>
        <4> HIDE DEF d
        <4>1. Len(<<>>) = 0
          OBVIOUS
        <4>2. Len(<<>>) # Len(d)
          BY <3>2, <4>1
        <4> QED  BY <4>2
      <3> QED  BY <3>1, <3>3, Zenon
    <2> HIDE DEF d
    <2>5. WalkedTo(bs, d, i)
      BY <2>2 DEF d
    <2>6. WalkedTo(bs, Join(d, bs[i + 1]), i + 1)
      <3>1. CASE bs[i].free /\ bs[i + 1].free
        <4>1. Join(d, bs[i + 1])
                = [d EXCEPT ![Len(d)].size = @ + HEADER + bs[i + 1].size]
          BY <2>4, <3>1, Zenon DEF Join
        <4>2. WalkedTo(bs, [d EXCEPT ![Len(d)].size = @ + HEADER + bs[i + 1].size],
                       i + 1)
          BY <2>1, <2>5, <3>1, JoinJoins, Zenon
        <4> QED  BY <4>1, <4>2, Zenon
      <3>2. CASE ~(bs[i].free /\ bs[i + 1].free)
        <4>1. Join(d, bs[i + 1]) = Append(d, bs[i + 1])
          BY <2>4, <3>2, Zenon DEF Join
        <4>2. WalkedTo(bs, Append(d, bs[i + 1]), i + 1)
          BY <2>1, <2>5, <3>2, JoinAppends, Zenon
        <4> QED  BY <4>1, <4>2, Zenon
      <3> QED  BY <3>1, <3>2
    <2> QED  BY <2>3, <2>6 DEF i, d
  <1>5. Nat \subseteq S
    <2> HIDE DEF S
    <2> QED  BY <1>3, <1>4, NatInd, Zenon
  <1>6. WalkedTo(bs, w[N], N)
    <2>1. N - 1 \in S /\ (N - 1) + 1 = N /\ (N - 1) + 1 <= N
      <3> HIDE DEF S
      <3> QED  BY <1>1, <1>5
    <2>2. WalkedTo(bs, w[(N - 1) + 1], (N - 1) + 1)
      BY <2>1
    <2> QED  BY <2>1, <2>2, Zenon
  <1> QED  BY <1>6 DEF w, Coalesced

\* kfree marks the block of a, and no other.
LEMMA MarksOne ==
    ASSUME HeapInv, NEW a \in held
    PROVE  /\ Chain(blocks, HeapEnd)
           /\ Marked(a.ptr) \in Seq(Block) /\ Len(Marked(a.ptr)) = Len(blocks)
           /\ \E i \in 1 .. Len(blocks) :
                 /\ BlockOf(blocks[i], a)
                 /\ Marked(a.ptr)[i] = [blocks[i] EXCEPT !.free = TRUE]
                 /\ \A j \in 1 .. Len(blocks) : j # i => Marked(a.ptr)[j] = blocks[j]
  <1> DEFINE m == Marked(a.ptr)
  <1>1. PICK i \in 1 .. Len(blocks) : BlockOf(blocks[i], a)
    BY Zenon DEF HeapInv, Owned
  <1>2. Chain(blocks, HeapEnd)
    <2>1. blocks # <<>>
      BY <1>1
    <2> QED  BY <2>1, Zenon DEF HeapInv
  <1>3. /\ blocks \in Seq(Block) /\ Len(blocks) \in Nat
        /\ \A j \in 1 .. Len(blocks) : blocks[j] \in Block /\ blocks[j].addr \in Nat
    BY <1>2, ChainTypes, Zenon DEF Chain
  <1>4. m = [j \in 1 .. Len(blocks) |->
                IF blocks[j].addr = a.ptr - HEADER
                   THEN [blocks[j] EXCEPT !.free = TRUE] ELSE blocks[j]]
    BY DEF Marked
  <1>5. a.ptr - HEADER = blocks[i].addr
    <2> DEFINE x == blocks[i].addr
    <2>1. a.ptr = x + HEADER
      BY <1>1 DEF BlockOf
    <2>2. x \in Nat /\ HEADER \in Nat
      BY <1>3, Places
    <2> HIDE DEF x
    <2> QED  BY <2>1, <2>2 DEF x
  <1> HIDE DEF m
  <1>6. m[i] = [blocks[i] EXCEPT !.free = TRUE]
    BY <1>4, <1>5, Zenon
  <1>7. ASSUME NEW j \in 1 .. Len(blocks), j # i PROVE m[j] = blocks[j]
    <2>1. blocks[j].addr # blocks[i].addr
      BY <1>2, <1>7, Distinct, Zenon
    <2> QED  BY <1>4, <1>5, <2>1, Zenon
  <1>8. \A j \in 1 .. Len(blocks) : m[j] \in Block
    <2> TAKE j \in 1 .. Len(blocks)
    <2>1. CASE j = i
      <3>1. [blocks[i] EXCEPT !.free = TRUE] \in Block
        <4>1. blocks[i] \in Block
          BY <1>3
        <4> QED  BY <4>1 DEF Block
      <3> QED  BY <1>6, <2>1, <3>1
    <2>2. CASE j # i
      BY <1>3, <1>7, <2>2
    <2> QED  BY <2>1, <2>2
  <1>9. m \in Seq(Block) /\ Len(m) = Len(blocks)
    <2>1. m \in [1 .. Len(blocks) -> Block]
      BY <1>4, <1>8, Zenon
    <2> QED  BY <1>3, <2>1
  <1> QED  BY <1>1, <1>2, <1>6, <1>7, <1>9, Zenon DEF m

LEMMA FreeKeeps ==
    ASSUME HeapInv, NEW a \in held, kfree(a)
    PROVE  HeapInv'
  <1> DEFINE m == Marked(a.ptr)
             c == Coalesced(m)
             N == Len(blocks)
  <1>1. /\ Chain(blocks, HeapEnd)
        /\ m \in Seq(Block) /\ Len(m) = N
    BY MarksOne, Zenon
  <1>2. PICK i \in 1 .. N :
          /\ BlockOf(blocks[i], a)
          /\ m[i] = [blocks[i] EXCEPT !.free = TRUE]
          /\ \A j \in 1 .. N : j # i => m[j] = blocks[j]
    BY MarksOne, Zenon
  <1>3. blocks' = c /\ held' = held \ {a} /\ faulted' = faulted
    BY DEF kfree
  <1> HIDE DEF c, m, N
  <1>4. \A j \in 1 .. N : blocks[j] \in Block /\ N \in Nat /\ N >= 1
    BY <1>1, ChainTypes DEF N, Chain
  <1>5. Chain(m, HeapEnd)
    <2>1. m[i].addr = blocks[i].addr /\ m[i].size = blocks[i].size
      <3>1. blocks[i] \in Block
        BY <1>4
      <3> QED  BY <1>2, <3>1 DEF Block
    <2>2. \A j \in 1 .. N : m[j].addr = blocks[j].addr /\ m[j].size = blocks[j].size
      BY <1>2, <2>1, Zenon
    <2> QED  BY <1>1, <2>2, SameShape, Zenon DEF N
  <1>6. /\ Chain(c, HeapEnd) /\ NoTwoFree(c)
        /\ \A j \in 1 .. N : ~m[j].free => \E k \in 1 .. Len(c) : c[k] = m[j]
        /\ \A k \in 1 .. Len(c) : ~c[k].free => \E j \in 1 .. N : c[k] = m[j]
    <2>1. WalkedTo(m, c, N)
      BY <1>1, <1>5, WalkKeeps, Zenon DEF c
    <2>2. End(m[N]) = HeapEnd
      BY <1>1, <1>5, Zenon DEF Chain
    <2> QED  BY <2>1, <2>2, Zenon DEF WalkedTo
  <1>7. m[i].free
    <2>1. blocks[i] \in Block
      BY <1>4
    <2> QED  BY <1>2, <2>1 DEF Block
  <1>8. /\ held \subseteq Held
        /\ \A x \in held : \E j \in 1 .. N : BlockOf(blocks[j], x)
        /\ \A j \in 1 .. N : ~blocks[j].free => \E x \in held : BlockOf(blocks[j], x)
        /\ \A x, y \in held : x.ptr = y.ptr => x = y
    BY Zenon DEF HeapInv, Owned, N
  <1>9. ASSUME NEW j \in 1 .. N, NEW x, BlockOf(blocks[j], x)
        PROVE  (j = i) <=> (x.ptr = a.ptr)
    <2> DEFINE p == blocks[j].addr
               q == blocks[i].addr
    <2>1. x.ptr = p + HEADER /\ a.ptr = q + HEADER
      BY <1>2, <1>9 DEF BlockOf
    <2>2. p \in Nat /\ q \in Nat /\ HEADER \in Nat
      BY <1>1, ChainTypes, Places DEF N
    <2>3. p = q => j = i
      BY <1>1, Distinct, Zenon DEF N
    <2>4. j = i => p = q
      OBVIOUS
    <2> HIDE DEF p, q
    <2> QED  BY <2>1, <2>2, <2>3, <2>4
  <1>10. ASSUME NEW x \in held \ {a}
         PROVE  \E k \in 1 .. Len(c) : BlockOf(c[k], x)
    <2>1. PICK j \in 1 .. N : BlockOf(blocks[j], x)
      BY <1>8, Zenon
    <2>2. j # i
      <3>1. x.ptr # a.ptr
        BY <1>8
      <3> QED  BY <1>9, <2>1, <3>1
    <2>3. m[j] = blocks[j] /\ ~blocks[j].free
      BY <1>2, <2>1, <2>2 DEF BlockOf
    <2>4. PICK k \in 1 .. Len(c) : c[k] = m[j]
      BY <1>6, <2>3
    <2> QED  BY <2>1, <2>3, <2>4
  <1>11. ASSUME NEW k \in 1 .. Len(c), ~c[k].free
         PROVE  \E x \in held \ {a} : BlockOf(c[k], x)
    <2>1. PICK j \in 1 .. N : c[k] = m[j]
      BY <1>6, <1>11
    <2>2. j # i /\ m[j] = blocks[j]
      BY <1>2, <1>7, <1>11, <2>1
    <2>3. PICK x \in held : BlockOf(blocks[j], x)
      BY <1>8, <1>11, <2>1, <2>2
    <2>4. x # a
      BY <1>9, <2>2, <2>3
    <2> QED  BY <2>1, <2>2, <2>3, <2>4
  <1>12. Owned(c, held \ {a})
    <2>1. held \ {a} \subseteq Held
      BY <1>8
    <2>2. \A x, y \in held \ {a} : x.ptr = y.ptr => x = y
      BY <1>8
    <2> QED  BY <1>10, <1>11, <2>1, <2>2, Zenon DEF Owned
  <1>13. faulted \in Size \cup {0}
    BY DEF HeapInv
  <1> QED  BY <1>3, <1>6, <1>12, <1>13, Zenon DEF HeapInv

\* The list, the allocations and their correspondence in every state.
LEMMA HeapInvHolds == Spec => []HeapInv
  <1>1. Init => HeapInv
    <2> SUFFICES ASSUME Init PROVE HeapInv
      OBVIOUS
    <2>1. blocks = <<>> /\ held = {} /\ faulted = 0
      BY DEF Init
    <2>2. Owned(blocks, held)
      BY <2>1 DEF Owned
    <2> QED  BY <2>1, <2>2 DEF HeapInv
  <1>2. HeapInv /\ [Next]_vars => HeapInv'
    <2> SUFFICES ASSUME HeapInv, [Next]_vars PROVE HeapInv'
      OBVIOUS
    <2>1. ASSUME NEW n \in Size, kmalloc(n) PROVE HeapInv'
      BY <2>1, MallocKeeps
    <2>2. ASSUME NEW n \in Size, kmalloc_NULL(n) PROVE HeapInv'
      <3>1. blocks' = Initialized /\ held' = held /\ faulted' = faulted
        BY <2>2 DEF kmalloc_NULL
      <3>2. /\ Chain(Initialized, HeapEnd) /\ NoTwoFree(Initialized)
            /\ Owned(Initialized, held)
        BY ListFacts
      <3>3. faulted \in Size \cup {0}
        BY DEF HeapInv
      <3> QED  BY <3>1, <3>2, <3>3, Zenon DEF HeapInv
    <2>3. ASSUME NEW a \in held, kfree(a) PROVE HeapInv'
      BY <2>3, FreeKeeps
    <2>4. CASE UNCHANGED vars
      BY <2>4 DEF vars, HeapInv
    <2> QED  BY <2>1, <2>2, <2>3, <2>4, Zenon DEF Next
  <1> QED  BY <1>1, <1>2, PTL DEF Spec

-----------------------------------------------------------------------------
(* What the runs check *)

\* The blocks cover the heap, and no two neighbours are free.
THEOREM HeapIsTiled == Spec => []Tiled
  <1>1. HeapInv => Tiled
    <2> SUFFICES ASSUME HeapInv PROVE Tiled
      OBVIOUS
    <2>1. TypeOK
      <3>1. blocks \in Seq(Block)
        <4>1. <<>> \in Seq(Block)
          OBVIOUS
        <4> QED  BY <4>1, Zenon DEF HeapInv, Chain
      <3>2. \A a \in held : a.ptr \in HEAP_START .. HeapEnd /\ a.asked \in Size
        BY DEF HeapInv, Owned, Held
      <3> QED  BY <3>1, <3>2 DEF TypeOK, HeapInv
    <2>2. CASE blocks = <<>>
      <3>1. Len(blocks) = 0
        BY <2>2
      <3> QED  BY <2>1, <2>2, <3>1 DEF Tiled
    <2>3. CASE blocks # <<>>
      <3>1. Chain(blocks, HeapEnd) /\ NoTwoFree(blocks)
        BY <2>3 DEF HeapInv
      <3>2. Len(blocks) \in Nat /\ blocks[1].addr = HEAP_START
        BY <3>1, ChainTypes DEF Chain
      <3>3. ASSUME NEW i \in 1 .. Len(blocks)
            PROVE  blocks[i].addr + HEADER + blocks[i].size =
                      IF i = Len(blocks) THEN HeapEnd ELSE blocks[i + 1].addr
        <4>1. End(blocks[i]) = IF i = Len(blocks) THEN HeapEnd ELSE blocks[i + 1].addr
          <5>1. CASE i = Len(blocks)
            BY <3>1, <5>1 DEF Chain
          <5>2. CASE i # Len(blocks)
            <6>1. i \in 1 .. Len(blocks) - 1
              BY <3>2, <5>2
            <6> QED  BY <3>1, <5>2, <6>1, Zenon DEF Chain
          <5> QED  BY <5>1, <5>2
        <4> QED  BY <4>1, Zenon DEF End
      <3> QED  BY <2>1, <3>1, <3>2, <3>3, Zenon DEF Tiled, NoTwoFree
    <2> QED  BY <2>2, <2>3
  <1> QED  BY <1>1, HeapInvHolds, PTL

\* What the callers hold leaves of a block at most its slack.
LEMMA HeldLeaves ==
    ASSUME NEW bs, Chain(bs, HeapEnd), NEW hold, Owned(bs, hold),
           NEW T, NEW slack \in Nat,
           \A a \in hold :
              /\ a.ptr - HEADER \in T
              /\ \A x \in a.ptr - HEADER
                          .. a.ptr + Rounded(a.asked) + HEADER - slack - 1 : x \in T
    PROVE  Leaves(bs, T, slack)
  <1> SUFFICES ASSUME NEW i \in 1 .. Len(bs), ~bs[i].free
               PROVE  /\ bs[i].addr \in T
                      /\ \A x \in bs[i].addr .. End(bs[i]) - slack - 1 : x \in T
    BY Zenon DEF Leaves
  <1> DEFINE b == bs[i]
  <1>1. PICK a \in hold : BlockOf(b, a)
    BY Zenon DEF Owned
  <1>2. b \in Block /\ a \in Held
    BY ChainTypes DEF Owned
  <1>3. /\ b.addr \in Nat /\ b.size \in Nat /\ Rounded(a.asked) \in Nat
    <2>1. a.asked \in 0 .. Word - 1
      BY <1>2, Places DEF Held
    <2> QED  BY <1>2, <2>1, BlockTypes, RoundedFacts
  <1>4. a.ptr = b.addr + HEADER /\ b.size <= Rounded(a.asked) + HEADER
    BY <1>1 DEF BlockOf
  <1>5. End(b) = b.addr + HEADER + b.size
    BY DEF End
  <1> HIDE DEF b
  <1> DEFINE y == b.addr
             s == b.size
             r == Rounded(a.asked)
             q == a.ptr
             e == End(b)
  <1>6. /\ y \in Nat /\ s \in Nat /\ r \in Nat /\ HEADER \in Nat
        /\ q = y + HEADER /\ s <= r + HEADER /\ e = y + HEADER + s
    BY <1>3, <1>4, <1>5, Places
  <1>7. /\ q - HEADER \in T
        /\ \A x \in q - HEADER .. q + r + HEADER - slack - 1 : x \in T
    OBVIOUS
  <1> HIDE DEF y, s, r, q, e
  <1>8. q - HEADER = y
    BY <1>6
  <1>9. \A x \in y .. e - slack - 1 : x \in q - HEADER .. q + r + HEADER - slack - 1
    BY <1>6
  <1>10. y \in T /\ \A x \in y .. e - slack - 1 : x \in T
    BY <1>7, <1>8, <1>9, Zenon
  <1> QED  BY <1>10, Zenon DEF y, e, b

LEMMA Enough ==
    ASSUME NEW h \in Nat, NEW align \in Nat, NEW n \in Nat, NEW r \in Nat,
           NEW p \in Nat, NEW x \in Nat, NEW s \in Nat,
           r <= n + align - 1,
           x <= p + h, p + (n + (2 * h + align - 1)) <= x + h + s
    PROVE  s >= r
  OBVIOUS

\* kmalloc refuses a request only when no hole between what callers hold has
\* room for it.
THEOREM RefusalsAreFair == Spec => []RefusesOnlyWhenFull
  <1>1. HeapInv => RefusesOnlyWhenFull
    <2> SUFFICES ASSUME HeapInv, NEW n \in Size \ {0},
                        n + Overhead <= HEAP_SIZE, Refused(n),
                        NEW p \in HEAP_START .. HeapEnd - n - Overhead,
                        p .. p + n + Overhead - 1 \cap HeldBytes = {}
                 PROVE  FALSE
      BY Zenon DEF RefusesOnlyWhenFull
    <2> DEFINE L == Initialized
               m == n + Overhead
               T == HeldBytes
    <2>1. Chain(L, HeapEnd) /\ NoTwoFree(L) /\ Owned(L, held)
      BY ListFacts
    <2>2. n \in Nat /\ n \in 0 .. Word - 1 /\ Rounded(n) \in Nat
          /\ Rounded(n) <= n + ALIGN - 1
      <3>1. n \in 0 .. Word - 1
        BY Places
      <3> QED  BY <3>1, RoundedFacts, Places
    <2>3. Overhead = 2 * HEADER + ALIGN - 1 /\ Overhead \in Nat
      BY Places DEF Overhead
    <2>4. /\ m \in Nat /\ m > HEADER /\ p \in Nat /\ HEAP_START <= p
          /\ p + m <= HeapEnd
      BY <2>2, <2>3, Places
    <2>5. Leaves(L, T, HEADER)
      <3>1. ASSUME NEW a \in held
            PROVE  /\ a.ptr - HEADER \in T
                   /\ \A x \in a.ptr - HEADER
                               .. a.ptr + Rounded(a.asked) + HEADER - HEADER - 1 : x \in T
        <4> DEFINE q == a.ptr
                   r == Rounded(a.asked)
        <4>1. q \in Nat /\ r \in Nat
          <5>1. a \in Held
            BY <2>1 DEF Owned
          <5>2. a.asked \in Size /\ a.ptr \in HEAP_START .. HeapEnd
            BY <5>1 DEF Held
          <5>3. Size \subseteq 0 .. Word - 1 /\ HEAP_START .. HeapEnd \subseteq Nat
            BY Places
          <5>4. a.asked \in 0 .. Word - 1
            BY <5>2, <5>3
          <5>5. Rounded(a.asked) \in Nat
            BY <5>4, RoundedFacts
          <5> QED  BY <5>2, <5>3, <5>5
        <4>2. \A x \in q - HEADER .. q + r - 1 : x \in T
          BY Zenon DEF HeldBytes
        <4> HIDE DEF q, r
        <4>3. /\ q - HEADER \in q - HEADER .. q + r - 1
              /\ q + r + HEADER - HEADER - 1 = q + r - 1
          BY <4>1, Places
        <4> QED  BY <4>2, <4>3, Zenon DEF q, r
      <3> QED  BY <2>1, <3>1, HeldLeaves, Places
    <2>6. \A x \in p .. p + m - 1 : x \notin T
      <3>1. p + m - 1 = p + n + Overhead - 1
        BY <2>2, <2>3, <2>4
      <3> QED  BY <3>1
    <2> HIDE DEF L, m, T
    <2>7. PICK i \in 1 .. Len(L) : /\ L[i].free
                                   /\ L[i].addr <= p + HEADER
                                   /\ p + m <= End(L[i])
      BY <2>1, <2>4, <2>5, <2>6, HoleInBlock, Places
    <2>8. L[i].size >= Rounded(n)
      <3> DEFINE x == L[i].addr
                 s == L[i].size
                 r == Rounded(n)
      <3>1. x \in Nat /\ s \in Nat /\ r \in Nat /\ HEADER \in Nat /\ ALIGN \in Nat
        BY <2>1, <2>2, ChainTypes, Places
      <3>2. x <= p + HEADER /\ p + m <= x + HEADER + s /\ r <= n + ALIGN - 1
        BY <2>2, <2>7, Zenon DEF End
      <3>3. m = n + (2 * HEADER + ALIGN - 1)
        BY <2>3 DEF m
      <3> HIDE DEF x, s, r
      <3>4. p + (n + (2 * HEADER + ALIGN - 1)) <= x + HEADER + s
        BY <3>2, <3>3, Zenon
      <3>5. s >= r
        BY <2>2, <2>4, <3>1, <3>2, <3>4, Enough
      <3> QED  BY <3>5 DEF s, r
    <2>9. Fits(L[i], Rounded(n))
      BY <2>7, <2>8, Zenon DEF Fits
    <2> QED  BY <2>9, Zenon DEF Refused, L
  <1> QED  BY <1>1, HeapInvHolds, PTL

-----------------------------------------------------------------------------
(* The heap implements Allocator *)

\* What a caller may use of what it holds.
Length(n) == IF n < Word - ALIGN + 1 THEN n ELSE 0

Live(a) == [ptr |-> a.ptr, len |-> Length(a.asked)]

LEMMA LengthFacts ==
    ASSUME NEW n \in 0 .. Word - 1
    PROVE  /\ Length(n) \in Nat
           /\ Length(n) <= Rounded(n)
           /\ Rounded(n) <= Length(n) + ALIGN - 1
           /\ n \in Nat /\ Rounded(n) \in Nat /\ Rounded(n) <= n + ALIGN - 1
  <1>1. /\ n \in Nat /\ Rounded(n) \in Nat /\ Rounded(n) <= n + ALIGN - 1
        /\ n < Word - ALIGN + 1 => n <= Rounded(n)
        /\ n >= Word - ALIGN + 1 => Rounded(n) = 0
    BY RoundedFacts, Places
  <1> QED  BY <1>1, Places DEF Length

LEMMA HeldSizes ==
    ASSUME NEW a \in Held
    PROVE  /\ a.asked \in 0 .. Word - 1 /\ a.ptr \in Nat
           /\ Length(a.asked) \in Nat /\ Rounded(a.asked) \in Nat
           /\ Length(a.asked) <= Rounded(a.asked)
           /\ Rounded(a.asked) <= Length(a.asked) + ALIGN - 1
  <1>1. a.asked \in Size /\ a.ptr \in HEAP_START .. HeapEnd
    BY DEF Held
  <1>2. Size \subseteq 0 .. Word - 1 /\ HEAP_START .. HeapEnd \subseteq Nat
    BY Places
  <1>3. a.asked \in 0 .. Word - 1 /\ a.ptr \in Nat
    BY <1>1, <1>2
  <1> QED  BY <1>3, LengthFacts, Zenon

\* The bytes that Allocator says are taken.
LEMMA TakenBytes ==
    Promise!Taken = UNION {a.ptr - HEADER .. a.ptr + Length(a.asked) - 1 : a \in held}
  <1> DEFINE live == {Live(a) : a \in held}
  <1>1. Promise!Taken = UNION {l.ptr - HEADER .. l.ptr + l.len - 1 : l \in live}
    BY DEF Promise!Taken, Live, Length
  <1>2. \A a \in held : Live(a).ptr = a.ptr /\ Live(a).len = Length(a.asked)
    BY DEF Live
  <1>3. {l.ptr - HEADER .. l.ptr + l.len - 1 : l \in live}
           = {a.ptr - HEADER .. a.ptr + Length(a.asked) - 1 : a \in held}
    BY <1>2
  <1> QED  BY <1>1, <1>3, Zenon

LEMMA MoreLive ==
    ASSUME NEW a
    PROVE  {Live(x) : x \in held \cup {a}} = {Live(x) : x \in held} \cup {Live(a)}
  OBVIOUS

LEMMA TooLarge ==
    ASSUME NEW h \in Nat, NEW align \in Nat, NEW n \in Nat, NEW r \in Nat,
           NEW p \in Nat, NEW x \in Nat, NEW s \in Nat,
           r <= n + align - 1, x <= p + (h + align - 1),
           p + (n + (3 * h + 2 * align - 2)) <= x + h + s
    PROVE  s >= r + h
  OBVIOUS

\* Of a request that faults, the mapped part of the heap has no hole.
LEMMA FaultOnlyWhenFull ==
    ASSUME HeapInv, NEW n \in Size \ {0}, NEW i \in 1 .. Len(Initialized),
           Fits(Initialized[i], Rounded(n)),
           \A j \in 1 .. i - 1 : ~Fits(Initialized[j], Rounded(n)),
           Unmapped(HandedOut(Initialized[i], Rounded(n)))
    PROVE  ~Promise!Hole(n + (Overhead + HEADER + ALIGN - 1), MAPPED)
  <1> DEFINE L == Initialized
             r == Rounded(n)
             slack == HEADER + ALIGN - 1
             m == n + (Overhead + HEADER + ALIGN - 1)
             T == Promise!Taken
             b == L[i]
  <1>1. Chain(L, HeapEnd) /\ NoTwoFree(L) /\ Owned(L, held)
    BY ListFacts
  <1>2. n \in Nat /\ r \in Nat /\ r <= n + ALIGN - 1
    <2>1. n \in 0 .. Word - 1
      BY Places
    <2> QED  BY <2>1, LengthFacts
  <1>3. /\ b \in Block /\ b.addr \in Nat /\ End(b) <= HeapEnd
        /\ b.free /\ b.size >= r /\ End(b) \in Nat /\ Len(L) \in Nat
        /\ i \in 1 .. Len(L)
    <2>1. b \in Block /\ b.addr \in Nat /\ End(b) \in Nat /\ Len(L) \in Nat
      BY <1>1, ChainTypes, Zenon
    <2>2. End(b) <= HeapEnd
      BY <1>1, EndsBelow, Zenon
    <2>3. b.free /\ b.size >= r
      BY Zenon DEF Fits
    <2> QED  BY <2>1, <2>2, <2>3
  <1>4. /\ MAPPED < HeapEnd
        /\ b.addr + HEADER + r + HEADER > MAPPED
    <2> DEFINE p == HandedOut(b, r)
    <2>1. Len(p) = 2 /\ p[2].addr + HEADER > MAPPED
      BY Zenon DEF Unmapped
    <2>2. b.size > r + HEADER
      <3> SUFFICES ASSUME ~(b.size > r + HEADER) PROVE FALSE
        OBVIOUS
      <3> DEFINE q == [b EXCEPT !.free = FALSE]
      <3>1. p = <<q>>
        BY DEF HandedOut
      <3> HIDE DEF q, p
      <3>2. Len(<<q>>) = 1
        OBVIOUS
      <3> QED  BY <2>1, <3>1, <3>2
    <2>3. p = Pieces(b, r)
      BY <2>2, Zenon DEF HandedOut
    <2> HIDE DEF p, b, r
    <2>4. InTwo(p, b, r)
      BY <1>2, <1>3, <2>2, <2>3, PiecesFacts, Zenon
    <2>5. /\ p[2] \in Block /\ End(p[2]) = End(b)
          /\ p[2].addr = b.addr + HEADER + r
      <3>1. p \in Seq(Block) /\ Len(p) = 2
        BY <2>4, Zenon DEF InTwo
      <3>2. p[2] \in Block
        <4>1. 2 \in 1 .. Len(p)
          BY <3>1
        <4> QED  BY <3>1, <4>1, ElementOfSeq, Zenon
      <3> QED  BY <2>4, <3>2, Zenon DEF InTwo
    <2>6. p[2].addr + HEADER <= End(b)
      <3> DEFINE y == p[2]
      <3>1. y.addr \in Nat /\ y.size \in Nat /\ End(y) = y.addr + HEADER + y.size
        BY <2>5, BlockTypes DEF End
      <3> DEFINE u == y.addr
                 v == y.size
      <3>2. u \in Nat /\ v \in Nat /\ End(b) = u + HEADER + v
        BY <2>5, <3>1, Zenon
      <3> HIDE DEF u, v
      <3>3. u + HEADER <= End(b)
        BY <3>2, Places
      <3> QED  BY <3>3 DEF u
    <2>7. b.addr + HEADER + r + HEADER > MAPPED
      BY <2>1, <2>5, Zenon
    <2>8. b.addr + HEADER + r + HEADER <= End(b)
      BY <2>5, <2>6, Zenon
    <2>9. MAPPED < HeapEnd
      <3> DEFINE y == b.addr
                 e == End(b)
      <3>1. y \in Nat /\ e \in Nat /\ e <= HeapEnd /\ r \in Nat
            /\ y + HEADER + r + HEADER > MAPPED /\ y + HEADER + r + HEADER <= e
        BY <1>2, <1>3, <2>7, <2>8, Zenon DEF r
      <3> HIDE DEF y, e
      <3> QED  BY <3>1, Places
    <2> QED  BY <2>7, <2>9, Zenon
  <1>5. Leaves(L, T, slack)
    <2>1. ASSUME NEW a \in held
          PROVE  /\ a.ptr - HEADER \in T
                 /\ \A x \in a.ptr - HEADER
                             .. a.ptr + Rounded(a.asked) + HEADER - slack - 1 : x \in T
      <3> DEFINE q == a.ptr
                 s == Rounded(a.asked)
                 l == Length(a.asked)
      <3>1. a \in Held
        BY <1>1 DEF Owned
      <3>2. q \in Nat /\ s \in Nat /\ l \in Nat /\ s <= l + ALIGN - 1
        BY <3>1, HeldSizes
      <3>3. \A x \in q - HEADER .. q + l - 1 : x \in T
        BY TakenBytes, Zenon
      <3> HIDE DEF q, s, l, T
      <3>4. /\ q - HEADER \in q - HEADER .. q + l - 1
            /\ \A x \in q - HEADER .. q + s + HEADER - slack - 1 :
                  x \in q - HEADER .. q + l - 1
        BY <3>2, Places
      <3> QED  BY <3>3, <3>4, Zenon DEF q, s
    <2>2. slack \in Nat
      BY Places
    <2> HIDE DEF slack, T, L
    <2> QED  BY <1>1, <2>1, <2>2, HeldLeaves, Zenon
  <1> SUFFICES ASSUME NEW p \in HEAP_START .. MAPPED, p + m <= MAPPED,
                      p .. p + m - 1 \cap T = {}
               PROVE  FALSE
    BY Zenon DEF Promise!Hole
  <1>6. /\ m = n + (3 * HEADER + 2 * ALIGN - 2) /\ m \in Nat /\ m > slack
        /\ slack \in Nat /\ p \in Nat /\ HEAP_START <= p /\ p + m <= HeapEnd
    <2>1. Overhead = 2 * HEADER + ALIGN - 1
      BY DEF Overhead
    <2>2. m = n + (3 * HEADER + 2 * ALIGN - 2)
      BY <1>2, <2>1, Places
    <2> HIDE DEF m
    <2> QED  BY <1>2, <1>4, <2>2, Places
  <1>7. \A x \in p .. p + m - 1 : x \notin T
    OBVIOUS
  <1> HIDE DEF L, r, slack, m, T, b
  <1>8. PICK j \in 1 .. Len(L) : /\ L[j].free
                                 /\ L[j].addr <= p + slack
                                 /\ p + m <= End(L[j])
    BY <1>1, <1>5, <1>6, <1>7, HoleInBlock
  <1>9. L[j].addr \in Nat /\ L[j].size \in Nat
    BY <1>1, ChainTypes
  <1>10. L[j].size >= r + HEADER
    <2> DEFINE x == L[j].addr
               s == L[j].size
    <2>1. x <= p + slack /\ p + m <= x + HEADER + s /\ x \in Nat /\ s \in Nat
      BY <1>8, <1>9, Zenon DEF End
    <2> HIDE DEF x, s
    <2>2. /\ x <= p + (HEADER + ALIGN - 1)
          /\ p + (n + (3 * HEADER + 2 * ALIGN - 2)) <= x + HEADER + s
      BY <1>6, <2>1, Zenon DEF slack
    <2>3. s >= r + HEADER
      BY <1>2, <1>6, <2>1, <2>2, TooLarge, Places
    <2> QED  BY <2>3 DEF s
  <1>11. Fits(L[j], r)
    <2>1. L[j].size >= r
      BY <1>2, <1>9, <1>10, Places
    <2> QED  BY <1>8, <2>1, Zenon DEF Fits
  <1>12. i <= j
    <2>1. j \notin 1 .. i - 1
      BY <1>11, Zenon DEF L, r
    <2> QED  BY <1>3, <2>1
  <1>13. b.addr <= L[j].addr
    <2>1. CASE i = j
      BY <1>3, <1>9, <2>1 DEF b
    <2>2. CASE i < j
      <3>1. End(b) <= L[j].addr
        BY <1>1, <1>3, <2>2, Zenon DEF Chain, b
      <3>2. b.addr < End(b)
        BY <1>3, BlockTypes
      <3> DEFINE x == L[j].addr
                 y == b.addr
                 e == End(b)
      <3>3. x \in Nat /\ y \in Nat /\ e \in Nat /\ e <= x /\ y < e
        BY <1>3, <1>9, <3>1, <3>2, Zenon
      <3> HIDE DEF x, y, e
      <3>4. y <= x
        BY <3>3
      <3> QED  BY <3>4 DEF x, y
    <2> QED  BY <1>3, <1>12, <2>1, <2>2
  <1> DEFINE y == b.addr
             x == L[j].addr
  <1>14. /\ y \in Nat /\ x \in Nat /\ y <= x /\ x <= p + (HEADER + ALIGN - 1)
         /\ y + HEADER + r + HEADER > MAPPED
    BY <1>3, <1>4, <1>8, <1>9, <1>13, Zenon DEF slack
  <1>15. p + (n + (3 * HEADER + 2 * ALIGN - 2)) <= MAPPED
    BY <1>6, Zenon
  <1> HIDE DEF x, y
  <1> QED  BY <1>2, <1>6, <1>14, <1>15, Places

\* What kmalloc hands out, with the header in front of it, was nobody's.
LEMMA HandsOutFree ==
    ASSUME HeapInv, NEW n \in Size \ {0}, NEW i \in 1 .. Len(Initialized),
           Fits(Initialized[i], Rounded(n))
    PROVE  LET p == Initialized[i].addr + HEADER
           IN  /\ p \in HEAP_START .. HeapEnd
               /\ p + Length(n) <= HeapEnd
               /\ p - HEADER .. p + Length(n) - 1 \cap Promise!Taken = {}
  <1> DEFINE L == Initialized
             b == L[i]
             p == b.addr + HEADER
             l == Length(n)
             T == Promise!Taken
  <1>1. Chain(L, HeapEnd) /\ NoTwoFree(L) /\ Owned(L, held)
    BY ListFacts
  <1>2. l \in Nat /\ Rounded(n) \in Nat /\ l <= Rounded(n)
    <2>1. n \in 0 .. Word - 1
      BY Places
    <2> QED  BY <2>1, LengthFacts
  <1>3. /\ b \in Block /\ End(b) <= HeapEnd /\ b.free /\ b.size >= Rounded(n)
    <2>1. b \in Block
      BY <1>1, ChainTypes, Zenon
    <2>2. End(b) <= HeapEnd
      BY <1>1, EndsBelow, Zenon
    <2> QED  BY <2>1, <2>2, Zenon DEF Fits
  <1>4. b.addr \in Nat /\ HEAP_START <= b.addr /\ b.size \in Nat /\ End(b) \in Nat
    <2> HIDE DEF b
    <2>1. b.addr \in HEAP_START .. HeapEnd
      BY <1>3 DEF Block
    <2>2. b.size \in Nat /\ End(b) \in Nat
      BY <1>3, BlockTypes
    <2> QED  BY <2>1, <2>2, Places
  <1>5. End(b) = b.addr + HEADER + b.size
    BY DEF End
  <1>6. \A a \in held : BlockOf(b, a) \/ ~BlockOf(b, a)
    OBVIOUS
  <1> HIDE DEF b, L, l
  <1>7. p \in HEAP_START .. HeapEnd /\ p + l <= End(b) /\ p + l <= HeapEnd
    <2> DEFINE y == b.addr
               s == b.size
               e == End(b)
               r == Rounded(n)
    <2>1. /\ y \in Nat /\ HEAP_START <= y /\ s \in Nat /\ e \in Nat /\ e <= HeapEnd
          /\ e = y + HEADER + s /\ s >= r /\ l \in Nat /\ r \in Nat /\ l <= r
      BY <1>2, <1>3, <1>4, <1>5, Zenon
    <2> HIDE DEF y, s, e, r
    <2>2. /\ y + HEADER \in HEAP_START .. HeapEnd
          /\ y + HEADER + l <= e /\ y + HEADER + l <= HeapEnd
      BY <2>1, Places
    <2> QED  BY <2>2, Zenon DEF y, e
  <1>8. ASSUME NEW x \in p - HEADER .. p + l - 1, x \in T PROVE FALSE
    <2>1. x \in Nat /\ b.addr <= x /\ x < End(b)
      <3> DEFINE y == b.addr
                 e == End(b)
      <3>1. y \in Nat /\ e \in Nat /\ y + HEADER + l <= e
        BY <1>4, <1>7, Zenon
      <3>2. x \in (y + HEADER) - HEADER .. (y + HEADER) + l - 1
        BY <1>8, Zenon
      <3> HIDE DEF y, e
      <3>3. x \in Nat /\ y <= x /\ x < e
        BY <1>2, <3>1, <3>2, Places
      <3> QED  BY <3>3 DEF y, e
    <2>2. PICK a \in held : x \in a.ptr - HEADER .. a.ptr + Length(a.asked) - 1
      <3> HIDE DEF T
      <3>1. x \in UNION {a.ptr - HEADER .. a.ptr + Length(a.asked) - 1 : a \in held}
        BY <1>8, TakenBytes, Zenon DEF T
      <3> QED  BY <3>1
    <2>3. PICK j \in 1 .. Len(L) : BlockOf(L[j], a)
      BY <1>1, Zenon DEF Owned
    <2>4. L[j].addr \in Nat /\ L[j].size \in Nat /\ End(L[j]) \in Nat
      BY <1>1, ChainTypes, Zenon
    <2>5. L[j].addr <= x /\ x < End(L[j])
      <3> DEFINE y == L[j].addr
                 s == L[j].size
                 q == a.ptr
                 k == Length(a.asked)
                 r == Rounded(a.asked)
                 e == End(L[j])
      <3>1. a \in Held
        BY <1>1 DEF Owned
      <3>2. k \in Nat /\ r \in Nat /\ k <= r
        BY <3>1, HeldSizes, Zenon
      <3>3. q = y + HEADER /\ r <= s /\ e = y + HEADER + s
        BY <2>3, Zenon DEF BlockOf, End
      <3>4. y \in Nat /\ s \in Nat /\ x \in q - HEADER .. q + k - 1
        BY <2>2, <2>4, Zenon
      <3> HIDE DEF y, s, q, k, r, e
      <3>5. y <= x /\ x < e
        BY <3>2, <3>3, <3>4, Places
      <3> QED  BY <3>5 DEF y, e
    <2>6. j # i
      <3>1. ~L[j].free
        BY <2>3, Zenon DEF BlockOf
      <3> QED  BY <1>3, <3>1, Zenon DEF b
    <2>7. i \in 1 .. Len(L) /\ Len(L) \in Nat
      BY <1>1, ChainTypes DEF L
    <2>8. CASE i < j
      <3>1. End(b) <= L[j].addr
        BY <1>1, <2>7, <2>8, Zenon DEF Chain, b
      <3> DEFINE y == L[j].addr
                 e == End(b)
      <3>2. e \in Nat /\ y \in Nat /\ e <= y /\ y <= x /\ x < e
        BY <1>4, <2>1, <2>4, <2>5, <3>1, Zenon
      <3> HIDE DEF y, e
      <3> QED  BY <2>1, <3>2
    <2>9. CASE j < i
      <3>1. End(L[j]) <= b.addr
        BY <1>1, <2>7, <2>9, Zenon DEF Chain, b
      <3> DEFINE y == b.addr
                 e == End(L[j])
      <3>2. e \in Nat /\ y \in Nat /\ e <= y /\ y <= x /\ x < e
        BY <1>4, <2>1, <2>4, <2>5, <3>1, Zenon
      <3> HIDE DEF y, e
      <3> QED  BY <2>1, <3>2
    <2> QED  BY <2>6, <2>7, <2>8, <2>9
  <1>9. p - HEADER .. p + l - 1 \cap T = {}
    BY <1>8
  <1> QED  BY <1>7, <1>9, Zenon DEF L, b, l

\* kmalloc is Allocate, or Crash.
LEMMA MallocAllocates ==
    ASSUME HeapInv, NEW n \in Size, kmalloc(n)
    PROVE  Promise!Allocate \/ Promise!Crash
  <1> DEFINE L == Initialized
             r == Rounded(n)
  <1>1. PICK i \in 1 .. Len(L) :
          /\ n # 0
          /\ Fits(L[i], r)
          /\ \A j \in 1 .. i - 1 : ~Fits(L[j], r)
          /\ IF Unmapped(HandedOut(L[i], r))
                THEN /\ faulted' = n
                     /\ blocks' = L
                     /\ held' = held
                ELSE /\ blocks' = SubSeq(L, 1, i - 1) \o HandedOut(L[i], r)
                                     \o SubSeq(L, i + 1, Len(L))
                     /\ held' = held \cup {Allocation(L[i], n)}
                     /\ faulted' = faulted
    BY Zenon DEF kmalloc, Allocation
  <1>2. n \in Size \ {0}
    BY <1>1
  <1>3. CASE Unmapped(HandedOut(L[i], r))
    <2>1. faulted' = n /\ held' = held
      BY <1>1, <1>3
    <2>2. ~Promise!Hole(n + (Overhead + HEADER + ALIGN - 1), MAPPED)
      BY <1>1, <1>2, <1>3, FaultOnlyWhenFull, Zenon
    <2> DEFINE live == {Live(a) : a \in held}
    <2>3. live' = live
      BY <2>1
    <2>4. Promise!Crash
      BY <2>1, <2>2, <2>3 DEF Promise!Crash, Live, Length
    <2> QED  BY <2>4
  <1>4. CASE ~Unmapped(HandedOut(L[i], r))
    <2> DEFINE a == Allocation(L[i], n)
               p == L[i].addr + HEADER
               live == {Live(x) : x \in held}
    <2>1. held' = held \cup {a} /\ faulted' = faulted
      BY <1>1, <1>4
    <2>2. /\ p \in HEAP_START .. HeapEnd
          /\ p + Length(n) <= HeapEnd
          /\ p - HEADER .. p + Length(n) - 1 \cap Promise!Taken = {}
      BY <1>1, <1>2, HandsOutFree, Zenon
    <2>3. Live(a) = [ptr |-> p, len |-> Length(n)]
      <3>1. a.ptr = p /\ a.asked = n
        BY DEF Allocation
      <3> QED  BY <3>1, Zenon DEF Live
    <2>4. {Live(x) : x \in held'} = live \cup {Live(a)}
      <3> HIDE DEF a
      <3> QED  BY <2>1, MoreLive, Zenon
    <2>5. {Live(x) : x \in held'} = live \cup {[ptr |-> p, len |-> Length(n)]}
      BY <2>3, <2>4, Zenon
    <2>6. n > 0
      BY <1>2, Places
    <2> HIDE DEF p, a
    <2>7. Promise!Allocate
      <3>1. \E k \in Size, q \in HEAP_START .. HeapEnd :
               /\ k > 0
               /\ q + Length(k) <= HeapEnd
               /\ q - HEADER .. q + Length(k) - 1 \cap Promise!Taken = {}
               /\ {Live(x) : x \in held'} = live \cup {[ptr |-> q, len |-> Length(k)]}
               /\ faulted' = faulted
        BY <2>1, <2>2, <2>5, <2>6, Zenon
      <3> QED  BY <3>1, Zenon DEF Promise!Allocate, Live, Length
    <2> QED  BY <2>7
  <1> QED  BY <1>3, <1>4

\* kfree is Free.
LEMMA FreeFrees ==
    ASSUME HeapInv, NEW a \in held, kfree(a)
    PROVE  Promise!Free
  <1> DEFINE live == {Live(x) : x \in held}
  <1>1. held' = held \ {a} /\ faulted' = faulted
    BY DEF kfree
  <1>2. \A x, y \in held : Live(x) = Live(y) => x = y
    <2> TAKE x, y \in held
    <2> HAVE Live(x) = Live(y)
    <2>1. Live(x).ptr = x.ptr /\ Live(y).ptr = y.ptr
      BY DEF Live
    <2>2. x.ptr = y.ptr
      BY <2>1
    <2> QED  BY <2>2, Zenon DEF HeapInv, Owned
  <1>3. {Live(x) : x \in held'} = live \ {Live(a)}
    BY <1>1, <1>2
  <1>4. \E l \in live : {Live(x) : x \in held'} = live \ {l}
    BY <1>3
  <1> QED  BY <1>1, <1>4, Zenon DEF Promise!Free, Live, Length

\* No two callers share a byte, all is within the heap, and only a request
\* for which the mapped part has no hole stops the kernel.
THEOREM HeapIsAllocator == Spec => ImplementsAllocator
  <1>1. Init => Promise!AllocatorInit
    BY DEF Init, Promise!AllocatorInit
  <1>2. HeapInv /\ [Next]_vars => [Promise!AllocatorNext]_(Promise!allocatorVars)
    <2> SUFFICES ASSUME HeapInv, [Next]_vars
                 PROVE  [Promise!AllocatorNext]_(Promise!allocatorVars)
      OBVIOUS
    <2>1. ASSUME faulted = 0, NEW n \in Size, kmalloc(n)
          PROVE  Promise!AllocatorNext
      BY <2>1, MallocAllocates, Zenon DEF Promise!AllocatorNext
    <2>2. ASSUME NEW n \in Size, kmalloc_NULL(n)
          PROVE  UNCHANGED Promise!allocatorVars
      BY <2>2 DEF kmalloc_NULL, Promise!allocatorVars
    <2>3. ASSUME faulted = 0, NEW a \in held, kfree(a)
          PROVE  Promise!AllocatorNext
      BY <2>3, FreeFrees, Zenon DEF Promise!AllocatorNext
    <2>4. ASSUME UNCHANGED vars PROVE UNCHANGED Promise!allocatorVars
      BY <2>4 DEF vars, Promise!allocatorVars
    <2> QED  BY <2>1, <2>2, <2>3, <2>4, Zenon DEF Next
  <1> QED
    BY <1>1, <1>2, HeapInvHolds, PTL
       DEF Spec, ImplementsAllocator, Promise!AllocatorSpec
=============================================================================
