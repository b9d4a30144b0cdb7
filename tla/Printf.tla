------------------------------- MODULE Printf -------------------------------
(***************************************************************************)
(* The number printing of display/display.c.  A printed number is the      *)
(* sequence of its digits, with Minus in front of a negative one.  What    *)
(* kprintf prints is the sequence of the numbers that the directives of    *)
(* its format stand for; the text between them is left out.                *)
(*                                                                         *)
(* The arguments of a call lie on the stack as words.  An int, a long and  *)
(* a pointer take one word each, a uint64_t takes two, the low one first.  *)
(***************************************************************************)
EXTENDS Integers, Sequences, SequencesExt

CONSTANT Word   \* 2^32

UInt32 == 0 .. Word - 1

Minus == -1

\* A word as an int.
Signed(w) == IF w < Word \div 2 THEN w ELSE w - Word

\* The digit loop, which fills its buffer from the lowest digit on.
Buffered(base) ==
    LET buf[num \in UInt32] ==
            IF num = 0 THEN <<>> ELSE <<num % base>> \o buf[num \div base]
    IN  buf

\* Mutant: the buffer is printed in the order in which it was filled.
kprint_unsigned_Forwards(num, base) ==
    IF num = 0 THEN <<0>> ELSE Buffered(base)[num]

\* kprint_hex and kprint_ulong: zero first, then the buffer backwards.
kprint_unsigned(num, base) ==
    IF num = 0 THEN <<0>> ELSE Reverse(Buffered(base)[num])

kprint_num(num) ==
    IF num < 0 THEN <<Minus>> \o kprint_unsigned(-num, 10)
    ELSE kprint_unsigned(num, 10)

\* One directive and the word it takes; %lx takes a word like %x does.
Directive(d, w) ==
    CASE d \in {"%d", "%ld"} -> kprint_num(Signed(w))
      [] d \in {"%x", "%lx"} -> kprint_unsigned(w, 16)
      [] d = "%lu" -> kprint_unsigned(w, 10)

\* The directives of a format and the words of the arguments, in step.
kprintf(format, words) ==
    [k \in DOMAIN format |-> Directive(format[k], words[k])]

-----------------------------------------------------------------------------
\* The numbers that the first k digits stand for.
ReadUpTo(digits, base) ==
    LET upto[k \in 0 .. Len(digits)] ==
            IF k = 0 THEN 0 ELSE upto[k - 1] * base + digits[k]
    IN  upto

Unsigned(digits, base) == ReadUpTo(digits, base)[Len(digits)]

\* The number that digits stand for, to a reader who knows the base.
Value(digits, base) ==
    IF Head(digits) = Minus THEN -Unsigned(Tail(digits), base)
    ELSE Unsigned(digits, base)
=============================================================================
