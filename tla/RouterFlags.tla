------------------------------ MODULE RouterFlags ------------------------------
(***************************************************************************)
(* The flag byte of a router: what setFlag makes of it and what            *)
(* printRouter tells about it.  Bits 0, 1 and 2 are one property each, bits *)
(* 4 to 7 hold the modification number with its bits in reverse order.     *)
(***************************************************************************)
EXTENDS Integers

Byte == 0..255

Bit(c, i) == (c \div 2^i) % 2

\* The bits of a four-bit number in reverse order.
Reversed(value) ==
    8 * Bit(value, 0) + 4 * Bit(value, 1) + 2 * Bit(value, 2) + Bit(value, 3)

\* The arguments setFlag accepts.
Accepts(flag, value) ==
    /\ flag \in {0, 1, 2, 4}
    /\ value \in IF flag = 4 THEN 0..15 ELSE 0..1

\* The flag byte c after setFlag: one bit is set or cleared, or the upper four
\* are written.
WithFlag(c, flag, value) ==
    IF flag = 4 THEN (c % 16) + 16 * Reversed(value)
    ELSE c + (value - Bit(c, flag)) * 2^flag

\* What printRouter shows: the three properties and the modification number.
Printed(c) ==
    [k \in {0, 1, 2, 4} |-> IF k = 4 THEN Reversed(c \div 16) ELSE Bit(c, k)]

=============================================================================
