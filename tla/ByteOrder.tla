----------------------------- MODULE ByteOrder ------------------------------
(***************************************************************************)
(* bo.h: byte order and single bits.  A value in memory is the sequence of *)
(* its bytes, lowest address first, whatever C type it has: the functions  *)
(* for the widths and for float differ in nothing else.  A number that the *)
(* bit macros change is the set of its one bits.                           *)
(***************************************************************************)
EXTENDS Integers, Sequences, SequencesExt

\* __endianess: f is one byte wide and lies over c[0] on every host, so that the
\* library takes every host for a little endian one.
endianess == [c |-> <<"l", "0", "0", "b">>]
f == endianess.c[1]
host_little_endian == f = "l"
host_big_endian == f = "b"

SwapTo(n, i) == n - i                   \* mutant: one place too low
\* Index of the byte that changes places with byte i of n, counted from 1.
Opposite(n, i) == n - i + 1

\* The loop over the first half exchanges b[i] and b[size-i-1].
BO_swap_bytes(v) ==
    LET Exchange(b, i) == [b EXCEPT ![i] = b[Opposite(Len(b), i)],
                                    ![Opposite(Len(b), i)] = b[i]]
    IN  FoldLeft(Exchange, v, [i \in 1..(Len(v) \div 2) |-> i])

BO_htole(v) == IF host_big_endian THEN BO_swap_bytes(v) ELSE v
BO_htobe(v) == IF host_little_endian THEN BO_swap_bytes(v) ELSE v
BO_letoh(v) == IF host_big_endian THEN BO_swap_bytes(v) ELSE v
BO_betoh(v) == IF host_little_endian THEN BO_swap_bytes(v) ELSE v

\* The readers of byte arrays guard what they call a second time; the one for little
\* endian bytes calls betoh under the other condition, which leaves the value alone.
BO_bytes_betoh(b) == IF host_little_endian THEN BO_betoh(b) ELSE b
BO_bytes_letoh(b) == IF host_big_endian THEN BO_betoh(b) ELSE b

\* The bytes of a number below 256^n in memory, in either order.
LittleBytes(x, n) == [i \in 1..n |-> (x \div 256^(i - 1)) % 256]
BigBytes(x, n) == [i \in 1..n |-> (x \div 256^(n - i)) % 256]

-----------------------------------------------------------------------------
Bits == 0..30       \* 1 << x is defined for an int
Xor(a, b) == (a \ b) \cup (b \ a)

BO_set_bit(n, x) == n \cup {x}
BO_clear_bit(n, x) == n \cap (Bits \ {x})
BO_toggle_bit(n, x) == Xor(n, {x})
BO_check_bit(n, x) == IF x \in n THEN 1 ELSE 0
\* -(x) is all ones or zero.
BO_change_bit(n, at, x) == Xor(n, Xor(IF x = 1 THEN Bits ELSE {}, n) \cap {at})
=============================================================================
