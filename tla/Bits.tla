--------------------------------- MODULE Bits ---------------------------------
(* Numbers as bits, in the two orders the codecs pack them.                  *)
EXTENDS Integers, Sequences, SequencesExt

\* n bits of a number, the least significant first, as deflate packs them.
LowFirst(value, n) == [k \in 1 .. n |-> (value \div 2 ^ (k - 1)) % 2]

\* n bits of a number, the most significant first, as LZW packs them.
HighFirst(value, n) == [k \in 1 .. n |-> (value \div 2 ^ (n - k)) % 2]

FromHigh(bits) == FoldLeft(LAMBDA value, bit : 2 * value + bit, 0, bits)
FromLow(bits) == FromHigh(Reverse(bits))

Zeros(n) == [k \in 1 .. n |-> 0]

\* Zeros up to the next multiple of n.
Padding(bits, n) == Zeros((n - (Len(bits) % n)) % n)

\* The units of n bits that a multiple of n bits makes.
Units(bits, n) == [k \in 1 .. Len(bits) \div n |-> SubSeq(bits, n * (k - 1) + 1, n * k)]
===============================================================================
