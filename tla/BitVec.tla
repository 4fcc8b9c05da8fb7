------------------------------- MODULE BitVec -------------------------------
(***************************************************************************)
(* Vectors over F2.  A bitvec_t, a raddr_t and a column of a bitmat_t are   *)
(* all modelled by the set of the positions that hold a one; addition is    *)
(* the symmetric difference, and row_xor applied to one column is RowXor.   *)
(***************************************************************************)
EXTENDS Integers

\* Addition of two vectors: operator^ of bitvec_t and ^ of two raddr_t.
v \oplus w == (v \ w) \cup (w \ v)

\* The effect of bitmat_t::row_xor(dst, src) on one column: bit dst becomes
\* its sum with bit src.
RowXor(v, dst, src) == IF src \in v THEN v \oplus {dst} ELSE v

\* Real addresses of k bits: the numbers 0 .. 2^k - 1 as sets of bit positions.
Real(k) == SUBSET (0 .. k - 1)

\* raddr_lower_bits(x, n), raddr_higher_bits(x, n) and the inverse of the latter.
LowerBits(x, n) == {i \in x : i < n}
HigherBits(x, n) == {i - n : i \in {j \in x : j >= n}}
ShiftUp(x, n) == {i + n : i \in x}
=============================================================================
