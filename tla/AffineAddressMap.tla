-------------------------- MODULE AffineAddressMap --------------------------
(***************************************************************************)
(* AffineAddressMap of _agl.py, the address map the Python front end keeps  *)
(* beside a circuit: a bit matrix with a row per qubit and an offset.  A    *)
(* column is the set of the qubits whose row has the bit; the columns are   *)
(* linearly independent, so they form a set, and width is their number.     *)
(***************************************************************************)
EXTENDS BitVec, FiniteSets, FiniteSetsExt

\* Before any gate: no column, no offset.
EmptyMap == [cols |-> {}, offset |-> {}]

\* The sum of the columns in S, and the space the columns span.
SumOf(S) == FoldSet(LAMBDA v, w : v \oplus w, {}, S)
Span(cols) == {SumOf(S) : S \in SUBSET cols}

\* requires_expansion: A x = e_q has no solution (solve).
RequiresExpansion(map, q) == {q} \notin Span(map.cols)

\* expand_for_qubit.
ExpandForQubit(map, q) ==
  IF RequiresExpansion(map, q)
  THEN [cols |-> map.cols \cup {{q}}, offset |-> map.offset] ELSE map

\* Fault: x flips the offset of the row behind.
MapXNextRow(map, q) == [map EXCEPT !.offset = @ \oplus {q + 1}]

\* x.
MapX(map, q) == [map EXCEPT !.offset = @ \oplus {q}]

\* Fault: cx adds the rows and forgets the offset.
MapCXKeepsOffset(map, c, q) ==
  [map EXCEPT !.cols = {RowXor(v, q, c) : v \in map.cols}]

\* cx; row_xor acts on every column alike.
MapCX(map, c, q) ==
  [cols |-> {RowXor(v, q, c) : v \in map.cols},
   offset |-> RowXor(map.offset, q, c)]

Width(map) == Cardinality(map.cols)
=============================================================================
