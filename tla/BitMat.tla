------------------------------- MODULE BitMat -------------------------------
(***************************************************************************)
(* The N x m matrix over F2 of core/bitmat.cpp and the selectors read off   *)
(* it.  A matrix is the function from its column numbers 0 .. m-1 to its    *)
(* columns, each the set of the rows that hold a one.  Solve is the         *)
(* Gauss-Jordan elimination of the code.                                    *)
(***************************************************************************)
EXTENDS BitVec, FiniteSetsExt, Functions

Seqs == INSTANCE SequencesExt

CONSTANT N \* the number of rows, one per qubit

ASSUME RowsAssumption == N \in Nat

Rows == 0 .. N - 1

Cols(mat) == Cardinality(DOMAIN mat)

EmptyMat == [c \in {} |-> {}]

\* Fault: source and destination exchanged.
RowXorSwapped(mat, dst, src) == [c \in DOMAIN mat |-> RowXor(mat[c], src, dst)]

RowXorMat(mat, dst, src) == [c \in DOMAIN mat |-> RowXor(mat[c], dst, src)]

AppendCol(mat, v) == [c \in 0 .. Cols(mat) |-> IF c = Cols(mat) THEN v ELSE mat[c]]

\* mul: the sum of the columns that the address names.
Mul(mat, x) == FoldFunctionOnSet(\oplus, {}, mat, x)

\* get_row: the columns that hold a one in row r.
GetRow(mat, r) == {c \in DOMAIN mat : r \in mat[c]}

\* Fault: any chosen bit instead of the parity.
AnyBit(s) == s # {}

\* selector_t(alpha, beta).eval(x): the parity of the chosen bits, plus beta.
Parity(s) == Cardinality(s) % 2 = 1
Eval(sel, x) == Parity(sel.alpha \cap x) # sel.beta

\* The elimination state of solve: the rows of mat, the right-hand side (the
\* rows where it is one), the pivot row of each column (-1 if it has none) and
\* the next pivot row.
StartElim(mat, rhs) ==
  [rows |-> [r \in Rows |-> GetRow(mat, r)],
   rhs |-> rhs,
   pivot |-> [c \in DOMAIN mat |-> -1],
   row |-> 0]

\* Fault: the right-hand side is not swapped with the rows.
SwapRowsOnly(st, p) ==
  [st EXCEPT !.rows = [@ EXCEPT ![p] = st.rows[st.row], ![st.row] = st.rows[p]]]

\* std::swap of two rows, with their bits of the right-hand side.
SwapRows(st, p) ==
  [rows |-> [st.rows EXCEPT ![p] = st.rows[st.row], ![st.row] = st.rows[p]],
   rhs |-> {r \in Rows : (CASE r = p -> st.row
                            [] r = st.row -> p
                            [] OTHER -> r) \in st.rhs},
   pivot |-> st.pivot,
   row |-> st.row]

\* The pivot row is added to every other row with a one in column c.
ClearColumn(st, c) ==
  LET hit == {r \in Rows \ {st.row} : c \in st.rows[r]} IN
  [rows |-> [r \in Rows |-> IF r \in hit THEN st.rows[r] \oplus st.rows[st.row]
                                         ELSE st.rows[r]],
   rhs |-> IF st.row \in st.rhs THEN st.rhs \oplus hit ELSE st.rhs,
   pivot |-> [st.pivot EXCEPT ![c] = st.row],
   row |-> st.row + 1]

\* One turn of the loop over the columns.
ElimColumn(st, c) ==
  LET candidates == {r \in Rows : r >= st.row /\ c \in st.rows[r]} IN
  IF candidates = {} THEN st
  ELSE ClearColumn(SwapRows(st, Min(candidates)), c)

Eliminated(mat, rhs) ==
  Seqs!FoldLeft(ElimColumn, StartElim(mat, rhs), [i \in 1 .. Cols(mat) |-> i - 1])

\* solve: ok unless a zero row asks for a one; x has the bits of the pivot
\* columns, the free ones are zero.
Solve(mat, rhs) ==
  LET st == Eliminated(mat, rhs) IN
  [ok |-> \A r \in Rows : st.rows[r] = {} => r \notin st.rhs,
   x |-> {c \in DOMAIN mat : st.pivot[c] \in st.rhs}]
=============================================================================
