---------------------------- MODULE MCTransport ----------------------------
(***************************************************************************)
(* Loader, and with it Transport, over the amplitudes of module Amplitudes, *)
(* composed with the matrix of module BitMat that holds A in the code.      *)
(***************************************************************************)
EXTENDS Loader, Amplitudes, BitMat

CONSTANT
  MaxRerun \* circuits longer than this start from a new object only

MCQubits == 0 .. N - 1

\* The matrix has a row for every qubit.
ASSUME MatrixAssumption == Qubits = MCQubits

I(name, cq, q, theta, phi, lambda) ==
  [name |-> name, cq |-> cq, q |-> q, theta |-> theta, phi |-> phi, lambda |-> lambda]

\* Every branch of the front end; u and id go the ways of u3 and measure.
MCInstruction ==
  {I("h", 0, q, 0, 0, 0) : q \in MCQubits}
  \cup {I("cx", p[1], p[2], 0, 0, 0) : p \in {r \in MCQubits \X MCQubits : r[1] # r[2]}}
  \cup { I("x", 0, N - 1, 0, 0, 0), I("z", 0, 0, 0, 0, 0), I("rz", 0, N - 1, 3, 0, 0),
         I("rx", 0, N - 1, 1, 0, 0), I("p", 0, 0, 1, 0, 0), I("u3", 0, N - 1, 2, 1, 3),
         I("cp", 0, N - 1, 3, 0, 0), I("crz", 0, 1, 2, 0, 0), I("barrier", 0, 0, 0, 0, 0),
         I("measure", 0, 0, 0, 0, 0), I("reset", 0, 0, 0, 0, 0) }

MCCalls == {Lowered(i) : i \in {j \in MCInstruction : j.name # "reset"}}

MCGate == UNION {{gs[i] : i \in DOMAIN gs} : gs \in MCCalls}

\* State left by an earlier execution meets circuits of at most MaxRerun instructions.
Bounded ==
  pc = 0 /\ Len(circuit) > MaxRerun => m = 0 /\ b = {} /\ phase = One /\ traversed = 0
-----------------------------------------------------------------------------
\* A as the code holds it: one column per bit of a real address.
Columns == [c \in 0 .. m - 1 |-> amap[{c}]]

\* solve answers false exactly when no address solves A x = rhs, and an address
\* it returns is a solution, for the e_q of every U3 and for every other
\* right-hand side: row swaps, skipped columns and the early end of the
\* elimination lose and invent nothing.
SolveCorrect ==
  pc \in 1 .. Len(program) /\ program[pc].type \in {"H", "U3"} =>
    \A rhs \in SUBSET Rows :
      LET s == Solve(Columns, rhs) IN
      IF s.ok THEN s.x \in Real(m) /\ amap[s.x] = rhs
              ELSE \A x \in Real(m) : amap[x] # rhs

\* The selector that make_selector(q) reads off row q of the matrix and bit q of
\* b tells bit q of every virtual address, with the popcount of the code.
SelectorReadsRow ==
  pc \in 1 .. Len(program) =>
    LET q == program[pc].q
        sel == [alpha |-> GetRow(Columns, q), beta |-> q \in b] IN
    \A x \in Real(m) : Eval(sel, x) <=> Selects(q, x)

\* The matrix after gate g.
Updated(g) ==
  IF g.type = "CX" THEN RowXorMat(Columns, g.q, g.cq)
  ELSE IF m' > m THEN AppendCol(Columns, {g.q})
  ELSE Columns

\* What row_xor and append_col do to the columns is what every product A x goes
\* through, so no amplitude is left at the basis state it had before.
MatrixFollows ==
  [][pc' = pc + 1 /\ pc > 0 =>
       \A x \in Real(m') : Mul(Updated(program[pc]), x) = amap'[x]]_vars
=============================================================================
