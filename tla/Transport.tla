----------------------------- MODULE Transport -----------------------------
(***************************************************************************)
(* The simulation method of ZXH::impl_t, one gate at a time.  Amplitudes    *)
(* live at real addresses of m bits; the affine map x |-> A x + b places    *)
(* them in the basis.  X and CX only change (A, b); Z, Rz, P and CP turn    *)
(* amplitudes in place, chosen by the selectors of the map; H and U3 mix    *)
(* the neighbours x and x + delta with A delta = e_q, and when there is no  *)
(* such delta the support is doubled and e_q becomes a new column of A.     *)
(*                                                                         *)
(* A is represented by the table of its products (amap[x] is A x), which    *)
(* BitMat relates to the column form of bitmat_t.  Diagonal windows, U3     *)
(* batches and workers are left to ZXHExecute.                              *)
(***************************************************************************)
EXTENDS BitVec, Sequences

CONSTANTS
  Qubits, Gate, MaxGates, Calls, Pi, Amp, Zero, One,
  Rot(_, _), HalfBack(_, _), Even(_, _, _), Odd(_, _, _)

\* Gates name qubits of the object (the range checks of the builders); the two
\* qubits of a CX differ, which the callers in src guarantee.
ASSUME GateAssumption ==
  \A g \in Gate :
    /\ g.type \in {"Barrier", "Z", "Rz", "P", "CP", "X", "CX", "H", "U3"}
    /\ g.q \in Qubits
    /\ g.type \in {"CX", "CP"} => g.cq \in Qubits
    /\ g.type = "CX" => g.cq # g.q

ASSUME CallsAssumption == Calls \subseteq Seq(Gate)

\* What is used of complex arithmetic: it is closed, and it is linear.
ASSUME AmpAssumption ==
  /\ Zero \in Amp
  /\ One \in Amp
  /\ \A g \in Gate :
       LET t == IF g.type = "Z" THEN Pi ELSE g.theta IN
       /\ Rot(t, Zero) = Zero
       /\ Even(g, Zero, Zero) = Zero
       /\ Odd(g, Zero, Zero) = Zero
       /\ \A a \in Amp : Rot(t, a) \in Amp /\ HalfBack(t, a) \in Amp
       /\ \A a, c \in Amp : Even(g, a, c) \in Amp /\ Odd(g, a, c) \in Amp

VARIABLES
  program, \* impl_t::gates
  pc,      \* 0 when idle, else the index of the next gate of execute()
  phase,   \* global_phase
  m,       \* the width of the real addresses in use
  amap,    \* [Real(m) -> Basis], the linear part A
  b,       \* the translation b
  sv       \* [Real(m) -> Amp], the stored amplitudes

vars == <<program, pc, phase, m, amap, b, sv>>

Basis == SUBSET Qubits

Theta(g) == IF g.type = "Z" THEN Pi ELSE g.theta

\* make_selector(q).eval(x): bit q of the virtual address of x.
Selects(q, x) == q \in amap[x] \oplus b

\* Fault: a right-hand side that agrees in one row counts as solved.
DeltasOneRow(q) == {d \in Real(m) : q \in amap[d]}

\* A.solve(e_q, delta): the real addresses that A maps to e_q.
Deltas(q) == {d \in Real(m) : amap[d] = {q}}

Init ==
  /\ program = << >>
  /\ pc = 0
  /\ phase = One
  /\ m = 0
  /\ amap = [x \in Real(0) |-> {}]
  /\ b = {}
  /\ sv = [x \in Real(0) |-> One]

AddGates(gs) ==
  /\ pc = 0
  /\ Len(program \o gs) <= MaxGates
  /\ program' = program \o gs
  /\ UNCHANGED <<pc, phase, m, amap, b, sv>>

ClearGates ==
  /\ pc = 0
  /\ program' = << >>
  /\ phase' = One
  /\ UNCHANGED <<pc, m, amap, b, sv>>

\* The prologue of execute(): sv.reset(), A = bitmat_t(N), b = bitvec_t(N).
Execute ==
  /\ pc = 0
  /\ pc' = 1
  /\ phase' = One
  /\ m' = 0
  /\ amap' = [x \in Real(0) |-> {}]
  /\ b' = {}
  /\ sv' = [x \in Real(0) |-> One]
  /\ UNCHANGED program

ApplyX(g) ==
  /\ g.type = "X"
  /\ b' = b \oplus {g.q}
  /\ UNCHANGED <<phase, m, amap, sv>>

\* Fault: the translation misses the row operation.
ApplyCXKeepsB(g) ==
  /\ g.type = "CX"
  /\ amap' = [x \in Real(m) |-> RowXor(amap[x], g.q, g.cq)]
  /\ UNCHANGED <<phase, m, b, sv>>

ApplyCX(g) ==
  /\ g.type = "CX"
  /\ amap' = [x \in Real(m) |-> RowXor(amap[x], g.q, g.cq)]
  /\ b' = RowXor(b, g.q, g.cq)
  /\ UNCHANGED <<phase, m, sv>>

\* Z and Rz are lowered to P and a global phase of -theta/2.
ApplyP(g) ==
  /\ g.type \in {"Z", "Rz", "P"}
  /\ sv' = [x \in Real(m) |->
              IF Selects(g.q, x) THEN Rot(Theta(g), sv[x]) ELSE sv[x]]
  /\ phase' = IF g.type \in {"Z", "Rz"} THEN HalfBack(Theta(g), phase) ELSE phase
  /\ UNCHANGED <<m, amap, b>>

ApplyCP(g) ==
  /\ g.type = "CP"
  /\ sv' = [x \in Real(m) |->
              IF Selects(g.cq, x) /\ Selects(g.q, x)
              THEN Rot(Theta(g), sv[x]) ELSE sv[x]]
  /\ UNCHANGED <<phase, m, amap, b>>

\* The support doubles: sv.expand(), then A.append_col(e_q).
Extended(q) ==
  [x \in Real(m + 1) |-> IF m \in x THEN amap[x \ {m}] \oplus {q} ELSE amap[x]]

ZeroExtended ==
  [x \in Real(m + 1) |-> IF m \in x THEN Zero ELSE sv[x]]

\* u3_block_kernel over the map am and the amplitudes s of k-bit addresses.
Mixed(g, am, s, k, d) ==
  [x \in Real(k) |->
     IF g.q \in am[x] \oplus b THEN Odd(g, s[x \oplus d], s[x])
                               ELSE Even(g, s[x], s[x \oplus d])]

ApplyU3Local(g) ==
  /\ g.type \in {"H", "U3"}
  /\ \E d \in Deltas(g.q) : sv' = Mixed(g, amap, sv, m, d)
  /\ UNCHANGED <<phase, m, amap, b>>

\* Faults: a column is appended whether or not it depends on the others; a
\* column is appended and sv.expand() forgotten.
AlwaysExpand(g) ==
  /\ g.type \in {"H", "U3"}
  /\ m' = m + 1
  /\ amap' = Extended(g.q)
  /\ sv' = Mixed(g, Extended(g.q), ZeroExtended, m + 1, {m})
  /\ UNCHANGED <<phase, b>>

AppendWithoutExpand(g) ==
  /\ g.type \in {"H", "U3"}
  /\ Deltas(g.q) = {}
  /\ amap' = Extended(g.q)
  /\ sv' = Mixed(g, Extended(g.q), ZeroExtended, m + 1, {m})
  /\ UNCHANGED <<phase, m, b>>

ApplyU3Expand(g) ==
  /\ g.type \in {"H", "U3"}
  /\ Deltas(g.q) = {}
  /\ m' = m + 1
  /\ amap' = Extended(g.q)
  /\ sv' = Mixed(g, Extended(g.q), ZeroExtended, m + 1, {m})
  /\ UNCHANGED <<phase, b>>

\* A barrier only closes the diagonal window, which is not modelled here.
ApplyBarrier(g) ==
  /\ g.type = "Barrier"
  /\ UNCHANGED <<phase, m, amap, b, sv>>

ApplyGate ==
  /\ pc \in 1 .. Len(program)
  /\ LET g == program[pc] IN
       \/ ApplyX(g)
       \/ ApplyCX(g)
       \/ ApplyP(g)
       \/ ApplyCP(g)
       \/ ApplyU3Local(g)
       \/ ApplyU3Expand(g)
       \/ ApplyBarrier(g)
  /\ pc' = pc + 1
  /\ UNCHANGED program

Finish ==
  /\ pc > Len(program)
  /\ pc' = 0
  /\ UNCHANGED <<program, phase, m, amap, b, sv>>

Next ==
  \/ \E gs \in Calls : AddGates(gs)
  \/ ClearGates
  \/ Execute
  \/ ApplyGate
  \/ Finish

Spec == Init /\ [][Next]_vars
-----------------------------------------------------------------------------
(***************************************************************************)
(* Properties.                                                             *)
(***************************************************************************)

\* The shape of the state: a table of products and an amplitude for every
\* real address in use (the state of impl_t).
TypeOK ==
  /\ program \in Seq(Gate)
  /\ pc \in Nat
  /\ phase \in Amp
  /\ m \in Nat
  /\ amap \in [Real(m) -> Basis]
  /\ b \in Basis
  /\ sv \in [Real(m) -> Amp]

\* A stays linear through row operations and appended columns, so a neighbour
\* of a real address stays its neighbour whatever the address is.
Linear ==
  \A x, y \in Real(m) : amap[x \oplus y] = amap[x] \oplus amap[y]

\* No two real addresses stand for the same basis state: the columns of A are
\* independent, whatever sequence of row_xor and append_col produced them.
NoAliasing ==
  \A x, y \in Real(m) : amap[x] = amap[y] => x = y

\* Every pair that u3_block_kernel mixes is a pair of basis states that differ
\* in the qubit of the gate and in nothing else, and selectors tell the even
\* from the odd one.
NeighboursDifferInOneQubit ==
  \A q \in Qubits : \A d \in Deltas(q) : \A x \in Real(m) :
    /\ amap[x \oplus d] \oplus b = (amap[x] \oplus b) \oplus {q}
    /\ Selects(q, x) <=> ~Selects(q, x \oplus d)

\* The virtual state that get_state() assembles: the amplitude of x is found
\* at A x + b, every other basis state has amplitude zero.
Decode(am, s, k, bb) ==
  [v \in Basis |->
     IF \E x \in Real(k) : am[x] \oplus bb = v
     THEN s[CHOOSE x \in Real(k) : am[x] \oplus bb = v]
     ELSE Zero]

Decoded == Decode(amap, sv, m, b)

\* The method implements the dense semantics: transport, lazy support and
\* neighbour mixing lose nothing of the state the program prepares.
Dense == INSTANCE CircuitState WITH psi <- Decoded
RefinesCircuit == Dense!Spec
=============================================================================
