------------------------- MODULE BoundaryScheduler -------------------------
(***************************************************************************)
(* _BoundaryScheduler of circ_optimizer.py: one pass over a circuit that    *)
(* holds back the one-qubit operator pending on each qubit, lets a pair of  *)
(* exact H gates cross a CX, and emits everything else at the boundary      *)
(* where it can wait no longer.                                             *)
(*                                                                         *)
(* The input is read one instruction at a time.  Instead of the two         *)
(* circuits the model keeps the operators they stand for: want is the       *)
(* operator of the instructions read, out.op that of the instructions       *)
(* emitted, as arrays over the images of module Amplitudes.  A measurement  *)
(* is a projection onto one of its outcomes.  A reset starts over: the      *)
(* loader of the emitted circuit answers it with clear_gates.               *)
(***************************************************************************)
EXTENDS AffineAddressMap, Amplitudes, Sequences

CONSTANT
  Inputs \* the kinds of runs: the qubits, the optimize_level, the instructions
         \* the circuit may hold and a bound on its length

ASSUME SchedulerAssumption ==
  \A i \in Inputs : /\ i.qubits \subseteq Nat
                   /\ IsFiniteSet(i.qubits)
                   /\ {i.level, i.length} \subseteq Nat

VARIABLES
  input,   \* the run
  read,    \* instructions read
  want,    \* the operator of the instructions read
  todo,    \* lowered steps of the last one that are not processed yet
  pending, \* _pending: per qubit, the kind and the matrix held back
  out,     \* _out and _agl: the operator emitted and its address map
  plain    \* the address map of the same input without optimization

vars == <<input, read, want, todo, pending, out, plain>>

-----------------------------------------------------------------------------
(* Operators on all the qubits: op[c] is the image of basis state c.        *)

Qubits == input.qubits
Basis == SUBSET Qubits
IdentityOp == [c \in Basis |-> [r \in Basis |-> IF r = c THEN 1 ELSE 0]]

\* op followed by the one-qubit matrix u on qubit q.
Apply1Q(u, q, op) ==
  [c \in Basis |-> [r \in Basis |->
    IF q \in r THEN OddOf(u, op[c][r \ {q}], op[c][r])
               ELSE EvenOf(u, op[c][r], op[c][r \cup {q}])]]

\* op followed by the basis change r |-> From(r), an involution, or by the
\* diagonal phases e^(i Angle(r)/2).
Permute(op, From(_)) == [c \in Basis |-> [r \in Basis |-> op[c][From(r)]]]
Diagonal(op, Angle(_)) ==
  [c \in Basis |-> [r \in Basis |-> HalfBackBy(-Angle(r), op[c][r])]]

\* op followed by the projection onto the states in which q has value b.
Project(op, q, b) ==
  [c \in Basis |-> [r \in Basis |-> IF (q \in r) = b THEN op[c][r] ELSE 0]]

\* Every nonzero residue is a power of the root, so this is equality up to a
\* global phase.
SameUpToPhase(a, b) ==
  \E k \in Amps \ {0} : \A c, r \in Basis : b[c][r] = (k * a[c][r]) % P17

-----------------------------------------------------------------------------
(* Instructions.  qs is the sequence of the qubits, theta an angle.         *)

Instr(name, qs, theta) == [name |-> name, qs |-> qs, theta |-> theta]

Boundaries == {"barrier", "measure", "reset"}

\* What QuantumCircuit.append accepts: as many qubits of the circuit as the
\* gate has, no two of them the same, and an angle.
WellFormed(i, Q) ==
  /\ i = Instr(i.name, i.qs, i.theta) /\ i.qs \in Seq(Q) /\ i.theta \in Int
  /\ \A j, k \in DOMAIN i.qs : i.qs[j] = i.qs[k] => j = k
  /\ \/ i.name \in {"h", "x", "p", "rx", "measure"} /\ Len(i.qs) = 1
     \/ i.name \in {"cx", "swap", "cz", "cp", "crz", "rzz"} /\ Len(i.qs) = 2
     \/ i.name \in {"ccz", "ccx"} /\ Len(i.qs) = 3
     \/ i.name \in {"barrier", "reset"}

ASSUME InstructionAssumption ==
  \A r \in Inputs : \A i \in r.instructions : WellFormed(i, r.qubits)

\* _single_qubit_matrix.  "p" stands for all the gates diag(1, e^(i theta))
\* up to phase: z, s, sdg, t, tdg, p, u1 and rz.
SingleQubitMatrix(i) ==
  CASE i.name = "h" -> U3Matrix(2, 4, 0)
    [] i.name = "x" -> U3Matrix(4, 4, 0)
    [] i.name = "p" -> U3Matrix(0, i.theta, 0)
    [] i.name = "rx" -> U3Matrix(i.theta, 2, -2)

\* Gate i applied after op, as the circuit library defines the gate.
GateAfter(i, op) ==
  LET On(k, r) == i.qs[k] \in r
      Both(r) == On(1, r) /\ On(2, r)
      Flip(r, k) == r \oplus {i.qs[k]}
      Phase(r, cond) == IF cond THEN 2 * i.theta ELSE 0
      Minus(cond) == IF cond THEN 8 ELSE 0
  IN CASE Len(i.qs) = 1 -> Apply1Q(SingleQubitMatrix(i), i.qs[1], op)
       [] i.name = "cx" -> Permute(op, LAMBDA r : IF On(1, r) THEN Flip(r, 2) ELSE r)
       [] i.name = "swap" ->
            Permute(op, LAMBDA r : IF On(1, r) # On(2, r) THEN Flip(Flip(r, 1), 2) ELSE r)
       [] i.name = "cz" -> Diagonal(op, LAMBDA r : Minus(Both(r)))
       [] i.name = "cp" -> Diagonal(op, LAMBDA r : Phase(r, Both(r)))
       [] i.name = "crz" ->
            Diagonal(op, LAMBDA r :
              IF ~On(1, r) THEN 0 ELSE IF On(2, r) THEN i.theta ELSE -i.theta)
       [] i.name = "rzz" -> Diagonal(op, LAMBDA r : Phase(r, On(1, r) # On(2, r)))
       [] i.name = "ccz" -> Diagonal(op, LAMBDA r : Minus(Both(r) /\ On(3, r)))
       [] i.name = "ccx" -> Permute(op, LAMBDA r : IF Both(r) THEN Flip(r, 3) ELSE r)

-----------------------------------------------------------------------------
(* Pending one-qubit operators.                                             *)

Scaled(m, k) ==
  [u00 |-> (k * m.u00) % P17, u01 |-> (k * m.u01) % P17,
   u10 |-> (k * m.u10) % P17, u11 |-> (k * m.u11) % P17]
Over(a, b) == CHOOSE k \in Amps : (k * b) % P17 = a
Det(m) == (m.u00 * m.u11 - m.u01 * m.u10) % P17

Empty == [kind |-> "EMPTY", matrix |-> Identity]

IsDiagonal(m) == m.u01 = 0 /\ m.u10 = 0
IsAntidiagonal(m) == m.u00 = 0 /\ m.u11 = 0
\* All four entries of modulus 1/sqrt(2).  The matrix is unitary, so
\* u11 = det * conj(u00) and the square of the modulus is u00 u11 / det.
IsBalanced(m) == (2 * m.u00 * m.u11) % P17 = Det(m)

\* _classify_pending.  ZERO_H and ONE_H matrices are rebuilt as X^x P(theta)
\* and P(near) H P(far), which fixes their global phase.
Classify(m) ==
  IF IsDiagonal(m) /\ m.u00 = m.u11 THEN Empty
  ELSE IF IsDiagonal(m)
  THEN [kind |-> "ZERO_H", matrix |-> Scaled(m, Over(1, m.u00))]
  ELSE IF IsAntidiagonal(m)
  THEN [kind |-> "ZERO_H", matrix |-> Scaled(m, Over(1, m.u10))]
  ELSE IF IsBalanced(m)
  THEN [kind |-> "ONE_H", matrix |-> Scaled(m, Over(CosHalf(2), m.u00))]
  ELSE [kind |-> "TWO_H", matrix |-> m]

\* _pending_is_exact_h.
IsExactH(p) ==
  p.kind = "ONE_H" /\ p.matrix = SingleQubitMatrix(Instr("h", <<0>>, 0))

\* _flush_qubit of operator p on qubit q, for o emitted so far: a ZERO_H
\* operator becomes an rz and, when it flips the qubit, an x; anything with an H
\* core becomes one h or one u.
Flushed(p, q, o) ==
  [op |-> Apply1Q(p.matrix, q, o.op),
   agl |-> CASE p.kind = "EMPTY" -> o.agl
             [] p.kind = "ZERO_H" -> IF p.matrix.u00 = 0 THEN MapX(o.agl, q) ELSE o.agl
             [] OTHER -> ExpandForQubit(o.agl, q)]

\* _flush_qubits and _flush_all: what is emitted then, and what stays pending.
FlushedAll(Q, o) == FoldSet(LAMBDA q, e : Flushed(pending[q], q, e), o, Q)

\* Fault: a flushed operator stays pending.
ClearedNothing(Q) == pending

Cleared(Q) == [q \in Qubits |-> IF q \in Q THEN Empty ELSE pending[q]]

\* Fault: the CX is emitted one way round and mapped the other.
EmitCXMapReversed(c, t, o) ==
  [op |-> GateAfter(Instr("cx", <<c, t>>, 0), o.op), agl |-> MapCX(o.agl, t, c)]

\* _emit_cx, and an instruction appended as it is (_append_raw).
EmitCX(c, t, o) ==
  [op |-> GateAfter(Instr("cx", <<c, t>>, 0), o.op), agl |-> MapCX(o.agl, c, t)]
EmitRaw(i, o) == [o EXCEPT !.op = GateAfter(i, @)]

\* _lower_noncore_steps; pi/4 is one unit of angle.
CX(c, t) == Instr("cx", <<c, t>>, 0)
RZ(q, theta) == Instr("p", <<q>>, theta)
HOn(q) == Instr("h", <<q>>, 0)

LoweredCCZ(a, b, t) ==
  << CX(b, t), RZ(t, -1), CX(a, t), RZ(t, 1), CX(b, t), RZ(t, -1), CX(a, t),
     RZ(b, 1), RZ(t, 1), CX(a, b), RZ(a, 1), RZ(b, -1), CX(a, b) >>

Lowered(i) ==
  LET q(k) == i.qs[k] IN
  CASE i.name = "swap" -> <<CX(q(1), q(2)), CX(q(2), q(1)), CX(q(1), q(2))>>
    [] i.name = "cz" -> <<Instr("cp", i.qs, 4)>>
    [] i.name = "rzz" -> <<CX(q(1), q(2)), RZ(q(2), i.theta), CX(q(1), q(2))>>
    [] i.name = "ccz" -> LoweredCCZ(q(1), q(2), q(3))
    [] i.name = "ccx" -> <<HOn(q(3))>> \o LoweredCCZ(q(1), q(2), q(3)) \o <<HOn(q(3))>>
    [] OTHER -> <<i>>

-----------------------------------------------------------------------------
(* The scan.                                                                *)

Init ==
  /\ input \in Inputs
  /\ read = 0
  /\ want = IdentityOp
  /\ todo = << >>
  /\ pending = [q \in Qubits |-> Empty]
  /\ out = [op |-> IdentityOp, agl |-> EmptyMap]
  /\ plain = EmptyMap

\* The next instruction of the input; the end of the input is where no
\* instruction is left.
NextInstruction ==
  /\ todo = << >>
  /\ read < input.length
  /\ read' = read + 1

\* An instruction that is no boundary goes through its lowered steps.
ReadGate(i) ==
  /\ NextInstruction
  /\ i.name \notin Boundaries
  /\ want' = GateAfter(i, want)
  /\ todo' = Lowered(i)
  /\ UNCHANGED <<pending, out, plain>>

\* barrier, measure and reset: flush everything, then the instruction itself.
FlushEverything == pending' = Cleared(Qubits)

Barrier(i) ==
  /\ NextInstruction
  /\ i.name = "barrier"
  /\ FlushEverything
  /\ out' = FlushedAll(Qubits, out)
  /\ UNCHANGED <<want, todo, plain>>

Measure(i) ==
  /\ NextInstruction
  /\ i.name = "measure"
  /\ FlushEverything
  /\ \E b \in BOOLEAN :
       /\ want' = Project(want, i.qs[1], b)
       /\ out' = [FlushedAll(Qubits, out) EXCEPT !.op = Project(@, i.qs[1], b)]
  /\ UNCHANGED <<todo, plain>>

Reset(i) ==
  /\ NextInstruction
  /\ i.name = "reset"
  /\ FlushEverything
  /\ want' = IdentityOp
  /\ out' = [op |-> IdentityOp, agl |-> EmptyMap]
  /\ plain' = EmptyMap
  /\ UNCHANGED todo

\* The step in front: it is processed and dropped.
Step == Head(todo)
TakeStep == todo # << >> /\ todo' = Tail(todo) /\ UNCHANGED <<read, want>>

\* _absorb_1q, with the flush that follows when there is no optimization.
Absorb ==
  /\ TakeStep
  /\ Len(Step.qs) = 1
  /\ LET q == Step.qs[1]
         p == Classify(LeftMultiply(SingleQubitMatrix(Step), pending[q].matrix))
         alone == Classify(SingleQubitMatrix(Step))
     IN /\ plain' = Flushed(alone, q, [op |-> IdentityOp, agl |-> plain]).agl
        /\ IF input.level > 0
           THEN pending' = [pending EXCEPT ![q] = p] /\ UNCHANGED out
           ELSE out' = Flushed(p, q, out) /\ pending' = Cleared({q})

\* Fault: an exact H on the control is enough.
CanCrossOneSided(c, t) == input.level > 0 /\ IsExactH(pending[c])

\* _handle_cx: exact H gates pending on both sides stay pending and the CX is
\* reversed; otherwise both sides are flushed first.
CanCross(c, t) == input.level > 0 /\ IsExactH(pending[c]) /\ IsExactH(pending[t])

CrossCX ==
  /\ TakeStep
  /\ Step.name = "cx"
  /\ CanCross(Step.qs[1], Step.qs[2])
  /\ out' = EmitCX(Step.qs[2], Step.qs[1], out)
  /\ plain' = MapCX(plain, Step.qs[1], Step.qs[2])
  /\ UNCHANGED pending

FlushCX ==
  /\ TakeStep
  /\ Step.name = "cx"
  /\ ~CanCross(Step.qs[1], Step.qs[2])
  /\ LET Q == {Step.qs[1], Step.qs[2]} IN
       /\ out' = EmitCX(Step.qs[1], Step.qs[2], FlushedAll(Q, out))
       /\ pending' = Cleared(Q)
  /\ plain' = MapCX(plain, Step.qs[1], Step.qs[2])

\* Any other gate, cp or crz: flush its qubits and append it.
RawGate ==
  /\ TakeStep
  /\ Len(Step.qs) = 2
  /\ Step.name # "cx"
  /\ LET Q == {Step.qs[1], Step.qs[2]} IN
       /\ out' = EmitRaw(Step, FlushedAll(Q, out))
       /\ pending' = Cleared(Q)
  /\ UNCHANGED plain

Next ==
  /\ \/ \E i \in input.instructions :
          ReadGate(i) \/ Barrier(i) \/ Measure(i) \/ Reset(i)
     \/ Absorb
     \/ CrossCX
     \/ FlushCX
     \/ RawGate
  /\ UNCHANGED input

Spec == Init /\ [][Next]_vars

-----------------------------------------------------------------------------
(* Properties.                                                              *)

\* What the scan would have emitted if the input ended here: run() ends with
\* _flush_all.
Final == FlushedAll(Qubits, out)

\* Types.
TypeOK ==
  /\ input \in Inputs
  /\ read \in 0 .. input.length
  /\ \A c, r \in Basis : want[c][r] \in Amps /\ out.op[c][r] \in Amps
  /\ \A q \in Qubits : pending[q].kind \in {"EMPTY", "ZERO_H", "ONE_H", "TWO_H"}
  /\ \A map \in {out.agl, plain} : map.cols \subseteq Basis /\ map.offset \in Basis

\* The optimizer keeps the meaning of the circuit: after every instruction the
\* emitted gates followed by what is pending are the input read so far, for
\* every initial state and every measurement outcome, up to a global phase.
Equivalent == todo = << >> => SameUpToPhase(want, Final.op)

\* The address map kept beside the emitted gates covers what they do to |0..0>:
\* no amplitude lies outside the addresses it can represent.
SupportCovered ==
  \A r \in Basis :
    out.op[{}][r] # 0 => r \oplus out.agl.offset \in Span(out.agl.cols)

\* Optimization pays: wherever the circuit ends, the emitted circuit expands the
\* state vector no further than the same circuit without optimization.
SupportNeverGrows == todo = << >> => Width(Final.agl) <= Width(plain)
=============================================================================
