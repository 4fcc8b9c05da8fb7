---------------------------- MODULE CircuitState ----------------------------
(***************************************************************************)
(* What the simulator promises: a ZXH object holds a program, and execute() *)
(* turns |0...0> into the state the program prepares, one gate at a time,   *)
(* over the dense vector of all 2^N amplitudes.  There is no address map,   *)
(* no lazy support, no batching and no worker here.  The state vector is    *)
(* kept apart from the accumulated global phase, as ZXH::global_phase is.   *)
(* Amplitudes and gate matrices are parameters.                             *)
(***************************************************************************)
EXTENDS BitVec, Sequences

CONSTANTS
  Qubits,         \* the qubits 0 .. N-1
  Gate,           \* the gate_t records a program may hold
  MaxGates,       \* bound on the length of a program
  Calls,          \* what one builder call pushes: sequences of gates
  Pi,             \* the angle of a Z gate
  Amp, Zero, One, \* amplitudes
  Rot(_, _),      \* Rot(t, a) = e^(i t) a
  HalfBack(_, _), \* HalfBack(t, a) = e^(-i t/2) a
  Even(_, _, _),  \* Even(g, a, c) = u00 a + u01 c for the matrix of gate g
  Odd(_, _, _)    \* Odd(g, a, c)  = u10 a + u11 c

VARIABLES program, pc, psi, phase

vars == <<program, pc, psi, phase>>

\* Computational basis states: the sets of the qubits that are one.
Basis == SUBSET Qubits

Ket0 == [v \in Basis |-> IF v = {} THEN One ELSE Zero]

Theta(g) == IF g.type = "Z" THEN Pi ELSE g.theta

\* The state after gate g, amplitude by amplitude.
GateOn(g, s) ==
  [v \in Basis |->
    CASE g.type = "X"  -> s[v \oplus {g.q}]
      [] g.type = "CX" -> s[RowXor(v, g.q, g.cq)]
      [] g.type \in {"Z", "Rz", "P"} ->
           IF g.q \in v THEN Rot(Theta(g), s[v]) ELSE s[v]
      [] g.type = "CP" ->
           IF {g.cq, g.q} \subseteq v THEN Rot(Theta(g), s[v]) ELSE s[v]
      [] g.type \in {"H", "U3"} ->
           IF g.q \in v THEN Odd(g, s[v \oplus {g.q}], s[v])
                        ELSE Even(g, s[v], s[v \oplus {g.q}])
      [] OTHER -> s[v]]

PhaseAfter(g, p) ==
  IF g.type \in {"Z", "Rz"} THEN HalfBack(Theta(g), p) ELSE p

Init ==
  /\ program = << >>
  /\ pc = 0
  /\ psi = Ket0
  /\ phase = One

AddGates(gs) ==
  /\ pc = 0
  /\ Len(program \o gs) <= MaxGates
  /\ program' = program \o gs
  /\ UNCHANGED <<pc, psi, phase>>

ClearGates ==
  /\ pc = 0
  /\ program' = << >>
  /\ phase' = One
  /\ UNCHANGED <<pc, psi>>

Execute ==
  /\ pc = 0
  /\ pc' = 1
  /\ psi' = Ket0
  /\ phase' = One
  /\ UNCHANGED program

\* (psi is named by s so that TLC evaluates the expression an instance puts in
\* its place once.)
ApplyGate ==
  /\ pc \in 1 .. Len(program)
  /\ pc' = pc + 1
  /\ \E s \in {psi} : psi' = GateOn(program[pc], s)
  /\ phase' = PhaseAfter(program[pc], phase)
  /\ UNCHANGED program

Finish ==
  /\ pc > Len(program)
  /\ pc' = 0
  /\ UNCHANGED <<program, psi, phase>>

Next ==
  \/ \E gs \in Calls : AddGates(gs)
  \/ ClearGates
  \/ Execute
  \/ ApplyGate
  \/ Finish

Spec == Init /\ [][Next]_vars
=============================================================================
