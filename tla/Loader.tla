------------------------------- MODULE Loader -------------------------------
(***************************************************************************)
(* The front end before the core: load_circuit_transpiled of zxhsim/qasm.py *)
(* hands the instructions of a circuit to the builders of the core, one by  *)
(* one, while the analyzer reads the same instructions and never meets the  *)
(* core.  Steps of the core itself are those of Transport.                  *)
(***************************************************************************)
EXTENDS Transport, Analyzer

CONSTANTS
  Instruction, \* [name, cq, q, theta, phi, lambda], the last three as Qiskit orders them
  MaxCircuit   \* bound on the instructions loaded

VARIABLES
  circuit,  \* the instructions loaded since the object was made or cleared
  traversed \* amplitudes that gates of class Z and H met since execute() began

loaderVars == <<circuit, traversed, vars>>

\* What the builder of that gate pushes.
Pushed(type, cq, q, theta, lambda, phi) ==
  [type |-> type, cq |-> cq, q |-> q, theta |-> theta, lambda |-> lambda, phi |-> phi]

CRz(cq, q, theta) == << Pushed("P", 0, cq, -(theta \div 2), 0, 0),
                        Pushed("CP", cq, q, theta, 0, 0) >>

\* phi and lambda in the order of gate_t.
Rx(q, theta) == << Pushed("U3", 0, q, theta, Pi \div 2, -(Pi \div 2)) >>

\* The gates that the core gets for an instruction other than "reset".
Lowered(i) ==
  CASE i.name = "barrier" -> << Pushed("Barrier", 0, 0, 0, 0, 0) >>
    [] i.name \in {"measure", "id"} -> << >>
    [] i.name = "x" -> << Pushed("X", 0, i.q, 0, 0, 0) >>
    [] i.name = "cx" -> << Pushed("CX", i.cq, i.q, 0, 0, 0) >>
    [] i.name = "h" -> << Pushed("H", 0, i.q, 0, 0, 0) >>
    [] i.name = "z" -> << Pushed("Z", 0, i.q, 0, 0, 0) >>
    [] i.name = "rz" -> << Pushed("Rz", 0, i.q, i.theta, 0, 0) >>
    [] i.name = "rx" -> Rx(i.q, i.theta)
    [] i.name = "p" -> << Pushed("P", 0, i.q, i.theta, 0, 0) >>
    [] i.name \in {"u", "u3"} -> << Pushed("U3", 0, i.q, i.theta, i.lambda, i.phi) >>
    [] i.name = "cp" -> << Pushed("CP", i.cq, i.q, i.theta, 0, 0) >>
    [] i.name = "crz" -> CRz(i.cq, i.q, i.theta)

Names == {"barrier", "measure", "reset", "id", "x", "cx", "h", "z", "rz", "rx",
          "p", "u", "u3", "cp", "crz"}

\* _validate_gate_set lets the native gates through, and no others.
ASSUME InstructionAssumption ==
  \A i \in Instruction : i.name \in Names /\ (i.name # "reset" => Lowered(i) \in Calls)

LoaderInit == Init /\ circuit = << >> /\ traversed = 0

\* One instruction of load_circuit_transpiled; "reset" is taken for clear_gates.
Load(i) ==
  /\ Len(circuit) < MaxCircuit
  /\ circuit' = Append(circuit, i)
  /\ IF i.name = "reset" THEN ClearGates ELSE AddGates(Lowered(i))
  /\ UNCHANGED traversed

\* clear_gates called by the user, before another circuit.
Clear == ClearGates /\ circuit' = << >> /\ UNCHANGED traversed

Start == Execute /\ traversed' = 0 /\ UNCHANGED circuit

Traverse ==
  /\ ApplyGate
  /\ traversed' = traversed + IF program[pc].type \in {"X", "CX", "Barrier"} THEN 0
                                                       ELSE Cardinality(DOMAIN sv')
  /\ UNCHANGED circuit

End == Finish /\ UNCHANGED <<circuit, traversed>>

LoaderNext ==
  \/ \E i \in Instruction : Load(i)
  \/ Clear
  \/ Start
  \/ Traverse
  \/ End

LoaderSpec == LoaderInit /\ [][LoaderNext]_loaderVars
-----------------------------------------------------------------------------
(***************************************************************************)
(* Properties.                                                             *)
(***************************************************************************)

\* Of every circuit it accepts the analyzer predicts what execute() does with it:
\* when the loop has applied the last gate, the core's address map has the columns
\* and the offset that the analyzer computed, and has expanded once per event, in
\* order.  The work it counts is the core's traversals, except that a crz, which the
\* core makes of a P and a CP, is counted once: the core may do up to twice as much.
\* Resets in the circuit and executions in between change nothing of that.
AnalyzerAgrees ==
  LET st == Analyze(circuit) IN
  pc = Len(program) + 1 /\ ~st.refused =>
    /\ st.map = [cols |-> {amap[{c}] : c \in 0 .. m - 1}, offset |-> b]
    /\ st.events = [i \in 1 .. m |-> i]
    /\ st.volume <= traversed /\ traversed <= 2 * st.volume
    /\ (\A j \in DOMAIN circuit : circuit[j].name # "crz") => traversed = st.volume
=============================================================================
