------------------------ MODULE MCBoundaryScheduler ------------------------
(***************************************************************************)
(* BoundaryScheduler on two and on three qubits.                            *)
(***************************************************************************)
EXTENDS BoundaryScheduler

\* Two qubits: one instruction of every kind.
TwoQubitInstructions ==
  {HOn(q) : q \in {0, 1}}
  \cup { RZ(0, 1), RZ(1, 2), Instr("x", <<1>>, 0), Instr("rx", <<0>>, 1),
         CX(0, 1), CX(1, 0), Instr("swap", <<1, 0>>, 0), Instr("cz", <<0, 1>>, 0),
         Instr("cp", <<0, 1>>, 1), Instr("crz", <<0, 1>>, 2),
         Instr("rzz", <<0, 1>>, 1), Instr("barrier", << >>, 0),
         Instr("measure", <<0>>, 0), Instr("measure", <<1>>, 0),
         Instr("reset", <<0>>, 0) }

\* Three qubits: H everywhere, so that H gates meet the CX gates of the
\* lowered ccz and ccx.
ThreeQubitInstructions ==
  {HOn(q) : q \in {0, 1, 2}}
  \cup { CX(0, 1), CX(2, 1), RZ(2, 1),
         Instr("ccz", <<0, 1, 2>>, 0), Instr("ccz", <<2, 0, 1>>, 0),
         Instr("ccx", <<0, 1, 2>>, 0), Instr("ccx", <<1, 2, 0>>, 0) }

\* Circuits on two and on three qubits, and two qubits without optimization.
MCInputs ==
  { [qubits |-> {0, 1}, level |-> 2, instructions |-> TwoQubitInstructions, length |-> 5],
    [qubits |-> {0, 1}, level |-> 0, instructions |-> TwoQubitInstructions, length |-> 3],
    [qubits |-> {0, 1, 2}, level |-> 2, instructions |-> ThreeQubitInstructions, length |-> 4] }
=============================================================================
