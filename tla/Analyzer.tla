------------------------------ MODULE Analyzer ------------------------------
(***************************************************************************)
(* analyze_circuit of zxhsim/analyzer.py: the structure of a circuit from   *)
(* its instructions alone.  It runs an AffineAddressMap over them and       *)
(* computes no amplitude.  It has no branch for "p", although the set of    *)
(* names it accepts (gate_sets.py) has that gate: such a circuit ends in    *)
(* NotImplementedError.  Counts of gates by name are left out.              *)
(***************************************************************************)
EXTENDS AffineAddressMap, Sequences

Lists == INSTANCE SequencesExt

\* _AnalyzerState before any instruction, and after clear_gates.
NewState == [map |-> EmptyMap, events |-> << >>, volume |-> 0, refused |-> FALSE]

\* _record_gate, of a gate that leaves the map so: an expansion is noted with
\* the width after it, and a gate of class Z or H traverses every address in use.
Recorded(st, class, map) ==
  [map |-> map,
   events |-> IF Width(map) > Width(st.map) THEN Append(st.events, Width(map)) ELSE st.events,
   volume |-> IF class = "X" THEN st.volume ELSE st.volume + 2 ^ Width(map),
   refused |-> FALSE]

\* The branches of analyze_circuit; after the exception nothing more is read.
AnalyzeInstruction(st, i) ==
  CASE st.refused \/ i.name \in {"barrier", "measure", "id"} -> st
    [] ~st.refused /\ i.name = "reset" -> NewState
    [] ~st.refused /\ i.name = "x" -> Recorded(st, "X", MapX(st.map, i.q))
    [] ~st.refused /\ i.name = "cx" -> Recorded(st, "X", MapCX(st.map, i.cq, i.q))
    [] ~st.refused /\ i.name \in {"h", "u", "u3", "rx"} ->
         Recorded(st, "H", ExpandForQubit(st.map, i.q))
    [] ~st.refused /\ i.name \in {"z", "rz", "cp", "crz"} -> Recorded(st, "Z", st.map)
    [] OTHER -> [st EXCEPT !.refused = TRUE]

Analyze(circuit) == Lists!FoldLeft(AnalyzeInstruction, NewState, circuit)
=============================================================================
