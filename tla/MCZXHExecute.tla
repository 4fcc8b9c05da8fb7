---------------------------- MODULE MCZXHExecute ----------------------------
(***************************************************************************)
(* ZXHExecute with one call of every builder.                               *)
(***************************************************************************)
EXTENDS ZXHExecute

CONSTANTS
  PreludeKind, \* which opening sequence the longer programs start with
  MaxShort,    \* programs longer than this start with the opening sequence
  MaxRerun     \* programs longer than this start from a new object only

\* The plain object, the one without transport and the one that expands first.
Plain == [disableX |-> FALSE, eager |-> FALSE]
ExplicitXMode == [disableX |-> TRUE, eager |-> FALSE]
EagerMode == [disableX |-> FALSE, eager |-> TRUE]

PlainOnly == {Plain}
PlainAndExplicitX == {Plain, ExplicitXMode}
EagerOnly == {EagerMode}
PlainAndEager == {Plain, EagerMode}

G(type, cq, q, theta, lambda, phi) ==
  [type |-> type, cq |-> cq, q |-> q, theta |-> theta, lambda |-> lambda, phi |-> phi]

HGate(q) == G("H", 0, q, 0, 0, 0)
CXGate(c, q) == G("CX", c, q, 0, 0, 0)
Last == N - 1

\* An opening sequence leaves a support that is spread over blocks and a map
\* that is not the identity.
Prelude ==
  CASE PreludeKind = "none"   -> << >>
    [] PreludeKind = "spread" -> <<HGate(0), HGate(1), HGate(Last)>>
    [] PreludeKind = "mixed"  -> <<HGate(0), CXGate(0, 1), HGate(Last)>>

MCCalls ==
  {<<HGate(q)>> : q \in Qubits}
  \cup { <<CXGate(0, 1)>>, <<CXGate(1, Last)>>, <<CXGate(Last, 0)>>,
         <<G("X", 0, 0, 0, 0, 0)>>,
         <<G("Rz", 0, 1, 3, 0, 0)>>,
         <<G("CP", 0, Last, 3, 0, 0)>>,
         <<G("U3", 0, 1, 1, 2, -2)>>,
         <<G("Barrier", 0, 0, 0, 0, 0)>> }
  \cup (IF Prelude = << >> THEN {} ELSE {Prelude})

\* A barrier settles the batch on every worker alike; one process shows it.
MCWorkerCalls == MCCalls \ {<<G("Barrier", 0, 0, 0, 0, 0)>>}

Bounded ==
  /\ Len(program) > MaxShort =>
       Prelude = SubSeq(program, 1, Len(Prelude))
  /\ idx = 0 /\ Len(program) > MaxRerun => M = 0 /\ am.b = {} /\ phase[Root] = 1
=============================================================================
