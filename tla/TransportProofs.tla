-------------------------- MODULE TransportProofs --------------------------
(***************************************************************************)
(* Theorems about Transport, for every set of qubits, gates, programs and   *)
(* amplitudes that its assumptions allow.  The first part proves the        *)
(* inductive invariant IInv (the shape of the state, linearity of A and     *)
(* independence of its columns) action by action, and from it the safety    *)
(* properties.  The second part shows that every step of the method decodes *)
(* to the step CircuitState takes on the dense state, or to none.  The third *)
(* compares it with the bit matrix, the fourth the analyzer with it.        *)
(***************************************************************************)
EXTENDS AlgebraProofs, MCTransport

-----------------------------------------------------------------------------
(***************************************************************************)
(* The inductive invariant: the map is typed, linear and injective.        *)
(***************************************************************************)
IInv == TypeOK /\ Linear /\ NoAliasing

LEMMA MapOfEmpty ==
  ASSUME TypeOK, Linear
  PROVE  amap[{}] = {}
<1>1. {} \in Real(m)
  BY RealGrows DEF TypeOK
<1>2. amap[{} \oplus {}] = amap[{}] \oplus amap[{}]
  BY <1>1 DEF Linear
<1>3. QED
  BY <1>2, XorEmpty

\* One column more: the extended map is linear, and injective when e_q had no
\* preimage.
LEMMA ExtendedTyped ==
  ASSUME TypeOK, NEW q \in Qubits
  PROVE  Extended(q) \in [Real(m + 1) -> Basis]
<1>1. \A x \in Real(m + 1) : x \ {m} \in Real(m)
  BY RealGrows DEF TypeOK
<1>2. \A x \in Real(m + 1) : m \notin x => x \in Real(m)
  BY RealGrows DEF TypeOK
<1>3. \A v \in Basis : v \oplus {q} \in Basis
  BY XorClosed DEF Basis
<1>4. QED
  BY <1>1, <1>2, <1>3 DEF Extended, TypeOK

LEMMA ExtendedLinear ==
  ASSUME TypeOK, Linear, NEW q \in Qubits,
         NEW x \in Real(m + 1), NEW y \in Real(m + 1)
  PROVE  Extended(q)[x \oplus y] = Extended(q)[x] \oplus Extended(q)[y]
<1> DEFINE e == {q}
           u == amap[x \ {m}]
           v == amap[y \ {m}]
<1>1. m \in Nat /\ m + 1 \in Nat
  BY DEF TypeOK
<1>2. x \ {m} \in Real(m) /\ y \ {m} \in Real(m) /\ x \oplus y \in Real(m + 1)
  BY <1>1, RealGrows, RealXor
<1>3. amap[(x \oplus y) \ {m}] = u \oplus v
  <2>1. amap[(x \ {m}) \oplus (y \ {m})] = u \oplus v
    BY <1>2 DEF Linear
  <2>2. (x \oplus y) \ {m} = (x \ {m}) \oplus (y \ {m})
    BY DEF \oplus
  <2>3. QED
    BY <2>1, <2>2
<1>4. \A z \in Real(m + 1) :
        Extended(q)[z] = IF m \in z THEN amap[z \ {m}] \oplus e ELSE amap[z \ {m}]
  BY <1>1, RealGrows DEF Extended
<1>5. m \in x \oplus y <=> (m \in x /\ m \notin y) \/ (m \notin x /\ m \in y)
  BY XorMember
<1> HIDE DEF e, u, v
<1>6. /\ (u \oplus e) \oplus (v \oplus e) = u \oplus v
      /\ (u \oplus e) \oplus v = (u \oplus v) \oplus e
      /\ u \oplus (v \oplus e) = (u \oplus v) \oplus e
  BY DEF \oplus
<1>7. Extended(q)[x] = (IF m \in x THEN u \oplus e ELSE u)
  BY <1>4 DEF u
<1>8. Extended(q)[y] = (IF m \in y THEN v \oplus e ELSE v)
  BY <1>4 DEF v
<1>9. Extended(q)[x \oplus y]
        = (IF m \in x \oplus y THEN (u \oplus v) \oplus e ELSE u \oplus v)
  BY <1>2, <1>3, <1>4
<1>10. QED
  BY <1>5, <1>6, <1>7, <1>8, <1>9

LEMMA ExtendedInjective ==
  ASSUME TypeOK, Linear, NoAliasing, NEW q \in Qubits, Deltas(q) = {},
         NEW x \in Real(m + 1), NEW y \in Real(m + 1),
         Extended(q)[x] = Extended(q)[y]
  PROVE  x = y
<1>1. m \in Nat
  BY DEF TypeOK
<1>2. x \ {m} \in Real(m) /\ y \ {m} \in Real(m)
  BY <1>1, RealGrows
<1>3. (x \ {m}) \oplus (y \ {m}) \in Real(m)
  BY <1>1, <1>2, RealXor
<1>4. amap[x \ {m}] \oplus amap[y \ {m}] # {q}
  BY <1>2, <1>3 DEF Deltas, Linear
<1>5. \A z \in Real(m + 1) :
        Extended(q)[z] = IF m \in z THEN amap[z \ {m}] \oplus {q} ELSE amap[z \ {m}]
  BY <1>1, RealGrows DEF Extended
<1>6. CASE (m \in x) = (m \in y)
  <2>1. amap[x \ {m}] = amap[y \ {m}]
    BY <1>5, <1>6, XorInjective
  <2>2. x \ {m} = y \ {m}
    BY <1>2, <2>1 DEF NoAliasing
  <2>3. QED
    BY <1>6, <2>2
<1>7. CASE m \in x /\ m \notin y
  <2>1. amap[x \ {m}] \oplus {q} = amap[y \ {m}]
    BY <1>5, <1>7
  <2>2. QED
    BY <1>4, <2>1, XorCancel
<1>8. CASE m \notin x /\ m \in y
  <2>1. amap[y \ {m}] \oplus {q} = amap[x \ {m}]
    BY <1>5, <1>8
  <2>2. QED
    BY <1>4, <2>1, XorCancel, XorComm
<1>9. QED
  BY <1>6, <1>7, <1>8

\* The part of the invariant a gate can disturb.
StateOK ==
  /\ phase \in Amp
  /\ m \in Nat
  /\ amap \in [Real(m) -> Basis]
  /\ b \in Basis
  /\ sv \in [Real(m) -> Amp]
  /\ Linear
  /\ NoAliasing

LEMMA XKeepsState ==
  ASSUME IInv, NEW g \in Gate, ApplyX(g)
  PROVE  StateOK'
<1>1. b' \in Basis
  BY GateAssumption, XorClosed DEF IInv, TypeOK, ApplyX, Basis
<1>2. Linear' /\ NoAliasing'
  BY DEF IInv, Linear, NoAliasing, ApplyX
<1>3. QED
  BY <1>1, <1>2 DEF IInv, TypeOK, StateOK, ApplyX

LEMMA CXKeepsState ==
  ASSUME IInv, NEW g \in Gate, ApplyCX(g)
  PROVE  StateOK'
<1> USE DEF ApplyCX
<1>1. g.q \in Qubits /\ g.cq # g.q
  BY GateAssumption
<1>2. amap' \in [Real(m) -> Basis] /\ b' \in Basis
  BY <1>1, RowXorClosed DEF IInv, TypeOK, Basis
<1>3. \A x \in Real(m) : amap'[x] = RowXor(amap[x], g.q, g.cq)
  OBVIOUS
<1>4. Linear'
  <2> SUFFICES ASSUME NEW x \in Real(m), NEW y \in Real(m)
               PROVE  amap'[x \oplus y] = amap'[x] \oplus amap'[y]
    BY DEF Linear
  <2>1. x \oplus y \in Real(m)
    BY RealXor DEF IInv, TypeOK
  <2>2. amap[x \oplus y] = amap[x] \oplus amap[y]
    BY DEF IInv, Linear
  <2>3. QED
    BY <1>3, <2>1, <2>2, RowXorAdditive
<1>5. NoAliasing'
  <2> SUFFICES ASSUME NEW x \in Real(m), NEW y \in Real(m), amap'[x] = amap'[y]
               PROVE  x = y
    BY DEF NoAliasing
  <2>1. amap[x] = amap[y]
    BY <1>1, <1>3, RowXorInvolution
  <2>2. QED
    BY <2>1 DEF IInv, NoAliasing
<1>6. QED
  BY <1>2, <1>4, <1>5 DEF IInv, TypeOK, StateOK

LEMMA DiagonalKeepsState ==
  ASSUME IInv, NEW g \in Gate, ApplyP(g) \/ ApplyCP(g)
  PROVE  StateOK'
<1>1. \A a \in Amp : Rot(Theta(g), a) \in Amp /\ HalfBack(Theta(g), a) \in Amp
  BY AmpAssumption DEF Theta
<1>2. sv' \in [Real(m) -> Amp] /\ phase' \in Amp
  BY <1>1 DEF IInv, TypeOK, ApplyP, ApplyCP
<1>3. Linear' /\ NoAliasing'
  BY DEF IInv, Linear, NoAliasing, ApplyP, ApplyCP
<1>4. QED
  BY <1>2, <1>3 DEF IInv, TypeOK, StateOK, ApplyP, ApplyCP

LEMMA MixedTyped ==
  ASSUME NEW g \in Gate, NEW am, NEW k \in Nat, NEW s \in [Real(k) -> Amp],
         NEW d \in Real(k)
  PROVE  Mixed(g, am, s, k, d) \in [Real(k) -> Amp]
<1>1. \A x \in Real(k) : x \oplus d \in Real(k)
  BY RealXor
<1>2. \A a, c \in Amp : Even(g, a, c) \in Amp /\ Odd(g, a, c) \in Amp
  BY AmpAssumption
<1>3. QED
  BY <1>1, <1>2 DEF Mixed

LEMMA U3LocalKeepsState ==
  ASSUME IInv, NEW g \in Gate, ApplyU3Local(g)
  PROVE  StateOK'
<1>1. sv' \in [Real(m) -> Amp]
  <2>1. PICK d \in Real(m) : sv' = Mixed(g, amap, sv, m, d)
    BY DEF ApplyU3Local, Deltas
  <2>2. m \in Nat /\ sv \in [Real(m) -> Amp]
    BY DEF IInv, TypeOK
  <2>3. Mixed(g, amap, sv, m, d) \in [Real(m) -> Amp]
    BY <2>2, MixedTyped
  <2>4. QED
    BY <2>1, <2>3
<1>2. Linear' /\ NoAliasing'
  BY DEF IInv, Linear, NoAliasing, ApplyU3Local
<1>3. QED
  BY <1>1, <1>2 DEF IInv, TypeOK, StateOK, ApplyU3Local

LEMMA U3ExpandKeepsState ==
  ASSUME IInv, NEW g \in Gate, ApplyU3Expand(g)
  PROVE  StateOK'
<1> USE DEF ApplyU3Expand
<1>1. m \in Nat /\ m' = m + 1 /\ g.q \in Qubits /\ TypeOK /\ Linear /\ NoAliasing
  BY GateAssumption DEF IInv, TypeOK
<1>2. amap' \in [Real(m + 1) -> Basis]
  BY <1>1, ExtendedTyped
<1>3. ZeroExtended \in [Real(m + 1) -> Amp]
  BY <1>1, RealGrows, AmpAssumption DEF ZeroExtended, TypeOK
<1>4. sv' \in [Real(m + 1) -> Amp]
  <2>1. {m} \in Real(m + 1) /\ m + 1 \in Nat
    BY <1>1, RealGrows
  <2>2. Mixed(g, Extended(g.q), ZeroExtended, m + 1, {m}) \in [Real(m + 1) -> Amp]
    BY <1>3, <2>1, MixedTyped
  <2>3. QED
    BY <2>2
<1>5. Linear'
  BY <1>1, ExtendedLinear DEF Linear
<1>6. NoAliasing'
  BY <1>1, ExtendedInjective DEF NoAliasing
<1>7. m' \in Nat /\ phase' \in Amp /\ b' \in Basis
  BY <1>1 DEF TypeOK
<1>8. amap' \in [Real(m') -> Basis] /\ sv' \in [Real(m') -> Amp]
  BY <1>1, <1>2, <1>4
<1>9. QED
  BY <1>5, <1>6, <1>7, <1>8 DEF StateOK

LEMMA FreshState ==
  ASSUME m' = 0, amap' = [x \in Real(0) |-> {}], b' = {},
         sv' = [x \in Real(0) |-> One], phase' = One
  PROVE  StateOK'
<1>1. Linear' /\ NoAliasing'
  BY RealZero, XorEmpty DEF Linear, NoAliasing
<1>2. QED
  BY <1>1, AmpAssumption DEF StateOK, Basis

LEMMA InitInv == Init => IInv
<1> SUFFICES ASSUME Init PROVE IInv
  OBVIOUS
<1>1. Linear /\ NoAliasing
  BY RealZero, XorEmpty DEF Linear, NoAliasing, Init
<1>2. QED
  BY <1>1, AmpAssumption DEF IInv, TypeOK, Basis, Init

LEMMA StepInv == IInv /\ [Next]_vars => IInv'
<1> SUFFICES ASSUME IInv, [Next]_vars PROVE IInv'
  OBVIOUS
<1>1. ASSUME NEW gs \in Calls, AddGates(gs) PROVE IInv'
  <2>1. program' \in Seq(Gate)
    BY <1>1, CallsAssumption DEF AddGates, IInv, TypeOK
  <2>2. QED
    BY <1>1, <2>1 DEF AddGates, IInv, TypeOK, Linear, NoAliasing
<1>2. CASE ClearGates
  BY <1>2, AmpAssumption DEF ClearGates, IInv, TypeOK, Linear, NoAliasing
<1>3. CASE Execute
  <2>1. StateOK'
    BY <1>3, FreshState DEF Execute
  <2>2. QED
    BY <1>3, <2>1 DEF Execute, StateOK, IInv, TypeOK
<1>4. CASE ApplyGate
  <2> DEFINE g == program[pc]
  <2>1. g \in Gate
    BY <1>4 DEF ApplyGate, IInv, TypeOK
  <2>2. StateOK'
    <3>1. CASE ApplyX(g)
      BY <2>1, <3>1, XKeepsState
    <3>2. CASE ApplyCX(g)
      BY <2>1, <3>2, CXKeepsState
    <3>3. CASE ApplyP(g) \/ ApplyCP(g)
      BY <2>1, <3>3, DiagonalKeepsState
    <3>4. CASE ApplyU3Local(g)
      BY <2>1, <3>4, U3LocalKeepsState
    <3>5. CASE ApplyU3Expand(g)
      BY <2>1, <3>5, U3ExpandKeepsState
    <3>6. CASE ApplyBarrier(g)
      BY <3>6 DEF ApplyBarrier, IInv, TypeOK, StateOK, Linear, NoAliasing
    <3>7. QED
      BY <1>4, <3>1, <3>2, <3>3, <3>4, <3>5, <3>6 DEF ApplyGate
  <2>3. program' \in Seq(Gate) /\ pc' \in Nat
    BY <1>4 DEF ApplyGate, IInv, TypeOK
  <2>4. QED
    BY <2>2, <2>3 DEF StateOK, IInv, TypeOK
<1>5. CASE Finish
  BY <1>5 DEF Finish, IInv, TypeOK, Linear, NoAliasing
<1>6. CASE UNCHANGED vars
  BY <1>6 DEF vars, IInv, TypeOK, Linear, NoAliasing
<1>7. QED
  BY <1>1, <1>2, <1>3, <1>4, <1>5, <1>6 DEF Next

LEMMA Inductive == Spec => []IInv
  BY InitInv, StepInv, PTL DEF Spec

-----------------------------------------------------------------------------
\* The state of the simulator keeps its shape, for any number of qubits.
THEOREM TypeCorrect == Spec => []TypeOK
<1>1. IInv => TypeOK
  BY DEF IInv
<1>2. QED
  BY <1>1, Inductive, PTL

\* Whatever circuit runs, no two stored amplitudes (sv[x], sv[y] of
\* ZXH::impl_t) ever belong to the same basis state.
THEOREM AddressesDistinct == Spec => []NoAliasing
<1>1. IInv => NoAliasing
  BY DEF IInv
<1>2. QED
  BY <1>1, Inductive, PTL

\* The address pair that solve_expand() gives to a U3 kernel is a pair of
\* basis states differing exactly in the gate's qubit, in every reachable state.
THEOREM NeighboursCorrect == Spec => []NeighboursDifferInOneQubit
<1>1. IInv => NeighboursDifferInOneQubit
  <2> SUFFICES ASSUME IInv, NEW q \in Qubits, NEW d \in Deltas(q), NEW x \in Real(m)
               PROVE  /\ amap[x \oplus d] \oplus b = (amap[x] \oplus b) \oplus {q}
                      /\ Selects(q, x) <=> ~Selects(q, x \oplus d)
    BY DEF NeighboursDifferInOneQubit
  <2>1. amap[x \oplus d] = amap[x] \oplus {q}
    BY DEF IInv, Linear, Deltas
  <2>2. amap[x \oplus d] \oplus b = (amap[x] \oplus b) \oplus {q}
    BY <2>1, XorAssoc, XorComm
  <2>3. \A v : q \in v <=> ~(q \in v \oplus {q})
    BY DEF \oplus
  <2>4. QED
    BY <2>2, <2>3 DEF Selects
<1>2. QED
  BY <1>1, Inductive, PTL

-----------------------------------------------------------------------------
(***************************************************************************)
(* Refinement: every step of the method is a step of the dense semantics.   *)
(***************************************************************************)

\* A map usable for decoding.
GoodMap(am, k) ==
  /\ k \in Nat
  /\ am \in [Real(k) -> Basis]
  /\ \A x, y \in Real(k) : am[x \oplus y] = am[x] \oplus am[y]
  /\ \A x, y \in Real(k) : am[x] = am[y] => x = y

LEMMA DecodeHit ==
  ASSUME NEW k, NEW am, NEW s, NEW bb \in Basis, GoodMap(am, k), NEW x \in Real(k)
  PROVE  Decode(am, s, k, bb)[am[x] \oplus bb] = s[x]
<1> DEFINE v == am[x] \oplus bb
           y == CHOOSE z \in Real(k) : am[z] \oplus bb = v
<1>1. v \in Basis
  BY XorClosed DEF GoodMap, Basis
<1>2. y \in Real(k) /\ am[y] \oplus bb = v
  OBVIOUS
<1>3. am[y] = am[x]
  BY <1>2, XorInjective
<1>4. y = x
  BY <1>2, <1>3 DEF GoodMap
<1>5. Decode(am, s, k, bb)[v] = s[y]
  BY <1>1 DEF Decode
<1>6. QED
  BY <1>4, <1>5

LEMMA DecodeMiss ==
  ASSUME NEW k, NEW am, NEW s, NEW bb, NEW v \in Basis,
         \A x \in Real(k) : am[x] \oplus bb # v
  PROVE  Decode(am, s, k, bb)[v] = Zero
  BY DEF Decode

\* A function is the decoded state when it agrees with the stored amplitudes
\* and vanishes elsewhere.
LEMMA DecodeUnique ==
  ASSUME NEW k, NEW am, NEW s, NEW bb \in Basis, GoodMap(am, k),
         NEW f, f = [v \in Basis |-> f[v]],
         \A x \in Real(k) : f[am[x] \oplus bb] = s[x],
         \A v \in Basis : (\A x \in Real(k) : am[x] \oplus bb # v) => f[v] = Zero
  PROVE  Decode(am, s, k, bb) = f
<1>1. ASSUME NEW v \in Basis PROVE Decode(am, s, k, bb)[v] = f[v]
  <2>1. CASE \E x \in Real(k) : am[x] \oplus bb = v
    BY <2>1, DecodeHit
  <2>2. CASE \A x \in Real(k) : am[x] \oplus bb # v
    BY <2>2, DecodeMiss
  <2>3. QED
    BY <2>1, <2>2
<1>2. Decode(am, s, k, bb) = [v \in Basis |-> Decode(am, s, k, bb)[v]]
  BY DEF Decode
<1>3. QED
  BY <1>1, <1>2

\* The abstract specification's operators are those of Transport.
LEMMA DenseBasis == Dense!Basis = Basis
  BY DEF Dense!Basis, Basis

LEMMA DenseXor ==
  ASSUME NEW v, NEW w
  PROVE  Dense!\oplus(v, w) = v \oplus w
  BY DEF Dense!\oplus, \oplus

LEMMA DenseRowXor ==
  ASSUME NEW v, NEW dst, NEW src
  PROVE  Dense!RowXor(v, dst, src) = RowXor(v, dst, src)
  BY DenseXor DEF Dense!RowXor, RowXor

LEMMA DenseTheta ==
  ASSUME NEW g
  PROVE  Dense!Theta(g) = Theta(g)
  BY DEF Dense!Theta, Theta

\* GateOn, one gate type at a time.
LEMMA GateOnX ==
  ASSUME NEW g, NEW p, NEW v \in Basis, g.type = "X"
  PROVE  Dense!GateOn(g, p)[v] = p[v \oplus {g.q}]
  BY DenseBasis, DenseXor DEF Dense!GateOn

LEMMA GateOnCX ==
  ASSUME NEW g, NEW p, NEW v \in Basis, g.type = "CX"
  PROVE  Dense!GateOn(g, p)[v] = p[RowXor(v, g.q, g.cq)]
  BY DenseBasis, DenseRowXor DEF Dense!GateOn

LEMMA GateOnP ==
  ASSUME NEW g, NEW p, NEW v \in Basis, g.type \in {"Z", "Rz", "P"}
  PROVE  Dense!GateOn(g, p)[v] = IF g.q \in v THEN Rot(Theta(g), p[v]) ELSE p[v]
  BY DenseBasis, DenseTheta DEF Dense!GateOn

LEMMA GateOnCP ==
  ASSUME NEW g, NEW p, NEW v \in Basis, g.type = "CP"
  PROVE  Dense!GateOn(g, p)[v]
           = IF {g.cq, g.q} \subseteq v THEN Rot(Theta(g), p[v]) ELSE p[v]
  BY DenseBasis, DenseTheta DEF Dense!GateOn

LEMMA GateOnU3 ==
  ASSUME NEW g, NEW p, NEW v \in Basis, g.type \in {"H", "U3"}
  PROVE  Dense!GateOn(g, p)[v] = IF g.q \in v THEN Odd(g, p[v \oplus {g.q}], p[v])
                                              ELSE Even(g, p[v], p[v \oplus {g.q}])
  BY DenseBasis, DenseXor DEF Dense!GateOn

LEMMA GateOnBarrier ==
  ASSUME NEW g, NEW p, NEW v \in Basis, g.type = "Barrier"
  PROVE  Dense!GateOn(g, p)[v] = p[v]
  BY DenseBasis DEF Dense!GateOn

LEMMA GateOnIsFunction ==
  ASSUME NEW g, NEW p
  PROVE  Dense!GateOn(g, p) = [v \in Basis |-> Dense!GateOn(g, p)[v]]
  BY DenseBasis DEF Dense!GateOn

LEMMA CurrentMapGood ==
  ASSUME IInv
  PROVE  GoodMap(amap, m) /\ b \in Basis
  BY DEF IInv, TypeOK, Linear, NoAliasing, GoodMap

LEMMA XDecodes ==
  ASSUME IInv, NEW g \in Gate, g.type = "X"
  PROVE  Decode(amap, sv, m, b \oplus {g.q}) = Dense!GateOn(g, Decoded)
<1> DEFINE f == Dense!GateOn(g, Decoded)
           c == b \oplus {g.q}
<1>1. g.q \in Qubits /\ c \in Basis /\ GoodMap(amap, m) /\ b \in Basis
  BY GateAssumption, CurrentMapGood, XorClosed DEF Basis
<1>2. \A v \in Basis : v \oplus {g.q} \in Basis
  BY <1>1, XorClosed DEF Basis
<1>3. \A v \in Basis : f[v] = Decoded[v \oplus {g.q}]
  BY GateOnX
<1>4. \A x \in Real(m) : (amap[x] \oplus c) \oplus {g.q} = amap[x] \oplus b
  BY XorAssoc, XorCancel
<1>5. ASSUME NEW x \in Real(m) PROVE f[amap[x] \oplus c] = sv[x]
  <2>1. amap[x] \oplus c \in Basis
    BY <1>1, XorClosed DEF Basis, GoodMap
  <2>2. f[amap[x] \oplus c] = Decoded[amap[x] \oplus b]
    BY <1>3, <1>4, <2>1
  <2>3. QED
    BY <1>1, <2>2, DecodeHit DEF Decoded
<1>6. ASSUME NEW v \in Basis, \A x \in Real(m) : amap[x] \oplus c # v
      PROVE  f[v] = Zero
  <2>1. \A x \in Real(m) : amap[x] \oplus b # v \oplus {g.q}
    BY <1>4, <1>6, XorInjective
  <2>2. Decode(amap, sv, m, b)[v \oplus {g.q}] = Zero
    <3> DEFINE w == v \oplus {g.q}
    <3>1. w \in Basis
      BY <1>2
    <3> HIDE DEF w
    <3>2. \A x \in Real(m) : amap[x] \oplus b # w
      BY <2>1 DEF w
    <3>3. Decode(amap, sv, m, b)[w] = Zero
      BY <3>1, <3>2, DecodeMiss
    <3>4. QED
      BY <3>3 DEF w
  <2>3. QED
    BY <1>3, <2>2 DEF Decoded
<1>7. f = [v \in Basis |-> f[v]]
  BY GateOnIsFunction
<1> HIDE DEF f, c
<1>8. Decode(amap, sv, m, c) = f
  BY <1>1, <1>5, <1>6, <1>7, DecodeUnique
<1>9. QED
  BY <1>8 DEF f, c

LEMMA CXDecodes ==
  ASSUME IInv, NEW g \in Gate, g.type = "CX", NEW am,
         am = [x \in Real(m) |-> RowXor(amap[x], g.q, g.cq)], GoodMap(am, m)
  PROVE  Decode(am, sv, m, RowXor(b, g.q, g.cq)) = Dense!GateOn(g, Decoded)
<1> DEFINE R(v) == RowXor(v, g.q, g.cq)
           f == Dense!GateOn(g, Decoded)
           c == R(b)
<1>1. g.q \in Qubits /\ g.cq # g.q
  BY GateAssumption
<1>2. GoodMap(amap, m) /\ b \in Basis
  BY CurrentMapGood
<1>3. \A v \in Basis : R(v) \in Basis /\ R(R(v)) = v
  BY <1>1, RowXorClosed, RowXorInvolution DEF Basis
<1>4. \A v \in Basis : f[v] = Decoded[R(v)]
  BY GateOnCX
<1>5. ASSUME NEW x \in Real(m)
      PROVE  /\ am[x] \oplus c = R(amap[x] \oplus b)
             /\ amap[x] \oplus b \in Basis
  BY <1>2, RowXorAdditive, XorClosed DEF GoodMap, Basis
<1>6. ASSUME NEW x \in Real(m) PROVE f[am[x] \oplus c] = sv[x]
  <2>1. f[am[x] \oplus c] = Decoded[amap[x] \oplus b]
    BY <1>3, <1>4, <1>5
  <2>2. QED
    BY <1>2, <2>1, DecodeHit DEF Decoded
<1>7. ASSUME NEW v \in Basis, \A x \in Real(m) : am[x] \oplus c # v
      PROVE  f[v] = Zero
  <2>1. \A x \in Real(m) : amap[x] \oplus b # R(v)
    BY <1>3, <1>5, <1>7
  <2>2. Decode(amap, sv, m, b)[R(v)] = Zero
    BY <1>3, <2>1, DecodeMiss
  <2>3. QED
    BY <1>4, <2>2 DEF Decoded
<1>8. f = [v \in Basis |-> f[v]]
  BY GateOnIsFunction
<1>9. c \in Basis
  BY <1>2, <1>3
<1> HIDE DEF f, c, R
<1>10. Decode(am, sv, m, c) = f
  BY <1>6, <1>7, <1>8, <1>9, DecodeUnique
<1>11. QED
  BY <1>10 DEF f, c, R

\* A gate that turns each stored amplitude by the phase its basis state earns.
LEMMA DiagonalDecodes ==
  ASSUME IInv, NEW g \in Gate, NEW s, NEW H,
         Rot(Theta(g), Zero) = Zero,
         \A v \in Basis : Dense!GateOn(g, Decoded)[v]
                            = IF v \in H THEN Rot(Theta(g), Decoded[v]) ELSE Decoded[v],
         \A x \in Real(m) :
           s[x] = IF amap[x] \oplus b \in H THEN Rot(Theta(g), sv[x]) ELSE sv[x]
  PROVE  Decode(amap, s, m, b) = Dense!GateOn(g, Decoded)
<1> DEFINE f == Dense!GateOn(g, Decoded)
<1>1. GoodMap(amap, m) /\ b \in Basis
  BY CurrentMapGood
<1>2. ASSUME NEW x \in Real(m) PROVE f[amap[x] \oplus b] = s[x]
  <2>1. Decoded[amap[x] \oplus b] = sv[x]
    BY <1>1, DecodeHit DEF Decoded
  <2>2. amap[x] \oplus b \in Basis
    BY <1>1, XorClosed DEF GoodMap, Basis
  <2>3. QED
    BY <2>1, <2>2
<1>3. ASSUME NEW v \in Basis, \A x \in Real(m) : amap[x] \oplus b # v
      PROVE  f[v] = Zero
  <2>1. Decoded[v] = Zero
    BY <1>3, DecodeMiss DEF Decoded
  <2>2. QED
    BY <2>1
<1>4. f = [v \in Basis |-> f[v]]
  BY GateOnIsFunction
<1> HIDE DEF f
<1>5. Decode(amap, s, m, b) = f
  BY <1>1, <1>2, <1>3, <1>4, DecodeUnique
<1>6. QED
  BY <1>5 DEF f

LEMMA PDecodes ==
  ASSUME IInv, NEW g \in Gate, g.type \in {"Z", "Rz", "P"}, NEW s,
         s = [x \in Real(m) |-> IF Selects(g.q, x) THEN Rot(Theta(g), sv[x]) ELSE sv[x]]
  PROVE  Decode(amap, s, m, b) = Dense!GateOn(g, Decoded)
<1> DEFINE H == {v \in Basis : g.q \in v}
<1>1. Rot(Theta(g), Zero) = Zero
  BY AmpAssumption DEF Theta
<1>2. \A v \in Basis : Dense!GateOn(g, Decoded)[v]
                         = IF v \in H THEN Rot(Theta(g), Decoded[v]) ELSE Decoded[v]
  BY GateOnP
<1>3. \A x \in Real(m) :
        s[x] = IF amap[x] \oplus b \in H THEN Rot(Theta(g), sv[x]) ELSE sv[x]
  BY CurrentMapGood, XorClosed DEF Selects, GoodMap, Basis
<1> HIDE DEF H
<1>4. QED
  BY <1>1, <1>2, <1>3, DiagonalDecodes

LEMMA CPDecodes ==
  ASSUME IInv, NEW g \in Gate, g.type = "CP", NEW s,
         s = [x \in Real(m) |-> IF Selects(g.cq, x) /\ Selects(g.q, x)
                                THEN Rot(Theta(g), sv[x]) ELSE sv[x]]
  PROVE  Decode(amap, s, m, b) = Dense!GateOn(g, Decoded)
<1> DEFINE H == {v \in Basis : {g.cq, g.q} \subseteq v}
<1>1. Rot(Theta(g), Zero) = Zero
  BY AmpAssumption DEF Theta
<1>2. \A v \in Basis : Dense!GateOn(g, Decoded)[v]
                         = IF v \in H THEN Rot(Theta(g), Decoded[v]) ELSE Decoded[v]
  BY GateOnCP
<1>3. \A x \in Real(m) :
        s[x] = IF amap[x] \oplus b \in H THEN Rot(Theta(g), sv[x]) ELSE sv[x]
  BY CurrentMapGood, XorClosed DEF Selects, GoodMap, Basis
<1> HIDE DEF H
<1>4. QED
  BY <1>1, <1>2, <1>3, DiagonalDecodes

\* Mixing neighbours at real addresses is mixing neighbours in the basis.
LEMMA MixedDecodes ==
  ASSUME NEW g \in Gate, g.type \in {"H", "U3"}, b \in Basis,
         NEW k, NEW am, GoodMap(am, k), NEW s,
         NEW d \in Real(k), am[d] = {g.q}
  PROVE  Decode(am, Mixed(g, am, s, k, d), k, b) = Dense!GateOn(g, Decode(am, s, k, b))
<1> DEFINE p == Decode(am, s, k, b)
           f == Dense!GateOn(g, p)
           t == Mixed(g, am, s, k, d)
<1>1. \A v \in Basis : f[v] = IF g.q \in v THEN Odd(g, p[v \oplus {g.q}], p[v])
                                           ELSE Even(g, p[v], p[v \oplus {g.q}])
  <2> HIDE DEF p
  <2>1. SUFFICES ASSUME NEW v \in Basis
                 PROVE  f[v] = IF g.q \in v THEN Odd(g, p[v \oplus {g.q}], p[v])
                                            ELSE Even(g, p[v], p[v \oplus {g.q}])
    OBVIOUS
  <2>2. QED
    BY GateOnU3
<1>2. ASSUME NEW x \in Real(k)
      PROVE  /\ x \oplus d \in Real(k)
             /\ am[x \oplus d] \oplus b = (am[x] \oplus b) \oplus {g.q}
  <2>1. x \oplus d \in Real(k) /\ am[x \oplus d] = am[x] \oplus {g.q}
    <3>1. x \oplus d \in Real(k)
      <4>1. k \in Nat
        BY DEF GoodMap
      <4>2. QED
        BY <4>1, RealXor
    <3>2. am[x \oplus d] = am[x] \oplus am[d]
      BY DEF GoodMap
    <3>3. QED
      BY <3>1, <3>2
  <2>2. (am[x] \oplus {g.q}) \oplus b = (am[x] \oplus b) \oplus {g.q}
    BY XorAssoc, XorComm
  <2>3. QED
    BY <2>1, <2>2
<1>3. ASSUME NEW x \in Real(k) PROVE f[am[x] \oplus b] = t[x]
  <2>1. p[am[x] \oplus b] = s[x]
    BY DecodeHit
  <2>2. p[(am[x] \oplus b) \oplus {g.q}] = s[x \oplus d]
    BY <1>2, DecodeHit
  <2>3. am[x] \oplus b \in Basis
    BY XorClosed DEF GoodMap, Basis
  <2>4. t[x] = IF g.q \in am[x] \oplus b THEN Odd(g, s[x \oplus d], s[x])
                                         ELSE Even(g, s[x], s[x \oplus d])
    BY DEF Mixed
  <2> HIDE DEF f, p, t
  <2>5. QED
    BY <1>1, <2>1, <2>2, <2>3, <2>4
<1>4. ASSUME NEW v \in Basis, \A x \in Real(k) : am[x] \oplus b # v
      PROVE  f[v] = Zero
  <2>1. v \oplus {g.q} \in Basis
    BY GateAssumption, XorClosed DEF Basis
  <2>2. ASSUME NEW x \in Real(k) PROVE am[x] \oplus b # v \oplus {g.q}
    <3>1. am[x \oplus d] \oplus b # v /\ am[x \oplus d] \oplus b = (am[x] \oplus b) \oplus {g.q}
      BY <1>2, <1>4
    <3>2. QED
      BY <3>1, XorCancel
  <2>3. p[v] = Zero /\ p[v \oplus {g.q}] = Zero
    BY <1>4, <2>1, <2>2, DecodeMiss
  <2>4. Even(g, Zero, Zero) = Zero /\ Odd(g, Zero, Zero) = Zero
    BY AmpAssumption
  <2> HIDE DEF f, p
  <2>5. QED
    BY <1>1, <2>3, <2>4
<1>5. f = [v \in Basis |-> f[v]]
  BY GateOnIsFunction
<1> HIDE DEF f, t
<1>6. Decode(am, t, k, b) = f
  BY <1>3, <1>4, <1>5, DecodeUnique
<1>7. QED
  BY <1>6 DEF f, t, p

LEMMA ExtendedGood ==
  ASSUME IInv, NEW q \in Qubits, Deltas(q) = {}
  PROVE  GoodMap(Extended(q), m + 1)
<1>1. TypeOK /\ Linear /\ NoAliasing /\ m + 1 \in Nat
  BY DEF IInv, TypeOK
<1>2. QED
  BY <1>1, ExtendedTyped, ExtendedLinear, ExtendedInjective DEF GoodMap

\* Doubling the support leaves the virtual state as it is: the new half holds
\* zeros at basis states that had no address.
LEMMA ExtensionDecodes ==
  ASSUME IInv, NEW q \in Qubits, Deltas(q) = {}
  PROVE  Decode(Extended(q), ZeroExtended, m + 1, b) = Decoded
<1> DEFINE am == Extended(q)
<1>1. GoodMap(am, m + 1) /\ GoodMap(amap, m) /\ b \in Basis /\ m \in Nat
  BY ExtendedGood, CurrentMapGood DEF IInv, TypeOK
<1>2. ASSUME NEW x \in Real(m + 1), m \notin x
      PROVE  x \in Real(m) /\ am[x] = amap[x] /\ ZeroExtended[x] = sv[x]
  BY <1>1, <1>2, RealGrows DEF Extended, ZeroExtended
<1>3. ASSUME NEW x \in Real(m + 1), m \in x
      PROVE  /\ x \ {m} \in Real(m)
             /\ am[x] = amap[x \ {m}] \oplus {q}
             /\ ZeroExtended[x] = Zero
  BY <1>1, <1>3, RealGrows DEF Extended, ZeroExtended
<1>4. \A y \in Real(m) : y \in Real(m + 1) /\ m \notin y
  BY <1>1, RealGrows
<1>5. ASSUME NEW x \in Real(m + 1) PROVE Decoded[am[x] \oplus b] = ZeroExtended[x]
  <2>1. CASE m \notin x
    <3>1. Decode(amap, sv, m, b)[amap[x] \oplus b] = sv[x]
      BY <1>1, <1>2, <2>1, DecodeHit
    <3>2. QED
      BY <1>2, <2>1, <3>1 DEF Decoded
  <2>2. CASE m \in x
    <3>1. am[x] \oplus b \in Basis
      BY <1>1, XorClosed DEF GoodMap, Basis
    <3>2. ASSUME NEW y \in Real(m) PROVE amap[y] \oplus b # am[x] \oplus b
      <4>1. amap[y \oplus (x \ {m})] = amap[y] \oplus amap[x \ {m}]
        BY <1>1, <1>3, <2>2 DEF GoodMap
      <4>2. amap[y] \oplus amap[x \ {m}] # {q}
        BY <1>1, <1>3, <2>2, <4>1, RealXor DEF Deltas
      <4>3. amap[y] # amap[x \ {m}] \oplus {q}
        <5>1. (amap[x \ {m}] \oplus {q}) \oplus amap[x \ {m}] = {q}
          BY XorCancel, XorComm
        <5>2. QED
          BY <4>2, <5>1
      <4>4. QED
        BY <1>3, <2>2, <4>3, XorInjective
    <3>3. Decode(amap, sv, m, b)[am[x] \oplus b] = Zero
      BY <3>1, <3>2, DecodeMiss
    <3>4. QED
      BY <1>3, <2>2, <3>3 DEF Decoded
  <2>3. QED
    BY <2>1, <2>2
<1>6. ASSUME NEW v \in Basis, \A x \in Real(m + 1) : am[x] \oplus b # v
      PROVE  Decoded[v] = Zero
  <2>1. \A y \in Real(m) : amap[y] \oplus b # v
    BY <1>2, <1>4, <1>6
  <2>2. QED
    BY <2>1, DecodeMiss DEF Decoded
<1>7. Decoded = [v \in Basis |-> Decoded[v]]
  BY DEF Decoded, Decode
<1> HIDE DEF am
<1>8. Decode(am, ZeroExtended, m + 1, b) = Decoded
  BY <1>1, <1>5, <1>6, <1>7, DecodeUnique
<1>9. QED
  BY <1>8 DEF am

LEMMA FreshDecodes ==
  Decode([x \in Real(0) |-> {}], [x \in Real(0) |-> One], 0, {}) = Dense!Ket0
<1> DEFINE am == [x \in Real(0) |-> {}]
           s == [x \in Real(0) |-> One]
           f == Dense!Ket0
<1>1. GoodMap(am, 0) /\ {} \in Basis
  BY RealZero, XorEmpty DEF GoodMap, Basis
<1>2. f = [v \in Basis |-> f[v]]
  BY DenseBasis DEF Dense!Ket0
<1>3. \A v \in Basis : f[v] = IF v = {} THEN One ELSE Zero
  BY DenseBasis DEF Dense!Ket0
<1>4. \A x \in Real(0) : am[x] \oplus {} = {} /\ s[x] = One
  BY XorEmpty
<1>5. {} \in Real(0)
  BY RealZero
<1>6. GoodMap(am, 0)
  BY <1>1
<1> HIDE DEF am, s, f
<1>7. \A x \in Real(0) : f[am[x] \oplus {}] = s[x]
  BY <1>1, <1>3, <1>4
<1>8. \A v \in Basis : (\A x \in Real(0) : am[x] \oplus {} # v) => f[v] = Zero
  BY <1>3, <1>4, <1>5
<1>9. 0 \in Nat /\ {} \in Basis
  BY <1>1
<1>10. Decode(am, s, 0, {}) = f
  BY <1>2, <1>6, <1>7, <1>8, <1>9, DecodeUnique
<1>11. QED
  BY <1>10 DEF am, s, f

LEMMA InitRefines == Init => Dense!Init
  BY FreshDecodes DEF Init, Dense!Init, Decoded

\* Every gate, whichever way it is carried out, is the dense gate.
LEMMA GateRefines ==
  ASSUME IInv, NEW g \in Gate,
         \/ ApplyX(g) \/ ApplyCX(g) \/ ApplyP(g) \/ ApplyCP(g)
         \/ ApplyU3Local(g) \/ ApplyU3Expand(g) \/ ApplyBarrier(g)
  PROVE  Decoded' = Dense!GateOn(g, Decoded) /\ phase' = Dense!PhaseAfter(g, phase)
<1>1. CASE ApplyX(g)
  BY <1>1, XDecodes DEF ApplyX, Decoded, Dense!PhaseAfter
<1>2. CASE ApplyCX(g)
  <2>1. GoodMap(amap', m)
    BY <1>2, CXKeepsState DEF StateOK, Linear, NoAliasing, GoodMap, ApplyCX
  <2>2. Decode(amap', sv, m, b') = Dense!GateOn(g, Decoded)
    BY <1>2, <2>1, CXDecodes DEF ApplyCX
  <2>3. QED
    BY <1>2, <2>2 DEF ApplyCX, Decoded, Dense!PhaseAfter
<1>3. CASE ApplyP(g)
  <2>1. Decode(amap, sv', m, b) = Dense!GateOn(g, Decoded)
    BY <1>3, PDecodes DEF ApplyP
  <2>2. QED
    BY <1>3, <2>1, DenseTheta DEF ApplyP, Decoded, Dense!PhaseAfter
<1>4. CASE ApplyCP(g)
  <2>1. Decode(amap, sv', m, b) = Dense!GateOn(g, Decoded)
    BY <1>4, CPDecodes DEF ApplyCP
  <2>2. QED
    BY <1>4, <2>1 DEF ApplyCP, Decoded, Dense!PhaseAfter
<1>5. CASE ApplyU3Local(g)
  <2>1. PICK d \in Real(m) : amap[d] = {g.q} /\ sv' = Mixed(g, amap, sv, m, d)
    BY <1>5 DEF ApplyU3Local, Deltas
  <2>2. Decode(amap, sv', m, b) = Dense!GateOn(g, Decoded)
    BY <1>5, <2>1, CurrentMapGood, MixedDecodes DEF ApplyU3Local, Decoded
  <2>3. QED
    BY <1>5, <2>2 DEF ApplyU3Local, Decoded, Dense!PhaseAfter
<1>6. CASE ApplyU3Expand(g)
  <2>1. g.q \in Qubits /\ Deltas(g.q) = {} /\ m \in Nat /\ g.type \in {"H", "U3"}
    BY <1>6, GateAssumption DEF ApplyU3Expand, IInv, TypeOK
  <2>2. GoodMap(Extended(g.q), m + 1) /\ b \in Basis
    BY <2>1, ExtendedGood, CurrentMapGood
  <2>3. {m} \in Real(m + 1) /\ Extended(g.q)[{m}] = {g.q}
    <3>1. {m} \in Real(m + 1) /\ {m} \ {m} = {}
      BY <2>1, RealGrows
    <3>2. amap[{}] = {}
      BY MapOfEmpty DEF IInv
    <3>3. QED
      BY <3>1, <3>2, XorEmpty DEF Extended
  <2>4. Decode(Extended(g.q), sv', m + 1, b)
          = Dense!GateOn(g, Decode(Extended(g.q), ZeroExtended, m + 1, b))
    <3>1. sv' = Mixed(g, Extended(g.q), ZeroExtended, m + 1, {m})
      BY <1>6 DEF ApplyU3Expand
    <3>2. m + 1 \in Nat
      BY <2>1
    <3> DEFINE am == Extended(g.q)
               s == ZeroExtended
               k == m + 1
               d == {m}
    <3>3. /\ GoodMap(am, k) /\ k \in Nat /\ b \in Basis
          /\ d \in Real(k) /\ am[d] = {g.q}
      BY <2>2, <2>3, <3>2
    <3> HIDE DEF am, s, k, d
    <3>4. Decode(am, Mixed(g, am, s, k, d), k, b) = Dense!GateOn(g, Decode(am, s, k, b))
      BY <2>1, <3>3, MixedDecodes
    <3>5. QED
      BY <3>1, <3>4 DEF am, s, k, d
  <2>5. Decode(Extended(g.q), sv', m + 1, b) = Dense!GateOn(g, Decoded)
    BY <2>1, <2>4, ExtensionDecodes
  <2>6. QED
    BY <1>6, <2>1, <2>5 DEF ApplyU3Expand, Decoded, Dense!PhaseAfter
<1>7. CASE ApplyBarrier(g)
  <2>1. \A v \in Basis : Dense!GateOn(g, Decoded)[v] = Decoded[v]
    BY <1>7, GateOnBarrier DEF ApplyBarrier
  <2>2. Dense!GateOn(g, Decoded) = [v \in Basis |-> Dense!GateOn(g, Decoded)[v]]
    BY GateOnIsFunction
  <2>3. Decoded = [v \in Basis |-> Decoded[v]]
    BY DEF Decoded, Decode
  <2>4. Dense!GateOn(g, Decoded) = Decoded
    BY <2>1, <2>2, <2>3
  <2>5. QED
    BY <1>7, <2>4 DEF ApplyBarrier, Decoded, Dense!PhaseAfter
<1>8. QED
  BY <1>1, <1>2, <1>3, <1>4, <1>5, <1>6, <1>7

LEMMA StepRefines == IInv /\ [Next]_vars => [Dense!Next]_(Dense!vars)
<1> SUFFICES ASSUME IInv, [Next]_vars PROVE [Dense!Next]_(Dense!vars)
  OBVIOUS
<1>1. ASSUME NEW gs \in Calls, AddGates(gs) PROVE Dense!AddGates(gs)
  BY <1>1 DEF AddGates, Dense!AddGates, Decoded
<1>2. CASE ClearGates
  <2>1. Dense!ClearGates
    BY <1>2 DEF ClearGates, Dense!ClearGates, Decoded
  <2>2. QED
    BY <2>1 DEF Dense!Next
<1>3. CASE Execute
  <2>1. Decoded' = Dense!Ket0
    BY <1>3, FreshDecodes DEF Execute, Decoded
  <2>2. Dense!Execute
    BY <1>3, <2>1 DEF Execute, Dense!Execute
  <2>3. QED
    BY <2>2 DEF Dense!Next
<1>4. CASE ApplyGate
  <2>1. program[pc] \in Gate
    BY <1>4 DEF ApplyGate, IInv, TypeOK
  <2>2. /\ Decoded' = Dense!GateOn(program[pc], Decoded)
        /\ phase' = Dense!PhaseAfter(program[pc], phase)
    BY <1>4, <2>1, GateRefines DEF ApplyGate
  <2>3. Dense!ApplyGate
    BY <1>4, <2>2 DEF ApplyGate, Dense!ApplyGate
  <2>4. QED
    BY <2>3 DEF Dense!Next
<1>5. CASE Finish
  <2>1. Dense!Finish
    BY <1>5 DEF Finish, Dense!Finish, Decoded
  <2>2. QED
    BY <2>1 DEF Dense!Next
<1>6. CASE UNCHANGED vars
  BY <1>6 DEF vars, Dense!vars, Decoded
<1>7. QED
  BY <1>1, <1>2, <1>3, <1>4, <1>5, <1>6 DEF Next, Dense!Next

\* The transported, lazily supported simulation of ZXH::impl_t computes the
\* state that the program prepares, for every number of qubits, every program
\* and every interpretation of the amplitudes.
THEOREM Refinement == Spec => RefinesCircuit
<1>1. Init /\ [][Next]_vars /\ []IInv => Dense!Init /\ [][Dense!Next]_(Dense!vars)
  BY InitRefines, StepRefines, PTL
<1>2. QED
  BY <1>1, Inductive, PTL DEF Spec, RefinesCircuit, Dense!Spec

-----------------------------------------------------------------------------
(***************************************************************************)
(* Third part: the matrix the code holds.  Its columns are A of the unit    *)
(* addresses, so by linearity its products are A, and what AlgebraProofs    *)
(* says of the elimination and of the selectors is said of A.               *)
(***************************************************************************)
LEMMA ColumnsTyped ==
  ASSUME TypeOK
  PROVE  m \in Nat /\ Columns \in Matrix(m)
<1>1. m \in Nat /\ amap \in [Real(m) -> Basis]
  BY DEF TypeOK
<1>2. \A c \in 0 .. m - 1 : amap[{c}] \in SUBSET Rows
  BY <1>1, MatrixAssumption DEF Real, Basis, MCQubits, Rows
<1>3. QED
  BY <1>1, <1>2 DEF Columns, Matrix

LEMMA ColumnsMultiply ==
  ASSUME TypeOK, Linear, NEW x \in Real(m)
  PROVE  Mul(Columns, x) = amap[x]
<1>1. m \in Nat /\ Columns \in Matrix(m)
  BY ColumnsTyped
<1>2. Additive(amap, m)
  BY DEF Additive, Linear
<1>3. \A c \in 0 .. m - 1 : amap[{c}] = Columns[c]
  BY DEF Columns
<1>4. QED
  BY <1>1, <1>2, <1>3, MulOfAdditive

\* bitmat_t::solve() on A, for every right-hand side and in every reachable
\* state: it answers false exactly when no address is mapped there, and the
\* address it returns is mapped there, so solve_expand() doubles the support
\* when it must and only then.
THEOREM EliminationCorrect == Spec => []SolveCorrect
<1>1. IInv => SolveCorrect
  <2> SUFFICES ASSUME IInv, NEW rhs \in SUBSET Rows
               PROVE  LET s == Solve(Columns, rhs) IN
                      IF s.ok THEN s.x \in Real(m) /\ amap[s.x] = rhs
                              ELSE \A x \in Real(m) : amap[x] # rhs
    BY DEF SolveCorrect
  <2> DEFINE s == Solve(Columns, rhs)
  <2>1. TypeOK /\ Linear
    BY DEF IInv
  <2>2. m \in Nat /\ Columns \in Matrix(m)
    BY <2>1, ColumnsTyped
  <2>3. /\ s.x \in Real(m)
        /\ IF s.ok THEN Mul(Columns, s.x) = rhs
                   ELSE \A x \in Real(m) : Mul(Columns, x) # rhs
    BY <2>2, SolveIsExact
  <2>4. \A x \in Real(m) : Mul(Columns, x) = amap[x]
    BY <2>1, ColumnsMultiply
  <2> HIDE DEF s
  <2>5. IF s.ok THEN s.x \in Real(m) /\ amap[s.x] = rhs
                ELSE \A x \in Real(m) : amap[x] # rhs
    BY <2>3, <2>4
  <2>6. QED
    BY <2>5 DEF s
<1>2. QED
  BY <1>1, Inductive, PTL

\* The selector of a qubit, row q of the matrix and bit q of b (make_selector),
\* evaluated by popcount, is bit q of the virtual address of every real one.
THEOREM SelectorCorrect == Spec => []SelectorReadsRow
<1>1. IInv => SelectorReadsRow
  <2> SUFFICES ASSUME IInv, pc \in 1 .. Len(program), NEW x \in Real(m)
               PROVE  LET q == program[pc].q
                          sel == [alpha |-> GetRow(Columns, q), beta |-> q \in b] IN
                      Eval(sel, x) <=> Selects(q, x)
    BY DEF SelectorReadsRow
  <2> DEFINE q == program[pc].q
             row == GetRow(Columns, q)
  <2>1. TypeOK /\ Linear
    BY DEF IInv
  <2>2. m \in Nat /\ Columns \in Matrix(m)
    BY <2>1, ColumnsTyped
  <2>3. q \in Rows
    <3>1. program[pc] \in Gate
      BY <2>1 DEF TypeOK
    <3>2. QED
      BY <3>1, GateAssumption, MatrixAssumption DEF MCQubits, Rows
  <2>4. q \in amap[x] <=> Parity(row \cap x)
    <3>1. Mul(Columns, x) = amap[x]
      BY <2>1, ColumnsMultiply
    <3>2. \A r \in Rows : r \in Mul(Columns, x) <=> Parity(GetRow(Columns, r) \cap x)
      BY <2>2, MulIsParity
    <3>3. QED
      BY <2>3, <3>1, <3>2
  <2>5. Selects(q, x) <=> ~(q \in amap[x] <=> q \in b)
    BY DEF Selects, \oplus
  <2>6. Eval([alpha |-> row, beta |-> q \in b], x)
          <=> (Parity(row \cap x) # (q \in b))
    <3> HIDE DEF row
    <3>1. QED
      BY DEF Eval
  <2>7. Parity(row \cap x) \in BOOLEAN /\ (q \in b) \in BOOLEAN
    BY DEF Parity
  <2> HIDE DEF row, q
  <2>8. Eval([alpha |-> row, beta |-> q \in b], x) <=> Selects(q, x)
    BY <2>4, <2>5, <2>6, <2>7
  <2>9. QED
    BY <2>8 DEF row, q
<1>2. QED
  BY <1>1, Inductive, PTL

LEMMA ExtendedColumns ==
  ASSUME TypeOK, Linear, NEW q, NEW c \in 0 .. m
  PROVE  Extended(q)[{c}] = IF c = m THEN {q} ELSE amap[{c}]
<1>1. m \in Nat
  BY DEF TypeOK
<1>2. {c} \in Real(m + 1)
  BY <1>1 DEF Real
<1>3. Extended(q)[{c}] = IF m \in {c} THEN amap[{c} \ {m}] \oplus {q} ELSE amap[{c}]
  BY <1>2 DEF Extended
<1>4. CASE c = m
  <2>1. {c} \ {m} = {}
    BY <1>4
  <2>2. Extended(q)[{c}] = amap[{}] \oplus {q}
    BY <1>3, <1>4, <2>1
  <2>3. amap[{}] \oplus {q} = {q}
    BY MapOfEmpty, XorEmpty
  <2>4. QED
    BY <1>4, <2>2, <2>3
<1>5. CASE c # m
  BY <1>3, <1>5
<1>6. QED
  BY <1>4, <1>5

LEMMA UpdatedIsMatrix ==
  ASSUME IInv, NEW g \in Gate,
         ApplyX(g) \/ ApplyCX(g) \/ ApplyP(g) \/ ApplyCP(g)
           \/ ApplyU3Local(g) \/ ApplyU3Expand(g) \/ ApplyBarrier(g)
  PROVE  /\ m' \in Nat
         /\ Updated(g) \in [0 .. m' - 1 -> SUBSET Rows]
         /\ \A c \in 0 .. m' - 1 : amap'[{c}] = Updated(g)[c]
<1>1. TypeOK /\ Linear
  BY DEF IInv
<1>2. m \in Nat /\ Columns \in [0 .. m - 1 -> SUBSET Rows]
  BY <1>1, ColumnsTyped DEF Matrix
<1>3. \A c \in 0 .. m - 1 : Columns[c] = amap[{c}] /\ {c} \in Real(m)
  BY DEF Columns, Real
<1>4. g.q \in Rows
  BY GateAssumption, MatrixAssumption DEF MCQubits, Rows
<1>5. CASE ApplyCX(g)
  <2>1. g.type = "CX" /\ m' = m /\ amap' = [x \in Real(m) |-> RowXor(amap[x], g.q, g.cq)]
    BY <1>5 DEF ApplyCX
  <2>2. Updated(g) = [c \in 0 .. m - 1 |-> RowXor(Columns[c], g.q, g.cq)]
    BY <1>2, <2>1 DEF Updated, RowXorMat
  <2>3. \A c \in 0 .. m - 1 : RowXor(Columns[c], g.q, g.cq) \in SUBSET Rows
    BY <1>2, <1>4, RowXorClosed
  <2>4. QED
    BY <1>2, <1>3, <2>1, <2>2, <2>3
<1>6. CASE ApplyU3Expand(g)
  <2>1. g.type \in {"H", "U3"} /\ m' = m + 1 /\ amap' = Extended(g.q)
    BY <1>6 DEF ApplyU3Expand
  <2>2. Cols(Columns) = m
    <3>1. DOMAIN Columns = 0 .. m - 1
      BY <1>2
    <3>2. Cardinality(0 .. m - 1) = m
      <4>1. m - 1 >= 0 => Cardinality(0 .. m - 1) = m - 1 - 0 + 1
        BY <1>2, FS_Interval
      <4>2. m - 1 < 0 => 0 .. m - 1 = {} /\ m = 0
        BY <1>2
      <4>3. QED
        BY <1>2, <4>1, <4>2, FS_EmptySet
    <3>3. QED
      BY <3>1, <3>2 DEF Cols
  <2>3. Updated(g) = [c \in 0 .. m |-> IF c = m THEN {g.q} ELSE Columns[c]]
    BY <1>2, <2>1, <2>2 DEF Updated, AppendCol
  <2>4. \A c \in 0 .. m : amap'[{c}] = IF c = m THEN {g.q} ELSE amap[{c}]
    BY <1>1, <2>1, ExtendedColumns
  <2>5. ASSUME NEW c \in 0 .. m PROVE amap'[{c}] = Updated(g)[c]
    <3>1. c # m => c \in 0 .. m - 1
      BY <1>2
    <3>2. QED
      BY <1>3, <2>3, <2>4, <3>1
  <2>6. Updated(g) \in [0 .. m -> SUBSET Rows]
    BY <1>2, <1>4, <2>3
  <2>7. m' \in Nat /\ 0 .. m' - 1 = 0 .. m
    BY <1>2, <2>1
  <2>8. QED
    BY <2>5, <2>6, <2>7
<1>7. CASE ApplyX(g) \/ ApplyP(g) \/ ApplyCP(g) \/ ApplyU3Local(g) \/ ApplyBarrier(g)
  <2>1. m' = m /\ amap' = amap /\ g.type # "CX"
    BY <1>7 DEF ApplyX, ApplyP, ApplyCP, ApplyU3Local, ApplyBarrier
  <2>2. Updated(g) = Columns
    BY <1>2, <2>1 DEF Updated
  <2>3. QED
    BY <1>2, <1>3, <2>1, <2>2
<1>8. QED
  BY <1>5, <1>6, <1>7

\* bitmat_t::row_xor() and append_col() do to the columns what the gate does to
\* every product A x: the matrix held after a gate is the map the amplitudes
\* are transported along.
THEOREM UpdatesFollow == Spec => MatrixFollows
<1>1. IInv /\ [Next]_vars =>
        [pc' = pc + 1 /\ pc > 0 =>
           \A x \in Real(m') : Mul(Updated(program[pc]), x) = amap'[x]]_vars
  <2> SUFFICES ASSUME IInv, [Next]_vars, pc' = pc + 1, pc > 0, NEW x \in Real(m')
               PROVE  Mul(Updated(program[pc]), x) = amap'[x]
    OBVIOUS
  <2>1. pc \in Nat
    BY DEF IInv, TypeOK
  <2>2. ApplyGate
    BY <2>1 DEF Next, AddGates, ClearGates, Execute, Finish, vars
  <2> DEFINE g == program[pc]
             mat == Updated(g)
  <2>3. g \in Gate
    BY <2>2 DEF ApplyGate, IInv, TypeOK
  <2>4. /\ m' \in Nat
        /\ mat \in [0 .. m' - 1 -> SUBSET Rows]
        /\ \A c \in 0 .. m' - 1 : amap'[{c}] = mat[c]
    <3>1. \/ ApplyX(g) \/ ApplyCX(g) \/ ApplyP(g) \/ ApplyCP(g)
          \/ ApplyU3Local(g) \/ ApplyU3Expand(g) \/ ApplyBarrier(g)
      BY <2>2 DEF ApplyGate
    <3> HIDE DEF g
    <3>2. QED
      BY <2>3, <3>1, UpdatedIsMatrix
  <2>5. Additive(amap', m')
    <3>1. Linear'
      BY StepInv DEF IInv
    <3>2. QED
      BY <3>1 DEF Linear, Additive
  <2> HIDE DEF mat
  <2>6. mat \in Matrix(m')
    BY <2>4 DEF Matrix
  <2>7. Mul(mat, x) = amap'[x]
    BY <2>4, <2>5, <2>6, MulOfAdditive
  <2>8. QED
    BY <2>7 DEF mat
<1>2. QED
  BY <1>1, Inductive, PTL DEF Spec, MatrixFollows

-----------------------------------------------------------------------------
(***************************************************************************)
(* Fourth part: the analyzer of the front end.  It keeps the columns as a   *)
(* set; their sums are the images of A, as A is additive and injective.     *)
(***************************************************************************)
Units(f, k) == {f[{c}] : c \in 0 .. k - 1}

\* The address whose bits have their columns in S.
BitsOf(f, k, S) == {c \in 0 .. k - 1 : f[{c}] \in S}

LEMMA SumOfColumns ==
  ASSUME NEW k \in Nat, NEW f \in [Real(k) -> SUBSET Rows], Additive(f, k),
         \A x, y \in Real(k) : f[x] = f[y] => x = y, NEW S \in SUBSET Units(f, k)
  PROVE  SumOf(S) = f[BitsOf(f, k, S)]
<1> DEFINE V == SUBSET Rows
           first == [T \in SUBSET S |-> CHOOSE v \in T : TRUE]
           Plus == [p \in S \X V |-> p[1] \oplus p[2]]
           Eq(g) == g = [T \in SUBSET S |->
                           IF T = {} THEN {}
                           ELSE (CHOOSE v \in T : TRUE)
                                  \oplus g[T \ {CHOOSE v \in T : TRUE}]]
           iter == CHOOSE g : Eq(g)
<1>0. \A c \in 0 .. k - 1 : {c} \in Real(k)
  BY DEF Real
<1>1. S \in SUBSET V
  <2>1. \A c \in 0 .. k - 1 : f[{c}] \in SUBSET Rows
    BY <1>0
  <2>2. Units(f, k) \subseteq SUBSET Rows
    BY <2>1 DEF Units
  <2>3. QED
    BY <2>2
<1>2. IsFiniteSet(S)
  <2>1. IsFiniteSet(Rows)
    BY RowsAssumption, FS_Interval DEF Rows
  <2>2. IsFiniteSet(V)
    BY <2>1, FS_SUBSET
  <2> HIDE DEF V
  <2>3. QED
    BY <1>1, <2>2, FS_Subset
<1>3. ChoosesIn(first, S)
  BY DEF ChoosesIn
<1>4. Plus \in [S \X V -> V]
  <2>1. \A p \in S \X V : p[1] \in SUBSET Rows /\ p[2] \in SUBSET Rows
    BY <1>1
  <2>2. \A p \in S \X V : p[1] \oplus p[2] \in SUBSET Rows
    BY <2>1, XorClosed
  <2>3. QED
    BY <2>2
<1>5. \E g : Eq(g)
  <2>1. PICK g \in [SUBSET S -> V] : Iterates(g, S, {}, first, Plus)
    <3> HIDE DEF first, Plus
    <3>1. {} \in V
      OBVIOUS
    <3> HIDE DEF V
    <3>2. QED
      BY <1>2, <1>3, <1>4, <3>1, IteratesExists
  <2>2. ASSUME NEW T \in SUBSET S, T # {}
        PROVE  Plus[<<first[T], g[T \ {first[T]}]>>]
                 = (CHOOSE v \in T : TRUE) \oplus g[T \ {CHOOSE v \in T : TRUE}]
    <3>1. PICK c \in S : c = CHOOSE v \in T : TRUE
      BY <2>2
    <3>2. first[T] = c
      BY <3>1
    <3> HIDE DEF first
    <3>3. T \ {c} \in SUBSET S
      OBVIOUS
    <3>4. g[T \ {c}] \in V
      BY <2>1, <3>3
    <3>5. ASSUME NEW w \in V PROVE Plus[<<c, w>>] = c \oplus w
      OBVIOUS
    <3> HIDE DEF Plus, V
    <3>6. Plus[<<c, g[T \ {c}]>>] = c \oplus g[T \ {c}]
      BY <3>4, <3>5
    <3>7. QED
      BY <3>1, <3>2, <3>6
  <2> HIDE DEF first, Plus, V
  <2>3. Eq(g)
    BY <2>1, <2>2 DEF Iterates
  <2> HIDE DEF Eq
  <2>4. QED
    BY <2>3
<1>6. Eq(iter)
  <2> HIDE DEF Eq
  <2>1. QED
    BY <1>5
<1>7. SumOf(S) = iter[S]
  BY DEF SumOf, FoldSet, MapThenFoldSet
<1> HIDE DEF iter
<1> DEFINE F == {T \in SUBSET S : iter[T] = f[BitsOf(f, k, T)]}
<1>8. {} \in F
  <2>1. {} \in Real(k) /\ BitsOf(f, k, {}) = {}
    BY DEF Real, BitsOf
  <2>2. f[{} \oplus {}] = f[{}] \oplus f[{}]
    BY <2>1 DEF Additive
  <2>3. f[{}] = {}
    BY <2>2, XorEmpty
  <2>4. iter[{}] = {}
    BY <1>6
  <2>5. QED
    BY <2>1, <2>3, <2>4
<1>9. ASSUME NEW T \in SUBSET S, T # {}, \A v \in T : T \ {v} \in F PROVE T \in F
  <2>1. PICK v \in T : v = CHOOSE e \in T : TRUE
    BY <1>9
  <2>2. iter[T] = v \oplus iter[T \ {v}]
    BY <1>6, <1>9, <2>1
  <2>3. iter[T \ {v}] = f[BitsOf(f, k, T \ {v})]
    BY <1>9
  <2>4. PICK c \in 0 .. k - 1 : v = f[{c}]
    BY DEF Units
  <2>5. \A d \in 0 .. k - 1 : f[{d}] = v => d = c
    <3>1. \A d \in 0 .. k - 1 : f[{d}] = v => {d} = {c}
      BY <1>0, <2>4
    <3>2. QED
      BY <3>1
  <2>6. BitsOf(f, k, T) = {c} \oplus BitsOf(f, k, T \ {v})
    BY <2>4, <2>5 DEF BitsOf, \oplus
  <2>7. BitsOf(f, k, T \ {v}) \in Real(k) /\ {c} \in Real(k)
    BY DEF BitsOf, Real
  <2>8. f[{c} \oplus BitsOf(f, k, T \ {v})] = f[{c}] \oplus f[BitsOf(f, k, T \ {v})]
    BY <2>7 DEF Additive
  <2>9. QED
    BY <2>2, <2>3, <2>4, <2>6, <2>8
<1> HIDE DEF F
<1>10. S \in F
  BY <1>2, <1>8, <1>9, FiniteInduction
<1>11. QED
  BY <1>7, <1>10 DEF F

LEMMA SpanIsImage ==
  ASSUME NEW k \in Nat, NEW f \in [Real(k) -> SUBSET Rows], Additive(f, k),
         \A x, y \in Real(k) : f[x] = f[y] => x = y
  PROVE  Span(Units(f, k)) = {f[x] : x \in Real(k)}
<1>1. \A S \in SUBSET Units(f, k) : SumOf(S) = f[BitsOf(f, k, S)]
  BY SumOfColumns
<1>2. \A S \in SUBSET Units(f, k) : BitsOf(f, k, S) \in Real(k)
  BY DEF BitsOf, Real
<1>3. ASSUME NEW x \in Real(k) PROVE \E S \in SUBSET Units(f, k) : SumOf(S) = f[x]
  <2> DEFINE S == {f[{c}] : c \in x}
  <2>1. x \in SUBSET (0 .. k - 1)
    BY DEF Real
  <2>2. S \in SUBSET Units(f, k)
    BY <2>1 DEF Units
  <2>3. BitsOf(f, k, S) = x
    <3>1. \A c \in 0 .. k - 1 : {c} \in Real(k)
      BY DEF Real
    <3>2. ASSUME NEW c \in 0 .. k - 1, f[{c}] \in S PROVE c \in x
      <4>1. PICK d \in x : f[{d}] = f[{c}]
        BY <3>2
      <4>2. {d} = {c}
        BY <2>1, <3>1, <4>1
      <4>3. QED
        BY <4>2
    <3>3. QED
      BY <2>1, <3>2 DEF BitsOf
  <2> HIDE DEF S
  <2>4. SumOf(S) = f[BitsOf(f, k, S)]
    BY <1>1, <2>2
  <2>5. QED
    BY <2>2, <2>3, <2>4
<1>4. QED
  BY <1>1, <1>2, <1>3 DEF Span

LEMMA UnitsCount ==
  ASSUME NEW k \in Nat, NEW f \in [Real(k) -> SUBSET Rows],
         \A x, y \in Real(k) : f[x] = f[y] => x = y
  PROVE  Cardinality(Units(f, k)) = k
<1> DEFINE g == [c \in 0 .. k - 1 |-> f[{c}]]
<1>1. \A c \in 0 .. k - 1 : {c} \in Real(k)
  BY DEF Real
<1>2. g \in Surjection(0 .. k - 1, Units(f, k))
  BY DEF Surjection, Units
<1>3. g \in Injection(0 .. k - 1, Units(f, k))
  <2>1. ASSUME NEW c \in 0 .. k - 1, NEW d \in 0 .. k - 1, g[c] = g[d] PROVE c = d
    <3>1. {c} = {d}
      BY <1>1, <2>1
    <3>2. QED
      BY <3>1
  <2>2. g \in [0 .. k - 1 -> Units(f, k)]
    BY DEF Units
  <2> HIDE DEF g
  <2>3. QED
    BY <2>1, <2>2 DEF Injection, IsInjective
<1>4. IsFiniteSet(0 .. k - 1) /\ Cardinality(0 .. k - 1) = k
  BY FS_Interval
<1> HIDE DEF g
<1>5. QED
  BY <1>2, <1>3, <1>4, FS_Surjection

-----------------------------------------------------------------------------
(***************************************************************************)
(* The states of the analyzer.                                             *)
(***************************************************************************)
MapState == [cols : SUBSET SUBSET Rows, offset : SUBSET Rows]
AnalyzerState == [map : MapState, events : Seq(Nat), volume : Int, refused : BOOLEAN]

LEMMA WidthTyped ==
  ASSUME NEW map \in MapState
  PROVE  Width(map) \in Nat /\ 2 ^ Width(map) \in Nat
<1>1. IsFiniteSet(Rows)
  BY RowsAssumption, FS_Interval DEF Rows
<1>2. IsFiniteSet(SUBSET Rows)
  BY <1>1, FS_SUBSET
<1>3. map.cols \in SUBSET SUBSET Rows
  BY DEF MapState
<1>4. IsFiniteSet(map.cols)
  BY <1>2, <1>3, FS_Subset
<1>5. Cardinality(map.cols) \in Nat
  BY <1>4, FS_CardinalityType
<1>6. IsFiniteSet(SUBSET map.cols) /\ Cardinality(SUBSET map.cols) = 2 ^ Cardinality(map.cols)
  BY <1>4, FS_SUBSET
<1>7. 2 ^ Cardinality(map.cols) \in Nat
  BY <1>6, FS_CardinalityType
<1>8. QED
  BY <1>5, <1>7 DEF Width

LEMMA RecordedTyped ==
  ASSUME NEW st \in AnalyzerState, NEW class, NEW map \in MapState
  PROVE  Recorded(st, class, map) \in AnalyzerState
<1>1. Width(map) \in Nat /\ 2 ^ Width(map) \in Nat
  BY WidthTyped
<1>2. st.events \in Seq(Nat) /\ st.volume \in Int
  BY DEF AnalyzerState
<1>3. Append(st.events, Width(map)) \in Seq(Nat)
  BY <1>1, <1>2
<1>4. QED
  BY <1>1, <1>2, <1>3 DEF Recorded, AnalyzerState

\* What a gate makes of the map.
MapAfter(map, g) ==
  CASE g.type = "X" -> MapX(map, g.q)
    [] g.type = "CX" -> MapCX(map, g.cq, g.q)
    [] g.type \in {"H", "U3"} -> ExpandForQubit(map, g.q)
    [] OTHER -> map

LEMMA MapAfterFields ==
  ASSUME NEW map \in MapState, NEW g \in Gate
  PROVE  /\ MapAfter(map, g) \in MapState
         /\ g.type = "X" =>
              MapAfter(map, g) = [cols |-> map.cols, offset |-> map.offset \oplus {g.q}]
         /\ g.type = "CX" =>
              MapAfter(map, g) = [cols |-> {RowXor(v, g.q, g.cq) : v \in map.cols},
                                  offset |-> RowXor(map.offset, g.q, g.cq)]
         /\ g.type \in {"H", "U3"} =>
              MapAfter(map, g) =
                IF {g.q} \notin Span(map.cols)
                THEN [cols |-> map.cols \cup {{g.q}}, offset |-> map.offset] ELSE map
         /\ g.type \notin {"X", "CX", "H", "U3"} => MapAfter(map, g) = map
<1>1. g.q \in Rows
  BY GateAssumption, MatrixAssumption DEF MCQubits, Rows
<1>2. map.cols \in SUBSET SUBSET Rows /\ map.offset \in SUBSET Rows
  BY DEF MapState
<1>3. CASE g.type = "X"
  <2>1. MapAfter(map, g) = [cols |-> map.cols, offset |-> map.offset \oplus {g.q}]
    BY <1>3 DEF MapAfter, MapX, MapState
  <2>2. map.offset \oplus {g.q} \in SUBSET Rows
    BY <1>1, <1>2, XorClosed
  <2>3. MapAfter(map, g) \in MapState
    BY <1>2, <2>1, <2>2 DEF MapState
  <2>4. QED
    BY <1>3, <2>1, <2>3
<1>4. CASE g.type = "CX"
  <2>1. MapAfter(map, g) = [cols |-> {RowXor(v, g.q, g.cq) : v \in map.cols},
                            offset |-> RowXor(map.offset, g.q, g.cq)]
    BY <1>4 DEF MapAfter, MapCX
  <2>2. RowXor(map.offset, g.q, g.cq) \in SUBSET Rows
    BY <1>1, <1>2, RowXorClosed
  <2>3. \A v \in map.cols : RowXor(v, g.q, g.cq) \in SUBSET Rows
    BY <1>1, <1>2, RowXorClosed
  <2>4. QED
    BY <1>4, <2>1, <2>2, <2>3 DEF MapState
<1>5. CASE g.type \in {"H", "U3"}
  <2>1. MapAfter(map, g) =
          IF {g.q} \notin Span(map.cols)
          THEN [cols |-> map.cols \cup {{g.q}}, offset |-> map.offset] ELSE map
    BY <1>5 DEF MapAfter, ExpandForQubit, RequiresExpansion
  <2>2. map.cols \cup {{g.q}} \in SUBSET SUBSET Rows
    BY <1>1, <1>2
  <2>3. QED
    BY <1>2, <1>5, <2>1, <2>2 DEF MapState
<1>6. CASE g.type \notin {"X", "CX", "H", "U3"}
  BY <1>6 DEF MapAfter
<1>7. QED
  BY <1>3, <1>4, <1>5, <1>6

\* What the analyzer would record of a gate of the core.
GateStep(st, g) ==
  IF g.type = "Barrier" THEN st
  ELSE Recorded(st, IF g.type \in {"X", "CX"} THEN "X" ELSE "Z", MapAfter(st.map, g))

LEMMA GateStepTyped ==
  ASSUME NEW st \in AnalyzerState, NEW g \in Gate
  PROVE  GateStep(st, g) \in AnalyzerState
<1>1. st.map \in MapState
  BY DEF AnalyzerState
<1>2. MapAfter(st.map, g) \in MapState
  BY <1>1, MapAfterFields
<1>3. \A class : Recorded(st, class, MapAfter(st.map, g)) \in AnalyzerState
  BY <1>2, RecordedTyped
<1>4. QED
  BY <1>3 DEF GateStep

LEMMA NewStateTyped == NewState \in AnalyzerState
BY DEF NewState, EmptyMap, AnalyzerState, MapState

\* The instructions that neither reset nor concern the analyzer alone: the core
\* gets one gate, and the analyzer records that gate.
OneGate == Names \ {"reset", "barrier", "measure", "id", "p", "crz"}

LEMMA OneGateLowered ==
  ASSUME NEW i \in Instruction, i.name \in OneGate
  PROVE  \E g \in Gate :
           /\ Lowered(i) = <<g>>
           /\ g.type # "Barrier"
           /\ \A st : ~st.refused =>
                \E class : /\ class = "X" <=> g.type \in {"X", "CX"}
                           /\ AnalyzeInstruction(st, i) =
                                Recorded(st, class, MapAfter(st.map, g))
<1>1. i.name # "reset"
  BY DEF OneGate
<1>2. Lowered(i) \in Seq(Gate)
  BY <1>1, InstructionAssumption, CallsAssumption
<1>3. ASSUME NEW g, Lowered(i) = <<g>> PROVE g \in Gate
  BY <1>2, <1>3
<1>4. CASE i.name = "x"
  <2> DEFINE g == Pushed("X", 0, i.q, 0, 0, 0)
  <2>1. Lowered(i) = <<g>>
    BY <1>4 DEF Lowered
  <2>2. g.type = "X" /\ g.q = i.q
    BY DEF Pushed
  <2>3. \A st : ~st.refused =>
          AnalyzeInstruction(st, i) = Recorded(st, "X", MapX(st.map, i.q))
    BY <1>4 DEF AnalyzeInstruction
  <2> HIDE DEF g
  <2>4. \A st : MapAfter(st.map, g) = MapX(st.map, i.q)
    BY <2>2 DEF MapAfter
  <2>5. QED
    BY <1>3, <2>1, <2>2, <2>3, <2>4
<1>5. CASE i.name = "cx"
  <2> DEFINE g == Pushed("CX", i.cq, i.q, 0, 0, 0)
  <2>1. Lowered(i) = <<g>>
    BY <1>5 DEF Lowered
  <2>2. g.type = "CX" /\ g.q = i.q /\ g.cq = i.cq
    BY DEF Pushed
  <2>3. \A st : ~st.refused =>
          AnalyzeInstruction(st, i) = Recorded(st, "X", MapCX(st.map, i.cq, i.q))
    BY <1>5 DEF AnalyzeInstruction
  <2> HIDE DEF g
  <2>4. \A st : MapAfter(st.map, g) = MapCX(st.map, i.cq, i.q)
    BY <2>2 DEF MapAfter
  <2>5. QED
    BY <1>3, <2>1, <2>2, <2>3, <2>4
<1>6. CASE i.name \in {"h", "u", "u3", "rx"}
  <2>1. PICK g : Lowered(i) = <<g>> /\ g.type \in {"H", "U3"} /\ g.q = i.q
    <3>1. CASE i.name = "h"
      <4>1. Lowered(i) = << Pushed("H", 0, i.q, 0, 0, 0) >>
        BY <3>1 DEF Lowered
      <4>2. QED
        BY <4>1 DEF Pushed
    <3>2. CASE i.name \in {"u", "u3"}
      <4>1. Lowered(i) = << Pushed("U3", 0, i.q, i.theta, i.lambda, i.phi) >>
        BY <3>2 DEF Lowered
      <4>2. QED
        BY <4>1 DEF Pushed
    <3>3. CASE i.name = "rx"
      <4>1. Lowered(i) = << Pushed("U3", 0, i.q, i.theta, Pi \div 2, -(Pi \div 2)) >>
        BY <3>3 DEF Lowered, Rx
      <4>2. QED
        BY <4>1 DEF Pushed
    <3>4. QED
      BY <1>6, <3>1, <3>2, <3>3
  <2>2. \A st : ~st.refused =>
          AnalyzeInstruction(st, i) = Recorded(st, "H", ExpandForQubit(st.map, i.q))
    BY <1>6 DEF AnalyzeInstruction
  <2>3. \A st : MapAfter(st.map, g) = ExpandForQubit(st.map, i.q)
    BY <2>1 DEF MapAfter
  <2>4. "H" # "X" /\ g.type \notin {"X", "CX", "Barrier"}
    BY <2>1
  <2>5. QED
    BY <1>3, <2>1, <2>2, <2>3, <2>4
<1>7. CASE i.name \in {"z", "rz", "cp"}
  <2>1. PICK g : Lowered(i) = <<g>> /\ g.type \in {"Z", "Rz", "CP"}
    <3>1. CASE i.name = "z"
      <4>1. Lowered(i) = << Pushed("Z", 0, i.q, 0, 0, 0) >>
        BY <3>1 DEF Lowered
      <4>2. QED
        BY <4>1 DEF Pushed
    <3>2. CASE i.name = "rz"
      <4>1. Lowered(i) = << Pushed("Rz", 0, i.q, i.theta, 0, 0) >>
        BY <3>2 DEF Lowered
      <4>2. QED
        BY <4>1 DEF Pushed
    <3>3. CASE i.name = "cp"
      <4>1. Lowered(i) = << Pushed("CP", i.cq, i.q, i.theta, 0, 0) >>
        BY <3>3 DEF Lowered
      <4>2. QED
        BY <4>1 DEF Pushed
    <3>4. QED
      BY <1>7, <3>1, <3>2, <3>3
  <2>2. \A st : ~st.refused => AnalyzeInstruction(st, i) = Recorded(st, "Z", st.map)
    BY <1>7 DEF AnalyzeInstruction
  <2>3. \A st : MapAfter(st.map, g) = st.map
    BY <2>1 DEF MapAfter
  <2>4. "Z" # "X" /\ g.type \notin {"X", "CX", "Barrier"}
    BY <2>1
  <2>5. QED
    BY <1>3, <2>1, <2>2, <2>3, <2>4
<1>8. QED
  BY <1>4, <1>5, <1>6, <1>7 DEF OneGate, Names

LEMMA InstructionTyped ==
  ASSUME NEW st \in AnalyzerState, NEW i \in Instruction
  PROVE  AnalyzeInstruction(st, i) \in AnalyzerState
<1>1. i.name \in Names
  BY InstructionAssumption
<1>2. st.map \in MapState
  BY DEF AnalyzerState
<1>3. CASE st.refused \/ i.name \in {"barrier", "measure", "id"}
  BY <1>3 DEF AnalyzeInstruction
<1>4. CASE ~st.refused /\ i.name = "reset"
  <2>1. AnalyzeInstruction(st, i) = NewState
    BY <1>4 DEF AnalyzeInstruction
  <2>2. QED
    BY <2>1, NewStateTyped
<1>5. CASE ~st.refused /\ i.name = "p"
  <2>1. AnalyzeInstruction(st, i) = [st EXCEPT !.refused = TRUE]
    BY <1>5 DEF AnalyzeInstruction
  <2>2. QED
    BY <2>1 DEF AnalyzerState
<1>6. CASE ~st.refused /\ i.name = "crz"
  <2>1. AnalyzeInstruction(st, i) = Recorded(st, "Z", st.map)
    BY <1>6 DEF AnalyzeInstruction
  <2>2. QED
    BY <1>2, <2>1, RecordedTyped
<1>7. CASE ~st.refused /\ i.name \in OneGate
  <2>1. PICK g \in Gate : \E class :
          AnalyzeInstruction(st, i) = Recorded(st, class, MapAfter(st.map, g))
    BY <1>7, OneGateLowered
  <2>2. MapAfter(st.map, g) \in MapState
    BY <1>2, MapAfterFields
  <2>3. QED
    BY <2>1, <2>2, RecordedTyped
<1>8. QED
  BY <1>1, <1>3, <1>4, <1>5, <1>6, <1>7 DEF OneGate

\* One step of the analysis, as the function that the fold over p applies.
Analysis(p) == [x \in (1 .. Len(p)) \X AnalyzerState |-> AnalyzeInstruction(x[2], p[x[1]])]

LEMMA AnalyzeIsFold ==
  ASSUME NEW p \in Seq(Instruction)
  PROVE  \E it : /\ FoldsFirst(it, Len(p), AnalyzerState, NewState, Analysis(p))
                 /\ Analyze(p) = it[1 .. Len(p)]
<1> DEFINE n == Len(p)
           V == AnalyzerState
           Eq(g) == g = [T \in SUBSET (1 .. n) |->
                           IF T = {} THEN NewState
                           ELSE AnalyzeInstruction(g[T \ {Max(T)}], p[Max(T)])]
           iter == CHOOSE g : Eq(g)
<1>1. n \in Nat /\ \A j \in 1 .. n : p[j] \in Instruction
  OBVIOUS
<1>2. NewState \in V
  BY NewStateTyped
<1>3. Analysis(p) \in [(1 .. n) \X V -> V]
  <2>1. \A x \in (1 .. n) \X V : AnalyzeInstruction(x[2], p[x[1]]) \in V
    BY <1>1, InstructionTyped
  <2>2. QED
    BY <2>1 DEF Analysis
<1>4. ASSUME NEW g, FoldsFirst(g, n, V, NewState, Analysis(p))
      PROVE  Eq(g)
  <2>1. /\ g \in [SUBSET (1 .. n) -> V]
        /\ g = [T \in SUBSET (1 .. n) |->
                  IF T = {} THEN NewState ELSE Analysis(p)[<<Max(T), g[T \ {Max(T)}]>>]]
    BY <1>4 DEF FoldsFirst
  <2>2. ASSUME NEW T \in SUBSET (1 .. n), T # {}
        PROVE  Analysis(p)[<<Max(T), g[T \ {Max(T)}]>>]
                 = AnalyzeInstruction(g[T \ {Max(T)}], p[Max(T)])
    <3>1. Max(T) \in 1 .. n
      BY <1>1, <2>2, LargestIndex
    <3>2. T \ {Max(T)} \in SUBSET (1 .. n)
      OBVIOUS
    <3>3. g[T \ {Max(T)}] \in V
      BY <2>1, <3>2
    <3>4. QED
      BY <3>1, <3>3 DEF Analysis
  <2>3. QED
    BY <2>1, <2>2
<1>5. ASSUME NEW g, Eq(g)
      PROVE  /\ g[{}] = NewState
             /\ \A T \in SUBSET (1 .. n) : T # {} =>
                  g[T] = AnalyzeInstruction(g[T \ {Max(T)}], p[Max(T)])
  BY <1>5
<1>6. \E g : FoldsFirst(g, n, V, NewState, Analysis(p))
  <2> HIDE DEF n, V
  <2>1. QED
    BY <1>1, <1>2, <1>3, SequenceFoldExists
<1>7. Analyze(p) = iter[1 .. n]
  <2>1. DOMAIN p = 1 .. n
    OBVIOUS
  <2>2. QED
    BY <2>1 DEF Analyze, Lists!FoldLeft, Lists!MapThenFoldSet, Lists!Max, Max
<1>8. Eq(iter)
  <2> HIDE DEF Eq
  <2>1. QED
    BY <1>4, <1>6
<1> HIDE DEF iter
<1>9. \A T \in SUBSET (1 .. n) : iter[T] \in V
  <2> DEFINE F == {T \in SUBSET (1 .. n) : \A U \in SUBSET T : iter[U] \in V}
  <2>1. iter[{}] = NewState /\ \A T \in SUBSET (1 .. n) : T # {} =>
          iter[T] = AnalyzeInstruction(iter[T \ {Max(T)}], p[Max(T)])
    BY <1>5, <1>8
  <2>2. {} \in F
    BY <1>2, <2>1
  <2>3. ASSUME NEW T \in SUBSET (1 .. n), T # {}, \A x \in T : T \ {x} \in F
        PROVE  T \in F
    <3>1. Max(T) \in T /\ Max(T) \in 1 .. n
      BY <1>1, <2>3, LargestIndex
    <3>2. iter[T \ {Max(T)}] \in V
      BY <2>3, <3>1
    <3>3. iter[T] \in V
      <4>1. AnalyzeInstruction(iter[T \ {Max(T)}], p[Max(T)]) \in V
        BY <1>1, <3>1, <3>2, InstructionTyped
      <4>2. QED
        BY <2>1, <2>3, <4>1
    <3>4. ASSUME NEW U \in SUBSET T, U # T PROVE iter[U] \in V
      <4>1. PICK x \in T : U \in SUBSET (T \ {x})
        BY <3>4
      <4>2. QED
        BY <2>3, <4>1
    <3>5. QED
      BY <3>3, <3>4
  <2>4. IsFiniteSet(1 .. n)
    BY <1>1, FS_Interval
  <2> HIDE DEF F
  <2>5. 1 .. n \in F
    BY <2>2, <2>3, <2>4, FiniteInduction
  <2>6. QED
    BY <2>5 DEF F
<1>10. FoldsFirst(iter, n, V, NewState, Analysis(p))
  <2>1. /\ iter \in [SUBSET (1 .. n) -> V]
        /\ iter = [T \in SUBSET (1 .. n) |->
                     IF T = {} THEN NewState ELSE AnalyzeInstruction(iter[T \ {Max(T)}], p[Max(T)])]
    BY <1>8, <1>9
  <2>2. ASSUME NEW T \in SUBSET (1 .. n), T # {}
        PROVE  Analysis(p)[<<Max(T), iter[T \ {Max(T)}]>>]
                 = AnalyzeInstruction(iter[T \ {Max(T)}], p[Max(T)])
    <3>1. Max(T) \in 1 .. n
      BY <1>1, <2>2, LargestIndex
    <3>2. T \ {Max(T)} \in SUBSET (1 .. n)
      OBVIOUS
    <3>3. iter[T \ {Max(T)}] \in V
      BY <1>9, <3>2
    <3>4. QED
      BY <3>1, <3>3 DEF Analysis
  <2> HIDE DEF V
  <2>3. iter = [T \in SUBSET (1 .. n) |->
                  IF T = {} THEN NewState ELSE Analysis(p)[<<Max(T), iter[T \ {Max(T)}]>>]]
    BY <2>1, <2>2
  <2>4. QED
    BY <2>1, <2>3 DEF FoldsFirst
<1> HIDE DEF V
<1>11. QED
  BY <1>7, <1>10 DEF V

\* Analyzing one instruction more is the analysis so far and a step.
LEMMA AnalyzeExtends ==
  ASSUME NEW q \in Seq(Instruction), NEW ins \in Instruction
  PROVE  /\ Analyze(q) \in AnalyzerState
         /\ Analyze(Append(q, ins)) = AnalyzeInstruction(Analyze(q), ins)
<1> DEFINE i == Len(q)
           r == Append(q, ins)
<1>1. /\ i \in Nat /\ i + 1 \in Nat
      /\ q \in Seq(Instruction) /\ Len(q) = i
      /\ r \in Seq(Instruction) /\ Len(r) = i + 1 /\ \A j \in 1 .. i : r[j] = q[j]
      /\ r[i + 1] = ins
  OBVIOUS
<1> HIDE DEF i, r
<1>2. PICK h : /\ FoldsFirst(h, i, AnalyzerState, NewState, Analysis(q))
               /\ Analyze(q) = h[1 .. i]
  <2>1. \E it : /\ FoldsFirst(it, Len(q), AnalyzerState, NewState, Analysis(q))
                /\ Analyze(q) = it[1 .. Len(q)]
    BY <1>1, AnalyzeIsFold
  <2>2. QED
    BY <1>1, <2>1
<1>3. PICK g : /\ FoldsFirst(g, i + 1, AnalyzerState, NewState, Analysis(r))
               /\ Analyze(r) = g[1 .. i + 1]
  <2>1. \E it : /\ FoldsFirst(it, Len(r), AnalyzerState, NewState, Analysis(r))
                /\ Analyze(r) = it[1 .. Len(r)]
    BY <1>1, AnalyzeIsFold
  <2>2. QED
    BY <1>1, <2>1
<1>4. \A T \in SUBSET (1 .. i + 1) :
        g[T] = IF T = {} THEN NewState ELSE Analysis(r)[<<Max(T), g[T \ {Max(T)}]>>]
  BY <1>3 DEF FoldsFirst
<1>5. \A T \in SUBSET (1 .. i) :
        g[T] = IF T = {} THEN NewState ELSE Analysis(r)[<<Max(T), g[T \ {Max(T)}]>>]
  <2>1. 1 .. i \in SUBSET (1 .. i + 1)
    BY <1>1
  <2>2. QED
    BY <1>4, <2>1
<1>6. ASSUME NEW T \in SUBSET (1 .. i)
      PROVE  h[T] = IF T = {} THEN NewState ELSE Analysis(r)[<<Max(T), h[T \ {Max(T)}]>>]
  <2>1. h[T] = IF T = {} THEN NewState ELSE Analysis(q)[<<Max(T), h[T \ {Max(T)}]>>]
    BY <1>2 DEF FoldsFirst
  <2>2. CASE T # {}
    <3>1. Max(T) \in 1 .. i /\ Max(T) \in 1 .. i + 1
      <4>1. Max(T) \in T
        BY <1>1, <2>2, LargestIndex
      <4>2. 1 .. i \in SUBSET (1 .. i + 1)
        BY <1>1
      <4>3. QED
        BY <4>1, <4>2
    <3>2. T \ {Max(T)} \in SUBSET (1 .. i)
      OBVIOUS
    <3>3. h[T \ {Max(T)}] \in AnalyzerState
      BY <1>2, <3>2 DEF FoldsFirst
    <3>4. /\ Analysis(q)[<<Max(T), h[T \ {Max(T)}]>>]
               = AnalyzeInstruction(h[T \ {Max(T)}], q[Max(T)])
          /\ Analysis(r)[<<Max(T), h[T \ {Max(T)}]>>]
               = AnalyzeInstruction(h[T \ {Max(T)}], r[Max(T)])
      BY <1>1, <3>1, <3>3 DEF Analysis
    <3>5. q[Max(T)] = r[Max(T)]
      BY <1>1, <3>1
    <3>6. QED
      BY <2>1, <2>2, <3>4, <3>5
  <2>3. QED
    BY <2>1, <2>2
<1>7. g[1 .. i] = h[1 .. i]
  <2>1. /\ FollowsFirst(g, i, NewState, Analysis(r))
        /\ FollowsFirst(h, i, NewState, Analysis(r))
    BY <1>5, <1>6 DEF FollowsFirst
  <2>2. QED
    BY <1>1, <2>1, SequenceFoldUnique
<1>8. h[1 .. i] \in AnalyzerState
  BY <1>2 DEF FoldsFirst
<1>9. g[1 .. i + 1] = AnalyzeInstruction(h[1 .. i], r[i + 1])
  <2>1. /\ Max(1 .. i + 1) = i + 1 /\ (1 .. i + 1) \ {i + 1} = 1 .. i
    BY <1>1, LastIndex
  <2>2. 1 .. i + 1 # {}
    <3>1. 1 \in 1 .. i + 1
      BY <1>1
    <3>2. QED
      BY <3>1
  <2>3. g[1 .. i + 1] = Analysis(r)[<<i + 1, g[1 .. i]>>]
    BY <1>4, <2>1, <2>2
  <2>4. i + 1 \in 1 .. Len(r)
    BY <1>1
  <2>5. Analysis(r)[<<i + 1, h[1 .. i]>>] = AnalyzeInstruction(h[1 .. i], r[i + 1])
    BY <1>8, <2>4 DEF Analysis
  <2>6. QED
    BY <1>7, <2>3, <2>5
<1>10. QED
  BY <1>1, <1>2, <1>3, <1>8, <1>9 DEF i, r

LEMMA AnalyzeNothing == Analyze(<< >>) = NewState
<1> DEFINE q == << >>
<1>1. q \in Seq(Instruction) /\ Len(q) = 0
  OBVIOUS
<1> HIDE DEF q
<1>2. PICK h : /\ FoldsFirst(h, Len(q), AnalyzerState, NewState, Analysis(q))
               /\ Analyze(q) = h[1 .. Len(q)]
  BY <1>1, AnalyzeIsFold
<1>3. 1 .. Len(q) = {}
  BY <1>1
<1>4. h[{}] = NewState
  BY <1>2 DEF FoldsFirst
<1>5. QED
  BY <1>2, <1>3, <1>4 DEF q

-----------------------------------------------------------------------------
(***************************************************************************)
(* The analyzer follows the method, gate by gate.                          *)
(***************************************************************************)
Agrees(st, f, k, c) ==
  /\ st \in AnalyzerState
  /\ st.map = [cols |-> Units(f, k), offset |-> c]
  /\ st.events = [i \in 1 .. k |-> i]

Applies(g) ==
  \/ ApplyX(g) \/ ApplyCX(g) \/ ApplyP(g) \/ ApplyCP(g)
  \/ ApplyU3Local(g) \/ ApplyU3Expand(g) \/ ApplyBarrier(g)

GrowsBy(f, h, k, v) == \A c \in 0 .. k : h[{c}] = IF c = k THEN v ELSE f[{c}]

LEMMA UnitsGrow ==
  ASSUME NEW k \in Nat, NEW f, NEW h, NEW v, GrowsBy(f, h, k, v)
  PROVE  Units(h, k + 1) = Units(f, k) \cup {v}
<1>1. 0 .. (k + 1) - 1 = 0 .. k /\ k \in 0 .. k
  OBVIOUS
<1>2. \A c \in 0 .. k : c = k \/ c \in 0 .. k - 1
  OBVIOUS
<1>3. \A c \in 0 .. k - 1 : c \in 0 .. k /\ c # k
  OBVIOUS
<1>4. Units(h, k + 1) = {h[{c}] : c \in 0 .. k}
  BY <1>1 DEF Units
<1>5. \A c \in 0 .. k - 1 : h[{c}] = f[{c}]
  BY <1>3 DEF GrowsBy
<1>6. h[{k}] = v
  BY <1>1 DEF GrowsBy
<1>7. ASSUME NEW u \in {h[{c}] : c \in 0 .. k} PROVE u \in {f[{c}] : c \in 0 .. k - 1} \cup {v}
  <2>1. PICK c \in 0 .. k : u = h[{c}]
    OBVIOUS
  <2>2. QED
    BY <1>2, <1>5, <1>6, <2>1
<1>8. ASSUME NEW u \in {f[{c}] : c \in 0 .. k - 1} \cup {v} PROVE u \in {h[{c}] : c \in 0 .. k}
  <2>1. CASE u = v
    BY <1>1, <1>6, <2>1
  <2>2. CASE u # v
    <3>1. PICK c \in 0 .. k - 1 : u = f[{c}]
      BY <2>2
    <3>2. QED
      BY <1>3, <1>5, <3>1
  <2>3. QED
    BY <2>1, <2>2
<1>9. QED
  BY <1>4, <1>7, <1>8 DEF Units

LEMMA MapFollows ==
  ASSUME IInv, NEW g \in Gate, Applies(g),
         NEW map \in MapState, map = [cols |-> Units(amap, m), offset |-> b]
  PROVE  /\ MapAfter(map, g) = [cols |-> Units(amap', m'), offset |-> b']
         /\ m' = m \/ m' = m + 1
<1>1. TypeOK /\ Linear /\ NoAliasing
  BY DEF IInv
<1>2. m \in Nat /\ amap \in [Real(m) -> SUBSET Rows]
  BY <1>1, MatrixAssumption DEF TypeOK, Basis, MCQubits, Rows
<1>3. \A c \in 0 .. m - 1 : {c} \in Real(m)
  BY DEF Real
<1>4. map.cols = Units(amap, m) /\ map.offset = b
  OBVIOUS
<1>5. Span(map.cols) = {amap[x] : x \in Real(m)}
  <2>1. Additive(amap, m) /\ \A x, y \in Real(m) : amap[x] = amap[y] => x = y
    BY <1>1 DEF Linear, Additive, NoAliasing
  <2>2. QED
    BY <1>2, <1>4, <2>1, SpanIsImage
<1>6. CASE ApplyX(g)
  <2>1. g.type = "X" /\ m' = m /\ amap' = amap /\ b' = b \oplus {g.q}
    BY <1>6 DEF ApplyX
  <2>2. MapAfter(map, g) = [cols |-> map.cols, offset |-> map.offset \oplus {g.q}]
    BY <2>1, MapAfterFields
  <2>3. QED
    BY <1>4, <2>1, <2>2
<1>7. CASE ApplyCX(g)
  <2>1. /\ g.type = "CX" /\ m' = m /\ b' = RowXor(b, g.q, g.cq)
        /\ amap' = [x \in Real(m) |-> RowXor(amap[x], g.q, g.cq)]
    BY <1>7 DEF ApplyCX
  <2>2. MapAfter(map, g) = [cols |-> {RowXor(v, g.q, g.cq) : v \in map.cols},
                            offset |-> RowXor(map.offset, g.q, g.cq)]
    BY <2>1, MapAfterFields
  <2>3. \A c \in 0 .. m - 1 : amap'[{c}] = RowXor(amap[{c}], g.q, g.cq)
    BY <1>3, <2>1
  <2>4. {RowXor(v, g.q, g.cq) : v \in Units(amap, m)} = Units(amap', m)
    BY <2>3 DEF Units
  <2>5. QED
    BY <1>4, <2>1, <2>2, <2>4
<1>8. CASE ApplyU3Local(g)
  <2>1. /\ g.type \in {"H", "U3"} /\ m' = m /\ b' = b /\ amap' = amap
        /\ \E d \in Real(m) : amap[d] = {g.q}
    BY <1>8 DEF ApplyU3Local, Deltas
  <2>2. {g.q} \in Span(map.cols)
    BY <1>5, <2>1
  <2>3. MapAfter(map, g) = map
    BY <2>1, <2>2, MapAfterFields
  <2>4. QED
    BY <2>1, <2>3
<1>9. CASE ApplyU3Expand(g)
  <2>1. /\ g.type \in {"H", "U3"} /\ m' = m + 1 /\ b' = b /\ amap' = Extended(g.q)
        /\ \A d \in Real(m) : amap[d] # {g.q}
    BY <1>9 DEF ApplyU3Expand, Deltas
  <2>2. {g.q} \notin Span(map.cols)
    BY <1>5, <2>1
  <2>3. MapAfter(map, g) = [cols |-> map.cols \cup {{g.q}}, offset |-> map.offset]
    BY <2>1, <2>2, MapAfterFields
  <2>4. \A c \in 0 .. m : amap'[{c}] = IF c = m THEN {g.q} ELSE amap[{c}]
    <3>1. ASSUME NEW c \in 0 .. m
          PROVE  Extended(g.q)[{c}] = IF c = m THEN {g.q} ELSE amap[{c}]
      <4>1. TypeOK /\ Linear
        BY <1>1
      <4>2. QED
        BY <4>1, ExtendedColumns
    <3>2. amap' = Extended(g.q)
      BY <2>1
    <3>3. QED
      BY <3>1, <3>2
  <2>5. Units(amap', m') = Units(amap, m) \cup {{g.q}}
    <3>1. PICK h, v : h = amap' /\ v = {g.q}
      OBVIOUS
    <3>2. GrowsBy(amap, h, m, v)
      BY <2>4, <3>1 DEF GrowsBy
    <3>3. Units(h, m + 1) = Units(amap, m) \cup {v}
      BY <1>2, <3>2, UnitsGrow
    <3>4. QED
      BY <2>1, <3>1, <3>3
  <2>6. QED
    BY <1>4, <2>1, <2>3, <2>5
<1>10. CASE ApplyP(g) \/ ApplyCP(g) \/ ApplyBarrier(g)
  <2>1. /\ g.type \notin {"X", "CX", "H", "U3"}
        /\ m' = m /\ b' = b /\ amap' = amap
    BY <1>10 DEF ApplyP, ApplyCP, ApplyBarrier
  <2>2. MapAfter(map, g) = map
    BY <2>1, MapAfterFields
  <2>3. QED
    BY <2>1, <2>2
<1>11. QED
  BY <1>6, <1>7, <1>8, <1>9, <1>10 DEF Applies

LEMMA AddressCount ==
  ASSUME NEW k \in Nat
  PROVE  Cardinality(Real(k)) = 2 ^ k
<1>1. IsFiniteSet(0 .. k - 1) /\ Cardinality(0 .. k - 1) = k
  BY FS_Interval
<1>2. Cardinality(SUBSET (0 .. k - 1)) = 2 ^ Cardinality(0 .. k - 1)
  BY <1>1, FS_SUBSET
<1>3. QED
  BY <1>1, <1>2 DEF Real

LEMMA GateFollows ==
  ASSUME IInv, NEW g \in Gate, Applies(g), TypeOK', NoAliasing',
         NEW st, Agrees(st, amap, m, b)
  PROVE  /\ Agrees(GateStep(st, g), amap', m', b')
         /\ GateStep(st, g).volume - st.volume =
              IF g.type \in {"X", "CX", "Barrier"} THEN 0 ELSE Cardinality(DOMAIN sv')
<1> DEFINE map == MapAfter(st.map, g)
<1>1. m \in Nat /\ amap \in [Real(m) -> SUBSET Rows]
  BY MatrixAssumption DEF IInv, TypeOK, Basis, MCQubits, Rows
<1>2. m' \in Nat /\ amap' \in [Real(m') -> SUBSET Rows] /\ sv' \in [Real(m') -> Amp]
  BY MatrixAssumption DEF TypeOK, Basis, MCQubits, Rows
<1>3. st.map \in MapState /\ st.map = [cols |-> Units(amap, m), offset |-> b]
      /\ st.events = [i \in 1 .. m |-> i] /\ st.volume \in Int /\ st \in AnalyzerState
  BY DEF Agrees, AnalyzerState
<1>4. /\ map = [cols |-> Units(amap', m'), offset |-> b']
      /\ m' = m \/ m' = m + 1
  BY <1>3, MapFollows
<1>5. map \in MapState
  BY <1>3, MapAfterFields
<1>6. Width(st.map) = m
  <2>1. \A x, y \in Real(m) : amap[x] = amap[y] => x = y
    BY DEF IInv, NoAliasing
  <2>2. Cardinality(Units(amap, m)) = m
    BY <1>1, <2>1, UnitsCount
  <2>3. QED
    BY <1>3, <2>2 DEF Width
<1>7. Width(map) = m'
  <2>1. \A x, y \in Real(m') : amap'[x] = amap'[y] => x = y
    BY DEF NoAliasing
  <2>2. Cardinality(Units(amap', m')) = m'
    BY <1>2, <2>1, UnitsCount
  <2>3. QED
    BY <1>4, <2>2 DEF Width
<1>8. Cardinality(DOMAIN sv') = 2 ^ m'
  <2>1. DOMAIN sv' = Real(m')
    BY <1>2
  <2>2. QED
    BY <1>2, <2>1, AddressCount
<1> HIDE DEF map
<1>9. CASE g.type = "Barrier"
  <2>1. GateStep(st, g) = st
    BY <1>9 DEF GateStep
  <2>2. m' = m /\ amap' = amap /\ b' = b
    BY <1>9 DEF Applies, ApplyX, ApplyCX, ApplyP, ApplyCP, ApplyU3Local, ApplyU3Expand,
                ApplyBarrier
  <2>3. QED
    BY <1>3, <1>9, <2>1, <2>2
<1>10. CASE g.type # "Barrier"
  <2>1. GateStep(st, g) = Recorded(st, IF g.type \in {"X", "CX"} THEN "X" ELSE "Z", map)
    BY <1>10 DEF GateStep, map
  <2>2. GateStep(st, g) =
          [map |-> map,
           events |-> IF m' > m THEN Append(st.events, m') ELSE st.events,
           volume |-> IF g.type \in {"X", "CX"} THEN st.volume ELSE st.volume + 2 ^ m',
           refused |-> FALSE]
    <3>1. (IF g.type \in {"X", "CX"} THEN "X" ELSE "Z") = "X" <=> g.type \in {"X", "CX"}
      OBVIOUS
    <3>2. QED
      BY <1>6, <1>7, <2>1, <3>1 DEF Recorded
  <2>3. GateStep(st, g).events = [i \in 1 .. m' |-> i]
    <3>1. CASE m' = m
      BY <1>1, <1>3, <2>2, <3>1
    <3>2. CASE m' = m + 1
      <4>1. Append([i \in 1 .. m |-> i], m + 1) = [i \in 1 .. m + 1 |-> i]
        BY <1>1
      <4>2. GateStep(st, g).events = Append(st.events, m')
        BY <1>1, <2>2, <3>2
      <4>3. QED
        BY <1>3, <3>2, <4>1, <4>2
    <3>3. QED
      BY <1>4, <3>1, <3>2
  <2>4. GateStep(st, g).map = [cols |-> Units(amap', m'), offset |-> b']
    BY <1>4, <2>2
  <2>5. GateStep(st, g) \in AnalyzerState
    BY <1>3, GateStepTyped
  <2>6. 2 ^ m' \in Nat
    BY <1>5, <1>7, WidthTyped
  <2>7. GateStep(st, g).volume - st.volume =
          IF g.type \in {"X", "CX", "Barrier"} THEN 0 ELSE Cardinality(DOMAIN sv')
    <3>1. GateStep(st, g).volume =
            IF g.type \in {"X", "CX"} THEN st.volume ELSE st.volume + 2 ^ m'
      BY <2>2
    <3>2. QED
      BY <1>3, <1>8, <1>10, <2>6, <3>1
  <2>8. QED
    BY <2>3, <2>4, <2>5, <2>7 DEF Agrees
<1>11. QED
  BY <1>9, <1>10

-----------------------------------------------------------------------------
(***************************************************************************)
(* What the analyzer has made of the circuit, linked to what it would have  *)
(* recorded of the gates that the core was handed.  A trace w has a state   *)
(* after each gate of the program.                                         *)
(***************************************************************************)
IsTrace(w, p) ==
  /\ w \in [0 .. Len(p) -> AnalyzerState]
  /\ w[0] = NewState
  /\ \A i \in 1 .. Len(p) : w[i] = GateStep(w[i - 1], p[i])

NoCrz(c) == \A j \in DOMAIN c : c[j].name # "crz"

\* st has read what v has recorded; exact says that no crz was among it.
Linked(st, v, exact) ==
  \/ st.refused
  \/ /\ st.map = v.map
     /\ st.events = v.events
     /\ st.volume <= v.volume
     /\ v.volume <= 2 * st.volume
     /\ exact => v.volume = st.volume

LEMMA TraceExtends ==
  ASSUME NEW p \in Seq(Gate), NEW g \in Gate, NEW w, IsTrace(w, p)
  PROVE  LET u == [i \in 0 .. Len(p) + 1 |->
                     IF i = Len(p) + 1 THEN GateStep(w[Len(p)], g) ELSE w[i]]
         IN  IsTrace(u, Append(p, g)) /\ u[Len(p) + 1] = GateStep(w[Len(p)], g)
<1> DEFINE n == Len(p)
           v == GateStep(w[n], g)
           u == [i \in 0 .. n + 1 |-> IF i = n + 1 THEN v ELSE w[i]]
           r == Append(p, g)
<1>1. /\ n \in Nat /\ n + 1 \in 0 .. n + 1 /\ n + 1 # 0 /\ 0 \in 0 .. n + 1
      /\ Len(r) = n + 1 /\ r[n + 1] = g /\ \A i \in 1 .. n : r[i] = p[i]
  OBVIOUS
<1>2. v \in AnalyzerState
  <2>1. w[n] \in AnalyzerState
    BY <1>1 DEF IsTrace
  <2>2. QED
    BY <2>1, GateStepTyped
<1> HIDE DEF v
<1>3. u \in [0 .. n + 1 -> AnalyzerState]
  <2>1. \A i \in 0 .. n + 1 : i # n + 1 => i \in 0 .. n
    BY <1>1
  <2>2. \A i \in 0 .. n : w[i] \in AnalyzerState
    BY DEF IsTrace
  <2>3. QED
    BY <1>2, <2>1, <2>2
<1>4. u[0] = NewState /\ u[n + 1] = v
  BY <1>1 DEF IsTrace
<1>5. ASSUME NEW i \in 1 .. n + 1 PROVE u[i] = GateStep(u[i - 1], r[i])
  <2>1. CASE i = n + 1
    <3>1. i - 1 = n /\ n \in 0 .. n + 1 /\ n # n + 1
      BY <1>1, <2>1
    <3>2. u[i - 1] = w[n]
      BY <3>1
    <3>3. QED
      BY <1>1, <1>4, <2>1, <3>2 DEF v
  <2>2. CASE i # n + 1
    <3>1. /\ i \in 1 .. n /\ i \in 0 .. n + 1 /\ i - 1 \in 0 .. n + 1 /\ i - 1 # n + 1
      BY <1>1, <2>2
    <3>2. u[i] = w[i] /\ u[i - 1] = w[i - 1] /\ r[i] = p[i]
      BY <1>1, <2>2, <3>1
    <3>3. w[i] = GateStep(w[i - 1], p[i])
      BY <3>1 DEF IsTrace
    <3>4. QED
      BY <3>2, <3>3
  <2>3. QED
    BY <2>1, <2>2
<1>6. IsTrace(u, r)
  <2> HIDE DEF u, r
  <2>1. QED
    BY <1>1, <1>3, <1>4, <1>5 DEF IsTrace
<1>7. QED
  BY <1>4, <1>6 DEF v

\* The link over one instruction: none, one or two gates more.
LEMMA RecordedLinked ==
  ASSUME NEW st \in AnalyzerState, NEW v \in AnalyzerState, NEW exact \in BOOLEAN,
         ~st.refused, Linked(st, v, exact), NEW map \in MapState,
         NEW c, NEW d, c = "X" <=> d = "X"
  PROVE  Linked(Recorded(st, c, map), Recorded(v, d, map), exact)
<1>1. /\ st.map = v.map /\ st.events = v.events
      /\ st.volume <= v.volume /\ v.volume <= 2 * st.volume
      /\ exact => v.volume = st.volume
  BY DEF Linked
<1>2. 2 ^ Width(map) \in Nat
  BY WidthTyped
<1>3. st.volume \in Int /\ v.volume \in Int
  BY DEF AnalyzerState
<1> DEFINE k == 2 ^ Width(map)
<1>4. /\ Recorded(st, c, map).map = map /\ Recorded(v, d, map).map = map
      /\ Recorded(st, c, map).events = Recorded(v, d, map).events
      /\ Recorded(st, c, map).volume = IF c = "X" THEN st.volume ELSE st.volume + k
      /\ Recorded(v, d, map).volume = IF c = "X" THEN v.volume ELSE v.volume + k
  BY <1>1 DEF Recorded
<1> HIDE DEF k
<1>5. k \in Nat
  BY <1>2 DEF k
<1>6. QED
  BY <1>1, <1>3, <1>4, <1>5 DEF Linked

LEMMA CrzLinked ==
  ASSUME NEW st \in AnalyzerState, NEW v \in AnalyzerState, NEW exact,
         ~st.refused, Linked(st, v, exact),
         NEW g \in Gate, NEW h \in Gate, g.type = "P", h.type = "CP"
  PROVE  Linked(Recorded(st, "Z", st.map), GateStep(GateStep(v, g), h), FALSE)
<1>1. /\ st.map = v.map /\ st.events = v.events
      /\ st.volume <= v.volume /\ v.volume <= 2 * st.volume
  BY DEF Linked
<1>2. st.map \in MapState /\ st.volume \in Int /\ v.volume \in Int
  BY DEF AnalyzerState
<1> DEFINE k == 2 ^ Width(st.map)
<1>3. k \in Nat
  BY <1>2, WidthTyped
<1>4. \A z : GateStep(z, g) = Recorded(z, "Z", z.map) /\ GateStep(z, h) = Recorded(z, "Z", z.map)
  BY DEF GateStep, MapAfter
<1>5. GateStep(v, g) = [map |-> v.map, events |-> v.events, volume |-> v.volume + k,
                        refused |-> FALSE]
  <2>1. Width(v.map) \in Nat
    BY <1>1, <1>2, WidthTyped
  <2>2. ~(Width(v.map) > Width(v.map))
    BY <2>1
  <2>3. QED
    BY <1>1, <1>4, <2>2 DEF Recorded
<1>6. GateStep(GateStep(v, g), h) =
        [map |-> v.map, events |-> v.events, volume |-> v.volume + k + k, refused |-> FALSE]
  <2>1. Width(v.map) \in Nat
    BY <1>1, <1>2, WidthTyped
  <2>2. ~(Width(v.map) > Width(v.map))
    BY <2>1
  <2> DEFINE z == GateStep(v, g)
  <2>3. z.map = v.map /\ z.events = v.events /\ z.volume = v.volume + k
    BY <1>5
  <2>4. GateStep(z, h) = Recorded(z, "Z", z.map)
    BY <1>4
  <2> HIDE DEF z
  <2>5. GateStep(z, h) =
          [map |-> v.map, events |-> v.events, volume |-> v.volume + k + k, refused |-> FALSE]
    BY <1>1, <2>2, <2>3, <2>4 DEF Recorded
  <2>6. QED
    BY <2>5 DEF z
<1>7. /\ Recorded(st, "Z", st.map).map = st.map
      /\ Recorded(st, "Z", st.map).events = st.events
      /\ Recorded(st, "Z", st.map).volume = st.volume + k
  <2>1. Width(st.map) \in Nat
    BY <1>2, WidthTyped
  <2>2. ~(Width(st.map) > Width(st.map))
    BY <2>1
  <2>3. QED
    BY <2>2 DEF Recorded
<1> HIDE DEF k
<1>8. QED
  BY <1>1, <1>2, <1>3, <1>6, <1>7 DEF Linked

LEMMA InstructionLinked ==
  ASSUME NEW p \in Seq(Gate), NEW w, IsTrace(w, p), NEW i \in Instruction,
         i.name # "reset", NEW st \in AnalyzerState, NEW exact \in BOOLEAN,
         Linked(st, w[Len(p)], exact)
  PROVE  \E u : LET r == p \o Lowered(i) IN
           /\ IsTrace(u, r)
           /\ Linked(AnalyzeInstruction(st, i), u[Len(r)], exact /\ i.name # "crz")
<1> DEFINE n == Len(p)
           v == w[n]
<1>1. n \in Nat /\ v \in AnalyzerState
  BY DEF IsTrace
<1>2. Lowered(i) \in Seq(Gate) /\ i.name \in Names
  BY InstructionAssumption, CallsAssumption
<1>3. CASE i.name \in {"measure", "id"}
  <2>1. Lowered(i) = << >>
    BY <1>3 DEF Lowered
  <2>2. p \o Lowered(i) = p
    BY <2>1
  <2>3. AnalyzeInstruction(st, i) = st
    BY <1>3 DEF AnalyzeInstruction
  <2>4. i.name # "crz"
    BY <1>3
  <2>5. QED
    BY <2>2, <2>3, <2>4
<1>4. ASSUME NEW g \in Gate, Lowered(i) = <<g>>, i.name # "crz",
             Linked(AnalyzeInstruction(st, i), GateStep(v, g), exact)
      PROVE  \E u : LET r == p \o Lowered(i) IN
               /\ IsTrace(u, r)
               /\ Linked(AnalyzeInstruction(st, i), u[Len(r)], exact /\ i.name # "crz")
  <2>1. p \o Lowered(i) = Append(p, g) /\ Len(Append(p, g)) = n + 1
    BY <1>4
  <2>2. PICK u : IsTrace(u, Append(p, g)) /\ u[n + 1] = GateStep(v, g)
    BY TraceExtends
  <2>3. QED
    BY <1>4, <2>1, <2>2
<1>5. CASE i.name = "crz"
  <2> DEFINE g == Pushed("P", 0, i.cq, -(i.theta \div 2), 0, 0)
             h == Pushed("CP", i.cq, i.q, i.theta, 0, 0)
             q == Append(p, g)
             r == Append(q, h)
  <2>1. Lowered(i) = <<g, h>>
    BY <1>5 DEF Lowered, CRz
  <2>2. g \in Gate /\ h \in Gate
    <3> HIDE DEF g, h
    <3>1. QED
      BY <1>2, <2>1
  <2>3. g.type = "P" /\ h.type = "CP"
    BY DEF Pushed
  <2> HIDE DEF g, h
  <2>4. q \in Seq(Gate) /\ Len(q) = n + 1
    BY <2>2
  <2>5. Len(r) = n + 2 /\ p \o Lowered(i) = r
    BY <2>1, <2>2
  <2>6. PICK u1 : IsTrace(u1, q) /\ u1[n + 1] = GateStep(v, g)
    BY <2>2, TraceExtends
  <2>7. PICK u2 : IsTrace(u2, r) /\ u2[n + 2] = GateStep(GateStep(v, g), h)
    <3> HIDE DEF q, v
    <3>1. PICK u2 : IsTrace(u2, Append(q, h)) /\ u2[Len(q) + 1] = GateStep(u1[Len(q)], h)
      BY <2>2, <2>4, <2>6, TraceExtends
    <3>2. Len(q) + 1 = n + 2
      BY <1>1, <2>4
    <3>3. QED
      BY <2>4, <2>6, <3>1, <3>2
  <2>8. Linked(AnalyzeInstruction(st, i), GateStep(GateStep(v, g), h), FALSE)
    <3>1. CASE st.refused
      <4>1. AnalyzeInstruction(st, i) = st
        BY <3>1 DEF AnalyzeInstruction
      <4>2. QED
        BY <3>1, <4>1 DEF Linked
    <3>2. CASE ~st.refused
      <4>1. AnalyzeInstruction(st, i) = Recorded(st, "Z", st.map)
        BY <1>5, <3>2 DEF AnalyzeInstruction
      <4>2. QED
        BY <1>1, <2>2, <2>3, <3>2, <4>1, CrzLinked
    <3>3. QED
      BY <3>1, <3>2
  <2>9. (exact /\ i.name # "crz") = FALSE
    BY <1>5
  <2> HIDE DEF r, v
  <2>10. QED
    BY <2>5, <2>7, <2>8, <2>9
<1>6. CASE i.name \in {"barrier", "p"}
  <2>1. PICK g : Lowered(i) = <<g>> /\ g.type = IF i.name = "p" THEN "P" ELSE "Barrier"
    <3>1. CASE i.name = "p"
      <4>1. Lowered(i) = << Pushed("P", 0, i.q, i.theta, 0, 0) >>
        BY <3>1 DEF Lowered
      <4>2. QED
        BY <3>1, <4>1 DEF Pushed
    <3>2. CASE i.name = "barrier"
      <4>1. Lowered(i) = << Pushed("Barrier", 0, 0, 0, 0, 0) >>
        BY <3>2 DEF Lowered
      <4>2. QED
        BY <3>2, <4>1 DEF Pushed
    <3>3. QED
      BY <1>6, <3>1, <3>2
  <2>2. g \in Gate
    BY <1>2, <2>1
  <2>3. Linked(AnalyzeInstruction(st, i), GateStep(v, g), exact)
    <3>1. CASE i.name = "p"
      <4>1. AnalyzeInstruction(st, i).refused
        <5>1. CASE st.refused
          BY <5>1 DEF AnalyzeInstruction
        <5>2. CASE ~st.refused
          <6>1. AnalyzeInstruction(st, i) = [st EXCEPT !.refused = TRUE]
            BY <3>1, <5>2 DEF AnalyzeInstruction
          <6>2. QED
            BY <6>1 DEF AnalyzerState
        <5>3. QED
          BY <5>1, <5>2
      <4>2. QED
        BY <4>1 DEF Linked
    <3>2. CASE i.name = "barrier"
      <4>1. AnalyzeInstruction(st, i) = st
        BY <3>2 DEF AnalyzeInstruction
      <4>2. GateStep(v, g) = v
        BY <2>1, <3>2 DEF GateStep
      <4>3. QED
        BY <4>1, <4>2
    <3>3. QED
      BY <1>6, <3>1, <3>2
  <2>4. i.name # "crz"
    BY <1>6
  <2>5. QED
    BY <1>4, <2>1, <2>2, <2>3, <2>4
<1>7. CASE i.name \in OneGate
  <2>1. PICK g \in Gate :
          /\ Lowered(i) = <<g>>
          /\ g.type # "Barrier"
          /\ ~st.refused =>
               \E class : /\ class = "X" <=> g.type \in {"X", "CX"}
                          /\ AnalyzeInstruction(st, i) =
                               Recorded(st, class, MapAfter(st.map, g))
    BY <1>7, OneGateLowered
  <2>2. Linked(AnalyzeInstruction(st, i), GateStep(v, g), exact)
    <3>1. CASE st.refused
      <4>1. AnalyzeInstruction(st, i) = st
        BY <3>1 DEF AnalyzeInstruction
      <4>2. QED
        BY <3>1, <4>1 DEF Linked
    <3>2. CASE ~st.refused
      <4>1. PICK class : /\ class = "X" <=> g.type \in {"X", "CX"}
                         /\ AnalyzeInstruction(st, i) =
                              Recorded(st, class, MapAfter(st.map, g))
        BY <2>1, <3>2
      <4>2. st.map = v.map
        BY <3>2 DEF Linked
      <4>3. PICK d : /\ d = "X" <=> g.type \in {"X", "CX"}
                     /\ GateStep(v, g) = Recorded(v, d, MapAfter(st.map, g))
        BY <2>1, <4>2 DEF GateStep
      <4>4. MapAfter(st.map, g) \in MapState
        BY MapAfterFields DEF AnalyzerState
      <4>5. QED
        BY <1>1, <3>2, <4>1, <4>3, <4>4, RecordedLinked
    <3>3. QED
      BY <3>1, <3>2
  <2>3. i.name # "crz"
    BY <1>7 DEF OneGate
  <2>4. QED
    BY <1>4, <2>1, <2>2, <2>3
<1>8. QED
  BY <1>2, <1>3, <1>5, <1>6, <1>7 DEF OneGate

-----------------------------------------------------------------------------
(***************************************************************************)
(* The invariant: the trace of the program as the analyzer would record it  *)
(* is linked to what it has read of the circuit, and while the loop runs    *)
(* the map of the core and its work are those after the gates applied.      *)
(***************************************************************************)
AnalyzedAs(w) ==
  /\ IsTrace(w, program)
  /\ Linked(Analyze(circuit), w[Len(program)], NoCrz(circuit))
  /\ pc > 0 => Agrees(w[pc - 1], amap, m, b) /\ traversed = w[pc - 1].volume

LoaderInv ==
  /\ IInv
  /\ circuit \in Seq(Instruction)
  /\ pc <= Len(program) + 1
  /\ \E w : AnalyzedAs(w)

\* The empty program, after construction, clear_gates and a reset.
LEMMA NothingRead ==
  \E w : IsTrace(w, << >>) /\ Linked(NewState, w[0], TRUE)
<1> DEFINE w == [i \in 0 .. 0 |-> NewState]
<1>1. Len(<< >>) = 0 /\ 1 .. 0 = {} /\ 0 \in 0 .. 0
  OBVIOUS
<1>2. w[0] = NewState /\ w \in [0 .. 0 -> AnalyzerState]
  BY NewStateTyped
<1> HIDE DEF w
<1>3. IsTrace(w, << >>)
  BY <1>1, <1>2 DEF IsTrace
<1>4. Linked(NewState, NewState, TRUE)
  BY DEF Linked, NewState
<1>5. QED
  BY <1>2, <1>3, <1>4

LEMMA LoaderInitInv == LoaderInit => LoaderInv
<1> SUFFICES ASSUME LoaderInit PROVE LoaderInv
  OBVIOUS
<1>1. Init /\ circuit = << >> /\ program = << >> /\ pc = 0
  BY DEF LoaderInit, Init
<1>2. PICK w : IsTrace(w, << >>) /\ Linked(NewState, w[0], TRUE)
  BY NothingRead
<1>3. \A e : Linked(NewState, w[0], e)
  BY <1>2 DEF Linked
<1>4. AnalyzedAs(w)
  <2>1. Len(program) = 0 /\ ~(pc > 0)
    BY <1>1
  <2>2. Analyze(circuit) = NewState
    BY <1>1, AnalyzeNothing
  <2>3. QED
    BY <1>1, <1>2, <1>3, <2>1, <2>2 DEF AnalyzedAs
<1>5. IInv
  BY <1>1, InitInv
<1>6. circuit \in Seq(Instruction) /\ pc <= Len(program) + 1
  BY <1>1
<1>7. QED
  BY <1>4, <1>5, <1>6 DEF LoaderInv

LEMMA LoaderStepIsStep ==
  ASSUME IInv, [LoaderNext]_loaderVars
  PROVE  [Next]_vars
<1>1. ASSUME NEW i \in Instruction, Load(i) PROVE Next
  <2>1. i.name # "reset" => Lowered(i) \in Calls
    BY InstructionAssumption
  <2>2. QED
    BY <1>1, <2>1 DEF Load, Next
<1>2. QED
  BY <1>1 DEF LoaderNext, loaderVars, Clear, Start, Traverse, End, Next

LEMMA LoaderStepInv == LoaderInv /\ [LoaderNext]_loaderVars => LoaderInv'
<1> SUFFICES ASSUME LoaderInv, [LoaderNext]_loaderVars PROVE LoaderInv'
  OBVIOUS
<1>1. IInv /\ IInv'
  <2>1. IInv /\ [Next]_vars
    BY LoaderStepIsStep DEF LoaderInv
  <2>2. QED
    BY <2>1, StepInv
<1>2. program \in Seq(Gate) /\ pc \in Nat /\ program' \in Seq(Gate)
      /\ circuit \in Seq(Instruction) /\ pc <= Len(program) + 1
  BY <1>1 DEF IInv, TypeOK, LoaderInv
<1>3. PICK w : AnalyzedAs(w)
  BY DEF LoaderInv
<1>4. ASSUME NEW i \in Instruction, Load(i) PROVE LoaderInv'
  <2>1. pc' = 0 /\ circuit' = Append(circuit, i)
    BY <1>4 DEF Load, ClearGates, AddGates
  <2>2. /\ Analyze(circuit) \in AnalyzerState
        /\ Analyze(circuit') = AnalyzeInstruction(Analyze(circuit), i)
    BY <1>2, <2>1, AnalyzeExtends
  <2>3. NoCrz(circuit') = (NoCrz(circuit) /\ i.name # "crz")
    <3>1. /\ \A j \in DOMAIN circuit : j \in DOMAIN circuit' /\ circuit'[j] = circuit[j]
          /\ Len(circuit) + 1 \in DOMAIN circuit' /\ circuit'[Len(circuit) + 1] = i
          /\ \A j \in DOMAIN circuit' : j \in DOMAIN circuit \/ j = Len(circuit) + 1
      BY <1>2, <2>1
    <3>2. QED
      BY <3>1 DEF NoCrz
  <2>4. circuit' \in Seq(Instruction) /\ pc' <= Len(program') + 1
    BY <1>2, <2>1
  <2>5. \E u : IsTrace(u, program')
               /\ Linked(Analyze(circuit'), u[Len(program')], NoCrz(circuit'))
    <3>1. CASE i.name = "reset"
      <4>1. program' = << >>
        BY <1>4, <3>1 DEF Load, ClearGates
      <4>2. PICK u : IsTrace(u, << >>) /\ Linked(NewState, u[0], TRUE)
        BY NothingRead
      <4>3. CASE Analyze(circuit).refused
        <5>1. Analyze(circuit') = Analyze(circuit)
          BY <2>2, <4>3 DEF AnalyzeInstruction
        <5>2. QED
          BY <4>1, <4>2, <4>3, <5>1 DEF Linked
      <4>4. CASE ~Analyze(circuit).refused
        <5>1. Analyze(circuit') = NewState
          BY <2>2, <3>1, <4>4 DEF AnalyzeInstruction
        <5>2. \A e : Linked(NewState, u[0], e)
          BY <4>2 DEF Linked
        <5>3. Len(program') = 0
          BY <4>1
        <5>4. QED
          BY <4>1, <4>2, <5>1, <5>2, <5>3
      <4>5. QED
        BY <4>3, <4>4
    <3>2. CASE i.name # "reset"
      <4>1. program' = program \o Lowered(i)
        BY <1>4, <3>2 DEF Load, AddGates
      <4>2. NoCrz(circuit) \in BOOLEAN
        BY DEF NoCrz
      <4>3. IsTrace(w, program) /\ Linked(Analyze(circuit), w[Len(program)], NoCrz(circuit))
        BY <1>3 DEF AnalyzedAs
      <4>4. \E u : /\ IsTrace(u, program \o Lowered(i))
                   /\ Linked(AnalyzeInstruction(Analyze(circuit), i),
                             u[Len(program \o Lowered(i))],
                             NoCrz(circuit) /\ i.name # "crz")
        BY <1>2, <2>2, <3>2, <4>2, <4>3, InstructionLinked
      <4>5. QED
        BY <2>2, <2>3, <4>1, <4>4
    <3>3. QED
      BY <3>1, <3>2
  <2>6. \E u : AnalyzedAs(u)'
    BY <2>1, <2>5 DEF AnalyzedAs
  <2>7. QED
    BY <1>1, <2>4, <2>6 DEF LoaderInv
<1>5. CASE Clear
  <2>1. pc' = 0 /\ circuit' = << >> /\ program' = << >>
    BY <1>5 DEF Clear, ClearGates
  <2>2. PICK u : IsTrace(u, << >>) /\ Linked(NewState, u[0], TRUE)
    BY NothingRead
  <2>3. \A e : Linked(NewState, u[0], e)
    BY <2>2 DEF Linked
  <2>4. AnalyzedAs(u)'
    <3>1. Len(program') = 0 /\ ~(pc' > 0)
      BY <2>1
    <3>2. Analyze(circuit') = NewState
      BY <2>1, AnalyzeNothing
    <3>3. QED
      BY <2>1, <2>2, <2>3, <3>1, <3>2 DEF AnalyzedAs
  <2>5. circuit' \in Seq(Instruction) /\ pc' <= Len(program') + 1
    BY <2>1
  <2>6. QED
    BY <1>1, <2>4, <2>5 DEF LoaderInv
<1>6. CASE Start
  <2>1. /\ pc' = 1 /\ program' = program /\ circuit' = circuit /\ traversed' = 0
        /\ m' = 0 /\ b' = {}
    BY <1>6 DEF Start, Execute
  <2>2. Agrees(NewState, amap', m', b')
    <3>1. NewState.map = [cols |-> Units(amap', m'), offset |-> b']
      BY <2>1 DEF NewState, EmptyMap, Units
    <3>2. [i \in 1 .. m' |-> i] = << >>
      BY <2>1
    <3>3. NewState.events = << >>
      BY DEF NewState
    <3>4. QED
      BY <3>1, <3>2, <3>3, NewStateTyped DEF Agrees
  <2>3. w[pc' - 1] = NewState /\ NewState.volume = 0
    BY <1>3, <2>1 DEF AnalyzedAs, IsTrace, NewState
  <2>4. AnalyzedAs(w)'
    BY <1>3, <2>1, <2>2, <2>3 DEF AnalyzedAs
  <2>5. circuit' \in Seq(Instruction) /\ pc' <= Len(program') + 1
    BY <1>2, <2>1
  <2>6. QED
    BY <1>1, <2>4, <2>5 DEF LoaderInv
<1>7. CASE Traverse
  <2> DEFINE g == program[pc]
             st == w[pc - 1]
             k == IF g.type \in {"X", "CX", "Barrier"} THEN 0 ELSE Cardinality(DOMAIN sv')
  <2>1. /\ pc \in 1 .. Len(program) /\ pc' = pc + 1 /\ program' = program /\ Applies(g)
        /\ circuit' = circuit /\ traversed' = traversed + k
    BY <1>7 DEF Traverse, ApplyGate, Applies
  <2>2. g \in Gate /\ pc > 0 /\ pc' - 1 = pc
    BY <1>2, <2>1
  <2>3. Agrees(st, amap, m, b) /\ traversed = st.volume /\ w[pc] = GateStep(st, g)
        /\ w[pc] \in AnalyzerState /\ st \in AnalyzerState
    BY <1>2, <1>3, <2>1, <2>2 DEF AnalyzedAs, IsTrace, Agrees
  <2> HIDE DEF g, st, k
  <2>4. /\ Agrees(GateStep(st, g), amap', m', b')
        /\ GateStep(st, g).volume - st.volume = k
    <3>1. TypeOK' /\ NoAliasing'
      BY <1>1 DEF IInv
    <3>2. QED
      BY <1>1, <2>1, <2>2, <2>3, <3>1, GateFollows DEF k
  <2>5. traversed' = w[pc].volume
    <3>1. w[pc].volume \in Int /\ st.volume \in Int
      BY <2>3 DEF AnalyzerState
    <3>2. k = w[pc].volume - st.volume
      BY <2>3, <2>4
    <3>3. QED
      BY <2>1, <2>3, <3>1, <3>2
  <2>6. AnalyzedAs(w)'
    BY <1>3, <2>1, <2>2, <2>3, <2>4, <2>5 DEF AnalyzedAs
  <2>7. circuit' \in Seq(Instruction) /\ pc' <= Len(program') + 1
    BY <1>2, <2>1
  <2>8. QED
    BY <1>1, <2>6, <2>7 DEF LoaderInv
<1>8. CASE End
  <2>1. pc' = 0 /\ program' = program /\ circuit' = circuit
    BY <1>8 DEF End, Finish
  <2>2. AnalyzedAs(w)'
    BY <1>3, <2>1 DEF AnalyzedAs
  <2>3. circuit' \in Seq(Instruction) /\ pc' <= Len(program') + 1
    BY <1>2, <2>1
  <2>4. QED
    BY <1>1, <2>2, <2>3 DEF LoaderInv
<1>9. CASE UNCHANGED loaderVars
  <2>1. AnalyzedAs(w)'
    BY <1>3, <1>9 DEF AnalyzedAs, loaderVars, vars
  <2>2. circuit' \in Seq(Instruction) /\ pc' <= Len(program') + 1
    BY <1>2, <1>9 DEF loaderVars, vars
  <2>3. QED
    BY <1>1, <2>1, <2>2 DEF LoaderInv
<1>10. QED
  BY <1>4, <1>5, <1>6, <1>7, <1>8, <1>9 DEF LoaderNext

\* Every circuit that the analyzer accepts ends in the core with the columns and the
\* offset of the analyzer's map, one expansion per event and the work it counts, a
\* crz counted once of twice: for any number of qubits, any instructions of the
\* native set with resets among them, and any executions in between.
THEOREM AnalyzerFollows == LoaderSpec => []AnalyzerAgrees
<1>1. ASSUME LoaderInv PROVE AnalyzerAgrees
  <2> SUFFICES ASSUME pc = Len(program) + 1, ~Analyze(circuit).refused
               PROVE  LET st == Analyze(circuit) IN
                      /\ st.map = [cols |-> {amap[{c}] : c \in 0 .. m - 1}, offset |-> b]
                      /\ st.events = [i \in 1 .. m |-> i]
                      /\ st.volume <= traversed /\ traversed <= 2 * st.volume
                      /\ (\A j \in DOMAIN circuit : circuit[j].name # "crz") =>
                           traversed = st.volume
    BY DEF AnalyzerAgrees
  <2>1. PICK w : AnalyzedAs(w)
    BY <1>1 DEF LoaderInv
  <2>2. pc > 0 /\ pc - 1 = Len(program)
    <3>1. program \in Seq(Gate)
      BY <1>1 DEF LoaderInv, IInv, TypeOK
    <3>2. QED
      BY <3>1
  <2>3. /\ Agrees(w[Len(program)], amap, m, b) /\ traversed = w[Len(program)].volume
        /\ Linked(Analyze(circuit), w[Len(program)], NoCrz(circuit))
    BY <2>1, <2>2 DEF AnalyzedAs
  <2>4. QED
    BY <2>3 DEF Agrees, Linked, NoCrz, Units
<1>2. QED
  BY <1>1, LoaderInitInv, LoaderStepInv, PTL DEF LoaderSpec
=============================================================================
