--------------------------- MODULE ExecuteProofs ---------------------------
(***************************************************************************)
(* Theorems about ZXHExecute, for every number of qubits and workers, every *)
(* program and every way of constructing the object.                        *)
(***************************************************************************)
EXTENDS ZXHExecute, AlgebraProofs

-----------------------------------------------------------------------------
(***************************************************************************)
(* What waits.  The window collects diagonal gates outside a run of H and   *)
(* U3, the batch collects H and U3 inside one: each is empty while the      *)
(* other fills.                                                             *)
(***************************************************************************)
Apart ==
  /\ {"used", "cols", "b"} \subseteq DOMAIN am
  /\ cluster \in BOOLEAN
  /\ cluster => window = NoWindow
  /\ ~cluster => acc = NoBatch

\* A step of one gate.
LEMMA GateApart ==
  ASSUME Apart, NEW g, GateStep(g)
  PROVE  /\ Apart'
         /\ am'.used # am.used => window' = NoWindow /\ acc' = NoBatch
<1>1. CASE DoBarrier(g)
  BY <1>1 DEF DoBarrier, At, Advance, Apart, NoBatch
<1>2. CASE DoP(g)
  BY <1>2 DEF DoP, At, Advance, Apart, NoBatch
<1>3. CASE DoCP(g)
  BY <1>3 DEF DoCP, At, Advance, Apart, NoBatch
<1>4. CASE TransportX(g)
  BY <1>4 DEF TransportX, At, Advance, Apart, NoBatch
<1>5. CASE TransportCX(g)
  BY <1>5 DEF TransportCX, At, Advance, Apart, NoBatch
<1>6. ASSUME NEW q PROVE {"used", "cols", "b"} \subseteq DOMAIN SolveExpand(q).map
  BY DEF SolveExpand, Apart
<1>7. CASE ExplicitX(g)
  BY <1>6, <1>7 DEF ExplicitX, Fail, At, Advance, Apart
<1>8. CASE EnterCluster(g)
  BY <1>8 DEF EnterCluster, At, Apart
<1>9. CASE AbsorbU3(g)
  BY <1>9 DEF AbsorbU3, InCluster, Apart
<1>10. CASE EagerU3(g)
  BY <1>6, <1>10 DEF EagerU3, InCluster, Fail, Apart
<1>11. QED
  BY <1>1, <1>2, <1>3, <1>4, <1>5, <1>7, <1>8, <1>9, <1>10 DEF GateStep

LEMMA NextApart ==
  ASSUME Apart, [Next]_vars
  PROVE  /\ Apart'
         /\ am'.used # am.used => window' = NoWindow /\ acc' = NoBatch
<1>1. CASE vars' = vars
  BY <1>1 DEF vars, Apart, NoWindow, NoBatch
<1>2. CASE \E gs \in Calls : AddGates(gs)
  BY <1>2 DEF AddGates, Apart, NoWindow, NoBatch
<1>3. CASE ClearGates
  BY <1>3 DEF ClearGates, Apart, NoWindow, NoBatch
<1>4. CASE Execute
  BY <1>4 DEF Execute, Apart
<1>5. CASE \E i \in DOMAIN program : i = idx /\ GateStep(program[i])
  BY <1>5, GateApart
<1>6. CASE EndCluster
  BY <1>6 DEF EndCluster, Fail, Apart
<1>7. CASE Finish
  BY <1>7 DEF Finish, Apart
<1>8. QED
  BY <1>1, <1>2, <1>3, <1>4, <1>5, <1>6, <1>7 DEF Next, Step

\* Selectors and distances are never kept across a change of the block's width:
\* whatever expands the support - the prologue of execute(), an explicit X or CX,
\* an H or U3 outside the batch - has flushed window and batch.
THEOREM ExpandsSettled == Spec => NothingWaitsAcrossExpand
<1>1. Init => Apart
  BY DEF Init, Apart
<1>2. Apart /\ [Next]_vars => Apart'
  BY NextApart
<1>3. Apart /\ [Next]_vars =>
        [am'.used # am.used => window' = NoWindow /\ acc' = NoBatch]_vars
  BY NextApart
<1>4. QED
  BY <1>1, <1>2, <1>3, PTL DEF Spec, NothingWaitsAcrossExpand

-----------------------------------------------------------------------------
(***************************************************************************)
(* The global phase.                                                        *)
(***************************************************************************)
PhaseShape == DOMAIN phase = Workers /\ PhasesAgree

LEMMA RootIsWorker == Root \in Workers
BY DEF Root, Workers, Real

\* Z and Rz turn the phase by an angle that does not depend on the worker; no
\* other step but the resets changes it.
LEMMA NextPhase ==
  ASSUME PhaseShape, [Next]_vars
  PROVE  PhaseShape'
<1>1. CASE phase' = phase
  BY <1>1 DEF PhaseShape, PhasesAgree
<1>2. CASE phase' = [w \in Workers |-> 1]
  BY <1>2, RootIsWorker DEF PhaseShape, PhasesAgree
<1>3. ASSUME NEW g, DoP(g) PROVE PhaseShape'
  <2>1. phase' = [w \in Workers |->
          IF g.type \in {"Z", "Rz"} THEN HalfBackBy(Theta(g), phase[w]) ELSE phase[w]]
    BY <1>3 DEF DoP
  <2>2. \A w \in Workers : phase[w] = phase[Root]
    BY DEF PhaseShape, PhasesAgree
  <2>3. \A w \in Workers : phase'[w] = phase'[Root]
    BY <2>1, <2>2, RootIsWorker
  <2>4. QED
    BY <2>1, <2>3 DEF PhaseShape, PhasesAgree
<1>4. ASSUME NEW g, GateStep(g), ~DoP(g) PROVE phase' = phase
  BY <1>4 DEF GateStep, DoBarrier, DoCP, TransportX, TransportCX, ExplicitX,
              EnterCluster, AbsorbU3, EagerU3, Fail
<1>5. CASE Step
  <2>1. CASE \E i \in DOMAIN program : i = idx /\ GateStep(program[i])
    BY <1>1, <1>3, <1>4, <2>1
  <2>2. CASE EndCluster \/ Finish
    BY <1>1, <2>2 DEF EndCluster, Finish, Fail
  <2>3. QED
    BY <1>5, <2>1, <2>2 DEF Step
<1>6. CASE (\E gs \in Calls : AddGates(gs)) \/ vars' = vars
  BY <1>1, <1>6 DEF AddGates, vars
<1>7. CASE ClearGates \/ Execute
  BY <1>2, <1>7 DEF ClearGates, Execute
<1>8. QED
  BY <1>5, <1>6, <1>7 DEF Next

\* get_global_phase() of any rank is that of rank 0, whether the rank holds a
\* block of the state or none.
THEOREM OnePhase == Spec => []PhasesAgree
<1>1. Init => PhaseShape
  BY RootIsWorker DEF Init, PhaseShape, PhasesAgree
<1>2. PhaseShape /\ [Next]_vars => PhaseShape'
  BY NextPhase
<1>3. PhaseShape => PhasesAgree
  BY DEF PhaseShape
<1>4. QED
  BY <1>1, <1>2, <1>3, PTL DEF Spec

-----------------------------------------------------------------------------
(***************************************************************************)
(* The layout.                                                              *)
(***************************************************************************)
LEMMA OfTwo ==
  ASSUME NEW a \in Int, NEW c \in Int
  PROVE  /\ AtMost(a, c) = IF a <= c THEN a ELSE c
         /\ AtLeast(a, c) = IF a <= c THEN c ELSE a
<1>1. AtMost(a, c) \in {a, c} /\ \A y \in {a, c} : AtMost(a, c) <= y
  <2>1. \E x \in {a, c} : \A y \in {a, c} : x <= y
    OBVIOUS
  <2>2. QED
    BY <2>1 DEF AtMost, Min
<1>2. AtLeast(a, c) \in {a, c} /\ \A y \in {a, c} : AtLeast(a, c) >= y
  <2>1. \E x \in {a, c} : \A y \in {a, c} : x >= y
    OBVIOUS
  <2>2. QED
    BY <2>1 DEF AtLeast, Max
<1>3. QED
  BY <1>1, <1>2

\* choose_layout() divides the M bits of an address without remainder, whatever
\* the sizes asked for in the environment: no address is beyond the last block and
\* none in two of them.  There are at most as many blocks as processes, and a block
\* is cut into segments of at least the smallest size only.
THEOREM LayoutDivides ==
  ASSUME NEW m \in Nat
  PROVE  /\ {Layout(m).I, Layout(m).J, Layout(m).K} \subseteq Nat
         /\ Layout(m).I + Layout(m).J + Layout(m).K = m
         /\ Layout(m).K <= LogProcs
         /\ Layout(m).I <= AtLeast(MinI, MaxI)
         /\ Layout(m).J > 0 => Layout(m).I >= MinI
<1> USE LayoutAssumption
<1> DEFINE maxI == AtLeast(MinI, MaxI)
           K == IF m > MinI THEN AtMost(LogProcs, m - MinI) ELSE 0
           local == m - K
           wanted == AtMost(maxI, AtMost(local, AtLeast(MinI, TargetI)))
           split == IF local > MinJ THEN AtMost(wanted, local - MinJ) ELSE wanted
           I == CASE LogProcs = 0  -> AtMost(m, MinI)
                  [] local <= MinI -> local
                  [] split < MinI  -> AtMost(local, MinI)
                  [] OTHER         -> split
<1>1. Layout(m) = [I |-> I, J |-> local - I, K |-> K]
  BY DEF Layout
<1>2. maxI \in Nat /\ maxI >= MinI
  BY OfTwo
<1>3. K \in Nat /\ K <= LogProcs /\ (K > 0 => m > MinI /\ K <= m - MinI) /\ (m <= MinI => K = 0)
  BY OfTwo
<1>4. local \in Nat /\ local <= m /\ (m > MinI => local >= MinI)
  BY <1>3
<1> HIDE DEF maxI, K
<1>5. wanted \in Nat /\ wanted <= maxI /\ wanted <= local
  <2>1. AtLeast(MinI, TargetI) \in Nat
    BY OfTwo
  <2>2. AtMost(local, AtLeast(MinI, TargetI)) \in Nat /\ AtMost(local, AtLeast(MinI, TargetI)) <= local
    BY <1>4, <2>1, OfTwo
  <2>3. QED
    BY <1>2, <1>4, <2>2, OfTwo
<1> HIDE DEF wanted, local
<1>6. split \in Nat /\ split <= wanted
  BY <1>4, <1>5, OfTwo
<1> HIDE DEF split
<1>7. /\ I \in Nat /\ I <= local /\ I <= maxI
      /\ local > I => I >= MinI
  <2>1. CASE LogProcs = 0
    <3>1. local = m
      BY <1>3, <2>1 DEF local
    <3>2. AtMost(m, MinI) = IF m <= MinI THEN m ELSE MinI
      BY OfTwo
    <3>3. I = AtMost(m, MinI)
      BY <2>1, <3>1, <3>2
    <3>4. QED
      BY <1>2, <3>1, <3>2, <3>3
  <2>2. CASE LogProcs # 0 /\ local <= MinI
    BY <1>2, <1>4, <2>2, OfTwo
  <2>3. CASE LogProcs # 0 /\ ~(local <= MinI) /\ split < MinI
    <3>1. I = AtMost(local, MinI)
      BY <2>3
    <3>2. QED
      BY <1>2, <1>4, <2>3, <3>1, OfTwo
  <2>4. CASE LogProcs # 0 /\ ~(local <= MinI) /\ ~(split < MinI)
    BY <1>4, <1>5, <1>6, <1>2, <2>4, OfTwo
  <2>5. QED
    BY <2>1, <2>2, <2>3, <2>4
<1> HIDE DEF I
<1>8. local + K = m
  BY <1>3 DEF local
<1>9. Layout(m).I = I /\ Layout(m).J = local - I /\ Layout(m).K = K
  BY <1>1
<1>10. QED
  BY <1>3, <1>4, <1>7, <1>8, <1>9 DEF maxI

\* get_state() finds every address that is in use, in the active part of the block
\* of one worker, and no two in one place: the blocks as expand() has grown them
\* are the state, whatever the layout.
THEOREM BlocksHoldState ==
  ASSUME NEW m \in Nat, NEW used \in 0 .. m, NEW x \in Real(used)
  PROVE  LET L == Layout(m)
             h == Home(L, used, x)
         IN /\ h.w \in Workers
            /\ LocalBits(L, used, h.w) \in 0 .. L.I + L.J
            /\ h.at \in Real(LocalBits(L, used, h.w))
            /\ \A y \in Real(used) : Home(L, used, y) = h => y = x
<1> DEFINE L == Layout(m)
           bits == CASE used <= L.I -> used
                     [] used > L.I /\ used <= L.I + L.K -> L.I
                     [] OTHER -> used - L.K
           h == Home(L, used, x)
<1>1. /\ L.I \in Nat /\ L.J \in Nat /\ L.K \in Nat
      /\ L.I + L.J + L.K = m /\ L.K <= LogProcs /\ LogProcs \in Nat
  BY LayoutDivides, LayoutAssumption
<1> HIDE DEF L
<1>2. \A y : Home(L, used, y) = [w |-> HigherBits(y, bits), at |-> LowerBits(y, bits)]
  BY DEF Home
<1>3. /\ bits \in Nat /\ bits <= used /\ bits <= L.I + L.J /\ used - bits <= L.K
  BY <1>1
<1>4. x \subseteq 0 .. used - 1 /\ used \in Nat
  BY DEF Real
<1>5. h.w = HigherBits(x, bits) /\ h.at = LowerBits(x, bits)
  BY <1>2
<1>6. LowerBits(x, bits) \in Real(bits)
  BY <1>3, <1>4 DEF LowerBits, Real
<1>7. HigherBits(x, bits) \subseteq 0 .. used - bits - 1
  BY <1>3, <1>4 DEF HigherBits
<1>8. h.w \in Workers
  <2>1. 0 .. used - bits - 1 \subseteq 0 .. LogProcs - 1
    BY <1>1, <1>3
  <2>2. QED
    BY <1>5, <1>7, <2>1 DEF Workers, Real
<1>9. LocalBits(L, used, h.w) = bits
  <2>1. CASE used <= L.I
    <3>1. bits = used /\ HigherBits(x, bits) = {}
      BY <1>1, <1>7, <2>1
    <3>2. QED
      BY <1>1, <1>5, <2>1, <3>1 DEF LocalBits, Root
  <2>2. CASE used > L.I /\ used <= L.I + L.K
    BY <1>1, <1>5, <1>7, <2>2 DEF LocalBits
  <2>3. CASE used > L.I + L.K
    BY <1>1, <2>3 DEF LocalBits
  <2>4. QED
    BY <1>1, <1>4, <2>1, <2>2, <2>3
<1>10. ASSUME NEW y \in Real(used), Home(L, used, y) = h PROVE y = x
  <2>1. LowerBits(y, bits) = LowerBits(x, bits) /\ HigherBits(y, bits) = HigherBits(x, bits)
    BY <1>2, <1>10
  <2>2. y \subseteq 0 .. used - 1
    BY DEF Real
  <2> HIDE DEF bits
  <2>3. ASSUME NEW i \in 0 .. used - 1 PROVE i \in x <=> i \in y
    <3>1. CASE i < bits
      BY <1>3, <2>1, <2>3, <3>1 DEF LowerBits
    <3>2. CASE i >= bits
      <4>1. \A z \in {x, y} : i \in z <=> i - bits \in HigherBits(z, bits)
        BY <1>3, <1>4, <2>2, <2>3, <3>2 DEF HigherBits
      <4>2. QED
        BY <2>1, <4>1
    <3>3. QED
      BY <1>3, <2>3, <3>1, <3>2
  <2>4. QED
    BY <1>4, <2>2, <2>3
<1>11. QED
  BY <1>3, <1>5, <1>6, <1>8, <1>9, <1>10 DEF L

-----------------------------------------------------------------------------
(***************************************************************************)
(* Capacity.  calc_mem() is a run of matrices over the program; the loop    *)
(* follows it, so it never needs a column that calc_mem() did not count.    *)
(***************************************************************************)
SizedBy(dx, mat, g) ==
  IF g.type = "CX" /\ ~dx THEN RowXorMat(mat, g.q, g.cq)
  ELSE IF (IsU3(g) \/ (dx /\ g.type \in {"X", "CX"})) /\ ~Solve(mat, {g.q}).ok
  THEN AppendCol(mat, {g.q})
  ELSE mat

Runs(dx, gs, run) ==
  /\ run[0] = EmptyMat
  /\ \A i \in 1 .. Len(gs) : run[i] = SizedBy(dx, run[i - 1], gs[i])

\* The columns of mat are independent.
Regular(mat) == Independent(mat, Cols(mat)) /\ Cols(mat) \in Nat

LEMMA IndependentCols ==
  ASSUME NEW k \in Nat, NEW mat, Independent(mat, k)
  PROVE  Cols(mat) = k /\ Regular(mat)
<1>1. mat \in Matrix(k)
  BY DEF Independent
<1>2. Cols(mat) = k
  BY <1>1, MatrixCols DEF Matrix
<1>3. QED
  BY <1>2 DEF Regular

\* Solve finds an address, or the column may be appended.
LEMMA SolveOrAppend ==
  ASSUME NEW mat, Regular(mat), NEW q \in Qubits
  PROVE  /\ Solve(mat, {q}).x \in Real(Cols(mat))
         /\ Solve(mat, {q}).ok => Mul(mat, Solve(mat, {q}).x) = {q}
         /\ ~Solve(mat, {q}).ok =>
              /\ Regular(AppendCol(mat, {q}))
              /\ Cols(AppendCol(mat, {q})) = Cols(mat) + 1
              /\ Cols(mat) < N
<1> DEFINE k == Cols(mat)
           s == Solve(mat, {q})
<1>1. k \in Nat /\ mat \in Matrix(k) /\ Independent(mat, k)
  BY DEF Regular, Independent
<1>2. {q} \in SUBSET Rows
  BY DEF Qubits
<1>3. /\ s.x \in Real(k)
      /\ IF s.ok THEN Mul(mat, s.x) = {q} ELSE \A x \in Real(k) : Mul(mat, x) # {q}
  <2> HIDE DEF k
  <2>1. QED
    BY <1>1, <1>2, SolveIsExact
<1> HIDE DEF k, s
<1>4. ASSUME ~s.ok
      PROVE  /\ Regular(AppendCol(mat, {q}))
             /\ Cols(AppendCol(mat, {q})) = k + 1
             /\ k < N
  <2>1. \A x \in Real(k) : Mul(mat, x) # {q}
    BY <1>3, <1>4
  <2>2. Independent(AppendCol(mat, {q}), k + 1)
    BY <1>1, <1>2, <2>1, IndependentAppend
  <2>3. k + 1 \in Nat
    BY <1>1
  <2>4. Cols(AppendCol(mat, {q})) = k + 1 /\ Regular(AppendCol(mat, {q}))
    BY <2>2, <2>3, IndependentCols
  <2>5. k + 1 <= N
    BY <2>2, <2>3, IndependentWidth
  <2>6. QED
    BY <1>1, <2>4, <2>5, RowsAssumption
<1>5. QED
  BY <1>3, <1>4 DEF k, s

LEMMA SizedRegular ==
  ASSUME NEW dx, NEW mat, Regular(mat), NEW g \in Gate
  PROVE  Regular(SizedBy(dx, mat, g)) /\ Cols(mat) <= Cols(SizedBy(dx, mat, g))
<1>1. Cols(mat) \in Nat /\ Independent(mat, Cols(mat))
  BY DEF Regular
<1>2. CASE g.type = "CX" /\ ~dx
  <2>1. g.q \in Rows /\ g.cq # g.q
    BY <1>2, CallsAssumption DEF Qubits
  <2>2. Independent(RowXorMat(mat, g.q, g.cq), Cols(mat))
    BY <1>1, <2>1, IndependentRowXor
  <2>3. Cols(RowXorMat(mat, g.q, g.cq)) = Cols(mat) /\ Regular(RowXorMat(mat, g.q, g.cq))
    BY <1>1, <2>2, IndependentCols
  <2>4. SizedBy(dx, mat, g) = RowXorMat(mat, g.q, g.cq)
    BY <1>2 DEF SizedBy
  <2>5. QED
    BY <1>1, <2>3, <2>4
<1>3. CASE ~(g.type = "CX" /\ ~dx) /\ ~Solve(mat, {g.q}).ok
  <2>1. Regular(AppendCol(mat, {g.q})) /\ Cols(AppendCol(mat, {g.q})) = Cols(mat) + 1
    BY <1>3, SolveOrAppend, CallsAssumption
  <2>2. SizedBy(dx, mat, g) \in {mat, AppendCol(mat, {g.q})}
    BY <1>3 DEF SizedBy
  <2>3. QED
    BY <1>1, <2>1, <2>2
<1>4. CASE ~(g.type = "CX" /\ ~dx) /\ Solve(mat, {g.q}).ok
  <2>1. SizedBy(dx, mat, g) = mat
    BY <1>4 DEF SizedBy
  <2>2. QED
    BY <1>1, <2>1
<1>5. QED
  BY <1>2, <1>3, <1>4

LEMMA RunRegular ==
  ASSUME NEW dx, NEW gs \in Seq(Gate), NEW run, Runs(dx, gs, run)
  PROVE  /\ \A i \in 0 .. Len(gs) : Regular(run[i])
         /\ \A i \in 0 .. Len(gs) : Cols(run[i]) <= Cols(run[Len(gs)])
<1> DEFINE P == {n \in Nat : n <= Len(gs) =>
                   /\ Regular(run[n])
                   /\ \A i \in 0 .. n : Cols(run[i]) \in Nat /\ Cols(run[i]) <= Cols(run[n])
                   /\ \A i \in 0 .. n : Regular(run[i])}
<1>1. run[0] = EmptyMat /\ Regular(EmptyMat)
  BY EmptyIndependent, IndependentCols DEF Runs
<1>2. \A i \in 1 .. Len(gs) : run[i] = SizedBy(dx, run[i - 1], gs[i]) /\ gs[i] \in Gate
  BY DEF Runs
<1>3. 0 \in P
  <2>1. \A i \in 0 .. 0 : i = 0
    OBVIOUS
  <2>2. Cols(EmptyMat) \in Nat
    BY <1>1 DEF Regular
  <2>3. QED
    BY <1>1, <2>1, <2>2
<1>4. ASSUME NEW n \in Nat, n \in P PROVE n + 1 \in P
  <2> DEFINE Up(m) == /\ Regular(run[m])
                      /\ \A i \in 0 .. m : Cols(run[i]) \in Nat /\ Cols(run[i]) <= Cols(run[m])
                      /\ \A i \in 0 .. m : Regular(run[i])
  <2>1. ASSUME n + 1 <= Len(gs) PROVE Up(n + 1)
    <3>1. n + 1 \in 1 .. Len(gs) /\ n + 1 - 1 = n /\ n <= Len(gs)
      BY <2>1
    <3>2. /\ Regular(run[n])
          /\ \A i \in 0 .. n : Cols(run[i]) \in Nat /\ Cols(run[i]) <= Cols(run[n])
          /\ \A i \in 0 .. n : Regular(run[i])
      BY <1>4, <3>1
    <3>3. run[n + 1] = SizedBy(dx, run[n], gs[n + 1]) /\ gs[n + 1] \in Gate
      BY <1>2, <3>1
    <3>4. Regular(run[n + 1]) /\ Cols(run[n]) <= Cols(run[n + 1])
      BY <3>2, <3>3, SizedRegular
    <3>5. Cols(run[n + 1]) \in Nat /\ Cols(run[n]) \in Nat
      BY <3>2, <3>4 DEF Regular
    <3>6. \A i \in 0 .. n + 1 : i \in 0 .. n \/ i = n + 1
      OBVIOUS
    <3>7. ASSUME NEW i \in 0 .. n PROVE Cols(run[i]) <= Cols(run[n + 1])
      <4>1. Cols(run[i]) \in Nat /\ Cols(run[i]) <= Cols(run[n])
        BY <3>2
      <4>2. QED
        BY <3>4, <3>5, <4>1
    <3>8. QED
      BY <3>2, <3>4, <3>5, <3>6, <3>7
  <2>2. QED
    BY <2>1
<1> HIDE DEF P
<1>5. Len(gs) \in P
  BY <1>3, <1>4, NaturalInduction
<1>6. QED
  BY <1>5 DEF P

\* calc_mem() follows such a run and asks for the columns of its last matrix.
LEMMA MemRun ==
  ASSUME NEW gs \in Seq(Gate)
  PROVE  \E run : Runs(DisableX, gs, run) /\ CalcMem(gs) = Cols(run[Len(gs)])
<1> DEFINE n == Len(gs)
           V == {mat \in UNION {Matrix(k) : k \in Nat} : Regular(mat)}
           Sizing == [p \in (1 .. n) \X V |-> MemAfter(p[2], gs[p[1]])]
           Eq(g) == g = [T \in SUBSET (1 .. n) |->
                           IF T = {} THEN EmptyMat
                           ELSE MemAfter(g[T \ {Max(T)}], gs[Max(T)])]
           iter == CHOOSE g : Eq(g)
<1>1. n \in Nat /\ \A j \in 1 .. n : gs[j] \in Gate
  OBVIOUS
<1>2. \A mat, g : MemAfter(mat, g) = SizedBy(DisableX, mat, g)
  BY DEF MemAfter, SizedBy
<1>3. \A mat : Regular(mat) => mat \in V
  BY DEF Regular, Independent
<1>4. EmptyMat \in V
  BY <1>3, EmptyIndependent, IndependentCols
<1>5. Sizing \in [(1 .. n) \X V -> V]
  <2>1. ASSUME NEW p \in (1 .. n) \X V PROVE MemAfter(p[2], gs[p[1]]) \in V
    <3>1. Regular(p[2]) /\ gs[p[1]] \in Gate
      BY <1>1
    <3>2. QED
      BY <1>2, <1>3, <3>1, SizedRegular
  <2> HIDE DEF V
  <2>2. QED
    BY <2>1
<1> HIDE DEF V
<1>6. \E g : Eq(g)
  <2>0. PICK g : FoldsFirst(g, n, V, EmptyMat, Sizing)
    <3> HIDE DEF n, Sizing
    <3>1. QED
      BY <1>1, <1>4, <1>5, SequenceFoldExists
  <2>1. /\ g \in [SUBSET (1 .. n) -> V]
        /\ g = [T \in SUBSET (1 .. n) |->
                  IF T = {} THEN EmptyMat ELSE Sizing[<<Max(T), g[T \ {Max(T)}]>>]]
    BY <2>0 DEF FoldsFirst
  <2>2. ASSUME NEW T \in SUBSET (1 .. n), T # {}
        PROVE  Sizing[<<Max(T), g[T \ {Max(T)}]>>] = MemAfter(g[T \ {Max(T)}], gs[Max(T)])
    <3>1. Max(T) \in 1 .. n
      BY <1>1, <2>2, LargestIndex
    <3>2. T \ {Max(T)} \in SUBSET (1 .. n)
      OBVIOUS
    <3>3. g[T \ {Max(T)}] \in V
      BY <2>1, <3>2
    <3>4. QED
      BY <3>1, <3>3 DEF Sizing
  <2>3. Eq(g)
    BY <2>1, <2>2
  <2>4. QED
    BY <2>3
<1>7. Eq(iter)
  BY <1>6
<1>8. Seqs!FoldLeft(MemAfter, EmptyMat, gs) = iter[1 .. n]
  <2>1. DOMAIN gs = 1 .. n
    OBVIOUS
  <2>2. QED
    BY <2>1 DEF Seqs!FoldLeft, Seqs!MapThenFoldSet, Seqs!Max, Max
<1> HIDE DEF iter
<1>9. iter[{}] = EmptyMat
  BY <1>7
<1>10. ASSUME NEW i \in 0 .. n - 1
       PROVE  iter[1 .. i + 1] = SizedBy(DisableX, iter[1 .. i], gs[i + 1])
  <2>1. Max(1 .. i + 1) = i + 1 /\ (1 .. i + 1) \ {i + 1} = 1 .. i
    BY <1>1, PrefixSteps
  <2>2. 1 .. i + 1 \in SUBSET (1 .. n) /\ 1 .. i + 1 # {}
    BY <1>1, PrefixSteps
  <2>3. iter[1 .. i + 1] = MemAfter(iter[1 .. i], gs[i + 1])
    BY <1>7, <2>1, <2>2
  <2>4. QED
    BY <1>2, <2>3
<1> DEFINE run == [i \in 0 .. n |-> iter[1 .. i]]
<1>11. run[0] = EmptyMat
  BY <1>9
<1>12. ASSUME NEW i \in 1 .. n PROVE run[i] = SizedBy(DisableX, run[i - 1], gs[i])
  <2>1. i - 1 \in 0 .. n - 1 /\ i - 1 + 1 = i /\ i - 1 \in 0 .. n /\ i \in 0 .. n
    OBVIOUS
  <2>2. iter[1 .. (i - 1) + 1] = SizedBy(DisableX, iter[1 .. i - 1], gs[(i - 1) + 1])
    BY <1>10, <2>1
  <2>3. QED
    BY <2>1, <2>2
<1>13. run[n] = iter[1 .. n]
  OBVIOUS
<1>14. Runs(DisableX, gs, run)
  <2> HIDE DEF run
  <2>1. QED
    BY <1>11, <1>12 DEF Runs
<1>15. QED
  BY <1>8, <1>13, <1>14 DEF CalcMem

\* The loop has the matrix that the sizing pass had at this gate; with
\* eager_expand_all it has every column from the start.
Sized ==
  IF Eager THEN am.used = N /\ M = N
  ELSE \E run : /\ Runs(DisableX, program, run)
                /\ M = Cols(run[Len(program)])
                /\ am.cols = run[idx - 1]

Fitting ==
  /\ mode \in Modes
  /\ program \in Seq(Gate)
  /\ idx \in 0 .. Len(program) + 1
  /\ M \in 0 .. N
  /\ Regular(am.cols)
  /\ am.used = Cols(am.cols)
  /\ am.used <= M
  /\ idx > 0 => Sized

\* What waits in the batch is still local.
Waiting ==
  /\ Apart
  /\ DOMAIN acc = Qubits
  /\ \A q \in Qubits : acc[q] # Identity => Batchable(q)
  /\ cluster => idx > 0

CapacityInv == Fitting /\ Waiting

LEMMA EmptyBatch ==
  ASSUME acc = NoBatch
  PROVE  /\ DOMAIN acc = Qubits
         /\ \A q \in Qubits : acc[q] = Identity
BY DEF NoBatch

\* At a gate that may expand there is a column left for it.
LEMMA Room ==
  ASSUME Fitting, idx \in 1 .. Len(program), NEW g, g = program[idx],
         IsU3(g) \/ (DisableX /\ g.type \in {"X", "CX"})
  PROVE  /\ g \in Gate
         /\ ~CannotExpand(g.q)
         /\ SolveExpand(g.q).map.cols = SizedBy(DisableX, am.cols, g)
         /\ SolveExpand(g.q).map.used = Cols(SizedBy(DisableX, am.cols, g))
         /\ SolveExpand(g.q).map.b = am.b
         /\ SolveExpand(g.q).delta \in Real(SolveExpand(g.q).map.used)
<1> DEFINE new == AppendCol(am.cols, {g.q})
           k == Cols(am.cols)
           d == Solve(am.cols, {g.q})
<1>1. g \in Gate /\ g.q \in Qubits
  BY CallsAssumption DEF Fitting
<1>2. Regular(am.cols) /\ k \in Nat /\ am.used = k /\ M \in Nat
  BY RowsAssumption DEF Fitting, Regular
<1>3. /\ d.x \in Real(k)
      /\ ~d.ok => Regular(new) /\ Cols(new) = k + 1 /\ k < N
  BY <1>1, <1>2, SolveOrAppend
<1>4. SizedBy(DisableX, am.cols, g) = IF d.ok THEN am.cols ELSE new
  BY DEF SizedBy, IsU3
<1>5. ~d.ok => am.used < M
  <2>1. CASE Eager
    BY <1>2, <1>3, <2>1 DEF Fitting, Sized
  <2>2. CASE ~Eager
    <3>1. PICK run : /\ Runs(DisableX, program, run)
                     /\ M = Cols(run[Len(program)])
                     /\ am.cols = run[idx - 1]
      BY <2>2 DEF Fitting, Sized
    <3>2. run[idx] = SizedBy(DisableX, run[idx - 1], program[idx])
      BY <3>1 DEF Runs
    <3>3. program \in Seq(Gate) /\ idx \in 0 .. Len(program)
      BY DEF Fitting
    <3>4. Cols(run[idx]) <= Cols(run[Len(program)])
      BY <3>1, <3>3, RunRegular
    <3>5. ~d.ok => Cols(run[idx]) = k + 1
      BY <1>3, <1>4, <3>1, <3>2
    <3>6. QED
      BY <1>2, <3>1, <3>4, <3>5
  <2>3. QED
    BY <2>1, <2>2
<1>6. CASE d.ok
  <2>1. SolveExpand(g.q) = [map |-> am, delta |-> d.x] /\ ~CannotExpand(g.q)
    BY <1>6 DEF SolveExpand, CannotExpand, Delta
  <2>2. QED
    BY <1>1, <1>2, <1>3, <1>4, <1>6, <2>1
<1>7. CASE ~d.ok
  <2>1. SolveExpand(g.q) =
          [map |-> [used |-> am.used + 1, cols |-> new, b |-> am.b], delta |-> {k}]
    BY <1>7 DEF SolveExpand, Delta
  <2>2. ~CannotExpand(g.q)
    BY <1>2, <1>5, <1>7 DEF CannotExpand
  <2>3. {k} \in Real(k + 1)
    BY <1>2 DEF Real
  <2>4. QED
    BY <1>1, <1>2, <1>3, <1>4, <1>7, <2>1, <2>2, <2>3
<1>8. QED
  BY <1>6, <1>7

\* A gate is handled: the loop and the sizing pass have taken the same step.
LEMMA Handled ==
  ASSUME Fitting, idx \in 1 .. Len(program), NEW g, g = program[idx],
         UNCHANGED <<mode, program, M>>, idx' = idx + 1,
         am'.cols = SizedBy(DisableX, am.cols, g), am'.used = Cols(am'.cols)
  PROVE  Fitting'
<1>1. g \in Gate /\ Regular(am.cols)
  BY DEF Fitting
<1>2. Regular(am'.cols) /\ Cols(am.cols) <= Cols(am'.cols)
  BY <1>1, SizedRegular
<1>3. mode' \in Modes /\ program' \in Seq(Gate) /\ idx' \in 0 .. Len(program') + 1 /\ idx' - 1 = idx
  BY DEF Fitting
<1>4. Sized' /\ am'.used <= M
  <2>1. CASE Eager
    <3>1. Cols(am.cols) = N /\ M = N
      BY <2>1 DEF Fitting, Sized
    <3>2. Cols(am'.cols) <= N /\ Cols(am'.cols) \in Nat
      <4>1. PICK mat : mat = am'.cols
        OBVIOUS
      <4>2. Independent(mat, Cols(mat)) /\ Cols(mat) \in Nat
        BY <1>2, <4>1 DEF Regular
      <4>3. Cols(mat) <= N
        BY <4>2, IndependentWidth
      <4>4. QED
        BY <4>1, <4>2, <4>3
    <3>3. Cols(am'.cols) = N
      BY <1>2, <3>1, <3>2, RowsAssumption
    <3>4. Eager'
      BY <2>1 DEF Eager
    <3>5. QED
      BY <3>1, <3>3, <3>4, RowsAssumption DEF Sized
  <2>2. CASE ~Eager
    <3>1. PICK run : /\ Runs(DisableX, program, run)
                     /\ M = Cols(run[Len(program)])
                     /\ am.cols = run[idx - 1]
      BY <2>2 DEF Fitting, Sized
    <3>2. run[idx] = am'.cols
      BY <3>1 DEF Runs
    <3>6. Cols(run[idx]) <= Cols(run[Len(program)])
      BY <3>1, RunRegular DEF Fitting
    <3>3. ~Eager' /\ DisableX' = DisableX
      BY <2>2 DEF Eager, DisableX
    <3>4. Runs(DisableX', program', run) /\ M' = Cols(run[Len(program')]) /\ am'.cols = run[idx' - 1]
      BY <1>3, <3>1, <3>2, <3>3
    <3>5. QED
      BY <3>1, <3>2, <3>3, <3>4, <3>6 DEF Sized
  <2>3. QED
    BY <2>1, <2>2
<1>5. QED
  BY <1>2, <1>3, <1>4 DEF Fitting

LEMMA FittingStays ==
  ASSUME Fitting, UNCHANGED <<mode, program, M, am, idx>>
  PROVE  Fitting'
<1>1. Sized' = Sized
  BY DEF Sized, Eager, DisableX
<1>2. QED
  BY <1>1 DEF Fitting

\* A gate that the sizing pass skips.
LEMMA SkippedGate ==
  ASSUME Fitting, NEW g, g = program[idx], idx \in 1 .. Len(program),
         UNCHANGED <<mode, program, M>>, idx' = idx + 1,
         am'.used = am.used, am'.cols = am.cols,
         g.type \notin {"H", "U3", "CX", "X"} \/ (g.type = "X" /\ ~DisableX)
  PROVE  Fitting'
<1>1. am'.cols = SizedBy(DisableX, am.cols, g)
  BY DEF SizedBy, IsU3
<1>2. am'.used = Cols(am'.cols)
  BY DEF Fitting
<1>3. QED
  BY <1>1, <1>2, Handled

\* With no neighbour on another worker there is no bit for one.
LEMMA OneWorker ==
  ASSUME M \in Nat, LogProcs = 0, NEW d \in SUBSET Nat
  PROVE  WorkerOf(SL, d) = {}
<1>1. {SL.I, SL.J, SL.K} \subseteq Nat /\ SL.K <= 0
  BY LayoutDivides DEF SL
<1>2. SL.K = 0 /\ SL.I + SL.J \in Nat
  BY <1>1
<1>3. HigherBits(d, SL.I + SL.J) \subseteq Nat
  BY <1>2 DEF HigherBits
<1>4. QED
  BY <1>2, <1>3 DEF WorkerOf, LowerBits

LEMMA NothingWaits ==
  ASSUME Apart', acc' = NoBatch, ~cluster' \/ idx' > 0
  PROVE  Waiting'
<1>1. DOMAIN acc' = Qubits /\ \A q \in Qubits : acc'[q] = Identity
  BY DEF NoBatch
<1>2. QED
  BY <1>1 DEF Waiting

\* A step of one gate.
LEMMA GateCapacity ==
  ASSUME CapacityInv, idx \in 1 .. Len(program), NEW g, g = program[idx], GateStep(g),
         mode' = mode
  PROVE  CapacityInv' /\ (failed' # failed => DisableX /\ LogProcs # 0)
<1> USE DEF CapacityInv
<1>0. /\ Apart /\ Apart'
      /\ idx > 0 /\ idx + 1 > 0
      /\ ~cluster => acc = NoBatch
      /\ ~BatchAborts
  <2>1. Apart
    BY DEF Waiting
  <2>2. Apart'
    BY <2>1, GateApart
  <2>3. QED
    BY <2>1, <2>2 DEF Apart, Waiting, BatchAborts
<1>1. CASE DoBarrier(g) \/ DoP(g) \/ DoCP(g)
  <2>1. /\ ~cluster /\ ~cluster' /\ failed' = failed /\ acc' = acc
        /\ UNCHANGED <<program, M>> /\ idx' = idx + 1 /\ am' = am
        /\ g.type \notin {"H", "U3", "CX", "X"}
    BY <1>1 DEF DoBarrier, DoP, DoCP, At, Advance
  <2>2. Fitting'
    BY <2>1, SkippedGate
  <2>3. Waiting'
    BY <1>0, <2>1, NothingWaits
  <2>4. QED
    BY <2>1, <2>2, <2>3
<1>2. CASE TransportX(g)
  <2>1. /\ ~cluster /\ ~cluster' /\ failed' = failed /\ acc' = acc
        /\ UNCHANGED <<program, M>> /\ idx' = idx + 1
        /\ am'.used = am.used /\ am'.cols = am.cols
        /\ g.type = "X" /\ ~DisableX
    BY <1>2 DEF TransportX, At, Advance
  <2>2. Fitting'
    BY <2>1, SkippedGate
  <2>3. Waiting'
    BY <1>0, <2>1, NothingWaits
  <2>4. QED
    BY <2>1, <2>2, <2>3
<1>3. CASE TransportCX(g)
  <2>1. /\ ~cluster /\ ~cluster' /\ failed' = failed /\ acc' = acc
        /\ UNCHANGED <<program, M>> /\ idx' = idx + 1
        /\ am'.used = am.used /\ am'.cols = RowXorMat(am.cols, g.q, g.cq)
        /\ g.type = "CX" /\ ~DisableX
    BY <1>3 DEF TransportCX, At, Advance
  <2>2. am'.cols = SizedBy(DisableX, am.cols, g)
    BY <2>1 DEF SizedBy
  <2>3. am'.used = Cols(am'.cols)
    BY <2>1 DEF Fitting, Cols, RowXorMat
  <2>4. Fitting'
    BY <2>1, <2>2, <2>3, Handled
  <2>5. Waiting'
    BY <1>0, <2>1, NothingWaits
  <2>6. QED
    BY <2>1, <2>4, <2>5
<1>4. CASE ExplicitX(g)
  <2> DEFINE r == SolveExpand(g.q)
  <2>1. /\ ~cluster /\ DisableX /\ g.type \in {"X", "CX"}
        /\ CannotExpand(g.q) \/ WorkerOf(SL, r.delta) # {} => Fail
        /\ ~(CannotExpand(g.q) \/ WorkerOf(SL, r.delta) # {}) => Advance /\ am' = r.map
    BY <1>4 DEF ExplicitX, At
  <2>2. /\ g \in Gate /\ ~CannotExpand(g.q)
        /\ r.map.cols = SizedBy(DisableX, am.cols, g)
        /\ r.map.used = Cols(SizedBy(DisableX, am.cols, g))
    BY <2>1, Room
  <2>3. CASE WorkerOf(SL, r.delta) = {}
    <3>1. Advance /\ am' = r.map
      BY <2>1, <2>2, <2>3
    <3>2. Fitting'
      BY <2>2, <3>1, Handled DEF Advance
    <3>3. Waiting'
      BY <1>0, <2>1, <3>1, NothingWaits DEF Advance
    <3>4. QED
      BY <3>1, <3>2, <3>3 DEF Advance
  <2>4. CASE WorkerOf(SL, r.delta) # {}
    <3>1. Fail
      BY <2>1, <2>4
    <3>2. Fitting'
      BY <3>1, FittingStays DEF Fail
    <3>3. Waiting'
      BY <1>0, <2>1, <3>1, NothingWaits DEF Fail
    <3>4. M \in Nat /\ r.map.used \in Nat
      BY <2>2, SizedRegular DEF Fitting, Regular
    <3>5. r.delta \in SUBSET Nat
      <4>1. 0 .. r.map.used - 1 \subseteq Nat
        BY <3>4
      <4>2. r.delta \in Real(r.map.used)
        BY <2>1, Room
      <4>3. QED
        BY <4>1, <4>2 DEF Real
    <3>6. LogProcs # 0
      BY <2>4, <3>4, <3>5, OneWorker
    <3>7. QED
      BY <2>1, <3>2, <3>3, <3>6
  <2>5. QED
    BY <2>3, <2>4
<1>5. CASE EnterCluster(g)
  <2>1. /\ ~cluster /\ failed' = failed /\ acc' = acc
        /\ UNCHANGED <<program, M, am, idx>>
    BY <1>5 DEF EnterCluster, At
  <2>2. Fitting'
    BY <2>1, FittingStays
  <2>3. Waiting'
    BY <1>0, <2>1, NothingWaits
  <2>4. QED
    BY <2>1, <2>2, <2>3
<1>6. CASE AbsorbU3(g)
  <2>1. /\ IsU3(g) /\ Batchable(g.q) /\ failed' = failed /\ cluster' = cluster
        /\ acc' = [acc EXCEPT ![g.q] = LeftMultiply(MatrixOf(g), @)]
        /\ UNCHANGED <<program, M, am>> /\ idx' = idx + 1
    BY <1>6 DEF AbsorbU3, InCluster
  <2>2. am'.cols = SizedBy(DisableX, am.cols, g)
    BY <2>1 DEF Batchable, Delta, SizedBy, IsU3
  <2>3. am'.used = Cols(am'.cols)
    BY <2>1 DEF Fitting
  <2>4. Fitting'
    BY <2>1, <2>2, <2>3, Handled
  <2>5. \A q : Batchable(q)' = Batchable(q)
    BY <2>1 DEF Batchable, Delta, SL
  <2>6. DOMAIN acc' = Qubits
    BY <2>1 DEF Waiting
  <2>7. ASSUME NEW q \in Qubits, acc'[q] # Identity PROVE Batchable(q)
    <3>1. CASE q = g.q
      BY <2>1, <3>1
    <3>2. CASE q # g.q
      BY <2>1, <2>7, <3>2 DEF Waiting
    <3>3. QED
      BY <3>1, <3>2
  <2>8. Waiting'
    BY <1>0, <2>1, <2>5, <2>6, <2>7 DEF Waiting
  <2>9. QED
    BY <2>1, <2>4, <2>8
<1>7. CASE EagerU3(g)
  <2> DEFINE r == SolveExpand(g.q)
  <2>1. /\ IsU3(g)
        /\ BatchAborts \/ CannotExpand(g.q) => Fail
        /\ ~(BatchAborts \/ CannotExpand(g.q)) =>
             /\ am' = r.map /\ acc' = NoBatch /\ idx' = idx + 1
             /\ UNCHANGED <<program, M, failed>>
    BY <1>7 DEF EagerU3, InCluster
  <2>2. /\ ~CannotExpand(g.q)
        /\ r.map.cols = SizedBy(DisableX, am.cols, g)
        /\ r.map.used = Cols(SizedBy(DisableX, am.cols, g))
    BY <2>1, Room
  <2>3. /\ am' = r.map /\ acc' = NoBatch /\ idx' = idx + 1
        /\ UNCHANGED <<program, M, failed>>
    BY <1>0, <2>1, <2>2
  <2>4. Fitting'
    BY <2>2, <2>3, Handled
  <2>5. Waiting'
    BY <1>0, <2>3, NothingWaits
  <2>6. QED
    BY <2>3, <2>4, <2>5
<1>8. QED
  BY <1>1, <1>2, <1>3, <1>4, <1>5, <1>6, <1>7 DEF GateStep

\* Execute and the steps that are no gate.
LEMMA ExecuteCapacity ==
  ASSUME CapacityInv, Execute, mode' = mode
  PROVE  CapacityInv' /\ failed' = failed
<1>1. /\ idx' = 1 /\ program' = program /\ cluster' = cluster
      /\ M' = IF Eager THEN N ELSE CalcMem(program)
      /\ am' = [used |-> IF Eager THEN N ELSE 0,
                cols |-> IF Eager THEN [c \in 0 .. N - 1 |-> {c}] ELSE EmptyMat,
                b |-> {}]
      /\ acc' = NoBatch /\ window' = NoWindow
  BY DEF Execute, CapacityInv
<1>2. am'.used = Cols(am'.cols) /\ Regular(am'.cols) /\ (Eager => am'.used = N)
  <2>1. CASE Eager
    <3>1. Independent([c \in 0 .. N - 1 |-> {c}], N) /\ N \in Nat
      BY IdentityIndependent, RowsAssumption DEF Rows
    <3>2. PICK mat : mat = [c \in 0 .. N - 1 |-> {c}]
      OBVIOUS
    <3>3. Cols(mat) = N /\ Regular(mat)
      BY <3>1, <3>2, IndependentCols
    <3>4. am'.cols = mat /\ am'.used = N
      BY <1>1, <2>1, <3>2
    <3>5. Regular(mat) <=> Regular(am'.cols)
      BY <3>4
    <3>6. QED
      BY <3>3, <3>4, <3>5
  <2>2. CASE ~Eager
    <3>1. Regular(EmptyMat) /\ Cols(EmptyMat) = 0
      BY EmptyIndependent, IndependentCols
    <3>2. am'.cols = EmptyMat /\ am'.used = 0
      BY <1>1, <2>2
    <3>3. QED
      BY <2>2, <3>1, <3>2
  <2>3. QED
    BY <2>1, <2>2
<1>3. Sized' /\ M' \in 0 .. N /\ am'.used <= M'
  <2>1. CASE Eager
    BY <1>1, <1>2, <2>1, RowsAssumption DEF Sized, Eager
  <2>2. CASE ~Eager
    <3>1. PICK run : Runs(DisableX, program, run) /\ CalcMem(program) = Cols(run[Len(program)])
      BY MemRun DEF CapacityInv, Fitting
    <3>0. CalcMem(program) \in 0 .. N
      <4>1. program \in Seq(Gate) /\ Len(program) \in 0 .. Len(program)
        BY DEF CapacityInv, Fitting
      <4>2. Regular(run[Len(program)])
        BY <3>1, <4>1, RunRegular
      <4>3. /\ Independent(run[Len(program)], Cols(run[Len(program)]))
            /\ Cols(run[Len(program)]) \in Nat
        BY <4>2 DEF Regular
      <4>4. Cols(run[Len(program)]) <= N
        BY <4>3, IndependentWidth
      <4>5. QED
        BY <3>1, <4>3, <4>4, RowsAssumption
    <3>2. run[0] = EmptyMat
      BY <3>1 DEF Runs
    <3>3. ~Eager' /\ DisableX' = DisableX
      BY <2>2 DEF Eager, DisableX
    <3>4. Runs(DisableX', program', run) /\ M' = Cols(run[Len(program')]) /\ am'.cols = run[idx' - 1]
      BY <1>1, <2>2, <3>1, <3>2, <3>3
    <3>5. M' \in 0 .. N /\ am'.used <= M'
      BY <1>1, <2>2, <3>0
    <3>6. QED
      BY <3>3, <3>4, <3>5 DEF Sized
  <2>3. QED
    BY <2>1, <2>2
<1>4. Fitting'
  <2>1. program \in Seq(Gate) /\ mode \in Modes
    BY DEF CapacityInv, Fitting
  <2>2. idx' \in 0 .. Len(program') + 1
    BY <1>1, <2>1
  <2>3. QED
    BY <1>1, <1>2, <1>3, <2>1, <2>2 DEF Fitting
<1>5. Apart'
  BY NextApart DEF CapacityInv, Waiting, Next
<1>6. Waiting'
  BY <1>1, <1>5, NothingWaits
<1>7. QED
  BY <1>4, <1>6 DEF CapacityInv, Execute

LEMMA NextCapacity ==
  ASSUME CapacityInv, [Next]_vars
  PROVE  CapacityInv' /\ (failed' # failed => DisableX /\ LogProcs # 0)
<1>0. /\ program \in Seq(Gate) /\ idx \in 0 .. Len(program) + 1
      /\ Apart /\ Apart'
      /\ ~cluster => acc = NoBatch
      /\ ~BatchAborts
  <2>1. Apart
    BY DEF CapacityInv, Waiting
  <2>2. Apart'
    BY <2>1, NextApart
  <2>3. QED
    BY <2>1, <2>2 DEF CapacityInv, Fitting, Waiting, Apart, BatchAborts
<1>1. CASE vars' = vars
  <2>1. Fitting'
    BY <1>1, FittingStays DEF vars, CapacityInv
  <2>2. \A q : Batchable(q)' = Batchable(q)
    BY <1>1 DEF vars, Batchable, Delta, SL
  <2>3. QED
    BY <1>0, <1>1, <2>1, <2>2 DEF vars, CapacityInv, Waiting
<1>2. CASE mode' = mode /\ ((\E gs \in Calls : AddGates(gs)) \/ ClearGates)
  <2>1. /\ idx = 0 /\ idx' = 0 /\ UNCHANGED <<cluster, M, am, acc, failed>>
        /\ program' \in Seq(Gate)
    <3>1. CASE ClearGates
      BY <3>1 DEF ClearGates
    <3>2. ASSUME NEW gs \in Calls, AddGates(gs)
          PROVE  /\ idx = 0 /\ idx' = 0 /\ UNCHANGED <<cluster, M, am, acc, failed>>
                 /\ program' \in Seq(Gate)
      <4>1. gs \in Seq(Gate) /\ program \in Seq(Gate)
        BY <1>0, CallsAssumption
      <4>2. program \o gs \in Seq(Gate)
        BY <4>1
      <4>3. QED
        BY <3>2, <4>2 DEF AddGates
    <3>3. QED
      BY <1>2, <3>1, <3>2
  <2>2. idx' \in 0 .. Len(program') + 1
    BY <2>1
  <2>3. Fitting'
    BY <1>2, <2>1, <2>2 DEF CapacityInv, Fitting
  <2>4. ~cluster
    BY <2>1 DEF CapacityInv, Waiting
  <2>5. Waiting'
    BY <1>0, <2>1, <2>4, NothingWaits
  <2>6. QED
    BY <1>0, <2>1, <2>3, <2>5 DEF CapacityInv
<1>3. CASE mode' = mode /\ Execute
  BY <1>3, ExecuteCapacity
<1>4. CASE mode' = mode /\ \E i \in DOMAIN program : i = idx /\ GateStep(program[i])
  <2>1. idx \in 1 .. Len(program) /\ GateStep(program[idx])
    BY <1>0, <1>4
  <2>2. QED
    BY <1>4, <2>1, GateCapacity
<1>5. CASE mode' = mode /\ EndCluster
  <2>1. /\ cluster /\ ~cluster' /\ acc' = NoBatch
        /\ UNCHANGED <<program, idx, M, am, failed>>
    BY <1>0, <1>5 DEF EndCluster
  <2>2. Fitting'
    BY <1>5, <2>1, FittingStays DEF CapacityInv
  <2>3. Waiting'
    BY <1>0, <2>1, NothingWaits
  <2>4. QED
    BY <1>0, <2>1, <2>2, <2>3 DEF CapacityInv
<1>6. CASE mode' = mode /\ Finish
  <2>1. /\ ~cluster /\ idx' = 0 /\ UNCHANGED <<program, cluster, M, am, acc, failed>>
    BY <1>6 DEF Finish
  <2>2. Fitting'
    BY <1>0, <1>6, <2>1 DEF CapacityInv, Fitting
  <2>3. Waiting'
    BY <1>0, <2>1, NothingWaits
  <2>4. QED
    BY <1>0, <2>1, <2>2, <2>3 DEF CapacityInv
<1>7. QED
  BY <1>1, <1>2, <1>3, <1>4, <1>5, <1>6 DEF Next, Step

LEMMA InitCapacity ==
  ASSUME Init
  PROVE  CapacityInv
<1>1. am.cols = EmptyMat /\ Regular(am.cols) /\ am.used = Cols(am.cols) /\ am.used = 0
  BY EmptyIndependent, IndependentCols DEF Init
<1>2. DOMAIN acc = Qubits /\ \A q \in Qubits : acc[q] = Identity
  BY DEF Init, NoBatch
<1>3. program \in Seq(Gate) /\ idx = 0 /\ idx \in 0 .. Len(program) + 1
  BY DEF Init
<1>4. Fitting
  BY <1>1, <1>3, RowsAssumption DEF Init, Fitting
<1>5. Apart
  BY DEF Init, Apart
<1>6. QED
  BY <1>2, <1>4, <1>5 DEF Init, CapacityInv, Waiting

\* No call of abort() is reached, and a support that is grown gate by gate ends
\* with every column that calc_mem() asked for: where transport is disabled only
\* in a single process, since an explicit X or CX has no exchange with a neighbour
\* on another worker and aborts there.
THEOREM SizingExact ==
  ASSUME \A mo \in Modes : mo.disableX => LogProcs = 0
  PROVE  Spec => []CapacityExact
<1>1. Init => CapacityInv /\ ~failed
  BY InitCapacity DEF Init
<1>2. (CapacityInv /\ ~failed) /\ [Next]_vars => (CapacityInv /\ ~failed)'
  <2>1. CapacityInv => (DisableX => LogProcs = 0)
    BY DEF CapacityInv, Fitting, DisableX
  <2>2. QED
    BY <2>1, NextCapacity
<1>3. CapacityInv /\ ~failed => CapacityExact
  <2>1. SUFFICES ASSUME CapacityInv, idx > Len(program), ~Eager
                 PROVE  am.used = M
    BY DEF CapacityExact
  <2>2. program \in Seq(Gate) /\ idx \in 0 .. Len(program) + 1 /\ Len(program) \in Nat
    BY <2>1 DEF CapacityInv, Fitting
  <2>3. idx - 1 = Len(program) /\ idx > 0
    BY <2>1, <2>2
  <2>4. PICK run : M = Cols(run[Len(program)]) /\ am.cols = run[idx - 1]
    BY <2>1, <2>3 DEF CapacityInv, Fitting, Sized
  <2>5. QED
    BY <2>1, <2>3, <2>4 DEF CapacityInv, Fitting
<1>4. QED
  BY <1>1, <1>2, <1>3, PTL DEF Spec

-----------------------------------------------------------------------------
(***************************************************************************)
(* Matrices of gates, and the angles that a window adds up.                 *)
(***************************************************************************)
LEMMA MatrixTyped ==
  ASSUME NEW g \in Gate
  PROVE  MatrixOf(g) \in U3Matrices
<1>1. g.theta \in Int /\ g.lambda \in Int /\ g.phi \in Int
  BY AnglesAssumption
<1>2. U3Matrix(2, 4, 0) \in U3Matrices /\ U3Matrix(g.theta, g.lambda, g.phi) \in U3Matrices
  BY <1>1, EntryTyped
<1>3. QED
  BY <1>2 DEF MatrixOf

LEMMA SumTyped ==
  ASSUME NEW S, IsFiniteSet(S), NEW f, \A i \in S : f[i] \in Int
  PROVE  FoldFunctionOnSet(+, 0, f, S) \in Int
<1> DEFINE first == [T \in SUBSET S |-> CHOOSE i \in T : TRUE]
           Sum2 == [p \in S \X Int |-> f[p[1]] + p[2]]
           Eq(g) == g = [T \in SUBSET S |->
                           IF T = {} THEN 0
                           ELSE f[CHOOSE i \in T : TRUE] + g[T \ {CHOOSE i \in T : TRUE}]]
           iter == CHOOSE g : Eq(g)
<1>1. ChoosesIn(first, S)
  BY DEF ChoosesIn
<1>2. Sum2 \in [S \X Int -> Int]
  OBVIOUS
<1>3. \E g : Eq(g)
  <2>1. PICK g \in [SUBSET S -> Int] : Iterates(g, S, 0, first, Sum2)
    <3>1. 0 \in Int
      OBVIOUS
    <3> HIDE DEF first, Sum2
    <3>2. QED
      BY <1>1, <1>2, <3>1, IteratesExists
  <2>2. ASSUME NEW T \in SUBSET S, T # {}
        PROVE  Sum2[<<first[T], g[T \ {first[T]}]>>]
                 = f[CHOOSE i \in T : TRUE] + g[T \ {CHOOSE i \in T : TRUE}]
    <3>1. PICK i \in S : i = CHOOSE e \in T : TRUE
      BY <2>2
    <3>2. first[T] = i
      BY <3>1
    <3> HIDE DEF first
    <3>3. T \ {i} \in SUBSET S
      OBVIOUS
    <3>4. g[T \ {i}] \in Int
      BY <2>1, <3>3
    <3>5. ASSUME NEW n \in Int PROVE Sum2[<<i, n>>] = f[i] + n
      OBVIOUS
    <3> HIDE DEF Sum2
    <3>6. Sum2[<<i, g[T \ {i}]>>] = f[i] + g[T \ {i}]
      BY <3>4, <3>5
    <3>7. QED
      BY <3>1, <3>2, <3>6
  <2>3. Eq(g)
    BY <2>1, <2>2 DEF Iterates
  <2> HIDE DEF Eq
  <2>4. QED
    BY <2>3
<1>4. Eq(iter)
  <2> HIDE DEF Eq
  <2>1. QED
    BY <1>3
<1>5. FoldFunctionOnSet(+, 0, f, S) = iter[S]
  BY DEF FoldFunctionOnSet, MapThenFoldSet
<1> HIDE DEF iter
<1> DEFINE F == {T \in SUBSET S : iter[T] \in Int}
<1>6. {} \in F
  BY <1>4
<1>7. ASSUME NEW T \in SUBSET S, T # {}, \A i \in T : T \ {i} \in F PROVE T \in F
  <2>1. PICK i \in T : i = CHOOSE e \in T : TRUE
    BY <1>7
  <2>2. iter[T] = f[i] + iter[T \ {i}]
    BY <1>4, <1>7, <2>1
  <2>3. f[i] \in Int /\ iter[T \ {i}] \in Int
    BY <1>7
  <2>4. QED
    BY <2>2, <2>3
<1> HIDE DEF F
<1>8. S \in F
  BY <1>6, <1>7, FiniteInduction
<1>9. QED
  BY <1>5, <1>8 DEF F

Selectors == [alpha : SUBSET Nat, beta : BOOLEAN]
Descriptors == [sels : SUBSET Selectors, theta : Int]

LEMMA AngleTyped ==
  ASSUME NEW win \in Seq(Descriptors), NEW x
  PROVE  AngleAt(win, x) \in Int
<1> DEFINE f == [i \in DOMAIN win |-> win[i].theta]
           S == {i \in DOMAIN win : \A s \in win[i].sels : Chooses(s, x)}
<1>1. DOMAIN win = 1 .. Len(win) /\ IsFiniteSet(1 .. Len(win))
  BY FS_Interval
<1>2. IsFiniteSet(S)
  <2>1. S \subseteq 1 .. Len(win)
    BY <1>1
  <2> HIDE DEF S
  <2>2. QED
    BY <1>1, <2>1, FS_Subset
<1>3. \A i \in S : f[i] \in Int
  <2>1. ASSUME NEW i \in DOMAIN win PROVE win[i].theta \in Int
    <3>1. win[i] \in Descriptors
      BY <1>1
    <3>2. QED
      BY <3>1 DEF Descriptors
  <2>2. QED
    BY <2>1
<1>4. AngleAt(win, x) = FoldFunctionOnSet(+, 0, f, S)
  BY Zenon DEF AngleAt
<1> HIDE DEF f, S
<1>5. QED
  BY <1>2, <1>3, <1>4, SumTyped

-----------------------------------------------------------------------------
(***************************************************************************)
(* Blocks.  A worker's block has an amplitude at every address, and zero at *)
(* the addresses that are not in use under the map mp.                      *)
(***************************************************************************)
Blocks(mp) ==
  {s \in [Workers -> [BlockAddrs -> Amps]] :
     \A w \in Workers : \A x \in BlockAddrs \ Active(mp, w) : s[w][x] = 0}

LEMMA Fields ==
  ASSUME M \in Nat
  PROVE  /\ SL.I \in Nat /\ SL.J \in Nat /\ SL.K \in Nat
         /\ SL.I + SL.J + SL.K = M /\ SL.K <= LogProcs
         /\ BlockAddrs = SUBSET (0 .. SL.I + SL.J - 1)
BY LayoutDivides DEF SL, BlockAddrs, Real

LEMMA BitsInUse ==
  ASSUME M \in Nat, NEW mp, NEW k \in 0 .. M, mp.used = k, NEW w
  PROVE  /\ k <= SL.I => Bits(mp, w) = IF w = Root THEN k ELSE -1
         /\ k > SL.I /\ k <= SL.I + SL.K =>
              Bits(mp, w) = IF w \subseteq 0 .. k - SL.I - 1 THEN SL.I ELSE -1
         /\ k > SL.I + SL.K => Bits(mp, w) = k - SL.K
         /\ Bits(mp, w) \in Int
         /\ Bits(mp, w) <= SL.I + SL.J
<1>1. /\ SL.I \in Nat /\ SL.J \in Nat /\ SL.K \in Nat /\ SL.I + SL.J + SL.K = M
  BY Fields
<1>2. Bits(mp, w) = LocalBits(SL, k, w)
  BY DEF Bits
<1>3. CASE k <= SL.I
  <2>1. Bits(mp, w) = IF w = Root THEN k ELSE -1
    <3>1. ~(k > SL.I /\ k <= SL.I + SL.K)
      BY <1>1, <1>3
    <3>2. QED
      BY Zenon, <1>2, <1>3, <3>1 DEF LocalBits
  <2>2. QED
    BY <1>1, <1>3, <2>1
<1>4. CASE k > SL.I /\ k <= SL.I + SL.K
  <2>1. Bits(mp, w) = IF w \subseteq 0 .. k - SL.I - 1 THEN SL.I ELSE -1
    BY <1>1, <1>2, <1>4 DEF LocalBits
  <2>2. QED
    BY <1>1, <1>4, <2>1
<1>5. CASE k > SL.I + SL.K
  <2>1. Bits(mp, w) = k - SL.K
    BY <1>1, <1>2, <1>5 DEF LocalBits
  <2>2. QED
    BY <1>1, <1>5, <2>1
<1>6. QED
  BY <1>1, <1>3, <1>4, <1>5

LEMMA ActiveInBlock ==
  ASSUME M \in Nat, NEW mp, mp.used \in 0 .. M, NEW w
  PROVE  Active(mp, w) \subseteq BlockAddrs
<1>1. PICK n \in Int, b \in Int :
        n = Bits(mp, w) /\ b = SL.I + SL.J /\ n <= b /\ BlockAddrs = SUBSET (0 .. b - 1)
  BY BitsInUse, Fields
<1>2. 0 .. n - 1 \subseteq 0 .. b - 1
  BY <1>1
<1>3. Active(mp, w) \subseteq SUBSET (0 .. n - 1)
  BY <1>1 DEF Active, Real
<1>4. QED
  BY <1>1, <1>2, <1>3

\* expand() moves block_end up and never down.
LEMMA ActiveGrows ==
  ASSUME M \in Nat, NEW mp, NEW new, mp.used \in 0 .. M, new.used \in 0 .. M,
         mp.used <= new.used, NEW w
  PROVE  Active(mp, w) \subseteq Active(new, w)
<1>1. SL.I \in Nat /\ SL.J \in Nat /\ SL.K \in Nat /\ SL.I + SL.J + SL.K = M
  BY Fields
<1>2. PICK k \in 0 .. M, m \in 0 .. M : k = mp.used /\ m = new.used /\ k <= m
  OBVIOUS
<1>3. PICK n \in Int, r \in Int : n = Bits(mp, w) /\ r = Bits(new, w)
  BY <1>2, BitsInUse
<1>4. /\ k <= SL.I => n = IF w = Root THEN k ELSE -1
      /\ k > SL.I /\ k <= SL.I + SL.K => n = IF w \subseteq 0 .. k - SL.I - 1 THEN SL.I ELSE -1
      /\ k > SL.I + SL.K => n = k - SL.K
  BY <1>2, <1>3, BitsInUse
<1>5. /\ m <= SL.I => r = IF w = Root THEN m ELSE -1
      /\ m > SL.I /\ m <= SL.I + SL.K => r = IF w \subseteq 0 .. m - SL.I - 1 THEN SL.I ELSE -1
      /\ m > SL.I + SL.K => r = m - SL.K
  BY <1>2, <1>3, BitsInUse
<1>6. n >= 0 => n <= r
  <2>1. CASE k <= SL.I
    BY <1>1, <1>2, <1>4, <1>5, <2>1 DEF Root
  <2>2. CASE k > SL.I /\ k <= SL.I + SL.K
    <3>1. 0 .. k - SL.I - 1 \subseteq 0 .. m - SL.I - 1
      BY <1>1, <1>2
    <3>2. QED
      BY <1>1, <1>2, <1>4, <1>5, <2>2, <3>1
  <2>3. CASE k > SL.I + SL.K
    BY <1>1, <1>2, <1>4, <1>5, <2>3
  <2>4. QED
    BY <1>1, <2>1, <2>2, <2>3
<1>7. n >= 0 => 0 .. n - 1 \subseteq 0 .. r - 1
  BY <1>6
<1>8. QED
  BY <1>3, <1>6, <1>7 DEF Active, Real

LEMMA BlocksGrow ==
  ASSUME M \in Nat, NEW mp, NEW new, mp.used \in 0 .. M, new.used \in 0 .. M,
         mp.used <= new.used, NEW s \in Blocks(mp)
  PROVE  s \in Blocks(new)
<1>1. \A w \in Workers : Active(mp, w) \subseteq Active(new, w)
  BY ActiveGrows
<1>2. QED
  BY <1>1 DEF Blocks

\* A block is written at addresses that are in use and nowhere else.
LEMMA WrittenInUse ==
  ASSUME NEW mp, NEW s \in Blocks(mp), NEW t, DOMAIN t = Workers,
         t = [w \in Workers |-> t[w]],
         \A w \in Workers :
           /\ t[w] = [x \in BlockAddrs |-> t[w][x]]
           /\ \A x \in BlockAddrs :
                IF x \in Active(mp, w) THEN t[w][x] \in Amps ELSE t[w][x] = s[w][x]
  PROVE  t \in Blocks(mp)
<1>1. s \in [Workers -> [BlockAddrs -> Amps]]
  BY DEF Blocks
<1>2. ASSUME NEW w \in Workers PROVE t[w] \in [BlockAddrs -> Amps]
  BY <1>1
<1>3. t \in [Workers -> [BlockAddrs -> Amps]]
  BY <1>2
<1>4. ASSUME NEW w \in Workers, NEW x \in BlockAddrs \ Active(mp, w) PROVE t[w][x] = 0
  BY DEF Blocks
<1>5. QED
  BY <1>3, <1>4 DEF Blocks

LEMMA FlushTyped ==
  ASSUME M \in Nat, am.used \in 0 .. M, sv \in Blocks(am),
         window \in [Workers -> Seq(Descriptors)]
  PROVE  Flushed \in Blocks(am)
<1>1. sv \in [Workers -> [BlockAddrs -> Amps]]
  BY DEF Blocks
<1>2. DOMAIN Flushed = Workers /\ Flushed = [w \in Workers |-> Flushed[w]]
  BY DEF Flushed
<1>3. ASSUME NEW w \in Workers
      PROVE  /\ Flushed[w] = [x \in BlockAddrs |-> Flushed[w][x]]
             /\ \A x \in BlockAddrs :
                  IF x \in Active(am, w) THEN Flushed[w][x] \in Amps
                                         ELSE Flushed[w][x] = sv[w][x]
  <2>1. Flushed[w] = Settled(w)
    BY DEF Flushed
  <2>2. ASSUME NEW x \in BlockAddrs PROVE RotateBy(AngleAt(window[w], x), sv[w][x]) \in Amps
    <3>1. AngleAt(window[w], x) \in Int /\ sv[w][x] \in Int
      BY <1>1, AngleTyped DEF Amps
    <3>2. QED
      BY <3>1, Turned
  <2>3. QED
    BY <2>1, <2>2 DEF Settled
<1>4. QED
  BY <1>2, <1>3, WrittenInUse

LEMMA BlockMixedTyped ==
  ASSUME M \in Nat, NEW mp, mp.used \in 0 .. M, NEW s \in Blocks(mp),
         NEW q, NEW u \in U3Matrices, NEW d
  PROVE  BlockMixed(mp, s, q, u, d) \in Blocks(mp)
<1> DEFINE t == BlockMixed(mp, s, q, u, d)
<1>1. s \in [Workers -> [BlockAddrs -> Amps]]
  BY DEF Blocks
<1>2. DOMAIN t = Workers /\ t = [w \in Workers |-> t[w]]
  BY DEF BlockMixed
<1>3. ASSUME NEW w \in Workers
      PROVE  /\ t[w] = [x \in BlockAddrs |-> t[w][x]]
             /\ \A x \in BlockAddrs :
                  IF x \in Active(mp, w) THEN t[w][x] \in Amps ELSE t[w][x] = s[w][x]
  <2> DEFINE sel == BlockSelector(mp, q, w)
  <2>1. t[w] = [x \in BlockAddrs |->
                  IF {x, x \oplus d} \subseteq Active(mp, w)
                  THEN IF Eval(sel, x) THEN OddOf(u, s[w][x \oplus d], s[w][x])
                                       ELSE EvenOf(u, s[w][x], s[w][x \oplus d])
                  ELSE s[w][x]]
    BY DEF BlockMixed
  <2> HIDE DEF t
  <2>2. ASSUME NEW x \in BlockAddrs, x \oplus d \in Active(mp, w)
        PROVE  /\ OddOf(u, s[w][x \oplus d], s[w][x]) \in Amps
               /\ EvenOf(u, s[w][x], s[w][x \oplus d]) \in Amps
    <3>1. x \oplus d \in BlockAddrs
      BY <2>2, ActiveInBlock
    <3>2. s[w][x] \in Amps /\ s[w][x \oplus d] \in Amps
      BY <1>1, <3>1
    <3>3. QED
      BY <3>2, PairTyped
  <2>3. \A x \in BlockAddrs : s[w][x] \in Amps
    BY <1>1
  <2> HIDE DEF sel
  <2>4. QED
    BY <2>1, <2>2, <2>3
<1> HIDE DEF t
<1>4. t \in Blocks(mp)
  BY <1>2, <1>3, WrittenInUse
<1>5. QED
  BY <1>4 DEF t

LEMMA SwappedTyped ==
  ASSUME M \in Nat, NEW mp, mp.used \in 0 .. M, NEW s \in Blocks(mp),
         NEW q, NEW controls, NEW d
  PROVE  Swapped(mp, s, q, controls, d) \in Blocks(mp)
<1> DEFINE t == Swapped(mp, s, q, controls, d)
<1>1. s \in [Workers -> [BlockAddrs -> Amps]]
  BY DEF Blocks
<1>2. DOMAIN t = Workers /\ t = [w \in Workers |-> t[w]]
  BY DEF Swapped
<1>3. ASSUME NEW w \in Workers
      PROVE  /\ t[w] = [x \in BlockAddrs |-> t[w][x]]
             /\ \A x \in BlockAddrs :
                  IF x \in Active(mp, w) THEN t[w][x] \in Amps ELSE t[w][x] = s[w][x]
  <2>1. /\ t[w] = [x \in BlockAddrs |-> t[w][x]]
        /\ \A x \in BlockAddrs : \/ t[w][x] = s[w][x]
                                 \/ /\ {x, x \oplus d} \subseteq Active(mp, w)
                                    /\ t[w][x] = s[w][x \oplus d]
    BY DEF Swapped
  <2>2. \A x \in Active(mp, w) : x \in BlockAddrs
    BY ActiveInBlock
  <2>3. \A x \in BlockAddrs : s[w][x] \in Amps
    BY <1>1
  <2> HIDE DEF t
  <2>4. QED
    BY <2>1, <2>2, <2>3
<1> HIDE DEF t
<1>4. t \in Blocks(mp)
  BY <1>2, <1>3, WrittenInUse
<1>5. QED
  BY <1>4 DEF t

\* The neighbour of an address on another worker is one of its addresses.
LEMMA InterMixedTyped ==
  ASSUME M \in Nat, NEW mp, mp.used \in 0 .. M, NEW s \in Blocks(mp),
         NEW q, NEW u \in U3Matrices, NEW d \in SUBSET Nat
  PROVE  InterMixed(mp, s, q, u, d) \in Blocks(mp)
<1> DEFINE t == InterMixed(mp, s, q, u, d)
<1>1. s \in [Workers -> [BlockAddrs -> Amps]]
  BY DEF Blocks
<1>2. DOMAIN t = Workers /\ t = [w \in Workers |-> t[w]]
  BY DEF InterMixed
<1>3. /\ SL.I \in Nat /\ SL.J \in Nat /\ SL.K \in Nat
      /\ SL.K <= LogProcs /\ LogProcs \in Nat
      /\ BlockAddrs = SUBSET (0 .. SL.I + SL.J - 1)
  BY Fields, LayoutAssumption
<1>4. WorkerOf(SL, d) \in Workers
  <2>1. HigherBits(d, SL.I + SL.J) \subseteq Nat
    BY <1>3 DEF HigherBits
  <2>2. QED
    BY <1>3, <2>1 DEF WorkerOf, LowerBits, Workers, Real
<1>5. OffsetOf(SL, d) \in BlockAddrs
  <2>1. \A i \in OffsetOf(SL, d) : i \in Nat /\ i < SL.I
    BY DEF OffsetOf, LowerBits
  <2>2. \A i \in OffsetOf(SL, d) : i \in 0 .. SL.I + SL.J - 1
    BY <1>3, <2>1
  <2>3. QED
    BY <1>3, <2>2
<1>6. ASSUME NEW w \in Workers
      PROVE  /\ t[w] = [x \in BlockAddrs |-> t[w][x]]
             /\ \A x \in BlockAddrs :
                  IF x \in Active(mp, w) THEN t[w][x] \in Amps ELSE t[w][x] = s[w][x]
  <2> DEFINE peer == w \oplus WorkerOf(SL, d)
             other(x) == s[peer][x \oplus OffsetOf(SL, d)]
  <2>1. /\ t[w] = [x \in BlockAddrs |-> t[w][x]]
        /\ \A x \in BlockAddrs :
             IF x \notin Active(mp, w) THEN t[w][x] = s[w][x]
             ELSE t[w][x] \in {OddOf(u, other(x), s[w][x]), EvenOf(u, s[w][x], other(x))}
    BY DEF InterMixed
  <2>2. peer \in Workers
    BY <1>3, <1>4, RealXor DEF Workers
  <2> HIDE DEF t, peer
  <2>3. ASSUME NEW x \in BlockAddrs
        PROVE  /\ OddOf(u, other(x), s[w][x]) \in Amps
               /\ EvenOf(u, s[w][x], other(x)) \in Amps
    <3>1. x \oplus OffsetOf(SL, d) \in BlockAddrs
      <4>1. PICK S, v : S = 0 .. SL.I + SL.J - 1 /\ v = OffsetOf(SL, d)
        OBVIOUS
      <4>2. x \in SUBSET S /\ v \in SUBSET S
        BY <1>3, <1>5, <4>1
      <4>3. x \oplus v \in SUBSET S
        BY <4>2, XorClosed
      <4>4. QED
        BY <1>3, <4>1, <4>3
    <3>2. s[w][x] \in Amps /\ other(x) \in Amps
      BY <1>1, <2>2, <3>1
    <3> HIDE DEF other
    <3>3. QED
      BY <3>2, PairTyped
  <2> HIDE DEF other
  <2>4. QED
    BY <2>1, <2>3
<1> HIDE DEF t
<1>7. t \in Blocks(mp)
  BY <1>2, <1>6, WrittenInUse
<1>8. QED
  BY <1>7 DEF t

\* flush_u3_batch() over the qubits in order.
LEMMA BatchTyped ==
  ASSUME M \in Nat, am.used \in 0 .. M, sv \in Blocks(am), acc \in [Qubits -> U3Matrices]
  PROVE  BatchApplied \in Blocks(am)
<1> DEFINE V == Blocks(am)
           seq == [i \in 1 .. N |-> i - 1]
           Fused(s, q) ==
             IF acc[q] = Identity THEN s
             ELSE BlockMixed(am, s, q, acc[q], BlockOf(SL, Delta(am, q).x))
           Batch == [p \in (1 .. N) \X V |-> Fused(p[2], seq[p[1]])]
           Eq(g) == g = [T \in SUBSET (1 .. N) |->
                           IF T = {} THEN sv
                           ELSE Fused(g[T \ {Max(T)}], seq[Max(T)])]
           iter == CHOOSE g : Eq(g)
<1>1. N \in Nat /\ \A i \in 1 .. N : seq[i] \in Qubits
  BY RowsAssumption DEF Qubits, Rows
<1>2. ASSUME NEW s \in V, NEW q \in Qubits PROVE Fused(s, q) \in V
  <2>1. acc[q] \in U3Matrices
    OBVIOUS
  <2>2. QED
    BY <2>1, BlockMixedTyped
<1> HIDE DEF Fused, V
<1>3. Batch \in [(1 .. N) \X V -> V]
  <2>1. \A p \in (1 .. N) \X V : Fused(p[2], seq[p[1]]) \in V
    BY <1>1, <1>2
  <2>2. QED
    BY <2>1
<1>4. sv \in V
  BY DEF V
<1>5. \E g : Eq(g)
  <2>0. PICK g : FoldsFirst(g, N, V, sv, Batch)
    <3> HIDE DEF Batch
    <3>1. QED
      BY <1>1, <1>3, <1>4, SequenceFoldExists
  <2>1. /\ g \in [SUBSET (1 .. N) -> V]
        /\ g = [T \in SUBSET (1 .. N) |->
                  IF T = {} THEN sv ELSE Batch[<<Max(T), g[T \ {Max(T)}]>>]]
    BY <2>0 DEF FoldsFirst
  <2>2. ASSUME NEW T \in SUBSET (1 .. N), T # {}
        PROVE  Batch[<<Max(T), g[T \ {Max(T)}]>>] = Fused(g[T \ {Max(T)}], seq[Max(T)])
    <3>1. Max(T) \in 1 .. N
      BY <1>1, <2>2, LargestIndex
    <3>2. T \ {Max(T)} \in SUBSET (1 .. N)
      OBVIOUS
    <3>3. g[T \ {Max(T)}] \in V
      BY <2>1, <3>2
    <3>4. QED
      BY <3>1, <3>3 DEF Batch
  <2>3. Eq(g)
    BY <2>1, <2>2
  <2>4. QED
    BY <2>3
<1>6. Eq(iter)
  BY <1>5
<1>7. BatchApplied = iter[1 .. N]
  BY DEF BatchApplied, Fused, Seqs!FoldLeft, Seqs!MapThenFoldSet, Seqs!Max, Max
<1> HIDE DEF iter
<1> DEFINE F == {T \in SUBSET (1 .. N) : \A U \in SUBSET T : iter[U] \in V}
<1>8. {} \in F
  BY <1>4, <1>6
<1>9. ASSUME NEW T \in SUBSET (1 .. N), T # {}, \A x \in T : T \ {x} \in F
      PROVE  T \in F
  <2>1. Max(T) \in T /\ Max(T) \in 1 .. N
    BY <1>1, <1>9, LargestIndex
  <2>2. iter[T \ {Max(T)}] \in V
    BY <1>9, <2>1
  <2>3. iter[T] = Fused(iter[T \ {Max(T)}], seq[Max(T)])
    BY <1>6, <1>9
  <2>4. iter[T] \in V
    BY <1>1, <1>2, <2>1, <2>2, <2>3
  <2>5. ASSUME NEW U \in SUBSET T, U # T PROVE iter[U] \in V
    <3>1. PICK x \in T : U \in SUBSET (T \ {x})
      BY <2>5
    <3>2. QED
      BY <1>9, <3>1
  <2>6. QED
    BY <2>4, <2>5
<1>10. IsFiniteSet(1 .. N)
  BY <1>1, FS_Interval
<1> HIDE DEF F
<1>11. 1 .. N \in F
  BY <1>8, <1>9, <1>10, FiniteInduction
<1>12. QED
  BY <1>7, <1>11 DEF F, V

\* The rest of the state.
Shape ==
  /\ am.b \in Basis
  /\ sv \in Blocks(am)
  /\ window \in [Workers -> Seq(Descriptors)]
  /\ acc \in [Qubits -> U3Matrices]
  /\ phase \in [Workers -> Amps]
  /\ failed \in BOOLEAN

StateInv == CapacityInv /\ Shape

LEMMA SameBlocks ==
  ASSUME M' = M, NEW mp, mp = am', NEW s, s = sv', s \in Blocks(mp)
  PROVE  (sv \in Blocks(am))'
BY DEF Blocks, Active, Bits, SL, BlockAddrs

LEMMA Nothing ==
  /\ NoWindow \in [Workers -> Seq(Descriptors)]
  /\ NoBatch \in [Qubits -> U3Matrices]
<1>1. << >> \in Seq(Descriptors)
  OBVIOUS
<1>2. QED
  BY <1>1, SomeAmps DEF NoWindow, NoBatch

LEMMA SelectorTyped ==
  ASSUME Fitting, NEW q, NEW w
  PROVE  BlockSelector(am, q, w) \in Selectors
<1>1. PICK k \in Nat : am.cols \in Matrix(k)
  BY DEF Fitting, Regular, Independent
<1>2. GetRow(am.cols, q) \subseteq Nat
  <2>1. DOMAIN am.cols = 0 .. k - 1
    BY <1>1 DEF Matrix
  <2>2. QED
    BY <1>1, <2>1 DEF GetRow
<1>3. LowerBits(GetRow(am.cols, q), Bits(am, w)) \in SUBSET Nat
  BY <1>2 DEF LowerBits
<1>4. \A sel, x : Eval(sel, x) \in BOOLEAN
  BY DEF Eval
<1>5. QED
  BY <1>3, <1>4 DEF BlockSelector, LocalSelector, Selectors

LEMMA PhaseTyped ==
  ASSUME phase \in [Workers -> Amps], NEW g \in Gate, NEW w \in Workers
  PROVE  (IF g.type \in {"Z", "Rz"} THEN HalfBackBy(Theta(g), phase[w]) ELSE phase[w]) \in Amps
<1>1. Theta(g) \in Int
  BY AnglesAssumption DEF Theta
<1>2. phase[w] \in Amps /\ phase[w] \in Int
  BY DEF Amps
<1>3. HalfBackBy(Theta(g), phase[w]) \in Amps
  BY <1>1, <1>2, Turned
<1>4. QED
  BY <1>2, <1>3

LEMMA PShape ==
  ASSUME Fitting, Shape, NEW g \in Gate, DoP(g)
  PROVE  Shape'
<1>1. /\ UNCHANGED <<am, sv, M, acc, failed>>
      /\ window' = [w \in Workers |->
           IF Live(w) THEN Append(window[w], Descriptor({BlockSelector(am, g.q, w)}, Theta(g)))
                      ELSE window[w]]
      /\ phase' = [w \in Workers |->
           IF g.type \in {"Z", "Rz"} THEN HalfBackBy(Theta(g), phase[w]) ELSE phase[w]]
  BY DEF DoP, Advance
<1>2. ASSUME NEW w \in Workers
      PROVE  Append(window[w], Descriptor({BlockSelector(am, g.q, w)}, Theta(g)))
               \in Seq(Descriptors)
  <2>1. Theta(g) \in Int
    BY AnglesAssumption DEF Theta
  <2>2. Descriptor({BlockSelector(am, g.q, w)}, Theta(g)) \in Descriptors
    BY <2>1, SelectorTyped DEF Descriptor, Descriptors
  <2>3. window[w] \in Seq(Descriptors)
    BY DEF Shape
  <2>4. QED
    BY <2>2, <2>3
<1>3. window' \in [Workers -> Seq(Descriptors)]
  BY <1>1, <1>2 DEF Shape
<1>4. phase' \in [Workers -> Amps]
  BY <1>1, PhaseTyped DEF Shape
<1>5. (sv \in Blocks(am))'
  BY <1>1, SameBlocks DEF Shape
<1>6. QED
  BY <1>1, <1>3, <1>4, <1>5 DEF Shape

LEMMA CPShape ==
  ASSUME Fitting, Shape, NEW g \in Gate, DoCP(g)
  PROVE  Shape'
<1> DEFINE d(w) == Descriptor({BlockSelector(am, g.cq, w), BlockSelector(am, g.q, w)}, g.theta)
           chosen(w, x) == x \in Active(am, w) /\ \A s \in d(w).sels : Eval(s, x)
<1>1. /\ UNCHANGED <<am, M, acc, failed, phase>>
      /\ window' = [w \in Workers |->
             CASE ~Live(w)   -> window[w]
               [] Live(w) /\ Fits(d(w)) -> Append(window[w], d(w))
               [] OTHER      -> << >>]
      /\ sv' = [w \in Workers |->
             IF ~Live(w) \/ Fits(d(w)) THEN sv[w]
             ELSE [x \in BlockAddrs |->
                     IF chosen(w, x) THEN RotateBy(g.theta, Settled(w)[x])
                                     ELSE Settled(w)[x]]]
  BY DEF DoCP, Advance
<1>2. M \in Nat /\ am.used \in 0 .. M
  BY RowsAssumption DEF Fitting, Regular
<1>3. g.theta \in Int
  BY AnglesAssumption
<1>4. ASSUME NEW w \in Workers PROVE d(w) \in Descriptors
  BY <1>3, SelectorTyped DEF Descriptor, Descriptors
<1>5. ASSUME NEW w \in Workers PROVE window'[w] \in Seq(Descriptors)
  <2>1. window[w] \in Seq(Descriptors) /\ d(w) \in Descriptors
    BY <1>4 DEF Shape
  <2> HIDE DEF d
  <2>2. Append(window[w], d(w)) \in Seq(Descriptors) /\ << >> \in Seq(Descriptors)
    BY <2>1
  <2>3. window'[w] \in {window[w], Append(window[w], d(w)), << >>}
    BY <1>1
  <2>4. QED
    BY <2>1, <2>2, <2>3
<1>6. window' \in [Workers -> Seq(Descriptors)]
  <2>1. DOMAIN window' = Workers /\ window' = [w \in Workers |-> window'[w]]
    BY <1>1
  <2>2. QED
    BY <1>5, <2>1
<1>7. Flushed \in Blocks(am) /\ \A w \in Workers : Flushed[w] = Settled(w)
  BY <1>2, FlushTyped DEF Shape, Flushed
<1>8. PICK t : t = sv'
  OBVIOUS
<1>9. DOMAIN t = Workers /\ t = [w \in Workers |-> t[w]]
  BY <1>1, <1>8
<1>10. ASSUME NEW w \in Workers
       PROVE  /\ t[w] = [x \in BlockAddrs |-> t[w][x]]
              /\ \A x \in BlockAddrs :
                   IF x \in Active(am, w) THEN t[w][x] \in Amps ELSE t[w][x] = Flushed[w][x]
  <2>1. /\ sv[w] \in [BlockAddrs -> Amps] /\ Flushed[w] \in [BlockAddrs -> Amps]
        /\ \A x \in BlockAddrs \ Active(am, w) : sv[w][x] = 0 /\ Flushed[w][x] = 0
    BY <1>7 DEF Shape, Blocks
  <2>2. \A x \in BlockAddrs : RotateBy(g.theta, Flushed[w][x]) \in Amps
    <3>1. ASSUME NEW x \in BlockAddrs PROVE RotateBy(g.theta, Flushed[w][x]) \in Amps
      <4>1. Flushed[w][x] \in Int
        BY <2>1 DEF Amps
      <4>2. QED
        BY <1>3, <4>1, Turned
    <3>2. QED
      BY <3>1
  <2>3. CASE ~Live(w) \/ Fits(d(w))
    <3>1. t[w] = sv[w]
      BY <1>1, <1>8, <2>3
    <3>2. QED
      BY <2>1, <3>1
  <2>4. CASE ~(~Live(w) \/ Fits(d(w)))
    <3>1. t[w] = [x \in BlockAddrs |->
                     IF chosen(w, x) THEN RotateBy(g.theta, Flushed[w][x])
                                     ELSE Flushed[w][x]]
      BY <1>1, <1>7, <1>8, <2>4
    <3>2. \A x \in BlockAddrs : chosen(w, x) => x \in Active(am, w)
      OBVIOUS
    <3> HIDE DEF chosen
    <3>3. QED
      BY <2>1, <2>2, <3>1, <3>2
  <2>5. QED
    BY <2>3, <2>4
<1>11. t \in Blocks(am)
  BY <1>7, <1>9, <1>10, WrittenInUse
<1>12. (sv \in Blocks(am))'
  BY <1>1, <1>8, <1>11, SameBlocks
<1>13. QED
  BY <1>1, <1>6, <1>12 DEF Shape

LEMMA TransportShape ==
  ASSUME Fitting, Shape, NEW g \in Gate, TransportX(g) \/ TransportCX(g)
  PROVE  Shape'
<1>1. /\ UNCHANGED <<M, acc, failed, phase, sv, window>>
      /\ am'.used = am.used
      /\ am'.b \in {am.b \oplus {g.q}, RowXor(am.b, g.q, g.cq)}
  BY DEF TransportX, TransportCX, Advance
<1>2. am'.b \in Basis
  <2>1. g.q \in Rows /\ {g.q} \in SUBSET Rows /\ am.b \in SUBSET Rows
    BY CallsAssumption DEF Shape, Basis, Qubits
  <2>2. am.b \oplus {g.q} \in SUBSET Rows /\ RowXor(am.b, g.q, g.cq) \in SUBSET Rows
    BY <2>1, XorClosed, RowXorClosed
  <2>3. QED
    BY <1>1, <2>2 DEF Basis, Qubits
<1>3. PICK mp : mp = am'
  OBVIOUS
<1>4. sv \in Blocks(mp)
  <2>1. M \in Nat /\ am.used \in 0 .. M /\ mp.used = am.used
    BY <1>1, <1>3, RowsAssumption DEF Fitting, Regular
  <2>2. am.used <= mp.used
    BY <2>1
  <2>3. QED
    BY <2>1, <2>2, BlocksGrow DEF Shape
<1>5. (sv \in Blocks(am))'
  BY <1>1, <1>3, <1>4, SameBlocks
<1>6. QED
  BY <1>1, <1>2, <1>5 DEF Shape

\* expand() leaves the amplitudes where they are.
LEMMA ExpandedBlocks ==
  ASSUME Fitting, idx \in 1 .. Len(program), NEW g, g = program[idx],
         IsU3(g) \/ (DisableX /\ g.type \in {"X", "CX"}),
         NEW mp, mp = SolveExpand(g.q).map, mp.used <= M
  PROVE  /\ M \in Nat /\ mp.used \in 0 .. M
         /\ \A s \in Blocks(am) : s \in Blocks(mp)
         /\ SolveExpand(g.q).delta \in SUBSET Nat
<1>1. /\ g \in Gate
      /\ mp.used = Cols(SizedBy(DisableX, am.cols, g))
      /\ SolveExpand(g.q).delta \in Real(mp.used)
  BY Room
<1>2. M \in Nat /\ am.used \in 0 .. M /\ am.used = Cols(am.cols) /\ Regular(am.cols)
  BY RowsAssumption DEF Fitting, Regular
<1>3. mp.used \in 0 .. M /\ am.used <= mp.used
  BY <1>1, <1>2, SizedRegular DEF Regular
<1>4. SolveExpand(g.q).delta \in SUBSET Nat
  <2>1. 0 .. mp.used - 1 \subseteq Nat
    BY <1>3
  <2>2. QED
    BY <1>1, <2>1 DEF Real
<1>5. QED
  BY <1>2, <1>3, <1>4, BlocksGrow

LEMMA GateShape ==
  ASSUME StateInv, idx \in 1 .. Len(program), NEW g, g = program[idx], GateStep(g),
         mode' = mode
  PROVE  Shape'
<1>0. /\ Fitting /\ Shape /\ g \in Gate
      /\ M \in Nat /\ am.used \in 0 .. M
      /\ am'.used <= M'
  BY GateCapacity, RowsAssumption DEF StateInv, CapacityInv, Fitting, Regular
<1>1. Flushed \in Blocks(am)
  BY <1>0, FlushTyped DEF Shape
<1>2. CASE DoBarrier(g)
  <2>1. UNCHANGED <<am, M, acc, failed, phase>> /\ sv' = Flushed /\ window' = NoWindow
    BY <1>2 DEF DoBarrier, Advance
  <2>2. (sv \in Blocks(am))'
    BY <1>1, <2>1, SameBlocks
  <2>3. QED
    BY <1>0, <2>1, <2>2, Nothing DEF Shape
<1>3. CASE DoP(g)
  BY <1>0, <1>3, PShape
<1>4. CASE DoCP(g)
  BY <1>0, <1>4, CPShape
<1>5. CASE TransportX(g) \/ TransportCX(g)
  BY <1>0, <1>5, TransportShape
<1>6. ASSUME Fail PROVE Shape'
  <2>1. UNCHANGED <<am, M, acc, phase, sv, window>> /\ failed' = TRUE
    BY <1>6 DEF Fail
  <2>2. (sv \in Blocks(am))'
    BY <1>0, <2>1, SameBlocks DEF Shape
  <2>3. QED
    BY <1>0, <2>1, <2>2 DEF Shape
<1>7. CASE ExplicitX(g)
  <2> DEFINE r == SolveExpand(g.q)
             controls == IF g.type = "CX" THEN {g.cq} ELSE {}
  <2>1. CASE Fail
    BY <1>6, <2>1
  <2>2. CASE ~Fail
    <3>1. /\ DisableX /\ g.type \in {"X", "CX"}
          /\ am' = r.map
          /\ sv' = Swapped(r.map, Flushed, g.q, controls, BlockOf(SL, r.delta))
          /\ window' = NoWindow
          /\ UNCHANGED <<M, acc, failed, phase>>
      BY <1>7, <2>2 DEF ExplicitX, At, Advance
    <3>2. PICK mp : mp = r.map
      OBVIOUS
    <3>3. mp.used \in 0 .. M /\ Flushed \in Blocks(mp)
      BY <1>0, <1>1, <3>1, <3>2, ExpandedBlocks
    <3>4. Swapped(mp, Flushed, g.q, controls, BlockOf(SL, r.delta)) \in Blocks(mp)
      BY <1>0, <3>3, SwappedTyped
    <3> HIDE DEF r, controls
    <3>5. (sv \in Blocks(am))'
      BY <3>1, <3>2, <3>4, SameBlocks
    <3>6. am'.b = am.b
      BY <1>0, <3>1, Room DEF r
    <3>7. QED
      BY <1>0, <3>1, <3>5, <3>6, Nothing DEF Shape
  <2>3. QED
    BY <2>1, <2>2
<1>8. CASE EnterCluster(g)
  <2>1. UNCHANGED <<am, M, acc, failed, phase>> /\ sv' = Flushed /\ window' = NoWindow
    BY <1>8 DEF EnterCluster
  <2>2. (sv \in Blocks(am))'
    BY <1>1, <2>1, SameBlocks
  <2>3. QED
    BY <1>0, <2>1, <2>2, Nothing DEF Shape
<1>9. CASE AbsorbU3(g)
  <2>1. /\ UNCHANGED <<am, M, sv, window, failed, phase>>
        /\ acc' = [acc EXCEPT ![g.q] = LeftMultiply(MatrixOf(g), @)]
    BY <1>9 DEF AbsorbU3
  <2>2. (sv \in Blocks(am))'
    BY <1>0, <2>1, SameBlocks DEF Shape
  <2>3. acc' \in [Qubits -> U3Matrices]
    <3>1. g.q \in Qubits /\ acc \in [Qubits -> U3Matrices]
      BY <1>0, CallsAssumption DEF Shape
    <3>2. LeftMultiply(MatrixOf(g), acc[g.q]) \in U3Matrices
      BY <1>0, <3>1, MatrixTyped, ProductTyped
    <3>3. QED
      BY <2>1, <3>1, <3>2
  <2>4. QED
    BY <1>0, <2>1, <2>2, <2>3 DEF Shape
<1>10. CASE EagerU3(g)
  <2> DEFINE r == SolveExpand(g.q)
             old == BatchApplied
             u == MatrixOf(g)
  <2>1. CASE Fail
    BY <1>6, <2>1
  <2>2. CASE ~Fail
    <3>1. /\ IsU3(g)
          /\ am' = r.map
          /\ sv' = Mixed(r.map, old, g.q, u, r.delta)
          /\ acc' = NoBatch
          /\ UNCHANGED <<M, window, failed, phase>>
      BY <1>10, <2>2 DEF EagerU3, InCluster
    <3>2. PICK mp : mp = r.map
      OBVIOUS
    <3>3. u \in U3Matrices /\ old \in Blocks(am)
      BY <1>0, MatrixTyped, BatchTyped DEF Shape
    <3>4. mp.used \in 0 .. M /\ old \in Blocks(mp) /\ r.delta \in SUBSET Nat
      BY <1>0, <3>1, <3>2, <3>3, ExpandedBlocks
    <3>6. am'.b = am.b
      BY <1>0, <3>1, Room
    <3> HIDE DEF r, old, u
    <3>5. Mixed(mp, old, g.q, u, r.delta) \in Blocks(mp)
      BY <1>0, <3>3, <3>4, BlockMixedTyped, InterMixedTyped DEF Mixed
    <3>7. (sv \in Blocks(am))'
      BY <3>1, <3>2, <3>5, SameBlocks
    <3>8. QED
      BY <1>0, <3>1, <3>6, <3>7, Nothing DEF Shape
  <2>3. QED
    BY <2>1, <2>2
<1>11. QED
  BY <1>2, <1>3, <1>4, <1>5, <1>7, <1>8, <1>9, <1>10 DEF GateStep

\* Address 0 is the first that rank 0 uses.
LEMMA RootUses ==
  ASSUME NEW m \in Nat, NEW k \in 0 .. m
  PROVE  LocalBits(Layout(m), k, Root) \in Nat
<1>1. /\ Layout(m).I \in Nat /\ Layout(m).J \in Nat /\ Layout(m).K \in Nat
      /\ Layout(m).I + Layout(m).J + Layout(m).K = m
  BY LayoutDivides
<1>2. PICK L : L = Layout(m)
  OBVIOUS
<1>3. CASE k <= L.I
  <2>1. ~(k > L.I /\ k <= L.I + L.K)
    BY <1>1, <1>2, <1>3
  <2>2. LocalBits(L, k, Root) = k
    BY Zenon, <1>3, <2>1 DEF LocalBits
  <2>3. QED
    BY <1>2, <2>2
<1>4. CASE k > L.I /\ k <= L.I + L.K
  <2>1. LocalBits(L, k, Root) = L.I
    BY <1>1, <1>2, <1>4 DEF LocalBits, Root
  <2>2. QED
    BY <1>1, <1>2, <2>1
<1>5. CASE k > L.I + L.K
  <2>1. LocalBits(L, k, Root) = k - L.K
    BY <1>1, <1>2, <1>5 DEF LocalBits
  <2>2. QED
    BY <1>1, <1>2, <1>5, <2>1
<1>6. QED
  BY <1>1, <1>2, <1>3, <1>4, <1>5

\* A fresh state vector: amplitude 1 at address 0 of rank 0.
FreshBlocks(m) ==
  [w \in Workers |-> [x \in Real(Layout(m).I + Layout(m).J) |->
                        IF w = Root /\ x = {} THEN 1 ELSE 0]]

LEMMA FreshTyped ==
  ASSUME NEW m \in Nat, NEW k \in 0 .. m
  PROVE  /\ FreshBlocks(m) \in [Workers -> [Real(Layout(m).I + Layout(m).J) -> Amps]]
         /\ \A w \in Workers :
              LET n == LocalBits(Layout(m), k, w) IN
              \A x \in Real(Layout(m).I + Layout(m).J) \ (IF n < 0 THEN {} ELSE Real(n)) :
                FreshBlocks(m)[w][x] = 0
<1> DEFINE n(w) == LocalBits(Layout(m), k, w)
           A == Real(Layout(m).I + Layout(m).J)
<1>1. {} \in IF n(Root) < 0 THEN {} ELSE Real(n(Root))
  <2>1. n(Root) \in Nat
    BY RootUses
  <2>2. QED
    BY <2>1 DEF Real
<1> HIDE DEF n
<1>2. FreshBlocks(m) = [w \in Workers |-> [x \in A |-> IF w = Root /\ x = {} THEN 1 ELSE 0]]
  BY DEF FreshBlocks
<1> HIDE DEF A
<1>3. FreshBlocks(m) \in [Workers -> [A -> Amps]]
  BY <1>2, SomeAmps
<1>4. ASSUME NEW w \in Workers, NEW x \in A \ (IF n(w) < 0 THEN {} ELSE Real(n(w)))
      PROVE  FreshBlocks(m)[w][x] = 0
  <2>1. ~(w = Root /\ x = {})
    BY <1>1
  <2>2. QED
    BY <1>2, <2>1
<1>5. QED
  BY <1>3, <1>4 DEF n, A

LEMMA ExecuteShape ==
  ASSUME StateInv, Execute, mode' = mode
  PROVE  Shape'
<1>1. /\ sv' = FreshBlocks(M')
      /\ phase' = [w \in Workers |-> 1]
      /\ window' = NoWindow
      /\ acc' = NoBatch
      /\ failed' = failed
      /\ am'.b = {}
  BY DEF Execute, FreshBlocks
<1>2. M' \in Nat /\ am'.used \in 0 .. M'
  BY ExecuteCapacity, RowsAssumption DEF StateInv, CapacityInv, Fitting, Regular
<1>3. (sv \in Blocks(am))'
  <2>1. PICK m, k, s : m = M' /\ k = am'.used /\ s = sv'
    OBVIOUS
  <2>2. m \in Nat /\ k \in 0 .. m /\ s = FreshBlocks(m)
    BY <1>1, <1>2, <2>1
  <2>3. /\ s \in [Workers -> [Real(Layout(m).I + Layout(m).J) -> Amps]]
        /\ \A w \in Workers :
             \A x \in Real(Layout(m).I + Layout(m).J)
                        \ (IF LocalBits(Layout(m), k, w) < 0 THEN {}
                           ELSE Real(LocalBits(Layout(m), k, w))) : s[w][x] = 0
    BY <2>2, FreshTyped
  <2>4. QED
    BY <2>1, <2>3 DEF Blocks, Active, Bits, BlockAddrs, SL
<1>4. QED
  BY <1>1, <1>3, Nothing, SomeAmps DEF StateInv, Shape, Basis

LEMMA InitState ==
  ASSUME Init
  PROVE  StateInv
<1>1. CapacityInv
  BY InitCapacity
<1>2. M = 0 /\ am.used = 0 /\ M \in Nat /\ am.used \in 0 .. M
  BY DEF Init
<1>3. BlockAddrs = {{}}
  <2>1. SL.I + SL.J = 0
    BY <1>2, Fields
  <2>2. QED
    BY <2>1, RealZero DEF BlockAddrs
<1>4. {} \in Active(am, Root)
  <2>1. 0 \in Nat /\ 0 \in 0 .. 0
    OBVIOUS
  <2>2. Bits(am, Root) \in Nat
    BY <1>2, <2>1, RootUses DEF Bits, SL
  <2>3. QED
    BY <2>2 DEF Active, Real
<1>5. sv \in Blocks(am)
  BY <1>3, <1>4, SomeAmps DEF Init, Blocks
<1>6. QED
  BY <1>1, <1>5, Nothing, SomeAmps DEF Init, StateInv, Shape, Basis

LEMMA NextState ==
  ASSUME StateInv, [Next]_vars
  PROVE  StateInv'
<1>0. /\ CapacityInv' /\ Fitting /\ Shape
      /\ M \in Nat /\ am.used \in 0 .. M
      /\ program \in Seq(Gate) /\ idx \in 0 .. Len(program) + 1
  BY NextCapacity, RowsAssumption DEF StateInv, CapacityInv, Fitting, Regular
<1>1. ASSUME UNCHANGED <<am, M, sv, window, acc, failed>>, phase' \in [Workers -> Amps]
      PROVE  Shape'
  <2>1. (sv \in Blocks(am))'
    BY <1>0, <1>1, SameBlocks DEF Shape
  <2>2. QED
    BY <1>0, <1>1, <2>1 DEF Shape
<1>2. CASE vars' = vars
  BY <1>0, <1>1, <1>2 DEF vars, StateInv, Shape
<1>3. CASE \E gs \in Calls : AddGates(gs)
  BY <1>0, <1>1, <1>3 DEF AddGates, StateInv, Shape
<1>4. CASE ClearGates
  BY <1>0, <1>1, <1>4, SomeAmps DEF ClearGates, StateInv
<1>5. CASE mode' = mode /\ Execute
  BY <1>0, <1>5, ExecuteShape DEF StateInv
<1>6. CASE mode' = mode /\ \E i \in DOMAIN program : i = idx /\ GateStep(program[i])
  <2>1. idx \in 1 .. Len(program) /\ GateStep(program[idx])
    BY <1>0, <1>6
  <2>2. QED
    BY <1>0, <1>6, <2>1, GateShape DEF StateInv
<1>7. CASE EndCluster
  <2>1. CASE Fail
    <3>1. UNCHANGED <<am, M, acc, phase, sv, window>> /\ failed' = TRUE
      BY <2>1 DEF Fail
    <3>2. (sv \in Blocks(am))'
      BY <1>0, <3>1, SameBlocks DEF Shape
    <3>3. QED
      BY <1>0, <3>1, <3>2 DEF Shape, StateInv
  <2>2. CASE ~Fail
    <3>1. UNCHANGED <<am, M, window, phase, failed>> /\ sv' = BatchApplied /\ acc' = NoBatch
      BY <1>7, <2>2 DEF EndCluster
    <3>2. BatchApplied \in Blocks(am)
      BY <1>0, BatchTyped DEF Shape
    <3>3. (sv \in Blocks(am))'
      BY <3>1, <3>2, SameBlocks
    <3>4. QED
      BY <1>0, <3>1, <3>3, Nothing DEF Shape, StateInv
  <2>3. QED
    BY <2>1, <2>2
<1>8. CASE Finish
  <2>1. UNCHANGED <<am, M, acc, phase, failed>> /\ sv' = Flushed /\ window' = NoWindow
    BY <1>8 DEF Finish
  <2>2. Flushed \in Blocks(am)
    BY <1>0, FlushTyped DEF Shape
  <2>3. (sv \in Blocks(am))'
    BY <2>1, <2>2, SameBlocks
  <2>4. QED
    BY <1>0, <2>1, <2>3, Nothing DEF Shape, StateInv
<1>9. QED
  BY <1>2, <1>3, <1>4, <1>5, <1>6, <1>7, <1>8 DEF Next, Step

\* The state keeps its shape: every block has the size its layout gives it, the
\* matrix has as many columns as sv_t counts bits in use, none more than capacity.
THEOREM TypeCorrect == Spec => []TypeOK
<1>1. Init => StateInv
  BY InitState
<1>2. StateInv /\ [Next]_vars => StateInv'
  BY NextState
<1>3. StateInv => TypeOK
  <2>1. SUFFICES ASSUME StateInv PROVE TypeOK
    OBVIOUS
  <2>2. /\ mode \in Modes /\ idx \in 0 .. Len(program) + 1
        /\ M \in 0 .. N /\ M \in Nat /\ am.used \in 0 .. M
        /\ am.used = Cols(am.cols) /\ Independent(am.cols, Cols(am.cols))
    BY <2>1, RowsAssumption DEF StateInv, CapacityInv, Fitting, Regular
  <2>3. am.cols \in [0 .. am.used - 1 -> Basis]
    BY <2>2 DEF Independent, Matrix, Basis, Qubits
  <2>4. sv \in [Workers -> [BlockAddrs -> Amps]]
    BY <2>1 DEF StateInv, Shape, Blocks
  <2>5. cluster \in BOOLEAN
    BY <2>1 DEF StateInv, CapacityInv, Waiting, Apart
  <2>6. QED
    BY <2>1, <2>2, <2>3, <2>4, <2>5 DEF StateInv, Shape, TypeOK
<1>4. QED
  BY <1>1, <1>2, <1>3, PTL DEF Spec

\* The addresses beyond the active part of a block hold zero on every worker, and
\* those of a worker that has none: expand() may take them in without writing, and
\* an execution never sees what an earlier one has left.
THEOREM TailIsZero == Spec => []UnusedIsZero
<1>1. Init => StateInv
  BY InitState
<1>2. StateInv /\ [Next]_vars => StateInv'
  BY NextState
<1>3. StateInv => UnusedIsZero
  BY DEF StateInv, Shape, Blocks, UnusedIsZero
<1>4. QED
  BY <1>1, <1>2, <1>3, PTL DEF Spec

-----------------------------------------------------------------------------
(***************************************************************************)
(* Dense states, and one-qubit operators on them.                          *)
(***************************************************************************)
States == [Basis -> Amps]

Fused(p, u, q) ==
  [v \in Basis |-> IF q \in v THEN OddOf(u, p[v \oplus {q}], p[v])
                              ELSE EvenOf(u, p[v], p[v \oplus {q}])]

LEMMA Neighbour ==
  ASSUME NEW v \in Basis, NEW q \in Qubits
  PROVE  /\ v \oplus {q} \in Basis
         /\ q \in v \oplus {q} <=> q \notin v
         /\ (v \oplus {q}) \oplus {q} = v
         /\ \A r : r # q => (r \in v \oplus {q} <=> r \in v)
<1>1. v \oplus {q} \in SUBSET Qubits
  BY XorClosed DEF Basis
<1>2. QED
  BY <1>1, XorCancel, XorMember DEF Basis

LEMMA FusedTyped ==
  ASSUME NEW p \in States, NEW u \in U3Matrices, NEW q \in Qubits
  PROVE  Fused(p, u, q) \in States
<1>1. ASSUME NEW v \in Basis
      PROVE  (IF q \in v THEN OddOf(u, p[v \oplus {q}], p[v])
                         ELSE EvenOf(u, p[v], p[v \oplus {q}])) \in Amps
  <2>1. p[v] \in Amps /\ p[v \oplus {q}] \in Amps
    BY Neighbour DEF States
  <2>2. QED
    BY <2>1, PairTyped
<1>2. QED
  BY <1>1 DEF Fused, States

LEMMA FusedIdentity ==
  ASSUME NEW p \in States, NEW q \in Qubits
  PROVE  Fused(p, Identity, q) = p
<1>1. ASSUME NEW v \in Basis PROVE Fused(p, Identity, q)[v] = p[v]
  <2>1. p[v] \in Amps /\ p[v \oplus {q}] \in Amps
    BY Neighbour DEF States
  <2>2. QED
    BY <2>1, PairIdentity DEF Fused
<1>2. Fused(p, Identity, q) \in States
  BY SomeAmps, FusedTyped
<1>3. QED
  BY <1>1, <1>2 DEF States

LEMMA FusedProduct ==
  ASSUME NEW p \in States, NEW n \in U3Matrices, NEW o \in U3Matrices, NEW q \in Qubits
  PROVE  Fused(Fused(p, o, q), n, q) = Fused(p, LeftMultiply(n, o), q)
<1> DEFINE s == Fused(p, o, q)
<1>1. ASSUME NEW v \in Basis PROVE Fused(s, n, q)[v] = Fused(p, LeftMultiply(n, o), q)[v]
  <2> DEFINE x == v \oplus {q}
  <2>1. /\ x \in Basis /\ (q \in x <=> q \notin v) /\ x \oplus {q} = v
    BY Neighbour
  <2>2. p[v] \in Amps /\ p[x] \in Amps
    BY <2>1 DEF States
  <2> HIDE DEF x
  <2>3. CASE q \in v
    <3>1. s[v] = OddOf(o, p[x], p[v]) /\ s[x] = EvenOf(o, p[x], p[v])
      BY <2>1, <2>3 DEF Fused, x
    <3>2. Fused(s, n, q)[v] = OddOf(n, s[x], s[v])
      BY <2>3 DEF Fused, x
    <3>3. Fused(p, LeftMultiply(n, o), q)[v] = OddOf(LeftMultiply(n, o), p[x], p[v])
      BY <2>3 DEF Fused, x
    <3>4. QED
      BY <2>2, <3>1, <3>2, <3>3, PairTwice
  <2>4. CASE q \notin v
    <3>1. s[v] = EvenOf(o, p[v], p[x]) /\ s[x] = OddOf(o, p[v], p[x])
      BY <2>1, <2>4 DEF Fused, x
    <3>2. Fused(s, n, q)[v] = EvenOf(n, s[v], s[x])
      BY <2>4 DEF Fused, x
    <3>3. Fused(p, LeftMultiply(n, o), q)[v] = EvenOf(LeftMultiply(n, o), p[v], p[x])
      BY <2>4 DEF Fused, x
    <3>4. QED
      BY <2>2, <3>1, <3>2, <3>3, PairTwice
  <2>5. QED
    BY <2>3, <2>4
<1>2. Fused(s, n, q) \in States /\ Fused(p, LeftMultiply(n, o), q) \in States
  BY FusedTyped, ProductTyped
<1> HIDE DEF s
<1>3. Fused(s, n, q) = Fused(p, LeftMultiply(n, o), q)
  BY <1>1, <1>2 DEF States
<1>4. QED
  BY <1>3 DEF s

LEMMA FusedCommute ==
  ASSUME NEW p \in States, NEW u \in U3Matrices, NEW w \in U3Matrices,
         NEW q \in Qubits, NEW r \in Qubits, q # r
  PROVE  Fused(Fused(p, w, r), u, q) = Fused(Fused(p, u, q), w, r)
<1> DEFINE s == Fused(p, w, r)
           t == Fused(p, u, q)
<1>1. ASSUME NEW v \in Basis PROVE Fused(s, u, q)[v] = Fused(t, w, r)[v]
  <2> DEFINE x == v \oplus {q}
             y == v \oplus {r}
             z == x \oplus {r}
  <2>1. /\ x \in Basis /\ (q \in x <=> q \notin v) /\ (r \in x <=> r \in v)
        /\ y \in Basis /\ (r \in y <=> r \notin v) /\ (q \in y <=> q \in v)
        /\ z \in Basis /\ y \oplus {q} = z
    <3>1. x \in Basis /\ y \in Basis
      BY Neighbour
    <3>2. z \in Basis
      BY <3>1, Neighbour
    <3>3. y \oplus {q} = z
      BY DEF \oplus
    <3>4. QED
      BY <3>1, <3>2, <3>3, Neighbour
  <2>2. p[v] \in Amps /\ p[x] \in Amps /\ p[y] \in Amps /\ p[z] \in Amps
    BY <2>1 DEF States
  <2>3. /\ s[v] = IF r \in v THEN OddOf(w, p[y], p[v]) ELSE EvenOf(w, p[v], p[y])
        /\ s[x] = IF r \in v THEN OddOf(w, p[z], p[x]) ELSE EvenOf(w, p[x], p[z])
        /\ t[v] = IF q \in v THEN OddOf(u, p[x], p[v]) ELSE EvenOf(u, p[v], p[x])
        /\ t[y] = IF q \in v THEN OddOf(u, p[z], p[y]) ELSE EvenOf(u, p[y], p[z])
    BY <2>1 DEF Fused
  <2>4. /\ Fused(s, u, q)[v] = IF q \in v THEN OddOf(u, s[x], s[v]) ELSE EvenOf(u, s[v], s[x])
        /\ Fused(t, w, r)[v] = IF r \in v THEN OddOf(w, t[y], t[v]) ELSE EvenOf(w, t[v], t[y])
    BY DEF Fused
  <2> HIDE DEF s, t, x, y, z
  <2>5. CASE q \in v /\ r \in v
    <3>1. Fused(s, u, q)[v] = OddOf(u, OddOf(w, p[z], p[x]), OddOf(w, p[y], p[v]))
      BY <2>1, <2>3, <2>4, <2>5
    <3>2. Fused(t, w, r)[v] = OddOf(w, OddOf(u, p[z], p[y]), OddOf(u, p[x], p[v]))
      BY <2>1, <2>3, <2>4, <2>5
    <3>3. QED
      BY <2>2, <3>1, <3>2, PairsCross
  <2>6. CASE q \in v /\ r \notin v
    <3>1. Fused(s, u, q)[v] = OddOf(u, EvenOf(w, p[x], p[z]), EvenOf(w, p[v], p[y]))
      BY <2>1, <2>3, <2>4, <2>6
    <3>2. Fused(t, w, r)[v] = EvenOf(w, OddOf(u, p[x], p[v]), OddOf(u, p[z], p[y]))
      BY <2>1, <2>3, <2>4, <2>6
    <3>3. QED
      BY <2>2, <3>1, <3>2, PairsCross, SMTT(30)
  <2>7. CASE q \notin v /\ r \in v
    <3>1. Fused(s, u, q)[v] = EvenOf(u, OddOf(w, p[y], p[v]), OddOf(w, p[z], p[x]))
      BY <2>1, <2>3, <2>4, <2>7
    <3>2. Fused(t, w, r)[v] = OddOf(w, EvenOf(u, p[y], p[z]), EvenOf(u, p[v], p[x]))
      BY <2>1, <2>3, <2>4, <2>7
    <3>3. QED
      BY <2>2, <3>1, <3>2, PairsCross
  <2>8. CASE q \notin v /\ r \notin v
    <3>1. Fused(s, u, q)[v] = EvenOf(u, EvenOf(w, p[v], p[y]), EvenOf(w, p[x], p[z]))
      BY <2>1, <2>3, <2>4, <2>8
    <3>2. Fused(t, w, r)[v] = EvenOf(w, EvenOf(u, p[v], p[x]), EvenOf(u, p[y], p[z]))
      BY <2>1, <2>3, <2>4, <2>8
    <3>3. QED
      BY <2>2, <3>1, <3>2, PairsCross
  <2>9. QED
    BY <2>5, <2>6, <2>7, <2>8
<1>2. Fused(s, u, q) \in States /\ Fused(t, w, r) \in States
  BY FusedTyped
<1> HIDE DEF s, t
<1>3. Fused(s, u, q) = Fused(t, w, r)
  BY <1>1, <1>2 DEF States
<1>4. QED
  BY <1>3 DEF s, t

(***************************************************************************)
(* Sums of angles: in any order, and one summand more.                     *)
(***************************************************************************)
Total(f, S) == FoldFunctionOnSet(+, 0, f, S)

PartialSums(g, f, S) ==
  /\ g \in [SUBSET S -> Int]
  /\ g[{}] = 0
  /\ \A T \in SUBSET S : T # {} =>
       \E i \in T : i = (CHOOSE e \in T : TRUE) /\ g[T] = f[i] + g[T \ {i}]

LEMMA TotalTyped ==
  ASSUME NEW S, IsFiniteSet(S), NEW f, \A i \in S : f[i] \in Int
  PROVE  Total(f, S) \in Int
BY SumTyped, Zenon DEF Total

LEMMA SumTable ==
  ASSUME NEW S, IsFiniteSet(S), NEW f, \A i \in S : f[i] \in Int
  PROVE  \E g : PartialSums(g, f, S) /\ Total(f, S) = g[S]
<1> DEFINE first == [T \in SUBSET S |-> CHOOSE i \in T : TRUE]
           Sum2 == [p \in S \X Int |-> f[p[1]] + p[2]]
           Eq(g) == g = [T \in SUBSET S |->
                           IF T = {} THEN 0
                           ELSE f[CHOOSE i \in T : TRUE] + g[T \ {CHOOSE i \in T : TRUE}]]
           iter == CHOOSE g : Eq(g)
<1>1. ChoosesIn(first, S)
  BY DEF ChoosesIn
<1>2. Sum2 \in [S \X Int -> Int]
  OBVIOUS
<1>3. \E g : Eq(g)
  <2>1. PICK g \in [SUBSET S -> Int] : Iterates(g, S, 0, first, Sum2)
    <3>1. 0 \in Int
      OBVIOUS
    <3> HIDE DEF first, Sum2
    <3>2. QED
      BY <1>1, <1>2, <3>1, IteratesExists
  <2>2. ASSUME NEW T \in SUBSET S, T # {}
        PROVE  Sum2[<<first[T], g[T \ {first[T]}]>>]
                 = f[CHOOSE i \in T : TRUE] + g[T \ {CHOOSE i \in T : TRUE}]
    <3>1. PICK i \in S : i = CHOOSE e \in T : TRUE
      BY <2>2
    <3>2. first[T] = i
      BY <3>1
    <3> HIDE DEF first
    <3>3. T \ {i} \in SUBSET S
      OBVIOUS
    <3>4. g[T \ {i}] \in Int
      BY <2>1, <3>3
    <3>5. ASSUME NEW n \in Int PROVE Sum2[<<i, n>>] = f[i] + n
      OBVIOUS
    <3> HIDE DEF Sum2
    <3>6. Sum2[<<i, g[T \ {i}]>>] = f[i] + g[T \ {i}]
      BY <3>4, <3>5
    <3>7. QED
      BY <3>1, <3>2, <3>6
  <2>3. Eq(g)
    BY <2>1, <2>2 DEF Iterates
  <2> HIDE DEF Eq
  <2>4. QED
    BY <2>3
<1>4. Eq(iter)
  <2> HIDE DEF Eq
  <2>1. QED
    BY <1>3
<1>5. Total(f, S) = iter[S]
  BY DEF Total, FoldFunctionOnSet, MapThenFoldSet
<1> HIDE DEF iter
<1>6. iter[{}] = 0 /\ iter = [T \in SUBSET S |-> iter[T]]
  <2>1. iter[{}] = 0
    BY <1>4
  <2>2. \E h : iter = [T \in SUBSET S |-> h[T]]
    <3> DEFINE h == [T \in SUBSET S |->
                           IF T = {} THEN 0
                           ELSE f[CHOOSE i \in T : TRUE] + iter[T \ {CHOOSE i \in T : TRUE}]]
    <3>1. iter = h
      BY <1>4
    <3>2. h = [T \in SUBSET S |-> h[T]]
      OBVIOUS
    <3> HIDE DEF h
    <3>3. QED
      BY <3>1, <3>2
  <2>3. QED
    BY <2>1, <2>2
<1>7. ASSUME NEW T \in SUBSET S, T # {}
      PROVE  \E i \in T : i = (CHOOSE e \in T : TRUE) /\ iter[T] = f[i] + iter[T \ {i}]
  <2>1. PICK i \in T : i = CHOOSE e \in T : TRUE
    BY <1>7
  <2>2. iter[T] = f[i] + iter[T \ {i}]
    BY <1>4, <1>7, <2>1
  <2>3. QED
    BY <2>1, <2>2
<1>8. ASSUME NEW R \in SUBSET S PROVE iter[R] \in Int
  <2> DEFINE F == {T \in SUBSET R : iter[T] \in Int}
  <2>1. {} \in F
    BY <1>6
  <2>2. ASSUME NEW T \in SUBSET R, T # {}, \A i \in T : T \ {i} \in F PROVE T \in F
    <3>1. PICK i \in T : iter[T] = f[i] + iter[T \ {i}]
      BY <1>7, <2>2
    <3>2. f[i] \in Int /\ iter[T \ {i}] \in Int
      BY <2>2
    <3>3. QED
      BY <3>1, <3>2
  <2>3. IsFiniteSet(R)
    BY FS_Subset
  <2> HIDE DEF F
  <2>4. R \in F
    BY <2>1, <2>2, <2>3, FiniteInduction
  <2>5. QED
    BY <2>4 DEF F
<1>9. PartialSums(iter, f, S)
  BY <1>6, <1>7, <1>8 DEF PartialSums
<1>10. QED
  BY <1>5, <1>9

\* A table of partial sums holds the sum of every part.
LEMMA SumOfPart ==
  ASSUME NEW S, IsFiniteSet(S), NEW f, NEW g, PartialSums(g, f, S),
         \A i \in S : f[i] \in Int,
         NEW R \in SUBSET S, NEW h, \A i \in R : h[i] = f[i]
  PROVE  Total(h, R) = g[R]
<1>1. IsFiniteSet(R)
  BY FS_Subset
<1>2. PICK t : PartialSums(t, h, R) /\ Total(h, R) = t[R]
  BY <1>1, SumTable
<1> DEFINE F == {T \in SUBSET R : t[T] = g[T]}
<1>3. {} \in F
  BY <1>2 DEF PartialSums
<1>4. ASSUME NEW T \in SUBSET R, T # {}, \A i \in T : T \ {i} \in F PROVE T \in F
  <2>1. T \in SUBSET S
    OBVIOUS
  <2>2. PICK i \in T : i = (CHOOSE e \in T : TRUE) /\ t[T] = h[i] + t[T \ {i}]
    BY <1>2, <1>4 DEF PartialSums
  <2>3. PICK j \in T : j = (CHOOSE e \in T : TRUE) /\ g[T] = f[j] + g[T \ {j}]
    BY <2>1, <1>4 DEF PartialSums
  <2>4. i = j
    BY <2>2, <2>3
  <2>5. t[T \ {i}] = g[T \ {i}] /\ h[i] = f[i]
    BY <1>4
  <2>6. QED
    BY <2>2, <2>3, <2>4, <2>5
<1> HIDE DEF F
<1>5. R \in F
  BY <1>1, <1>3, <1>4, FiniteInduction
<1>6. QED
  BY <1>2, <1>5 DEF F

LEMMA PartWithout ==
  ASSUME NEW S, IsFiniteSet(S), NEW f, NEW g, PartialSums(g, f, S),
         \A i \in S : f[i] \in Int
  PROVE  \A x \in S : g[S] = f[x] + g[S \ {x}]
<1> DEFINE F == {T \in SUBSET S : \A x \in T : g[T] = f[x] + g[T \ {x}]}
<1>1. {} \in F
  OBVIOUS
<1>2. ASSUME NEW T \in SUBSET S, T # {}, \A i \in T : T \ {i} \in F PROVE T \in F
  <2>1. PICK i \in T : g[T] = f[i] + g[T \ {i}]
    BY <1>2 DEF PartialSums
  <2>2. ASSUME NEW x \in T, x # i PROVE g[T] = f[x] + g[T \ {x}]
    <3>1. g[T \ {i}] = f[x] + g[(T \ {i}) \ {x}]
      BY <1>2, <2>2
    <3>2. g[T \ {x}] = f[i] + g[(T \ {x}) \ {i}]
      BY <1>2, <2>2
    <3>3. (T \ {i}) \ {x} = (T \ {x}) \ {i} /\ (T \ {i}) \ {x} \in SUBSET S
      OBVIOUS
    <3>4. g[(T \ {i}) \ {x}] \in Int /\ f[x] \in Int /\ f[i] \in Int
      BY <3>3 DEF PartialSums
    <3>5. PICK c \in Int : c = g[(T \ {i}) \ {x}]
      BY <3>4
    <3>6. PICK a \in Int, e \in Int : a = f[x] /\ e = f[i]
      BY <3>4
    <3>7. g[T \ {x}] = e + c /\ g[T \ {i}] = a + c
      BY <3>1, <3>2, <3>3, <3>5, <3>6
    <3>8. g[T] = e + (a + c) /\ e + (a + c) = a + (e + c)
      BY <2>1, <3>6, <3>7
    <3>9. QED
      BY <3>6, <3>7, <3>8
  <2>3. QED
    BY <2>1, <2>2
<1> HIDE DEF F
<1>3. S \in F
  BY <1>1, <1>2, FiniteInduction
<1>4. QED
  BY <1>3 DEF F

\* One summand apart from the others.
LEMMA SumWithout ==
  ASSUME NEW S, IsFiniteSet(S), NEW f, \A i \in S : f[i] \in Int, NEW x \in S,
         NEW h, \A i \in S \ {x} : h[i] = f[i]
  PROVE  Total(f, S) = f[x] + Total(h, S \ {x})
<1>1. PICK g : PartialSums(g, f, S) /\ Total(f, S) = g[S]
  BY SumTable
<1>2. g[S] = f[x] + g[S \ {x}]
  <2>1. PartialSums(g, f, S)
    BY <1>1
  <2>2. \A y \in S : g[S] = f[y] + g[S \ {y}]
    BY <2>1, PartWithout
  <2>3. QED
    BY <2>2
<1>3. Total(h, S \ {x}) = g[S \ {x}]
  BY <1>1, SumOfPart
<1>4. QED
  BY <1>1, <1>2, <1>3

LEMMA SumSame ==
  ASSUME NEW S, IsFiniteSet(S), NEW f, \A i \in S : f[i] \in Int,
         NEW h, \A i \in S : h[i] = f[i]
  PROVE  Total(h, S) = Total(f, S)
<1>1. PICK g : PartialSums(g, f, S) /\ Total(f, S) = g[S]
  BY SumTable
<1>2. Total(h, S) = g[S]
  BY <1>1, SumOfPart
<1>3. QED
  BY <1>1, <1>2

LEMMA SumNone ==
  ASSUME NEW f
  PROVE  Total(f, {}) = 0
<1>1. PICK g : PartialSums(g, f, {}) /\ Total(f, {}) = g[{}]
  BY SumTable, FS_EmptySet
<1>2. QED
  BY <1>1 DEF PartialSums

-----------------------------------------------------------------------------
\* What the class of a selector leaves out of an address it does not choose.
LEMMA ChosenByAll ==
  ASSUME NEW s \in Selectors, NEW x \in SUBSET Nat
  PROVE  Chooses(s, x) <=> Eval(s, x)
<1>1. s.alpha \in SUBSET Nat
  BY DEF Selectors
<1>2. s.alpha \cap PartFor(Class(s), x) = s.alpha \cap x
  <2>1. CASE s.alpha \subseteq Lane
    <3>1. Class(s) = "low"
      BY <2>1 DEF Class
    <3>2. PartFor(Class(s), x) = x \cap Lane
      BY <3>1 DEF PartFor
    <3>3. QED
      BY <2>1, <3>2
  <2>2. CASE ~(s.alpha \subseteq Lane) /\ s.alpha # {} /\ s.alpha \cap Lane = {}
    <3>1. Class(s) = "high"
      BY <2>2 DEF Class
    <3>2. PartFor(Class(s), x) = x \ Lane
      BY <3>1 DEF PartFor
    <3>3. QED
      BY <2>2, <3>2
  <2>3. CASE ~(s.alpha \subseteq Lane) /\ ~(s.alpha # {} /\ s.alpha \cap Lane = {})
    <3>1. Class(s) = "cross"
      BY <2>3 DEF Class
    <3>2. PartFor(Class(s), x) = x
      BY <3>1 DEF PartFor
    <3>3. QED
      BY <3>2
  <2>4. QED
    BY <2>1, <2>2, <2>3
<1>3. QED
  BY <1>2 DEF Chooses, Eval

\* A descriptor pushed on a window turns what it chooses once more.
LEMMA AngleOfNone ==
  ASSUME NEW x
  PROVE  AngleAt(<< >>, x) = 0
<1> DEFINE win == << >>
<1>1. {i \in DOMAIN win : \A s \in win[i].sels : Chooses(s, x)} = {}
  OBVIOUS
<1> HIDE DEF win
<1>2. AngleAt(win, x) = Total([i \in DOMAIN win |-> win[i].theta], {})
  BY <1>1, Zenon DEF AngleAt, Total
<1>3. QED
  BY <1>2, SumNone DEF win

LEMMA AngleOfMore ==
  ASSUME NEW win \in Seq(Descriptors), NEW d \in Descriptors, NEW x
  PROVE  AngleAt(Append(win, d), x)
           = AngleAt(win, x) + (IF \A s \in d.sels : Chooses(s, x) THEN d.theta ELSE 0)
<1> DEFINE more == Append(win, d)
           n == Len(win)
           f == [i \in DOMAIN win |-> win[i].theta]
           h == [i \in DOMAIN more |-> more[i].theta]
           Picks(e) == \A s \in e.sels : Chooses(s, x)
           S == {i \in DOMAIN win : Picks(win[i])}
           R == {i \in DOMAIN more : Picks(more[i])}
<1>1. /\ n \in Nat /\ DOMAIN win = 1 .. n /\ DOMAIN more = 1 .. n + 1
      /\ \A i \in 1 .. n : more[i] = win[i]
      /\ more[n + 1] = d
      /\ \A i \in 1 .. n + 1 : more[i] \in Descriptors
  <2>1. more \in Seq(Descriptors) /\ Len(more) = n + 1
    OBVIOUS
  <2>2. QED
    BY <2>1
<1>2. AngleAt(win, x) = Total(f, S)
  BY Zenon DEF AngleAt, Total
<1>3. AngleAt(more, x) = Total(h, R)
  BY Zenon DEF AngleAt, Total
<1> HIDE DEF Picks, more, n
<1>4. /\ \A i \in S : h[i] = f[i] /\ f[i] \in Int
      /\ \A i \in R : h[i] \in Int
      /\ n + 1 \notin S
      /\ h[n + 1] = d.theta
      /\ d.theta \in Int
  BY <1>1 DEF Descriptors
<1>5. IF Picks(d) THEN R = S \cup {n + 1} ELSE R = S
  BY <1>1
<1>6. IsFiniteSet(R) /\ IsFiniteSet(S)
  <2>1. IsFiniteSet(1 .. n) /\ IsFiniteSet(1 .. n + 1)
    BY <1>1, FS_Interval
  <2>2. S \in SUBSET (1 .. n) /\ R \in SUBSET (1 .. n + 1)
    BY <1>1
  <2> HIDE DEF S, R
  <2>3. QED
    BY <2>1, <2>2, FS_Subset
<1> HIDE DEF S, R, f, h
<1>7. Total(f, S) \in Int
  BY <1>4, <1>6, TotalTyped
<1>11. AngleAt(win, x) \in Int /\ \A a \in Int, c \in Int : a + c = c + a /\ a + 0 = a
  BY <1>2, <1>7
<1>8. CASE Picks(d)
  <2>1. n + 1 \in R /\ R \ {n + 1} = S
    BY <1>4, <1>5, <1>8
  <2>2. Total(h, R) = h[n + 1] + Total(f, S)
    <3>1. Total(h, R) = h[n + 1] + Total(f, R \ {n + 1})
      BY <1>4, <1>6, <2>1, SumWithout
    <3>2. QED
      BY <2>1, <3>1
  <2>3. QED
    BY <1>2, <1>3, <1>4, <1>8, <2>2, <1>11 DEF Picks, more
<1>9. CASE ~Picks(d)
  <2>1. R = S
    BY <1>5, <1>9
  <2>2. Total(h, S) = Total(f, S)
    BY <1>4, <1>6, SumSame
  <2>3. Total(h, R) = Total(f, S)
    BY <2>1, <2>2
  <2>4. QED
    BY <1>2, <1>3, <1>9, <2>3, <1>11 DEF Picks, more
<1>10. QED
  BY <1>8, <1>9

(***************************************************************************)
(* Addresses.  Glob(w, x) is the address that worker w holds at x of its    *)
(* block.  A layout has one kind of high field: the blocks are not cut into *)
(* segments, or there is one worker.                                        *)
(***************************************************************************)
Glob(w, x) == BlockStart(SL, w) \cup x

OneField == SL.J = 0 \/ SL.K = 0

LEMMA Joined ==
  ASSUME NEW n \in Nat, NEW w \in SUBSET Nat, NEW x \in SUBSET (0 .. n - 1)
  PROVE  /\ HigherBits(ShiftUp(w, n) \cup x, n) = w
         /\ LowerBits(ShiftUp(w, n) \cup x, n) = x
         /\ ShiftUp(w, n) \cap x = {}
<1>1. \A i \in w : i + n \in Int /\ i + n >= n /\ ~(i + n < n) /\ (i + n) - n = i
  OBVIOUS
<1>2. \A i \in x : i < n /\ ~(i >= n)
  OBVIOUS
<1>3. HigherBits(ShiftUp(w, n) \cup x, n) = w
  <2>1. ASSUME NEW i \in w PROVE i \in HigherBits(ShiftUp(w, n) \cup x, n)
    <3>1. i + n \in {j \in ShiftUp(w, n) \cup x : j >= n}
      BY <1>1 DEF ShiftUp
    <3>2. (i + n) - n \in HigherBits(ShiftUp(w, n) \cup x, n)
      BY <3>1 DEF HigherBits
    <3>3. QED
      BY <1>1, <3>2
  <2>2. ASSUME NEW i \in HigherBits(ShiftUp(w, n) \cup x, n) PROVE i \in w
    <3>1. PICK j \in ShiftUp(w, n) \cup x : j >= n /\ i = j - n
      BY DEF HigherBits
    <3>2. j \in ShiftUp(w, n)
      BY <1>2, <3>1
    <3>3. PICK k \in w : j = k + n
      BY <3>2 DEF ShiftUp
    <3>4. QED
      BY <1>1, <3>1, <3>3
  <2>3. QED
    BY <2>1, <2>2
<1>4. LowerBits(ShiftUp(w, n) \cup x, n) = x
  <2>1. \A j \in ShiftUp(w, n) : ~(j < n)
    BY <1>1 DEF ShiftUp
  <2> DEFINE u == ShiftUp(w, n)
  <2> HIDE DEF u
  <2>2. (\A j \in u : ~(j < n)) => LowerBits(u \cup x, n) = x
    BY <1>2 DEF LowerBits
  <2>3. QED
    BY <2>1, <2>2 DEF u
<1>5. ShiftUp(w, n) \cap x = {}
  BY <1>1, <1>2 DEF ShiftUp
<1>6. QED
  BY <1>3, <1>4, <1>5

LEMMA Rejoined ==
  ASSUME NEW n \in Nat, NEW x \in SUBSET Nat
  PROVE  /\ ShiftUp(HigherBits(x, n), n) \cup LowerBits(x, n) = x
         /\ HigherBits(x, n) \in SUBSET Nat
         /\ LowerBits(x, n) \in SUBSET (0 .. n - 1)
<1>1. \A i \in x : i \in Nat /\ (i >= n => i - n \in Nat /\ (i - n) + n = i)
  OBVIOUS
<1>2. HigherBits(x, n) \in SUBSET Nat
  <2>1. ASSUME NEW k \in HigherBits(x, n) PROVE k \in Nat
    <3>1. PICK j \in x : j >= n /\ k = j - n
      BY DEF HigherBits
    <3>2. QED
      BY <1>1, <3>1
  <2>2. QED
    BY <2>1
<1>3. LowerBits(x, n) \in SUBSET (0 .. n - 1)
  <2>1. ASSUME NEW i \in x, i < n PROVE i \in 0 .. n - 1
    <3>1. i \in Nat
      BY <1>1
    <3>2. QED
      BY <2>1, <3>1
  <2>2. LowerBits(x, n) = {i \in x : i < n}
    BY DEF LowerBits
  <2>3. QED
    BY <2>1, <2>2
<1>4. ASSUME NEW i \in x PROVE i \in ShiftUp(HigherBits(x, n), n) \cup LowerBits(x, n)
  <2>1. CASE i >= n
    <3>1. i - n \in HigherBits(x, n)
      BY <2>1 DEF HigherBits
    <3>2. (i - n) + n \in ShiftUp(HigherBits(x, n), n)
      BY <3>1 DEF ShiftUp
    <3>3. QED
      BY <1>1, <2>1, <3>2
  <2>2. CASE ~(i >= n)
    BY <1>1, <2>2 DEF LowerBits
  <2>3. QED
    BY <2>1, <2>2
<1>5. ASSUME NEW i \in ShiftUp(HigherBits(x, n), n) PROVE i \in x
  <2>1. PICK k \in HigherBits(x, n) : i = k + n
    BY DEF ShiftUp
  <2>2. PICK j \in x : j >= n /\ k = j - n
    BY DEF HigherBits
  <2>3. QED
    BY <1>1, <2>1, <2>2
<1>6. LowerBits(x, n) \subseteq x
  BY DEF LowerBits
<1>7. QED
  BY <1>2, <1>3, <1>4, <1>5, <1>6

LEMMA ShiftXor ==
  ASSUME NEW n \in Nat, NEW w \in SUBSET Nat, NEW v \in SUBSET Nat
  PROVE  ShiftUp(w \oplus v, n) = ShiftUp(w, n) \oplus ShiftUp(v, n)
<1>1. \A i \in Nat, j \in Nat : i + n = j + n => i = j
  OBVIOUS
<1>2. ASSUME NEW e, e \in ShiftUp(w \oplus v, n) PROVE e \in ShiftUp(w, n) \oplus ShiftUp(v, n)
  BY <1>1, <1>2 DEF ShiftUp, \oplus
<1>3. ASSUME NEW e, e \in ShiftUp(w, n) \oplus ShiftUp(v, n) PROVE e \in ShiftUp(w \oplus v, n)
  BY <1>1, <1>3 DEF ShiftUp, \oplus
<1>4. QED
  BY <1>2, <1>3

LEMMA WorkersNatural == Workers \subseteq SUBSET Nat
BY LayoutAssumption DEF Workers, Real

LEMMA GlobFields ==
  ASSUME M \in Nat, NEW w \in SUBSET Nat, NEW x \in BlockAddrs
  PROVE  /\ HigherBits(Glob(w, x), SL.I + SL.J) = w
         /\ LowerBits(Glob(w, x), SL.I + SL.J) = x
         /\ Glob(w, x) = BlockStart(SL, w) \oplus x
         /\ BlockStart(SL, w) = ShiftUp(w, SL.I + SL.J)
<1>1. PICK n \in Nat : n = SL.I + SL.J /\ BlockAddrs = SUBSET (0 .. n - 1)
  BY Fields
<1>2. BlockStart(SL, w) = ShiftUp(w, n)
  BY <1>1 DEF BlockStart
<1>3. /\ HigherBits(ShiftUp(w, n) \cup x, n) = w
      /\ LowerBits(ShiftUp(w, n) \cup x, n) = x
      /\ ShiftUp(w, n) \cap x = {}
  BY <1>1, Joined
<1>4. ShiftUp(w, n) \cup x = ShiftUp(w, n) \oplus x
  BY <1>3 DEF \oplus
<1>5. QED
  BY <1>1, <1>2, <1>3, <1>4 DEF Glob

LEMMA GlobXor ==
  ASSUME M \in Nat, NEW w \in SUBSET Nat, NEW v \in SUBSET Nat,
         NEW x \in BlockAddrs, NEW y \in BlockAddrs
  PROVE  /\ x \oplus y \in BlockAddrs
         /\ w \oplus v \in SUBSET Nat
         /\ Glob(w \oplus v, x \oplus y) = Glob(w, x) \oplus Glob(v, y)
<1>1. PICK n \in Nat : n = SL.I + SL.J /\ BlockAddrs = SUBSET (0 .. n - 1)
  BY Fields
<1>2. x \oplus y \in BlockAddrs /\ w \oplus v \in SUBSET Nat
  BY <1>1, XorClosed, ZenonT(60)
<1>3. /\ Glob(w, x) = ShiftUp(w, n) \oplus x /\ Glob(v, y) = ShiftUp(v, n) \oplus y
      /\ Glob(w \oplus v, x \oplus y) = ShiftUp(w \oplus v, n) \oplus (x \oplus y)
  BY <1>1, <1>2, GlobFields
<1>4. ShiftUp(w \oplus v, n) = ShiftUp(w, n) \oplus ShiftUp(v, n)
  BY <1>1, ShiftXor
<1> DEFINE a == ShiftUp(w, n)
           c == ShiftUp(v, n)
<1>5. (a \oplus c) \oplus (x \oplus y) = (a \oplus x) \oplus (c \oplus y)
  <2> HIDE DEF a, c
  <2>1. QED
    BY DEF \oplus
<1>6. Glob(w \oplus v, x \oplus y) = Glob(w, x) \oplus Glob(v, y)
  BY <1>3, <1>4, <1>5, Zenon
<1>7. QED
  BY <1>2, <1>6

\* A distance falls apart into its two fields.
LEMMA GlobSplit ==
  ASSUME M \in Nat, NEW d \in Real(M)
  PROVE  /\ WorkerOf(SL, d) \in SUBSET (0 .. SL.K - 1)
         /\ WorkerOf(SL, d) \in SUBSET Nat
         /\ BlockOf(SL, d) \in BlockAddrs
         /\ Glob(WorkerOf(SL, d), BlockOf(SL, d)) = d
<1>1. PICK n \in Nat, k \in Nat : /\ n = SL.I + SL.J /\ k = SL.K /\ n + k = M
                                  /\ BlockAddrs = SUBSET (0 .. n - 1)
  BY Fields
<1>2. d \in SUBSET Nat /\ \A i \in d : i \in Nat /\ i < n + k
  BY <1>1 DEF Real
<1>3. HigherBits(d, n) \subseteq 0 .. k - 1
  <2>1. ASSUME NEW e \in HigherBits(d, n) PROVE e \in 0 .. k - 1
    <3>1. PICK j \in d : j >= n /\ e = j - n
      BY DEF HigherBits
    <3>2. QED
      BY <1>1, <1>2, <3>1
  <2>2. QED
    BY <2>1
<1>4. LowerBits(HigherBits(d, n), k) = HigherBits(d, n)
  <2> DEFINE h == HigherBits(d, n)
  <2>1. \A i \in h : i < k
    BY <1>1, <1>3
  <2> HIDE DEF h
  <2>2. LowerBits(h, k) = h
    BY <2>1 DEF LowerBits
  <2>3. QED
    BY <2>2 DEF h
<1>5. WorkerOf(SL, d) = HigherBits(d, n) /\ BlockOf(SL, d) = LowerBits(d, n)
  <2>1. WorkerOf(SL, d) = LowerBits(HigherBits(d, n), k)
    BY <1>1, Zenon DEF WorkerOf
  <2>2. BlockOf(SL, d) = LowerBits(d, n)
    BY <1>1, Zenon DEF BlockOf
  <2>3. QED
    BY <1>4, <2>1, <2>2
<1>6. ShiftUp(HigherBits(d, n), n) \cup LowerBits(d, n) = d /\ LowerBits(d, n) \in SUBSET (0 .. n - 1)
  BY <1>2, Rejoined
<1>7. Glob(HigherBits(d, n), LowerBits(d, n)) = d
  BY <1>1, <1>6 DEF Glob, BlockStart
<1>8. HigherBits(d, n) \in SUBSET Nat
  BY <1>1, <1>3
<1>9. QED
  BY <1>1, <1>3, <1>5, <1>6, <1>7, <1>8

\* With one worker the blocks may have segments; otherwise a layout with segments
\* spreads the segments over workers.
LEMMA SegmentsOfOne ==
  ASSUME M \in Nat, OneField, SL.J # 0
  PROVE  LogProcs = 0 /\ SL.K = 0 /\ Workers = {{}}
<1>1. SL.K = 0
  BY DEF OneField
<1>2. LogProcs = 0
  <2>1. SUFFICES ASSUME LogProcs # 0 PROVE FALSE
    OBVIOUS
  <2> DEFINE K == IF M > MinI THEN AtMost(LogProcs, M - MinI) ELSE 0
  <2>2. LogProcs \in Nat /\ MinI \in Nat
    BY LayoutAssumption
  <2>3. SL.K = K
    BY DEF SL, Layout
  <2>4. ~(M > MinI)
    <3>1. SUFFICES ASSUME M > MinI PROVE FALSE
      OBVIOUS
    <3>2. K = AtMost(LogProcs, M - MinI) /\ M - MinI \in Nat /\ M - MinI > 0
      BY <2>2, <3>1
    <3>3. K > 0
      BY <2>1, <2>2, <3>2, OfTwo
    <3>4. QED
      BY <1>1, <2>3, <3>3
  <2>5. M - 0 = M /\ M <= MinI
    BY <2>2, <2>4
  <2>6. SL.I = M
    <3> DEFINE local == M - K
               wanted == AtMost(AtLeast(MinI, MaxI), AtMost(local, AtLeast(MinI, TargetI)))
               split == IF local > MinJ THEN AtMost(wanted, local - MinJ) ELSE wanted
               I == CASE LogProcs = 0  -> AtMost(M, MinI)
                      [] local <= MinI -> local
                      [] split < MinI  -> AtMost(local, MinI)
                      [] OTHER         -> split
    <3>1. SL = [I |-> I, J |-> local - I, K |-> K]
      BY DEF SL, Layout
    <3>2. K = 0
      BY <2>4
    <3>3. local = M /\ local <= MinI
      BY <2>5, <3>2
    <3> HIDE DEF K, local, wanted, split
    <3>4. I = local
      <4>1. AtMost(local, MinI) = local
        BY <2>2, <3>3, OfTwo
      <4>2. QED
        BY <2>1, <3>3, <4>1
    <3> HIDE DEF I
    <3>5. SL.I = I
      <4>1. [I |-> I, J |-> local - I, K |-> K].I = I
        OBVIOUS
      <4>2. QED
        BY <3>1, <4>1
    <3>6. QED
      BY <3>3, <3>4, <3>5
  <2>7. SL.I \in Nat /\ SL.J \in Nat /\ SL.I + SL.J + SL.K = M
    BY Fields
  <2>8. QED
    BY <1>1, <2>6, <2>7
<1>3. Workers = {{}}
  BY <1>2, RealZero DEF Workers
<1>4. QED
  BY <1>1, <1>2, <1>3

(***************************************************************************)
(* The addresses in use are those of the active parts of the blocks.       *)
(***************************************************************************)
Site(w, x) == [w |-> w, at |-> x]

LEMMA HomeSmall ==
  ASSUME M \in Nat, NEW k \in 0 .. M, k <= SL.I, NEW x
  PROVE  Home(SL, k, x) = Site(HigherBits(x, k), LowerBits(x, k))
<1>1. ~(k > SL.I /\ k <= SL.I + SL.K)
  BY Fields
<1>2. QED
  BY <1>1 DEF Home, Site

LEMMA HomeMiddle ==
  ASSUME M \in Nat, NEW k \in 0 .. M, k > SL.I, k <= SL.I + SL.K, NEW x
  PROVE  Home(SL, k, x) = Site(HigherBits(x, SL.I), LowerBits(x, SL.I))
<1>1. ~(k <= SL.I)
  BY Fields
<1>2. QED
  BY <1>1 DEF Home, Site

LEMMA HomeLarge ==
  ASSUME M \in Nat, NEW k \in 0 .. M, k > SL.I + SL.K, NEW x
  PROVE  Home(SL, k, x) = Site(HigherBits(x, k - SL.K), LowerBits(x, k - SL.K))
<1>1. ~(k <= SL.I) /\ ~(k > SL.I /\ k <= SL.I + SL.K)
  BY Fields
<1>2. QED
  BY <1>1 DEF Home, Site

\* A set of small numbers is its own lower part.
LEMMA LowOnly ==
  ASSUME NEW n \in Nat, NEW x \in SUBSET (0 .. n - 1)
  PROVE  HigherBits(x, n) = {} /\ LowerBits(x, n) = x
<1>1. ShiftUp({}, n) \cup x = x
  BY DEF ShiftUp
<1>2. QED
  BY <1>1, Joined

\* A worker's active address, seen from the whole vector.
LEMMA InUse ==
  ASSUME M \in Nat, OneField, NEW mp, mp.used \in 0 .. M,
         NEW w \in Workers, NEW x \in Active(mp, w)
  PROVE  /\ Glob(w, x) \in Real(mp.used)
         /\ Home(SL, mp.used, Glob(w, x)) = Site(w, x)
         /\ x \in BlockAddrs /\ x \in SUBSET (0 .. Bits(mp, w) - 1)
         /\ w \in SUBSET Nat
<1>1. PICK k \in 0 .. M, I \in Nat, J \in Nat, K \in Nat :
        k = mp.used /\ I = SL.I /\ J = SL.J /\ K = SL.K /\ I + J + K = M
  BY Fields
<1>2. /\ k <= I => Bits(mp, w) = IF w = {} THEN k ELSE -1
      /\ k > I /\ k <= I + K => Bits(mp, w) = IF w \subseteq 0 .. k - I - 1 THEN I ELSE -1
      /\ k > I + K => Bits(mp, w) = k - K
  BY <1>1, BitsInUse DEF Root
<1>3. ~(Bits(mp, w) < 0) /\ x \in SUBSET (0 .. Bits(mp, w) - 1)
  BY DEF Active, Real
<1>4. w \in SUBSET Nat /\ x \in BlockAddrs
  BY WorkersNatural, ActiveInBlock
<1>5. Glob(w, x) = ShiftUp(w, I + J) \cup x
  BY <1>1, Zenon DEF Glob, BlockStart
<1>6. ASSUME w = {} PROVE Glob(w, x) = x
  BY <1>5, <1>6 DEF ShiftUp
<1>7. CASE k <= I
  <2>1. w = {} /\ x \in SUBSET (0 .. k - 1)
    BY <1>2, <1>3, <1>7
  <2>2. Home(SL, k, x) = Site({}, x)
    <3>1. k \in Nat
      OBVIOUS
    <3>2. HigherBits(x, k) = {} /\ LowerBits(x, k) = x
      BY <2>1, <3>1, LowOnly
    <3>3. QED
      BY <1>1, <1>7, <3>2, HomeSmall
  <2>3. QED
    BY <1>1, <1>3, <1>4, <1>6, <2>1, <2>2 DEF Real
<1>8. CASE k > I /\ J = 0
  <2>1. k <= I + K /\ I + J = I /\ ~(-1 >= 0)
    BY <1>1, <1>8
  <2>2. w \subseteq 0 .. k - I - 1 /\ x \in SUBSET (0 .. I - 1)
    BY <1>2, <1>3, <1>8, <2>1
  <2>3. Home(SL, k, Glob(w, x)) = Site(w, x)
    <3>1. HigherBits(Glob(w, x), I) = w /\ LowerBits(Glob(w, x), I) = x
      BY <1>4, <1>5, <2>1, <2>2, Joined
    <3>2. QED
      BY <1>1, <1>8, <2>1, <3>1, HomeMiddle
  <2>4. Glob(w, x) \in Real(k)
    <3>1. ShiftUp(w, I) \subseteq 0 .. k - 1
      BY <2>2 DEF ShiftUp
    <3>2. x \subseteq 0 .. k - 1
      BY <1>8, <2>2
    <3>3. QED
      BY <1>5, <2>1, <3>1, <3>2 DEF Real
  <2>5. QED
    BY <1>1, <1>3, <1>4, <2>3, <2>4
<1>9. CASE k > I /\ J # 0
  <2>1. K = 0 /\ w = {} /\ k - K = k /\ k \in Nat
    BY <1>1, <1>9, SegmentsOfOne
  <2>2. k > I + K /\ x \in SUBSET (0 .. k - 1)
    BY <1>2, <1>3, <1>9, <2>1
  <2>3. Home(SL, k, x) = Site({}, x)
    <3>1. HigherBits(x, k) = {} /\ LowerBits(x, k) = x
      BY <2>1, <2>2, LowOnly
    <3>2. QED
      BY <1>1, <2>1, <2>2, <3>1, HomeLarge
  <2>4. QED
    BY <1>1, <1>3, <1>4, <1>6, <2>1, <2>2, <2>3 DEF Real
<1>10. QED
  BY <1>7, <1>8, <1>9

LEMMA InUseBack ==
  ASSUME M \in Nat, OneField, NEW mp, mp.used \in 0 .. M, NEW X \in Real(mp.used)
  PROVE  \E w \in Workers : \E x \in Active(mp, w) :
           Home(SL, mp.used, X) = Site(w, x) /\ Glob(w, x) = X
<1> DEFINE h == Home(SL, mp.used, X)
<1>1. PICK k \in 0 .. M : k = mp.used
  OBVIOUS
<1>2. /\ h.w \in Workers
      /\ LocalBits(SL, k, h.w) \in Nat
      /\ h.at \in Real(LocalBits(SL, k, h.w))
      /\ \A y \in Real(k) : Home(SL, k, y) = h => y = X
  <2>1. LET L == Layout(M)
            g == Home(L, k, X)
        IN /\ g.w \in Workers
           /\ LocalBits(L, k, g.w) \in 0 .. L.I + L.J
           /\ g.at \in Real(LocalBits(L, k, g.w))
           /\ \A y \in Real(k) : Home(L, k, y) = g => y = X
    BY <1>1, BlocksHoldState
  <2>2. QED
    BY <1>1, <2>1 DEF SL
<1>3. h.at \in Active(mp, h.w)
  BY <1>1, <1>2 DEF Active, Bits
<1>4. h = Site(h.w, h.at)
  BY DEF Home, Site
<1> HIDE DEF h
<1>5. /\ Glob(h.w, h.at) \in Real(mp.used)
      /\ Home(SL, mp.used, Glob(h.w, h.at)) = Site(h.w, h.at)
  BY <1>2, <1>3, InUse
<1>6. Glob(h.w, h.at) = X
  BY <1>1, <1>2, <1>4, <1>5
<1>7. QED
  BY <1>2, <1>3, <1>4, <1>6 DEF h

\* The partner of an active address is active, on the worker the distance names.
LEMMA PartnerActive ==
  ASSUME M \in Nat, OneField, NEW mp, mp.used \in 0 .. M,
         NEW w \in Workers, NEW x \in Active(mp, w), NEW d \in Real(mp.used)
  PROVE  /\ w \oplus WorkerOf(SL, d) \in Workers
         /\ x \oplus BlockOf(SL, d) \in Active(mp, w \oplus WorkerOf(SL, d))
         /\ Glob(w \oplus WorkerOf(SL, d), x \oplus BlockOf(SL, d)) = Glob(w, x) \oplus d
<1> DEFINE v == w \oplus WorkerOf(SL, d)
           y == x \oplus BlockOf(SL, d)
<1>1. d \in Real(M)
  BY DEF Real
<1>2. /\ WorkerOf(SL, d) \in SUBSET Nat /\ BlockOf(SL, d) \in BlockAddrs
      /\ Glob(WorkerOf(SL, d), BlockOf(SL, d)) = d
  BY <1>1, GlobSplit
<1>3. w \in SUBSET Nat /\ x \in BlockAddrs /\ Glob(w, x) \in Real(mp.used)
  BY InUse
<1>4. v \in SUBSET Nat /\ y \in BlockAddrs /\ Glob(v, y) = Glob(w, x) \oplus d
  <2>1. PICK p \in SUBSET Nat, c \in BlockAddrs :
          p = WorkerOf(SL, d) /\ c = BlockOf(SL, d) /\ Glob(p, c) = d
    BY <1>2
  <2>2. /\ x \oplus c \in BlockAddrs /\ w \oplus p \in SUBSET Nat
        /\ Glob(w \oplus p, x \oplus c) = Glob(w, x) \oplus Glob(p, c)
    BY <1>3, GlobXor, ZenonT(60)
  <2>3. QED
    BY <2>1, <2>2
<1>5. Glob(w, x) \oplus d \in Real(mp.used)
  BY <1>3, RealXor
<1>6. PICK a \in Workers : \E e \in Active(mp, a) : Glob(a, e) = Glob(w, x) \oplus d
  BY <1>5, InUseBack
<1>7. PICK e \in Active(mp, a) : Glob(a, e) = Glob(w, x) \oplus d
  BY <1>6
<1>8. a \in SUBSET Nat /\ e \in BlockAddrs
  BY InUse
<1> HIDE DEF v, y
<1>9. a = v /\ e = y
  BY <1>4, <1>7, <1>8, GlobFields
<1>10. QED
  BY <1>4, <1>7, <1>9 DEF v, y

LEMMA PartnerLocal ==
  ASSUME M \in Nat, OneField, NEW mp, mp.used \in 0 .. M,
         NEW w \in Workers, NEW x \in Active(mp, w), NEW d \in Real(mp.used),
         WorkerOf(SL, d) = {}
  PROVE  /\ x \oplus BlockOf(SL, d) \in Active(mp, w)
         /\ Glob(w, x \oplus BlockOf(SL, d)) = Glob(w, x) \oplus d
<1>1. w \oplus WorkerOf(SL, d) = w
  BY XorEmpty
<1>2. /\ x \oplus BlockOf(SL, d) \in Active(mp, w \oplus WorkerOf(SL, d))
      /\ Glob(w \oplus WorkerOf(SL, d), x \oplus BlockOf(SL, d)) = Glob(w, x) \oplus d
  BY PartnerActive
<1>3. QED
  BY <1>1, <1>2

\* Blocks without segments: what an exchange between workers finds.
LEMMA Exchanged2 ==
  ASSUME M \in Nat, OneField, NEW mp, mp.used \in 0 .. M,
         NEW w \in Workers, NEW x \in Active(mp, w), NEW d \in Real(mp.used),
         WorkerOf(SL, d) # {}
  PROVE  /\ OffsetOf(SL, x) = x /\ OffsetOf(SL, d) = BlockOf(SL, d)
         /\ BlockStart(SL, w) \cup (x \ OffsetOf(SL, x)) = BlockStart(SL, w)
         /\ x \in SUBSET (0 .. SL.I - 1)
<1>1. PICK I \in Nat, J \in Nat : I = SL.I /\ J = SL.J /\ BlockAddrs = SUBSET (0 .. I + J - 1)
  BY Fields
<1>2. d \in Real(M)
  BY DEF Real
<1>3. SL.K # 0
  <2>1. WorkerOf(SL, d) \in SUBSET (0 .. SL.K - 1)
    BY <1>2, GlobSplit
  <2>2. QED
    BY <2>1
<1>4. J = 0 /\ I + J = I
  BY <1>1, <1>3 DEF OneField
<1>5. x \in SUBSET (0 .. I - 1)
  BY <1>1, <1>4, InUse
<1>6. LowerBits(x, I) = x
  BY <1>5, LowOnly
<1>7. OffsetOf(SL, x) = x
  BY <1>1, <1>6, Zenon DEF OffsetOf
<1>8. OffsetOf(SL, d) = BlockOf(SL, d)
  BY <1>1, <1>4, Zenon DEF OffsetOf, BlockOf
<1>9. QED
  BY <1>1, <1>5, <1>7, <1>8

-----------------------------------------------------------------------------
\* The basis state at address X under the map mp.
Virtual(mp, X) == Mul(mp.cols, X) \oplus mp.b

\* make_local_selector(): the bits of the block address and the bits of the
\* block number together choose as the whole row does.
LEMMA SelectorReads ==
  ASSUME M \in Nat, OneField, NEW mp, mp.used \in 0 .. M, mp.cols \in Matrix(mp.used),
         NEW w \in Workers, NEW x \in Active(mp, w), NEW q \in Qubits,
         NEW n \in Nat, x \in SUBSET (0 .. n - 1)
  PROVE  Eval(LocalSelector(mp, q, BlockStart(SL, w), n), x) <=> q \in Virtual(mp, Glob(w, x))
<1> DEFINE k == mp.used
           base == BlockStart(SL, w)
           row == GetRow(mp.cols, q)
<1>1. Glob(w, x) \in Real(k) /\ x \in BlockAddrs /\ w \in SUBSET Nat
  BY InUse
<1>2. Glob(w, x) = base \oplus x
  BY <1>1, GlobFields
<1>3. base \in Real(k) /\ x \in Real(k)
  <2>1. base \subseteq Glob(w, x) /\ x \subseteq Glob(w, x)
    BY DEF Glob
  <2>2. QED
    BY <1>1, <2>1 DEF Real
<1>4. k \in Nat /\ q \in Rows
  BY DEF Qubits
<1> HIDE DEF k, base
<1>5. Mul(mp.cols, Glob(w, x)) = Mul(mp.cols, base) \oplus Mul(mp.cols, x)
  BY <1>2, <1>3, <1>4, MulAdds DEF k
<1>6. /\ q \in Mul(mp.cols, base) <=> Parity(row \cap base)
      /\ q \in Mul(mp.cols, x) <=> Parity(row \cap x)
  BY <1>3, <1>4, MulIsParity DEF k
<1>7. q \in Virtual(mp, Glob(w, x)) <=>
        (((q \in Mul(mp.cols, base)) # (q \in Mul(mp.cols, x))) # (q \in mp.b))
  <2>1. \A a, c, e : q \in (a \oplus c) \oplus e <=> (((q \in a) # (q \in c)) # (q \in e))
    BY DEF \oplus
  <2>2. QED
    BY <1>5, <2>1 DEF Virtual
<1>8. LowerBits(row, n) \cap x = row \cap x
  <2>1. \A i \in x : i < n
    OBVIOUS
  <2> HIDE DEF row
  <2>2. QED
    BY <2>1 DEF LowerBits
<1>9. Eval(LocalSelector(mp, q, base, n), x) <=>
        (Parity(row \cap x) # (Parity(row \cap base) # (q \in mp.b)))
  BY <1>8 DEF LocalSelector, Eval
<1>10. Parity(row \cap x) \in BOOLEAN /\ Parity(row \cap base) \in BOOLEAN
  BY DEF Parity
<1> HIDE DEF row
<1>11. QED
  BY <1>6, <1>7, <1>9, <1>10 DEF base

LEMMA BlockSelectorReads ==
  ASSUME M \in Nat, OneField, NEW mp, mp.used \in 0 .. M, mp.cols \in Matrix(mp.used),
         NEW w \in Workers, NEW x \in Active(mp, w), NEW q \in Qubits
  PROVE  Eval(BlockSelector(mp, q, w), x) <=> q \in Virtual(mp, Glob(w, x))
<1>1. Bits(mp, w) \in Nat /\ x \in SUBSET (0 .. Bits(mp, w) - 1)
  <2>1. Bits(mp, w) \in Int
    BY BitsInUse
  <2>2. ~(Bits(mp, w) < 0)
    BY DEF Active
  <2>3. QED
    BY <2>1, <2>2, InUse
<1>2. QED
  BY <1>1, SelectorReads DEF BlockSelector

(***************************************************************************)
(* The whole vector: the amplitudes at the addresses in use, and the dense  *)
(* state they stand for under an address map.                               *)
(***************************************************************************)
Flat(mp, s) ==
  [X \in Real(mp.used) |-> LET h == Home(SL, mp.used, X) IN s[h.w][h.at]]

GoodMap(mp) ==
  /\ mp.used \in Nat
  /\ Independent(mp.cols, mp.used)
  /\ mp.b \in Basis

\* X is where the map puts the basis state v.
Decoded(mp, f) ==
  [v \in Basis |->
    IF \E X \in Real(mp.used) : Virtual(mp, X) = v
    THEN f[CHOOSE X \in Real(mp.used) : Virtual(mp, X) = v] ELSE 0]

LEMMA FlatAt ==
  ASSUME M \in Nat, OneField, NEW mp, mp.used \in 0 .. M, NEW s,
         NEW w \in Workers, NEW x \in Active(mp, w)
  PROVE  Flat(mp, s)[Glob(w, x)] = s[w][x]
<1>1. /\ Glob(w, x) \in Real(mp.used)
      /\ Home(SL, mp.used, Glob(w, x)) = Site(w, x)
  BY InUse
<1>2. QED
  BY <1>1 DEF Flat, Site

LEMMA FlatTyped ==
  ASSUME M \in Nat, OneField, NEW mp, mp.used \in 0 .. M, NEW s \in Blocks(mp)
  PROVE  Flat(mp, s) \in [Real(mp.used) -> Amps]
<1>1. ASSUME NEW X \in Real(mp.used) PROVE Flat(mp, s)[X] \in Amps
  <2>1. PICK w \in Workers : \E x \in Active(mp, w) : Glob(w, x) = X
    BY InUseBack
  <2>2. PICK x \in Active(mp, w) : Glob(w, x) = X
    BY <2>1
  <2>3. x \in BlockAddrs
    BY InUse
  <2>4. s[w][x] \in Amps
    BY <2>3 DEF Blocks
  <2>5. QED
    BY <2>2, <2>4, FlatAt
<1>2. QED
  BY <1>1 DEF Flat

LEMMA VirtualFields ==
  ASSUME NEW mp, GoodMap(mp)
  PROVE  /\ mp.used \in Nat /\ mp.cols \in Matrix(mp.used) /\ mp.b \in SUBSET Rows
         /\ \A X \in Real(mp.used) : Virtual(mp, X) \in Basis
         /\ \A X, Y \in Real(mp.used) : Virtual(mp, X) = Virtual(mp, Y) => X = Y
         /\ \A X, Y \in Real(mp.used) :
              /\ X \oplus Y \in Real(mp.used)
              /\ Virtual(mp, X \oplus Y) = Virtual(mp, X) \oplus Mul(mp.cols, Y)
<1>1. /\ mp.used \in Nat /\ mp.cols \in Matrix(mp.used) /\ mp.b \in SUBSET Rows
      /\ \A X, Y \in Real(mp.used) : Mul(mp.cols, X) = Mul(mp.cols, Y) => X = Y
  BY DEF GoodMap, Independent, Basis, Qubits
<1>2. \A X \in Real(mp.used) : Mul(mp.cols, X) \in SUBSET Rows
  BY <1>1, MulIsParity
<1>3. ASSUME NEW X \in Real(mp.used) PROVE Virtual(mp, X) \in Basis
  BY <1>1, <1>2, XorClosed DEF Virtual, Basis, Qubits
<1>4. ASSUME NEW X \in Real(mp.used), NEW Y \in Real(mp.used), Virtual(mp, X) = Virtual(mp, Y)
      PROVE  X = Y
  <2>1. Mul(mp.cols, X) = Mul(mp.cols, Y)
    BY <1>4, XorInjective DEF Virtual
  <2>2. QED
    BY <1>1, <2>1
<1>5. ASSUME NEW X \in Real(mp.used), NEW Y \in Real(mp.used)
      PROVE  /\ X \oplus Y \in Real(mp.used)
             /\ Virtual(mp, X \oplus Y) = Virtual(mp, X) \oplus Mul(mp.cols, Y)
  <2>1. Mul(mp.cols, X \oplus Y) = Mul(mp.cols, X) \oplus Mul(mp.cols, Y)
    BY <1>1, MulAdds
  <2>2. X \oplus Y \in Real(mp.used)
    BY <1>1, RealXor
  <2> DEFINE a == Mul(mp.cols, X)
             c == Mul(mp.cols, Y)
             e == mp.b
  <2>3. (a \oplus c) \oplus e = (a \oplus e) \oplus c
    <3> HIDE DEF a, c, e
    <3>1. QED
      BY DEF \oplus
  <2>4. QED
    BY <2>1, <2>2, <2>3 DEF Virtual
<1>6. QED
  BY <1>1, <1>3, <1>4, <1>5

LEMMA DecodedHit ==
  ASSUME NEW mp, GoodMap(mp), NEW f, NEW X \in Real(mp.used)
  PROVE  Decoded(mp, f)[Virtual(mp, X)] = f[X]
<1> DEFINE v == Virtual(mp, X)
           Y == CHOOSE Z \in Real(mp.used) : Virtual(mp, Z) = v
<1>1. v \in Basis
  BY VirtualFields
<1>2. Y \in Real(mp.used) /\ Virtual(mp, Y) = v
  OBVIOUS
<1>3. Y = X
  BY <1>2, VirtualFields
<1>4. Decoded(mp, f)[v] = f[Y]
  BY <1>1 DEF Decoded
<1>5. QED
  BY <1>3, <1>4

LEMMA DecodedMiss ==
  ASSUME NEW mp, NEW f, NEW v \in Basis, \A X \in Real(mp.used) : Virtual(mp, X) # v
  PROVE  Decoded(mp, f)[v] = 0
BY DEF Decoded

\* A dense state is the decoded one when it agrees with the stored amplitudes
\* and vanishes elsewhere.
LEMMA DecodedUnique ==
  ASSUME NEW mp, GoodMap(mp), NEW f, NEW p, p = [v \in Basis |-> p[v]],
         \A X \in Real(mp.used) : p[Virtual(mp, X)] = f[X],
         \A v \in Basis : (\A X \in Real(mp.used) : Virtual(mp, X) # v) => p[v] = 0
  PROVE  Decoded(mp, f) = p
<1>1. ASSUME NEW v \in Basis PROVE Decoded(mp, f)[v] = p[v]
  <2>1. CASE \E X \in Real(mp.used) : Virtual(mp, X) = v
    BY <2>1, DecodedHit
  <2>2. CASE \A X \in Real(mp.used) : Virtual(mp, X) # v
    BY <2>2, DecodedMiss
  <2>3. QED
    BY <2>1, <2>2
<1>2. Decoded(mp, f) = [v \in Basis |-> Decoded(mp, f)[v]]
  BY DEF Decoded
<1>3. QED
  BY <1>1, <1>2

LEMMA DecodedTyped ==
  ASSUME NEW mp, GoodMap(mp), NEW f \in [Real(mp.used) -> Amps]
  PROVE  Decoded(mp, f) \in States
<1>1. ASSUME NEW v \in Basis PROVE Decoded(mp, f)[v] \in Amps
  <2>1. CASE \E X \in Real(mp.used) : Virtual(mp, X) = v
    BY <2>1, DecodedHit
  <2>2. CASE \A X \in Real(mp.used) : Virtual(mp, X) # v
    BY <2>2, DecodedMiss, SomeAmps
  <2>3. QED
    BY <2>1, <2>2
<1>2. Decoded(mp, f) = [v \in Basis |-> Decoded(mp, f)[v]]
  BY DEF Decoded
<1>3. QED
  BY <1>1, <1>2 DEF States

\* What get_state() gathers.
LEMMA PlacedIsDecoded ==
  ASSUME GoodMap(am), Cols(am.cols) = am.used, NEW s
  PROVE  PlacedAt(Held(s)) = Decoded(am, Flat(am, s))
<1> DEFINE f == Flat(am, s)
           held == Held(s)
           p == PlacedAt(held)
           E(X) == [at |-> Virtual(am, X), amp |-> f[X]]
<1>1. \A X \in Real(am.used) : f[X] = LET h == Home(SL, am.used, X) IN s[h.w][h.at]
  BY DEF Flat
<1>2. held = {E(X) : X \in Real(am.used)}
  BY <1>1 DEF Held, Virtual
<1>3. p = [v \in Basis |-> p[v]]
  BY DEF PlacedAt
<1>4. ASSUME NEW X \in Real(am.used) PROVE p[Virtual(am, X)] = f[X]
  <2> DEFINE v == Virtual(am, X)
             here == {e \in held : e.at = v}
  <2>1. v \in Basis
    BY VirtualFields
  <2>2. E(X) \in here
    BY <1>2
  <2>3. ASSUME NEW e \in here PROVE e.amp = f[X]
    <3>1. PICK Y \in Real(am.used) : e = E(Y)
      BY <1>2
    <3>2. Virtual(am, Y) = v
      BY <3>1
    <3>3. Y = X
      BY <3>2, VirtualFields
    <3>4. QED
      BY <3>1, <3>3
  <2>4. p[v] = IF here = {} THEN 0 ELSE (CHOOSE e \in here : TRUE).amp
    BY <2>1 DEF PlacedAt
  <2> HIDE DEF here, p
  <2>5. QED
    BY <2>2, <2>3, <2>4
<1>5. ASSUME NEW v \in Basis, \A X \in Real(am.used) : Virtual(am, X) # v
      PROVE  p[v] = 0
  <2>1. {e \in held : e.at = v} = {}
    BY <1>2, <1>5
  <2>2. QED
    BY <2>1 DEF PlacedAt
<1> HIDE DEF p, f
<1>6. Decoded(am, f) = p
  BY <1>3, <1>4, <1>5, DecodedUnique
<1>7. QED
  BY <1>6 DEF p, f

(***************************************************************************)
(* The kernels, on the whole vector.                                       *)
(***************************************************************************)
\* g is f with the pairs at distance d mixed by u.
MixedAt(mp, f, g, q, u, d) ==
  \A X \in Real(mp.used) :
    g[X] = IF q \in Virtual(mp, X) THEN OddOf(u, f[X \oplus d], f[X])
                                   ELSE EvenOf(u, f[X], f[X \oplus d])

LEMMA MixedDecodes ==
  ASSUME NEW mp, GoodMap(mp), NEW f \in [Real(mp.used) -> Amps], NEW g,
         NEW q \in Qubits, NEW u \in U3Matrices,
         NEW d \in Real(mp.used), Mul(mp.cols, d) = {q}, MixedAt(mp, f, g, q, u, d)
  PROVE  Decoded(mp, g) = Fused(Decoded(mp, f), u, q)
<1> DEFINE p == Decoded(mp, f)
           r == Fused(p, u, q)
<1>1. r = [v \in Basis |-> r[v]]
  BY DEF Fused
<1>2. ASSUME NEW X \in Real(mp.used)
      PROVE  /\ Virtual(mp, X) \in Basis
             /\ X \oplus d \in Real(mp.used)
             /\ Virtual(mp, X \oplus d) = Virtual(mp, X) \oplus {q}
  <2>1. /\ \A Z \in Real(mp.used) : Virtual(mp, Z) \in Basis
        /\ \A Z, Y \in Real(mp.used) :
              /\ Z \oplus Y \in Real(mp.used)
              /\ Virtual(mp, Z \oplus Y) = Virtual(mp, Z) \oplus Mul(mp.cols, Y)
    BY VirtualFields
  <2>2. /\ X \oplus d \in Real(mp.used)
        /\ Virtual(mp, X \oplus d) = Virtual(mp, X) \oplus Mul(mp.cols, d)
    BY <2>1
  <2>3. QED
    BY <2>1, <2>2
<1>3. ASSUME NEW X \in Real(mp.used) PROVE r[Virtual(mp, X)] = g[X]
  <2>1. p[Virtual(mp, X)] = f[X] /\ p[Virtual(mp, X) \oplus {q}] = f[X \oplus d]
    <3>1. p[Virtual(mp, X)] = f[X]
      BY DecodedHit
    <3>2. p[Virtual(mp, X \oplus d)] = f[X \oplus d]
      BY <1>2, DecodedHit
    <3>3. QED
      BY <1>2, <3>1, <3>2
  <2>2. g[X] = IF q \in Virtual(mp, X) THEN OddOf(u, f[X \oplus d], f[X])
                                       ELSE EvenOf(u, f[X], f[X \oplus d])
    BY DEF MixedAt
  <2>3. \A v \in Basis : r[v] = IF q \in v THEN OddOf(u, p[v \oplus {q}], p[v])
                                           ELSE EvenOf(u, p[v], p[v \oplus {q}])
    BY DEF Fused
  <2> HIDE DEF p, r
  <2>4. QED
    BY <1>2, <2>1, <2>2, <2>3
<1>4. ASSUME NEW v \in Basis, \A X \in Real(mp.used) : Virtual(mp, X) # v
      PROVE  r[v] = 0
  <2>1. v \oplus {q} \in Basis
    BY Neighbour
  <2>2. ASSUME NEW X \in Real(mp.used) PROVE Virtual(mp, X) # v \oplus {q}
    <3>1. Virtual(mp, X \oplus d) # v /\ Virtual(mp, X \oplus d) = Virtual(mp, X) \oplus {q}
      BY <1>2, <1>4
    <3>2. QED
      BY <3>1, XorCancel
  <2>3. p[v] = 0 /\ p[v \oplus {q}] = 0
    BY <1>4, <2>1, <2>2, DecodedMiss
  <2>4. r[v] = IF q \in v THEN OddOf(u, p[v \oplus {q}], p[v])
                          ELSE EvenOf(u, p[v], p[v \oplus {q}])
    BY DEF Fused
  <2> HIDE DEF p, r
  <2>5. QED
    BY <2>3, <2>4, PairZero
<1> HIDE DEF r
<1>5. Decoded(mp, g) = r
  BY <1>1, <1>3, <1>4, DecodedUnique
<1>6. QED
  BY <1>5 DEF r, p

\* u3_block_kernel and u3_inter_kernel.
LEMMA BlockMixedFlat ==
  ASSUME M \in Nat, OneField, NEW mp, mp.used \in 0 .. M, GoodMap(mp), NEW s,
         NEW q \in Qubits, NEW u, NEW d \in Real(mp.used), WorkerOf(SL, d) = {}
  PROVE  MixedAt(mp, Flat(mp, s), Flat(mp, BlockMixed(mp, s, q, u, BlockOf(SL, d))), q, u, d)
<1> DEFINE e == BlockOf(SL, d)
           t == BlockMixed(mp, s, q, u, e)
           f == Flat(mp, s)
           g == Flat(mp, t)
<1>1. ASSUME NEW X \in Real(mp.used)
      PROVE  g[X] = IF q \in Virtual(mp, X) THEN OddOf(u, f[X \oplus d], f[X])
                                            ELSE EvenOf(u, f[X], f[X \oplus d])
  <2>1. PICK w \in Workers : \E x \in Active(mp, w) : Glob(w, x) = X
    BY InUseBack
  <2>2. PICK x \in Active(mp, w) : Glob(w, x) = X
    BY <2>1
  <2>3. x \oplus e \in Active(mp, w) /\ Glob(w, x \oplus e) = X \oplus d
    BY <2>2, PartnerLocal
  <2>4. g[X] = t[w][x] /\ f[X] = s[w][x] /\ f[X \oplus d] = s[w][x \oplus e]
    <3> HIDE DEF t, e
    <3>1. QED
      BY <2>2, <2>3, FlatAt
  <2>5. x \in BlockAddrs
    BY InUse
  <2>6. Eval(BlockSelector(mp, q, w), x) <=> q \in Virtual(mp, X)
    BY <2>2, VirtualFields, BlockSelectorReads
  <2>7. t[w][x] = IF Eval(BlockSelector(mp, q, w), x) THEN OddOf(u, s[w][x \oplus e], s[w][x])
                                                      ELSE EvenOf(u, s[w][x], s[w][x \oplus e])
    <3> HIDE DEF e
    <3>1. {x, x \oplus e} \subseteq Active(mp, w)
      BY <2>3
    <3>2. QED
      BY <2>5, <3>1 DEF BlockMixed
  <2> HIDE DEF t, f, g, e
  <2>8. QED
    BY <2>4, <2>6, <2>7
<1>2. QED
  BY <1>1 DEF MixedAt

LEMMA InterMixedFlat ==
  ASSUME M \in Nat, OneField, NEW mp, mp.used \in 0 .. M, GoodMap(mp), NEW s,
         NEW q \in Qubits, NEW u, NEW d \in Real(mp.used), WorkerOf(SL, d) # {}
  PROVE  MixedAt(mp, Flat(mp, s), Flat(mp, InterMixed(mp, s, q, u, d)), q, u, d)
<1> DEFINE t == InterMixed(mp, s, q, u, d)
           f == Flat(mp, s)
           g == Flat(mp, t)
<1>1. ASSUME NEW X \in Real(mp.used)
      PROVE  g[X] = IF q \in Virtual(mp, X) THEN OddOf(u, f[X \oplus d], f[X])
                                            ELSE EvenOf(u, f[X], f[X \oplus d])
  <2>1. PICK w \in Workers : \E x \in Active(mp, w) : Glob(w, x) = X
    BY InUseBack
  <2>2. PICK x \in Active(mp, w) : Glob(w, x) = X
    BY <2>1
  <2> DEFINE peer == w \oplus WorkerOf(SL, d)
             e == OffsetOf(SL, d)
  <2>3. /\ OffsetOf(SL, x) = x /\ e = BlockOf(SL, d)
        /\ BlockStart(SL, w) \cup (x \ OffsetOf(SL, x)) = BlockStart(SL, w)
        /\ x \in SUBSET (0 .. SL.I - 1)
    BY Exchanged2
  <2>4. peer \in Workers /\ x \oplus e \in Active(mp, peer) /\ Glob(peer, x \oplus e) = X \oplus d
    BY <2>2, <2>3, PartnerActive
  <2>5. g[X] = t[w][x] /\ f[X] = s[w][x] /\ f[X \oplus d] = s[peer][x \oplus e]
    <3> HIDE DEF t, e, peer
    <3>1. QED
      BY <2>2, <2>4, FlatAt
  <2>6. x \in BlockAddrs /\ SL.I \in Nat
    BY InUse, Fields
  <2> DEFINE sel == LocalSelector(mp, q, BlockStart(SL, w), SL.I)
  <2>7. Eval(sel, x) <=> q \in Virtual(mp, X)
    BY <2>2, <2>3, <2>6, VirtualFields, SelectorReads
  <2>8. t[w][x] = IF Eval(sel, x) THEN OddOf(u, s[peer][x \oplus e], s[w][x])
                                  ELSE EvenOf(u, s[w][x], s[peer][x \oplus e])
    BY <2>3, <2>6 DEF InterMixed
  <2> HIDE DEF t, f, g, e, peer, sel
  <2>9. QED
    BY <2>5, <2>7, <2>8
<1>2. QED
  BY <1>1 DEF MixedAt

LEMMA ApplyMixed ==
  ASSUME M \in Nat, OneField, NEW mp, mp.used \in 0 .. M, GoodMap(mp), NEW s \in Blocks(mp),
         NEW q \in Qubits, NEW u \in U3Matrices,
         NEW d \in Real(mp.used), Mul(mp.cols, d) = {q}
  PROVE  Decoded(mp, Flat(mp, Mixed(mp, s, q, u, d))) = Fused(Decoded(mp, Flat(mp, s)), u, q)
<1>1. MixedAt(mp, Flat(mp, s), Flat(mp, Mixed(mp, s, q, u, d)), q, u, d)
  <2>1. CASE WorkerOf(SL, d) = {}
    <3>1. Mixed(mp, s, q, u, d) = BlockMixed(mp, s, q, u, BlockOf(SL, d))
      BY <2>1 DEF Mixed
    <3>2. QED
      BY <2>1, <3>1, BlockMixedFlat
  <2>2. CASE WorkerOf(SL, d) # {}
    <3>1. Mixed(mp, s, q, u, d) = InterMixed(mp, s, q, u, d)
      BY <2>2 DEF Mixed
    <3>2. QED
      BY <2>2, <3>1, InterMixedFlat
  <2>3. QED
    BY <2>1, <2>2
<1>2. Flat(mp, s) \in [Real(mp.used) -> Amps]
  BY FlatTyped
<1>3. QED
  BY <1>1, <1>2, MixedDecodes

LEMMA ApplyBlockMixed ==
  ASSUME M \in Nat, OneField, NEW mp, mp.used \in 0 .. M, GoodMap(mp), NEW s \in Blocks(mp),
         NEW q \in Qubits, NEW u \in U3Matrices,
         NEW d \in Real(mp.used), Mul(mp.cols, d) = {q}, WorkerOf(SL, d) = {}
  PROVE  Decoded(mp, Flat(mp, BlockMixed(mp, s, q, u, BlockOf(SL, d))))
           = Fused(Decoded(mp, Flat(mp, s)), u, q)
<1>1. Mixed(mp, s, q, u, d) = BlockMixed(mp, s, q, u, BlockOf(SL, d))
  BY DEF Mixed
<1>2. QED
  BY <1>1, ApplyMixed

-----------------------------------------------------------------------------
\* The explicit permutation.
Exchange(p, q, controls) ==
  [v \in Basis |-> IF controls \subseteq v THEN p[v \oplus {q}] ELSE p[v]]

LEMMA SwappedDecodes ==
  ASSUME M \in Nat, OneField, NEW mp, mp.used \in 0 .. M, GoodMap(mp), NEW s,
         NEW q \in Qubits, NEW controls \in SUBSET Qubits, q \notin controls,
         NEW d \in Real(mp.used), Mul(mp.cols, d) = {q}, WorkerOf(SL, d) = {}
  PROVE  Decoded(mp, Flat(mp, Swapped(mp, s, q, controls, BlockOf(SL, d))))
           = Exchange(Decoded(mp, Flat(mp, s)), q, controls)
<1> DEFINE e == BlockOf(SL, d)
           t == Swapped(mp, s, q, controls, e)
           f == Flat(mp, s)
           g == Flat(mp, t)
           p == Decoded(mp, f)
           r == Exchange(p, q, controls)
<1>1. ASSUME NEW X \in Real(mp.used)
      PROVE  /\ Virtual(mp, X) \in Basis
             /\ X \oplus d \in Real(mp.used)
             /\ Virtual(mp, X \oplus d) = Virtual(mp, X) \oplus {q}
  <2>1. /\ \A Z \in Real(mp.used) : Virtual(mp, Z) \in Basis
        /\ \A Z, Y \in Real(mp.used) :
              /\ Z \oplus Y \in Real(mp.used)
              /\ Virtual(mp, Z \oplus Y) = Virtual(mp, Z) \oplus Mul(mp.cols, Y)
    BY VirtualFields
  <2>2. /\ X \oplus d \in Real(mp.used)
        /\ Virtual(mp, X \oplus d) = Virtual(mp, X) \oplus Mul(mp.cols, d)
    BY <2>1
  <2>3. QED
    BY <2>1, <2>2
<1>2. ASSUME NEW X \in Real(mp.used)
      PROVE  g[X] = IF controls \subseteq Virtual(mp, X) THEN f[X \oplus d] ELSE f[X]
  <2>1. PICK w \in Workers : \E x \in Active(mp, w) : Glob(w, x) = X
    BY InUseBack
  <2>2. PICK x \in Active(mp, w) : Glob(w, x) = X
    BY <2>1
  <2>3. x \oplus e \in Active(mp, w) /\ Glob(w, x \oplus e) = X \oplus d
    BY <2>2, PartnerLocal
  <2>4. g[X] = t[w][x] /\ f[X] = s[w][x] /\ f[X \oplus d] = s[w][x \oplus e]
    <3> HIDE DEF t, e
    <3>1. QED
      BY <2>2, <2>3, FlatAt
  <2>5. x \in BlockAddrs
    BY InUse
  <2> DEFINE even == IF Eval(BlockSelector(mp, q, w), x) THEN x \oplus e ELSE x
  <2>6. t[w][x] = IF /\ {x, x \oplus e} \subseteq Active(mp, w)
                     /\ \A c \in controls : Eval(BlockSelector(mp, c, w), even)
                  THEN s[w][x \oplus e] ELSE s[w][x]
    BY <2>5 DEF Swapped
  <2>7. ASSUME NEW c \in controls
        PROVE  Eval(BlockSelector(mp, c, w), even) <=> c \in Virtual(mp, X)
    <3>1. c \in Qubits /\ c # q
      OBVIOUS
    <3>2. \A y \in Active(mp, w) : Eval(BlockSelector(mp, c, w), y) <=> c \in Virtual(mp, Glob(w, y))
      BY <3>1, VirtualFields, BlockSelectorReads
    <3>3. c \in Virtual(mp, X \oplus d) <=> c \in Virtual(mp, X)
      BY <1>1, <3>1, Neighbour, SMTT(30)
    <3> HIDE DEF e
    <3>4. even \in {x, x \oplus e}
      OBVIOUS
    <3> HIDE DEF even
    <3>5. QED
      BY <2>2, <2>3, <3>2, <3>3, <3>4
  <2> HIDE DEF t, f, g, e, even
  <2>8. QED
    BY <2>3, <2>4, <2>6, <2>7
<1>3. r = [v \in Basis |-> r[v]] /\
      \A v \in Basis : r[v] = IF controls \subseteq v THEN p[v \oplus {q}] ELSE p[v]
  BY DEF Exchange
<1> HIDE DEF r, g, f, t
<1>4. ASSUME NEW X \in Real(mp.used) PROVE r[Virtual(mp, X)] = g[X]
  <2>1. p[Virtual(mp, X)] = f[X] /\ p[Virtual(mp, X) \oplus {q}] = f[X \oplus d]
    <3>1. p[Virtual(mp, X)] = f[X]
      BY DecodedHit
    <3>2. p[Virtual(mp, X \oplus d)] = f[X \oplus d]
      BY <1>1, DecodedHit
    <3>3. QED
      BY <1>1, <3>1, <3>2
  <2> HIDE DEF p
  <2>2. QED
    BY <1>1, <1>2, <1>3, <2>1
<1>5. ASSUME NEW v \in Basis, \A X \in Real(mp.used) : Virtual(mp, X) # v
      PROVE  r[v] = 0
  <2>1. v \oplus {q} \in Basis
    BY Neighbour
  <2>2. ASSUME NEW X \in Real(mp.used) PROVE Virtual(mp, X) # v \oplus {q}
    <3>1. Virtual(mp, X \oplus d) # v /\ Virtual(mp, X \oplus d) = Virtual(mp, X) \oplus {q}
      BY <1>1, <1>5
    <3>2. QED
      BY <3>1, XorCancel
  <2>3. p[v] = 0 /\ p[v \oplus {q}] = 0
    BY <1>5, <2>1, <2>2, DecodedMiss
  <2> HIDE DEF p
  <2>4. QED
    BY <1>3, <2>3
<1>6. Decoded(mp, g) = r
  BY <1>3, <1>4, <1>5, DecodedUnique
<1>7. QED
  BY <1>6 DEF g, r, t, f, p, e

-----------------------------------------------------------------------------
\* Diagonal gates.
Turn(p, t, controls) ==
  [v \in Basis |-> IF controls \subseteq v THEN RotateBy(t, p[v]) ELSE p[v]]

LEMMA TurnTyped ==
  ASSUME NEW p \in States, NEW t \in Int, NEW controls
  PROVE  Turn(p, t, controls) \in States
<1>1. ASSUME NEW v \in Basis PROVE p[v] \in Amps /\ RotateBy(t, p[v]) \in Amps
  <2>1. p[v] \in Amps /\ p[v] \in Int
    BY DEF States, Amps
  <2>2. QED
    BY <2>1, Turned
<1>2. QED
  BY <1>1 DEF Turn, States

LEMMA TurnDecodes ==
  ASSUME NEW mp, GoodMap(mp), NEW f, NEW g, NEW t \in Int, NEW controls,
         \A X \in Real(mp.used) :
           g[X] = IF controls \subseteq Virtual(mp, X) THEN RotateBy(t, f[X]) ELSE f[X]
  PROVE  Decoded(mp, g) = Turn(Decoded(mp, f), t, controls)
<1> DEFINE p == Decoded(mp, f)
           r == Turn(p, t, controls)
<1>1. r = [v \in Basis |-> r[v]] /\
      \A v \in Basis : r[v] = IF controls \subseteq v THEN RotateBy(t, p[v]) ELSE p[v]
  BY DEF Turn
<1> HIDE DEF r
<1>2. ASSUME NEW X \in Real(mp.used) PROVE r[Virtual(mp, X)] = g[X]
  <2>1. p[Virtual(mp, X)] = f[X] /\ Virtual(mp, X) \in Basis
    BY DecodedHit, VirtualFields
  <2> HIDE DEF p
  <2>2. QED
    BY <1>1, <2>1
<1>3. ASSUME NEW v \in Basis, \A X \in Real(mp.used) : Virtual(mp, X) # v
      PROVE  r[v] = 0
  <2>1. p[v] = 0
    BY <1>3, DecodedMiss
  <2>2. RotateBy(t, 0) = 0
    BY TurnedByZero, SomeAmps
  <2> HIDE DEF p
  <2>3. QED
    BY <1>1, <2>1, <2>2
<1>4. Decoded(mp, g) = r
  BY <1>1, <1>2, <1>3, DecodedUnique
<1>5. QED
  BY <1>4 DEF r, p

(***************************************************************************)
(* The address map: transport, expansion and the maps of a fresh run.      *)
(***************************************************************************)
Shifted(mp, new, q) ==
  new.used = mp.used /\ new.cols = mp.cols /\ new.b = mp.b \oplus {q}

LEMMA ShiftDecodes ==
  ASSUME NEW mp, GoodMap(mp), NEW f, NEW q \in Qubits, NEW new, Shifted(mp, new, q)
  PROVE  /\ GoodMap(new)
         /\ Decoded(new, f) = [v \in Basis |-> Decoded(mp, f)[v \oplus {q}]]
<1> DEFINE p == Decoded(mp, f)
           r == [v \in Basis |-> p[v \oplus {q}]]
<1> USE DEF Shifted
<1>1. GoodMap(new)
  BY XorClosed DEF GoodMap, Basis
<1>2. ASSUME NEW X \in Real(mp.used)
      PROVE  /\ Virtual(new, X) = Virtual(mp, X) \oplus {q}
             /\ Virtual(new, X) \in Basis
  <2>1. Virtual(new, X) = Virtual(mp, X) \oplus {q}
    BY XorAssoc DEF Virtual
  <2>2. QED
    BY <1>1, <2>1, VirtualFields
<1>3. r = [v \in Basis |-> r[v]] /\ \A v \in Basis : r[v] = p[v \oplus {q}]
  OBVIOUS
<1> HIDE DEF r
<1>4. ASSUME NEW X \in Real(new.used) PROVE r[Virtual(new, X)] = f[X]
  <2>1. r[Virtual(new, X)] = p[(Virtual(mp, X) \oplus {q}) \oplus {q}]
    BY <1>2, <1>3
  <2>2. (Virtual(mp, X) \oplus {q}) \oplus {q} = Virtual(mp, X)
    BY XorCancel
  <2>3. p[Virtual(mp, X)] = f[X]
    BY DecodedHit
  <2>4. QED
    BY <2>1, <2>2, <2>3
<1>5. ASSUME NEW v \in Basis, \A X \in Real(new.used) : Virtual(new, X) # v
      PROVE  r[v] = 0
  <2>1. v \oplus {q} \in Basis
    BY Neighbour
  <2>2. ASSUME NEW X \in Real(mp.used) PROVE Virtual(mp, X) # v \oplus {q}
    BY <1>2, <1>5, XorCancel
  <2>3. p[v \oplus {q}] = 0
    BY <2>1, <2>2, DecodedMiss
  <2>4. QED
    BY <1>3, <2>3
<1>6. Decoded(new, f) = r
  BY <1>1, <1>3, <1>4, <1>5, DecodedUnique
<1>7. QED
  BY <1>1, <1>6 DEF r, p

LEMMA RowXorDecodes ==
  ASSUME NEW mp, GoodMap(mp), NEW f, NEW q \in Qubits, NEW c \in Qubits, c # q, NEW new,
         new.used = mp.used, new.cols = RowXorMat(mp.cols, q, c), new.b = RowXor(mp.b, q, c)
  PROVE  /\ GoodMap(new)
         /\ Decoded(new, f) = [v \in Basis |-> Decoded(mp, f)[RowXor(v, q, c)]]
<1> DEFINE R(v) == RowXor(v, q, c)
           p == Decoded(mp, f)
           r == [v \in Basis |-> p[R(v)]]
<1>1. /\ mp.used \in Nat /\ Independent(mp.cols, mp.used) /\ mp.b \in Basis
      /\ mp.cols \in Matrix(mp.used)
  BY VirtualFields DEF GoodMap
<1>2. GoodMap(new)
  <2>1. Independent(RowXorMat(mp.cols, q, c), mp.used)
    BY <1>1, IndependentRowXor DEF Qubits
  <2>2. RowXor(mp.b, q, c) \in Basis
    BY <1>1, RowXorClosed DEF Basis
  <2>3. QED
    BY <1>1, <2>1, <2>2 DEF GoodMap
<1>3. \A v \in Basis : R(v) \in Basis /\ R(R(v)) = v
  BY RowXorClosed, RowXorInvolution DEF Basis
<1>4. ASSUME NEW X \in Real(mp.used)
      PROVE  /\ Virtual(new, X) = R(Virtual(mp, X))
             /\ Virtual(mp, X) \in Basis /\ Virtual(new, X) \in Basis
  <2>1. Mul(new.cols, X) = R(Mul(mp.cols, X))
    <3>1. \A Y \in Real(mp.used) :
            Mul(RowXorMat(mp.cols, q, c), Y) = RowXor(Mul(mp.cols, Y), q, c)
      BY <1>1, MulRowXor DEF Qubits
    <3>2. QED
      BY <3>1
  <2>2. Virtual(new, X) = R(Virtual(mp, X))
    BY <2>1, RowXorAdditive DEF Virtual
  <2>3. QED
    BY <1>2, <2>2, VirtualFields
<1>5. r = [v \in Basis |-> r[v]] /\ \A v \in Basis : r[v] = p[R(v)]
  OBVIOUS
<1> HIDE DEF r, R, p
<1>6. ASSUME NEW X \in Real(new.used) PROVE r[Virtual(new, X)] = f[X]
  <2>1. r[Virtual(new, X)] = p[Virtual(mp, X)]
    BY <1>3, <1>4, <1>5
  <2>2. p[Virtual(mp, X)] = f[X]
    BY DecodedHit DEF p
  <2>3. QED
    BY <2>1, <2>2
<1>7. ASSUME NEW v \in Basis, \A X \in Real(new.used) : Virtual(new, X) # v
      PROVE  r[v] = 0
  <2>1. ASSUME NEW X \in Real(mp.used) PROVE Virtual(mp, X) # R(v)
    BY <1>3, <1>4, <1>7
  <2>2. p[R(v)] = 0
    BY <1>3, <2>1, DecodedMiss DEF p
  <2>3. QED
    BY <1>5, <2>2
<1>8. Decoded(new, f) = r
  BY <1>2, <1>5, <1>6, <1>7, DecodedUnique
<1>9. QED
  BY <1>2, <1>8 DEF r, R, p

\* expand() and append_col(e_q): the new half of the addresses holds zeros at
\* basis states that had no address.
Expanded(mp, new, q) ==
  /\ \A X \in Real(mp.used) : Mul(mp.cols, X) # {q}
  /\ new.used = mp.used + 1
  /\ new.cols = AppendCol(mp.cols, {q})
  /\ new.b = mp.b

LEMMA ExpansionDecodes ==
  ASSUME M \in Nat, OneField, NEW mp, mp.used \in 0 .. M, GoodMap(mp), NEW s \in Blocks(mp),
         NEW q \in Qubits, NEW new, Expanded(mp, new, q), new.used <= M
  PROVE  /\ GoodMap(new) /\ new.used \in 0 .. M
         /\ Mul(new.cols, {mp.used}) = {q} /\ {mp.used} \in Real(new.used)
         /\ Decoded(new, Flat(new, s)) = Decoded(mp, Flat(mp, s))
<1> DEFINE k == mp.used
           f == Flat(mp, s)
           g == Flat(new, s)
           p == Decoded(mp, f)
<1> USE DEF Expanded
<1>1. /\ k \in Nat /\ Independent(mp.cols, k) /\ mp.b \in Basis
      /\ mp.cols \in Matrix(k) /\ {q} \in SUBSET Rows /\ new.used \in 0 .. M
  BY VirtualFields DEF GoodMap, Qubits
<1>2. GoodMap(new)
  <2>1. Independent(AppendCol(mp.cols, {q}), k + 1)
    BY <1>1, IndependentAppend
  <2>2. QED
    BY <1>1, <2>1 DEF GoodMap
<1>3. /\ \A X \in Real(k) : X \in Real(new.used) /\ k \notin X
      /\ \A X \in Real(new.used) : X \ {k} \in Real(k)
      /\ \A X \in Real(new.used) : k \notin X => X \in Real(k) /\ X \ {k} = X
      /\ {k} \in Real(new.used) /\ {} \in Real(k)
  BY <1>1, RealGrows
<1>4. \A X \in Real(new.used) :
        Mul(new.cols, X) = IF k \in X THEN Mul(mp.cols, X \ {k}) \oplus {q} ELSE Mul(mp.cols, X)
  BY <1>1, MulAppend
<1>5. Mul(new.cols, {k}) = {q}
  <2>1. {k} \ {k} = {} /\ Mul(mp.cols, {}) = {}
    BY <1>1, MulColumn
  <2>2. Mul(new.cols, {k}) = Mul(mp.cols, {k} \ {k}) \oplus {q}
    BY <1>3, <1>4
  <2>3. {} \oplus {q} = {q}
    BY DEF \oplus
  <2>4. QED
    BY <2>1, <2>2, <2>3
<1>6. ASSUME NEW X \in Real(k) PROVE g[X] = f[X]
  <2>1. PICK w \in Workers : \E x \in Active(mp, w) : Glob(w, x) = X
    BY InUseBack
  <2>2. PICK x \in Active(mp, w) : Glob(w, x) = X
    BY <2>1
  <2>3. x \in Active(new, w)
    BY <1>1, ActiveGrows
  <2>4. f[Glob(w, x)] = s[w][x]
    BY FlatAt
  <2>5. g[Glob(w, x)] = s[w][x]
    BY <1>1, <2>3, FlatAt
  <2>6. QED
    BY <2>2, <2>4, <2>5
<1>7. ASSUME NEW X \in Real(new.used), k \in X PROVE g[X] = 0
  <2>1. PICK w \in Workers : \E x \in Active(new, w) : Glob(w, x) = X
    BY <1>1, InUseBack
  <2>2. PICK x \in Active(new, w) : Glob(w, x) = X
    BY <2>1
  <2>3. x \notin Active(mp, w)
    <3>1. SUFFICES ASSUME x \in Active(mp, w) PROVE FALSE
      OBVIOUS
    <3>2. X \in Real(k)
      BY <2>2, <3>1, InUse
    <3>3. QED
      BY <1>3, <1>7, <3>2
  <2>4. x \in BlockAddrs
    BY <1>1, InUse
  <2>5. s[w][x] = 0
    BY <2>3, <2>4 DEF Blocks
  <2>6. QED
    BY <1>1, <2>2, <2>5, FlatAt
<1>8. p = [v \in Basis |-> p[v]]
  BY DEF Decoded
<1> HIDE DEF k, f, g
<1>9. ASSUME NEW X \in Real(new.used) PROVE p[Virtual(new, X)] = g[X]
  <2>1. CASE k \notin X
    <3>1. X \in Real(k) /\ Virtual(new, X) = Virtual(mp, X)
      BY <1>3, <1>4, <2>1 DEF Virtual
    <3>2. QED
      BY <1>6, <3>1, DecodedHit DEF k
  <2>2. CASE k \in X
    <3>1. Virtual(new, X) \in Basis
      BY <1>2, VirtualFields
    <3>2. ASSUME NEW Y \in Real(k) PROVE Virtual(mp, Y) # Virtual(new, X)
      <4>1. Y \oplus (X \ {k}) \in Real(k)
        BY <1>1, <1>3, RealXor
      <4>2. Mul(mp.cols, Y \oplus (X \ {k})) = Mul(mp.cols, Y) \oplus Mul(mp.cols, X \ {k})
        BY <1>1, <1>3, MulAdds
      <4> DEFINE a == Mul(mp.cols, Y)
                 c == Mul(mp.cols, X \ {k})
      <4>3. a \oplus c # {q}
        BY <4>1, <4>2 DEF k
      <4>4. Virtual(new, X) = (c \oplus {q}) \oplus mp.b /\ Virtual(mp, Y) = a \oplus mp.b
        BY <1>4, <2>2 DEF Virtual
      <4> HIDE DEF a, c
      <4>5. SUFFICES ASSUME a \oplus mp.b = (c \oplus {q}) \oplus mp.b PROVE FALSE
        BY <4>4
      <4>6. a = c \oplus {q}
        BY <4>5, XorInjective
      <4>7. a \oplus c = {q}
        BY <4>6 DEF \oplus
      <4>8. QED
        BY <4>3, <4>7
    <3>3. p[Virtual(new, X)] = 0
      BY <3>1, <3>2, DecodedMiss DEF k
    <3>4. QED
      BY <1>7, <2>2, <3>3
  <2>3. QED
    BY <2>1, <2>2
<1>10. ASSUME NEW v \in Basis, \A X \in Real(new.used) : Virtual(new, X) # v
       PROVE  p[v] = 0
  <2>1. ASSUME NEW X \in Real(k) PROVE Virtual(mp, X) # v
    <3>1. X \in Real(new.used) /\ k \notin X
      BY <1>3
    <3>2. Virtual(new, X) = Virtual(mp, X)
      BY <1>4, <3>1 DEF Virtual
    <3>3. QED
      BY <1>10, <3>1, <3>2
  <2>2. QED
    BY <2>1, DecodedMiss DEF k
<1> HIDE DEF p
<1>11. Decoded(new, g) = p
  BY <1>2, <1>8, <1>9, <1>10, DecodedUnique
<1>12. QED
  BY <1>1, <1>2, <1>3, <1>5, <1>11 DEF g, p, f, k

-----------------------------------------------------------------------------
Ket == [v \in Basis |-> IF v = {} THEN 1 ELSE 0]

\* reset() and the maps of execute(): one amplitude, or all of them in place.
LEMMA FreshDecodes ==
  ASSUME M \in Nat, OneField, NEW mp, mp.used \in 0 .. M, GoodMap(mp),
         \A X \in Real(mp.used) : Virtual(mp, X) = X,
         NEW s, s = FreshBlocks(M)
  PROVE  Decoded(mp, Flat(mp, s)) = Ket
<1> DEFINE f == Flat(mp, s)
<1>1. ASSUME NEW X \in Real(mp.used) PROVE Ket[Virtual(mp, X)] = f[X]
  <2>1. PICK w \in Workers : \E x \in Active(mp, w) : Glob(w, x) = X
    BY InUseBack
  <2>2. PICK x \in Active(mp, w) : Glob(w, x) = X
    BY <2>1
  <2>3. x \in BlockAddrs /\ w \in SUBSET Nat
    BY InUse
  <2>4. f[X] = s[w][x]
    BY <2>2, FlatAt
  <2>5. s[w][x] = IF w = Root /\ x = {} THEN 1 ELSE 0
    BY <2>3 DEF FreshBlocks, BlockAddrs, SL
  <2>6. X = {} <=> w = Root /\ x = {}
    <3>1. BlockStart(SL, w) = {} <=> w = {}
      BY DEF BlockStart, ShiftUp
    <3>2. QED
      BY <2>2, <3>1 DEF Glob, Root
  <2>7. X \in Basis /\ Virtual(mp, X) = X
    BY VirtualFields
  <2> HIDE DEF f
  <2>8. QED
    BY <2>4, <2>5, <2>6, <2>7 DEF Ket
<1>2. ASSUME NEW v \in Basis, \A X \in Real(mp.used) : Virtual(mp, X) # v
      PROVE  Ket[v] = 0
  <2>1. {} \in Real(mp.used)
    BY DEF Real
  <2>2. v # {}
    BY <1>2, <2>1
  <2>3. QED
    BY <2>2 DEF Ket
<1>3. Ket = [v \in Basis |-> Ket[v]]
  BY DEF Ket
<1> HIDE DEF f
<1>4. QED
  BY <1>1, <1>2, <1>3, DecodedUnique DEF f

LEMMA EmptyMapDecodes ==
  ASSUME NEW mp, mp.used = 0, mp.cols = EmptyMat, mp.b = {}
  PROVE  GoodMap(mp) /\ \A X \in Real(mp.used) : Virtual(mp, X) = X
<1>1. GoodMap(mp)
  BY EmptyIndependent DEF GoodMap, Basis
<1>2. ASSUME NEW X \in Real(0) PROVE Virtual(mp, X) = X
  <2>1. X = {}
    BY RealZero
  <2>2. Mul(EmptyMat, {}) = {}
    BY EmptyIndependent, MulColumn DEF Independent
  <2>3. QED
    BY <2>1, <2>2, XorEmpty DEF Virtual
<1>3. QED
  BY <1>1, <1>2

LEMMA IdentityMul ==
  ASSUME NEW x \in Real(N)
  PROVE  Mul([c \in Rows |-> {c}], x) = x
<1> DEFINE mat == [c \in Rows |-> {c}]
           f == [y \in Real(N) |-> y]
<1>1. mat \in Matrix(N) /\ N \in Nat
  BY RowsAssumption DEF Matrix, Rows
<1>2. Additive(f, N)
  BY RowsAssumption, RealXor DEF Additive
<1>3. \A c \in 0 .. N - 1 : f[{c}] = mat[c]
  BY DEF Real, Rows
<1>4. f[x] = x
  OBVIOUS
<1> HIDE DEF f, mat
<1>5. Mul(mat, x) = f[x]
  BY <1>1, <1>2, <1>3, MulOfAdditive
<1>6. QED
  BY <1>4, <1>5 DEF mat

LEMMA FullMapDecodes ==
  ASSUME NEW mp, mp.used = N, mp.cols = [c \in 0 .. N - 1 |-> {c}], mp.b = {}
  PROVE  GoodMap(mp) /\ \A X \in Real(mp.used) : Virtual(mp, X) = X
<1>1. N \in Nat /\ mp.cols = [c \in Rows |-> {c}]
  BY RowsAssumption DEF Rows
<1>2. Independent(mp.cols, N)
  BY <1>1, IdentityIndependent
<1>3. GoodMap(mp)
  BY <1>1, <1>2 DEF GoodMap, Basis
<1>4. ASSUME NEW X \in Real(N) PROVE Virtual(mp, X) = X
  BY <1>1, IdentityMul, XorEmpty DEF Virtual
<1>5. QED
  BY <1>3, <1>4

(***************************************************************************)
(* The batch: one matrix per qubit, applied in the order of the qubits.    *)
(***************************************************************************)
Matrices == [Qubits -> U3Matrices]

Layers(p, a, r) ==
  /\ r \in [0 .. N -> States]
  /\ r[0] = p
  /\ \A i \in 0 .. N - 1 : r[i + 1] = Fused(r[i], a[i], i)

Layered(p, a) == (CHOOSE r : Layers(p, a, r))[N]

LEMMA QubitNumbers ==
  /\ N \in Nat
  /\ Qubits = 0 .. N - 1
BY RowsAssumption DEF Qubits, Rows

\* Two runs of the same layers end alike.
LEMMA LayersUnique ==
  ASSUME NEW p, NEW a, NEW r, NEW t, Layers(p, a, r), Layers(p, a, t)
  PROVE  r[N] = t[N]
<1> DEFINE S == {n \in Nat : n <= N => r[n] = t[n]}
<1>1. N \in Nat
  BY QubitNumbers
<1>2. 0 \in S
  BY DEF Layers
<1>3. ASSUME NEW n \in Nat, n \in S PROVE n + 1 \in S
  <2>1. ASSUME n + 1 <= N PROVE r[n + 1] = t[n + 1]
    <3>1. n \in 0 .. N - 1 /\ r[n] = t[n]
      BY <1>1, <1>3, <2>1
    <3>2. QED
      BY <3>1 DEF Layers
  <2>2. QED
    BY <2>1
<1> HIDE DEF S
<1>4. N \in S
  BY <1>1, <1>2, <1>3, NaturalInduction
<1>5. QED
  BY <1>1, <1>4 DEF S

LEMMA LayeredIs ==
  ASSUME NEW p, NEW a, NEW r, Layers(p, a, r)
  PROVE  Layered(p, a) = r[N]
<1> DEFINE t == CHOOSE s : Layers(p, a, s)
<1>1. Layers(p, a, t)
  OBVIOUS
<1> HIDE DEF t
<1>2. t[N] = r[N]
  BY <1>1, LayersUnique
<1>3. QED
  BY <1>2 DEF t, Layered

\* The layers exist: the states after i of them, by induction on i.
LEMMA LayersExist ==
  ASSUME NEW p \in States, NEW a \in Matrices
  PROVE  \E r : Layers(p, a, r)
<1> DEFINE Upto(n, r) == /\ r \in [0 .. N -> States]
                         /\ r[0] = p
                         /\ \A i \in 0 .. N - 1 : i < n => r[i + 1] = Fused(r[i], a[i], i)
           S == {n \in Nat : n <= N => \E r : Upto(n, r)}
<1>1. N \in Nat /\ Qubits = 0 .. N - 1
  BY QubitNumbers
<1>2. 0 \in S
  <2> DEFINE r == [i \in 0 .. N |-> p]
  <2>1. r \in [0 .. N -> States] /\ r[0] = p
    BY <1>1
  <2>2. \A i \in 0 .. N - 1 : ~(i < 0)
    OBVIOUS
  <2> HIDE DEF r
  <2>3. Upto(0, r)
    BY <2>1, <2>2
  <2>4. QED
    BY <2>3
<1>3. ASSUME NEW n \in Nat, n \in S PROVE n + 1 \in S
  <2>1. ASSUME n + 1 <= N PROVE \E r : Upto(n + 1, r)
    <3>1. n <= N /\ n \in 0 .. N - 1 /\ n + 1 \in 0 .. N
      BY <1>1, <2>1
    <3>2. PICK r : Upto(n, r)
      BY <1>3, <3>1
    <3> DEFINE x == Fused(r[n], a[n], n)
               t == [r EXCEPT ![n + 1] = x]
    <3>3. x \in States
      <4>1. r[n] \in States /\ a[n] \in U3Matrices /\ n \in Qubits
        BY <1>1, <3>1, <3>2 DEF Matrices
      <4>2. QED
        BY <4>1, FusedTyped
    <3> HIDE DEF x
    <3>4. t \in [0 .. N -> States] /\ t[0] = p
      BY <3>1, <3>2, <3>3
    <3>8. t[n + 1] = x /\ \A i \in 0 .. N : i # n + 1 => t[i] = r[i]
      BY <3>1, <3>2
    <3> HIDE DEF t
    <3>5. ASSUME NEW i \in 0 .. N - 1, i < n + 1 PROVE t[i + 1] = Fused(t[i], a[i], i)
      <4>1. i \in 0 .. N /\ i + 1 \in 0 .. N /\ i # n + 1
        BY <1>1, <3>5
      <4>2. t[i] = r[i]
        BY <3>8, <4>1
      <4>3. CASE i = n
        BY <3>8, <4>2, <4>3 DEF x
      <4>4. CASE i # n
        <5>1. i < n /\ i + 1 # n + 1
          BY <3>5, <4>4
        <5>2. t[i + 1] = r[i + 1]
          BY <3>8, <4>1, <5>1
        <5>3. QED
          BY <3>2, <4>2, <5>1, <5>2
      <4>5. QED
        BY <4>3, <4>4
    <3>6. Upto(n + 1, t)
      BY <3>4, <3>5
    <3>7. QED
      BY <3>6
  <2>2. QED
    BY <2>1
<1> HIDE DEF S
<1>4. N \in S
  BY <1>1, <1>2, <1>3, NaturalInduction
<1>5. PICK r : Upto(N, r)
  BY <1>1, <1>4 DEF S
<1>6. Layers(p, a, r)
  BY <1>1, <1>5 DEF Layers
<1>7. QED
  BY <1>6

LEMMA LayeredTyped ==
  ASSUME NEW p \in States, NEW a \in Matrices
  PROVE  Layered(p, a) \in States
<1>1. PICK r : Layers(p, a, r)
  BY LayersExist
<1>2. r[N] \in States
  BY <1>1, QubitNumbers DEF Layers
<1>3. QED
  BY <1>1, <1>2, LayeredIs

\* An empty batch changes nothing.
LEMMA NoLayers ==
  ASSUME NEW p \in States
  PROVE  Layered(p, NoBatch) = p
<1> DEFINE r == [i \in 0 .. N |-> p]
<1>1. N \in Nat /\ Qubits = 0 .. N - 1
  BY QubitNumbers
<1>2. ASSUME NEW i \in 0 .. N - 1 PROVE r[i + 1] = Fused(r[i], NoBatch[i], i)
  <2>1. r[i + 1] = p /\ r[i] = p /\ i \in Qubits /\ NoBatch[i] = Identity
    BY <1>1 DEF NoBatch
  <2>2. QED
    BY <2>1, FusedIdentity
<1>3. r \in [0 .. N -> States] /\ r[0] = p /\ r[N] = p
  BY <1>1
<1> HIDE DEF r
<1>4. Layers(p, NoBatch, r)
  BY <1>2, <1>3 DEF Layers
<1>5. QED
  BY <1>3, <1>4, LayeredIs

\* absorb_u3_gate: one more matrix from the left on q comes to the same as the gate
\* after all the layers, because matrices on other qubits commute with it.
LEMMA LayersAbsorb ==
  ASSUME NEW p \in States, NEW a \in Matrices, NEW q \in Qubits, NEW u \in U3Matrices
  PROVE  /\ [a EXCEPT ![q] = LeftMultiply(u, @)] \in Matrices
         /\ Layered(p, [a EXCEPT ![q] = LeftMultiply(u, @)]) = Fused(Layered(p, a), u, q)
<1> DEFINE e == [a EXCEPT ![q] = LeftMultiply(u, @)]
<1>1. N \in Nat /\ Qubits = 0 .. N - 1
  BY QubitNumbers
<1>2. PICK r : Layers(p, a, r)
  BY LayersExist
<1>3. /\ r \in [0 .. N -> States] /\ r[0] = p
      /\ \A i \in 0 .. N - 1 : r[i + 1] = Fused(r[i], a[i], i)
  BY <1>2 DEF Layers
<1> DEFINE t == [i \in 0 .. N |-> IF i <= q THEN r[i] ELSE Fused(r[i], u, q)]
<1>4. a[q] \in U3Matrices /\ LeftMultiply(u, a[q]) \in U3Matrices
  BY ProductTyped DEF Matrices
<1>5. e \in Matrices /\ e[q] = LeftMultiply(u, a[q]) /\ \A i \in Qubits : i # q => e[i] = a[i]
  BY <1>4 DEF Matrices
<1>6. t \in [0 .. N -> States]
  <2>1. \A i \in 0 .. N : r[i] \in States /\ Fused(r[i], u, q) \in States
    BY <1>3, FusedTyped
  <2>2. QED
    BY <2>1
<1>7. t[0] = p /\ t[N] = Fused(r[N], u, q)
  BY <1>1, <1>3
<1>8. /\ \A i \in 0 .. N : i <= q => t[i] = r[i]
      /\ \A i \in 0 .. N : ~(i <= q) => t[i] = Fused(r[i], u, q)
  OBVIOUS
<1> HIDE DEF e, t
<1>9. ASSUME NEW i \in 0 .. N - 1 PROVE t[i + 1] = Fused(t[i], e[i], i)
  <2>1. /\ i \in Qubits /\ i \in 0 .. N /\ i + 1 \in 0 .. N
        /\ r[i] \in States /\ a[i] \in U3Matrices /\ r[i + 1] = Fused(r[i], a[i], i)
    BY <1>1, <1>3 DEF Matrices
  <2>2. CASE i < q
    <3>1. i <= q /\ i + 1 <= q /\ i # q
      BY <1>1, <2>2
    <3>2. t[i] = r[i] /\ t[i + 1] = r[i + 1] /\ e[i] = a[i]
      BY <1>5, <1>8, <2>1, <3>1
    <3>3. QED
      BY <2>1, <3>2
  <2>3. CASE i = q
    <3>1. i <= q /\ ~(i + 1 <= q)
      BY <1>1, <2>3
    <3>2. t[i] = r[i] /\ t[i + 1] = Fused(r[i + 1], u, q) /\ e[i] = LeftMultiply(u, a[i])
      BY <1>5, <1>8, <2>1, <2>3, <3>1
    <3>3. Fused(Fused(r[i], a[i], q), u, q) = Fused(r[i], LeftMultiply(u, a[i]), q)
      BY <2>1, FusedProduct
    <3>4. QED
      BY <2>1, <2>3, <3>2, <3>3
  <2>4. CASE q < i
    <3>1. ~(i <= q) /\ ~(i + 1 <= q) /\ i # q
      BY <1>1, <2>4
    <3>2. t[i] = Fused(r[i], u, q) /\ t[i + 1] = Fused(r[i + 1], u, q) /\ e[i] = a[i]
      BY <1>5, <1>8, <2>1, <3>1
    <3>3. Fused(Fused(r[i], a[i], i), u, q) = Fused(Fused(r[i], u, q), a[i], i)
      BY <2>1, <3>1, FusedCommute
    <3>4. QED
      BY <2>1, <3>2, <3>3
  <2>5. QED
    BY <1>1, <2>2, <2>3, <2>4
<1>10. Layers(p, e, t)
  BY <1>3, <1>6, <1>7, <1>9 DEF Layers
<1>11. Layered(p, e) = t[N] /\ Layered(p, a) = r[N]
  BY <1>2, <1>10, LayeredIs
<1>12. QED
  BY <1>5, <1>7, <1>11 DEF e

(***************************************************************************)
(* What the observer of the state computes, and what the batch does to it.  *)
(***************************************************************************)
LEMMA OnlyOne ==
  ASSUME NEW x
  PROVE  Only({x}) = x
BY DEF Only

\* The fold in Psi, qubit by qubit.
LEMMA ObservedSteps ==
  ASSUME NEW p \in States, p = PlacedAt(Held(Flushed)), acc \in Matrices
  PROVE  \E r : Layers(p, acc, r) /\ Psi = r[N]
<1> DEFINE V == States
           seq == [i \in 1 .. N |-> i - 1]
           F(s, q) == Only({WithBatch(t, q) : t \in {s}})
           base == Only({PlacedAt(held) : held \in {Held(f) : f \in {Flushed}}})
           G == [x \in (1 .. N) \X V |-> F(x[2], seq[x[1]])]
           Eq(g) == g = [T \in SUBSET (1 .. N) |->
                           IF T = {} THEN base
                           ELSE F(g[T \ {Max(T)}], seq[Max(T)])]
           iter == CHOOSE g : Eq(g)
<1>1. N \in Nat /\ \A i \in 1 .. N : seq[i] \in Qubits /\ seq[i] = i - 1
  BY RowsAssumption DEF Qubits, Rows
<1>2. base = p
  <2>1. {PlacedAt(held) : held \in {Held(f) : f \in {Flushed}}} = {p}
    OBVIOUS
  <2>2. QED
    BY <2>1, OnlyOne
<1>3. ASSUME NEW s \in V, NEW q \in Qubits
      PROVE  F(s, q) = Fused(s, acc[q], q) /\ F(s, q) \in V
  <2>1. {WithBatch(t, q) : t \in {s}} = {WithBatch(s, q)}
    OBVIOUS
  <2>2. F(s, q) = WithBatch(s, q)
    BY <2>1, OnlyOne
  <2>3. acc[q] \in U3Matrices
    BY DEF Matrices
  <2>4. WithBatch(s, q) = Fused(s, acc[q], q)
    <3>1. CASE acc[q] = Identity
      BY <3>1, FusedIdentity DEF WithBatch
    <3>2. CASE acc[q] # Identity
      BY <3>2 DEF WithBatch, Fused
    <3>3. QED
      BY <3>1, <3>2
  <2>5. Fused(s, acc[q], q) \in States
    BY <2>3, FusedTyped
  <2>6. QED
    BY <2>2, <2>4, <2>5
<1> HIDE DEF F, V, base
<1>4. G \in [(1 .. N) \X V -> V]
  <2>1. \A x \in (1 .. N) \X V : F(x[2], seq[x[1]]) \in V
    BY <1>1, <1>3
  <2>2. QED
    BY <2>1
<1>5. base \in V
  BY <1>2 DEF V
<1>6. \E g : Eq(g)
  <2>0. PICK g : FoldsFirst(g, N, V, base, G)
    <3> HIDE DEF G
    <3>1. QED
      BY <1>1, <1>4, <1>5, SequenceFoldExists
  <2>1. /\ g \in [SUBSET (1 .. N) -> V]
        /\ g = [T \in SUBSET (1 .. N) |->
                  IF T = {} THEN base ELSE G[<<Max(T), g[T \ {Max(T)}]>>]]
    BY <2>0 DEF FoldsFirst
  <2>2. ASSUME NEW T \in SUBSET (1 .. N), T # {}
        PROVE  G[<<Max(T), g[T \ {Max(T)}]>>] = F(g[T \ {Max(T)}], seq[Max(T)])
    <3>1. Max(T) \in 1 .. N
      BY <1>1, <2>2, LargestIndex
    <3>2. T \ {Max(T)} \in SUBSET (1 .. N)
      OBVIOUS
    <3>3. g[T \ {Max(T)}] \in V
      BY <2>1, <3>2
    <3>4. QED
      BY <3>1, <3>3 DEF G
  <2>3. Eq(g)
    BY <2>1, <2>2
  <2>4. QED
    BY <2>3
<1>7. Eq(iter)
  BY <1>6
<1>8. Psi = Only({iter[1 .. N]})
  BY DEF Psi, F, base, Seqs!FoldLeft, Seqs!MapThenFoldSet, Seqs!Max, Max
<1>9. Psi = iter[1 .. N]
  BY <1>8, OnlyOne
<1> HIDE DEF iter
<1> DEFINE st == [i \in 0 .. N |-> iter[1 .. i]]
           S == {n \in Nat : n <= N => st[n] \in V}
<1>10. st[0] = p /\ st[N] = iter[1 .. N]
  <2>1. 1 .. 0 = {} /\ {} \in SUBSET (1 .. N)
    OBVIOUS
  <2>2. iter[{}] = base
    BY <1>7, <2>1
  <2>3. QED
    BY <1>1, <1>2, <2>1, <2>2
<1>11. ASSUME NEW i \in 0 .. N - 1 PROVE st[i + 1] = F(st[i], i) /\ i \in Qubits
  <2>1. Max(1 .. i + 1) = i + 1 /\ (1 .. i + 1) \ {i + 1} = 1 .. i
    BY <1>1, PrefixSteps
  <2>2. 1 .. i + 1 \in SUBSET (1 .. N) /\ 1 .. i + 1 # {}
    BY <1>1, PrefixSteps
  <2>3. iter[1 .. i + 1] = F(iter[1 .. i], seq[i + 1])
    BY <1>7, <2>1, <2>2
  <2>4. seq[i + 1] = i /\ i \in Qubits
    BY <1>1, QubitNumbers
  <2>5. QED
    BY <1>1, <2>3, <2>4
<1> HIDE DEF st
<1>12. 0 \in S
  BY <1>10 DEF V
<1>13. ASSUME NEW n \in Nat, n \in S PROVE n + 1 \in S
  <2>1. ASSUME n + 1 <= N PROVE st[n + 1] \in V
    <3>1. n \in 0 .. N - 1 /\ st[n] \in V
      BY <1>1, <1>13, <2>1
    <3>2. QED
      BY <1>3, <1>11, <3>1
  <2>2. QED
    BY <2>1
<1> HIDE DEF S
<1>14. Nat \subseteq S
  BY <1>12, <1>13, NaturalInduction
<1>15. ASSUME NEW i \in 0 .. N PROVE st[i] \in States
  BY <1>1, <1>14, <1>15 DEF S, V
<1>16. st \in [0 .. N -> States]
  BY <1>15 DEF st
<1>17. ASSUME NEW i \in 0 .. N - 1 PROVE st[i + 1] = Fused(st[i], acc[i], i)
  BY <1>1, <1>3, <1>11, <1>15 DEF V
<1>18. Layers(p, acc, st)
  BY <1>10, <1>16, <1>17 DEF Layers
<1>19. QED
  BY <1>9, <1>10, <1>18

LEMMA Observed ==
  ASSUME M \in Nat, OneField, am.used \in 0 .. M, GoodMap(am), Cols(am.cols) = am.used,
         Flushed \in Blocks(am), acc \in Matrices
  PROVE  /\ Decoded(am, Flat(am, Flushed)) \in States
         /\ Psi = Layered(Decoded(am, Flat(am, Flushed)), acc)
<1> DEFINE p == Decoded(am, Flat(am, Flushed))
<1>1. Flat(am, Flushed) \in [Real(am.used) -> Amps]
  BY FlatTyped
<1>2. p \in States
  BY <1>1, DecodedTyped
<1>3. p = PlacedAt(Held(Flushed))
  BY PlacedIsDecoded
<1> HIDE DEF p
<1>4. PICK r : Layers(p, acc, r) /\ Psi = r[N]
  BY <1>2, <1>3, ObservedSteps
<1>5. Psi = Layered(p, acc)
  BY <1>4, LayeredIs
<1>6. QED
  BY <1>2, <1>5 DEF p

BatchStep(s, q) ==
  IF acc[q] = Identity THEN s
  ELSE BlockMixed(am, s, q, acc[q], BlockOf(SL, Delta(am, q).x))

\* flush_u3_batch, qubit by qubit.
LEMMA BatchSteps ==
  ASSUME M \in Nat, am.used \in 0 .. M, sv \in Blocks(am), acc \in [Qubits -> U3Matrices]
  PROVE  \E st : /\ st \in [0 .. N -> Blocks(am)]
                 /\ st[0] = sv
                 /\ \A i \in 0 .. N - 1 : st[i + 1] = BatchStep(st[i], i)
                 /\ BatchApplied = st[N]
<1> DEFINE V == Blocks(am)
           seq == [i \in 1 .. N |-> i - 1]
           G == [p \in (1 .. N) \X V |-> BatchStep(p[2], seq[p[1]])]
           Eq(g) == g = [T \in SUBSET (1 .. N) |->
                           IF T = {} THEN sv
                           ELSE BatchStep(g[T \ {Max(T)}], seq[Max(T)])]
           iter == CHOOSE g : Eq(g)
<1>1. N \in Nat /\ \A i \in 1 .. N : seq[i] \in Qubits /\ seq[i] = i - 1
  BY RowsAssumption DEF Qubits, Rows
<1>2. ASSUME NEW s \in V, NEW q \in Qubits PROVE BatchStep(s, q) \in V
  <2>1. acc[q] \in U3Matrices
    OBVIOUS
  <2>2. QED
    BY <2>1, BlockMixedTyped DEF BatchStep
<1> HIDE DEF V
<1>3. G \in [(1 .. N) \X V -> V]
  <2>1. \A p \in (1 .. N) \X V : BatchStep(p[2], seq[p[1]]) \in V
    BY <1>1, <1>2
  <2>2. QED
    BY <2>1
<1>4. sv \in V
  BY DEF V
<1>5. \E g : Eq(g)
  <2>0. PICK g : FoldsFirst(g, N, V, sv, G)
    <3> HIDE DEF G
    <3>1. QED
      BY <1>1, <1>3, <1>4, SequenceFoldExists
  <2>1. /\ g \in [SUBSET (1 .. N) -> V]
        /\ g = [T \in SUBSET (1 .. N) |->
                  IF T = {} THEN sv ELSE G[<<Max(T), g[T \ {Max(T)}]>>]]
    BY <2>0 DEF FoldsFirst
  <2>2. ASSUME NEW T \in SUBSET (1 .. N), T # {}
        PROVE  G[<<Max(T), g[T \ {Max(T)}]>>] = BatchStep(g[T \ {Max(T)}], seq[Max(T)])
    <3>1. Max(T) \in 1 .. N
      BY <1>1, <2>2, LargestIndex
    <3>2. T \ {Max(T)} \in SUBSET (1 .. N)
      OBVIOUS
    <3>3. g[T \ {Max(T)}] \in V
      BY <2>1, <3>2
    <3>4. QED
      BY <3>1, <3>3 DEF G
  <2>3. Eq(g)
    BY <2>1, <2>2
  <2>4. QED
    BY <2>3
<1>6. Eq(iter)
  BY <1>5
<1>7. BatchApplied = iter[1 .. N]
  BY DEF BatchApplied, BatchStep, Seqs!FoldLeft, Seqs!MapThenFoldSet, Seqs!Max, Max
<1> HIDE DEF iter
<1> DEFINE st == [i \in 0 .. N |-> iter[1 .. i]]
           S == {n \in Nat : n <= N => st[n] \in V}
<1>8. st[0] = sv /\ st[N] = iter[1 .. N]
  <2>1. 1 .. 0 = {} /\ {} \in SUBSET (1 .. N)
    OBVIOUS
  <2>2. iter[{}] = sv
    BY <1>6, <2>1
  <2>3. QED
    BY <1>1, <2>1, <2>2
<1>9. ASSUME NEW i \in 0 .. N - 1 PROVE st[i + 1] = BatchStep(st[i], i) /\ i \in Qubits
  <2>1. Max(1 .. i + 1) = i + 1 /\ (1 .. i + 1) \ {i + 1} = 1 .. i
    BY <1>1, PrefixSteps
  <2>2. 1 .. i + 1 \in SUBSET (1 .. N) /\ 1 .. i + 1 # {}
    BY <1>1, PrefixSteps
  <2>3. iter[1 .. i + 1] = BatchStep(iter[1 .. i], seq[i + 1])
    BY <1>6, <2>1, <2>2
  <2>4. seq[i + 1] = i /\ i \in Qubits
    BY <1>1 DEF Qubits, Rows
  <2>5. QED
    BY <1>1, <2>3, <2>4
<1> HIDE DEF st
<1>10. 0 \in S
  BY <1>4, <1>8
<1>11. ASSUME NEW n \in Nat, n \in S PROVE n + 1 \in S
  <2>1. ASSUME n + 1 <= N PROVE st[n + 1] \in V
    <3>1. n \in 0 .. N - 1 /\ st[n] \in V
      BY <1>1, <1>11, <2>1
    <3>2. QED
      BY <1>2, <1>9, <3>1
  <2>2. QED
    BY <2>1
<1> HIDE DEF S
<1>12. Nat \subseteq S
  BY <1>10, <1>11, NaturalInduction
<1>13. ASSUME NEW i \in 0 .. N PROVE st[i] \in V
  BY <1>1, <1>12, <1>13 DEF S
<1>14. st \in [0 .. N -> V]
  BY <1>13 DEF st
<1>15. QED
  BY <1>7, <1>8, <1>9, <1>14 DEF V

\* The distance that the elimination finds leads to the neighbour in q.
LEMMA DeltaIsNeighbour ==
  ASSUME GoodMap(am), NEW q \in Qubits, Delta(am, q).ok
  PROVE  /\ Delta(am, q).x \in Real(am.used)
         /\ Mul(am.cols, Delta(am, q).x) = {q}
<1>1. am.used \in Nat /\ am.cols \in Matrix(am.used) /\ {q} \in SUBSET Rows
  BY VirtualFields DEF Qubits
<1>2. PICK k, mat : k = am.used /\ mat = am.cols /\ k \in Nat /\ mat \in Matrix(k)
  BY <1>1
<1>3. /\ Solve(mat, {q}).x \in Real(k)
      /\ Solve(mat, {q}).ok => Mul(mat, Solve(mat, {q}).x) = {q}
  BY <1>1, <1>2, SolveIsExact
<1>4. QED
  BY <1>2, <1>3 DEF Delta

\* flush_u3_batch does to the state what the batch stands for.
LEMMA BatchDecodes ==
  ASSUME M \in Nat, OneField, am.used \in 0 .. M, GoodMap(am),
         sv \in Blocks(am), acc \in Matrices,
         \A q \in Qubits : acc[q] # Identity => Batchable(q)
  PROVE  Decoded(am, Flat(am, BatchApplied)) = Layered(Decoded(am, Flat(am, sv)), acc)
<1>1. PICK st : /\ st \in [0 .. N -> Blocks(am)]
                /\ st[0] = sv
                /\ \A i \in 0 .. N - 1 : st[i + 1] = BatchStep(st[i], i)
                /\ BatchApplied = st[N]
  BY BatchSteps DEF Matrices
<1> DEFINE r == [i \in 0 .. N |-> Decoded(am, Flat(am, st[i]))]
<1>2. N \in Nat /\ Qubits = 0 .. N - 1
  BY QubitNumbers
<1>3. ASSUME NEW s \in Blocks(am)
      PROVE  Decoded(am, Flat(am, s)) \in States
  BY FlatTyped, DecodedTyped
<1>4. ASSUME NEW s \in Blocks(am), NEW q \in Qubits
      PROVE  Decoded(am, Flat(am, BatchStep(s, q))) = Fused(Decoded(am, Flat(am, s)), acc[q], q)
  <2>1. CASE acc[q] = Identity
    BY <1>3, <2>1, FusedIdentity DEF BatchStep
  <2>2. CASE acc[q] # Identity
    <3>1. Delta(am, q).ok /\ WorkerOf(SL, Delta(am, q).x) = {}
      BY <2>2 DEF Batchable
    <3>2. PICK d \in Real(am.used) : d = Delta(am, q).x /\ Mul(am.cols, d) = {q}
      BY <3>1, DeltaIsNeighbour
    <3>3. acc[q] \in U3Matrices /\ WorkerOf(SL, d) = {}
      BY <3>1, <3>2 DEF Matrices
    <3>4. BatchStep(s, q) = BlockMixed(am, s, q, acc[q], BlockOf(SL, d))
      BY <2>2, <3>2 DEF BatchStep
    <3>5. QED
      BY <3>2, <3>3, <3>4, ApplyBlockMixed
  <2>3. QED
    BY <2>1, <2>2
<1>5. \A i \in 0 .. N : r[i] = Decoded(am, Flat(am, st[i])) /\ r[i] \in States
  BY <1>1, <1>3
<1>6. r \in [0 .. N -> States]
  BY <1>5
<1> HIDE DEF r
<1>7. ASSUME NEW i \in 0 .. N - 1 PROVE r[i + 1] = Fused(r[i], acc[i], i)
  <2>1. i \in Qubits /\ i \in 0 .. N /\ i + 1 \in 0 .. N /\ st[i] \in Blocks(am)
    BY <1>1, <1>2
  <2>2. r[i + 1] = Decoded(am, Flat(am, BatchStep(st[i], i)))
    BY <1>1, <1>5, <2>1
  <2>3. QED
    BY <1>4, <1>5, <2>1, <2>2
<1>8. r[0] = Decoded(am, Flat(am, sv)) /\ r[N] = Decoded(am, Flat(am, BatchApplied))
  BY <1>1, <1>2, <1>5
<1>9. Layers(Decoded(am, Flat(am, sv)), acc, r)
  BY <1>6, <1>7, <1>8 DEF Layers
<1>10. QED
  BY <1>8, <1>9, LayeredIs

(***************************************************************************)
(* The windows: what has waited turns the amplitudes as if it had not.     *)
(***************************************************************************)
LEMMA SettledAt ==
  ASSUME M \in Nat, OneField, am.used \in 0 .. M, NEW w \in Workers, NEW x \in Active(am, w)
  PROVE  Flushed[w][x] = RotateBy(AngleAt(window[w], x), sv[w][x])
<1>1. x \in BlockAddrs
  BY InUse
<1>2. QED
  BY <1>1 DEF Flushed, Settled

LEMMA NothingToFlush ==
  ASSUME window = NoWindow, sv \in Blocks(am)
  PROVE  Flushed = sv
<1>1. /\ sv = [w \in Workers |-> sv[w]]
      /\ \A w \in Workers : sv[w] = [x \in BlockAddrs |-> sv[w][x]]
      /\ \A w \in Workers : \A x \in BlockAddrs : sv[w][x] \in Amps
  BY DEF Blocks
<1>2. ASSUME NEW w \in Workers, NEW x \in BlockAddrs
      PROVE  RotateBy(AngleAt(window[w], x), sv[w][x]) = sv[w][x]
  <2>1. window[w] = << >>
    BY DEF NoWindow
  <2>2. AngleAt(window[w], x) = 0
    BY <2>1, AngleOfNone
  <2>3. QED
    BY <1>1, <2>2, TurnedByZero DEF Amps
<1>3. ASSUME NEW w \in Workers PROVE Settled(w) = sv[w]
  <2>1. Settled(w) = [x \in BlockAddrs |-> sv[w][x]]
    BY <1>2 DEF Settled
  <2>2. QED
    BY <1>1, <2>1
<1>4. Flushed = [w \in Workers |-> sv[w]]
  BY <1>3 DEF Flushed
<1>5. QED
  BY <1>1, <1>4

\* A descriptor is pushed.
LEMMA PushedAt ==
  ASSUME NEW win \in Seq(Descriptors), NEW d \in Descriptors, NEW x \in SUBSET Nat, NEW a \in Amps
  PROVE  RotateBy(AngleAt(Append(win, d), x), a)
           = IF \A s \in d.sels : Eval(s, x) THEN RotateBy(d.theta, RotateBy(AngleAt(win, x), a))
                                             ELSE RotateBy(AngleAt(win, x), a)
<1>1. d.theta \in Int /\ \A s \in d.sels : s \in Selectors
  BY DEF Descriptors
<1>2. AngleAt(win, x) \in Int
  BY AngleTyped
<1>3. (\A s \in d.sels : Chooses(s, x)) <=> (\A s \in d.sels : Eval(s, x))
  <2>1. \A s \in d.sels : (Chooses(s, x) <=> Eval(s, x))
    BY <1>1, ChosenByAll
  <2>2. QED
    BY <2>1
<1>4. CASE \A s \in d.sels : Eval(s, x)
  <2>1. AngleAt(Append(win, d), x) = AngleAt(win, x) + d.theta
    BY <1>3, <1>4, AngleOfMore
  <2>2. RotateBy(d.theta, RotateBy(AngleAt(win, x), a)) = RotateBy(AngleAt(win, x) + d.theta, a)
    BY <1>1, <1>2, TurnedTwice
  <2>3. QED
    BY <1>4, <2>1, <2>2
<1>5. CASE ~(\A s \in d.sels : Eval(s, x))
  <2>1. AngleAt(Append(win, d), x) = AngleAt(win, x) + 0
    BY <1>3, <1>5, AngleOfMore
  <2>2. AngleAt(Append(win, d), x) = AngleAt(win, x)
    BY <1>2, <2>1
  <2>3. QED
    BY <1>5, <2>2
<1>6. QED
  BY <1>4, <1>5

\* Blocks that hold the turned amplitudes hold the turned state.
LEMMA BlocksTurn ==
  ASSUME M \in Nat, OneField, am.used \in 0 .. M, GoodMap(am), NEW s, NEW t,
         NEW theta \in Int, NEW controls \in SUBSET Qubits,
         \A w \in Workers : \A x \in Active(am, w) :
           t[w][x] = IF \A c \in controls : Eval(BlockSelector(am, c, w), x)
                     THEN RotateBy(theta, s[w][x]) ELSE s[w][x]
  PROVE  Decoded(am, Flat(am, t)) = Turn(Decoded(am, Flat(am, s)), theta, controls)
<1> DEFINE f == Flat(am, s)
           g == Flat(am, t)
<1>1. ASSUME NEW X \in Real(am.used)
      PROVE  g[X] = IF controls \subseteq Virtual(am, X) THEN RotateBy(theta, f[X]) ELSE f[X]
  <2>1. PICK w \in Workers : \E x \in Active(am, w) : Glob(w, x) = X
    BY InUseBack
  <2>2. PICK x \in Active(am, w) : Glob(w, x) = X
    BY <2>1
  <2>3. Flat(am, s)[Glob(w, x)] = s[w][x] /\ Flat(am, t)[Glob(w, x)] = t[w][x]
    BY FlatAt
  <2>4. am.cols \in Matrix(am.used)
    BY VirtualFields
  <2>5. \A c \in controls :
          (Eval(BlockSelector(am, c, w), x) <=> c \in Virtual(am, Glob(w, x)))
    BY <2>4, BlockSelectorReads
  <2>6. (\A c \in controls : Eval(BlockSelector(am, c, w), x)) <=> controls \subseteq Virtual(am, X)
    BY <2>2, <2>5
  <2>7. QED
    BY <2>2, <2>3, <2>6
<1> HIDE DEF f, g
<1>2. Decoded(am, g) = Turn(Decoded(am, f), theta, controls)
  BY <1>1, TurnDecodes
<1>3. QED
  BY <1>2 DEF f, g

(***************************************************************************)
(* One step at a time.                                                     *)
(***************************************************************************)
\* The state that the blocks hold once the windows are flushed.
Vector == Decoded(am, Flat(am, Flushed))

LEMMA StateFits ==
  ASSUME StateInv
  PROVE  /\ M \in Nat /\ am.used \in 0 .. M /\ M \in 0 .. N
         /\ GoodMap(am) /\ Cols(am.cols) = am.used
         /\ sv \in Blocks(am) /\ Flushed \in Blocks(am) /\ acc \in Matrices
         /\ window \in [Workers -> Seq(Descriptors)]
<1>1. M \in Nat /\ am.used \in 0 .. M /\ M \in 0 .. N
  BY RowsAssumption DEF StateInv, CapacityInv, Fitting, Regular
<1>2. am.used = Cols(am.cols) /\ Independent(am.cols, am.used) /\ am.b \in Basis
  BY DEF StateInv, CapacityInv, Fitting, Regular, Shape
<1>3. GoodMap(am)
  BY <1>1, <1>2 DEF GoodMap
<1>4. /\ sv \in Blocks(am) /\ acc \in Matrices
      /\ window \in [Workers -> Seq(Descriptors)]
  BY DEF StateInv, Shape, Matrices
<1>5. QED
  BY <1>1, <1>2, <1>3, <1>4, FlushTyped

\* What get_state() shows, with and without a batch and windows.
LEMMA WhatWaits ==
  StateInv /\ OneField =>
    /\ Vector \in States
    /\ Psi = Layered(Vector, acc)
    /\ Psi \in States
    /\ acc = NoBatch => Psi = Vector
    /\ window = NoWindow => Vector = Decoded(am, Flat(am, sv))
<1> SUFFICES ASSUME StateInv, OneField
             PROVE  /\ Vector \in States
                    /\ Psi = Layered(Vector, acc)
                    /\ Psi \in States
                    /\ acc = NoBatch => Psi = Vector
                    /\ window = NoWindow => Vector = Decoded(am, Flat(am, sv))
  OBVIOUS
<1>1. Vector \in States /\ Psi = Layered(Vector, acc) /\ acc \in Matrices /\ sv \in Blocks(am)
  BY StateFits, Observed DEF Vector
<1>2. Psi \in States
  BY <1>1, LayeredTyped
<1>3. ASSUME acc = NoBatch PROVE Psi = Vector
  BY <1>1, <1>3, NoLayers
<1>4. ASSUME window = NoWindow PROVE Vector = Decoded(am, Flat(am, sv))
  BY <1>1, <1>4, NothingToFlush DEF Vector
<1>5. QED
  BY <1>1, <1>2, <1>3, <1>4

LEMMA WhatWaitsNext ==
  ASSUME StateInv', OneField'
  PROVE  /\ Psi' = Layered(Vector', acc')
         /\ acc' = NoBatch => Psi' = Vector'
         /\ window' = NoWindow => Vector' = (Decoded(am, Flat(am, sv)))'
<1>1. (StateInv /\ OneField =>
        /\ Vector \in States
        /\ Psi = Layered(Vector, acc)
        /\ Psi \in States
        /\ acc = NoBatch => Psi = Vector
        /\ window = NoWindow => Vector = Decoded(am, Flat(am, sv)))'
  BY WhatWaits, PTL
<1>2. NoBatch' = NoBatch /\ NoWindow' = NoWindow
  BY DEF NoBatch, NoWindow
<1>3. QED
  BY <1>1, <1>2

LEMMA FlatNext ==
  ASSUME M' = M
  PROVE  /\ (Decoded(am, Flat(am, sv)))' = Decoded(am', Flat(am', sv'))
         /\ Vector' = Decoded(am', Flat(am', Flushed'))
<1>1. SL' = SL
  BY DEF SL
<1>2. (Flat(am, sv))' = Flat(am', sv') /\ (Flat(am, Flushed))' = Flat(am', Flushed')
  BY <1>1 DEF Flat
<1>3. QED
  BY <1>2 DEF Decoded, Virtual, Vector

LEMMA FlushedNext ==
  ASSUME M' = M, am'.used = am.used
  PROVE  /\ (sv' = sv /\ window' = window) => Flushed' = Flushed
         /\ \A w \in Workers : \A x \in BlockAddrs :
              x \in Active(am, w) => Flushed'[w][x] = RotateBy(AngleAt(window'[w], x), sv'[w][x])
<1>1. SL' = SL /\ BlockAddrs' = BlockAddrs
  BY DEF SL, BlockAddrs
<1>2. \A w \in Workers : (Active(am, w))' = Active(am, w)
  BY <1>1 DEF Active, Bits
<1>3. Flushed' = [w \in Workers |-> [x \in BlockAddrs |->
                    IF x \in Active(am, w) THEN RotateBy(AngleAt(window'[w], x), sv'[w][x])
                                           ELSE sv'[w][x]]]
  BY <1>1, <1>2 DEF Flushed, Settled, Active, Bits
<1>4. Flushed = [w \in Workers |-> [x \in BlockAddrs |->
                    IF x \in Active(am, w) THEN RotateBy(AngleAt(window[w], x), sv[w][x])
                                           ELSE sv[w][x]]]
  BY DEF Flushed, Settled
<1>5. QED
  BY <1>3, <1>4

\* The windows are flushed.
LEMMA FlushKeeps ==
  ASSUME StateInv, OneField, StateInv', OneField', UNCHANGED <<M, am, acc>>,
         sv' = Flushed, window' = NoWindow
  PROVE  Psi' = Psi
<1>1. Vector' = (Decoded(am, Flat(am, sv)))'
  BY WhatWaitsNext
<1>2. Vector' = Vector
  BY <1>1, FlatNext DEF Vector
<1>3. QED
  BY <1>2, WhatWaits, WhatWaitsNext

\* Nothing moves.
LEMMA StandsStill ==
  ASSUME StateInv, OneField, StateInv', OneField', UNCHANGED <<M, am, acc, sv, window>>
  PROVE  Psi' = Psi
<1>1. Flushed' = Flushed
  BY FlushedNext
<1>2. Vector' = Vector
  BY <1>1, FlatNext DEF Vector
<1>3. QED
  BY <1>2, WhatWaits, WhatWaitsNext

LEMMA TurnStep ==
  ASSUME StateInv, OneField, StateInv', OneField', UNCHANGED <<M, am, acc>>, acc = NoBatch,
         NEW theta \in Int, NEW controls \in SUBSET Qubits,
         \A w \in Workers : \A x \in Active(am, w) :
           RotateBy(AngleAt(window'[w], x), sv'[w][x])
             = IF \A c \in controls : Eval(BlockSelector(am, c, w), x)
               THEN RotateBy(theta, Flushed[w][x]) ELSE Flushed[w][x]
  PROVE  Psi' = Turn(Psi, theta, controls)
<1>1. M \in Nat /\ am.used \in 0 .. M /\ GoodMap(am)
  BY StateFits
<1>2. PICK t : t = Flushed'
  OBVIOUS
<1>3. \A w \in Workers : \A x \in Active(am, w) :
        t[w][x] = IF \A c \in controls : Eval(BlockSelector(am, c, w), x)
                  THEN RotateBy(theta, Flushed[w][x]) ELSE Flushed[w][x]
  <2>1. ASSUME NEW w \in Workers, NEW x \in Active(am, w)
        PROVE  t[w][x] = RotateBy(AngleAt(window'[w], x), sv'[w][x])
    <3>1. x \in BlockAddrs
      BY <1>1, InUse
    <3>2. QED
      BY <1>2, <3>1, FlushedNext
  <2>2. QED
    BY <2>1
<1>4. Decoded(am, Flat(am, t)) = Turn(Decoded(am, Flat(am, Flushed)), theta, controls)
  BY <1>1, <1>3, BlocksTurn
<1>5. Vector' = Turn(Vector, theta, controls)
  BY <1>2, <1>4, FlatNext DEF Vector
<1>6. QED
  BY <1>5, WhatWaits, WhatWaitsNext

\* Outside a run of H and U3 the batch is empty.
LEMMA BatchEmpty ==
  ASSUME StateInv, ~cluster
  PROVE  acc = NoBatch
BY DEF StateInv, CapacityInv, Waiting, Apart

LEMMA WindowEmpty ==
  ASSUME StateInv, cluster
  PROVE  window = NoWindow
BY DEF StateInv, CapacityInv, Waiting, Apart

\* Z, Rz and P wait in the window.
LEMMA PStep ==
  ASSUME StateInv, OneField, StateInv', OneField', NEW g \in Gate, DoP(g)
  PROVE  Psi' = Turn(Psi, Theta(g), {g.q})
<1>1. /\ UNCHANGED <<M, am, acc, sv>> /\ ~cluster
      /\ window' = [w \in Workers |->
           IF Live(w) THEN Append(window[w], Descriptor({BlockSelector(am, g.q, w)}, Theta(g)))
                      ELSE window[w]]
  BY DEF DoP, Advance, At
<1>2. /\ M \in Nat /\ am.used \in 0 .. M /\ sv \in Blocks(am)
      /\ window \in [Workers -> Seq(Descriptors)] /\ Fitting
  BY StateFits DEF StateInv, CapacityInv
<1>3. Theta(g) \in Int /\ g.q \in Qubits
  BY AnglesAssumption, CallsAssumption DEF Theta
<1>4. ASSUME NEW w \in Workers, NEW x \in Active(am, w)
      PROVE  RotateBy(AngleAt(window'[w], x), sv'[w][x])
               = IF \A c \in {g.q} : Eval(BlockSelector(am, c, w), x)
                 THEN RotateBy(Theta(g), Flushed[w][x]) ELSE Flushed[w][x]
  <2> DEFINE d == Descriptor({BlockSelector(am, g.q, w)}, Theta(g))
  <2>1. Live(w)
    BY <1>2, BitsInUse DEF Active, Live
  <2>2. x \in BlockAddrs /\ x \in SUBSET Nat
    BY <1>2, InUse, Fields
  <2>3. sv[w][x] \in Amps /\ window[w] \in Seq(Descriptors)
    BY <1>2, <2>2 DEF Blocks
  <2>4. d.sels = {BlockSelector(am, g.q, w)} /\ d.theta = Theta(g) /\ d \in Descriptors
    BY <1>2, <1>3, SelectorTyped DEF Descriptor, Descriptors
  <2>5. window'[w] = Append(window[w], d) /\ sv'[w][x] = sv[w][x]
    BY <1>1, <2>1
  <2> HIDE DEF d
  <2>6. RotateBy(AngleAt(Append(window[w], d), x), sv[w][x])
          = IF \A s \in d.sels : Eval(s, x)
            THEN RotateBy(d.theta, RotateBy(AngleAt(window[w], x), sv[w][x]))
            ELSE RotateBy(AngleAt(window[w], x), sv[w][x])
    BY <2>2, <2>3, <2>4, PushedAt
  <2>7. Flushed[w][x] = RotateBy(AngleAt(window[w], x), sv[w][x])
    BY <1>2, SettledAt
  <2>8. QED
    BY <2>4, <2>5, <2>6, <2>7
<1>5. {g.q} \in SUBSET Qubits
  BY <1>3
<1>6. QED
  BY <1>1, <1>3, <1>4, <1>5, BatchEmpty, TurnStep

\* CP waits in the window or, on a worker where it does not fit, turns the flushed
\* block at once.
LEMMA CPStep ==
  ASSUME StateInv, OneField, StateInv', OneField', NEW g \in Gate, DoCP(g)
  PROVE  Psi' = Turn(Psi, g.theta, {g.cq, g.q})
<1> DEFINE d(w) == Descriptor({BlockSelector(am, g.cq, w), BlockSelector(am, g.q, w)}, g.theta)
           chosen(w, x) == x \in Active(am, w) /\ \A s \in d(w).sels : Eval(s, x)
<1>1. /\ UNCHANGED <<M, am, acc>> /\ ~cluster
      /\ window' = [w \in Workers |->
             CASE ~Live(w)   -> window[w]
               [] Live(w) /\ Fits(d(w)) -> Append(window[w], d(w))
               [] OTHER      -> << >>]
      /\ sv' = [w \in Workers |->
             IF ~Live(w) \/ Fits(d(w)) THEN sv[w]
             ELSE [x \in BlockAddrs |->
                     IF chosen(w, x) THEN RotateBy(g.theta, Settled(w)[x])
                                     ELSE Settled(w)[x]]]
  BY DEF DoCP, Advance, At
<1>2. /\ M \in Nat /\ am.used \in 0 .. M /\ sv \in Blocks(am) /\ Flushed \in Blocks(am)
      /\ window \in [Workers -> Seq(Descriptors)] /\ Fitting
  BY StateFits DEF StateInv, CapacityInv
<1>3. g.theta \in Int /\ g.q \in Qubits /\ g.cq \in Qubits
  BY AnglesAssumption, CallsAssumption DEF DoCP, At
<1>4. ASSUME NEW w \in Workers, NEW x \in Active(am, w)
      PROVE  RotateBy(AngleAt(window'[w], x), sv'[w][x])
               = IF \A c \in {g.cq, g.q} : Eval(BlockSelector(am, c, w), x)
                 THEN RotateBy(g.theta, Flushed[w][x]) ELSE Flushed[w][x]
  <2>1. Live(w)
    BY <1>2, BitsInUse DEF Active, Live
  <2>2. x \in BlockAddrs /\ x \in SUBSET Nat
    BY <1>2, InUse, Fields
  <2>3. sv[w][x] \in Amps /\ Flushed[w][x] \in Amps /\ window[w] \in Seq(Descriptors)
    BY <1>2, <2>2 DEF Blocks
  <2>4. PICK e : e = d(w)
    OBVIOUS
  <2>5. /\ e.sels = {BlockSelector(am, g.cq, w), BlockSelector(am, g.q, w)}
        /\ e.theta = g.theta /\ e \in Descriptors
    BY <1>2, <1>3, <2>4, SelectorTyped DEF Descriptor, Descriptors
  <2>6. chosen(w, x) <=> \A s \in e.sels : Eval(s, x)
    BY <2>4
  <2>7. window'[w] = IF Fits(e) THEN Append(window[w], e) ELSE << >>
    BY <1>1, <2>1, <2>4
  <2>8. sv'[w] = IF Fits(e) THEN sv[w]
                 ELSE [y \in BlockAddrs |->
                        IF chosen(w, y) THEN RotateBy(g.theta, Settled(w)[y]) ELSE Settled(w)[y]]
    BY <1>1, <2>1, <2>4
  <2>9. Flushed[w] = Settled(w)
    BY DEF Flushed
  <2> HIDE DEF d, chosen
  <2>10. sv'[w][x] = IF Fits(e) THEN sv[w][x]
                     ELSE IF \A s \in e.sels : Eval(s, x) THEN RotateBy(g.theta, Flushed[w][x])
                                                          ELSE Flushed[w][x]
    BY <2>2, <2>6, <2>8, <2>9
  <2>11. (\A s \in e.sels : Eval(s, x)) <=> \A c \in {g.cq, g.q} : Eval(BlockSelector(am, c, w), x)
    BY <2>5
  <2>12. CASE Fits(e)
    <3>1. RotateBy(AngleAt(Append(window[w], e), x), sv[w][x])
            = IF \A s \in e.sels : Eval(s, x)
              THEN RotateBy(e.theta, RotateBy(AngleAt(window[w], x), sv[w][x]))
              ELSE RotateBy(AngleAt(window[w], x), sv[w][x])
      BY <2>2, <2>3, <2>5, PushedAt
    <3>2. Flushed[w][x] = RotateBy(AngleAt(window[w], x), sv[w][x])
      BY <1>2, SettledAt
    <3>3. QED
      BY <2>5, <2>7, <2>10, <2>11, <2>12, <3>1, <3>2
  <2>13. CASE ~Fits(e)
    <3>1. PICK a \in Amps : a = sv'[w][x]
      <4>1. Flushed[w][x] \in Int
        BY <2>3 DEF Amps
      <4>2. RotateBy(g.theta, Flushed[w][x]) \in Amps
        BY <1>3, <4>1, Turned
      <4>3. QED
        BY <2>3, <2>10, <2>13, <4>2
    <3>2. AngleAt(window'[w], x) = 0
      BY <2>7, <2>13, AngleOfNone
    <3>3. RotateBy(0, a) = a
      BY TurnedByZero
    <3>4. RotateBy(AngleAt(window'[w], x), sv'[w][x]) = a
      BY <3>1, <3>2, <3>3
    <3>5. QED
      BY <2>10, <2>11, <2>13, <3>1, <3>4
  <2>14. QED
    BY <2>12, <2>13
<1>5. {g.cq, g.q} \in SUBSET Qubits
  BY <1>3
<1>6. UNCHANGED <<M, am, acc>> /\ acc = NoBatch
  BY <1>1, BatchEmpty
<1>7. QED
  BY <1>3, <1>4, <1>5, <1>6, TurnStep

\* An X moves the map, not the amplitudes.
LEMMA XStep ==
  ASSUME StateInv, OneField, StateInv', OneField', NEW g \in Gate, TransportX(g)
  PROVE  Psi' = [v \in Basis |-> Psi[v \oplus {g.q}]]
<1>1. /\ UNCHANGED <<M, acc, sv, window>> /\ ~cluster
      /\ am' = [used |-> am.used, cols |-> am.cols, b |-> am.b \oplus {g.q}]
  BY DEF TransportX, Advance, At
<1>2. Flushed' = Flushed
  BY <1>1, FlushedNext
<1>3. PICK new : new = am'
  OBVIOUS
<1>4. new.used = am.used /\ new.cols = am.cols /\ new.b = am.b \oplus {g.q}
  BY <1>1, <1>3
<1>5. GoodMap(am) /\ g.q \in Qubits
  BY StateFits, CallsAssumption
<1>6. PICK f : f = Flat(am, Flushed)
  OBVIOUS
<1>7. Flat(new, Flushed) = f
  BY <1>4, <1>6 DEF Flat
<1>8. Decoded(new, f) = [v \in Basis |-> Decoded(am, f)[v \oplus {g.q}]]
  <2>1. PICK q \in Qubits : q = g.q
    BY <1>5
  <2>2. PICK old : old = am
    OBVIOUS
  <2>3. GoodMap(old)
    BY <1>5, <2>2
  <2>4. Shifted(old, new, q)
    BY <1>4, <2>1, <2>2 DEF Shifted
  <2>5. Decoded(new, f) = [v \in Basis |-> Decoded(old, f)[v \oplus {q}]]
    BY <2>1, <2>3, <2>4, ShiftDecodes
  <2>6. QED
    BY <2>1, <2>2, <2>5
<1>9. Vector' = [v \in Basis |-> Vector[v \oplus {g.q}]]
  <2>1. M' = M /\ Flushed' = Flushed
    BY <1>1, <1>2
  <2>2. Vector' = Decoded(new, Flat(new, Flushed))
    BY <1>3, <2>1, FlatNext
  <2>3. Vector = Decoded(am, f)
    BY <1>6 DEF Vector
  <2>4. QED
    BY <1>7, <1>8, <2>2, <2>3
<1>10. acc = NoBatch /\ acc' = NoBatch
  BY <1>1, BatchEmpty
<1>11. QED
  BY <1>9, <1>10, WhatWaits, WhatWaitsNext

LEMMA CXStep ==
  ASSUME StateInv, OneField, StateInv', OneField', NEW g \in Gate, TransportCX(g)
  PROVE  Psi' = [v \in Basis |-> Psi[RowXor(v, g.q, g.cq)]]
<1>1. /\ UNCHANGED <<M, acc, sv, window>> /\ ~cluster /\ g.type = "CX"
      /\ am' = [used |-> am.used, cols |-> RowXorMat(am.cols, g.q, g.cq),
                b |-> RowXor(am.b, g.q, g.cq)]
  BY DEF TransportCX, Advance, At
<1>2. Flushed' = Flushed
  BY <1>1, FlushedNext
<1>3. PICK new : new = am'
  OBVIOUS
<1>4. /\ new.used = am.used /\ new.cols = RowXorMat(am.cols, g.q, g.cq)
      /\ new.b = RowXor(am.b, g.q, g.cq)
  BY <1>1, <1>3
<1>5. GoodMap(am) /\ g.q \in Qubits /\ g.cq \in Qubits /\ g.cq # g.q
  BY <1>1, StateFits, CallsAssumption
<1>6. PICK f : f = Flat(am, Flushed)
  OBVIOUS
<1>7. Flat(new, Flushed) = f
  BY <1>4, <1>6 DEF Flat
<1>8. Decoded(new, f) = [v \in Basis |-> Decoded(am, f)[RowXor(v, g.q, g.cq)]]
  <2>1. PICK q \in Qubits, c \in Qubits : q = g.q /\ c = g.cq /\ c # q
    BY <1>5
  <2>2. PICK old : old = am
    OBVIOUS
  <2>3. GoodMap(old)
    BY <1>5, <2>2
  <2>4. /\ new.used = old.used /\ new.cols = RowXorMat(old.cols, q, c)
        /\ new.b = RowXor(old.b, q, c)
    BY <1>4, <2>1, <2>2
  <2>5. Decoded(new, f) = [v \in Basis |-> Decoded(old, f)[RowXor(v, q, c)]]
    BY <2>1, <2>3, <2>4, RowXorDecodes
  <2>6. QED
    BY <2>1, <2>2, <2>5
<1>9. Vector' = [v \in Basis |-> Vector[RowXor(v, g.q, g.cq)]]
  <2>1. M' = M /\ Flushed' = Flushed
    BY <1>1, <1>2
  <2>2. Vector' = Decoded(new, Flat(new, Flushed))
    BY <1>3, <2>1, FlatNext
  <2>3. Vector = Decoded(am, f)
    BY <1>6 DEF Vector
  <2>4. QED
    BY <1>7, <1>8, <2>2, <2>3
<1>10. acc = NoBatch /\ acc' = NoBatch
  BY <1>1, BatchEmpty
<1>11. QED
  BY <1>9, <1>10, WhatWaits, WhatWaitsNext

\* solve_expand: the map and the distance it returns, and what it leaves alone.
LEMMA ExpandedMap ==
  ASSUME StateInv, OneField, NEW q \in Qubits, ~CannotExpand(q),
         NEW mp, mp = SolveExpand(q).map, NEW d, d = SolveExpand(q).delta
  PROVE  /\ mp.used \in 0 .. M /\ GoodMap(mp)
         /\ d \in Real(mp.used) /\ Mul(mp.cols, d) = {q}
         /\ \A s \in Blocks(am) :
              /\ s \in Blocks(mp)
              /\ Decoded(mp, Flat(mp, s)) = Decoded(am, Flat(am, s))
<1>1. /\ M \in Nat /\ am.used \in 0 .. M /\ GoodMap(am) /\ Cols(am.cols) = am.used
  BY StateFits
<1>2. CASE Delta(am, q).ok
  <2>1. mp = am /\ d = Delta(am, q).x
    BY <1>2 DEF SolveExpand
  <2>2. QED
    BY <1>1, <1>2, <2>1, DeltaIsNeighbour
<1>3. CASE ~Delta(am, q).ok
  <2>1. /\ mp = [used |-> am.used + 1, cols |-> AppendCol(am.cols, {q}), b |-> am.b]
        /\ d = {am.used}
    BY <1>1, <1>3 DEF SolveExpand
  <2>2. ~(am.used >= M)
    BY <1>3 DEF CannotExpand
  <2>3. /\ mp.used = am.used + 1 /\ mp.used <= M /\ mp.used \in 0 .. M /\ am.used <= mp.used
        /\ mp.cols = AppendCol(am.cols, {q}) /\ mp.b = am.b
    BY <1>1, <2>1, <2>2
  <2>4. \A X \in Real(am.used) : Mul(am.cols, X) # {q}
    <3>1. am.used \in Nat /\ am.cols \in Matrix(am.used) /\ {q} \in SUBSET Rows
      BY <1>1, VirtualFields DEF Qubits
    <3>2. PICK k, mat : k = am.used /\ mat = am.cols /\ k \in Nat /\ mat \in Matrix(k)
      BY <3>1
    <3>3. ~Solve(mat, {q}).ok => \A x \in Real(k) : Mul(mat, x) # {q}
      BY <3>1, <3>2, SolveIsExact, ZenonT(60)
    <3>4. QED
      BY <1>3, <3>2, <3>3 DEF Delta
  <2>5. ASSUME NEW s \in Blocks(am)
        PROVE  /\ GoodMap(mp) /\ Mul(mp.cols, {am.used}) = {q} /\ {am.used} \in Real(mp.used)
               /\ Decoded(mp, Flat(mp, s)) = Decoded(am, Flat(am, s))
    <3>1. PICK old : old = am
      OBVIOUS
    <3>2. /\ M \in Nat /\ old.used \in 0 .. M /\ GoodMap(old) /\ s \in Blocks(old)
          /\ Expanded(old, mp, q) /\ mp.used <= M
      BY <1>1, <2>3, <2>4, <3>1 DEF Expanded
    <3>3. /\ GoodMap(mp) /\ Mul(mp.cols, {old.used}) = {q} /\ {old.used} \in Real(mp.used)
          /\ Decoded(mp, Flat(mp, s)) = Decoded(old, Flat(old, s))
      BY <3>2, ExpansionDecodes
    <3>4. QED
      BY <3>1, <3>3
  <2>6. \A s \in Blocks(am) : s \in Blocks(mp)
    BY <1>1, <2>3, BlocksGrow
  <2>7. sv \in Blocks(am)
    BY StateFits
  <2>8. QED
    BY <2>1, <2>3, <2>5, <2>6, <2>7
<1>4. QED
  BY <1>2, <1>3

LEMMA ExplicitStep ==
  ASSUME StateInv, OneField, StateInv', OneField', NEW g \in Gate, ExplicitX(g), ~Fail
  PROVE  Psi' = Exchange(Psi, g.q, IF g.type = "CX" THEN {g.cq} ELSE {})
<1> DEFINE controls == IF g.type = "CX" THEN {g.cq} ELSE {}
<1>1. PICK mp, d : mp = SolveExpand(g.q).map /\ d = SolveExpand(g.q).delta
  OBVIOUS
<1>2. /\ ~CannotExpand(g.q) /\ WorkerOf(SL, d) = {} /\ ~cluster
      /\ UNCHANGED <<M, acc>> /\ am' = mp /\ window' = NoWindow
      /\ sv' = Swapped(mp, Flushed, g.q, controls, BlockOf(SL, d))
  BY <1>1 DEF ExplicitX, Advance, At
<1>3. /\ g.q \in Qubits /\ controls \in SUBSET Qubits /\ g.q \notin controls
  BY CallsAssumption
<1> HIDE DEF controls
<1>4. M \in Nat /\ Flushed \in Blocks(am)
  BY StateFits
<1>5. /\ mp.used \in 0 .. M /\ GoodMap(mp)
      /\ d \in Real(mp.used) /\ Mul(mp.cols, d) = {g.q}
      /\ Decoded(mp, Flat(mp, Flushed)) = Vector
  BY <1>1, <1>2, <1>3, <1>4, ExpandedMap DEF Vector
<1>6. PICK t : t = Swapped(mp, Flushed, g.q, controls, BlockOf(SL, d))
  OBVIOUS
<1>7. Decoded(mp, Flat(mp, t)) = Exchange(Vector, g.q, controls)
  BY <1>2, <1>3, <1>4, <1>5, <1>6, SwappedDecodes
<1>8. (Decoded(am, Flat(am, sv)))' = Decoded(mp, Flat(mp, t))
  BY <1>2, <1>6, FlatNext
<1>9. Vector' = Exchange(Vector, g.q, controls)
  BY <1>2, <1>7, <1>8, WhatWaitsNext
<1>10. acc = NoBatch /\ acc' = NoBatch
  BY <1>2, BatchEmpty
<1>11. Psi' = Exchange(Psi, g.q, controls)
  BY <1>9, <1>10, WhatWaits, WhatWaitsNext
<1>12. QED
  BY <1>11 DEF controls

LEMMA AbsorbStep ==
  ASSUME StateInv, OneField, StateInv', OneField', NEW g \in Gate, AbsorbU3(g)
  PROVE  Psi' = Fused(Psi, MatrixOf(g), g.q)
<1>1. /\ UNCHANGED <<M, am, sv, window>>
      /\ acc' = [acc EXCEPT ![g.q] = LeftMultiply(MatrixOf(g), @)]
  BY DEF AbsorbU3
<1>2. Vector' = Vector
  <2>1. Flushed' = Flushed
    BY <1>1, FlushedNext
  <2>2. QED
    BY <1>1, <2>1, FlatNext DEF Vector
<1>3. Vector \in States /\ acc \in Matrices /\ g.q \in Qubits /\ MatrixOf(g) \in U3Matrices
  BY StateFits, WhatWaits, CallsAssumption, MatrixTyped
<1>4. Layered(Vector, [acc EXCEPT ![g.q] = LeftMultiply(MatrixOf(g), @)])
        = Fused(Layered(Vector, acc), MatrixOf(g), g.q)
  BY <1>3, LayersAbsorb
<1>5. QED
  BY <1>1, <1>2, <1>4, WhatWaits, WhatWaitsNext

\* What is in the batch when it is flushed.
LEMMA BatchFlushed ==
  ASSUME StateInv, OneField, cluster, ~BatchAborts
  PROVE  /\ BatchApplied \in Blocks(am)
         /\ Decoded(am, Flat(am, BatchApplied)) = Psi
<1>1. /\ M \in Nat /\ am.used \in 0 .. M /\ GoodMap(am)
      /\ sv \in Blocks(am) /\ acc \in Matrices
  BY StateFits
<1>2. \A q \in Qubits : acc[q] # Identity => Batchable(q)
  BY DEF BatchAborts
<1>3. BatchApplied \in Blocks(am)
  BY <1>1, BatchTyped DEF Matrices
<1>4. Decoded(am, Flat(am, BatchApplied)) = Layered(Decoded(am, Flat(am, sv)), acc)
  BY <1>1, <1>2, BatchDecodes
<1>5. QED
  BY <1>3, <1>4, WindowEmpty, WhatWaits

LEMMA EagerStep ==
  ASSUME StateInv, OneField, StateInv', OneField', NEW g \in Gate, EagerU3(g), ~Fail
  PROVE  Psi' = Fused(Psi, MatrixOf(g), g.q)
<1>1. PICK mp, d : mp = SolveExpand(g.q).map /\ d = SolveExpand(g.q).delta
  OBVIOUS
<1>2. /\ ~CannotExpand(g.q) /\ ~BatchAborts /\ cluster
      /\ UNCHANGED <<M, window>> /\ am' = mp /\ acc' = NoBatch
      /\ sv' = Mixed(mp, BatchApplied, g.q, MatrixOf(g), d)
  BY <1>1 DEF EagerU3, InCluster
<1>3. g.q \in Qubits /\ MatrixOf(g) \in U3Matrices /\ M \in Nat
  BY StateFits, CallsAssumption, MatrixTyped
<1>4. PICK s \in Blocks(am) : s = BatchApplied /\ Decoded(am, Flat(am, s)) = Psi
  BY <1>2, BatchFlushed
<1>5. /\ mp.used \in 0 .. M /\ GoodMap(mp) /\ s \in Blocks(mp)
      /\ d \in Real(mp.used) /\ Mul(mp.cols, d) = {g.q}
      /\ Decoded(mp, Flat(mp, s)) = Psi
  BY <1>1, <1>2, <1>3, <1>4, ExpandedMap
<1>6. PICK t : t = Mixed(mp, s, g.q, MatrixOf(g), d)
  OBVIOUS
<1>7. Decoded(mp, Flat(mp, t)) = Fused(Psi, MatrixOf(g), g.q)
  BY <1>3, <1>5, <1>6, ApplyMixed
<1>8. (Decoded(am, Flat(am, sv)))' = Decoded(mp, Flat(mp, t))
  BY <1>2, <1>4, <1>6, FlatNext
<1>9. window' = NoWindow
  BY <1>2, WindowEmpty
<1>10. QED
  BY <1>2, <1>7, <1>8, <1>9, WhatWaitsNext

LEMMA EndStep ==
  ASSUME StateInv, OneField, StateInv', OneField', EndCluster, ~Fail
  PROVE  Psi' = Psi
<1>1. /\ ~BatchAborts /\ cluster /\ UNCHANGED <<M, am, window>>
      /\ acc' = NoBatch /\ sv' = BatchApplied
  BY DEF EndCluster
<1>2. (Decoded(am, Flat(am, sv)))' = Decoded(am, Flat(am, BatchApplied))
  BY <1>1, FlatNext
<1>3. window' = NoWindow
  BY <1>1, WindowEmpty
<1>4. QED
  BY <1>1, <1>2, <1>3, BatchFlushed, WhatWaitsNext

(***************************************************************************)
(* The gates of the abstract specification.                                *)
(***************************************************************************)
LEMMA DenseBasis == Dense!Basis = Basis
BY DEF Dense!Basis, Basis

LEMMA DenseXor ==
  ASSUME NEW v, NEW w
  PROVE  Dense!\oplus(v, w) = v \oplus w
BY DEF Dense!\oplus, \oplus

LEMMA DenseRowXor ==
  ASSUME NEW v, NEW dst, NEW src
  PROVE  Dense!RowXor(v, dst, src) = RowXor(v, dst, src)
BY DenseXor DEF Dense!RowXor, RowXor

LEMMA DenseTheta ==
  ASSUME NEW g
  PROVE  Dense!Theta(g) = Theta(g)
BY DEF Dense!Theta, Theta

LEMMA DenseKet == Dense!Ket0 = Ket
BY DenseBasis DEF Dense!Ket0, Ket

LEMMA GateOnIsFunction ==
  ASSUME NEW g, NEW p
  PROVE  Dense!GateOn(g, p) = [v \in Basis |-> Dense!GateOn(g, p)[v]]
BY DenseBasis DEF Dense!GateOn

LEMMA GateOnX ==
  ASSUME NEW g, NEW p, g.type = "X"
  PROVE  Dense!GateOn(g, p) = [v \in Basis |-> p[v \oplus {g.q}]]
<1>1. \A v \in Basis : Dense!GateOn(g, p)[v] = p[v \oplus {g.q}]
  BY DenseBasis, DenseXor DEF Dense!GateOn
<1>2. QED
  BY <1>1, GateOnIsFunction

LEMMA GateOnCX ==
  ASSUME NEW g, NEW p, g.type = "CX"
  PROVE  Dense!GateOn(g, p) = [v \in Basis |-> p[RowXor(v, g.q, g.cq)]]
<1>1. \A v \in Basis : Dense!GateOn(g, p)[v] = p[RowXor(v, g.q, g.cq)]
  BY DenseBasis, DenseRowXor DEF Dense!GateOn
<1>2. QED
  BY <1>1, GateOnIsFunction

LEMMA GateOnP ==
  ASSUME NEW g, NEW p, g.type \in {"Z", "Rz", "P"}
  PROVE  Dense!GateOn(g, p) = Turn(p, Theta(g), {g.q})
<1>1. \A v \in Basis :
        Dense!GateOn(g, p)[v] = IF g.q \in v THEN RotateBy(Theta(g), p[v]) ELSE p[v]
  BY DenseBasis, DenseTheta DEF Dense!GateOn
<1>2. \A v : {g.q} \subseteq v <=> g.q \in v
  OBVIOUS
<1>3. QED
  BY <1>1, <1>2, GateOnIsFunction DEF Turn

LEMMA GateOnCP ==
  ASSUME NEW g, NEW p, g.type = "CP"
  PROVE  Dense!GateOn(g, p) = Turn(p, g.theta, {g.cq, g.q})
<1>1. Theta(g) = g.theta
  BY DEF Theta
<1>2. \A v \in Basis :
        Dense!GateOn(g, p)[v]
          = IF {g.cq, g.q} \subseteq v THEN RotateBy(g.theta, p[v]) ELSE p[v]
  BY <1>1, DenseBasis, DenseTheta DEF Dense!GateOn
<1>3. QED
  BY <1>2, GateOnIsFunction DEF Turn

LEMMA GateOnU3 ==
  ASSUME NEW g, NEW p, g.type \in {"H", "U3"}
  PROVE  Dense!GateOn(g, p) = Fused(p, MatrixOf(g), g.q)
<1>1. \A v \in Basis :
        Dense!GateOn(g, p)[v] = IF g.q \in v THEN OddOf(MatrixOf(g), p[v \oplus {g.q}], p[v])
                                             ELSE EvenOf(MatrixOf(g), p[v], p[v \oplus {g.q}])
  BY DenseBasis, DenseXor DEF Dense!GateOn, GateOdd, GateEven
<1>2. PICK t, u, q : t = Dense!GateOn(g, p) /\ u = MatrixOf(g) /\ q = g.q
  OBVIOUS
<1>3. t = [v \in Basis |-> t[v]]
  BY <1>2, GateOnIsFunction
<1>4. \A v \in Basis : t[v] = IF q \in v THEN OddOf(u, p[v \oplus {q}], p[v])
                                        ELSE EvenOf(u, p[v], p[v \oplus {q}])
  BY <1>1, <1>2
<1>5. t = Fused(p, u, q)
  BY <1>3, <1>4 DEF Fused
<1>6. QED
  BY <1>2, <1>5

LEMMA GateOnBarrier ==
  ASSUME NEW g, NEW p \in States, g.type = "Barrier"
  PROVE  Dense!GateOn(g, p) = p
<1>1. \A v \in Basis : Dense!GateOn(g, p)[v] = p[v]
  BY DenseBasis DEF Dense!GateOn
<1>2. QED
  BY <1>1, GateOnIsFunction DEF States

\* The explicit permutation is X, or CX with its control.
LEMMA GateOnExchange ==
  ASSUME NEW g \in Gate, NEW p, g.type \in {"X", "CX"}
  PROVE  Dense!GateOn(g, p) = Exchange(p, g.q, IF g.type = "CX" THEN {g.cq} ELSE {})
<1>1. CASE g.type = "X"
  <2>1. \A v : {} \subseteq v
    OBVIOUS
  <2>2. QED
    BY <1>1, <2>1, GateOnX DEF Exchange
<1>2. CASE g.type = "CX"
  <2>1. ASSUME NEW v \in Basis
        PROVE  p[RowXor(v, g.q, g.cq)] = IF {g.cq} \subseteq v THEN p[v \oplus {g.q}] ELSE p[v]
    BY DEF RowXor
  <2>2. Dense!GateOn(g, p)
          = [v \in Basis |-> IF {g.cq} \subseteq v THEN p[v \oplus {g.q}] ELSE p[v]]
    <3>1. \A v \in Basis : Dense!GateOn(g, p)[v] = p[RowXor(v, g.q, g.cq)]
      BY <1>2, DenseBasis, DenseRowXor DEF Dense!GateOn
    <3>2. QED
      BY <2>1, <3>1, GateOnIsFunction
  <2>3. QED
    BY <1>2, <2>2 DEF Exchange
<1>3. QED
  BY <1>1, <1>2

-----------------------------------------------------------------------------
(***************************************************************************)
(* The refinement, step by step.                                            *)
(***************************************************************************)
\* execute() starts from |0...0>, whichever map it starts with.
LEMMA FreshState ==
  StateInv /\ OneField /\ acc = NoBatch /\ window = NoWindow /\ sv = FreshBlocks(M)
    /\ am.b = {} /\ (\/ am.used = 0 /\ am.cols = EmptyMat
                     \/ am.used = N /\ am.cols = [c \in 0 .. N - 1 |-> {c}])
  => Psi = Ket
<1> SUFFICES ASSUME StateInv, OneField, acc = NoBatch, window = NoWindow, sv = FreshBlocks(M),
                    am.b = {}, \/ am.used = 0 /\ am.cols = EmptyMat
                               \/ am.used = N /\ am.cols = [c \in 0 .. N - 1 |-> {c}]
             PROVE  Psi = Ket
  OBVIOUS
<1>1. M \in Nat /\ am.used \in 0 .. M
  BY StateFits
<1>2. PICK mp, s : mp = am /\ s = sv
  OBVIOUS
<1>3. /\ M \in Nat /\ mp.used \in 0 .. M /\ s = FreshBlocks(M) /\ mp.b = {}
      /\ \/ mp.used = 0 /\ mp.cols = EmptyMat
         \/ mp.used = N /\ mp.cols = [c \in 0 .. N - 1 |-> {c}]
  BY <1>1, <1>2
<1>4. GoodMap(mp) /\ \A X \in Real(mp.used) : Virtual(mp, X) = X
  BY <1>3, EmptyMapDecodes, FullMapDecodes
<1>5. Decoded(mp, Flat(mp, s)) = Ket
  BY <1>3, <1>4, FreshDecodes
<1>6. QED
  BY <1>2, <1>5, WhatWaits

LEMMA InitialState ==
  ASSUME Init, OneField
  PROVE  Psi = Dense!Ket0
<1>1. StateInv
  BY InitState
<1>2. M = 0 /\ M \in Nat /\ am.used = 0 /\ am.cols = EmptyMat /\ am.b = {}
      /\ acc = NoBatch /\ window = NoWindow
  BY DEF Init
<1>3. Real(Layout(M).I + Layout(M).J) = {{}}
  <2>1. SL.I + SL.J = 0
    BY <1>2, Fields
  <2>2. QED
    BY <2>1, RealZero DEF SL
<1>4. sv = FreshBlocks(M)
  <2>1. FreshBlocks(M) = [w \in Workers |-> [x \in {{}} |-> IF w = Root /\ x = {} THEN 1 ELSE 0]]
    BY <1>3 DEF FreshBlocks
  <2>2. \A w \in Workers : [x \in {{}} |-> IF w = Root /\ x = {} THEN 1 ELSE 0]
                             = [x \in {{}} |-> IF w = Root THEN 1 ELSE 0]
    OBVIOUS
  <2>3. QED
    BY <2>1, <2>2 DEF Init
<1>5. QED
  BY <1>1, <1>2, <1>4, FreshState, DenseKet

LEMMA ExecuteStep ==
  ASSUME StateInv', OneField', Execute
  PROVE  Psi' = Dense!Ket0
<1>1. (StateInv /\ OneField /\ acc = NoBatch /\ window = NoWindow /\ sv = FreshBlocks(M)
        /\ am.b = {} /\ (\/ am.used = 0 /\ am.cols = EmptyMat
                         \/ am.used = N /\ am.cols = [c \in 0 .. N - 1 |-> {c}])
       => Psi = Ket)'
  BY FreshState, PTL
<1>2. NoBatch' = NoBatch /\ NoWindow' = NoWindow /\ (FreshBlocks(M))' = FreshBlocks(M') /\ Ket' = Ket
  BY DEF NoBatch, NoWindow, FreshBlocks, Ket
<1>3. /\ acc' = NoBatch /\ window' = NoWindow /\ sv' = FreshBlocks(M') /\ am'.b = {}
      /\ \/ am'.used = 0 /\ am'.cols = EmptyMat
         \/ am'.used = N /\ am'.cols = [c \in 0 .. N - 1 |-> {c}]
  BY DEF Execute, FreshBlocks
<1>4. QED
  BY <1>1, <1>2, <1>3, DenseKet

Moves(g) ==
  /\ idx' = idx + 1 /\ program' = program
  /\ Psi' = Dense!GateOn(g, Psi)
  /\ phase'[Root] = Dense!PhaseAfter(g, phase[Root])

Stays == Psi' = Psi /\ UNCHANGED <<program, idx, phase>>

\* Fail is a stutter: the object keeps what it has.
LEMMA FailStays ==
  ASSUME StateInv, OneField, StateInv', OneField', Fail
  PROVE  Stays
<1>1. UNCHANGED <<M, am, acc, sv, window, program, idx, phase>>
  BY DEF Fail
<1>2. QED
  BY <1>1, StandsStill DEF Stays

LEMMA GateMoves ==
  ASSUME StateInv, OneField, StateInv', OneField', NEW g \in Gate, GateStep(g)
  PROVE  Moves(g) \/ Stays
<1>0. /\ Psi \in States
      /\ g.type \notin {"Z", "Rz"} => Dense!PhaseAfter(g, phase[Root]) = phase[Root]
  BY WhatWaits DEF Dense!PhaseAfter
<1>1. CASE DoBarrier(g)
  <2>1. /\ UNCHANGED <<M, am, acc, program, phase>> /\ idx' = idx + 1
        /\ sv' = Flushed /\ window' = NoWindow /\ g.type = "Barrier"
    BY <1>1 DEF DoBarrier, Advance, At
  <2>2. Psi' = Psi
    BY <2>1, FlushKeeps
  <2>3. QED
    BY <1>0, <2>1, <2>2, GateOnBarrier DEF Moves
<1>2. CASE DoP(g)
  <2>1. /\ UNCHANGED program /\ idx' = idx + 1 /\ g.type \in {"Z", "Rz", "P"}
        /\ phase'[Root] = IF g.type \in {"Z", "Rz"} THEN HalfBackBy(Theta(g), phase[Root])
                                                    ELSE phase[Root]
    BY <1>2, RootIsWorker DEF DoP, Advance, At
  <2>2. phase'[Root] = Dense!PhaseAfter(g, phase[Root])
    BY <2>1, DenseTheta DEF Dense!PhaseAfter
  <2>3. Psi' = Dense!GateOn(g, Psi)
    <3>1. Psi' = Turn(Psi, Theta(g), {g.q})
      BY <1>2, PStep
    <3>2. g.type \in {"Z", "Rz", "P"}
      BY <2>1
    <3>3. Dense!GateOn(g, Psi) = Turn(Psi, Theta(g), {g.q})
      BY <3>2, GateOnP
    <3>4. QED
      BY <3>1, <3>3
  <2>4. QED
    BY <2>1, <2>2, <2>3 DEF Moves
<1>3. CASE DoCP(g)
  <2>1. UNCHANGED <<program, phase>> /\ idx' = idx + 1 /\ g.type = "CP"
    BY <1>3 DEF DoCP, Advance, At
  <2>2. Psi' = Dense!GateOn(g, Psi)
    BY <1>3, <2>1, CPStep, GateOnCP
  <2>3. QED
    BY <1>0, <2>1, <2>2 DEF Moves
<1>4. CASE TransportX(g)
  <2>1. UNCHANGED <<program, phase>> /\ idx' = idx + 1 /\ g.type = "X"
    BY <1>4 DEF TransportX, Advance, At
  <2>2. Psi' = Dense!GateOn(g, Psi)
    BY <1>4, <2>1, XStep, GateOnX, ZenonT(60)
  <2>3. QED
    BY <1>0, <2>1, <2>2 DEF Moves
<1>5. CASE TransportCX(g)
  <2>1. UNCHANGED <<program, phase>> /\ idx' = idx + 1 /\ g.type = "CX"
    BY <1>5 DEF TransportCX, Advance, At
  <2>2. Psi' = Dense!GateOn(g, Psi)
    BY <1>5, <2>1, CXStep, GateOnCX
  <2>3. QED
    BY <1>0, <2>1, <2>2 DEF Moves
<1>6. CASE ExplicitX(g) /\ ~Fail
  <2>1. UNCHANGED <<program, phase>> /\ idx' = idx + 1 /\ g.type \in {"X", "CX"}
    BY <1>6 DEF ExplicitX, Advance, At
  <2>2. Psi' = Dense!GateOn(g, Psi)
    <3>1. Psi' = Exchange(Psi, g.q, IF g.type = "CX" THEN {g.cq} ELSE {})
      BY <1>6, ExplicitStep
    <3>2. g.type \in {"X", "CX"}
      BY <2>1
    <3>3. Dense!GateOn(g, Psi) = Exchange(Psi, g.q, IF g.type = "CX" THEN {g.cq} ELSE {})
      BY <3>2, GateOnExchange
    <3>4. QED
      BY <3>1, <3>3
  <2>3. QED
    BY <1>0, <2>1, <2>2 DEF Moves
<1>7. CASE EnterCluster(g)
  <2>1. /\ UNCHANGED <<M, am, acc, program, idx, phase>>
        /\ sv' = Flushed /\ window' = NoWindow
    BY <1>7 DEF EnterCluster
  <2>2. QED
    BY <2>1, FlushKeeps DEF Stays
<1>8. CASE AbsorbU3(g)
  <2>1. UNCHANGED <<program, phase>> /\ idx' = idx + 1 /\ g.type \in {"H", "U3"}
    BY <1>8 DEF AbsorbU3, InCluster, IsU3
  <2>2. Psi' = Dense!GateOn(g, Psi)
    BY <1>8, <2>1, AbsorbStep, GateOnU3
  <2>3. QED
    BY <1>0, <2>1, <2>2 DEF Moves
<1>9. CASE EagerU3(g) /\ ~Fail
  <2>1. UNCHANGED <<program, phase>> /\ idx' = idx + 1 /\ g.type \in {"H", "U3"}
    BY <1>9 DEF EagerU3, InCluster, IsU3
  <2>2. Psi' = Dense!GateOn(g, Psi)
    BY <1>9, <2>1, EagerStep, GateOnU3
  <2>3. QED
    BY <1>0, <2>1, <2>2 DEF Moves
<1>10. QED
  BY <1>1, <1>2, <1>3, <1>4, <1>5, <1>6, <1>7, <1>8, <1>9, FailStays DEF GateStep

\* Every step of the loop is a gate of the program or leaves the state alone.
LEMMA StepRefines ==
  ASSUME StateInv, OneField, StateInv', OneField', [Next]_vars
  PROVE  [Dense!Next]_(Dense!vars)
<1>0. ASSUME Stays PROVE UNCHANGED Dense!vars
  BY <1>0 DEF Stays, Dense!vars
<1>1. CASE \E gs \in Calls : AddGates(gs)
  <2>1. PICK gs \in Calls : AddGates(gs)
    BY <1>1
  <2>2. Psi' = Psi /\ UNCHANGED <<idx, phase>>
    BY <2>1, StandsStill DEF AddGates
  <2>3. Dense!AddGates(gs)
    BY <2>1, <2>2 DEF AddGates, Dense!AddGates
  <2>4. QED
    BY <2>3 DEF Dense!Next
<1>2. CASE ClearGates
  <2>1. Psi' = Psi
    BY <1>2, StandsStill DEF ClearGates
  <2>2. phase'[Root] = 1
    BY <1>2, RootIsWorker DEF ClearGates
  <2>3. Dense!ClearGates
    BY <1>2, <2>1, <2>2 DEF ClearGates, Dense!ClearGates
  <2>4. QED
    BY <2>3 DEF Dense!Next
<1>3. CASE Execute
  <2>1. Psi' = Dense!Ket0
    BY <1>3, ExecuteStep
  <2>2. phase'[Root] = 1
    BY <1>3, RootIsWorker DEF Execute
  <2>3. Dense!Execute
    BY <1>3, <2>1, <2>2 DEF Execute, Dense!Execute
  <2>4. QED
    BY <2>3 DEF Dense!Next
<1>4. CASE \E i \in DOMAIN program : i = idx /\ GateStep(program[i])
  <2>1. idx \in 1 .. Len(program) /\ program[idx] \in Gate /\ GateStep(program[idx])
    BY <1>4 DEF StateInv, CapacityInv, Fitting
  <2>2. Moves(program[idx]) \/ Stays
    BY <2>1, GateMoves
  <2>3. CASE Moves(program[idx])
    <3>1. Dense!ApplyGate
      BY <2>1, <2>3 DEF Moves, Dense!ApplyGate
    <3>2. QED
      BY <3>1 DEF Dense!Next
  <2>4. QED
    BY <1>0, <2>2, <2>3
<1>5. CASE EndCluster
  <2>1. CASE Fail
    BY <1>0, <2>1, FailStays
  <2>2. CASE ~Fail
    <3>1. UNCHANGED <<program, idx, phase>>
      BY <1>5, <2>2 DEF EndCluster
    <3>2. QED
      BY <1>0, <1>5, <2>2, <3>1, EndStep DEF Stays
  <2>3. QED
    BY <2>1, <2>2
<1>6. CASE Finish
  <2>1. /\ UNCHANGED <<M, am, acc, program, phase>>
        /\ sv' = Flushed /\ window' = NoWindow /\ idx > Len(program) /\ idx' = 0
    BY <1>6 DEF Finish
  <2>2. Psi' = Psi
    BY <2>1, FlushKeeps
  <2>3. Dense!Finish
    BY <2>1, <2>2 DEF Dense!Finish
  <2>4. QED
    BY <2>3 DEF Dense!Next
<1>7. CASE UNCHANGED vars
  <2>1. UNCHANGED <<M, am, acc, sv, window, program, idx, phase>>
    BY <1>7 DEF vars
  <2>2. QED
    BY <1>0, <2>1, StandsStill DEF Stays
<1>8. QED
  BY <1>1, <1>2, <1>3, <1>4, <1>5, <1>6, <1>7 DEF Next, Step

-----------------------------------------------------------------------------
(***************************************************************************)
(* The refinement.                                                          *)
(***************************************************************************)
\* Either the blocks of no layout have segments, or they are those of a single
\* worker: then the segment exchange of apply_u3 pairs the addresses it means to.
OneFieldLayouts == \A m \in 0 .. N : Layout(m).J = 0 \/ Layout(m).K = 0

\* One process has no worker bits; with more of them the first MinI qubits make
\* the offset and the next ones the worker.
LEMMA LayoutsOfOneField ==
  ASSUME LogProcs = 0 \/ N <= MinI + LogProcs
  PROVE  OneFieldLayouts
<1> SUFFICES ASSUME NEW m \in 0 .. N PROVE Layout(m).J = 0 \/ Layout(m).K = 0
  BY DEF OneFieldLayouts
<1>1. N \in Nat /\ m \in Nat /\ m <= N /\ LogProcs \in Nat /\ MinI \in Nat
  BY RowsAssumption, LayoutAssumption
<1>2. CASE LogProcs = 0
  <2>1. Layout(m).K \in Nat /\ Layout(m).K <= LogProcs
    BY <1>1, LayoutDivides
  <2>2. QED
    BY <1>2, <2>1
<1>3. CASE LogProcs # 0 /\ m <= MinI
  BY <1>3, <1>1 DEF Layout
<1>4. CASE LogProcs # 0 /\ m > MinI
  <2>1. N <= MinI + LogProcs
    BY <1>4
  <2>2. m - MinI \in Nat /\ m - MinI <= LogProcs /\ m > MinI /\ m - (m - MinI) = MinI
    BY <1>1, <1>4, <2>1
  <2>3. AtMost(LogProcs, m - MinI) = m - MinI
    BY <1>1, <2>2, OfTwo
  <2> DEFINE K == IF m > MinI THEN AtMost(LogProcs, m - MinI) ELSE 0
             local == m - K
             wanted == AtMost(AtLeast(MinI, MaxI), AtMost(local, AtLeast(MinI, TargetI)))
             split == IF local > MinJ THEN AtMost(wanted, local - MinJ) ELSE wanted
             I == CASE LogProcs = 0  -> AtMost(m, MinI)
                    [] local <= MinI -> local
                    [] split < MinI  -> AtMost(local, MinI)
                    [] OTHER         -> split
  <2>6. local = MinI
    BY <2>2, <2>3
  <2>7. Layout(m).J = local - I
    BY DEF Layout
  <2> HIDE DEF local
  <2>8. I = local
    <3>1. local <= MinI /\ AtMost(local, MinI) = local
      BY <1>1, <2>6, OfTwo
    <3> HIDE DEF split
    <3>2. split < MinI \/ ~(split < MinI)
      OBVIOUS
    <3>3. QED
      BY <1>4, <3>1, <3>2
  <2>4. Layout(m).J = 0
    BY <1>1, <2>6, <2>7, <2>8
  <2>5. QED
    BY <2>4
<1>5. QED
  BY <1>1, <1>2, <1>3, <1>4

\* The state the program is in, as the invariant and the layouts give it.
LEMMA OneFieldOf == OneFieldLayouts /\ StateInv => OneField
<1> SUFFICES ASSUME OneFieldLayouts, StateInv PROVE OneField
  OBVIOUS
<1>1. M \in 0 .. N
  BY DEF StateInv, CapacityInv, Fitting
<1>2. QED
  BY <1>1 DEF OneFieldLayouts, OneField, SL

LEMMA OneFieldNext ==
  ASSUME OneFieldLayouts, StateInv, [Next]_vars
  PROVE  OneField /\ StateInv' /\ OneField'
<1>1. StateInv'
  BY NextState
<1>2. (OneFieldLayouts /\ StateInv => OneField)'
  BY OneFieldOf, PTL
<1>3. OneFieldLayouts'
  BY DEF OneFieldLayouts
<1>4. QED
  BY <1>1, <1>2, <1>3, OneFieldOf

\* Windows, fused batches, lazy expansion, transport of X and CX through the
\* address map, the distribution over workers and the segment exchange change
\* nothing in what a program means: the loop of execute() prepares the state of
\* the dense simulator, gate by gate (and stops where abort() stops it).
THEOREM LoopRefines ==
  ASSUME OneFieldLayouts
  PROVE  Spec => RefinesCircuit
<1>1. Init => StateInv
  BY InitState
<1>2. StateInv /\ [Next]_vars => StateInv'
  BY NextState
<1>3. Init => Dense!Init
  <2>1. SUFFICES ASSUME Init PROVE Dense!Init
    OBVIOUS
  <2>2. OneField
    BY <1>1, <2>1, OneFieldOf
  <2>3. Psi = Dense!Ket0
    BY <2>1, <2>2, InitialState
  <2>4. program = << >> /\ idx = 0 /\ phase[Root] = 1
    BY <2>1, RootIsWorker DEF Init
  <2>5. QED
    BY <2>3, <2>4 DEF Dense!Init
<1>4. StateInv /\ [Next]_vars => [Dense!Next]_(Dense!vars)
  BY OneFieldNext, StepRefines
<1>5. QED
  BY <1>1, <1>2, <1>3, <1>4, PTL DEF Spec, RefinesCircuit, Dense!Spec

-----------------------------------------------------------------------------
(***************************************************************************)
(* The gates handled so far.  A fold over n elements goes through the values *)
(* of r, G giving the value after element i.                                *)
(***************************************************************************)
Unfolds(r, n, V, base, G) ==
  /\ r \in [0 .. n -> V]
  /\ r[0] = base
  /\ \A i \in 0 .. n - 1 : r[i + 1] = G[<<i + 1, r[i]>>]

\* What a fold computes on the prefixes of its sequence.
LEMMA UnfoldsFold ==
  ASSUME NEW n \in Nat, NEW V, NEW base \in V, NEW G \in [(1 .. n) \X V -> V],
         NEW iter, iter[{}] = base,
         \A i \in 0 .. n - 1 : iter[1 .. i] \in V =>
           iter[1 .. i + 1] = G[<<i + 1, iter[1 .. i]>>]
  PROVE  Unfolds([i \in 0 .. n |-> iter[1 .. i]], n, V, base, G)
<1> DEFINE S == {k \in Nat : k <= n => iter[1 .. k] \in V}
<1>1. iter[1 .. 0] = base /\ 0 \in 0 .. n
  <2>1. 1 .. 0 = {}
    OBVIOUS
  <2>2. QED
    BY <2>1
<1>2. 0 \in S
  BY <1>1
<1>3. ASSUME NEW k \in Nat, k \in S PROVE k + 1 \in S
  <2>1. ASSUME k + 1 <= n PROVE iter[1 .. k + 1] \in V
    <3>1. k \in 0 .. n - 1 /\ k + 1 \in 1 .. n /\ iter[1 .. k] \in V
      BY <1>3, <2>1
    <3>2. QED
      BY <3>1
  <2>2. QED
    BY <2>1
<1> HIDE DEF S
<1>4. Nat \subseteq S
  BY <1>2, <1>3, NaturalInduction
<1>5. \A i \in 0 .. n : iter[1 .. i] \in V
  BY <1>4 DEF S
<1>6. \A i \in 0 .. n - 1 : i \in 0 .. n /\ i + 1 \in 0 .. n
  OBVIOUS
<1>7. QED
  BY <1>1, <1>5, <1>6 DEF Unfolds

\* Folds over two sequences agree as far as the sequences do.
SameUpTo(n, V, G, H) == \A i \in 1 .. n : \A v \in V : G[<<i, v>>] = H[<<i, v>>]

LEMMA UnfoldsAgree ==
  ASSUME NEW n \in Nat, NEW m \in Nat, n <= m, NEW V, NEW base, NEW G, NEW H, NEW r, NEW s,
         Unfolds(r, n, V, base, G), Unfolds(s, m, V, base, H),
         SameUpTo(n, V, G, H)
  PROVE  r[n] = s[n]
<1> DEFINE S == {k \in Nat : k <= n => r[k] = s[k]}
<1>1. 0 \in S
  BY DEF Unfolds
<1>2. ASSUME NEW k \in Nat, k \in S PROVE k + 1 \in S
  <2>1. ASSUME k + 1 <= n PROVE r[k + 1] = s[k + 1]
    <3>1. k \in 0 .. n - 1 /\ k \in 0 .. m - 1 /\ k + 1 \in 1 .. n /\ k \in 0 .. n
      BY <2>1
    <3>2. r[k] = s[k] /\ r[k] \in V
      BY <1>2, <2>1, <3>1 DEF Unfolds
    <3>3. r[k + 1] = G[<<k + 1, r[k]>>] /\ s[k + 1] = H[<<k + 1, s[k]>>]
      BY <3>1 DEF Unfolds
    <3>4. QED
      BY <3>1, <3>2, <3>3 DEF SameUpTo
  <2>2. QED
    BY <2>1
<1> HIDE DEF S
<1>3. Nat \subseteq S
  BY <1>1, <1>2, NaturalInduction
<1>4. QED
  BY <1>3 DEF S

\* A fold that exists, as its defining equation has it.
Folded(g, n, V, base, G) ==
  /\ g = [T \in SUBSET (1 .. n) |->
            IF T = {} THEN base ELSE G[<<Max(T), g[T \ {Max(T)}]>>]]
  /\ \A T \in SUBSET (1 .. n) : T # {} => Max(T) \in 1 .. n /\ g[T \ {Max(T)}] \in V

LEMMA FoldEquation ==
  ASSUME NEW n \in Nat, NEW V, NEW base \in V, NEW G \in [(1 .. n) \X V -> V]
  PROVE  \E g : Folded(g, n, V, base, G)
<1>1. PICK g : FoldsFirst(g, n, V, base, G)
  BY SequenceFoldExists
<1>2. /\ g \in [SUBSET (1 .. n) -> V]
      /\ g = [T \in SUBSET (1 .. n) |->
                IF T = {} THEN base ELSE G[<<Max(T), g[T \ {Max(T)}]>>]]
  BY <1>1 DEF FoldsFirst
<1>3. ASSUME NEW T \in SUBSET (1 .. n), T # {}
      PROVE  Max(T) \in 1 .. n /\ g[T \ {Max(T)}] \in V
  <2>1. Max(T) \in 1 .. n
    BY <1>3, LargestIndex
  <2>2. T \ {Max(T)} \in SUBSET (1 .. n)
    OBVIOUS
  <2>3. QED
    BY <1>2, <2>1, <2>2
<1>4. QED
  BY <1>2, <1>3 DEF Folded

LEMMA GateOnTyped ==
  ASSUME NEW g \in Gate, NEW p \in States
  PROVE  Dense!GateOn(g, p) \in States
<1>1. /\ g.type \in {"Barrier", "Z", "Rz", "P", "CP", "X", "CX", "H", "U3"}
      /\ g.q \in Qubits /\ (g.type \in {"CX", "CP"} => g.cq \in Qubits)
      /\ MatrixOf(g) \in U3Matrices /\ Theta(g) \in Int /\ g.theta \in Int
  BY CallsAssumption, AnglesAssumption, MatrixTyped DEF Theta
<1>2. CASE g.type = "X"
  <2>1. \A v \in Basis : v \oplus {g.q} \in Basis
    <3>1. PICK q \in Qubits : q = g.q
      BY <1>1
    <3>2. \A v \in Basis : v \oplus {q} \in Basis
      BY Neighbour
    <3>3. QED
      BY <3>1, <3>2
  <2>2. \A v \in Basis : p[v \oplus {g.q}] \in Amps
    BY <2>1 DEF States
  <2>3. Dense!GateOn(g, p) = [v \in Basis |-> p[v \oplus {g.q}]]
    BY <1>2, GateOnX
  <2>4. QED
    BY <2>2, <2>3 DEF States
<1>3. CASE g.type = "CX"
  <2>1. \A v \in Basis : RowXor(v, g.q, g.cq) \in Basis
    BY <1>1, RowXorClosed DEF Basis
  <2>2. \A v \in Basis : p[RowXor(v, g.q, g.cq)] \in Amps
    BY <2>1 DEF States
  <2>3. Dense!GateOn(g, p) = [v \in Basis |-> p[RowXor(v, g.q, g.cq)]]
    BY <1>3, GateOnCX
  <2>4. QED
    BY <2>2, <2>3 DEF States
<1>4. CASE g.type \in {"Z", "Rz", "P"}
  <2>1. Dense!GateOn(g, p) = Turn(p, Theta(g), {g.q})
    BY <1>4, GateOnP
  <2>2. QED
    BY <1>1, <2>1, TurnTyped
<1>5. CASE g.type = "CP"
  <2>1. Dense!GateOn(g, p) = Turn(p, g.theta, {g.cq, g.q})
    BY <1>5, GateOnCP
  <2>2. QED
    BY <1>1, <2>1, TurnTyped
<1>6. CASE g.type \in {"H", "U3"}
  BY <1>1, <1>6, GateOnU3, FusedTyped
<1>7. CASE g.type = "Barrier"
  BY <1>7, GateOnBarrier
<1>8. QED
  BY <1>1, <1>2, <1>3, <1>4, <1>5, <1>6, <1>7

LEMMA PhaseAfterTyped ==
  ASSUME NEW g \in Gate, NEW a \in Amps
  PROVE  Dense!PhaseAfter(g, a) \in Amps
<1>1. Theta(g) \in Int /\ a \in Int
  BY AnglesAssumption DEF Theta, Amps
<1>2. QED
  BY <1>1, Turned, DenseTheta DEF Dense!PhaseAfter

\* The state and the global phase a sequence of gates prepares.
Prepared(p) == Seqs!FoldLeft(LAMBDA s, g : Dense!GateOn(g, s), Dense!Ket0, p)
Turns(p) == Seqs!FoldLeft(LAMBDA a, g : Dense!PhaseAfter(g, a), 1, p)

StateSteps(p) == [x \in (1 .. Len(p)) \X States |-> Dense!GateOn(p[x[1]], x[2])]
PhaseSteps(p) == [x \in (1 .. Len(p)) \X Amps |-> Dense!PhaseAfter(p[x[1]], x[2])]

LEMMA PreparedUnfolds ==
  ASSUME NEW p \in Seq(Gate)
  PROVE  \E r : Unfolds(r, Len(p), States, Dense!Ket0, StateSteps(p)) /\ Prepared(p) = r[Len(p)]
<1> DEFINE n == Len(p)
           Eq(g) == g = [T \in SUBSET (1 .. n) |->
                           IF T = {} THEN Dense!Ket0
                           ELSE Dense!GateOn(p[Max(T)], g[T \ {Max(T)}])]
           iter == CHOOSE g : Eq(g)
           r == [i \in 0 .. n |-> iter[1 .. i]]
<1>1. n \in Nat /\ (\A j \in 1 .. n : p[j] \in Gate) /\ DOMAIN p = 1 .. n
  OBVIOUS
<1>2. Dense!Ket0 \in States
  BY DenseKet DEF Ket, States, Amps, P17
<1>3. StateSteps(p) \in [(1 .. n) \X States -> States]
  <2>1. \A x \in (1 .. n) \X States : Dense!GateOn(p[x[1]], x[2]) \in States
    BY <1>1, GateOnTyped
  <2>2. QED
    BY <2>1 DEF StateSteps
<1>4. ASSUME NEW j \in 1 .. n, NEW s \in States
      PROVE  StateSteps(p)[<<j, s>>] = Dense!GateOn(p[j], s)
  BY DEF StateSteps
<1>5. Prepared(p) = iter[1 .. n]
  BY <1>1 DEF Prepared, Seqs!FoldLeft, Seqs!MapThenFoldSet, Seqs!Max, Max
<1> HIDE DEF n
<1>6. Eq(iter)
  <2>0. PICK g : Folded(g, n, States, Dense!Ket0, StateSteps(p))
    BY <1>1, <1>2, <1>3, FoldEquation
  <2>1. /\ g = [T \in SUBSET (1 .. n) |->
                  IF T = {} THEN Dense!Ket0 ELSE StateSteps(p)[<<Max(T), g[T \ {Max(T)}]>>]]
        /\ \A T \in SUBSET (1 .. n) : T # {} =>
             Max(T) \in 1 .. n /\ g[T \ {Max(T)}] \in States
    BY <2>0 DEF Folded
  <2>4. \A T \in SUBSET (1 .. n) : T # {} =>
          StateSteps(p)[<<Max(T), g[T \ {Max(T)}]>>]
            = Dense!GateOn(p[Max(T)], g[T \ {Max(T)}])
    BY <1>4, <2>1
  <2>2. Eq(g)
    BY <2>1, <2>4
  <2>3. QED
    BY <2>2
<1> HIDE DEF iter
<1>7. iter[{}] = Dense!Ket0
  <2>1. {} \in SUBSET (1 .. n)
    OBVIOUS
  <2>2. QED
    BY <1>6, <2>1
<1>8. ASSUME NEW i \in 0 .. n - 1, iter[1 .. i] \in States
      PROVE  iter[1 .. i + 1] = StateSteps(p)[<<i + 1, iter[1 .. i]>>]
  <2>1. /\ 1 .. i + 1 \in SUBSET (1 .. n) /\ 1 .. i + 1 # {}
        /\ Max(1 .. i + 1) = i + 1 /\ (1 .. i + 1) \ {i + 1} = 1 .. i
    BY <1>1, PrefixSteps
  <2>2. iter[1 .. i + 1] = Dense!GateOn(p[i + 1], iter[1 .. i])
    BY <1>6, <2>1
  <2>3. i + 1 \in 1 .. n
    BY <1>1
  <2>4. QED
    BY <1>4, <1>8, <2>2, <2>3
<1>9. Unfolds(r, n, States, Dense!Ket0, StateSteps(p))
  BY <1>1, <1>2, <1>3, <1>7, <1>8, UnfoldsFold
<1>10. r[n] = iter[1 .. n]
  BY <1>1
<1>11. QED
  BY <1>5, <1>9, <1>10 DEF n

LEMMA TurnsUnfold ==
  ASSUME NEW p \in Seq(Gate)
  PROVE  \E r : Unfolds(r, Len(p), Amps, 1, PhaseSteps(p)) /\ Turns(p) = r[Len(p)]
<1> DEFINE n == Len(p)
           Eq(g) == g = [T \in SUBSET (1 .. n) |->
                           IF T = {} THEN 1
                           ELSE Dense!PhaseAfter(p[Max(T)], g[T \ {Max(T)}])]
           iter == CHOOSE g : Eq(g)
           r == [i \in 0 .. n |-> iter[1 .. i]]
<1>1. n \in Nat /\ (\A j \in 1 .. n : p[j] \in Gate) /\ DOMAIN p = 1 .. n
  OBVIOUS
<1>2. 1 \in Amps
  BY DEF Amps, P17
<1>3. PhaseSteps(p) \in [(1 .. n) \X Amps -> Amps]
  <2>1. \A x \in (1 .. n) \X Amps : Dense!PhaseAfter(p[x[1]], x[2]) \in Amps
    BY <1>1, PhaseAfterTyped
  <2>2. QED
    BY <2>1 DEF PhaseSteps
<1>4. ASSUME NEW j \in 1 .. n, NEW a \in Amps
      PROVE  PhaseSteps(p)[<<j, a>>] = Dense!PhaseAfter(p[j], a)
  BY DEF PhaseSteps
<1>5. Turns(p) = iter[1 .. n]
  BY <1>1 DEF Turns, Seqs!FoldLeft, Seqs!MapThenFoldSet, Seqs!Max, Max
<1> HIDE DEF n
<1>6. Eq(iter)
  <2>0. PICK g : Folded(g, n, Amps, 1, PhaseSteps(p))
    BY <1>1, <1>2, <1>3, FoldEquation
  <2>1. /\ g = [T \in SUBSET (1 .. n) |->
                  IF T = {} THEN 1 ELSE PhaseSteps(p)[<<Max(T), g[T \ {Max(T)}]>>]]
        /\ \A T \in SUBSET (1 .. n) : T # {} =>
             Max(T) \in 1 .. n /\ g[T \ {Max(T)}] \in Amps
    BY <2>0 DEF Folded
  <2>4. \A T \in SUBSET (1 .. n) : T # {} =>
          PhaseSteps(p)[<<Max(T), g[T \ {Max(T)}]>>]
            = Dense!PhaseAfter(p[Max(T)], g[T \ {Max(T)}])
    BY <1>4, <2>1
  <2>2. Eq(g)
    BY <2>1, <2>4
  <2>3. QED
    BY <2>2
<1> HIDE DEF iter
<1>7. iter[{}] = 1
  <2>1. {} \in SUBSET (1 .. n)
    OBVIOUS
  <2>2. QED
    BY <1>6, <2>1
<1>8. ASSUME NEW i \in 0 .. n - 1, iter[1 .. i] \in Amps
      PROVE  iter[1 .. i + 1] = PhaseSteps(p)[<<i + 1, iter[1 .. i]>>]
  <2>1. /\ 1 .. i + 1 \in SUBSET (1 .. n) /\ 1 .. i + 1 # {}
        /\ Max(1 .. i + 1) = i + 1 /\ (1 .. i + 1) \ {i + 1} = 1 .. i
    BY <1>1, PrefixSteps
  <2>2. iter[1 .. i + 1] = Dense!PhaseAfter(p[i + 1], iter[1 .. i])
    BY <1>6, <2>1
  <2>3. i + 1 \in 1 .. n
    BY <1>1
  <2>4. QED
    BY <1>4, <1>8, <2>2, <2>3
<1>9. Unfolds(r, n, Amps, 1, PhaseSteps(p))
  BY <1>1, <1>2, <1>3, <1>7, <1>8, UnfoldsFold
<1>10. r[n] = iter[1 .. n]
  BY <1>1
<1>11. QED
  BY <1>5, <1>9, <1>10 DEF n

LEMMA NothingDone ==
  ASSUME NEW p \in Seq(Gate)
  PROVE  Prepared(SubSeq(p, 1, 0)) = Dense!Ket0 /\ Turns(SubSeq(p, 1, 0)) = 1
<1>1. PICK q : q = SubSeq(p, 1, 0)
  OBVIOUS
<1>2. q \in Seq(Gate) /\ Len(q) = 0
  BY <1>1
<1>3. Prepared(q) = Dense!Ket0
  BY <1>2, PreparedUnfolds DEF Unfolds
<1>4. Turns(q) = 1
  BY <1>2, TurnsUnfold DEF Unfolds
<1>5. QED
  BY <1>1, <1>3, <1>4

\* One gate more is the gates so far and a step.
LEMMA OneMoreDone ==
  ASSUME NEW p \in Seq(Gate), NEW i \in 0 .. Len(p) - 1
  PROVE  LET q == SubSeq(p, 1, i)
             t == SubSeq(p, 1, i + 1)
         IN /\ Prepared(t) = Dense!GateOn(p[i + 1], Prepared(q))
            /\ Turns(t) = Dense!PhaseAfter(p[i + 1], Turns(q))
<1>1. PICK q, t : q = SubSeq(p, 1, i) /\ t = SubSeq(p, 1, i + 1)
  OBVIOUS
<1>2. /\ i \in Nat /\ i + 1 \in Nat /\ i <= i + 1 /\ i \in 0 .. i + 1 - 1
      /\ q \in Seq(Gate) /\ Len(q) = i /\ \A j \in 1 .. i : q[j] = p[j]
      /\ t \in Seq(Gate) /\ Len(t) = i + 1 /\ \A j \in 1 .. i + 1 : t[j] = p[j]
  BY <1>1
<1>3. \A j \in 1 .. i : j \in 1 .. i + 1 /\ q[j] = t[j]
  BY <1>2
<1>4. Prepared(t) = Dense!GateOn(p[i + 1], Prepared(q))
  <2>1. PICK r : Unfolds(r, i, States, Dense!Ket0, StateSteps(q)) /\ Prepared(q) = r[i]
    BY <1>2, PreparedUnfolds
  <2>2. PICK s : Unfolds(s, i + 1, States, Dense!Ket0, StateSteps(t)) /\ Prepared(t) = s[i + 1]
    BY <1>2, PreparedUnfolds
  <2>3. SameUpTo(i, States, StateSteps(q), StateSteps(t))
    BY <1>2, <1>3 DEF SameUpTo, StateSteps
  <2>4. r[i] = s[i]
    <3>1. PICK m : m = i + 1
      OBVIOUS
    <3>2. i \in Nat /\ m \in Nat /\ i <= m
      BY <1>2, <3>1
    <3>3. Unfolds(s, m, States, Dense!Ket0, StateSteps(t))
      BY <2>2, <3>1
    <3>4. QED
      BY <2>1, <2>3, <3>2, <3>3, UnfoldsAgree
  <2>5. s[i + 1] = StateSteps(t)[<<i + 1, s[i]>>] /\ s[i] \in States
    BY <1>2, <2>2 DEF Unfolds
  <2>6. StateSteps(t)[<<i + 1, s[i]>>] = Dense!GateOn(t[i + 1], s[i])
    BY <1>2, <2>5 DEF StateSteps
  <2>7. t[i + 1] = p[i + 1]
    BY <1>2
  <2>8. QED
    BY <2>1, <2>2, <2>4, <2>5, <2>6, <2>7
<1>5. Turns(t) = Dense!PhaseAfter(p[i + 1], Turns(q))
  <2>1. PICK r : Unfolds(r, i, Amps, 1, PhaseSteps(q)) /\ Turns(q) = r[i]
    BY <1>2, TurnsUnfold
  <2>2. PICK s : Unfolds(s, i + 1, Amps, 1, PhaseSteps(t)) /\ Turns(t) = s[i + 1]
    BY <1>2, TurnsUnfold
  <2>3. SameUpTo(i, Amps, PhaseSteps(q), PhaseSteps(t))
    BY <1>2, <1>3 DEF SameUpTo, PhaseSteps
  <2>4. r[i] = s[i]
    <3>1. PICK m : m = i + 1
      OBVIOUS
    <3>2. i \in Nat /\ m \in Nat /\ i <= m
      BY <1>2, <3>1
    <3>3. Unfolds(s, m, Amps, 1, PhaseSteps(t))
      BY <2>2, <3>1
    <3>4. QED
      BY <2>1, <2>3, <3>2, <3>3, UnfoldsAgree
  <2>5. s[i + 1] = PhaseSteps(t)[<<i + 1, s[i]>>] /\ s[i] \in Amps
    BY <1>2, <2>2 DEF Unfolds
  <2>6. PhaseSteps(t)[<<i + 1, s[i]>>] = Dense!PhaseAfter(t[i + 1], s[i])
    BY <1>2, <2>5 DEF PhaseSteps
  <2>7. t[i + 1] = p[i + 1]
    BY <1>2
  <2>8. QED
    BY <2>1, <2>2, <2>4, <2>5, <2>6, <2>7
<1>6. QED
  BY <1>1, <1>4, <1>5

\* StateIsProgramState, with its folds named.
Progress ==
  idx > 0 => /\ Psi = Prepared(SubSeq(program, 1, idx - 1))
             /\ phase[Root] = Turns(SubSeq(program, 1, idx - 1))

LEMMA ProgressIs == Progress <=> StateIsProgramState
BY DEF Progress, StateIsProgramState, Prepared, Turns

\* Every step of the dense simulator keeps it.
LEMMA NextProgress ==
  ASSUME StateInv, Progress, [Dense!Next]_(Dense!vars)
  PROVE  Progress'
<1>0. program \in Seq(Gate) /\ idx \in Nat
  BY DEF StateInv, CapacityInv, Fitting
<1>1. CASE \E gs \in Calls : Dense!AddGates(gs)
  BY <1>1 DEF Dense!AddGates, Progress
<1>2. CASE Dense!ClearGates
  BY <1>2 DEF Dense!ClearGates, Progress
<1>3. CASE Dense!Execute
  <2>1. idx' = 1 /\ program' = program /\ Psi' = Dense!Ket0 /\ phase'[Root] = 1
    BY <1>3 DEF Dense!Execute
  <2>2. idx' - 1 = 0
    BY <2>1
  <2>3. QED
    BY <1>0, <2>1, <2>2, NothingDone DEF Progress
<1>4. CASE Dense!ApplyGate
  <2>1. /\ idx \in 1 .. Len(program) /\ idx' = idx + 1 /\ program' = program
        /\ Psi' = Dense!GateOn(program[idx], Psi)
        /\ phase'[Root] = Dense!PhaseAfter(program[idx], phase[Root])
    BY <1>4 DEF Dense!ApplyGate
  <2>2. PICK i : i = idx - 1
    OBVIOUS
  <2>3. i \in 0 .. Len(program) - 1 /\ idx = i + 1 /\ idx' - 1 = i + 1
    BY <1>0, <2>1, <2>2
  <2>4. Psi = Prepared(SubSeq(program, 1, i)) /\ phase[Root] = Turns(SubSeq(program, 1, i))
    BY <2>1, <2>2 DEF Progress
  <2>5. /\ Prepared(SubSeq(program, 1, i + 1))
             = Dense!GateOn(program[i + 1], Prepared(SubSeq(program, 1, i)))
        /\ Turns(SubSeq(program, 1, i + 1))
             = Dense!PhaseAfter(program[i + 1], Turns(SubSeq(program, 1, i)))
    BY <1>0, <2>3, OneMoreDone
  <2>6. /\ Psi' = Prepared(SubSeq(program', 1, idx' - 1))
        /\ phase'[Root] = Turns(SubSeq(program', 1, idx' - 1))
    BY <2>1, <2>3, <2>4, <2>5
  <2>7. QED
    BY <2>6 DEF Progress
<1>5. CASE Dense!Finish
  BY <1>5 DEF Dense!Finish, Progress
<1>6. CASE UNCHANGED Dense!vars
  BY <1>6 DEF Dense!vars, Progress
<1>7. QED
  BY <1>1, <1>2, <1>3, <1>4, <1>5, <1>6 DEF Dense!Next

\* While the loop of execute() runs, the blocks of the workers, read through the
\* address map and with the pending windows and the pending batch put in, hold the
\* state of the gates handled so far, and the root the global phase they give.
THEOREM LoopPrepares ==
  ASSUME OneFieldLayouts
  PROVE  Spec => []StateIsProgramState
<1>1. Init => StateInv /\ Progress
  <2>1. Init => idx = 0
    BY DEF Init
  <2>2. QED
    BY <2>1, InitState DEF Progress
<1>2. (StateInv /\ Progress) /\ [Next]_vars => (StateInv /\ Progress)'
  <2>1. SUFFICES ASSUME StateInv, Progress, [Next]_vars
                 PROVE  StateInv' /\ Progress'
    OBVIOUS
  <2>2. OneField /\ StateInv' /\ OneField'
    BY <2>1, OneFieldNext
  <2>3. [Dense!Next]_(Dense!vars)
    BY <2>1, <2>2, StepRefines
  <2>4. QED
    BY <2>1, <2>2, <2>3, NextProgress
<1>3. QED
  BY <1>1, <1>2, ProgressIs, PTL DEF Spec
=============================================================================
