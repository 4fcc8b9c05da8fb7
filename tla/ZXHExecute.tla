----------------------------- MODULE ZXHExecute -----------------------------
(***************************************************************************)
(* ZXH::execute() with everything that Transport leaves out: the support is *)
(* sized in advance by calc_mem and distributed over the workers by         *)
(* SvLayout, diagonal gates wait in windows of selectors, runs of H and U3  *)
(* gates are fused qubit by qubit, neighbours on another worker come        *)
(* through the segment exchange, and a call of abort() is an outcome.       *)
(*                                                                         *)
(* The workers run one program over the broadcast gates and their local     *)
(* steps commute, so one step here is one gate on every worker; the         *)
(* asynchrony of the exchange is the subject of NeighborStream.             *)
(***************************************************************************)
EXTENDS BitMat, SvLayout, Amplitudes, Sequences

CONSTANTS
  MaxGates, \* bound on the length of a program
  Calls,    \* what one builder call pushes: sequences of gates
  Pi,       \* the angle of a Z gate
  LaneBits, \* width of kDiagLaneMask
  Modes     \* the ways an object may be constructed

Qubits == Rows
Basis == SUBSET Qubits
Gate == UNION {{gs[i] : i \in DOMAIN gs} : gs \in Calls}

\* Gates name qubits of the object (the range checks of the builders); the two
\* qubits of a CX differ, which the callers in src guarantee.
ASSUME CallsAssumption ==
  /\ Calls \subseteq Seq(Gate)
  /\ \A g \in Gate :
       /\ g.type \in {"Barrier", "Z", "Rz", "P", "CP", "X", "CX", "H", "U3"}
       /\ g.q \in Qubits
       /\ g.type \in {"CX", "CP"} => g.cq \in Qubits
       /\ g.type = "CX" => g.cq # g.q

\* Angles are numbers: multiples of a unit that divides Pi.
ASSUME AnglesAssumption ==
  /\ Pi \in Int
  /\ \A g \in Gate : {g.theta, g.lambda, g.phi} \subseteq Int

VARIABLES
  mode,    \* disable_x_transport and eager_expand_all
  program, \* impl_t::gates of rank 0, which execute() broadcasts
  idx,     \* 0 when idle, else one more than gate_idx
  cluster, \* inside the loop over a run of H and U3 gates
  M,       \* sv_t::M_, the capacity asked for
  am,      \* the address map: used (sv_t::m_), cols (A) and b
  sv,      \* the block of each worker
  window,  \* the pending diagonal descriptors of each worker
  acc,     \* pending_u3: a matrix per qubit, Identity when not active
  phase,   \* global_phase of each worker
  failed   \* abort() was called

vars == <<mode, program, idx, cluster, M, am, sv, window, acc, phase, failed>>

DisableX == mode.disableX
Eager == mode.eager

SL == Layout(M)
BlockAddrs == Real(SL.I + SL.J)
IsU3(g) == g.type \in {"H", "U3"}
Theta(g) == IF g.type = "Z" THEN Pi ELSE g.theta

\* active_local_bits (-1 when the block is empty) and the addresses a kernel
\* visits under the address map mp.
Bits(mp, w) == LocalBits(SL, mp.used, w)
Active(mp, w) == IF Bits(mp, w) < 0 THEN {} ELSE Real(Bits(mp, w))
Live(w) == Bits(am, w) >= 0

\* Fault: the bits of the block number are left out of the selector.
LocalSelectorNoBase(mp, q, base, n) ==
  [alpha |-> LowerBits(GetRow(mp.cols, q), n), beta |-> q \in mp.b]

\* make_local_selector(make_selector(q), base, n).
LocalSelector(mp, q, base, n) ==
  LET row == GetRow(mp.cols, q) IN
  [alpha |-> LowerBits(row, n),
   beta |-> Eval([alpha |-> row, beta |-> q \in mp.b], base)]

BlockSelector(mp, q, w) == LocalSelector(mp, q, BlockStart(SL, w), Bits(mp, w))

\* probe_u3_delta.
Delta(mp, q) == Solve(mp.cols, {q})

\* U3 may wait in the batch: it needs no expansion and no other worker.
Batchable(q) ==
  LET d == Delta(am, q) IN d.ok /\ WorkerOf(SL, d.x) = {}

\* solve_expand: the map afterwards and the distance; expand() aborts when the
\* capacity is used up.
CannotExpand(q) == ~Delta(am, q).ok /\ am.used >= M

\* Fault: a column is appended and sv.expand() forgotten.
AppendOnly(q) ==
  LET d == Delta(am, q) IN
  IF d.ok THEN [map |-> am, delta |-> d.x]
  ELSE [map |-> [am EXCEPT !.cols = AppendCol(@, {q})], delta |-> {Cols(am.cols)}]

SolveExpand(q) ==
  LET d == Delta(am, q) IN
  IF d.ok THEN [map |-> am, delta |-> d.x]
  ELSE [map |-> [used |-> am.used + 1, cols |-> AppendCol(am.cols, {q}), b |-> am.b],
        delta |-> {Cols(am.cols)}]

\* Fault: the sizing pass counts the targets of transported X and CX.
MemCountsX(mat, g) ==
  IF g.type \in {"H", "U3", "X", "CX"} /\ ~Solve(mat, {g.q}).ok
  THEN AppendCol(mat, {g.q}) ELSE mat

\* calc_mem: the columns of A after the gates, with no amplitudes in sight.
MemAfter(mat, g) ==
  IF g.type = "CX" /\ ~DisableX THEN RowXorMat(mat, g.q, g.cq)
  ELSE IF (IsU3(g) \/ (DisableX /\ g.type \in {"X", "CX"})) /\ ~Solve(mat, {g.q}).ok
  THEN AppendCol(mat, {g.q})
  ELSE mat

CalcMem(gs) == Cols(Seqs!FoldLeft(MemAfter, EmptyMat, gs))
-----------------------------------------------------------------------------
(* Diagonal windows. *)

Lane == 0 .. LaneBits - 1

\* Fault: a selector over lane and slice bits counts as low.
ClassNoCross(s) ==
  IF s.alpha # {} /\ s.alpha \cap Lane = {} THEN "high" ELSE "low"

\* classify_selector, and the part of an address its class is evaluated on.
Class(s) ==
  CASE s.alpha \subseteq Lane -> "low"
    [] s.alpha # {} /\ s.alpha \cap Lane = {} -> "high"
    [] OTHER -> "cross"

PartFor(class, x) ==
  CASE class = "low"  -> x \cap Lane
    [] class = "high" -> x \ Lane
    [] OTHER          -> x

\* A descriptor turns the amplitudes that all its selectors choose.
Descriptor(sels, t) == [sels |-> sels, theta |-> t]

Chooses(s, x) == Eval(s, PartFor(Class(s), x))

\* diag_pending_try_push_cp takes no selector of class cross.
Fits(d) == \A s \in d.sels : Class(s) # "cross"

\* apply_diag_window sums the angles of the descriptors that choose x.
AngleAt(win, x) ==
  FoldFunctionOnSet(+, 0, [i \in DOMAIN win |-> win[i].theta],
                    {i \in DOMAIN win : \A s \in win[i].sels : Chooses(s, x)})

\* The block of w after flush_pending.
Settled(w) ==
  [x \in BlockAddrs |->
     IF x \in Active(am, w) THEN RotateBy(AngleAt(window[w], x), sv[w][x])
                            ELSE sv[w][x]]

Flushed == [w \in Workers |-> Settled(w)]
NoWindow == [w \in Workers |-> << >>]
-----------------------------------------------------------------------------
(* H and U3. *)

\* u3_block_kernel: the pairs x, x + d of a block; one that leaves the active
\* part of the block is skipped.
BlockMixed(mp, s, q, u, d) ==
  [w \in Workers |->
    LET sel == BlockSelector(mp, q, w) IN
    [x \in BlockAddrs |->
       IF {x, x \oplus d} \subseteq Active(mp, w)
       THEN IF Eval(sel, x) THEN OddOf(u, s[w][x \oplus d], s[w][x])
                            ELSE EvenOf(u, s[w][x], s[w][x \oplus d])
       ELSE s[w][x]]]

\* The inter-worker branch of apply_u3: for each of its segments a worker sends
\* that segment to the owner of the neighbour segment and receives the segment
\* of the same number from there; u3_inter_kernel pairs the offsets.
InterMixed(mp, s, q, u, d) ==
  [w \in Workers |->
    [x \in BlockAddrs |->
       LET peer == w \oplus WorkerOf(SL, d)
           remote == s[peer][x \oplus OffsetOf(SL, d)]
           seg == BlockStart(SL, w) \cup (x \ OffsetOf(SL, x))
           sel == LocalSelector(mp, q, seg, SL.I)
       IN IF x \notin Active(mp, w) THEN s[w][x]
          ELSE IF Eval(sel, OffsetOf(SL, x)) THEN OddOf(u, remote, s[w][x])
                                             ELSE EvenOf(u, s[w][x], remote)]]

\* apply_u3 after solve_expand.
Mixed(mp, s, q, u, d) ==
  IF WorkerOf(SL, d) = {} THEN BlockMixed(mp, s, q, u, BlockOf(SL, d))
                          ELSE InterMixed(mp, s, q, u, d)

\* flush_u3_batch: the fused matrices, in the order of the qubits.  The code cuts the
\* distance to the bits of a worker's block as it has grown, the model to all bits of
\* a block: the same wherever no layout has worker and segment bits at once.
NoBatch == [q \in Qubits |-> Identity]

BatchApplied ==
  Seqs!FoldLeft(LAMBDA s, q :
                  IF acc[q] = Identity THEN s
                  ELSE BlockMixed(am, s, q, acc[q], BlockOf(SL, Delta(am, q).x)),
                sv, [i \in 1 .. N |-> i - 1])

BatchAborts == \E q \in Qubits : acc[q] # Identity /\ ~Batchable(q)

\* The explicit permutation of X and CX: pairs swap where the selectors of the
\* controls choose the even address.
Swapped(mp, s, q, controls, d) ==
  [w \in Workers |->
    [x \in BlockAddrs |->
       LET even == IF Eval(BlockSelector(mp, q, w), x) THEN x \oplus d ELSE x IN
       IF /\ {x, x \oplus d} \subseteq Active(mp, w)
          /\ \A c \in controls : Eval(BlockSelector(mp, c, w), even)
       THEN s[w][x \oplus d] ELSE s[w][x]]]
-----------------------------------------------------------------------------
Init ==
  /\ mode \in Modes
  /\ program = << >>
  /\ idx = 0
  /\ cluster = FALSE
  /\ M = 0
  /\ am = [used |-> 0, cols |-> EmptyMat, b |-> {}]
  /\ sv = [w \in Workers |-> [x \in {{}} |-> IF w = Root THEN 1 ELSE 0]]
  /\ window = NoWindow
  /\ acc = NoBatch
  /\ phase = [w \in Workers |-> 1]
  /\ failed = FALSE

AddGates(gs) ==
  /\ idx = 0
  /\ Len(program \o gs) <= MaxGates
  /\ program' = program \o gs
  /\ UNCHANGED <<idx, cluster, M, am, sv, window, acc, phase, failed>>

ClearGates ==
  /\ idx = 0
  /\ program' = << >>
  /\ phase' = [w \in Workers |-> 1]
  /\ UNCHANGED <<idx, cluster, M, am, sv, window, acc, failed>>

\* Fault: reset() clears only the first amplitude.
ExecuteKeepsOld ==
  /\ idx = 0
  /\ idx' = 1
  /\ M' = IF Eager THEN N ELSE CalcMem(program)
  /\ am' = [used |-> 0, cols |-> EmptyMat, b |-> {}]
  /\ sv' = [w \in Workers |->
             [x \in Real(Layout(M').I + Layout(M').J) |->
                CASE x = {} -> IF w = Root THEN 1 ELSE 0
                  [] x # {} /\ x \in DOMAIN sv[w] -> sv[w][x]
                  [] OTHER -> 0]]
  /\ phase' = [w \in Workers |-> 1]
  /\ window' = NoWindow
  /\ acc' = NoBatch
  /\ UNCHANGED <<program, cluster, failed>>

\* The prologue of execute(): broadcast, resize, reset, expand_all.
Execute ==
  /\ idx = 0
  /\ idx' = 1
  /\ M' = IF Eager THEN N ELSE CalcMem(program)
  /\ am' = [used |-> IF Eager THEN N ELSE 0,
            cols |-> IF Eager THEN [c \in 0 .. N - 1 |-> {c}] ELSE EmptyMat,
            b |-> {}]
  /\ sv' = [w \in Workers |->
             [x \in Real(Layout(M').I + Layout(M').J) |->
                IF w = Root /\ x = {} THEN 1 ELSE 0]]
  /\ phase' = [w \in Workers |-> 1]
  /\ window' = NoWindow
  /\ acc' = NoBatch
  /\ UNCHANGED <<program, cluster, failed>>

Fail ==
  /\ failed' = TRUE
  /\ UNCHANGED <<program, idx, cluster, M, am, sv, window, acc, phase>>

\* The loop is at a gate that is handled by the switch.
At(types, g) ==
  /\ ~failed
  /\ ~cluster
  /\ idx \in 1 .. Len(program)
  /\ g = program[idx]
  /\ g.type \in types

Advance == idx' = idx + 1 /\ UNCHANGED <<program, cluster, M, acc, failed>>

DoBarrier(g) ==
  /\ At({"Barrier"}, g)
  /\ Advance
  /\ sv' = Flushed
  /\ window' = NoWindow
  /\ UNCHANGED <<am, phase>>

\* Fault: a worker without a block skips the whole gate.
DoPSkipsIdle(g) ==
  /\ At({"Z", "Rz", "P"}, g)
  /\ Advance
  /\ window' = [w \in Workers |->
       IF Live(w) THEN Append(window[w], Descriptor({BlockSelector(am, g.q, w)}, Theta(g)))
                  ELSE window[w]]
  /\ phase' = [w \in Workers |->
       IF Live(w) /\ g.type \in {"Z", "Rz"} THEN HalfBackBy(Theta(g), phase[w])
                                            ELSE phase[w]]
  /\ UNCHANGED <<am, sv>>

\* Z, Rz and P push a descriptor on every worker that has a block.
DoP(g) ==
  /\ At({"Z", "Rz", "P"}, g)
  /\ Advance
  /\ window' = [w \in Workers |->
       IF Live(w) THEN Append(window[w], Descriptor({BlockSelector(am, g.q, w)}, Theta(g)))
                  ELSE window[w]]
  /\ phase' = [w \in Workers |->
       IF g.type \in {"Z", "Rz"} THEN HalfBackBy(Theta(g), phase[w]) ELSE phase[w]]
  /\ UNCHANGED <<am, sv>>

\* CP is pushed if it fits; otherwise the window is flushed and cp_kernel runs.
DoCP(g) ==
  /\ At({"CP"}, g)
  /\ Advance
  /\ LET d(w) == Descriptor({BlockSelector(am, g.cq, w), BlockSelector(am, g.q, w)}, g.theta)
         chosen(w, x) == x \in Active(am, w) /\ \A s \in d(w).sels : Eval(s, x)
     IN /\ window' = [w \in Workers |->
             CASE ~Live(w)   -> window[w]
               [] Live(w) /\ Fits(d(w)) -> Append(window[w], d(w))
               [] OTHER      -> << >>]
        /\ sv' = [w \in Workers |->
             IF ~Live(w) \/ Fits(d(w)) THEN sv[w]
             ELSE [x \in BlockAddrs |->
                     IF chosen(w, x) THEN RotateBy(g.theta, Settled(w)[x])
                                     ELSE Settled(w)[x]]]
  /\ UNCHANGED <<am, phase>>

TransportX(g) ==
  /\ ~DisableX
  /\ At({"X"}, g)
  /\ Advance
  /\ am' = [used |-> am.used, cols |-> am.cols, b |-> am.b \oplus {g.q}]
  /\ UNCHANGED <<sv, window, phase>>

TransportCX(g) ==
  /\ ~DisableX
  /\ At({"CX"}, g)
  /\ Advance
  /\ am' = [used |-> am.used,
            cols |-> RowXorMat(am.cols, g.q, g.cq),
            b |-> RowXor(am.b, g.q, g.cq)]
  /\ UNCHANGED <<sv, window, phase>>

\* apply_x_explicit and apply_cx_explicit, after flush_pending.
ExplicitX(g) ==
  /\ DisableX
  /\ At({"X", "CX"}, g)
  /\ LET r == SolveExpand(g.q)
         controls == IF g.type = "CX" THEN {g.cq} ELSE {}
     IN IF CannotExpand(g.q) \/ WorkerOf(SL, r.delta) # {} THEN Fail
        ELSE /\ Advance
             /\ am' = r.map
             /\ sv' = Swapped(r.map, Flushed, g.q, controls, BlockOf(SL, r.delta))
             /\ window' = NoWindow
             /\ UNCHANGED phase

\* Fault: the diagonal window stays open across H and U3.
EnterClusterNoFlush(g) ==
  /\ At({"H", "U3"}, g)
  /\ cluster' = TRUE
  /\ UNCHANGED <<program, idx, M, am, sv, window, acc, phase, failed>>

\* A run of H and U3 gates begins: flush_pending.
EnterCluster(g) ==
  /\ At({"H", "U3"}, g)
  /\ cluster' = TRUE
  /\ sv' = Flushed
  /\ window' = NoWindow
  /\ UNCHANGED <<program, idx, M, am, acc, phase, failed>>

InCluster(g) ==
  /\ ~failed
  /\ cluster
  /\ idx \in 1 .. Len(program)
  /\ g = program[idx]
  /\ IsU3(g)

\* absorb_u3_gate.
AbsorbU3(g) ==
  /\ InCluster(g)
  /\ Batchable(g.q)
  /\ acc' = [acc EXCEPT ![g.q] = LeftMultiply(MatrixOf(g), @)]
  /\ idx' = idx + 1
  /\ UNCHANGED <<program, cluster, M, am, sv, window, phase, failed>>

\* A gate that expands the support or needs another worker: flush_u3_batch,
\* then apply_u3_eager.
EagerU3(g) ==
  /\ InCluster(g)
  /\ ~Batchable(g.q)
  /\ IF BatchAborts \/ CannotExpand(g.q) THEN Fail
     ELSE LET r == SolveExpand(g.q) IN
          /\ am' = r.map
          /\ sv' = Mixed(r.map, BatchApplied, g.q, MatrixOf(g), r.delta)
          /\ acc' = NoBatch
          /\ idx' = idx + 1
          /\ UNCHANGED <<program, cluster, M, window, phase, failed>>

\* The run of H and U3 gates ends: flush_u3_batch.
EndCluster ==
  /\ ~failed
  /\ cluster
  /\ idx \in 1 .. Len(program) => ~IsU3(program[idx])
  /\ IF BatchAborts THEN Fail
     ELSE /\ cluster' = FALSE
          /\ sv' = BatchApplied
          /\ acc' = NoBatch
          /\ UNCHANGED <<program, idx, M, am, window, phase, failed>>

Finish ==
  /\ ~failed
  /\ ~cluster
  /\ idx > Len(program)
  /\ idx' = 0
  /\ sv' = Flushed
  /\ window' = NoWindow
  /\ UNCHANGED <<program, cluster, M, am, acc, phase, failed>>

GateStep(g) ==
  \/ DoBarrier(g) \/ DoP(g) \/ DoCP(g)
  \/ TransportX(g) \/ TransportCX(g) \/ ExplicitX(g)
  \/ EnterCluster(g) \/ AbsorbU3(g) \/ EagerU3(g)

Step ==
  \/ \E i \in DOMAIN program : i = idx /\ GateStep(program[i])
  \/ EndCluster
  \/ Finish

Next ==
  /\ \/ \E gs \in Calls : AddGates(gs)
     \/ ClearGates
     \/ Execute
     \/ Step
  /\ UNCHANGED mode

Spec == Init /\ [][Next]_vars
-----------------------------------------------------------------------------
\* The shape of the state; a block has the capacity its layout gives it.
TypeOK ==
  /\ mode \in Modes
  /\ idx \in 0 .. Len(program) + 1
  /\ {cluster, failed} \subseteq BOOLEAN
  /\ M \in 0 .. N
  /\ am.used \in 0 .. M
  /\ am.cols \in [0 .. am.used - 1 -> Basis]
  /\ am.b \in Basis
  /\ sv \in [Workers -> [BlockAddrs -> Amps]]
  /\ DOMAIN window = Workers
  /\ DOMAIN acc = Qubits
  /\ phase \in [Workers -> Amps]

\* calc_mem, which looks at the gates alone, asks for all the columns the run will
\* append and for no more: execute() never calls abort(), for want of memory or
\* because a gate that entered the batch as local is no longer local when the
\* batch is flushed, and required_M() is the size of the support it ends with.
CapacityExact ==
  /\ ~failed
  /\ idx > Len(program) /\ ~Eager => am.used = M

\* Addresses that are not in use hold zero on every worker, whatever an earlier
\* execution left behind, so an expansion only has to move block_end.
UnusedIsZero ==
  \A w \in Workers : \A x \in BlockAddrs \ Active(am, w) : sv[w][x] = 0

\* Selectors and distances that wait in a window or a batch were cut to the
\* width of the block; it changes only when nothing waits.
NothingWaitsAcrossExpand ==
  [][am'.used # am.used => window' = NoWindow /\ acc' = NoBatch]_vars

\* All ranks report the same global phase, those without a block included.
PhasesAgree == \A w \in Workers : phase[w] = phase[Root]

\* The state that get_state() would export after the pending windows and the
\* pending batch: blocks gathered in rank order, address x found at A x + b.
Held(settled) ==
  {[at |-> Mul(am.cols, x) \oplus am.b,
    amp |-> LET h == Home(SL, am.used, x) IN settled[h.w][h.at]] : x \in Real(Cols(am.cols))}

PlacedAt(held) ==
  [v \in Basis |->
     LET here == {e \in held : e.at = v}
     IN IF here = {} THEN 0 ELSE (CHOOSE e \in here : TRUE).amp]

WithBatch(s, q) ==
  IF acc[q] = Identity THEN s
  ELSE [v \in Basis |-> IF q \in v THEN OddOf(acc[q], s[v \oplus {q}], s[v])
                                   ELSE EvenOf(acc[q], s[v], s[v \oplus {q}])]

\* The one element of a set; TLC evaluates the elements of a set once.
Only(S) == CHOOSE s \in S : TRUE

Psi ==
  Only({Seqs!FoldLeft(LAMBDA s, q : Only({WithBatch(t, q) : t \in {s}}),
                      Only({PlacedAt(held) : held \in {Held(f) : f \in {Flushed}}}),
                      [i \in 1 .. N |-> i - 1])})

\* Windows, batches, layouts, exchanges and the sizing pass change nothing in
\* what the program means.
Dense == INSTANCE CircuitState WITH
  Amp <- Amps, Zero <- 0, One <- 1,
  Rot <- RotateBy, HalfBack <- HalfBackBy, Even <- GateEven, Odd <- GateOdd,
  pc <- idx, psi <- Psi, phase <- phase[Root]
RefinesCircuit == Dense!Spec

\* The same for one execution, as an invariant: while the loop runs, the state
\* and the global phase are those of the gates it has handled.
StateIsProgramState ==
  idx > 0 =>
    LET done == SubSeq(program, 1, idx - 1) IN
    /\ Psi = Seqs!FoldLeft(LAMBDA s, g : Dense!GateOn(g, s), Dense!Ket0, done)
    /\ phase[Root] = Seqs!FoldLeft(LAMBDA p, g : Dense!PhaseAfter(g, p), 1, done)
=============================================================================
