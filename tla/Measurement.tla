---------------------------- MODULE Measurement ----------------------------
(***************************************************************************)
(* measure() and get_results() on all ranks.  Every rank runs the same      *)
(* script of calls at its own pace; they meet only in the collectives of    *)
(* comm_mpi.cpp, all of which gather to rank 0 or distribute from it.       *)
(*                                                                         *)
(* An execution leaves a state: for each rank the probabilities of the      *)
(* addresses of its block.  Executions differ in A and b, so the result of  *)
(* mapping an address is written with the number of the execution.          *)
(***************************************************************************)
EXTENDS SampleStream

CONSTANTS
  Ranks,   \* 0 .. nprocs-1
  Scripts, \* the sequences of calls to run
  Buffers  \* how many messages between two ranks MPI may hold back

nprocs == Cardinality(Ranks)

ASSUME MeasurementAssumption ==
  /\ IsFiniteSet(Ranks) /\ 0 \in Ranks /\ Ranks = 0 .. nprocs - 1
  /\ Buffers \subseteq Nat \ {0}

ASSUME ScriptsAssumption ==
  \A s \in Scripts :
    /\ s \in Seq({s[i] : i \in DOMAIN s})
    /\ \A i \in DOMAIN s : /\ s[i].op \in {"execute", "measure", "get"}
                           /\ s[i].cnt \in Nat
                           /\ s[i].op # "measure" => s[i].cnt = 0

\* A block is a function from 0 .. n-1 to probabilities.
IsBlock(p) ==
  IsFiniteSet(DOMAIN p) /\ DOMAIN p = 0 .. Size(p) - 1 /\ \A x \in DOMAIN p : p[x] \in Nat

ASSUME BlocksAssumption ==
  /\ SegLen \in Nat \ {0}
  /\ \A s \in Scripts : \A i \in DOMAIN s :
       s[i].op = "execute" => \A r \in Ranks : IsBlock(s[i].state[r])

Root == 0
Others == Ranks \ {Root}

\* The calls; a state maps each rank to the probabilities in its block.
CallExecute(state) == [op |-> "execute", state |-> state, cnt |-> 0]
CallMeasure(cnt) == [op |-> "measure", state |-> << >>, cnt |-> cnt]
CallGet == [op |-> "get", state |-> << >>, cnt |-> 0]

VARIABLES
  script, \* the program of all ranks
  buffer, \* the buffering of this run
  at,     \* per rank, the call it is in
  pc,     \* per rank, the collective of measure() it is at
  sim,    \* per rank, its block and the number of executions
  plan,   \* per rank, prob_scan_t and measure_plan_t
  cache,  \* per rank, measure_cache_t
  got,    \* per rank and call, what a get returned
  up,     \* per rank, messages on the way to the root
  down,   \* per rank, messages on the way from the root
  failed  \* the first call of abort(), or "no"

vars == <<script, buffer, at, pc, sim, plan, cache, got, up, down, failed>>

-----------------------------------------------------------------------------
(* Collectives.  A message names its collective.                            *)

Message(name, data) == [name |-> name, data |-> data]

\* Another rank's part in a gather, and the root's.
SendUp(r, name, data) ==
  /\ r # Root
  /\ Len(up[r]) < buffer
  /\ up' = [up EXCEPT ![r] = Append(@, Message(name, data))]
  /\ UNCHANGED down

Gather(name) ==
  /\ \A r \in Others : up[r] # << >> /\ Head(up[r]).name = name
  /\ up' = [r \in Ranks |-> IF r = Root THEN << >> ELSE Tail(up[r])]
  /\ UNCHANGED down

Gathered(mine) == [r \in Ranks |-> IF r = Root THEN mine ELSE Head(up[r]).data]

\* The root's part in a scatter or broadcast, and another rank's.
SendDown(name, data) ==
  /\ \A r \in Others : Len(down[r]) < buffer
  /\ down' = [r \in Ranks |-> IF r = Root THEN << >>
                              ELSE Append(down[r], Message(name, data))]
  /\ UNCHANGED up

Receive(r, name) ==
  /\ r # Root
  /\ down[r] # << >>
  /\ Head(down[r]).name = name
  /\ down' = [down EXCEPT ![r] = Tail(@)]
  /\ UNCHANGED up

Received(r) == Head(down[r]).data

NoMessages == UNCHANGED <<up, down>>

-----------------------------------------------------------------------------
Idle == [total |-> 0, cntLocal |-> 0, probs |-> << >>, cnts |-> << >>]
EmptyCache ==
  [count |-> 0, taus |-> << >>, pass |-> StartPass([x \in {0} |-> 0], << >>),
   local |-> << >>, sizes |-> << >>, real |-> << >>, packed |-> << >>]
Everywhere(x) == [r \in Ranks |-> x]

Init ==
  /\ script \in Scripts
  /\ buffer \in Buffers
  /\ at = Everywhere(1)
  /\ pc = Everywhere("call")
  /\ sim = [r \in Ranks |-> [block |-> IF r = Root THEN [x \in {0} |-> 1] ELSE << >>,
                             run |-> 0]]
  /\ plan = Everywhere(Idle)
  /\ cache = Everywhere(EmptyCache)
  /\ got = Everywhere(<< >>)
  /\ up = Everywhere(<< >>)
  /\ down = Everywhere(<< >>)
  /\ failed = "no"

\* Rank r is at the beginning of a call of op.
Calls(r, op) ==
  /\ failed = "no"
  /\ pc[r] = "call"
  /\ at[r] <= Len(script)
  /\ script[at[r]].op = op

Cnt(r) == script[at[r]].cnt

At(r, label) == failed = "no" /\ pc[r] = label
Go(r, label) == pc' = [pc EXCEPT ![r] = label] /\ UNCHANGED at
Return(r) == pc' = [pc EXCEPT ![r] = "call"] /\ at' = [at EXCEPT ![r] = @ + 1]

Abort(why) ==
  /\ failed' = why
  /\ UNCHANGED <<script, buffer, at, pc, sim, plan, cache, got, up, down>>

\* Fault: results of the previous state survive.
ExecuteKeepsResults(r) ==
  /\ Calls(r, "execute")
  /\ IF r = Root THEN SendDown("gates", script[at[r]].state) ELSE Receive(r, "gates")
  /\ LET state == IF r = Root THEN script[at[r]].state ELSE Received(r) IN
       sim' = [sim EXCEPT ![r] = [block |-> state[r], run |-> @.run + 1]]
  /\ Return(r)
  /\ UNCHANGED <<script, buffer, plan, cache, got, failed>>

\* Fault: only the root drops them.
ExecuteRootDrops(r) ==
  /\ Calls(r, "execute")
  /\ IF r = Root THEN SendDown("gates", script[at[r]].state) ELSE Receive(r, "gates")
  /\ LET state == IF r = Root THEN script[at[r]].state ELSE Received(r) IN
       sim' = [sim EXCEPT ![r] = [block |-> state[r], run |-> @.run + 1]]
  /\ cache' = [cache EXCEPT ![Root].count = 0]
  /\ Return(r)
  /\ UNCHANGED <<script, buffer, plan, got, failed>>

\* execute(): the gates are broadcast, the new state replaces the block, and
\* invalidate_mapping drops the results of the old one.
Execute(r) ==
  /\ Calls(r, "execute")
  /\ IF r = Root THEN SendDown("gates", script[at[r]].state) ELSE Receive(r, "gates")
  /\ LET state == IF r = Root THEN script[at[r]].state ELSE Received(r) IN
       sim' = [sim EXCEPT ![r] = [block |-> state[r], run |-> @.run + 1]]
  /\ cache' = [cache EXCEPT ![r].count = 0]
  /\ Return(r)
  /\ UNCHANGED <<script, buffer, plan, got, failed>>

\* measure(0).
MeasureNothing(r) ==
  /\ Calls(r, "measure")
  /\ Cnt(r) = 0
  /\ cache' = [cache EXCEPT ![r].count = 0]
  /\ Return(r)
  /\ NoMessages
  /\ UNCHANGED <<script, buffer, sim, plan, got, failed>>

LocalProb(r) == SumRange(sim[r].block, 0, Cardinality(DOMAIN sim[r].block))

\* scan_block_prob: host_scan_sum gathers the sums of the blocks ...
ScanUp(r) ==
  /\ Calls(r, "measure")
  /\ Cnt(r) > 0
  /\ IF r = Root THEN Gather("prob") ELSE SendUp(r, "prob", LocalProb(r))
  /\ plan' = IF r = Root THEN [plan EXCEPT ![r].probs = Gathered(LocalProb(r))] ELSE plan
  /\ Go(r, "prefix")
  /\ UNCHANGED <<script, buffer, sim, cache, got, failed>>

\* ... and distributes the prefix of each rank, which nobody reads here, and
\* the total.
ScanPrefix(r) ==
  /\ At(r, "prefix")
  /\ IF r = Root THEN SendDown("prefix", 0) ELSE Receive(r, "prefix")
  /\ Go(r, "total")
  /\ UNCHANGED <<script, buffer, sim, plan, cache, got, failed>>

ScanTotal(r) ==
  /\ At(r, "total")
  /\ LET total == IF r = Root THEN SumRange(plan[r].probs, 0, Cardinality(Ranks))
                             ELSE Received(r)
     IN /\ IF r = Root THEN SendDown("total", total) ELSE Receive(r, "total")
        /\ plan' = [plan EXCEPT ![r].total = total]
  /\ Go(r, "seed")
  /\ UNCHANGED <<script, buffer, sim, cache, got, failed>>

\* make_measure_plan: the seed, the sums again, and the counts of all ranks.
PlanSeed(r) ==
  /\ At(r, "seed")
  /\ IF r = Root THEN SendDown("seed", 0) ELSE Receive(r, "seed")
  /\ Go(r, "probs")
  /\ UNCHANGED <<script, buffer, sim, plan, cache, got, failed>>

\* The counts that cnt draws of discrete_distribution can give.
Draws(probs, cnt) ==
  {c \in [Ranks -> 0 .. cnt] :
     /\ MapThenSumSet(LAMBDA r : c[r], Ranks) = cnt
     /\ \A r \in Ranks : c[r] > 0 => probs[r] > 0}

PlanProbs(r) ==
  /\ At(r, "probs")
  /\ IF r = Root
     THEN /\ Gather("probs")
          /\ \E c \in IF plan[r].total > 0 THEN Draws(Gathered(LocalProb(r)), Cnt(r))
                                           ELSE {Everywhere(0)} :
               plan' = [plan EXCEPT ![r].cnts = c]
     ELSE SendUp(r, "probs", LocalProb(r)) /\ UNCHANGED plan
  /\ Go(r, "cnts")
  /\ UNCHANGED <<script, buffer, sim, cache, got, failed>>

PlanCounts(r) ==
  /\ At(r, "cnts")
  /\ LET cnts == IF r = Root THEN plan[r].cnts ELSE Received(r) IN
       /\ IF r = Root THEN SendDown("cnts", cnts) ELSE Receive(r, "cnts")
       /\ plan' = [plan EXCEPT ![r].cntLocal = cnts[r]]
  /\ Go(r, "sample")
  /\ UNCHANGED <<script, buffer, sim, cache, got, failed>>

\* sample_local: the rank draws its sorted thresholds ...
StartSample(r) ==
  /\ At(r, "sample")
  /\ CASE plan[r].total <= 0 -> Abort("state has zero total probability")
       [] plan[r].total > 0 /\ plan[r].cntLocal > 0 /\ LocalProb(r) <= 0 ->
            Abort("sample_local_streaming requires positive local_prob")
       [] OTHER ->
            /\ \E taus \in Thresholds(LocalProb(r), plan[r].cntLocal) :
                 cache' = [cache EXCEPT ![r] = [@ EXCEPT
                             !.taus = taus, !.pass = StartPass(sim[r].block, taus)]]
            /\ Go(r, "stream")
            /\ NoMessages
            /\ UNCHANGED <<script, buffer, sim, plan, got, failed>>

\* ... and resolves them segment by segment.
SampleSegment(r) ==
  /\ At(r, "stream")
  /\ PassGoesOn(sim[r].block, cache[r].pass)
  /\ cache' = [cache EXCEPT ![r].pass = PassStep(sim[r].block, @)]
  /\ NoMessages
  /\ UNCHANGED <<script, buffer, at, pc, sim, plan, got, failed>>

\* At the end no threshold may be left.  A row is a real address.
EndSample(r) ==
  /\ At(r, "stream")
  /\ ~PassGoesOn(sim[r].block, cache[r].pass)
  /\ IF cache[r].pass.taus # << >>
     THEN Abort("measure failed to resolve all local samples")
     ELSE /\ cache' = [cache EXCEPT ![r].local =
                         [i \in DOMAIN cache[r].pass.rows |->
                            [rank |-> r, addr |-> cache[r].pass.rows[i]]]]
          /\ Go(r, "size")
          /\ NoMessages
          /\ UNCHANGED <<script, buffer, sim, plan, got, failed>>

\* gather_results: the number of rows of each rank, ...
GatherSizes(r) ==
  /\ At(r, "size")
  /\ IF r = Root
     THEN /\ Gather("size")
          /\ cache' = [cache EXCEPT ![r].sizes = Gathered(plan[r].cntLocal)]
     ELSE SendUp(r, "size", plan[r].cntLocal) /\ UNCHANGED cache
  /\ Go(r, "rows")
  /\ UNCHANGED <<script, buffer, sim, plan, got, failed>>

\* Where the rows of each rank go, behind those of the ranks before it, and last
\* how many there are.
Displs(sizes) ==
  LET displs[i \in 0 .. nprocs] == IF i = 0 THEN 0 ELSE displs[i - 1] + sizes[i - 1]
  IN displs

\* Fault: every rank's rows go to the beginning of the buffer.
PlaceAtZero(sizes, rows) ==
  [i \in 1 .. Displs(sizes)[nprocs] |->
     LET filled == {r \in Ranks : i <= sizes[r]}
     IN IF filled = {} THEN [rank |-> Root, addr |-> 0] ELSE rows[Max(filled)][i]]

\* host_gatherv: the rows of all ranks, by their places.
Place(sizes, rows) ==
  LET displs == Displs(sizes)
      owner(i) == CHOOSE r \in Ranks : displs[r] < i /\ i <= displs[r + 1]
  IN [i \in 1 .. displs[nprocs] |-> rows[owner(i)][i - displs[owner(i)]]]

\* ... the rows, ...
GatherRows(r) ==
  /\ At(r, "rows")
  /\ IF r = Root
     THEN IF Displs(cache[r].sizes)[nprocs] # Cnt(r)
          THEN Abort("gather_results global count mismatch")
          ELSE /\ Gather("rows")
               /\ cache' = [cache EXCEPT ![r].real =
                              Place(cache[r].sizes, Gathered(cache[r].local))]
               /\ Go(r, "all")
               /\ UNCHANGED <<script, buffer, sim, plan, got, failed>>
     ELSE /\ SendUp(r, "rows", cache[r].local)
          /\ Go(r, "all")
          /\ UNCHANGED <<script, buffer, sim, plan, cache, got, failed>>

\* Fault: only the root maps the rows of all, the others keep their own.
ShareRowsOwn(r) ==
  /\ At(r, "all")
  /\ LET real == IF r = Root THEN cache[r].real ELSE cache[r].local IN
       /\ IF r = Root THEN SendDown("all", real) ELSE Receive(r, "all")
       /\ cache' = [cache EXCEPT ![r] = [@ EXCEPT
                      !.real = real,
                      !.packed = [i \in DOMAIN real |->
                                    [run |-> sim[r].run, row |-> real[i]]],
                      !.count = Cnt(r)]]
  /\ Return(r)
  /\ UNCHANGED <<script, buffer, sim, plan, got, failed>>

\* ... and the rows of all; finalize_results maps them by the present A and b.
ShareRows(r) ==
  /\ At(r, "all")
  /\ LET real == IF r = Root THEN cache[r].real ELSE Received(r) IN
       /\ IF r = Root THEN SendDown("all", real) ELSE Receive(r, "all")
       /\ cache' = [cache EXCEPT ![r] = [@ EXCEPT
                      !.real = real,
                      !.packed = [i \in DOMAIN real |->
                                    [run |-> sim[r].run, row |-> real[i]]],
                      !.count = Cnt(r)]]
  /\ Return(r)
  /\ UNCHANGED <<script, buffer, sim, plan, got, failed>>

\* get_results for measured_count() rows, as the Python binding asks.
GetResults(r) ==
  /\ Calls(r, "get")
  /\ got' = [got EXCEPT ![r] =
               Append(@, [call |-> at[r],
                          rows |-> SubSeq(cache[r].packed, 1, cache[r].count)])]
  /\ Return(r)
  /\ NoMessages
  /\ UNCHANGED <<script, buffer, sim, plan, cache, failed>>

RankStep(r) ==
  \/ Execute(r) \/ MeasureNothing(r)
  \/ ScanUp(r) \/ ScanPrefix(r) \/ ScanTotal(r)
  \/ PlanSeed(r) \/ PlanProbs(r) \/ PlanCounts(r)
  \/ StartSample(r) \/ SampleSegment(r) \/ EndSample(r)
  \/ GatherSizes(r) \/ GatherRows(r) \/ ShareRows(r)
  \/ GetResults(r)

Returned == \A r \in Ranks : at[r] > Len(script)
Done == (Returned \/ failed # "no") /\ UNCHANGED vars

Next == (\E r \in Ranks : RankStep(r)) \/ Done

\* A rank is a process that runs until it waits in a collective.
Spec == Init /\ [][Next]_vars /\ \A r \in Ranks : WF_vars(RankStep(r))
-----------------------------------------------------------------------------
(* Properties. *)

Names == {"gates", "prob", "prefix", "total", "seed", "probs", "cnts", "size", "rows", "all"}

\* The shape of the state; no channel holds more than MPI may buffer.
TypeOK ==
  /\ script \in Scripts
  /\ at \in [Ranks -> 1 .. Len(script) + 1]
  /\ pc \in [Ranks -> {"call", "sample", "stream"} \cup Names]
  /\ \A r \in Ranks :
       /\ {Len(up[r]), Len(down[r])} \subseteq 0 .. buffer
       /\ \A i \in DOMAIN up[r] : up[r][i].name \in Names
       /\ \A i \in DOMAIN down[r] : down[r][i].name \in Names
       /\ cache[r].count <= Len(cache[r].packed)
       /\ plan[r].cntLocal \in Nat

\* The pass over the segments meets every threshold: what the last line of
\* sample_local_streaming asserts.
AllResolved == failed # "measure failed to resolve all local samples"

\* All ranks return the same rows from the same call.
RanksAgree ==
  \A r, s \in Ranks : \A i \in DOMAIN got[r] \cap DOMAIN got[s] : got[r][i] = got[s][i]

\* What the script says of call c: the executions before it, and the shots of
\* the last measure() that no execution has followed.
Executions(c) == {i \in 1 .. c - 1 : script[i].op = "execute"}
Shots(c) ==
  LET since == {i \in 1 .. c - 1 : script[i].op # "get"}
  IN IF since = {} THEN 0 ELSE script[Max(since)].cnt

\* Rows are those of the state as it is: as many as were asked for after the
\* last execution, mapped by its A and b, none from an execution before it.
ResultsArePresent ==
  \A r \in Ranks : \A i \in DOMAIN got[r] :
    LET g == got[r][i] IN
    /\ Len(g.rows) = Shots(g.call)
    /\ \A k \in DOMAIN g.rows : g.rows[k].run = Cardinality(Executions(g.call))

\* A row is the address whose share of its block's probability holds the
\* threshold drawn for it; such a share is not empty, so a row is a basis state
\* of nonzero amplitude.
RowsMatchThresholds ==
  \A r \in Ranks : \A i \in DOMAIN cache[r].local :
    pc[r] = "size" =>
      LET p == sim[r].block
          tau == cache[r].taus[i]
          row == cache[r].local[i].addr
      IN InFront(p)[row] <= tau /\ tau < InFront(p)[row] + p[row]

\* No shot is lost or counted twice between the ranks: the results hold, for
\* every rank, exactly the rows that rank resolved, together and in their order.
EveryShotCollected ==
  \A r, s \in Ranks : pc[r] = "call" /\ cache[r].count > 0 =>
    LET packed == cache[r].packed
        rows == cache[s].local
    IN \E d \in 0 .. Len(packed) :
         /\ {i \in DOMAIN packed : packed[i].row.rank = s} = d + 1 .. d + Len(rows)
         /\ \A k \in 1 .. Len(rows) : packed[d + k].row = rows[k]

\* Every call returns on every rank, also when MPI buffers a single message: no
\* rank waits for ever, and none aborts because it was given shots without a
\* block or a threshold was left over.
EveryCallReturns == <>Returned
=============================================================================
