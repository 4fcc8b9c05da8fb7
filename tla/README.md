# A TLA+ verification project for ZXH-Sim

The repository is the artifact of ZXH-Sim, a quantum state-vector simulator: a
C++ core with an MPI backend (`src/zxh/src`), a Python front end
(`src/zxh/zxhsim`), and a harness that runs it beside other simulators
(`src/scripts`). This directory holds TLA+ models of the core, TLC runs that
check them on small instances, and TLAPS proofs about the method the simulator
is built on, its linear algebra, its execution loop, the exchange between its
workers, measurement, and the two programs that run and watch it. Source paths below are relative to the repository's root `src/`.

## 1. The system

A circuit is lowered by Python to calls of builders (`h`, `cx`, `rz`, ...) on a
`ZXH` object, which push `gate_t` records into a list. `execute()` broadcasts
the list of rank 0 to all ranks and runs it; `measure_all()` and `get_state()`
read the result.

The core does not store amplitudes at their basis states. It keeps an affine
map `v = A x + b` over F2 from *real* addresses `x` of `m` bits to *virtual*
addresses `v` of `N` bits, and stores the `2^m` amplitudes that may be nonzero.

- `X` and `CX` change `b` and `A` only (*transport*).
- `Z`, `Rz`, `P`, `CP` turn amplitudes in place; a *selector* (a row of `A` and a
  bit of `b`) tells which.
- `H` and `U3` on qubit `q` mix `x` and `x + delta` where `A delta = e_q`. If no
  `delta` solves the equation, the support doubles: `e_q` becomes a new column
  of `A`, `m` grows by one (*lazy expansion*).

The real addresses are divided over MPI workers: `[worker:K][segment:J][offset:I]`.
If `delta` has a worker bit, the worker streams the segments of the other one.

### Components

| Component | State | Operations | Interacts with | Hard behaviour |
|---|---|---|---|---|
| Simulation method (`core/zxh.cpp`) | gates, `A`, `b`, amplitudes, `global_phase` | builders, `clear_gates`, `execute`, one handler per gate type | linear algebra, state vector | long sequences of row operations and columns must keep the map injective |
| Execution loop (`core/zxh.cpp`, `kernel/*`) | gate index, capacity `M`, diagonal window, `pending_u3`, ablation switches | `calc_mem`, windows, batches, flushes, explicit X/CX, `expand_all` | state vector, kernels | deferred work captured under an address map that later gates change; the sizing pass must predict the loop |
| F2 algebra (`bitvec`, `bitmat`, `selector`, `addr`) | rows and columns of bits | `row_xor`, `append_col`, `solve`, `mul`, `eval` | everything above | elimination with dependent columns, early stop |
| State vector (`sv/sv_common.cpp`) | layout `I,J,K`, `m`, block bounds, slot pool | `resize`, `reset`, `expand`, `segment_ptr`, `neighbor_stream_t` | exchange | three regimes of growth; one exchange ahead of the kernel |
| MPI exchange (`comm/comm_mpi.cpp`) | requests and buffer of each slot | `worker_send`, `worker_recv`, `worker_wait`, `pre_exchange`, `wait_exchange`, host collectives | other ranks | asynchrony, one tag for all messages, deadlock |
| Measurement (`measure/*`) | thresholds, prefix sums, packed results, cached mapping | `measure`, `get_results`, `resolve`, `gather_results` | state vector, exchange | rounding between prefix sums, order of ranks, stale mapping |
| OpenMP and CUDA backends | device buffers | the same interfaces | | parallel loops over disjoint pairs |
| Runtimes, memory, bindings | process-wide initialisation | wrappers | | little |
| Circuit optimizer (`zxhsim/circ_optimizer.py`) | pending one-qubit gates per qubit, boundary schedule | lowering, `_handle_cx`, `_flush_qubit` | builders | which gates may cross a CX |
| Python front end (`qasm.py`, `_agl.py`, ...) | none across calls | parsing, `load_circuit_transpiled` | builders | a list of gate names kept in several places |
| Analyzer (`zxhsim/analyzer.py`) | address map, expansion events, volume | `analyze_circuit` | `_agl.py` | must follow the core without running it |
| Runner monitor and suites (`scripts/run_*.py`) | child process, deadline, result list, size to skip | `monitor_runner_protocol`, `terminate_process`, `run_suite` | a runner process and its two pipes | messages racing a timeout; text in a buffer that `select()` does not see |
| ADAE launcher (`zxh/benchmarks/ADAE/run/scripts`) | cutoffs, rows, records, errors; two files per case on disk | the case loop of `run_all.py`, `_run_child_process`, `write_run_outputs` | a child per case, `nvidia-smi`, earlier launches | children and jobs cut off between two writes; resumed and repeated launches |
| Shell entry points (`run_all.sh`, ...) | commands left, files of earlier launches | groups of suites under `set -e` | suites | a suite that answers with an exit code |
| Registries, figures, vendored code | static tables | | | none |

### What makes each component correct

- **Method**: `execute()` computes the dense state of the program; distinct real
  addresses are distinct basis states; mixed pairs differ in one qubit.
- **Execution loop**: deferral, batching and the ablation switches never change
  that state; `calc_mem` asks for exactly the columns the loop appends, so
  `expand()` never aborts; nothing waits when the block width changes.
- **F2 algebra**: `solve` answers iff a solution exists; a row operation on `A`
  is the same row operation on every product.
- **State vector**: addresses and blocks agree in all regimes of growth; unused
  addresses hold zero; all ranks agree on the phase.
- **Exchange**: the kernel reads its peer's segment as it was after the previous
  gate; no buffer is written while it is sent; two slots suffice; no deadlock.
- **Measurement**: all ranks return the same rows, one per shot, of the state as it
  is; a row is the address whose share of the probability holds its threshold; no
  call aborts or waits for ever.
- **Optimizer**: the emitted circuit is the input up to a global phase; its
  address map covers its support; it expands no more than the input would.
- **Front end and analyzer**: what one accepts the other does; the analyzer's map,
  widths and traversal counts are those of the core for the circuit as it is loaded.
- **Runner monitor**: a silent runner is timed out, and no other; a report that was
  written decides the row; every circuit gets one row; a runner that was ready
  once cannot hold the suite up.
- **Launcher**: a summary on disk means complete results, never older than itself; a
  record goes with its own rows; no point beyond a timeout is run, and no other is skipped; bad rows
  show in the exit code; a launch with a limit ends.
- **Entry point**: every selected suite runs.

`PROJECT.json` lists the places where each of these could go wrong ("hazards")
and the properties that would notice.

## 2. The modules

| Module | Role | Code |
|---|---|---|
| `BitVec` | F2 vectors as sets of positions | `bitvec.cpp`, `addr.cpp`, one column of `bitmat.cpp` |
| `CircuitState` | **abstract specification**: a program and its dense state | semantics of the builders in `core/zxh.cpp` |
| `Transport` | the method, gate by gate; refines `CircuitState` | `core/zxh.cpp` |
| `TransportProofs` | theorems about `Transport` | |
| `BitMat` | `bitmat_t` column by column, the elimination, selectors | `bitmat.cpp`, `selector.cpp` |
| `AlgebraProofs` | theorem about `BitMat`: the elimination is exact; lemmas for the other proofs: induction over numbers and sets, folds, arithmetic of `Amplitudes` | |
| `SvLayout` | layout, growth and addressing | `sv_common.cpp` |
| `Amplitudes` | arithmetic and gate matrices for TLC | `build_u3_matrix`, `left_multiply_u3`, kernels' 2x2 update |
| `ZXHExecute` | `execute()` in full over `BitMat`, `SvLayout`, `Amplitudes`; refines `CircuitState` | `core/zxh.cpp`, `kernel_general.cpp`, `sv_common.cpp` |
| `ExecuteProofs` | theorems about `ZXHExecute` and `SvLayout` | |
| `NeighborStream` | workers exchanging segments asynchronously | `neighbor_stream_t`, `slot_pool_t`, `worker_slot_t` |
| `NeighborStreamProofs` | theorems about `NeighborStream` | |
| `SampleStream` | one rank's pass over its segments, with rounded sums | `measure_streaming_impl.h`, `measure_mpi.cpp` |
| `Measurement` | `measure` and `get_results` on all ranks over `SampleStream` | `measure/*`, host collectives of `comm_mpi.cpp` |
| `MeasurementProofs` | theorems about `Measurement` | |
| `AffineAddressMap` | the front end's address map | `zxhsim/_agl.py` |
| `Analyzer` | the prediction of width, expansions and traversals over `AffineAddressMap`, instruction by instruction | `zxhsim/analyzer.py` |
| `Loader` | the front end that loads a circuit into `Transport`, beside `Analyzer` | `zxhsim/qasm.py`, builders in `core/zxh.cpp` |
| `BoundaryScheduler` | the circuit optimizer's scan over `AffineAddressMap`, `Amplitudes` | `zxhsim/circ_optimizer.py` |
| `BoundaryProofs` | theorems about `BoundaryScheduler` | |
| `RunnerMonitor` | a suite, its monitor, the runner and the pipes between them | `scripts/run_common.py`, `run_single_circuit.py` |
| `RunnerProofs` | theorems about `RunnerMonitor` | |
| `Launcher` | the case loop, its children and their files, over several launches | `ADAE/run/scripts/run_all.py`, `run_backend_zxh_cuda.py`, `runner_common.py` |
| `LauncherProofs` | theorems about `Launcher` | |
| `RunAll` | the script that runs the suites | `run_all.sh` |
| `MCTransport`, `MCZXHExecute`, `MCMeasurement`, `MCBoundaryScheduler`, `MCRunnerMonitor`, `MCLauncher`, `MCRunAll` | the programs, scripts, circuits, suites and bounds for TLC; `MCTransport` also composes `Loader` with `BitMat` | |

Composition: `ZXHExecute` extends `BitMat`, `SvLayout` and `Amplitudes`;
`Transport` and `ZXHExecute` both instantiate `CircuitState` under a refinement
mapping. `NeighborStream` refines one step of `ZXHExecute` (the inter-worker
branch of `Mixed`) into messages; it carries versions instead of amplitudes.
`Loader` extends `Transport` and `Analyzer`, which read the same circuit by different
ways; `MCTransport` runs it beside the bit matrix that holds `A`. `RunAll` takes from
`RunnerMonitor` that a suite ends with its file written and an exit code.

### State and actions against the code

**Transport.** `program` is `impl_t::gates`, `pc` the gate index, `phase` is
`global_phase`, `m` is `sv_t::m_`, `b` is `impl_t::b`, `sv` the amplitudes. `A`
is kept as the table of its products (`amap[x]` = `A x`): a row operation on `A`
is one on each product, and `append_col(e_q)` extends the table. That the table
is what the columns of the code's matrix compute, and go on computing after each
gate, is checked in `MCTransport` (`MatrixFollows`), together with the
elimination (`SolveCorrect`: every right-hand side in every reachable matrix) and
the selectors (`SelectorReadsRow`). There is one action per group of
gate types in the switch of `execute()`. `H`/`U3` has two actions, for
`solve` answering true (`ApplyU3Local`) and false (`ApplyU3Expand`).

**Loader and Analyzer.** `circuit` is what `load_circuit_transpiled` has read of one or
more circuits since the object was made or cleared. `Load` is one turn of its loop:
`Lowered` is what the builders push for an instruction (a `crz` becomes a `P` and a
`CP`, an `rx` a `U3`), and a `reset` calls `clear_gates()`. `Start`, `Traverse`, `End`
are the steps of `Transport`, and `traversed` counts the amplitudes that the gates
of the running execution have met. `Analyze` is the loop of `analyze_circuit` over the
same instructions: it records a `crz` as one gate, starts over at a `reset`, and has no
branch for `p` (`refused`): `AnalyzerAgrees` speaks of the circuits it accepts.
Counts by gate name are left out.

**ZXHExecute.** `am` holds `m_`, the columns of `A` and `b`; `sv[w]` is worker
`w`'s block; `window[w]` its pending diagonal descriptors, already cut to the
block by `make_local_selector`; `acc` is `pending_u3`; `failed` records a call of
`abort()`. `Execute` is the prologue (broadcast, `calc_mem`, `resize`, `reset`,
`expand_all`). `EnterCluster`, `AbsorbU3`, `EagerU3`, `EndCluster` are the inner
loop over a run of H and U3 gates with `flush_pending`, `absorb_u3_gate`,
`flush_u3_batch` and `apply_u3_eager` inside the step that calls them.
`Psi`, the refinement mapping, is the state that `get_state()` would export once
the window and the batch are applied.

A step is one gate on *all* workers. That is sound because workers share nothing
but the exchange and every worker makes the same decisions from the broadcast
gates, and `A` and `b` (replicated); how they drift apart inside an exchange is
what `NeighborStream` is for.

**NeighborStream.** `pc[w]` follows the loop of the inter-worker branch:
open, acquire, kernel, release, ..., close. `slot[w]` is the pool of two
`worker_slot_t`. `sends`, `recvs` and `channel` are MPI: a send is read from the
sender's memory at any time until it completes, messages of a pair keep their
order, a receive takes the oldest message. A segment's content is its *version*,
the number of gates that have updated it.

**Measurement.** Every rank runs the same `script` of `execute`, `measure` and
`get` calls; `at[r]` is the call it is in and `pc[r]` the collective of `measure()` it
has reached: the gather, scatter and broadcast of `host_scan_sum`; the seed, sums
and counts of `make_measure_plan`; sizes, rows and the broadcast of
`gather_results`. All of them gather to rank 0 or distribute from it, so a
collective is a message of its name in `up[r]` or `down[r]`, taken in order. A
rank may leave a gather as soon as MPI has buffered its part. In the gather of
rows each rank's are placed by displacement (`Displs`, `Place`): a place in the
result belongs to the rank whose displacements enclose it. `cache[r]` is
`measure_cache_t`. An execution gives each rank a block of probabilities;
`finalize_results` maps addresses by the `A` and `b` of the moment, so a finished
row carries the number of the execution. `sample_local` is stepped segment by
segment (`StartSample`, `SampleSegment`, `EndSample`) over `SampleStream`: `pass.cur`
is the slot of the segment in hand, filled one iteration ahead, `pass.levels` the
binary counter of `segment_prefix_state_t`. Sums are built in the trees the code
builds and each addition rounds to `Precision` bits.

**BoundaryScheduler.** A circuit is read one instruction at a time. `todo` holds
the steps `_lower_noncore_steps` made of the last one, `pending` is `_pending`, and
`out` stands for `_out` and `_agl`. In place of two circuits the model keeps the two
operators they stand for, columns over all basis states: `want` of what was read,
`out.op` of what was emitted. There is an action per branch: `ReadGate`, the
boundaries `Barrier`, `Measure`, `Reset`, and for a step `Absorb`, `CrossCX`,
`FlushCX`, `RawGate`. A measurement projects both operators on the same outcome. A
reset starts over, because the loader (`qasm.py`) answers it with `clear_gates`.
Pending operators are kept as matrices; the Euler angles `_flush_qubit` computes for
an emitted `u` are not modelled. `rz` and `p` are one gate here: they differ by a
global phase, and the comparison ignores one. `plain` is the address map of the
same circuit flushed gate by gate. An instruction is what qiskit's
`QuantumCircuit.append` accepts (`WellFormed`): the number of qubits its gate has,
of the circuit, none of them twice.

**RunnerMonitor.** `phase` is where `run_suite` and the loop of
`monitor_runner_protocol` are: between circuits, at the top of the loop, in
`select()`, at the streams it returned (`events`), recording a row. `pipe[s]` is
what the runner has written to a stream and nobody has read; `buf[s]` is what
`readline()` has read and not returned. `select()` sees the first only
(`Readable`), `ReadLine` drains the pipe into the buffer when the buffer has no
whole line, so a message may wait in the buffer while the deadline runs. A piece
of text is a message, a foreign line, or an "open" line whose end is missing;
`readline()` of a living runner waits for that end (`Held`). `quiet` is the time
since `last_runner_output_at` and grows only while the monitor waits (`Tick`).
The runner may write, hang or die at any point; `Return` is the answer of the
monitor and `terminate_process` in its `finally`. `spoke`, `reported` and
`started` are history variables that no action reads.

**Launcher.** A step of the launcher is a branch of the case loop of `run_all.py`:
`SkipLarger`, `TakeOver`, `Unreadable`, `StartFails` (an exception of `Popen`) or
`Start`, then `Poll`, `Query...` and
`Sleep` until one of `KillLate`, `Collect`, `CollectTorn`, `QueryOverLimit`,
`QueryFails` ends the case. `rows`, `errors` and `records` are `raw_rows`,
`errors` and `child_runs`. A child goes through `Measure`, the two writes of
`write_run_outputs`, each an `OpenFile` that truncates and a `FillFile`, and
`Exit`; `Crash` may come anywhere, and `Kill` takes it away with whatever it has
written. A file carries the launch whose child wrote it. `JobCrash` takes the
launcher and its child, `Relaunch` starts under the same run id, with or without
`--resume-existing`, and knows the files alone.

**RunAll.** One step per command, whose only inputs are whether its suite left a
circuit unsolved; `set -e` turns its exit code into the end of the script.

### Abstractions

- **Amplitudes.** In the proofs they are any set with linear gate operators. In
  TLC angles are multiples of pi/4 (gate-parameter angles), so every matrix
  entry lies in the ring generated by 1/2 and a 16th root of unity; TLC computes
  its image modulo 17, where 6 is such a root. Equal states have equal images,
  so an invariant that fails here fails exactly; two different states could
  collide in one amplitude, but not for every program enumerated. Rounding is
  not modelled. The optimizer's classes (diagonal, antidiagonal, all entries of
  modulus 1/sqrt 2) are decided on the images, where products of up to six of the
  gates used were compared with exact arithmetic and fall into the same class; the
  tolerances of `circ_optimizer.py` are left out.
- **Width.** The 63/64-bit checks on `N` and `M`, word packing of `bitvec_t`,
  and allocation are left out.
- **Lanes.** `kDiagLaneMask` has 8 bits; the runs use one, so that all three
  selector classes (low, high, cross) occur with three or four qubits.
- **Segment thresholds.** `ZXHSIM_SEG_*` are constants of `SvLayout`; the runs
  take `MinI = 2` for 18 and so on, which moves the boundaries between regimes
  into reach.
- **Probabilities** are integers in some unit. With `Precision` large enough for
  every sum they are exact; thresholds between two integers behave as the lower
  one. With a small `Precision` a threshold is any float below the total. Random
  draws are choices: any sorted thresholds, any counts that give shots only to
  ranks of positive probability, as `discrete_distribution` does.
- **Broadcast.** Ranks other than 0 receive the program in `Execute`.

## 3. The runs

| Run | Instance | What it asks |
|---|---|---|
| `transport` | 3 qubits, circuits of up to 4 instructions of every branch of the front end, all `CX` pairs | does the method implement the dense semantics for every program, also on an object used before; does the matrix of the code carry its map; does the analyzer predict what the core does with the circuit that was loaded, after resets, cleared programs and earlier executions |
| `execute_one_process` | 4 qubits, 1 process, windows of all classes, batches; with transport and in the ablation that permutes amplitudes for X and CX | capacity is exact, `expand` never aborts, nothing waits across it, the state is the program's |
| `execute_workers` | 4 qubits, 4 workers; grown lazily and in the eager-expansion ablation | the executor's steps are `CircuitState`'s, across executions and `clear_gates`, when blocks are spread and neighbours are remote; idle workers agree; unused memory is zero |
| `stream_pair` | 2 workers, 4 segments, 3 gates | the exchange protocol and its termination |
| `measure_ranks` | 2 ranks, every script of 4 calls over three states, 0 or 2 shots, MPI that buffers 1 or 3 messages; exact sums | same rows everywhere, of the present state, each shot once, each row where its threshold lies; no abort; termination |
| `optimizer` | 2 qubits, up to 5 instructions out of 17 at `optimize_level` 2 and up to 3 at level 0; 3 qubits, up to 4 instructions with `ccz` and `ccx` | same operator and outcomes, same or smaller support, honest address map |
| `runner` | sizes 2, 3, 2; one execution each; a limit of 2; one foreign piece per runner | timeouts are silence, reports are recorded, every circuit has its row, the suite goes on |
| `launcher` | two points of a sweep, three launches, all options | what is on disk, what is recorded and what is told agree; cutoffs; a launch with a limit ends |
| `launcher_limit` | one case, one launch | **violation**, see findings |
| `run_all` | the four families, three baselines and two ablations of the script, two launches | **violation**, see findings |
| `measure_rounded` | 1 rank, 4 segments, 1 shot, sums of 2 bits | **violation**, see findings |
| `lazy_blocks` | 2 workers, 2 segments | **violation**, see findings |

**Bounds.** `MaxGates` bounds the program, `MaxCircuit` the circuit it is loaded from. Three qubits are the fewest where a
column of `A` can be a sum that is not the image of one CX; four qubits with
`K = 2` are the fewest where root-only, worker-by-worker and all-worker growth
all occur. The longer programs of `ZXHExecute` start with an opening sequence
(`Prelude`) that spreads the support and entangles the map, followed by every
combination of calls; `MaxShort` bounds programs that start otherwise.
`MaxRerun` (constraint `Bounded`) lets an object be executed again only while
its program is short: what an earlier execution leaves behind is met there, and
longer programs run on a new object. `execute_workers` leaves out the barrier, at which
every worker does what the process of `execute_one_process` does. In `NeighborStream` four segments use both
slots twice, and three gates are enough for a message to be taken for one of
another exchange with a third gate between. Five instructions are the fewest in
which two H gates cross a CX and cancel with two behind it, and a `ccz` lowers to
thirteen steps. An ablation is a constant of an object: `Modes` holds the pairs
`[disableX, eager]` a run starts from, and `mode` never changes.

In `runner`, two circuits of one size with a larger one between them are the
fewest that tell "larger" from "as large" in what is skipped. A limit of two
separates a runner that is late from one that is silent, and one foreign piece is
enough to split, end or precede a message. In `launcher` a second point meets the
cutoff of the first. Three launches are the fewest in which a case is measured,
started over and cut off between its two files, and then taken over: the third finds
an old summary beside newer rows. The constraint `Bounded` leaves out a first launch
with `--resume-existing`, which meets no file and goes as one without, and a last launch
without it, whose new attempts no launch resumes. The proofs cover any number of launches.

Four instructions of `transport` hold a reset between two gates, and one of each kind
that matters to the width: H, CX, H on another qubit, and a gate that counts. `u` and
`id` take the branches of `u3` and `measure` and are left out of the run. `MaxGates` is
twice `MaxCircuit` there, as a `crz` becomes two gates, and stops nothing.

The states of `measure_ranks` are the smallest with an address and a segment of
probability zero between others, a rank without a block, a root of probability
zero, and four segments, so that the counter carries twice.

**Fairness.** In `Measurement` a rank is a process that runs until it waits in a
collective: weak fairness of its step, and nothing about buffering beyond the one
message without which a sender and a receiver could not meet. In `NeighborStream`
a worker is a process that runs until it blocks, hence weak fairness of each
worker's step. MPI guarantees progress of a send and a receive that match, hence
weak fairness of `ReadMatchedSend` and `Deliver`. It may buffer a send that nobody
has asked for, so `ReadSend` can happen early, but no fairness is given to that:
termination does not rest on buffering. `deltas` are arbitrary, so all pairings
are tried. In `RunnerMonitor` the suite and its monitor are one process that goes
on when it can (`SuiteStep`, `MonitorStep`) and the clock advances while it waits
(`Tick`); the runner has no fairness at all, it may hang anywhere. In `Launcher`
the same holds of the launcher (`LauncherStep`) and of the clock of a child
(`Expire`, only if `--timeout-s` is given); children have none.

`EndsAfterReady` says what the code guarantees and no more: before the ready
message there is no limit, and a runner that hangs in the middle of a line holds
`readline()`, and with it the monitor, for ever. `LaunchEnds` is about launches
with a limit; the default is none.

**Deadlock** is checked in all runs but two: `ZXHExecute` and `Transport` can
always clear or execute while idle, and a call of `abort()` would break
`CapacityExact`; `NeighborStream`, `Measurement`, `RunnerMonitor` and `Launcher`
have an explicit step for all being done. In `BoundaryScheduler` a circuit ends
and in `RunAll` a script, so their runs do not check deadlock.

### Findings

1. `lazy_blocks`. `expand()` (`sv_common.cpp:341`) fills segment 0 of each worker
   before the second segments, but the new column is given the distance
   `1 << (m-1)` (`zxh.cpp:715`) and the specification (`docs/tech_spec.md:457`)
   says the low `2^m` addresses are the ones in use. With `J > 0` and `K > 0` and
   `I < m <= I + K` the distance is a segment bit, the partner lies outside the
   block, and `u3_block_kernel` skips the pair. `H(0); H(1); H(2)` leaves the
   wrong state. With default parameters two processes at `M = 20` are enough.
   The eager ablation has a second disagreement in the same layouts, which the
   same configuration shows with `Modes <- EagerOnly`: `prefetch_next` computes
   the neighbour segment (`sv_common.cpp:215`) and uses it only to find the peer,
   which sends its own segment of the same number, while the specification
   (`docs/tech_spec.md:1138`) pairs `seg` with `seg + [delta_b, delta_s, 0]`.
2. `measure_rounded`. Thresholds are drawn below `local_prob`, added up in halves by
   `merge_prob_sum_range`; the last segment ends at `prefix() + s3`, which is
   `((s0+s1)+s2)+s3`. When rounding makes the second sum smaller, a threshold
   between the two is resolved by no segment and `measure()` aborts
   (`measure_streaming_impl.h:145`). In double precision the gap is an ulp: rare
   per shot, but open to any block of four segments or more.

3. `launcher_limit`. `run/README.md:52` says that a child over the GPU memory limit
   is recorded as `gpu_mem_limit_exceeded`. The answer of `_run_child_process` for
   that case (`run_all.py:268`) lacks a key that `main` reads of every answer
   (`run_all.py:549`); the `KeyError` makes the record a `launcher_error`.
4. `run_all`. `run_suite` answers 1 when a circuit failed or timed out
   (`run_common.py:455`), and `run_all.sh` runs one suite after another under
   `set -e`. The first suite with an unsolved circuit is the last to run, although
   unsolved circuits are an expected result (`README.md:124`, `README.md:135`) and
   the README lists what "the script runs" without that condition (`README.md:70`).
   Started again, the script leaves files of the earlier launch in place of those
   it does not reach.
Two more places disagree with what is written about them, plainly enough that the
models simply have them as they are:

- The README of the benchmark generators says of the analyzer that it "uses the same
  Python lowering path as the frontend" (`ADAE/prepare/generators/README.md:115`). Both
  check a circuit against the same set of names, which has `p`;
  `load_circuit_transpiled` hands `p` to the core, and `analyze_circuit` has no branch
  for it and raises `NotImplementedError` (`analyzer.py:212`). The optimizer writes `rz`
  for `p`, so circuits that went through it do not show this; `analyze_circuit` by
  default does not call it. A `crz`, which the core traverses twice, is counted once.
- `README.md:91` calls `TIMEOUT_S` the "per-case runner silence timeout". The monitor
  counts silence only after the ready message (`run_common.py:160`); before it, it waits
  in `select(timeout=None)` (`run_common.py:168`). A runner that hangs while it prepares
  its circuit is never timed out, and the rest of the suite waits behind it.

The passing multi-worker runs use layouts with one segment per worker for the
amplitudes, because of finding 1; `NeighborStream` checks the protocol with four.

## 4. The proofs

### The method

`TransportProofs` proves, for every set of qubits, every set of gates and calls,
every `MaxGates` and every amplitude domain that satisfies the assumptions:

| Theorem | Statement |
|---|---|
| `TypeCorrect` | `Spec => []TypeOK` |
| `AddressesDistinct` | `Spec => []NoAliasing` |
| `NeighboursCorrect` | `Spec => []NeighboursDifferInOneQubit` |
| `Refinement` | `Spec => RefinesCircuit` (that is, `Dense!Spec`) |
| `UpdatesFollow` | `Spec => MatrixFollows` |
| `EliminationCorrect` | `Spec => []SolveCorrect` |
| `SelectorCorrect` | `Spec => []SelectorReadsRow` |
| `AnalyzerFollows` | `LoaderSpec => []AnalyzerAgrees` |
| `SolveIsExact` (`AlgebraProofs`) | `Solve` answers for every matrix and right-hand side as it should |

Assumptions, named in `Transport`: `GateAssumption` (a gate names qubits of the
object, as the builders check; the two qubits of a CX differ, which the callers
in the repository guarantee and the builder does not check),
`CallsAssumption`, and `AmpAssumption` (gate operators are closed on `Amp` and
map zero to zero). `UpdatesFollow` to `SelectorCorrect` are about `MCTransport`, where
the method and the bit matrix run side by side; `AnalyzerFollows` is about `Loader` and
any set of native instructions (`InstructionAssumption`), and
every step of `LoaderSpec` is a step of `Spec` or leaves its variables alone
(`LoaderStepIsStep`), so that the other theorems hold of it too. These four assume in
addition that qubits are numbered (`RowsAssumption`, `MatrixAssumption`). TLC evaluates
the assumptions in `transport`. `SolveIsExact` is about any number of rows and columns.

`NoAliasing` is not inductive alone. `row_xor` preserves it because it is an
involution on every product; `append_col(e_q)` preserves it because `e_q` was
*not* a product when `solve` failed, and for that one needs that the difference
of two products is a product: `Linear`. So `IInv` = `TypeOK`, `Linear`,
`NoAliasing`. `Linear` in turn survives because both operations are additive.
`NeighboursDifferInOneQubit` follows from `Linear` at once.

For the refinement, `Decode` places amplitudes by a `CHOOSE` that `NoAliasing`
makes unique (`DecodeHit`, `DecodeMiss`, `DecodeUnique`). Each gate has a lemma
that the decoded state after the step is `GateOn` of the one before: for X and CX
amplitudes stay and their addresses move by a bijection of the basis; for
diagonal gates the selector reads the bit of the decoded address; for H and U3
(`MixedDecodes`) neighbours decode to the two basis states of the pair, and a
basis state outside the support has its partner outside too, so both sides
are zero by linearity; an expansion first leaves the decoded state unchanged
(`ExtensionDecodes`), then mixes. `StepRefines` joins them.

`SolveIsExact` follows the elimination column by column: swaps and additions of
rows keep the set of solutions, a column that is done is a unit vector at its pivot
row or zero from the next pivot row on, and every row before that one is the pivot
row of one column. At the end a row without coefficients decides whether there is a
solution. For a matrix with independent columns the solution is the only one, and
`NoAliasing` says that the columns of a reachable matrix are independent: this is
why the distance that `solve` returns is the distance between neighbours. `UpdatesFollow` compares
`row_xor` and `append_col` on columns with the same operations on all products.
`AnalyzerFollows` is in two halves. What the analyzer would record of the gates of the
program, one by one, is a trace (`IsTrace`); each gate is one step of the method and
one of that trace (`GateFollows`), so the core's map and traversals are those at its
place. And what the analyzer has made of the instructions is `Linked` to the end of the
trace: the same map and events, and a volume that is the same but for each `crz`, which
is one step here and two there (`CrzLinked`). A reset starts both over.

These arguments are inductions over data, and the library's induction theorems take
an operator as a parameter, which no installed prover can instantiate.
`AlgebraProofs` states them with sets and functions in place of operators
(a property is the set of numbers that have it), and derives what `FoldSet` and
`FoldLeft` of the community modules compute, once for all proofs.

### The execution loop

`ExecuteProofs` proves, for every number of qubits and workers, every program and
every way of constructing the object (`RowsAssumption`, `LayoutAssumption`,
`CallsAssumption`, `AnglesAssumption`):

| Theorem | Statement |
|---|---|
| `ExpandsSettled` | `Spec => NothingWaitsAcrossExpand` |
| `OnePhase` | `Spec => []PhasesAgree` |
| `LayoutDivides` | the fields of a layout are natural numbers that add up to the capacity |
| `BlocksHoldState` | each address in use has one place, in the active part of a block |
| `TypeCorrect` | `Spec => []TypeOK` |
| `SizingExact` | `Spec => []CapacityExact`, if X and CX are disabled on one process only |
| `TailIsZero` | `Spec => []UnusedIsZero` |
| `LoopRefines` | `Spec => RefinesCircuit` (that is, `Dense!Spec`), if `OneFieldLayouts` |
| `LoopPrepares` | `Spec => []StateIsProgramState`, if `OneFieldLayouts` |

Selectors and distances are cut to the width of a block, and `expand()` changes it.
That nothing waits then is not visible at the three places that expand: an explicit
X flushes the window only, an eager U3 the batch only. `Apart` is why that
suffices: outside a run of H and U3 gates the batch is empty, inside it the window.
`BlocksHoldState` is what `get_state` relies on when it takes the first
`block_end - block_start` amplitudes of every rank; its three cases are those of
`expand()`, and it needs `LayoutDivides` to know that the last block ends where the
capacity does.

`SizingExact` compares two passes over the same gates. `calc_mem` goes through the
program with a matrix of its own and counts; the loop goes through it again with
windows and batches. `Fitting` says that the loop's matrix is at each gate the one
that `calc_mem` had there, and that its columns are independent; in the eager
ablation it has all columns from the start, and then no gate expands. `Waiting`
says that a gate in the batch is still local to its worker, so that applying the
batch expands nothing. The invariant is the conjunction, `CapacityInv`. The
hypothesis of the theorem is about an explicit X or CX whose partner lies on another worker: the code has no exchange for
it and aborts, which is a limit of the ablation and not of the sizing.

`TailIsZero` needs that no kernel writes outside the active part of a block, hence
that selectors and distances of what waits were cut to the present block: `StateInv`
adds to `CapacityInv` what every variable looks like (`Shape`).

`LoopRefines` and `LoopPrepares` are about the amplitudes. Their hypothesis,
`OneFieldLayouts`, says that no capacity up to `N` has a layout with worker bits and
segment bits at once (`K > 0` and `J > 0`): finding 1 is a program for which the
statement is false on such a layout. `LayoutsOfOneField` says who is safe: a
single process with any number of qubits, and `2^LogProcs` processes with at most
`MinI + LogProcs` qubits. There is no hypothesis on the mode: where the ablation
aborts, the object stays as it is, which the abstract specification allows.

The argument has four layers. *Blocks*: with one field, address `x` lies at
`Home(x)` and the blocks of all workers are one vector over the addresses in use
(`Flat`); the kernels of a block, the exchange between two workers and the explicit
swap are operations on that vector, whichever worker does them. *Decoding*: read
through `A x + b` the vector is a dense state (`Decoded`), zero outside the image of
`A`; a neighbour distance `d` with `A d = e_q` decodes to the flip of qubit `q`, so
that a kernel is the gate's operator on the dense state (`Fused`, `Exchange`), X and
CX only rename (`Shifted`), and an expansion adds zeros where the state was zero
(`Expanded`). *What waits*: flushing a window multiplies the angle of each
descriptor that chooses an address, so pushing a descriptor is a `Turn` of the
state now, and flushing changes nothing (`FlushKeeps`); the classes of selectors
matter because a class that is evaluated on part of an address must be decided by
that part. The batch is one `Fused` after the other, qubit by qubit (`Layered`); `Fused`
on different qubits commute and two on one qubit are the product of the matrices,
so absorbing a gate is applying it last (`LayersAbsorb`), and flushing the batch is
applying all of it (`BatchDecodes`). *Steps*: each action of the loop is `GateOn` of its
gate or a stutter (`GateMoves`, `StepRefines`). `LoopPrepares` then is the
same for one execution: a fold over one gate more is one step more
(`OneMoreDone`), and every step of the dense simulator keeps it (`NextProgress`).
The amplitudes are the images modulo 17 of module `Amplitudes`; of them the
proofs use that they form a ring in which the powers of the root multiply by adding
angles, which the complex numbers share.

### The exchange

`NeighborStreamProofs` proves, for any number of workers, segments and gates and
for every sequence of distances (`ExchangeAssumption` says that they are natural
numbers, with at least one segment):

| Theorem | Statement |
|---|---|
| `TypeCorrect` | `Spec => []TypeOK` |
| `KernelReadsRightSegment` | `Spec => []KernelReadsPreviousGate` |
| `SegmentsUpdatedOnce` | `Spec => []EverySegmentOncePerGate` |
| `WritesAwayFromSends` | `Spec => []NoWriteUnderSend` |
| `SlotsSuffice` | `Spec => []TwoSlotsSuffice` |
| `StreamsLeaveNothing` | `Spec => []NothingLeftBehind` |

They follow from one invariant, `Inv`. Its first half is about one worker, `Local`:
where it is in its block (`Place`), that its two slots hold its two exchanges and
nothing else (`SlotFits`), which segments the present gate has updated
(`Versions`), and that at most one receive and one send are pending, for the
prefetched segment (`Requests`). Its second half is about a pair, `Link`, and is
what makes one tag for all messages enough: every message on the way was sent and
not received (`Travelling`), messages lie in the order of gates and segments
(`Ordered`), none is missing (`Complete`), and nothing was received that was not
sent (`Causal`). The lemma at the centre, `RightMessage`, concludes that the
oldest message is the one the posted receive is for: it is not older, since it was
not received, and not younger, since the right one, which has been sent, would
have to lie before it.
The workers' own steps change no link (`Harmless`): they neither read nor
deliver, and a gate that is closed with all segments received is the next gate
with none. `DeliverSafe` and `ReadSendSafe` treat MPI's steps, in which exactly one
(gate, segment) of one pair is added to what is received or sent; other pairs are
untouched because the distance of a gate determines the pair (`Sums`, `Pairs`).

### Measurement

`MeasurementProofs` proves, for any number of ranks, any scripts, any buffering and
whatever the ranks draw (`MeasurementAssumption`: ranks are numbered from 0 and MPI
buffers at least one message; `ScriptsAssumption`; `BlocksAssumption`: segments are
not empty, and an execution leaves each rank a block of probabilities):

| Theorem | Statement |
|---|---|
| `AllRanksAgree` | `Spec => []RanksAgree` |
| `TypeCorrect` | `Spec => []TypeOK` |
| `ResultsPresent` | `Spec => []ResultsArePresent` |
| `ShotsCollected` | `Spec => []EveryShotCollected` |
| `RowsFollowThresholds` | `ExactSums` implies `Spec => []RowsMatchThresholds` |
| `NoThresholdLeft` | `ExactSums` implies `Spec => []AllResolved` |

Ranks run ahead of each other between the collectives,
so "all hold the same" is not an invariant. What is invariant is that a rank's
results on arrival at a call depend on the call alone: how many executions and gets
lie behind it and how many rows it holds follows from the script (`CountsOf`), and
what the rows are from a function of the call that is the same for all ranks
(`Agreed`), which a rank that lags finds in the message still on its way
(`Carried`). That such a message belongs to the call its receiver is in needs no
account of the other eight collectives. `Turn` follows one token: in each
measurement a rank's rows go to the root and the rows of all come back; from the
moment a rank waits, exactly one of the two is on its way or the root is between
them, and outside that round the next measurement of both is the same call.
`RootShares` extends the function: all ranks wait in that call, so no value of it
that anyone has used changes.

The next three theorems do need the collectives before the rows, and a second
invariant, `RowsInv`. `Opened` and `Sized` say how far apart ranks can be: none is
past the first exchange of a measurement before all are in it, and the root
collects no rows before every rank has resolved its own. `SentBy`, `SentTo` and
`AtRoot` say what the messages carry and what the root holds between two
collectives: sizes are those of the rows that are sent, and the counts of a plan
are numbers. `Sampled` says that a pass over the segments drops no threshold: those
still open and the rows already resolved are together as many as the rank was
assigned. While one rank samples all are past the first exchange and none has its
rows back (`AllSample`). `Present` is what results are afterwards: rows of the present state, with
each rank's together. Its centre is about the gather itself: displacements add up
to the number of rows (`DisplsAddUp`), each place belongs to exactly one rank
(`PlacesOwned`), and the rows of that rank lie there in their order (`PlaceLies`).
`Answers` carries this to what `get_results` has returned, `StepKeepsCount` the
number of rows across the whole call.

The last two theorems are about the pass of `SampleStream`, for every block, every
length of a segment and every list of sorted thresholds. They have a hypothesis,
`ExactSums`: no block's probabilities add up to more than `MaxSum`, and no sum up to
there rounds. The instance of `measure_ranks` satisfies it (sums of at most 16 in 8
bits); that of `measure_rounded` does not, and there the second statement fails
(finding 2). So rounding is all that can go wrong: the way the sums are built, the
counter, the two slots and the search are right. `InFront` gives the sum in front of
each address, and every operator is measured by it: a tree of halves adds up to a
difference of two of its values (`SumRangeExact`); on the way down the tree of
`exclusive_scan_merge` each part starts where its elder's left half ends
(`ScanExact`); the counter's levels add up to what has been pushed, whichever of them
are active (`Tally`, `PushExact`), and `prefix()` reads that sum off (`PrefixExact`);
the slot of the next segment, filled one iteration ahead, starts at the end of the one
in hand (`SlotExact`); and `upper_bound`, clamped or not, ends at the one address whose
share holds the threshold (`ResolveExact`). `Passing` is the invariant of the loop:
thresholds taken have their rows, those left lie at or behind the segment in hand, so
behind the last segment there is none (`PassEnds`). `StreamInv` carries it through the
system. It also says that the states in the messages of `execute` are exact, since a
rank that lags takes its block from one.

### The circuit optimizer

`BoundaryProofs` proves, for any number of qubits, any level and any circuit of any
length (`SchedulerAssumption`, and `InstructionAssumption`: an instruction is what
qiskit lets a circuit hold; TLC evaluates both in `optimizer`):

| Theorem | Statement |
|---|---|
| `BoundaryTypes` | `Spec => []TypeOK` |
| `BoundaryCovers` | `Spec => []SupportCovered` |
| `BoundaryNeverGrows` | `Spec => []SupportNeverGrows` |
| `BoundaryKeepsMeaning` | `Spec => []Equivalent` |

All four rest on the invariant `Typed`: the steps left to do are core gates on
qubits of the circuit, and what is pending on a qubit is `Sound`. A pending matrix has
a determinant other than zero; one without an H core is diagonal or antidiagonal, and
an empty one is the identity. `_classify_pending` may drop a global phase, so that it
keeps a matrix up to a unit factor only.

`_flush_all` takes the qubits in some order, and so does `FoldSet`. The state after a
flush does not depend on it, since operators on different qubits commute
(`OneQubitsCross`). `Held` is a state with the pending operators of a set of qubits
applied; `HeldSteps` lets any of them be applied last, and `HeldPasses` lets an
operation that leaves those qubits alone pass them.

`SupportCovered` says `Covers` of the column of `|0..0>`, and each thing that can be
emitted keeps it: an operator with an H core on a qubit adds the qubit's unit vector
to the map's columns or finds it in their span, an antidiagonal one moves the offset,
a CX moves columns, offset and amplitudes alike, phases and projections create no
amplitude.

For `SupportNeverGrows` the invariant is `NoWider`. The columns of the emitted map are
independent and lie in the span of the plain map's columns; hence they are no more.
They stay there because an operator with an H core can only be pending on a qubit whose
unit vector is in that span, as the plain circuit flushed it when it was read. Where
a CX is crossed, the plain map has the unit vectors of both its qubits, and the
column operation of the CX does not leave a span that holds them.

`Equivalent` speaks of the moments between two instructions. `OnCourse` is what
holds within one: the steps that are left (`Carries`) take the emitted circuit, with
what is pending applied, to a unit multiple of the instructions read. It starts
true at each instruction because the lowering is exact (`LoweringExact`): for
`swap` the three CX permute the basis as the swap does; for `cz`, `rzz` and `ccz`
every amplitude is traced through the steps as a source and an angle (`Traced`), and
the angles add up to the gate's own; for `ccx` that is put between two H on the
target. Each step then does its part of the course (`Does`) in the four branches of
the scan: absorbing multiplies matrices on one qubit (`AbsorbDoes`); the crossing is the
identity CX (H x H) = (H x H) CX with control and target exchanged (`HadamardsCross`,
`CrossDoes`), for an exact H up to a phase; a flushed CX or a raw two-qubit gate first
takes the pending operators of its pair into the emitted circuit (`PairDoes`), unless
they may stay. A measurement projects both sides on the same outcome, and a
projection commutes with a factor. The ring is that of `Amplitudes`, modulo 17; the proofs
use that its nonzero elements have inverses and that the root's powers multiply by adding
angles.

### The suite runner

`RunnerProofs` proves, for every suite, number of executions, limit and amount of
foreign output (`RunnerAssumption`): `TypeCorrect`, `SilenceBeforeTimeout`
(`[]TimeoutMeansSilence`), `ReportKept` (`[]ReportIsRecorded`) and `RowsAccounted`
(`[]RowsAccount`). The invariant `Heard` is about the text that is written and not
returned by `readline()`, wherever it lies: whether a piece is in the pipe or in
the buffer does not matter, only their concatenation (`Unread`) does. It says
that a report is in that text or already taken, that messages lie in the order the
runner sends them, that a stream is given up only when its text is used up, and
that with no message unread the monitor's clock is not ahead of the silence.
`Accounted` says that `skipAfter` is the size of the smallest circuit that timed
out, which needs that a circuit larger than it is never started.

### The launcher

`LauncherProofs` proves, for every selection of cases, sweeps and any number of
launches (`LauncherAssumption`): `TypeCorrect`, `SummaryCommits` (`[]CommitOrder`),
`RowsAreItsOwn` (`[]RowsBelongToRecord`), `ExitCodeTells` (`[]ErrorsAreTold`) and
`CutoffHolds` (`[]CutoffRespected`). `Shape` adds to the types what launcher and
child know of each other. `Writing` relates the child's position to its two files,
and `Authors` says which launch wrote which file: two files of one launch agree,
and the present launch has not yet written what it still has to write, so that
files of an earlier launch are never taken for its own. `CommitOrder` says what
remains possible when a case is started over without `--resume-existing`: from the
moment its child opens `raw_results.json` until it has filled `summary.json`, the old
summary stands beside nothing older than itself. `Ledger` is about the
rows and records of the cases behind, `Cutoffs` says that a cutoff is the smallest
point known to have timed out.

### What is only model-checked

Every invariant and every action property of the passing runs is proved, some under
a hypothesis named above. What stays with TLC:

- **Liveness**: `EveryWorkerFinishes`, `EveryCallReturns`, `EndsAfterReady`,
  `LaunchEnds`, and absence of deadlock. Fairness and `ENABLED` are out of the
  prover's reach.
- **What rounding does** to the rows of a measurement, beyond finding 2.

## 5. Not modelled

- **CUDA and OpenMP backends** implement the interfaces modelled here; memory
  ordering on devices and streams, and NCCL, are out of TLC's reach.
- **Runtimes, allocation and bindings** hold no protocol state.
- **Parsing** in Python is a pure function over syntax, and the Qiskit backend a
  wrapper of what is modelled. A reset of one qubit is loaded as `clear_gates()`; the
  models of loader, analyzer and optimizer follow that.
- **Two roundings and a cut.** A threshold drawn by `advance()` may round up to the
  total itself (`measure_common.cpp:65`), which `Thresholds` leaves out; the Euler
  angles of an emitted `u` are taken as exact; and `flush_u3_batch` cuts a distance to
  the bits of a grown block (`zxh.cpp:422`) where `BatchApplied` takes all bits of a
  block, which differs only with `K > 0` and `J > 0`, the layouts of finding 1.
- **The suite runner's memory sampling** is a thread beside the monitor that keeps
  two maxima, read only after it has been joined. The join waits for an
  `nvidia-smi` call that has no limit; the model assumes that it returns. Results
  are written once, at the end of a suite, so an interrupted suite leaves none.
  Argument parsing and formatting of tables are left out.
- **The launcher's own output files** and tables, case directories that depend on
  the selection of cases, and an `nvidia-smi` that hangs (its call has no limit,
  so the launcher would wait with it).
- **The abort of an explicit X or CX** whose neighbour is on another worker: the
  ablation is run with one process, as the suites of the repository do.
- **Figures, registries, vendored packages and the developers' own benchmark
  scripts** are static tables, third-party code, or simpler forms of what the
  launcher does. The vendored Python packages under `src/pydeps` are the greater
  part of the repository by lines; the modules here cover its own code.

## 6. Plan

Done: all modules of section 2, the proofs of section 4.

Worth doing next, in this order:

1. Composition of `ZXHExecute` with `NeighborStream` over amplitudes.
2. The memory sampling thread beside the monitor, with an `nvidia-smi` that hangs.
