--------------------------- MODULE NeighborStream ---------------------------
(***************************************************************************)
(* The exchange behind an inter-worker H or U3: neighbor_stream_t over the  *)
(* slot pool (sv_common.cpp) and the nonblocking MPI calls of worker_slot_t *)
(* (comm_mpi.cpp).  Every worker runs the same gates at its own pace; for   *)
(* each segment it receives the segment of the same number from the worker  *)
(* at distance delta, one exchange ahead of the kernel.                     *)
(*                                                                         *)
(* A segment is represented by the number of gates that have updated it.    *)
(* MPI may read a send buffer at any moment until the send completes; it    *)
(* keeps the order of the messages of one sender to one receiver.           *)
(***************************************************************************)
EXTENDS BitVec, Sequences, FiniteSets

CONSTANTS
  LogProcs, \* log2 of the number of workers that hold a block
  Segments, \* segments of a block, block_end - block_start over 2^I
  Gates     \* number of gates executed

ASSUME ExchangeAssumption ==
  LogProcs \in Nat /\ Segments \in Nat \ {0} /\ Gates \in Nat

Workers == Real(LogProcs)
SlotIds == 0 .. 1 \* kSlotCount
None == -1

VARIABLES
  deltas,     \* the gates: the worker part of each distance, {} for a local gate
  round,      \* the gate each worker is at
  pc,         \* between gates, or where it is in the loop of apply_u3
  nextSeg,    \* next_seg_, as a segment number
  prefetched, \* the segment and slot of the exchange in progress, or None
  acquired,   \* the segment and slot handed to the kernel, or None
  slot,       \* per worker and slot: in_use, the requests, the receive buffer
  version,    \* per worker and segment: the gates that have updated it
  recvs,      \* recvs[w][p]: slots of w's pending receives from p, in order
  sends,      \* sends[p][w]: p's pending sends to w, in order
  channel,    \* channel[p][w]: messages read from p's memory, not delivered
  failed      \* abort() was called

stream == <<nextSeg, prefetched, acquired>>
network == <<recvs, sends, channel>>
vars == <<deltas, round, pc, stream, slot, version, network, failed>>

Nothing == [seg |-> None, at |-> None]
FreeSlot == [used |-> FALSE, recv |-> "none", send |-> "none", buf |-> <<>>]
Pool == [i \in SlotIds |-> FreeSlot]

Init ==
  /\ deltas \in [1 .. Gates -> Workers]
  /\ round = [w \in Workers |-> 1]
  /\ pc = [w \in Workers |-> "between"]
  /\ nextSeg = [w \in Workers |-> 0]
  /\ prefetched = [w \in Workers |-> Nothing]
  /\ acquired = [w \in Workers |-> Nothing]
  /\ slot = [w \in Workers |-> Pool]
  /\ version = [w \in Workers |-> [s \in 0 .. Segments - 1 |-> 0]]
  /\ recvs = [w \in Workers |-> [p \in Workers |-> << >>]]
  /\ sends = [w \in Workers |-> [p \in Workers |-> << >>]]
  /\ channel = [w \in Workers |-> [p \in Workers |-> << >>]]
  /\ failed = FALSE

\* Fault: the distance is joined to the number of the worker, not added.
PeerOr(w) == w \cup deltas[round[w]]

\* segment_owner: the worker at the distance of the gate.
Peer(w) == w \oplus deltas[round[w]]
Free(pool) == {i \in SlotIds : ~pool[i].used}

\* pre_exchange: post the receive, then the send.
Posted == [FreeSlot EXCEPT !.used = TRUE, !.recv = "posted", !.send = "posted"]

\* prefetch_next on worker w, whose pool is pool and next segment seg: take the
\* first free slot and start the exchange; there must be one.
Prefetch(w, pool, seg) ==
  LET i == CHOOSE k \in Free(pool) : \A l \in Free(pool) : k <= l IN
  IF seg >= Segments
  THEN /\ prefetched' = [prefetched EXCEPT ![w] = Nothing]
       /\ slot' = [slot EXCEPT ![w] = pool]
       /\ nextSeg' = [nextSeg EXCEPT ![w] = seg]
       /\ UNCHANGED <<network, failed>>
  ELSE IF Free(pool) = {}
  THEN /\ failed' = TRUE
       /\ UNCHANGED <<prefetched, nextSeg, slot, network>>
  ELSE /\ prefetched' = [prefetched EXCEPT ![w] = [seg |-> seg, at |-> i]]
       /\ slot' = [slot EXCEPT ![w] = [pool EXCEPT ![i] = Posted]]
       /\ nextSeg' = [nextSeg EXCEPT ![w] = seg + 1]
       /\ recvs' = [recvs EXCEPT ![w][Peer(w)] = Append(@, i)]
       /\ sends' = [sends EXCEPT ![w][Peer(w)] = Append(@, [seg |-> seg, at |-> i])]
       /\ UNCHANGED <<channel, failed>>

\* Fault: only the receive is waited for.
QuietReceive(s) == s.recv # "posted"

\* No request of a slot is in flight: what worker_wait waits for.
Quiet(s) == s.recv # "posted" /\ s.send # "posted"

\* A gate that stays in the block updates all its segments.
LocalGate(w) ==
  /\ pc[w] = "between"
  /\ round[w] <= Gates
  /\ Peer(w) = w
  /\ version' = [version EXCEPT ![w] = [s \in DOMAIN @ |-> @[s] + 1]]
  /\ round' = [round EXCEPT ![w] = @ + 1]
  /\ UNCHANGED <<deltas, pc, stream, slot, network, failed>>

\* Fault: a stream opened after an earlier one goes on counting its segments.
OpenStreamLate(w) ==
  /\ pc[w] = "between"
  /\ round[w] <= Gates
  /\ Peer(w) # w
  /\ \A i \in SlotIds : Quiet(slot[w][i])
  /\ Prefetch(w, Pool, nextSeg[w])
  /\ pc' = [pc EXCEPT ![w] = "acquire"]
  /\ UNCHANGED <<deltas, round, acquired, version>>

\* The constructor resets the pool and starts the first exchange.
OpenStream(w) ==
  /\ pc[w] = "between"
  /\ round[w] <= Gates
  /\ Peer(w) # w
  /\ \A i \in SlotIds : Quiet(slot[w][i])
  /\ Prefetch(w, Pool, 0)
  /\ pc' = [pc EXCEPT ![w] = "acquire"]
  /\ UNCHANGED <<deltas, round, acquired, version>>

\* Faults: acquire() waits only for its send, or only for its receive.
AcquireSent(w) ==
  /\ pc[w] = "acquire"
  /\ prefetched[w] # Nothing
  /\ slot[w][prefetched[w].at].send # "posted"
  /\ acquired' = [acquired EXCEPT ![w] = prefetched[w]]
  /\ Prefetch(w, slot[w], nextSeg[w])
  /\ pc' = [pc EXCEPT ![w] = "kernel"]
  /\ UNCHANGED <<deltas, round, version>>

AcquireReceived(w) ==
  /\ pc[w] = "acquire"
  /\ prefetched[w] # Nothing
  /\ slot[w][prefetched[w].at].recv # "posted"
  /\ acquired' = [acquired EXCEPT ![w] = prefetched[w]]
  /\ Prefetch(w, slot[w], nextSeg[w])
  /\ pc' = [pc EXCEPT ![w] = "kernel"]
  /\ UNCHANGED <<deltas, round, version>>

\* acquire(): wait for the exchange in progress, then start the next one.
Acquire(w) ==
  /\ pc[w] = "acquire"
  /\ prefetched[w] # Nothing
  /\ Quiet(slot[w][prefetched[w].at])
  /\ acquired' = [acquired EXCEPT ![w] = prefetched[w]]
  /\ Prefetch(w, slot[w], nextSeg[w])
  /\ pc' = [pc EXCEPT ![w] = "kernel"]
  /\ UNCHANGED <<deltas, round, version>>

\* u3_inter_kernel reads the receive buffer and writes the local segment.
Kernel(w) ==
  /\ pc[w] = "kernel"
  /\ version' = [version EXCEPT ![w][acquired[w].seg] = @ + 1]
  /\ pc' = [pc EXCEPT ![w] = "release"]
  /\ UNCHANGED <<deltas, round, stream, slot, network, failed>>

\* Fault: the slot is not given back.
ReleaseKeeps(w) ==
  /\ pc[w] = "release"
  /\ Quiet(slot[w][acquired[w].at])
  /\ acquired' = [acquired EXCEPT ![w] = Nothing]
  /\ pc' = [pc EXCEPT ![w] = "acquire"]
  /\ UNCHANGED <<deltas, round, nextSeg, prefetched, slot, version, network, failed>>

Release(w) ==
  /\ pc[w] = "release"
  /\ Quiet(slot[w][acquired[w].at])
  /\ slot' = [slot EXCEPT ![w][acquired[w].at] = FreeSlot]
  /\ acquired' = [acquired EXCEPT ![w] = Nothing]
  /\ pc' = [pc EXCEPT ![w] = "acquire"]
  /\ UNCHANGED <<deltas, round, nextSeg, prefetched, version, network, failed>>

\* acquire() answers false; the destructor resets the pool.
CloseStream(w) ==
  /\ pc[w] = "acquire"
  /\ prefetched[w] = Nothing
  /\ \A i \in SlotIds : Quiet(slot[w][i])
  /\ slot' = [slot EXCEPT ![w] = Pool]
  /\ round' = [round EXCEPT ![w] = @ + 1]
  /\ pc' = [pc EXCEPT ![w] = "between"]
  /\ UNCHANGED <<deltas, stream, version, network, failed>>

WorkerStep(w) ==
  ~failed /\ \/ LocalGate(w) \/ OpenStream(w) \/ Acquire(w)
             \/ Kernel(w) \/ Release(w) \/ CloseStream(w)

\* MPI reads the memory of the oldest pending send and completes it, with or
\* without a receive to match.
ReadSend(p, w) ==
  /\ sends[p][w] # << >>
  /\ LET s == Head(sends[p][w]) IN
     /\ channel' = [channel EXCEPT ![p][w] =
                      Append(@, [from |-> p, seg |-> s.seg, version |-> version[p][s.seg]])]
     /\ slot' = [slot EXCEPT ![p][s.at].send = "done"]
  /\ sends' = [sends EXCEPT ![p][w] = Tail(@)]
  /\ UNCHANGED <<deltas, round, pc, stream, version, recvs, failed>>

\* A message reaches the oldest pending receive from its sender.
Deliver(p, w) ==
  /\ channel[p][w] # << >>
  /\ recvs[w][p] # << >>
  /\ slot' = [slot EXCEPT ![w][Head(recvs[w][p])].recv = "done",
                          ![w][Head(recvs[w][p])].buf = Head(channel[p][w])]
  /\ channel' = [channel EXCEPT ![p][w] = Tail(@)]
  /\ recvs' = [recvs EXCEPT ![w][p] = Tail(@)]
  /\ UNCHANGED <<deltas, round, pc, stream, version, sends, failed>>

\* The send that a posted receive matches.
ReadMatchedSend(p, w) == ReadSend(p, w) /\ Len(channel[p][w]) < Len(recvs[w][p])

Finished(w) == round[w] > Gates /\ pc[w] = "between"

\* All workers have executed their gates.
Done == (\A w \in Workers : Finished(w)) /\ UNCHANGED vars

Next ==
  \/ \E w \in Workers : WorkerStep(w)
  \/ \E p, w \in Workers : ReadSend(p, w) \/ Deliver(p, w)
  \/ Done

\* A worker that can go on does, and MPI progresses a matched pair of calls; it
\* need not buffer a message that nobody has asked for.
Fairness ==
  /\ \A w \in Workers : WF_vars(WorkerStep(w))
  /\ \A p, w \in Workers : WF_vars(ReadMatchedSend(p, w)) /\ WF_vars(Deliver(p, w))

Spec == Init /\ [][Next]_vars /\ Fairness
-----------------------------------------------------------------------------
\* The shape of the state: segment numbers stay within the block.
TypeOK ==
  /\ deltas \in [1 .. Gates -> Workers]
  /\ round \in [Workers -> 1 .. Gates + 1]
  /\ pc \in [Workers -> {"between", "acquire", "kernel", "release"}]
  /\ nextSeg \in [Workers -> 0 .. Segments]
  /\ \A w \in Workers :
       {prefetched[w], acquired[w]} \subseteq
          [seg : 0 .. Segments - 1, at : SlotIds] \cup {Nothing}
  /\ version \in [Workers -> [0 .. Segments - 1 -> 0 .. Gates]]
  /\ \A w, p \in Workers : recvs[w][p] \in Seq(SlotIds)
  /\ failed \in BOOLEAN

\* What the kernel reads is a snapshot of the peer's segment of the same number
\* after exactly the gates before this one: never a segment the peer has
\* already updated for this gate, nor one left over from an earlier exchange,
\* however far the workers drift apart.
KernelReadsPreviousGate ==
  \A w \in Workers :
    pc[w] = "kernel" =>
      slot[w][acquired[w].at].buf =
        [from |-> Peer(w), seg |-> acquired[w].seg, version |-> round[w] - 1]

\* Every segment of the block is updated once by every gate: the prefetching
\* loop skips none at its start, at its end or after an earlier stream.
EverySegmentOncePerGate ==
  \A w \in Workers :
    pc[w] = "between" => \A s \in DOMAIN version[w] : version[w][s] = round[w] - 1

\* A worker writes no memory that a pending send may still read, in the kernel
\* and in the local gates between two streams.
NoWriteUnderSend ==
  \A w, p \in Workers : \A i \in DOMAIN sends[w][p] :
    /\ pc[w] # "between"
    /\ pc[w] = "kernel" => sends[w][p][i].seg # acquired[w].seg

\* Two slots are enough: prefetch_next always finds a free one.
TwoSlotsSuffice == ~failed

\* Between two streams nothing of the earlier one is pending at a worker, so a
\* message can never be taken for one of a later gate.
NothingLeftBehind ==
  \A w \in Workers :
    pc[w] = "between" =>
      /\ \A i \in SlotIds : Quiet(slot[w][i])
      /\ \A p \in Workers : recvs[w][p] = << >> /\ sends[w][p] = << >>

\* The exchange never leaves the workers waiting for one another, even if MPI
\* completes no send before its receive is posted.
EveryWorkerFinishes == \A w \in Workers : <>Finished(w)
=============================================================================
