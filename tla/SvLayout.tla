------------------------------ MODULE SvLayout ------------------------------
(***************************************************************************)
(* How sv_t divides the real addresses (sv_common.cpp).  An address has the *)
(* fields [worker : K][segment : J][offset : I]; a worker holds the block   *)
(* of its 2^(I+J) addresses.  The number of processes is a power of two, as *)
(* the MPI runtime demands, and a rank is the set of the bits of its        *)
(* number, so block_start is the rank shifted by I + J.                     *)
(***************************************************************************)
EXTENDS BitVec, FiniteSetsExt

CONSTANTS
  LogProcs, \* log2 of nprocs()
  MinI,     \* ZXHSIM_SEG_MIN_I
  MaxI,     \* ZXHSIM_SEG_MAX_I
  MinJ,     \* ZXHSIM_SEG_MIN_J
  TargetI   \* log2 of the values in ZXHSIM_SEG_TARGET_BYTES

ASSUME LayoutAssumption ==
  /\ LogProcs \in Nat
  /\ {MinI, MaxI, MinJ, TargetI} \subseteq Nat \ {0}

Workers == Real(LogProcs)
Root == {}

AtMost(a, c) == Min({a, c})
AtLeast(a, c) == Max({a, c})

\* choose_layout.
Layout(M) ==
  LET maxI == AtLeast(MinI, MaxI)
      K == IF M > MinI THEN AtMost(LogProcs, M - MinI) ELSE 0
      local == M - K
      wanted == AtMost(maxI, AtMost(local, AtLeast(MinI, TargetI)))
      split == IF local > MinJ THEN AtMost(wanted, local - MinJ) ELSE wanted
      I == CASE LogProcs = 0  -> AtMost(M, MinI)
             [] local <= MinI -> local
             [] split < MinI  -> AtMost(local, MinI)
             [] OTHER         -> split
  IN [I |-> I, J |-> local - I, K |-> K]

\* The number of bits of a block once m bits are in use: block_end - block_start
\* is 2^LocalBits, or 0 when it is -1 (expand; reset for m = 0).
LocalBits(L, m, w) ==
  CASE m <= L.I       -> IF w = Root THEN m ELSE -1
    [] m > L.I /\ m <= L.I + L.K -> IF w \subseteq 0 .. m - L.I - 1 THEN L.I ELSE -1
    [] OTHER          -> m - L.K

BlockStart(L, w) == ShiftUp(w, L.I + L.J)

\* The fields of a neighbour distance.
OffsetOf(L, d) == LowerBits(d, L.I)
BlockOf(L, d) == LowerBits(d, L.I + L.J)
WorkerOf(L, d) == LowerBits(HigherBits(d, L.I + L.J), L.K)

\* Where get_state finds real address x once m bits are in use: the blocks of
\* the workers are gathered in rank order, each at its present length.
Home(L, m, x) ==
  LET bits == CASE m <= L.I       -> m
                [] m > L.I /\ m <= L.I + L.K -> L.I
                [] OTHER          -> m - L.K
  IN [w |-> HigherBits(x, bits), at |-> LowerBits(x, bits)]
=============================================================================
