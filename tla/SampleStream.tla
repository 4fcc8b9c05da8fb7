---------------------------- MODULE SampleStream ----------------------------
(***************************************************************************)
(* sample_local_streaming: one worker resolves its sorted thresholds in a   *)
(* single pass over the segments of its block.  Sums of probabilities are   *)
(* built in trees, as the code builds them, and every addition rounds to    *)
(* Precision bits, so that the order of the additions matters.              *)
(*                                                                         *)
(* A block is a function from 0 .. n-1 to probabilities in some unit; n and *)
(* the length of a segment are powers of two.                               *)
(***************************************************************************)
EXTENDS Integers, Sequences, FiniteSets, FiniteSetsExt

CONSTANTS
  SegLen,    \* length of a segment
  Precision, \* bits in the significand of float_t
  MaxSum     \* bound on the sums, in the unit of the probabilities

\* The nearest float_t to each sum, ties to even.
Round ==
  [n \in 0 .. MaxSum |->
    LET k == CHOOSE j \in 0 .. n : /\ n < 2 ^ (Precision + j)
                                   /\ j = 0 \/ n >= 2 ^ (Precision + j - 1)
        unit == 2 ^ k
        down == n \div unit
        rest == 2 * (n % unit)
        up == rest > unit \/ (rest = unit /\ down % 2 = 1)
    IN unit * (IF up THEN down + 1 ELSE down)]

Plus(a, b) == Round[a + b]

\* merge_prob_sum_range: the sum of p over b .. e-1, halves first.
SumRange(p, b, e) ==
  LET sum[range \in (b .. e) \X (b .. e)] ==
        LET from == range[1]
            to == range[2]
            mid == from + (to - from) \div 2
        IN IF from >= to THEN 0
           ELSE IF to - from = 1 THEN p[from]
           ELSE Plus(sum[<<from, mid>>], sum[<<mid, to>>])
  IN sum[<<b, e>>]

\* exclusive_scan_merge at i, for p on b .. b+n-1: what lies in front of the
\* part of len that holds i; a right half has its left half added.
ExclusiveScan(p, b, n, i) ==
  LET down[len \in 1 .. 2 * n] ==
        LET from == b + 2 * len * ((i - b) \div (2 * len))
            mid == from + len
        IN IF len >= n THEN 0
           ELSE IF i < mid THEN down[2 * len]
           ELSE Plus(down[2 * len], SumRange(p, from, mid))
  IN down[1]

-----------------------------------------------------------------------------
(* segment_prefix_state_t: a binary counter of partial sums.  levels maps   *)
(* each active level to its sum.                                            *)

NoLevels == [l \in {} |-> 0]

\* From the highest level down.
Prefix(levels) ==
  LET top == Max(DOMAIN levels \cup {0})
      acc[l \in 0 .. top + 1] ==
        IF l > top THEN 0
        ELSE IF l \in DOMAIN levels THEN Plus(acc[l + 1], levels[l]) ELSE acc[l + 1]
  IN acc[0]

Push(levels, s) ==
  LET k == CHOOSE l \in 0 .. Cardinality(DOMAIN levels) :
             l \notin DOMAIN levels /\ 0 .. l - 1 \subseteq DOMAIN levels
      carry[l \in 0 .. k] == IF l = 0 THEN s ELSE Plus(levels[l - 1], carry[l - 1])
  IN [l \in {k} \cup {a \in DOMAIN levels : a > k} |-> IF l = k THEN carry[k] ELSE levels[l]]

-----------------------------------------------------------------------------
(* One segment. *)

\* pre_cdf: the inclusive sums of the segment [seg, seg+n) after head.
Cdf(p, seg, n, head) ==
  [i \in 0 .. n - 1 |->
     Plus(Plus(head, ExclusiveScan(p, seg, n, seg + i)), p[seg + i])]

\* resolve_in_segment: std::upper_bound, a binary search, whose result is
\* clamped to the segment.
Resolve(seg, cdf, n, tau) ==
  LET search[range \in (0 .. n) \X (0 .. n)] ==
        LET first == range[1]
            last == range[2]
            mid == first + (last - first) \div 2
        IN IF first >= last THEN first
           ELSE IF tau < cdf[mid] THEN search[<<first, mid>>]
           ELSE search[<<mid + 1, last>>]
      found == search[<<0, n>>]
  IN seg + (IF found = n THEN n - 1 ELSE found)

\* segment_cdf_t: the sums of the segment at seg, its own sum, and the sum up to
\* its end, for a block p and the prefix in front of the segment.
Size(p) == Cardinality(DOMAIN p)

PreCdf(p, seg, head) ==
  LET n == IF Size(p) - seg < SegLen THEN Size(p) - seg ELSE SegLen
      sum == SumRange(p, seg, seg + n)
  IN [cdf |-> Cdf(p, seg, n, head), sum |-> sum, tail |-> Plus(head, sum), n |-> n]

-----------------------------------------------------------------------------
(* The loop of sample_local_streaming.  A pass holds the segment in hand,   *)
(* the counter, the slot of that segment, the thresholds left and the rows  *)
(* so far.                                                                  *)

StartPass(p, taus) ==
  [seg |-> 0, levels |-> NoLevels, cur |-> PreCdf(p, 0, 0), taus |-> taus, rows |-> << >>]

PassGoesOn(p, pass) == pass.seg < Size(p) /\ pass.taus # << >>

\* Fault: the next slot is filled before the segment's sum is pushed.
NextSlotEarly(p, pass) ==
  IF pass.seg + SegLen < Size(p)
  THEN PreCdf(p, pass.seg + SegLen, Prefix(pass.levels)) ELSE pass.cur

\* The other slot: pre_cdf of the segment behind, if there is one.
NextSlot(p, pass) ==
  IF pass.seg + SegLen < Size(p)
  THEN PreCdf(p, pass.seg + SegLen, Prefix(Push(pass.levels, pass.cur.sum)))
  ELSE pass.cur

\* The thresholds below the end of the segment in hand, and their rows.
Below(pass) ==
  {i \in DOMAIN pass.taus : \A j \in 1 .. i : pass.taus[j] < pass.cur.tail}
RowsOf(pass) ==
  [i \in Below(pass) |-> Resolve(pass.seg, pass.cur.cdf, pass.cur.n, pass.taus[i])]

\* Fault: the pass stays in a segment for as long as thresholds are left.
PassStepStays(p, pass) ==
  [pass EXCEPT !.rows = @ \o RowsOf(pass),
               !.taus = SubSeq(@, Cardinality(Below(pass)) + 1, Len(@))]

\* One iteration, with consume_stream_in_segment: the thresholds below the end of
\* the segment leave the stream.
PassStep(p, pass) ==
  [seg |-> pass.seg + SegLen,
   levels |-> Push(pass.levels, pass.cur.sum),
   cur |-> NextSlot(p, pass),
   taus |-> SubSeq(pass.taus, Cardinality(Below(pass)) + 1, Len(pass.taus)),
   rows |-> pass.rows \o RowsOf(pass)]

\* The probability in front of each address of a block, without rounding.
InFront(p) ==
  LET front[x \in 0 .. Size(p)] == IF x = 0 THEN 0 ELSE front[x - 1] + p[x - 1]
  IN front

\* threshold_stream_t over [0, total): sorted thresholds, floats themselves.  That
\* advance() itself may round up to total is left out.
Floats(total) == {t \in 0 .. total - 1 : Round[t] = t}
Thresholds(total, cnt) ==
  {s \in [1 .. cnt -> Floats(total)] : \A i \in 1 .. cnt - 1 : s[i] <= s[i + 1]}
=============================================================================
