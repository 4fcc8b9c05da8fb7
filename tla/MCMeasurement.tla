--------------------------- MODULE MCMeasurement ---------------------------
(***************************************************************************)
(* Measurement on two ranks with exact sums, and on one with rounded sums.  *)
(***************************************************************************)
EXTENDS Measurement

CONSTANT Length \* the calls in a script

Block(seq) == [x \in 0 .. Len(seq) - 1 |-> seq[x + 1]]

\* Spread over both ranks, with addresses and whole segments of probability
\* zero; on the root alone; nothing on the root.
Spread == [r \in {0, 1} |-> IF r = 0 THEN Block(<<2, 0, 0, 1, 0, 0, 1, 0>>)
                                     ELSE Block(<<0, 1, 0, 0, 0, 0, 0, 2>>)]
OnRoot == [r \in {0, 1} |-> IF r = 0 THEN Block(<<1, 1>>) ELSE << >>]
OffRoot == [r \in {0, 1} |-> IF r = 0 THEN Block(<<0, 0, 0, 0>>) ELSE Block(<<1, 0, 0, 2>>)]

TwoRanks == {0, 1}
LittleAndMore == {1, 3}
MCCalls ==
  {CallExecute(s) : s \in {Spread, OnRoot, OffRoot}}
  \cup {CallMeasure(0), CallMeasure(2), CallGet}

\* Scripts end with a get and do not repeat one.
MCScripts ==
  {s \in [1 .. Length -> MCCalls] :
     /\ s[Length].op = "get"
     /\ \A i \in 1 .. Length - 1 : ~(s[i].op = "get" /\ s[i + 1].op = "get")}

\* One shot of one state of four addresses.
OneRank == {0}
Uneven == [r \in {0} |-> Block(<<3, 1, 1, 1>>)]
OneShot == {<<CallExecute(Uneven), CallMeasure(1), CallGet>>}
=============================================================================
