----------------------------- MODULE MCLauncher -----------------------------
(* Cases for TLC: points of one sweep on one backend. *)
EXTENDS Launcher

Point(n) == [sweep |-> "sweep", n |-> n]
OnePoint == <<Point(2)>>
TwoPoints == <<Point(2), Point(3)>>

\* --resume-existing makes no difference to a first launch, which meets no file; the
\* last one of several has it, because what it starts over is never resumed.
Bounded ==
  /\ launch = 1 => ~resume
  /\ launch = MaxLaunches /\ MaxLaunches > 1 => resume
=============================================================================
