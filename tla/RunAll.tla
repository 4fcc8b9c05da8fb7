------------------------------- MODULE RunAll -------------------------------
(***************************************************************************)
(* run_all.sh: the experiments of the artifact, one command after another   *)
(* under `set -e`.  A command runs one suite for one backend, writes its    *)
(* csv file whatever happened to its circuits, and answers with an exit     *)
(* code; run_suite of scripts/run_common.py is modelled in RunnerMonitor.   *)
(***************************************************************************)
EXTENDS Naturals, Sequences, SequencesExt

CONSTANTS
  Families,   \* the sweep families, in order
  Baselines,  \* the backends compared with zxh, in order
  Ablations,  \* the ablated backends, in order
  MaxLaunches \* bound: how often the script is started under the same run ids

Groups == {"baselines", "zxh", "p_batch", "ablations"}

\* run_near30 and run_sweeps.
Near30(backend) == <<[backend |-> backend, suite |-> "near30"]>>
Sweeps(backend) ==
  [i \in DOMAIN Families |-> [backend |-> backend, suite |-> Families[i]]]

\* The commands of a launch whose RUN_ variables select the groups gs.
Commands(gs) ==
  LET If(group, cmds) == IF group \in gs THEN cmds ELSE << >> IN
  If("baselines", FlattenSeq([i \in DOMAIN Baselines |->
                                Near30(Baselines[i]) \o Sweeps(Baselines[i])]))
  \o If("zxh", Near30("zxh") \o Sweeps("zxh"))
  \o If("p_batch", <<[backend |-> "zxh", suite |-> "p_batch"]>>)
  \o If("ablations", FlattenSeq([i \in DOMAIN Ablations |-> Sweeps(Ablations[i])]))

VARIABLES
  groups, \* the groups of this launch
  left,   \* its commands that have not run
  state,  \* "running", or how the script ended: "done" or "failed"
  launch, \* the number of this launch
  csv     \* per command, the launch that wrote its file, 0 if there is none

vars == <<groups, left, state, launch, csv>>

Init ==
  /\ groups \in SUBSET Groups
  /\ left = Commands(groups)
  /\ state = "running"
  /\ launch = 1
  /\ csv = [c \in ToSet(Commands(Groups)) |-> 0]

\* One suite, `unsolved` of whose circuits timed out or failed: its file is
\* written, its exit code is 1 if there were any, and `set -e` ends the script.
RunCommand(unsolved) ==
  /\ state = "running"
  /\ left # << >>
  /\ csv' = [csv EXCEPT ![Head(left)] = launch]
  /\ left' = Tail(left)
  /\ state' = IF unsolved = 0 THEN "running" ELSE "failed"
  /\ UNCHANGED <<groups, launch>>

EndOfScript ==
  /\ state = "running"
  /\ left = << >>
  /\ state' = "done"
  /\ UNCHANGED <<groups, left, launch, csv>>

\* The script is started again, perhaps for other groups; output/ is kept.
Relaunch(gs) ==
  /\ state # "running"
  /\ launch < MaxLaunches
  /\ groups' = gs
  /\ left' = Commands(gs)
  /\ state' = "running"
  /\ launch' = launch + 1
  /\ UNCHANGED csv

Next ==
  \/ \E unsolved \in 0 .. 1 : RunCommand(unsolved)
  \/ EndOfScript
  \/ \E gs \in SUBSET Groups : Relaunch(gs)

Spec == Init /\ [][Next]_vars
-----------------------------------------------------------------------------
\* What the README of the artifact says of a launch: the script runs every suite
\* of the groups it was asked for, and overwrites the csv files of earlier
\* launches under the same run ids; circuits that time out are rows of a file.
\* The code breaks it: the first suite with an unsolved circuit ends the script.
EverySuiteRuns ==
  state # "running" => \A i \in DOMAIN Commands(groups) : csv[Commands(groups)[i]] = launch
=============================================================================
