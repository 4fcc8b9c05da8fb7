------------------------------ MODULE Launcher ------------------------------
(***************************************************************************)
(* The launcher of the ADAE run stage, benchmarks/ADAE/run/scripts/         *)
(* run_all.py, and the children it starts, one per case (a family on a      *)
(* backend).  A child measures, writes raw_results.json and then            *)
(* summary.json into a directory of its own, and exits; the launcher polls  *)
(* it, collects what it wrote, and does not start a larger point of a sweep *)
(* on a backend on which a smaller one has timed out.  The launcher may be  *)
(* started again under the same run id: with --resume-existing it takes     *)
(* over the cases that have a summary.json.                                 *)
(*                                                                         *)
(* A crash of the job takes the launcher and its child; the files stay.     *)
(***************************************************************************)
EXTENDS Integers, Sequences, FiniteSets

CONSTANTS
  Cases,      \* in order: [sweep, n], the sweep on one backend
  NoSweep,    \* the sweep of a family that is not a point of one
  MaxLaunches \* bound: launches under one run id

ASSUME LauncherAssumption ==
  /\ Cases \in Seq([sweep : {Cases[i].sweep : i \in DOMAIN Cases}, n : Nat])
  /\ Cases # << >>
  /\ MaxLaunches \in Nat \ {0}

CaseIds == DOMAIN Cases
Sweeps == {Cases[c].sweep : c \in CaseIds} \ {NoSweep}

RowStatus == {"pass", "timeout", "error"}

\* The status of an entry of child_runs.
RecordStatus ==
  RowStatus \cup {"skipped_after_timeout", "skipped_existing", "launcher_error",
                 "gpu_mem_monitor_error", "gpu_mem_limit_exceeded"}

\* A results file: not there, cut short by a crash, or whole; a whole one has
\* the launch whose child wrote it and the status its rows add up to.
Absent == [state |-> "absent", by |-> 0, status |-> "error"]
Torn == [state |-> "torn", by |-> 0, status |-> "error"]
Whole(l, s) == [state |-> "whole", by |-> l, status |-> s]
File == {Absent, Torn} \cup {Whole(l, s) : l \in 1 .. MaxLaunches, s \in RowStatus}

NoCutoff == -1

\* A child is at work, or has left an exit code, 0 or another; "none": no child.
AtWork == {"measuring", "measured", "writing", "between", "writing_last", "written"}
Exits == {"passed", "failed", "crashed"}

VARIABLES
  stopOnError, timed, \* --stop-on-error; whether --timeout-s is given
  monitored,   \* whether the backends are in GPU_MEMORY_MONITOR_BACKENDS
  launch,      \* launches so far
  resume,      \* --resume-existing of this launch
  where,       \* where the launcher is
  case,        \* the case in hand
  cutoff,      \* timeout_cutoff_by_backend
  rows,        \* raw_rows: per case, [status, by] of its buckets
  errors,      \* the cases that errors has a row of
  records,     \* child_runs: per case, the statuses appended
  returncode,  \* what proc.poll() has returned, "none" for a running child
  expired,     \* the child's time is up
  raw, summary,\* the child's files, per case
  child,       \* what the child is doing, or how it ended
  outcome,     \* status of the child's rows, or "none"
  over,        \* history: cases killed for their GPU memory in this launch
  redone       \* history: cases with a summary that a launch has started again
               \* and not brought to a new summary

options == <<stopOnError, timed, monitored>>
files == <<raw, summary, redone>>
memory == <<cutoff, rows, errors, records, over>>
process == <<child, outcome, expired>>
vars == <<options, launch, resume, where, case, memory, returncode, process, files>>

NoCutoffs == [s \in Sweeps |-> NoCutoff]
NoRows == [c \in CaseIds |-> {}]
NoRecords == [c \in CaseIds |-> << >>]

Init ==
  /\ stopOnError \in BOOLEAN /\ timed \in BOOLEAN /\ monitored \in BOOLEAN
  /\ launch = 1 /\ resume \in BOOLEAN
  /\ where = "case" /\ case = 1
  /\ cutoff = NoCutoffs /\ rows = NoRows /\ records = NoRecords
  /\ errors = {} /\ over = {}
  /\ returncode = "none" /\ expired = FALSE
  /\ raw = [c \in CaseIds |-> Absent] /\ summary = [c \in CaseIds |-> Absent]
  /\ child = "none" /\ outcome = "none"
  /\ redone = {}
-----------------------------------------------------------------------------
\* Results.

\* raw_rows of one case: buckets that say who measured them.
Measured(f) == [status |-> f.status, by |-> f.by]
ErrorRow(s) == [status |-> s, by |-> 0]

\* Fault: the launcher's own timeouts count, those it reads in a summary do not.
CutoffOfKills(s) ==
  LET sweep == Cases[case].sweep
      n == Cases[case].n
  IN IF s = "timeout" /\ child # "none" /\ sweep # NoSweep
       THEN [cutoff EXCEPT ![sweep] = n] ELSE cutoff

\* _record_timeout_cutoff: the smallest point that timed out.
Cutoff(s) ==
  LET sweep == Cases[case].sweep
      n == Cases[case].n
  IN IF s = "timeout" /\ sweep # NoSweep /\ (cutoff[sweep] = NoCutoff \/ n < cutoff[sweep])
       THEN [cutoff EXCEPT ![sweep] = n] ELSE cutoff

\* The rest of the loop body, and the next case or the end.
GoOn(failed) ==
  /\ case' = case + 1
  /\ where' = IF (failed /\ stopOnError) \/ case = Len(Cases) THEN "done" ELSE "case"

Append1(status) == records' = [records EXCEPT ![case] = Append(@, status)]
AddRows(new) == rows' = [rows EXCEPT ![case] = @ \cup new]
AddErrors(yes) == errors' = IF yes THEN errors \cup {case} ELSE errors

\* The except clause.  A record that was appended before is appended again, and
\* both entries are the one object whose status it sets.
LauncherError(times, new) ==
  /\ records' = [records EXCEPT ![case] = [i \in 1 .. times |-> "launcher_error"]]
  /\ AddRows(new \cup {ErrorRow("error")})
  /\ AddErrors(TRUE)
  /\ GoOn(TRUE)
-----------------------------------------------------------------------------
\* Before a child is started.

BeyondCutoff ==
  LET sweep == Cases[case].sweep
  IN sweep # NoSweep /\ cutoff[sweep] # NoCutoff /\ Cases[case].n > cutoff[sweep]

SkipLarger ==
  /\ where = "case" /\ BeyondCutoff
  /\ AddRows({ErrorRow("timeout")}) /\ AddErrors(TRUE)
  /\ Append1("skipped_after_timeout")
  /\ GoOn(FALSE)
  /\ UNCHANGED <<options, launch, resume, cutoff, over, returncode, process, files>>

Resumable == resume /\ summary[case].state # "absent"

\* The cases that a launch with --resume-existing takes over.  Neither file is
\* read under a try: one that is cut short ends the launcher.
TakeOver ==
  /\ where = "case" /\ ~BeyondCutoff /\ Resumable
  /\ summary[case].state = "whole" /\ raw[case].state # "torn"
  /\ cutoff' = Cutoff(summary[case].status)
  /\ AddRows(IF raw[case] = Absent THEN {ErrorRow("error")} ELSE {Measured(raw[case])})
  /\ AddErrors(raw[case] = Absent)
  /\ Append1("skipped_existing")
  /\ GoOn(FALSE)
  /\ UNCHANGED <<options, launch, resume, over, returncode, process, files>>

Unreadable ==
  /\ where = "case" /\ ~BeyondCutoff /\ Resumable
  /\ summary[case].state = "torn" \/ raw[case].state = "torn"
  /\ where' = "dead"
  /\ UNCHANGED <<options, launch, resume, case, memory, returncode, process, files>>

\* Popen raises: no fork, no memory, or a limit that preexec_fn may not set.
StartFails ==
  /\ where = "case" /\ ~BeyondCutoff /\ ~Resumable
  /\ LauncherError(1, {})
  /\ UNCHANGED <<options, launch, resume, cutoff, over, returncode, process, files>>

Start ==
  /\ where = "case" /\ ~BeyondCutoff /\ ~Resumable
  /\ child' = "measuring"
  /\ where' = "poll"
  /\ redone' = IF summary[case] = Absent THEN redone ELSE redone \cup {case}
  /\ UNCHANGED <<options, launch, resume, case, memory, returncode, outcome, expired, raw, summary>>
-----------------------------------------------------------------------------
\* The child.  It may crash, or hang, wherever it is.

Alive == child \in AtWork

\* Warmups and repeats: an iteration over the budget, or an exception, ends them
\* with a row of that status.
Measure(s) ==
  /\ child = "measuring"
  /\ outcome' = s
  /\ child' = "measured"
  /\ UNCHANGED <<options, launch, resume, where, case, memory, returncode, expired, files>>

\* Fault: the summary is written first.
FilesSummaryFirst == <<"summary", "raw">>

\* write_run_outputs: the order of the two files.
Files == <<"raw", "summary">>

Holding(name, f) ==
  /\ raw' = IF name = "raw" THEN [raw EXCEPT ![case] = f] ELSE raw
  /\ summary' = IF name = "summary" THEN [summary EXCEPT ![case] = f] ELSE summary

\* write_text opens the i-th file, which empties it, and fills it.
OpenFile(i) ==
  /\ child = (IF i = 1 THEN "measured" ELSE "between")
  /\ child' = IF i = 1 THEN "writing" ELSE "writing_last"
  /\ Holding(Files[i], Torn)
  /\ UNCHANGED <<options, launch, resume, where, case, memory, returncode, outcome, expired, redone>>

FillFile(i) ==
  /\ child = (IF i = 1 THEN "writing" ELSE "writing_last")
  /\ child' = IF i = 1 THEN "between" ELSE "written"
  /\ Holding(Files[i], Whole(launch, outcome))
  /\ redone' = IF i = 2 THEN redone \ {case} ELSE redone
  /\ UNCHANGED <<options, launch, resume, where, case, memory, returncode, outcome, expired>>

\* Fault: the exit code does not tell of the errors.
ExitCodeZero == "passed"

ExitCode == IF outcome = "pass" THEN "passed" ELSE "failed"

Exit ==
  /\ child = "written"
  /\ child' = ExitCode
  /\ UNCHANGED <<options, launch, resume, where, case, memory, returncode, outcome, expired, files>>

\* An exception outside the measurements, a signal, a limit.
Crash ==
  /\ Alive
  /\ child' = "crashed"
  /\ UNCHANGED <<options, launch, resume, where, case, memory, returncode, outcome, expired, files>>

ChildStep ==
  \/ \E s \in RowStatus : Measure(s)
  \/ \E i \in 1 .. 2 : OpenFile(i) \/ FillFile(i)
  \/ Exit \/ Crash

\* The child's wall-clock time reaches --timeout-s.
Expire ==
  /\ timed /\ Alive /\ ~expired
  /\ expired' = TRUE
  /\ UNCHANGED <<options, launch, resume, where, case, memory, returncode, child, outcome, files>>
-----------------------------------------------------------------------------
\* _run_child_process, and what main makes of its answer.

Poll ==
  /\ where = "poll"
  /\ returncode' = IF Alive THEN "none" ELSE child
  /\ where' = IF monitored THEN "query" ELSE "decide"
  /\ UNCHANGED <<options, launch, resume, case, memory, process, files>>

\* nvidia-smi has an answer and it is below the limit.
QueryFine ==
  /\ where = "query"
  /\ where' = "decide"
  /\ UNCHANGED <<options, launch, resume, case, memory, returncode, process, files>>

\* The end of the child, and of what the launcher knows of it.
Kill ==
  /\ child' = "none" /\ outcome' = "none" /\ expired' = FALSE
  /\ returncode' = "none"

\* The answer of a child over the limit has no gpu_memory_monitor_error, which
\* main reads before it appends the record: a KeyError.
QueryOverLimit ==
  /\ where = "query" /\ Alive
  /\ Kill
  /\ LauncherError(1, {})
  /\ over' = over \cup {case}
  /\ UNCHANGED <<options, launch, resume, cutoff, files>>

QueryFails ==
  /\ where = "query"
  /\ Kill
  /\ Append1("gpu_mem_monitor_error")
  /\ AddRows({ErrorRow("error")}) /\ AddErrors(TRUE)
  /\ GoOn(TRUE)
  /\ UNCHANGED <<options, launch, resume, cutoff, over, files>>

\* Fault: the limit is not looked at while the GPU is monitored.
TimeIsUpUnmonitored == returncode = "none" /\ expired /\ ~monitored

TimeIsUp == returncode = "none" /\ expired

Sleep ==
  /\ where = "decide" /\ returncode = "none" /\ ~TimeIsUp
  /\ where' = "poll"
  /\ UNCHANGED <<options, launch, resume, case, memory, returncode, process, files>>

\* Whatever the child has written by now is left where it is.
KillLate ==
  /\ where = "decide" /\ TimeIsUp
  /\ Kill
  /\ cutoff' = Cutoff("timeout")
  /\ Append1("timeout")
  /\ AddRows({ErrorRow("timeout")}) /\ AddErrors(TRUE)
  /\ GoOn(TRUE)
  /\ UNCHANGED <<options, launch, resume, over, files>>

RawRows == IF raw[case] = Absent THEN {ErrorRow("error")} ELSE {Measured(raw[case])}

\* Fault: the errors of the summary are not taken over.
CollectedErrorsOfLauncher == raw[case] = Absent

\* The errors of the summary, and the launcher's own of a missing raw file.
CollectedErrors ==
  raw[case] = Absent \/ (summary[case].state = "whole" /\ summary[case].status # "pass")

SummaryTimedOut == summary[case].state = "whole" /\ summary[case].status = "timeout"

\* The status of the record: the exit code's, unless the summary has a timeout.
Verdict ==
  IF returncode = "passed" THEN "pass" ELSE IF SummaryTimedOut THEN "timeout" ELSE "error"

Collect ==
  /\ where = "decide" /\ returncode # "none"
  /\ raw[case].state # "torn" /\ summary[case].state # "torn"
  /\ Kill
  /\ AddRows(RawRows) /\ AddErrors(CollectedErrors)
  /\ cutoff' = Cutoff(IF SummaryTimedOut THEN "timeout" ELSE "pass")
  /\ Append1(Verdict)
  /\ GoOn(returncode # "passed")
  /\ UNCHANGED <<options, launch, resume, over, files>>

\* A file cut short: what was collected before it stays.
CollectTorn ==
  /\ where = "decide" /\ returncode # "none"
  /\ raw[case].state = "torn" \/ summary[case].state = "torn"
  /\ Kill
  /\ LauncherError(2, IF raw[case].state = "torn" THEN {} ELSE RawRows)
  /\ UNCHANGED <<options, launch, resume, cutoff, over, files>>
-----------------------------------------------------------------------------
\* The job ends while the launcher is at work.
JobCrash ==
  /\ where \notin {"done", "dead"}
  /\ where' = "dead" /\ Kill
  /\ UNCHANGED <<options, launch, resume, case, memory, files>>

\* A new launch under the same run id knows the files and nothing else.
Relaunch ==
  /\ where \in {"done", "dead"} /\ launch < MaxLaunches
  /\ launch' = launch + 1 /\ resume' \in BOOLEAN
  /\ where' = "case" /\ case' = 1
  /\ cutoff' = NoCutoffs /\ rows' = NoRows /\ records' = NoRecords
  /\ errors' = {} /\ over' = {}
  /\ UNCHANGED <<options, returncode, process, files>>

Stopped == where \in {"done", "dead"} /\ launch = MaxLaunches /\ UNCHANGED vars

LauncherStep ==
  \/ SkipLarger \/ TakeOver \/ Unreadable \/ Start \/ StartFails
  \/ Poll \/ QueryFine \/ QueryOverLimit \/ QueryFails
  \/ Sleep \/ KillLate \/ Collect \/ CollectTorn

Next == LauncherStep \/ ChildStep \/ Expire \/ JobCrash \/ Relaunch \/ Stopped

\* The launcher goes on as long as it lives, and time passes.  The child may hang.
Spec == Init /\ [][Next]_vars /\ WF_vars(LauncherStep) /\ WF_vars(Expire)
-----------------------------------------------------------------------------
\* The shape of the state.
TypeOK ==
  /\ stopOnError \in BOOLEAN /\ timed \in BOOLEAN /\ monitored \in BOOLEAN
  /\ resume \in BOOLEAN
  /\ launch \in 1 .. MaxLaunches
  /\ where \in {"case", "poll", "query", "decide", "done", "dead"}
  /\ case \in 1 .. Len(Cases) + 1
  /\ cutoff \in [Sweeps -> Nat \cup {NoCutoff}]
  /\ rows \in [CaseIds -> SUBSET [status : RowStatus, by : 0 .. MaxLaunches]]
  /\ errors \subseteq CaseIds /\ over \subseteq CaseIds /\ redone \subseteq CaseIds
  /\ records \in [CaseIds -> Seq(RecordStatus)]
  /\ returncode \in Exits \cup {"none"}
  /\ expired \in BOOLEAN
  /\ raw \in [CaseIds -> File] /\ summary \in [CaseIds -> File]
  /\ child \in AtWork \cup Exits \cup {"none"}
  /\ outcome \in RowStatus \cup {"none"}

\* Wherever a child or the job was cut off, behind a whole summary.json is the
\* raw_results.json of the same attempt: what --resume-existing takes for done is
\* done.  The exception is a case that a launch without that option has started over
\* and not brought to a new summary: its old summary stays, and what lies beside it
\* is its own rows, or the newer ones of an attempt that was cut off, whole or torn;
\* never older ones, and never none.
CommitOrder ==
  \A c \in CaseIds : summary[c].state = "whole" =>
    \/ raw[c] = summary[c]
    \/ /\ c \in redone
       /\ raw[c].state = "torn" \/ (raw[c].state = "whole" /\ raw[c].by > summary[c].by)

Recorded(c, status) == \E i \in DOMAIN records[c] : records[c][i] = status

\* A point of a sweep that this launch knows to have timed out.
KnownTimeout(c) ==
  \/ Recorded(c, "timeout")
  \/ Recorded(c, "skipped_existing") /\ summary[c].status = "timeout"

Smaller(b, c) ==
  Cases[b].sweep = Cases[c].sweep /\ Cases[b].sweep # NoSweep /\ Cases[b].n < Cases[c].n

Handed(c) == case = c /\ where \in {"poll", "query", "decide"}

\* Once a point of a sweep has timed out on a backend - killed by the launcher, by
\* its own budget, or in the launch that is resumed - no larger one is started
\* there or taken over, and nothing else is ever skipped.
CutoffRespected ==
  \A c \in CaseIds :
    /\ (Handed(c) \/ records[c] # << >>) /\ ~Recorded(c, "skipped_after_timeout") =>
         \A b \in 1 .. c - 1 : Smaller(b, c) => ~KnownTimeout(b)
    /\ Recorded(c, "skipped_after_timeout") =>
         \E b \in 1 .. c - 1 : Smaller(b, c) /\ KnownTimeout(b)

\* A case recorded as passed has the rows of the child of this launch, all of them
\* good.  One that was taken over has the rows in its raw_results.json, which is
\* there, and those are the ones its summary was made of, or, for a case that had
\* been started over, the rows of the later attempt.
RowsBelongToRecord ==
  \A c \in CaseIds :
    /\ Recorded(c, "pass") => rows[c] = {[status |-> "pass", by |-> launch]}
    /\ Recorded(c, "skipped_existing") =>
         /\ raw[c].state = "whole" /\ rows[c] = {Measured(raw[c])}
         /\ raw[c] = summary[c] \/ (c \in redone /\ raw[c].by > summary[c].by)

\* The exit code of the launch tells of every case with a bad row, but for those
\* that were taken over and those whose child died after raw_results.json and
\* before its summary.json.
ErrorsAreTold ==
  \A c \in CaseIds : (\E r \in rows[c] : r.status # "pass") =>
    c \in errors \/ Recorded(c, "skipped_existing") \/ summary[c].by # raw[c].by

\* With a time limit a launch ends, whatever its children do.
LaunchEnds == timed /\ where = "case" ~> where \in {"done", "dead"}

\* run/README.md:52: a case killed for its GPU memory is marked as such.
LimitIsReported == \A c \in over : Recorded(c, "gpu_mem_limit_exceeded")
=============================================================================
