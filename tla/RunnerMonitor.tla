--------------------------- MODULE RunnerMonitor ---------------------------
(***************************************************************************)
(* The suite runner of scripts/run_common.py and the runner it watches,     *)
(* scripts/run_single_circuit.py.  run_suite starts one runner per circuit  *)
(* and hands it to monitor_runner_protocol, which reads the runner's two    *)
(* streams line by line, takes protocol messages from them, and kills a     *)
(* runner that has said nothing for Limit units of time since a message.    *)
(*                                                                         *)
(* Between the runner and readline() text lies in two places: the pipe,     *)
(* which select() sees, and the reader's own buffer, which it does not.     *)
(* The monitor's steps take no time; time passes while it waits.            *)
(***************************************************************************)
EXTENDS Integers, Sequences, FiniteSets

CONSTANTS
  Sizes,     \* the suite: the number of qubits of each circuit, in order
  Repeats,   \* executions of one circuit
  Limit,     \* timeout_s
  MaxForeign \* pieces of text per runner that are not protocol messages

ASSUME RunnerAssumption ==
  /\ Sizes \in Seq(Nat)
  /\ Repeats \in Nat
  /\ Limit \in Nat \ {0}
  /\ MaxForeign \in Nat

None == "none"
NoSize == -1
Streams == {"stdout", "stderr"}
Reports == {"pass", "error"}
Messages == {"ready", "progress"} \cup Reports

\* A stream carries lines: messages and foreign ones.  An "open" piece is a
\* line whose end has not been written; what follows it is its continuation.
Text == Messages \cup {"foreign", "open"}

VARIABLES
  skipLarger, \* run_suite's skip_larger_n_after_timeout
  case,       \* the circuit in hand
  rows,       \* results
  failures,
  skipAfter,  \* skip_after_timeout_n, or NoSize
  phase,      \* where run_suite and monitor_runner_protocol are
  registered, \* streams the selector still watches
  events,     \* streams select() returned, not read yet
  readySeen,
  quiet,      \* time since last_runner_output_at, up to Limit
  result,     \* status of result_payload, or None
  status,     \* what monitor_runner_protocol returns
  life,       \* of the runner
  left,       \* executions the runner has still to do
  foreign,    \* foreign pieces it has written
  pipe,       \* per stream: written, not read
  buf,        \* per stream: read, not returned by readline
  spoke,      \* history: time since the runner's last message, up to Limit
  reported,   \* history: the report it wrote, or None
  started     \* history: circuits a runner was started for

suite == <<skipLarger, case, rows, failures, skipAfter, started>>
monitor == <<registered, readySeen, result, status>>
runner == <<life, left, foreign, reported>>
text == <<pipe, buf>>
clock == <<quiet, spoke>>
vars == <<suite, phase, events, monitor, runner, text, clock>>

Empty == [s \in Streams |-> << >>]

Init ==
  /\ skipLarger \in BOOLEAN
  /\ case = 1 /\ rows = << >> /\ failures = 0 /\ skipAfter = NoSize
  /\ phase = "next" /\ events = << >>
  /\ registered = {} /\ readySeen = FALSE /\ result = None /\ status = None
  /\ life = "dead" /\ left = 0 /\ foreign = 0
  /\ pipe = Empty /\ buf = Empty
  /\ quiet = 0 /\ spoke = 0
  /\ reported = None /\ started = {}

Watching == phase \in {"loop", "select", "read"}
-----------------------------------------------------------------------------
\* The suite.

\* Fault: the size that timed out is skipped as well.
TooLargeOrEqual(n) == skipAfter # NoSize /\ n >= skipAfter

TooLarge(n) == skipAfter # NoSize /\ n > skipAfter

\* A circuit larger than one that timed out gets its row without a runner.
SkipCase ==
  /\ phase = "next" /\ case <= Len(Sizes)
  /\ TooLarge(Sizes[case])
  /\ rows' = Append(rows, "timeout")
  /\ failures' = failures + 1
  /\ case' = case + 1
  /\ UNCHANGED <<skipLarger, skipAfter, started, phase, events, monitor, runner, text, clock>>

\* Popen, and the prologue of monitor_runner_protocol.
StartCase ==
  /\ phase = "next" /\ case <= Len(Sizes)
  /\ ~TooLarge(Sizes[case])
  /\ phase' = "loop" /\ events' = << >>
  /\ registered' = Streams /\ readySeen' = FALSE /\ result' = None /\ status' = None
  /\ life' = "preparing" /\ left' = Repeats /\ foreign' = 0 /\ reported' = None
  /\ pipe' = Empty /\ buf' = Empty
  /\ quiet' = 0 /\ spoke' = 0
  /\ started' = started \cup {case}
  /\ UNCHANGED <<skipLarger, case, rows, failures, skipAfter>>

\* The row of a circuit whose runner was watched to its end.
RecordCase ==
  /\ phase = "record"
  /\ rows' = Append(rows, status)
  /\ failures' = IF status = "pass" THEN failures ELSE failures + 1
  /\ skipAfter' = IF status = "timeout" /\ skipLarger THEN Sizes[case] ELSE skipAfter
  /\ case' = case + 1
  /\ phase' = "next"
  /\ UNCHANGED <<skipLarger, started, events, monitor, runner, text, clock>>

\* The results are written; the exit code tells whether there were failures.
Finish ==
  /\ phase = "next" /\ case > Len(Sizes)
  /\ phase' = "done"
  /\ UNCHANGED <<suite, events, monitor, runner, text, clock>>
-----------------------------------------------------------------------------
\* The runner.

Open(s) == LET t == buf[s] \o pipe[s] IN t # << >> /\ t[Len(t)] = "open"

\* A message behind an open line is part of that line.
Say(m) ==
  /\ pipe' = [pipe EXCEPT !["stdout"] = Append(@, IF Open("stdout") THEN "foreign" ELSE m)]
  /\ spoke' = IF Open("stdout") THEN spoke ELSE 0

Ready ==
  /\ Watching /\ life = "preparing"
  /\ Say("ready")
  /\ life' = "running"
  /\ UNCHANGED <<suite, phase, events, monitor, left, foreign, reported, buf, quiet>>

Progress ==
  /\ Watching /\ life = "running" /\ left > 0
  /\ Say("progress")
  /\ left' = left - 1
  /\ UNCHANGED <<suite, phase, events, monitor, life, foreign, reported, buf, quiet>>

\* All executions done, or an exception at any point before: the last message.
Report(m) ==
  /\ Watching
  /\ \/ m = "pass" /\ life = "running" /\ left = 0
     \/ m = "error" /\ life \in {"preparing", "running"}
  /\ Say(m)
  /\ reported' = IF Open("stdout") THEN None ELSE m
  /\ life' = "exiting"
  /\ UNCHANGED <<suite, phase, events, monitor, left, foreign, buf, quiet>>

\* A library writes a line of its own, or a piece of one, to either stream.
WriteForeign(s, piece) ==
  /\ Watching /\ life # "dead" /\ foreign < MaxForeign
  /\ piece = "open" => ~Open(s)
  /\ pipe' = [pipe EXCEPT ![s] = Append(@, piece)]
  /\ foreign' = foreign + 1
  /\ UNCHANGED <<suite, phase, events, monitor, life, left, reported, buf, clock>>

\* The process ends, by itself or by a crash, at whatever point it has reached.
Die ==
  /\ Watching /\ life # "dead"
  /\ life' = "dead"
  /\ UNCHANGED <<suite, phase, events, monitor, left, foreign, reported, text, clock>>
-----------------------------------------------------------------------------
\* monitor_runner_protocol.

\* Fault: the limit no longer applies to a runner that has reported.
ExpiredUnreported == readySeen /\ result = None /\ quiet >= Limit

\* remaining_s is used up.
Expired == readySeen /\ quiet >= Limit

\* What select() reports: text in the pipe, or the end of it.
Readable(s) == s \in registered /\ (pipe[s] # << >> \/ life = "dead")

\* terminate_process, in the branch of the timeout and in finally.
Return(verdict) ==
  /\ status' = verdict
  /\ life' = "dead"
  /\ phase' = "record"
  /\ UNCHANGED <<suite, events, registered, readySeen, result, left, foreign, reported, text, clock>>

\* Both streams have ended: the result counts, if there was one.
BothEnded ==
  /\ phase = "loop" /\ registered = {}
  /\ Return(IF result = None THEN "error" ELSE result)

TimeOut ==
  /\ \/ phase = "loop" /\ registered # {}
     \/ phase = "select" /\ \A s \in Streams : ~Readable(s)
  /\ Expired
  /\ Return("timeout")

Select ==
  /\ phase = "loop" /\ registered # {} /\ ~Expired
  /\ phase' = "select"
  /\ UNCHANGED <<suite, events, monitor, runner, text, clock>>

\* select() returns the readable streams, in any order.
Wake ==
  /\ phase = "select"
  /\ \E order \in {<<s>> : s \in Streams} \cup {<<"stdout", "stderr">>, <<"stderr", "stdout">>} :
       /\ {s \in Streams : Readable(s)} = {order[i] : i \in DOMAIN order}
       /\ events' = order
  /\ phase' = "read"
  /\ UNCHANGED <<suite, monitor, runner, text, clock>>

\* The whole first line of a text; an open line ends with the piece after it.
HasLine(t) == t # << >> /\ t # <<"open">>
Line(t) == IF Head(t) = "open" THEN "foreign" ELSE Head(t)
Rest(t) == IF Head(t) = "open" THEN Tail(Tail(t)) ELSE Tail(t)

\* The text readline() looks for a line in: its buffer, and the pipe if there is
\* none in the buffer.
Reach(s) == IF HasLine(buf[s]) THEN buf[s] ELSE buf[s] \o pipe[s]

NextEvent ==
  /\ events' = Tail(events)
  /\ phase' = IF Tail(events) = << >> THEN "loop" ELSE "read"

\* Fault: progress does not put the deadline off.
HandleReports(line) ==
  /\ readySeen' = (readySeen \/ line = "ready")
  /\ result' = IF line \in Reports THEN line ELSE result
  /\ quiet' = IF line \in Messages \ {"progress"} THEN 0 ELSE quiet

\* A message puts the deadline off; a foreign line is ignored.
Handle(line) ==
  /\ readySeen' = (readySeen \/ line = "ready")
  /\ result' = IF line \in Reports THEN line ELSE result
  /\ quiet' = IF line \in Messages THEN 0 ELSE quiet

\* Fault: one line per chunk; what was read with it is lost.
ReadLineOnly(s) ==
  /\ HasLine(Reach(s))
  /\ Handle(Line(Reach(s)))
  /\ buf' = [buf EXCEPT ![s] = << >>]
  /\ pipe' = IF HasLine(buf[s]) THEN pipe ELSE [pipe EXCEPT ![s] = << >>]
  /\ UNCHANGED registered

\* readline() returns a line; what it has read beyond that stays in its buffer.
ReadLine(s) ==
  /\ HasLine(Reach(s))
  /\ Handle(Line(Reach(s)))
  /\ buf' = [buf EXCEPT ![s] = Rest(Reach(s))]
  /\ pipe' = IF HasLine(buf[s]) THEN pipe ELSE [pipe EXCEPT ![s] = << >>]
  /\ UNCHANGED registered

\* At the end of the stream it returns what is left of an open line, then "".
ReadEnd(s) ==
  /\ ~HasLine(Reach(s)) /\ life = "dead"
  /\ registered' = IF Reach(s) = << >> THEN registered \ {s} ELSE registered
  /\ buf' = [buf EXCEPT ![s] = << >>]
  /\ pipe' = [pipe EXCEPT ![s] = << >>]
  /\ UNCHANGED <<readySeen, result, quiet>>

Read ==
  /\ phase = "read"
  /\ LET s == Head(events) IN ReadLine(s) \/ ReadEnd(s)
  /\ NextEvent
  /\ UNCHANGED <<suite, status, runner, spoke>>

\* readline() waits for the end of an open line of a living runner.
Held == phase = "read" /\ ~HasLine(Reach(Head(events))) /\ life # "dead"

\* Time passes while the monitor waits in select() or in readline().
Later(t) == IF t < Limit THEN t + 1 ELSE t
Tick ==
  /\ \/ phase = "select" /\ ~Expired /\ \A s \in Streams : ~Readable(s)
     \/ Held
  /\ quiet' = Later(quiet)
  /\ spoke' = Later(spoke)
  /\ UNCHANGED <<suite, phase, events, monitor, runner, text>>
-----------------------------------------------------------------------------
SuiteStep == SkipCase \/ StartCase \/ RecordCase \/ Finish
MonitorStep == BothEnded \/ TimeOut \/ Select \/ Wake \/ Read
RunnerStep ==
  \/ Ready \/ Progress \/ Die
  \/ \E m \in Reports : Report(m)
  \/ \E s \in Streams : \E piece \in {"foreign", "open"} : WriteForeign(s, piece)

Stopped == phase = "done" /\ UNCHANGED vars

Next == SuiteStep \/ MonitorStep \/ RunnerStep \/ Tick \/ Stopped

\* run_suite and the monitor go on when they can, and time passes.  A runner
\* may stop anywhere: it may hang before, between and after its messages.
Fairness == WF_vars(SuiteStep) /\ WF_vars(MonitorStep) /\ WF_vars(Tick)

Spec == Init /\ [][Next]_vars /\ Fairness
-----------------------------------------------------------------------------
\* The shape of the state.
TypeOK ==
  /\ skipLarger \in BOOLEAN
  /\ case \in 1 .. Len(Sizes) + 1
  /\ rows \in Seq(Reports \cup {"timeout"})
  /\ failures \in Nat
  /\ skipAfter \in Nat \cup {NoSize}
  /\ phase \in {"next", "loop", "select", "read", "record", "done"}
  /\ registered \subseteq Streams
  /\ events \in Seq(Streams)
  /\ readySeen \in BOOLEAN
  /\ result \in Reports \cup {None}
  /\ status \in Reports \cup {"timeout", None}
  /\ life \in {"preparing", "running", "exiting", "dead"}
  /\ left \in 0 .. Repeats /\ foreign \in 0 .. MaxForeign
  /\ pipe \in [Streams -> Seq(Text)] /\ buf \in [Streams -> Seq(Text)]
  /\ quiet \in 0 .. Limit /\ spoke \in 0 .. Limit
  /\ reported \in Reports \cup {None}
  /\ started \subseteq DOMAIN Sizes

\* A runner is stopped for silence only when it has been silent for the whole
\* limit, unless a message it wrote has not been returned by readline() yet:
\* every message that was read has put the deadline off.
TimeoutMeansSilence ==
  phase = "record" /\ status = "timeout" =>
    \/ spoke = Limit
    \/ \E m \in Messages : \E i \in DOMAIN (buf["stdout"] \o pipe["stdout"]) :
         (buf["stdout"] \o pipe["stdout"])[i] = m

\* A report that reached the pipe as a line of its own decides the row, whatever
\* the runner wrote around it and however it died, unless it outlived the limit;
\* and no circuit passes without its own runner's report.
ReportIsRecorded ==
  phase = "record" =>
    /\ reported # None => status \in {reported, "timeout"}
    /\ reported = None => status \in {"error", "timeout"}

\* The rows account for the circuits one by one, the failure count for the rows;
\* a circuit is skipped exactly when one with fewer qubits has timed out before.
RowsAccount ==
  /\ Len(rows) = case - 1
  /\ failures = Cardinality({i \in DOMAIN rows : rows[i] # "pass"})
  /\ \A i \in DOMAIN rows :
       i \notin started <=>
         skipLarger /\ \E j \in 1 .. i - 1 :
           j \in started /\ rows[j] = "timeout" /\ Sizes[j] < Sizes[i]

\* A runner that has been ready once does not keep the suite waiting for ever,
\* unless it hangs in the middle of a line.
EndsAfterReady == (Watching /\ readySeen) ~> (~Watching \/ []Held)
=============================================================================
