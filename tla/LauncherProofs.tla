--------------------------- MODULE LauncherProofs ---------------------------
(***************************************************************************)
(* Theorems about Launcher, for every selection of cases and any number of  *)
(* launches under one run id.                                              *)
(***************************************************************************)
EXTENDS Launcher, SequenceTheorems, TLAPS

Busy == where \in {"poll", "query", "decide"}
Working == where = "case" \/ Busy

\* The type invariant, and what the launcher and its child know of each other.
Shape ==
  /\ TypeOK
  /\ Working => case \in CaseIds
  /\ Busy <=> child # "none"
  /\ returncode # "none" => returncode = child /\ where \in {"query", "decide"}
  /\ child = "none" => outcome = "none"
  /\ child \notin {"none", "measuring", "crashed"} => outcome # "none"
  /\ \A c \in CaseIds : c >= case => rows[c] = {} /\ records[c] = << >> /\ c \notin errors

LEMMA CasesType ==
  /\ Len(Cases) \in Nat \ {0} /\ CaseIds = 1 .. Len(Cases)
  /\ \A c \in CaseIds : Cases[c].n \in Nat
  /\ \A c \in CaseIds : Cases[c].sweep # NoSweep => Cases[c].sweep \in Sweeps
<1>1. Len(Cases) \in Nat \ {0} /\ CaseIds = 1 .. Len(Cases)
  BY LauncherAssumption DEF CaseIds
<1>2. \A c \in CaseIds : Cases[c] \in [sweep : {Cases[i].sweep : i \in DOMAIN Cases}, n : Nat]
  <2>1. \A S : Cases \in Seq(S) => \A c \in DOMAIN Cases : Cases[c] \in S
    OBVIOUS
  <2>2. QED
    BY <2>1, LauncherAssumption DEF CaseIds
<1>3. \A c \in CaseIds : Cases[c].n \in Nat
  BY <1>2
<1>4. \A c \in CaseIds : Cases[c].sweep # NoSweep => Cases[c].sweep \in Sweeps
  BY DEF Sweeps
<1>5. QED
  BY <1>1, <1>3, <1>4

LEMMA FileType ==
  /\ Absent \in File /\ Torn \in File
  /\ \A l \in 1 .. MaxLaunches, s \in RowStatus : Whole(l, s) \in File
  /\ \A f \in File : f.status \in RowStatus /\ f.by \in 0 .. MaxLaunches /\ f.state \in {"absent", "torn", "whole"}
  /\ \A f \in File : f.state = "whole" => f.by # 0 /\ f = Whole(f.by, f.status)
  /\ \A f \in File : f.state = "absent" => f = Absent
  /\ \A f \in File : f.state # "whole" => f.by = 0
  /\ \A f \in File : f.by = 0 => f.status = "error"
<1>1. \A f \in File : \/ f = Absent \/ f = Torn
                      \/ \E l \in 1 .. MaxLaunches, s \in RowStatus : f = Whole(l, s)
  BY DEF File
<1>2. /\ Absent \in File /\ Torn \in File
      /\ \A l \in 1 .. MaxLaunches, s \in RowStatus : Whole(l, s) \in File
  BY DEF File
<1>3. ASSUME NEW l \in 1 .. MaxLaunches, NEW s \in RowStatus
      PROVE  LET f == Whole(l, s) IN
             f.status \in RowStatus /\ f.by \in 0 .. MaxLaunches /\ f.by # 0 /\ f.state = "whole"
               /\ f.by = l /\ f.status = s
  BY <1>3, LauncherAssumption DEF Whole
<1>4. /\ Absent.status = "error" /\ Absent.by = 0 /\ Absent.state = "absent"
      /\ Torn.status = "error" /\ Torn.by = 0 /\ Torn.state = "torn"
      /\ "error" \in RowStatus /\ 0 \in 0 .. MaxLaunches
  BY LauncherAssumption DEF Absent, Torn, RowStatus
<1>5. ASSUME NEW f \in File
      PROVE  /\ f.status \in RowStatus /\ f.by \in 0 .. MaxLaunches /\ f.state \in {"absent", "torn", "whole"}
             /\ f.state = "whole" => f.by # 0 /\ f = Whole(f.by, f.status)
             /\ f.state = "absent" => f = Absent
             /\ f.state # "whole" => f.by = 0
             /\ f.by = 0 => f.status = "error"
  <2>1. CASE f = Absent
    BY <1>4, <2>1
  <2>2. CASE f = Torn
    BY <1>4, <2>2
  <2>3. ASSUME NEW l \in 1 .. MaxLaunches, NEW s \in RowStatus, f = Whole(l, s)
        PROVE  f.status = s /\ f.by = l /\ f.state = "whole" /\ s \in RowStatus
                 /\ l \in 0 .. MaxLaunches /\ l # 0
    BY <1>3, <2>3, LauncherAssumption
  <2>4. QED
    BY <1>1, <2>1, <2>2, <2>3
<1>6. QED
  BY <1>2, <1>5

\* GoOn leaves the launcher without a case in hand, or with the next one.
LEMMA GoOnType ==
  ASSUME Shape, Working, NEW failed \in BOOLEAN, GoOn(failed)
  PROVE  /\ case' = case + 1 /\ case' \in 1 .. Len(Cases) + 1
         /\ where' \in {"case", "done"}
         /\ where' = "case" => case' \in CaseIds
<1>1. case \in 1 .. Len(Cases) /\ Len(Cases) \in Nat /\ CaseIds = 1 .. Len(Cases)
  BY CasesType DEF Shape
<1>2. case' = case + 1 /\ case' \in 1 .. Len(Cases) + 1
  BY <1>1 DEF GoOn
<1>3. where' \in {"case", "done"} /\ (where' = "case" => case # Len(Cases))
  BY DEF GoOn
<1>4. QED
  BY <1>1, <1>2, <1>3

LEMMA RowsType ==
  ASSUME Shape, NEW f \in File, NEW s \in RowStatus
  PROVE  /\ Measured(f) \in [status : RowStatus, by : 0 .. MaxLaunches]
         /\ ErrorRow(s) \in [status : RowStatus, by : 0 .. MaxLaunches]
<1>1. f.status \in RowStatus /\ f.by \in 0 .. MaxLaunches
  BY FileType
<1>2. 0 \in 0 .. MaxLaunches
  BY LauncherAssumption
<1>3. QED
  BY <1>1, <1>2 DEF Measured, ErrorRow

LEMMA CutoffType ==
  ASSUME Shape, Working, NEW s
  PROVE  Cutoff(s) \in [Sweeps -> Nat \cup {NoCutoff}]
  BY CasesType DEF Cutoff, Shape, TypeOK

\* What the steps that end a case have in common: its rows and its entries in
\* child_runs, which are all the same, and the end of its child.
Closing(status, times, new) ==
  /\ Working
  /\ \E failed \in BOOLEAN : GoOn(failed)
  /\ rows' = [rows EXCEPT ![case] = new]
  /\ records' = [records EXCEPT ![case] = [i \in 1 .. times |-> status]]
  /\ errors' \in {errors, errors \cup {case}}
  /\ over' \in {over, over \cup {case}}
  /\ cutoff' \in [Sweeps -> Nat \cup {NoCutoff}]
  /\ child' = "none" /\ outcome' = "none" /\ returncode' = "none" /\ expired' \in BOOLEAN
  /\ UNCHANGED <<options, launch, resume, files>>

LEMMA ShapeClosing ==
  ASSUME Shape, NEW status \in RecordStatus, NEW times \in Nat,
         NEW new \in SUBSET [status : RowStatus, by : 0 .. MaxLaunches],
         Closing(status, times, new)
  PROVE  Shape'
<1>1. case \in CaseIds /\ case \in Nat /\ CaseIds = 1 .. Len(Cases)
  BY CasesType DEF Closing, Shape, TypeOK
<1>2. [i \in 1 .. times |-> status] \in Seq(RecordStatus)
  OBVIOUS
<1>3. records' \in [CaseIds -> Seq(RecordStatus)]
  BY <1>1, <1>2 DEF Closing, Shape, TypeOK
<1>4. rows' \in [CaseIds -> SUBSET [status : RowStatus, by : 0 .. MaxLaunches]]
  BY <1>1 DEF Closing, Shape, TypeOK
<1>5. /\ case' = case + 1 /\ case' \in 1 .. Len(Cases) + 1 /\ where' \in {"case", "done"}
      /\ where' = "case" => case' \in CaseIds
  BY GoOnType DEF Closing
<1>6. errors' \subseteq CaseIds /\ over' \subseteq CaseIds
  BY <1>1 DEF Closing, Shape, TypeOK
<1>7. \A c \in CaseIds : c >= case' => rows'[c] = {} /\ records'[c] = << >> /\ c \notin errors'
  <2> SUFFICES ASSUME NEW c \in CaseIds, c >= case'
               PROVE  rows'[c] = {} /\ records'[c] = << >> /\ c \notin errors'
    OBVIOUS
  <2>1. c >= case /\ c # case
    BY <1>1, <1>5
  <2>2. rows'[c] = rows[c] /\ records'[c] = records[c] /\ (c \in errors' => c \in errors)
    BY <2>1 DEF Closing, Shape, TypeOK
  <2>3. QED
    BY <2>1, <2>2 DEF Shape
<1>8. TypeOK'
  BY <1>3, <1>4, <1>5, <1>6 DEF Closing, Shape, TypeOK, options, files
<1>9. QED
  BY <1>5, <1>7, <1>8 DEF Closing, Shape, Working, Busy

LEMMA ShapeInit == Init => Shape
<1> SUFFICES ASSUME Init PROVE Shape
  OBVIOUS
<1>1. case \in CaseIds /\ case \in 1 .. Len(Cases) + 1
  BY CasesType DEF Init
<1>2. launch \in 1 .. MaxLaunches
  BY LauncherAssumption DEF Init
<1>3. /\ cutoff \in [Sweeps -> Nat \cup {NoCutoff}]
      /\ rows \in [CaseIds -> SUBSET [status : RowStatus, by : 0 .. MaxLaunches]]
      /\ records \in [CaseIds -> Seq(RecordStatus)]
      /\ raw \in [CaseIds -> File] /\ summary \in [CaseIds -> File]
      /\ \A c \in CaseIds : rows[c] = {} /\ records[c] = << >>
  <2>1. << >> \in Seq(RecordStatus) /\ Absent \in File
    BY EmptySeq, FileType
  <2>2. QED
    BY <2>1 DEF Init, NoCutoffs, NoRows, NoRecords
<1>4. TypeOK
  BY <1>1, <1>2, <1>3 DEF Init, TypeOK
<1>5. QED
  BY <1>1, <1>3, <1>4 DEF Init, Shape, Working, Busy

\* A record appended to an empty list is the list of one entry.
LEMMA FirstRecord ==
  ASSUME Shape, Working, NEW s, Append1(s)
  PROVE  records' = [records EXCEPT ![case] = [i \in 1 .. 1 |-> s]]
<1>1. records[case] = << >> /\ case \in CaseIds
  BY CasesType DEF Shape
<1>2. Append(<< >>, s) = [i \in 1 .. 1 |-> s]
  OBVIOUS
<1>3. QED
  BY <1>1, <1>2 DEF Append1

LEMMA FirstRows ==
  ASSUME Shape, Working, NEW new, AddRows(new)
  PROVE  rows' = [rows EXCEPT ![case] = new]
<1>1. rows[case] = {} /\ case \in CaseIds
  BY CasesType DEF Shape
<1>2. rows[case] \cup new = new
  BY <1>1
<1>3. QED
  BY <1>2 DEF AddRows

\* The rows a child has left in raw_results.json.
LEMMA RawType ==
  ASSUME Shape, Working
  PROVE  /\ RawRows \in SUBSET [status : RowStatus, by : 0 .. MaxLaunches]
         /\ \A s \in RowStatus : {ErrorRow(s)} \in SUBSET [status : RowStatus, by : 0 .. MaxLaunches]
<1>1. raw[case] \in File /\ "error" \in RowStatus
  BY DEF Shape, TypeOK, RowStatus
<1>2. QED
  BY <1>1, RowsType DEF RawRows

LEMMA ClosingSteps ==
  ASSUME Shape
  PROVE  /\ SkipLarger => Closing("skipped_after_timeout", 1, {ErrorRow("timeout")})
         /\ TakeOver => Closing("skipped_existing", 1, RawRows)
         /\ StartFails => Closing("launcher_error", 1, {ErrorRow("error")})
         /\ QueryOverLimit => Closing("launcher_error", 1, {ErrorRow("error")})
         /\ QueryFails => Closing("gpu_mem_monitor_error", 1, {ErrorRow("error")})
         /\ KillLate => Closing("timeout", 1, {ErrorRow("timeout")})
         /\ Collect => Closing(Verdict, 1, RawRows)
         /\ CollectTorn => Closing("launcher_error", 2,
              (IF raw[case].state = "torn" THEN {} ELSE RawRows) \cup {ErrorRow("error")})
<1> USE DEF Closing, files, process, memory
<1>1. ASSUME SkipLarger PROVE Closing("skipped_after_timeout", 1, {ErrorRow("timeout")})
  <2>1. Working
    BY <1>1 DEF SkipLarger, Working
  <2>2. child = "none" /\ outcome = "none" /\ returncode = "none"
    BY <1>1 DEF SkipLarger, Shape, Busy
  <2>3. QED
    BY <1>1, <2>1, <2>2, FirstRows, FirstRecord DEF SkipLarger, AddErrors, Shape, TypeOK
<1>2. ASSUME TakeOver PROVE Closing("skipped_existing", 1, RawRows)
  <2>1. Working
    BY <1>2 DEF TakeOver, Working
  <2>2. child = "none" /\ outcome = "none" /\ returncode = "none"
    BY <1>2 DEF TakeOver, Shape, Busy
  <2>3. cutoff' \in [Sweeps -> Nat \cup {NoCutoff}]
    BY <1>2, <2>1, CutoffType DEF TakeOver
  <2>4. AddRows(RawRows)
    BY <1>2 DEF TakeOver, RawRows
  <2>5. QED
    BY <1>2, <2>1, <2>2, <2>3, <2>4, FirstRows, FirstRecord DEF TakeOver, AddErrors, Shape, TypeOK
<1>3. ASSUME QueryOverLimit PROVE Closing("launcher_error", 1, {ErrorRow("error")})
  <2>1. Working
    BY <1>3 DEF QueryOverLimit, Working, Busy
  <2>2. AddRows({ErrorRow("error")})
    BY <1>3 DEF QueryOverLimit, LauncherError, AddRows
  <2>3. QED
    BY <1>3, <2>1, <2>2, FirstRows DEF QueryOverLimit, LauncherError, Kill, AddErrors, Shape, TypeOK
<1>4. ASSUME QueryFails PROVE Closing("gpu_mem_monitor_error", 1, {ErrorRow("error")})
  <2>1. Working
    BY <1>4 DEF QueryFails, Working, Busy
  <2>2. QED
    BY <1>4, <2>1, FirstRows, FirstRecord DEF QueryFails, Kill, AddErrors, Shape, TypeOK
<1>5. ASSUME KillLate PROVE Closing("timeout", 1, {ErrorRow("timeout")})
  <2>1. Working
    BY <1>5 DEF KillLate, Working, Busy
  <2>2. cutoff' \in [Sweeps -> Nat \cup {NoCutoff}]
    BY <1>5, <2>1, CutoffType DEF KillLate
  <2>3. QED
    BY <1>5, <2>1, <2>2, FirstRows, FirstRecord DEF KillLate, Kill, AddErrors, Shape, TypeOK
<1>6. ASSUME Collect PROVE Closing(Verdict, 1, RawRows)
  <2>1. Working
    BY <1>6 DEF Collect, Working, Busy
  <2>2. cutoff' \in [Sweeps -> Nat \cup {NoCutoff}]
    BY <1>6, <2>1, CutoffType DEF Collect
  <2>3. QED
    BY <1>6, <2>1, <2>2, FirstRows, FirstRecord DEF Collect, Kill, AddErrors, Shape, TypeOK
<1>7. ASSUME CollectTorn
      PROVE  Closing("launcher_error", 2,
               (IF raw[case].state = "torn" THEN {} ELSE RawRows) \cup {ErrorRow("error")})
  <2>1. Working
    BY <1>7 DEF CollectTorn, Working, Busy
  <2>2. AddRows((IF raw[case].state = "torn" THEN {} ELSE RawRows) \cup {ErrorRow("error")})
    BY <1>7 DEF CollectTorn, LauncherError, AddRows
  <2>3. QED
    BY <1>7, <2>1, <2>2, FirstRows DEF CollectTorn, LauncherError, Kill, AddErrors, Shape, TypeOK
<1>8. ASSUME StartFails PROVE Closing("launcher_error", 1, {ErrorRow("error")})
  <2>1. Working
    BY <1>8 DEF StartFails, Working
  <2>2. child = "none" /\ outcome = "none" /\ returncode = "none"
    BY <1>8 DEF StartFails, Shape, Busy
  <2>3. AddRows({ErrorRow("error")})
    BY <1>8 DEF StartFails, LauncherError, AddRows
  <2>4. QED
    BY <1>8, <2>1, <2>2, <2>3, FirstRows DEF StartFails, LauncherError, AddErrors, Shape, TypeOK
<1>9. QED
  BY <1>1, <1>2, <1>3, <1>4, <1>5, <1>6, <1>7, <1>8

\* The steps between the start of a child and its end, and the end of the job.
InnerStep ==
  \/ Unreadable \/ Start \/ Poll \/ QueryFine \/ Sleep
  \/ ChildStep \/ Expire \/ JobCrash

ClosingStep ==
  \/ SkipLarger \/ TakeOver \/ StartFails \/ QueryOverLimit \/ QueryFails
  \/ KillLate \/ Collect \/ CollectTorn

LEMMA NextKinds == Next <=> InnerStep \/ ClosingStep \/ Relaunch \/ Stopped
  BY DEF Next, LauncherStep, InnerStep, ClosingStep

LEMMA ShapeClosingStep == Shape /\ ClosingStep => Shape'
<1> SUFFICES ASSUME Shape, ClosingStep PROVE Shape'
  OBVIOUS
<1> DEFINE Rows == SUBSET [status : RowStatus, by : 0 .. MaxLaunches]
<1>1. Working
  BY DEF ClosingStep, SkipLarger, TakeOver, StartFails, QueryOverLimit, QueryFails, KillLate, Collect,
         CollectTorn, Working, Busy
<1>2. RawRows \in Rows /\ {ErrorRow("error")} \in Rows /\ {ErrorRow("timeout")} \in Rows
  BY <1>1, RawType DEF RowStatus
<1>3. CASE Collect
  <2>1. Verdict \in {"pass", "timeout", "error"}
    BY DEF Verdict
  <2>2. Verdict \in RecordStatus
    BY <2>1 DEF RecordStatus, RowStatus
  <2>3. Closing(Verdict, 1, RawRows)
    BY <1>3, ClosingSteps
  <2>4. QED
    BY <1>2, <2>2, <2>3, ShapeClosing
<1>4. CASE CollectTorn
  <2> DEFINE new == (IF raw[case].state = "torn" THEN {} ELSE RawRows) \cup {ErrorRow("error")}
  <2>1. new \in Rows
    BY <1>2
  <2>2. Closing("launcher_error", 2, new) /\ "launcher_error" \in RecordStatus
    BY <1>4, ClosingSteps DEF RecordStatus
  <2> HIDE DEF new
  <2>3. QED
    BY <2>1, <2>2, ShapeClosing
<1>5. CASE TakeOver
  <2>1. Closing("skipped_existing", 1, RawRows) /\ "skipped_existing" \in RecordStatus
    BY <1>5, ClosingSteps DEF RecordStatus
  <2>2. QED
    BY <1>2, <2>1, ShapeClosing
<1>6. ASSUME NEW status \in RecordStatus, NEW s \in {"error", "timeout"},
             Closing(status, 1, {ErrorRow(s)})
      PROVE  Shape'
  BY <1>2, <1>6, ShapeClosing
<1>7. CASE SkipLarger \/ StartFails \/ QueryOverLimit \/ QueryFails \/ KillLate
  BY <1>6, <1>7, ClosingSteps DEF RecordStatus, RowStatus
<1>8. QED
  BY <1>3, <1>4, <1>5, <1>7 DEF ClosingStep

\* The steps of the launcher that do not end a case leave the tables alone.
LEMMA ShapeInner == Shape /\ InnerStep => Shape'
<1> SUFFICES ASSUME Shape, InnerStep PROVE Shape'
  OBVIOUS
<1> USE DEF Shape, TypeOK, Working, Busy, options, memory, process, files
<1>1. CASE Unreadable
  BY <1>1 DEF Unreadable
<1>2. CASE Start
  BY <1>2 DEF Start, AtWork, Exits
<1>3. CASE Poll
  BY <1>3 DEF Poll, Alive, AtWork, Exits
<1>4. CASE QueryFine
  BY <1>4 DEF QueryFine
<1>5. CASE Sleep
  BY <1>5 DEF Sleep
<1>6. ASSUME NEW s \in RowStatus, Measure(s) PROVE Shape'
  BY <1>6 DEF Measure, AtWork, Exits, RowStatus
<1>7. ASSUME NEW i \in 1 .. 2, OpenFile(i) \/ FillFile(i) PROVE Shape'
  <2>1. PICK f \in File : Holding(Files[i], f)
    <3>1. FillFile(i) => launch \in 1 .. MaxLaunches /\ outcome \in RowStatus
      BY DEF FillFile
    <3>2. QED
      BY <1>7, <3>1, FileType DEF OpenFile, FillFile
  <2>2. raw' \in [CaseIds -> File] /\ summary' \in [CaseIds -> File]
    BY <2>1 DEF Holding
  <2>3. /\ UNCHANGED <<options, launch, resume, where, case, memory, returncode, outcome, expired>>
        /\ child \in {"measured", "between", "writing", "writing_last"}
        /\ child' \in {"writing", "writing_last", "between", "written"}
        /\ redone' \subseteq CaseIds
    BY <1>7 DEF OpenFile, FillFile
  <2>4. QED
    BY <2>2, <2>3 DEF AtWork, Exits
<1>8. CASE Exit
  BY <1>8 DEF Exit, ExitCode, AtWork, Exits
<1>9. CASE Crash
  BY <1>9 DEF Crash, Alive, AtWork, Exits
<1>10. CASE Expire
  BY <1>10 DEF Expire
<1>11. CASE JobCrash
  BY <1>11 DEF JobCrash, Kill
<1>12. QED
  BY <1>1, <1>2, <1>3, <1>4, <1>5, <1>6, <1>7, <1>8, <1>9, <1>10, <1>11 DEF InnerStep, ChildStep

LEMMA ShapeRelaunch == Shape /\ Relaunch => Shape'
<1> SUFFICES ASSUME Shape, Relaunch PROVE Shape'
  OBVIOUS
<1>1. case' \in CaseIds /\ case' \in 1 .. Len(Cases) + 1 /\ launch' \in 1 .. MaxLaunches
  BY CasesType, LauncherAssumption DEF Relaunch, Shape, TypeOK
<1>2. << >> \in Seq(RecordStatus)
  BY EmptySeq
<1>3. /\ cutoff' \in [Sweeps -> Nat \cup {NoCutoff}]
      /\ rows' \in [CaseIds -> SUBSET [status : RowStatus, by : 0 .. MaxLaunches]]
      /\ records' \in [CaseIds -> Seq(RecordStatus)]
      /\ \A c \in CaseIds : rows'[c] = {} /\ records'[c] = << >>
  BY <1>2 DEF Relaunch, NoCutoffs, NoRows, NoRecords
<1>4. QED
  BY <1>1, <1>3 DEF Relaunch, Shape, TypeOK, Working, Busy, options, process, files

LEMMA ShapeStep == Shape /\ [Next]_vars => Shape'
<1>1. Shape /\ UNCHANGED vars => Shape'
  BY DEF Shape, TypeOK, Working, Busy, vars, options, memory, process, files
<1>2. QED
  BY <1>1, NextKinds, ShapeClosingStep, ShapeInner, ShapeRelaunch DEF Stopped

\* The state keeps its shape, whatever the cases and the number of launches.
THEOREM TypeCorrect == Spec => []TypeOK
<1>1. Shape => TypeOK
  BY DEF Shape
<1>2. QED
  BY <1>1, ShapeInit, ShapeStep, PTL DEF Spec
-----------------------------------------------------------------------------
(***************************************************************************)
(* The files.                                                              *)
(***************************************************************************)

\* How far a child has come with its two files.
Writing ==
  /\ CommitOrder
  /\ child \in {"measuring", "measured", "writing", "between"} /\ case \notin redone =>
       summary[case] = Absent
  /\ child \in {"between", "writing_last", "written", "passed", "failed"} =>
       raw[case] = Whole(launch, outcome)
  /\ child \in {"written", "passed", "failed"} =>
       summary[case] = Whole(launch, outcome) /\ case \notin redone
  /\ child \in {"passed", "failed"} => (child = "passed" <=> outcome = "pass")

\* Which launch wrote which file: two files of one launch agree, and this one has
\* not written yet what it is still going to write.
Authors ==
  /\ \A c \in CaseIds : /\ raw[c].by <= launch /\ summary[c].by <= launch
                        /\ raw[c].by = summary[c].by => raw[c].status = summary[c].status
  /\ Working => \A c \in CaseIds :
       c > case \/ (c = case /\ child \in {"none", "measuring", "measured", "writing"}) =>
         raw[c].by < launch /\ summary[c].by < launch
  /\ child = "between" => summary[case].by < launch

Files2 == Writing /\ Authors

LEMMA FilesInit == Init => Files2
<1> SUFFICES ASSUME Init PROVE Files2
  OBVIOUS
<1>1. \A c \in CaseIds : raw[c] = Absent /\ summary[c] = Absent
  BY DEF Init
<1>2. Absent.by = 0 /\ Absent.state = "absent" /\ launch = 1 /\ child = "none"
  BY DEF Init, Absent
<1>3. QED
  BY <1>1, <1>2 DEF Files2, Writing, Authors, CommitOrder, Absent

\* A step that leaves the files alone and the child without files to write.
LEMMA FilesKept ==
  ASSUME Shape, Files2, UNCHANGED <<files, launch>>,
         \/ child' = "none" /\ where' \notin {"case", "poll", "query", "decide"}
         \/ child' = "none" /\ Working /\ case' = case + 1
         \/ UNCHANGED <<child, case, outcome>> /\ (Working' => Working)
         \/ child' = "crashed" /\ UNCHANGED case /\ (Working' => Working)
         \/ child' = "measured" /\ child = "measuring" /\ UNCHANGED case /\ (Working' => Working)
         \/ child' = ExitCode /\ child = "written" /\ UNCHANGED <<case, outcome>> /\ (Working' => Working)
  PROVE  Files2'
<1>1. /\ raw' = raw /\ summary' = summary /\ redone' = redone /\ launch' = launch
      /\ CaseIds = 1 .. Len(Cases) /\ case \in Nat
  BY CasesType DEF files, Shape, TypeOK
<1>2. CommitOrder' /\ \A c \in CaseIds :
        /\ raw'[c].by <= launch' /\ summary'[c].by <= launch'
        /\ raw'[c].by = summary'[c].by => raw'[c].status = summary'[c].status
  BY <1>1 DEF Files2, Writing, CommitOrder, Authors
<1>3. CASE child' = "none" /\ where' \notin {"case", "poll", "query", "decide"}
  BY <1>2, <1>3 DEF Files2, Writing, Authors, Working, Busy
<1>4. CASE child' = "none" /\ Working /\ case' = case + 1
  <2>1. \A c \in CaseIds : c > case' \/ c = case' => c > case
    BY <1>1, <1>4
  <2>2. QED
    BY <1>1, <1>2, <1>4, <2>1 DEF Files2, Writing, Authors
<1>5. CASE UNCHANGED <<child, case, outcome>> /\ (Working' => Working)
  BY <1>1, <1>2, <1>5 DEF Files2, Writing, Authors
<1>6. CASE child' = "crashed" /\ UNCHANGED case /\ (Working' => Working)
  BY <1>1, <1>2, <1>6 DEF Files2, Writing, Authors
<1>7. CASE child' = "measured" /\ child = "measuring" /\ UNCHANGED case /\ (Working' => Working)
  BY <1>1, <1>2, <1>7 DEF Files2, Writing, Authors
<1>8. CASE child' = ExitCode /\ child = "written" /\ UNCHANGED <<case, outcome>> /\ (Working' => Working)
  BY <1>1, <1>2, <1>8 DEF Files2, Writing, Authors, ExitCode
<1>9. QED
  BY <1>3, <1>4, <1>5, <1>6, <1>7, <1>8

LEMMA FilesStart == Shape /\ Files2 /\ Start => Files2'
<1> SUFFICES ASSUME Shape, Files2, Start PROVE Files2'
  OBVIOUS
<1>1. /\ UNCHANGED <<raw, summary, launch, case>> /\ child' = "measuring" /\ child = "none" /\ Working
      /\ redone' = IF summary[case] = Absent THEN redone ELSE redone \cup {case}
  BY DEF Start, Shape, Busy, Working
<1>2. CommitOrder'
  BY <1>1 DEF Files2, Writing, CommitOrder
<1>3. QED
  BY <1>1, <1>2 DEF Files2, Writing, Authors

\* The first file is opened and filled, then the second.
LEMMA FilesWrite ==
  ASSUME Shape, Files2, NEW i \in 1 .. 2, OpenFile(i) \/ FillFile(i)
  PROVE  Files2'
<1>1. /\ UNCHANGED <<launch, where, case, outcome>> /\ child \in AtWork /\ Busy /\ Working
      /\ case \in CaseIds /\ launch \in Nat \ {0} /\ launch \in 1 .. MaxLaunches
      /\ Files[1] = "raw" /\ Files[2] = "summary" /\ (i = 1 \/ i = 2)
  BY DEF OpenFile, FillFile, AtWork, Shape, TypeOK, Busy, Working, Files
<1>2. /\ raw[case] \in File /\ summary[case] \in File
      /\ raw \in [CaseIds -> File] /\ summary \in [CaseIds -> File]
  BY <1>1 DEF Shape, TypeOK
<1>3. /\ Torn.by = 0 /\ Torn.status = "error" /\ Torn.state = "torn" /\ Absent.state = "absent" /\ Absent.by = 0
      /\ \A s : Whole(launch, s).by = launch /\ Whole(launch, s).status = s /\ Whole(launch, s).state = "whole"
  BY DEF Torn, Absent, Whole
<1>4. raw[case].by \in Nat /\ summary[case].by \in Nat
  BY <1>2, FileType
<1>5. CASE i = 1 /\ OpenFile(i)
  <2>1. /\ child = "measured" /\ child' = "writing" /\ redone' = redone
        /\ raw' = [raw EXCEPT ![case] = Torn] /\ summary' = summary
    BY <1>1, <1>5 DEF OpenFile, Holding
  <2>2. raw'[case] = Torn /\ \A c \in CaseIds \ {case} : raw'[c] = raw[c]
    BY <1>1, <1>2, <2>1
  <2>3. raw'[case].by = summary[case].by => summary[case].status = "error"
    BY <1>2, <1>3, <2>2, FileType
  <2>4. CommitOrder'
    <3>1. summary[case].state = "whole" => case \in redone
      BY <1>3, <2>1 DEF Files2, Writing
    <3>2. QED
      BY <1>3, <2>1, <2>2, <3>1 DEF Files2, Writing, CommitOrder
  <2>5. Authors'
    BY <1>1, <1>3, <1>4, <2>1, <2>2, <2>3 DEF Files2, Authors, Working, Busy
  <2>6. QED
    BY <1>1, <2>1, <2>4, <2>5 DEF Files2, Writing
<1>6. CASE i = 1 /\ FillFile(i)
  <2>1. /\ child = "writing" /\ child' = "between" /\ redone' = redone
        /\ raw' = [raw EXCEPT ![case] = Whole(launch, outcome)] /\ summary' = summary
    BY <1>1, <1>6 DEF FillFile, Holding
  <2>2. raw'[case] = Whole(launch, outcome) /\ \A c \in CaseIds \ {case} : raw'[c] = raw[c]
    BY <1>1, <1>2, <2>1
  <2>3. summary[case].by < launch
    BY <1>1, <2>1 DEF Files2, Authors
  <2>4. CommitOrder'
    <3>1. summary[case].state = "whole" => case \in redone
      BY <1>3, <2>1 DEF Files2, Writing
    <3>2. raw'[case].state = "whole" /\ raw'[case].by > summary[case].by
      BY <1>1, <1>3, <1>4, <2>2, <2>3
    <3>3. QED
      BY <2>1, <2>2, <3>1, <3>2 DEF Files2, Writing, CommitOrder
  <2>5. Authors'
    <3>1. raw'[case].by = launch /\ raw'[case].by # summary[case].by
      BY <1>1, <1>3, <1>4, <2>2, <2>3
    <3>2. \A c \in CaseIds :
            /\ raw'[c].by <= launch' /\ summary'[c].by <= launch'
            /\ raw'[c].by = summary'[c].by => raw'[c].status = summary'[c].status
      BY <1>1, <2>1, <2>2, <3>1 DEF Files2, Authors
    <3>3. \A c \in CaseIds : c > case => raw'[c].by < launch /\ summary[c].by < launch
      <4>1. \A c \in CaseIds : c > case => c # case
        BY <1>1, CasesType
      <4>2. QED
        BY <1>1, <2>2, <4>1 DEF Files2, Authors
    <3>4. \A c \in CaseIds : c > case' \/ (c = case' /\ child' \in {"none", "measuring", "measured", "writing"}) =>
            raw'[c].by < launch' /\ summary'[c].by < launch'
      <4>1. case' = case /\ launch' = launch /\ summary' = summary
              /\ child' \notin {"none", "measuring", "measured", "writing"}
        BY <1>1, <2>1
      <4>2. QED
        BY <3>3, <4>1
    <3>5. child' = "between" => summary'[case'].by < launch'
      BY <1>1, <2>1, <2>3
    <3>6. QED
      BY <3>2, <3>4, <3>5 DEF Authors
  <2>6. QED
    BY <1>1, <2>1, <2>2, <2>4, <2>5 DEF Files2, Writing
<1>7. CASE i = 2 /\ OpenFile(i)
  <2>1. /\ child = "between" /\ child' = "writing_last" /\ redone' = redone
        /\ summary' = [summary EXCEPT ![case] = Torn] /\ raw' = raw
    BY <1>1, <1>7 DEF OpenFile, Holding
  <2>2. summary'[case] = Torn /\ \A c \in CaseIds \ {case} : summary'[c] = summary[c]
    BY <1>1, <1>2, <2>1
  <2>3. raw[case] = Whole(launch, outcome)
    BY <2>1 DEF Files2, Writing
  <2>4. CommitOrder'
    BY <1>3, <2>1, <2>2 DEF Files2, Writing, CommitOrder
  <2>5. Authors'
    BY <1>1, <1>3, <1>4, <2>1, <2>2, <2>3 DEF Files2, Authors, Working, Busy
  <2>6. QED
    BY <1>1, <2>1, <2>3, <2>4, <2>5 DEF Files2, Writing
<1>8. CASE i = 2 /\ FillFile(i)
  <2>1. /\ child = "writing_last" /\ child' = "written" /\ redone' = redone \ {case}
        /\ summary' = [summary EXCEPT ![case] = Whole(launch, outcome)] /\ raw' = raw
    BY <1>1, <1>8 DEF FillFile, Holding
  <2>2. summary'[case] = Whole(launch, outcome) /\ \A c \in CaseIds \ {case} : summary'[c] = summary[c]
    BY <1>1, <1>2, <2>1
  <2>3. raw[case] = Whole(launch, outcome)
    BY <2>1 DEF Files2, Writing
  <2>4. CommitOrder'
    BY <1>3, <2>1, <2>2, <2>3 DEF Files2, Writing, CommitOrder
  <2>5. Authors'
    BY <1>1, <1>3, <1>4, <2>1, <2>2, <2>3 DEF Files2, Authors, Working, Busy
  <2>6. QED
    BY <1>1, <2>1, <2>2, <2>3, <2>4, <2>5 DEF Files2, Writing
<1>9. QED
  BY <1>1, <1>5, <1>6, <1>7, <1>8

LEMMA FilesClosing == Shape /\ Files2 /\ ClosingStep => Files2'
<1> SUFFICES ASSUME Shape, Files2, ClosingStep PROVE Files2'
  OBVIOUS
<1>1. PICK status, times, new : Closing(status, times, new)
  BY ClosingSteps DEF ClosingStep
<1>2. UNCHANGED <<files, launch>> /\ child' = "none" /\ Working /\ case' = case + 1
  BY <1>1 DEF Closing, GoOn
<1>3. QED
  BY <1>2, FilesKept

LEMMA FilesInner == Shape /\ Files2 /\ InnerStep => Files2'
<1> SUFFICES ASSUME Shape, Files2, InnerStep PROVE Files2'
  OBVIOUS
<1>1. CASE Unreadable
  <2>1. child = "none"
    BY <1>1 DEF Unreadable, Shape, Busy
  <2>2. QED
    BY <1>1, <2>1, FilesKept DEF Unreadable, process
<1>2. CASE Start
  BY <1>2, FilesStart
<1>3. CASE Poll \/ QueryFine \/ Sleep \/ Expire
  BY <1>3, FilesKept DEF Poll, QueryFine, Sleep, Expire, process, Working, Busy
<1>4. ASSUME NEW s \in RowStatus, Measure(s) PROVE Files2'
  BY <1>4, FilesKept DEF Measure, Working, Busy
<1>5. ASSUME NEW i \in 1 .. 2, OpenFile(i) \/ FillFile(i) PROVE Files2'
  BY <1>5, FilesWrite
<1>6. CASE Exit
  BY <1>6, FilesKept DEF Exit, Working, Busy
<1>7. CASE Crash
  BY <1>7, FilesKept DEF Crash, Working, Busy
<1>8. CASE JobCrash
  BY <1>8, FilesKept DEF JobCrash, Kill
<1>9. QED
  BY <1>1, <1>2, <1>3, <1>4, <1>5, <1>6, <1>7, <1>8 DEF InnerStep, ChildStep

LEMMA FilesRelaunch == Shape /\ Files2 /\ Relaunch => Files2'
<1> SUFFICES ASSUME Shape, Files2, Relaunch PROVE Files2'
  OBVIOUS
<1>1. /\ UNCHANGED <<raw, summary, redone>> /\ launch' = launch + 1 /\ launch \in Nat
      /\ child = "none" /\ child' = "none"
  BY DEF Relaunch, Shape, TypeOK, Busy, files, process
<1>2. \A c \in CaseIds : raw[c].by \in Nat /\ summary[c].by \in Nat
  BY FileType DEF Shape, TypeOK
<1>3. \A c \in CaseIds : raw[c].by < launch' /\ summary[c].by < launch'
  BY <1>1, <1>2 DEF Files2, Authors
<1>4. QED
  BY <1>1, <1>2, <1>3 DEF Files2, Writing, CommitOrder, Authors

LEMMA FilesStep == Shape /\ Files2 /\ [Next]_vars => Files2'
<1>1. Shape /\ Files2 /\ UNCHANGED vars => Files2'
  BY FilesKept DEF vars, process, Working, Busy
<1>2. QED
  BY <1>1, NextKinds, FilesClosing, FilesInner, FilesRelaunch DEF Stopped

\* The summary of a case is its commit, in any number of launches: behind a whole one
\* is the raw_results.json of the same attempt, wherever a child or the job was cut
\* off; or, if a launch without --resume-existing has started the case over and not
\* brought it to a new summary, that of the later attempt, which may be cut short.
THEOREM SummaryCommits == Spec => []CommitOrder
<1>1. Files2 => CommitOrder
  BY DEF Files2, Writing
<1>2. QED
  BY <1>1, ShapeInit, ShapeStep, FilesInit, FilesStep, PTL DEF Spec
-----------------------------------------------------------------------------
(***************************************************************************)
(* The tables of a launch.                                                 *)
(***************************************************************************)

\* Nothing is known of the case in hand and of the cases after it.
LEMMA NotYet ==
  ASSUME Shape, NEW c \in CaseIds, c >= case
  PROVE  rows[c] = {} /\ ~KnownTimeout(c) /\ \A s : ~Recorded(c, s)
<1>1. rows[c] = {} /\ records[c] = << >>
  BY DEF Shape
<1>2. \A s : ~Recorded(c, s)
  BY <1>1 DEF Recorded
<1>3. QED
  BY <1>1, <1>2 DEF KnownTimeout

\* What the end of a case leaves behind for it, and for the others.
LEMMA Closed ==
  ASSUME Shape, NEW status, NEW times \in Nat \ {0}, NEW new, Closing(status, times, new)
  PROVE  /\ case \in CaseIds /\ case \in Nat /\ case' = case + 1 /\ where' \in {"case", "done"}
         /\ rows'[case] = new /\ records'[case] # << >>
         /\ \A c \in CaseIds : c = case => \A s : Recorded(c, s)' <=> s = status
         /\ \A c \in CaseIds \ {case} :
              /\ rows'[c] = rows[c] /\ records'[c] = records[c]
              /\ c \in errors' <=> c \in errors
              /\ \A s : Recorded(c, s)' <=> Recorded(c, s)
              /\ KnownTimeout(c)' <=> KnownTimeout(c)
         /\ UNCHANGED <<launch, raw, summary, redone>>
<1>1. case \in CaseIds /\ case \in Nat /\ case' = case + 1 /\ where' \in {"case", "done"}
  BY CasesType DEF Closing, GoOn, Shape
<1>2. UNCHANGED <<launch, raw, summary, redone>>
  BY DEF Closing, files
<1>3. rows'[case] = new /\ records'[case] = [i \in 1 .. times |-> status]
  BY <1>1 DEF Closing, Shape, TypeOK
<1>4. DOMAIN records'[case] = 1 .. times /\ 1 \in 1 .. times
  BY <1>3
<1>5. records'[case] # << >>
  BY <1>4
<1>6. ASSUME NEW c \in CaseIds, c = case
      PROVE  \A s : Recorded(c, s)' <=> s = status
  <2>1. \A s : Recorded(c, s)' <=> \E i \in DOMAIN records'[case] : records'[case][i] = s
    BY <1>6 DEF Recorded
  <2>2. QED
    BY <2>1, <1>3, <1>4
<1>7. \A c \in CaseIds \ {case} :
        /\ rows'[c] = rows[c] /\ records'[c] = records[c]
        /\ c \in errors' <=> c \in errors
  BY <1>1 DEF Closing, Shape, TypeOK
<1>8. \A c \in CaseIds \ {case} : \A s : Recorded(c, s)' <=> Recorded(c, s)
  BY <1>7 DEF Recorded
<1>9. \A c \in CaseIds \ {case} : KnownTimeout(c)' <=> KnownTimeout(c)
  BY <1>2, <1>8 DEF KnownTimeout
<1>10. QED
  BY <1>1, <1>2, <1>3, <1>5, <1>6, <1>7, <1>8, <1>9

\* The steps within a case touch no table, and no file of another case.
LEMMA Within ==
  ASSUME Shape, InnerStep \/ UNCHANGED vars
  PROVE  /\ UNCHANGED <<case, launch, rows, errors, records, cutoff>>
         /\ \A c \in CaseIds \ {case} :
              raw'[c] = raw[c] /\ summary'[c] = summary[c] /\ (c \in redone' <=> c \in redone)
<1> USE DEF memory, files
<1>1. UNCHANGED <<case, launch, memory>>
  <2>1. ChildStep => UNCHANGED <<case, launch, memory>>
    BY DEF ChildStep, Measure, OpenFile, FillFile, Exit, Crash
  <2>2. Unreadable \/ Start \/ Poll \/ QueryFine \/ Sleep => UNCHANGED <<case, launch, memory>>
    BY DEF Unreadable, Start, Poll, QueryFine, Sleep
  <2>3. Expire \/ JobCrash \/ UNCHANGED vars => UNCHANGED <<case, launch, memory>>
    BY DEF Expire, JobCrash, vars
  <2>4. QED
    BY <2>1, <2>2, <2>3 DEF InnerStep
<1>2. CASE UNCHANGED files \/ Start
  BY <1>1, <1>2 DEF Start
<1>3. ASSUME NEW i \in 1 .. 2, OpenFile(i) \/ FillFile(i)
      PROVE  \A c \in CaseIds \ {case} :
               raw'[c] = raw[c] /\ summary'[c] = summary[c] /\ (c \in redone' <=> c \in redone)
  <2>1. /\ (\E f : Holding(Files[i], f)) /\ (redone' = redone \/ redone' = redone \ {case})
    BY <1>3 DEF OpenFile, FillFile
  <2>2. QED
    BY <2>1 DEF Holding, Shape, TypeOK
<1>4. UNCHANGED files \/ Start \/ \E i \in 1 .. 2 : OpenFile(i) \/ FillFile(i)
  BY DEF InnerStep, ChildStep, Unreadable, Poll, QueryFine, Sleep, Measure,
         Exit, Crash, Expire, JobCrash, vars
<1>5. QED
  BY <1>1, <1>2, <1>3, <1>4

LEMMA WithinKnown ==
  ASSUME Shape, Shape', InnerStep \/ UNCHANGED vars, NEW c \in CaseIds
  PROVE  /\ KnownTimeout(c)' <=> KnownTimeout(c)
         /\ \A s : Recorded(c, s)' <=> Recorded(c, s)
<1>1. \A s : Recorded(c, s)' <=> Recorded(c, s)
  BY Within DEF Recorded
<1>2. CASE c # case
  BY <1>1, <1>2, Within DEF KnownTimeout
<1>3. CASE c = case
  <2>1. \A s : ~Recorded(c, s)
    BY <1>3, NotYet, CasesType
  <2>2. QED
    BY <1>1, <2>1 DEF KnownTimeout
<1>4. QED
  BY <1>2, <1>3

\* The rows of a case that is taken over: what its raw_results.json holds.
TakenOver(c, new) ==
  /\ raw[c].state = "whole" /\ new = {Measured(raw[c])}
  /\ raw[c] = summary[c] \/ (c \in redone /\ raw[c].by > summary[c].by)

\* What the steps that end a case record.
LEMMA RowsOfClosing ==
  ASSUME Shape, Files2, ClosingStep
  PROVE  \E status, new : \E times \in Nat \ {0} :
           /\ Closing(status, times, new)
           /\ status = "pass" => new = {[status |-> "pass", by |-> launch]}
           /\ status = "skipped_existing" => TakenOver(case, new)
           /\ (\E r \in new : r.status # "pass") =>
                case \in errors' \/ status = "skipped_existing" \/ summary[case].by # raw[case].by
<1>1. Working
  BY DEF ClosingStep, SkipLarger, TakeOver, StartFails, QueryOverLimit, QueryFails, KillLate, Collect,
         CollectTorn, Working, Busy
<1>2. case \in CaseIds /\ raw[case] \in File /\ summary[case] \in File
  BY <1>1 DEF Shape, TypeOK
<1>3. CASE SkipLarger
  <2>1. Closing("skipped_after_timeout", 1, {ErrorRow("timeout")}) /\ case \in errors'
    BY <1>3, ClosingSteps DEF SkipLarger, AddErrors
  <2>2. QED
    BY <2>1
<1>4. CASE TakeOver
  <2>1. Closing("skipped_existing", 1, RawRows)
    BY <1>4, ClosingSteps
  <2>2. summary[case].state = "whole" /\ raw[case].state # "torn"
    BY <1>4 DEF TakeOver
  <2>3. /\ raw[case].state = "whole"
        /\ raw[case] = summary[case] \/ (case \in redone /\ raw[case].by > summary[case].by)
    BY <1>2, <2>2 DEF Files2, Writing, CommitOrder
  <2>4. RawRows = {Measured(raw[case])}
    BY <2>3 DEF RawRows, Absent
  <2>5. TakenOver(case, RawRows)
    BY <2>3, <2>4 DEF TakenOver
  <2>6. QED
    BY <2>1, <2>5
<1>5. CASE QueryOverLimit
  <2>1. Closing("launcher_error", 1, {ErrorRow("error")}) /\ case \in errors'
    BY <1>5, ClosingSteps DEF QueryOverLimit, LauncherError, AddErrors
  <2>2. QED
    BY <2>1
<1>6. CASE QueryFails
  <2>1. Closing("gpu_mem_monitor_error", 1, {ErrorRow("error")}) /\ case \in errors'
    BY <1>6, ClosingSteps DEF QueryFails, AddErrors
  <2>2. QED
    BY <2>1
<1>7. CASE KillLate
  <2>1. Closing("timeout", 1, {ErrorRow("timeout")}) /\ case \in errors'
    BY <1>7, ClosingSteps DEF KillLate, AddErrors
  <2>2. QED
    BY <2>1
<1>8. CASE Collect
  <2>1. Closing(Verdict, 1, RawRows) /\ (CollectedErrors => case \in errors')
    BY <1>8, ClosingSteps DEF Collect, AddErrors
  <2>2. Verdict # "skipped_existing"
    BY DEF Verdict
  <2>3. Verdict = "pass" => RawRows = {[status |-> "pass", by |-> launch]}
    <3>1. SUFFICES ASSUME Verdict = "pass" PROVE RawRows = {[status |-> "pass", by |-> launch]}
      OBVIOUS
    <3>2. returncode = "passed" /\ child = "passed"
      BY <3>1, <1>8 DEF Verdict, Shape, Collect
    <3>3. raw[case] = Whole(launch, "pass")
      BY <3>2 DEF Files2, Writing
    <3>4. QED
      BY <3>3 DEF RawRows, Measured, Whole, Absent
  <2>4. ASSUME NEW r \in RawRows, r.status # "pass", ~CollectedErrors
        PROVE  summary[case].by # raw[case].by
    <3>1. raw[case] # Absent /\ raw[case].state # "torn" /\ r = Measured(raw[case])
      BY <2>4, <1>8 DEF CollectedErrors, RawRows, Collect
    <3>2. raw[case].by # 0 /\ raw[case].status # "pass"
      BY <1>2, <2>4, <3>1, FileType DEF Measured
    <3>3. CASE summary[case].state = "whole"
      BY <1>2, <2>4, <3>2, <3>3 DEF CollectedErrors, Files2, Authors
    <3>4. CASE summary[case].state # "whole"
      BY <1>2, <3>2, <3>4, FileType
    <3>5. QED
      BY <3>3, <3>4
  <2>5. QED
    BY <2>1, <2>2, <2>3, <2>4
<1>9. CASE CollectTorn
  <2> DEFINE new == (IF raw[case].state = "torn" THEN {} ELSE RawRows) \cup {ErrorRow("error")}
  <2>1. Closing("launcher_error", 2, new) /\ case \in errors'
    BY <1>9, ClosingSteps DEF CollectTorn, LauncherError, AddErrors
  <2> HIDE DEF new
  <2>2. QED
    BY <2>1
<1>10. CASE StartFails
  <2>1. Closing("launcher_error", 1, {ErrorRow("error")}) /\ case \in errors'
    BY <1>10, ClosingSteps DEF StartFails, LauncherError, AddErrors
  <2>2. QED
    BY <2>1
<1>11. QED
  BY <1>3, <1>4, <1>5, <1>6, <1>7, <1>8, <1>9, <1>10 DEF ClosingStep

Ledger == RowsBelongToRecord /\ ErrorsAreTold

LEMMA LedgerInit == Init => Ledger
<1> SUFFICES ASSUME Init PROVE Ledger
  OBVIOUS
<1>1. \A c \in CaseIds : rows[c] = {} /\ records[c] = << >>
  BY DEF Init, NoRows, NoRecords
<1>2. \A c \in CaseIds : \A s : ~Recorded(c, s)
  BY <1>1 DEF Recorded
<1>3. QED
  BY <1>1, <1>2 DEF Ledger, RowsBelongToRecord, ErrorsAreTold

LEMMA LedgerStep == Shape /\ Shape' /\ Files2 /\ Ledger /\ [Next]_vars => Ledger'
<1> SUFFICES ASSUME Shape, Shape', Files2, Ledger, [Next]_vars PROVE Ledger'
  OBVIOUS
<1>1. CASE ClosingStep
  <2>1. PICK status, new : \E times \in Nat \ {0} :
          /\ Closing(status, times, new)
          /\ status = "pass" => new = {[status |-> "pass", by |-> launch]}
          /\ status = "skipped_existing" => TakenOver(case, new)
          /\ (\E r \in new : r.status # "pass") =>
               case \in errors' \/ status = "skipped_existing" \/ summary[case].by # raw[case].by
    BY <1>1, RowsOfClosing
  <2>2. /\ rows'[case] = new
        /\ \A c \in CaseIds : c = case => \A s : Recorded(c, s)' <=> s = status
        /\ \A c \in CaseIds \ {case} :
             /\ rows'[c] = rows[c] /\ (c \in errors' <=> c \in errors)
             /\ \A s : Recorded(c, s)' <=> Recorded(c, s)
        /\ UNCHANGED <<launch, raw, summary, redone>>
    BY <2>1, Closed
  <2>3. RowsBelongToRecord'
    <3> SUFFICES ASSUME NEW c \in CaseIds
                 PROVE  /\ Recorded(c, "pass")' => rows'[c] = {[status |-> "pass", by |-> launch']}
                        /\ Recorded(c, "skipped_existing")' => TakenOver(c, rows[c])'
      BY DEF RowsBelongToRecord, TakenOver
    <3>1. CASE c = case
      BY <2>1, <2>2, <3>1 DEF TakenOver, Measured
    <3>2. CASE c # case
      BY <2>2, <3>2 DEF Ledger, RowsBelongToRecord, TakenOver, Measured
    <3>3. QED
      BY <3>1, <3>2
  <2>4. ErrorsAreTold'
    <3> SUFFICES ASSUME NEW c \in CaseIds, \E r \in rows'[c] : r.status # "pass"
                 PROVE  c \in errors' \/ Recorded(c, "skipped_existing")' \/ summary'[c].by # raw'[c].by
      BY DEF ErrorsAreTold
    <3>1. CASE c = case
      BY <2>1, <2>2, <3>1
    <3>2. CASE c # case
      BY <2>2, <3>2 DEF Ledger, ErrorsAreTold
    <3>3. QED
      BY <3>1, <3>2
  <2>5. QED
    BY <2>3, <2>4 DEF Ledger
<1>2. CASE InnerStep \/ UNCHANGED vars
  <2>1. \A c \in CaseIds : \A s : Recorded(c, s)' <=> Recorded(c, s)
    BY <1>2, WithinKnown
  <2>2. rows' = rows /\ errors' = errors /\ launch' = launch
    BY <1>2, Within
  <2>3. ASSUME NEW c \in CaseIds
        PROVE  /\ Recorded(c, "pass")' => rows'[c] = {[status |-> "pass", by |-> launch']}
               /\ Recorded(c, "skipped_existing")' => TakenOver(c, rows[c])'
               /\ (\E r \in rows'[c] : r.status # "pass") =>
                    c \in errors' \/ Recorded(c, "skipped_existing")' \/ summary'[c].by # raw'[c].by
    <3>1. CASE c = case
      <4>1. rows[c] = {} /\ \A s : ~Recorded(c, s)
        BY <3>1, NotYet, CasesType
      <4>2. QED
        BY <2>1, <2>2, <4>1
    <3>2. CASE c # case
      <4>1. raw'[c] = raw[c] /\ summary'[c] = summary[c] /\ (c \in redone' <=> c \in redone)
        BY <1>2, <3>2, Within
      <4>2. QED
        BY <2>1, <2>2, <4>1 DEF Ledger, RowsBelongToRecord, ErrorsAreTold, TakenOver, Measured
    <3>3. QED
      BY <3>1, <3>2
  <2>4. QED
    BY <2>3 DEF Ledger, RowsBelongToRecord, ErrorsAreTold, TakenOver
<1>3. CASE Relaunch
  <2>1. \A c \in CaseIds : rows'[c] = {} /\ records'[c] = << >>
    BY <1>3 DEF Relaunch, NoRows, NoRecords
  <2>2. \A c \in CaseIds : \A s : ~Recorded(c, s)'
    BY <2>1 DEF Recorded
  <2>3. QED
    BY <2>1, <2>2 DEF Ledger, RowsBelongToRecord, ErrorsAreTold
<1>4. QED
  BY <1>1, <1>2, <1>3, NextKinds DEF Stopped

\* The rows of a case come from the child that is recorded for it, and those of a case
\* that is taken over from a whole raw_results.json, never one older than its summary.
THEOREM RowsAreItsOwn == Spec => []RowsBelongToRecord
<1>1. Ledger => RowsBelongToRecord
  BY DEF Ledger
<1>2. QED
  BY <1>1, ShapeInit, ShapeStep, FilesInit, FilesStep, LedgerInit, LedgerStep, PTL DEF Spec

\* The errors of a launch name every case with a bad row, but for those taken over
\* and those without a summary of their rows.
THEOREM ExitCodeTells == Spec => []ErrorsAreTold
<1>1. Ledger => ErrorsAreTold
  BY DEF Ledger
<1>2. QED
  BY <1>1, ShapeInit, ShapeStep, FilesInit, FilesStep, LedgerInit, LedgerStep, PTL DEF Spec
-----------------------------------------------------------------------------
(***************************************************************************)
(* The cutoffs.                                                            *)
(***************************************************************************)

\* The cutoff of a sweep is its smallest point known to have timed out.
Cutoffs ==
  /\ \A s \in Sweeps : cutoff[s] = NoCutoff =>
       \A c \in CaseIds : Cases[c].sweep = s => ~KnownTimeout(c)
  /\ \A s \in Sweeps : cutoff[s] # NoCutoff =>
       /\ \E c \in CaseIds : Cases[c].sweep = s /\ Cases[c].n = cutoff[s] /\ KnownTimeout(c)
       /\ \A c \in CaseIds : Cases[c].sweep = s /\ KnownTimeout(c) => cutoff[s] <= Cases[c].n

Respected == CutoffRespected /\ Cutoffs /\ (Busy => ~BeyondCutoff)

\* A point is beyond the cutoff exactly when a smaller one has timed out.
LEMMA BeyondMeaning ==
  ASSUME Shape, Cutoffs, case \in CaseIds
  PROVE  BeyondCutoff <=> \E b \in 1 .. case - 1 : Smaller(b, case) /\ KnownTimeout(b)
<1> DEFINE s == Cases[case].sweep
<1>1. /\ case \in Nat /\ 1 .. case - 1 \subseteq CaseIds /\ \A c \in CaseIds : Cases[c].n \in Nat
      /\ \A c \in CaseIds : c >= case \/ c \in 1 .. case - 1
  BY CasesType
<1>2. CASE s = NoSweep
  BY <1>2 DEF BeyondCutoff, Smaller
<1>3. CASE s # NoSweep
  <2>1. s \in Sweeps /\ cutoff[s] \in Nat \cup {NoCutoff}
    BY <1>3, CasesType DEF Shape, TypeOK
  <2>2. \A c \in CaseIds : KnownTimeout(c) => c \in 1 .. case - 1
    BY <1>1, NotYet
  <2>3. CASE cutoff[s] = NoCutoff
    <3>1. ~BeyondCutoff
      BY <2>3 DEF BeyondCutoff
    <3>2. \A b \in CaseIds : Cases[b].sweep = s => ~KnownTimeout(b)
      BY <2>1, <2>3 DEF Cutoffs
    <3>3. QED
      BY <1>1, <3>1, <3>2 DEF Smaller
  <2>4. CASE cutoff[s] # NoCutoff
    <3>1. BeyondCutoff <=> Cases[case].n > cutoff[s]
      BY <1>3, <2>4 DEF BeyondCutoff
    <3>2. PICK a \in CaseIds : Cases[a].sweep = s /\ Cases[a].n = cutoff[s] /\ KnownTimeout(a)
      BY <2>1, <2>4 DEF Cutoffs
    <3>3. \A c \in CaseIds : Cases[c].sweep = s /\ KnownTimeout(c) => cutoff[s] <= Cases[c].n
      BY <2>1, <2>4 DEF Cutoffs
    <3>4. BeyondCutoff => \E b \in 1 .. case - 1 : Smaller(b, case) /\ KnownTimeout(b)
      BY <1>1, <1>3, <2>2, <3>1, <3>2 DEF Smaller
    <3>5. (\E b \in 1 .. case - 1 : Smaller(b, case) /\ KnownTimeout(b)) => BeyondCutoff
      BY <1>1, <2>1, <2>4, <3>1, <3>3 DEF Smaller
    <3>6. QED
      BY <3>4, <3>5
  <2>5. QED
    BY <2>3, <2>4
<1>4. QED
  BY <1>2, <1>3

\* What the steps that end a case make of the cutoff.
LEMMA CutoffOfClosing ==
  ASSUME Shape, Files2, Respected, ClosingStep
  PROVE  \E status, new : \E times \in Nat \ {0} :
           /\ Closing(status, times, new)
           /\ status = "skipped_after_timeout" <=> BeyondCutoff
           /\ cutoff' = IF status = "timeout" \/ (status = "skipped_existing" /\ summary[case].status = "timeout")
                          THEN Cutoff("timeout") ELSE cutoff
<1>1. \A t : t # "timeout" => Cutoff(t) = cutoff
  BY DEF Cutoff
<1>2. CASE SkipLarger
  BY <1>2, ClosingSteps DEF SkipLarger
<1>3. CASE TakeOver
  <2>1. Closing("skipped_existing", 1, RawRows) /\ ~BeyondCutoff /\ cutoff' = Cutoff(summary[case].status)
    BY <1>3, ClosingSteps DEF TakeOver
  <2>2. cutoff' = IF summary[case].status = "timeout" THEN Cutoff("timeout") ELSE cutoff
    BY <1>1, <2>1
  <2>3. QED
    BY <2>1, <2>2
<1>4. CASE QueryOverLimit \/ QueryFails \/ KillLate
  <2>1. ~BeyondCutoff
    BY <1>4 DEF QueryOverLimit, QueryFails, KillLate, Respected, Busy
  <2>2. CASE QueryOverLimit
    <3>1. Closing("launcher_error", 1, {ErrorRow("error")}) /\ cutoff' = cutoff
      BY <2>2, ClosingSteps DEF QueryOverLimit
    <3>2. QED
      BY <2>1, <3>1
  <2>3. CASE QueryFails
    <3>1. Closing("gpu_mem_monitor_error", 1, {ErrorRow("error")}) /\ cutoff' = cutoff
      BY <2>3, ClosingSteps DEF QueryFails
    <3>2. QED
      BY <2>1, <3>1
  <2>4. CASE KillLate
    <3>1. Closing("timeout", 1, {ErrorRow("timeout")}) /\ cutoff' = Cutoff("timeout")
      BY <2>4, ClosingSteps DEF KillLate
    <3>2. QED
      BY <2>1, <3>1
  <2>5. QED
    BY <1>4, <2>2, <2>3, <2>4
<1>5. CASE Collect
  <2>1. Closing(Verdict, 1, RawRows) /\ ~BeyondCutoff
          /\ cutoff' = Cutoff(IF SummaryTimedOut THEN "timeout" ELSE "pass")
    BY <1>5, ClosingSteps DEF Collect, Respected, Busy
  <2>2. Verdict = "timeout" <=> SummaryTimedOut
    <3>1. CASE returncode = "passed"
      <4>1. child = "passed"
        BY <1>5, <3>1 DEF Collect, Shape
      <4>2. summary[case] = Whole(launch, "pass")
        BY <4>1 DEF Files2, Writing
      <4>3. QED
        BY <3>1, <4>2 DEF Verdict, SummaryTimedOut, Whole
    <3>2. CASE returncode # "passed"
      BY <3>2 DEF Verdict
    <3>3. QED
      BY <3>1, <3>2
  <2>3. Verdict \in {"pass", "timeout", "error"}
    BY DEF Verdict
  <2>4. cutoff' = IF Verdict = "timeout" THEN Cutoff("timeout") ELSE cutoff
    BY <1>1, <2>1, <2>2
  <2>5. QED
    BY <2>1, <2>3, <2>4
<1>6. CASE CollectTorn
  <2> DEFINE new == (IF raw[case].state = "torn" THEN {} ELSE RawRows) \cup {ErrorRow("error")}
  <2>1. Closing("launcher_error", 2, new) /\ ~BeyondCutoff /\ cutoff' = cutoff
    BY <1>6, ClosingSteps DEF CollectTorn, Respected, Busy
  <2> HIDE DEF new
  <2>2. QED
    BY <2>1
<1>7. CASE StartFails
  <2>1. Closing("launcher_error", 1, {ErrorRow("error")}) /\ ~BeyondCutoff /\ cutoff' = cutoff
    BY <1>7, ClosingSteps DEF StartFails
  <2>2. QED
    BY <2>1
<1>8. QED
  BY <1>2, <1>3, <1>4, <1>5, <1>6, <1>7 DEF ClosingStep

LEMMA CutoffsClosing ==
  ASSUME Shape, Cutoffs, NEW known \in BOOLEAN,
         case \in CaseIds, \A c \in CaseIds : c = case => (KnownTimeout(c)' <=> known),
         \A c \in CaseIds \ {case} : KnownTimeout(c)' <=> KnownTimeout(c),
         cutoff' = IF known THEN Cutoff("timeout") ELSE cutoff
  PROVE  Cutoffs'
<1> DEFINE s0 == Cases[case].sweep
           n0 == Cases[case].n
<1>1. /\ \A c \in CaseIds : Cases[c].n \in Nat
      /\ s0 # NoSweep => s0 \in Sweeps
      /\ cutoff \in [Sweeps -> Nat \cup {NoCutoff}] /\ ~KnownTimeout(case) /\ NoCutoff \notin Nat
      /\ NoSweep \notin Sweeps
  <2>1. (\A c \in CaseIds : Cases[c].n \in Nat) /\ (s0 # NoSweep => s0 \in Sweeps)
    BY CasesType
  <2>2. cutoff \in [Sweeps -> Nat \cup {NoCutoff}]
    BY DEF Shape, TypeOK
  <2>3. ~KnownTimeout(case)
    <3>1. case >= case
      BY CasesType
    <3>2. QED
      BY <3>1, NotYet
  <2>4. NoCutoff \notin Nat /\ NoSweep \notin Sweeps
    BY DEF Sweeps, NoCutoff
  <2>5. QED
    BY <2>1, <2>2, <2>3, <2>4
<1> SUFFICES ASSUME NEW s \in Sweeps
             PROVE  /\ cutoff'[s] = NoCutoff => \A c \in CaseIds : Cases[c].sweep = s => ~KnownTimeout(c)'
                    /\ cutoff'[s] # NoCutoff =>
                         /\ \E c \in CaseIds : Cases[c].sweep = s /\ Cases[c].n = cutoff'[s] /\ KnownTimeout(c)'
                         /\ \A c \in CaseIds : Cases[c].sweep = s /\ KnownTimeout(c)' => cutoff'[s] <= Cases[c].n
  BY DEF Cutoffs
<1>2. CASE ~known \/ s # s0
  <2>1. cutoff'[s] = cutoff[s]
    BY <1>1, <1>2 DEF Cutoff
  <2>2. \A c \in CaseIds : Cases[c].sweep = s => (KnownTimeout(c)' <=> KnownTimeout(c))
    BY <1>1, <1>2
  <2>3. QED
    BY <2>1, <2>2 DEF Cutoffs
<1>3. CASE known /\ s = s0
  <2>1. \A c \in CaseIds : KnownTimeout(c)' <=> KnownTimeout(c) \/ c = case
    BY <1>1, <1>3
  <2>2. CASE cutoff[s] = NoCutoff \/ n0 < cutoff[s]
    <3>1. cutoff'[s] = n0
      BY <1>1, <1>3, <2>2 DEF Cutoff
    <3>2. \A c \in CaseIds : Cases[c].sweep = s /\ KnownTimeout(c) => n0 <= Cases[c].n
      <4>1. CASE cutoff[s] = NoCutoff
        BY <4>1 DEF Cutoffs
      <4>2. CASE cutoff[s] # NoCutoff
        <5>1. cutoff[s] \in Nat /\ n0 < cutoff[s] /\ n0 \in Nat
          BY <1>1, <2>2, <4>2
        <5>2. \A c \in CaseIds : Cases[c].sweep = s /\ KnownTimeout(c) => cutoff[s] <= Cases[c].n
          BY <4>2 DEF Cutoffs
        <5>3. QED
          BY <1>1, <5>1, <5>2
      <4>3. QED
        BY <4>1, <4>2
    <3>3. n0 \in Nat /\ n0 # NoCutoff
      BY <1>1
    <3>4. QED
      BY <1>1, <1>3, <2>1, <3>1, <3>2, <3>3
  <2>3. CASE cutoff[s] # NoCutoff /\ ~(n0 < cutoff[s])
    <3>1. cutoff'[s] = cutoff[s] /\ cutoff[s] \in Nat /\ n0 \in Nat /\ cutoff[s] <= n0
      BY <1>1, <1>3, <2>3 DEF Cutoff
    <3>2. /\ \E c \in CaseIds : Cases[c].sweep = s /\ Cases[c].n = cutoff[s] /\ KnownTimeout(c)
          /\ \A c \in CaseIds : Cases[c].sweep = s /\ KnownTimeout(c) => cutoff[s] <= Cases[c].n
      BY <2>3 DEF Cutoffs
    <3>3. QED
      BY <2>1, <2>3, <3>1, <3>2
  <2>4. QED
    BY <2>2, <2>3
<1>4. QED
  BY <1>2, <1>3

LEMMA RespectedInit == Init => Respected
<1> SUFFICES ASSUME Init PROVE Respected
  OBVIOUS
<1>1. (\A c \in CaseIds : records[c] = << >>) /\ (\A s \in Sweeps : cutoff[s] = NoCutoff) /\ where = "case"
  BY DEF Init, NoRecords, NoCutoffs
<1>2. \A c \in CaseIds : \A s : ~Recorded(c, s)
  BY <1>1 DEF Recorded
<1>3. \A c \in CaseIds : ~KnownTimeout(c) /\ ~Handed(c)
  BY <1>1, <1>2 DEF KnownTimeout, Handed
<1>4. QED
  BY <1>1, <1>2, <1>3 DEF Respected, CutoffRespected, Cutoffs, Busy

LEMMA RespectedClosing == Shape /\ Shape' /\ Files2 /\ Respected /\ ClosingStep => Respected'
<1> SUFFICES ASSUME Shape, Shape', Files2, Respected, ClosingStep PROVE Respected'
  OBVIOUS
<1>1. PICK status, new : \E times \in Nat \ {0} :
        /\ Closing(status, times, new)
        /\ status = "skipped_after_timeout" <=> BeyondCutoff
        /\ cutoff' = IF status = "timeout" \/ (status = "skipped_existing" /\ summary[case].status = "timeout")
                       THEN Cutoff("timeout") ELSE cutoff
  BY CutoffOfClosing
<1>2. /\ case \in CaseIds /\ case \in Nat /\ case' = case + 1 /\ where' \in {"case", "done"}
      /\ records'[case] # << >>
      /\ \A c \in CaseIds : c = case => \A s : Recorded(c, s)' <=> s = status
      /\ \A c \in CaseIds \ {case} :
           /\ records'[c] = records[c]
           /\ \A s : Recorded(c, s)' <=> Recorded(c, s)
           /\ KnownTimeout(c)' <=> KnownTimeout(c)
      /\ UNCHANGED summary
  BY <1>1, Closed
<1> DEFINE known == status = "timeout" \/ (status = "skipped_existing" /\ summary[case].status = "timeout")
<1>3. \A c \in CaseIds : c = case => (KnownTimeout(c)' <=> known)
  BY <1>2 DEF KnownTimeout
<1>4. Cutoffs'
  <2>1. known \in BOOLEAN /\ cutoff' = IF known THEN Cutoff("timeout") ELSE cutoff
    BY <1>1
  <2> HIDE DEF known
  <2>2. QED
    BY <1>2, <1>3, <2>1, CutoffsClosing DEF Respected
<1>5. BeyondCutoff <=> \E b \in 1 .. case - 1 : Smaller(b, case) /\ KnownTimeout(b)
  BY <1>2, BeyondMeaning DEF Respected
<1>6. ~Busy' /\ \A c \in CaseIds : ~Handed(c)'
  BY <1>2 DEF Busy, Handed
<1>7. /\ 1 .. case - 1 \subseteq CaseIds \ {case}
      /\ \A c \in CaseIds : \A b \in 1 .. c - 1 : b \in CaseIds /\ (c < case => b # case)
      /\ \A c \in CaseIds : c < case \/ c = case \/ c >= case'
  BY <1>2, CasesType
<1>8. ASSUME NEW c \in CaseIds
      PROVE  /\ records'[c] # << >> /\ ~Recorded(c, "skipped_after_timeout")' =>
                  \A b \in 1 .. c - 1 : Smaller(b, c) => ~KnownTimeout(b)'
             /\ Recorded(c, "skipped_after_timeout")' =>
                  \E b \in 1 .. c - 1 : Smaller(b, c) /\ KnownTimeout(b)'
  <2>1. CASE c < case
    <3>1. c # case /\ \A b \in 1 .. c - 1 : KnownTimeout(b)' <=> KnownTimeout(b)
      BY <1>2, <1>7, <2>1
    <3>2. QED
      BY <1>2, <3>1 DEF Respected, CutoffRespected
  <2>2. CASE c = case
    <3>1. \A b \in 1 .. c - 1 : KnownTimeout(b)' <=> KnownTimeout(b)
      BY <1>2, <1>7, <2>2
    <3>2. Recorded(c, "skipped_after_timeout")' <=> BeyondCutoff
      BY <1>1, <1>2, <2>2
    <3>3. QED
      BY <1>5, <2>2, <3>1, <3>2
  <2>3. CASE c >= case'
    <3>1. records'[c] = << >>
      BY <2>3 DEF Shape
    <3>2. \A s : ~Recorded(c, s)'
      BY <3>1 DEF Recorded
    <3>3. QED
      BY <3>1, <3>2
  <2>4. QED
    BY <1>7, <2>1, <2>2, <2>3
<1>9. CutoffRespected'
  BY <1>6, <1>8 DEF CutoffRespected, Smaller
<1>10. QED
  BY <1>4, <1>6, <1>9 DEF Respected

LEMMA RespectedWithin ==
  Shape /\ Shape' /\ Respected /\ (InnerStep \/ UNCHANGED vars) => Respected'
<1> SUFFICES ASSUME Shape, Shape', Respected, InnerStep \/ UNCHANGED vars PROVE Respected'
  OBVIOUS
<1>1. case' = case /\ records' = records /\ cutoff' = cutoff
  BY Within
<1>2. \A c \in CaseIds : (KnownTimeout(c)' <=> KnownTimeout(c)) /\ \A s : Recorded(c, s)' <=> Recorded(c, s)
  BY WithinKnown
<1>3. Busy' => ~BeyondCutoff /\ case \in CaseIds
  <2>1. ChildStep \/ Expire \/ Poll \/ QueryFine \/ Sleep \/ UNCHANGED vars => (Busy' => Busy)
    BY DEF ChildStep, Measure, OpenFile, FillFile, Exit, Crash, Expire, Poll, QueryFine, Sleep, vars, Busy
  <2>2. Unreadable \/ JobCrash => ~Busy'
    BY DEF Unreadable, JobCrash, Busy
  <2>3. Start => ~BeyondCutoff /\ case \in CaseIds
    BY DEF Start, Shape, Working
  <2>4. Busy => ~BeyondCutoff /\ case \in CaseIds
    BY DEF Respected, Shape, Working
  <2>5. QED
    BY <2>1, <2>2, <2>3, <2>4 DEF InnerStep
<1>4. BeyondCutoff' <=> BeyondCutoff
  BY <1>1 DEF BeyondCutoff
<1>5. Cutoffs'
  BY <1>1, <1>2 DEF Respected, Cutoffs
<1>6. \A c \in CaseIds : \A b \in 1 .. c - 1 : b \in CaseIds
  BY CasesType
<1>7. ASSUME NEW c \in CaseIds
      PROVE  /\ (Handed(c)' \/ records'[c] # << >>) /\ ~Recorded(c, "skipped_after_timeout")' =>
                  \A b \in 1 .. c - 1 : Smaller(b, c) => ~KnownTimeout(b)'
             /\ Recorded(c, "skipped_after_timeout")' =>
                  \E b \in 1 .. c - 1 : Smaller(b, c) /\ KnownTimeout(b)'
  <2>1. \A b \in 1 .. c - 1 : KnownTimeout(b)' <=> KnownTimeout(b)
    BY <1>2, <1>6
  <2>2. CASE Handed(c)'
    <3>1. c = case /\ ~BeyondCutoff /\ case \in CaseIds
      BY <1>1, <1>3, <2>2 DEF Handed, Busy
    <3>2. \A b \in 1 .. c - 1 : Smaller(b, c) => ~KnownTimeout(b)
      BY <3>1, BeyondMeaning DEF Respected
    <3>3. ~Recorded(c, "skipped_after_timeout")
      BY <3>1, NotYet, CasesType
    <3>4. QED
      BY <1>2, <2>1, <3>2, <3>3
  <2>3. CASE ~Handed(c)'
    BY <1>1, <1>2, <2>1, <2>3 DEF Respected, CutoffRespected
  <2>4. QED
    BY <2>2, <2>3
<1>8. CutoffRespected'
  BY <1>7 DEF CutoffRespected, Smaller
<1>9. QED
  BY <1>3, <1>4, <1>5, <1>8 DEF Respected

LEMMA RespectedRelaunch == Relaunch => Respected'
<1> SUFFICES ASSUME Relaunch PROVE Respected'
  OBVIOUS
<1>1. (\A c \in CaseIds : records'[c] = << >>) /\ (\A s \in Sweeps : cutoff'[s] = NoCutoff) /\ where' = "case"
  BY DEF Relaunch, NoRecords, NoCutoffs
<1>2. \A c \in CaseIds : \A s : ~Recorded(c, s)'
  BY <1>1 DEF Recorded
<1>3. \A c \in CaseIds : ~KnownTimeout(c)' /\ ~Handed(c)'
  BY <1>1, <1>2 DEF KnownTimeout, Handed
<1>4. QED
  BY <1>1, <1>2, <1>3 DEF Respected, CutoffRespected, Cutoffs, Busy

\* Once a point of a sweep has timed out no larger one is started or taken over on
\* that backend, and nothing else is skipped.
THEOREM CutoffHolds == Spec => []CutoffRespected
<1>1. Respected => CutoffRespected
  BY DEF Respected
<1>2. Shape /\ Shape' /\ Files2 /\ Respected /\ [Next]_vars => Respected'
  BY NextKinds, RespectedClosing, RespectedWithin, RespectedRelaunch DEF Stopped
<1>3. QED
  BY <1>1, <1>2, ShapeInit, ShapeStep, FilesInit, FilesStep, RespectedInit, PTL DEF Spec
=============================================================================
