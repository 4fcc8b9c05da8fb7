---------------------------- MODULE RunnerProofs ----------------------------
(***************************************************************************)
(* Theorems about RunnerMonitor, for every suite, number of repetitions,    *)
(* time limit and amount of foreign output.                                 *)
(***************************************************************************)
EXTENDS RunnerMonitor, SequenceTheorems, FiniteSetTheorems, TLAPS

-----------------------------------------------------------------------------
(***************************************************************************)
(* Text: what is written and not yet returned by readline().               *)
(***************************************************************************)
Unread(s) == buf[s] \o pipe[s]

\* The pieces readline() takes away with the first line of t.
Taken(t) == IF Head(t) = "open" THEN 2 ELSE 1

LEMMA RestOfText ==
  ASSUME NEW t \in Seq(Text), HasLine(t)
  PROVE  /\ Taken(t) <= Len(t)
         /\ Rest(t) \in Seq(Text)
         /\ Len(Rest(t)) = Len(t) - Taken(t)
         /\ \A i \in 1 .. Len(Rest(t)) : Rest(t)[i] = t[i + Taken(t)]
         /\ Line(t) \in Text
<1>1. t # << >> /\ Len(t) >= 1 /\ Head(t) = t[1]
  BY DEF HasLine
<1>2. CASE Head(t) = "open"
  <2>1. Len(t) >= 2
    <3>1. Len(t) = 1 => t = <<"open">>
      BY <1>1, <1>2
    <3>2. Len(t) # 1
      BY <3>1 DEF HasLine
    <3>3. QED
      BY <1>1, <3>2
  <2>2. Tail(t) \in Seq(Text) /\ Len(Tail(t)) = Len(t) - 1 /\ Tail(t) # << >>
    BY <1>1, <2>1
  <2>3. \A i \in 1 .. Len(t) - 1 : Tail(t)[i] = t[i + 1]
    BY <1>1
  <2>4. /\ Tail(Tail(t)) \in Seq(Text) /\ Len(Tail(Tail(t))) = Len(t) - 2
        /\ \A i \in 1 .. Len(t) - 2 : Tail(Tail(t))[i] = Tail(t)[i + 1]
    BY <2>2
  <2>5. QED
    BY <1>2, <2>1, <2>2, <2>3, <2>4 DEF Rest, Taken, Line, Text
<1>3. CASE Head(t) # "open"
  BY <1>1, <1>3 DEF Rest, Taken, Line
<1>4. QED
  BY <1>2, <1>3

\* The first line of a text is not changed by what follows the text.
LEMMA LineOfJoined ==
  ASSUME NEW t \in Seq(Text), NEW u \in Seq(Text), HasLine(t)
  PROVE  /\ HasLine(t \o u)
         /\ Line(t \o u) = Line(t)
         /\ Taken(t \o u) = Taken(t)
         /\ Rest(t) \o u \in Seq(Text)
         /\ Len(Rest(t) \o u) = Len(t \o u) - Taken(t)
         /\ \A i \in 1 .. Len(Rest(t) \o u) : (Rest(t) \o u)[i] = (t \o u)[i + Taken(t)]
<1> DEFINE v == t \o u
           r == Rest(t)
           k == Taken(t)
<1>1. /\ v \in Seq(Text) /\ Len(v) = Len(t) + Len(u)
      /\ \A i \in 1 .. Len(v) : v[i] = IF i <= Len(t) THEN t[i] ELSE u[i - Len(t)]
  OBVIOUS
<1>2. t # << >> /\ Len(t) >= 1 /\ Head(t) = t[1]
  BY DEF HasLine
<1>3. v # << >> /\ Head(v) = v[1] /\ v[1] = t[1]
  BY <1>1, <1>2
<1>4. HasLine(v)
  <2>1. v = <<"open">> => t = <<"open">>
    BY <1>1, <1>2
  <2>2. QED
    BY <2>1, <1>3 DEF HasLine
<1>5. k \in {1, 2} /\ k <= Len(t) /\ r \in Seq(Text) /\ Len(r) = Len(t) - k
  BY RestOfText DEF Taken
<1>6. \A i \in 1 .. Len(r) : r[i] = t[i + k]
  BY RestOfText
<1>7. Line(v) = Line(t) /\ Taken(v) = k
  BY <1>2, <1>3 DEF Line, Taken
<1> HIDE DEF r, k
<1>8. /\ r \o u \in Seq(Text) /\ Len(r \o u) = Len(r) + Len(u)
      /\ \A i \in 1 .. Len(r \o u) : (r \o u)[i] = IF i <= Len(r) THEN r[i] ELSE u[i - Len(r)]
  BY <1>5
<1> HIDE DEF v
<1>9. \A i \in 1 .. Len(r \o u) : (r \o u)[i] = v[i + k]
  BY <1>1, <1>5, <1>6, <1>8
<1>10. Len(r \o u) = Len(v) - k
  BY <1>1, <1>5, <1>8
<1>11. QED
  BY <1>4, <1>7, <1>8, <1>9, <1>10 DEF v, r, k

\* readline() returns the first line of what is unread and leaves the rest,
\* wherever the buffer ends and the pipe begins.
LEMMA ReadLineTakes ==
  ASSUME TypeOK, NEW s \in Streams, ReadLine(s)
  PROVE  /\ HasLine(Unread(s))
         /\ Line(Reach(s)) = Line(Unread(s))
         /\ Unread(s)' \in Seq(Text)
         /\ Len(Unread(s)') = Len(Unread(s)) - Taken(Unread(s))
         /\ \A i \in 1 .. Len(Unread(s)') :
              Unread(s)'[i] = Unread(s)[i + Taken(Unread(s))]
         /\ pipe' \in [Streams -> Seq(Text)] /\ buf' \in [Streams -> Seq(Text)]
         /\ \A r \in Streams \ {s} : Unread(r)' = Unread(r)
<1>1. buf[s] \in Seq(Text) /\ pipe[s] \in Seq(Text) /\ Unread(s) \in Seq(Text)
  BY DEF TypeOK, Unread
<1>2. HasLine(Reach(s)) /\ Reach(s) \in Seq(Text)
  BY <1>1 DEF ReadLine, Reach, Unread
<1>3. /\ Rest(Reach(s)) \in Seq(Text)
      /\ Len(Rest(Reach(s))) = Len(Reach(s)) - Taken(Reach(s))
      /\ \A i \in 1 .. Len(Rest(Reach(s))) : Rest(Reach(s))[i] = Reach(s)[i + Taken(Reach(s))]
  BY <1>2, RestOfText
<1>4. /\ buf'[s] = Rest(Reach(s)) /\ pipe'[s] = IF HasLine(buf[s]) THEN pipe[s] ELSE << >>
      /\ \A r \in Streams \ {s} : buf'[r] = buf[r] /\ pipe'[r] = pipe[r]
      /\ pipe' \in [Streams -> Seq(Text)] /\ buf' \in [Streams -> Seq(Text)]
  BY <1>3 DEF ReadLine, TypeOK
<1>5. \A r \in Streams \ {s} : Unread(r)' = Unread(r)
  BY <1>4 DEF Unread
<1>6. CASE HasLine(buf[s])
  <2>1. Reach(s) = buf[s]
    BY <1>6 DEF Reach
  <2>2. Unread(s)' = Rest(buf[s]) \o pipe[s] /\ Unread(s) = buf[s] \o pipe[s]
    BY <1>4, <1>6, <2>1 DEF Unread
  <2>3. /\ HasLine(Unread(s))
        /\ Line(Unread(s)) = Line(buf[s])
        /\ Taken(Unread(s)) = Taken(buf[s])
        /\ Rest(buf[s]) \o pipe[s] \in Seq(Text)
        /\ Len(Rest(buf[s]) \o pipe[s]) = Len(Unread(s)) - Taken(Unread(s))
        /\ \A i \in 1 .. Len(Rest(buf[s]) \o pipe[s]) :
             (Rest(buf[s]) \o pipe[s])[i] = Unread(s)[i + Taken(Unread(s))]
    <3> DEFINE t == buf[s]
               u == pipe[s]
    <3>1. t \in Seq(Text) /\ u \in Seq(Text) /\ HasLine(t) /\ Unread(s) = t \o u
      BY <1>1, <1>6 DEF Unread
    <3> HIDE DEF t, u
    <3>2. /\ HasLine(t \o u)
          /\ Line(t \o u) = Line(t)
          /\ Taken(t \o u) = Taken(t)
          /\ Rest(t) \o u \in Seq(Text)
          /\ Len(Rest(t) \o u) = Len(t \o u) - Taken(t)
          /\ \A i \in 1 .. Len(Rest(t) \o u) : (Rest(t) \o u)[i] = (t \o u)[i + Taken(t)]
      BY <3>1, LineOfJoined
    <3>3. QED
      BY <3>1, <3>2 DEF t, u
  <2>4. QED
    BY <1>4, <1>5, <2>1, <2>2, <2>3
<1>7. CASE ~HasLine(buf[s])
  <2>1. Reach(s) = Unread(s)
    BY <1>7 DEF Reach, Unread
  <2>2. Rest(Unread(s)) \o << >> = Rest(Unread(s))
    BY <1>3, <2>1, ConcatEmptySeq
  <2>3. Unread(s)' = Rest(Unread(s))
    BY <1>4, <1>7, <2>1, <2>2 DEF Unread
  <2>4. QED
    BY <1>2, <1>3, <1>4, <1>5, <2>1, <2>3
<1>8. QED
  BY <1>6, <1>7
-----------------------------------------------------------------------------
(***************************************************************************)
(* The shape of the state.                                                 *)
(***************************************************************************)

\* The monitor reads only while an event is left, a runner is watched only for a
\* circuit of the suite, and a row is recorded only with a verdict.
EventsLeft ==
  /\ phase = "read" => events # << >>
  /\ Watching \/ phase = "record" => case \in DOMAIN Sizes
  /\ phase = "record" => status # None

Shape == TypeOK /\ EventsLeft

LEMMA SizesLength ==
  /\ Len(Sizes) \in Nat
  /\ DOMAIN Sizes = 1 .. Len(Sizes)
  /\ \A i \in 1 .. Len(Sizes) : Sizes[i] \in Nat
  BY RunnerAssumption

LEMMA EmptyText == Empty \in [Streams -> Seq(Text)]
<1>1. << >> \in Seq(Text)
  BY EmptySeq
<1>2. QED
  BY <1>1 DEF Empty

LEMMA ShapeInit == Init => Shape
<1> SUFFICES ASSUME Init PROVE Shape
  OBVIOUS
<1>1. << >> \in Seq(Reports \cup {"timeout"}) /\ << >> \in Seq(Streams)
  BY EmptySeq
<1>2. case \in 1 .. Len(Sizes) + 1 /\ started \subseteq DOMAIN Sizes
  BY SizesLength DEF Init
<1>3. /\ failures \in Nat /\ left \in 0 .. Repeats /\ foreign \in 0 .. MaxForeign
      /\ quiet \in 0 .. Limit /\ spoke \in 0 .. Limit
  BY RunnerAssumption DEF Init
<1>4. QED
  BY <1>1, <1>2, <1>3, EmptyText DEF Init, Shape, TypeOK, EventsLeft, Watching

LEMMA ShapeSuite == Shape /\ SuiteStep => Shape'
<1> SUFFICES ASSUME Shape, SuiteStep PROVE Shape'
  OBVIOUS
<1> USE RunnerAssumption DEF Shape, TypeOK, EventsLeft, Watching, monitor, runner, text, clock
<1>1. CASE SkipCase
  <2>1. rows' \in Seq(Reports \cup {"timeout"})
    BY <1>1, AppendProperties DEF SkipCase
  <2>2. case' \in 1 .. Len(Sizes) + 1 /\ failures' \in Nat
    BY <1>1, SizesLength DEF SkipCase
  <2>3. QED
    BY <1>1, <2>1, <2>2 DEF SkipCase
<1>2. CASE StartCase
  <2>1. events' \in Seq(Streams) /\ pipe' \in [Streams -> Seq(Text)] /\ buf' \in [Streams -> Seq(Text)]
    BY <1>2, EmptySeq, EmptyText DEF StartCase
  <2>2. /\ left' \in 0 .. Repeats /\ foreign' \in 0 .. MaxForeign
        /\ quiet' \in 0 .. Limit /\ spoke' \in 0 .. Limit
        /\ started' \subseteq DOMAIN Sizes
    BY <1>2, SizesLength DEF StartCase
  <2>3. QED
    BY <1>2, <2>1, <2>2 DEF StartCase
<1>3. CASE RecordCase
  <2>1. case \in 1 .. Len(Sizes) /\ status # None
    BY <1>3, SizesLength DEF RecordCase
  <2>2. rows' \in Seq(Reports \cup {"timeout"})
    BY <1>3, <2>1, AppendProperties DEF RecordCase
  <2>3. case' \in 1 .. Len(Sizes) + 1 /\ failures' \in Nat /\ skipAfter' \in Nat \cup {NoSize}
    BY <1>3, <2>1, SizesLength DEF RecordCase
  <2>4. QED
    BY <1>3, <2>2, <2>3 DEF RecordCase
<1>4. CASE Finish
  BY <1>4 DEF Finish, suite
<1>5. QED
  BY <1>1, <1>2, <1>3, <1>4 DEF SuiteStep

LEMMA ShapeRunner == Shape /\ RunnerStep => Shape'
<1> SUFFICES ASSUME Shape, RunnerStep PROVE Shape'
  OBVIOUS
<1> USE RunnerAssumption DEF Shape, TypeOK, EventsLeft, Watching, suite, monitor, runner, text, clock
<1>1. ASSUME NEW x \in Messages, Say(x)
      PROVE  pipe' \in [Streams -> Seq(Text)] /\ spoke' \in 0 .. Limit
  BY <1>1 DEF Say, Text, Streams
<1>2. CASE Ready
  BY <1>2, <1>1 DEF Ready, Messages
<1>3. CASE Progress
  BY <1>3, <1>1 DEF Progress, Messages
<1>4. ASSUME NEW x \in Reports, Report(x) PROVE Shape'
  BY <1>4, <1>1 DEF Report, Messages
<1>5. ASSUME NEW s \in Streams, NEW piece \in {"foreign", "open"}, WriteForeign(s, piece)
      PROVE  Shape'
  <2>1. Append(pipe[s], piece) \in Seq(Text)
    BY DEF Text
  <2>2. QED
    BY <1>5, <2>1 DEF WriteForeign
<1>6. CASE Die
  BY <1>6 DEF Die
<1>7. QED
  BY <1>2, <1>3, <1>4, <1>5, <1>6 DEF RunnerStep

LEMMA Orders ==
  \A order \in {<<x>> : x \in Streams} \cup {<<"stdout", "stderr">>, <<"stderr", "stdout">>} :
    order \in Seq(Streams) /\ order # << >>
<1>1. \A x \in Streams : <<x>> \in Seq(Streams) /\ <<x>> # << >>
  OBVIOUS
<1>2. \A x, y \in Streams : <<x, y>> \in Seq(Streams) /\ <<x, y>> # << >>
  OBVIOUS
<1>3. "stdout" \in Streams /\ "stderr" \in Streams
  BY DEF Streams
<1>4. QED
  BY <1>1, <1>2, <1>3

LEMMA ShapeMonitor == Shape /\ (MonitorStep \/ Tick) => Shape'
<1> SUFFICES ASSUME Shape, MonitorStep \/ Tick PROVE Shape'
  OBVIOUS
<1> USE RunnerAssumption DEF Shape, TypeOK, EventsLeft, Watching, suite, monitor, runner, text, clock
<1>1. CASE BothEnded
  BY <1>1 DEF BothEnded, Return, Reports, None
<1>2. CASE TimeOut
  BY <1>2 DEF TimeOut, Return, None
<1>3. CASE Select
  BY <1>3 DEF Select
<1>4. CASE Wake
  <2>1. events' \in Seq(Streams) /\ events' # << >>
    BY <1>4, Orders DEF Wake
  <2>2. QED
    BY <1>4, <2>1 DEF Wake
<1>5. CASE Read
  <2> DEFINE s == Head(events)
  <2>1. s \in Streams /\ Tail(events) \in Seq(Streams)
    BY <1>5 DEF Read
  <2>2. events' \in Seq(Streams) /\ phase' \in {"loop", "read"} /\ EventsLeft'
    BY <1>5, <2>1 DEF Read, NextEvent
  <2>3. CASE ReadLine(s)
    <3>1. pipe' \in [Streams -> Seq(Text)] /\ buf' \in [Streams -> Seq(Text)]
      BY <2>1, <2>3, ReadLineTakes
    <3>2. readySeen' \in BOOLEAN /\ result' \in Reports \cup {None} /\ quiet' \in 0 .. Limit
      BY <2>3 DEF ReadLine, Handle
    <3>3. QED
      BY <1>5, <2>2, <2>3, <3>1, <3>2 DEF Read, ReadLine
  <2>4. CASE ReadEnd(s)
    BY <1>5, <2>1, <2>2, <2>4 DEF Read, ReadEnd
  <2>5. QED
    BY <1>5, <2>3, <2>4 DEF Read
<1>6. CASE Tick
  BY <1>6 DEF Tick, Later
<1>7. QED
  BY <1>1, <1>2, <1>3, <1>4, <1>5, <1>6 DEF MonitorStep

LEMMA ShapeStep == Shape /\ [Next]_vars => Shape'
<1>1. Shape /\ UNCHANGED vars => Shape'
  BY DEF Shape, TypeOK, EventsLeft, Watching, vars, suite, monitor, runner, text, clock
<1>2. QED
  BY <1>1, ShapeSuite, ShapeRunner, ShapeMonitor DEF Next, Stopped

\* The state keeps its shape, whatever the suite and the bounds.
THEOREM TypeCorrect == Spec => []TypeOK
<1>1. Shape => TypeOK
  BY DEF Shape
<1>2. QED
  BY <1>1, ShapeInit, ShapeStep, PTL DEF Spec
-----------------------------------------------------------------------------
(***************************************************************************)
(* What the monitor knows of the runner's messages.                        *)
(***************************************************************************)

\* There is no message in the text t.
Plain(t) == \A i \in 1 .. Len(t) : t[i] \notin Messages

\* No message of t is part of an open line.
Ordered(t) == \A i \in 2 .. Len(t) : t[i] \in Messages => t[i - 1] # "open"

\* Every report in t is r; r is in t.
Names(t, r) == \A i \in 1 .. Len(t) : t[i] \in Reports => t[i] = r
Holds(t, r) == \E i \in 1 .. Len(t) : t[i] = r

LEMMA NothingUnread ==
  /\ Plain(<< >>) /\ Ordered(<< >>)
  /\ \A r : Names(<< >>, r) /\ ~Holds(<< >>, r)
<1>1. Len(<< >>) = 0
  OBVIOUS
<1>2. QED
  BY <1>1 DEF Plain, Ordered, Names, Holds

LEMMA OnlyOpen ==
  LET t == <<"open">> IN Plain(t) /\ \A r \in Reports : ~Holds(t, r)
  BY DEF Plain, Holds, Messages, Reports

\* One more piece at the end of a text.
LEMMA AppendPiece ==
  ASSUME NEW t \in Seq(Text), NEW x \in Text, NEW u \in Seq(Text),
         Len(u) = Len(t) + 1, u[Len(t) + 1] = x,
         \A i \in 1 .. Len(t) : u[i] = t[i]
  PROVE  /\ Plain(t) /\ x \notin Messages => Plain(u)
         /\ Plain(u) => Plain(t) /\ x \notin Messages
         /\ Ordered(t) /\ (x \in Messages => t = << >> \/ t[Len(t)] # "open") => Ordered(u)
         /\ \A r : Names(t, r) /\ (x \in Reports => x = r) => Names(u, r)
         /\ \A r : Holds(u, r) <=> Holds(t, r) \/ x = r
<1>1. Len(t) \in Nat /\ (Len(t) >= 1 => t # << >>)
  OBVIOUS
<1>2. Plain(t) /\ x \notin Messages => Plain(u)
  BY <1>1 DEF Plain
<1>3. Plain(u) => Plain(t) /\ x \notin Messages
  BY <1>1 DEF Plain
<1>4. Ordered(t) /\ (x \in Messages => t = << >> \/ t[Len(t)] # "open") => Ordered(u)
  BY <1>1 DEF Ordered
<1>5. \A r : Names(t, r) /\ (x \in Reports => x = r) => Names(u, r)
  BY <1>1 DEF Names
<1>6. \A r : Holds(u, r) <=> Holds(t, r) \/ x = r
  BY <1>1 DEF Holds
<1>7. QED
  BY <1>2, <1>3, <1>4, <1>5, <1>6

\* The first line taken from the front of a text.
LEMMA DropLine ==
  ASSUME NEW t \in Seq(Text), HasLine(t), Ordered(t), NEW u \in Seq(Text),
         Len(u) = Len(t) - Taken(t),
         \A i \in 1 .. Len(u) : u[i] = t[i + Taken(t)]
  PROVE  /\ Plain(t) => Plain(u) /\ Line(t) \notin Messages
         /\ Plain(u) /\ Line(t) \notin Messages => Plain(t)
         /\ Ordered(u)
         /\ \A r : Names(t, r) => Names(u, r) /\ (Line(t) \in Reports => Line(t) = r)
         /\ \A r \in Reports : Holds(t, r) => Holds(u, r) \/ Line(t) = r
<1>1. t # << >> /\ Len(t) >= 1 /\ Head(t) = t[1] /\ Len(t) \in Nat
  BY DEF HasLine
<1>2. Taken(t) \in {1, 2} /\ Taken(t) <= Len(t)
  BY RestOfText DEF Taken
<1>3. Messages = {"ready", "progress", "pass", "error"} /\ Reports = {"pass", "error"}
  BY DEF Messages, Reports
<1>4. CASE t[1] = "open"
  <2>1. Taken(t) = 2 /\ Line(t) = "foreign"
    BY <1>1, <1>4 DEF Taken, Line
  <2>2. t[2] \notin Messages /\ Len(t) >= 2
    BY <1>2, <1>4, <2>1 DEF Ordered
  <2>3. \A i \in 1 .. Len(t) : i = 1 \/ i = 2 \/ (i - 2 \in 1 .. Len(u) /\ u[i - 2] = t[i])
    <3> SUFFICES ASSUME NEW i \in 1 .. Len(t), i # 1, i # 2
                 PROVE  i - 2 \in 1 .. Len(u) /\ u[i - 2] = t[i]
      OBVIOUS
    <3>1. i - 2 \in 1 .. Len(u) /\ (i - 2) + 2 = i
      BY <1>1, <2>1
    <3>2. QED
      BY <2>1, <3>1
  <2>4. Plain(t) <=> Plain(u)
    <3>1. Plain(t) => Plain(u)
      BY <1>1, <2>1 DEF Plain
    <3>2. Plain(u) => Plain(t)
      BY <1>3, <1>4, <2>2, <2>3 DEF Plain
    <3>3. QED
      BY <3>1, <3>2
  <2>5. Ordered(u)
    <3> SUFFICES ASSUME NEW i \in 2 .. Len(u), u[i] \in Messages PROVE u[i - 1] # "open"
      BY DEF Ordered
    <3>1. i \in 1 .. Len(u) /\ i - 1 \in 1 .. Len(u) /\ i + 2 \in 2 .. Len(t) /\ (i - 1) + 2 = (i + 2) - 1
      BY <1>1, <2>1
    <3>2. u[i] = t[i + 2] /\ u[i - 1] = t[(i + 2) - 1]
      BY <2>1, <3>1
    <3>3. QED
      BY <3>1, <3>2 DEF Ordered
  <2>6. \A r : Names(t, r) => Names(u, r)
    BY <1>1, <2>1 DEF Names
  <2>7. \A r \in Reports : Holds(t, r) => Holds(u, r)
    BY <1>3, <1>4, <2>2, <2>3 DEF Holds
  <2>8. QED
    BY <1>3, <2>1, <2>4, <2>5, <2>6, <2>7
<1>5. CASE t[1] # "open"
  <2>1. Taken(t) = 1 /\ Line(t) = t[1]
    BY <1>1, <1>5 DEF Taken, Line
  <2>3. \A i \in 1 .. Len(t) : i = 1 \/ (i - 1 \in 1 .. Len(u) /\ u[i - 1] = t[i])
    <3> SUFFICES ASSUME NEW i \in 1 .. Len(t), i # 1
                 PROVE  i - 1 \in 1 .. Len(u) /\ u[i - 1] = t[i]
      OBVIOUS
    <3>1. i - 1 \in 1 .. Len(u) /\ (i - 1) + 1 = i
      BY <1>1, <2>1
    <3>2. QED
      BY <2>1, <3>1
  <2>4. Plain(t) <=> Plain(u) /\ Line(t) \notin Messages
    <3>1. Plain(t) => Plain(u) /\ Line(t) \notin Messages
      BY <1>1, <2>1 DEF Plain
    <3>2. Plain(u) /\ Line(t) \notin Messages => Plain(t)
      BY <2>1, <2>3 DEF Plain
    <3>3. QED
      BY <3>1, <3>2
  <2>5. Ordered(u)
    <3> SUFFICES ASSUME NEW i \in 2 .. Len(u), u[i] \in Messages PROVE u[i - 1] # "open"
      BY DEF Ordered
    <3>1. i \in 1 .. Len(u) /\ i - 1 \in 1 .. Len(u) /\ i + 1 \in 2 .. Len(t) /\ (i - 1) + 1 = (i + 1) - 1
      BY <1>1, <2>1
    <3>2. u[i] = t[i + 1] /\ u[i - 1] = t[(i + 1) - 1]
      BY <2>1, <3>1
    <3>3. QED
      BY <3>1, <3>2 DEF Ordered
  <2>6. \A r : Names(t, r) => Names(u, r) /\ (Line(t) \in Reports => Line(t) = r)
    BY <1>1, <2>1 DEF Names
  <2>7. \A r \in Reports : Holds(t, r) => Holds(u, r) \/ Line(t) = r
    BY <2>1, <2>3 DEF Holds
  <2>8. QED
    BY <2>4, <2>5, <2>6, <2>7
<1>6. QED
  BY <1>4, <1>5

\* The part of the invariant about what was said and what was heard: reports are
\* unread or taken, nothing is left on a stream that has ended, and with no
\* message unread the monitor's clock does not run ahead of the silence.
Heard ==
  /\ Plain(Unread("stderr"))
  /\ Ordered(Unread("stdout"))
  /\ Names(Unread("stdout"), reported)
  /\ life \in {"preparing", "running"} => reported = None
  /\ result # None => result = reported
  /\ reported # None => result = reported \/ Holds(Unread("stdout"), reported)
  /\ Watching /\ "stdout" \notin registered => Unread("stdout") = << >> /\ life = "dead"
  /\ Plain(Unread("stdout")) => quiet <= spoke
  /\ phase = "record" /\ status = "timeout" => quiet = Limit

LEMMA UnreadType ==
  ASSUME Shape, NEW s \in Streams
  PROVE  /\ Unread(s) \in Seq(Text)
         /\ Open(s) <=> Unread(s) # << >> /\ Unread(s)[Len(Unread(s))] = "open"
  BY DEF Shape, TypeOK, Unread, Open

\* A piece written to the pipe is the last of what is unread.
LEMMA Written ==
  ASSUME Shape, NEW s \in Streams, NEW x \in Text,
         pipe' = [pipe EXCEPT ![s] = Append(@, x)], buf' = buf
  PROVE  /\ Unread(s)' \in Seq(Text) /\ Len(Unread(s)') = Len(Unread(s)) + 1
         /\ Unread(s)'[Len(Unread(s)) + 1] = x
         /\ \A i \in 1 .. Len(Unread(s)) : Unread(s)'[i] = Unread(s)[i]
         /\ \A r \in Streams \ {s} : Unread(r)' = Unread(r)
<1>1. buf[s] \in Seq(Text) /\ pipe[s] \in Seq(Text)
  BY DEF Shape, TypeOK
<1>2. pipe'[s] = Append(pipe[s], x) /\ \A r \in Streams \ {s} : pipe'[r] = pipe[r]
  BY DEF Shape, TypeOK
<1>3. \A b, p \in Seq(Text) :
        /\ b \o Append(p, x) \in Seq(Text)
        /\ Len(b \o Append(p, x)) = Len(b \o p) + 1
        /\ (b \o Append(p, x))[Len(b \o p) + 1] = x
        /\ \A i \in 1 .. Len(b \o p) : (b \o Append(p, x))[i] = (b \o p)[i]
  OBVIOUS
<1>4. Unread(s)' = buf[s] \o Append(pipe[s], x) /\ Unread(s) = buf[s] \o pipe[s]
  BY <1>2 DEF Unread
<1>5. \A r \in Streams \ {s} : Unread(r)' = Unread(r)
  BY <1>2 DEF Unread
<1> DEFINE b == buf[s]
           p == pipe[s]
<1>6. b \in Seq(Text) /\ p \in Seq(Text) /\ Unread(s)' = b \o Append(p, x) /\ Unread(s) = b \o p
  BY <1>1, <1>4
<1> HIDE DEF b, p
<1>7. QED
  BY <1>3, <1>5, <1>6

LEMMA HeardInit == Init => Heard
<1> SUFFICES ASSUME Init PROVE Heard
  OBVIOUS
<1>1. << >> \o << >> = << >>
  OBVIOUS
<1>2. Unread("stderr") = << >> /\ Unread("stdout") = << >>
  BY <1>1 DEF Init, Empty, Unread, Streams
<1>3. QED
  BY <1>2, NothingUnread DEF Init, Heard, None, Watching

LEMMA HeardSuite == Shape /\ Heard /\ SuiteStep => Heard'
<1> SUFFICES ASSUME Shape, Heard, SuiteStep PROVE Heard'
  OBVIOUS
<1>1. CASE StartCase
  <2>1. << >> \o << >> = << >>
    OBVIOUS
  <2>2. Unread("stderr")' = << >> /\ Unread("stdout")' = << >>
    BY <1>1, <2>1 DEF StartCase, Empty, Unread, Streams
  <2>3. /\ reported' = None /\ result' = None /\ quiet' = 0 /\ spoke' = 0 /\ phase' = "loop"
        /\ registered' = Streams
    BY <1>1 DEF StartCase
  <2>4. QED
    BY <2>2, <2>3, NothingUnread DEF Heard, Streams
<1>2. CASE SkipCase \/ RecordCase \/ Finish
  <2>1. UNCHANGED <<pipe, buf, reported, life, result, registered, quiet, spoke, status>>
    BY <1>2 DEF SkipCase, RecordCase, Finish, monitor, runner, text, clock
  <2>2. ~Watching' /\ phase' # "record"
    BY <1>2 DEF SkipCase, RecordCase, Finish, Watching
  <2>3. QED
    BY <2>1, <2>2 DEF Heard, Unread
<1>3. QED
  BY <1>1, <1>2 DEF SuiteStep

LEMMA HeardSay ==
  ASSUME Shape, Heard, NEW x \in Messages, Say(x), UNCHANGED <<buf, registered, quiet>>,
         reported' = IF Open("stdout") \/ x \notin Reports THEN reported ELSE x,
         x \in Reports => reported = None
  PROVE  /\ Plain(Unread("stderr"))'
         /\ Ordered(Unread("stdout"))'
         /\ Names(Unread("stdout"), reported)'
         /\ (reported # None => result = reported \/ Holds(Unread("stdout"), reported))
              /\ UNCHANGED result
              => (reported # None => result = reported \/ Holds(Unread("stdout"), reported))'
         /\ (Plain(Unread("stdout")) => quiet <= spoke)'
<1> DEFINE t == Unread("stdout")
           y == IF Open("stdout") THEN "foreign" ELSE x
<1>1. "stdout" \in Streams /\ "stderr" \in Streams \ {"stdout"}
  BY DEF Streams
<1>2. y \in Text /\ (y \in Messages => y = x /\ ~Open("stdout")) /\ t \in Seq(Text)
  BY <1>1, UnreadType DEF Text, Messages, Reports
<1>3. y \in Messages => t = << >> \/ t[Len(t)] # "open"
  BY <1>1, <1>2, UnreadType
<1>4. pipe' = [pipe EXCEPT !["stdout"] = Append(@, y)] /\ buf' = buf
  BY DEF Say
<1>5. /\ t' \in Seq(Text) /\ Len(t') = Len(t) + 1 /\ t'[Len(t) + 1] = y
      /\ \A i \in 1 .. Len(t) : t'[i] = t[i]
      /\ Unread("stderr")' = Unread("stderr")
  BY <1>1, <1>2, <1>4, Written
<1> DEFINE u == t'
<1>6. u \in Seq(Text) /\ Len(u) = Len(t) + 1 /\ u[Len(t) + 1] = y /\ \A i \in 1 .. Len(t) : u[i] = t[i]
  BY <1>5
<1>7. Ordered(t) /\ Names(t, reported)
  BY DEF Heard
<1>8. reported = None => Names(t, reported')
  BY <1>7 DEF Names, Reports, None
<1> HIDE DEF t, u, y
<1>9. /\ Plain(u) => Plain(t) /\ y \notin Messages
      /\ Ordered(u)
      /\ \A r : Names(t, r) /\ (y \in Reports => y = r) => Names(u, r)
      /\ \A r : Holds(u, r) <=> Holds(t, r) \/ y = r
  BY <1>2, <1>3, <1>6, <1>7, AppendPiece
<1>10. Plain(Unread("stderr"))'
  BY <1>5 DEF Heard, Plain
<1>11. y \in Reports => y = reported'
  BY <1>2 DEF Messages, y
<1>12. Names(t, reported')
  BY <1>7, <1>8
<1>13. Names(u, reported')
  BY <1>9, <1>11, <1>12
<1>14. reported' # None => reported' = reported \/ reported' = y
  BY DEF y
<1>15. Plain(u) => quiet' <= spoke'
  <2>1. SUFFICES ASSUME Plain(u) PROVE quiet' <= spoke'
    OBVIOUS
  <2>2. Plain(t) /\ Open("stdout")
    BY <1>2, <1>9, <2>1 DEF y
  <2>3. QED
    BY <2>2 DEF Say, Heard, t
<1>16. QED
  BY <1>9, <1>10, <1>13, <1>14, <1>15 DEF t, u

LEMMA HeardRunner == Shape /\ Heard /\ RunnerStep => Heard'
<1> SUFFICES ASSUME Shape, Heard, RunnerStep PROVE Heard'
  OBVIOUS
<1> USE DEF monitor, runner, text, clock
<1>1. CASE Ready
  <2>1. /\ Say("ready") /\ UNCHANGED <<phase, registered, result, status, reported, buf, quiet>>
        /\ "ready" \in Messages \ Reports /\ life = "preparing" /\ life' = "running" /\ Watching
    BY <1>1 DEF Ready, Messages, Reports
  <2>2. reported = None /\ phase # "record" /\ "stdout" \in registered
    BY <2>1 DEF Heard, Watching
  <2>3. QED
    BY <2>1, <2>2, HeardSay DEF Heard, Watching
<1>2. CASE Progress
  <2>1. /\ Say("progress") /\ UNCHANGED <<phase, registered, result, status, reported, buf, quiet>>
        /\ "progress" \in Messages \ Reports /\ life = "running" /\ life' = life /\ Watching
    BY <1>2 DEF Progress, Messages, Reports
  <2>2. reported = None /\ phase # "record" /\ "stdout" \in registered
    BY <2>1 DEF Heard, Watching
  <2>3. QED
    BY <2>1, <2>2, HeardSay DEF Heard, Watching
<1>3. ASSUME NEW x \in Reports, Report(x) PROVE Heard'
  <2>1. /\ Say(x) /\ UNCHANGED <<phase, registered, result, status, buf, quiet>>
        /\ x \in Messages /\ life \in {"preparing", "running"} /\ life' = "exiting" /\ Watching
        /\ reported' = IF Open("stdout") THEN None ELSE x
    BY <1>3 DEF Report, Messages
  <2>2. reported = None /\ phase # "record" /\ "stdout" \in registered /\ result = None
    BY <2>1 DEF Heard, Watching
  <2>3. QED
    BY <2>1, <2>2, <1>3, HeardSay DEF Heard, Watching
<1>4. ASSUME NEW s \in Streams, NEW piece \in {"foreign", "open"}, WriteForeign(s, piece)
      PROVE  Heard'
  <2> DEFINE t == Unread(s)
             u == t'
  <2>1. /\ pipe' = [pipe EXCEPT ![s] = Append(@, piece)] /\ Watching /\ life # "dead"
        /\ UNCHANGED <<phase, registered, result, status, life, reported, buf, quiet, spoke>>
    BY <1>4 DEF WriteForeign
  <2>2. piece \in Text /\ piece \notin Messages /\ piece \notin Reports
    BY DEF Text, Messages, Reports
  <2>3. /\ u \in Seq(Text) /\ Len(u) = Len(t) + 1 /\ u[Len(t) + 1] = piece
        /\ \A i \in 1 .. Len(t) : u[i] = t[i]
        /\ \A r \in Streams \ {s} : Unread(r)' = Unread(r)
    BY <2>1, <2>2, Written
  <2>4. t \in Seq(Text)
    BY UnreadType
  <2> HIDE DEF t, u
  <2>5. /\ Plain(t) <=> Plain(u)
        /\ Ordered(t) => Ordered(u)
        /\ \A r : Names(t, r) => Names(u, r)
        /\ \A r : Holds(t, r) => Holds(u, r)
    BY <2>2, <2>3, <2>4, AppendPiece
  <2>6. CASE s = "stdout"
    <3>1. Unread("stderr")' = Unread("stderr") /\ t = Unread("stdout") /\ u = Unread("stdout")'
      BY <2>3, <2>6 DEF Streams, t, u
    <3>2. QED
      BY <2>1, <2>5, <3>1 DEF Heard, Watching
  <2>7. CASE s = "stderr"
    <3>1. Unread("stdout")' = Unread("stdout") /\ t = Unread("stderr") /\ u = Unread("stderr")'
      BY <2>3, <2>7 DEF Streams, t, u
    <3>2. QED
      BY <2>1, <2>5, <3>1 DEF Heard, Watching
  <2>8. QED
    BY <2>6, <2>7 DEF Streams
<1>5. CASE Die
  BY <1>5 DEF Die, Heard, Unread, Watching
<1>6. QED
  BY <1>1, <1>2, <1>3, <1>4, <1>5 DEF RunnerStep

\* Reading the first line of a stream.
LEMMA HeardLine ==
  ASSUME Shape, Heard, NEW s \in Streams, ReadLine(s),
         UNCHANGED <<runner, status, spoke>>, Watching, Watching'
  PROVE  Heard'
<1> DEFINE t == Unread(s)
           u == t'
           l == Line(Reach(s))
<1>1. /\ HasLine(t) /\ l = Line(t) /\ u \in Seq(Text) /\ Len(u) = Len(t) - Taken(t)
      /\ \A i \in 1 .. Len(u) : u[i] = t[i + Taken(t)]
      /\ \A r \in Streams \ {s} : Unread(r)' = Unread(r)
  BY ReadLineTakes DEF Shape
<1>2. t \in Seq(Text)
  BY UnreadType
<1>3. /\ registered' = registered /\ readySeen' = (readySeen \/ l = "ready")
      /\ result' = IF l \in Reports THEN l ELSE result
      /\ quiet' = IF l \in Messages THEN 0 ELSE quiet
  BY DEF ReadLine, Handle
<1>4. UNCHANGED <<life, reported, spoke>> /\ spoke \in Nat /\ phase' # "record"
  BY RunnerAssumption DEF runner, Shape, TypeOK, Watching
<1>5. CASE s = "stdout"
  <2>1. t = Unread("stdout") /\ u = Unread("stdout")' /\ Unread("stderr")' = Unread("stderr")
    BY <1>1, <1>5 DEF Streams
  <2>2. t # << >>
    BY <1>1 DEF HasLine
  <2> HIDE DEF t, u, l
  <2>3. Ordered(t) /\ Names(t, reported) /\ "stdout" \in registered
    BY <2>1, <2>2 DEF Heard
  <2>4. /\ Plain(u) /\ l \notin Messages => Plain(t)
        /\ Ordered(u)
        /\ Names(u, reported) /\ (l \in Reports => l = reported)
        /\ \A r \in Reports : Holds(t, r) => Holds(u, r) \/ l = r
    BY <1>1, <1>2, <2>3, DropLine
  <2>5. result' # None => result' = reported'
    BY <1>3, <1>4, <2>4 DEF Heard
  <2>6. reported' # None => result' = reported' \/ Holds(u, reported')
    <3>1. reported # None => reported \in Reports /\ (result = reported \/ Holds(t, reported))
      BY <2>1 DEF Heard, Shape, TypeOK
    <3>2. QED
      BY <1>3, <1>4, <2>4, <3>1
  <2>7. Plain(u) => quiet' <= spoke'
    BY <1>3, <1>4, <2>1, <2>4 DEF Heard
  <2>8. QED
    BY <1>3, <1>4, <2>1, <2>3, <2>4, <2>5, <2>6, <2>7 DEF Heard
<1>6. CASE s = "stderr"
  <2>1. t = Unread("stderr") /\ u = Unread("stderr")' /\ Unread("stdout")' = Unread("stdout")
    BY <1>1, <1>6 DEF Streams
  <2> HIDE DEF t, u, l
  <2>2. Plain(t)
    BY <2>1 DEF Heard
  <2>3. Ordered(t)
    BY <1>2, <2>2 DEF Plain, Ordered
  <2>4. Plain(u) /\ l \notin Messages /\ l \notin Reports
    BY <1>1, <1>2, <2>2, <2>3, DropLine DEF Messages
  <2>5. QED
    BY <1>3, <1>4, <2>1, <2>4 DEF Heard
<1>7. QED
  BY <1>5, <1>6 DEF Streams

\* Reading the end of a stream: of an open line, and then of the stream.
LEMMA HeardEnd ==
  ASSUME Shape, Heard, NEW s \in Streams, ReadEnd(s),
         UNCHANGED <<runner, status, spoke>>, Watching, Watching'
  PROVE  Heard'
<1>1. buf[s] \in Seq(Text) /\ pipe[s] \in Seq(Text)
  BY DEF Shape, TypeOK
<1>2. Reach(s) = Unread(s) /\ Unread(s) \in {<< >>, <<"open">>}
  BY DEF ReadEnd, Reach, HasLine, Unread
<1>3. << >> \o << >> = << >>
  OBVIOUS
<1>4. Unread(s)' = << >> /\ \A r \in Streams \ {s} : Unread(r)' = Unread(r)
  BY <1>3 DEF ReadEnd, Unread, Shape, TypeOK
<1>5. /\ UNCHANGED <<life, reported, spoke, quiet, result>> /\ phase' # "record" /\ life = "dead"
      /\ \A r \in Streams : r \notin registered' => r \notin registered \/ (r = s /\ Unread(s) = << >>)
  BY <1>2 DEF runner, Watching, ReadEnd
<1>6. Plain(Unread(s)) /\ \A r \in Reports : ~Holds(Unread(s), r)
  BY <1>2, OnlyOpen, NothingUnread
<1>7. CASE s = "stdout"
  <2>1. Unread("stderr")' = Unread("stderr") /\ Unread("stdout")' = << >>
    BY <1>4, <1>7 DEF Streams
  <2>2. reported # None => result = reported
    BY <1>6, <1>7 DEF Heard, Shape, TypeOK
  <2>3. QED
    BY <1>5, <1>6, <1>7, <2>1, <2>2, NothingUnread DEF Heard
<1>8. CASE s = "stderr"
  <2>1. Unread("stdout")' = Unread("stdout") /\ Unread("stderr")' = << >>
    BY <1>4, <1>8 DEF Streams
  <2>2. "stdout" \notin registered' => "stdout" \notin registered
    BY <1>5, <1>8 DEF Streams
  <2>3. QED
    BY <1>5, <2>1, <2>2, NothingUnread DEF Heard
<1>9. QED
  BY <1>7, <1>8 DEF Streams

LEMMA HeardMonitor == Shape /\ Heard /\ (MonitorStep \/ Tick) => Heard'
<1> SUFFICES ASSUME Shape, Heard, MonitorStep \/ Tick PROVE Heard'
  OBVIOUS
<1> USE DEF text, clock
<1>1. CASE BothEnded \/ TimeOut
  <2>1. /\ UNCHANGED <<pipe, buf, reported, result, registered, quiet, spoke>>
        /\ life' = "dead" /\ phase' = "record" /\ (status' = "timeout" => quiet = Limit)
    BY <1>1, RunnerAssumption
       DEF BothEnded, TimeOut, Return, Expired, Shape, TypeOK, Reports, None
  <2>2. QED
    BY <2>1 DEF Heard, Unread, Watching
<1>2. CASE Select \/ Wake
  <2>1. /\ UNCHANGED <<pipe, buf, reported, result, registered, quiet, spoke, life>>
        /\ Watching /\ phase' # "record"
    BY <1>2 DEF Select, Wake, monitor, runner, Watching
  <2>2. QED
    BY <2>1 DEF Heard, Unread
<1>3. CASE Read
  <2> DEFINE s == Head(events)
  <2>1. s \in Streams /\ Watching /\ Watching' /\ UNCHANGED <<runner, status, spoke>>
    BY <1>3 DEF Read, NextEvent, Watching, Shape, TypeOK, EventsLeft
  <2>2. ReadLine(s) \/ ReadEnd(s)
    BY <1>3 DEF Read
  <2> HIDE DEF s
  <2>3. QED
    BY <2>1, <2>2, HeardLine, HeardEnd
<1>4. CASE Tick
  <2>1. UNCHANGED <<pipe, buf, reported, result, registered, phase, status, life>>
    BY <1>4 DEF Tick, monitor, runner
  <2>2. (quiet <= spoke => quiet' <= spoke') /\ phase # "record"
    BY <1>4, RunnerAssumption DEF Tick, Later, Held, Shape, TypeOK
  <2>3. QED
    BY <2>1, <2>2 DEF Heard, Unread, Watching
<1>5. QED
  BY <1>1, <1>2, <1>3, <1>4 DEF MonitorStep

LEMMA HeardStep == Shape /\ Heard /\ [Next]_vars => Heard'
<1>1. Heard /\ UNCHANGED vars => Heard'
  BY DEF Heard, Unread, Watching, vars, suite, monitor, runner, text, clock
<1>2. QED
  BY <1>1, HeardSuite, HeardRunner, HeardMonitor DEF Next, Stopped

\* A runner is stopped for silence only when it was silent for the whole limit, or
\* has a message that readline() has not returned yet.
THEOREM SilenceBeforeTimeout == Spec => []TimeoutMeansSilence
<1>1. Shape /\ Heard => TimeoutMeansSilence
  <2> SUFFICES ASSUME Shape, Heard, phase = "record", status = "timeout", spoke # Limit
               PROVE  \E m \in Messages : \E i \in DOMAIN Unread("stdout") : Unread("stdout")[i] = m
    BY DEF TimeoutMeansSilence, Unread
  <2>1. ~Plain(Unread("stdout"))
    BY RunnerAssumption DEF Heard, Shape, TypeOK
  <2>2. DOMAIN Unread("stdout") = 1 .. Len(Unread("stdout"))
    BY UnreadType DEF Streams
  <2>3. QED
    BY <2>1, <2>2 DEF Plain
<1>2. QED
  BY <1>1, HeardInit, HeardStep, ShapeInit, ShapeStep, PTL DEF Spec

\* The verdict of a finished circuit is its runner's report, whatever else was
\* written and however the runner ended, or a timeout; without one it is no pass.
THEOREM ReportKept == Spec => []ReportIsRecorded
<1>1. Init => ReportIsRecorded
  BY DEF Init, ReportIsRecorded
<1>2. Shape /\ Heard /\ ReportIsRecorded /\ [Next]_vars => ReportIsRecorded'
  <2> SUFFICES ASSUME Shape, Heard, ReportIsRecorded, [Next]_vars, phase' = "record"
               PROVE  ReportIsRecorded'
    BY DEF ReportIsRecorded
  <2>1. CASE BothEnded
    <3>1. /\ UNCHANGED reported /\ status' = IF result = None THEN "error" ELSE result
          /\ Watching /\ registered = {}
      BY <2>1 DEF BothEnded, Return, Watching
    <3>2. Unread("stdout") = << >>
      BY <3>1 DEF Heard
    <3>3. reported # None => result = reported
      BY <3>2, NothingUnread DEF Heard
    <3>4. reported = None => result = None
      BY DEF Heard
    <3>5. QED
      BY <3>1, <3>3, <3>4 DEF ReportIsRecorded
  <2>2. CASE TimeOut
    BY <2>2 DEF TimeOut, Return, ReportIsRecorded
  <2>3. CASE UNCHANGED vars
    BY <2>3 DEF vars, monitor, runner, ReportIsRecorded
  <2>4. ~(SuiteStep \/ RunnerStep \/ Tick \/ Select \/ Wake \/ Read \/ Stopped)
    BY DEF SuiteStep, SkipCase, StartCase, RecordCase, Finish, RunnerStep, Ready, Progress, Die,
           Report, WriteForeign, Tick, Held, Select, Wake, Read, NextEvent, Stopped, Watching, vars
  <2>5. QED
    BY <2>1, <2>2, <2>3, <2>4 DEF Next, MonitorStep
<1>3. QED
  BY <1>1, <1>2, HeardInit, HeardStep, ShapeInit, ShapeStep, PTL DEF Spec
-----------------------------------------------------------------------------
(***************************************************************************)
(* The rows.                                                               *)
(***************************************************************************)
Busy == Watching \/ phase = "record"
TimedOut(j) == j \in started /\ j < case /\ rows[j] = "timeout"
Failed(r) == {i \in DOMAIN r : r[i] # "pass"}

\* The part of the invariant about the rows: skipAfter is the size of the smallest
\* circuit that timed out, if larger ones are to be skipped.
Accounted ==
  /\ RowsAccount
  /\ \A i \in started : i < case \/ (i = case /\ Busy)
  /\ Busy => case \in started /\ ~TooLarge(Sizes[case])
  /\ skipAfter = NoSize => ~(skipLarger /\ \E j \in started : TimedOut(j))
  /\ skipAfter # NoSize =>
       /\ skipLarger
       /\ \E j \in started : TimedOut(j) /\ Sizes[j] = skipAfter
       /\ \A j \in started : TimedOut(j) => skipAfter <= Sizes[j]

\* One more row is one more failure, unless the circuit passed.
LEMMA FailedAppend ==
  ASSUME NEW S, NEW r \in Seq(S), NEW v \in S
  PROVE  Cardinality(Failed(Append(r, v))) = Cardinality(Failed(r)) + (IF v = "pass" THEN 0 ELSE 1)
<1>1. /\ Len(r) \in Nat /\ DOMAIN r = 1 .. Len(r)
      /\ DOMAIN Append(r, v) = 1 .. Len(r) + 1
      /\ \A i \in 1 .. Len(r) : Append(r, v)[i] = r[i]
      /\ Append(r, v)[Len(r) + 1] = v
  OBVIOUS
<1>2. IsFiniteSet(1 .. Len(r))
  BY <1>1, FS_Interval
<1>3. IsFiniteSet(Failed(r)) /\ Cardinality(Failed(r)) \in Nat
  <2>1. Failed(r) \subseteq 1 .. Len(r)
    BY <1>1 DEF Failed
  <2>2. QED
    BY <1>2, <2>1, FS_Subset, FS_CardinalityType
<1>4. Len(r) + 1 \notin Failed(r)
  BY <1>1 DEF Failed
<1>5. Failed(Append(r, v)) = IF v = "pass" THEN Failed(r) ELSE Failed(r) \cup {Len(r) + 1}
  BY <1>1 DEF Failed
<1>6. Cardinality(Failed(r) \cup {Len(r) + 1}) = Cardinality(Failed(r)) + 1
  BY <1>3, <1>4, FS_AddElement
<1>7. QED
  BY <1>3, <1>5, <1>6

LEMMA AccountedInit == Init => Accounted
<1> SUFFICES ASSUME Init PROVE Accounted
  OBVIOUS
<1>1. rows = << >> /\ case = 1 /\ failures = 0 /\ started = {} /\ ~Busy /\ skipAfter = NoSize
  BY DEF Init, Busy, Watching
<1>2. {i \in DOMAIN rows : rows[i] # "pass"} = {}
  BY <1>1
<1>3. Cardinality({i \in DOMAIN rows : rows[i] # "pass"}) = 0
  BY <1>2, FS_EmptySet
<1>4. DOMAIN rows = {} /\ Len(rows) = 0
  BY <1>1
<1>5. QED
  BY <1>1, <1>3, <1>4 DEF Accounted, RowsAccount

\* A circuit is too large exactly when a smaller one has timed out.
LEMMA TooLargeMeaning ==
  ASSUME Shape, Accounted, NEW n \in Nat
  PROVE  TooLarge(n) <=> skipLarger /\ \E j \in started : TimedOut(j) /\ Sizes[j] < n
<1>1. \A j \in started : Sizes[j] \in Nat
  BY SizesLength DEF Shape, TypeOK
<1>2. skipAfter \in Int
  BY DEF Shape, TypeOK, NoSize
<1>3. CASE skipAfter = NoSize
  BY <1>3 DEF TooLarge, Accounted
<1>4. CASE skipAfter # NoSize
  <2>1. PICK j \in started : TimedOut(j) /\ Sizes[j] = skipAfter
    BY <1>4 DEF Accounted
  <2>2. \A k \in started : TimedOut(k) => skipAfter <= Sizes[k]
    BY <1>4 DEF Accounted
  <2>3. skipLarger
    BY <1>4 DEF Accounted
  <2>4. TooLarge(n) <=> n > skipAfter
    BY <1>4 DEF TooLarge
  <2> HIDE DEF TimedOut
  <2>5. QED
    BY <1>1, <1>2, <2>1, <2>2, <2>3, <2>4
<1>5. QED
  BY <1>3, <1>4

LEMMA RowsType ==
  ASSUME Shape, Accounted
  PROVE  /\ rows \in Seq(Reports \cup {"timeout"}) /\ Len(rows) = case - 1
         /\ case \in Nat \ {0} /\ started \subseteq Nat \ {0}
         /\ \A i \in started : i <= case
<1>1. rows \in Seq(Reports \cup {"timeout"}) /\ case \in 1 .. Len(Sizes) + 1 /\ started \subseteq DOMAIN Sizes
  BY DEF Shape, TypeOK
<1>2. Len(rows) = case - 1
  BY DEF Accounted, RowsAccount
<1>3. case \in Nat \ {0} /\ started \subseteq Nat \ {0}
  BY <1>1, SizesLength
<1>4. \A i \in started : i <= case
  <2>1. \A i \in started : i < case \/ i = case
    BY DEF Accounted
  <2>2. QED
    BY <1>3, <2>1
<1>5. QED
  BY <1>1, <1>2, <1>3, <1>4

\* The row of the circuit in hand, with a runner or without one.
LEMMA AccountedRow ==
  ASSUME Shape, Accounted, case \in DOMAIN Sizes, NEW v \in Reports \cup {"timeout"},
         rows' = Append(rows, v), case' = case + 1,
         failures' = IF v = "pass" THEN failures ELSE failures + 1,
         UNCHANGED <<skipLarger, started>>,
         case \in started <=> ~TooLarge(Sizes[case])
  PROVE  /\ RowsAccount'
         /\ \A j \in started : TimedOut(j)' <=> TimedOut(j) \/ (j = case /\ v = "timeout")
<1>1. /\ rows \in Seq(Reports \cup {"timeout"}) /\ Len(rows) = case - 1 /\ case \in Nat \ {0}
      /\ started \subseteq Nat \ {0}
  BY RowsType
<1>2. /\ Len(rows') = case /\ DOMAIN rows' = 1 .. case /\ DOMAIN rows = 1 .. case - 1
      /\ \A i \in 1 .. case - 1 : rows'[i] = rows[i]
      /\ rows'[case] = v
  BY <1>1, AppendProperties
<1>3. failures' = Cardinality({i \in DOMAIN rows' : rows'[i] # "pass"})
  <2>1. failures = Cardinality(Failed(rows)) /\ failures \in Nat
    BY DEF Accounted, RowsAccount, Failed, Shape, TypeOK
  <2>2. Cardinality(Failed(Append(rows, v))) = Cardinality(Failed(rows)) + (IF v = "pass" THEN 0 ELSE 1)
    BY <1>1, FailedAppend
  <2>3. failures' = Cardinality(Failed(rows'))
    BY <2>1, <2>2
  <2>4. QED
    BY <2>3 DEF Failed
<1>4. \A i \in 1 .. case - 1 :
        i \notin started <=> skipLarger /\ \E j \in 1 .. i - 1 :
          j \in started /\ rows[j] = "timeout" /\ Sizes[j] < Sizes[i]
  BY <1>2 DEF Accounted, RowsAccount
<1>5. \A i \in 1 .. case - 1 :
        i \notin started <=> skipLarger /\ \E j \in 1 .. i - 1 :
          j \in started /\ rows'[j] = "timeout" /\ Sizes[j] < Sizes[i]
  <2> TAKE i \in 1 .. case - 1
  <2>1. \A j \in 1 .. i - 1 : rows'[j] = rows[j]
    BY <1>1, <1>2
  <2>2. QED
    BY <1>4, <2>1
<1>6. case \notin started <=> skipLarger /\ \E j \in 1 .. case - 1 :
        j \in started /\ rows'[j] = "timeout" /\ Sizes[j] < Sizes[case]
  <2>1. case \notin started <=> skipLarger /\ \E j \in started : TimedOut(j) /\ Sizes[j] < Sizes[case]
    BY TooLargeMeaning, SizesLength
  <2>2. \A j : j \in started /\ TimedOut(j) <=> j \in 1 .. case - 1 /\ j \in started /\ rows'[j] = "timeout"
    <3>1. \A j \in started : j < case <=> j \in 1 .. case - 1
      BY <1>1
    <3>2. \A j \in 1 .. case - 1 : rows'[j] = rows[j]
      BY <1>2
    <3>3. QED
      BY <3>1, <3>2 DEF TimedOut
  <2> HIDE DEF TimedOut
  <2>3. QED
    BY <2>1, <2>2
<1>7. RowsAccount'
  <2>1. \A i \in 1 .. case : i \in 1 .. case - 1 \/ i = case
    BY <1>1
  <2>2. \A i \in DOMAIN rows' :
        i \notin started <=> skipLarger /\ \E j \in 1 .. i - 1 :
          j \in started /\ rows'[j] = "timeout" /\ Sizes[j] < Sizes[i]
    BY <1>2, <1>5, <1>6, <2>1
  <2>3. Len(rows') = case' - 1
    BY <1>1, <1>2
  <2>4. QED
    BY <1>3, <2>2, <2>3 DEF RowsAccount
<1>8. \A j \in started : TimedOut(j)' <=> TimedOut(j) \/ (j = case /\ v = "timeout")
  BY <1>1, <1>2 DEF TimedOut
<1>9. QED
  BY <1>7, <1>8

LEMMA AccountedSuite == Shape /\ Accounted /\ SuiteStep => Accounted'
<1> SUFFICES ASSUME Shape, Accounted, SuiteStep PROVE Accounted'
  OBVIOUS
<1>1. CASE SkipCase
  <2>1. /\ rows' = Append(rows, "timeout") /\ case' = case + 1 /\ failures' = failures + 1
        /\ UNCHANGED <<skipLarger, started, skipAfter>> /\ ~Busy /\ ~Busy'
        /\ TooLarge(Sizes[case])
    BY <1>1 DEF SkipCase, Busy, Watching
  <2>2. case \in DOMAIN Sizes
    BY <1>1, SizesLength DEF SkipCase, Shape, TypeOK
  <2>3. case \notin started /\ \A i \in started : i < case /\ i \in Nat
    BY <2>1, <2>2, SizesLength DEF Accounted, Shape, TypeOK
  <2>4. /\ RowsAccount'
        /\ \A j \in started : TimedOut(j)' <=> TimedOut(j) \/ (j = case /\ "timeout" = "timeout")
    BY <2>1, <2>2, <2>3, AccountedRow DEF Reports
  <2>5. \A j \in started : TimedOut(j)' <=> TimedOut(j)
    BY <2>3, <2>4
  <2>6. \A i \in started' : i < case'
    BY <2>1, <2>2, <2>3, SizesLength
  <2> HIDE DEF TimedOut
  <2>7. QED
    BY <2>1, <2>4, <2>5, <2>6 DEF Accounted
<1>2. CASE StartCase
  <2>1. /\ UNCHANGED <<skipLarger, skipAfter, rows, case, failures>>
        /\ started' = started \cup {case} /\ ~Busy /\ Busy' /\ ~TooLarge(Sizes[case])
    BY <1>2 DEF StartCase, Busy, Watching
  <2>2. case \in Nat /\ Len(rows) = case - 1 /\ DOMAIN rows = 1 .. case - 1
    BY SizesLength DEF Shape, TypeOK, Accounted, RowsAccount
  <2>3. \A j \in started' : TimedOut(j)' <=> j \in started /\ TimedOut(j)
    BY <2>1, <2>2 DEF TimedOut
  <2>4. \A j \in 1 .. case - 1 : j \in started' <=> j \in started
    BY <2>1, <2>2
  <2>5. RowsAccount'
    <3>1. \A i \in 1 .. case - 1 : \A j \in 1 .. i - 1 : j \in 1 .. case - 1
      BY <2>2
    <3>2. \A i \in DOMAIN rows : i \in 1 .. case - 1
      BY <2>2
    <3>3. QED
      BY <2>1, <2>4, <3>1, <3>2 DEF Accounted, RowsAccount
  <2>6. ~TooLarge(Sizes[case])'
    BY <2>1 DEF TooLarge
  <2>7. \A i \in started' : i < case \/ i = case
    BY <2>1 DEF Accounted
  <2> HIDE DEF TimedOut, TooLarge
  <2>8. QED
    BY <2>1, <2>3, <2>5, <2>6, <2>7 DEF Accounted
<1>3. CASE RecordCase
  <2>1. /\ rows' = Append(rows, status) /\ case' = case + 1
        /\ failures' = IF status = "pass" THEN failures ELSE failures + 1
        /\ skipAfter' = IF status = "timeout" /\ skipLarger THEN Sizes[case] ELSE skipAfter
        /\ UNCHANGED <<skipLarger, started>> /\ Busy /\ ~Busy'
    BY <1>3 DEF RecordCase, Busy, Watching
  <2>2. case \in DOMAIN Sizes /\ status \in Reports \cup {"timeout"} /\ Sizes[case] \in Nat /\ case \in Nat
    BY <1>3, SizesLength DEF RecordCase, Shape, TypeOK, EventsLeft
  <2>3. case \in started /\ ~TooLarge(Sizes[case])
    BY <2>1 DEF Accounted
  <2>4. /\ RowsAccount'
        /\ \A j \in started : TimedOut(j)' <=> TimedOut(j) \/ (j = case /\ status = "timeout")
    BY <2>1, <2>2, <2>3, AccountedRow
  <2>5. \A i \in started' : i < case'
    BY <2>1, <2>2, RowsType
  <2>6. \A j \in started : Sizes[j] \in Nat
    BY SizesLength DEF Shape, TypeOK
  <2>7. CASE status = "timeout" /\ skipLarger
    <3>1. skipAfter' = Sizes[case] /\ skipAfter' # NoSize
      BY <2>1, <2>2, <2>7 DEF NoSize
    <3>2. \A j \in started : TimedOut(j) => Sizes[case] <= Sizes[j]
      <4> HIDE DEF TimedOut
      <4>1. ~\E j \in started : TimedOut(j) /\ Sizes[j] < Sizes[case]
        BY <2>2, <2>3, <2>7, TooLargeMeaning
      <4>2. QED
        BY <2>2, <2>6, <4>1
    <3> HIDE DEF TimedOut
    <3>3. \E j \in started' : TimedOut(j)' /\ Sizes[j] = skipAfter'
      BY <2>1, <2>3, <2>4, <2>7, <3>1
    <3>4. \A j \in started' : TimedOut(j)' => skipAfter' <= Sizes[j]
      BY <2>1, <2>2, <2>4, <2>6, <3>1, <3>2
    <3>5. QED
      BY <2>1, <2>4, <2>5, <2>7, <3>1, <3>3, <3>4 DEF Accounted
  <2>8. CASE status # "timeout"
    <3> HIDE DEF TimedOut
    <3>1. skipAfter' = skipAfter /\ \A j \in started : TimedOut(j)' <=> TimedOut(j)
      BY <2>1, <2>4, <2>8
    <3>2. QED
      BY <2>1, <2>4, <2>5, <3>1 DEF Accounted
  <2>9. CASE ~skipLarger
    <3>1. skipAfter' = NoSize
      BY <2>1, <2>9 DEF Accounted
    <3>2. QED
      BY <2>1, <2>4, <2>5, <2>9, <3>1 DEF Accounted
  <2>10. QED
    BY <2>7, <2>8, <2>9
<1>4. CASE Finish
  BY <1>4 DEF Finish, suite, Accounted, RowsAccount, Busy, Watching, TimedOut, TooLarge
<1>5. QED
  BY <1>1, <1>2, <1>3, <1>4 DEF SuiteStep

LEMMA AccountedStep == Shape /\ Accounted /\ [Next]_vars => Accounted'
<1>1. ASSUME Accounted, UNCHANGED <<suite, Busy>> PROVE Accounted'
  BY <1>1 DEF Accounted, RowsAccount, TimedOut, TooLarge, suite
<1>2. [Next]_vars /\ ~SuiteStep => UNCHANGED suite
  BY DEF Next, MonitorStep, RunnerStep, Tick, Stopped, BothEnded, TimeOut, Return, Select, Wake, Read,
         Ready, Progress, Die, Report, WriteForeign, vars
<1>3. Shape /\ [Next]_vars /\ ~SuiteStep => UNCHANGED Busy
  BY DEF Next, MonitorStep, RunnerStep, Tick, Stopped, BothEnded, TimeOut, Return, Select, Wake, Read,
         NextEvent, Ready, Progress, Die, Report, WriteForeign, vars, Busy, Watching, Held, Shape, TypeOK
<1>4. QED
  BY <1>1, <1>2, <1>3, AccountedSuite

\* The rows account for the circuits and the failure count for the rows, and a
\* circuit goes without a runner exactly when a smaller one has timed out.
THEOREM RowsAccounted == Spec => []RowsAccount
<1>1. Accounted => RowsAccount
  BY DEF Accounted
<1>2. QED
  BY <1>1, AccountedInit, AccountedStep, ShapeInit, ShapeStep, PTL DEF Spec
=============================================================================
