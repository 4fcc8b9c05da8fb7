------------------------- MODULE MeasurementProofs -------------------------
(***************************************************************************)
(* Theorems about Measurement, for any number of ranks, every script of     *)
(* calls, every buffering and whatever the ranks draw.                      *)
(***************************************************************************)
EXTENDS Measurement, SequenceTheorems, FiniteSetTheorems, TLAPS

-----------------------------------------------------------------------------
(***************************************************************************)
(* Induction, with the property as a set.                                  *)
(***************************************************************************)
LEMMA LeastNatural ==
  ASSUME NEW S \in SUBSET Nat, S # {}
  PROVE  \E n \in S : \A k \in S : n <= k
<1>1. IsWellFoundedOn(OpToRel(<, Nat), Nat)
  BY NatLessThanWellFounded
<1>2. PICK n \in S : \A k \in S : <<k, n>> \notin OpToRel(<, Nat)
  <2> HIDE DEF OpToRel, IsWellFoundedOn
  <2>1. QED
    BY <1>1, WFMin
<1>3. \A k \in S : ~(k < n)
  BY <1>2 DEF OpToRel
<1>4. QED
  BY <1>3

LEMMA NaturalInduction ==
  ASSUME NEW S, 0 \in S, \A n \in Nat : n \in S => n + 1 \in S
  PROVE  Nat \subseteq S
<1>1. SUFFICES ASSUME Nat \ S # {} PROVE FALSE
  OBVIOUS
<1>2. PICK n \in Nat \ S : \A k \in Nat \ S : n <= k
  <2>1. Nat \ S \in SUBSET Nat
    OBVIOUS
  <2>2. QED
    BY <1>1, <2>1, LeastNatural
<1>3. n # 0 /\ n - 1 \in Nat /\ n - 1 \in S
  BY <1>2
<1>4. n - 1 + 1 \in S
  BY <1>3
<1>5. QED
  BY <1>2, <1>4

LEMMA LargestIndex ==
  ASSUME NEW n \in Nat, NEW T \in SUBSET (1 .. n), T # {}
  PROVE  Max(T) \in T /\ \A k \in T : k <= Max(T)
<1> DEFINE Upper == {k \in Nat : \A j \in T : j <= k}
<1>1. n \in Upper /\ Upper \in SUBSET Nat
  OBVIOUS
<1>2. PICK x \in Upper : \A k \in Upper : x <= k
  BY <1>1, LeastNatural
<1>3. x \in T
  <2>1. SUFFICES ASSUME x \notin T PROVE FALSE
    OBVIOUS
  <2>2. \A j \in T : j <= x - 1
    BY <2>1
  <2>3. x - 1 \in Nat
    <3>1. PICK j \in T : j <= x - 1
      BY <2>2
    <3>2. QED
      BY <3>1
  <2>5. x - 1 \in Upper
    BY <2>2, <2>3
  <2>4. QED
    BY <1>2, <2>5
<1>4. \E y \in T : \A k \in T : y >= k
  BY <1>3
<1>5. QED
  BY <1>4 DEF Max

-----------------------------------------------------------------------------
(***************************************************************************)
(* Channels.  What the messages carry does not matter here.                 *)
(***************************************************************************)
IsList(s) == \E S : s \in Seq(S)

\* A message of collective n is in s; there is no second one.
Has(s, n) == \E i \in DOMAIN s : s[i].name = n
Once(s, n) == \A i, j \in DOMAIN s : s[i].name = n /\ s[j].name = n => i = j

\* What appending does to a channel.
LEMMA Appended ==
  ASSUME NEW s, IsList(s), NEW e
  PROVE  /\ IsList(Append(s, e))
         /\ Len(s) \in Nat /\ DOMAIN s = 1 .. Len(s)
         /\ DOMAIN Append(s, e) = 1 .. Len(s) + 1
         /\ Len(Append(s, e)) = Len(s) + 1
         /\ \A i \in 1 .. Len(s) : Append(s, e)[i] = s[i]
         /\ Append(s, e)[Len(s) + 1] = e
<1>1. PICK S : s \in Seq(S)
  BY DEF IsList
<1> DEFINE T == S \cup {e}
<1>2. s \in Seq(T) /\ e \in T
  BY <1>1
<1>3. Append(s, e) \in Seq(T)
  BY <1>2
<1>4. QED
  BY <1>2, <1>3 DEF IsList

\* What taking the first message does to a channel.
LEMMA Taken ==
  ASSUME NEW s, IsList(s), s # << >>
  PROVE  /\ IsList(Tail(s))
         /\ Len(s) \in Nat \ {0} /\ DOMAIN s = 1 .. Len(s)
         /\ DOMAIN Tail(s) = 1 .. Len(s) - 1
         /\ \A i \in 1 .. Len(s) - 1 : Tail(s)[i] = s[i + 1]
         /\ Head(s) = s[1]
<1>1. PICK S : s \in Seq(S)
  BY DEF IsList
<1>2. Tail(s) \in Seq(S)
  BY <1>1
<1>3. QED
  BY <1>1, <1>2 DEF IsList

LEMMA AppendedHas ==
  ASSUME NEW s, IsList(s), NEW m, NEW d, NEW n
  PROVE  LET t == Append(s, Message(m, d)) IN
         /\ IsList(t)
         /\ Has(t, n) <=> Has(s, n) \/ m = n
         /\ Once(s, n) /\ (m = n => ~Has(s, n)) => Once(t, n)
<1> DEFINE t == Append(s, Message(m, d))
<1>1. /\ IsList(t)
      /\ Len(s) \in Nat /\ DOMAIN s = 1 .. Len(s) /\ DOMAIN t = 1 .. Len(s) + 1
      /\ \A i \in 1 .. Len(s) : t[i] = s[i]
      /\ t[Len(s) + 1].name = m
  BY Appended DEF Message
<1> HIDE DEF t
<1>2. Has(t, n) <=> Has(s, n) \/ m = n
  BY <1>1 DEF Has
<1>3. Once(s, n) /\ (m = n => ~Has(s, n)) => Once(t, n)
  BY <1>1 DEF Has, Once
<1>4. QED
  BY <1>1, <1>2, <1>3 DEF t

LEMMA TakenHas ==
  ASSUME NEW s, IsList(s), s # << >>, NEW n
  PROVE  /\ IsList(Tail(s))
         /\ Has(Tail(s), n) => Has(s, n)
         /\ Once(s, n) => Once(Tail(s), n)
         /\ Head(s).name # n /\ Has(s, n) => Has(Tail(s), n)
         /\ Head(s).name = n => Has(s, n)
         /\ Head(s).name = n /\ Once(s, n) => ~Has(Tail(s), n)
<1> DEFINE t == Tail(s)
<1>1. /\ IsList(t)
      /\ Len(s) \in Nat \ {0} /\ DOMAIN s = 1 .. Len(s) /\ DOMAIN t = 1 .. Len(s) - 1
      /\ \A i \in 1 .. Len(s) - 1 : t[i] = s[i + 1]
      /\ Head(s) = s[1]
  BY Taken
<1> HIDE DEF t
<1>2. Has(t, n) => Has(s, n)
  BY <1>1 DEF Has
<1>3. Once(s, n) => Once(t, n)
  <2> SUFFICES ASSUME Once(s, n), NEW i \in DOMAIN t, NEW j \in DOMAIN t,
                      t[i].name = n, t[j].name = n
               PROVE  i = j
    BY DEF Once
  <2>1. i + 1 \in DOMAIN s /\ j + 1 \in DOMAIN s /\ s[i + 1].name = n /\ s[j + 1].name = n
    BY <1>1
  <2>2. i + 1 = j + 1
    BY <2>1 DEF Once
  <2>3. QED
    BY <1>1, <2>2
<1>4. Head(s).name # n /\ Has(s, n) => Has(t, n)
  <2> SUFFICES ASSUME s[1].name # n, NEW i \in DOMAIN s, s[i].name = n
               PROVE  Has(t, n)
    BY <1>1 DEF Has
  <2>1. i - 1 \in DOMAIN t /\ t[i - 1] = s[i]
    BY <1>1
  <2>2. QED
    BY <2>1 DEF Has
<1>5. Head(s).name = n => Has(s, n)
  BY <1>1 DEF Has
<1>6. Head(s).name = n /\ Once(s, n) => ~Has(t, n)
  <2> SUFFICES ASSUME s[1].name = n, Once(s, n), NEW i \in DOMAIN t, t[i].name = n
               PROVE  FALSE
    BY <1>1 DEF Has
  <2>1. i + 1 \in DOMAIN s /\ 1 \in DOMAIN s /\ s[i + 1].name = n
    BY <1>1
  <2>2. i + 1 = 1
    BY <2>1 DEF Once
  <2>3. QED
    BY <1>1, <2>2
<1>7. QED
  BY <1>1, <1>2, <1>3, <1>4, <1>5, <1>6 DEF t

-----------------------------------------------------------------------------
(***************************************************************************)
(* Positions.  What a rank holds on arrival at call c follows from the      *)
(* script p, except for the rows themselves.                                *)
(***************************************************************************)
\* Call c is a measure() of at least one shot: the ranks must meet in it.
Measures(p, c) == p[c].op = "measure" /\ p[c].cnt > 0

\* The calls of op before call c.
Before(p, op, c) == {i \in 1 .. c - 1 : p[i].op = op}
Count(p, op, c) == Cardinality(Before(p, op, c))

\* The last call before c that is not a get, and measured_count() after it.
Since(p, c) == {i \in 1 .. c - 1 : p[i].op # "get"}
CountAt(p, c) ==
  IF Since(p, c) = {} THEN 0
  ELSE IF p[Max(Since(p, c))].op = "measure" THEN p[Max(Since(p, c))].cnt ELSE 0

\* The rows of all, mapped by the state at call c.
Packed(p, c, rows) ==
  [i \in DOMAIN rows |-> [run |-> Count(p, "execute", c), row |-> rows[i]]]

LEMMA CountNext ==
  ASSUME NEW p, NEW op, NEW c \in Nat \ {0}
  PROVE  /\ IsFiniteSet(Before(p, op, c)) /\ Count(p, op, c) \in Nat
         /\ p[c].op = op => Count(p, op, c + 1) = Count(p, op, c) + 1
         /\ p[c].op # op => Count(p, op, c + 1) = Count(p, op, c)
<1> DEFINE S == Before(p, op, c)
<1>1. IsFiniteSet(S)
  <2>1. IsFiniteSet(1 .. c - 1) /\ S \subseteq 1 .. c - 1
    BY FS_Interval DEF Before
  <2>2. QED
    BY <2>1, FS_Subset
<1>2. c \notin S
  BY DEF Before
<1>3. /\ p[c].op = op => Before(p, op, c + 1) = S \cup {c}
      /\ p[c].op # op => Before(p, op, c + 1) = S
  BY DEF Before
<1>4. Cardinality(S) \in Nat /\ Cardinality(S \cup {c}) = Cardinality(S) + 1
  BY <1>1, <1>2, FS_AddElement, FS_CardinalityType
<1>5. QED
  BY <1>1, <1>3, <1>4 DEF Count

\* The i-th call of op in the script is one call.
LEMMA CountsDistinct ==
  ASSUME NEW p, NEW op, NEW c \in Nat \ {0}, NEW d \in Nat \ {0}, p[c].op = op, c < d
  PROVE  Count(p, op, c) < Count(p, op, d)
<1>1. Before(p, op, c + 1) \subseteq Before(p, op, d)
  BY DEF Before
<1>2. /\ Count(p, op, c) \in Nat /\ Count(p, op, d) \in Nat
      /\ IsFiniteSet(Before(p, op, d))
      /\ Count(p, op, c + 1) = Count(p, op, c) + 1
  BY CountNext
<1>3. Count(p, op, c + 1) <= Count(p, op, d)
  BY <1>1, <1>2, FS_Subset DEF Count
<1>4. QED
  BY <1>2, <1>3

LEMMA CountAtNext ==
  ASSUME NEW p, NEW c \in Nat \ {0}
  PROVE  /\ p[c].op = "get" => CountAt(p, c + 1) = CountAt(p, c)
         /\ p[c].op = "measure" => CountAt(p, c + 1) = p[c].cnt
         /\ p[c].op = "execute" => CountAt(p, c + 1) = 0
<1>1. CASE p[c].op = "get"
  <2>1. Since(p, c + 1) = Since(p, c)
    BY <1>1 DEF Since
  <2>2. QED
    BY <1>1, <2>1 DEF CountAt
<1>2. CASE p[c].op # "get"
  <2>1. c \in Since(p, c + 1) /\ \A y \in Since(p, c + 1) : y \in Nat /\ c >= y
    BY <1>2 DEF Since
  <2>2. Max(Since(p, c + 1)) = c
    BY <2>1 DEF Max
  <2>3. QED
    BY <1>2, <2>1, <2>2 DEF CountAt
<1>3. QED
  BY <1>1, <1>2

-----------------------------------------------------------------------------
(***************************************************************************)
(* The invariant.                                                           *)
(***************************************************************************)
Channels ==
  /\ DOMAIN up = Ranks /\ DOMAIN down = Ranks
  /\ \A r \in Ranks : IsList(up[r]) /\ IsList(down[r])

Shape ==
  /\ at \in [Ranks -> Nat \ {0}]
  /\ DOMAIN pc = Ranks
  /\ \A r \in Ranks : pc[r] # "call" => Measures(script, at[r])
  /\ DOMAIN sim = Ranks /\ \A r \in Ranks : {"block", "run"} \subseteq DOMAIN sim[r]
  /\ DOMAIN cache = Ranks
  /\ \A r \in Ranks : {"count", "packed", "real"} \subseteq DOMAIN cache[r]
  /\ DOMAIN got = Ranks /\ \A r \in Ranks : IsList(got[r])

\* The next measurement of r is that of the root; the root is past the one r
\* is in and before the next of r.
Level(r) == \A c \in Nat : Measures(script, c) => (c >= at[r] <=> c >= at[Root])
Behind(r) == \A c \in Nat : Measures(script, c) => (c > at[r] <=> c >= at[Root])

\* In each measurement the rows of r go to the root and the rows of all come
\* back: r waits for them from the time its rows are sent, and then exactly one
\* of the two messages is on its way or the root is between them.
Asked(r) == Has(up[r], "rows")
Answered(r) == Has(down[r], "all")

Turn(r) ==
  /\ Once(up[r], "rows") /\ Once(down[r], "all")
  /\ pc[r] = "all" <=> Asked(r) \/ pc[Root] = "all" \/ Answered(r)
  /\ Asked(r) => pc[Root] # "all" /\ ~Answered(r)
  /\ pc[Root] = "all" => ~Answered(r) /\ at[r] = at[Root]
  /\ ~Answered(r) => Level(r)
  /\ Answered(r) => Behind(r)

\* What follows from the position of a rank.
CountsOf(r) ==
  /\ sim[r].run = Count(script, "execute", at[r])
  /\ cache[r].count = CountAt(script, at[r])
  /\ Len(got[r]) = Count(script, "get", at[r])

\* P is what packed holds on arrival at each call, on whatever rank.
Steady(P) == \A c \in Nat \ {0} : ~Measures(script, c) => P[c + 1] = P[c]
Held(P) == \A r \in Ranks : cache[r].packed = P[at[r]]
Carried(P) ==
  \A r \in Others : \A i \in DOMAIN down[r] :
    down[r][i].name = "all" => Packed(script, at[r], down[r][i].data) = P[at[r] + 1]

\* What the i-th get of the script returns when it is call c.
Returns(P, i, c, g) ==
  /\ script[c].op = "get"
  /\ Count(script, "get", c) = i - 1
  /\ g = [call |-> c, rows |-> SubSeq(P[c], 1, CountAt(script, c))]
AllReturned(P) ==
  \A r \in Ranks : \A i \in 1 .. Len(got[r]) :
    \E c \in 1 .. at[r] - 1 : Returns(P, i, c, got[r][i])
Agreed(P) == Steady(P) /\ Held(P) /\ Carried(P) /\ AllReturned(P)

Inv ==
  /\ Channels /\ Shape
  /\ \A r \in Ranks : CountsOf(r)
  /\ \A r \in Others : Turn(r)
  /\ \E P : Agreed(P)

-----------------------------------------------------------------------------
(***************************************************************************)
(* Steps that carry no rows.                                                *)
(***************************************************************************)
\* No message of rows is sent or taken.
Quiet ==
  /\ Channels'
  /\ \A r \in Others :
       /\ Has(up'[r], "rows") <=> Has(up[r], "rows")
       /\ Has(down'[r], "all") <=> Has(down[r], "all")
       /\ Once(up[r], "rows") => Once(up'[r], "rows")
       /\ Once(down[r], "all") => Once(down'[r], "all")
       /\ \A j \in DOMAIN down'[r] :
            down'[r][j].name = "all" => \E i \in DOMAIN down[r] : down[r][i] = down'[r][j]

\* What measured_count() and the packed rows are stays as it is.
ResultsStay ==
  /\ DOMAIN cache' = Ranks
  /\ \A s \in Ranks : /\ {"count", "packed", "real"} \subseteq DOMAIN cache'[s]
                      /\ cache'[s].count = cache[s].count
                      /\ cache'[s].packed = cache[s].packed

LEMMA QuietCollective ==
  ASSUME Channels, NEW n, n \notin {"rows", "all"}, NEW d, NEW r \in Ranks,
         \/ SendUp(r, n, d) \/ Gather(n) \/ SendDown(n, d) \/ Receive(r, n)
         \/ NoMessages
  PROVE  Quiet
<1>1. CASE SendUp(r, n, d)
  <2>1. /\ up' = [up EXCEPT ![r] = Append(@, Message(n, d))] /\ down' = down
    BY <1>1 DEF SendUp
  <2>2. IsList(up[r]) /\ r \in DOMAIN up
    BY DEF Channels
  <2>3. /\ IsList(up'[r])
        /\ Has(up'[r], "rows") <=> Has(up[r], "rows")
        /\ Once(up[r], "rows") => Once(up'[r], "rows")
    BY <2>1, <2>2, AppendedHas
  <2>4. \A s \in Ranks : s # r => up'[s] = up[s]
    BY <2>1 DEF Channels
  <2>5. Channels'
    BY <2>1, <2>3, <2>4 DEF Channels
  <2>6. QED
    BY <2>1, <2>3, <2>4, <2>5 DEF Quiet, Others
<1>2. CASE Gather(n)
  <2>1. /\ \A s \in Others : up[s] # << >> /\ Head(up[s]).name = n
        /\ up' = [s \in Ranks |-> IF s = Root THEN << >> ELSE Tail(up[s])] /\ down' = down
    BY <1>2 DEF Gather
  <2>2. IsList(<< >>)
    BY DEF IsList
  <2>3. \A s \in Others : /\ IsList(up'[s])
                          /\ Has(up'[s], "rows") <=> Has(up[s], "rows")
                          /\ Once(up[s], "rows") => Once(up'[s], "rows")
    BY <2>1, TakenHas DEF Channels, Others
  <2>4. Channels'
    BY <2>1, <2>2, <2>3 DEF Channels, Others
  <2>5. QED
    BY <2>1, <2>3, <2>4 DEF Quiet
<1>3. CASE SendDown(n, d)
  <2>1. /\ down' = [s \in Ranks |-> IF s = Root THEN << >> ELSE Append(down[s], Message(n, d))]
        /\ up' = up
    BY <1>3 DEF SendDown
  <2>2. IsList(<< >>)
    BY DEF IsList
  <2>3. \A s \in Others : /\ IsList(down'[s])
                          /\ Has(down'[s], "all") <=> Has(down[s], "all")
                          /\ Once(down[s], "all") => Once(down'[s], "all")
    BY <2>1, AppendedHas DEF Channels, Others
  <2>4. ASSUME NEW s \in Others, NEW j \in DOMAIN down'[s], down'[s][j].name = "all"
        PROVE  \E i \in DOMAIN down[s] : down[s][i] = down'[s][j]
    <3>1. down'[s] = Append(down[s], Message(n, d)) /\ IsList(down[s])
      BY <2>1 DEF Channels, Others
    <3>2. j \in 1 .. Len(down[s]) + 1 /\ DOMAIN down[s] = 1 .. Len(down[s]) /\ Len(down[s]) \in Nat
      BY <3>1, Appended
    <3>3. j # Len(down[s]) + 1
      BY <2>4, <3>1, Appended DEF Message
    <3>4. j \in DOMAIN down[s] /\ down'[s][j] = down[s][j]
      BY <3>1, <3>2, <3>3, Appended
    <3>5. QED
      BY <3>4
  <2>5. Channels'
    BY <2>1, <2>2, <2>3 DEF Channels, Others
  <2>6. QED
    BY <2>1, <2>3, <2>4, <2>5 DEF Quiet
<1>4. CASE Receive(r, n)
  <2>1. /\ r # Root /\ down[r] # << >> /\ Head(down[r]).name = n
        /\ down' = [down EXCEPT ![r] = Tail(@)] /\ up' = up
    BY <1>4 DEF Receive
  <2>2. IsList(down[r]) /\ down'[r] = Tail(down[r])
    BY <2>1 DEF Channels
  <2>3. /\ IsList(down'[r])
        /\ Has(down'[r], "all") <=> Has(down[r], "all")
        /\ Once(down[r], "all") => Once(down'[r], "all")
    BY <2>1, <2>2, TakenHas
  <2>4. \A j \in DOMAIN down'[r] : j + 1 \in DOMAIN down[r] /\ down[r][j + 1] = down'[r][j]
    <3>1. /\ Len(down[r]) \in Nat \ {0} /\ DOMAIN down[r] = 1 .. Len(down[r])
          /\ DOMAIN down'[r] = 1 .. Len(down[r]) - 1
          /\ \A j \in 1 .. Len(down[r]) - 1 : down'[r][j] = down[r][j + 1]
      BY <2>1, <2>2, Taken
    <3>2. QED
      BY <3>1
  <2>5. \A s \in Ranks : s # r => down'[s] = down[s]
    BY <2>1 DEF Channels
  <2>6. Channels'
    BY <2>1, <2>3, <2>5 DEF Channels
  <2>7. QED
    BY <2>1, <2>3, <2>4, <2>5, <2>6 DEF Quiet, Others
<1>5. CASE NoMessages
  BY <1>5 DEF NoMessages, Quiet, Channels
<1>6. QED
  BY <1>1, <1>2, <1>3, <1>4, <1>5

\* A step within a measurement that leaves its rows alone.
LEMMA WithinKeeps ==
  ASSUME Inv, Quiet, NEW r \in Ranks,
         Measures(script, at[r]), pc[r] # "all", pc'[r] # "all",
         DOMAIN pc' = Ranks, \A s \in Ranks \ {r} : pc'[s] = pc[s],
         script' = script, at' = at, sim' = sim, got' = got, ResultsStay
  PROVE  Inv'
<1>1. Channels' /\ Shape'
  BY DEF Inv, Shape, Quiet, ResultsStay
<1>2. \A s \in Ranks : CountsOf(s)'
  BY DEF Inv, CountsOf, ResultsStay
<1>3. ASSUME NEW s \in Others PROVE Turn(s)'
  <2>1. Turn(s) /\ Root \in Ranks /\ s \in Ranks
    BY MeasurementAssumption DEF Inv, Others, Root
  <2>2. /\ Asked(s)' <=> Asked(s)
        /\ Answered(s)' <=> Answered(s)
        /\ Once(up[s], "rows")' /\ Once(down[s], "all")'
    BY <2>1 DEF Quiet, Turn, Asked, Answered
  <2>3. (Level(s)' <=> Level(s)) /\ (Behind(s)' <=> Behind(s))
    BY DEF Level, Behind
  <2>4. (pc'[s] = "all" <=> pc[s] = "all") /\ (pc'[Root] = "all" <=> pc[Root] = "all")
    BY <2>1
  <2>5. QED
    BY <2>1, <2>2, <2>3, <2>4 DEF Turn
<1>4. ASSUME NEW P, Agreed(P) PROVE Agreed(P)'
  <2>1. Steady(P)' /\ Held(P)' /\ AllReturned(P)'
    BY <1>4 DEF Agreed, Steady, Held, AllReturned, Returns, ResultsStay
  <2>2. Carried(P)'
    BY <1>4 DEF Agreed, Carried, Quiet
  <2>3. QED
    BY <2>1, <2>2 DEF Agreed
<1>5. QED
  BY <1>1, <1>2, <1>3, <1>4 DEF Inv

\* A call in which r does not meet the others to measure: it may add one row of
\* results, and sets the counts as the script says.
GotMore(r) ==
  \A i \in 1 .. Len(got'[r]) :
    \/ i \in 1 .. Len(got[r]) /\ got'[r][i] = got[r][i]
    \/ /\ script[at[r]].op = "get"
       /\ Count(script, "get", at[r]) = i - 1
       /\ got'[r][i] = [call |-> at[r],
                        rows |-> SubSeq(cache[r].packed, 1, cache[r].count)]
Calling(r) ==
  /\ DOMAIN sim' = Ranks /\ DOMAIN cache' = Ranks /\ DOMAIN got' = Ranks
  /\ \A s \in Ranks : /\ {"block", "run"} \subseteq DOMAIN sim'[s]
                      /\ {"count", "packed", "real"} \subseteq DOMAIN cache'[s]
                      /\ cache'[s].packed = cache[s].packed
                      /\ IsList(got'[s])
                      /\ s # r => got'[s] = got[s]
  /\ GotMore(r)

LEMMA CallKeeps ==
  ASSUME Inv, Quiet, NEW r \in Ranks,
         pc[r] = "call", ~Measures(script, at[r]), script' = script,
         at' = [at EXCEPT ![r] = @ + 1], pc' = [pc EXCEPT ![r] = "call"],
         Calling(r), \A s \in Ranks : CountsOf(s)'
  PROVE  Inv'
<1>1. /\ at \in [Ranks -> Nat \ {0}]
      /\ at' \in [Ranks -> Nat \ {0}]
      /\ at'[r] = at[r] + 1
      /\ \A s \in Ranks \ {r} : at'[s] = at[s]
      /\ pc'[r] = "call"
      /\ \A s \in Ranks \ {r} : pc'[s] = pc[s]
      /\ DOMAIN pc' = Ranks
  BY DEF Inv, Shape
<1>2. Channels' /\ Shape'
  BY <1>1 DEF Inv, Shape, Quiet, Calling
<1>3. ASSUME NEW s \in Others PROVE Turn(s)'
  <2>1. Turn(s) /\ Root \in Ranks /\ s \in Ranks
    BY MeasurementAssumption DEF Inv, Others, Root
  <2>2. /\ Asked(s)' <=> Asked(s)
        /\ Answered(s)' <=> Answered(s)
        /\ Once(up[s], "rows")' /\ Once(down[s], "all")'
    BY <2>1 DEF Quiet, Turn, Asked, Answered
  <2>3. (pc'[s] = "all" <=> pc[s] = "all") /\ (pc'[Root] = "all" <=> pc[Root] = "all")
    BY <1>1, <2>1
  <2>4. ASSUME NEW c \in Nat, Measures(script, c), NEW q \in Ranks
        PROVE  c >= at'[q] <=> c >= at[q]
    BY <1>1, <2>4
  <2>5. Level(s) => Level(s)'
    BY <2>1, <2>4 DEF Level
  <2>6. Answered(s) => s # r
    BY <2>1 DEF Turn
  <2>7. Answered(s) => Behind(s)'
    BY <1>1, <2>1, <2>4, <2>6 DEF Behind, Turn
  <2>8. pc[Root] = "all" => at'[s] = at'[Root]
    <3>1. pc[Root] = "all" => pc[s] = "all"
      BY <2>1 DEF Turn
    <3>2. QED
      BY <1>1, <2>1, <3>1 DEF Turn
  <2>9. QED
    BY <2>1, <2>2, <2>3, <2>5, <2>7, <2>8 DEF Turn
<1>4. ASSUME NEW P, Agreed(P) PROVE Agreed(P)'
  <2>1. Steady(P)'
    BY <1>4 DEF Agreed, Steady
  <2>2. Held(P)'
    BY <1>1, <1>4 DEF Agreed, Held, Steady, Calling
  <2>3. Carried(P)'
    <3>1. ASSUME NEW s \in Others, NEW j \in DOMAIN down'[s], down'[s][j].name = "all"
          PROVE  Packed(script, at'[s], down'[s][j].data) = P[at'[s] + 1]
      <4>1. PICK i \in DOMAIN down[s] : down[s][i] = down'[s][j]
        BY <3>1 DEF Quiet
      <4>2. Answered(s) /\ Turn(s) /\ s \in Ranks
        BY <3>1, <4>1 DEF Inv, Answered, Has, Others
      <4>3. s # r
        BY <4>2 DEF Turn
      <4>4. at'[s] = at[s]
        BY <1>1, <4>2, <4>3
      <4>5. QED
        BY <1>4, <3>1, <4>1, <4>4 DEF Agreed, Carried
    <3>2. QED
      BY <3>1 DEF Carried
  <2>4. AllReturned(P)'
    <3>1. ASSUME NEW s \in Ranks, NEW i \in 1 .. Len(got'[s])
          PROVE  \E c \in 1 .. at'[s] - 1 : Returns(P, i, c, got[s][i])'
      <4>1. CASE i \in 1 .. Len(got[s]) /\ got'[s][i] = got[s][i]
        <5>1. PICK c \in 1 .. at[s] - 1 : Returns(P, i, c, got[s][i])
          BY <1>4, <4>1 DEF Agreed, AllReturned
        <5>2. c \in 1 .. at'[s] - 1
          BY <1>1
        <5>3. QED
          BY <4>1, <5>1, <5>2 DEF Returns
      <4>2. CASE /\ s = r
                 /\ script[at[r]].op = "get"
                 /\ Count(script, "get", at[r]) = i - 1
                 /\ got'[r][i] = [call |-> at[r],
                                  rows |-> SubSeq(cache[r].packed, 1, cache[r].count)]
        <5>1. at[r] \in 1 .. at'[r] - 1
          BY <1>1
        <5>2. cache[r].packed = P[at[r]] /\ cache[r].count = CountAt(script, at[r])
          BY <1>4 DEF Agreed, Held, Inv, CountsOf
        <5>3. QED
          BY <4>2, <5>1, <5>2 DEF Returns
      <4>3. QED
        BY <4>1, <4>2 DEF Calling, GotMore
    <3>2. QED
      BY <3>1 DEF AllReturned, Returns
  <2>5. QED
    BY <2>1, <2>2, <2>3, <2>4 DEF Agreed
<1>5. QED
  BY <1>2, <1>3, <1>4 DEF Inv

\* The fifteen steps, but for the two that carry rows.
WithinStep(r) ==
  \/ ScanUp(r) \/ ScanPrefix(r) \/ ScanTotal(r)
  \/ PlanSeed(r) \/ PlanProbs(r) \/ PlanCounts(r)
  \/ StartSample(r) \/ SampleSegment(r) \/ EndSample(r)
  \/ GatherSizes(r)
CallStep(r) == Execute(r) \/ MeasureNothing(r) \/ GetResults(r)

\* Nothing changes, as when a rank aborts.
LEMMA StutterKeeps ==
  ASSUME Inv, UNCHANGED <<script, at, pc, sim, cache, got, up, down>>
  PROVE  Inv'
<1>1. Channels' /\ Shape'
  BY DEF Inv, Channels, Shape
<1>2. \A r \in Ranks : CountsOf(r)'
  BY DEF Inv, CountsOf
<1>3. ASSUME NEW r \in Others PROVE Turn(r)'
  <2>1. Turn(r)
    BY DEF Inv
  <2>2. (Level(r)' <=> Level(r)) /\ (Behind(r)' <=> Behind(r))
    BY DEF Level, Behind
  <2>3. QED
    BY <2>1, <2>2 DEF Turn, Asked, Answered
<1>4. ASSUME NEW P, Agreed(P) PROVE Agreed(P)'
  BY <1>4 DEF Agreed, Steady, Held, Carried, AllReturned, Returns
<1>5. QED
  BY <1>1, <1>2, <1>3, <1>4 DEF Inv

\* A step of one of the collectives before the rows, or between them.
LEMMA QuietStepKeeps ==
  ASSUME Inv, NEW r \in Ranks, Quiet,
         Measures(script, at[r]), pc[r] # "all",
         UNCHANGED <<script, at, sim, got>>,
         \/ pc' = pc
         \/ \E l \in {"prefix", "total", "seed", "probs", "cnts", "sample", "stream",
                      "size", "rows"} : pc' = [pc EXCEPT ![r] = l],
         \/ cache' = cache
         \/ \E x : cache' = [cache EXCEPT ![r].pass = x]
         \/ \E x : cache' = [cache EXCEPT ![r] = [@ EXCEPT !.local = x]]
         \/ \E x : cache' = [cache EXCEPT ![r] = [@ EXCEPT !.sizes = x]]
         \/ \E x, y : cache' = [cache EXCEPT ![r] = [@ EXCEPT !.taus = x, !.pass = y]]
  PROVE  Inv'
<1>1. /\ DOMAIN pc = Ranks /\ DOMAIN cache = Ranks
      /\ \A s \in Ranks : {"count", "packed", "real"} \subseteq DOMAIN cache[s]
  BY DEF Inv, Shape
<1>2. ResultsStay
  <2>1. CASE cache' = cache
    BY <1>1, <2>1 DEF ResultsStay
  <2>2. ASSUME NEW x, cache' = [cache EXCEPT ![r].pass = x] PROVE ResultsStay
    BY <1>1, <2>2 DEF ResultsStay
  <2>3. ASSUME NEW x, cache' = [cache EXCEPT ![r] = [@ EXCEPT !.local = x]] PROVE ResultsStay
    BY <1>1, <2>3 DEF ResultsStay
  <2>4. ASSUME NEW x, cache' = [cache EXCEPT ![r] = [@ EXCEPT !.sizes = x]] PROVE ResultsStay
    BY <1>1, <2>4 DEF ResultsStay
  <2>5. ASSUME NEW x, NEW y,
               cache' = [cache EXCEPT ![r] = [@ EXCEPT !.taus = x, !.pass = y]]
        PROVE  ResultsStay
    BY <1>1, <2>5 DEF ResultsStay
  <2>6. QED
    BY <2>1, <2>2, <2>3, <2>4, <2>5
<1>3. DOMAIN pc' = Ranks /\ pc'[r] # "all" /\ \A s \in Ranks \ {r} : pc'[s] = pc[s]
  BY <1>1
<1>4. QED
  BY <1>2, <1>3, WithinKeeps

LEMMA WithinStepKeeps ==
  ASSUME Inv, NEW r \in Ranks, WithinStep(r)
  PROVE  Inv'
<1>1. Channels /\ \A l : At(r, l) /\ l # "call" => Measures(script, at[r])
  BY DEF Inv, Shape, At
<1>2. CASE ScanUp(r)
  <2>1. Measures(script, at[r]) /\ pc[r] = "call"
    BY <1>2 DEF ScanUp, Calls, Cnt, Measures
  <2>2. Quiet
    BY <1>1, <1>2, QuietCollective DEF ScanUp
  <2>3. QED
    BY <1>2, <2>1, <2>2, QuietStepKeeps DEF ScanUp, Go
<1>3. CASE ScanPrefix(r)
  <2>1. Quiet
    BY <1>1, <1>3, QuietCollective DEF ScanPrefix
  <2>2. QED
    BY <1>1, <1>3, <2>1, QuietStepKeeps DEF ScanPrefix, Go, At
<1>4. CASE ScanTotal(r)
  <2>1. Quiet
    BY <1>1, <1>4, QuietCollective DEF ScanTotal
  <2>2. QED
    BY <1>1, <1>4, <2>1, QuietStepKeeps DEF ScanTotal, Go, At
<1>5. CASE PlanSeed(r)
  <2>1. Quiet
    BY <1>1, <1>5, QuietCollective DEF PlanSeed
  <2>2. QED
    BY <1>1, <1>5, <2>1, QuietStepKeeps DEF PlanSeed, Go, At
<1>6. CASE PlanProbs(r)
  <2>1. Quiet
    BY <1>1, <1>6, QuietCollective DEF PlanProbs
  <2>2. QED
    BY <1>1, <1>6, <2>1, QuietStepKeeps DEF PlanProbs, Go, At
<1>7. CASE PlanCounts(r)
  <2>1. Quiet
    BY <1>1, <1>7, QuietCollective DEF PlanCounts
  <2>2. QED
    BY <1>1, <1>7, <2>1, QuietStepKeeps DEF PlanCounts, Go, At
<1>8. CASE StartSample(r)
  <2>1. CASE \E why : Abort(why)
    BY <2>1, StutterKeeps DEF Abort
  <2>2. CASE /\ \E taus : cache' = [cache EXCEPT ![r] = [@ EXCEPT
                             !.taus = taus, !.pass = StartPass(sim[r].block, taus)]]
             /\ Go(r, "stream") /\ NoMessages
             /\ UNCHANGED <<script, sim, got>>
    <3>1. Quiet
      BY <1>1, <2>2, QuietCollective
    <3>2. pc[r] = "sample" /\ Measures(script, at[r])
      BY <1>1, <1>8 DEF StartSample, At
    <3>3. \E x, y : cache' = [cache EXCEPT ![r] = [@ EXCEPT !.taus = x, !.pass = y]]
      BY <2>2
    <3>4. pc' = [pc EXCEPT ![r] = "stream"] /\ at' = at
      BY <2>2 DEF Go
    <3>5. QED
      BY <2>2, <3>1, <3>2, <3>3, <3>4, QuietStepKeeps
  <2>3. QED
    BY <1>8, <2>1, <2>2 DEF StartSample
<1>9. CASE SampleSegment(r)
  <2>1. Quiet
    BY <1>1, <1>9, QuietCollective DEF SampleSegment
  <2>2. QED
    BY <1>1, <1>9, <2>1, QuietStepKeeps DEF SampleSegment, At
<1>10. CASE EndSample(r)
  <2>1. CASE \E why : Abort(why)
    BY <2>1, StutterKeeps DEF Abort
  <2>2. CASE /\ \E x : cache' = [cache EXCEPT ![r] = [@ EXCEPT !.local = x]]
             /\ Go(r, "size") /\ NoMessages
             /\ UNCHANGED <<script, sim, got>>
    <3>1. Quiet
      BY <1>1, <2>2, QuietCollective
    <3>2. QED
      BY <1>1, <1>10, <2>2, <3>1, QuietStepKeeps DEF EndSample, Go, At
  <2>3. QED
    BY <1>10, <2>1, <2>2 DEF EndSample
<1>11. CASE GatherSizes(r)
  <2>1. Quiet
    BY <1>1, <1>11, QuietCollective DEF GatherSizes
  <2>2. QED
    BY <1>1, <1>11, <2>1, QuietStepKeeps DEF GatherSizes, Go, At
<1>12. QED
  BY <1>2, <1>3, <1>4, <1>5, <1>6, <1>7, <1>8, <1>9, <1>10, <1>11 DEF WithinStep

LEMMA CallStepKeeps ==
  ASSUME Inv, NEW r \in Ranks, CallStep(r)
  PROVE  Inv'
<1>1. Channels /\ Shape /\ at[r] \in Nat \ {0} /\ (\A s \in Ranks : CountsOf(s))
  BY DEF Inv, Shape
<1>2. pc[r] = "call" /\ script' = script /\ Return(r)
  BY DEF CallStep, Calls, Execute, MeasureNothing, GetResults
<1>3. /\ pc' = [pc EXCEPT ![r] = "call"] /\ at' = [at EXCEPT ![r] = @ + 1]
      /\ at'[r] = at[r] + 1 /\ \A s \in Ranks \ {r} : at'[s] = at[s]
  BY <1>1, <1>2 DEF Return, Shape
<1>4. \A op : /\ script[at[r]].op = op =>
                   Count(script, op, at'[r]) = Count(script, op, at[r]) + 1
              /\ script[at[r]].op # op =>
                   Count(script, op, at'[r]) = Count(script, op, at[r])
  BY <1>1, <1>3, CountNext
<1>5. CASE Execute(r)
  <2>1. script[at[r]].op = "execute" /\ ~Measures(script, at[r]) /\ got' = got
    BY <1>5 DEF Execute, Calls, Measures
  <2>2. Quiet
    BY <1>1, <1>5, QuietCollective DEF Execute
  <2>3. PICK b : sim' = [sim EXCEPT ![r] = [block |-> b, run |-> @.run + 1]]
    BY <1>5 DEF Execute
  <2>4. cache' = [cache EXCEPT ![r].count = 0]
    BY <1>5 DEF Execute
  <2>5. /\ DOMAIN sim' = Ranks /\ DOMAIN cache' = Ranks
        /\ \A s \in Ranks : {"block", "run"} \subseteq DOMAIN sim'[s]
        /\ sim'[r].run = sim[r].run + 1 /\ \A s \in Ranks \ {r} : sim'[s] = sim[s]
    <3>1. /\ DOMAIN sim = Ranks
          /\ \A s \in Ranks : {"block", "run"} \subseteq DOMAIN sim[s]
      BY <1>1 DEF Shape
    <3>2. /\ DOMAIN sim' = Ranks /\ \A s \in Ranks \ {r} : sim'[s] = sim[s]
          /\ sim'[r] = [block |-> b, run |-> sim[r].run + 1]
      BY <2>3, <3>1
    <3>3. DOMAIN sim'[r] = {"block", "run"} /\ sim'[r].run = sim[r].run + 1
      BY <3>2
    <3>4. QED
      BY <1>1, <2>4, <3>1, <3>2, <3>3 DEF Shape
  <2>6. \A s \in Ranks : /\ {"count", "packed", "real"} \subseteq DOMAIN cache'[s]
                         /\ cache'[s].packed = cache[s].packed
                         /\ cache'[s].count = IF s = r THEN 0 ELSE cache[s].count
    BY <1>1, <2>4 DEF Shape
  <2>7. CountAt(script, at'[r]) = 0
    BY <1>1, <1>3, <2>1, CountAtNext
  <2>8. CountsOf(r)'
    BY <1>1, <1>2, <1>4, <2>1, <2>5, <2>6, <2>7 DEF CountsOf
  <2>9. \A s \in Ranks \ {r} : CountsOf(s)'
    BY <1>1, <1>2, <1>3, <2>1, <2>5, <2>6 DEF CountsOf
  <2>10. Calling(r)
    <3>1. DOMAIN got' = Ranks /\ GotMore(r)
      BY <1>1, <2>1 DEF Shape, GotMore
    <3>2. QED
      BY <1>1, <2>1, <2>5, <2>6, <3>1 DEF Shape, Calling
  <2>11. QED
    BY <1>2, <1>3, <2>1, <2>2, <2>8, <2>9, <2>10, CallKeeps
<1>6. CASE MeasureNothing(r)
  <2>1. /\ script[at[r]].op = "measure" /\ script[at[r]].cnt = 0
        /\ ~Measures(script, at[r]) /\ got' = got /\ sim' = sim
    BY <1>6 DEF MeasureNothing, Calls, Cnt, Measures
  <2>2. Quiet
    BY <1>1, <1>6, QuietCollective DEF MeasureNothing
  <2>3. cache' = [cache EXCEPT ![r].count = 0]
    BY <1>6 DEF MeasureNothing
  <2>4. /\ DOMAIN cache' = Ranks
        /\ \A s \in Ranks : /\ {"count", "packed", "real"} \subseteq DOMAIN cache'[s]
                            /\ cache'[s].packed = cache[s].packed
                            /\ cache'[s].count = IF s = r THEN 0 ELSE cache[s].count
    BY <1>1, <2>3 DEF Shape
  <2>5. CountAt(script, at'[r]) = 0
    BY <1>1, <1>3, <2>1, CountAtNext
  <2>6. CountsOf(r)'
    BY <1>1, <1>2, <1>4, <2>1, <2>4, <2>5 DEF CountsOf
  <2>7. \A s \in Ranks \ {r} : CountsOf(s)'
    BY <1>1, <1>2, <1>3, <2>1, <2>4 DEF CountsOf
  <2>8. Calling(r)
    <3>1. DOMAIN got' = Ranks /\ GotMore(r)
      BY <1>1, <2>1 DEF Shape, GotMore
    <3>2. QED
      BY <1>1, <2>1, <2>4, <3>1 DEF Shape, Calling
  <2>9. QED
    BY <1>2, <1>3, <2>1, <2>2, <2>6, <2>7, <2>8, CallKeeps
<1>7. CASE GetResults(r)
  <2>1. /\ script[at[r]].op = "get" /\ ~Measures(script, at[r])
        /\ cache' = cache /\ sim' = sim
    BY <1>7 DEF GetResults, Calls, Measures
  <2>2. Quiet
    BY <1>1, <1>7, QuietCollective DEF GetResults
  <2> DEFINE g == [call |-> at[r], rows |-> SubSeq(cache[r].packed, 1, cache[r].count)]
  <2>3. /\ DOMAIN got' = Ranks /\ got'[r] = Append(got[r], g)
        /\ \A s \in Ranks \ {r} : got'[s] = got[s]
    BY <1>1, <1>7 DEF GetResults, Shape
  <2>4. /\ IsList(got'[r]) /\ Len(got'[r]) = Len(got[r]) + 1 /\ Len(got[r]) \in Nat
        /\ \A i \in 1 .. Len(got[r]) : got'[r][i] = got[r][i]
        /\ got'[r][Len(got[r]) + 1] = g
    BY <1>1, <2>3, Appended DEF Shape
  <2>5. CountAt(script, at'[r]) = CountAt(script, at[r])
    BY <1>1, <1>3, <2>1, CountAtNext
  <2>6. CountsOf(r)'
    BY <1>1, <1>2, <1>4, <2>1, <2>4, <2>5 DEF CountsOf
  <2>7. \A s \in Ranks \ {r} : CountsOf(s)'
    BY <1>1, <1>2, <1>3, <2>1, <2>3 DEF CountsOf
  <2>8. Calling(r)
    <3>1. \A i \in 1 .. Len(got'[r]) :
            \/ i \in 1 .. Len(got[r]) /\ got'[r][i] = got[r][i]
            \/ Count(script, "get", at[r]) = i - 1 /\ got'[r][i] = g
      BY <1>1, <2>4 DEF CountsOf
    <3>2. GotMore(r)
      BY <2>1, <3>1 DEF GotMore
    <3>3. QED
      BY <1>1, <2>1, <2>3, <2>4, <3>2 DEF Shape, Calling
  <2>9. QED
    BY <1>2, <1>3, <2>1, <2>2, <2>6, <2>7, <2>8, CallKeeps
<1>8. QED
  BY <1>5, <1>6, <1>7 DEF CallStep

-----------------------------------------------------------------------------
(***************************************************************************)
(* The steps that carry rows.                                               *)
(***************************************************************************)
\* Once the root has the rows of r, both are in the same call.
LEMMA AskedTogether ==
  ASSUME Inv, NEW s \in Others, Asked(s), pc[Root] # "call"
  PROVE  at[s] = at[Root] /\ pc[s] = "all" /\ ~Answered(s)
<1>1. Turn(s) /\ s \in Ranks /\ Root \in Ranks
  BY MeasurementAssumption DEF Inv, Others, Root
<1>2. pc[s] = "all" /\ ~Answered(s) /\ Level(s)
  BY <1>1 DEF Turn
<1>3. Measures(script, at[s]) /\ Measures(script, at[Root]) /\ at[s] \in Nat /\ at[Root] \in Nat
  BY <1>1, <1>2 DEF Inv, Shape
<1>4. QED
  BY <1>2, <1>3 DEF Level

LEMMA GatherRowsKeeps ==
  ASSUME Inv, NEW r \in Ranks, GatherRows(r)
  PROVE  Inv'
<1>1. pc[r] = "rows" /\ Channels /\ Shape
  BY DEF GatherRows, At, Inv
<1>2. CASE \E why : Abort(why)
  BY <1>2, StutterKeeps DEF Abort
<1>3. ASSUME pc' = [pc EXCEPT ![r] = "all"],
             UNCHANGED <<script, at, sim, got, down>>,
             Channels',
             cache' = cache \/ \E x : cache' = [cache EXCEPT ![r].real = x],
             \A s \in Others : Turn(s)'
      PROVE  Inv'
  <2>1. ResultsStay
    <3>1. CASE cache' = cache
      BY <1>1, <3>1 DEF Shape, ResultsStay
    <3>2. ASSUME NEW x, cache' = [cache EXCEPT ![r].real = x] PROVE ResultsStay
      BY <1>1, <3>2 DEF Shape, ResultsStay
    <3>3. QED
      BY <1>3, <3>1, <3>2
  <2>2. Shape'
    BY <1>1, <1>3, <2>1 DEF Shape, ResultsStay
  <2>3. \A s \in Ranks : CountsOf(s)'
    BY <1>3, <2>1 DEF Inv, CountsOf, ResultsStay
  <2>4. ASSUME NEW P, Agreed(P) PROVE Agreed(P)'
    BY <1>3, <2>1, <2>4 DEF Agreed, Steady, Held, Carried, AllReturned, Returns, ResultsStay
  <2>5. QED
    BY <1>3, <2>2, <2>3, <2>4 DEF Inv
<1>4. CASE r = Root /\ ~\E why : Abort(why)
  <2>1. /\ Gather("rows") /\ pc' = [pc EXCEPT ![r] = "all"]
        /\ UNCHANGED <<script, at, sim, got, down>>
        /\ \E x : cache' = [cache EXCEPT ![r].real = x]
    BY <1>4 DEF GatherRows, Gather, Go
  <2>2. /\ \A s \in Others : up[s] # << >> /\ Head(up[s]).name = "rows"
        /\ up' = [s \in Ranks |-> IF s = Root THEN << >> ELSE Tail(up[s])]
    BY <2>1 DEF Gather
  <2>3. \A s \in Others :
          /\ IsList(up'[s]) /\ Asked(s)
          /\ Once(up[s], "rows") => Once(up'[s], "rows") /\ ~Has(up'[s], "rows")
    BY <1>1, <2>2, TakenHas DEF Channels, Others, Asked
  <2>4. Channels'
    <3>1. IsList(<< >>)
      BY DEF IsList
    <3>2. QED
      BY <1>1, <2>1, <2>2, <2>3, <3>1 DEF Channels, Others
  <2>5. ASSUME NEW s \in Others PROVE Turn(s)'
    <3>1. Turn(s) /\ s \in Ranks /\ s # Root
      BY DEF Inv, Others
    <3>2. at[s] = at[Root] /\ pc[s] = "all" /\ ~Answered(s)
      BY <1>1, <1>4, <2>3, AskedTogether
    <3>3. ~Asked(s)' /\ Once(up[s], "rows")' /\ Once(down[s], "all")' /\ ~Answered(s)'
      BY <2>1, <2>3, <3>1, <3>2 DEF Turn, Asked, Answered
    <3>4. pc'[s] = "all" /\ pc'[Root] = "all" /\ at'[s] = at'[Root]
      BY <1>1, <1>4, <2>1, <3>1, <3>2 DEF Shape
    <3>5. Level(s)'
      BY <3>4 DEF Level
    <3>6. QED
      BY <3>3, <3>4, <3>5 DEF Turn
  <2>6. QED
    BY <1>3, <2>1, <2>4, <2>5
<1>5. CASE r # Root
  <2>1. /\ SendUp(r, "rows", cache[r].local) /\ pc' = [pc EXCEPT ![r] = "all"]
        /\ UNCHANGED <<script, at, sim, got, down, cache>>
    BY <1>5 DEF GatherRows, SendUp, Go
  <2>2. up' = [up EXCEPT ![r] = Append(@, Message("rows", cache[r].local))]
    BY <2>1 DEF SendUp
  <2>3. up'[r] = Append(up[r], Message("rows", cache[r].local)) /\ IsList(up[r])
    BY <1>1, <2>2 DEF Channels
  <2>4. /\ IsList(up'[r]) /\ Has(up'[r], "rows")
        /\ ~Has(up[r], "rows") /\ Once(up[r], "rows") => Once(up'[r], "rows")
    BY <2>3, AppendedHas
  <2>5. \A s \in Ranks \ {r} : up'[s] = up[s]
    BY <1>1, <2>2 DEF Channels
  <2>6. Channels'
    BY <1>1, <2>1, <2>2, <2>4, <2>5 DEF Channels
  <2>7. ASSUME NEW s \in Others PROVE Turn(s)'
    <3>1. Turn(s) /\ s \in Ranks /\ Root \in Ranks
      BY MeasurementAssumption DEF Inv, Others, Root
    <3>2. (Level(s)' <=> Level(s)) /\ (Behind(s)' <=> Behind(s)) /\ (Answered(s)' <=> Answered(s))
      BY <2>1 DEF Level, Behind, Answered
    <3>3. pc'[Root] = pc[Root] /\ (s # r => pc'[s] = pc[s]) /\ (s = r => pc'[s] = "all")
      BY <1>1, <1>5, <2>1, <3>1 DEF Shape
    <3>4. CASE s = r
      <4>1. ~Asked(s) /\ ~Answered(s) /\ pc[Root] # "all"
        BY <1>1, <3>1, <3>4 DEF Turn
      <4>2. Asked(s)' /\ Once(up[s], "rows")' /\ Once(down[s], "all")'
        BY <2>1, <2>4, <3>1, <3>4, <4>1 DEF Turn, Asked
      <4>3. QED
        BY <3>1, <3>2, <3>3, <3>4, <4>1, <4>2 DEF Turn
    <3>5. CASE s # r
      <4>1. (Asked(s)' <=> Asked(s)) /\ Once(up[s], "rows")' /\ Once(down[s], "all")'
        BY <2>1, <2>5, <3>1, <3>5 DEF Turn, Asked
      <4>2. QED
        BY <2>1, <3>1, <3>2, <3>3, <3>5, <4>1 DEF Turn
    <3>6. QED
      BY <3>4, <3>5
  <2>8. QED
    BY <1>3, <2>1, <2>6, <2>7
<1>6. QED
  BY <1>2, <1>4, <1>5

\* What ShareRows does to the rank itself, with the rows of all.
Shared(r, rows) ==
  /\ cache' = [cache EXCEPT ![r] = [@ EXCEPT
                 !.real = rows,
                 !.packed = [i \in DOMAIN rows |-> [run |-> sim[r].run, row |-> rows[i]]],
                 !.count = Cnt(r)]]
  /\ Return(r)
  /\ UNCHANGED <<script, sim, got>>

LEMMA SharedEffect ==
  ASSUME Inv, NEW r \in Ranks, pc[r] = "all", NEW rows, Shared(r, rows)
  PROVE  /\ Measures(script, at[r]) /\ at[r] \in Nat \ {0}
         /\ at'[r] = at[r] + 1 /\ \A s \in Ranks \ {r} : at'[s] = at[s]
         /\ pc'[r] = "call" /\ \A s \in Ranks \ {r} : pc'[s] = pc[s]
         /\ cache'[r].packed = Packed(script, at[r], rows)
         /\ \A s \in Ranks \ {r} : cache'[s] = cache[s]
         /\ Shape' /\ \A s \in Ranks : CountsOf(s)'
<1>1. Shape /\ (\A s \in Ranks : CountsOf(s)) /\ at[r] \in Nat \ {0}
  BY DEF Inv, Shape
<1>2. Measures(script, at[r])
  BY <1>1 DEF Shape
<1>3. /\ at'[r] = at[r] + 1 /\ \A s \in Ranks \ {r} : at'[s] = at[s]
      /\ pc'[r] = "call" /\ \A s \in Ranks \ {r} : pc'[s] = pc[s]
      /\ at' \in [Ranks -> Nat \ {0}] /\ DOMAIN pc' = Ranks
  BY <1>1 DEF Shared, Return, Shape
<1> DEFINE p == [i \in DOMAIN rows |-> [run |-> sim[r].run, row |-> rows[i]]]
<1>4. cache' = [cache EXCEPT ![r] = [@ EXCEPT !.real = rows, !.packed = p, !.count = Cnt(r)]]
  BY DEF Shared
<1>5. p = Packed(script, at[r], rows)
  BY <1>1 DEF Packed, CountsOf
<1> HIDE DEF p
<1>6. /\ DOMAIN cache' = Ranks /\ \A s \in Ranks \ {r} : cache'[s] = cache[s]
      /\ {"count", "packed", "real"} \subseteq DOMAIN cache'[r]
      /\ cache'[r].packed = p /\ cache'[r].count = Cnt(r)
  BY <1>1, <1>4 DEF Shape
<1>7. Shape'
  BY <1>1, <1>2, <1>3, <1>6 DEF Shape, Shared
<1>8. CountsOf(r)'
  <2>1. script[at[r]].op = "measure" /\ Cnt(r) = script[at[r]].cnt
    BY <1>2 DEF Measures, Cnt
  <2>2. /\ Count(script, "execute", at'[r]) = Count(script, "execute", at[r])
        /\ Count(script, "get", at'[r]) = Count(script, "get", at[r])
        /\ CountAt(script, at'[r]) = Cnt(r)
    BY <1>1, <1>3, <2>1, CountNext, CountAtNext
  <2>3. QED
    BY <1>1, <1>6, <2>2 DEF CountsOf, Shared
<1>9. \A s \in Ranks \ {r} : CountsOf(s)'
  BY <1>1, <1>3, <1>6 DEF CountsOf, Shared
<1>10. QED
  BY <1>1, <1>2, <1>3, <1>5, <1>6, <1>7, <1>8, <1>9

\* The root sends the rows of all: every other rank waits for them in the same
\* call, and no rank has taken any results of it yet.
LEMMA RootShares ==
  ASSUME Inv, pc[Root] = "all", NEW rows, SendDown("all", rows), Shared(Root, rows)
  PROVE  Inv'
<1>0. PICK c : c = at[Root]
  OBVIOUS
<1>1. Root \in Ranks
  BY MeasurementAssumption DEF Root
<1>2. /\ Measures(script, c) /\ c \in Nat \ {0}
      /\ at'[Root] = c + 1 /\ \A s \in Others : at'[s] = at[s]
      /\ pc'[Root] = "call" /\ \A s \in Others : pc'[s] = pc[s]
      /\ cache'[Root].packed = Packed(script, c, rows)
      /\ \A s \in Others : cache'[s] = cache[s]
      /\ Shape' /\ \A s \in Ranks : CountsOf(s)'
  BY <1>0, <1>1, SharedEffect DEF Others
<1>3. \A s \in Others : /\ pc[s] = "all" /\ at[s] = c /\ ~Asked(s) /\ ~Answered(s)
                        /\ Once(up[s], "rows") /\ Once(down[s], "all")
  BY <1>0 DEF Inv, Turn
<1>4. /\ \A s \in Others : down'[s] = Append(down[s], Message("all", rows))
      /\ down' = [s \in Ranks |-> IF s = Root THEN << >>
                                  ELSE Append(down[s], Message("all", rows))]
      /\ up' = up
  BY DEF SendDown, Others
<1>5. \A s \in Others : /\ IsList(down[s]) /\ IsList(down'[s])
                        /\ Has(down'[s], "all") /\ Once(down'[s], "all")
  BY <1>3, <1>4, AppendedHas DEF Inv, Channels, Others, Answered
<1>6. Channels'
  <2>1. IsList(<< >>)
    BY DEF IsList
  <2>2. QED
    BY <1>4, <1>5, <2>1 DEF Inv, Channels, Others
<1>7. ASSUME NEW s \in Others PROVE Turn(s)'
  <2>1. ~Asked(s)' /\ Answered(s)' /\ Once(up[s], "rows")' /\ Once(down[s], "all")'
    BY <1>3, <1>4, <1>5 DEF Asked, Answered
  <2>2. Behind(s)'
    <3>1. at'[s] = c /\ at'[Root] = c + 1 /\ c \in Nat
      BY <1>2, <1>3
    <3>2. \A k \in Nat : k > at'[s] <=> k >= at'[Root]
      BY <3>1
    <3>3. QED
      BY <3>2 DEF Behind
  <2>3. QED
    BY <1>2, <1>3, <2>1, <2>2 DEF Turn
<1>8. ASSUME NEW P, Agreed(P) PROVE \E Q : Agreed(Q)'
  <2>0. PICK new : new = Packed(script, c, rows)
    OBVIOUS
  <2>1. PICK Q : \A k \in Nat : Q[k] = IF k <= c THEN P[k] ELSE new
    <3>1. \A k \in Nat : [j \in Nat |-> IF j <= c THEN P[j] ELSE new][k] =
                           IF k <= c THEN P[k] ELSE new
      OBVIOUS
    <3>2. QED
      BY <3>1
  <2>2. script' = script /\ got' = got
    BY DEF Shared
  <2>3. \A k \in Nat \ {0} : ~Measures(script, k) => Q[k + 1] = Q[k]
    <3>1. ASSUME NEW k \in Nat \ {0}, ~Measures(script, k) PROVE Q[k + 1] = Q[k]
      <4>1. k # c
        BY <1>2, <3>1
      <4>2. P[k + 1] = P[k]
        BY <1>8, <3>1 DEF Agreed, Steady
      <4>3. QED
        BY <1>2, <2>1, <4>1, <4>2
    <3>2. QED
      BY <3>1
  <2>4. Held(Q)'
    <3>1. cache'[Root].packed = Q[at'[Root]]
      BY <1>2, <2>0, <2>1
    <3>2. ASSUME NEW s \in Others PROVE cache'[s].packed = Q[at'[s]]
      <4>1. cache[s].packed = P[at[s]] /\ at'[s] = c
        BY <1>2, <1>3, <1>8 DEF Agreed, Held, Others
      <4>2. QED
        BY <1>2, <1>3, <2>1, <4>1
    <3>3. QED
      BY <3>1, <3>2 DEF Held, Others
  <2>5. Carried(Q)'
    <3>1. ASSUME NEW s \in Others, NEW i \in DOMAIN down'[s], down'[s][i].name = "all"
          PROVE  Packed(script, at'[s], down'[s][i].data) = Q[at'[s] + 1]
      <4>1. down'[s][i].data = rows
        <5>1. i \in 1 .. Len(down[s]) + 1 /\ Len(down[s]) \in Nat /\ DOMAIN down[s] = 1 .. Len(down[s])
          BY <1>4, <1>5, <3>1, Appended
        <5>2. i = Len(down[s]) + 1
          <6>1. SUFFICES ASSUME i \in 1 .. Len(down[s]) PROVE FALSE
            BY <5>1
          <6>2. down'[s][i] = down[s][i]
            BY <1>4, <1>5, <6>1, Appended
          <6>3. QED
            BY <1>3, <3>1, <5>1, <6>1, <6>2 DEF Answered, Has
        <5>3. down'[s][i] = Message("all", rows)
          BY <1>4, <1>5, <5>2, Appended
        <5>4. QED
          BY <5>3 DEF Message
      <4>2. QED
        BY <1>2, <1>3, <2>0, <2>1, <4>1
    <3>2. QED
      BY <2>2, <3>1 DEF Carried
  <2>6. AllReturned(Q)'
    <3>1. ASSUME NEW s \in Ranks, NEW i \in 1 .. Len(got[s])
          PROVE  \E k \in 1 .. at'[s] - 1 : Returns(Q, i, k, got[s][i])
      <4>1. PICK k \in 1 .. at[s] - 1 : Returns(P, i, k, got[s][i])
        BY <1>8, <3>1 DEF Agreed, AllReturned
      <4>2. at[s] = c /\ (at'[s] = c \/ at'[s] = c + 1)
        BY <1>0, <1>2, <1>3 DEF Others
      <4>3. k \in 1 .. at'[s] - 1 /\ k \in Nat /\ k <= c
        BY <1>2, <4>2
      <4>4. Q[k] = P[k]
        BY <2>1, <4>3
      <4>5. Returns(Q, i, k, got[s][i])
        BY <4>1, <4>4 DEF Returns
      <4>6. QED
        BY <4>3, <4>5
    <3>2. QED
      BY <2>2, <3>1 DEF AllReturned, Returns
  <2>7. QED
    BY <2>2, <2>3, <2>4, <2>5, <2>6 DEF Agreed, Steady
<1>9. QED
  BY <1>2, <1>6, <1>7, <1>8 DEF Inv

\* Another rank takes the rows of all: they are those of the call it is in.
LEMMA OtherShares ==
  ASSUME Inv, NEW r \in Others, pc[r] = "all", Receive(r, "all"), Shared(r, Received(r))
  PROVE  Inv'
<1>1. r \in Ranks /\ r # Root /\ Root \in Ranks
  BY MeasurementAssumption DEF Others, Root
<1>2. PICK rows : rows = Received(r)
  OBVIOUS
<1>3. /\ Measures(script, at[r]) /\ at[r] \in Nat \ {0}
      /\ at'[r] = at[r] + 1 /\ \A s \in Ranks \ {r} : at'[s] = at[s]
      /\ pc'[r] = "call" /\ \A s \in Ranks \ {r} : pc'[s] = pc[s]
      /\ cache'[r].packed = Packed(script, at[r], rows)
      /\ \A s \in Ranks \ {r} : cache'[s] = cache[s]
      /\ Shape' /\ \A s \in Ranks : CountsOf(s)'
  BY <1>1, <1>2, SharedEffect
<1>4. script' = script /\ got' = got /\ up' = up
  BY DEF Shared, Receive
<1>5. /\ IsList(down[r]) /\ down[r] # << >> /\ Head(down[r]).name = "all"
      /\ down'[r] = Tail(down[r]) /\ \A s \in Ranks \ {r} : down'[s] = down[s]
      /\ DOMAIN down' = Ranks
  BY <1>1 DEF Inv, Channels, Receive
<1>6. Answered(r) /\ Turn(r)
  BY <1>5, TakenHas DEF Inv, Answered
<1>7. IsList(down'[r]) /\ ~Has(down'[r], "all") /\ Once(down'[r], "all")
  BY <1>5, <1>6, TakenHas DEF Turn
<1>8. Channels'
  BY <1>4, <1>5, <1>7 DEF Inv, Channels
<1>9. ASSUME NEW s \in Others PROVE Turn(s)'
  <2>1. Turn(s) /\ s \in Ranks /\ pc'[Root] = pc[Root] /\ at'[Root] = at[Root]
    BY <1>1, <1>3 DEF Inv, Others
  <2>2. CASE s = r
    <3>1. ~Asked(r) /\ pc[Root] # "all" /\ Behind(r)
      BY <1>6 DEF Turn
    <3>2. ~Asked(r)' /\ ~Answered(r)' /\ Once(up[r], "rows")' /\ Once(down[r], "all")'
      BY <1>4, <1>6, <1>7, <3>1 DEF Asked, Answered, Turn
    <3>3. ASSUME NEW c \in Nat, Measures(script, c) PROVE c >= at'[r] <=> c >= at'[Root]
      <4>1. c > at[r] <=> c >= at[Root]
        BY <3>1, <3>3 DEF Behind
      <4>2. c >= at'[r] <=> c > at[r]
        BY <1>3
      <4>3. QED
        BY <2>1, <4>1, <4>2
    <3>4. Level(r)'
      BY <1>4, <3>3 DEF Level
    <3>5. QED
      BY <1>3, <2>1, <2>2, <3>1, <3>2, <3>4 DEF Turn
  <2>3. CASE s # r
    <3>1. at'[s] = at[s] /\ pc'[s] = pc[s] /\ down'[s] = down[s]
      BY <1>3, <1>5, <2>1, <2>3
    <3>2. (Level(s)' <=> Level(s)) /\ (Behind(s)' <=> Behind(s))
      BY <1>4, <2>1, <3>1 DEF Level, Behind
    <3>3. QED
      BY <1>4, <2>1, <3>1, <3>2 DEF Turn, Asked, Answered
  <2>4. QED
    BY <2>2, <2>3
<1>10. ASSUME NEW P, Agreed(P) PROVE Agreed(P)'
  <2>1. Steady(P)'
    BY <1>4, <1>10 DEF Agreed, Steady
  <2>2. Packed(script, at[r], rows) = P[at[r] + 1]
    <3>1. 1 \in DOMAIN down[r] /\ down[r][1] = Head(down[r])
      BY <1>5, Taken
    <3>2. rows = down[r][1].data
      BY <1>2, <3>1 DEF Received
    <3>3. QED
      BY <1>5, <1>10, <3>1, <3>2 DEF Agreed, Carried
  <2>3. Held(P)'
    <3>1. \A s \in Ranks : cache'[s].packed = P[at'[s]]
      BY <1>3, <1>10, <2>2 DEF Agreed, Held
    <3>2. QED
      BY <3>1 DEF Held
  <2>4. Carried(P)'
    <3>1. ASSUME NEW s \in Others, NEW i \in DOMAIN down'[s], down'[s][i].name = "all"
          PROVE  Packed(script, at'[s], down'[s][i].data) = P[at'[s] + 1]
      <4>1. s # r
        BY <1>7, <3>1 DEF Has
      <4>2. down'[s] = down[s] /\ at'[s] = at[s]
        BY <1>3, <1>5, <4>1 DEF Others
      <4>3. QED
        BY <1>10, <3>1, <4>2 DEF Agreed, Carried
    <3>2. QED
      BY <1>4, <3>1 DEF Carried
  <2>5. AllReturned(P)'
    <3>1. ASSUME NEW s \in Ranks, NEW i \in 1 .. Len(got[s])
          PROVE  \E k \in 1 .. at'[s] - 1 : Returns(P, i, k, got[s][i])
      <4>1. PICK k \in 1 .. at[s] - 1 : Returns(P, i, k, got[s][i])
        BY <1>10, <3>1 DEF Agreed, AllReturned
      <4>2. at[s] \in Nat /\ (at'[s] = at[s] \/ at'[s] = at[s] + 1)
        BY <1>3 DEF Inv, Shape
      <4>3. k \in 1 .. at'[s] - 1
        BY <4>2
      <4>4. QED
        BY <4>1, <4>3
    <3>2. QED
      BY <1>4, <3>1 DEF AllReturned, Returns
  <2>6. QED
    BY <2>1, <2>3, <2>4, <2>5 DEF Agreed
<1>11. QED
  BY <1>3, <1>8, <1>9, <1>10 DEF Inv

LEMMA ShareRowsKeeps ==
  ASSUME Inv, NEW r \in Ranks, ShareRows(r)
  PROVE  Inv'
<1>1. pc[r] = "all"
  BY DEF ShareRows, At
<1>2. CASE r = Root
  <2>1. SendDown("all", cache[r].real) /\ Shared(r, cache[r].real)
    BY <1>2 DEF ShareRows, Shared
  <2>2. QED
    BY <1>1, <1>2, <2>1, RootShares
<1>3. CASE r # Root
  <2>1. Receive(r, "all") /\ Shared(r, Received(r)) /\ r \in Others
    BY <1>3 DEF ShareRows, Shared, Others
  <2>2. QED
    BY <1>1, <2>1, OtherShares
<1>4. QED
  BY <1>2, <1>3

-----------------------------------------------------------------------------
(***************************************************************************)
(* Agreement.                                                             *)
(***************************************************************************)
LEMMA InitInv == Init => Inv
<1> SUFFICES ASSUME Init PROVE Inv
  OBVIOUS
<1>1. IsList(<< >>) /\ \A n : ~Has(<< >>, n) /\ Once(<< >>, n)
  BY DEF IsList, Has, Once
<1>2. Root \in Ranks
  BY MeasurementAssumption DEF Root
<1>3. \A r \in Ranks : /\ at[r] = 1 /\ pc[r] = "call" /\ sim[r].run = 0
                       /\ cache[r] = EmptyCache /\ got[r] = << >>
                       /\ up[r] = << >> /\ down[r] = << >>
  BY DEF Init, Everywhere
<1>4. Channels
  BY <1>1, <1>3 DEF Init, Everywhere, Channels
<1>5. EmptyCache.count = 0 /\ {"count", "packed", "real"} \subseteq DOMAIN EmptyCache
  BY DEF EmptyCache
<1>6. Shape
  BY <1>1, <1>3, <1>5 DEF Init, Everywhere, Shape
<1>7. ASSUME NEW r \in Ranks PROVE CountsOf(r)
  <2>1. \A op : Before(script, op, 1) = {}
    BY DEF Before
  <2>2. \A op : Count(script, op, 1) = 0
    BY <2>1, FS_EmptySet DEF Count
  <2>3. CountAt(script, 1) = 0
    BY DEF CountAt, Since
  <2>4. QED
    BY <1>3, <1>5, <2>2, <2>3 DEF CountsOf
<1>8. ASSUME NEW r \in Others PROVE Turn(r)
  <2>1. r \in Ranks
    BY DEF Others
  <2>2. Level(r)
    BY <1>2, <1>3, <2>1 DEF Level
  <2>3. QED
    BY <1>1, <1>2, <1>3, <2>1, <2>2 DEF Turn, Asked, Answered
<1>9. \E P : Agreed(P)
  <2>1. PICK P : \A k \in Nat : P[k] = EmptyCache.packed
    <3>1. \A k \in Nat : [j \in Nat |-> EmptyCache.packed][k] = EmptyCache.packed
      OBVIOUS
    <3>2. QED
      BY <3>1
  <2>2. Steady(P) /\ Held(P)
    BY <1>3, <2>1 DEF Steady, Held
  <2>3. Carried(P) /\ AllReturned(P)
    BY <1>3 DEF Carried, AllReturned, Others
  <2>4. QED
    BY <2>2, <2>3 DEF Agreed
<1>10. QED
  BY <1>4, <1>6, <1>7, <1>8, <1>9 DEF Inv

LEMMA NextKeepsInv == Inv /\ [Next]_vars => Inv'
<1> SUFFICES ASSUME Inv, [Next]_vars PROVE Inv'
  OBVIOUS
<1>1. CASE vars' = vars
  BY <1>1, StutterKeeps DEF vars
<1>2. ASSUME NEW r \in Ranks, RankStep(r) PROVE Inv'
  <2>1. WithinStep(r) \/ CallStep(r) \/ GatherRows(r) \/ ShareRows(r)
    BY <1>2 DEF RankStep, WithinStep, CallStep
  <2>2. QED
    BY <2>1, WithinStepKeeps, CallStepKeeps, GatherRowsKeeps, ShareRowsKeeps
<1>3. QED
  BY <1>1, <1>2 DEF Next, Done

\* All ranks return the same rows from the same call, whatever the number of
\* ranks, the script, the buffering and the order in which they proceed: what
\* a rank holds on arrival at a call is a function of the call alone.
LEMMA InvAgrees == Inv => RanksAgree
<1> SUFFICES ASSUME Inv, NEW r \in Ranks, NEW s \in Ranks,
                    NEW i \in DOMAIN got[r] \cap DOMAIN got[s]
             PROVE  got[r][i] = got[s][i]
  BY DEF RanksAgree
<1>1. PICK P : Agreed(P)
  BY DEF Inv
<1>2. at[r] \in Nat /\ at[s] \in Nat /\ i \in 1 .. Len(got[r]) /\ i \in 1 .. Len(got[s])
  BY Appended DEF Inv, Shape
<1>3. PICK c \in 1 .. at[r] - 1 : Returns(P, i, c, got[r][i])
  BY <1>1, <1>2 DEF Agreed, AllReturned
<1>4. PICK d \in 1 .. at[s] - 1 : Returns(P, i, d, got[s][i])
  BY <1>1, <1>2 DEF Agreed, AllReturned
<1>5. c \in Nat \ {0} /\ d \in Nat \ {0} /\ i \in Nat
  BY <1>2
<1>6. ~(c < d) /\ ~(d < c)
  <2>1. Count(script, "get", c) = i - 1 /\ Count(script, "get", d) = i - 1
    BY <1>3, <1>4 DEF Returns
  <2>2. c < d => Count(script, "get", c) < Count(script, "get", d)
    BY <1>3, <1>5, CountsDistinct DEF Returns
  <2>3. d < c => Count(script, "get", d) < Count(script, "get", c)
    BY <1>4, <1>5, CountsDistinct DEF Returns
  <2>4. QED
    BY <1>5, <2>1, <2>2, <2>3
<1>7. c = d
  BY <1>5, <1>6
<1>8. QED
  BY <1>3, <1>4, <1>7 DEF Returns

\* Every rank returns the same rows from the same call (get_results after any
\* sequence of execute() and measure()).
THEOREM AllRanksAgree == Spec => []RanksAgree
<1>1. Init => Inv
  BY InitInv
<1>2. Inv /\ [Next]_vars => Inv'
  BY NextKeepsInv
<1>3. Inv => RanksAgree
  BY InvAgrees
<1>4. QED
  BY <1>1, <1>2, <1>3, PTL DEF Spec

-----------------------------------------------------------------------------
(***************************************************************************)
(* Lists and the places of rows in them.                                    *)
(***************************************************************************)
LEMMA RanksCounted == /\ nprocs \in Nat \ {0} /\ Ranks = 0 .. nprocs - 1
                      /\ Root \in Ranks /\ Others \subseteq Ranks
<1>1. nprocs \in Nat
  BY MeasurementAssumption, FS_CardinalityType DEF nprocs
<1>2. QED
  BY <1>1, MeasurementAssumption DEF Root, Others

\* A function on 1 .. n is a list of n elements.
LEMMA ListOf ==
  ASSUME NEW n \in Nat, NEW f, f = [i \in 1 .. n |-> f[i]]
  PROVE  IsList(f) /\ Len(f) = n /\ DOMAIN f = 1 .. n
<1> DEFINE S == {f[i] : i \in 1 .. n}
<1>1. f \in [1 .. n -> S]
  OBVIOUS
<1>2. f \in Seq(S)
  BY <1>1, SeqDef
<1>3. Len(f) \in Nat /\ DOMAIN f = 1 .. Len(f)
  BY <1>2
<1>4. DOMAIN f = 1 .. n
  BY <1>1
<1>5. Len(f) = n
  <2>1. Len(f) \in 1 .. n \/ Len(f) = 0
    BY <1>3, <1>4
  <2>2. n \in 1 .. Len(f) \/ n = 0
    BY <1>3, <1>4
  <2>3. QED
    BY <1>3, <2>1, <2>2
<1>6. QED
  BY <1>2, <1>4, <1>5 DEF IsList

LEMMA ListLen ==
  ASSUME NEW s, IsList(s)
  PROVE  Len(s) \in Nat /\ DOMAIN s = 1 .. Len(s)
BY Appended

LEMMA ListPart ==
  ASSUME NEW s, IsList(s), NEW n \in 0 .. Len(s)
  PROVE  /\ IsList(SubSeq(s, 1, n)) /\ Len(SubSeq(s, 1, n)) = n
         /\ \A i \in 1 .. n : SubSeq(s, 1, n)[i] = s[i]
         /\ IsList(SubSeq(s, n + 1, Len(s))) /\ Len(SubSeq(s, n + 1, Len(s))) = Len(s) - n
<1>1. PICK S : s \in Seq(S)
  BY DEF IsList
<1>2. Len(s) \in Nat /\ \A i \in 1 .. Len(s) : s[i] \in S
  BY <1>1
<1>3. SubSeq(s, 1, n) \in Seq(S) /\ SubSeq(s, n + 1, Len(s)) \in Seq(S)
  BY <1>1, <1>2, SubSeqProperties
<1>4. /\ Len(SubSeq(s, 1, n)) = n
      /\ \A i \in 1 .. n : SubSeq(s, 1, n)[i] = s[i]
      /\ Len(SubSeq(s, n + 1, Len(s))) = Len(s) - n
  BY <1>1, <1>2, <1>3, SubSeqProperties
<1>5. QED
  BY <1>3, <1>4 DEF IsList

LEMMA ListJoin ==
  ASSUME NEW s, NEW t, IsList(s), IsList(t)
  PROVE  IsList(s \o t) /\ Len(s \o t) = Len(s) + Len(t)
<1>1. PICK S : s \in Seq(S)
  BY DEF IsList
<1>2. PICK T : t \in Seq(T)
  BY DEF IsList
<1>3. s \in Seq(S \cup T) /\ t \in Seq(S \cup T)
  BY <1>1, <1>2
<1>4. s \o t \in Seq(S \cup T) /\ Len(s \o t) = Len(s) + Len(t)
  BY <1>3, ConcatProperties
<1>5. QED
  BY <1>4 DEF IsList

-----------------------------------------------------------------------------
(***************************************************************************)
(* The displacements add up the sizes, and each place belongs to one rank.  *)
(***************************************************************************)
AddsUp(d, sizes) ==
  /\ d[0] = 0
  /\ \A i \in 0 .. nprocs : d[i] \in Nat
  /\ \A r \in Ranks : d[r + 1] = d[r] + sizes[r]

LEMMA DisplsAddUp ==
  ASSUME NEW sizes, \A r \in Ranks : sizes[r] \in Nat
  PROVE  AddsUp(Displs(sizes), sizes)
<1>1. nprocs \in Nat /\ Ranks = 0 .. nprocs - 1
  BY RanksCounted
<1> DEFINE Eq(n, g) == g = [i \in 0 .. n |-> IF i = 0 THEN 0 ELSE g[i - 1] + sizes[i - 1]]
           P == {n \in Nat : n <= nprocs => \E g \in [0 .. n -> Nat] : Eq(n, g)}
<1>2. 0 \in P
  <2> DEFINE g == [i \in 0 .. 0 |-> 0]
  <2>1. g \in [0 .. 0 -> Nat] /\ Eq(0, g)
    OBVIOUS
  <2>2. QED
    BY <2>1
<1>3. ASSUME NEW n \in Nat, n \in P PROVE n + 1 \in P
  <2>1. SUFFICES ASSUME n + 1 <= nprocs PROVE \E h \in [0 .. n + 1 -> Nat] : Eq(n + 1, h)
    OBVIOUS
  <2>2. PICK g \in [0 .. n -> Nat] : Eq(n, g)
    BY <1>1, <1>3, <2>1
  <2> DEFINE h == [i \in 0 .. n + 1 |-> IF i = n + 1 THEN g[n] + sizes[n] ELSE g[i]]
  <2>3. n \in Ranks /\ g[n] \in Nat /\ sizes[n] \in Nat
    BY <1>1, <2>1, <2>2
  <2>4. h \in [0 .. n + 1 -> Nat]
    BY <2>2, <2>3
  <2>5. \A i \in 0 .. n + 1 : h[i] = IF i = 0 THEN 0 ELSE h[i - 1] + sizes[i - 1]
    <3>1. ASSUME NEW i \in 0 .. n PROVE h[i] = IF i = 0 THEN 0 ELSE h[i - 1] + sizes[i - 1]
      <4>1. h[i] = g[i] /\ (i # 0 => i - 1 \in 0 .. n /\ h[i - 1] = g[i - 1])
        OBVIOUS
      <4>2. g[i] = IF i = 0 THEN 0 ELSE g[i - 1] + sizes[i - 1]
        BY <2>2
      <4>3. QED
        BY <4>1, <4>2
    <3>2. h[n + 1] = h[n] + sizes[n]
      OBVIOUS
    <3>3. QED
      BY <3>1, <3>2
  <2>6. QED
    BY <2>4, <2>5
<1> HIDE DEF P
<1>4. nprocs \in P
  BY <1>1, <1>2, <1>3, NaturalInduction
<1>5. \E g : Eq(nprocs, g) /\ g \in [0 .. nprocs -> Nat]
  BY <1>1, <1>4 DEF P
<1>6. PICK d : d = Displs(sizes)
  OBVIOUS
<1>7. Eq(nprocs, d)
  BY <1>5, <1>6 DEF Displs
<1>8. d[0] = 0 /\ \A r \in Ranks : d[r + 1] = d[r] + sizes[r]
  <2>1. \A i \in 0 .. nprocs : d[i] = IF i = 0 THEN 0 ELSE d[i - 1] + sizes[i - 1]
    BY <1>7
  <2>2. ASSUME NEW r \in Ranks PROVE d[r + 1] = d[r] + sizes[r]
    <3>1. PICK i : i = r + 1
      OBVIOUS
    <3>2. i \in 0 .. nprocs /\ i # 0 /\ i - 1 = r
      BY <1>1, <3>1
    <3>3. d[i] = d[i - 1] + sizes[i - 1]
      BY <2>1, <3>2
    <3>4. QED
      BY <3>1, <3>2, <3>3
  <2>3. QED
    BY <1>1, <2>1, <2>2
<1> DEFINE Q == {n \in Nat : n <= nprocs => d[n] \in Nat}
<1>9. nprocs \in Nat /\ 0 \in Q
  BY <1>1, <1>8
<1>10. \A n \in Nat : n \in Q => n + 1 \in Q
  BY <1>1, <1>8
<1> HIDE DEF Q
<1>11. Nat \subseteq Q
  BY <1>9, <1>10, NaturalInduction
<1>12. QED
  BY <1>1, <1>6, <1>8, <1>11 DEF Q, AddsUp

LEMMA AddsUpGrows ==
  ASSUME NEW sizes, \A r \in Ranks : sizes[r] \in Nat, NEW d, AddsUp(d, sizes),
         NEW i \in 0 .. nprocs, NEW j \in 0 .. nprocs, i <= j
  PROVE  d[i] <= d[j]
<1>1. nprocs \in Nat /\ Ranks = 0 .. nprocs - 1
  BY RanksCounted
<1> DEFINE P == {n \in Nat : i + n <= nprocs => d[i] <= d[i + n]}
<1>2. \A k \in 0 .. nprocs : d[k] \in Nat
  BY DEF AddsUp
<1>3. 0 \in P
  BY <1>1, <1>2
<1>4. ASSUME NEW n \in Nat, n \in P PROVE n + 1 \in P
  <2>1. SUFFICES ASSUME i + (n + 1) <= nprocs PROVE d[i] <= d[i + (n + 1)]
    OBVIOUS
  <2>2. i + n \in Ranks /\ i + n \in 0 .. nprocs /\ i + (n + 1) = (i + n) + 1
    BY <1>1, <2>1
  <2>3. d[(i + n) + 1] = d[i + n] + sizes[i + n] /\ sizes[i + n] \in Nat
    BY <2>2 DEF AddsUp
  <2>4. d[i] <= d[i + n]
    BY <1>1, <1>4, <2>2
  <2>5. QED
    BY <1>2, <2>2, <2>3, <2>4
<1> HIDE DEF P
<1>5. j - i \in P
  BY <1>1, <1>3, <1>4, NaturalInduction
<1>6. i + (j - i) = j
  BY <1>1
<1>7. QED
  BY <1>1, <1>5, <1>6 DEF P

\* Rank r has the places d[r] + 1 .. d[r + 1], and every place has its rank.
Owns(d, r, i) == d[r] < i /\ i <= d[r + 1]

LEMMA PlacesOwned ==
  ASSUME NEW sizes, \A r \in Ranks : sizes[r] \in Nat, NEW d, AddsUp(d, sizes),
         NEW i \in 1 .. d[nprocs]
  PROVE  /\ \E r \in Ranks : Owns(d, r, i)
         /\ \A r, s \in Ranks : Owns(d, r, i) /\ Owns(d, s, i) => r = s
<1>1. nprocs \in Nat \ {0} /\ Ranks = 0 .. nprocs - 1
  BY RanksCounted
<1>2. \A k \in 0 .. nprocs : d[k] \in Nat
  BY DEF AddsUp
<1>3. \E r \in Ranks : Owns(d, r, i)
  <2> DEFINE T == {k \in 0 .. nprocs : i <= d[k]}
  <2>1. T \in SUBSET Nat /\ T # {}
    BY <1>1, <1>2
  <2>2. PICK k \in T : \A j \in T : k <= j
    BY <2>1, LeastNatural
  <2>3. k # 0
    BY <1>2, <2>2 DEF AddsUp
  <2>4. k - 1 \in Ranks /\ k - 1 \in 0 .. nprocs /\ k - 1 \notin T /\ (k - 1) + 1 = k
    BY <1>1, <2>2, <2>3
  <2>5. d[k - 1] < i /\ i <= d[(k - 1) + 1]
    BY <1>2, <2>2, <2>4
  <2>6. QED
    BY <2>4, <2>5 DEF Owns
<1>4. ASSUME NEW r \in Ranks, NEW s \in Ranks, Owns(d, r, i), Owns(d, s, i) PROVE ~(r < s)
  <2>1. SUFFICES ASSUME r < s PROVE FALSE
    OBVIOUS
  <2>2. r + 1 \in 0 .. nprocs /\ s \in 0 .. nprocs /\ r + 1 <= s
    BY <1>1, <2>1
  <2>3. d[r + 1] <= d[s]
    BY <2>2, AddsUpGrows
  <2>4. QED
    BY <1>2, <1>4, <2>2, <2>3 DEF Owns
<1>5. ASSUME NEW r \in Ranks, NEW s \in Ranks, Owns(d, r, i), Owns(d, s, i) PROVE r = s
  <2>1. ~(r < s) /\ ~(s < r)
    BY <1>4, <1>5
  <2>2. QED
    BY <1>1, <2>1
<1>6. QED
  BY <1>3, <1>5

\* The rows of one rank, and a list in which they lie together.
IsRows(r, rows, n) ==
  /\ IsList(rows) /\ Len(rows) = n
  /\ \A i \in 1 .. n : rows[i].rank = r

Lies(all, s, rows) ==
  \E d \in 0 .. Len(all) :
    /\ {i \in DOMAIN all : all[i].rank = s} = d + 1 .. d + Len(rows)
    /\ \A k \in 1 .. Len(rows) : all[d + k] = rows[k]

LEMMA PlaceLies ==
  ASSUME NEW sizes, \A r \in Ranks : sizes[r] \in Nat,
         NEW rows, \A r \in Ranks : IsRows(r, rows[r], sizes[r])
  PROVE  /\ IsList(Place(sizes, rows))
         /\ Len(Place(sizes, rows)) = Displs(sizes)[nprocs]
         /\ \A s \in Ranks : Lies(Place(sizes, rows), s, rows[s])
<1>1. PICK d : d = Displs(sizes)
  OBVIOUS
<1>2. AddsUp(d, sizes)
  BY <1>1, DisplsAddUp
<1>3. nprocs \in Nat \ {0} /\ Ranks = 0 .. nprocs - 1 /\ \A k \in 0 .. nprocs : d[k] \in Nat
  BY <1>2, RanksCounted DEF AddsUp
<1>4. d[nprocs] \in Nat
  BY <1>3
<1> DEFINE owner(i) == CHOOSE r \in Ranks : Owns(d, r, i)
<1>5. PICK all : all = Place(sizes, rows)
  OBVIOUS
<1>6. all = [i \in 1 .. d[nprocs] |-> rows[owner(i)][i - d[owner(i)]]]
  BY <1>1, <1>5 DEF Place, Owns
<1>7. IsList(all) /\ Len(all) = d[nprocs] /\ DOMAIN all = 1 .. d[nprocs]
  <2>1. all = [i \in 1 .. d[nprocs] |-> all[i]]
    BY <1>6
  <2>2. QED
    BY <1>4, <2>1, ListOf
<1>8. ASSUME NEW r \in Ranks, NEW i \in 1 .. d[nprocs], Owns(d, r, i)
      PROVE  i - d[r] \in 1 .. sizes[r] /\ all[i] = rows[r][i - d[r]]
  <2>1. owner(i) \in Ranks /\ Owns(d, owner(i), i)
    BY <1>8
  <2>2. owner(i) = r
    BY <1>2, <1>8, <2>1, PlacesOwned
  <2>3. r \in 0 .. nprocs /\ d[r] \in Nat /\ d[r + 1] = d[r] + sizes[r]
    BY <1>2, <1>3 DEF AddsUp
  <2>4. i - d[r] \in 1 .. sizes[r]
    BY <1>8, <2>3 DEF Owns
  <2>5. QED
    BY <1>6, <2>2, <2>4
<1>9. ASSUME NEW s \in Ranks PROVE Lies(all, s, rows[s])
  <2>1. /\ s \in 0 .. nprocs /\ s + 1 \in 0 .. nprocs /\ d[s] \in Nat
        /\ d[s + 1] = d[s] + sizes[s] /\ sizes[s] \in Nat
    BY <1>2, <1>3 DEF AddsUp
  <2>2. d[s + 1] <= d[nprocs]
    BY <1>2, <1>3, <2>1, AddsUpGrows
  <2>3. d[s] \in 0 .. Len(all)
    BY <1>4, <1>7, <2>1, <2>2
  <2>4. Len(rows[s]) = sizes[s] /\ \A i \in 1 .. sizes[s] : rows[s][i].rank = s
    BY DEF IsRows
  <2>5. ASSUME NEW i \in 1 .. d[nprocs] PROVE all[i].rank = s <=> i \in d[s] + 1 .. d[s] + sizes[s]
    <3>1. PICK r \in Ranks : Owns(d, r, i)
      BY <1>2, PlacesOwned
    <3>2. all[i].rank = r
      BY <1>8, <3>1 DEF IsRows
    <3>3. i \in d[s] + 1 .. d[s] + sizes[s] <=> Owns(d, s, i)
      BY <2>1 DEF Owns
    <3>4. Owns(d, s, i) => r = s
      BY <1>2, <3>1, PlacesOwned
    <3>5. QED
      BY <3>1, <3>2, <3>3, <3>4
  <2>6. d[s] + 1 .. d[s] + sizes[s] \subseteq 1 .. d[nprocs]
    BY <1>4, <2>1, <2>2
  <2>7. {i \in DOMAIN all : all[i].rank = s} = d[s] + 1 .. d[s] + Len(rows[s])
    BY <1>7, <2>4, <2>5, <2>6
  <2>8. ASSUME NEW k \in 1 .. Len(rows[s]) PROVE all[d[s] + k] = rows[s][k]
    <3>1. PICK i : i = d[s] + k
      OBVIOUS
    <3>2. i \in 1 .. d[nprocs] /\ d[s] < i /\ i <= d[s] + sizes[s] /\ i - d[s] = k
      BY <1>4, <2>1, <2>2, <2>4, <3>1, SMTT(30)
    <3>3. Owns(d, s, i)
      BY <2>1, <3>2 DEF Owns
    <3>4. all[i] = rows[s][i - d[s]]
      BY <1>8, <3>2, <3>3
    <3>5. QED
      BY <3>1, <3>2, <3>4
  <2>9. QED
    BY <2>3, <2>7, <2>8 DEF Lies
<1>10. QED
  BY <1>1, <1>5, <1>7, <1>9

-----------------------------------------------------------------------------
(***************************************************************************)
(* What the steps do to the messages of each collective.                    *)
(***************************************************************************)
\* v has the messages of n that u has; one more, with d; one less, the first.
From(u, v, n) == \A j \in DOMAIN v : v[j].name = n => \E i \in DOMAIN u : u[i] = v[j]

Kept(u, v, n) ==
  (Has(v, n) <=> Has(u, n)) /\ (Once(u, n) => Once(v, n)) /\ From(u, v, n)

Added(u, v, n, d) ==
  /\ Has(v, n)
  /\ ~Has(u, n) => Once(v, n)
  /\ \A j \in DOMAIN v : v[j].name = n => v[j].data = d \/ \E i \in DOMAIN u : u[i] = v[j]

Removed(u, v, n) ==
  Has(u, n) /\ (Once(u, n) => ~Has(v, n) /\ Once(v, n)) /\ From(u, v, n)

Named(s) == \A i \in DOMAIN s : s[i].name \in Names

LEMMA AppendEffect ==
  ASSUME NEW s, IsList(s), NEW m \in Names, NEW d, NEW v, v = Append(s, Message(m, d))
  PROVE  /\ IsList(v) /\ Len(v) = Len(s) + 1
         /\ \A n : n # m => Kept(s, v, n)
         /\ Added(s, v, m, d)
         /\ Named(s) => Named(v)
<1>1. /\ IsList(v) /\ Len(v) = Len(s) + 1
      /\ Len(s) \in Nat /\ DOMAIN s = 1 .. Len(s) /\ DOMAIN v = 1 .. Len(s) + 1
      /\ \A i \in 1 .. Len(s) : v[i] = s[i]
      /\ v[Len(s) + 1].name = m /\ v[Len(s) + 1].data = d
  BY Appended DEF Message
<1>2. \A n : /\ Has(v, n) <=> Has(s, n) \/ m = n
             /\ Once(s, n) /\ (m = n => ~Has(s, n)) => Once(v, n)
  BY AppendedHas
<1>3. ASSUME NEW n, n # m PROVE Kept(s, v, n)
  <2>1. From(s, v, n)
    <3>1. ASSUME NEW j \in DOMAIN v, v[j].name = n PROVE j \in DOMAIN s /\ s[j] = v[j]
      BY <1>1, <1>3, <3>1
    <3>2. QED
      BY <3>1 DEF From
  <2>2. QED
    BY <1>2, <1>3, <2>1 DEF Kept
<1>4. Added(s, v, m, d)
  <2>1. ASSUME NEW j \in DOMAIN v PROVE v[j].data = d \/ \E i \in DOMAIN s : s[i] = v[j]
    BY <1>1
  <2>2. ~Has(s, m) => Once(s, m)
    BY DEF Has, Once
  <2>3. QED
    BY <1>2, <2>1, <2>2 DEF Added
<1>5. Named(s) => Named(v)
  <2>1. SUFFICES ASSUME Named(s), NEW j \in DOMAIN v PROVE v[j].name \in Names
    BY DEF Named
  <2>2. CASE j = Len(s) + 1
    BY <1>1, <2>2
  <2>3. CASE j # Len(s) + 1
    <3>1. j \in DOMAIN s /\ v[j] = s[j]
      BY <1>1, <2>3
    <3>2. QED
      BY <2>1, <3>1 DEF Named
  <2>4. QED
    BY <2>2, <2>3
<1>6. QED
  BY <1>1, <1>3, <1>4, <1>5

LEMMA TailEffect ==
  ASSUME NEW s, IsList(s), s # << >>, NEW m, Head(s).name = m, NEW v, v = Tail(s)
  PROVE  /\ IsList(v) /\ Len(v) = Len(s) - 1 /\ Len(s) \in Nat \ {0}
         /\ \A n : n # m => Kept(s, v, n)
         /\ Removed(s, v, m)
         /\ Named(s) => Named(v)
         /\ 1 \in DOMAIN s /\ s[1] = Head(s)
<1>1. /\ IsList(v)
      /\ Len(s) \in Nat \ {0} /\ DOMAIN s = 1 .. Len(s)
      /\ DOMAIN v = 1 .. Len(s) - 1
      /\ \A i \in 1 .. Len(s) - 1 : v[i] = s[i + 1]
      /\ Head(s) = s[1]
  BY Taken
<1>2. Len(v) = Len(s) - 1
  <2>1. PICK S : s \in Seq(S)
    BY DEF IsList
  <2>2. QED
    BY <1>1, <2>1
<1>3. \A n : /\ Has(v, n) => Has(s, n)
             /\ Once(s, n) => Once(v, n)
             /\ Head(s).name # n /\ Has(s, n) => Has(v, n)
             /\ Head(s).name = n => Has(s, n)
             /\ Head(s).name = n /\ Once(s, n) => ~Has(v, n)
  BY TakenHas
<1>4. \A j \in DOMAIN v : \E i \in DOMAIN s : s[i] = v[j]
  <2>1. ASSUME NEW j \in DOMAIN v PROVE j + 1 \in DOMAIN s /\ s[j + 1] = v[j]
    BY <1>1
  <2>2. QED
    BY <2>1
<1>5. \A n : From(s, v, n)
  BY <1>4 DEF From
<1>6. \A n : n # m => Kept(s, v, n)
  BY <1>3, <1>5 DEF Kept
<1>7. Removed(s, v, m)
  BY <1>3, <1>5 DEF Removed
<1>8. Named(s) => Named(v)
  <2>1. SUFFICES ASSUME Named(s), NEW j \in DOMAIN v PROVE v[j].name \in Names
    BY DEF Named
  <2>2. PICK i \in DOMAIN s : s[i] = v[j]
    BY <1>4
  <2>3. s[i].name \in Names
    BY <2>1 DEF Named
  <2>4. QED
    BY <2>2, <2>3
<1>9. QED
  BY <1>1, <1>2, <1>6, <1>7, <1>8

LEMMA KeptSame == \A u, n : Kept(u, u, n)
BY DEF Kept, From

\* No channel holds more than MPI may buffer, nor anything but the collectives.
Buffered ==
  /\ buffer \in Nat \ {0}
  /\ \A r \in Ranks : /\ Len(up[r]) <= buffer /\ Len(down[r]) <= buffer
                      /\ Named(up[r]) /\ Named(down[r])

\* Messages of collectives other than m stay.
CalmBut(m) ==
  \A s \in Others : \A n : n # m => Kept(up[s], up'[s], n) /\ Kept(down[s], down'[s], n)

LEMMA EmptyChannel == IsList(<< >>) /\ Len(<< >>) = 0 /\ Named(<< >>)
BY DEF IsList, Named

LEMMA SendUpEffect ==
  ASSUME Channels, Buffered, buffer' = buffer,
         NEW r \in Ranks, NEW m \in Names, NEW d, SendUp(r, m, d)
  PROVE  /\ Channels' /\ Buffered' /\ CalmBut(m) /\ r \in Others
         /\ Added(up[r], up'[r], m, d)
         /\ \A s \in Others \ {r} : up'[s] = up[s]
         /\ down' = down
<1>1. /\ r # Root /\ Len(up[r]) < buffer /\ down' = down
      /\ up' = [up EXCEPT ![r] = Append(@, Message(m, d))]
  BY DEF SendUp
<1>2. /\ IsList(up[r]) /\ up'[r] = Append(up[r], Message(m, d)) /\ DOMAIN up' = Ranks
      /\ \A s \in Ranks \ {r} : up'[s] = up[s]
  BY <1>1 DEF Channels
<1>3. /\ IsList(up'[r]) /\ Len(up'[r]) = Len(up[r]) + 1 /\ Len(up[r]) \in Nat
      /\ \A n : n # m => Kept(up[r], up'[r], n)
      /\ Added(up[r], up'[r], m, d)
      /\ Named(up[r]) => Named(up'[r])
  <2>1. PICK s, v : s = up[r] /\ v = up'[r]
    OBVIOUS
  <2>2. IsList(s) /\ v = Append(s, Message(m, d))
    BY <1>2, <2>1
  <2>3. /\ IsList(v) /\ Len(v) = Len(s) + 1 /\ \A n : n # m => Kept(s, v, n)
        /\ Added(s, v, m, d) /\ (Named(s) => Named(v))
    BY <2>2, AppendEffect
  <2>4. QED
    BY <1>2, <2>1, <2>3, ListLen
<1>4. Channels'
  BY <1>1, <1>2, <1>3 DEF Channels
<1>5. Len(up'[r]) <= buffer
  BY <1>1, <1>3 DEF Buffered
<1>6. Buffered'
  BY <1>1, <1>2, <1>3, <1>5 DEF Buffered
<1>7. CalmBut(m)
  BY <1>1, <1>2, <1>3, KeptSame DEF CalmBut, Others
<1>8. QED
  BY <1>1, <1>2, <1>3, <1>4, <1>6, <1>7 DEF Others

LEMMA GatherEffect ==
  ASSUME Channels, Buffered, buffer' = buffer, NEW m \in Names, Gather(m)
  PROVE  /\ Channels' /\ Buffered' /\ CalmBut(m)
         /\ \A s \in Others : Removed(up[s], up'[s], m)
         /\ down' = down
         /\ \A mine : /\ DOMAIN Gathered(mine) = Ranks /\ Gathered(mine)[Root] = mine
                      /\ \A s \in Others : \E i \in DOMAIN up[s] :
                           up[s][i].name = m /\ Gathered(mine)[s] = up[s][i].data
<1>1. /\ \A s \in Others : up[s] # << >> /\ Head(up[s]).name = m
      /\ up' = [s \in Ranks |-> IF s = Root THEN << >> ELSE Tail(up[s])]
      /\ down' = down
  BY DEF Gather
<1>2. ASSUME NEW s \in Others
      PROVE  /\ IsList(up'[s]) /\ Len(up'[s]) <= buffer
             /\ \A n : n # m => Kept(up[s], up'[s], n)
             /\ Removed(up[s], up'[s], m) /\ Named(up'[s])
             /\ 1 \in DOMAIN up[s] /\ up[s][1] = Head(up[s])
  <2>1. s \in Ranks /\ s # Root /\ IsList(up[s]) /\ Len(up[s]) <= buffer /\ Named(up[s])
    BY DEF Others, Channels, Buffered
  <2>2. up'[s] = Tail(up[s]) /\ up[s] # << >> /\ Head(up[s]).name = m
    BY <1>1, <2>1
  <2>3. /\ IsList(up'[s]) /\ Len(up'[s]) = Len(up[s]) - 1 /\ Len(up[s]) \in Nat \ {0}
        /\ \A n : n # m => Kept(up[s], up'[s], n)
        /\ Removed(up[s], up'[s], m)
        /\ Named(up[s]) => Named(up'[s])
        /\ 1 \in DOMAIN up[s] /\ up[s][1] = Head(up[s])
    BY <2>1, <2>2, TailEffect
  <2>4. Len(up'[s]) <= buffer
    BY <2>1, <2>3 DEF Buffered
  <2>5. QED
    BY <2>1, <2>3, <2>4
<1>3. up'[Root] = << >> /\ DOMAIN up' = Ranks
  BY <1>1, RanksCounted
<1>4. Channels'
  BY <1>1, <1>2, <1>3, EmptyChannel DEF Channels, Others
<1>5. Buffered'
  <2>1. Len(up'[Root]) <= buffer
    BY <1>3, EmptyChannel DEF Buffered
  <2>2. QED
    BY <1>1, <1>2, <1>3, <2>1, EmptyChannel DEF Buffered, Others
<1>6. CalmBut(m)
  BY <1>1, <1>2, KeptSame DEF CalmBut
<1>7. ASSUME NEW mine
      PROVE  /\ DOMAIN Gathered(mine) = Ranks /\ Gathered(mine)[Root] = mine
             /\ \A s \in Others : \E i \in DOMAIN up[s] :
                  up[s][i].name = m /\ Gathered(mine)[s] = up[s][i].data
  <2>1. /\ DOMAIN Gathered(mine) = Ranks /\ Gathered(mine)[Root] = mine
        /\ \A s \in Others : Gathered(mine)[s] = Head(up[s]).data
    BY RanksCounted DEF Gathered, Others
  <2>2. QED
    BY <1>1, <1>2, <2>1
<1>8. QED
  BY <1>1, <1>2, <1>4, <1>5, <1>6, <1>7

LEMMA SendDownEffect ==
  ASSUME Channels, Buffered, buffer' = buffer, NEW m \in Names, NEW d, SendDown(m, d)
  PROVE  /\ Channels' /\ Buffered' /\ CalmBut(m)
         /\ \A s \in Others : Added(down[s], down'[s], m, d)
         /\ up' = up
<1>1. /\ \A s \in Others : Len(down[s]) < buffer
      /\ down' = [s \in Ranks |-> IF s = Root THEN << >>
                                  ELSE Append(down[s], Message(m, d))]
      /\ up' = up
  BY DEF SendDown
<1>2. ASSUME NEW s \in Others
      PROVE  /\ IsList(down'[s]) /\ Len(down'[s]) <= buffer
             /\ \A n : n # m => Kept(down[s], down'[s], n)
             /\ Added(down[s], down'[s], m, d) /\ Named(down'[s])
  <2>1. s \in Ranks /\ s # Root /\ IsList(down[s]) /\ Named(down[s])
    BY DEF Others, Channels, Buffered
  <2>2. down'[s] = Append(down[s], Message(m, d)) /\ Len(down[s]) < buffer
    BY <1>1, <2>1
  <2>3. /\ IsList(down'[s]) /\ Len(down'[s]) = Len(down[s]) + 1 /\ Len(down[s]) \in Nat
        /\ \A n : n # m => Kept(down[s], down'[s], n)
        /\ Added(down[s], down'[s], m, d)
        /\ Named(down[s]) => Named(down'[s])
    <3>1. PICK u, v : u = down[s] /\ v = down'[s]
      OBVIOUS
    <3>2. IsList(u) /\ v = Append(u, Message(m, d))
      BY <2>1, <2>2, <3>1
    <3>3. /\ IsList(v) /\ Len(v) = Len(u) + 1 /\ \A n : n # m => Kept(u, v, n)
          /\ Added(u, v, m, d) /\ (Named(u) => Named(v))
      BY <3>2, AppendEffect
    <3>4. QED
      BY <2>1, <3>1, <3>3, ListLen
  <2>4. Len(down'[s]) <= buffer
    BY <2>2, <2>3 DEF Buffered
  <2>5. QED
    BY <2>1, <2>3, <2>4
<1>3. down'[Root] = << >> /\ DOMAIN down' = Ranks
  BY <1>1, RanksCounted
<1>4. Channels'
  BY <1>1, <1>2, <1>3, EmptyChannel DEF Channels, Others
<1>5. Buffered'
  <2>1. Len(down'[Root]) <= buffer
    BY <1>3, EmptyChannel DEF Buffered
  <2>2. QED
    BY <1>1, <1>2, <1>3, <2>1, EmptyChannel DEF Buffered, Others
<1>6. CalmBut(m)
  BY <1>1, <1>2, KeptSame DEF CalmBut
<1>7. QED
  BY <1>1, <1>2, <1>4, <1>5, <1>6

LEMMA ReceiveEffect ==
  ASSUME Channels, Buffered, buffer' = buffer,
         NEW r \in Ranks, NEW m \in Names, Receive(r, m)
  PROVE  /\ Channels' /\ Buffered' /\ CalmBut(m) /\ r \in Others
         /\ Removed(down[r], down'[r], m)
         /\ \A s \in Others \ {r} : down'[s] = down[s]
         /\ up' = up
         /\ \E i \in DOMAIN down[r] : down[r][i].name = m /\ Received(r) = down[r][i].data
<1>1. /\ r # Root /\ down[r] # << >> /\ Head(down[r]).name = m
      /\ down' = [down EXCEPT ![r] = Tail(@)] /\ up' = up
  BY DEF Receive
<1>2. /\ IsList(down[r]) /\ down'[r] = Tail(down[r]) /\ DOMAIN down' = Ranks
      /\ \A s \in Ranks \ {r} : down'[s] = down[s]
      /\ Len(down[r]) <= buffer
  BY <1>1 DEF Channels, Buffered
<1>3. /\ IsList(down'[r]) /\ Len(down'[r]) = Len(down[r]) - 1 /\ Len(down[r]) \in Nat \ {0}
      /\ \A n : n # m => Kept(down[r], down'[r], n)
      /\ Removed(down[r], down'[r], m)
      /\ Named(down[r]) => Named(down'[r])
      /\ 1 \in DOMAIN down[r] /\ down[r][1] = Head(down[r])
  <2>1. PICK s, v : s = down[r] /\ v = down'[r]
    OBVIOUS
  <2>2. IsList(s) /\ s # << >> /\ Head(s).name = m /\ v = Tail(s)
    BY <1>1, <1>2, <2>1
  <2>3. /\ IsList(v) /\ Len(v) = Len(s) - 1 /\ Len(s) \in Nat \ {0}
        /\ \A n : n # m => Kept(s, v, n)
        /\ Removed(s, v, m) /\ (Named(s) => Named(v))
        /\ 1 \in DOMAIN s /\ s[1] = Head(s)
    BY <2>2, TailEffect
  <2>4. QED
    BY <2>1, <2>3
<1>4. Channels'
  BY <1>1, <1>2, <1>3 DEF Channels
<1>5. Len(down'[r]) <= buffer
  BY <1>2, <1>3 DEF Buffered
<1>6. Buffered'
  BY <1>1, <1>2, <1>3, <1>5 DEF Buffered
<1>7. CalmBut(m)
  BY <1>1, <1>2, <1>3, KeptSame DEF CalmBut, Others
<1>8. QED
  BY <1>1, <1>2, <1>3, <1>4, <1>6, <1>7 DEF Others, Received

\* Every step of a rank takes part in one collective or in none.
LEMMA CollectiveEffect ==
  ASSUME Channels, Buffered, buffer' = buffer, NEW r \in Ranks, NEW m \in Names, NEW d,
         SendUp(r, m, d) \/ Gather(m) \/ SendDown(m, d) \/ Receive(r, m) \/ NoMessages
  PROVE  Channels' /\ Buffered' /\ CalmBut(m)
<1>1. CASE NoMessages
  BY <1>1, KeptSame DEF NoMessages, Channels, Buffered, CalmBut
<1>2. QED
  BY <1>1, SendUpEffect, GatherEffect, SendDownEffect, ReceiveEffect

-----------------------------------------------------------------------------
(***************************************************************************)
(* The second invariant: what the ranks know of each other in a measurement *)
(* and what the messages carry.                                             *)
(***************************************************************************)
Labels == {"call", "sample", "stream"} \cup Names

Typed ==
  /\ script \in Scripts /\ Buffered
  /\ pc \in [Ranks -> Labels]
  /\ DOMAIN plan = Ranks
  /\ \A r \in Ranks :
       /\ at[r] \in 1 .. Len(script) + 1
       /\ pc[r] # "call" => at[r] <= Len(script)
       /\ {"total", "cntLocal", "probs", "cnts"} \subseteq DOMAIN plan[r]
       /\ plan[r].cntLocal \in Nat
       /\ {"taus", "pass", "local", "sizes"} \subseteq DOMAIN cache[r]

\* No rank is past the first exchange of a measurement before all are in it, and
\* none leaves it before the root has.
Opened(r) ==
  /\ Once(up[r], "prob") /\ Once(down[r], "prefix")
  /\ Has(up[r], "prob") => pc[r] = "prefix" /\ pc[Root] = "call"
  /\ Has(down[r], "prefix") => pc[r] = "prefix" /\ pc[Root] \notin {"call", "prefix"}
  /\ pc[Root] # "call" => pc[r] # "call"
  /\ pc[Root] = "prefix" => pc[r] = "prefix"
  /\ Answered(r) => pc[Root] = "call"
  /\ pc[r] \notin {"call", "prefix"} /\ pc[Root] = "call" => Answered(r)

\* The root collects no rows before every rank has resolved its own.
Sized(r) ==
  /\ Once(up[r], "size")
  /\ Has(up[r], "size") =>
       pc[r] \in {"rows", "all"} /\ pc[Root] \notin {"rows", "all"} /\ ~Answered(r)
  /\ pc[Root] \in {"rows", "all"} => pc[r] \in {"rows", "all"}

\* A pass loses no threshold, and leaves a row for each.
Sampled(r) ==
  /\ pc[r] = "stream" =>
       /\ IsList(cache[r].pass.taus) /\ IsList(cache[r].pass.rows)
       /\ Len(cache[r].pass.taus) + Len(cache[r].pass.rows) = plan[r].cntLocal
  /\ pc[r] \in {"size", "rows", "all"} => IsRows(r, cache[r].local, plan[r].cntLocal)

\* What lies in the channels of r, and at the root between two collectives.
Counts(c) == \A s \in Ranks : c[s] \in Nat
Results(rows, n) ==
  IsList(rows) /\ Len(rows) = n /\ \A s \in Ranks : Lies(rows, s, cache[s].local)

SentBy(r) ==
  \A i \in DOMAIN up[r] :
    /\ up[r][i].name = "size" => up[r][i].data = plan[r].cntLocal
    /\ up[r][i].name = "rows" => up[r][i].data = cache[r].local
SentTo(r) ==
  \A i \in DOMAIN down[r] :
    /\ down[r][i].name = "cnts" => Counts(down[r][i].data)
    /\ down[r][i].name = "all" => Results(down[r][i].data, script[at[r]].cnt)
AtRoot ==
  /\ pc[Root] = "cnts" => Counts(plan[Root].cnts)
  /\ pc[Root] = "rows" => \A s \in Ranks : cache[Root].sizes[s] = plan[s].cntLocal
  /\ pc[Root] = "all" => Results(cache[Root].real, script[at[Root]].cnt)

\* The results of r are of its present state, and until it measures again hold
\* the rows that each rank has resolved.
Bare(packed) == [i \in DOMAIN packed |-> packed[i].row]
Present(r) ==
  /\ IsList(cache[r].packed)
  /\ cache[r].count > 0 =>
       /\ Len(cache[r].packed) = cache[r].count
       /\ \A i \in 1 .. cache[r].count : cache[r].packed[i].run = sim[r].run
       /\ pc[r] = "call" =>
            \A s \in Ranks : Lies(Bare(cache[r].packed), s, cache[s].local)

\* What r has returned was as the script says.
Answers(r) ==
  \A i \in 1 .. Len(got[r]) :
    LET g == got[r][i] IN
    /\ g.call \in 1 .. Len(script)
    /\ IsList(g.rows) /\ Len(g.rows) = CountAt(script, g.call)
    /\ \A k \in 1 .. Len(g.rows) : g.rows[k].run = Count(script, "execute", g.call)

RowsInv ==
  /\ Inv /\ Typed
  /\ \A r \in Others : Opened(r) /\ Sized(r) /\ SentBy(r) /\ SentTo(r)
  /\ \A r \in Ranks : Sampled(r) /\ Present(r) /\ Answers(r)
  /\ AtRoot

-----------------------------------------------------------------------------
(***************************************************************************)
(* A step of r leaves the other ranks alone.                                *)
(***************************************************************************)
Moves(r) ==
  /\ script' = script /\ buffer' = buffer
  /\ DOMAIN pc' = Ranks /\ DOMAIN at' = Ranks /\ DOMAIN plan' = Ranks
  /\ DOMAIN cache' = Ranks /\ DOMAIN sim' = Ranks /\ DOMAIN got' = Ranks
  /\ \A s \in Ranks \ {r} : /\ at'[s] = at[s] /\ pc'[s] = pc[s] /\ plan'[s] = plan[s]
                            /\ cache'[s] = cache[s] /\ sim'[s] = sim[s] /\ got'[s] = got[s]

\* What Typed asks of the rank that moves.
Fits(r) ==
  /\ pc' \in [Ranks -> Labels]
  /\ at'[r] \in 1 .. Len(script) + 1
  /\ pc'[r] # "call" => at'[r] <= Len(script)
  /\ {"total", "cntLocal", "probs", "cnts"} \subseteq DOMAIN plan'[r]
  /\ plan'[r].cntLocal \in Nat
  /\ {"taus", "pass", "local", "sizes"} \subseteq DOMAIN cache'[r]

LEMMA TypedStays ==
  ASSUME Typed, NEW r \in Ranks, Moves(r), Fits(r), Buffered'
  PROVE  Typed'
BY DEF Typed, Moves, Fits

\* Within a measurement and away from its ends r meets no one else.
SameStage(r) ==
  /\ pc'[r] = "call" <=> pc[r] = "call"
  /\ pc'[r] = "prefix" <=> pc[r] = "prefix"
  /\ pc'[r] \in {"rows", "all"} <=> pc[r] \in {"rows", "all"}

LEMMA SyncStays ==
  ASSUME RowsInv, NEW r \in Ranks, Moves(r), SameStage(r),
         NEW m, CalmBut(m), m \notin {"prob", "prefix", "size", "all"}
  PROVE  \A s \in Others : Opened(s)' /\ Sized(s)'
<1> SUFFICES ASSUME NEW s \in Others PROVE Opened(s)' /\ Sized(s)'
  OBVIOUS
<1>1. Opened(s) /\ Sized(s) /\ s \in Ranks /\ Root \in Ranks
  BY RanksCounted DEF RowsInv, Others
<1>2. /\ Kept(up[s], up'[s], "prob") /\ Kept(up[s], up'[s], "size")
      /\ Kept(down[s], down'[s], "prefix") /\ Kept(down[s], down'[s], "all")
  BY DEF CalmBut
<1>3. ASSUME NEW q \in {s, Root}
      PROVE  /\ pc'[q] = "call" <=> pc[q] = "call"
             /\ pc'[q] = "prefix" <=> pc[q] = "prefix"
             /\ pc'[q] \in {"rows", "all"} <=> pc[q] \in {"rows", "all"}
  BY <1>1 DEF Moves, SameStage
<1>4. /\ pc'[s] = "call" <=> pc[s] = "call"
      /\ pc'[s] = "prefix" <=> pc[s] = "prefix"
      /\ pc'[s] \in {"rows", "all"} <=> pc[s] \in {"rows", "all"}
      /\ pc'[Root] = "call" <=> pc[Root] = "call"
      /\ pc'[Root] = "prefix" <=> pc[Root] = "prefix"
      /\ pc'[Root] \in {"rows", "all"} <=> pc[Root] \in {"rows", "all"}
  BY <1>3
<1>5. /\ Has(up[s], "prob")' <=> Has(up[s], "prob")
      /\ Has(up[s], "size")' <=> Has(up[s], "size")
      /\ Has(down[s], "prefix")' <=> Has(down[s], "prefix")
      /\ Answered(s)' <=> Answered(s)
      /\ Once(up[s], "prob") => Once(up[s], "prob")'
      /\ Once(up[s], "size") => Once(up[s], "size")'
      /\ Once(down[s], "prefix") => Once(down[s], "prefix")'
  BY <1>2 DEF Kept, Answered
<1>6. Opened(s)'
  BY <1>1, <1>4, <1>5 DEF Opened
<1>7. Sized(s)'
  BY <1>1, <1>4, <1>5 DEF Sized
<1>8. QED
  BY <1>6, <1>7

\* r keeps what it has resolved, and its results or none.
Keeps(r) ==
  /\ cache'[r].local = cache[r].local /\ cache'[r].packed = cache[r].packed
  /\ cache'[r].count = 0 \/ (cache'[r].count = cache[r].count /\ sim'[r].run = sim[r].run)
  /\ plan'[r].cntLocal = plan[r].cntLocal
  /\ pc'[r] = "call" => pc[r] = "call"
  /\ at'[r] # at[r] => pc[r] = "call"

LEMMA LocalsStay ==
  ASSUME NEW r \in Ranks, Moves(r), cache'[r].local = cache[r].local
  PROVE  /\ \A s \in Ranks : cache'[s].local = cache[s].local
         /\ \A rows, n : Results(rows, n)' <=> Results(rows, n)
<1>1. \A s \in Ranks : cache'[s].local = cache[s].local
  BY DEF Moves
<1>2. QED
  BY <1>1 DEF Results

LEMMA SentByStays ==
  ASSUME NEW s \in Others, SentBy(s),
         From(up[s], up'[s], "size"), From(up[s], up'[s], "rows"),
         cache'[s].local = cache[s].local, plan'[s].cntLocal = plan[s].cntLocal
  PROVE  SentBy(s)'
BY DEF SentBy, From

LEMMA SentToStays ==
  ASSUME NEW s \in Others, SentTo(s),
         From(down[s], down'[s], "cnts"), From(down[s], down'[s], "all"),
         script' = script, Answered(s) => at'[s] = at[s],
         \A rows, n : Results(rows, n) => Results(rows, n)'
  PROVE  SentTo(s)'
<1>1. ASSUME NEW j \in DOMAIN down'[s], down'[s][j].name = "cnts"
      PROVE  Counts(down'[s][j].data)
  <2>1. PICK i \in DOMAIN down[s] : down[s][i] = down'[s][j]
    BY <1>1 DEF From
  <2>2. QED
    BY <1>1, <2>1 DEF SentTo
<1>2. ASSUME NEW j \in DOMAIN down'[s], down'[s][j].name = "all",
             NEW d, d = down'[s][j].data, NEW n, n = script[at'[s]].cnt
      PROVE  Results(d, n)'
  <2>1. PICK i \in DOMAIN down[s] : down[s][i] = down'[s][j]
    BY <1>2 DEF From
  <2>2. Answered(s)
    BY <1>2, <2>1 DEF Answered, Has
  <2>3. Results(down[s][i].data, script[at[s]].cnt)
    BY <1>2, <2>1 DEF SentTo
  <2>4. Results(d, n)
    BY <1>2, <2>1, <2>2, <2>3
  <2>5. QED
    BY <2>4
<1>3. \A j \in DOMAIN down'[s] : down'[s][j].name = "all" =>
        /\ IsList(down'[s][j].data) /\ Len(down'[s][j].data) = script[at'[s]].cnt
        /\ \A q \in Ranks : Lies(down'[s][j].data, q, cache'[q].local)
  BY <1>2 DEF Results
<1>4. QED
  BY <1>1, <1>3 DEF SentTo, Counts, Results

LEMMA DataStays ==
  ASSUME RowsInv, NEW r \in Ranks, Moves(r), Keeps(r),
         NEW m, CalmBut(m), m \notin {"cnts", "size", "rows", "all"},
         Sampled(r)', Answers(r)', r = Root => AtRoot'
  PROVE  /\ \A s \in Others : SentBy(s)' /\ SentTo(s)'
         /\ \A s \in Ranks : Sampled(s)' /\ Present(s)' /\ Answers(s)'
         /\ AtRoot'
<1>1. /\ \A s \in Ranks : cache'[s].local = cache[s].local
      /\ \A rows, n : Results(rows, n)' <=> Results(rows, n)
  BY LocalsStay DEF Keeps
<1>2. script' = script /\ Root \in Ranks /\ \A s \in Ranks : plan'[s].cntLocal = plan[s].cntLocal
  BY RanksCounted DEF Moves, Keeps
<1>3. ASSUME NEW s \in Others PROVE SentBy(s)' /\ SentTo(s)'
  <2>1. /\ SentBy(s) /\ SentTo(s) /\ Turn(s) /\ s \in Ranks
        /\ From(up[s], up'[s], "size") /\ From(up[s], up'[s], "rows")
        /\ From(down[s], down'[s], "cnts") /\ From(down[s], down'[s], "all")
    BY DEF RowsInv, Inv, Others, CalmBut, Kept
  <2>2. SentBy(s)'
    BY <1>1, <1>2, <2>1, SentByStays
  <2>3. Answered(s) => at'[s] = at[s]
    <3>1. Answered(s) => pc[s] = "all"
      BY <2>1 DEF Turn
    <3>2. QED
      BY <2>1, <3>1 DEF Moves, Keeps
  <2>4. SentTo(s)'
    BY <1>1, <1>2, <2>1, <2>3, SentToStays
  <2>5. QED
    BY <2>2, <2>4
<1>4. ASSUME NEW s \in Ranks PROVE Sampled(s)'
  <2>1. CASE s # r
    <3>1. Sampled(s) /\ pc'[s] = pc[s] /\ cache'[s] = cache[s] /\ plan'[s] = plan[s]
      BY <2>1 DEF RowsInv, Moves
    <3>2. QED
      BY <3>1 DEF Sampled
  <2>2. QED
    BY <2>1
<1>5. ASSUME NEW s \in Ranks PROVE Present(s)'
  <2>1. Present(s)
    BY DEF RowsInv
  <2>2. /\ cache'[s].packed = cache[s].packed /\ (pc'[s] = "call" => pc[s] = "call")
        /\ \/ cache'[s].count = 0
           \/ cache'[s].count = cache[s].count /\ sim'[s].run = sim[s].run
    BY DEF Moves, Keeps
  <2>3. \A q \in Ranks : Lies(Bare(cache[s].packed), q, cache[q].local)' <=>
                         Lies(Bare(cache[s].packed), q, cache[q].local)
    BY <1>1, <2>2
  <2>4. QED
    BY <2>1, <2>2, <2>3 DEF Present
<1>6. ASSUME NEW s \in Ranks PROVE Answers(s)'
  <2>1. CASE s # r
    <3>1. Answers(s) /\ got'[s] = got[s]
      BY <2>1 DEF RowsInv, Moves
    <3>2. QED
      BY <1>2, <3>1 DEF Answers
  <2>2. QED
    BY <2>1
<1>7. AtRoot'
  <2>1. CASE r # Root
    <3>1. AtRoot /\ pc'[Root] = pc[Root] /\ cache'[Root] = cache[Root]
          /\ plan'[Root] = plan[Root] /\ at'[Root] = at[Root]
      BY <1>2, <2>1 DEF RowsInv, Moves
    <3>2. pc[Root] = "cnts" => Counts(plan[Root].cnts)'
      BY <3>1 DEF AtRoot, Counts
    <3>3. pc[Root] = "rows" => \A s \in Ranks : cache'[Root].sizes[s] = plan'[s].cntLocal
      BY <1>2, <3>1 DEF AtRoot
    <3>4. pc[Root] = "all" => Results(cache[Root].real, script[at[Root]].cnt)'
      BY <1>1, <1>2, <3>1 DEF AtRoot
    <3>5. QED
      BY <3>1, <3>2, <3>3, <3>4 DEF AtRoot
  <2>2. QED
    BY <2>1
<1>8. QED
  BY <1>3, <1>4, <1>5, <1>6, <1>7

\* The steps that nothing above depends on.
LEMMA OrdinaryKeeps ==
  ASSUME RowsInv, Inv', NEW r \in Ranks, Moves(r), Fits(r), Keeps(r), SameStage(r),
         NEW m, CalmBut(m), Buffered',
         m \notin {"prob", "prefix", "cnts", "size", "rows", "all"},
         Sampled(r)', Answers(r)', r = Root => AtRoot'
  PROVE  RowsInv'
<1>1. Typed'
  BY TypedStays DEF RowsInv
<1>2. \A s \in Others : Opened(s)' /\ Sized(s)'
  BY SyncStays
<1>3. /\ \A s \in Others : SentBy(s)' /\ SentTo(s)'
      /\ \A s \in Ranks : Sampled(s)' /\ Present(s)' /\ Answers(s)'
      /\ AtRoot'
  BY DataStays
<1>4. QED
  BY <1>1, <1>2, <1>3 DEF RowsInv

-----------------------------------------------------------------------------
(***************************************************************************)
(* Scripts.                                                                 *)
(***************************************************************************)
LEMMA ScriptCalls ==
  ASSUME Typed
  PROVE  /\ Len(script) \in Nat
         /\ \A c \in 1 .. Len(script) :
              /\ script[c].cnt \in Nat
              /\ script[c].op # "measure" => script[c].cnt = 0
<1>1. script \in Scripts
  BY DEF Typed
<1>2. /\ script \in Seq({script[i] : i \in DOMAIN script})
      /\ \A i \in DOMAIN script :
           /\ script[i].cnt \in Nat
           /\ script[i].op # "measure" => script[i].cnt = 0
  BY <1>1, ScriptsAssumption
<1>3. QED
  BY <1>2

LEMMA CountAtShots ==
  ASSUME Typed, NEW c \in 1 .. Len(script) + 1
  PROVE  CountAt(script, c) \in Nat /\ CountAt(script, c) = Shots(c)
<1>1. /\ Len(script) \in Nat
      /\ \A k \in 1 .. Len(script) :
           /\ script[k].cnt \in Nat
           /\ script[k].op # "measure" => script[k].cnt = 0
  BY ScriptCalls
<1> DEFINE T == Since(script, c)
<1>2. T = {i \in 1 .. c - 1 : script[i].op # "get"} /\ T \in SUBSET (1 .. Len(script))
  BY <1>1 DEF Since
<1> HIDE DEF T
<1>3. CASE T = {}
  BY <1>2, <1>3 DEF CountAt, Shots, T
<1>4. CASE T # {}
  <2>1. PICK k : k = Max(T)
    OBVIOUS
  <2>2. k \in T
    BY <1>1, <1>2, <1>4, <2>1, LargestIndex
  <2>3. CountAt(script, c) = IF script[k].op = "measure" THEN script[k].cnt ELSE 0
    BY <1>4, <2>1 DEF CountAt, T
  <2>4. Shots(c) = script[k].cnt
    BY <1>2, <1>4, <2>1 DEF Shots
  <2>5. script[k].cnt \in Nat /\ (script[k].op # "measure" => script[k].cnt = 0)
    <3>1. k \in 1 .. Len(script)
      BY <1>2, <2>2
    <3>2. QED
      BY <1>1, <3>1
  <2>6. CASE script[k].op = "measure"
    BY <2>3, <2>4, <2>5, <2>6
  <2>7. CASE script[k].op # "measure"
    BY <2>3, <2>4, <2>5, <2>7
  <2>8. QED
    BY <2>6, <2>7
<1>5. QED
  BY <1>3, <1>4

LEMMA CountKnown ==
  ASSUME RowsInv, NEW r \in Ranks
  PROVE  /\ cache[r].count \in Nat /\ cache[r].count = CountAt(script, at[r])
         /\ sim[r].run = Count(script, "execute", at[r])
         /\ cache[r].count <= Len(cache[r].packed)
<1>1. CountsOf(r) /\ Present(r) /\ at[r] \in 1 .. Len(script) + 1
  BY DEF RowsInv, Inv, Typed
<1>2. cache[r].count \in Nat /\ cache[r].count = CountAt(script, at[r])
  BY <1>1, CountAtShots DEF CountsOf, RowsInv
<1>3. Len(cache[r].packed) \in Nat
  BY <1>1, ListLen DEF Present
<1>4. QED
  BY <1>1, <1>2, <1>3 DEF CountsOf, Present

-----------------------------------------------------------------------------
(***************************************************************************)
(* Calls in which the ranks do not meet to measure.                         *)
(***************************************************************************)
\* The domains, once for all steps.
LEMMA Domains ==
  ASSUME RowsInv
  PROVE  /\ DOMAIN pc = Ranks /\ DOMAIN at = Ranks /\ DOMAIN plan = Ranks
         /\ DOMAIN cache = Ranks /\ DOMAIN sim = Ranks /\ DOMAIN got = Ranks
         /\ Channels /\ Buffered /\ script \in Scripts /\ Len(script) \in Nat
BY ScriptCalls DEF RowsInv, Inv, Shape, Typed

\* r returns from a call with its results as they were, or none.
LEMMA CallReturns ==
  ASSUME RowsInv, Inv', NEW r \in Ranks, pc[r] = "call", at[r] <= Len(script),
         Return(r), Moves(r), plan' = plan,
         cache' = cache \/ cache' = [cache EXCEPT ![r].count = 0],
         cache'[r].count = 0 \/ sim' = sim,
         Answers(r)',
         NEW m, CalmBut(m), Buffered',
         m \notin {"prob", "prefix", "cnts", "size", "rows", "all"}
  PROVE  RowsInv'
<1>1. /\ at'[r] = at[r] + 1 /\ pc'[r] = "call"
      /\ at[r] \in 1 .. Len(script) + 1 /\ Len(script) \in Nat
  BY Domains DEF Return, RowsInv, Typed
<1>2. /\ cache'[r].local = cache[r].local /\ cache'[r].packed = cache[r].packed
      /\ cache'[r].count = 0 \/ cache'[r].count = cache[r].count
      /\ DOMAIN cache'[r] = DOMAIN cache[r]
  <2>1. CASE cache' = cache
    BY <2>1
  <2>2. CASE cache' = [cache EXCEPT ![r].count = 0]
    <3>1. r \in DOMAIN cache
      BY Domains
    <3>2. cache'[r] = [cache[r] EXCEPT !.count = 0]
      BY <2>2, <3>1
    <3>3. "count" \in DOMAIN cache[r]
      BY DEF RowsInv, Inv, Shape
    <3>4. QED
      BY <3>2, <3>3
  <2>3. QED
    BY <2>1, <2>2
<1>3. Fits(r)
  <2>1. Typed
    BY DEF RowsInv
  <2>2. "call" \in Labels
    BY DEF Labels
  <2>3. pc' \in [Ranks -> Labels]
    BY <2>1, <2>2 DEF Typed, Return
  <2>4. QED
    BY <1>1, <1>2, <2>1, <2>3 DEF Fits, Typed
<1>4. Keeps(r)
  BY <1>1, <1>2 DEF Keeps
<1>5. SameStage(r)
  BY <1>1 DEF SameStage
<1>6. Sampled(r)' /\ (r = Root => AtRoot')
  BY <1>1 DEF Sampled, AtRoot
<1>7. QED
  BY <1>3, <1>4, <1>5, <1>6, OrdinaryKeeps

LEMMA ExecuteRows ==
  ASSUME RowsInv, Inv', NEW r \in Ranks, Execute(r)
  PROVE  RowsInv'
<1>1. /\ pc[r] = "call" /\ at[r] <= Len(script) /\ Return(r) /\ plan' = plan
      /\ UNCHANGED <<script, buffer, got>>
      /\ cache' = [cache EXCEPT ![r].count = 0]
      /\ \E d : SendDown("gates", d) \/ Receive(r, "gates")
      /\ \E b : sim' = [sim EXCEPT ![r] = [block |-> b, run |-> @.run + 1]]
  BY DEF Execute, Calls
<1>2. "gates" \in Names /\ Channels /\ Buffered /\ buffer' = buffer
  BY <1>1, Domains DEF Names
<1>3. CalmBut("gates") /\ Buffered'
  BY <1>1, <1>2, CollectiveEffect
<1>4. Moves(r)
  BY <1>1, Domains DEF Moves, Return
<1>5. cache'[r].count = 0
  <2>1. "count" \in DOMAIN cache[r] /\ r \in DOMAIN cache
    BY DEF RowsInv, Inv, Shape
  <2>2. QED
    BY <1>1, <2>1
<1>6. Answers(r)'
  <2>1. Answers(r)
    BY DEF RowsInv
  <2>2. QED
    BY <1>1, <2>1 DEF Answers
<1>7. QED
  BY <1>1, <1>3, <1>4, <1>5, <1>6, CallReturns

LEMMA MeasureNothingRows ==
  ASSUME RowsInv, Inv', NEW r \in Ranks, MeasureNothing(r)
  PROVE  RowsInv'
<1>1. /\ pc[r] = "call" /\ at[r] <= Len(script) /\ Return(r) /\ plan' = plan
      /\ UNCHANGED <<script, buffer, got, sim>> /\ NoMessages
      /\ cache' = [cache EXCEPT ![r].count = 0]
  BY DEF MeasureNothing, Calls
<1>2. "gates" \in Names /\ Channels /\ Buffered /\ buffer' = buffer
  BY <1>1, Domains DEF Names
<1>3. CalmBut("gates") /\ Buffered'
  BY <1>1, <1>2, CollectiveEffect
<1>4. Moves(r)
  BY <1>1, Domains DEF Moves, Return
<1>5. Answers(r)'
  <2>1. Answers(r)
    BY DEF RowsInv
  <2>2. QED
    BY <1>1, <2>1 DEF Answers
<1>6. QED
  BY <1>1, <1>3, <1>4, <1>5, CallReturns

LEMMA GetResultsRows ==
  ASSUME RowsInv, Inv', NEW r \in Ranks, GetResults(r)
  PROVE  RowsInv'
<1>0. PICK rows : rows = SubSeq(cache[r].packed, 1, cache[r].count)
  OBVIOUS
<1>1. /\ pc[r] = "call" /\ at[r] <= Len(script) /\ Return(r) /\ plan' = plan
      /\ UNCHANGED <<script, buffer, cache, sim>> /\ NoMessages
      /\ got' = [got EXCEPT ![r] = Append(@, [call |-> at[r], rows |-> rows])]
  BY <1>0 DEF GetResults, Calls
<1>2. "gates" \in Names /\ Channels /\ Buffered /\ buffer' = buffer
  BY <1>1, Domains DEF Names
<1>3. CalmBut("gates") /\ Buffered'
  BY <1>1, <1>2, CollectiveEffect
<1>4. Moves(r)
  BY <1>1, Domains DEF Moves, Return
<1>5. Answers(r)'
  <2>1. /\ Answers(r) /\ Present(r) /\ IsList(got[r]) /\ at[r] \in 1 .. Len(script)
        /\ got'[r] = Append(got[r], [call |-> at[r], rows |-> rows])
    BY <1>1, Domains DEF RowsInv, Inv, Shape, Typed
  <2>2. /\ Len(got'[r]) = Len(got[r]) + 1 /\ Len(got[r]) \in Nat
        /\ \A i \in 1 .. Len(got[r]) : got'[r][i] = got[r][i]
        /\ got'[r][Len(got[r]) + 1] = [call |-> at[r], rows |-> rows]
    BY <2>1, Appended
  <2>3. /\ cache[r].count \in 0 .. Len(cache[r].packed)
        /\ cache[r].count = CountAt(script, at[r])
        /\ sim[r].run = Count(script, "execute", at[r])
    BY CountKnown
  <2>4. /\ IsList(rows) /\ Len(rows) = cache[r].count
        /\ \A i \in 1 .. cache[r].count : rows[i] = cache[r].packed[i]
    BY <1>0, <2>1, <2>3, ListPart DEF Present
  <2>5. \A k \in 1 .. Len(rows) : rows[k].run = Count(script, "execute", at[r])
    BY <2>1, <2>3, <2>4 DEF Present
  <2>6. ASSUME NEW i \in 1 .. Len(got'[r])
        PROVE  /\ got'[r][i].call \in 1 .. Len(script)
               /\ IsList(got'[r][i].rows)
               /\ Len(got'[r][i].rows) = CountAt(script, got'[r][i].call)
               /\ \A k \in 1 .. Len(got'[r][i].rows) :
                    got'[r][i].rows[k].run = Count(script, "execute", got'[r][i].call)
    <3>1. CASE i = Len(got[r]) + 1
      <4>1. got'[r][i].call = at[r] /\ got'[r][i].rows = rows
        BY <2>2, <3>1
      <4>2. QED
        BY <2>1, <2>3, <2>4, <2>5, <4>1
    <3>2. CASE i # Len(got[r]) + 1
      <4>1. i \in 1 .. Len(got[r]) /\ got'[r][i] = got[r][i]
        BY <2>2, <3>2
      <4>2. QED
        BY <2>1, <4>1 DEF Answers
    <3>3. QED
      BY <3>1, <3>2
  <2>7. QED
    BY <1>1, <2>6 DEF Answers
<1>6. QED
  BY <1>1, <1>3, <1>4, <1>5, CallReturns

-----------------------------------------------------------------------------
(***************************************************************************)
(* The steps of a measurement that need nothing new.                        *)
(***************************************************************************)
\* r goes on within a measurement and keeps its results.
LEMMA GoesOn ==
  ASSUME RowsInv, Inv', NEW r \in Ranks, UNCHANGED <<script, buffer, at, sim, got>>,
         pc[r] \in Labels \ {"call", "prefix", "rows", "all"},
         NEW l \in Labels \ {"call", "prefix", "rows", "all", "size"}, pc' = [pc EXCEPT ![r] = l],
         \/ plan' = plan
         \/ \E x : plan' = [plan EXCEPT ![r].total = x]
         \/ \E x : plan' = [plan EXCEPT ![r].cnts = x],
         l = "cnts" /\ r = Root => Counts(plan'[Root].cnts),
         \/ cache' = cache
         \/ \E x : cache' = [cache EXCEPT ![r].pass = x]
         \/ \E x, y : cache' = [cache EXCEPT ![r] = [@ EXCEPT !.taus = x, !.pass = y]],
         l = "stream" => Sampled(r)',
         NEW m, CalmBut(m), Buffered',
         m \notin {"prob", "prefix", "cnts", "size", "rows", "all"}
  PROVE  RowsInv'
<1> DEFINE
      PlanKept == /\ DOMAIN plan' = Ranks /\ \A s \in Ranks \ {r} : plan'[s] = plan[s]
                  /\ DOMAIN plan'[r] = DOMAIN plan[r] /\ plan'[r].cntLocal = plan[r].cntLocal
      CacheKept == /\ DOMAIN cache' = Ranks /\ \A s \in Ranks \ {r} : cache'[s] = cache[s]
                   /\ DOMAIN cache'[r] = DOMAIN cache[r]
                   /\ cache'[r].local = cache[r].local /\ cache'[r].packed = cache[r].packed
                   /\ cache'[r].count = cache[r].count
<1>0. /\ {"total", "cntLocal", "probs", "cnts"} \subseteq DOMAIN plan[r]
      /\ {"taus", "pass", "local", "sizes", "count", "packed"} \subseteq DOMAIN cache[r]
  <2>1. Typed /\ Shape
    BY DEF RowsInv, Inv
  <2>2. {"taus", "pass", "local", "sizes"} \subseteq DOMAIN cache[r]
    BY <2>1 DEF Typed
  <2>3. {"count", "packed"} \subseteq DOMAIN cache[r]
    BY <2>1 DEF Shape
  <2>4. QED
    BY <2>1, <2>2, <2>3 DEF Typed
<1>1. /\ DOMAIN pc' = Ranks /\ pc'[r] = l /\ \A s \in Ranks \ {r} : pc'[s] = pc[s]
  BY Domains
<1>2. PlanKept
  <2>1. CASE plan' = plan
    BY <2>1, Domains
  <2>2. ASSUME NEW x, plan' = [plan EXCEPT ![r].total = x] PROVE PlanKept
    <3>1. plan'[r] = [plan[r] EXCEPT !.total = x]
      BY <2>2, Domains
    <3>2. QED
      BY <1>0, <2>2, <3>1, Domains
  <2>3. ASSUME NEW x, plan' = [plan EXCEPT ![r].cnts = x] PROVE PlanKept
    <3>1. plan'[r] = [plan[r] EXCEPT !.cnts = x]
      BY <2>3, Domains
    <3>2. QED
      BY <1>0, <2>3, <3>1, Domains
  <2>4. QED
    BY <2>1, <2>2, <2>3
<1>3. CacheKept
  <2>1. CASE cache' = cache
    BY <2>1, Domains
  <2>2. ASSUME NEW x, cache' = [cache EXCEPT ![r].pass = x] PROVE CacheKept
    <3>1. cache'[r] = [cache[r] EXCEPT !.pass = x]
      BY <2>2, Domains
    <3>2. QED
      BY <1>0, <2>2, <3>1, Domains
  <2>3. ASSUME NEW x, NEW y, cache' = [cache EXCEPT ![r] = [@ EXCEPT !.taus = x, !.pass = y]]
        PROVE  CacheKept
    <3>1. cache'[r] = [cache[r] EXCEPT !.taus = x, !.pass = y]
      BY <2>3, Domains
    <3>2. QED
      BY <1>0, <2>3, <3>1, Domains
  <2>4. QED
    BY <2>1, <2>2, <2>3
<1>4. Moves(r)
  BY <1>1, <1>2, <1>3, Domains DEF Moves
<1>5. Fits(r)
  <2>1. Typed
    BY DEF RowsInv
  <2>2. /\ at[r] <= Len(script) /\ at[r] \in 1 .. Len(script) + 1
        /\ plan[r].cntLocal \in Nat /\ pc' \in [Ranks -> Labels]
    BY <2>1 DEF Typed
  <2>3. QED
    BY <1>0, <1>1, <1>2, <1>3, <2>2 DEF Fits
<1>6. Keeps(r)
  BY <1>1, <1>2, <1>3 DEF Keeps
<1>7. SameStage(r)
  BY <1>1 DEF SameStage
<1>8. Answers(r)'
  <2>1. Answers(r)
    BY DEF RowsInv
  <2>2. QED
    BY <2>1 DEF Answers
<1>9. Sampled(r)'
  <2>1. CASE l # "stream"
    BY <1>1, <2>1 DEF Sampled
  <2>2. QED
    BY <2>1
<1>10. r = Root => AtRoot'
  BY <1>1 DEF AtRoot, Counts
<1>11. QED
  BY <1>4, <1>5, <1>6, <1>7, <1>8, <1>9, <1>10, OrdinaryKeeps

LEMMA ScanTotalRows ==
  ASSUME RowsInv, Inv', NEW r \in Ranks, ScanTotal(r)
  PROVE  RowsInv'
<1>1. PICK total : /\ SendDown("total", total) \/ Receive(r, "total")
                   /\ plan' = [plan EXCEPT ![r].total = total]
  BY DEF ScanTotal
<1>2. /\ pc[r] = "total" /\ pc' = [pc EXCEPT ![r] = "seed"]
      /\ UNCHANGED <<script, buffer, at, sim, got, cache>>
  BY DEF ScanTotal, At, Go
<1>3. "total" \in Names /\ {"total", "seed"} \subseteq Labels
  BY DEF Names, Labels
<1>4. CalmBut("total") /\ Buffered'
  BY <1>1, <1>2, <1>3, Domains, CollectiveEffect
<1>5. QED
  BY <1>1, <1>2, <1>3, <1>4, GoesOn

LEMMA PlanSeedRows ==
  ASSUME RowsInv, Inv', NEW r \in Ranks, PlanSeed(r)
  PROVE  RowsInv'
<1>1. SendDown("seed", 0) \/ Receive(r, "seed")
  BY DEF PlanSeed
<1>2. /\ pc[r] = "seed" /\ pc' = [pc EXCEPT ![r] = "probs"]
      /\ UNCHANGED <<script, buffer, at, sim, got, cache, plan>>
  BY DEF PlanSeed, At, Go
<1>3. "seed" \in Names /\ {"seed", "probs"} \subseteq Labels
  BY DEF Names, Labels
<1>4. CalmBut("seed") /\ Buffered'
  BY <1>1, <1>2, <1>3, Domains, CollectiveEffect
<1>5. QED
  BY <1>2, <1>3, <1>4, GoesOn

LEMMA PlanProbsRows ==
  ASSUME RowsInv, Inv', NEW r \in Ranks, PlanProbs(r)
  PROVE  RowsInv'
<1>1. PICK d : Gather("probs") \/ SendUp(r, "probs", d)
  BY DEF PlanProbs
<1>2. /\ pc[r] = "probs" /\ pc' = [pc EXCEPT ![r] = "cnts"]
      /\ UNCHANGED <<script, buffer, at, sim, got, cache>>
  BY DEF PlanProbs, At, Go
<1>3. "probs" \in Names /\ {"probs", "cnts"} \subseteq Labels
  BY DEF Names, Labels
<1>4. CalmBut("probs") /\ Buffered'
  BY <1>1, <1>2, <1>3, Domains, CollectiveEffect
<1>5. CASE r # Root
  <2>1. plan' = plan
    BY <1>5 DEF PlanProbs
  <2>2. QED
    BY <1>2, <1>3, <1>4, <1>5, <2>1, GoesOn
<1>6. CASE r = Root
  <2>1. PICK c : /\ plan' = [plan EXCEPT ![r].cnts = c]
                 /\ \E probs : c \in Draws(probs, Cnt(r)) \cup {Everywhere(0)}
    BY <1>6 DEF PlanProbs
  <2>2. Cnt(r) \in Nat
    <3>1. Typed /\ Len(script) \in Nat
      BY Domains DEF RowsInv
    <3>2. at[r] \in 1 .. Len(script)
      BY <1>2, <3>1 DEF Typed
    <3>3. script[at[r]].cnt \in Nat
      BY <3>1, <3>2, ScriptCalls
    <3>4. QED
      BY <3>3 DEF Cnt
  <2>3. Counts(c)
    <3>1. \A s \in Ranks : c[s] \in 0 .. Cnt(r) \/ c[s] = 0
      BY <2>1 DEF Draws, Everywhere
    <3>2. QED
      BY <2>2, <3>1 DEF Counts
  <2>4. plan'[Root].cnts = c
    BY <1>6, <2>1, Domains DEF RowsInv, Typed
  <2>5. QED
    BY <1>2, <1>3, <1>4, <2>1, <2>3, <2>4, GoesOn
<1>7. QED
  BY <1>5, <1>6

-----------------------------------------------------------------------------
(***************************************************************************)
(* Sampling.                                                                *)
(***************************************************************************)
\* Nothing changes, as when a rank aborts.
LEMMA RowsStand ==
  ASSUME RowsInv, Inv',
         UNCHANGED <<script, buffer, pc, at, sim, plan, cache, got, up, down>>
  PROVE  RowsInv'
<1>1. Typed'
  BY DEF RowsInv, Typed, Buffered, Named
<1>2. \A s \in Others : Opened(s)' /\ Sized(s)'
  BY DEF RowsInv, Opened, Sized, Answered
<1>3. \A s \in Others : SentBy(s)' /\ SentTo(s)'
  BY DEF RowsInv, SentBy, SentTo, Results, Counts
<1>4. \A s \in Ranks : Sampled(s)'
  BY DEF RowsInv, Sampled
<1>5. \A s \in Ranks : Present(s)'
  BY DEF RowsInv, Present
<1>6. \A s \in Ranks : Answers(s)'
  BY DEF RowsInv, Answers
<1>7. AtRoot'
  BY DEF RowsInv, AtRoot, Results, Counts
<1>8. QED
  BY <1>1, <1>2, <1>3, <1>4, <1>5, <1>6, <1>7 DEF RowsInv

LEMMA AbortRows ==
  ASSUME RowsInv, Inv', NEW why, Abort(why)
  PROVE  RowsInv'
BY RowsStand DEF Abort

LEMMA StartSampleRows ==
  ASSUME RowsInv, Inv', NEW r \in Ranks, StartSample(r)
  PROVE  RowsInv'
<1>1. CASE \E why : Abort(why)
  BY <1>1, AbortRows
<1>2. CASE \E taus \in Thresholds(LocalProb(r), plan[r].cntLocal) :
             /\ cache' = [cache EXCEPT ![r] = [@ EXCEPT
                            !.taus = taus, !.pass = StartPass(sim[r].block, taus)]]
             /\ Go(r, "stream") /\ NoMessages
             /\ UNCHANGED <<script, buffer, sim, plan, got>>
  <2>1. PICK taus \in Thresholds(LocalProb(r), plan[r].cntLocal) :
          cache' = [cache EXCEPT ![r] = [@ EXCEPT
                      !.taus = taus, !.pass = StartPass(sim[r].block, taus)]]
    BY <1>2
  <2>2. /\ pc' = [pc EXCEPT ![r] = "stream"] /\ at' = at /\ NoMessages
        /\ UNCHANGED <<script, buffer, sim, plan, got>>
    BY <1>2 DEF Go
  <2>3. pc[r] = "sample"
    BY DEF StartSample, At
  <2>4. "gates" \in Names /\ {"sample", "stream"} \subseteq Labels
    BY DEF Names, Labels
  <2>5. CalmBut("gates") /\ Buffered'
    BY <2>2, <2>4, Domains, CollectiveEffect
  <2>6. \E x, y : cache' = [cache EXCEPT ![r] = [@ EXCEPT !.taus = x, !.pass = y]]
    BY <2>1
  <2>7. Sampled(r)'
    <3>1. plan[r].cntLocal \in Nat /\ {"taus", "pass"} \subseteq DOMAIN cache[r]
      BY DEF RowsInv, Typed
    <3>2. IsList(taus) /\ Len(taus) = plan[r].cntLocal
      <4>1. taus = [i \in 1 .. plan[r].cntLocal |-> taus[i]]
        BY DEF Thresholds
      <4>2. QED
        BY <3>1, <4>1, ListOf
    <3>3. cache'[r].pass = StartPass(sim[r].block, taus)
      BY <2>1, <3>1, Domains
    <3>4. cache'[r].pass.taus = taus /\ cache'[r].pass.rows = << >>
      BY <3>3 DEF StartPass
    <3>5. plan'[r].cntLocal = Len(taus) /\ Len(taus) + Len(<< >>) = Len(taus)
      BY <2>2, <3>1, <3>2, EmptyChannel
    <3>6. pc'[r] = "stream"
      BY <2>2, Domains
    <3>7. QED
      BY <3>2, <3>4, <3>5, <3>6, EmptyChannel DEF Sampled
  <2>8. QED
    BY <2>2, <2>3, <2>4, <2>5, <2>6, <2>7, GoesOn
<1>3. QED
  BY <1>1, <1>2 DEF StartSample

\* What consume_stream_in_segment takes: a run from the front, up to the first
\* threshold behind the segment.
LEMMA BelowFront ==
  ASSUME NEW pass, IsList(pass.taus)
  PROVE  \E k \in 0 .. Len(pass.taus) :
           /\ Below(pass) = 1 .. k /\ Cardinality(Below(pass)) = k
           /\ \A i \in 1 .. k : pass.taus[i] < pass.cur.tail
           /\ k < Len(pass.taus) => ~(pass.taus[k + 1] < pass.cur.tail)
<1> DEFINE T == Below(pass)
           n == Len(pass.taus)
<1>1. n \in Nat /\ DOMAIN pass.taus = 1 .. n
  BY ListLen
<1>2. T \in SUBSET (1 .. n) /\ \A i \in T : 1 .. i \subseteq T
  BY <1>1 DEF Below
<1>3. PICK k \in 0 .. n : T = 1 .. k
  <2>1. CASE T = {}
    <3>1. T = 1 .. 0
      BY <2>1
    <3>2. QED
      BY <1>1, <3>1
  <2>2. CASE T # {}
    <3>1. PICK k : k = Max(T)
      OBVIOUS
    <3>2. k \in T /\ \A i \in T : i <= k
      BY <1>1, <1>2, <2>2, <3>1, LargestIndex
    <3>3. k \in 0 .. n /\ T \subseteq 1 .. k
      BY <1>1, <1>2, <3>2
    <3>4. 1 .. k \subseteq T
      BY <1>2, <3>2
    <3>5. QED
      BY <3>3, <3>4
  <2>3. QED
    BY <2>1, <2>2
<1>4. k \in Nat /\ Cardinality(T) = k
  <2>1. k \in Int
    BY <1>1
  <2>2. Cardinality(1 .. k) = IF 1 > k THEN 0 ELSE k - 1 + 1
    BY <2>1, FS_Interval
  <2>3. QED
    BY <1>1, <1>3, <2>2
<1>5. \A i \in 1 .. k : pass.taus[i] < pass.cur.tail
  <2>1. ASSUME NEW i \in 1 .. k PROVE pass.taus[i] < pass.cur.tail
    <3>1. i \in Below(pass) /\ i \in 1 .. i
      BY <1>3
    <3>2. QED
      BY <3>1 DEF Below
  <2>2. QED
    BY <2>1
<1>6. ASSUME k < n, pass.taus[k + 1] < pass.cur.tail PROVE FALSE
  <2>1. \A j \in 1 .. k + 1 : j \in 1 .. k \/ j = k + 1
    BY <1>4
  <2>2. \A j \in 1 .. k + 1 : pass.taus[j] < pass.cur.tail
    BY <1>5, <1>6, <2>1
  <2>3. k + 1 \in DOMAIN pass.taus
    BY <1>1, <1>4, <1>6
  <2>4. k + 1 \in T
    BY <2>2, <2>3 DEF Below
  <2>5. QED
    BY <1>3, <1>4, <2>4
<1>7. QED
  BY <1>3, <1>4, <1>5, <1>6

\* An iteration of the pass takes thresholds from the front and adds a row for each.
LEMMA StepKeepsCount ==
  ASSUME NEW pass, IsList(pass.taus), IsList(pass.rows), NEW p,
         NEW next, next = PassStep(p, pass)
  PROVE  /\ IsList(next.taus) /\ IsList(next.rows)
         /\ Len(next.taus) + Len(next.rows) = Len(pass.taus) + Len(pass.rows)
<1> DEFINE n == Len(pass.taus)
<1>1. n \in Nat /\ Len(pass.rows) \in Nat
  BY ListLen
<1>2. PICK k \in 0 .. n : Below(pass) = 1 .. k /\ Cardinality(Below(pass)) = k
  BY BelowFront
<1>3. k \in Nat
  BY <1>1
<1>4. PICK rows : rows = RowsOf(pass)
  OBVIOUS
<1>5. IsList(rows) /\ Len(rows) = k
  <2>1. rows = [i \in 1 .. k |-> rows[i]]
    BY <1>2, <1>4 DEF RowsOf
  <2>2. QED
    BY <1>3, <2>1, ListOf
<1>6. next.taus = SubSeq(pass.taus, k + 1, n) /\ next.rows = pass.rows \o rows
  BY <1>2, <1>4 DEF PassStep
<1>7. IsList(next.taus) /\ Len(next.taus) = n - k
  <2>1. PICK s : s = pass.taus
    OBVIOUS
  <2>2. IsList(s) /\ k \in 0 .. Len(s)
    BY <2>1
  <2>3. IsList(SubSeq(s, k + 1, Len(s))) /\ Len(SubSeq(s, k + 1, Len(s))) = Len(s) - k
    BY <2>2, ListPart
  <2>4. QED
    BY <1>6, <2>1, <2>3
<1>8. IsList(next.rows) /\ Len(next.rows) = Len(pass.rows) + k
  BY <1>5, <1>6, ListJoin
<1>9. ASSUME NEW a \in Nat, NEW b \in Nat PROVE (a - k) + (b + k) = a + b
  BY <1>3
<1>10. QED
  BY <1>1, <1>7, <1>8, <1>9

LEMMA SampleSegmentRows ==
  ASSUME RowsInv, Inv', NEW r \in Ranks, SampleSegment(r)
  PROVE  RowsInv'
<1>1. /\ pc[r] = "stream" /\ NoMessages
      /\ cache' = [cache EXCEPT ![r].pass = PassStep(sim[r].block, @)]
      /\ UNCHANGED <<script, buffer, at, pc, sim, plan, got>>
  BY DEF SampleSegment, At
<1>2. "gates" \in Names /\ "stream" \in Labels
  BY DEF Names, Labels
<1>3. CalmBut("gates") /\ Buffered'
  BY <1>1, <1>2, Domains, CollectiveEffect
<1>4. pc' = [pc EXCEPT ![r] = "stream"]
  <2>1. pc \in [Ranks -> Labels]
    BY DEF RowsInv, Typed
  <2>2. QED
    BY <1>1, <2>1
<1>5. \E x : cache' = [cache EXCEPT ![r].pass = x]
  BY <1>1
<1>6. Sampled(r)'
  <2>1. Sampled(r) /\ {"taus", "pass"} \subseteq DOMAIN cache[r]
    BY DEF RowsInv, Typed
  <2>2. PICK pass, next : pass = cache[r].pass /\ next = PassStep(sim[r].block, pass)
    OBVIOUS
  <2>3. cache'[r].pass = next
    BY <1>1, <2>1, <2>2, Domains
  <2>4. /\ IsList(pass.taus) /\ IsList(pass.rows)
        /\ Len(pass.taus) + Len(pass.rows) = plan[r].cntLocal
    BY <1>1, <2>1, <2>2 DEF Sampled
  <2>5. /\ IsList(next.taus) /\ IsList(next.rows)
        /\ Len(next.taus) + Len(next.rows) = plan[r].cntLocal
    BY <2>2, <2>4, StepKeepsCount
  <2>6. QED
    BY <1>1, <2>3, <2>5 DEF Sampled
<1>7. QED
  BY <1>1, <1>2, <1>3, <1>4, <1>5, <1>6, GoesOn

\* While one rank samples, all are in this measurement and none has the rows yet.
LEMMA AllSample ==
  ASSUME RowsInv, NEW r \in Ranks, pc[r] = "stream"
  PROVE  /\ \A s \in Ranks : pc[s] # "call"
         /\ \A s \in Others : ~Answered(s)
         /\ pc[Root] # "all"
<1>1. \A s \in Others : Opened(s) /\ Turn(s)
  BY DEF RowsInv, Inv
<1>2. pc[Root] # "call" /\ pc[Root] # "all"
  <2>1. CASE r = Root
    BY <2>1
  <2>2. CASE r # Root
    <3>1. r \in Others
      BY <2>2 DEF Others
    <3>2. ~Answered(r) /\ pc[Root] # "all"
      BY <1>1, <3>1 DEF Turn
    <3>3. QED
      BY <1>1, <3>1, <3>2 DEF Opened
  <2>3. QED
    BY <2>1, <2>2
<1>3. QED
  BY <1>1, <1>2 DEF Opened, Others

LEMMA EndSampleRows ==
  ASSUME RowsInv, Inv', NEW r \in Ranks, EndSample(r)
  PROVE  RowsInv'
<1>1. CASE \E why : Abort(why)
  BY <1>1, AbortRows
<1>2. CASE /\ cache[r].pass.taus = << >>
           /\ cache' = [cache EXCEPT ![r].local =
                          [i \in DOMAIN cache[r].pass.rows |->
                             [rank |-> r, addr |-> cache[r].pass.rows[i]]]]
           /\ Go(r, "size") /\ NoMessages
           /\ UNCHANGED <<script, buffer, sim, plan, got>>
  <2>1. PICK local : local = [i \in DOMAIN cache[r].pass.rows |->
                                [rank |-> r, addr |-> cache[r].pass.rows[i]]]
    OBVIOUS
  <2>2. /\ pc[r] = "stream" /\ pc' = [pc EXCEPT ![r] = "size"] /\ at' = at /\ NoMessages
        /\ cache' = [cache EXCEPT ![r].local = local]
        /\ UNCHANGED <<script, buffer, sim, plan, got>>
    BY <1>2, <2>1 DEF Go, EndSample, At
  <2>3. Typed /\ Shape /\ "size" \in Labels /\ "gates" \in Names
    BY DEF RowsInv, Inv, Names, Labels
  <2>4. /\ pc' \in [Ranks -> Labels] /\ pc'[r] = "size"
        /\ \A s \in Ranks \ {r} : pc'[s] = pc[s]
    BY <2>2, <2>3 DEF Typed
  <2>5. /\ DOMAIN cache' = Ranks /\ \A s \in Ranks \ {r} : cache'[s] = cache[s]
        /\ DOMAIN cache'[r] = DOMAIN cache[r] /\ cache'[r].local = local
        /\ cache'[r].sizes = cache[r].sizes /\ cache'[r].packed = cache[r].packed
        /\ cache'[r].count = cache[r].count
    <3>1. /\ {"local", "sizes"} \subseteq DOMAIN cache[r] /\ DOMAIN cache = Ranks
          /\ {"count", "packed"} \subseteq DOMAIN cache[r]
      BY <2>3 DEF Typed, Shape
    <3>2. cache'[r] = [cache[r] EXCEPT !.local = local]
      BY <2>2, <3>1
    <3>3. QED
      BY <2>2, <3>1, <3>2
  <2>6. Moves(r)
    BY <2>2, <2>4, <2>5, Domains DEF Moves
  <2>7. Typed'
    <3>1. Buffered' /\ CalmBut("gates")
      BY <2>2, <2>3, Domains, CollectiveEffect
    <3>2. Fits(r)
      BY <2>2, <2>3, <2>4, <2>5 DEF Fits, Typed
    <3>3. QED
      BY <2>3, <2>6, <3>1, <3>2, TypedStays
  <2>8. CalmBut("gates")
    BY <2>2, <2>3, Domains, CollectiveEffect
  <2>9. \A s \in Others : Opened(s)' /\ Sized(s)'
    <3>1. SameStage(r)
      BY <2>2, <2>4 DEF SameStage
    <3>2. QED
      BY <2>6, <2>8, <3>1, SyncStays
  <2>10. /\ \A s \in Ranks : pc[s] # "call"
         /\ \A s \in Others : ~Answered(s)
         /\ pc[Root] # "all"
    BY <2>2, AllSample
  <2>11. ASSUME NEW s \in Others PROVE SentBy(s)' /\ SentTo(s)'
    <3>1. SentBy(s) /\ SentTo(s) /\ Turn(s) /\ s \in Ranks
      BY DEF RowsInv, Inv, Others
    <3>2. up' = up /\ down' = down /\ plan' = plan
      BY <2>2 DEF NoMessages
    <3>3. SentBy(s)'
      <4>1. CASE s # r
        BY <2>5, <3>1, <3>2, <4>1 DEF SentBy
      <4>2. CASE s = r
        <5>1. ~Asked(s)
          BY <2>2, <3>1, <4>2 DEF Turn
        <5>2. QED
          BY <3>1, <3>2, <5>1 DEF SentBy, Asked, Has
      <4>3. QED
        BY <4>1, <4>2
    <3>4. SentTo(s)'
      BY <2>10, <3>1, <3>2 DEF SentTo, Answered, Has, Counts
    <3>5. QED
      BY <3>3, <3>4
  <2>12. ASSUME NEW s \in Ranks PROVE Sampled(s)'
    <3>1. Sampled(s)
      BY DEF RowsInv
    <3>2. CASE s # r
      BY <2>2, <2>4, <2>5, <3>1, <3>2 DEF Sampled
    <3>3. CASE s = r
      <4>1. PICK rows : rows = cache[r].pass.rows
        OBVIOUS
      <4>2. /\ IsList(rows) /\ Len(cache[r].pass.taus) + Len(rows) = plan[r].cntLocal
            /\ Len(cache[r].pass.taus) = 0
        BY <1>2, <2>2, <3>1, <3>3, <4>1, EmptyChannel DEF Sampled
      <4>3. Len(rows) \in Nat /\ DOMAIN rows = 1 .. Len(rows) /\ Len(rows) = plan[r].cntLocal
        BY <4>2, ListLen
      <4>4. local = [i \in 1 .. Len(rows) |-> [rank |-> r, addr |-> rows[i]]]
        BY <2>1, <4>1, <4>3
      <4>5. local = [i \in 1 .. Len(rows) |-> local[i]]
        BY <4>4
      <4>6. IsList(local) /\ Len(local) = Len(rows)
        BY <4>3, <4>5, ListOf
      <4>7. IsRows(r, local, plan[r].cntLocal)
        BY <4>3, <4>4, <4>6 DEF IsRows
      <4>8. QED
        BY <2>2, <2>4, <2>5, <3>3, <4>7 DEF Sampled
    <3>4. QED
      BY <3>2, <3>3
  <2>13. ASSUME NEW s \in Ranks PROVE Present(s)' /\ Answers(s)'
    <3>1. Present(s) /\ Answers(s)
      BY DEF RowsInv
    <3>2. pc'[s] # "call" /\ cache'[s].count = cache[s].count
          /\ cache'[s].packed = cache[s].packed
      BY <2>4, <2>5, <2>10
    <3>3. Present(s)'
      BY <2>2, <3>1, <3>2 DEF Present
    <3>4. QED
      BY <2>2, <3>1, <3>3 DEF Answers
  <2>14. AtRoot'
    <3>1. AtRoot /\ Root \in Ranks
      BY RanksCounted DEF RowsInv
    <3>2. pc'[Root] # "all" /\ cache'[Root].sizes = cache[Root].sizes
      BY <2>4, <2>5, <2>10, <3>1
    <3>3. pc'[Root] \in {"cnts", "rows"} => pc[Root] = pc'[Root]
      BY <2>4, <3>1
    <3>4. QED
      BY <2>2, <3>1, <3>2, <3>3 DEF AtRoot, Counts
  <2>15. QED
    BY <2>7, <2>9, <2>11, <2>12, <2>13, <2>14 DEF RowsInv
<1>3. QED
  BY <1>1, <1>2 DEF EndSample

-----------------------------------------------------------------------------
(***************************************************************************)
(* The collectives in which the ranks meet.                                 *)
(***************************************************************************)
\* What a step of r does with the messages of m does not concern another pair.
LEMMA SyncOthers ==
  ASSUME RowsInv, NEW r \in Others, Moves(r), NEW s \in Others \ {r},
         up'[s] = up[s], down'[s] = down[s]
  PROVE  Opened(s)' /\ Sized(s)'
<1>1. Opened(s) /\ Sized(s) /\ s \in Ranks \ {r} /\ Root \in Ranks \ {r}
  BY RanksCounted DEF RowsInv, Others
<1>2. pc'[s] = pc[s] /\ pc'[Root] = pc[Root]
  BY <1>1 DEF Moves
<1>3. QED
  BY <1>1, <1>2 DEF Opened, Sized, Answered

\* What a step may change of the collective it takes part in.
KeptBut(s, ns) ==
  /\ "prob" \notin ns => Kept(up[s], up'[s], "prob")
  /\ "size" \notin ns => Kept(up[s], up'[s], "size")
  /\ "prefix" \notin ns => Kept(down[s], down'[s], "prefix")
  /\ "all" \notin ns => Kept(down[s], down'[s], "all")

LEMMA CalmKeeps ==
  ASSUME NEW m, CalmBut(m), NEW s \in Others
  PROVE  KeptBut(s, {m})
BY DEF CalmBut, KeptBut

\* A step by which r goes to l, and that leaves the data of the ranks alone.
LEMMA GoesTo ==
  ASSUME RowsInv, Inv', NEW r \in Ranks, UNCHANGED <<script, buffer, at, sim, got>>,
         NEW l \in Labels \ {"call"}, pc' = [pc EXCEPT ![r] = l],
         at[r] <= Len(script), Buffered',
         plan' = plan \/ \E x : plan' = [plan EXCEPT ![r].probs = x],
         cache' = cache
  PROVE  Moves(r) /\ Typed' /\ pc'[r] = l
<1>1. Typed
  BY DEF RowsInv
<1>2. pc' \in [Ranks -> Labels] /\ pc'[r] = l /\ \A s \in Ranks \ {r} : pc'[s] = pc[s]
  BY <1>1 DEF Typed
<1>3. /\ DOMAIN plan' = Ranks /\ \A s \in Ranks \ {r} : plan'[s] = plan[s]
      /\ DOMAIN plan'[r] = DOMAIN plan[r] /\ plan'[r].cntLocal = plan[r].cntLocal
  <2>1. CASE plan' = plan
    BY <2>1, Domains
  <2>2. ASSUME NEW x, plan' = [plan EXCEPT ![r].probs = x]
        PROVE  /\ DOMAIN plan' = Ranks /\ \A s \in Ranks \ {r} : plan'[s] = plan[s]
               /\ DOMAIN plan'[r] = DOMAIN plan[r] /\ plan'[r].cntLocal = plan[r].cntLocal
    <3>1. plan'[r] = [plan[r] EXCEPT !.probs = x]
      BY <2>2, Domains
    <3>2. "cntLocal" \in DOMAIN plan[r]
      BY <1>1 DEF Typed
    <3>3. QED
      BY <2>2, <3>1, <3>2, Domains
  <2>3. QED
    BY <2>1, <2>2
<1>4. Moves(r)
  BY <1>2, <1>3, Domains DEF Moves
<1>5. Fits(r)
  <2>1. at[r] \in 1 .. Len(script) + 1 /\ plan[r].cntLocal \in Nat
    BY <1>1 DEF Typed
  <2>2. QED
    BY <1>1, <1>2, <1>3, <2>1 DEF Fits, Typed
<1>6. QED
  BY <1>1, <1>2, <1>4, <1>5, TypedStays

LEMMA ScanUpRows ==
  ASSUME RowsInv, Inv', NEW r \in Ranks, ScanUp(r)
  PROVE  RowsInv'
<1>1. /\ pc[r] = "call" /\ at[r] <= Len(script) /\ pc' = [pc EXCEPT ![r] = "prefix"]
      /\ UNCHANGED <<script, buffer, at, sim, got, cache>>
      /\ plan' = plan \/ \E x : plan' = [plan EXCEPT ![r].probs = x]
  BY DEF ScanUp, Calls, Go
<1>2. {"call", "prefix"} \subseteq Labels /\ "prob" \in Names
  BY DEF Labels, Names
<1>3. Buffered' /\ CalmBut("prob")
  BY <1>1, <1>2, Domains, CollectiveEffect DEF ScanUp
<1>4. Moves(r) /\ Typed' /\ pc'[r] = "prefix"
  BY <1>1, <1>2, <1>3, GoesTo
<1>5. ASSUME NEW s \in Others
      PROVE  /\ Opened(s) /\ Sized(s) /\ Turn(s) /\ KeptBut(s, {"prob"})
             /\ s \in Ranks /\ s # Root /\ Root \in Ranks
  BY <1>3, CalmKeeps, RanksCounted DEF RowsInv, Inv, Others
<1>6. \A s \in Others : Opened(s)' /\ Sized(s)'
  <2>1. CASE r # Root
    <3>1. SendUp(r, "prob", LocalProb(r))
      BY <2>1 DEF ScanUp
    <3>2. /\ r \in Others /\ down' = down
          /\ Added(up[r], up'[r], "prob", LocalProb(r))
          /\ \A s \in Others \ {r} : up'[s] = up[s]
      BY <1>1, <1>2, <3>1, Domains, SendUpEffect
    <3>3. pc'[Root] = pc[Root] /\ pc[Root] = "call" /\ pc'[r] = "prefix"
      BY <1>1, <1>4, <1>5, <2>1, <3>2 DEF Opened, Moves
    <3>4. Opened(r)'
      BY <1>1, <1>5, <3>2, <3>3 DEF Opened, Answered, Added, KeptBut, Kept
    <3>5. Sized(r)'
      BY <1>1, <1>5, <3>2, <3>3 DEF Sized, Answered, KeptBut, Kept
    <3>6. QED
      BY <1>4, <3>2, <3>4, <3>5, SyncOthers
  <2>2. CASE r = Root
    <3>1. Gather("prob")
      BY <2>2 DEF ScanUp
    <3>2. \A s \in Others : Removed(up[s], up'[s], "prob") /\ down' = down
      BY <1>1, <1>2, <3>1, Domains, GatherEffect
    <3>3. ASSUME NEW s \in Others PROVE Opened(s)' /\ Sized(s)'
      <4>1. pc'[s] = "prefix" /\ pc[s] = "prefix" /\ pc'[Root] = "prefix" /\ pc[Root] = "call"
        BY <1>1, <1>4, <1>5, <2>2, <3>2 DEF Removed, Opened, Moves
      <4>2. Opened(s)'
        BY <1>5, <3>2, <4>1 DEF Opened, Turn, Answered, Removed, KeptBut, Kept
      <4>3. Sized(s)'
        BY <1>5, <3>2, <4>1 DEF Sized, Answered, KeptBut, Kept
      <4>4. QED
        BY <4>2, <4>3
    <3>4. QED
      BY <3>3
  <2>3. QED
    BY <2>1, <2>2
<1>7. Keeps(r)
  <2>1. plan'[r].cntLocal = plan[r].cntLocal
    <3>1. "cntLocal" \in DOMAIN plan[r]
      BY DEF RowsInv, Typed
    <3>2. CASE plan' = plan
      BY <3>2
    <3>3. ASSUME NEW x, plan' = [plan EXCEPT ![r].probs = x]
          PROVE  plan'[r].cntLocal = plan[r].cntLocal
      <4>1. plan'[r] = [plan[r] EXCEPT !.probs = x]
        BY <3>3, Domains
      <4>2. QED
        BY <3>1, <4>1
    <3>4. QED
      BY <1>1, <3>2, <3>3
  <2>2. QED
    BY <1>1, <1>4, <2>1 DEF Keeps
<1>8. Sampled(r)' /\ Answers(r)' /\ (r = Root => AtRoot')
  <2>1. Answers(r)
    BY DEF RowsInv
  <2>2. QED
    BY <1>1, <1>4, <2>1 DEF Sampled, Answers, AtRoot
<1>9. QED
  BY <1>3, <1>4, <1>6, <1>7, <1>8, DataStays DEF RowsInv

LEMMA ScanPrefixRows ==
  ASSUME RowsInv, Inv', NEW r \in Ranks, ScanPrefix(r)
  PROVE  RowsInv'
<1>1. /\ pc[r] = "prefix" /\ pc' = [pc EXCEPT ![r] = "total"]
      /\ UNCHANGED <<script, buffer, at, sim, got, cache, plan>>
  BY DEF ScanPrefix, At, Go
<1>2. {"total", "prefix"} \subseteq Labels /\ "prefix" \in Names /\ at[r] <= Len(script)
  BY <1>1 DEF Labels, Names, RowsInv, Typed
<1>3. Buffered' /\ CalmBut("prefix")
  BY <1>1, <1>2, Domains, CollectiveEffect DEF ScanPrefix
<1>4. Moves(r) /\ Typed' /\ pc'[r] = "total"
  BY <1>1, <1>2, <1>3, GoesTo
<1>5. ASSUME NEW s \in Others
      PROVE  /\ Opened(s) /\ Sized(s) /\ Turn(s) /\ KeptBut(s, {"prefix"})
             /\ s \in Ranks /\ s # Root /\ Root \in Ranks
  BY <1>3, CalmKeeps, RanksCounted DEF RowsInv, Inv, Others
<1>6. \A s \in Others : Opened(s)' /\ Sized(s)'
  <2>1. CASE r # Root
    <3>1. Receive(r, "prefix")
      BY <2>1 DEF ScanPrefix
    <3>2. /\ r \in Others /\ up' = up
          /\ Removed(down[r], down'[r], "prefix")
          /\ \A s \in Others \ {r} : down'[s] = down[s]
      BY <1>1, <1>2, <3>1, Domains, ReceiveEffect
    <3>3. pc'[Root] = pc[Root] /\ pc[Root] \notin {"call", "prefix"}
      BY <1>4, <1>5, <2>1, <3>2 DEF Opened, Removed, Moves
    <3>4. Opened(r)'
      BY <1>1, <1>4, <1>5, <3>2, <3>3 DEF Opened, Turn, Answered, Removed, KeptBut, Kept
    <3>5. Sized(r)'
      BY <1>1, <1>4, <1>5, <3>2, <3>3 DEF Sized, Answered, KeptBut, Kept
    <3>6. QED
      BY <1>4, <3>2, <3>4, <3>5, SyncOthers
  <2>2. CASE r = Root
    <3>1. SendDown("prefix", 0)
      BY <2>2 DEF ScanPrefix
    <3>2. \A s \in Others : Added(down[s], down'[s], "prefix", 0) /\ up' = up
      BY <1>1, <1>2, <3>1, Domains, SendDownEffect
    <3>3. ASSUME NEW s \in Others PROVE Opened(s)' /\ Sized(s)'
      <4>1. pc'[s] = "prefix" /\ pc[s] = "prefix" /\ pc'[Root] = "total" /\ pc[Root] = "prefix"
        BY <1>1, <1>4, <1>5, <2>2 DEF Opened, Moves
      <4>2. Opened(s)'
        BY <1>5, <3>2, <4>1 DEF Opened, Turn, Answered, Added, KeptBut, Kept
      <4>3. Sized(s)'
        BY <1>5, <3>2, <4>1 DEF Sized, Answered, KeptBut, Kept
      <4>4. QED
        BY <4>2, <4>3
    <3>4. QED
      BY <3>3
  <2>3. QED
    BY <2>1, <2>2
<1>7. Keeps(r)
  BY <1>1, <1>4 DEF Keeps
<1>8. Sampled(r)' /\ Answers(r)' /\ (r = Root => AtRoot')
  <2>1. Answers(r)
    BY DEF RowsInv
  <2>2. QED
    BY <1>1, <1>4, <2>1 DEF Sampled, Answers, AtRoot
<1>9. QED
  BY <1>3, <1>4, <1>6, <1>7, <1>8, DataStays DEF RowsInv

LEMMA PlanCountsRows ==
  ASSUME RowsInv, Inv', NEW r \in Ranks, PlanCounts(r)
  PROVE  RowsInv'
<1>1. PICK cnts : /\ cnts = IF r = Root THEN plan[r].cnts ELSE Received(r)
                  /\ IF r = Root THEN SendDown("cnts", cnts) ELSE Receive(r, "cnts")
                  /\ plan' = [plan EXCEPT ![r].cntLocal = cnts[r]]
  BY DEF PlanCounts
<1>2. /\ pc[r] = "cnts" /\ pc' = [pc EXCEPT ![r] = "sample"]
      /\ UNCHANGED <<script, buffer, at, sim, got, cache>>
  BY DEF PlanCounts, At, Go
<1>3. Typed /\ "sample" \in Labels /\ "cnts" \in Names /\ at[r] <= Len(script) /\ AtRoot
  BY <1>2 DEF Labels, Names, RowsInv, Typed
<1>4. Buffered' /\ CalmBut("cnts")
  BY <1>1, <1>2, <1>3, Domains, CollectiveEffect
<1>5. Counts(cnts)
  <2>1. CASE r = Root
    BY <1>1, <1>2, <1>3, <2>1 DEF AtRoot
  <2>2. CASE r # Root
    <3>1. Receive(r, "cnts") /\ cnts = Received(r)
      BY <1>1, <2>2
    <3>2. /\ r \in Others
          /\ \E i \in DOMAIN down[r] : down[r][i].name = "cnts" /\ Received(r) = down[r][i].data
      BY <1>2, <1>3, <3>1, Domains, ReceiveEffect
    <3>3. SentTo(r)
      BY <3>2 DEF RowsInv
    <3>4. QED
      BY <3>1, <3>2, <3>3 DEF SentTo
  <2>3. QED
    BY <2>1, <2>2
<1>6. /\ pc' \in [Ranks -> Labels] /\ pc'[r] = "sample"
      /\ \A s \in Ranks \ {r} : pc'[s] = pc[s]
  BY <1>2, <1>3 DEF Typed
<1>7. /\ DOMAIN plan' = Ranks /\ \A s \in Ranks \ {r} : plan'[s] = plan[s]
      /\ DOMAIN plan'[r] = DOMAIN plan[r] /\ plan'[r].cntLocal \in Nat
      /\ plan'[r].cnts = plan[r].cnts
  <2>1. {"cntLocal", "cnts"} \subseteq DOMAIN plan[r]
    BY <1>3 DEF Typed
  <2>2. plan'[r] = [plan[r] EXCEPT !.cntLocal = cnts[r]] /\ cnts[r] \in Nat
    BY <1>1, <1>5, Domains DEF Counts
  <2>3. QED
    BY <1>1, <2>1, <2>2, Domains
<1>8. Moves(r)
  BY <1>2, <1>6, <1>7, Domains DEF Moves
<1>9. Typed'
  <2>1. Fits(r)
    BY <1>2, <1>3, <1>6, <1>7 DEF Fits, Typed
  <2>2. QED
    BY <1>3, <1>4, <1>8, <2>1, TypedStays
<1>10. \A s \in Others : Opened(s)' /\ Sized(s)'
  <2>1. SameStage(r)
    BY <1>2, <1>6 DEF SameStage
  <2>2. QED
    BY <1>4, <1>8, <2>1, SyncStays
<1>11. ASSUME NEW s \in Others PROVE SentBy(s)' /\ SentTo(s)'
  <2>1. SentBy(s) /\ SentTo(s) /\ Sized(s) /\ s \in Ranks
    BY DEF RowsInv, Others
  <2>2. /\ From(up[s], up'[s], "size") /\ From(up[s], up'[s], "rows")
        /\ From(down[s], down'[s], "all")
    BY <1>4 DEF CalmBut, Kept
  <2>3. SentBy(s)'
    <3>1. CASE s # r
      BY <1>2, <1>7, <2>1, <2>2, <3>1, SentByStays
    <3>2. CASE s = r
      <4>1. ~Has(up[s], "size")
        BY <1>2, <2>1, <3>2 DEF Sized
      <4>2. QED
        BY <1>2, <2>1, <2>2, <4>1 DEF SentBy, From, Has
    <3>3. QED
      BY <3>1, <3>2
  <2>4. ASSUME NEW j \in DOMAIN down'[s], down'[s][j].name = "cnts"
        PROVE  Counts(down'[s][j].data)
    <3>1. CASE r = Root
      <4>1. SendDown("cnts", cnts)
        BY <1>1, <3>1
      <4>2. Added(down[s], down'[s], "cnts", cnts)
        BY <1>2, <1>3, <4>1, Domains, SendDownEffect
      <4>3. CASE down'[s][j].data = cnts
        BY <1>5, <4>3
      <4>4. CASE \E i \in DOMAIN down[s] : down[s][i] = down'[s][j]
        BY <2>1, <2>4, <4>4 DEF SentTo
      <4>5. QED
        BY <2>4, <4>2, <4>3, <4>4 DEF Added
    <3>2. CASE r # Root
      <4>1. Receive(r, "cnts")
        BY <1>1, <3>2
      <4>2. /\ Removed(down[r], down'[r], "cnts")
            /\ \A q \in Others \ {r} : down'[q] = down[q]
        BY <1>2, <1>3, <4>1, Domains, ReceiveEffect
      <4>3. From(down[s], down'[s], "cnts")
        BY <4>2 DEF Removed, From
      <4>4. QED
        BY <2>1, <2>4, <4>3 DEF SentTo, From
    <3>3. QED
      BY <3>1, <3>2
  <2>5. SentTo(s)'
    BY <1>2, <2>1, <2>2, <2>4 DEF SentTo, From, Results, Counts
  <2>6. QED
    BY <2>3, <2>5
<1>12. ASSUME NEW s \in Ranks PROVE Sampled(s)' /\ Present(s)' /\ Answers(s)'
  <2>1. Sampled(s) /\ Present(s) /\ Answers(s)
    BY DEF RowsInv
  <2>2. Sampled(s)'
    BY <1>2, <1>6, <1>7, <2>1 DEF Sampled
  <2>3. Present(s)'
    BY <1>2, <1>6, <2>1 DEF Present
  <2>4. QED
    BY <1>2, <2>1, <2>2, <2>3 DEF Answers
<1>13. AtRoot'
  <2>1. CASE r = Root
    BY <1>6, <2>1 DEF AtRoot
  <2>2. CASE r # Root
    <3>1. r \in Others /\ pc'[Root] = pc[Root] /\ plan'[Root] = plan[Root] /\ Sized(r)
      BY <1>6, <1>7, <2>2, RanksCounted DEF Others, RowsInv
    <3>2. pc[Root] # "rows"
      BY <1>2, <3>1 DEF Sized
    <3>3. QED
      BY <1>2, <1>3, <3>1, <3>2 DEF AtRoot, Counts, Results
  <2>3. QED
    BY <2>1, <2>2
<1>14. QED
  BY <1>9, <1>10, <1>11, <1>12, <1>13 DEF RowsInv

-----------------------------------------------------------------------------
(***************************************************************************)
(* Gathering.                                                               *)
(***************************************************************************)
\* A step by which r goes to l, when it is past its sampling.
LEMMA GathersOn ==
  ASSUME RowsInv, NEW r \in Ranks, UNCHANGED <<script, buffer, at, sim, got, plan>>,
         NEW l \in Labels \ {"call"}, pc' = [pc EXCEPT ![r] = l],
         pc[r] # "call", Buffered',
         \/ cache' = cache
         \/ \E x : cache' = [cache EXCEPT ![r].sizes = x]
         \/ \E x : cache' = [cache EXCEPT ![r].real = x]
  PROVE  /\ Moves(r) /\ Typed' /\ pc'[r] = l
         /\ cache'[r].local = cache[r].local /\ cache'[r].packed = cache[r].packed
         /\ cache'[r].count = cache[r].count
<1>1. Typed /\ at[r] <= Len(script)
  BY DEF RowsInv, Typed
<1>2. pc' \in [Ranks -> Labels] /\ pc'[r] = l /\ \A s \in Ranks \ {r} : pc'[s] = pc[s]
  BY <1>1 DEF Typed
<1>3. {"taus", "pass", "local", "sizes", "count", "packed", "real"} \subseteq DOMAIN cache[r]
  <2>1. {"taus", "pass", "local", "sizes"} \subseteq DOMAIN cache[r]
    BY <1>1 DEF Typed
  <2>2. {"count", "packed", "real"} \subseteq DOMAIN cache[r]
    BY DEF RowsInv, Inv, Shape
  <2>3. QED
    BY <2>1, <2>2
<1> DEFINE CacheKept == /\ DOMAIN cache' = Ranks /\ \A s \in Ranks \ {r} : cache'[s] = cache[s]
                        /\ DOMAIN cache'[r] = DOMAIN cache[r]
                        /\ cache'[r].local = cache[r].local /\ cache'[r].packed = cache[r].packed
                        /\ cache'[r].count = cache[r].count
<1>4. CacheKept
  <2>1. CASE cache' = cache
    BY <2>1, Domains
  <2>2. ASSUME NEW x, cache' = [cache EXCEPT ![r].sizes = x] PROVE CacheKept
    <3>1. cache'[r] = [cache[r] EXCEPT !.sizes = x]
      BY <2>2, Domains
    <3>2. QED
      BY <1>3, <2>2, <3>1, Domains
  <2>3. ASSUME NEW x, cache' = [cache EXCEPT ![r].real = x] PROVE CacheKept
    <3>1. cache'[r] = [cache[r] EXCEPT !.real = x]
      BY <2>3, Domains
    <3>2. QED
      BY <1>3, <2>3, <3>1, Domains
  <2>4. QED
    BY <2>1, <2>2, <2>3
<1>5. Moves(r)
  BY <1>2, <1>4, Domains DEF Moves
<1>6. Fits(r)
  <2>1. at[r] \in 1 .. Len(script) + 1 /\ plan[r].cntLocal \in Nat
        /\ {"total", "cntLocal", "probs", "cnts"} \subseteq DOMAIN plan[r]
    BY <1>1 DEF Typed
  <2>2. QED
    BY <1>1, <1>2, <1>3, <1>4, <2>1 DEF Fits
<1>7. QED
  BY <1>1, <1>2, <1>4, <1>5, <1>6, TypedStays

\* What such a step leaves, whatever it sends to the root.
LEMMA GatheringKeeps ==
  ASSUME RowsInv, NEW r \in Ranks, Moves(r), UNCHANGED <<at, sim, got, plan, down>>,
         pc[r] # "call", pc'[r] \in {"rows", "all"}, pc[r] \in {"size", "rows"},
         cache'[r].local = cache[r].local, cache'[r].packed = cache[r].packed,
         cache'[r].count = cache[r].count
  PROVE  /\ \A s \in Others : SentTo(s)'
         /\ \A s \in Ranks : Sampled(s)' /\ Present(s)' /\ Answers(s)'
         /\ \A s \in Ranks : cache'[s].local = cache[s].local
         /\ r # Root => AtRoot'
<1>1. /\ \A s \in Ranks : cache'[s].local = cache[s].local
      /\ \A rows, n : Results(rows, n)' <=> Results(rows, n)
  BY LocalsStay
<1>2. script' = script /\ Root \in Ranks
  BY RanksCounted DEF Moves
<1>3. ASSUME NEW s \in Others PROVE SentTo(s)'
  <2>1. SentTo(s)
    BY DEF RowsInv
  <2>2. From(down[s], down'[s], "cnts") /\ From(down[s], down'[s], "all")
    BY DEF From
  <2>3. QED
    BY <1>1, <1>2, <2>1, <2>2, SentToStays
<1>4. ASSUME NEW s \in Ranks PROVE Sampled(s)'
  <2>1. Sampled(s)
    BY DEF RowsInv
  <2>2. CASE s # r
    <3>1. pc'[s] = pc[s] /\ cache'[s] = cache[s]
      BY <2>2 DEF Moves
    <3>2. QED
      BY <2>1, <3>1 DEF Sampled
  <2>3. CASE s = r
    BY <2>1, <2>3 DEF Sampled
  <2>4. QED
    BY <2>2, <2>3
<1>5. ASSUME NEW s \in Ranks PROVE Present(s)' /\ Answers(s)'
  <2>1. Present(s) /\ Answers(s)
    BY DEF RowsInv
  <2>2. /\ cache'[s].packed = cache[s].packed /\ cache'[s].count = cache[s].count
        /\ (pc'[s] = "call" => pc[s] = "call")
    BY DEF Moves
  <2>3. \A q \in Ranks : Lies(Bare(cache[s].packed), q, cache[q].local)' <=>
                         Lies(Bare(cache[s].packed), q, cache[q].local)
    BY <1>1, <2>2
  <2>4. Present(s)'
    BY <2>1, <2>2, <2>3 DEF Present
  <2>5. QED
    BY <1>2, <2>1, <2>4 DEF Answers
<1>6. ASSUME r # Root PROVE AtRoot'
  <2>1. AtRoot /\ pc'[Root] = pc[Root] /\ cache'[Root] = cache[Root]
    BY <1>2, <1>6 DEF RowsInv, Moves
  <2>2. pc[Root] = "all" => Results(cache[Root].real, script[at[Root]].cnt)'
    BY <1>1, <1>2, <2>1 DEF AtRoot
  <2>3. QED
    BY <1>2, <2>1, <2>2 DEF AtRoot, Counts
<1>7. QED
  BY <1>1, <1>3, <1>4, <1>5, <1>6

LEMMA GatherSizesRows ==
  ASSUME RowsInv, Inv', NEW r \in Ranks, GatherSizes(r)
  PROVE  RowsInv'
<1>1. /\ pc[r] = "size" /\ pc' = [pc EXCEPT ![r] = "rows"]
      /\ UNCHANGED <<script, buffer, at, sim, got, plan>>
      /\ cache' = cache \/ \E x : cache' = [cache EXCEPT ![r].sizes = x]
  BY DEF GatherSizes, At, Go
<1>2. "rows" \in Labels /\ "size" \in Names /\ RowsInv
  BY DEF Labels, Names
<1>3. Buffered' /\ CalmBut("size")
  BY <1>1, <1>2, Domains, CollectiveEffect DEF GatherSizes
<1>4. /\ Moves(r) /\ Typed' /\ pc'[r] = "rows"
      /\ cache'[r].local = cache[r].local /\ cache'[r].packed = cache[r].packed
      /\ cache'[r].count = cache[r].count
  BY <1>1, <1>2, <1>3, GathersOn
<1>5. ASSUME NEW s \in Others
      PROVE  /\ Opened(s) /\ Sized(s) /\ Turn(s) /\ KeptBut(s, {"size"}) /\ SentBy(s)
             /\ From(up[s], up'[s], "rows")
             /\ s \in Ranks /\ s # Root /\ Root \in Ranks
  BY <1>3, CalmKeeps, RanksCounted DEF RowsInv, Inv, Others, CalmBut, Kept
<1>6. CASE r # Root
  <2>1. SendUp(r, "size", plan[r].cntLocal) /\ cache' = cache
    BY <1>6 DEF GatherSizes
  <2>2. /\ r \in Others /\ down' = down
        /\ Added(up[r], up'[r], "size", plan[r].cntLocal)
        /\ \A s \in Others \ {r} : up'[s] = up[s]
    BY <1>1, <1>2, <2>1, Domains, SendUpEffect
  <2>3. /\ \A s \in Others : SentTo(s)'
        /\ \A s \in Ranks : Sampled(s)' /\ Present(s)' /\ Answers(s)'
        /\ AtRoot'
    BY <1>1, <1>4, <1>6, <2>2, GatheringKeeps
  <2>4. pc'[Root] = pc[Root] /\ pc[Root] \notin {"rows", "all"} /\ ~Answered(r)
    BY <1>1, <1>4, <1>5, <1>6, <2>2 DEF Sized, Turn, Moves
  <2>5. Opened(r)'
    BY <1>1, <1>4, <1>5, <2>2, <2>4 DEF Opened, Answered, KeptBut, Kept
  <2>6. Sized(r)'
    BY <1>1, <1>4, <1>5, <2>2, <2>4 DEF Sized, Answered, Added, KeptBut, Kept
  <2>7. \A s \in Others : Opened(s)' /\ Sized(s)'
    BY <1>4, <2>2, <2>5, <2>6, SyncOthers
  <2>8. ASSUME NEW s \in Others PROVE SentBy(s)'
    <3>1. CASE s # r
      BY <1>1, <1>5, <2>1, <2>2, <3>1 DEF SentBy
    <3>2. CASE s = r
      <4>1. ASSUME NEW j \in DOMAIN up'[r], up'[r][j].name = "size"
            PROVE  up'[r][j].data = plan[r].cntLocal
        BY <1>5, <2>2, <4>1 DEF Added, SentBy
      <4>2. ASSUME NEW j \in DOMAIN up'[r], up'[r][j].name = "rows"
            PROVE  up'[r][j].data = cache[r].local
        BY <1>5, <2>2, <4>2 DEF From, SentBy
      <4>3. QED
        BY <1>1, <2>1, <3>2, <4>1, <4>2 DEF SentBy
    <3>3. QED
      BY <3>1, <3>2
  <2>9. QED
    BY <1>4, <2>3, <2>7, <2>8 DEF RowsInv
<1>7. CASE r = Root
  <2>1. PICK all : all = Gathered(plan[r].cntLocal)
    OBVIOUS
  <2>2. Gather("size") /\ cache' = [cache EXCEPT ![r].sizes = all]
    BY <1>7, <2>1 DEF GatherSizes
  <2>3. /\ down' = down
        /\ \A s \in Others : Removed(up[s], up'[s], "size")
        /\ all[Root] = plan[r].cntLocal
        /\ \A s \in Others : \E i \in DOMAIN up[s] : up[s][i].name = "size" /\ all[s] = up[s][i].data
    BY <1>1, <1>2, <2>1, <2>2, Domains, GatherEffect
  <2>4. /\ \A s \in Others : SentTo(s)'
        /\ \A s \in Ranks : Sampled(s)' /\ Present(s)' /\ Answers(s)'
        /\ \A s \in Ranks : cache'[s].local = cache[s].local
    BY <1>1, <1>4, <2>3, GatheringKeeps
  <2>5. ASSUME NEW s \in Others PROVE Opened(s)' /\ Sized(s)'
    <3>1. /\ pc'[s] = pc[s] /\ pc'[Root] = "rows" /\ pc[Root] = "size"
          /\ pc[s] \in {"rows", "all"}
      BY <1>1, <1>4, <1>5, <1>7, <2>3 DEF Removed, Sized, Moves
    <3>2. Opened(s)'
      BY <1>5, <2>3, <3>1 DEF Opened, Answered, KeptBut, Kept
    <3>3. Sized(s)'
      BY <1>5, <2>3, <3>1 DEF Sized, Answered, Removed, KeptBut, Kept
    <3>4. QED
      BY <3>2, <3>3
  <2>6. ASSUME NEW s \in Others PROVE SentBy(s)'
    <3>1. From(up[s], up'[s], "size")
      BY <2>3 DEF Removed
    <3>2. QED
      BY <1>1, <1>5, <2>4, <3>1, SentByStays
  <2>7. AtRoot'
    <3>1. \A s \in Ranks : all[s] = plan[s].cntLocal
      BY <1>5, <1>7, <2>3 DEF SentBy, Others
    <3>2. cache'[Root].sizes = all
      <4>1. "sizes" \in DOMAIN cache[Root] /\ Root \in DOMAIN cache
        BY <1>7, Domains DEF RowsInv, Typed
      <4>2. QED
        BY <1>7, <2>2, <4>1
    <3>3. QED
      BY <1>1, <1>4, <1>7, <3>1, <3>2 DEF AtRoot
  <2>8. QED
    BY <1>4, <2>4, <2>5, <2>6, <2>7 DEF RowsInv
<1>8. QED
  BY <1>6, <1>7

LEMMA GatherRowsRows ==
  ASSUME RowsInv, Inv', NEW r \in Ranks, GatherRows(r)
  PROVE  RowsInv'
<1>1. CASE \E why : Abort(why)
  BY <1>1, AbortRows
<1>2. CASE r # Root
  <2>1. /\ pc[r] = "rows" /\ pc' = [pc EXCEPT ![r] = "all"]
        /\ UNCHANGED <<script, buffer, at, sim, got, plan>>
        /\ SendUp(r, "rows", cache[r].local) /\ cache' = cache
    BY <1>2 DEF GatherRows, At, Go
  <2>2. "all" \in Labels /\ "rows" \in Names
    BY DEF Labels, Names
  <2>3. /\ r \in Others /\ down' = down /\ Buffered' /\ CalmBut("rows")
        /\ Added(up[r], up'[r], "rows", cache[r].local)
        /\ \A s \in Others \ {r} : up'[s] = up[s]
    BY <2>1, <2>2, Domains, SendUpEffect
  <2>4. /\ Moves(r) /\ Typed' /\ pc'[r] = "all"
    BY <2>1, <2>2, <2>3, GathersOn
  <2>5. /\ \A s \in Others : SentTo(s)'
        /\ \A s \in Ranks : Sampled(s)' /\ Present(s)' /\ Answers(s)'
        /\ AtRoot'
    BY <1>2, <2>1, <2>3, <2>4, GatheringKeeps
  <2>6. \A s \in Others : Opened(s)' /\ Sized(s)'
    <3>1. SameStage(r)
      BY <2>1, <2>4 DEF SameStage
    <3>2. QED
      BY <2>3, <2>4, <3>1, SyncStays
  <2>7. ASSUME NEW s \in Others PROVE SentBy(s)'
    <3>1. SentBy(s) /\ From(up[s], up'[s], "size")
      BY <2>3 DEF RowsInv, CalmBut, Kept
    <3>2. CASE s # r
      BY <2>1, <2>3, <3>1, <3>2 DEF SentBy
    <3>3. CASE s = r
      <4>1. ASSUME NEW j \in DOMAIN up'[r], up'[r][j].name = "size"
            PROVE  up'[r][j].data = plan[r].cntLocal
        BY <3>1, <3>3, <4>1 DEF From, SentBy
      <4>2. ASSUME NEW j \in DOMAIN up'[r], up'[r][j].name = "rows"
            PROVE  up'[r][j].data = cache[r].local
        BY <2>3, <3>1, <3>3, <4>2 DEF Added, SentBy
      <4>3. QED
        BY <2>1, <3>3, <4>1, <4>2 DEF SentBy
    <3>4. QED
      BY <3>2, <3>3
  <2>8. QED
    BY <2>4, <2>5, <2>6, <2>7 DEF RowsInv
<1>3. CASE /\ r = Root /\ Displs(cache[r].sizes)[nprocs] = Cnt(r) /\ Gather("rows")
           /\ cache' = [cache EXCEPT ![r].real =
                          Place(cache[r].sizes, Gathered(cache[r].local))]
           /\ Go(r, "all") /\ UNCHANGED <<script, buffer, sim, plan, got>>
  <2>1. PICK all : all = Gathered(cache[r].local)
    OBVIOUS
  <2>2. PICK real : real = Place(cache[r].sizes, all)
    OBVIOUS
  <2>3. /\ pc[r] = "rows" /\ pc' = [pc EXCEPT ![r] = "all"] /\ Gather("rows")
        /\ UNCHANGED <<script, buffer, at, sim, got, plan>>
        /\ cache' = [cache EXCEPT ![r].real = real]
    BY <1>3, <2>1, <2>2 DEF GatherRows, At, Go
  <2>4. "all" \in Labels /\ "rows" \in Names /\ Root \in Ranks
    BY RanksCounted DEF Labels, Names
  <2>5. /\ down' = down /\ Buffered' /\ CalmBut("rows")
        /\ \A s \in Others : Removed(up[s], up'[s], "rows")
        /\ all[Root] = cache[r].local
        /\ \A s \in Others : \E i \in DOMAIN up[s] : up[s][i].name = "rows" /\ all[s] = up[s][i].data
    BY <2>1, <2>3, <2>4, Domains, GatherEffect
  <2>6. /\ Moves(r) /\ Typed' /\ pc'[r] = "all"
        /\ cache'[r].local = cache[r].local /\ cache'[r].packed = cache[r].packed
        /\ cache'[r].count = cache[r].count
    BY <2>3, <2>4, <2>5, GathersOn
  <2>7. /\ \A s \in Others : SentTo(s)'
        /\ \A s \in Ranks : Sampled(s)' /\ Present(s)' /\ Answers(s)'
        /\ \A s \in Ranks : cache'[s].local = cache[s].local
    BY <2>3, <2>5, <2>6, GatheringKeeps
  <2>8. \A s \in Others : Opened(s)' /\ Sized(s)'
    <3>1. SameStage(r)
      BY <2>3, <2>6 DEF SameStage
    <3>2. QED
      BY <2>5, <2>6, <3>1, SyncStays
  <2>9. ASSUME NEW s \in Others PROVE SentBy(s)'
    <3>1. SentBy(s) /\ From(up[s], up'[s], "size") /\ From(up[s], up'[s], "rows") /\ s \in Ranks
      BY <2>5 DEF RowsInv, CalmBut, Kept, Removed, Others
    <3>2. QED
      BY <2>3, <2>7, <3>1, SentByStays
  <2>10. AtRoot'
    <3>1. PICK sizes : sizes = cache[Root].sizes
      OBVIOUS
    <3>2. \A s \in Ranks : sizes[s] = plan[s].cntLocal /\ sizes[s] \in Nat
      BY <1>3, <2>3, <3>1 DEF RowsInv, AtRoot, Typed
    <3>3. \A s \in Ranks : all[s] = cache[s].local
      <4>1. ASSUME NEW s \in Others PROVE all[s] = cache[s].local
        BY <2>5 DEF RowsInv, SentBy
      <4>2. QED
        BY <1>3, <2>5, <4>1 DEF Others
    <3>4. ASSUME NEW s \in Ranks PROVE IsRows(s, all[s], sizes[s])
      <4>1. pc[s] \in {"rows", "all"}
        <5>1. CASE s = Root
          BY <1>3, <2>3, <5>1
        <5>2. CASE s # Root
          BY <1>3, <2>3, <5>2 DEF RowsInv, Others, Sized
        <5>3. QED
          BY <5>1, <5>2
      <4>2. Sampled(s)
        BY DEF RowsInv
      <4>3. QED
        BY <3>2, <3>3, <4>1, <4>2 DEF Sampled
    <3>5. /\ IsList(real) /\ Len(real) = Displs(sizes)[nprocs]
          /\ \A s \in Ranks : Lies(real, s, all[s])
      <4>1. real = Place(sizes, all)
        BY <1>3, <2>2, <3>1
      <4>2. QED
        BY <3>2, <3>4, <4>1, PlaceLies
    <3>6. Len(real) = script[at[Root]].cnt
      BY <1>3, <3>1, <3>5 DEF Cnt
    <3>7. Results(real, script[at[Root]].cnt)
      BY <3>3, <3>5, <3>6 DEF Results
    <3>8. cache'[Root].real = real
      <4>1. "real" \in DOMAIN cache[Root] /\ Root \in DOMAIN cache
        BY <2>4, Domains DEF RowsInv, Inv, Shape
      <4>2. QED
        BY <1>3, <2>3, <4>1
    <3>9. Results(real, script[at[Root]].cnt)'
      BY <2>3, <2>7, <3>7 DEF Results
    <3>10. QED
      BY <1>3, <2>3, <2>6, <3>8, <3>9 DEF AtRoot
  <2>11. QED
    BY <2>6, <2>7, <2>8, <2>9, <2>10 DEF RowsInv
<1>4. QED
  BY <1>1, <1>2, <1>3 DEF GatherRows

\* What r shares: the results it has from the root, or the root's own.
LEMMA SharedRows ==
  ASSUME RowsInv, NEW r \in Ranks, ShareRows(r)
  PROVE  \E real :
           /\ real = (IF r = Root THEN cache[r].real ELSE Received(r))
           /\ IF r = Root THEN SendDown("all", real) ELSE Receive(r, "all")
           /\ Results(real, script[at[r]].cnt)
           /\ IsList(cache'[r].packed) /\ Len(cache'[r].packed) = script[at[r]].cnt
           /\ cache'[r].count = script[at[r]].cnt
           /\ \A i \in DOMAIN cache'[r].packed : cache'[r].packed[i].run = sim[r].run
           /\ Bare(cache'[r].packed) = real
           /\ cache'[r].local = cache[r].local /\ DOMAIN cache'[r] = DOMAIN cache[r]
<1>1. PICK real :
        /\ real = IF r = Root THEN cache[r].real ELSE Received(r)
        /\ IF r = Root THEN SendDown("all", real) ELSE Receive(r, "all")
        /\ cache' = [cache EXCEPT ![r] = [@ EXCEPT
                       !.real = real,
                       !.packed = [i \in DOMAIN real |-> [run |-> sim[r].run, row |-> real[i]]],
                       !.count = Cnt(r)]]
  BY DEF ShareRows
<1>2. pc[r] = "all" /\ buffer' = buffer
  BY DEF ShareRows, At
<1>3. Results(real, script[at[r]].cnt)
  <2>1. CASE r = Root
    BY <1>1, <1>2, <2>1 DEF RowsInv, AtRoot
  <2>2. CASE r # Root
    <3>1. "all" \in Names /\ Receive(r, "all") /\ real = Received(r)
      BY <1>1, <2>2 DEF Names
    <3>2. /\ r \in Others
          /\ \E i \in DOMAIN down[r] : down[r][i].name = "all" /\ Received(r) = down[r][i].data
      BY <1>2, <3>1, Domains, ReceiveEffect
    <3>3. QED
      BY <3>1, <3>2 DEF RowsInv, SentTo
  <2>3. QED
    BY <2>1, <2>2
<1>4. PICK packed : packed = [i \in DOMAIN real |-> [run |-> sim[r].run, row |-> real[i]]]
  OBVIOUS
<1>5. cache'[r].packed = packed /\ cache'[r].count = Cnt(r)
      /\ cache'[r].local = cache[r].local /\ DOMAIN cache'[r] = DOMAIN cache[r]
  <2>1. /\ {"local", "count", "packed", "real"} \subseteq DOMAIN cache[r]
        /\ r \in DOMAIN cache
    <3>1. "local" \in DOMAIN cache[r] /\ r \in DOMAIN cache
      BY Domains DEF RowsInv, Typed
    <3>2. {"count", "packed", "real"} \subseteq DOMAIN cache[r]
      BY DEF RowsInv, Inv, Shape
    <3>3. QED
      BY <3>1, <3>2
  <2>2. cache'[r] = [cache[r] EXCEPT !.real = real, !.packed = packed, !.count = Cnt(r)]
    BY <1>1, <1>4, <2>1
  <2>3. QED
    BY <2>1, <2>2
<1>6. PICK n : n = script[at[r]].cnt
  OBVIOUS
<1>7. IsList(real) /\ Len(real) = n /\ n \in Nat /\ DOMAIN real = 1 .. n
  BY <1>3, <1>6, ListLen DEF Results
<1>8. IsList(packed) /\ Len(packed) = n /\ DOMAIN packed = 1 .. n
  <2>1. packed = [i \in 1 .. n |-> packed[i]]
    BY <1>4, <1>7
  <2>2. QED
    BY <1>7, <2>1, ListOf
<1>9. \A i \in 1 .. n : packed[i].run = sim[r].run /\ packed[i].row = real[i]
  BY <1>4, <1>7
<1>10. Bare(packed) = real
  <2>1. PICK S : real \in Seq(S)
    BY <1>7 DEF IsList
  <2>2. real = [i \in 1 .. n |-> real[i]]
    BY <1>7, <2>1
  <2>3. Bare(packed) = [i \in 1 .. n |-> real[i]]
    BY <1>8, <1>9 DEF Bare
  <2>4. QED
    BY <2>2, <2>3
<1>11. QED
  BY <1>1, <1>3, <1>5, <1>6, <1>8, <1>9, <1>10 DEF Cnt

LEMMA ShareRowsRows ==
  ASSUME RowsInv, Inv', NEW r \in Ranks, ShareRows(r)
  PROVE  RowsInv'
<1>1. /\ pc[r] = "all" /\ Return(r)
      /\ UNCHANGED <<script, buffer, sim, plan, got>>
      /\ \E x : cache' = [cache EXCEPT ![r] = x]
  BY DEF ShareRows, At
<1>2. PICK real :
        /\ IF r = Root THEN SendDown("all", real) ELSE Receive(r, "all")
        /\ Results(real, script[at[r]].cnt)
        /\ IsList(cache'[r].packed) /\ Len(cache'[r].packed) = script[at[r]].cnt
        /\ cache'[r].count = script[at[r]].cnt
        /\ \A i \in DOMAIN cache'[r].packed : cache'[r].packed[i].run = sim[r].run
        /\ Bare(cache'[r].packed) = real
        /\ cache'[r].local = cache[r].local /\ DOMAIN cache'[r] = DOMAIN cache[r]
  BY SharedRows
<1>3. Typed /\ "call" \in Labels /\ "all" \in Names /\ Root \in Ranks /\ at[r] <= Len(script)
  BY <1>1, RanksCounted DEF Labels, Names, RowsInv, Typed
<1>4. Buffered' /\ CalmBut("all")
  BY <1>1, <1>2, <1>3, Domains, CollectiveEffect
<1>5. /\ pc' \in [Ranks -> Labels] /\ pc'[r] = "call" /\ at'[r] = at[r] + 1
      /\ \A s \in Ranks \ {r} : pc'[s] = pc[s] /\ at'[s] = at[s]
  BY <1>1, <1>3, Domains DEF Typed, Return
<1>6. Moves(r)
  BY <1>1, <1>5, Domains DEF Moves, Return
<1>7. Typed'
  <2>1. at'[r] \in 1 .. Len(script) + 1
    BY <1>3, <1>5, Domains DEF Typed
  <2>2. Fits(r)
    BY <1>1, <1>2, <1>3, <1>5, <2>1 DEF Fits, Typed
  <2>3. QED
    BY <1>3, <1>4, <1>6, <2>2, TypedStays
<1>8. ASSUME NEW s \in Others
      PROVE  /\ Opened(s) /\ Sized(s) /\ Turn(s) /\ KeptBut(s, {"all"})
             /\ SentBy(s) /\ SentTo(s) /\ From(down[s], down'[s], "cnts")
             /\ s \in Ranks /\ s # Root
  BY <1>4, CalmKeeps DEF RowsInv, Inv, Others, CalmBut, Kept
<1>9. /\ \A s \in Ranks : cache'[s].local = cache[s].local
      /\ \A rows, n : Results(rows, n)' <=> Results(rows, n)
  BY <1>2, <1>6, LocalsStay
<1>10. ASSUME NEW s \in Others PROVE SentBy(s)'
  <2>1. From(up[s], up'[s], "size") /\ From(up[s], up'[s], "rows") /\ s \in Ranks /\ SentBy(s)
    BY <1>4, <1>8 DEF CalmBut, Kept
  <2>2. QED
    BY <1>1, <1>9, <2>1, SentByStays
<1>11. ASSUME NEW s \in Others, NEW j \in DOMAIN down'[s], down'[s][j].name = "cnts"
       PROVE  Counts(down'[s][j].data)
  BY <1>8, <1>11 DEF SentTo, From
<1>12. ASSUME NEW s \in Ranks PROVE Sampled(s)' /\ Answers(s)'
  <2>1. Sampled(s) /\ Answers(s)
    BY DEF RowsInv
  <2>2. CASE s = r
    BY <1>1, <1>5, <2>1, <2>2 DEF Sampled, Answers
  <2>3. CASE s # r
    <3>1. pc'[s] = pc[s] /\ cache'[s] = cache[s]
      BY <1>5, <1>6, <2>3 DEF Moves
    <3>2. QED
      BY <1>1, <2>1, <3>1 DEF Sampled, Answers
  <2>4. QED
    BY <2>2, <2>3
<1>13. ASSUME NEW s \in Ranks PROVE Present(s)'
  <2>1. CASE s = r
    <3>1. PICK packed : packed = cache'[r].packed
      OBVIOUS
    <3>2. IsList(packed) /\ DOMAIN packed = 1 .. Len(packed)
      BY <1>2, <3>1, ListLen
    <3>3. \A q \in Ranks : Lies(Bare(packed), q, cache'[q].local)
      BY <1>2, <1>9, <3>1 DEF Results
    <3>4. QED
      BY <1>1, <1>2, <2>1, <3>1, <3>2, <3>3 DEF Present
  <2>2. CASE s # r
    <3>1. Present(s) /\ pc'[s] = pc[s] /\ cache'[s] = cache[s]
      BY <1>5, <1>6, <2>2 DEF RowsInv, Moves
    <3>2. QED
      BY <1>1, <1>9, <3>1 DEF Present
  <2>3. QED
    BY <2>1, <2>2
<1>14. AtRoot'
  <2>1. CASE r = Root
    BY <1>5, <2>1 DEF AtRoot
  <2>2. CASE r # Root
    <3>1. AtRoot /\ pc'[Root] = pc[Root] /\ cache'[Root] = cache[Root] /\ at'[Root] = at[Root]
      BY <1>3, <1>5, <1>6, <2>2 DEF RowsInv, Moves
    <3>2. pc[Root] = "all" => Results(cache[Root].real, script[at[Root]].cnt)'
      BY <1>1, <1>9, <3>1 DEF AtRoot
    <3>3. QED
      BY <1>1, <3>1, <3>2 DEF AtRoot, Counts
  <2>3. QED
    BY <2>1, <2>2
<1>15. \A s \in Others : Opened(s)' /\ Sized(s)' /\ SentTo(s)'
  <2>1. CASE r = Root
    <3>1. SendDown("all", real)
      BY <1>2, <2>1
    <3>2. \A s \in Others : Added(down[s], down'[s], "all", real) /\ up' = up
      BY <1>1, <1>3, <3>1, Domains, SendDownEffect
    <3>3. ASSUME NEW s \in Others PROVE Opened(s)' /\ Sized(s)' /\ SentTo(s)'
      <4>1. /\ pc'[s] = "all" /\ pc[s] = "all" /\ pc'[Root] = "call" /\ pc[Root] = "all"
            /\ ~Answered(s) /\ at'[s] = at[r]
        BY <1>1, <1>5, <1>8, <2>1 DEF Turn
      <4>2. Opened(s)'
        BY <1>8, <3>2, <4>1 DEF Opened, Answered, Added, KeptBut, Kept
      <4>3. Sized(s)'
        BY <1>8, <3>2, <4>1 DEF Sized, Answered, KeptBut, Kept
      <4>4. ASSUME NEW j \in DOMAIN down'[s], down'[s][j].name = "all"
            PROVE  down'[s][j].data = real
        BY <3>2, <4>1, <4>4 DEF Added, Answered, Has
      <4>5. SentTo(s)'
        <5>1. PICK n : n = script[at[r]].cnt
          OBVIOUS
        <5>2. script'[at'[s]].cnt = n
          BY <1>1, <4>1, <5>1
        <5>3. Results(real, n)'
          BY <1>2, <1>9, <5>1
        <5>4. QED
          BY <1>11, <4>4, <5>2, <5>3 DEF SentTo, Results, Counts
      <4>6. QED
        BY <4>2, <4>3, <4>5
    <3>4. QED
      BY <3>3
  <2>2. CASE r # Root
    <3>1. Receive(r, "all")
      BY <1>2, <2>2
    <3>2. /\ r \in Others /\ up' = up
          /\ Removed(down[r], down'[r], "all")
          /\ \A s \in Others \ {r} : down'[s] = down[s]
      BY <1>1, <1>3, <3>1, Domains, ReceiveEffect
    <3>3. pc'[Root] = pc[Root] /\ Answered(r) /\ pc[Root] = "call" /\ Once(down[r], "all")
      BY <1>3, <1>5, <1>8, <2>2, <3>2 DEF Removed, Answered, Opened, Turn
    <3>4. Opened(r)'
      BY <1>1, <1>5, <1>8, <3>2, <3>3 DEF Opened, Answered, Removed, KeptBut, Kept
    <3>5. Sized(r)'
      BY <1>1, <1>5, <1>8, <3>2, <3>3 DEF Sized, Answered, KeptBut, Kept
    <3>6. SentTo(r)'
      <4>1. ~Has(down'[r], "all")
        BY <3>2, <3>3 DEF Removed
      <4>2. QED
        BY <1>11, <3>2, <4>1 DEF SentTo, Counts, Has
    <3>7. ASSUME NEW s \in Others \ {r} PROVE SentTo(s)'
      <4>1. SentTo(s) /\ down'[s] = down[s] /\ at'[s] = at[s] /\ s \in Others
        BY <1>5, <1>8, <3>2
      <4>2. From(down[s], down'[s], "cnts") /\ From(down[s], down'[s], "all")
        BY <4>1 DEF From
      <4>3. QED
        BY <1>1, <1>9, <4>1, <4>2, SentToStays
    <3>8. QED
      BY <1>6, <3>2, <3>4, <3>5, <3>6, <3>7, SyncOthers
  <2>3. QED
    BY <2>1, <2>2
<1>16. QED
  BY <1>7, <1>10, <1>12, <1>13, <1>14, <1>15 DEF RowsInv

-----------------------------------------------------------------------------
(***************************************************************************)
(* The theorems on the results.                                             *)
(***************************************************************************)
LEMMA InitRows == Init => RowsInv
<1> SUFFICES ASSUME Init PROVE RowsInv
  OBVIOUS
<1>1. Inv
  BY InitInv
<1>2. \A r \in Ranks : /\ at[r] = 1 /\ pc[r] = "call" /\ sim[r].run = 0 /\ plan[r] = Idle
                       /\ cache[r] = EmptyCache /\ got[r] = << >>
                       /\ up[r] = << >> /\ down[r] = << >>
  BY DEF Init, Everywhere
<1>3. IsList(<< >>) /\ Len(<< >>) = 0 /\ DOMAIN << >> = {} /\ Named(<< >>)
      /\ \A n : ~Has(<< >>, n) /\ Once(<< >>, n)
  BY EmptyChannel DEF Has, Once
<1>4. Root \in Ranks /\ Others \subseteq Ranks
  BY RanksCounted
<1>5. Buffered
  <2>1. buffer \in Nat \ {0}
    BY MeasurementAssumption DEF Init
  <2>2. \A r \in Ranks : /\ Len(up[r]) <= buffer /\ Len(down[r]) <= buffer
                         /\ Named(up[r]) /\ Named(down[r])
    BY <1>2, <1>3, <2>1
  <2>3. QED
    BY <2>1, <2>2 DEF Buffered
<1>6. Typed
  <2>1. script \in Scripts /\ pc \in [Ranks -> Labels] /\ DOMAIN plan = Ranks
    BY DEF Init, Everywhere, Labels
  <2>2. Len(script) \in Nat
    <3>1. script \in Seq({script[i] : i \in DOMAIN script})
      BY <2>1, ScriptsAssumption
    <3>2. QED
      BY <3>1
  <2>3. /\ {"total", "cntLocal", "probs", "cnts"} \subseteq DOMAIN Idle /\ Idle.cntLocal = 0
        /\ {"taus", "pass", "local", "sizes"} \subseteq DOMAIN EmptyCache
    BY DEF Idle, EmptyCache
  <2>4. QED
    BY <1>2, <1>5, <2>1, <2>2, <2>3 DEF Typed
<1>7. \A r \in Others : Opened(r) /\ Sized(r) /\ SentBy(r) /\ SentTo(r)
  BY <1>2, <1>3, <1>4 DEF Opened, Sized, SentBy, SentTo, Answered
<1>8. \A r \in Ranks : Sampled(r) /\ Present(r) /\ Answers(r)
  <2>1. EmptyCache.packed = << >> /\ EmptyCache.count = 0
    BY DEF EmptyCache
  <2>2. \A r \in Ranks : Sampled(r)
    BY <1>2 DEF Sampled
  <2>3. \A r \in Ranks : Present(r)
    BY <1>2, <1>3, <2>1 DEF Present
  <2>4. \A r \in Ranks : Answers(r)
    BY <1>2, <1>3 DEF Answers
  <2>5. QED
    BY <2>2, <2>3, <2>4
<1>9. AtRoot
  BY <1>2, <1>4 DEF AtRoot
<1>10. QED
  BY <1>1, <1>6, <1>7, <1>8, <1>9 DEF RowsInv

LEMMA NextRows == RowsInv /\ [Next]_vars => RowsInv'
<1> SUFFICES ASSUME RowsInv, [Next]_vars PROVE RowsInv'
  OBVIOUS
<1>1. Inv'
  BY NextKeepsInv DEF RowsInv
<1>2. CASE vars' = vars
  BY <1>1, <1>2, RowsStand DEF vars
<1>3. ASSUME NEW r \in Ranks, RankStep(r) PROVE RowsInv'
  <2>1. CASE Execute(r) \/ MeasureNothing(r) \/ GetResults(r)
    BY <1>1, <2>1, ExecuteRows, MeasureNothingRows, GetResultsRows
  <2>2. CASE ScanUp(r) \/ ScanPrefix(r) \/ ScanTotal(r)
    BY <1>1, <2>2, ScanUpRows, ScanPrefixRows, ScanTotalRows
  <2>3. CASE PlanSeed(r) \/ PlanProbs(r) \/ PlanCounts(r)
    BY <1>1, <2>3, PlanSeedRows, PlanProbsRows, PlanCountsRows
  <2>4. CASE StartSample(r) \/ SampleSegment(r) \/ EndSample(r)
    BY <1>1, <2>4, StartSampleRows, SampleSegmentRows, EndSampleRows
  <2>5. CASE GatherSizes(r) \/ GatherRows(r) \/ ShareRows(r)
    BY <1>1, <2>5, GatherSizesRows, GatherRowsRows, ShareRowsRows
  <2>6. QED
    BY <1>3, <2>1, <2>2, <2>3, <2>4, <2>5 DEF RankStep
<1>4. QED
  BY <1>2, <1>3 DEF Next, Done

LEMMA SpecRows == Spec => []RowsInv
<1>1. Init => RowsInv
  BY InitRows
<1>2. RowsInv /\ [Next]_vars => RowsInv'
  BY NextRows
<1>3. QED
  BY <1>1, <1>2, PTL DEF Spec

\* The shape of the state, for every number of ranks and every script: no call
\* is skipped, no channel holds more than MPI may buffer, and measured_count()
\* never exceeds the rows there are.
THEOREM TypeCorrect == Spec => []TypeOK
<1>1. RowsInv => TypeOK
  <2>1. SUFFICES ASSUME RowsInv PROVE TypeOK
    OBVIOUS
  <2>2. Typed /\ Channels /\ Buffered /\ Shape
    <3>1. Typed /\ Inv
      BY <2>1 DEF RowsInv
    <3>2. Channels /\ Shape
      BY <3>1 DEF Inv
    <3>3. Buffered
      BY <3>1 DEF Typed
    <3>4. QED
      BY <3>1, <3>2, <3>3
  <2>3. script \in Scripts /\ at \in [Ranks -> 1 .. Len(script) + 1]
    BY <2>2 DEF Typed, Shape
  <2>4. pc \in [Ranks -> {"call", "sample", "stream"} \cup Names]
    BY <2>2 DEF Typed, Labels
  <2>5. ASSUME NEW r \in Ranks
        PROVE  /\ {Len(up[r]), Len(down[r])} \subseteq 0 .. buffer
               /\ \A i \in DOMAIN up[r] : up[r][i].name \in Names
               /\ \A i \in DOMAIN down[r] : down[r][i].name \in Names
               /\ cache[r].count <= Len(cache[r].packed)
               /\ plan[r].cntLocal \in Nat
    <3>1. Len(up[r]) \in Nat /\ Len(down[r]) \in Nat
      BY <2>2, ListLen DEF Channels
    <3>2. {Len(up[r]), Len(down[r])} \subseteq 0 .. buffer
      BY <2>2, <3>1 DEF Buffered
    <3>3. cache[r].count <= Len(cache[r].packed)
      BY <2>1, CountKnown
    <3>4. QED
      BY <2>2, <3>2, <3>3 DEF Buffered, Named, Typed
  <2>6. QED
    BY <2>3, <2>4, <2>5 DEF TypeOK
<1>2. QED
  BY <1>1, SpecRows, PTL

\* get_results() returns as many rows as the last measure() asked for, none if
\* an execution has followed it, and each row is of the state as it is.
THEOREM ResultsPresent == Spec => []ResultsArePresent
<1>1. RowsInv => ResultsArePresent
  <2>1. SUFFICES ASSUME RowsInv, NEW r \in Ranks, NEW i \in DOMAIN got[r], NEW g, g = got[r][i]
                 PROVE  /\ Len(g.rows) = Shots(g.call)
                        /\ \A k \in DOMAIN g.rows :
                             g.rows[k].run = Cardinality(Executions(g.call))
    BY DEF ResultsArePresent
  <2>2. Typed /\ Answers(r) /\ i \in 1 .. Len(got[r]) /\ Len(script) \in Nat
    <3>1. IsList(got[r])
      BY <2>1 DEF RowsInv, Inv, Shape
    <3>2. QED
      BY <2>1, <3>1, ListLen, Domains DEF RowsInv
  <2>3. /\ g.call \in 1 .. Len(script)
        /\ IsList(g.rows) /\ Len(g.rows) = CountAt(script, g.call)
        /\ \A k \in 1 .. Len(g.rows) : g.rows[k].run = Count(script, "execute", g.call)
    BY <2>1, <2>2 DEF Answers
  <2>4. CountAt(script, g.call) = Shots(g.call)
    BY <2>2, <2>3, CountAtShots
  <2>5. DOMAIN g.rows = 1 .. Len(g.rows)
    BY <2>3, ListLen
  <2>6. Count(script, "execute", g.call) = Cardinality(Executions(g.call))
    BY DEF Count, Before, Executions
  <2>7. QED
    BY <2>3, <2>4, <2>5, <2>6
<1>2. QED
  BY <1>1, SpecRows, PTL

\* The results on every rank hold, for each rank, exactly the rows that rank has
\* resolved, together and in their order: gather_results loses none, counts none
\* twice and puts each rank's rows at its displacement.
THEOREM ShotsCollected == Spec => []EveryShotCollected
<1>1. RowsInv => EveryShotCollected
  <2> DEFINE Collected(packed, rows, s) ==
               \E d \in 0 .. Len(packed) :
                 /\ {i \in DOMAIN packed : packed[i].row.rank = s} = d + 1 .. d + Len(rows)
                 /\ \A k \in 1 .. Len(rows) : packed[d + k].row = rows[k]
  <2>0. SUFFICES ASSUME RowsInv
                 PROVE  \A r, s \in Ranks : pc[r] = "call" /\ cache[r].count > 0 =>
                          Collected(cache[r].packed, cache[s].local, s)
    BY DEF EveryShotCollected
  <2>1. SUFFICES ASSUME NEW r \in Ranks, NEW s \in Ranks,
                        pc[r] = "call", cache[r].count > 0
                 PROVE  Collected(cache[r].packed, cache[s].local, s)
    BY <2>0
  <2> PICK packed, rows : packed = cache[r].packed /\ rows = cache[s].local
    OBVIOUS
  <2>2. IsList(packed) /\ Lies(Bare(packed), s, rows)
    BY <2>0, <2>1 DEF RowsInv, Present
  <2>3. PICK all : all = Bare(packed)
    OBVIOUS
  <2>4. Len(packed) \in Nat /\ DOMAIN packed = 1 .. Len(packed)
    BY <2>2, ListLen
  <2>5. all = [i \in 1 .. Len(packed) |-> packed[i].row]
    BY <2>3, <2>4 DEF Bare
  <2>6. Len(all) = Len(packed) /\ DOMAIN all = 1 .. Len(packed)
    <3>1. all = [i \in 1 .. Len(packed) |-> all[i]]
      BY <2>5
    <3>2. QED
      BY <2>4, <3>1, ListOf
  <2>7. PICK d \in 0 .. Len(all) :
          /\ {i \in DOMAIN all : all[i].rank = s} = d + 1 .. d + Len(rows)
          /\ \A k \in 1 .. Len(rows) : all[d + k] = rows[k]
    BY <2>2, <2>3 DEF Lies
  <2>8. {i \in DOMAIN packed : packed[i].row.rank = s} = {i \in DOMAIN all : all[i].rank = s}
    BY <2>4, <2>5, <2>6
  <2>9. Len(rows) \in Nat /\ \A k \in 1 .. Len(rows) : d + k \in 1 .. Len(packed)
    <3>1. \A k \in 1 .. Len(rows) : d + k \in d + 1 .. d + Len(rows)
      BY <2>6, <2>4
    <3>2. d + 1 .. d + Len(rows) \subseteq 1 .. Len(packed)
      BY <2>6, <2>7
    <3>3. QED
      BY <3>1, <3>2
  <2>10. ASSUME NEW k \in 1 .. Len(rows) PROVE packed[d + k].row = rows[k]
    <3>1. PICK j : j = d + k
      OBVIOUS
    <3>2. j \in 1 .. Len(packed) /\ all[j] = rows[k]
      BY <2>7, <2>9, <3>1
    <3>3. QED
      BY <2>5, <3>1, <3>2
  <2>11. QED
    BY <2>6, <2>7, <2>8, <2>10
<1>2. QED
  BY <1>1, SpecRows, PTL

-----------------------------------------------------------------------------
(***************************************************************************)
(* The pass over the segments, when no addition rounds.  ExactSums holds    *)
(* when every sum of a block's probabilities has at most Precision bits.    *)
(***************************************************************************)
ExactBlock(p) == IsBlock(p) /\ InFront(p)[Size(p)] <= MaxSum

ExactSums ==
  /\ MaxSum \in Nat \ {0}
  /\ \A n \in 0 .. MaxSum : Round[n] = n
  /\ \A s \in Scripts : \A i \in DOMAIN s :
       s[i].op = "execute" => \A r \in Ranks : ExactBlock(s[i].state[r])

LEMMA StrongInduction ==
  ASSUME NEW S, \A n \in Nat : (\A k \in 0 .. n - 1 : k \in S) => n \in S
  PROVE  Nat \subseteq S
<1>1. SUFFICES ASSUME Nat \ S # {} PROVE FALSE
  OBVIOUS
<1>2. PICK n \in Nat \ S : \A k \in Nat \ S : n <= k
  <2>1. Nat \ S \in SUBSET Nat
    OBVIOUS
  <2>2. QED
    BY <1>1, <2>1, LeastNatural
<1>3. \A k \in 0 .. n - 1 : k \in S
  BY <1>2
<1>4. QED
  BY <1>2, <1>3

\* C holds the sums of p, and p has n addresses.
Summed(p, n, C) ==
  /\ n \in Nat /\ DOMAIN p = 0 .. n - 1 /\ Size(p) = n
  /\ \A x \in 0 .. n - 1 : p[x] \in Nat
  /\ C[0] = 0
  /\ \A x \in 0 .. n : C[x] \in Nat
  /\ \A x \in 0 .. n - 1 : C[x + 1] = C[x] + p[x]

LEMMA BlockSize ==
  ASSUME NEW p, IsBlock(p)
  PROVE  Size(p) \in Nat /\ DOMAIN p = 0 .. Size(p) - 1 /\ \A x \in 0 .. Size(p) - 1 : p[x] \in Nat
<1>1. Size(p) \in Nat
  BY FS_CardinalityType DEF IsBlock, Size
<1>2. QED
  BY <1>1 DEF IsBlock

LEMMA FrontSums ==
  ASSUME NEW p, IsBlock(p)
  PROVE  Summed(p, Size(p), InFront(p))
<1> DEFINE n == Size(p)
           Eq(k, g) == g = [x \in 0 .. k |-> IF x = 0 THEN 0 ELSE g[x - 1] + p[x - 1]]
           Starts(k) == \E g \in [0 .. k -> Nat] : Eq(k, g)
           S == {k \in Nat : k <= n => Starts(k)}
<1>1. n \in Nat /\ DOMAIN p = 0 .. n - 1 /\ \A x \in 0 .. n - 1 : p[x] \in Nat
  BY BlockSize
<1> HIDE DEF n
<1>2. 0 \in S
  <2> DEFINE g == [x \in 0 .. 0 |-> 0]
  <2>1. g \in [0 .. 0 -> Nat] /\ Eq(0, g)
    OBVIOUS
  <2>2. Starts(0)
    BY <2>1
  <2> HIDE DEF Starts
  <2>3. QED
    BY <2>2
<1>3. ASSUME NEW k \in Nat, k \in S PROVE k + 1 \in S
  <2>1. SUFFICES ASSUME k + 1 <= n PROVE Starts(k + 1)
    <3> HIDE DEF Starts
    <3>1. QED
      OBVIOUS
  <2>7. Starts(k)
    <3> HIDE DEF Starts
    <3>1. QED
      BY <1>1, <1>3, <2>1
  <2>2. PICK g \in [0 .. k -> Nat] : Eq(k, g)
    BY <2>7
  <2> DEFINE h == [x \in 0 .. k + 1 |-> IF x = k + 1 THEN g[k] + p[k] ELSE g[x]]
  <2>3. g[k] \in Nat /\ p[k] \in Nat
    BY <1>1, <2>1, <2>2
  <2>4. h \in [0 .. k + 1 -> Nat]
    BY <2>2, <2>3
  <2>5. \A x \in 0 .. k + 1 : h[x] = IF x = 0 THEN 0 ELSE h[x - 1] + p[x - 1]
    <3>1. ASSUME NEW x \in 0 .. k PROVE h[x] = IF x = 0 THEN 0 ELSE h[x - 1] + p[x - 1]
      <4>1. h[x] = g[x] /\ (x # 0 => x - 1 \in 0 .. k /\ h[x - 1] = g[x - 1])
        OBVIOUS
      <4>2. g[x] = IF x = 0 THEN 0 ELSE g[x - 1] + p[x - 1]
        BY <2>2
      <4>3. QED
        BY <4>1, <4>2
    <3>2. h[k + 1] = h[k] + p[k] /\ k + 1 # 0 /\ (k + 1) - 1 = k
      OBVIOUS
    <3> HIDE DEF h
    <3>3. ASSUME NEW x \in 0 .. k + 1, x = k + 1
          PROVE  h[x] = IF x = 0 THEN 0 ELSE h[x - 1] + p[x - 1]
      BY <3>2, <3>3
    <3>4. \A x \in 0 .. k + 1 : x \in 0 .. k \/ x = k + 1
      OBVIOUS
    <3>5. QED
      BY <3>1, <3>3, <3>4
  <2>6. QED
    BY <2>4, <2>5
<1> HIDE DEF S
<1>4. n \in S
  BY <1>1, <1>2, <1>3, NaturalInduction
<1>5. \E g : Eq(n, g)
  <2>1. Starts(n)
    <3> HIDE DEF Starts
    <3>1. QED
      BY <1>1, <1>4 DEF S
  <2>2. QED
    BY <2>1
<1>6. PICK C : C = InFront(p)
  OBVIOUS
<1>7. Eq(n, C)
  BY <1>5, <1>6 DEF InFront, n
<1>8. C[0] = 0 /\ \A x \in 0 .. n - 1 : C[x + 1] = C[x] + p[x]
  <2>1. \A x \in 0 .. n : C[x] = IF x = 0 THEN 0 ELSE C[x - 1] + p[x - 1]
    BY <1>7
  <2>2. ASSUME NEW x \in 0 .. n - 1 PROVE C[x + 1] = C[x] + p[x]
    <3>1. PICK y : y = x + 1
      OBVIOUS
    <3>2. y \in 0 .. n /\ y # 0 /\ y - 1 = x
      BY <1>1, <3>1
    <3>3. C[y] = C[y - 1] + p[y - 1]
      BY <2>1, <3>2
    <3>4. QED
      BY <3>1, <3>2, <3>3
  <2>3. QED
    BY <1>1, <2>1, <2>2
<1> DEFINE Q == {k \in Nat : k <= n => C[k] \in Nat}
<1>9. 0 \in Q
  BY <1>1, <1>8
<1>10. \A k \in Nat : k \in Q => k + 1 \in Q
  BY <1>1, <1>8
<1> HIDE DEF Q
<1>11. Nat \subseteq Q
  BY <1>9, <1>10, NaturalInduction
<1>12. QED
  BY <1>1, <1>6, <1>8, <1>11 DEF Q, Summed, n

LEMMA SumsGrow ==
  ASSUME NEW p, NEW n, NEW C, Summed(p, n, C), NEW i \in 0 .. n, NEW j \in 0 .. n, i <= j
  PROVE  C[i] \in Nat /\ C[j] \in Nat /\ C[i] <= C[j]
<1>1. n \in Nat /\ \A x \in 0 .. n : C[x] \in Nat
  BY DEF Summed
<1> DEFINE S == {k \in Nat : i + k <= n => C[i] <= C[i + k]}
<1>2. 0 \in S
  BY <1>1
<1>3. ASSUME NEW k \in Nat, k \in S PROVE k + 1 \in S
  <2>1. SUFFICES ASSUME i + (k + 1) <= n PROVE C[i] <= C[i + (k + 1)]
    OBVIOUS
  <2>2. PICK y : y = i + k
    OBVIOUS
  <2>3. y \in 0 .. n - 1 /\ i + (k + 1) = y + 1
    BY <1>1, <2>1, <2>2
  <2>4. C[y + 1] = C[y] + p[y] /\ p[y] \in Nat
    BY <2>3 DEF Summed
  <2>5. C[i] <= C[y]
    BY <1>1, <1>3, <2>2, <2>3
  <2>6. QED
    BY <1>1, <2>3, <2>4, <2>5
<1> HIDE DEF S
<1>4. j - i \in S
  BY <1>1, <1>2, <1>3, NaturalInduction
<1>5. i + (j - i) = j
  BY <1>1
<1>6. QED
  BY <1>1, <1>4, <1>5 DEF S

\* As Summed, and no sum is rounded.
Exactly(p, n, C) == ExactSums /\ Summed(p, n, C) /\ C[n] <= MaxSum

LEMMA PlusExact ==
  ASSUME ExactSums, NEW a \in Nat, NEW b \in Nat, a + b <= MaxSum
  PROVE  Plus(a, b) = a + b
<1>1. PICK n : n = a + b
  OBVIOUS
<1>2. MaxSum \in Nat
  BY DEF ExactSums
<1>3. n \in 0 .. MaxSum
  BY <1>1, <1>2
<1>4. Round[n] = n
  BY <1>3 DEF ExactSums
<1>5. QED
  BY <1>1, <1>4 DEF Plus

LEMMA SumsFit ==
  ASSUME NEW p, NEW n, NEW C, Exactly(p, n, C), NEW i \in 0 .. n
  PROVE  C[i] \in Nat /\ C[i] <= MaxSum
<1>1. Summed(p, n, C) /\ C[n] <= MaxSum /\ n \in 0 .. n /\ i <= n /\ MaxSum \in Nat
  BY DEF Exactly, Summed, ExactSums
<1>2. C[i] \in Nat /\ C[n] \in Nat /\ C[i] <= C[n]
  BY <1>1, SumsGrow
<1>3. QED
  BY <1>1, <1>2

\* Sums in a tree.
LEMMA SumRangeExact ==
  ASSUME NEW p, NEW n, NEW C, Exactly(p, n, C), NEW b \in 0 .. n, NEW e \in 0 .. n, b <= e
  PROVE  SumRange(p, b, e) = C[e] - C[b]
<1> DEFINE D == (b .. e) \X (b .. e)
           Step(g, from, to) ==
             IF from >= to THEN 0
             ELSE IF to - from = 1 THEN p[from]
             ELSE Plus(g[<<from, from + (to - from) \div 2>>], g[<<from + (to - from) \div 2, to>>])
           Eq(g) == g = [range \in D |-> Step(g, range[1], range[2])]
           Value(from, to) == IF from >= to THEN 0 ELSE C[to] - C[from]
           h == [range \in D |-> Value(range[1], range[2])]
<1>1. /\ n \in Nat /\ ExactSums /\ b \in Int /\ e \in Int
      /\ \A x \in 0 .. n - 1 : p[x] \in Nat /\ C[x + 1] = C[x] + p[x]
  BY DEF Exactly, Summed
<1>2. \A i, j \in b .. e : i <= j => C[i] \in Nat /\ C[j] \in Nat /\ C[i] <= C[j] /\ C[j] <= MaxSum
  <2>1. ASSUME NEW i \in b .. e, NEW j \in b .. e, i <= j
        PROVE  C[i] \in Nat /\ C[j] \in Nat /\ C[i] <= C[j] /\ C[j] <= MaxSum
    <3>1. i \in 0 .. n /\ j \in 0 .. n
      BY <1>1
    <3>2. C[i] \in Nat /\ C[j] \in Nat /\ C[i] <= C[j]
      BY <2>1, <3>1, SumsGrow DEF Exactly
    <3>3. C[j] <= MaxSum
      BY <3>1, SumsFit
    <3>4. QED
      BY <3>2, <3>3
  <2>2. QED
    BY <2>1
<1>3. ASSUME NEW from \in b .. e, NEW to \in b .. e, to - from > 1
      PROVE  LET mid == from + (to - from) \div 2 IN
             /\ mid \in b .. e /\ from < mid /\ mid < to
             /\ Plus(Value(from, mid), Value(mid, to)) = Value(from, to)
  <2>1. PICK mid : mid = from + (to - from) \div 2
    OBVIOUS
  <2>2. mid \in b .. e /\ from < mid /\ mid < to
    BY <1>1, <1>3, <2>1
  <2>3. /\ C[from] \in Nat /\ C[mid] \in Nat /\ C[to] \in Nat
        /\ C[from] <= C[mid] /\ C[mid] <= C[to] /\ C[to] <= MaxSum /\ MaxSum \in Nat
    BY <1>1, <1>2, <2>2 DEF ExactSums
  <2>4. PICK x, y : x = C[mid] - C[from] /\ y = C[to] - C[mid]
    OBVIOUS
  <2>5. x \in Nat /\ y \in Nat /\ x + y <= MaxSum /\ x + y = C[to] - C[from]
    BY <2>3, <2>4
  <2>6. Plus(x, y) = x + y
    BY <1>1, <2>5, PlusExact
  <2>7. Value(from, mid) = x /\ Value(mid, to) = y /\ Value(from, to) = x + y
    BY <1>1, <2>2, <2>4, <2>5
  <2>8. QED
    BY <2>1, <2>2, <2>6, <2>7
<1>4. ASSUME NEW from \in b .. e, NEW to \in b .. e, to - from = 1
      PROVE  p[from] = Value(from, to)
  <2>1. from \in 0 .. n - 1 /\ to = from + 1 /\ ~(from >= to) /\ from <= to
    BY <1>1, <1>4
  <2>2. C[from + 1] = C[from] + p[from] /\ p[from] \in Nat
    BY <1>1, <2>1
  <2>3. C[from] \in Nat
    BY <1>2, <2>1
  <2>4. QED
    BY <2>1, <2>2, <2>3
<1>5. \A from, to \in b .. e : h[<<from, to>>] = Value(from, to)
  OBVIOUS
<1> HIDE DEF Value
<1>6. ASSUME NEW g, \A from, to \in b .. e : g[<<from, to>>] = Value(from, to)
      PROVE  \A from, to \in b .. e : Step(g, from, to) = Value(from, to)
  <2>1. ASSUME NEW from \in b .. e, NEW to \in b .. e
        PROVE  Step(g, from, to) = Value(from, to)
    <3>1. CASE from >= to
      BY <3>1 DEF Value
    <3>2. CASE to - from = 1
      <4>1. ~(from >= to)
        BY <1>1, <3>2
      <4>2. QED
        BY <1>4, <3>2, <4>1
    <3>3. CASE to - from > 1
      <4>1. ~(from >= to) /\ to - from # 1
        BY <1>1, <3>3
      <4>2. PICK mid : mid = from + (to - from) \div 2
        OBVIOUS
      <4>3. mid \in b .. e /\ Plus(Value(from, mid), Value(mid, to)) = Value(from, to)
        BY <1>3, <3>3, <4>2
      <4>4. g[<<from, mid>>] = Value(from, mid) /\ g[<<mid, to>>] = Value(mid, to)
        BY <1>6, <4>3
      <4>5. Step(g, from, to) = Plus(g[<<from, mid>>], g[<<mid, to>>])
        BY <4>1, <4>2
      <4>6. QED
        BY <4>3, <4>4, <4>5
    <3>4. QED
      BY <1>1, <3>1, <3>2, <3>3
  <2>2. QED
    BY <2>1
<1>7. Eq(h)
  <2> HIDE DEF Step
  <2>2. \A from, to \in b .. e : Step(h, from, to) = Value(from, to)
    <3> HIDE DEF h
    <3>1. QED
      BY <1>5, <1>6
  <2>3. \A range \in D : Step(h, range[1], range[2]) = Value(range[1], range[2])
    BY <2>2
  <2>4. QED
    BY <2>3
<1> HIDE DEF h
<1>8. PICK g : Eq(g) /\ SumRange(p, b, e) = g[<<b, e>>]
  <2>1. PICK g : g = CHOOSE f : Eq(f)
    OBVIOUS
  <2>2. Eq(g)
    BY <1>7, <2>1
  <2>3. SumRange(p, b, e) = g[<<b, e>>]
    BY <2>1 DEF SumRange
  <2>4. QED
    BY <2>2, <2>3
<1>9. \A from, to \in b .. e : g[<<from, to>>] = Step(g, from, to)
  <2> HIDE DEF Step
  <2>1. QED
    BY <1>8
<1> DEFINE S == {k \in Nat : \A from, to \in b .. e : to - from <= k => g[<<from, to>>] = Value(from, to)}
<1>10. ASSUME NEW k \in Nat, \A j \in 0 .. k - 1 : j \in S PROVE k \in S
  <2>1. SUFFICES ASSUME NEW from \in b .. e, NEW to \in b .. e, to - from <= k
                 PROVE  g[<<from, to>>] = Value(from, to)
    OBVIOUS
  <2>2. CASE from >= to
    BY <1>9, <2>2 DEF Value
  <2>3. CASE to - from = 1
    <3>1. ~(from >= to)
      BY <1>1, <2>3
    <3>2. QED
      BY <1>4, <1>9, <2>3, <3>1
  <2>4. CASE to - from > 1
    <3>1. ~(from >= to) /\ to - from # 1
      BY <1>1, <2>4
    <3>2. PICK mid : mid = from + (to - from) \div 2
      OBVIOUS
    <3>3. mid \in b .. e /\ Plus(Value(from, mid), Value(mid, to)) = Value(from, to) /\ from < mid /\ mid < to
      BY <1>3, <2>4, <3>2
    <3>4. k - 1 \in 0 .. k - 1 /\ mid - from <= k - 1 /\ to - mid <= k - 1
      BY <1>1, <2>1, <2>4, <3>3
    <3>5. g[<<from, mid>>] = Value(from, mid) /\ g[<<mid, to>>] = Value(mid, to)
      BY <1>10, <3>3, <3>4
    <3>6. g[<<from, to>>] = Plus(g[<<from, mid>>], g[<<mid, to>>])
      BY <1>9, <3>1, <3>2
    <3>7. QED
      BY <3>3, <3>5, <3>6
  <2>5. QED
    BY <1>1, <2>2, <2>3, <2>4
<1> HIDE DEF S
<1>11. e - b \in S
  BY <1>1, <1>10, StrongInduction
<1>12. b \in b .. e /\ e \in b .. e
  BY <1>1
<1>13. g[<<b, e>>] = Value(b, e)
  BY <1>1, <1>11, <1>12 DEF S
<1>14. C[b] \in Nat /\ C[e] \in Nat
  BY <1>2, <1>12
<1>15. Value(b, e) = C[e] - C[b]
  BY <1>1, <1>14 DEF Value
<1>16. QED
  BY <1>8, <1>13, <1>15

LEMMA DivideParts ==
  ASSUME NEW k \in Nat, NEW len \in Nat \ {0}
  PROVE  k \div len \in Nat /\ len * (k \div len) <= k /\ k < len * (k \div len) + len
OBVIOUS

LEMMA HalfParts ==
  ASSUME NEW k \in Nat, NEW len \in Nat \ {0}
  PROVE  \/ len * (k \div len) = 2 * len * (k \div (2 * len))
         \/ len * (k \div len) = 2 * len * (k \div (2 * len)) + len
<1>1. PICK q, r : q = k \div len /\ r = k \div (2 * len)
  OBVIOUS
<1>2. 2 * len \in Nat \ {0}
  OBVIOUS
<1>3. q \in Nat /\ len * q <= k /\ k < len * q + len
  BY <1>1, DivideParts
<1>4. r \in Nat /\ 2 * len * r <= k /\ k < 2 * len * r + 2 * len
  BY <1>1, <1>2, DivideParts
<1>5. PICK d \in Int : d = q - 2 * r
  BY <1>3, <1>4
<1>6. len * d = len * q - 2 * len * r /\ len * d \in Int
  BY <1>3, <1>4, <1>5
<1>7. len * d < 2 * len /\ len * d > 0 - len
  BY <1>3, <1>4, <1>6
<1>8. d = 0 \/ d = 1
  <2>1. ASSUME d >= 2 PROVE FALSE
    <3>1. len * d >= len * 2
      BY <2>1
    <3>2. QED
      BY <1>7, <3>1
  <2>2. ASSUME d <= -1 PROVE FALSE
    <3>1. len * d <= len * (-1)
      BY <2>2
    <3>2. QED
      BY <1>7, <3>1
  <2>3. QED
    BY <2>1, <2>2
<1>9. len * d = 0 \/ len * d = len
  BY <1>8
<1>10. len * q \in Int /\ 2 * len * r \in Int
  BY <1>3, <1>4
<1>11. len * q = 2 * len * r \/ len * q = 2 * len * r + len
  BY <1>6, <1>9, <1>10
<1>12. QED
  BY <1>1, <1>11

\* The sums in front of each address of a segment, on the way down the tree.
LEMMA ScanExact ==
  ASSUME NEW p, NEW n, NEW C, Exactly(p, n, C), NEW b \in 0 .. n, NEW m \in Nat, b + m <= n,
         NEW i \in b .. b + m - 1
  PROVE  ExclusiveScan(p, b, m, i) = C[i] - C[b]
<1> DEFINE Start(len) == b + len * ((i - b) \div len)
           Step(g, len) ==
             LET from == b + 2 * len * ((i - b) \div (2 * len))
                 mid == from + len
             IN IF len >= m THEN 0
                ELSE IF i < mid THEN g[2 * len]
                ELSE Plus(g[2 * len], SumRange(p, from, mid))
           Eq(g) == g = [len \in 1 .. 2 * m |-> Step(g, len)]
           Value(len) == C[Start(len)] - C[b]
           h == [len \in 1 .. 2 * m |-> Value(len)]
<1>1. /\ n \in Nat /\ ExactSums /\ b \in Nat /\ i \in Nat /\ b <= i /\ i < b + m /\ m >= 1
  BY DEF Exactly, Summed
<1>2. \A x \in 0 .. n : C[x] \in Nat /\ C[x] <= MaxSum
  BY SumsFit
<1> DEFINE Low(len) == len * ((i - b) \div len)
<1>3. ASSUME NEW len \in Nat \ {0}
      PROVE  /\ Low(len) \in Nat /\ Low(len) <= i - b /\ i - b < Low(len) + len
             /\ Low(len) = Low(2 * len) \/ Low(len) = Low(2 * len) + len
  <2>1. i - b \in Nat
    BY <1>1
  <2>2. PICK q : q = (i - b) \div len
    OBVIOUS
  <2>3. q \in Nat /\ len * q <= i - b /\ i - b < len * q + len
    BY <2>1, <2>2, DivideParts
  <2>4. len * q \in Nat
    BY <2>3
  <2>5. QED
    BY <2>1, <2>2, <2>3, <2>4, HalfParts
<1>4. ASSUME NEW len \in Nat \ {0}, len >= m PROVE Low(len) = 0
  <2>1. PICK q : q = (i - b) \div len
    OBVIOUS
  <2>2. i - b \in Nat /\ i - b < len
    BY <1>1, <1>4
  <2>3. q \in Nat /\ len * q <= i - b
    BY <2>1, <2>2, DivideParts
  <2>4. q = 0
    <3>1. ASSUME q >= 1 PROVE FALSE
      <4>1. len * q >= len
        BY <2>3, <3>1
      <4>2. QED
        BY <2>2, <2>3, <4>1
    <3>2. QED
      BY <2>3, <3>1
  <2>5. QED
    BY <2>1, <2>4
<1> HIDE DEF Low
<1>5. \A len : Start(len) = b + Low(len)
  BY DEF Low
<1> HIDE DEF Start
<1>6. ASSUME NEW len \in Nat \ {0}
      PROVE  Start(len) \in 0 .. n /\ Start(len) \in b .. i /\ i < Start(len) + len
  BY <1>1, <1>3, <1>5
<1>7. ASSUME NEW len \in 1 .. 2 * m, NEW g, len < m => g[2 * len] = Value(2 * len)
      PROVE  Step(g, len) = Value(len)
  <2>1. len \in Nat \ {0} /\ 2 * len \in Nat \ {0} /\ b \in 0 .. n
    BY <1>1
  <2>2. CASE len >= m
    <3>1. Start(len) = b
      BY <1>1, <1>4, <1>5, <2>1, <2>2
    <3>2. C[b] \in Nat
      BY <1>2, <2>1
    <3>3. Value(len) = 0
      BY <3>1, <3>2
    <3>4. QED
      BY <2>2, <3>3
  <2>3. CASE len < m
    <3>1. ~(len >= m) /\ g[2 * len] = Value(2 * len)
      BY <1>1, <1>7, <2>1, <2>3
    <3>2. PICK from, mid : from = Start(2 * len) /\ mid = from + len
      OBVIOUS
    <3>3. from = b + 2 * len * ((i - b) \div (2 * len))
      BY <3>2 DEF Start
    <3>4. from \in 0 .. n /\ from \in b .. i /\ i < from + 2 * len
      BY <1>6, <2>1, <3>2
    <3>5. Start(len) = from \/ Start(len) = mid
      BY <1>1, <1>3, <1>5, <2>1, <3>2
    <3>6. Start(len) \in b .. i /\ i < Start(len) + len
      BY <1>6, <2>1
    <3>7. CASE i < mid
      <4>1. Start(len) = from
        BY <1>1, <2>1, <3>2, <3>4, <3>5, <3>6, <3>7
      <4>2. Step(g, len) = g[2 * len]
        BY <3>1, <3>2, <3>3, <3>7
      <4>3. QED
        BY <3>1, <3>2, <4>1, <4>2
    <3>8. CASE ~(i < mid)
      <4>1. Start(len) = mid /\ mid \in 0 .. n /\ from <= mid
        BY <1>1, <2>1, <3>2, <3>4, <3>5, <3>6, <3>8
      <4>2. Step(g, len) = Plus(g[2 * len], SumRange(p, from, mid))
        BY <3>1, <3>2, <3>3, <3>8
      <4>3. SumRange(p, from, mid) = C[mid] - C[from]
        BY <3>4, <4>1, SumRangeExact
      <4>4. /\ C[b] \in Nat /\ C[from] \in Nat /\ C[mid] \in Nat /\ C[mid] <= MaxSum
        BY <1>2, <2>1, <3>4, <4>1
      <4>5. C[b] <= C[from] /\ C[from] <= C[mid]
        BY <1>1, <2>1, <3>4, <4>1, SumsGrow DEF Exactly
      <4>6. PICK x, y : x = C[from] - C[b] /\ y = C[mid] - C[from]
        OBVIOUS
      <4>7. x \in Nat /\ y \in Nat /\ x + y <= MaxSum /\ x + y = C[mid] - C[b]
        <5>1. MaxSum \in Nat
          BY <1>1 DEF ExactSums
        <5>2. QED
          BY <4>4, <4>5, <4>6, <5>1
      <4>8. Plus(x, y) = x + y
        BY <1>1, <4>7, PlusExact
      <4>9. Step(g, len) = Plus(x, y)
        BY <3>1, <3>2, <4>2, <4>3, <4>6
      <4>10. QED
        BY <4>1, <4>7, <4>8, <4>9
    <3>9. QED
      BY <3>7, <3>8
  <2>4. QED
    BY <1>1, <2>1, <2>2, <2>3
<1> HIDE DEF Value, Step
<1>8. Eq(h)
  <2>1. \A len \in 1 .. 2 * m : h[len] = Value(len)
    OBVIOUS
  <2>2. \A len \in 1 .. 2 * m : len < m => 2 * len \in 1 .. 2 * m
    BY <1>1
  <2> HIDE DEF h
  <2>3. \A len \in 1 .. 2 * m : Step(h, len) = Value(len)
    BY <1>7, <2>1, <2>2
  <2>4. QED
    BY <2>3 DEF h
<1> HIDE DEF h
<1>9. PICK g : Eq(g) /\ ExclusiveScan(p, b, m, i) = g[1]
  <2>1. PICK g : g = CHOOSE f : Eq(f)
    OBVIOUS
  <2>2. Eq(g)
    BY <1>8, <2>1
  <2>3. ExclusiveScan(p, b, m, i) = g[1]
    BY <2>1 DEF ExclusiveScan, Step
  <2>4. QED
    BY <2>2, <2>3
<1>10. \A len \in 1 .. 2 * m : g[len] = Step(g, len)
  BY <1>9
<1> DEFINE S == {k \in Nat : \A len \in 1 .. 2 * m : 2 * m - len <= k => g[len] = Value(len)}
<1>11. ASSUME NEW k \in Nat, \A j \in 0 .. k - 1 : j \in S PROVE k \in S
  <2>1. SUFFICES ASSUME NEW len \in 1 .. 2 * m, 2 * m - len <= k PROVE g[len] = Value(len)
    OBVIOUS
  <2>2. ASSUME len < m PROVE g[2 * len] = Value(2 * len)
    <3>1. 2 * len \in 1 .. 2 * m /\ k - 1 \in 0 .. k - 1 /\ 2 * m - 2 * len <= k - 1
      BY <1>1, <2>1, <2>2
    <3>2. QED
      BY <1>11, <3>1
  <2>3. Step(g, len) = Value(len)
    BY <1>7, <2>2
  <2>4. QED
    BY <1>10, <2>3
<1> HIDE DEF S
<1>12. 2 * m - 1 \in S
  <2>1. 2 * m - 1 \in Nat
    BY <1>1
  <2>2. QED
    BY <1>11, <2>1, StrongInduction
<1>13. g[1] = Value(1)
  <2>1. 1 \in 1 .. 2 * m /\ 2 * m - 1 <= 2 * m - 1
    BY <1>1
  <2>2. QED
    BY <1>12, <2>1 DEF S
<1>14. Start(1) = i
  <2>1. 1 \in Nat \ {0}
    OBVIOUS
  <2>2. Start(1) \in b .. i /\ i < Start(1) + 1
    BY <1>6, <2>1
  <2>3. QED
    BY <1>1, <2>2
<1>15. QED
  BY <1>9, <1>13, <1>14 DEF Value

-----------------------------------------------------------------------------
(***************************************************************************)
(* The binary counter.  g[l] is what its levels from l upward add up to.    *)
(***************************************************************************)
Tally(levels, g) ==
  /\ \E M \in Nat : DOMAIN levels \subseteq 0 .. M
  /\ \A l \in Nat : g[l] \in Nat
  /\ \A l \in DOMAIN levels : levels[l] \in Nat
  /\ \A l \in Nat : g[l] = g[l + 1] + (IF l \in DOMAIN levels THEN levels[l] ELSE 0)
  /\ \A l \in Nat : (\A a \in DOMAIN levels : a < l) => g[l] = 0

LEMMA TallyFalls ==
  ASSUME NEW levels, NEW g, Tally(levels, g), NEW l \in Nat
  PROVE  g[l] \in Nat /\ g[l] <= g[0]
<1> DEFINE S == {k \in Nat : g[k] <= g[0]}
<1>1. \A k \in Nat : g[k] \in Nat
  BY DEF Tally
<1>2. 0 \in S
  BY <1>1
<1>3. ASSUME NEW k \in Nat, k \in S PROVE k + 1 \in S
  <2>1. PICK a : a = IF k \in DOMAIN levels THEN levels[k] ELSE 0
    OBVIOUS
  <2>2. a \in Nat /\ g[k] = g[k + 1] + a
    BY <2>1 DEF Tally
  <2>3. g[k] \in Nat /\ g[k + 1] \in Nat /\ g[0] \in Nat
    BY <1>1
  <2>4. QED
    BY <1>3, <2>2, <2>3
<1> HIDE DEF S
<1>4. l \in S
  BY <1>2, <1>3, NaturalInduction
<1>5. QED
  BY <1>1, <1>4 DEF S

LEMMA TallyOfNone == Tally(NoLevels, [l \in Nat |-> 0])
<1>1. DOMAIN NoLevels = {} /\ {} \subseteq 0 .. 0
  BY DEF NoLevels
<1> HIDE DEF NoLevels
<1>2. QED
  BY <1>1 DEF Tally

LEMMA TopLevel ==
  ASSUME NEW T, NEW M \in Nat, T \subseteq 0 .. M
  PROVE  /\ Max(T \cup {0}) \in Nat
         /\ \A a \in T : a <= Max(T \cup {0})
<1> DEFINE U == T \cup {0}
           Upper == {k \in Nat : \A j \in U : j <= k}
<1>1. M \in Upper /\ Upper \in SUBSET Nat /\ U \subseteq Nat
  OBVIOUS
<1>2. PICK x \in Upper : \A k \in Upper : x <= k
  BY <1>1, LeastNatural
<1>3. x \in U
  <2>1. SUFFICES ASSUME x \notin U PROVE FALSE
    OBVIOUS
  <2>2. x # 0
    BY <2>1
  <2>3. x - 1 \in Nat /\ x \in Nat
    BY <1>1, <2>2
  <2>4. \A j \in U : j <= x - 1
    BY <1>1, <2>1, <2>3
  <2>5. x - 1 \in Upper
    BY <2>3, <2>4
  <2>6. QED
    BY <1>2, <2>3, <2>5
<1>4. \E y \in U : \A k \in U : y >= k
  BY <1>3
<1>5. Max(U) \in U /\ \A k \in U : Max(U) >= k
  <2> HIDE DEF U
  <2>1. QED
    BY <1>4 DEF Max
<1>6. QED
  BY <1>1, <1>5

LEMMA PrefixExact ==
  ASSUME ExactSums, NEW levels, NEW g, Tally(levels, g), g[0] <= MaxSum
  PROVE  Prefix(levels) = g[0]
<1> DEFINE D == DOMAIN levels
           top == Max(D \cup {0})
           Step(f, l) == IF l > top THEN 0
                         ELSE IF l \in D THEN Plus(f[l + 1], levels[l]) ELSE f[l + 1]
           Eq(f) == f = [l \in 0 .. top + 1 |-> Step(f, l)]
           h == [l \in 0 .. top + 1 |-> g[l]]
<1>1. top \in Nat /\ \A a \in D : a <= top
  BY TopLevel DEF Tally
<1> HIDE DEF top
<1>2. \A l \in Nat : g[l] \in Nat /\ g[l] <= MaxSum
  <2>1. MaxSum \in Nat
    BY DEF ExactSums
  <2>2. \A l \in Nat : g[l] \in Nat /\ g[l] <= g[0]
    BY TallyFalls
  <2>3. 0 \in Nat
    OBVIOUS
  <2>4. QED
    BY <2>1, <2>2, <2>3
<1>3. ASSUME NEW l \in 0 .. top + 1, NEW f, l <= top => f[l + 1] = g[l + 1]
      PROVE  Step(f, l) = g[l]
  <2>1. CASE l > top
    <3>1. \A a \in D : a < l
      <4>1. ASSUME NEW a \in D PROVE a < l
        <5>1. a \in Nat
          BY DEF Tally
        <5>2. QED
          BY <1>1, <2>1, <5>1
      <4>2. QED
        BY <4>1
    <3>2. g[l] = 0
      BY <1>1, <3>1 DEF Tally
    <3>3. QED
      BY <2>1, <3>2
  <2>2. CASE ~(l > top)
    <3>1. l \in Nat /\ l + 1 \in Nat /\ f[l + 1] = g[l + 1]
      BY <1>1, <1>3, <2>2
    <3>2. g[l] \in Nat /\ g[l + 1] \in Nat /\ g[l] <= MaxSum
      BY <1>2, <3>1
    <3>3. CASE l \in D
      <4>1. levels[l] \in Nat /\ g[l] = g[l + 1] + levels[l]
        BY <3>1, <3>3 DEF Tally
      <4>2. Plus(g[l + 1], levels[l]) = g[l]
        BY <3>2, <4>1, PlusExact
      <4>3. QED
        BY <2>2, <3>1, <3>3, <4>2
    <3>4. CASE l \notin D
      <4>1. g[l] = g[l + 1]
        BY <3>1, <3>2, <3>4 DEF Tally
      <4>2. QED
        BY <2>2, <3>1, <3>4, <4>1
    <3>5. QED
      BY <3>3, <3>4
  <2>3. QED
    BY <2>1, <2>2
<1> HIDE DEF Step
<1>4. Eq(h)
  <2>1. \A l \in 0 .. top + 1 : h[l] = g[l]
    OBVIOUS
  <2>2. \A l \in 0 .. top + 1 : l <= top => l + 1 \in 0 .. top + 1
    BY <1>1
  <2> HIDE DEF h
  <2>3. \A l \in 0 .. top + 1 : Step(h, l) = g[l]
    BY <1>3, <2>1, <2>2
  <2>4. QED
    BY <2>3 DEF h
<1> HIDE DEF h
<1>5. PICK f : Eq(f) /\ Prefix(levels) = f[0]
  <2>1. PICK f : f = CHOOSE e : Eq(e)
    OBVIOUS
  <2>2. Eq(f)
    BY <1>4, <2>1
  <2>3. Prefix(levels) = f[0]
    BY <2>1 DEF Prefix, Step, top
  <2>4. QED
    BY <2>2, <2>3
<1>6. \A l \in 0 .. top + 1 : f[l] = Step(f, l)
  BY <1>5
<1> DEFINE S == {k \in Nat : \A l \in 0 .. top + 1 : top + 1 - l <= k => f[l] = g[l]}
<1>7. ASSUME NEW k \in Nat, \A j \in 0 .. k - 1 : j \in S PROVE k \in S
  <2>1. SUFFICES ASSUME NEW l \in 0 .. top + 1, top + 1 - l <= k PROVE f[l] = g[l]
    OBVIOUS
  <2>2. ASSUME l <= top PROVE f[l + 1] = g[l + 1]
    <3>1. l + 1 \in 0 .. top + 1 /\ k - 1 \in 0 .. k - 1 /\ top + 1 - (l + 1) <= k - 1
      BY <1>1, <2>1, <2>2
    <3>2. QED
      BY <1>7, <3>1
  <2>3. Step(f, l) = g[l]
    BY <1>3, <2>2
  <2>4. QED
    BY <1>6, <2>3
<1> HIDE DEF S
<1>8. top + 1 \in S
  <2>1. top + 1 \in Nat
    BY <1>1
  <2>2. QED
    BY <1>7, <2>1, StrongInduction
<1>9. 0 \in 0 .. top + 1 /\ top + 1 - 0 <= top + 1
  BY <1>1
<1>10. QED
  BY <1>5, <1>8, <1>9 DEF S

\* The level that takes the carry: the lowest that is not active.
LEMMA FreeLevel ==
  ASSUME NEW D, NEW M \in Nat, D \subseteq 0 .. M,
         NEW k, k = CHOOSE l \in 0 .. Cardinality(D) : l \notin D /\ 0 .. l - 1 \subseteq D
  PROVE  k \in Nat /\ k \notin D /\ \A a \in 0 .. k - 1 : a \in D
<1> DEFINE Free == {l \in Nat : l \notin D}
<1>1. M + 1 \in Free /\ Free \in SUBSET Nat
  OBVIOUS
<1>2. PICK l \in Free : \A j \in Free : l <= j
  BY <1>1, LeastNatural
<1>3. l \in Nat /\ l \notin D /\ 0 .. l - 1 \subseteq D
  BY <1>2
<1>4. IsFiniteSet(0 .. M) /\ Cardinality(0 .. l - 1) = l
  BY <1>3, FS_Interval
<1>5. IsFiniteSet(D)
  BY <1>4, FS_Subset
<1>6. Cardinality(0 .. l - 1) <= Cardinality(D) /\ Cardinality(D) \in Nat
  BY <1>3, <1>5, FS_Subset, FS_CardinalityType
<1>7. l \in 0 .. Cardinality(D)
  BY <1>3, <1>4, <1>6
<1>8. k \in 0 .. Cardinality(D) /\ k \notin D /\ 0 .. k - 1 \subseteq D
  BY <1>3, <1>7
<1>9. QED
  BY <1>6, <1>8

LEMMA PushExact ==
  ASSUME ExactSums, NEW levels, NEW g, Tally(levels, g), NEW s \in Nat, g[0] + s <= MaxSum
  PROVE  \E f : Tally(Push(levels, s), f) /\ f[0] = g[0] + s
<1> DEFINE D == DOMAIN levels
           k == CHOOSE l \in 0 .. Cardinality(D) : l \notin D /\ 0 .. l - 1 \subseteq D
           Step(c, l) == IF l = 0 THEN s ELSE Plus(levels[l - 1], c[l - 1])
           Eq(c) == c = [l \in 0 .. k |-> Step(c, l)]
           Value(l) == s + (g[0] - g[l])
           h == [l \in 0 .. k |-> Value(l)]
<1>1. PICK M \in Nat : D \subseteq 0 .. M
  BY DEF Tally
<1>2. k \in Nat /\ k \notin D /\ \A a \in 0 .. k - 1 : a \in D
  BY <1>1, FreeLevel
<1> HIDE DEF k
<1>3. \A l \in Nat : g[l] \in Nat /\ g[l] <= g[0]
  BY TallyFalls
<1>4. MaxSum \in Nat /\ g[0] \in Nat
  BY <1>3 DEF ExactSums
<1>5. ASSUME NEW l \in 0 .. k, NEW c, l # 0 => c[l - 1] = Value(l - 1)
      PROVE  Step(c, l) = Value(l)
  <2>1. CASE l = 0
    BY <1>4, <2>1
  <2>2. CASE l # 0
    <3>1. PICK j : j = l - 1
      OBVIOUS
    <3>2. j \in 0 .. k - 1 /\ l = j + 1 /\ j \in Nat /\ l \in Nat
      BY <1>2, <2>2, <3>1
    <3>3. j \in D
      BY <1>2, <3>2
    <3>4. levels[j] \in Nat /\ g[j] = g[j + 1] + levels[j]
      BY <3>2, <3>3 DEF Tally
    <3>5. g[j] \in Nat /\ g[l] \in Nat /\ g[j] <= g[0] /\ g[l] <= g[0] /\ g[j] = g[l] + levels[j]
      BY <1>3, <3>2, <3>4
    <3>6. PICK v : v = Value(j)
      OBVIOUS
    <3>7. v \in Nat /\ levels[j] + v = Value(l) /\ levels[j] + v <= MaxSum
      BY <1>4, <3>4, <3>5, <3>6
    <3>8. Plus(levels[j], v) = levels[j] + v
      BY <3>4, <3>7, PlusExact
    <3>9. Step(c, l) = Plus(levels[j], c[j]) /\ c[j] = v
      BY <1>5, <2>2, <3>1, <3>6
    <3>10. QED
      BY <3>7, <3>8, <3>9
  <2>3. QED
    BY <2>1, <2>2
<1> HIDE DEF Step, Value
<1>6. Eq(h)
  <2>1. \A l \in 0 .. k : h[l] = Value(l)
    OBVIOUS
  <2>2. \A l \in 0 .. k : l # 0 => l - 1 \in 0 .. k
    BY <1>2
  <2> HIDE DEF h
  <2>3. \A l \in 0 .. k : Step(h, l) = Value(l)
    BY <1>5, <2>1, <2>2
  <2>4. QED
    BY <2>3 DEF h
<1> HIDE DEF h
<1>7. PICK c : /\ Eq(c)
               /\ Push(levels, s) = [l \in {k} \cup {a \in D : a > k} |-> IF l = k THEN c[k] ELSE levels[l]]
  <2>1. PICK c : c = CHOOSE e : Eq(e)
    OBVIOUS
  <2>2. Eq(c)
    BY <1>6, <2>1
  <2>3. Push(levels, s) = [l \in {k} \cup {a \in D : a > k} |-> IF l = k THEN c[k] ELSE levels[l]]
    BY <2>1 DEF Push, Step, k
  <2>4. QED
    BY <2>2, <2>3
<1>8. \A l \in 0 .. k : c[l] = Step(c, l)
  BY <1>7
<1> DEFINE S == {l \in Nat : l <= k => c[l] = Value(l)}
<1>9. 0 \in S
  <2>1. 0 \in 0 .. k
    BY <1>2
  <2>2. Step(c, 0) = Value(0)
    BY <1>5, <2>1
  <2>3. QED
    BY <1>8, <2>1, <2>2
<1>10. ASSUME NEW l \in Nat, l \in S PROVE l + 1 \in S
  <2>1. SUFFICES ASSUME l + 1 <= k PROVE c[l + 1] = Value(l + 1)
    OBVIOUS
  <2>2. l + 1 \in 0 .. k /\ l <= k /\ (l + 1) - 1 = l
    BY <1>2, <2>1
  <2>3. c[l] = Value(l)
    BY <1>10, <2>2
  <2>4. Step(c, l + 1) = Value(l + 1)
    BY <1>5, <2>2, <2>3
  <2>5. QED
    BY <1>8, <2>2, <2>4
<1> HIDE DEF S
<1>11. c[k] = s + (g[0] - g[k])
  <2>1. k \in S
    BY <1>2, <1>9, <1>10, NaturalInduction
  <2>2. QED
    BY <1>2, <2>1 DEF S, Value
<1> DEFINE L == Push(levels, s)
           E == {k} \cup {a \in D : a > k}
           f == [l \in Nat |-> IF l <= k THEN g[0] + s ELSE g[l]]
<1>12. DOMAIN L = E /\ L[k] = c[k] /\ \A l \in E : l # k => L[l] = levels[l]
  BY <1>7
<1>13. \A l \in Nat : f[l] = IF l <= k THEN g[0] + s ELSE g[l]
  OBVIOUS
<1>14. g[k] = g[k + 1]
  <2>1. g[k] = g[k + 1] + 0
    BY <1>2 DEF Tally
  <2>2. QED
    BY <1>2, <1>3, <2>1
<1> HIDE DEF L, f
<1>15. DOMAIN L \subseteq 0 .. M + k /\ M + k \in Nat
  BY <1>1, <1>2, <1>12
<1>16. \A l \in Nat : f[l] \in Nat
  BY <1>3, <1>4, <1>13
<1>17. \A l \in DOMAIN L : L[l] \in Nat
  <2>1. c[k] \in Nat
    BY <1>2, <1>3, <1>4, <1>11
  <2>2. \A l \in D : levels[l] \in Nat
    BY DEF Tally
  <2>3. QED
    BY <1>12, <2>1, <2>2
<1>18. ASSUME NEW l \in Nat
       PROVE  f[l] = f[l + 1] + (IF l \in DOMAIN L THEN L[l] ELSE 0)
  <2>1. g[l] \in Nat /\ g[l + 1] \in Nat /\ g[k + 1] \in Nat /\ g[k + 1] <= g[0]
    BY <1>2, <1>3
  <2>2. CASE l < k
    <3>1. l \notin DOMAIN L /\ l <= k /\ l + 1 <= k
      BY <1>2, <1>12, <2>2
    <3>2. QED
      BY <1>4, <1>13, <3>1
  <2>3. CASE l = k
    <3>1. l \in DOMAIN L /\ L[l] = c[k] /\ l <= k /\ ~(l + 1 <= k)
      BY <1>2, <1>12, <2>3
    <3>2. f[l] = g[0] + s /\ f[l + 1] = g[k + 1]
      BY <1>13, <2>3, <3>1
    <3>3. QED
      BY <1>4, <1>11, <1>14, <2>1, <3>1, <3>2
  <2>4. CASE l > k
    <3>1. ~(l <= k) /\ ~(l + 1 <= k) /\ l # k
      BY <1>2, <2>4
    <3>2. f[l] = g[l] /\ f[l + 1] = g[l + 1]
      BY <1>13, <3>1
    <3>3. (l \in DOMAIN L <=> l \in D) /\ (l \in DOMAIN L => L[l] = levels[l])
      BY <1>12, <2>4, <3>1
    <3>4. g[l] = g[l + 1] + (IF l \in D THEN levels[l] ELSE 0)
      BY DEF Tally
    <3>5. QED
      BY <3>2, <3>3, <3>4
  <2>5. QED
    BY <1>2, <2>2, <2>3, <2>4
<1>19. ASSUME NEW l \in Nat, \A a \in DOMAIN L : a < l PROVE f[l] = 0
  <2>1. k < l /\ ~(l <= k)
    BY <1>2, <1>12, <1>19
  <2>2. ASSUME NEW a \in D PROVE a < l
    <3>1. a \in Nat
      BY <1>1
    <3>2. CASE a > k
      BY <1>12, <1>19, <3>2
    <3>3. CASE ~(a > k)
      BY <1>2, <2>1, <3>1, <3>3
    <3>4. QED
      BY <3>2, <3>3
  <2>3. g[l] = 0
    BY <2>2 DEF Tally
  <2>4. QED
    BY <1>13, <2>1, <2>3
<1>20. Tally(L, f)
  BY <1>15, <1>16, <1>17, <1>18, <1>19 DEF Tally
<1>21. f[0] = g[0] + s
  BY <1>2, <1>13
<1>22. QED
  BY <1>20, <1>21 DEF L

-----------------------------------------------------------------------------
(* One segment: its sums, and the search among them.                        *)

LEMMA CdfExact ==
  ASSUME NEW p, NEW n, NEW C, Exactly(p, n, C), NEW seg \in 0 .. n, NEW m \in Nat, seg + m <= n,
         NEW i \in 0 .. m - 1
  PROVE  Cdf(p, seg, m, C[seg])[i] = C[seg + i + 1]
<1>1. n \in Nat /\ ExactSums
  BY DEF Exactly, Summed
<1>2. PICK j : j = seg + i
  OBVIOUS
<1>3. j \in seg .. seg + m - 1 /\ j \in 0 .. n - 1 /\ j \in 0 .. n /\ j + 1 \in 0 .. n /\ seg <= j
  BY <1>1, <1>2
<1>4. ExclusiveScan(p, seg, m, j) = C[j] - C[seg]
  BY <1>3, ScanExact
<1>5. p[j] \in Nat /\ C[j + 1] = C[j] + p[j]
  BY <1>3 DEF Exactly, Summed
<1>6. /\ C[seg] \in Nat /\ C[j] \in Nat /\ C[j] <= MaxSum /\ C[j + 1] <= MaxSum
  BY <1>3, SumsFit
<1>7. C[seg] <= C[j]
  BY <1>3, SumsGrow DEF Exactly
<1>8. PICK d : d = C[j] - C[seg]
  OBVIOUS
<1>9. d \in Nat /\ C[seg] + d = C[j]
  BY <1>6, <1>7, <1>8
<1>10. Plus(C[seg], d) = C[j]
  BY <1>1, <1>6, <1>9, PlusExact
<1>11. Plus(C[j], p[j]) = C[j + 1]
  BY <1>1, <1>5, <1>6, PlusExact
<1>12. Cdf(p, seg, m, C[seg])[i] = Plus(Plus(C[seg], ExclusiveScan(p, seg, m, j)), p[j])
  BY <1>2 DEF Cdf
<1>13. QED
  BY <1>2, <1>4, <1>8, <1>10, <1>11, <1>12

\* The segment in hand at seg: C is what lies in front of each address.
InHand(p, n, C, seg, cur) ==
  /\ cur.n \in Nat \ {0} /\ seg + cur.n <= n
  /\ cur.n = SegLen \/ (cur.n < SegLen /\ seg + cur.n = n)
  /\ cur.sum = C[seg + cur.n] - C[seg]
  /\ cur.tail = C[seg + cur.n]
  /\ \A i \in 0 .. cur.n - 1 : cur.cdf[i] = C[seg + i + 1]

LEMMA PreCdfExact ==
  ASSUME NEW p, NEW n, NEW C, Exactly(p, n, C), NEW seg \in 0 .. n - 1
  PROVE  InHand(p, n, C, seg, PreCdf(p, seg, C[seg]))
<1>1. n \in Nat /\ ExactSums /\ Size(p) = n /\ SegLen \in Nat \ {0}
  BY BlocksAssumption DEF Exactly, Summed
<1>2. PICK m : m = IF Size(p) - seg < SegLen THEN Size(p) - seg ELSE SegLen
  OBVIOUS
<1>3. /\ m \in Nat \ {0} /\ seg + m <= n /\ seg \in 0 .. n /\ seg + m \in 0 .. n /\ seg <= seg + m
      /\ m = SegLen \/ (m < SegLen /\ seg + m = n)
  BY <1>1, <1>2
<1>4. SumRange(p, seg, seg + m) = C[seg + m] - C[seg]
  BY <1>3, SumRangeExact
<1>5. /\ C[seg] \in Nat /\ C[seg + m] \in Nat /\ C[seg + m] <= MaxSum
  BY <1>3, SumsFit
<1>6. C[seg] <= C[seg + m]
  BY <1>3, SumsGrow DEF Exactly
<1>7. PICK d : d = C[seg + m] - C[seg]
  OBVIOUS
<1>8. d \in Nat /\ C[seg] + d = C[seg + m]
  BY <1>5, <1>6, <1>7
<1>9. Plus(C[seg], d) = C[seg + m]
  BY <1>1, <1>5, <1>8, PlusExact
<1>10. \A i \in 0 .. m - 1 : Cdf(p, seg, m, C[seg])[i] = C[seg + i + 1]
  BY <1>3, CdfExact
<1>11. PreCdf(p, seg, C[seg]) =
         [cdf |-> Cdf(p, seg, m, C[seg]), sum |-> d, tail |-> C[seg + m], n |-> m]
  BY <1>2, <1>4, <1>7, <1>9 DEF PreCdf
<1>12. QED
  BY <1>3, <1>7, <1>10, <1>11 DEF InHand

\* tau falls into the share of row.
Falls(C, tau, row) == C[row] <= tau /\ tau < C[row + 1]

LEMMA ResolveExact ==
  ASSUME NEW p, NEW n, NEW C, Exactly(p, n, C), NEW seg \in 0 .. n - 1, NEW cur,
         InHand(p, n, C, seg, cur), NEW tau \in Nat, C[seg] <= tau, tau < cur.tail
  PROVE  LET row == Resolve(seg, cur.cdf, cur.n, tau)
         IN row \in 0 .. n - 1 /\ Falls(C, tau, row)
<1>1. PICK m, cdf : m = cur.n /\ cdf = cur.cdf
  OBVIOUS
<1>2. /\ n \in Nat /\ m \in Nat \ {0} /\ seg + m <= n /\ tau < C[seg + m]
      /\ \A i \in 0 .. m - 1 : cdf[i] = C[seg + i + 1]
  BY <1>1 DEF InHand, Exactly, Summed
<1> DEFINE Above == {k \in Nat : k < m /\ tau < C[seg + k + 1]}
<1>3. PICK u \in Above : \A k \in Above : u <= k
  <2>1. m - 1 \in Nat /\ m - 1 < m /\ seg + (m - 1) + 1 = seg + m
    BY <1>2
  <2>2. m - 1 \in Above
    BY <1>2, <2>1
  <2>3. Above \in SUBSET Nat
    OBVIOUS
  <2>4. QED
    BY <2>2, <2>3, LeastNatural
<1>4. u \in Nat /\ u < m /\ tau < C[seg + u + 1]
  BY <1>3
<1>5. ASSUME NEW k \in 0 .. m - 1
      PROVE  tau < cdf[k] <=> u <= k
  <2>1. k \in Nat /\ k < m /\ cdf[k] = C[seg + k + 1]
    BY <1>2
  <2>2. ASSUME tau < cdf[k] PROVE u <= k
    BY <1>3, <2>1, <2>2
  <2>3. ASSUME u <= k PROVE tau < cdf[k]
    <3>1. PICK x, y : x = seg + u + 1 /\ y = seg + k + 1
      OBVIOUS
    <3>2. x \in 0 .. n /\ y \in 0 .. n /\ x <= y
      BY <1>2, <1>4, <2>1, <2>3, <3>1
    <3>3. C[x] \in Nat /\ C[y] \in Nat /\ C[x] <= C[y]
      BY <3>2, SumsGrow DEF Exactly
    <3>4. QED
      BY <1>4, <2>1, <3>1, <3>3
  <2>4. QED
    BY <2>2, <2>3
<1>6. C[seg + u] <= tau
  <2>1. CASE u = 0
    <3>1. seg + u = seg
      BY <2>1
    <3>2. QED
      BY <3>1
  <2>2. CASE u # 0
    <3>1. PICK k : k = u - 1
      OBVIOUS
    <3>2. k \in Nat /\ k < m /\ seg + k + 1 = seg + u /\ ~(u <= k)
      <4>1. u \in Nat /\ m \in Nat /\ seg \in Int /\ u < m
        BY <1>2, <1>4
      <4>2. QED
        BY <2>2, <3>1, <4>1
    <3>3. ~(tau < C[seg + u])
      BY <1>3, <3>2
    <3>4. seg + u \in 0 .. n
      BY <1>2, <1>4
    <3>5. C[seg + u] \in Nat
      BY <3>4, SumsFit
    <3>6. QED
      BY <3>3, <3>5
  <2>3. QED
    BY <2>1, <2>2
<1> HIDE DEF Above
<1> DEFINE D == (0 .. m) \X (0 .. m)
           Mid(first, last) == first + (last - first) \div 2
           Step(g, first, last) ==
             IF first >= last THEN first
             ELSE IF tau < cdf[Mid(first, last)] THEN g[<<first, Mid(first, last)>>]
             ELSE g[<<Mid(first, last) + 1, last>>]
           Eq(g) == g = [range \in D |-> Step(g, range[1], range[2])]
           Value(first, last) ==
             IF first >= last \/ u < first THEN first ELSE IF u > last THEN last ELSE u
           h == [range \in D |-> Value(range[1], range[2])]
<1>7. ASSUME NEW first \in 0 .. m, NEW last \in 0 .. m, first < last
      PROVE  LET mid == Mid(first, last) IN
             /\ mid \in 0 .. m - 1 /\ first <= mid /\ mid < last
             /\ mid \in 0 .. m /\ mid + 1 \in 0 .. m
             /\ u <= mid => Value(first, mid) = Value(first, last)
             /\ ~(u <= mid) => Value(mid + 1, last) = Value(first, last)
  <2>1. PICK mid : mid = Mid(first, last)
    OBVIOUS
  <2>2. mid \in 0 .. m - 1 /\ first <= mid /\ mid < last
    BY <1>2, <1>7, <2>1
  <2>3. u <= mid => Value(first, mid) = Value(first, last)
    BY <1>4, <1>7, <2>2
  <2>4. ~(u <= mid) => Value(mid + 1, last) = Value(first, last)
    BY <1>4, <1>7, <2>2
  <2>5. mid \in 0 .. m /\ mid + 1 \in 0 .. m
    BY <1>2, <2>2
  <2> HIDE DEF Value, Mid
  <2>6. QED
    BY <2>1, <2>2, <2>3, <2>4, <2>5
<1> HIDE DEF Mid
<1>8. ASSUME NEW first \in 0 .. m, NEW last \in 0 .. m, NEW g,
             first < last =>
               /\ g[<<first, Mid(first, last)>>] = Value(first, Mid(first, last))
               /\ g[<<Mid(first, last) + 1, last>>] = Value(Mid(first, last) + 1, last)
      PROVE  Step(g, first, last) = Value(first, last)
  <2>1. CASE first >= last
    BY <2>1
  <2>2. CASE ~(first >= last)
    <3>1. first < last
      BY <2>2
    <3>2. PICK mid : mid = Mid(first, last)
      OBVIOUS
    <3>3. /\ mid \in 0 .. m - 1
          /\ u <= mid => Value(first, mid) = Value(first, last)
          /\ ~(u <= mid) => Value(mid + 1, last) = Value(first, last)
      <4> HIDE DEF Value
      <4>1. QED
        BY <1>7, <3>1, <3>2
    <3> HIDE DEF Value
    <3>4. tau < cdf[mid] <=> u <= mid
      BY <1>5, <3>3
    <3>5. g[<<first, mid>>] = Value(first, mid) /\ g[<<mid + 1, last>>] = Value(mid + 1, last)
      BY <1>8, <3>1, <3>2
    <3>6. Step(g, first, last) = IF tau < cdf[mid] THEN g[<<first, mid>>] ELSE g[<<mid + 1, last>>]
      BY <2>2, <3>2
    <3>7. QED
      BY <3>3, <3>4, <3>5, <3>6
  <2>3. QED
    BY <2>1, <2>2
<1>9. \A first, last \in 0 .. m : h[<<first, last>>] = Value(first, last)
  OBVIOUS
<1>10. \A first, last \in 0 .. m : first < last => /\ Mid(first, last) \in 0 .. m
                                                   /\ Mid(first, last) + 1 \in 0 .. m
                                                   /\ first <= Mid(first, last) /\ Mid(first, last) < last
  <2> HIDE DEF Value
  <2>1. QED
    BY <1>7
<1> HIDE DEF Value, Step
<1>11. Eq(h)
  <2> HIDE DEF h
  <2>1. \A first, last \in 0 .. m : Step(h, first, last) = Value(first, last)
    BY <1>8, <1>9, <1>10
  <2>2. \A range \in D : Step(h, range[1], range[2]) = Value(range[1], range[2])
    BY <2>1
  <2>3. QED
    BY <2>2 DEF h
<1> HIDE DEF h
<1>12. PICK g : Eq(g) /\ Resolve(seg, cdf, m, tau) = seg + (IF g[<<0, m>>] = m THEN m - 1 ELSE g[<<0, m>>])
  <2>1. PICK g : g = CHOOSE f : Eq(f)
    OBVIOUS
  <2>2. Eq(g)
    BY <1>11, <2>1
  <2>3. Resolve(seg, cdf, m, tau) = seg + (IF g[<<0, m>>] = m THEN m - 1 ELSE g[<<0, m>>])
    BY <2>1 DEF Resolve, Step, Mid
  <2>4. QED
    BY <2>2, <2>3
<1>13. \A first, last \in 0 .. m : g[<<first, last>>] = Step(g, first, last)
  BY <1>12
<1> DEFINE S == {k \in Nat : \A first, last \in 0 .. m : last - first <= k => g[<<first, last>>] = Value(first, last)}
<1>14. ASSUME NEW k \in Nat, \A j \in 0 .. k - 1 : j \in S PROVE k \in S
  <2>1. SUFFICES ASSUME NEW first \in 0 .. m, NEW last \in 0 .. m, last - first <= k
                 PROVE  g[<<first, last>>] = Value(first, last)
    OBVIOUS
  <2>2. ASSUME first < last
        PROVE  /\ g[<<first, Mid(first, last)>>] = Value(first, Mid(first, last))
               /\ g[<<Mid(first, last) + 1, last>>] = Value(Mid(first, last) + 1, last)
    <3>1. PICK mid : mid = Mid(first, last)
      OBVIOUS
    <3>2. mid \in 0 .. m /\ mid + 1 \in 0 .. m /\ first <= mid /\ mid < last
      BY <1>10, <2>2, <3>1
    <3>3. k - 1 \in 0 .. k - 1 /\ mid - first <= k - 1 /\ last - (mid + 1) <= k - 1
      BY <1>2, <2>1, <2>2, <3>2
    <3>4. k - 1 \in S
      BY <1>14, <3>3
    <3>5. QED
      BY <3>1, <3>2, <3>3, <3>4
  <2>3. Step(g, first, last) = Value(first, last)
    BY <1>8, <2>2
  <2>4. QED
    BY <1>13, <2>3
<1> HIDE DEF S
<1>15. m \in S
  BY <1>2, <1>14, StrongInduction
<1>16. g[<<0, m>>] = Value(0, m)
  <2>1. 0 \in 0 .. m /\ m \in 0 .. m /\ m - 0 <= m
    BY <1>2
  <2>2. QED
    BY <1>15, <2>1 DEF S
<1>17. Value(0, m) = u
  BY <1>2, <1>4 DEF Value
<1>18. Resolve(seg, cdf, m, tau) = seg + u
  BY <1>2, <1>4, <1>12, <1>16, <1>17
<1>19. seg + u \in 0 .. n - 1
  BY <1>2, <1>4
<1>20. QED
  BY <1>1, <1>4, <1>6, <1>18, <1>19 DEF Falls

-----------------------------------------------------------------------------
(***************************************************************************)
(* The pass over a block p of n addresses, C in front of each: thresholds   *)
(* taken have their rows, those left lie at or behind the segment in hand,   *)
(* and the counter holds what lies in front of it.                          *)
(***************************************************************************)
Sorted(taus, n, C) ==
  /\ IsList(taus)
  /\ \A i \in 1 .. Len(taus) : taus[i] \in Nat /\ taus[i] < C[n]
  /\ \A i, j \in 1 .. Len(taus) : i <= j => taus[i] <= taus[j]

Resolved(rows, k, n, C, taus) ==
  \A i \in 1 .. k : rows[i] \in 0 .. n - 1 /\ Falls(C, taus[i], rows[i])

Passing(n, C, p, taus, pass) ==
  /\ Sorted(taus, n, C)
  /\ IsList(pass.taus) /\ IsList(pass.rows)
  /\ Len(pass.rows) + Len(pass.taus) = Len(taus)
  /\ Resolved(pass.rows, Len(pass.rows), n, C, taus)
  /\ \A j \in 1 .. Len(pass.taus) : pass.taus[j] = taus[Len(pass.rows) + j]
  /\ pass.seg \in Nat
  /\ pass.seg < n => /\ InHand(p, n, C, pass.seg, pass.cur)
                     /\ \A j \in 1 .. Len(pass.taus) : C[pass.seg] <= pass.taus[j]
                     /\ \E g : Tally(pass.levels, g) /\ g[0] = C[pass.seg]
  /\ pass.seg >= n => \A j \in 1 .. Len(pass.taus) : C[n] <= pass.taus[j]

\* Neighbours in order, all in order.
LEMMA InOrder ==
  ASSUME NEW n \in Nat, NEW s, \A i \in 1 .. n : s[i] \in Nat,
         \A i \in 1 .. n - 1 : s[i] <= s[i + 1],
         NEW i \in 1 .. n, NEW j \in 1 .. n, i <= j
  PROVE  s[i] <= s[j]
<1> DEFINE S == {k \in Nat : i + k <= n => s[i] <= s[i + k]}
<1>1. 0 \in S
  BY Z3
<1>2. ASSUME NEW k \in Nat, k \in S PROVE k + 1 \in S
  <2>1. SUFFICES ASSUME i + (k + 1) <= n PROVE s[i] <= s[i + (k + 1)]
    OBVIOUS
  <2>2. PICK y : y = i + k
    OBVIOUS
  <2>3. y \in 1 .. n - 1 /\ i + (k + 1) = y + 1 /\ y \in 1 .. n /\ y + 1 \in 1 .. n /\ i + k <= n
    BY <2>1, <2>2
  <2>4. s[y] <= s[y + 1] /\ s[i] \in Nat /\ s[y] \in Nat /\ s[y + 1] \in Nat
    BY <2>3
  <2>5. s[i] <= s[y]
    BY <1>2, <2>2, <2>3
  <2>6. s[i] <= s[y + 1]
    BY <2>4, <2>5
  <2>7. QED
    BY <2>3, <2>6
<1> HIDE DEF S
<1>3. j - i \in S
  BY <1>1, <1>2, NaturalInduction
<1>4. i + (j - i) = j
  OBVIOUS
<1>5. QED
  BY <1>3, <1>4 DEF S

LEMMA PassStarts ==
  ASSUME NEW p, NEW n, NEW C, Exactly(p, n, C), NEW cnt \in Nat,
         NEW taus \in Thresholds(SumRange(p, 0, n), cnt)
  PROVE  Passing(n, C, p, taus, StartPass(p, taus))
<1>1. n \in Nat /\ C[0] = 0 /\ ExactSums /\ 0 \in 0 .. n /\ n \in 0 .. n /\ 0 <= n
  BY DEF Exactly, Summed
<1>2. C[n] \in Nat
  BY <1>1, SumsFit
<1>3. SumRange(p, 0, n) = C[n]
  <2>1. SumRange(p, 0, n) = C[n] - C[0]
    BY <1>1, SumRangeExact
  <2>2. QED
    BY <1>1, <1>2, <2>1
<1>4. /\ taus \in [1 .. cnt -> Floats(C[n])]
      /\ \A i \in 1 .. cnt - 1 : taus[i] <= taus[i + 1]
  BY <1>3 DEF Thresholds
<1>5. \A i \in 1 .. cnt : taus[i] \in Nat /\ taus[i] < C[n]
  <2>1. Floats(C[n]) \subseteq 0 .. C[n] - 1
    BY DEF Floats
  <2>2. QED
    BY <1>2, <1>4, <2>1
<1>6. IsList(taus) /\ Len(taus) = cnt
  <2>1. taus = [i \in 1 .. cnt |-> taus[i]]
    BY <1>4
  <2>2. QED
    BY <2>1, ListOf
<1>7. \A i, j \in 1 .. cnt : i <= j => taus[i] <= taus[j]
  BY <1>4, <1>5, InOrder
<1>8. Sorted(taus, n, C)
  BY <1>5, <1>6, <1>7 DEF Sorted
<1>9. PICK pass : pass = StartPass(p, taus)
  OBVIOUS
<1>10. /\ pass.seg = 0 /\ pass.levels = NoLevels /\ pass.cur = PreCdf(p, 0, 0)
       /\ pass.taus = taus /\ pass.rows = << >>
  BY <1>9 DEF StartPass
<1>11. IsList(<< >>) /\ Len(<< >>) = 0
  BY EmptyChannel
<1>12. 0 < n => InHand(p, n, C, pass.seg, pass.cur)
  <2>1. SUFFICES ASSUME 0 < n PROVE InHand(p, n, C, 0, PreCdf(p, 0, C[0]))
    BY <1>1, <1>10
  <2>2. 0 \in 0 .. n - 1
    BY <1>1, <2>1
  <2>3. QED
    BY <2>2, PreCdfExact
<1>13. \A j \in 1 .. Len(pass.taus) : C[pass.seg] <= pass.taus[j]
  BY <1>1, <1>5, <1>6, <1>10
<1>14. \E g : Tally(pass.levels, g) /\ g[0] = C[pass.seg]
  <2>1. [l \in Nat |-> 0][0] = 0
    OBVIOUS
  <2>2. QED
    BY <1>1, <1>10, <2>1, TallyOfNone
<1>15. ASSUME pass.seg >= n PROVE C[n] = C[pass.seg]
  BY <1>1, <1>10, <1>15
<1>16. /\ IsList(pass.taus) /\ IsList(pass.rows)
       /\ Len(pass.rows) + Len(pass.taus) = Len(taus)
       /\ Resolved(pass.rows, Len(pass.rows), n, C, taus)
       /\ \A j \in 1 .. Len(pass.taus) : pass.taus[j] = taus[Len(pass.rows) + j]
  BY <1>6, <1>10, <1>11 DEF Resolved
<1>17. Passing(n, C, p, taus, pass)
  BY <1>8, <1>10, <1>12, <1>13, <1>14, <1>15, <1>16 DEF Passing
<1>18. QED
  BY <1>9, <1>17

\* A list behind its first k elements.
LEMMA ListBehind ==
  ASSUME NEW s, IsList(s), NEW k \in 0 .. Len(s)
  PROVE  /\ IsList(SubSeq(s, k + 1, Len(s))) /\ Len(SubSeq(s, k + 1, Len(s))) = Len(s) - k
         /\ \A j \in 1 .. Len(s) - k : SubSeq(s, k + 1, Len(s))[j] = s[k + j]
<1>1. PICK S : s \in Seq(S)
  BY DEF IsList
<1>2. Len(s) \in Nat /\ \A i \in k + 1 .. Len(s) : s[i] \in S
  BY <1>1
<1>3. /\ Len(SubSeq(s, k + 1, Len(s))) = Len(s) - k
      /\ \A j \in 1 .. Len(s) - k : SubSeq(s, k + 1, Len(s))[j] = s[k + 1 + j - 1]
  BY <1>1, <1>2, SubSeqProperties
<1>4. \A j \in 1 .. Len(s) - k : k + 1 + j - 1 = k + j
  BY <1>2
<1>5. QED
  BY <1>3, <1>4, ListPart

LEMMA ListJoined ==
  ASSUME NEW s, NEW t, IsList(s), IsList(t)
  PROVE  /\ IsList(s \o t) /\ Len(s \o t) = Len(s) + Len(t)
         /\ \A i \in 1 .. Len(s) : (s \o t)[i] = s[i]
         /\ \A j \in 1 .. Len(t) : (s \o t)[Len(s) + j] = t[j]
<1>1. PICK S : s \in Seq(S)
  BY DEF IsList
<1>2. PICK T : t \in Seq(T)
  BY DEF IsList
<1>3. s \in Seq(S \cup T) /\ t \in Seq(S \cup T) /\ Len(s) \in Nat /\ Len(t) \in Nat
  BY <1>1, <1>2
<1>4. \A i \in 1 .. Len(s) + Len(t) : (s \o t)[i] = IF i <= Len(s) THEN s[i] ELSE t[i - Len(s)]
  BY <1>3, ConcatProperties
<1>5. \A i \in 1 .. Len(s) : (s \o t)[i] = s[i]
  BY <1>3, <1>4
<1>6. ASSUME NEW j \in 1 .. Len(t) PROVE (s \o t)[Len(s) + j] = t[j]
  <2>1. PICK i : i = Len(s) + j
    OBVIOUS
  <2>2. i \in 1 .. Len(s) + Len(t) /\ ~(i <= Len(s)) /\ i - Len(s) = j
    BY <1>3, <2>1
  <2>3. (s \o t)[i] = t[i - Len(s)]
    BY <1>4, <2>2
  <2>4. QED
    BY <2>1, <2>2, <2>3
<1>7. QED
  BY <1>5, <1>6, ListJoin

\* The counter takes the segment's sum and gives what lies in front of the next.
LEMMA SlotExact ==
  ASSUME NEW p, NEW n, NEW C, Exactly(p, n, C), NEW pass, pass.seg \in Nat, pass.seg < n,
         InHand(p, n, C, pass.seg, pass.cur),
         \E g : Tally(pass.levels, g) /\ g[0] = C[pass.seg],
         NEW next, next = PassStep(p, pass), next.seg < n
  PROVE  /\ InHand(p, n, C, next.seg, next.cur)
         /\ \E g : Tally(next.levels, g) /\ g[0] = C[next.seg]
         /\ pass.cur.tail = C[next.seg]
<1>1. PICK g : Tally(pass.levels, g) /\ g[0] = C[pass.seg]
  OBVIOUS
<1>2. PICK seg, e, cur : seg = pass.seg /\ e = pass.seg + SegLen /\ cur = pass.cur
  OBVIOUS
<1>3. n \in Nat /\ ExactSums /\ Size(p) = n /\ SegLen \in Nat \ {0}
  BY BlocksAssumption DEF Exactly, Summed
<1>4. /\ next.seg = e /\ next.levels = Push(pass.levels, pass.cur.sum)
      /\ next.cur = NextSlot(p, pass)
  BY <1>2 DEF PassStep
<1>5. /\ e \in 0 .. n - 1 /\ seg \in 0 .. n /\ e \in 0 .. n /\ seg <= e
  BY <1>2, <1>3, <1>4
<1>6. cur.n = SegLen /\ seg + cur.n = e
  <2>1. cur.n \in Nat /\ (cur.n = SegLen \/ (cur.n < SegLen /\ seg + cur.n = n))
    BY <1>2 DEF InHand
  <2>2. QED
    BY <1>2, <1>3, <1>5, <2>1
<1>7. cur.sum = C[e] - C[seg] /\ cur.tail = C[e]
  BY <1>2, <1>6 DEF InHand
<1>8. C[seg] \in Nat /\ C[e] \in Nat /\ C[e] <= MaxSum /\ C[seg] <= C[e]
  BY <1>5, SumsFit, SumsGrow DEF Exactly
<1>9. PICK s : s = cur.sum
  OBVIOUS
<1>10. s \in Nat /\ g[0] + s = C[e] /\ g[0] + s <= MaxSum
  BY <1>1, <1>2, <1>7, <1>8, <1>9
<1>11. PICK f : Tally(Push(pass.levels, s), f) /\ f[0] = g[0] + s
  BY <1>1, <1>3, <1>10, PushExact
<1>12. Prefix(Push(pass.levels, s)) = C[e]
  BY <1>3, <1>10, <1>11, PrefixExact
<1>13. next.cur = PreCdf(p, e, C[e])
  BY <1>2, <1>3, <1>4, <1>5, <1>9, <1>12 DEF NextSlot
<1>14. InHand(p, n, C, e, PreCdf(p, e, C[e]))
  BY <1>5, PreCdfExact
<1>15. QED
  BY <1>2, <1>4, <1>7, <1>9, <1>10, <1>11, <1>13, <1>14

\* One iteration of sample_local_streaming.
LEMMA PassGoes ==
  ASSUME NEW p, NEW n, NEW C, Exactly(p, n, C), NEW taus, NEW pass,
         Passing(n, C, p, taus, pass), pass.seg < n, NEW next, next = PassStep(p, pass)
  PROVE  Passing(n, C, p, taus, next)
<1>1. PICK m : m = Len(pass.rows)
  OBVIOUS
<1>2. /\ Sorted(taus, n, C) /\ IsList(pass.taus) /\ IsList(pass.rows)
      /\ m + Len(pass.taus) = Len(taus)
      /\ Resolved(pass.rows, m, n, C, taus)
      /\ \A j \in 1 .. Len(pass.taus) : pass.taus[j] = taus[m + j]
      /\ pass.seg \in Nat /\ InHand(p, n, C, pass.seg, pass.cur)
      /\ \A j \in 1 .. Len(pass.taus) : C[pass.seg] <= pass.taus[j]
      /\ \E g : Tally(pass.levels, g) /\ g[0] = C[pass.seg]
  BY <1>1 DEF Passing
<1>3. PICK k \in 0 .. Len(pass.taus) :
        /\ Below(pass) = 1 .. k /\ Cardinality(Below(pass)) = k
        /\ \A i \in 1 .. k : pass.taus[i] < pass.cur.tail
        /\ k < Len(pass.taus) => ~(pass.taus[k + 1] < pass.cur.tail)
  BY <1>2, BelowFront
<1>4. m \in Nat /\ Len(pass.taus) \in Nat /\ Len(taus) \in Nat /\ k \in Nat
  BY <1>1, <1>2, ListLen DEF Sorted
<1>5. PICK rows : rows = RowsOf(pass)
  OBVIOUS
<1>6. IsList(rows) /\ Len(rows) = k
  <2>1. rows = [i \in 1 .. k |-> rows[i]]
    BY <1>3, <1>5 DEF RowsOf
  <2>2. QED
    BY <1>4, <2>1, ListOf
<1>7. /\ next.taus = SubSeq(pass.taus, k + 1, Len(pass.taus)) /\ next.rows = pass.rows \o rows
      /\ next.seg = pass.seg + SegLen
  BY <1>3, <1>5 DEF PassStep
<1>8. /\ IsList(next.taus) /\ Len(next.taus) = Len(pass.taus) - k
      /\ \A j \in 1 .. Len(next.taus) : next.taus[j] = pass.taus[k + j]
  <2>1. PICK s : s = pass.taus
    OBVIOUS
  <2>2. /\ IsList(SubSeq(s, k + 1, Len(s))) /\ Len(SubSeq(s, k + 1, Len(s))) = Len(s) - k
        /\ \A j \in 1 .. Len(s) - k : SubSeq(s, k + 1, Len(s))[j] = s[k + j]
    BY <1>2, <1>3, <2>1, ListBehind
  <2>3. QED
    BY <1>7, <2>1, <2>2
<1>9. /\ IsList(next.rows) /\ Len(next.rows) = m + k
      /\ \A i \in 1 .. m : next.rows[i] = pass.rows[i]
      /\ \A j \in 1 .. k : next.rows[m + j] = rows[j]
  <2>1. PICK s, t : s = pass.rows /\ t = pass.rows \o rows
    OBVIOUS
  <2>2. IsList(s) /\ Len(s) = m /\ t = s \o rows /\ next.rows = t
    BY <1>1, <1>2, <1>7, <2>1
  <2>3. /\ IsList(s \o rows) /\ Len(s \o rows) = Len(s) + Len(rows)
        /\ \A i \in 1 .. Len(s) : (s \o rows)[i] = s[i]
        /\ \A j \in 1 .. Len(rows) : (s \o rows)[Len(s) + j] = rows[j]
    BY <1>6, <2>2, ListJoined
  <2>4. QED
    BY <1>6, <2>1, <2>2, <2>3
<1>10. pass.cur.tail \in Nat
  <2>1. PICK cur, e : cur = pass.cur /\ e = pass.seg + pass.cur.n
    OBVIOUS
  <2>2. n \in Nat
    BY DEF Exactly, Summed
  <2>3. cur.n \in Nat /\ e <= n /\ cur.tail = C[e]
    BY <1>2, <2>1 DEF InHand
  <2>4. e \in 0 .. n
    BY <1>2, <2>1, <2>2, <2>3
  <2>5. QED
    BY <2>1, <2>3, <2>4, SumsFit
<1>11. ASSUME NEW j \in 1 .. Len(pass.taus)
       PROVE  m + j \in 1 .. Len(taus) /\ pass.taus[j] = taus[m + j] /\ pass.taus[j] \in Nat
  <2>1. m + j \in 1 .. Len(taus)
    BY <1>2, <1>4
  <2>2. QED
    BY <1>2, <2>1 DEF Sorted
<1>12. ASSUME NEW i \in 1 .. m + k
       PROVE  next.rows[i] \in 0 .. n - 1 /\ Falls(C, taus[i], next.rows[i])
  <2>1. CASE i \in 1 .. m
    BY <1>2, <1>9, <2>1 DEF Resolved
  <2>2. CASE i \notin 1 .. m
    <3>1. PICK j : j = i - m
      OBVIOUS
    <3>2. j \in 1 .. k /\ i = m + j /\ j \in 1 .. Len(pass.taus)
      BY <1>4, <2>2, <3>1
    <3>3. PICK tau : tau = pass.taus[j]
      OBVIOUS
    <3>4. tau \in Nat /\ tau = taus[i] /\ C[pass.seg] <= tau /\ tau < pass.cur.tail
      BY <1>2, <1>3, <1>11, <3>2, <3>3
    <3>5. rows[j] = Resolve(pass.seg, pass.cur.cdf, pass.cur.n, tau)
      BY <1>3, <1>5, <3>2, <3>3 DEF RowsOf
    <3>6. pass.seg \in 0 .. n - 1
      BY <1>2 DEF Exactly, Summed
    <3>7. rows[j] \in 0 .. n - 1 /\ Falls(C, tau, rows[j])
      <4>1. PICK seg, cur : seg = pass.seg /\ cur = pass.cur
        OBVIOUS
      <4>2. /\ seg \in 0 .. n - 1 /\ InHand(p, n, C, seg, cur) /\ C[seg] <= tau /\ tau < cur.tail
        BY <1>2, <3>4, <3>6, <4>1
      <4>3. PICK row : row = Resolve(seg, cur.cdf, cur.n, tau)
        OBVIOUS
      <4>4. row \in 0 .. n - 1 /\ Falls(C, tau, row)
        BY <3>4, <4>2, <4>3, ResolveExact
      <4>5. QED
        BY <3>5, <4>1, <4>3, <4>4
    <3>8. QED
      BY <1>9, <3>2, <3>4, <3>7
  <2>3. QED
    BY <2>1, <2>2
<1>13. Resolved(next.rows, Len(next.rows), n, C, taus)
  BY <1>9, <1>12 DEF Resolved
<1>14. ASSUME NEW j \in 1 .. Len(next.taus)
       PROVE  /\ next.taus[j] = taus[Len(next.rows) + j]
              /\ next.taus[j] \in Nat /\ ~(next.taus[j] < pass.cur.tail)
  <2>1. k + j \in 1 .. Len(pass.taus) /\ k < Len(pass.taus) /\ k + 1 \in 1 .. Len(pass.taus) /\ j \in Nat
        /\ 1 <= j
    BY <1>4, <1>8
  <2>2. next.taus[j] = pass.taus[k + j] /\ pass.taus[k + j] = taus[m + (k + j)] /\ pass.taus[k + j] \in Nat
    BY <1>8, <1>11, <2>1
  <2>3. m + (k + j) = Len(next.rows) + j
    BY <1>4, <1>9, <2>1
  <2>4. pass.taus[k + 1] \in Nat /\ pass.taus[k + 1] <= pass.taus[k + j]
    <3>1. PICK x, y : x = m + (k + 1) /\ y = m + (k + j)
      OBVIOUS
    <3>2. /\ pass.taus[k + 1] \in Nat /\ pass.taus[k + 1] = taus[x] /\ pass.taus[k + j] = taus[y]
          /\ x \in 1 .. Len(taus) /\ y \in 1 .. Len(taus)
      BY <1>11, <2>1, <3>1
    <3>3. x <= y
      BY <1>4, <2>1, <3>1
    <3>4. taus[x] <= taus[y]
      BY <1>2, <3>2, <3>3 DEF Sorted
    <3>5. QED
      BY <3>2, <3>4
  <2>5. ~(pass.taus[k + 1] < pass.cur.tail)
    BY <1>3, <2>1
  <2>6. ~(pass.taus[k + j] < pass.cur.tail)
    BY <1>10, <2>2, <2>4, <2>5
  <2>7. QED
    BY <2>2, <2>3, <2>6
<1>15. SegLen \in Nat \ {0} /\ n \in Nat /\ next.seg \in Nat
  <2>1. SegLen \in Nat \ {0} /\ n \in Nat
    BY BlocksAssumption DEF Exactly, Summed
  <2>2. QED
    BY <1>2, <1>7, <2>1
<1>16. ASSUME next.seg < n
       PROVE  /\ InHand(p, n, C, next.seg, next.cur)
              /\ \A j \in 1 .. Len(next.taus) : C[next.seg] <= next.taus[j]
              /\ \E g : Tally(next.levels, g) /\ g[0] = C[next.seg]
  <2>1. /\ InHand(p, n, C, next.seg, next.cur)
        /\ \E g : Tally(next.levels, g) /\ g[0] = C[next.seg]
        /\ pass.cur.tail = C[next.seg]
    BY <1>2, <1>16, SlotExact
  <2>2. \A j \in 1 .. Len(next.taus) : C[next.seg] <= next.taus[j]
    BY <1>14, <1>10, <2>1
  <2>3. QED
    BY <2>1, <2>2
<1>17. ASSUME next.seg >= n
       PROVE  \A j \in 1 .. Len(next.taus) : C[n] <= next.taus[j]
  <2>1. pass.cur.tail = C[n]
    <3>1. PICK cur : cur = pass.cur
      OBVIOUS
    <3>2. /\ cur.n \in Nat /\ pass.seg + cur.n <= n /\ cur.tail = C[pass.seg + cur.n]
          /\ cur.n = SegLen \/ pass.seg + cur.n = n
      BY <1>2, <3>1 DEF InHand
    <3>3. pass.seg + cur.n = n
      BY <1>2, <1>7, <1>15, <1>17, <3>2
    <3>4. QED
      BY <3>1, <3>2, <3>3
  <2>2. QED
    BY <1>14, <1>10, <2>1
<1>18. Len(next.rows) + Len(next.taus) = Len(taus)
  <2>1. ASSUME NEW a \in Nat PROVE (m + k) + (a - k) = m + a
    BY <1>4
  <2>2. QED
    BY <1>2, <1>4, <1>8, <1>9, <2>1
<1>19. QED
  BY <1>2, <1>8, <1>9, <1>13, <1>14, <1>15, <1>16, <1>17, <1>18 DEF Passing

\* Behind the last segment no threshold is left.
LEMMA PassEnds ==
  ASSUME NEW p, NEW n, NEW C, Exactly(p, n, C), NEW taus, NEW pass,
         Passing(n, C, p, taus, pass), pass.seg >= n \/ pass.taus = << >>
  PROVE  pass.taus = << >> /\ Len(pass.rows) = Len(taus)
<1>1. pass.taus = << >>
  <2>1. SUFFICES ASSUME pass.seg >= n, pass.taus # << >> PROVE FALSE
    OBVIOUS
  <2>2. Len(pass.taus) \in Nat \ {0} /\ Len(pass.rows) \in Nat /\ Len(taus) \in Nat
    <3>1. IsList(pass.taus) /\ IsList(pass.rows) /\ IsList(taus)
      BY DEF Passing, Sorted
    <3>2. QED
      BY <2>1, <3>1, Taken, ListLen
  <2>3. PICK m, t, len : m = Len(pass.rows) /\ t = Len(pass.taus) /\ len = Len(taus)
    OBVIOUS
  <2>4. /\ m + t = len
        /\ \A j \in 1 .. t : pass.taus[j] = taus[m + j]
        /\ \A j \in 1 .. t : C[n] <= pass.taus[j]
    BY <2>1, <2>3 DEF Passing
  <2>5. m \in Nat /\ t \in Nat \ {0} /\ len \in Nat
    BY <2>2, <2>3
  <2>6. 1 \in 1 .. t /\ m + 1 \in 1 .. len
    BY <2>4, <2>5
  <2>7. pass.taus[1] = taus[m + 1] /\ C[n] <= pass.taus[1]
    BY <2>4, <2>6
  <2>8. taus[m + 1] \in Nat /\ taus[m + 1] < C[n]
    BY <2>3, <2>6 DEF Passing, Sorted
  <2>9. n \in 0 .. n
    BY DEF Exactly, Summed
  <2>10. C[n] \in Nat
    BY <2>9, SumsFit
  <2>11. QED
    BY <2>7, <2>8, <2>10
<1>2. Len(pass.rows) \in Nat /\ Len(<< >>) = 0
  BY ListLen, EmptyChannel DEF Passing
<1>3. QED
  BY <1>1, <1>2 DEF Passing

-----------------------------------------------------------------------------
(***************************************************************************)
(* The invariant on the samples: blocks and the states under way are exact, *)
(* a rank that streams is in a pass, and one that has streamed has its rows.*)
(***************************************************************************)
Drawing(p, taus, pass) == Passing(Size(p), InFront(p), p, taus, pass)

Found(p, taus, local) ==
  \A i \in DOMAIN local : /\ local[i].addr \in 0 .. Size(p) - 1
                          /\ Falls(InFront(p), taus[i], local[i].addr)

Drawn(r) ==
  /\ pc[r] = "stream" => Drawing(sim[r].block, cache[r].taus, cache[r].pass)
  /\ pc[r] = "size" => Found(sim[r].block, cache[r].taus, cache[r].local)

ExactState(state) == \A s \in Ranks : ExactBlock(state[s])

OnTheWay(r) ==
  \A i \in DOMAIN down[r] : down[r][i].name = "gates" => ExactState(down[r][i].data)

StreamInv ==
  /\ \A r \in Ranks : ExactBlock(sim[r].block) /\ Drawn(r)
  /\ \A r \in Others : OnTheWay(r)
  /\ AllResolved

LEMMA ExactFront ==
  ASSUME ExactSums, NEW p, ExactBlock(p)
  PROVE  Exactly(p, Size(p), InFront(p))
BY FrontSums DEF ExactBlock, Exactly

\* The other ranks keep their samples when r moves.
OthersKeep(r) == \A s \in Ranks \ {r} : pc'[s] = pc[s] /\ cache'[s] = cache[s]
GatesKept == \A s \in Others : From(down[s], down'[s], "gates")

LEMMA OnTheWayStays ==
  ASSUME NEW s \in Others, OnTheWay(s), From(down[s], down'[s], "gates")
  PROVE  OnTheWay(s)'
<1>1. ASSUME NEW j \in DOMAIN down'[s], down'[s][j].name = "gates"
      PROVE  ExactState(down'[s][j].data)
  <2>1. PICK i \in DOMAIN down[s] : down[s][i] = down'[s][j]
    BY <1>1 DEF From
  <2>2. QED
    BY <1>1, <2>1 DEF OnTheWay
<1>2. QED
  BY <1>1 DEF OnTheWay, ExactState

LEMMA StreamStays ==
  ASSUME StreamInv, NEW r \in Ranks, sim' = sim, OthersKeep(r), Drawn(r)', GatesKept, AllResolved'
  PROVE  StreamInv'
<1>1. \A s \in Ranks : ExactBlock(sim'[s].block)
  BY DEF StreamInv
<1>2. ASSUME NEW s \in Ranks PROVE Drawn(s)'
  <2>1. CASE s # r
    <3>1. Drawn(s) /\ pc'[s] = pc[s] /\ cache'[s] = cache[s]
      BY <2>1 DEF StreamInv, OthersKeep
    <3>2. QED
      BY <3>1 DEF Drawn
  <2>2. QED
    BY <2>1
<1>3. \A s \in Others : OnTheWay(s)'
  BY OnTheWayStays DEF StreamInv, GatesKept
<1>4. QED
  BY <1>1, <1>2, <1>3 DEF StreamInv

\* A step of r that neither executes nor samples.
Passes(r) ==
  /\ sim' = sim /\ OthersKeep(r) /\ pc'[r] \notin {"stream", "size"} /\ AllResolved'
  /\ \E m \in Names \ {"gates"} : CalmBut(m)

\* r takes part in collective m or in none, and goes on to l.
Plain(r, m, l) ==
  /\ buffer' = buffer /\ sim' = sim /\ failed = "no" /\ failed' = failed
  /\ pc' = [pc EXCEPT ![r] = l] /\ l \notin {"stream", "size"}
  /\ \A s \in Ranks \ {r} : cache'[s] = cache[s]
  /\ NoMessages \/ Gather(m) \/ Receive(r, m) \/ \E d : SendUp(r, m, d) \/ SendDown(m, d)

LEMMA PlainPasses ==
  ASSUME RowsInv, NEW r \in Ranks, NEW m \in Names \ {"gates"}, NEW l, Plain(r, m, l)
  PROVE  Passes(r)
<1>1. CalmBut(m)
  BY Domains, CollectiveEffect DEF Plain
<1>2. OthersKeep(r) /\ pc'[r] \notin {"stream", "size"}
  BY Domains DEF OthersKeep, Plain
<1>3. sim' = sim /\ AllResolved'
  BY DEF AllResolved, Plain
<1>4. QED
  BY <1>1, <1>2, <1>3 DEF Passes

LEMMA StepPasses ==
  ASSUME RowsInv, NEW r \in Ranks,
         \/ MeasureNothing(r) \/ GetResults(r)
         \/ ScanUp(r) \/ ScanPrefix(r) \/ ScanTotal(r)
         \/ PlanSeed(r) \/ PlanProbs(r) \/ PlanCounts(r)
         \/ GatherSizes(r) \/ GatherRows(r) \/ ShareRows(r)
  PROVE  Passes(r)
<1>1. Names \ {"gates"} = {"prob", "prefix", "total", "seed", "probs", "cnts", "size", "rows", "all"}
  BY DEF Names
<1>2. DOMAIN cache = Ranks
  BY Domains
<1>3. CASE MeasureNothing(r)
  <2>1. /\ buffer' = buffer /\ sim' = sim /\ failed = "no" /\ failed' = failed /\ NoMessages
        /\ pc' = [pc EXCEPT ![r] = "call"] /\ cache' = [cache EXCEPT ![r].count = 0]
    BY <1>3 DEF MeasureNothing, Calls, Return
  <2>2. Plain(r, "prob", "call")
    BY <1>2, <2>1 DEF Plain
  <2>3. QED
    BY <1>1, <2>2, PlainPasses
<1>4. CASE GetResults(r)
  <2>1. /\ buffer' = buffer /\ sim' = sim /\ failed = "no" /\ failed' = failed /\ NoMessages
        /\ pc' = [pc EXCEPT ![r] = "call"] /\ cache' = cache
    BY <1>4 DEF GetResults, Calls, Return
  <2>2. Plain(r, "prob", "call")
    BY <1>2, <2>1 DEF Plain
  <2>3. QED
    BY <1>1, <2>2, PlainPasses
<1>5. CASE ScanUp(r)
  <2>1. /\ buffer' = buffer /\ sim' = sim /\ failed = "no" /\ failed' = failed /\ cache' = cache
        /\ pc' = [pc EXCEPT ![r] = "prefix"]
        /\ Gather("prob") \/ SendUp(r, "prob", LocalProb(r))
    BY <1>5 DEF ScanUp, Calls, Go
  <2>2. Plain(r, "prob", "prefix")
    BY <1>2, <2>1 DEF Plain
  <2>3. QED
    BY <1>1, <2>2, PlainPasses
<1>6. CASE ScanPrefix(r)
  <2>1. /\ buffer' = buffer /\ sim' = sim /\ failed = "no" /\ failed' = failed /\ cache' = cache
        /\ pc' = [pc EXCEPT ![r] = "total"]
        /\ SendDown("prefix", 0) \/ Receive(r, "prefix")
    BY <1>6 DEF ScanPrefix, At, Go
  <2>2. Plain(r, "prefix", "total")
    BY <1>2, <2>1 DEF Plain
  <2>3. QED
    BY <1>1, <2>2, PlainPasses
<1>7. CASE ScanTotal(r)
  <2>1. /\ buffer' = buffer /\ sim' = sim /\ failed = "no" /\ failed' = failed /\ cache' = cache
        /\ pc' = [pc EXCEPT ![r] = "seed"]
        /\ \E d : SendDown("total", d) \/ Receive(r, "total")
    BY <1>7 DEF ScanTotal, At, Go
  <2>2. Plain(r, "total", "seed")
    BY <1>2, <2>1 DEF Plain
  <2>3. QED
    BY <1>1, <2>2, PlainPasses
<1>8. CASE PlanSeed(r)
  <2>1. /\ buffer' = buffer /\ sim' = sim /\ failed = "no" /\ failed' = failed /\ cache' = cache
        /\ pc' = [pc EXCEPT ![r] = "probs"]
        /\ SendDown("seed", 0) \/ Receive(r, "seed")
    BY <1>8 DEF PlanSeed, At, Go
  <2>2. Plain(r, "seed", "probs")
    BY <1>2, <2>1 DEF Plain
  <2>3. QED
    BY <1>1, <2>2, PlainPasses
<1>9. CASE PlanProbs(r)
  <2>1. /\ buffer' = buffer /\ sim' = sim /\ failed = "no" /\ failed' = failed /\ cache' = cache
        /\ pc' = [pc EXCEPT ![r] = "cnts"]
        /\ Gather("probs") \/ SendUp(r, "probs", LocalProb(r))
    BY <1>9 DEF PlanProbs, At, Go
  <2>2. Plain(r, "probs", "cnts")
    BY <1>2, <2>1 DEF Plain
  <2>3. QED
    BY <1>1, <2>2, PlainPasses
<1>10. CASE PlanCounts(r)
  <2>1. /\ buffer' = buffer /\ sim' = sim /\ failed = "no" /\ failed' = failed /\ cache' = cache
        /\ pc' = [pc EXCEPT ![r] = "sample"]
        /\ \E d : SendDown("cnts", d) \/ Receive(r, "cnts")
    BY <1>10 DEF PlanCounts, At, Go
  <2>2. Plain(r, "cnts", "sample")
    BY <1>2, <2>1 DEF Plain
  <2>3. QED
    BY <1>1, <2>2, PlainPasses
<1>11. CASE GatherSizes(r)
  <2>1. /\ buffer' = buffer /\ sim' = sim /\ failed = "no" /\ failed' = failed
        /\ pc' = [pc EXCEPT ![r] = "rows"]
        /\ cache' = cache \/ \E x : cache' = [cache EXCEPT ![r].sizes = x]
        /\ Gather("size") \/ SendUp(r, "size", plan[r].cntLocal)
    BY <1>11 DEF GatherSizes, At, Go
  <2>2. Plain(r, "size", "rows")
    BY <1>2, <2>1 DEF Plain
  <2>3. QED
    BY <1>1, <2>2, PlainPasses
<1>12. CASE GatherRows(r)
  <2>1. At(r, "rows")
    BY <1>12 DEF GatherRows
  <2>2. CASE Abort("gather_results global count mismatch")
    <3>1. /\ sim' = sim /\ pc' = pc /\ cache' = cache /\ NoMessages /\ buffer' = buffer
          /\ pc[r] = "rows" /\ failed' = "gather_results global count mismatch"
      BY <2>1, <2>2 DEF Abort, At, NoMessages
    <3>2. "prob" \in Names \ {"gates"} /\ CalmBut("prob")
      BY <1>1, <3>1, Domains, CollectiveEffect
    <3>3. QED
      BY <3>1, <3>2 DEF Passes, OthersKeep, AllResolved
  <2>3. CASE /\ Gather("rows") \/ SendUp(r, "rows", cache[r].local)
             /\ cache' = cache \/ \E x : cache' = [cache EXCEPT ![r].real = x]
             /\ Go(r, "all")
             /\ UNCHANGED <<script, buffer, sim, plan, got, failed>>
    <3>1. /\ buffer' = buffer /\ sim' = sim /\ failed = "no" /\ failed' = failed
          /\ pc' = [pc EXCEPT ![r] = "all"]
          /\ \A s \in Ranks \ {r} : cache'[s] = cache[s]
      BY <1>2, <2>1, <2>3 DEF At, Go
    <3>2. Plain(r, "rows", "all")
      BY <2>3, <3>1 DEF Plain
    <3>3. QED
      BY <1>1, <3>2, PlainPasses
  <2>4. QED
    BY <1>12, <2>2, <2>3 DEF GatherRows
<1>13. CASE ShareRows(r)
  <2>1. /\ buffer' = buffer /\ sim' = sim /\ failed = "no" /\ failed' = failed
        /\ pc' = [pc EXCEPT ![r] = "call"]
        /\ \E x : cache' = [cache EXCEPT ![r] = x]
        /\ \E d : SendDown("all", d) \/ Receive(r, "all")
    BY <1>13 DEF ShareRows, At, Return
  <2>2. Plain(r, "all", "call")
    BY <1>2, <2>1 DEF Plain
  <2>3. QED
    BY <1>1, <2>2, PlainPasses
<1>14. QED
  BY <1>3, <1>4, <1>5, <1>6, <1>7, <1>8, <1>9, <1>10, <1>11, <1>12, <1>13

LEMMA PassingKeeps ==
  ASSUME StreamInv, NEW r \in Ranks, Passes(r)
  PROVE  StreamInv'
<1>1. PICK m \in Names \ {"gates"} : CalmBut(m)
  BY DEF Passes
<1>2. GatesKept
  BY <1>1 DEF GatesKept, CalmBut, Kept
<1>3. Drawn(r)'
  BY DEF Passes, Drawn
<1>4. QED
  BY <1>2, <1>3, StreamStays DEF Passes

-----------------------------------------------------------------------------
(* The steps that execute or sample.                                        *)

\* Nobody samples while it executes.
LEMMA ExecuteStream ==
  ASSUME ExactSums, RowsInv, StreamInv, NEW r \in Ranks, Execute(r)
  PROVE  StreamInv'
<1>1. PICK state : /\ state = IF r = Root THEN script[at[r]].state ELSE Received(r)
                   /\ sim' = [sim EXCEPT ![r] = [block |-> state[r], run |-> @.run + 1]]
  BY DEF Execute
<1>2. /\ pc[r] = "call" /\ at[r] <= Len(script) /\ script[at[r]].op = "execute" /\ failed' = "no"
      /\ pc' = [pc EXCEPT ![r] = "call"] /\ cache' = [cache EXCEPT ![r].count = 0]
      /\ buffer' = buffer
      /\ IF r = Root THEN SendDown("gates", script[at[r]].state) ELSE Receive(r, "gates")
  BY DEF Execute, Calls, Return
<1>3. ExactState(script[at[Root]].state) \/ r # Root
  <2>1. SUFFICES ASSUME r = Root PROVE ExactState(script[at[r]].state)
    OBVIOUS
  <2>2. script \in Scripts /\ at[r] \in 1 .. Len(script)
    BY <1>2, Domains DEF RowsInv, Typed
  <2>3. at[r] \in DOMAIN script
    <3>1. script \in Seq({script[i] : i \in DOMAIN script})
      BY <2>2, ScriptsAssumption
    <3>2. QED
      BY <2>2, <3>1
  <2>4. QED
    BY <1>2, <2>2, <2>3 DEF ExactSums, ExactState
<1>4. "gates" \in Names /\ Channels /\ Buffered
  BY Domains DEF Names
<1>5. ExactState(state) /\ \A s \in Others : OnTheWay(s)'
  <2>1. CASE r = Root
    <3>1. \A s \in Others : Added(down[s], down'[s], "gates", state)
      BY <1>1, <1>2, <1>4, <2>1, SendDownEffect
    <3>2. ASSUME NEW s \in Others, NEW j \in DOMAIN down'[s], down'[s][j].name = "gates"
          PROVE  ExactState(down'[s][j].data)
      <4>1. down'[s][j].data = state \/ \E i \in DOMAIN down[s] : down[s][i] = down'[s][j]
        BY <3>1, <3>2 DEF Added
      <4>2. CASE down'[s][j].data = state
        BY <1>1, <1>3, <2>1, <4>2
      <4>3. CASE \E i \in DOMAIN down[s] : down[s][i] = down'[s][j]
        <5>1. PICK i \in DOMAIN down[s] : down[s][i] = down'[s][j]
          BY <4>3
        <5>2. OnTheWay(s)
          BY DEF StreamInv
        <5>3. QED
          BY <3>2, <5>1, <5>2 DEF OnTheWay
      <4>4. QED
        BY <4>1, <4>2, <4>3
    <3>3. \A s \in Others : OnTheWay(s)'
      BY <3>2 DEF OnTheWay, ExactState
    <3>4. QED
      BY <1>1, <1>3, <2>1, <3>3
  <2>2. CASE r # Root
    <3>1. /\ r \in Others /\ Removed(down[r], down'[r], "gates")
          /\ \A s \in Others \ {r} : down'[s] = down[s]
          /\ \E i \in DOMAIN down[r] : down[r][i].name = "gates" /\ Received(r) = down[r][i].data
      BY <1>2, <1>4, <2>2, ReceiveEffect
    <3>2. ExactState(state)
      <4>1. OnTheWay(r)
        BY <3>1 DEF StreamInv
      <4>2. QED
        BY <1>1, <2>2, <3>1, <4>1 DEF OnTheWay
    <3>3. \A s \in Others : From(down[s], down'[s], "gates")
      BY <3>1 DEF Removed, From
    <3>4. \A s \in Others : OnTheWay(s)'
      BY <3>3, OnTheWayStays DEF StreamInv
    <3>5. QED
      BY <3>2, <3>4
  <2>3. QED
    BY <2>1, <2>2
<1>6. \A s \in Ranks : ExactBlock(sim'[s].block)
  <2>1. sim'[r].block = state[r] /\ \A s \in Ranks \ {r} : sim'[s] = sim[s]
    BY <1>1, Domains
  <2>2. QED
    BY <1>5, <2>1 DEF ExactState, StreamInv
<1>7. ASSUME NEW s \in Ranks PROVE Drawn(s)'
  <2>1. CASE s = r
    <3>1. pc'[r] = "call"
      BY <1>2, Domains
    <3>2. QED
      BY <2>1, <3>1 DEF Drawn
  <2>2. CASE s # r
    <3>1. Drawn(s) /\ pc'[s] = pc[s] /\ cache'[s] = cache[s] /\ sim'[s] = sim[s]
      BY <1>1, <1>2, <2>2, Domains DEF StreamInv
    <3>2. QED
      BY <3>1 DEF Drawn
  <2>3. QED
    BY <2>1, <2>2
<1>8. AllResolved'
  BY <1>2 DEF AllResolved
<1>9. QED
  BY <1>5, <1>6, <1>7, <1>8 DEF StreamInv

\* A step of r without messages.
LEMMA AloneStream ==
  ASSUME StreamInv, NEW r \in Ranks, sim' = sim, NoMessages, OthersKeep(r), Drawn(r)', AllResolved'
  PROVE  StreamInv'
<1>1. GatesKept
  BY DEF GatesKept, From, NoMessages
<1>2. QED
  BY <1>1, StreamStays

LEMMA AbortStream ==
  ASSUME StreamInv, NEW why, Abort(why), why # "measure failed to resolve all local samples"
  PROVE  StreamInv'
<1>1. UNCHANGED <<pc, sim, cache, down>> /\ failed' = why
  BY DEF Abort
<1>2. AllResolved'
  BY <1>1 DEF AllResolved
<1>3. \A r \in Ranks : Drawn(r)'
  BY <1>1 DEF StreamInv, Drawn
<1>4. \A r \in Others : OnTheWay(r)'
  BY <1>1 DEF StreamInv, OnTheWay, ExactState
<1>5. QED
  BY <1>1, <1>2, <1>3, <1>4 DEF StreamInv

LEMMA StartSampleStream ==
  ASSUME ExactSums, RowsInv, StreamInv, NEW r \in Ranks, StartSample(r)
  PROVE  StreamInv'
<1>1. CASE \E why \in {"state has zero total probability",
                       "sample_local_streaming requires positive local_prob"} : Abort(why)
  BY <1>1, AbortStream
<1>2. ASSUME NEW taus \in Thresholds(LocalProb(r), plan[r].cntLocal),
             cache' = [cache EXCEPT ![r] = [@ EXCEPT
                         !.taus = taus, !.pass = StartPass(sim[r].block, taus)]],
             Go(r, "stream"), NoMessages, sim' = sim, failed' = failed
      PROVE  StreamInv'
  <2>1. PICK p : p = sim[r].block
    OBVIOUS
  <2>2. Exactly(p, Size(p), InFront(p))
    BY <2>1, ExactFront DEF StreamInv
  <2>3. plan[r].cntLocal \in Nat /\ {"taus", "pass"} \subseteq DOMAIN cache[r]
    BY DEF RowsInv, Typed
  <2>4. LocalProb(r) = SumRange(p, 0, Size(p))
    BY <2>1 DEF LocalProb, Size
  <2>5. Drawing(p, taus, StartPass(p, taus))
    BY <1>2, <2>2, <2>3, <2>4, PassStarts DEF Drawing
  <2>6. cache'[r] = [cache[r] EXCEPT !.taus = taus, !.pass = StartPass(p, taus)]
    BY <1>2, <2>1, Domains
  <2>7. cache'[r].taus = taus /\ cache'[r].pass = StartPass(p, taus)
    BY <2>3, <2>6
  <2>8. pc' = [pc EXCEPT ![r] = "stream"]
    BY <1>2 DEF Go
  <2>9. Drawn(r)'
    BY <1>2, <2>1, <2>5, <2>7, <2>8, Domains DEF Drawn
  <2>10. OthersKeep(r)
    BY <1>2, <2>8, Domains DEF OthersKeep
  <2>11. AllResolved'
    BY <1>2 DEF AllResolved, StreamInv
  <2>12. QED
    BY <1>2, <2>9, <2>10, <2>11, AloneStream
<1>3. QED
  <2>1. \/ \E why \in {"state has zero total probability",
                       "sample_local_streaming requires positive local_prob"} : Abort(why)
        \/ /\ \E taus \in Thresholds(LocalProb(r), plan[r].cntLocal) :
                cache' = [cache EXCEPT ![r] = [@ EXCEPT
                            !.taus = taus, !.pass = StartPass(sim[r].block, taus)]]
           /\ Go(r, "stream") /\ NoMessages /\ sim' = sim /\ failed' = failed
    BY DEF StartSample
  <2>2. QED
    BY <1>1, <1>2, <2>1

LEMMA SampleSegmentStream ==
  ASSUME ExactSums, RowsInv, StreamInv, NEW r \in Ranks, SampleSegment(r)
  PROVE  StreamInv'
<1>1. PICK p, pass, next : p = sim[r].block /\ pass = cache[r].pass /\ next = PassStep(p, pass)
  OBVIOUS
<1>2. /\ pc[r] = "stream" /\ PassGoesOn(p, pass) /\ NoMessages
      /\ cache' = [cache EXCEPT ![r].pass = PassStep(p, @)]
      /\ pc' = pc /\ sim' = sim /\ failed' = failed
  BY <1>1 DEF SampleSegment, At
<1>3. Exactly(p, Size(p), InFront(p))
  BY <1>1, ExactFront DEF StreamInv
<1>4. Drawing(p, cache[r].taus, pass) /\ pass.seg < Size(p)
  BY <1>1, <1>2 DEF StreamInv, Drawn, PassGoesOn
<1>5. Drawing(p, cache[r].taus, next)
  BY <1>1, <1>3, <1>4, PassGoes DEF Drawing
<1>6. {"taus", "pass"} \subseteq DOMAIN cache[r]
  BY DEF RowsInv, Typed
<1>7. cache'[r] = [cache[r] EXCEPT !.pass = next] /\ \A s \in Ranks \ {r} : cache'[s] = cache[s]
  BY <1>1, <1>2, Domains
<1>8. cache'[r].taus = cache[r].taus /\ cache'[r].pass = next
  BY <1>6, <1>7
<1>9. Drawn(r)'
  BY <1>1, <1>2, <1>5, <1>8 DEF Drawn
<1>10. OthersKeep(r) /\ AllResolved'
  BY <1>2, <1>7 DEF OthersKeep, AllResolved, StreamInv
<1>11. QED
  BY <1>2, <1>9, <1>10, AloneStream

LEMMA EndSampleStream ==
  ASSUME ExactSums, RowsInv, StreamInv, NEW r \in Ranks, EndSample(r)
  PROVE  StreamInv'
<1>1. PICK p, pass, local : /\ p = sim[r].block /\ pass = cache[r].pass
                            /\ local = [i \in DOMAIN pass.rows |-> [rank |-> r, addr |-> pass.rows[i]]]
  OBVIOUS
<1>2. pc[r] = "stream" /\ ~PassGoesOn(p, pass) /\ failed = "no"
  BY <1>1 DEF EndSample, At
<1>3. Exactly(p, Size(p), InFront(p))
  BY <1>1, ExactFront DEF StreamInv
<1>4. Drawing(p, cache[r].taus, pass)
  BY <1>1, <1>2 DEF StreamInv, Drawn
<1>5. pass.seg >= Size(p) \/ pass.taus = << >>
  <2>1. Size(p) \in Nat /\ pass.seg \in Nat
    BY <1>3, <1>4 DEF Exactly, Summed, Drawing, Passing
  <2>2. QED
    BY <1>2, <2>1 DEF PassGoesOn
<1>6. pass.taus = << >>
  BY <1>3, <1>4, <1>5, PassEnds DEF Drawing
<1>7. /\ cache' = [cache EXCEPT ![r].local = local]
      /\ pc' = [pc EXCEPT ![r] = "size"] /\ NoMessages /\ sim' = sim /\ failed' = failed
  BY <1>1, <1>6 DEF EndSample, Go
<1>8. Found(p, cache[r].taus, local)
  <2>1. /\ IsList(pass.rows)
        /\ Resolved(pass.rows, Len(pass.rows), Size(p), InFront(p), cache[r].taus)
    BY <1>4 DEF Drawing, Passing
  <2>2. DOMAIN pass.rows = 1 .. Len(pass.rows)
    BY <2>1, ListLen
  <2>3. DOMAIN local = DOMAIN pass.rows /\ \A i \in DOMAIN local : local[i].addr = pass.rows[i]
    BY <1>1
  <2>4. QED
    BY <2>1, <2>2, <2>3 DEF Found, Resolved
<1>9. {"taus", "local"} \subseteq DOMAIN cache[r]
  BY DEF RowsInv, Typed
<1>10. cache'[r] = [cache[r] EXCEPT !.local = local] /\ \A s \in Ranks \ {r} : cache'[s] = cache[s]
  BY <1>7, Domains
<1>11. cache'[r].taus = cache[r].taus /\ cache'[r].local = local
  BY <1>9, <1>10
<1>12. pc'[r] = "size" /\ \A s \in Ranks \ {r} : pc'[s] = pc[s]
  BY <1>7, Domains
<1>13. Drawn(r)'
  BY <1>1, <1>7, <1>8, <1>11, <1>12 DEF Drawn
<1>14. OthersKeep(r) /\ AllResolved'
  BY <1>7, <1>10, <1>12 DEF OthersKeep, AllResolved, StreamInv
<1>15. QED
  BY <1>7, <1>13, <1>14, AloneStream

LEMMA InitStream ==
  ASSUME ExactSums, Init
  PROVE  StreamInv
<1>1. MaxSum \in Nat \ {0}
  BY DEF ExactSums
<1>2. ExactBlock([x \in {0} |-> 1])
  <2> DEFINE p == [x \in {0} |-> 1]
  <2>1. DOMAIN p = {0} /\ p[0] = 1
    OBVIOUS
  <2> HIDE DEF p
  <2>2. IsFiniteSet({0}) /\ Cardinality({0}) = 1
    BY FS_Singleton
  <2>3. Size(p) = 1 /\ {0} = 0 .. 1 - 1
    BY <2>1, <2>2 DEF Size
  <2>4. IsBlock(p)
    BY <2>1, <2>2, <2>3 DEF IsBlock
  <2>5. Summed(p, 1, InFront(p))
    BY <2>3, <2>4, FrontSums
  <2>6. InFront(p)[0] = 0 /\ InFront(p)[0 + 1] = InFront(p)[0] + p[0]
    <3>1. 0 \in 0 .. 1 - 1
      OBVIOUS
    <3>2. QED
      BY <2>5, <3>1 DEF Summed
  <2>7. InFront(p)[1] = 1
    BY <2>1, <2>6
  <2>8. QED
    BY <1>1, <2>3, <2>4, <2>7 DEF ExactBlock, p
<1>3. ExactBlock(<< >>)
  <2> DEFINE p == << >>
  <2>1. DOMAIN p = {} /\ IsFiniteSet({}) /\ Cardinality({}) = 0
    BY FS_EmptySet
  <2> HIDE DEF p
  <2>2. Size(p) = 0 /\ {} = 0 .. 0 - 1
    BY <2>1 DEF Size
  <2>3. IsBlock(p)
    BY <2>1, <2>2 DEF IsBlock
  <2>4. InFront(p)[0] = 0
    BY <2>3, FrontSums DEF Summed
  <2>5. QED
    BY <1>1, <2>2, <2>3, <2>4 DEF ExactBlock, p
<1>4. \A r \in Ranks : /\ sim[r].block = [x \in {0} |-> 1] \/ sim[r].block = << >>
                       /\ pc[r] = "call" /\ down[r] = << >>
  BY DEF Init, Everywhere
<1>5. \A r \in Ranks : ExactBlock(sim[r].block)
  BY <1>2, <1>3, <1>4
<1>6. \A r \in Ranks : Drawn(r)
  BY <1>4 DEF Drawn
<1>7. \A r \in Others : OnTheWay(r)
  BY <1>4 DEF OnTheWay, Others
<1>8. AllResolved
  BY DEF Init, AllResolved
<1>9. QED
  BY <1>5, <1>6, <1>7, <1>8 DEF StreamInv

LEMMA NextStream ==
  ASSUME ExactSums, RowsInv, StreamInv, [Next]_vars
  PROVE  StreamInv'
<1>1. CASE vars' = vars
  <2>1. UNCHANGED <<pc, sim, cache, down, failed>>
    BY <1>1 DEF vars
  <2>2. \A r \in Ranks : Drawn(r)'
    BY <2>1 DEF StreamInv, Drawn
  <2>3. \A r \in Others : OnTheWay(r)'
    BY <2>1 DEF StreamInv, OnTheWay, ExactState
  <2>4. QED
    BY <2>1, <2>2, <2>3 DEF StreamInv, AllResolved
<1>2. ASSUME NEW r \in Ranks, RankStep(r) PROVE StreamInv'
  <2>1. CASE Execute(r)
    BY <2>1, ExecuteStream
  <2>2. CASE StartSample(r) \/ SampleSegment(r) \/ EndSample(r)
    BY <2>2, StartSampleStream, SampleSegmentStream, EndSampleStream
  <2>3. CASE \/ MeasureNothing(r) \/ GetResults(r)
             \/ ScanUp(r) \/ ScanPrefix(r) \/ ScanTotal(r)
             \/ PlanSeed(r) \/ PlanProbs(r) \/ PlanCounts(r)
             \/ GatherSizes(r) \/ GatherRows(r) \/ ShareRows(r)
    BY <2>3, StepPasses, PassingKeeps
  <2>4. QED
    BY <1>2, <2>1, <2>2, <2>3 DEF RankStep
<1>3. QED
  BY <1>1, <1>2 DEF Next, Done

LEMMA SpecStream ==
  ASSUME ExactSums
  PROVE  Spec => []StreamInv
<1>1. Init => StreamInv
  BY InitStream
<1>2. RowsInv /\ StreamInv /\ [Next]_vars => StreamInv'
  BY NextStream
<1>3. QED
  BY <1>1, <1>2, SpecRows, PTL DEF Spec

\* The rows that a rank resolves are those of its thresholds: each is the address
\* whose share of the block's probability holds the threshold.  The trees of
\* merge_prob_sum_range and exclusive_scan_merge, the counter in front of the
\* segments, the two slots and the clamped upper_bound amount to that for every
\* block and every length of a segment, as long as no sum rounds.
THEOREM RowsFollowThresholds ==
  ASSUME ExactSums
  PROVE  Spec => []RowsMatchThresholds
<1>1. StreamInv => RowsMatchThresholds
  <2>1. SUFFICES ASSUME StreamInv, NEW r \in Ranks, NEW i \in DOMAIN cache[r].local, pc[r] = "size",
                        NEW p, p = sim[r].block, NEW tau, tau = cache[r].taus[i],
                        NEW row, row = cache[r].local[i].addr
                 PROVE  InFront(p)[row] <= tau /\ tau < InFront(p)[row] + p[row]
    BY DEF RowsMatchThresholds
  <2>2. ExactBlock(p) /\ Found(p, cache[r].taus, cache[r].local)
    BY <2>1 DEF StreamInv, Drawn
  <2>3. row \in 0 .. Size(p) - 1 /\ Falls(InFront(p), tau, row)
    BY <2>1, <2>2 DEF Found
  <2>4. InFront(p)[row + 1] = InFront(p)[row] + p[row]
    BY <2>2, <2>3, FrontSums DEF ExactBlock, Summed
  <2>5. QED
    BY <2>3, <2>4 DEF Falls
<1>2. QED
  BY <1>1, SpecStream, PTL

\* No threshold is left over behind the last segment, as the last check of
\* sample_local_streaming demands, as long as no sum rounds.
THEOREM NoThresholdLeft ==
  ASSUME ExactSums
  PROVE  Spec => []AllResolved
<1>1. StreamInv => AllResolved
  BY DEF StreamInv
<1>2. QED
  BY <1>1, SpecStream, PTL
=============================================================================
