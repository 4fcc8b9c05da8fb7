--------------------------- MODULE AlgebraProofs ---------------------------
(***************************************************************************)
(* The algebra under the other proofs: induction and folds, vectors and     *)
(* matrices over F2 with the elimination of solve(), and the arithmetic of  *)
(* amplitudes modulo 17.                                                    *)
(*                                                                         *)
(* The induction theorems of the library take the property as an operator;  *)
(* here it is a set, the set of the things that have it.  Likewise what a    *)
(* fold applies is a function here, and the function that the definition of *)
(* MapThenFoldSet names is described by its equation.                       *)
(***************************************************************************)
EXTENDS BitMat, Amplitudes, FiniteSetTheorems, TLAPS

-----------------------------------------------------------------------------
(***************************************************************************)
(* Induction.                                                              *)
(***************************************************************************)
LEMMA LeastNatural ==
  ASSUME NEW S \in SUBSET Nat, S # {}
  PROVE  \E n \in S : \A k \in S : n <= k
<1>1. IsWellFoundedOn(OpToRel(<, Nat), Nat)
  BY NatLessThanWellFounded
<1>2. PICK n \in S : \A k \in S : <<k, n>> \notin OpToRel(<, Nat)
  <2> HIDE DEF OpToRel, IsWellFoundedOn
  <2>1. QED
    BY <1>1, WFMin
<1>3. \A k \in S : ~(k < n)
  BY <1>2 DEF OpToRel
<1>4. QED
  BY <1>3

\* What holds of 0, and of n + 1 whenever it holds of n, holds of every number.
LEMMA NaturalInduction ==
  ASSUME NEW S, 0 \in S, \A n \in Nat : n \in S => n + 1 \in S
  PROVE  Nat \subseteq S
<1>1. SUFFICES ASSUME Nat \ S # {} PROVE FALSE
  OBVIOUS
<1>2. PICK n \in Nat \ S : \A k \in Nat \ S : n <= k
  <2>1. Nat \ S \in SUBSET Nat
    OBVIOUS
  <2>2. QED
    BY <1>1, <2>1, LeastNatural
<1>3. n # 0 /\ n - 1 \in Nat /\ n - 1 \in S
  BY <1>2
<1>4. n - 1 + 1 \in S
  BY <1>3
<1>5. QED
  BY <1>2, <1>4

\* Subsets of a finite set, by their number of elements.
LEMMA SubsetSize ==
  ASSUME NEW S, IsFiniteSet(S), NEW T \in SUBSET S
  PROVE  /\ Cardinality(T) \in Nat
         /\ Cardinality(T) <= Cardinality(S)
         /\ Cardinality(T) = 0 <=> T = {}
         /\ \A x \in T : /\ T \ {x} \in SUBSET S
                        /\ Cardinality(T \ {x}) = Cardinality(T) - 1
<1>1. IsFiniteSet(T) /\ Cardinality(T) <= Cardinality(S)
  BY FS_Subset
<1>2. Cardinality(T) \in Nat /\ (Cardinality(T) = 0 <=> T = {})
  BY <1>1, FS_CardinalityType, FS_EmptySet
<1>3. ASSUME NEW x \in T PROVE Cardinality(T \ {x}) = Cardinality(T) - 1
  BY <1>1, FS_RemoveElement
<1>4. QED
  BY <1>1, <1>2, <1>3

\* What holds of the empty set, and of any other set whenever it holds of what
\* is left without any one of the elements, holds of every finite set.
LEMMA FiniteInduction ==
  ASSUME NEW S, IsFiniteSet(S), NEW F, {} \in F,
         \A T \in SUBSET S : T # {} /\ (\A x \in T : T \ {x} \in F) => T \in F
  PROVE  S \in F
<1> DEFINE P == {n \in Nat : \A T \in SUBSET S : Cardinality(T) = n => T \in F}
<1>1. \A T \in SUBSET S : /\ Cardinality(T) \in Nat
                         /\ Cardinality(T) <= Cardinality(S)
                         /\ Cardinality(T) = 0 <=> T = {}
  BY SubsetSize
<1>0. \A T \in SUBSET S : \A x \in T : /\ T \ {x} \in SUBSET S
                                      /\ Cardinality(T \ {x}) = Cardinality(T) - 1
  BY SubsetSize
<1>2. 0 \in P
  BY <1>1
<1>3. ASSUME NEW n \in Nat, n \in P PROVE n + 1 \in P
  <2>1. ASSUME NEW T \in SUBSET S, Cardinality(T) = n + 1 PROVE T \in F
    <3>1. T # {}
      BY <1>1, <2>1
    <3>2. ASSUME NEW x \in T PROVE T \ {x} \in F
      <4>1. T \ {x} \in SUBSET S /\ Cardinality(T \ {x}) = n
        BY <1>0, <2>1
      <4>2. QED
        BY <1>3, <4>1
    <3>3. QED
      BY <3>1, <3>2
  <2>2. QED
    BY <2>1
<1> HIDE DEF P
<1>4. Nat \subseteq P
  BY <1>2, <1>3, NaturalInduction
<1>5. Cardinality(S) \in P
  BY <1>4, FS_CardinalityType
<1>6. QED
  BY <1>5 DEF P

-----------------------------------------------------------------------------
(***************************************************************************)
(* Folds.  g takes base to the empty set, and to any other subset T of S    *)
(* what G makes of the element c[T] and of the value without it.            *)
(***************************************************************************)
Iterates(g, S, base, c, G) ==
  g = [T \in SUBSET S |-> IF T = {} THEN base ELSE G[<<c[T], g[T \ {c[T]}]>>]]

Follows(g, S, base, c, G) ==
  \A T \in SUBSET S : g[T] = IF T = {} THEN base ELSE G[<<c[T], g[T \ {c[T]}]>>]

ChoosesIn(c, S) == \A T \in SUBSET S : T # {} => c[T] \in T

\* The function a fold is defined by exists, and its values are those of G.
LEMMA IteratesExists ==
  ASSUME NEW S, IsFiniteSet(S), NEW V, NEW base \in V, NEW G \in [S \X V -> V],
         NEW c, ChoosesIn(c, S)
  PROVE  \E g \in [SUBSET S -> V] : Iterates(g, S, base, c, G)
<1> DEFINE At(g, T) == IF T = {} THEN base ELSE G[<<c[T], g[T \ {c[T]}]>>]
           P == {n \in Nat : \E g \in [SUBSET S -> V] :
                   \A T \in SUBSET S : Cardinality(T) <= n => g[T] = At(g, T)}
<1>1. \A T \in SUBSET S : Cardinality(T) \in Nat
  BY SubsetSize
<1>11. \A T \in SUBSET S : Cardinality(T) <= Cardinality(S)
  BY SubsetSize
<1>12. \A T \in SUBSET S : Cardinality(T) <= 0 => T = {}
  <2>1. ASSUME NEW T \in SUBSET S, Cardinality(T) <= 0 PROVE T = {}
    <3>1. Cardinality(T) \in Nat /\ (Cardinality(T) = 0 <=> T = {})
      BY SubsetSize
    <3>2. QED
      BY <2>1, <3>1
  <2>2. QED
    BY <2>1
<1>0. \A T \in SUBSET S : \A x \in T : /\ T \ {x} \in SUBSET S
                                      /\ Cardinality(T \ {x}) = Cardinality(T) - 1
  BY SubsetSize
<1>2. \A T \in SUBSET S : T # {} =>
        /\ c[T] \in S
        /\ T \ {c[T]} \in SUBSET S
        /\ Cardinality(T \ {c[T]}) = Cardinality(T) - 1
  BY <1>0 DEF ChoosesIn
<1>3. 0 \in P
  <2>1. [T \in SUBSET S |-> base] \in [SUBSET S -> V]
    OBVIOUS
  <2>2. QED
    BY <1>12, <2>1
<1>4. ASSUME NEW n \in Nat, n \in P PROVE n + 1 \in P
  <2>1. PICK g \in [SUBSET S -> V] :
          \A T \in SUBSET S : Cardinality(T) <= n => g[T] = At(g, T)
    BY <1>4
  <2> DEFINE h == [T \in SUBSET S |-> IF Cardinality(T) <= n THEN g[T] ELSE At(g, T)]
  <2>2. \A T \in SUBSET S : At(g, T) \in V
    BY <1>2
  <2>3. h \in [SUBSET S -> V]
    BY <2>2
  <2>4. ASSUME NEW T \in SUBSET S, Cardinality(T) <= n + 1 PROVE h[T] = At(h, T)
    <3>1. h[T] = At(g, T)
      BY <2>1
    <3>2. CASE T = {}
      BY <3>1, <3>2
    <3>3. CASE T # {}
      <4>1. T \ {c[T]} \in SUBSET S /\ Cardinality(T \ {c[T]}) <= n
        <5>1. T \ {c[T]} \in SUBSET S /\ Cardinality(T \ {c[T]}) = Cardinality(T) - 1
          BY <1>2, <3>3
        <5>2. Cardinality(T) \in Nat
          BY <1>1
        <5>3. QED
          BY <2>4, <5>1, <5>2
      <4>2. h[T \ {c[T]}] = g[T \ {c[T]}]
        BY <4>1
      <4>3. QED
        BY <3>1, <4>2
    <3>4. QED
      BY <3>2, <3>3
  <2> HIDE DEF h, At
  <2>5. QED
    BY <2>3, <2>4
<1> HIDE DEF P
<1>5. Nat \subseteq P
  BY <1>3, <1>4, NaturalInduction
<1>6. Cardinality(S) \in P
  BY <1>5, FS_CardinalityType
<1>7. PICK g \in [SUBSET S -> V] :
        \A T \in SUBSET S : Cardinality(T) <= Cardinality(S) => g[T] = At(g, T)
  BY <1>6 DEF P
<1>8. \A T \in SUBSET S : g[T] = At(g, T)
  <2> HIDE DEF At
  <2>1. QED
    BY <1>7, <1>11
<1>9. g = [T \in SUBSET S |-> At(g, T)]
  BY <1>8
<1>10. QED
  BY <1>9 DEF Iterates

\* Two folds that start alike and choose and apply alike have the same values.
LEMMA IteratesUnique ==
  ASSUME NEW S, IsFiniteSet(S), NEW base, NEW c, ChoosesIn(c, S), NEW G, NEW g, NEW h,
         Follows(g, S, base, c, G), Follows(h, S, base, c, G)
  PROVE  g[S] = h[S]
<1> DEFINE P == {n \in Nat : \A T \in SUBSET S : Cardinality(T) = n => g[T] = h[T]}
<1>1. \A T \in SUBSET S : /\ Cardinality(T) \in Nat
                         /\ Cardinality(T) <= Cardinality(S)
                         /\ Cardinality(T) = 0 <=> T = {}
  BY SubsetSize
<1>0. \A T \in SUBSET S : \A x \in T : /\ T \ {x} \in SUBSET S
                                      /\ Cardinality(T \ {x}) = Cardinality(T) - 1
  BY SubsetSize
<1>2. 0 \in P
  <2>1. \A T \in SUBSET S : Cardinality(T) = 0 => T = {}
    BY <1>1
  <2>2. g[{}] = h[{}]
    BY DEF Follows
  <2>3. QED
    BY <2>1, <2>2
<1>3. ASSUME NEW n \in Nat, n \in P PROVE n + 1 \in P
  <2>1. ASSUME NEW T \in SUBSET S, Cardinality(T) = n + 1 PROVE g[T] = h[T]
    <3>1. T # {}
      BY <1>1, <2>1
    <3>2. c[T] \in T
      BY <3>1 DEF ChoosesIn
    <3>3. Cardinality(T \ {c[T]}) = n /\ T \ {c[T]} \in SUBSET S
      BY <1>0, <2>1, <3>2
    <3>4. g[T \ {c[T]}] = h[T \ {c[T]}]
      BY <1>3, <3>3
    <3>5. QED
      BY <3>1, <3>4 DEF Follows
  <2>2. QED
    BY <2>1
<1> HIDE DEF P
<1>4. Nat \subseteq P
  BY <1>2, <1>3, NaturalInduction
<1>5. Cardinality(S) \in P
  BY <1>4, FS_CardinalityType
<1>6. QED
  BY <1>5 DEF P

-----------------------------------------------------------------------------
(***************************************************************************)
(* Folds over a sequence take the largest index last.                       *)
(***************************************************************************)
LEMMA LargestIndex ==
  ASSUME NEW n \in Nat, NEW T \in SUBSET (1 .. n), T # {}
  PROVE  Max(T) \in T /\ \A k \in T : k <= Max(T)
<1> DEFINE Below == {k \in Nat : \A j \in T : j <= k}
<1>1. n \in Below /\ Below \in SUBSET Nat
  OBVIOUS
<1>2. PICK x \in Below : \A k \in Below : x <= k
  BY <1>1, LeastNatural
<1>3. x \in T
  <2>1. SUFFICES ASSUME x \notin T PROVE FALSE
    OBVIOUS
  <2>2. \A j \in T : j <= x - 1
    BY <2>1
  <2>3. x - 1 \in Nat
    <3>1. PICK j \in T : j <= x - 1
      BY <2>2
    <3>2. QED
      BY <3>1
  <2>5. x - 1 \in Below
    BY <2>2, <2>3
  <2>4. QED
    BY <1>2, <2>5
<1>4. \E y \in T : \A k \in T : y >= k
  BY <1>3
<1>5. QED
  BY <1>4 DEF Max

LEMMA LastIndex ==
  ASSUME NEW i \in Nat
  PROVE  /\ Max(1 .. i + 1) = i + 1
         /\ (1 .. i + 1) \ {i + 1} = 1 .. i
<1> DEFINE T == 1 .. i + 1
<1>0. i + 1 \in Nat /\ T \in SUBSET (1 .. i + 1) /\ i + 1 \in T
  OBVIOUS
<1> HIDE DEF T
<1>1. Max(T) \in T /\ \A k \in T : k <= Max(T)
  BY <1>0, LargestIndex
<1> USE DEF T
<1>2. i + 1 <= Max(1 .. i + 1)
  BY <1>0, <1>1
<1>3. QED
  BY <1>1, <1>2

LEMMA PrefixSteps ==
  ASSUME NEW n \in Nat, NEW i \in 0 .. n - 1
  PROVE  /\ 1 .. i + 1 \in SUBSET (1 .. n) /\ 1 .. i + 1 # {}
         /\ Max(1 .. i + 1) = i + 1
         /\ (1 .. i + 1) \ {i + 1} = 1 .. i
<1>1. i \in Nat /\ i + 1 <= n /\ 1 \in 1 .. i + 1
  OBVIOUS
<1>2. QED
  BY <1>1, LastIndex, SMTT(30)

\* The fold of a sequence of n elements exists.
FoldsFirst(g, n, V, base, G) ==
  /\ g \in [SUBSET (1 .. n) -> V]
  /\ g = [T \in SUBSET (1 .. n) |->
             IF T = {} THEN base ELSE G[<<Max(T), g[T \ {Max(T)}]>>]]

LEMMA SequenceFoldExists ==
  ASSUME NEW n \in Nat, NEW V, NEW base \in V, NEW G \in [(1 .. n) \X V -> V]
  PROVE  \E g : FoldsFirst(g, n, V, base, G)
<1> DEFINE c == [T \in SUBSET (1 .. n) |-> Max(T)]
<1>1. ChoosesIn(c, 1 .. n)
  BY LargestIndex DEF ChoosesIn
<1>2. IsFiniteSet(1 .. n)
  BY FS_Interval
<1>3. \E g \in [SUBSET (1 .. n) -> V] : Iterates(g, 1 .. n, base, c, G)
  BY <1>1, <1>2, IteratesExists
<1>4. QED
  BY <1>3 DEF Iterates, FoldsFirst

FollowsFirst(g, n, base, G) ==
  \A T \in SUBSET (1 .. n) :
    g[T] = IF T = {} THEN base ELSE G[<<Max(T), g[T \ {Max(T)}]>>]

\* Folds of two sequences that agree up to n agree there.
LEMMA SequenceFoldUnique ==
  ASSUME NEW n \in Nat, NEW base, NEW G, NEW g, NEW h,
         FollowsFirst(g, n, base, G), FollowsFirst(h, n, base, G)
  PROVE  g[1 .. n] = h[1 .. n]
<1> DEFINE c == [T \in SUBSET (1 .. n) |-> Max(T)]
<1>1. ChoosesIn(c, 1 .. n)
  <2>1. ASSUME NEW T \in SUBSET (1 .. n), T # {} PROVE c[T] \in T
    BY <2>1, LargestIndex
  <2>2. QED
    BY <2>1 DEF ChoosesIn
<1>3. IsFiniteSet(1 .. n)
  BY FS_Interval
<1>2. Follows(g, 1 .. n, base, c, G) /\ Follows(h, 1 .. n, base, c, G)
  BY DEF Follows, FollowsFirst
<1> HIDE DEF c
<1>4. QED
  BY <1>1, <1>2, <1>3, IteratesUnique

-----------------------------------------------------------------------------
(***************************************************************************)
(* Vectors over F2.                                                        *)
(***************************************************************************)
LEMMA XorMember ==
  ASSUME NEW x, NEW y, NEW e
  PROVE  e \in x \oplus y <=> (e \in x /\ e \notin y) \/ (e \notin x /\ e \in y)
  BY DEF \oplus

LEMMA XorClosed ==
  ASSUME NEW S, NEW x \in SUBSET S, NEW y \in SUBSET S
  PROVE  x \oplus y \in SUBSET S
  BY DEF \oplus

LEMMA XorComm ==
  ASSUME NEW x, NEW y
  PROVE  x \oplus y = y \oplus x
  BY DEF \oplus

LEMMA XorAssoc ==
  ASSUME NEW x, NEW y, NEW z
  PROVE  (x \oplus y) \oplus z = x \oplus (y \oplus z)
  BY DEF \oplus

LEMMA XorEmpty ==
  ASSUME NEW x
  PROVE  x \oplus {} = x /\ {} \oplus x = x /\ x \oplus x = {}
  BY DEF \oplus

LEMMA XorCancel ==
  ASSUME NEW x, NEW y
  PROVE  /\ (x \oplus y) \oplus y = x
         /\ x \oplus (x \oplus y) = y
  BY DEF \oplus

LEMMA XorInjective ==
  ASSUME NEW x, NEW y, NEW z, x \oplus z = y \oplus z
  PROVE  x = y
  BY XorCancel

LEMMA RowXorClosed ==
  ASSUME NEW S, NEW x \in SUBSET S, NEW dst \in S, NEW src
  PROVE  RowXor(x, dst, src) \in SUBSET S
  BY DEF RowXor, \oplus

LEMMA RowXorAdditive ==
  ASSUME NEW x, NEW y, NEW dst, NEW src
  PROVE  RowXor(x \oplus y, dst, src) = RowXor(x, dst, src) \oplus RowXor(y, dst, src)
  BY DEF RowXor, \oplus

LEMMA RowXorInvolution ==
  ASSUME NEW x, NEW dst, NEW src, dst # src
  PROVE  RowXor(RowXor(x, dst, src), dst, src) = x
  BY DEF RowXor, \oplus

(***************************************************************************)
(* Real addresses of m and of m + 1 bits.                                  *)
(***************************************************************************)
LEMMA RealZero == Real(0) = {{}}
  BY DEF Real

LEMMA RealXor ==
  ASSUME NEW k \in Nat, NEW x \in Real(k), NEW y \in Real(k)
  PROVE  x \oplus y \in Real(k)
  BY XorClosed DEF Real

LEMMA RealGrows ==
  ASSUME NEW k \in Nat
  PROVE  /\ \A x \in Real(k) : x \in Real(k + 1) /\ k \notin x
         /\ \A x \in Real(k + 1) : x \ {k} \in Real(k)
         /\ \A x \in Real(k + 1) : k \notin x => x \in Real(k) /\ x \ {k} = x
         /\ {k} \in Real(k + 1)
         /\ {} \in Real(k)
  BY DEF Real

-----------------------------------------------------------------------------
(***************************************************************************)
(* Parity: addition of two sets of bits adds their parities.               *)
(***************************************************************************)
LEMMA ParityXor ==
  ASSUME NEW v, NEW w, IsFiniteSet(v), IsFiniteSet(w)
  PROVE  /\ IsFiniteSet(v \oplus w)
         /\ Parity(v \oplus w) <=> ~(Parity(v) <=> Parity(w))
<1> DEFINE u == v \cup w
           i == v \cap w
<1>1. IsFiniteSet(u) /\ Cardinality(u) = Cardinality(v) + Cardinality(w) - Cardinality(i)
  BY FS_Union
<1>2. u \cap i = i /\ v \oplus w = u \ i
  BY DEF \oplus
<1>3. IsFiniteSet(u \ i) /\ Cardinality(u \ i) = Cardinality(u) - Cardinality(u \cap i)
  BY <1>1, FS_Difference
<1>4. IsFiniteSet(i)
  BY FS_Intersection
<1>5. Cardinality(v) \in Nat /\ Cardinality(w) \in Nat /\ Cardinality(i) \in Nat
  BY <1>4, FS_CardinalityType
<1>6. Cardinality(v \oplus w) = Cardinality(v) + Cardinality(w) - 2 * Cardinality(i)
  <2>1. Cardinality(v \oplus w) = Cardinality(u) - Cardinality(i)
    BY <1>2, <1>3
  <2> HIDE DEF u, i
  <2>2. QED
    BY <1>1, <1>5, <2>1
<1>7. \A a, c, e \in Nat :
        (a + c - 2 * e) % 2 = 1 <=> ~(a % 2 = 1 <=> c % 2 = 1)
  OBVIOUS
<1>8. QED
  BY <1>2, <1>3, <1>5, <1>6, <1>7 DEF Parity

LEMMA ParitySmall ==
  /\ ~Parity({})
  /\ \A e : Parity({e})
BY FS_EmptySet, FS_Singleton DEF Parity

LEMMA MeetXor ==
  ASSUME NEW u, NEW v, NEW w
  PROVE  (u \oplus v) \cap w = (u \cap w) \oplus (v \cap w)
BY DEF \oplus

-----------------------------------------------------------------------------
(***************************************************************************)
(* One turn of the elimination.                                            *)
(***************************************************************************)
Matrix(k) == [0 .. k - 1 -> SUBSET Rows]

ElimState(k) ==
  [rows : [Rows -> SUBSET (0 .. k - 1)], rhs : SUBSET Rows,
   pivot : [0 .. k - 1 -> Int], row : Nat]

\* x solves the equations that rows and right-hand side stand for.
Solves(rows, rhs, x) == \A r \in Rows : Parity(rows[r] \cap x) <=> r \in rhs

Candidates(st, c) == {r \in Rows : r >= st.row /\ c \in st.rows[r]}

\* The row that row r was before rows a and p were exchanged.
Exchanged(a, p, r) ==
  CASE r = p -> a
    [] r = a -> p
    [] OTHER -> r

LEMMA ExchangedBack ==
  ASSUME NEW a \in Rows, NEW p \in Rows, NEW r \in Rows
  PROVE  Exchanged(a, p, r) \in Rows /\ Exchanged(a, p, Exchanged(a, p, r)) = r
BY DEF Exchanged

LEMMA FirstCandidate ==
  ASSUME NEW k \in Nat, NEW st \in ElimState(k), NEW c, Candidates(st, c) # {}
  PROVE  LET p == Min(Candidates(st, c)) IN
         p \in Rows /\ p >= st.row /\ c \in st.rows[p] /\ st.row \in Rows
<1> DEFINE C == Candidates(st, c)
<1>1. C \in SUBSET Nat /\ C # {} /\ \A r \in C : r \in Rows /\ r >= st.row /\ c \in st.rows[r]
  BY DEF Candidates, Rows
<1> HIDE DEF C
<1>2. \E n \in C : \A r \in C : n <= r
  BY <1>1, LeastNatural
<1>3. Min(C) \in C
  BY <1>2 DEF Min
<1>4. st.row \in Nat
  BY DEF ElimState
<1>5. Min(C) \in Rows /\ Min(C) >= st.row /\ c \in st.rows[Min(C)]
  BY <1>1, <1>3
<1>6. st.row \in Rows
  BY <1>4, <1>5, RowsAssumption DEF Rows
<1>7. QED
  BY <1>5, <1>6 DEF C

LEMMA SwapFields ==
  ASSUME NEW k \in Nat, NEW st \in ElimState(k), st.row \in Rows, NEW p \in Rows
  PROVE  LET t == SwapRows(st, p) IN
         /\ t \in ElimState(k)
         /\ t.row = st.row /\ t.pivot = st.pivot
         /\ \A r \in Rows : /\ t.rows[r] = st.rows[Exchanged(st.row, p, r)]
                            /\ r \in t.rhs <=> Exchanged(st.row, p, r) \in st.rhs
<1> DEFINE t == SwapRows(st, p)
           newRows == [st.rows EXCEPT ![p] = st.rows[st.row], ![st.row] = st.rows[p]]
           newRhs == {r \in Rows : Exchanged(st.row, p, r) \in st.rhs}
<1>2. t = [rows |-> newRows, rhs |-> newRhs, pivot |-> st.pivot, row |-> st.row]
  BY DEF SwapRows, Exchanged
<1>3. newRows \in [Rows -> SUBSET (0 .. k - 1)]
  BY DEF ElimState
<1>4. \A r \in Rows : newRows[r] = st.rows[Exchanged(st.row, p, r)]
  BY DEF Exchanged, ElimState
<1> HIDE DEF newRows
<1>5. t \in ElimState(k)
  BY <1>2, <1>3 DEF ElimState
<1>6. QED
  BY <1>2, <1>4, <1>5

LEMMA ClearFields ==
  ASSUME NEW k \in Nat, NEW st \in ElimState(k), st.row \in Rows, NEW c \in 0 .. k - 1
  PROVE  LET t == ClearColumn(st, c)
             a == st.row
             hit(r) == r # a /\ c \in st.rows[r]
         IN
         /\ t \in ElimState(k)
         /\ t.row = a + 1 /\ t.pivot = [st.pivot EXCEPT ![c] = a]
         /\ \A r \in Rows :
              /\ t.rows[r] = IF hit(r) THEN st.rows[r] \oplus st.rows[a] ELSE st.rows[r]
              /\ r \in t.rhs <=> IF hit(r) THEN ~(r \in st.rhs <=> a \in st.rhs)
                                           ELSE r \in st.rhs
<1> DEFINE t == ClearColumn(st, c)
           a == st.row
           hits == {r \in Rows \ {a} : c \in st.rows[r]}
           newRows == [r \in Rows |-> IF r \in hits THEN st.rows[r] \oplus st.rows[a] ELSE st.rows[r]]
           newRhs == IF a \in st.rhs THEN st.rhs \oplus hits ELSE st.rhs
           newPivot == [st.pivot EXCEPT ![c] = a]
<1>2. t = [rows |-> newRows, rhs |-> newRhs, pivot |-> newPivot, row |-> a + 1]
  BY DEF ClearColumn
<1>3. newRows \in [Rows -> SUBSET (0 .. k - 1)]
  <2>1. \A r \in Rows : st.rows[r] \in SUBSET (0 .. k - 1)
    BY DEF ElimState
  <2>2. \A r \in Rows : st.rows[r] \oplus st.rows[a] \in SUBSET (0 .. k - 1)
    BY <2>1, XorClosed
  <2>3. QED
    BY <2>1, <2>2
<1>4. newRhs \in SUBSET Rows
  BY XorClosed DEF ElimState
<1>5. newPivot \in [0 .. k - 1 -> Int] /\ a + 1 \in Nat
  BY DEF ElimState, Rows
<1>6. \A r \in Rows :
        r \in newRhs <=> IF r # a /\ c \in st.rows[r] THEN ~(r \in st.rhs <=> a \in st.rhs)
                                                      ELSE r \in st.rhs
  BY XorMember
<1>7. \A r \in Rows :
        newRows[r] = IF r # a /\ c \in st.rows[r] THEN st.rows[r] \oplus st.rows[a]
                                                  ELSE st.rows[r]
  OBVIOUS
<1> HIDE DEF newRows, newRhs, newPivot
<1>8. t \in ElimState(k)
  BY <1>2, <1>3, <1>4, <1>5 DEF ElimState
<1>9. t.rows = newRows /\ t.rhs = newRhs /\ t.pivot = newPivot /\ t.row = a + 1
  BY <1>2
<1> HIDE DEF t
<1>10. QED
  BY <1>6, <1>7, <1>8, <1>9 DEF newPivot, t

LEMMA SwapSolves ==
  ASSUME NEW k \in Nat, NEW st \in ElimState(k), st.row \in Rows, NEW p \in Rows, NEW x
  PROVE  LET t == SwapRows(st, p) IN
         Solves(t.rows, t.rhs, x) <=> Solves(st.rows, st.rhs, x)
<1> DEFINE t == SwapRows(st, p)
<1>1. \A r \in Rows : /\ t.rows[r] = st.rows[Exchanged(st.row, p, r)]
                      /\ r \in t.rhs <=> Exchanged(st.row, p, r) \in st.rhs
  BY SwapFields
<1>2. \A r \in Rows : /\ Exchanged(st.row, p, r) \in Rows
                      /\ Exchanged(st.row, p, Exchanged(st.row, p, r)) = r
  BY ExchangedBack
<1> HIDE DEF t
<1>3. ASSUME Solves(st.rows, st.rhs, x) PROVE Solves(t.rows, t.rhs, x)
  BY <1>1, <1>2, <1>3 DEF Solves
<1>4. ASSUME Solves(t.rows, t.rhs, x) PROVE Solves(st.rows, st.rhs, x)
  <2>1. ASSUME NEW r \in Rows PROVE Parity(st.rows[r] \cap x) <=> r \in st.rhs
    <3>1. PICK s \in Rows : s = Exchanged(st.row, p, r)
      BY <1>2
    <3>2. Exchanged(st.row, p, s) = r
      BY <1>2, <3>1
    <3>3. t.rows[s] = st.rows[r] /\ (s \in t.rhs <=> r \in st.rhs)
      BY <1>1, <3>2
    <3>4. Parity(t.rows[s] \cap x) <=> s \in t.rhs
      BY <1>4 DEF Solves
    <3>5. QED
      BY <3>3, <3>4
  <2>2. QED
    BY <2>1 DEF Solves
<1>5. QED
  BY <1>3, <1>4 DEF t

LEMMA ClearSolves ==
  ASSUME NEW k \in Nat, NEW st \in ElimState(k), st.row \in Rows, NEW c \in 0 .. k - 1,
         NEW x
  PROVE  LET t == ClearColumn(st, c) IN
         Solves(t.rows, t.rhs, x) <=> Solves(st.rows, st.rhs, x)
<1> DEFINE t == ClearColumn(st, c)
           a == st.row
           Hit(r) == r # a /\ c \in st.rows[r]
<1>1. \A r \in Rows :
        /\ t.rows[r] = IF Hit(r) THEN st.rows[r] \oplus st.rows[a] ELSE st.rows[r]
        /\ r \in t.rhs <=> IF Hit(r) THEN ~(r \in st.rhs <=> a \in st.rhs)
                                     ELSE r \in st.rhs
  BY ClearFields
<1>2. \A r \in Rows : IsFiniteSet(st.rows[r] \cap x)
  <2>1. \A r \in Rows : st.rows[r] \in SUBSET (0 .. k - 1)
    BY DEF ElimState
  <2>2. IsFiniteSet(0 .. k - 1)
    BY FS_Interval
  <2>3. \A r \in Rows : IsFiniteSet(st.rows[r])
    BY <2>1, <2>2, FS_Subset
  <2>4. QED
    BY <2>3, FS_Intersection
<1>3. \A r \in Rows :
        Parity((st.rows[r] \oplus st.rows[a]) \cap x)
          <=> ~(Parity(st.rows[r] \cap x) <=> Parity(st.rows[a] \cap x))
  <2>1. ASSUME NEW r \in Rows
        PROVE  Parity((st.rows[r] \oplus st.rows[a]) \cap x)
                 <=> ~(Parity(st.rows[r] \cap x) <=> Parity(st.rows[a] \cap x))
    <3>1. (st.rows[r] \oplus st.rows[a]) \cap x = (st.rows[r] \cap x) \oplus (st.rows[a] \cap x)
      BY MeetXor
    <3>2. IsFiniteSet(st.rows[r] \cap x) /\ IsFiniteSet(st.rows[a] \cap x)
      BY <1>2
    <3>3. Parity((st.rows[r] \cap x) \oplus (st.rows[a] \cap x))
            <=> ~(Parity(st.rows[r] \cap x) <=> Parity(st.rows[a] \cap x))
      BY <3>2, ParityXor
    <3>4. QED
      BY <3>1, <3>3
  <2>2. QED
    BY <2>1
<1>4. ~Hit(a)
  OBVIOUS
<1> HIDE DEF t, Hit
<1>5. \A r \in Rows :
        Parity(t.rows[r] \cap x)
          <=> IF Hit(r) THEN ~(Parity(st.rows[r] \cap x) <=> Parity(st.rows[a] \cap x))
                        ELSE Parity(st.rows[r] \cap x)
  BY <1>1, <1>3
<1>6. (Parity(t.rows[a] \cap x) <=> a \in t.rhs)
        <=> (Parity(st.rows[a] \cap x) <=> a \in st.rhs)
  BY <1>1, <1>4
<1>7. ASSUME Parity(st.rows[a] \cap x) <=> a \in st.rhs, NEW r \in Rows
      PROVE  (Parity(t.rows[r] \cap x) <=> r \in t.rhs)
               <=> (Parity(st.rows[r] \cap x) <=> r \in st.rhs)
  BY <1>1, <1>5, <1>7
<1>8. QED
  BY <1>6, <1>7 DEF Solves, t

-----------------------------------------------------------------------------
(***************************************************************************)
(* The elimination after i of the k columns of mat, with right-hand side    *)
(* rhs.  The equations have kept their solutions.  A column that is done    *)
(* either has a pivot row, where it is the only one of its column, or is    *)
(* zero from the next pivot row on; every row before that one is the pivot  *)
(* row of one column.                                                      *)
(***************************************************************************)
Reduced(mat, rhs, k, i, st) ==
  /\ st \in ElimState(k)
  /\ \A x : Solves(st.rows, st.rhs, x) <=> Solves([r \in Rows |-> GetRow(mat, r)], rhs, x)
  /\ st.row <= N
  /\ \A r \in Rows : r >= st.row => \A c \in st.rows[r] : c >= i
  /\ \A c \in 0 .. k - 1 :
       \/ st.pivot[c] = -1
       \/ /\ st.pivot[c] \in 0 .. st.row - 1
          /\ c < i
          /\ \A r \in Rows : c \in st.rows[r] <=> r = st.pivot[c]
  /\ \A c, d \in 0 .. k - 1 : st.pivot[c] = st.pivot[d] => c = d \/ st.pivot[c] = -1
  /\ \A r \in 0 .. st.row - 1 : \E c \in 0 .. i - 1 : st.pivot[c] = r

LEMMA StartReduced ==
  ASSUME NEW k \in Nat, NEW mat \in Matrix(k), NEW rhs \in SUBSET Rows
  PROVE  Reduced(mat, rhs, k, 0, StartElim(mat, rhs))
<1> DEFINE st == StartElim(mat, rhs)
<1>1. /\ st.rows = [r \in Rows |-> GetRow(mat, r)]
      /\ st.rhs = rhs
      /\ st.pivot = [c \in 0 .. k - 1 |-> -1]
      /\ st.row = 0
      /\ st = [rows |-> st.rows, rhs |-> st.rhs, pivot |-> st.pivot, row |-> st.row]
  BY DEF StartElim, Matrix
<1>2. \A r \in Rows : GetRow(mat, r) \in SUBSET (0 .. k - 1)
  BY DEF GetRow, Matrix
<1> HIDE DEF st
<1>3. st \in ElimState(k)
  <2>1. /\ st.rows \in [Rows -> SUBSET (0 .. k - 1)]
        /\ st.pivot \in [0 .. k - 1 -> Int]
        /\ st.row \in Nat /\ st.rhs \in SUBSET Rows
    BY <1>1, <1>2
  <2>2. QED
    BY <1>1, <2>1 DEF ElimState
<1>4. \A r \in Rows : \A c \in st.rows[r] : c >= 0
  BY <1>1, <1>2
<1>5. \A c \in 0 .. k - 1 : st.pivot[c] = -1
  BY <1>1
<1>6. st.row <= N /\ \A r \in 0 .. st.row - 1 : FALSE
  BY <1>1, RowsAssumption
<1>7. \A x : Solves(st.rows, st.rhs, x) <=> Solves([r \in Rows |-> GetRow(mat, r)], rhs, x)
  BY <1>1
<1>8. QED
  BY <1>3, <1>4, <1>5, <1>6, <1>7 DEF Reduced, st

LEMMA ColumnReduced ==
  ASSUME NEW k \in Nat, NEW mat \in Matrix(k), NEW rhs \in SUBSET Rows,
         NEW i \in 0 .. k - 1, NEW st, Reduced(mat, rhs, k, i, st)
  PROVE  Reduced(mat, rhs, k, i + 1, ElimColumn(st, i))
<1>1. /\ st \in ElimState(k)
      /\ \A x : Solves(st.rows, st.rhs, x) <=> Solves([r \in Rows |-> GetRow(mat, r)], rhs, x)
      /\ st.row <= N
      /\ \A r \in Rows : r >= st.row => \A c \in st.rows[r] : c >= i
  BY DEF Reduced
<1>2. \A c \in 0 .. k - 1 :
        \/ st.pivot[c] = -1
        \/ /\ st.pivot[c] \in 0 .. st.row - 1
           /\ c < i
           /\ \A r \in Rows : c \in st.rows[r] <=> r = st.pivot[c]
  BY DEF Reduced
<1>3. /\ \A c, d \in 0 .. k - 1 : st.pivot[c] = st.pivot[d] => c = d \/ st.pivot[c] = -1
      /\ \A r \in 0 .. st.row - 1 : \E c \in 0 .. i - 1 : st.pivot[c] = r
  BY DEF Reduced
<1>4. /\ st.row \in Nat /\ st.pivot \in [0 .. k - 1 -> Int]
      /\ \A r \in Rows : st.rows[r] \in SUBSET (0 .. k - 1)
  BY <1>1 DEF ElimState
<1>5. CASE Candidates(st, i) = {}
  <2>1. ElimColumn(st, i) = st
    BY <1>5 DEF ElimColumn, Candidates
  <2>2. \A r \in Rows : r >= st.row => \A c \in st.rows[r] : c >= i + 1
    <3>1. \A r \in Rows : r >= st.row => i \notin st.rows[r]
      BY <1>5 DEF Candidates
    <3>2. \A r \in Rows : \A c \in st.rows[r] : c \in Int
      BY <1>4
    <3>3. QED
      BY <1>1, <3>1, <3>2
  <2>3. \A c \in 0 .. k - 1 :
          \/ st.pivot[c] = -1
          \/ /\ st.pivot[c] \in 0 .. st.row - 1
             /\ c < i + 1
             /\ \A r \in Rows : c \in st.rows[r] <=> r = st.pivot[c]
    BY <1>2
  <2>4. \A r \in 0 .. st.row - 1 : \E c \in 0 .. (i + 1) - 1 : st.pivot[c] = r
    BY <1>3
  <2>5. QED
    BY <1>1, <1>3, <2>1, <2>2, <2>3, <2>4 DEF Reduced
<1>6. CASE Candidates(st, i) # {}
  <2> DEFINE p == Min(Candidates(st, i))
             t == SwapRows(st, p)
             a == st.row
             u == ClearColumn(t, i)
  <2>1. p \in Rows /\ p >= a /\ i \in st.rows[p] /\ a \in Rows
    BY <1>1, <1>6, FirstCandidate
  <2>2. ElimColumn(st, i) = u
    BY <1>6 DEF ElimColumn, Candidates
  <2> HIDE DEF p
  <2>3. /\ t \in ElimState(k) /\ t.row = a /\ t.pivot = st.pivot
        /\ \A r \in Rows : t.rows[r] = st.rows[Exchanged(a, p, r)]
    BY <1>1, <2>1, SwapFields
  <2>4. \A x : Solves(t.rows, t.rhs, x) <=> Solves(st.rows, st.rhs, x)
    BY <1>1, <2>1, SwapSolves
  <2> HIDE DEF t
  <2>5. /\ u \in ElimState(k) /\ u.row = a + 1 /\ u.pivot = [st.pivot EXCEPT ![i] = a]
        /\ \A r \in Rows :
             u.rows[r] = IF r # a /\ i \in t.rows[r] THEN t.rows[r] \oplus t.rows[a] ELSE t.rows[r]
    BY <2>1, <2>3, ClearFields
  <2>6. \A x : Solves(u.rows, u.rhs, x) <=> Solves(t.rows, t.rhs, x)
    BY <2>1, <2>3, ClearSolves
  <2> HIDE DEF u
  <2>7. \A r \in Rows : r >= a => Exchanged(a, p, r) \in Rows /\ Exchanged(a, p, r) >= a
    BY <1>4, <2>1 DEF Exchanged
  <2>8. \A r \in Rows : r >= a => \A c \in t.rows[r] : c >= i
    BY <1>1, <2>3, <2>7
  <2>9. i \in t.rows[a]
    BY <2>1, <2>3 DEF Exchanged
  <2>10. \A r \in Rows : t.rows[r] \in SUBSET (0 .. k - 1)
    BY <2>3 DEF ElimState
  <2>11. ASSUME NEW r \in Rows, r >= a + 1, NEW c \in u.rows[r] PROVE c >= i + 1
    <3>1. r # a /\ r >= a /\ a >= a
      BY <1>4, <2>1, <2>11 DEF Rows
    <3>2. CASE i \in t.rows[r]
      <4>1. u.rows[r] = t.rows[r] \oplus t.rows[a]
        BY <2>5, <3>1, <3>2
      <4>2. c \in t.rows[r] \/ c \in t.rows[a]
        BY <2>11, <4>1, XorMember
      <4>3. c # i
        BY <2>9, <2>11, <3>2, <4>1, XorMember
      <4>4. c >= i /\ c \in Int
        BY <2>1, <2>8, <2>10, <3>1, <4>2
      <4>5. QED
        BY <4>3, <4>4
    <3>3. CASE i \notin t.rows[r]
      <4>1. u.rows[r] = t.rows[r]
        BY <2>5, <3>3
      <4>2. c \in t.rows[r] /\ c # i
        BY <2>11, <3>3, <4>1
      <4>3. c >= i /\ c \in Int
        BY <2>8, <2>10, <3>1, <4>2
      <4>4. QED
        BY <4>2, <4>3
    <3>4. QED
      BY <3>2, <3>3
  <2>12. \A r \in Rows : i \in u.rows[r] <=> r = a
    BY <2>5, <2>9, XorMember
  <2>13. ASSUME NEW c \in 0 .. k - 1, c # i, st.pivot[c] # -1
         PROVE  /\ st.pivot[c] \in 0 .. a - 1 /\ c < i
                /\ \A r \in Rows : c \in u.rows[r] <=> r = st.pivot[c]
    <3> DEFINE q == st.pivot[c]
    <3>1. q \in 0 .. a - 1 /\ c < i /\ \A r \in Rows : c \in st.rows[r] <=> r = q
      BY <1>2, <2>13
    <3> HIDE DEF q
    <3>2. q # a /\ q # p /\ q \in Rows
      <4>1. q \in 0 .. a - 1
        BY <3>1
      <4>2. a \in 0 .. N - 1 /\ p \in 0 .. N - 1 /\ p >= a /\ N \in Nat
        BY <2>1, RowsAssumption DEF Rows
      <4> HIDE DEF a
      <4>3. QED
        BY <4>1, <4>2 DEF Rows
    <3>3. \A r \in Rows : Exchanged(a, p, r) \in Rows /\ (Exchanged(a, p, r) = q <=> r = q)
      BY <2>1, <3>2 DEF Exchanged
    <3>4. \A r \in Rows : c \in t.rows[r] <=> r = q
      BY <2>3, <3>1, <3>3
    <3>5. c \notin t.rows[a]
      BY <2>1, <3>2, <3>4
    <3>6. \A r \in Rows : c \in u.rows[r] <=> c \in t.rows[r]
      BY <2>5, <3>5, XorMember
    <3>7. QED
      BY <3>1, <3>4, <3>6 DEF q
  <2>14. u.pivot[i] = a /\ \A c \in 0 .. k - 1 : c # i => u.pivot[c] = st.pivot[c]
    BY <1>4, <2>5
  <2>15. \A c \in 0 .. k - 1 :
           \/ u.pivot[c] = -1
           \/ /\ u.pivot[c] \in 0 .. u.row - 1
              /\ c < i + 1
              /\ \A r \in Rows : c \in u.rows[r] <=> r = u.pivot[c]
    <3>1. ASSUME NEW c \in 0 .. k - 1, u.pivot[c] # -1
          PROVE  /\ u.pivot[c] \in 0 .. u.row - 1
                 /\ c < i + 1
                 /\ \A r \in Rows : c \in u.rows[r] <=> r = u.pivot[c]
      <4>1. CASE c = i
        BY <1>4, <2>5, <2>12, <2>14, <4>1
      <4>2. CASE c # i
        BY <1>4, <2>5, <2>13, <2>14, <3>1, <4>2, SMTT(30)
      <4>3. QED
        BY <4>1, <4>2
    <3>2. QED
      BY <3>1
  <2>16. \A c, d \in 0 .. k - 1 : u.pivot[c] = u.pivot[d] => c = d \/ u.pivot[c] = -1
    <3>1. ASSUME NEW c \in 0 .. k - 1, c # i PROVE u.pivot[c] # a
      <4>1. CASE st.pivot[c] = -1
        BY <1>4, <2>14, <3>1, <4>1
      <4>2. CASE st.pivot[c] # -1
        <5>1. st.pivot[c] \in 0 .. a - 1
          BY <2>13, <3>1, <4>2
        <5>2. QED
          BY <1>4, <2>14, <3>1, <5>1
      <4>3. QED
        BY <4>1, <4>2
    <3>2. QED
      BY <1>3, <2>14, <3>1
  <2>17. \A r \in 0 .. u.row - 1 : \E c \in 0 .. (i + 1) - 1 : u.pivot[c] = r
    <3>1. ASSUME NEW r \in 0 .. a PROVE \E c \in 0 .. i : u.pivot[c] = r
      <4>1. CASE r = a
        BY <2>14, <4>1
      <4>2. CASE r # a
        <5>1. r \in 0 .. a - 1
          BY <1>4, <4>2
        <5>2. PICK c \in 0 .. i - 1 : st.pivot[c] = r
          BY <1>3, <5>1
        <5>3. u.pivot[c] = r /\ c \in 0 .. i
          BY <2>14, <5>2
        <5>4. QED
          BY <5>3
      <4>3. QED
        BY <4>1, <4>2
    <3>2. QED
      BY <1>4, <2>5, <3>1
  <2>18. u.row <= N /\ u.row = a + 1
    BY <2>1, <2>5, RowsAssumption DEF Rows
  <2>19. \A r \in Rows : r >= u.row => \A c \in u.rows[r] : c >= i + 1
    BY <2>11, <2>18
  <2>20. \A x : Solves(u.rows, u.rhs, x) <=> Solves([r \in Rows |-> GetRow(mat, r)], rhs, x)
    BY <1>1, <2>4, <2>6
  <2>21. QED
    BY <2>2, <2>5, <2>15, <2>16, <2>17, <2>18, <2>19, <2>20 DEF Reduced
<1>7. QED
  BY <1>5, <1>6

-----------------------------------------------------------------------------
(***************************************************************************)
(* The whole elimination.                                                  *)
(***************************************************************************)
LEMMA ColumnTyped ==
  ASSUME NEW k \in Nat, NEW c \in 0 .. k - 1, NEW st \in ElimState(k)
  PROVE  ElimColumn(st, c) \in ElimState(k)
<1>1. CASE Candidates(st, c) = {}
  BY <1>1 DEF ElimColumn, Candidates
<1>2. CASE Candidates(st, c) # {}
  <2> DEFINE p == Min(Candidates(st, c))
             t == SwapRows(st, p)
  <2>1. p \in Rows /\ st.row \in Rows
    BY <1>2, FirstCandidate
  <2>2. ElimColumn(st, c) = ClearColumn(t, c)
    BY <1>2 DEF ElimColumn, Candidates
  <2> HIDE DEF p
  <2>3. t \in ElimState(k) /\ t.row \in Rows
    BY <2>1, SwapFields
  <2> HIDE DEF t
  <2>4. ClearColumn(t, c) \in ElimState(k)
    BY <2>3, ClearFields
  <2>5. QED
    BY <2>2, <2>4
<1>3. QED
  BY <1>1, <1>2

LEMMA MatrixCols ==
  ASSUME NEW k \in Nat, NEW S, NEW mat \in [0 .. k - 1 -> S]
  PROVE  Cols(mat) = k
BY FS_Interval DEF Cols

\* The states of the loop over the columns, from the first to the one that solve()
\* reads.
LEMMA EliminationSteps ==
  ASSUME NEW k \in Nat, NEW mat \in Matrix(k), NEW rhs \in SUBSET Rows
  PROVE  \E st : /\ st[0] = StartElim(mat, rhs)
                 /\ \A i \in 0 .. k - 1 : st[i + 1] = ElimColumn(st[i], i)
                 /\ Eliminated(mat, rhs) = st[k]
<1> DEFINE start == StartElim(mat, rhs)
           V == ElimState(k)
           seq == [i \in 1 .. k |-> i - 1]
           G == [p \in (1 .. k) \X V |-> ElimColumn(p[2], seq[p[1]])]
           Eq(g) == g = [T \in SUBSET (1 .. k) |->
                           IF T = {} THEN start
                           ELSE ElimColumn(g[T \ {Max(T)}], seq[Max(T)])]
           iter == CHOOSE g : Eq(g)
<1>1. start \in V
  BY StartReduced DEF Reduced
<1>2. G \in [(1 .. k) \X V -> V]
  <2>1. \A p \in (1 .. k) \X V : ElimColumn(p[2], seq[p[1]]) \in V
    BY ColumnTyped
  <2>2. QED
    BY <2>1
<1>3. \E g : Eq(g)
  <2> HIDE DEF G, V, start
  <2>0. PICK g : FoldsFirst(g, k, V, start, G)
    BY <1>1, <1>2, SequenceFoldExists
  <2>1. /\ g \in [SUBSET (1 .. k) -> V]
        /\ g = [T \in SUBSET (1 .. k) |->
                  IF T = {} THEN start ELSE G[<<Max(T), g[T \ {Max(T)}]>>]]
    BY <2>0 DEF FoldsFirst
  <2>2. ASSUME NEW T \in SUBSET (1 .. k), T # {}
        PROVE  G[<<Max(T), g[T \ {Max(T)}]>>] = ElimColumn(g[T \ {Max(T)}], seq[Max(T)])
    <3>1. Max(T) \in 1 .. k
      BY <2>2, LargestIndex
    <3>2. T \ {Max(T)} \in SUBSET (1 .. k)
      OBVIOUS
    <3>3. g[T \ {Max(T)}] \in V
      BY <2>1, <3>2
    <3>4. QED
      BY <3>1, <3>3 DEF G
  <2>3. Eq(g)
    BY <2>1, <2>2
  <2>4. QED
    BY <2>3
<1>4. Eq(iter)
  BY <1>3
<1>5. Eliminated(mat, rhs) = iter[1 .. k]
  <2>1. Cols(mat) = k
    BY MatrixCols DEF Matrix
  <2>2. QED
    BY <2>1 DEF Eliminated, Seqs!FoldLeft, Seqs!MapThenFoldSet, Seqs!Max, Max
<1> HIDE DEF iter
<1>6. iter[{}] = start
  BY <1>4
<1>7. ASSUME NEW i \in 0 .. k - 1 PROVE iter[1 .. i + 1] = ElimColumn(iter[1 .. i], i)
  <2>1. Max(1 .. i + 1) = i + 1 /\ (1 .. i + 1) \ {i + 1} = 1 .. i
    BY PrefixSteps
  <2>2. 1 .. i + 1 \in SUBSET (1 .. k) /\ 1 .. i + 1 # {}
    BY PrefixSteps
  <2>3. iter[1 .. i + 1] = ElimColumn(iter[1 .. i], seq[i + 1])
    BY <1>4, <2>1, <2>2
  <2>4. seq[i + 1] = i
    OBVIOUS
  <2>5. QED
    BY <2>3, <2>4
<1> DEFINE st == [i \in 0 .. k |-> iter[1 .. i]]
<1>8. st[0] = start
  BY <1>6
<1>9. \A i \in 0 .. k - 1 : st[i + 1] = ElimColumn(st[i], i)
  BY <1>7
<1>10. st[k] = iter[1 .. k]
  OBVIOUS
<1>11. QED
  BY <1>5, <1>8, <1>9, <1>10

LEMMA EliminatedReduced ==
  ASSUME NEW k \in Nat, NEW mat \in Matrix(k), NEW rhs \in SUBSET Rows
  PROVE  Reduced(mat, rhs, k, k, Eliminated(mat, rhs))
<1>1. PICK st : /\ st[0] = StartElim(mat, rhs)
                /\ \A i \in 0 .. k - 1 : st[i + 1] = ElimColumn(st[i], i)
                /\ Eliminated(mat, rhs) = st[k]
  BY EliminationSteps
<1> DEFINE P == {i \in Nat : i <= k => Reduced(mat, rhs, k, i, st[i])}
<1>2. 0 \in P
  BY <1>1, StartReduced
<1>3. ASSUME NEW i \in Nat, i \in P PROVE i + 1 \in P
  <2>1. ASSUME i + 1 <= k PROVE Reduced(mat, rhs, k, i + 1, st[i + 1])
    <3>1. i \in 0 .. k - 1 /\ Reduced(mat, rhs, k, i, st[i])
      BY <1>3, <2>1
    <3>2. Reduced(mat, rhs, k, i + 1, ElimColumn(st[i], i))
      BY <3>1, ColumnReduced
    <3>3. QED
      BY <1>1, <3>1, <3>2
  <2>2. QED
    BY <2>1
<1> HIDE DEF P
<1>4. k \in P
  BY <1>2, <1>3, NaturalInduction
<1>5. QED
  BY <1>1, <1>4 DEF P

RowsOf(mat) == [r \in Rows |-> GetRow(mat, r)]

\* What solve() answers, in terms of the equations: with ok, x solves all of them;
\* without it no x does.
LEMMA SolveSolves ==
  ASSUME NEW k \in Nat, NEW mat \in Matrix(k), NEW rhs \in SUBSET Rows
  PROVE  /\ Solve(mat, rhs).x \in Real(k)
         /\ Solve(mat, rhs).ok \in BOOLEAN
         /\ Solve(mat, rhs).ok => Solves(RowsOf(mat), rhs, Solve(mat, rhs).x)
         /\ ~Solve(mat, rhs).ok => \A x : ~Solves(RowsOf(mat), rhs, x)
<1> DEFINE st == Eliminated(mat, rhs)
           x == {c \in DOMAIN mat : st.pivot[c] \in st.rhs}
           ok == \A r \in Rows : st.rows[r] = {} => r \notin st.rhs
<1>1. Solve(mat, rhs).ok = ok /\ Solve(mat, rhs).x = x
  BY DEF Solve
<1>2. Reduced(mat, rhs, k, k, st)
  BY EliminatedReduced
<1>3. DOMAIN mat = 0 .. k - 1
  BY DEF Matrix
<1> HIDE DEF st
<1>4. /\ st.row \in Nat /\ st.pivot \in [0 .. k - 1 -> Int] /\ st.rhs \in SUBSET Rows
      /\ \A r \in Rows : st.rows[r] \in SUBSET (0 .. k - 1)
  BY <1>2 DEF Reduced, ElimState
<1>5. /\ \A y : Solves(st.rows, st.rhs, y) <=> Solves(RowsOf(mat), rhs, y)
      /\ \A r \in Rows : r >= st.row => \A c \in st.rows[r] : c >= k
  BY <1>2 DEF Reduced, RowsOf
<1>6. \A c \in 0 .. k - 1 :
        \/ st.pivot[c] = -1
        \/ /\ st.pivot[c] \in 0 .. st.row - 1
           /\ \A r \in Rows : c \in st.rows[r] <=> r = st.pivot[c]
  BY <1>2 DEF Reduced
<1>7. /\ \A c, d \in 0 .. k - 1 : st.pivot[c] = st.pivot[d] => c = d \/ st.pivot[c] = -1
      /\ \A r \in 0 .. st.row - 1 : \E c \in 0 .. k - 1 : st.pivot[c] = r
  BY <1>2 DEF Reduced
<1>8. \A r \in Rows : r >= st.row => st.rows[r] = {}
  <2>1. ASSUME NEW r \in Rows, r >= st.row, NEW c \in st.rows[r] PROVE FALSE
    <3>1. c \in 0 .. k - 1 /\ c >= k
      BY <1>4, <1>5, <2>1
    <3>2. QED
      BY <3>1
  <2>2. QED
    BY <2>1
<1>9. ASSUME ok, NEW r \in Rows PROVE Parity(st.rows[r] \cap x) <=> r \in st.rhs
  <2>1. CASE r >= st.row
    <3>1. st.rows[r] = {} /\ r \notin st.rhs
      BY <1>8, <1>9, <2>1
    <3>2. st.rows[r] \cap x = {}
      BY <3>1
    <3>3. QED
      BY <3>1, <3>2, ParitySmall
  <2>2. CASE ~(r >= st.row)
    <3>1. r \in 0 .. st.row - 1
      BY <1>4, <2>2, RowsAssumption DEF Rows
    <3>2. PICK c \in 0 .. k - 1 : st.pivot[c] = r
      BY <1>7, <3>1
    <3>3. r # -1 /\ c \in st.rows[r]
      BY <1>6, <3>1, <3>2
    <3>4. ASSUME NEW d \in st.rows[r] \cap x PROVE d = c /\ r \in st.rhs
      <4>1. d \in 0 .. k - 1 /\ st.pivot[d] \in st.rhs /\ d \in st.rows[r]
        BY <1>3
      <4>2. st.pivot[d] # -1
        BY <1>4, <4>1, RowsAssumption DEF Rows
      <4>3. r = st.pivot[d]
        BY <1>6, <4>1, <4>2
      <4>4. QED
        BY <1>7, <3>2, <3>3, <4>1, <4>3
    <3>5. CASE r \in st.rhs
      <4>1. c \in x
        BY <1>3, <3>2, <3>5
      <4>2. st.rows[r] \cap x = {c}
        BY <3>3, <3>4, <4>1
      <4>3. QED
        BY <3>5, <4>2, ParitySmall
    <3>6. CASE r \notin st.rhs
      <4>1. st.rows[r] \cap x = {}
        BY <3>4, <3>6
      <4>2. QED
        BY <3>6, <4>1, ParitySmall
    <3>7. QED
      BY <3>5, <3>6
  <2>3. QED
    BY <2>1, <2>2
<1>10. ok => Solves(RowsOf(mat), rhs, x)
  <2> HIDE DEF x
  <2>1. QED
    BY <1>5, <1>9 DEF Solves
<1>11. ASSUME ~ok, NEW y PROVE ~Solves(RowsOf(mat), rhs, y)
  <2>1. PICK r \in Rows : st.rows[r] = {} /\ r \in st.rhs
    BY <1>11
  <2>2. st.rows[r] \cap y = {}
    BY <2>1
  <2>3. ~(Parity(st.rows[r] \cap y) <=> r \in st.rhs)
    BY <2>1, <2>2, ParitySmall
  <2>4. QED
    BY <1>5, <2>3 DEF Solves
<1>12. x \in Real(k)
  BY <1>3 DEF Real
<1> HIDE DEF x, ok
<1>13. ok \in BOOLEAN
  BY DEF ok
<1>14. QED
  BY <1>1, <1>10, <1>11, <1>12, <1>13

-----------------------------------------------------------------------------
(***************************************************************************)
(* Products.                                                               *)
(***************************************************************************)
\* mul(): row r of the product is the parity of what the address takes of the row.
LEMMA MulIsParity ==
  ASSUME NEW k \in Nat, NEW mat \in Matrix(k), NEW x \in Real(k)
  PROVE  /\ Mul(mat, x) \in SUBSET Rows
         /\ \A r \in Rows : r \in Mul(mat, x) <=> Parity(GetRow(mat, r) \cap x)
<1> DEFINE V == SUBSET Rows
           first == [T \in SUBSET x |-> CHOOSE c \in T : TRUE]
           G == [p \in x \X V |-> mat[p[1]] \oplus p[2]]
           Eq(g) == g = [T \in SUBSET x |->
                           IF T = {} THEN {}
                           ELSE mat[CHOOSE c \in T : TRUE]
                                  \oplus g[T \ {CHOOSE c \in T : TRUE}]]
           iter == CHOOSE g : Eq(g)
<1>1. x \in SUBSET (0 .. k - 1) /\ IsFiniteSet(x)
  <2>1. x \in SUBSET (0 .. k - 1)
    BY DEF Real
  <2>2. IsFiniteSet(0 .. k - 1)
    BY FS_Interval
  <2>3. QED
    BY <2>1, <2>2, FS_Subset
<1>2. \A c \in x : mat[c] \in SUBSET Rows
  BY <1>1 DEF Matrix
<1>3. ChoosesIn(first, x)
  BY DEF ChoosesIn
<1>4. G \in [x \X V -> V]
  BY <1>2, XorClosed
<1>5. \E g : Eq(g)
  <2>1. PICK g \in [SUBSET x -> V] : Iterates(g, x, {}, first, G)
    <3> HIDE DEF first, G
    <3>1. {} \in V
      OBVIOUS
    <3> HIDE DEF V
    <3>2. QED
      BY <1>1, <1>3, <1>4, <3>1, IteratesExists
  <2>2. ASSUME NEW T \in SUBSET x, T # {}
        PROVE  G[<<first[T], g[T \ {first[T]}]>>]
                 = mat[CHOOSE c \in T : TRUE] \oplus g[T \ {CHOOSE c \in T : TRUE}]
    <3>1. PICK c \in x : c = CHOOSE e \in T : TRUE
      BY <2>2
    <3>2. first[T] = c
      BY <3>1
    <3> HIDE DEF first
    <3>3. T \ {c} \in SUBSET x
      OBVIOUS
    <3>4. g[T \ {c}] \in V
      BY <2>1, <3>3
    <3>5. ASSUME NEW w \in V PROVE G[<<c, w>>] = mat[c] \oplus w
      OBVIOUS
    <3> HIDE DEF G, V
    <3>6. G[<<c, g[T \ {c}]>>] = mat[c] \oplus g[T \ {c}]
      BY <3>4, <3>5
    <3>7. QED
      BY <3>1, <3>2, <3>6
  <2>3. Eq(g)
    BY <2>1, <2>2 DEF Iterates
  <2> HIDE DEF Eq
  <2>4. QED
    BY <2>3
<1>6. Eq(iter)
  <2> HIDE DEF Eq
  <2>1. QED
    BY <1>5
<1>7. Mul(mat, x) = iter[x]
  BY DEF Mul, FoldFunctionOnSet, MapThenFoldSet
<1> HIDE DEF iter
<1> DEFINE F == {T \in SUBSET x :
                   /\ iter[T] \in SUBSET Rows
                   /\ \A r \in Rows : r \in iter[T] <=> Parity(GetRow(mat, r) \cap T)}
<1>8. {} \in F
  <2>1. iter[{}] = {}
    BY <1>6
  <2>2. \A r \in Rows : GetRow(mat, r) \cap {} = {}
    OBVIOUS
  <2>3. QED
    BY <2>1, <2>2, ParitySmall
<1>9. ASSUME NEW T \in SUBSET x, T # {}, \A c \in T : T \ {c} \in F PROVE T \in F
  <2>1. PICK c \in T : c = CHOOSE e \in T : TRUE
    BY <1>9
  <2>2. iter[T] = mat[c] \oplus iter[T \ {c}]
    BY <1>6, <1>9, <2>1
  <2>3. /\ iter[T \ {c}] \in SUBSET Rows
        /\ \A r \in Rows : r \in iter[T \ {c}] <=> Parity(GetRow(mat, r) \cap (T \ {c}))
    BY <1>9
  <2>4. iter[T] \in SUBSET Rows
    <3>1. mat[c] \in SUBSET Rows
      BY <1>2
    <3>2. iter[T \ {c}] \in SUBSET Rows
      BY <2>3
    <3> DEFINE v == mat[c]
               w == iter[T \ {c}]
    <3>3. v \oplus w \in SUBSET Rows
      <4> HIDE DEF v, w
      <4>1. v \in SUBSET Rows /\ w \in SUBSET Rows
        BY <3>1, <3>2 DEF v, w
      <4>2. QED
        BY <4>1, XorClosed
    <3>4. QED
      BY <2>2, <3>3
  <2>5. ASSUME NEW r \in Rows PROVE r \in iter[T] <=> Parity(GetRow(mat, r) \cap T)
    <3> DEFINE rest == GetRow(mat, r) \cap (T \ {c})
               one == GetRow(mat, r) \cap {c}
    <3>1. GetRow(mat, r) \cap T = one \oplus rest
      BY DEF \oplus
    <3>2. IsFiniteSet(rest) /\ IsFiniteSet(one)
      <4>1. IsFiniteSet(T) /\ IsFiniteSet({c})
        BY <1>1, FS_Subset, FS_Singleton
      <4>2. IsFiniteSet(T \ {c})
        BY <4>1, FS_Difference
      <4>3. QED
        BY <4>1, <4>2, FS_Intersection
    <3>3. Parity(one) <=> r \in mat[c]
      <4>1. c \in DOMAIN mat
        BY <1>1 DEF Matrix
      <4>2. CASE r \in mat[c]
        <5>1. one = {c}
          BY <4>1, <4>2 DEF GetRow
        <5>2. QED
          BY <4>2, <5>1, ParitySmall
      <4>3. CASE r \notin mat[c]
        <5>1. one = {}
          BY <4>3 DEF GetRow
        <5>2. QED
          BY <4>3, <5>1, ParitySmall
      <4>4. QED
        BY <4>2, <4>3
    <3>4. Parity(rest) <=> r \in iter[T \ {c}]
      BY <2>3
    <3> HIDE DEF rest, one
    <3>5. Parity(one \oplus rest) <=> ~(Parity(one) <=> Parity(rest))
      BY <3>2, ParityXor
    <3>6. r \in iter[T] <=> ~(r \in mat[c] <=> r \in iter[T \ {c}])
      BY <2>2, XorMember
    <3>7. QED
      BY <3>1, <3>3, <3>4, <3>5, <3>6
  <2>6. QED
    BY <2>4, <2>5
<1> HIDE DEF F
<1>10. x \in F
  BY <1>1, <1>8, <1>9, FiniteInduction
<1>11. QED
  BY <1>7, <1>10 DEF F

\* The product is additive in the address, takes bit c to column c, and is the
\* only additive map that does.
LEMMA MulAdds ==
  ASSUME NEW k \in Nat, NEW mat \in Matrix(k), NEW x \in Real(k), NEW y \in Real(k)
  PROVE  Mul(mat, x \oplus y) = Mul(mat, x) \oplus Mul(mat, y)
<1>1. x \oplus y \in Real(k)
  BY RealXor
<1>2. /\ Mul(mat, x) \in SUBSET Rows
      /\ \A r \in Rows : r \in Mul(mat, x) <=> Parity(GetRow(mat, r) \cap x)
  BY MulIsParity
<1>3. /\ Mul(mat, y) \in SUBSET Rows
      /\ \A r \in Rows : r \in Mul(mat, y) <=> Parity(GetRow(mat, r) \cap y)
  BY MulIsParity
<1>4. /\ Mul(mat, x \oplus y) \in SUBSET Rows
      /\ \A r \in Rows :
           r \in Mul(mat, x \oplus y) <=> Parity(GetRow(mat, r) \cap (x \oplus y))
  BY <1>1, MulIsParity
<1>5. IsFiniteSet(x) /\ IsFiniteSet(y)
  <2>1. IsFiniteSet(0 .. k - 1)
    BY FS_Interval
  <2>2. x \in SUBSET (0 .. k - 1) /\ y \in SUBSET (0 .. k - 1)
    BY DEF Real
  <2>3. QED
    BY <2>1, <2>2, FS_Subset
<1>6. ASSUME NEW r \in Rows
      PROVE  r \in Mul(mat, x \oplus y) <=> r \in Mul(mat, x) \oplus Mul(mat, y)
  <2> DEFINE v == GetRow(mat, r) \cap x
             w == GetRow(mat, r) \cap y
  <2>1. IsFiniteSet(v) /\ IsFiniteSet(w)
    BY <1>5, FS_Intersection
  <2>2. GetRow(mat, r) \cap (x \oplus y) = v \oplus w
    BY DEF \oplus
  <2>3. r \in Mul(mat, x) <=> Parity(v)
    BY <1>2
  <2>4. r \in Mul(mat, y) <=> Parity(w)
    BY <1>3
  <2> HIDE DEF v, w
  <2>5. Parity(v \oplus w) <=> ~(Parity(v) <=> Parity(w))
    BY <2>1, ParityXor
  <2>6. r \in Mul(mat, x) \oplus Mul(mat, y)
          <=> ~(r \in Mul(mat, x) <=> r \in Mul(mat, y))
    BY DEF \oplus
  <2>7. QED
    BY <1>4, <2>2, <2>3, <2>4, <2>5, <2>6
<1>7. Mul(mat, x) \oplus Mul(mat, y) \in SUBSET Rows
  <2> DEFINE v == Mul(mat, x)
             w == Mul(mat, y)
  <2>1. v \in SUBSET Rows /\ w \in SUBSET Rows
    BY <1>2, <1>3
  <2> HIDE DEF v, w
  <2>2. v \oplus w \in SUBSET Rows
    BY <2>1, XorClosed
  <2>3. QED
    BY <2>2 DEF v, w
<1>8. QED
  BY <1>4, <1>6, <1>7

LEMMA MulColumn ==
  ASSUME NEW k \in Nat, NEW mat \in Matrix(k)
  PROVE  Mul(mat, {}) = {} /\ \A c \in 0 .. k - 1 : Mul(mat, {c}) = mat[c]
<1>1. Mul(mat, {}) = {}
  <2>1. {} \in Real(k)
    BY DEF Real
  <2>2. /\ Mul(mat, {}) \in SUBSET Rows
        /\ \A r \in Rows : r \in Mul(mat, {}) <=> Parity(GetRow(mat, r) \cap {})
    BY <2>1, MulIsParity
  <2>3. \A r \in Rows : GetRow(mat, r) \cap {} = {}
    OBVIOUS
  <2>4. QED
    BY <2>2, <2>3, ParitySmall
<1>2. ASSUME NEW c \in 0 .. k - 1 PROVE Mul(mat, {c}) = mat[c]
  <2>1. {c} \in Real(k)
    BY DEF Real
  <2>2. /\ Mul(mat, {c}) \in SUBSET Rows
        /\ \A r \in Rows : r \in Mul(mat, {c}) <=> Parity(GetRow(mat, r) \cap {c})
    BY <2>1, MulIsParity
  <2>3. c \in DOMAIN mat /\ mat[c] \in SUBSET Rows
    BY DEF Matrix
  <2>4. ASSUME NEW r \in Rows PROVE r \in Mul(mat, {c}) <=> r \in mat[c]
    <3>1. CASE r \in mat[c]
      <4>1. GetRow(mat, r) \cap {c} = {c}
        BY <2>3, <3>1 DEF GetRow
      <4>2. QED
        BY <2>2, <3>1, <4>1, ParitySmall
    <3>2. CASE r \notin mat[c]
      <4>1. GetRow(mat, r) \cap {c} = {}
        BY <3>2 DEF GetRow
      <4>2. QED
        BY <2>2, <3>2, <4>1, ParitySmall
    <3>3. QED
      BY <3>1, <3>2
  <2>5. QED
    BY <2>2, <2>3, <2>4
<1>3. QED
  BY <1>1, <1>2

Additive(f, k) == \A x, y \in Real(k) : f[x \oplus y] = f[x] \oplus f[y]

LEMMA MulOfAdditive ==
  ASSUME NEW k \in Nat, NEW mat \in Matrix(k), NEW f, Additive(f, k),
         \A c \in 0 .. k - 1 : f[{c}] = mat[c], NEW x \in Real(k)
  PROVE  Mul(mat, x) = f[x]
<1> DEFINE F == {T \in SUBSET x : Mul(mat, T) = f[T]}
<1>1. x \in SUBSET (0 .. k - 1)
  BY DEF Real
<1>2. IsFiniteSet(x)
  <2>1. IsFiniteSet(0 .. k - 1)
    BY FS_Interval
  <2>2. QED
    BY <1>1, <2>1, FS_Subset
<1>3. {} \in F
  <2>1. {} \in Real(k)
    BY DEF Real
  <2>2. f[{} \oplus {}] = f[{}] \oplus f[{}]
    BY <2>1 DEF Additive
  <2>3. f[{}] = {}
    BY <2>2, XorEmpty
  <2>4. QED
    BY <2>3, MulColumn
<1>4. ASSUME NEW T \in SUBSET x, T # {}, \A c \in T : T \ {c} \in F PROVE T \in F
  <2>1. PICK c \in T : TRUE
    BY <1>4
  <2>2. Mul(mat, T \ {c}) = f[T \ {c}]
    BY <1>4
  <2>3. c \in 0 .. k - 1 /\ {c} \in Real(k) /\ T \ {c} \in Real(k)
    BY <1>1 DEF Real
  <2>4. T = {c} \oplus (T \ {c})
    BY DEF \oplus
  <2>5. Mul(mat, {c} \oplus (T \ {c})) = Mul(mat, {c}) \oplus Mul(mat, T \ {c})
    BY <2>3, MulAdds
  <2>6. Mul(mat, {c}) = f[{c}]
    BY <2>3, MulColumn
  <2>7. f[{c} \oplus (T \ {c})] = f[{c}] \oplus f[T \ {c}]
    BY <2>3 DEF Additive
  <2>8. QED
    BY <2>2, <2>4, <2>5, <2>6, <2>7
<1> HIDE DEF F
<1>5. x \in F
  BY <1>2, <1>3, <1>4, FiniteInduction
<1>6. QED
  BY <1>5 DEF F

\* solve() answers false exactly when no address is mapped to the right-hand side,
\* and an address it returns is mapped there: for every matrix, whatever its rank,
\* with row swaps, columns without a pivot and free columns.
THEOREM SolveIsExact ==
  ASSUME NEW k \in Nat, NEW mat \in Matrix(k), NEW rhs \in SUBSET Rows
  PROVE  LET s == Solve(mat, rhs) IN
         /\ s.x \in Real(k)
         /\ IF s.ok THEN Mul(mat, s.x) = rhs
                    ELSE \A x \in Real(k) : Mul(mat, x) # rhs
<1> DEFINE s == Solve(mat, rhs)
<1>1. /\ s.x \in Real(k) /\ s.ok \in BOOLEAN
      /\ s.ok => Solves(RowsOf(mat), rhs, s.x)
      /\ ~s.ok => \A x : ~Solves(RowsOf(mat), rhs, x)
  BY SolveSolves
<1>2. ASSUME NEW x \in Real(k) PROVE Solves(RowsOf(mat), rhs, x) <=> Mul(mat, x) = rhs
  <2>1. /\ Mul(mat, x) \in SUBSET Rows
        /\ \A r \in Rows : r \in Mul(mat, x) <=> Parity(RowsOf(mat)[r] \cap x)
    BY MulIsParity DEF RowsOf
  <2>2. Solves(RowsOf(mat), rhs, x) <=> \A r \in Rows : r \in Mul(mat, x) <=> r \in rhs
    BY <2>1 DEF Solves
  <2>3. QED
    BY <2>1, <2>2
<1> HIDE DEF s
<1>3. QED
  BY <1>1, <1>2 DEF s

-----------------------------------------------------------------------------
(***************************************************************************)
(* Independent columns: no two addresses have the same product.  Row        *)
(* operations and columns that solve() could not produce keep them so, there *)
(* are at most as many as rows, and with one for every row all right-hand    *)
(* sides have a solution.                                                   *)
(***************************************************************************)
Independent(mat, k) ==
  /\ mat \in Matrix(k)
  /\ \A x, y \in Real(k) : Mul(mat, x) = Mul(mat, y) => x = y

LEMMA EmptyIndependent == Independent(EmptyMat, 0)
<1>1. 0 .. 0 - 1 = {}
  OBVIOUS
<1>2. EmptyMat \in Matrix(0)
  BY <1>1 DEF Matrix, EmptyMat
<1>3. \A x, y \in Real(0) : x = y
  BY RealZero
<1>4. QED
  BY <1>2, <1>3 DEF Independent

LEMMA MulRowXor ==
  ASSUME NEW k \in Nat, NEW mat \in Matrix(k), NEW dst \in Rows, NEW src
  PROVE  /\ RowXorMat(mat, dst, src) \in Matrix(k)
         /\ \A x \in Real(k) :
              Mul(RowXorMat(mat, dst, src), x) = RowXor(Mul(mat, x), dst, src)
<1> DEFINE new == RowXorMat(mat, dst, src)
           f == [x \in Real(k) |-> RowXor(Mul(mat, x), dst, src)]
<1>1. new \in Matrix(k) /\ \A c \in 0 .. k - 1 : new[c] = RowXor(mat[c], dst, src)
  <2>1. DOMAIN mat = 0 .. k - 1 /\ \A c \in 0 .. k - 1 : mat[c] \in SUBSET Rows
    BY DEF Matrix
  <2>2. \A c \in 0 .. k - 1 : RowXor(mat[c], dst, src) \in SUBSET Rows
    BY <2>1, RowXorClosed
  <2>3. QED
    BY <2>1, <2>2 DEF RowXorMat, Matrix
<1>2. ASSUME NEW x \in Real(k), NEW y \in Real(k) PROVE f[x \oplus y] = f[x] \oplus f[y]
  <2>1. x \oplus y \in Real(k)
    BY RealXor
  <2>2. Mul(mat, x \oplus y) = Mul(mat, x) \oplus Mul(mat, y)
    BY MulAdds
  <2>3. RowXor(Mul(mat, x) \oplus Mul(mat, y), dst, src)
          = RowXor(Mul(mat, x), dst, src) \oplus RowXor(Mul(mat, y), dst, src)
    BY RowXorAdditive
  <2>4. QED
    BY <2>1, <2>2, <2>3
<1>3. Additive(f, k)
  <2> HIDE DEF f
  <2>1. QED
    BY <1>2 DEF Additive
<1>4. ASSUME NEW c \in 0 .. k - 1 PROVE f[{c}] = new[c]
  <2>1. {c} \in Real(k)
    BY DEF Real
  <2>2. Mul(mat, {c}) = mat[c]
    BY MulColumn
  <2>3. QED
    BY <1>1, <2>1, <2>2
<1> HIDE DEF new
<1>5. ASSUME NEW x \in Real(k) PROVE Mul(new, x) = f[x]
  <2> HIDE DEF f
  <2>1. QED
    BY <1>1, <1>3, <1>4, MulOfAdditive, ZenonT(60)
<1>6. QED
  BY <1>1, <1>5 DEF new

LEMMA IndependentRowXor ==
  ASSUME NEW k \in Nat, NEW mat, Independent(mat, k), NEW dst \in Rows, NEW src, src # dst
  PROVE  Independent(RowXorMat(mat, dst, src), k)
<1>1. mat \in Matrix(k) /\ \A x, y \in Real(k) : Mul(mat, x) = Mul(mat, y) => x = y
  BY DEF Independent
<1>2. /\ RowXorMat(mat, dst, src) \in Matrix(k)
      /\ \A x \in Real(k) :
           Mul(RowXorMat(mat, dst, src), x) = RowXor(Mul(mat, x), dst, src)
  BY <1>1, MulRowXor
<1>3. ASSUME NEW x \in Real(k), NEW y \in Real(k),
             RowXor(Mul(mat, x), dst, src) = RowXor(Mul(mat, y), dst, src)
      PROVE  x = y
  <2>1. Mul(mat, x) = Mul(mat, y)
    BY <1>3, RowXorInvolution
  <2>2. QED
    BY <1>1, <2>1
<1>4. QED
  BY <1>2, <1>3 DEF Independent

LEMMA AppendColFields ==
  ASSUME NEW k \in Nat, NEW mat \in Matrix(k), NEW v \in SUBSET Rows
  PROVE  /\ Cols(mat) = k
         /\ AppendCol(mat, v) \in Matrix(k + 1)
         /\ \A c \in 0 .. k : AppendCol(mat, v)[c] = IF c = k THEN v ELSE mat[c]
<1>1. Cols(mat) = k
  BY MatrixCols DEF Matrix
<1>2. AppendCol(mat, v) = [c \in 0 .. k |-> IF c = k THEN v ELSE mat[c]]
  BY <1>1 DEF AppendCol
<1>3. \A c \in 0 .. k : c # k => c \in 0 .. k - 1
  OBVIOUS
<1>4. \A c \in 0 .. k : (IF c = k THEN v ELSE mat[c]) \in SUBSET Rows
  BY <1>3 DEF Matrix
<1>5. k + 1 - 1 = k
  OBVIOUS
<1>6. QED
  BY <1>1, <1>2, <1>4, <1>5 DEF Matrix

LEMMA MulAppend ==
  ASSUME NEW k \in Nat, NEW mat \in Matrix(k), NEW v \in SUBSET Rows, NEW x \in Real(k + 1)
  PROVE  Mul(AppendCol(mat, v), x) =
           IF k \in x THEN Mul(mat, x \ {k}) \oplus v ELSE Mul(mat, x)
<1> DEFINE new == AppendCol(mat, v)
           f == [y \in Real(k) |-> Mul(new, y)]
<1>1. /\ new \in Matrix(k + 1) /\ k + 1 \in Nat
      /\ \A c \in 0 .. k : new[c] = IF c = k THEN v ELSE mat[c]
  BY AppendColFields
<1> HIDE DEF new
<1>2. \A y \in Real(k) : y \in Real(k + 1)
  BY RealGrows
<1>3. ASSUME NEW y \in Real(k), NEW z \in Real(k) PROVE f[y \oplus z] = f[y] \oplus f[z]
  <2>1. y \oplus z \in Real(k)
    BY RealXor
  <2>2. Mul(new, y \oplus z) = Mul(new, y) \oplus Mul(new, z)
    BY <1>1, <1>2, MulAdds
  <2>3. QED
    BY <2>1, <2>2
<1>4. Additive(f, k)
  <2> HIDE DEF f
  <2>1. QED
    BY <1>3 DEF Additive
<1>5. ASSUME NEW c \in 0 .. k - 1 PROVE f[{c}] = mat[c]
  <2>1. {c} \in Real(k) /\ c # k /\ c \in 0 .. k
    BY DEF Real
  <2>2. c \in 0 .. (k + 1) - 1
    OBVIOUS
  <2>3. Mul(new, {c}) = new[c]
    BY <1>1, <2>2, MulColumn
  <2>4. QED
    BY <1>1, <2>1, <2>3
<1>6. ASSUME NEW y \in Real(k) PROVE Mul(new, y) = Mul(mat, y)
  <2>1. f[y] = Mul(new, y)
    OBVIOUS
  <2> HIDE DEF f
  <2>2. Mul(mat, y) = f[y]
    BY <1>4, <1>5, MulOfAdditive
  <2>3. QED
    BY <2>1, <2>2
<1>7. CASE k \notin x
  <2>1. x \in Real(k)
    BY <1>7, RealGrows
  <2>2. QED
    BY <1>6, <1>7, <2>1 DEF new
<1>8. CASE k \in x
  <2>1. x \ {k} \in Real(k) /\ x \ {k} \in Real(k + 1) /\ {k} \in Real(k + 1)
    BY RealGrows
  <2>2. x = (x \ {k}) \oplus {k}
    BY <1>8 DEF \oplus
  <2>3. Mul(new, (x \ {k}) \oplus {k}) = Mul(new, x \ {k}) \oplus Mul(new, {k})
    BY <1>1, <2>1, MulAdds
  <2>4. k \in 0 .. (k + 1) - 1 /\ k \in 0 .. k
    OBVIOUS
  <2>5. Mul(new, {k}) = new[k]
    BY <1>1, <2>4, MulColumn
  <2>6. new[k] = v
    BY <1>1, <2>4
  <2>7. Mul(new, x \ {k}) = Mul(mat, x \ {k})
    BY <1>6, <2>1
  <2>8. QED
    BY <1>8, <2>2, <2>3, <2>5, <2>6, <2>7 DEF new
<1>9. QED
  BY <1>7, <1>8

LEMMA IndependentAppend ==
  ASSUME NEW k \in Nat, NEW mat, Independent(mat, k), NEW v \in SUBSET Rows,
         \A x \in Real(k) : Mul(mat, x) # v
  PROVE  Independent(AppendCol(mat, v), k + 1)
<1> DEFINE new == AppendCol(mat, v)
<1>1. mat \in Matrix(k) /\ \A x, y \in Real(k) : Mul(mat, x) = Mul(mat, y) => x = y
  BY DEF Independent
<1>2. new \in Matrix(k + 1)
  BY <1>1, AppendColFields
<1>3. \A x \in Real(k + 1) :
        Mul(new, x) = IF k \in x THEN Mul(mat, x \ {k}) \oplus v ELSE Mul(mat, x)
  BY <1>1, MulAppend
<1> HIDE DEF new
<1>4. ASSUME NEW x \in Real(k + 1), NEW y \in Real(k + 1), Mul(new, x) = Mul(new, y)
      PROVE  x = y
  <2>1. /\ x \ {k} \in Real(k) /\ (k \notin x => x \in Real(k))
        /\ y \ {k} \in Real(k) /\ (k \notin y => y \in Real(k))
    BY RealGrows
  <2>2. CASE k \in x /\ k \in y
    <3>1. Mul(mat, x \ {k}) \oplus v = Mul(mat, y \ {k}) \oplus v
      BY <1>3, <1>4, <2>2
    <3>2. Mul(mat, x \ {k}) = Mul(mat, y \ {k})
      BY <3>1, XorInjective
    <3>3. x \ {k} = y \ {k}
      BY <1>1, <2>1, <3>2
    <3>4. QED
      BY <2>2, <3>3
  <2>3. CASE k \notin x /\ k \notin y
    BY <1>1, <1>3, <1>4, <2>1, <2>3
  <2>4. ASSUME NEW w \in Real(k), NEW z \in Real(k), Mul(mat, w) \oplus v = Mul(mat, z)
        PROVE  FALSE
    <3>1. w \oplus z \in Real(k)
      BY RealXor
    <3>2. Mul(mat, w \oplus z) = Mul(mat, w) \oplus Mul(mat, z)
      BY <1>1, MulAdds
    <3>3. Mul(mat, w) \oplus (Mul(mat, w) \oplus v) = v
      BY XorCancel
    <3>4. QED
      BY <2>4, <3>1, <3>2, <3>3
  <2>5. CASE k \in x /\ k \notin y
    <3>1. Mul(mat, x \ {k}) \oplus v = Mul(mat, y)
      BY <1>3, <1>4, <2>5
    <3>2. QED
      BY <2>1, <2>4, <2>5, <3>1
  <2>6. CASE k \notin x /\ k \in y
    <3>1. Mul(mat, y \ {k}) \oplus v = Mul(mat, x)
      BY <1>3, <1>4, <2>6
    <3>2. QED
      BY <2>1, <2>4, <2>6, <3>1
  <2>7. QED
    BY <2>2, <2>3, <2>5, <2>6
<1>5. QED
  BY <1>2, <1>4 DEF new, Independent

LEMMA InjectiveIsOnto ==
  ASSUME NEW f \in [Real(N) -> SUBSET Rows],
         \A x, y \in Real(N) : f[x] = f[y] => x = y, NEW v \in SUBSET Rows
  PROVE  \E x \in Real(N) : f[x] = v
<1>1. Real(N) = SUBSET Rows
  BY DEF Real, Rows
<1>2. IsFiniteSet(SUBSET Rows)
  <2>1. IsFiniteSet(Rows)
    BY RowsAssumption, FS_Interval DEF Rows
  <2>2. QED
    BY <2>1, FS_SUBSET
<1>3. f \in Injection(SUBSET Rows, SUBSET Rows)
  BY <1>1 DEF Injection, IsInjective
<1>4. f \in Surjection(SUBSET Rows, SUBSET Rows)
  BY <1>2, <1>3, FS_Injection
<1>5. QED
  BY <1>1, <1>4 DEF Surjection

LEMMA IndependentWidth ==
  ASSUME NEW k \in Nat, NEW mat, Independent(mat, k)
  PROVE  /\ k <= N
         /\ k = N => \A v \in SUBSET Rows : \E x \in Real(k) : Mul(mat, x) = v
<1>1. mat \in Matrix(k) /\ \A x, y \in Real(k) : Mul(mat, x) = Mul(mat, y) => x = y
  BY DEF Independent
<1>2. \A x \in Real(k) : Mul(mat, x) \in SUBSET Rows
  BY <1>1, MulIsParity
<1>3. ASSUME k >= N, NEW v \in SUBSET Rows PROVE \E x \in Real(N) : Mul(mat, x) = v
  <2> DEFINE f == [x \in Real(N) |-> Mul(mat, x)]
  <2>1. Real(N) \subseteq Real(k)
    BY <1>3, RowsAssumption DEF Real
  <2>2. f \in [Real(N) -> SUBSET Rows] /\ \A x, y \in Real(N) : f[x] = f[y] => x = y
    BY <1>1, <1>2, <2>1
  <2>3. \A x \in Real(N) : f[x] = Mul(mat, x)
    OBVIOUS
  <2> HIDE DEF f
  <2>4. QED
    BY <2>2, <2>3, InjectiveIsOnto
<1>4. k <= N
  <2>1. SUFFICES ASSUME k > N PROVE FALSE
    BY RowsAssumption
  <2>2. {N} \in Real(k) /\ \A x \in Real(N) : N \notin x /\ x \in Real(k)
    BY <2>1, RowsAssumption DEF Real
  <2>3. Mul(mat, {N}) \in SUBSET Rows
    BY <1>2, <2>2
  <2>4. k >= N
    BY <2>1, RowsAssumption
  <2>5. PICK x \in Real(N) : Mul(mat, x) = Mul(mat, {N})
    BY <1>3, <2>3, <2>4
  <2>6. x = {N}
    BY <1>1, <2>2, <2>5
  <2>7. QED
    BY <2>2, <2>6
<1>5. QED
  BY <1>3, <1>4, RowsAssumption

LEMMA IdentityIndependent == Independent([c \in Rows |-> {c}], N)
<1> DEFINE mat == [c \in Rows |-> {c}]
           f == [x \in Real(N) |-> x]
<1>1. mat \in Matrix(N)
  BY DEF Matrix, Rows
<1>2. Additive(f, N)
  BY RowsAssumption, RealXor DEF Additive
<1>3. \A c \in 0 .. N - 1 : f[{c}] = mat[c]
  BY DEF Real, Rows
<1>4. ASSUME NEW x \in Real(N) PROVE Mul(mat, x) = x
  <2>1. f[x] = x
    OBVIOUS
  <2> HIDE DEF f, mat
  <2>2. Mul(mat, x) = f[x]
    BY <1>1, <1>2, <1>3, RowsAssumption, MulOfAdditive
  <2>3. QED
    BY <2>1, <2>2
<1> HIDE DEF mat
<1>5. Independent(mat, N)
  BY <1>1, <1>4 DEF Independent
<1>6. QED
  BY <1>5 DEF mat

-----------------------------------------------------------------------------
(***************************************************************************)
(* Amplitudes.                                                             *)
(***************************************************************************)
U3Matrices == [u00 : Amps, u01 : Amps, u10 : Amps, u11 : Amps]

LEMMA Residue ==
  ASSUME NEW a \in Int
  PROVE  a % P17 \in Amps /\ a % 16 \in 0 .. 15
BY DEF P17, Amps

LEMMA RootTyped ==
  ASSUME NEW k \in 0 .. 15
  PROVE  Zeta[k] \in Int
BY DEF Zeta

LEMMA Turned ==
  ASSUME NEW t \in Int, NEW a \in Int
  PROVE  RotateBy(t, a) \in Amps /\ HalfBackBy(t, a) \in Amps
<1>1. (2 * t) % 16 \in 0 .. 15 /\ (-t) % 16 \in 0 .. 15
  OBVIOUS
<1>2. Zeta[(2 * t) % 16] \in Int /\ Zeta[(-t) % 16] \in Int
  BY <1>1, RootTyped
<1>3. Zeta[(2 * t) % 16] * a \in Int /\ Zeta[(-t) % 16] * a \in Int
  BY <1>2
<1>4. QED
  BY <1>3, Residue DEF RotateBy, HalfBackBy

LEMMA EntryTyped ==
  ASSUME NEW theta \in Int, NEW lambda \in Int, NEW phi \in Int
  PROVE  U3Matrix(theta, lambda, phi) \in U3Matrices
<1> DEFINE c == CosHalf(theta)
           s == SinHalf(theta)
<1>1. Zeta[theta % 16] \in Int /\ Zeta[(-theta) % 16] \in Int /\ ImagUnit \in Int
  <2>1. theta % 16 \in 0 .. 15 /\ (-theta) % 16 \in 0 .. 15 /\ 4 \in 0 .. 15
    OBVIOUS
  <2>2. QED
    BY <2>1, RootTyped DEF ImagUnit
<1>2. c \in Amps
  <2>1. (Zeta[theta % 16] + Zeta[(-theta) % 16]) * Half \in Int
    BY <1>1 DEF Half
  <2>2. QED
    BY <2>1, Residue DEF CosHalf
<1>3. s \in Amps
  <2>1. (Zeta[(-theta) % 16] - Zeta[theta % 16]) * ImagUnit * Half \in Int
    BY <1>1 DEF Half
  <2>2. QED
    BY <2>1, Residue DEF SinHalf
<1> HIDE DEF c, s
<1>4. c \in Int /\ s \in Int /\ phi + lambda \in Int
  BY <1>2, <1>3 DEF Amps
<1>5. RotateBy(lambda, s) \in Amps /\ RotateBy(phi, s) \in Amps /\ RotateBy(phi + lambda, c) \in Amps
  BY <1>4, Turned
<1>6. (-RotateBy(lambda, s)) % P17 \in Amps
  BY <1>5, Residue DEF Amps
<1>7. QED
  BY <1>2, <1>5, <1>6 DEF U3Matrix, U3Matrices, c, s

LEMMA PairTyped ==
  ASSUME NEW u \in U3Matrices, NEW even \in Amps, NEW odd \in Amps
  PROVE  EvenOf(u, even, odd) \in Amps /\ OddOf(u, even, odd) \in Amps
<1>1. {u.u00, u.u01, u.u10, u.u11} \subseteq Int /\ even \in Int /\ odd \in Int
  BY DEF U3Matrices, Amps
<1>2. u.u00 * even + u.u01 * odd \in Int /\ u.u10 * even + u.u11 * odd \in Int
  BY <1>1
<1>3. QED
  BY <1>2, Residue DEF EvenOf, OddOf

LEMMA ProductTyped ==
  ASSUME NEW n \in U3Matrices, NEW o \in U3Matrices
  PROVE  LeftMultiply(n, o) \in U3Matrices
<1>1. /\ {n.u00, n.u01, n.u10, n.u11} \subseteq Int
      /\ {o.u00, o.u01, o.u10, o.u11} \subseteq Int
  BY DEF U3Matrices, Amps
<1>2. /\ n.u00 * o.u00 + n.u01 * o.u10 \in Int /\ n.u00 * o.u01 + n.u01 * o.u11 \in Int
      /\ n.u10 * o.u00 + n.u11 * o.u10 \in Int /\ n.u10 * o.u01 + n.u11 * o.u11 \in Int
  BY <1>1
<1>3. QED
  BY <1>2, Residue DEF LeftMultiply, U3Matrices

LEMMA SomeAmps == {0, 1} \subseteq Amps /\ Identity \in U3Matrices
BY DEF Amps, P17, Identity, U3Matrices

(***************************************************************************)
(* Arithmetic of amplitudes: residues may be taken early or late.          *)
(***************************************************************************)
LEMMA Reduced17 ==
  ASSUME NEW a \in Int, NEW k \in Int
  PROVE  (P17 * k + a) % P17 = a % P17
BY DEF P17

LEMMA Quotient ==
  ASSUME NEW a \in Int
  PROVE  \E k \in Int : a = P17 * k + (a % P17)
<1>1. a \div P17 \in Int /\ a = P17 * (a \div P17) + (a % P17)
  BY DEF P17
<1>2. QED
  BY <1>1

LEMMA ReducedProduct ==
  ASSUME NEW a \in Int, NEW c \in Int
  PROVE  \E k \in Int : c * (a % P17) = P17 * k + c * a
<1>1. PICK k \in Int : a = P17 * k + (a % P17)
  BY Quotient
<1>2. a % P17 \in Int
  BY Residue DEF Amps
<1>3. c * (a % P17) = P17 * (-(c * k)) + c * a
  <2> DEFINE r == a % P17
  <2>1. r \in Int /\ a = 17 * k + r
    BY <1>1, <1>2 DEF P17
  <2> HIDE DEF r
  <2>2. c * r = 17 * (-(c * k)) + c * (17 * k + r)
    BY <2>1
  <2>3. QED
    BY <2>1, <2>2 DEF r, P17
<1>4. -(c * k) \in Int
  OBVIOUS
<1>5. QED
  BY <1>3, <1>4

LEMMA ReducedSum ==
  ASSUME NEW a \in Int, NEW c \in Int, NEW d \in Int, NEW e \in Int
  PROVE  (c * (a % P17) + e * (d % P17)) % P17 = (c * a + e * d) % P17
<1>1. PICK k \in Int : c * (a % P17) = P17 * k + c * a
  BY ReducedProduct
<1>2. PICK l \in Int : e * (d % P17) = P17 * l + e * d
  BY ReducedProduct
<1> DEFINE x == c * a
           y == e * d
<1>3. x \in Int /\ y \in Int
  OBVIOUS
<1> HIDE DEF x, y
<1>4. (P17 * k + x) + (P17 * l + y) = P17 * (k + l) + (x + y)
  BY <1>3 DEF P17
<1>5. (P17 * (k + l) + (x + y)) % P17 = (x + y) % P17
  BY <1>3, Reduced17
<1>6. QED
  BY <1>1, <1>2, <1>4, <1>5 DEF x, y

LEMMA ReducedOne ==
  ASSUME NEW a \in Int, NEW c \in Int
  PROVE  (c * (a % P17)) % P17 = (c * a) % P17
<1>1. PICK k \in Int : c * (a % P17) = P17 * k + c * a
  BY ReducedProduct
<1>2. c * a \in Int
  OBVIOUS
<1>3. QED
  BY <1>1, <1>2, Reduced17

\* The root of unity: a power after another is the power of the sum.
LEMMA NextRoot ==
  ASSUME NEW j \in 0 .. 15
  PROVE  Zeta[(j + 1) % 16] = (6 * Zeta[j]) % P17
BY DEF Zeta, P17

LEMMA RootSum ==
  ASSUME NEW i \in 0 .. 15, NEW j \in 0 .. 15
  PROVE  Zeta[(i + j) % 16] = (Zeta[i] * Zeta[j]) % P17
<1> DEFINE S == {n \in Nat : n <= 15 => Zeta[(n + j) % 16] = (Zeta[n] * Zeta[j]) % P17}
<1>1. 0 \in S
  <2>1. Zeta[0] = 1 /\ Zeta[j] \in Amps
    BY DEF Zeta, Amps, P17
  <2>2. (0 + j) % 16 = j /\ (1 * Zeta[j]) % P17 = Zeta[j]
    BY <2>1 DEF Amps, P17
  <2>3. QED
    BY <2>1, <2>2
<1>2. ASSUME NEW n \in Nat, n \in S PROVE n + 1 \in S
  <2>1. SUFFICES ASSUME n + 1 <= 15
                 PROVE  Zeta[((n + 1) + j) % 16] = (Zeta[n + 1] * Zeta[j]) % P17
    OBVIOUS
  <2> DEFINE h == (n + j) % 16
  <2>2. h \in 0 .. 15 /\ ((n + 1) + j) % 16 = (h + 1) % 16 /\ (n + 1) % 16 = n + 1
    BY <2>1
  <2>3. n \in 0 .. 15 /\ Zeta[h] = (Zeta[n] * Zeta[j]) % P17
    BY <1>2, <2>1
  <2> HIDE DEF h
  <2>4. Zeta[(h + 1) % 16] = (6 * Zeta[h]) % P17 /\ Zeta[(n + 1) % 16] = (6 * Zeta[n]) % P17
    BY <2>2, <2>3, NextRoot
  <2> DEFINE a == Zeta[n]
             c == Zeta[j]
  <2>5. a \in Int /\ c \in Int
    BY <2>3, RootTyped
  <2> HIDE DEF a, c
  <2>6. (6 * ((a * c) % P17)) % P17 = (6 * (a * c)) % P17
    BY <2>5, ReducedOne
  <2>7. (c * ((6 * a) % P17)) % P17 = (c * (6 * a)) % P17
    BY <2>5, ReducedOne
  <2>8. c * (6 * a) = 6 * (a * c)
    BY <2>5
  <2>9. (6 * a) % P17 \in Int /\ ((6 * a) % P17) * c = c * ((6 * a) % P17)
    <3>1. (6 * a) % P17 \in Int
      BY <2>5, Residue DEF Amps
    <3> DEFINE r == (6 * a) % P17
    <3> HIDE DEF r
    <3>2. r \in Int => r * c = c * r
      BY <2>5
    <3>3. QED
      BY <3>1, <3>2 DEF r
  <2>10. QED
    BY <2>2, <2>3, <2>4, <2>6, <2>7, <2>8, <2>9 DEF a, c
<1> HIDE DEF S
<1>3. i \in S
  BY <1>1, <1>2, NaturalInduction
<1>4. QED
  BY <1>3 DEF S

\* Turning by two angles is turning by their sum; a vanished amplitude stays so.
LEMMA TurnedTwice ==
  ASSUME NEW s \in Int, NEW t \in Int, NEW a \in Amps
  PROVE  RotateBy(s, RotateBy(t, a)) = RotateBy(t + s, a)
<1> DEFINE i == (2 * s) % 16
           j == (2 * t) % 16
<1>1. i \in 0 .. 15 /\ j \in 0 .. 15 /\ (2 * (t + s)) % 16 = (i + j) % 16
  OBVIOUS
<1> HIDE DEF i, j
<1>2. Zeta[(2 * (t + s)) % 16] = (Zeta[i] * Zeta[j]) % P17
  BY <1>1, RootSum
<1> DEFINE x == Zeta[i]
           y == Zeta[j]
<1>3. x \in Int /\ y \in Int /\ a \in Int
  BY <1>1, RootTyped DEF Amps
<1> HIDE DEF x, y
<1>4. (x * ((y * a) % P17)) % P17 = (x * (y * a)) % P17
  BY <1>3, ReducedOne
<1>5. (a * ((x * y) % P17)) % P17 = (a * (x * y)) % P17
  BY <1>3, ReducedOne
<1>6. a * (x * y) = x * (y * a)
  BY <1>3
<1>7. a * ((x * y) % P17) = ((x * y) % P17) * a
  <2>1. (x * y) % P17 \in Int
    BY <1>3, Residue DEF Amps
  <2> DEFINE r == (x * y) % P17
  <2> HIDE DEF r
  <2>2. r \in Int => a * r = r * a
    BY <1>3
  <2>3. QED
    BY <2>1, <2>2 DEF r
<1>8. QED
  BY <1>2, <1>4, <1>5, <1>6, <1>7 DEF RotateBy, i, j, x, y

LEMMA TurnedByZero ==
  ASSUME NEW a \in Amps, NEW t \in Int
  PROVE  RotateBy(0, a) = a /\ RotateBy(t, 0) = 0
<1>1. (2 * 0) % 16 = 0 /\ Zeta[0] = 1
  BY DEF Zeta
<1>2. (1 * a) % P17 = a
  BY DEF Amps, P17
<1>3. (2 * t) % 16 \in 0 .. 15
  OBVIOUS
<1>4. Zeta[(2 * t) % 16] * 0 = 0 /\ 0 % P17 = 0
  BY <1>3, RootTyped DEF P17
<1>5. QED
  BY <1>1, <1>2, <1>4 DEF RotateBy

\* A sum of products of numbers that are sums of products.
LEMMA Nested ==
  ASSUME NEW p \in Int, NEW q \in Int, NEW a \in Int, NEW c \in Int,
         NEW s \in Int, NEW t \in Int, NEW x \in Int, NEW y \in Int
  PROVE  (p * ((a * s + c * t) % P17) + q * ((x * s + y * t) % P17)) % P17
           = (((p * a + q * x) % P17) * s + ((p * c + q * y) % P17) * t) % P17
<1> DEFINE A == a * s + c * t
           X == x * s + y * t
           B == p * a + q * x
           D == p * c + q * y
<1>1. A \in Int /\ X \in Int /\ B \in Int /\ D \in Int
  OBVIOUS
<1>2. p * A + q * X = s * B + t * D
  OBVIOUS
<1> HIDE DEF A, X, B, D
<1>3. (p * (A % P17) + q * (X % P17)) % P17 = (p * A + q * X) % P17
  BY <1>1, ReducedSum
<1>4. (s * (B % P17) + t * (D % P17)) % P17 = (s * B + t * D) % P17
  BY <1>1, ReducedSum
<1>5. B % P17 \in Int /\ D % P17 \in Int
  BY <1>1, Residue DEF Amps
<1>6. s * (B % P17) + t * (D % P17) = (B % P17) * s + (D % P17) * t
  <2> DEFINE u == B % P17
             v == D % P17
  <2> HIDE DEF u, v
  <2>1. u \in Int /\ v \in Int => s * u + t * v = u * s + v * t
    OBVIOUS
  <2>2. QED
    BY <1>5, <2>1 DEF u, v
<1>7. QED
  BY <1>2, <1>3, <1>4, <1>6 DEF A, X, B, D

LEMMA Exchanges ==
  ASSUME NEW p \in Int, NEW q \in Int, NEW a \in Int, NEW c \in Int,
         NEW s \in Int, NEW t \in Int, NEW x \in Int, NEW y \in Int
  PROVE  (p * ((a * s + c * t) % P17) + q * ((a * x + c * y) % P17)) % P17
           = (a * ((p * s + q * x) % P17) + c * ((p * t + q * y) % P17)) % P17
<1> DEFINE A == a * s + c * t
           X == a * x + c * y
           B == p * s + q * x
           D == p * t + q * y
<1>1. A \in Int /\ X \in Int /\ B \in Int /\ D \in Int
  OBVIOUS
<1>2. p * A + q * X = a * B + c * D
  OBVIOUS
<1> HIDE DEF A, X, B, D
<1>3. (p * (A % P17) + q * (X % P17)) % P17 = (p * A + q * X) % P17
  BY <1>1, ReducedSum
<1>4. (a * (B % P17) + c * (D % P17)) % P17 = (a * B + c * D) % P17
  BY <1>1, ReducedSum
<1>5. QED
  BY <1>2, <1>3, <1>4 DEF A, X, B, D

LEMMA Entries ==
  ASSUME NEW u \in U3Matrices
  PROVE  u.u00 \in Int /\ u.u01 \in Int /\ u.u10 \in Int /\ u.u11 \in Int
BY DEF U3Matrices, Amps

\* A matrix after another, and two matrices on different qubits.
LEMMA PairTwice ==
  ASSUME NEW n \in U3Matrices, NEW o \in U3Matrices, NEW a \in Amps, NEW c \in Amps
  PROVE  /\ EvenOf(n, EvenOf(o, a, c), OddOf(o, a, c)) = EvenOf(LeftMultiply(n, o), a, c)
         /\ OddOf(n, EvenOf(o, a, c), OddOf(o, a, c)) = OddOf(LeftMultiply(n, o), a, c)
<1> DEFINE P(p, q, r, k, s, t, x, y) ==
             (p * ((r * s + k * t) % P17) + q * ((x * s + y * t) % P17)) % P17
               = (((p * r + q * x) % P17) * s + ((p * k + q * y) % P17) * t) % P17
<1>1. \A p, q, r, k, s, t, x, y \in Int : P(p, q, r, k, s, t, x, y)
  BY Nested
<1>2. a \in Int /\ c \in Int
  BY DEF Amps
<1>3. /\ n.u00 \in Int /\ n.u01 \in Int /\ n.u10 \in Int /\ n.u11 \in Int
      /\ o.u00 \in Int /\ o.u01 \in Int /\ o.u10 \in Int /\ o.u11 \in Int
  BY Entries
<1>4. /\ P(n.u00, n.u01, o.u00, o.u01, a, c, o.u10, o.u11)
      /\ P(n.u10, n.u11, o.u00, o.u01, a, c, o.u10, o.u11)
  <2> HIDE DEF P
  <2> QED
    BY <1>1, <1>2, <1>3
<1>5. QED
  BY <1>4 DEF EvenOf, OddOf, LeftMultiply

LEMMA PairsCross ==
  ASSUME NEW u \in U3Matrices, NEW w \in U3Matrices,
         NEW a \in Amps, NEW c \in Amps, NEW d \in Amps, NEW e \in Amps
  PROVE  /\ EvenOf(u, EvenOf(w, a, c), EvenOf(w, d, e)) = EvenOf(w, EvenOf(u, a, d), EvenOf(u, c, e))
         /\ OddOf(u, EvenOf(w, a, c), EvenOf(w, d, e)) = EvenOf(w, OddOf(u, a, d), OddOf(u, c, e))
         /\ EvenOf(u, OddOf(w, a, c), OddOf(w, d, e)) = OddOf(w, EvenOf(u, a, d), EvenOf(u, c, e))
         /\ OddOf(u, OddOf(w, a, c), OddOf(w, d, e)) = OddOf(w, OddOf(u, a, d), OddOf(u, c, e))
<1> DEFINE P(p, q, r, k, s, t, x, y) ==
             (p * ((r * s + k * t) % P17) + q * ((r * x + k * y) % P17)) % P17
               = (r * ((p * s + q * x) % P17) + k * ((p * t + q * y) % P17)) % P17
<1>1. \A p, q, r, k, s, t, x, y \in Int : P(p, q, r, k, s, t, x, y)
  BY Exchanges
<1>2. a \in Int /\ c \in Int /\ d \in Int /\ e \in Int
  BY DEF Amps
<1>3. /\ u.u00 \in Int /\ u.u01 \in Int /\ u.u10 \in Int /\ u.u11 \in Int
      /\ w.u00 \in Int /\ w.u01 \in Int /\ w.u10 \in Int /\ w.u11 \in Int
  BY Entries
<1>4. /\ P(u.u00, u.u01, w.u00, w.u01, a, c, d, e) /\ P(u.u10, u.u11, w.u00, w.u01, a, c, d, e)
      /\ P(u.u00, u.u01, w.u10, w.u11, a, c, d, e) /\ P(u.u10, u.u11, w.u10, w.u11, a, c, d, e)
  <2> HIDE DEF P
  <2> QED
    BY <1>1, <1>2, <1>3
<1>5. QED
  BY <1>4 DEF EvenOf, OddOf

LEMMA PairIdentity ==
  ASSUME NEW a \in Amps, NEW c \in Amps
  PROVE  EvenOf(Identity, a, c) = a /\ OddOf(Identity, a, c) = c
<1>1. 1 * a + 0 * c = a /\ 0 * a + 1 * c = c
  BY DEF Amps
<1>2. a % P17 = a /\ c % P17 = c
  BY DEF Amps, P17
<1>3. QED
  BY <1>1, <1>2 DEF EvenOf, OddOf, Identity

LEMMA PairZero ==
  ASSUME NEW u \in U3Matrices
  PROVE  EvenOf(u, 0, 0) = 0 /\ OddOf(u, 0, 0) = 0
<1>1. u.u00 * 0 + u.u01 * 0 = 0 /\ u.u10 * 0 + u.u11 * 0 = 0 /\ 0 % P17 = 0
  BY Entries DEF P17
<1>2. QED
  BY <1>1 DEF EvenOf, OddOf
=============================================================================
