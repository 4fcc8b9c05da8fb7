--------------------------- MODULE BoundaryProofs ---------------------------
(***************************************************************************)
(* Theorems about BoundaryScheduler, for circuits on any number of qubits,  *)
(* of any length, from any instructions.                                    *)
(***************************************************************************)
EXTENDS BoundaryScheduler, AlgebraProofs

-----------------------------------------------------------------------------
(***************************************************************************)
(* Folds over a set.  h takes base to the empty set, and any other set T    *)
(* to what G makes of one element of T and the value without it.            *)
(***************************************************************************)
FoldOf(h, S, base, G) ==
  h = [T \in SUBSET S |->
         IF T = {} THEN base
         ELSE G[<<CHOOSE x \in T : TRUE, h[T \ {CHOOSE x \in T : TRUE}]>>]]

LEMMA FoldExists ==
  ASSUME NEW S, IsFiniteSet(S), NEW V, NEW base \in V, NEW G \in [S \X V -> V]
  PROVE  \E h \in [SUBSET S -> V] : FoldOf(h, S, base, G)
<1> DEFINE first == [T \in SUBSET S |-> CHOOSE x \in T : TRUE]
<1>1. ChoosesIn(first, S)
  BY DEF ChoosesIn
<1>2. PICK h \in [SUBSET S -> V] : Iterates(h, S, base, first, G)
  <2> HIDE DEF first
  <2>1. QED
    BY <1>1, IteratesExists
<1>3. FoldOf(h, S, base, G)
  BY <1>2 DEF Iterates, FoldOf
<1>4. QED
  BY <1>3

\* The value at a set is the value of the fold over that set alone.
LEMMA FoldRestricts ==
  ASSUME NEW S, IsFiniteSet(S), NEW T \in SUBSET S, NEW base, NEW G, NEW h, NEW g,
         FoldOf(h, S, base, G), FoldOf(g, T, base, G)
  PROVE  g[T] = h[T]
<1> DEFINE first == [U \in SUBSET T |-> CHOOSE x \in U : TRUE]
<1>1. ChoosesIn(first, T)
  BY DEF ChoosesIn
<1>2. Follows(g, T, base, first, G)
  BY DEF Follows, FoldOf
<1>3. Follows(h, T, base, first, G)
  <2>1. \A U \in SUBSET T : U \in SUBSET S
    OBVIOUS
  <2>2. ASSUME NEW U \in SUBSET T
        PROVE  h[U] = IF U = {} THEN base ELSE G[<<first[U], h[U \ {first[U]}]>>]
    BY <2>1 DEF FoldOf
  <2> HIDE DEF first
  <2>3. QED
    BY <2>2 DEF Follows
<1>4. IsFiniteSet(T)
  BY FS_Subset
<1> HIDE DEF first
<1>5. QED
  BY <1>1, <1>2, <1>3, <1>4, IteratesUnique

\* Where the order does not matter, any element may come last.
LeftCommutes(G, S, V) ==
  \A x, y \in S : \A v \in V : G[<<x, G[<<y, v>>]>>] = G[<<y, G[<<x, v>>]>>]

Peelable(h, S, V, base, G) ==
  /\ IsFiniteSet(S) /\ base \in V /\ G \in [S \X V -> V] /\ LeftCommutes(G, S, V)
  /\ h \in [SUBSET S -> V] /\ FoldOf(h, S, base, G)

LEMMA FoldPeels ==
  ASSUME NEW S, NEW V, NEW base, NEW G, NEW h, Peelable(h, S, V, base, G)
  PROVE  \A x \in S : h[S] = G[<<x, h[S \ {x}]>>]
<1> USE DEF Peelable
<1> DEFINE F == {T \in SUBSET S : \A x \in T : h[T] = G[<<x, h[T \ {x}]>>]}
<1>1. {} \in F
  OBVIOUS
<1>2. ASSUME NEW T \in SUBSET S, T # {}, \A x \in T : T \ {x} \in F
      PROVE  T \in F
  <2>1. PICK c \in T : c = CHOOSE x \in T : TRUE
    BY <1>2
  <2>2. h[T] = G[<<c, h[T \ {c}]>>]
    BY <1>2, <2>1 DEF FoldOf
  <2>3. ASSUME NEW x \in T, x # c PROVE h[T] = G[<<x, h[T \ {x}]>>]
    <3> DEFINE v == h[T \ {c, x}]
    <3>0. T \ {c, x} \in SUBSET S /\ c \in S /\ x \in S
      OBVIOUS
    <3>1. v \in V
      BY <3>0
    <3>2. x \in T \ {c} /\ (T \ {c}) \ {x} = T \ {c, x}
      BY <2>3
    <3>3. c \in T \ {x} /\ (T \ {x}) \ {c} = T \ {c, x}
      BY <2>3
    <3>4. h[T \ {c}] = G[<<x, v>>]
      BY <1>2, <3>2
    <3>5. h[T \ {x}] = G[<<c, v>>]
      BY <1>2, <3>3
    <3> HIDE DEF v
    <3>6. G[<<c, G[<<x, v>>]>>] = G[<<x, G[<<c, v>>]>>]
      BY <3>0, <3>1 DEF LeftCommutes
    <3>7. QED
      BY <2>2, <3>4, <3>5, <3>6
  <2>4. QED
    BY <2>2, <2>3
<1> HIDE DEF F
<1>3. S \in F
  BY <1>1, <1>2, FiniteInduction
<1>4. QED
  BY <1>3 DEF F

-----------------------------------------------------------------------------
(***************************************************************************)
(* Sums of vectors.                                                        *)
(***************************************************************************)
LEMMA SumIsFold ==
  ASSUME NEW S, IsFiniteSet(S), NEW V, {} \in V, NEW G,
         \A x \in S : \A v \in V : G[<<x, v>>] = x \oplus v,
         NEW h \in [SUBSET S -> V], FoldOf(h, S, {}, G)
  PROVE  SumOf(S) = h[S]
<1> DEFINE Eq(g) == g = [T \in SUBSET S |->
                           IF T = {} THEN {}
                           ELSE (CHOOSE v \in T : TRUE)
                                  \oplus g[T \ {CHOOSE v \in T : TRUE}]]
           iter == CHOOSE g : Eq(g)
<1>1. ASSUME NEW T \in SUBSET S, T # {}
      PROVE  G[<<CHOOSE v \in T : TRUE, h[T \ {CHOOSE v \in T : TRUE}]>>]
               = (CHOOSE v \in T : TRUE) \oplus h[T \ {CHOOSE v \in T : TRUE}]
  <2>1. PICK c \in S : c = CHOOSE v \in T : TRUE
    BY <1>1
  <2>2. T \ {c} \in SUBSET S
    OBVIOUS
  <2>3. h[T \ {c}] \in V
    BY <2>2
  <2>4. G[<<c, h[T \ {c}]>>] = c \oplus h[T \ {c}]
    BY <2>3
  <2>5. QED
    BY <2>1, <2>4
<1>2. Eq(h)
  BY <1>1, ZenonT(60) DEF FoldOf
<1>3. Eq(iter)
  <2> HIDE DEF Eq
  <2>1. QED
    BY <1>2
<1>4. SumOf(S) = iter[S]
  BY DEF SumOf, FoldSet, MapThenFoldSet
<1> HIDE DEF iter
<1> DEFINE first == [T \in SUBSET S |-> CHOOSE v \in T : TRUE]
<1>9. ASSUME NEW T \in SUBSET S, T # {}
      PROVE  /\ first[T] \in T
             /\ iter[T] = first[T] \oplus iter[T \ {first[T]}]
             /\ h[T] = first[T] \oplus h[T \ {first[T]}]
  <2>1. iter[T] = (CHOOSE v \in T : TRUE) \oplus iter[T \ {CHOOSE v \in T : TRUE}]
    BY <1>3, <1>9
  <2>2. h[T] = (CHOOSE v \in T : TRUE) \oplus h[T \ {CHOOSE v \in T : TRUE}]
    BY <1>2, <1>9
  <2>3. (CHOOSE v \in T : TRUE) \in T /\ first[T] = CHOOSE v \in T : TRUE
    BY <1>9
  <2> HIDE DEF first
  <2>4. QED
    BY <2>1, <2>2, <2>3
<1> HIDE DEF first
<1> DEFINE F == {T \in SUBSET S : iter[T] = h[T]}
<1>5. {} \in F
  BY <1>2, <1>3
<1>6. ASSUME NEW T \in SUBSET S, T # {}, \A x \in T : T \ {x} \in F PROVE T \in F
  <2> DEFINE c == first[T]
  <2>1. T # {}
    BY <1>6
  <2>2. c \in T /\ iter[T] = c \oplus iter[T \ {c}] /\ h[T] = c \oplus h[T \ {c}]
    BY <1>9, <2>1
  <2> HIDE DEF c
  <2>3. iter[T \ {c}] = h[T \ {c}]
    BY <1>6, <2>2
  <2>4. QED
    BY <2>2, <2>3
<1> HIDE DEF F
<1>7. S \in F
  BY <1>5, <1>6, FiniteInduction
<1>8. QED
  BY <1>4, <1>7 DEF F

\* A sum is a vector, and any of its terms may be taken last.
LEMMA SumSteps ==
  ASSUME NEW R, NEW S \in SUBSET SUBSET R, IsFiniteSet(S)
  PROVE  /\ SumOf(S) \in SUBSET R
         /\ S = {} => SumOf(S) = {}
         /\ \A x \in S : SumOf(S) = x \oplus SumOf(S \ {x})
<1> DEFINE V == SUBSET R
           G == [p \in S \X V |-> p[1] \oplus p[2]]
<1>1. G \in [S \X V -> V]
  <2>1. \A p \in S \X V : p[1] \in SUBSET R /\ p[2] \in SUBSET R
    OBVIOUS
  <2>2. \A p \in S \X V : p[1] \oplus p[2] \in SUBSET R
    BY <2>1, XorClosed
  <2>3. QED
    BY <2>2
<1>2. \A x \in S : \A v \in V : G[<<x, v>>] = x \oplus v
  OBVIOUS
<1>0. {} \in V /\ S \in SUBSET V
  OBVIOUS
<1>3. LeftCommutes(G, S, V)
  <2>1. ASSUME NEW x \in S, NEW y \in S, NEW v \in V
        PROVE  G[<<x, G[<<y, v>>]>>] = G[<<y, G[<<x, v>>]>>]
    <3>1. x \oplus v \in V /\ y \oplus v \in V
      BY XorClosed
    <3>2. x \oplus (y \oplus v) = y \oplus (x \oplus v)
      BY DEF \oplus
    <3> HIDE DEF V, G
    <3>3. G[<<x, v>>] = x \oplus v /\ G[<<y, v>>] = y \oplus v
      BY <1>2
    <3>4. G[<<x, y \oplus v>>] = x \oplus (y \oplus v) /\ G[<<y, x \oplus v>>] = y \oplus (x \oplus v)
      BY <1>2, <3>1
    <3>5. QED
      BY <3>2, <3>3, <3>4
  <2> HIDE DEF V, G
  <2>2. QED
    BY <2>1 DEF LeftCommutes
<1> HIDE DEF G
<1>4. PICK h \in [SUBSET S -> V] : FoldOf(h, S, {}, G)
  <2> HIDE DEF V
  <2>1. QED
    BY <1>0, <1>1, FoldExists
<1>5. SumOf(S) = h[S]
  BY <1>0, <1>2, <1>4, SumIsFold
<1>6. \A x \in S : h[S] = G[<<x, h[S \ {x}]>>]
  <2>1. {} \in V /\ h \in [SUBSET S -> V] /\ FoldOf(h, S, {}, G)
    BY <1>0, <1>4
  <2> HIDE DEF V
  <2>2. Peelable(h, S, V, {}, G)
    BY <1>1, <1>3, <2>1 DEF Peelable
  <2>3. QED
    BY <2>2, FoldPeels
<1>7. ASSUME NEW x \in S PROVE SumOf(S) = x \oplus SumOf(S \ {x})
  <2> DEFINE T == S \ {x}
  <2>1. T \in SUBSET S /\ IsFiniteSet(T)
    BY FS_Subset
  <2>2. h[T] \in V
    BY <2>1
  <2>3. G[<<x, h[T]>>] = x \oplus h[T]
    BY <1>2, <2>2
  <2>4. SumOf(T) = h[T]
    <3>1. \A y \in T : \A v \in V : G[<<y, v>>] = y \oplus v
      BY <1>2
    <3>2. [p \in T \X V |-> G[p]] \in [T \X V -> V]
      BY <1>1
    <3> DEFINE K == [p \in T \X V |-> G[p]]
    <3>3. \A y \in T : \A v \in V : K[<<y, v>>] = y \oplus v
      BY <3>1
    <3>4. K \in [T \X V -> V]
      BY <3>2
    <3> HIDE DEF K, T, V
    <3>5. PICK g \in [SUBSET T -> V] : FoldOf(g, T, {}, K)
      BY <1>0, <2>1, <3>4, FoldExists
    <3>6. SumOf(T) = g[T]
      BY <1>0, <2>1, <3>3, <3>5, SumIsFold
    <3>7. ASSUME NEW U \in SUBSET T, U # {}
          PROVE  K[<<CHOOSE e \in U : TRUE, g[U \ {CHOOSE e \in U : TRUE}]>>]
                   = G[<<CHOOSE e \in U : TRUE, g[U \ {CHOOSE e \in U : TRUE}]>>]
      <4>1. PICK c \in T : c = CHOOSE e \in U : TRUE
        BY <3>7
      <4>2. U \ {c} \in SUBSET T
        OBVIOUS
      <4>3. g[U \ {c}] \in V
        BY <3>5, <4>2
      <4>4. K[<<c, g[U \ {c}]>>] = c \oplus g[U \ {c}]
        BY <3>3, <4>3
      <4>5. G[<<c, g[U \ {c}]>>] = c \oplus g[U \ {c}]
        BY <3>1, <4>3
      <4>6. QED
        BY <4>1, <4>4, <4>5
    <3>8. FoldOf(g, T, {}, G)
      <4> DEFINE A(H) == [U \in SUBSET T |-> IF U = {} THEN {} ELSE
                   H[<<CHOOSE e \in U : TRUE, g[U \ {CHOOSE e \in U : TRUE}]>>]]
      <4>1. A(K) = A(G)
        BY <3>7
      <4>2. g = A(K)
        BY <3>5 DEF FoldOf
      <4>3. g = A(G)
        BY <4>1, <4>2
      <4>4. QED
        BY <4>3 DEF FoldOf
    <3>9. g[T] = h[T]
      BY <1>4, <2>1, <3>8, FoldRestricts
    <3>10. QED
      BY <3>6, <3>9
  <2>5. QED
    BY <1>5, <1>6, <2>3, <2>4 DEF T
<1>8. SumOf(S) \in SUBSET R
  BY <1>4, <1>5
<1>9. S = {} => SumOf(S) = {}
  BY <1>4, <1>5 DEF FoldOf
<1>10. QED
  BY <1>7, <1>8, <1>9

-----------------------------------------------------------------------------
(***************************************************************************)
(* The space that the columns of a map span: the least set of vectors that  *)
(* has zero and takes in every column added to one of its own.              *)
(***************************************************************************)
Vectors(R) == SUBSET R

LEMMA VectorSets ==
  ASSUME NEW R, IsFiniteSet(R), NEW C \in SUBSET Vectors(R)
  PROVE  IsFiniteSet(C)
<1>1. IsFiniteSet(Vectors(R))
  BY FS_SUBSET DEF Vectors
<1>2. QED
  BY <1>1, FS_Subset

LEMMA SumAt ==
  ASSUME NEW R, IsFiniteSet(R), NEW S \in SUBSET Vectors(R)
  PROVE  /\ SumOf(S) \in Vectors(R)
         /\ S = {} => SumOf(S) = {}
         /\ \A x \in S : SumOf(S) = x \oplus SumOf(S \ {x})
<1>1. IsFiniteSet(S)
  BY VectorSets
<1>2. QED
  BY <1>1, SumSteps DEF Vectors

LEMMA SpanZero ==
  ASSUME NEW R, IsFiniteSet(R), NEW C \in SUBSET Vectors(R)
  PROVE  {} \in Span(C) /\ Span(C) \in SUBSET Vectors(R)
<1>1. {} \in SUBSET C /\ {} \in SUBSET Vectors(R)
  OBVIOUS
<1>2. SumOf({}) = {}
  BY <1>1, SumAt
<1>3. \A S \in SUBSET C : SumOf(S) \in Vectors(R)
  BY SumAt
<1>4. QED
  BY <1>1, <1>2, <1>3 DEF Span

LEMMA SpanAdds ==
  ASSUME NEW R, IsFiniteSet(R), NEW C \in SUBSET Vectors(R),
         NEW v \in C, NEW w \in Span(C)
  PROVE  v \oplus w \in Span(C)
<1>1. PICK S \in SUBSET C : w = SumOf(S)
  BY DEF Span
<1>2. S \in SUBSET Vectors(R) /\ S \cup {v} \in SUBSET Vectors(R)
  OBVIOUS
<1>3. CASE v \in S
  <2>1. w = v \oplus SumOf(S \ {v})
    BY <1>1, <1>2, <1>3, SumAt
  <2>2. v \oplus w = SumOf(S \ {v})
    BY <2>1, XorCancel
  <2>3. S \ {v} \in SUBSET C
    OBVIOUS
  <2>4. QED
    BY <2>2, <2>3 DEF Span
<1>4. CASE v \notin S
  <2>1. v \in S \cup {v} /\ (S \cup {v}) \ {v} = S
    BY <1>4
  <2>2. SumOf(S \cup {v}) = v \oplus SumOf((S \cup {v}) \ {v})
    BY <1>2, <2>1, SumAt
  <2>3. v \oplus w = SumOf(S \cup {v})
    BY <1>1, <2>1, <2>2
  <2>4. S \cup {v} \in SUBSET C
    OBVIOUS
  <2>5. QED
    BY <2>3, <2>4 DEF Span
<1>5. QED
  BY <1>3, <1>4

LEMMA SpanLeast ==
  ASSUME NEW R, IsFiniteSet(R), NEW C \in SUBSET Vectors(R),
         NEW W, {} \in W, \A v \in C : \A w \in W : v \oplus w \in W
  PROVE  Span(C) \subseteq W
<1>1. ASSUME NEW S \in SUBSET C PROVE SumOf(S) \in W
  <2> DEFINE F == {T \in SUBSET S : SumOf(T) \in W}
  <2>1. \A T \in SUBSET S : /\ T = {} => SumOf(T) = {}
                           /\ \A x \in T : SumOf(T) = x \oplus SumOf(T \ {x})
    BY SumAt
  <2>2. {} \in F
    BY <2>1
  <2>3. ASSUME NEW T \in SUBSET S, T # {}, \A x \in T : T \ {x} \in F PROVE T \in F
    <3>1. PICK x \in T : T \ {x} \in F
      BY <2>3
    <3>2. SumOf(T \ {x}) \in W /\ x \in C
      BY <3>1
    <3>3. SumOf(T) = x \oplus SumOf(T \ {x})
      BY <2>1
    <3>4. QED
      BY <3>2, <3>3
  <2>4. IsFiniteSet(S)
    BY VectorSets
  <2> HIDE DEF F
  <2>5. S \in F
    BY <2>2, <2>3, <2>4, FiniteInduction
  <2>6. QED
    BY <2>5 DEF F
<1>2. QED
  BY <1>1 DEF Span

LEMMA SpanClosed ==
  ASSUME NEW R, IsFiniteSet(R), NEW C \in SUBSET Vectors(R),
         NEW x \in Span(C), NEW y \in Span(C)
  PROVE  x \oplus y \in Span(C)
<1> DEFINE W == {w \in Vectors(R) : w \oplus y \in Span(C)}
<1>1. {} \in W
  BY XorEmpty DEF Vectors
<1>2. ASSUME NEW v \in C, NEW w \in W PROVE v \oplus w \in W
  <2>1. v \oplus (w \oplus y) \in Span(C)
    BY SpanAdds
  <2>2. (v \oplus w) \oplus y = v \oplus (w \oplus y)
    BY XorAssoc
  <2>3. v \oplus w \in Vectors(R)
    BY XorClosed DEF Vectors
  <2>4. QED
    BY <2>1, <2>2, <2>3
<1> HIDE DEF W
<1>3. Span(C) \subseteq W
  BY <1>1, <1>2, SpanLeast
<1>4. QED
  BY <1>3 DEF W

LEMMA SpanHolds ==
  ASSUME NEW R, IsFiniteSet(R), NEW C \in SUBSET Vectors(R)
  PROVE  C \subseteq Span(C)
<1>1. ASSUME NEW v \in C PROVE v \in Span(C)
  <2>1. v \oplus {} \in Span(C)
    BY SpanZero, SpanAdds
  <2>2. QED
    BY <2>1, XorEmpty
<1>2. QED
  BY <1>1

\* Columns that a space has span no more than it.
LEMMA SpanWithin ==
  ASSUME NEW R, IsFiniteSet(R), NEW C \in SUBSET Vectors(R), NEW D \in SUBSET Span(C)
  PROVE  D \in SUBSET Vectors(R) /\ Span(D) \subseteq Span(C)
<1>1. D \in SUBSET Vectors(R)
  BY SpanZero
<1>2. {} \in Span(C)
  BY SpanZero
<1>3. \A v \in D : \A w \in Span(C) : v \oplus w \in Span(C)
  BY SpanClosed
<1>4. QED
  BY <1>1, <1>2, <1>3, SpanLeast

LEMMA SpanGrows ==
  ASSUME NEW R, IsFiniteSet(R), NEW C \in SUBSET Vectors(R), NEW D \in SUBSET C
  PROVE  Span(D) \subseteq Span(C)
<1>1. D \in SUBSET Span(C)
  BY SpanHolds
<1>2. QED
  BY <1>1, SpanWithin

\* Row q added to row c, in every column.
RowXorAll(C, q, c) == {RowXor(v, q, c) : v \in C}

LEMMA SpanImage ==
  ASSUME NEW R, IsFiniteSet(R), NEW C \in SUBSET Vectors(R), NEW c \in R, NEW q \in R, c # q
  PROVE  /\ RowXorAll(C, q, c) \in SUBSET Vectors(R)
         /\ Span(RowXorAll(C, q, c)) = RowXorAll(Span(C), q, c)
<1> DEFINE X(v) == RowXor(v, q, c)
           D == RowXorAll(C, q, c)
<1>1. \A v \in Vectors(R) : X(v) \in Vectors(R) /\ X(X(v)) = v
  BY RowXorClosed, RowXorInvolution DEF Vectors
<1>2. \A v, w : X(v \oplus w) = X(v) \oplus X(w)
  BY RowXorAdditive
<1>3. X({}) = {}
  BY DEF RowXor
<1>4. D \in SUBSET Vectors(R)
  BY <1>1 DEF RowXorAll
<1>5. RowXorAll(Span(C), q, c) = {X(w) : w \in Span(C)} /\ D = {X(v) : v \in C}
  BY DEF RowXorAll
<1> HIDE DEF X, D
<1>6. Span(D) \subseteq {X(w) : w \in Span(C)}
  <2> DEFINE W == {X(w) : w \in Span(C)}
  <2>1. {} \in W
    BY <1>3, SpanZero
  <2>2. ASSUME NEW v \in D, NEW w \in W PROVE v \oplus w \in W
    <3>1. PICK s \in C : v = X(s)
      BY <1>5
    <3>2. PICK t \in Span(C) : w = X(t)
      OBVIOUS
    <3>3. s \oplus t \in Span(C)
      BY SpanAdds
    <3>4. v \oplus w = X(s \oplus t)
      BY <1>2, <3>1, <3>2
    <3>5. QED
      BY <3>3, <3>4
  <2> HIDE DEF W
  <2>3. Span(D) \subseteq W
    BY <1>4, <2>1, <2>2, SpanLeast
  <2>4. QED
    BY <2>3 DEF W
<1>7. {X(w) : w \in Span(C)} \subseteq Span(D)
  <2> DEFINE W == {w \in Vectors(R) : X(w) \in Span(D)}
  <2>1. {} \in W
    BY <1>3, <1>4, SpanZero DEF Vectors
  <2>2. ASSUME NEW v \in C, NEW w \in W PROVE v \oplus w \in W
    <3>1. X(v) \in D /\ X(w) \in Span(D)
      BY <1>5
    <3>2. X(v) \oplus X(w) \in Span(D)
      BY <1>4, <3>1, SpanAdds
    <3>3. v \oplus w \in Vectors(R)
      BY XorClosed DEF Vectors
    <3>4. X(v \oplus w) = X(v) \oplus X(w)
      BY <1>2
    <3>5. QED
      BY <3>2, <3>3, <3>4
  <2> HIDE DEF W
  <2>3. Span(C) \subseteq W
    BY <2>1, <2>2, SpanLeast
  <2>4. QED
    BY <2>3 DEF W
<1>8. QED
  BY <1>4, <1>5, <1>6, <1>7 DEF D

-----------------------------------------------------------------------------
(***************************************************************************)
(* Independent columns: no sum of some of them vanishes.  There are never   *)
(* more of them than there are columns that span the space they are in.     *)
(***************************************************************************)
Unrelated(C) == \A S \in SUBSET C : SumOf(S) = {} => S = {}

LEMMA SumOfDifference ==
  ASSUME NEW R, IsFiniteSet(R), NEW S \in SUBSET Vectors(R), NEW T \in SUBSET Vectors(R)
  PROVE  SumOf(S \oplus T) = SumOf(S) \oplus SumOf(T)
<1> DEFINE F == {U \in SUBSET S : SumOf(U \oplus T) = SumOf(U) \oplus SumOf(T)}
<1>1. {} \in F
  <2>1. {} \oplus T = T /\ {} \in SUBSET Vectors(R)
    BY XorEmpty
  <2>2. SumOf({}) = {}
    BY <2>1, SumAt
  <2>3. QED
    BY <2>1, <2>2, XorEmpty
<1>2. ASSUME NEW U \in SUBSET S, U # {}, \A x \in U : U \ {x} \in F PROVE U \in F
  <2>1. PICK x \in U : SumOf((U \ {x}) \oplus T) = SumOf(U \ {x}) \oplus SumOf(T)
    BY <1>2
  <2>2. SumOf(U) = x \oplus SumOf(U \ {x})
    BY SumAt
  <2>3. SumOf(U) \oplus SumOf(T) = x \oplus SumOf((U \ {x}) \oplus T)
    BY <2>1, <2>2, XorAssoc
  <2>4. U \oplus T \in SUBSET Vectors(R) /\ (U \ {x}) \oplus T \in SUBSET Vectors(R)
    BY DEF \oplus
  <2>5. CASE x \in T
    <3>1. x \in (U \ {x}) \oplus T /\ ((U \ {x}) \oplus T) \ {x} = U \oplus T
      BY <2>5 DEF \oplus
    <3>2. SumOf((U \ {x}) \oplus T) = x \oplus SumOf(U \oplus T)
      BY <2>4, <3>1, SumAt
    <3>3. QED
      BY <2>3, <3>2, XorCancel
  <2>6. CASE x \notin T
    <3>1. x \in U \oplus T /\ (U \oplus T) \ {x} = (U \ {x}) \oplus T
      BY <2>6 DEF \oplus
    <3>2. SumOf(U \oplus T) = x \oplus SumOf((U \ {x}) \oplus T)
      BY <2>4, <3>1, SumAt
    <3>3. QED
      BY <2>3, <3>2
  <2>7. QED
    BY <2>5, <2>6
<1>3. IsFiniteSet(S)
  BY VectorSets
<1> HIDE DEF F
<1>4. S \in F
  BY <1>1, <1>2, <1>3, FiniteInduction
<1>5. QED
  BY <1>4 DEF F

LEMMA UnrelatedSums ==
  ASSUME NEW R, IsFiniteSet(R), NEW C \in SUBSET Vectors(R), Unrelated(C),
         NEW S \in SUBSET C, NEW T \in SUBSET C, SumOf(S) = SumOf(T)
  PROVE  S = T
<1>1. S \oplus T \in SUBSET C
  BY XorClosed
<1>2. SumOf(S \oplus T) = SumOf(S) \oplus SumOf(T)
  BY SumOfDifference
<1>3. SumOf(S \oplus T) = {}
  BY <1>2, XorEmpty
<1>4. S \oplus T = {}
  BY <1>1, <1>3 DEF Unrelated
<1>5. QED
  BY <1>4 DEF \oplus

LEMMA UnrelatedEmpty == Unrelated({})
BY DEF Unrelated

LEMMA UnrelatedWith ==
  ASSUME NEW R, IsFiniteSet(R), NEW C \in SUBSET Vectors(R), Unrelated(C),
         NEW v \in Vectors(R), v \notin Span(C)
  PROVE  Unrelated(C \cup {v})
<1>1. SUFFICES ASSUME NEW S \in SUBSET (C \cup {v}), SumOf(S) = {} PROVE S = {}
  BY DEF Unrelated
<1>2. CASE v \in S
  <2>1. S \in SUBSET Vectors(R) /\ S \ {v} \in SUBSET C
    OBVIOUS
  <2>2. SumOf(S) = v \oplus SumOf(S \ {v})
    BY <1>2, <2>1, SumAt
  <2>3. v = SumOf(S \ {v})
    BY <1>1, <2>2 DEF \oplus
  <2>4. QED
    BY <2>1, <2>3 DEF Span
<1>3. CASE v \notin S
  <2>1. S \in SUBSET C
    BY <1>3
  <2>2. QED
    BY <1>1, <2>1 DEF Unrelated
<1>4. QED
  BY <1>2, <1>3

LEMMA SumOfImage ==
  ASSUME NEW R, IsFiniteSet(R), NEW S \in SUBSET Vectors(R), NEW c \in R, NEW q \in R, c # q
  PROVE  SumOf(RowXorAll(S, q, c)) = RowXor(SumOf(S), q, c)
<1> DEFINE X(v) == RowXor(v, q, c)
           All(T) == {X(v) : v \in T}
           F == {U \in SUBSET S : SumOf(All(U)) = X(SumOf(U))}
<1>1. \A v \in Vectors(R) : X(v) \in Vectors(R)
  BY RowXorClosed DEF Vectors
<1>2. \A v, w : X(v \oplus w) = X(v) \oplus X(w) /\ X(X(v)) = v
  BY RowXorAdditive, RowXorInvolution
<1>3. X({}) = {}
  BY DEF RowXor
<1> HIDE DEF X
<1>4. {} \in F
  <2>1. {} \in SUBSET Vectors(R) /\ All({}) = {}
    OBVIOUS
  <2>2. SumOf({}) = {}
    BY <2>1, SumAt
  <2>3. QED
    BY <1>3, <2>1, <2>2
<1>5. ASSUME NEW U \in SUBSET S, U # {}, \A x \in U : U \ {x} \in F PROVE U \in F
  <2>1. PICK x \in U : SumOf(All(U \ {x})) = X(SumOf(U \ {x}))
    BY <1>5
  <2>2. SumOf(U) = x \oplus SumOf(U \ {x})
    BY SumAt
  <2>3. All(U) \in SUBSET Vectors(R) /\ X(x) \in All(U)
    BY <1>1
  <2>4. All(U) \ {X(x)} = All(U \ {x})
    <3>1. \A v \in U : X(v) = X(x) => v = x
      BY <1>2
    <3>2. QED
      BY <3>1
  <2>5. SumOf(All(U)) = X(x) \oplus SumOf(All(U) \ {X(x)})
    BY <2>3, SumAt
  <2>6. SumOf(All(U)) = X(x) \oplus X(SumOf(U \ {x}))
    BY <2>1, <2>4, <2>5
  <2>7. QED
    BY <1>2, <2>2, <2>6
<1>6. IsFiniteSet(S)
  BY VectorSets
<1>7. \A T : RowXorAll(T, q, c) = All(T)
  BY DEF RowXorAll, X
<1> HIDE DEF F, All
<1>8. S \in F
  BY <1>4, <1>5, <1>6, FiniteInduction
<1>9. QED
  BY <1>7, <1>8 DEF F, X

LEMMA UnrelatedImage ==
  ASSUME NEW R, IsFiniteSet(R), NEW C \in SUBSET Vectors(R), Unrelated(C),
         NEW c \in R, NEW q \in R, c # q
  PROVE  Unrelated(RowXorAll(C, q, c))
<1>1. SUFFICES ASSUME NEW S \in SUBSET RowXorAll(C, q, c), SumOf(S) = {} PROVE S = {}
  BY DEF Unrelated
<1> DEFINE T == {v \in C : RowXor(v, q, c) \in S}
<1>2. S = RowXorAll(T, q, c)
  BY DEF RowXorAll
<1>3. T \in SUBSET C /\ T \in SUBSET Vectors(R)
  OBVIOUS
<1> HIDE DEF T
<1>4. RowXor(SumOf(T), q, c) = {}
  BY <1>1, <1>2, <1>3, SumOfImage
<1>5. RowXor({}, q, c) = {}
  BY DEF RowXor
<1>6. SumOf(T) = {}
  BY <1>4, <1>5, RowXorInvolution
<1>7. T = {}
  BY <1>3, <1>6 DEF Unrelated
<1>8. QED
  BY <1>2, <1>7 DEF RowXorAll

LEMMA UnrelatedFewest ==
  ASSUME NEW R, IsFiniteSet(R), NEW C \in SUBSET Vectors(R), NEW D \in SUBSET Span(C),
         Unrelated(D)
  PROVE  Cardinality(D) <= Cardinality(C)
<1>1. D \in SUBSET Vectors(R) /\ Span(D) \subseteq Span(C)
  BY SpanWithin
<1>2. IsFiniteSet(C) /\ IsFiniteSet(D)
  BY <1>1, VectorSets
<1>3. Cardinality(C) \in Nat /\ Cardinality(D) \in Nat
  BY <1>2, FS_CardinalityType
<1>4. IsFiniteSet(SUBSET C) /\ IsFiniteSet(SUBSET D)
  BY <1>2, FS_SUBSET
<1>5. Cardinality(SUBSET D) <= Cardinality(SUBSET C)
  <2> DEFINE f == [S \in SUBSET D |-> CHOOSE T \in SUBSET C : SumOf(T) = SumOf(S)]
  <2>1. ASSUME NEW S \in SUBSET D PROVE f[S] \in SUBSET C /\ SumOf(f[S]) = SumOf(S)
    <3>1. SumOf(S) \in Span(C)
      BY <1>1 DEF Span
    <3>2. \E T \in SUBSET C : SumOf(T) = SumOf(S)
      BY <3>1 DEF Span
    <3>3. QED
      BY <3>2
  <2>2. f \in [SUBSET D -> SUBSET C]
    BY <2>1
  <2> HIDE DEF f
  <2>3. \A S, T \in SUBSET D : f[S] = f[T] => S = T
    <3>1. ASSUME NEW S \in SUBSET D, NEW T \in SUBSET D, f[S] = f[T] PROVE S = T
      <4>1. SumOf(S) = SumOf(T)
        BY <2>1, <3>1
      <4>2. QED
        BY <1>1, <4>1, UnrelatedSums
    <3>2. QED
      BY <3>1
  <2>4. f \in Injection(SUBSET D, SUBSET C)
    BY <2>2, <2>3 DEF Injection, IsInjective
  <2>5. QED
    BY <1>4, <2>4, FS_Injection
<1>6. SUFFICES ASSUME Cardinality(C) < Cardinality(D) PROVE FALSE
  BY <1>3
<1> DEFINE c == Cardinality(C)
           d == Cardinality(D)
<1>7. PICK a : a \in Bijection(1 .. c, C)
  BY <1>2, FS_CardinalityType DEF ExistsBijection
<1>8. PICK b : b \in Bijection(1 .. d, D)
  BY <1>2, FS_CardinalityType DEF ExistsBijection
<1>9. /\ a \in [1 .. c -> C] /\ \A x \in C : \E k \in 1 .. c : a[k] = x
      /\ b \in [1 .. d -> D] /\ \A k, l \in 1 .. d : b[k] = b[l] => k = l
  BY <1>7, <1>8 DEF Bijection, Injection, Surjection, IsInjective
<1>10. c \in Nat /\ d \in Nat /\ c < d
  BY <1>3, <1>6
<1> HIDE DEF c, d
<1> DEFINE h == [S \in SUBSET C |-> {b[k] : k \in {l \in 1 .. c : a[l] \in S}}]
<1>11. \A k \in 1 .. c : k \in 1 .. d
  BY <1>10
<1>12. h \in [SUBSET C -> SUBSET D]
  BY <1>9, <1>11
<1>13. \A S, T \in SUBSET C : h[S] = h[T] => S \subseteq T
  <2>1. ASSUME NEW S \in SUBSET C, NEW T \in SUBSET C, h[S] = h[T], NEW x \in S
        PROVE  x \in T
    <3>1. PICK k \in 1 .. c : a[k] = x
      BY <1>9
    <3>2. b[k] \in h[T]
      BY <2>1, <3>1
    <3>3. PICK l \in 1 .. c : a[l] \in T /\ b[l] = b[k]
      BY <3>2
    <3>4. l = k
      BY <1>9, <1>11, <3>3
    <3>5. QED
      BY <3>1, <3>3, <3>4
  <2>2. QED
    BY <2>1
<1>14. \A S \in SUBSET C : b[d] \notin h[S]
  <2>1. \A k \in 1 .. c : k \in 1 .. d /\ k # d /\ d \in 1 .. d
    BY <1>10
  <2>2. QED
    BY <1>9, <2>1
<1> HIDE DEF h
<1>15. h \in Injection(SUBSET C, SUBSET D)
  <2>1. ASSUME NEW S \in SUBSET C, NEW T \in SUBSET C, h[S] = h[T] PROVE S = T
    <3>1. S \subseteq T
      BY <1>13, <2>1
    <3>2. T \subseteq S
      BY <1>13, <2>1
    <3>3. QED
      BY <3>1, <3>2
  <2>2. QED
    BY <1>12, <2>1 DEF Injection, IsInjective
<1>16. Cardinality(SUBSET C) = Cardinality(SUBSET D)
  <2>1. Cardinality(SUBSET C) <= Cardinality(SUBSET D)
    BY <1>4, <1>15, FS_Injection
  <2>2. Cardinality(SUBSET C) \in Nat /\ Cardinality(SUBSET D) \in Nat
    BY <1>4, FS_CardinalityType
  <2>3. QED
    BY <1>5, <2>1, <2>2
<1>17. h \in Surjection(SUBSET C, SUBSET D)
  BY <1>4, <1>15, <1>16, FS_Injection
<1>18. b[d] \in D
  BY <1>9, <1>10
<1>19. PICK S \in SUBSET C : h[S] = {b[d]}
  BY <1>17, <1>18 DEF Surjection
<1>20. QED
  BY <1>14, <1>19

-----------------------------------------------------------------------------
(***************************************************************************)
(* One-qubit operators on states: a state gives every set of qubits its     *)
(* amplitude, that of the basis state in which they are one.                *)
(***************************************************************************)
StatesOver(R) == [Vectors(R) -> Amps]

OneQubit(R, u, q, f) ==
  [r \in Vectors(R) |->
    IF q \in r THEN OddOf(u, f[r \ {q}], f[r]) ELSE EvenOf(u, f[r], f[r \cup {q}])]

LEMMA Flipped ==
  ASSUME NEW R, NEW q \in R, NEW r \in Vectors(R)
  PROVE  /\ r \oplus {q} \in Vectors(R)
         /\ q \in r \oplus {q} <=> q \notin r
         /\ (r \oplus {q}) \oplus {q} = r
         /\ \A s : s # q => (s \in r \oplus {q} <=> s \in r)
<1>1. r \oplus {q} \in Vectors(R)
  BY XorClosed DEF Vectors
<1>2. QED
  BY <1>1, XorCancel, XorMember

\* g is f with the pairs of amplitudes that differ in q mixed by u.
Mixes(R, g, u, q, f) ==
  \A r \in Vectors(R) :
    g[r] = IF q \in r THEN OddOf(u, f[r \oplus {q}], f[r])
                      ELSE EvenOf(u, f[r], f[r \oplus {q}])

LEMMA OneQubitAt ==
  ASSUME NEW R, NEW q \in R, NEW u, NEW f
  PROVE  Mixes(R, OneQubit(R, u, q, f), u, q, f)
<1>1. ASSUME NEW r \in Vectors(R)
      PROVE  OneQubit(R, u, q, f)[r] = IF q \in r THEN OddOf(u, f[r \oplus {q}], f[r])
                                                 ELSE EvenOf(u, f[r], f[r \oplus {q}])
  <2>1. q \in r => r \ {q} = r \oplus {q}
    BY DEF \oplus
  <2>2. q \notin r => r \cup {q} = r \oplus {q}
    BY DEF \oplus
  <2>3. QED
    BY <2>1, <2>2 DEF OneQubit
<1>2. QED
  BY <1>1 DEF Mixes

LEMMA OneQubitTyped ==
  ASSUME NEW R, NEW q \in R, NEW u \in U3Matrices, NEW f \in StatesOver(R)
  PROVE  OneQubit(R, u, q, f) \in StatesOver(R)
<1> DEFINE g == OneQubit(R, u, q, f)
<1>1. ASSUME NEW r \in Vectors(R) PROVE g[r] \in Amps
  <2>1. f[r] \in Amps /\ f[r \oplus {q}] \in Amps
    BY Flipped DEF StatesOver
  <2>2. g[r] = IF q \in r THEN OddOf(u, f[r \oplus {q}], f[r]) ELSE EvenOf(u, f[r], f[r \oplus {q}])
    BY OneQubitAt DEF Mixes
  <2> HIDE DEF g
  <2>3. QED
    BY <2>1, <2>2, PairTyped
<1>2. g = [r \in Vectors(R) |-> g[r]]
  BY DEF OneQubit
<1> HIDE DEF g
<1>3. g \in StatesOver(R)
  BY <1>1, <1>2 DEF StatesOver
<1>4. QED
  BY <1>3 DEF g

\* Two states with the same amplitudes are the same.
LEMMA SameState ==
  ASSUME NEW R, NEW f \in StatesOver(R), NEW g \in StatesOver(R),
         \A r \in Vectors(R) : f[r] = g[r]
  PROVE  f = g
BY DEF StatesOver

LEMMA OneQubitIdentity ==
  ASSUME NEW R, NEW q \in R, NEW f \in StatesOver(R)
  PROVE  OneQubit(R, Identity, q, f) = f
<1>0. Mixes(R, OneQubit(R, Identity, q, f), Identity, q, f)
  BY OneQubitAt
<1>1. ASSUME NEW r \in Vectors(R) PROVE OneQubit(R, Identity, q, f)[r] = f[r]
  <2>1. f[r] \in Amps /\ f[r \oplus {q}] \in Amps
    BY Flipped DEF StatesOver
  <2>2. /\ EvenOf(Identity, f[r], f[r \oplus {q}]) = f[r]
        /\ OddOf(Identity, f[r \oplus {q}], f[r]) = f[r]
    BY <2>1, PairIdentity
  <2>3. QED
    BY <1>0, <2>2 DEF Mixes
<1>2. OneQubit(R, Identity, q, f) \in StatesOver(R)
  BY SomeAmps, OneQubitTyped
<1>3. QED
  BY <1>1, <1>2, SameState

LEMMA OneQubitTwice ==
  ASSUME NEW R, NEW q \in R, NEW n \in U3Matrices, NEW o \in U3Matrices,
         NEW f \in StatesOver(R)
  PROVE  OneQubit(R, n, q, OneQubit(R, o, q, f)) = OneQubit(R, LeftMultiply(n, o), q, f)
<1> DEFINE m == LeftMultiply(n, o)
           g == OneQubit(R, o, q, f)
           gg == OneQubit(R, n, q, g)
           h == OneQubit(R, m, q, f)
<1>1. /\ g \in StatesOver(R) /\ m \in U3Matrices
      /\ gg \in StatesOver(R) /\ h \in StatesOver(R)
  BY OneQubitTyped, ProductTyped
<1>5. Mixes(R, g, o, q, f) /\ Mixes(R, gg, n, q, g) /\ Mixes(R, h, m, q, f)
  BY OneQubitAt
<1> HIDE DEF g, gg, h
<1>2. ASSUME NEW r \in Vectors(R) PROVE gg[r] = h[r]
  <2>1. PICK x : x = r \oplus {q}
    OBVIOUS
  <2>2. x \in Vectors(R) /\ (q \in x <=> q \notin r) /\ x \oplus {q} = r
    BY <2>1, Flipped
  <2>3. f[r] \in Amps /\ f[x] \in Amps
    BY <2>2 DEF StatesOver
  <2>4. /\ gg[r] = IF q \in r THEN OddOf(n, g[x], g[r]) ELSE EvenOf(n, g[r], g[x])
        /\ h[r] = IF q \in r THEN OddOf(m, f[x], f[r]) ELSE EvenOf(m, f[r], f[x])
        /\ g[r] = IF q \in r THEN OddOf(o, f[x], f[r]) ELSE EvenOf(o, f[r], f[x])
    BY <1>5, <2>1 DEF Mixes
  <2>5. g[x] = IF q \in x THEN OddOf(o, f[r], f[x]) ELSE EvenOf(o, f[x], f[r])
    BY <1>5, <2>2 DEF Mixes
  <2>6. QED
    BY <2>2, <2>3, <2>4, <2>5, PairTwice
<1>3. gg = h
  BY <1>1, <1>2, SameState
<1>4. QED
  BY <1>3 DEF g, gg, h

LEMMA OneQubitsCross ==
  ASSUME NEW R, NEW p \in R, NEW q \in R, p # q,
         NEW u \in U3Matrices, NEW w \in U3Matrices, NEW f \in StatesOver(R)
  PROVE  OneQubit(R, u, p, OneQubit(R, w, q, f)) = OneQubit(R, w, q, OneQubit(R, u, p, f))
<1> DEFINE s == OneQubit(R, w, q, f)
           t == OneQubit(R, u, p, f)
           us == OneQubit(R, u, p, s)
           wt == OneQubit(R, w, q, t)
<1>1. us \in StatesOver(R) /\ wt \in StatesOver(R)
  BY OneQubitTyped
<1>4. Mixes(R, s, w, q, f) /\ Mixes(R, wt, w, q, t)
  BY OneQubitAt
<1>5. Mixes(R, t, u, p, f) /\ Mixes(R, us, u, p, s)
  BY OneQubitAt
<1> HIDE DEF s, t, us, wt
<1>2. ASSUME NEW v \in Vectors(R) PROVE us[v] = wt[v]
  <2>1. PICK x : x = v \oplus {p}
    OBVIOUS
  <2>2. PICK y : y = v \oplus {q}
    OBVIOUS
  <2>3. PICK z : z = x \oplus {q}
    OBVIOUS
  <2>4. x \in Vectors(R) /\ (p \in x <=> p \notin v) /\ (q \in x <=> q \in v)
    BY <2>1, Flipped
  <2>5. y \in Vectors(R) /\ (q \in y <=> q \notin v) /\ (p \in y <=> p \in v)
    BY <2>2, Flipped
  <2>10. z \in Vectors(R)
    BY <2>3, <2>4, Flipped
  <2>11. y \oplus {p} = z
    BY <2>1, <2>2, <2>3 DEF \oplus
  <2>12. f[v] \in Amps /\ f[x] \in Amps /\ f[y] \in Amps /\ f[z] \in Amps
    BY <2>4, <2>5, <2>10 DEF StatesOver
  <2>13. /\ s[v] = IF q \in v THEN OddOf(w, f[y], f[v]) ELSE EvenOf(w, f[v], f[y])
         /\ wt[v] = IF q \in v THEN OddOf(w, t[y], t[v]) ELSE EvenOf(w, t[v], t[y])
    BY <1>4, <2>2 DEF Mixes
  <2>14. s[x] = IF q \in x THEN OddOf(w, f[z], f[x]) ELSE EvenOf(w, f[x], f[z])
    BY <1>4, <2>3, <2>4 DEF Mixes
  <2>15. /\ t[v] = IF p \in v THEN OddOf(u, f[x], f[v]) ELSE EvenOf(u, f[v], f[x])
         /\ us[v] = IF p \in v THEN OddOf(u, s[x], s[v]) ELSE EvenOf(u, s[v], s[x])
    BY <1>5, <2>1 DEF Mixes
  <2>16. t[y] = IF p \in y THEN OddOf(u, f[z], f[y]) ELSE EvenOf(u, f[y], f[z])
    BY <1>5, <2>5, <2>11 DEF Mixes
  <2>6. CASE p \in v /\ q \in v
    <3>1. us[v] = OddOf(u, OddOf(w, f[z], f[x]), OddOf(w, f[y], f[v]))
      BY <2>4, <2>5, <2>13, <2>14, <2>15, <2>16, <2>6
    <3>2. wt[v] = OddOf(w, OddOf(u, f[z], f[y]), OddOf(u, f[x], f[v]))
      BY <2>4, <2>5, <2>13, <2>14, <2>15, <2>16, <2>6
    <3>3. QED
      BY <2>12, <3>1, <3>2, PairsCross, SMTT(30)
  <2>7. CASE p \in v /\ q \notin v
    <3>1. us[v] = OddOf(u, EvenOf(w, f[x], f[z]), EvenOf(w, f[v], f[y]))
      BY <2>4, <2>5, <2>13, <2>14, <2>15, <2>16, <2>7
    <3>2. wt[v] = EvenOf(w, OddOf(u, f[x], f[v]), OddOf(u, f[z], f[y]))
      BY <2>4, <2>5, <2>13, <2>14, <2>15, <2>16, <2>7
    <3>3. QED
      BY <2>12, <3>1, <3>2, PairsCross, SMTT(30)
  <2>8. CASE p \notin v /\ q \in v
    <3>1. us[v] = EvenOf(u, OddOf(w, f[y], f[v]), OddOf(w, f[z], f[x]))
      BY <2>4, <2>5, <2>13, <2>14, <2>15, <2>16, <2>8
    <3>2. wt[v] = OddOf(w, EvenOf(u, f[y], f[z]), EvenOf(u, f[v], f[x]))
      BY <2>4, <2>5, <2>13, <2>14, <2>15, <2>16, <2>8
    <3>3. QED
      BY <2>12, <3>1, <3>2, PairsCross, SMTT(30)
  <2>9. CASE p \notin v /\ q \notin v
    <3>1. us[v] = EvenOf(u, EvenOf(w, f[v], f[y]), EvenOf(w, f[x], f[z]))
      BY <2>4, <2>5, <2>13, <2>14, <2>15, <2>16, <2>9
    <3>2. wt[v] = EvenOf(w, EvenOf(u, f[v], f[x]), EvenOf(u, f[y], f[z]))
      BY <2>4, <2>5, <2>13, <2>14, <2>15, <2>16, <2>9
    <3>3. QED
      BY <2>12, <3>1, <3>2, PairsCross, SMTT(30)
  <2>17. QED
    BY <2>6, <2>7, <2>8, <2>9
<1>3. us = wt
  BY <1>1, <1>2, SameState
<1>6. QED
  BY <1>3 DEF us, wt, s, t

-----------------------------------------------------------------------------
(***************************************************************************)
(* The other operators on states: amplitudes that move, and amplitudes that *)
(* are multiplied.  A projection multiplies by zero or one, a global phase  *)
(* by the same everywhere.                                                  *)
(***************************************************************************)
Moved(R, g, f) == [r \in Vectors(R) |-> f[g[r]]]
Phased(R, ph, f) == [r \in Vectors(R) |-> (ph[r] * f[r]) % P17]
Times(R, k, f) == Phased(R, [r \in Vectors(R) |-> k], f)

LEMMA AmpIsInteger ==
  ASSUME NEW a \in Amps
  PROVE  a \in Int /\ a % P17 = a
BY DEF Amps, P17

LEMMA MovedTyped ==
  ASSUME NEW R, NEW g \in [Vectors(R) -> Vectors(R)], NEW f \in StatesOver(R)
  PROVE  Moved(R, g, f) \in StatesOver(R)
BY DEF Moved, StatesOver

LEMMA ProductAmp ==
  ASSUME NEW a \in Amps, NEW c \in Amps
  PROVE  (a * c) % P17 \in Amps
<1>1. a * c \in Int
  BY AmpIsInteger
<1>2. QED
  BY <1>1, Residue

LEMMA PhasedTyped ==
  ASSUME NEW R, NEW ph \in StatesOver(R), NEW f \in StatesOver(R)
  PROVE  Phased(R, ph, f) \in StatesOver(R)
<1>1. \A r \in Vectors(R) : ph[r] \in Amps /\ f[r] \in Amps
  BY DEF StatesOver
<1>2. \A r \in Vectors(R) : (ph[r] * f[r]) % P17 \in Amps
  BY <1>1, ProductAmp
<1>3. QED
  BY <1>2 DEF Phased, StatesOver

LEMMA TimesTyped ==
  ASSUME NEW R, NEW k \in Amps, NEW f \in StatesOver(R)
  PROVE  Times(R, k, f) \in StatesOver(R)
<1>1. [r \in Vectors(R) |-> k] \in StatesOver(R)
  BY DEF StatesOver
<1>2. QED
  BY <1>1, PhasedTyped DEF Times

LEMMA TimesAt ==
  ASSUME NEW R, NEW k, NEW f, NEW r \in Vectors(R)
  PROVE  Times(R, k, f)[r] = (k * f[r]) % P17
BY DEF Times, Phased

\* Products of residues.
LEMMA ProductsSwap ==
  ASSUME NEW a \in Amps, NEW c \in Amps, NEW d \in Amps
  PROVE  /\ (a * ((c * d) % P17)) % P17 = (c * ((a * d) % P17)) % P17
         /\ (a * ((c * d) % P17)) % P17 = (((a * c) % P17) * d) % P17
<1>1. a \in Int /\ c \in Int /\ d \in Int
  BY AmpIsInteger
<1> DEFINE x == c * d
           y == a * d
           z == a * c
<1>2. x \in Int /\ y \in Int /\ z \in Int /\ a * x = c * y /\ a * x = d * z
  BY <1>1
<1>3. z % P17 \in Int /\ ((z % P17) * d = d * (z % P17))
  <2>1. z % P17 \in Int
    BY <1>2, Residue, AmpIsInteger
  <2> DEFINE v == z % P17
  <2> HIDE DEF v
  <2>2. v \in Int => v * d = d * v
    BY <1>1
  <2>3. QED
    BY <2>1, <2>2 DEF v
<1> HIDE DEF x, y, z
<1>4. (a * (x % P17)) % P17 = (a * x) % P17
  BY <1>1, <1>2, ReducedOne
<1>5. (c * (y % P17)) % P17 = (c * y) % P17
  BY <1>1, <1>2, ReducedOne
<1>6. (d * (z % P17)) % P17 = (d * z) % P17
  BY <1>1, <1>2, ReducedOne
<1>7. QED
  BY <1>2, <1>3, <1>4, <1>5, <1>6 DEF x, y, z

LEMMA PhasesCross ==
  ASSUME NEW R, NEW a \in StatesOver(R), NEW ph \in StatesOver(R), NEW f \in StatesOver(R)
  PROVE  Phased(R, a, Phased(R, ph, f)) = Phased(R, ph, Phased(R, a, f))
<1>1. \A r \in Vectors(R) : a[r] \in Amps /\ ph[r] \in Amps /\ f[r] \in Amps
  BY DEF StatesOver
<1>2. ASSUME NEW r \in Vectors(R)
      PROVE (a[r] * ((ph[r] * f[r]) % P17)) % P17 = (ph[r] * ((a[r] * f[r]) % P17)) % P17
  BY <1>1, ProductsSwap
<1>3. QED
  BY <1>2 DEF Phased

LEMMA TimesTwice ==
  ASSUME NEW R, NEW k \in Amps, NEW l \in Amps, NEW f \in StatesOver(R)
  PROVE  Times(R, k, Times(R, l, f)) = Times(R, (k * l) % P17, f)
<1>1. ASSUME NEW r \in Vectors(R)
      PROVE (k * ((l * f[r]) % P17)) % P17 = (((k * l) % P17) * f[r]) % P17
  <2>1. f[r] \in Amps
    BY DEF StatesOver
  <2>2. QED
    BY <2>1, ProductsSwap
<1>2. QED
  BY <1>1 DEF Times, Phased

LEMMA TimesOne ==
  ASSUME NEW R, NEW f \in StatesOver(R)
  PROVE  Times(R, 1, f) = f
<1>1. Times(R, 1, f) \in StatesOver(R)
  BY SomeAmps, TimesTyped
<1>2. ASSUME NEW r \in Vectors(R) PROVE Times(R, 1, f)[r] = f[r]
  <2>1. f[r] \in Amps
    BY DEF StatesOver
  <2>2. (1 * f[r]) % P17 = f[r]
    <3>1. f[r] \in Int /\ f[r] % P17 = f[r]
      BY <2>1, AmpIsInteger
    <3>2. 1 * f[r] = f[r]
      BY <3>1
    <3>3. QED
      BY <3>1, <3>2
  <2>3. QED
    BY <2>2, TimesAt
<1>3. QED
  BY <1>1, <1>2, SameState

LEMMA TimesMoves ==
  ASSUME NEW R, NEW g \in [Vectors(R) -> Vectors(R)], NEW k \in Amps, NEW f \in StatesOver(R)
  PROVE  Moved(R, g, Times(R, k, f)) = Times(R, k, Moved(R, g, f))
<1>1. ASSUME NEW r \in Vectors(R)
      PROVE  Times(R, k, f)[g[r]] = (k * f[g[r]]) % P17 /\ Moved(R, g, f)[r] = f[g[r]]
  BY TimesAt DEF Moved
<1>2. Moved(R, g, Times(R, k, f)) \in StatesOver(R) /\ Times(R, k, Moved(R, g, f)) \in StatesOver(R)
  BY MovedTyped, TimesTyped
<1>3. ASSUME NEW r \in Vectors(R)
      PROVE  Moved(R, g, Times(R, k, f))[r] = Times(R, k, Moved(R, g, f))[r]
  <2>1. Moved(R, g, Times(R, k, f))[r] = Times(R, k, f)[g[r]]
    BY DEF Moved
  <2>2. Times(R, k, Moved(R, g, f))[r] = (k * Moved(R, g, f)[r]) % P17
    BY TimesAt
  <2>3. QED
    BY <1>1, <2>1, <2>2
<1>4. QED
  BY <1>2, <1>3, SameState

\* A one-qubit operator and a factor that both amplitudes of a pair have.
LEMMA FactorPasses ==
  ASSUME NEW u \in U3Matrices, NEW k \in Amps, NEW a \in Amps, NEW c \in Amps
  PROVE  /\ EvenOf(u, (k * a) % P17, (k * c) % P17) = (k * EvenOf(u, a, c)) % P17
         /\ OddOf(u, (k * a) % P17, (k * c) % P17) = (k * OddOf(u, a, c)) % P17
<1>1. k \in Int /\ a \in Int /\ c \in Int
  BY AmpIsInteger
<1>2. ASSUME NEW s \in Int, NEW t \in Int
      PROVE  (s * ((k * a) % P17) + t * ((k * c) % P17)) % P17 = (k * ((s * a + t * c) % P17)) % P17
  <2> DEFINE x == k * a
             y == k * c
             z == s * a + t * c
  <2>1. x \in Int /\ y \in Int /\ z \in Int /\ s * x + t * y = k * z
    BY <1>1
  <2> HIDE DEF x, y, z
  <2>2. (s * (x % P17) + t * (y % P17)) % P17 = (s * x + t * y) % P17
    BY <2>1, ReducedSum
  <2>3. (k * (z % P17)) % P17 = (k * z) % P17
    BY <1>1, <2>1, ReducedOne
  <2>4. QED
    BY <2>1, <2>2, <2>3 DEF x, y, z
<1>3. u.u00 \in Int /\ u.u01 \in Int /\ u.u10 \in Int /\ u.u11 \in Int
  BY Entries
<1>4. QED
  BY <1>2, <1>3 DEF EvenOf, OddOf

\* Factors, and moves, that qubit q has nothing to do with.
Ignores(R, ph, q) == \A r \in Vectors(R) : ph[r \oplus {q}] = ph[r]
Spares(R, g, q) ==
  \A r \in Vectors(R) : g[r \oplus {q}] = g[r] \oplus {q} /\ (q \in g[r] <=> q \in r)

LEMMA OneQubitPhased ==
  ASSUME NEW R, NEW q \in R, NEW u \in U3Matrices, NEW ph \in StatesOver(R),
         NEW f \in StatesOver(R), Ignores(R, ph, q)
  PROVE  OneQubit(R, u, q, Phased(R, ph, f)) = Phased(R, ph, OneQubit(R, u, q, f))
<1> DEFINE g == Phased(R, ph, f)
           ug == OneQubit(R, u, q, g)
           uf == OneQubit(R, u, q, f)
           h == Phased(R, ph, uf)
<1>1. uf \in StatesOver(R) /\ g \in StatesOver(R)
  BY OneQubitTyped, PhasedTyped
<1>2. ug \in StatesOver(R) /\ h \in StatesOver(R)
  BY <1>1, OneQubitTyped, PhasedTyped
<1>3. Mixes(R, ug, u, q, g) /\ Mixes(R, uf, u, q, f)
  BY OneQubitAt
<1>4. \A r \in Vectors(R) : g[r] = (ph[r] * f[r]) % P17 /\ h[r] = (ph[r] * uf[r]) % P17
  BY DEF Phased
<1> HIDE DEF g, ug, uf, h
<1>5. ASSUME NEW r \in Vectors(R) PROVE ug[r] = h[r]
  <2>1. PICK x : x = r \oplus {q}
    OBVIOUS
  <2>2. x \in Vectors(R) /\ ph[x] = ph[r]
    BY <2>1, Flipped DEF Ignores
  <2>3. ph[r] \in Amps /\ f[r] \in Amps /\ f[x] \in Amps
    BY <2>2 DEF StatesOver
  <2>4. g[r] = (ph[r] * f[r]) % P17 /\ g[x] = (ph[r] * f[x]) % P17
    BY <1>4, <2>2
  <2>5. h[r] = (ph[r] * uf[r]) % P17
    BY <1>4
  <2>6. /\ ug[r] = IF q \in r THEN OddOf(u, g[x], g[r]) ELSE EvenOf(u, g[r], g[x])
        /\ uf[r] = IF q \in r THEN OddOf(u, f[x], f[r]) ELSE EvenOf(u, f[r], f[x])
    BY <1>3, <2>1 DEF Mixes
  <2>7. /\ OddOf(u, g[x], g[r]) = (ph[r] * OddOf(u, f[x], f[r])) % P17
        /\ EvenOf(u, g[r], g[x]) = (ph[r] * EvenOf(u, f[r], f[x])) % P17
    BY <2>3, <2>4, FactorPasses
  <2>8. QED
    BY <2>5, <2>6, <2>7
<1>6. ug = h
  BY <1>2, <1>5, SameState
<1>7. QED
  BY <1>6 DEF g, ug, uf, h

LEMMA OneQubitTimes ==
  ASSUME NEW R, NEW q \in R, NEW u \in U3Matrices, NEW k \in Amps, NEW f \in StatesOver(R)
  PROVE  OneQubit(R, u, q, Times(R, k, f)) = Times(R, k, OneQubit(R, u, q, f))
<1> DEFINE ph == [r \in Vectors(R) |-> k]
<1>1. ph \in StatesOver(R)
  BY DEF StatesOver
<1>2. Ignores(R, ph, q)
  BY Flipped DEF Ignores
<1>3. \A g : Times(R, k, g) = Phased(R, ph, g)
  BY DEF Times
<1> HIDE DEF ph
<1>4. QED
  BY <1>1, <1>2, <1>3, OneQubitPhased

LEMMA OneQubitMoved ==
  ASSUME NEW R, NEW q \in R, NEW u \in U3Matrices, NEW g \in [Vectors(R) -> Vectors(R)],
         NEW f \in StatesOver(R), Spares(R, g, q)
  PROVE  OneQubit(R, u, q, Moved(R, g, f)) = Moved(R, g, OneQubit(R, u, q, f))
<1> DEFINE m == Moved(R, g, f)
           um == OneQubit(R, u, q, m)
           uf == OneQubit(R, u, q, f)
           h == Moved(R, g, uf)
<1>1. uf \in StatesOver(R) /\ m \in StatesOver(R)
  BY OneQubitTyped, MovedTyped
<1>2. um \in StatesOver(R) /\ h \in StatesOver(R)
  BY <1>1, OneQubitTyped, MovedTyped
<1>3. Mixes(R, um, u, q, m) /\ Mixes(R, uf, u, q, f)
  BY OneQubitAt
<1>4. \A r \in Vectors(R) : m[r] = f[g[r]] /\ h[r] = uf[g[r]]
  BY DEF Moved
<1> HIDE DEF m, um, uf, h
<1>5. ASSUME NEW r \in Vectors(R) PROVE um[r] = h[r]
  <2>1. PICK x : x = r \oplus {q}
    OBVIOUS
  <2>2. PICK y \in Vectors(R) : y = g[r]
    OBVIOUS
  <2>3. x \in Vectors(R) /\ g[x] = y \oplus {q} /\ (q \in y <=> q \in r)
    BY <2>1, <2>2, Flipped DEF Spares
  <2>4. m[r] = f[y] /\ m[x] = f[y \oplus {q}] /\ h[r] = uf[y]
    BY <1>4, <2>2, <2>3
  <2>5. um[r] = IF q \in r THEN OddOf(u, m[x], m[r]) ELSE EvenOf(u, m[r], m[x])
    BY <1>3, <2>1 DEF Mixes
  <2>6. uf[y] = IF q \in y THEN OddOf(u, f[y \oplus {q}], f[y])
                           ELSE EvenOf(u, f[y], f[y \oplus {q}])
    BY <1>3, <2>2 DEF Mixes
  <2>7. QED
    BY <2>3, <2>4, <2>5, <2>6
<1>6. um = h
  BY <1>2, <1>5, SameState
<1>7. QED
  BY <1>6 DEF m, um, uf, h

-----------------------------------------------------------------------------
(***************************************************************************)
(* The gates on one column of an operator: the amplitude that a gate moves  *)
(* to r comes from Source, and the one it turns there turns by Angle/2.     *)
(***************************************************************************)
OneQubitNames == {"h", "x", "p", "rx"}
MovingNames == {"cx", "swap", "ccx"}
TurningNames == {"cz", "cp", "crz", "rzz", "ccz"}

Source(i, r) ==
  CASE i.name = "cx" -> IF i.qs[1] \in r THEN r \oplus {i.qs[2]} ELSE r
    [] i.name = "swap" -> IF (i.qs[1] \in r) # (i.qs[2] \in r)
                          THEN (r \oplus {i.qs[1]}) \oplus {i.qs[2]} ELSE r
    [] i.name = "ccx" -> IF i.qs[1] \in r /\ i.qs[2] \in r THEN r \oplus {i.qs[3]} ELSE r

Angle(i, r) ==
  CASE i.name = "cz" -> IF i.qs[1] \in r /\ i.qs[2] \in r THEN 8 ELSE 0
    [] i.name = "cp" -> IF i.qs[1] \in r /\ i.qs[2] \in r THEN 2 * i.theta ELSE 0
    [] i.name = "crz" -> IF ~(i.qs[1] \in r) THEN 0
                         ELSE IF i.qs[2] \in r THEN i.theta ELSE -i.theta
    [] i.name = "rzz" -> IF (i.qs[1] \in r) # (i.qs[2] \in r) THEN 2 * i.theta ELSE 0
    [] i.name = "ccz" ->
         IF (i.qs[1] \in r /\ i.qs[2] \in r) /\ i.qs[3] \in r THEN 8 ELSE 0

SourceOf(R, i) == [r \in Vectors(R) |-> Source(i, r)]
FactorOf(R, i) == [r \in Vectors(R) |-> Zeta[Angle(i, r) % 16]]

GateOn(R, i, f) ==
  IF i.name \in OneQubitNames THEN OneQubit(R, SingleQubitMatrix(i), i.qs[1], f)
  ELSE IF i.name \in MovingNames THEN Moved(R, SourceOf(R, i), f)
  ELSE Phased(R, FactorOf(R, i), f)

\* The gates of the circuits, and the steps they are lowered to.
GateIn(R, i) == WellFormed(i, R) /\ i.name \notin Boundaries
StepNames == OneQubitNames \cup {"cx", "cp", "crz"}
StepIn(R, i) == GateIn(R, i) /\ i.name \in StepNames

LEMMA GateShape ==
  ASSUME NEW R, NEW i, GateIn(R, i)
  PROVE  /\ i.theta \in Int
         /\ i.qs \in Seq(R) /\ Len(i.qs) \in Nat
         /\ i.name \in OneQubitNames => Len(i.qs) = 1 /\ i.qs[1] \in R
         /\ i.name \notin OneQubitNames =>
              /\ Len(i.qs) \in {2, 3}
              /\ i.qs[1] \in R /\ i.qs[2] \in R /\ i.qs[1] # i.qs[2]
         /\ i.name \in {"ccx", "ccz"} =>
              /\ Len(i.qs) = 3 /\ i.qs[3] \in R
              /\ i.qs[1] # i.qs[3] /\ i.qs[2] # i.qs[3]
         /\ i.name \notin {"ccx", "ccz"} => Len(i.qs) # 3
         /\ i.name \in OneQubitNames \cup MovingNames \cup TurningNames
<1>1. /\ i.theta \in Int /\ i.qs \in Seq(R)
      /\ \A j, k \in DOMAIN i.qs : i.qs[j] = i.qs[k] => j = k
      /\ \/ i.name \in OneQubitNames /\ Len(i.qs) = 1
         \/ i.name \in {"cx", "swap", "cz", "cp", "crz", "rzz"} /\ Len(i.qs) = 2
         \/ i.name \in {"ccz", "ccx"} /\ Len(i.qs) = 3
  BY DEF GateIn, WellFormed, Boundaries, OneQubitNames
<1> DEFINE s == i.qs
<1>2. Len(s) \in Nat /\ DOMAIN s = 1 .. Len(s) /\ \A j \in 1 .. Len(s) : s[j] \in R
  BY <1>1
<1>3. \A j, k \in 1 .. Len(s) : s[j] = s[k] => j = k
  BY <1>1, <1>2
<1> HIDE DEF s
<1>4. CASE i.name \in OneQubitNames /\ Len(s) = 1
  <2>1. s[1] \in R
    BY <1>2, <1>4
  <2>2. QED
    BY <1>1, <1>2, <1>4, <2>1 DEF s, OneQubitNames, MovingNames, TurningNames
<1>5. CASE i.name \in {"cx", "swap", "cz", "cp", "crz", "rzz"} /\ Len(s) = 2
  <2>1. s[1] \in R /\ s[2] \in R /\ s[1] # s[2]
    BY <1>2, <1>3, <1>5
  <2>2. QED
    BY <1>1, <1>2, <1>5, <2>1 DEF s, OneQubitNames, MovingNames, TurningNames
<1>6. CASE i.name \in {"ccz", "ccx"} /\ Len(s) = 3
  <2>1. s[1] \in R /\ s[2] \in R /\ s[3] \in R
    BY <1>2, <1>6
  <2>2. s[1] # s[2] /\ s[1] # s[3] /\ s[2] # s[3]
    BY <1>3, <1>6
  <2>3. QED
    BY <1>1, <1>2, <1>6, <2>1, <2>2 DEF s, OneQubitNames, MovingNames, TurningNames
<1>7. QED
  BY <1>1, <1>4, <1>5, <1>6 DEF s

LEMMA GateAfterColumns ==
  ASSUME NEW i, GateIn(Qubits, i), NEW op
  PROVE  GateAfter(i, op) = [c \in Vectors(Qubits) |-> GateOn(Qubits, i, op[c])]
<1>1. /\ i.theta \in Int /\ (i.name \in OneQubitNames <=> Len(i.qs) = 1)
      /\ i.name \in OneQubitNames \cup MovingNames \cup TurningNames
  BY GateShape
<1>2. Basis = Vectors(Qubits)
  BY DEF Basis, Vectors
<1>3. CASE Len(i.qs) = 1
  <2>1. GateAfter(i, op) = Apply1Q(SingleQubitMatrix(i), i.qs[1], op)
    <3>1. i.name \in {"h", "x", "p", "rx"}
      BY <1>1, <1>3 DEF OneQubitNames
    <3>2. i.name \notin {"cx", "swap", "cz", "cp", "crz", "rzz", "ccz", "ccx"}
      BY <3>1
    <3>3. QED
      BY <1>3, <3>2 DEF GateAfter, Permute, Diagonal
  <2>2. \A c : GateOn(Qubits, i, op[c]) = OneQubit(Qubits, SingleQubitMatrix(i), i.qs[1], op[c])
    BY <1>1, <1>3 DEF GateOn
  <2> HIDE DEF Basis
  <2>3. GateAfter(i, op) = [c \in Basis |-> OneQubit(Qubits, SingleQubitMatrix(i), i.qs[1], op[c])]
    BY <1>2, <2>1 DEF Apply1Q, OneQubit
  <2>4. QED
    BY <1>2, <2>2, <2>3
<1>4. CASE Len(i.qs) # 1 /\ i.name \in MovingNames
  <2>1. \A c : GateOn(Qubits, i, op[c]) = [r \in Vectors(Qubits) |-> op[c][Source(i, r)]]
    <3>1. ASSUME NEW c PROVE GateOn(Qubits, i, op[c]) = Moved(Qubits, SourceOf(Qubits, i), op[c])
      BY <1>1, <1>4 DEF GateOn
    <3>2. QED
      BY <3>1 DEF Moved, SourceOf
  <2>2. GateAfter(i, op) = [c \in Basis |-> [r \in Basis |-> op[c][Source(i, r)]]]
    <3>1. CASE i.name = "cx"
      BY <1>4, <3>1 DEF GateAfter, Permute, Source
    <3>2. CASE i.name = "swap"
      BY <1>4, <3>2 DEF GateAfter, Permute, Source
    <3>3. CASE i.name = "ccx"
      BY <1>4, <3>3 DEF GateAfter, Permute, Source
    <3>4. QED
      BY <1>4, <3>1, <3>2, <3>3 DEF MovingNames
  <2>3. QED
    BY <1>2, <2>1, <2>2
<1>5. CASE Len(i.qs) # 1 /\ i.name \in TurningNames
  <2>1. \A c : GateOn(Qubits, i, op[c])
                 = [r \in Vectors(Qubits) |-> (Zeta[Angle(i, r) % 16] * op[c][r]) % P17]
    <3>1. i.name \notin MovingNames
      BY <1>5 DEF MovingNames, TurningNames
    <3>2. ASSUME NEW c PROVE GateOn(Qubits, i, op[c]) = Phased(Qubits, FactorOf(Qubits, i), op[c])
      BY <1>1, <1>5, <3>1 DEF GateOn
    <3>3. QED
      BY <3>2 DEF Phased, FactorOf
  <2>2. \A r : Angle(i, r) \in Int
    BY <1>1, <1>5 DEF TurningNames, Angle
  <2>3. GateAfter(i, op) = [c \in Basis |-> [r \in Basis |-> HalfBackBy(-Angle(i, r), op[c][r])]]
    <3>1. CASE i.name = "cz"
      BY <1>5, <3>1 DEF GateAfter, Diagonal, Angle
    <3>2. CASE i.name = "cp"
      BY <1>5, <3>2 DEF GateAfter, Diagonal, Angle
    <3>3. CASE i.name = "crz"
      BY <1>5, <3>3 DEF GateAfter, Diagonal, Angle
    <3>4. CASE i.name = "rzz"
      BY <1>5, <3>4 DEF GateAfter, Diagonal, Angle
    <3>5. CASE i.name = "ccz"
      BY <1>5, <3>5 DEF GateAfter, Diagonal, Angle
    <3>6. QED
      BY <1>5, <3>1, <3>2, <3>3, <3>4, <3>5 DEF TurningNames
  <2>4. ASSUME NEW r, NEW a PROVE HalfBackBy(-Angle(i, r), a) = (Zeta[Angle(i, r) % 16] * a) % P17
    <3>1. -(-Angle(i, r)) = Angle(i, r)
      BY <2>2
    <3>2. QED
      BY <3>1 DEF HalfBackBy
  <2>5. QED
    BY <1>2, <2>1, <2>3, <2>4
<1>6. QED
  BY <1>1, <1>3, <1>4, <1>5

LEMMA SingleTyped ==
  ASSUME NEW R, NEW i, GateIn(R, i), i.name \in OneQubitNames
  PROVE  SingleQubitMatrix(i) \in U3Matrices /\ i.qs[1] \in R
<1>1. i.theta \in Int /\ i.qs[1] \in R
  BY GateShape
<1>2. /\ U3Matrix(2, 4, 0) \in U3Matrices /\ U3Matrix(4, 4, 0) \in U3Matrices
      /\ U3Matrix(0, i.theta, 0) \in U3Matrices /\ U3Matrix(i.theta, 2, -2) \in U3Matrices
  BY <1>1, EntryTyped
<1>3. QED
  BY <1>1, <1>2 DEF SingleQubitMatrix, OneQubitNames

LEMMA SourceTyped ==
  ASSUME NEW R, NEW i, GateIn(R, i), i.name \in MovingNames
  PROVE  SourceOf(R, i) \in [Vectors(R) -> Vectors(R)]
<1>1. /\ i.qs[1] \in R /\ i.qs[2] \in R /\ (i.name = "ccx" => i.qs[3] \in R)
  BY GateShape DEF MovingNames, OneQubitNames
<1>2. \A q \in R : \A r \in Vectors(R) : r \oplus {q} \in Vectors(R)
  BY Flipped
<1>3. ASSUME NEW r \in Vectors(R) PROVE Source(i, r) \in Vectors(R)
  BY <1>1, <1>2 DEF Source, MovingNames
<1>4. QED
  BY <1>3 DEF SourceOf

LEMMA AngleInteger ==
  ASSUME NEW R, NEW i, GateIn(R, i), i.name \in TurningNames, NEW r
  PROVE  Angle(i, r) \in Int
<1>1. i.theta \in Int
  BY GateShape
<1>2. QED
  BY <1>1 DEF Angle, TurningNames

LEMMA RootAmp ==
  ASSUME NEW a \in Int
  PROVE  Zeta[a % 16] \in Amps
<1>1. a % 16 \in 0 .. 15
  OBVIOUS
<1> DEFINE k == a % 16
<1> HIDE DEF k
<1>2. k \in 0 .. 15 => Zeta[k] \in Amps
  BY DEF Zeta, Amps, P17
<1>3. QED
  BY <1>1, <1>2 DEF k

LEMMA FactorTyped ==
  ASSUME NEW R, NEW i, GateIn(R, i), i.name \in TurningNames
  PROVE  FactorOf(R, i) \in StatesOver(R)
<1>1. \A r \in Vectors(R) : Zeta[Angle(i, r) % 16] \in Amps
  BY AngleInteger, RootAmp
<1>2. QED
  BY <1>1 DEF FactorOf, StatesOver

LEMMA GateKinds ==
  ASSUME NEW R, NEW i, GateIn(R, i), NEW f
  PROVE  \/ /\ i.name \in OneQubitNames
            /\ GateOn(R, i, f) = OneQubit(R, SingleQubitMatrix(i), i.qs[1], f)
         \/ /\ i.name \in MovingNames
            /\ GateOn(R, i, f) = Moved(R, SourceOf(R, i), f)
         \/ /\ i.name \in TurningNames
            /\ GateOn(R, i, f) = Phased(R, FactorOf(R, i), f)
<1>1. i.name \in OneQubitNames \cup MovingNames \cup TurningNames
  BY GateShape
<1>2. i.name \in MovingNames => i.name \notin OneQubitNames
  BY DEF MovingNames, OneQubitNames
<1>3. i.name \in TurningNames => i.name \notin OneQubitNames /\ i.name \notin MovingNames
  BY DEF MovingNames, OneQubitNames, TurningNames
<1>4. QED
  BY <1>1, <1>2, <1>3 DEF GateOn

LEMMA GateTyped ==
  ASSUME NEW R, NEW i, GateIn(R, i), NEW f \in StatesOver(R)
  PROVE  GateOn(R, i, f) \in StatesOver(R)
<1>1. CASE i.name \in OneQubitNames /\ GateOn(R, i, f) = OneQubit(R, SingleQubitMatrix(i), i.qs[1], f)
  BY <1>1, SingleTyped, OneQubitTyped
<1>2. CASE i.name \in MovingNames /\ GateOn(R, i, f) = Moved(R, SourceOf(R, i), f)
  BY <1>2, SourceTyped, MovedTyped
<1>3. CASE i.name \in TurningNames /\ GateOn(R, i, f) = Phased(R, FactorOf(R, i), f)
  BY <1>3, FactorTyped, PhasedTyped
<1>4. QED
  BY <1>1, <1>2, <1>3, GateKinds

\* A global phase passes every gate.
LEMMA GateTimes ==
  ASSUME NEW R, NEW i, GateIn(R, i), NEW k \in Amps, NEW f \in StatesOver(R)
  PROVE  GateOn(R, i, Times(R, k, f)) = Times(R, k, GateOn(R, i, f))
<1> DEFINE g == Times(R, k, f)
<1>1. CASE i.name \in OneQubitNames
  <2>1. /\ GateOn(R, i, f) = OneQubit(R, SingleQubitMatrix(i), i.qs[1], f)
        /\ GateOn(R, i, g) = OneQubit(R, SingleQubitMatrix(i), i.qs[1], g)
    BY <1>1 DEF GateOn
  <2>2. QED
    BY <1>1, <2>1, SingleTyped, OneQubitTimes
<1>2. CASE i.name \in MovingNames
  <2>1. /\ GateOn(R, i, f) = Moved(R, SourceOf(R, i), f)
        /\ GateOn(R, i, g) = Moved(R, SourceOf(R, i), g)
    BY <1>2 DEF GateOn, MovingNames, OneQubitNames
  <2>2. QED
    BY <1>2, <2>1, SourceTyped, TimesMoves
<1>3. CASE i.name \in TurningNames
  <2>1. /\ GateOn(R, i, f) = Phased(R, FactorOf(R, i), f)
        /\ GateOn(R, i, g) = Phased(R, FactorOf(R, i), g)
    BY <1>3 DEF GateOn, MovingNames, OneQubitNames, TurningNames
  <2>2. [r \in Vectors(R) |-> k] \in StatesOver(R)
    BY DEF StatesOver
  <2>3. QED
    BY <1>3, <2>1, <2>2, FactorTyped, PhasesCross DEF Times
<1>4. QED
  BY <1>1, <1>2, <1>3, GateShape

\* A two-qubit step and an operator on a third qubit.
LEMMA StepPasses ==
  ASSUME NEW R, NEW i, StepIn(R, i), i.name \notin OneQubitNames,
         NEW q \in R, q # i.qs[1], q # i.qs[2], NEW u \in U3Matrices, NEW f \in StatesOver(R)
  PROVE  OneQubit(R, u, q, GateOn(R, i, f)) = GateOn(R, i, OneQubit(R, u, q, f))
<1> DEFINE g == OneQubit(R, u, q, f)
<1>0. GateIn(R, i) /\ i.name \in {"cx", "cp", "crz"}
  BY DEF StepIn, StepNames
<1>1. \A r \in Vectors(R) : /\ r \oplus {q} \in Vectors(R)
                           /\ (i.qs[1] \in r \oplus {q} <=> i.qs[1] \in r)
                           /\ (i.qs[2] \in r \oplus {q} <=> i.qs[2] \in r)
  <2>1. \A r \in Vectors(R) : r \oplus {q} \in Vectors(R)
    BY Flipped
  <2>2. \A r, x : x # q => (x \in r \oplus {q} <=> x \in r)
    BY DEF \oplus
  <2>3. QED
    BY <2>1, <2>2
<1>2. CASE i.name = "cx"
  <2>1. /\ GateOn(R, i, f) = Moved(R, SourceOf(R, i), f)
        /\ GateOn(R, i, g) = Moved(R, SourceOf(R, i), g)
    BY <1>2 DEF GateOn, MovingNames, OneQubitNames
  <2>2. SourceOf(R, i) \in [Vectors(R) -> Vectors(R)]
    BY <1>0, <1>2, SourceTyped DEF MovingNames
  <2>3. Spares(R, SourceOf(R, i), q)
    <3>1. ASSUME NEW r \in Vectors(R)
          PROVE  Source(i, r \oplus {q}) = Source(i, r) \oplus {q} /\ (q \in Source(i, r) <=> q \in r)
      <4>1. Source(i, r) = IF i.qs[1] \in r THEN r \oplus {i.qs[2]} ELSE r
        BY <1>2 DEF Source
      <4>2. Source(i, r \oplus {q}) = IF i.qs[1] \in r THEN (r \oplus {q}) \oplus {i.qs[2]} ELSE r \oplus {q}
        BY <1>1, <1>2 DEF Source
      <4>3. (r \oplus {q}) \oplus {i.qs[2]} = (r \oplus {i.qs[2]}) \oplus {q}
        BY DEF \oplus
      <4>4. q \in r \oplus {i.qs[2]} <=> q \in r
        BY DEF \oplus
      <4>5. QED
        BY <4>1, <4>2, <4>3, <4>4
    <3>2. QED
      BY <1>1, <3>1 DEF Spares, SourceOf
  <2>4. QED
    BY <2>1, <2>2, <2>3, OneQubitMoved
<1>3. CASE i.name \in {"cp", "crz"}
  <2>1. /\ GateOn(R, i, f) = Phased(R, FactorOf(R, i), f)
        /\ GateOn(R, i, g) = Phased(R, FactorOf(R, i), g)
    BY <1>3 DEF GateOn, MovingNames, OneQubitNames
  <2>2. FactorOf(R, i) \in StatesOver(R)
    BY <1>0, <1>3, FactorTyped DEF TurningNames
  <2>3. Ignores(R, FactorOf(R, i), q)
    <3>1. ASSUME NEW r \in Vectors(R) PROVE Angle(i, r \oplus {q}) = Angle(i, r)
      BY <1>1, <1>3 DEF Angle
    <3>2. QED
      BY <1>1, <3>1 DEF Ignores, FactorOf
  <2>4. QED
    BY <2>1, <2>2, <2>3, OneQubitPhased
<1>4. QED
  BY <1>0, <1>2, <1>3


-----------------------------------------------------------------------------
(***************************************************************************)
(* _flush_qubits: a fold of _flush_qubit.                                   *)
(***************************************************************************)
Flushes(G, Q, V) == \A x \in Q : \A v \in V : G[<<x, v>>] = Flushed(pending[x], x, v)

LEMMA FlushedAllIsFold ==
  ASSUME NEW Q, IsFiniteSet(Q), NEW V, NEW o \in V, NEW G,
         Flushes(G, Q, V),
         NEW h \in [SUBSET Q -> V], FoldOf(h, Q, o, G)
  PROVE  FlushedAll(Q, o) = h[Q]
<1> DEFINE At(x, v) == Flushed(pending[x], x, v)
           Eq(g) == g = [T \in SUBSET Q |->
                           IF T = {} THEN o
                           ELSE At(CHOOSE x \in T : TRUE, g[T \ {CHOOSE x \in T : TRUE}])]
           iter == CHOOSE g : Eq(g)
<1>4. FlushedAll(Q, o) = iter[Q]
  BY DEF FlushedAll, FoldSet, MapThenFoldSet
<1> HIDE DEF At
<1>0. \A x \in Q : \A v \in V : G[<<x, v>>] = At(x, v)
  BY DEF At, Flushes
<1>1. ASSUME NEW T \in SUBSET Q, T # {}
      PROVE  G[<<CHOOSE x \in T : TRUE, h[T \ {CHOOSE x \in T : TRUE}]>>]
               = At(CHOOSE x \in T : TRUE, h[T \ {CHOOSE x \in T : TRUE}])
  <2>1. PICK c \in Q : c = CHOOSE x \in T : TRUE
    BY <1>1
  <2>2. T \ {c} \in SUBSET Q
    OBVIOUS
  <2>3. h[T \ {c}] \in V
    BY <2>2
  <2>4. G[<<c, h[T \ {c}]>>] = At(c, h[T \ {c}])
    BY <1>0, <2>3
  <2>5. QED
    BY <2>1, <2>4
<1>2. Eq(h)
  BY <1>1 DEF FoldOf
<1>3. Eq(iter)
  <2> HIDE DEF Eq
  <2>1. QED
    BY <1>2
<1> HIDE DEF iter
<1> DEFINE first == [T \in SUBSET Q |-> CHOOSE x \in T : TRUE]
<1>9. ASSUME NEW T \in SUBSET Q, T # {}
      PROVE  /\ first[T] \in T
             /\ iter[T] = At(first[T], iter[T \ {first[T]}])
             /\ h[T] = At(first[T], h[T \ {first[T]}])
  <2>1. iter[T] = At(CHOOSE x \in T : TRUE, iter[T \ {CHOOSE x \in T : TRUE}])
    BY <1>3, <1>9
  <2>2. h[T] = At(CHOOSE x \in T : TRUE, h[T \ {CHOOSE x \in T : TRUE}])
    BY <1>2, <1>9
  <2>3. (CHOOSE x \in T : TRUE) \in T /\ first[T] = CHOOSE x \in T : TRUE
    BY <1>9
  <2> HIDE DEF first
  <2>4. QED
    BY <2>1, <2>2, <2>3
<1> HIDE DEF first
<1> DEFINE F == {T \in SUBSET Q : iter[T] = h[T]}
<1>5. {} \in F
  BY <1>2, <1>3
<1>6. ASSUME NEW T \in SUBSET Q, T # {}, \A x \in T : T \ {x} \in F PROVE T \in F
  <2> DEFINE c == first[T]
  <2>1. T # {}
    BY <1>6
  <2>2. c \in T /\ iter[T] = At(c, iter[T \ {c}]) /\ h[T] = At(c, h[T \ {c}])
    BY <1>9, <2>1
  <2> HIDE DEF c
  <2>3. iter[T \ {c}] = h[T \ {c}]
    BY <1>6, <2>2
  <2>4. QED
    BY <2>2, <2>3
<1> HIDE DEF F
<1>7. Q \in F
  BY <1>5, <1>6, FiniteInduction
<1>8. QED
  BY <1>4, <1>7 DEF F

\* What every flush keeps, _flush_qubits keeps; and one of them comes last.
FlushKeeps(Q, V, o) ==
  /\ IsFiniteSet(Q) /\ o \in V
  /\ \A x \in Q : \A v \in V : Flushed(pending[x], x, v) \in V

LEMMA FlushSteps ==
  ASSUME NEW Q, NEW V, NEW o, FlushKeeps(Q, V, o)
  PROVE  /\ FlushedAll(Q, o) \in V
         /\ Q = {} => FlushedAll(Q, o) = o
         /\ Q # {} => \E x \in Q :
              /\ FlushedAll(Q \ {x}, o) \in V
              /\ FlushedAll(Q, o) = Flushed(pending[x], x, FlushedAll(Q \ {x}, o))
<1> DEFINE At(x, v) == Flushed(pending[x], x, v)
           G == [p \in Q \X V |-> At(p[1], p[2])]
<1> USE DEF FlushKeeps
<1>1. G \in [Q \X V -> V]
  OBVIOUS
<1>2. \A x \in Q : \A v \in V : G[<<x, v>>] = At(x, v)
  OBVIOUS
<1>20. \A x, v : At(x, v) = Flushed(pending[x], x, v)
  OBVIOUS
<1> HIDE DEF G, At
<1>3. PICK h \in [SUBSET Q -> V] : FoldOf(h, Q, o, G)
  BY <1>1, FoldExists
<1>30. Flushes(G, Q, V)
  BY <1>2, <1>20 DEF Flushes
<1>4. FlushedAll(Q, o) = h[Q]
  BY <1>3, <1>30, FlushedAllIsFold
<1>5. Q = {} => FlushedAll(Q, o) = o
  BY <1>3, <1>4 DEF FoldOf
<1>6. ASSUME Q # {}
      PROVE  \E x \in Q : /\ FlushedAll(Q \ {x}, o) \in V
                          /\ FlushedAll(Q, o) = At(x, FlushedAll(Q \ {x}, o))
  <2>1. PICK x \in Q : x = CHOOSE y \in Q : TRUE
    BY <1>6
  <2> DEFINE T == Q \ {x}
  <2>2. h[Q] = G[<<x, h[T]>>]
    BY <1>3, <1>6, <2>1 DEF FoldOf
  <2>3. T \in SUBSET Q /\ IsFiniteSet(T)
    BY FS_Subset
  <2>4. h[T] \in V
    BY <2>3
  <2>5. G[<<x, h[T]>>] = At(x, h[T])
    BY <1>2, <2>4
  <2>6. FlushedAll(T, o) = h[T]
    <3> DEFINE K == [p \in T \X V |-> G[p]]
    <3>1. K \in [T \X V -> V]
      BY <1>1
    <3>2. \A p \in T \X V : K[p] = G[p]
      OBVIOUS
    <3>3. Flushes(K, T, V)
      BY <1>30 DEF Flushes
    <3> HIDE DEF K, T
    <3>4. PICK g \in [SUBSET T -> V] : FoldOf(g, T, o, K)
      BY <2>3, <3>1, FoldExists
    <3>5. FlushedAll(T, o) = g[T]
      BY <2>3, <3>3, <3>4, FlushedAllIsFold
    <3>6. ASSUME NEW U \in SUBSET T, U # {}
          PROVE  K[<<CHOOSE e \in U : TRUE, g[U \ {CHOOSE e \in U : TRUE}]>>]
                   = G[<<CHOOSE e \in U : TRUE, g[U \ {CHOOSE e \in U : TRUE}]>>]
      <4>1. PICK c \in T : c = CHOOSE e \in U : TRUE
        BY <3>6
      <4>2. U \ {c} \in SUBSET T
        OBVIOUS
      <4>3. g[U \ {c}] \in V
        BY <3>4, <4>2
      <4>4. K[<<c, g[U \ {c}]>>] = G[<<c, g[U \ {c}]>>]
        BY <3>2, <4>3
      <4>5. QED
        BY <4>1, <4>4
    <3>7. FoldOf(g, T, o, G)
      <4> DEFINE A(H) == [U \in SUBSET T |-> IF U = {} THEN o ELSE
                   H[<<CHOOSE e \in U : TRUE, g[U \ {CHOOSE e \in U : TRUE}]>>]]
      <4>1. A(K) = A(G)
        BY <3>6
      <4>2. g = A(K)
        BY <3>4 DEF FoldOf
      <4>3. g = A(G)
        BY <4>1, <4>2
      <4>4. QED
        BY <4>3 DEF FoldOf
    <3>8. g[T] = h[T]
      BY <1>3, <2>3, <3>7, FoldRestricts
    <3>9. QED
      BY <3>5, <3>8
  <2>7. QED
    BY <1>4, <2>2, <2>4, <2>5, <2>6
<1>7. h[Q] \in V
  BY <1>3
<1>8. QED
  BY <1>4, <1>5, <1>6, <1>7, <1>20

-----------------------------------------------------------------------------
(***************************************************************************)
(* What is pending, on one column of the operator that is emitted.          *)
(***************************************************************************)
Held(R, P, Q, f) == FoldSet(LAMBDA q, g : OneQubit(R, P[q].matrix, q, g), f, Q)

Holding(G, R, P, Q, V) ==
  \A x \in Q : \A v \in V : G[<<x, v>>] = OneQubit(R, P[x].matrix, x, v)

\* h iterates G, which applies what P holds.
HoldingFold(h, R, P, Q, o, V, G) ==
  /\ IsFiniteSet(Q) /\ o \in V /\ h \in [SUBSET Q -> V]
  /\ Holding(G, R, P, Q, V)
  /\ FoldOf(h, Q, o, G)

LEMMA HeldIsFold ==
  ASSUME NEW R, NEW P, NEW Q, NEW V, NEW o, NEW G, NEW h, HoldingFold(h, R, P, Q, o, V, G)
  PROVE  Held(R, P, Q, o) = h[Q]
<1> USE DEF HoldingFold
<1> DEFINE At(x, v) == OneQubit(R, P[x].matrix, x, v)
           Eq(g) == g = [T \in SUBSET Q |->
                           IF T = {} THEN o
                           ELSE At(CHOOSE x \in T : TRUE, g[T \ {CHOOSE x \in T : TRUE}])]
           iter == CHOOSE g : Eq(g)
<1>4. Held(R, P, Q, o) = iter[Q]
  BY DEF Held, FoldSet, MapThenFoldSet
<1> HIDE DEF At
<1>0. \A x \in Q : \A v \in V : G[<<x, v>>] = At(x, v)
  BY DEF At, Holding
<1>1. ASSUME NEW T \in SUBSET Q, T # {}
      PROVE  G[<<CHOOSE x \in T : TRUE, h[T \ {CHOOSE x \in T : TRUE}]>>]
               = At(CHOOSE x \in T : TRUE, h[T \ {CHOOSE x \in T : TRUE}])
  <2>1. PICK c \in Q : c = CHOOSE x \in T : TRUE
    BY <1>1
  <2>2. T \ {c} \in SUBSET Q
    OBVIOUS
  <2>3. h[T \ {c}] \in V
    BY <2>2
  <2>4. G[<<c, h[T \ {c}]>>] = At(c, h[T \ {c}])
    BY <1>0, <2>3
  <2>5. QED
    BY <2>1, <2>4
<1>2. Eq(h)
  BY <1>1 DEF FoldOf
<1>3. Eq(iter)
  <2> HIDE DEF Eq
  <2>1. QED
    BY <1>2
<1> HIDE DEF iter
<1> DEFINE first == [T \in SUBSET Q |-> CHOOSE x \in T : TRUE]
<1>9. ASSUME NEW T \in SUBSET Q, T # {}
      PROVE  /\ first[T] \in T
             /\ iter[T] = At(first[T], iter[T \ {first[T]}])
             /\ h[T] = At(first[T], h[T \ {first[T]}])
  <2>1. iter[T] = At(CHOOSE x \in T : TRUE, iter[T \ {CHOOSE x \in T : TRUE}])
    BY <1>3, <1>9
  <2>2. h[T] = At(CHOOSE x \in T : TRUE, h[T \ {CHOOSE x \in T : TRUE}])
    BY <1>2, <1>9
  <2>3. (CHOOSE x \in T : TRUE) \in T /\ first[T] = CHOOSE x \in T : TRUE
    BY <1>9
  <2> HIDE DEF first
  <2>4. QED
    BY <2>1, <2>2, <2>3
<1> HIDE DEF first
<1> DEFINE F == {T \in SUBSET Q : iter[T] = h[T]}
<1>5. {} \in F
  BY <1>2, <1>3
<1>6. ASSUME NEW T \in SUBSET Q, T # {}, \A x \in T : T \ {x} \in F PROVE T \in F
  <2> DEFINE c == first[T]
  <2>1. T # {}
    BY <1>6
  <2>2. c \in T /\ iter[T] = At(c, iter[T \ {c}]) /\ h[T] = At(c, h[T \ {c}])
    BY <1>9, <2>1
  <2> HIDE DEF c
  <2>3. iter[T \ {c}] = h[T \ {c}]
    BY <1>6, <2>2
  <2>4. QED
    BY <2>2, <2>3
<1> HIDE DEF F
<1>7. Q \in F
  BY <1>5, <1>6, FiniteInduction
<1>8. QED
  BY <1>4, <1>7 DEF F

\* The operators pending on the qubits of a circuit.
Holds(R, P) == \A q \in R : P[q].matrix \in U3Matrices

LEMMA HeldSteps ==
  ASSUME NEW R, IsFiniteSet(R), NEW P, Holds(R, P), NEW Q \in SUBSET R, NEW f \in StatesOver(R)
  PROVE  /\ Held(R, P, Q, f) \in StatesOver(R)
         /\ Q = {} => Held(R, P, Q, f) = f
         /\ \A x \in Q : Held(R, P, Q, f) = OneQubit(R, P[x].matrix, x, Held(R, P, Q \ {x}, f))
<1> DEFINE V == StatesOver(R)
           At(x, v) == OneQubit(R, P[x].matrix, x, v)
           G == [p \in Q \X V |-> At(p[1], p[2])]
<1>0. IsFiniteSet(Q)
  BY FS_Subset
<1>10. \A x \in Q : x \in R /\ P[x].matrix \in U3Matrices
  BY DEF Holds
<1>11. \A x \in Q : \A v \in V : At(x, v) \in V
  BY <1>10, OneQubitTyped
<1>1. G \in [Q \X V -> V]
  BY <1>11
<1>2. \A x \in Q : \A v \in V : G[<<x, v>>] = At(x, v)
  OBVIOUS
<1>12. \A x, y \in Q : \A v \in V : At(x, At(y, v)) = At(y, At(x, v))
  <2>1. ASSUME NEW x \in Q, NEW y \in Q, NEW v \in V, x # y
        PROVE  At(x, At(y, v)) = At(y, At(x, v))
    BY <1>10, <2>1, OneQubitsCross
  <2>2. QED
    BY <2>1
<1>3. LeftCommutes(G, Q, V)
  <2> HIDE DEF V, G, At
  <2>1. ASSUME NEW x \in Q, NEW y \in Q, NEW v \in V
        PROVE  G[<<x, G[<<y, v>>]>>] = G[<<y, G[<<x, v>>]>>]
    <3>1. At(x, v) \in V /\ At(y, v) \in V
      BY <1>11
    <3>2. G[<<x, v>>] = At(x, v) /\ G[<<y, v>>] = At(y, v)
      BY <1>2
    <3>3. G[<<x, At(y, v)>>] = At(x, At(y, v)) /\ G[<<y, At(x, v)>>] = At(y, At(x, v))
      BY <1>2, <3>1
    <3>4. QED
      BY <1>12, <3>2, <3>3
  <2>2. QED
    BY <2>1 DEF LeftCommutes
<1>20. \A x, v : At(x, v) = OneQubit(R, P[x].matrix, x, v)
  OBVIOUS
<1>21. f \in V
  OBVIOUS
<1> HIDE DEF G, V, At
<1>4. PICK h \in [SUBSET Q -> V] : FoldOf(h, Q, f, G)
  BY <1>0, <1>1, <1>21, FoldExists
<1>30. Holding(G, R, P, Q, V)
  BY <1>2, <1>20 DEF Holding
<1>5. Held(R, P, Q, f) = h[Q]
  <2>1. HoldingFold(h, R, P, Q, f, V, G)
    BY <1>0, <1>4, <1>21, <1>30 DEF HoldingFold
  <2>2. QED
    BY <2>1, HeldIsFold
<1>6. \A x \in Q : h[Q] = G[<<x, h[Q \ {x}]>>]
  <2>1. Peelable(h, Q, V, f, G)
    BY <1>0, <1>1, <1>3, <1>4, <1>21 DEF Peelable
  <2>2. QED
    BY <2>1, FoldPeels
<1>7. ASSUME NEW x \in Q PROVE Held(R, P, Q, f) = At(x, Held(R, P, Q \ {x}, f))
  <2> DEFINE T == Q \ {x}
  <2>1. T \in SUBSET Q /\ IsFiniteSet(T)
    BY <1>0, FS_Subset
  <2>2. h[T] \in V
    BY <2>1
  <2>3. G[<<x, h[T]>>] = At(x, h[T])
    BY <1>2, <2>2
  <2>4. Held(R, P, T, f) = h[T]
    <3> DEFINE K == [p \in T \X V |-> G[p]]
    <3>1. K \in [T \X V -> V]
      BY <1>1
    <3>2. \A p \in T \X V : K[p] = G[p]
      OBVIOUS
    <3>3. Holding(K, R, P, T, V)
      BY <1>30 DEF Holding
    <3> HIDE DEF K, T
    <3>4. PICK g \in [SUBSET T -> V] : FoldOf(g, T, f, K)
      BY <1>21, <2>1, <3>1, FoldExists
    <3>5. Held(R, P, T, f) = g[T]
      <4>1. HoldingFold(g, R, P, T, f, V, K)
        BY <1>21, <2>1, <3>3, <3>4 DEF HoldingFold
      <4>2. QED
        BY <4>1, HeldIsFold
    <3>6. ASSUME NEW U \in SUBSET T, U # {}
          PROVE  K[<<CHOOSE e \in U : TRUE, g[U \ {CHOOSE e \in U : TRUE}]>>]
                   = G[<<CHOOSE e \in U : TRUE, g[U \ {CHOOSE e \in U : TRUE}]>>]
      <4>1. PICK c \in T : c = CHOOSE e \in U : TRUE
        BY <3>6
      <4>2. U \ {c} \in SUBSET T
        OBVIOUS
      <4>3. g[U \ {c}] \in V
        BY <3>4, <4>2
      <4>4. K[<<c, g[U \ {c}]>>] = G[<<c, g[U \ {c}]>>]
        BY <3>2, <4>3
      <4>5. QED
        BY <4>1, <4>4
    <3>7. FoldOf(g, T, f, G)
      <4> DEFINE A(H) == [U \in SUBSET T |-> IF U = {} THEN f ELSE
                   H[<<CHOOSE e \in U : TRUE, g[U \ {CHOOSE e \in U : TRUE}]>>]]
      <4>1. A(K) = A(G)
        BY <3>6
      <4>2. g = A(K)
        BY <3>4 DEF FoldOf
      <4>3. g = A(G)
        BY <4>1, <4>2
      <4>4. QED
        BY <4>3 DEF FoldOf
    <3>8. g[T] = h[T]
      BY <1>0, <1>4, <2>1, <3>7, FoldRestricts
    <3>9. QED
      BY <3>5, <3>8
  <2>5. QED
    BY <1>5, <1>6, <2>3, <2>4 DEF T
<1>8. h[Q] \in V
  BY <1>4
<1>9. Q = {} => h[Q] = f
  BY <1>4 DEF FoldOf
<1>13. QED
  BY <1>5, <1>7, <1>8, <1>9, <1>20 DEF V

Through(R, P, Q, F) ==
  \A q \in Q : \A g \in StatesOver(R) :
    OneQubit(R, P[q].matrix, q, F[g]) = F[OneQubit(R, P[q].matrix, q, g)]

LEMMA HeldPasses ==
  ASSUME NEW R, IsFiniteSet(R), NEW P, Holds(R, P), NEW Q \in SUBSET R,
         NEW F \in [StatesOver(R) -> StatesOver(R)], Through(R, P, Q, F),
         NEW f \in StatesOver(R)
  PROVE  Held(R, P, Q, F[f]) = F[Held(R, P, Q, f)]
<1> DEFINE S == {T \in SUBSET Q : Held(R, P, T, F[f]) = F[Held(R, P, T, f)]}
<1>1. PICK g \in StatesOver(R) : g = F[f]
  OBVIOUS
<1>2. {} \in S
  <2>1. {} \in SUBSET R
    OBVIOUS
  <2>2. Held(R, P, {}, g) = g /\ Held(R, P, {}, f) = f
    BY <2>1, HeldSteps
  <2>3. QED
    BY <1>1, <2>2
<1>3. ASSUME NEW T \in SUBSET Q, T # {}, \A x \in T : T \ {x} \in S PROVE T \in S
  <2>1. PICK x \in T : T \ {x} \in S
    BY <1>3
  <2>2. T \in SUBSET R /\ T \ {x} \in SUBSET R /\ x \in Q
    OBVIOUS
  <2>3. PICK h : h = Held(R, P, T \ {x}, f)
    OBVIOUS
  <2>4. h \in StatesOver(R) /\ Held(R, P, T, f) = OneQubit(R, P[x].matrix, x, h)
    BY <2>2, <2>3, HeldSteps
  <2>5. Held(R, P, T, g) = OneQubit(R, P[x].matrix, x, Held(R, P, T \ {x}, g))
    BY <2>2, HeldSteps
  <2>6. Held(R, P, T \ {x}, g) = F[h]
    BY <1>1, <2>1, <2>3
  <2>7. OneQubit(R, P[x].matrix, x, F[h]) = F[OneQubit(R, P[x].matrix, x, h)]
    BY <2>2, <2>4 DEF Through
  <2>8. QED
    BY <1>1, <2>4, <2>5, <2>6, <2>7
<1>4. IsFiniteSet(Q)
  BY FS_Subset
<1> HIDE DEF S
<1>5. Q \in S
  BY <1>2, <1>3, <1>4, FiniteInduction
<1>6. QED
  BY <1>5 DEF S

\* Only what is pending on the qubits in Q matters.
LEMMA HeldSame ==
  ASSUME NEW R, IsFiniteSet(R), NEW P, Holds(R, P), NEW O, Holds(R, O), NEW Q \in SUBSET R,
         \A q \in Q : P[q].matrix = O[q].matrix, NEW f \in StatesOver(R)
  PROVE  Held(R, P, Q, f) = Held(R, O, Q, f)
<1> DEFINE S == {T \in SUBSET Q : Held(R, P, T, f) = Held(R, O, T, f)}
<1>2. {} \in S
  <2>1. {} \in SUBSET R
    OBVIOUS
  <2>2. Held(R, P, {}, f) = f /\ Held(R, O, {}, f) = f
    BY <2>1, HeldSteps
  <2>3. QED
    BY <2>2
<1>3. ASSUME NEW T \in SUBSET Q, T # {}, \A x \in T : T \ {x} \in S PROVE T \in S
  <2>1. PICK x \in T : T \ {x} \in S
    BY <1>3
  <2>2. T \in SUBSET R /\ T \ {x} \in SUBSET R /\ P[x].matrix = O[x].matrix
    OBVIOUS
  <2>4. Held(R, P, T, f) = OneQubit(R, P[x].matrix, x, Held(R, P, T \ {x}, f))
    BY <2>2, HeldSteps
  <2>5. Held(R, O, T, f) = OneQubit(R, O[x].matrix, x, Held(R, O, T \ {x}, f))
    BY <2>2, HeldSteps
  <2>8. QED
    BY <2>1, <2>2, <2>4, <2>5
<1>4. IsFiniteSet(Q)
  BY FS_Subset
<1> HIDE DEF S
<1>5. Q \in S
  BY <1>2, <1>3, <1>4, FiniteInduction
<1>6. QED
  BY <1>5 DEF S

LEMMA HeldNothing ==
  ASSUME NEW R, IsFiniteSet(R), NEW P, Holds(R, P), NEW Q \in SUBSET R,
         \A q \in Q : P[q].matrix = Identity, NEW f \in StatesOver(R)
  PROVE  Held(R, P, Q, f) = f
<1> DEFINE S == {T \in SUBSET Q : Held(R, P, T, f) = f}
<1>2. {} \in S
  <2>1. {} \in SUBSET R
    OBVIOUS
  <2>2. QED
    BY <2>1, HeldSteps
<1>3. ASSUME NEW T \in SUBSET Q, T # {}, \A x \in T : T \ {x} \in S PROVE T \in S
  <2>1. PICK x \in T : T \ {x} \in S
    BY <1>3
  <2>2. T \in SUBSET R /\ x \in R /\ P[x].matrix = Identity
    OBVIOUS
  <2>4. Held(R, P, T, f) = OneQubit(R, P[x].matrix, x, Held(R, P, T \ {x}, f))
    BY <2>2, HeldSteps
  <2>5. OneQubit(R, Identity, x, f) = f
    BY <2>2, OneQubitIdentity
  <2>8. QED
    BY <2>1, <2>2, <2>4, <2>5
<1>4. IsFiniteSet(Q)
  BY FS_Subset
<1> HIDE DEF S
<1>5. Q \in S
  BY <1>2, <1>3, <1>4, FiniteInduction
<1>6. QED
  BY <1>5 DEF S

-----------------------------------------------------------------------------
(***************************************************************************)
(* What is emitted: an operator, column by column, and its address map.     *)
(***************************************************************************)
OperatorsOver(R) == [Vectors(R) -> StatesOver(R)]
MapsOver(R) == [cols : SUBSET Vectors(R), offset : Vectors(R)]
EmittedOver(R) == [op : OperatorsOver(R), agl : MapsOver(R)]

LEMMA Apply1QColumns ==
  ASSUME NEW u, NEW q, NEW op
  PROVE  Apply1Q(u, q, op) = [c \in Vectors(Qubits) |-> OneQubit(Qubits, u, q, op[c])]
BY DEF Apply1Q, OneQubit, Basis, Vectors

LEMMA MapSteps ==
  ASSUME NEW R, NEW map \in MapsOver(R), NEW q \in R, NEW c \in R
  PROVE  /\ MapX(map, q) \in MapsOver(R)
         /\ ExpandForQubit(map, q) \in MapsOver(R)
         /\ MapCX(map, c, q) \in MapsOver(R)
<1>1. map.cols \in SUBSET Vectors(R) /\ map.offset \in Vectors(R) /\ {q} \in Vectors(R)
  BY DEF MapsOver, Vectors
<1>2. map = [cols |-> map.cols, offset |-> map.offset]
  BY DEF MapsOver
<1>3. MapX(map, q) \in MapsOver(R)
  <2>1. map.offset \oplus {q} \in Vectors(R)
    BY <1>1, XorClosed DEF Vectors
  <2>2. MapX(map, q) = [cols |-> map.cols, offset |-> map.offset \oplus {q}]
    BY <1>2 DEF MapX
  <2>3. QED
    BY <1>1, <2>1, <2>2 DEF MapsOver
<1>4. ExpandForQubit(map, q) \in MapsOver(R)
  BY <1>1 DEF ExpandForQubit, MapsOver
<1>5. MapCX(map, c, q) \in MapsOver(R)
  <2>1. \A v \in Vectors(R) : RowXor(v, q, c) \in Vectors(R)
    BY RowXorClosed DEF Vectors
  <2>2. {RowXor(v, q, c) : v \in map.cols} \in SUBSET Vectors(R) /\ RowXor(map.offset, q, c) \in Vectors(R)
    BY <1>1, <2>1
  <2>3. QED
    BY <2>2 DEF MapCX, MapsOver
<1>6. QED
  BY <1>3, <1>4, <1>5

LEMMA FlushedFields ==
  ASSUME NEW p, NEW q \in Qubits, p.matrix \in U3Matrices, NEW o \in EmittedOver(Qubits)
  PROVE  /\ Flushed(p, q, o) \in EmittedOver(Qubits)
         /\ \A c \in Vectors(Qubits) :
              Flushed(p, q, o).op[c] = OneQubit(Qubits, p.matrix, q, o.op[c])
<1> DEFINE R == Qubits
<1> HIDE DEF R
<1>0. R = Qubits
  BY DEF R
<1>1. o.op \in OperatorsOver(R) /\ o.agl \in MapsOver(R)
  BY <1>0 DEF EmittedOver
<1>2. Flushed(p, q, o).op = [c \in Vectors(R) |-> OneQubit(R, p.matrix, q, o.op[c])]
  BY <1>0, Apply1QColumns DEF Flushed
<1>3. \A c \in Vectors(R) : OneQubit(R, p.matrix, q, o.op[c]) \in StatesOver(R)
  BY <1>0, <1>1, OneQubitTyped DEF OperatorsOver
<1>4. Flushed(p, q, o).op \in OperatorsOver(R)
  BY <1>2, <1>3 DEF OperatorsOver
<1>5. Flushed(p, q, o).agl \in MapsOver(R)
  <2>1. MapX(o.agl, q) \in MapsOver(R) /\ ExpandForQubit(o.agl, q) \in MapsOver(R)
    BY <1>0, <1>1, MapSteps
  <2>2. QED
    BY <1>1, <2>1 DEF Flushed
<1>6. Flushed(p, q, o) = [op |-> Flushed(p, q, o).op, agl |-> Flushed(p, q, o).agl]
  BY DEF Flushed
<1>7. QED
  BY <1>0, <1>2, <1>4, <1>5, <1>6 DEF EmittedOver

LEMMA FlushedColumns ==
  ASSUME IsFiniteSet(Qubits), Holds(Qubits, pending), NEW Q \in SUBSET Qubits,
         NEW o \in EmittedOver(Qubits)
  PROVE  /\ FlushedAll(Q, o) \in EmittedOver(Qubits)
         /\ \A c \in Vectors(Qubits) :
              FlushedAll(Q, o).op[c] = Held(Qubits, pending, Q, o.op[c])
<1> DEFINE V == EmittedOver(Qubits)
           P == pending
           Out(T) == FlushedAll(T, o)
           Col(c, T) == Held(Qubits, P, T, o.op[c])
           S == {T \in SUBSET Q : \A c \in Vectors(Qubits) : Out(T).op[c] = Col(c, T)}
<1>1. \A x \in Qubits : \A v \in V : Flushed(P[x], x, v) \in V
  BY FlushedFields DEF Holds
<1>2. ASSUME NEW T \in SUBSET Q
      PROVE  /\ Out(T) \in V
             /\ T = {} => Out(T) = o
             /\ T # {} => \E x \in T : /\ Out(T \ {x}) \in V
                                      /\ Out(T) = Flushed(P[x], x, Out(T \ {x}))
  <2>1. IsFiniteSet(T)
    BY FS_Subset
  <2>2. FlushKeeps(T, V, o)
    BY <1>1, <2>1 DEF FlushKeeps
  <2> HIDE DEF V, P, Out, Col, S
  <2>3. /\ FlushedAll(T, o) \in V
        /\ T = {} => FlushedAll(T, o) = o
        /\ T # {} => \E x \in T :
             /\ FlushedAll(T \ {x}, o) \in V
             /\ FlushedAll(T, o) = Flushed(pending[x], x, FlushedAll(T \ {x}, o))
    BY <2>2, FlushSteps
  <2>4. QED
    BY <2>3 DEF Out, P
<1>3. \A c \in Vectors(Qubits) : o.op[c] \in StatesOver(Qubits)
  BY DEF EmittedOver, OperatorsOver
<1>4. ASSUME NEW T \in SUBSET Q, NEW c \in Vectors(Qubits)
      PROVE  /\ T = {} => Col(c, T) = o.op[c]
             /\ \A x \in T : Col(c, T) = OneQubit(Qubits, P[x].matrix, x, Col(c, T \ {x}))
  <2>1. PICK f \in StatesOver(Qubits) : f = o.op[c]
    BY <1>3
  <2>2. T \in SUBSET Qubits
    OBVIOUS
  <2>3. /\ T = {} => Held(Qubits, P, T, f) = f
        /\ \A x \in T : Held(Qubits, P, T, f) = OneQubit(Qubits, P[x].matrix, x, Held(Qubits, P, T \ {x}, f))
    BY <2>2, HeldSteps
  <2>4. QED
    BY <2>1, <2>3
<1>5. \A x \in Q : \A v \in V : \A c \in Vectors(Qubits) :
        Flushed(P[x], x, v).op[c] = OneQubit(Qubits, P[x].matrix, x, v.op[c])
  BY FlushedFields DEF Holds
<1> HIDE DEF V, Out, Col, P
<1>6. {} \in S
  BY <1>2, <1>4
<1>7. ASSUME NEW T \in SUBSET Q, T # {}, \A x \in T : T \ {x} \in S PROVE T \in S
  <2>1. PICK x \in T : Out(T \ {x}) \in V /\ Out(T) = Flushed(P[x], x, Out(T \ {x}))
    BY <1>2, <1>7
  <2>2. T \ {x} \in S /\ x \in Q
    BY <1>7
  <2>3. ASSUME NEW c \in Vectors(Qubits) PROVE Out(T).op[c] = Col(c, T)
    <3>1. Out(T).op[c] = OneQubit(Qubits, P[x].matrix, x, Out(T \ {x}).op[c])
      BY <1>5, <2>1, <2>2
    <3>2. Out(T \ {x}).op[c] = Col(c, T \ {x})
      BY <2>2
    <3>3. Col(c, T) = OneQubit(Qubits, P[x].matrix, x, Col(c, T \ {x}))
      BY <1>4
    <3>4. QED
      BY <3>1, <3>2, <3>3
  <2>4. QED
    BY <2>3
<1>8. IsFiniteSet(Q)
  BY FS_Subset
<1> HIDE DEF S
<1>9. Q \in S
  BY <1>6, <1>7, <1>8, FiniteInduction
<1>10. Q \in SUBSET Q
  OBVIOUS
<1>11. QED
  BY <1>2, <1>9, <1>10 DEF S, V, Out, Col, P

-----------------------------------------------------------------------------
(***************************************************************************)
(* Residues that do not vanish have an inverse, so that matrices with a     *)
(* determinant that does not vanish are closed under products.              *)
(***************************************************************************)
Units == Amps \ {0}

Inverse17 == <<1, 9, 6, 13, 7, 3, 5, 15, 2, 12, 14, 10, 4, 11, 8, 16>>

LEMMA InverseOf ==
  ASSUME NEW a \in Units
  PROVE  Inverse17[a] \in Units /\ (a * Inverse17[a]) % P17 = 1
BY DEF Units, Amps, P17, Inverse17

LEMMA ProductInt ==
  ASSUME NEW a \in Int, NEW c \in Int, NEW d \in Int
  PROVE  /\ (a * ((c * d) % P17)) % P17 = (c * ((a * d) % P17)) % P17
         /\ (d * ((c * a) % P17)) % P17 = (a * ((c * d) % P17)) % P17
<1> DEFINE x == c * d
           y == a * d
           z == c * a
<1>1. x \in Int /\ y \in Int /\ z \in Int /\ a * x = c * y /\ d * z = a * x
  OBVIOUS
<1> HIDE DEF x, y, z
<1>2. (a * (x % P17)) % P17 = (a * x) % P17
  BY <1>1, ReducedOne
<1>3. (c * (y % P17)) % P17 = (c * y) % P17
  BY <1>1, ReducedOne
<1>4. (d * (z % P17)) % P17 = (d * z) % P17
  BY <1>1, ReducedOne
<1>5. QED
  BY <1>1, <1>2, <1>3, <1>4 DEF x, y, z

LEMMA UnitTimes ==
  ASSUME NEW a \in Units, NEW c \in Amps
  PROVE  /\ (a * c) % P17 = 0 => c = 0
         /\ (c * a) % P17 = 0 => c = 0
<1>1. a \in Int /\ c \in Int /\ c % P17 = c
  BY DEF Units, Amps, P17
<1>2. PICK d \in Int : (a * d) % P17 = 1
  <2>1. Inverse17[a] \in Int
    BY InverseOf DEF Units, Amps
  <2>2. QED
    BY <2>1, InverseOf
<1>3. (d * ((c * a) % P17)) % P17 = (c * ((a * d) % P17)) % P17
  <2>1. (d * ((c * a) % P17)) % P17 = (a * ((c * d) % P17)) % P17
    BY <1>1, <1>2, ProductInt
  <2>2. (a * ((c * d) % P17)) % P17 = (c * ((a * d) % P17)) % P17
    BY <1>1, <1>2, ProductInt
  <2>3. QED
    BY <2>1, <2>2
<1>4. (c * ((a * d) % P17)) % P17 = c
  <2>1. c * 1 = c
    BY <1>1
  <2>2. QED
    BY <1>1, <1>2, <2>1
<1>5. (c * a) % P17 = 0 => c = 0
  <2>1. d * 0 = 0 /\ 0 % P17 = 0
    BY <1>2 DEF P17
  <2>2. QED
    BY <1>3, <1>4, <2>1
<1>6. a * c = c * a
  BY <1>1
<1>7. QED
  BY <1>5, <1>6

LEMMA UnitsMultiply ==
  ASSUME NEW a \in Units, NEW c \in Units
  PROVE  (a * c) % P17 \in Units
<1>1. (a * c) % P17 \in Amps
  BY ProductAmp DEF Units
<1>2. (a * c) % P17 # 0
  BY UnitTimes DEF Units
<1>3. QED
  BY <1>1, <1>2 DEF Units

LEMMA OverIs ==
  ASSUME NEW a \in Amps, NEW c \in Units
  PROVE  /\ Over(a, c) \in Amps /\ (Over(a, c) * c) % P17 = a
         /\ a # 0 => Over(a, c) \in Units
<1> DEFINE d == Inverse17[c]
           k == (a * d) % P17
<1>1. d \in Int /\ (c * d) % P17 = 1 /\ a \in Int /\ c \in Int /\ a % P17 = a
  <2>1. d \in Units /\ (c * d) % P17 = 1
    BY InverseOf
  <2> HIDE DEF d
  <2>2. QED
    BY <2>1 DEF Units, Amps, P17
<1> HIDE DEF d
<1>2. k \in Amps
  <2>1. a * d \in Int
    BY <1>1
  <2>2. QED
    BY <2>1, Residue
<1>3. (c * k) % P17 = a
  <2>1. (c * ((a * d) % P17)) % P17 = (a * ((c * d) % P17)) % P17
    BY <1>1, ProductInt
  <2>2. a * 1 = a
    BY <1>1
  <2>3. QED
    BY <1>1, <2>1, <2>2
<1>4. (k * c) % P17 = a
  <2> HIDE DEF k
  <2>1. k \in Int
    BY <1>2 DEF Amps
  <2>2. k * c = c * k
    BY <1>1, <2>1
  <2>3. QED
    BY <1>3, <2>2
<1> HIDE DEF k
<1>5. Over(a, c) \in Amps /\ (Over(a, c) * c) % P17 = a
  BY <1>2, <1>4 DEF Over
<1>6. ASSUME a # 0, Over(a, c) = 0 PROVE FALSE
  <2>1. 0 * c = 0 /\ 0 % P17 = 0
    BY <1>1 DEF P17
  <2>2. QED
    BY <1>5, <1>6, <2>1
<1>7. QED
  BY <1>5, <1>6 DEF Units

\* The determinant of a product, and of a multiple.
LEMMA DetProduct ==
  ASSUME NEW n \in U3Matrices, NEW o \in U3Matrices
  PROVE  Det(LeftMultiply(n, o)) = (Det(n) * Det(o)) % P17
<1> DEFINE a == n.u00
           c == n.u01
           d == n.u10
           e == n.u11
           s == o.u00
           t == o.u01
           x == o.u10
           y == o.u11
<1>1. /\ a \in Int /\ c \in Int /\ d \in Int /\ e \in Int
      /\ s \in Int /\ t \in Int /\ x \in Int /\ y \in Int
  BY Entries
<1> HIDE DEF a, c, d, e, s, t, x, y
<1> DEFINE A == a * s + c * x
           B == a * t + c * y
           C == d * s + e * x
           D == d * t + e * y
<1>2. A \in Int /\ B \in Int /\ C \in Int /\ D \in Int
  BY <1>1
<1>3. Det(LeftMultiply(n, o)) = ((A % P17) * (D % P17) - (B % P17) * (C % P17)) % P17
  BY DEF Det, LeftMultiply, a, c, d, e, s, t, x, y
<1> DEFINE E == a * e - c * d
           F == s * y - t * x
<1>4. E \in Int /\ F \in Int
  BY <1>1
<1>5. A * D - B * C = E * F
  BY <1>1
<1>6. Det(n) = E % P17 /\ Det(o) = F % P17
  BY DEF Det, a, c, d, e, s, t, x, y
<1> HIDE DEF A, B, C, D, E, F
<1> DEFINE m == A % P17
           l == B % P17
<1>7. m \in Int /\ l \in Int
  BY <1>2, Residue DEF Amps
<1>8. (m * (D % P17) - l * (C % P17)) % P17 = (A * D - B * C) % P17
  <2> HIDE DEF m, l
  <2>0. -l \in Int /\ D % P17 \in Int /\ C % P17 \in Int
    BY <1>2, <1>7, Residue DEF Amps
  <2>10. \A g, h \in Int : m * g - l * h = m * g + (-l) * h
    BY <1>7
  <2>1. (m * (D % P17) + (-l) * (C % P17)) % P17 = (m * D + (-l) * C) % P17
    BY <1>2, <1>7, <2>0, ReducedSum
  <2>2. m * D + (-l) * C = D * m + (-C) * l
    BY <1>2, <1>7
  <2>3. (D * (A % P17) + (-C) * (B % P17)) % P17 = (D * A + (-C) * B) % P17
    <3>1. -C \in Int
      BY <1>2
    <3>2. QED
      BY <1>2, <3>1, ReducedSum
  <2>4. D * A + (-C) * B = A * D - B * C
    BY <1>2
  <2>5. m * (D % P17) - l * (C % P17) = m * (D % P17) + (-l) * (C % P17)
    BY <2>0, <2>10
  <2>6. QED
    BY <2>1, <2>2, <2>3, <2>4, <2>5 DEF m, l
<1>9. ((E % P17) * (F % P17)) % P17 = (E * F) % P17
  <2> DEFINE g == E % P17
  <2>1. g \in Int
    BY <1>4, Residue DEF Amps
  <2> HIDE DEF g
  <2>2. (g * (F % P17)) % P17 = (g * F) % P17
    BY <1>4, <2>1, ReducedOne
  <2>3. g * F = F * g
    BY <1>4, <2>1
  <2>4. (F * (E % P17)) % P17 = (F * E) % P17
    BY <1>4, ReducedOne
  <2>5. F * E = E * F
    BY <1>4
  <2>6. QED
    BY <2>2, <2>3, <2>4, <2>5 DEF g
<1>10. QED
  BY <1>3, <1>5, <1>6, <1>8, <1>9

LEMMA ScaledTyped ==
  ASSUME NEW m \in U3Matrices, NEW k \in Amps
  PROVE  Scaled(m, k) \in U3Matrices
<1>1. m.u00 \in Amps /\ m.u01 \in Amps /\ m.u10 \in Amps /\ m.u11 \in Amps
  BY DEF U3Matrices
<1>2. QED
  BY <1>1, ProductAmp DEF Scaled, U3Matrices

\* A multiple of a matrix multiplies every state.
LEMMA ScaledPair ==
  ASSUME NEW m \in U3Matrices, NEW k \in Amps, NEW a \in Amps, NEW c \in Amps
  PROVE  /\ EvenOf(Scaled(m, k), a, c) = (k * EvenOf(m, a, c)) % P17
         /\ OddOf(Scaled(m, k), a, c) = (k * OddOf(m, a, c)) % P17
<1>1. k \in Int /\ a \in Int /\ c \in Int
  BY AmpIsInteger
<1>2. ASSUME NEW s \in Int, NEW t \in Int
      PROVE  (((k * s) % P17) * a + ((k * t) % P17) * c) % P17 = (k * ((s * a + t * c) % P17)) % P17
  <2> DEFINE x == k * s
             y == k * t
             z == s * a + t * c
  <2>1. x \in Int /\ y \in Int /\ z \in Int /\ a * x + c * y = k * z
    BY <1>1
  <2>2. x % P17 \in Int /\ y % P17 \in Int
    BY <2>1, Residue DEF Amps
  <2> HIDE DEF x, y, z
  <2>3. (a * (x % P17) + c * (y % P17)) % P17 = (a * x + c * y) % P17
    BY <1>1, <2>1, ReducedSum
  <2>4. (k * (z % P17)) % P17 = (k * z) % P17
    BY <1>1, <2>1, ReducedOne
  <2>5. a * (x % P17) + c * (y % P17) = (x % P17) * a + (y % P17) * c
    <3> DEFINE u == x % P17
               v == y % P17
    <3> HIDE DEF u, v
    <3>1. u \in Int /\ v \in Int => a * u + c * v = u * a + v * c
      BY <1>1
    <3>2. QED
      BY <2>2, <3>1 DEF u, v
  <2>6. QED
    BY <2>1, <2>3, <2>4, <2>5 DEF x, y, z
<1>3. m.u00 \in Int /\ m.u01 \in Int /\ m.u10 \in Int /\ m.u11 \in Int
  BY Entries
<1>4. /\ (((k * m.u00) % P17) * a + ((k * m.u01) % P17) * c) % P17
           = (k * ((m.u00 * a + m.u01 * c) % P17)) % P17
      /\ (((k * m.u10) % P17) * a + ((k * m.u11) % P17) * c) % P17
           = (k * ((m.u10 * a + m.u11 * c) % P17)) % P17
  BY <1>2, <1>3
<1>5. QED
  BY <1>4 DEF EvenOf, OddOf, Scaled

LEMMA OneQubitScaled ==
  ASSUME NEW R, NEW q \in R, NEW m \in U3Matrices, NEW k \in Amps, NEW f \in StatesOver(R)
  PROVE  OneQubit(R, Scaled(m, k), q, f) = Times(R, k, OneQubit(R, m, q, f))
<1> DEFINE s == Scaled(m, k)
           sf == OneQubit(R, s, q, f)
           mf == OneQubit(R, m, q, f)
           h == Times(R, k, mf)
<1>1. sf \in StatesOver(R) /\ mf \in StatesOver(R)
  BY ScaledTyped, OneQubitTyped
<1>2. h \in StatesOver(R)
  BY <1>1, TimesTyped
<1>3. Mixes(R, sf, s, q, f) /\ Mixes(R, mf, m, q, f)
  BY OneQubitAt
<1>4. \A r \in Vectors(R) : h[r] = (k * mf[r]) % P17
  BY TimesAt
<1>6. \A a, c \in Amps : /\ EvenOf(s, a, c) = (k * EvenOf(m, a, c)) % P17
                         /\ OddOf(s, a, c) = (k * OddOf(m, a, c)) % P17
  BY ScaledPair
<1> HIDE DEF s, sf, mf, h
<1>5. ASSUME NEW r \in Vectors(R) PROVE sf[r] = h[r]
  <2>1. PICK x : x = r \oplus {q}
    OBVIOUS
  <2>2. x \in Vectors(R)
    BY <2>1, Flipped
  <2>3. f[r] \in Amps /\ f[x] \in Amps
    BY <2>2 DEF StatesOver
  <2>4. /\ sf[r] = IF q \in r THEN OddOf(s, f[x], f[r]) ELSE EvenOf(s, f[r], f[x])
        /\ mf[r] = IF q \in r THEN OddOf(m, f[x], f[r]) ELSE EvenOf(m, f[r], f[x])
    BY <1>3, <2>1 DEF Mixes
  <2>5. h[r] = (k * mf[r]) % P17
    BY <1>4
  <2>6. QED
    BY <1>6, <2>3, <2>4, <2>5
<1>7. sf = h
  BY <1>2, <1>1, <1>5, SameState
<1>8. QED
  BY <1>7 DEF s, sf, mf, h

-----------------------------------------------------------------------------
(***************************************************************************)
(* The matrices of the one-qubit gates.                                     *)
(***************************************************************************)
LEMMA HMatrix == U3Matrix(2, 4, 0) = [u00 |-> 14, u01 |-> 14, u10 |-> 14, u11 |-> 3]
<1>1. Zeta[2] = 2 /\ Zeta[14] = 9 /\ Zeta[8] = 16 /\ Zeta[0] = 1 /\ Zeta[4] = 4
  BY DEF Zeta
<1>2. CosHalf(2) = 14 /\ SinHalf(2) = 14
  <2>1. ASSUME NEW a \in Int, a + 1 = 3 PROVE CosHalf(a) = 14 /\ SinHalf(a) = 14
    <3>1. a % 16 = 2 /\ (-a) % 16 = 14
      BY <2>1
    <3>2. QED
      BY <1>1, <3>1 DEF CosHalf, SinHalf, Half, P17, ImagUnit
  <2>2. QED
    BY <2>1
<1>4. RotateBy(4, 14) = 3 /\ RotateBy(0, 14) = 14 /\ RotateBy(0 + 4, 14) = 3
  <2>1. (2 * 4) % 16 = 8 /\ (2 * 0) % 16 = 0 /\ (2 * (0 + 4)) % 16 = 8
    OBVIOUS
  <2>2. QED
    BY <1>1, <2>1 DEF RotateBy, P17
<1>5. (-RotateBy(4, 14)) % P17 = 14
  <2>1. ASSUME NEW a \in Int, a + 1 = 4 PROVE (-a) % P17 = 14
    BY <2>1 DEF P17
  <2>2. QED
    BY <1>4, <2>1
<1>6. QED
  BY <1>2, <1>4, <1>5 DEF U3Matrix

LEMMA XMatrix == U3Matrix(4, 4, 0) = [u00 |-> 0, u01 |-> 1, u10 |-> 1, u11 |-> 0]
<1>1. Zeta[4] = 4 /\ Zeta[12] = 13 /\ Zeta[8] = 16 /\ Zeta[0] = 1
  BY DEF Zeta
<1>2. CosHalf(4) = 0 /\ SinHalf(4) = 1
  <2>1. ASSUME NEW a \in Int, a + 1 = 5 PROVE CosHalf(a) = 0 /\ SinHalf(a) = 1
    <3>1. a % 16 = 4 /\ (-a) % 16 = 12
      BY <2>1
    <3>2. QED
      BY <1>1, <3>1 DEF CosHalf, SinHalf, Half, P17, ImagUnit
  <2>2. QED
    BY <2>1
<1>4. RotateBy(4, 1) = 16 /\ RotateBy(0, 1) = 1 /\ RotateBy(0 + 4, 0) = 0
  <2>1. (2 * 4) % 16 = 8 /\ (2 * 0) % 16 = 0 /\ (2 * (0 + 4)) % 16 = 8
    OBVIOUS
  <2>2. QED
    BY <1>1, <2>1 DEF RotateBy, P17
<1>5. (-RotateBy(4, 1)) % P17 = 1
  <2>1. ASSUME NEW a \in Int, a + 1 = 17 PROVE (-a) % P17 = 1
    BY <2>1 DEF P17
  <2>2. QED
    BY <1>4, <2>1
<1>6. QED
  BY <1>2, <1>4, <1>5 DEF U3Matrix

LEMMA PMatrix ==
  ASSUME NEW theta \in Int
  PROVE  U3Matrix(0, theta, 0) = [u00 |-> 1, u01 |-> 0, u10 |-> 0, u11 |-> Zeta[(2 * theta) % 16]]
<1>1. Zeta[0] = 1 /\ 0 % 16 = 0 /\ (-0) % 16 = 0
  BY DEF Zeta
<1>2. CosHalf(0) = 1
  BY <1>1 DEF CosHalf, Half, P17
<1>3. SinHalf(0) = 0
  <2>1. ImagUnit \in Int
    BY RootTyped DEF ImagUnit
  <2>2. (1 - 1) * ImagUnit * 9 = 0 /\ 0 % 17 = 0
    BY <2>1
  <2>3. QED
    BY <1>1, <2>2 DEF SinHalf, Half, P17
<1>4. RotateBy(theta, 0) = 0 /\ RotateBy(0, 0) = 0
  BY TurnedByZero, SomeAmps
<1>5. (-0) % P17 = 0
  BY DEF P17
<1>6. RotateBy(0 + theta, 1) = Zeta[(2 * theta) % 16]
  <2>1. 2 * theta \in Int
    OBVIOUS
  <2>2. Zeta[(2 * theta) % 16] \in Amps
    BY <2>1, RootAmp
  <2> DEFINE z == Zeta[(2 * theta) % 16]
  <2>3. 2 * (0 + theta) = 2 * theta
    OBVIOUS
  <2>4. RotateBy(0 + theta, 1) = (z * 1) % P17
    BY <2>3 DEF RotateBy
  <2> HIDE DEF z
  <2>5. z \in Amps => (z * 1) % P17 = z
    <3>1. z \in Int => z * 1 = z
      OBVIOUS
    <3>2. QED
      BY <3>1, AmpIsInteger
  <2>6. QED
    BY <2>2, <2>4, <2>5 DEF z
<1>7. QED
  BY <1>2, <1>3, <1>4, <1>5, <1>6 DEF U3Matrix

\* cos and sin of an angle: their squares add up to 1.
LEMMA CosSin ==
  ASSUME NEW t \in Int
  PROVE  (CosHalf(t) * CosHalf(t) + SinHalf(t) * SinHalf(t)) % P17 = 1
<1> DEFINE k == t % 16
           l == (-t) % 16
<1>1. k \in 0 .. 15 /\ l = IF k = 0 THEN 0 ELSE 16 - k
  OBVIOUS
<1> HIDE DEF k, l
<1> DEFINE C == ((Zeta[k] + Zeta[l]) * 9) % 17
           S == ((Zeta[l] - Zeta[k]) * 4 * 9) % 17
<1>2. CosHalf(t) = C /\ SinHalf(t) = S
  <2>1. ImagUnit = 4
    BY DEF ImagUnit, Zeta
  <2>2. QED
    BY <2>1 DEF CosHalf, SinHalf, Half, P17, k, l
<1>3. C \in 0 .. 16 /\ S \in 0 .. 16 /\ (C * C + S * S) % 17 = 1
  <2> DEFINE ok(j) == LET m == IF j = 0 THEN 0 ELSE 16 - j
                          c == ((Zeta[j] + Zeta[m]) * 9) % 17
                          s == ((Zeta[m] - Zeta[j]) * 4 * 9) % 17
                      IN c \in 0 .. 16 /\ s \in 0 .. 16 /\ (c * c + s * s) % 17 = 1
  <2>1. ok(0) /\ ok(1) /\ ok(2) /\ ok(3)
    BY DEF Zeta
  <2>2. ok(4) /\ ok(5) /\ ok(6) /\ ok(7)
    BY DEF Zeta
  <2>3. ok(8) /\ ok(9) /\ ok(10) /\ ok(11)
    BY DEF Zeta
  <2>4. ok(12) /\ ok(13) /\ ok(14) /\ ok(15)
    BY DEF Zeta
  <2>5. \A j \in 0 .. 15 : ok(j)
    <3> HIDE DEF ok
    <3>1. QED
      BY <2>1, <2>2, <2>3, <2>4
  <2>6. QED
    BY <1>1, <2>5
<1>4. QED
  BY <1>2, <1>3 DEF P17

LEMMA SingleDet ==
  ASSUME NEW R, NEW i, GateIn(R, i), i.name \in OneQubitNames
  PROVE  Det(SingleQubitMatrix(i)) # 0
<1>0. i.theta \in Int
  BY GateShape
<1>1. CASE i.name = "h"
  <2>1. SingleQubitMatrix(i) = [u00 |-> 14, u01 |-> 14, u10 |-> 14, u11 |-> 3]
    BY <1>1, HMatrix DEF SingleQubitMatrix
  <2>2. (14 * 3 - 14 * 14) % 17 # 0
    OBVIOUS
  <2>3. QED
    BY <2>1, <2>2 DEF Det, P17
<1>2. CASE i.name = "x"
  <2>1. SingleQubitMatrix(i) = [u00 |-> 0, u01 |-> 1, u10 |-> 1, u11 |-> 0]
    BY <1>2, XMatrix DEF SingleQubitMatrix
  <2>2. (0 * 0 - 1 * 1) % 17 # 0
    OBVIOUS
  <2>3. QED
    BY <2>1, <2>2 DEF Det, P17
<1>3. CASE i.name = "p"
  <2>0. SingleQubitMatrix(i) = U3Matrix(0, i.theta, 0)
    BY <1>3 DEF SingleQubitMatrix
  <2>1. SingleQubitMatrix(i) = [u00 |-> 1, u01 |-> 0, u10 |-> 0, u11 |-> Zeta[(2 * i.theta) % 16]]
    BY <1>0, <2>0, PMatrix
  <2> DEFINE j == (2 * i.theta) % 16
  <2>2. j \in 0 .. 15
    BY <1>0
  <2>3. Det(SingleQubitMatrix(i)) = (1 * Zeta[j] - 0 * 0) % P17
    BY <2>1 DEF Det
  <2> HIDE DEF j
  <2>4. (1 * Zeta[j] - 0 * 0) % P17 # 0
    BY <2>2 DEF Zeta, P17
  <2>5. QED
    BY <2>3, <2>4
<1>4. CASE i.name = "rx"
  <2> DEFINE c == CosHalf(i.theta)
             s == SinHalf(i.theta)
  <2>0. (c * c + s * s) % P17 = 1
    BY <1>0, CosSin
  <2>1. c \in Amps /\ s \in Amps
    <3>1. i.theta % 16 \in 0 .. 15 /\ (-i.theta) % 16 \in 0 .. 15
      BY <1>0
    <3>2. Zeta[i.theta % 16] \in Int /\ Zeta[(-i.theta) % 16] \in Int /\ ImagUnit \in Int
      BY <3>1, RootTyped DEF ImagUnit
    <3>3. /\ (Zeta[i.theta % 16] + Zeta[(-i.theta) % 16]) * Half \in Int
          /\ (Zeta[(-i.theta) % 16] - Zeta[i.theta % 16]) * ImagUnit * Half \in Int
      BY <3>2 DEF Half
    <3>4. QED
      BY <3>3, Residue DEF CosHalf, SinHalf
  <2> HIDE DEF c, s
  <2>2. RotateBy(2, s) = (4 * s) % P17 /\ RotateBy(-2, s) = (13 * s) % P17
    <3>1. Zeta[4] = 4 /\ Zeta[12] = 13
      BY DEF Zeta
    <3>2. ASSUME NEW a \in Int, a + 2 = 0 PROVE RotateBy(a, s) = (13 * s) % P17
      <4>1. (2 * a) % 16 = 12
        BY <3>2
      <4>2. QED
        BY <3>1, <4>1 DEF RotateBy
    <3>3. RotateBy(2, s) = (4 * s) % P17
      <4>1. (2 * 2) % 16 = 4
        OBVIOUS
      <4>2. QED
        BY <3>1, <4>1 DEF RotateBy
    <3>4. -2 \in Int /\ -2 + 2 = 0
      OBVIOUS
    <3>5. QED
      BY <3>2, <3>3, <3>4
  <2>3. RotateBy(-2 + 2, c) = c
    <3>1. -2 + 2 = 0
      OBVIOUS
    <3>2. QED
      BY <2>1, <3>1, TurnedByZero
  <2>4. SingleQubitMatrix(i) = [u00 |-> c, u01 |-> (-RotateBy(2, s)) % P17,
                                u10 |-> RotateBy(-2, s), u11 |-> c]
    <3>1. SingleQubitMatrix(i) = U3Matrix(i.theta, 2, -2)
      BY <1>4 DEF SingleQubitMatrix
    <3>2. QED
      BY <2>3, <3>1 DEF U3Matrix, c, s
  <2>5. Det(SingleQubitMatrix(i)) = (c * c - ((-((4 * s) % P17)) % P17) * ((13 * s) % P17)) % P17
    BY <2>2, <2>4 DEF Det
  <2>6. (c * c - ((-((4 * s) % P17)) % P17) * ((13 * s) % P17)) % P17 = (c * c + s * s) % P17
    <3>1. \A e \in 0 .. 16 : ((-((4 * e) % 17)) % 17) * ((13 * e) % 17) \in Int
                            /\ (-(((-((4 * e) % 17)) % 17) * ((13 * e) % 17))) % 17 = (e * e) % 17
      OBVIOUS
    <3> DEFINE w == ((-((4 * s) % P17)) % P17) * ((13 * s) % P17)
               v == s * s
               u == c * c
    <3>2. w \in Int /\ v \in Int /\ u \in Int /\ (-w) % 17 = v % 17
      BY <2>1, <3>1 DEF Amps, P17
    <3> HIDE DEF u, v, w
    <3>3. (u - w) % 17 = (u + v) % 17
      BY <3>2
    <3>4. QED
      BY <3>3 DEF u, v, w, P17
  <2>7. QED
    BY <2>0, <2>5, <2>6
<1>5. QED
  BY <1>1, <1>2, <1>3, <1>4 DEF OneQubitNames

-----------------------------------------------------------------------------
(***************************************************************************)
(* _classify_pending: the kind tells what the matrix does, and the matrix   *)
(* is the one given up to a factor.                                         *)
(***************************************************************************)
Kinds == {"EMPTY", "ZERO_H", "ONE_H", "TWO_H"}

Sound(p) ==
  /\ p \in [kind : Kinds, matrix : U3Matrices]
  /\ Det(p.matrix) # 0
  /\ p.kind = "EMPTY" => p.matrix = Identity
  /\ p.kind = "ZERO_H" => \/ IsDiagonal(p.matrix) /\ p.matrix.u00 # 0
                          \/ IsAntidiagonal(p.matrix)

LEMMA IdentityDet == Det(Identity) # 0
<1>1. (1 * 1 - 0 * 0) % 17 # 0
  OBVIOUS
<1>2. QED
  BY <1>1 DEF Det, Identity, P17

LEMMA EmptySound == Sound(Empty)
BY IdentityDet, SomeAmps DEF Sound, Empty, Kinds

LEMMA DetTyped ==
  ASSUME NEW m \in U3Matrices
  PROVE  Det(m) \in Amps
<1>1. m.u00 * m.u11 - m.u01 * m.u10 \in Int
  BY Entries
<1>2. QED
  BY <1>1, Residue DEF Det

LEMMA ProductDet ==
  ASSUME NEW n \in U3Matrices, NEW o \in U3Matrices, Det(n) # 0, Det(o) # 0
  PROVE  Det(LeftMultiply(n, o)) # 0
<1>1. Det(n) \in Units /\ Det(o) \in Units
  BY DetTyped DEF Units
<1>2. QED
  BY <1>1, UnitsMultiply, DetProduct DEF Units

LEMMA ScaledDet ==
  ASSUME NEW m \in U3Matrices, NEW k \in Units, Det(m) # 0
  PROVE  Det(Scaled(m, k)) # 0
<1> DEFINE d == [u00 |-> k, u01 |-> 0, u10 |-> 0, u11 |-> k]
<1>1. d \in U3Matrices
  BY SomeAmps DEF Units, U3Matrices
<1>2. Det(d) # 0
  <2>1. k \in Int
    BY DEF Units, Amps
  <2>2. k * k - 0 * 0 = k * k
    BY <2>1
  <2>3. Det(d) = (k * k) % P17
    BY <2>2 DEF Det
  <2>4. QED
    BY <2>3, UnitsMultiply DEF Units
<1>3. Scaled(m, k) = LeftMultiply(d, m)
  <2>1. k \in Int /\ m.u00 \in Int /\ m.u01 \in Int /\ m.u10 \in Int /\ m.u11 \in Int
    BY Entries DEF Units, Amps
  <2>2. \A x, y \in Int : k * x + 0 * y = k * x /\ 0 * y + k * x = k * x
    BY <2>1
  <2>3. QED
    BY <2>1, <2>2 DEF Scaled, LeftMultiply
<1> HIDE DEF d
<1>4. QED
  BY <1>1, <1>2, <1>3, ProductDet

LEMMA ClassifySound ==
  ASSUME NEW m \in U3Matrices, Det(m) # 0
  PROVE  Sound(Classify(m)) /\ \E k \in Units : Classify(m).matrix = Scaled(m, k)
<1> DEFINE a == m.u00
           c == m.u01
           d == m.u10
           e == m.u11
<1>1. a \in Amps /\ c \in Amps /\ d \in Amps /\ e \in Amps
  BY DEF U3Matrices
<1>2. a \in Int /\ c \in Int /\ d \in Int /\ e \in Int /\ Det(m) = (a * e - c * d) % P17
  BY <1>1, AmpIsInteger DEF Det
<1>3. /\ m = [u00 |-> a, u01 |-> c, u10 |-> d, u11 |-> e]
      /\ \A k : Scaled(m, k) = [u00 |-> (k * a) % P17, u01 |-> (k * c) % P17,
                                u10 |-> (k * d) % P17, u11 |-> (k * e) % P17]
      /\ IsDiagonal(m) <=> c = 0 /\ d = 0
      /\ IsAntidiagonal(m) <=> a = 0 /\ e = 0
      /\ IsBalanced(m) <=> (2 * a * e) % P17 = Det(m)
  BY DEF U3Matrices, Scaled, IsDiagonal, IsAntidiagonal, IsBalanced
<1>20. \A k \in Amps : (k * 0) % P17 = 0
  <2>1. ASSUME NEW k \in Amps PROVE (k * 0) % P17 = 0
    <3>1. k * 0 = 0
      BY AmpIsInteger
    <3>2. QED
      BY <3>1 DEF P17
  <2>2. QED
    BY <2>1
<1>21. Units \subseteq Amps
  BY DEF Units
<1>22. \A k \in Units : Scaled(m, k) \in U3Matrices /\ Det(Scaled(m, k)) # 0
  BY <1>21, ScaledTyped, ScaledDet
<1> HIDE DEF a, c, d, e
<1>4. CASE IsDiagonal(m) /\ a = e
  <2>1. a # 0
    <3>1. ASSUME a = 0 PROVE FALSE
      <4>1. a * e - c * d = 0 /\ 0 % P17 = 0
        BY <1>2, <1>3, <1>4, <3>1 DEF P17
      <4>2. QED
        BY <1>2, <4>1
    <3>2. QED
      BY <3>1
  <2>2. PICK k \in Units : (a * k) % P17 = 1
    BY <1>1, <2>1, InverseOf DEF Units
  <2>3. (k * a) % P17 = 1
    <3>1. k * a = a * k
      BY <1>2 DEF Units, Amps
    <3>2. QED
      BY <2>2, <3>1
  <2>4. Scaled(m, k) = Identity
    BY <1>3, <1>4, <1>20, <1>21, <2>3 DEF Identity
  <2>5. Classify(m) = Empty
    BY <1>4 DEF Classify, a, e
  <2>6. Empty.matrix = Identity
    BY DEF Empty
  <2>7. QED
    BY <2>4, <2>5, <2>6, EmptySound
<1>5. CASE IsDiagonal(m) /\ a # e
  <2>1. a # 0
    <3>1. ASSUME a = 0 PROVE FALSE
      <4>1. a * e - c * d = 0 /\ 0 % P17 = 0
        BY <1>2, <1>3, <1>5, <3>1 DEF P17
      <4>2. QED
        BY <1>2, <4>1
    <3>2. QED
      BY <3>1
  <2>2. PICK k \in Units : k = Over(1, a) /\ (k * a) % P17 = 1
    BY <1>1, <2>1, SomeAmps, OverIs DEF Units
  <2>3. Classify(m) = [kind |-> "ZERO_H", matrix |-> Scaled(m, k)]
    BY <1>5, <2>2 DEF Classify, a, e
  <2>4. IsDiagonal(Scaled(m, k)) /\ Scaled(m, k).u00 # 0
    <3>1. /\ Scaled(m, k).u01 = (k * c) % P17 /\ Scaled(m, k).u10 = (k * d) % P17
          /\ Scaled(m, k).u00 = (k * a) % P17
      BY DEF Scaled, a, c, d
    <3>2. c = 0 /\ d = 0 /\ (k * 0) % P17 = 0
      BY <1>3, <1>5, <1>20, <1>21
    <3>3. QED
      BY <2>2, <3>1, <3>2 DEF IsDiagonal
  <2>5. QED
    BY <1>22, <2>3, <2>4 DEF Sound, Kinds
<1>6. CASE ~IsDiagonal(m) /\ IsAntidiagonal(m)
  <2>1. d # 0
    <3>1. ASSUME d = 0 PROVE FALSE
      <4>1. a * e - c * d = 0 /\ 0 % P17 = 0
        BY <1>2, <1>3, <1>6, <3>1 DEF P17
      <4>2. QED
        BY <1>2, <4>1
    <3>2. QED
      BY <3>1
  <2>2. PICK k \in Units : k = Over(1, d)
    BY <1>1, <2>1, SomeAmps, OverIs DEF Units
  <2>3. Classify(m) = [kind |-> "ZERO_H", matrix |-> Scaled(m, k)]
    BY <1>6, <2>2 DEF Classify, d
  <2>4. IsAntidiagonal(Scaled(m, k))
    <3>1. Scaled(m, k).u00 = (k * a) % P17 /\ Scaled(m, k).u11 = (k * e) % P17
      BY DEF Scaled, a, e
    <3>2. a = 0 /\ e = 0 /\ (k * 0) % P17 = 0
      BY <1>3, <1>6, <1>20, <1>21
    <3>3. QED
      BY <3>1, <3>2 DEF IsAntidiagonal
  <2>5. QED
    BY <1>22, <2>3, <2>4 DEF Sound, Kinds
<1>7. CASE ~IsDiagonal(m) /\ ~IsAntidiagonal(m) /\ IsBalanced(m)
  <2>1. a # 0
    <3>1. ASSUME a = 0 PROVE FALSE
      <4>1. 2 * a * e = 0 /\ 0 % P17 = 0
        BY <1>2, <3>1 DEF P17
      <4>2. QED
        BY <1>3, <1>7, <4>1
    <3>2. QED
      BY <3>1
  <2>2. CosHalf(2) \in Amps /\ CosHalf(2) # 0
    <3>1. U3Matrix(2, 4, 0).u00 = CosHalf(2)
      BY DEF U3Matrix
    <3>2. CosHalf(2) = 14
      BY <3>1, HMatrix
    <3>3. QED
      BY <3>2 DEF Amps, P17
  <2>3. PICK k \in Units : k = Over(CosHalf(2), a)
    BY <1>1, <2>1, <2>2, OverIs DEF Units
  <2>4. Classify(m) = [kind |-> "ONE_H", matrix |-> Scaled(m, k)]
    BY <1>7, <2>3 DEF Classify, a
  <2>5. QED
    BY <1>22, <2>4 DEF Sound, Kinds
<1>8. CASE ~IsDiagonal(m) /\ ~IsAntidiagonal(m) /\ ~IsBalanced(m)
  <2>1. Classify(m) = [kind |-> "TWO_H", matrix |-> m]
    BY <1>8 DEF Classify
  <2>2. 1 \in Units
    BY DEF Units, Amps, P17
  <2>3. Scaled(m, 1) = m
    <3>1. \A x \in Amps : (1 * x) % P17 = x
      <4>1. ASSUME NEW x \in Amps PROVE (1 * x) % P17 = x
        <5>1. x \in Int /\ x % P17 = x
          BY AmpIsInteger
        <5>2. 1 * x = x
          BY <5>1
        <5>3. QED
          BY <5>1, <5>2
      <4>2. QED
        BY <4>1
    <3>2. QED
      BY <1>1, <1>3, <3>1
  <2>4. QED
    BY <2>1, <2>2, <2>3 DEF Sound, Kinds
<1>9. QED
  BY <1>4, <1>5, <1>6, <1>7, <1>8

-----------------------------------------------------------------------------
(***************************************************************************)
(* The steps a gate is lowered to are gates on the same qubits.             *)
(***************************************************************************)
LEMMA OneStep ==
  ASSUME NEW R, NEW q \in R, NEW theta \in Int
  PROVE  StepIn(R, RZ(q, theta)) /\ StepIn(R, HOn(q))
<1>1. \A name \in {"p", "h"} : \A t \in Int : StepIn(R, Instr(name, <<q>>, t))
  <2>1. ASSUME NEW name \in {"p", "h"}, NEW t \in Int PROVE StepIn(R, Instr(name, <<q>>, t))
    <3>1. <<q>> \in Seq(R) /\ Len(<<q>>) = 1 /\ DOMAIN <<q>> = {1}
      OBVIOUS
    <3>2. WellFormed(Instr(name, <<q>>, t), R)
      BY <3>1 DEF WellFormed, Instr
    <3>3. QED
      BY <3>2 DEF StepIn, StepNames, GateIn, Boundaries, OneQubitNames, Instr
  <2>2. QED
    BY <2>1
<1>2. QED
  BY <1>1 DEF RZ, HOn

LEMMA TwoStep ==
  ASSUME NEW R, NEW p \in R, NEW q \in R, p # q, NEW name \in {"cx", "cp", "crz"}, NEW t \in Int
  PROVE  StepIn(R, Instr(name, <<p, q>>, t))
<1>1. <<p, q>> \in Seq(R) /\ Len(<<p, q>>) = 2 /\ DOMAIN <<p, q>> = {1, 2}
  OBVIOUS
<1>3. \A j, k \in {1, 2} : <<p, q>>[j] = <<p, q>>[k] => j = k
  OBVIOUS
<1>4. WellFormed(Instr(name, <<p, q>>, t), R)
  BY <1>1, <1>3 DEF WellFormed, Instr
<1>5. QED
  BY <1>4 DEF StepIn, StepNames, GateIn, Boundaries, OneQubitNames, Instr

LEMMA CXStep ==
  ASSUME NEW R, NEW p \in R, NEW q \in R, p # q
  PROVE  StepIn(R, CX(p, q))
BY TwoStep DEF CX

\* A sequence of steps.
StepSet(R) == {i \in [name : StepNames, qs : Seq(R), theta : Int] : StepIn(R, i)}
StepsIn(R, s) == s \in Seq(StepSet(R))

LEMMA StepRecord ==
  ASSUME NEW R, NEW i, StepIn(R, i)
  PROVE  i \in StepSet(R)
BY DEF StepIn, GateIn, WellFormed, Instr, StepSet

LEMMA LoweredNames ==
  ASSUME NEW i
  PROVE  /\ i.name = "swap" => Lowered(i) = <<CX(i.qs[1], i.qs[2]), CX(i.qs[2], i.qs[1]), CX(i.qs[1], i.qs[2])>>
         /\ i.name = "cz" => Lowered(i) = <<Instr("cp", i.qs, 4)>>
         /\ i.name = "rzz" => Lowered(i) = <<CX(i.qs[1], i.qs[2]), RZ(i.qs[2], i.theta), CX(i.qs[1], i.qs[2])>>
         /\ i.name = "ccz" => Lowered(i) = LoweredCCZ(i.qs[1], i.qs[2], i.qs[3])
         /\ i.name = "ccx" => Lowered(i) = <<HOn(i.qs[3])>> \o LoweredCCZ(i.qs[1], i.qs[2], i.qs[3]) \o <<HOn(i.qs[3])>>
         /\ i.name \notin {"swap", "cz", "rzz", "ccz", "ccx"} => Lowered(i) = <<i>>
<1>1. i.name = "swap" => Lowered(i) = <<CX(i.qs[1], i.qs[2]), CX(i.qs[2], i.qs[1]), CX(i.qs[1], i.qs[2])>>
  BY DEF Lowered
<1>2. i.name = "cz" => Lowered(i) = <<Instr("cp", i.qs, 4)>>
  BY DEF Lowered
<1>3. i.name = "rzz" => Lowered(i) = <<CX(i.qs[1], i.qs[2]), RZ(i.qs[2], i.theta), CX(i.qs[1], i.qs[2])>>
  BY DEF Lowered
<1>4. i.name = "ccz" => Lowered(i) = LoweredCCZ(i.qs[1], i.qs[2], i.qs[3])
  BY DEF Lowered
<1>5. i.name = "ccx" => Lowered(i) = <<HOn(i.qs[3])>> \o LoweredCCZ(i.qs[1], i.qs[2], i.qs[3]) \o <<HOn(i.qs[3])>>
  BY DEF Lowered
<1>6. i.name \notin {"swap", "cz", "rzz", "ccz", "ccx"} => Lowered(i) = <<i>>
  BY DEF Lowered
<1>7. QED
  BY <1>1, <1>2, <1>3, <1>4, <1>5, <1>6

LEMMA CCZSteps ==
  ASSUME NEW R, NEW a \in R, NEW b \in R, NEW t \in R, a # b, a # t, b # t
  PROVE  StepsIn(R, LoweredCCZ(a, b, t)) /\ Len(LoweredCCZ(a, b, t)) = 13
<1> DEFINE S == StepSet(R)
<1>1. CX(b, t) \in S /\ CX(a, t) \in S /\ CX(a, b) \in S
  BY CXStep, StepRecord
<1>2. \A q \in R : RZ(q, 1) \in S /\ RZ(q, -1) \in S
  BY OneStep, StepRecord
<1>3. RZ(t, -1) \in S /\ RZ(t, 1) \in S /\ RZ(b, 1) \in S /\ RZ(b, -1) \in S /\ RZ(a, 1) \in S
  BY <1>2
<1> DEFINE first == <<CX(b, t), RZ(t, -1), CX(a, t), RZ(t, 1), CX(b, t), RZ(t, -1), CX(a, t)>>
<1> HIDE DEF S
<1>4. LoweredCCZ(a, b, t) \in Seq(S)
  BY <1>1, <1>3 DEF LoweredCCZ
<1>5. Len(LoweredCCZ(a, b, t)) = 13
  BY DEF LoweredCCZ
<1>6. QED
  BY <1>4, <1>5 DEF StepsIn, S

LEMMA LoweredSteps ==
  ASSUME NEW R, NEW i, GateIn(R, i)
  PROVE  StepsIn(R, Lowered(i))
<1> DEFINE S == StepSet(R)
<1>0. \A j : StepIn(R, j) => j \in S
  BY StepRecord
<1>1. /\ i.theta \in Int /\ i.qs \in Seq(R)
      /\ i.name \in OneQubitNames => Len(i.qs) = 1 /\ i.qs[1] \in R
      /\ i.name \notin OneQubitNames => i.qs[1] \in R /\ i.qs[2] \in R /\ i.qs[1] # i.qs[2]
      /\ i.name \in {"ccx", "ccz"} => i.qs[3] \in R /\ i.qs[1] # i.qs[3] /\ i.qs[2] # i.qs[3]
      /\ i.name \in OneQubitNames \cup MovingNames \cup TurningNames
  BY GateShape
<1> HIDE DEF S
<1>2. CASE i.name = "swap"
  <2>1. i.qs[1] \in R /\ i.qs[2] \in R /\ i.qs[1] # i.qs[2]
    BY <1>1, <1>2 DEF OneQubitNames
  <2>2. CX(i.qs[1], i.qs[2]) \in S /\ CX(i.qs[2], i.qs[1]) \in S
    BY <1>0, <2>1, CXStep
  <2>3. Lowered(i) = <<CX(i.qs[1], i.qs[2]), CX(i.qs[2], i.qs[1]), CX(i.qs[1], i.qs[2])>>
    BY <1>2, LoweredNames
  <2>4. Lowered(i) \in Seq(S)
    BY <2>2, <2>3
  <2>5. QED
    BY <2>4 DEF StepsIn, S
<1>3. CASE i.name = "cz"
  <2>1. WellFormed(i, R)
    BY DEF GateIn
  <2>3. WellFormed(Instr("cp", i.qs, 4), R)
    BY <1>3, <2>1 DEF WellFormed, Instr
  <2>4. StepIn(R, Instr("cp", i.qs, 4))
    BY <2>3 DEF StepIn, StepNames, GateIn, Boundaries, Instr
  <2>5. Lowered(i) = <<Instr("cp", i.qs, 4)>>
    BY <1>3, LoweredNames
  <2>6. Lowered(i) \in Seq(S)
    BY <1>0, <2>4, <2>5
  <2>7. QED
    BY <2>6 DEF StepsIn, S
<1>4. CASE i.name = "rzz"
  <2>1. i.qs[1] \in R /\ i.qs[2] \in R /\ i.qs[1] # i.qs[2]
    BY <1>1, <1>4 DEF OneQubitNames
  <2>2. CX(i.qs[1], i.qs[2]) \in S /\ RZ(i.qs[2], i.theta) \in S
    BY <1>0, <1>1, <2>1, CXStep, OneStep
  <2>3. Lowered(i) = <<CX(i.qs[1], i.qs[2]), RZ(i.qs[2], i.theta), CX(i.qs[1], i.qs[2])>>
    BY <1>4, LoweredNames
  <2>4. Lowered(i) \in Seq(S)
    BY <2>2, <2>3
  <2>5. QED
    BY <2>4 DEF StepsIn, S
<1>5. CASE i.name = "ccz"
  <2>1. /\ i.qs[1] \in R /\ i.qs[2] \in R /\ i.qs[1] # i.qs[2]
        /\ i.qs[3] \in R /\ i.qs[1] # i.qs[3] /\ i.qs[2] # i.qs[3]
    BY <1>1, <1>5 DEF OneQubitNames
  <2>2. Lowered(i) = LoweredCCZ(i.qs[1], i.qs[2], i.qs[3])
    BY <1>5, LoweredNames
  <2>3. QED
    BY <2>1, <2>2, CCZSteps
<1>6. CASE i.name = "ccx"
  <2>1. /\ i.qs[1] \in R /\ i.qs[2] \in R /\ i.qs[1] # i.qs[2]
        /\ i.qs[3] \in R /\ i.qs[1] # i.qs[3] /\ i.qs[2] # i.qs[3]
    BY <1>1, <1>6 DEF OneQubitNames
  <2>2. Lowered(i) = <<HOn(i.qs[3])>> \o LoweredCCZ(i.qs[1], i.qs[2], i.qs[3]) \o <<HOn(i.qs[3])>>
    BY <1>6, LoweredNames
  <2>3. LoweredCCZ(i.qs[1], i.qs[2], i.qs[3]) \in Seq(S)
    BY <2>1, CCZSteps DEF StepsIn, S
  <2>4. HOn(i.qs[3]) \in S
    BY <1>0, <2>1, OneStep
  <2> DEFINE m == LoweredCCZ(i.qs[1], i.qs[2], i.qs[3])
  <2> HIDE DEF m
  <2>5. <<HOn(i.qs[3])>> \in Seq(S)
    BY <2>4
  <2>6. m \in Seq(S) => <<HOn(i.qs[3])>> \o m \o <<HOn(i.qs[3])>> \in Seq(S)
    BY <2>5
  <2>7. Lowered(i) \in Seq(S)
    BY <2>2, <2>3, <2>6 DEF m
  <2>8. QED
    BY <2>7 DEF StepsIn, S
<1>7. CASE i.name \notin {"swap", "cz", "rzz", "ccz", "ccx"}
  <2>1. StepIn(R, i)
    BY <1>1, <1>7 DEF StepIn, StepNames, MovingNames, TurningNames
  <2>2. Lowered(i) = <<i>>
    BY <1>7, LoweredNames
  <2>3. Lowered(i) \in Seq(S)
    BY <1>0, <2>1, <2>2
  <2>4. QED
    BY <2>3 DEF StepsIn, S
<1>8. QED
  BY <1>2, <1>3, <1>4, <1>5, <1>6, <1>7

LEMMA StepsShape ==
  ASSUME NEW R, NEW s, StepsIn(R, s)
  PROVE  /\ Len(s) \in Nat
         /\ \A j \in 1 .. Len(s) : StepIn(R, s[j])
         /\ s # << >> => /\ Len(s) # 0 /\ StepIn(R, Head(s)) /\ Head(s) = s[1]
                         /\ StepsIn(R, Tail(s)) /\ Len(Tail(s)) = Len(s) - 1
                         /\ \A j \in 1 .. Len(s) - 1 : Tail(s)[j] = s[j + 1]
<1> DEFINE S == StepSet(R)
<1>1. s \in Seq(S)
  BY DEF StepsIn
<1>2. \A i \in S : StepIn(R, i)
  BY DEF StepSet
<1> HIDE DEF S
<1>3. /\ Len(s) \in Nat
      /\ \A j \in 1 .. Len(s) : s[j] \in S
      /\ s # << >> => /\ Len(s) # 0 /\ Head(s) \in S /\ Head(s) = s[1]
                      /\ Tail(s) \in Seq(S) /\ Len(Tail(s)) = Len(s) - 1
                      /\ \A j \in 1 .. Len(s) - 1 : Tail(s)[j] = s[j + 1]
  BY <1>1
<1>4. QED
  BY <1>2, <1>3 DEF StepsIn, S

-----------------------------------------------------------------------------
(***************************************************************************)
(* The gates and the projections on operators.                              *)
(***************************************************************************)
LEMMA IdentityOpTyped ==
  IdentityOp \in OperatorsOver(Qubits)
<1>1. \A c \in Vectors(Qubits) :
        [r \in Vectors(Qubits) |-> IF r = c THEN 1 ELSE 0] \in StatesOver(Qubits)
  BY SomeAmps DEF StatesOver
<1>2. IdentityOp = [c \in Vectors(Qubits) |-> [r \in Vectors(Qubits) |-> IF r = c THEN 1 ELSE 0]]
  BY DEF IdentityOp, Basis, Vectors
<1>3. QED
  BY <1>1, <1>2 DEF OperatorsOver

LEMMA GateOpTyped ==
  ASSUME NEW i, GateIn(Qubits, i), NEW op \in OperatorsOver(Qubits)
  PROVE  /\ GateAfter(i, op) \in OperatorsOver(Qubits)
         /\ \A c \in Vectors(Qubits) : GateAfter(i, op)[c] = GateOn(Qubits, i, op[c])
<1>1. \A c \in Vectors(Qubits) : op[c] \in StatesOver(Qubits)
  BY DEF OperatorsOver
<1>2. \A c \in Vectors(Qubits) : GateOn(Qubits, i, op[c]) \in StatesOver(Qubits)
  BY <1>1, GateTyped
<1>3. GateAfter(i, op) = [c \in Vectors(Qubits) |-> GateOn(Qubits, i, op[c])]
  BY GateAfterColumns
<1>4. QED
  BY <1>2, <1>3 DEF OperatorsOver

Kept(R, q, b) == [r \in Vectors(R) |-> IF (q \in r) = b THEN 1 ELSE 0]

LEMMA ProjectTyped ==
  ASSUME NEW op \in OperatorsOver(Qubits), NEW q, NEW b
  PROVE  /\ Project(op, q, b) \in OperatorsOver(Qubits)
         /\ \A c \in Vectors(Qubits) : Project(op, q, b)[c] = Phased(Qubits, Kept(Qubits, q, b), op[c])
         /\ Kept(Qubits, q, b) \in StatesOver(Qubits)
<1>1. \A c, r \in Vectors(Qubits) : op[c][r] \in Amps
  BY DEF OperatorsOver, StatesOver
<1>2. Project(op, q, b) = [c \in Vectors(Qubits) |-> [r \in Vectors(Qubits) |->
                            IF (q \in r) = b THEN op[c][r] ELSE 0]]
  BY DEF Project, Basis, Vectors
<1>3. Kept(Qubits, q, b) \in StatesOver(Qubits)
  BY SomeAmps DEF Kept, StatesOver
<1>4. ASSUME NEW a \in Amps PROVE (1 * a) % P17 = a /\ (0 * a) % P17 = 0
  <2>1. a \in Int /\ a % P17 = a
    BY AmpIsInteger
  <2>2. 1 * a = a /\ 0 * a = 0 /\ 0 % P17 = 0
    BY <2>1 DEF P17
  <2>3. QED
    BY <2>1, <2>2
<1>5. ASSUME NEW c \in Vectors(Qubits)
      PROVE  Project(op, q, b)[c] = Phased(Qubits, Kept(Qubits, q, b), op[c])
  <2>1. ASSUME NEW r \in Vectors(Qubits)
        PROVE (IF (q \in r) = b THEN op[c][r] ELSE 0) = (Kept(Qubits, q, b)[r] * op[c][r]) % P17
    <3>1. (1 * op[c][r]) % P17 = op[c][r] /\ (0 * op[c][r]) % P17 = 0
      BY <1>1, <1>4
    <3>2. Kept(Qubits, q, b)[r] = IF (q \in r) = b THEN 1 ELSE 0
      BY DEF Kept
    <3>3. CASE (q \in r) = b
      BY <3>1, <3>2, <3>3
    <3>4. CASE (q \in r) # b
      BY <3>1, <3>2, <3>4
    <3>5. QED
      BY <3>3, <3>4
  <2>2. Project(op, q, b)[c] = [r \in Vectors(Qubits) |-> IF (q \in r) = b THEN op[c][r] ELSE 0]
    BY <1>2
  <2>3. QED
    BY <2>1, <2>2 DEF Phased
<1>6. Project(op, q, b) \in OperatorsOver(Qubits)
  BY <1>1, <1>2, SomeAmps DEF OperatorsOver, StatesOver
<1>7. QED
  BY <1>3, <1>5, <1>6

LEMMA EmittedFields ==
  ASSUME NEW R, NEW o \in EmittedOver(R)
  PROVE  /\ o.op \in OperatorsOver(R) /\ o.agl \in MapsOver(R)
         /\ o.agl.cols \in SUBSET Vectors(R) /\ o.agl.offset \in Vectors(R)
         /\ \A op \in OperatorsOver(R) : [o EXCEPT !.op = op] \in EmittedOver(R)
         /\ \A op : [o EXCEPT !.op = op].op = op /\ [o EXCEPT !.op = op].agl = o.agl
BY DEF EmittedOver, MapsOver

LEMMA EmittedTyped ==
  ASSUME NEW o \in EmittedOver(Qubits)
  PROVE  /\ \A c, t \in Qubits : c # t => EmitCX(c, t, o) \in EmittedOver(Qubits)
         /\ \A i : GateIn(Qubits, i) => EmitRaw(i, o) \in EmittedOver(Qubits)
         /\ \A q, b : [o EXCEPT !.op = Project(@, q, b)] \in EmittedOver(Qubits)
<1>1. o.op \in OperatorsOver(Qubits) /\ o.agl \in MapsOver(Qubits)
  BY EmittedFields
<1>2. ASSUME NEW c \in Qubits, NEW t \in Qubits, c # t
      PROVE  EmitCX(c, t, o) \in EmittedOver(Qubits)
  <2>1. GateIn(Qubits, Instr("cx", <<c, t>>, 0))
    BY <1>2, CXStep DEF CX, StepIn
  <2>2. GateAfter(Instr("cx", <<c, t>>, 0), o.op) \in OperatorsOver(Qubits)
    BY <1>1, <2>1, GateOpTyped
  <2>3. MapCX(o.agl, c, t) \in MapsOver(Qubits)
    BY <1>1, MapSteps
  <2>4. QED
    BY <2>2, <2>3 DEF EmitCX, EmittedOver
<1>3. ASSUME NEW i, GateIn(Qubits, i) PROVE EmitRaw(i, o) \in EmittedOver(Qubits)
  <2>1. GateAfter(i, o.op) \in OperatorsOver(Qubits)
    BY <1>1, <1>3, GateOpTyped
  <2>2. QED
    BY <2>1, EmittedFields DEF EmitRaw
<1>4. ASSUME NEW q, NEW b PROVE [o EXCEPT !.op = Project(@, q, b)] \in EmittedOver(Qubits)
  <2>1. Project(o.op, q, b) \in OperatorsOver(Qubits)
    BY <1>1, ProjectTyped
  <2>2. QED
    BY <2>1, EmittedFields
<1>5. QED
  BY <1>2, <1>3, <1>4

-----------------------------------------------------------------------------
(***************************************************************************)
(* Types.                                                                  *)
(***************************************************************************)
SoundSet == {p \in [kind : Kinds, matrix : U3Matrices] : Sound(p)}

Typed ==
  /\ input \in Inputs
  /\ read \in 0 .. input.length
  /\ want \in OperatorsOver(Qubits)
  /\ StepsIn(Qubits, todo)
  /\ pending \in [Qubits -> SoundSet]
  /\ out \in EmittedOver(Qubits)
  /\ plain \in MapsOver(Qubits)

LEMMA InputFacts ==
  ASSUME NEW i \in Inputs
  PROVE  /\ IsFiniteSet(i.qubits) /\ i.length \in Nat
         /\ \A g \in i.instructions : WellFormed(g, i.qubits)
BY SchedulerAssumption, InstructionAssumption

LEMMA TypedFacts ==
  ASSUME Typed
  PROVE  /\ IsFiniteSet(Qubits) /\ input.length \in Nat
         /\ \A g \in input.instructions : WellFormed(g, Qubits)
         /\ \A q \in Qubits : Sound(pending[q])
         /\ Holds(Qubits, pending)
         /\ \A Q \in SUBSET Qubits : FlushedAll(Q, out) \in EmittedOver(Qubits)
<1>1. IsFiniteSet(Qubits) /\ input.length \in Nat /\ \A g \in input.instructions : WellFormed(g, Qubits)
  BY InputFacts DEF Typed, Qubits
<1>2. \A q \in Qubits : Sound(pending[q])
  BY DEF Typed, SoundSet
<1>3. Holds(Qubits, pending)
  BY <1>2 DEF Sound, Holds
<1>4. out \in EmittedOver(Qubits)
  BY DEF Typed
<1>5. \A Q \in SUBSET Qubits : FlushedAll(Q, out) \in EmittedOver(Qubits)
  BY <1>1, <1>3, <1>4, FlushedColumns
<1>6. QED
  BY <1>1, <1>2, <1>3, <1>5

LEMMA EmptyMapTyped ==
  ASSUME NEW R
  PROVE  EmptyMap \in MapsOver(R)
BY DEF EmptyMap, MapsOver, Vectors

LEMMA SoundIn ==
  ASSUME NEW p, Sound(p)
  PROVE  p \in SoundSet
BY DEF Sound, SoundSet

LEMMA ClearedTyped ==
  ASSUME Typed, NEW Q
  PROVE  Cleared(Q) \in [Qubits -> SoundSet]
<1>1. Empty \in SoundSet
  BY EmptySound, SoundIn
<1>2. QED
  BY <1>1 DEF Typed, Cleared

LEMMA InitTyped == Init => Typed
<1> SUFFICES ASSUME Init PROVE Typed
  OBVIOUS
<1>1. input \in Inputs /\ read \in 0 .. input.length
  BY InputFacts DEF Init
<1>2. want \in OperatorsOver(Qubits)
  BY IdentityOpTyped DEF Init
<1>3. StepsIn(Qubits, todo)
  BY DEF Init, StepsIn
<1>4. pending \in [Qubits -> SoundSet]
  <2>1. Empty \in SoundSet
    BY EmptySound, SoundIn
  <2>2. QED
    BY <2>1 DEF Init
<1>5. out \in EmittedOver(Qubits) /\ plain \in MapsOver(Qubits)
  BY IdentityOpTyped, EmptyMapTyped DEF Init, EmittedOver
<1>6. QED
  BY <1>1, <1>2, <1>3, <1>4, <1>5 DEF Typed

LEMMA StepFacts ==
  ASSUME Typed, TakeStep
  PROVE  /\ StepIn(Qubits, Step) /\ GateIn(Qubits, Step)
         /\ StepsIn(Qubits, todo')
         /\ Len(Step.qs) = 1 => Step.name \in OneQubitNames /\ Step.qs[1] \in Qubits
         /\ Len(Step.qs) # 1 => /\ Step.name \in {"cx", "cp", "crz"} /\ Len(Step.qs) = 2
                                /\ Step.qs[1] \in Qubits /\ Step.qs[2] \in Qubits
                                /\ Step.qs[1] # Step.qs[2]
         /\ Step.name = "cx" => Len(Step.qs) # 1
<1>1. StepsIn(Qubits, todo) /\ todo # << >> /\ todo' = Tail(todo)
  BY DEF Typed, TakeStep
<1>2. StepIn(Qubits, Step) /\ StepsIn(Qubits, todo')
  BY <1>1, StepsShape DEF Step
<1>3. GateIn(Qubits, Step) /\ Step.name \in OneQubitNames \cup {"cx", "cp", "crz"}
  BY <1>2 DEF StepIn, StepNames
<1> DEFINE s == Step
<1>4. GateIn(Qubits, s)
  BY <1>3
<1> HIDE DEF s
<1>5. /\ s.name \in OneQubitNames => Len(s.qs) = 1 /\ s.qs[1] \in Qubits
      /\ s.name \notin OneQubitNames =>
           /\ Len(s.qs) \in {2, 3}
           /\ s.qs[1] \in Qubits /\ s.qs[2] \in Qubits /\ s.qs[1] # s.qs[2]
      /\ s.name \notin {"ccx", "ccz"} => Len(s.qs) # 3
  BY <1>4, GateShape
<1>6. QED
  BY <1>2, <1>3, <1>5 DEF s, OneQubitNames

-----------------------------------------------------------------------------
(***************************************************************************)
(* One action after the other.  Grown is what a flush does to the map.      *)
(***************************************************************************)
Grown(p, q, map) ==
  CASE p.kind = "EMPTY" -> map
    [] p.kind = "ZERO_H" -> IF p.matrix.u00 = 0 THEN MapX(map, q) ELSE map
    [] OTHER -> ExpandForQubit(map, q)

LEMMA FlushedMap ==
  ASSUME NEW p, NEW q, NEW o
  PROVE  Flushed(p, q, o).agl = Grown(p, q, o.agl)
BY DEF Flushed, Grown

LEMMA GrownTyped ==
  ASSUME NEW R, NEW p, Sound(p), NEW q \in R, NEW map \in MapsOver(R)
  PROVE  Grown(p, q, map) \in MapsOver(R)
<1>1. MapX(map, q) \in MapsOver(R) /\ ExpandForQubit(map, q) \in MapsOver(R)
  BY MapSteps
<1>2. QED
  BY <1>1 DEF Grown

\* What _absorb_1q makes of the step in front and what is pending.
Made == Classify(LeftMultiply(SingleQubitMatrix(Step), pending[Step.qs[1]].matrix))
Alone == Classify(SingleQubitMatrix(Step))

LEMMA AbsorbFacts ==
  ASSUME Typed, Absorb
  PROVE  /\ Step.qs[1] \in Qubits /\ GateIn(Qubits, Step) /\ Step.name \in OneQubitNames
         /\ SingleQubitMatrix(Step) \in U3Matrices
         /\ pending[Step.qs[1]].matrix \in U3Matrices
         /\ Sound(Made) /\ Sound(Alone)
         /\ \E k \in Units :
              Made.matrix = Scaled(LeftMultiply(SingleQubitMatrix(Step), pending[Step.qs[1]].matrix), k)
         /\ plain' = Grown(Alone, Step.qs[1], plain)
         /\ \/ pending' = [pending EXCEPT ![Step.qs[1]] = Made] /\ out' = out
            \/ out' = Flushed(Made, Step.qs[1], out) /\ pending' = Cleared({Step.qs[1]})
<1>1. TakeStep /\ Len(Step.qs) = 1
  BY DEF Absorb
<1>2. GateIn(Qubits, Step) /\ Step.name \in OneQubitNames /\ Step.qs[1] \in Qubits
  BY <1>1, StepFacts
<1>3. SingleQubitMatrix(Step) \in U3Matrices /\ Det(SingleQubitMatrix(Step)) # 0
  BY <1>2, SingleTyped, SingleDet
<1>4. pending[Step.qs[1]].matrix \in U3Matrices /\ Det(pending[Step.qs[1]].matrix) # 0
  BY <1>2, TypedFacts DEF Sound
<1> DEFINE m == LeftMultiply(SingleQubitMatrix(Step), pending[Step.qs[1]].matrix)
<1>5. m \in U3Matrices /\ Det(m) # 0
  BY <1>3, <1>4, ProductTyped, ProductDet
<1>6. Sound(Classify(m)) /\ \E k \in Units : Classify(m).matrix = Scaled(m, k)
  BY <1>5, ClassifySound
<1>7. Sound(Classify(SingleQubitMatrix(Step)))
  BY <1>3, ClassifySound
<1>8. plain' = Grown(Alone, Step.qs[1], plain)
  <2>1. plain' = Flushed(Alone, Step.qs[1], [op |-> IdentityOp, agl |-> plain]).agl
    BY DEF Absorb, Alone
  <2>2. QED
    BY <2>1, FlushedMap
<1>9. \/ pending' = [pending EXCEPT ![Step.qs[1]] = Made] /\ out' = out
      \/ out' = Flushed(Made, Step.qs[1], out) /\ pending' = Cleared({Step.qs[1]})
  BY DEF Absorb, Made
<1>10. QED
  BY <1>2, <1>3, <1>4, <1>6, <1>7, <1>8, <1>9 DEF Made, Alone

\* What the two steps of a CX and the one of a raw gate are about.
LEMMA PairFacts ==
  ASSUME Typed, TakeStep, Step.name = "cx" \/ Len(Step.qs) = 2
  PROVE  /\ Step.name \in {"cx", "cp", "crz"} /\ StepIn(Qubits, Step) /\ GateIn(Qubits, Step)
         /\ Step.qs[1] \in Qubits /\ Step.qs[2] \in Qubits /\ Step.qs[1] # Step.qs[2]
         /\ {Step.qs[1], Step.qs[2]} \in SUBSET Qubits
         /\ FlushedAll({Step.qs[1], Step.qs[2]}, out) \in EmittedOver(Qubits)
<1>1. Len(Step.qs) # 1
  BY StepFacts
<1>2. /\ Step.name \in {"cx", "cp", "crz"} /\ StepIn(Qubits, Step) /\ GateIn(Qubits, Step)
      /\ Step.qs[1] \in Qubits /\ Step.qs[2] \in Qubits /\ Step.qs[1] # Step.qs[2]
  BY <1>1, StepFacts
<1>3. {Step.qs[1], Step.qs[2]} \in SUBSET Qubits
  BY <1>2
<1>4. FlushedAll({Step.qs[1], Step.qs[2]}, out) \in EmittedOver(Qubits)
  BY <1>3, TypedFacts
<1>5. QED
  BY <1>2, <1>3, <1>4

LEMMA BoundaryFacts ==
  ASSUME Typed, NEW i \in input.instructions, NextInstruction
  PROVE  /\ WellFormed(i, Qubits) /\ read' \in 0 .. input.length
         /\ i.name \notin Boundaries => GateIn(Qubits, i)
         /\ i.name = "measure" => i.qs[1] \in Qubits
         /\ FlushedAll(Qubits, out) \in EmittedOver(Qubits)
         /\ StepsIn(Qubits, << >>)
<1>1. WellFormed(i, Qubits) /\ input.length \in Nat
  BY TypedFacts
<1>2. read' \in 0 .. input.length
  BY <1>1 DEF Typed, NextInstruction
<1>3. i.name = "measure" => i.qs[1] \in Qubits
  BY <1>1 DEF WellFormed
<1>4. FlushedAll(Qubits, out) \in EmittedOver(Qubits)
  BY TypedFacts
<1>5. StepsIn(Qubits, << >>)
  BY DEF StepsIn
<1>6. QED
  BY <1>1, <1>2, <1>3, <1>4, <1>5 DEF GateIn

LEMMA NextTyped ==
  ASSUME Typed, [Next]_vars
  PROVE  Typed'
<1>1. /\ input \in Inputs /\ read \in 0 .. input.length
      /\ want \in OperatorsOver(Qubits)
      /\ StepsIn(Qubits, todo)
      /\ pending \in [Qubits -> SoundSet]
      /\ out \in EmittedOver(Qubits) /\ plain \in MapsOver(Qubits)
  BY DEF Typed
<1>2. input' = input /\ Qubits' = Qubits
  BY DEF Next, vars, Qubits
<1> DEFINE R == Qubits
<1>20. R' = Qubits
  BY <1>2
<1>3. SUFFICES /\ input \in Inputs /\ read' \in 0 .. input.length
               /\ want' \in OperatorsOver(Qubits)
               /\ StepsIn(Qubits, todo')
               /\ pending' \in [Qubits -> SoundSet]
               /\ out' \in EmittedOver(Qubits) /\ plain' \in MapsOver(Qubits)
  BY <1>2 DEF Typed, StepsIn
<1>4. ASSUME NEW Q PROVE Cleared(Q) \in [Qubits -> SoundSet]
  BY ClearedTyped
<1>5. CASE vars' = vars
  BY <1>1, <1>5 DEF vars
<1>6. ASSUME NEW i \in input.instructions, ReadGate(i) PROVE <1>3!1
  <2>1. NextInstruction /\ i.name \notin Boundaries
    BY <1>6 DEF ReadGate
  <2>2. GateIn(Qubits, i) /\ read' \in 0 .. input.length
    BY <2>1, BoundaryFacts
  <2>3. want' \in OperatorsOver(Qubits)
    BY <1>1, <1>6, <2>2, GateOpTyped DEF ReadGate
  <2>4. StepsIn(Qubits, todo')
    BY <1>6, <2>2, LoweredSteps DEF ReadGate
  <2>5. QED
    BY <1>1, <1>6, <2>2, <2>3, <2>4 DEF ReadGate
<1>7. ASSUME NEW i \in input.instructions, Barrier(i) PROVE <1>3!1
  <2>1. NextInstruction
    BY <1>7 DEF Barrier
  <2>2. read' \in 0 .. input.length /\ FlushedAll(Qubits, out) \in EmittedOver(Qubits)
    BY <2>1, BoundaryFacts
  <2>3. QED
    BY <1>1, <1>4, <1>7, <2>2 DEF Barrier, FlushEverything
<1>8. ASSUME NEW i \in input.instructions, Measure(i) PROVE <1>3!1
  <2>1. NextInstruction
    BY <1>8 DEF Measure
  <2>2. read' \in 0 .. input.length /\ FlushedAll(Qubits, out) \in EmittedOver(Qubits)
    BY <2>1, BoundaryFacts
  <2>3. PICK b \in BOOLEAN : /\ want' = Project(want, i.qs[1], b)
                             /\ out' = [FlushedAll(Qubits, out) EXCEPT !.op = Project(@, i.qs[1], b)]
    BY <1>8 DEF Measure
  <2>4. want' \in OperatorsOver(Qubits)
    BY <1>1, <2>3, ProjectTyped
  <2>5. out' \in EmittedOver(Qubits)
    BY <2>2, <2>3, EmittedTyped
  <2>6. QED
    BY <1>1, <1>4, <1>8, <2>2, <2>4, <2>5 DEF Measure, FlushEverything
<1>9. ASSUME NEW i \in input.instructions, Reset(i) PROVE <1>3!1
  <2>1. NextInstruction
    BY <1>9 DEF Reset
  <2>2. read' \in 0 .. input.length
    BY <2>1, BoundaryFacts
  <2>3. IdentityOp \in OperatorsOver(Qubits) /\ EmptyMap \in MapsOver(Qubits)
    BY IdentityOpTyped, EmptyMapTyped
  <2>4. out' \in EmittedOver(Qubits)
    BY <1>9, <2>3 DEF Reset, EmittedOver
  <2>5. QED
    BY <1>1, <1>4, <1>9, <2>2, <2>3, <2>4 DEF Reset, FlushEverything
<1>10. CASE Absorb
  <2>1. /\ Step.qs[1] \in Qubits /\ Sound(Made) /\ Sound(Alone)
        /\ plain' = Grown(Alone, Step.qs[1], plain)
        /\ \/ pending' = [pending EXCEPT ![Step.qs[1]] = Made] /\ out' = out
           \/ out' = Flushed(Made, Step.qs[1], out) /\ pending' = Cleared({Step.qs[1]})
    BY <1>10, AbsorbFacts
  <2>2. TakeStep
    BY <1>10 DEF Absorb
  <2>3. StepsIn(Qubits, todo')
    BY <2>2, StepFacts
  <2>4. Made \in SoundSet /\ Made.matrix \in U3Matrices
    BY <2>1, SoundIn DEF Sound
  <2>5. plain' \in MapsOver(Qubits)
    BY <1>1, <2>1, GrownTyped
  <2>6. pending' \in [Qubits -> SoundSet] /\ out' \in EmittedOver(Qubits)
    BY <1>1, <1>4, <2>1, <2>4, FlushedFields
  <2>7. QED
    BY <1>1, <2>2, <2>3, <2>5, <2>6 DEF TakeStep
<1>11. CASE CrossCX
  <2>1. TakeStep /\ Step.name = "cx"
    BY <1>11 DEF CrossCX
  <2>2. StepsIn(Qubits, todo')
    BY <2>1, StepFacts
  <2>3. Step.qs[1] \in Qubits /\ Step.qs[2] \in Qubits /\ Step.qs[1] # Step.qs[2]
    BY <2>1, PairFacts
  <2>4. out' \in EmittedOver(Qubits)
    BY <1>1, <1>11, <2>3, EmittedTyped DEF CrossCX
  <2>5. plain' \in MapsOver(Qubits)
    BY <1>1, <1>11, <2>3, MapSteps DEF CrossCX
  <2>6. QED
    BY <1>1, <1>11, <2>1, <2>2, <2>4, <2>5 DEF CrossCX, TakeStep
<1>12. CASE FlushCX
  <2>1. TakeStep /\ Step.name = "cx"
    BY <1>12 DEF FlushCX
  <2>2. StepsIn(Qubits, todo')
    BY <2>1, StepFacts
  <2>3. /\ Step.qs[1] \in Qubits /\ Step.qs[2] \in Qubits /\ Step.qs[1] # Step.qs[2]
        /\ FlushedAll({Step.qs[1], Step.qs[2]}, out) \in EmittedOver(Qubits)
    BY <2>1, PairFacts
  <2>4. out' \in EmittedOver(Qubits)
    BY <1>12, <2>3, EmittedTyped DEF FlushCX
  <2>5. plain' \in MapsOver(Qubits)
    BY <1>1, <1>12, <2>3, MapSteps DEF FlushCX
  <2>6. QED
    BY <1>1, <1>4, <1>12, <2>1, <2>2, <2>4, <2>5 DEF FlushCX, TakeStep
<1>13. CASE RawGate
  <2>1. TakeStep /\ Len(Step.qs) = 2
    BY <1>13 DEF RawGate
  <2>2. StepsIn(Qubits, todo')
    BY <2>1, StepFacts
  <2>3. GateIn(Qubits, Step) /\ FlushedAll({Step.qs[1], Step.qs[2]}, out) \in EmittedOver(Qubits)
    BY <2>1, PairFacts
  <2>4. out' \in EmittedOver(Qubits)
    BY <1>13, <2>3, EmittedTyped DEF RawGate
  <2>5. QED
    BY <1>1, <1>4, <1>13, <2>1, <2>2, <2>4 DEF RawGate, TakeStep
<1>14. QED
  BY <1>5, <1>6, <1>7, <1>8, <1>9, <1>10, <1>11, <1>12, <1>13 DEF Next

LEMMA TypedIsTypeOK == Typed => TypeOK
<1> SUFFICES ASSUME Typed PROVE TypeOK
  OBVIOUS
<1>1. \A c, r \in Basis : want[c][r] \in Amps /\ out.op[c][r] \in Amps
  BY DEF Typed, EmittedOver, OperatorsOver, StatesOver, Basis, Vectors
<1>2. \A q \in Qubits : pending[q].kind \in {"EMPTY", "ZERO_H", "ONE_H", "TWO_H"}
  BY TypedFacts DEF Sound, Kinds
<1>3. \A map \in {out.agl, plain} : map.cols \subseteq Basis /\ map.offset \in Basis
  BY DEF Typed, EmittedOver, MapsOver, Basis, Vectors
<1>4. QED
  BY <1>1, <1>2, <1>3 DEF Typed, TypeOK

LEMMA AlwaysTyped == Spec => []Typed
<1>1. Typed /\ [Next]_vars => Typed'
  BY NextTyped
<1>2. QED
  BY <1>1, InitTyped, PTL DEF Spec

\* Every operator the scan keeps is one on all the qubits, and its pending
\* operators are of the kinds _classify_pending knows.
THEOREM BoundaryTypes == Spec => []TypeOK
BY AlwaysTyped, TypedIsTypeOK, PTL

-----------------------------------------------------------------------------
(***************************************************************************)
(* The address map covers a state when it reaches every basis state that    *)
(* has an amplitude.                                                        *)
(***************************************************************************)
Covers(R, map, f) ==
  \A r \in Vectors(R) : f[r] # 0 => r \oplus map.offset \in Span(map.cols)

LEMMA MapFields ==
  ASSUME NEW R, NEW map \in MapsOver(R)
  PROVE  map.cols \in SUBSET Vectors(R) /\ map.offset \in Vectors(R)
BY DEF MapsOver

LEMMA MapXFields ==
  ASSUME NEW map, NEW q
  PROVE  MapX(map, q).cols = map.cols /\ MapX(map, q).offset = map.offset \oplus {q}
BY DEF MapX

LEMMA ExpandFacts ==
  ASSUME NEW R, IsFiniteSet(R), NEW q \in R, NEW map \in MapsOver(R)
  PROVE  /\ {q} \in Span(ExpandForQubit(map, q).cols)
         /\ Span(map.cols) \subseteq Span(ExpandForQubit(map, q).cols)
         /\ ExpandForQubit(map, q).offset = map.offset
<1>1. map.cols \in SUBSET Vectors(R) /\ {q} \in Vectors(R)
  BY MapFields DEF Vectors
<1>2. CASE RequiresExpansion(map, q)
  <2> DEFINE D == map.cols \cup {{q}}
  <2>1. ExpandForQubit(map, q).cols = D /\ ExpandForQubit(map, q).offset = map.offset
    BY <1>2 DEF ExpandForQubit
  <2>2. D \in SUBSET Vectors(R) /\ map.cols \in SUBSET D /\ {q} \in D
    BY <1>1
  <2> HIDE DEF D
  <2>3. {q} \in Span(D) /\ Span(map.cols) \subseteq Span(D)
    BY <2>2, SpanHolds, SpanGrows
  <2>4. QED
    BY <2>1, <2>3
<1>3. CASE ~RequiresExpansion(map, q)
  <2>1. RequiresExpansion(map, q) = FALSE /\ ExpandForQubit(map, q) = map
    BY <1>3 DEF ExpandForQubit
  <2>2. QED
    BY <1>3, <2>1 DEF RequiresExpansion
<1>4. QED
  BY <1>2, <1>3

LEMMA PairVanishes ==
  ASSUME NEW u \in U3Matrices, NEW a \in Amps, NEW c \in Amps
  PROVE  /\ a = 0 /\ c = 0 => EvenOf(u, a, c) = 0 /\ OddOf(u, a, c) = 0
         /\ IsDiagonal(u) /\ a = 0 => EvenOf(u, a, c) = 0
         /\ IsDiagonal(u) /\ c = 0 => OddOf(u, a, c) = 0
         /\ IsAntidiagonal(u) /\ c = 0 => EvenOf(u, a, c) = 0
         /\ IsAntidiagonal(u) /\ a = 0 => OddOf(u, a, c) = 0
<1>1. u.u00 \in Int /\ u.u01 \in Int /\ u.u10 \in Int /\ u.u11 \in Int /\ a \in Int /\ c \in Int
  BY DEF U3Matrices, Amps, P17
<1>2. \A k \in Int : k * 0 = 0 /\ 0 * k = 0
  OBVIOUS
<1>3. (0 + 0) % P17 = 0
  BY DEF P17
<1>4. QED
  BY <1>1, <1>2, <1>3 DEF EvenOf, OddOf, IsDiagonal, IsAntidiagonal

\* A flush: what is applied to the qubit, and what becomes of the map.
LEMMA FlushCovers ==
  ASSUME NEW R, IsFiniteSet(R), NEW p, Sound(p), NEW q \in R, NEW f \in StatesOver(R),
         NEW map \in MapsOver(R), Covers(R, map, f)
  PROVE  Covers(R, Grown(p, q, map), OneQubit(R, p.matrix, q, f))
<1> DEFINE u == p.matrix
           g == OneQubit(R, u, q, f)
<1>1. u \in U3Matrices
  BY DEF Sound
<1>2. ASSUME NEW r \in Vectors(R)
      PROVE  /\ r \oplus {q} \in Vectors(R)
             /\ f[r] \in Amps /\ f[r \oplus {q}] \in Amps
             /\ g[r] = IF q \in r THEN OddOf(u, f[r \oplus {q}], f[r])
                                  ELSE EvenOf(u, f[r], f[r \oplus {q}])
  <2>1. r \oplus {q} \in Vectors(R)
    BY Flipped
  <2>2. f[r] \in Amps /\ f[r \oplus {q}] \in Amps
    BY <2>1 DEF StatesOver
  <2>3. QED
    BY <2>1, <2>2, OneQubitAt DEF Mixes
<1>9. ASSUME NEW r \in Vectors(R)
      PROVE  /\ f[r] = 0 /\ f[r \oplus {q}] = 0 => g[r] = 0
             /\ IsDiagonal(u) /\ f[r] = 0 => g[r] = 0
             /\ IsAntidiagonal(u) /\ f[r \oplus {q}] = 0 => g[r] = 0
  <2> DEFINE a == f[r]
             b == f[r \oplus {q}]
             w == g[r]
  <2>1. /\ a \in Amps /\ b \in Amps
        /\ q \in r => w = OddOf(u, b, a)
        /\ q \notin r => w = EvenOf(u, a, b)
    BY <1>2
  <2> HIDE DEF u, g, a, b, w
  <2>2. /\ a = 0 /\ b = 0 => EvenOf(u, a, b) = 0 /\ OddOf(u, b, a) = 0
        /\ IsDiagonal(u) /\ a = 0 => EvenOf(u, a, b) = 0 /\ OddOf(u, b, a) = 0
        /\ IsAntidiagonal(u) /\ b = 0 => EvenOf(u, a, b) = 0 /\ OddOf(u, b, a) = 0
    BY <1>1, <2>1, PairVanishes
  <2>3. /\ a = 0 /\ b = 0 => w = 0
        /\ IsDiagonal(u) /\ a = 0 => w = 0
        /\ IsAntidiagonal(u) /\ b = 0 => w = 0
    BY <2>1, <2>2
  <2>4. QED
    BY <2>3 DEF a, b, w
<1>3. map.cols \in SUBSET Vectors(R)
  BY MapFields
<1>4. CASE p.kind = "EMPTY"
  <2>1. u = Identity
    BY <1>4 DEF Sound
  <2>2. g = f
    BY <2>1, OneQubitIdentity
  <2>3. Grown(p, q, map) = map
    BY <1>4 DEF Grown
  <2>4. QED
    BY <2>2, <2>3
<1>5. CASE p.kind = "ZERO_H" /\ u.u00 # 0
  <2>1. IsDiagonal(u)
    BY <1>5 DEF Sound, IsAntidiagonal
  <2>2. Grown(p, q, map) = map
    BY <1>5 DEF Grown
  <2> HIDE DEF u
  <2>3. ASSUME NEW r \in Vectors(R), g[r] # 0 PROVE f[r] # 0
    BY <1>9, <2>1, <2>3
  <2>4. QED
    BY <2>2, <2>3 DEF Covers, u
<1>6. CASE p.kind = "ZERO_H" /\ u.u00 = 0
  <2>1. IsAntidiagonal(u)
    BY <1>6 DEF Sound
  <2>2. Grown(p, q, map) = MapX(map, q)
    BY <1>6 DEF Grown
  <2>3. Grown(p, q, map).cols = map.cols /\ Grown(p, q, map).offset = map.offset \oplus {q}
    BY <2>2, MapXFields
  <2> HIDE DEF u
  <2>4. ASSUME NEW r \in Vectors(R), g[r] # 0
        PROVE r \oplus (map.offset \oplus {q}) \in Span(map.cols)
    <3>1. f[r \oplus {q}] # 0
      BY <1>9, <2>1, <2>4
    <3>2. (r \oplus {q}) \oplus map.offset \in Span(map.cols)
      BY <1>2, <3>1 DEF Covers
    <3>3. (r \oplus {q}) \oplus map.offset = r \oplus (map.offset \oplus {q})
      BY XorAssoc, XorComm
    <3>4. QED
      BY <3>2, <3>3
  <2>5. QED
    BY <2>3, <2>4 DEF Covers, u
<1>7. CASE p.kind \notin {"EMPTY", "ZERO_H"}
  <2>1. Grown(p, q, map) = ExpandForQubit(map, q)
    BY <1>7 DEF Grown
  <2> DEFINE C == Grown(p, q, map).cols
  <2>2. /\ {q} \in Span(C) /\ Span(map.cols) \subseteq Span(C)
        /\ Grown(p, q, map).offset = map.offset
    BY <2>1, ExpandFacts
  <2>3. C \in SUBSET Vectors(R)
    BY GrownTyped, MapFields
  <2> HIDE DEF u, C
  <2>4. ASSUME NEW r \in Vectors(R), g[r] # 0
        PROVE r \oplus map.offset \in Span(C)
    <3>1. f[r] # 0 \/ f[r \oplus {q}] # 0
      BY <1>9, <2>4
    <3>2. CASE f[r] # 0
      BY <2>2, <3>2 DEF Covers
    <3>3. CASE f[r \oplus {q}] # 0
      <4>1. (r \oplus {q}) \oplus map.offset \in Span(C)
        BY <1>2, <2>2, <3>3 DEF Covers
      <4>2. {q} \oplus ((r \oplus {q}) \oplus map.offset) \in Span(C)
        BY <2>2, <2>3, <4>1, SpanClosed
      <4>3. {q} \oplus ((r \oplus {q}) \oplus map.offset) = r \oplus map.offset
        BY DEF \oplus
      <4>4. QED
        BY <4>2, <4>3
    <3>4. QED
      BY <3>1, <3>2, <3>3
  <2>5. QED
    BY <2>2, <2>4 DEF Covers, u, C
<1>8. QED
  BY <1>4, <1>5, <1>6, <1>7

\* A CX: the amplitudes move as the rows of the map do.
LEMMA CXCovers ==
  ASSUME NEW R, IsFiniteSet(R), NEW c \in R, NEW t \in R, c # t, NEW f \in StatesOver(R),
         NEW map \in MapsOver(R), Covers(R, map, f)
  PROVE  Covers(R, MapCX(map, c, t), Moved(R, SourceOf(R, CX(c, t)), f))
<1> DEFINE D == RowXorAll(map.cols, t, c)
           From(r) == RowXor(r, t, c)
<1>1. map.cols \in SUBSET Vectors(R)
  BY MapFields
<1>2. Span(D) = RowXorAll(Span(map.cols), t, c)
  BY <1>1, SpanImage
<1>3. MapCX(map, c, t).cols = D /\ MapCX(map, c, t).offset = From(map.offset)
  BY DEF MapCX, RowXorAll
<1>4. ASSUME NEW r \in Vectors(R)
      PROVE  From(r) \in Vectors(R) /\ Moved(R, SourceOf(R, CX(c, t)), f)[r] = f[From(r)]
  <2>1. From(r) \in Vectors(R)
    BY RowXorClosed DEF Vectors
  <2>2. Source(CX(c, t), r) = From(r)
    BY DEF Source, CX, Instr, RowXor
  <2>3. QED
    BY <2>1, <2>2 DEF Moved, SourceOf
<1>5. ASSUME NEW r \in Vectors(R), Moved(R, SourceOf(R, CX(c, t)), f)[r] # 0
      PROVE  r \oplus From(map.offset) \in Span(D)
  <2>1. From(r) \oplus map.offset \in Span(map.cols)
    BY <1>4, <1>5 DEF Covers
  <2>2. From(From(r) \oplus map.offset) \in Span(D)
    BY <1>2, <2>1 DEF RowXorAll
  <2>3. From(From(r) \oplus map.offset) = From(From(r)) \oplus From(map.offset)
    BY RowXorAdditive
  <2>4. From(From(r)) = r
    BY RowXorInvolution
  <2>5. QED
    BY <2>2, <2>3, <2>4
<1>6. QED
  BY <1>3, <1>5 DEF Covers

\* Factors move nothing.
LEMMA PhasedCovers ==
  ASSUME NEW R, NEW ph \in StatesOver(R), NEW f \in StatesOver(R), NEW map, Covers(R, map, f)
  PROVE  Covers(R, map, Phased(R, ph, f))
<1>1. ASSUME NEW r \in Vectors(R), Phased(R, ph, f)[r] # 0 PROVE f[r] # 0
  <2>1. Phased(R, ph, f)[r] = (ph[r] * f[r]) % P17
    BY DEF Phased
  <2>2. ph[r] \in Int
    BY DEF StatesOver, Amps, P17
  <2>3. (ph[r] * 0) % P17 = 0
    BY <2>2 DEF P17
  <2>4. QED
    BY <1>1, <2>1, <2>3
<1>2. QED
  BY <1>1 DEF Covers

CoveredBy(o) == Covers(Qubits, o.agl, o.op[{}])
CoveredSet == {o \in EmittedOver(Qubits) : CoveredBy(o)}

LEMMA ZeroColumn ==
  ASSUME NEW o \in EmittedOver(Qubits)
  PROVE  {} \in Vectors(Qubits) /\ o.op[{}] \in StatesOver(Qubits) /\ o.agl \in MapsOver(Qubits)
<1>1. {} \in Vectors(Qubits)
  BY DEF Vectors
<1>2. QED
  BY <1>1 DEF EmittedOver, OperatorsOver

LEMMA FlushedCovers ==
  ASSUME IsFiniteSet(Qubits), NEW p, Sound(p), NEW q \in Qubits, NEW o \in CoveredSet
  PROVE  Flushed(p, q, o) \in CoveredSet
<1>1. o \in EmittedOver(Qubits) /\ Covers(Qubits, o.agl, o.op[{}])
  BY DEF CoveredSet, CoveredBy
<1>2. p.matrix \in U3Matrices
  BY DEF Sound
<1>3. {} \in Vectors(Qubits) /\ o.op[{}] \in StatesOver(Qubits) /\ o.agl \in MapsOver(Qubits)
  BY <1>1, ZeroColumn
<1>4. /\ Flushed(p, q, o) \in EmittedOver(Qubits)
      /\ Flushed(p, q, o).op[{}] = OneQubit(Qubits, p.matrix, q, o.op[{}])
      /\ Flushed(p, q, o).agl = Grown(p, q, o.agl)
  BY <1>1, <1>2, <1>3, FlushedFields, FlushedMap
<1>5. Covers(Qubits, Grown(p, q, o.agl), OneQubit(Qubits, p.matrix, q, o.op[{}]))
  BY <1>1, <1>3, FlushCovers
<1>6. QED
  BY <1>4, <1>5 DEF CoveredSet, CoveredBy

LEMMA FlushAllCovers ==
  ASSUME Typed, NEW Q \in SUBSET Qubits, NEW o \in CoveredSet
  PROVE  FlushedAll(Q, o) \in CoveredSet
<1>1. IsFiniteSet(Qubits) /\ \A q \in Qubits : Sound(pending[q])
  BY TypedFacts
<1>2. IsFiniteSet(Q)
  BY <1>1, FS_Subset
<1>3. \A x \in Q : \A v \in CoveredSet : Flushed(pending[x], x, v) \in CoveredSet
  BY <1>1, FlushedCovers
<1>4. FlushKeeps(Q, CoveredSet, o)
  BY <1>2, <1>3 DEF FlushKeeps
<1>5. QED
  BY <1>4, FlushSteps

LEMMA EmittedCXCovers ==
  ASSUME IsFiniteSet(Qubits), NEW c \in Qubits, NEW t \in Qubits, c # t, NEW o \in CoveredSet
  PROVE  EmitCX(c, t, o) \in CoveredSet
<1>1. o \in EmittedOver(Qubits) /\ Covers(Qubits, o.agl, o.op[{}])
  BY DEF CoveredSet, CoveredBy
<1>2. {} \in Vectors(Qubits) /\ o.op[{}] \in StatesOver(Qubits) /\ o.agl \in MapsOver(Qubits)
  BY <1>1, ZeroColumn
<1>3. GateIn(Qubits, CX(c, t))
  BY CXStep DEF StepIn
<1>4. EmitCX(c, t, o) \in EmittedOver(Qubits)
  BY <1>1, EmittedTyped
<1>5. EmitCX(c, t, o).op = GateAfter(CX(c, t), o.op) /\ EmitCX(c, t, o).agl = MapCX(o.agl, c, t)
  BY DEF EmitCX, CX
<1>6. EmitCX(c, t, o).op[{}] = GateOn(Qubits, CX(c, t), o.op[{}])
  BY <1>2, <1>3, <1>5, GateAfterColumns
<1>7. GateOn(Qubits, CX(c, t), o.op[{}]) = Moved(Qubits, SourceOf(Qubits, CX(c, t)), o.op[{}])
  BY DEF GateOn, CX, Instr, OneQubitNames, MovingNames
<1>8. Covers(Qubits, MapCX(o.agl, c, t), Moved(Qubits, SourceOf(Qubits, CX(c, t)), o.op[{}]))
  BY <1>1, <1>2, CXCovers
<1>9. QED
  BY <1>4, <1>5, <1>6, <1>7, <1>8 DEF CoveredSet, CoveredBy

\* What only turns the amplitudes leaves the map as it is.
LEMMA RawCovers ==
  ASSUME NEW i, GateIn(Qubits, i), i.name \in TurningNames, NEW o \in CoveredSet
  PROVE  EmitRaw(i, o) \in CoveredSet
<1>1. o \in EmittedOver(Qubits) /\ Covers(Qubits, o.agl, o.op[{}])
  BY DEF CoveredSet, CoveredBy
<1>2. {} \in Vectors(Qubits) /\ o.op[{}] \in StatesOver(Qubits)
  BY <1>1, ZeroColumn
<1>3. EmitRaw(i, o) \in EmittedOver(Qubits)
  BY <1>1, EmittedTyped
<1>4. EmitRaw(i, o).op = GateAfter(i, o.op) /\ EmitRaw(i, o).agl = o.agl
  BY <1>1, EmittedFields DEF EmitRaw
<1>5. EmitRaw(i, o).op[{}] = GateOn(Qubits, i, o.op[{}])
  BY <1>2, <1>4, GateAfterColumns
<1>6. GateOn(Qubits, i, o.op[{}]) = Phased(Qubits, FactorOf(Qubits, i), o.op[{}])
  BY DEF GateOn, OneQubitNames, MovingNames, TurningNames
<1>7. FactorOf(Qubits, i) \in StatesOver(Qubits)
  BY FactorTyped
<1>8. QED
  BY <1>1, <1>2, <1>3, <1>4, <1>5, <1>6, <1>7, PhasedCovers DEF CoveredSet, CoveredBy

LEMMA ProjectCovers ==
  ASSUME NEW q, NEW b, NEW o \in CoveredSet
  PROVE  [o EXCEPT !.op = Project(@, q, b)] \in CoveredSet
<1> DEFINE e == [o EXCEPT !.op = Project(@, q, b)]
<1>1. o \in EmittedOver(Qubits) /\ Covers(Qubits, o.agl, o.op[{}])
  BY DEF CoveredSet, CoveredBy
<1>2. {} \in Vectors(Qubits) /\ o.op[{}] \in StatesOver(Qubits)
  BY <1>1, ZeroColumn
<1>3. e \in EmittedOver(Qubits)
  BY <1>1, EmittedTyped
<1>4. e.op = Project(o.op, q, b) /\ e.agl = o.agl
  BY <1>1, EmittedFields
<1>5. o.op \in OperatorsOver(Qubits)
  BY <1>1, EmittedFields
<1>6. e.op[{}] = Phased(Qubits, Kept(Qubits, q, b), o.op[{}]) /\ Kept(Qubits, q, b) \in StatesOver(Qubits)
  BY <1>2, <1>4, <1>5, ProjectTyped
<1> HIDE DEF e
<1>7. e \in CoveredSet
  BY <1>1, <1>2, <1>3, <1>4, <1>6, PhasedCovers DEF CoveredSet, CoveredBy
<1>8. QED
  BY <1>7 DEF e

\* |0..0>, which is where a run starts and where a reset takes it back to.
LEMMA StartCovers ==
  ASSUME IsFiniteSet(Qubits)
  PROVE  [op |-> IdentityOp, agl |-> EmptyMap] \in CoveredSet
<1> DEFINE o == [op |-> IdentityOp, agl |-> EmptyMap]
<1>1. o \in EmittedOver(Qubits)
  BY IdentityOpTyped, EmptyMapTyped DEF EmittedOver
<1>2. {} \in Span({})
  <2>1. {} \in SUBSET Vectors(Qubits)
    OBVIOUS
  <2>2. QED
    BY <2>1, SpanZero
<1>3. ASSUME NEW r \in Vectors(Qubits), IdentityOp[{}][r] # 0 PROVE r \oplus {} \in Span({})
  <2>1. r = {}
    BY <1>3 DEF IdentityOp, Basis, Vectors
  <2>2. QED
    BY <1>2, <2>1, XorEmpty
<1>4. o.op = IdentityOp /\ o.agl.cols = {} /\ o.agl.offset = {}
  BY DEF EmptyMap
<1>5. Covers(Qubits, o.agl, o.op[{}])
  BY <1>3, <1>4 DEF Covers
<1>6. QED
  BY <1>1, <1>5 DEF CoveredSet, CoveredBy

LEMMA NextCovers ==
  ASSUME Typed, out \in CoveredSet, [Next]_vars
  PROVE  (out \in CoveredSet)'
<1>1. input' = input /\ Qubits' = Qubits
  BY DEF Next, vars, Qubits
<1>2. SUFFICES out' \in CoveredSet
  BY <1>1 DEF CoveredSet, CoveredBy
<1>3. IsFiniteSet(Qubits) /\ \A Q \in SUBSET Qubits : FlushedAll(Q, out) \in CoveredSet
  BY TypedFacts, FlushAllCovers
<1>4. CASE vars' = vars
  BY <1>4 DEF vars
<1>5. ASSUME NEW i \in input.instructions, ReadGate(i) \/ Barrier(i) \/ Measure(i) \/ Reset(i)
      PROVE  out' \in CoveredSet
  <2>1. CASE ReadGate(i)
    BY <2>1 DEF ReadGate
  <2>2. CASE Barrier(i)
    BY <1>3, <2>2 DEF Barrier
  <2>3. CASE Measure(i)
    <3>1. \E b \in BOOLEAN : out' = [FlushedAll(Qubits, out) EXCEPT !.op = Project(@, i.qs[1], b)]
      BY <2>3 DEF Measure
    <3>2. FlushedAll(Qubits, out) \in CoveredSet
      BY <1>3
    <3>3. QED
      BY <3>1, <3>2, ProjectCovers
  <2>4. CASE Reset(i)
    BY <1>3, <2>4, StartCovers DEF Reset
  <2>5. QED
    BY <1>5, <2>1, <2>2, <2>3, <2>4
<1>6. CASE Absorb
  BY <1>3, <1>6, AbsorbFacts, FlushedCovers
<1>7. CASE CrossCX
  <2>1. TakeStep /\ Step.name = "cx" /\ out' = EmitCX(Step.qs[2], Step.qs[1], out)
    BY <1>7 DEF CrossCX
  <2>2. QED
    BY <1>3, <2>1, PairFacts, EmittedCXCovers
<1>8. CASE FlushCX
  <2>1. /\ TakeStep /\ Step.name = "cx"
        /\ out' = EmitCX(Step.qs[1], Step.qs[2], FlushedAll({Step.qs[1], Step.qs[2]}, out))
    BY <1>8 DEF FlushCX
  <2>2. QED
    BY <1>3, <2>1, PairFacts, EmittedCXCovers
<1>9. CASE RawGate
  <2>1. /\ TakeStep /\ Len(Step.qs) = 2 /\ Step.name # "cx"
        /\ out' = EmitRaw(Step, FlushedAll({Step.qs[1], Step.qs[2]}, out))
    BY <1>9 DEF RawGate
  <2>2. GateIn(Qubits, Step) /\ Step.name \in TurningNames /\ {Step.qs[1], Step.qs[2]} \in SUBSET Qubits
    BY <2>1, PairFacts DEF TurningNames
  <2>3. QED
    BY <1>3, <2>1, <2>2, RawCovers
<1>10. QED
  BY <1>4, <1>5, <1>6, <1>7, <1>8, <1>9 DEF Next

LEMMA AlwaysCovered == Spec => [](out \in CoveredSet)
<1>1. Init => out \in CoveredSet
  <2> SUFFICES ASSUME Init PROVE out \in CoveredSet
    OBVIOUS
  <2>1. IsFiniteSet(Qubits)
    BY InputFacts DEF Init, Qubits
  <2>2. QED
    BY <2>1, StartCovers DEF Init
<1>2. Typed /\ out \in CoveredSet /\ [Next]_vars => (out \in CoveredSet)'
  BY NextCovers
<1>3. QED
  BY <1>1, <1>2, AlwaysTyped, PTL DEF Spec

\* Whatever has been emitted, the address map beside it reaches every basis
\* state that it gives an amplitude when it starts in |0..0>: h and u3 gates
\* expand the map, x and cx move it, phases leave it alone, and the order in
\* which pending operators are flushed does not matter.
THEOREM BoundaryCovers == Spec => []SupportCovered
<1>1. out \in CoveredSet => SupportCovered
  BY DEF CoveredSet, CoveredBy, Covers, SupportCovered, Basis, Vectors
<1>2. QED
  BY <1>1, AlwaysCovered, PTL

-----------------------------------------------------------------------------
(***************************************************************************)
(* The map of the same circuit without optimization spans every column of   *)
(* the map that is kept, and every qubit on which an H core is pending.     *)
(***************************************************************************)
Wide(p) == p.kind \notin {"EMPTY", "ZERO_H"}

LEMMA MoveFacts ==
  ASSUME NEW R, IsFiniteSet(R), NEW p, Sound(p), NEW q \in R, NEW map \in MapsOver(R)
  PROVE  /\ Span(map.cols) \subseteq Span(Grown(p, q, map).cols)
         /\ Wide(p) => {q} \in Span(Grown(p, q, map).cols)
         /\ \/ Grown(p, q, map).cols = map.cols
            \/ /\ Wide(p) /\ {q} \notin Span(map.cols)
               /\ Grown(p, q, map).cols = map.cols \cup {{q}}
<1>1. CASE p.kind = "EMPTY"
  BY <1>1 DEF Grown, Wide
<1>2. CASE p.kind = "ZERO_H"
  <2>1. Grown(p, q, map) = IF p.matrix.u00 = 0 THEN MapX(map, q) ELSE map
    BY <1>2 DEF Grown
  <2>2. Grown(p, q, map).cols = map.cols
    BY <2>1, MapXFields
  <2>3. QED
    BY <1>2, <2>2 DEF Wide
<1>3. CASE p.kind \notin {"EMPTY", "ZERO_H"}
  <2>1. Grown(p, q, map) = ExpandForQubit(map, q) /\ Wide(p)
    BY <1>3 DEF Grown, Wide
  <2>2. /\ {q} \in Span(ExpandForQubit(map, q).cols)
        /\ Span(map.cols) \subseteq Span(ExpandForQubit(map, q).cols)
    BY ExpandFacts
  <2>3. CASE RequiresExpansion(map, q)
    <3>1. ExpandForQubit(map, q).cols = map.cols \cup {{q}}
      BY <2>3 DEF ExpandForQubit
    <3>2. {q} \notin Span(map.cols)
      BY <2>3 DEF RequiresExpansion
    <3>3. QED
      BY <2>1, <2>2, <3>1, <3>2
  <2>4. CASE ~RequiresExpansion(map, q)
    BY <2>1, <2>2, <2>4 DEF ExpandForQubit
  <2>5. QED
    BY <2>3, <2>4
<1>4. QED
  BY <1>1, <1>2, <1>3

\* The columns of a map are independent and within a space.
Fits(map, W) == Unrelated(map.cols) /\ map.cols \subseteq W

LEMMA GrownFits ==
  ASSUME NEW R, IsFiniteSet(R), NEW p, Sound(p), NEW q \in R, NEW map \in MapsOver(R),
         NEW W, Fits(map, W), Wide(p) => {q} \in W
  PROVE  Fits(Grown(p, q, map), W)
<1>1. map.cols \in SUBSET Vectors(R) /\ {q} \in Vectors(R)
  BY MapFields DEF Vectors
<1>2. CASE Grown(p, q, map).cols = map.cols
  BY <1>2 DEF Fits
<1>3. CASE /\ Wide(p) /\ {q} \notin Span(map.cols)
           /\ Grown(p, q, map).cols = map.cols \cup {{q}}
  <2>1. Unrelated(map.cols \cup {{q}})
    BY <1>1, <1>3, UnrelatedWith DEF Fits
  <2>2. QED
    BY <1>3, <2>1 DEF Fits
<1>4. QED
  BY <1>2, <1>3, MoveFacts

\* Rows added the same way round in both maps.
LEMMA CXFits ==
  ASSUME NEW R, IsFiniteSet(R), NEW map \in MapsOver(R), NEW wide \in MapsOver(R),
         Fits(map, Span(wide.cols)), NEW c \in R, NEW t \in R, c # t
  PROVE  /\ Fits(MapCX(map, c, t), Span(MapCX(wide, c, t).cols))
         /\ \A q \in R : q # c /\ {q} \in Span(wide.cols) => {q} \in Span(MapCX(wide, c, t).cols)
<1>1. map.cols \in SUBSET Vectors(R) /\ wide.cols \in SUBSET Vectors(R)
  BY MapFields
<1>2. MapCX(map, c, t).cols = RowXorAll(map.cols, t, c)
  BY DEF MapCX, RowXorAll
<1>3. MapCX(wide, c, t).cols = RowXorAll(wide.cols, t, c)
  BY DEF MapCX, RowXorAll
<1>4. Span(RowXorAll(wide.cols, t, c)) = RowXorAll(Span(wide.cols), t, c)
  BY <1>1, SpanImage
<1>5. Unrelated(RowXorAll(map.cols, t, c))
  BY <1>1, UnrelatedImage DEF Fits
<1>6. RowXorAll(map.cols, t, c) \subseteq RowXorAll(Span(wide.cols), t, c)
  BY DEF RowXorAll, Fits
<1>7. \A q \in R : q # c /\ {q} \in Span(wide.cols) => {q} \in RowXorAll(Span(wide.cols), t, c)
  BY DEF RowXorAll, RowXor
<1>8. QED
  BY <1>2, <1>3, <1>4, <1>5, <1>6, <1>7 DEF Fits

\* Rows added the other way round, when the space has both qubits.
LEMMA CrossFits ==
  ASSUME NEW R, IsFiniteSet(R), NEW map \in MapsOver(R), NEW wide \in MapsOver(R),
         Fits(map, Span(wide.cols)), NEW c \in R, NEW t \in R, c # t,
         {c} \in Span(wide.cols), {t} \in Span(wide.cols)
  PROVE  /\ Fits(MapCX(map, t, c), Span(MapCX(wide, c, t).cols))
         /\ Span(wide.cols) \subseteq Span(MapCX(wide, c, t).cols)
<1> DEFINE W == Span(wide.cols)
<1>1. map.cols \in SUBSET Vectors(R) /\ wide.cols \in SUBSET Vectors(R)
  BY MapFields
<1>2. MapCX(map, t, c).cols = RowXorAll(map.cols, c, t)
  BY DEF MapCX, RowXorAll
<1>3. MapCX(wide, c, t).cols = RowXorAll(wide.cols, t, c)
  BY DEF MapCX, RowXorAll
<1>4. Span(RowXorAll(wide.cols, t, c)) = RowXorAll(W, t, c)
  BY <1>1, SpanImage
<1>5. Unrelated(RowXorAll(map.cols, c, t))
  BY <1>1, UnrelatedImage DEF Fits
<1>6. \A w \in W : w \oplus {c} \in W /\ w \oplus {t} \in W
  BY <1>1, SpanClosed
<1>7. \A w \in W : RowXor(w, t, c) \in W /\ RowXor(w, c, t) \in W
  BY <1>6 DEF RowXor
<1>8. W \subseteq RowXorAll(W, t, c)
  <2>1. ASSUME NEW w \in W PROVE w \in RowXorAll(W, t, c)
    <3>1. RowXor(w, t, c) \in W /\ RowXor(RowXor(w, t, c), t, c) = w
      BY <1>7, RowXorInvolution
    <3> HIDE DEF W
    <3>2. QED
      BY <3>1 DEF RowXorAll
  <2>2. QED
    BY <2>1
<1>9. RowXorAll(map.cols, c, t) \subseteq W
  BY <1>7 DEF RowXorAll, Fits
<1> HIDE DEF W
<1>10. RowXorAll(map.cols, c, t) \subseteq RowXorAll(W, t, c)
  BY <1>8, <1>9
<1>11. QED
  BY <1>2, <1>3, <1>4, <1>5, <1>8, <1>10 DEF Fits, W

\* An H core in a product comes from one of its factors.
LEMMA ClassifyWide ==
  ASSUME NEW m
  PROVE  Wide(Classify(m)) <=> ~IsDiagonal(m) /\ ~IsAntidiagonal(m)
BY DEF Classify, Wide, Empty

LEMMA NarrowProduct ==
  ASSUME NEW n \in U3Matrices, NEW o \in U3Matrices,
         IsDiagonal(n) \/ IsAntidiagonal(n), IsDiagonal(o) \/ IsAntidiagonal(o)
  PROVE  IsDiagonal(LeftMultiply(n, o)) \/ IsAntidiagonal(LeftMultiply(n, o))
<1>1. /\ n.u00 \in Int /\ n.u01 \in Int /\ n.u10 \in Int /\ n.u11 \in Int
      /\ o.u00 \in Int /\ o.u01 \in Int /\ o.u10 \in Int /\ o.u11 \in Int
  BY DEF U3Matrices, Amps, P17
<1>2. \A k \in Int : k * 0 = 0 /\ 0 * k = 0
  OBVIOUS
<1>3. (0 + 0) % P17 = 0
  BY DEF P17
<1>4. CASE IsDiagonal(n) /\ IsDiagonal(o)
  BY <1>1, <1>2, <1>3, <1>4 DEF IsDiagonal, LeftMultiply
<1>5. CASE IsDiagonal(n) /\ IsAntidiagonal(o)
  BY <1>1, <1>2, <1>3, <1>5 DEF IsDiagonal, IsAntidiagonal, LeftMultiply
<1>6. CASE IsAntidiagonal(n) /\ IsDiagonal(o)
  BY <1>1, <1>2, <1>3, <1>6 DEF IsDiagonal, IsAntidiagonal, LeftMultiply
<1>7. CASE IsAntidiagonal(n) /\ IsAntidiagonal(o)
  BY <1>1, <1>2, <1>3, <1>7 DEF IsDiagonal, IsAntidiagonal, LeftMultiply
<1>8. QED
  BY <1>4, <1>5, <1>6, <1>7

LEMMA NarrowSound ==
  ASSUME NEW p, Sound(p), ~Wide(p)
  PROVE  IsDiagonal(p.matrix) \/ IsAntidiagonal(p.matrix)
BY DEF Sound, Wide, IsDiagonal, Identity

LEMMA MadeNarrow ==
  ASSUME Typed, Absorb, ~Wide(Alone), ~Wide(pending[Step.qs[1]])
  PROVE  ~Wide(Made)
<1> DEFINE n == SingleQubitMatrix(Step)
           o == pending[Step.qs[1]].matrix
<1>1. n \in U3Matrices /\ o \in U3Matrices /\ Step.qs[1] \in Qubits
  BY AbsorbFacts
<1>2. IsDiagonal(n) \/ IsAntidiagonal(n)
  BY ClassifyWide DEF Alone
<1>3. IsDiagonal(o) \/ IsAntidiagonal(o)
  BY <1>1, TypedFacts, NarrowSound
<1> HIDE DEF n, o
<1>4. IsDiagonal(LeftMultiply(n, o)) \/ IsAntidiagonal(LeftMultiply(n, o))
  BY <1>1, <1>2, <1>3, NarrowProduct
<1>5. QED
  BY <1>4, ClassifyWide DEF Made, n, o

\* The maps fit, and what is pending will.
NoWider ==
  /\ Fits(out.agl, Span(plain.cols))
  /\ \A q \in Qubits : Wide(pending[q]) => {q} \in Span(plain.cols)

FittingSet(W) == {o \in EmittedOver(Qubits) : Fits(o.agl, W)}

LEMMA FlushAllFits ==
  ASSUME Typed, NoWider, NEW Q \in SUBSET Qubits
  PROVE  /\ FlushedAll(Q, out) \in EmittedOver(Qubits)
         /\ Fits(FlushedAll(Q, out).agl, Span(plain.cols))
<1> DEFINE W == Span(plain.cols)
           V == FittingSet(W)
<1>1. IsFiniteSet(Qubits) /\ \A q \in Qubits : Sound(pending[q])
  BY TypedFacts
<1>2. IsFiniteSet(Q)
  BY <1>1, FS_Subset
<1>3. out \in V
  BY DEF FittingSet, NoWider, Typed
<1>4. ASSUME NEW x \in Q, NEW v \in V PROVE Flushed(pending[x], x, v) \in V
  <2>1. Sound(pending[x]) /\ pending[x].matrix \in U3Matrices /\ x \in Qubits
    BY <1>1 DEF Sound
  <2>2. v \in EmittedOver(Qubits) /\ v.agl \in MapsOver(Qubits) /\ Fits(v.agl, W)
    BY EmittedFields DEF FittingSet
  <2>3. Wide(pending[x]) => {x} \in W
    BY DEF NoWider
  <2> HIDE DEF W
  <2>4. Fits(Grown(pending[x], x, v.agl), W)
    BY <1>1, <2>1, <2>2, <2>3, GrownFits
  <2>5. Flushed(pending[x], x, v) \in EmittedOver(Qubits)
    BY <2>1, <2>2, FlushedFields
  <2>6. Flushed(pending[x], x, v).agl = Grown(pending[x], x, v.agl)
    BY FlushedMap
  <2>7. QED
    BY <2>4, <2>5, <2>6 DEF FittingSet
<1> HIDE DEF V
<1>5. FlushKeeps(Q, V, out)
  BY <1>2, <1>3, <1>4 DEF FlushKeeps
<1>6. FlushedAll(Q, out) \in V
  BY <1>5, FlushSteps
<1>7. QED
  BY <1>6 DEF V, FittingSet

LEMMA ClearedNarrow ==
  ASSUME NEW Q, NEW q \in Qubits, Wide(Cleared(Q)[q])
  PROVE  q \notin Q /\ Wide(pending[q])
BY DEF Cleared, Wide, Empty

LEMMA NothingFits ==
  ASSUME NEW W
  PROVE  Fits(EmptyMap, W)
BY UnrelatedEmpty DEF Fits, EmptyMap

LEMMA NextNoWider ==
  ASSUME Typed, NoWider, [Next]_vars
  PROVE  NoWider'
<1>1. input' = input /\ Qubits' = Qubits
  BY DEF Next, vars, Qubits
<1>2. SUFFICES /\ Fits(out'.agl, Span(plain'.cols))
               /\ \A q \in Qubits : Wide(pending'[q]) => {q} \in Span(plain'.cols)
  BY <1>1 DEF NoWider
<1>3. /\ IsFiniteSet(Qubits) /\ \A q \in Qubits : Sound(pending[q])
      /\ out \in EmittedOver(Qubits) /\ out.agl \in MapsOver(Qubits) /\ plain \in MapsOver(Qubits)
      /\ pending \in [Qubits -> SoundSet]
  BY TypedFacts, EmittedFields DEF Typed
<1>4. /\ Fits(out.agl, Span(plain.cols))
      /\ \A q \in Qubits : Wide(pending[q]) => {q} \in Span(plain.cols)
  BY DEF NoWider
<1>5. \A Q \in SUBSET Qubits : /\ FlushedAll(Q, out).agl \in MapsOver(Qubits)
                               /\ Fits(FlushedAll(Q, out).agl, Span(plain.cols))
  BY FlushAllFits, EmittedFields
<1>6. CASE vars' = vars
  BY <1>4, <1>6 DEF vars
<1>7. ASSUME NEW i \in input.instructions, ReadGate(i) \/ Barrier(i) \/ Measure(i) \/ Reset(i)
      PROVE  <1>2!1
  <2>1. CASE ReadGate(i)
    BY <1>4, <2>1 DEF ReadGate
  <2>2. CASE Barrier(i)
    <3>1. out' = FlushedAll(Qubits, out) /\ pending' = Cleared(Qubits) /\ plain' = plain
      BY <2>2 DEF Barrier, FlushEverything
    <3>2. QED
      BY <1>5, <3>1, ClearedNarrow
  <2>3. CASE Measure(i)
    <3>1. pending' = Cleared(Qubits) /\ plain' = plain
      BY <2>3 DEF Measure, FlushEverything
    <3>2. PICK b \in BOOLEAN : out' = [FlushedAll(Qubits, out) EXCEPT !.op = Project(@, i.qs[1], b)]
      BY <2>3 DEF Measure
    <3>3. FlushedAll(Qubits, out) \in EmittedOver(Qubits)
      BY TypedFacts
    <3>4. out'.agl = FlushedAll(Qubits, out).agl
      BY <3>2, <3>3, EmittedFields
    <3>5. QED
      BY <1>5, <3>1, <3>4, ClearedNarrow
  <2>4. CASE Reset(i)
    <3>1. out'.agl = EmptyMap /\ pending' = Cleared(Qubits)
      BY <2>4 DEF Reset, FlushEverything
    <3>2. QED
      BY <3>1, NothingFits, ClearedNarrow
  <2>5. QED
    BY <1>7, <2>1, <2>2, <2>3, <2>4
<1>8. CASE Absorb
  <2> DEFINE x == Step.qs[1]
             W == Span(plain.cols)
             U == Span(plain'.cols)
  <2>1. /\ x \in Qubits /\ Sound(Made) /\ Sound(Alone)
        /\ plain' = Grown(Alone, x, plain)
        /\ \/ pending' = [pending EXCEPT ![x] = Made] /\ out' = out
           \/ out' = Flushed(Made, x, out) /\ pending' = Cleared({x})
    BY <1>8, AbsorbFacts
  <2>2. W \subseteq U /\ (Wide(Alone) => {x} \in U)
    BY <1>3, <2>1, MoveFacts
  <2>3. Wide(Made) => {x} \in U
    BY <1>4, <1>8, <2>1, <2>2, MadeNarrow
  <2>4. Fits(out.agl, U)
    BY <1>4, <2>2 DEF Fits
  <2> HIDE DEF x, W, U
  <2>5. ASSUME NEW q \in Qubits, Wide(pending'[q]) PROVE {q} \in U
    <3>1. CASE q = x
      <4>1. CASE pending' = [pending EXCEPT ![x] = Made]
        BY <1>3, <2>3, <2>5, <3>1, <4>1
      <4>2. CASE pending' = Cleared({x})
        BY <2>5, <3>1, <4>2, ClearedNarrow
      <4>3. QED
        BY <2>1, <4>1, <4>2
    <3>2. CASE q # x
      <4>1. Wide(pending[q])
        BY <1>3, <2>1, <2>5, <3>2, ClearedNarrow
      <4>2. {q} \in W
        BY <1>4, <4>1 DEF W
      <4>3. QED
        BY <2>2, <4>2
    <3>3. QED
      BY <3>1, <3>2
  <2>6. Fits(out'.agl, U)
    <3>1. CASE out' = out
      BY <2>4, <3>1
    <3>2. CASE out' = Flushed(Made, x, out)
      <4>1. Fits(Grown(Made, x, out.agl), U)
        BY <1>3, <2>1, <2>3, <2>4, GrownFits
      <4>2. Flushed(Made, x, out).agl = Grown(Made, x, out.agl)
        BY FlushedMap
      <4>3. QED
        BY <3>2, <4>1, <4>2
    <3>3. QED
      BY <2>1, <3>1, <3>2
  <2>7. QED
    BY <2>5, <2>6 DEF U
<1>9. CASE CrossCX
  <2> DEFINE c == Step.qs[1]
             t == Step.qs[2]
  <2>1. /\ TakeStep /\ Step.name = "cx" /\ pending' = pending
        /\ out' = EmitCX(t, c, out) /\ plain' = MapCX(plain, c, t)
        /\ IsExactH(pending[c]) /\ IsExactH(pending[t])
    BY <1>9 DEF CrossCX, CanCross
  <2>2. c \in Qubits /\ t \in Qubits /\ c # t
    BY <2>1, PairFacts
  <2> HIDE DEF c, t
  <2>3. {c} \in Span(plain.cols) /\ {t} \in Span(plain.cols)
    BY <1>4, <2>1, <2>2 DEF IsExactH, Wide
  <2>4. /\ Fits(MapCX(out.agl, t, c), Span(MapCX(plain, c, t).cols))
        /\ Span(plain.cols) \subseteq Span(MapCX(plain, c, t).cols)
    BY <1>3, <1>4, <2>2, <2>3, CrossFits
  <2>5. out'.agl = MapCX(out.agl, t, c)
    BY <2>1 DEF EmitCX
  <2>6. QED
    BY <1>4, <2>1, <2>4, <2>5
<1>10. CASE FlushCX
  <2> DEFINE c == Step.qs[1]
             t == Step.qs[2]
             m == FlushedAll({c, t}, out).agl
  <2>1. /\ TakeStep /\ Step.name = "cx" /\ pending' = Cleared({c, t})
        /\ out' = EmitCX(c, t, FlushedAll({c, t}, out)) /\ plain' = MapCX(plain, c, t)
    BY <1>10 DEF FlushCX
  <2>2. c \in Qubits /\ t \in Qubits /\ c # t
    BY <2>1, PairFacts
  <2> HIDE DEF c, t
  <2>3. m \in MapsOver(Qubits) /\ Fits(m, Span(plain.cols))
    BY <1>5, <2>2
  <2>4. out'.agl = MapCX(m, c, t)
    BY <2>1 DEF EmitCX
  <2> HIDE DEF m
  <2>5. /\ Fits(MapCX(m, c, t), Span(MapCX(plain, c, t).cols))
        /\ \A q \in Qubits : q # c /\ {q} \in Span(plain.cols) => {q} \in Span(MapCX(plain, c, t).cols)
    BY <1>3, <2>2, <2>3, CXFits
  <2>6. ASSUME NEW q \in Qubits, Wide(pending'[q]) PROVE {q} \in Span(plain'.cols)
    <3>1. q \notin {c, t} /\ Wide(pending[q])
      BY <2>1, <2>6, ClearedNarrow
    <3>2. QED
      BY <1>4, <2>1, <2>5, <3>1
  <2>7. QED
    BY <2>1, <2>4, <2>5, <2>6
<1>11. CASE RawGate
  <2> DEFINE Q == {Step.qs[1], Step.qs[2]}
  <2>1. /\ TakeStep /\ Len(Step.qs) = 2 /\ pending' = Cleared(Q) /\ plain' = plain
        /\ out' = EmitRaw(Step, FlushedAll(Q, out))
    BY <1>11 DEF RawGate
  <2>2. Q \in SUBSET Qubits
    BY <2>1, PairFacts
  <2> HIDE DEF Q
  <2>3. out'.agl = FlushedAll(Q, out).agl
    BY <2>1 DEF EmitRaw
  <2>4. QED
    BY <1>4, <1>5, <2>1, <2>2, <2>3, ClearedNarrow
<1>12. QED
  BY <1>6, <1>7, <1>8, <1>9, <1>10, <1>11 DEF Next

LEMMA AlwaysNoWider == Spec => []NoWider
<1>1. Init => NoWider
  BY NothingFits DEF Init, NoWider, Wide, Empty
<1>2. Typed /\ NoWider /\ [Next]_vars => NoWider'
  BY NextNoWider
<1>3. QED
  BY <1>1, <1>2, AlwaysTyped, PTL DEF Spec

\* Optimization pays.  Columns that are independent and lie in the space of the
\* map of the plain circuit are no more than its columns, and that they lie there
\* is kept: an H core is pending only on a qubit the plain map has, and where a
\* pair of exact H gates crosses a CX the plain map has both.
THEOREM BoundaryNeverGrows == Spec => []SupportNeverGrows
<1>1. ASSUME Typed, NoWider PROVE SupportNeverGrows
  <2>1. Qubits \in SUBSET Qubits /\ IsFiniteSet(Qubits)
    BY <1>1, TypedFacts
  <2>2. FlushedAll(Qubits, out) \in EmittedOver(Qubits) /\ Fits(FlushedAll(Qubits, out).agl, Span(plain.cols))
    BY <1>1, <2>1, FlushAllFits
  <2>3. plain.cols \in SUBSET Vectors(Qubits)
    BY <1>1, MapFields DEF Typed
  <2> DEFINE D == FlushedAll(Qubits, out).agl.cols
             C == plain.cols
  <2>4. C \in SUBSET Vectors(Qubits) /\ D \in SUBSET Span(C) /\ Unrelated(D)
    BY <2>2, <2>3 DEF Fits
  <2> HIDE DEF C, D
  <2>5. Cardinality(D) <= Cardinality(C)
    BY <2>1, <2>4, UnrelatedFewest
  <2>6. QED
    BY <2>5 DEF SupportNeverGrows, Width, Final, C, D
<1>2. Typed /\ NoWider => SupportNeverGrows
  BY <1>1
<1>3. QED
  BY <1>2, AlwaysTyped, AlwaysNoWider, PTL

-----------------------------------------------------------------------------
(***************************************************************************)
(* What a sequence of steps makes of a state.                               *)
(***************************************************************************)
RunOf(R, s, f, g, run) ==
  /\ run \in [0 .. Len(s) -> StatesOver(R)]
  /\ run[0] = f /\ run[Len(s)] = g
  /\ \A j \in 1 .. Len(s) : run[j] = GateOn(R, s[j], run[j - 1])

Carries(R, s, f, g) == \E run : RunOf(R, s, f, g, run)

LEMMA CarriesNothing ==
  ASSUME NEW R, NEW f, NEW g
  PROVE  /\ f = g /\ f \in StatesOver(R) => Carries(R, << >>, f, g)
         /\ Carries(R, << >>, f, g) => f = g
<1>1. ASSUME f = g, f \in StatesOver(R) PROVE Carries(R, << >>, f, g)
  <2> DEFINE run == [j \in 0 .. 0 |-> f]
  <2>1. RunOf(R, << >>, f, g, run)
    BY <1>1 DEF RunOf
  <2>2. QED
    BY <2>1 DEF Carries
<1>2. ASSUME Carries(R, << >>, f, g) PROVE f = g
  BY <1>2 DEF Carries, RunOf
<1>3. QED
  BY <1>1, <1>2

LEMMA CarriesOne ==
  ASSUME NEW R, NEW i, GateIn(R, i), NEW f \in StatesOver(R)
  PROVE  Carries(R, <<i>>, f, GateOn(R, i, f))
<1> DEFINE g == GateOn(R, i, f)
           run == [j \in 0 .. 1 |-> IF j = 0 THEN f ELSE g]
<1>1. g \in StatesOver(R)
  BY GateTyped
<1>2. Len(<<i>>) = 1 /\ <<i>>[1] = i
  OBVIOUS
<1> HIDE DEF g
<1>3. run \in [0 .. 1 -> StatesOver(R)] /\ run[0] = f /\ run[1] = g
  BY <1>1
<1> HIDE DEF run
<1>4. \A j \in 1 .. 1 : run[j] = GateOn(R, <<i>>[j], run[j - 1])
  BY <1>2, <1>3 DEF g
<1>5. RunOf(R, <<i>>, f, g, run)
  BY <1>2, <1>3, <1>4 DEF RunOf
<1>6. QED
  BY <1>5 DEF Carries, g

\* The step in front is done, and a global phase is the same all along.
LEMMA CarriesDrops ==
  ASSUME NEW R, NEW s, StepsIn(R, s), s # << >>, NEW f \in StatesOver(R), NEW g,
         Carries(R, s, f, g), NEW k \in Units
  PROVE  Carries(R, Tail(s), Times(R, k, GateOn(R, Head(s), f)), Times(R, k, g))
<1> DEFINE n == Len(s)
           t == Tail(s)
<1>1. /\ n \in Nat /\ n # 0 /\ Head(s) = s[1] /\ Len(t) = n - 1
      /\ \A j \in 1 .. n : StepIn(R, s[j])
      /\ \A j \in 1 .. n - 1 : t[j] = s[j + 1]
  BY StepsShape
<1>2. PICK old : RunOf(R, s, f, g, old)
  BY DEF Carries
<1> HIDE DEF n, t
<1>3. /\ old \in [0 .. n -> StatesOver(R)] /\ old[0] = f /\ old[n] = g
      /\ \A j \in 1 .. n : old[j] = GateOn(R, s[j], old[j - 1])
  BY <1>2 DEF RunOf, n
<1>4. k \in Amps
  BY DEF Units
<1> DEFINE run == [j \in 0 .. n - 1 |-> Times(R, k, old[j + 1])]
<1>5. \A j \in 0 .. n - 1 : old[j + 1] \in StatesOver(R) /\ run[j] = Times(R, k, old[j + 1])
  BY <1>1, <1>3
<1>6. run \in [0 .. n - 1 -> StatesOver(R)]
  BY <1>4, <1>5, TimesTyped
<1> HIDE DEF run
<1>7. run[0] = Times(R, k, GateOn(R, Head(s), f))
  <2>1. 0 \in 0 .. n - 1 /\ 1 \in 1 .. n /\ 0 + 1 = 1 /\ 1 - 1 = 0
    BY <1>1
  <2>2. run[0] = Times(R, k, old[1])
    BY <1>5, <2>1
  <2>3. old[1] = GateOn(R, s[1], old[0])
    BY <1>3, <2>1
  <2>4. QED
    BY <1>1, <1>3, <2>2, <2>3
<1>8. run[n - 1] = Times(R, k, g)
  <2>1. n - 1 \in 0 .. n - 1 /\ (n - 1) + 1 = n
    BY <1>1
  <2>2. QED
    BY <1>3, <1>5, <2>1
<1>9. ASSUME NEW j \in 1 .. n - 1 PROVE run[j] = GateOn(R, t[j], run[j - 1])
  <2>1. /\ j \in 0 .. n - 1 /\ j - 1 \in 0 .. n - 1 /\ (j - 1) + 1 = j
        /\ j + 1 \in 1 .. n /\ (j + 1) - 1 = j
    BY <1>1
  <2>2. run[j] = Times(R, k, old[j + 1]) /\ run[j - 1] = Times(R, k, old[j])
    BY <1>5, <2>1
  <2>3. old[j + 1] = GateOn(R, s[j + 1], old[j]) /\ old[j] \in StatesOver(R)
    BY <1>3, <1>5, <2>1
  <2>4. GateIn(R, s[j + 1])
    BY <1>1, <2>1 DEF StepIn
  <2>5. GateOn(R, s[j + 1], Times(R, k, old[j])) = Times(R, k, GateOn(R, s[j + 1], old[j]))
    BY <1>4, <2>3, <2>4, GateTimes
  <2>6. t[j] = s[j + 1]
    BY <1>1
  <2>7. QED
    BY <2>2, <2>3, <2>5, <2>6
<1>10. RunOf(R, t, Times(R, k, GateOn(R, Head(s), f)), Times(R, k, g), run)
  BY <1>1, <1>6, <1>7, <1>8, <1>9 DEF RunOf
<1>11. QED
  BY <1>10 DEF Carries, t

-----------------------------------------------------------------------------
(***************************************************************************)
(* What is pending on two qubits, and what is pending on the others.        *)
(***************************************************************************)
TwoHeld(R, P, c, t, T, Q, f) ==
  /\ IsFiniteSet(R) /\ Holds(R, P) /\ f \in StatesOver(R)
  /\ c \in R /\ t \in R /\ c # t
  /\ T = (R \ {c}) \ {t} /\ Q = {c, t}

LEMMA HeldPair ==
  ASSUME NEW R, NEW P, NEW c, NEW t, NEW T, NEW Q, NEW f, TwoHeld(R, P, c, t, T, Q, f)
  PROVE  /\ Held(R, P, T, f) \in StatesOver(R)
         /\ Held(R, P, R, f) = OneQubit(R, P[c].matrix, c, OneQubit(R, P[t].matrix, t, Held(R, P, T, f)))
         /\ Held(R, P, Q, f) = OneQubit(R, P[c].matrix, c, OneQubit(R, P[t].matrix, t, f))
<1>0. /\ IsFiniteSet(R) /\ Holds(R, P) /\ f \in StatesOver(R)
      /\ c \in R /\ t \in R /\ c # t
      /\ T = (R \ {c}) \ {t} /\ Q = {c, t}
  BY DEF TwoHeld
<1>1. /\ R \in SUBSET R /\ R \ {c} \in SUBSET R /\ (R \ {c}) \ {t} \in SUBSET R
      /\ {c, t} \in SUBSET R /\ {t} \in SUBSET R /\ {} \in SUBSET R
  BY <1>0
<1>2. Held(R, P, R, f) = OneQubit(R, P[c].matrix, c, Held(R, P, R \ {c}, f))
  BY <1>0, <1>1, HeldSteps
<1>3. Held(R, P, R \ {c}, f) = OneQubit(R, P[t].matrix, t, Held(R, P, (R \ {c}) \ {t}, f))
  <2> DEFINE S == R \ {c}
  <2>1. t \in S /\ S \in SUBSET R
    BY <1>0
  <2> HIDE DEF S
  <2>2. \A x \in S : Held(R, P, S, f) = OneQubit(R, P[x].matrix, x, Held(R, P, S \ {x}, f))
    BY <1>0, <2>1, HeldSteps
  <2>3. Held(R, P, S, f) = OneQubit(R, P[t].matrix, t, Held(R, P, S \ {t}, f))
    BY <2>1, <2>2
  <2>4. QED
    BY <2>3 DEF S
<1>4. Held(R, P, (R \ {c}) \ {t}, f) \in StatesOver(R)
  BY <1>0, <1>1, HeldSteps
<1>5. Held(R, P, {c, t}, f) = OneQubit(R, P[c].matrix, c, Held(R, P, {t}, f))
  <2>1. c \in {c, t} /\ {c, t} \ {c} = {t}
    BY <1>0
  <2>2. Held(R, P, {c, t}, f) = OneQubit(R, P[c].matrix, c, Held(R, P, {c, t} \ {c}, f))
    BY <1>0, <1>1, <2>1, HeldSteps
  <2>3. QED
    BY <2>1, <2>2
<1>6. Held(R, P, {t}, f) = OneQubit(R, P[t].matrix, t, Held(R, P, {}, f))
  <2>1. t \in {t} /\ {t} \ {t} = {}
    BY <1>0
  <2>2. Held(R, P, {t}, f) = OneQubit(R, P[t].matrix, t, Held(R, P, {t} \ {t}, f))
    BY <1>0, <1>1, <2>1, HeldSteps
  <2>3. QED
    BY <2>1, <2>2
<1>7. Held(R, P, {}, f) = f
  BY <1>0, <1>1, HeldSteps
<1>8. QED
  BY <1>0, <1>2, <1>3, <1>4, <1>5, <1>6, <1>7

\* A two-qubit step passes what is pending on the other qubits.
LEMMA HeldStep ==
  ASSUME NEW R, IsFiniteSet(R), NEW P, Holds(R, P), NEW i, StepIn(R, i), i.name \notin OneQubitNames,
         NEW f \in StatesOver(R)
  PROVE  Held(R, P, (R \ {i.qs[1]}) \ {i.qs[2]}, GateOn(R, i, f))
           = GateOn(R, i, Held(R, P, (R \ {i.qs[1]}) \ {i.qs[2]}, f))
<1> DEFINE T == (R \ {i.qs[1]}) \ {i.qs[2]}
           F == [g \in StatesOver(R) |-> GateOn(R, i, g)]
<1>1. GateIn(R, i)
  BY DEF StepIn
<1>2. \A g \in StatesOver(R) : GateOn(R, i, g) \in StatesOver(R)
  BY <1>1, GateTyped
<1>3. F \in [StatesOver(R) -> StatesOver(R)]
  BY <1>2
<1>4. \A g \in StatesOver(R) : F[g] = GateOn(R, i, g)
  OBVIOUS
<1>5. T \in SUBSET R /\ \A q \in T : q \in R /\ q # i.qs[1] /\ q # i.qs[2]
  OBVIOUS
<1> HIDE DEF F, T
<1>6. ASSUME NEW q \in T, NEW g \in StatesOver(R)
      PROVE  OneQubit(R, P[q].matrix, q, F[g]) = F[OneQubit(R, P[q].matrix, q, g)]
  <2>1. P[q].matrix \in U3Matrices /\ q \in R /\ q # i.qs[1] /\ q # i.qs[2]
    BY <1>5 DEF Holds
  <2>2. OneQubit(R, P[q].matrix, q, g) \in StatesOver(R)
    BY <2>1, OneQubitTyped
  <2>3. OneQubit(R, P[q].matrix, q, GateOn(R, i, g)) = GateOn(R, i, OneQubit(R, P[q].matrix, q, g))
    BY <2>1, StepPasses
  <2>4. QED
    BY <1>4, <2>2, <2>3
<1>7. Through(R, P, T, F)
  BY <1>6 DEF Through
<1>8. Held(R, P, T, F[f]) = F[Held(R, P, T, f)]
  BY <1>3, <1>5, <1>7, HeldPasses
<1>9. Held(R, P, T, f) \in StatesOver(R)
  BY <1>5, HeldSteps
<1>10. QED
  BY <1>4, <1>8, <1>9 DEF T

\* So does an operator on one qubit.
LEMMA HeldSingle ==
  ASSUME NEW R, IsFiniteSet(R), NEW P, Holds(R, P), NEW T \in SUBSET R,
         NEW x \in R, x \notin T, NEW u \in U3Matrices, NEW f \in StatesOver(R)
  PROVE  Held(R, P, T, OneQubit(R, u, x, f)) = OneQubit(R, u, x, Held(R, P, T, f))
<1> DEFINE F == [g \in StatesOver(R) |-> OneQubit(R, u, x, g)]
<1>1. F \in [StatesOver(R) -> StatesOver(R)]
  BY OneQubitTyped
<1>2. \A g \in StatesOver(R) : F[g] = OneQubit(R, u, x, g)
  OBVIOUS
<1>3. T \in SUBSET R /\ \A q \in T : q \in R /\ q # x
  OBVIOUS
<1> HIDE DEF F
<1>4. ASSUME NEW q \in T, NEW g \in StatesOver(R)
      PROVE  OneQubit(R, P[q].matrix, q, F[g]) = F[OneQubit(R, P[q].matrix, q, g)]
  <2>1. P[q].matrix \in U3Matrices /\ q \in R /\ q # x
    BY <1>3 DEF Holds
  <2>2. OneQubit(R, P[q].matrix, q, g) \in StatesOver(R)
    BY <2>1, OneQubitTyped
  <2>3. OneQubit(R, P[q].matrix, q, OneQubit(R, u, x, g)) = OneQubit(R, u, x, OneQubit(R, P[q].matrix, q, g))
    BY <2>1, OneQubitsCross
  <2>4. QED
    BY <1>2, <2>2, <2>3
<1>5. Through(R, P, T, F)
  BY <1>4 DEF Through
<1>6. Held(R, P, T, F[f]) = F[Held(R, P, T, f)]
  BY <1>1, <1>3, <1>5, HeldPasses
<1>7. Held(R, P, T, f) \in StatesOver(R)
  BY <1>3, HeldSteps
<1>8. QED
  BY <1>2, <1>6, <1>7

-----------------------------------------------------------------------------
(***************************************************************************)
(* One step on what is emitted and what is pending together.                *)
(***************************************************************************)
PairAt(R, c, t, r) == c \in R /\ t \in R /\ c # t /\ r \in Vectors(R)

LEMMA FlippedPair ==
  ASSUME NEW R, NEW c, NEW t, NEW r, PairAt(R, c, t, r)
  PROVE  /\ r \oplus {c} \in Vectors(R) /\ r \oplus {t} \in Vectors(R)
         /\ (r \oplus {t}) \oplus {c} \in Vectors(R)
         /\ t \in r \oplus {c} <=> t \in r
         /\ t \in r \oplus {t} <=> t \notin r
         /\ c \in r \oplus {c} <=> c \notin r
         /\ c \in r \oplus {t} <=> c \in r
         /\ t \in (r \oplus {t}) \oplus {c} <=> t \notin r
<1>1. c \in R /\ t \in R /\ c # t /\ r \in Vectors(R)
  BY DEF PairAt
<1>2. r \oplus {c} \in Vectors(R) /\ r \oplus {t} \in Vectors(R)
  BY <1>1, Flipped
<1>3. (r \oplus {t}) \oplus {c} \in Vectors(R)
  BY <1>1, <1>2, Flipped
<1>4. /\ t \in r \oplus {c} <=> t \in r
      /\ t \in r \oplus {t} <=> t \notin r
      /\ c \in r \oplus {c} <=> c \notin r
      /\ c \in r \oplus {t} <=> c \in r
  BY <1>1 DEF \oplus
<1>5. t \in (r \oplus {t}) \oplus {c} <=> t \notin r
  BY <1>1 DEF \oplus
<1>6. QED
  BY <1>2, <1>3, <1>4, <1>5

\* Linear combinations with the entries of H, reduced in between.
LEMMA HadamardSums ==
  ASSUME NEW x \in Int, NEW y \in Int
  PROVE  /\ (14 * (x % 17) + 14 * (y % 17)) % 17 = (14 * x + 14 * y) % 17
         /\ (14 * (x % 17) + 3 * (y % 17)) % 17 = (14 * x + 3 * y) % 17
         /\ (14 * x + 3 * y) % 17 = (14 * x - 14 * y) % 17
<1>1. PICK a \in Int : x = 17 * a + (x % 17)
  OBVIOUS
<1>2. PICK b \in Int : y = 17 * b + (y % 17)
  OBVIOUS
<1>3. x % 17 \in Int /\ y % 17 \in Int
  OBVIOUS
<1>4. 14 * x + 14 * y = (14 * (x % 17) + 14 * (y % 17)) + 17 * (14 * a + 14 * b)
  BY <1>1, <1>2, <1>3
<1>5. 14 * x + 3 * y = (14 * (x % 17) + 3 * (y % 17)) + 17 * (14 * a + 3 * b)
  BY <1>1, <1>2, <1>3
<1>6. 14 * x + 3 * y = (14 * x - 14 * y) + 17 * y
  OBVIOUS
<1>7. \A v, w \in Int : (v + 17 * w) % 17 = v % 17
  OBVIOUS
<1>8. QED
  BY <1>3, <1>4, <1>5, <1>6, <1>7

HMat == [u00 |-> 14, u01 |-> 14, u10 |-> 14, u11 |-> 3]

LEMMA HPairs ==
  /\ HMat \in U3Matrices
  /\ \A a, b \in Int : /\ EvenOf(HMat, a, b) = (14 * a + 14 * b) % 17
                       /\ OddOf(HMat, a, b) = (14 * a - 14 * b) % 17
<1>1. HMat \in U3Matrices
  BY DEF HMat, U3Matrices, Amps, P17
<1>2. ASSUME NEW a \in Int, NEW b \in Int
      PROVE /\ EvenOf(HMat, a, b) = (14 * a + 14 * b) % 17
            /\ OddOf(HMat, a, b) = (14 * a - 14 * b) % 17
  BY HadamardSums DEF HMat, EvenOf, OddOf, P17
<1>3. QED
  BY <1>1, <1>2

\* Two H gates one after the other: 14 squared is a half.
LEMMA HReduces ==
  ASSUME NEW a \in Int, NEW b \in Int
  PROVE  /\ (14 * (a % 17) + 14 * (b % 17)) % 17 = (14 * a + 14 * b) % 17
         /\ (14 * (a % 17) - 14 * (b % 17)) % 17 = (14 * a - 14 * b) % 17
<1>1. PICK m \in Int : a = 17 * m + (a % 17)
  OBVIOUS
<1>2. PICK n \in Int : b = 17 * n + (b % 17)
  OBVIOUS
<1>3. a % 17 \in Int /\ b % 17 \in Int
  OBVIOUS
<1>4. /\ 14 * a + 14 * b = (14 * (a % 17) + 14 * (b % 17)) + 17 * (14 * m + 14 * n)
      /\ 14 * a - 14 * b = (14 * (a % 17) - 14 * (b % 17)) + 17 * (14 * m - 14 * n)
  BY <1>1, <1>2, <1>3
<1>5. \A v, u \in Int : (v + 17 * u) % 17 = v % 17
  OBVIOUS
<1>6. QED
  BY <1>3, <1>4, <1>5

LEMMA Multiples17 ==
  ASSUME NEW v \in Int, NEW u \in Int
  PROVE  (v + 17 * u) % 17 = v % 17
OBVIOUS

LEMMA HPlusPlus ==
  ASSUME NEW x \in Int, NEW y \in Int, NEW z \in Int, NEW w \in Int
  PROVE  (14 * ((14 * x + 14 * y) % 17) + 14 * ((14 * z + 14 * w) % 17)) % 17
           = (9 * x + 9 * y + 9 * z + 9 * w) % 17
<1> DEFINE a == 14 * x + 14 * y
           b == 14 * z + 14 * w
           v == 9 * x + 9 * y + 9 * z + 9 * w
           u == 11 * x + 11 * y + 11 * z + 11 * w
<1>1. a \in Int /\ b \in Int /\ v \in Int /\ u \in Int
  OBVIOUS
<1>2. 14 * a + 14 * b = v + 17 * u
  OBVIOUS
<1> HIDE DEF a, b, v, u
<1>3. (14 * (a % 17) + 14 * (b % 17)) % 17 = (14 * a + 14 * b) % 17
  BY <1>1, HReduces
<1>4. (v + 17 * u) % 17 = v % 17
  BY <1>1, Multiples17
<1>5. (14 * (a % 17) + 14 * (b % 17)) % 17 = v % 17
  BY <1>2, <1>3, <1>4
<1>6. QED
  BY <1>5 DEF a, b, v

LEMMA HPlusMinus ==
  ASSUME NEW x \in Int, NEW y \in Int, NEW z \in Int, NEW w \in Int
  PROVE  (14 * ((14 * x + 14 * y) % 17) - 14 * ((14 * z + 14 * w) % 17)) % 17
           = (9 * x + 9 * y - 9 * z - 9 * w) % 17
<1> DEFINE a == 14 * x + 14 * y
           b == 14 * z + 14 * w
           v == 9 * x + 9 * y - 9 * z - 9 * w
           u == 11 * x + 11 * y - 11 * z - 11 * w
<1>1. a \in Int /\ b \in Int /\ v \in Int /\ u \in Int
  OBVIOUS
<1>2. 14 * a - 14 * b = v + 17 * u
  OBVIOUS
<1> HIDE DEF a, b, v, u
<1>3. (14 * (a % 17) - 14 * (b % 17)) % 17 = (14 * a - 14 * b) % 17
  BY <1>1, HReduces
<1>4. (v + 17 * u) % 17 = v % 17
  BY <1>1, Multiples17
<1>5. (14 * (a % 17) - 14 * (b % 17)) % 17 = v % 17
  BY <1>2, <1>3, <1>4
<1>6. QED
  BY <1>5 DEF a, b, v

LEMMA HMinusPlus ==
  ASSUME NEW x \in Int, NEW y \in Int, NEW z \in Int, NEW w \in Int
  PROVE  (14 * ((14 * x - 14 * y) % 17) + 14 * ((14 * z - 14 * w) % 17)) % 17
           = (9 * x - 9 * y + 9 * z - 9 * w) % 17
<1> DEFINE a == 14 * x - 14 * y
           b == 14 * z - 14 * w
           v == 9 * x - 9 * y + 9 * z - 9 * w
           u == 11 * x - 11 * y + 11 * z - 11 * w
<1>1. a \in Int /\ b \in Int /\ v \in Int /\ u \in Int
  OBVIOUS
<1>2. 14 * a + 14 * b = v + 17 * u
  OBVIOUS
<1> HIDE DEF a, b, v, u
<1>3. (14 * (a % 17) + 14 * (b % 17)) % 17 = (14 * a + 14 * b) % 17
  BY <1>1, HReduces
<1>4. (v + 17 * u) % 17 = v % 17
  BY <1>1, Multiples17
<1>5. (14 * (a % 17) + 14 * (b % 17)) % 17 = v % 17
  BY <1>2, <1>3, <1>4
<1>6. QED
  BY <1>5 DEF a, b, v

LEMMA HMinusMinus ==
  ASSUME NEW x \in Int, NEW y \in Int, NEW z \in Int, NEW w \in Int
  PROVE  (14 * ((14 * x - 14 * y) % 17) - 14 * ((14 * z - 14 * w) % 17)) % 17
           = (9 * x - 9 * y - 9 * z + 9 * w) % 17
<1> DEFINE a == 14 * x - 14 * y
           b == 14 * z - 14 * w
           v == 9 * x - 9 * y - 9 * z + 9 * w
           u == 11 * x - 11 * y - 11 * z + 11 * w
<1>1. a \in Int /\ b \in Int /\ v \in Int /\ u \in Int
  OBVIOUS
<1>2. 14 * a - 14 * b = v + 17 * u
  OBVIOUS
<1> HIDE DEF a, b, v, u
<1>3. (14 * (a % 17) - 14 * (b % 17)) % 17 = (14 * a - 14 * b) % 17
  BY <1>1, HReduces
<1>4. (v + 17 * u) % 17 = v % 17
  BY <1>1, Multiples17
<1>5. (14 * (a % 17) - 14 * (b % 17)) % 17 = v % 17
  BY <1>2, <1>3, <1>4
<1>6. QED
  BY <1>5 DEF a, b, v

\* H on two qubits of G, at every basis state.
FourAt(R, L, c, t, G) ==
  \A r \in Vectors(R) :
    LET p == G[r]
        q == G[r \oplus {t}]
        s == G[r \oplus {c}]
        v == G[(r \oplus {t}) \oplus {c}]
    IN /\ c \notin r /\ t \notin r => L[r] = (9 * p + 9 * q + 9 * s + 9 * v) % 17
       /\ c \notin r /\ t \in r => L[r] = (9 * q - 9 * p + 9 * v - 9 * s) % 17
       /\ c \in r /\ t \notin r => L[r] = (9 * s + 9 * v - 9 * p - 9 * q) % 17
       /\ c \in r /\ t \in r => L[r] = (9 * v - 9 * s - 9 * q + 9 * p) % 17

LEMMA TwoHadamards ==
  ASSUME NEW R, NEW c \in R, NEW t \in R, c # t, NEW G \in StatesOver(R)
  PROVE  FourAt(R, OneQubit(R, HMat, c, OneQubit(R, HMat, t, G)), c, t, G)
<1> DEFINE K == OneQubit(R, HMat, t, G)
           L == OneQubit(R, HMat, c, K)
<1>1. K \in StatesOver(R) /\ Mixes(R, K, HMat, t, G) /\ Mixes(R, L, HMat, c, K)
  BY HPairs, OneQubitTyped, OneQubitAt
<1> HIDE DEF K, L
<1>2. \A r \in Vectors(R) : G[r] \in Int /\ K[r] \in Int
  BY <1>1, AmpIsInteger DEF StatesOver
<1>3. ASSUME NEW r \in Vectors(R)
      PROVE  /\ t \notin r => K[r] = (14 * G[r] + 14 * G[r \oplus {t}]) % 17
             /\ t \in r => K[r] = (14 * G[r \oplus {t}] - 14 * G[r]) % 17
             /\ c \notin r => L[r] = (14 * K[r] + 14 * K[r \oplus {c}]) % 17
             /\ c \in r => L[r] = (14 * K[r \oplus {c}] - 14 * K[r]) % 17
  <2>1. r \oplus {t} \in Vectors(R) /\ r \oplus {c} \in Vectors(R)
    BY Flipped
  <2>2. G[r] \in Int /\ G[r \oplus {t}] \in Int /\ K[r] \in Int /\ K[r \oplus {c}] \in Int
    BY <1>2, <2>1
  <2>3. /\ K[r] = IF t \in r THEN OddOf(HMat, G[r \oplus {t}], G[r]) ELSE EvenOf(HMat, G[r], G[r \oplus {t}])
        /\ L[r] = IF c \in r THEN OddOf(HMat, K[r \oplus {c}], K[r]) ELSE EvenOf(HMat, K[r], K[r \oplus {c}])
    BY <1>1 DEF Mixes
  <2>4. /\ EvenOf(HMat, G[r], G[r \oplus {t}]) = (14 * G[r] + 14 * G[r \oplus {t}]) % 17
        /\ OddOf(HMat, G[r \oplus {t}], G[r]) = (14 * G[r \oplus {t}] - 14 * G[r]) % 17
    BY <2>2, HPairs
  <2>5. /\ EvenOf(HMat, K[r], K[r \oplus {c}]) = (14 * K[r] + 14 * K[r \oplus {c}]) % 17
        /\ OddOf(HMat, K[r \oplus {c}], K[r]) = (14 * K[r \oplus {c}] - 14 * K[r]) % 17
    BY <2>2, HPairs
  <2>6. QED
    BY <2>3, <2>4, <2>5
<1>4. SUFFICES ASSUME NEW r \in Vectors(R)
               PROVE  LET p == G[r]
                          q == G[r \oplus {t}]
                          s == G[r \oplus {c}]
                          v == G[(r \oplus {t}) \oplus {c}]
                      IN /\ c \notin r /\ t \notin r => L[r] = (9 * p + 9 * q + 9 * s + 9 * v) % 17
                         /\ c \notin r /\ t \in r => L[r] = (9 * q - 9 * p + 9 * v - 9 * s) % 17
                         /\ c \in r /\ t \notin r => L[r] = (9 * s + 9 * v - 9 * p - 9 * q) % 17
                         /\ c \in r /\ t \in r => L[r] = (9 * v - 9 * s - 9 * q + 9 * p) % 17
  BY DEF FourAt, K, L
<1>50. PairAt(R, c, t, r)
  BY DEF PairAt
<1>51. /\ r \oplus {t} \in Vectors(R) /\ r \oplus {c} \in Vectors(R) /\ (r \oplus {t}) \oplus {c} \in Vectors(R)
       /\ t \in r \oplus {c} <=> t \in r
  BY <1>50, FlippedPair
<1>5. (r \oplus {c}) \oplus {t} = (r \oplus {t}) \oplus {c}
  BY DEF \oplus
<1>6. PICK p \in Int, q \in Int, s \in Int, v \in Int :
        p = G[r] /\ q = G[r \oplus {t}] /\ s = G[r \oplus {c}] /\ v = G[(r \oplus {t}) \oplus {c}]
  BY <1>2, <1>51
<1>7. /\ t \notin r => K[r] = (14 * p + 14 * q) % 17 /\ K[r \oplus {c}] = (14 * s + 14 * v) % 17
      /\ t \in r => K[r] = (14 * q - 14 * p) % 17 /\ K[r \oplus {c}] = (14 * v - 14 * s) % 17
  BY <1>3, <1>5, <1>51, <1>6
<1>8. /\ c \notin r => L[r] = (14 * K[r] + 14 * K[r \oplus {c}]) % 17
      /\ c \in r => L[r] = (14 * K[r \oplus {c}] - 14 * K[r]) % 17
  BY <1>3
<1>9. CASE c \notin r /\ t \notin r
  <2>1. L[r] = (14 * ((14 * p + 14 * q) % 17) + 14 * ((14 * s + 14 * v) % 17)) % 17
    BY <1>7, <1>8, <1>9
  <2>2. L[r] = (9 * p + 9 * q + 9 * s + 9 * v) % 17
    BY <2>1, HPlusPlus
  <2>3. QED
    BY <1>6, <1>9, <2>2
<1>10. CASE c \notin r /\ t \in r
  <2>1. L[r] = (14 * ((14 * q - 14 * p) % 17) + 14 * ((14 * v - 14 * s) % 17)) % 17
    BY <1>7, <1>8, <1>10
  <2>2. L[r] = (9 * q - 9 * p + 9 * v - 9 * s) % 17
    BY <2>1, HMinusPlus
  <2>3. QED
    BY <1>6, <1>10, <2>2
<1>11. CASE c \in r /\ t \notin r
  <2>1. L[r] = (14 * ((14 * s + 14 * v) % 17) - 14 * ((14 * p + 14 * q) % 17)) % 17
    BY <1>7, <1>8, <1>11
  <2>2. L[r] = (9 * s + 9 * v - 9 * p - 9 * q) % 17
    BY <2>1, HPlusMinus
  <2>3. QED
    BY <1>6, <1>11, <2>2
<1>12. CASE c \in r /\ t \in r
  <2>1. L[r] = (14 * ((14 * v - 14 * s) % 17) - 14 * ((14 * q - 14 * p) % 17)) % 17
    BY <1>7, <1>8, <1>12
  <2>2. L[r] = (9 * v - 9 * s - 9 * q + 9 * p) % 17
    BY <2>1, HMinusMinus
  <2>3. QED
    BY <1>6, <1>12, <2>2
<1>13. QED
  BY <1>9, <1>10, <1>11, <1>12

\* A pair of H gates crosses a CX, which turns round.
LEMMA HadamardsCross ==
  ASSUME NEW R, NEW c \in R, NEW t \in R, c # t, NEW G \in StatesOver(R)
  PROVE  OneQubit(R, HMat, c, OneQubit(R, HMat, t, GateOn(R, CX(t, c), G)))
           = GateOn(R, CX(c, t), OneQubit(R, HMat, c, OneQubit(R, HMat, t, G)))
<1> DEFINE M == GateOn(R, CX(t, c), G)
           A == OneQubit(R, HMat, c, OneQubit(R, HMat, t, M))
           B == OneQubit(R, HMat, c, OneQubit(R, HMat, t, G))
           E == GateOn(R, CX(c, t), B)
<1>1. GateIn(R, CX(t, c)) /\ GateIn(R, CX(c, t))
  BY CXStep DEF StepIn
<1>2. M \in StatesOver(R) /\ A \in StatesOver(R) /\ B \in StatesOver(R)
  BY <1>1, GateTyped, HPairs, OneQubitTyped
<1>3. E \in StatesOver(R)
  BY <1>1, <1>2, GateTyped
<1>4. FourAt(R, A, c, t, M) /\ FourAt(R, B, c, t, G)
  BY <1>2, TwoHadamards
<1>5. M = Moved(R, SourceOf(R, CX(t, c)), G) /\ E = Moved(R, SourceOf(R, CX(c, t)), B)
  BY DEF GateOn, CX, Instr, OneQubitNames, MovingNames
<1>6. \A r \in Vectors(R) : /\ M[r] = IF t \in r THEN G[r \oplus {c}] ELSE G[r]
                            /\ E[r] = IF c \in r THEN B[r \oplus {t}] ELSE B[r]
  BY <1>5 DEF Moved, SourceOf, Source, CX, Instr
<1> HIDE DEF M, A, B, E
<1>7. \A r \in Vectors(R) : G[r] \in Int
  BY AmpIsInteger DEF StatesOver
<1>8. ASSUME NEW r \in Vectors(R) PROVE A[r] = E[r]
  <2>0. PairAt(R, c, t, r)
    BY DEF PairAt
  <2>1. /\ r \oplus {c} \in Vectors(R) /\ r \oplus {t} \in Vectors(R)
        /\ (r \oplus {t}) \oplus {c} \in Vectors(R)
        /\ t \in r \oplus {c} <=> t \in r
        /\ t \in r \oplus {t} <=> t \notin r
        /\ t \in (r \oplus {t}) \oplus {c} <=> t \notin r
        /\ c \in r \oplus {t} <=> c \in r
    BY <2>0, FlippedPair
  <2>2. /\ (r \oplus {c}) \oplus {c} = r /\ (r \oplus {t}) \oplus {t} = r
        /\ ((r \oplus {t}) \oplus {c}) \oplus {c} = r \oplus {t}
    BY XorCancel
  <2> DEFINE rt == r \oplus {t}
             rc == r \oplus {c}
             rtc == (r \oplus {t}) \oplus {c}
  <2>3. /\ rt \in Vectors(R) /\ rc \in Vectors(R) /\ rtc \in Vectors(R)
        /\ t \in rc <=> t \in r
        /\ t \in rt <=> t \notin r
        /\ t \in rtc <=> t \notin r
        /\ c \in rt <=> c \in r
    BY <2>1
  <2>30. rc \oplus {c} = r /\ rtc \oplus {c} = rt /\ rt \oplus {t} = r /\ rt \oplus {c} = rtc
    BY <2>2
  <2>31. (rt \oplus {t}) \oplus {c} = rc
    BY <2>30
  <2>4. PICK p \in Int, q \in Int, s \in Int, v \in Int :
          p = G[r] /\ q = G[rt] /\ s = G[rc] /\ v = G[rtc]
    BY <1>7, <2>3
  <2> HIDE DEF rt, rc, rtc
  <2>5. /\ M[r] = IF t \in r THEN s ELSE p
        /\ M[rt] = IF t \in r THEN q ELSE v
        /\ M[rc] = IF t \in r THEN p ELSE s
        /\ M[rtc] = IF t \in r THEN v ELSE q
    <3>1. M[r] = IF t \in r THEN s ELSE p
      BY <1>6, <2>4 DEF rc
    <3>2. M[rt] = IF t \in rt THEN G[rt \oplus {c}] ELSE G[rt]
      BY <1>6, <2>3
    <3>3. M[rc] = IF t \in rc THEN G[rc \oplus {c}] ELSE G[rc]
      BY <1>6, <2>3
    <3>4. M[rtc] = IF t \in rtc THEN G[rtc \oplus {c}] ELSE G[rtc]
      BY <1>6, <2>3
    <3>5. QED
      BY <2>3, <2>30, <2>4, <3>1, <3>2, <3>3, <3>4
  <2>6. /\ c \notin r /\ t \notin r => A[r] = (9 * M[r] + 9 * M[rt] + 9 * M[rc] + 9 * M[rtc]) % 17
        /\ c \notin r /\ t \in r => A[r] = (9 * M[rt] - 9 * M[r] + 9 * M[rtc] - 9 * M[rc]) % 17
        /\ c \in r /\ t \notin r => A[r] = (9 * M[rc] + 9 * M[rtc] - 9 * M[r] - 9 * M[rt]) % 17
        /\ c \in r /\ t \in r => A[r] = (9 * M[rtc] - 9 * M[rc] - 9 * M[rt] + 9 * M[r]) % 17
    BY <1>4 DEF FourAt, rt, rc, rtc
  <2>7. /\ c \notin r /\ t \notin r => B[r] = (9 * p + 9 * q + 9 * s + 9 * v) % 17
        /\ c \notin r /\ t \in r => B[r] = (9 * q - 9 * p + 9 * v - 9 * s) % 17
    BY <1>4, <2>4 DEF FourAt, rt, rc, rtc
  <2>8. /\ c \in rt /\ t \notin rt => B[rt] = (9 * G[rt \oplus {c}] + 9 * G[(rt \oplus {t}) \oplus {c}] - 9 * G[rt] - 9 * G[rt \oplus {t}]) % 17
        /\ c \in rt /\ t \in rt => B[rt] = (9 * G[(rt \oplus {t}) \oplus {c}] - 9 * G[rt \oplus {c}] - 9 * G[rt \oplus {t}] + 9 * G[rt]) % 17
    BY <1>4, <2>3 DEF FourAt
  <2>9. /\ c \in r /\ t \in r => B[rt] = (9 * v + 9 * s - 9 * q - 9 * p) % 17
        /\ c \in r /\ t \notin r => B[rt] = (9 * s - 9 * v - 9 * p + 9 * q) % 17
    <3>1. G[rt \oplus {c}] = v /\ G[(rt \oplus {t}) \oplus {c}] = s /\ G[rt] = q /\ G[rt \oplus {t}] = p
      BY <2>30, <2>31, <2>4
    <3>2. QED
      BY <2>3, <2>8, <3>1
  <2>10. /\ c \notin r => E[r] = B[r]
         /\ c \in r => E[r] = B[rt]
    BY <1>6 DEF rt
  <2>11. CASE c \notin r /\ t \notin r
    <3>1. A[r] = (9 * p + 9 * v + 9 * s + 9 * q) % 17
      BY <2>5, <2>6, <2>11
    <3>2. QED
      BY <2>7, <2>10, <2>11, <3>1
  <2>12. CASE c \notin r /\ t \in r
    <3>1. A[r] = (9 * q - 9 * s + 9 * v - 9 * p) % 17
      BY <2>5, <2>6, <2>12
    <3>2. QED
      BY <2>7, <2>10, <2>12, <3>1
  <2>13. CASE c \in r /\ t \notin r
    <3>1. A[r] = (9 * s + 9 * q - 9 * p - 9 * v) % 17
      BY <2>5, <2>6, <2>13
    <3>2. QED
      BY <2>9, <2>10, <2>13, <3>1
  <2>14. CASE c \in r /\ t \in r
    <3>1. A[r] = (9 * v - 9 * p - 9 * q + 9 * s) % 17
      BY <2>5, <2>6, <2>14
    <3>2. QED
      BY <2>9, <2>10, <2>14, <3>1
  <2>15. QED
    BY <2>11, <2>12, <2>13, <2>14
<1>9. A = E
  BY <1>2, <1>3, <1>8, SameState
<1>10. QED
  BY <1>9 DEF A, E, M, B

-----------------------------------------------------------------------------
(***************************************************************************)
(* The steps of the scan, on one column.                                    *)
(***************************************************************************)
SameBut(R, O, P, Q) == \A q \in R \ Q : O[q].matrix = P[q].matrix

\* Another operator is pending on one qubit.
LEMMA HeldOther ==
  ASSUME NEW R, IsFiniteSet(R), NEW P, Holds(R, P), NEW O, Holds(R, O), NEW x \in R,
         SameBut(R, O, P, {x}), NEW f \in StatesOver(R)
  PROVE  Held(R, O, R, f) = OneQubit(R, O[x].matrix, x, Held(R, P, R \ {x}, f))
<1> DEFINE T == R \ {x}
<1>1. R \in SUBSET R /\ T \in SUBSET R
  OBVIOUS
<1>2. \A q \in T : O[q].matrix = P[q].matrix
  BY DEF SameBut
<1>3. Held(R, O, R, f) = OneQubit(R, O[x].matrix, x, Held(R, O, T, f))
  BY <1>1, HeldSteps
<1> HIDE DEF T
<1>4. Held(R, O, T, f) = Held(R, P, T, f)
  BY <1>1, <1>2, HeldSame
<1>5. QED
  BY <1>3, <1>4 DEF T

\* A flush of one qubit, after which nothing is pending there.
LEMMA HeldFlushed ==
  ASSUME NEW R, IsFiniteSet(R), NEW P, Holds(R, P), NEW O, Holds(R, O), NEW x \in R,
         SameBut(R, O, P, {x}), O[x].matrix = Identity, NEW u \in U3Matrices, NEW f \in StatesOver(R)
  PROVE  Held(R, O, R, OneQubit(R, u, x, f)) = OneQubit(R, u, x, Held(R, P, R \ {x}, f))
<1> DEFINE T == R \ {x}
           g == OneQubit(R, u, x, f)
<1>1. T \in SUBSET R /\ x \notin T
  OBVIOUS
<1>2. g \in StatesOver(R)
  BY OneQubitTyped
<1> HIDE DEF g
<1>3. Held(R, O, R, g) = OneQubit(R, O[x].matrix, x, Held(R, P, T, g))
  BY <1>2, HeldOther, SMTT(30)
<1> HIDE DEF T
<1>4. Held(R, P, T, g) \in StatesOver(R)
  BY <1>1, <1>2, HeldSteps
<1>5. Held(R, O, R, g) = Held(R, P, T, g)
  BY <1>3, <1>4, OneQubitIdentity
<1>6. Held(R, P, T, g) = OneQubit(R, u, x, Held(R, P, T, f))
  BY <1>1, HeldSingle DEF g
<1>7. QED
  BY <1>5, <1>6 DEF g, T

\* A two-qubit step once its qubits are flushed.
LEMMA PairState ==
  ASSUME NEW R, IsFiniteSet(R), NEW P, Holds(R, P), NEW O, Holds(R, O), NEW i, StepIn(R, i),
         i.name \notin OneQubitNames, SameBut(R, O, P, {i.qs[1], i.qs[2]}),
         O[i.qs[1]].matrix = Identity, O[i.qs[2]].matrix = Identity, NEW f \in StatesOver(R)
  PROVE  Held(R, O, R, GateOn(R, i, Held(R, P, {i.qs[1], i.qs[2]}, f)))
           = GateOn(R, i, Held(R, P, R, f))
<1>1. PICK c, t : c = i.qs[1] /\ t = i.qs[2]
  OBVIOUS
<1>2. GateIn(R, i) /\ c \in R /\ t \in R /\ c # t
  BY <1>1, GateShape DEF StepIn
<1> DEFINE T == (R \ {c}) \ {t}
           Q == {c, t}
           g == Held(R, P, Q, f)
           h == GateOn(R, i, g)
           G == Held(R, P, T, f)
           one == OneQubit(R, P[t].matrix, t, f)
<1>3. T \in SUBSET R /\ Q \in SUBSET R /\ c \notin T /\ t \notin T
  BY <1>2
<1>4. g \in StatesOver(R) /\ G \in StatesOver(R)
  BY <1>3, HeldSteps
<1>5. h \in StatesOver(R)
  BY <1>2, <1>4, GateTyped
<1>6. Holds(R, P) /\ P[c].matrix \in U3Matrices /\ P[t].matrix \in U3Matrices
  BY <1>2 DEF Holds
<1>7. one \in StatesOver(R)
  BY <1>2, <1>6, OneQubitTyped
<1>70. TwoHeld(R, P, c, t, T, Q, f) /\ TwoHeld(R, O, c, t, T, Q, h)
  BY <1>2, <1>5 DEF TwoHeld
<1> HIDE DEF T, Q, h
<1>8. g = OneQubit(R, P[c].matrix, c, one)
  BY <1>70, HeldPair
<1>9. Held(R, P, R, f) = OneQubit(R, P[c].matrix, c, OneQubit(R, P[t].matrix, t, G))
  BY <1>70, HeldPair
<1> HIDE DEF g, G, one
<1>10. Held(R, O, R, h) = Held(R, O, T, h)
  <2>1. /\ Held(R, O, T, h) \in StatesOver(R)
        /\ Held(R, O, R, h)
             = OneQubit(R, O[c].matrix, c, OneQubit(R, O[t].matrix, t, Held(R, O, T, h)))
    BY <1>70, HeldPair
  <2>2. O[c].matrix = Identity /\ O[t].matrix = Identity
    BY <1>1
  <2>3. OneQubit(R, Identity, t, Held(R, O, T, h)) = Held(R, O, T, h)
    BY <1>2, <2>1, OneQubitIdentity
  <2>4. OneQubit(R, Identity, c, Held(R, O, T, h)) = Held(R, O, T, h)
    BY <1>2, <2>1, OneQubitIdentity
  <2>5. QED
    BY <2>1, <2>2, <2>3, <2>4
<1>11. Held(R, O, T, h) = Held(R, P, T, h)
  <2>1. \A q \in T : O[q].matrix = P[q].matrix
    BY <1>1 DEF SameBut, T
  <2>2. QED
    BY <1>3, <1>5, <2>1, HeldSame
<1>12. Held(R, P, T, h) = GateOn(R, i, Held(R, P, T, g))
  <2>1. Held(R, P, (R \ {i.qs[1]}) \ {i.qs[2]}, GateOn(R, i, g))
          = GateOn(R, i, Held(R, P, (R \ {i.qs[1]}) \ {i.qs[2]}, g))
    BY <1>4, HeldStep
  <2>2. QED
    BY <1>1, <2>1 DEF T, h
<1>13. Held(R, P, T, g) = OneQubit(R, P[c].matrix, c, Held(R, P, T, one))
  <2>1. Held(R, P, T, OneQubit(R, P[c].matrix, c, one)) = OneQubit(R, P[c].matrix, c, Held(R, P, T, one))
    BY <1>2, <1>3, <1>6, <1>7, HeldSingle
  <2>2. QED
    BY <1>8, <2>1
<1>14. Held(R, P, T, one) = OneQubit(R, P[t].matrix, t, G)
  BY <1>2, <1>3, <1>6, HeldSingle DEF one, G
<1>15. Held(R, O, R, h) = GateOn(R, i, Held(R, P, R, f))
  BY <1>9, <1>10, <1>11, <1>12, <1>13, <1>14
<1>16. QED
  BY <1>1, <1>15 DEF h, g, Q

\* A CX emitted the other way round under a pair of exact H gates.
LEMMA CrossState ==
  ASSUME NEW R, IsFiniteSet(R), NEW P, Holds(R, P), NEW c \in R, NEW t \in R, c # t,
         P[c].matrix = HMat, P[t].matrix = HMat, NEW f \in StatesOver(R)
  PROVE  Held(R, P, R, GateOn(R, CX(t, c), f)) = GateOn(R, CX(c, t), Held(R, P, R, f))
<1> DEFINE T == (R \ {c}) \ {t}
           h == GateOn(R, CX(t, c), f)
           G == Held(R, P, T, f)
<1>1. StepIn(R, CX(t, c)) /\ GateIn(R, CX(t, c))
  BY CXStep DEF StepIn
<1>2. h \in StatesOver(R)
  BY <1>1, GateTyped
<1>20. TwoHeld(R, P, c, t, T, {c, t}, f) /\ TwoHeld(R, P, c, t, T, {c, t}, h)
  BY <1>2 DEF TwoHeld
<1> HIDE DEF h, T
<1>3. /\ G \in StatesOver(R)
      /\ Held(R, P, R, f) = OneQubit(R, HMat, c, OneQubit(R, HMat, t, G))
  BY <1>20, HeldPair
<1>4. Held(R, P, R, h) = OneQubit(R, HMat, c, OneQubit(R, HMat, t, Held(R, P, T, h)))
  BY <1>20, HeldPair
<1>5. Held(R, P, T, h) = GateOn(R, CX(t, c), G)
  <2>1. PICK i : i = CX(t, c)
    OBVIOUS
  <2>2. i.name \notin OneQubitNames /\ i.qs[1] = t /\ i.qs[2] = c
    BY <2>1 DEF CX, Instr, OneQubitNames
  <2>3. Held(R, P, (R \ {i.qs[1]}) \ {i.qs[2]}, GateOn(R, i, f))
          = GateOn(R, i, Held(R, P, (R \ {i.qs[1]}) \ {i.qs[2]}, f))
    BY <1>1, <2>1, <2>2, HeldStep
  <2>4. (R \ {t}) \ {c} = T
    BY DEF T
  <2>5. QED
    BY <2>1, <2>2, <2>3, <2>4 DEF h
<1> HIDE DEF G
<1>6. OneQubit(R, HMat, c, OneQubit(R, HMat, t, GateOn(R, CX(t, c), G)))
        = GateOn(R, CX(c, t), OneQubit(R, HMat, c, OneQubit(R, HMat, t, G)))
  BY <1>3, HadamardsCross
<1>7. QED
  BY <1>3, <1>4, <1>5, <1>6 DEF h

-----------------------------------------------------------------------------
(***************************************************************************)
(* Sequences of cx and phase gates: every amplitude comes from one place    *)
(* and turns by one angle, which are followed step by step.                 *)
(***************************************************************************)
LEMMA CarriesJoin ==
  ASSUME NEW R, NEW s, StepsIn(R, s), NEW u, StepsIn(R, u), NEW f, NEW g, NEW h,
         Carries(R, s, f, g), Carries(R, u, g, h)
  PROVE  Carries(R, s \o u, f, h)
<1> DEFINE n == Len(s)
           m == Len(u)
<1>1. n \in Nat /\ m \in Nat /\ s \in Seq(StepSet(R)) /\ u \in Seq(StepSet(R))
  BY DEF StepsIn
<1>2. PICK p : RunOf(R, s, f, g, p)
  BY DEF Carries
<1>3. PICK q : RunOf(R, u, g, h, q)
  BY DEF Carries
<1>4. /\ Len(s \o u) = n + m
      /\ \A j \in 1 .. n + m : (s \o u)[j] = IF j <= n THEN s[j] ELSE u[j - n]
  BY <1>1
<1> DEFINE w == s \o u
<1> HIDE DEF n, m, w
<1>5. /\ p \in [0 .. n -> StatesOver(R)] /\ p[0] = f /\ p[n] = g
      /\ \A j \in 1 .. n : p[j] = GateOn(R, s[j], p[j - 1])
  BY <1>2 DEF RunOf, n
<1>6. /\ q \in [0 .. m -> StatesOver(R)] /\ q[0] = g /\ q[m] = h
      /\ \A j \in 1 .. m : q[j] = GateOn(R, u[j], q[j - 1])
  BY <1>3 DEF RunOf, m
<1> DEFINE run == [j \in 0 .. n + m |-> IF j <= n THEN p[j] ELSE q[j - n]]
<1>7. \A j \in 0 .. n + m : /\ j <= n => run[j] = p[j] /\ run[j] \in StatesOver(R)
                            /\ j >= n => run[j] = q[j - n] /\ run[j] \in StatesOver(R)
  <2>1. ASSUME NEW j \in 0 .. n + m, j <= n PROVE run[j] = p[j] /\ run[j] \in StatesOver(R)
    BY <1>1, <1>5, <2>1
  <2>2. ASSUME NEW j \in 0 .. n + m, j > n PROVE run[j] = q[j - n] /\ run[j] \in StatesOver(R)
    <3>1. j - n \in 0 .. m /\ ~(j <= n)
      BY <1>1, <2>2
    <3>2. QED
      BY <1>6, <3>1
  <2>3. n - n = 0 /\ p[n] = q[0]
    BY <1>1, <1>5, <1>6
  <2>4. QED
    BY <1>1, <2>1, <2>2, <2>3
<1>8. run \in [0 .. n + m -> StatesOver(R)]
  <2>1. ASSUME NEW j \in 0 .. n + m PROVE run[j] \in StatesOver(R)
    <3>1. j <= n \/ j >= n
      BY <1>1
    <3>2. QED
      BY <1>7, <3>1
  <2>2. run = [j \in 0 .. n + m |-> run[j]]
    OBVIOUS
  <2> HIDE DEF run
  <2>3. QED
    BY <2>1, <2>2
<1> HIDE DEF run
<1>9. run[0] = f /\ run[n + m] = h
  <2>1. 0 \in 0 .. n + m /\ n + m \in 0 .. n + m /\ 0 <= n /\ n + m >= n /\ (n + m) - n = m
    BY <1>1
  <2>2. QED
    BY <1>5, <1>6, <1>7, <2>1
<1>10. ASSUME NEW j \in 1 .. n + m PROVE run[j] = GateOn(R, w[j], run[j - 1])
  <2>1. j \in 0 .. n + m /\ j - 1 \in 0 .. n + m
    BY <1>1
  <2>2. CASE j <= n
    <3>1. j \in 1 .. n /\ j - 1 <= n
      BY <1>1, <2>2
    <3>2. run[j] = p[j] /\ run[j - 1] = p[j - 1] /\ w[j] = s[j]
      BY <1>4, <1>7, <2>1, <2>2, <3>1 DEF w
    <3>3. QED
      BY <1>5, <3>1, <3>2
  <2>3. CASE j > n
    <3>1. j - n \in 1 .. m /\ j >= n /\ j - 1 >= n /\ (j - 1) - n = (j - n) - 1 /\ ~(j <= n)
      BY <1>1, <2>3
    <3>2. run[j] = q[j - n] /\ run[j - 1] = q[(j - n) - 1] /\ w[j] = u[j - n]
      BY <1>4, <1>7, <2>1, <3>1 DEF w
    <3>3. QED
      BY <1>6, <3>1, <3>2
  <2>4. QED
    BY <1>1, <2>2, <2>3
<1>11. Len(w) = n + m
  BY <1>4 DEF w
<1>12. RunOf(R, w, f, h, run)
  BY <1>8, <1>9, <1>10, <1>11 DEF RunOf
<1>13. QED
  BY <1>12 DEF Carries, w

LEMMA CarriesThree ==
  ASSUME NEW R, NEW i, StepIn(R, i), NEW j, StepIn(R, j), NEW k, StepIn(R, k),
         NEW f \in StatesOver(R)
  PROVE  Carries(R, <<i, j, k>>, f, GateOn(R, k, GateOn(R, j, GateOn(R, i, f))))
<1> DEFINE g == GateOn(R, i, f)
           h == GateOn(R, j, g)
           l == GateOn(R, k, h)
<1>1. GateIn(R, i) /\ GateIn(R, j) /\ GateIn(R, k)
  BY DEF StepIn
<1>2. g \in StatesOver(R)
  BY <1>1, GateTyped
<1>3. h \in StatesOver(R)
  BY <1>1, <1>2, GateTyped
<1>4. l \in StatesOver(R)
  BY <1>1, <1>3, GateTyped
<1> DEFINE run == [n \in 0 .. 3 |-> IF n = 0 THEN f ELSE IF n = 1 THEN g ELSE IF n = 2 THEN h ELSE l]
           s == <<i, j, k>>
<1> HIDE DEF g, h, l
<1>5. run \in [0 .. 3 -> StatesOver(R)] /\ run[0] = f /\ run[1] = g /\ run[2] = h /\ run[3] = l
  BY <1>2, <1>3, <1>4
<1>6. Len(s) = 3 /\ s[1] = i /\ s[2] = j /\ s[3] = k
  OBVIOUS
<1> HIDE DEF run, s
<1>7. g = GateOn(R, i, f) /\ h = GateOn(R, j, g) /\ l = GateOn(R, k, h)
  BY DEF g, h, l
<1>8. ASSUME NEW n \in 1 .. 3 PROVE run[n] = GateOn(R, s[n], run[n - 1])
  <2>1. n = 1 \/ n = 2 \/ n = 3
    OBVIOUS
  <2>2. run[1] = GateOn(R, s[1], run[1 - 1])
    BY <1>5, <1>6, <1>7
  <2>3. run[2] = GateOn(R, s[2], run[2 - 1])
    BY <1>5, <1>6, <1>7
  <2>4. run[3] = GateOn(R, s[3], run[3 - 1])
    BY <1>5, <1>6, <1>7
  <2>5. QED
    BY <2>1, <2>2, <2>3, <2>4
<1>9. RunOf(R, s, f, l, run)
  BY <1>5, <1>6, <1>8 DEF RunOf
<1>10. Carries(R, s, f, l)
  BY <1>9 DEF Carries
<1>11. QED
  BY <1>7, <1>10 DEF s

Traced(R, A, S, f) == [r \in Vectors(R) |-> (Zeta[A[r] % 16] * f[S[r]]) % P17]
Traces(R, A, S) == A \in [Vectors(R) -> Int] /\ S \in [Vectors(R) -> Vectors(R)]

LEMMA TracedTyped ==
  ASSUME NEW R, NEW A, NEW S, Traces(R, A, S), NEW f \in StatesOver(R)
  PROVE  /\ Traced(R, A, S, f) \in StatesOver(R)
         /\ \A r \in Vectors(R) : Traced(R, A, S, f)[r] = (Zeta[A[r] % 16] * f[S[r]]) % P17
<1>1. ASSUME NEW r \in Vectors(R) PROVE (Zeta[A[r] % 16] * f[S[r]]) % P17 \in Amps
  <2>1. A[r] \in Int /\ f[S[r]] \in Amps
    BY DEF Traces, StatesOver
  <2>2. Zeta[A[r] % 16] \in Amps
    BY <2>1, RootAmp
  <2> DEFINE z == Zeta[A[r] % 16]
             y == f[S[r]]
  <2> HIDE DEF z, y
  <2>3. (z * y) % P17 \in Amps
    BY <2>1, <2>2, ProductAmp DEF z, y
  <2>4. QED
    BY <2>3 DEF z, y
<1>2. QED
  BY <1>1 DEF Traced, StatesOver

\* A cx moves both, a phase gate turns the angle.
MovesTo(R, c, t, A, S, B, T) ==
  \A r \in Vectors(R) : B[r] = A[RowXor(r, t, c)] /\ T[r] = S[RowXor(r, t, c)]
TurnsTo(R, q, theta, A, B) ==
  \A r \in Vectors(R) : B[r] = A[r] + (IF q \in r THEN 2 * theta ELSE 0)

LEMMA TracedCX ==
  ASSUME NEW R, NEW c \in R, NEW t \in R, c # t, NEW A, NEW S, NEW B, NEW T,
         MovesTo(R, c, t, A, S, B, T), NEW f
  PROVE  GateOn(R, CX(c, t), Traced(R, A, S, f)) = Traced(R, B, T, f)
<1> DEFINE g == Traced(R, A, S, f)
<1>1. GateOn(R, CX(c, t), g) = [r \in Vectors(R) |-> g[Source(CX(c, t), r)]]
  <2>1. GateOn(R, CX(c, t), g) = Moved(R, SourceOf(R, CX(c, t)), g)
    BY DEF GateOn, CX, Instr, OneQubitNames, MovingNames
  <2>2. QED
    BY <2>1 DEF Moved, SourceOf
<1>2. ASSUME NEW r \in Vectors(R)
      PROVE  g[Source(CX(c, t), r)] = (Zeta[B[r] % 16] * f[T[r]]) % P17
  <2>1. Source(CX(c, t), r) = RowXor(r, t, c)
    BY DEF Source, CX, Instr, RowXor
  <2>2. RowXor(r, t, c) \in Vectors(R)
    BY RowXorClosed DEF Vectors
  <2>3. B[r] = A[RowXor(r, t, c)] /\ T[r] = S[RowXor(r, t, c)]
    BY DEF MovesTo
  <2>4. g[RowXor(r, t, c)] = (Zeta[A[RowXor(r, t, c)] % 16] * f[S[RowXor(r, t, c)]]) % P17
    BY <2>2 DEF Traced
  <2>5. QED
    BY <2>1, <2>3, <2>4
<1> HIDE DEF g
<1>3. GateOn(R, CX(c, t), g) = Traced(R, B, T, f)
  BY <1>1, <1>2 DEF Traced
<1>4. QED
  BY <1>3 DEF g

LEMMA RootsApply ==
  ASSUME NEW x \in Int, NEW y \in Int, NEW a \in Amps
  PROVE  (Zeta[y % 16] * ((Zeta[x % 16] * a) % P17)) % P17 = (Zeta[(x + y) % 16] * a) % P17
<1> DEFINE i == x % 16
           j == y % 16
<1>1. i \in 0 .. 15 /\ j \in 0 .. 15 /\ (x + y) % 16 = (j + i) % 16
  OBVIOUS
<1>2. Zeta[i] \in Amps /\ Zeta[j] \in Amps
  BY RootAmp
<1> HIDE DEF i, j
<1>3. Zeta[(j + i) % 16] = (Zeta[j] * Zeta[i]) % P17
  BY <1>1, RootSum
<1> DEFINE v == Zeta[i]
           w == Zeta[j]
<1> HIDE DEF v, w
<1>4. (w * ((v * a) % P17)) % P17 = (((w * v) % P17) * a) % P17
  BY <1>2, ProductsSwap DEF v, w
<1>5. QED
  BY <1>1, <1>3, <1>4 DEF i, j, v, w

LEMMA TracedRZ ==
  ASSUME NEW R, NEW q \in R, NEW theta \in Int, NEW A, NEW S, Traces(R, A, S), NEW B,
         TurnsTo(R, q, theta, A, B), NEW f \in StatesOver(R)
  PROVE  GateOn(R, RZ(q, theta), Traced(R, A, S, f)) = Traced(R, B, S, f)
<1> DEFINE g == Traced(R, A, S, f)
           u == U3Matrix(0, theta, 0)
           e == GateOn(R, RZ(q, theta), g)
<1>1. GateIn(R, RZ(q, theta)) /\ g \in StatesOver(R)
  BY OneStep, TracedTyped DEF StepIn
<1>2. e \in StatesOver(R)
  BY <1>1, GateTyped
<1>3. e = OneQubit(R, u, q, g)
  BY DEF GateOn, RZ, Instr, OneQubitNames, SingleQubitMatrix
<1>4. u = [u00 |-> 1, u01 |-> 0, u10 |-> 0, u11 |-> Zeta[(2 * theta) % 16]]
  BY PMatrix
<1>5. \A r \in Vectors(R) : g[r] = (Zeta[A[r] % 16] * f[S[r]]) % P17
  BY TracedTyped
<1>6. Mixes(R, e, u, q, g)
  BY <1>3, OneQubitAt
<1> HIDE DEF g, u, e
<1>7. ASSUME NEW r \in Vectors(R)
      PROVE  e[r] = (Zeta[B[r] % 16] * f[S[r]]) % P17
  <2>1. r \oplus {q} \in Vectors(R)
    BY Flipped
  <2>2. g[r] \in Amps /\ g[r \oplus {q}] \in Amps
    BY <1>1, <2>1 DEF StatesOver
  <2>3. g[r] \in Int /\ g[r \oplus {q}] \in Int /\ g[r] % P17 = g[r]
    BY <2>2, AmpIsInteger
  <2>4. A[r] \in Int /\ f[S[r]] \in Amps
    BY DEF Traces, StatesOver
  <2>5. CASE q \in r
    <3> DEFINE z == Zeta[(2 * theta) % 16]
    <3>1. e[r] = OddOf(u, g[r \oplus {q}], g[r])
      BY <1>6, <2>5 DEF Mixes
    <3>20. 2 * theta \in Int
      OBVIOUS
    <3>21. Zeta[(2 * theta) % 16] \in Amps
      BY <3>20, RootAmp
    <3>2. z \in Amps /\ z \in Int
      BY <3>21, AmpIsInteger
    <3>3. e[r] = (0 * g[r \oplus {q}] + z * g[r]) % P17
      BY <1>4, <3>1 DEF OddOf
    <3> HIDE DEF z
    <3>4. 0 * g[r \oplus {q}] + z * g[r] = z * g[r]
      BY <2>3, <3>2
    <3>5. e[r] = (z * ((Zeta[A[r] % 16] * f[S[r]]) % P17)) % P17
      BY <1>5, <3>3, <3>4
    <3>6. B[r] = A[r] + 2 * theta
      BY <2>5 DEF TurnsTo
    <3>7. 2 * theta \in Int
      OBVIOUS
    <3>8. (Zeta[(2 * theta) % 16] * ((Zeta[A[r] % 16] * f[S[r]]) % P17)) % P17
            = (Zeta[(A[r] + 2 * theta) % 16] * f[S[r]]) % P17
      BY <2>4, <3>7, RootsApply
    <3>9. QED
      BY <3>5, <3>6, <3>8 DEF z
  <2>6. CASE q \notin r
    <3>1. e[r] = EvenOf(u, g[r], g[r \oplus {q}])
      BY <1>6, <2>6 DEF Mixes
    <3>2. e[r] = (1 * g[r] + 0 * g[r \oplus {q}]) % P17
      BY <1>4, <3>1 DEF EvenOf
    <3>3. e[r] = g[r]
      BY <2>3, <3>2
    <3>4. B[r] = A[r] + 0 /\ A[r] + 0 = A[r]
      BY <2>4, <2>6 DEF TurnsTo
    <3>5. QED
      BY <1>5, <3>3, <3>4
  <2>7. QED
    BY <2>5, <2>6
<1>8. e = Traced(R, B, S, f)
  BY <1>2, <1>7 DEF Traced, StatesOver
<1>9. QED
  BY <1>8 DEF e, g

-----------------------------------------------------------------------------
(***************************************************************************)
(* The steps a gate is lowered to are the gate.                             *)
(***************************************************************************)
LEMMA CXAt ==
  ASSUME NEW R, NEW c \in R, NEW t \in R, c # t, NEW f \in StatesOver(R)
  PROVE  /\ GateOn(R, CX(c, t), f) \in StatesOver(R)
         /\ \A r \in Vectors(R) : GateOn(R, CX(c, t), f)[r] = f[RowXor(r, t, c)]
<1>1. GateOn(R, CX(c, t), f) \in StatesOver(R)
  BY CXStep, GateTyped DEF StepIn
<1>2. GateOn(R, CX(c, t), f) = Moved(R, SourceOf(R, CX(c, t)), f)
  BY DEF GateOn, CX, Instr, OneQubitNames, MovingNames
<1>3. \A r \in Vectors(R) : Source(CX(c, t), r) = RowXor(r, t, c)
  BY DEF Source, CX, Instr, RowXor
<1>4. QED
  BY <1>1, <1>2, <1>3 DEF Moved, SourceOf

LEMMA RowXorBits ==
  ASSUME NEW r, NEW c, NEW t, c # t
  PROVE  /\ c \in RowXor(r, t, c) <=> c \in r
         /\ t \in RowXor(r, t, c) <=> ((c \in r) # (t \in r))
         /\ \A x : x # t => (x \in RowXor(r, t, c) <=> x \in r)
BY DEF RowXor, \oplus

LEMMA RowsExchanged ==
  ASSUME NEW r, NEW a, NEW b, a # b
  PROVE  RowXor(RowXor(RowXor(r, b, a), a, b), b, a)
           = IF (a \in r) # (b \in r) THEN (r \oplus {a}) \oplus {b} ELSE r
<1>1. (b \in r \oplus {b} <=> b \notin r) /\ (a \in r \oplus {b} <=> a \in r)
  BY DEF \oplus
<1>2. (a \in r \oplus {a} <=> a \notin r) /\ (b \in r \oplus {a} <=> b \in r)
  BY DEF \oplus
<1>3. a \in (r \oplus {b}) \oplus {a} <=> a \notin r
  BY DEF \oplus
<1>4. (r \oplus {b}) \oplus {b} = r
  BY DEF \oplus
<1>5. (r \oplus {b}) \oplus {a} = (r \oplus {a}) \oplus {b}
  BY DEF \oplus
<1>6. CASE a \in r /\ b \in r
  <2>1. RowXor(r, b, a) = r \oplus {b}
    BY <1>6 DEF RowXor
  <2>2. RowXor(r \oplus {b}, a, b) = r \oplus {b}
    BY <1>1, <1>6 DEF RowXor
  <2>3. RowXor(r \oplus {b}, b, a) = r
    BY <1>1, <1>4, <1>6 DEF RowXor
  <2>4. QED
    BY <1>6, <2>1, <2>2, <2>3
<1>7. CASE a \in r /\ b \notin r
  <2>1. RowXor(r, b, a) = r \oplus {b}
    BY <1>7 DEF RowXor
  <2>2. RowXor(r \oplus {b}, a, b) = (r \oplus {a}) \oplus {b}
    BY <1>1, <1>5, <1>7 DEF RowXor
  <2>3. RowXor((r \oplus {a}) \oplus {b}, b, a) = (r \oplus {a}) \oplus {b}
    BY <1>3, <1>5, <1>7 DEF RowXor
  <2>4. QED
    BY <1>7, <2>1, <2>2, <2>3
<1>8. CASE a \notin r /\ b \in r
  <2>1. RowXor(r, b, a) = r
    BY <1>8 DEF RowXor
  <2>2. RowXor(r, a, b) = r \oplus {a}
    BY <1>8 DEF RowXor
  <2>3. RowXor(r \oplus {a}, b, a) = (r \oplus {a}) \oplus {b}
    BY <1>2, <1>8 DEF RowXor
  <2>4. QED
    BY <1>8, <2>1, <2>2, <2>3
<1>9. CASE a \notin r /\ b \notin r
  <2>1. RowXor(r, b, a) = r /\ RowXor(r, a, b) = r
    BY <1>9 DEF RowXor
  <2>2. QED
    BY <1>9, <2>1
<1>10. QED
  BY <1>6, <1>7, <1>8, <1>9

LEMMA SwapExact ==
  ASSUME NEW R, NEW i, GateIn(R, i), i.name = "swap", NEW f \in StatesOver(R)
  PROVE  Carries(R, Lowered(i), f, GateOn(R, i, f))
<1>1. PICK a, b : a = i.qs[1] /\ b = i.qs[2]
  OBVIOUS
<1>2. a \in R /\ b \in R /\ a # b
  BY <1>1, GateShape DEF OneQubitNames
<1> DEFINE g == GateOn(R, CX(a, b), f)
           h == GateOn(R, CX(b, a), g)
           l == GateOn(R, CX(a, b), h)
           e == GateOn(R, i, f)
<1>3. g \in StatesOver(R) /\ \A r \in Vectors(R) : g[r] = f[RowXor(r, b, a)]
  BY <1>2, CXAt
<1> HIDE DEF g
<1>4. h \in StatesOver(R) /\ \A r \in Vectors(R) : h[r] = g[RowXor(r, a, b)]
  BY <1>2, <1>3, CXAt
<1> HIDE DEF h
<1>5. l \in StatesOver(R) /\ \A r \in Vectors(R) : l[r] = h[RowXor(r, b, a)]
  BY <1>2, <1>4, CXAt
<1> HIDE DEF l
<1>6. e \in StatesOver(R)
  BY GateTyped
<1>7. e = Moved(R, SourceOf(R, i), f)
  BY DEF GateOn, OneQubitNames, MovingNames
<1>8. ASSUME NEW r \in Vectors(R) PROVE l[r] = e[r]
  <2> DEFINE x == RowXor(r, b, a)
             y == RowXor(x, a, b)
             z == RowXor(y, b, a)
  <2>1. x \in Vectors(R)
    BY <1>2, RowXorClosed DEF Vectors
  <2> HIDE DEF x
  <2>2. y \in Vectors(R)
    BY <1>2, <2>1, RowXorClosed DEF Vectors
  <2> HIDE DEF y
  <2>3. l[r] = f[z]
    BY <1>3, <1>4, <1>5, <2>1, <2>2 DEF x, y
  <2>4. z = IF (a \in r) # (b \in r) THEN (r \oplus {a}) \oplus {b} ELSE r
    BY <1>2, RowsExchanged DEF x, y
  <2>5. Source(i, r) = IF (a \in r) # (b \in r) THEN (r \oplus {a}) \oplus {b} ELSE r
    BY <1>1 DEF Source
  <2>6. e[r] = f[Source(i, r)]
    BY <1>7 DEF Moved, SourceOf
  <2> HIDE DEF z
  <2>7. QED
    BY <2>3, <2>4, <2>5, <2>6
<1> HIDE DEF e
<1>9. l = e
  BY <1>5, <1>6, <1>8, SameState
<1>10. StepIn(R, CX(a, b)) /\ StepIn(R, CX(b, a))
  BY <1>2, CXStep
<1>11. Carries(R, <<CX(a, b), CX(b, a), CX(a, b)>>, f, l)
  BY <1>10, CarriesThree DEF g, h, l
<1>12. Lowered(i) = <<CX(a, b), CX(b, a), CX(a, b)>>
  BY <1>1, LoweredNames
<1>13. QED
  BY <1>9, <1>11, <1>12 DEF e

LEMMA CZExact ==
  ASSUME NEW R, NEW i, GateIn(R, i), i.name = "cz", NEW f \in StatesOver(R)
  PROVE  Carries(R, Lowered(i), f, GateOn(R, i, f))
<1> DEFINE j == Instr("cp", i.qs, 4)
<1>1. Lowered(i) = <<j>>
  BY LoweredNames
<1>2. j.name = "cp" /\ j.qs = i.qs /\ j.theta = 4
  BY DEF Instr
<1>3. WellFormed(j, R)
  BY DEF GateIn, WellFormed, Instr
<1>4. GateIn(R, j)
  BY <1>2, <1>3 DEF GateIn, Boundaries
<1> HIDE DEF j
<1>5. \A r : Angle(j, r) = Angle(i, r)
  BY <1>2 DEF Angle
<1>6. FactorOf(R, j) = FactorOf(R, i)
  BY <1>5 DEF FactorOf
<1>7. GateOn(R, j, f) = Phased(R, FactorOf(R, j), f)
  BY <1>2 DEF GateOn, OneQubitNames, MovingNames
<1>8. GateOn(R, i, f) = Phased(R, FactorOf(R, i), f)
  BY DEF GateOn, OneQubitNames, MovingNames
<1>9. QED
  BY <1>1, <1>4, <1>6, <1>7, <1>8, CarriesOne

\* A trace that ends where it began is a phase.
LEMMA TracedBack ==
  ASSUME NEW R, NEW A \in [Vectors(R) -> Int], NEW S, \A r \in Vectors(R) : S[r] = r, NEW f
  PROVE  Traced(R, A, S, f) = Phased(R, [r \in Vectors(R) |-> Zeta[A[r] % 16]], f)
BY DEF Traced, Phased

LEMMA TracedStart ==
  ASSUME NEW R, NEW A, NEW S, \A r \in Vectors(R) : A[r] = 0 /\ S[r] = r, NEW f \in StatesOver(R)
  PROVE  Traced(R, A, S, f) = f
<1>1. Zeta[0 % 16] = 1
  BY DEF Zeta
<1>2. ASSUME NEW r \in Vectors(R) PROVE (Zeta[A[r] % 16] * f[S[r]]) % P17 = f[r]
  <2>1. f[r] \in Amps
    BY DEF StatesOver
  <2>2. f[r] \in Int /\ f[r] % P17 = f[r]
    BY <2>1, AmpIsInteger
  <2>3. (1 * f[r]) % P17 = f[r]
    BY <2>2
  <2>4. QED
    BY <1>1, <2>3
<1>3. Traced(R, A, S, f) = [r \in Vectors(R) |-> f[r]]
  BY <1>2 DEF Traced
<1>4. QED
  BY <1>3 DEF StatesOver

LEMMA RZZExact ==
  ASSUME NEW R, NEW i, GateIn(R, i), i.name = "rzz", NEW f \in StatesOver(R)
  PROVE  Carries(R, Lowered(i), f, GateOn(R, i, f))
<1>1. PICK a, b, theta : a = i.qs[1] /\ b = i.qs[2] /\ theta = i.theta
  OBVIOUS
<1>2. a \in R /\ b \in R /\ a # b /\ theta \in Int
  BY <1>1, GateShape DEF OneQubitNames
<1> DEFINE V == Vectors(R)
           A0 == [r \in V |-> 0]
           S0 == [r \in V |-> r]
           A1 == [r \in V |-> A0[RowXor(r, b, a)]]
           S1 == [r \in V |-> S0[RowXor(r, b, a)]]
           A2 == [r \in V |-> A1[r] + (IF b \in r THEN 2 * theta ELSE 0)]
           A3 == [r \in V |-> A2[RowXor(r, b, a)]]
           S3 == [r \in V |-> S1[RowXor(r, b, a)]]
<1>3. \A r \in V : RowXor(r, b, a) \in V
  BY <1>2, RowXorClosed DEF Vectors
<1>4. /\ A0 \in [V -> Int] /\ S0 \in [V -> V] /\ A1 \in [V -> Int] /\ S1 \in [V -> V]
      /\ A2 \in [V -> Int] /\ A3 \in [V -> Int] /\ S3 \in [V -> V]
  BY <1>2, <1>3
<1>5. MovesTo(R, a, b, A0, S0, A1, S1) /\ MovesTo(R, a, b, A2, S1, A3, S3)
  BY DEF MovesTo
<1>6. TurnsTo(R, b, theta, A1, A2)
  BY DEF TurnsTo
<1>7. \A r \in V : A0[r] = 0 /\ S0[r] = r
  OBVIOUS
<1>8. ASSUME NEW r \in V PROVE S3[r] = r /\ A3[r] = Angle(i, r)
  <2>1. PICK x : x = RowXor(r, b, a)
    OBVIOUS
  <2>2. x \in V /\ RowXor(x, b, a) = r
    BY <1>2, <1>3, <2>1, RowXorInvolution
  <2>3. b \in x <=> ((a \in r) # (b \in r))
    BY <1>2, <2>1, RowXorBits
  <2>4. S3[r] = r
    BY <2>1, <2>2
  <2>5. A3[r] = 0 + (IF b \in x THEN 2 * theta ELSE 0)
    BY <1>3, <2>1, <2>2
  <2>6. Angle(i, r) = IF (a \in r) # (b \in r) THEN 2 * theta ELSE 0
    BY <1>1 DEF Angle
  <2>7. QED
    BY <1>2, <2>3, <2>4, <2>5, <2>6
<1> HIDE DEF A0, S0, A1, S1, A2, A3, S3
<1>9. Traced(R, A0, S0, f) = f
  BY <1>7, TracedStart
<1>10. GateOn(R, CX(a, b), f) = Traced(R, A1, S1, f)
  BY <1>2, <1>5, <1>9, TracedCX
<1>11. GateOn(R, RZ(b, theta), Traced(R, A1, S1, f)) = Traced(R, A2, S1, f)
  <2>1. Traces(R, A1, S1)
    BY <1>4 DEF Traces
  <2>2. QED
    BY <1>2, <1>6, <2>1, TracedRZ
<1>12. GateOn(R, CX(a, b), Traced(R, A2, S1, f)) = Traced(R, A3, S3, f)
  BY <1>2, <1>5, TracedCX
<1>13. Traced(R, A3, S3, f) = GateOn(R, i, f)
  <2>1. Traced(R, A3, S3, f) = Phased(R, [r \in V |-> Zeta[A3[r] % 16]], f)
    BY <1>4, <1>8, TracedBack
  <2>2. FactorOf(R, i) = [r \in V |-> Zeta[A3[r] % 16]]
    BY <1>8 DEF FactorOf
  <2>3. GateOn(R, i, f) = Phased(R, FactorOf(R, i), f)
    BY DEF GateOn, OneQubitNames, MovingNames
  <2>4. QED
    BY <2>1, <2>2, <2>3
<1>14. StepIn(R, CX(a, b)) /\ StepIn(R, RZ(b, theta))
  BY <1>2, CXStep, OneStep
<1>15. Carries(R, <<CX(a, b), RZ(b, theta), CX(a, b)>>, f,
               GateOn(R, CX(a, b), GateOn(R, RZ(b, theta), GateOn(R, CX(a, b), f))))
  BY <1>14, CarriesThree
<1>16. Lowered(i) = <<CX(a, b), RZ(b, theta), CX(a, b)>>
  BY <1>1, LoweredNames
<1>17. QED
  BY <1>10, <1>11, <1>12, <1>13, <1>15, <1>16

\* The angle of the ccz steps at each point, by the bits of the controls x
\* and y and of the target z there: a cx adds bits, a phase gate turns by one.
Plus(x, y) == IF x = y THEN 0 ELSE 1
Turn2(x, y, z) == -2 * z
Turn4(x, y, z) == Turn2(x, y, Plus(z, x)) + 2 * z
Turn6(x, y, z) == Turn4(x, y, Plus(z, y)) - 2 * z
Turn9(x, y, z) == Turn6(x, y, Plus(z, x)) + 2 * y + 2 * z
Turn12(x, y, z) == Turn9(x, Plus(y, x), z) + 2 * x - 2 * y
Turn13(x, y, z) == Turn12(x, Plus(y, x), z)

LEMMA CCZTurns ==
  ASSUME NEW x \in {0, 1}, NEW y \in {0, 1}, NEW z \in {0, 1}
  PROVE  Turn13(x, y, z) = IF x = 1 /\ y = 1 /\ z = 1 THEN 8 ELSE 0
<1>1. Plus(0, 0) = 0 /\ Plus(0, 1) = 1 /\ Plus(1, 0) = 1 /\ Plus(1, 1) = 0
  BY DEF Plus
<1>2. /\ Turn4(0, 0, 0) = 0 /\ Turn4(0, 0, 1) = 0 /\ Turn4(0, 1, 0) = 0 /\ Turn4(0, 1, 1) = 0
      /\ Turn4(1, 0, 0) = -2 /\ Turn4(1, 0, 1) = 2 /\ Turn4(1, 1, 0) = -2 /\ Turn4(1, 1, 1) = 2
  BY <1>1 DEF Turn4, Turn2
<1>3. /\ Turn6(0, 0, 0) = 0 /\ Turn6(0, 0, 1) = -2 /\ Turn6(0, 1, 0) = 0 /\ Turn6(0, 1, 1) = -2
      /\ Turn6(1, 0, 0) = -2 /\ Turn6(1, 0, 1) = 0 /\ Turn6(1, 1, 0) = 2 /\ Turn6(1, 1, 1) = -4
  BY <1>1, <1>2 DEF Turn6
<1>4. /\ Turn9(0, 0, 0) = 0 /\ Turn9(0, 0, 1) = 0 /\ Turn9(0, 1, 0) = 2 /\ Turn9(0, 1, 1) = 2
      /\ Turn9(1, 0, 0) = 0 /\ Turn9(1, 0, 1) = 0 /\ Turn9(1, 1, 0) = -2 /\ Turn9(1, 1, 1) = 6
  BY <1>1, <1>3 DEF Turn9
<1>5. /\ Turn12(0, 0, 0) = 0 /\ Turn12(0, 0, 1) = 0 /\ Turn12(0, 1, 0) = 0 /\ Turn12(0, 1, 1) = 0
      /\ Turn12(1, 0, 0) = 0 /\ Turn12(1, 0, 1) = 8 /\ Turn12(1, 1, 0) = 0 /\ Turn12(1, 1, 1) = 0
  BY <1>1, <1>4 DEF Turn12
<1>6. /\ Turn13(0, 0, 0) = 0 /\ Turn13(0, 0, 1) = 0 /\ Turn13(0, 1, 0) = 0 /\ Turn13(0, 1, 1) = 0
      /\ Turn13(1, 0, 0) = 0 /\ Turn13(1, 0, 1) = 0 /\ Turn13(1, 1, 0) = 0 /\ Turn13(1, 1, 1) = 8
  BY <1>1, <1>5 DEF Turn13
<1>7. QED
  BY <1>6

Bit(q, r) == IF q \in r THEN 1 ELSE 0

LEMMA RowXorPlus ==
  ASSUME NEW r, NEW c, NEW t, c # t
  PROVE  /\ Bit(t, RowXor(r, t, c)) = Plus(Bit(t, r), Bit(c, r))
         /\ \A x : x # t => Bit(x, RowXor(r, t, c)) = Bit(x, r)
<1>1. t \in RowXor(r, t, c) <=> ((c \in r) # (t \in r))
  BY RowXorBits
<1>2. \A x : x # t => (x \in RowXor(r, t, c) <=> x \in r)
  BY RowXorBits
<1>3. QED
  BY <1>1, <1>2 DEF Bit, Plus

LEMMA RowsCommute ==
  ASSUME NEW r, NEW a, NEW b, NEW t, a # t, b # t
  PROVE  RowXor(RowXor(r, t, a), t, b) = RowXor(RowXor(r, t, b), t, a)
<1>1. (a \in r \oplus {t} <=> a \in r) /\ (b \in r \oplus {t} <=> b \in r)
  BY DEF \oplus
<1>2. CASE a \in r
  BY <1>1, <1>2 DEF RowXor
<1>3. CASE a \notin r
  BY <1>1, <1>3 DEF RowXor
<1>4. QED
  BY <1>2, <1>3

LEMMA RowsReturn ==
  ASSUME NEW r, NEW a, NEW b, NEW t, a # t, b # t
  PROVE  RowXor(RowXor(RowXor(RowXor(r, t, a), t, b), t, a), t, b) = r
<1> DEFINE x == RowXor(r, t, b)
<1>1. RowXor(RowXor(r, t, a), t, b) = RowXor(x, t, a)
  BY RowsCommute
<1>2. RowXor(RowXor(x, t, a), t, a) = x
  BY RowXorInvolution
<1>3. RowXor(x, t, b) = r
  BY RowXorInvolution
<1>4. QED
  BY <1>1, <1>2, <1>3

\* A path of thirteen steps.
PathOf(R, s, h) ==
  /\ Len(s) = 13 /\ h \in [0 .. 13 -> StatesOver(R)]
  /\ h[1] = GateOn(R, s[1], h[0]) /\ h[2] = GateOn(R, s[2], h[1]) /\ h[3] = GateOn(R, s[3], h[2])
  /\ h[4] = GateOn(R, s[4], h[3]) /\ h[5] = GateOn(R, s[5], h[4]) /\ h[6] = GateOn(R, s[6], h[5])
  /\ h[7] = GateOn(R, s[7], h[6]) /\ h[8] = GateOn(R, s[8], h[7]) /\ h[9] = GateOn(R, s[9], h[8])
  /\ h[10] = GateOn(R, s[10], h[9]) /\ h[11] = GateOn(R, s[11], h[10])
  /\ h[12] = GateOn(R, s[12], h[11]) /\ h[13] = GateOn(R, s[13], h[12])

LEMMA CarriesPath ==
  ASSUME NEW R, NEW s, NEW h, PathOf(R, s, h)
  PROVE  Carries(R, s, h[0], h[13])
<1>1. ASSUME NEW j \in 1 .. 13 PROVE h[j] = GateOn(R, s[j], h[j - 1])
  <2>1. \/ j = 1 \/ j = 2 \/ j = 3 \/ j = 4 \/ j = 5 \/ j = 6 \/ j = 7
        \/ j = 8 \/ j = 9 \/ j = 10 \/ j = 11 \/ j = 12 \/ j = 13
    OBVIOUS
  <2>2. /\ 1 - 1 = 0 /\ 2 - 1 = 1 /\ 3 - 1 = 2 /\ 4 - 1 = 3 /\ 5 - 1 = 4 /\ 6 - 1 = 5 /\ 7 - 1 = 6
        /\ 8 - 1 = 7 /\ 9 - 1 = 8 /\ 10 - 1 = 9 /\ 11 - 1 = 10 /\ 12 - 1 = 11 /\ 13 - 1 = 12
    OBVIOUS
  <2>3. CASE j = 1 \/ j = 2 \/ j = 3 \/ j = 4
    BY <2>2, <2>3 DEF PathOf
  <2>4. CASE j = 5 \/ j = 6 \/ j = 7 \/ j = 8
    BY <2>2, <2>4 DEF PathOf
  <2>5. CASE j = 9 \/ j = 10 \/ j = 11 \/ j = 12 \/ j = 13
    BY <2>2, <2>5 DEF PathOf
  <2>6. QED
    BY <2>1, <2>3, <2>4, <2>5
<1>2. RunOf(R, s, h[0], h[13], h)
  BY <1>1 DEF RunOf, PathOf
<1>3. QED
  BY <1>2 DEF Carries

LEMMA ElementOf ==
  ASSUME NEW S, NEW s \in Seq(S), NEW j \in 1 .. Len(s)
  PROVE  s[j] \in S
OBVIOUS

CCZOn(R, a, b, t, f) ==
  Phased(R, [r \in Vectors(R) |-> Zeta[(IF (a \in r /\ b \in r) /\ t \in r THEN 8 ELSE 0) % 16]], f)

LEMMA CCZCarries ==
  ASSUME NEW R, NEW a \in R, NEW b \in R, NEW t \in R, a # b, a # t, b # t, NEW f \in StatesOver(R)
  PROVE  Carries(R, LoweredCCZ(a, b, t), f, CCZOn(R, a, b, t, f))
<1> DEFINE V == Vectors(R)
           A0 == [r \in V |-> 0]
           S0 == [r \in V |-> r]
           A1 == [r \in V |-> A0[RowXor(r, t, b)]]
           S1 == [r \in V |-> S0[RowXor(r, t, b)]]
           A2 == [r \in V |-> A1[r] + (IF t \in r THEN 2 * (-1) ELSE 0)]
           A3 == [r \in V |-> A2[RowXor(r, t, a)]]
           S3 == [r \in V |-> S1[RowXor(r, t, a)]]
           A4 == [r \in V |-> A3[r] + (IF t \in r THEN 2 * 1 ELSE 0)]
           A5 == [r \in V |-> A4[RowXor(r, t, b)]]
           S5 == [r \in V |-> S3[RowXor(r, t, b)]]
           A6 == [r \in V |-> A5[r] + (IF t \in r THEN 2 * (-1) ELSE 0)]
           A7 == [r \in V |-> A6[RowXor(r, t, a)]]
           S7 == [r \in V |-> S5[RowXor(r, t, a)]]
           A8 == [r \in V |-> A7[r] + (IF b \in r THEN 2 * 1 ELSE 0)]
           A9 == [r \in V |-> A8[r] + (IF t \in r THEN 2 * 1 ELSE 0)]
           A10 == [r \in V |-> A9[RowXor(r, b, a)]]
           S10 == [r \in V |-> S7[RowXor(r, b, a)]]
           A11 == [r \in V |-> A10[r] + (IF a \in r THEN 2 * 1 ELSE 0)]
           A12 == [r \in V |-> A11[r] + (IF b \in r THEN 2 * (-1) ELSE 0)]
           A13 == [r \in V |-> A12[RowXor(r, b, a)]]
           S13 == [r \in V |-> S10[RowXor(r, b, a)]]
<1>1. \A r \in V : RowXor(r, t, b) \in V /\ RowXor(r, t, a) \in V /\ RowXor(r, b, a) \in V
  BY RowXorClosed DEF Vectors
<1> HIDE DEF V
<1>2. \A r \in V : A0[r] = 0 /\ S0[r] = r
  OBVIOUS
<1>3. /\ A0 \in [V -> Int] /\ S0 \in [V -> V]
      /\ \A r \in V : A1[r] = A0[RowXor(r, t, b)] /\ S1[r] = S0[RowXor(r, t, b)]
  OBVIOUS
<1>4. A1 \in [V -> Int] /\ S1 \in [V -> V]
  BY <1>1, <1>3
<1> HIDE DEF A0, S0, A1, S1
<1>5. A2 \in [V -> Int] /\ \A r \in V : A2[r] = A1[r] + (IF t \in r THEN 2 * (-1) ELSE 0)
  BY <1>4
<1> HIDE DEF A2
<1>6. /\ A3 \in [V -> Int] /\ S3 \in [V -> V]
      /\ \A r \in V : A3[r] = A2[RowXor(r, t, a)] /\ S3[r] = S1[RowXor(r, t, a)]
  BY <1>1, <1>4, <1>5
<1> HIDE DEF A3, S3
<1>7. A4 \in [V -> Int] /\ \A r \in V : A4[r] = A3[r] + (IF t \in r THEN 2 * 1 ELSE 0)
  BY <1>6
<1> HIDE DEF A4
<1>8. /\ A5 \in [V -> Int] /\ S5 \in [V -> V]
      /\ \A r \in V : A5[r] = A4[RowXor(r, t, b)] /\ S5[r] = S3[RowXor(r, t, b)]
  BY <1>1, <1>6, <1>7
<1> HIDE DEF A5, S5
<1>9. A6 \in [V -> Int] /\ \A r \in V : A6[r] = A5[r] + (IF t \in r THEN 2 * (-1) ELSE 0)
  BY <1>8
<1> HIDE DEF A6
<1>10. /\ A7 \in [V -> Int] /\ S7 \in [V -> V]
       /\ \A r \in V : A7[r] = A6[RowXor(r, t, a)] /\ S7[r] = S5[RowXor(r, t, a)]
  BY <1>1, <1>8, <1>9
<1> HIDE DEF A7, S7
<1>11. A8 \in [V -> Int] /\ \A r \in V : A8[r] = A7[r] + (IF b \in r THEN 2 * 1 ELSE 0)
  BY <1>10
<1> HIDE DEF A8
<1>12. A9 \in [V -> Int] /\ \A r \in V : A9[r] = A8[r] + (IF t \in r THEN 2 * 1 ELSE 0)
  BY <1>11
<1> HIDE DEF A9
<1>13. /\ A10 \in [V -> Int] /\ S10 \in [V -> V]
       /\ \A r \in V : A10[r] = A9[RowXor(r, b, a)] /\ S10[r] = S7[RowXor(r, b, a)]
  BY <1>1, <1>10, <1>12
<1> HIDE DEF A10, S10
<1>14. A11 \in [V -> Int] /\ \A r \in V : A11[r] = A10[r] + (IF a \in r THEN 2 * 1 ELSE 0)
  BY <1>13
<1> HIDE DEF A11
<1>15. A12 \in [V -> Int] /\ \A r \in V : A12[r] = A11[r] + (IF b \in r THEN 2 * (-1) ELSE 0)
  BY <1>14
<1> HIDE DEF A12
<1>16. /\ A13 \in [V -> Int] /\ S13 \in [V -> V]
       /\ \A r \in V : A13[r] = A12[RowXor(r, b, a)] /\ S13[r] = S10[RowXor(r, b, a)]
  BY <1>1, <1>13, <1>15
<1> HIDE DEF A13, S13
<1>17. ASSUME NEW r \in V PROVE S7[r] = r
  <2>1. PICK x \in V : x = RowXor(r, t, a)
    BY <1>1
  <2>2. PICK y \in V : y = RowXor(x, t, b)
    BY <1>1
  <2>3. PICK z \in V : z = RowXor(y, t, a)
    BY <1>1
  <2>4. S7[r] = S5[x] /\ S5[x] = S3[y] /\ S3[y] = S1[z]
    BY <1>6, <1>8, <1>10, <2>1, <2>2, <2>3
  <2>5. RowXor(z, t, b) = r
    BY <2>1, <2>2, <2>3, RowsReturn
  <2>6. S1[z] = r
    BY <1>2, <1>3, <2>5
  <2>7. QED
    BY <2>4, <2>6
<1>18. ASSUME NEW r \in V PROVE S13[r] = r
  <2>1. PICK x \in V : x = RowXor(r, b, a)
    BY <1>1
  <2>2. RowXor(x, b, a) = r
    BY <2>1, RowXorInvolution
  <2>3. S13[r] = S10[x] /\ S10[x] = S7[r]
    BY <1>13, <1>16, <2>1, <2>2
  <2>4. QED
    BY <1>17, <2>3
<1> DEFINE X(r) == Bit(a, r)
           Y(r) == Bit(b, r)
           Z(r) == Bit(t, r)
<1>19. /\ \A r \in V : X(r) \in {0, 1} /\ Y(r) \in {0, 1} /\ Z(r) \in {0, 1}
       /\ \A r \in V : (a \in r <=> X(r) = 1) /\ (b \in r <=> Y(r) = 1) /\ (t \in r <=> Z(r) = 1)
  BY DEF Bit
<1>20. /\ \A r : X(RowXor(r, t, a)) = X(r) /\ Y(RowXor(r, t, a)) = Y(r) /\ Z(RowXor(r, t, a)) = Plus(Z(r), X(r))
       /\ \A r : X(RowXor(r, t, b)) = X(r) /\ Y(RowXor(r, t, b)) = Y(r) /\ Z(RowXor(r, t, b)) = Plus(Z(r), Y(r))
       /\ \A r : X(RowXor(r, b, a)) = X(r) /\ Z(RowXor(r, b, a)) = Z(r) /\ Y(RowXor(r, b, a)) = Plus(Y(r), X(r))
  BY RowXorPlus
<1> HIDE DEF X, Y, Z
<1>21. ASSUME NEW r \in V PROVE A2[r] = Turn2(X(r), Y(r), Z(r))
  BY <1>1, <1>2, <1>3, <1>5, <1>19 DEF Turn2
<1>22. ASSUME NEW r \in V PROVE A4[r] = Turn4(X(r), Y(r), Z(r))
  <2>1. PICK x \in V : x = RowXor(r, t, a)
    BY <1>1
  <2>2. A2[x] = Turn2(X(r), Y(r), Plus(Z(r), X(r)))
    BY <1>20, <1>21, <2>1
  <2>3. A4[r] = A2[x] + (IF t \in r THEN 2 * 1 ELSE 0)
    BY <1>6, <1>7, <2>1
  <2>4. (IF t \in r THEN 2 * 1 ELSE 0) = 2 * Z(r)
    BY <1>19
  <2>5. QED
    BY <2>2, <2>3, <2>4 DEF Turn4
<1>23. ASSUME NEW r \in V PROVE A6[r] = Turn6(X(r), Y(r), Z(r))
  <2>1. PICK x \in V : x = RowXor(r, t, b)
    BY <1>1
  <2>2. A4[x] = Turn4(X(r), Y(r), Plus(Z(r), Y(r))) /\ A4[x] \in Int
    BY <1>7, <1>20, <1>22, <2>1
  <2>3. A6[r] = A4[x] + (IF t \in r THEN 2 * (-1) ELSE 0)
    BY <1>8, <1>9, <2>1
  <2> DEFINE w == A4[x]
  <2> HIDE DEF w
  <2>4. w \in Int => w + (IF t \in r THEN 2 * (-1) ELSE 0) = w - 2 * Z(r)
    BY <1>19
  <2>5. QED
    BY <2>2, <2>3, <2>4 DEF Turn6, w
<1>24. ASSUME NEW r \in V PROVE A9[r] = Turn9(X(r), Y(r), Z(r))
  <2>1. PICK x \in V : x = RowXor(r, t, a)
    BY <1>1
  <2>2. A6[x] = Turn6(X(r), Y(r), Plus(Z(r), X(r)))
    BY <1>20, <1>23, <2>1
  <2>3. A9[r] = (A6[x] + (IF b \in r THEN 2 * 1 ELSE 0)) + (IF t \in r THEN 2 * 1 ELSE 0)
    BY <1>10, <1>11, <1>12, <2>1
  <2>4. (IF b \in r THEN 2 * 1 ELSE 0) = 2 * Y(r) /\ (IF t \in r THEN 2 * 1 ELSE 0) = 2 * Z(r)
    BY <1>19
  <2>5. QED
    BY <2>2, <2>3, <2>4 DEF Turn9
<1>25. ASSUME NEW r \in V PROVE A12[r] = Turn12(X(r), Y(r), Z(r))
  <2>1. PICK x \in V : x = RowXor(r, b, a)
    BY <1>1
  <2>2. A9[x] = Turn9(X(r), Plus(Y(r), X(r)), Z(r)) /\ A9[x] \in Int
    BY <1>12, <1>20, <1>24, <2>1
  <2>3. A12[r] = (A9[x] + (IF a \in r THEN 2 * 1 ELSE 0)) + (IF b \in r THEN 2 * (-1) ELSE 0)
    BY <1>13, <1>14, <1>15, <2>1
  <2> DEFINE w == A9[x]
  <2> HIDE DEF w
  <2>4. w \in Int => (w + (IF a \in r THEN 2 * 1 ELSE 0)) + (IF b \in r THEN 2 * (-1) ELSE 0)
                       = w + 2 * X(r) - 2 * Y(r)
    BY <1>19
  <2>5. QED
    BY <2>2, <2>3, <2>4 DEF Turn12, w
<1>26. ASSUME NEW r \in V PROVE A13[r] = IF (a \in r /\ b \in r) /\ t \in r THEN 8 ELSE 0
  <2>1. PICK x \in V : x = RowXor(r, b, a)
    BY <1>1
  <2>2. A12[x] = Turn12(X(r), Plus(Y(r), X(r)), Z(r))
    BY <1>20, <1>25, <2>1
  <2>3. A13[r] = Turn13(X(r), Y(r), Z(r))
    BY <1>16, <2>1, <2>2 DEF Turn13
  <2>4. Turn13(X(r), Y(r), Z(r)) = IF X(r) = 1 /\ Y(r) = 1 /\ Z(r) = 1 THEN 8 ELSE 0
    BY <1>19, CCZTurns
  <2>5. QED
    BY <1>19, <2>3, <2>4
<1>27. /\ -1 \in Int /\ 1 \in Int
       /\ Traces(R, A1, S1) /\ Traces(R, A3, S3) /\ Traces(R, A5, S5) /\ Traces(R, A7, S7)
       /\ Traces(R, A8, S7) /\ Traces(R, A10, S10) /\ Traces(R, A11, S10)
  BY <1>4, <1>6, <1>8, <1>10, <1>11, <1>13, <1>14 DEF Traces, V
<1>28. Traced(R, A0, S0, f) = f
  BY <1>2, TracedStart DEF V
<1>29. /\ MovesTo(R, b, t, A0, S0, A1, S1) /\ MovesTo(R, a, t, A2, S1, A3, S3)
       /\ MovesTo(R, b, t, A4, S3, A5, S5) /\ MovesTo(R, a, t, A6, S5, A7, S7)
       /\ MovesTo(R, a, b, A9, S7, A10, S10) /\ MovesTo(R, a, b, A12, S10, A13, S13)
  BY <1>3, <1>6, <1>8, <1>10, <1>13, <1>16 DEF MovesTo, V
<1>30. /\ TurnsTo(R, t, -1, A1, A2) /\ TurnsTo(R, t, 1, A3, A4) /\ TurnsTo(R, t, -1, A5, A6)
       /\ TurnsTo(R, b, 1, A7, A8) /\ TurnsTo(R, t, 1, A8, A9)
       /\ TurnsTo(R, a, 1, A10, A11) /\ TurnsTo(R, b, -1, A11, A12)
  BY <1>5, <1>7, <1>9, <1>11, <1>12, <1>14, <1>15 DEF TurnsTo, V
<1> DEFINE h1 == Traced(R, A1, S1, f)
           h2 == Traced(R, A2, S1, f)
           h3 == Traced(R, A3, S3, f)
           h4 == Traced(R, A4, S3, f)
           h5 == Traced(R, A5, S5, f)
           h6 == Traced(R, A6, S5, f)
           h7 == Traced(R, A7, S7, f)
           h8 == Traced(R, A8, S7, f)
           h9 == Traced(R, A9, S7, f)
           h10 == Traced(R, A10, S10, f)
           h11 == Traced(R, A11, S10, f)
           h12 == Traced(R, A12, S10, f)
           h13 == Traced(R, A13, S13, f)
<1>31. /\ h1 \in StatesOver(R) /\ h2 \in StatesOver(R) /\ h3 \in StatesOver(R) /\ h4 \in StatesOver(R)
       /\ h5 \in StatesOver(R) /\ h6 \in StatesOver(R) /\ h7 \in StatesOver(R) /\ h8 \in StatesOver(R)
       /\ h9 \in StatesOver(R) /\ h10 \in StatesOver(R) /\ h11 \in StatesOver(R)
       /\ h12 \in StatesOver(R) /\ h13 \in StatesOver(R)
  <2>1. /\ Traces(R, A2, S1) /\ Traces(R, A4, S3) /\ Traces(R, A6, S5) /\ Traces(R, A9, S7)
        /\ Traces(R, A12, S10) /\ Traces(R, A13, S13)
    BY <1>4, <1>5, <1>6, <1>7, <1>8, <1>9, <1>10, <1>12, <1>13, <1>15, <1>16 DEF Traces, V
  <2>2. QED
    BY <1>27, <2>1, TracedTyped
<1>32. h1 = GateOn(R, CX(b, t), f)
  BY <1>28, <1>29, TracedCX
<1>33. h3 = GateOn(R, CX(a, t), h2) /\ h7 = GateOn(R, CX(a, t), h6)
  BY <1>29, TracedCX
<1>34. h5 = GateOn(R, CX(b, t), h4)
  BY <1>29, TracedCX
<1>35. h10 = GateOn(R, CX(a, b), h9) /\ h13 = GateOn(R, CX(a, b), h12)
  BY <1>29, TracedCX
<1>36. h2 = GateOn(R, RZ(t, -1), h1) /\ h6 = GateOn(R, RZ(t, -1), h5) /\ h12 = GateOn(R, RZ(b, -1), h11)
  BY <1>27, <1>30, TracedRZ
<1>37. h4 = GateOn(R, RZ(t, 1), h3) /\ h8 = GateOn(R, RZ(b, 1), h7)
  BY <1>27, <1>30, TracedRZ
<1>38. h9 = GateOn(R, RZ(t, 1), h8) /\ h11 = GateOn(R, RZ(a, 1), h10)
  BY <1>27, <1>30, TracedRZ
<1>39. h13 = CCZOn(R, a, b, t, f)
  <2>1. h13 = Phased(R, [r \in Vectors(R) |-> Zeta[A13[r] % 16]], f)
    BY <1>16, <1>18, TracedBack DEF V
  <2>2. [r \in Vectors(R) |-> Zeta[A13[r] % 16]]
          = [r \in Vectors(R) |-> Zeta[(IF (a \in r /\ b \in r) /\ t \in r THEN 8 ELSE 0) % 16]]
    BY <1>26 DEF V
  <2>3. QED
    BY <2>1, <2>2 DEF CCZOn
<1> HIDE DEF h1, h2, h3, h4, h5, h6, h7, h8, h9, h10, h11, h12, h13
<1> DEFINE all == <<f, h1, h2, h3, h4, h5, h6, h7, h8, h9, h10, h11, h12, h13>>
           h == [j \in 0 .. 13 |-> all[j + 1]]
           s == LoweredCCZ(a, b, t)
<1>40. all \in Seq(StatesOver(R)) /\ Len(all) = 14
  BY <1>31
<1>41. h \in [0 .. 13 -> StatesOver(R)]
  <2> HIDE DEF all
  <2>1. ASSUME NEW j \in 0 .. 13 PROVE all[j + 1] \in StatesOver(R)
    <3>1. j + 1 \in 1 .. Len(all)
      BY <1>40
    <3>2. QED
      BY <1>40, <3>1, ElementOf
  <2>2. QED
    BY <2>1
<1>42. /\ h[0] = f /\ h[1] = h1 /\ h[2] = h2 /\ h[3] = h3 /\ h[4] = h4 /\ h[5] = h5 /\ h[6] = h6
       /\ h[7] = h7 /\ h[8] = h8 /\ h[9] = h9 /\ h[10] = h10 /\ h[11] = h11 /\ h[12] = h12 /\ h[13] = h13
  OBVIOUS
<1>43. /\ Len(s) = 13 /\ s[1] = CX(b, t) /\ s[2] = RZ(t, -1) /\ s[3] = CX(a, t) /\ s[4] = RZ(t, 1)
       /\ s[5] = CX(b, t) /\ s[6] = RZ(t, -1) /\ s[7] = CX(a, t) /\ s[8] = RZ(b, 1) /\ s[9] = RZ(t, 1)
       /\ s[10] = CX(a, b) /\ s[11] = RZ(a, 1) /\ s[12] = RZ(b, -1) /\ s[13] = CX(a, b)
  BY DEF LoweredCCZ
<1> HIDE DEF h, s
<1>44. PathOf(R, s, h)
  BY <1>32, <1>33, <1>34, <1>35, <1>36, <1>37, <1>38, <1>41, <1>42, <1>43 DEF PathOf
<1>45. Carries(R, s, h[0], h[13])
  BY <1>44, CarriesPath
<1>46. QED
  BY <1>39, <1>42, <1>45 DEF s

LEMMA CCZExact ==
  ASSUME NEW R, NEW i, GateIn(R, i), i.name = "ccz", NEW f \in StatesOver(R)
  PROVE  Carries(R, Lowered(i), f, GateOn(R, i, f))
<1>1. PICK a, b, t : a = i.qs[1] /\ b = i.qs[2] /\ t = i.qs[3]
  OBVIOUS
<1>2. a \in R /\ b \in R /\ t \in R /\ a # b /\ a # t /\ b # t
  BY <1>1, GateShape DEF OneQubitNames
<1>3. Carries(R, LoweredCCZ(a, b, t), f, CCZOn(R, a, b, t, f))
  BY <1>2, CCZCarries
<1>4. \A r : Angle(i, r) = IF (a \in r /\ b \in r) /\ t \in r THEN 8 ELSE 0
  BY <1>1 DEF Angle
<1>5. GateOn(R, i, f) = CCZOn(R, a, b, t, f)
  <2>1. GateOn(R, i, f) = Phased(R, FactorOf(R, i), f)
    BY DEF GateOn, OneQubitNames, MovingNames
  <2>2. QED
    BY <1>4, <2>1 DEF FactorOf, CCZOn
<1>6. Lowered(i) = LoweredCCZ(a, b, t)
  BY <1>1, LoweredNames
<1>7. QED
  BY <1>3, <1>5, <1>6

\* Twice H is nothing, and H around a sign is a flip.
LEMMA HTwice ==
  ASSUME NEW e \in Amps, NEW o \in Amps
  PROVE  /\ EvenOf(HMat, EvenOf(HMat, e, o), OddOf(HMat, e, o)) = e
         /\ OddOf(HMat, EvenOf(HMat, e, o), OddOf(HMat, e, o)) = o
<1>1. e \in Int /\ o \in Int /\ e % 17 = e /\ o % 17 = o
  BY AmpIsInteger DEF P17
<1> DEFINE x == 14 * e + 14 * o
           y == 14 * e - 14 * o
<1>2. x \in Int /\ y \in Int
  BY <1>1
<1>3. EvenOf(HMat, e, o) = x % 17 /\ OddOf(HMat, e, o) = y % 17
  BY <1>1, HPairs
<1>4. 14 * x + 14 * y = e + 17 * (23 * e) /\ 14 * x - 14 * y = o + 17 * (23 * o)
  BY <1>1
<1>5. 23 * e \in Int /\ 23 * o \in Int
  BY <1>1
<1> HIDE DEF x, y
<1>6. /\ EvenOf(HMat, x % 17, y % 17) = (14 * (x % 17) + 14 * (y % 17)) % 17
      /\ OddOf(HMat, x % 17, y % 17) = (14 * (x % 17) - 14 * (y % 17)) % 17
  BY <1>2, HPairs
<1>7. /\ (14 * (x % 17) + 14 * (y % 17)) % 17 = (14 * x + 14 * y) % 17
      /\ (14 * (x % 17) - 14 * (y % 17)) % 17 = (14 * x - 14 * y) % 17
  BY <1>2, HReduces
<1>8. (e + 17 * (23 * e)) % 17 = e /\ (o + 17 * (23 * o)) % 17 = o
  BY <1>1, <1>5, Multiples17
<1>9. QED
  BY <1>3, <1>4, <1>6, <1>7, <1>8

LEMMA HSignH ==
  ASSUME NEW e \in Amps, NEW o \in Amps
  PROVE  /\ EvenOf(HMat, EvenOf(HMat, e, o), (16 * OddOf(HMat, e, o)) % P17) = o
         /\ OddOf(HMat, EvenOf(HMat, e, o), (16 * OddOf(HMat, e, o)) % P17) = e
<1>1. e \in Int /\ o \in Int /\ e % 17 = e /\ o % 17 = o
  BY AmpIsInteger DEF P17
<1> DEFINE x == 14 * e + 14 * o
           y == 14 * e - 14 * o
           z == 16 * y
<1>2. x \in Int /\ y \in Int /\ z \in Int
  BY <1>1
<1>3. EvenOf(HMat, e, o) = x % 17 /\ OddOf(HMat, e, o) = y % 17
  BY <1>1, HPairs
<1>30. (16 * (y % 17)) % 17 = z % 17
  BY <1>2, ReducedOne DEF P17
<1>4. 14 * x + 14 * z = o + 17 * (196 * e - 173 * o) /\ 14 * x - 14 * z = e + 17 * (196 * o - 173 * e)
  BY <1>1
<1>5. 196 * e - 173 * o \in Int /\ 196 * o - 173 * e \in Int
  BY <1>1
<1> HIDE DEF x, y, z
<1>6. /\ EvenOf(HMat, x % 17, z % 17) = (14 * (x % 17) + 14 * (z % 17)) % 17
      /\ OddOf(HMat, x % 17, z % 17) = (14 * (x % 17) - 14 * (z % 17)) % 17
  BY <1>2, HPairs
<1>7. /\ (14 * (x % 17) + 14 * (z % 17)) % 17 = (14 * x + 14 * z) % 17
      /\ (14 * (x % 17) - 14 * (z % 17)) % 17 = (14 * x - 14 * z) % 17
  BY <1>2, HReduces
<1>8. (o + 17 * (196 * e - 173 * o)) % 17 = o /\ (e + 17 * (196 * o - 173 * e)) % 17 = e
  BY <1>1, <1>5, Multiples17
<1>9. QED
  BY <1>3, <1>30, <1>4, <1>6, <1>7, <1>8 DEF P17

LEMMA CCZAt ==
  ASSUME NEW R, NEW a, NEW b, NEW t, NEW f \in StatesOver(R)
  PROVE  /\ CCZOn(R, a, b, t, f) \in StatesOver(R)
         /\ \A r \in Vectors(R) :
              CCZOn(R, a, b, t, f)[r] = IF (a \in r /\ b \in r) /\ t \in r THEN (16 * f[r]) % P17 ELSE f[r]
<1> DEFINE ph == [r \in Vectors(R) |-> Zeta[(IF (a \in r /\ b \in r) /\ t \in r THEN 8 ELSE 0) % 16]]
<1>1. Zeta[8 % 16] = 16 /\ Zeta[0 % 16] = 1 /\ 16 \in Amps /\ 1 \in Amps
  BY DEF Zeta, Amps, P17
<1>2. \A r \in Vectors(R) : ph[r] = IF (a \in r /\ b \in r) /\ t \in r THEN 16 ELSE 1
  BY <1>1
<1>3. ph = [r \in Vectors(R) |-> ph[r]]
  OBVIOUS
<1> HIDE DEF ph
<1>4. ph \in StatesOver(R)
  BY <1>1, <1>2, <1>3 DEF StatesOver
<1>5. CCZOn(R, a, b, t, f) = Phased(R, ph, f)
  BY DEF CCZOn, ph
<1>6. \A r \in Vectors(R) : (1 * f[r]) % P17 = f[r]
  <2>1. \A r \in Vectors(R) : f[r] \in Amps
    BY DEF StatesOver
  <2>2. \A r \in Vectors(R) : f[r] \in Int /\ f[r] % P17 = f[r]
    BY <2>1, AmpIsInteger
  <2>3. QED
    BY <2>2
<1>7. Phased(R, ph, f) \in StatesOver(R)
  BY <1>4, PhasedTyped
<1>8. \A r \in Vectors(R) : Phased(R, ph, f)[r] = (ph[r] * f[r]) % P17
  BY DEF Phased
<1>9. ASSUME NEW r \in Vectors(R)
      PROVE  CCZOn(R, a, b, t, f)[r] = IF (a \in r /\ b \in r) /\ t \in r THEN (16 * f[r]) % P17 ELSE f[r]
  BY <1>2, <1>5, <1>6, <1>8
<1>10. QED
  BY <1>5, <1>7, <1>9

CCXPlace(R, a, b, t) == a \in R /\ b \in R /\ t \in R /\ a # b /\ a # t /\ b # t

LEMMA HadamardsAround ==
  ASSUME NEW R, NEW a, NEW b, NEW t, CCXPlace(R, a, b, t), NEW f \in StatesOver(R), NEW r \in Vectors(R)
  PROVE  OneQubit(R, HMat, t, CCZOn(R, a, b, t, OneQubit(R, HMat, t, f)))[r]
           = IF a \in r /\ b \in r THEN f[r \oplus {t}] ELSE f[r]
<1>0. a \in R /\ b \in R /\ t \in R /\ a # b /\ a # t /\ b # t
  BY DEF CCXPlace
<1> DEFINE g == OneQubit(R, HMat, t, f)
           h == CCZOn(R, a, b, t, g)
           l == OneQubit(R, HMat, t, h)
<1>1. HMat \in U3Matrices
  BY HPairs
<1>2. g \in StatesOver(R)
  BY <1>0, <1>1, OneQubitTyped
<1>3. Mixes(R, g, HMat, t, f) /\ Mixes(R, l, HMat, t, h)
  BY <1>0, OneQubitAt
<1> HIDE DEF g
<1>4. \A s \in Vectors(R) : h[s] = IF (a \in s /\ b \in s) /\ t \in s THEN (16 * g[s]) % P17 ELSE g[s]
  BY <1>2, CCZAt
<1> HIDE DEF h, l
<1>5. PICK x : x = r \oplus {t}
  OBVIOUS
<1>6. x \in Vectors(R) /\ (t \in x <=> t \notin r)
  BY <1>0, <1>5, Flipped
<1>7. (a \in x <=> a \in r) /\ (b \in x <=> b \in r)
  BY <1>0, <1>5, Flipped
<1>8. x \oplus {t} = r
  BY <1>5, XorCancel
<1>9. f[r] \in Amps /\ f[x] \in Amps
  BY <1>6 DEF StatesOver
<1>10. CASE t \in r
  <2>1. g[r] = OddOf(HMat, f[x], f[r]) /\ l[r] = OddOf(HMat, h[x], h[r])
    BY <1>3, <1>5, <1>10 DEF Mixes
  <2>2. g[x] = EvenOf(HMat, f[x], f[r])
    BY <1>3, <1>6, <1>8, <1>10 DEF Mixes
  <2>3. h[x] = g[x] /\ h[r] = IF a \in r /\ b \in r THEN (16 * g[r]) % P17 ELSE g[r]
    BY <1>4, <1>6, <1>10
  <2>6. l[r] = IF a \in r /\ b \in r THEN f[x] ELSE f[r]
    <3>1. CASE a \in r /\ b \in r
      <4>1. OddOf(HMat, EvenOf(HMat, f[x], f[r]), (16 * OddOf(HMat, f[x], f[r])) % P17) = f[x]
        BY <1>9, HSignH
      <4>2. QED
        BY <2>1, <2>2, <2>3, <3>1, <4>1
    <3>2. CASE ~(a \in r /\ b \in r)
      <4>1. OddOf(HMat, EvenOf(HMat, f[x], f[r]), OddOf(HMat, f[x], f[r])) = f[r]
        BY <1>9, HTwice
      <4>2. QED
        BY <2>1, <2>2, <2>3, <3>2, <4>1
    <3>3. QED
      BY <3>1, <3>2
  <2>7. QED
    BY <1>5, <2>6 DEF l, h, g
<1>11. CASE t \notin r
  <2>1. g[r] = EvenOf(HMat, f[r], f[x]) /\ l[r] = EvenOf(HMat, h[r], h[x])
    BY <1>3, <1>5, <1>11 DEF Mixes
  <2>2. g[x] = OddOf(HMat, f[r], f[x])
    BY <1>3, <1>6, <1>8, <1>11 DEF Mixes
  <2>3. h[r] = g[r] /\ h[x] = IF a \in r /\ b \in r THEN (16 * g[x]) % P17 ELSE g[x]
    BY <1>4, <1>6, <1>7, <1>11
  <2>6. l[r] = IF a \in r /\ b \in r THEN f[x] ELSE f[r]
    <3>1. CASE a \in r /\ b \in r
      <4>1. EvenOf(HMat, EvenOf(HMat, f[r], f[x]), (16 * OddOf(HMat, f[r], f[x])) % P17) = f[x]
        BY <1>9, HSignH
      <4>2. QED
        BY <2>1, <2>2, <2>3, <3>1, <4>1
    <3>2. CASE ~(a \in r /\ b \in r)
      <4>1. EvenOf(HMat, EvenOf(HMat, f[r], f[x]), OddOf(HMat, f[r], f[x])) = f[r]
        BY <1>9, HTwice
      <4>2. QED
        BY <2>1, <2>2, <2>3, <3>2, <4>1
    <3>3. QED
      BY <3>1, <3>2
  <2>7. QED
    BY <1>5, <2>6 DEF l, h, g
<1>12. QED
  BY <1>10, <1>11

LEMMA CCXExact ==
  ASSUME NEW R, NEW i, GateIn(R, i), i.name = "ccx", NEW f \in StatesOver(R)
  PROVE  Carries(R, Lowered(i), f, GateOn(R, i, f))
<1>1. PICK a, b, t : a = i.qs[1] /\ b = i.qs[2] /\ t = i.qs[3]
  OBVIOUS
<1>2. a \in R /\ b \in R /\ t \in R /\ a # b /\ a # t /\ b # t
  BY <1>1, GateShape DEF OneQubitNames
<1> DEFINE g == OneQubit(R, HMat, t, f)
           h == CCZOn(R, a, b, t, g)
           l == OneQubit(R, HMat, t, h)
           e == GateOn(R, i, f)
           m == LoweredCCZ(a, b, t)
<1>3. StepIn(R, HOn(t)) /\ GateIn(R, HOn(t))
  BY <1>2, OneStep DEF StepIn
<1>4. \A s : GateOn(R, HOn(t), s) = OneQubit(R, HMat, t, s)
  BY HMatrix DEF GateOn, HOn, Instr, OneQubitNames, SingleQubitMatrix, HMat
<1>5. g \in StatesOver(R)
  BY <1>2, HPairs, OneQubitTyped
<1>6. h \in StatesOver(R)
  BY <1>5, CCZAt
<1>7. l \in StatesOver(R) /\ e \in StatesOver(R)
  BY <1>2, <1>6, HPairs, OneQubitTyped, GateTyped
<1>8. ASSUME NEW r \in Vectors(R) PROVE l[r] = e[r]
  <2>1. l[r] = IF a \in r /\ b \in r THEN f[r \oplus {t}] ELSE f[r]
    <3>1. CCXPlace(R, a, b, t)
      BY <1>2 DEF CCXPlace
    <3>2. QED
      BY <3>1, HadamardsAround
  <2>2. Source(i, r) = IF a \in r /\ b \in r THEN r \oplus {t} ELSE r
    BY <1>1 DEF Source
  <2>3. e = Moved(R, SourceOf(R, i), f)
    BY DEF GateOn, OneQubitNames, MovingNames
  <2>4. e[r] = f[Source(i, r)]
    BY <2>3 DEF Moved, SourceOf
  <2>5. QED
    BY <2>1, <2>2, <2>4
<1> HIDE DEF e, l
<1>9. l = e
  BY <1>7, <1>8, SameState
<1>10. Carries(R, <<HOn(t)>>, f, g)
  BY <1>3, <1>4, CarriesOne
<1>11. Carries(R, m, g, h)
  BY <1>2, <1>5, CCZCarries
<1>12. Carries(R, <<HOn(t)>>, h, l)
  BY <1>3, <1>4, <1>6, CarriesOne DEF l
<1>13. StepsIn(R, m)
  BY <1>2, CCZSteps
<1>14. StepsIn(R, <<HOn(t)>>)
  <2>1. HOn(t) \in StepSet(R)
    BY <1>3, StepRecord
  <2>2. QED
    BY <2>1 DEF StepsIn
<1> HIDE DEF g, h, m
<1>15. Carries(R, <<HOn(t)>> \o m, f, h)
  BY <1>10, <1>11, <1>13, <1>14, CarriesJoin
<1>16. StepsIn(R, <<HOn(t)>> \o m)
  BY <1>13, <1>14 DEF StepsIn
<1>17. Carries(R, (<<HOn(t)>> \o m) \o <<HOn(t)>>, f, l)
  BY <1>12, <1>14, <1>15, <1>16, CarriesJoin
<1>18. Lowered(i) = (<<HOn(t)>> \o m) \o <<HOn(t)>>
  BY <1>1, LoweredNames DEF m
<1>19. QED
  BY <1>9, <1>17, <1>18 DEF e

LEMMA LoweringExact ==
  ASSUME NEW R, NEW i, GateIn(R, i), NEW f \in StatesOver(R)
  PROVE  Carries(R, Lowered(i), f, GateOn(R, i, f))
<1>1. CASE i.name \notin {"swap", "cz", "rzz", "ccz", "ccx"}
  <2>1. Lowered(i) = <<i>>
    BY <1>1, LoweredNames
  <2>2. QED
    BY <2>1, CarriesOne
<1>2. QED
  BY <1>1, SwapExact, CZExact, RZZExact, CCZExact, CCXExact

-----------------------------------------------------------------------------
(***************************************************************************)
(* What is emitted and what is pending are together on course to the input: *)
(* the steps that are left carry them to the input, up to a global phase.   *)
(***************************************************************************)
Course(R, k, s, P, o, w) ==
  \A c \in Vectors(R) : Carries(R, s, Held(R, P, R, o[c]), Times(R, k, w[c]))

\* The step in front, done by what is emitted and pending up to the factor l.
Does(R, l, s, P, o, O, e) ==
  \A c \in Vectors(R) : Held(R, O, R, e[c]) = Times(R, l, GateOn(R, Head(s), Held(R, P, R, o[c])))

LEMMA CourseTaken ==
  ASSUME NEW R, IsFiniteSet(R), NEW P, Holds(R, P), NEW s, StepsIn(R, s), s # << >>,
         NEW o \in OperatorsOver(R), NEW w \in OperatorsOver(R), NEW k \in Units, NEW l \in Units,
         NEW O, NEW e, Course(R, k, s, P, o, w), Does(R, l, s, P, o, O, e)
  PROVE  (l * k) % P17 \in Units /\ Course(R, (l * k) % P17, Tail(s), O, e, w)
<1>1. l \in Amps /\ k \in Amps /\ (l * k) % P17 \in Units
  BY UnitsMultiply DEF Units
<1>2. ASSUME NEW c \in Vectors(R)
      PROVE  Carries(R, Tail(s), Held(R, O, R, e[c]), Times(R, (l * k) % P17, w[c]))
  <2> DEFINE f == Held(R, P, R, o[c])
             g == Times(R, k, w[c])
  <2>1. o[c] \in StatesOver(R) /\ w[c] \in StatesOver(R) /\ R \in SUBSET R
    BY DEF OperatorsOver
  <2>2. f \in StatesOver(R)
    BY <2>1, HeldSteps
  <2>3. Carries(R, s, f, g)
    BY DEF Course
  <2>4. Held(R, O, R, e[c]) = Times(R, l, GateOn(R, Head(s), f))
    BY DEF Does
  <2>5. Times(R, l, g) = Times(R, (l * k) % P17, w[c])
    BY <1>1, <2>1, TimesTwice
  <2> HIDE DEF f, g
  <2>6. Carries(R, Tail(s), Times(R, l, GateOn(R, Head(s), f)), Times(R, l, g))
    BY <2>2, <2>3, CarriesDrops
  <2>7. QED
    BY <2>4, <2>5, <2>6
<1>3. QED
  BY <1>1, <1>2 DEF Course

\* Operator S on qubit x, taken up by what is pending there.
Absorbs(R, P, O, x, S, M, k) ==
  /\ IsFiniteSet(R) /\ Holds(R, P) /\ Holds(R, O) /\ x \in R /\ SameBut(R, O, P, {x})
  /\ S \in U3Matrices /\ M \in U3Matrices /\ k \in Amps
  /\ M = Scaled(LeftMultiply(S, P[x].matrix), k)

LEMMA AbsorbedColumn ==
  ASSUME NEW R, NEW P, NEW O, NEW x, NEW S, NEW M, NEW k, Absorbs(R, P, O, x, S, M, k),
         NEW f \in StatesOver(R)
  PROVE  /\ O[x].matrix = M =>
              Held(R, O, R, f) = Times(R, k, OneQubit(R, S, x, Held(R, P, R, f)))
         /\ O[x].matrix = Identity =>
              Held(R, O, R, OneQubit(R, M, x, f)) = Times(R, k, OneQubit(R, S, x, Held(R, P, R, f)))
<1>1. /\ IsFiniteSet(R) /\ Holds(R, P) /\ Holds(R, O) /\ x \in R /\ SameBut(R, O, P, {x})
      /\ S \in U3Matrices /\ M \in U3Matrices /\ k \in Amps
      /\ M = Scaled(LeftMultiply(S, P[x].matrix), k)
  BY DEF Absorbs
<1> DEFINE p == P[x].matrix
           T == R \ {x}
           G == Held(R, P, T, f)
           m == LeftMultiply(S, p)
<1>2. p \in U3Matrices /\ T \in SUBSET R /\ R \in SUBSET R
  BY <1>1 DEF Holds
<1>3. Held(R, P, R, f) = OneQubit(R, p, x, G)
  BY <1>1, <1>2, HeldSteps
<1>4. O[x].matrix = M => Held(R, O, R, f) = OneQubit(R, M, x, G)
  <2>1. Held(R, O, R, f) = OneQubit(R, O[x].matrix, x, Held(R, P, R \ {x}, f))
    BY <1>1, HeldOther
  <2>2. QED
    BY <2>1
<1>5. O[x].matrix = Identity => Held(R, O, R, OneQubit(R, M, x, f)) = OneQubit(R, M, x, G)
  BY <1>1, HeldFlushed
<1>6. m \in U3Matrices
  BY <1>1, <1>2, ProductTyped
<1>7. G \in StatesOver(R)
  BY <1>1, <1>2, HeldSteps
<1> HIDE DEF G, T
<1>8. OneQubit(R, S, x, OneQubit(R, p, x, G)) = OneQubit(R, m, x, G)
  BY <1>1, <1>2, <1>7, OneQubitTwice
<1> HIDE DEF m
<1>9. OneQubit(R, Scaled(m, k), x, G) = Times(R, k, OneQubit(R, m, x, G))
  BY <1>1, <1>6, <1>7, OneQubitScaled
<1>10. OneQubit(R, M, x, G) = Times(R, k, OneQubit(R, S, x, Held(R, P, R, f)))
  BY <1>1, <1>3, <1>8, <1>9 DEF m
<1>11. QED
  BY <1>4, <1>5, <1>10

LEMMA ClearedFacts ==
  ASSUME Typed, NEW Q
  PROVE  /\ Holds(Qubits, Cleared(Q)) /\ SameBut(Qubits, Cleared(Q), pending, Q)
         /\ \A q \in Qubits : q \in Q => Cleared(Q)[q].matrix = Identity
<1>1. \A q \in Qubits : Cleared(Q)[q] = IF q \in Q THEN Empty ELSE pending[q]
  BY DEF Cleared
<1>2. Empty.matrix = Identity /\ Identity \in U3Matrices
  BY EmptySound DEF Empty, Sound
<1>3. \A q \in Qubits : pending[q].matrix \in U3Matrices
  BY TypedFacts DEF Holds
<1>4. Holds(Qubits, Cleared(Q))
  BY <1>1, <1>2, <1>3 DEF Holds
<1>5. SameBut(Qubits, Cleared(Q), pending, Q)
  BY <1>1 DEF SameBut
<1>6. QED
  BY <1>1, <1>2, <1>4, <1>5

\* Only the qubits of a cx matter.
LEMMA CXAlike ==
  ASSUME NEW R, NEW i, i.name = "cx", NEW f
  PROVE  GateOn(R, i, f) = GateOn(R, CX(i.qs[1], i.qs[2]), f)
<1> DEFINE j == CX(i.qs[1], i.qs[2])
<1>1. j.name = "cx" /\ j.qs[1] = i.qs[1] /\ j.qs[2] = i.qs[2]
  BY DEF CX, Instr
<1> HIDE DEF j
<1>2. \A r : Source(j, r) = Source(i, r)
  BY <1>1 DEF Source
<1>3. GateOn(R, j, f) = Moved(R, SourceOf(R, j), f) /\ GateOn(R, i, f) = Moved(R, SourceOf(R, i), f)
  BY <1>1 DEF GateOn, OneQubitNames, MovingNames
<1>4. QED
  BY <1>2, <1>3 DEF SourceOf, j

LEMMA ExactHIs ==
  ASSUME NEW p, IsExactH(p)
  PROVE  p.matrix = HMat
BY HMatrix DEF IsExactH, SingleQubitMatrix, Instr, HMat

LEMMA AbsorbDoes ==
  ASSUME Typed, Absorb
  PROVE  \E l \in Units : Does(Qubits, l, todo, pending, out.op, pending', out'.op)
<1>1. PICK x, S, M : x = Step.qs[1] /\ S = SingleQubitMatrix(Step) /\ M = Made.matrix
  OBVIOUS
<1>2. /\ x \in Qubits /\ Step.name \in OneQubitNames /\ S \in U3Matrices
      /\ Sound(Made)
      /\ \/ pending' = [pending EXCEPT ![x] = Made] /\ out' = out
         \/ out' = Flushed(Made, x, out) /\ pending' = Cleared({x})
  BY <1>1, AbsorbFacts
<1>3. PICK l \in Units : M = Scaled(LeftMultiply(S, pending[x].matrix), l)
  BY <1>1, AbsorbFacts
<1>4. M \in U3Matrices /\ Made.matrix = M
  BY <1>1, <1>2 DEF Sound
<1>5. IsFiniteSet(Qubits) /\ Holds(Qubits, pending) /\ l \in Amps
  BY TypedFacts DEF Units
<1>6. pending \in [Qubits -> SoundSet] /\ out \in EmittedOver(Qubits)
  BY DEF Typed
<1>7. \A c \in Vectors(Qubits) : out.op[c] \in StatesOver(Qubits)
  BY <1>6 DEF EmittedOver, OperatorsOver
<1>8. \A f : GateOn(Qubits, Head(todo), f) = OneQubit(Qubits, S, x, f)
  BY <1>1, <1>2 DEF GateOn, Step
<1>9. CASE pending' = [pending EXCEPT ![x] = Made] /\ out' = out
  <2> DEFINE O == [pending EXCEPT ![x] = Made]
  <2>1. O[x] = Made /\ \A q \in Qubits : q # x => O[q] = pending[q]
    BY <1>2, <1>6
  <2> HIDE DEF O
  <2>2. SameBut(Qubits, O, pending, {x})
    BY <2>1 DEF SameBut
  <2>3. Holds(Qubits, O)
    BY <1>4, <1>5, <2>1 DEF Holds
  <2>4. Absorbs(Qubits, pending, O, x, S, M, l)
    BY <1>2, <1>3, <1>4, <1>5, <2>2, <2>3 DEF Absorbs
  <2>5. ASSUME NEW c \in Vectors(Qubits)
        PROVE Held(Qubits, O, Qubits, out.op[c]) = Times(Qubits, l, OneQubit(Qubits, S, x, Held(Qubits, pending, Qubits, out.op[c])))
    BY <1>4, <1>7, <2>1, <2>4, AbsorbedColumn
  <2>6. Does(Qubits, l, todo, pending, out.op, O, out.op)
    BY <1>8, <2>5 DEF Does
  <2>7. QED
    BY <1>9, <2>6 DEF O
<1>10. CASE out' = Flushed(Made, x, out) /\ pending' = Cleared({x})
  <2>1. Holds(Qubits, Cleared({x})) /\ SameBut(Qubits, Cleared({x}), pending, {x}) /\ Cleared({x})[x].matrix = Identity
    BY <1>2, ClearedFacts
  <2>2. Absorbs(Qubits, pending, Cleared({x}), x, S, M, l)
    BY <1>2, <1>3, <1>4, <1>5, <2>1 DEF Absorbs
  <2>3. ASSUME NEW c \in Vectors(Qubits)
        PROVE Held(Qubits, Cleared({x}), Qubits, OneQubit(Qubits, M, x, out.op[c]))
                = Times(Qubits, l, OneQubit(Qubits, S, x, Held(Qubits, pending, Qubits, out.op[c])))
    BY <1>7, <2>1, <2>2, AbsorbedColumn
  <2>4. \A c \in Vectors(Qubits) : Flushed(Made, x, out).op[c] = OneQubit(Qubits, M, x, out.op[c])
    BY <1>2, <1>4, <1>6, FlushedFields
  <2>5. Does(Qubits, l, todo, pending, out.op, Cleared({x}), Flushed(Made, x, out).op)
    BY <1>8, <2>3, <2>4 DEF Does
  <2>6. QED
    BY <1>10, <2>5
<1>11. QED
  BY <1>2, <1>9, <1>10

LEMMA EmittedCXColumns ==
  ASSUME NEW c \in Qubits, NEW t \in Qubits, c # t, NEW o \in EmittedOver(Qubits)
  PROVE  \A v \in Vectors(Qubits) : EmitCX(c, t, o).op[v] = GateOn(Qubits, CX(c, t), o.op[v])
<1>1. GateIn(Qubits, CX(c, t))
  BY CXStep DEF StepIn
<1>2. EmitCX(c, t, o).op = GateAfter(CX(c, t), o.op)
  BY DEF EmitCX, CX
<1>3. o.op \in OperatorsOver(Qubits)
  BY DEF EmittedOver
<1>4. QED
  BY <1>1, <1>2, <1>3, GateOpTyped

LEMMA UnitOne ==
  1 \in Units
BY DEF Units, Amps, P17

LEMMA CrossDoes ==
  ASSUME Typed, CrossCX
  PROVE  Does(Qubits, 1, todo, pending, out.op, pending', out'.op)
<1>1. PICK c, t : c = Step.qs[1] /\ t = Step.qs[2]
  OBVIOUS
<1>2. /\ TakeStep /\ Step.name = "cx" /\ out' = EmitCX(t, c, out) /\ pending' = pending
      /\ IsExactH(pending[c]) /\ IsExactH(pending[t])
  BY <1>1 DEF CrossCX, CanCross
<1>3. c \in Qubits /\ t \in Qubits /\ c # t
  BY <1>1, <1>2, PairFacts
<1>4. pending[c].matrix = HMat /\ pending[t].matrix = HMat
  BY <1>2, ExactHIs
<1>5. IsFiniteSet(Qubits) /\ Holds(Qubits, pending)
  BY TypedFacts
<1>6. out \in EmittedOver(Qubits) /\ \A v \in Vectors(Qubits) : out.op[v] \in StatesOver(Qubits)
  BY DEF Typed, EmittedOver, OperatorsOver
<1>7. ASSUME NEW v \in Vectors(Qubits)
      PROVE Held(Qubits, pending, Qubits, EmitCX(t, c, out).op[v])
              = Times(Qubits, 1, GateOn(Qubits, Head(todo), Held(Qubits, pending, Qubits, out.op[v])))
  <2> DEFINE f == out.op[v]
             F == Held(Qubits, pending, Qubits, f)
             G == GateOn(Qubits, CX(c, t), F)
  <2>1. EmitCX(t, c, out).op[v] = GateOn(Qubits, CX(t, c), f)
    BY <1>3, <1>6, EmittedCXColumns
  <2>2. Held(Qubits, pending, Qubits, GateOn(Qubits, CX(t, c), f)) = G
    BY <1>3, <1>4, <1>5, <1>6, CrossState
  <2>3. GateOn(Qubits, Head(todo), F) = G
    BY <1>1, <1>2, CXAlike DEF Step
  <2>4. F \in StatesOver(Qubits)
    BY <1>5, <1>6, HeldSteps
  <2>5. G \in StatesOver(Qubits)
    BY <1>3, <2>4, CXAt
  <2>6. Times(Qubits, 1, G) = G
    BY <2>5, TimesOne
  <2>7. QED
    BY <2>1, <2>2, <2>3, <2>6
<1>8. Does(Qubits, 1, todo, pending, out.op, pending, EmitCX(t, c, out).op)
  BY <1>7 DEF Does
<1>9. QED
  BY <1>2, <1>8

\* A two-qubit step behind the flush of its qubits.
LEMMA PairDoes ==
  ASSUME Typed, TakeStep, Step.name = "cx" \/ Len(Step.qs) = 2, NEW e,
         \A v \in Vectors(Qubits) :
           e[v] = GateOn(Qubits, Step, FlushedAll({Step.qs[1], Step.qs[2]}, out).op[v])
  PROVE  Does(Qubits, 1, todo, pending, out.op, Cleared({Step.qs[1], Step.qs[2]}), e)
<1>1. PICK i, Q : i = Step /\ Q = {Step.qs[1], Step.qs[2]}
  OBVIOUS
<1>2. /\ StepIn(Qubits, i) /\ GateIn(Qubits, i) /\ i.name \notin OneQubitNames
      /\ i.qs[1] \in Qubits /\ i.qs[2] \in Qubits /\ Q \in SUBSET Qubits
  BY <1>1, PairFacts DEF OneQubitNames
<1>3. IsFiniteSet(Qubits) /\ Holds(Qubits, pending)
  BY TypedFacts
<1>4. out \in EmittedOver(Qubits) /\ \A v \in Vectors(Qubits) : out.op[v] \in StatesOver(Qubits)
  BY DEF Typed, EmittedOver, OperatorsOver
<1>5. /\ Holds(Qubits, Cleared(Q)) /\ SameBut(Qubits, Cleared(Q), pending, Q)
      /\ Cleared(Q)[i.qs[1]].matrix = Identity /\ Cleared(Q)[i.qs[2]].matrix = Identity
  <2>1. i.qs[1] \in Q /\ i.qs[2] \in Q
    BY <1>1
  <2>2. QED
    BY <1>2, <2>1, ClearedFacts
<1>6. ASSUME NEW v \in Vectors(Qubits)
      PROVE Held(Qubits, Cleared(Q), Qubits, e[v])
              = Times(Qubits, 1, GateOn(Qubits, Head(todo), Held(Qubits, pending, Qubits, out.op[v])))
  <2> DEFINE f == out.op[v]
             F == Held(Qubits, pending, Qubits, f)
             G == GateOn(Qubits, i, F)
             H == Held(Qubits, pending, Q, f)
  <2>1. FlushedAll(Q, out).op[v] = H
    BY <1>2, <1>3, <1>4, FlushedColumns
  <2>2. e[v] = GateOn(Qubits, i, H)
    BY <1>1, <2>1
  <2>3. Held(Qubits, Cleared(Q), Qubits, GateOn(Qubits, i, H)) = G
    <3> DEFINE O == Cleared(Q)
    <3>1. Q = {i.qs[1], i.qs[2]}
      BY <1>1
    <3>2. Holds(Qubits, O) /\ SameBut(Qubits, O, pending, {i.qs[1], i.qs[2]})
      BY <1>5, <3>1
    <3>3. O[i.qs[1]].matrix = Identity /\ O[i.qs[2]].matrix = Identity
      BY <1>5
    <3>4. f \in StatesOver(Qubits)
      BY <1>4
    <3> HIDE DEF O, f
    <3>5. Held(Qubits, O, Qubits, GateOn(Qubits, i, Held(Qubits, pending, {i.qs[1], i.qs[2]}, f)))
            = GateOn(Qubits, i, Held(Qubits, pending, Qubits, f))
      BY <1>2, <1>3, <3>2, <3>3, <3>4, PairState
    <3>6. QED
      BY <3>1, <3>5 DEF O
  <2>4. GateOn(Qubits, Head(todo), F) = G
    BY <1>1 DEF Step
  <2>5. F \in StatesOver(Qubits)
    BY <1>3, <1>4, HeldSteps
  <2>6. G \in StatesOver(Qubits)
    BY <1>2, <2>5, GateTyped
  <2>7. Times(Qubits, 1, G) = G
    BY <2>6, TimesOne
  <2>8. QED
    BY <2>2, <2>3, <2>4, <2>7
<1>7. Does(Qubits, 1, todo, pending, out.op, Cleared(Q), e)
  BY <1>6 DEF Does
<1>8. QED
  BY <1>1, <1>7

OnCourse == \E k \in Units : Course(Qubits, k, todo, pending, out.op, want)

LEMMA StepOnCourse ==
  ASSUME Typed, OnCourse, Absorb \/ CrossCX \/ FlushCX \/ RawGate
  PROVE  \E k \in Units : Course(Qubits, k, todo', pending', out'.op, want')
<1>1. TakeStep /\ todo # << >> /\ todo' = Tail(todo) /\ want' = want
  BY DEF Absorb, CrossCX, FlushCX, RawGate, TakeStep
<1>2. /\ IsFiniteSet(Qubits) /\ Holds(Qubits, pending) /\ StepsIn(Qubits, todo)
      /\ out.op \in OperatorsOver(Qubits) /\ want \in OperatorsOver(Qubits)
      /\ out \in EmittedOver(Qubits)
  BY TypedFacts DEF Typed, EmittedOver
<1>3. \E l \in Units : Does(Qubits, l, todo, pending, out.op, pending', out'.op)
  <2>1. CASE Absorb
    BY <2>1, AbsorbDoes
  <2>2. CASE CrossCX
    BY <2>2, CrossDoes, UnitOne
  <2>3. CASE FlushCX
    <3>1. PICK Q, o : Q = {Step.qs[1], Step.qs[2]} /\ o = FlushedAll(Q, out)
      OBVIOUS
    <3>2. Step.name = "cx" /\ out' = EmitCX(Step.qs[1], Step.qs[2], o) /\ pending' = Cleared(Q)
      BY <2>3, <3>1 DEF FlushCX
    <3>3. Step.qs[1] \in Qubits /\ Step.qs[2] \in Qubits /\ Step.qs[1] # Step.qs[2] /\ o \in EmittedOver(Qubits)
      BY <1>1, <3>1, <3>2, PairFacts
    <3>4. \A v \in Vectors(Qubits) : out'.op[v] = GateOn(Qubits, CX(Step.qs[1], Step.qs[2]), o.op[v])
      BY <3>2, <3>3, EmittedCXColumns
    <3>5. \A v \in Vectors(Qubits) : out'.op[v] = GateOn(Qubits, Step, o.op[v])
      BY <3>2, <3>4, CXAlike
    <3>6. Does(Qubits, 1, todo, pending, out.op, pending', out'.op)
      BY <1>1, <3>1, <3>2, <3>5, PairDoes
    <3>7. QED
      BY <3>6, UnitOne
  <2>4. CASE RawGate
    <3>1. PICK Q, o : Q = {Step.qs[1], Step.qs[2]} /\ o = FlushedAll(Q, out)
      OBVIOUS
    <3>2. Len(Step.qs) = 2 /\ out' = EmitRaw(Step, o) /\ pending' = Cleared(Q)
      BY <2>4, <3>1 DEF RawGate
    <3>3. GateIn(Qubits, Step) /\ o \in EmittedOver(Qubits)
      BY <1>1, <3>1, <3>2, PairFacts
    <3>4. o.op \in OperatorsOver(Qubits) /\ out'.op = GateAfter(Step, o.op)
      BY <3>2, <3>3, EmittedFields DEF EmitRaw
    <3>5. \A v \in Vectors(Qubits) : out'.op[v] = GateOn(Qubits, Step, o.op[v])
      BY <3>3, <3>4, GateOpTyped
    <3>6. Does(Qubits, 1, todo, pending, out.op, pending', out'.op)
      BY <1>1, <3>1, <3>2, <3>5, PairDoes
    <3>7. QED
      BY <3>6, UnitOne
  <2>5. QED
    BY <2>1, <2>2, <2>3, <2>4
<1>4. PICK l \in Units : Does(Qubits, l, todo, pending, out.op, pending', out'.op)
  BY <1>3
<1>5. PICK k \in Units : Course(Qubits, k, todo, pending, out.op, want)
  BY DEF OnCourse
<1>6. (l * k) % P17 \in Units /\ Course(Qubits, (l * k) % P17, Tail(todo), pending', out'.op, want)
  BY <1>1, <1>2, <1>4, <1>5, CourseTaken
<1>7. QED
  BY <1>1, <1>6

\* Between two instructions, emitted and pending are the input.
LEMMA CourseDone ==
  ASSUME NEW R, NEW k, NEW P, NEW o, NEW w
  PROVE  /\ Course(R, k, << >>, P, o, w) =>
              \A c \in Vectors(R) : Held(R, P, R, o[c]) = Times(R, k, w[c])
         /\ (\A c \in Vectors(R) : /\ Held(R, P, R, o[c]) = Times(R, k, w[c])
                                   /\ Times(R, k, w[c]) \in StatesOver(R))
              => Course(R, k, << >>, P, o, w)
BY CarriesNothing DEF Course

LEMMA FlushedState ==
  ASSUME NEW R, IsFiniteSet(R), NEW O, Holds(R, O), \A q \in R : O[q].matrix = Identity,
         NEW f \in StatesOver(R)
  PROVE  Held(R, O, R, f) = f
BY HeldNothing

LEMMA BoundaryOnCourse ==
  ASSUME Typed, OnCourse, NEW i \in input.instructions, Barrier(i) \/ Measure(i) \/ Reset(i)
  PROVE  \E k \in Units : Course(Qubits, k, todo', pending', out'.op, want')
<1>1. NextInstruction /\ todo = << >> /\ todo' = << >> /\ pending' = Cleared(Qubits)
  BY DEF Barrier, Measure, Reset, NextInstruction, FlushEverything
<1>2. /\ IsFiniteSet(Qubits) /\ Holds(Qubits, pending) /\ want \in OperatorsOver(Qubits)
      /\ out \in EmittedOver(Qubits) /\ out.op \in OperatorsOver(Qubits)
  BY TypedFacts DEF Typed, EmittedOver
<1>3. Holds(Qubits, Cleared(Qubits)) /\ \A q \in Qubits : Cleared(Qubits)[q].matrix = Identity
  BY ClearedFacts
<1>4. \A f \in StatesOver(Qubits) : Held(Qubits, Cleared(Qubits), Qubits, f) = f
  BY <1>2, <1>3, FlushedState
<1>5. PICK k \in Units : Course(Qubits, k, << >>, pending, out.op, want)
  BY <1>1 DEF OnCourse
<1>6. k \in Amps
  BY DEF Units
<1> DEFINE o == FlushedAll(Qubits, out)
<1>7. o \in EmittedOver(Qubits) /\ o.op \in OperatorsOver(Qubits)
  BY TypedFacts, EmittedFields
<1>8. ASSUME NEW c \in Vectors(Qubits) PROVE o.op[c] = Times(Qubits, k, want[c])
  <2>1. Held(Qubits, pending, Qubits, out.op[c]) = Times(Qubits, k, want[c])
    BY <1>5, CourseDone
  <2>2. o.op[c] = Held(Qubits, pending, Qubits, out.op[c])
    BY <1>2, FlushedColumns
  <2>3. QED
    BY <2>1, <2>2
<1> HIDE DEF o
<1>9. \A c \in Vectors(Qubits) : o.op[c] \in StatesOver(Qubits) /\ want[c] \in StatesOver(Qubits)
  BY <1>2, <1>7 DEF OperatorsOver
<1>10. CASE Barrier(i)
  <2>1. out' = o /\ want' = want
    BY <1>10 DEF Barrier, o
  <2>2. \A c \in Vectors(Qubits) :
          /\ Held(Qubits, Cleared(Qubits), Qubits, o.op[c]) = Times(Qubits, k, want[c])
          /\ Times(Qubits, k, want[c]) \in StatesOver(Qubits)
    BY <1>4, <1>8, <1>9
  <2>3. Course(Qubits, k, << >>, Cleared(Qubits), o.op, want)
    BY <2>2, CourseDone
  <2>4. QED
    BY <1>1, <2>1, <2>3
<1>11. CASE Measure(i)
  <2>1. PICK b \in BOOLEAN : /\ want' = Project(want, i.qs[1], b)
                             /\ out' = [o EXCEPT !.op = Project(@, i.qs[1], b)]
    BY <1>11 DEF Measure, o
  <2>2. out'.op = Project(o.op, i.qs[1], b)
    BY <1>7, <2>1, EmittedFields
  <2> DEFINE K == Kept(Qubits, i.qs[1], b)
             one == [r \in Vectors(Qubits) |-> k]
             e == Project(o.op, i.qs[1], b)
             w == Project(want, i.qs[1], b)
  <2>3. /\ K \in StatesOver(Qubits)
        /\ \A c \in Vectors(Qubits) : e[c] = Phased(Qubits, K, o.op[c]) /\ w[c] = Phased(Qubits, K, want[c])
    BY <1>2, <1>7, ProjectTyped
  <2> HIDE DEF K, e, w
  <2>4. one \in StatesOver(Qubits) /\ \A f : Times(Qubits, k, f) = Phased(Qubits, one, f)
    BY <1>6 DEF StatesOver, Times
  <2> HIDE DEF one
  <2>5. ASSUME NEW c \in Vectors(Qubits)
        PROVE /\ Held(Qubits, Cleared(Qubits), Qubits, e[c]) = Times(Qubits, k, w[c])
              /\ Times(Qubits, k, w[c]) \in StatesOver(Qubits)
    <3>1. e[c] = Phased(Qubits, K, Phased(Qubits, one, want[c]))
      BY <1>8, <2>3, <2>4
    <3>2. Phased(Qubits, K, Phased(Qubits, one, want[c])) = Phased(Qubits, one, Phased(Qubits, K, want[c]))
      BY <1>9, <2>3, <2>4, PhasesCross
    <3>3. e[c] = Times(Qubits, k, w[c])
      BY <2>3, <2>4, <3>1, <3>2
    <3>4. w[c] \in StatesOver(Qubits)
      BY <1>9, <2>3, PhasedTyped
    <3>5. Times(Qubits, k, w[c]) \in StatesOver(Qubits)
      BY <1>6, <3>4, TimesTyped
    <3>6. QED
      BY <1>4, <3>3, <3>5
  <2>6. Course(Qubits, k, << >>, Cleared(Qubits), e, w)
    BY <2>5, CourseDone
  <2>7. QED
    BY <1>1, <2>1, <2>2, <2>6 DEF e, w
<1>12. CASE Reset(i)
  <2>1. out'.op = IdentityOp /\ want' = IdentityOp
    BY <1>12 DEF Reset
  <2>2. \A c \in Vectors(Qubits) : IdentityOp[c] \in StatesOver(Qubits)
    BY IdentityOpTyped DEF OperatorsOver
  <2>3. \A c \in Vectors(Qubits) : Times(Qubits, 1, IdentityOp[c]) = IdentityOp[c]
    BY <2>2, TimesOne
  <2>4. Course(Qubits, 1, << >>, Cleared(Qubits), IdentityOp, IdentityOp)
    BY <1>4, <2>2, <2>3, CourseDone
  <2>5. QED
    BY <1>1, <2>1, <2>4, UnitOne
<1>13. QED
  BY <1>10, <1>11, <1>12

LEMMA ReadOnCourse ==
  ASSUME Typed, OnCourse, NEW i \in input.instructions, ReadGate(i)
  PROVE  \E k \in Units : Course(Qubits, k, todo', pending', out'.op, want')
<1>1. /\ NextInstruction /\ i.name \notin Boundaries /\ todo = << >>
      /\ want' = GateAfter(i, want) /\ todo' = Lowered(i) /\ pending' = pending /\ out' = out
  BY DEF ReadGate, NextInstruction
<1>2. GateIn(Qubits, i)
  BY <1>1, BoundaryFacts
<1>3. want \in OperatorsOver(Qubits) /\ \A c \in Vectors(Qubits) : want[c] \in StatesOver(Qubits)
  BY DEF Typed, OperatorsOver
<1>4. PICK k \in Units : Course(Qubits, k, << >>, pending, out.op, want)
  BY <1>1 DEF OnCourse
<1>5. k \in Amps
  BY DEF Units
<1>6. ASSUME NEW c \in Vectors(Qubits)
      PROVE Carries(Qubits, Lowered(i), Held(Qubits, pending, Qubits, out.op[c]), Times(Qubits, k, GateAfter(i, want)[c]))
  <2> DEFINE f == Times(Qubits, k, want[c])
  <2>1. Held(Qubits, pending, Qubits, out.op[c]) = f
    BY <1>4, CourseDone
  <2>2. f \in StatesOver(Qubits)
    BY <1>3, <1>5, TimesTyped
  <2>3. GateOn(Qubits, i, f) = Times(Qubits, k, GateOn(Qubits, i, want[c]))
    BY <1>2, <1>3, <1>5, GateTimes
  <2>4. GateAfter(i, want)[c] = GateOn(Qubits, i, want[c])
    BY <1>2, <1>3, GateOpTyped
  <2> HIDE DEF f
  <2>5. Carries(Qubits, Lowered(i), f, GateOn(Qubits, i, f))
    BY <1>2, <2>2, LoweringExact
  <2>6. QED
    BY <2>1, <2>3, <2>4, <2>5
<1>7. Course(Qubits, k, Lowered(i), pending, out.op, GateAfter(i, want))
  BY <1>6 DEF Course
<1>8. QED
  BY <1>1, <1>7

LEMMA NextOnCourse ==
  ASSUME Typed, OnCourse, [Next]_vars
  PROVE  OnCourse'
<1>1. Qubits' = Qubits
  BY DEF Next, vars, Qubits
<1>2. SUFFICES \E k \in Units : Course(Qubits, k, todo', pending', out'.op, want')
  BY <1>1 DEF OnCourse
<1>3. CASE vars' = vars
  BY <1>3 DEF vars, OnCourse
<1>4. ASSUME NEW i \in input.instructions, ReadGate(i) \/ Barrier(i) \/ Measure(i) \/ Reset(i)
      PROVE  \E k \in Units : Course(Qubits, k, todo', pending', out'.op, want')
  BY <1>4, ReadOnCourse, BoundaryOnCourse
<1>5. CASE Absorb \/ CrossCX \/ FlushCX \/ RawGate
  BY <1>5, StepOnCourse
<1>6. QED
  BY <1>3, <1>4, <1>5 DEF Next

LEMMA InitOnCourse == Init => OnCourse
<1> SUFFICES ASSUME Init PROVE OnCourse
  OBVIOUS
<1>1. /\ IsFiniteSet(Qubits) /\ todo = << >> /\ pending = [q \in Qubits |-> Empty]
      /\ out.op = IdentityOp /\ want = IdentityOp
  BY InputFacts DEF Init, Qubits
<1>2. Empty.matrix = Identity /\ Identity \in U3Matrices
  BY EmptySound DEF Empty, Sound
<1>3. Holds(Qubits, pending) /\ \A q \in Qubits : pending[q].matrix = Identity
  BY <1>1, <1>2 DEF Holds
<1>4. \A c \in Vectors(Qubits) : IdentityOp[c] \in StatesOver(Qubits)
  BY IdentityOpTyped DEF OperatorsOver
<1>5. \A c \in Vectors(Qubits) : /\ Held(Qubits, pending, Qubits, IdentityOp[c]) = IdentityOp[c]
                                /\ Times(Qubits, 1, IdentityOp[c]) = IdentityOp[c]
  BY <1>1, <1>3, <1>4, FlushedState, TimesOne
<1>6. Course(Qubits, 1, << >>, pending, IdentityOp, IdentityOp)
  BY <1>4, <1>5, CourseDone
<1>7. QED
  BY <1>1, <1>6, UnitOne DEF OnCourse

LEMMA CourseIsEquivalent ==
  ASSUME Typed, OnCourse
  PROVE  Equivalent
<1> SUFFICES ASSUME todo = << >> PROVE SameUpToPhase(want, Final.op)
  BY DEF Equivalent
<1>1. PICK k \in Units : Course(Qubits, k, << >>, pending, out.op, want)
  BY DEF OnCourse
<1>2. IsFiniteSet(Qubits) /\ Holds(Qubits, pending) /\ out \in EmittedOver(Qubits)
  BY TypedFacts DEF Typed
<1>3. ASSUME NEW c \in Vectors(Qubits), NEW r \in Vectors(Qubits)
      PROVE Final.op[c][r] = (k * want[c][r]) % P17
  <2>1. Final.op[c] = Held(Qubits, pending, Qubits, out.op[c])
    BY <1>2, FlushedColumns DEF Final
  <2>2. Final.op[c] = Times(Qubits, k, want[c])
    BY <1>1, <2>1, CourseDone
  <2>3. QED
    BY <2>2, TimesAt
<1>4. k \in Amps \ {0}
  BY DEF Units
<1>5. QED
  BY <1>3, <1>4 DEF SameUpToPhase, Basis, Vectors

\* The optimizer keeps the meaning of every circuit.  Absorbing gates into what
\* is pending, lowering swap, cz, rzz, ccz and ccx, flushing in any order,
\* reversing a cx between two pairs of exact H gates and projecting onto a
\* measured outcome all leave the circuit emitted, followed by what is pending,
\* the circuit read so far up to a global phase.
THEOREM BoundaryKeepsMeaning == Spec => []Equivalent
<1>1. Typed /\ OnCourse /\ [Next]_vars => OnCourse'
  BY NextOnCourse
<1>2. Typed /\ OnCourse => Equivalent
  BY CourseIsEquivalent
<1>3. QED
  BY <1>1, <1>2, InitOnCourse, AlwaysTyped, PTL DEF Spec
=============================================================================
