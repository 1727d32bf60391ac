------------------------------ MODULE FoldFacts ------------------------------
(***************************************************************************)
(* What a fold over a sequence and a sum over a finite set are, for an     *)
(* operator and functions that are not known.  The induction principles    *)
(* of the library take a predicate; the ones here take the set of what     *)
(* satisfies it, which is a value.                                         *)
(***************************************************************************)
EXTENDS Integers, Sequences, FiniteSetsExt, FiniteSetTheorems, TLAPS

CONSTANT Op(_, _)

-----------------------------------------------------------------------------
LEMMA FiniteDescent ==
    ASSUME NEW S, IsFiniteSet(S), NEW P, {} \in P,
           \A T \in SUBSET S : T # {} /\ (\A x \in T : T \ {x} \in P) => T \in P
    PROVE  SUBSET S \subseteq P
<1> DEFINE R == StrictSubsetOrdering(S)
           Bad == (SUBSET S) \ P
<1>1. IsWellFoundedOn(R, SUBSET S)
  BY FS_StrictSubsetOrderingWellFounded, FS_FiniteSubsetsOfFinite
<1>2. ASSUME Bad # {} PROVE FALSE
  <2>1. PICK T \in Bad : \A y \in Bad : ~(<<y, T>> \in R)
    <3> HIDE DEF R
    <3>1. Bad \subseteq SUBSET S
      OBVIOUS
    <3> HIDE DEF Bad
    <3>2. QED
      BY <1>1, <1>2, <3>1, WFMin
  <2>2. ASSUME NEW x \in T PROVE T \ {x} \in P
    <3>1. <<T \ {x}, T>> \in R
      BY DEF StrictSubsetOrdering
    <3>2. QED
      BY <2>1, <3>1
  <2>3. QED
    BY <2>1, <2>2
<1>3. QED
  BY <1>2

LEMMA FiniteInduction ==
    ASSUME NEW S, IsFiniteSet(S), NEW P, {} \in P,
           \A T \in SUBSET S : \A x \in S \ T : T \in P => T \union {x} \in P
    PROVE  SUBSET S \subseteq P
<1>1. ASSUME NEW T \in SUBSET S, T # {}, \A x \in T : T \ {x} \in P
      PROVE  T \in P
  <2>1. PICK x \in T : T \ {x} \in P
    BY <1>1
  <2>2. (T \ {x}) \union {x} = T /\ T \ {x} \in SUBSET S /\ x \in S \ (T \ {x})
    OBVIOUS
  <2>3. (T \ {x}) \union {x} \in P
    BY <2>1, <2>2
  <2>4. QED
    BY <2>2, <2>3
<1>2. QED
  BY <1>1, FiniteDescent

LEMMA UpTo ==
    ASSUME NEW n \in Nat, NEW P, 0 \in P, \A k \in 0 .. n - 1 : k \in P => k + 1 \in P
    PROVE  0 .. n \subseteq P
<1>1. SUFFICES ASSUME {k \in 0 .. n : k \notin P} # {} PROVE FALSE
  OBVIOUS
<1> DEFINE Bad == {k \in 0 .. n : k \notin P}
           Cuts == {T \in SUBSET (1 .. n) : \E k \in Bad : T = 1 .. k}
           R == StrictSubsetOrdering(1 .. n)
<1>0. IsFiniteSet(1 .. n)
  BY FS_Interval
<1>2. IsWellFoundedOn(R, SUBSET (1 .. n))
  BY <1>0, FS_StrictSubsetOrderingWellFounded, FS_FiniteSubsetsOfFinite
<1>3. PICK k0 \in Bad : TRUE
  BY <1>1
<1>4. 1 .. k0 \in Cuts
  OBVIOUS
<1>5. PICK T \in Cuts : \A U \in Cuts : ~(<<U, T>> \in R)
  <2>1. Cuts \subseteq SUBSET (1 .. n) /\ Cuts # {}
    BY <1>4
  <2> HIDE DEF Cuts, R
  <2>2. QED
    BY <1>2, <2>1, WFMin
<1>6. PICK k \in Bad : T = 1 .. k
  OBVIOUS
<1>7. k # 0 /\ k - 1 \in 0 .. n - 1
  OBVIOUS
<1>8. k - 1 \notin P
  BY <1>7
<1>9. 1 .. k - 1 \in Cuts
  BY <1>7, <1>8
<1>10. <<1 .. k - 1, T>> \in R
  <2>1. k \in 1 .. k /\ k \notin 1 .. k - 1 /\ 1 .. k - 1 \subseteq 1 .. k /\ 1 .. k \subseteq 1 .. n
    BY <1>7
  <2>2. QED
    BY <2>1, <1>6 DEF StrictSubsetOrdering
<1>11. QED
  BY <1>5, <1>9, <1>10

\* A finite set of integers has a least and a greatest element.
LEMMA Extremes ==
    ASSUME NEW S, IsFiniteSet(S), S \subseteq Int, S # {}
    PROVE  /\ \E x \in S : \A y \in S : x <= y
           /\ \E x \in S : \A y \in S : x >= y
<1> DEFINE P == {T \in SUBSET S : T # {} => /\ \E x \in T : \A y \in T : x <= y
                                           /\ \E x \in T : \A y \in T : x >= y}
<1>1. {} \in P
  OBVIOUS
<1>2. ASSUME NEW T \in SUBSET S, NEW z \in S \ T, T \in P
      PROVE  T \union {z} \in P
  <2>1. CASE T = {}
    BY <2>1
  <2>2. CASE T # {}
    <3>1. PICK low \in T : \A y \in T : low <= y
      BY <1>2, <2>2
    <3>2. PICK high \in T : \A y \in T : high >= y
      BY <1>2, <2>2
    <3>3. \E x \in T \union {z} : \A y \in T \union {z} : x <= y
      <4>1. CASE low <= z
        BY <3>1, <4>1
      <4>2. CASE ~(low <= z)
        BY <3>1, <4>2
      <4>3. QED
        BY <4>1, <4>2
    <3>4. \E x \in T \union {z} : \A y \in T \union {z} : x >= y
      <4>1. CASE high >= z
        BY <3>2, <4>1
      <4>2. CASE ~(high >= z)
        BY <3>2, <4>2
      <4>3. QED
        BY <4>1, <4>2
    <3>5. QED
      BY <3>3, <3>4
  <2>3. QED
    BY <2>1, <2>2
<1>3. SUBSET S \subseteq P
  <2> HIDE DEF P
  <2>1. QED
    BY <1>1, <1>2, FiniteInduction
<1>4. QED
  BY <1>3

-----------------------------------------------------------------------------
(***************************************************************************)
(* FoldLeft(Op, b, s) is Folded(b, s), by definition.                      *)
(***************************************************************************)
Folds(f, S, b, s) ==
    f = [t \in SUBSET S |-> IF t = {} THEN b ELSE Op(f[t \ {Max(t)}], s[Max(t)])]

Folded(b, s) == (CHOOSE f : Folds(f, DOMAIN s, b, s))[DOMAIN s]

LEMMA MaxOfInterval ==
    ASSUME NEW n \in Nat, NEW t \in SUBSET (1 .. n + 1), n + 1 \in t
    PROVE  Max(t) = n + 1
<1>1. \A y \in t : n + 1 >= y /\ y \in Int
  OBVIOUS
<1>2. Max(t) \in t /\ \A y \in t : Max(t) >= y
  BY <1>1 DEF Max
<1> DEFINE m == Max(t)
<1>3. m \in Int /\ n + 1 >= m /\ m >= n + 1
  <2> HIDE DEF m
  <2>1. m \in t /\ \A y \in t : m >= y
    BY <1>2 DEF m
  <2>2. QED
    BY <1>1, <2>1
<1>4. m = n + 1
  <2> HIDE DEF m
  <2>1. QED
    BY <1>3
<1>5. QED
  BY <1>4

LEMMA MaxIsIn ==
    ASSUME NEW n \in Nat, NEW t \in SUBSET (1 .. n), t # {}
    PROVE  Max(t) \in t
<1> DEFINE P == {T \in SUBSET (1 .. n) : T # {} => \E x \in T : \A y \in T : x >= y}
<1>1. {} \in P
  OBVIOUS
<1>2. ASSUME NEW T \in SUBSET (1 .. n), NEW x \in (1 .. n) \ T, T \in P
      PROVE  T \union {x} \in P
  <2>1. CASE T = {}
    BY <2>1
  <2>2. CASE T # {}
    <3>1. PICK y \in T : \A z \in T : y >= z
      BY <1>2, <2>2
    <3>2. \E m \in T \union {x} : \A z \in T \union {x} : m >= z
      <4>1. CASE x >= y
        BY <4>1, <3>1
      <4>2. CASE ~(x >= y)
        BY <4>2, <3>1
      <4>3. QED
        BY <4>1, <4>2
    <3>3. QED
      BY <3>2
  <2>3. QED
    BY <2>1, <2>2
<1>3. IsFiniteSet(1 .. n)
  BY FS_Interval
<1>4. SUBSET (1 .. n) \subseteq P
  <2>1. \A T \in SUBSET (1 .. n) : \A x \in (1 .. n) \ T : T \in P => T \union {x} \in P
    BY <1>2
  <2> HIDE DEF P
  <2> DEFINE S == 1 .. n
  <2>2. IsFiniteSet(S) /\ \A T \in SUBSET S : \A x \in S \ T : T \in P => T \union {x} \in P
    BY <1>3, <2>1
  <2>4. SUBSET S \subseteq P
    <3> HIDE DEF S
    <3>1. QED
      BY <1>1, <2>2, FiniteInduction
  <2>3. QED
    BY <2>4
<1>5. \E x \in t : \A y \in t : x >= y
  BY <1>4
<1>6. QED
  BY <1>5 DEF Max

\* There is a fold over every sequence: that over one element more asks the one
\* before it.
LEMMA FoldExists ==
    ASSUME NEW n \in Nat, NEW b, NEW s
    PROVE  \E f : Folds(f, 1 .. n, b, s)
<1> DEFINE P == {k \in 0 .. n : \E f : Folds(f, 1 .. k, b, s)}
<1>1. 0 \in P
  <2> DEFINE f == [t \in SUBSET (1 .. 0) |-> b]
  <2>1. \A t \in SUBSET (1 .. 0) : t = {}
    OBVIOUS
  <2>2. Folds(f, 1 .. 0, b, s)
    BY <2>1 DEF Folds
  <2> HIDE DEF f
  <2>3. QED
    BY <2>2
<1>2. ASSUME NEW k \in 0 .. n - 1, k \in P
      PROVE  k + 1 \in P
  <2>1. PICK f : Folds(f, 1 .. k, b, s)
    BY <1>2
  <2> DEFINE g == [t \in SUBSET (1 .. k + 1) |->
                     IF k + 1 \in t THEN Op(f[t \ {k + 1}], s[k + 1]) ELSE f[t]]
             Next(t) == IF t = {} THEN b ELSE Op(g[t \ {Max(t)}], s[Max(t)])
  <2>2. ASSUME NEW t \in SUBSET (1 .. k + 1)
        PROVE  g[t] = Next(t)
    <3>1. CASE k + 1 \in t
      <4>1. Max(t) = k + 1
        BY <3>1, MaxOfInterval
      <4>2. t \ {k + 1} \in SUBSET (1 .. k) /\ t \ {k + 1} \in SUBSET (1 .. k + 1)
        OBVIOUS
      <4>3. g[t \ {k + 1}] = f[t \ {k + 1}]
        BY <4>2
      <4>4. QED
        BY <3>1, <4>1, <4>3
    <3>2. CASE k + 1 \notin t
      <4>1. t \in SUBSET (1 .. k)
        BY <3>2
      <4>2. g[t] = f[t]
        BY <3>2
      <4>3. CASE t = {}
        BY <4>1, <4>2, <4>3, <2>1 DEF Folds
      <4>4. CASE t # {}
        <5>1. Max(t) \in t
          BY <4>1, <4>4, MaxIsIn
        <5>2. f[t] = Op(f[t \ {Max(t)}], s[Max(t)])
          BY <4>1, <4>4, <2>1 DEF Folds
        <5>3. g[t \ {Max(t)}] = f[t \ {Max(t)}]
          BY <3>2
        <5>4. QED
          BY <4>2, <4>4, <5>2, <5>3
      <4>5. QED
        BY <4>3, <4>4
    <3>3. QED
      BY <3>1, <3>2
  <2>3. g = [t \in SUBSET (1 .. k + 1) |-> Next(t)]
    <3>1. g = [t \in SUBSET (1 .. k + 1) |-> g[t]]
      OBVIOUS
    <3> HIDE DEF g, Next
    <3>2. QED
      BY <2>2, <3>1
  <2>4. Folds(g, 1 .. k + 1, b, s)
    BY <2>3 DEF Folds
  <2> HIDE DEF g
  <2>5. QED
    BY <2>4
<1>3. 0 .. n \subseteq P
  <2> HIDE DEF P
  <2>1. QED
    BY <1>1, <1>2, UpTo
<1>4. QED
  BY <1>3

LEMMA Cut ==
    ASSUME NEW n \in Nat, NEW k \in 0 .. n - 1
    PROVE  /\ 1 .. k + 1 \in SUBSET (1 .. n) /\ 1 .. k + 1 # {} /\ (1 .. k + 1) \ {k + 1} = 1 .. k
           /\ k \in Nat /\ k + 1 \in 1 .. n
<1>1. k + 1 \in 1 .. k + 1 /\ k \in Nat
  OBVIOUS
<1>2. \A i \in 1 .. k + 1 : i \in 1 .. n
  OBVIOUS
<1>3. \A i : i \in 1 .. k <=> i \in 1 .. k + 1 /\ i # k + 1
  OBVIOUS
<1>4. QED
  BY <1>1, <1>2, <1>3

LEMMA FoldStep ==
    ASSUME NEW n \in Nat, NEW b, NEW s, NEW f, Folds(f, 1 .. n, b, s)
    PROVE  /\ f[1 .. 0] = b
           /\ \A k \in 0 .. n - 1 : f[1 .. k + 1] = Op(f[1 .. k], s[k + 1])
<1>1. f[1 .. 0] = b
  <2>1. 1 .. 0 = {} /\ {} \in SUBSET (1 .. n)
    OBVIOUS
  <2>2. f[{}] = b
    BY <2>1 DEF Folds
  <2>3. QED
    BY <2>1, <2>2
<1>2. ASSUME NEW k \in 0 .. n - 1
      PROVE  f[1 .. k + 1] = Op(f[1 .. k], s[k + 1])
  <2>1. Max(1 .. k + 1) = k + 1
    <3>1. k \in Nat /\ 1 .. k + 1 \in SUBSET (1 .. k + 1) /\ k + 1 \in 1 .. k + 1
      OBVIOUS
    <3>2. QED
      BY <3>1, MaxOfInterval
  <2> DEFINE t == 1 .. k + 1
  <2>2. t \in SUBSET (1 .. n) /\ t # {} /\ t \ {k + 1} = 1 .. k /\ Max(t) = k + 1
    BY <2>1, Cut
  <2> HIDE DEF t
  <2>3. f[t] = Op(f[t \ {Max(t)}], s[Max(t)])
    BY <2>2 DEF Folds
  <2>4. f[t] = Op(f[1 .. k], s[k + 1])
    BY <2>2, <2>3
  <2>5. QED
    BY <2>4 DEF t
<1>3. QED
  BY <1>1, <1>2

\* Any fold agrees with any other, over a sequence that agrees.
Agree(r, s, n) == \A i \in 1 .. n : r[i] = s[i]

LEMMA FoldsAgree ==
    ASSUME NEW n \in Nat, NEW m \in Nat, n <= m, NEW b, NEW s, NEW r, Agree(r, s, n),
           NEW f, Folds(f, 1 .. m, b, s), NEW g, Folds(g, 1 .. n, b, r)
    PROVE  \A k \in 0 .. n : f[1 .. k] = g[1 .. k]
<1> DEFINE P == {k \in 0 .. n : f[1 .. k] = g[1 .. k]}
<1>1. 0 \in P
  <2>1. f[1 .. 0] = b /\ g[1 .. 0] = b
    BY FoldStep
  <2>2. QED
    BY <2>1
<1>2. ASSUME NEW k \in 0 .. n - 1, k \in P
      PROVE  k + 1 \in P
  <2>1. k \in 0 .. m - 1 /\ k + 1 \in 1 .. n /\ k + 1 \in 0 .. n
    OBVIOUS
  <2>2. f[1 .. k + 1] = Op(f[1 .. k], s[k + 1])
    BY <2>1, FoldStep
  <2>3. g[1 .. k + 1] = Op(g[1 .. k], r[k + 1])
    BY FoldStep
  <2>4. QED
    BY <1>2, <2>1, <2>2, <2>3 DEF Agree
<1>3. 0 .. n \subseteq P
  <2> HIDE DEF P
  <2>1. QED
    BY <1>1, <1>2, UpTo
<1>4. QED
  BY <1>3

LEMMA FoldedIsFold ==
    ASSUME NEW n \in Nat, NEW b, NEW s, DOMAIN s = 1 .. n
    PROVE  \E f : Folds(f, 1 .. n, b, s) /\ Folded(b, s) = f[1 .. n]
  BY FoldExists DEF Folded

LEMMA FoldedEmpty ==
    ASSUME NEW b, NEW s, DOMAIN s = {}
    PROVE  Folded(b, s) = b
<1>1. {} = 1 .. 0 /\ 0 \in Nat
  OBVIOUS
<1>2. PICK f : Folds(f, {}, b, s) /\ Folded(b, s) = f[{}]
  BY <1>1, FoldedIsFold
<1>3. QED
  BY <1>2 DEF Folds

\* The last element is folded in last.
LEMMA FoldedLast ==
    ASSUME NEW n \in Nat, NEW b, NEW s, DOMAIN s = 1 .. n + 1,
           NEW r, DOMAIN r = 1 .. n, Agree(r, s, n)
    PROVE  Folded(b, s) = Op(Folded(b, r), s[n + 1])
<1>1. PICK f : Folds(f, 1 .. n + 1, b, s) /\ Folded(b, s) = f[1 .. n + 1]
  BY FoldedIsFold
<1>2. PICK g : Folds(g, 1 .. n, b, r) /\ Folded(b, r) = g[1 .. n]
  BY FoldedIsFold
<1>3. f[1 .. n] = g[1 .. n]
  <2> DEFINE m == n + 1
  <2>1. n \in 0 .. n /\ m \in Nat /\ n <= m
    OBVIOUS
  <2>2. Folds(f, 1 .. m, b, s)
    BY <1>1
  <2> HIDE DEF m
  <2>3. \A k \in 0 .. n : f[1 .. k] = g[1 .. k]
    BY <1>2, <2>1, <2>2, FoldsAgree
  <2>4. QED
    BY <2>1, <2>3
<1>4. f[1 .. n + 1] = Op(f[1 .. n], s[n + 1])
  <2>1. n \in 0 .. (n + 1) - 1 /\ n + 1 \in Nat
    OBVIOUS
  <2>2. QED
    BY <1>1, <2>1, FoldStep
<1>5. QED
  BY <1>1, <1>2, <1>3, <1>4

\* The fold of a sequence, prefix by prefix.
LEMMA FoldedPrefix ==
    ASSUME NEW S, NEW s \in Seq(S), NEW b
    PROVE  /\ Folded(b, SubSeq(s, 1, 0)) = b
           /\ \A n \in 1 .. Len(s) :
                 Folded(b, SubSeq(s, 1, n)) = Op(Folded(b, SubSeq(s, 1, n - 1)), s[n])
<1>1. Folded(b, SubSeq(s, 1, 0)) = b
  <2> DEFINE e == SubSeq(s, 1, 0)
  <2>1. DOMAIN e = {}
    OBVIOUS
  <2> HIDE DEF e
  <2>2. QED
    BY <2>1, FoldedEmpty DEF e
<1>2. ASSUME NEW n \in 1 .. Len(s)
      PROVE  Folded(b, SubSeq(s, 1, n)) = Op(Folded(b, SubSeq(s, 1, n - 1)), s[n])
  <2> DEFINE m == n - 1
             t == SubSeq(s, 1, n)
             r == SubSeq(s, 1, m)
  <2>1. /\ m \in Nat /\ n = m + 1
        /\ DOMAIN t = 1 .. n /\ \A i \in 1 .. n : t[i] = s[i]
        /\ DOMAIN r = 1 .. m /\ \A i \in 1 .. m : r[i] = s[i]
    <3>1. m \in Nat /\ n = m + 1 /\ Len(s) \in Nat
      OBVIOUS
    <3>2. DOMAIN t = 1 .. n /\ \A i \in 1 .. n : t[i] = s[i]
      OBVIOUS
    <3>3. DOMAIN r = 1 .. m /\ \A i \in 1 .. m : r[i] = s[i]
      OBVIOUS
    <3> QED
      BY <3>1, <3>2, <3>3
  <2>2. Agree(r, t, m) /\ t[m + 1] = s[n] /\ DOMAIN t = 1 .. m + 1
    BY <2>1 DEF Agree
  <2> HIDE DEF t, r, m
  <2>3. Folded(b, t) = Op(Folded(b, r), t[m + 1])
    BY <2>1, <2>2, FoldedLast
  <2>4. QED
    BY <2>2, <2>3 DEF t, r, m
<1>3. QED
  BY <1>1, <1>2

LEMMA FoldedKeeps ==
    ASSUME NEW n \in Nat, NEW s, DOMAIN s = 1 .. n, NEW P, NEW b \in P,
           \A v \in P : \A i \in 1 .. n : Op(v, s[i]) \in P
    PROVE  Folded(b, s) \in P
<1>1. PICK f : Folds(f, 1 .. n, b, s) /\ Folded(b, s) = f[1 .. n]
  BY FoldedIsFold
<1> DEFINE Q == {k \in 0 .. n : f[1 .. k] \in P}
<1>2. 0 \in Q
  <2>1. f[1 .. 0] = b
    BY <1>1, FoldStep
  <2>2. QED
    BY <2>1
<1>3. ASSUME NEW k \in 0 .. n - 1, k \in Q
      PROVE  k + 1 \in Q
  <2>1. f[1 .. k + 1] = Op(f[1 .. k], s[k + 1]) /\ k + 1 \in 1 .. n /\ k + 1 \in 0 .. n
    BY <1>1, FoldStep
  <2>2. QED
    BY <1>3, <2>1
<1>4. 0 .. n \subseteq Q
  <2> HIDE DEF Q
  <2>1. QED
    BY <1>2, <1>3, UpTo
<1>5. QED
  BY <1>1, <1>4
\* The values a fold goes through.
LEMMA FoldedRun ==
    ASSUME NEW n \in Nat, NEW b, NEW s, DOMAIN s = 1 .. n
    PROVE  \E v : /\ v[0] = b /\ v[n] = Folded(b, s)
                  /\ \A k \in 0 .. n - 1 : v[k + 1] = Op(v[k], s[k + 1])
<1>1. PICK f : Folds(f, 1 .. n, b, s) /\ Folded(b, s) = f[1 .. n]
  BY FoldedIsFold
<1> DEFINE v == [k \in 0 .. n |-> f[1 .. k]]
<1>2. v[0] = b /\ v[n] = Folded(b, s)
  <2>1. f[1 .. 0] = b
    BY <1>1, FoldStep
  <2>2. QED
    BY <1>1, <2>1
<1>3. \A k \in 0 .. n - 1 : v[k + 1] = Op(v[k], s[k + 1])
  <2> SUFFICES ASSUME NEW k \in 0 .. n - 1 PROVE v[k + 1] = Op(v[k], s[k + 1])
    OBVIOUS
  <2>1. f[1 .. k + 1] = Op(f[1 .. k], s[k + 1]) /\ k + 1 \in 0 .. n /\ k \in 0 .. n
    BY <1>1, FoldStep
  <2>2. QED
    BY <2>1
<1> HIDE DEF v
<1>4. QED
  BY <1>2, <1>3

\* A fold over one sequence after another.
LEMMA FoldedConcat ==
    ASSUME NEW n \in Nat, NEW m \in Nat, NEW b,
           NEW s, DOMAIN s = 1 .. n, NEW t, DOMAIN t = 1 .. m,
           NEW c, DOMAIN c = 1 .. n + m, Agree(s, c, n), \A i \in 1 .. m : c[n + i] = t[i]
    PROVE  Folded(b, c) = Folded(Folded(b, s), t)
<1>1. PICK f : Folds(f, 1 .. n + m, b, c) /\ Folded(b, c) = f[1 .. n + m]
  <2> DEFINE k == n + m
  <2>1. k \in Nat /\ DOMAIN c = 1 .. k
    OBVIOUS
  <2> HIDE DEF k
  <2>2. \E f : Folds(f, 1 .. k, b, c) /\ Folded(b, c) = f[1 .. k]
    BY <2>1, FoldedIsFold
  <2>3. QED
    BY <2>2 DEF k
<1>2. PICK g : Folds(g, 1 .. n, b, s) /\ Folded(b, s) = g[1 .. n]
  BY FoldedIsFold
<1>3. PICK h : Folds(h, 1 .. m, Folded(b, s), t) /\ Folded(Folded(b, s), t) = h[1 .. m]
  BY FoldedIsFold
<1>4. f[1 .. n] = g[1 .. n]
  <2> DEFINE k == n + m
  <2>1. n \in 0 .. n /\ k \in Nat /\ n <= k /\ Folds(f, 1 .. k, b, c)
    BY <1>1
  <2> HIDE DEF k
  <2>2. \A j \in 0 .. n : f[1 .. j] = g[1 .. j]
    BY <1>2, <2>1, FoldsAgree
  <2>3. QED
    BY <2>1, <2>2
<1> DEFINE P == {j \in 0 .. m : f[1 .. n + j] = h[1 .. j]}
<1>5. 0 \in P
  <2>1. h[1 .. 0] = Folded(b, s)
    BY <1>3, FoldStep
  <2>2. n + 0 = n
    OBVIOUS
  <2>3. f[1 .. n + 0] = h[1 .. 0]
    BY <1>2, <1>4, <2>1, <2>2
  <2>4. QED
    BY <2>3
<1>6. ASSUME NEW j \in 0 .. m - 1, j \in P
      PROVE  j + 1 \in P
  <2> DEFINE k == n + j
             w == n + m
  <2>1. k \in 0 .. w - 1 /\ w \in Nat /\ Folds(f, 1 .. w, b, c)
    BY <1>1
  <2>2. f[1 .. k + 1] = Op(f[1 .. k], c[k + 1])
    <3> HIDE DEF k, w
    <3>1. QED
      BY <2>1, FoldStep
  <2>3. h[1 .. j + 1] = Op(h[1 .. j], t[j + 1])
    BY <1>3, FoldStep
  <2>4. c[k + 1] = t[j + 1] /\ k + 1 = n + (j + 1) /\ j + 1 \in 0 .. m
    <3>1. j + 1 \in 1 .. m /\ k + 1 = n + (j + 1)
      OBVIOUS
    <3>2. c[n + (j + 1)] = t[j + 1]
      BY <3>1
    <3>3. QED
      BY <3>1, <3>2
  <2>5. f[1 .. k] = h[1 .. j]
    BY <1>6
  <2> HIDE DEF k
  <2>6. f[1 .. n + (j + 1)] = h[1 .. j + 1]
    BY <2>2, <2>3, <2>4, <2>5
  <2>7. QED
    BY <2>4, <2>6
<1>7. 0 .. m \subseteq P
  <2> HIDE DEF P
  <2>1. QED
    BY <1>5, <1>6, UpTo
<1>8. f[1 .. n + m] = h[1 .. m]
  BY <1>7
<1>9. QED
  BY <1>1, <1>3, <1>8
-----------------------------------------------------------------------------
(***************************************************************************)
(* MapThenSumSet(LAMBDA x : f[x], S) is SumOver(f, S), by definition.      *)
(***************************************************************************)
Sums(g, f, S) ==
    g = [t \in SUBSET S |-> IF t = {} THEN 0
                            ELSE f[CHOOSE x \in t : TRUE] + g[t \ {CHOOSE x \in t : TRUE}]]

SumOver(f, S) == (CHOOSE g : Sums(g, f, S))[S]

\* Whichever element is taken out first.
Additive(g, f, S) ==
    /\ g \in [SUBSET S -> Int] /\ g[{}] = 0
    /\ \A t \in SUBSET S : \A x \in t : g[t] = f[x] + g[t \ {x}]

LEMMA AdditiveExists ==
    ASSUME NEW S, IsFiniteSet(S), NEW f, \A x \in S : f[x] \in Int
    PROVE  \E g : Additive(g, f, S)
<1> DEFINE P == {T \in SUBSET S : \E g : Additive(g, f, T)}
<1>1. {} \in P
  <2> DEFINE g == [t \in SUBSET {} |-> 0]
  <2>1. g \in [SUBSET {} -> Int] /\ g[{}] = 0 /\ \A t \in SUBSET {} : \A x \in t : FALSE
    OBVIOUS
  <2> HIDE DEF g
  <2>2. Additive(g, f, {})
    BY <2>1 DEF Additive
  <2>3. QED
    BY <2>2
<1>2. ASSUME NEW T \in SUBSET S, NEW x \in S \ T, T \in P
      PROVE  T \union {x} \in P
  <2>1. PICK g : Additive(g, f, T)
    BY <1>2
  <2> DEFINE U == T \union {x}
             h == [t \in SUBSET U |-> IF x \in t THEN f[x] + g[t \ {x}] ELSE g[t]]
  <2>2. g \in [SUBSET T -> Int] /\ g[{}] = 0 /\ f[x] \in Int
    BY <2>1 DEF Additive
  <2>3. \A t \in SUBSET U : t \ {x} \in SUBSET T /\ (x \notin t => t \in SUBSET T)
    OBVIOUS
  <2>4. \A t \in SUBSET U : h[t] \in Int
    BY <2>2, <2>3
  <2>5. h \in [SUBSET U -> Int] /\ h[{}] = 0
    BY <2>2, <2>4
  <2>6. ASSUME NEW t \in SUBSET U, NEW y \in t
        PROVE  h[t] = f[y] + h[t \ {y}]
    <3>1. CASE y = x
      <4>1. h[t] = f[x] + g[t \ {x}] /\ h[t \ {x}] = g[t \ {x}]
        BY <3>1
      <4>2. QED
        BY <3>1, <4>1
    <3>2. CASE y # x /\ x \in t
      <4> DEFINE r == t \ {x}
      <4>1. r \in SUBSET T /\ y \in r /\ r \ {y} \in SUBSET T
        BY <3>2, <2>3
      <4>2. g[r] = f[y] + g[r \ {y}]
        BY <2>1, <4>1 DEF Additive
      <4>3. h[t] = f[x] + g[r]
        BY <3>2
      <4>4. x \in t \ {y} /\ (t \ {y}) \ {x} = r \ {y} /\ t \ {y} \in SUBSET U
        BY <3>2
      <4>5. h[t \ {y}] = f[x] + g[r \ {y}]
        BY <4>4
      <4>6. f[x] \in Int /\ f[y] \in Int /\ g[r \ {y}] \in Int
        BY <2>2, <3>2, <4>1
      <4> HIDE DEF h, r
      <4>7. QED
        BY <4>2, <4>3, <4>5, <4>6
    <3>3. CASE x \notin t
      <4>1. t \in SUBSET T /\ t \ {y} \in SUBSET U /\ h[t] = g[t] /\ h[t \ {y}] = g[t \ {y}]
        BY <3>3
      <4>2. QED
        BY <2>1, <4>1 DEF Additive
    <3>4. QED
      BY <3>1, <3>2, <3>3
  <2> HIDE DEF h
  <2>7. Additive(h, f, U)
    BY <2>5, <2>6 DEF Additive
  <2>8. QED
    BY <2>7
<1>3. SUBSET S \subseteq P
  <2> HIDE DEF P
  <2>1. QED
    BY <1>1, <1>2, FiniteInduction
<1>4. QED
  BY <1>3

LEMMA SumIsAdditive ==
    ASSUME NEW S, IsFiniteSet(S), NEW f, NEW g, Additive(g, f, S)
    PROVE  SumOver(f, S) = g[S]
<1>1. Sums(g, f, S)
  <2> DEFINE Next(t) == IF t = {} THEN 0
                        ELSE f[CHOOSE x \in t : TRUE] + g[t \ {CHOOSE x \in t : TRUE}]
  <2>1. ASSUME NEW t \in SUBSET S PROVE g[t] = Next(t)
    <3>1. CASE t = {}
      BY <3>1 DEF Additive
    <3>2. CASE t # {}
      <4>1. (CHOOSE x \in t : TRUE) \in t
        BY <3>2
      <4>2. QED
        BY <3>2, <4>1 DEF Additive
    <3>3. QED
      BY <3>1, <3>2
  <2>2. g = [t \in SUBSET S |-> g[t]]
    BY DEF Additive
  <2> HIDE DEF Next
  <2>3. g = [t \in SUBSET S |-> Next(t)]
    BY <2>1, <2>2
  <2>4. QED
    BY <2>3 DEF Sums, Next
<1> DEFINE h == CHOOSE k : Sums(k, f, S)
<1>2. Sums(h, f, S)
  BY <1>1
<1> HIDE DEF h
<1> DEFINE P == {t \in SUBSET S : h[t] = g[t]}
<1>3. {} \in P
  BY <1>2 DEF Sums, Additive
<1>4. ASSUME NEW T \in SUBSET S, T # {}, \A x \in T : T \ {x} \in P
      PROVE  T \in P
  <2> DEFINE x == CHOOSE y \in T : TRUE
  <2>1. x \in T /\ T \ {x} \in P
    BY <1>4
  <2>2. h[T] = f[x] + h[T \ {x}]
    BY <1>2, <1>4 DEF Sums
  <2>3. g[T] = f[x] + g[T \ {x}]
    BY <2>1 DEF Additive
  <2>4. QED
    BY <2>1, <2>2, <2>3
<1>5. SUBSET S \subseteq P
  <2> HIDE DEF P
  <2>1. QED
    BY <1>3, <1>4, FiniteDescent
<1>6. QED
  BY <1>5 DEF SumOver, h

\* A sum, by any of its elements.
LEMMA SumSteps ==
    ASSUME NEW S, IsFiniteSet(S), NEW f, \A x \in S : f[x] \in Int
    PROVE  /\ SumOver(f, S) \in Int
           /\ S = {} => SumOver(f, S) = 0
           /\ \A x \in S : SumOver(f, S) = f[x] + SumOver(f, S \ {x})
<1>1. PICK g : Additive(g, f, S)
  BY AdditiveExists
<1>2. SumOver(f, S) = g[S] /\ g[S] \in Int /\ (S = {} => g[S] = 0)
  <2>1. SumOver(f, S) = g[S]
    BY <1>1, SumIsAdditive
  <2>2. S \in SUBSET S /\ g \in [SUBSET S -> Int] /\ g[{}] = 0
    BY <1>1 DEF Additive
  <2>3. QED
    BY <2>1, <2>2
<1>3. ASSUME NEW x \in S
      PROVE  SumOver(f, S) = f[x] + SumOver(f, S \ {x})
  <2> DEFINE T == S \ {x}
             h == [t \in SUBSET T |-> g[t]]
  <2>1. T \in SUBSET S /\ IsFiniteSet(T)
    BY FS_Subset
  <2>2. h \in [SUBSET T -> Int] /\ h[{}] = 0
    BY <1>1 DEF Additive
  <2>3. \A t \in SUBSET T : \A y \in t : h[t] = f[y] + h[t \ {y}]
    BY <1>1 DEF Additive
  <2>4. h[T] = g[T] /\ g[S] = f[x] + g[T]
    BY <1>1 DEF Additive
  <2> HIDE DEF h
  <2>5. Additive(h, f, T)
    BY <2>2, <2>3 DEF Additive
  <2>6. SumOver(f, T) = h[T]
    <3> HIDE DEF T
    <3>1. QED
      BY <2>1, <2>5, SumIsAdditive
  <2>7. QED
    BY <1>2, <2>4, <2>6
<1>4. QED
  BY <1>2, <1>3

\* The same terms have the same sum, and zeros add nothing.
LEMMA SumOfSame ==
    ASSUME NEW S, IsFiniteSet(S), NEW f, \A x \in S : f[x] \in Int,
           NEW T \in SUBSET S, NEW g, \A x \in T : g[x] = f[x], \A x \in S \ T : f[x] = 0
    PROVE  SumOver(g, T) = SumOver(f, S)
<1> DEFINE P == {U \in SUBSET S : SumOver(g, U \intersect T) = SumOver(f, U)}
<1>1. {} \in P
  <2>1. IsFiniteSet({}) /\ {} \intersect T = {}
    BY FS_EmptySet
  <2>2. SumOver(g, {}) = 0 /\ SumOver(f, {}) = 0
    BY <2>1, SumSteps
  <2>3. QED
    BY <2>1, <2>2
<1>2. ASSUME NEW U \in SUBSET S, NEW x \in S \ U, U \in P
      PROVE  U \union {x} \in P
  <2> DEFINE V == U \union {x}
             W == V \intersect T
  <2>1. IsFiniteSet(U) /\ IsFiniteSet(V) /\ IsFiniteSet(W) /\ IsFiniteSet(U \intersect T)
    BY FS_Subset
  <2>2. V \ {x} = U /\ x \in V /\ V \in SUBSET S
    OBVIOUS
  <2>3. SumOver(f, V) = f[x] + SumOver(f, U)
    <3> HIDE DEF V
    <3>1. QED
      BY <2>1, <2>2, SumSteps
  <2>4. SumOver(f, U) \in Int
    BY <2>1, SumSteps
  <2>5. CASE x \in T
    <3>1. W \ {x} = U \intersect T /\ x \in W /\ \A y \in W : g[y] \in Int
      BY <2>5
    <3>2. SumOver(g, W) = g[x] + SumOver(g, U \intersect T)
      <4> HIDE DEF W
      <4>1. QED
        BY <2>1, <3>1, SumSteps
    <3>3. QED
      BY <1>2, <2>3, <2>5, <3>2
  <2>6. CASE x \notin T
    <3>1. W = U \intersect T /\ f[x] = 0
      BY <2>6
    <3>2. SumOver(f, V) = SumOver(f, U)
      BY <2>3, <2>4, <3>1
    <3>3. SumOver(g, W) = SumOver(f, U)
      BY <1>2, <3>1
    <3>4. QED
      BY <3>2, <3>3
  <2>7. QED
    BY <2>5, <2>6
<1>3. SUBSET S \subseteq P
  <2> HIDE DEF P
  <2>1. QED
    BY <1>1, <1>2, FiniteInduction
<1>4. S \in P /\ S \intersect T = T
  BY <1>3
<1>5. QED
  BY <1>4

\* A sum of natural numbers is one, so no term exceeds it.
LEMMA SumOfNat ==
    ASSUME NEW S, IsFiniteSet(S), NEW f, \A x \in S : f[x] \in Nat
    PROVE  SumOver(f, S) \in Nat /\ \A x \in S : f[x] <= SumOver(f, S)
<1> DEFINE P == {U \in SUBSET S : SumOver(f, U) \in Nat}
<1>1. {} \in P
  BY FS_EmptySet, SumSteps
<1>2. ASSUME NEW U \in SUBSET S, NEW x \in S \ U, U \in P
      PROVE  U \union {x} \in P
  <2> DEFINE V == U \union {x}
  <2>1. IsFiniteSet(V) /\ V \ {x} = U /\ x \in V /\ V \in SUBSET S
    BY FS_Subset
  <2>2. SumOver(f, V) = f[x] + SumOver(f, U)
    <3> HIDE DEF V
    <3>1. \A y \in V : f[y] \in Int
      BY <2>1
    <3>2. QED
      BY <2>1, <3>1, SumSteps
  <2>3. QED
    BY <1>2, <2>1, <2>2
<1>3. SUBSET S \subseteq P
  <2> HIDE DEF P
  <2>1. QED
    BY <1>1, <1>2, FiniteInduction
<1>4. ASSUME NEW x \in S PROVE f[x] <= SumOver(f, S)
  <2>1. SumOver(f, S) = f[x] + SumOver(f, S \ {x})
    BY SumSteps
  <2>2. SumOver(f, S \ {x}) \in Nat
    BY <1>3
  <2>3. QED
    BY <2>1, <2>2
<1>5. QED
  BY <1>3, <1>4

\* The same terms under other names.
LEMMA SumRenamed ==
    ASSUME NEW S, IsFiniteSet(S), NEW f, \A x \in S : f[x] \in Int,
           NEW j, \A x \in S : \A y \in S : j[x] = j[y] => x = y,
           NEW g, \A x \in S : g[j[x]] = f[x]
    PROVE  SumOver(g, {j[x] : x \in S}) = SumOver(f, S)
<1> DEFINE Image(U) == {j[x] : x \in U}
           P == {U \in SUBSET S : /\ IsFiniteSet(Image(U))
                                /\ SumOver(g, Image(U)) = SumOver(f, U)}
<1>1. {} \in P
  <2>1. IsFiniteSet({}) /\ Image({}) = {}
    BY FS_EmptySet
  <2>2. SumOver(g, {}) = 0 /\ SumOver(f, {}) = 0
    BY <2>1, SumSteps
  <2>3. QED
    BY <2>1, <2>2
<1>2. ASSUME NEW U \in SUBSET S, NEW x \in S \ U, U \in P
      PROVE  U \union {x} \in P
  <2> DEFINE V == U \union {x}
             W == Image(V)
  <2>1. IsFiniteSet(V) /\ V \ {x} = U /\ x \in V /\ V \in SUBSET S
    BY FS_Subset
  <2>2. SumOver(f, V) = f[x] + SumOver(f, U)
    <3> HIDE DEF V
    <3>1. \A y \in V : f[y] \in Int
      BY <2>1
    <3>2. QED
      BY <2>1, <3>1, SumSteps
  <2>3. IsFiniteSet(W) /\ W \ {j[x]} = Image(U) /\ j[x] \in W
    <3>1. IsFiniteSet(W)
      <4>1. W = Image(U) \union {j[x]}
        OBVIOUS
      <4> HIDE DEF W
      <4>2. QED
        BY <1>2, <4>1, FS_AddElement
    <3>2. W \ {j[x]} = Image(U) /\ j[x] \in W
      BY <2>1
    <3>3. QED
      BY <3>1, <3>2
  <2>4. \A y \in W : g[y] \in Int
    BY <2>1
  <2>5. SumOver(g, W) = g[j[x]] + SumOver(g, Image(U))
    <3> HIDE DEF W
    <3>1. QED
      BY <2>3, <2>4, SumSteps
  <2>6. g[j[x]] = f[x]
    OBVIOUS
  <2>7. QED
    BY <1>2, <2>1, <2>2, <2>3, <2>5, <2>6
<1>3. SUBSET S \subseteq P
  <2> HIDE DEF P
  <2>1. QED
    BY <1>1, <1>2, FiniteInduction
<1>4. QED
  BY <1>3

\* Disjoint parts are summed apart.
LEMMA SumOfParts ==
    ASSUME NEW S, IsFiniteSet(S), NEW T, IsFiniteSet(T), S \intersect T = {},
           NEW f, \A x \in S \union T : f[x] \in Int
    PROVE  SumOver(f, S \union T) = SumOver(f, S) + SumOver(f, T)
<1> DEFINE P == {U \in SUBSET T : SumOver(f, S \union U) = SumOver(f, S) + SumOver(f, U)}
<1>1. \A U \in SUBSET T : /\ IsFiniteSet(U) /\ IsFiniteSet(S \union U)
                          /\ SumOver(f, U) \in Int /\ SumOver(f, S) \in Int
  <2> SUFFICES ASSUME NEW U \in SUBSET T
               PROVE  /\ IsFiniteSet(U) /\ IsFiniteSet(S \union U)
                      /\ SumOver(f, U) \in Int /\ SumOver(f, S) \in Int
    OBVIOUS
  <2>1. IsFiniteSet(U) /\ IsFiniteSet(S \union U)
    BY FS_Subset, FS_Union
  <2>2. (\A x \in U : f[x] \in Int) /\ (\A x \in S : f[x] \in Int)
    OBVIOUS
  <2>3. QED
    BY <2>1, <2>2, SumSteps
<1>2. {} \in P
  <2>1. S \union {} = S /\ {} \in SUBSET T
    OBVIOUS
  <2>2. SumOver(f, {}) = 0
    BY FS_EmptySet, SumSteps
  <2>3. QED
    BY <1>1, <2>1, <2>2
<1>3. ASSUME NEW U \in SUBSET T, NEW x \in T \ U, U \in P
      PROVE  U \union {x} \in P
  <2> DEFINE V == U \union {x}
             W == S \union V
  <2>1. V \in SUBSET T /\ x \in V /\ x \in W /\ V \ {x} = U /\ W \ {x} = S \union U
    OBVIOUS
  <2>2. /\ \A y \in V : f[y] \in Int
        /\ \A y \in W : f[y] \in Int
    OBVIOUS
  <2>3. IsFiniteSet(V) /\ IsFiniteSet(W)
    BY <1>1, <2>1
  <2> HIDE DEF V, W
  <2>4. SumOver(f, V) = f[x] + SumOver(f, U) /\ SumOver(f, W) = f[x] + SumOver(f, S \union U)
    BY <2>1, <2>2, <2>3, SumSteps
  <2>5. SumOver(f, S \union U) = SumOver(f, S) + SumOver(f, U)
    BY <1>3
  <2>6. f[x] \in Int /\ SumOver(f, U) \in Int /\ SumOver(f, S) \in Int
    BY <1>1, <2>1, <2>2
  <2>7. SumOver(f, W) = SumOver(f, S) + SumOver(f, V)
    BY <2>4, <2>5, <2>6
  <2>8. QED
    BY <2>1, <2>7 DEF V, W
<1>4. T \in P
  <2> HIDE DEF P
  <2>1. SUBSET T \subseteq P
    BY <1>2, <1>3, FiniteInduction
  <2>2. QED
    BY <2>1
<1>5. QED
  BY <1>4
=============================================================================
