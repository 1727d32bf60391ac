--------------------------- MODULE LiveFeed_proofs ---------------------------
(***************************************************************************)
(* What a browser is told, for every history of the stream, every set of   *)
(* browsers and users, any number of reconnects and restarts.              *)
(*                                                                         *)
(* Private messages: along what is on its way to a browser, a count goes   *)
(* up by one at each private frame, carries that frame's number, and ends  *)
(* at the user's newest (Run).  Prints: what a browser shows, what is on   *)
(* the wire, what is queued and what the fan-out still has to tell lie one *)
(* behind the other in the stream (TapeInv).                               *)
(***************************************************************************)
EXTENDS LiveFeed, FiniteSetTheorems, TLAPS

Routing == INSTANCE FoldFacts WITH Op <- Route
Reading == INSTANCE FoldFacts WITH Op <- RouteRecord
Barring == INSTANCE FoldFacts WITH Op <- AddToBar
Observing == INSTANCE FoldFacts WITH Op <- ObserveRecord
Joining == INSTANCE FoldFacts WITH Op <- Following
Charting == INSTANCE FoldFacts WITH Op <- Charted

IsList(s) == \E S : s \in Seq(S)

-----------------------------------------------------------------------------
LEMMA NoneIsList == IsList(<<>>) /\ Len(<<>>) = 0
<1>1. <<>> \in Seq({}) /\ Len(<<>>) = 0
  OBVIOUS
<1>2. QED
  BY <1>1 DEF IsList

LEMMA ListIs ==
    ASSUME NEW s, IsList(s)
    PROVE  Len(s) \in Nat /\ DOMAIN s = 1 .. Len(s) /\ (s = <<>> <=> Len(s) = 0)
<1>1. PICK S : s \in Seq(S)
  BY DEF IsList
<1>2. QED
  BY <1>1

LEMMA TwoLists ==
    ASSUME NEW s, IsList(s), NEW t, IsList(t)
    PROVE  \E T : s \in Seq(T) /\ t \in Seq(T)
<1>1. PICK S, R : s \in Seq(S) /\ t \in Seq(R)
  BY DEF IsList
<1>2. s \in Seq(S \union R)
  <2>1. s \in [1 .. Len(s) -> S \union R] /\ Len(s) \in Nat
    BY <1>1
  <2>2. QED
    BY <2>1
<1>3. t \in Seq(S \union R)
  <2>1. t \in [1 .. Len(t) -> S \union R] /\ Len(t) \in Nat
    BY <1>1
  <2>2. QED
    BY <2>1
<1>4. QED
  BY <1>2, <1>3

LEMMA ConcatIs ==
    ASSUME NEW s, IsList(s), NEW t, IsList(t)
    PROVE  /\ IsList(s \o t) /\ Len(s \o t) = Len(s) + Len(t)
           /\ \A i \in 1 .. Len(s) : (s \o t)[i] = s[i]
           /\ \A i \in 1 .. Len(t) : (s \o t)[Len(s) + i] = t[i]
           /\ \A i \in 1 .. Len(s) + Len(t) :
                 (s \o t)[i] = IF i <= Len(s) THEN s[i] ELSE t[i - Len(s)]
<1>1. PICK T : s \in Seq(T) /\ t \in Seq(T)
  BY TwoLists
<1>2. s \o t \in Seq(T) /\ Len(s \o t) = Len(s) + Len(t)
  BY <1>1
<1>3. \A i \in 1 .. Len(s) + Len(t) : (s \o t)[i] = IF i <= Len(s) THEN s[i] ELSE t[i - Len(s)]
  BY <1>1
<1>4. Len(s) \in Nat /\ Len(t) \in Nat
  BY <1>1
<1>5. QED
  BY <1>2, <1>3, <1>4 DEF IsList

LEMMA AppendIs ==
    ASSUME NEW s, IsList(s), NEW x
    PROVE  /\ IsList(Append(s, x)) /\ Len(Append(s, x)) = Len(s) + 1
           /\ Append(s, x)[Len(s) + 1] = x
           /\ \A i \in 1 .. Len(s) : Append(s, x)[i] = s[i]
<1>1. IsList(<<x>>)
  <2>1. <<x>> \in Seq({x})
    OBVIOUS
  <2>2. QED
    BY <2>1 DEF IsList
<1>2. PICK T : s \in Seq(T) /\ <<x>> \in Seq(T)
  BY <1>1, TwoLists
<1>3. x \in T
  <2>1. 1 \in DOMAIN <<x>> /\ <<x>>[1] = x
    OBVIOUS
  <2>2. QED
    BY <1>2, <2>1
<1>4. Append(s, x) \in Seq(T) /\ Len(Append(s, x)) = Len(s) + 1
  BY <1>2, <1>3
<1>5. Append(s, x)[Len(s) + 1] = x /\ \A i \in 1 .. Len(s) : Append(s, x)[i] = s[i]
  BY <1>2, <1>3
<1>6. QED
  BY <1>4, <1>5 DEF IsList

LEMMA TailIs ==
    ASSUME NEW s, IsList(s), s # <<>>
    PROVE  /\ IsList(Tail(s)) /\ Len(Tail(s)) = Len(s) - 1 /\ Len(s) >= 1 /\ Head(s) = s[1]
           /\ \A i \in 1 .. Len(s) - 1 : Tail(s)[i] = s[i + 1]
<1>1. PICK S : s \in Seq(S)
  BY DEF IsList
<1>2. Tail(s) \in Seq(S) /\ Len(Tail(s)) = Len(s) - 1 /\ Len(s) >= 1 /\ Head(s) = s[1]
  BY <1>1
<1>3. \A i \in 1 .. Len(s) - 1 : Tail(s)[i] = s[i + 1]
  BY <1>1
<1>4. QED
  BY <1>2, <1>3 DEF IsList

\* Lists that agree in length and entries.
LEMMA ListsAgree ==
    ASSUME NEW s, IsList(s), NEW t, IsList(t), Len(s) = Len(t), \A i \in 1 .. Len(s) : s[i] = t[i]
    PROVE  s = t
<1>1. PICK T : s \in Seq(T) /\ t \in Seq(T)
  BY TwoLists
<1>2. QED
  BY <1>1

LEMMA ConcatNone ==
    ASSUME NEW s, IsList(s)
    PROVE  s \o <<>> = s /\ <<>> \o s = s
<1>1. PICK S : s \in Seq(S)
  BY DEF IsList
<1>2. <<>> \in Seq(S)
  OBVIOUS
<1>3. QED
  BY <1>1, <1>2

LEMMA FirstOfTail ==
    ASSUME NEW s, IsList(s), s # <<>>, NEW t, IsList(t)
    PROVE  s \o t # <<>> /\ Head(s \o t) = Head(s) /\ Tail(s \o t) = Tail(s) \o t
<1>1. PICK T : s \in Seq(T) /\ t \in Seq(T)
  BY TwoLists
<1>2. Len(s \o t) = Len(s) + Len(t) /\ Len(s) >= 1 /\ Len(t) \in Nat /\ IsList(s \o t)
  BY ConcatIs, TailIs, ListIs
<1>3. s \o t # <<>>
  BY <1>2, NoneIsList, ListIs
<1>4. Head(s \o t) = Head(s)
  BY <1>2, <1>3, TailIs, ConcatIs
<1>5. /\ IsList(Tail(s \o t)) /\ Len(Tail(s \o t)) = Len(s) + Len(t) - 1
      /\ \A i \in 1 .. Len(s) + Len(t) - 1 : Tail(s \o t)[i] = (s \o t)[i + 1]
  <2>1. PICK u : u = s \o t
    OBVIOUS
  <2>2. IsList(u) /\ u # <<>> /\ Len(u) = Len(s) + Len(t)
    BY <1>2, <1>3, <2>1
  <2>3. IsList(Tail(u)) /\ Len(Tail(u)) = Len(u) - 1 /\ \A i \in 1 .. Len(u) - 1 : Tail(u)[i] = u[i + 1]
    BY <2>2, TailIs
  <2>4. QED
    BY <2>1, <2>2, <2>3
<1>6. IsList(Tail(s)) /\ Len(Tail(s)) = Len(s) - 1 /\ \A i \in 1 .. Len(s) - 1 : Tail(s)[i] = s[i + 1]
  BY TailIs
<1>7. /\ IsList(Tail(s) \o t) /\ Len(Tail(s) \o t) = Len(s) - 1 + Len(t)
      /\ \A i \in 1 .. Len(s) - 1 + Len(t) :
            (Tail(s) \o t)[i] = IF i <= Len(s) - 1 THEN Tail(s)[i] ELSE t[i - (Len(s) - 1)]
  BY <1>6, ConcatIs
<1>8. \A i \in 1 .. Len(s) + Len(t) - 1 : Tail(s \o t)[i] = (Tail(s) \o t)[i]
  <2> SUFFICES ASSUME NEW i \in 1 .. Len(s) + Len(t) - 1 PROVE Tail(s \o t)[i] = (Tail(s) \o t)[i]
    OBVIOUS
  <2>1. i + 1 \in 1 .. Len(s) + Len(t) /\ i \in 1 .. Len(s) - 1 + Len(t) /\ Len(s) \in Nat
    BY <1>2, ListIs
  <2>2. (s \o t)[i + 1] = IF i + 1 <= Len(s) THEN s[i + 1] ELSE t[i + 1 - Len(s)]
    BY <2>1, ConcatIs
  <2>3. i + 1 - Len(s) = i - (Len(s) - 1) /\ (i + 1 <= Len(s) <=> i <= Len(s) - 1)
    BY <2>1
  <2>4. i <= Len(s) - 1 => Tail(s)[i] = s[i + 1]
    BY <1>6, <2>1
  <2>5. QED
    BY <1>5, <1>7, <2>1, <2>2, <2>3, <2>4
<1>9. QED
  BY <1>3, <1>4, <1>5, <1>7, <1>8, ListsAgree

LEMMA ConcatThree ==
    ASSUME NEW s, IsList(s), NEW t, IsList(t), NEW x
    PROVE  s \o Append(t, x) = Append(s \o t, x)
<1>1. PICK T : s \in Seq(T) /\ t \in Seq(T)
  BY TwoLists
<1>2. t \in Seq(T \union {x}) /\ s \in Seq(T \union {x})
  <2>1. t \in [1 .. Len(t) -> T \union {x}] /\ Len(t) \in Nat
        /\ s \in [1 .. Len(s) -> T \union {x}] /\ Len(s) \in Nat
    BY <1>1
  <2>2. QED
    BY <2>1
<1>3. PICK R : t \in Seq(R) /\ s \in Seq(R) /\ x \in R
  BY <1>2
<1>4. QED
  BY <1>3

-----------------------------------------------------------------------------
(***************************************************************************)
(* The numbers of the private frames.                                      *)
(***************************************************************************)
IsPrivate(f) == f.ch[1] = "private"

Counts(k, frames, last, newest) ==
    /\ \A i \in 0 .. Len(frames) : k[i] \in Nat
    /\ k[Len(frames)] = newest
    /\ \A i \in 1 .. Len(frames) : IF IsPrivate(frames[i])
                                   THEN k[i] = k[i - 1] + 1 /\ frames[i].seq = k[i]
                                   ELSE k[i] = k[i - 1]
    /\ last # 0 => last = k[0]

Run(frames, last, newest) == \E k : Counts(k, frames, last, newest)

LEMMA NothingRuns ==
    ASSUME NEW newest \in Nat
    PROVE  Run(<<>>, 0, newest)
<1>1. PICK k : k = [i \in 0 .. 0 |-> newest]
  OBVIOUS
<1>2. k[0] = newest /\ Len(<<>>) = 0 /\ 0 .. 0 = {0} /\ 1 .. 0 = {}
  BY <1>1
<1>3. Counts(k, <<>>, 0, newest)
  BY <1>2 DEF Counts
<1>4. QED
  BY <1>3 DEF Run

\* One more message.
LEMMA RunAppend ==
    ASSUME NEW frames, IsList(frames), NEW last, NEW newest, Run(frames, last, newest),
           NEW f, IsPrivate(f), f.seq = newest + 1
    PROVE  Run(Append(frames, f), last, newest + 1)
<1>1. PICK k : Counts(k, frames, last, newest)
  BY DEF Run
<1>2. PICK n \in Nat : n = Len(frames)
  BY ListIs
<1>3. PICK more : more = Append(frames, f)
  OBVIOUS
<1>4. Len(more) = n + 1 /\ more[n + 1] = f /\ \A i \in 1 .. n : more[i] = frames[i]
  BY <1>2, <1>3, AppendIs
<1>5. PICK j : j = [i \in 0 .. n + 1 |-> IF i = n + 1 THEN newest + 1 ELSE k[i]]
  OBVIOUS
<1>6. newest \in Nat /\ k[n] = newest
  BY <1>1, <1>2 DEF Counts
<1>7. \A i \in 0 .. n + 1 : j[i] \in Nat
  BY <1>1, <1>2, <1>5, <1>6 DEF Counts
<1>8. j[n + 1] = newest + 1 /\ j[0] = k[0]
  BY <1>5
<1>9. ASSUME NEW i \in 1 .. n + 1
      PROVE  IF IsPrivate(more[i]) THEN j[i] = j[i - 1] + 1 /\ more[i].seq = j[i]
             ELSE j[i] = j[i - 1]
  <2>1. i - 1 \in 0 .. n /\ j[i - 1] = k[i - 1]
    BY <1>5
  <2>2. CASE i = n + 1
    <3>1. more[i] = f /\ j[i] = newest + 1 /\ j[i - 1] = newest
      BY <1>4, <1>5, <1>6, <2>1, <2>2
    <3>2. QED
      BY <3>1
  <2>3. CASE i # n + 1
    <3>1. i \in 1 .. n /\ more[i] = frames[i] /\ j[i] = k[i]
      BY <1>4, <1>5, <2>3
    <3>2. QED
      BY <1>1, <1>2, <2>1, <3>1 DEF Counts
  <2>4. QED
    BY <2>2, <2>3
<1>10. last # 0 => last = j[0]
  BY <1>1, <1>8 DEF Counts
<1>11. Counts(j, more, last, newest + 1)
  BY <1>4, <1>7, <1>8, <1>9, <1>10 DEF Counts
<1>12. QED
  BY <1>3, <1>11 DEF Run

\* Frames of other channels behind.
LEMMA RunMore ==
    ASSUME NEW frames, IsList(frames), NEW last, NEW newest, Run(frames, last, newest),
           NEW others, IsList(others), \A i \in 1 .. Len(others) : ~IsPrivate(others[i])
    PROVE  Run(frames \o others, last, newest)
<1>1. PICK k : Counts(k, frames, last, newest)
  BY DEF Run
<1>2. PICK n \in Nat : n = Len(frames)
  BY ListIs
<1>3. PICK m \in Nat : m = Len(others)
  BY ListIs
<1>4. PICK more : more = frames \o others
  OBVIOUS
<1>5. /\ Len(more) = n + m
      /\ \A i \in 1 .. n + m : more[i] = IF i <= n THEN frames[i] ELSE others[i - n]
  BY <1>2, <1>3, <1>4, ConcatIs
<1>6. PICK j : j = [i \in 0 .. n + m |-> IF i <= n THEN k[i] ELSE newest]
  OBVIOUS
<1>7. newest \in Nat /\ k[n] = newest
  BY <1>1, <1>2 DEF Counts
<1>8. \A i \in 0 .. n + m : j[i] \in Nat
  BY <1>1, <1>2, <1>6, <1>7 DEF Counts
<1>9. j[n + m] = newest /\ j[0] = k[0]
  BY <1>6, <1>7
<1>10. ASSUME NEW i \in 1 .. n + m
       PROVE  IF IsPrivate(more[i]) THEN j[i] = j[i - 1] + 1 /\ more[i].seq = j[i]
              ELSE j[i] = j[i - 1]
  <2>1. i - 1 \in 0 .. n + m
    OBVIOUS
  <2>2. CASE i <= n
    <3>1. i \in 1 .. n /\ more[i] = frames[i] /\ j[i] = k[i] /\ j[i - 1] = k[i - 1]
      BY <1>5, <1>6, <2>1, <2>2
    <3>2. QED
      BY <1>1, <1>2, <3>1 DEF Counts
  <2>3. CASE ~(i <= n)
    <3>1. more[i] = others[i - n] /\ i - n \in 1 .. m
      BY <1>5, <2>3
    <3>2. j[i] = newest /\ j[i - 1] = newest
      BY <1>6, <1>7, <2>1, <2>3
    <3>3. ~IsPrivate(more[i])
      BY <1>3, <3>1
    <3>4. QED
      BY <3>2, <3>3
  <2>4. QED
    BY <2>2, <2>3
<1>11. last # 0 => last = j[0]
  BY <1>1, <1>9 DEF Counts
<1>12. Counts(j, more, last, newest)
  BY <1>5, <1>8, <1>9, <1>10, <1>11 DEF Counts
<1>13. QED
  BY <1>4, <1>12 DEF Run

\* A frame is received.
LEMMA RunTail ==
    ASSUME NEW frames, IsList(frames), frames # <<>>, NEW last, NEW newest,
           Run(frames, last, newest)
    PROVE  Run(Tail(frames), IF IsPrivate(Head(frames)) THEN Head(frames).seq ELSE last, newest)
<1>1. PICK k : Counts(k, frames, last, newest)
  BY DEF Run
<1>2. PICK n : n = Len(frames) - 1
  OBVIOUS
<1>3. PICK rest : rest = Tail(frames)
  OBVIOUS
<1>4. /\ n \in Nat /\ Len(frames) = n + 1 /\ Len(rest) = n /\ Head(frames) = frames[1]
      /\ \A i \in 1 .. n : rest[i] = frames[i + 1]
  BY <1>2, <1>3, TailIs, ListIs
<1>5. PICK j : j = [i \in 0 .. n |-> k[i + 1]]
  OBVIOUS
<1>6. \A i \in 0 .. n : j[i] \in Nat
  BY <1>1, <1>4, <1>5 DEF Counts
<1>7. j[n] = newest /\ j[0] = k[1]
  BY <1>1, <1>4, <1>5 DEF Counts
<1>8. ASSUME NEW i \in 1 .. n
      PROVE  IF IsPrivate(rest[i]) THEN j[i] = j[i - 1] + 1 /\ rest[i].seq = j[i]
             ELSE j[i] = j[i - 1]
  <2>1. j[i] = k[i + 1] /\ j[i - 1] = k[i] /\ rest[i] = frames[i + 1] /\ i + 1 \in 1 .. Len(frames)
        /\ (i + 1) - 1 = i
    BY <1>4, <1>5
  <2>2. QED
    BY <1>1, <2>1 DEF Counts
<1>9. PICK first : first = IF IsPrivate(Head(frames)) THEN Head(frames).seq ELSE last
  OBVIOUS
<1>10. first # 0 => first = j[0]
  <2>1. 1 \in 1 .. Len(frames) /\ 1 - 1 = 0
    BY <1>4
  <2>2. IF IsPrivate(frames[1]) THEN frames[1].seq = k[1] ELSE k[1] = k[0]
    BY <1>1, <2>1 DEF Counts
  <2>3. last # 0 => last = k[0]
    BY <1>1 DEF Counts
  <2>4. QED
    BY <1>4, <1>7, <1>9, <2>2, <2>3
<1>11. Counts(j, rest, first, newest)
  BY <1>4, <1>6, <1>7, <1>8, <1>10 DEF Counts
<1>12. QED
  BY <1>3, <1>9, <1>11 DEF Run

\* The private frames among the last of them.
After(frames, n) == {i \in DOMAIN frames : i > n /\ IsPrivate(frames[i])}

LEMMA RunNumbers ==
    ASSUME NEW frames, IsList(frames), NEW last, NEW newest, Run(frames, last, newest)
    PROVE  /\ last # 0 => last = newest - Cardinality(After(frames, 0))
           /\ \A i \in After(frames, 0) : frames[i].seq = newest - Cardinality(After(frames, i))
<1>1. PICK k : Counts(k, frames, last, newest)
  BY DEF Run
<1>2. PICK n : n = Len(frames)
  OBVIOUS
<1>3. n \in Nat /\ DOMAIN frames = 1 .. n
  BY <1>2, ListIs
<1>4. \A i \in 0 .. n : k[i] \in Nat
  BY <1>1, <1>2 DEF Counts
<1> DEFINE P == {m \in 0 .. n : /\ IsFiniteSet(After(frames, n - m))
                                /\ Cardinality(After(frames, n - m)) = newest - k[n - m]}
<1>5. 0 \in P
  <2>1. After(frames, n) = {}
    BY <1>3 DEF After
  <2>2. k[n] = newest /\ newest \in Nat
    BY <1>1, <1>2, <1>4, <1>3 DEF Counts
  <2>3. n - 0 = n /\ newest - newest = 0 /\ 0 \in 0 .. n
    BY <1>3, <2>2
  <2>4. QED
    BY <2>1, <2>2, <2>3, FS_EmptySet
<1>6. ASSUME NEW m \in 0 .. n - 1, m \in P
      PROVE  m + 1 \in P
  <2>1. PICK i : i = n - m
    OBVIOUS
  <2>2. i \in 1 .. n /\ n - (m + 1) = i - 1 /\ i - 1 \in 0 .. n /\ m + 1 \in 0 .. n
    BY <1>3, <2>1
  <2>3. IF IsPrivate(frames[i]) THEN k[i] = k[i - 1] + 1 ELSE k[i] = k[i - 1]
    BY <1>1, <1>2, <2>2 DEF Counts
  <2>4. k[i] \in Nat /\ k[i - 1] \in Nat /\ newest \in Nat
    BY <1>1, <1>2, <1>3, <1>4, <2>2 DEF Counts
  <2>5. IsFiniteSet(After(frames, i)) /\ Cardinality(After(frames, i)) = newest - k[i]
    BY <1>6, <2>1
  <2>6. CASE IsPrivate(frames[i])
    <3>1. After(frames, i - 1) = After(frames, i) \union {i} /\ i \notin After(frames, i)
      BY <1>3, <2>2, <2>6 DEF After
    <3>2. PICK S : S = After(frames, i)
      OBVIOUS
    <3>3. IsFiniteSet(S \union {i}) /\ Cardinality(S \union {i}) = Cardinality(S) + 1
      BY <2>5, <3>1, <3>2, FS_AddElement
    <3>4. Cardinality(After(frames, i - 1)) = newest - k[i - 1]
      <4>1. PICK a, b : a = k[i] /\ b = k[i - 1]
        OBVIOUS
      <4>2. a = b + 1 /\ a \in Nat /\ b \in Nat
        BY <2>3, <2>4, <2>6, <4>1
      <4>3. Cardinality(S \union {i}) = (newest - a) + 1
        BY <2>5, <3>2, <3>3, <4>1
      <4>4. (newest - a) + 1 = newest - b
        BY <2>4, <4>2
      <4>5. QED
        BY <3>1, <3>2, <4>1, <4>3, <4>4
    <3>5. QED
      BY <2>2, <3>1, <3>2, <3>3, <3>4
  <2>7. CASE ~IsPrivate(frames[i])
    <3>1. After(frames, i - 1) = After(frames, i)
      BY <1>3, <2>2, <2>7 DEF After
    <3>2. QED
      BY <2>2, <2>3, <2>5, <2>7, <3>1
  <2>8. QED
    BY <2>6, <2>7
<1>7. 0 .. n \subseteq P
  <2> HIDE DEF P
  <2>1. QED
    BY <1>3, <1>5, <1>6, Routing!UpTo
<1>8. ASSUME NEW i \in 0 .. n
      PROVE  Cardinality(After(frames, i)) = newest - k[i]
  <2>1. n - i \in P /\ n - (n - i) = i
    BY <1>3, <1>7
  <2>2. QED
    BY <2>1
<1>9. newest \in Nat
  BY <1>1, <1>2, <1>3, <1>4 DEF Counts
<1>10. last # 0 => last = newest - Cardinality(After(frames, 0))
  <2>1. 0 \in 0 .. n /\ k[0] \in Nat
    BY <1>3, <1>4
  <2>2. Cardinality(After(frames, 0)) = newest - k[0]
    BY <1>8, <2>1
  <2>3. last # 0 => last = k[0]
    BY <1>1 DEF Counts
  <2>4. QED
    BY <1>9, <2>1, <2>2, <2>3
<1>11. ASSUME NEW i \in After(frames, 0)
       PROVE  frames[i].seq = newest - Cardinality(After(frames, i))
  <2>1. i \in 1 .. n /\ i \in 0 .. n /\ IsPrivate(frames[i])
    BY <1>3 DEF After
  <2>2. frames[i].seq = k[i] /\ k[i] \in Nat
    BY <1>1, <1>2, <1>4, <2>1 DEF Counts
  <2>3. Cardinality(After(frames, i)) = newest - k[i]
    BY <1>8, <2>1
  <2>4. QED
    BY <1>9, <2>2, <2>3
<1>12. QED
  BY <1>10, <1>11

-----------------------------------------------------------------------------
ConnFields == {"joined", "subscribed", "fresh", "private", "market", "wake", "busy", "overflowed"}
ClientFields == {"socket", "state", "lastSeq", "lastPrivate", "books", "tapes", "bars", "portfolio",
                 "fetch", "aligned", "upto"}
Kinds == {"private", "error", "book", "tape", "bars"}

\* A connection, what is on its wire, the number its browser received last, and
\* the newest number of its user.
ConnOk(s, w, last, newest) ==
    /\ DOMAIN s = ConnFields
    /\ IsList(s.private) /\ IsList(s.market)
    /\ \A i \in 1 .. Len(s.private) : s.private[i].ch[1] = "private"
    /\ \A i \in 1 .. Len(s.market) : s.market[i].ch[1] \in Kinds \ {"private"}
    /\ Len(s.private) <= PrivateMax
    /\ s.joined \/ (w = <<>> /\ last = 0 /\ s.private = <<>> /\ s.market = <<>>)
    /\ s.joined /\ ~s.overflowed => Run(w \o s.private, last, newest)

StreamInv ==
    /\ stream \in Seq(Appended) /\ coming \in Seq(Seq(Appended)) /\ floor = 0
    /\ Saved("fanout") => marks["fanout"].pos \in 0 .. Len(stream)
    /\ fseq \in 0 .. Len(stream)

FeedInv ==
    /\ DOMAIN userSeq = Users /\ \A u \in Users : userSeq[u] \in Nat
    /\ fpc # "serving" => DOMAIN conn = {}
    /\ DOMAIN conn \subseteq Clients /\ DOMAIN wire = Clients /\ DOMAIN client = Clients
    /\ \A c \in Clients : /\ DOMAIN client[c] = ClientFields
                          /\ IsList(wire[c])
                          /\ \A i \in 1 .. Len(wire[c]) : wire[c][i].ch[1] \in Kinds
    /\ \A c \in DOMAIN conn :
          ConnOk(conn[c], wire[c], client[c].lastPrivate, userSeq[UserOf[c]])

\* Something other than the queues of a connection changes.
LEMMA ConnLike ==
    ASSUME NEW s, NEW w, NEW last, NEW newest, ConnOk(s, w, last, newest), NEW t,
           DOMAIN t = ConnFields, t.private = s.private, t.market = s.market,
           t.joined = s.joined, t.overflowed = s.overflowed
    PROVE  ConnOk(t, w, last, newest)
  BY DEF ConnOk

LEMMA NewConnOk == ASSUME NEW newest PROVE ConnOk(NewConn, <<>>, 0, newest)
<1>1. /\ DOMAIN NewConn = ConnFields /\ NewConn.private = <<>> /\ NewConn.market = <<>>
      /\ NewConn.joined = FALSE
  BY DEF NewConn, ConnFields
<1>2. PrivateMax \in Nat
  BY LimitsPos
<1>3. QED
  BY <1>1, <1>2, NoneIsList DEF ConnOk

LEMMA OfferOk ==
    ASSUME NEW s, NEW w, IsList(w), NEW last, NEW newest, ConnOk(s, w, last, newest), s.joined,
           NEW f, f.ch[1] = "private", f.seq = newest + 1
    PROVE  LET t == OfferPrivate(s, f)
           IN  ConnOk(t, w, last, newest + 1) /\ t.market = s.market /\ t.joined = s.joined
<1>1. PICK t : t = OfferPrivate(s, f)
  OBVIOUS
<1>2. PICK n \in Nat : n = Len(s.private)
  BY ListIs DEF ConnOk
<1>3. PrivateMax \in Nat
  BY LimitsPos
<1>4. CASE n >= PrivateMax
  <2>1. t = [s EXCEPT !.overflowed = TRUE]
    BY <1>1, <1>2, <1>4 DEF OfferPrivate
  <2>2. /\ DOMAIN t = ConnFields /\ t.overflowed = TRUE /\ t.private = s.private
        /\ t.market = s.market /\ t.joined = s.joined
    BY <2>1 DEF ConnOk, ConnFields
  <2>3. QED
    BY <1>1, <2>2 DEF ConnOk
<1>5. CASE ~(n >= PrivateMax)
  <2>1. t = HandOver([s EXCEPT !.private = Append(@, f)])
    BY <1>1, <1>2, <1>5 DEF OfferPrivate
  <2>2. /\ DOMAIN t = ConnFields /\ t.overflowed = s.overflowed /\ t.market = s.market
        /\ t.joined = s.joined /\ t.private = Append(s.private, f)
    BY <2>1 DEF ConnOk, ConnFields, HandOver
  <2>3. /\ IsList(t.private) /\ Len(t.private) = n + 1 /\ t.private[n + 1] = f
        /\ \A i \in 1 .. n : t.private[i] = s.private[i]
    BY <1>2, <2>2, AppendIs DEF ConnOk
  <2>4. \A i \in 1 .. n + 1 : t.private[i].ch[1] = "private"
    BY <1>2, <2>3 DEF ConnOk
  <2>5. ASSUME ~s.overflowed PROVE Run(w \o t.private, last, newest + 1)
    <3>1. Run(w \o s.private, last, newest)
      BY <2>5 DEF ConnOk
    <3>2. IsList(w \o s.private)
      BY ConcatIs DEF ConnOk
    <3>3. w \o t.private = Append(w \o s.private, f)
      BY <2>2, ConcatThree DEF ConnOk
    <3>4. PICK frames : frames = w \o s.private
      OBVIOUS
    <3>5. Run(Append(frames, f), last, newest + 1)
      BY <3>1, <3>2, <3>4, RunAppend DEF IsPrivate
    <3>6. QED
      BY <3>3, <3>4, <3>5
  <2>6. QED
    BY <1>1, <1>2, <1>3, <1>5, <2>2, <2>3, <2>4, <2>5 DEF ConnOk
<1>6. QED
  BY <1>4, <1>5

-----------------------------------------------------------------------------
(***************************************************************************)
(* Routing.  The wires and the numbers received stay; a hub is the numbers *)
(* given out and the connections.                                          *)
(***************************************************************************)
HubOk(h) ==
    /\ DOMAIN h = {"seq", "conn"} /\ DOMAIN h.conn = DOMAIN conn
    /\ DOMAIN h.seq = Users /\ \A u \in Users : h.seq[u] \in Nat
    /\ \A c \in DOMAIN conn :
          /\ ConnOk(h.conn[c], wire[c], client[c].lastPrivate, h.seq[UserOf[c]])
          /\ h.conn[c].market = conn[c].market

LEMMA RouteOk ==
    ASSUME FeedInv, NEW h, HubOk(h), NEW m, NEW g, g = Route(h, m)
    PROVE  HubOk(g)
<1> DEFINE listening == {c \in DOMAIN h.conn : UserOf[c] = m.user /\ h.conn[c].joined}
           f == [ch |-> <<"private">>, seq |-> h.seq[m.user] + 1, body |-> m.body, at |-> m.at]
<1>1. CASE listening = {}
  <2>1. g = h
    BY <1>1 DEF Route
  <2>2. QED
    BY <2>1
<1>2. CASE listening # {}
  <2>1. g = [seq  |-> [h.seq EXCEPT ![m.user] = h.seq[m.user] + 1],
             conn |-> [c \in DOMAIN h.conn |-> IF c \in listening THEN OfferPrivate(h.conn[c], f)
                                               ELSE h.conn[c]]]
    BY <1>2, Zenon DEF Route
  <2>2. f.ch[1] = "private" /\ f.seq = h.seq[m.user] + 1
    OBVIOUS
  <2>3. \A c \in listening : c \in DOMAIN conn /\ UserOf[c] = m.user /\ h.conn[c].joined
    BY DEF HubOk
  <2>4. \A c \in DOMAIN conn : h.conn[c].joined /\ UserOf[c] = m.user => c \in listening
    BY DEF HubOk
  <2>5. m.user \in Users
    BY <1>2, <2>3 DEF FeedInv, Users
  <2> HIDE DEF listening, f
  <2>6. DOMAIN g = {"seq", "conn"} /\ DOMAIN g.conn = DOMAIN conn /\ DOMAIN g.seq = Users
    BY <2>1 DEF HubOk
  <2>7. /\ g.seq[m.user] = h.seq[m.user] + 1
        /\ \A u \in Users : u # m.user => g.seq[u] = h.seq[u]
    BY <2>1, <2>5 DEF HubOk
  <2>8. \A u \in Users : g.seq[u] \in Nat
    BY <2>5, <2>7 DEF HubOk
  <2>9. ASSUME NEW c \in DOMAIN conn
        PROVE  /\ ConnOk(g.conn[c], wire[c], client[c].lastPrivate, g.seq[UserOf[c]])
               /\ g.conn[c].market = conn[c].market
    <3>1. PICK s, w, last, newest : /\ s = h.conn[c] /\ w = wire[c] /\ last = client[c].lastPrivate
                                    /\ newest = h.seq[UserOf[c]]
      OBVIOUS
    <3>2. ConnOk(s, w, last, newest) /\ IsList(w) /\ s.market = conn[c].market /\ UserOf[c] \in Users
      BY <3>1 DEF HubOk, FeedInv, Users
    <3>3. CASE c \in listening
      <4>1. g.conn[c] = OfferPrivate(s, f) /\ UserOf[c] = m.user /\ s.joined
        BY <2>1, <2>3, <3>1, <3>3 DEF HubOk
      <4>2. f.seq = newest + 1 /\ g.seq[UserOf[c]] = newest + 1
        BY <2>2, <2>7, <3>1, <4>1
      <4>3. ConnOk(OfferPrivate(s, f), w, last, newest + 1) /\ OfferPrivate(s, f).market = s.market
        BY <2>2, <3>2, <4>1, <4>2, OfferOk
      <4>4. QED
        BY <3>1, <3>2, <4>1, <4>2, <4>3
    <3>4. CASE c \notin listening
      <4>1. g.conn[c] = s
        BY <2>1, <3>1, <3>4 DEF HubOk
      <4>2. CASE UserOf[c] = m.user
        <5>1. ~s.joined
          BY <2>4, <3>1, <3>4, <4>2
        <5>2. ConnOk(s, w, last, g.seq[UserOf[c]])
          BY <3>2, <5>1 DEF ConnOk
        <5>3. QED
          BY <3>1, <3>2, <4>1, <5>2
      <4>3. CASE UserOf[c] # m.user
        <5>1. g.seq[UserOf[c]] = newest
          BY <2>7, <3>1, <3>2, <4>3
        <5>2. QED
          BY <3>1, <3>2, <4>1, <5>1
      <4>4. QED
        BY <4>2, <4>3
    <3>5. QED
      BY <3>3, <3>4
  <2>10. QED
    BY <2>6, <2>8, <2>9 DEF HubOk
<1>3. QED
  BY <1>1, <1>2

LEMMA RouteRecordOk ==
    ASSUME FeedInv, NEW h, HubOk(h), NEW r, NEW g, g = RouteRecord(h, r)
    PROVE  HubOk(g)
<1>1. PICK messages : messages = MessagesFor(r.entry)
  OBVIOUS
<1>2. PICK s : s = [i \in DOMAIN messages |-> [user |-> messages[i].user, at |-> r.seq,
                                              body |-> messages[i].body]]
  OBVIOUS
<1>3. \E k \in Nat : DOMAIN messages = 1 .. k
  <2>1. messages = <<>> \/ (\E x : messages = <<x>>) \/ (\E x, y : messages = <<x, y>>)
    BY <1>1 DEF MessagesFor
  <2>2. QED
    BY <2>1
<1>4. PICK k \in Nat : DOMAIN s = 1 .. k
  BY <1>2, <1>3
<1>5. g = Routing!Folded(h, s)
  BY <1>1, <1>2 DEF RouteRecord, FoldLeft, MapThenFoldSet, Routing!Folded, Routing!Folds, Routing!Max, Max
<1>6. PICK v : /\ v[0] = h /\ v[k] = Routing!Folded(h, s)
               /\ \A j \in 0 .. k - 1 : v[j + 1] = Route(v[j], s[j + 1])
  BY <1>4, <1>5, Routing!FoldedRun
<1> DEFINE P == {j \in 0 .. k : HubOk(v[j])}
<1>7. 0 \in P
  BY <1>6
<1>8. ASSUME NEW j \in 0 .. k - 1, j \in P
      PROVE  j + 1 \in P
  <2>1. PICK a, b, x : a = v[j] /\ b = v[j + 1] /\ x = s[j + 1]
    OBVIOUS
  <2>2. HubOk(a) /\ b = Route(a, x)
    BY <1>6, <1>8, <2>1
  <2>3. HubOk(b)
    BY <2>2, RouteOk
  <2>4. j + 1 \in 0 .. k
    OBVIOUS
  <2>5. QED
    BY <2>1, <2>3, <2>4
<1>9. 0 .. k \subseteq P
  <2> HIDE DEF P
  <2>1. QED
    BY <1>4, <1>7, <1>8, Routing!UpTo
<1>10. k \in 0 .. k
  OBVIOUS
<1>11. QED
  BY <1>5, <1>6, <1>9, <1>10

LEMMA BatchRouted ==
    ASSUME FeedInv, NEW h, HubOk(h), NEW k \in Nat, NEW s, DOMAIN s = 1 .. k
    PROVE  HubOk(FoldLeft(RouteRecord, h, s))
<1>4. PICK g : g = Reading!Folded(h, s)
  OBVIOUS
<1>5. FoldLeft(RouteRecord, h, s) = Reading!Folded(h, s)
  BY DEF FoldLeft, MapThenFoldSet, Reading!Folded, Reading!Folds, Reading!Max, Max
<1>6. PICK v : /\ v[0] = h /\ v[k] = Reading!Folded(h, s)
               /\ \A j \in 0 .. k - 1 : v[j + 1] = RouteRecord(v[j], s[j + 1])
  BY <1>4, Reading!FoldedRun
<1> DEFINE P == {j \in 0 .. k : HubOk(v[j])}
<1>7. 0 \in P
  BY <1>6
<1>8. ASSUME NEW j \in 0 .. k - 1, j \in P
      PROVE  j + 1 \in P
  <2>1. PICK a, b, x : a = v[j] /\ b = v[j + 1] /\ x = s[j + 1]
    OBVIOUS
  <2>2. HubOk(a) /\ b = RouteRecord(a, x)
    BY <1>6, <1>8, <2>1
  <2>3. HubOk(b)
    BY <2>2, RouteRecordOk
  <2>4. j + 1 \in 0 .. k
    OBVIOUS
  <2>5. QED
    BY <2>1, <2>3, <2>4
<1>9. 0 .. k \subseteq P
  <2> HIDE DEF P
  <2>1. QED
    BY <1>7, <1>8, Routing!UpTo
<1>10. k \in 0 .. k
  OBVIOUS
<1>11. QED
  BY <1>5, <1>6, <1>9, <1>10

-----------------------------------------------------------------------------
(***************************************************************************)
(* Reading.                                                                *)
(***************************************************************************)
LEMMA MinOfTwo ==
    ASSUME NEW a \in Int, NEW b \in Int
    PROVE  Min({a, b}) \in {a, b} /\ Min({a, b}) <= a /\ Min({a, b}) <= b
<1>1. \E x \in {a, b} : \A y \in {a, b} : x <= y
  <2>1. CASE a <= b
    BY <2>1
  <2>2. CASE ~(a <= b)
    BY <2>2
  <2>3. QED
    BY <2>1, <2>2
<1>2. QED
  BY <1>1 DEF Min

LEMMA MaxWithZero ==
    ASSUME NEW a \in Nat
    PROVE  Max({a, 0}) = a
<1>1. \E x \in {a, 0} : \A y \in {a, 0} : x >= y
  OBVIOUS
<1>2. Max({a, 0}) \in {a, 0} /\ \A y \in {a, 0} : Max({a, 0}) >= y
  BY <1>1 DEF Max
<1>3. QED
  BY <1>2

\* A batch is what follows, and if it is empty nothing does.
LEMMA BatchShape ==
    ASSUME StreamInv, NEW at \in 0 .. Len(stream)
    PROVE  /\ Batch(at) = <<>> => at = Len(stream)
           /\ Batch(at) # <<>> =>
                \E k \in Nat \ {0} : /\ at + k <= Len(stream) /\ Last(Batch(at)) = at + k
                                     /\ DOMAIN Records(Batch(at)) = 1 .. k
                                     /\ \A i \in 1 .. k : /\ Records(Batch(at))[i].seq = at + i
                                                          /\ Records(Batch(at))[i].entry = stream[at + i]
<1>1. at \in Nat /\ floor = 0 /\ Len(stream) \in Nat
  BY DEF StreamInv
<1>2. Max({at, floor}) = at
  BY <1>1, MaxWithZero
<1>4. PICK k : k = Min({BatchSize, Len(stream) - at})
  OBVIOUS
<1>5. PICK batch : batch = Batch(at)
  OBVIOUS
<1>6. batch = [i \in 1 .. k |-> at + i]
  BY <1>2, <1>4, <1>5 DEF Batch
<1>7. k \in Int /\ k <= Len(stream) - at /\ (k = Len(stream) - at \/ k >= 1)
  <2>1. BatchSize \in Int /\ Len(stream) - at \in Int /\ BatchSize >= 1
    BY <1>1, BatchSizePos
  <2>2. k \in {BatchSize, Len(stream) - at} /\ k <= Len(stream) - at
    BY <1>4, <2>1, MinOfTwo
  <2>3. QED
    BY <2>1, <2>2
<1>8. CASE k >= 1
  <2>1. DOMAIN batch = 1 .. k /\ \A i \in 1 .. k : batch[i] = at + i
    BY <1>6
  <2>2. batch # <<>> /\ k \in Nat \ {0}
    <3>1. 1 \in DOMAIN batch
      BY <1>7, <1>8, <2>1
    <3>2. QED
      BY <1>7, <1>8, <3>1
  <2>3. Last(batch) = at + k
    <3>1. batch \in [1 .. k -> Nat]
      BY <1>1, <1>6, <1>7
    <3>2. batch \in Seq(Nat) /\ Len(batch) = k
      BY <2>2, <3>1
    <3>3. QED
      BY <2>1, <2>2, <3>2 DEF Last
  <2>4. at + k <= Len(stream)
    BY <1>1, <1>7
  <2>5. /\ DOMAIN Records(batch) = 1 .. k
        /\ \A i \in 1 .. k : Records(batch)[i].seq = at + i /\ Records(batch)[i].entry = stream[at + i]
    BY <2>1 DEF Records
  <2>6. QED
    BY <1>5, <2>2, <2>3, <2>4, <2>5
<1>9. CASE ~(k >= 1)
  <2>1. k = 0 /\ at = Len(stream)
    BY <1>1, <1>7, <1>9
  <2>2. batch = <<>>
    BY <1>6, <2>1
  <2>3. QED
    BY <1>5, <2>1, <2>2
<1>10. QED
  BY <1>8, <1>9

-----------------------------------------------------------------------------
(***************************************************************************)
(* The market: its lists are lists, and what awaits the tick on the tape   *)
(* of a symbol are prints, behind one position and up to another.          *)
(***************************************************************************)
MarketFields == {"books", "bars", "tape", "closed", "dirty"}

MarketOk(m) ==
    /\ DOMAIN m = MarketFields
    /\ IsFiniteSet(DOMAIN m.books) /\ IsFiniteSet(m.dirty)
    /\ IsFiniteSet(DOMAIN m.tape) /\ \A sym \in DOMAIN m.tape : IsList(m.tape[sym])
    /\ IsList(m.closed)

\* g is a stream.
IsPrintIn(g, t, sym) ==
    /\ t.seq \in 1 .. Len(g) /\ t = Trade(g[t.seq], t.seq)
    /\ g[t.seq].kind = "Fill" /\ t.sym = sym

\* The trades of sym in a list.
Prints(g, trades, sym, low, high) ==
    /\ IsList(trades)
    /\ \A i \in 1 .. Len(trades) : trades[i].sym = sym =>
          IsPrintIn(g, trades[i], sym) /\ low < trades[i].seq /\ trades[i].seq <= high
    /\ \A i, j \in 1 .. Len(trades) :
          i < j /\ trades[i].sym = sym /\ trades[j].sym = sym => trades[i].seq < trades[j].seq

OnlyOf(trades, sym) == \A i \in 1 .. Len(trades) : trades[i].sym = sym

\* A tape of one symbol.
TapeOf(g, trades, sym, low, high) == Prints(g, trades, sym, low, high) /\ OnlyOf(trades, sym)

LEMMA NoTape ==
    ASSUME NEW g, NEW sym, NEW low, NEW high
    PROVE  TapeOf(g, <<>>, sym, low, high)
<1>1. IsList(<<>>) /\ 1 .. Len(<<>>) = {}
  BY NoneIsList
<1>2. QED
  BY <1>1 DEF TapeOf, Prints, OnlyOf

LEMMA TapeAppend ==
    ASSUME NEW g, NEW trades, NEW sym, NEW low \in Nat, NEW high \in Nat,
           TapeOf(g, trades, sym, low, high), NEW t, IsPrintIn(g, t, sym),
           high < t.seq, low <= high, NEW top \in Nat, t.seq <= top
    PROVE  TapeOf(g, Append(trades, t), sym, low, top)
<1>1. PICK n \in Nat : n = Len(trades)
  BY ListIs DEF TapeOf, Prints
<1>2. PICK more : more = Append(trades, t)
  OBVIOUS
<1>3. IsList(more) /\ Len(more) = n + 1 /\ more[n + 1] = t /\ \A i \in 1 .. n : more[i] = trades[i]
  BY <1>1, <1>2, AppendIs DEF TapeOf, Prints
<1>4. /\ \A i \in 1 .. n : /\ IsPrintIn(g, trades[i], sym) /\ low < trades[i].seq
                           /\ trades[i].seq <= high /\ trades[i].sym = sym
      /\ \A i, j \in 1 .. n : i < j => trades[i].seq < trades[j].seq
  BY <1>1 DEF TapeOf, Prints, OnlyOf
<1>5. t.sym = sym /\ t.seq \in Nat
  BY DEF IsPrintIn
<1>6. \A i \in 1 .. n : trades[i].seq \in Nat
  BY <1>4 DEF IsPrintIn
<1>7. ASSUME NEW i \in 1 .. n + 1
      PROVE  IsPrintIn(g, more[i], sym) /\ low < more[i].seq /\ more[i].seq <= top /\ more[i].sym = sym
  <2>1. CASE i = n + 1
    BY <1>3, <1>5, <2>1
  <2>2. CASE i # n + 1
    <3>1. i \in 1 .. n
      BY <2>2
    <3>2. QED
      BY <1>3, <1>4, <1>5, <1>6, <3>1
  <2>3. QED
    BY <2>1, <2>2
<1>8. ASSUME NEW i \in 1 .. n + 1, NEW j \in 1 .. n + 1, i < j
      PROVE  more[i].seq < more[j].seq
  <2>1. i \in 1 .. n /\ more[i] = trades[i]
    BY <1>3, <1>8
  <2>2. CASE j = n + 1
    BY <1>3, <1>4, <1>5, <1>6, <2>1, <2>2
  <2>3. CASE j # n + 1
    <3>1. j \in 1 .. n /\ more[j] = trades[j]
      BY <1>3, <2>3
    <3>2. QED
      BY <1>4, <1>8, <2>1, <3>1
  <2>4. QED
    BY <2>2, <2>3
<1>9. QED
  BY <1>2, <1>3, <1>7, <1>8 DEF TapeOf, Prints, OnlyOf

\* What is on a tape stays there when the stream grows and the bounds widen.
LEMMA PrintsWiden ==
    ASSUME NEW g, NEW trades, NEW sym, NEW low \in Nat, NEW high \in Nat,
           Prints(g, trades, sym, low, high),
           NEW more, Len(g) \in Nat, Len(more) \in Nat, Len(g) <= Len(more),
           \A i \in 1 .. Len(g) : more[i] = g[i],
           NEW bottom \in Nat, bottom <= low, NEW top \in Nat, high <= top
    PROVE  Prints(more, trades, sym, bottom, top)
<1>1. ASSUME NEW i \in 1 .. Len(trades), trades[i].sym = sym
      PROVE  IsPrintIn(more, trades[i], sym) /\ bottom < trades[i].seq /\ trades[i].seq <= top
  <2>1. PICK t : t = trades[i]
    OBVIOUS
  <2>2. IsPrintIn(g, t, sym) /\ low < t.seq /\ t.seq <= high
    BY <1>1, <2>1 DEF Prints
  <2>3. t.seq \in 1 .. Len(g) /\ t.seq \in 1 .. Len(more) /\ more[t.seq] = g[t.seq]
    BY <2>2 DEF IsPrintIn
  <2>4. IsPrintIn(more, t, sym)
    BY <2>2, <2>3 DEF IsPrintIn
  <2>5. bottom < t.seq /\ t.seq <= top
    BY <2>2, <2>3
  <2>6. QED
    BY <2>1, <2>4, <2>5
<1>2. QED
  BY <1>1 DEF Prints

-----------------------------------------------------------------------------
LEMMA NewMarketOk == MarketOk(NewMarket) /\ \A sym : Entry(NewMarket.tape, sym, <<>>) = <<>>
<1>1. /\ DOMAIN NewMarket = MarketFields /\ NewMarket.closed = <<>> /\ NewMarket.dirty = {}
      /\ DOMAIN NewMarket.books = {} /\ DOMAIN NewMarket.tape = {}
  BY DEF NewMarket, MarketFields
<1>2. QED
  BY <1>1, NoneIsList, FS_EmptySet DEF MarketOk, Entry

LEMMA LoadMarketOk ==
    ASSUME NEW s, IsFiniteSet(DOMAIN s.books)
    PROVE  MarketOk(LoadMarket(s))
<1>1. PICK m : m = LoadMarket(s)
  OBVIOUS
<1>2. /\ DOMAIN m = MarketFields /\ m.closed = <<>> /\ m.books = s.books
      /\ m.dirty = DOMAIN s.books /\ DOMAIN m.tape = {}
  BY <1>1 DEF LoadMarket, NewMarket, MarketFields
<1>3. QED
  BY <1>1, <1>2, NoneIsList, FS_EmptySet DEF MarketOk

LEMMA DrainedOk ==
    ASSUME NEW m, MarketOk(m)
    PROVE  MarketOk(TickDrains(m)) /\ \A sym : Entry(TickDrains(m).tape, sym, <<>>) = <<>>
<1>1. PICK n : n = TickDrains(m)
  OBVIOUS
<1>2. /\ DOMAIN n = MarketFields /\ n.closed = <<>> /\ n.books = m.books
      /\ n.dirty = {} /\ DOMAIN n.tape = {}
  BY <1>1 DEF TickDrains, MarketOk, MarketFields
<1>3. MarketOk(n)
  BY <1>2, NoneIsList, FS_EmptySet DEF MarketOk
<1>4. \A sym : Entry(n.tape, sym, <<>>) = <<>>
  BY <1>2 DEF Entry
<1>5. QED
  BY <1>1, <1>3, <1>4

LEMMA AddToBarKeeps ==
    ASSUME NEW m, MarketOk(m), NEW entry, NEW n, n = AddToBar(m, entry)
    PROVE  MarketOk(n) /\ n.tape = m.tape
<1> DEFINE e == entry.trade
           width == entry.width
           key == <<e.sym, width>>
           current == Entry(m.bars, key, <<>>)
<1>1. CASE current = <<>>
  <2>1. n = [m EXCEPT !.bars = Put(m.bars, key, OpenBar(e, width))]
    BY <1>1 DEF AddToBar
  <2>2. /\ DOMAIN n = MarketFields /\ n.closed = m.closed /\ n.tape = m.tape
        /\ n.books = m.books /\ n.dirty = m.dirty
    BY <2>1 DEF MarketOk, MarketFields
  <2>3. QED
    BY <2>2 DEF MarketOk
<1>2. CASE current # <<>> /\ current.start = BucketStart(width, e.ts)
  <2>1. n = [m EXCEPT !.bars[key] = ExtendBar(@, e)]
    BY <1>2 DEF AddToBar
  <2>2. /\ DOMAIN n = MarketFields /\ n.closed = m.closed /\ n.tape = m.tape
        /\ n.books = m.books /\ n.dirty = m.dirty
    BY <2>1 DEF MarketOk, MarketFields
  <2>3. QED
    BY <2>2 DEF MarketOk
<1>3. CASE current # <<>> /\ current.start # BucketStart(width, e.ts)
  <2>1. n = [m EXCEPT !.bars[key] = OpenBar(e, width), !.closed = Append(@, current)]
    BY <1>3 DEF AddToBar
  <2>2. /\ DOMAIN n = MarketFields /\ n.closed = Append(m.closed, current) /\ n.tape = m.tape
        /\ n.books = m.books /\ n.dirty = m.dirty
    BY <2>1 DEF MarketOk, MarketFields
  <2> HIDE DEF current
  <2>3. IsList(Append(m.closed, current))
    BY AppendIs DEF MarketOk
  <2>4. QED
    BY <2>2, <2>3 DEF MarketOk
<1>4. QED
  BY <1>1, <1>2, <1>3

LEMMA AddToBarsKeeps ==
    ASSUME NEW m, MarketOk(m), NEW e, NEW n, n = AddToBars(m, e)
    PROVE  MarketOk(n) /\ n.tape = m.tape
<1>1. PICK s : s = [i \in DOMAIN BarWidths |-> [trade |-> e, width |-> BarWidths[i]]]
  OBVIOUS
<1>2. PICK k \in Nat : DOMAIN s = 1 .. k
  BY <1>1, WidthsAreSeconds
<1>3. n = Barring!Folded(m, s)
  BY <1>1 DEF AddToBars, FoldLeft, MapThenFoldSet, Barring!Folded, Barring!Folds, Barring!Max, Max
<1>30. PICK z : z = Barring!Folded(m, s)
  OBVIOUS
<1>4. PICK v : /\ v[0] = m /\ v[k] = Barring!Folded(m, s)
               /\ \A j \in 0 .. k - 1 : v[j + 1] = AddToBar(v[j], s[j + 1])
  BY <1>2, <1>30, Barring!FoldedRun
<1> DEFINE P == {j \in 0 .. k : MarketOk(v[j]) /\ v[j].tape = m.tape}
<1>5. 0 \in P
  BY <1>4
<1>6. ASSUME NEW j \in 0 .. k - 1, j \in P
      PROVE  j + 1 \in P
  <2>1. PICK a, b, x : a = v[j] /\ b = v[j + 1] /\ x = s[j + 1]
    OBVIOUS
  <2>2. MarketOk(a) /\ b = AddToBar(a, x) /\ a.tape = m.tape
    BY <1>4, <1>6, <2>1
  <2>3. MarketOk(b) /\ b.tape = a.tape
    BY <2>2, AddToBarKeeps
  <2>4. j + 1 \in 0 .. k
    OBVIOUS
  <2>5. QED
    BY <2>1, <2>2, <2>3, <2>4
<1>7. 0 .. k \subseteq P
  <2> HIDE DEF P
  <2>1. QED
    BY <1>2, <1>5, <1>6, Routing!UpTo
<1>8. k \in 0 .. k
  OBVIOUS
<1>9. QED
  BY <1>3, <1>4, <1>7, <1>8

LEMMA SetBookKeeps ==
    ASSUME NEW m, MarketOk(m), NEW sym, NEW book, NEW n, n = SetBook(m, sym, book)
    PROVE  MarketOk(n) /\ n.tape = m.tape
<1>1. /\ DOMAIN n = MarketFields /\ n.closed = m.closed /\ n.tape = m.tape
      /\ n.dirty = m.dirty \union {sym} /\ DOMAIN n.books = DOMAIN m.books \union {sym}
  BY DEF SetBook, MarketOk, MarketFields, Put, Upsert
<1>2. IsFiniteSet(n.dirty) /\ IsFiniteSet(DOMAIN n.books)
  BY <1>1, FS_AddElement DEF MarketOk
<1>3. QED
  BY <1>1, <1>2 DEF MarketOk

LEMMA OnTapeKeeps ==
    ASSUME NEW m, MarketOk(m), NEW trade, NEW n, n = OnTape(m, trade)
    PROVE  /\ MarketOk(n)
           /\ n.tape = Put(m.tape, trade.sym, Append(Entry(m.tape, trade.sym, <<>>), trade))
<1>1. PICK t : t = Append(Entry(m.tape, trade.sym, <<>>), trade)
  OBVIOUS
<1>2. /\ DOMAIN n = MarketFields /\ n.closed = m.closed /\ n.books = m.books /\ n.dirty = m.dirty
      /\ n.tape = Put(m.tape, trade.sym, t)
  BY <1>1 DEF OnTape, MarketOk, MarketFields
<1>3. IsList(t)
  BY <1>1, NoneIsList, AppendIs DEF Entry, MarketOk
<1>4. \A sym \in DOMAIN n.tape : IsList(n.tape[sym])
  BY <1>2, <1>3 DEF Put, Upsert, MarketOk
<1>5. DOMAIN n.tape = DOMAIN m.tape \union {trade.sym}
  BY <1>2 DEF Put, Upsert
<1>6. IsFiniteSet(DOMAIN n.tape)
  <2>1. PICK S : S = DOMAIN m.tape
    OBVIOUS
  <2>2. IsFiniteSet(S)
    BY <2>1 DEF MarketOk
  <2>3. IsFiniteSet(S \union {trade.sym})
    BY <2>2, FS_AddElement
  <2>4. QED
    BY <1>5, <2>1, <2>3
<1>7. QED
  BY <1>1, <1>2, <1>4, <1>6 DEF MarketOk

\* Only a fill has a print.
LEMMA ObserveKeeps ==
    ASSUME NEW m, MarketOk(m), NEW e, NEW seq, NEW n, n = Observe(m, e, seq)
    PROVE  /\ MarketOk(n)
           /\ e.kind = "Fill" =>
                n.tape = Put(m.tape, e.sym, Append(Entry(m.tape, e.sym, <<>>), Trade(e, seq)))
           /\ e.kind # "Fill" => n.tape = m.tape
<1>1. CASE e.kind \in {"OrderAccepted", "OrderCancelled"}
  <2>1. \E book : n = SetBook(m, e.sym, book)
    BY <1>1 DEF Observe
  <2>2. QED
    BY <1>1, <2>1, SetBookKeeps
<1>2. CASE e.kind = "Fill"
  <2>1. PICK book : n = AddToBars(OnTape(SetBook(m, e.sym, book), Trade(e, seq)), e)
    BY <1>2 DEF Observe
  <2>2. PICK p, q : p = SetBook(m, e.sym, book) /\ q = OnTape(p, Trade(e, seq))
    OBVIOUS
  <2>3. MarketOk(p) /\ p.tape = m.tape
    BY <2>2, SetBookKeeps
  <2>4. PICK t : t = Trade(e, seq)
    OBVIOUS
  <2>5. MarketOk(q) /\ q.tape = Put(p.tape, t.sym, Append(Entry(p.tape, t.sym, <<>>), t))
    BY <2>2, <2>3, <2>4, OnTapeKeeps
  <2>6. MarketOk(n) /\ n.tape = q.tape
    BY <2>1, <2>2, <2>5, AddToBarsKeeps
  <2>7. t.sym = e.sym
    BY <2>4 DEF Trade
  <2>8. QED
    BY <1>2, <2>3, <2>4, <2>5, <2>6, <2>7
<1>3. CASE e.kind \notin {"OrderAccepted", "OrderCancelled", "Fill"}
  BY <1>3 DEF Observe
<1>4. QED
  BY <1>1, <1>2, <1>3

\* The next record of the stream.
LEMMA ObserveTapes ==
    ASSUME NEW g, NEW m, MarketOk(m), NEW sym, NEW low \in Nat, NEW at \in Nat, low <= at,
           TapeOf(g, Entry(m.tape, sym, <<>>), sym, low, at),
           at + 1 \in 1 .. Len(g), Len(g) \in Nat, NEW n, n = Observe(m, g[at + 1], at + 1)
    PROVE  TapeOf(g, Entry(n.tape, sym, <<>>), sym, low, at + 1)
<1>1. PICK e : e = g[at + 1]
  OBVIOUS
<1>2. PICK t : t = Trade(e, at + 1)
  OBVIOUS
<1>3. PICK old : old = Entry(m.tape, sym, <<>>)
  OBVIOUS
<1>4. t.sym = e.sym /\ t.seq = at + 1
  BY <1>2 DEF Trade
<1>5. CASE e.kind = "Fill" /\ e.sym = sym
  <2>1. n.tape = Put(m.tape, sym, Append(old, t))
    BY <1>1, <1>2, <1>3, <1>5, ObserveKeeps
  <2>2. Entry(n.tape, sym, <<>>) = Append(old, t)
    BY <2>1 DEF Entry, Put, Upsert
  <2>3. IsPrintIn(g, t, sym)
    BY <1>1, <1>2, <1>4, <1>5 DEF IsPrintIn
  <2>4. TapeOf(g, old, sym, low, at)
    BY <1>3
  <2>5. TapeOf(g, Append(old, t), sym, low, at + 1)
    <3>1. at < t.seq /\ t.seq <= at + 1 /\ at + 1 \in Nat
      BY <1>4
    <3>2. QED
      BY <2>3, <2>4, <3>1, TapeAppend
  <2>6. QED
    BY <2>2, <2>5
<1>6. CASE ~(e.kind = "Fill" /\ e.sym = sym)
  <2>1. Entry(n.tape, sym, <<>>) = old
    <3>1. CASE e.kind # "Fill"
      BY <1>1, <1>3, <3>1, ObserveKeeps
    <3>2. CASE e.kind = "Fill"
      <4>1. \E x : n.tape = Put(m.tape, e.sym, x)
        BY <1>1, <3>2, ObserveKeeps
      <4>2. QED
        BY <1>3, <1>6, <3>2, <4>1 DEF Entry, Put, Upsert
    <3>3. QED
      BY <3>1, <3>2
  <2>2. at <= at + 1 /\ at + 1 \in Nat /\ low <= low
    OBVIOUS
  <2>3. Prints(g, old, sym, low, at) /\ OnlyOf(old, sym)
    BY <1>3 DEF TapeOf
  <2>4. Prints(g, old, sym, low, at + 1)
    BY <2>2, <2>3, PrintsWiden
  <2>5. QED
    BY <2>1, <2>3, <2>4 DEF TapeOf
<1>7. QED
  BY <1>5, <1>6

\* A batch.
LEMMA BatchObserved ==
    ASSUME NEW g, Len(g) \in Nat, NEW at \in Nat, NEW k \in Nat, at + k <= Len(g),
           NEW s, DOMAIN s = 1 .. k, \A i \in 1 .. k : s[i].seq = at + i /\ s[i].entry = g[at + i],
           NEW m, MarketOk(m), NEW n, n = FoldLeft(ObserveRecord, m, s)
    PROVE  /\ MarketOk(n)
           /\ \A sym : \A low \in 0 .. at :
                 TapeOf(g, Entry(m.tape, sym, <<>>), sym, low, at) =>
                 TapeOf(g, Entry(n.tape, sym, <<>>), sym, low, at + k)
<1>1. n = Observing!Folded(m, s)
  BY DEF FoldLeft, MapThenFoldSet, Observing!Folded, Observing!Folds, Observing!Max, Max
<1>10. PICK z : z = Observing!Folded(m, s)
  OBVIOUS
<1>2. PICK v : /\ v[0] = m /\ v[k] = Observing!Folded(m, s)
               /\ \A j \in 0 .. k - 1 : v[j + 1] = ObserveRecord(v[j], s[j + 1])
  BY <1>10, Observing!FoldedRun
<1> DEFINE Q(a, j) == \A sym : \A low \in 0 .. at :
                 TapeOf(g, Entry(m.tape, sym, <<>>), sym, low, at) =>
                 TapeOf(g, Entry(a.tape, sym, <<>>), sym, low, at + j)
           P == {j \in 0 .. k : MarketOk(v[j]) /\ Q(v[j], j)}
<1>3. 0 \in P
  <2>1. Q(v[0], 0)
    BY <1>2
  <2> HIDE DEF Q
  <2>2. QED
    BY <1>2, <2>1
<1>4. ASSUME NEW j \in 0 .. k - 1, j \in P
      PROVE  j + 1 \in P
  <2>1. PICK a, b, x : a = v[j] /\ b = v[j + 1] /\ x = s[j + 1]
    OBVIOUS
  <2>2. MarketOk(a) /\ b = ObserveRecord(a, x) /\ Q(a, j)
    <3> HIDE DEF Q
    <3>1. QED
      BY <1>2, <1>4, <2>1
  <2>3. j + 1 \in 1 .. k /\ j + 1 \in 0 .. k /\ at + (j + 1) = (at + j) + 1 /\ at + j \in Nat
        /\ (at + j) + 1 \in 1 .. Len(g) /\ j \in Nat
    OBVIOUS
  <2>4. b = Observe(a, g[(at + j) + 1], (at + j) + 1)
    BY <2>1, <2>2, <2>3 DEF ObserveRecord
  <2>5. MarketOk(b)
    BY <2>2, <2>4, ObserveKeeps
  <2>6. Q(b, j + 1)
    <3> SUFFICES ASSUME NEW sym, NEW low \in 0 .. at,
                        TapeOf(g, Entry(m.tape, sym, <<>>), sym, low, at)
                 PROVE  TapeOf(g, Entry(b.tape, sym, <<>>), sym, low, at + (j + 1))
      OBVIOUS
    <3>1. PICK pos : pos = at + j
      OBVIOUS
    <3>2. TapeOf(g, Entry(a.tape, sym, <<>>), sym, low, pos)
      BY <2>2, <3>1
    <3>3. pos \in Nat /\ low \in Nat /\ low <= pos /\ pos + 1 \in 1 .. Len(g)
          /\ b = Observe(a, g[pos + 1], pos + 1)
      BY <2>3, <2>4, <3>1
    <3>4. TapeOf(g, Entry(b.tape, sym, <<>>), sym, low, pos + 1)
      BY <2>2, <3>2, <3>3, ObserveTapes
    <3>5. QED
      BY <2>3, <3>1, <3>4
  <2> HIDE DEF Q
  <2>7. QED
    BY <2>1, <2>3, <2>5, <2>6
<1>5. 0 .. k \subseteq P
  <2> HIDE DEF P
  <2>1. QED
    BY <1>3, <1>4, Routing!UpTo
<1>6. k \in 0 .. k
  OBVIOUS
<1>7. QED
  BY <1>1, <1>2, <1>5, <1>6

-----------------------------------------------------------------------------
(***************************************************************************)
(* Frames: the prints of sym among them.                                   *)
(***************************************************************************)
IsTape(f, sym) == f.ch[1] = "tape" /\ f.ch[2] = sym

Frames(g, frames, sym, low, high) ==
    /\ IsList(frames)
    /\ \A i \in 1 .. Len(frames) : IsTape(frames[i], sym) =>
          /\ IsPrintIn(g, frames[i].trade, sym)
          /\ low < frames[i].trade.seq /\ frames[i].trade.seq <= high
    /\ \A i, j \in 1 .. Len(frames) :
          i < j /\ IsTape(frames[i], sym) /\ IsTape(frames[j], sym) =>
          frames[i].trade.seq < frames[j].trade.seq

LEMMA OtherFrames ==
    ASSUME NEW frames, IsList(frames), NEW sym, NEW g, NEW low, NEW high,
           \A i \in 1 .. Len(frames) : ~IsTape(frames[i], sym)
    PROVE  Frames(g, frames, sym, low, high)
  BY DEF Frames

LEMMA FramesWiden ==
    ASSUME NEW g, NEW frames, NEW sym, NEW low \in Nat, NEW high \in Nat,
           Frames(g, frames, sym, low, high),
           NEW more, Len(g) \in Nat, Len(more) \in Nat, Len(g) <= Len(more),
           \A i \in 1 .. Len(g) : more[i] = g[i],
           NEW bottom \in Nat, bottom <= low, NEW top \in Nat, high <= top
    PROVE  Frames(more, frames, sym, bottom, top)
<1>1. ASSUME NEW i \in 1 .. Len(frames), IsTape(frames[i], sym)
      PROVE  /\ IsPrintIn(more, frames[i].trade, sym)
             /\ bottom < frames[i].trade.seq /\ frames[i].trade.seq <= top
  <2>1. PICK t : t = frames[i].trade
    OBVIOUS
  <2>2. IsPrintIn(g, t, sym) /\ low < t.seq /\ t.seq <= high
    BY <1>1, <2>1 DEF Frames
  <2>3. t.seq \in 1 .. Len(g) /\ t.seq \in 1 .. Len(more) /\ more[t.seq] = g[t.seq]
    BY <2>2 DEF IsPrintIn
  <2>4. IsPrintIn(more, t, sym)
    BY <2>2, <2>3 DEF IsPrintIn
  <2>5. bottom < t.seq /\ t.seq <= top
    BY <2>2, <2>3
  <2>6. QED
    BY <2>1, <2>4, <2>5
<1>2. QED
  BY <1>1 DEF Frames

LEMMA FramesConcat ==
    ASSUME NEW g, NEW a, NEW b, NEW sym, NEW low \in Nat, NEW mid \in Nat, NEW high \in Nat,
           low <= mid, mid <= high, Frames(g, a, sym, low, mid), Frames(g, b, sym, mid, high)
    PROVE  Frames(g, a \o b, sym, low, high)
<1>1. PICK n \in Nat : n = Len(a)
  BY ListIs DEF Frames
<1>2. PICK m \in Nat : m = Len(b)
  BY ListIs DEF Frames
<1>3. PICK s : s = a \o b
  OBVIOUS
<1>4. IsList(s) /\ Len(s) = n + m /\ \A i \in 1 .. n + m : s[i] = IF i <= n THEN a[i] ELSE b[i - n]
  BY <1>1, <1>2, <1>3, ConcatIs DEF Frames
<1>5. \A i \in 1 .. n : IsTape(a[i], sym) => /\ IsPrintIn(g, a[i].trade, sym) /\ a[i].trade.seq \in Nat
                                             /\ low < a[i].trade.seq /\ a[i].trade.seq <= mid
  BY <1>1 DEF Frames, IsPrintIn
<1>6. \A i \in 1 .. m : IsTape(b[i], sym) => /\ IsPrintIn(g, b[i].trade, sym) /\ b[i].trade.seq \in Nat
                                             /\ mid < b[i].trade.seq /\ b[i].trade.seq <= high
  BY <1>2 DEF Frames, IsPrintIn
<1>7. ASSUME NEW i \in 1 .. n + m, IsTape(s[i], sym)
      PROVE  /\ IsPrintIn(g, s[i].trade, sym)
             /\ low < s[i].trade.seq /\ s[i].trade.seq <= high
  <2>1. CASE i <= n
    <3>1. i \in 1 .. n /\ s[i] = a[i]
      BY <1>4, <2>1
    <3>2. PICK q : q = a[i].trade.seq
      OBVIOUS
    <3>3. IsPrintIn(g, a[i].trade, sym) /\ q \in Nat /\ low < q /\ q <= mid
      BY <1>5, <1>7, <3>1, <3>2
    <3>4. QED
      BY <3>1, <3>2, <3>3
  <2>2. CASE ~(i <= n)
    <3>1. i - n \in 1 .. m /\ s[i] = b[i - n]
      BY <1>4, <2>2
    <3>2. PICK q : q = b[i - n].trade.seq
      OBVIOUS
    <3>3. IsPrintIn(g, b[i - n].trade, sym) /\ q \in Nat /\ mid < q /\ q <= high
      BY <1>6, <1>7, <3>1, <3>2
    <3>4. QED
      BY <3>1, <3>2, <3>3
  <2>3. QED
    BY <2>1, <2>2
<1>8. ASSUME NEW i \in 1 .. n + m, NEW j \in 1 .. n + m, i < j, IsTape(s[i], sym), IsTape(s[j], sym)
      PROVE  s[i].trade.seq < s[j].trade.seq
  <2>1. CASE j <= n
    <3>1. i \in 1 .. n /\ j \in 1 .. n /\ s[i] = a[i] /\ s[j] = a[j]
      BY <1>4, <1>8, <2>1
    <3>2. QED
      BY <1>1, <1>8, <3>1 DEF Frames
  <2>2. CASE i <= n /\ ~(j <= n)
    <3>1. i \in 1 .. n /\ j - n \in 1 .. m /\ s[i] = a[i] /\ s[j] = b[j - n]
      BY <1>4, <2>2
    <3>2. PICK p, q : p = a[i].trade.seq /\ q = b[j - n].trade.seq
      OBVIOUS
    <3>3. p \in Nat /\ q \in Nat /\ p <= mid /\ mid < q
      BY <1>5, <1>6, <1>8, <3>1, <3>2
    <3>4. QED
      BY <3>1, <3>2, <3>3
  <2>3. CASE ~(i <= n)
    <3>1. i - n \in 1 .. m /\ j - n \in 1 .. m /\ i - n < j - n /\ s[i] = b[i - n] /\ s[j] = b[j - n]
      BY <1>4, <1>8, <2>3
    <3>2. PICK p, q : p = i - n /\ q = j - n
      OBVIOUS
    <3>3. b[p].trade.seq < b[q].trade.seq
      BY <1>2, <1>8, <3>1, <3>2 DEF Frames
    <3>4. QED
      BY <3>1, <3>2, <3>3
  <2>4. QED
    BY <2>1, <2>2, <2>3
<1>9. QED
  BY <1>3, <1>4, <1>7, <1>8 DEF Frames

\* The browser reads a frame.
LEMMA FramesTail ==
    ASSUME NEW g, NEW frames, frames # <<>>, NEW sym, NEW low \in Nat, NEW high \in Nat, low <= high,
           Frames(g, frames, sym, low, high), NEW f, f = Head(frames)
    PROVE  IF IsTape(f, sym)
           THEN /\ IsPrintIn(g, f.trade, sym) /\ low < f.trade.seq /\ f.trade.seq <= high
                /\ Frames(g, Tail(frames), sym, f.trade.seq, high)
           ELSE Frames(g, Tail(frames), sym, low, high)
<1>1. PICK rest : rest = Tail(frames)
  OBVIOUS
<1>2. PICK n : n = Len(rest)
  OBVIOUS
<1>3. /\ n \in Nat /\ Len(frames) = n + 1 /\ f = frames[1] /\ IsList(rest)
      /\ \A i \in 1 .. n : rest[i] = frames[i + 1]
  BY <1>1, <1>2, TailIs, ListIs DEF Frames
<1>4. \A i \in 1 .. n : i + 1 \in 1 .. Len(frames) /\ 1 \in 1 .. Len(frames) /\ 1 < i + 1
  BY <1>3
<1>5. ASSUME NEW i \in 1 .. n, IsTape(rest[i], sym)
      PROVE  /\ IsPrintIn(g, rest[i].trade, sym)
             /\ low < rest[i].trade.seq /\ rest[i].trade.seq <= high
             /\ IsTape(f, sym) => f.trade.seq < rest[i].trade.seq
  BY <1>3, <1>4, <1>5 DEF Frames
<1>6. ASSUME NEW i \in 1 .. n, NEW j \in 1 .. n, i < j, IsTape(rest[i], sym), IsTape(rest[j], sym)
      PROVE  rest[i].trade.seq < rest[j].trade.seq
  <2>1. PICK p, q : p = i + 1 /\ q = j + 1
    OBVIOUS
  <2>2. p \in 1 .. Len(frames) /\ q \in 1 .. Len(frames) /\ p < q
        /\ rest[i] = frames[p] /\ rest[j] = frames[q]
    BY <1>3, <1>4, <1>6, <2>1
  <2>3. QED
    BY <1>6, <2>2 DEF Frames
<1>7. IsTape(f, sym) => IsPrintIn(g, f.trade, sym) /\ low < f.trade.seq /\ f.trade.seq <= high
  <2>1. 1 \in 1 .. Len(frames)
    BY <1>3
  <2>2. QED
    BY <1>3, <2>1 DEF Frames
<1>8. QED
  BY <1>1, <1>2, <1>3, <1>5, <1>6, <1>7 DEF Frames

-----------------------------------------------------------------------------
(***************************************************************************)
(* What the tick makes.                                                    *)
(***************************************************************************)
LEMMA ListOfSet ==
    ASSUME NEW S, IsFiniteSet(S)
    PROVE  /\ Cardinality(S) \in Nat
           /\ SetToSeq(S) \in [1 .. Cardinality(S) -> S]
           /\ \A i, j \in 1 .. Cardinality(S) : SetToSeq(S)[i] = SetToSeq(S)[j] => i = j
<1>1. Cardinality(S) \in Nat /\ ExistsBijection(1 .. Cardinality(S), S)
  BY FS_CardinalityType
<1>2. \E f \in [1 .. Cardinality(S) -> S] : IsInjective(f)
  BY <1>1 DEF ExistsBijection, Bijection, Injection
<1>3. SetToSeq(S) \in [1 .. Cardinality(S) -> S] /\ IsInjective(SetToSeq(S))
  BY <1>2 DEF SetToSeq
<1>4. QED
  BY <1>1, <1>3 DEF IsInjective

LEMMA MadeIsList ==
    ASSUME NEW n \in Nat, NEW s, DOMAIN s = 1 .. n, s = [i \in 1 .. n |-> s[i]]
    PROVE  IsList(s) /\ Len(s) = n
<1>1. PICK S : S = {s[i] : i \in 1 .. n}
  OBVIOUS
<1>2. s \in [1 .. n -> S]
  BY <1>1
<1>3. s \in Seq(S) /\ Len(s) = n
  BY <1>2
<1>4. QED
  BY <1>3 DEF IsList

Framed(trades) == [i \in DOMAIN trades |-> TapeFrame(trades[i])]

LEMMA FramedIs ==
    ASSUME NEW trades, IsList(trades)
    PROVE  /\ IsList(Framed(trades)) /\ Len(Framed(trades)) = Len(trades)
           /\ \A i \in 1 .. Len(trades) : Framed(trades)[i] = TapeFrame(trades[i])
<1>1. PICK n \in Nat : n = Len(trades) /\ DOMAIN trades = 1 .. n
  BY ListIs
<1>2. PICK s : s = Framed(trades)
  OBVIOUS
<1>3. s = [i \in 1 .. n |-> TapeFrame(trades[i])]
  BY <1>1, <1>2 DEF Framed
<1>4. IsList(s) /\ Len(s) = n
  <2>1. DOMAIN s = 1 .. n /\ s = [i \in 1 .. n |-> s[i]]
    BY <1>3
  <2>2. QED
    BY <2>1, MadeIsList
<1>5. QED
  BY <1>1, <1>2, <1>3, <1>4

LEMMA FramedTwo ==
    ASSUME NEW a, IsList(a), NEW b, IsList(b)
    PROVE  Framed(a \o b) = Framed(a) \o Framed(b)
<1>1. PICK n \in Nat, m \in Nat : n = Len(a) /\ m = Len(b)
  BY ListIs
<1>2. /\ IsList(a \o b) /\ Len(a \o b) = n + m
      /\ \A i \in 1 .. n + m : (a \o b)[i] = IF i <= n THEN a[i] ELSE b[i - n]
  BY <1>1, ConcatIs
<1>3. PICK s, p, q : s = Framed(a \o b) /\ p = Framed(a) /\ q = Framed(b)
  OBVIOUS
<1>4. /\ IsList(s) /\ Len(s) = n + m
      /\ \A i \in 1 .. n + m : s[i] = TapeFrame((a \o b)[i])
  <2>1. PICK ab : ab = a \o b
    OBVIOUS
  <2>2. IsList(Framed(ab)) /\ Len(Framed(ab)) = Len(ab)
        /\ \A i \in 1 .. Len(ab) : Framed(ab)[i] = TapeFrame(ab[i])
    BY <1>2, <2>1, FramedIs
  <2>3. QED
    BY <1>2, <1>3, <2>1, <2>2
<1>5. /\ IsList(p) /\ Len(p) = n /\ \A i \in 1 .. n : p[i] = TapeFrame(a[i])
      /\ IsList(q) /\ Len(q) = m /\ \A i \in 1 .. m : q[i] = TapeFrame(b[i])
  BY <1>1, <1>3, FramedIs
<1>6. /\ IsList(p \o q) /\ Len(p \o q) = n + m
      /\ \A i \in 1 .. n + m : (p \o q)[i] = IF i <= n THEN p[i] ELSE q[i - n]
  BY <1>5, ConcatIs
<1>7. \A i \in 1 .. n + m : s[i] = (p \o q)[i]
  <2> SUFFICES ASSUME NEW i \in 1 .. n + m PROVE s[i] = (p \o q)[i]
    OBVIOUS
  <2>1. CASE i <= n
    BY <1>2, <1>4, <1>5, <1>6, <2>1
  <2>2. CASE ~(i <= n)
    <3>1. i - n \in 1 .. m
      BY <2>2
    <3>2. QED
      BY <1>2, <1>4, <1>5, <1>6, <2>2, <3>1
  <2>3. QED
    BY <2>1, <2>2
<1>8. QED
  BY <1>3, <1>4, <1>6, <1>7, ListsAgree

LEMMA FramedTape ==
    ASSUME NEW g, NEW trades, NEW sym, NEW low, NEW high, Prints(g, trades, sym, low, high)
    PROVE  Frames(g, Framed(trades), sym, low, high)
<1>1. PICK s : s = Framed(trades)
  OBVIOUS
<1>2. IsList(s) /\ Len(s) = Len(trades) /\ \A i \in 1 .. Len(trades) : s[i] = TapeFrame(trades[i])
  BY <1>1, FramedIs DEF Prints
<1>3. \A i \in 1 .. Len(trades) : s[i].trade = trades[i] /\ (IsTape(s[i], sym) <=> trades[i].sym = sym)
  <2> SUFFICES ASSUME NEW i \in 1 .. Len(trades)
               PROVE  s[i].trade = trades[i] /\ (IsTape(s[i], sym) <=> trades[i].sym = sym)
    OBVIOUS
  <2>1. PICK t, f : t = trades[i] /\ f = s[i]
    OBVIOUS
  <2>2. f = [ch |-> <<"tape", t.sym>>, seq |-> t.seq, trade |-> t]
    BY <1>2, <2>1 DEF TapeFrame
  <2>3. f.trade = t /\ f.ch = <<"tape", t.sym>>
    BY <2>2
  <2>4. f.ch[1] = "tape" /\ f.ch[2] = t.sym
    BY <2>3
  <2>5. QED
    BY <2>1, <2>3, <2>4 DEF IsTape
<1>4. QED
  BY <1>1, <1>2, <1>3 DEF Frames, Prints

\* What the tick has to tell of sym, and that its tapes are apart.
Telling(g, sym, low, high) ==
    /\ low \in Nat /\ high \in Nat /\ low <= high
    /\ \A s \in DOMAIN market.tape : OnlyOf(market.tape[s], s)
    /\ TapeOf(g, Entry(market.tape, sym, <<>>), sym, low, high)

LEMMA TapeFramesAre ==
    ASSUME MarketOk(market)
    PROVE  /\ IsList(TapeFrames) /\ \A i \in 1 .. Len(TapeFrames) : TapeFrames[i].ch[1] = "tape"
           /\ \A g, sym, low, high : Telling(g, sym, low, high) => Frames(g, TapeFrames, sym, low, high)
<1>1. PICK S : S = DOMAIN market.tape
  OBVIOUS
<1>2. PICK syms : syms = SetToSeq(S)
  OBVIOUS
<1>3. PICK k : k = Cardinality(S)
  OBVIOUS
<1>4. k \in Nat /\ syms \in [1 .. k -> S] /\ \A i, j \in 1 .. k : syms[i] = syms[j] => i = j
  BY <1>1, <1>2, <1>3, ListOfSet DEF MarketOk
<1>5. PICK ts : ts = [i \in 1 .. k |-> market.tape[syms[i]]]
  OBVIOUS
<1>6. \A i \in 1 .. k : IsList(ts[i])
  BY <1>1, <1>4, <1>5 DEF MarketOk
<1>7. PICK trades : trades = Joining!Folded(<<>>, ts)
  OBVIOUS
<1>8. TapeFrames = Framed(trades)
  <2>1. DOMAIN syms = 1 .. k
    BY <1>4
  <2>2. trades = FoldLeft(Following, <<>>, ts)
    BY <1>7 DEF FoldLeft, MapThenFoldSet, Joining!Folded, Joining!Folds, Joining!Max, Max
  <2>3. trades = FoldLeft(Following, <<>>, [i \in DOMAIN SetToSeq(DOMAIN market.tape) |->
                                               market.tape[SetToSeq(DOMAIN market.tape)[i]]])
    BY <1>1, <1>2, <1>5, <2>1, <2>2
  <2>4. QED
    BY <2>3 DEF TapeFrames, Framed
<1>9. PICK v : /\ v[0] = <<>> /\ v[k] = Joining!Folded(<<>>, ts)
               /\ \A j \in 0 .. k - 1 : v[j + 1] = Following(v[j], ts[j + 1])
  <2>1. DOMAIN ts = 1 .. k
    BY <1>5
  <2>2. QED
    BY <1>4, <1>7, <2>1, Joining!FoldedRun
<1> DEFINE P == {j \in 0 .. k : IsList(v[j])}
<1>10. 0 .. k \subseteq P
  <2>1. 0 \in P
    BY <1>4, <1>9, NoneIsList
  <2>2. ASSUME NEW j \in 0 .. k - 1, j \in P PROVE j + 1 \in P
    <3>1. PICK a, b, x : a = v[j] /\ b = v[j + 1] /\ x = ts[j + 1]
      OBVIOUS
    <3>2. j + 1 \in 1 .. k /\ j + 1 \in 0 .. k
      BY <1>4
    <3>3. IsList(a) /\ IsList(x) /\ b = a \o x
      BY <1>6, <1>9, <2>2, <3>1, <3>2 DEF Following
    <3>4. IsList(b)
      BY <3>3, ConcatIs
    <3>5. QED
      BY <3>1, <3>2, <3>4
  <2> HIDE DEF P
  <2>3. QED
    BY <1>4, <2>1, <2>2, Routing!UpTo
<1>11. trades = v[k] /\ k \in 0 .. k
  BY <1>4, <1>7, <1>9
<1>12. IsList(trades)
  BY <1>10, <1>11
<1>13. /\ IsList(Framed(trades)) /\ Len(Framed(trades)) = Len(trades)
       /\ \A i \in 1 .. Len(trades) : Framed(trades)[i] = TapeFrame(trades[i])
  BY <1>12, FramedIs
<1>14. \A t : TapeFrame(t).ch[1] = "tape"
  <2> SUFFICES ASSUME NEW t PROVE TapeFrame(t).ch[1] = "tape"
    OBVIOUS
  <2>1. TapeFrame(t).ch = <<"tape", t.sym>>
    BY DEF TapeFrame
  <2>2. QED
    BY <2>1
<1>15. ASSUME NEW g, NEW sym, NEW low, NEW high, Telling(g, sym, low, high)
       PROVE  Frames(g, Framed(trades), sym, low, high)
  <2>0. low \in Nat /\ high \in Nat /\ low <= high /\ low <= low /\ high <= high
    BY <1>15 DEF Telling
  <2> DEFINE Q == {j \in 0 .. k : IF \E i \in 1 .. j : syms[i] = sym
                                  THEN Frames(g, Framed(v[j]), sym, low, high)
                                  ELSE \A i \in 1 .. Len(v[j]) : v[j][i].sym # sym}
  <2>1. 0 \in Q
    <3>1. 1 .. 0 = {} /\ 1 .. Len(v[0]) = {} /\ 0 \in 0 .. k
      BY <1>4, <1>9, NoneIsList
    <3>2. QED
      BY <3>1
  <2>2. ASSUME NEW j \in 0 .. k - 1, j \in Q PROVE j + 1 \in Q
    <3>1. PICK a, b, x, s : a = v[j] /\ b = v[j + 1] /\ x = ts[j + 1] /\ s = syms[j + 1]
      OBVIOUS
    <3>2. j + 1 \in 1 .. k /\ j + 1 \in 0 .. k /\ j \in 0 .. k /\ j \in Nat
      BY <1>4
    <3>3. IsList(a) /\ IsList(x) /\ b = a \o x /\ s \in S /\ x = market.tape[s]
      BY <1>4, <1>5, <1>6, <1>9, <1>10, <3>1, <3>2 DEF Following
    <3>4. Framed(b) = Framed(a) \o Framed(x)
      BY <3>3, FramedTwo
    <3>5. /\ IsList(Framed(a)) /\ Len(Framed(a)) = Len(a)
          /\ \A i \in 1 .. Len(a) : Framed(a)[i] = TapeFrame(a[i])
          /\ IsList(Framed(x)) /\ Len(Framed(x)) = Len(x)
          /\ \A i \in 1 .. Len(x) : Framed(x)[i] = TapeFrame(x[i])
      BY <3>3, FramedIs
    <3>6. \A t : t.sym # sym => ~IsTape(TapeFrame(t), sym)
      <4> SUFFICES ASSUME NEW t, t.sym # sym PROVE ~IsTape(TapeFrame(t), sym)
        OBVIOUS
      <4>1. TapeFrame(t).ch = <<"tape", t.sym>>
        BY DEF TapeFrame
      <4>2. QED
        BY <4>1 DEF IsTape
    <3>7. \A i \in 1 .. Len(x) : x[i].sym = s
      BY <1>1, <1>15, <3>3 DEF Telling, OnlyOf
    <3>8. CASE s = sym
      <4>1. ~\E i \in 1 .. j : syms[i] = sym
        <5> SUFFICES ASSUME NEW i \in 1 .. j, syms[i] = sym PROVE FALSE
          OBVIOUS
        <5>1. i \in 1 .. k /\ i # j + 1
          <6>1. k \in Nat /\ j \in Nat /\ j + 1 <= k
            BY <1>4, <3>2
          <6>2. QED
            BY <6>1
        <5>2. syms[j + 1] = syms[i]
          BY <3>1, <3>8
        <5>3. QED
          BY <1>4, <3>2, <5>1, <5>2
      <4>2. \A i \in 1 .. Len(a) : a[i].sym # sym
        BY <2>2, <3>1, <4>1
      <4>3. Frames(g, Framed(a), sym, low, low)
        BY <3>5, <3>6, <4>2, OtherFrames
      <4>4. Frames(g, Framed(x), sym, low, high)
        <5>1. Entry(market.tape, sym, <<>>) = x
          BY <1>1, <3>3, <3>8 DEF Entry
        <5>2. Prints(g, x, sym, low, high)
          BY <1>15, <5>1 DEF Telling, TapeOf
        <5>3. QED
          BY <5>2, FramedTape
      <4>5. Frames(g, Framed(b), sym, low, high)
        BY <2>0, <3>4, <4>3, <4>4, FramesConcat
      <4>6. \E i \in 1 .. j + 1 : syms[i] = sym
        <5>1. j + 1 \in 1 .. j + 1 /\ syms[j + 1] = sym
          BY <3>1, <3>2, <3>8
        <5>2. QED
          BY <5>1
      <4>7. QED
        BY <3>1, <3>2, <4>5, <4>6
    <3>9. CASE s # sym
      <4>1. (\E i \in 1 .. j + 1 : syms[i] = sym) <=> (\E i \in 1 .. j : syms[i] = sym)
        <5>1. \A i \in 1 .. j + 1 : i = j + 1 \/ i \in 1 .. j
          BY <3>2
        <5>2. \A i \in 1 .. j : i \in 1 .. j + 1
          BY <3>2
        <5>3. QED
          BY <3>1, <3>9, <5>1, <5>2
      <4>2. CASE \E i \in 1 .. j : syms[i] = sym
        <5>1. Frames(g, Framed(a), sym, low, high)
          BY <2>2, <3>1, <4>2
        <5>2. Frames(g, Framed(x), sym, high, high)
          BY <3>5, <3>6, <3>7, <3>9, OtherFrames
        <5>3. Frames(g, Framed(b), sym, low, high)
          BY <2>0, <3>4, <5>1, <5>2, FramesConcat
        <5>4. QED
          BY <3>1, <3>2, <4>1, <4>2, <5>3
      <4>3. CASE ~\E i \in 1 .. j : syms[i] = sym
        <5>1. \A i \in 1 .. Len(a) : a[i].sym # sym
          BY <2>2, <3>1, <4>3
        <5>2. \A i \in 1 .. Len(b) : b[i].sym # sym
          <6>1. PICK n \in Nat, m \in Nat : n = Len(a) /\ m = Len(x)
            BY <3>3, ListIs
          <6>2. Len(b) = n + m /\ \A i \in 1 .. n + m : b[i] = IF i <= n THEN a[i] ELSE x[i - n]
            BY <3>3, <6>1, ConcatIs
          <6>3. \A i \in 1 .. n + m : ~(i <= n) => i - n \in 1 .. m
            OBVIOUS
          <6>4. \A i \in 1 .. n + m : i <= n => i \in 1 .. n
            OBVIOUS
          <6>5. QED
            BY <3>7, <3>9, <5>1, <6>1, <6>2, <6>3, <6>4
        <5>3. QED
          BY <3>1, <3>2, <4>1, <4>3, <5>2
      <4>4. QED
        BY <4>2, <4>3
    <3>10. QED
      BY <3>8, <3>9
  <2>3. 0 .. k \subseteq Q
    <3> HIDE DEF Q
    <3>1. QED
      BY <1>4, <2>1, <2>2, Routing!UpTo
  <2>4. CASE \E i \in 1 .. k : syms[i] = sym
    BY <1>11, <2>3, <2>4
  <2>5. CASE ~\E i \in 1 .. k : syms[i] = sym
    <3>1. \A i \in 1 .. Len(trades) : trades[i].sym # sym
      BY <1>11, <2>3, <2>5
    <3>2. \A t : t.sym # sym => ~IsTape(TapeFrame(t), sym)
      <4> SUFFICES ASSUME NEW t, t.sym # sym PROVE ~IsTape(TapeFrame(t), sym)
        OBVIOUS
      <4>1. TapeFrame(t).ch = <<"tape", t.sym>>
        BY DEF TapeFrame
      <4>2. QED
        BY <4>1 DEF IsTape
    <3>3. QED
      BY <1>13, <3>1, <3>2, OtherFrames
  <2>6. QED
    BY <2>4, <2>5
<1>16. PICK frames : frames = TapeFrames
  OBVIOUS
<1>17. IsList(frames) /\ \A i \in 1 .. Len(frames) : frames[i].ch[1] = "tape"
  BY <1>8, <1>13, <1>14, <1>16
<1>18. QED
  BY <1>8, <1>15, <1>16, <1>17

LEMMA BarFramesAre ==
    ASSUME MarketOk(market)
    PROVE  IsList(BarFrames) /\ \A i \in 1 .. Len(BarFrames) : BarFrames[i].ch[1] = "bars"
<1>1. PICK s : s = market.closed
  OBVIOUS
<1>2. PICK k \in Nat : k = Len(s) /\ DOMAIN s = 1 .. k
  BY <1>1, ListIs DEF MarketOk
<1>3. PICK bars : bars = Charting!Folded(<<>>, s)
  OBVIOUS
<1>4. bars = FoldLeft(Charted, <<>>, s)
  BY <1>3 DEF FoldLeft, MapThenFoldSet, Charting!Folded, Charting!Folds, Charting!Max, Max
<1>5. PICK v : /\ v[0] = <<>> /\ v[k] = Charting!Folded(<<>>, s)
               /\ \A j \in 0 .. k - 1 : v[j + 1] = Charted(v[j], s[j + 1])
  BY <1>2, <1>3, Charting!FoldedRun
<1> DEFINE P == {j \in 0 .. k : IsList(v[j])}
<1>6. 0 .. k \subseteq P
  <2>1. 0 \in P
    BY <1>2, <1>5, NoneIsList
  <2>2. ASSUME NEW j \in 0 .. k - 1, j \in P PROVE j + 1 \in P
    <3>1. PICK a, b, x : a = v[j] /\ b = v[j + 1] /\ x = s[j + 1]
      OBVIOUS
    <3>2. j + 1 \in 0 .. k
      OBVIOUS
    <3>3. IsList(a) /\ (b = Append(a, x) \/ b = a)
      BY <1>5, <2>2, <3>1 DEF Charted
    <3>4. IsList(b)
      BY <3>3, AppendIs
    <3>5. QED
      BY <3>1, <3>2, <3>4
  <2> HIDE DEF P
  <2>3. QED
    BY <1>2, <2>1, <2>2, Charting!UpTo
<1>7. IsList(bars)
  <2>1. k \in 0 .. k
    OBVIOUS
  <2>2. QED
    BY <1>3, <1>5, <1>6, <2>1
<1>8. PICK n \in Nat : n = Len(bars) /\ DOMAIN bars = 1 .. n
  BY <1>7, ListIs
<1>9. PICK frames : frames = BarFrames
  OBVIOUS
<1>10. frames = [i \in 1 .. n |-> BarFrame(bars[i])]
  BY <1>1, <1>4, <1>8, <1>9 DEF BarFrames
<1>11. IsList(frames) /\ Len(frames) = n
  <2>1. DOMAIN frames = 1 .. n /\ frames = [i \in 1 .. n |-> frames[i]]
    BY <1>10
  <2>2. QED
    BY <2>1, MadeIsList
<1>12. \A i \in 1 .. n : frames[i].ch[1] = "bars"
  <2> SUFFICES ASSUME NEW i \in 1 .. n PROVE frames[i].ch[1] = "bars"
    OBVIOUS
  <2>1. frames[i].ch = <<"bars", bars[i].sym, bars[i].width>>
    BY <1>10 DEF BarFrame
  <2>2. QED
    BY <2>1
<1>13. QED
  BY <1>9, <1>11, <1>12

LEMMA BookFramesAre ==
    ASSUME MarketOk(market), NEW s
    PROVE  IsList(BookFrames(s)) /\ \A i \in 1 .. Len(BookFrames(s)) : BookFrames(s)[i].ch[1] = "book"
<1>1. PICK syms : syms = IF s.fresh THEN DOMAIN market.books ELSE market.dirty
  OBVIOUS
<1>2. PICK n : n = Cardinality(syms)
  OBVIOUS
<1>3. n \in Nat
  BY <1>1, <1>2, FS_CardinalityType DEF MarketOk
<1>4. PICK frames : frames = BookFrames(s)
  OBVIOUS
<1>5. frames = [i \in 1 .. n |-> BookFrame(SetToSeq(syms)[i])]
  BY <1>1, <1>2, <1>4 DEF BookFrames
<1>6. IsList(frames) /\ Len(frames) = n
  <2>1. DOMAIN frames = 1 .. n /\ frames = [i \in 1 .. n |-> frames[i]]
    BY <1>5
  <2>2. QED
    BY <1>3, <2>1, MadeIsList
<1>7. \A i \in 1 .. n : frames[i].ch[1] = "book"
  <2> SUFFICES ASSUME NEW i \in 1 .. n PROVE frames[i].ch[1] = "book"
    OBVIOUS
  <2>1. frames[i].ch = <<"book", SetToSeq(syms)[i]>>
    BY <1>5 DEF BookFrame
  <2>2. QED
    BY <2>1
<1>8. QED
  BY <1>4, <1>6, <1>7

LEMMA OneIs == ASSUME NEW x PROVE IsList(<<x>>) /\ Len(<<x>>) = 1 /\ <<x>>[1] = x
<1>1. <<x>> \in Seq({x}) /\ Len(<<x>>) = 1 /\ <<x>>[1] = x
  OBVIOUS
<1>2. QED
  BY <1>1 DEF IsList

LEMMA HaltFramesAre ==
    IsList(HaltFrames) /\ \A i \in 1 .. Len(HaltFrames) : HaltFrames[i].ch[1] = "error"
<1>1. CASE ~haltOwed
  BY <1>1, NoneIsList DEF HaltFrames
<1>2. CASE haltOwed
  <2>1. PICK f, code : f = ErrorFrame(code) /\ HaltFrames = <<f>>
    BY <1>2 DEF HaltFrames
  <2>2. f.ch = <<"error">>
    BY <2>1 DEF ErrorFrame
  <2>3. f.ch[1] = "error"
    BY <2>2
  <2>4. QED
    BY <2>1, <2>3, OneIs
<1>3. QED
  BY <1>1, <1>2

\* Frames of one kind after frames of another.
LEMMA KindsOfTwo ==
    ASSUME NEW K, NEW a, IsList(a), \A i \in 1 .. Len(a) : a[i].ch[1] \in K,
           NEW b, IsList(b), \A i \in 1 .. Len(b) : b[i].ch[1] \in K
    PROVE  IsList(a \o b) /\ \A i \in 1 .. Len(a \o b) : (a \o b)[i].ch[1] \in K
<1>1. PICK n \in Nat, m \in Nat : n = Len(a) /\ m = Len(b)
  BY ListIs
<1>2. /\ IsList(a \o b) /\ Len(a \o b) = n + m
      /\ \A i \in 1 .. n + m : (a \o b)[i] = IF i <= n THEN a[i] ELSE b[i - n]
  BY <1>1, ConcatIs
<1>3. \A i \in 1 .. n + m : (i <= n => i \in 1 .. n) /\ (~(i <= n) => i - n \in 1 .. m)
  OBVIOUS
<1>4. QED
  BY <1>1, <1>2, <1>3

Public == Kinds \ {"private"}

LEMMA FramesForAre ==
    ASSUME MarketOk(market), NEW s
    PROVE  /\ IsList(FramesFor(s)) /\ \A i \in 1 .. Len(FramesFor(s)) : FramesFor(s)[i].ch[1] \in Public
           /\ \A g, sym, low, high :
                 Telling(g, sym, low, high) => Frames(g, FramesFor(s), sym, low, high)
<1>1. PICK h, b, t, r : h = HaltFrames /\ b = BookFrames(s) /\ t = TapeFrames /\ r = BarFrames
  OBVIOUS
<1>2. /\ IsList(h) /\ (\A i \in 1 .. Len(h) : h[i].ch[1] = "error")
      /\ IsList(b) /\ (\A i \in 1 .. Len(b) : b[i].ch[1] = "book")
      /\ IsList(t) /\ (\A i \in 1 .. Len(t) : t[i].ch[1] = "tape")
      /\ IsList(r) /\ (\A i \in 1 .. Len(r) : r[i].ch[1] = "bars")
  BY <1>1, HaltFramesAre, BookFramesAre, TapeFramesAre, BarFramesAre
<1>3. /\ \A i \in 1 .. Len(h) : h[i].ch[1] \in Public
      /\ \A i \in 1 .. Len(b) : b[i].ch[1] \in Public
      /\ \A i \in 1 .. Len(t) : t[i].ch[1] \in Public
      /\ \A i \in 1 .. Len(r) : r[i].ch[1] \in Public
  BY <1>2 DEF Public, Kinds
<1>4. PICK bt : bt = b \o t
  OBVIOUS
<1>5. PICK m : m = bt \o r
  OBVIOUS
<1>6. IsList(bt) /\ \A i \in 1 .. Len(bt) : bt[i].ch[1] \in Public
  BY <1>2, <1>3, <1>4, KindsOfTwo
<1>7. IsList(m) /\ \A i \in 1 .. Len(m) : m[i].ch[1] \in Public
  BY <1>2, <1>3, <1>5, <1>6, KindsOfTwo
<1>8. PICK rest : rest = IF s.subscribed THEN m ELSE <<>>
  OBVIOUS
<1>9. FramesFor(s) = h \o rest
  BY <1>1, <1>4, <1>5, <1>8 DEF FramesFor
<1>10. IsList(rest) /\ \A i \in 1 .. Len(rest) : rest[i].ch[1] \in Public
  BY <1>7, <1>8, NoneIsList
<1>11. IsList(h \o rest) /\ \A i \in 1 .. Len(h \o rest) : (h \o rest)[i].ch[1] \in Public
  BY <1>2, <1>3, <1>10, KindsOfTwo
<1>12. ASSUME NEW g, NEW sym, NEW low, NEW high, Telling(g, sym, low, high)
       PROVE  Frames(g, h \o rest, sym, low, high)
  <2>1. low \in Nat /\ high \in Nat /\ low <= high /\ low <= low /\ high <= high
    BY <1>12 DEF Telling
  <2>2. Frames(g, h, sym, low, low) /\ Frames(g, b, sym, low, low) /\ Frames(g, r, sym, high, high)
    <3>1. /\ \A i \in 1 .. Len(h) : ~IsTape(h[i], sym)
          /\ \A i \in 1 .. Len(b) : ~IsTape(b[i], sym)
          /\ \A i \in 1 .. Len(r) : ~IsTape(r[i], sym)
      BY <1>2 DEF IsTape
    <3>2. QED
      BY <1>2, <3>1, OtherFrames
  <2>3. Frames(g, t, sym, low, high)
    BY <1>1, <1>12, TapeFramesAre
  <2>4. Frames(g, bt, sym, low, high)
    BY <1>4, <2>1, <2>2, <2>3, FramesConcat
  <2>5. Frames(g, m, sym, low, high)
    BY <1>5, <2>1, <2>2, <2>4, FramesConcat
  <2>6. Frames(g, rest, sym, low, high)
    <3>1. CASE s.subscribed
      BY <1>8, <2>5, <3>1
    <3>2. CASE ~s.subscribed
      <4>1. rest = <<>> /\ IsList(<<>>) /\ 1 .. Len(<<>>) = {}
        BY <1>8, <3>2, NoneIsList
      <4>2. QED
        BY <4>1, OtherFrames
    <3>3. QED
      BY <3>1, <3>2
  <2>7. QED
    BY <2>1, <2>2, <2>6, FramesConcat
<1>13. QED
  BY <1>9, <1>11, <1>12

-----------------------------------------------------------------------------
(***************************************************************************)
(* The stream, the fan-out's place in it and its market.                   *)
(***************************************************************************)
MarketInv ==
    /\ MarketOk(market)
    /\ Saved("fanout") => IsFiniteSet(DOMAIN marks["fanout"].state.books)

LEMMA SaveEffect ==
    ASSUME NEW at, NEW state, Save("fanout", at, state)
    PROVE  Saved("fanout")' /\ marks'["fanout"].pos = at /\ marks'["fanout"].state = state
<1>1. "fanout" \in DOMAIN marks \union {"fanout"}
  OBVIOUS
<1>2. DOMAIN marks' = DOMAIN marks \union {"fanout"} /\ marks'["fanout"] = [pos |-> at, state |-> state]
  BY <1>1 DEF Save
<1>3. QED
  BY <1>1, <1>2 DEF Saved

LEMMA DumpedBooks == ASSUME NEW m, MarketOk(m) PROVE IsFiniteSet(DOMAIN DumpMarket(m).books)
  BY DEF DumpMarket, MarketOk

LEMMA StreamInit == Init => StreamInv /\ MarketInv
<1> SUFFICES ASSUME Init PROVE StreamInv /\ MarketInv
  OBVIOUS
<1>1. /\ coming \in Histories /\ stream = <<>> /\ floor = 0 /\ marks = <<>>
      /\ market = NewMarket /\ fseq = 0
  BY DEF Init, OutboundInit, FanOutInit
<1>2. "fanout" \notin DOMAIN marks /\ Len(stream) = 0 /\ stream \in Seq(Appended)
  BY <1>1
<1>3. QED
  BY <1>1, <1>2, HistoriesAreBatches, NewMarketOk DEF StreamInv, MarketInv, Saved

LEMMA PublishGrows ==
    ASSUME StreamInv, Publish
    PROVE  /\ stream' \in Seq(Appended) /\ coming' \in Seq(Seq(Appended))
           /\ Len(stream) \in Nat /\ Len(stream') \in Nat /\ Len(stream) <= Len(stream')
           /\ \A i \in 1 .. Len(stream) : stream'[i] = stream[i]
<1> DEFINE Batches == Seq(Appended)
<1>1. coming # <<>> /\ stream' = stream \o Head(coming) /\ coming' = Tail(coming)
  BY DEF Publish
<1>2. stream \in Seq(Appended) /\ coming \in Seq(Batches)
  BY DEF StreamInv
<1>3. Head(coming) \in Batches /\ Tail(coming) \in Seq(Batches)
  <2> HIDE DEF Batches
  <2>1. QED
    BY <1>1, <1>2
<1>4. PICK h \in Seq(Appended) : h = Head(coming)
  BY <1>3
<1>5. /\ stream \o h \in Seq(Appended) /\ Len(stream \o h) = Len(stream) + Len(h)
      /\ Len(h) \in Nat /\ Len(stream) \in Nat /\ \A i \in 1 .. Len(stream) : (stream \o h)[i] = stream[i]
  BY <1>2
<1>6. QED
  BY <1>1, <1>3, <1>4, <1>5

LEMMA StreamSteps ==
    ASSUME StreamInv, MarketInv, [Next]_vars
    PROVE  StreamInv' /\ MarketInv'
<1>0. Len(stream) \in Nat /\ fseq \in 0 .. Len(stream)
  BY DEF StreamInv
<1>1. CASE Publish /\ UNCHANGED <<fanOutVars, webVars>>
  <2>1. UNCHANGED <<floor, marks, market, fseq>>
    BY <1>1 DEF Publish, fanOutVars, fanVars
  <2>2. QED
    BY <1>1, <2>1, PublishGrows DEF StreamInv, MarketInv, Saved
<1>2. CASE ResumeFanOut
  <2>1. UNCHANGED <<coming, stream, floor, marks>> /\ fseq' = StartOf("fanout")
        /\ market' = IF Saved("fanout") THEN LoadMarket(marks["fanout"].state) ELSE NewMarket
    BY <1>2 DEF ResumeFanOut, outboundVars, streamVars
  <2>2. fseq' \in 0 .. Len(stream)
    BY <1>0, <2>1 DEF StartOf, StreamInv
  <2>3. MarketOk(market')
    <3>1. CASE Saved("fanout")
      <4>1. market' = LoadMarket(marks["fanout"].state) /\ IsFiniteSet(DOMAIN marks["fanout"].state.books)
        BY <2>1, <3>1 DEF MarketInv
      <4>2. PICK s : s = marks["fanout"].state
        OBVIOUS
      <4>3. MarketOk(LoadMarket(s))
        BY <4>1, <4>2, LoadMarketOk
      <4>4. QED
        BY <4>1, <4>2, <4>3
    <3>2. CASE ~Saved("fanout")
      BY <2>1, <3>2, NewMarketOk
    <3>3. QED
      BY <3>1, <3>2
  <2>4. QED
    BY <2>1, <2>2, <2>3 DEF StreamInv, MarketInv, Saved
<1>3. ASSUME Batch(fseq) # <<>>, market' = FoldLeft(ObserveRecord, market, Records(Batch(fseq))),
             fseq' = Last(Batch(fseq))
      PROVE  MarketOk(market') /\ fseq' \in 0 .. Len(stream)
  <2>1. PICK k \in Nat \ {0} : /\ fseq + k <= Len(stream) /\ fseq' = fseq + k
                               /\ DOMAIN Records(Batch(fseq)) = 1 .. k
                               /\ \A i \in 1 .. k : /\ Records(Batch(fseq))[i].seq = fseq + i
                                                    /\ Records(Batch(fseq))[i].entry = stream[fseq + i]
    BY <1>0, <1>3, BatchShape
  <2>2. PICK s : s = Records(Batch(fseq))
    OBVIOUS
  <2>3. fseq \in Nat /\ k \in Nat
    BY <1>0
  <2>4. MarketOk(market')
    <3>1. PICK m, n : m = market /\ n = market'
      OBVIOUS
    <3>2. MarketOk(m) /\ n = FoldLeft(ObserveRecord, m, s)
      BY <1>3, <2>2, <3>1 DEF MarketInv
    <3>3. MarketOk(n)
      BY <1>0, <2>1, <2>2, <2>3, <3>2, BatchObserved
    <3>4. QED
      BY <3>1, <3>3
  <2>5. QED
    BY <1>0, <2>1, <2>3, <2>4
<1>4. CASE ReplayHistory
  <2>1. UNCHANGED <<coming, stream, floor, marks>>
    BY <1>4 DEF ReplayHistory, outboundVars, streamVars
  <2>2. MarketOk(market') /\ fseq' \in 0 .. Len(stream)
    <3>1. CASE Batch(fseq) = <<>>
      <4>1. UNCHANGED <<market, fseq>>
        BY <1>4, <3>1 DEF ReplayHistory
      <4>2. QED
        BY <1>0, <4>1 DEF MarketInv
    <3>2. CASE Batch(fseq) # <<>>
      BY <1>3, <1>4, <3>2 DEF ReplayHistory
    <3>3. QED
      BY <3>1, <3>2
  <2>3. QED
    BY <2>1, <2>2 DEF StreamInv, MarketInv, Saved
<1>5. CASE ServeFanOut
  <2>1. UNCHANGED <<coming, stream, floor, fseq>> /\ market' = TickDrains(market)
        /\ Save("fanout", fseq, DumpMarket(market))
    BY <1>5 DEF ServeFanOut, streamVars
  <2>2. PICK d : d = DumpMarket(market)
    OBVIOUS
  <2>3. Saved("fanout")' /\ marks'["fanout"].pos = fseq /\ marks'["fanout"].state = d
    BY <2>1, <2>2, SaveEffect
  <2>4. MarketOk(market') /\ IsFiniteSet(DOMAIN d.books)
    BY <2>1, <2>2, DrainedOk, DumpedBooks DEF MarketInv
  <2>5. QED
    BY <1>0, <2>1, <2>3, <2>4 DEF StreamInv, MarketInv
<1>6. CASE ReadAndRoute
  <2>1. UNCHANGED <<coming, stream, floor>>
        /\ (UNCHANGED marks \/ Save("fanout", fseq', DumpMarket(market')))
    BY <1>6 DEF ReadAndRoute, streamVars
  <2>2. MarketOk(market') /\ fseq' \in 0 .. Len(stream)
    BY <1>3, <1>6 DEF ReadAndRoute
  <2>3. CASE UNCHANGED marks
    BY <2>1, <2>2, <2>3 DEF StreamInv, MarketInv, Saved
  <2>4. CASE Save("fanout", fseq', DumpMarket(market'))
    <3>1. PICK at, d : at = fseq' /\ d = DumpMarket(market')
      OBVIOUS
    <3>2. Saved("fanout")' /\ marks'["fanout"].pos = at /\ marks'["fanout"].state = d
      BY <2>4, <3>1, SaveEffect
    <3>3. IsFiniteSet(DOMAIN d.books)
      BY <2>2, <3>1, DumpedBooks
    <3>4. QED
      BY <2>1, <2>2, <3>1, <3>2, <3>3 DEF StreamInv, MarketInv
  <2>5. QED
    BY <2>1, <2>3, <2>4
<1>7. CASE Tick
  <2>1. UNCHANGED <<coming, stream, floor, marks, fseq>> /\ market' = TickDrains(market)
    BY <1>7 DEF Tick, outboundVars, streamVars
  <2>2. MarketOk(market')
    BY <2>1, DrainedOk DEF MarketInv
  <2>3. QED
    BY <2>1, <2>2 DEF StreamInv, MarketInv, Saved
<1>8. CASE FanOutDies
  <2>1. UNCHANGED <<coming, stream, floor, marks>> /\ market' = NewMarket /\ fseq' = 0
    BY <1>8 DEF FanOutDies, streamVars
  <2>2. QED
    BY <1>0, <2>1, NewMarketOk DEF StreamInv, MarketInv, Saved
<1>9. ASSUME UNCHANGED <<coming, stream, floor, marks, market, fseq>>
      PROVE  StreamInv' /\ MarketInv'
  BY <1>9 DEF StreamInv, MarketInv, Saved
<1>10. CASE WatchHalt
  BY <1>9, <1>10 DEF WatchHalt, streamVars, fanVars
<1>11. ASSUME NEW c \in Clients, Join(c) \/ Subscribe(c) \/ TakeBatch(c) \/ SlowConsumer(c)
       PROVE  StreamInv' /\ MarketInv'
  BY <1>9, <1>11 DEF Join, Subscribe, TakeBatch, SlowConsumer, outboundVars, streamVars, fanVars
<1>12. ASSUME NEW c \in Clients, JoinRefused(c) \/ Cut(c)
       PROVE  StreamInv' /\ MarketInv'
  BY <1>9, <1>12 DEF JoinRefused, Cut, streamVars, fanVars
<1>13. ASSUME NEW c \in Clients, Open(c) \/ Receive(c) \/ CloseSeen(c) \/ Fetch(c) \/ Dispatch(c)
                                 \/ FetchFails(c)
       PROVE  StreamInv' /\ MarketInv'
  BY <1>9, <1>13 DEF Open, Receive, CloseSeen, Fetch, Dispatch, FetchFails, outboundVars, streamVars,
                     fanOutVars, fanVars
<1>14. CASE UNCHANGED vars
  BY <1>9, <1>14 DEF vars, outboundVars, streamVars, fanOutVars, fanVars
<1>15. QED
  BY <1>1, <1>2, <1>4, <1>5, <1>6, <1>7, <1>8, <1>10, <1>11, <1>12, <1>13, <1>14
  DEF Next, FanOutNext, FanOutStep, WebNext, WebStep

-----------------------------------------------------------------------------
(***************************************************************************)
(* Prints on their way to a browser: what it shows, what is on the wire,   *)
(* what is queued and what awaits the tick lie one behind the other, up to *)
(* the position n.                                                         *)
(***************************************************************************)
Chain(g, shown, w, queued, pending, sym, n) ==
    \E a, b, d \in Nat : /\ a <= b /\ b <= d /\ d <= n
                         /\ TapeOf(g, shown, sym, 0, a) /\ Frames(g, w, sym, a, b)
                         /\ Frames(g, queued, sym, b, d) /\ TapeOf(g, pending, sym, d, n)

LEMMA NoFrames == ASSUME NEW g, NEW sym, NEW low, NEW high PROVE Frames(g, <<>>, sym, low, high)
<1>1. IsList(<<>>) /\ 1 .. Len(<<>>) = {}
  BY NoneIsList
<1>2. QED
  BY <1>1, OtherFrames

\* The writer takes what is queued.
LEMMA ChainTaken ==
    ASSUME NEW g, NEW shown, NEW w, NEW queued, NEW pending, NEW sym, NEW n,
           Chain(g, shown, w, queued, pending, sym, n),
           NEW private, IsList(private), \A i \in 1 .. Len(private) : private[i].ch[1] = "private"
    PROVE  Chain(g, shown, (w \o private) \o queued, <<>>, pending, sym, n)
<1>1. PICK a \in Nat, b \in Nat, d \in Nat :
          /\ a <= b /\ b <= d /\ d <= n
          /\ TapeOf(g, shown, sym, 0, a) /\ Frames(g, w, sym, a, b)
          /\ Frames(g, queued, sym, b, d) /\ TapeOf(g, pending, sym, d, n)
  BY DEF Chain
<1>2. Frames(g, private, sym, b, b)
  <2>1. \A i \in 1 .. Len(private) : ~IsTape(private[i], sym)
    BY DEF IsTape
  <2>2. QED
    BY <2>1, OtherFrames
<1>3. b <= b /\ d <= d /\ a <= d
  BY <1>1
<1>4. Frames(g, w \o private, sym, a, b)
  BY <1>1, <1>2, <1>3, FramesConcat
<1>5. Frames(g, (w \o private) \o queued, sym, a, d)
  BY <1>1, <1>3, <1>4, FramesConcat
<1>6. Frames(g, <<>>, sym, d, d)
  BY NoFrames
<1>7. QED
  BY <1>1, <1>3, <1>5, <1>6 DEF Chain

\* The connection is gone, and of the wire there is less.
LEMMA ChainCut ==
    ASSUME NEW g, NEW shown, NEW w, NEW queued, NEW pending, NEW sym, NEW n,
           Chain(g, shown, w, queued, pending, sym, n),
           NEW left, \A a, b \in Nat : a <= b /\ Frames(g, w, sym, a, b) => Frames(g, left, sym, a, b)
    PROVE  Chain(g, shown, left, <<>>, pending, sym, n)
<1>1. PICK a \in Nat, b \in Nat, d \in Nat :
          /\ a <= b /\ b <= d /\ d <= n
          /\ TapeOf(g, shown, sym, 0, a) /\ Frames(g, w, sym, a, b)
          /\ Frames(g, queued, sym, b, d) /\ TapeOf(g, pending, sym, d, n)
  BY DEF Chain
<1>2. Frames(g, <<>>, sym, b, d) /\ Frames(g, left, sym, a, b)
  BY <1>1, NoFrames
<1>3. QED
  BY <1>1, <1>2 DEF Chain

\* The tick, with frames for the connection or without.
LEMMA ChainTold ==
    ASSUME NEW g, NEW shown, NEW w, NEW queued, NEW pending, NEW sym, NEW n \in Nat,
           Chain(g, shown, w, queued, pending, sym, n),
           NEW frames, \A d \in Nat : d <= n /\ TapeOf(g, pending, sym, d, n) =>
                                      Frames(g, frames, sym, d, n)
    PROVE  /\ Chain(g, shown, w, queued \o frames, <<>>, sym, n)
           /\ Chain(g, shown, w, queued, <<>>, sym, n)
<1>1. PICK a \in Nat, b \in Nat, d \in Nat :
          /\ a <= b /\ b <= d /\ d <= n
          /\ TapeOf(g, shown, sym, 0, a) /\ Frames(g, w, sym, a, b)
          /\ Frames(g, queued, sym, b, d) /\ TapeOf(g, pending, sym, d, n)
  BY DEF Chain
<1>2. Frames(g, frames, sym, d, n)
  BY <1>1
<1>3. Frames(g, queued \o frames, sym, b, n) /\ b <= n /\ n <= n
  BY <1>1, <1>2, FramesConcat
<1>4. TapeOf(g, <<>>, sym, n, n) /\ TapeOf(g, <<>>, sym, d, n)
  BY NoTape
<1>5. QED
  BY <1>1, <1>3, <1>4 DEF Chain

LEMMA ChainDrained ==
    ASSUME NEW g, NEW shown, NEW w, NEW queued, NEW pending, NEW sym, NEW n,
           Chain(g, shown, w, queued, pending, sym, n)
    PROVE  Chain(g, shown, w, queued, <<>>, sym, n)
<1>1. PICK a \in Nat, b \in Nat, d \in Nat :
          /\ a <= b /\ b <= d /\ d <= n
          /\ TapeOf(g, shown, sym, 0, a) /\ Frames(g, w, sym, a, b)
          /\ Frames(g, queued, sym, b, d) /\ TapeOf(g, pending, sym, d, n)
  BY DEF Chain
<1>2. TapeOf(g, <<>>, sym, d, n)
  BY NoTape
<1>3. QED
  BY <1>1, <1>2 DEF Chain

\* The stream grows, or more of it counts.
LEMMA ChainWiden ==
    ASSUME NEW g, NEW shown, NEW w, NEW queued, NEW pending, NEW sym, NEW n \in Nat,
           Chain(g, shown, w, queued, pending, sym, n),
           NEW more, Len(g) \in Nat, Len(more) \in Nat, Len(g) <= Len(more),
           \A i \in 1 .. Len(g) : more[i] = g[i], NEW top \in Nat, n <= top
    PROVE  Chain(more, shown, w, queued, pending, sym, top)
<1>1. PICK a \in Nat, b \in Nat, d \in Nat :
          /\ a <= b /\ b <= d /\ d <= n
          /\ TapeOf(g, shown, sym, 0, a) /\ Frames(g, w, sym, a, b)
          /\ Frames(g, queued, sym, b, d) /\ TapeOf(g, pending, sym, d, n)
  BY DEF Chain
<1>2. 0 \in Nat /\ 0 <= 0 /\ a <= a /\ b <= b /\ d <= d /\ d <= top
  BY <1>1
<1>3. TapeOf(more, shown, sym, 0, a)
  <2>1. Prints(g, shown, sym, 0, a) /\ OnlyOf(shown, sym)
    BY <1>1 DEF TapeOf
  <2>2. Prints(more, shown, sym, 0, a)
    BY <1>2, <2>1, PrintsWiden
  <2>3. QED
    BY <2>1, <2>2 DEF TapeOf
<1>4. TapeOf(more, pending, sym, d, top)
  <2>1. Prints(g, pending, sym, d, n) /\ OnlyOf(pending, sym)
    BY <1>1 DEF TapeOf
  <2>2. Prints(more, pending, sym, d, top)
    BY <1>2, <2>1, PrintsWiden
  <2>3. QED
    BY <2>1, <2>2 DEF TapeOf
<1>5. Frames(more, w, sym, a, b)
  BY <1>1, <1>2, FramesWiden
<1>6. Frames(more, queued, sym, b, d)
  BY <1>1, <1>2, FramesWiden
<1>7. QED
  BY <1>1, <1>2, <1>3, <1>4, <1>5, <1>6 DEF Chain

\* The fan-out reads on.
LEMMA ChainNext ==
    ASSUME NEW g, NEW shown, NEW w, NEW queued, NEW pending, NEW sym, NEW n \in Nat,
           Chain(g, shown, w, queued, pending, sym, n), NEW top \in Nat, n <= top,
           NEW later, \A low \in 0 .. n : TapeOf(g, pending, sym, low, n) => TapeOf(g, later, sym, low, top)
    PROVE  Chain(g, shown, w, queued, later, sym, top)
<1>1. PICK a \in Nat, b \in Nat, d \in Nat :
          /\ a <= b /\ b <= d /\ d <= n
          /\ TapeOf(g, shown, sym, 0, a) /\ Frames(g, w, sym, a, b)
          /\ Frames(g, queued, sym, b, d) /\ TapeOf(g, pending, sym, d, n)
  BY DEF Chain
<1>2. d \in 0 .. n /\ d <= top
  BY <1>1
<1>3. TapeOf(g, later, sym, d, top)
  BY <1>1, <1>2
<1>4. QED
  BY <1>1, <1>2, <1>3 DEF Chain

\* The browser reads a frame, and shows its print or takes it for a duplicate.
LEMMA ChainRead ==
    ASSUME NEW g, NEW shown, NEW w, w # <<>>, NEW queued, NEW pending, NEW sym, NEW n,
           Chain(g, shown, w, queued, pending, sym, n), NEW f, f = Head(w)
    PROVE  /\ Chain(g, shown, Tail(w), queued, pending, sym, n)
           /\ IsTape(f, sym) => Chain(g, Append(shown, f.trade), Tail(w), queued, pending, sym, n)
<1>1. PICK a \in Nat, b \in Nat, d \in Nat :
          /\ a <= b /\ b <= d /\ d <= n
          /\ TapeOf(g, shown, sym, 0, a) /\ Frames(g, w, sym, a, b)
          /\ Frames(g, queued, sym, b, d) /\ TapeOf(g, pending, sym, d, n)
  BY DEF Chain
<1>2. PICK rest : rest = Tail(w)
  OBVIOUS
<1>3. IF IsTape(f, sym)
      THEN /\ IsPrintIn(g, f.trade, sym) /\ a < f.trade.seq /\ f.trade.seq <= b
           /\ Frames(g, rest, sym, f.trade.seq, b)
      ELSE Frames(g, rest, sym, a, b)
  BY <1>1, <1>2, FramesTail
<1>4. CASE IsTape(f, sym)
  <2>1. PICK t : t = f.trade
    OBVIOUS
  <2>2. PICK q : q = t.seq
    OBVIOUS
  <2>3. /\ IsPrintIn(g, t, sym) /\ q \in Nat /\ a < q /\ q <= b
        /\ Frames(g, rest, sym, q, b)
    BY <1>3, <1>4, <2>1, <2>2 DEF IsPrintIn
  <2>4. TapeOf(g, Append(shown, t), sym, 0, q)
    <3>1. 0 \in Nat /\ 0 <= a /\ a < t.seq /\ t.seq <= q
      BY <2>2, <2>3
    <3>2. QED
      BY <1>1, <2>3, <3>1, TapeAppend
  <2>5. TapeOf(g, shown, sym, 0, q)
    <3>1. /\ \A i \in 1 .. Len(shown) : IsPrintIn(g, shown[i], sym) /\ shown[i].seq \in Nat
                                        /\ 0 < shown[i].seq /\ shown[i].seq <= a
          /\ IsList(shown)
          /\ \A i, j \in 1 .. Len(shown) : i < j => shown[i].seq < shown[j].seq
          /\ OnlyOf(shown, sym)
      BY <1>1 DEF TapeOf, Prints, OnlyOf, IsPrintIn
    <3>2. \A i \in 1 .. Len(shown) : shown[i].seq <= q
      BY <2>3, <3>1
    <3>3. QED
      BY <3>1, <3>2 DEF TapeOf, Prints
  <2>6. QED
    BY <1>1, <1>2, <2>1, <2>3, <2>4, <2>5 DEF Chain
<1>5. CASE ~IsTape(f, sym)
  BY <1>1, <1>2, <1>3, <1>5 DEF Chain
<1>6. QED
  BY <1>4, <1>5

Shown(c, sym) == Entry(client[c].tapes, sym, <<>>)
Queued(c) == IF c \in DOMAIN conn THEN conn[c].market ELSE <<>>

\* What awaits the tick.  While it replays, nobody will be told of it.
Pending(sym) == IF fpc = "serving" THEN Entry(market.tape, sym, <<>>) ELSE <<>>

\* Nobody has been told of more than this.
Horizon == IF fpc \in {"booting", "serving"} THEN fseq ELSE Len(stream)

TapeInv ==
    \A c \in Clients : \A sym :
        Chain(stream, Shown(c, sym), wire[c], Queued(c), Pending(sym), sym, Horizon)

-----------------------------------------------------------------------------
(***************************************************************************)
(* What one browser or its connection does.                                *)
(***************************************************************************)
OneMoves(c) ==
    /\ UNCHANGED <<stream, market, fseq, fpc, userSeq>>
    /\ DOMAIN wire' = Clients /\ DOMAIN client' = Clients /\ DOMAIN conn' \subseteq Clients
    /\ fpc # "serving" => DOMAIN conn' = {}
    /\ \A d \in Clients : d # c => /\ wire'[d] = wire[d] /\ client'[d] = client[d]
                                   /\ d \in DOMAIN conn' <=> d \in DOMAIN conn
                                   /\ d \in DOMAIN conn => conn'[d] = conn[d]

LEMMA OneKeeps ==
    ASSUME FeedInv, TapeInv, NEW c \in Clients, OneMoves(c),
           DOMAIN client'[c] = ClientFields,
           NEW w, w = wire'[c], IsList(w), \A i \in 1 .. Len(w) : w[i].ch[1] \in Kinds,
           c \in DOMAIN conn' => ConnOk(conn'[c], w, client'[c].lastPrivate, userSeq[UserOf[c]]),
           NEW queued, queued = IF c \in DOMAIN conn' THEN conn'[c].market ELSE <<>>,
           NEW tapes, tapes = client'[c].tapes,
           \A sym : Chain(stream, Entry(tapes, sym, <<>>), w, queued, Pending(sym), sym, Horizon)
    PROVE  FeedInv' /\ TapeInv'
<1>1. UNCHANGED <<stream, market, fseq, fpc, userSeq>>
      /\ DOMAIN wire' = Clients /\ DOMAIN client' = Clients /\ DOMAIN conn' \subseteq Clients
      /\ (fpc # "serving" => DOMAIN conn' = {})
  BY DEF OneMoves
<1>2. ASSUME NEW d \in Clients, d # c
      PROVE  /\ wire'[d] = wire[d] /\ client'[d] = client[d]
             /\ d \in DOMAIN conn' <=> d \in DOMAIN conn
             /\ d \in DOMAIN conn => conn'[d] = conn[d]
  BY <1>2 DEF OneMoves
<1>3. ASSUME NEW d \in Clients
      PROVE  /\ DOMAIN client'[d] = ClientFields
             /\ IsList(wire'[d])
             /\ \A i \in 1 .. Len(wire'[d]) : wire'[d][i].ch[1] \in Kinds
             /\ d \in DOMAIN conn' =>
                   ConnOk(conn'[d], wire'[d], client'[d].lastPrivate, userSeq[UserOf[d]])
  <2>1. CASE d = c
    BY <2>1
  <2>2. CASE d # c
    BY <1>2, <2>2 DEF FeedInv
  <2>3. QED
    BY <2>1, <2>2
<1>4. FeedInv'
  BY <1>1, <1>3 DEF FeedInv
<1>5. ASSUME NEW d \in Clients, NEW sym
      PROVE  Chain(stream, Entry(client'[d].tapes, sym, <<>>), wire'[d],
                   IF d \in DOMAIN conn' THEN conn'[d].market ELSE <<>>, Pending(sym), sym, Horizon)
  <2>1. CASE d = c
    BY <2>1
  <2>2. CASE d # c
    <3>1. Chain(stream, Shown(d, sym), wire[d], Queued(d), Pending(sym), sym, Horizon)
      BY DEF TapeInv
    <3>2. Shown(d, sym) = Entry(client'[d].tapes, sym, <<>>) /\ wire'[d] = wire[d]
          /\ Queued(d) = IF d \in DOMAIN conn' THEN conn'[d].market ELSE <<>>
      BY <1>2, <2>2 DEF Shown, Queued
    <3>3. QED
      BY <3>1, <3>2
  <2>3. QED
    BY <2>1, <2>2
<1>6. (\A sym : Pending(sym)' = Pending(sym)) /\ Horizon' = Horizon
  BY <1>1 DEF Pending, Horizon
<1>7. TapeInv'
  <2> SUFFICES ASSUME NEW d \in Clients, NEW sym
               PROVE  Chain(stream, Shown(d, sym), wire[d], Queued(d), Pending(sym), sym, Horizon)'
    BY DEF TapeInv
  <2>1. Shown(d, sym)' = Entry(client'[d].tapes, sym, <<>>)
        /\ Queued(d)' = IF d \in DOMAIN conn' THEN conn'[d].market ELSE <<>>
    BY DEF Shown, Queued
  <2>2. QED
    BY <1>1, <1>5, <1>6, <2>1 DEF Chain
<1>8. QED
  BY <1>4, <1>7

LEMMA WithoutIs ==
    ASSUME NEW f, NEW x
    PROVE  /\ DOMAIN Without(f, {x}) = DOMAIN f \ {x}
           /\ \A y \in DOMAIN f : y # x => Without(f, {x})[y] = f[y]
  BY DEF Without, Restrict

LEMMA JoinKeeps ==
    ASSUME FeedInv, TapeInv, NEW c \in Clients, Join(c), UNCHANGED webVars
    PROVE  FeedInv' /\ TapeInv'
<1>1. PICK s, w, last, newest : /\ s = conn[c] /\ w = wire[c] /\ last = client[c].lastPrivate
                                /\ newest = userSeq[UserOf[c]]
  OBVIOUS
<1>2. /\ c \in DOMAIN conn /\ ~s.joined /\ conn' = [conn EXCEPT ![c].joined = TRUE]
      /\ UNCHANGED <<stream, market, fseq, fpc, userSeq, wire, client>>
  BY <1>1 DEF Join, outboundVars, streamVars, fanVars, webVars
<1>3. ConnOk(s, w, last, newest) /\ newest \in Nat
  BY <1>1, <1>2 DEF FeedInv, Users
<1>4. w = <<>> /\ last = 0 /\ s.private = <<>> /\ s.market = <<>> /\ DOMAIN s = ConnFields
  BY <1>2, <1>3 DEF ConnOk
<1>5. PICK t : t = conn'[c]
  OBVIOUS
<1>6. DOMAIN t = ConnFields /\ t.private = <<>> /\ t.market = <<>>
  BY <1>1, <1>2, <1>4, <1>5 DEF ConnFields
<1>7. Run(w \o t.private, last, newest)
  BY <1>3, <1>4, <1>6, NothingRuns, NoneIsList, ConcatNone
<1>8. ConnOk(t, w, last, newest)
  BY <1>3, <1>4, <1>6, <1>7 DEF ConnOk
<1>9. OneMoves(c)
  BY <1>2 DEF OneMoves, FeedInv
<1>10. \A sym : Chain(stream, Entry(client[c].tapes, sym, <<>>), w, <<>>, Pending(sym), sym, Horizon)
  BY <1>1, <1>2, <1>4 DEF TapeInv, Shown, Queued
<1>11. /\ DOMAIN client'[c] = ClientFields /\ w = wire'[c] /\ IsList(w)
       /\ \A i \in 1 .. Len(w) : w[i].ch[1] \in Kinds
       /\ client'[c].lastPrivate = last /\ client'[c].tapes = client[c].tapes
       /\ c \in DOMAIN conn'
  BY <1>1, <1>2 DEF FeedInv
<1>12. PICK queued : queued = IF c \in DOMAIN conn' THEN conn'[c].market ELSE <<>>
  OBVIOUS
<1>13. queued = <<>>
  BY <1>5, <1>6, <1>11, <1>12
<1>14. QED
  BY <1>1, <1>5, <1>8, <1>9, <1>10, <1>11, <1>12, <1>13, OneKeeps

LEMMA SubscribeKeeps ==
    ASSUME FeedInv, TapeInv, NEW c \in Clients, Subscribe(c), UNCHANGED webVars
    PROVE  FeedInv' /\ TapeInv'
<1>1. PICK s, w, last, newest : /\ s = conn[c] /\ w = wire[c] /\ last = client[c].lastPrivate
                                /\ newest = userSeq[UserOf[c]]
  OBVIOUS
<1>2. /\ c \in DOMAIN conn /\ conn' = [conn EXCEPT ![c].subscribed = TRUE, ![c].fresh = TRUE]
      /\ UNCHANGED <<stream, market, fseq, fpc, userSeq, wire, client>>
  BY <1>1 DEF Subscribe, Joined, outboundVars, streamVars, fanVars, webVars
<1>3. ConnOk(s, w, last, newest) /\ DOMAIN s = ConnFields
  BY <1>1, <1>2 DEF FeedInv, ConnOk
<1>5. PICK t : t = conn'[c]
  OBVIOUS
<1>6. /\ DOMAIN t = ConnFields /\ t.private = s.private /\ t.market = s.market
      /\ t.joined = s.joined /\ t.overflowed = s.overflowed
  BY <1>1, <1>2, <1>3, <1>5 DEF ConnFields
<1>8. ConnOk(t, w, last, newest)
  BY <1>3, <1>6, ConnLike
<1>9. OneMoves(c)
  BY <1>2 DEF OneMoves, FeedInv
<1>11. /\ DOMAIN client'[c] = ClientFields /\ w = wire'[c] /\ IsList(w)
       /\ \A i \in 1 .. Len(w) : w[i].ch[1] \in Kinds
       /\ client'[c].lastPrivate = last /\ client'[c].tapes = client[c].tapes
       /\ c \in DOMAIN conn'
  BY <1>1, <1>2 DEF FeedInv
<1>12. PICK queued : queued = IF c \in DOMAIN conn' THEN conn'[c].market ELSE <<>>
  OBVIOUS
<1>13. queued = Queued(c)
  BY <1>1, <1>2, <1>5, <1>6, <1>11, <1>12 DEF Queued
<1>10. \A sym : Chain(stream, Entry(client[c].tapes, sym, <<>>), w, queued, Pending(sym), sym, Horizon)
  BY <1>1, <1>13 DEF TapeInv, Shown
<1>14. QED
  BY <1>1, <1>5, <1>8, <1>9, <1>10, <1>11, <1>12, OneKeeps

LEMMA TakeKeeps ==
    ASSUME FeedInv, TapeInv, NEW c \in Clients, TakeBatch(c), UNCHANGED webVars
    PROVE  FeedInv' /\ TapeInv'
<1>1. PICK s, w, last, newest : /\ s = conn[c] /\ w = wire[c] /\ last = client[c].lastPrivate
                                /\ newest = userSeq[UserOf[c]]
  OBVIOUS
<1>2. PICK p, m : p = s.private /\ m = s.market
  OBVIOUS
<1>3. PICK v : v = (w \o p) \o m
  OBVIOUS
<1>4. /\ c \in DOMAIN conn /\ s.joined /\ wire' = [wire EXCEPT ![c] = v]
      /\ UNCHANGED <<stream, market, fseq, fpc, userSeq, client>>
  BY <1>1, <1>2, <1>3 DEF TakeBatch, Joined, outboundVars, streamVars, fanVars, webVars
<1>5. PICK busy : conn' = [conn EXCEPT ![c].wake = FALSE, ![c].private = <<>>, ![c].market = <<>>,
                                       ![c].busy = busy]
  BY DEF TakeBatch
<1>6. ConnOk(s, w, last, newest) /\ IsList(w) /\ (\A i \in 1 .. Len(w) : w[i].ch[1] \in Kinds)
      /\ c \in DOMAIN wire
  BY <1>1, <1>4 DEF FeedInv
<1>7. /\ IsList(p) /\ (\A i \in 1 .. Len(p) : p[i].ch[1] = "private")
      /\ IsList(m) /\ (\A i \in 1 .. Len(m) : m[i].ch[1] \in Public) /\ DOMAIN s = ConnFields
  BY <1>2, <1>6 DEF ConnOk, Public
<1>8. PICK t : t = conn'[c]
  OBVIOUS
<1>9. /\ DOMAIN t = ConnFields /\ t.private = <<>> /\ t.market = <<>>
      /\ t.joined = s.joined /\ t.overflowed = s.overflowed
  <2>1. t = [s EXCEPT !.wake = FALSE, !.private = <<>>, !.market = <<>>, !.busy = busy]
    BY <1>1, <1>4, <1>5, <1>8
  <2>2. QED
    BY <1>7, <2>1 DEF ConnFields
<1>10. IsList(w \o p) /\ IsList(v) /\ \A i \in 1 .. Len(v) : v[i].ch[1] \in Kinds
  <2>1. /\ \A i \in 1 .. Len(p) : p[i].ch[1] \in Kinds
        /\ \A i \in 1 .. Len(m) : m[i].ch[1] \in Kinds
    BY <1>7 DEF Kinds, Public
  <2>2. PICK wp : wp = w \o p
    OBVIOUS
  <2>3. IsList(wp) /\ \A i \in 1 .. Len(wp) : wp[i].ch[1] \in Kinds
    BY <1>6, <1>7, <2>1, <2>2, KindsOfTwo
  <2>4. IsList(wp \o m) /\ \A i \in 1 .. Len(wp \o m) : (wp \o m)[i].ch[1] \in Kinds
    BY <1>7, <2>1, <2>3, KindsOfTwo
  <2>5. QED
    BY <1>3, <2>2, <2>3, <2>4
<1>11. ASSUME ~t.overflowed PROVE Run(v \o t.private, last, newest)
  <2>1. Run(w \o p, last, newest)
    BY <1>2, <1>4, <1>6, <1>9, <1>11 DEF ConnOk
  <2>2. \A i \in 1 .. Len(m) : ~IsPrivate(m[i])
    BY <1>7 DEF IsPrivate, Public
  <2>3. Run(v, last, newest)
    BY <1>3, <1>7, <1>10, <2>1, <2>2, RunMore
  <2>4. QED
    BY <1>9, <1>10, <2>3, ConcatNone
<1>12. ConnOk(t, v, last, newest)
  <2>1. PrivateMax \in Nat /\ IsList(<<>>) /\ Len(<<>>) = 0
    BY LimitsPos, NoneIsList
  <2>2. QED
    BY <1>4, <1>9, <1>11, <2>1 DEF ConnOk
<1>13. OneMoves(c)
  BY <1>4, <1>5 DEF OneMoves, FeedInv
<1>14. /\ DOMAIN client'[c] = ClientFields /\ v = wire'[c]
       /\ client'[c].lastPrivate = last /\ client'[c].tapes = client[c].tapes
       /\ c \in DOMAIN conn'
  BY <1>1, <1>4, <1>5, <1>6 DEF FeedInv
<1>15. PICK queued : queued = IF c \in DOMAIN conn' THEN conn'[c].market ELSE <<>>
  OBVIOUS
<1>16. queued = <<>>
  BY <1>8, <1>9, <1>14, <1>15
<1>17. ASSUME NEW sym
       PROVE  Chain(stream, Entry(client[c].tapes, sym, <<>>), v, queued, Pending(sym), sym, Horizon)
  <2>1. PICK g, shown, pending, n : g = stream /\ shown = Entry(client[c].tapes, sym, <<>>)
                                    /\ pending = Pending(sym) /\ n = Horizon
    OBVIOUS
  <2>2. Chain(g, shown, w, m, pending, sym, n)
    BY <1>1, <1>2, <1>4, <2>1 DEF TapeInv, Shown, Queued
  <2>3. Chain(g, shown, (w \o p) \o m, <<>>, pending, sym, n)
    BY <1>7, <2>2, ChainTaken
  <2>4. QED
    BY <1>3, <1>16, <2>1, <2>3
<1>18. QED
  BY <1>1, <1>8, <1>10, <1>12, <1>13, <1>14, <1>15, <1>17, OneKeeps

LEMMA ErrorFrameIs ==
    ASSUME NEW code
    PROVE  IsList(<<ErrorFrame(code)>>) /\ Len(<<ErrorFrame(code)>>) = 1
           /\ \A i \in 1 .. 1 : <<ErrorFrame(code)>>[i].ch[1] = "error"
<1>1. PICK f : f = ErrorFrame(code)
  OBVIOUS
<1>2. f.ch = <<"error">>
  BY <1>1 DEF ErrorFrame
<1>3. f.ch[1] = "error"
  BY <1>2
<1>4. IsList(<<f>>) /\ Len(<<f>>) = 1 /\ <<f>>[1] = f
  BY OneIs
<1>5. QED
  BY <1>1, <1>3, <1>4

\* The wire and behind it a notice.
LEMMA NoticeBehind ==
    ASSUME NEW w, IsList(w), \A i \in 1 .. Len(w) : w[i].ch[1] \in Kinds, NEW code
    PROVE  LET v == w \o <<ErrorFrame(code)>>
           IN  /\ IsList(v) /\ \A i \in 1 .. Len(v) : v[i].ch[1] \in Kinds
               /\ \A g, sym : \A a, b \in Nat :
                     a <= b /\ Frames(g, w, sym, a, b) => Frames(g, v, sym, a, b)
<1>1. PICK e : e = <<ErrorFrame(code)>>
  OBVIOUS
<1>2. IsList(e) /\ \A i \in 1 .. Len(e) : e[i].ch[1] = "error"
  BY <1>1, ErrorFrameIs
<1>3. \A i \in 1 .. Len(e) : e[i].ch[1] \in Kinds
  BY <1>2 DEF Kinds
<1>4. IsList(w \o e) /\ \A i \in 1 .. Len(w \o e) : (w \o e)[i].ch[1] \in Kinds
  BY <1>2, <1>3, KindsOfTwo
<1>5. ASSUME NEW g, NEW sym, NEW a \in Nat, NEW b \in Nat, a <= b, Frames(g, w, sym, a, b)
      PROVE  Frames(g, w \o e, sym, a, b)
  <2>1. \A i \in 1 .. Len(e) : ~IsTape(e[i], sym)
    BY <1>2 DEF IsTape
  <2>2. Frames(g, e, sym, b, b) /\ b <= b
    BY <1>2, <2>1, OtherFrames
  <2>3. QED
    BY <1>5, <2>2, FramesConcat
<1>6. QED
  BY <1>1, <1>4, <1>5

\* What the browser may still read of a wire.
LEMMA PrefixIs ==
    ASSUME NEW w, IsList(w), \A i \in 1 .. Len(w) : w[i].ch[1] \in Kinds
    PROVE  LET v == SubSeq(w, 1, Min({Len(w), WireMax}))
           IN  /\ IsList(v) /\ \A i \in 1 .. Len(v) : v[i].ch[1] \in Kinds
               /\ \A g, sym, a, b : Frames(g, w, sym, a, b) => Frames(g, v, sym, a, b)
<1>1. PICK n \in Nat : n = Len(w)
  BY ListIs
<1>2. PICK k : k = Min({Len(w), WireMax})
  OBVIOUS
<1>3. k \in 0 .. n
  <2>1. n \in Int /\ WireMax \in Int /\ WireMax >= 1
    BY LimitsPos
  <2>2. k \in {n, WireMax} /\ k <= n
    BY <1>1, <1>2, <2>1, MinOfTwo
  <2>3. QED
    BY <2>1, <2>2
<1>4. PICK S : w \in Seq(S)
  BY DEF IsList
<1>5. PICK v : v = SubSeq(w, 1, k)
  OBVIOUS
<1>6. v \in Seq(S) /\ Len(v) = k /\ \A i \in 1 .. k : v[i] = w[i]
  BY <1>1, <1>3, <1>4, <1>5
<1>7. IsList(v) /\ \A i \in 1 .. k : i \in 1 .. n
  BY <1>3, <1>6 DEF IsList
<1>8. \A i \in 1 .. Len(v) : v[i].ch[1] \in Kinds
  BY <1>1, <1>6, <1>7
<1>9. ASSUME NEW g, NEW sym, NEW a, NEW b, Frames(g, w, sym, a, b) PROVE Frames(g, v, sym, a, b)
  BY <1>1, <1>6, <1>7, <1>9 DEF Frames
<1>10. QED
  BY <1>2, <1>5, <1>7, <1>8, <1>9

\* A connection goes.
LEMMA GoneKeeps ==
    ASSUME FeedInv, TapeInv, NEW c \in Clients, c \in DOMAIN conn,
           UNCHANGED <<stream, market, fseq, fpc, userSeq, client>>, conn' = Without(conn, {c}),
           NEW v, wire' = [wire EXCEPT ![c] = v], IsList(v), \A i \in 1 .. Len(v) : v[i].ch[1] \in Kinds,
           \A g, sym : \A a, b \in Nat :
              a <= b /\ Frames(g, wire[c], sym, a, b) => Frames(g, v, sym, a, b)
    PROVE  FeedInv' /\ TapeInv'
<1>1. DOMAIN conn' = DOMAIN conn \ {c} /\ \A d \in DOMAIN conn : d # c => conn'[d] = conn[d]
  BY WithoutIs
<1>2. v = wire'[c] /\ DOMAIN wire' = Clients /\ \A d \in Clients : d # c => wire'[d] = wire[d]
  BY DEF FeedInv
<1>3. OneMoves(c)
  BY <1>1, <1>2 DEF OneMoves, FeedInv
<1>4. PICK queued : queued = IF c \in DOMAIN conn' THEN conn'[c].market ELSE <<>>
  OBVIOUS
<1>5. c \notin DOMAIN conn' /\ queued = <<>>
  BY <1>1, <1>4
<1>6. ASSUME NEW sym
      PROVE  Chain(stream, Entry(client[c].tapes, sym, <<>>), v, queued, Pending(sym), sym, Horizon)
  <2>1. PICK g, shown, w, q, pending, n : /\ g = stream /\ shown = Entry(client[c].tapes, sym, <<>>)
                                          /\ pending = Pending(sym) /\ n = Horizon /\ w = wire[c]
                                          /\ q = Queued(c)
    OBVIOUS
  <2>2. Chain(g, shown, w, q, pending, sym, n)
    BY <2>1 DEF TapeInv, Shown
  <2>3. \A a, b \in Nat : a <= b /\ Frames(g, w, sym, a, b) => Frames(g, v, sym, a, b)
    BY <2>1
  <2>4. Chain(g, shown, v, <<>>, pending, sym, n)
    BY <2>2, <2>3, ChainCut
  <2>5. QED
    BY <1>5, <2>1, <2>4
<1>7. DOMAIN client'[c] = ClientFields /\ client'[c].tapes = client[c].tapes
  BY DEF FeedInv
<1>8. QED
  BY <1>2, <1>3, <1>4, <1>5, <1>6, <1>7, OneKeeps

LEMMA SlowKeeps ==
    ASSUME FeedInv, TapeInv, NEW c \in Clients, SlowConsumer(c), UNCHANGED webVars
    PROVE  FeedInv' /\ TapeInv'
<1>1. PICK w, u, v : /\ w = wire[c] /\ u = SubSeq(w, 1, Min({Len(w), WireMax}))
                     /\ v = u \o <<ErrorFrame("slow_consumer")>>
  OBVIOUS
<1>2. /\ c \in DOMAIN conn /\ conn' = Without(conn, {c}) /\ wire' = [wire EXCEPT ![c] = v]
      /\ UNCHANGED <<stream, market, fseq, fpc, userSeq, client>>
  BY <1>1 DEF SlowConsumer, Joined, outboundVars, streamVars, fanVars, webVars
<1>3. IsList(w) /\ (\A i \in 1 .. Len(w) : w[i].ch[1] \in Kinds)
  BY <1>1 DEF FeedInv
<1>4. /\ IsList(u) /\ (\A i \in 1 .. Len(u) : u[i].ch[1] \in Kinds)
      /\ \A g, sym, a, b : Frames(g, w, sym, a, b) => Frames(g, u, sym, a, b)
  BY <1>1, <1>3, PrefixIs
<1>5. /\ IsList(v) /\ (\A i \in 1 .. Len(v) : v[i].ch[1] \in Kinds)
      /\ \A g, sym : \A a, b \in Nat : a <= b /\ Frames(g, u, sym, a, b) => Frames(g, v, sym, a, b)
  BY <1>1, <1>4, NoticeBehind
<1>6. \A g, sym : \A a, b \in Nat : a <= b /\ Frames(g, wire[c], sym, a, b) => Frames(g, v, sym, a, b)
  BY <1>1, <1>4, <1>5
<1>7. QED
  BY <1>2, <1>5, <1>6, GoneKeeps

LEMMA RefusedKeeps ==
    ASSUME FeedInv, TapeInv, NEW c \in Clients, JoinRefused(c), UNCHANGED webVars
    PROVE  FeedInv' /\ TapeInv'
<1>1. PICK w, v : w = wire[c] /\ v = w \o <<ErrorFrame("halted")>>
  OBVIOUS
<1>2. IsList(w) /\ (\A i \in 1 .. Len(w) : w[i].ch[1] \in Kinds)
  BY <1>1 DEF FeedInv
<1>3. Append(w, ErrorFrame("halted")) = v
  <2>1. PICK f : f = ErrorFrame("halted")
    OBVIOUS
  <2>2. Append(w, f) = w \o <<f>>
    BY <1>2, ConcatThree, ConcatNone, NoneIsList DEF IsList
  <2>3. QED
    BY <1>1, <2>1, <2>2
<1>4. /\ c \in DOMAIN conn /\ conn' = Without(conn, {c}) /\ wire' = [wire EXCEPT ![c] = v]
      /\ UNCHANGED <<stream, market, fseq, fpc, userSeq, client>>
  BY <1>1, <1>3 DEF JoinRefused, streamVars, fanVars, webVars
<1>5. /\ IsList(v) /\ (\A i \in 1 .. Len(v) : v[i].ch[1] \in Kinds)
      /\ \A g, sym : \A a, b \in Nat : a <= b /\ Frames(g, w, sym, a, b) => Frames(g, v, sym, a, b)
  BY <1>1, <1>2, NoticeBehind
<1>6. QED
  BY <1>1, <1>4, <1>5, GoneKeeps

LEMMA CutKeeps ==
    ASSUME FeedInv, TapeInv, NEW c \in Clients, Cut(c), UNCHANGED webVars
    PROVE  FeedInv' /\ TapeInv'
<1>1. /\ c \in DOMAIN conn /\ conn' = Without(conn, {c}) /\ wire' = [wire EXCEPT ![c] = <<>>]
      /\ UNCHANGED <<stream, market, fseq, fpc, userSeq, client>>
  BY DEF Cut, streamVars, fanVars, webVars
<1>2. IsList(<<>>) /\ 1 .. Len(<<>>) = {}
  BY NoneIsList
<1>3. \A g, sym : \A a, b \in Nat : a <= b /\ Frames(g, wire[c], sym, a, b) => Frames(g, <<>>, sym, a, b)
  BY NoFrames
<1>4. QED
  BY <1>1, <1>2, <1>3, GoneKeeps

-----------------------------------------------------------------------------
\* The browser does something that leaves its connection, its wire, its numbers
\* and its tapes alone.
LEMMA ClientKeeps ==
    ASSUME FeedInv, TapeInv, NEW c \in Clients,
           UNCHANGED <<stream, market, fseq, fpc, userSeq, conn, wire>>,
           NEW k, client' = [client EXCEPT ![c] = k], DOMAIN k = ClientFields,
           k.lastPrivate = client[c].lastPrivate, k.tapes = client[c].tapes
    PROVE  FeedInv' /\ TapeInv'
<1>1. client'[c] = k /\ DOMAIN client' = Clients /\ \A d \in Clients : d # c => client'[d] = client[d]
  BY DEF FeedInv
<1>2. OneMoves(c)
  BY <1>1 DEF OneMoves, FeedInv
<1>3. PICK w, queued, tapes : /\ w = wire'[c] /\ tapes = client'[c].tapes
                              /\ queued = IF c \in DOMAIN conn' THEN conn'[c].market ELSE <<>>
  OBVIOUS
<1>4. /\ DOMAIN client'[c] = ClientFields /\ IsList(w) /\ \A i \in 1 .. Len(w) : w[i].ch[1] \in Kinds
      /\ c \in DOMAIN conn' => ConnOk(conn'[c], w, client'[c].lastPrivate, userSeq[UserOf[c]])
  BY <1>1, <1>3 DEF FeedInv
<1>5. \A sym : Chain(stream, Entry(tapes, sym, <<>>), w, queued, Pending(sym), sym, Horizon)
  BY <1>1, <1>3 DEF TapeInv, Shown, Queued
<1>6. QED
  BY <1>2, <1>3, <1>4, <1>5, OneKeeps

LEMMA IdleClientKeeps ==
    ASSUME FeedInv, TapeInv, NEW c \in Clients,
           CloseSeen(c) \/ Fetch(c) \/ Dispatch(c) \/ FetchFails(c)
    PROVE  FeedInv' /\ TapeInv'
<1>1. UNCHANGED <<stream, market, fseq, fpc, userSeq, conn, wire>>
  BY DEF CloseSeen, Fetch, Dispatch, FetchFails, outboundVars, streamVars, fanOutVars, fanVars, hubVars
<1>2. PICK k : k = client[c]
  OBVIOUS
<1>3. DOMAIN k = ClientFields
  BY <1>2 DEF FeedInv
<1>4. CASE CloseSeen(c)
  <2>1. client' = [client EXCEPT ![c] = [k EXCEPT !.socket = "closed", !.state = "reconnecting"]]
    BY <1>2, <1>4 DEF CloseSeen, FeedInv
  <2>2. PICK l : l = [k EXCEPT !.socket = "closed", !.state = "reconnecting"]
    OBVIOUS
  <2>3. DOMAIN l = ClientFields /\ l.lastPrivate = k.lastPrivate /\ l.tapes = k.tapes
    BY <1>3, <2>2 DEF ClientFields
  <2>4. QED
    BY <1>1, <1>2, <2>1, <2>2, <2>3, ClientKeeps
<1>5. CASE Fetch(c)
  <2>1. PICK at, ok : client' = [client EXCEPT ![c].fetch.at = at, ![c].fetch.ok = ok]
    BY <1>5 DEF Fetch
  <2>2. PICK f : f = [client EXCEPT ![c].fetch.at = at]
    OBVIOUS
  <2>3. f = [client EXCEPT ![c] = [k EXCEPT !.fetch.at = at]]
    BY <1>2, <2>2
  <2>4. client' = [f EXCEPT ![c].fetch.ok = ok]
    BY <2>1, <2>2
  <2>5. PICK h : h = [k EXCEPT !.fetch.at = at]
    OBVIOUS
  <2>6. PICK l : l = [h EXCEPT !.fetch.ok = ok]
    OBVIOUS
  <2>7. client' = [client EXCEPT ![c] = l]
    <3>1. f = [client EXCEPT ![c] = h] /\ c \in DOMAIN client
      BY <2>3, <2>5 DEF FeedInv
    <3>2. f[c] = h
      BY <3>1
    <3>3. client' = [f EXCEPT ![c] = l]
      BY <2>4, <2>6, <3>2
    <3>4. QED
      BY <3>1, <3>3
  <2>8. DOMAIN l = ClientFields /\ l.lastPrivate = k.lastPrivate /\ l.tapes = k.tapes
    BY <1>3, <2>5, <2>6 DEF ClientFields
  <2>9. QED
    BY <1>1, <1>2, <2>7, <2>8, ClientKeeps
<1>6. CASE Dispatch(c)
  <2>1. PICK account, ok, upto :
            client' = [client EXCEPT ![c].portfolio = account, ![c].fetch = NoFetch,
                                     ![c].aligned = ok, ![c].upto = upto]
    BY <1>6 DEF Dispatch
  <2>2. PICK l : l = [k EXCEPT !.portfolio = account, !.fetch = NoFetch, !.aligned = ok, !.upto = upto]
    OBVIOUS
  <2>3. client' = [client EXCEPT ![c] = l]
    BY <1>2, <2>1, <2>2 DEF FeedInv
  <2>4. DOMAIN l = ClientFields /\ l.lastPrivate = k.lastPrivate /\ l.tapes = k.tapes
    BY <1>3, <2>2 DEF ClientFields
  <2>5. QED
    BY <1>1, <1>2, <2>3, <2>4, ClientKeeps
<1>7. CASE FetchFails(c)
  <2>1. PICK l : l = [k EXCEPT !.fetch = NoFetch]
    OBVIOUS
  <2>2. client' = [client EXCEPT ![c] = l]
    BY <1>2, <1>7, <2>1 DEF FetchFails, FeedInv
  <2>3. DOMAIN l = ClientFields /\ l.lastPrivate = k.lastPrivate /\ l.tapes = k.tapes
    BY <1>3, <2>1 DEF ClientFields
  <2>4. QED
    BY <1>1, <1>2, <2>2, <2>3, ClientKeeps
<1>8. QED
  BY <1>4, <1>5, <1>6, <1>7

\* A step of a browser that keeps its numbers and its tapes.
Same(k, l) ==
    DOMAIN l = ClientFields /\ l.lastPrivate = k.lastPrivate /\ l.tapes = k.tapes

LEMMA ResyncSame == ASSUME NEW k, DOMAIN k = ClientFields PROVE Same(k, Resync(k))
<1>1. CASE k.fetch # NoFetch
  BY <1>1 DEF Same, Resync
<1>2. CASE ~(k.fetch # NoFetch)
  <2>1. PICK x, l : l = [k EXCEPT !.fetch = x] /\ l = Resync(k)
    BY <1>2 DEF Resync
  <2>2. QED
    BY <2>1 DEF Same, ClientFields
<1>3. QED
  BY <1>1, <1>2

LEMMA MissedSame == ASSUME NEW k, DOMAIN k = ClientFields PROVE Same(k, Missed(k))
<1>1. PICK x, l : l = [k EXCEPT !.aligned = FALSE, !.fetch = x] /\ l = Missed(k)
  BY DEF Missed
<1>2. QED
  BY <1>1 DEF Same, ClientFields

LEMMA ConnectedSame == ASSUME NEW k, DOMAIN k = ClientFields PROVE Same(k, Connected(k))
<1>1. PICK l : l = [k EXCEPT !.state = "connected"]
  OBVIOUS
<1>2. Same(k, l) /\ DOMAIN l = ClientFields
  BY <1>1 DEF Same, ClientFields
<1>3. Same(l, Resync(l)) /\ Connected(k) = Resync(l)
  BY <1>1, <1>2, ResyncSame DEF Connected
<1>4. QED
  BY <1>2, <1>3 DEF Same

LEMMA HearErrorSame ==
    ASSUME NEW k, DOMAIN k = ClientFields, NEW code
    PROVE  Same(k, HearError(k, code))
<1>1. CASE code = "halted"
  <2>1. PICK l : l = [k EXCEPT !.state = "halted"]
    OBVIOUS
  <2>2. HearError(k, code) = l
    BY <1>1, <2>1 DEF HearError
  <2>3. QED
    BY <2>1, <2>2 DEF Same, ClientFields
<1>2. CASE code # "halted" /\ code = "resumed" /\ k.state = "halted"
  BY <1>2, ConnectedSame DEF HearError
<1>3. CASE code # "halted" /\ ~(code = "resumed" /\ k.state = "halted")
  BY <1>3 DEF HearError, Same
<1>4. QED
  BY <1>1, <1>2, <1>3

LEMMA HearPrivateIs ==
    ASSUME NEW k, DOMAIN k = ClientFields, NEW f, NEW l, l = HearPrivate(k, f)
    PROVE  DOMAIN l = ClientFields /\ l.lastPrivate = f.seq /\ l.tapes = k.tapes
<1>1. PICK verdict, noted : verdict = PrivateVerdict(k.lastPrivate, f.seq)
                            /\ noted = [k EXCEPT !.lastPrivate = f.seq]
  OBVIOUS
<1>2. DOMAIN noted = ClientFields /\ noted.lastPrivate = f.seq /\ noted.tapes = k.tapes
  BY <1>1 DEF ClientFields
<1>3. PICK heard : heard = IF verdict = "gap" THEN Resync(Missed(noted)) ELSE noted
  OBVIOUS
<1>4. Same(noted, heard)
  <2>1. Same(noted, noted)
    BY <1>2 DEF Same
  <2>2. PICK m : m = Missed(noted)
    OBVIOUS
  <2>3. Same(noted, m)
    BY <1>2, <2>2, MissedSame
  <2>4. Same(m, Resync(m))
    BY <2>3, ResyncSame DEF Same
  <2>5. Same(noted, Resync(m))
    BY <2>3, <2>4 DEF Same
  <2>6. QED
    BY <1>3, <2>1, <2>2, <2>5
<1>5. PICK x, y : /\ x = FoldPrivate(heard.portfolio, f.body)
                  /\ y = IF heard.fetch = NoFetch THEN heard.fetch
                                                 ELSE [heard.fetch EXCEPT !.ok = FALSE]
  OBVIOUS
<1>6. CASE verdict = "duplicate"
  <2>1. l = noted
    BY <1>1, <1>6 DEF HearPrivate
  <2>2. QED
    BY <1>2, <2>1
<1>7. CASE verdict # "duplicate"
  <2>1. l = [heard EXCEPT !.portfolio = x, !.upto = f.at, !.fetch = y]
    <3>1. CASE verdict = "gap"
      <4>1. heard = Resync(Missed(noted))
        BY <1>3, <3>1
      <4>2. QED
        BY <1>1, <1>5, <1>7, <3>1, <4>1, Zenon DEF HearPrivate
    <3>2. CASE verdict # "gap"
      <4>1. heard = noted
        BY <1>3, <3>2
      <4>2. QED
        BY <1>1, <1>5, <1>7, <3>2, <4>1, Zenon DEF HearPrivate
    <3>3. QED
      BY <3>1, <3>2
  <2>2. DOMAIN heard = ClientFields
    BY <1>4 DEF Same
  <2>3. DOMAIN l = ClientFields /\ l.lastPrivate = heard.lastPrivate /\ l.tapes = heard.tapes
    BY <2>1, <2>2 DEF ClientFields
  <2>4. QED
    BY <1>2, <1>4, <2>3 DEF Same
<1>8. QED
  BY <1>6, <1>7

\* A step of a browser that may put the print of frame f on its tape.
Heard(k, l, f) ==
    /\ DOMAIN l = ClientFields /\ l.lastPrivate = k.lastPrivate
    /\ \A sym : \/ Entry(l.tapes, sym, <<>>) = Entry(k.tapes, sym, <<>>)
                \/ /\ IsTape(f, sym)
                   /\ Entry(l.tapes, sym, <<>>) = Append(Entry(k.tapes, sym, <<>>), f.trade)

LEMMA HearMarketIs ==
    ASSUME NEW k, DOMAIN k = ClientFields, NEW f, f.ch[1] \in {"book", "tape", "bars"}
    PROVE  Heard(k, HearMarket(k, f), f)
<1> DEFINE l == HearMarket(k, f)
<1> HIDE DEF l
<1>0. SUFFICES Heard(k, l, f)
  BY DEF l
<1>1. PICK x, noted : noted = [k EXCEPT !.lastSeq = x]
                      /\ l = IF Entry(k.lastSeq, f.ch, 0) = f.seq THEN noted ELSE WriteMarket(noted, f)
  BY DEF HearMarket, l
<1>2. Same(k, noted)
  BY <1>1 DEF Same, ClientFields
<1>3. CASE l = noted
  BY <1>2, <1>3 DEF Same, Heard
<1>4. CASE l = WriteMarket(noted, f) /\ f.ch[1] = "book"
  <2>1. PICK y : l = [noted EXCEPT !.books = y]
    BY <1>4 DEF WriteMarket
  <2>2. Same(noted, l)
    BY <1>2, <2>1 DEF Same, ClientFields
  <2>3. QED
    BY <1>2, <2>2 DEF Same, Heard
<1>5. CASE l = WriteMarket(noted, f) /\ f.ch[1] = "bars"
  <2>1. PICK y : l = [noted EXCEPT !.bars = y]
    BY <1>5 DEF WriteMarket
  <2>2. Same(noted, l)
    BY <1>2, <2>1 DEF Same, ClientFields
  <2>3. QED
    BY <1>2, <2>2 DEF Same, Heard
<1>6. CASE l = WriteMarket(noted, f) /\ f.ch[1] = "tape"
  <2>1. PICK t : t = noted.tapes
    OBVIOUS
  <2>2. PICK u : u = Put(t, f.ch[2], Append(Entry(t, f.ch[2], <<>>), f.trade))
    OBVIOUS
  <2>3. l = [noted EXCEPT !.tapes = u]
    BY <1>6, <2>1, <2>2 DEF WriteMarket
  <2>4. DOMAIN l = ClientFields /\ l.lastPrivate = k.lastPrivate /\ l.tapes = u /\ t = k.tapes
    BY <1>2, <2>1, <2>3 DEF Same, ClientFields
  <2>5. ASSUME NEW sym
        PROVE  \/ Entry(u, sym, <<>>) = Entry(t, sym, <<>>)
               \/ /\ IsTape(f, sym)
                  /\ Entry(u, sym, <<>>) = Append(Entry(t, sym, <<>>), f.trade)
    BY <1>6, <2>2 DEF IsTape, Entry, Put, Upsert
  <2>6. QED
    BY <2>4, <2>5 DEF Heard
<1>7. QED
  BY <1>1, <1>3, <1>4, <1>5, <1>6

LEMMA OpenKeeps ==
    ASSUME FeedInv, TapeInv, NEW c \in Clients, Open(c)
    PROVE  FeedInv' /\ TapeInv'
<1>1. PICK k, j, l : /\ k = client[c]
                     /\ j = [k EXCEPT !.socket = "open", !.lastSeq = <<>>, !.lastPrivate = 0]
                     /\ l = Connected(Missed(j))
  OBVIOUS
<1>2. /\ fpc = "serving" /\ conn' = Put(conn, c, NewConn) /\ wire' = [wire EXCEPT ![c] = <<>>]
      /\ client' = [client EXCEPT ![c] = l]
      /\ UNCHANGED <<stream, market, fseq, fpc, userSeq>>
  BY <1>1 DEF Open, FeedInv, outboundVars, streamVars, fanVars
<1>3. DOMAIN k = ClientFields
  BY <1>1 DEF FeedInv
<1>4. DOMAIN j = ClientFields /\ j.lastPrivate = 0 /\ j.tapes = k.tapes
  BY <1>1, <1>3 DEF ClientFields
<1>5. Same(j, l)
  <2>1. Same(j, Missed(j))
    BY <1>4, MissedSame
  <2>2. PICK m : m = Missed(j)
    OBVIOUS
  <2>3. Same(m, Connected(m))
    BY <2>1, <2>2, ConnectedSame DEF Same
  <2>4. QED
    BY <1>1, <2>1, <2>2, <2>3 DEF Same
<1>6. /\ client'[c] = l /\ wire'[c] = <<>> /\ c \in DOMAIN conn' /\ conn'[c] = NewConn
      /\ DOMAIN client' = Clients /\ DOMAIN wire' = Clients /\ DOMAIN conn' = DOMAIN conn \union {c}
      /\ \A d \in Clients : d # c => client'[d] = client[d] /\ wire'[d] = wire[d]
      /\ \A d \in DOMAIN conn : d # c => conn'[d] = conn[d]
  BY <1>2 DEF FeedInv, Put, Upsert
<1>7. OneMoves(c)
  BY <1>2, <1>6 DEF OneMoves, FeedInv
<1>8. ConnOk(NewConn, <<>>, 0, userSeq[UserOf[c]])
  BY NewConnOk
<1>9. PICK queued, tapes : tapes = client'[c].tapes
                           /\ queued = IF c \in DOMAIN conn' THEN conn'[c].market ELSE <<>>
  OBVIOUS
<1>10. queued = <<>> /\ tapes = k.tapes
  BY <1>4, <1>5, <1>6, <1>9 DEF NewConn, Same
<1>11. ASSUME NEW sym
       PROVE  Chain(stream, Entry(tapes, sym, <<>>), <<>>, queued, Pending(sym), sym, Horizon)
  <2>1. PICK g, shown, w, q, pending, n : /\ g = stream /\ shown = Entry(tapes, sym, <<>>)
                                          /\ pending = Pending(sym) /\ n = Horizon /\ w = wire[c]
                                          /\ q = Queued(c)
    OBVIOUS
  <2>2. Chain(g, shown, w, q, pending, sym, n)
    BY <1>1, <1>10, <2>1 DEF TapeInv, Shown
  <2>3. \A a, b \in Nat : a <= b /\ Frames(g, w, sym, a, b) => Frames(g, <<>>, sym, a, b)
    BY NoFrames
  <2>4. Chain(g, shown, <<>>, <<>>, pending, sym, n)
    BY <2>2, <2>3, ChainCut
  <2>5. QED
    BY <1>10, <2>1, <2>4
<1>12. DOMAIN l = ClientFields /\ l.lastPrivate = 0
  BY <1>4, <1>5 DEF Same
<1>13. IsList(<<>>) /\ 1 .. Len(<<>>) = {}
  BY NoneIsList
<1>14. QED
  BY <1>6, <1>7, <1>8, <1>9, <1>11, <1>12, <1>13, OneKeeps

LEMMA ReceiveKeeps ==
    ASSUME FeedInv, TapeInv, NEW c \in Clients, Receive(c)
    PROVE  FeedInv' /\ TapeInv'
<1>1. PICK k, w, f, v : k = client[c] /\ w = wire[c] /\ f = Head(w) /\ v = Tail(w)
  OBVIOUS
<1>2. PICK l : l = CASE f.ch[1] = "error"   -> HearError(k, f.code)
                     [] f.ch[1] = "private" -> HearPrivate(k, f)
                     [] OTHER               -> HearMarket(k, f)
  OBVIOUS
<1>3. /\ w # <<>> /\ client' = [client EXCEPT ![c] = l] /\ wire' = [wire EXCEPT ![c] = v]
      /\ UNCHANGED <<stream, market, fseq, fpc, userSeq>>
  BY <1>1, <1>2 DEF Receive, Drained, outboundVars, streamVars, fanVars
<1>4. PICK busy : conn' = IF ~Joined(c) THEN conn ELSE [conn EXCEPT ![c].busy = busy]
  BY DEF Receive, Drained
<1>5. /\ DOMAIN k = ClientFields /\ IsList(w) /\ \A i \in 1 .. Len(w) : w[i].ch[1] \in Kinds
  BY <1>1 DEF FeedInv
<1>6. /\ IsList(v) /\ Len(v) = Len(w) - 1 /\ Len(w) >= 1 /\ f = w[1] /\ Len(w) \in Nat
      /\ \A i \in 1 .. Len(w) - 1 : v[i] = w[i + 1]
  BY <1>1, <1>3, <1>5, TailIs, ListIs
<1>7. f.ch[1] \in Kinds /\ \A i \in 1 .. Len(v) : v[i].ch[1] \in Kinds
  <2>1. 1 \in 1 .. Len(w) /\ \A i \in 1 .. Len(w) - 1 : i + 1 \in 1 .. Len(w)
    BY <1>6
  <2>2. QED
    BY <1>5, <1>6, <2>1
<1>8. /\ DOMAIN l = ClientFields
      /\ l.lastPrivate = IF f.ch[1] = "private" THEN f.seq ELSE k.lastPrivate
      /\ \A sym : \/ Entry(l.tapes, sym, <<>>) = Entry(k.tapes, sym, <<>>)
                  \/ /\ IsTape(f, sym)
                     /\ Entry(l.tapes, sym, <<>>) = Append(Entry(k.tapes, sym, <<>>), f.trade)
  <2>1. CASE f.ch[1] = "error"
    <3>1. l = HearError(k, f.code)
      BY <1>2, <2>1
    <3>2. QED
      BY <1>5, <2>1, <3>1, HearErrorSame DEF Same
  <2>2. CASE f.ch[1] = "private"
    <3>1. l = HearPrivate(k, f)
      BY <1>2, <2>2
    <3>2. QED
      BY <1>5, <2>2, <3>1, HearPrivateIs
  <2>3. CASE f.ch[1] \in {"book", "tape", "bars"}
    <3>1. f.ch[1] # "private" /\ f.ch[1] # "error"
      BY <2>3
    <3>2. l = HearMarket(k, f)
      BY <1>2, <3>1
    <3>3. Heard(k, l, f)
      BY <1>5, <2>3, <3>2, HearMarketIs
    <3>4. l.lastPrivate = IF f.ch[1] = "private" THEN f.seq ELSE k.lastPrivate
      BY <3>1, <3>3 DEF Heard
    <3>5. QED
      BY <3>3, <3>4 DEF Heard
  <2>4. QED
    BY <1>7, <2>1, <2>2, <2>3 DEF Kinds
<1>9. DOMAIN conn' = DOMAIN conn /\ \A d \in DOMAIN conn : d # c => conn'[d] = conn[d]
  BY <1>4
<1>10. /\ client'[c] = l /\ wire'[c] = v /\ DOMAIN client' = Clients /\ DOMAIN wire' = Clients
       /\ \A d \in Clients : d # c => client'[d] = client[d] /\ wire'[d] = wire[d]
  BY <1>3 DEF FeedInv
<1>11. OneMoves(c)
  BY <1>3, <1>9, <1>10 DEF OneMoves, FeedInv
<1>12. ASSUME c \in DOMAIN conn
       PROVE  /\ ConnOk(conn'[c], v, l.lastPrivate, userSeq[UserOf[c]])
              /\ conn'[c].market = conn[c].market
  <2>1. PICK s, t, newest : s = conn[c] /\ t = conn'[c] /\ newest = userSeq[UserOf[c]]
    OBVIOUS
  <2>2. ConnOk(s, w, k.lastPrivate, newest)
    BY <1>1, <1>12, <2>1 DEF FeedInv
  <2>3. s.joined /\ DOMAIN s = ConnFields
    BY <1>3, <2>2 DEF ConnOk
  <2>4. t = [s EXCEPT !.busy = busy]
    BY <1>4, <1>12, <2>1, <2>3 DEF Joined
  <2>5. /\ DOMAIN t = ConnFields /\ t.private = s.private /\ t.market = s.market
        /\ t.joined = s.joined /\ t.overflowed = s.overflowed
    BY <2>3, <2>4 DEF ConnFields
  <2>6. ASSUME ~s.overflowed PROVE Run(v \o s.private, l.lastPrivate, newest)
    <3>1. PICK p, r : p = s.private /\ r = w \o p
      OBVIOUS
    <3>2. IsList(p) /\ Run(r, k.lastPrivate, newest)
      BY <2>2, <2>3, <2>6, <3>1 DEF ConnOk
    <3>3. r # <<>> /\ Head(r) = f /\ Tail(r) = v \o p /\ IsList(r)
      BY <1>1, <1>3, <1>5, <3>1, <3>2, FirstOfTail, ConcatIs
    <3>4. PICK first : first = IF IsPrivate(f) THEN f.seq ELSE k.lastPrivate
      OBVIOUS
    <3>5. Run(v \o p, first, newest)
      BY <3>2, <3>3, <3>4, RunTail
    <3>6. first = l.lastPrivate
      BY <1>8, <3>4 DEF IsPrivate
    <3>7. QED
      BY <3>1, <3>5, <3>6
  <2>7. ConnOk(t, v, l.lastPrivate, newest)
    BY <2>2, <2>3, <2>5, <2>6 DEF ConnOk
  <2>8. QED
    BY <2>1, <2>5, <2>7
<1>13. PICK queued, tapes : tapes = client'[c].tapes
                            /\ queued = IF c \in DOMAIN conn' THEN conn'[c].market ELSE <<>>
  OBVIOUS
<1>14. queued = Queued(c) /\ tapes = l.tapes
  BY <1>9, <1>10, <1>12, <1>13 DEF Queued
<1>15. ASSUME NEW sym
       PROVE  Chain(stream, Entry(tapes, sym, <<>>), v, queued, Pending(sym), sym, Horizon)
  <2>1. PICK g, shown, pending, n : /\ g = stream /\ shown = Entry(k.tapes, sym, <<>>)
                                    /\ pending = Pending(sym) /\ n = Horizon
    OBVIOUS
  <2>2. Chain(g, shown, w, queued, pending, sym, n)
    BY <1>1, <1>14, <2>1 DEF TapeInv, Shown
  <2>3. /\ Chain(g, shown, v, queued, pending, sym, n)
        /\ IsTape(f, sym) => Chain(g, Append(shown, f.trade), v, queued, pending, sym, n)
    BY <1>1, <1>3, <2>2, ChainRead
  <2>4. QED
    BY <1>8, <1>14, <2>1, <2>3
<1>16. QED
  BY <1>6, <1>7, <1>8, <1>9, <1>10, <1>11, <1>12, <1>13, <1>15, OneKeeps

-----------------------------------------------------------------------------
(***************************************************************************)
(* What the matcher and the fan-out's loop do.                             *)
(***************************************************************************)
LEMMA SameConnections ==
    ASSUME FeedInv, UNCHANGED <<conn, wire, client, userSeq>>, fpc' # "serving" => DOMAIN conn = {}
    PROVE  FeedInv'
  BY DEF FeedInv

LEMMA EachChain ==
    ASSUME TapeInv, UNCHANGED <<wire, client>>,
           \A c \in Clients : \A sym :
               Chain(stream, Shown(c, sym), wire[c], Queued(c), Pending(sym), sym, Horizon) =>
               Chain(stream', Shown(c, sym), wire[c], Queued(c)', Pending(sym)', sym, Horizon')
    PROVE  TapeInv'
<1> SUFFICES ASSUME NEW c \in Clients, NEW sym
             PROVE  Chain(stream, Shown(c, sym), wire[c], Queued(c), Pending(sym), sym, Horizon)'
  BY DEF TapeInv
<1>1. Chain(stream', Shown(c, sym), wire[c], Queued(c)', Pending(sym)', sym, Horizon')
  BY DEF TapeInv
<1>2. Shown(c, sym)' = Shown(c, sym) /\ wire'[c] = wire[c]
  BY DEF Shown
<1>3. QED
  BY <1>1, <1>2 DEF Chain

LEMMA PublishKeeps ==
    ASSUME StreamInv, FeedInv, TapeInv, Publish, UNCHANGED <<fanOutVars, webVars>>
    PROVE  FeedInv' /\ TapeInv'
<1>1. UNCHANGED <<conn, wire, client, userSeq, fpc, market, fseq>>
  BY DEF fanOutVars, fanVars, hubVars, webVars
<1>2. FeedInv'
  BY <1>1, SameConnections DEF FeedInv
<1>3. PICK g, more, n, top : g = stream /\ more = stream' /\ n = Horizon /\ top = Horizon'
  OBVIOUS
<1>4. /\ Len(g) \in Nat /\ Len(more) \in Nat /\ Len(g) <= Len(more)
      /\ \A i \in 1 .. Len(g) : more[i] = g[i]
  BY <1>3, PublishGrows
<1>5. n \in Nat /\ top \in Nat /\ n <= top
  BY <1>1, <1>3, <1>4 DEF Horizon, StreamInv
<1>6. ASSUME NEW c \in Clients, NEW sym,
             Chain(stream, Shown(c, sym), wire[c], Queued(c), Pending(sym), sym, Horizon)
      PROVE  Chain(stream', Shown(c, sym), wire[c], Queued(c)', Pending(sym)', sym, Horizon')
  <2>1. PICK shown, w, queued, pending : /\ shown = Shown(c, sym) /\ w = wire[c]
                                         /\ queued = Queued(c) /\ pending = Pending(sym)
    OBVIOUS
  <2>2. queued = Queued(c)' /\ pending = Pending(sym)'
    BY <1>1, <2>1 DEF Queued, Pending
  <2>3. Chain(g, shown, w, queued, pending, sym, n)
    BY <1>3, <1>6, <2>1
  <2>4. Chain(more, shown, w, queued, pending, sym, top)
    BY <1>4, <1>5, <2>3, ChainWiden
  <2>5. QED
    BY <1>3, <2>1, <2>2, <2>4
<1>7. QED
  BY <1>1, <1>2, <1>6, EachChain

\* The connections and the stream stay, and nothing is to be told.
LEMMA NothingPending ==
    ASSUME FeedInv, TapeInv, UNCHANGED <<stream, conn, wire, client, userSeq>>,
           fpc' # "serving" => DOMAIN conn = {},
           Horizon' = Horizon, \A sym : Pending(sym)' = <<>>
    PROVE  FeedInv' /\ TapeInv'
<1>1. FeedInv'
  BY SameConnections
<1>2. ASSUME NEW c \in Clients, NEW sym,
             Chain(stream, Shown(c, sym), wire[c], Queued(c), Pending(sym), sym, Horizon)
      PROVE  Chain(stream', Shown(c, sym), wire[c], Queued(c)', Pending(sym)', sym, Horizon')
  <2>1. PICK g, shown, w, queued, pending, n :
            /\ shown = Shown(c, sym) /\ w = wire[c] /\ queued = Queued(c)
            /\ pending = Pending(sym) /\ g = stream /\ n = Horizon
    OBVIOUS
  <2>2. queued = Queued(c)'
    BY <2>1 DEF Queued
  <2>3. Chain(g, shown, w, queued, <<>>, sym, n)
    BY <1>2, <2>1, ChainDrained
  <2>4. QED
    BY <2>1, <2>2, <2>3
<1>3. QED
  BY <1>1, <1>2, EachChain

LEMMA ResumeKeeps ==
    ASSUME FeedInv, TapeInv, ResumeFanOut, UNCHANGED webVars
    PROVE  FeedInv' /\ TapeInv'
<1>1. /\ fpc = "down" /\ fpc' \in {"replaying", "refused"}
      /\ UNCHANGED <<stream, conn, wire, client, userSeq>>
  BY DEF ResumeFanOut, outboundVars, streamVars, hubVars, webVars
<1>2. Horizon' = Horizon /\ \A sym : Pending(sym)' = <<>>
  BY <1>1 DEF Horizon, Pending
<1>3. DOMAIN conn = {}
  BY <1>1 DEF FeedInv
<1>4. QED
  BY <1>1, <1>2, <1>3, NothingPending

LEMMA ReplayKeeps ==
    ASSUME StreamInv, FeedInv, TapeInv, ReplayHistory, UNCHANGED webVars
    PROVE  FeedInv' /\ TapeInv'
<1>1. /\ fpc = "replaying" /\ UNCHANGED <<stream, conn, wire, client, userSeq>>
      /\ IF Batch(fseq) = <<>> THEN fpc' = "booting" /\ UNCHANGED fseq ELSE UNCHANGED fpc
  BY DEF ReplayHistory, outboundVars, streamVars, hubVars, webVars
<1>2. Horizon' = Horizon
  <2>1. CASE Batch(fseq) = <<>>
    <3>1. fseq = Len(stream)
      BY <2>1, BatchShape DEF StreamInv
    <3>2. QED
      BY <1>1, <2>1, <3>1 DEF Horizon
  <2>2. CASE Batch(fseq) # <<>>
    BY <1>1, <2>2 DEF Horizon
  <2>3. QED
    BY <2>1, <2>2
<1>3. fpc' # "serving"
  BY <1>1
<1>4. DOMAIN conn = {} /\ \A sym : Pending(sym)' = <<>>
  BY <1>1, <1>3 DEF FeedInv, Pending
<1>5. QED
  BY <1>1, <1>2, <1>4, NothingPending

LEMMA ServeKeeps ==
    ASSUME MarketInv, FeedInv, TapeInv, ServeFanOut, UNCHANGED webVars
    PROVE  FeedInv' /\ TapeInv'
<1>1. /\ fpc = "booting" /\ fpc' = "serving" /\ market' = TickDrains(market)
      /\ UNCHANGED <<stream, conn, wire, client, userSeq, fseq>>
  BY DEF ServeFanOut, streamVars, hubVars, webVars
<1>2. Horizon' = Horizon
  BY <1>1 DEF Horizon
<1>3. \A sym : Pending(sym)' = <<>>
  BY <1>1, DrainedOk DEF Pending, MarketInv
<1>4. QED
  BY <1>1, <1>2, <1>3, NothingPending

LEMMA WatchKeeps ==
    ASSUME FeedInv, TapeInv, WatchHalt \/ UNCHANGED <<outboundVars, fanOutVars>>,
           UNCHANGED webVars
    PROVE  FeedInv' /\ TapeInv'
<1>1. UNCHANGED <<stream, conn, wire, client, userSeq, fpc, market, fseq>>
  BY DEF WatchHalt, outboundVars, streamVars, fanOutVars, fanVars, hubVars, webVars
<1>2. FeedInv'
  BY <1>1, SameConnections DEF FeedInv
<1>3. /\ \A c \in Clients : Queued(c)' = Queued(c)
      /\ \A sym : Pending(sym)' = Pending(sym)
      /\ Horizon' = Horizon
  BY <1>1 DEF Queued, Pending, Horizon
<1>4. QED
  BY <1>1, <1>2, <1>3, EachChain

LEMMA DiesKeeps ==
    ASSUME StreamInv, FeedInv, TapeInv, FanOutDies, UNCHANGED webVars
    PROVE  FeedInv' /\ TapeInv'
<1>1. /\ fpc' = "down" /\ userSeq' = NoSeq /\ conn' = Nobody
      /\ UNCHANGED <<stream, wire, client>>
  BY DEF FanOutDies, streamVars, webVars
<1>2. DOMAIN conn' = {}
  BY <1>1 DEF Nobody
<1>3. FeedInv'
  BY <1>1, <1>2 DEF FeedInv, NoSeq
<1>4. PICK g, n, top : g = stream /\ n = Horizon /\ top = Horizon'
  OBVIOUS
<1>5. n \in Nat /\ top \in Nat /\ n <= top /\ Len(g) \in Nat
  BY <1>1, <1>4 DEF Horizon, StreamInv
<1>6. ASSUME NEW c \in Clients, NEW sym,
             Chain(stream, Shown(c, sym), wire[c], Queued(c), Pending(sym), sym, Horizon)
      PROVE  Chain(stream', Shown(c, sym), wire[c], Queued(c)', Pending(sym)', sym, Horizon')
  <2>1. PICK shown, w, queued, pending : /\ shown = Shown(c, sym) /\ w = wire[c]
                                         /\ queued = Queued(c) /\ pending = Pending(sym)
    OBVIOUS
  <2>2. Queued(c)' = <<>> /\ Pending(sym)' = <<>>
    BY <1>1, <1>2 DEF Queued, Pending
  <2>3. Chain(g, shown, w, queued, pending, sym, n)
    BY <1>4, <1>6, <2>1
  <2>4. Chain(g, shown, w, <<>>, pending, sym, n)
    BY <2>3, ChainCut
  <2>5. Chain(g, shown, w, <<>>, <<>>, sym, n)
    BY <2>4, ChainDrained
  <2>6. Chain(g, shown, w, <<>>, <<>>, sym, top)
    BY <1>5, <2>5, ChainWiden
  <2>7. QED
    BY <1>1, <1>4, <2>1, <2>2, <2>6
<1>7. QED
  BY <1>1, <1>3, <1>6, EachChain

LEMMA ReadKeeps ==
    ASSUME StreamInv, MarketInv, FeedInv, TapeInv, ReadAndRoute, UNCHANGED webVars
    PROVE  FeedInv' /\ TapeInv'
<1>1. PICK h, hub, m, n, s, at : /\ h = [seq |-> userSeq, conn |-> conn]
                                 /\ s = Records(Batch(fseq)) /\ at = fseq
                                 /\ hub = FoldLeft(RouteRecord, h, s)
                                 /\ m = market /\ n = FoldLeft(ObserveRecord, m, s)
  OBVIOUS
<1>2. /\ fpc = "serving" /\ fpc' = "serving" /\ Batch(fseq) # <<>>
      /\ market' = n /\ fseq' = Last(Batch(fseq)) /\ userSeq' = hub.seq /\ conn' = hub.conn
      /\ UNCHANGED <<stream, wire, client>>
  BY <1>1 DEF ReadAndRoute, streamVars, webVars
<1>3. Len(stream) \in Nat /\ at \in 0 .. Len(stream) /\ at \in Nat
  BY <1>1 DEF StreamInv
<1>4. PICK k \in Nat \ {0} : /\ at + k <= Len(stream) /\ fseq' = at + k /\ DOMAIN s = 1 .. k
                             /\ \A i \in 1 .. k : s[i].seq = at + i /\ s[i].entry = stream[at + i]
  <2>1. fseq \in 0 .. Len(stream)
    BY <1>1, <1>3
  <2>2. QED
    BY <1>1, <1>2, <2>1, BatchShape
<1>5. HubOk(hub)
  <2>1. HubOk(h)
    <3>1. DOMAIN h = {"seq", "conn"} /\ h.seq = userSeq /\ h.conn = conn
      BY <1>1
    <3>2. QED
      BY <3>1 DEF HubOk, FeedInv
  <2>2. k \in Nat
    OBVIOUS
  <2>3. QED
    BY <1>1, <1>4, <2>1, <2>2, BatchRouted
<1>6. FeedInv'
  <2>1. \A c \in DOMAIN conn' : ConnOk(conn'[c], wire'[c], client'[c].lastPrivate, userSeq'[UserOf[c]])
    BY <1>2, <1>5 DEF HubOk
  <2>2. DOMAIN userSeq' = Users /\ (\A u \in Users : userSeq'[u] \in Nat) /\ DOMAIN conn' = DOMAIN conn
    BY <1>2, <1>5 DEF HubOk
  <2>3. QED
    BY <1>2, <2>1, <2>2 DEF FeedInv
<1>7. \A c \in Clients : Queued(c)' = Queued(c)
  BY <1>2, <1>5 DEF Queued, HubOk
<1>8. PICK g, top : g = stream /\ top = at + k
  OBVIOUS
<1>9. Horizon = at /\ Horizon' = top /\ top \in Nat /\ at <= top
  BY <1>1, <1>2, <1>3, <1>4, <1>8 DEF Horizon
<1>10. \A sym : \A low \in 0 .. at : TapeOf(g, Entry(m.tape, sym, <<>>), sym, low, at) =>
                                     TapeOf(g, Entry(n.tape, sym, <<>>), sym, low, top)
  <2>1. MarketOk(m) /\ k \in Nat
    BY <1>1 DEF MarketInv
  <2>2. QED
    BY <1>1, <1>3, <1>4, <1>8, <2>1, BatchObserved
<1>11. ASSUME NEW c \in Clients, NEW sym,
              Chain(stream, Shown(c, sym), wire[c], Queued(c), Pending(sym), sym, Horizon)
       PROVE  Chain(stream', Shown(c, sym), wire[c], Queued(c)', Pending(sym)', sym, Horizon')
  <2>1. PICK shown, w, queued, pending, later :
            /\ shown = Shown(c, sym) /\ w = wire[c] /\ queued = Queued(c)
            /\ pending = Entry(m.tape, sym, <<>>) /\ later = Entry(n.tape, sym, <<>>)
    OBVIOUS
  <2>2. Pending(sym) = pending /\ Pending(sym)' = later
    BY <1>1, <1>2, <2>1 DEF Pending
  <2>3. Chain(g, shown, w, queued, pending, sym, at)
    BY <1>8, <1>9, <1>11, <2>1, <2>2
  <2>4. \A low \in 0 .. at : TapeOf(g, pending, sym, low, at) => TapeOf(g, later, sym, low, top)
    BY <1>10, <2>1
  <2>5. Chain(g, shown, w, queued, later, sym, top)
    BY <1>3, <1>9, <2>3, <2>4, ChainNext
  <2>6. QED
    BY <1>2, <1>7, <1>8, <1>9, <2>1, <2>2, <2>5
<1>12. QED
  BY <1>2, <1>6, <1>11, EachChain

\* Every list of the fan-out's tape is of one symbol, if there is a browser.
LEMMA ListsAreOfOne ==
    ASSUME TapeInv, fpc = "serving", NEW c \in Clients
    PROVE  \A s \in DOMAIN market.tape : OnlyOf(market.tape[s], s)
<1> SUFFICES ASSUME NEW s \in DOMAIN market.tape PROVE OnlyOf(market.tape[s], s)
  OBVIOUS
<1>1. PICK g, shown, w, q, pending, n : /\ g = stream /\ shown = Shown(c, s) /\ w = wire[c]
                                        /\ q = Queued(c) /\ pending = market.tape[s] /\ n = Horizon
  OBVIOUS
<1>2. pending = Pending(s)
  BY <1>1 DEF Pending, Entry
<1>3. Chain(g, shown, w, q, pending, s, n)
  BY <1>1, <1>2 DEF TapeInv
<1>4. QED
  BY <1>1, <1>3 DEF Chain, TapeOf

LEMMA TickedIs ==
    ASSUME NEW s, DOMAIN s = ConnFields, NEW frames, frames = FramesFor(s)
    PROVE  /\ DOMAIN Ticked(s) = ConnFields /\ Ticked(s).private = s.private
           /\ Ticked(s).joined = s.joined /\ Ticked(s).overflowed = s.overflowed
           /\ Ticked(s).market = IF s.busy THEN s.market ELSE s.market \o frames
<1>1. PICK o : o = OfferMarket(s, frames)
  OBVIOUS
<1>2. /\ DOMAIN o = ConnFields /\ o.private = s.private /\ o.joined = s.joined
      /\ o.overflowed = s.overflowed
      /\ o.market = IF s.busy THEN s.market ELSE s.market \o frames
  <2>1. CASE s.busy
    BY <1>1, <2>1 DEF OfferMarket
  <2>2. CASE ~s.busy
    <3>1. PICK x : x = s.market \o frames
      OBVIOUS
    <3>2. o = [s EXCEPT !.market = x]
      BY <1>1, <2>2, <3>1 DEF OfferMarket
    <3>3. QED
      BY <2>2, <3>1, <3>2 DEF ConnFields
  <2>3. QED
    BY <2>1, <2>2
<1>3. PICK p : p = FlushConn(o)
  OBVIOUS
<1>4. /\ DOMAIN p = ConnFields /\ p.private = o.private /\ p.joined = o.joined
      /\ p.overflowed = o.overflowed /\ p.market = o.market
  <2>1. p = o \/ p = [o EXCEPT !.busy = TRUE, !.wake = TRUE]
    BY <1>3 DEF FlushConn, HandOver
  <2>2. QED
    BY <1>2, <2>1 DEF ConnFields
<1>5. PICK t : t = [p EXCEPT !.fresh = FALSE]
  OBVIOUS
<1>6. Ticked(s) = t
  BY <1>1, <1>3, <1>5 DEF Ticked
<1>7. /\ DOMAIN t = ConnFields /\ t.private = p.private /\ t.joined = p.joined
      /\ t.overflowed = p.overflowed /\ t.market = p.market
  BY <1>4, <1>5 DEF ConnFields
<1>8. QED
  BY <1>2, <1>4, <1>6, <1>7

LEMMA TickedOk ==
    ASSUME MarketOk(market), NEW s, s.joined, NEW w, NEW last, NEW newest,
           ConnOk(s, w, last, newest)
    PROVE  ConnOk(Ticked(s), w, last, newest)
<1>1. PICK frames, t : frames = FramesFor(s) /\ t = Ticked(s)
  OBVIOUS
<1>2. DOMAIN s = ConnFields
  BY DEF ConnOk
<1>3. /\ DOMAIN t = ConnFields /\ t.private = s.private /\ t.joined = s.joined
      /\ t.overflowed = s.overflowed
      /\ t.market = IF s.busy THEN s.market ELSE s.market \o frames
  BY <1>1, <1>2, TickedIs
<1>4. IsList(frames) /\ \A i \in 1 .. Len(frames) : frames[i].ch[1] \in Public
  BY <1>1, FramesForAre
<1>5. PICK queued : queued = s.market
  OBVIOUS
<1>6. IsList(queued) /\ \A i \in 1 .. Len(queued) : queued[i].ch[1] \in Public
  BY <1>5 DEF ConnOk, Public
<1>7. PICK longer : longer = queued \o frames
  OBVIOUS
<1>8. IsList(longer) /\ \A i \in 1 .. Len(longer) : longer[i].ch[1] \in Public
  BY <1>4, <1>6, <1>7, KindsOfTwo
<1>9. t.market \in {queued, longer}
  BY <1>3, <1>5, <1>7
<1>10. IsList(t.market) /\ \A i \in 1 .. Len(t.market) : t.market[i].ch[1] \in Public
  BY <1>6, <1>8, <1>9
<1>11. QED
  BY <1>1, <1>3, <1>10 DEF ConnOk, Public

LEMMA TickKeeps ==
    ASSUME StreamInv, MarketInv, FeedInv, TapeInv, Tick, UNCHANGED webVars
    PROVE  FeedInv' /\ TapeInv'
<1>1. /\ fpc = "serving" /\ market' = TickDrains(market)
      /\ conn' = [c \in DOMAIN conn |-> IF conn[c].joined THEN Ticked(conn[c]) ELSE conn[c]]
      /\ UNCHANGED <<stream, wire, client, userSeq, fpc, fseq>>
  BY DEF Tick, outboundVars, streamVars, webVars
<1>2. MarketOk(market)
  BY DEF MarketInv
<1>3. ASSUME NEW c \in DOMAIN conn
      PROVE  ConnOk(conn'[c], wire[c], client[c].lastPrivate, userSeq[UserOf[c]])
  <2>1. PICK s, w, last, newest : /\ s = conn[c] /\ w = wire[c] /\ last = client[c].lastPrivate
                                  /\ newest = userSeq[UserOf[c]]
    OBVIOUS
  <2>2. ConnOk(s, w, last, newest)
    BY <2>1 DEF FeedInv
  <2>3. s.joined => ConnOk(Ticked(s), w, last, newest)
    BY <1>2, <2>2, TickedOk
  <2>4. conn'[c] = IF s.joined THEN Ticked(s) ELSE s
    BY <1>1, <2>1
  <2>5. QED
    BY <2>1, <2>2, <2>3, <2>4
<1>4. DOMAIN conn' = DOMAIN conn
  BY <1>1
<1>5. FeedInv'
  BY <1>1, <1>3, <1>4 DEF FeedInv
<1>6. /\ fseq \in Nat /\ Horizon = fseq /\ Horizon' = fseq
      /\ \A sym : Pending(sym)' = <<>> /\ Pending(sym) = Entry(market.tape, sym, <<>>)
  BY <1>1, <1>2, DrainedOk DEF Horizon, Pending, StreamInv
<1>7. ASSUME NEW c \in Clients, NEW sym,
             Chain(stream, Shown(c, sym), wire[c], Queued(c), Pending(sym), sym, Horizon)
      PROVE  Chain(stream', Shown(c, sym), wire[c], Queued(c)', Pending(sym)', sym, Horizon')
  <2>1. PICK g, n, shown, w, queued, pending, s, frames :
            /\ g = stream /\ n = fseq /\ shown = Shown(c, sym) /\ w = wire[c]
            /\ queued = Queued(c) /\ pending = Pending(sym)
            /\ s = conn[c] /\ frames = FramesFor(s)
    OBVIOUS
  <2>2. Chain(g, shown, w, queued, pending, sym, n)
    BY <1>6, <1>7, <2>1
  <2>3. ASSUME NEW d \in Nat, d <= n, TapeOf(g, pending, sym, d, n)
        PROVE  Frames(g, frames, sym, d, n)
    <3>1. Telling(g, sym, d, n)
      BY <1>1, <1>6, <2>1, <2>3, ListsAreOfOne DEF Telling
    <3>2. QED
      BY <1>2, <2>1, <3>1, FramesForAre
  <2>4. n \in Nat
    BY <1>6, <2>1
  <2>5. Chain(g, shown, w, queued \o frames, <<>>, sym, n) /\ Chain(g, shown, w, queued, <<>>, sym, n)
    BY <2>2, <2>3, <2>4, ChainTold
  <2>6. Queued(c)' \in {queued, queued \o frames}
    <3>1. CASE c \notin DOMAIN conn
      BY <1>4, <2>1, <3>1 DEF Queued
    <3>2. CASE c \in DOMAIN conn
      <4>1. queued = s.market /\ Queued(c)' = conn'[c].market
        BY <1>4, <2>1, <3>2 DEF Queued
      <4>2. DOMAIN s = ConnFields
        BY <2>1, <3>2 DEF FeedInv, ConnOk
      <4>3. Ticked(s).market = IF s.busy THEN s.market ELSE s.market \o frames
        BY <2>1, <4>2, TickedIs
      <4>4. conn'[c] = IF s.joined THEN Ticked(s) ELSE s
        BY <1>1, <2>1, <3>2
      <4>5. QED
        BY <4>1, <4>3, <4>4
    <3>3. QED
      BY <3>1, <3>2
  <2>7. QED
    BY <1>1, <1>6, <2>1, <2>5, <2>6
<1>8. QED
  BY <1>1, <1>5, <1>7, EachChain

-----------------------------------------------------------------------------
FeedIsInOrder == StreamInv /\ MarketInv /\ FeedInv /\ TapeInv

LEMMA InitIsInOrder == Init => FeedIsInOrder
<1> SUFFICES ASSUME Init PROVE FeedIsInOrder
  OBVIOUS
<1>1. /\ stream = <<>> /\ fpc = "down" /\ fseq = 0 /\ userSeq = NoSeq /\ conn = Nobody
      /\ wire = [c \in Clients |-> <<>>] /\ client = [c \in Clients |-> NewClient]
  BY DEF Init, OutboundInit, FanOutInit, WebInit
<1>2. DOMAIN conn = {}
  BY <1>1 DEF Nobody
<1>3. DOMAIN NewClient = ClientFields /\ NewClient.tapes = <<>>
  BY DEF NewClient, ClientFields
<1>4. FeedInv
  <2>1. IsList(<<>>) /\ 1 .. Len(<<>>) = {}
    BY NoneIsList
  <2>2. DOMAIN userSeq = Users /\ \A u \in Users : userSeq[u] \in Nat
    BY <1>1 DEF NoSeq
  <2>3. \A c \in Clients : client[c] = NewClient /\ wire[c] = <<>>
    BY <1>1
  <2>4. DOMAIN client = Clients /\ DOMAIN wire = Clients
    BY <1>1
  <2>5. QED
    BY <1>2, <1>3, <2>1, <2>2, <2>3, <2>4 DEF FeedInv
<1>5. Horizon = 0
  BY <1>1, NoneIsList DEF Horizon
<1>6. ASSUME NEW c \in Clients, NEW sym
      PROVE  Chain(stream, Shown(c, sym), wire[c], Queued(c), Pending(sym), sym, Horizon)
  <2>1. Shown(c, sym) = <<>> /\ wire[c] = <<>> /\ Queued(c) = <<>> /\ Pending(sym) = <<>>
    BY <1>1, <1>2, <1>3 DEF Shown, Queued, Pending, Entry
  <2>2. PICK g : g = stream
    OBVIOUS
  <2>3. /\ TapeOf(g, <<>>, sym, 0, 0) /\ Frames(g, <<>>, sym, 0, 0)
    BY NoTape, NoFrames
  <2>4. Chain(g, <<>>, <<>>, <<>>, <<>>, sym, 0)
    BY <2>3 DEF Chain
  <2>5. QED
    BY <1>5, <2>1, <2>2, <2>4
<1>7. QED
  BY <1>4, <1>6, StreamInit DEF FeedIsInOrder, TapeInv

LEMMA StepsKeepOrder ==
    ASSUME FeedIsInOrder, [Next]_vars
    PROVE  FeedIsInOrder'
<1>1. StreamInv /\ MarketInv /\ FeedInv /\ TapeInv
  BY DEF FeedIsInOrder
<1>2. StreamInv' /\ MarketInv'
  BY <1>1, StreamSteps
<1>3. FeedInv' /\ TapeInv'
  <2>1. CASE Publish /\ UNCHANGED <<fanOutVars, webVars>>
    BY <1>1, <2>1, PublishKeeps
  <2>2. CASE FanOutNext /\ UNCHANGED webVars
    <3>1. CASE ResumeFanOut
      BY <1>1, <2>2, <3>1, ResumeKeeps
    <3>2. CASE ReplayHistory
      BY <1>1, <2>2, <3>2, ReplayKeeps
    <3>3. CASE ServeFanOut
      BY <1>1, <2>2, <3>3, ServeKeeps
    <3>4. CASE ReadAndRoute
      BY <1>1, <2>2, <3>4, ReadKeeps
    <3>5. CASE WatchHalt
      BY <1>1, <2>2, <3>5, WatchKeeps
    <3>6. CASE Tick
      BY <1>1, <2>2, <3>6, TickKeeps
    <3>7. ASSUME NEW c \in Clients, Join(c) \/ Subscribe(c) \/ TakeBatch(c) \/ SlowConsumer(c)
          PROVE  FeedInv' /\ TapeInv'
      BY <1>1, <2>2, <3>7, JoinKeeps, SubscribeKeeps, TakeKeeps, SlowKeeps
    <3>8. CASE FanOutDies
      BY <1>1, <2>2, <3>8, DiesKeeps
    <3>9. ASSUME NEW c \in Clients, JoinRefused(c) \/ Cut(c) PROVE FeedInv' /\ TapeInv'
      BY <1>1, <2>2, <3>9, RefusedKeeps, CutKeeps
    <3>10. QED
      BY <2>2, <3>1, <3>2, <3>3, <3>4, <3>5, <3>6, <3>7, <3>8, <3>9 DEF FanOutNext, FanOutStep
  <2>3. ASSUME NEW c \in Clients, Open(c) PROVE FeedInv' /\ TapeInv'
    BY <1>1, <2>3, OpenKeeps
  <2>4. ASSUME NEW c \in Clients, Receive(c) PROVE FeedInv' /\ TapeInv'
    BY <1>1, <2>4, ReceiveKeeps
  <2>5. ASSUME NEW c \in Clients, CloseSeen(c) \/ Fetch(c) \/ Dispatch(c) \/ FetchFails(c)
        PROVE  FeedInv' /\ TapeInv'
    BY <1>1, <2>5, IdleClientKeeps
  <2>6. CASE UNCHANGED vars
    BY <1>1, <2>6, WatchKeeps DEF vars
  <2>7. QED
    BY <2>1, <2>2, <2>3, <2>4, <2>5, <2>6 DEF Next, WebNext, WebStep
<1>4. QED
  BY <1>2, <1>3 DEF FeedIsInOrder

-----------------------------------------------------------------------------
\* The fan-out, its connections and its browsers stay in order: whatever a
\* connection loses, a restart forgets or a browser reconnects to, the frames on
\* their way are a tail of the count of the user's messages, and the prints on
\* their way lie in the stream behind those shown (subscribers.py, conflation.py,
\* stream/client.ts).
THEOREM FeedStaysInOrder == Spec => []FeedIsInOrder
<1>1. FeedIsInOrder /\ [Next]_vars => FeedIsInOrder'
  BY StepsKeepOrder
<1>2. QED
  BY <1>1, InitIsInOrder, PTL DEF Spec

\* private.py, subscribers.py: no message of a user is dropped without the
\* connection being closed for it, whatever the sizes of the queue and the socket.
THEOREM NothingIsDroppedSilently == Spec => []NothingDroppedSilently
<1>1. FeedIsInOrder => NothingDroppedSilently
  <2> SUFFICES ASSUME FeedIsInOrder, NEW c \in DOMAIN conn
               PROVE  /\ Len(conn[c].private) <= PrivateMax
                      /\ Joined(c) /\ ~conn[c].overflowed =>
                            LET last == client[c].lastPrivate
                                newest == userSeq[UserOf[c]]
                            IN  /\ last # 0 => last = newest - Cardinality(PrivateAfter(c, 0))
                                /\ \A i \in PrivateAfter(c, 0) :
                                      Coming(c)[i].seq = newest - Cardinality(PrivateAfter(c, i))
    BY DEF NothingDroppedSilently
  <2>1. PICK s, w, frames, last, newest :
            /\ s = conn[c] /\ w = wire[c] /\ frames = w \o s.private
            /\ last = client[c].lastPrivate /\ newest = userSeq[UserOf[c]]
    OBVIOUS
  <2>2. ConnOk(s, w, last, newest) /\ IsList(w)
    BY <2>1 DEF FeedIsInOrder, FeedInv
  <2>3. Len(s.private) <= PrivateMax /\ IsList(s.private)
    BY <2>2 DEF ConnOk
  <2>4. ASSUME Joined(c), ~s.overflowed
        PROVE  /\ last # 0 => last = newest - Cardinality(PrivateAfter(c, 0))
               /\ \A i \in PrivateAfter(c, 0) :
                     frames[i].seq = newest - Cardinality(PrivateAfter(c, i))
    <3>1. Run(frames, last, newest)
      BY <2>1, <2>2, <2>4 DEF ConnOk, Joined
    <3>2. PICK p : p = s.private
      OBVIOUS
    <3>3. IsList(frames)
      BY <2>1, <2>2, <2>3, <3>2, ConcatIs
    <3>4. \A n : PrivateAfter(c, n) = After(frames, n)
      BY <2>1 DEF PrivateAfter, Coming, After, IsPrivate
    <3>5. QED
      BY <3>1, <3>3, <3>4, RunNumbers
  <2>5. QED
    BY <2>1, <2>3, <2>4 DEF Coming
<1>2. QED
  BY <1>1, FeedStaysInOrder, PTL

\* buffer.ts, conflation.py: the tape of a symbol shows fills of the stream, in
\* their order and each at most once, through reconnects and restarts.
THEOREM TapesAreTrue == Spec => []TapeIsTrue
<1>1. FeedIsInOrder => TapeIsTrue
  <2> SUFFICES ASSUME FeedIsInOrder, NEW c \in Clients, NEW sym \in DOMAIN client[c].tapes,
                      NEW tape, tape = client[c].tapes[sym]
               PROVE  /\ \A i \in DOMAIN tape : IsPrint(tape[i], sym)
                      /\ Ascends(tape, LAMBDA t : t.seq)
    BY DEF TapeIsTrue
  <2>1. PICK g, shown, w, q, pending, n : /\ g = stream /\ shown = Shown(c, sym) /\ w = wire[c]
                                          /\ q = Queued(c) /\ pending = Pending(sym) /\ n = Horizon
    OBVIOUS
  <2>2. shown = tape
    BY <2>1 DEF Shown, Entry
  <2>3. Chain(g, shown, w, q, pending, sym, n)
    BY <2>1 DEF FeedIsInOrder, TapeInv
  <2>4. PICK a \in Nat : TapeOf(g, shown, sym, 0, a)
    BY <2>3 DEF Chain
  <2>5. /\ IsList(tape)
        /\ \A i \in 1 .. Len(tape) : IsPrintIn(g, tape[i], sym)
        /\ \A i, j \in 1 .. Len(tape) : i < j => tape[i].seq < tape[j].seq
    BY <2>2, <2>4 DEF TapeOf, Prints, OnlyOf
  <2>6. Len(tape) \in Nat /\ DOMAIN tape = 1 .. Len(tape)
    BY <2>5, ListIs
  <2>7. DOMAIN stream = 1 .. Len(stream)
    BY DEF FeedIsInOrder, StreamInv
  <2>8. \A i \in DOMAIN tape : IsPrint(tape[i], sym)
    BY <2>1, <2>5, <2>6, <2>7 DEF IsPrint, IsPrintIn
  <2>9. \A i \in 1 .. Len(tape) - 1 : tape[i].seq < tape[i + 1].seq
    <3>1. \A i \in 1 .. Len(tape) - 1 : /\ i \in 1 .. Len(tape) /\ i + 1 \in 1 .. Len(tape)
                                        /\ i < i + 1
      BY <2>6
    <3>2. QED
      BY <2>5, <3>1
  <2>10. QED
    BY <2>8, <2>9 DEF Ascends
<1>2. QED
  BY <1>1, FeedStaysInOrder, PTL
=============================================================================
