---------------------------- MODULE Engines_proofs ----------------------------
(***************************************************************************)
(* The deployed engine, for every set of users, symbols and prices, and    *)
(* every sequence of records.                                              *)
(*                                                                         *)
(* Three things are kept in step by code that no structure enforces: the   *)
(* orders and the queues of their price levels (Book), the live orders and *)
(* the client index (Owned, Indexed).  That arrival order is the order of  *)
(* ids is what lets a restart do without arrival numbers (Alike).  The     *)
(* events of an answer lead from the orders open before it to those open   *)
(* after it, record by record: the contract the gateway relies on.  And    *)
(* the reference engine, whose book is a set, holds what the deployed one  *)
(* holds after every record (Mirrors), so they answer alike.               *)
(***************************************************************************)
EXTENDS Engines, SequenceTheorems, FiniteSetTheorems, TLAPS

Fields == {"next", "orders", "arrivals", "levels", "live", "index"}

Order == [sym : Symbols, side : Sides, price : Prices, qty : Nat, arrival : Nat]

\* The orders, each below the next id, and arrived in the order of their ids.
Shaped(e) ==
    /\ DOMAIN e = Fields
    /\ e.next \in Nat \ {0}
    /\ \A id \in DOMAIN e.orders : /\ id \in Nat /\ id < e.next
                                   /\ e.orders[id] \in Order
                                   /\ e.orders[id].arrival < e.arrivals[e.orders[id].sym]
    /\ e.arrivals \in [Symbols -> Nat]
    /\ \A a, b \in DOMAIN e.orders :
          a < b /\ e.orders[a].sym = e.orders[b].sym => e.orders[a].arrival < e.orders[b].arrival

\* The queue of a level holds orders of that level, by ascending id.
QueueOk(q, level, orders) ==
    /\ q \in Seq(DOMAIN orders) /\ q # <<>>
    /\ \A i \in 1 .. Len(q) : LevelOf(orders[q[i]]) = level
    /\ \A i, j \in 1 .. Len(q) : i < j => q[i] < q[j]

InQueue(q, id) == \E i \in 1 .. Len(q) : q[i] = id

Queued(e) ==
    /\ \A level \in DOMAIN e.levels : QueueOk(e.levels[level], level, e.orders)
    /\ \A id \in DOMAIN e.orders :
          /\ LevelOf(e.orders[id]) \in DOMAIN e.levels
          /\ InQueue(e.levels[LevelOf(e.orders[id])], id)

Book(e) == Shaped(e) /\ Queued(e)

Positive(e) == \A id \in DOMAIN e.orders : e.orders[id].qty > 0

\* Who gave the orders.
Owned(e) ==
    \A id \in DOMAIN e.orders :
        /\ id \in DOMAIN e.live /\ e.live[id].id = id
        /\ e.live[id].sym = e.orders[id].sym /\ e.live[id].side = e.orders[id].side
        /\ e.live[id].price = e.orders[id].price

Indexed(e) ==
    \A k \in DOMAIN e.index : /\ e.index[k] \in DOMAIN e.live
                              /\ KeyOf(e.live[e.index[k]]) = k

Reached(e) == \A id \in DOMAIN e.live : IndexReaches(e, id)

Quantities(e) == [id \in DOMAIN e.orders |-> e.orders[id].qty]

\* The engine between two records.
Engine(e) ==
    /\ Book(e) /\ Positive(e) /\ Owned(e) /\ Indexed(e)
    /\ DOMAIN e.live = DOMAIN e.orders
    /\ \A s \in Symbols : ~CanMatch(e, s)

\* A step within the book: nothing beside the orders and the queues changes.
Beside(e, f) ==
    /\ DOMAIN f = Fields /\ f.next = e.next /\ f.arrivals = e.arrivals
    /\ f.live = e.live /\ f.index = e.index

Same(f, g) == DOMAIN f = DOMAIN g /\ \A x \in DOMAIN f : f[x] = g[x]

\* Two engines that differ in arrival numbers only.
Alike(e, t) ==
    /\ DOMAIN e = Fields /\ DOMAIN t = Fields /\ e.next = t.next
    /\ Same(e.live, t.live) /\ Same(e.index, t.index) /\ Same(e.levels, t.levels)
    /\ DOMAIN e.orders = DOMAIN t.orders
    /\ \A id \in DOMAIN e.orders : /\ LevelOf(e.orders[id]) = LevelOf(t.orders[id])
                                   /\ e.orders[id].qty = t.orders[id].qty

EInv ==
    /\ Engine(eng)
    /\ view = Quantities(eng)
    /\ ~reused => Reached(eng)

TwinInv == Engine(twin) /\ Alike(eng, twin) /\ out = twinOut

-----------------------------------------------------------------------------
(***************************************************************************)
(* The book.                                                               *)
(***************************************************************************)
LEMMA ErasedQueue ==
    ASSUME NEW S, NEW q \in Seq(S), NEW k \in 1 .. Len(q)
    PROVE  /\ RemoveAt(q, k) \in Seq(S) /\ Len(RemoveAt(q, k)) = Len(q) - 1
           /\ \A i \in 1 .. Len(q) - 1 : RemoveAt(q, k)[i] = IF i < k THEN q[i] ELSE q[i + 1]
<1>1. PICK n \in Nat : n = Len(q) /\ k \in 1 .. n
  OBVIOUS
<1>2. PICK a \in Seq(S) : /\ a = SubSeq(q, 1, k - 1) /\ Len(a) = k - 1
                          /\ \A i \in 1 .. k - 1 : a[i] = q[i]
  <2>1. SubSeq(q, 1, k - 1) \in Seq(S) /\ Len(SubSeq(q, 1, k - 1)) = k - 1
        /\ \A i \in 1 .. k - 1 : SubSeq(q, 1, k - 1)[i] = q[i]
    OBVIOUS
  <2>2. QED
    BY <2>1
<1>3. PICK b \in Seq(S) : /\ b = SubSeq(q, k + 1, n) /\ Len(b) = n - k
                          /\ \A i \in 1 .. n - k : b[i] = q[k + i]
  <2>1. SubSeq(q, k + 1, Len(q)) \in Seq(S) /\ Len(SubSeq(q, k + 1, Len(q))) = Len(q) - k
        /\ \A i \in 1 .. Len(q) - k : SubSeq(q, k + 1, Len(q))[i] = q[k + i]
    OBVIOUS
  <2>2. QED
    BY <1>1, <2>1
<1>4. RemoveAt(q, k) = a \o b
  BY <1>1, <1>2, <1>3 DEF RemoveAt
<1>5. /\ a \o b \in Seq(S) /\ Len(a \o b) = n - 1
      /\ \A i \in 1 .. n - 1 : (a \o b)[i] = IF i < k THEN a[i] ELSE b[i - (k - 1)]
  <2>1. /\ a \o b \in Seq(S) /\ Len(a \o b) = Len(a) + Len(b)
        /\ \A i \in 1 .. Len(a) + Len(b) : (a \o b)[i] = IF i <= Len(a) THEN a[i] ELSE b[i - Len(a)]
    OBVIOUS
  <2>2. Len(a) + Len(b) = n - 1
    <3>1. k \in Int /\ n \in Int /\ Len(a) = k - 1 /\ Len(b) = n - k
      BY <1>1, <1>2, <1>3
    <3>2. QED
      BY ONLY <3>1
  <2>3. \A i \in 1 .. n - 1 : i <= Len(a) <=> i < k
    BY <1>1, <1>2
  <2>4. QED
    BY <1>2, <2>1, <2>2, <2>3
<1>6. ASSUME NEW i \in 1 .. n - 1
      PROVE  (a \o b)[i] = IF i < k THEN q[i] ELSE q[i + 1]
  <2>1. CASE i < k
    BY <1>1, <1>2, <1>5, <2>1
  <2>2. CASE ~(i < k)
    <3>1. PICK j \in 1 .. n - k : j = i - (k - 1) /\ k + j = i + 1
      BY <1>1, <2>2
    <3>2. (a \o b)[i] = b[j]
      BY <1>5, <2>2, <3>1
    <3>3. QED
      BY <1>3, <2>2, <3>1, <3>2
  <2>3. QED
    BY <2>1, <2>2
<1>7. QED
  BY <1>1, <1>4, <1>5, <1>6

\* An erased order leaves its queue, and the others in it as they were.
LEMMA Erased ==
    ASSUME NEW orders, NEW level, NEW q, QueueOk(q, level, orders), DOMAIN orders \subseteq Nat,
           NEW id, InQueue(q, id), NEW rest,
           DOMAIN rest = DOMAIN orders \ {id}, \A x \in DOMAIN rest : rest[x] = orders[x]
    PROVE  /\ Erase(q, id) # <<>> => QueueOk(Erase(q, id), level, rest)
           /\ \A x \in DOMAIN rest : InQueue(q, x) => InQueue(Erase(q, id), x)
<1>1. PICK D : D = DOMAIN orders
  OBVIOUS
<1>2. PICK n \in Nat : /\ q \in Seq(D) /\ n = Len(q) /\ DOMAIN q = 1 .. n
                       /\ \A i \in 1 .. n : q[i] \in D /\ q[i] \in Nat
  BY <1>1 DEF QueueOk
<1>3. PICK k \in 1 .. n : q[k] = id /\ Erase(q, id) = RemoveAt(q, k)
  <2>1. \E i \in DOMAIN q : q[i] = id
    BY <1>2 DEF InQueue
  <2>2. QED
    BY <1>2, <2>1 DEF Erase
<1>4. PICK r : r = Erase(q, id)
  OBVIOUS
<1>5. /\ r \in Seq(D) /\ Len(r) = n - 1
      /\ \A i \in 1 .. n - 1 : r[i] = IF i < k THEN q[i] ELSE q[i + 1]
  <2>1. /\ RemoveAt(q, k) \in Seq(D) /\ Len(RemoveAt(q, k)) = Len(q) - 1
        /\ \A i \in 1 .. Len(q) - 1 : RemoveAt(q, k)[i] = IF i < k THEN q[i] ELSE q[i + 1]
    BY <1>2, <1>3, ErasedQueue
  <2>2. QED
    BY <1>2, <1>3, <1>4, <2>1
<1>6. \A i, j \in 1 .. n : i < j => q[i] < q[j]
  BY <1>2 DEF QueueOk
<1>7. ASSUME NEW i \in 1 .. n - 1
      PROVE  \E a \in 1 .. n : /\ r[i] = q[a] /\ a # k
                               /\ (i < k => a = i) /\ (i >= k => a = i + 1)
  <2>1. i \in 1 .. n /\ i + 1 \in 1 .. n
    BY <1>2
  <2>2. CASE i < k
    BY <1>5, <2>1, <2>2
  <2>3. CASE ~(i < k)
    <3>1. r[i] = q[i + 1] /\ i + 1 # k /\ i >= k
      BY <1>5, <2>3
    <3>2. QED
      BY <2>1, <2>3, <3>1
  <2>4. QED
    BY <2>2, <2>3
<1>8. \A i \in 1 .. n - 1 : r[i] \in DOMAIN rest
  <2> SUFFICES ASSUME NEW i \in 1 .. n - 1 PROVE r[i] \in DOMAIN rest
    OBVIOUS
  <2>1. PICK a \in 1 .. n : r[i] = q[a] /\ a # k
    BY <1>7
  <2>2. q[a] # q[k]
    <3>1. a < k \/ k < a
      BY <2>1
    <3>2. q[a] \in Nat /\ q[k] \in Nat
      BY <1>2
    <3>3. q[a] < q[k] \/ q[k] < q[a]
      BY <1>6, <3>1
    <3>4. QED
      BY <3>2, <3>3
  <2>3. QED
    BY <1>1, <1>2, <1>3, <2>1, <2>2
<1>9. r # <<>> => QueueOk(r, level, rest)
  <2>1. r \in Seq(DOMAIN rest)
    BY <1>5, <1>8
  <2>2. ASSUME NEW i \in 1 .. n - 1 PROVE LevelOf(rest[r[i]]) = level
    <3>1. PICK a \in 1 .. n : r[i] = q[a]
      BY <1>7
    <3>2. LevelOf(orders[q[a]]) = level
      BY <1>2 DEF QueueOk
    <3>3. QED
      BY <1>8, <3>1, <3>2
  <2>3. ASSUME NEW i \in 1 .. n - 1, NEW j \in 1 .. n - 1, i < j PROVE r[i] < r[j]
    <3>1. PICK a \in 1 .. n : /\ r[i] = q[a] /\ (i < k => a = i) /\ (i >= k => a = i + 1)
      BY <1>7
    <3>2. PICK b \in 1 .. n : /\ r[j] = q[b] /\ (j < k => b = j) /\ (j >= k => b = j + 1)
      BY <1>7
    <3>3. a < b
      BY <2>3, <3>1, <3>2
    <3>4. QED
      BY <1>6, <3>1, <3>2, <3>3
  <2>4. QED
    BY <1>5, <2>1, <2>2, <2>3 DEF QueueOk
<1>10. ASSUME NEW x \in DOMAIN rest, NEW i \in 1 .. n, q[i] = x
       PROVE  InQueue(r, x)
  <2>1. i # k
    BY <1>3, <1>10
  <2>2. CASE i < k
    <3>1. i \in 1 .. n - 1
      BY <1>2, <2>2
    <3>2. r[i] = x
      BY <1>5, <1>10, <2>2, <3>1
    <3>3. QED
      BY <1>5, <3>1, <3>2 DEF InQueue
  <2>3. CASE i > k
    <3>1. i - 1 \in 1 .. n - 1 /\ ~(i - 1 < k) /\ (i - 1) + 1 = i
      BY <1>2, <2>3
    <3>2. r[i - 1] = x
      BY <1>5, <1>10, <3>1
    <3>3. QED
      BY <1>5, <3>1, <3>2 DEF InQueue
  <2>4. QED
    BY <1>2, <2>1, <2>2, <2>3
<1>11. QED
  <2>1. \A x \in DOMAIN rest : InQueue(q, x) => InQueue(r, x)
    BY <1>2, <1>10 DEF InQueue
  <2>2. QED
    BY <1>4, <1>9, <2>1

LEMMA PutIs ==
    ASSUME NEW f, NEW x, NEW v
    PROVE  /\ DOMAIN Put(f, x, v) = DOMAIN f \union {x} /\ Put(f, x, v)[x] = v
           /\ \A y \in DOMAIN f : y # x => Put(f, x, v)[y] = f[y]
  BY DEF Put, Upsert

LEMMA WithoutIs ==
    ASSUME NEW f, NEW x
    PROVE  /\ DOMAIN Without(f, x) = DOMAIN f \ {x}
           /\ \A y \in DOMAIN f : y # x => Without(f, x)[y] = f[y]
  BY DEF Without, Restrict

\* What the orders of a queue need to be.
LEMMA QueueKept ==
    ASSUME NEW orders, NEW level, NEW q, QueueOk(q, level, orders), NEW rest,
           \A x \in DOMAIN orders : InQueue(q, x) => x \in DOMAIN rest /\ LevelOf(rest[x]) = level
    PROVE  QueueOk(q, level, rest)
<1>1. q \in Seq(DOMAIN orders) /\ Len(q) \in Nat
  BY DEF QueueOk
<1>2. \A i \in 1 .. Len(q) : q[i] \in DOMAIN rest /\ LevelOf(rest[q[i]]) = level
  BY <1>1 DEF InQueue
<1>3. q \in Seq(DOMAIN rest)
  BY <1>1, <1>2
<1>4. QED
  BY <1>2, <1>3 DEF QueueOk

LEMMA Removing ==
    ASSUME NEW e, Book(e), NEW id \in DOMAIN e.orders
    PROVE  /\ Book(RemoveOrder(e, id)) /\ Beside(e, RemoveOrder(e, id))
           /\ RemoveOrder(e, id).orders = Without(e.orders, id)
<1>1. PICK level : level = LevelOf(e.orders[id])
  OBVIOUS
<1>2. PICK q : q = e.levels[level]
  OBVIOUS
<1>3. level \in DOMAIN e.levels /\ QueueOk(q, level, e.orders) /\ InQueue(q, id)
  BY <1>1, <1>2 DEF Book, Queued
<1>4. PICK r : r = Erase(q, id)
  OBVIOUS
<1>5. PICK f : f = RemoveOrder(e, id)
  OBVIOUS
<1>6. DOMAIN e = Fields
  BY DEF Book, Shaped
<1>7. /\ Beside(e, f) /\ f.orders = Without(e.orders, id)
      /\ f.levels = IF r = <<>> THEN Without(e.levels, level) ELSE Put(e.levels, level, r)
  BY <1>1, <1>2, <1>4, <1>5, <1>6 DEF RemoveOrder, Beside, Fields
<1>8. /\ DOMAIN f.orders = DOMAIN e.orders \ {id}
      /\ \A x \in DOMAIN f.orders : f.orders[x] = e.orders[x]
  <2>1. /\ DOMAIN Without(e.orders, id) = DOMAIN e.orders \ {id}
        /\ \A y \in DOMAIN e.orders : y # id => Without(e.orders, id)[y] = e.orders[y]
    BY WithoutIs
  <2>2. f.orders = Without(e.orders, id)
    BY <1>7
  <2>3. QED
    BY <2>1, <2>2
<1>9. Shaped(f)
  BY <1>7, <1>8 DEF Book, Shaped, Beside
<1>10. /\ r # <<>> => QueueOk(r, level, f.orders)
       /\ \A x \in DOMAIN f.orders : InQueue(q, x) => InQueue(r, x)
  <2>1. DOMAIN e.orders \subseteq Nat
    BY DEF Book, Shaped
  <2>2. QED
    BY <1>3, <1>4, <1>8, <2>1, Erased
<1>11. /\ DOMAIN f.levels = IF r = <<>> THEN DOMAIN e.levels \ {level} ELSE DOMAIN e.levels
       /\ r # <<>> => f.levels[level] = r
       /\ \A l \in DOMAIN e.levels : l # level => f.levels[l] = e.levels[l]
  <2>1. CASE r = <<>>
    <3>1. f.levels = Without(e.levels, level)
      BY <1>7, <2>1
    <3>2. /\ DOMAIN Without(e.levels, level) = DOMAIN e.levels \ {level}
          /\ \A y \in DOMAIN e.levels : y # level => Without(e.levels, level)[y] = e.levels[y]
      BY WithoutIs
    <3>3. QED
      BY <2>1, <3>1, <3>2
  <2>2. CASE r # <<>>
    <3>1. f.levels = Put(e.levels, level, r)
      BY <1>7, <2>2
    <3>2. /\ DOMAIN Put(e.levels, level, r) = DOMAIN e.levels \union {level}
          /\ Put(e.levels, level, r)[level] = r
          /\ \A y \in DOMAIN e.levels : y # level => Put(e.levels, level, r)[y] = e.levels[y]
      BY DEF Put, Upsert
    <3>3. QED
      BY <1>3, <2>2, <3>1, <3>2
  <2>3. QED
    BY <2>1, <2>2
<1>12. ASSUME NEW l \in DOMAIN f.levels
       PROVE  QueueOk(f.levels[l], l, f.orders)
  <2>1. CASE l = level
    BY <1>10, <1>11, <2>1
  <2>2. CASE l # level
    <3>1. l \in DOMAIN e.levels /\ f.levels[l] = e.levels[l] /\ QueueOk(e.levels[l], l, e.orders)
      BY <1>11, <2>2 DEF Book, Queued
    <3>2. PICK p : p = e.levels[l]
      OBVIOUS
    <3>3. ASSUME NEW x \in DOMAIN e.orders, InQueue(p, x)
          PROVE  x \in DOMAIN f.orders /\ LevelOf(f.orders[x]) = l
      <4>1. LevelOf(e.orders[x]) = l
        BY <3>1, <3>2, <3>3 DEF QueueOk, InQueue
      <4>2. QED
        BY <1>1, <1>8, <2>2, <4>1
    <3>4. QED
      BY <3>1, <3>2, <3>3, QueueKept
  <2>3. QED
    BY <2>1, <2>2
<1>13. ASSUME NEW x \in DOMAIN f.orders
       PROVE  /\ LevelOf(f.orders[x]) \in DOMAIN f.levels
              /\ InQueue(f.levels[LevelOf(f.orders[x])], x)
  <2>1. PICK l : l = LevelOf(e.orders[x])
    OBVIOUS
  <2>2. l = LevelOf(f.orders[x]) /\ l \in DOMAIN e.levels /\ InQueue(e.levels[l], x)
    BY <1>8, <2>1 DEF Book, Queued
  <2>3. CASE l = level
    <3>1. InQueue(r, x)
      BY <1>2, <1>10, <2>2, <2>3
    <3>2. r # <<>>
      BY <3>1 DEF InQueue
    <3>3. QED
      BY <1>11, <2>2, <2>3, <3>1, <3>2
  <2>4. CASE l # level
    BY <1>11, <2>2, <2>4
  <2>5. QED
    BY <2>3, <2>4
<1>14. Queued(f)
  BY <1>12, <1>13 DEF Queued
<1>15. QED
  BY <1>5, <1>7, <1>9, <1>14 DEF Book

Waiting(q, level, orders) == q = <<>> \/ QueueOk(q, level, orders)

\* `rest' holds the orders and one more, younger than any of them.
Joined(orders, id, rest) ==
    /\ id \in Nat /\ id \in DOMAIN rest
    /\ \A x \in DOMAIN orders : /\ x \in Nat /\ x < id
                               /\ x \in DOMAIN rest /\ rest[x] = orders[x]

\* The order that arrives last, with the greatest id, goes to the end of its queue.
LEMMA Appended ==
    ASSUME NEW orders, NEW level, NEW q, Waiting(q, level, orders),
           NEW id, NEW rest, Joined(orders, id, rest), LevelOf(rest[id]) = level
    PROVE  /\ QueueOk(Append(q, id), level, rest) /\ InQueue(Append(q, id), id)
           /\ \A x \in DOMAIN orders : InQueue(q, x) => InQueue(Append(q, id), x)
<1> USE DEF Joined, Waiting
<1>1. PICK n \in Nat : /\ q \in Seq(DOMAIN orders) /\ n = Len(q)
                       /\ \A i \in 1 .. n : q[i] \in DOMAIN orders
                       /\ \A i \in 1 .. n : LevelOf(orders[q[i]]) = level
                       /\ \A i, j \in 1 .. n : i < j => q[i] < q[j]
  <2>1. CASE q = <<>>
    <3>1. q \in Seq(DOMAIN orders) /\ Len(q) = 0
      BY <2>1
    <3>2. QED
      BY <3>1
  <2>2. CASE QueueOk(q, level, orders)
    <3>1. q \in Seq(DOMAIN orders) /\ Len(q) \in Nat /\ \A i \in 1 .. Len(q) : q[i] \in DOMAIN orders
      BY <2>2 DEF QueueOk
    <3>2. QED
      BY <2>2, <3>1 DEF QueueOk
  <2>3. QED
    BY <2>1, <2>2
<1>2. PICK r : r = Append(q, id)
  OBVIOUS
<1>3. q \in Seq(DOMAIN rest)
  <2>1. \A i \in 1 .. n : q[i] \in DOMAIN rest
    BY <1>1
  <2>2. QED
    BY <1>1, <2>1
<1>4. /\ r \in Seq(DOMAIN rest) /\ Len(r) = n + 1 /\ r[n + 1] = id
      /\ \A i \in 1 .. n : r[i] = q[i]
  <2>1. id \in DOMAIN rest
    OBVIOUS
  <2>2. /\ Append(q, id) \in Seq(DOMAIN rest) /\ Len(Append(q, id)) = Len(q) + 1
        /\ Append(q, id)[Len(q) + 1] = id /\ \A i \in 1 .. Len(q) : Append(q, id)[i] = q[i]
    BY <1>3, <2>1
  <2>3. QED
    BY <1>1, <1>2, <2>2
<1>5. \A i \in 1 .. n + 1 : i \in 1 .. n \/ i = n + 1
  BY <1>1
<1>6. \A i \in 1 .. n + 1 : LevelOf(rest[r[i]]) = level
  <2>1. \A i \in 1 .. n : LevelOf(rest[r[i]]) = level
    BY <1>1, <1>4
  <2>2. QED
    BY <1>4, <1>5, <2>1
<1>7. ASSUME NEW i \in 1 .. n + 1, NEW j \in 1 .. n + 1, i < j
      PROVE  r[i] < r[j]
  <2>1. i \in 1 .. n
    BY <1>1, <1>7
  <2>2. CASE j \in 1 .. n
    BY <1>1, <1>4, <1>7, <2>1, <2>2
  <2>3. CASE j = n + 1
    BY <1>1, <1>4, <2>1, <2>3
  <2>4. QED
    BY <1>5, <2>2, <2>3
<1>8. r # <<>>
  BY <1>4
<1>9. QueueOk(r, level, rest)
  BY <1>4, <1>6, <1>7, <1>8 DEF QueueOk
<1>10. InQueue(r, id)
  <2>1. n + 1 \in 1 .. n + 1
    BY <1>1
  <2>2. QED
    BY <1>4, <2>1 DEF InQueue
<1>11. \A x \in DOMAIN orders : InQueue(q, x) => InQueue(r, x)
  <2>1. \A i \in 1 .. n : i \in 1 .. n + 1 /\ r[i] = q[i]
    BY <1>1, <1>4
  <2>2. QED
    BY <1>1, <1>4, <2>1 DEF InQueue
<1>12. QED
  BY <1>2, <1>9, <1>10, <1>11

LEMMA Adding ==
    ASSUME NEW e, Book(e), NEW o, o.id \in Nat, o.id < e.next,
           \A x \in DOMAIN e.orders : x < o.id,
           o.sym \in Symbols, o.side \in Sides, o.price \in Prices, o.qty \in Nat
    PROVE  /\ Book(AddOrder(e, o))
           /\ AddOrder(e, o).next = e.next /\ AddOrder(e, o).live = e.live
           /\ AddOrder(e, o).index = e.index
           /\ AddOrder(e, o).orders = Put(e.orders, o.id,
                  [sym |-> o.sym, side |-> o.side, price |-> o.price,
                   qty |-> o.qty, arrival |-> e.arrivals[o.sym]])
<1>1. PICK level : level = LevelOf(o)
  OBVIOUS
<1>2. PICK q : q = QueueAt(e, level)
  OBVIOUS
<1>3. PICK row : row = [sym |-> o.sym, side |-> o.side, price |-> o.price,
                        qty |-> o.qty, arrival |-> e.arrivals[o.sym]]
  OBVIOUS
<1>4. PICK f : f = AddOrder(e, o)
  OBVIOUS
<1>5. DOMAIN e = Fields /\ e.arrivals \in [Symbols -> Nat] /\ DOMAIN e.orders \subseteq Nat
  BY DEF Book, Shaped
<1>6. /\ DOMAIN f = Fields /\ f.next = e.next /\ f.live = e.live /\ f.index = e.index
      /\ f.orders = Put(e.orders, o.id, row)
      /\ f.arrivals = Put(e.arrivals, o.sym, e.arrivals[o.sym] + 1)
      /\ f.levels = Put(e.levels, level, Append(q, o.id))
  BY <1>1, <1>2, <1>3, <1>4, <1>5 DEF AddOrder, Fields
<1>7. /\ DOMAIN f.orders = DOMAIN e.orders \union {o.id} /\ f.orders[o.id] = row
      /\ \A x \in DOMAIN e.orders : x # o.id /\ f.orders[x] = e.orders[x]
  <2>1. /\ DOMAIN Put(e.orders, o.id, row) = DOMAIN e.orders \union {o.id}
        /\ Put(e.orders, o.id, row)[o.id] = row
        /\ \A x \in DOMAIN e.orders : x # o.id => Put(e.orders, o.id, row)[x] = e.orders[x]
    BY DEF Put, Upsert
  <2>2. \A x \in DOMAIN e.orders : x # o.id
    BY <1>5
  <2>3. QED
    BY <1>6, <2>1, <2>2
<1>8. /\ f.arrivals \in [Symbols -> Nat] /\ f.arrivals[o.sym] = e.arrivals[o.sym] + 1
      /\ \A s \in Symbols : s # o.sym => f.arrivals[s] = e.arrivals[s]
  <2>1. e.arrivals[o.sym] \in Nat /\ e.arrivals[o.sym] + 1 \in Nat /\ DOMAIN e.arrivals = Symbols
    BY <1>5
  <2>2. f.arrivals = [s \in Symbols |-> IF s = o.sym THEN e.arrivals[o.sym] + 1 ELSE e.arrivals[s]]
    <3>1. DOMAIN e.arrivals \union {o.sym} = Symbols
      BY <2>1
    <3>2. QED
      BY <1>6, <3>1 DEF Put, Upsert
  <2>3. QED
    BY <1>5, <2>1, <2>2
<1>9. row \in Order /\ row.sym = o.sym /\ row.arrival = e.arrivals[o.sym] /\ LevelOf(row) = level
  BY <1>1, <1>3, <1>5 DEF Order, LevelOf
<1>10. \A x \in DOMAIN e.orders :
          /\ x \in Nat /\ x < e.next /\ e.orders[x] \in Order
          /\ e.orders[x].sym \in Symbols /\ e.orders[x].arrival \in Nat
          /\ e.orders[x].arrival < e.arrivals[e.orders[x].sym]
  BY DEF Book, Shaped, Order
<1>11. Shaped(f)
  <2>1. ASSUME NEW x \in DOMAIN f.orders
        PROVE  /\ x \in Nat /\ x < f.next /\ f.orders[x] \in Order
               /\ f.orders[x].arrival < f.arrivals[f.orders[x].sym]
    <3>1. CASE x = o.id
      BY <1>5, <1>6, <1>7, <1>8, <1>9, <3>1
    <3>2. CASE x \in DOMAIN e.orders
      <4>1. PICK w : w = e.orders[x]
        OBVIOUS
      <4>2. /\ f.orders[x] = w /\ w \in Order /\ w.sym \in Symbols /\ w.arrival \in Nat
            /\ w.arrival < e.arrivals[w.sym] /\ x \in Nat /\ x < f.next
        BY <1>6, <1>7, <1>10, <3>2, <4>1
      <4>3. e.arrivals[w.sym] \in Nat /\ f.arrivals[w.sym] \in Nat
            /\ e.arrivals[w.sym] <= f.arrivals[w.sym]
        BY <1>5, <1>8, <4>2
      <4>4. w.arrival < f.arrivals[w.sym]
        BY <4>2, <4>3
      <4>5. QED
        BY <4>2, <4>4
    <3>3. QED
      BY <1>7, <3>1, <3>2
  <2>2. ASSUME NEW a \in DOMAIN f.orders, NEW b \in DOMAIN f.orders,
               a < b, f.orders[a].sym = f.orders[b].sym
        PROVE  f.orders[a].arrival < f.orders[b].arrival
    <3>1. CASE a \in DOMAIN e.orders /\ b \in DOMAIN e.orders
      BY <1>7, <2>2, <3>1 DEF Book, Shaped
    <3>2. CASE a \in DOMAIN e.orders /\ b = o.id
      BY <1>7, <1>9, <1>10, <2>2, <3>2
    <3>3. CASE a = o.id
      <4>1. b = o.id \/ b < o.id
        BY <1>7
      <4>2. b \in Nat
        BY <1>7, <1>10
      <4>3. QED
        BY <2>2, <3>3, <4>1, <4>2
    <3>4. QED
      BY <1>7, <3>1, <3>2, <3>3
  <2>3. f.next \in Nat \ {0}
    BY <1>6 DEF Book, Shaped
  <2>4. QED
    BY <1>6, <1>8, <2>1, <2>2, <2>3 DEF Shaped
<1>12. /\ DOMAIN f.levels = DOMAIN e.levels \union {level} /\ f.levels[level] = Append(q, o.id)
       /\ \A l \in DOMAIN e.levels : l # level => f.levels[l] = e.levels[l]
  <2>1. /\ DOMAIN Put(e.levels, level, Append(q, o.id)) = DOMAIN e.levels \union {level}
        /\ Put(e.levels, level, Append(q, o.id))[level] = Append(q, o.id)
        /\ \A l \in DOMAIN e.levels : l # level => Put(e.levels, level, Append(q, o.id))[l] = e.levels[l]
    BY DEF Put, Upsert
  <2>2. QED
    BY <1>6, <2>1
<1>13. PICK r : r = Append(q, o.id)
  OBVIOUS
<1>14. /\ QueueOk(r, level, f.orders) /\ InQueue(r, o.id)
       /\ \A x \in DOMAIN e.orders : InQueue(q, x) => InQueue(r, x)
  <2>1. Waiting(q, level, e.orders)
    BY <1>2 DEF QueueAt, Book, Queued, Waiting
  <2>2. Joined(e.orders, o.id, f.orders) /\ LevelOf(f.orders[o.id]) = level
    BY <1>5, <1>7, <1>9 DEF Joined
  <2>3. QED
    BY <1>13, <2>1, <2>2, Appended
<1>15. ASSUME NEW l \in DOMAIN f.levels
       PROVE  QueueOk(f.levels[l], l, f.orders)
  <2>1. CASE l = level
    BY <1>12, <1>13, <1>14, <2>1
  <2>2. CASE l # level
    <3>1. PICK p : p = e.levels[l]
      OBVIOUS
    <3>2. f.levels[l] = p /\ QueueOk(p, l, e.orders)
      BY <1>12, <2>2, <3>1 DEF Book, Queued
    <3>3. ASSUME NEW x \in DOMAIN e.orders, InQueue(p, x)
          PROVE  x \in DOMAIN f.orders /\ LevelOf(f.orders[x]) = l
      <4>1. LevelOf(e.orders[x]) = l
        BY <3>2, <3>3 DEF QueueOk, InQueue
      <4>2. QED
        BY <1>7, <4>1
    <3>4. QED
      BY <3>2, <3>3, QueueKept
  <2>3. QED
    BY <2>1, <2>2
<1>16. ASSUME NEW x \in DOMAIN f.orders
       PROVE  /\ LevelOf(f.orders[x]) \in DOMAIN f.levels
              /\ InQueue(f.levels[LevelOf(f.orders[x])], x)
  <2>1. CASE x = o.id
    BY <1>7, <1>9, <1>12, <1>13, <1>14, <2>1
  <2>2. CASE x \in DOMAIN e.orders
    <3>1. PICK l : l = LevelOf(e.orders[x])
      OBVIOUS
    <3>2. l = LevelOf(f.orders[x]) /\ l \in DOMAIN e.levels /\ InQueue(e.levels[l], x)
      BY <1>7, <2>2, <3>1 DEF Book, Queued
    <3>3. CASE l = level
      <4>1. q = e.levels[l]
        BY <1>2, <3>2, <3>3 DEF QueueAt
      <4>2. InQueue(r, x)
        BY <1>14, <2>2, <3>2, <4>1
      <4>3. QED
        BY <1>12, <1>13, <3>2, <3>3, <4>2
    <3>4. CASE l # level
      BY <1>12, <3>2, <3>4
    <3>5. QED
      BY <3>3, <3>4
  <2>3. QED
    BY <1>7, <2>1, <2>2
<1>17. Queued(f)
  BY <1>15, <1>16 DEF Queued
<1>18. QED
  BY <1>3, <1>4, <1>6, <1>11, <1>17 DEF Book

-----------------------------------------------------------------------------
(***************************************************************************)
(* match().                                                                *)
(***************************************************************************)
Turning == INSTANCE FoldFacts WITH Op <- Turn

\* A fold is a run, a turn for each element.
TurnRun(v, n, b, s) ==
    /\ v[0] = b /\ v[n] = Turning!Folded(b, s)
    /\ \A k \in 0 .. n - 1 : v[k + 1] = Turn(v[k], s[k + 1])

LEMMA TurnsRun == \A n \in Nat : \A b, s : DOMAIN s = 1 .. n => \E v : TurnRun(v, n, b, s)
<1>1. \A n \in Nat : \A b, s : DOMAIN s = 1 .. n =>
         \E v : /\ v[0] = b /\ v[n] = Turning!Folded(b, s)
                /\ \A k \in 0 .. n - 1 : v[k + 1] = Turn(v[k], s[k + 1])
  BY Turning!FoldedRun, Zenon
<1>2. QED
  BY <1>1, Zenon DEF TurnRun

LEMMA Finite == ASSUME NEW S PROVE Turning!IsFiniteSet(S) <=> IsFiniteSet(S)
  BY DEF Turning!IsFiniteSet, IsFiniteSet

LEMMA GridHasEnds ==
    ASSUME NEW S \in SUBSET Prices, S # {}
    PROVE  /\ \E p \in S : \A q \in S : q <= p
           /\ \E p \in S : \A q \in S : p <= q
<1> DEFINE Ends(T) == /\ \E p \in T : \A q \in T : q <= p
                      /\ \E p \in T : \A q \in T : p <= q
           P == {T \in SUBSET Prices : T # {} => Ends(T)}
<1>1. IsFiniteSet(Prices) /\ Prices \subseteq Nat
  BY PricesAreAGrid
<1>2. {} \in P
  OBVIOUS
<1>3. ASSUME NEW T \in SUBSET Prices, NEW x \in Prices \ T, T \in P
      PROVE  T \union {x} \in P
  <2>1. CASE T = {}
    BY <1>1, <2>1
  <2>2. CASE T # {}
    <3>1. PICK a \in T, b \in T : \A q \in T : q <= a /\ b <= q
      BY <1>3, <2>2
    <3>2. \A q \in T : q \in Nat
      BY <1>1
    <3>3. x \in Nat /\ a \in Nat /\ b \in Nat
      BY <1>1
    <3>4. \E p \in T \union {x} : \A q \in T \union {x} : q <= p
      <4>1. CASE x <= a
        BY <3>1, <3>3, <4>1
      <4>2. CASE a <= x
        BY <3>1, <3>2, <3>3, <4>2
      <4>3. QED
        BY <3>3, <4>1, <4>2
    <3>5. \E p \in T \union {x} : \A q \in T \union {x} : p <= q
      <4>1. CASE b <= x
        BY <3>1, <3>3, <4>1
      <4>2. CASE x <= b
        BY <3>1, <3>2, <3>3, <4>2
      <4>3. QED
        BY <3>3, <4>1, <4>2
    <3>6. QED
      BY <3>4, <3>5
  <2>3. QED
    BY <2>1, <2>2
<1>4. SUBSET Prices \subseteq P
  <2>1. Turning!IsFiniteSet(Prices)
    BY <1>1, Finite
  <2> HIDE DEF P
  <2>2. QED
    BY <1>2, <1>3, <2>1, Turning!FiniteInduction
<1>5. QED
  BY <1>4

LEMMA Bests ==
    ASSUME NEW e, NEW sym
    PROVE  /\ Quoted(e, sym, "BUY") # {} =>
                 /\ BestBid(e, sym) \in Quoted(e, sym, "BUY")
                 /\ \A q \in Quoted(e, sym, "BUY") : q <= BestBid(e, sym)
           /\ Quoted(e, sym, "SELL") # {} =>
                 /\ BestAsk(e, sym) \in Quoted(e, sym, "SELL")
                 /\ \A q \in Quoted(e, sym, "SELL") : BestAsk(e, sym) <= q
<1>1. \A side : Quoted(e, sym, side) \in SUBSET Prices
  BY DEF Quoted
<1>2. Quoted(e, sym, "BUY") # {} =>
         \E p \in Quoted(e, sym, "BUY") : \A q \in Quoted(e, sym, "BUY") : q <= p
  BY <1>1, GridHasEnds
<1>3. Quoted(e, sym, "SELL") # {} =>
         \E p \in Quoted(e, sym, "SELL") : \A q \in Quoted(e, sym, "SELL") : p <= q
  BY <1>1, GridHasEnds
<1>4. QED
  BY <1>2, <1>3 DEF BestBid, BestAsk

\* The order at the front of a level.
LEMMA FirstOfLevel ==
    ASSUME NEW e, Book(e), NEW level, level \in DOMAIN e.levels
    PROVE  /\ Head(e.levels[level]) \in DOMAIN e.orders
           /\ LevelOf(e.orders[Head(e.levels[level])]) = level
           /\ \A x \in DOMAIN e.orders :
                 LevelOf(e.orders[x]) = level => x = Head(e.levels[level]) \/ Head(e.levels[level]) < x
<1>1. PICK q : q = e.levels[level]
  OBVIOUS
<1>2. QueueOk(q, level, e.orders)
  BY <1>1 DEF Book, Queued
<1>3. /\ q \in Seq(DOMAIN e.orders) /\ q # <<>> /\ Len(q) \in Nat /\ 1 \in 1 .. Len(q)
      /\ Head(q) = q[1]
  BY <1>2 DEF QueueOk
<1>4. q[1] \in DOMAIN e.orders /\ LevelOf(e.orders[q[1]]) = level
  BY <1>2, <1>3 DEF QueueOk
<1>5. ASSUME NEW x \in DOMAIN e.orders, LevelOf(e.orders[x]) = level
      PROVE  x = q[1] \/ q[1] < x
  <2>1. PICK i \in 1 .. Len(q) : q[i] = x
    BY <1>1, <1>5 DEF Book, Queued, InQueue
  <2>2. i = 1 \/ 1 < i
    BY <1>3
  <2>3. QED
    BY <1>2, <1>3, <2>1, <2>2 DEF QueueOk
<1>6. PICK h : h = Head(q)
  OBVIOUS
<1>7. /\ h \in DOMAIN e.orders /\ LevelOf(e.orders[h]) = level
      /\ \A x \in DOMAIN e.orders : LevelOf(e.orders[x]) = level => x = h \/ h < x
  BY <1>3, <1>4, <1>5, <1>6
<1>8. h = Head(e.levels[level])
  BY <1>1, <1>6
<1>9. QED
  BY <1>7, <1>8

\* What is left of a spent order is taken out of the book.
LEMMA Clearing ==
    ASSUME NEW h, Book(h), NEW id, id \in DOMAIN h.orders,
           NEW g, g = IF h.orders[id].qty = 0 THEN RemoveOrder(h, id) ELSE h
    PROVE  /\ Book(g) /\ Beside(h, g)
           /\ DOMAIN g.orders = {x \in DOMAIN h.orders : x = id => h.orders[x].qty > 0}
           /\ \A x \in DOMAIN g.orders : g.orders[x] = h.orders[x]
<1>1. DOMAIN h = Fields /\ h.orders[id].qty \in Nat
  BY DEF Book, Shaped, Order
<1>2. CASE h.orders[id].qty = 0
  <2>1. g = RemoveOrder(h, id)
    BY <1>2
  <2>2. Book(g) /\ Beside(h, g) /\ g.orders = Without(h.orders, id)
    BY <2>1, Removing
  <2>3. /\ DOMAIN Without(h.orders, id) = DOMAIN h.orders \ {id}
        /\ \A x \in DOMAIN h.orders : x # id => Without(h.orders, id)[x] = h.orders[x]
    BY WithoutIs
  <2>4. DOMAIN h.orders \ {id} = {x \in DOMAIN h.orders : x = id => h.orders[x].qty > 0}
    BY <1>2
  <2>5. QED
    BY <2>2, <2>3, <2>4
<1>3. CASE h.orders[id].qty # 0
  <2>1. g = h /\ h.orders[id].qty > 0
    BY <1>1, <1>3
  <2>2. DOMAIN h.orders = {x \in DOMAIN h.orders : x = id => h.orders[x].qty > 0}
    BY <2>1
  <2>3. QED
    BY <1>1, <2>1, <2>2 DEF Beside
<1>4. QED
  BY <1>2, <1>3

\* What a trade of a quantity leaves of an order.
Rest(e, fill, x) == e.orders[x].qty - IF x \in {fill.buy, fill.sell} THEN fill.qty ELSE 0

\* One turn, of two orders of the book.
Traded(e, f, fill) ==
    /\ Book(f) /\ Positive(f) /\ Beside(e, f)
    /\ DOMAIN f.orders = {x \in DOMAIN e.orders : Rest(e, fill, x) > 0}
    /\ \A x \in DOMAIN f.orders : f.orders[x] = [e.orders[x] EXCEPT !.qty = Rest(e, fill, x)]

Crosses(e, sym, fill) ==
    LET buy == e.orders[fill.buy]
        sell == e.orders[fill.sell]
    IN  /\ DOMAIN fill = {"buy", "sell", "price", "qty"}
        /\ fill.buy \in DOMAIN e.orders /\ fill.sell \in DOMAIN e.orders
        /\ buy.sym = sym /\ buy.side = "BUY" /\ sell.sym = sym /\ sell.side = "SELL"
        /\ sell.price <= buy.price
        /\ fill.price = IF fill.buy < fill.sell THEN buy.price ELSE sell.price
        /\ fill.qty \in Nat /\ fill.qty > 0
        /\ fill.qty <= buy.qty /\ fill.qty <= sell.qty
        /\ fill.qty = buy.qty \/ fill.qty = sell.qty

\* None of the orders S that are on its side stands before an order.
First(e, S, id) ==
    \A x \in S \ {id} :
        LET o == e.orders[x]
            m == e.orders[id]
        IN  o.sym = m.sym /\ o.side = m.side =>
               IF o.price = m.price THEN id < x
               ELSE IF m.side = "BUY" THEN o.price < m.price ELSE m.price < o.price

\* The front of the best level of a side.
LEMMA BestFirst ==
    ASSUME NEW e, Book(e), NEW sym, NEW side, NEW p, p \in Quoted(e, sym, side),
           side = "BUY" => \A q \in Quoted(e, sym, side) : q <= p,
           side = "SELL" => \A q \in Quoted(e, sym, side) : p <= q,
           side \in Sides,
           NEW id, id = Head(e.levels[<<sym, side, p>>])
    PROVE  /\ id \in DOMAIN e.orders /\ e.orders[id].sym = sym /\ e.orders[id].side = side
           /\ e.orders[id].price = p /\ First(e, DOMAIN e.orders, id)
<1>1. PICK level : level = <<sym, side, p>>
  OBVIOUS
<1>2. level \in DOMAIN e.levels
  BY <1>1 DEF Quoted
<1>3. /\ id \in DOMAIN e.orders /\ LevelOf(e.orders[id]) = level
      /\ \A x \in DOMAIN e.orders : LevelOf(e.orders[x]) = level => x = id \/ id < x
  BY <1>1, <1>2, FirstOfLevel
<1>4. e.orders[id].sym = sym /\ e.orders[id].side = side /\ e.orders[id].price = p
  BY <1>1, <1>3 DEF LevelOf
<1>5. ASSUME NEW x \in DOMAIN e.orders \ {id}, e.orders[x].sym = sym, e.orders[x].side = side
      PROVE  IF e.orders[x].price = p THEN id < x
             ELSE IF side = "BUY" THEN e.orders[x].price < p ELSE p < e.orders[x].price
  <2>1. PICK w : w = e.orders[x].price
    OBVIOUS
  <2>2. w \in Prices
    BY <2>1 DEF Book, Shaped, Order
  <2>3. LevelOf(e.orders[x]) = <<sym, side, w>> /\ <<sym, side, w>> \in DOMAIN e.levels
    BY <1>5, <2>1 DEF Book, Queued, LevelOf
  <2>4. w \in Quoted(e, sym, side)
    BY <2>2, <2>3 DEF Quoted
  <2>5. w \in Nat /\ p \in Nat
    BY <2>2, PricesAreAGrid DEF Quoted
  <2>6. CASE w = p
    BY <1>1, <1>3, <2>1, <2>3, <2>6
  <2>7. CASE w # p /\ side = "BUY"
    <3>1. w < p
      BY <2>4, <2>5, <2>7
    <3>2. QED
      BY <2>1, <2>7, <3>1
  <2>8. CASE w # p /\ side = "SELL"
    <3>1. p < w
      BY <2>4, <2>5, <2>8
    <3>2. QED
      BY <2>1, <2>8, <3>1
  <2>9. QED
    BY <2>6, <2>7, <2>8 DEF Sides
<1>6. First(e, DOMAIN e.orders, id)
  BY <1>4, <1>5 DEF First
<1>7. QED
  BY <1>3, <1>4, <1>6

LEMMA Trading ==
    ASSUME NEW e, Book(e), Positive(e), NEW sym, CanMatch(e, sym), NEW t, t = Trade(e, sym)
    PROVE  /\ Crosses(e, sym, t.fill) /\ Traded(e, t.eng, t.fill)
           /\ First(e, DOMAIN e.orders, t.fill.buy) /\ First(e, DOMAIN e.orders, t.fill.sell)
<1>1. PICK bb, ba : /\ bb = BestBid(e, sym) /\ ba = BestAsk(e, sym)
                    /\ bb \in Quoted(e, sym, "BUY") /\ \A q \in Quoted(e, sym, "BUY") : q <= bb
                    /\ ba \in Quoted(e, sym, "SELL") /\ \A q \in Quoted(e, sym, "SELL") : ba <= q
                    /\ ba <= bb
  <2>2. Quoted(e, sym, "BUY") # {} /\ Quoted(e, sym, "SELL") # {} /\ BestBid(e, sym) >= BestAsk(e, sym)
    BY DEF CanMatch
  <2>3. BestBid(e, sym) \in Nat /\ BestAsk(e, sym) \in Nat
    BY <2>2, Bests, PricesAreAGrid DEF Quoted
  <2>4. QED
    BY <2>2, <2>3, Bests
<1>2. PICK bid, ask : /\ bid = Head(e.levels[<<sym, "BUY", bb>>])
                      /\ ask = Head(e.levels[<<sym, "SELL", ba>>])
  OBVIOUS
<1>3. /\ bid \in DOMAIN e.orders /\ e.orders[bid].sym = sym /\ e.orders[bid].side = "BUY"
      /\ e.orders[bid].price = bb /\ First(e, DOMAIN e.orders, bid)
  BY <1>1, <1>2, BestFirst DEF Sides
<1>4. /\ ask \in DOMAIN e.orders /\ e.orders[ask].sym = sym /\ e.orders[ask].side = "SELL"
      /\ e.orders[ask].price = ba /\ First(e, DOMAIN e.orders, ask)
  BY <1>1, <1>2, BestFirst DEF Sides
<1>5. bid # ask
  BY <1>3, <1>4
<1>6. PICK maker : maker = IF e.orders[bid].arrival < e.orders[ask].arrival THEN bid ELSE ask
  OBVIOUS
<1>7. PICK qty : qty = IF e.orders[bid].qty < e.orders[ask].qty
                       THEN e.orders[bid].qty ELSE e.orders[ask].qty
  OBVIOUS
<1>8. PICK h : h = [e EXCEPT !.orders =
                      [id \in DOMAIN e.orders |->
                         IF id \in {bid, ask} THEN [e.orders[id] EXCEPT !.qty = @ - qty]
                                              ELSE e.orders[id]]]
  OBVIOUS
<1>9. PICK g : g = IF h.orders[bid].qty = 0 THEN RemoveOrder(h, bid) ELSE h
  OBVIOUS
<1>10. PICK f : f = IF g.orders[ask].qty = 0 THEN RemoveOrder(g, ask) ELSE g
  OBVIOUS
<1>11. PICK fill : fill = [buy |-> bid, sell |-> ask, price |-> e.orders[maker].price, qty |-> qty]
  OBVIOUS
<1>12. t = [eng |-> f, fill |-> fill]
  BY <1>1, <1>2, <1>6, <1>7, <1>8, <1>9, <1>10, <1>11, ZenonT(60) DEF Trade
<1>13. \A x \in DOMAIN e.orders : /\ e.orders[x] \in Order /\ e.orders[x].qty \in Nat
                                  /\ e.orders[x].qty > 0
  BY DEF Book, Shaped, Order, Positive
<1>14. /\ qty \in Nat /\ qty > 0 /\ qty <= e.orders[bid].qty /\ qty <= e.orders[ask].qty
       /\ qty = e.orders[bid].qty \/ qty = e.orders[ask].qty
  BY <1>3, <1>4, <1>7, <1>13
<1>15. maker = IF bid < ask THEN bid ELSE ask
  <2>1. bid \in Nat /\ ask \in Nat /\ e.orders[bid].arrival \in Nat /\ e.orders[ask].arrival \in Nat
    BY <1>3, <1>4 DEF Book, Shaped, Order
  <2>2. bid < ask => e.orders[bid].arrival < e.orders[ask].arrival
    BY <1>3, <1>4 DEF Book, Shaped
  <2>3. ask < bid => e.orders[ask].arrival < e.orders[bid].arrival
    BY <1>3, <1>4 DEF Book, Shaped
  <2>4. bid < ask <=> e.orders[bid].arrival < e.orders[ask].arrival
    BY <1>5, <2>1, <2>2, <2>3
  <2>5. QED
    BY <1>6, <2>4
<1>16. Crosses(e, sym, fill)
  <2>1. /\ fill.buy = bid /\ fill.sell = ask /\ fill.qty = qty
        /\ fill.price = IF bid < ask THEN bb ELSE ba
        /\ DOMAIN fill = {"buy", "sell", "price", "qty"}
    BY <1>3, <1>4, <1>11, <1>15
  <2>2. QED
    BY <1>1, <1>3, <1>4, <1>14, <2>1 DEF Crosses
<1>17. Traded(e, f, fill)
  <2>1. DOMAIN e = Fields
    BY DEF Book, Shaped
  <2>2. /\ Beside(e, h) /\ h.levels = e.levels /\ DOMAIN h.orders = DOMAIN e.orders
        /\ \A x \in DOMAIN e.orders :
              h.orders[x] = IF x \in {bid, ask} THEN [e.orders[x] EXCEPT !.qty = @ - qty]
                                                ELSE e.orders[x]
    BY <1>8, <2>1 DEF Beside, Fields
  <2>3. \A x \in DOMAIN e.orders :
           /\ Rest(e, fill, x) \in Nat
           /\ h.orders[x] = [e.orders[x] EXCEPT !.qty = Rest(e, fill, x)]
    <3> SUFFICES ASSUME NEW x \in DOMAIN e.orders
                 PROVE  /\ Rest(e, fill, x) \in Nat
                        /\ h.orders[x] = [e.orders[x] EXCEPT !.qty = Rest(e, fill, x)]
      OBVIOUS
    <3>1. fill.buy = bid /\ fill.sell = ask /\ fill.qty = qty
      BY <1>11
    <3>2. PICK o : o = e.orders[x] /\ o \in Order /\ o.qty \in Nat
      BY <1>13
    <3>3. CASE x \in {bid, ask}
      <4>1. Rest(e, fill, x) = o.qty - qty /\ h.orders[x] = [o EXCEPT !.qty = @ - qty]
        BY <2>2, <3>1, <3>2, <3>3 DEF Rest
      <4>2. o.qty - qty \in Nat
        BY <1>14, <3>2, <3>3
      <4>3. QED
        BY <3>2, <4>1, <4>2
    <3>4. CASE x \notin {bid, ask}
      <4>1. Rest(e, fill, x) = o.qty - 0 /\ h.orders[x] = o
        BY <2>2, <3>1, <3>2, <3>4 DEF Rest
      <4>2. Rest(e, fill, x) = o.qty
        BY <3>2, <4>1
      <4>3. o = [o EXCEPT !.qty = o.qty]
        BY <3>2 DEF Order
      <4>4. QED
        BY <3>2, <4>1, <4>2, <4>3
    <3>5. QED
      BY <3>3, <3>4
  <2>4. \A x \in DOMAIN e.orders :
           /\ h.orders[x] \in Order /\ LevelOf(h.orders[x]) = LevelOf(e.orders[x])
           /\ h.orders[x].sym = e.orders[x].sym /\ h.orders[x].arrival = e.orders[x].arrival
           /\ h.orders[x].qty = Rest(e, fill, x)
    BY <1>13, <2>3 DEF Order, LevelOf
  <2>5. Shaped(h)
    BY <2>2, <2>4 DEF Book, Shaped, Beside
  <2>6. Queued(h)
    <3>1. ASSUME NEW l \in DOMAIN h.levels PROVE QueueOk(h.levels[l], l, h.orders)
      <4>1. PICK q : q = e.levels[l]
        OBVIOUS
      <4>2. QueueOk(q, l, e.orders) /\ h.levels[l] = q
        BY <2>2, <4>1 DEF Book, Queued
      <4>3. \A x \in DOMAIN e.orders :
               InQueue(q, x) => x \in DOMAIN h.orders /\ LevelOf(h.orders[x]) = l
        BY <2>2, <2>4, <4>2 DEF QueueOk, InQueue
      <4>4. QED
        BY <4>2, <4>3, QueueKept
    <3>2. QED
      BY <2>2, <2>4, <3>1 DEF Book, Queued
  <2>7. Book(h)
    BY <2>5, <2>6 DEF Book
  <2>8. /\ Book(g) /\ Beside(h, g)
        /\ DOMAIN g.orders = {x \in DOMAIN h.orders : x = bid => h.orders[x].qty > 0}
        /\ \A x \in DOMAIN g.orders : g.orders[x] = h.orders[x]
    BY <1>3, <1>9, <2>2, <2>7, Clearing
  <2>9. ask \in DOMAIN g.orders
    BY <1>4, <1>5, <2>2, <2>8
  <2>10. /\ Book(f) /\ Beside(g, f)
         /\ DOMAIN f.orders = {x \in DOMAIN g.orders : x = ask => g.orders[x].qty > 0}
         /\ \A x \in DOMAIN f.orders : f.orders[x] = g.orders[x]
    BY <1>10, <2>8, <2>9, Clearing
  <2>11. Beside(e, f)
    BY <2>2, <2>8, <2>10 DEF Beside
  <2>12. \A x \in DOMAIN e.orders : x \notin {bid, ask} => Rest(e, fill, x) > 0
    <3> SUFFICES ASSUME NEW x \in DOMAIN e.orders, x \notin {bid, ask} PROVE Rest(e, fill, x) > 0
      OBVIOUS
    <3>1. Rest(e, fill, x) = e.orders[x].qty - 0
      BY <1>11 DEF Rest
    <3>2. QED
      BY <1>13, <3>1
  <2>13. \A x : x \in DOMAIN f.orders <=> x \in DOMAIN e.orders /\ Rest(e, fill, x) > 0
    BY <2>2, <2>4, <2>8, <2>10, <2>12
  <2>14. DOMAIN f.orders = {x \in DOMAIN e.orders : Rest(e, fill, x) > 0}
    BY <2>13
  <2>15. \A x \in DOMAIN f.orders : f.orders[x] = [e.orders[x] EXCEPT !.qty = Rest(e, fill, x)]
    BY <2>2, <2>3, <2>8, <2>10
  <2>16. Positive(f)
    BY <2>2, <2>4, <2>8, <2>10, <2>13 DEF Positive
  <2>17. QED
    BY <2>10, <2>11, <2>14, <2>15, <2>16 DEF Traded
<1>18. t.fill = fill /\ t.eng = f /\ fill.buy = bid /\ fill.sell = ask
  BY <1>11, <1>12
<1>19. QED
  BY <1>3, <1>4, <1>16, <1>17, <1>18

BookFill == [buy : Nat, sell : Nat, price : Nat, qty : Nat]

\* A fill of match() on the book b, of which the orders S are left.
Happened(b, sym, S, fill) ==
    LET buy == b.orders[fill.buy]
        sell == b.orders[fill.sell]
    IN  /\ fill.buy \in DOMAIN b.orders /\ fill.sell \in DOMAIN b.orders
        /\ buy.sym = sym /\ buy.side = "BUY" /\ sell.sym = sym /\ sell.side = "SELL"
        /\ sell.price <= buy.price
        /\ fill.price = IF fill.buy < fill.sell THEN buy.price ELSE sell.price
        /\ First(b, S, fill.buy) /\ First(b, S, fill.sell)

\* How far match() has gone with the book b.
Going(b, sym, m) ==
    /\ Book(m.eng) /\ Positive(m.eng) /\ Beside(b, m.eng)
    /\ m.fills \in Seq(BookFill)
    /\ \A x \in DOMAIN m.eng.orders :
          x \in DOMAIN b.orders /\ LevelOf(m.eng.orders[x]) = LevelOf(b.orders[x])
    /\ \A x \in DOMAIN b.orders \ DOMAIN m.eng.orders :
          \E i \in 1 .. Len(m.fills) : x \in {m.fills[i].buy, m.fills[i].sell}
    /\ \A i \in 1 .. Len(m.fills) : Happened(b, sym, DOMAIN m.eng.orders, m.fills[i])

\* The same levels and fewer orders.
LEMMA FirstOfFewer ==
    ASSUME NEW b, NEW e, NEW S, S \subseteq DOMAIN e.orders,
           \A x \in DOMAIN e.orders :
               x \in DOMAIN b.orders /\ LevelOf(e.orders[x]) = LevelOf(b.orders[x]),
           NEW id, id \in DOMAIN e.orders, First(e, DOMAIN e.orders, id)
    PROVE  First(b, S, id)
<1>1. \A x \in DOMAIN e.orders :
         /\ e.orders[x].sym = b.orders[x].sym /\ e.orders[x].side = b.orders[x].side
         /\ e.orders[x].price = b.orders[x].price
  BY DEF LevelOf
<1>2. QED
  BY <1>1 DEF First

LEMMA TurnGoes ==
    ASSUME NEW b, NEW sym, NEW m, Going(b, sym, m), CanMatch(m.eng, sym)
    PROVE  /\ Going(b, sym, Turn(m, sym))
           /\ \E fill : /\ Turn(m, sym).fills = Append(m.fills, fill)
                        /\ Crosses(m.eng, sym, fill)
                        /\ Traded(m.eng, Turn(m, sym).eng, fill)
<1>1. PICK e : e = m.eng
  OBVIOUS
<1>2. PICK t : t = Trade(e, sym)
  OBVIOUS
<1>3. PICK fill, f : fill = t.fill /\ f = t.eng
  OBVIOUS
<1>4. PICK w : w = Turn(m, sym)
  OBVIOUS
<1>5. w = [eng |-> f, fills |-> Append(m.fills, fill)]
  BY <1>1, <1>2, <1>3, <1>4 DEF Turn
<1>6. /\ Book(e) /\ Positive(e) /\ Beside(b, e) /\ m.fills \in Seq(BookFill)
      /\ \A x \in DOMAIN e.orders :
            x \in DOMAIN b.orders /\ LevelOf(e.orders[x]) = LevelOf(b.orders[x])
  BY <1>1 DEF Going
<1>7. /\ Crosses(e, sym, fill) /\ Traded(e, f, fill)
      /\ First(e, DOMAIN e.orders, fill.buy) /\ First(e, DOMAIN e.orders, fill.sell)
  <2>1. CanMatch(e, sym)
    BY <1>1
  <2>2. /\ Crosses(e, sym, t.fill) /\ Traded(e, t.eng, t.fill)
        /\ First(e, DOMAIN e.orders, t.fill.buy) /\ First(e, DOMAIN e.orders, t.fill.sell)
    BY <1>2, <1>6, <2>1, Trading
  <2>3. QED
    BY <1>3, <2>2
<1>8. /\ fill.buy \in DOMAIN e.orders /\ fill.sell \in DOMAIN e.orders
      /\ Book(f) /\ Positive(f) /\ Beside(e, f)
      /\ DOMAIN f.orders = {x \in DOMAIN e.orders : Rest(e, fill, x) > 0}
      /\ \A x \in DOMAIN f.orders : f.orders[x] = [e.orders[x] EXCEPT !.qty = Rest(e, fill, x)]
  BY <1>7 DEF Crosses, Traded
<1>9. fill \in BookFill
  <2>1. fill.buy \in Nat /\ fill.sell \in Nat
    BY <1>6, <1>8 DEF Book, Shaped
  <2>2. fill.price \in Nat
    <3>1. e.orders[fill.buy].price \in Nat /\ e.orders[fill.sell].price \in Nat
      BY <1>6, <1>8, PricesAreAGrid DEF Book, Shaped, Order
    <3>2. QED
      BY <1>7, <3>1 DEF Crosses
  <2>3. /\ fill.qty \in Nat /\ DOMAIN fill = {"buy", "sell", "price", "qty"}
    BY <1>7 DEF Crosses
  <2>4. fill = [buy |-> fill.buy, sell |-> fill.sell, price |-> fill.price, qty |-> fill.qty]
    BY <1>2, <1>3, ZenonT(60) DEF Trade
  <2>5. QED
    BY <2>1, <2>2, <2>3, <2>4 DEF BookFill
<1>10. PICK fs : fs = Append(m.fills, fill)
  OBVIOUS
<1>11. PICK n \in Nat : n = Len(m.fills)
  BY <1>6
<1>12. /\ fs \in Seq(BookFill) /\ Len(fs) = n + 1 /\ fs[n + 1] = fill
       /\ \A i \in 1 .. n : fs[i] = m.fills[i]
  BY <1>6, <1>9, <1>10, <1>11
<1>13. w.eng = f /\ w.fills = fs
  BY <1>5, <1>10
<1>14. \A x \in DOMAIN f.orders : /\ x \in DOMAIN e.orders /\ x \in DOMAIN b.orders
                                  /\ LevelOf(f.orders[x]) = LevelOf(b.orders[x])
  <2>1. \A x \in DOMAIN e.orders : e.orders[x] \in Order
    BY <1>6 DEF Book, Shaped
  <2>2. \A x \in DOMAIN f.orders : x \in DOMAIN e.orders /\ LevelOf(f.orders[x]) = LevelOf(e.orders[x])
    BY <1>8, <2>1 DEF LevelOf, Order
  <2>3. QED
    BY <1>6, <2>2
<1>15. ASSUME NEW x \in DOMAIN b.orders \ DOMAIN f.orders
       PROVE  \E i \in 1 .. Len(fs) : x \in {fs[i].buy, fs[i].sell}
  <2>1. CASE x \in DOMAIN e.orders
    <3>1. ~(Rest(e, fill, x) > 0)
      BY <1>8, <1>15, <2>1
    <3>2. ASSUME x \notin {fill.buy, fill.sell} PROVE FALSE
      <4>1. Rest(e, fill, x) = e.orders[x].qty - 0
        BY <3>2 DEF Rest
      <4>2. e.orders[x].qty \in Nat /\ e.orders[x].qty > 0
        BY <1>6, <2>1 DEF Book, Shaped, Order, Positive
      <4>3. QED
        BY <3>1, <4>1, <4>2
    <3>3. n + 1 \in 1 .. Len(fs) /\ x \in {fs[n + 1].buy, fs[n + 1].sell}
      BY <1>12, <3>2
    <3>4. QED
      BY <3>3
  <2>2. CASE x \notin DOMAIN e.orders
    <3>1. PICK i \in 1 .. n : x \in {m.fills[i].buy, m.fills[i].sell}
      BY <1>1, <1>11, <1>15, <2>2 DEF Going
    <3>2. i \in 1 .. Len(fs) /\ fs[i] = m.fills[i]
      BY <1>12
    <3>3. QED
      BY <3>1, <3>2
  <2>3. QED
    BY <2>1, <2>2
<1>16. ASSUME NEW i \in 1 .. Len(fs)
       PROVE  Happened(b, sym, DOMAIN f.orders, fs[i])
  <2>1. DOMAIN f.orders \subseteq DOMAIN e.orders
    BY <1>8
  <2>2. CASE i = n + 1
    <3>1. fs[i] = fill
      BY <1>12, <2>2
    <3>2. First(b, DOMAIN f.orders, fill.buy) /\ First(b, DOMAIN f.orders, fill.sell)
      BY <1>6, <1>7, <1>8, <2>1, FirstOfFewer
    <3>3. \A x \in DOMAIN e.orders :
             /\ e.orders[x].sym = b.orders[x].sym /\ e.orders[x].side = b.orders[x].side
             /\ e.orders[x].price = b.orders[x].price
      BY <1>6 DEF LevelOf
    <3>4. Happened(b, sym, DOMAIN f.orders, fill)
      BY <1>6, <1>7, <1>8, <3>2, <3>3 DEF Happened, Crosses
    <3>5. QED
      BY <3>1, <3>4
  <2>3. CASE i # n + 1
    <3>1. i \in 1 .. n /\ fs[i] = m.fills[i]
      BY <1>12, <2>3
    <3>2. Happened(b, sym, DOMAIN e.orders, fs[i])
      BY <1>1, <1>11, <3>1 DEF Going
    <3>3. QED
      BY <2>1, <3>2 DEF Happened, First
  <2>4. QED
    BY <2>2, <2>3
<1>17. Beside(b, f)
  BY <1>6, <1>8 DEF Beside
<1>18. Going(b, sym, w)
  BY <1>8, <1>12, <1>13, <1>14, <1>15, <1>16, <1>17 DEF Going
<1>19. QED
  BY <1>1, <1>4, <1>7, <1>10, <1>13, <1>18

Tracking == INSTANCE FoldFacts WITH Op <- Track

\* A consumer of the events follows a trade.
LEMMA TrackedFill ==
    ASSUME NEW e, NEW f, NEW sym, NEW fill, Book(e), Crosses(e, sym, fill), Traded(e, f, fill),
           NEW rec, rec.kind = "Fill", rec.qty = fill.qty,
           \/ rec.maker = fill.buy /\ rec.taker = fill.sell
           \/ rec.maker = fill.sell /\ rec.taker = fill.buy
    PROVE  Track(Quantities(e), rec) = Quantities(f)
<1>1. PICK open : open = Quantities(e)
  OBVIOUS
<1>2. PICK a, b, q : a = rec.maker /\ b = rec.taker /\ q = rec.qty
  OBVIOUS
<1>3. /\ a \in DOMAIN open /\ b \in DOMAIN open /\ a # b /\ {a, b} = {fill.buy, fill.sell}
      /\ q = fill.qty /\ DOMAIN open = DOMAIN e.orders
  BY <1>1, <1>2 DEF Crosses, Quantities
<1>4. PICK cut : cut = [open EXCEPT ![a] = @ - q, ![b] = @ - q]
  OBVIOUS
<1>5. Track(open, rec) = [x \in {y \in DOMAIN cut : cut[y] > 0} |-> cut[x]]
  BY <1>2, <1>4 DEF Track, Restrict
<1>6. \A x \in DOMAIN e.orders : cut[x] = Rest(e, fill, x)
  <2> SUFFICES ASSUME NEW x \in DOMAIN e.orders PROVE cut[x] = Rest(e, fill, x)
    OBVIOUS
  <2>1. open[x] = e.orders[x].qty /\ open[x] \in Nat
    BY <1>1 DEF Quantities, Book, Shaped, Order
  <2>2. CASE x \in {a, b}
    <3>1. cut[x] = open[x] - q
      BY <1>3, <1>4, <2>2
    <3>2. Rest(e, fill, x) = open[x] - q
      BY <1>3, <2>1, <2>2 DEF Rest
    <3>3. QED
      BY <3>1, <3>2
  <2>3. CASE x \notin {a, b}
    <3>1. cut[x] = open[x]
      BY <1>3, <1>4, <2>3
    <3>2. Rest(e, fill, x) = open[x] - 0
      BY <1>3, <2>1, <2>3 DEF Rest
    <3>3. QED
      BY <2>1, <3>1, <3>2
  <2>4. QED
    BY <2>2, <2>3
<1>7. DOMAIN cut = DOMAIN e.orders
  BY <1>3, <1>4
<1>8. {y \in DOMAIN cut : cut[y] > 0} = DOMAIN f.orders
  BY <1>6, <1>7 DEF Traded
<1>9. \A x \in DOMAIN f.orders : cut[x] = f.orders[x].qty
  <2>1. \A x \in DOMAIN f.orders : /\ x \in DOMAIN e.orders /\ e.orders[x] \in Order
                                   /\ f.orders[x] = [e.orders[x] EXCEPT !.qty = Rest(e, fill, x)]
    BY DEF Traded, Book, Shaped
  <2>2. \A x \in DOMAIN f.orders : f.orders[x].qty = Rest(e, fill, x)
    BY <2>1 DEF Order
  <2>3. QED
    BY <1>6, <2>1, <2>2
<1>10. QED
  BY <1>1, <1>5, <1>8, <1>9 DEF Quantities

Records(live, id, r, fills) == [i \in 1 .. Len(fills) |-> FillRecord(live, id, r, fills[i])]

Tracked(b, live, id, r, m) ==
    Tracking!Folded(Quantities(b), Records(live, id, r, m.fills)) = Quantities(m.eng)

LEMMA TurnTracked ==
    ASSUME NEW b, NEW sym, NEW m, Going(b, sym, m), CanMatch(m.eng, sym),
           NEW live, \A x \in DOMAIN b.orders : live[x].id = x, NEW id, NEW r,
           Tracked(b, live, id, r, m)
    PROVE  Tracked(b, live, id, r, Turn(m, sym))
<1>1. PICK w, e, f : w = Turn(m, sym) /\ e = m.eng /\ f = w.eng
  OBVIOUS
<1>2. PICK fill : /\ w.fills = Append(m.fills, fill)
                  /\ Crosses(e, sym, fill) /\ Traded(e, f, fill)
  BY <1>1, TurnGoes
<1>3. Going(b, sym, w)
  BY <1>1, TurnGoes
<1>4. PICK n \in Nat : n = Len(m.fills)
  BY DEF Going
<1>5. m.fills \in Seq(BookFill) /\ w.fills \in Seq(BookFill)
  BY <1>3 DEF Going
<1>6. /\ Len(w.fills) = n + 1 /\ w.fills[n + 1] = fill /\ \A i \in 1 .. n : w.fills[i] = m.fills[i]
  <2>1. /\ Len(Append(m.fills, fill)) = Len(m.fills) + 1 /\ Append(m.fills, fill)[Len(m.fills) + 1] = fill
        /\ \A i \in 1 .. Len(m.fills) : Append(m.fills, fill)[i] = m.fills[i]
    BY <1>5
  <2>2. QED
    BY <1>2, <1>4, <2>1
<1>7. PICK s, t : s = Records(live, id, r, w.fills) /\ t = Records(live, id, r, m.fills)
  OBVIOUS
<1>8. /\ DOMAIN s = 1 .. n + 1 /\ DOMAIN t = 1 .. n /\ Tracking!Agree(t, s, n)
      /\ s[n + 1] = FillRecord(live, id, r, fill)
  <2>1. DOMAIN s = 1 .. n + 1 /\ DOMAIN t = 1 .. n
    BY <1>4, <1>6, <1>7 DEF Records
  <2>2. \A i \in 1 .. n : t[i] = s[i]
    <3>1. \A i \in 1 .. n : i \in 1 .. n + 1
      BY <1>4
    <3>2. QED
      BY <1>4, <1>6, <1>7, <3>1 DEF Records
  <2>3. n + 1 \in 1 .. n + 1
    BY <1>4
  <2>4. s[n + 1] = FillRecord(live, id, r, fill)
    BY <1>6, <1>7, <2>3 DEF Records
  <2>5. QED
    BY <2>1, <2>2, <2>4 DEF Tracking!Agree
<1>9. PICK rec : rec = FillRecord(live, id, r, fill)
  OBVIOUS
<1>10. /\ rec.kind = "Fill" /\ rec.qty = fill.qty
       /\ \/ rec.maker = fill.buy /\ rec.taker = fill.sell
          \/ rec.maker = fill.sell /\ rec.taker = fill.buy
  <2>1. live[fill.buy].id = fill.buy /\ live[fill.sell].id = fill.sell
    BY <1>1, <1>2 DEF Crosses, Going
  <2>2. QED
    BY <1>9, <2>1 DEF FillRecord, Fill
<1>11. Track(Quantities(e), rec) = Quantities(f)
  <2>1. Book(e)
    BY <1>1 DEF Going
  <2>2. QED
    BY <1>2, <1>10, <2>1, TrackedFill
<1>12. PICK q : q = Quantities(b)
  OBVIOUS
<1>13. Tracking!Folded(q, s) = Track(Tracking!Folded(q, t), s[n + 1])
  BY <1>8, Tracking!FoldedLast
<1>14. Tracking!Folded(q, t) = Quantities(e)
  BY <1>1, <1>7, <1>12 DEF Tracked
<1>15. Tracking!Folded(q, s) = Quantities(f)
  BY <1>8, <1>9, <1>11, <1>13, <1>14
<1>16. QED
  BY <1>1, <1>7, <1>12, <1>15 DEF Tracked

LEMMA FewOrders ==
    ASSUME NEW e, Book(e)
    PROVE  IsFiniteSet(DOMAIN e.orders) /\ Cardinality(DOMAIN e.orders) \in Nat
<1>1. PICK S, n : S = DOMAIN e.orders /\ n = e.next
  OBVIOUS
<1>2. S \in SUBSET Nat /\ n \in Nat /\ \A s \in S : s <= n
  BY <1>1 DEF Book, Shaped
<1>3. IsFiniteSet(S)
  BY <1>2, FS_BoundedSetOfNaturals
<1>4. Cardinality(S) \in Nat
  BY <1>3, FS_CardinalityType
<1>5. QED
  BY <1>1, <1>3, <1>4

\* A trade takes at least one order out of the book.
LEMMA FewerOrders ==
    ASSUME NEW e, NEW f, NEW sym, NEW fill, Book(e), Crosses(e, sym, fill), Traded(e, f, fill)
    PROVE  Cardinality(DOMAIN f.orders) < Cardinality(DOMAIN e.orders)
<1>1. PICK S, T : S = DOMAIN e.orders /\ T = DOMAIN f.orders
  OBVIOUS
<1>2. T \in SUBSET S
  BY <1>1 DEF Traded
<1>3. T # S
  <2>1. \A x \in {fill.buy, fill.sell} : Rest(e, fill, x) = e.orders[x].qty - fill.qty
    BY DEF Rest
  <2>2. Rest(e, fill, fill.buy) = 0 \/ Rest(e, fill, fill.sell) = 0
    <3>1. fill.qty \in Nat /\ (fill.qty = e.orders[fill.buy].qty \/ fill.qty = e.orders[fill.sell].qty)
      BY DEF Crosses
    <3>2. QED
      BY <2>1, <3>1
  <2>3. fill.buy \in S /\ fill.sell \in S
    BY <1>1 DEF Crosses
  <2>4. fill.buy \notin T \/ fill.sell \notin T
    BY <1>1, <2>2 DEF Traded
  <2>5. QED
    BY <2>3, <2>4
<1>4. IsFiniteSet(S) /\ Cardinality(S) \in Nat
  BY <1>1, FewOrders
<1>5. IsFiniteSet(T) /\ Cardinality(T) <= Cardinality(S) /\ (Cardinality(S) = Cardinality(T) => S = T)
  BY <1>2, <1>4, FS_Subset
<1>6. Cardinality(T) \in Nat
  BY <1>5, FS_CardinalityType
<1>7. Cardinality(T) < Cardinality(S)
  BY <1>3, <1>4, <1>5, <1>6
<1>8. QED
  BY <1>1, <1>7

LEMMA CanMatchNeedsOrders ==
    ASSUME NEW e, Book(e), NEW sym, CanMatch(e, sym)
    PROVE  DOMAIN e.orders # {}
<1>1. PICK p : p \in Quoted(e, sym, "BUY")
  BY DEF CanMatch
<1>2. PICK level : level = <<sym, "BUY", p>> /\ level \in DOMAIN e.levels
  BY <1>1 DEF Quoted
<1>3. Head(e.levels[level]) \in DOMAIN e.orders
  BY <1>2, FirstOfLevel
<1>4. QED
  BY <1>3

\* The loop of match() ends, and with the book no longer crossed.
LEMMA Matched ==
    ASSUME NEW b, Book(b), Positive(b), NEW sym, NEW m, m = Match(b, sym),
           NEW live, \A x \in DOMAIN b.orders : live[x].id = x, NEW id, NEW r
    PROVE  Going(b, sym, m) /\ ~CanMatch(m.eng, sym) /\ Tracked(b, live, id, r, m)
<1>1. PICK n \in Nat : n = Cardinality(DOMAIN b.orders)
  BY FewOrders
<1>2. PICK start : start = [eng |-> b, fills |-> <<>>]
  OBVIOUS
<1>3. PICK s : s = [i \in 1 .. n |-> sym]
  OBVIOUS
<1>4. m = FoldLeft(Turn, start, s)
  BY <1>1, <1>2, <1>3 DEF Match
<1>5. FoldLeft(Turn, start, s) = Turning!Folded(start, s)
  BY SMTT(60) DEF FoldLeft, MapThenFoldSet, Turning!Folded, Turning!Folds, Turning!Max, Max
<1>6. PICK v : /\ v[0] = start /\ v[n] = m
               /\ \A k \in 0 .. n - 1 : v[k + 1] = Turn(v[k], s[k + 1])
  <2>1. n \in Nat /\ DOMAIN s = 1 .. n
    BY <1>3
  <2>2. \E v : TurnRun(v, n, start, s)
    BY ONLY <2>1, TurnsRun
  <2>3. m = Turning!Folded(start, s)
    BY <1>4, <1>5
  <2>4. QED
    BY <2>2, <2>3 DEF TurnRun
<1>7. \A k \in 0 .. n - 1 : v[k + 1] = Turn(v[k], sym)
  <2>1. \A k \in 0 .. n - 1 : s[k + 1] = sym
    BY <1>3
  <2>2. QED
    BY <1>6, <2>1
<1> DEFINE Good(w, k) == /\ Going(b, sym, w) /\ Tracked(b, live, id, r, w)
                         /\ CanMatch(w.eng, sym) => Cardinality(DOMAIN w.eng.orders) + k <= n
           P == {k \in 0 .. n : Good(v[k], k)}
<1>8. 0 \in P
  <2>1. start.eng = b /\ start.fills = <<>>
    BY <1>2
  <2>2. Beside(b, b)
    BY DEF Beside, Book, Shaped
  <2>3. start.fills \in Seq(BookFill) /\ Len(start.fills) = 0
    BY <2>1
  <2>4. Going(b, sym, start)
    BY <2>1, <2>2, <2>3 DEF Going
  <2>5. DOMAIN Records(live, id, r, start.fills) = {}
    BY <2>3 DEF Records
  <2>6. Tracked(b, live, id, r, start)
    BY <2>1, <2>5, Tracking!FoldedEmpty DEF Tracked
  <2>7. Cardinality(DOMAIN start.eng.orders) + 0 <= n
    BY <1>1, <2>1
  <2>8. QED
    BY <1>6, <2>4, <2>6, <2>7
<1>9. ASSUME NEW k \in 0 .. n - 1, k \in P PROVE k + 1 \in P
  <2>1. PICK w, x : w = v[k] /\ x = v[k + 1] /\ x = Turn(w, sym)
    BY <1>7
  <2>2. Going(b, sym, w) /\ Tracked(b, live, id, r, w)
    BY <1>9, <2>1
  <2>3. CASE CanMatch(w.eng, sym)
    <3>1. PICK fill : Crosses(w.eng, sym, fill) /\ Traded(w.eng, x.eng, fill)
      BY <2>1, <2>2, <2>3, TurnGoes
    <3>2. Going(b, sym, x)
      BY <2>1, <2>2, <2>3, TurnGoes
    <3>3. Tracked(b, live, id, r, x)
      BY <2>1, <2>2, <2>3, TurnTracked
    <3>4. PICK c, d : c = Cardinality(DOMAIN w.eng.orders) /\ d = Cardinality(DOMAIN x.eng.orders)
      OBVIOUS
    <3>5. c \in Nat /\ d \in Nat
      BY <2>2, <3>2, <3>4, FewOrders DEF Going
    <3>6. d < c
      BY <2>2, <3>1, <3>4, FewerOrders DEF Going
    <3>7. c + k <= n
      BY <1>9, <2>1, <2>3, <3>4
    <3>8. d + (k + 1) <= n
      BY <3>5, <3>6, <3>7
    <3>9. Good(x, k + 1)
      BY <3>2, <3>3, <3>4, <3>8
    <3> HIDE DEF Good
    <3>10. k + 1 \in 0 .. n /\ Good(v[k + 1], k + 1)
      BY <2>1, <3>9
    <3>11. QED
      BY <3>10
  <2>4. CASE ~CanMatch(w.eng, sym)
    <3>1. x = w
      BY <2>1, <2>4 DEF Turn
    <3>2. Good(x, k + 1)
      BY <2>2, <2>4, <3>1
    <3> HIDE DEF Good
    <3>3. k + 1 \in 0 .. n /\ Good(v[k + 1], k + 1)
      BY <2>1, <3>2
    <3>4. QED
      BY <3>3
  <2>5. QED
    BY <2>3, <2>4
<1>10. 0 .. n \subseteq P
  <2> HIDE DEF P
  <2>1. QED
    BY <1>8, <1>9, Turning!UpTo
<1>11. Good(m, n)
  BY <1>6, <1>10
<1>12. ~CanMatch(m.eng, sym)
  <2>1. SUFFICES ASSUME CanMatch(m.eng, sym) PROVE FALSE
    OBVIOUS
  <2>2. Book(m.eng) /\ Cardinality(DOMAIN m.eng.orders) + n <= n
    BY <1>11, <2>1 DEF Going
  <2>3. PICK S : S = DOMAIN m.eng.orders
    OBVIOUS
  <2>4. IsFiniteSet(S) /\ Cardinality(S) \in Nat /\ S # {}
    BY <2>1, <2>2, <2>3, FewOrders, CanMatchNeedsOrders
  <2>5. Cardinality(S) = 0
    BY <2>2, <2>3, <2>4
  <2>6. QED
    BY <2>4, <2>5, FS_EmptySet
<1>13. QED
  BY <1>11, <1>12

-----------------------------------------------------------------------------
(***************************************************************************)
(* The live orders and the client index.                                   *)
(***************************************************************************)
Settling == INSTANCE FoldFacts WITH Op <- ForgetSpent

SettlingRun(v, n, b, s) ==
    /\ v[0] = b /\ v[n] = Settling!Folded(b, s)
    /\ \A k \in 0 .. n - 1 : v[k + 1] = ForgetSpent(v[k], s[k + 1])

LEMMA SettlingRuns == \A n \in Nat : \A b, s : DOMAIN s = 1 .. n => \E v : SettlingRun(v, n, b, s)
<1>1. \A n \in Nat : \A b, s : DOMAIN s = 1 .. n =>
         \E v : /\ v[0] = b /\ v[n] = Settling!Folded(b, s)
                /\ \A k \in 0 .. n - 1 : v[k + 1] = ForgetSpent(v[k], s[k + 1])
  BY Settling!FoldedRun, Zenon
<1>2. QED
  BY <1>1, Zenon DEF SettlingRun

\* Live orders that left the book were forgotten, and nothing else.
Settled(c, e) ==
    /\ DOMAIN e = Fields /\ e.next = c.next /\ e.orders = c.orders
    /\ e.arrivals = c.arrivals /\ e.levels = c.levels
    /\ DOMAIN e.live \subseteq DOMAIN c.live
    /\ DOMAIN c.live \intersect DOMAIN c.orders \subseteq DOMAIN e.live
    /\ \A x \in DOMAIN e.live : e.live[x] = c.live[x]
    /\ Indexed(c) => Indexed(e) /\ (Reached(c) => Reached(e))

LEMMA SettledTwice ==
    ASSUME NEW c, NEW d, NEW e, Settled(c, d), Settled(d, e)
    PROVE  Settled(c, e)
<1>1. DOMAIN c.live \intersect DOMAIN c.orders \subseteq DOMAIN e.live
  BY DEF Settled
<1>2. \A x \in DOMAIN e.live : e.live[x] = c.live[x]
  BY DEF Settled
<1>3. Indexed(c) => Indexed(e) /\ (Reached(c) => Reached(e))
  BY DEF Settled
<1>4. QED
  BY <1>1, <1>2, <1>3 DEF Settled

LEMMA Forgetting ==
    ASSUME NEW e, DOMAIN e = Fields, Indexed(e), NEW id, id \in DOMAIN e.live,
           NEW g, g = Forget(e, id)
    PROVE  /\ DOMAIN g = Fields /\ g.next = e.next /\ g.orders = e.orders
           /\ g.arrivals = e.arrivals /\ g.levels = e.levels
           /\ DOMAIN g.live = DOMAIN e.live \ {id} /\ \A x \in DOMAIN g.live : g.live[x] = e.live[x]
           /\ Indexed(g) /\ (Reached(e) => Reached(g))
<1>1. PICK key : key = KeyOf(e.live[id])
  OBVIOUS
<1>2. /\ DOMAIN g = Fields /\ g.next = e.next /\ g.orders = e.orders
      /\ g.arrivals = e.arrivals /\ g.levels = e.levels
      /\ g.live = Without(e.live, id) /\ g.index = Without(e.index, key)
  BY <1>1 DEF Forget, Fields
<1>3. /\ DOMAIN g.live = DOMAIN e.live \ {id}
      /\ \A x \in DOMAIN g.live : g.live[x] = e.live[x]
  <2>1. /\ DOMAIN Without(e.live, id) = DOMAIN e.live \ {id}
        /\ \A x \in DOMAIN e.live : x # id => Without(e.live, id)[x] = e.live[x]
    BY WithoutIs
  <2>2. QED
    BY <1>2, <2>1
<1>4. /\ DOMAIN g.index = DOMAIN e.index \ {key}
      /\ \A k \in DOMAIN g.index : g.index[k] = e.index[k]
  <2>1. /\ DOMAIN Without(e.index, key) = DOMAIN e.index \ {key}
        /\ \A x \in DOMAIN e.index : x # key => Without(e.index, key)[x] = e.index[x]
    BY WithoutIs
  <2>2. QED
    BY <1>2, <2>1
<1>5. ASSUME NEW k \in DOMAIN g.index
      PROVE  g.index[k] \in DOMAIN g.live /\ KeyOf(g.live[g.index[k]]) = k
  <2>1. PICK x : x = g.index[k]
    OBVIOUS
  <2>2. x \in DOMAIN e.live /\ KeyOf(e.live[x]) = k /\ k # key
    BY <1>4, <1>5, <2>1 DEF Indexed
  <2>3. x # id
    BY <1>1, <2>2
  <2>4. QED
    BY <1>3, <2>1, <2>2, <2>3
<1>6. ASSUME Reached(e), NEW x \in DOMAIN g.live
      PROVE  IndexReaches(g, x)
  <2>1. PICK k : k = KeyOf(e.live[x])
    OBVIOUS
  <2>2. x \in DOMAIN e.live /\ x # id /\ g.live[x] = e.live[x]
    BY <1>3
  <2>3. k \in DOMAIN e.index /\ e.index[k] = x
    BY <1>6, <2>1, <2>2 DEF Reached, IndexReaches
  <2>4. key \in DOMAIN e.index /\ e.index[key] = id
    BY <1>1, <1>6 DEF Reached, IndexReaches
  <2>5. k # key
    BY <2>2, <2>3, <2>4
  <2>6. QED
    BY <1>4, <2>1, <2>2, <2>3, <2>5 DEF IndexReaches
<1>7. QED
  BY <1>2, <1>3, <1>5, <1>6 DEF Indexed, Reached

LEMMA ForgetIfFilledSettles ==
    ASSUME NEW e, DOMAIN e = Fields, Indexed(e), NEW id, NEW g, g = ForgetIfFilled(e, id)
    PROVE  Settled(e, g) /\ (id \in DOMAIN g.live => id \in DOMAIN g.orders)
<1>1. CASE id \in DOMAIN e.orders \/ id \notin DOMAIN e.live
  BY <1>1 DEF ForgetIfFilled, Settled
<1>2. CASE id \notin DOMAIN e.orders /\ id \in DOMAIN e.live
  <2>1. g = Forget(e, id)
    BY <1>2 DEF ForgetIfFilled
  <2>2. /\ DOMAIN g = Fields /\ g.next = e.next /\ g.orders = e.orders
        /\ g.arrivals = e.arrivals /\ g.levels = e.levels
        /\ DOMAIN g.live = DOMAIN e.live \ {id} /\ \A x \in DOMAIN g.live : g.live[x] = e.live[x]
        /\ Indexed(g) /\ (Reached(e) => Reached(g))
    BY <1>2, <2>1, Forgetting
  <2>3. DOMAIN e.live \intersect DOMAIN e.orders \subseteq DOMAIN g.live
    BY <1>2, <2>2
  <2>4. QED
    BY <2>2, <2>3 DEF Settled
<1>3. QED
  BY <1>1, <1>2

LEMMA ForgetSpentSettles ==
    ASSUME NEW e, DOMAIN e = Fields, Indexed(e), NEW fill, NEW g, g = ForgetSpent(e, fill)
    PROVE  Settled(e, g) /\ Indexed(g)
           /\ \A x \in {fill.buy, fill.sell} : x \in DOMAIN g.live => x \in DOMAIN g.orders
<1>1. PICK f : f = ForgetIfFilled(e, fill.buy)
  OBVIOUS
<1>2. g = ForgetIfFilled(f, fill.sell)
  BY <1>1 DEF ForgetSpent
<1>3. Settled(e, f) /\ (fill.buy \in DOMAIN f.live => fill.buy \in DOMAIN f.orders)
  BY <1>1, ForgetIfFilledSettles
<1>4. DOMAIN f = Fields /\ Indexed(f)
  BY <1>3 DEF Settled
<1>5. Settled(f, g) /\ (fill.sell \in DOMAIN g.live => fill.sell \in DOMAIN g.orders)
  BY <1>2, <1>4, ForgetIfFilledSettles
<1>6. Settled(e, g)
  BY <1>3, <1>5, SettledTwice
<1>7. Indexed(g) /\ (fill.buy \in DOMAIN g.live => fill.buy \in DOMAIN g.orders)
  BY <1>3, <1>4, <1>5 DEF Settled
<1>8. QED
  BY <1>5, <1>6, <1>7

\* After the orders of all fills were looked at, what is live is in the book.
LEMMA AllSettled ==
    ASSUME NEW e, DOMAIN e = Fields, Indexed(e), NEW fills \in Seq(BookFill),
           \A x \in DOMAIN e.live \ DOMAIN e.orders :
              \E i \in 1 .. Len(fills) : x \in {fills[i].buy, fills[i].sell},
           NEW g, g = Settle(e, fills)
    PROVE  Settled(e, g) /\ Indexed(g) /\ DOMAIN g.live \subseteq DOMAIN g.orders
<1>1. PICK n \in Nat : n = Len(fills) /\ DOMAIN fills = 1 .. n
  OBVIOUS
<1>2. Settle(e, fills) = Settling!Folded(e, fills)
  BY DEF Settle, FoldLeft, MapThenFoldSet, Settling!Folded, Settling!Folds, Settling!Max, Max
<1>3. PICK v : /\ v[0] = e /\ v[n] = g
               /\ \A k \in 0 .. n - 1 : v[k + 1] = ForgetSpent(v[k], fills[k + 1])
  <2>1. n \in Nat /\ DOMAIN fills = 1 .. n
    BY <1>1
  <2>2. \E v : SettlingRun(v, n, e, fills)
    BY ONLY <2>1, SettlingRuns
  <2>3. QED
    BY <1>2, <2>2 DEF SettlingRun
<1> DEFINE Good(f, k) == /\ Settled(e, f) /\ Indexed(f)
                         /\ \A i \in 1 .. k : \A x \in {fills[i].buy, fills[i].sell} :
                               x \in DOMAIN f.live => x \in DOMAIN f.orders
           P == {k \in 0 .. n : Good(v[k], k)}
<1>4. 0 \in P
  BY <1>3 DEF Settled
<1>5. ASSUME NEW k \in 0 .. n - 1, k \in P PROVE k + 1 \in P
  <2>1. PICK f, h, fill : f = v[k] /\ h = v[k + 1] /\ fill = fills[k + 1] /\ h = ForgetSpent(f, fill)
    BY <1>3
  <2>2. Good(f, k) /\ DOMAIN f = Fields
    BY <1>5, <2>1 DEF Settled
  <2>3. /\ Settled(f, h) /\ Indexed(h)
        /\ \A x \in {fill.buy, fill.sell} : x \in DOMAIN h.live => x \in DOMAIN h.orders
    BY <2>1, <2>2, ForgetSpentSettles
  <2>4. Settled(e, h)
    BY <2>2, <2>3, SettledTwice
  <2>5. ASSUME NEW i \in 1 .. k + 1, NEW x \in {fills[i].buy, fills[i].sell}, x \in DOMAIN h.live
        PROVE  x \in DOMAIN h.orders
    <3>1. CASE i = k + 1
      BY <2>1, <2>3, <2>5, <3>1
    <3>2. CASE i # k + 1
      <4>1. i \in 1 .. k
        BY <3>2
      <4>2. x \in DOMAIN f.live /\ h.orders = f.orders
        BY <2>3, <2>5 DEF Settled
      <4>3. QED
        BY <2>2, <2>5, <4>1, <4>2
    <3>3. QED
      BY <3>1, <3>2
  <2>6. Good(h, k + 1)
    BY <2>3, <2>4, <2>5
  <2> HIDE DEF Good
  <2>7. k + 1 \in 0 .. n /\ Good(v[k + 1], k + 1)
    BY <2>1, <2>6
  <2>8. QED
    BY <2>7
<1>6. 0 .. n \subseteq P
  <2> HIDE DEF P
  <2>1. QED
    BY <1>4, <1>5, Settling!UpTo
<1>7. Good(g, n)
  BY <1>3, <1>6
<1>8. DOMAIN g.live \subseteq DOMAIN g.orders
  <2> SUFFICES ASSUME NEW x \in DOMAIN g.live PROVE x \in DOMAIN g.orders
    OBVIOUS
  <2>1. CASE x \in DOMAIN e.orders
    BY <1>7, <2>1 DEF Settled
  <2>2. CASE x \notin DOMAIN e.orders
    <3>1. x \in DOMAIN e.live \ DOMAIN e.orders
      BY <1>7, <2>2 DEF Settled
    <3>2. QED
      BY <1>1, <1>7, <3>1
  <2>3. QED
    BY <2>1, <2>2
<1>9. QED
  BY <1>7, <1>8

\* A book is uncrossed when every bid is below every ask.
Clear(e, sym) ==
    \A x, y \in DOMAIN e.orders :
        /\ e.orders[x].sym = sym /\ e.orders[x].side = "BUY"
        /\ e.orders[y].sym = sym /\ e.orders[y].side = "SELL"
        => e.orders[x].price < e.orders[y].price

LEMMA ClearIsUncrossed ==
    ASSUME NEW e, Book(e), NEW sym
    PROVE  ~CanMatch(e, sym) <=> Clear(e, sym)
<1>1. \A x \in DOMAIN e.orders : e.orders[x].price \in Prices /\ e.orders[x].price \in Nat
  BY PricesAreAGrid DEF Book, Shaped, Order
<1>2. ASSUME ~CanMatch(e, sym) PROVE Clear(e, sym)
  <2> SUFFICES ASSUME NEW x \in DOMAIN e.orders, NEW y \in DOMAIN e.orders,
                      e.orders[x].sym = sym, e.orders[x].side = "BUY",
                      e.orders[y].sym = sym, e.orders[y].side = "SELL"
               PROVE  e.orders[x].price < e.orders[y].price
    BY DEF Clear
  <2>1. PICK p, q : p = e.orders[x].price /\ q = e.orders[y].price
    OBVIOUS
  <2>2. p \in Nat /\ q \in Nat
    BY <1>1, <2>1
  <2>3. p \in Quoted(e, sym, "BUY") /\ q \in Quoted(e, sym, "SELL")
    BY <1>1, <2>1 DEF Quoted, Book, Queued, LevelOf
  <2>4. PICK bb, ba : /\ bb = BestBid(e, sym) /\ ba = BestAsk(e, sym) /\ p <= bb /\ ba <= q
                      /\ bb \in Prices /\ ba \in Prices
    BY <2>3, Bests DEF Quoted
  <2>5. bb \in Nat /\ ba \in Nat
    BY <2>4, PricesAreAGrid
  <2>6. ~(bb >= ba)
    BY <1>2, <2>3, <2>4 DEF CanMatch
  <2>7. p < q
    BY <2>2, <2>4, <2>5, <2>6
  <2>8. QED
    BY <2>1, <2>7
<1>3. ASSUME Clear(e, sym), CanMatch(e, sym) PROVE FALSE
  <2>1. PICK bb, ba : /\ bb = BestBid(e, sym) /\ ba = BestAsk(e, sym) /\ bb >= ba
                      /\ bb \in Quoted(e, sym, "BUY") /\ ba \in Quoted(e, sym, "SELL")
    BY <1>3, Bests DEF CanMatch
  <2>2. PICK i, j : i = <<sym, "BUY", bb>> /\ j = <<sym, "SELL", ba>>
    OBVIOUS
  <2>3. i \in DOMAIN e.levels /\ j \in DOMAIN e.levels
    BY <2>1, <2>2 DEF Quoted
  <2>4. PICK x \in DOMAIN e.orders, y \in DOMAIN e.orders :
             LevelOf(e.orders[x]) = i /\ LevelOf(e.orders[y]) = j
    BY <2>3, FirstOfLevel
  <2>5. /\ e.orders[x].sym = sym /\ e.orders[x].side = "BUY" /\ e.orders[x].price = bb
        /\ e.orders[y].sym = sym /\ e.orders[y].side = "SELL" /\ e.orders[y].price = ba
    BY <2>2, <2>4 DEF LevelOf
  <2>6. bb < ba
    BY <1>3, <2>5 DEF Clear
  <2>7. bb \in Nat /\ ba \in Nat
    BY <1>1, <2>5
  <2>8. QED
    BY <2>1, <2>6, <2>7
<1>4. QED
  BY <1>2, <1>3

LEMMA SameBook ==
    ASSUME NEW e, Book(e), NEW f, DOMAIN f = Fields, f.next = e.next, f.orders = e.orders,
           f.arrivals = e.arrivals, f.levels = e.levels
    PROVE  Book(f)
  BY DEF Book, Shaped, Queued

\* The engine between the records of an answer: the book may be crossed.
Sound(e) ==
    /\ Book(e) /\ Positive(e) /\ Owned(e) /\ Indexed(e)
    /\ DOMAIN e.live = DOMAIN e.orders

\* The orders of f are orders of e.
Within(e, f) ==
    \A x \in DOMAIN f.orders :
        x \in DOMAIN e.orders /\ LevelOf(f.orders[x]) = LevelOf(e.orders[x])

\* match() and the loop that forgets what it filled.
LEMMA Matching ==
    ASSUME NEW b, Sound(b), NEW sym, NEW m, m = Match(b, sym), NEW e, e = Settle(m.eng, m.fills)
    PROVE  /\ Sound(e) /\ e.next = b.next /\ ~CanMatch(e, sym) /\ Within(b, e)
           /\ e.orders = m.eng.orders
           /\ Reached(b) => Reached(e)
           /\ DOMAIN e.live \subseteq DOMAIN b.live
           /\ \A x \in DOMAIN e.live : e.live[x] = b.live[x]
<1>1. Going(b, sym, m) /\ ~CanMatch(m.eng, sym)
  <2>1. \A x \in DOMAIN b.orders : b.live[x].id = x
    BY DEF Sound, Owned
  <2>2. QED
    BY <2>1, Matched DEF Sound
<1>2. PICK f : f = m.eng
  OBVIOUS
<1>3. /\ Book(f) /\ Positive(f) /\ DOMAIN f = Fields
      /\ f.next = b.next /\ f.live = b.live /\ f.index = b.index
      /\ m.fills \in Seq(BookFill) /\ Within(b, f)
  BY <1>1, <1>2 DEF Going, Beside, Within
<1>4. Indexed(f) /\ (Reached(b) => Reached(f))
  BY <1>3 DEF Sound, Indexed, Reached, IndexReaches
<1>5. \A x \in DOMAIN f.live \ DOMAIN f.orders :
         \E i \in 1 .. Len(m.fills) : x \in {m.fills[i].buy, m.fills[i].sell}
  BY <1>1, <1>2, <1>3 DEF Going, Sound
<1>6. Settled(f, e) /\ Indexed(e) /\ DOMAIN e.live \subseteq DOMAIN e.orders
  BY <1>2, <1>3, <1>4, <1>5, AllSettled
<1>7. /\ DOMAIN e = Fields /\ e.next = f.next /\ e.orders = f.orders
      /\ e.arrivals = f.arrivals /\ e.levels = f.levels
      /\ DOMAIN e.live \subseteq DOMAIN f.live /\ \A x \in DOMAIN e.live : e.live[x] = f.live[x]
      /\ Reached(f) => Reached(e)
  BY <1>4, <1>6 DEF Settled
<1>8. Book(e)
  BY <1>3, <1>7, SameBook
<1>9. DOMAIN e.live = DOMAIN e.orders
  <2>1. \A x \in DOMAIN f.orders : x \in DOMAIN f.live
    BY <1>3 DEF Within, Sound
  <2>2. DOMAIN f.live \intersect DOMAIN f.orders \subseteq DOMAIN e.live
    BY <1>6 DEF Settled
  <2>3. QED
    BY <1>6, <1>7, <2>1, <2>2
<1>10. Within(b, e)
  BY <1>3, <1>7 DEF Within
<1>11. Owned(e)
  <2> SUFFICES ASSUME NEW x \in DOMAIN e.orders
               PROVE  /\ x \in DOMAIN e.live /\ e.live[x].id = x
                      /\ e.live[x].sym = e.orders[x].sym /\ e.live[x].side = e.orders[x].side
                      /\ e.live[x].price = e.orders[x].price
    BY DEF Owned
  <2>1. x \in DOMAIN b.orders /\ LevelOf(e.orders[x]) = LevelOf(b.orders[x])
    BY <1>10 DEF Within
  <2>2. /\ e.orders[x].sym = b.orders[x].sym /\ e.orders[x].side = b.orders[x].side
        /\ e.orders[x].price = b.orders[x].price
    BY <2>1 DEF LevelOf
  <2>3. x \in DOMAIN e.live /\ e.live[x] = b.live[x]
    BY <1>3, <1>7, <1>9
  <2>4. QED
    BY <2>1, <2>2, <2>3 DEF Sound, Owned
<1>12. Positive(e)
  BY <1>3, <1>7 DEF Positive
<1>13. ~CanMatch(e, sym)
  <2>1. Clear(f, sym)
    BY <1>1, <1>2, <1>3, ClearIsUncrossed
  <2>2. Clear(e, sym)
    BY <1>7, <2>1 DEF Clear
  <2>3. QED
    BY <1>8, <2>2, ClearIsUncrossed
<1>14. /\ e.next = b.next /\ e.orders = m.eng.orders
       /\ DOMAIN e.live \subseteq DOMAIN b.live /\ \A x \in DOMAIN e.live : e.live[x] = b.live[x]
       /\ Reached(b) => Reached(e)
  BY <1>2, <1>3, <1>4, <1>7
<1>15. Sound(e)
  BY <1>6, <1>8, <1>9, <1>11, <1>12 DEF Sound
<1>16. QED
  BY <1>10, <1>13, <1>14, <1>15

\* An order is taken out, by its owner or because it is immediate.
LEMMA Cancelling ==
    ASSUME NEW e, Sound(e), NEW id, id \in DOMAIN e.orders, NEW g, g = Forget(RemoveOrder(e, id), id),
           NEW rec, rec.kind = "OrderCancelled", rec.id = id, rec.remaining = e.orders[id].qty
    PROVE  /\ Sound(g) /\ g.next = e.next /\ Within(e, g)
           /\ Reached(e) => Reached(g)
           /\ \A s : ~CanMatch(e, s) => ~CanMatch(g, s)
           /\ Track(Quantities(e), rec) = Quantities(g)
<1>1. PICK f : f = RemoveOrder(e, id)
  OBVIOUS
<1>2. Book(f) /\ Beside(e, f) /\ f.orders = Without(e.orders, id)
  BY <1>1, Removing DEF Sound
<1>3. DOMAIN f = Fields /\ f.next = e.next /\ f.live = e.live /\ f.index = e.index
  BY <1>2 DEF Beside
<1>4. /\ DOMAIN f.orders = DOMAIN e.orders \ {id}
      /\ \A x \in DOMAIN f.orders : f.orders[x] = e.orders[x]
  <2>1. /\ DOMAIN Without(e.orders, id) = DOMAIN e.orders \ {id}
        /\ \A x \in DOMAIN e.orders : x # id => Without(e.orders, id)[x] = e.orders[x]
    BY ONLY WithoutIs
  <2>2. QED
    BY <1>2, <2>1
<1>5. Indexed(f) /\ (Reached(e) => Reached(f))
  BY <1>3 DEF Sound, Indexed, Reached, IndexReaches
<1>6. id \in DOMAIN f.live
  BY <1>3 DEF Sound
<1>7. g = Forget(f, id)
  BY <1>1
<1>8. /\ DOMAIN g = Fields /\ g.next = f.next /\ g.orders = f.orders
      /\ g.arrivals = f.arrivals /\ g.levels = f.levels
      /\ DOMAIN g.live = DOMAIN f.live \ {id} /\ \A x \in DOMAIN g.live : g.live[x] = f.live[x]
      /\ Indexed(g) /\ (Reached(f) => Reached(g))
  BY <1>3, <1>5, <1>6, <1>7, Forgetting
<1>9. Book(g)
  BY <1>2, <1>8, SameBook
<1>10. /\ DOMAIN g.orders = DOMAIN e.orders \ {id} /\ DOMAIN g.live = DOMAIN e.live \ {id}
       /\ \A x \in DOMAIN g.orders : g.orders[x] = e.orders[x]
       /\ \A x \in DOMAIN g.live : g.live[x] = e.live[x]
  BY <1>3, <1>4, <1>8
<1>11. Sound(g)
  <2>1. Owned(g)
    BY <1>10 DEF Sound, Owned
  <2>2. Positive(g)
    BY <1>10 DEF Sound, Positive
  <2>3. QED
    BY <1>8, <1>9, <1>10, <2>1, <2>2 DEF Sound
<1>12. Within(e, g)
  BY <1>10 DEF Within
<1>13. ASSUME NEW s, ~CanMatch(e, s) PROVE ~CanMatch(g, s)
  <2>1. Clear(e, s)
    BY <1>13, ClearIsUncrossed DEF Sound
  <2>2. Clear(g, s)
    BY <1>10, <2>1 DEF Clear
  <2>3. QED
    BY <1>9, <2>2, ClearIsUncrossed
<1>14. Track(Quantities(e), rec) = Quantities(g)
  <2>1. PICK open : open = Quantities(e)
    OBVIOUS
  <2>2. /\ DOMAIN open = DOMAIN e.orders /\ \A x \in DOMAIN e.orders : open[x] = e.orders[x].qty
    BY <2>1 DEF Quantities
  <2>3. Track(open, rec) = [x \in {y \in DOMAIN open : y # id \/ open[y] # e.orders[id].qty} |-> open[x]]
    BY DEF Track, Restrict
  <2>4. {y \in DOMAIN open : y # id \/ open[y] # e.orders[id].qty} = DOMAIN g.orders
    BY <1>10, <2>2
  <2>5. \A x \in DOMAIN g.orders : open[x] = g.orders[x].qty
    BY <1>10, <2>2
  <2>6. Track(open, rec) = [x \in DOMAIN g.orders |-> g.orders[x].qty]
    BY <2>3, <2>4, <2>5
  <2>7. QED
    BY <2>1, <2>6 DEF Quantities
<1>15. QED
  BY <1>3, <1>5, <1>8, <1>11, <1>12, <1>13, <1>14

\* What decoding leaves of a record that passed the bounds checks.
Submitted(r) ==
    /\ r.kind = "SubmitOrder" /\ r.sym \in Symbols /\ r.side \in Sides
    /\ r.price \in Prices /\ r.qty \in Nat /\ r.qty > 0

\* The engine with the new order in the book, before match().
Known(e, r) ==
    [e EXCEPT !.next = @ + 1, !.index = Put(e.index, KeyOf(r), e.next),
              !.live = Put(e.live, e.next,
                           [id |-> e.next, user |-> r.user, coid |-> r.coid, sym |-> r.sym,
                            side |-> r.side, price |-> r.price])]

Entered(e, r) ==
    AddOrder(Known(e, r), [id |-> e.next, sym |-> r.sym, side |-> r.side,
                           price |-> r.price, qty |-> r.qty])

\* The book b is that of e with the new order.
Enters(e, r, b) ==
    /\ Sound(b) /\ b.next = e.next + 1 /\ e.next \notin DOMAIN e.orders
    /\ b.live = Known(e, r).live
    /\ Reached(e) /\ (\A x \in DOMAIN e.live : KeyOf(e.live[x]) # KeyOf(r)) => Reached(b)
    /\ DOMAIN b.orders = DOMAIN e.orders \union {e.next}
    /\ \A x \in DOMAIN e.orders : b.orders[x] = e.orders[x] /\ b.live[x] = e.live[x]
    /\ b.orders[e.next].sym = r.sym /\ b.orders[e.next].side = r.side
    /\ b.orders[e.next].price = r.price /\ b.orders[e.next].qty = r.qty
    /\ b.live[e.next] = [id |-> e.next, user |-> r.user, coid |-> r.coid, sym |-> r.sym,
                         side |-> r.side, price |-> r.price]

LEMMA Entering ==
    ASSUME NEW e, Sound(e), NEW r, Submitted(r), NEW b, b = Entered(e, r)
    PROVE  Enters(e, r, b)
<1>1. PICK id \in Nat : /\ id = e.next /\ id \notin DOMAIN e.orders /\ DOMAIN e.live = DOMAIN e.orders
                        /\ \A x \in DOMAIN e.orders : x \in Nat /\ x < id
  BY DEF Sound, Book, Shaped
<1>2. PICK key, mine : /\ key = KeyOf(r)
                       /\ mine = [id |-> id, user |-> r.user, coid |-> r.coid, sym |-> r.sym,
                                  side |-> r.side, price |-> r.price]
  OBVIOUS
<1>3. PICK k : k = Known(e, r)
  OBVIOUS
<1>4. DOMAIN e = Fields
  BY DEF Sound, Book, Shaped
<1>5. /\ DOMAIN k = Fields /\ k.next = id + 1 /\ k.orders = e.orders /\ k.arrivals = e.arrivals
      /\ k.levels = e.levels /\ k.index = Put(e.index, key, id) /\ k.live = Put(e.live, id, mine)
  BY <1>1, <1>2, <1>3, <1>4 DEF Known, Fields
<1>6. Book(k)
  <2>1. k.next \in Nat \ {0} /\ \A x \in DOMAIN e.orders : x < k.next
    BY <1>1, <1>5
  <2>2. Shaped(k)
    BY <1>5, <2>1 DEF Sound, Book, Shaped
  <2>3. Queued(k)
    BY <1>5 DEF Sound, Book, Queued
  <2>4. QED
    BY <2>2, <2>3 DEF Book
<1>7. PICK o : o = [id |-> id, sym |-> r.sym, side |-> r.side, price |-> r.price, qty |-> r.qty]
  OBVIOUS
<1>8. b = AddOrder(k, o)
  BY <1>1, <1>3, <1>7 DEF Entered
<1>9. /\ o.id = id /\ o.sym = r.sym /\ o.side = r.side /\ o.price = r.price /\ o.qty = r.qty
  BY <1>7
<1>10. PICK row : row = [sym |-> o.sym, side |-> o.side, price |-> o.price,
                         qty |-> o.qty, arrival |-> k.arrivals[o.sym]]
  OBVIOUS
<1>11. /\ Book(b) /\ b.next = k.next /\ b.live = k.live /\ b.index = k.index
       /\ b.orders = Put(k.orders, o.id, row)
  <2>1. o.id \in Nat /\ o.id < k.next /\ \A x \in DOMAIN k.orders : x < o.id
    BY <1>1, <1>5, <1>9
  <2>2. o.sym \in Symbols /\ o.side \in Sides /\ o.price \in Prices /\ o.qty \in Nat
    BY <1>9 DEF Submitted
  <2>3. QED
    BY <1>6, <1>8, <1>10, <2>1, <2>2, Adding
<1>12. /\ DOMAIN b.orders = DOMAIN e.orders \union {id} /\ b.orders[id] = row
       /\ \A x \in DOMAIN e.orders : x # id /\ b.orders[x] = e.orders[x]
  <2>1. b.orders = Put(e.orders, id, row)
    BY <1>5, <1>9, <1>11
  <2>2. /\ DOMAIN Put(e.orders, id, row) = DOMAIN e.orders \union {id}
        /\ Put(e.orders, id, row)[id] = row
        /\ \A x \in DOMAIN e.orders : x # id => Put(e.orders, id, row)[x] = e.orders[x]
    BY DEF Put, Upsert
  <2>3. QED
    BY <1>1, <2>1, <2>2
<1>13. /\ DOMAIN b.live = DOMAIN e.live \union {id} /\ b.live[id] = mine
       /\ \A x \in DOMAIN e.live : x # id /\ b.live[x] = e.live[x]
  <2>1. b.live = Put(e.live, id, mine)
    BY <1>5, <1>11
  <2>2. /\ DOMAIN Put(e.live, id, mine) = DOMAIN e.live \union {id}
        /\ Put(e.live, id, mine)[id] = mine
        /\ \A x \in DOMAIN e.live : x # id => Put(e.live, id, mine)[x] = e.live[x]
    BY DEF Put, Upsert
  <2>3. QED
    BY <1>1, <2>1, <2>2
<1>14. /\ DOMAIN b.index = DOMAIN e.index \union {key} /\ b.index[key] = id
       /\ \A x \in DOMAIN e.index : x # key => b.index[x] = e.index[x]
  <2>1. b.index = Put(e.index, key, id)
    BY <1>5, <1>11
  <2>2. /\ DOMAIN Put(e.index, key, id) = DOMAIN e.index \union {key}
        /\ Put(e.index, key, id)[key] = id
        /\ \A x \in DOMAIN e.index : x # key => Put(e.index, key, id)[x] = e.index[x]
    BY DEF Put, Upsert
  <2>3. QED
    BY <2>1, <2>2
<1>15. row.sym = r.sym /\ row.side = r.side /\ row.price = r.price /\ row.qty = r.qty
  BY <1>9, <1>10
<1>16. KeyOf(mine) = key
  BY <1>2 DEF KeyOf
<1>17. Indexed(b)
  <2> SUFFICES ASSUME NEW x \in DOMAIN b.index
               PROVE  b.index[x] \in DOMAIN b.live /\ KeyOf(b.live[b.index[x]]) = x
    BY DEF Indexed
  <2>1. CASE x = key
    BY <1>13, <1>14, <1>16, <2>1
  <2>2. CASE x # key
    BY <1>13, <1>14, <2>2 DEF Sound, Indexed
  <2>3. QED
    BY <2>1, <2>2
<1>18. ASSUME Reached(e), \A x \in DOMAIN e.live : KeyOf(e.live[x]) # key
       PROVE  Reached(b)
  <2> SUFFICES ASSUME NEW x \in DOMAIN b.live PROVE IndexReaches(b, x)
    BY DEF Reached
  <2>1. CASE x = id
    BY <1>13, <1>14, <1>16, <2>1 DEF IndexReaches
  <2>2. CASE x # id
    <3>1. x \in DOMAIN e.live /\ b.live[x] = e.live[x]
      BY <1>13, <2>2
    <3>2. KeyOf(e.live[x]) # key /\ KeyOf(e.live[x]) \in DOMAIN e.index
          /\ e.index[KeyOf(e.live[x])] = x
      BY <1>18, <3>1 DEF Reached, IndexReaches
    <3>3. QED
      BY <1>14, <3>1, <3>2 DEF IndexReaches
  <2>3. QED
    BY <2>1, <2>2
<1>19. Sound(b)
  <2>1. Owned(b)
    <3> SUFFICES ASSUME NEW x \in DOMAIN b.orders
                 PROVE  /\ x \in DOMAIN b.live /\ b.live[x].id = x
                        /\ b.live[x].sym = b.orders[x].sym /\ b.live[x].side = b.orders[x].side
                        /\ b.live[x].price = b.orders[x].price
      BY DEF Owned
    <3>1. CASE x = id
      BY <1>2, <1>12, <1>13, <1>15, <3>1
    <3>2. CASE x # id
      <4>1. x \in DOMAIN e.orders /\ x \in DOMAIN e.live
        BY <1>1, <1>12, <3>2
      <4>2. b.orders[x] = e.orders[x] /\ b.live[x] = e.live[x] /\ x \in DOMAIN b.live
        BY <1>12, <1>13, <4>1
      <4>3. QED
        BY <4>1, <4>2 DEF Sound, Owned
    <3>3. QED
      BY <3>1, <3>2
  <2>2. Positive(b)
    BY <1>12, <1>15 DEF Sound, Positive, Submitted
  <2>3. DOMAIN b.live = DOMAIN b.orders
    BY <1>1, <1>12, <1>13
  <2>4. QED
    BY <1>11, <1>17, <2>1, <2>2, <2>3 DEF Sound
<1>20. b.next = e.next + 1 /\ b.live = Known(e, r).live
  BY <1>1, <1>3, <1>5, <1>11
<1>21. \A x \in DOMAIN e.orders : b.orders[x] = e.orders[x] /\ b.live[x] = e.live[x]
  BY <1>1, <1>12, <1>13
<1>22. QED
  BY <1>1, <1>2, <1>12, <1>13, <1>15, <1>18, <1>19, <1>20, <1>21 DEF Enters

NewOrder(e, r) == [id |-> e.next, user |-> r.user, coid |-> r.coid, sym |-> r.sym,
                   side |-> r.side, price |-> r.price]

LEMMA SubmitIs ==
    ASSUME NEW e, NEW r, NEW m, m = Match(Entered(e, r), r.sym),
           NEW s, s = Settle(m.eng, m.fills),
           NEW recs, recs = [i \in DOMAIN m.fills |->
                               FillRecord(Known(e, r).live, e.next, r, m.fills[i])]
    PROVE  Submit(e, r) =
              IF r.tif = "IOC" /\ e.next \in DOMAIN s.orders
              THEN [eng |-> Forget(RemoveOrder(s, e.next), e.next),
                    out |-> Append(<<OrderAccepted(r, e.next)>> \o recs,
                                   OrderCancelled(NewOrder(e, r), s.orders[e.next].qty,
                                                  "IOC_EXPIRED"))]
              ELSE [eng |-> s, out |-> <<OrderAccepted(r, e.next)>> \o recs]
  BY DEF Submit, Entered, Known, NewOrder

\* A consumer of the events follows an accepted order.
LEMMA TrackedAccept ==
    ASSUME NEW e, Sound(e), NEW r, Submitted(r)
    PROVE  Track(Quantities(e), OrderAccepted(r, e.next)) = Quantities(Entered(e, r))
<1>1. PICK b, id, open, rec : /\ b = Entered(e, r) /\ id = e.next /\ open = Quantities(e)
                              /\ rec = OrderAccepted(r, id)
  OBVIOUS
<1>2. rec.kind = "OrderAccepted" /\ rec.id = id /\ rec.qty = r.qty
  BY <1>1 DEF OrderAccepted
<1>3. Track(open, rec) = Put(open, id, r.qty)
  BY <1>2 DEF Track
<1>4. /\ DOMAIN b.orders = DOMAIN e.orders \union {id} /\ id \notin DOMAIN e.orders
      /\ b.orders[id].qty = r.qty
      /\ \A x \in DOMAIN e.orders : b.orders[x] = e.orders[x]
  <2>1. Enters(e, r, b)
    BY <1>1, Entering
  <2>2. QED
    BY <1>1, <2>1 DEF Enters
<1>5. Put(open, id, r.qty) = [x \in DOMAIN e.orders \union {id} |->
                                 IF x \in {id} THEN r.qty ELSE e.orders[x].qty]
  BY <1>1 DEF Put, Upsert, Quantities
<1>6. \A x \in DOMAIN e.orders \union {id} :
         b.orders[x].qty = IF x \in {id} THEN r.qty ELSE e.orders[x].qty
  BY <1>4
<1>7. Put(open, id, r.qty) = [x \in DOMAIN e.orders \union {id} |-> b.orders[x].qty]
  BY <1>5, <1>6
<1>8. Quantities(b) = [x \in DOMAIN e.orders \union {id} |-> b.orders[x].qty]
  BY <1>4 DEF Quantities
<1>9. QED
  BY <1>1, <1>3, <1>7, <1>8

\* One record answers, and consumers need no other.
Anchored(a) ==
    /\ \E n \in Nat : DOMAIN a = 1 .. n /\ n > 0
    /\ IsAnchor(a[1])
    /\ \A i \in DOMAIN a : i # 1 => ~IsAnchor(a[i])

\* What PriceTimePriority says of one fill, given the engines before and after.
Prior(e, g, accepted, f) ==
    /\ f.maker \in DOMAIN e.orders
    /\ f.taker = accepted.id
    /\ LET m == e.orders[f.maker] IN
       /\ f.price = m.price
       /\ m.side = Opposite(accepted.side) /\ m.sym = accepted.sym
       /\ IF accepted.side = "BUY" THEN f.price <= accepted.price
                                   ELSE f.price >= accepted.price
       /\ \A id \in DOMAIN e.orders \cap DOMAIN g.orders :
             LET o == e.orders[id] IN
             (id # f.maker /\ o.sym = m.sym /\ o.side = m.side) =>
                IF o.price = m.price THEN id > f.maker
                ELSE (o.side = "BUY") <=> (o.price < m.price)

\* The order that just arrived is on one side of every fill, for the others did
\* not cross.
LEMMA PriorFill ==
    ASSUME NEW e, Sound(e), NEW r, Submitted(r), ~CanMatch(e, r.sym),
           NEW S, NEW fill, Happened(Entered(e, r), r.sym, S, fill),
           NEW g, DOMAIN g.orders \subseteq S,
           NEW rec, rec = FillRecord(Known(e, r).live, e.next, r, fill)
    PROVE  Prior(e, g, OrderAccepted(r, e.next), rec)
<1>1. PICK b, id, acc : b = Entered(e, r) /\ id = e.next /\ acc = OrderAccepted(r, id)
  OBVIOUS
<1>2. /\ b.live = Known(e, r).live /\ DOMAIN b.orders = DOMAIN e.orders \union {id}
      /\ \A x \in DOMAIN e.orders : b.orders[x] = e.orders[x]
      /\ b.orders[id].sym = r.sym /\ b.orders[id].side = r.side /\ b.orders[id].price = r.price
      /\ Sound(b)
  <2>1. Enters(e, r, b)
    BY <1>1, Entering
  <2>2. QED
    BY <1>1, <2>1 DEF Enters
<1>3. \A x \in DOMAIN e.orders : x \in Nat /\ x < id /\ id \in Nat
  BY <1>1 DEF Sound, Book, Shaped
<1>4. \A x \in DOMAIN b.orders : /\ b.orders[x].price \in Nat /\ b.live[x].id = x
                                 /\ b.orders[x].side \in Sides
  BY <1>2, PricesAreAGrid DEF Sound, Owned, Book, Shaped, Order
<1>5. PICK x, y : x = fill.buy /\ y = fill.sell
  OBVIOUS
<1>6. /\ x \in DOMAIN b.orders /\ y \in DOMAIN b.orders
      /\ b.orders[x].sym = r.sym /\ b.orders[x].side = "BUY"
      /\ b.orders[y].sym = r.sym /\ b.orders[y].side = "SELL"
      /\ b.orders[y].price <= b.orders[x].price
      /\ fill.price = IF x < y THEN b.orders[x].price ELSE b.orders[y].price
      /\ First(b, S, x) /\ First(b, S, y)
  BY <1>1, <1>5 DEF Happened
<1>7. x = id \/ y = id
  <2>1. SUFFICES ASSUME x \in DOMAIN e.orders, y \in DOMAIN e.orders PROVE FALSE
    BY <1>2, <1>6
  <2>2. Clear(e, r.sym)
    BY ClearIsUncrossed DEF Sound
  <2>3. b.orders[x].price < b.orders[y].price
    BY <1>2, <1>6, <2>1, <2>2 DEF Clear
  <2>4. QED
    BY <1>4, <1>6, <2>3
<1>8. acc.id = id /\ acc.side = r.side /\ acc.sym = r.sym /\ acc.price = r.price
  BY <1>1 DEF OrderAccepted
<1>9. rec = IF x = id THEN Fill(b.live[y], b.live[x], fill.price, fill.qty, r.sym, r.side)
            ELSE Fill(b.live[x], b.live[y], fill.price, fill.qty, r.sym, r.side)
  BY <1>1, <1>2, <1>5 DEF FillRecord
<1>10. CASE x = id
  <2>1. y # id /\ y \in DOMAIN e.orders /\ b.orders[y] = e.orders[y] /\ y < id
    BY <1>2, <1>3, <1>6, <1>10
  <2>2. rec.maker = y /\ rec.taker = id /\ rec.price = fill.price
    BY <1>4, <1>6, <1>9, <1>10 DEF Fill
  <2>3. rec.price = e.orders[y].price /\ r.side = "BUY" /\ rec.price <= r.price
    BY <1>2, <1>3, <1>6, <1>10, <2>1, <2>2
  <2>4. ASSUME NEW z \in DOMAIN e.orders \cap DOMAIN g.orders, z # y,
               e.orders[z].sym = e.orders[y].sym, e.orders[z].side = e.orders[y].side
        PROVE  IF e.orders[z].price = e.orders[y].price THEN z > y
               ELSE (e.orders[z].side = "BUY") <=> (e.orders[z].price < e.orders[y].price)
    <3>1. z \in S \ {y} /\ b.orders[z] = e.orders[z]
      BY <1>2, <2>4
    <3>2. IF e.orders[z].price = e.orders[y].price THEN y < z ELSE e.orders[y].price < e.orders[z].price
      BY <1>6, <2>1, <2>4, <3>1 DEF First
    <3>3. e.orders[z].price \in Nat /\ e.orders[y].price \in Nat /\ z \in Nat /\ y \in Nat
      BY <1>2, <1>3, <1>4, <1>6, <2>1, <2>4
    <3>4. e.orders[z].side = "SELL"
      BY <1>6, <2>1, <2>4
    <3>5. QED
      BY <3>2, <3>3, <3>4
  <2>5. e.orders[y].side = Opposite(r.side) /\ e.orders[y].sym = r.sym
    BY <1>6, <2>1, <2>3 DEF Opposite
  <2>6. Prior(e, g, acc, rec)
    BY <1>8, <2>1, <2>2, <2>3, <2>4, <2>5 DEF Prior
  <2>7. QED
    BY <1>1, <2>6
<1>11. CASE x # id /\ y = id
  <2>1. x \in DOMAIN e.orders /\ b.orders[x] = e.orders[x] /\ x < id
    BY <1>2, <1>3, <1>6, <1>11
  <2>2. rec.maker = x /\ rec.taker = id /\ rec.price = fill.price
    BY <1>4, <1>6, <1>9, <1>11 DEF Fill
  <2>3. rec.price = e.orders[x].price /\ r.side = "SELL" /\ rec.price >= r.price
    <3>1. r.side = "SELL" /\ rec.price = e.orders[x].price /\ r.price <= e.orders[x].price
      BY <1>2, <1>6, <1>11, <2>1, <2>2
    <3>2. r.price \in Nat /\ e.orders[x].price \in Nat
      BY <1>2, <1>4, <1>6, <1>11, <2>1
    <3>3. QED
      BY <3>1, <3>2
  <2>4. ASSUME NEW z \in DOMAIN e.orders \cap DOMAIN g.orders, z # x,
               e.orders[z].sym = e.orders[x].sym, e.orders[z].side = e.orders[x].side
        PROVE  IF e.orders[z].price = e.orders[x].price THEN z > x
               ELSE (e.orders[z].side = "BUY") <=> (e.orders[z].price < e.orders[x].price)
    <3>1. z \in S \ {x} /\ b.orders[z] = e.orders[z]
      BY <1>2, <2>4
    <3>2. IF e.orders[z].price = e.orders[x].price THEN x < z ELSE e.orders[z].price < e.orders[x].price
      BY <1>6, <2>1, <2>4, <3>1 DEF First
    <3>3. e.orders[z].price \in Nat /\ e.orders[x].price \in Nat /\ z \in Nat /\ x \in Nat
      BY <1>2, <1>3, <1>4, <1>6, <2>1, <2>4
    <3>4. e.orders[z].side = "BUY"
      BY <1>6, <2>1, <2>4
    <3>5. QED
      BY <3>2, <3>3, <3>4
  <2>5. e.orders[x].side = Opposite(r.side) /\ e.orders[x].sym = r.sym
    BY <1>6, <2>1, <2>3 DEF Opposite
  <2>6. Prior(e, g, acc, rec)
    BY <1>8, <2>1, <2>2, <2>3, <2>4, <2>5 DEF Prior
  <2>7. QED
    BY <1>1, <2>6
<1>12. QED
  BY <1>7, <1>10, <1>11

Row(recs, n) == n \in Nat /\ recs = [i \in 1 .. n |-> recs[i]]

\* The sequence a is acc and then recs.
Leads(acc, recs, n, a) ==
    /\ DOMAIN a = 1 .. n + 1 /\ a[1] = acc
    /\ \A i \in 1 .. n : a[1 + i] = recs[i]
    /\ \E U : a \in Seq(U)

LEMMA OneThenMore ==
    ASSUME NEW acc, NEW n, NEW recs, Row(recs, n)
    PROVE  Leads(acc, recs, n, <<acc>> \o recs)
<1>0. PICK a : a = <<acc>> \o recs
  OBVIOUS
<1> USE DEF Row
<1>1. PICK U : U = {acc} \union {recs[i] : i \in 1 .. n}
  OBVIOUS
<1>2. recs \in Seq(U) /\ Len(recs) = n
  <2>1. recs \in [1 .. n -> U]
    BY <1>1
  <2>2. QED
    BY <2>1
<1>3. PICK s : s = <<acc>> /\ s \in Seq(U) /\ Len(s) = 1 /\ s[1] = acc
  <2>1. acc \in U
    BY <1>1
  <2>2. <<acc>> \in Seq(U) /\ Len(<<acc>>) = 1 /\ <<acc>>[1] = acc
    BY <2>1
  <2>3. QED
    BY <2>2
<1>4. /\ s \o recs \in Seq(U) /\ Len(s \o recs) = Len(s) + Len(recs)
      /\ \A i \in 1 .. Len(s) + Len(recs) :
            (s \o recs)[i] = IF i <= Len(s) THEN s[i] ELSE recs[i - Len(s)]
  BY <1>2, <1>3
<1>5. /\ a \in Seq(U) /\ Len(a) = n + 1
      /\ \A i \in 1 .. n + 1 : a[i] = IF i <= 1 THEN s[i] ELSE recs[i - 1]
  <2>1. a = s \o recs
    BY <1>0, <1>3
  <2>2. Len(s) + Len(recs) = n + 1
    BY <1>2, <1>3
  <2>3. QED
    BY <1>2, <1>3, <1>4, <2>1, <2>2
<1>6. DOMAIN a = 1 .. n + 1
  BY <1>5
<1>7. a[1] = acc
  <2>1. 1 \in 1 .. n + 1 /\ 1 <= 1
    OBVIOUS
  <2>2. a[1] = s[1]
    BY <1>5, <2>1
  <2>3. QED
    BY <1>3, <2>2
<1>8. ASSUME NEW i \in 1 .. n PROVE a[1 + i] = recs[i]
  <2>1. 1 + i \in 1 .. n + 1 /\ ~(1 + i <= 1) /\ (1 + i) - 1 = i
    OBVIOUS
  <2>2. QED
    BY <1>5, <2>1
<1>9. QED
  BY <1>0, <1>5, <1>6, <1>7, <1>8 DEF Leads

LEMMA FoldedOne ==
    ASSUME NEW q, NEW rec
    PROVE  Tracking!Folded(q, <<rec>>) = Track(q, rec)
<1>1. PICK t, z : t = <<rec>> /\ z = <<>>
  OBVIOUS
<1>2. DOMAIN t = 1 .. 0 + 1 /\ t[0 + 1] = rec /\ DOMAIN z = 1 .. 0 /\ DOMAIN z = {} /\ 0 \in Nat
  BY <1>1
<1>3. Tracking!Agree(z, t, 0)
  BY DEF Tracking!Agree
<1>4. Tracking!Folded(q, z) = q
  BY ONLY <1>2, Tracking!FoldedEmpty
<1>5. Tracking!Folded(q, t) = Track(Tracking!Folded(q, z), t[0 + 1])
  BY ONLY <1>2, <1>3, Tracking!FoldedLast
<1>6. QED
  BY <1>1, <1>2, <1>4, <1>5

\* What one answer does and says.
Answers(e, r, a) ==
    /\ Engine(a.eng) /\ Anchored(a.out)
    /\ Tracking!Folded(Quantities(e), a.out) = Quantities(a.eng)
    /\ Reached(e) /\ (r.kind = "SubmitOrder" => \A x \in DOMAIN e.live : KeyOf(e.live[x]) # KeyOf(r))
          => Reached(a.eng)
    /\ \A i \in DOMAIN a.out : a.out[i].kind = "Fill" => Prior(e, a.eng, a.out[1], a.out[i])

LEMMA Submitting ==
    ASSUME NEW e, Engine(e), NEW r, Submitted(r)
    PROVE  Answers(e, r, Submit(e, r))
<1>1. PICK b, m, s, id, live : /\ b = Entered(e, r) /\ m = Match(b, r.sym)
                              /\ s = Settle(m.eng, m.fills) /\ id = e.next
                              /\ live = Known(e, r).live
  OBVIOUS
<1>2. PICK acc, recs : /\ acc = OrderAccepted(r, id)
                       /\ recs = [i \in DOMAIN m.fills |-> FillRecord(live, id, r, m.fills[i])]
  OBVIOUS
<1>3. PICK a : a = <<acc>> \o recs
  OBVIOUS
<1>4. PICK mine, expired, left : /\ mine = NewOrder(e, r)
                                 /\ expired = OrderCancelled(mine, s.orders[id].qty, "IOC_EXPIRED")
                                 /\ left = Forget(RemoveOrder(s, id), id)
  OBVIOUS
<1>5. Submit(e, r) = IF r.tif = "IOC" /\ id \in DOMAIN s.orders
                     THEN [eng |-> left, out |-> Append(a, expired)]
                     ELSE [eng |-> s, out |-> a]
  <2>1. s = Settle(m.eng, m.fills) /\ m = Match(Entered(e, r), r.sym)
    BY <1>1
  <2>2. recs = [i \in DOMAIN m.fills |-> FillRecord(Known(e, r).live, e.next, r, m.fills[i])]
    BY <1>1, <1>2
  <2>3. Submit(e, r) =
           IF r.tif = "IOC" /\ e.next \in DOMAIN s.orders
           THEN [eng |-> Forget(RemoveOrder(s, e.next), e.next),
                 out |-> Append(<<OrderAccepted(r, e.next)>> \o recs,
                                OrderCancelled(NewOrder(e, r), s.orders[e.next].qty,
                                               "IOC_EXPIRED"))]
           ELSE [eng |-> s, out |-> <<OrderAccepted(r, e.next)>> \o recs]
    BY ONLY <2>1, <2>2, SubmitIs, ZenonT(60)
  <2>4. QED
    BY <1>1, <1>2, <1>3, <1>4, <2>3
<1>6. Sound(e) /\ ~CanMatch(e, r.sym)
  BY DEF Engine, Sound, Submitted
<1>7. Enters(e, r, b)
  BY <1>1, <1>6, Entering
<1>8. Sound(b) /\ b.live = live /\ b.next = id + 1
  BY <1>1, <1>7 DEF Enters
<1>9. /\ Sound(s) /\ s.next = b.next /\ ~CanMatch(s, r.sym) /\ Within(b, s)
      /\ s.orders = m.eng.orders
      /\ Reached(b) => Reached(s)
      /\ DOMAIN s.live \subseteq DOMAIN b.live /\ \A x \in DOMAIN s.live : s.live[x] = b.live[x]
  BY <1>1, <1>8, Matching
<1>10. Going(b, r.sym, m) /\ Tracked(b, live, id, r, m)
  <2>1. \A x \in DOMAIN b.orders : live[x].id = x
    BY <1>8 DEF Sound, Owned
  <2>2. QED
    BY <1>1, <1>8, <2>1, Matched DEF Sound
<1>11. PICK n \in Nat : /\ n = Len(m.fills) /\ DOMAIN m.fills = 1 .. n
                        /\ recs = [i \in 1 .. n |-> FillRecord(live, id, r, m.fills[i])]
                        /\ recs = Records(live, id, r, m.fills)
  <2>1. m.fills \in Seq(BookFill)
    BY <1>10 DEF Going
  <2>2. Len(m.fills) \in Nat /\ DOMAIN m.fills = 1 .. Len(m.fills)
    BY <2>1
  <2>3. QED
    BY <1>2, <2>2 DEF Records
<1>12. /\ DOMAIN a = 1 .. n + 1 /\ a[1] = acc /\ \A i \in 1 .. n : a[1 + i] = recs[i]
       /\ \E U : a \in Seq(U)
  <2>1. Row(recs, n)
    BY <1>11 DEF Row
  <2>2. Leads(acc, recs, n, a)
    BY <1>3, <2>1, OneThenMore
  <2>3. QED
    BY <2>2 DEF Leads
<1>13. \A i \in 1 .. n : recs[i].kind = "Fill" /\ recs[i] = FillRecord(live, id, r, m.fills[i])
  <2>1. \A i \in 1 .. n : recs[i] = FillRecord(live, id, r, m.fills[i])
    BY <1>11
  <2>2. \A fill : FillRecord(live, id, r, fill).kind = "Fill"
    BY DEF FillRecord, Fill
  <2>3. QED
    BY <2>1, <2>2
<1>14. Tracking!Folded(Quantities(e), a) = Quantities(s)
  <2>1. PICK q, t : q = Quantities(e) /\ t = <<acc>>
    OBVIOUS
  <2>2. DOMAIN t = 1 .. 1 /\ t[1] = acc
    BY <2>1
  <2>3. Tracking!Folded(q, t) = Track(q, acc)
    BY <2>1, FoldedOne
  <2>4. Track(q, acc) = Quantities(b)
    BY <1>1, <1>2, <1>6, <2>1, TrackedAccept
  <2>5. PICK one \in Nat : one = 1
    OBVIOUS
  <2>6. /\ Tracking!Agree(t, a, one) /\ DOMAIN a = 1 .. one + n /\ DOMAIN t = 1 .. one
        /\ DOMAIN recs = 1 .. n /\ \A i \in 1 .. n : a[one + i] = recs[i]
    <3>1. Tracking!Agree(t, a, 1) /\ DOMAIN t = 1 .. 1
      BY <1>12, <2>2 DEF Tracking!Agree
    <3>2. DOMAIN a = 1 .. 1 + n
      BY <1>12
    <3>3. DOMAIN recs = 1 .. n
      BY <1>11
    <3>4. \A i \in 1 .. n : a[1 + i] = recs[i]
      BY <1>12
    <3>5. QED
      BY <2>5, <3>1, <3>2, <3>3, <3>4
  <2>7. Tracking!Folded(q, a) = Tracking!Folded(Tracking!Folded(q, t), recs)
    BY ONLY <2>6, Tracking!FoldedConcat
  <2>8. Tracking!Folded(Quantities(b), recs) = Quantities(m.eng)
    BY <1>10, <1>11 DEF Tracked
  <2>9. Quantities(m.eng) = Quantities(s)
    BY <1>9 DEF Quantities
  <2>10. QED
    BY <2>1, <2>3, <2>4, <2>7, <2>8, <2>9
<1>15. Engine(s)
  <2>1. \A x \in Symbols : ~CanMatch(s, x)
    <3> SUFFICES ASSUME NEW x \in Symbols, x # r.sym PROVE ~CanMatch(s, x)
      BY <1>9
    <3>1. Clear(e, x)
      BY <1>6, ClearIsUncrossed DEF Engine, Sound
    <3>2. \A y \in DOMAIN s.orders : s.orders[y].sym = x =>
             /\ y \in DOMAIN e.orders /\ s.orders[y].sym = e.orders[y].sym
             /\ s.orders[y].side = e.orders[y].side /\ s.orders[y].price = e.orders[y].price
      <4> SUFFICES ASSUME NEW y \in DOMAIN s.orders, s.orders[y].sym = x
                   PROVE  /\ y \in DOMAIN e.orders /\ s.orders[y].sym = e.orders[y].sym
                          /\ s.orders[y].side = e.orders[y].side
                          /\ s.orders[y].price = e.orders[y].price
        OBVIOUS
      <4>1. /\ y \in DOMAIN b.orders /\ s.orders[y].sym = b.orders[y].sym
            /\ s.orders[y].side = b.orders[y].side /\ s.orders[y].price = b.orders[y].price
        BY <1>9 DEF Within, LevelOf
      <4>2. y \in DOMAIN e.orders
        BY <1>7, <4>1 DEF Enters
      <4>3. b.orders[y] = e.orders[y]
        BY <1>7, <4>2 DEF Enters
      <4>4. QED
        BY <4>1, <4>2, <4>3
    <3>3. Clear(s, x)
      BY <3>1, <3>2 DEF Clear
    <3>4. QED
      BY <1>9, <3>3, ClearIsUncrossed DEF Sound
  <2>2. QED
    BY <1>9, <2>1 DEF Sound, Engine
<1>16. Reached(e) /\ (\A x \in DOMAIN e.live : KeyOf(e.live[x]) # KeyOf(r)) => Reached(s)
  BY <1>7, <1>9 DEF Enters
<1>17. ASSUME NEW g, DOMAIN g.orders \subseteq DOMAIN s.orders, NEW i \in 1 .. n
       PROVE  Prior(e, g, acc, recs[i])
  <2>1. PICK fill, rec, S : /\ fill = m.fills[i] /\ rec = recs[i] /\ S = DOMAIN m.eng.orders
    OBVIOUS
  <2>2. Happened(Entered(e, r), r.sym, S, fill)
    BY <1>1, <1>10, <1>11, <2>1 DEF Going
  <2>3. rec = FillRecord(Known(e, r).live, e.next, r, fill)
    BY <1>1, <1>13, <2>1
  <2>4. DOMAIN g.orders \subseteq S
    BY <1>9, <1>17, <2>1
  <2>5. Prior(e, g, OrderAccepted(r, e.next), rec)
    BY <1>6, <2>2, <2>3, <2>4, PriorFill
  <2>6. QED
    BY <1>1, <1>2, <2>1, <2>5
<1>18. IsAnchor(acc) /\ acc.kind # "Fill" /\ \A i \in 1 .. n : ~IsAnchor(recs[i])
  BY <1>2, <1>13 DEF IsAnchor, OrderAccepted
<1>19. CASE ~(r.tif = "IOC" /\ id \in DOMAIN s.orders)
  <2>1. PICK z : z = Submit(e, r) /\ z.eng = s /\ z.out = a
    BY <1>5, <1>19
  <2>2. Anchored(a)
    <3>1. n + 1 \in Nat /\ n + 1 > 0 /\ \A i \in 1 .. n + 1 : i # 1 => i - 1 \in 1 .. n /\ 1 + (i - 1) = i
      OBVIOUS
    <3>2. \A i \in 1 .. n + 1 : i # 1 => ~IsAnchor(a[i])
      BY <1>12, <1>18, <3>1
    <3>3. QED
      BY <1>12, <1>18, <3>1, <3>2 DEF Anchored
  <2>3. ASSUME NEW i \in DOMAIN a, a[i].kind = "Fill" PROVE Prior(e, s, a[1], a[i])
    <3>1. i # 1
      BY <1>12, <1>18, <2>3
    <3>2. i - 1 \in 1 .. n /\ a[i] = recs[i - 1]
      <4>1. i - 1 \in 1 .. n /\ 1 + (i - 1) = i
        BY <1>12, <3>1
      <4>2. QED
        BY <1>12, <4>1
    <3>3. QED
      BY <1>12, <1>17, <3>2
  <2>4. Answers(e, r, z)
    BY <1>14, <1>15, <1>16, <2>1, <2>2, <2>3 DEF Answers, Submitted
  <2>5. QED
    BY <2>1, <2>4
<1>20. CASE r.tif = "IOC" /\ id \in DOMAIN s.orders
  <2>1. PICK z, c : z = Submit(e, r) /\ z.eng = left /\ z.out = c /\ c = Append(a, expired)
    BY <1>5, <1>20
  <2>2. /\ DOMAIN c = 1 .. n + 2 /\ c[n + 2] = expired /\ \A i \in 1 .. n + 1 : c[i] = a[i]
    <3>1. PICK U : a \in Seq(U)
      BY <1>12
    <3>2. Len(a) = n + 1
      BY <1>12, <3>1
    <3>3. PICK V : V = U \union {expired}
      OBVIOUS
    <3>4. a \in Seq(V) /\ expired \in V
      BY <3>1, <3>3
    <3>5. /\ Append(a, expired) \in Seq(V) /\ Len(Append(a, expired)) = Len(a) + 1
          /\ Append(a, expired)[Len(a) + 1] = expired
          /\ \A i \in 1 .. Len(a) : Append(a, expired)[i] = a[i]
      BY <3>4
    <3>6. (n + 1) + 1 = n + 2
      OBVIOUS
    <3>7. QED
      BY <2>1, <3>2, <3>5, <3>6
  <2>3. mine.id = id /\ expired.kind = "OrderCancelled" /\ expired.id = id
        /\ expired.remaining = s.orders[id].qty /\ expired.reason = "IOC_EXPIRED"
    BY <1>1, <1>4 DEF NewOrder, OrderCancelled
  <2>4. /\ Sound(left) /\ Within(s, left)
        /\ Reached(s) => Reached(left)
        /\ \A x : ~CanMatch(s, x) => ~CanMatch(left, x)
        /\ Track(Quantities(s), expired) = Quantities(left)
    BY <1>4, <1>9, <1>20, <2>3, Cancelling
  <2>5. Engine(left)
    BY <1>15, <2>4 DEF Engine, Sound
  <2>6. Tracking!Folded(Quantities(e), c) = Quantities(left)
    <3>1. PICK q, k : q = Quantities(e) /\ k = n + 1 /\ k \in Nat /\ k + 1 = n + 2
      OBVIOUS
    <3>2. DOMAIN c = 1 .. k + 1 /\ DOMAIN a = 1 .. k /\ Tracking!Agree(a, c, k) /\ c[k + 1] = expired
      BY <1>12, <2>2, <3>1 DEF Tracking!Agree
    <3>3. Tracking!Folded(q, c) = Track(Tracking!Folded(q, a), c[k + 1])
      BY ONLY <3>1, <3>2, Tracking!FoldedLast
    <3>4. QED
      BY <1>14, <2>4, <3>1, <3>2, <3>3
  <2>7. ~IsAnchor(expired) /\ expired.kind # "Fill"
    BY <2>3 DEF IsAnchor
  <2>8. ASSUME NEW i \in 1 .. n + 2
        PROVE  \/ i = 1 /\ c[i] = acc
               \/ i # 1 /\ c[i] = expired
               \/ i # 1 /\ i - 1 \in 1 .. n /\ c[i] = recs[i - 1]
    <3>1. CASE i = 1
      <4>1. 1 \in 1 .. n + 1
        OBVIOUS
      <4>2. QED
        BY <1>12, <2>2, <3>1, <4>1
    <3>2. CASE i = n + 2
      BY <2>2, <3>2
    <3>3. CASE i # 1 /\ i # n + 2
      <4>1. i \in 1 .. n + 1 /\ i - 1 \in 1 .. n /\ 1 + (i - 1) = i
        BY <3>3
      <4>2. QED
        BY <1>12, <2>2, <3>3, <4>1
    <3>4. QED
      BY <3>1, <3>2, <3>3
  <2>9. c[1] = acc
    <3>1. 1 \in 1 .. n + 1
      OBVIOUS
    <3>2. QED
      BY <1>12, <2>2, <3>1
  <2>10. Anchored(c)
    <3>1. n + 2 \in Nat /\ n + 2 > 0
      OBVIOUS
    <3>2. \A i \in 1 .. n + 2 : i # 1 => ~IsAnchor(c[i])
      BY <1>18, <2>7, <2>8
    <3>3. QED
      BY <1>18, <2>2, <2>9, <3>1, <3>2 DEF Anchored
  <2>11. DOMAIN left.orders \subseteq DOMAIN s.orders
    BY <2>4 DEF Within
  <2>12. \A i \in DOMAIN c : c[i].kind = "Fill" => Prior(e, left, c[1], c[i])
    <3>1. ASSUME NEW i \in 1 .. n + 2, c[i].kind = "Fill" PROVE Prior(e, left, acc, c[i])
      <4>1. i - 1 \in 1 .. n /\ c[i] = recs[i - 1]
        BY <1>18, <2>7, <2>8, <3>1
      <4>2. QED
        BY <1>17, <2>11, <4>1
    <3>2. QED
      BY <2>2, <2>9, <3>1
  <2>13. Answers(e, r, z)
    BY <1>16, <2>1, <2>4, <2>5, <2>6, <2>10, <2>12 DEF Answers, Submitted
  <2>14. QED
    BY <2>1, <2>13
<1>21. QED
  BY <1>19, <1>20

LEMMA OneRecord ==
    ASSUME NEW e, NEW r, NEW g, Engine(g), NEW rec, IsAnchor(rec), rec.kind # "Fill",
           Track(Quantities(e), rec) = Quantities(g), Reached(e) => Reached(g),
           NEW a, a = [eng |-> g, out |-> <<rec>>]
    PROVE  Answers(e, r, a)
<1>1. PICK c : c = <<rec>>
  OBVIOUS
<1>2. DOMAIN c = 1 .. 1 /\ c[1] = rec /\ a.out = c /\ a.eng = g
  BY <1>1
<1>3. Anchored(c)
  <2>1. 1 \in Nat /\ 1 > 0 /\ \A i \in 1 .. 1 : i = 1
    OBVIOUS
  <2>2. QED
    BY <1>2, <2>1 DEF Anchored
<1>4. Tracking!Folded(Quantities(e), c) = Quantities(g)
  BY <1>1, FoldedOne
<1>5. \A i \in DOMAIN c : c[i].kind # "Fill"
  <2>1. \A i \in 1 .. 1 : i = 1
    OBVIOUS
  <2>2. QED
    BY <1>2, <2>1
<1>6. QED
  BY <1>2, <1>3, <1>4, <1>5 DEF Answers

LEMMA Applying ==
    ASSUME NEW e, Engine(e), NEW r, r \in Inputs
    PROVE  Answers(e, r, Apply(e, r))
<1>1. /\ r.kind \in {"SubmitOrder", "CancelOrder"} \union Sequenced
      /\ r.kind = "SubmitOrder" => /\ r.sym \in Symbols
                                   /\ r.price \in Int /\ r.qty \in Int
                                   /\ r.price > 0 => r.price \in Prices
  BY InputsAreRecords
<1>2. ASSUME NEW reason, Apply(e, r) = Reject(e, r, reason) PROVE Answers(e, r, Apply(e, r))
  <2>1. PICK rec, a : rec = OrderRejected(r, reason) /\ a = Apply(e, r)
    OBVIOUS
  <2>2. a = [eng |-> e, out |-> <<rec>>]
    BY <1>2, <2>1 DEF Reject
  <2>3. rec.kind = "OrderRejected"
    BY <2>1 DEF OrderRejected
  <2>4. Track(Quantities(e), rec) = Quantities(e) /\ IsAnchor(rec) /\ rec.kind # "Fill"
    BY <2>3 DEF Track, IsAnchor
  <2>5. QED
    BY <2>1, <2>2, <2>4, OneRecord
<1>3. CASE r.kind = "SubmitOrder"
  <2>1. CASE ~WellFormed(r)
    <3>1. Apply(e, r) = Reject(e, r, Refusal(r))
      BY <1>3, <2>1 DEF Apply, Sequenced
    <3>2. QED
      BY <1>2, <3>1
  <2>2. CASE WellFormed(r)
    <3>1. Apply(e, r) = Submit(e, r)
      BY <1>3, <2>2 DEF Apply, Sequenced
    <3>2. Submitted(r)
      BY <1>1, <1>3, <2>2 DEF Submitted, WellFormed
    <3>3. QED
      BY <3>1, <3>2, Submitting
  <2>3. QED
    BY <2>1, <2>2
<1>4. CASE r.kind = "CancelOrder"
  <2>1. PICK target, id : target = <<r.user, r.target>> /\ id = e.index[target]
    OBVIOUS
  <2>2. Apply(e, r) = Cancel(e, r)
    BY <1>4 DEF Apply, Sequenced
  <2>3. CASE target \notin DOMAIN e.index
    <3>1. Apply(e, r) = Reject(e, r, "UNKNOWN_ORDER")
      BY <2>1, <2>2, <2>3 DEF Cancel
    <3>2. QED
      BY <1>2, <3>1
  <2>4. CASE target \in DOMAIN e.index
    <3>1. PICK g, rec, a : /\ g = Forget(RemoveOrder(e, id), id) /\ a = Apply(e, r)
                           /\ rec = OrderCancelled(e.live[id], e.orders[id].qty, "USER_REQUESTED")
      OBVIOUS
    <3>2. a = [eng |-> g, out |-> <<rec>>]
      BY <2>1, <2>2, <2>4, <3>1 DEF Cancel
    <3>3. Sound(e) /\ id \in DOMAIN e.orders /\ e.live[id].id = id
      BY <2>1, <2>4 DEF Engine, Sound, Indexed, Owned
    <3>4. /\ rec.kind = "OrderCancelled" /\ rec.id = id /\ rec.remaining = e.orders[id].qty
          /\ rec.reason = "USER_REQUESTED"
      BY <3>1, <3>3 DEF OrderCancelled
    <3>5. /\ Sound(g) /\ \A s : ~CanMatch(e, s) => ~CanMatch(g, s)
          /\ Track(Quantities(e), rec) = Quantities(g)
          /\ Reached(e) => Reached(g)
      BY <3>1, <3>3, <3>4, Cancelling
    <3>6. Engine(g)
      BY <3>5 DEF Engine, Sound
    <3>7. IsAnchor(rec) /\ rec.kind # "Fill"
      BY <3>4 DEF IsAnchor
    <3>8. QED
      BY <3>1, <3>2, <3>5, <3>6, <3>7, OneRecord
  <2>5. QED
    BY <2>3, <2>4
<1>5. CASE r.kind \in Sequenced
  <2>1. PICK rec, a : rec = Forwarded(r) /\ a = Apply(e, r)
    OBVIOUS
  <2>2. a = [eng |-> e, out |-> <<rec>>]
    BY <1>5, <2>1 DEF Apply, Sequenced
  <2>3. rec.kind \in {"AccountCreated", "CashCredited", "ReplayConfigured"}
    BY <1>5, <2>1 DEF Forwarded, Sequenced, AccountCreated, CashCredited, ReplayConfigured
  <2>4. Track(Quantities(e), rec) = Quantities(e) /\ IsAnchor(rec) /\ rec.kind # "Fill"
    BY <2>3 DEF Track, IsAnchor
  <2>5. QED
    BY <2>1, <2>2, <2>4, OneRecord
<1>6. QED
  BY <1>1, <1>3, <1>4, <1>5

LEMMA NewEngine == Engine(New) /\ Reached(New) /\ Quantities(New) = <<>>
<1>1. PICK e, none : e = New /\ none = <<>> /\ DOMAIN none = {}
  OBVIOUS
<1>2. /\ DOMAIN e = Fields /\ e.next = 1 /\ e.orders = none /\ e.levels = none
      /\ e.live = none /\ e.index = none /\ e.arrivals = [s \in Symbols |-> 0]
  BY <1>1 DEF New, Fields
<1>3. Book(e)
  <2>1. Shaped(e)
    BY <1>1, <1>2 DEF Shaped
  <2>2. Queued(e)
    BY <1>1, <1>2 DEF Queued
  <2>3. QED
    BY <2>1, <2>2 DEF Book
<1>4. \A s : ~CanMatch(e, s)
  BY <1>1, <1>2 DEF CanMatch, Quoted
<1>5. Positive(e) /\ Owned(e) /\ Indexed(e) /\ Reached(e) /\ DOMAIN e.live = DOMAIN e.orders
  BY <1>1, <1>2 DEF Positive, Owned, Indexed, Reached
<1>6. Quantities(e) = none
  <2>1. Quantities(e) = [id \in {} |-> e.orders[id].qty]
    BY <1>1, <1>2 DEF Quantities
  <2>2. none = [id \in {} |-> e.orders[id].qty]
    BY <1>1
  <2>3. QED
    BY <2>1, <2>2
<1>7. QED
  BY <1>1, <1>3, <1>4, <1>5, <1>6 DEF Engine

-----------------------------------------------------------------------------
(***************************************************************************)
(* The engine that is never stopped.                                       *)
(***************************************************************************)

\* What a record does to the engine and to who follows it.
LEMMA Fed ==
    ASSUME NEW r \in Inputs, Feed(r), Engine(eng)
    PROVE  /\ Answers(eng, r, Apply(eng, r))
           /\ eng' = Apply(eng, r).eng /\ out' = Apply(eng, r).out
           /\ twin' = Apply(twin, r).eng /\ twinOut' = Apply(twin, r).out
           /\ view' = Tracking!Folded(view, out')
           /\ ~reused' => /\ ~reused
                          /\ r.kind = "SubmitOrder" =>
                                \A x \in DOMAIN eng.live : KeyOf(eng.live[x]) # KeyOf(r)
<1>1. Answers(eng, r, Apply(eng, r))
  BY Applying
<1>2. /\ eng' = Apply(eng, r).eng /\ out' = Apply(eng, r).out
      /\ twin' = Apply(twin, r).eng /\ twinOut' = Apply(twin, r).out
      /\ view' = Follow(view, Apply(eng, r).out)
      /\ reused' = (reused \/ Reuses(r))
  BY DEF Feed
<1>3. \A open, records : Follow(open, records) = Tracking!Folded(open, records)
  BY DEF Follow, FoldLeft, MapThenFoldSet, Tracking!Folded, Tracking!Folds, Tracking!Max, Max
<1>4. view' = Tracking!Folded(view, out')
  BY <1>2, <1>3
<1>5. ASSUME ~reused'
      PROVE  /\ ~reused
             /\ r.kind = "SubmitOrder" =>
                   \A x \in DOMAIN eng.live : KeyOf(eng.live[x]) # KeyOf(r)
  BY <1>2, <1>5 DEF Reuses
<1>6. QED
  BY <1>1, <1>2, <1>4, <1>5

\* Between two records the book, the queues of its levels, the live orders and
\* the client index of the C++ engine agree, no book is crossed, and the events
\* tell a consumer exactly what rests (order_book.cpp, stream_engine.cpp).
THEOREM EngineInvariant == Spec => []EInv
<1>1. Init => EInv
  BY NewEngine DEF Init, EInv
<1>2. EInv /\ [Next]_vars => EInv'
  <2> SUFFICES ASSUME EInv, [Next]_vars PROVE EInv'
    OBVIOUS
  <2>1. ASSUME NEW r \in Inputs, Feed(r) PROVE EInv'
    <3>1. PICK a : a = Apply(eng, r) /\ Answers(eng, r, a) /\ eng' = a.eng /\ out' = a.out
                   /\ view' = Tracking!Folded(view, out')
      BY <2>1, Fed DEF EInv
    <3>2. Engine(eng')
      BY <3>1 DEF Answers
    <3>3. view' = Quantities(eng')
      BY <3>1 DEF Answers, EInv
    <3>4. ~reused' => Reached(eng')
      <4>1. ~reused' => /\ ~reused
                        /\ r.kind = "SubmitOrder" =>
                              \A x \in DOMAIN eng.live : KeyOf(eng.live[x]) # KeyOf(r)
        BY <2>1, Fed DEF EInv
      <4>2. QED
        BY <3>1, <4>1 DEF Answers, EInv
    <3>5. QED
      BY <3>2, <3>3, <3>4 DEF EInv
  <2>2. CASE UNCHANGED <<eng, view, reused>>
    <3>1. eng' = eng /\ view' = view /\ reused' = reused
      BY <2>2
    <3>2. Engine(eng') /\ view' = Quantities(eng') /\ (~reused' => Reached(eng'))
      BY <3>1 DEF EInv
    <3>3. QED
      BY <3>2 DEF EInv
  <2>3. QED
    BY <2>1, <2>2 DEF Next, Restart, vars
<1>3. QED
  BY <1>1, <1>2, PTL DEF Spec

\* The order book is sound after every record (match, order_book.cpp:244;
\* schema.toml, OrderAccepted).
THEOREM BookStaysSound == Spec => []BookIsSound
<1>1. EInv => BookIsSound
  <2> SUFFICES ASSUME EInv PROVE BookIsSound
    OBVIOUS
  <2>1. Book(eng) /\ Positive(eng) /\ DOMAIN eng.live = DOMAIN eng.orders /\ view = Quantities(eng)
        /\ \A s \in Symbols : ~CanMatch(eng, s)
    BY DEF EInv, Engine
  <2>2. view = [id \in DOMAIN eng.live |-> eng.orders[id].qty]
    BY <2>1 DEF Quantities
  <2>3. ASSUME NEW id \in DOMAIN eng.orders
        PROVE  eng.orders[id].qty > 0 /\ Contains(QueueAt(eng, LevelOf(eng.orders[id])), id)
    <3>1. PICK level : level = LevelOf(eng.orders[id])
      OBVIOUS
    <3>2. level \in DOMAIN eng.levels /\ InQueue(eng.levels[level], id)
      BY <2>1, <3>1 DEF Book, Queued
    <3>3. Contains(QueueAt(eng, level), id)
      BY <3>2 DEF Contains, QueueAt, InQueue
    <3>4. QED
      BY <2>1, <3>1, <3>3 DEF Positive
  <2>4. ASSUME NEW level \in DOMAIN eng.levels, NEW q, q = eng.levels[level],
               NEW i \in DOMAIN q
        PROVE  /\ LevelOf(eng.orders[q[i]]) = level
               /\ \A j \in 1 .. (i - 1) : eng.orders[q[j]].arrival < eng.orders[q[i]].arrival
    <3>1. QueueOk(q, level, eng.orders)
      BY <2>1, <2>4 DEF Book, Queued
    <3>2. q \in Seq(DOMAIN eng.orders) /\ i \in 1 .. Len(q)
      BY <2>4, <3>1 DEF QueueOk
    <3>3. LevelOf(eng.orders[q[i]]) = level
      BY <3>1, <3>2 DEF QueueOk
    <3>4. ASSUME NEW j \in 1 .. (i - 1) PROVE eng.orders[q[j]].arrival < eng.orders[q[i]].arrival
      <4>1. j \in 1 .. Len(q) /\ j < i
        BY <3>2
      <4>2. PICK x, y : x = q[j] /\ y = q[i] /\ x \in DOMAIN eng.orders /\ y \in DOMAIN eng.orders
        BY <3>2, <4>1
      <4>3. x < y /\ LevelOf(eng.orders[x]) = level /\ LevelOf(eng.orders[y]) = level
        BY <3>1, <3>2, <4>1, <4>2 DEF QueueOk
      <4>4. eng.orders[x].sym = eng.orders[y].sym
        BY <4>3 DEF LevelOf
      <4>5. eng.orders[x].arrival < eng.orders[y].arrival
        BY <2>1, <4>2, <4>3, <4>4 DEF Book, Shaped
      <4>6. QED
        BY <4>2, <4>5
    <3>5. QED
      BY <3>3, <3>4
  <2>5. QED
    BY <2>1, <2>2, <2>3, <2>4 DEF BookIsSound
<1>2. QED
  BY <1>1, EngineInvariant, PTL

\* The client index leads to live orders of its key, and to every one of them
\* while no client id is used twice (stream_engine.cpp, submit and cancel).
THEOREM ClientIndexStaysExact == Spec => []ClientIndexIsExact
<1>1. EInv => ClientIndexIsExact
  BY DEF EInv, Engine, Indexed, Reached, ClientIndexIsExact
<1>2. QED
  BY <1>1, EngineInvariant, PTL

\* Every record is answered by one anchor, the first record of the answer
\* (services/matcher/runner.py counts anchors to know where it was).
THEOREM AnchorsComeFirst == Spec => OneAnchorFirst
<1>1. EInv /\ [Next]_vars => [{i \in DOMAIN out' : IsAnchor(out'[i])} = {1}]_<<eng, out>>
  <2> SUFFICES ASSUME EInv, [Next]_vars, <<eng, out>>' # <<eng, out>>
               PROVE  {i \in DOMAIN out' : IsAnchor(out'[i])} = {1}
    OBVIOUS
  <2>1. PICK r \in Inputs : Feed(r)
    BY DEF Next, Restart, vars
  <2>2. Anchored(out')
    BY <2>1, Fed DEF EInv, Answers
  <2>3. 1 \in DOMAIN out'
    BY <2>2 DEF Anchored
  <2>4. QED
    BY <2>2, <2>3 DEF Anchored
<1>2. QED
  BY <1>1, EngineInvariant, PTL DEF Spec, OneAnchorFirst

\* Fills go by price, then by time, at the resting order's price (match,
\* order_book.cpp:244, and README.md on price-time priority).
THEOREM PriceThenTime == Spec => PriceTimePriority
<1> DEFINE Fills == \A i \in DOMAIN out' : out'[i].kind = "Fill" => Prior(eng, eng', out'[1], out'[i])
<1>1. EInv /\ [Next]_vars => [Fills]_<<eng, out>>
  <2> SUFFICES ASSUME EInv, [Next]_vars, <<eng, out>>' # <<eng, out>> PROVE Fills
    OBVIOUS
  <2>1. PICK r \in Inputs : Feed(r)
    BY DEF Next, Restart, vars
  <2>2. PICK a : a = Apply(eng, r) /\ Answers(eng, r, a) /\ eng' = a.eng /\ out' = a.out
    BY <2>1, Fed DEF EInv
  <2>3. QED
    BY <2>2 DEF Answers
<1>2. QED
  BY <1>1, EngineInvariant, PTL DEF Spec, PriceTimePriority, Prior

-----------------------------------------------------------------------------
(***************************************************************************)
(* Engines that differ in arrival numbers give the same answers.           *)
(***************************************************************************)
LEMMA SamePut ==
    ASSUME NEW f, NEW g, Same(f, g), NEW x, NEW v, NEW w, v = w
    PROVE  Same(Put(f, x, v), Put(g, x, w))
<1>1. /\ DOMAIN Put(f, x, v) = DOMAIN f \union {x} /\ Put(f, x, v)[x] = v
      /\ \A y \in DOMAIN f : y # x => Put(f, x, v)[y] = f[y]
  BY DEF Put, Upsert
<1>2. /\ DOMAIN Put(g, x, v) = DOMAIN g \union {x} /\ Put(g, x, v)[x] = v
      /\ \A y \in DOMAIN g : y # x => Put(g, x, v)[y] = g[y]
  BY DEF Put, Upsert
<1>3. QED
  BY <1>1, <1>2 DEF Same

LEMMA SameWithout ==
    ASSUME NEW f, NEW g, Same(f, g), NEW x
    PROVE  Same(Without(f, x), Without(g, x))
<1>1. /\ DOMAIN Without(f, x) = DOMAIN f \ {x}
      /\ \A y \in DOMAIN f : y # x => Without(f, x)[y] = f[y]
  BY WithoutIs
<1>2. /\ DOMAIN Without(g, x) = DOMAIN g \ {x}
      /\ \A y \in DOMAIN g : y # x => Without(g, x)[y] = g[y]
  BY WithoutIs
<1>3. QED
  BY <1>1, <1>2 DEF Same

LEMMA AlikeAdded ==
    ASSUME NEW e, NEW t, Alike(e, t), NEW o,
           NEW f, f = AddOrder(e, o), NEW u, u = AddOrder(t, o)
    PROVE  Alike(f, u)
<1>1. PICK level, row, new :
         /\ level = LevelOf(o)
         /\ row = [sym |-> o.sym, side |-> o.side, price |-> o.price,
                   qty |-> o.qty, arrival |-> e.arrivals[o.sym]]
         /\ new = [sym |-> o.sym, side |-> o.side, price |-> o.price,
                   qty |-> o.qty, arrival |-> t.arrivals[o.sym]]
  OBVIOUS
<1>2. PICK q, p : q = Append(QueueAt(e, level), o.id) /\ p = Append(QueueAt(t, level), o.id)
  OBVIOUS
<1>3. /\ DOMAIN f = Fields /\ f.next = e.next /\ f.live = e.live /\ f.index = e.index
      /\ f.orders = Put(e.orders, o.id, row) /\ f.levels = Put(e.levels, level, q)
  BY <1>1, <1>2 DEF AddOrder, Fields, Alike
<1>4. /\ DOMAIN u = Fields /\ u.next = t.next /\ u.live = t.live /\ u.index = t.index
      /\ u.orders = Put(t.orders, o.id, new) /\ u.levels = Put(t.levels, level, p)
  BY <1>1, <1>2 DEF AddOrder, Fields, Alike
<1>5. QueueAt(e, level) = QueueAt(t, level)
  BY DEF QueueAt, Alike, Same
<1>6. q = p
  BY <1>2, <1>5
<1>7. Same(f.levels, u.levels)
  BY <1>3, <1>4, <1>6, SamePut DEF Alike
<1>8. LevelOf(row) = LevelOf(new) /\ row.qty = new.qty
  BY <1>1 DEF LevelOf
<1>9. /\ DOMAIN f.orders = DOMAIN e.orders \union {o.id} /\ f.orders[o.id] = row
      /\ \A y \in DOMAIN e.orders : y # o.id => f.orders[y] = e.orders[y]
  BY <1>3 DEF Put, Upsert
<1>10. /\ DOMAIN u.orders = DOMAIN t.orders \union {o.id} /\ u.orders[o.id] = new
       /\ \A y \in DOMAIN t.orders : y # o.id => u.orders[y] = t.orders[y]
  BY <1>4 DEF Put, Upsert
<1>11. DOMAIN f.orders = DOMAIN u.orders
  BY <1>9, <1>10 DEF Alike
<1>12. \A x \in DOMAIN f.orders : /\ LevelOf(f.orders[x]) = LevelOf(u.orders[x])
                                  /\ f.orders[x].qty = u.orders[x].qty
  BY <1>8, <1>9, <1>10 DEF Alike
<1>13. QED
  BY <1>3, <1>4, <1>7, <1>11, <1>12 DEF Alike

\* Removing an order leaves the other levels, and the other orders.
Kept(e, id, f) ==
    /\ \A l \in DOMAIN e.levels : l # LevelOf(e.orders[id]) => l \in DOMAIN f.levels
    /\ \A x \in DOMAIN e.orders : x # id => x \in DOMAIN f.orders /\ f.orders[x] = e.orders[x]

LEMMA RemovedKeeps ==
    ASSUME NEW e, DOMAIN e = Fields, NEW id, NEW f, f = RemoveOrder(e, id)
    PROVE  Kept(e, id, f)
<1>1. PICK level, q : level = LevelOf(e.orders[id]) /\ q = Erase(e.levels[level], id)
  OBVIOUS
<1>2. /\ f.orders = Without(e.orders, id)
      /\ f.levels = IF q = <<>> THEN Without(e.levels, level) ELSE Put(e.levels, level, q)
  BY <1>1 DEF RemoveOrder, Fields
<1>3. \A l \in DOMAIN e.levels : l # level => l \in DOMAIN f.levels
  BY <1>2 DEF Without, Restrict, Put, Upsert
<1>4. \A x \in DOMAIN e.orders : x # id => x \in DOMAIN f.orders /\ f.orders[x] = e.orders[x]
  BY <1>2 DEF Without, Restrict
<1>5. QED
  BY <1>1, <1>3, <1>4 DEF Kept

LEMMA AlikeRemoved ==
    ASSUME NEW e, NEW t, Alike(e, t), NEW id, id \in DOMAIN e.orders,
           LevelOf(e.orders[id]) \in DOMAIN e.levels,
           NEW f, f = RemoveOrder(e, id), NEW u, u = RemoveOrder(t, id)
    PROVE  Alike(f, u) /\ f.live = e.live /\ u.live = t.live
<1>1. PICK level, q, p : /\ level = LevelOf(e.orders[id]) /\ level = LevelOf(t.orders[id])
                         /\ q = Erase(e.levels[level], id) /\ p = Erase(t.levels[level], id)
  BY DEF Alike
<1>2. DOMAIN e = Fields /\ DOMAIN t = Fields
  BY DEF Alike
<1>3. /\ DOMAIN f = Fields /\ f.next = e.next /\ f.live = e.live /\ f.index = e.index
      /\ f.orders = Without(e.orders, id)
      /\ f.levels = IF q = <<>> THEN Without(e.levels, level) ELSE Put(e.levels, level, q)
  BY <1>1, <1>2 DEF RemoveOrder, Fields
<1>4. /\ DOMAIN u = Fields /\ u.next = t.next /\ u.live = t.live /\ u.index = t.index
      /\ u.orders = Without(t.orders, id)
      /\ u.levels = IF p = <<>> THEN Without(t.levels, level) ELSE Put(t.levels, level, p)
  BY <1>1, <1>2 DEF RemoveOrder, Fields
<1>5. q = p
  <2>1. e.levels[level] = t.levels[level]
    BY <1>1 DEF Alike, Same
  <2>2. QED
    BY <1>1, <2>1
<1>6. Same(f.levels, u.levels)
  <2>1. Same(e.levels, t.levels)
    BY DEF Alike
  <2>2. CASE q = <<>>
    BY <1>3, <1>4, <1>5, <2>1, <2>2, SameWithout
  <2>3. CASE q # <<>>
    BY <1>3, <1>4, <1>5, <2>1, <2>3, SamePut
  <2>4. QED
    BY <2>2, <2>3
<1>7. /\ DOMAIN f.orders = DOMAIN e.orders \ {id}
      /\ \A y \in DOMAIN e.orders : y # id => f.orders[y] = e.orders[y]
  BY <1>3 DEF Without, Restrict
<1>8. /\ DOMAIN u.orders = DOMAIN t.orders \ {id}
      /\ \A y \in DOMAIN t.orders : y # id => u.orders[y] = t.orders[y]
  BY <1>4 DEF Without, Restrict
<1>9. /\ DOMAIN f.orders = DOMAIN u.orders
      /\ \A x \in DOMAIN f.orders : /\ LevelOf(f.orders[x]) = LevelOf(u.orders[x])
                                    /\ f.orders[x].qty = u.orders[x].qty
  BY <1>7, <1>8 DEF Alike
<1>10. QED
  BY <1>3, <1>4, <1>6, <1>9 DEF Alike

LEMMA AlikeBests ==
    ASSUME NEW e, NEW t, Alike(e, t), NEW sym
    PROVE  /\ BestBid(e, sym) = BestBid(t, sym) /\ BestAsk(e, sym) = BestAsk(t, sym)
           /\ CanMatch(e, sym) <=> CanMatch(t, sym)
<1>1. \A side : Quoted(e, sym, side) = Quoted(t, sym, side)
  BY DEF Quoted, Alike, Same
<1>2. BestBid(e, sym) = BestBid(t, sym)
  BY <1>1 DEF BestBid
<1>3. BestAsk(e, sym) = BestAsk(t, sym)
  BY <1>1 DEF BestAsk
<1>4. QED
  BY <1>1, <1>2, <1>3 DEF CanMatch

\* Of two orders of a symbol, the one with the smaller id arrived first.
LEMMA OlderIsSmaller ==
    ASSUME NEW e, Book(e), NEW a \in DOMAIN e.orders, NEW b \in DOMAIN e.orders, a # b,
           e.orders[a].sym = e.orders[b].sym
    PROVE  e.orders[a].arrival < e.orders[b].arrival <=> a < b
<1>1. a \in Nat /\ b \in Nat /\ e.orders[a].arrival \in Nat /\ e.orders[b].arrival \in Nat
  BY DEF Book, Shaped, Order
<1>2. a < b => e.orders[a].arrival < e.orders[b].arrival
  BY DEF Book, Shaped
<1>3. b < a => e.orders[b].arrival < e.orders[a].arrival
  BY DEF Book, Shaped
<1>4. QED
  BY <1>1, <1>2, <1>3

LEMMA AlikeCleared ==
    ASSUME NEW h, NEW k, Alike(h, k), NEW id, id \in DOMAIN h.orders,
           LevelOf(h.orders[id]) \in DOMAIN h.levels,
           NEW g, g = IF h.orders[id].qty = 0 THEN RemoveOrder(h, id) ELSE h,
           NEW j, j = IF k.orders[id].qty = 0 THEN RemoveOrder(k, id) ELSE k
    PROVE  Alike(g, j) /\ Kept(h, id, g)
<1>1. h.orders[id].qty = k.orders[id].qty /\ DOMAIN h = Fields
  BY DEF Alike
<1>2. CASE h.orders[id].qty = 0
  <2>1. g = RemoveOrder(h, id) /\ j = RemoveOrder(k, id)
    BY <1>1, <1>2
  <2>2. QED
    BY <1>1, <2>1, AlikeRemoved, RemovedKeeps
<1>3. CASE h.orders[id].qty # 0
  BY <1>1, <1>3 DEF Kept
<1>4. QED
  BY <1>2, <1>3

\* The orders of a trade, before those that are spent leave the book.
Hit(e, bid, ask, qty) ==
    [e EXCEPT !.orders = [id \in DOMAIN e.orders |->
                            IF id \in {bid, ask} THEN [e.orders[id] EXCEPT !.qty = @ - qty]
                                                 ELSE e.orders[id]]]

LEMMA AlikeHit ==
    ASSUME NEW e, Book(e), NEW t, Book(t), Alike(e, t), NEW bid, NEW ask, NEW qty,
           NEW h, h = Hit(e, bid, ask, qty), NEW k, k = Hit(t, bid, ask, qty)
    PROVE  /\ Alike(h, k) /\ h.levels = e.levels /\ DOMAIN h.orders = DOMAIN e.orders
           /\ \A x \in DOMAIN e.orders : LevelOf(h.orders[x]) = LevelOf(e.orders[x])
<1>1. /\ DOMAIN h = Fields /\ h.next = e.next /\ h.live = e.live /\ h.index = e.index
      /\ h.levels = e.levels /\ DOMAIN h.orders = DOMAIN e.orders
      /\ \A x \in DOMAIN e.orders :
            h.orders[x] = IF x \in {bid, ask} THEN [e.orders[x] EXCEPT !.qty = @ - qty]
                                              ELSE e.orders[x]
  BY DEF Hit, Fields, Alike
<1>2. /\ DOMAIN k = Fields /\ k.next = t.next /\ k.live = t.live /\ k.index = t.index
      /\ k.levels = t.levels /\ DOMAIN k.orders = DOMAIN t.orders
      /\ \A x \in DOMAIN t.orders :
            k.orders[x] = IF x \in {bid, ask} THEN [t.orders[x] EXCEPT !.qty = @ - qty]
                                              ELSE t.orders[x]
  BY DEF Hit, Fields, Alike
<1>3. DOMAIN e.orders = DOMAIN t.orders
  BY DEF Alike
<1>4. ASSUME NEW x \in DOMAIN e.orders
      PROVE  /\ LevelOf(h.orders[x]) = LevelOf(e.orders[x])
             /\ LevelOf(k.orders[x]) = LevelOf(t.orders[x])
             /\ h.orders[x].qty = k.orders[x].qty
  <2>1. PICK o, p : /\ o = e.orders[x] /\ p = t.orders[x] /\ o \in Order /\ p \in Order
                    /\ o.qty = p.qty
    BY <1>3 DEF Alike, Book, Shaped
  <2>2. CASE x \in {bid, ask}
    <3>1. h.orders[x] = [o EXCEPT !.qty = o.qty - qty] /\ k.orders[x] = [p EXCEPT !.qty = p.qty - qty]
      BY <1>1, <1>2, <1>3, <2>1, <2>2
    <3>2. QED
      BY <2>1, <3>1 DEF LevelOf, Order
  <2>3. CASE x \notin {bid, ask}
    <3>1. h.orders[x] = o /\ k.orders[x] = p
      BY <1>1, <1>2, <1>3, <2>1, <2>3
    <3>2. QED
      BY <2>1, <3>1
  <2>4. QED
    BY <2>2, <2>3
<1>5. \A x \in DOMAIN h.orders : /\ LevelOf(h.orders[x]) = LevelOf(k.orders[x])
                                 /\ h.orders[x].qty = k.orders[x].qty
  BY <1>1, <1>4 DEF Alike
<1>6. Alike(h, k)
  BY <1>1, <1>2, <1>3, <1>5 DEF Alike
<1>7. QED
  BY <1>1, <1>4, <1>6

LEMMA AlikeTraded ==
    ASSUME NEW e, Book(e), NEW t, Book(t), Alike(e, t), NEW sym, CanMatch(e, sym),
           NEW a, a = Trade(e, sym), NEW c, c = Trade(t, sym)
    PROVE  Alike(a.eng, c.eng) /\ a.fill = c.fill
<1>1. PICK bb, ba : /\ bb = BestBid(e, sym) /\ ba = BestAsk(e, sym)
                    /\ bb = BestBid(t, sym) /\ ba = BestAsk(t, sym)
                    /\ bb \in Quoted(e, sym, "BUY") /\ ba \in Quoted(e, sym, "SELL")
  <2>1. Quoted(e, sym, "BUY") # {} /\ Quoted(e, sym, "SELL") # {}
    BY DEF CanMatch
  <2>2. QED
    BY <2>1, Bests, AlikeBests
<1>2. PICK bids, asks : bids = <<sym, "BUY", bb>> /\ asks = <<sym, "SELL", ba>>
  OBVIOUS
<1>3. PICK bid, ask : /\ bid = Head(e.levels[bids]) /\ ask = Head(e.levels[asks])
                      /\ bid = Head(t.levels[bids]) /\ ask = Head(t.levels[asks])
                      /\ bids \in DOMAIN e.levels /\ asks \in DOMAIN e.levels
  <2>1. bids \in DOMAIN e.levels /\ asks \in DOMAIN e.levels
    BY <1>1, <1>2 DEF Quoted
  <2>2. e.levels[bids] = t.levels[bids] /\ e.levels[asks] = t.levels[asks]
    BY <2>1 DEF Alike, Same
  <2>3. QED
    BY <2>1, <2>2
<1>4. /\ bid \in DOMAIN e.orders /\ LevelOf(e.orders[bid]) = bids
      /\ ask \in DOMAIN e.orders /\ LevelOf(e.orders[ask]) = asks
  BY <1>3, FirstOfLevel
<1>5. /\ bid \in DOMAIN t.orders /\ LevelOf(t.orders[bid]) = bids
      /\ ask \in DOMAIN t.orders /\ LevelOf(t.orders[ask]) = asks
      /\ e.orders[bid].qty = t.orders[bid].qty /\ e.orders[ask].qty = t.orders[ask].qty
  BY <1>4 DEF Alike
<1>6. bids # asks /\ bid # ask
  BY <1>2, <1>4
<1>7. /\ e.orders[bid].sym = sym /\ e.orders[bid].price = bb
      /\ e.orders[ask].sym = sym /\ e.orders[ask].price = ba
      /\ t.orders[bid].sym = sym /\ t.orders[bid].price = bb
      /\ t.orders[ask].sym = sym /\ t.orders[ask].price = ba
  BY <1>2, <1>4, <1>5 DEF LevelOf
<1>8. PICK maker : /\ maker = IF e.orders[bid].arrival < e.orders[ask].arrival THEN bid ELSE ask
                   /\ maker = IF t.orders[bid].arrival < t.orders[ask].arrival THEN bid ELSE ask
                   /\ maker \in {bid, ask}
  <2>1. e.orders[bid].arrival < e.orders[ask].arrival <=> bid < ask
    BY <1>4, <1>6, <1>7, OlderIsSmaller
  <2>2. t.orders[bid].arrival < t.orders[ask].arrival <=> bid < ask
    BY <1>5, <1>6, <1>7, OlderIsSmaller
  <2>3. QED
    BY <2>1, <2>2
<1>9. PICK qty : /\ qty = IF e.orders[bid].qty < e.orders[ask].qty
                          THEN e.orders[bid].qty ELSE e.orders[ask].qty
                 /\ qty = IF t.orders[bid].qty < t.orders[ask].qty
                          THEN t.orders[bid].qty ELSE t.orders[ask].qty
  BY <1>5
<1>10. PICK price : price = e.orders[maker].price /\ price = t.orders[maker].price
  BY <1>7, <1>8
<1>11. PICK fill : fill = [buy |-> bid, sell |-> ask, price |-> price, qty |-> qty]
  OBVIOUS
<1>12. PICK h, k : h = Hit(e, bid, ask, qty) /\ k = Hit(t, bid, ask, qty)
  OBVIOUS
<1>13. PICK g, j : /\ g = IF h.orders[bid].qty = 0 THEN RemoveOrder(h, bid) ELSE h
                   /\ j = IF k.orders[bid].qty = 0 THEN RemoveOrder(k, bid) ELSE k
  OBVIOUS
<1>14. PICK f, u : /\ f = IF g.orders[ask].qty = 0 THEN RemoveOrder(g, ask) ELSE g
                   /\ u = IF j.orders[ask].qty = 0 THEN RemoveOrder(j, ask) ELSE j
  OBVIOUS
<1>15. a = [eng |-> f, fill |-> fill]
  BY <1>1, <1>2, <1>3, <1>8, <1>9, <1>10, <1>11, <1>12, <1>13, <1>14, ZenonT(60)
     DEF Trade, Hit
<1>16. c = [eng |-> u, fill |-> fill]
  BY <1>1, <1>2, <1>3, <1>8, <1>9, <1>10, <1>11, <1>12, <1>13, <1>14, ZenonT(60)
     DEF Trade, Hit
<1>17. /\ Alike(h, k) /\ h.levels = e.levels /\ DOMAIN h.orders = DOMAIN e.orders
       /\ LevelOf(h.orders[bid]) = bids /\ LevelOf(h.orders[ask]) = asks
  BY <1>4, <1>12, AlikeHit
<1>18. Alike(g, j) /\ Kept(h, bid, g)
  BY <1>3, <1>4, <1>13, <1>17, AlikeCleared
<1>19. ask \in DOMAIN g.orders /\ LevelOf(g.orders[ask]) \in DOMAIN g.levels
  BY <1>3, <1>4, <1>6, <1>17, <1>18 DEF Kept
<1>20. Alike(f, u)
  BY <1>14, <1>18, <1>19, AlikeCleared
<1>21. QED
  BY <1>15, <1>16, <1>20

\* The states of match() on two books.
InStep(b, d, sym, m, w) ==
    Going(b, sym, m) /\ Going(d, sym, w) /\ Alike(m.eng, w.eng) /\ m.fills = w.fills

LEMMA AlikeTurn ==
    ASSUME NEW b, NEW d, NEW sym, NEW m, NEW w, InStep(b, d, sym, m, w)
    PROVE  InStep(b, d, sym, Turn(m, sym), Turn(w, sym))
<1>1. CanMatch(m.eng, sym) <=> CanMatch(w.eng, sym)
  BY AlikeBests DEF InStep
<1>2. CASE CanMatch(m.eng, sym)
  <2>1. PICK a, c : a = Trade(m.eng, sym) /\ c = Trade(w.eng, sym)
    OBVIOUS
  <2>2. /\ Turn(m, sym) = [eng |-> a.eng, fills |-> Append(m.fills, a.fill)]
        /\ Turn(w, sym) = [eng |-> c.eng, fills |-> Append(w.fills, c.fill)]
    BY <1>1, <1>2, <2>1 DEF Turn
  <2>3. Alike(a.eng, c.eng) /\ a.fill = c.fill
    BY <1>2, <2>1, AlikeTraded DEF InStep, Going
  <2>4. Going(b, sym, Turn(m, sym)) /\ Going(d, sym, Turn(w, sym))
    BY <1>1, <1>2, TurnGoes DEF InStep
  <2>5. QED
    BY <2>2, <2>3, <2>4 DEF InStep
<1>3. CASE ~CanMatch(m.eng, sym)
  BY <1>1, <1>3 DEF Turn
<1>4. QED
  BY <1>2, <1>3

LEMMA GoingStarts ==
    ASSUME NEW b, Book(b), Positive(b), NEW sym
    PROVE  Going(b, sym, [eng |-> b, fills |-> <<>>])
<1>1. PICK m : m = [eng |-> b, fills |-> <<>>]
  OBVIOUS
<1>2. m.eng = b /\ m.fills \in Seq(BookFill) /\ Len(m.fills) = 0 /\ Beside(b, b)
  BY <1>1 DEF Beside, Book, Shaped
<1>3. Going(b, sym, m)
  BY <1>2 DEF Going
<1>4. QED
  BY <1>1, <1>3

LEMMA MatchRuns ==
    ASSUME NEW b, Book(b), NEW sym, NEW n, n = Cardinality(DOMAIN b.orders)
    PROVE  /\ n \in Nat
           /\ \E v : /\ v[0] = [eng |-> b, fills |-> <<>>] /\ v[n] = Match(b, sym)
                     /\ \A k \in 0 .. n - 1 : v[k + 1] = Turn(v[k], sym)
<1>1. n \in Nat
  BY FewOrders
<1>2. PICK start, s : start = [eng |-> b, fills |-> <<>>] /\ s = [i \in 1 .. n |-> sym]
  OBVIOUS
<1>3. Match(b, sym) = FoldLeft(Turn, start, s)
  BY <1>2 DEF Match
<1>4. FoldLeft(Turn, start, s) = Turning!Folded(start, s)
  BY SMTT(60) DEF FoldLeft, MapThenFoldSet, Turning!Folded, Turning!Folds, Turning!Max, Max
<1>5. n \in Nat /\ DOMAIN s = 1 .. n /\ \A k \in 0 .. n - 1 : s[k + 1] = sym
  BY <1>1, <1>2
<1>6. \E v : TurnRun(v, n, start, s)
  BY ONLY <1>5, TurnsRun
<1>7. PICK v : /\ v[0] = start /\ v[n] = Turning!Folded(start, s)
               /\ \A k \in 0 .. n - 1 : v[k + 1] = Turn(v[k], s[k + 1])
  BY <1>6 DEF TurnRun
<1>8. \A k \in 0 .. n - 1 : v[k + 1] = Turn(v[k], sym)
  BY <1>5, <1>7
<1>9. v[0] = [eng |-> b, fills |-> <<>>] /\ v[n] = Match(b, sym)
  BY <1>2, <1>3, <1>4, <1>7
<1>10. QED
  BY <1>1, <1>8, <1>9

LEMMA AlikeMatched ==
    ASSUME NEW b, Book(b), Positive(b), NEW d, Book(d), Positive(d), Alike(b, d), NEW sym
    PROVE  InStep(b, d, sym, Match(b, sym), Match(d, sym))
<1>1. PICK n \in Nat : n = Cardinality(DOMAIN b.orders) /\ n = Cardinality(DOMAIN d.orders)
  BY FewOrders DEF Alike
<1>2. PICK v : /\ v[0] = [eng |-> b, fills |-> <<>>] /\ v[n] = Match(b, sym)
               /\ \A k \in 0 .. n - 1 : v[k + 1] = Turn(v[k], sym)
  BY <1>1, MatchRuns
<1>3. PICK u : /\ u[0] = [eng |-> d, fills |-> <<>>] /\ u[n] = Match(d, sym)
               /\ \A k \in 0 .. n - 1 : u[k + 1] = Turn(u[k], sym)
  BY <1>1, MatchRuns
<1> DEFINE P == {k \in 0 .. n : InStep(b, d, sym, v[k], u[k])}
<1>4. 0 \in P
  <2>1. Going(b, sym, v[0]) /\ Going(d, sym, u[0])
    BY <1>2, <1>3, GoingStarts
  <2>2. Alike(v[0].eng, u[0].eng) /\ v[0].fills = u[0].fills
    BY <1>2, <1>3
  <2>3. QED
    BY <2>1, <2>2 DEF InStep
<1>5. ASSUME NEW k \in 0 .. n - 1, k \in P PROVE k + 1 \in P
  <2>1. InStep(b, d, sym, Turn(v[k], sym), Turn(u[k], sym))
    BY <1>5, AlikeTurn
  <2>2. k + 1 \in 0 .. n /\ v[k + 1] = Turn(v[k], sym) /\ u[k + 1] = Turn(u[k], sym)
    BY <1>2, <1>3
  <2>3. QED
    BY <2>1, <2>2
<1>6. 0 .. n \subseteq P
  <2> HIDE DEF P
  <2>1. QED
    BY <1>4, <1>5, Turning!UpTo
<1>7. QED
  BY <1>2, <1>3, <1>6

LEMMA AlikeForgotten ==
    ASSUME NEW e, NEW t, Alike(e, t), NEW id, id \in DOMAIN e.live,
           NEW g, g = Forget(e, id), NEW j, j = Forget(t, id)
    PROVE  Alike(g, j)
<1>1. PICK key : key = KeyOf(e.live[id]) /\ key = KeyOf(t.live[id])
  BY DEF Alike, Same
<1>2. /\ DOMAIN g = Fields /\ g.next = e.next /\ g.orders = e.orders /\ g.levels = e.levels
      /\ g.live = Without(e.live, id) /\ g.index = Without(e.index, key)
  BY <1>1 DEF Forget, Fields, Alike
<1>3. /\ DOMAIN j = Fields /\ j.next = t.next /\ j.orders = t.orders /\ j.levels = t.levels
      /\ j.live = Without(t.live, id) /\ j.index = Without(t.index, key)
  BY <1>1 DEF Forget, Fields, Alike
<1>4. Same(g.live, j.live) /\ Same(g.index, j.index)
  BY <1>2, <1>3, SameWithout DEF Alike
<1>5. QED
  BY <1>2, <1>3, <1>4 DEF Alike

LEMMA AlikeSpent ==
    ASSUME NEW e, NEW t, Alike(e, t), NEW fill
    PROVE  Alike(ForgetSpent(e, fill), ForgetSpent(t, fill))
<1>1. ASSUME NEW f, NEW u, Alike(f, u), NEW id
      PROVE  Alike(ForgetIfFilled(f, id), ForgetIfFilled(u, id))
  <2>1. (id \in DOMAIN f.orders <=> id \in DOMAIN u.orders) /\ (id \in DOMAIN f.live <=> id \in DOMAIN u.live)
    BY <1>1 DEF Alike, Same
  <2>2. CASE id \in DOMAIN f.orders \/ id \notin DOMAIN f.live
    BY <1>1, <2>1, <2>2 DEF ForgetIfFilled
  <2>3. CASE id \notin DOMAIN f.orders /\ id \in DOMAIN f.live
    <3>1. ForgetIfFilled(f, id) = Forget(f, id) /\ ForgetIfFilled(u, id) = Forget(u, id)
      BY <2>1, <2>3 DEF ForgetIfFilled
    <3>2. QED
      BY <1>1, <2>3, <3>1, AlikeForgotten
  <2>4. QED
    BY <2>2, <2>3
<1>2. QED
  BY <1>1 DEF ForgetSpent

LEMMA AlikeSettled ==
    ASSUME NEW e, NEW t, Alike(e, t), NEW fills \in Seq(BookFill)
    PROVE  Alike(Settle(e, fills), Settle(t, fills))
<1>1. PICK n \in Nat : n = Len(fills) /\ DOMAIN fills = 1 .. n
  OBVIOUS
<1>2. \A x : Settle(x, fills) = Settling!Folded(x, fills)
  BY DEF Settle, FoldLeft, MapThenFoldSet, Settling!Folded, Settling!Folds, Settling!Max, Max
<1>3. ASSUME NEW x
      PROVE  \E v : /\ v[0] = x /\ v[n] = Settle(x, fills)
                    /\ \A k \in 0 .. n - 1 : v[k + 1] = ForgetSpent(v[k], fills[k + 1])
  <2>1. n \in Nat /\ DOMAIN fills = 1 .. n
    BY <1>1
  <2>2. \E v : SettlingRun(v, n, x, fills)
    BY ONLY <2>1, SettlingRuns
  <2>3. QED
    BY <1>2, <2>2 DEF SettlingRun
<1>4. PICK v : /\ v[0] = e /\ v[n] = Settle(e, fills)
               /\ \A k \in 0 .. n - 1 : v[k + 1] = ForgetSpent(v[k], fills[k + 1])
  BY <1>3
<1>5. PICK u : /\ u[0] = t /\ u[n] = Settle(t, fills)
               /\ \A k \in 0 .. n - 1 : u[k + 1] = ForgetSpent(u[k], fills[k + 1])
  BY <1>3
<1> DEFINE P == {k \in 0 .. n : Alike(v[k], u[k])}
<1>6. 0 \in P
  BY <1>4, <1>5
<1>7. ASSUME NEW k \in 0 .. n - 1, k \in P PROVE k + 1 \in P
  <2>1. Alike(ForgetSpent(v[k], fills[k + 1]), ForgetSpent(u[k], fills[k + 1]))
    BY <1>7, AlikeSpent
  <2>2. k + 1 \in 0 .. n
    OBVIOUS
  <2>3. QED
    BY <1>4, <1>5, <2>1, <2>2
<1>8. 0 .. n \subseteq P
  <2> HIDE DEF P
  <2>1. QED
    BY <1>6, <1>7, Settling!UpTo
<1>9. QED
  BY <1>4, <1>5, <1>8

SameAnswers(a, c) == a.out = c.out /\ Alike(a.eng, c.eng)

\* An order is taken out of both.
LEMMA AlikeCancelled ==
    ASSUME NEW e, Sound(e), NEW t, Alike(e, t), NEW id, id \in DOMAIN e.orders
    PROVE  Alike(Forget(RemoveOrder(e, id), id), Forget(RemoveOrder(t, id), id))
<1>1. LevelOf(e.orders[id]) \in DOMAIN e.levels
  BY DEF Sound, Book, Queued
<1>2. PICK f, u : f = RemoveOrder(e, id) /\ u = RemoveOrder(t, id)
  OBVIOUS
<1>3. Alike(f, u) /\ f.live = e.live
  BY <1>1, <1>2, AlikeRemoved
<1>4. id \in DOMAIN f.live
  BY <1>3 DEF Sound
<1>5. QED
  BY <1>2, <1>3, <1>4, AlikeForgotten

LEMMA AlikeEntered ==
    ASSUME NEW e, NEW t, Alike(e, t), NEW r
    PROVE  Alike(Entered(e, r), Entered(t, r)) /\ Same(Known(e, r).live, Known(t, r).live)
<1>1. PICK id, mine, key : /\ id = e.next /\ id = t.next /\ key = KeyOf(r)
                           /\ mine = [id |-> id, user |-> r.user, coid |-> r.coid, sym |-> r.sym,
                                      side |-> r.side, price |-> r.price]
  BY DEF Alike
<1>2. PICK f, u : f = Known(e, r) /\ u = Known(t, r)
  OBVIOUS
<1>3. /\ DOMAIN f = Fields /\ f.next = e.next + 1 /\ f.orders = e.orders /\ f.levels = e.levels
      /\ f.live = Put(e.live, id, mine) /\ f.index = Put(e.index, key, id)
  BY <1>1, <1>2 DEF Known, Fields, Alike
<1>4. /\ DOMAIN u = Fields /\ u.next = t.next + 1 /\ u.orders = t.orders /\ u.levels = t.levels
      /\ u.live = Put(t.live, id, mine) /\ u.index = Put(t.index, key, id)
  BY <1>1, <1>2 DEF Known, Fields, Alike
<1>5. Same(f.live, u.live) /\ Same(f.index, u.index)
  BY <1>3, <1>4, SamePut DEF Alike
<1>6. f.next = u.next
  BY <1>1, <1>3, <1>4
<1>7. Alike(f, u)
  BY <1>3, <1>4, <1>5, <1>6 DEF Alike
<1>8. PICK o : o = [id |-> id, sym |-> r.sym, side |-> r.side, price |-> r.price, qty |-> r.qty]
  OBVIOUS
<1>9. Entered(e, r) = AddOrder(f, o) /\ Entered(t, r) = AddOrder(u, o)
  BY <1>1, <1>2, <1>8 DEF Entered
<1>10. QED
  BY <1>2, <1>5, <1>7, <1>9, AlikeAdded

LEMMA AlikeSubmitted ==
    ASSUME NEW e, Engine(e), NEW t, Engine(t), Alike(e, t), NEW r, Submitted(r)
    PROVE  SameAnswers(Submit(e, r), Submit(t, r))
<1>1. PICK b, d, id : /\ b = Entered(e, r) /\ d = Entered(t, r) /\ id = e.next /\ id = t.next
  BY DEF Alike
<1>2. PICK known, other : known = Known(e, r).live /\ other = Known(t, r).live
  OBVIOUS
<1>3. Alike(b, d) /\ Same(known, other)
  BY <1>1, <1>2, AlikeEntered
<1>4. Sound(b) /\ Sound(d) /\ b.live = known
  <2>1. Sound(e) /\ Sound(t)
    BY DEF Engine, Sound
  <2>2. Enters(e, r, b) /\ Enters(t, r, d)
    BY <1>1, <2>1, Entering
  <2>3. QED
    BY <1>2, <2>2 DEF Enters
<1>5. PICK m, w : m = Match(b, r.sym) /\ w = Match(d, r.sym)
  OBVIOUS
<1>6. InStep(b, d, r.sym, m, w)
  BY <1>3, <1>4, <1>5, AlikeMatched DEF Sound
<1>7. PICK fills : fills = m.fills /\ fills = w.fills /\ fills \in Seq(BookFill)
  BY <1>6 DEF InStep, Going
<1>8. PICK s, q : s = Settle(m.eng, fills) /\ q = Settle(w.eng, fills)
  OBVIOUS
<1>9. Sound(s) /\ Alike(s, q)
  <2>1. s = Settle(m.eng, m.fills)
    BY <1>7, <1>8
  <2>2. Sound(s)
    BY <1>4, <1>5, <2>1, Matching
  <2>3. QED
    BY <1>6, <1>7, <1>8, <2>2, AlikeSettled DEF InStep
<1>10. PICK recs : /\ recs = [i \in DOMAIN fills |-> FillRecord(known, id, r, fills[i])]
                   /\ recs = [i \in DOMAIN fills |-> FillRecord(other, id, r, fills[i])]
  <2>1. ASSUME NEW i \in DOMAIN fills
        PROVE  FillRecord(known, id, r, fills[i]) = FillRecord(other, id, r, fills[i])
    <3>1. i \in 1 .. Len(fills)
      BY <1>7
    <3>2. fills[i].buy \in DOMAIN known /\ fills[i].sell \in DOMAIN known
      BY <1>4, <1>6, <1>7, <3>1 DEF InStep, Going, Happened, Sound
    <3>3. known[fills[i].buy] = other[fills[i].buy] /\ known[fills[i].sell] = other[fills[i].sell]
      BY <1>3, <3>2 DEF Same
    <3>4. QED
      BY <3>3 DEF FillRecord
  <2>2. QED
    BY <2>1
<1>11. PICK mine, answer : /\ mine = NewOrder(e, r) /\ mine = NewOrder(t, r)
                           /\ answer = <<OrderAccepted(r, id)>> \o recs
  BY <1>1 DEF NewOrder
<1>12. Submit(e, r) =
          IF r.tif = "IOC" /\ id \in DOMAIN s.orders
          THEN [eng |-> Forget(RemoveOrder(s, id), id),
                out |-> Append(answer, OrderCancelled(mine, s.orders[id].qty, "IOC_EXPIRED"))]
          ELSE [eng |-> s, out |-> answer]
  <2>1. m = Match(Entered(e, r), r.sym) /\ s = Settle(m.eng, m.fills)
    BY <1>1, <1>5, <1>7, <1>8
  <2>2. recs = [i \in DOMAIN m.fills |-> FillRecord(Known(e, r).live, e.next, r, m.fills[i])]
    BY <1>1, <1>2, <1>7, <1>10
  <2>3. Submit(e, r) =
          IF r.tif = "IOC" /\ e.next \in DOMAIN s.orders
          THEN [eng |-> Forget(RemoveOrder(s, e.next), e.next),
                out |-> Append(<<OrderAccepted(r, e.next)>> \o recs,
                               OrderCancelled(NewOrder(e, r), s.orders[e.next].qty,
                                              "IOC_EXPIRED"))]
          ELSE [eng |-> s, out |-> <<OrderAccepted(r, e.next)>> \o recs]
    BY ONLY <2>1, <2>2, SubmitIs, ZenonT(60)
  <2>4. QED
    BY <1>1, <1>11, <2>3
<1>13. Submit(t, r) =
          IF r.tif = "IOC" /\ id \in DOMAIN q.orders
          THEN [eng |-> Forget(RemoveOrder(q, id), id),
                out |-> Append(answer, OrderCancelled(mine, q.orders[id].qty, "IOC_EXPIRED"))]
          ELSE [eng |-> q, out |-> answer]
  <2>1. w = Match(Entered(t, r), r.sym) /\ q = Settle(w.eng, w.fills)
    BY <1>1, <1>5, <1>7, <1>8
  <2>2. recs = [i \in DOMAIN w.fills |-> FillRecord(Known(t, r).live, t.next, r, w.fills[i])]
    BY <1>1, <1>2, <1>7, <1>10
  <2>3. Submit(t, r) =
          IF r.tif = "IOC" /\ t.next \in DOMAIN q.orders
          THEN [eng |-> Forget(RemoveOrder(q, t.next), t.next),
                out |-> Append(<<OrderAccepted(r, t.next)>> \o recs,
                               OrderCancelled(NewOrder(t, r), q.orders[t.next].qty,
                                              "IOC_EXPIRED"))]
          ELSE [eng |-> q, out |-> <<OrderAccepted(r, t.next)>> \o recs]
    BY ONLY <2>1, <2>2, SubmitIs, ZenonT(60)
  <2>4. QED
    BY <1>1, <1>11, <2>3
<1>14. id \in DOMAIN s.orders <=> id \in DOMAIN q.orders
  BY <1>9 DEF Alike
<1>15. CASE r.tif = "IOC" /\ id \in DOMAIN s.orders
  <2>1. s.orders[id].qty = q.orders[id].qty
    BY <1>9, <1>15 DEF Alike
  <2>2. Alike(Forget(RemoveOrder(s, id), id), Forget(RemoveOrder(q, id), id))
    BY <1>9, <1>15, AlikeCancelled
  <2>3. QED
    BY <1>12, <1>13, <1>14, <1>15, <2>1, <2>2 DEF SameAnswers
<1>16. CASE ~(r.tif = "IOC" /\ id \in DOMAIN s.orders)
  BY <1>9, <1>12, <1>13, <1>14, <1>16 DEF SameAnswers
<1>17. QED
  BY <1>15, <1>16

\* Whatever the record.
LEMMA AlikeApplied ==
    ASSUME NEW e, Engine(e), NEW t, Engine(t), Alike(e, t), NEW r \in Inputs
    PROVE  SameAnswers(Apply(e, r), Apply(t, r))
<1>1. /\ r.kind \in {"SubmitOrder", "CancelOrder"} \union Sequenced
      /\ r.kind = "SubmitOrder" => /\ r.sym \in Symbols
                                   /\ r.price \in Int /\ r.qty \in Int
                                   /\ r.price > 0 => r.price \in Prices
  BY InputsAreRecords
<1>2. \A reason : SameAnswers(Reject(e, r, reason), Reject(t, r, reason))
  BY DEF Reject, SameAnswers
<1>3. CASE r.kind = "SubmitOrder"
  <2>1. CASE WellFormed(r)
    <3>1. Apply(e, r) = Submit(e, r) /\ Apply(t, r) = Submit(t, r)
      BY <1>3, <2>1 DEF Apply, Sequenced
    <3>2. Submitted(r)
      BY <1>1, <1>3, <2>1 DEF Submitted, WellFormed
    <3>3. QED
      BY <3>1, <3>2, AlikeSubmitted
  <2>2. CASE ~WellFormed(r)
    <3>1. /\ Apply(e, r) = Reject(e, r, Refusal(r))
          /\ Apply(t, r) = Reject(t, r, Refusal(r))
      BY <1>3, <2>2 DEF Apply, Sequenced
    <3>2. QED
      BY <1>2, <3>1
  <2>3. QED
    BY <2>1, <2>2
<1>4. CASE r.kind = "CancelOrder"
  <2>1. Apply(e, r) = Cancel(e, r) /\ Apply(t, r) = Cancel(t, r)
    BY <1>4 DEF Apply, Sequenced
  <2>2. PICK target : target = <<r.user, r.target>>
    OBVIOUS
  <2>3. target \in DOMAIN e.index <=> target \in DOMAIN t.index
    BY DEF Alike, Same
  <2>4. CASE target \notin DOMAIN e.index
    BY <1>2, <2>1, <2>2, <2>3, <2>4 DEF Cancel
  <2>5. CASE target \in DOMAIN e.index
    <3>1. PICK id : id = e.index[target] /\ id = t.index[target]
      BY <2>5 DEF Alike, Same
    <3>2. Sound(e) /\ id \in DOMAIN e.live /\ id \in DOMAIN e.orders
      BY <2>5, <3>1 DEF Engine, Sound, Indexed
    <3>3. e.live[id] = t.live[id] /\ e.orders[id].qty = t.orders[id].qty
      BY <3>2 DEF Alike, Same
    <3>4. Alike(Forget(RemoveOrder(e, id), id), Forget(RemoveOrder(t, id), id))
      BY <3>2, AlikeCancelled
    <3>5. QED
      BY <2>1, <2>2, <2>3, <2>5, <3>1, <3>3, <3>4 DEF Cancel, SameAnswers
  <2>6. QED
    BY <2>4, <2>5
<1>5. CASE r.kind \in Sequenced
  <2>1. Apply(e, r) = [eng |-> e, out |-> <<Forwarded(r)>>] /\ Apply(t, r) = [eng |-> t, out |-> <<Forwarded(r)>>]
    BY <1>5 DEF Apply, Sequenced
  <2>2. QED
    BY <2>1 DEF SameAnswers
<1>6. QED
  BY <1>1, <1>3, <1>4, <1>5

-----------------------------------------------------------------------------
(***************************************************************************)
(* snapshot() and restore().                                               *)
(***************************************************************************)
Lists(q, S) ==
    /\ q \in [1 .. Cardinality(S) -> S] /\ Range(q) = S
    /\ \A i, j \in DOMAIN q : i < j => q[i] < q[j]

LEMMA ListOneMore ==
    ASSUME NEW S \in SUBSET Nat, IsFiniteSet(S), NEW q, Lists(q, S),
           NEW x \in Nat, \A y \in S : y < x
    PROVE  \E p : Lists(p, S \union {x})
<1>1. PICK n \in Nat : n = Cardinality(S)
  BY FS_CardinalityType
<1>2. PICK T : T = S \union {x}
  OBVIOUS
<1>3. Cardinality(T) = n + 1
  <2>1. x \notin S
    OBVIOUS
  <2>2. QED
    BY <1>1, <1>2, <2>1, FS_AddElement
<1>4. PICK p : p = [i \in 1 .. n + 1 |-> IF i = n + 1 THEN x ELSE q[i]]
  OBVIOUS
<1>5. /\ DOMAIN q = 1 .. n /\ \A i \in 1 .. n : q[i] \in S /\ q[i] \in Nat
      /\ S = {q[i] : i \in 1 .. n} /\ \A i, j \in 1 .. n : i < j => q[i] < q[j]
  BY <1>1 DEF Lists, Range
<1>6. \A i \in 1 .. n + 1 : i \in 1 .. n \/ i = n + 1
  OBVIOUS
<1>7. DOMAIN p = 1 .. n + 1 /\ p[n + 1] = x /\ \A i \in 1 .. n : i \in 1 .. n + 1 /\ p[i] = q[i]
  BY <1>4
<1>8. p \in [1 .. n + 1 -> T]
  <2>1. \A i \in 1 .. n + 1 : p[i] \in T
    BY <1>2, <1>5, <1>6, <1>7
  <2>2. QED
    BY <1>4, <2>1
<1>9. Range(p) = T
  <2>1. \A y \in T : \E i \in 1 .. n + 1 : p[i] = y
    <3> SUFFICES ASSUME NEW y \in T PROVE \E i \in 1 .. n + 1 : p[i] = y
      OBVIOUS
    <3>1. CASE y = x
      BY <1>7, <3>1
    <3>2. CASE y # x
      <4>1. PICK i \in 1 .. n : y = q[i]
        BY <1>2, <1>5, <3>2
      <4>2. QED
        BY <1>7, <4>1
    <3>3. QED
      BY <3>1, <3>2
  <2>2. QED
    BY <1>7, <1>8, <2>1 DEF Range
<1>10. ASSUME NEW i \in 1 .. n + 1, NEW j \in 1 .. n + 1, i < j PROVE p[i] < p[j]
  <2>1. i \in 1 .. n
    BY <1>10
  <2>2. CASE j \in 1 .. n
    BY <1>5, <1>7, <1>10, <2>1, <2>2
  <2>3. CASE j = n + 1
    BY <1>5, <1>7, <2>1, <2>3
  <2>4. QED
    BY <1>6, <2>2, <2>3
<1>11. Lists(p, T)
  BY <1>3, <1>7, <1>8, <1>9, <1>10 DEF Lists
<1>12. QED
  BY <1>2, <1>11

\* The orders can be listed by ascending id, and the snapshot does.
LEMMA AscendingLists ==
    ASSUME NEW n \in Nat, NEW S \in SUBSET Nat, \A x \in S : x < n
    PROVE  Lists(Ascending(S), S) /\ Cardinality(S) \in Nat
<1> DEFINE P == {k \in 0 .. n : \E q : Lists(q, {x \in S : x < k})}
<1>1. \A T \in SUBSET S : IsFiniteSet(T) /\ Cardinality(T) \in Nat
  <2> SUFFICES ASSUME NEW T \in SUBSET S PROVE IsFiniteSet(T) /\ Cardinality(T) \in Nat
    OBVIOUS
  <2>1. T \in SUBSET Nat /\ \A x \in T : x <= n
    OBVIOUS
  <2>2. IsFiniteSet(T)
    BY <2>1, FS_BoundedSetOfNaturals
  <2>3. QED
    BY <2>2, FS_CardinalityType
<1>2. 0 \in P
  <2>1. {x \in S : x < 0} = {} /\ Cardinality({}) = 0
    <3>1. \A x \in S : x \in Nat /\ ~(x < 0)
      OBVIOUS
    <3>2. QED
      BY <3>1, FS_EmptySet
  <2>2. PICK q : q = [i \in 1 .. 0 |-> 0]
    OBVIOUS
  <2>3. q \in [1 .. 0 -> {}] /\ DOMAIN q = {} /\ Range(q) = {}
    <3>1. \A i : i \notin 1 .. 0
      OBVIOUS
    <3>2. QED
      BY <2>2, <3>1 DEF Range
  <2>4. Lists(q, {})
    BY <2>1, <2>3 DEF Lists
  <2>5. QED
    BY <2>1, <2>4
<1>3. ASSUME NEW k \in 0 .. n - 1, k \in P PROVE k + 1 \in P
  <2>1. PICK T, U : T = {x \in S : x < k} /\ U = {x \in S : x < k + 1}
    OBVIOUS
  <2>2. PICK q : Lists(q, T)
    BY <1>3, <2>1
  <2>3. \A x \in Nat : x < k + 1 <=> x < k \/ x = k
    OBVIOUS
  <2>4. \E p : Lists(p, U)
    <3>1. CASE k \in S
      <4>1. U = T \union {k}
        BY <2>1, <2>3, <3>1
      <4>2. T \in SUBSET S /\ T \in SUBSET Nat /\ k \in Nat /\ \A y \in T : y < k
        <5>1. \A y \in T : y \in S /\ y < k
          BY ONLY <2>1
        <5>2. \A y \in S : y \in Nat
          OBVIOUS
        <5>3. \A y \in T : y \in Nat
          BY <5>1, <5>2
        <5>4. QED
          BY <5>1, <5>3
      <4>3. IsFiniteSet(T)
        BY <1>1, <4>2
      <4>4. QED
        BY <2>2, <4>1, <4>2, <4>3, ListOneMore
    <3>2. CASE k \notin S
      <4>1. U = T
        BY <2>1, <2>3, <3>2
      <4>2. QED
        BY <2>2, <4>1
    <3>3. QED
      BY <3>1, <3>2
  <2>5. k + 1 \in 0 .. n
    OBVIOUS
  <2>6. QED
    BY <2>1, <2>4, <2>5
<1>4. n \in P
  <2>1. 0 .. n \subseteq P
    <3> HIDE DEF P
    <3>1. QED
      BY <1>2, <1>3, Turning!UpTo
  <2>2. QED
    BY <2>1
<1>5. {x \in S : x < n} = S
  OBVIOUS
<1>6. PICK q : Lists(q, S)
  BY <1>4, <1>5
<1>7. Ascending(S) \in [1 .. Cardinality(S) -> S] /\ Lists(Ascending(S), S)
  BY <1>6 DEF Ascending, Lists
<1>8. QED
  BY <1>1, <1>7

\* Two ascending sequences of the same numbers.
Climbs(q) == q \in Seq(Nat) /\ \A i, j \in 1 .. Len(q) : i < j => q[i] < q[j]

LEMMA StartsAlike ==
    ASSUME NEW p, Climbs(p), NEW q, Climbs(q), \A x : InQueue(p, x) <=> InQueue(q, x)
    PROVE  \A i \in 1 .. Len(p) : i \in 1 .. Len(q) /\ p[i] = q[i]
<1>1. PICK n, m \in Nat : n = Len(p) /\ m = Len(q)
  BY DEF Climbs
<1>2. /\ \A i \in 1 .. n : p[i] \in Nat
      /\ \A i \in 1 .. m : q[i] \in Nat
      /\ \A i, j \in 1 .. n : i < j => p[i] < p[j]
      /\ \A i, j \in 1 .. m : i < j => q[i] < q[j]
  BY <1>1 DEF Climbs
<1>3. /\ \A i \in 1 .. n : \E j \in 1 .. m : q[j] = p[i]
      /\ \A i \in 1 .. m : \E j \in 1 .. n : p[j] = q[i]
  BY <1>1 DEF InQueue
<1> DEFINE P == {k \in 0 .. n : \A i \in 1 .. k : i \in 1 .. m /\ p[i] = q[i]}
<1>4. 0 \in P
  OBVIOUS
<1>5. ASSUME NEW k \in 0 .. n - 1, k \in P PROVE k + 1 \in P
  <2>1. PICK c \in 1 .. n : c = k + 1
    OBVIOUS
  <2>2. \A i \in 1 .. k : i \in 1 .. m /\ i \in 1 .. n /\ i < c /\ p[i] = q[i]
    BY <1>5, <2>1
  <2>3. \A i \in 1 .. n : i \in 1 .. k \/ c <= i
    BY <2>1
  <2>4. \A i \in 1 .. m : i \in 1 .. k \/ c <= i
    BY <2>1
  <2>5. PICK j \in 1 .. m : q[j] = p[c]
    BY <1>3
  <2>6. c <= j
    <3>1. ASSUME j \in 1 .. k PROVE FALSE
      <4>1. p[j] < p[c] /\ p[j] = q[j] /\ p[j] \in Nat
        BY <1>2, <2>2, <3>1
      <4>2. QED
        BY <2>5, <4>1
    <3>2. QED
      BY <2>4, <3>1
  <2>7. c \in 1 .. m
    BY <2>6
  <2>8. PICK l \in 1 .. n : p[l] = q[c]
    BY <1>3, <2>7
  <2>9. c <= l
    <3>1. ASSUME l \in 1 .. k PROVE FALSE
      <4>1. q[l] < q[c] /\ p[l] = q[l] /\ q[l] \in Nat
        BY <1>2, <2>2, <2>7, <3>1
      <4>2. QED
        BY <2>8, <4>1
    <3>2. QED
      BY <2>3, <3>1
  <2>10. p[c] = q[c]
    <3>1. q[c] \in Nat /\ p[c] \in Nat
      BY <1>2, <2>7
    <3>2. j = c \/ q[c] < q[j]
      BY <1>2, <2>6, <2>7
    <3>3. l = c \/ p[c] < p[l]
      BY <1>2, <2>9
    <3>4. QED
      BY <2>5, <2>8, <3>1, <3>2, <3>3
  <2>11. \A i \in 1 .. c : i \in 1 .. k \/ i = c
    BY <2>1
  <2>12. \A i \in 1 .. c : i \in 1 .. m /\ p[i] = q[i]
    BY <2>2, <2>7, <2>10, <2>11
  <2>13. c \in 0 .. n
    OBVIOUS
  <2>14. QED
    BY <2>1, <2>12, <2>13
<1>6. 0 .. n \subseteq P
  <2> HIDE DEF P
  <2>1. QED
    BY <1>4, <1>5, Turning!UpTo
<1>7. n \in P
  BY <1>6
<1>8. QED
  BY <1>1, <1>7

LEMMA ClimbsAreEqual ==
    ASSUME NEW p, Climbs(p), NEW q, Climbs(q), \A x : InQueue(p, x) <=> InQueue(q, x)
    PROVE  p = q
<1>1. \A i \in 1 .. Len(p) : i \in 1 .. Len(q) /\ p[i] = q[i]
  BY StartsAlike
<1>2. \A i \in 1 .. Len(q) : i \in 1 .. Len(p)
  BY StartsAlike
<1>3. Len(p) \in Nat /\ Len(q) \in Nat /\ p \in Seq(Nat) /\ q \in Seq(Nat)
  BY DEF Climbs
<1>4. PICK n, m \in Nat : n = Len(p) /\ m = Len(q)
  BY <1>3
<1>5. n = m
  <2>1. n = 0 \/ n \in 1 .. m
    BY <1>1, <1>4
  <2>2. m = 0 \/ m \in 1 .. n
    BY <1>2, <1>4
  <2>3. QED
    BY <2>1, <2>2
<1>6. p = [i \in 1 .. n |-> p[i]] /\ q = [i \in 1 .. n |-> q[i]]
  <2>1. \A r \in Seq(Nat) : Len(r) = n => r \in [1 .. n -> Nat]
    OBVIOUS
  <2>2. p \in [1 .. n -> Nat] /\ q \in [1 .. n -> Nat]
    BY <1>3, <1>4, <1>5, <2>1
  <2>3. \A r \in [1 .. n -> Nat] : r = [i \in 1 .. n |-> r[i]]
    OBVIOUS
  <2>4. QED
    BY <2>2, <2>3
<1>7. \A i \in 1 .. n : p[i] = q[i]
  BY <1>1, <1>4
<1>8. QED
  BY <1>6, <1>7

\* The queues follow from the orders.
LEMMA QueueHolds ==
    ASSUME NEW e, Book(e), NEW level \in DOMAIN e.levels
    PROVE  /\ Climbs(e.levels[level])
           /\ \A x : InQueue(e.levels[level], x) <=>
                        x \in DOMAIN e.orders /\ LevelOf(e.orders[x]) = level
<1>1. PICK q : q = e.levels[level]
  OBVIOUS
<1>2. QueueOk(q, level, e.orders)
  BY <1>1 DEF Book, Queued
<1>3. q \in Seq(DOMAIN e.orders) /\ Len(q) \in Nat /\ \A i, j \in 1 .. Len(q) : i < j => q[i] < q[j]
  BY <1>2 DEF QueueOk
<1>4. \A i \in 1 .. Len(q) : q[i] \in DOMAIN e.orders /\ LevelOf(e.orders[q[i]]) = level
  BY <1>2, <1>3 DEF QueueOk
<1>5. \A x \in DOMAIN e.orders : x \in Nat
  BY DEF Book, Shaped
<1>6. q \in Seq(Nat)
  BY <1>3, <1>4, <1>5
<1>7. \A x \in DOMAIN e.orders : LevelOf(e.orders[x]) = level => InQueue(q, x)
  BY <1>1 DEF Book, Queued
<1>8. QED
  BY <1>1, <1>3, <1>4, <1>6, <1>7 DEF Climbs, InQueue

LEMMA LevelsHeld ==
    ASSUME NEW e, Book(e)
    PROVE  \A l : l \in DOMAIN e.levels <=> \E x \in DOMAIN e.orders : LevelOf(e.orders[x]) = l
<1>1. ASSUME NEW l \in DOMAIN e.levels
      PROVE  \E x \in DOMAIN e.orders : LevelOf(e.orders[x]) = l
  <2>1. PICK q : q = e.levels[l]
    OBVIOUS
  <2>2. q \in Seq(DOMAIN e.orders) /\ q # <<>> /\ \A i \in 1 .. Len(q) : LevelOf(e.orders[q[i]]) = l
    BY <1>1, <2>1 DEF Book, Queued, QueueOk
  <2>3. 1 \in 1 .. Len(q) /\ q[1] \in DOMAIN e.orders
    BY <2>2
  <2>4. QED
    BY <2>2, <2>3
<1>2. QED
  BY <1>1 DEF Book, Queued

LEMMA LevelsAgree ==
    ASSUME NEW e, Book(e), NEW t, Book(t), DOMAIN e.orders = DOMAIN t.orders,
           \A x \in DOMAIN e.orders : LevelOf(e.orders[x]) = LevelOf(t.orders[x])
    PROVE  Same(e.levels, t.levels)
<1>1. \A l : l \in DOMAIN e.levels <=> l \in DOMAIN t.levels
  BY LevelsHeld
<1>2. ASSUME NEW l \in DOMAIN e.levels PROVE e.levels[l] = t.levels[l]
  <2>1. PICK p, q : p = e.levels[l] /\ q = t.levels[l]
    OBVIOUS
  <2>2. Climbs(p) /\ \A x : InQueue(p, x) <=> x \in DOMAIN e.orders /\ LevelOf(e.orders[x]) = l
    BY <2>1, QueueHolds
  <2>3. Climbs(q) /\ \A x : InQueue(q, x) <=> x \in DOMAIN t.orders /\ LevelOf(t.orders[x]) = l
    BY <1>1, <2>1, QueueHolds
  <2>4. \A x : InQueue(p, x) <=> InQueue(q, x)
    BY <2>2, <2>3
  <2>5. QED
    BY <2>1, <2>2, <2>3, <2>4, ClimbsAreEqual
<1>3. QED
  BY <1>1, <1>2 DEF Same

\* An engine alike to one that is between two records is between two records.
LEMMA AlikeEngine ==
    ASSUME NEW e, Engine(e), NEW t, Book(t), Alike(e, t)
    PROVE  Engine(t)
<1>1. /\ DOMAIN e.orders = DOMAIN t.orders /\ DOMAIN e.live = DOMAIN t.live
      /\ DOMAIN e.index = DOMAIN t.index /\ DOMAIN e.live = DOMAIN e.orders
      /\ \A x \in DOMAIN e.live : e.live[x] = t.live[x]
      /\ \A k \in DOMAIN e.index : e.index[k] = t.index[k]
  BY DEF Alike, Same, Engine
<1>2. Positive(t)
  BY <1>1 DEF Alike, Engine, Positive
<1>3. Owned(t)
  <2>1. \A x \in DOMAIN t.orders : /\ e.orders[x].sym = t.orders[x].sym
                                   /\ e.orders[x].side = t.orders[x].side
                                   /\ e.orders[x].price = t.orders[x].price
    BY <1>1 DEF Alike, LevelOf
  <2>2. QED
    BY <1>1, <2>1 DEF Engine, Owned
<1>4. Indexed(t)
  BY <1>1 DEF Engine, Indexed
<1>5. \A s \in Symbols : ~CanMatch(t, s)
  BY AlikeBests DEF Engine
<1>6. QED
  BY <1>1, <1>2, <1>3, <1>4, <1>5 DEF Engine

\* The first orders of the snapshot, read back.
Lift(x, next) == [x EXCEPT !.next = next]

Prefix(a, k) == {a[i] : i \in 1 .. k}

ReadBack(e, D, x) ==
    /\ DOMAIN x = Fields /\ Book(Lift(x, e.next))
    /\ DOMAIN x.orders = D /\ DOMAIN x.live = D
    /\ \A y \in D : /\ LevelOf(x.orders[y]) = LevelOf(e.orders[y])
                    /\ x.orders[y].qty = e.orders[y].qty /\ x.live[y] = e.live[y]
    /\ \A key : key \in DOMAIN x.index <=> key \in DOMAIN e.index /\ e.index[key] \in D
    /\ \A key \in DOMAIN x.index : x.index[key] = e.index[key]

RowOf(e, id) == [order |-> e.live[id], qty |-> e.orders[id].qty, indexed |-> IndexReaches(e, id)]

\* One order more.
LEMMA ReadBackOneMore ==
    ASSUME NEW e, Engine(e), NEW D, NEW x, ReadBack(e, D, x),
           NEW id \in DOMAIN e.live, \A y \in D : y < id
    PROVE  ReadBack(e, D \union {id}, Readd(x, RowOf(e, id)))
<1>1. PICK row, o, g : row = RowOf(e, id) /\ o = e.live[id] /\ g = Readd(x, row)
  OBVIOUS
<1>2. row.order = o /\ row.qty = e.orders[id].qty /\ row.indexed = IndexReaches(e, id)
  BY <1>1 DEF RowOf
<1>3. /\ id \in DOMAIN e.orders /\ id \in Nat /\ id < e.next /\ o.id = id
      /\ o.sym = e.orders[id].sym /\ o.side = e.orders[id].side /\ o.price = e.orders[id].price
      /\ e.orders[id] \in Order
  BY <1>1 DEF Engine, Book, Shaped, Owned
<1>4. PICK a : a = [id |-> id, sym |-> o.sym, side |-> o.side, price |-> o.price, qty |-> row.qty]
  OBVIOUS
<1>5. PICK live, index : /\ live = Put(x.live, id, o)
                         /\ index = IF row.indexed THEN Put(x.index, KeyOf(o), id) ELSE x.index
  OBVIOUS
<1>6. PICK known : known = [x EXCEPT !.live = live, !.index = index]
  OBVIOUS
<1>7. g = AddOrder(known, a)
  BY <1>1, <1>2, <1>3, <1>4, <1>5, <1>6 DEF Readd
<1>8. /\ DOMAIN x = Fields
      /\ DOMAIN known = Fields /\ known.orders = x.orders /\ known.arrivals = x.arrivals
      /\ known.levels = x.levels /\ known.live = live /\ known.index = index
  BY <1>6 DEF ReadBack, Fields
<1>9. PICK lifted, f : lifted = Lift(x, e.next) /\ f = Lift(known, e.next)
  OBVIOUS
<1>10. /\ Book(lifted) /\ lifted.next = e.next /\ lifted.orders = x.orders
       /\ lifted.arrivals = x.arrivals /\ lifted.levels = x.levels
  BY <1>8, <1>9 DEF ReadBack, Lift, Fields
<1>11. /\ DOMAIN f = Fields /\ f.next = e.next /\ f.orders = x.orders
       /\ f.arrivals = x.arrivals /\ f.levels = x.levels
  BY <1>8, <1>9 DEF Lift, Fields
<1>12. Book(f)
  BY <1>10, <1>11, SameBook
<1>13. /\ a.id = id /\ a.sym = o.sym /\ a.side = o.side /\ a.price = o.price
       /\ a.qty = e.orders[id].qty
       /\ a.sym \in Symbols /\ a.side \in Sides /\ a.price \in Prices /\ a.qty \in Nat
  BY <1>2, <1>3, <1>4 DEF Order
<1>14. PICK h : h = AddOrder(f, a)
  OBVIOUS
<1>15. PICK new : new = [sym |-> a.sym, side |-> a.side, price |-> a.price,
                         qty |-> a.qty, arrival |-> x.arrivals[a.sym]]
  OBVIOUS
<1>16. Book(h)
  <2>1. \A y \in DOMAIN f.orders : y < a.id
    BY <1>11, <1>13 DEF ReadBack
  <2>2. a.id \in Nat /\ a.id < f.next
    BY <1>3, <1>11, <1>13
  <2>3. QED
    BY <1>12, <1>13, <1>14, <2>1, <2>2, Adding
<1>17. /\ DOMAIN g = Fields /\ g.live = live /\ g.index = index
       /\ g.orders = Put(x.orders, id, new)
       /\ g.arrivals = Put(x.arrivals, a.sym, x.arrivals[a.sym] + 1)
       /\ g.levels = Put(x.levels, LevelOf(a), Append(QueueAt(x, LevelOf(a)), id))
  <2>1. QueueAt(known, LevelOf(a)) = QueueAt(x, LevelOf(a))
    BY <1>8 DEF QueueAt
  <2>2. QED
    BY <1>7, <1>8, <1>13, <1>15, <2>1 DEF AddOrder, Fields
<1>18. /\ h.next = e.next /\ h.orders = Put(x.orders, id, new)
       /\ h.arrivals = Put(x.arrivals, a.sym, x.arrivals[a.sym] + 1)
       /\ h.levels = Put(x.levels, LevelOf(a), Append(QueueAt(x, LevelOf(a)), id))
  <2>1. QueueAt(f, LevelOf(a)) = QueueAt(x, LevelOf(a))
    BY <1>11 DEF QueueAt
  <2>2. QED
    BY <1>11, <1>13, <1>14, <1>15, <2>1 DEF AddOrder, Fields
<1>19. Book(Lift(g, e.next))
  <2>1. PICK u : u = Lift(g, e.next)
    OBVIOUS
  <2>2. /\ DOMAIN u = Fields /\ u.next = h.next /\ u.orders = h.orders
        /\ u.arrivals = h.arrivals /\ u.levels = h.levels
    BY <1>17, <1>18, <2>1 DEF Lift, Fields
  <2>3. QED
    BY <1>16, <2>1, <2>2, SameBook
<1>20. PICK E : E = D \union {id}
  OBVIOUS
<1>21. /\ DOMAIN g.orders = E /\ g.orders[id] = new
       /\ \A y \in D : y # id => g.orders[y] = x.orders[y]
  BY <1>17, <1>20 DEF Put, Upsert, ReadBack
<1>22. /\ DOMAIN g.live = E /\ g.live[id] = e.live[id]
       /\ \A y \in D : y # id => g.live[y] = x.live[y]
  BY <1>1, <1>5, <1>17, <1>20 DEF Put, Upsert, ReadBack
<1>23. LevelOf(new) = LevelOf(e.orders[id]) /\ new.qty = e.orders[id].qty
  BY <1>3, <1>13, <1>15 DEF LevelOf
<1>24. \A y \in E : /\ LevelOf(g.orders[y]) = LevelOf(e.orders[y])
                    /\ g.orders[y].qty = e.orders[y].qty /\ g.live[y] = e.live[y]
  BY <1>20, <1>21, <1>22, <1>23 DEF ReadBack
<1>25. /\ \A key : key \in DOMAIN g.index <=> key \in DOMAIN e.index /\ e.index[key] \in E
       /\ \A key \in DOMAIN g.index : g.index[key] = e.index[key]
  <2>1. \A key \in DOMAIN e.index : e.index[key] = id => key = KeyOf(o)
    BY <1>1 DEF Engine, Indexed
  <2>2. /\ \A key : key \in DOMAIN x.index <=> key \in DOMAIN e.index /\ e.index[key] \in D
        /\ \A key \in DOMAIN x.index : x.index[key] = e.index[key]
    BY DEF ReadBack
  <2>3. CASE IndexReaches(e, id)
    <3>1. KeyOf(o) \in DOMAIN e.index /\ e.index[KeyOf(o)] = id
      BY <1>1, <2>3 DEF IndexReaches
    <3>2. g.index = Put(x.index, KeyOf(o), id)
      BY <1>2, <1>5, <1>17, <2>3
    <3>3. /\ DOMAIN g.index = DOMAIN x.index \union {KeyOf(o)} /\ g.index[KeyOf(o)] = id
          /\ \A y \in DOMAIN x.index : y # KeyOf(o) => g.index[y] = x.index[y]
      BY <3>2 DEF Put, Upsert
    <3>4. QED
      BY <1>20, <2>1, <2>2, <3>1, <3>3
  <2>4. CASE ~IndexReaches(e, id)
    <3>1. \A key \in DOMAIN e.index : e.index[key] # id
      BY <1>1, <2>1, <2>4 DEF IndexReaches
    <3>2. g.index = x.index
      BY <1>2, <1>5, <1>17, <2>4
    <3>3. QED
      BY <1>20, <2>2, <3>1, <3>2
  <2>5. QED
    BY <2>3, <2>4
<1>26. ReadBack(e, E, g)
  BY <1>17, <1>19, <1>21, <1>22, <1>24, <1>25 DEF ReadBack
<1>27. QED
  BY <1>1, <1>20, <1>26

Readding == INSTANCE FoldFacts WITH Op <- Readd

ReaddingRun(v, n, b, s) ==
    /\ v[0] = b /\ v[n] = Readding!Folded(b, s)
    /\ \A k \in 0 .. n - 1 : v[k + 1] = Readd(v[k], s[k + 1])

LEMMA ReaddingRuns == \A n \in Nat : \A b, s : DOMAIN s = 1 .. n => \E v : ReaddingRun(v, n, b, s)
<1>1. \A n \in Nat : \A b, s : DOMAIN s = 1 .. n =>
         \E v : /\ v[0] = b /\ v[n] = Readding!Folded(b, s)
                /\ \A k \in 0 .. n - 1 : v[k + 1] = Readd(v[k], s[k + 1])
  BY Readding!FoldedRun, Zenon
<1>2. QED
  BY <1>1, Zenon DEF ReaddingRun

LEMMA ReadingRuns ==
    ASSUME NEW n \in Nat, NEW rows, DOMAIN rows = 1 .. n
    PROVE  \E v : /\ v[0] = New /\ v[n] = FoldLeft(Readd, New, rows)
                  /\ \A k \in 0 .. n - 1 : v[k + 1] = Readd(v[k], rows[k + 1])
<1>1. PICK b : b = New
  OBVIOUS
<1>2. FoldLeft(Readd, b, rows) = Readding!Folded(b, rows)
  BY SMTT(60) DEF FoldLeft, MapThenFoldSet, Readding!Folded, Readding!Folds, Readding!Max, Max
<1>3. n \in Nat /\ DOMAIN rows = 1 .. n
  OBVIOUS
<1>4. \E v : ReaddingRun(v, n, b, rows)
  BY ONLY <1>3, ReaddingRuns
<1>5. QED
  BY <1>1, <1>2, <1>4 DEF ReaddingRun

LEMMA NothingReadBack ==
    ASSUME NEW e, Engine(e)
    PROVE  ReadBack(e, {}, New)
<1>1. PICK x, none : x = New /\ none = <<>> /\ DOMAIN none = {}
  OBVIOUS
<1>2. /\ DOMAIN x = Fields /\ x.orders = none /\ x.levels = none
      /\ x.live = none /\ x.index = none /\ x.arrivals = [s \in Symbols |-> 0]
  BY <1>1 DEF New, Fields
<1>3. PICK f : f = Lift(x, e.next)
  OBVIOUS
<1>4. /\ DOMAIN f = Fields /\ f.next = e.next /\ f.orders = none /\ f.levels = none
      /\ f.arrivals = [s \in Symbols |-> 0]
  BY <1>2, <1>3 DEF Lift, Fields
<1>5. Shaped(f)
  BY <1>1, <1>4 DEF Shaped, Engine, Book
<1>6. Queued(f)
  BY <1>1, <1>4 DEF Queued
<1>7. Book(Lift(x, e.next))
  BY <1>3, <1>5, <1>6 DEF Book
<1>8. ReadBack(e, {}, x)
  BY <1>1, <1>2, <1>7 DEF ReadBack
<1>9. QED
  BY <1>1, <1>8

\* What snapshot() lists.
LEMMA Snapshotted ==
    ASSUME NEW e, Engine(e), NEW snap, snap = Snapshot(e)
    PROVE  \E n \in Nat : \E a \in [1 .. n -> DOMAIN e.live] :
              /\ a = Ascending(DOMAIN e.live) /\ n = Cardinality(DOMAIN e.live)
              /\ DOMAIN e.live = Prefix(a, n)
              /\ \A i, j \in 1 .. n : i < j => a[i] < a[j]
              /\ snap.next = e.next /\ DOMAIN snap.orders = 1 .. n
              /\ \A i \in 1 .. n : snap.orders[i] = RowOf(e, a[i])
<1>1. PICK S, n, a : S = DOMAIN e.live /\ n = Cardinality(S) /\ a = Ascending(S)
  OBVIOUS
<1>2. e.next \in Nat /\ S \in SUBSET Nat /\ \A x \in S : x < e.next
  BY <1>1 DEF Engine, Book, Shaped
<1>3. Lists(a, S) /\ n \in Nat
  BY <1>1, <1>2, AscendingLists
<1>4. a \in [1 .. n -> S] /\ DOMAIN a = 1 .. n /\ Range(a) = S
      /\ \A i, j \in 1 .. n : i < j => a[i] < a[j]
  BY <1>1, <1>3 DEF Lists
<1>5. S = Prefix(a, n)
  BY <1>4 DEF Prefix, Range
<1>6. snap.next = e.next /\ DOMAIN snap.orders = 1 .. n
      /\ \A i \in 1 .. n : snap.orders[i] = RowOf(e, a[i])
  <2>1. snap = [next |-> e.next, orders |-> [i \in 1 .. n |-> RowOf(e, a[i])]]
    BY <1>1 DEF Snapshot, RowOf
  <2>2. QED
    BY <2>1
<1>7. QED
  BY <1>1, <1>3, <1>4, <1>5, <1>6

\* Restored from its snapshot, an engine differs in arrival numbers only.
LEMMA RestoredIsAlike ==
    ASSUME NEW e, Engine(e), NEW t, t = Restore(Snapshot(e))
    PROVE  Alike(e, t) /\ Engine(t)
<1>1. PICK snap, rows : snap = Snapshot(e) /\ rows = snap.orders
  OBVIOUS
<1>2. PICK n \in Nat : \E a \in [1 .. n -> DOMAIN e.live] :
         /\ DOMAIN e.live = Prefix(a, n)
         /\ \A i, j \in 1 .. n : i < j => a[i] < a[j]
         /\ snap.next = e.next /\ DOMAIN rows = 1 .. n
         /\ \A i \in 1 .. n : rows[i] = RowOf(e, a[i])
  BY <1>1, Snapshotted
<1>3. PICK a \in [1 .. n -> DOMAIN e.live] :
         /\ DOMAIN e.live = Prefix(a, n)
         /\ \A i, j \in 1 .. n : i < j => a[i] < a[j]
         /\ snap.next = e.next /\ DOMAIN rows = 1 .. n
         /\ \A i \in 1 .. n : rows[i] = RowOf(e, a[i])
  BY <1>2
<1>4. PICK b, done : b = New /\ done = FoldLeft(Readd, New, rows)
  OBVIOUS
<1>5. PICK v : /\ v[0] = b /\ v[n] = done
               /\ \A k \in 0 .. n - 1 : v[k + 1] = Readd(v[k], rows[k + 1])
  <2>1. DOMAIN rows = 1 .. n
    BY <1>3
  <2>2. \E v : /\ v[0] = New /\ v[n] = FoldLeft(Readd, New, rows)
               /\ \A k \in 0 .. n - 1 : v[k + 1] = Readd(v[k], rows[k + 1])
    BY ONLY <2>1, ReadingRuns
  <2>3. QED
    BY <1>4, <2>2
<1> DEFINE P == {k \in 0 .. n : ReadBack(e, Prefix(a, k), v[k])}
<1>6. 0 \in P
  <2>1. Prefix(a, 0) = {}
    <3>1. \A i : i \notin 1 .. 0
      OBVIOUS
    <3>2. QED
      BY <3>1 DEF Prefix
  <2>2. ReadBack(e, Prefix(a, 0), v[0])
    BY <1>4, <1>5, <2>1, NothingReadBack
  <2>3. QED
    BY <2>2
<1>7. ASSUME NEW k \in 0 .. n - 1, k \in P PROVE k + 1 \in P
  <2>1. PICK c \in 1 .. n : c = k + 1
    OBVIOUS
  <2>2. \A i : i \in 1 .. c <=> i \in 1 .. k \/ i = c
    BY <2>1
  <2>3. PICK D, id : D = Prefix(a, k) /\ id = a[c]
    OBVIOUS
  <2>4. Prefix(a, c) = D \union {id}
    BY <2>2, <2>3 DEF Prefix
  <2>5. \A i \in 1 .. k : i \in 1 .. n /\ i < c
    BY <2>1
  <2>6. \A y \in D : y < id
    BY <1>3, <2>3, <2>5 DEF Prefix
  <2>7. id \in DOMAIN e.live
    BY <1>3, <2>3
  <2>8. ReadBack(e, D, v[k])
    BY <1>7, <2>3
  <2>9. ReadBack(e, D \union {id}, Readd(v[k], RowOf(e, id)))
    BY <2>6, <2>7, <2>8, ReadBackOneMore
  <2>10. v[c] = Readd(v[k], RowOf(e, id))
    BY <1>3, <1>5, <2>1, <2>3
  <2>11. c \in 0 .. n
    OBVIOUS
  <2>12. ReadBack(e, Prefix(a, c), v[c])
    BY <2>4, <2>9, <2>10
  <2>13. QED
    BY <2>1, <2>11, <2>12
<1>8. n \in P
  <2>1. 0 .. n \subseteq P
    <3> HIDE DEF P
    <3>1. QED
      BY <1>6, <1>7, Readding!UpTo
  <2>2. QED
    BY <2>1
<1>9. ReadBack(e, DOMAIN e.live, done)
  BY <1>3, <1>5, <1>8
<1>10. t = Lift(done, e.next)
  BY <1>1, <1>3, <1>4 DEF Restore, Lift
<1>11. /\ DOMAIN t = Fields /\ t.next = e.next /\ t.orders = done.orders
       /\ t.live = done.live /\ t.index = done.index
  BY <1>9, <1>10 DEF Lift, ReadBack, Fields
<1>12. /\ Book(t) /\ DOMAIN t.orders = DOMAIN e.live /\ DOMAIN t.live = DOMAIN e.live
       /\ \A y \in DOMAIN e.live : /\ LevelOf(t.orders[y]) = LevelOf(e.orders[y])
                                   /\ t.orders[y].qty = e.orders[y].qty
                                   /\ t.live[y] = e.live[y]
  BY <1>9, <1>10, <1>11 DEF ReadBack
<1>13. Same(e.index, t.index)
  <2>1. \A key : key \in DOMAIN t.index <=> key \in DOMAIN e.index /\ e.index[key] \in DOMAIN e.live
    BY <1>9, <1>11 DEF ReadBack
  <2>2. \A key \in DOMAIN e.index : e.index[key] \in DOMAIN e.live
    BY DEF Engine, Indexed
  <2>3. \A key \in DOMAIN t.index : t.index[key] = e.index[key]
    BY <1>9, <1>11 DEF ReadBack
  <2>4. DOMAIN e.index = DOMAIN t.index
    BY <2>1, <2>2
  <2>5. QED
    BY <2>3, <2>4 DEF Same
<1>14. Same(e.live, t.live)
  BY <1>12 DEF Same
<1>15. DOMAIN e.orders = DOMAIN e.live /\ Book(e) /\ DOMAIN e = Fields
  BY DEF Engine, Book, Shaped
<1>16. Same(e.levels, t.levels)
  BY <1>12, <1>15, LevelsAgree
<1>17. Alike(e, t)
  BY <1>11, <1>12, <1>13, <1>14, <1>15, <1>16 DEF Alike
<1>18. QED
  BY <1>12, <1>17, AlikeEngine

LEMMA SnapshotsAgree ==
    ASSUME NEW e, Engine(e), NEW t, Alike(e, t)
    PROVE  Snapshot(e) = Snapshot(t)
<1>1. PICK S, n, a : S = DOMAIN e.live /\ n = Cardinality(S) /\ a = Ascending(S)
  OBVIOUS
<1>2. S = DOMAIN t.live /\ e.next = t.next
  BY <1>1 DEF Alike, Same
<1>3. \A x \in S : RowOf(e, x) = RowOf(t, x)
  <2> SUFFICES ASSUME NEW x \in S PROVE RowOf(e, x) = RowOf(t, x)
    OBVIOUS
  <2>1. e.live[x] = t.live[x]
    BY <1>1 DEF Alike, Same
  <2>2. x \in DOMAIN e.orders /\ e.orders[x].qty = t.orders[x].qty
    BY <1>1 DEF Alike, Engine
  <2>3. IndexReaches(e, x) = IndexReaches(t, x)
    BY <2>1 DEF Alike, Same, IndexReaches
  <2>4. QED
    BY <2>1, <2>2, <2>3 DEF RowOf
<1>4. \A i \in 1 .. n : a[i] \in S
  <2>1. e.next \in Nat /\ S \in SUBSET Nat /\ \A x \in S : x < e.next
    BY <1>1 DEF Engine, Book, Shaped
  <2>2. Lists(a, S)
    BY <1>1, <2>1, AscendingLists
  <2>3. QED
    BY <1>1, <2>2 DEF Lists
<1>5. [i \in 1 .. n |-> RowOf(e, a[i])] = [i \in 1 .. n |-> RowOf(t, a[i])]
  BY <1>3, <1>4
<1>6. Snapshot(e) = [next |-> e.next, orders |-> [i \in 1 .. n |-> RowOf(e, a[i])]]
  BY <1>1 DEF Snapshot, RowOf
<1>7. Snapshot(t) = [next |-> t.next, orders |-> [i \in 1 .. n |-> RowOf(t, a[i])]]
  BY <1>1, <1>2 DEF Snapshot, RowOf
<1>8. QED
  BY <1>2, <1>5, <1>6, <1>7

\* An engine restarted from a snapshot, however often and between any two
\* records, answers every later record as the engine that was never stopped, and
\* gives the same snapshot, though its arrival numbers are new and the snapshot
\* keeps of the client index one bit per order (snapshot and restore,
\* stream_engine.cpp; tests/matcher/test_snapshot.py, claim 1).
THEOREM RestoredStaysAlike == Spec => []RestoredAgrees
<1>1. Init => TwinInv
  <2> SUFFICES ASSUME Init PROVE TwinInv
    OBVIOUS
  <2>1. eng = twin /\ Engine(twin) /\ out = twinOut
    BY NewEngine DEF Init
  <2>2. DOMAIN twin = Fields
    BY <2>1 DEF Engine, Book, Shaped
  <2>3. QED
    BY <2>1, <2>2 DEF TwinInv, Alike, Same
<1>2. EInv /\ TwinInv /\ [Next]_vars => TwinInv'
  <2> SUFFICES ASSUME EInv, TwinInv, [Next]_vars PROVE TwinInv'
    OBVIOUS
  <2>1. Engine(eng) /\ Engine(twin) /\ Alike(eng, twin) /\ out = twinOut
    BY DEF EInv, TwinInv
  <2>2. ASSUME NEW r \in Inputs, Feed(r) PROVE TwinInv'
    <3>1. PICK a, c : /\ a = Apply(eng, r) /\ c = Apply(twin, r)
                      /\ eng' = a.eng /\ out' = a.out /\ twin' = c.eng /\ twinOut' = c.out
      BY <2>1, <2>2, Fed
    <3>2. SameAnswers(a, c)
      BY <2>1, <3>1, AlikeApplied
    <3>3. Answers(twin, r, c)
      BY <2>1, <3>1, Applying
    <3>4. Engine(twin')
      BY <3>1, <3>3 DEF Answers
    <3>5. Alike(eng', twin') /\ out' = twinOut'
      BY <3>1, <3>2 DEF SameAnswers
    <3>6. QED
      BY <3>4, <3>5 DEF TwinInv
  <2>3. CASE Restart
    <3>1. eng' = eng /\ out' = out /\ twinOut' = twinOut /\ twin' = Restore(Snapshot(eng))
      BY <2>3 DEF Restart
    <3>2. Alike(eng, twin') /\ Engine(twin')
      BY <2>1, <3>1, RestoredIsAlike
    <3>3. Alike(eng', twin') /\ out' = twinOut'
      BY <2>1, <3>1, <3>2
    <3>4. QED
      BY <3>2, <3>3 DEF TwinInv
  <2>4. CASE UNCHANGED vars
    BY <2>4 DEF TwinInv, vars
  <2>5. QED
    BY <2>2, <2>3, <2>4 DEF Next
<1>3. EInv /\ TwinInv => RestoredAgrees
  BY SnapshotsAgree DEF EInv, TwinInv, RestoredAgrees
<1>4. QED
  BY <1>1, <1>2, <1>3, EngineInvariant, PTL DEF Spec

-----------------------------------------------------------------------------
(***************************************************************************)
(* What the engine tells of its orders: the contract OrderFlow, on which   *)
(* the gateway's commitments rest.                                         *)
(***************************************************************************)
Tables == INSTANCE FoldFacts WITH Op <- NextRows

\* The first n of the records s may follow, one after the other, from the rows T
\* to the rows U.
Passes(T, s, n, U) ==
    \E v : /\ v[0] = T /\ v[n] = U
           /\ \A i \in 1 .. n : /\ MayFollow(v[i - 1], s[i])
                                /\ v[i] = NextRows(v[i - 1], s[i])

LEMMA PassesNone == ASSUME NEW T, NEW s PROVE Passes(T, s, 0, T)
<1>1. PICK v : v = [i \in {0} |-> T]
  OBVIOUS
<1>2. v[0] = T /\ 1 .. 0 = {}
  BY <1>1
<1>3. QED
  BY <1>2 DEF Passes

\* One more record.
LEMMA PassesMore ==
    ASSUME NEW n \in Nat, NEW T, NEW U, NEW s, Passes(T, s, n, U),
           NEW t, \A i \in 1 .. n : t[i] = s[i],
           MayFollow(U, t[n + 1])
    PROVE  Passes(T, t, n + 1, NextRows(U, t[n + 1]))
<1>1. PICK v : /\ v[0] = T /\ v[n] = U
               /\ \A i \in 1 .. n : /\ MayFollow(v[i - 1], s[i])
                                    /\ v[i] = NextRows(v[i - 1], s[i])
  BY DEF Passes
<1>2. PICK W : W = NextRows(U, t[n + 1])
  OBVIOUS
<1>3. PICK w : w = [i \in 0 .. n + 1 |-> IF i <= n THEN v[i] ELSE W]
  OBVIOUS
<1>4. w[0] = T /\ w[n] = U /\ w[n + 1] = W /\ \A i \in 0 .. n : w[i] = v[i]
  BY <1>1, <1>3
<1>5. ASSUME NEW i \in 1 .. n + 1
      PROVE  MayFollow(w[i - 1], t[i]) /\ w[i] = NextRows(w[i - 1], t[i])
  <2>1. CASE i = n + 1
    <3>1. w[i - 1] = U
      BY <1>4, <2>1
    <3>2. QED
      BY <1>2, <1>4, <2>1, <3>1
  <2>2. CASE i # n + 1
    <3>1. i \in 1 .. n /\ i \in 0 .. n /\ i - 1 \in 0 .. n
      BY <2>2
    <3>2. w[i - 1] = v[i - 1] /\ w[i] = v[i] /\ t[i] = s[i]
      BY <1>4, <3>1
    <3>3. QED
      BY <1>1, <3>1, <3>2
  <2>3. QED
    BY <2>1, <2>2
<1>6. QED
  BY <1>2, <1>4, <1>5 DEF Passes

\* One record before.
LEMMA PassesBefore ==
    ASSUME NEW n \in Nat, NEW T, NEW U, NEW s, NEW t,
           \A i \in 1 .. n : t[1 + i] = s[i],
           MayFollow(T, t[1]), Passes(NextRows(T, t[1]), s, n, U)
    PROVE  Passes(T, t, n + 1, U)
<1>1. PICK v : /\ v[0] = NextRows(T, t[1]) /\ v[n] = U
               /\ \A i \in 1 .. n : /\ MayFollow(v[i - 1], s[i])
                                    /\ v[i] = NextRows(v[i - 1], s[i])
  BY DEF Passes
<1>2. PICK w : w = [i \in 0 .. n + 1 |-> IF i = 0 THEN T ELSE v[i - 1]]
  OBVIOUS
<1>3. w[0] = T /\ \A i \in 0 .. n : w[i + 1] = v[i]
  BY <1>2
<1>4. w[n + 1] = U /\ w[1] = NextRows(T, t[1])
  <2>1. n \in 0 .. n /\ 0 \in 0 .. n /\ 0 + 1 = 1
    OBVIOUS
  <2>2. QED
    BY <1>1, <1>3, <2>1
<1>5. ASSUME NEW i \in 1 .. n + 1
      PROVE  MayFollow(w[i - 1], t[i]) /\ w[i] = NextRows(w[i - 1], t[i])
  <2>1. CASE i = 1
    BY <1>3, <1>4, <2>1
  <2>2. CASE i # 1
    <3>1. PICK j \in 1 .. n : i = 1 + j
      <4>1. i - 1 \in 1 .. n /\ i = 1 + (i - 1)
        BY <2>2
      <4>2. QED
        BY <4>1
    <3>2. /\ j \in 0 .. n /\ j - 1 \in 0 .. n
          /\ i = j + 1 /\ i - 1 = (j - 1) + 1
      BY <3>1
    <3>3. w[i] = v[j] /\ w[i - 1] = v[j - 1]
      BY <1>3, <3>2
    <3>4. t[i] = s[j]
      BY <3>1
    <3>5. QED
      BY <1>1, <3>1, <3>3, <3>4
  <2>3. QED
    BY <2>1, <2>2
<1>6. QED
  BY <1>3, <1>4, <1>5 DEF Passes

\* What passes is what RowsAfter folds.
LEMMA PassesAre ==
    ASSUME NEW S, NEW s \in Seq(S), NEW T, NEW U, Passes(T, s, Len(s), U)
    PROVE  /\ U = RowsAfter(T, s, Len(s))
           /\ \A i \in 1 .. Len(s) : MayFollow(RowsAfter(T, s, i - 1), s[i])
<1>1. PICK n \in Nat : n = Len(s)
  OBVIOUS
<1>2. PICK v : /\ v[0] = T /\ v[n] = U
               /\ \A i \in 1 .. n : /\ MayFollow(v[i - 1], s[i])
                                    /\ v[i] = NextRows(v[i - 1], s[i])
  BY <1>1 DEF Passes
<1>3. \A k : RowsAfter(T, s, k) = Tables!Folded(T, SubSeq(s, 1, k))
  BY DEF RowsAfter, FoldLeft, MapThenFoldSet, Tables!Folded, Tables!Folds, Tables!Max, Max
<1>4. /\ RowsAfter(T, s, 0) = T
      /\ \A k \in 1 .. n : RowsAfter(T, s, k) = NextRows(RowsAfter(T, s, k - 1), s[k])
  BY <1>1, <1>3, Tables!FoldedPrefix
<1> DEFINE P == {k \in 0 .. n : v[k] = RowsAfter(T, s, k)}
<1>5. 0 \in P
  BY <1>2, <1>4
<1>6. ASSUME NEW k \in 0 .. n - 1, k \in P PROVE k + 1 \in P
  <2>1. k + 1 \in 1 .. n /\ k + 1 \in 0 .. n /\ (k + 1) - 1 = k
    OBVIOUS
  <2>2. v[k + 1] = NextRows(v[k], s[k + 1])
    BY <1>2, <2>1
  <2>3. RowsAfter(T, s, k + 1) = NextRows(RowsAfter(T, s, k), s[k + 1])
    BY <1>4, <2>1
  <2>4. QED
    BY <1>6, <2>1, <2>2, <2>3
<1>7. 0 .. n \subseteq P
  <2> HIDE DEF P
  <2>1. QED
    BY <1>5, <1>6, Turning!UpTo
<1>8. \A k \in 0 .. n : v[k] = RowsAfter(T, s, k)
  BY <1>7
<1>9. \A i \in 1 .. n : i - 1 \in 0 .. n
  OBVIOUS
<1>10. QED
  BY <1>1, <1>2, <1>8, <1>9

\* What a fill takes from one row.
LEMMA CutIs ==
    ASSUME NEW T, NEW id \in DOMAIN T, NEW q, NEW U, U = Cut(T, id, q)
    PROVE  /\ DOMAIN U = IF T[id].qty = q THEN DOMAIN T \ {id} ELSE DOMAIN T
           /\ U = [x \in DOMAIN U |-> U[x]]
           /\ \A x \in DOMAIN U : x # id => U[x] = T[x]
           /\ T[id].qty # q => U[id] = [T[id] EXCEPT !.qty = @ - q]
<1>1. CASE T[id].qty = q
  BY <1>1 DEF Cut, Without, Restrict
<1>2. CASE T[id].qty # q
  <2>1. PICK row : row = [T[id] EXCEPT !.qty = @ - q]
    OBVIOUS
  <2>2. U = [x \in DOMAIN T \union {id} |-> IF x \in {id} THEN row ELSE T[x]]
    BY <1>2, <2>1 DEF Cut, Put, Upsert
  <2>3. DOMAIN U = DOMAIN T
    BY <2>2
  <2>4. U[id] = row /\ \A x \in DOMAIN U : x # id => U[x] = T[x]
    BY <2>2
  <2>5. U = [x \in DOMAIN U |-> U[x]]
    BY <2>2
  <2>6. QED
    BY <1>2, <2>1, <2>3, <2>4, <2>5
<1>3. QED
  BY <1>1, <1>2

\* An open order as a row.
RowIs(e, id, row) ==
    row = [user |-> e.live[id].user, coid |-> e.live[id].coid, sym |-> e.live[id].sym,
           side |-> e.live[id].side, price |-> e.live[id].price, qty |-> e.orders[id].qty]

LEMMA OpenOrdersAre ==
    ASSUME NEW e, NEW T
    PROVE  T = OpenOrders(e) <=> /\ T = [x \in DOMAIN T |-> T[x]] /\ DOMAIN T = DOMAIN e.orders
                                 /\ \A x \in DOMAIN e.orders : RowIs(e, x, T[x])
<1>1. PICK W : W = OpenOrders(e)
  OBVIOUS
<1>2. /\ W = [x \in DOMAIN W |-> W[x]] /\ DOMAIN W = DOMAIN e.orders
      /\ \A x \in DOMAIN e.orders : RowIs(e, x, W[x])
  BY <1>1 DEF OpenOrders, RowIs
<1>3. ASSUME T = [x \in DOMAIN T |-> T[x]], DOMAIN T = DOMAIN e.orders,
             \A x \in DOMAIN e.orders : RowIs(e, x, T[x])
      PROVE  T = W
  <2>1. \A x \in DOMAIN T : T[x] = W[x]
    BY <1>2, <1>3 DEF RowIs
  <2>2. QED
    BY <1>2, <1>3, <2>1
<1>4. QED
  BY <1>1, <1>2, <1>3

\* The order is accepted, and rests until match() has had its turns.
LEMMA AcceptFollows ==
    ASSUME NEW e, Sound(e), NEW r, Submitted(r), r.user \in Users,
           NEW rec, rec = OrderAccepted(r, e.next)
    PROVE  /\ MayFollow(OpenOrders(e), rec)
           /\ NextRows(OpenOrders(e), rec) = OpenOrders(Entered(e, r))
<1>1. PICK b, id, T : b = Entered(e, r) /\ id = e.next /\ T = OpenOrders(e)
  OBVIOUS
<1>2. /\ rec.kind = "OrderAccepted" /\ rec.id = id /\ rec.user = r.user /\ rec.coid = r.coid
      /\ rec.sym = r.sym /\ rec.side = r.side /\ rec.price = r.price /\ rec.qty = r.qty
  BY <1>1 DEF OrderAccepted
<1>3. DOMAIN T = DOMAIN e.orders /\ \A x \in DOMAIN e.orders : RowIs(e, x, T[x])
  BY <1>1, OpenOrdersAre
<1>4. /\ DOMAIN b.orders = DOMAIN e.orders \union {id} /\ id \notin DOMAIN e.orders
      /\ \A x \in DOMAIN e.orders : b.orders[x] = e.orders[x] /\ b.live[x] = e.live[x]
      /\ b.orders[id].qty = r.qty
      /\ b.live[id] = [id |-> e.next, user |-> r.user, coid |-> r.coid, sym |-> r.sym,
                       side |-> r.side, price |-> r.price]
  <2>1. Enters(e, r, b)
    BY <1>1, Entering
  <2>2. DOMAIN e.live = DOMAIN e.orders
    BY DEF Sound
  <2>3. QED
    BY <1>1, <2>1, <2>2 DEF Enters
<1>5. id \in Nat
  BY <1>1 DEF Sound, Book, Shaped
<1>6. MayFollow(T, rec)
  <2>1. r.price \in Nat \ {0} /\ r.qty \in Nat \ {0}
    <3>1. Prices \subseteq Nat \ {0}
      BY PricesAreAGrid
    <3>2. r.price \in Prices /\ r.qty \in Nat /\ r.qty > 0
      BY DEF Submitted
    <3>3. \A q \in Nat : q > 0 => q \in Nat \ {0}
      OBVIOUS
    <3>4. QED
      BY <3>1, <3>2, <3>3
  <2>2. QED
    BY <1>2, <1>3, <1>4, <1>5, <2>1 DEF MayFollow, Submitted
<1>7. PICK row : row = Reservation(rec)
  OBVIOUS
<1>8. PICK U : U = NextRows(T, rec)
  OBVIOUS
<1>9. U = [x \in DOMAIN T \union {id} |-> IF x \in {id} THEN row ELSE T[x]]
  BY <1>2, <1>7, <1>8 DEF NextRows, Put, Upsert
<1>10. /\ DOMAIN U = DOMAIN b.orders /\ U = [x \in DOMAIN U |-> U[x]]
       /\ U[id] = row /\ \A x \in DOMAIN e.orders : U[x] = T[x]
  BY <1>3, <1>4, <1>9
<1>11. ASSUME NEW x \in DOMAIN b.orders PROVE RowIs(b, x, U[x])
  <2>1. CASE x = id
    BY <1>2, <1>4, <1>7, <1>10, <2>1 DEF RowIs, Reservation
  <2>2. CASE x # id
    BY <1>3, <1>4, <1>10, <2>2 DEF RowIs
  <2>3. QED
    BY <2>1, <2>2
<1>12. U = OpenOrders(b)
  BY <1>10, <1>11, OpenOrdersAre
<1>13. QED
  BY <1>1, <1>6, <1>8, <1>12

\* An order is taken out of the book and forgotten.
LEMMA CancelFollows ==
    ASSUME NEW e, Sound(e), NEW id, id \in DOMAIN e.orders, NEW g, g = Forget(RemoveOrder(e, id), id),
           NEW rec, rec.kind = "OrderCancelled", rec.id = id
    PROVE  /\ MayFollow(OpenOrders(e), rec)
           /\ NextRows(OpenOrders(e), rec) = OpenOrders(g)
<1>1. PICK f, T, U : f = RemoveOrder(e, id) /\ T = OpenOrders(e) /\ U = NextRows(T, rec)
  OBVIOUS
<1>2. Book(f) /\ Beside(e, f) /\ f.orders = Without(e.orders, id)
  BY <1>1, Removing DEF Sound
<1>3. DOMAIN f = Fields /\ f.live = e.live
  BY <1>2 DEF Beside
<1>4. g.orders = Without(e.orders, id) /\ g.live = Without(e.live, id)
  BY <1>1, <1>2, <1>3 DEF Forget, Fields
<1>5. DOMAIN e.live = DOMAIN e.orders
  BY DEF Sound
<1>6. /\ DOMAIN g.orders = DOMAIN e.orders \ {id}
      /\ \A x \in DOMAIN g.orders : g.orders[x] = e.orders[x] /\ g.live[x] = e.live[x]
  <2>1. /\ DOMAIN Without(e.orders, id) = DOMAIN e.orders \ {id}
        /\ \A x \in DOMAIN e.orders : x # id => Without(e.orders, id)[x] = e.orders[x]
    BY ONLY WithoutIs
  <2>2. \A x \in DOMAIN e.live : x # id => Without(e.live, id)[x] = e.live[x]
    BY ONLY WithoutIs
  <2>3. QED
    BY <1>4, <1>5, <2>1, <2>2
<1>7. DOMAIN T = DOMAIN e.orders /\ \A x \in DOMAIN e.orders : RowIs(e, x, T[x])
  BY <1>1, OpenOrdersAre
<1>8. U = Without(T, id)
  BY <1>1, <1>7 DEF NextRows
<1>9. DOMAIN U = DOMAIN g.orders /\ U = [x \in DOMAIN U |-> U[x]] /\ \A x \in DOMAIN U : U[x] = T[x]
  BY <1>6, <1>7, <1>8 DEF Without, Restrict
<1>10. \A x \in DOMAIN g.orders : RowIs(g, x, U[x])
  BY <1>6, <1>7, <1>9 DEF RowIs
<1>11. U = OpenOrders(g)
  BY <1>9, <1>10, OpenOrdersAre
<1>12. MayFollow(T, rec)
  BY DEF MayFollow
<1>13. QED
  BY <1>1, <1>11, <1>12

\* A trade is told by a fill of its two orders.
LEMMA FillFollows ==
    ASSUME NEW e, NEW f, NEW sym, NEW fill, Book(e), Owned(e),
           Positive(e), Crosses(e, sym, fill), Traded(e, f, fill),
           NEW a, NEW b, {a, b} = {fill.buy, fill.sell}, a # b,
           NEW rec, rec = Fill(e.live[a], e.live[b], fill.price, fill.qty, sym, e.orders[b].side)
    PROVE  /\ MayFollow(OpenOrders(e), rec)
           /\ NextRows(OpenOrders(e), rec) = OpenOrders(f)
<1>1. PICK T, q : T = OpenOrders(e) /\ q = fill.qty
  OBVIOUS
<1>2. /\ a \in DOMAIN e.orders /\ b \in DOMAIN e.orders
      /\ q \in Nat /\ q > 0 /\ q <= e.orders[a].qty /\ q <= e.orders[b].qty
  BY <1>1 DEF Crosses
<1>3. \A x \in DOMAIN e.orders :
         /\ e.orders[x].qty \in Nat /\ e.orders[x].price \in Nat \ {0} /\ e.orders[x].side \in Sides
         /\ x \in DOMAIN e.live /\ e.live[x].id = x
         /\ e.live[x].sym = e.orders[x].sym /\ e.live[x].side = e.orders[x].side
         /\ e.live[x].price = e.orders[x].price
  <2>1. \A x \in DOMAIN e.orders : e.orders[x] \in Order
    BY DEF Book, Shaped
  <2>2. Prices \subseteq Nat \ {0}
    BY PricesAreAGrid
  <2>3. QED
    BY <2>1, <2>2 DEF Order, Owned
<1>4. DOMAIN T = DOMAIN e.orders /\ \A x \in DOMAIN e.orders : RowIs(e, x, T[x])
  BY <1>1, OpenOrdersAre
<1>5. \A x \in DOMAIN e.orders :
         /\ T[x].user = e.live[x].user /\ T[x].sym = e.orders[x].sym
         /\ T[x].side = e.orders[x].side /\ T[x].price = e.orders[x].price
         /\ T[x].qty = e.orders[x].qty
  <2> SUFFICES ASSUME NEW x \in DOMAIN e.orders, NEW row, row = T[x]
               PROVE  /\ row.user = e.live[x].user /\ row.sym = e.orders[x].sym
                      /\ row.side = e.orders[x].side /\ row.price = e.orders[x].price
                      /\ row.qty = e.orders[x].qty
    OBVIOUS
  <2>1. RowIs(e, x, row)
    BY <1>4
  <2>2. QED
    BY <1>3, <2>1 DEF RowIs
<1>6. /\ rec.kind = "Fill" /\ rec.maker = a /\ rec.taker = b
      /\ rec.makerUser = e.live[a].user /\ rec.takerUser = e.live[b].user
      /\ rec.price = fill.price /\ rec.qty = q /\ rec.sym = sym
      /\ rec.aggressor = e.orders[b].side
  BY <1>1, <1>2, <1>3 DEF Fill
<1>7. PICK x, y : x = fill.buy /\ y = fill.sell
  OBVIOUS
<1>8. /\ e.orders[x].sym = sym /\ e.orders[x].side = "BUY"
      /\ e.orders[y].sym = sym /\ e.orders[y].side = "SELL"
      /\ e.orders[y].price <= e.orders[x].price
      /\ fill.price = IF x < y THEN e.orders[x].price ELSE e.orders[y].price
      /\ x \in DOMAIN e.orders /\ y \in DOMAIN e.orders
  BY <1>7 DEF Crosses
<1>9. (a = x /\ b = y) \/ (a = y /\ b = x)
  BY <1>7
<1>10. fill.price \in 1 .. e.orders[x].price
  <2>1. PICK p, w : p = e.orders[x].price /\ w = e.orders[y].price
    OBVIOUS
  <2>2. p \in Nat \ {0} /\ w \in Nat \ {0} /\ w <= p
    BY <1>3, <1>8, <2>1
  <2>3. fill.price = p \/ fill.price = w
    BY <1>8, <2>1
  <2>4. QED
    BY <2>1, <2>2, <2>3
<1>11. TradesRows(T, rec)
  <2>1. /\ T[a].user = rec.makerUser /\ T[b].user = rec.takerUser
        /\ T[a].sym = rec.sym /\ T[b].sym = rec.sym
        /\ T[b].side = rec.aggressor /\ T[a].side = Opposite(rec.aggressor)
    BY <1>2, <1>5, <1>6, <1>8, <1>9 DEF Opposite
  <2>2. rec.qty \in 1 .. T[a].qty /\ rec.qty \in 1 .. T[b].qty
    BY <1>2, <1>3, <1>5, <1>6
  <2>3. rec.price \in 1 .. (IF rec.aggressor = "BUY" THEN T[b].price ELSE T[a].price)
    BY <1>5, <1>6, <1>8, <1>9, <1>10
  <2>4. {rec.maker, rec.taker} \subseteq DOMAIN T /\ rec.maker # rec.taker
    BY <1>2, <1>4, <1>6
  <2>5. QED
    BY <1>6, <2>1, <2>2, <2>3, <2>4 DEF TradesRows
<1>12. MayFollow(T, rec)
  BY <1>6, <1>11 DEF MayFollow
<1>13. PICK U, V : U = Cut(T, a, q) /\ V = Cut(U, b, q)
  OBVIOUS
<1>14. NextRows(T, rec) = V
  BY <1>6, <1>13 DEF NextRows
<1>15. /\ DOMAIN U = IF T[a].qty = q THEN DOMAIN T \ {a} ELSE DOMAIN T
       /\ \A z \in DOMAIN U : z # a => U[z] = T[z]
       /\ T[a].qty # q => U[a] = [T[a] EXCEPT !.qty = @ - q]
  BY <1>2, <1>4, <1>13, CutIs
<1>16. b \in DOMAIN U /\ U[b] = T[b]
  BY <1>2, <1>4, <1>15
<1>17. /\ DOMAIN V = IF T[b].qty = q THEN DOMAIN U \ {b} ELSE DOMAIN U
       /\ V = [z \in DOMAIN V |-> V[z]]
       /\ \A z \in DOMAIN V : z # b => V[z] = U[z]
       /\ T[b].qty # q => V[b] = [T[b] EXCEPT !.qty = @ - q]
  <2>1. /\ DOMAIN V = IF U[b].qty = q THEN DOMAIN U \ {b} ELSE DOMAIN U
        /\ V = [z \in DOMAIN V |-> V[z]]
        /\ \A z \in DOMAIN V : z # b => V[z] = U[z]
        /\ U[b].qty # q => V[b] = [U[b] EXCEPT !.qty = @ - q]
    <3>1. V = Cut(U, b, q) /\ b \in DOMAIN U
      BY <1>13, <1>16
    <3>2. QED
      BY ONLY <3>1, CutIs
  <2>2. QED
    BY <1>16, <2>1
<1>18. \A z \in DOMAIN e.orders :
          Rest(e, fill, z) = IF z \in {a, b} THEN e.orders[z].qty - q ELSE e.orders[z].qty
  <2> SUFFICES ASSUME NEW z \in DOMAIN e.orders
               PROVE  Rest(e, fill, z) = IF z \in {a, b} THEN e.orders[z].qty - q
                                                         ELSE e.orders[z].qty
    OBVIOUS
  <2>1. z \in {fill.buy, fill.sell} <=> z \in {a, b}
    OBVIOUS
  <2>2. e.orders[z].qty \in Nat
    BY <1>3
  <2>3. QED
    BY <1>1, <2>1, <2>2 DEF Rest
<1>19. /\ DOMAIN f.orders = {z \in DOMAIN e.orders : Rest(e, fill, z) > 0}
       /\ \A z \in DOMAIN f.orders : f.orders[z] = [e.orders[z] EXCEPT !.qty = Rest(e, fill, z)]
       /\ f.live = e.live
  BY DEF Traded, Beside
<1>20. \A z \in DOMAIN f.orders : f.orders[z].qty = Rest(e, fill, z)
  <2>1. \A z \in DOMAIN e.orders : e.orders[z] \in Order
    BY DEF Book, Shaped
  <2>2. QED
    BY <1>19, <2>1 DEF Order
<1>21. DOMAIN V = DOMAIN f.orders
  <2>1. ASSUME NEW z PROVE z \in DOMAIN V <=> z \in DOMAIN f.orders
    <3>1. CASE z = a
      <4>1. z \in DOMAIN V <=> T[a].qty # q
        BY <1>2, <1>4, <1>15, <1>17, <3>1
      <4>2. z \in DOMAIN f.orders <=> e.orders[a].qty - q > 0
        BY <1>2, <1>18, <1>19, <3>1
      <4>3. QED
        BY <1>2, <1>3, <1>5, <4>1, <4>2
    <3>2. CASE z = b
      <4>1. z \in DOMAIN V <=> T[b].qty # q
        BY <1>16, <1>17, <3>2
      <4>2. z \in DOMAIN f.orders <=> e.orders[b].qty - q > 0
        BY <1>2, <1>18, <1>19, <3>2
      <4>3. QED
        BY <1>2, <1>3, <1>5, <4>1, <4>2
    <3>3. CASE z # a /\ z # b
      <4>1. z \in DOMAIN V <=> z \in DOMAIN e.orders
        BY <1>4, <1>15, <1>17, <3>3
      <4>2. z \in DOMAIN e.orders => e.orders[z].qty > 0
        BY DEF Positive
      <4>3. QED
        BY <1>18, <1>19, <3>3, <4>1, <4>2
    <3>4. QED
      BY <3>1, <3>2, <3>3
  <2>2. QED
    BY <2>1
<1>22. ASSUME NEW z \in DOMAIN f.orders PROVE RowIs(f, z, V[z])
  <2>1. z \in DOMAIN e.orders /\ z \in DOMAIN V /\ RowIs(e, z, T[z])
    BY <1>4, <1>19, <1>21
  <2>2. CASE z \in {a, b}
    <3>1. T[z].qty # q /\ V[z] = [T[z] EXCEPT !.qty = @ - q]
      BY <1>13, <1>15, <1>16, <1>17, <2>1, <2>2
    <3>2. f.orders[z].qty = e.orders[z].qty - q
      BY <1>18, <1>20, <2>1, <2>2
    <3>3. QED
      BY <1>19, <2>1, <3>1, <3>2 DEF RowIs
  <2>3. CASE z \notin {a, b}
    <3>1. V[z] = T[z]
      BY <1>15, <1>17, <2>1, <2>3
    <3>2. f.orders[z].qty = e.orders[z].qty
      BY <1>18, <1>20, <2>1, <2>3
    <3>3. QED
      BY <1>19, <2>1, <3>1, <3>2 DEF RowIs
  <2>4. QED
    BY <2>2, <2>3
<1>23. V = OpenOrders(f)
  BY <1>17, <1>21, <1>22, OpenOrdersAre
<1>24. QED
  BY <1>1, <1>12, <1>14, <1>23

\* The fills of match() so far may follow, from the book with the new order.
Filling(b, live, id, r, m) ==
    Passes(OpenOrders(b), Records(live, id, r, m.fills), Len(m.fills), OpenOrders(m.eng))

\* The order that arrived is the taker of every fill, for the others did not cross.
LEMMA TakerArrived ==
    ASSUME NEW e, Sound(e), NEW r, Submitted(r), ~CanMatch(e, r.sym),
           NEW b, b = Entered(e, r), NEW f, f.live = b.live,
           \A x \in DOMAIN f.orders : x \in DOMAIN b.orders /\ LevelOf(f.orders[x]) = LevelOf(b.orders[x]),
           NEW fill, Crosses(f, r.sym, fill), NEW S, Happened(b, r.sym, S, fill),
           NEW rec, rec = FillRecord(b.live, e.next, r, fill)
    PROVE  \E a : /\ {a, e.next} = {fill.buy, fill.sell} /\ a # e.next
                  /\ rec = Fill(f.live[a], f.live[e.next], fill.price, fill.qty, r.sym,
                                f.orders[e.next].side)
<1>1. PICK id : id = e.next
  OBVIOUS
<1>2. /\ b.live = Known(e, r).live /\ b.orders[id].side = r.side
      /\ id \notin DOMAIN e.orders /\ DOMAIN b.orders = DOMAIN e.orders \union {id} /\ Sound(b)
  <2>1. Enters(e, r, b)
    BY Entering
  <2>2. QED
    BY <1>1, <2>1 DEF Enters
<1>3. PICK g : g = [orders |-> [x \in S |-> 0]]
  OBVIOUS
<1>4. DOMAIN g.orders \subseteq S
  BY <1>3
<1>5. Prior(e, g, OrderAccepted(r, e.next), rec)
  <2>1. Happened(Entered(e, r), r.sym, S, fill) /\ rec = FillRecord(Known(e, r).live, e.next, r, fill)
    BY <1>2
  <2>2. QED
    BY <1>4, <2>1, PriorFill
<1>6. rec.maker \in DOMAIN e.orders /\ rec.taker = id
  BY <1>1, <1>5 DEF Prior, OrderAccepted
<1>7. PICK x, y : x = fill.buy /\ y = fill.sell
  OBVIOUS
<1>8. x \in DOMAIN f.orders /\ y \in DOMAIN f.orders /\ x \in DOMAIN b.orders /\ y \in DOMAIN b.orders
  BY <1>7 DEF Crosses
<1>9. b.live[x].id = x /\ b.live[y].id = y
  BY <1>2, <1>8 DEF Sound, Owned
<1>10. rec = IF x = id THEN Fill(b.live[y], b.live[x], fill.price, fill.qty, r.sym, r.side)
             ELSE Fill(b.live[x], b.live[y], fill.price, fill.qty, r.sym, r.side)
  BY <1>1, <1>7 DEF FillRecord
<1>11. id \in DOMAIN f.orders => f.orders[id].side = r.side
  BY <1>2 DEF LevelOf
<1>12. CASE x = id
  <2>1. rec = Fill(b.live[y], b.live[id], fill.price, fill.qty, r.sym, r.side)
    BY <1>10, <1>12
  <2>2. y # id
    <3>1. rec.maker = y
      BY <1>9, <2>1 DEF Fill
    <3>2. QED
      BY <1>2, <1>6, <3>1
  <2>3. rec = Fill(f.live[y], f.live[id], fill.price, fill.qty, r.sym, f.orders[id].side)
    BY <1>8, <1>11, <1>12, <2>1
  <2>4. QED
    BY <1>1, <1>7, <1>12, <2>2, <2>3
<1>13. CASE x # id
  <2>1. rec = Fill(b.live[x], b.live[y], fill.price, fill.qty, r.sym, r.side)
    BY <1>10, <1>13
  <2>2. y = id
    <3>1. rec.taker = y
      BY <1>9, <2>1 DEF Fill
    <3>2. QED
      BY <1>6, <3>1
  <2>3. rec = Fill(f.live[x], f.live[id], fill.price, fill.qty, r.sym, f.orders[id].side)
    BY <1>8, <1>11, <2>1, <2>2
  <2>4. QED
    BY <1>1, <1>7, <1>13, <2>2, <2>3
<1>14. QED
  BY <1>12, <1>13

LEMMA TurnFollows ==
    ASSUME NEW e, Sound(e), NEW r, Submitted(r), ~CanMatch(e, r.sym),
           NEW b, b = Entered(e, r), NEW m, Going(b, r.sym, m), CanMatch(m.eng, r.sym),
           Filling(b, b.live, e.next, r, m)
    PROVE  Filling(b, b.live, e.next, r, Turn(m, r.sym))
<1>1. PICK w, f, g, sym : w = Turn(m, r.sym) /\ f = m.eng /\ g = w.eng /\ sym = r.sym
  OBVIOUS
<1>2. PICK fill : /\ w.fills = Append(m.fills, fill)
                  /\ Crosses(f, sym, fill) /\ Traded(f, g, fill)
  BY <1>1, TurnGoes
<1>3. Going(b, sym, w)
  BY <1>1, TurnGoes
<1>4. PICK n \in Nat : n = Len(m.fills)
  BY DEF Going
<1>5. m.fills \in Seq(BookFill) /\ w.fills \in Seq(BookFill)
  BY <1>3 DEF Going
<1>6. /\ Len(w.fills) = n + 1 /\ w.fills[n + 1] = fill /\ \A i \in 1 .. n : w.fills[i] = m.fills[i]
  <2>1. /\ Len(Append(m.fills, fill)) = Len(m.fills) + 1 /\ Append(m.fills, fill)[Len(m.fills) + 1] = fill
        /\ \A i \in 1 .. Len(m.fills) : Append(m.fills, fill)[i] = m.fills[i]
    BY <1>5
  <2>2. QED
    BY <1>2, <1>4, <2>1
<1>7. PICK s, t, rec : /\ s = Records(b.live, e.next, r, m.fills)
                       /\ t = Records(b.live, e.next, r, w.fills)
                       /\ rec = FillRecord(b.live, e.next, r, fill)
  OBVIOUS
<1>8. t[n + 1] = rec /\ \A i \in 1 .. n : t[i] = s[i]
  <2>1. n + 1 \in 1 .. n + 1 /\ \A i \in 1 .. n : i \in 1 .. n + 1
    BY <1>4
  <2>2. t[n + 1] = rec
    BY <1>6, <1>7, <2>1 DEF Records
  <2>3. \A i \in 1 .. n : t[i] = s[i]
    BY <1>4, <1>6, <1>7, <2>1 DEF Records
  <2>4. QED
    BY <2>2, <2>3
<1>9. /\ Book(f) /\ Positive(f) /\ f.live = b.live
      /\ \A x \in DOMAIN f.orders : x \in DOMAIN b.orders /\ LevelOf(f.orders[x]) = LevelOf(b.orders[x])
  BY <1>1 DEF Going, Beside
<1>10. Happened(b, sym, DOMAIN g.orders, fill)
  <2>1. n + 1 \in 1 .. Len(w.fills)
    BY <1>4, <1>6
  <2>2. QED
    BY <1>1, <1>3, <1>6, <2>1 DEF Going
<1>11. PICK a : /\ {a, e.next} = {fill.buy, fill.sell} /\ a # e.next
                /\ rec = Fill(f.live[a], f.live[e.next], fill.price, fill.qty, sym,
                              f.orders[e.next].side)
  <2>1. PICK live, S : live = b.live /\ S = DOMAIN g.orders
    OBVIOUS
  <2>2. /\ f.live = b.live
        /\ \A x \in DOMAIN f.orders :
              x \in DOMAIN b.orders /\ LevelOf(f.orders[x]) = LevelOf(b.orders[x])
    BY <1>9
  <2>3. Crosses(f, r.sym, fill) /\ Happened(b, r.sym, S, fill)
    BY <1>1, <1>2, <1>10, <2>1
  <2>4. rec = FillRecord(b.live, e.next, r, fill)
    BY <1>7
  <2>5. \E a : /\ {a, e.next} = {fill.buy, fill.sell} /\ a # e.next
               /\ rec = Fill(f.live[a], f.live[e.next], fill.price, fill.qty, r.sym,
                             f.orders[e.next].side)
    BY <2>2, <2>3, <2>4, TakerArrived, SMTT(30)
  <2>6. QED
    BY <1>1, <2>5
<1>12. Owned(f)
  <2>1. Owned(b)
    <3>1. Enters(e, r, b)
      BY Entering
    <3>2. QED
      BY <3>1 DEF Enters, Sound
  <2>2. QED
    BY <1>9, <2>1 DEF Owned, LevelOf
<1>13. MayFollow(OpenOrders(f), rec) /\ NextRows(OpenOrders(f), rec) = OpenOrders(g)
  <2>1. PICK id : id = e.next
    OBVIOUS
  <2>2. /\ {a, id} = {fill.buy, fill.sell} /\ a # id
        /\ rec = Fill(f.live[a], f.live[id], fill.price, fill.qty, sym, f.orders[id].side)
    BY <1>11, <2>1
  <2>3. Book(f) /\ Owned(f) /\ Positive(f) /\ Crosses(f, sym, fill) /\ Traded(f, g, fill)
    BY <1>2, <1>9, <1>12
  <2>4. QED
    BY ONLY <2>2, <2>3, FillFollows
<1>14. Passes(OpenOrders(b), s, n, OpenOrders(f))
  BY <1>1, <1>4, <1>7 DEF Filling
<1>15. Passes(OpenOrders(b), t, n + 1, NextRows(OpenOrders(f), t[n + 1]))
  <2>1. PICK T, U : T = OpenOrders(b) /\ U = OpenOrders(f)
    OBVIOUS
  <2>2. MayFollow(U, t[n + 1])
    BY <1>8, <1>13, <2>1
  <2>3. Passes(T, s, n, U)
    BY <1>14, <2>1
  <2>4. Passes(T, t, n + 1, NextRows(U, t[n + 1]))
    BY ONLY <1>4, <1>8, <2>2, <2>3, PassesMore
  <2>5. QED
    BY <2>1, <2>4
<1>16. Passes(OpenOrders(b), t, Len(w.fills), OpenOrders(g))
  BY <1>6, <1>8, <1>13, <1>15
<1>17. QED
  BY <1>1, <1>7, <1>16 DEF Filling

LEMMA MatchFollows ==
    ASSUME NEW e, Sound(e), NEW r, Submitted(r), ~CanMatch(e, r.sym), NEW b, b = Entered(e, r)
    PROVE  Filling(b, b.live, e.next, r, Match(b, r.sym))
<1>1. PICK n \in Nat : n = Cardinality(DOMAIN b.orders)
  <2>1. Enters(e, r, b)
    BY Entering
  <2>2. QED
    BY <2>1, FewOrders DEF Enters, Sound
<1>2. Book(b) /\ Positive(b)
  <2>1. Enters(e, r, b)
    BY Entering
  <2>2. QED
    BY <2>1 DEF Enters, Sound
<1>3. PICK v : /\ v[0] = [eng |-> b, fills |-> <<>>] /\ v[n] = Match(b, r.sym)
               /\ \A k \in 0 .. n - 1 : v[k + 1] = Turn(v[k], r.sym)
  BY <1>1, <1>2, MatchRuns
<1> DEFINE P == {k \in 0 .. n : /\ Going(b, r.sym, v[k])
                                /\ Filling(b, b.live, e.next, r, v[k])}
<1>4. 0 \in P
  <2>1. Going(b, r.sym, v[0])
    BY <1>2, <1>3, GoingStarts
  <2>2. v[0].eng = b /\ Len(v[0].fills) = 0
    BY <1>3
  <2>3. Filling(b, b.live, e.next, r, v[0])
    BY <2>2, PassesNone DEF Filling
  <2>4. QED
    BY <2>1, <2>3
<1>5. ASSUME NEW k \in 0 .. n - 1, k \in P PROVE k + 1 \in P
  <2>1. PICK w, x : w = v[k] /\ x = v[k + 1] /\ x = Turn(w, r.sym)
    BY <1>3
  <2>2. Going(b, r.sym, w) /\ Filling(b, b.live, e.next, r, w)
    BY <1>5, <2>1
  <2>3. CASE CanMatch(w.eng, r.sym)
    <3>1. Going(b, r.sym, x)
      BY <2>1, <2>2, <2>3, TurnGoes
    <3>2. Filling(b, b.live, e.next, r, x)
      BY <2>1, <2>2, <2>3, TurnFollows
    <3>3. k + 1 \in 0 .. n /\ Going(b, r.sym, v[k + 1]) /\ Filling(b, b.live, e.next, r, v[k + 1])
      BY <2>1, <3>1, <3>2
    <3>4. QED
      BY <3>3
  <2>4. CASE ~CanMatch(w.eng, r.sym)
    <3>1. x = w
      BY <2>1, <2>4 DEF Turn
    <3>2. k + 1 \in 0 .. n /\ Going(b, r.sym, v[k + 1]) /\ Filling(b, b.live, e.next, r, v[k + 1])
      BY <2>1, <2>2, <3>1
    <3>3. QED
      BY <3>2
  <2>5. QED
    BY <2>3, <2>4
<1>6. 0 .. n \subseteq P
  <2> HIDE DEF P
  <2>1. QED
    BY <1>4, <1>5, Turning!UpTo
<1>7. QED
  BY <1>3, <1>6

\* An answer that passes, and accepts what was sent, is as the contract has it.
LEMMA AnswerIs ==
    ASSUME NEW S, NEW a \in Seq(S), NEW T, NEW U, NEW r, Passes(T, a, Len(a), U),
           \A i \in 1 .. Len(a) : a[i].kind = "OrderAccepted" =>
               i = 1 /\ r.kind = "SubmitOrder" /\ \E id : a[i] = OrderAccepted(r, id)
    PROVE  Answered(T, r, a, U)
<1>1. /\ U = RowsAfter(T, a, Len(a))
      /\ \A i \in 1 .. Len(a) : MayFollow(RowsAfter(T, a, i - 1), a[i])
  BY PassesAre
<1>2. ASSUME NEW i \in 1 .. Len(a), a[i].kind = "OrderAccepted"
      PROVE  i = 1 /\ r.kind = "SubmitOrder" /\ a[i] = OrderAccepted(r, a[i].id)
  <2>1. PICK id : i = 1 /\ r.kind = "SubmitOrder" /\ a[i] = OrderAccepted(r, id)
    BY <1>2
  <2>2. a[i].id = id
    BY <2>1 DEF OrderAccepted
  <2>3. QED
    BY <2>1, <2>2
<1>3. QED
  BY <1>1, <1>2 DEF Answered

\* One record.
LEMMA OneFollows ==
    ASSUME NEW T, NEW r, NEW rec, rec.kind # "OrderAccepted", MayFollow(T, rec)
    PROVE  Answered(T, r, <<rec>>, NextRows(T, rec))
<1>1. PICK a, S : a = <<rec>> /\ S = {rec}
  OBVIOUS
<1>2. a \in Seq(S) /\ Len(a) = 1 /\ a[1] = rec
  BY <1>1
<1>3. Passes(T, a, 0, T)
  BY PassesNone
<1>4. 0 \in Nat /\ 0 + 1 = 1 /\ MayFollow(T, a[0 + 1]) /\ \A i \in 1 .. 0 : a[i] = a[i]
  BY <1>2
<1>5. Passes(T, a, 0 + 1, NextRows(T, a[0 + 1]))
  BY ONLY <1>3, <1>4, PassesMore
<1>6. Passes(T, a, Len(a), NextRows(T, rec))
  BY <1>2, <1>4, <1>5
<1>7. \A i \in 1 .. Len(a) : a[i].kind # "OrderAccepted"
  BY <1>2
<1>8. Answered(T, r, a, NextRows(T, rec))
  BY <1>2, <1>6, <1>7, AnswerIs
<1>9. QED
  BY <1>1, <1>8

\* What is left after the fills, and what the loop that forgets leaves, are the same.
LEMMA SettledRows ==
    ASSUME NEW b, Sound(b), NEW sym, NEW m, m = Match(b, sym), NEW s, s = Settle(m.eng, m.fills)
    PROVE  OpenOrders(s) = OpenOrders(m.eng)
<1>1. /\ Sound(s) /\ s.orders = m.eng.orders
      /\ \A x \in DOMAIN s.live : s.live[x] = b.live[x]
  BY Matching
<1>2. m.eng.live = b.live
  <2>1. Book(b) /\ Positive(b)
    BY DEF Sound
  <2>2. PICK live, id, r : live = [x \in DOMAIN b.orders |-> [id |-> x]] /\ id = 0 /\ r = 0
    OBVIOUS
  <2>3. \A x \in DOMAIN b.orders : live[x].id = x
    BY <2>2
  <2>4. Going(b, sym, m)
    BY <2>1, <2>3, Matched
  <2>5. QED
    BY <2>4 DEF Going, Beside
<1>3. DOMAIN s.orders = DOMAIN s.live
  BY <1>1 DEF Sound
<1>4. PICK T : T = OpenOrders(s)
  OBVIOUS
<1>5. /\ T = [x \in DOMAIN T |-> T[x]] /\ DOMAIN T = DOMAIN m.eng.orders
      /\ \A x \in DOMAIN s.orders : RowIs(s, x, T[x])
  BY <1>1, <1>4, OpenOrdersAre
<1>6. \A x \in DOMAIN m.eng.orders : RowIs(m.eng, x, T[x])
  <2>1. \A x \in DOMAIN m.eng.orders : s.live[x] = m.eng.live[x] /\ s.orders[x] = m.eng.orders[x]
    BY <1>1, <1>2, <1>3
  <2>2. QED
    BY <1>1, <1>5, <2>1 DEF RowIs
<1>7. T = OpenOrders(m.eng)
  BY <1>5, <1>6, OpenOrdersAre
<1>8. QED
  BY <1>4, <1>7

LEMMA SubmitFollows ==
    ASSUME NEW e, Engine(e), NEW r, Submitted(r), r.user \in Users, NEW z, z = Submit(e, r)
    PROVE  Answered(OpenOrders(e), r, z.out, OpenOrders(z.eng))
<1>1. PICK b, m, s, id, live : /\ b = Entered(e, r) /\ m = Match(b, r.sym)
                              /\ s = Settle(m.eng, m.fills) /\ id = e.next
                              /\ live = Known(e, r).live
  OBVIOUS
<1>2. PICK acc, recs, a : /\ acc = OrderAccepted(r, id)
                          /\ recs = [i \in DOMAIN m.fills |-> FillRecord(live, id, r, m.fills[i])]
                          /\ a = <<acc>> \o recs
  BY Zenon
<1>3. PICK mine, expired, left : /\ mine = NewOrder(e, r)
                                 /\ expired = OrderCancelled(mine, s.orders[id].qty, "IOC_EXPIRED")
                                 /\ left = Forget(RemoveOrder(s, id), id)
  OBVIOUS
<1>4. z = IF r.tif = "IOC" /\ id \in DOMAIN s.orders
          THEN [eng |-> left, out |-> Append(a, expired)]
          ELSE [eng |-> s, out |-> a]
  <2>1. s = Settle(m.eng, m.fills) /\ m = Match(Entered(e, r), r.sym)
    BY <1>1
  <2>2. recs = [i \in DOMAIN m.fills |-> FillRecord(Known(e, r).live, e.next, r, m.fills[i])]
    BY <1>1, <1>2
  <2>3. Submit(e, r) =
           IF r.tif = "IOC" /\ e.next \in DOMAIN s.orders
           THEN [eng |-> Forget(RemoveOrder(s, e.next), e.next),
                 out |-> Append(<<OrderAccepted(r, e.next)>> \o recs,
                                OrderCancelled(NewOrder(e, r), s.orders[e.next].qty,
                                               "IOC_EXPIRED"))]
           ELSE [eng |-> s, out |-> <<OrderAccepted(r, e.next)>> \o recs]
    BY ONLY <2>1, <2>2, SubmitIs, ZenonT(60)
  <2>4. QED
    BY <1>1, <1>2, <1>3, <2>3, Zenon
<1>5. Sound(e) /\ ~CanMatch(e, r.sym)
  BY DEF Engine, Sound, Submitted
<1>6. Sound(b) /\ b.live = live
  <2>1. Enters(e, r, b)
    BY <1>1, <1>5, Entering
  <2>2. QED
    BY <1>1, <2>1 DEF Enters
<1>7. Sound(s)
  BY <1>1, <1>6, Matching
<1>8. OpenOrders(s) = OpenOrders(m.eng)
  BY <1>1, <1>6, SettledRows
<1>9. MayFollow(OpenOrders(e), acc) /\ NextRows(OpenOrders(e), acc) = OpenOrders(b)
  BY <1>1, <1>2, <1>5, AcceptFollows
<1>10. Filling(b, live, id, r, m)
  BY <1>1, <1>5, <1>6, MatchFollows
<1>11. PICK n \in Nat : /\ n = Len(m.fills) /\ DOMAIN m.fills = 1 .. n
  <2>1. \A x \in DOMAIN b.orders : live[x].id = x
    BY <1>6 DEF Sound, Owned
  <2>2. Going(b, r.sym, m)
    BY <1>1, <1>6, <2>1, Matched DEF Sound
  <2>3. QED
    BY <2>2 DEF Going
<1>12. Row(recs, n) /\ recs = Records(live, id, r, m.fills)
  BY <1>2, <1>11 DEF Row, Records
<1>13. Leads(acc, recs, n, a)
  BY <1>2, <1>12, OneThenMore
<1>14. PICK S : a \in Seq(S)
  BY <1>13 DEF Leads
<1>15. DOMAIN a = 1 .. n + 1 /\ Len(a) = n + 1 /\ a[1] = acc /\ \A i \in 1 .. n : a[1 + i] = recs[i]
  BY <1>13, <1>14 DEF Leads
<1>16. Passes(OpenOrders(e), a, n + 1, OpenOrders(s))
  <2>1. PICK T, U : T = OpenOrders(e) /\ U = OpenOrders(s)
    OBVIOUS
  <2>2. MayFollow(T, a[1]) /\ Passes(NextRows(T, a[1]), recs, n, U)
    BY <1>8, <1>9, <1>10, <1>11, <1>12, <1>15, <2>1 DEF Filling
  <2>3. Passes(T, a, n + 1, U)
    BY ONLY <1>11, <1>15, <2>2, PassesBefore
  <2>4. QED
    BY <2>1, <2>3
<1>17. \A i \in 1 .. n : recs[i].kind = "Fill"
  <2>1. \A fill : FillRecord(live, id, r, fill).kind = "Fill"
    BY DEF FillRecord, Fill
  <2>2. QED
    BY <1>2, <1>11, <2>1
<1>18. ASSUME NEW i \in 1 .. n + 1, a[i].kind = "OrderAccepted"
       PROVE  i = 1 /\ r.kind = "SubmitOrder" /\ \E x : a[i] = OrderAccepted(r, x)
  <2>1. CASE i = 1
    BY <1>2, <1>15, <2>1 DEF Submitted
  <2>2. CASE i # 1
    <3>1. i - 1 \in 1 .. n /\ 1 + (i - 1) = i
      BY <2>2
    <3>2. a[i].kind = "Fill"
      BY <1>15, <1>17, <3>1
    <3>3. QED
      BY <1>18, <3>2
  <2>3. QED
    BY <2>1, <2>2
<1>19. CASE ~(r.tif = "IOC" /\ id \in DOMAIN s.orders)
  <2>1. z.eng = s /\ z.out = a
    BY <1>4, <1>19
  <2>2. Answered(OpenOrders(e), r, a, OpenOrders(s))
    <3>1. PICK T, U : T = OpenOrders(e) /\ U = OpenOrders(s)
      OBVIOUS
    <3>2. Passes(T, a, Len(a), U)
      BY <1>15, <1>16, <3>1
    <3>3. \A i \in 1 .. Len(a) : a[i].kind = "OrderAccepted" =>
             i = 1 /\ r.kind = "SubmitOrder" /\ \E x : a[i] = OrderAccepted(r, x)
      BY <1>15, <1>18
    <3>4. Answered(T, r, a, U)
      BY ONLY <1>14, <3>2, <3>3, AnswerIs
    <3>5. QED
      BY <3>1, <3>4
  <2>3. QED
    BY <2>1, <2>2
<1>20. CASE r.tif = "IOC" /\ id \in DOMAIN s.orders
  <2>1. PICK c : z.eng = left /\ z.out = c /\ c = Append(a, expired)
    BY <1>4, <1>20
  <2>2. expired.kind = "OrderCancelled" /\ expired.id = id
    BY <1>1, <1>3 DEF OrderCancelled, NewOrder
  <2>3. MayFollow(OpenOrders(s), expired) /\ NextRows(OpenOrders(s), expired) = OpenOrders(left)
    BY <1>3, <1>7, <1>20, <2>2, CancelFollows
  <2>4. PICK V : c \in Seq(V) /\ Len(c) = n + 2 /\ c[n + 2] = expired /\ \A i \in 1 .. n + 1 : c[i] = a[i]
    <3>1. PICK V : V = S \union {expired}
      OBVIOUS
    <3>2. a \in Seq(V) /\ expired \in V
      BY <1>14, <3>1
    <3>3. /\ Append(a, expired) \in Seq(V) /\ Len(Append(a, expired)) = Len(a) + 1
          /\ Append(a, expired)[Len(a) + 1] = expired
          /\ \A i \in 1 .. Len(a) : Append(a, expired)[i] = a[i]
      BY <3>2
    <3>4. (n + 1) + 1 = n + 2
      OBVIOUS
    <3>5. QED
      BY <1>15, <2>1, <3>3, <3>4
  <2>5. PICK T, U, W : T = OpenOrders(e) /\ U = OpenOrders(s) /\ W = OpenOrders(left)
    OBVIOUS
  <2>6. Passes(T, c, Len(c), W)
    <3>1. PICK k \in Nat : k = n + 1 /\ k + 1 = n + 2
      OBVIOUS
    <3>2. Passes(T, a, k, U) /\ (\A i \in 1 .. k : c[i] = a[i]) /\ MayFollow(U, c[k + 1])
      BY <1>16, <2>3, <2>4, <2>5, <3>1
    <3>3. Passes(T, c, k + 1, NextRows(U, c[k + 1]))
      BY ONLY <3>2, PassesMore
    <3>4. QED
      BY <2>3, <2>4, <2>5, <3>1, <3>3
  <2>7. ASSUME NEW i \in 1 .. Len(c), c[i].kind = "OrderAccepted"
        PROVE  i = 1 /\ r.kind = "SubmitOrder" /\ \E x : c[i] = OrderAccepted(r, x)
    <3>1. i # n + 2
      BY <2>2, <2>4, <2>7
    <3>2. i \in 1 .. n + 1
      BY <2>4, <3>1
    <3>3. QED
      BY <1>18, <2>4, <2>7, <3>2
  <2>8. Answered(T, r, c, W)
    BY ONLY <2>4, <2>6, <2>7, AnswerIs
  <2>9. QED
    BY <2>1, <2>5, <2>8
<1>21. QED
  BY <1>19, <1>20

\* Every order request, whatever becomes of it.
LEMMA ApplyFollows ==
    ASSUME NEW e, Engine(e), NEW r \in Inputs, r.kind \in {"SubmitOrder", "CancelOrder"},
           NEW z, z = Apply(e, r)
    PROVE  Answered(OpenOrders(e), r, z.out, OpenOrders(z.eng))
<1>1. r.kind = "SubmitOrder" => /\ r.user \in Users /\ r.sym \in Symbols
                                /\ r.price \in Int /\ r.qty \in Int
                                /\ r.price > 0 => r.price \in Prices
  BY InputsAreRecords
<1>2. ASSUME NEW reason, z = Reject(e, r, reason)
      PROVE  Answered(OpenOrders(e), r, z.out, OpenOrders(z.eng))
  <2>1. PICK rec, T : rec = OrderRejected(r, reason) /\ T = OpenOrders(e)
    OBVIOUS
  <2>2. z.eng = e /\ z.out = <<rec>>
    BY <1>2, <2>1 DEF Reject
  <2>3. rec.kind = "OrderRejected"
    BY <2>1 DEF OrderRejected
  <2>4. MayFollow(T, rec) /\ NextRows(T, rec) = T
    BY <2>3 DEF MayFollow, NextRows
  <2>5. Answered(T, r, <<rec>>, NextRows(T, rec))
    BY <2>3, <2>4, OneFollows
  <2>6. QED
    BY <2>1, <2>2, <2>4, <2>5
<1>3. CASE r.kind = "SubmitOrder"
  <2>1. CASE ~WellFormed(r)
    <3>1. z = Reject(e, r, Refusal(r))
      BY <1>3, <2>1 DEF Apply, Sequenced
    <3>2. QED
      BY <1>2, <3>1
  <2>2. CASE WellFormed(r)
    <3>1. z = Submit(e, r)
      BY <1>3, <2>2 DEF Apply, Sequenced
    <3>2. Submitted(r) /\ r.user \in Users
      BY <1>1, <1>3, <2>2 DEF Submitted, WellFormed
    <3>3. QED
      BY <3>1, <3>2, SubmitFollows
  <2>3. QED
    BY <2>1, <2>2
<1>4. CASE r.kind = "CancelOrder"
  <2>1. PICK target, id : target = <<r.user, r.target>> /\ id = e.index[target]
    OBVIOUS
  <2>2. z = Cancel(e, r)
    BY <1>4 DEF Apply, Sequenced
  <2>3. CASE target \notin DOMAIN e.index
    <3>1. z = Reject(e, r, "UNKNOWN_ORDER")
      BY <2>1, <2>2, <2>3 DEF Cancel
    <3>2. QED
      BY <1>2, <3>1
  <2>4. CASE target \in DOMAIN e.index
    <3>1. PICK g, rec, T : /\ g = Forget(RemoveOrder(e, id), id) /\ T = OpenOrders(e)
                           /\ rec = OrderCancelled(e.live[id], e.orders[id].qty, "USER_REQUESTED")
      OBVIOUS
    <3>2. z.eng = g /\ z.out = <<rec>>
      BY <2>1, <2>2, <2>4, <3>1 DEF Cancel
    <3>3. Sound(e) /\ id \in DOMAIN e.orders /\ e.live[id].id = id
      BY <2>1, <2>4 DEF Engine, Sound, Indexed, Owned
    <3>4. rec.kind = "OrderCancelled" /\ rec.id = id
      BY <3>1, <3>3 DEF OrderCancelled
    <3>5. MayFollow(T, rec) /\ NextRows(T, rec) = OpenOrders(g)
      BY <3>1, <3>3, <3>4, CancelFollows
    <3>6. Answered(T, r, <<rec>>, NextRows(T, rec))
      BY <3>4, <3>5, OneFollows
    <3>7. QED
      BY <3>1, <3>2, <3>5, <3>6
  <2>5. QED
    BY <2>3, <2>4
<1>5. QED
  BY <1>3, <1>4

\* An engine as EngineInvariant has it stays one, and answers every order request as
\* the gateway's proofs take for granted (Orders, EngineTellsOrders), from no open
\* order on: the assumption there holds of the engine of stream_engine.cpp.
THEOREM EngineKeepsTheContract ==
    /\ Engine(New) /\ OpenOrders(New) = <<>>
    /\ \A e, r : Engine(e) /\ r \in Inputs /\ r.kind \in {"SubmitOrder", "CancelOrder"} =>
          LET a == Apply(e, r)
          IN  Engine(a.eng) /\ Answered(OpenOrders(e), r, a.out, OpenOrders(a.eng))
<1>1. OpenOrders(New) = <<>>
  <2>1. PICK e, none : e = New /\ none = <<>> /\ DOMAIN none = {}
    OBVIOUS
  <2>2. e.orders = none
    BY <2>1 DEF New
  <2>3. none = [x \in DOMAIN none |-> none[x]] /\ DOMAIN none = DOMAIN e.orders
        /\ \A x \in DOMAIN e.orders : RowIs(e, x, none[x])
    BY <2>1, <2>2
  <2>4. none = OpenOrders(e)
    BY ONLY <2>3, OpenOrdersAre
  <2>5. QED
    BY <2>1, <2>4
<1>2. ASSUME NEW e, NEW r, Engine(e), r \in Inputs, r.kind \in {"SubmitOrder", "CancelOrder"},
             NEW a, a = Apply(e, r)
      PROVE  Engine(a.eng) /\ Answered(OpenOrders(e), r, a.out, OpenOrders(a.eng))
  <2>1. Answers(e, r, a)
    BY <1>2, Applying
  <2>2. Engine(a.eng)
    BY <2>1 DEF Answers
  <2>3. QED
    BY <1>2, <2>2, ApplyFollows
<1>3. QED
  BY <1>1, <1>2, NewEngine

\* The same of every step: the events of an order request lead from the orders that
\* rested before it to those that rest after it, record by record.
THEOREM EventsTellTheBook ==
    Spec => [][\E r \in Inputs :
                  /\ Feed(r)
                  /\ r.kind \in {"SubmitOrder", "CancelOrder"} =>
                        Answered(OpenOrders(eng), r, out', OpenOrders(eng'))]_<<eng, out>>
<1> DEFINE Told == \E r \in Inputs :
                      /\ Feed(r)
                      /\ r.kind \in {"SubmitOrder", "CancelOrder"} =>
                            Answered(OpenOrders(eng), r, out', OpenOrders(eng'))
<1>1. EInv /\ [Next]_vars => [Told]_<<eng, out>>
  <2> SUFFICES ASSUME EInv, [Next]_vars, <<eng, out>>' # <<eng, out>> PROVE Told
    OBVIOUS
  <2>1. PICK r \in Inputs : Feed(r)
    BY DEF Next, Restart, vars
  <2>2. PICK a : a = Apply(eng, r) /\ eng' = a.eng /\ out' = a.out
    BY <2>1, Fed DEF EInv
  <2>3. r.kind \in {"SubmitOrder", "CancelOrder"} =>
           Answered(OpenOrders(eng), r, a.out, OpenOrders(a.eng))
    BY <2>2, ApplyFollows DEF EInv
  <2>4. QED
    BY <2>1, <2>2, <2>3
<1>2. QED
  BY <1>1, EngineInvariant, PTL DEF Spec
-----------------------------------------------------------------------------
(***************************************************************************)
(* The reference engine.  Its book is a set of orders, and what trades are *)
(* the orders that go before all others on their sides.                    *)
(***************************************************************************)
Entry(e, id) == [id |-> id, sym |-> e.orders[id].sym, side |-> e.orders[id].side,
                 price |-> e.orders[id].price, qty |-> e.orders[id].qty,
                 arrival |-> e.orders[id].arrival]

Entries(e) == {Entry(e, id) : id \in DOMAIN e.orders}

\* The reference engine m holds what the deployed engine e holds.
Mirrors(e, m) ==
    /\ DOMAIN m = {"next", "book", "arrivals", "live", "index"}
    /\ m.next = e.next /\ m.book = Entries(e) /\ m.arrivals = e.arrivals
    /\ Same(m.live, e.live) /\ Same(m.index, e.index)

\* The orders of one side, as entries.
LEMMA QueueIs ==
    ASSUME NEW e, NEW sym, NEW side, NEW q, q = Naive!Queue(Entries(e), sym, side)
    PROVE  /\ \A o \in q : \E x \in DOMAIN e.orders :
                 o = Entry(e, x) /\ e.orders[x].sym = sym /\ e.orders[x].side = side
           /\ \A x \in DOMAIN e.orders :
                 e.orders[x].sym = sym /\ e.orders[x].side = side => Entry(e, x) \in q
<1>1. \A x \in DOMAIN e.orders : /\ Entry(e, x).sym = e.orders[x].sym
                                 /\ Entry(e, x).side = e.orders[x].side
  BY DEF Entry
<1>2. q = {o \in Entries(e) : o.sym = sym /\ o.side = side}
  BY DEF Naive!Queue
<1>3. \A o : o \in Entries(e) <=> \E x \in DOMAIN e.orders : o = Entry(e, x)
  BY DEF Entries
<1> HIDE DEF Entry, Entries
<1>4. QED
  BY <1>1, <1>2, <1>3

\* What stands before all others goes before them.
LEMMA BestIs ==
    ASSUME NEW e, Book(e), NEW id, id \in DOMAIN e.orders, First(e, DOMAIN e.orders, id),
           NEW sym, sym = e.orders[id].sym, NEW side, side = e.orders[id].side
    PROVE  Naive!BestOrder(Naive!Queue(Entries(e), sym, side)) = Entry(e, id)
<1>1. PICK q, o : q = Naive!Queue(Entries(e), sym, side) /\ o = Entry(e, id)
  OBVIOUS
<1>2. /\ \A p \in q : \E x \in DOMAIN e.orders :
             p = Entry(e, x) /\ e.orders[x].sym = sym /\ e.orders[x].side = side
      /\ o \in q
  BY <1>1, QueueIs
<1>3. \A x \in DOMAIN e.orders : /\ e.orders[x].price \in Nat /\ e.orders[x].arrival \in Nat
                                 /\ x \in Nat /\ e.orders[x].side \in Sides
  <2>1. Prices \subseteq Nat
    BY PricesAreAGrid
  <2>2. QED
    BY <2>1 DEF Book, Shaped, Order
<1>4. ASSUME NEW p \in q, p # o PROVE Naive!Before(o, p) /\ ~Naive!Before(p, o)
  <2>1. PICK x \in DOMAIN e.orders : p = Entry(e, x) /\ e.orders[x].sym = sym /\ e.orders[x].side = side
    BY <1>2, <1>4
  <2>2. x # id
    BY <1>1, <1>4, <2>1
  <2>3. e.orders[id].arrival < e.orders[x].arrival <=> id < x
    BY <2>1, <2>2, OlderIsSmaller
  <2>4. IF e.orders[x].price = e.orders[id].price THEN id < x
        ELSE IF side = "BUY" THEN e.orders[x].price < e.orders[id].price
                             ELSE e.orders[id].price < e.orders[x].price
    BY <2>1, <2>2 DEF First
  <2>5. /\ o.side = side /\ o.price = e.orders[id].price /\ o.arrival = e.orders[id].arrival
        /\ p.side = side /\ p.price = e.orders[x].price /\ p.arrival = e.orders[x].arrival
    BY <1>1, <2>1 DEF Entry
  <2>6. QED
    BY <1>3, <2>3, <2>4, <2>5 DEF Naive!Before
<1>5. Naive!BestOrder(q) = CHOOSE p \in q : \A x \in q \ {p} : Naive!Before(p, x)
  BY DEF Naive!BestOrder
<1>6. \A p \in q : (\A x \in q \ {p} : Naive!Before(p, x)) <=> p = o
  BY <1>2, <1>4
<1>7. (CHOOSE p \in q : \A x \in q \ {p} : Naive!Before(p, x)) = o
  BY <1>2, <1>6
<1>8. QED
  BY <1>1, <1>5, <1>7

\* The best price of a side.
LEMMA BestPrice ==
    ASSUME NEW e, Book(e), NEW sym, NEW side \in Sides, NEW p, p \in Quoted(e, sym, side),
           side = "BUY" => \A q \in Quoted(e, sym, side) : q <= p,
           side = "SELL" => \A q \in Quoted(e, sym, side) : p <= q,
           NEW id, id = Head(e.levels[<<sym, side, p>>])
    PROVE  /\ Naive!BestOrder(Naive!Queue(Entries(e), sym, side)) = Entry(e, id)
           /\ Entry(e, id).price = p
<1>1. /\ id \in DOMAIN e.orders /\ e.orders[id].sym = sym /\ e.orders[id].side = side
      /\ e.orders[id].price = p /\ First(e, DOMAIN e.orders, id)
  BY BestFirst
<1>2. QED
  BY <1>1, BestIs DEF Entry

LEMMA QuotedIs ==
    ASSUME NEW e, Book(e), NEW sym, NEW side
    PROVE  Quoted(e, sym, side) # {} <=> Naive!Queue(Entries(e), sym, side) # {}
<1>1. \A l : l \in DOMAIN e.levels <=> \E x \in DOMAIN e.orders : LevelOf(e.orders[x]) = l
  BY LevelsHeld
<1>2. ASSUME NEW p \in Quoted(e, sym, side) PROVE Naive!Queue(Entries(e), sym, side) # {}
  <2>1. PICK x \in DOMAIN e.orders : LevelOf(e.orders[x]) = <<sym, side, p>>
    BY <1>1, <1>2 DEF Quoted
  <2>2. e.orders[x].sym = sym /\ e.orders[x].side = side
    BY <2>1 DEF LevelOf
  <2>3. QED
    BY <2>2, QueueIs
<1>3. ASSUME NEW o \in Naive!Queue(Entries(e), sym, side) PROVE Quoted(e, sym, side) # {}
  <2>1. PICK x \in DOMAIN e.orders : e.orders[x].sym = sym /\ e.orders[x].side = side
    BY <1>3, QueueIs
  <2>2. LevelOf(e.orders[x]) = <<sym, side, e.orders[x].price>> /\ e.orders[x].price \in Prices
    BY <2>1 DEF LevelOf, Book, Shaped, Order
  <2>3. QED
    BY <1>1, <2>2 DEF Quoted
<1>4. QED
  BY <1>2, <1>3

\* The two books are crossed together.
LEMMA CrossedIs ==
    ASSUME NEW e, Book(e), NEW sym
    PROVE  Naive!Crossed(Entries(e), sym) <=> CanMatch(e, sym)
<1>1. CASE Quoted(e, sym, "BUY") # {} /\ Quoted(e, sym, "SELL") # {}
  <2>1. /\ Naive!BestOrder(Naive!Queue(Entries(e), sym, "BUY")).price = BestBid(e, sym)
        /\ Naive!BestOrder(Naive!Queue(Entries(e), sym, "SELL")).price = BestAsk(e, sym)
    <3>1. "BUY" \in Sides /\ "SELL" \in Sides /\ "BUY" # "SELL"
      BY DEF Sides
    <3>2. QED
      BY <1>1, <3>1, Bests, BestPrice
  <2>2. QED
    BY <1>1, <2>1, QuotedIs DEF Naive!Crossed, CanMatch
<1>2. CASE ~(Quoted(e, sym, "BUY") # {} /\ Quoted(e, sym, "SELL") # {})
  BY <1>2, QuotedIs DEF Naive!Crossed, CanMatch
<1>3. QED
  BY <1>1, <1>2

\* Two orders of the set are cut by what they trade, or are taken out.
LEMMA ReducedIs ==
    ASSUME NEW e, Book(e), Positive(e), NEW a \in DOMAIN e.orders, NEW b \in DOMAIN e.orders, a # b,
           NEW f, NEW fill, fill.buy = a, fill.sell = b, Traded(e, f, fill),
           NEW q, q = fill.qty, q \in Nat, q <= e.orders[a].qty, q <= e.orders[b].qty
    PROVE  Naive!Reduce(Naive!Reduce(Entries(e), Entry(e, a), q), Entry(e, b), q) = Entries(f)
<1> DEFINE C(x) == [Entry(e, x) EXCEPT !.qty = @ - q]
           D == DOMAIN e.orders
           Left(x) == IF e.orders[x].qty = q THEN {} ELSE {C(x)}
<1>1. \A x \in D : e.orders[x] \in Order /\ e.orders[x].qty > 0
  BY DEF Book, Shaped, Positive
<1>2. ASSUME NEW x \in DOMAIN f.orders
      PROVE  x \in D /\ Entry(f, x) = IF x \in {a, b} THEN C(x) ELSE Entry(e, x)
  <2>1. x \in D /\ f.orders[x] = [e.orders[x] EXCEPT !.qty = Rest(e, fill, x)]
    BY <1>2 DEF Traded
  <2>2. PICK o : o = e.orders[x] /\ o \in Order
    BY <1>1, <2>1
  <2>3. f.orders[x] = [o EXCEPT !.qty = Rest(e, fill, x)]
    BY <2>1, <2>2
  <2>4. /\ f.orders[x].sym = o.sym /\ f.orders[x].side = o.side /\ f.orders[x].price = o.price
        /\ f.orders[x].arrival = o.arrival /\ f.orders[x].qty = Rest(e, fill, x)
    BY <2>2, <2>3 DEF Order
  <2>5. Rest(e, fill, x) = IF x \in {a, b} THEN o.qty - q ELSE o.qty
    BY <2>2 DEF Rest, Order
  <2>6. QED
    BY <2>1, <2>2, <2>4, <2>5 DEF Entry
<1>3. \A x \in D : x \in DOMAIN f.orders <=> x \notin {a, b} \/ e.orders[x].qty # q
  BY <1>1 DEF Traded, Rest, Order
<1>4. /\ \A x \in D : Entry(e, x).id = x /\ C(x).id = x /\ Entry(e, x).qty = e.orders[x].qty
      /\ \A o : o \in Entries(e) <=> \E x \in D : o = Entry(e, x)
      /\ \A o : o \in Entries(f) <=> \E x \in DOMAIN f.orders : o = Entry(f, x)
  BY DEF Entry, Entries
<1>5. PICK r : r = Naive!Reduce(Entries(e), Entry(e, a), q)
  OBVIOUS
<1>6. /\ r = (Entries(e) \ {Entry(e, a)}) \union Left(a)
      /\ Naive!Reduce(r, Entry(e, b), q) = (r \ {Entry(e, b)}) \union Left(b)
  BY <1>4, <1>5 DEF Naive!Reduce
<1>7. ASSUME NEW o PROVE o \in (r \ {Entry(e, b)}) \union Left(b) <=> o \in Entries(f)
  <2> HIDE DEF C, D
  <2>1. o \in r <=> \/ \E x \in D : o = Entry(e, x) /\ x # a
                    \/ o = C(a) /\ e.orders[a].qty # q
    BY <1>4, <1>6 DEF D
  <2>2. o \in (r \ {Entry(e, b)}) \union Left(b)
           <=> \/ \E x \in D : o = Entry(e, x) /\ x # a /\ x # b
               \/ o = C(a) /\ e.orders[a].qty # q
               \/ o = C(b) /\ e.orders[b].qty # q
    BY <1>4, <2>1 DEF D
  <2>3. o \in Entries(f)
           <=> \/ \E x \in D : o = Entry(e, x) /\ x # a /\ x # b
               \/ o = C(a) /\ e.orders[a].qty # q
               \/ o = C(b) /\ e.orders[b].qty # q
    BY <1>2, <1>3, <1>4 DEF D
  <2>4. QED
    BY <2>2, <2>3
<1>8. (r \ {Entry(e, b)}) \union Left(b) = Entries(f)
  BY <1>7
<1>9. QED
  BY <1>5, <1>6, <1>8

\* One turn of either loop trades the same orders, at the same price.
LEMMA TurnMirrors ==
    ASSUME NEW e, Book(e), Positive(e), NEW sym, CanMatch(e, sym), NEW t, t = Trade(e, sym),
           NEW m, m.book = Entries(e), NEW w, w = Naive!Turn(m, sym)
    PROVE  w.book = Entries(t.eng) /\ w.fills = Append(m.fills, t.fill)
<1>1. /\ Crosses(e, sym, t.fill) /\ Traded(e, t.eng, t.fill)
  BY Trading
<1>2. PICK bid, ask : /\ bid = Head(e.levels[<<sym, "BUY", BestBid(e, sym)>>])
                      /\ ask = Head(e.levels[<<sym, "SELL", BestAsk(e, sym)>>])
  OBVIOUS
<1>3. PICK q : q = IF e.orders[bid].qty < e.orders[ask].qty THEN e.orders[bid].qty
                                                            ELSE e.orders[ask].qty
  OBVIOUS
<1>4. PICK maker : maker = IF e.orders[bid].arrival < e.orders[ask].arrival THEN bid ELSE ask
  OBVIOUS
<1>5. t.fill = [buy |-> bid, sell |-> ask, price |-> e.orders[maker].price, qty |-> q]
  BY <1>2, <1>3, <1>4, Zenon DEF Trade
<1>6. "BUY" \in Sides /\ "SELL" \in Sides /\ "BUY" # "SELL"
  BY DEF Sides
<1>7. /\ Naive!BestOrder(Naive!Queue(m.book, sym, "BUY")) = Entry(e, bid)
      /\ Naive!BestOrder(Naive!Queue(m.book, sym, "SELL")) = Entry(e, ask)
  BY <1>2, <1>6, Bests, BestPrice DEF CanMatch
<1>8. /\ Entry(e, bid).qty = e.orders[bid].qty /\ Entry(e, ask).qty = e.orders[ask].qty
      /\ Entry(e, bid).arrival = e.orders[bid].arrival /\ Entry(e, ask).arrival = e.orders[ask].arrival
      /\ Entry(e, bid).id = bid /\ Entry(e, ask).id = ask
      /\ Entry(e, bid).price = e.orders[bid].price /\ Entry(e, ask).price = e.orders[ask].price
  BY DEF Entry
<1>9. Naive!Crossed(m.book, sym)
  BY CrossedIs
<1>10. PICK x, y : x = Entry(e, bid) /\ y = Entry(e, ask)
  OBVIOUS
<1>11. w = [book  |-> Naive!Reduce(Naive!Reduce(m.book, x, q), y, q),
            fills |-> Append(m.fills, [buy |-> bid, sell |-> ask,
                                       price |-> e.orders[maker].price, qty |-> q])]
  BY <1>3, <1>4, <1>7, <1>8, <1>9, <1>10 DEF Naive!Turn
<1>12. w.fills = Append(m.fills, t.fill)
  BY <1>5, <1>11
<1>13. /\ bid \in DOMAIN e.orders /\ ask \in DOMAIN e.orders /\ bid # ask
       /\ q = t.fill.qty /\ q \in Nat /\ q <= e.orders[bid].qty /\ q <= e.orders[ask].qty
       /\ t.fill.buy = bid /\ t.fill.sell = ask
  <2>1. t.fill.buy = bid /\ t.fill.sell = ask /\ t.fill.qty = q
    BY <1>5
  <2>2. QED
    BY <1>1, <1>6, <2>1 DEF Crosses
<1>14. Naive!Reduce(Naive!Reduce(Entries(e), Entry(e, bid), q), Entry(e, ask), q) = Entries(t.eng)
  BY <1>1, <1>13, ReducedIs
<1>15. QED
  BY <1>10, <1>11, <1>12, <1>14

LEMMA AsManyEntries ==
    ASSUME NEW e, Book(e)
    PROVE  Cardinality(Entries(e)) = Cardinality(DOMAIN e.orders)
<1>1. PICK D, f : D = DOMAIN e.orders /\ f = [x \in D |-> Entry(e, x)]
  OBVIOUS
<1>2. \A x, y \in D : Entry(e, x) = Entry(e, y) => x = y
  BY DEF Entry
<1>3. f \in Bijection(D, Entries(e))
  <2>1. f \in [D -> Entries(e)] /\ \A t \in Entries(e) : \E x \in D : f[x] = t
    BY <1>1 DEF Entries
  <2>2. \A x, y \in D : f[x] = f[y] => x = y
    BY <1>1, <1>2
  <2>3. QED
    BY <2>1, <2>2 DEF Bijection, Injection, Surjection, IsInjective
<1>4. IsFiniteSet(D)
  BY <1>1, FewOrders
<1>5. QED
  BY <1>1, <1>3, <1>4, FS_Bijection DEF ExistsBijection

\* Whom the order id trades with.
Maker(id, fill) == IF fill.buy = id THEN fill.sell ELSE fill.buy

\* The order id took part in every fill, each time with another order, for a
\* fill takes one of the two out of the book.
Made(b, id, m) ==
    /\ \A i \in 1 .. Len(m.fills) :
          /\ id \in {m.fills[i].buy, m.fills[i].sell}
          /\ Maker(id, m.fills[i]) \in DOMAIN b.orders \ {id}
          /\ Maker(id, m.fills[i]) \notin DOMAIN m.eng.orders \/ id \notin DOMAIN m.eng.orders
    /\ \A i, j \in 1 .. Len(m.fills) : i < j => Maker(id, m.fills[i]) # Maker(id, m.fills[j])

LEMMA TurnMakes ==
    ASSUME NEW e, Sound(e), NEW r, Submitted(r), ~CanMatch(e, r.sym), NEW b, b = Entered(e, r),
           NEW m, Going(b, r.sym, m), Made(b, e.next, m), CanMatch(m.eng, r.sym)
    PROVE  Made(b, e.next, Turn(m, r.sym))
<1>1. PICK t : t = Trade(m.eng, r.sym)
  OBVIOUS
<1>2. PICK w, n : w = Turn(m, r.sym) /\ n = Len(m.fills)
  OBVIOUS
<1>3. w = [eng |-> t.eng, fills |-> Append(m.fills, t.fill)]
  BY <1>1, <1>2 DEF Turn
<1>4. Crosses(m.eng, r.sym, t.fill) /\ Traded(m.eng, t.eng, t.fill)
  BY <1>1, Trading DEF Going
<1>5. Going(b, r.sym, w)
  BY <1>2, TurnGoes
<1>6. /\ n \in Nat /\ w.eng = t.eng /\ Len(w.fills) = n + 1 /\ w.fills[n + 1] = t.fill
      /\ \A i \in 1 .. n : w.fills[i] = m.fills[i]
  BY <1>2, <1>3 DEF Going
<1>7. n + 1 \in 1 .. Len(w.fills)
  BY <1>6
<1>8. Happened(b, r.sym, DOMAIN w.eng.orders, t.fill)
  BY <1>5, <1>6, <1>7 DEF Going
<1>9. PICK a : {a, e.next} = {t.fill.buy, t.fill.sell} /\ a # e.next
  <2>1. PICK f, S, fill, rec : /\ f = m.eng /\ S = DOMAIN w.eng.orders /\ fill = t.fill
                               /\ rec = FillRecord(b.live, e.next, r, fill)
    OBVIOUS
  <2>2. /\ f.live = b.live
        /\ \A x \in DOMAIN f.orders : x \in DOMAIN b.orders /\ LevelOf(f.orders[x]) = LevelOf(b.orders[x])
    BY <2>1 DEF Going, Beside
  <2>3. Crosses(f, r.sym, fill) /\ Happened(b, r.sym, S, fill)
    BY <1>4, <1>8, <2>1
  <2>4. /\ Sound(e) /\ Submitted(r) /\ ~CanMatch(e, r.sym) /\ b = Entered(e, r)
        /\ rec = FillRecord(b.live, e.next, r, fill)
    BY <2>1
  <2>5. \E x : /\ {x, e.next} = {fill.buy, fill.sell} /\ x # e.next
               /\ rec = Fill(f.live[x], f.live[e.next], fill.price, fill.qty, r.sym,
                             f.orders[e.next].side)
    BY ONLY <2>2, <2>3, <2>4, TakerArrived
  <2>6. QED
    BY <2>1, <2>5
<1>10. Maker(e.next, t.fill) = a
  BY <1>9 DEF Maker
<1>11. a \in DOMAIN m.eng.orders /\ e.next \in DOMAIN m.eng.orders /\ a \in DOMAIN b.orders
  BY <1>4, <1>9 DEF Crosses, Going
<1>12. a \notin DOMAIN w.eng.orders \/ e.next \notin DOMAIN w.eng.orders
  <2>1. /\ m.eng.orders[t.fill.buy] \in Order /\ m.eng.orders[t.fill.sell] \in Order
    BY <1>4 DEF Crosses, Going, Book, Shaped
  <2>2. /\ t.fill.buy # t.fill.sell /\ t.fill.qty \in Nat
        /\ \/ t.fill.qty = m.eng.orders[t.fill.buy].qty
           \/ t.fill.qty = m.eng.orders[t.fill.sell].qty
    BY <1>4, <1>9 DEF Crosses
  <2>3. Rest(m.eng, t.fill, t.fill.buy) <= 0 \/ Rest(m.eng, t.fill, t.fill.sell) <= 0
    BY <2>1, <2>2 DEF Rest, Order
  <2>4. t.fill.buy \notin DOMAIN w.eng.orders \/ t.fill.sell \notin DOMAIN w.eng.orders
    BY <1>4, <1>6, <2>1, <2>2, <2>3 DEF Traded, Rest, Order
  <2>5. QED
    BY <1>9, <2>4
<1>13. DOMAIN w.eng.orders \subseteq DOMAIN m.eng.orders
  BY <1>4, <1>6 DEF Traded
<1>14. ASSUME NEW i \in 1 .. n PROVE Maker(e.next, m.fills[i]) # a
  BY <1>2, <1>11 DEF Made
<1>15. \A i \in 1 .. Len(w.fills) :
          /\ e.next \in {w.fills[i].buy, w.fills[i].sell}
          /\ Maker(e.next, w.fills[i]) \in DOMAIN b.orders \ {e.next}
          /\ Maker(e.next, w.fills[i]) \notin DOMAIN w.eng.orders \/ e.next \notin DOMAIN w.eng.orders
  <2> SUFFICES ASSUME NEW i \in 1 .. Len(w.fills)
               PROVE  /\ e.next \in {w.fills[i].buy, w.fills[i].sell}
                      /\ Maker(e.next, w.fills[i]) \in DOMAIN b.orders \ {e.next}
                      /\ \/ Maker(e.next, w.fills[i]) \notin DOMAIN w.eng.orders
                         \/ e.next \notin DOMAIN w.eng.orders
    OBVIOUS
  <2>1. CASE i = n + 1
    BY <1>6, <1>9, <1>10, <1>11, <1>12, <2>1
  <2>2. CASE i # n + 1
    <3>1. i \in 1 .. n /\ w.fills[i] = m.fills[i]
      BY <1>6, <2>2
    <3>2. QED
      BY <1>2, <1>13, <3>1 DEF Made
  <2>3. QED
    BY <2>1, <2>2
<1>16. \A i, j \in 1 .. Len(w.fills) : i < j => Maker(e.next, w.fills[i]) # Maker(e.next, w.fills[j])
  <2> SUFFICES ASSUME NEW i \in 1 .. Len(w.fills), NEW j \in 1 .. Len(w.fills), i < j
               PROVE  Maker(e.next, w.fills[i]) # Maker(e.next, w.fills[j])
    OBVIOUS
  <2>1. i \in 1 .. n /\ w.fills[i] = m.fills[i]
    BY <1>6
  <2>2. CASE j = n + 1
    BY <1>6, <1>10, <1>14, <2>1, <2>2
  <2>3. CASE j # n + 1
    <3>1. j \in 1 .. n /\ w.fills[j] = m.fills[j]
      BY <1>6, <2>3
    <3>2. QED
      BY <1>2, <2>1, <3>1 DEF Made
  <2>4. QED
    BY <2>2, <2>3
<1>17. QED
  BY <1>2, <1>15, <1>16 DEF Made

NaiveTurning == INSTANCE FoldFacts WITH Op <- Naive!Turn

NaiveRun(v, n, b, s) ==
    /\ v[0] = b /\ v[n] = NaiveTurning!Folded(b, s)
    /\ \A k \in 0 .. n - 1 : v[k + 1] = Naive!Turn(v[k], s[k + 1])

LEMMA NaiveRuns == \A n \in Nat : \A b, s : DOMAIN s = 1 .. n => \E v : NaiveRun(v, n, b, s)
<1>1. \A n \in Nat : \A b, s : DOMAIN s = 1 .. n =>
         \E v : /\ v[0] = b /\ v[n] = NaiveTurning!Folded(b, s)
                /\ \A k \in 0 .. n - 1 : v[k + 1] = Naive!Turn(v[k], s[k + 1])
  BY NaiveTurning!FoldedRun, Zenon
<1>2. QED
  BY <1>1, Zenon DEF NaiveRun

\* match() of the reference engine is a run of as many turns.
LEMMA NaiveMatchRuns ==
    ASSUME NEW b, Book(b), NEW sym, NEW n, n = Cardinality(DOMAIN b.orders)
    PROVE  \E v : /\ v[0] = [book |-> Entries(b), fills |-> <<>>]
                  /\ v[n] = Naive!MatchBook(Entries(b), sym)
                  /\ \A k \in 0 .. n - 1 : v[k + 1] = Naive!Turn(v[k], sym)
<1>1. n \in Nat /\ n = Cardinality(Entries(b))
  BY FewOrders, AsManyEntries
<1>2. PICK start, s : start = [book |-> Entries(b), fills |-> <<>>] /\ s = [i \in 1 .. n |-> sym]
  OBVIOUS
<1>3. Naive!MatchBook(Entries(b), sym) = Naive!FoldLeft(Naive!Turn, start, s)
  <2>1. \A S : Naive!Cardinality(S) = Cardinality(S)
    BY DEF Naive!Cardinality, Cardinality, Naive!IsFiniteSet, IsFiniteSet
  <2>2. QED
    BY <1>1, <1>2, <2>1 DEF Naive!MatchBook
<1>4. Naive!FoldLeft(Naive!Turn, start, s) = NaiveTurning!Folded(start, s)
  BY SMTT(60) DEF Naive!FoldLeft, Naive!MapThenFoldSet, NaiveTurning!Folded, NaiveTurning!Folds, NaiveTurning!Max, Naive!Max
<1>5. n \in Nat /\ DOMAIN s = 1 .. n /\ \A k \in 0 .. n - 1 : s[k + 1] = sym
  BY <1>1, <1>2
<1>6. \E v : NaiveRun(v, n, start, s)
  BY ONLY <1>5, NaiveRuns
<1>7. PICK v : /\ v[0] = start /\ v[n] = NaiveTurning!Folded(start, s)
               /\ \A k \in 0 .. n - 1 : v[k + 1] = Naive!Turn(v[k], s[k + 1])
  BY <1>6 DEF NaiveRun
<1>8. \A k \in 0 .. n - 1 : v[k + 1] = Naive!Turn(v[k], sym)
  BY <1>5, <1>7
<1>9. v[0] = [book |-> Entries(b), fills |-> <<>>] /\ v[n] = Naive!MatchBook(Entries(b), sym)
  BY <1>2, <1>3, <1>4, <1>7
<1>10. QED
  BY <1>8, <1>9

\* Both loops after as many turns.
Abreast(b, sym, id, m, w) ==
    Going(b, sym, m) /\ Made(b, id, m) /\ w.book = Entries(m.eng) /\ w.fills = m.fills

LEMMA AbreastTurn ==
    ASSUME NEW e, Sound(e), NEW r, Submitted(r), ~CanMatch(e, r.sym), NEW b, b = Entered(e, r),
           NEW m, NEW w, Abreast(b, r.sym, e.next, m, w)
    PROVE  Abreast(b, r.sym, e.next, Turn(m, r.sym), Naive!Turn(w, r.sym))
<1>1. Book(m.eng) /\ Positive(m.eng) /\ w.book = Entries(m.eng) /\ w.fills = m.fills
  BY DEF Abreast, Going
<1>2. Naive!Crossed(w.book, r.sym) <=> CanMatch(m.eng, r.sym)
  BY <1>1, CrossedIs
<1>3. CASE CanMatch(m.eng, r.sym)
  <2>1. PICK t : t = Trade(m.eng, r.sym)
    OBVIOUS
  <2>2. Turn(m, r.sym) = [eng |-> t.eng, fills |-> Append(m.fills, t.fill)]
    BY <1>3, <2>1 DEF Turn
  <2>3. /\ Naive!Turn(w, r.sym).book = Entries(t.eng)
        /\ Naive!Turn(w, r.sym).fills = Append(w.fills, t.fill)
    BY <1>1, <1>3, <2>1, TurnMirrors
  <2>4. Going(b, r.sym, Turn(m, r.sym)) /\ Made(b, e.next, Turn(m, r.sym))
    BY <1>3, TurnGoes, TurnMakes DEF Abreast
  <2>5. QED
    BY <1>1, <2>2, <2>3, <2>4 DEF Abreast
<1>4. CASE ~CanMatch(m.eng, r.sym)
  BY <1>2, <1>4 DEF Turn, Naive!Turn
<1>5. QED
  BY <1>3, <1>4

LEMMA MatchMirrors ==
    ASSUME NEW e, Sound(e), NEW r, Submitted(r), ~CanMatch(e, r.sym), NEW b, b = Entered(e, r)
    PROVE  Abreast(b, r.sym, e.next, Match(b, r.sym), Naive!MatchBook(Entries(b), r.sym))
<1>1. Book(b) /\ Positive(b)
  BY Entering DEF Enters, Sound
<1>2. PICK n \in Nat : n = Cardinality(DOMAIN b.orders)
  BY <1>1, FewOrders
<1>3. PICK v : /\ v[0] = [eng |-> b, fills |-> <<>>] /\ v[n] = Match(b, r.sym)
               /\ \A k \in 0 .. n - 1 : v[k + 1] = Turn(v[k], r.sym)
  BY <1>1, <1>2, MatchRuns
<1>4. PICK u : /\ u[0] = [book |-> Entries(b), fills |-> <<>>]
               /\ u[n] = Naive!MatchBook(Entries(b), r.sym)
               /\ \A k \in 0 .. n - 1 : u[k + 1] = Naive!Turn(u[k], r.sym)
  BY <1>1, <1>2, NaiveMatchRuns
<1> DEFINE P == {k \in 0 .. n : Abreast(b, r.sym, e.next, v[k], u[k])}
<1>5. 0 \in P
  <2>1. Going(b, r.sym, v[0])
    BY <1>1, <1>3, GoingStarts
  <2>2. v[0].eng = b /\ v[0].fills = <<>> /\ u[0].book = Entries(b) /\ u[0].fills = <<>>
    BY <1>3, <1>4
  <2>3. Made(b, e.next, v[0])
    <3>1. 1 .. Len(v[0].fills) = {}
      BY <2>2
    <3>2. QED
      BY <3>1 DEF Made
  <2>4. QED
    BY <2>1, <2>2, <2>3 DEF Abreast
<1>6. ASSUME NEW k \in 0 .. n - 1, k \in P PROVE k + 1 \in P
  <2>1. Abreast(b, r.sym, e.next, Turn(v[k], r.sym), Naive!Turn(u[k], r.sym))
    BY <1>6, AbreastTurn
  <2>2. k + 1 \in 0 .. n /\ v[k + 1] = Turn(v[k], r.sym) /\ u[k + 1] = Naive!Turn(u[k], r.sym)
    BY <1>3, <1>4
  <2>3. QED
    BY <2>1, <2>2
<1>7. 0 .. n \subseteq P
  <2> HIDE DEF P
  <2>1. QED
    BY <1>5, <1>6, NaiveTurning!UpTo
<1>8. QED
  BY <1>3, <1>4, <1>7

\* What is left of an order, read from the set.
LEMMA RemainingIs ==
    ASSUME NEW e, NEW m, m.book = Entries(e), NEW x
    PROVE  Naive!Remaining(m, x) = IF x \in DOMAIN e.orders THEN e.orders[x].qty ELSE 0
<1>1. \A y \in DOMAIN e.orders : Entry(e, y).id = y /\ Entry(e, y).qty = e.orders[y].qty
  BY DEF Entry
<1>2. \A o : o \in m.book <=> \E y \in DOMAIN e.orders : o = Entry(e, y)
  BY DEF Entries
<1>3. CASE x \in DOMAIN e.orders
  <2>1. \A o \in m.book : o.id = x <=> o = Entry(e, x)
    BY <1>1, <1>2, <1>3
  <2>2. Entry(e, x) \in m.book
    BY <1>2, <1>3
  <2>3. (CHOOSE o \in m.book : o.id = x) = Entry(e, x)
    BY <2>1, <2>2
  <2>4. QED
    BY <1>1, <1>3, <2>1, <2>2, <2>3 DEF Naive!Remaining
<1>4. CASE x \notin DOMAIN e.orders
  <2>1. ~\E o \in m.book : o.id = x
    BY <1>1, <1>2, <1>4
  <2>2. QED
    BY <1>4, <2>1 DEF Naive!Remaining
<1>5. QED
  BY <1>3, <1>4

\* Of the live orders of b those of G were forgotten, with their keys.
Lives(b, G, live, index) ==
    /\ G \subseteq DOMAIN b.live /\ DOMAIN live = DOMAIN b.live \ G
    /\ \A x \in DOMAIN live : live[x] = b.live[x]
    /\ \A k : k \in DOMAIN index <=> k \in DOMAIN b.index /\ \A x \in G : KeyOf(b.live[x]) # k
    /\ \A k \in DOMAIN index : index[k] = b.index[k]

LEMMA LivesForget ==
    ASSUME NEW b, NEW G, NEW live, NEW index, Lives(b, G, live, index), NEW x \in DOMAIN live,
           NEW key, key = KeyOf(b.live[x])
    PROVE  Lives(b, G \union {x}, Without(live, x), Without(index, key))
<1>1. PICK l, i : l = Without(live, x) /\ i = Without(index, key)
  OBVIOUS
<1>2. /\ DOMAIN l = DOMAIN live \ {x} /\ \A y \in DOMAIN l : l[y] = live[y]
      /\ DOMAIN i = DOMAIN index \ {key} /\ \A k \in DOMAIN i : i[k] = index[k]
  <2>1. DOMAIN l = DOMAIN live \ {x} /\ \A y \in DOMAIN l : l[y] = live[y]
    BY <1>1 DEF Without, Restrict
  <2>2. DOMAIN i = DOMAIN index \ {key} /\ \A k \in DOMAIN i : i[k] = index[k]
    BY <1>1 DEF Without, Restrict
  <2>3. QED
    BY <2>1, <2>2
<1>3. /\ G \union {x} \subseteq DOMAIN b.live /\ DOMAIN l = DOMAIN b.live \ (G \union {x})
      /\ \A y \in DOMAIN l : l[y] = b.live[y]
  BY <1>2 DEF Lives
<1>4. \A k : k \in DOMAIN i <=> k \in DOMAIN b.index /\ \A y \in G \union {x} : KeyOf(b.live[y]) # k
  BY <1>2 DEF Lives
<1>5. \A k \in DOMAIN i : i[k] = b.index[k]
  BY <1>2 DEF Lives
<1>6. QED
  BY <1>1, <1>3, <1>4, <1>5 DEF Lives

\* What two engines forgot is the same if the same orders are left.
LEMMA LivesAgree ==
    ASSUME NEW b, NEW G, NEW live, NEW index, Lives(b, G, live, index),
           NEW H, NEW alive, NEW entries, Lives(b, H, alive, entries), DOMAIN live = DOMAIN alive
    PROVE  Same(live, alive) /\ Same(index, entries)
<1>1. G = H
  BY DEF Lives
<1>2. DOMAIN index = DOMAIN entries
  BY <1>1 DEF Lives
<1>3. QED
  BY <1>1, <1>2 DEF Lives, Same

\* The deployed engine forgets in the loop over the fills.
Remembers(b, e) ==
    DOMAIN e = Fields /\ e.arrivals = b.arrivals /\ \E G : Lives(b, G, e.live, e.index)

LEMMA ForgetIfFilledRemembers ==
    ASSUME NEW b, NEW e, Remembers(b, e), NEW id, NEW g, g = ForgetIfFilled(e, id)
    PROVE  Remembers(b, g)
<1>1. CASE id \in DOMAIN e.orders \/ id \notin DOMAIN e.live
  BY <1>1 DEF ForgetIfFilled
<1>2. CASE ~(id \in DOMAIN e.orders \/ id \notin DOMAIN e.live)
  <2>1. g = [e EXCEPT !.live = Without(e.live, id), !.index = Without(e.index, KeyOf(e.live[id]))]
    BY <1>2 DEF ForgetIfFilled, Forget
  <2>2. /\ DOMAIN g = Fields /\ g.arrivals = b.arrivals /\ g.live = Without(e.live, id)
        /\ g.index = Without(e.index, KeyOf(e.live[id]))
    BY <2>1 DEF Remembers, Fields
  <2>3. PICK G : Lives(b, G, e.live, e.index)
    BY DEF Remembers
  <2>4. e.live[id] = b.live[id]
    BY <1>2, <2>3 DEF Lives
  <2>5. Lives(b, G \union {id}, g.live, g.index)
    BY <1>2, <2>2, <2>3, <2>4, LivesForget
  <2>6. QED
    BY <2>2, <2>5 DEF Remembers
<1>3. QED
  BY <1>1, <1>2

LEMMA SettleRemembers ==
    ASSUME NEW e, DOMAIN e = Fields, NEW fills \in Seq(BookFill), NEW b,
           b.live = e.live, b.index = e.index, b.arrivals = e.arrivals
    PROVE  Remembers(b, Settle(e, fills))
<1>1. PICK n \in Nat : n = Len(fills) /\ DOMAIN fills = 1 .. n
  OBVIOUS
<1>2. Settle(e, fills) = Settling!Folded(e, fills)
  BY DEF Settle, FoldLeft, MapThenFoldSet, Settling!Folded, Settling!Folds, Settling!Max, Max
<1>3. PICK v : /\ v[0] = e /\ v[n] = Settle(e, fills)
               /\ \A k \in 0 .. n - 1 : v[k + 1] = ForgetSpent(v[k], fills[k + 1])
  <2>1. n \in Nat /\ DOMAIN fills = 1 .. n
    BY <1>1
  <2>2. \E v : SettlingRun(v, n, e, fills)
    BY ONLY <2>1, SettlingRuns
  <2>3. QED
    BY <1>2, <2>2 DEF SettlingRun
<1> DEFINE P == {k \in 0 .. n : Remembers(b, v[k])}
<1>4. 0 \in P
  <2>1. Lives(b, {}, e.live, e.index)
    BY DEF Lives
  <2>2. QED
    BY <1>3, <2>1 DEF Remembers
<1>5. ASSUME NEW k \in 0 .. n - 1, k \in P PROVE k + 1 \in P
  <2>1. PICK f, g : f = ForgetIfFilled(v[k], fills[k + 1].buy) /\ g = ForgetIfFilled(f, fills[k + 1].sell)
    OBVIOUS
  <2>2. Remembers(b, g)
    BY <1>5, <2>1, ForgetIfFilledRemembers
  <2>3. v[k + 1] = g /\ k + 1 \in 0 .. n
    BY <1>3, <2>1 DEF ForgetSpent
  <2>4. QED
    BY <2>2, <2>3
<1>6. 0 .. n \subseteq P
  <2> HIDE DEF P
  <2>1. QED
    BY <1>4, <1>5, Settling!UpTo
<1>7. QED
  BY <1>3, <1>6

LEMMA LeadsOn ==
    ASSUME NEW acc, NEW recs, NEW k \in Nat, NEW a, Leads(acc, recs, k, a), NEW rec, rec = recs[k + 1]
    PROVE  Leads(acc, recs, k + 1, Append(a, rec))
<1>1. PICK U : a \in Seq(U)
  BY DEF Leads
<1>2. PICK V, n : V = U \union {rec} /\ n = k + 1
  OBVIOUS
<1>3. a \in Seq(V) /\ rec \in V /\ Len(a) = n /\ n \in Nat
  <2>1. \A i \in 1 .. Len(a) : a[i] \in V
    BY <1>1, <1>2
  <2>2. Len(a) = n /\ n \in Nat
    BY <1>1, <1>2 DEF Leads
  <2>3. a \in [1 .. Len(a) -> V]
    BY <1>1, <2>1
  <2>4. QED
    BY <1>2, <2>2, <2>3
<1>4. PICK c : c = Append(a, rec)
  OBVIOUS
<1>5. /\ c \in Seq(V) /\ Len(c) = n + 1 /\ DOMAIN c = 1 .. n + 1 /\ c[n + 1] = rec
      /\ \A i \in 1 .. n : c[i] = a[i]
  BY <1>3, <1>4
<1>6. c[1] = acc
  BY <1>2, <1>5 DEF Leads
<1>7. \A i \in 1 .. n : c[1 + i] = recs[i]
  <2>1. ASSUME NEW i \in 1 .. n, i # n PROVE c[1 + i] = recs[i]
    <3>1. i \in 1 .. k /\ 1 + i \in 1 .. n
      BY <1>2, <1>3, <2>1
    <3>2. QED
      BY <1>5, <3>1 DEF Leads
  <2>2. c[1 + n] = recs[n]
    BY <1>2, <1>3, <1>5
  <2>3. QED
    BY <2>1, <2>2
<1>8. QED
  BY <1>2, <1>4, <1>5, <1>6, <1>7 DEF Leads

LEMMA LeadsAgree ==
    ASSUME NEW acc, NEW recs, NEW n \in Nat, NEW a, Leads(acc, recs, n, a), NEW c, Leads(acc, recs, n, c)
    PROVE  a = c
<1>1. PICK U, V : a \in Seq(U) /\ c \in Seq(V)
  BY DEF Leads
<1>2. DOMAIN a = 1 .. n + 1 /\ DOMAIN c = 1 .. n + 1
  BY DEF Leads
<1>3. ASSUME NEW i \in 1 .. n + 1 PROVE a[i] = c[i]
  <2>1. CASE i = 1
    BY <2>1 DEF Leads
  <2>2. CASE i # 1
    <3>1. PICK j \in 1 .. n : i = 1 + j
      BY <2>2
    <3>2. QED
      BY <3>1 DEF Leads
  <2>3. QED
    BY <2>1, <2>2
<1>4. a = [i \in 1 .. n + 1 |-> a[i]] /\ c = [i \in 1 .. n + 1 |-> c[i]]
  BY <1>1, <1>2
<1>5. QED
  BY <1>3, <1>4

NaiveFields == {"next", "book", "arrivals", "live", "index"}

\* The orders that the first k fills left nothing of, the taker aside.
Finished(id, m, k) ==
    {Maker(id, m.fills[i]) : i \in {j \in 1 .. k : Maker(id, m.fills[j]) \notin DOMAIN m.eng.orders}}

FillRecords(b, id, r, m) == [i \in 1 .. Len(m.fills) |-> FillRecord(b.live, id, r, m.fills[i])]

\* The adapter after the first k fills that match() gave it.
Telling(b, id, r, m, told, k) ==
    /\ DOMAIN told = {"m", "taker", "out"} /\ told.taker = b.live[id]
    /\ DOMAIN told.m = NaiveFields /\ told.m.next = b.next /\ told.m.arrivals = b.arrivals
    /\ told.m.book = Entries(m.eng)
    /\ Lives(b, Finished(id, m, k), told.m.live, told.m.index)
    /\ Leads(OrderAccepted(r, id), FillRecords(b, id, r, m), k, told.out)

\* The record of a fill, as the reference engine makes it.
Recorded(b, id, r, f) ==
    LET maker == b.live[Maker(id, f)]
        taker == b.live[id]
    IN  /\ maker.id = Maker(id, f) /\ taker.id = id
        /\ Naive!Fill(maker, taker, f.price, f.qty, maker.sym, taker.side)
              = FillRecord(b.live, id, r, f)

LEMMA FillRecordIs ==
    ASSUME NEW e, Sound(e), NEW r, Submitted(r), NEW b, b = Entered(e, r), NEW id, id = e.next,
           NEW S, NEW f, Happened(b, r.sym, S, f), id \in {f.buy, f.sell}
    PROVE  Recorded(b, id, r, f)
<1>0. PICK maker, taker : maker = b.live[Maker(id, f)] /\ taker = b.live[id]
  OBVIOUS
<1>1. Enters(e, r, b) /\ Sound(b)
  BY Entering DEF Enters
<1>2. Maker(id, f) \in {f.buy, f.sell} /\ f.buy \in DOMAIN b.orders /\ f.sell \in DOMAIN b.orders
  BY DEF Maker, Happened
<1>3. maker.id = Maker(id, f) /\ maker.sym = r.sym
  <2>1. b.orders[Maker(id, f)].sym = r.sym
    BY <1>2 DEF Happened
  <2>2. QED
    BY <1>0, <1>1, <1>2, <2>1 DEF Sound, Owned
<1>4. taker.id = id /\ taker.side = r.side
  BY <1>0, <1>1 DEF Enters
<1>5. CASE f.buy = id
  BY <1>0, <1>3, <1>4, <1>5 DEF Recorded, Maker, FillRecord, Naive!Fill, Fill
<1>6. CASE f.buy # id
  BY <1>0, <1>3, <1>4, <1>6 DEF Recorded, Maker, FillRecord, Naive!Fill, Fill
<1>7. QED
  BY <1>5, <1>6

LEMMA FinishedOneMore ==
    ASSUME NEW id, NEW m, NEW k, NEW n, \A j : j \in 1 .. n <=> j \in 1 .. k \/ j = n,
           NEW x, x = Maker(id, m.fills[n])
    PROVE  Finished(id, m, n) = IF x \in DOMAIN m.eng.orders THEN Finished(id, m, k)
                                    ELSE Finished(id, m, k) \union {x}
<1>1. \A y : y \in Finished(id, m, k) <=>
                \E j \in 1 .. k : y = Maker(id, m.fills[j]) /\ y \notin DOMAIN m.eng.orders
  BY DEF Finished
<1>2. \A y : y \in Finished(id, m, n) <=>
                \E j \in 1 .. n : y = Maker(id, m.fills[j]) /\ y \notin DOMAIN m.eng.orders
  BY DEF Finished
<1>3. \A y : y \in Finished(id, m, n) <=>
                y \in Finished(id, m, k) \/ (y = x /\ x \notin DOMAIN m.eng.orders)
  BY <1>1, <1>2
<1>4. QED
  BY <1>3


LEMMA NaiveForgets ==
    ASSUME NEW m, DOMAIN m = NaiveFields, NEW o, NEW g, g = Naive!Forget(m, o)
    PROVE  /\ DOMAIN g = NaiveFields /\ g.next = m.next /\ g.book = m.book /\ g.arrivals = m.arrivals
           /\ g.live = Without(m.live, o.id) /\ g.index = Without(m.index, KeyOf(o))
<1>1. \A f, x : Naive!Without(f, x) = Without(f, x)
  BY DEF Naive!Without, Without, Naive!Restrict, Restrict
<1>2. g = [m EXCEPT !.live = Without(m.live, o.id), !.index = Without(m.index, KeyOf(o))]
  BY <1>1 DEF Naive!Forget, KeyOf
<1>3. QED
  BY <1>2 DEF NaiveFields

\* One fill more.
LEMMA ToldOneMore ==
    ASSUME NEW e, Sound(e), NEW r, Submitted(r), NEW b, b = Entered(e, r), NEW id, id = e.next,
           NEW m, Going(b, r.sym, m), Made(b, id, m),
           NEW k \in 0 .. Len(m.fills) - 1, NEW told, Telling(b, id, r, m, told, k)
    PROVE  Telling(b, id, r, m, Naive!ContractFill(told, m.fills[k + 1]), k + 1)
<1>1. Enters(e, r, b) /\ Sound(b)
  BY Entering DEF Enters
<1>2. PICK f, x : f = m.fills[k + 1] /\ x = Maker(id, f)
  OBVIOUS
<1>3. /\ Len(m.fills) \in Nat /\ k \in Nat /\ k + 1 \in 1 .. Len(m.fills)
      /\ Happened(b, r.sym, DOMAIN m.eng.orders, f)
      /\ id \in {f.buy, f.sell} /\ x \in DOMAIN b.orders
  BY <1>2 DEF Going, Made
<1>4. PICK maker, taker : maker = b.live[x] /\ taker = b.live[id]
  OBVIOUS
<1>5. PICK rec : rec = Naive!Fill(maker, taker, f.price, f.qty, maker.sym, taker.side)
  OBVIOUS
<1>6. maker.id = x /\ taker.id = id /\ rec = FillRecord(b.live, id, r, f)
  <2>1. PICK S : S = DOMAIN m.eng.orders
    OBVIOUS
  <2>2. /\ Sound(e) /\ Submitted(r) /\ b = Entered(e, r) /\ id = e.next
        /\ Happened(b, r.sym, S, f) /\ id \in {f.buy, f.sell}
    BY <1>2, <1>3, <2>1
  <2>3. Recorded(b, id, r, f)
    BY ONLY <2>2, FillRecordIs
  <2>4. QED
    BY <1>2, <1>4, <1>5, <2>3 DEF Recorded
<1>7. x \in DOMAIN told.m.live
  <2>1. x \in DOMAIN b.live
    BY <1>1, <1>3 DEF Sound
  <2>2. \A i \in 1 .. k : Maker(id, m.fills[i]) # x
    BY <1>2, <1>3 DEF Made
  <2>3. x \notin Finished(id, m, k)
    BY <2>2 DEF Finished
  <2>4. QED
    BY <2>1, <2>3 DEF Telling, Lives
<1>8. told.m.live[x] = maker
  BY <1>4, <1>7 DEF Telling, Lives
<1>9. PICK g : g = IF Naive!Remaining(told.m, x) = 0 THEN Naive!Forget(told.m, maker) ELSE told.m
  OBVIOUS
<1>10. PICK w : w = Naive!ContractFill(told, f)
  OBVIOUS
<1>11. w = [told EXCEPT !.m = g, !.out = Append(@, rec)]
  <2>1. (IF f.buy = told.taker.id THEN f.sell ELSE f.buy) = x
    BY <1>2, <1>4, <1>6 DEF Telling, Maker
  <2>2. told.taker = taker
    BY <1>4 DEF Telling
  <2>3. QED
    BY <1>5, <1>6, <1>8, <1>9, <1>10, <2>1, <2>2, ZenonT(60) DEF Naive!ContractFill
<1>12. DOMAIN w = {"m", "taker", "out"} /\ w.m = g /\ w.taker = taker /\ w.out = Append(told.out, rec)
  BY <1>4, <1>11 DEF Telling
<1>13. Naive!Remaining(told.m, x) = 0 <=> x \notin DOMAIN m.eng.orders
  <2>1. Naive!Remaining(told.m, x) = IF x \in DOMAIN m.eng.orders THEN m.eng.orders[x].qty ELSE 0
    BY RemainingIs DEF Telling
  <2>2. x \in DOMAIN m.eng.orders => m.eng.orders[x].qty # 0
    BY DEF Going, Positive, Book, Shaped, Order
  <2>3. QED
    BY <2>1, <2>2
<1>14. Finished(id, m, k + 1) = IF x \in DOMAIN m.eng.orders THEN Finished(id, m, k)
                                ELSE Finished(id, m, k) \union {x}
  <2>1. PICK n : n = k + 1
    OBVIOUS
  <2>2. x = Maker(id, m.fills[n]) /\ \A j : j \in 1 .. n <=> j \in 1 .. k \/ j = n
    BY <1>2, <1>3, <2>1
  <2>3. Finished(id, m, n) = IF x \in DOMAIN m.eng.orders THEN Finished(id, m, k)
                             ELSE Finished(id, m, k) \union {x}
    BY ONLY <2>2, FinishedOneMore
  <2>4. QED
    BY <2>1, <2>3
<1>15. /\ DOMAIN g = NaiveFields /\ g.next = b.next /\ g.arrivals = b.arrivals
       /\ g.book = Entries(m.eng) /\ Lives(b, Finished(id, m, k + 1), g.live, g.index)
  <2>1. CASE x \in DOMAIN m.eng.orders
    <3>1. g = told.m
      BY <1>9, <1>13, <2>1
    <3>2. QED
      BY <1>14, <2>1, <3>1 DEF Telling
  <2>2. CASE x \notin DOMAIN m.eng.orders
    <3>1. g = Naive!Forget(told.m, maker)
      BY <1>9, <1>13, <2>2
    <3>2. /\ DOMAIN g = NaiveFields /\ g.next = told.m.next /\ g.book = told.m.book
          /\ g.arrivals = told.m.arrivals
          /\ g.live = Without(told.m.live, x) /\ g.index = Without(told.m.index, KeyOf(maker))
      <4>1. PICK a : a = told.m
        OBVIOUS
      <4>2. DOMAIN a = NaiveFields /\ g = Naive!Forget(a, maker)
        BY <3>1, <4>1 DEF Telling
      <4>3. /\ DOMAIN g = NaiveFields /\ g.next = a.next /\ g.book = a.book /\ g.arrivals = a.arrivals
            /\ g.live = Without(a.live, maker.id) /\ g.index = Without(a.index, KeyOf(maker))
        BY ONLY <4>2, NaiveForgets
      <4>4. QED
        BY <1>6, <4>1, <4>3
    <3>3. Lives(b, Finished(id, m, k) \union {x}, g.live, g.index)
      <4>1. PICK G, live, index, key : /\ G = Finished(id, m, k) /\ live = told.m.live
                                       /\ index = told.m.index /\ key = KeyOf(maker)
        OBVIOUS
      <4>2. Lives(b, G, live, index) /\ x \in DOMAIN live /\ key = KeyOf(b.live[x])
        BY <1>4, <1>7, <4>1 DEF Telling
      <4>3. Lives(b, G \union {x}, Without(live, x), Without(index, key))
        BY ONLY <4>2, LivesForget
      <4>4. QED
        BY <3>2, <4>1, <4>3
    <3>4. QED
      BY <1>14, <2>2, <3>2, <3>3 DEF Telling
  <2>3. QED
    BY <2>1, <2>2
<1>16. Leads(OrderAccepted(r, id), FillRecords(b, id, r, m), k + 1, w.out)
  <2>1. FillRecords(b, id, r, m)[k + 1] = rec
    BY <1>2, <1>3, <1>6 DEF FillRecords
  <2>2. QED
    BY <1>3, <1>12, <2>1, LeadsOn DEF Telling
<1>17. QED
  BY <1>2, <1>4, <1>10, <1>12, <1>15, <1>16 DEF Telling

Contracting == INSTANCE FoldFacts WITH Op <- Naive!ContractFill

ContractingRun(v, n, b, s) ==
    /\ v[0] = b /\ v[n] = Contracting!Folded(b, s)
    /\ \A k \in 0 .. n - 1 : v[k + 1] = Naive!ContractFill(v[k], s[k + 1])

LEMMA ContractingRuns ==
    \A n \in Nat : \A b, s : DOMAIN s = 1 .. n => \E v : ContractingRun(v, n, b, s)
<1>1. \A n \in Nat : \A b, s : DOMAIN s = 1 .. n =>
         \E v : /\ v[0] = b /\ v[n] = Contracting!Folded(b, s)
                /\ \A k \in 0 .. n - 1 : v[k + 1] = Naive!ContractFill(v[k], s[k + 1])
  BY Contracting!FoldedRun, Zenon
<1>2. QED
  BY <1>1, Zenon DEF ContractingRun

\* The adapter after all the fills.
LEMMA AllTold ==
    ASSUME NEW e, Sound(e), NEW r, Submitted(r), NEW b, b = Entered(e, r), NEW id, id = e.next,
           NEW m, Going(b, r.sym, m), Made(b, id, m), NEW start, Telling(b, id, r, m, start, 0)
    PROVE  Telling(b, id, r, m, Naive!FoldLeft(Naive!ContractFill, start, m.fills), Len(m.fills))
<1>1. PICK n, s : n = Len(m.fills) /\ s = m.fills
  OBVIOUS
<1>2. n \in Nat /\ DOMAIN s = 1 .. n
  BY <1>1 DEF Going
<1>3. Naive!FoldLeft(Naive!ContractFill, start, s) = Contracting!Folded(start, s)
  BY SMTT(60) DEF Naive!FoldLeft, Naive!MapThenFoldSet, Contracting!Folded, Contracting!Folds, Contracting!Max, Naive!Max
<1>4. \E v : ContractingRun(v, n, start, s)
  BY ONLY <1>2, ContractingRuns
<1>5. PICK v : /\ v[0] = start /\ v[n] = Contracting!Folded(start, s)
               /\ \A k \in 0 .. n - 1 : v[k + 1] = Naive!ContractFill(v[k], s[k + 1])
  BY <1>4 DEF ContractingRun
<1> DEFINE P == {k \in 0 .. n : Telling(b, id, r, m, v[k], k)}
<1>6. 0 \in P
  BY <1>2, <1>5
<1>7. ASSUME NEW k \in 0 .. n - 1, k \in P PROVE k + 1 \in P
  <2>1. Telling(b, id, r, m, Naive!ContractFill(v[k], m.fills[k + 1]), k + 1)
    BY <1>1, <1>7, ToldOneMore
  <2>2. k + 1 \in 0 .. n
    BY <1>2
  <2>3. v[k + 1] = Naive!ContractFill(v[k], m.fills[k + 1])
    BY <1>1, <1>5
  <2>4. QED
    BY <2>1, <2>2, <2>3
<1>8. 0 .. n \subseteq P
  <2> HIDE DEF P
  <2>1. QED
    BY <1>2, <1>6, <1>7, Contracting!UpTo
<1>9. QED
  BY <1>1, <1>2, <1>3, <1>5, <1>8

\* Both engines take the new order in.
NaiveKnown(m, r) ==
    [m EXCEPT !.next = @ + 1,
              !.index = Naive!Put(@, KeyOf(r), m.next),
              !.live = Naive!Put(@, m.next, NewOrder(m, r))]

NaiveEntered(m, r) == Naive!AddOrder(NaiveKnown(m, r), NewOrder(m, r), r.qty)

LEMMA EnteredIs ==
    ASSUME NEW e, DOMAIN e = Fields, NEW r, NEW b, b = Entered(e, r), NEW id, id = e.next
    PROVE  /\ DOMAIN b = Fields /\ b.next = id + 1
           /\ b.live = Put(e.live, id, NewOrder(e, r)) /\ b.index = Put(e.index, KeyOf(r), id)
           /\ b.arrivals = Put(e.arrivals, r.sym, e.arrivals[r.sym] + 1)
           /\ b.orders = Put(e.orders, id, [sym |-> r.sym, side |-> r.side, price |-> r.price,
                                            qty |-> r.qty, arrival |-> e.arrivals[r.sym]])
<1>1. PICK k : k = Known(e, r)
  OBVIOUS
<1>2. /\ DOMAIN k = Fields /\ k.next = id + 1 /\ k.orders = e.orders /\ k.arrivals = e.arrivals
      /\ k.index = Put(e.index, KeyOf(r), id) /\ k.live = Put(e.live, id, NewOrder(e, r))
  BY <1>1 DEF Known, Fields, NewOrder
<1>3. PICK o : o = [id |-> id, sym |-> r.sym, side |-> r.side, price |-> r.price, qty |-> r.qty]
  OBVIOUS
<1>4. b = AddOrder(k, o)
  BY <1>1, <1>3 DEF Entered
<1>5. /\ DOMAIN b = Fields /\ b.next = k.next /\ b.live = k.live /\ b.index = k.index
      /\ b.arrivals = Put(k.arrivals, o.sym, k.arrivals[o.sym] + 1)
      /\ b.orders = Put(k.orders, o.id, [sym |-> o.sym, side |-> o.side, price |-> o.price,
                                         qty |-> o.qty, arrival |-> k.arrivals[o.sym]])
  BY <1>2, <1>4 DEF AddOrder, Fields
<1>6. QED
  BY <1>2, <1>3, <1>5

LEMMA EntriesMore ==
    ASSUME NEW e, NEW b, NEW id, id \notin DOMAIN e.orders, NEW row,
           b.orders = Put(e.orders, id, row)
    PROVE  Entries(b) = Entries(e) \union
              {[id |-> id, sym |-> row.sym, side |-> row.side, price |-> row.price,
                qty |-> row.qty, arrival |-> row.arrival]}
<1>1. /\ DOMAIN b.orders = DOMAIN e.orders \union {id} /\ b.orders[id] = row
      /\ \A x \in DOMAIN e.orders : b.orders[x] = e.orders[x]
  BY DEF Put, Upsert
<1>2. \A x \in DOMAIN e.orders : Entry(b, x) = Entry(e, x)
  BY <1>1 DEF Entry
<1>3. Entry(b, id) = [id |-> id, sym |-> row.sym, side |-> row.side, price |-> row.price,
                      qty |-> row.qty, arrival |-> row.arrival]
  BY <1>1 DEF Entry
<1>4. Entries(b) = {Entry(b, x) : x \in DOMAIN e.orders} \union {Entry(b, id)}
  BY <1>1 DEF Entries
<1>5. {Entry(b, x) : x \in DOMAIN e.orders} = Entries(e)
  BY <1>2 DEF Entries
<1>6. QED
  BY <1>3, <1>4, <1>5

LEMMA MirrorsEntered ==
    ASSUME NEW e, Sound(e), NEW r, Submitted(r), NEW b, b = Entered(e, r),
           NEW m, Mirrors(e, m), NEW d, d = NaiveEntered(m, r)
    PROVE  Mirrors(b, d)
<1>1. PICK id, key, mine, n : /\ id = e.next /\ id = m.next /\ key = KeyOf(r) /\ mine = NewOrder(e, r)
                              /\ n = e.arrivals[r.sym]
  BY DEF Mirrors
<1>2. DOMAIN e = Fields /\ id \notin DOMAIN e.orders /\ e.arrivals \in [Symbols -> Nat] /\ r.sym \in Symbols
  BY <1>1 DEF Sound, Book, Shaped, Submitted
<1>3. PICK row : row = [sym |-> r.sym, side |-> r.side, price |-> r.price, qty |-> r.qty, arrival |-> n]
  OBVIOUS
<1>4. /\ DOMAIN b = Fields /\ b.next = id + 1
      /\ b.live = Put(e.live, id, mine) /\ b.index = Put(e.index, key, id)
      /\ b.arrivals = Put(e.arrivals, r.sym, n + 1) /\ b.orders = Put(e.orders, id, row)
  <2>1. DOMAIN e = Fields /\ b = Entered(e, r) /\ id = e.next
    BY <1>1, <1>2
  <2>2. /\ DOMAIN b = Fields /\ b.next = id + 1
        /\ b.live = Put(e.live, id, NewOrder(e, r)) /\ b.index = Put(e.index, KeyOf(r), id)
        /\ b.arrivals = Put(e.arrivals, r.sym, e.arrivals[r.sym] + 1)
        /\ b.orders = Put(e.orders, id, [sym |-> r.sym, side |-> r.side, price |-> r.price,
                                         qty |-> r.qty, arrival |-> e.arrivals[r.sym]])
    BY ONLY <2>1, EnteredIs
  <2>3. QED
    BY <1>1, <1>3, <2>2
<1>5. \A f, x, v : Naive!Put(f, x, v) = Put(f, x, v)
  BY DEF Naive!Put, Put, Naive!Upsert, Upsert
<1>6. NewOrder(m, r) = mine
  BY <1>1 DEF NewOrder
<1>7. PICK k : k = NaiveKnown(m, r)
  OBVIOUS
<1>8. /\ DOMAIN k = NaiveFields /\ k.next = id + 1 /\ k.book = m.book /\ k.arrivals = m.arrivals
      /\ k.index = Put(m.index, key, id) /\ k.live = Put(m.live, id, mine)
  BY <1>1, <1>5, <1>6, <1>7 DEF NaiveKnown, Mirrors, NaiveFields
<1>9. d = Naive!AddOrder(k, mine, r.qty)
  BY <1>6, <1>7 DEF NaiveEntered
<1>10. /\ mine.id = id /\ mine.sym = r.sym /\ mine.side = r.side /\ mine.price = r.price
  BY <1>1 DEF NewOrder
<1>11. /\ DOMAIN d = NaiveFields /\ d.next = k.next /\ d.live = k.live /\ d.index = k.index
       /\ d.arrivals = [k.arrivals EXCEPT ![r.sym] = @ + 1]
       /\ d.book = k.book \union {[id |-> id, sym |-> r.sym, side |-> r.side, price |-> r.price,
                                   qty |-> r.qty, arrival |-> k.arrivals[r.sym]]}
  BY <1>8, <1>9, <1>10 DEF Naive!AddOrder, NaiveFields
<1>12. d.book = Entries(b)
  <2>1. Entries(b) = Entries(e) \union
           {[id |-> id, sym |-> row.sym, side |-> row.side, price |-> row.price,
             qty |-> row.qty, arrival |-> row.arrival]}
    BY <1>2, <1>4, EntriesMore
  <2>2. m.book = Entries(e) /\ m.arrivals = e.arrivals
    BY DEF Mirrors
  <2>3. QED
    BY <1>1, <1>3, <1>8, <1>11, <2>1, <2>2
<1>13. d.arrivals = b.arrivals
  <2>1. PICK a : a = e.arrivals /\ a = m.arrivals
    BY DEF Mirrors
  <2>2. [a EXCEPT ![r.sym] = @ + 1] = Put(a, r.sym, n + 1)
    <3>1. a[r.sym] = n /\ a \in [Symbols -> Nat] /\ r.sym \in Symbols
      BY <1>1, <1>2, <2>1
    <3>2. QED
      BY <3>1 DEF Put, Upsert
  <2>3. QED
    BY <1>4, <1>8, <1>11, <2>1, <2>2
<1>14. Same(d.live, b.live) /\ Same(d.index, b.index)
  <2>1. Same(m.live, e.live) /\ Same(m.index, e.index)
    BY DEF Mirrors
  <2>2. QED
    BY <1>4, <1>8, <1>11, <2>1, SamePut
<1>15. QED
  BY <1>4, <1>8, <1>11, <1>12, <1>13, <1>14 DEF Mirrors, NaiveFields

\* An order is taken out of both.
LEMMA EntriesFewer ==
    ASSUME NEW e, NEW id, NEW f, f.orders = Without(e.orders, id)
    PROVE  Entries(f) = {o \in Entries(e) : o.id # id}
<1>1. DOMAIN f.orders = DOMAIN e.orders \ {id} /\ \A x \in DOMAIN f.orders : f.orders[x] = e.orders[x]
  BY DEF Without, Restrict
<1>2. \A x \in DOMAIN f.orders : Entry(f, x) = Entry(e, x)
  BY <1>1 DEF Entry
<1>3. \A x : Entry(e, x).id = x
  BY DEF Entry
<1>4. \A o : o \in Entries(f) <=> \E x \in DOMAIN e.orders : x # id /\ o = Entry(e, x)
  BY <1>1, <1>2 DEF Entries
<1>5. \A o : o \in Entries(e) <=> \E x \in DOMAIN e.orders : o = Entry(e, x)
  BY DEF Entries
<1> HIDE DEF Entries, Entry
<1>6. QED
  BY <1>3, <1>4, <1>5

LEMMA MirrorsRemoved ==
    ASSUME NEW e, Sound(e), NEW m, Mirrors(e, m), NEW id, id \in DOMAIN e.orders,
           NEW o, o = e.live[id],
           NEW f, f = Forget(RemoveOrder(e, id), id),
           NEW d, d = Naive!Forget(Naive!RemoveOrder(m, id), o)
    PROVE  Mirrors(f, d)
<1>1. PICK c : c = RemoveOrder(e, id)
  OBVIOUS
<1>2. /\ DOMAIN c = Fields /\ c.next = e.next /\ c.arrivals = e.arrivals
      /\ c.live = e.live /\ c.index = e.index /\ c.orders = Without(e.orders, id)
  BY <1>1, Removing DEF Sound, Beside
<1>3. f = [c EXCEPT !.live = Without(c.live, id), !.index = Without(c.index, KeyOf(c.live[id]))]
  BY <1>1 DEF Forget
<1>4. /\ DOMAIN f = Fields /\ f.next = c.next /\ f.arrivals = c.arrivals /\ f.orders = c.orders
      /\ f.live = Without(c.live, id) /\ f.index = Without(c.index, KeyOf(c.live[id]))
  BY <1>2, <1>3 DEF Fields
<1>5. PICK a : a = Naive!RemoveOrder(m, id)
  OBVIOUS
<1>6. /\ DOMAIN a = NaiveFields /\ a.next = m.next /\ a.arrivals = m.arrivals /\ a.live = m.live
      /\ a.index = m.index /\ a.book = {x \in m.book : x.id # id}
  BY <1>5 DEF Naive!RemoveOrder, Mirrors, NaiveFields
<1>7. /\ DOMAIN d = NaiveFields /\ d.next = a.next /\ d.book = a.book /\ d.arrivals = a.arrivals
      /\ d.live = Without(a.live, o.id) /\ d.index = Without(a.index, KeyOf(o))
  <2>1. DOMAIN a = NaiveFields /\ d = Naive!Forget(a, o)
    BY <1>5, <1>6
  <2>2. QED
    BY ONLY <2>1, NaiveForgets
<1>8. o.id = id
  BY DEF Sound, Owned
<1>9. d.book = Entries(f)
  <2>1. f.orders = Without(e.orders, id)
    BY <1>2, <1>4
  <2>2. Entries(f) = {x \in Entries(e) : x.id # id}
    BY ONLY <2>1, EntriesFewer
  <2>3. QED
    BY <1>6, <1>7, <2>2 DEF Mirrors
<1>10. Same(d.live, f.live) /\ Same(d.index, f.index)
  BY <1>2, <1>4, <1>6, <1>7, <1>8, SameWithout DEF Mirrors
<1>11. QED
  BY <1>2, <1>4, <1>6, <1>7, <1>9, <1>10 DEF Mirrors, NaiveFields

\* What both engines hold after match() and the fills: the order that is left
\* over is forgotten by the reference engine only now.
LEMMA MirrorsMatched ==
    ASSUME NEW e, Sound(e), NEW r, Submitted(r), NEW b, b = Entered(e, r), NEW id, id = e.next,
           NEW m, m = Match(b, r.sym), Made(b, id, m), NEW s, s = Settle(m.eng, m.fills),
           NEW t, Telling(b, id, r, m, t, Len(m.fills)),
           NEW d, d = IF id \in DOMAIN s.orders THEN t.m ELSE Naive!Forget(t.m, b.live[id])
    PROVE  Mirrors(s, d)
<1>1. Enters(e, r, b) /\ Sound(b)
  BY Entering DEF Enters
<1>2. id \in DOMAIN b.orders /\ DOMAIN b.live = DOMAIN b.orders /\ b.live[id].id = id
  BY <1>1 DEF Enters, Sound, Owned
<1>3. Going(b, r.sym, m)
  <2>1. \A x \in DOMAIN b.orders : b.live[x].id = x
    BY <1>1 DEF Sound, Owned
  <2>2. QED
    BY <1>1, <2>1, Matched DEF Sound
<1>4. /\ Sound(s) /\ s.next = b.next /\ s.orders = m.eng.orders
  BY <1>1, Matching
<1>5. Remembers(b, s)
  <2>1. PICK f, fills : f = m.eng /\ fills = m.fills
    OBVIOUS
  <2>2. /\ DOMAIN f = Fields /\ b.live = f.live /\ b.index = f.index /\ b.arrivals = f.arrivals
        /\ fills \in Seq(BookFill) /\ s = Settle(f, fills)
    BY <1>3, <2>1 DEF Going, Beside
  <2>3. Remembers(b, Settle(f, fills))
    BY ONLY <2>2, SettleRemembers
  <2>4. QED
    BY <2>2, <2>3
<1>6. PICK G : Lives(b, G, s.live, s.index) /\ s.arrivals = b.arrivals
  BY <1>5 DEF Remembers
<1>7. PICK n, F, a : n = Len(m.fills) /\ F = Finished(id, m, n) /\ a = t.m
  OBVIOUS
<1>8. /\ DOMAIN a = NaiveFields /\ a.next = b.next /\ a.arrivals = b.arrivals
      /\ a.book = Entries(m.eng) /\ Lives(b, F, a.live, a.index)
  BY <1>7 DEF Telling
<1>9. \A x : x \in F <=> x \in DOMAIN b.orders /\ x # id /\ x \notin DOMAIN m.eng.orders
  <2>1. ASSUME NEW x \in F PROVE x \in DOMAIN b.orders /\ x # id /\ x \notin DOMAIN m.eng.orders
    <3>1. PICK i \in 1 .. n : x = Maker(id, m.fills[i]) /\ x \notin DOMAIN m.eng.orders
      BY <1>7, <2>1 DEF Finished
    <3>2. QED
      BY <1>7, <3>1 DEF Made
  <2>2. ASSUME NEW x \in DOMAIN b.orders, x # id, x \notin DOMAIN m.eng.orders PROVE x \in F
    <3>1. PICK i \in 1 .. n : x \in {m.fills[i].buy, m.fills[i].sell}
      BY <1>3, <1>7, <2>2 DEF Going
    <3>2. id \in {m.fills[i].buy, m.fills[i].sell}
      BY <1>7 DEF Made
    <3>3. x = Maker(id, m.fills[i])
      BY <2>2, <3>1, <3>2 DEF Maker
    <3>4. QED
      BY <1>7, <2>2, <3>3 DEF Finished
  <2>3. QED
    BY <2>1, <2>2
<1>10. DOMAIN s.live = DOMAIN m.eng.orders /\ DOMAIN m.eng.orders \subseteq DOMAIN b.orders
  BY <1>3, <1>4 DEF Sound, Going
<1>11. \A x : x \in DOMAIN a.live <=> x \in DOMAIN m.eng.orders \/ x = id
  BY <1>2, <1>8, <1>9, <1>10 DEF Lives
<1>12. Entries(m.eng) = Entries(s)
  BY <1>4 DEF Entries, Entry
<1>13. CASE id \in DOMAIN s.orders
  <2>1. d = a /\ DOMAIN s.live = DOMAIN a.live
    BY <1>4, <1>7, <1>10, <1>11, <1>13
  <2>2. Same(a.live, s.live) /\ Same(a.index, s.index)
    BY <1>6, <1>8, <2>1, LivesAgree
  <2>3. QED
    BY <1>4, <1>6, <1>8, <1>12, <2>1, <2>2 DEF Mirrors, NaiveFields
<1>14. CASE id \notin DOMAIN s.orders
  <2>1. PICK mine, key, H : mine = b.live[id] /\ key = KeyOf(mine) /\ H = F \union {id}
    OBVIOUS
  <2>2. d = Naive!Forget(a, mine)
    BY <1>7, <1>14, <2>1
  <2>3. /\ DOMAIN d = NaiveFields /\ d.next = a.next /\ d.book = a.book /\ d.arrivals = a.arrivals
        /\ d.live = Without(a.live, mine.id) /\ d.index = Without(a.index, KeyOf(mine))
    <3>1. DOMAIN a = NaiveFields
      BY <1>8
    <3>2. QED
      BY ONLY <2>2, <3>1, NaiveForgets
  <2>4. Lives(b, H, d.live, d.index)
    <3>1. PICK live, index : live = a.live /\ index = a.index
      OBVIOUS
    <3>2. Lives(b, F, live, index) /\ id \in DOMAIN live /\ key = KeyOf(b.live[id])
      BY <1>8, <1>11, <2>1, <3>1
    <3>3. Lives(b, F \union {id}, Without(live, id), Without(index, key))
      BY ONLY <3>2, LivesForget
    <3>4. QED
      BY <1>2, <2>1, <2>3, <3>1, <3>3
  <2>5. DOMAIN s.live = DOMAIN d.live
    <3>1. DOMAIN d.live = DOMAIN b.live \ H
      BY <2>4 DEF Lives
    <3>2. \A x : x \in DOMAIN b.live \ H <=> x \in DOMAIN m.eng.orders
      BY <1>2, <1>4, <1>9, <1>10, <1>14, <2>1
    <3>3. QED
      BY <1>10, <3>1, <3>2
  <2>6. Same(d.live, s.live) /\ Same(d.index, s.index)
    BY <1>6, <2>4, <2>5, LivesAgree
  <2>7. QED
    BY <1>4, <1>6, <1>8, <1>12, <2>3, <2>6 DEF Mirrors, NaiveFields
<1>15. QED
  BY <1>13, <1>14, SMTT(30)

LEMMA NaiveSubmitIs ==
    ASSUME NEW m, NEW r, NEW id, id = m.next, NEW mine, mine = NewOrder(m, r),
           NEW d, d = NaiveEntered(m, r), NEW w, w = Naive!MatchBook(d.book, r.sym),
           NEW start, start = [m |-> [d EXCEPT !.book = w.book], taker |-> mine,
                               out |-> <<OrderAccepted(r, id)>>],
           NEW t, t = Naive!FoldLeft(Naive!ContractFill, start, w.fills),
           NEW left, left = Naive!Remaining(t.m, id), left \in Nat
    PROVE  Naive!Submit(m, r) =
              IF r.tif = "IOC" /\ left # 0
              THEN [eng |-> Naive!Forget(Naive!RemoveOrder(t.m, id), mine),
                    out |-> Append(t.out, OrderCancelled(mine, left, "IOC_EXPIRED"))]
              ELSE [eng |-> IF left = 0 THEN Naive!Forget(t.m, mine) ELSE t.m, out |-> t.out]
<1>1. PICK order : order = [id |-> m.next, user |-> r.user, coid |-> r.coid, sym |-> r.sym,
                            side |-> r.side, price |-> r.price]
  OBVIOUS
<1>2. order = mine /\ order.id = id
  BY <1>1 DEF NewOrder
<1>3. d = Naive!AddOrder([m EXCEPT !.next = @ + 1,
                                   !.index = Naive!Put(@, <<r.user, r.coid>>, order.id),
                                   !.live = Naive!Put(@, order.id, order)], order, r.qty)
  BY <1>2, Zenon DEF NaiveEntered, NaiveKnown, KeyOf
<1>4. Naive!OrderAccepted(r, order.id) = OrderAccepted(r, id)
  BY <1>2 DEF Naive!OrderAccepted, OrderAccepted
<1>5. \A o, q, why : Naive!OrderCancelled(o, q, why) = OrderCancelled(o, q, why)
  BY DEF Naive!OrderCancelled, OrderCancelled
<1>6. t = Naive!FoldLeft(Naive!ContractFill,
                         [m |-> [d EXCEPT !.book = w.book], taker |-> order,
                          out |-> <<Naive!OrderAccepted(r, order.id)>>], w.fills)
  BY <1>2, <1>4, Zenon
<1>7. Naive!Submit(m, r) =
         CASE r.tif = "IOC" /\ left > 0 ->
                [eng |-> Naive!Forget(Naive!RemoveOrder(t.m, order.id), order),
                 out |-> Append(t.out, Naive!OrderCancelled(order, left, "IOC_EXPIRED"))]
           [] left = 0 -> [eng |-> Naive!Forget(t.m, order), out |-> t.out]
           [] OTHER -> [eng |-> t.m, out |-> t.out]
  <2> DEFINE o == [id |-> m.next, user |-> r.user, coid |-> r.coid, sym |-> r.sym,
                   side |-> r.side, price |-> r.price]
             added == Naive!AddOrder([m EXCEPT !.next = @ + 1,
                                               !.index = Naive!Put(@, <<r.user, r.coid>>, o.id),
                                               !.live = Naive!Put(@, o.id, o)], o, r.qty)
             matched == Naive!MatchBook(added.book, r.sym)
             told == Naive!FoldLeft(Naive!ContractFill,
                                    [m |-> [added EXCEPT !.book = matched.book], taker |-> o,
                                     out |-> <<Naive!OrderAccepted(r, o.id)>>], matched.fills)
             rest == Naive!Remaining(told.m, o.id)
  <2>1. Naive!Submit(m, r) =
           CASE r.tif = "IOC" /\ rest > 0 ->
                  [eng |-> Naive!Forget(Naive!RemoveOrder(told.m, o.id), o),
                   out |-> Append(told.out, Naive!OrderCancelled(o, rest, "IOC_EXPIRED"))]
             [] rest = 0 -> [eng |-> Naive!Forget(told.m, o), out |-> told.out]
             [] OTHER -> [eng |-> told.m, out |-> told.out]
    BY Zenon DEF Naive!Submit
  <2>2. o = order
    BY <1>1, Zenon
  <2> HIDE DEF o
  <2>3. added = d
    BY <1>3, <2>2, Zenon
  <2> HIDE DEF added
  <2>4. matched = w
    BY <2>3
  <2> HIDE DEF matched
  <2>5. told = t
    BY <1>6, <2>2, <2>3, <2>4
  <2> HIDE DEF told
  <2>6. rest = left
    BY <1>2, <2>2, <2>5, SMTT(30)
  <2> HIDE DEF rest
  <2>7. QED
    BY <2>1, <2>2, <2>5, <2>6
<1>8. CASE left = 0
  <2>1. ~(left > 0)
    BY ONLY <1>8
  <2>2. QED
    BY <1>2, <1>7, <1>8, <2>1
<1>9. CASE left # 0
  <2>1. left > 0
    BY ONLY left \in Nat, <1>9
  <2>2. QED
    BY <1>2, <1>5, <1>7, <1>9, <2>1, Zenon
<1>10. QED
  BY <1>8, <1>9, Zenon

Copies(a, c) == a.out = c.out /\ Mirrors(a.eng, c.eng)

LEMMA ToldFirst ==
    ASSUME NEW b, NEW id, NEW r, NEW m, NEW d, Mirrors(b, d), NEW a,
           a = [d EXCEPT !.book = Entries(m.eng)], NEW mine, mine = b.live[id],
           NEW start, start = [m |-> a, taker |-> mine, out |-> <<OrderAccepted(r, id)>>]
    PROVE  Telling(b, id, r, m, start, 0)
<1>1. /\ DOMAIN a = NaiveFields /\ a.next = b.next /\ a.arrivals = b.arrivals
      /\ a.book = Entries(m.eng) /\ a.live = d.live /\ a.index = d.index
  BY DEF Mirrors, NaiveFields
<1>2. Finished(id, m, 0) = {}
  BY DEF Finished
<1>3. Lives(b, Finished(id, m, 0), a.live, a.index)
  BY <1>1, <1>2 DEF Mirrors, Same, Lives
<1>4. PICK acc, recs, c : acc = OrderAccepted(r, id) /\ recs = FillRecords(b, id, r, m) /\ c = <<acc>>
  OBVIOUS
<1>5. c \in Seq({acc}) /\ DOMAIN c = 1 .. 1 /\ c[1] = acc
  BY <1>4
<1>6. Leads(acc, recs, 0, c)
  <2>1. 1 .. 0 + 1 = 1 .. 1 /\ 1 .. 0 = {}
    OBVIOUS
  <2>2. QED
    BY <1>5, <2>1 DEF Leads
<1>7. DOMAIN start = {"m", "taker", "out"} /\ start.m = a /\ start.taker = mine /\ start.out = c
  BY <1>4
<1>8. QED
  BY <1>1, <1>3, <1>4, <1>6, <1>7 DEF Telling

LEMMA MirrorsSubmitted ==
    ASSUME NEW e, Engine(e), NEW m, Mirrors(e, m), NEW r, Submitted(r)
    PROVE  Copies(Submit(e, r), Naive!Submit(m, r))
<1>1. PICK b, id, d, mine : /\ b = Entered(e, r) /\ id = e.next /\ id = m.next
                            /\ d = NaiveEntered(m, r) /\ mine = NewOrder(e, r) /\ mine = NewOrder(m, r)
  BY DEF Mirrors, NewOrder
<1>2. Sound(e) /\ ~CanMatch(e, r.sym)
  BY DEF Engine, Sound, Submitted
<1>3. Enters(e, r, b) /\ Sound(b) /\ b.live[id] = mine /\ b.live = Known(e, r).live
  <2>1. Enters(e, r, b)
    BY <1>1, <1>2, Entering
  <2>2. QED
    BY <1>1, <2>1 DEF Enters, NewOrder
<1>4. Mirrors(b, d)
  BY <1>1, <1>2, MirrorsEntered
<1>5. PICK k, w : k = Match(b, r.sym) /\ w = Naive!MatchBook(d.book, r.sym)
  OBVIOUS
<1>6. Going(b, r.sym, k) /\ Made(b, id, k) /\ w.book = Entries(k.eng) /\ w.fills = k.fills
  <2>1. Abreast(b, r.sym, e.next, Match(b, r.sym), Naive!MatchBook(Entries(b), r.sym))
    BY <1>1, <1>2, MatchMirrors
  <2>2. d.book = Entries(b)
    BY <1>4 DEF Mirrors
  <2>3. QED
    BY <1>1, <1>5, <2>1, <2>2 DEF Abreast
<1>7. PICK a, start : /\ a = [d EXCEPT !.book = w.book]
                      /\ start = [m |-> a, taker |-> mine, out |-> <<OrderAccepted(r, id)>>]
  OBVIOUS
<1>8. PICK t, n : t = Naive!FoldLeft(Naive!ContractFill, start, w.fills) /\ n = Len(k.fills)
  OBVIOUS
<1>9. Telling(b, id, r, k, t, n)
  <2>1. a = [d EXCEPT !.book = Entries(k.eng)] /\ mine = b.live[id]
    BY <1>3, <1>6, <1>7
  <2>2. Telling(b, id, r, k, start, 0)
    BY ONLY <1>4, <1>7, <2>1, ToldFirst
  <2>3. Sound(e) /\ Submitted(r) /\ b = Entered(e, r) /\ id = e.next
    BY <1>1, <1>2
  <2>4. Telling(b, id, r, k, Naive!FoldLeft(Naive!ContractFill, start, k.fills), Len(k.fills))
    BY ONLY <1>6, <2>2, <2>3, AllTold
  <2>5. QED
    BY <1>6, <1>8, <2>4
<1>10. PICK s, left : s = Settle(k.eng, k.fills) /\ left = Naive!Remaining(t.m, id)
  OBVIOUS
<1>11. Sound(s) /\ s.orders = k.eng.orders
  BY <1>3, <1>5, <1>10, Matching
<1>12. left = IF id \in DOMAIN s.orders THEN s.orders[id].qty ELSE 0
  BY <1>9, <1>10, <1>11, RemainingIs DEF Telling
<1>13. left \in Nat /\ (left = 0 <=> id \notin DOMAIN s.orders)
  BY <1>11, <1>12 DEF Sound, Positive, Book, Shaped, Order
<1>14. PICK u : u = IF left = 0 THEN Naive!Forget(t.m, mine) ELSE t.m
  OBVIOUS
<1>15. Mirrors(s, u)
  <2>1. u = IF id \in DOMAIN s.orders THEN t.m ELSE Naive!Forget(t.m, b.live[id])
    BY <1>3, <1>13, <1>14
  <2>2. Sound(e) /\ Submitted(r) /\ b = Entered(e, r) /\ id = e.next
    BY <1>1, <1>2
  <2>3. k = Match(b, r.sym) /\ Made(b, id, k) /\ s = Settle(k.eng, k.fills)
        /\ Telling(b, id, r, k, t, Len(k.fills))
    BY <1>5, <1>6, <1>8, <1>9, <1>10
  <2>4. QED
    BY ONLY <2>1, <2>2, <2>3, MirrorsMatched
<1>16. Naive!Submit(m, r) =
          IF r.tif = "IOC" /\ left # 0
          THEN [eng |-> Naive!Forget(Naive!RemoveOrder(t.m, id), mine),
                out |-> Append(t.out, OrderCancelled(mine, left, "IOC_EXPIRED"))]
          ELSE [eng |-> u, out |-> t.out]
  <2>1. /\ id = m.next /\ mine = NewOrder(m, r) /\ d = NaiveEntered(m, r)
        /\ w = Naive!MatchBook(d.book, r.sym)
        /\ start = [m |-> [d EXCEPT !.book = w.book], taker |-> mine,
                    out |-> <<OrderAccepted(r, id)>>]
        /\ t = Naive!FoldLeft(Naive!ContractFill, start, w.fills)
        /\ left = Naive!Remaining(t.m, id) /\ left \in Nat
    BY <1>1, <1>5, <1>7, <1>8, <1>10, <1>13
  <2>2. Naive!Submit(m, r) =
              IF r.tif = "IOC" /\ left # 0
              THEN [eng |-> Naive!Forget(Naive!RemoveOrder(t.m, id), mine),
                    out |-> Append(t.out, OrderCancelled(mine, left, "IOC_EXPIRED"))]
              ELSE [eng |-> IF left = 0 THEN Naive!Forget(t.m, mine) ELSE t.m, out |-> t.out]
    BY ONLY <2>1, NaiveSubmitIs, SMTT(30)
  <2>3. QED
    BY <1>14, <2>2
<1>17. PICK recs, answer : /\ recs = FillRecords(b, id, r, k)
                           /\ answer = <<OrderAccepted(r, id)>> \o recs
  OBVIOUS
<1>18. Submit(e, r) =
          IF r.tif = "IOC" /\ id \in DOMAIN s.orders
          THEN [eng |-> Forget(RemoveOrder(s, id), id),
                out |-> Append(answer, OrderCancelled(mine, s.orders[id].qty, "IOC_EXPIRED"))]
          ELSE [eng |-> s, out |-> answer]
  <2>1. k = Match(Entered(e, r), r.sym) /\ s = Settle(k.eng, k.fills)
    BY <1>1, <1>5, <1>10
  <2>2. recs = [i \in DOMAIN k.fills |-> FillRecord(Known(e, r).live, e.next, r, k.fills[i])]
    <3>1. DOMAIN k.fills = 1 .. Len(k.fills)
      BY <1>6 DEF Going
    <3>2. QED
      BY <1>1, <1>3, <1>17, <3>1 DEF FillRecords
  <2>3. Submit(e, r) =
          IF r.tif = "IOC" /\ e.next \in DOMAIN s.orders
          THEN [eng |-> Forget(RemoveOrder(s, e.next), e.next),
                out |-> Append(<<OrderAccepted(r, e.next)>> \o recs,
                               OrderCancelled(NewOrder(e, r), s.orders[e.next].qty,
                                              "IOC_EXPIRED"))]
          ELSE [eng |-> s, out |-> <<OrderAccepted(r, e.next)>> \o recs]
    BY ONLY <2>1, <2>2, SubmitIs, ZenonT(60)
  <2>4. QED
    BY <1>1, <1>17, <2>3
<1>19. t.out = answer
  <2>1. n \in Nat
    BY <1>6, <1>8 DEF Going
  <2>2. PICK acc : acc = OrderAccepted(r, id)
    OBVIOUS
  <2>3. Row(recs, n)
    BY <1>8, <1>17, <2>1 DEF Row, FillRecords
  <2>4. Leads(acc, recs, n, answer)
    <3>1. Leads(acc, recs, n, <<acc>> \o recs)
      BY ONLY <2>3, OneThenMore
    <3>2. QED
      BY <1>17, <2>2, <3>1
  <2>5. Leads(acc, recs, n, t.out)
    BY <1>9, <1>17, <2>2 DEF Telling
  <2>6. QED
    BY ONLY <2>1, <2>4, <2>5, LeadsAgree
<1>20. CASE r.tif = "IOC" /\ left # 0
  <2>1. id \in DOMAIN s.orders /\ left = s.orders[id].qty /\ u = t.m
    BY <1>12, <1>13, <1>14, <1>20
  <2>2. s.live[id] = mine
    <3>1. Remembers(b, s)
      <4>1. PICK f, fills : f = k.eng /\ fills = k.fills
        OBVIOUS
      <4>2. /\ DOMAIN f = Fields /\ b.live = f.live /\ b.index = f.index /\ b.arrivals = f.arrivals
            /\ fills \in Seq(BookFill) /\ s = Settle(f, fills)
        BY <1>6, <1>10, <4>1 DEF Going, Beside
      <4>3. Remembers(b, Settle(f, fills))
        BY ONLY <4>2, SettleRemembers
      <4>4. QED
        BY <4>2, <4>3
    <3>2. id \in DOMAIN s.live
      BY <1>11, <2>1 DEF Sound
    <3>3. QED
      BY <1>3, <3>1, <3>2 DEF Remembers, Lives
  <2>3. Mirrors(Forget(RemoveOrder(s, id), id), Naive!Forget(Naive!RemoveOrder(t.m, id), mine))
    <3>1. Sound(s) /\ Mirrors(s, t.m) /\ id \in DOMAIN s.orders /\ mine = s.live[id]
      BY <1>11, <1>15, <2>1, <2>2
    <3>2. QED
      BY ONLY <3>1, MirrorsRemoved
  <2>4. QED
    BY <1>16, <1>18, <1>19, <1>20, <2>1, <2>3 DEF Copies
<1>21. CASE ~(r.tif = "IOC" /\ left # 0)
  BY <1>13, <1>15, <1>16, <1>18, <1>19, <1>21 DEF Copies
<1>22. QED
  BY <1>20, <1>21

\* Where the two orders of the bounds checks name different fields.
LEMMA Refusals ==
    ASSUME NEW r \in Inputs, r.kind = "SubmitOrder", ~WellFormed(r)
    PROVE  Agree(<<OrderRejected(r, Refusal(r))>>, <<OrderRejected(r, Naive!Refusal(r))>>)
<1>1. r.price \in Int /\ r.qty \in Int
  BY InputsAreRecords
<1>2. Naive!Sides = Sides /\ Naive!Tifs = Tifs
  BY DEF Naive!Sides, Sides, Naive!Tifs, Tifs
<1>3. CASE BadTwice(r)
  <2>1. Refusal(r) \in {"INVALID_PRICE", "INVALID_QUANTITY"}
    BY <1>1, <1>3 DEF BadTwice, Refusal
  <2>2. Naive!Refusal(r) \in {"INVALID_SIDE", "INVALID_TIF"}
    BY <1>2, <1>3 DEF BadTwice, Naive!Refusal
  <2>3. QED
    BY <1>3, <2>1, <2>2 DEF Agree
<1>4. CASE ~BadTwice(r)
  <2>1. CASE r.price <= 0 \/ r.qty <= 0
    <3>1. r.side \in Sides /\ r.tif \in Tifs
      BY <1>4, <2>1 DEF BadTwice
    <3>2. Refusal(r) = Naive!Refusal(r)
      BY <1>1, <1>2, <2>1, <3>1 DEF Refusal, Naive!Refusal
    <3>3. QED
      BY <3>2 DEF Agree
  <2>2. CASE r.price > 0 /\ r.qty > 0
    <3>1. r.side \notin Sides \/ r.tif \notin Tifs
      BY <2>2 DEF WellFormed
    <3>2. Refusal(r) = Naive!Refusal(r)
      BY <1>1, <1>2, <2>2, <3>1 DEF Refusal, Naive!Refusal
    <3>3. QED
      BY <3>2 DEF Agree
  <2>3. QED
    BY <1>1, <2>1, <2>2
<1>5. QED
  BY <1>3, <1>4

\* Whatever the record.
LEMMA MirrorsApplied ==
    ASSUME NEW e, Engine(e), NEW m, Mirrors(e, m), NEW r \in Inputs
    PROVE  /\ Agree(Apply(e, r).out, Naive!Apply(m, r).out)
           /\ Mirrors(Apply(e, r).eng, Naive!Apply(m, r).eng)
<1>1. /\ r.kind \in {"SubmitOrder", "CancelOrder"} \union Sequenced
      /\ r.kind = "SubmitOrder" => /\ r.sym \in Symbols
                                   /\ r.price \in Int /\ r.qty \in Int
                                   /\ r.price > 0 => r.price \in Prices
  BY InputsAreRecords
<1>2. Naive!Sequenced = Sequenced
  BY DEF Naive!Sequenced, Sequenced
<1>3. \A reason : Naive!OrderRejected(r, reason) = OrderRejected(r, reason)
  BY DEF Naive!OrderRejected, OrderRejected
<1> SUFFICES ASSUME ~(r.kind = "SubmitOrder" /\ ~WellFormed(r))
             PROVE  Copies(Apply(e, r), Naive!Apply(m, r))
  <2>1. Copies(Apply(e, r), Naive!Apply(m, r)) =>
           /\ Agree(Apply(e, r).out, Naive!Apply(m, r).out)
           /\ Mirrors(Apply(e, r).eng, Naive!Apply(m, r).eng)
    BY DEF Copies, Agree
  <2>2. CASE r.kind = "SubmitOrder" /\ ~WellFormed(r)
    <3>1. ~Naive!WellFormed(r)
      BY <2>2 DEF WellFormed, Naive!WellFormed, Sides, Naive!Sides, Tifs, Naive!Tifs
    <3>2. Apply(e, r) = Reject(e, r, Refusal(r))
      BY <2>2 DEF Apply, Sequenced
    <3>3. Naive!Apply(m, r) = Naive!Reject(m, r, Naive!Refusal(r))
      BY <1>2, <2>2, <3>1 DEF Naive!Apply, Sequenced
    <3>4. /\ Apply(e, r) = [eng |-> e, out |-> <<OrderRejected(r, Refusal(r))>>]
          /\ Naive!Apply(m, r) = [eng |-> m, out |-> <<OrderRejected(r, Naive!Refusal(r))>>]
      BY <1>3, <3>2, <3>3 DEF Reject, Naive!Reject
    <3>5. Agree(<<OrderRejected(r, Refusal(r))>>, <<OrderRejected(r, Naive!Refusal(r))>>)
      BY <2>2, Refusals
    <3>6. QED
      BY <3>4, <3>5
  <2>3. QED
    BY <2>1, <2>2
<1>4. CASE r.kind = "SubmitOrder"
  <2>1. WellFormed(r) /\ Naive!WellFormed(r)
    BY <1>4 DEF WellFormed, Naive!WellFormed, Sides, Naive!Sides, Tifs, Naive!Tifs
  <2>2. Apply(e, r) = Submit(e, r) /\ Naive!Apply(m, r) = Naive!Submit(m, r)
    BY <1>2, <1>4, <2>1 DEF Apply, Naive!Apply, Sequenced
  <2>3. Submitted(r)
    BY <1>1, <1>4, <2>1 DEF Submitted, WellFormed
  <2>4. QED
    BY <2>2, <2>3, MirrorsSubmitted
<1>5. CASE r.kind = "CancelOrder"
  <2>1. Apply(e, r) = Cancel(e, r) /\ Naive!Apply(m, r) = Naive!Cancel(m, r)
    BY <1>2, <1>5 DEF Apply, Naive!Apply, Sequenced
  <2>2. PICK target : target = <<r.user, r.target>>
    OBVIOUS
  <2>3. target \in DOMAIN e.index <=> target \in DOMAIN m.index
    BY DEF Mirrors, Same
  <2>4. CASE target \notin DOMAIN e.index
    <3>1. /\ Apply(e, r) = Reject(e, r, "UNKNOWN_ORDER")
          /\ Naive!Apply(m, r) = Naive!Reject(m, r, "UNKNOWN_ORDER")
      BY <2>1, <2>2, <2>3, <2>4 DEF Cancel, Naive!Cancel
    <3>2. QED
      BY <1>3, <3>1 DEF Reject, Naive!Reject, Copies
  <2>5. CASE target \in DOMAIN e.index
    <3>1. PICK id : id = e.index[target] /\ id = m.index[target]
      BY <2>3, <2>5 DEF Mirrors, Same
    <3>2. Sound(e) /\ id \in DOMAIN e.live /\ id \in DOMAIN e.orders
      BY <2>5, <3>1 DEF Engine, Sound, Indexed
    <3>3. PICK o : o = e.live[id] /\ o = m.live[id]
      BY <3>2 DEF Mirrors, Same
    <3>4. Naive!Remaining(m, id) = e.orders[id].qty
      BY <3>2, RemainingIs DEF Mirrors
    <3>5. Mirrors(Forget(RemoveOrder(e, id), id), Naive!Forget(Naive!RemoveOrder(m, id), o))
      BY <3>2, <3>3, MirrorsRemoved
    <3>6. \A q, why : Naive!OrderCancelled(o, q, why) = OrderCancelled(o, q, why)
      BY DEF Naive!OrderCancelled, OrderCancelled
    <3>7. Cancel(e, r) = [eng |-> Forget(RemoveOrder(e, id), id),
                          out |-> <<OrderCancelled(o, e.orders[id].qty, "USER_REQUESTED")>>]
      BY <2>2, <2>5, <3>1, <3>3 DEF Cancel
    <3>8. Naive!Cancel(m, r) = [eng |-> Naive!Forget(Naive!RemoveOrder(m, id), o),
                                out |-> <<OrderCancelled(o, e.orders[id].qty, "USER_REQUESTED")>>]
      BY <2>2, <2>3, <2>5, <3>1, <3>3, <3>4, <3>6 DEF Naive!Cancel
    <3>9. QED
      BY <2>1, <3>5, <3>7, <3>8 DEF Copies
  <2>6. QED
    BY <2>4, <2>5
<1>6. CASE r.kind \in Sequenced
  <2>1. Apply(e, r) = [eng |-> e, out |-> <<Forwarded(r)>>]
    BY <1>6 DEF Apply, Sequenced
  <2>2. Naive!Apply(m, r) = [eng |-> m, out |-> <<Naive!Forwarded(r)>>]
    BY <1>2, <1>6 DEF Naive!Apply, Sequenced
  <2>3. Naive!Forwarded(r) = Forwarded(r)
    <3>1. /\ Naive!AccountCreated(r) = AccountCreated(r) /\ Naive!CashCredited(r) = CashCredited(r)
          /\ Naive!ReplayConfigured(r) = ReplayConfigured(r)
      BY DEF Naive!AccountCreated, AccountCreated, Naive!CashCredited, CashCredited, Naive!ReplayConfigured, ReplayConfigured
    <3>2. QED
      BY <1>6, <3>1 DEF Naive!Forwarded, Forwarded, Sequenced
  <2>4. QED
    BY <2>1, <2>2, <2>3 DEF Copies
<1>7. QED
  BY <1>1, <1>4, <1>5, <1>6

\* The reference engine gives the same snapshot.
LEMMA MirrorsSnapshot ==
    ASSUME NEW e, Engine(e), NEW m, Mirrors(e, m)
    PROVE  Snapshot(e) = Naive!Snapshot(m)
<1>1. PICK S, n, a : S = DOMAIN e.live /\ n = Cardinality(S) /\ a = Ascending(S)
  OBVIOUS
<1>2. S = DOMAIN m.live /\ m.next = e.next
  BY <1>1 DEF Mirrors, Same
<1>3. n = Naive!Cardinality(S) /\ a = Naive!Ascending(S)
  <2>1. \A T : Naive!Cardinality(T) = Cardinality(T)
    BY DEF Naive!Cardinality, Cardinality, Naive!IsFiniteSet, IsFiniteSet
  <2>2. \A q : Naive!Range(q) = Range(q)
    BY DEF Naive!Range, Range
  <2>3. QED
    BY <1>1, <2>1, <2>2 DEF Naive!Ascending, Ascending
<1> DEFINE Mine(id) == LET order == m.live[id]
                           key == <<order.user, order.coid>>
                       IN  [order   |-> order,
                            qty     |-> Naive!Remaining(m, id),
                            indexed |-> key \in DOMAIN m.index /\ m.index[key] = id]
<1>4. \A x \in S : RowOf(e, x) = Mine(x)
  <2> SUFFICES ASSUME NEW x \in S PROVE RowOf(e, x) = Mine(x)
    OBVIOUS
  <2>1. e.live[x] = m.live[x]
    BY <1>1 DEF Mirrors, Same
  <2>2. Naive!Remaining(m, x) = e.orders[x].qty
    <3>1. x \in DOMAIN e.orders
      BY <1>1 DEF Engine
    <3>2. QED
      BY <3>1, RemainingIs DEF Mirrors
  <2>3. PICK key : key = KeyOf(m.live[x]) /\ key = KeyOf(e.live[x])
    BY <2>1
  <2>4. IndexReaches(e, x) = (key \in DOMAIN m.index /\ m.index[key] = x)
    BY <2>3 DEF Mirrors, Same, IndexReaches
  <2>5. QED
    BY <2>1, <2>2, <2>3, <2>4 DEF RowOf, KeyOf
<1>5. \A i \in 1 .. n : a[i] \in S
  <2>1. e.next \in Nat /\ S \in SUBSET Nat /\ \A x \in S : x < e.next
    BY <1>1 DEF Engine, Book, Shaped
  <2>2. Lists(a, S)
    BY <1>1, <2>1, AscendingLists
  <2>3. QED
    BY <1>1, <2>2 DEF Lists
<1>6. Naive!Snapshot(m) = [next |-> m.next, orders |-> [i \in 1 .. n |-> Mine(a[i])]]
  BY <1>2, <1>3 DEF Naive!Snapshot
<1>7. Snapshot(e) = [next |-> e.next, orders |-> [i \in 1 .. n |-> RowOf(e, a[i])]]
  BY <1>1 DEF Snapshot, RowOf
<1> HIDE DEF Mine
<1>8. [i \in 1 .. n |-> RowOf(e, a[i])] = [i \in 1 .. n |-> Mine(a[i])]
  BY <1>4, <1>5
<1>9. QED
  BY <1>2, <1>6, <1>7, <1>8

ModelInv == Mirrors(eng, model) /\ Agree(out, modelOut)

\* The C++ engine and the reference engine give the same answers, and the same
\* snapshots, whatever the records (README.md; tests/matcher/test_snapshot.py,
\* claim 2), but for the reason that refuses a submission out of bounds twice: the
\* front of the best queue is the order that goes before all others, and the
\* orders that a loop forgets are those of which nothing is left, whether it
\* looks at both orders of a fill or at the maker alone.
THEOREM EnginesStayInStep == Spec => []EnginesAgree
<1>1. Init => ModelInv
  <2> SUFFICES ASSUME Init PROVE ModelInv
    OBVIOUS
  <2>1. eng = New /\ model = Naive!New /\ Agree(out, modelOut)
    BY DEF Init, Agree
  <2>2. Entries(New) = {}
    <3>1. New.orders = <<>>
      BY DEF New
    <3>2. DOMAIN New.orders = {}
      BY <3>1
    <3>3. QED
      BY <3>2 DEF Entries
  <2>3. Mirrors(New, Naive!New)
    BY <2>2 DEF Mirrors, New, Naive!New, Same
  <2>4. QED
    BY <2>1, <2>3 DEF ModelInv
<1>2. EInv /\ ModelInv /\ [Next]_vars => ModelInv'
  <2> SUFFICES ASSUME EInv, ModelInv, [Next]_vars PROVE ModelInv'
    OBVIOUS
  <2>1. Engine(eng) /\ Mirrors(eng, model) /\ Agree(out, modelOut)
    BY DEF EInv, ModelInv
  <2>2. ASSUME NEW r \in Inputs, Feed(r) PROVE ModelInv'
    <3>1. PICK a, c : /\ a = Apply(eng, r) /\ c = Naive!Apply(model, r)
                      /\ eng' = a.eng /\ out' = a.out /\ model' = c.eng /\ modelOut' = c.out
      BY <2>2 DEF Feed
    <3>2. Agree(a.out, c.out) /\ Mirrors(a.eng, c.eng)
      BY <2>1, <3>1, MirrorsApplied
    <3>3. Agree(out', modelOut') /\ Mirrors(eng', model')
      BY <3>1, <3>2
    <3>4. QED
      BY <3>3 DEF ModelInv, Agree, Mirrors
  <2>3. CASE Restart
    BY <2>1, <2>3 DEF Restart, ModelInv
  <2>4. CASE UNCHANGED vars
    BY <2>1, <2>4 DEF ModelInv, vars
  <2>5. QED
    BY <2>2, <2>3, <2>4 DEF Next
<1>3. EInv /\ ModelInv => EnginesAgree
  BY MirrorsSnapshot DEF EInv, ModelInv, EnginesAgree
<1>4. QED
  BY <1>1, <1>2, <1>3, EngineInvariant, PTL DEF Spec
=============================================================================
