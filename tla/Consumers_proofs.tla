--------------------------- MODULE Consumers_proofs ---------------------------
(***************************************************************************)
(* Three results about the matcher, the ledger and the archiver, for every *)
(* history, batch size, list of readers and number of faults and deaths.   *)
(*                                                                         *)
(* The matcher never trims what the ledger would need to restart, although *)
(* it asks the readers one by one while they go on saving: a mark never    *)
(* goes back, so that the oldest mark seen is behind the ledger's present  *)
(* one however old the answer is (IInv).  The archiver's bookmark comes    *)
(* out of a fold over the records, which keeps every open unit at a        *)
(* position of the stream (ArchiveInv).                                    *)
(*                                                                         *)
(* Every copy of the ledger is a replay of the stream: the process of what *)
(* it has read, its checkpoint of what it had read then, and PostgreSQL of *)
(* something in between, because what a flush leaves out no later event    *)
(* has touched (CopiesInv).  What a replay gives is balanced, so that      *)
(* every copy is.                                                          *)
(***************************************************************************)
EXTENDS Consumers, SequenceTheorems, FiniteSetTheorems, TLAPS

-----------------------------------------------------------------------------
(***************************************************************************)
(* The ledger on its own, for every record: apply() keeps the books        *)
(* balanced, and the dirty sets it leaves name all that it changed, so     *)
(* that the incremental flush writes the same tables as a full one.        *)
(***************************************************************************)
Posting == INSTANCE FoldFacts WITH Op <- Post
Marking == INSTANCE FoldFacts WITH Op <- MarkDirty
Replaying == INSTANCE FoldFacts WITH Op <- NextReplay

IsMap(f) == f = [x \in DOMAIN f |-> f[x]]
Amounts(f) == f \in [DOMAIN f -> Int] /\ IsFiniteSet(DOMAIN f)

Sum(f, S) == Posting!SumOver(f, S)

LEMMA Finite == ASSUME NEW S PROVE Posting!IsFiniteSet(S) <=> IsFiniteSet(S)
  BY DEF Posting!IsFiniteSet, IsFiniteSet

LEMMA SumSteps ==
    ASSUME NEW S, IsFiniteSet(S), NEW f, \A x \in S : f[x] \in Int
    PROVE  /\ Sum(f, S) \in Int
           /\ S = {} => Sum(f, S) = 0
           /\ \A x \in S : Sum(f, S) = f[x] + Sum(f, S \ {x})
<1>1. Posting!IsFiniteSet(S)
  BY Finite
<1>2. QED
  BY <1>1, Posting!SumSteps DEF Sum

LEMMA SumOfSame ==
    ASSUME NEW S, IsFiniteSet(S), NEW f, \A x \in S : f[x] \in Int,
           NEW T \in SUBSET S, NEW g, \A x \in T : g[x] = f[x], \A x \in S \ T : f[x] = 0
    PROVE  Sum(g, T) = Sum(f, S)
<1>1. Posting!IsFiniteSet(S)
  BY Finite
<1>2. QED
  BY <1>1, Posting!SumOfSame DEF Sum

-----------------------------------------------------------------------------
LEMMA TotalIsSum ==
    ASSUME NEW f
    PROVE  Total(f) = Sum(f, DOMAIN f)
  BY DEF Total, MapThenSumSet, MapThenFoldSet, Sum, Posting!SumOver, Posting!Sums

LEMMA TotalIsInt ==
    ASSUME NEW f, Amounts(f)
    PROVE  Total(f) \in Int /\ (DOMAIN f = {} => Total(f) = 0)
  BY TotalIsSum, SumSteps DEF Amounts

\* Two maps are the same but for the entries of S.
SameBut(f, g, S) ==
    \A x : x \notin S => /\ x \in DOMAIN f <=> x \in DOMAIN g
                         /\ x \in DOMAIN f => f[x] = g[x]

LEMMA PutAmounts ==
    ASSUME NEW f, Amounts(f), NEW x, NEW v, v \in Int, NEW g, g = Put(f, x, v)
    PROVE  Amounts(g)
<1>1. IsFiniteSet(DOMAIN f \union {x})
  BY FS_AddElement DEF Amounts
<1>2. DOMAIN g = DOMAIN f \union {x} /\ g \in [DOMAIN f \union {x} -> Int]
  BY DEF Amounts, Put, Upsert
<1>3. QED
  BY <1>1, <1>2 DEF Amounts

\* Where two maps differ in one entry, so do their totals.
LEMMA TotalsDiffer ==
    ASSUME NEW f, Amounts(f), NEW g, Amounts(g), NEW x, DOMAIN g = DOMAIN f \union {x},
           \A y \in DOMAIN f : y # x => g[y] = f[y]
    PROVE  Total(g) - g[x] = Total(f) - Held(f, x)
<1> DEFINE D == DOMAIN f \ {x}
<1>1. /\ IsFiniteSet(DOMAIN f) /\ \A y \in DOMAIN f : f[y] \in Int
      /\ IsFiniteSet(DOMAIN g) /\ \A y \in DOMAIN g : g[y] \in Int
  BY DEF Amounts
<1>2. Total(g) = g[x] + Sum(g, D)
  <2>1. DOMAIN g \ {x} = D /\ x \in DOMAIN g
    OBVIOUS
  <2>2. Sum(g, DOMAIN g) = g[x] + Sum(g, DOMAIN g \ {x})
    BY <1>1, <2>1, SumSteps
  <2>3. QED
    BY <2>1, <2>2, TotalIsSum
<1>3. Sum(g, D) = Sum(f, D) /\ Sum(f, D) \in Int
  <2>1. (\A y \in D : f[y] \in Int /\ g[y] = f[y]) /\ D \in SUBSET D /\ D \ D = {} /\ IsFiniteSet(D)
    BY <1>1, FS_Subset
  <2> HIDE DEF D
  <2>2. QED
    BY <2>1, SumOfSame, SumSteps
<1>4. Total(f) = Held(f, x) + Sum(f, D)
  <2>1. CASE x \in DOMAIN f
    <3>1. Sum(f, DOMAIN f) = f[x] + Sum(f, DOMAIN f \ {x})
      BY <1>1, <2>1, SumSteps
    <3>2. QED
      BY <2>1, <3>1, TotalIsSum DEF Held
  <2>2. CASE x \notin DOMAIN f
    <3>1. D = DOMAIN f
      BY <2>2
    <3>2. QED
      BY <1>3, <2>2, <3>1, TotalIsSum DEF Held
  <2>3. QED
    BY <2>1, <2>2
<1>5. Held(f, x) \in Int /\ g[x] \in Int
  BY <1>1 DEF Held
<1> HIDE DEF D
<1>6. QED
  BY <1>2, <1>3, <1>4, <1>5

\* g is f with n added at x, and so n more in total.
Adds(f, g, x, n) ==
    /\ Amounts(g) /\ DOMAIN g = DOMAIN f \union {x} /\ SameBut(f, g, {x})
    /\ Total(g) = Total(f) + n

LEMMA ChangeAdds ==
    ASSUME NEW f, Amounts(f), NEW x, NEW n \in Int, NEW g, g = Change(f, x, n)
    PROVE  Adds(f, g, x, n)
<1>1. Held(f, x) \in Int /\ Held(f, x) + n \in Int /\ Total(f) \in Int
  BY TotalIsInt DEF Held, Amounts
<1>2. PICK v : v = Held(f, x) + n
  OBVIOUS
<1>3. g = Put(f, x, v)
  BY <1>2 DEF Change
<1>4. /\ Amounts(g) /\ DOMAIN g = DOMAIN f \union {x}
      /\ g[x] = v /\ \A y \in DOMAIN f : y # x => g[y] = f[y]
  <2>1. v \in Int
    BY <1>1, <1>2
  <2>2. Amounts(g)
    BY <1>3, <2>1, PutAmounts
  <2>3. /\ DOMAIN g = DOMAIN f \union {x}
        /\ g[x] = v /\ \A y \in DOMAIN f : y # x => g[y] = f[y]
    BY <1>3 DEF Put, Upsert
  <2>4. QED
    BY <2>2, <2>3
<1>5. Total(g) - g[x] = Total(f) - Held(f, x) /\ Total(g) \in Int
  BY <1>4, TotalsDiffer, TotalIsInt
<1>6. QED
  BY <1>1, <1>2, <1>4, <1>5 DEF SameBut, Adds

\* The positions that are not zero have the same total.
LEMMA TotalOfNonZero ==
    ASSUME NEW f, Amounts(f)
    PROVE  Total(NonZero(f)) = Total(f)
<1> DEFINE T == {x \in DOMAIN f : f[x] # 0}
           g == NonZero(f)
<1>1. DOMAIN g = T /\ \A x \in T : g[x] = f[x]
  BY DEF NonZero, Restrict
<1>2. IsFiniteSet(DOMAIN f) /\ \A x \in DOMAIN f : f[x] \in Int
  BY DEF Amounts
<1>3. T \in SUBSET (DOMAIN f) /\ \A x \in DOMAIN f \ T : f[x] = 0
  OBVIOUS
<1> HIDE DEF g, T
<1>4. Sum(g, T) = Sum(f, DOMAIN f)
  BY <1>1, <1>2, <1>3, SumOfSame
<1>5. QED
  BY <1>1, <1>4, TotalIsSum DEF g

-----------------------------------------------------------------------------
(***************************************************************************)
(* What one record does.  rows holds the row of every order as it was      *)
(* accepted, of which the remaining quantity alone ever changes.           *)
(***************************************************************************)
Fits(orders, rows) ==
    /\ IsMap(orders)
    /\ \A id \in DOMAIN orders :
          /\ "remaining" \in DOMAIN rows[id]
          /\ orders[id] = [rows[id] EXCEPT !.remaining = orders[id].remaining]

Readable(e, rows) ==
    /\ e.kind = "CashCredited" => e.amount \in Int
    /\ e.kind = "Fill" => e.price \in Int /\ e.qty \in Int
    /\ e.kind = "OrderAccepted" => rows[e.id] = Row(e)

Fields == {"cash", "positions", "orders", "fees", "deposits"}

Sound(l, rows) ==
    /\ DOMAIN l = Fields
    /\ Amounts(l.cash) /\ Amounts(l.positions)
    /\ l.fees \in Int /\ l.deposits \in Int
    /\ Fits(l.orders, rows)
    /\ Balanced(l)

\* The dirty sets name what changed from one ledger to another.
Covers(old, l, d) ==
    /\ DOMAIN old.cash \subseteq DOMAIN l.cash /\ d.accounts \subseteq DOMAIN l.cash
    /\ SameBut(old.cash, l.cash, d.accounts)
    /\ SameBut(old.positions, l.positions, d.positions)
    /\ SameBut(old.orders, l.orders, d.orders)

LEMMA ShrinkEffect ==
    ASSUME NEW rows, NEW orders, Fits(orders, rows), NEW id, NEW n, NEW g, g = Shrink(orders, id, n)
    PROVE  Fits(g, rows) /\ SameBut(orders, g, {id})
<1>1. CASE id \notin DOMAIN orders
  BY <1>1 DEF Shrink, SameBut
<1>2. CASE id \in DOMAIN orders /\ orders[id].remaining <= n
  <2>1. g = [x \in DOMAIN orders \ {id} |-> orders[x]]
    BY <1>2 DEF Shrink, Drop, Restrict
  <2>2. QED
    BY <2>1 DEF Fits, IsMap, SameBut
<1>3. CASE id \in DOMAIN orders /\ ~(orders[id].remaining <= n)
  <2>1. g = [orders EXCEPT ![id].remaining = @ - n]
    BY <1>3 DEF Shrink
  <2>2. PICK v : v = orders[id].remaining - n
    OBVIOUS
  <2>3. /\ DOMAIN g = DOMAIN orders /\ IsMap(g)
        /\ g[id] = [orders[id] EXCEPT !.remaining = v]
        /\ \A x \in DOMAIN orders : x # id => g[x] = orders[x]
    BY <1>3, <2>1, <2>2 DEF IsMap
  <2>4. g[id] = [rows[id] EXCEPT !.remaining = g[id].remaining]
    <3>1. "remaining" \in DOMAIN rows[id] /\ orders[id] = [rows[id] EXCEPT !.remaining = orders[id].remaining]
      BY <1>3 DEF Fits
    <3>2. g[id].remaining = v
      BY <2>3, <3>1
    <3>3. g[id] = [rows[id] EXCEPT !.remaining = v]
      BY <2>3, <3>1
    <3>4. QED
      BY <3>2, <3>3
  <2>5. QED
    BY <2>3, <2>4 DEF Fits, SameBut
<1>4. QED
  BY <1>1, <1>2, <1>3

LEMMA SameButBoth ==
    ASSUME NEW f, NEW g, NEW h, NEW S, NEW T, SameBut(f, g, S), SameBut(g, h, T)
    PROVE  SameBut(f, h, S \union T)
  BY DEF SameBut

\* What apply() does with a record.
Applied(l, m, e, rows) ==
    /\ Sound(m, rows)
    /\ m.deposits = l.deposits + Granted(e)
    /\ Covers(l, m, MarkDirty(Clean, e))
    /\ DOMAIN m.cash = DOMAIN l.cash \union MarkDirty(Clean, e).accounts

LEMMA AppliedAccount ==
    ASSUME InitialCash \in Int, NEW rows, NEW l, Sound(l, rows), NEW e, e.kind = "AccountCreated",
           e.user \notin DOMAIN l.cash, NEW m, m = Post(l, e)
    PROVE  Applied(l, m, e, rows)
<1>1. /\ m = [l EXCEPT !.cash = Put(@, e.user, InitialCash), !.deposits = @ + InitialCash]
      /\ Granted(e) = InitialCash
      /\ MarkDirty(Clean, e) = [accounts |-> {e.user}, positions |-> {}, orders |-> {}]
  BY DEF Post, Granted, MarkDirty, Clean
<1>2. /\ DOMAIN m = Fields
      /\ m.cash = Put(l.cash, e.user, InitialCash) /\ m.deposits = l.deposits + InitialCash
      /\ m.positions = l.positions /\ m.orders = l.orders /\ m.fees = l.fees
  BY <1>1 DEF Sound, Fields
<1>3. /\ DOMAIN m.cash = DOMAIN l.cash \union {e.user} /\ m.cash[e.user] = InitialCash
      /\ \A y \in DOMAIN l.cash : y # e.user => m.cash[y] = l.cash[y]
  BY <1>2 DEF Put, Upsert
<1>4. Amounts(m.cash)
  BY <1>2, PutAmounts DEF Sound
<1>5. Total(m.cash) - InitialCash = Total(l.cash) - 0
  <2>1. Held(l.cash, e.user) = 0
    BY DEF Held
  <2>2. Total(m.cash) - m.cash[e.user] = Total(l.cash) - Held(l.cash, e.user)
    BY <1>3, <1>4, TotalsDiffer DEF Sound
  <2>3. QED
    BY <1>3, <2>1, <2>2
<1>6. Total(m.cash) \in Int /\ Total(l.cash) \in Int
  BY <1>4, TotalIsInt DEF Sound
<1>7. Balanced(m)
  BY <1>2, <1>5, <1>6 DEF Sound, Balanced
<1>8. Covers(l, m, MarkDirty(Clean, e))
  BY <1>1, <1>2, <1>3 DEF Covers, SameBut
<1>9. QED
  BY <1>1, <1>2, <1>3, <1>4, <1>7, <1>8 DEF Applied, Sound

LEMMA AppliedCredit ==
    ASSUME NEW rows, NEW l, Sound(l, rows), NEW e, e.kind = "CashCredited", e.amount \in Int,
           NEW m, m = Post(l, e)
    PROVE  Applied(l, m, e, rows)
<1>1. /\ m = [l EXCEPT !.cash = Change(@, e.user, e.amount), !.deposits = @ + e.amount]
      /\ Granted(e) = e.amount
      /\ MarkDirty(Clean, e) = [accounts |-> {e.user}, positions |-> {}, orders |-> {}]
  BY DEF Post, Granted, MarkDirty, Clean
<1>2. /\ DOMAIN m = Fields
      /\ m.cash = Change(l.cash, e.user, e.amount) /\ m.deposits = l.deposits + e.amount
      /\ m.positions = l.positions /\ m.orders = l.orders /\ m.fees = l.fees
  BY <1>1 DEF Sound, Fields
<1>3. /\ Amounts(m.cash) /\ DOMAIN m.cash = DOMAIN l.cash \union {e.user}
      /\ SameBut(l.cash, m.cash, {e.user})
      /\ Total(m.cash) = Total(l.cash) + e.amount
  <2>1. Amounts(l.cash) /\ m.cash = Change(l.cash, e.user, e.amount)
    BY <1>2 DEF Sound
  <2>2. Adds(l.cash, m.cash, e.user, e.amount)
    BY <2>1, ChangeAdds
  <2>3. QED
    BY <2>2 DEF Adds
<1>4. Total(l.cash) \in Int
  BY TotalIsInt DEF Sound
<1>5. Balanced(m)
  BY <1>2, <1>3, <1>4 DEF Sound, Balanced
<1>6. Covers(l, m, MarkDirty(Clean, e))
  BY <1>1, <1>2, <1>3 DEF Covers, SameBut
<1>7. QED
  BY <1>1, <1>2, <1>3, <1>5, <1>6 DEF Applied, Sound

LEMMA AppliedOrder ==
    ASSUME NEW rows, NEW l, Sound(l, rows), NEW e, Readable(e, rows),
           e.kind \in {"OrderAccepted", "OrderCancelled"}, NEW m, m = Post(l, e)
    PROVE  Applied(l, m, e, rows)
<1>1. /\ m = [l EXCEPT !.orders = m.orders]
      /\ m.orders = IF e.kind = "OrderAccepted" THEN Put(l.orders, e.id, Row(e))
                    ELSE Shrink(l.orders, e.id, e.remaining)
  BY DEF Post, Sound, Fields
<1>2. /\ DOMAIN m = Fields /\ m.cash = l.cash /\ m.positions = l.positions
      /\ m.fees = l.fees /\ m.deposits = l.deposits
  BY <1>1 DEF Sound, Fields
<1>3. Fits(m.orders, rows) /\ SameBut(l.orders, m.orders, {e.id})
  <2>1. CASE e.kind = "OrderAccepted"
    <3>1. m.orders = Put(l.orders, e.id, Row(e)) /\ rows[e.id] = Row(e)
      BY <1>1, <2>1 DEF Readable
    <3>2. /\ DOMAIN m.orders = DOMAIN l.orders \union {e.id} /\ m.orders[e.id] = Row(e) /\ IsMap(m.orders)
          /\ \A x \in DOMAIN l.orders : x # e.id => m.orders[x] = l.orders[x]
      BY <3>1 DEF Put, Upsert, IsMap
    <3>3. "remaining" \in DOMAIN Row(e) /\ Row(e) = [Row(e) EXCEPT !.remaining = Row(e).remaining]
      BY DEF Row
    <3>4. Fits(m.orders, rows)
      BY <3>1, <3>2, <3>3 DEF Fits, Sound
    <3>5. QED
      BY <3>2, <3>4 DEF SameBut
  <2>2. CASE e.kind = "OrderCancelled"
    BY <1>1, <2>2, ShrinkEffect DEF Sound
  <2>3. QED
    BY <2>1, <2>2
<1>4. MarkDirty(Clean, e) = [accounts |-> {}, positions |-> {}, orders |-> {e.id}] /\ Granted(e) = 0
  BY DEF MarkDirty, Clean, Granted
<1>5. Covers(l, m, MarkDirty(Clean, e))
  BY <1>2, <1>3, <1>4 DEF Covers, SameBut
<1>6. QED
  BY <1>2, <1>3, <1>4, <1>5 DEF Applied, Sound, Balanced

LEMMA FeesAreIntegers ==
    ASSUME NEW n \in Int
    PROVE  MakerFee(n) \in Int /\ TakerFee(n) \in Int
  BY DEF MakerFee, TakerFee

LEMMA AppliedFill ==
    ASSUME NEW rows, NEW l, Sound(l, rows), NEW e, e.kind = "Fill", e.price \in Int, e.qty \in Int,
           NEW m, m = Post(l, e)
    PROVE  Applied(l, m, e, rows)
<1> DEFINE b == Buyer(e)
           s == Seller(e)
<1>1. PICK notional \in Int : notional = e.price * e.qty
  OBVIOUS
<1>2. PICK buyFee, sellFee \in Int :
         /\ buyFee = IF e.aggressor = "BUY" THEN TakerFee(notional) ELSE MakerFee(notional)
         /\ sellFee = IF e.aggressor = "BUY" THEN MakerFee(notional) ELSE TakerFee(notional)
  BY FeesAreIntegers
<1>3. PICK paid, got, lost \in Int : paid = -(notional + buyFee) /\ got = notional - sellFee /\ lost = -e.qty
  OBVIOUS
<1>4. PICK cash, positions, orders :
         /\ cash = Change(l.cash, b, paid) /\ positions = Change(l.positions, <<b, e.sym>>, e.qty)
         /\ orders = Shrink(l.orders, e.maker, e.qty)
  OBVIOUS
<1>5. m = [l EXCEPT !.fees = @ + MakerFee(notional) + TakerFee(notional),
                    !.cash = Change(cash, s, got),
                    !.positions = Change(positions, <<s, e.sym>>, lost),
                    !.orders = Shrink(orders, e.taker, e.qty)]
  <2>1. m = Settle(l, e)
    BY DEF Post
  <2>2. QED
    BY <1>1, <1>2, <1>3, <1>4, <2>1 DEF Settle
<1>6. /\ DOMAIN m = Fields /\ m.deposits = l.deposits
      /\ m.fees = l.fees + MakerFee(notional) + TakerFee(notional)
      /\ m.cash = Change(cash, s, got) /\ m.positions = Change(positions, <<s, e.sym>>, lost)
      /\ m.orders = Shrink(orders, e.taker, e.qty)
  BY <1>5 DEF Sound, Fields
<1>7. /\ Granted(e) = 0
      /\ MarkDirty(Clean, e) = [accounts |-> {b, s}, positions |-> {<<b, e.sym>>, <<s, e.sym>>},
                                orders |-> {e.maker, e.taker}]
  BY DEF Granted, MarkDirty, Clean
<1> HIDE DEF b, s
<1>8. Adds(l.cash, cash, b, paid) /\ Adds(cash, m.cash, s, got)
  <2>1. Amounts(l.cash)
    BY DEF Sound
  <2>2. Adds(l.cash, cash, b, paid)
    BY <1>4, <2>1, ChangeAdds
  <2>3. Amounts(cash) /\ m.cash = Change(cash, s, got)
    BY <1>6, <2>2 DEF Adds
  <2>4. QED
    BY <2>2, <2>3, ChangeAdds
<1>9. Adds(l.positions, positions, <<b, e.sym>>, e.qty) /\ Adds(positions, m.positions, <<s, e.sym>>, lost)
  <2>1. Amounts(l.positions)
    BY DEF Sound
  <2>2. Adds(l.positions, positions, <<b, e.sym>>, e.qty)
    BY <1>4, <2>1, ChangeAdds
  <2>3. Amounts(positions) /\ m.positions = Change(positions, <<s, e.sym>>, lost)
    BY <1>6, <2>2 DEF Adds
  <2>4. QED
    BY <2>2, <2>3, ChangeAdds
<1>10. Fits(m.orders, rows) /\ SameBut(l.orders, orders, {e.maker}) /\ SameBut(orders, m.orders, {e.taker})
  <2>1. Fits(orders, rows) /\ SameBut(l.orders, orders, {e.maker})
    BY <1>4, ShrinkEffect DEF Sound
  <2>2. QED
    BY <1>6, <2>1, ShrinkEffect
<1>11. Balanced(m) /\ m.fees \in Int
  <2>1. /\ Total(m.cash) = Total(cash) + got /\ Total(cash) = Total(l.cash) + paid
        /\ Total(m.positions) = Total(positions) + lost /\ Total(positions) = Total(l.positions) + e.qty
    BY <1>8, <1>9 DEF Adds
  <2>2. Total(l.cash) \in Int /\ l.fees \in Int /\ Balanced(l)
    BY TotalIsInt DEF Sound
  <2>3. MakerFee(notional) \in Int /\ TakerFee(notional) \in Int
    BY FeesAreIntegers
  <2>4. MakerFee(notional) + TakerFee(notional) = buyFee + sellFee
    BY <1>2, <2>3
  <2>5. m.fees = l.fees + (buyFee + sellFee) /\ m.fees \in Int
    BY <1>6, <2>2, <2>3, <2>4
  <2>6. Total(m.cash) = Total(l.cash) + paid + got /\ Total(l.cash) + l.fees = l.deposits
    BY <2>1, <2>2 DEF Balanced
  <2>7. Total(m.cash) + m.fees = l.deposits
    BY <1>3, <2>2, <2>5, <2>6
  <2>8. Total(m.positions) = 0
    BY <1>3, <2>1, <2>2 DEF Balanced
  <2>9. QED
    BY <1>6, <2>5, <2>7, <2>8 DEF Balanced
<1>12. /\ SameBut(l.cash, m.cash, {b} \union {s})
       /\ SameBut(l.positions, m.positions, {<<b, e.sym>>} \union {<<s, e.sym>>})
       /\ SameBut(l.orders, m.orders, {e.maker} \union {e.taker})
  <2>1. SameBut(l.cash, cash, {b}) /\ SameBut(cash, m.cash, {s})
    BY <1>8 DEF Adds
  <2>2. SameBut(l.positions, positions, {<<b, e.sym>>}) /\ SameBut(positions, m.positions, {<<s, e.sym>>})
    BY <1>9 DEF Adds
  <2>3. QED
    BY <1>10, <2>1, <2>2, SameButBoth
<1>13. DOMAIN m.cash = DOMAIN l.cash \union {b, s}
  BY <1>8 DEF Adds
<1>14. Covers(l, m, MarkDirty(Clean, e))
  <2>1. {b} \union {s} = {b, s} /\ {<<b, e.sym>>} \union {<<s, e.sym>>} = {<<b, e.sym>>, <<s, e.sym>>}
        /\ {e.maker} \union {e.taker} = {e.maker, e.taker}
    OBVIOUS
  <2>2. QED
    BY <1>7, <1>12, <1>13, <2>1 DEF Covers
<1>15. Sound(m, rows)
  BY <1>6, <1>8, <1>9, <1>10, <1>11 DEF Sound, Adds
<1>16. m.deposits = l.deposits + Granted(e)
  BY <1>6, <1>7 DEF Sound
<1>17. QED
  BY <1>7, <1>13, <1>14, <1>15, <1>16 DEF Applied

\* Whatever the record, the books stay balanced and what changed is marked.
LEMMA PostApplies ==
    ASSUME InitialCash \in Int, NEW rows, NEW l, Sound(l, rows), NEW e, Readable(e, rows),
           e.kind = "AccountCreated" => e.user \notin DOMAIN l.cash, NEW m, m = Post(l, e)
    PROVE  Applied(l, m, e, rows)
<1>1. CASE e.kind = "AccountCreated"
  BY <1>1, AppliedAccount
<1>2. CASE e.kind = "CashCredited"
  BY <1>2, AppliedCredit DEF Readable
<1>3. CASE e.kind \in {"OrderAccepted", "OrderCancelled"}
  BY <1>3, AppliedOrder
<1>4. CASE e.kind = "Fill"
  BY <1>4, AppliedFill DEF Readable
<1>5. CASE e.kind \notin {"AccountCreated", "CashCredited", "OrderAccepted", "OrderCancelled", "Fill"}
  <2>1. m = l /\ Granted(e) = 0 /\ MarkDirty(Clean, e) = [accounts |-> {}, positions |-> {}, orders |-> {}]
    BY <1>5 DEF Post, Granted, MarkDirty, Clean
  <2>2. l.deposits = l.deposits + 0
    BY DEF Sound
  <2>3. QED
    BY <2>1, <2>2 DEF Applied, Covers, SameBut
<1>6. QED
  BY <1>1, <1>2, <1>3, <1>4, <1>5

LEMMA MarksAdd ==
    ASSUME NEW d, DOMAIN d = {"accounts", "positions", "orders"}, NEW e, NEW c, c = MarkDirty(d, e),
           NEW t, t = MarkDirty(Clean, e)
    PROVE  /\ DOMAIN c = {"accounts", "positions", "orders"}
           /\ c.accounts = d.accounts \union t.accounts
           /\ c.positions = d.positions \union t.positions
           /\ c.orders = d.orders \union t.orders
<1>1. CASE e.kind \in {"AccountCreated", "CashCredited"}
  BY <1>1 DEF MarkDirty, Clean
<1>2. CASE e.kind \in {"OrderAccepted", "OrderCancelled"}
  BY <1>2 DEF MarkDirty, Clean
<1>3. CASE e.kind = "Fill"
  BY <1>3 DEF MarkDirty, Clean
<1>4. CASE e.kind \notin {"AccountCreated", "CashCredited", "OrderAccepted", "OrderCancelled", "Fill"}
  BY <1>4 DEF MarkDirty, Clean
<1>5. QED
  BY <1>1, <1>2, <1>3, <1>4

LEMMA CoversMore ==
    ASSUME NEW old, NEW l, NEW m, NEW rows, NEW e, Applied(l, m, e, rows),
           NEW d, DOMAIN d = {"accounts", "positions", "orders"}, Covers(old, l, d)
    PROVE  Covers(old, m, MarkDirty(d, e)) /\ DOMAIN MarkDirty(d, e) = {"accounts", "positions", "orders"}
<1>1. PICK c, t : c = MarkDirty(d, e) /\ t = MarkDirty(Clean, e)
  OBVIOUS
<1>2. /\ DOMAIN c = {"accounts", "positions", "orders"}
      /\ c.accounts = d.accounts \union t.accounts
      /\ c.positions = d.positions \union t.positions
      /\ c.orders = d.orders \union t.orders
  BY <1>1, MarksAdd
<1>3. Covers(l, m, t)
  BY <1>1 DEF Applied
<1>4. /\ SameBut(old.cash, m.cash, c.accounts)
      /\ SameBut(old.positions, m.positions, c.positions)
      /\ SameBut(old.orders, m.orders, c.orders)
  BY <1>2, <1>3, SameButBoth DEF Covers
<1>5. DOMAIN old.cash \subseteq DOMAIN m.cash /\ c.accounts \subseteq DOMAIN m.cash
  BY <1>2, <1>3 DEF Covers
<1>6. QED
  BY <1>1, <1>2, <1>4, <1>5 DEF Covers

-----------------------------------------------------------------------------
\* The full flush upserts the accounts, and none is too many.
LEMMA FlushAllProjects ==
    ASSUME NEW rows, NEW old, NEW l, Sound(l, rows), DOMAIN old.cash \subseteq DOMAIN l.cash
    PROVE  FlushAll(Projection(old), l) = Projection(l)
<1>1. Upsert(old.cash, l.cash) = l.cash
  BY DEF Upsert, Sound, Amounts
<1>2. QED
  BY <1>1 DEF FlushAll, Projection

\* The incremental flush writes what the dirty sets cover.
LEMMA FlushDirtyProjects ==
    ASSUME NEW rows, NEW old, Sound(old, rows), NEW l, Sound(l, rows), NEW d, Covers(old, l, d)
    PROVE  FlushDirty(Projection(old), l, d) = Projection(l)
<1> DEFINE tables == Projection(old)
           kept == d.orders \intersect DOMAIN l.orders
           held == d.positions \intersect DOMAIN NonZero(l.positions)
           changed == [id \in kept |->
                         IF id \in DOMAIN tables.orders
                         THEN [tables.orders[id] EXCEPT !.remaining = l.orders[id].remaining]
                         ELSE l.orders[id]]
<1>1. tables.accounts = old.cash /\ tables.positions = NonZero(old.positions) /\ tables.orders = old.orders
  BY DEF Projection
<1>2. Upsert(old.cash, Restrict(l.cash, d.accounts)) = l.cash
  <2>1. l.cash = [x \in DOMAIN l.cash |-> l.cash[x]]
    BY DEF Sound, Amounts
  <2>2. Restrict(l.cash, d.accounts) = [x \in d.accounts |-> l.cash[x]]
    BY DEF Restrict
  <2>3. /\ DOMAIN old.cash \union d.accounts = DOMAIN l.cash
        /\ \A x \in DOMAIN l.cash : x \notin d.accounts => old.cash[x] = l.cash[x]
    BY DEF Covers, SameBut
  <2>4. QED
    BY <2>1, <2>2, <2>3 DEF Upsert
<1>3. Upsert(Drop(NonZero(old.positions), d.positions), Restrict(l.positions, held)) = NonZero(l.positions)
  <2>1. NonZero(l.positions) = [x \in {y \in DOMAIN l.positions : l.positions[y] # 0} |-> l.positions[x]]
    BY DEF NonZero, Restrict
  <2>2. Restrict(l.positions, held) = [x \in held |-> l.positions[x]]
    BY DEF Restrict
  <2>3. Drop(NonZero(old.positions), d.positions) =
            [x \in {y \in DOMAIN old.positions : old.positions[y] # 0 /\ y \notin d.positions} |-> old.positions[x]]
    BY DEF NonZero, Restrict, Drop
  <2>4. SameBut(old.positions, l.positions, d.positions)
    BY DEF Covers
  <2>5. QED
    BY <2>1, <2>2, <2>3, <2>4 DEF Upsert, SameBut
<1>4. Upsert(Drop(old.orders, d.orders \ DOMAIN l.orders), changed) = l.orders
  <2>1. l.orders = [x \in DOMAIN l.orders |-> l.orders[x]] /\ SameBut(old.orders, l.orders, d.orders)
    BY DEF Sound, Fits, IsMap, Covers
  <2>2. Drop(old.orders, d.orders \ DOMAIN l.orders) =
            [x \in DOMAIN old.orders \ (d.orders \ DOMAIN l.orders) |-> old.orders[x]]
    BY DEF Drop, Restrict
  <2>3. \A id \in kept : changed[id] = l.orders[id]
    <3> SUFFICES ASSUME NEW id \in kept, id \in DOMAIN old.orders
                 PROVE  [old.orders[id] EXCEPT !.remaining = l.orders[id].remaining] = l.orders[id]
      BY <1>1
    <3>1. /\ old.orders[id] = [rows[id] EXCEPT !.remaining = old.orders[id].remaining]
          /\ l.orders[id] = [rows[id] EXCEPT !.remaining = l.orders[id].remaining]
      BY DEF Sound, Fits
    <3>2. PICK u, v, r : u = old.orders[id].remaining /\ v = l.orders[id].remaining /\ r = rows[id]
      OBVIOUS
    <3>3. [[r EXCEPT !.remaining = u] EXCEPT !.remaining = v] = [r EXCEPT !.remaining = v]
      OBVIOUS
    <3>4. QED
      BY <3>1, <3>2, <3>3
  <2>4. DOMAIN changed = kept
    OBVIOUS
  <2> HIDE DEF changed
  <2>5. QED
    BY <2>1, <2>2, <2>3, <2>4 DEF Upsert, SameBut
<1>5. FlushDirty(tables, l, d) =
          [accounts  |-> Upsert(tables.accounts, Restrict(l.cash, d.accounts)),
           positions |-> Upsert(Drop(tables.positions, d.positions), Restrict(l.positions, held)),
           orders    |-> Upsert(Drop(tables.orders, d.orders \ DOMAIN l.orders), changed),
           fees      |-> l.fees]
  BY DEF FlushDirty
<1> HIDE DEF tables, changed, held
<1>6. FlushDirty(tables, l, d) = [accounts |-> l.cash, positions |-> NonZero(l.positions),
                              orders |-> l.orders, fees |-> l.fees]
  BY <1>1, <1>2, <1>3, <1>4, <1>5
<1>7. QED
  BY <1>6 DEF Projection, tables

-----------------------------------------------------------------------------
(***************************************************************************)
(* The three processes together.                                           *)
(***************************************************************************)
PosInv ==
    /\ stream \in Seq(Appended) /\ coming \in Seq(Seq(Appended))
    /\ floor \in Nat /\ lastSeq \in Nat /\ seen \in 0 .. Len(Readers) /\ oldest \in Nat
    /\ \A r \in DOMAIN marks : marks[r].pos \in Nat

\* The ledger has been asked, by the trim that is under way.
Asked == \E i \in 1 .. seen : Readers[i] = "ledger"

AskInv == Asked => Saved("ledger") /\ oldest <= StartOf("ledger")

MarkInv == lpc # "down" => lastSeq >= StartOf("ledger")

IInv == PosInv /\ AskInv /\ MarkInv /\ LedgerCanAlwaysResume

-----------------------------------------------------------------------------
LEMMA MinOfTwo ==
    ASSUME NEW a \in Int, NEW b \in Int
    PROVE  Min({a, b}) \in {a, b} /\ Min({a, b}) <= a /\ Min({a, b}) <= b
<1>1. \E x \in {a, b} : \A y \in {a, b} : x <= y
  <2>1. CASE a <= b
    BY <2>1
  <2>2. CASE ~(a <= b)
    BY <2>2
  <2>3. QED
    BY <2>1, <2>2
<1>2. QED
  BY <1>1 DEF Min

LEMMA MaxOfTwo ==
    ASSUME NEW a \in Int, NEW b \in Int
    PROVE  Max({a, b}) \in {a, b} /\ Max({a, b}) >= a /\ Max({a, b}) >= b
<1>1. \E x \in {a, b} : \A y \in {a, b} : x >= y
  <2>1. CASE a >= b
    BY <2>1
  <2>2. CASE ~(a >= b)
    BY <2>2
  <2>3. QED
    BY <2>1, <2>2
<1>2. QED
  BY <1>1 DEF Max

\* A batch lies behind the position it was read from, and behind the floor.
LEMMA BatchIsAhead ==
    ASSUME PosInv, NEW at \in Nat, Batch(at) # <<>>
    PROVE  Last(Batch(at)) \in Nat /\ Last(Batch(at)) >= at /\ Last(Batch(at)) >= floor
<1> DEFINE from == Max({at, floor})
           k == Min({BatchSize, Len(stream) - from})
<1>1. from \in Nat /\ from >= at /\ from >= floor
  <2>1. at \in Int /\ floor \in Int
    BY DEF PosInv
  <2>2. from \in {at, floor} /\ from >= at /\ from >= floor
    BY <2>1, MaxOfTwo
  <2>3. QED
    BY <2>2 DEF PosInv
<1>2. k \in Int
  <2>1. BatchSize \in Int /\ Len(stream) - from \in Int
    BY <1>1, BatchSizePos DEF PosInv
  <2>2. QED
    BY <2>1, MinOfTwo
<1>3. Batch(at) = [i \in 1 .. k |-> from + i]
  BY DEF Batch
<1> HIDE DEF from, k
<1>4. k >= 1
  <2> SUFFICES ASSUME ~(k >= 1) PROVE FALSE
    OBVIOUS
  <2>1. 1 .. k = 1 .. 0
    BY <1>2
  <2>2. Batch(at) = [i \in 1 .. 0 |-> from + i]
    BY <1>3, <2>1
  <2>3. Batch(at) \in Seq(Int) /\ Len(Batch(at)) = 0
    BY <1>1, <2>2
  <2>4. QED
    BY <2>3
<1>5. Batch(at) \in Seq(Nat) /\ Len(Batch(at)) = k
  <2>1. Batch(at) \in [1 .. k -> Nat] /\ k \in Nat
    BY <1>1, <1>2, <1>3, <1>4
  <2>2. QED
    BY <2>1
<1>6. Last(Batch(at)) = from + k
  BY <1>2, <1>3, <1>4, <1>5 DEF Last
<1>7. QED
  BY <1>1, <1>2, <1>4, <1>6 DEF PosInv

\* What a save of the ledger's checkpoint does to the marks.
LEMMA SaveEffect ==
    ASSUME PosInv, NEW r, NEW at \in Nat, NEW state, Save(r, at, state)
    PROVE  /\ Saved(r)' /\ marks'[r].pos = at
           /\ \A x : x # r => (Saved(x)' <=> Saved(x))
           /\ \A x \in DOMAIN marks : x # r => marks'[x] = marks[x]
           /\ \A x \in DOMAIN marks' : marks'[x].pos \in Nat
  BY DEF Save, Saved, PosInv

-----------------------------------------------------------------------------
LEMMA InvInit == Init => IInv
<1> SUFFICES ASSUME Init PROVE IInv
  OBVIOUS
<1>1. /\ coming \in Histories /\ stream = <<>> /\ floor = 0 /\ marks = <<>> /\ seen = 0 /\ oldest = 0
      /\ lpc = "down" /\ lastSeq = 0
  BY DEF Init, OutboundInit, LedgerInit
<1>2. DOMAIN marks = {}
  BY <1>1
<1>3. PosInv
  BY <1>1, <1>2, HistoriesAreBatches, ReadersAreNames DEF PosInv
<1>4. AskInv /\ MarkInv /\ LedgerCanAlwaysResume
  BY <1>1 DEF AskInv, Asked, MarkInv, LedgerCanAlwaysResume
<1>5. QED
  BY <1>3, <1>4 DEF IInv

\* A step of a reader: the ledger's mark stays or goes forward, and a ledger that
\* runs is not behind its mark.
LEMMA InvReader ==
    ASSUME IInv, UNCHANGED <<coming, stream, floor, seen, oldest>>,
           lastSeq' \in Nat, \A r \in DOMAIN marks' : marks'[r].pos \in Nat,
           Saved("ledger") => Saved("ledger")', StartOf("ledger")' >= StartOf("ledger"),
           lpc' # "refused",
           lpc' # "down" => lastSeq' >= StartOf("ledger")' /\ lastSeq' >= floor
    PROVE  IInv'
<1> USE DEF IInv
<1>1. StartOf("ledger") \in Nat /\ StartOf("ledger")' \in Nat
  BY DEF StartOf, Saved, PosInv
<1>2. PosInv'
  BY DEF PosInv
<1>3. AskInv'
  <2>1. Asked' => Asked
    BY DEF Asked
  <2>2. QED
    BY <1>1, <2>1 DEF AskInv, PosInv
<1>4. MarkInv' /\ LedgerCanAlwaysResume'
  BY <1>1 DEF MarkInv, LedgerCanAlwaysResume, PosInv
<1>5. QED
  BY <1>2, <1>3, <1>4

LEMMA InvPublish ==
    ASSUME IInv, Publish, UNCHANGED ledgerVars
    PROVE  IInv'
<1> USE DEF IInv
<1>1. /\ coming # <<>> /\ stream' = stream \o Head(coming) /\ coming' = Tail(coming)
      /\ UNCHANGED <<floor, marks, seen, oldest, lpc, lastSeq>>
  BY DEF Publish, trimVars, ledgerVars
<1>2. stream' \in Seq(Appended) /\ coming' \in Seq(Seq(Appended))
  <2> DEFINE Batches == Seq(Appended)
  <2>1. stream \in Seq(Appended) /\ coming \in Seq(Batches)
    BY DEF PosInv
  <2>2. Head(coming) \in Batches /\ Tail(coming) \in Seq(Batches)
    <3> HIDE DEF Batches
    <3>1. QED
      BY <1>1, <2>1
  <2>3. QED
    BY <1>1, <2>1, <2>2
<1>3. PosInv'
  BY <1>1, <1>2 DEF PosInv
<1>4. AskInv' /\ MarkInv' /\ LedgerCanAlwaysResume'
  BY <1>1 DEF AskInv, Asked, MarkInv, LedgerCanAlwaysResume, StartOf, Saved
<1>5. QED
  BY <1>3, <1>4

\* The ledger's answer is behind its mark when it is given, and later answers only
\* make the oldest older.
LEMMA InvAskReader ==
    ASSUME IInv, AskReader, UNCHANGED ledgerVars
    PROVE  IInv'
<1> USE DEF IInv
<1> DEFINE r == Readers[seen + 1]
<1>1. /\ seen < Len(Readers) /\ UNCHANGED <<coming, stream, floor, marks, lpc, lastSeq>>
      /\ \/ seen' = 0 /\ oldest' = 0
         \/ /\ Saved(r) /\ seen' = seen + 1
            /\ oldest' = IF seen = 0 THEN marks[r].pos ELSE Min({oldest, marks[r].pos})
  BY DEF AskReader, streamVars, ledgerVars
<1>2. Len(Readers) \in Nat /\ seen \in Nat /\ oldest \in Nat
  BY ReadersAreNames DEF PosInv
<1>3. UNCHANGED <<Saved("ledger"), StartOf("ledger")>> /\ StartOf("ledger") \in Nat
  BY <1>1 DEF Saved, StartOf, PosInv
<1>4. CASE seen' = 0 /\ oldest' = 0
  <2>1. PosInv'
    BY <1>1, <1>2, <1>4 DEF PosInv
  <2>2. AskInv' /\ MarkInv' /\ LedgerCanAlwaysResume'
    BY <1>1, <1>3, <1>4 DEF AskInv, Asked, MarkInv, LedgerCanAlwaysResume
  <2>3. QED
    BY <2>1, <2>2
<1>5. CASE /\ Saved(r) /\ seen' = seen + 1
           /\ oldest' = IF seen = 0 THEN marks[r].pos ELSE Min({oldest, marks[r].pos})
  <2>1. marks[r].pos \in Nat
    BY <1>5 DEF Saved, PosInv
  <2>2. oldest' \in Nat /\ oldest' <= marks[r].pos /\ (seen # 0 => oldest' <= oldest)
    <3>1. CASE seen = 0
      BY <1>5, <2>1, <3>1
    <3>2. CASE seen # 0
      <4>1. oldest \in Int /\ marks[r].pos \in Int
        BY <1>2, <2>1
      <4>2. /\ Min({oldest, marks[r].pos}) \in {oldest, marks[r].pos}
            /\ Min({oldest, marks[r].pos}) <= oldest /\ Min({oldest, marks[r].pos}) <= marks[r].pos
        BY <4>1, MinOfTwo
      <4>3. QED
        BY <1>2, <1>5, <2>1, <3>2, <4>2
    <3>3. QED
      BY <3>1, <3>2
  <2>3. PosInv'
    BY <1>1, <1>2, <1>5, <2>2 DEF PosInv
  <2>4. AskInv'
    <3> SUFFICES ASSUME NEW i \in 1 .. seen + 1, Readers[i] = "ledger"
                 PROVE  Saved("ledger") /\ oldest' <= StartOf("ledger")
      BY <1>3, <1>5 DEF AskInv, Asked
    <3>1. CASE i = seen + 1
      BY <1>5, <2>1, <2>2, <3>1 DEF StartOf
    <3>2. CASE i # seen + 1
      <4>1. i \in 1 .. seen /\ seen # 0
        BY <1>2, <3>2
      <4>2. Saved("ledger") /\ oldest <= StartOf("ledger")
        BY <4>1 DEF AskInv, Asked
      <4>3. QED
        BY <1>2, <1>3, <2>2, <4>1, <4>2
    <3>3. QED
      BY <3>1, <3>2
  <2>5. MarkInv' /\ LedgerCanAlwaysResume'
    BY <1>1, <1>3 DEF MarkInv, LedgerCanAlwaysResume
  <2>6. QED
    BY <2>3, <2>4, <2>5
<1>6. QED
  BY <1>1, <1>4, <1>5

LEMMA InvTrim ==
    ASSUME IInv, Trim, UNCHANGED ledgerVars
    PROVE  IInv'
<1> USE DEF IInv
<1>1. /\ seen = Len(Readers) /\ seen' = 0 /\ oldest' = 0
      /\ floor' = floor \/ (oldest # 0 /\ floor' = Max({floor, oldest - 1}))
      /\ UNCHANGED <<coming, stream, marks, lpc, lastSeq>>
  BY DEF Trim, ledgerVars
<1>2. Asked
  <2>1. \E i \in DOMAIN Readers : Readers[i] = "ledger"
    BY LedgerIsAReader DEF ToSet
  <2>2. DOMAIN Readers = 1 .. Len(Readers)
    BY ReadersAreNames
  <2>3. QED
    BY <1>1, <2>1, <2>2 DEF Asked
<1>3. /\ StartOf("ledger") \in Nat /\ UNCHANGED <<Saved("ledger"), StartOf("ledger")>>
      /\ oldest \in Nat /\ oldest <= StartOf("ledger") /\ floor \in Nat
  BY <1>1, <1>2 DEF AskInv, StartOf, Saved, PosInv
<1>4. /\ floor' \in Nat
      /\ floor' = floor \/ floor' = oldest - 1
  <2>1. CASE floor' = floor
    BY <1>3, <2>1
  <2>2. CASE oldest # 0 /\ floor' = Max({floor, oldest - 1})
    <3>1. floor \in Int /\ oldest - 1 \in Int /\ oldest - 1 \in Nat
      BY <1>3, <2>2
    <3>2. floor' \in {floor, oldest - 1}
      BY <2>2, <3>1, MaxOfTwo
    <3>3. QED
      BY <1>3, <3>1, <3>2
  <2>3. QED
    BY <1>1, <2>1, <2>2
<1>5. PosInv'
  BY <1>1, <1>4, ReadersAreNames DEF PosInv
<1>6. AskInv' /\ MarkInv'
  BY <1>1, <1>3 DEF AskInv, Asked, MarkInv
<1>7. LedgerCanAlwaysResume'
  BY <1>1, <1>3, <1>4 DEF LedgerCanAlwaysResume, MarkInv, PosInv
<1>8. QED
  BY <1>5, <1>6, <1>7

-----------------------------------------------------------------------------
LEMMA InvLedger ==
    ASSUME IInv, LedgerNext
    PROVE  IInv'
<1> USE DEF IInv
<1>1. /\ StartOf("ledger") \in Nat /\ lastSeq \in Nat /\ floor \in Nat
      /\ floor > 0 => StartOf("ledger") > floor
      /\ lpc # "down" => lastSeq >= StartOf("ledger") /\ lastSeq >= floor
  BY DEF StartOf, Saved, PosInv, MarkInv, LedgerCanAlwaysResume
\* Every step that leaves the mark and the position as they are.
<1>2. ASSUME UNCHANGED <<coming, stream, floor, seen, oldest, marks, lastSeq>>,
             lpc' # "refused", lpc # "down"
      PROVE  IInv'
  <2>1. UNCHANGED <<Saved("ledger"), StartOf("ledger")>>
    BY <1>2 DEF Saved, StartOf
  <2>2. QED
    BY <1>1, <1>2, <2>1, InvReader DEF PosInv
\* Every step that reads a batch.
<1>3. ASSUME UNCHANGED <<coming, stream, floor, seen, oldest, marks>>, lpc' # "refused",
             lpc # "down", Batch(lastSeq) # <<>>, lastSeq' = Last(Batch(lastSeq))
      PROVE  IInv'
  <2>1. UNCHANGED <<Saved("ledger"), StartOf("ledger")>>
    BY <1>3 DEF Saved, StartOf
  <2>2. lastSeq' \in Nat /\ lastSeq' >= lastSeq /\ lastSeq' >= floor
    BY <1>1, <1>3, BatchIsAhead
  <2>3. QED
    BY <1>1, <1>3, <2>1, <2>2, InvReader DEF PosInv
\* Every step that saves a checkpoint.
<1>4. ASSUME UNCHANGED <<coming, stream, floor, seen, oldest>>, Save("ledger", lastSeq, ledger),
             lpc # "down", lpc' # "refused", lastSeq' \in Nat, lpc' # "down" => lastSeq' = lastSeq
      PROVE  IInv'
  <2>1. Saved("ledger")' /\ StartOf("ledger")' = lastSeq /\ \A r \in DOMAIN marks' : marks'[r].pos \in Nat
    BY <1>1, <1>4, SaveEffect DEF StartOf
  <2>2. QED
    BY <1>1, <1>4, <2>1, InvReader
\* Every death that saves none.
<1>5. ASSUME UNCHANGED <<coming, stream, floor, seen, oldest, marks>>, lpc' = "down", lastSeq' = 0
      PROVE  IInv'
  <2>1. UNCHANGED <<Saved("ledger"), StartOf("ledger")>>
    BY <1>5 DEF Saved, StartOf
  <2>2. QED
    BY <1>1, <1>5, <2>1, InvReader DEF PosInv
<1> USE DEF outboundVars, streamVars, trimVars, ledgerMemory
<1>6. CASE Recover
  <2>1. Resumable(StartOf("ledger"))
    BY <1>1 DEF Resumable
  <2>2. lpc' = "replaying" /\ lastSeq' = StartOf("ledger")
        /\ UNCHANGED <<coming, stream, floor, seen, oldest, marks>>
    BY <1>6, <2>1 DEF Recover
  <2>3. UNCHANGED <<Saved("ledger"), StartOf("ledger")>>
    BY <2>2 DEF Saved, StartOf
  <2>4. QED
    BY <1>1, <2>2, <2>3, InvReader DEF PosInv
<1>7. CASE ReplayBatch
  BY <1>2, <1>3, <1>7 DEF ReplayBatch, ApplyToLedger
<1>8. CASE Rebuild \/ Flush
  BY <1>2, <1>8 DEF Rebuild, Flush
<1>9. CASE SaveLedger
  BY <1>1, <1>4, <1>9 DEF SaveLedger
<1>10. CASE Poll
  BY <1>3, <1>10 DEF Poll, ApplyToLedger
<1>11. CASE SaveFails
  <2>1. /\ lpc = "saving" /\ lpc' = "polling" /\ UNCHANGED <<lastSeq, coming, stream, floor, seen, oldest>>
        /\ Save("ledger", lastSeq, ledger) \/ UNCHANGED marks
    BY <1>11 DEF SaveFails
  <2>2. QED
    BY <1>1, <1>2, <1>4, <2>1
<1>12. CASE PollFails \/ FlushFails
  BY <1>2, <1>12 DEF PollFails, FlushFails
<1>13. CASE LedgerDies
  <2>1. /\ lpc # "down" /\ lpc' = "down" /\ lastSeq' = 0 /\ UNCHANGED <<coming, stream, floor, seen, oldest>>
        /\ UNCHANGED marks \/ Save("ledger", lastSeq, ledger)
    BY <1>13 DEF LedgerDies
  <2>2. QED
    BY <1>4, <1>5, <2>1
<1>14. QED
  BY <1>6, <1>7, <1>8, <1>9, <1>10, <1>11, <1>12, <1>13 DEF LedgerNext, LedgerStep

\* The archiver saves under its own name.
LEMMA InvArchiver ==
    ASSUME IInv, BookmarkIsAPosition, ArchiverNext, UNCHANGED ledgerVars
    PROVE  IInv'
<1> USE DEF IInv
<1>1. UNCHANGED <<coming, stream, floor, seen, oldest, lpc, lastSeq>>
  BY DEF ArchiverNext, ArchiverStep, ResumeArchive, PublishPosition, ReadAndArchive, WriteFile,
         WriteBookmark, WriteFails, StopCleanly, ArchiverDies,
         outboundVars, streamVars, trimVars, ledgerVars
<1>2. UNCHANGED marks \/ Save("archiver", bookmark, <<>>)
  BY DEF ArchiverNext, ArchiverStep, ResumeArchive, PublishPosition, ReadAndArchive, WriteFile,
         WriteBookmark, WriteFails, StopCleanly, ArchiverDies, outboundVars
<1>3. /\ UNCHANGED <<Saved("ledger"), StartOf("ledger")>> /\ StartOf("ledger") \in Nat
      /\ \A r \in DOMAIN marks' : marks'[r].pos \in Nat
  <2>1. CASE UNCHANGED marks
    BY <2>1 DEF Saved, StartOf, PosInv
  <2>2. CASE Save("archiver", bookmark, <<>>)
    <3>1. bookmark \in Nat
      BY DEF BookmarkIsAPosition, PosInv
    <3>2. /\ Saved("ledger")' <=> Saved("ledger")
          /\ Saved("ledger") => marks'["ledger"] = marks["ledger"]
          /\ \A r \in DOMAIN marks' : marks'[r].pos \in Nat
      BY <2>2, <3>1, SaveEffect DEF Saved
    <3>3. QED
      BY <3>2 DEF Saved, StartOf, PosInv
  <2>3. QED
    BY <1>2, <2>1, <2>2
<1>4. /\ lastSeq' \in Nat /\ lpc' # "refused"
      /\ lpc' # "down" => lastSeq' >= StartOf("ledger")' /\ lastSeq' >= floor
  BY <1>1, <1>3 DEF PosInv, MarkInv, LedgerCanAlwaysResume
<1>5. QED
  BY <1>1, <1>3, <1>4, InvReader

-----------------------------------------------------------------------------
LEMMA InvNext ==
    ASSUME IInv, BookmarkIsAPosition, [Next]_vars
    PROVE  IInv'
<1>1. CASE OutboundNext /\ UNCHANGED <<ledgerVars, archiverVars>>
  BY <1>1, InvPublish, InvAskReader, InvTrim DEF OutboundNext
<1>2. CASE LedgerNext
  BY <1>2, InvLedger
<1>3. CASE ArchiverNext /\ UNCHANGED ledgerVars
  BY <1>3, InvArchiver
<1>4. CASE UNCHANGED vars
  <2>1. UNCHANGED <<coming, stream, floor, seen, oldest, marks, lpc, lastSeq>>
    BY <1>4 DEF vars, outboundVars, streamVars, trimVars, ledgerVars
  <2>2. QED
    BY <2>1 DEF IInv, PosInv, AskInv, Asked, MarkInv, LedgerCanAlwaysResume, StartOf, Saved
<1>5. QED
  BY <1>1, <1>2, <1>3, <1>4 DEF Next

-----------------------------------------------------------------------------
(***************************************************************************)
(* What replaying the stream gives, in any state.                          *)
(***************************************************************************)
Told == <<stream>> \o coming

HistoryInv == OneOrderPerId(Told) /\ AccountsComeFirst(Told)

\* The rows of the orders on the stream, as they were accepted.
Accepts(id) == {i \in DOMAIN stream : stream[i].kind = "OrderAccepted" /\ stream[i].id = id}
Accepted == [id \in {stream[i].id : i \in DOMAIN stream} |-> Row(stream[CHOOSE i \in Accepts(id) : TRUE])]

LEMMA FoldIsPosted ==
    ASSUME NEW b, NEW s
    PROVE  FoldLeft(Post, b, s) = Posting!Folded(b, s)
  BY DEF FoldLeft, MapThenFoldSet, Posting!Folded, Posting!Folds, Posting!Max, Max

LEMMA FoldIsMarked ==
    ASSUME NEW b, NEW s
    PROVE  FoldLeft(MarkDirty, b, s) = Marking!Folded(b, s)
  BY DEF FoldLeft, MapThenFoldSet, Marking!Folded, Marking!Folds, Marking!Max, Max

LEMMA StreamIsAppended ==
    ASSUME PosInv, NEW n \in 1 .. Len(stream)
    PROVE  stream[n] \in Appended
  BY DEF PosInv

LEMMA StreamIsRead ==
    ASSUME PosInv, HistoryInv, NEW n \in 1 .. Len(stream)
    PROVE  Readable(stream[n], Accepted) /\ stream[n] \in Appended
<1>1. n \in DOMAIN stream /\ stream[n] \in Appended
  BY DEF PosInv
<1>2. ASSUME stream[n].kind = "OrderAccepted"
      PROVE  Accepted[stream[n].id] = Row(stream[n])
  <2>1. PICK i \in Accepts(stream[n].id) : i = CHOOSE j \in Accepts(stream[n].id) : TRUE
    BY <1>1, <1>2 DEF Accepts
  <2>2. Accepted[stream[n].id] = Row(stream[i])
    BY <1>1, <2>1 DEF Accepted
  <2>3. Told[1] = stream /\ 1 \in DOMAIN Told
    BY DEF Told, PosInv
  <2>4. Row(stream[i]) = Row(stream[n])
    BY <1>1, <1>2, <2>1, <2>3 DEF Accepts, HistoryInv, OneOrderPerId
  <2>5. QED
    BY <2>2, <2>4
<1>3. QED
  BY <1>1, <1>2, AmountsAreIntegers DEF Readable

\* The ledger after n records.
Replay(n) == FoldLeft(Post, NewLedger, SubSeq(stream, 1, n))

LEMMA PrefixOfStream ==
    ASSUME PosInv, NEW n \in 0 .. Len(stream)
    PROVE  /\ DOMAIN SubSeq(stream, 1, n) = 1 .. n
           /\ \A i \in 1 .. n : SubSeq(stream, 1, n)[i] = stream[i]
  BY DEF PosInv

LEMMA ReplaySteps ==
    ASSUME PosInv
    PROVE  /\ Replay(0) = NewLedger
           /\ \A n \in 0 .. Len(stream) - 1 : Replay(n + 1) = Post(Replay(n), stream[n + 1])
<1>1. Replay(0) = NewLedger
  <2>1. Len(stream) \in Nat /\ 0 \in 0 .. Len(stream)
    BY DEF PosInv
  <2>2. DOMAIN SubSeq(stream, 1, 0) = {}
    BY <2>1, PrefixOfStream
  <2>3. Posting!Folded(NewLedger, SubSeq(stream, 1, 0)) = NewLedger
    BY <2>2, Posting!FoldedEmpty
  <2>4. QED
    BY <2>3, FoldIsPosted DEF Replay
<1>2. ASSUME NEW n \in 0 .. Len(stream) - 1
      PROVE  Replay(n + 1) = Post(Replay(n), stream[n + 1])
  <2>1. PICK s, r : s = SubSeq(stream, 1, n + 1) /\ r = SubSeq(stream, 1, n)
    OBVIOUS
  <2>2. n \in Nat /\ n \in 0 .. Len(stream) /\ n + 1 \in 0 .. Len(stream)
    BY DEF PosInv
  <2>3. DOMAIN s = 1 .. n + 1 /\ \A i \in 1 .. n + 1 : s[i] = stream[i]
    BY <2>1, <2>2, PrefixOfStream
  <2>4. DOMAIN r = 1 .. n /\ \A i \in 1 .. n : r[i] = stream[i]
    BY <2>1, <2>2, PrefixOfStream
  <2>5. Posting!Agree(r, s, n)
    BY <2>2, <2>3, <2>4 DEF Posting!Agree
  <2>6. Posting!Folded(NewLedger, s) = Post(Posting!Folded(NewLedger, r), s[n + 1])
    BY <2>2, <2>3, <2>4, <2>5, Posting!FoldedLast
  <2>7. s[n + 1] = stream[n + 1]
    BY <2>2, <2>3
  <2>8. Replay(n + 1) = Posting!Folded(NewLedger, s) /\ Replay(n) = Posting!Folded(NewLedger, r)
    BY <2>1, FoldIsPosted DEF Replay
  <2>9. QED
    BY <2>6, <2>7, <2>8
<1>3. QED
  BY <1>1, <1>2

LEMMA LastAppended ==
    ASSUME NEW s, NEW k \in Nat, NEW S, s \in [1 .. k + 1 -> S], NEW v \in S
    PROVE  /\ Last(s) = s[k + 1]
           /\ Append(s, v) \in [1 .. k + 2 -> S]
           /\ \A i \in 1 .. k + 2 : Append(s, v)[i] = IF i = k + 2 THEN v ELSE s[i]
<1>1. s \in Seq(S) /\ Len(s) = k + 1
  BY SeqDef
<1>2. /\ Append(s, v) \in Seq(S) /\ Len(Append(s, v)) = k + 2
      /\ \A i \in 1 .. k + 1 : Append(s, v)[i] = s[i]
      /\ Append(s, v)[k + 2] = v
  BY <1>1, AppendProperties
<1>3. Append(s, v) \in [1 .. k + 2 -> S]
  <2>1. PICK t : t = Append(s, v)
    OBVIOUS
  <2>2. t \in [1 .. Len(t) -> S] /\ Len(t) = k + 2
    BY <1>2, <2>1, LenProperties
  <2>3. QED
    BY <2>1, <2>2
<1>4. QED
  BY <1>1, <1>2, <1>3 DEF Last

LEMMA ReplaysAreReplay ==
    ASSUME PosInv
    PROVE  \A n \in 0 .. Len(stream) : Replays[n + 1] = Replay(n)
<1> DEFINE N == Len(stream)
           S == {Replay(n) : n \in 0 .. N}
<1>1. N \in Nat /\ DOMAIN stream = 1 .. N
  BY DEF PosInv
<1>2. Replays = Replaying!Folded(<<NewLedger>>, stream)
  BY DEF Replays, FoldLeft, MapThenFoldSet, Replaying!Folded, Replaying!Folds, Replaying!Max, Max
<1>3. PICK v : /\ v[0] = <<NewLedger>> /\ v[N] = Replays
               /\ \A k \in 0 .. N - 1 : v[k + 1] = NextReplay(v[k], stream[k + 1])
  <2>1. PICK b, m : b = <<NewLedger>> /\ m = N
    OBVIOUS
  <2>2. m \in Nat /\ DOMAIN stream = 1 .. m
    BY <1>1, <2>1
  <2>3. \E v : /\ v[0] = b /\ v[m] = Replaying!Folded(b, stream)
               /\ \A k \in 0 .. m - 1 : v[k + 1] = NextReplay(v[k], stream[k + 1])
    BY <2>2, Replaying!FoldedRun
  <2>4. QED
    BY <1>2, <2>1, <2>3
<1> DEFINE P == {k \in 0 .. N : /\ v[k] \in [1 .. k + 1 -> S]
                                /\ \A i \in 0 .. k : v[k][i + 1] = Replay(i)}
<1>4. 0 \in P
  <2>1. Replay(0) = NewLedger /\ Replay(0) \in S /\ 0 \in 0 .. N
    BY <1>1, ReplaySteps
  <2>2. v[0] \in [1 .. 0 + 1 -> S] /\ v[0][0 + 1] = Replay(0)
    <3> HIDE DEF S
    <3>1. QED
      BY <1>3, <2>1
  <2>3. \A i \in 0 .. 0 : i = 0
    OBVIOUS
  <2>4. QED
    BY <2>1, <2>2, <2>3
<1>5. ASSUME NEW k \in 0 .. N - 1, k \in P
      PROVE  k + 1 \in P
  <2>1. k \in Nat /\ k + 1 \in 0 .. N /\ k \in 0 .. N
    BY <1>1
  <2>2. v[k] \in [1 .. k + 1 -> S] /\ \A i \in 0 .. k : v[k][i + 1] = Replay(i)
    BY <1>5
  <2>3. PICK next : next = Replay(k + 1)
    OBVIOUS
  <2>4. next \in S /\ next = Post(Replay(k), stream[k + 1])
    BY <2>1, <2>3, ReplaySteps
  <2>5. Last(v[k]) = Replay(k)
    <3> HIDE DEF S
    <3>1. PICK s : s = v[k]
      OBVIOUS
    <3>2. s \in [1 .. k + 1 -> S] /\ k \in 0 .. k
      BY <2>1, <2>2, <3>1
    <3>3. Last(s) = s[k + 1]
      BY <2>1, <2>4, <3>2, LastAppended
    <3>4. QED
      BY <2>2, <3>1, <3>2, <3>3
  <2>6. v[k + 1] = Append(v[k], next)
    BY <1>3, <2>4, <2>5 DEF NextReplay
  <2>7. /\ v[k + 1] \in [1 .. (k + 1) + 1 -> S]
        /\ \A i \in 1 .. k + 2 : v[k + 1][i] = IF i = k + 2 THEN next ELSE v[k][i]
    <3> HIDE DEF S
    <3>1. (k + 1) + 1 = k + 2
      BY <2>1
    <3>2. QED
      BY <2>1, <2>2, <2>4, <2>6, <3>1, LastAppended
  <2>8. ASSUME NEW i \in 0 .. k + 1
        PROVE  v[k + 1][i + 1] = Replay(i)
    <3>1. CASE i = k + 1
      BY <2>1, <2>3, <2>7, <3>1
    <3>2. CASE i # k + 1
      <4>1. i \in 0 .. k /\ i + 1 \in 1 .. k + 2 /\ i + 1 # k + 2
        BY <2>1, <3>2
      <4>2. QED
        BY <2>2, <2>7, <4>1
    <3>3. QED
      BY <3>1, <3>2
  <2>9. QED
    BY <2>1, <2>7, <2>8
<1>6. 0 .. N \subseteq P
  <2> HIDE DEF P, N
  <2>1. QED
    BY <1>1, <1>4, <1>5, Replaying!UpTo
<1>7. N \in P
  BY <1>1, <1>6
<1>8. QED
  BY <1>3, <1>7

LEMMA DepositsStep ==
    ASSUME PosInv, NEW n \in 0 .. Len(stream) - 1, \A i \in 1 .. n + 1 : Granted(stream[i]) \in Int
    PROVE  DepositedBy(n + 1) = DepositedBy(n) + Granted(stream[n + 1]) /\ DepositedBy(n) \in Int
<1>1. n \in Nat
  BY DEF PosInv
<1>2. PICK f : f = [i \in 1 .. n |-> Granted(stream[i])]
  OBVIOUS
<1>3. PICK g : g = [i \in 1 .. n + 1 |-> Granted(stream[i])]
  OBVIOUS
<1>4. IsFiniteSet(1 .. n) /\ IsFiniteSet(1 .. n + 1)
  BY <1>1, FS_Interval
<1>5. Amounts(f) /\ Amounts(g)
  BY <1>1, <1>2, <1>3, <1>4 DEF Amounts
<1>6. DOMAIN g = DOMAIN f \union {n + 1} /\ \A y \in DOMAIN f : y # n + 1 => g[y] = f[y]
  BY <1>1, <1>2, <1>3
<1>7. Held(f, n + 1) = 0 /\ g[n + 1] = Granted(stream[n + 1]) /\ Granted(stream[n + 1]) \in Int
  BY <1>1, <1>2, <1>3 DEF Held
<1>8. Total(g) - g[n + 1] = Total(f) - Held(f, n + 1)
  <2>1. PICK x : x = n + 1
    OBVIOUS
  <2>2. Total(g) - g[x] = Total(f) - Held(f, x)
    BY <1>5, <1>6, <2>1, TotalsDiffer
  <2>3. QED
    BY <2>1, <2>2
<1>9. Total(f) \in Int /\ Total(g) \in Int
  BY <1>5, TotalIsInt
<1>10. DepositedBy(n + 1) = Total(g) /\ DepositedBy(n) = Total(f)
  BY <1>2, <1>3 DEF DepositedBy
<1>11. QED
  BY <1>7, <1>8, <1>9, <1>10

\* The users whose cash the first n records touch.
Touched(n) == UNION {MarkDirty(Clean, stream[i]).accounts : i \in 1 .. n}

Replayed(n) ==
    /\ Sound(Replay(n), Accepted)
    /\ Replay(n).deposits = DepositedBy(n)
    /\ DOMAIN Replay(n).cash = Touched(n)

LEMMA NothingReplayed ==
    ASSUME PosInv
    PROVE  Replayed(0)
<1>1. Replay(0) = NewLedger
  BY ReplaySteps
<1>2. PICK e : e = <<>>
  OBVIOUS
<1>3. DOMAIN e = {} /\ e = [x \in {} |-> 0]
  BY <1>2
<1>4. Amounts(e) /\ Total(e) = 0 /\ Fits(e, Accepted)
  <2>1. IsFiniteSet({})
    BY FS_EmptySet
  <2>2. Amounts(e)
    BY <1>3, <2>1 DEF Amounts
  <2>3. Total(e) = 0
    BY <1>3, <2>2, TotalIsInt
  <2>4. QED
    BY <1>3, <2>2, <2>3 DEF Fits, IsMap
<1>5. NewLedger = [cash |-> e, positions |-> e, orders |-> e, fees |-> 0, deposits |-> 0]
  BY <1>2 DEF NewLedger
<1>6. Sound(NewLedger, Accepted)
  BY <1>4, <1>5 DEF Sound, Fields, Balanced
<1>7. DepositedBy(0) = 0
  <2>1. PICK f : f = [i \in 1 .. 0 |-> Granted(stream[i])]
    OBVIOUS
  <2>2. DOMAIN f = {} /\ IsFiniteSet({}) /\ Amounts(f)
    BY <2>1, FS_EmptySet DEF Amounts
  <2>3. Total(f) = 0
    BY <2>2, TotalIsInt
  <2>4. QED
    BY <2>1, <2>3 DEF DepositedBy
<1>8. Touched(0) = {}
  BY DEF Touched
<1>9. NewLedger.deposits = 0 /\ DOMAIN NewLedger.cash = {}
  BY <1>3, <1>5
<1>10. QED
  BY <1>1, <1>6, <1>7, <1>8, <1>9 DEF Replayed

LEMMA ReplayApplies ==
    ASSUME PosInv, HistoryInv, NEW n \in 0 .. Len(stream) - 1, Sound(Replay(n), Accepted),
           DOMAIN Replay(n).cash = Touched(n)
    PROVE  Applied(Replay(n), Replay(n + 1), stream[n + 1], Accepted)
<1>1. Replay(n + 1) = Post(Replay(n), stream[n + 1])
  BY ReplaySteps
<1>2. n + 1 \in 1 .. Len(stream) /\ n \in Nat
  BY DEF PosInv
<1>3. Readable(stream[n + 1], Accepted)
  BY <1>2, StreamIsRead
<1>4. ASSUME stream[n + 1].kind = "AccountCreated"
      PROVE  stream[n + 1].user \notin Touched(n)
  <2> SUFFICES ASSUME NEW i \in 1 .. n
               PROVE  stream[n + 1].user \notin MarkDirty(Clean, stream[i]).accounts
    BY DEF Touched
  <2>1. Told[1] = stream /\ 1 \in DOMAIN Told
    BY DEF Told, PosInv
  <2>2. i \in DOMAIN stream /\ n + 1 \in DOMAIN stream /\ i < n + 1
    BY <1>2 DEF PosInv
  <2>3. QED
    BY <1>4, <2>1, <2>2 DEF HistoryInv, AccountsComeFirst
<1>5. InitialCash \in Int
  BY AmountsAreIntegers
<1>6. PICK l, e, m : l = Replay(n) /\ e = stream[n + 1] /\ m = Replay(n + 1)
  OBVIOUS
<1>7. Applied(l, m, e, Accepted)
  BY <1>1, <1>3, <1>4, <1>5, <1>6, PostApplies
<1>8. QED
  BY <1>6, <1>7

LEMMA ReplaysAreSound ==
    ASSUME PosInv, HistoryInv
    PROVE  \A n \in 0 .. Len(stream) : Replayed(n)
<1> DEFINE P == {n \in 0 .. Len(stream) : Replayed(n)}
<1>0. Len(stream) \in Nat
  BY DEF PosInv
<1>1. 0 \in P
  BY <1>0, NothingReplayed
<1>2. ASSUME NEW n \in 0 .. Len(stream) - 1, n \in P
      PROVE  n + 1 \in P
  <2>1. Sound(Replay(n), Accepted) /\ DOMAIN Replay(n).cash = Touched(n) /\ Replay(n).deposits = DepositedBy(n)
    BY <1>2 DEF Replayed
  <2>2. Applied(Replay(n), Replay(n + 1), stream[n + 1], Accepted)
    BY <2>1, ReplayApplies
  <2>3. \A i \in 1 .. n + 1 : Granted(stream[i]) \in Int
    <3> SUFFICES ASSUME NEW i \in 1 .. n + 1 PROVE Granted(stream[i]) \in Int
      OBVIOUS
    <3>1. i \in 1 .. Len(stream)
      BY <1>0
    <3>2. QED
      BY <3>1, StreamIsRead, AmountsAreIntegers DEF Granted, Readable
  <2>4. DepositedBy(n + 1) = DepositedBy(n) + Granted(stream[n + 1])
    BY <2>3, DepositsStep
  <2>5. Touched(n + 1) = Touched(n) \union MarkDirty(Clean, stream[n + 1]).accounts
    <3>1. \A i : i \in 1 .. n + 1 <=> i \in 1 .. n \/ i = n + 1
      BY <1>0
    <3>2. QED
      BY <3>1 DEF Touched
  <2>6. Replayed(n + 1)
    BY <2>1, <2>2, <2>4, <2>5 DEF Replayed, Applied
  <2>7. n + 1 \in 0 .. Len(stream)
    BY <1>0
  <2>8. QED
    BY <2>6, <2>7
<1>3. 0 .. Len(stream) \subseteq P
  <2> HIDE DEF P
  <2>1. QED
    BY <1>0, <1>1, <1>2, Posting!UpTo
<1>4. QED
  BY <1>3

\* A later replay knows every account that an earlier one does.
LEMMA CashGrows ==
    ASSUME PosInv, HistoryInv, NEW n \in 0 .. Len(stream), NEW m \in 0 .. Len(stream), n <= m
    PROVE  DOMAIN Replay(n).cash \subseteq DOMAIN Replay(m).cash
<1>1. Replayed(n) /\ Replayed(m)
  BY ReplaysAreSound
<1>2. Touched(n) \subseteq Touched(m)
  <2>1. \A i : i \in 1 .. n => i \in 1 .. m
    BY DEF PosInv
  <2>2. QED
    BY <2>1 DEF Touched
<1>3. QED
  BY <1>1, <1>2 DEF Replayed

-----------------------------------------------------------------------------
LEMMA BatchShape ==
    ASSUME PosInv, NEW at \in 0 .. Len(stream), floor <= at
    PROVE  /\ Batch(at) = <<>> => at = Len(stream)
           /\ Batch(at) # <<>> =>
                \E k \in Nat \ {0} : /\ at + k <= Len(stream) /\ Last(Batch(at)) = at + k
                                     /\ DOMAIN Batch(at) = 1 .. k
                                     /\ \A i \in 1 .. k : Batch(at)[i] = at + i
<1>1. at \in Nat /\ floor \in Nat /\ Len(stream) \in Nat
  BY DEF PosInv
<1>2. PICK from : from = Max({at, floor})
  OBVIOUS
<1>3. from = at
  <2>1. at \in Int /\ floor \in Int
    BY <1>1
  <2>2. from \in {at, floor} /\ from >= at
    BY <1>2, <2>1, MaxOfTwo
  <2>3. QED
    BY <1>1, <2>2
<1>4. PICK k : k = Min({BatchSize, Len(stream) - from})
  OBVIOUS
<1>5. Batch(at) = [i \in 1 .. k |-> at + i]
  BY <1>2, <1>3, <1>4 DEF Batch
<1>6. k \in Int /\ k <= Len(stream) - at /\ (k = Len(stream) - at \/ k >= 1)
  <2>1. BatchSize \in Int /\ Len(stream) - from \in Int /\ BatchSize >= 1
    BY <1>1, <1>3, BatchSizePos
  <2>2. k \in {BatchSize, Len(stream) - from} /\ k <= Len(stream) - from
    BY <1>4, <2>1, MinOfTwo
  <2>3. QED
    BY <1>3, <2>1, <2>2
<1>7. CASE k >= 1
  <2>1. DOMAIN Batch(at) = 1 .. k /\ \A i \in 1 .. k : Batch(at)[i] = at + i
    BY <1>5
  <2>2. Batch(at) # <<>> /\ k \in Nat \ {0}
    <3>1. 1 \in DOMAIN Batch(at)
      BY <1>6, <1>7, <2>1
    <3>2. QED
      BY <1>6, <1>7, <3>1
  <2>3. Last(Batch(at)) = at + k
    <3>1. Batch(at) \in [1 .. k -> Nat]
      BY <1>1, <1>5, <1>6
    <3>2. Batch(at) \in Seq(Nat) /\ Len(Batch(at)) = k
      BY <2>2, <3>1
    <3>3. QED
      BY <2>1, <2>2, <3>2 DEF Last
  <2>4. at + k <= Len(stream)
    BY <1>1, <1>6
  <2>5. QED
    BY <2>1, <2>2, <2>3, <2>4
<1>8. CASE ~(k >= 1)
  <2>1. k = 0 /\ at = Len(stream)
    BY <1>1, <1>6, <1>8
  <2>2. Batch(at) = <<>>
    BY <1>5, <2>1
  <2>3. QED
    BY <2>1, <2>2
<1>9. QED
  BY <1>7, <1>8

\* What a batch makes of a replay, and of the dirty sets.
Advances(at, to, records) ==
    /\ to \in 0 .. Len(stream) /\ at <= to
    /\ FoldLeft(Post, Replay(at), records) = Replay(to)
    /\ Covers(Replay(at), Replay(to), FoldLeft(MarkDirty, Clean, records))

LEMMA BatchReplays ==
    ASSUME PosInv, HistoryInv, NEW at \in 0 .. Len(stream), floor <= at, Batch(at) # <<>>
    PROVE  Advances(at, Last(Batch(at)), [i \in DOMAIN Batch(at) |-> stream[Batch(at)[i]]])
<1>1. PICK k \in Nat \ {0} : /\ at + k <= Len(stream) /\ Last(Batch(at)) = at + k
                             /\ DOMAIN Batch(at) = 1 .. k
                             /\ \A i \in 1 .. k : Batch(at)[i] = at + i
  BY BatchShape
<1>2. PICK records : records = [i \in DOMAIN Batch(at) |-> stream[Batch(at)[i]]]
  OBVIOUS
<1>3. DOMAIN records = 1 .. k /\ \A i \in 1 .. k : records[i] = stream[at + i]
  BY <1>1, <1>2
<1>4. at \in Nat /\ k \in Nat /\ Len(stream) \in Nat
  BY DEF PosInv
<1>5. PICK v : /\ v[0] = Replay(at) /\ v[k] = Posting!Folded(Replay(at), records)
               /\ \A j \in 0 .. k - 1 : v[j + 1] = Post(v[j], records[j + 1])
  <2>1. PICK b : b = Replay(at)
    OBVIOUS
  <2>2. \E v : /\ v[0] = b /\ v[k] = Posting!Folded(b, records)
              /\ \A j \in 0 .. k - 1 : v[j + 1] = Post(v[j], records[j + 1])
    BY <1>3, <1>4, Posting!FoldedRun
  <2>3. QED
    BY <2>1, <2>2
<1>6. PICK w : /\ w[0] = Clean /\ w[k] = Marking!Folded(Clean, records)
               /\ \A j \in 0 .. k - 1 : w[j + 1] = MarkDirty(w[j], records[j + 1])
  BY <1>3, <1>4, Marking!FoldedRun
<1> DEFINE P == {j \in 0 .. k : /\ v[j] = Replay(at + j) /\ Covers(Replay(at), Replay(at + j), w[j])
                                /\ DOMAIN w[j] = {"accounts", "positions", "orders"}}
<1>7. 0 \in P
  <2>1. at + 0 = at /\ 0 \in 0 .. k
    BY <1>4
  <2>2. Covers(Replay(at), Replay(at), Clean) /\ DOMAIN Clean = {"accounts", "positions", "orders"}
    BY DEF Covers, Clean, SameBut
  <2>3. QED
    BY <1>5, <1>6, <2>1, <2>2
<1>8. ASSUME NEW j \in 0 .. k - 1, j \in P
      PROVE  j + 1 \in P
  <2>1. PICK n : n = at + j
    OBVIOUS
  <2>2. /\ n \in 0 .. Len(stream) - 1 /\ n \in 0 .. Len(stream) /\ at + (j + 1) = n + 1
        /\ j + 1 \in 1 .. k /\ j + 1 \in 0 .. k /\ at + (j + 1) = (at + j) + 1
    BY <1>1, <1>4, <2>1
  <2>3. records[j + 1] = stream[n + 1]
    BY <1>3, <2>2
  <2>4. v[j + 1] = Replay(n + 1)
    <3>1. v[j + 1] = Post(Replay(n), stream[n + 1])
      BY <1>5, <1>8, <2>1, <2>3
    <3>2. QED
      BY <2>2, <3>1, ReplaySteps
  <2>5. PICK l, m, e, d : l = Replay(n) /\ m = Replay(n + 1) /\ e = stream[n + 1] /\ d = w[j]
    OBVIOUS
  <2>6. Applied(l, m, e, Accepted)
    <3>1. Replayed(n)
      BY <2>2, ReplaysAreSound
    <3>2. Sound(Replay(n), Accepted) /\ DOMAIN Replay(n).cash = Touched(n)
      BY <3>1 DEF Replayed
    <3>3. QED
      BY <2>2, <2>5, <3>2, ReplayApplies
  <2>7. Covers(Replay(at), l, d) /\ DOMAIN d = {"accounts", "positions", "orders"}
    BY <1>8, <2>1, <2>5
  <2>8. /\ Covers(Replay(at), m, MarkDirty(d, e))
        /\ DOMAIN MarkDirty(d, e) = {"accounts", "positions", "orders"}
    <3>1. PICK old : old = Replay(at)
      OBVIOUS
    <3>2. QED
      BY <2>6, <2>7, <3>1, CoversMore
  <2>9. w[j + 1] = MarkDirty(d, e)
    BY <1>6, <2>3, <2>5
  <2>10. QED
    BY <2>2, <2>4, <2>5, <2>8, <2>9
<1>9. 0 .. k \subseteq P
  <2> HIDE DEF P
  <2>1. QED
    BY <1>4, <1>7, <1>8, Posting!UpTo
<1>10. v[k] = Replay(at + k) /\ Covers(Replay(at), Replay(at + k), w[k])
  BY <1>4, <1>9
<1>11. /\ FoldLeft(Post, Replay(at), records) = Posting!Folded(Replay(at), records)
       /\ FoldLeft(MarkDirty, Clean, records) = Marking!Folded(Clean, records)
  BY FoldIsPosted, FoldIsMarked
<1>12. at + k \in 0 .. Len(stream) /\ at <= at + k
  BY <1>1, <1>4
<1>13. Advances(at, at + k, records)
  BY <1>5, <1>6, <1>10, <1>11, <1>12 DEF Advances
<1>14. QED
  BY <1>1, <1>2, <1>13
-----------------------------------------------------------------------------
(***************************************************************************)
(* The read model.  What PostgreSQL holds is the projection of a replay    *)
(* that lies between the checkpoint and the end of the stream; while the   *)
(* process runs past its recovery it lies behind the process too, and when *)
(* no full flush is owed the dirty sets cover what is between the two.     *)
(***************************************************************************)
IsReplay(l, at) == \E n \in 0 .. Len(stream) : n = at /\ l = Replay(n)

Shown(n) ==
    /\ db = Projection(Replay(n))
    /\ lpc \in {"rebuilding", "booting", "polling", "flushing", "saving"} => n <= lastSeq
    /\ lpc = "flushing" /\ ~owed => Covers(Replay(n), ledger, dirty)

SavedInv == Saved("ledger") => IsReplay(marks["ledger"].state, StartOf("ledger"))
ReadInv == IsReplay(ledger, lastSeq)
ShownInv == \E n \in 0 .. Len(stream) : StartOf("ledger") <= n /\ Shown(n)
IdleInv ==
    /\ lpc \in {"replaying", "rebuilding", "booting", "saving"} => ~owed
    /\ lpc \in {"booting", "polling", "saving"} => dirty = Clean /\ (owed \/ db = Projection(ledger))

CopiesInv == SavedInv /\ ReadInv /\ ShownInv /\ IdleInv

\* What lies behind is not changed by what is appended.
LEMMA ReplaysStay ==
    ASSUME PosInv, Len(stream') \in Nat, Len(stream) <= Len(stream'),
           \A n \in 0 .. Len(stream) : SubSeq(stream', 1, n) = SubSeq(stream, 1, n)
    PROVE  \A n \in 0 .. Len(stream) : n \in 0 .. Len(stream') /\ Replay(n)' = Replay(n)
<1> SUFFICES ASSUME NEW n \in 0 .. Len(stream)
             PROVE  n \in 0 .. Len(stream') /\ Replay(n)' = Replay(n)
  OBVIOUS
<1>1. n \in 0 .. Len(stream')
  BY DEF PosInv
<1>2. Replay(n)' = Replay(n)
  BY DEF Replay
<1>3. QED
  BY <1>1, <1>2

LEMMA CopiesInit == Init => HistoryInv /\ CopiesInv
<1> SUFFICES ASSUME Init PROVE HistoryInv /\ CopiesInv
  OBVIOUS
<1>1. /\ coming \in Histories /\ stream = <<>> /\ marks = <<>>
      /\ lpc = "down" /\ ledger = NewLedger /\ lastSeq = 0 /\ db = EmptyTables /\ owed = FALSE
  BY DEF Init, OutboundInit, LedgerInit
<1>2. PosInv
  BY InvInit DEF IInv
<1>3. HistoryInv
  <2>1. coming \in Seq(Seq(Appended))
    BY <1>1, HistoriesAreBatches
  <2>2. /\ DOMAIN Told = 1 .. Len(coming) + 1 /\ Told[1] = <<>>
        /\ \A i \in 1 .. Len(coming) : Told[i + 1] = coming[i]
    BY <1>1, <2>1 DEF Told
  <2>3. \A i \in DOMAIN Told : Told[i] # <<>> => i - 1 \in DOMAIN coming /\ Told[i] = coming[i - 1]
    <3> SUFFICES ASSUME NEW i \in DOMAIN Told, i # 1
                 PROVE  i - 1 \in DOMAIN coming /\ Told[i] = coming[i - 1]
      BY <2>2
    <3>1. i - 1 \in 1 .. Len(coming) /\ (i - 1) + 1 = i
      BY <2>1, <2>2
    <3>2. QED
      BY <2>1, <2>2, <3>1
  <2>4. \A i \in DOMAIN Told : i \in Int /\ (Told[i] = <<>> => DOMAIN Told[i] = {})
    BY <2>1, <2>2
  <2>5. OneOrderPerId(coming) /\ AccountsComeFirst(coming)
    BY <1>1, HistoriesAreMatched
  <2>6. OneOrderPerId(Told)
    BY <2>3, <2>4, <2>5 DEF OneOrderPerId
  <2>7. AccountsComeFirst(Told)
    <3> SUFFICES ASSUME NEW i \in DOMAIN Told, NEW j \in DOMAIN Told,
                        NEW m \in DOMAIN Told[i], NEW n \in DOMAIN Told[j],
                        Told[j][n].kind = "AccountCreated", i < j \/ (i = j /\ m < n)
                 PROVE  Told[j][n].user \notin MarkDirty(Clean, Told[i][m]).accounts
      BY DEF AccountsComeFirst
    <3>1. /\ i - 1 \in DOMAIN coming /\ Told[i] = coming[i - 1]
          /\ j - 1 \in DOMAIN coming /\ Told[j] = coming[j - 1]
      BY <2>3, <2>4
    <3>2. i - 1 < j - 1 \/ (i - 1 = j - 1 /\ m < n)
      BY <2>4
    <3>3. QED
      BY <2>5, <3>1, <3>2 DEF AccountsComeFirst
  <2>8. QED
    BY <2>6, <2>7 DEF HistoryInv
<1>4. Len(stream) = 0 /\ 0 \in 0 .. Len(stream) /\ Replay(0) = NewLedger
  BY <1>1, <1>2, ReplaySteps
<1>5. StartOf("ledger") = 0 /\ ~Saved("ledger")
  BY <1>1 DEF StartOf, Saved
<1>6. Projection(NewLedger) = EmptyTables
  BY DEF Projection, NewLedger, NonZero, Restrict, EmptyTables
<1>7. SavedInv /\ ReadInv /\ IdleInv
  BY <1>1, <1>4, <1>5 DEF SavedInv, ReadInv, IsReplay, IdleInv
<1>8. ShownInv
  BY <1>1, <1>4, <1>5, <1>6 DEF ShownInv, Shown
<1>9. QED
  BY <1>3, <1>7, <1>8 DEF CopiesInv
-----------------------------------------------------------------------------
LEMMA CopiesPublish ==
    ASSUME IInv, HistoryInv, CopiesInv, Publish, UNCHANGED ledgerVars
    PROVE  HistoryInv' /\ CopiesInv'
<1>1. PosInv /\ PosInv'
  BY InvPublish DEF IInv
<1>2. /\ coming # <<>> /\ stream' = stream \o Head(coming) /\ coming' = Tail(coming)
      /\ UNCHANGED <<marks, lpc, ledger, lastSeq, dirty, owed, db>>
  BY DEF Publish, ledgerVars
<1>3. PICK head \in Seq(Appended) : head = Head(coming)
  <2> DEFINE Batches == Seq(Appended)
  <2>1. coming \in Seq(Batches)
    BY <1>1 DEF PosInv
  <2>2. Head(coming) \in Batches
    <3> HIDE DEF Batches
    <3>1. QED
      BY <1>2, <2>1
  <2>3. QED
    BY <2>2
<1>4. /\ stream \in Seq(Appended) /\ stream' = stream \o head
      /\ Len(stream) \in Nat /\ Len(stream') \in Nat /\ Len(stream) <= Len(stream')
      /\ \A i \in 1 .. Len(stream) : stream'[i] = stream[i]
  BY <1>1, <1>2, <1>3 DEF PosInv
<1>5. \A n \in 0 .. Len(stream) : SubSeq(stream', 1, n) = SubSeq(stream, 1, n)
  <2> SUFFICES ASSUME NEW n \in 0 .. Len(stream)
               PROVE  SubSeq(stream', 1, n) = SubSeq(stream, 1, n)
    OBVIOUS
  <2>1. \A i \in 1 .. n : stream'[i] = stream[i]
    BY <1>4
  <2>2. /\ SubSeq(stream, 1, n) = [i \in 1 .. n |-> stream[i]]
        /\ SubSeq(stream', 1, n) = [i \in 1 .. n |-> stream'[i]]
    BY <1>4
  <2>3. QED
    BY <2>1, <2>2
<1>6. \A n \in 0 .. Len(stream) : n \in 0 .. Len(stream') /\ Replay(n)' = Replay(n)
  BY <1>1, <1>4, <1>5, ReplaysStay
<1>7. UNCHANGED <<Saved("ledger"), StartOf("ledger")>>
  BY <1>2 DEF Saved, StartOf
<1>8. SavedInv' /\ ReadInv'
  BY <1>2, <1>6, <1>7 DEF CopiesInv, SavedInv, ReadInv, IsReplay, Saved
<1>9. ShownInv'
  <2>1. PICK n \in 0 .. Len(stream) : StartOf("ledger") <= n /\ Shown(n)
    BY DEF CopiesInv, ShownInv
  <2>2. Shown(n)'
    BY <1>2, <1>6, <2>1 DEF Shown
  <2>3. QED
    BY <1>6, <1>7, <2>1, <2>2 DEF ShownInv
<1>10. IdleInv'
  BY <1>2 DEF CopiesInv, IdleInv
<1>11. HistoryInv'
  <2>1. /\ coming \in Seq(Seq(Appended)) /\ Len(coming) \in Nat /\ Len(coming) >= 1
        /\ DOMAIN Told = 1 .. Len(coming) + 1
        /\ Told[1] = stream /\ \A i \in 1 .. Len(coming) : Told[i + 1] = coming[i]
    BY <1>1, <1>2 DEF Told, PosInv
  <2>2. Told[2] = head
    <3>1. Told[1 + 1] = coming[1] /\ coming[1] = Head(coming)
      BY <2>1
    <3>2. QED
      BY <1>3, <3>1
  <2>3. /\ DOMAIN Told' = 1 .. Len(coming) /\ Told'[1] = stream'
        /\ \A i \in 2 .. Len(coming) : Told'[i] = Told[i + 1]
    <3>1. PICK rest : rest = Tail(coming)
      OBVIOUS
    <3>2. rest \in Seq(Seq(Appended)) /\ Len(rest) = Len(coming) - 1
          /\ \A i \in 1 .. Len(coming) - 1 : rest[i] = coming[i + 1]
      BY <1>2, <2>1, <3>1
    <3>3. Told' = <<stream'>> \o rest
      BY <1>2, <3>1 DEF Told
    <3>4. DOMAIN Told' = 1 .. Len(coming) /\ Told'[1] = stream'
          /\ \A i \in 1 .. Len(coming) - 1 : Told'[i + 1] = coming[i + 1]
      BY <2>1, <3>2, <3>3
    <3>5. ASSUME NEW i \in 2 .. Len(coming)
          PROVE  Told'[i] = Told[i + 1]
      <4>1. i - 1 \in 1 .. Len(coming) - 1 /\ (i - 1) + 1 = i /\ i \in 1 .. Len(coming)
        BY <2>1
      <4>2. Told'[i] = coming[i]
        BY <3>4, <4>1
      <4>3. QED
        BY <2>1, <4>1, <4>2
    <3>6. QED
      BY <3>4, <3>5
  \* Where each record was in the history before.
  <2> DEFINE Was(i, m, k, l) ==
               /\ Told'[i][m] = Told[k][l]
               /\ \/ i = 1 /\ k = 1 /\ l = m /\ m \in 1 .. Len(stream)
                  \/ i = 1 /\ k = 2 /\ l \in Nat /\ l >= 1 /\ m = Len(stream) + l
                  \/ i > 1 /\ k = i + 1 /\ l = m
  <2>4. \A i \in DOMAIN Told' : \A m \in DOMAIN Told'[i] :
          \E k \in DOMAIN Told : \E l \in DOMAIN Told[k] : Was(i, m, k, l)
    <3> SUFFICES ASSUME NEW i \in DOMAIN Told', NEW m \in DOMAIN Told'[i]
                 PROVE  \E k \in DOMAIN Told : \E l \in DOMAIN Told[k] : Was(i, m, k, l)
      OBVIOUS
    <3>1. CASE i = 1
      <4>1. m \in 1 .. Len(stream) + Len(head) /\ Told'[i] = stream \o head /\ Len(head) \in Nat
        BY <1>3, <1>4, <2>3, <3>1
      <4>2. CASE m \in 1 .. Len(stream)
        <5>1. Told'[i][m] = Told[1][m] /\ m \in DOMAIN Told[1] /\ 1 \in DOMAIN Told
          BY <1>4, <2>1, <4>1, <4>2
        <5>2. QED
          BY <3>1, <4>2, <5>1
      <4>3. CASE m \notin 1 .. Len(stream)
        <5>1. PICK l \in 1 .. Len(head) : l = m - Len(stream)
          BY <1>4, <4>1, <4>3
        <5>2. Told'[i][m] = head[l]
          BY <1>3, <1>4, <4>1, <4>3, <5>1
        <5>3. 2 \in DOMAIN Told /\ l \in DOMAIN Told[2] /\ Told[2][l] = head[l]
          BY <1>3, <2>1, <2>2, <5>1
        <5>4. l \in Nat /\ l >= 1 /\ m = Len(stream) + l
          BY <1>4, <4>1, <5>1
        <5>5. QED
          BY <3>1, <5>2, <5>3, <5>4
      <4>4. QED
        BY <4>2, <4>3
    <3>2. CASE i # 1
      <4>1. i \in 2 .. Len(coming) /\ i + 1 \in DOMAIN Told /\ i > 1
        BY <2>1, <2>3, <3>2
      <4>2. Told'[i] = Told[i + 1]
        BY <2>3, <4>1
      <4>3. QED
        BY <4>1, <4>2
    <3>3. QED
      BY <3>1, <3>2
  <2>5. OneOrderPerId(Told)'
    BY <2>4 DEF HistoryInv, OneOrderPerId
  <2>6. AccountsComeFirst(Told)'
    <3> SUFFICES ASSUME NEW i \in DOMAIN Told', NEW j \in DOMAIN Told',
                        NEW m \in DOMAIN Told'[i], NEW n \in DOMAIN Told'[j],
                        Told'[j][n].kind = "AccountCreated", i < j \/ (i = j /\ m < n)
                 PROVE  Told'[j][n].user \notin MarkDirty(Clean, Told'[i][m]).accounts
      BY DEF AccountsComeFirst
    <3>1. PICK k \in DOMAIN Told : \E l \in DOMAIN Told[k] : Was(i, m, k, l)
      BY <2>4
    <3>2. PICK l \in DOMAIN Told[k] : Was(i, m, k, l)
      BY <3>1
    <3>3. PICK p \in DOMAIN Told : \E q \in DOMAIN Told[p] : Was(j, n, p, q)
      BY <2>4
    <3>4. PICK q \in DOMAIN Told[p] : Was(j, n, p, q)
      BY <3>3
    <3>5. i \in Nat /\ j \in Nat
      BY <2>1, <2>3
    <3>6. k < p \/ (k = p /\ l < q)
      BY <1>4, <3>2, <3>4, <3>5
    <3>7. QED
      BY <3>2, <3>4, <3>6 DEF HistoryInv, AccountsComeFirst
  <2>7. QED
    BY <2>5, <2>6 DEF HistoryInv
<1>12. QED
  BY <1>8, <1>9, <1>10, <1>11 DEF CopiesInv
-----------------------------------------------------------------------------
\* What the ledger's process knows of itself.
LEMMA LedgerIsBetween ==
    ASSUME IInv, HistoryInv, CopiesInv
    PROVE  /\ lastSeq \in 0 .. Len(stream) /\ ledger = Replay(lastSeq)
           /\ StartOf("ledger") \in Nat
           /\ lpc # "down" => StartOf("ledger") <= lastSeq /\ floor <= lastSeq
           /\ lpc # "refused"
           /\ \A n \in 0 .. Len(stream) : Sound(Replay(n), Accepted)
<1>1. PosInv
  BY DEF IInv
<1>2. lastSeq \in 0 .. Len(stream) /\ ledger = Replay(lastSeq)
  BY DEF CopiesInv, ReadInv, IsReplay
<1>3. \A n \in 0 .. Len(stream) : Sound(Replay(n), Accepted)
  BY <1>1, ReplaysAreSound DEF Replayed
<1>4. StartOf("ledger") \in Nat
  BY <1>1 DEF StartOf, Saved, PosInv
<1>5. lpc # "refused" /\ (lpc # "down" => StartOf("ledger") <= lastSeq /\ floor <= lastSeq)
  BY <1>1, <1>4 DEF IInv, MarkInv, LedgerCanAlwaysResume, PosInv
<1>6. QED
  BY <1>2, <1>3, <1>4, <1>5

\* Whatever is flushed, in full or not, is the projection of the ledger.
LEMMA FlushProjects ==
    ASSUME IInv, HistoryInv, CopiesInv, lpc \in {"rebuilding", "flushing"}
    PROVE  /\ FlushAll(db, ledger) = Projection(ledger)
           /\ lpc = "flushing" => Flushed = Projection(ledger)
<1>1. PICK n \in 0 .. Len(stream) : StartOf("ledger") <= n /\ Shown(n)
  BY DEF CopiesInv, ShownInv
<1>2. PICK old, l : old = Replay(n) /\ l = ledger
  OBVIOUS
<1>3. /\ PosInv /\ lastSeq \in 0 .. Len(stream) /\ ledger = Replay(lastSeq)
      /\ \A k \in 0 .. Len(stream) : Sound(Replay(k), Accepted)
  BY LedgerIsBetween DEF IInv
<1>4. Sound(old, Accepted) /\ Sound(l, Accepted)
  BY <1>2, <1>3
<1>5. db = Projection(old) /\ n <= lastSeq /\ (lpc = "flushing" /\ ~owed => Covers(old, l, dirty))
  BY <1>1, <1>2 DEF Shown
<1>6. DOMAIN old.cash \subseteq DOMAIN l.cash
  <2>1. DOMAIN Replay(n).cash \subseteq DOMAIN Replay(lastSeq).cash
    BY <1>3, <1>5, CashGrows
  <2>2. QED
    BY <1>2, <1>3, <2>1
<1>7. FlushAll(Projection(old), l) = Projection(l)
  BY <1>4, <1>6, FlushAllProjects
<1>8. ASSUME lpc = "flushing", ~owed
      PROVE  FlushDirty(Projection(old), l, dirty) = Projection(l)
  <2>1. PICK d : d = dirty
    OBVIOUS
  <2>2. Covers(old, l, d)
    BY <1>5, <1>8, <2>1
  <2>3. FlushDirty(Projection(old), l, d) = Projection(l)
    BY <1>4, <2>2, FlushDirtyProjects
  <2>4. QED
    BY <2>1, <2>3
<1>9. QED
  BY <1>2, <1>5, <1>7, <1>8 DEF Flushed

\* A step that leaves the stream.
LEMMA SameReplays ==
    ASSUME UNCHANGED stream
    PROVE  \A n : Replay(n)' = Replay(n)
  BY DEF Replay

\* A step of the ledger's process after which the read model is the ledger's.
LEMMA CopiesFlushed ==
    ASSUME IInv, HistoryInv, CopiesInv, lpc # "down",
           UNCHANGED <<stream, ledger, lastSeq, marks>>, db' = Projection(ledger),
           lpc' # "flushing", dirty' = Clean,
           lpc' \in {"replaying", "rebuilding", "booting", "saving"} => ~owed'
    PROVE  CopiesInv'
<1>1. /\ lastSeq \in 0 .. Len(stream) /\ ledger = Replay(lastSeq)
      /\ StartOf("ledger") \in Nat /\ StartOf("ledger") <= lastSeq
  BY LedgerIsBetween
<1>2. \A n : Replay(n)' = Replay(n)
  BY SameReplays
<1>3. UNCHANGED <<Saved("ledger"), StartOf("ledger")>>
  BY DEF Saved, StartOf
<1>4. SavedInv' /\ ReadInv'
  BY <1>2, <1>3 DEF CopiesInv, SavedInv, ReadInv, IsReplay, Saved
<1>5. ShownInv'
  <2>1. PICK n \in 0 .. Len(stream) : n = lastSeq
    BY <1>1
  <2>2. Shown(n)'
    BY <1>1, <1>2, <2>1 DEF Shown
  <2>3. QED
    BY <1>1, <1>3, <2>1, <2>2 DEF ShownInv
<1>6. IdleInv'
  BY DEF IdleInv
<1>7. QED
  BY <1>4, <1>5, <1>6 DEF CopiesInv

\* A checkpoint is saved when the read model is the ledger's, and has been asked for
\* or is on its way when the process dies.
LEMMA CopiesSaved ==
    ASSUME IInv, HistoryInv, CopiesInv, lpc \in {"booting", "saving"}, UNCHANGED <<stream, db>>,
           UNCHANGED marks \/ Save("ledger", lastSeq, ledger),
           \/ UNCHANGED <<ledger, lastSeq, dirty>> /\ lpc' = "polling"
           \/ ledger' = NewLedger /\ lastSeq' = 0 /\ lpc' = "down"
    PROVE  CopiesInv'
<1>1. /\ PosInv /\ lastSeq \in 0 .. Len(stream) /\ ledger = Replay(lastSeq)
      /\ StartOf("ledger") \in Nat /\ StartOf("ledger") <= lastSeq
  BY LedgerIsBetween DEF IInv
<1>2. /\ \A n : Replay(n)' = Replay(n)
      /\ Replay(0) = NewLedger /\ 0 \in 0 .. Len(stream)
  BY <1>1, SameReplays, ReplaySteps
<1>3. db = Projection(ledger) /\ dirty = Clean
  BY DEF CopiesInv, IdleInv
<1>4. /\ SavedInv' /\ StartOf("ledger")' \in {StartOf("ledger"), lastSeq}
  <2>1. CASE UNCHANGED marks
    BY <1>2, <2>1 DEF CopiesInv, SavedInv, IsReplay, Saved, StartOf
  <2>2. CASE Save("ledger", lastSeq, ledger)
    <3>1. Saved("ledger")' /\ marks'["ledger"] = [pos |-> lastSeq, state |-> ledger]
      BY <2>2 DEF Save, Saved
    <3>2. StartOf("ledger")' = lastSeq /\ marks'["ledger"].state = ledger
      BY <3>1 DEF StartOf
    <3>3. \E n \in 0 .. Len(stream') : n = StartOf("ledger")' /\ marks'["ledger"].state = Replay(n)'
      BY <1>1, <1>2, <3>2
    <3>4. QED
      BY <3>2, <3>3 DEF SavedInv, IsReplay
  <2>3. QED
    BY <2>1, <2>2
<1>5. ShownInv'
  <2>1. PICK n \in 0 .. Len(stream) : n = lastSeq
    BY <1>1
  <2>2. Shown(n)'
    BY <1>1, <1>2, <1>3, <2>1 DEF Shown
  <2>3. QED
    BY <1>1, <1>4, <2>1, <2>2 DEF ShownInv
<1>6. ReadInv' /\ IdleInv'
  BY <1>1, <1>2, <1>3 DEF ReadInv, IsReplay, IdleInv
<1>7. QED
  BY <1>4, <1>5, <1>6 DEF CopiesInv

\* A batch is applied, by the replay or by the loop.
LEMMA CopiesApplied ==
    ASSUME IInv, HistoryInv, CopiesInv, UNCHANGED <<stream, marks, db, owed>>,
           Batch(lastSeq) # <<>>, ApplyToLedger(Batch(lastSeq)),
           \/ lpc = "replaying" /\ lpc' = "replaying"
           \/ lpc = "polling" /\ lpc' = "flushing"
    PROVE  CopiesInv'
<1>1. /\ PosInv /\ lastSeq \in 0 .. Len(stream) /\ ledger = Replay(lastSeq)
      /\ StartOf("ledger") \in Nat /\ StartOf("ledger") <= lastSeq /\ floor <= lastSeq
  BY LedgerIsBetween DEF IInv
<1>2. \A n : Replay(n)' = Replay(n)
  BY SameReplays
<1>3. UNCHANGED <<Saved("ledger"), StartOf("ledger")>>
  BY DEF Saved, StartOf
<1>4. PICK at, records : /\ at = lastSeq
                         /\ records = [i \in DOMAIN Batch(lastSeq) |-> stream[Batch(lastSeq)[i]]]
  OBVIOUS
<1>5. /\ ledger' = FoldLeft(Post, Replay(at), records)
      /\ dirty' = FoldLeft(MarkDirty, dirty, records)
      /\ lastSeq' = Last(Batch(at))
  BY <1>1, <1>4 DEF ApplyToLedger
<1>6. Advances(at, Last(Batch(at)), records)
  BY <1>1, <1>4, BatchReplays
<1>7. PICK to \in 0 .. Len(stream) : to = Last(Batch(at))
  BY <1>6 DEF Advances
<1>8. /\ lastSeq' = to /\ ledger' = Replay(to) /\ at <= to
      /\ Covers(Replay(at), ledger', FoldLeft(MarkDirty, Clean, records))
  BY <1>5, <1>6, <1>7 DEF Advances
<1>9. SavedInv' /\ ReadInv'
  BY <1>2, <1>3, <1>8 DEF CopiesInv, SavedInv, ReadInv, IsReplay, Saved
<1>10. IdleInv'
  BY DEF CopiesInv, IdleInv
<1>11. ShownInv'
  <2>1. PICK n \in 0 .. Len(stream) : StartOf("ledger") <= n /\ Shown(n)
    BY DEF CopiesInv, ShownInv
  <2>2. CASE lpc = "replaying" /\ lpc' = "replaying"
    <3>1. Shown(n)'
      BY <1>2, <2>1, <2>2 DEF Shown
    <3>2. QED
      BY <1>3, <2>1, <3>1 DEF ShownInv
  <2>3. CASE lpc = "polling" /\ lpc' = "flushing" /\ owed
    <3>1. n <= to
      BY <1>1, <1>4, <1>8, <2>1, <2>3 DEF Shown
    <3>2. Shown(n)'
      BY <1>2, <1>8, <2>1, <2>3, <3>1 DEF Shown
    <3>3. QED
      BY <1>3, <2>1, <3>2 DEF ShownInv
  <2>4. CASE lpc = "polling" /\ lpc' = "flushing" /\ ~owed
    <3>1. PICK m \in 0 .. Len(stream) : m = at
      BY <1>1, <1>4
    <3>2. db = Projection(Replay(m)) /\ dirty = Clean
      BY <1>1, <1>4, <2>4, <3>1 DEF CopiesInv, IdleInv
    <3>3. Covers(Replay(m), ledger', dirty')
      BY <1>5, <1>8, <3>1, <3>2
    <3>4. Shown(m)'
      BY <1>2, <1>8, <2>4, <3>1, <3>2, <3>3 DEF Shown
    <3>5. QED
      BY <1>1, <1>3, <1>4, <3>1, <3>4 DEF ShownInv
  <2>5. QED
    BY <2>2, <2>3, <2>4
<1>12. QED
  BY <1>9, <1>10, <1>11 DEF CopiesInv
\* A step that is not about the ledger, or changes its bookkeeping only.
LEMMA CopiesStay ==
    ASSUME CopiesInv, UNCHANGED <<stream, ledger, lastSeq, db>>,
           UNCHANGED <<Saved("ledger"), StartOf("ledger")>>,
           Saved("ledger") => marks'["ledger"] = marks["ledger"],
           \/ UNCHANGED <<lpc, owed, dirty>>
           \/ lpc' = "polling" /\ dirty' = Clean /\ owed'
              /\ \A n \in 0 .. Len(stream) : Shown(n) => n <= lastSeq
    PROVE  CopiesInv'
<1>1. \A n : Replay(n)' = Replay(n)
  BY SameReplays
<1>2. SavedInv' /\ ReadInv'
  BY <1>1 DEF CopiesInv, SavedInv, ReadInv, IsReplay, Saved
<1>3. ShownInv'
  <2>1. PICK n \in 0 .. Len(stream) : StartOf("ledger") <= n /\ Shown(n)
    BY DEF CopiesInv, ShownInv
  <2>2. Shown(n)'
    BY <1>1, <2>1 DEF Shown
  <2>3. QED
    BY <2>1, <2>2 DEF ShownInv
<1>4. IdleInv'
  BY DEF CopiesInv, IdleInv
<1>5. QED
  BY <1>2, <1>3, <1>4 DEF CopiesInv

LEMMA CopiesLedger ==
    ASSUME IInv, HistoryInv, CopiesInv, LedgerNext
    PROVE  CopiesInv'
<1> USE DEF outboundVars, streamVars, trimVars, ledgerMemory
<1>1. /\ PosInv /\ lastSeq \in 0 .. Len(stream) /\ ledger = Replay(lastSeq)
      /\ StartOf("ledger") \in Nat
      /\ lpc # "down" => StartOf("ledger") <= lastSeq /\ floor <= lastSeq
  BY LedgerIsBetween DEF IInv
<1>2. \A n \in 0 .. Len(stream) :
          Shown(n) /\ lpc \in {"rebuilding", "booting", "polling", "flushing", "saving"} => n <= lastSeq
  BY DEF Shown
<1>3. CASE Recover
  <2>1. /\ Resumable(StartOf("ledger")) /\ lpc = "down" /\ lpc' = "replaying"
        /\ ledger' = IF Saved("ledger") THEN marks["ledger"].state ELSE NewLedger
        /\ lastSeq' = StartOf("ledger") /\ owed' = FALSE /\ UNCHANGED <<db, stream, marks>>
    <3>1. Resumable(StartOf("ledger"))
      BY <1>1 DEF Resumable, IInv, LedgerCanAlwaysResume, PosInv
    <3>2. QED
      BY <1>3, <3>1 DEF Recover
  <2>2. \A n : Replay(n)' = Replay(n)
    BY <2>1, SameReplays
  <2>3. UNCHANGED <<Saved("ledger"), StartOf("ledger")>>
    BY <2>1 DEF Saved, StartOf
  <2>4. SavedInv'
    BY <2>1, <2>2, <2>3 DEF CopiesInv, SavedInv, IsReplay, Saved
  <2>5. ReadInv'
    <3>1. CASE Saved("ledger")
      <4>1. \E n \in 0 .. Len(stream) : n = lastSeq' /\ ledger' = Replay(n)
        BY <2>1, <3>1 DEF CopiesInv, SavedInv, IsReplay
      <4>2. QED
        BY <2>1, <2>2, <4>1 DEF ReadInv, IsReplay
    <3>2. CASE ~Saved("ledger")
      <4>1. lastSeq' = 0 /\ ledger' = Replay(0) /\ 0 \in 0 .. Len(stream)
        BY <1>1, <2>1, <3>2, ReplaySteps DEF StartOf
      <4>2. QED
        BY <2>1, <2>2, <4>1 DEF ReadInv, IsReplay
    <3>3. QED
      BY <3>1, <3>2
  <2>6. ShownInv'
    <3>1. PICK n \in 0 .. Len(stream) : StartOf("ledger") <= n /\ Shown(n)
      BY DEF CopiesInv, ShownInv
    <3>2. Shown(n)'
      BY <2>1, <2>2, <3>1 DEF Shown
    <3>3. QED
      BY <2>1, <2>3, <3>1, <3>2 DEF ShownInv
  <2>7. IdleInv'
    BY <2>1 DEF IdleInv
  <2>8. QED
    BY <2>4, <2>5, <2>6, <2>7 DEF CopiesInv
<1>4. CASE ReplayBatch
  <2>1. lpc = "replaying" /\ UNCHANGED <<owed, db, stream, marks>>
    BY <1>4 DEF ReplayBatch
  <2>2. CASE Batch(lastSeq) # <<>>
    <3>1. ApplyToLedger(Batch(lastSeq)) /\ lpc' = "replaying"
      BY <1>4, <2>1, <2>2 DEF ReplayBatch
    <3>2. QED
      BY <2>1, <2>2, <3>1, CopiesApplied
  <2>3. CASE Batch(lastSeq) = <<>>
    <3>1. lpc' = "rebuilding" /\ UNCHANGED <<ledger, lastSeq, dirty>>
      BY <1>4, <2>3 DEF ReplayBatch
    <3>2. lastSeq = Len(stream)
      <4>1. PICK at \in 0 .. Len(stream) : at = lastSeq
        BY <1>1
      <4>2. Batch(at) = <<>> /\ floor <= at
        BY <1>1, <2>1, <2>3, <4>1
      <4>3. QED
        BY <1>1, <4>1, <4>2, BatchShape
    <3>3. \A n : Replay(n)' = Replay(n)
      BY <2>1, SameReplays
    <3>4. UNCHANGED <<Saved("ledger"), StartOf("ledger")>>
      BY <2>1 DEF Saved, StartOf
    <3>5. SavedInv' /\ ReadInv' /\ IdleInv'
      BY <2>1, <3>1, <3>3, <3>4 DEF CopiesInv, SavedInv, ReadInv, IdleInv, IsReplay, Saved
    <3>6. ShownInv'
      <4>1. PICK n \in 0 .. Len(stream) : StartOf("ledger") <= n /\ Shown(n)
        BY DEF CopiesInv, ShownInv
      <4>2. n <= lastSeq
        BY <1>1, <3>2
      <4>3. Shown(n)'
        BY <2>1, <3>1, <3>3, <4>1, <4>2 DEF Shown
      <4>4. QED
        BY <2>1, <3>4, <4>1, <4>3 DEF ShownInv
    <3>7. QED
      BY <3>5, <3>6 DEF CopiesInv
  <2>4. QED
    BY <2>2, <2>3
<1>5. CASE Rebuild
  <2>1. /\ lpc = "rebuilding" /\ lpc' = "booting" /\ db' = FlushAll(db, ledger) /\ dirty' = Clean
        /\ UNCHANGED <<ledger, lastSeq, owed, stream, marks>>
    BY <1>5 DEF Rebuild
  <2>2. db' = Projection(ledger) /\ ~owed'
    BY <2>1, FlushProjects DEF CopiesInv, IdleInv
  <2>3. QED
    BY <2>1, <2>2, CopiesFlushed
<1>6. CASE SaveLedger
  BY <1>6, CopiesSaved DEF SaveLedger
<1>7. CASE SaveFails
  BY <1>7, CopiesSaved DEF SaveFails
<1>8. CASE Poll
  BY <1>8, CopiesApplied DEF Poll
<1>9. CASE PollFails
  <2>1. /\ lpc = "polling" /\ lpc' = "polling" /\ owed'
        /\ UNCHANGED <<ledger, lastSeq, dirty, db, stream, marks>>
    BY <1>9 DEF PollFails
  <2>2. UNCHANGED <<Saved("ledger"), StartOf("ledger")>> /\ dirty' = Clean
    BY <2>1 DEF Saved, StartOf, CopiesInv, IdleInv
  <2>3. QED
    BY <1>2, <2>1, <2>2, CopiesStay
<1>10. CASE Flush
  <2>1. /\ lpc = "flushing" /\ lpc' \in {"polling", "saving"} /\ db' = Flushed /\ dirty' = Clean
        /\ ~owed' /\ UNCHANGED <<ledger, lastSeq, stream, marks>>
    BY <1>10 DEF Flush
  <2>2. db' = Projection(ledger)
    BY <2>1, FlushProjects
  <2>3. QED
    BY <2>1, <2>2, CopiesFlushed
<1>11. CASE FlushFails
  <2>1. /\ lpc = "flushing" /\ lpc' = "polling" /\ db' \in {db, Flushed} /\ dirty' = Clean
        /\ owed' /\ UNCHANGED <<ledger, lastSeq, stream, marks>>
    BY <1>11 DEF FlushFails
  <2>2. CASE UNCHANGED db
    <3>1. UNCHANGED <<Saved("ledger"), StartOf("ledger")>>
      BY <2>1 DEF Saved, StartOf
    <3>2. QED
      BY <1>2, <2>1, <2>2, <3>1, CopiesStay
  <2>3. CASE db' = Flushed
    <3>1. db' = Projection(ledger)
      BY <2>1, <2>3, FlushProjects
    <3>2. QED
      BY <2>1, <3>1, CopiesFlushed
  <2>4. QED
    BY <2>1, <2>2, <2>3
<1>12. CASE LedgerDies
  <2>1. /\ lpc \notin {"down", "refused"} /\ lpc' = "down"
        /\ ledger' = NewLedger /\ lastSeq' = 0 /\ dirty' = Clean /\ owed' = FALSE
        /\ \/ UNCHANGED db
           \/ lpc = "rebuilding" /\ db' = FlushAll(db, ledger)
           \/ lpc = "flushing" /\ db' = Flushed
        /\ UNCHANGED marks \/ (lpc \in {"booting", "saving"} /\ Save("ledger", lastSeq, ledger))
        /\ UNCHANGED stream
    BY <1>12 DEF LedgerDies
  <2>2. CASE lpc \in {"booting", "saving"}
    BY <2>1, <2>2, CopiesSaved
  <2>3. CASE lpc \notin {"booting", "saving"}
    <3>1. UNCHANGED marks /\ (UNCHANGED db \/ db' = Projection(ledger))
      BY <2>1, <2>3, FlushProjects
    <3>2. \A n : Replay(n)' = Replay(n)
      BY <2>1, SameReplays
    <3>3. UNCHANGED <<Saved("ledger"), StartOf("ledger")>>
      BY <3>1 DEF Saved, StartOf
    <3>4. SavedInv' /\ IdleInv'
      BY <2>1, <3>1, <3>2, <3>3 DEF CopiesInv, SavedInv, IdleInv, IsReplay, Saved
    <3>5. ReadInv'
      <4>1. ledger' = Replay(0) /\ 0 \in 0 .. Len(stream)
        BY <1>1, <2>1, ReplaySteps
      <4>2. QED
        BY <2>1, <3>2, <4>1 DEF ReadInv, IsReplay
    <3>6. ShownInv'
      <4>1. PICK n \in 0 .. Len(stream) : StartOf("ledger") <= n /\ db' = Projection(Replay(n))
        <5>1. CASE UNCHANGED db
          BY <5>1 DEF CopiesInv, ShownInv, Shown
        <5>2. CASE db' = Projection(ledger)
          BY <1>1, <2>1, <5>2
        <5>3. QED
          BY <3>1, <5>1, <5>2
      <4>2. Shown(n)'
        BY <2>1, <3>2, <4>1 DEF Shown
      <4>3. QED
        BY <2>1, <3>3, <4>1, <4>2 DEF ShownInv
    <3>7. QED
      BY <3>4, <3>5, <3>6 DEF CopiesInv
  <2>4. QED
    BY <2>2, <2>3
<1>13. QED
  BY <1>3, <1>4, <1>5, <1>6, <1>7, <1>8, <1>9, <1>10, <1>11, <1>12 DEF LedgerNext, LedgerStep
LEMMA CopiesNext ==
    ASSUME IInv, HistoryInv, CopiesInv, [Next]_vars
    PROVE  HistoryInv' /\ CopiesInv'
<1>1. CASE Publish /\ UNCHANGED ledgerVars
  BY <1>1, CopiesPublish
<1>2. ASSUME UNCHANGED <<coming, stream>>
      PROVE  HistoryInv'
  BY <1>2 DEF HistoryInv, Told, OneOrderPerId, AccountsComeFirst
<1>3. CASE LedgerNext
  <2>1. UNCHANGED <<coming, stream>>
    BY <1>3 DEF LedgerNext, LedgerStep, Recover, ReplayBatch, Rebuild, SaveLedger, Poll, Flush,
                SaveFails, PollFails, FlushFails, LedgerDies, outboundVars, streamVars
  <2>2. QED
    BY <1>2, <1>3, <2>1, CopiesLedger
<1>4. ASSUME UNCHANGED <<coming, stream, lpc, ledger, lastSeq, dirty, owed, db>>,
             UNCHANGED marks \/ Save("archiver", bookmark, <<>>)
      PROVE  HistoryInv' /\ CopiesInv'
  <2>1. /\ Saved("ledger")' <=> Saved("ledger")
        /\ Saved("ledger") => marks'["ledger"] = marks["ledger"]
    BY <1>4 DEF Save, Saved
  <2>2. UNCHANGED <<Saved("ledger"), StartOf("ledger")>>
    BY <2>1 DEF StartOf, Saved
  <2>3. QED
    BY <1>2, <1>4, <2>1, <2>2, CopiesStay
<1>5. CASE (AskReader \/ Trim) /\ UNCHANGED ledgerVars
  BY <1>4, <1>5 DEF AskReader, Trim, streamVars, ledgerVars
<1>6. CASE ArchiverNext /\ UNCHANGED ledgerVars
  <2>1. UNCHANGED <<coming, stream>>
    BY <1>6 DEF ArchiverNext, ArchiverStep, ResumeArchive, PublishPosition, ReadAndArchive, WriteFile,
                WriteBookmark, WriteFails, StopCleanly, ArchiverDies, outboundVars, streamVars
  <2>2. UNCHANGED marks \/ Save("archiver", bookmark, <<>>)
    BY <1>6 DEF ArchiverNext, ArchiverStep, ResumeArchive, PublishPosition, ReadAndArchive, WriteFile,
                WriteBookmark, WriteFails, StopCleanly, ArchiverDies, outboundVars
  <2>3. QED
    BY <1>4, <1>6, <2>1, <2>2 DEF ledgerVars
<1>7. CASE UNCHANGED vars
  BY <1>4, <1>7 DEF vars, outboundVars, streamVars, ledgerVars
<1>8. QED
  BY <1>1, <1>3, <1>5, <1>6, <1>7 DEF Next, OutboundNext

LEMMA CopiesAreReplays ==
    ASSUME IInv, HistoryInv, CopiesInv
    PROVE  ReadModelIsReplay
<1>1. PICK n \in 0 .. Len(stream) : StartOf("ledger") <= n /\ Shown(n)
  BY DEF CopiesInv, ShownInv
<1>2. StartOf("ledger") \in Nat /\ n \in StartOf("ledger") .. Len(stream)
  BY <1>1, LedgerIsBetween
<1>3. \E k \in StartOf("ledger") .. Len(stream) : db = Projection(Replay(k))
  BY <1>1, <1>2 DEF Shown
<1>4. lastSeq \in 0 .. Len(stream) /\ ledger = Replay(lastSeq)
  BY LedgerIsBetween DEF CopiesInv, ReadInv, IsReplay
<1>5. Saved("ledger") => marks["ledger"].state = Replay(StartOf("ledger"))
  BY DEF CopiesInv, SavedInv, IsReplay
<1>6. \A k \in 0 .. Len(stream) : Replays[k + 1] = Replay(k)
  BY ReplaysAreReplay DEF IInv
<1>7. StartOf("ledger") \in 0 .. Len(stream)
  BY <1>1, <1>2 DEF PosInv, IInv
<1>8. \A k \in StartOf("ledger") .. Len(stream) : k \in 0 .. Len(stream)
  BY <1>2
<1>9. PICK replays : replays = Replays
  OBVIOUS
<1>10. /\ ledger = replays[lastSeq + 1]
       /\ Saved("ledger") => marks["ledger"].state = replays[StartOf("ledger") + 1]
       /\ \E k \in StartOf("ledger") .. Len(stream) : db = Projection(replays[k + 1])
  BY <1>3, <1>4, <1>5, <1>6, <1>7, <1>8, <1>9
<1>11. QED
  BY <1>9, <1>10 DEF ReadModelIsReplay, CopiesInv, IdleInv

LEMMA CopiesAreBalanced ==
    ASSUME IInv, HistoryInv, CopiesInv
    PROVE  CashConserved
<1>1. /\ lastSeq \in 0 .. Len(stream) /\ ledger = Replay(lastSeq)
      /\ \A n \in 0 .. Len(stream) : Sound(Replay(n), Accepted)
  BY LedgerIsBetween
<1>2. Balanced(ledger)
  BY <1>1 DEF Sound
<1>3. Saved("ledger") => Balanced(marks["ledger"].state)
  BY <1>1 DEF CopiesInv, SavedInv, IsReplay, Sound
<1>4. PICK n \in 0 .. Len(stream) : Shown(n)
  BY DEF CopiesInv, ShownInv
<1>5. PICK l : l = Replay(n)
  OBVIOUS
<1>6. Sound(l, Accepted) /\ l.deposits = DepositedBy(n)
  BY <1>4, <1>5, ReplaysAreSound DEF Replayed, IInv
<1>7. db.accounts = l.cash /\ db.positions = NonZero(l.positions) /\ db.fees = l.fees
  BY <1>4, <1>5 DEF Shown, Projection
<1>8. Total(db.positions) = 0
  <2>1. Total(NonZero(l.positions)) = Total(l.positions)
    <3>1. PICK f : f = l.positions
      OBVIOUS
    <3>2. Amounts(f)
      BY <1>6, <3>1 DEF Sound
    <3>3. Total(NonZero(f)) = Total(f)
      BY <3>2, TotalOfNonZero
    <3>4. QED
      BY <3>1, <3>3
  <2>2. QED
    BY <1>6, <1>7, <2>1 DEF Sound, Balanced
<1>9. Total(db.accounts) + db.fees = DepositedBy(n)
  BY <1>6, <1>7 DEF Sound, Balanced
<1>10. QED
  BY <1>2, <1>3, <1>4, <1>8, <1>9 DEF CashConserved

-----------------------------------------------------------------------------
FilingTrades == INSTANCE FoldFacts WITH Op <- FileTrade
FilingBars == INSTANCE FoldFacts WITH Op <- FileBar
Barring == INSTANCE FoldFacts WITH Op <- AddToBar
Recording == INSTANCE FoldFacts WITH Op <- ArchiveRecord

IsList(s) == \E S : s \in Seq(S)

LEMMA NoneIsList == IsList(<<>>)
<1>1. <<>> \in Seq({})
  OBVIOUS
<1>2. QED
  BY <1>1 DEF IsList

LEMMA AppendIsList ==
    ASSUME NEW s, IsList(s), NEW x
    PROVE  IsList(Append(s, x))
<1>1. PICK S : s \in Seq(S)
  BY DEF IsList
<1>2. s \in Seq(S \union {x}) /\ x \in S \union {x}
  <2>1. s \in [1 .. Len(s) -> S \union {x}] /\ Len(s) \in Nat
    BY <1>1
  <2>2. QED
    BY <2>1
<1>3. PICK T : s \in Seq(T) /\ x \in T
  BY <1>2
<1>4. Append(s, x) \in Seq(T)
  BY <1>3
<1>5. QED
  BY <1>4 DEF IsList

LEMMA ListDomain ==
    ASSUME NEW s, IsList(s)
    PROVE  \E n \in Nat : DOMAIN s = 1 .. n
<1>1. PICK S : s \in Seq(S)
  BY DEF IsList
<1>2. Len(s) \in Nat /\ DOMAIN s = 1 .. Len(s)
  BY <1>1
<1>3. QED
  BY <1>2

LEMMA ListOfSet ==
    ASSUME NEW S, IsFiniteSet(S)
    PROVE  \E n \in Nat : DOMAIN SetToSeq(S) = 1 .. n
<1>1. Cardinality(S) \in Nat /\ ExistsBijection(1 .. Cardinality(S), S)
  BY FS_CardinalityType
<1>2. \E f \in [1 .. Cardinality(S) -> S] : IsInjective(f)
  BY <1>1 DEF ExistsBijection, Bijection, Injection
<1>3. SetToSeq(S) \in [1 .. Cardinality(S) -> S]
  BY <1>2 DEF SetToSeq
<1>4. QED
  BY <1>1, <1>3

LEMMA MinIsIn ==
    ASSUME NEW S, IsFiniteSet(S), S # {}, \A x \in S : x \in Int
    PROVE  Min(S) \in S
<1> DEFINE P == {T \in SUBSET S : T # {} => \E x \in T : \A y \in T : x <= y}
<1>1. {} \in P
  OBVIOUS
<1>2. ASSUME NEW T \in SUBSET S, NEW x \in S \ T, T \in P
      PROVE  T \union {x} \in P
  <2>1. CASE T = {}
    BY <2>1
  <2>2. CASE T # {}
    <3>1. PICK y \in T : \A z \in T : y <= z
      BY <1>2, <2>2
    <3>2. CASE x <= y
      BY <3>1, <3>2
    <3>3. CASE ~(x <= y)
      BY <3>1, <3>3
    <3>4. QED
      BY <3>2, <3>3
  <2>3. QED
    BY <2>1, <2>2
<1>3. SUBSET S \subseteq P
  <2> HIDE DEF P
  <2>1. Posting!IsFiniteSet(S)
    BY Finite
  <2>2. QED
    BY <1>1, <1>2, <2>1, Posting!FiniteInduction
<1>4. \E x \in S : \A y \in S : x <= y
  BY <1>3
<1>5. QED
  BY <1>4 DEF Min

-----------------------------------------------------------------------------
MarketFields == {"books", "bars", "tape", "closed", "dirty"}

MarketOk(m) ==
    /\ DOMAIN m = MarketFields
    /\ IsFiniteSet(DOMAIN m.bars)
    /\ IsList(m.closed)
    /\ \A sym \in DOMAIN m.tape : IsList(m.tape[sym])

LEMMA NewMarketOk == MarketOk(NewMarket)
<1>1. /\ DOMAIN NewMarket = MarketFields /\ NewMarket.closed = <<>>
      /\ DOMAIN NewMarket.bars = {} /\ DOMAIN NewMarket.tape = {}
  BY DEF NewMarket, MarketFields
<1>2. QED
  BY <1>1, NoneIsList, FS_EmptySet DEF MarketOk

LEMMA AddToBarKeeps ==
    ASSUME NEW m, MarketOk(m), NEW entry, NEW n, n = AddToBar(m, entry)
    PROVE  MarketOk(n) /\ n.tape = m.tape
<1> DEFINE e == entry.trade
           width == entry.width
           key == <<e.sym, width>>
           current == Entry(m.bars, key, <<>>)
<1>1. CASE current = <<>>
  <2>1. n = [m EXCEPT !.bars = Put(m.bars, key, OpenBar(e, width))]
    BY <1>1 DEF AddToBar
  <2>2. DOMAIN n = MarketFields /\ n.closed = m.closed /\ n.tape = m.tape
        /\ DOMAIN n.bars = DOMAIN m.bars \union {key}
    BY <2>1 DEF MarketOk, MarketFields, Put, Upsert
  <2> HIDE DEF key
  <2>3. IsFiniteSet(DOMAIN m.bars \union {key})
    BY FS_AddElement DEF MarketOk
  <2>4. QED
    BY <2>2, <2>3 DEF MarketOk
<1>2. CASE current # <<>> /\ current.start = BucketStart(width, e.ts)
  <2>1. n = [m EXCEPT !.bars[key] = ExtendBar(@, e)]
    BY <1>2 DEF AddToBar
  <2>2. DOMAIN n = MarketFields /\ n.closed = m.closed /\ n.tape = m.tape /\ DOMAIN n.bars = DOMAIN m.bars
    BY <2>1 DEF MarketOk, MarketFields
  <2>3. QED
    BY <2>2 DEF MarketOk
<1>3. CASE current # <<>> /\ current.start # BucketStart(width, e.ts)
  <2>1. n = [m EXCEPT !.bars[key] = OpenBar(e, width), !.closed = Append(@, current)]
    BY <1>3 DEF AddToBar
  <2>2. DOMAIN n = MarketFields /\ n.closed = Append(m.closed, current) /\ n.tape = m.tape
        /\ DOMAIN n.bars = DOMAIN m.bars
    BY <2>1 DEF MarketOk, MarketFields
  <2> HIDE DEF current
  <2>3. IsList(Append(m.closed, current))
    BY AppendIsList DEF MarketOk
  <2>4. QED
    BY <2>2, <2>3 DEF MarketOk
<1>4. QED
  BY <1>1, <1>2, <1>3

LEMMA AddToBarsKeeps ==
    ASSUME NEW m, MarketOk(m), NEW e, NEW n, n = AddToBars(m, e)
    PROVE  MarketOk(n) /\ n.tape = m.tape
<1>1. PICK s : s = [i \in DOMAIN BarWidths |-> [trade |-> e, width |-> BarWidths[i]]]
  OBVIOUS
<1>2. PICK k \in Nat : DOMAIN s = 1 .. k
  BY <1>1, WidthsAreSeconds
<1>3. n = Barring!Folded(m, s)
  BY <1>1 DEF AddToBars, FoldLeft, MapThenFoldSet, Barring!Folded, Barring!Folds, Barring!Max, Max
<1>4. PICK v : /\ v[0] = m /\ v[k] = Barring!Folded(m, s)
               /\ \A j \in 0 .. k - 1 : v[j + 1] = AddToBar(v[j], s[j + 1])
  BY <1>2, Barring!FoldedRun
<1> DEFINE P == {j \in 0 .. k : MarketOk(v[j]) /\ v[j].tape = m.tape}
<1>5. 0 \in P
  BY <1>4
<1>6. ASSUME NEW j \in 0 .. k - 1, j \in P
      PROVE  j + 1 \in P
  <2>1. PICK a, b, x : a = v[j] /\ b = v[j + 1] /\ x = s[j + 1]
    OBVIOUS
  <2>2. MarketOk(a) /\ b = AddToBar(a, x) /\ a.tape = m.tape
    BY <1>4, <1>6, <2>1
  <2>3. MarketOk(b) /\ b.tape = a.tape
    BY <2>2, AddToBarKeeps
  <2>4. j + 1 \in 0 .. k
    OBVIOUS
  <2>5. QED
    BY <2>1, <2>2, <2>3, <2>4
<1>7. 0 .. k \subseteq P
  <2> HIDE DEF P
  <2>1. QED
    BY <1>2, <1>5, <1>6, Posting!UpTo
<1>8. k \in 0 .. k
  OBVIOUS
<1>9. QED
  BY <1>3, <1>4, <1>7, <1>8

LEMMA SetBookKeeps ==
    ASSUME NEW m, MarketOk(m), NEW sym, NEW book, NEW n, n = SetBook(m, sym, book)
    PROVE  MarketOk(n) /\ n.tape = m.tape
<1>1. DOMAIN n = MarketFields /\ n.closed = m.closed /\ n.tape = m.tape /\ n.bars = m.bars
  BY DEF SetBook, MarketOk, MarketFields
<1>2. QED
  BY <1>1 DEF MarketOk

LEMMA OnTapeKeeps ==
    ASSUME NEW m, MarketOk(m), NEW trade, NEW n, n = OnTape(m, trade)
    PROVE  MarketOk(n) /\ trade.sym \in DOMAIN n.tape
<1>1. PICK t : t = Append(Entry(m.tape, trade.sym, <<>>), trade)
  OBVIOUS
<1>2. /\ DOMAIN n = MarketFields /\ n.closed = m.closed /\ n.bars = m.bars
      /\ n.tape = Put(m.tape, trade.sym, t)
  BY <1>1 DEF OnTape, MarketOk, MarketFields
<1>3. IsList(t)
  BY <1>1, NoneIsList, AppendIsList DEF Entry, MarketOk
<1>4. \A sym \in DOMAIN n.tape : IsList(n.tape[sym])
  BY <1>2, <1>3 DEF Put, Upsert, MarketOk
<1>5. trade.sym \in DOMAIN n.tape
  BY <1>2 DEF Put, Upsert
<1>6. QED
  BY <1>2, <1>4, <1>5 DEF MarketOk

LEMMA ObserveKeeps ==
    ASSUME NEW m, MarketOk(m), NEW e, NEW seq, NEW n, n = Observe(m, e, seq)
    PROVE  MarketOk(n) /\ (e.kind = "Fill" => e.sym \in DOMAIN n.tape)
<1>1. CASE e.kind \in {"OrderAccepted", "OrderCancelled"}
  <2>1. \E book : n = SetBook(m, e.sym, book)
    BY <1>1 DEF Observe
  <2>2. QED
    BY <1>1, <2>1, SetBookKeeps
<1>2. CASE e.kind = "Fill"
  <2>1. PICK book : n = AddToBars(OnTape(SetBook(m, e.sym, book), Trade(e, seq)), e)
    BY <1>2 DEF Observe
  <2>2. PICK p, q : p = SetBook(m, e.sym, book) /\ q = OnTape(p, Trade(e, seq))
    OBVIOUS
  <2>3. MarketOk(p)
    BY <2>2, SetBookKeeps
  <2>4. PICK t : t = Trade(e, seq)
    OBVIOUS
  <2>5. MarketOk(q) /\ t.sym \in DOMAIN q.tape
    BY <2>2, <2>3, <2>4, OnTapeKeeps
  <2>6. MarketOk(n) /\ n.tape = q.tape
    BY <2>1, <2>2, <2>5, AddToBarsKeeps
  <2>7. t.sym = e.sym
    BY <2>4 DEF Trade
  <2>8. QED
    BY <2>5, <2>6, <2>7
<1>3. CASE e.kind \notin {"OrderAccepted", "OrderCancelled", "Fill"}
  BY <1>3 DEF Observe
<1>4. QED
  BY <1>1, <1>2, <1>3
-----------------------------------------------------------------------------
ArchiveFields == {"market", "open", "ready", "sealed", "last", "late"}
UnitFields == {"start", "resumeAfter", "trades", "bars", "snapshots"}

\* The open units all resume at a position of the stream.
Placed(a, n) ==
    /\ DOMAIN a = ArchiveFields
    /\ a.last \in 0 .. n
    /\ MarketOk(a.market)
    /\ IsFiniteSet(DOMAIN a.open)
    /\ \A s \in DOMAIN a.open : /\ s \in Int
                                /\ DOMAIN a.open[s] = UnitFields
                                /\ a.open[s].resumeAfter \in 0 .. n

LEMMA NewArchivePlaced == ASSUME NEW n \in Nat PROVE Placed(NewArchive, n)
<1>1. /\ DOMAIN NewArchive = ArchiveFields /\ NewArchive.last = 0 /\ NewArchive.market = NewMarket
      /\ DOMAIN NewArchive.open = {} /\ 0 \in 0 .. n
  BY DEF NewArchive, ArchiveFields
<1>2. QED
  BY <1>1, NewMarketOk, FS_EmptySet DEF Placed

\* Of an archive only the market, the open units and the last record matter here.
LEMMA PlacedLike ==
    ASSUME NEW n, NEW a, Placed(a, n), NEW b, DOMAIN b = ArchiveFields, b.last \in 0 .. n,
           MarketOk(b.market), b.open = a.open
    PROVE  Placed(b, n)
  BY DEF Placed

LEMMA FilePlaced ==
    ASSUME NEW n, NEW a, Placed(a, n), NEW dataset \in {"trades", "bars"}, NEW row, NEW ts,
           NEW b, b = File(a, dataset, row, ts)
    PROVE  Placed(b, n) /\ b.market = a.market
<1>1. PICK u : u = UnitStart(ts)
  OBVIOUS
<1>2. CASE u \in DOMAIN a.open
  <2>1. PICK rows : rows = Append(a.open[u][dataset], row)
    OBVIOUS
  <2>2. b = [a EXCEPT !.open[u][dataset] = rows]
    BY <1>1, <1>2, <2>1 DEF File
  <2>3. /\ DOMAIN b = ArchiveFields /\ b.last = a.last /\ b.market = a.market
        /\ DOMAIN b.open = DOMAIN a.open
    BY <2>2 DEF Placed, ArchiveFields
  <2>4. b.open = [a.open EXCEPT ![u] = [a.open[u] EXCEPT ![dataset] = rows]]
    BY <2>2 DEF Placed, ArchiveFields
  <2>5. ASSUME NEW s \in DOMAIN a.open
        PROVE  DOMAIN b.open[s] = UnitFields /\ b.open[s].resumeAfter = a.open[s].resumeAfter
    <3>1. CASE s = u
      <4>1. b.open[s] = [a.open[u] EXCEPT ![dataset] = rows]
        BY <1>2, <2>4, <3>1
      <4>2. DOMAIN a.open[u] = UnitFields /\ "resumeAfter" \in UnitFields /\ dataset # "resumeAfter"
        BY <1>2 DEF Placed, UnitFields
      <4>3. QED
        BY <3>1, <4>1, <4>2
    <3>2. CASE s # u
      BY <2>4, <3>2 DEF Placed
    <3>3. QED
      BY <3>1, <3>2
  <2>6. QED
    BY <2>3, <2>5 DEF Placed
<1>3. CASE u \notin DOMAIN a.open
  <2>1. b = [a EXCEPT !.late = @ + 1]
    BY <1>1, <1>3 DEF File
  <2>2. DOMAIN b = ArchiveFields /\ b.last = a.last /\ b.market = a.market /\ b.open = a.open
    BY <2>1 DEF Placed, ArchiveFields
  <2>3. QED
    BY <2>2 DEF Placed
<1>4. QED
  BY <1>2, <1>3

LEMMA TradesPlaced ==
    ASSUME NEW n, NEW a, Placed(a, n), NEW s, NEW k \in Nat, DOMAIN s = 1 .. k,
           NEW b, b = FilingTrades!Folded(a, s)
    PROVE  Placed(b, n) /\ b.market = a.market
<1>1. PICK v : /\ v[0] = a /\ v[k] = FilingTrades!Folded(a, s)
               /\ \A j \in 0 .. k - 1 : v[j + 1] = FileTrade(v[j], s[j + 1])
  BY FilingTrades!FoldedRun
<1> DEFINE P == {j \in 0 .. k : Placed(v[j], n) /\ v[j].market = a.market}
<1>2. 0 \in P
  BY <1>1
<1>3. ASSUME NEW j \in 0 .. k - 1, j \in P
      PROVE  j + 1 \in P
  <2>1. PICK c, d, t : c = v[j] /\ d = v[j + 1] /\ t = s[j + 1]
    OBVIOUS
  <2>2. Placed(c, n) /\ d = File(c, "trades", t, t.ts) /\ c.market = a.market
    BY <1>1, <1>3, <2>1 DEF FileTrade
  <2>3. Placed(d, n) /\ d.market = c.market
    BY <2>2, FilePlaced
  <2>4. j + 1 \in 0 .. k
    OBVIOUS
  <2>5. QED
    BY <2>1, <2>2, <2>3, <2>4
<1>4. 0 .. k \subseteq P
  <2> HIDE DEF P
  <2>1. QED
    BY <1>2, <1>3, Posting!UpTo
<1>5. k \in 0 .. k
  OBVIOUS
<1>6. QED
  BY <1>1, <1>4, <1>5

LEMMA BarsPlaced ==
    ASSUME NEW n, NEW a, Placed(a, n), NEW s, NEW k \in Nat, DOMAIN s = 1 .. k,
           NEW b, b = CollectBars(a, s)
    PROVE  Placed(b, n) /\ b.market = a.market
<1>1. b = FilingBars!Folded(a, s)
  BY DEF CollectBars, FoldLeft, MapThenFoldSet, FilingBars!Folded, FilingBars!Folds, FilingBars!Max, Max
<1>2. PICK v : /\ v[0] = a /\ v[k] = FilingBars!Folded(a, s)
               /\ \A j \in 0 .. k - 1 : v[j + 1] = FileBar(v[j], s[j + 1])
  BY FilingBars!FoldedRun
<1> DEFINE P == {j \in 0 .. k : Placed(v[j], n) /\ v[j].market = a.market}
<1>3. 0 \in P
  BY <1>2
<1>4. ASSUME NEW j \in 0 .. k - 1, j \in P
      PROVE  j + 1 \in P
  <2>1. PICK c, d, t : c = v[j] /\ d = v[j + 1] /\ t = s[j + 1]
    OBVIOUS
  <2>2. Placed(c, n) /\ d = File(c, "bars", t, t.start) /\ c.market = a.market
    BY <1>2, <1>4, <2>1 DEF FileBar
  <2>3. Placed(d, n) /\ d.market = c.market
    BY <2>2, FilePlaced
  <2>4. j + 1 \in 0 .. k
    OBVIOUS
  <2>5. QED
    BY <2>1, <2>2, <2>3, <2>4
<1>5. 0 .. k \subseteq P
  <2> HIDE DEF P
  <2>1. QED
    BY <1>3, <1>4, Posting!UpTo
<1>6. k \in 0 .. k
  OBVIOUS
<1>7. QED
  BY <1>1, <1>2, <1>5, <1>6

LEMMA CollectTradesPlaced ==
    ASSUME NEW n, NEW a, Placed(a, n), NEW sym \in DOMAIN a.market.tape,
           NEW b, b = CollectTrades(a, sym)
    PROVE  Placed(b, n)
<1>1. PICK c, m : c = [a EXCEPT !.market = m] /\ m = DrainTape(a.market, sym)
  OBVIOUS
<1>2. MarketOk(m)
  <2>1. /\ DOMAIN m = MarketFields /\ m.closed = a.market.closed /\ m.bars = a.market.bars
        /\ m.tape = Without(a.market.tape, {sym})
    BY <1>1 DEF DrainTape, Placed, MarketOk, MarketFields
  <2>2. \A x \in DOMAIN m.tape : x \in DOMAIN a.market.tape /\ m.tape[x] = a.market.tape[x]
    BY <2>1 DEF Without, Restrict
  <2>3. QED
    BY <2>1, <2>2 DEF Placed, MarketOk
<1>3. Placed(c, n)
  <2>1. DOMAIN c = ArchiveFields /\ c.last = a.last /\ c.market = m /\ c.open = a.open
    BY <1>1 DEF Placed, ArchiveFields
  <2>2. QED
    BY <1>2, <2>1 DEF Placed
<1>4. PICK s : s = a.market.tape[sym]
  OBVIOUS
<1>5. PICK k \in Nat : DOMAIN s = 1 .. k
  <2>1. IsList(s)
    BY <1>4 DEF Placed, MarketOk
  <2>2. QED
    BY <2>1, ListDomain
<1>6. b = FilingTrades!Folded(c, s)
  BY <1>1, <1>4 DEF CollectTrades, FoldLeft, MapThenFoldSet, FilingTrades!Folded, FilingTrades!Folds,
                    FilingTrades!Max, Max
<1>7. QED
  BY <1>3, <1>5, <1>6, TradesPlaced

LEMMA ForceClosePlaced ==
    ASSUME NEW n, NEW a, Placed(a, n), NEW cutoff, NEW b, b = ForceCloseBars(a, cutoff)
    PROVE  Placed(b, n)
<1>1. PICK ended : ended = {k \in DOMAIN a.market.bars : a.market.bars[k].start + k[2] <= cutoff}
  OBVIOUS
<1>2. PICK c, S : /\ c = [a EXCEPT !.market.bars = Without(@, ended)]
                  /\ S = {a.market.bars[k] : k \in ended}
  OBVIOUS
<1>3. b = CollectBars(c, SetToSeq(S))
  BY <1>1, <1>2 DEF ForceCloseBars
<1>4. IsFiniteSet(DOMAIN a.market.bars) /\ ended \subseteq DOMAIN a.market.bars
  BY <1>1 DEF Placed, MarketOk
<1>5. IsFiniteSet(S)
  <2>1. PICK f : f = [k \in ended |-> a.market.bars[k]]
    OBVIOUS
  <2>2. f \in Surjection(ended, S)
    BY <1>2, <2>1 DEF Surjection
  <2>3. IsFiniteSet(ended)
    BY <1>4, FS_Subset
  <2>4. QED
    BY <2>2, <2>3, FS_Surjection
<1>6. Placed(c, n)
  <2>1. /\ DOMAIN c = ArchiveFields /\ c.last = a.last /\ c.open = a.open
        /\ c.market = [a.market EXCEPT !.bars = Without(a.market.bars, ended)]
    BY <1>2 DEF Placed, ArchiveFields
  <2>2. /\ DOMAIN c.market = MarketFields /\ c.market.closed = a.market.closed
        /\ c.market.tape = a.market.tape /\ c.market.bars = Without(a.market.bars, ended)
    BY <2>1 DEF Placed, MarketOk, MarketFields
  <2>3. IsFiniteSet(DOMAIN c.market.bars)
    <3>1. DOMAIN c.market.bars \subseteq DOMAIN a.market.bars
      BY <2>2 DEF Without, Restrict
    <3>2. QED
      BY <1>4, <3>1, FS_Subset
  <2>4. QED
    BY <2>1, <2>2, <2>3 DEF Placed, MarketOk
<1>7. PICK s : s = SetToSeq(S)
  OBVIOUS
<1>8. PICK k \in Nat : DOMAIN s = 1 .. k
  BY <1>5, <1>7, ListOfSet
<1>9. QED
  BY <1>3, <1>6, <1>7, <1>8, BarsPlaced

LEMMA SealPlaced ==
    ASSUME NEW n, NEW a, Placed(a, n), NEW starts, NEW b, b = SealUnits(a, starts)
    PROVE  Placed(b, n)
<1>1. /\ DOMAIN b = ArchiveFields /\ b.last = a.last /\ b.market = a.market
      /\ b.open = Without(a.open, starts)
  BY DEF SealUnits, Placed, ArchiveFields
<1>2. \A s \in DOMAIN b.open : s \in DOMAIN a.open /\ b.open[s] = a.open[s]
  BY <1>1 DEF Without, Restrict
<1>3. IsFiniteSet(DOMAIN b.open)
  <2>1. DOMAIN b.open \subseteq DOMAIN a.open
    BY <1>2
  <2>2. QED
    BY <2>1, FS_Subset DEF Placed
<1>4. QED
  BY <1>1, <1>2, <1>3 DEF Placed

LEMMA SampledPlaced ==
    ASSUME NEW n, NEW a, Placed(a, n), NEW second, NEW b, b = SampleUntil(a, second)
    PROVE  Placed(b, n) /\ b.last = a.last /\ b.market = a.market
<1>1. /\ DOMAIN b = ArchiveFields /\ b.last = a.last /\ b.market = a.market
      /\ DOMAIN b.open = DOMAIN a.open
  BY DEF SampleUntil, Placed, ArchiveFields
<1>2. ASSUME NEW s \in DOMAIN a.open
      PROVE  DOMAIN b.open[s] = UnitFields /\ b.open[s].resumeAfter = a.open[s].resumeAfter
  <2>1. \E x : b.open[s] = [a.open[s] EXCEPT !.snapshots = x]
    BY DEF SampleUntil, Placed, ArchiveFields
  <2>2. PICK x : b.open[s] = [a.open[s] EXCEPT !.snapshots = x]
    BY <2>1
  <2>3. DOMAIN a.open[s] = UnitFields
    BY DEF Placed
  <2>4. QED
    BY <2>2, <2>3 DEF UnitFields
<1>3. QED
  BY <1>1, <1>2 DEF Placed

LEMMA EnsuredPlaced ==
    ASSUME NEW n, NEW a, Placed(a, n), NEW start \in Int, NEW previous \in 0 .. n,
           NEW b, b = EnsureUnit(a, start, previous)
    PROVE  Placed(b, n) /\ b.market = a.market
<1>1. CASE b = a
  BY <1>1
<1>2. CASE b # a
  <2>1. PICK unit : unit = [start |-> start, resumeAfter |-> previous, trades |-> <<>>,
                            bars |-> <<>>, snapshots |-> <<>>]
    OBVIOUS
  <2>2. b = [a EXCEPT !.open = Put(@, start, unit)]
    BY <1>2, <2>1 DEF EnsureUnit
  <2>3. /\ DOMAIN b = ArchiveFields /\ b.last = a.last /\ b.market = a.market
        /\ b.open = Put(a.open, start, unit)
    BY <2>2 DEF Placed, ArchiveFields
  <2>4. /\ DOMAIN b.open = DOMAIN a.open \union {start} /\ b.open[start] = unit
        /\ \A s \in DOMAIN a.open : s # start => b.open[s] = a.open[s]
    BY <2>3 DEF Put, Upsert
  <2>5. DOMAIN unit = UnitFields /\ unit.resumeAfter \in 0 .. n
    BY <2>1 DEF UnitFields
  <2>6. IsFiniteSet(DOMAIN a.open \union {start})
    BY FS_AddElement DEF Placed
  <2>7. IsFiniteSet(DOMAIN b.open)
    BY <2>4, <2>6
  <2>8. \A s \in DOMAIN b.open : /\ s \in Int /\ DOMAIN b.open[s] = UnitFields
                                 /\ b.open[s].resumeAfter \in 0 .. n
    BY <2>4, <2>5 DEF Placed
  <2>9. QED
    BY <2>3, <2>7, <2>8 DEF Placed
<1>3. QED
  BY <1>1, <1>2

LEMMA SealBeforePlaced ==
    ASSUME NEW n, NEW a, Placed(a, n), NEW cutoff, NEW b, b = SealBefore(a, cutoff)
    PROVE  Placed(b, n)
<1>1. CASE b = a
  BY <1>1
<1>2. CASE b # a
  <2>1. PICK c, starts : c = ForceCloseBars(a, cutoff) /\ b = SealUnits(c, starts)
    BY <1>2 DEF SealBefore
  <2>2. Placed(c, n)
    BY <2>1, ForceClosePlaced
  <2>3. QED
    BY <2>1, <2>2, SealPlaced
<1>3. QED
  BY <1>1, <1>2

LEMMA FinishPlaced ==
    ASSUME NEW n, NEW a, Placed(a, n), NEW b, b = FinishArchive(a)
    PROVE  Placed(b, n)
<1>1. CASE b = a
  BY <1>1
<1>2. CASE b # a
  <2>1. PICK end : b = SealUnits(ForceCloseBars(SampleUntil(a, end), end), DOMAIN a.open)
    BY <1>2 DEF FinishArchive
  <2>2. PICK c, d, S : c = SampleUntil(a, end) /\ d = ForceCloseBars(c, end) /\ S = DOMAIN a.open
    OBVIOUS
  <2>3. Placed(c, n)
    BY <2>2, SampledPlaced
  <2>4. Placed(d, n)
    BY <2>2, <2>3, ForceClosePlaced
  <2>5. b = SealUnits(d, S)
    BY <2>1, <2>2
  <2>6. QED
    BY <2>4, <2>5, SealPlaced
<1>3. QED
  BY <1>1, <1>2

LEMMA ArchivePlaced ==
    ASSUME NEW n, NEW a, Placed(a, n), NEW e, e.ts \in Int, NEW seq \in 0 .. n,
           NEW b, b = Archive(a, e, seq)
    PROVE  Placed(b, n)
<1>1. PICK unit, c, d, opened :
         /\ unit = UnitStart(e.ts) /\ c = [a EXCEPT !.last = seq] /\ d = SampleUntil(c, e.ts)
         /\ opened = EnsureUnit(d, unit, a.last)
  OBVIOUS
<1>2. PICK m, applied : m = Observe(opened.market, e, seq) /\ applied = [opened EXCEPT !.market = m]
  OBVIOUS
<1>3. PICK traded : traded = IF e.kind = "Fill" THEN CollectTrades(applied, e.sym) ELSE applied
  OBVIOUS
<1>4. PICK drained, s, barred : /\ drained = [traded EXCEPT !.market = DrainClosedBars(@)]
                                /\ s = traded.market.closed /\ barred = CollectBars(drained, s)
  OBVIOUS
<1>5. b = SealBefore(barred, unit)
  BY <1>1, <1>2, <1>3, <1>4 DEF Archive
<1>6. unit \in Int
  BY <1>1, WidthsDivideUnit DEF UnitStart, BucketStart
<1>7. Placed(c, n)
  <2>1. DOMAIN c = ArchiveFields /\ c.last = seq /\ c.market = a.market /\ c.open = a.open
    BY <1>1 DEF Placed, ArchiveFields
  <2>2. QED
    BY <2>1 DEF Placed
<1>8. Placed(d, n)
  <2>1. PICK ts : ts = e.ts
    OBVIOUS
  <2>2. d = SampleUntil(c, ts)
    BY <1>1, <2>1
  <2>3. QED
    BY <1>7, <2>2, SampledPlaced
<1>9. Placed(opened, n)
  <2>1. PICK previous \in 0 .. n : previous = a.last
    BY DEF Placed
  <2>2. opened = EnsureUnit(d, unit, previous)
    BY <1>1, <2>1
  <2>3. QED
    BY <1>6, <1>8, <2>2, EnsuredPlaced
<1>10. MarketOk(m) /\ (e.kind = "Fill" => e.sym \in DOMAIN m.tape)
  <2>1. PICK p : p = opened.market
    OBVIOUS
  <2>2. MarketOk(p) /\ m = Observe(p, e, seq)
    BY <1>2, <1>9, <2>1 DEF Placed
  <2>3. QED
    BY <2>2, ObserveKeeps
<1>11. Placed(applied, n) /\ applied.market = m
  <2>1. DOMAIN applied = ArchiveFields /\ applied.last = opened.last
        /\ applied.market = m /\ applied.open = opened.open
    BY <1>2, <1>9 DEF Placed, ArchiveFields
  <2>2. QED
    BY <1>9, <1>10, <2>1 DEF Placed
<1>12. Placed(traded, n)
  <2>1. CASE e.kind = "Fill"
    <3>1. PICK sym : sym = e.sym
      OBVIOUS
    <3>2. sym \in DOMAIN applied.market.tape /\ traded = CollectTrades(applied, sym)
      BY <1>3, <1>10, <1>11, <2>1, <3>1
    <3>3. QED
      BY <1>11, <3>2, CollectTradesPlaced
  <2>2. CASE e.kind # "Fill"
    BY <1>3, <1>11, <2>2
  <2>3. QED
    BY <2>1, <2>2
<1>13. Placed(drained, n)
  <2>1. PICK p, q : p = traded.market /\ q = DrainClosedBars(p)
    OBVIOUS
  <2>2. MarketOk(p)
    BY <1>12, <2>1 DEF Placed
  <2>3. DOMAIN q = MarketFields /\ q.bars = p.bars /\ q.tape = p.tape /\ q.closed = <<>>
    BY <2>1, <2>2 DEF DrainClosedBars, MarketOk, MarketFields
  <2>4. MarketOk(q)
    BY <2>2, <2>3, NoneIsList DEF MarketOk
  <2>5. /\ DOMAIN drained = ArchiveFields /\ drained.last = traded.last
        /\ drained.market = q /\ drained.open = traded.open
    BY <1>4, <1>12, <2>1 DEF Placed, ArchiveFields
  <2>6. QED
    BY <1>12, <2>4, <2>5 DEF Placed
<1>14. Placed(barred, n)
  <2>1. IsList(s)
    BY <1>4, <1>12 DEF Placed, MarketOk
  <2>2. PICK k \in Nat : DOMAIN s = 1 .. k
    BY <2>1, ListDomain
  <2>3. QED
    BY <1>4, <1>13, <2>2, BarsPlaced
<1>15. QED
  BY <1>5, <1>14, SealBeforePlaced

LEMMA CheckpointPlaced ==
    ASSUME NEW n, NEW a, Placed(a, n)
    PROVE  CheckpointOf(a) \in 0 .. n
<1>1. PICK S : S = DOMAIN a.open
  OBVIOUS
<1>2. CASE S = {}
  BY <1>1, <1>2 DEF CheckpointOf, Placed
<1>3. CASE S # {}
  <2>1. IsFiniteSet(S) /\ \A x \in S : x \in Int
    BY <1>1 DEF Placed
  <2>2. Min(S) \in S
    BY <1>3, <2>1, MinIsIn
  <2>3. QED
    BY <1>1, <1>3, <2>2 DEF CheckpointOf, Placed
<1>4. QED
  BY <1>2, <1>3

-----------------------------------------------------------------------------
ArchiveInv ==
    /\ position \in Nat /\ bookmark \in 0 .. Len(stream)
    /\ Placed(archive, Len(stream))

LEMMA PlacedLater ==
    ASSUME NEW n \in Nat, NEW m \in Nat, n <= m, NEW a, Placed(a, n)
    PROVE  Placed(a, m)
<1>1. \A i : i \in 0 .. n => i \in 0 .. m
  OBVIOUS
<1>2. QED
  BY <1>1 DEF Placed

\* A batch holds records of the stream, wherever it was read from.
LEMMA BatchReads ==
    ASSUME PosInv, NEW at \in Nat
    PROVE  \E k \in Nat : /\ DOMAIN Batch(at) = 1 .. k
                          /\ \A i \in 1 .. k : Batch(at)[i] \in 1 .. Len(stream)
<1>1. at \in Int /\ floor \in Int /\ floor \in Nat /\ Len(stream) \in Nat
  BY DEF PosInv
<1>2. PICK from : from = Max({at, floor})
  OBVIOUS
<1>3. from \in Nat
  BY <1>1, <1>2, MaxOfTwo
<1>4. PICK k : k = Min({BatchSize, Len(stream) - from})
  OBVIOUS
<1>5. k \in Int /\ k <= Len(stream) - from
  <2>1. BatchSize \in Int /\ Len(stream) - from \in Int
    BY <1>1, <1>3, BatchSizePos
  <2>2. k \in {BatchSize, Len(stream) - from} /\ k <= Len(stream) - from
    BY <1>4, <2>1, MinOfTwo
  <2>3. QED
    BY <2>1, <2>2
<1>6. Batch(at) = [i \in 1 .. k |-> from + i]
  BY <1>2, <1>4 DEF Batch
<1>7. DOMAIN Batch(at) = 1 .. k /\ \A i \in 1 .. k : Batch(at)[i] \in 1 .. Len(stream)
  BY <1>1, <1>3, <1>5, <1>6
<1>8. CASE k >= 0
  <2>1. k \in Nat
    BY <1>5, <1>8
  <2>2. QED
    BY <1>7, <2>1
<1>9. CASE ~(k >= 0)
  <2>1. 1 .. k = 1 .. 0 /\ 0 \in Nat
    BY <1>5, <1>9
  <2>2. QED
    BY <1>7, <2>1
<1>10. QED
  BY <1>8, <1>9

\* The archiver reads a batch.
LEMMA RecordsPlaced ==
    ASSUME NEW n, NEW a, Placed(a, n), NEW k \in Nat, NEW s, DOMAIN s = 1 .. k,
           \A j \in 1 .. k : s[j].seq \in 0 .. n /\ s[j].entry \in Appended
    PROVE  Placed(Recording!Folded(a, s), n)
<1>3. PICK v : /\ v[0] = a /\ v[k] = Recording!Folded(a, s)
               /\ \A j \in 0 .. k - 1 : v[j + 1] = ArchiveRecord(v[j], s[j + 1])
  BY Recording!FoldedRun
<1> DEFINE P == {j \in 0 .. k : Placed(v[j], n)}
<1>4. 0 \in P
  BY <1>3
<1>5. ASSUME NEW j \in 0 .. k - 1, j \in P
      PROVE  j + 1 \in P
  <2>1. PICK c, d, e, i : c = v[j] /\ d = v[j + 1] /\ e = s[j + 1].entry /\ i = s[j + 1].seq
    OBVIOUS
  <2>2. j + 1 \in 1 .. k /\ j + 1 \in 0 .. k
    OBVIOUS
  <2>3. i \in 0 .. n /\ e.ts \in Int
    BY <2>1, <2>2, StampsAreSeconds
  <2>5. Placed(c, n) /\ d = Archive(c, e, i)
    BY <1>3, <1>5, <2>1 DEF ArchiveRecord
  <2>6. Placed(d, n)
    BY <2>3, <2>5, ArchivePlaced
  <2>7. QED
    BY <2>1, <2>2, <2>6
<1>6. 0 .. k \subseteq P
  <2> HIDE DEF P
  <2>1. QED
    BY <1>4, <1>5, Posting!UpTo
<1>7. k \in 0 .. k
  OBVIOUS
<1>8. QED
  BY <1>3, <1>6, <1>7

LEMMA DrainedPlaced ==
    ASSUME NEW n, NEW a, Placed(a, n), Drain(a)
    PROVE  Placed(archive', n)
<1>1. PICK b : b = [a EXCEPT !.ready = <<>>]
  OBVIOUS
<1>2. DOMAIN b = ArchiveFields /\ b.last = a.last /\ b.market = a.market /\ b.open = a.open
  BY <1>1 DEF Placed, ArchiveFields
<1>3. archive' = b
  BY <1>1 DEF Drain
<1>4. QED
  BY <1>2, <1>3 DEF Placed

LEMMA ArchiveStays ==
    ASSUME PosInv, PosInv', ArchiveInv, Len(stream) <= Len(stream'),
           UNCHANGED <<archive, position, bookmark>>
    PROVE  ArchiveInv'
<1>1. Len(stream) \in Nat /\ Len(stream') \in Nat
  BY DEF PosInv
<1>2. Placed(archive, Len(stream'))
  BY <1>1, PlacedLater DEF ArchiveInv
<1>3. bookmark \in 0 .. Len(stream')
  BY <1>1 DEF ArchiveInv
<1>4. QED
  BY <1>2, <1>3 DEF ArchiveInv

LEMMA ArchiveSteps ==
    ASSUME PosInv, PosInv', ArchiveInv, ArchiverNext
    PROVE  ArchiveInv'
<1> USE DEF outboundVars, streamVars, trimVars, archiveMemory
<1>1. UNCHANGED stream /\ Len(stream) \in Nat
  BY DEF ArchiverNext, ArchiverStep, ResumeArchive, PublishPosition, ReadAndArchive, WriteFile,
         WriteBookmark, WriteFails, StopCleanly, ArchiverDies, PosInv
<1>2. PICK n \in Nat : n = Len(stream) /\ n = Len(stream')
  BY <1>1
<1>3. Placed(archive, n) /\ position \in Nat /\ bookmark \in 0 .. n
  BY <1>2 DEF ArchiveInv
<1>4. SUFFICES Placed(archive', n) /\ position' \in Nat /\ bookmark' \in 0 .. n
  BY <1>2 DEF ArchiveInv
<1>5. Placed(NewArchive, n)
  BY <1>2, NewArchivePlaced
<1>6. CASE ResumeArchive
  BY <1>2, <1>3, <1>5, <1>6 DEF ResumeArchive
<1>7. CASE PublishPosition \/ WriteFile \/ WriteFails
  BY <1>3, <1>7 DEF PublishPosition, WriteFile, WriteFails
<1>8. CASE ReadAndArchive
  <2> DEFINE records == [k \in DOMAIN Batch(position) |->
                            [seq |-> Batch(position)[k], entry |-> stream[Batch(position)[k]]]]
  <2>1. PICK b : b = Recording!Folded(archive, records)
    OBVIOUS
  <2>2. b = FoldLeft(ArchiveRecord, archive, records)
    BY <2>1 DEF FoldLeft, MapThenFoldSet, Recording!Folded, Recording!Folds, Recording!Max, Max
  <2>3. /\ Drain(b) /\ bookmark' = bookmark /\ position' = Last(Batch(position))
        /\ Batch(position) # <<>>
    BY <1>8, <2>2 DEF ReadAndArchive
  <2>4. Placed(b, n)
    <3>1. PICK a, s, t : a = archive /\ s = Batch(position) /\ t = records
      OBVIOUS
    <3>2. PICK k \in Nat : DOMAIN s = 1 .. k /\ \A i \in 1 .. k : s[i] \in 1 .. n
      BY <1>2, <1>3, <3>1, BatchReads
    <3>3. DOMAIN t = 1 .. k /\ \A i \in 1 .. k : t[i].seq = s[i] /\ t[i].entry = stream[s[i]]
      BY <3>1, <3>2
    <3>4. ASSUME NEW i \in 1 .. k
          PROVE  t[i].seq \in 0 .. n /\ t[i].entry \in Appended
      <4>1. PICK j : j = s[i]
        OBVIOUS
      <4>2. j \in 1 .. n
        BY <3>2, <4>1
      <4>3. stream[j] \in Appended
        BY <1>2, <4>2, StreamIsAppended
      <4>4. t[i].seq = j /\ t[i].entry = stream[j]
        BY <3>3, <4>1
      <4>5. QED
        BY <4>2, <4>3, <4>4
    <3>5. Placed(Recording!Folded(a, t), n)
      <4> HIDE DEF records
      <4>1. QED
        BY <1>3, <3>1, <3>3, <3>4, RecordsPlaced
    <3>6. QED
      BY <2>1, <3>1, <3>5
  <2>5. Placed(archive', n)
    BY <2>3, <2>4, DrainedPlaced
  <2>6. position' \in Nat
    BY <1>3, <2>3, BatchIsAhead
  <2>7. QED
    BY <1>3, <2>3, <2>5, <2>6
<1>9. CASE WriteBookmark
  <2>1. CheckpointOf(archive) \in 0 .. n
    BY <1>3, CheckpointPlaced
  <2>2. QED
    BY <1>3, <1>9, <2>1 DEF WriteBookmark
<1>10. CASE StopCleanly
  <2>1. PICK b : b = FinishArchive(archive)
    OBVIOUS
  <2>2. Drain(b) /\ UNCHANGED <<position, bookmark>>
    BY <1>10, <2>1 DEF StopCleanly
  <2>3. Placed(b, n)
    BY <1>3, <2>1, FinishPlaced
  <2>4. Placed(archive', n)
    BY <2>2, <2>3, DrainedPlaced
  <2>5. QED
    BY <1>3, <2>2, <2>4
<1>11. CASE ArchiverDies
  BY <1>3, <1>5, <1>11 DEF ArchiverDies
<1>12. QED
  BY <1>6, <1>7, <1>8, <1>9, <1>10, <1>11 DEF ArchiverNext, ArchiverStep

LEMMA ArchiveNext ==
    ASSUME PosInv, PosInv', ArchiveInv, [Next]_vars
    PROVE  ArchiveInv'
<1>1. CASE ArchiverNext
  BY <1>1, ArchiveSteps
<1>2. CASE UNCHANGED archiverVars /\ (UNCHANGED stream \/ Publish)
  <2>1. Len(stream) <= Len(stream')
    <3>1. CASE UNCHANGED stream
      BY <3>1 DEF PosInv
    <3>2. CASE Publish
      <4> DEFINE Batches == Seq(Appended)
      <4>1. coming # <<>> /\ coming \in Seq(Batches) /\ stream' = stream \o Head(coming)
        BY <3>2 DEF Publish, PosInv
      <4>2. Head(coming) \in Batches
        <5> HIDE DEF Batches
        <5>1. QED
          BY <4>1
      <4>3. PICK head \in Seq(Appended) : head = Head(coming)
        BY <4>2
      <4>4. QED
        BY <4>1, <4>3 DEF PosInv
    <3>3. QED
      BY <1>2, <3>1, <3>2
  <2>2. QED
    BY <1>2, <2>1, ArchiveStays DEF archiverVars
<1>3. CASE OutboundNext /\ UNCHANGED <<ledgerVars, archiverVars>>
  <2>1. UNCHANGED stream \/ Publish
    BY <1>3 DEF OutboundNext, AskReader, Trim, streamVars
  <2>2. UNCHANGED archiverVars
    BY <1>3
  <2>3. QED
    BY <1>2, <2>1, <2>2
<1>4. CASE LedgerNext /\ UNCHANGED archiverVars
  <2>1. UNCHANGED stream
    BY <1>4 DEF LedgerNext, LedgerStep, Recover, ReplayBatch, Rebuild, SaveLedger, Poll, Flush,
                SaveFails, PollFails, FlushFails, LedgerDies, outboundVars, streamVars
  <2>2. QED
    BY <1>2, <1>4, <2>1
<1>5. CASE UNCHANGED vars
  <2>1. UNCHANGED archiverVars /\ UNCHANGED stream
    BY <1>5 DEF vars, outboundVars, streamVars
  <2>2. QED
    BY <1>2, <2>1
<1>6. QED
  BY <1>1, <1>3, <1>4, <1>5 DEF Next

LEMMA ArchiveInit == Init => ArchiveInv
<1> SUFFICES ASSUME Init PROVE ArchiveInv
  OBVIOUS
<1>1. stream = <<>> /\ archive = NewArchive /\ position = 0 /\ bookmark = 0
  BY DEF Init, OutboundInit, ArchiverInit
<1>2. Len(stream) = 0
  BY <1>1
<1>3. Placed(archive, 0)
  BY <1>1, NewArchivePlaced
<1>4. QED
  BY <1>1, <1>2, <1>3 DEF ArchiveInv

-----------------------------------------------------------------------------
(***************************************************************************)
(* The invariant of the three processes together, and what follows from it. *)
(***************************************************************************)
Inv == IInv /\ ArchiveInv /\ HistoryInv /\ CopiesInv

\* Inv holds in every state the three processes reach, whatever they read and in
\* whatever order they step, fail, die and are restarted.
THEOREM ConsumersInvariant == Spec => []Inv
<1>1. Init => Inv
  BY InvInit, ArchiveInit, CopiesInit DEF Inv
<1>2. Inv /\ [Next]_vars => Inv'
  <2> SUFFICES ASSUME Inv, [Next]_vars PROVE Inv'
    OBVIOUS
  <2>1. IInv /\ ArchiveInv /\ HistoryInv /\ CopiesInv
    BY DEF Inv
  <2>2. BookmarkIsAPosition
    BY <2>1 DEF ArchiveInv, BookmarkIsAPosition
  <2>3. IInv'
    BY <2>1, <2>2, InvNext
  <2>4. ArchiveInv'
    BY <2>1, <2>3, ArchiveNext DEF IInv
  <2>5. HistoryInv' /\ CopiesInv'
    BY <2>1, CopiesNext
  <2>6. QED
    BY <2>3, <2>4, <2>5 DEF Inv
<1>3. QED
  BY <1>1, <1>2, PTL DEF Spec

\* What write_checkpoint leaves in _checkpoint.json is a position of the stream, so
\* that the minimum trim takes over the readers is one (ArchiveState.checkpoint,
\* archiver/state.py:370-383, and trim, checkpoint.py:163-188).
THEOREM BookmarkStands == Spec => []BookmarkIsAPosition
<1>1. Inv => BookmarkIsAPosition
  BY DEF Inv, ArchiveInv, BookmarkIsAPosition
<1>2. QED
  BY <1>1, ConsumersInvariant, PTL

\* Whatever is trimmed lies behind the ledger's checkpoint and behind the ledger,
\* which is never refused (ensure_resumable and trim, checkpoint.py:128-188).
THEOREM LedgerResumes == Spec => []LedgerCanAlwaysResume
<1>1. Inv => LedgerCanAlwaysResume
  BY DEF Inv, IInv
<1>2. QED
  BY <1>1, ConsumersInvariant, PTL

\* The process, its checkpoint and PostgreSQL are each a replay of a prefix of the
\* stream, the read model never behind the checkpoint and, unless a full flush is
\* owed, at the last batch (recover, write_checkpoint and flush_to_db,
\* ledger/consumer.py:62-231).
THEOREM ReadModelFollows == Spec => []ReadModelIsReplay
<1>1. Inv => ReadModelIsReplay
  BY CopiesAreReplays DEF Inv
<1>2. QED
  BY <1>1, ConsumersInvariant, PTL

\* No copy of the ledger makes or loses money or units, a checkpoint loaded after a
\* crash and rows flushed only in part included (Ledger.apply, ledger.py:138-222).
THEOREM CashIsConserved == Spec => []CashConserved
<1>1. Inv => CashConserved
  BY CopiesAreBalanced DEF Inv
<1>2. QED
  BY <1>1, ConsumersInvariant, PTL
=============================================================================
