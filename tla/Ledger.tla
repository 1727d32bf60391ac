------------------------------- MODULE Ledger -------------------------------
(***************************************************************************)
(* services/ledger/ledger.py, and the tables of the read model it is       *)
(* projected into by services/ledger/consumer.py, as operators.            *)
(*                                                                         *)
(* A ledger is a record of cash and positions (a missing entry is 0), open *)
(* orders, house fees and deposits.  A read model has the same accounts    *)
(* and orders, and the positions that are not zero.  What apply() touched  *)
(* since the last flush is a record of three sets of keys.                 *)
(***************************************************************************)
EXTENDS Contracts, FiniteSetsExt, Functions

CONSTANT InitialCash    \* AccountCreated.initial_cash_ticks

MakerFee(notional) == (notional * 2) \div 10000
TakerFee(notional) == (notional * 10) \div 10000

NewLedger == [cash |-> <<>>, positions |-> <<>>, orders |-> <<>>,
              fees |-> 0, deposits |-> 0]

Held(f, x) == IF x \in DOMAIN f THEN f[x] ELSE 0
Change(f, x, n) == Put(f, x, Held(f, x) + n)
Drop(f, S) == Restrict(f, DOMAIN f \ S)

Row(e) == [user |-> e.user, sym |-> e.sym, side |-> e.side, price |-> e.price,
           remaining |-> e.qty]

\* n units of an open order are gone, and with the last one the order.
Shrink(orders, id, n) ==
    IF id \notin DOMAIN orders THEN orders
    ELSE IF orders[id].remaining <= n THEN Drop(orders, {id})
    ELSE [orders EXCEPT ![id].remaining = @ - n]

Buyer(e)  == IF e.aggressor = "BUY" THEN e.takerUser ELSE e.makerUser
Seller(e) == IF e.aggressor = "BUY" THEN e.makerUser ELSE e.takerUser

\* Fault: both sides pay the taker's fee, the house books both.
SettleBothTakers(l, e) ==
    LET notional == e.price * e.qty
        fee == TakerFee(notional)
    IN  [l EXCEPT
            !.fees = @ + MakerFee(notional) + fee,
            !.cash = Change(Change(@, Buyer(e), -(notional + fee)),
                            Seller(e), notional - fee),
            !.positions = Change(Change(@, <<Buyer(e), e.sym>>, e.qty),
                                 <<Seller(e), e.sym>>, -e.qty),
            !.orders = Shrink(Shrink(@, e.maker, e.qty), e.taker, e.qty)]

\* A fill: cash and fees, the two positions, the two orders.
Settle(l, e) ==
    LET notional == e.price * e.qty
        buyFee  == IF e.aggressor = "BUY" THEN TakerFee(notional) ELSE MakerFee(notional)
        sellFee == IF e.aggressor = "BUY" THEN MakerFee(notional) ELSE TakerFee(notional)
    IN  [l EXCEPT
            !.fees = @ + MakerFee(notional) + TakerFee(notional),
            !.cash = Change(Change(@, Buyer(e), -(notional + buyFee)),
                            Seller(e), notional - sellFee),
            !.positions = Change(Change(@, <<Buyer(e), e.sym>>, e.qty),
                                 <<Seller(e), e.sym>>, -e.qty),
            !.orders = Shrink(Shrink(@, e.maker, e.qty), e.taker, e.qty)]

\* Ledger.apply
Post(l, e) ==
    CASE e.kind = "AccountCreated" ->
            [l EXCEPT !.cash = Put(@, e.user, InitialCash), !.deposits = @ + InitialCash]
      [] e.kind = "CashCredited" ->
            [l EXCEPT !.cash = Change(@, e.user, e.amount), !.deposits = @ + e.amount]
      [] e.kind = "OrderAccepted"  -> [l EXCEPT !.orders = Put(@, e.id, Row(e))]
      [] e.kind = "OrderCancelled" -> [l EXCEPT !.orders = Shrink(@, e.id, e.remaining)]
      [] e.kind = "Fill" -> Settle(l, e)
      [] OTHER -> l

\* What users hold and the house has taken is what was deposited, and the units
\* sold are the units bought.
Total(f) == MapThenSumSet(LAMBDA x : f[x], DOMAIN f)

\* What a record deposits.
Granted(e) == CASE e.kind = "AccountCreated" -> InitialCash
                [] e.kind = "CashCredited" -> e.amount
                [] OTHER -> 0

Balanced(l) == /\ Total(l.cash) + l.fees = l.deposits
               /\ Total(l.positions) = 0

-----------------------------------------------------------------------------
Clean == [accounts |-> {}, positions |-> {}, orders |-> {}]

\* What apply() adds to the dirty sets.
MarkDirty(d, e) ==
    CASE e.kind \in {"AccountCreated", "CashCredited"} -> [d EXCEPT !.accounts = @ \union {e.user}]
      [] e.kind \in {"OrderAccepted", "OrderCancelled"} -> [d EXCEPT !.orders = @ \union {e.id}]
      [] e.kind = "Fill" ->
            [accounts  |-> d.accounts \union {Buyer(e), Seller(e)},
             positions |-> d.positions \union {<<Buyer(e), e.sym>>, <<Seller(e), e.sym>>},
             orders    |-> d.orders \union {e.maker, e.taker}]
      [] OTHER -> d

-----------------------------------------------------------------------------
EmptyTables == [accounts |-> <<>>, positions |-> <<>>, orders |-> <<>>, fees |-> 0]

NonZero(positions) == Restrict(positions, {x \in DOMAIN positions : positions[x] # 0})

\* The read model of a ledger.
Projection(l) == [accounts |-> l.cash, positions |-> NonZero(l.positions),
                  orders |-> l.orders, fees |-> l.fees]

\* flush_to_db(full=True): accounts are upserted, the other tables rewritten.
FlushAll(db, l) == [Projection(l) EXCEPT !.accounts = Upsert(db.accounts, @)]

\* flush_to_db(): the dirty rows.  A conflict on an order updates what remains.
FlushDirty(db, l, d) ==
    LET kept == d.orders \intersect DOMAIN l.orders
        held == d.positions \intersect DOMAIN NonZero(l.positions)
    IN  [accounts  |-> Upsert(db.accounts, Restrict(l.cash, d.accounts)),
         positions |-> Upsert(Drop(db.positions, d.positions), Restrict(l.positions, held)),
         orders |-> Upsert(Drop(db.orders, d.orders \ DOMAIN l.orders),
                           [id \in kept |->
                               IF id \in DOMAIN db.orders
                               THEN [db.orders[id] EXCEPT !.remaining = l.orders[id].remaining]
                               ELSE l.orders[id]]),
         fees |-> l.fees]
=============================================================================
