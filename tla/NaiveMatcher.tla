---------------------------- MODULE NaiveMatcher ----------------------------
(***************************************************************************)
(* The reference engine: engine/naive_model.py under                       *)
(* services/matcher/adapter.py.  Same interface as StreamEngine, but the   *)
(* book is the set of resting orders, and the order that trades next is    *)
(* chosen by its price and its arrival: what a price level's queue means.  *)
(*                                                                         *)
(* `book' is the union of ModelBook.orders_by_id over the symbols, `live'  *)
(* is _by_order_id and `index' is _live.                                   *)
(***************************************************************************)
EXTENDS OrderFlow

New == [next |-> 1,
        book |-> {},
        arrivals |-> [s \in Symbols |-> 0],
        live  |-> <<>>,
        index |-> <<>>]

\* ---------------------------------------------------------- naive_model.py
AddOrder(m, o, qty) ==
    [m EXCEPT !.book = @ \union {[id |-> o.id, sym |-> o.sym, side |-> o.side,
                                  price |-> o.price, qty |-> qty,
                                  arrival |-> m.arrivals[o.sym]]},
              !.arrivals[o.sym] = @ + 1]

RemoveOrder(m, id) == [m EXCEPT !.book = {o \in @ : o.id # id}]

Remaining(m, id) == IF \E o \in m.book : o.id = id
                    THEN (CHOOSE o \in m.book : o.id = id).qty ELSE 0

Queue(book, sym, side) == {o \in book : o.sym = sym /\ o.side = side}

\* o goes before p on their side: a better price, or the same and earlier.
Before(o, p) == \/ IF o.side = "BUY" THEN o.price > p.price ELSE o.price < p.price
                \/ o.price = p.price /\ o.arrival < p.arrival

BestOrder(queue) == CHOOSE o \in queue : \A p \in queue \ {o} : Before(o, p)

Reduce(book, o, qty) ==
    (book \ {o}) \union (IF o.qty = qty THEN {} ELSE {[o EXCEPT !.qty = @ - qty]})

Crossed(book, sym) ==
    /\ Queue(book, sym, "BUY") # {} /\ Queue(book, sym, "SELL") # {}
    /\ BestOrder(Queue(book, sym, "BUY")).price >= BestOrder(Queue(book, sym, "SELL")).price

\* One turn of the loop in match(): the two best orders trade.
Turn(m, sym) ==
    IF ~Crossed(m.book, sym) THEN m
    ELSE LET bid == BestOrder(Queue(m.book, sym, "BUY"))
             ask == BestOrder(Queue(m.book, sym, "SELL"))
             qty == IF bid.qty < ask.qty THEN bid.qty ELSE ask.qty
             maker == IF bid.arrival < ask.arrival THEN bid ELSE ask
         IN  [book  |-> Reduce(Reduce(m.book, bid, qty), ask, qty),
              fills |-> Append(m.fills, [buy |-> bid.id, sell |-> ask.id,
                                         price |-> maker.price, qty |-> qty])]

\* match(): until the sides no longer cross; every turn empties an order.
MatchBook(book, sym) ==
    FoldLeft(Turn, [book |-> book, fills |-> <<>>], [i \in 1..Cardinality(book) |-> sym])

\* -------------------------------------------------------------- adapter.py
Forget(m, order) ==
    [m EXCEPT !.live = Without(@, order.id),
              !.index = Without(@, <<order.user, order.coid>>)]

\* _to_contract_fill: name the maker, and forget it once nothing remains.
ContractFill(told, f) ==
    LET maker == told.m.live[IF f.buy = told.taker.id THEN f.sell ELSE f.buy]
    IN  [told EXCEPT !.m = IF Remaining(told.m, maker.id) = 0 THEN Forget(told.m, maker)
                                                              ELSE told.m,
                     !.out = Append(@, Fill(maker, told.taker, f.price, f.qty, maker.sym,
                                            told.taker.side))]

Submit(m, r) ==
    LET order   == [id |-> m.next, user |-> r.user, coid |-> r.coid, sym |-> r.sym,
                    side |-> r.side, price |-> r.price]
        known   == [m EXCEPT !.next = @ + 1,
                             !.index = Put(@, <<r.user, r.coid>>, order.id),
                             !.live = Put(@, order.id, order)]
        added   == AddOrder(known, order, r.qty)
        matched == MatchBook(added.book, r.sym)
        told    == FoldLeft(ContractFill,
                            [m |-> [added EXCEPT !.book = matched.book], taker |-> order,
                             out |-> <<OrderAccepted(r, order.id)>>],
                            matched.fills)
        left    == Remaining(told.m, order.id)
    IN  CASE r.tif = "IOC" /\ left > 0 ->
               [eng |-> Forget(RemoveOrder(told.m, order.id), order),
                out |-> Append(told.out, OrderCancelled(order, left, "IOC_EXPIRED"))]
          [] left = 0 -> [eng |-> Forget(told.m, order), out |-> told.out]
          [] OTHER    -> [eng |-> told.m, out |-> told.out]

Reject(m, r, reason) == [eng |-> m, out |-> <<OrderRejected(r, reason)>>]

Cancel(m, r) ==
    LET target == <<r.user, r.target>>
        id     == m.index[target]
    IN  IF target \notin DOMAIN m.index THEN Reject(m, r, "UNKNOWN_ORDER")
        ELSE [eng |-> Forget(RemoveOrder(m, id), m.live[id]),
              out |-> <<OrderCancelled(m.live[id], Remaining(m, id),
                                       "USER_REQUESTED")>>]

\* _reject_reason(): the same checks in another order.
Refusal(r) == IF r.side \notin Sides THEN "INVALID_SIDE"
              ELSE IF r.tif \notin Tifs THEN "INVALID_TIF"
              ELSE IF r.price <= 0 THEN "INVALID_PRICE"
              ELSE "INVALID_QUANTITY"

Apply(m, r) ==
    CASE r.kind = "SubmitOrder" /\ ~WellFormed(r) -> Reject(m, r, Refusal(r))
      [] r.kind = "SubmitOrder" /\ WellFormed(r) -> Submit(m, r)
      [] r.kind = "CancelOrder" -> Cancel(m, r)
      [] r.kind \in Sequenced -> [eng |-> m, out |-> <<Forwarded(r)>>]
      [] OTHER -> [eng |-> m, out |-> <<>>]

\* snapshot(): _by_order_id is in the order of insertion, that of the ids.
Snapshot(m) ==
    [next   |-> m.next,
     orders |-> [i \in 1..Cardinality(DOMAIN m.live) |->
                   LET id == Ascending(DOMAIN m.live)[i]
                       order == m.live[id]
                       key == <<order.user, order.coid>>
                   IN  [order   |-> order,
                        qty     |-> Remaining(m, id),
                        indexed |-> key \in DOMAIN m.index /\ m.index[key] = id]]]
=============================================================================
