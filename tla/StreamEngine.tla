---------------------------- MODULE StreamEngine ----------------------------
(***************************************************************************)
(* The deployed matching engine: engine/cpp/order_book.cpp under           *)
(* engine/cpp/stream_engine.cpp.  A pure function of the records it is     *)
(* fed: Apply takes an engine and an inbound record and returns the engine *)
(* after it and the outbound records it answers, in order.                 *)
(*                                                                         *)
(* The book is kept as the C++ keeps it: orders by id, each with its       *)
(* arrival number, and one FIFO queue of ids per symbol, side and price.   *)
(* Beside the book stand live_ (the orders a cancel or a fill may name)    *)
(* and client_to_order_ (the index a cancel looks up), which nothing but   *)
(* the engine's own code keeps in step with it.                            *)
(***************************************************************************)
EXTENDS OrderFlow

CONSTANTS
    ClientIds,
    Prices          \* the price grid of the instance, positive integers

Keys == Users \X ClientIds

New == [next     |-> 1,
        orders   |-> <<>>,
        arrivals |-> [s \in Symbols |-> 0],
        levels   |-> <<>>,
        live     |-> <<>>,
        index    |-> <<>>]

\* ------------------------------------------------------- order_book.cpp
LevelOf(o) == <<o.sym, o.side, o.price>>
QueueAt(e, level) == IF level \in DOMAIN e.levels THEN e.levels[level] ELSE <<>>

AddOrder(e, o) ==
    [e EXCEPT !.orders = Put(e.orders, o.id,
                              [sym |-> o.sym, side |-> o.side, price |-> o.price,
                               qty |-> o.qty, arrival |-> e.arrivals[o.sym]]),
              !.arrivals = Put(e.arrivals, o.sym, e.arrivals[o.sym] + 1),
              !.levels = Put(e.levels, LevelOf(o), Append(QueueAt(e, LevelOf(o)), o.id))]

\* PriceLevel::remove_order_id
Erase(queue, id) == RemoveAt(queue, CHOOSE i \in DOMAIN queue : queue[i] = id)

RemoveOrder(e, id) ==
    LET level == LevelOf(e.orders[id])
        queue == Erase(e.levels[level], id)
    IN  [e EXCEPT !.orders = Without(e.orders, id),
                  !.levels = IF queue = <<>> THEN Without(e.levels, level)
                                             ELSE Put(e.levels, level, queue)]

Quoted(e, sym, side) == {p \in Prices : <<sym, side, p>> \in DOMAIN e.levels}

\* Fault: the best ask is the dearest.
DearestAsk(e, sym) == CHOOSE p \in Quoted(e, sym, "SELL") :
                         \A q \in Quoted(e, sym, "SELL") : p >= q

BestBid(e, sym) == CHOOSE p \in Quoted(e, sym, "BUY") :
                      \A q \in Quoted(e, sym, "BUY") : q <= p
BestAsk(e, sym) == CHOOSE p \in Quoted(e, sym, "SELL") :
                      \A q \in Quoted(e, sym, "SELL") : p <= q

CanMatch(e, sym) == /\ Quoted(e, sym, "BUY") # {}
                    /\ Quoted(e, sym, "SELL") # {}
                    /\ BestBid(e, sym) >= BestAsk(e, sym)

\* One turn of the loop in match(): the two front orders trade at the price
\* of the one that arrived first, and whichever is spent leaves the book.
Trade(e, sym) ==
    LET bid   == Head(e.levels[<<sym, "BUY", BestBid(e, sym)>>])
        ask   == Head(e.levels[<<sym, "SELL", BestAsk(e, sym)>>])
        maker == IF e.orders[bid].arrival < e.orders[ask].arrival THEN bid ELSE ask
        qty   == IF e.orders[bid].qty < e.orders[ask].qty
                 THEN e.orders[bid].qty ELSE e.orders[ask].qty
        hit   == [e EXCEPT !.orders =
                     [id \in DOMAIN e.orders |->
                        IF id \in {bid, ask} THEN [e.orders[id] EXCEPT !.qty = @ - qty]
                                             ELSE e.orders[id]]]
        Spent(f, id) == IF f.orders[id].qty = 0 THEN RemoveOrder(f, id) ELSE f
    IN  [eng  |-> Spent(Spent(hit, bid), ask),
         fill |-> [buy |-> bid, sell |-> ask,
                   price |-> e.orders[maker].price, qty |-> qty]]

Turn(m, sym) ==
    IF ~CanMatch(m.eng, sym) THEN m
    ELSE LET t == Trade(m.eng, sym)
         IN  [eng |-> t.eng, fills |-> Append(m.fills, t.fill)]

\* match(): every turn empties an order, so the book's size bounds the turns.
Match(book, sym) ==
    FoldLeft(Turn, [eng |-> book, fills |-> <<>>],
             [i \in 1..Cardinality(DOMAIN book.orders) |-> sym])

\* ----------------------------------------------------- stream_engine.cpp
KeyOf(order) == <<order.user, order.coid>>

\* Fault: the client index keeps its entry.
ForgetOrderOnly(e, id) == [e EXCEPT !.live = Without(e.live, id)]

Forget(e, id) == [e EXCEPT !.live = Without(e.live, id),
                           !.index = Without(e.index, KeyOf(e.live[id]))]

\* Fault: a filled order is never forgotten.
ForgetNever(e, id) == e

ForgetIfFilled(e, id) ==
    IF id \in DOMAIN e.orders \/ id \notin DOMAIN e.live THEN e ELSE Forget(e, id)

ForgetSpent(e, fill) == ForgetIfFilled(ForgetIfFilled(e, fill.buy), fill.sell)

Settle(e, fills) == FoldLeft(ForgetSpent, e, fills)

\* The order that just arrived is the taker.
FillRecord(live, id, r, f) ==
    LET buy  == live[f.buy]
        sell == live[f.sell]
    IN  IF f.buy = id THEN Fill(sell, buy, f.price, f.qty, r.sym, r.side)
                      ELSE Fill(buy, sell, f.price, f.qty, r.sym, r.side)

Submit(e, r) ==
    LET id    == e.next
        order == [id |-> id, user |-> r.user, coid |-> r.coid, sym |-> r.sym,
                  side |-> r.side, price |-> r.price]
        known == [e EXCEPT !.next = @ + 1,
                           !.index = Put(e.index, KeyOf(r), id),
                           !.live = Put(e.live, id, order)]
        done  == Match(AddOrder(known, [id |-> id, sym |-> r.sym, side |-> r.side,
                                        price |-> r.price, qty |-> r.qty]), r.sym)
        fills   == [i \in DOMAIN done.fills |-> FillRecord(known.live, id, r, done.fills[i])]
        settled == Settle(done.eng, done.fills)
        rests   == id \in DOMAIN settled.orders
        answer  == <<OrderAccepted(r, id)>> \o fills
    IN  IF r.tif = "IOC" /\ rests
        THEN [eng |-> Forget(RemoveOrder(settled, id), id),
              out |-> Append(answer, OrderCancelled(order, settled.orders[id].qty,
                                                    "IOC_EXPIRED"))]
        ELSE [eng |-> settled, out |-> answer]

Reject(e, r, reason) == [eng |-> e, out |-> <<OrderRejected(r, reason)>>]

\* Fault: an unknown target is answered by nothing.
CancelSilently(e, r) ==
    LET target == <<r.user, r.target>>
        id     == e.index[target]
    IN  IF target \notin DOMAIN e.index THEN [eng |-> e, out |-> <<>>]
        ELSE [eng |-> Forget(RemoveOrder(e, id), id),
              out |-> <<OrderCancelled(e.live[id], e.orders[id].qty,
                                       "USER_REQUESTED")>>]

\* Fault: the record of a cancel gives no remaining quantity.
CancelOfNothing(e, r) ==
    LET target == <<r.user, r.target>>
        id     == e.index[target]
    IN  IF target \notin DOMAIN e.index THEN Reject(e, r, "UNKNOWN_ORDER")
        ELSE [eng |-> Forget(RemoveOrder(e, id), id),
              out |-> <<OrderCancelled(e.live[id], 0, "USER_REQUESTED")>>]

Cancel(e, r) ==
    LET target == <<r.user, r.target>>
        id     == e.index[target]
    IN  IF target \notin DOMAIN e.index THEN Reject(e, r, "UNKNOWN_ORDER")
        ELSE [eng |-> Forget(RemoveOrder(e, id), id),
              out |-> <<OrderCancelled(e.live[id], e.orders[id].qty,
                                       "USER_REQUESTED")>>]

\* The bounds checks of submit(), in its order.
Refusal(r) == IF r.price <= 0 THEN "INVALID_PRICE"
              ELSE IF r.qty <= 0 THEN "INVALID_QUANTITY"
              ELSE IF r.side \notin Sides THEN "INVALID_SIDE"
              ELSE "INVALID_TIF"

Apply(e, r) ==
    CASE r.kind = "SubmitOrder" /\ ~WellFormed(r) -> Reject(e, r, Refusal(r))
      [] r.kind = "SubmitOrder" /\ WellFormed(r) -> Submit(e, r)
      [] r.kind = "CancelOrder" -> Cancel(e, r)
      [] r.kind \in Sequenced -> [eng |-> e, out |-> <<Forwarded(r)>>]
      [] OTHER -> [eng |-> e, out |-> <<>>]

\* The orders that rest: what their owners are told, and the quantity in the book.
OpenOrders(e) ==
    [id \in DOMAIN e.orders |->
        LET o == e.live[id]
        IN  [user |-> o.user, coid |-> o.coid, sym |-> o.sym, side |-> o.side,
             price |-> o.price, qty |-> e.orders[id].qty]]

\* --------------------------------------------------- snapshot and restore
(***************************************************************************)
(* The snapshot holds the next id and, in ascending id, each live order,   *)
(* its remaining quantity, and whether the client index reaches it.        *)
(* Arrival numbers are not in it: restore() re-adds the orders in id order *)
(* into an empty book.                                                     *)
(***************************************************************************)
IndexReaches(e, id) == /\ KeyOf(e.live[id]) \in DOMAIN e.index
                       /\ e.index[KeyOf(e.live[id])] = id

Snapshot(e) ==
    [next   |-> e.next,
     orders |-> [i \in 1..Cardinality(DOMAIN e.live) |->
                   LET id == Ascending(DOMAIN e.live)[i]
                   IN  [order   |-> e.live[id],
                        qty     |-> e.orders[id].qty,
                        indexed |-> IndexReaches(e, id)]]]

\* Fault: the index is rebuilt from every live order.
ReaddIndexing(e, row) ==
    LET o == row.order
        known == [e EXCEPT !.live = Put(e.live, o.id, o), !.index = Put(e.index, KeyOf(o), o.id)]
    IN  AddOrder(known, [id |-> o.id, sym |-> o.sym, side |-> o.side, price |-> o.price,
                         qty |-> row.qty])

Readd(e, row) ==
    LET o == row.order
        known == [e EXCEPT !.live = Put(e.live, o.id, o),
                           !.index = IF row.indexed THEN Put(e.index, KeyOf(o), o.id)
                                                    ELSE e.index]
    IN  AddOrder(known, [id |-> o.id, sym |-> o.sym, side |-> o.side, price |-> o.price,
                         qty |-> row.qty])

Restore(snap) == [FoldLeft(Readd, New, snap.orders) EXCEPT !.next = snap.next]
=============================================================================
