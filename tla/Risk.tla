-------------------------------- MODULE Risk --------------------------------
(***************************************************************************)
(* The gateway's risk state, services/gateway/risk.py, as operators on a   *)
(* record k:                                                               *)
(*                                                                         *)
(*   settled   cash and inventory, by resource                             *)
(*   reserved  what pending and open orders have committed, by resource    *)
(*   pending   (user, client id) -> the reservation of an order in flight  *)
(*   open      order id -> the reservation of a resting order              *)
(*   pool      the Reservation objects those two refer to                  *)
(*   last      last_seq                                                    *)
(*                                                                         *)
(* A buy consumes the resource <<user, "cash">>, a sell <<user, symbol>>,  *)
(* so that settled_cash and positions, and reserved and reserved_qty, are  *)
(* one function each.  A Reservation is an object: the request that made   *)
(* it, pending and open share it, and fills change its quantity for all.   *)
(* It is named by that request, or by the order id if apply() made it.     *)
(***************************************************************************)
EXTENDS OrderFlow, FiniteSetsExt, TLC

CONSTANTS
    MarketMakers,   \* the users who may sell what they do not hold
    Holdings,       \* what each resource holds at the genesis of the streams
    BandBps         \* Settings.market_order_band_bps

Cash == "cash"
Resources == Users \X (Symbols \union {Cash})

ASSUME CashIsNoSymbol == Cash \notin Symbols
ASSUME HoldingsAreNat == Holdings \in [Resources -> Nat]
ASSUME BandIsNat == BandBps \in Nat

\* ledger.calculate_fees
MakerFeeBps == 2
TakerFeeBps == 10
BpsDenominator == 10000
Fee(notional, bps) == (notional * bps) \div BpsDenominator

\* Fault: notional alone is reserved.
Notional(price, qty) == qty * price

\* The taker's fee is rounded up per unit.
BuyCost(price, qty) ==
    qty * (price - ((-(price * TakerFeeBps)) \div BpsDenominator))

Resource(o) == <<o.user, IF o.side = "BUY" THEN Cash ELSE o.sym>>
Cost(o, qty) == IF o.side = "BUY" THEN BuyCost(o.price, qty) ELSE qty

Floor0(n) == IF n > 0 THEN n ELSE 0
With(f, key, value) == Put(f, key, value)

Genesis == [settled  |-> Holdings,
            reserved |-> [x \in Resources |-> 0],
            pending |-> <<>>, open |-> <<>>, pool |-> <<>>,
            last |-> 0]

OrderKey(o) == <<o.user, o.coid>>

\* Python keeps an object for as long as something refers to it.
Collect(k, requests) ==
    [k EXCEPT !.pool = Restrict(@, DOMAIN @ \cap
                          (requests \union Range(k.pending) \union Range(k.open)))]

-----------------------------------------------------------------------------
(* What a request does. *)

Resting(k, sym, side) == {k.pool[k.open[id]].price : id \in
    {i \in DOMAIN k.open : LET o == k.pool[k.open[i]]
                           IN  o.sym = sym /\ o.side = side /\ o.qty > 0}}

\* banded_market_price: the best opposite price, widened by the band; 0 is None.
MarketPrice(k, sym, side) ==
    LET opposite == Resting(k, sym, Opposite(side))
    IN  CASE opposite = {} -> 0
          [] opposite # {} /\ side = "BUY" ->
                (Min(opposite) * (10000 + BandBps) + 9999) \div 10000
          [] opposite # {} /\ side = "SELL" ->
                Max({1, (Max(opposite) * (10000 - BandBps)) \div 10000})

Available(k, resource) == k.settled[resource] - k.reserved[resource]

\* reject_reason_for
Affordable(k, o) ==
    \/ Available(k, Resource(o)) >= Cost(o, o.qty)
    \/ o.side = "SELL" /\ o.user \in MarketMakers

Reserve(k, r, o) ==
    [k EXCEPT !.reserved[Resource(o)] = @ + Cost(o, o.qty),
              !.pool = With(@, r, Reservation(o)),
              !.pending = With(@, OrderKey(o), r)]

Release(k, rid, qty) ==
    [k EXCEPT !.reserved[Resource(k.pool[rid])] = Floor0(@ - Cost(k.pool[rid], qty))]

\* routes_orders._abandon
Abandon(k, r) ==
    LET key == OrderKey(k.pool[r])
        mine == key \in DOMAIN k.pending /\ k.pending[key] = r
    IN  Release([k EXCEPT !.pending = IF mine THEN Without(@, key) ELSE @],
                r, k.pool[r].qty)

-----------------------------------------------------------------------------
(* apply(): what the outbound stream does. *)

\* OrderAccepted adopts the pending reservation, or commits anew in a replay.
Accept(k, e) ==
    LET key == OrderKey(e)
    IN  IF key \in DOMAIN k.pending
        THEN [k EXCEPT !.pending = Without(@, key),
                       !.open = With(@, e.id, k.pending[key])]
        ELSE [k EXCEPT !.reserved[Resource(e)] = @ + Cost(e, e.qty),
                       !.pool = With(@, e.id, Reservation(e)),
                       !.open = With(@, e.id, e.id)]

\* Fault: a partly filled order keeps its quantity.
ReleaseFillKeepingQty(k, id, qty) ==
    IF id \notin DOMAIN k.open THEN k ELSE Release(k, k.open[id], qty)

ReleaseFill(k, id, qty) ==
    IF id \notin DOMAIN k.open THEN k
    ELSE LET rid  == k.open[id]
             left == Floor0(k.pool[rid].qty - qty)
         IN  [Release(k, rid, qty) EXCEPT
                 !.pool[rid].qty = left,
                 !.open = IF left = 0 THEN Without(@, id) ELSE @]

\* The fees and the cash, then the inventory, then what the orders committed.
Trade(k, e) ==
    LET notional == e.price * e.qty
        buyer  == IF e.aggressor = "BUY" THEN e.takerUser ELSE e.makerUser
        seller == IF e.aggressor = "BUY" THEN e.makerUser ELSE e.takerUser
        buyFee  == Fee(notional, IF e.aggressor = "BUY" THEN TakerFeeBps ELSE MakerFeeBps)
        sellFee == Fee(notional, IF e.aggressor = "BUY" THEN MakerFeeBps ELSE TakerFeeBps)
        moved == [[[[k.settled EXCEPT ![<<buyer, Cash>>] = @ - (notional + buyFee)]
                      EXCEPT ![<<seller, Cash>>] = @ + notional - sellFee]
                      EXCEPT ![<<buyer, e.sym>>] = @ + e.qty]
                      EXCEPT ![<<seller, e.sym>>] = @ - e.qty]
    IN  ReleaseFill(ReleaseFill([k EXCEPT !.settled = moved], e.maker, e.qty),
                    e.taker, e.qty)

\* _release_remaining
Retire(k, id) ==
    IF id \notin DOMAIN k.open THEN k
    ELSE Release([k EXCEPT !.open = Without(@, id)], k.open[id], k.pool[k.open[id]].qty)

Observe(k, e) ==
    LET seen == [k EXCEPT !.last = @ + 1]
    IN  CASE e.kind = "OrderAccepted"  -> Accept(seen, e)
          [] e.kind = "Fill"           -> Trade(seen, e)
          [] e.kind = "OrderCancelled" -> Retire(seen, e.id)
          [] e.kind = "AccountCreated" ->
                [seen EXCEPT !.settled[<<e.user, Cash>>] = Holdings[<<e.user, Cash>>]]
          [] e.kind = "CashCredited"   -> [seen EXCEPT !.settled[<<e.user, Cash>>] = @ + e.amount]
          [] OTHER -> seen

\* replay_from_stream: everything on the stream after last.
Replay(k, stream) ==
    Collect(FoldLeft(Observe, k, SubSeq(stream, k.last + 1, Len(stream))), {})

-----------------------------------------------------------------------------
(* The checkpoint. *)

Committed(k, rids, x) ==
    LET cost == [rid \in {r \in rids : Resource(k.pool[r]) = x} |->
                    Cost(k.pool[rid], k.pool[rid].qty)]
    IN  MapThenSumSet(LAMBDA rid : cost[rid], DOMAIN cost)

\* The open orders, each with its reservation.
Rows(k) == [id \in DOMAIN k.open |-> k.pool[k.open[id]]]

\* Fault: what orders in flight have committed is saved too.
DumpAll(k) ==
    [settled |-> k.settled, reserved |-> k.reserved,
     open |-> Rows(k), last |-> k.last]

\* dump_state: orders in flight are left out, and their commitments with them.
Dump(k) ==
    [settled  |-> k.settled,
     reserved |-> [x \in Resources |->
                     k.reserved[x] - Committed(k, Range(k.pending), x)],
     open     |-> Rows(k),
     last     |-> k.last]

\* load_state: cash commitments are recomputed, those of inventory read back.
Load(s) ==
    LET k == [settled |-> s.settled, reserved |-> s.reserved, pending |-> <<>>,
              open |-> [id \in DOMAIN s.open |-> id], pool |-> s.open,
              last |-> s.last]
    IN  [k EXCEPT !.reserved = [x \in Resources |->
            IF x[2] = Cash THEN Committed(k, DOMAIN s.open, x) ELSE s.reserved[x]]]
=============================================================================
