------------------------------ MODULE MCOrders ------------------------------
(***************************************************************************)
(* Orders with the C++ engine behind it.  One retail user holds cash, one  *)
(* tick short of both its buys, and a unit to sell; a market maker sells   *)
(* what it does not hold.  An engine is named by the records it applied.   *)
(***************************************************************************)
EXTENDS Orders

Engine == INSTANCE StreamEngine WITH ClientIds <- {1, 2, 3}, Prices <- {1000, 1050}

Buy(user, coid, qty)  == SubmitOrder(user, coid, "s1", "BUY", "GTC", 1000, qty)
Sell(user, coid, qty) == SubmitOrder(user, coid, "s1", "SELL", "GTC", 1000, qty)
MarketBuy(user, coid) == SubmitOrder(user, coid, "s1", "BUY", "GTC", 0, 1)

MCUsers == {1, 2}
MCMarketMakers == {2}
MCHoldings == [x \in Resources |->
                  CASE x = <<1, Cash>> -> 3002
                    [] x = <<2, Cash>> -> 5000
                    [] x = <<1, "s1">> -> 1
                    [] OTHER -> 0]

\* Two buys of which the cash covers either but, by one tick of fees, not both;
\* a market order, an unknown symbol and a cancel that share client ids.
MCMany == {Buy(1, 1, 2), Buy(1, 2, 1), Sell(2, 1, 3), Sell(1, 3, 1), MarketBuy(1, 1),
           [Buy(1, 2, 1) EXCEPT !.sym = "s9"], CancelOrder(1, 2, 1)}

\* The same unit offered twice, with a buyer for both, and without.
MCSells == {Sell(1, 1, 1), Sell(1, 2, 1), Buy(2, 1, 2)}
MCOne == {Sell(1, 1, 1), Sell(1, 2, 1)}

AtBand(a) == IF a.kind = "SubmitOrder" /\ a.price = 0
             THEN {[a EXCEPT !.price = p, !.tif = "IOC"] : p \in {1000, 1050}} ELSE {a}

Known(a) == a.kind = "CancelOrder" \/ a.sym \in Symbols
MCRequests == UNION {AtBand(a) : a \in {b \in Asks : Known(b)}}
MCStates == BoundedSeq(MCRequests, MaxInbound)
MCNew == <<>>

MCEngine(h) == FoldLeft(LAMBDA e, r : Engine!Apply(e, r).eng, Engine!New, h)

\* Beyond the bound nothing is received.
OnLog(h, r, out) == IF Len(h) < MaxInbound
                    THEN [eng |-> Append(h, r), out |-> out]
                    ELSE [eng |-> h, out |-> <<OrderRejected(r, "UNKNOWN_ORDER")>>]

MCApply(h, r) == OnLog(h, r, Engine!Apply(MCEngine(h), r).out)

\* Where nothing but the sells of MCOne arrives, they all rest: the same answers
\* without a matching engine, for the run that evaluates ENABLED.
MCRest(h, r) == OnLog(h, r, <<OrderAccepted(r, Len(h) + 1)>>)

MCOpen(h) == Engine!OpenOrders(MCEngine(h))

ASSUME RestIsTheEngine ==
    \A h \in BoundedSeq(MCOne, 1), r \in MCOne : MCRest(h, r).out = MCApply(h, r).out

\* A superset of the answers, given by its fields so that membership is cheap.
MCRecords ==
    [kind : {"OrderAccepted"}, id : Nat, user : 1..2, coid : 1..3, sym : {"s1"},
     side : Sides, tif : {"GTC", "IOC"}, price : {1000, 1050}, qty : 1..3]
    \union [kind : {"OrderRejected"}, user : 1..2, coid : 1..3, reason : {"UNKNOWN_ORDER"}]
    \union [kind : {"OrderCancelled"}, id : Nat, user : 1..2, coid : 1..3, sym : {"s1"},
            remaining : 1..3, reason : {"USER_REQUESTED", "IOC_EXPIRED"}]
    \union [kind : {"Fill"}, maker : Nat, taker : Nat, makerUser : 1..2, takerUser : 1..2,
            price : {1000, 1050}, qty : 1..3, sym : {"s1"}, aggressor : Sides]

MCSymmetry == Permutations(Calls)
=============================================================================
