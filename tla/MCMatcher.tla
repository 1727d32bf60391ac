----------------------------- MODULE MCMatcher -----------------------------
(***************************************************************************)
(* Matcher with an engine of one price and one seller, as small as one can *)
(* be whose answers tell which records it has applied, and how many: a     *)
(* sell adds two lots, an immediate buy takes what it can of three or of   *)
(* one, a cancel withdraws what is left.  The matcher treats every engine  *)
(* alike; Engines checks of the C++ one what AnswerLog assumes.            *)
(***************************************************************************)
EXTENDS Matcher, FiniteSetsExt

MCRequests == {"sell", "buy3", "buy1", "cancel"}
MCTwoRequests == {"sell", "buy3"}

\* The next order id, and the lots on offer.  An engine at the bound stays there.
MCStates == [next : 1..(MaxInbound + 1), lots : 0..(2 * MaxInbound)]
MCNew == [next |-> 1, lots |-> 0]
Engine(next, lots) == [next |-> Min({next, MaxInbound + 1}),
                       lots |-> Min({lots, 2 * MaxInbound})]

MCRecords ==
    [kind : {"OrderAccepted"}, id : 1..(MaxInbound + 1)]
    \union [kind : {"OrderCancelled"}, reason : {"USER_REQUESTED", "IOC_EXPIRED"},
            remaining : 1..(2 * MaxInbound)]
    \union [kind : {"OrderRejected"}]
    \union [kind : {"Fill"}, qty : 1..3]

Accepted(e) == <<[kind |-> "OrderAccepted", id |-> e.next]>>
Cancelled(why, lots) ==
    IF lots = 0 THEN <<>>
    ELSE <<[kind |-> "OrderCancelled", reason |-> why, remaining |-> lots]>>
Traded(lots) == IF lots = 0 THEN <<>> ELSE <<[kind |-> "Fill", qty |-> lots]>>

Buys(e, wanted) ==
    LET lots == Min({wanted, e.lots})
    IN  [eng |-> Engine(e.next + 1, e.lots - lots),
         out |-> Accepted(e) \o Traded(lots) \o Cancelled("IOC_EXPIRED", wanted - lots)]

MCApply(e, r) ==
    CASE r = "sell" -> [eng |-> Engine(e.next + 1, e.lots + 2), out |-> Accepted(e)]
      [] r = "buy3" -> Buys(e, 3)
      [] r = "buy1" -> Buys(e, 1)
      [] r = "cancel" /\ e.lots = 0 -> [eng |-> e, out |-> <<[kind |-> "OrderRejected"]>>]
      [] r = "cancel" /\ e.lots > 0 ->
            [eng |-> Engine(e.next, 0), out |-> Cancelled("USER_REQUESTED", e.lots)]
=============================================================================
