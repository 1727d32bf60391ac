------------------------------ MODULE Quoting ------------------------------
(***************************************************************************)
(* services/bots/quoting.py, the market maker's decision, and the spread   *)
(* and size obligations of services/bots/obligations.py.  Basis points of  *)
(* the fair value throughout; prices are ticks, inventory is units.        *)
(***************************************************************************)
EXTENDS Integers

CONSTANTS HalfSpreadBps, SkewBps, Size,     \* quote_size
          MaxSpreadBps, MinSize             \* the obligations

ASSUME QuotingParameters ==
    /\ HalfSpreadBps \in Nat /\ SkewBps \in Nat /\ MaxSpreadBps \in Nat
    /\ Size \in Nat \ {0} /\ MinSize \in Nat

BPS == 10000
AtLeast(n, x) == IF x < n THEN n ELSE x
Magnitude(n) == IF n < 0 THEN -n ELSE n

HalfSpread(fair) == AtLeast(1, (fair * HalfSpreadBps) \div BPS)

\* Fault: one signed division, which floors towards minus infinity.
SkewSigned(fair, inventory) == (fair * SkewBps * inventory) \div (Size * BPS)

\* How far the quoted mid moves against the inventory held.
Skew(fair, inventory) ==
    LET size == (fair * SkewBps * Magnitude(inventory)) \div (Size * BPS)
    IN  IF inventory < 0 THEN -size ELSE size

\* desired_quote
DesiredQuote(fair, inventory) ==
    LET mid == fair - Skew(fair, inventory)
        bid == AtLeast(1, mid - HalfSpread(fair))
    IN  [BUY |-> bid, SELL |-> AtLeast(bid + 1, mid + HalfSpread(fair))]

\* ObligationMeter.observe, of a two-sided sample.
SpreadTooWide(q) ==
    ((q.SELL - q.BUY) * BPS) \div ((q.SELL + q.BUY) \div 2) > MaxSpreadBps
SizeTooSmall == Size < MinSize
Breached(q) == SpreadTooWide(q) \/ SizeTooSmall
=============================================================================
