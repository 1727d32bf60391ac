------------------------- MODULE MarketMaker_proofs -------------------------
(***************************************************************************)
(* The market maker's price function, for every fair value, inventory and  *)
(* choice of the parameters; and its quotes and the exchange's orders, for *)
(* every set of fair values and any number of decisions, trades, lost      *)
(* answers, late requests, failed reads and restarts.                      *)
(*                                                                         *)
(* The argument is the client order id.  No id at or above the counter has *)
(* been seen by the exchange, an id that is being sent stands for one      *)
(* quote only, and no late request carries it (IdInv).  What is live is    *)
(* then the resting quote of its side, the decision being sent, or a stray *)
(* (BookInv); during start-up, what is still to be cancelled, or a stray.  *)
(***************************************************************************)
EXTENDS MarketMaker, TLAPS

-----------------------------------------------------------------------------
(* The price function, for every fair value, inventory and parameters.      *)

\* Floor division by the same divisor keeps an order.
LEMMA DivIsMonotone ==
    ASSUME NEW a \in Int, NEW b \in Int, NEW c \in Nat \ {0}, a <= b
    PROVE  a \div c \in Int /\ b \div c \in Int /\ a \div c <= b \div c
<1>1. a \div c \in Int /\ b \div c \in Int
  OBVIOUS
<1>2. c * (a \div c) <= a /\ b < c * (b \div c) + c
  OBVIOUS
<1>3. ASSUME b \div c < a \div c
      PROVE  FALSE
  <2>1. (b \div c) + 1 <= a \div c
    BY <1>1, <1>3
  <2>2. c * ((b \div c) + 1) <= c * (a \div c)
    BY <1>1, <2>1
  <2>3. QED
    BY <1>1, <1>2, <2>2
<1>4. QED
  BY <1>1, <1>3

LEMMA SkewIsOdd ==
    ASSUME NEW f \in Nat, NEW n \in Int
    PROVE  Skew(f, n) \in Int /\ Skew(f, -n) = -Skew(f, n)
<1> DEFINE size == (f * SkewBps * Magnitude(n)) \div (Size * BPS)
<1>1. Magnitude(n) \in Nat /\ Magnitude(-n) = Magnitude(n)
  BY DEF Magnitude
<1>2. Size * BPS \in Nat \ {0} /\ f * SkewBps * Magnitude(n) \in Nat
  BY <1>1, QuotingParameters DEF BPS
<1>3. size \in Int /\ (n = 0 => size = 0)
  <2>1. size \in Int
    BY <1>2
  <2>2. ASSUME n = 0
        PROVE  size = 0
    <3>1. f * SkewBps * Magnitude(n) = 0
      BY <2>2, QuotingParameters DEF Magnitude
    <3>2. \A d \in Nat \ {0} : 0 \div d = 0
      OBVIOUS
    <3>3. QED
      BY <1>2, <3>1, <3>2
  <2>3. QED
    BY <2>1, <2>2
<1>4. /\ Skew(f, n) = IF n < 0 THEN -size ELSE size
      /\ Skew(f, -n) = IF -n < 0 THEN -size ELSE size
  BY <1>1 DEF Skew
<1> HIDE DEF size
<1>5. QED
  BY <1>3, <1>4

LEMMA SkewIsMonotone ==
    ASSUME NEW f \in Nat, NEW n \in Nat
    PROVE  Skew(f, n) <= Skew(f, n + 1)
<1>1. /\ f * SkewBps * n \in Int /\ f * SkewBps * (n + 1) \in Int
      /\ f * SkewBps * n <= f * SkewBps * (n + 1)
  <2>1. f * SkewBps \in Nat
    BY QuotingParameters
  <2>2. \A m \in Nat : m * n \in Int /\ m * (n + 1) \in Int /\ m * n <= m * (n + 1)
    OBVIOUS
  <2>3. QED
    BY <2>1, <2>2
<1>2. Size * BPS \in Nat \ {0}
  BY QuotingParameters DEF BPS
<1>3. (f * SkewBps * n) \div (Size * BPS) <= (f * SkewBps * (n + 1)) \div (Size * BPS)
  BY <1>1, <1>2, DivIsMonotone
<1>4. QED
  BY <1>3 DEF Skew, Magnitude

\* The same for a short position, of which the long one is the mirror image.
LEMMA SkewIsMonotoneEverywhere ==
    ASSUME NEW f \in Nat, NEW n \in Int
    PROVE  Skew(f, n) <= Skew(f, n + 1)
<1>1. CASE n >= 0
  BY <1>1, SkewIsMonotone
<1>2. CASE n < 0
  <2>1. -(n + 1) \in Nat /\ -n = -(n + 1) + 1
    BY <1>2
  <2>2. Skew(f, -(n + 1)) <= Skew(f, -n)
    <3>1. Skew(f, -(n + 1)) <= Skew(f, -(n + 1) + 1)
      BY <2>1, SkewIsMonotone
    <3>2. QED
      BY <2>1, <3>1
  <2>3. /\ Skew(f, n) \in Int /\ Skew(f, -n) = -Skew(f, n)
        /\ Skew(f, n + 1) \in Int /\ Skew(f, -(n + 1)) = -Skew(f, n + 1)
    BY SkewIsOdd
  <2>4. QED
    BY <2>2, <2>3
<1>3. QED
  BY <1>1, <1>2

LEMMA HalfSpreadIsPositive ==
    ASSUME NEW f \in Nat
    PROVE  HalfSpread(f) \in Nat \ {0}
<1>1. (f * HalfSpreadBps) \div BPS \in Int
  BY QuotingParameters DEF BPS
<1>2. QED
  BY <1>1 DEF HalfSpread, AtLeast

-----------------------------------------------------------------------------
\* The quoted market is never crossed nor locked, and its bid is a price, however
\* far the skew pushes it (desired_quote, quoting.py:98-102).
THEOREM QuoteIsAMarket ==
    ASSUME NEW f \in Nat, NEW n \in Int
    PROVE  LET q == DesiredQuote(f, n) IN 1 <= q.BUY /\ q.BUY < q.SELL
<1>1. HalfSpread(f) \in Nat \ {0} /\ Skew(f, n) \in Int
  BY HalfSpreadIsPositive, SkewIsOdd
<1>2. QED
  BY <1>1 DEF DesiredQuote, AtLeast

\* Short is the mirror image of long about the fair value, to the tick, as long as
\* neither bid meets the floor of one tick (quoting.py:91-95: "Magnitude then
\* sign, rather than one signed division").
THEOREM ShortMirrorsLong ==
    ASSUME NEW f \in Nat, NEW n \in Int, HalfSpread(f) + Magnitude(Skew(f, n)) < f
    PROVE  LET q == DesiredQuote(f, n)
               mirror == DesiredQuote(f, -n)
           IN  mirror.SELL - f = f - q.BUY /\ mirror.BUY - f = f - q.SELL
<1>1. HalfSpread(f) \in Nat \ {0} /\ Skew(f, n) \in Int /\ Skew(f, -n) = -Skew(f, n)
  BY HalfSpreadIsPositive, SkewIsOdd
<1>2. QED
  BY <1>1 DEF DesiredQuote, AtLeast, Magnitude

\* The more the maker holds, the lower it quotes, on both sides (quoting.py:91-96).
THEOREM InventoryLowersTheQuote ==
    ASSUME NEW f \in Nat, NEW n \in Int
    PROVE  LET q == DesiredQuote(f, n)
               longer == DesiredQuote(f, n + 1)
           IN  longer.BUY <= q.BUY /\ longer.SELL <= q.SELL
<1>1. /\ HalfSpread(f) \in Nat \ {0} /\ Skew(f, n) \in Int /\ Skew(f, n + 1) \in Int
      /\ Skew(f, n) <= Skew(f, n + 1)
  BY HalfSpreadIsPositive, SkewIsOdd, SkewIsMonotoneEverywhere
<1>2. QED
  BY <1>1 DEF DesiredQuote, AtLeast

-----------------------------------------------------------------------------
(* The maker and the exchange.                                              *)

Quotes == [side : Sides, price : Int]

TypeInv ==
    /\ pc \in {"signing", "clearing", "idle", "quoting", "placing"}
    /\ fair \in Nat /\ known \in Int /\ key \in Nat /\ nextKey \in Nat
    /\ inventory \in Int /\ shown.inventory \in Int
    /\ DOMAIN resting = Sides
    /\ todo \in {<<>>, <<"SELL">>, <<"BUY", "SELL">>}
    /\ pc = "placing" => todo # <<>>

IdInv ==
    /\ live \subseteq DOMAIN placed /\ shown.open \subseteq DOMAIN placed
    /\ \A k \in DOMAIN placed : k \in Nat /\ k < nextKey /\ placed[k] \in Quotes
    /\ \A r \in late : r.quote # None =>
          r.key \in Nat /\ r.key < nextKey /\ r.quote \in Quotes
    /\ pc = "placing" =>
          /\ key < nextKey /\ resting[Side] = None
          /\ key \in DOMAIN placed => placed[key] = Quote
          /\ \A r \in late : r.quote # None => r.key # key

BookInv ==
    /\ \A r \in late : r.quote # None => r.key \in strays \union DOMAIN placed
    /\ clearing \subseteq DOMAIN placed
    /\ pc = "clearing" => live \subseteq strays \union clearing

IInv == TypeInv /\ IdInv /\ BookInv /\ QuotesAreOrders /\ OrdersAreQuotes

-----------------------------------------------------------------------------
\* A quote is an order, never the mark for none.
LEMMA QuoteIsNotNone ==
    ASSUME TypeInv, todo # <<>>
    PROVE  /\ Side \in Sides /\ Tail(todo) \in {<<>>, <<"SELL">>}
           /\ Quote \in Quotes /\ Quote # None
<1>1. Side \in Sides /\ Tail(todo) \in {<<>>, <<"SELL">>}
  <2>1. CASE todo = <<"SELL">>
    <3>1. Head(todo) = "SELL" /\ Tail(todo) = <<>>
      BY <2>1
    <3>2. QED
      BY <3>1 DEF Side, Sides
  <2>2. CASE todo = <<"BUY", "SELL">>
    <3>1. Head(todo) = "BUY" /\ Tail(todo) = <<"SELL">>
      BY <2>2
    <3>2. QED
      BY <3>1 DEF Side, Sides
  <2>3. QED
    BY <2>1, <2>2 DEF TypeInv
<1>2. wanted.BUY \in Int /\ wanted.SELL \in Int
  <2>1. HalfSpread(fair) \in Int /\ Skew(fair, known) \in Int
    <3>1. fair \in Nat /\ known \in Int
      BY DEF TypeInv
    <3>2. QED
      BY <3>1, HalfSpreadIsPositive, SkewIsOdd
  <2>2. QED
    BY <2>1 DEF TypeInv, wanted, DesiredQuote, AtLeast
<1>3. wanted[Side] \in Int
  BY <1>1, <1>2 DEF Sides
<1>4. Quote \in Quotes
  BY <1>1, <1>3 DEF Quote, Quotes
<1>5. QED
  BY <1>1, <1>4, MakerParameters DEF Quotes, Sides

\* What executing a request does to the exchange.
LEMMA ExecuteEffect ==
    ASSUME NEW r, Execute(r), live \subseteq DOMAIN placed
    PROVE  /\ \A k \in DOMAIN placed : k \in DOMAIN placed' /\ placed'[k] = placed[k]
           /\ live' \subseteq DOMAIN placed'
           /\ r.quote = None => placed' = placed /\ live' = live \ {r.key}
           /\ r.quote # None =>
                 /\ DOMAIN placed' = DOMAIN placed \union {r.key}
                 /\ live' \subseteq live \union ({r.key} \ DOMAIN placed)
                 /\ r.key \notin DOMAIN placed => placed'[r.key] = r.quote
<1>1. CASE r.quote = None
  BY <1>1 DEF Execute
<1>2. CASE r.quote # None /\ r.key \in DOMAIN placed
  BY <1>2 DEF Execute
<1>3. CASE r.quote # None /\ r.key \notin DOMAIN placed
  <2> DEFINE own == {k \in live : Crosses(r.quote, placed[k])}
  <2>1. placed' = [k \in DOMAIN placed \union {r.key} |->
                     IF k = r.key THEN r.quote ELSE placed[k]]
    BY <1>3 DEF Execute
  <2>2. live' = live \union {r.key} \/ \E k \in own : live' = live \ {k}
    BY <1>3 DEF Execute
  <2>3. /\ DOMAIN placed' = DOMAIN placed \union {r.key}
        /\ placed'[r.key] = r.quote
        /\ \A k \in DOMAIN placed : placed'[k] = placed[k]
    BY <1>3, <2>1
  <2>4. QED
    BY <1>3, <2>2, <2>3
<1>4. QED
  BY <1>1, <1>2, <1>3

\* A cancel leaves the orders, and at most takes its target from the book.
LEMMA CancelEffect ==
    ASSUME NEW k, Halted(Cancel(k)), live \subseteq DOMAIN placed
    PROVE  placed' = placed /\ (live' = live \/ live' = live \ {k})
<1>1. Cancel(k).quote = None /\ Cancel(k).key = k
  BY DEF Cancel
<1>2. QED
  BY <1>1, ExecuteEffect DEF Halted

-----------------------------------------------------------------------------
LEMMA InvInit == Init => IInv
<1> SUFFICES ASSUME Init PROVE IInv
  OBVIOUS
<1> USE DEF Init
<1>1. TypeInv
  BY DEF TypeInv
<1>2. DOMAIN placed = {}
  OBVIOUS
<1>3. IdInv /\ BookInv
  BY <1>2 DEF IdInv, BookInv
<1>4. QuotesAreOrders /\ OrdersAreQuotes
  BY DEF QuotesAreOrders, OrdersAreQuotes
<1>5. QED
  BY <1>1, <1>3, <1>4 DEF IInv

\* The exchange on its own: others trade, the read model follows.
LEMMA InvExchange ==
    ASSUME IInv, Project \/ \E k \in live : Trade(k)
    PROVE  IInv'
<1> USE DEF IInv, maker, tick
<1>1. CASE Project
  <2> USE <1>1 DEF Project
  <2>1. TypeInv'
    BY DEF TypeInv
  <2>2. IdInv'
    BY DEF IdInv, Side, Quote, wanted, DesiredQuote, HalfSpread, Skew
  <2>3. BookInv' /\ QuotesAreOrders' /\ OrdersAreQuotes'
    BY DEF BookInv, QuotesAreOrders, OrdersAreQuotes
  <2>4. QED
    BY <2>1, <2>2, <2>3
<1>2. ASSUME NEW k \in live, Trade(k)
      PROVE  IInv'
  <2> USE <1>2 DEF Trade
  <2>1. TypeInv'
    BY DEF TypeInv
  <2>2. IdInv'
    BY DEF IdInv, Side, Quote, wanted, DesiredQuote, HalfSpread, Skew
  <2>3. BookInv' /\ QuotesAreOrders' /\ OrdersAreQuotes'
    BY DEF BookInv, QuotesAreOrders, OrdersAreQuotes
  <2>4. QED
    BY <2>1, <2>2, <2>3
<1>3. QED
  BY <1>1, <1>2

\* A late request: a cancel only takes from the book; an order is placed under
\* an id that nobody is sending, and is a stray.
LEMMA InvLandLate ==
    ASSUME IInv, LandLate
    PROVE  IInv'
<1> USE DEF IInv
<1> PICK r \in late : Execute(r) /\ late' = late \ {r}
  BY DEF LandLate
<1>0. UNCHANGED <<pc, maker, inventory, shown, strays>>
  BY DEF LandLate
<1>1. TypeInv'
  BY <1>0 DEF TypeInv, maker, tick
<1>2. live \subseteq DOMAIN placed
  BY DEF IdInv
<1>3. Quote' = Quote /\ Side' = Side
  BY <1>0 DEF maker, tick, Side, Quote, wanted, DesiredQuote, HalfSpread, Skew
<1>4. /\ \A k \in DOMAIN placed : k \in DOMAIN placed' /\ placed'[k] = placed[k]
      /\ live' \subseteq DOMAIN placed'
      /\ r.quote = None => placed' = placed /\ live' = live \ {r.key}
      /\ r.quote # None => /\ DOMAIN placed' = DOMAIN placed \union {r.key}
                           /\ live' \subseteq live \union ({r.key} \ DOMAIN placed)
                           /\ r.key \notin DOMAIN placed => placed'[r.key] = r.quote
  BY <1>2, ExecuteEffect
<1>5. /\ DOMAIN placed \subseteq DOMAIN placed'
      /\ DOMAIN placed' \subseteq DOMAIN placed \union {k \in {r.key} : r.quote # None}
      /\ live' \subseteq live \union {k \in {r.key} \ DOMAIN placed : r.quote # None}
  BY <1>4
<1>6. late' \subseteq late /\ r \in late
  OBVIOUS
<1>7. IdInv'
  <2>1. live' \subseteq DOMAIN placed' /\ shown'.open \subseteq DOMAIN placed'
    BY <1>0, <1>4, <1>5 DEF IdInv
  <2>2. nextKey' = nextKey /\ pc' = pc /\ key' = key /\ resting' = resting
    BY <1>0 DEF maker, tick
  <2>3. \A k \in DOMAIN placed' : k \in Nat /\ k < nextKey' /\ placed'[k] \in Quotes
    BY <1>4, <1>5, <2>2 DEF IdInv
  <2>4. \A q \in late' : q.quote # None =>
           q.key \in Nat /\ q.key < nextKey' /\ q.quote \in Quotes
    BY <1>6, <2>2 DEF IdInv
  <2>5. ASSUME pc' = "placing"
        PROVE  /\ key' < nextKey' /\ resting'[Side'] = None
               /\ key' \in DOMAIN placed' => placed'[key'] = Quote'
               /\ \A q \in late' : q.quote # None => q.key # key'
    BY <1>3, <1>4, <1>5, <1>6, <2>2, <2>5 DEF IdInv
  <2>6. QED
    BY <2>1, <2>3, <2>4, <2>5 DEF IdInv
<1>8. /\ strays' = strays /\ clearing' = clearing /\ pc' = pc /\ resting' = resting /\ key' = key
  BY <1>0 DEF maker, tick
<1>9. BookInv'
  BY <1>5, <1>6, <1>8 DEF BookInv
<1>10. QuotesAreOrders'
  BY <1>4, <1>8 DEF QuotesAreOrders
<1>11. OrdersAreQuotes'
  <2>1. live' \ strays' \subseteq live \ strays
    BY <1>5, <1>6, <1>8 DEF BookInv
  <2>2. QED
    BY <1>4, <1>8, <2>1 DEF OrdersAreQuotes, IdInv
<1>12. QED
  BY <1>1, <1>7, <1>9, <1>10, <1>11

-----------------------------------------------------------------------------
\* Start-up: what is in the book and not to be cancelled becomes a stray, and a
\* cancel that is refused makes its target one.
LEMMA InvStartUp ==
    ASSUME IInv, SignIn \/ Clear
    PROVE  IInv'
<1> USE DEF IInv
<1>1. CASE SignIn
  <2> USE <1>1 DEF SignIn, tick, exchange
  <2>1. clearing' \subseteq DOMAIN placed
    BY DEF IdInv
  <2>2. TypeInv' /\ IdInv'
    BY DEF TypeInv, IdInv
  <2>3. BookInv'
    BY <2>1 DEF BookInv
  <2>4. QuotesAreOrders' /\ OrdersAreQuotes'
    BY DEF QuotesAreOrders, OrdersAreQuotes
  <2>5. QED
    BY <2>2, <2>3, <2>4
<1>2. CASE Clear
  <2> USE <1>2 DEF tick
  <2>0. /\ pc = "clearing" /\ pc' \in {"clearing", "idle"}
        /\ pc' = "idle" => clearing = {}
        /\ UNCHANGED <<tick, resting, nextKey, known, inventory, shown, late>>
    BY DEF Clear
  <2>1. /\ placed' = placed /\ live' \subseteq live /\ clearing' \subseteq clearing
        /\ strays \subseteq strays' /\ clearing \intersect live' \subseteq clearing' \union strays'
    <3>1. CASE clearing = {}
      BY <3>1 DEF Clear
    <3>2. CASE clearing # {}
      <4>1. PICK k \in clearing :
                /\ clearing' = clearing \ {k}
                /\ \/ Execute(Cancel(k)) /\ strays' = strays
                   \/ Halted(Cancel(k)) /\ strays' = strays \union {k}
        BY <3>2 DEF Clear
      <4>2. CASE Execute(Cancel(k)) /\ strays' = strays
        <5>1. placed' = placed /\ live' = live \ {k}
          <6>1. Cancel(k).quote = None /\ Cancel(k).key = k /\ live \subseteq DOMAIN placed
            BY DEF Cancel, IdInv
          <6>2. QED
            BY <4>2, <6>1, ExecuteEffect
        <5>2. QED
          BY <4>1, <4>2, <5>1
      <4>3. CASE Halted(Cancel(k)) /\ strays' = strays \union {k}
        <5>1. placed' = placed /\ live' \subseteq live
          BY <4>3, CancelEffect DEF IdInv
        <5>2. QED
          BY <4>1, <4>3, <5>1
      <4>4. QED
        BY <4>1, <4>2, <4>3
    <3>3. QED
      BY <3>1, <3>2
  <2>2. TypeInv' /\ IdInv'
    BY <2>0, <2>1 DEF TypeInv, IdInv
  <2>3. BookInv'
    BY <2>0, <2>1 DEF BookInv
  <2>4. QuotesAreOrders'
    BY <2>0, <2>1 DEF QuotesAreOrders
  <2>5. OrdersAreQuotes'
    <3>1. pc' = "idle" => live' \subseteq strays'
      BY <2>0, <2>1 DEF BookInv
    <3>2. QED
      BY <2>0, <3>1 DEF OrdersAreQuotes
  <2>6. QED
    BY <2>2, <2>3, <2>4, <2>5
<1>3. QED
  BY <1>1, <1>2

\* What a tick decides without a request.
LEMMA InvTick ==
    ASSUME IInv, (\E value \in Fairs : StartTick(value)) \/ Keep \/ EndTick \/ PlaceNew
    PROVE  IInv'
<1> USE DEF IInv, exchange
<1>1. CASE \E value \in Fairs : StartTick(value)
  <2>1. TypeInv'
    BY <1>1, MakerParameters DEF StartTick, Refreshed, TypeInv
  <2>2. IdInv' /\ BookInv' /\ QuotesAreOrders' /\ OrdersAreQuotes'
    BY <1>1 DEF StartTick, IdInv, BookInv, QuotesAreOrders, OrdersAreQuotes
  <2>3. QED
    BY <2>1, <2>2
<1>2. CASE Keep
  <2> USE <1>2 DEF Keep, NextSide
  <2>1. TypeInv'
    BY QuoteIsNotNone DEF TypeInv
  <2>2. IdInv' /\ BookInv' /\ QuotesAreOrders' /\ OrdersAreQuotes'
    BY DEF IdInv, BookInv, QuotesAreOrders, OrdersAreQuotes
  <2>3. QED
    BY <2>1, <2>2
<1>3. CASE EndTick
  <2> USE <1>3 DEF EndTick, LeaveTick
  <2>1. TypeInv'
    BY DEF TypeInv
  <2>2. IdInv' /\ BookInv' /\ QuotesAreOrders' /\ OrdersAreQuotes'
    BY DEF IdInv, BookInv, QuotesAreOrders, OrdersAreQuotes
  <2>3. QED
    BY <2>1, <2>2
<1>4. CASE PlaceNew
  <2> USE <1>4 DEF PlaceNew, TakeKey
  <2>1. TypeInv'
    BY DEF TypeInv
  <2>2. IdInv'
    <3>1. nextKey \notin DOMAIN placed /\ \A r \in late : r.quote # None => r.key # nextKey
      BY DEF TypeInv, IdInv
    <3>2. nextKey < nextKey' /\ \A n \in Nat : n < nextKey => n < nextKey'
      BY DEF TypeInv
    <3>3. QED
      BY <3>1, <3>2 DEF IdInv, Side
  <2>3. BookInv' /\ QuotesAreOrders' /\ OrdersAreQuotes'
    BY DEF BookInv, QuotesAreOrders, OrdersAreQuotes
  <2>4. QED
    BY <2>1, <2>2, <2>3
<1>5. QED
  BY <1>1, <1>2, <1>3, <1>4

-----------------------------------------------------------------------------
\* What a decision starts from: an id the exchange has never seen.
LEMMA KeyIsFresh ==
    ASSUME IInv, TakeKey
    PROVE  /\ key' \in Nat /\ nextKey' \in Nat /\ key' < nextKey' /\ key' \notin DOMAIN placed
           /\ \A n \in Nat : n < nextKey => n < nextKey' /\ n # key'
  BY DEF IInv, TypeInv, IdInv, TakeKey

\* The cancel of a quote: its entry is gone, and so is the order, or it is a
\* stray.  When the call raises the entry stays, and so may the order.
LEMMA InvPull ==
    ASSUME IInv, Pull \/ PullBreaks
    PROVE  IInv'
<1> USE DEF IInv
<1>1. CASE Pull
  <2> DEFINE old == resting[Side].key
  <2>0. /\ pc = "quoting" /\ todo # <<>> /\ TakeKey /\ pc' = "placing"
        /\ resting' = [resting EXCEPT ![Side] = None]
        /\ UNCHANGED <<todo, fair, known, clearing, inventory, shown, late>>
    BY <1>1 DEF Pull, TakeKey
  <2>1. Side \in Sides
    BY <2>0, QuoteIsNotNone
  <2>2. /\ placed' = placed /\ live' \subseteq live
        /\ strays \subseteq strays'
        /\ old \in live' => old \in strays'
    <3>1. Cancel(old).quote = None /\ Cancel(old).key = old /\ live \subseteq DOMAIN placed
      BY DEF Cancel, IdInv
    <3>2. CASE Execute(Cancel(old)) /\ strays' = strays
      <4>1. placed' = placed /\ live' = live \ {old}
        BY <3>1, <3>2, ExecuteEffect
      <4>2. QED
        BY <3>2, <4>1
    <3>3. CASE Halted(Cancel(old)) /\ strays' = strays \union {old}
      BY <3>1, <3>3, CancelEffect
    <3>4. QED
      BY <1>1, <3>2, <3>3 DEF Pull
  <2>3. TypeInv'
    BY <2>0, KeyIsFresh DEF TypeInv
  <2>4. IdInv'
    BY <2>0, <2>1, <2>2, KeyIsFresh DEF IdInv, TypeInv, Side
  <2>5. BookInv'
    BY <2>0, <2>2 DEF BookInv
  <2>6. QuotesAreOrders'
    BY <2>0, <2>1, <2>2 DEF QuotesAreOrders, TypeInv
  <2>7. OrdersAreQuotes'
    <3> SUFFICES ASSUME NEW k \in live' \ strays'
                 PROVE  resting'[placed'[k].side] = [key |-> k, price |-> placed'[k].price]
      BY DEF OrdersAreQuotes
    <3>1. k \in live \ strays /\ placed[k] \in Quotes /\ k # old
      BY <2>2 DEF IdInv
    <3>2. resting[placed[k].side] = [key |-> k, price |-> placed[k].price]
      BY <2>0, <3>1 DEF OrdersAreQuotes
    <3>3. placed[k].side # Side
      BY <3>1, <3>2
    <3>4. QED
      BY <2>0, <2>1, <2>2, <3>1, <3>2, <3>3 DEF TypeInv
  <2>8. QED
    BY <2>3, <2>4, <2>5, <2>6, <2>7
<1>2. CASE PullBreaks
  <2> DEFINE r == Cancel(resting[Side].key)
  <2>0. /\ pc = "quoting" /\ Lost(r) /\ LeaveTick
        /\ UNCHANGED <<resting, nextKey, known, clearing, inventory, shown, strays>>
    BY <1>2 DEF PullBreaks
  <2>1. r.quote = None /\ live \subseteq DOMAIN placed
    BY DEF Cancel, IdInv
  <2>2. placed' = placed /\ live' \subseteq live /\ late' \subseteq late \union {r}
    <3>1. CASE Execute(r) /\ late' = late
      BY <2>1, <3>1, ExecuteEffect
    <3>2. QED
      BY <2>0, <3>1 DEF Lost
  <2>3. TypeInv'
    BY <2>0 DEF TypeInv, LeaveTick
  <2>4. IdInv'
    BY <2>0, <2>1, <2>2 DEF IdInv, LeaveTick
  <2>5. BookInv'
    BY <2>0, <2>1, <2>2 DEF BookInv, LeaveTick
  <2>6. QuotesAreOrders' /\ OrdersAreQuotes'
    BY <2>0, <2>2 DEF QuotesAreOrders, OrdersAreQuotes, LeaveTick, IdInv
  <2>7. QED
    BY <2>3, <2>4, <2>5, <2>6
<1>3. QED
  BY <1>1, <1>2

-----------------------------------------------------------------------------
\* The decision's request, when Redis may or may not have executed it.
LEMMA SubmitEffect ==
    ASSUME IInv, pc = "placing", Halted(Submit(key, Quote))
    PROVE  /\ \A k \in DOMAIN placed : k \in DOMAIN placed' /\ placed'[k] = placed[k]
           /\ DOMAIN placed' \subseteq DOMAIN placed \union {key}
           /\ live' \subseteq DOMAIN placed' /\ live' \subseteq live \union {key}
           /\ key \in DOMAIN placed' => placed'[key] = Quote
           /\ Execute(Submit(key, Quote)) => key \in DOMAIN placed'
<1> DEFINE r == Submit(key, Quote)
<1>1. r.key = key /\ r.quote = Quote /\ live \subseteq DOMAIN placed
  BY DEF Submit, IInv, IdInv
<1>2. Quote # None
  BY QuoteIsNotNone DEF IInv, TypeInv
<1>3. key \in DOMAIN placed => placed[key] = Quote
  BY DEF IInv, IdInv
<1>4. CASE Execute(r)
  BY <1>1, <1>2, <1>3, <1>4, ExecuteEffect
<1>5. CASE UNCHANGED <<placed, live>>
  <2>1. ~Execute(r) \/ Execute(r)
    OBVIOUS
  <2>2. QED
    BY <1>1, <1>3, <1>4, <1>5
<1>6. QED
  BY <1>4, <1>5 DEF Halted

\* What SubmitEffect leaves of the exchange, when the decision is over and its id
\* is a stray, or when it goes on.
LEMMA InvDecision ==
    ASSUME IInv, pc = "placing", Halted(Submit(key, Quote)),
           UNCHANGED <<resting, nextKey, known, clearing, inventory, shown>>,
           TypeInv', strays \subseteq strays',
           \A q \in late' : q \in late \/ q = Submit(key, Quote),
           \/ pc' = "placing" /\ UNCHANGED <<todo, fair, key, late>>
           \/ pc' \in {"quoting", "idle"} /\ key \in strays'
    PROVE  IInv'
<1>1. /\ \A k \in DOMAIN placed : k \in DOMAIN placed' /\ placed'[k] = placed[k]
      /\ DOMAIN placed' \subseteq DOMAIN placed \union {key}
      /\ live' \subseteq DOMAIN placed' /\ live' \subseteq live \union {key}
      /\ key \in DOMAIN placed' => placed'[key] = Quote
  BY SubmitEffect
<1>2. Quote \in Quotes /\ key < nextKey /\ key \in Nat
  BY QuoteIsNotNone DEF IInv, TypeInv, IdInv, Quote
<1>3. Submit(key, Quote).key = key /\ Submit(key, Quote).quote = Quote
  BY DEF Submit
<1>4. IdInv'
  <2>1. live' \subseteq DOMAIN placed' /\ shown'.open \subseteq DOMAIN placed'
    BY <1>1 DEF IInv, IdInv
  <2>2. \A k \in DOMAIN placed' : k \in Nat /\ k < nextKey' /\ placed'[k] \in Quotes
    BY <1>1, <1>2 DEF IInv, IdInv
  <2>3. \A q \in late' : q.quote # None =>
           q.key \in Nat /\ q.key < nextKey' /\ q.quote \in Quotes
    BY <1>2, <1>3 DEF IInv, IdInv
  <2>4. ASSUME pc' = "placing"
        PROVE  /\ key' < nextKey' /\ resting'[Side'] = None
               /\ key' \in DOMAIN placed' => placed'[key'] = Quote'
               /\ \A q \in late' : q.quote # None => q.key # key'
    <3>1. UNCHANGED <<todo, fair, key, late>>
      BY <2>4
    <3>2. Side' = Side /\ Quote' = Quote
      BY <3>1 DEF Side, Quote, wanted, DesiredQuote, HalfSpread, Skew
    <3>3. QED
      BY <1>1, <1>2, <3>1, <3>2 DEF IInv, IdInv
  <2>5. QED
    BY <2>1, <2>2, <2>3, <2>4 DEF IdInv
<1>5. BookInv'
  BY <1>1, <1>3 DEF IInv, BookInv
<1>6. QuotesAreOrders'
  BY <1>1 DEF IInv, QuotesAreOrders
<1>7. OrdersAreQuotes'
  <2> SUFFICES ASSUME NEW k \in live' \ strays'
               PROVE  \/ resting'[placed'[k].side] = [key |-> k, price |-> placed'[k].price]
                      \/ pc' = "placing" /\ k = key'
    BY DEF OrdersAreQuotes
  <2>1. CASE k = key
    BY <2>1
  <2>2. CASE k # key
    <3>1. k \in live \ strays
      BY <1>1, <2>2
    <3>2. placed'[k] = placed[k]
      BY <1>1, <3>1 DEF IInv, IdInv
    <3>3. QED
      BY <2>2, <3>1, <3>2 DEF IInv, OrdersAreQuotes
  <2>3. QED
    BY <2>1, <2>2
<1>8. QED
  BY <1>4, <1>5, <1>6, <1>7 DEF IInv

LEMMA InvPlace ==
    ASSUME IInv, Refused \/ PlaceHalted \/ PlaceBreaks
    PROVE  IInv'
<1> USE DEF exchange
<1>0. ASSUME pc = "placing"
      PROVE  todo # <<>> /\ Tail(todo) \in {<<>>, <<"SELL">>}
  BY <1>0, QuoteIsNotNone DEF IInv, TypeInv
<1>1. CASE Refused
  <2>1. TypeInv'
    BY <1>0, <1>1 DEF Refused, NextSide, IInv, TypeInv
  <2>2. Halted(Submit(key, Quote))
    BY <1>1 DEF Refused, Halted
  <2>3. QED
    BY <1>1, <2>1, <2>2, InvDecision DEF Refused, NextSide
<1>2. CASE PlaceHalted
  <2>1. TypeInv'
    <3>1. CASE UNCHANGED <<pc, todo, fair, key, known, nextKey, resting, inventory, shown>>
      BY <3>1 DEF IInv, TypeInv
    <3>2. CASE NextSide
      BY <1>0, <1>2, <3>2 DEF PlaceHalted, NextSide, IInv, TypeInv
    <3>3. QED
      BY <1>2, <3>1, <3>2 DEF PlaceHalted
  <2>2. /\ pc = "placing" /\ Halted(Submit(key, Quote))
        /\ UNCHANGED <<resting, nextKey, known, clearing, inventory, shown, late>>
        /\ strays \subseteq strays'
        /\ \/ pc' = "placing" /\ UNCHANGED <<todo, fair, key>>
           \/ pc' \in {"quoting", "idle"} /\ key \in strays'
    BY <1>2 DEF PlaceHalted, NextSide
  <2>3. QED
    BY <2>1, <2>2, InvDecision
<1>3. CASE PlaceBreaks
  <2>1. TypeInv'
    BY <1>3 DEF PlaceBreaks, LeaveTick, IInv, TypeInv
  <2>2. Halted(Submit(key, Quote)) /\ late' \subseteq late \union {Submit(key, Quote)}
    BY <1>3 DEF PlaceBreaks, Lost, Halted
  <2>3. QED
    BY <1>3, <2>1, <2>2, InvDecision DEF PlaceBreaks, LeaveTick
<1>4. QED
  BY <1>1, <1>2, <1>3

\* An accepted quote becomes the resting one of its side.
LEMMA InvPlaced ==
    ASSUME IInv, Placed
    PROVE  IInv'
<1>0. /\ pc = "placing" /\ Execute(Submit(key, Quote)) /\ NextSide
      /\ resting' = [resting EXCEPT ![Side] = [key |-> key, price |-> wanted[Side]]]
      /\ UNCHANGED <<nextKey, known, clearing, inventory, shown, late, strays>>
  BY DEF Placed
<1>1. todo # <<>> /\ Side \in Sides /\ Quote \in Quotes /\ Tail(todo) \in {<<>>, <<"SELL">>}
  BY <1>0, QuoteIsNotNone DEF IInv, TypeInv
<1>2. Quote = [side |-> Side, price |-> wanted[Side]]
  BY DEF Quote
<1>3. /\ \A k \in DOMAIN placed : k \in DOMAIN placed' /\ placed'[k] = placed[k]
      /\ DOMAIN placed' \subseteq DOMAIN placed \union {key}
      /\ live' \subseteq DOMAIN placed' /\ live' \subseteq live \union {key}
      /\ key \in DOMAIN placed' /\ placed'[key] = Quote
  BY <1>0, SubmitEffect DEF Halted
<1>4. resting[Side] = None /\ key < nextKey /\ key \in Nat /\ DOMAIN resting = Sides
  BY <1>0 DEF IInv, IdInv, TypeInv
<1>5. TypeInv'
  BY <1>0, <1>1 DEF IInv, TypeInv, NextSide
<1>6. IdInv'
  <2>1. \A k \in DOMAIN placed' : k \in Nat /\ k < nextKey' /\ placed'[k] \in Quotes
    BY <1>0, <1>1, <1>2, <1>3, <1>4 DEF IInv, IdInv
  <2>2. QED
    BY <1>0, <1>3, <2>1 DEF IInv, IdInv, NextSide
<1>7. BookInv'
  BY <1>0, <1>3 DEF IInv, BookInv, NextSide
<1>8. QuotesAreOrders'
  <2> SUFFICES ASSUME NEW s \in Sides, resting'[s] # None
               PROVE  /\ resting'[s].key \in DOMAIN placed'
                      /\ placed'[resting'[s].key] = [side |-> s, price |-> resting'[s].price]
    BY DEF QuotesAreOrders
  <2>1. CASE s = Side
    BY <1>0, <1>2, <1>3, <1>4, <2>1
  <2>2. CASE s # Side
    BY <1>0, <1>3, <1>4, <2>2 DEF IInv, QuotesAreOrders
  <2>3. QED
    BY <2>1, <2>2
<1>9. OrdersAreQuotes'
  <2> SUFFICES ASSUME NEW k \in live' \ strays'
               PROVE  resting'[placed'[k].side] = [key |-> k, price |-> placed'[k].price]
    BY DEF OrdersAreQuotes
  <2>1. CASE k = key
    BY <1>0, <1>1, <1>2, <1>3, <1>4, <2>1
  <2>2. CASE k # key
    <3>1. k \in live \ strays /\ placed'[k] = placed[k] /\ placed[k] \in Quotes
      BY <1>0, <1>3, <2>2 DEF IInv, IdInv
    <3>2. resting[placed[k].side] = [key |-> k, price |-> placed[k].price] /\ k \in Nat
      BY <1>0, <2>2, <3>1 DEF IInv, OrdersAreQuotes, IdInv
    <3>3. placed[k].side # Side
      <4>1. SUFFICES ASSUME placed[k].side = Side PROVE FALSE
        OBVIOUS
      <4>2. None = [key |-> k, price |-> placed[k].price]
        BY <1>4, <3>2, <4>1
      <4>3. QED
        BY <3>1, <3>2, <4>2, MakerParameters DEF Quotes
    <3>4. QED
      BY <1>0, <1>1, <1>4, <3>1, <3>2, <3>3
  <2>3. QED
    BY <2>1, <2>2
<1>10. QED
  BY <1>5, <1>6, <1>7, <1>8, <1>9 DEF IInv

\* The process dies: what it was sending may still land, as a stray, and the new
\* one starts from nothing, with ids that nobody has used.
LEMMA InvRestart ==
    ASSUME IInv, Restart
    PROVE  IInv'
<1>1. /\ UNCHANGED <<placed, live, inventory, shown, nextKey>> /\ Forget
      /\ \/ UNCHANGED <<late, strays>>
         \/ \E r \in InFlight : late' = late \union {r} /\ strays' = strays \union {r.key}
  BY DEF Restart, Dies
<1>2. \A r \in InFlight : r.quote # None =>
         r.quote \in Quotes /\ r.key \in Nat /\ r.key < nextKey
  <2>1. CASE pc = "placing"
    <3>1. InFlight = {Submit(key, Quote)}
      BY <2>1 DEF InFlight
    <3>2. key \in Nat /\ key < nextKey /\ Quote \in Quotes
      BY <2>1, QuoteIsNotNone DEF IInv, TypeInv, IdInv
    <3>3. QED
      BY <3>1, <3>2 DEF Submit
  <2>2. CASE pc # "placing"
    <3>1. \A r \in InFlight : r.quote = None
      BY <2>2 DEF InFlight, Cancel
    <3>2. QED
      BY <3>1
  <2>3. QED
    BY <2>1, <2>2
<1>3. /\ strays \subseteq strays'
      /\ \A q \in late' : q \in late \/ (q \in InFlight /\ q.key \in strays')
  <2>1. CASE UNCHANGED <<late, strays>>
    BY <2>1
  <2>2. ASSUME NEW r \in InFlight, late' = late \union {r}, strays' = strays \union {r.key}
        PROVE  /\ strays \subseteq strays'
               /\ \A q \in late' : q \in late \/ (q \in InFlight /\ q.key \in strays')
    BY <2>2
  <2>3. QED
    BY <1>1, <2>1, <2>2
<1>4. TypeInv'
  BY <1>1 DEF IInv, TypeInv, Forget
<1>5. IdInv'
  BY <1>1, <1>2, <1>3 DEF IInv, IdInv, Forget
<1>6. BookInv'
  BY <1>1, <1>3 DEF IInv, BookInv, Forget
<1>7. QuotesAreOrders' /\ OrdersAreQuotes'
  BY <1>1 DEF Forget, QuotesAreOrders, OrdersAreQuotes
<1>8. QED
  BY <1>4, <1>5, <1>6, <1>7 DEF IInv

LEMMA InvStutter ==
    ASSUME IInv, UNCHANGED vars
    PROVE  IInv'
<1> USE DEF vars, maker, exchange, tick
<1>1. Side' = Side /\ Quote' = Quote
  BY DEF Side, Quote, wanted, DesiredQuote, HalfSpread, Skew
<1>2. QED
  BY <1>1 DEF IInv, TypeInv, IdInv, BookInv, QuotesAreOrders, OrdersAreQuotes

-----------------------------------------------------------------------------
\* The inductive invariant of the market maker (market_maker.py, client.py).
THEOREM QuotesAndOrders == Spec => []IInv
<1>1. ASSUME IInv, [Next]_vars
      PROVE  IInv'
  BY <1>1, InvExchange, InvLandLate, InvStartUp, InvTick, InvPull, InvPlace, InvPlaced,
     InvRestart, InvStutter DEF Next
<1>2. QED
  BY InvInit, <1>1, PTL DEF Spec

\* A quote the maker believes it shows is an order the exchange accepted under
\* that id, on that side, at that price (client.py:10-24, market_maker.py:118-121).
THEOREM ShownQuotesWereAccepted == Spec => []QuotesAreOrders
<1>1. IInv => QuotesAreOrders
  BY DEF IInv
<1>2. QED
  BY <1>1, QuotesAndOrders, PTL

\* Whatever the exchange holds for the maker, it knows of, but for the requests
\* whose outcome it gave up on (cancel_all_resting, client.py:271-295).
THEOREM NoOrderIsForgotten == Spec => []OrdersAreQuotes
<1>1. IInv => OrdersAreQuotes
  BY DEF IInv
<1>2. QED
  BY <1>1, QuotesAndOrders, PTL

-----------------------------------------------------------------------------
(* The quotes themselves, for every inventory.                              *)

\* Floor division by more gives no more.
LEMMA DivIsAntitone ==
    ASSUME NEW x \in Nat, NEW a \in Nat \ {0}, NEW b \in Nat, a <= b
    PROVE  x \div b <= x \div a
<1>1. b \in Nat \ {0}
  OBVIOUS
<1>2. PICK d \in Int : d = x \div b
  BY <1>1
<1>3. PICK e \in Int : e = x \div a
  OBVIOUS
<1>4. b * d <= x /\ 0 <= d
  BY <1>1, <1>2
<1>5. x < a * e + a
  BY <1>3
<1>6. a * d <= b * d
  BY <1>1, <1>4
<1>7. ASSUME e + 1 <= d
      PROVE  FALSE
  <2>1. a * (e + 1) <= a * d
    BY <1>7
  <2>2. QED
    BY <1>1, <1>4, <1>5, <1>6, <2>1
<1>8. QED
  BY <1>2, <1>3, <1>7

\* A short position raises the mid, a flat one leaves it.
LEMMA ShortRaisesTheMid ==
    ASSUME NEW f \in Nat, NEW n \in Int, n <= 0
    PROVE  Skew(f, n) <= 0 /\ Skew(f, 0) = 0
<1>1. PICK z \in Int : z = 0 /\ -z = z
  OBVIOUS
<1>2. Skew(f, z) \in Int /\ Skew(f, -z) = -Skew(f, z)
  BY SkewIsOdd
<1>3. Skew(f, 0) = 0
  BY <1>1, <1>2
<1>4. CASE n = 0
  BY <1>3, <1>4
<1>5. CASE n < 0
  <2>1. PICK size : size = (f * SkewBps * Magnitude(n)) \div (Size * BPS)
    OBVIOUS
  <2>2. f * SkewBps * Magnitude(n) \in Nat /\ Size * BPS \in Nat \ {0}
    <3>1. Magnitude(n) \in Nat /\ f * SkewBps \in Nat
      BY QuotingParameters DEF Magnitude
    <3>2. \A x, y \in Nat : x * y \in Nat
      OBVIOUS
    <3>3. Size * BPS \in Nat \ {0}
      BY QuotingParameters DEF BPS
    <3>4. QED
      BY <3>1, <3>2, <3>3
  <2>3. size \in Int /\ 0 <= size
    <3>1. PICK x \in Nat, d \in Nat \ {0} : x = f * SkewBps * Magnitude(n) /\ d = Size * BPS
      BY <2>2
    <3>2. x \div d \in Int /\ 0 <= x \div d
      OBVIOUS
    <3>3. QED
      BY <2>1, <3>1, <3>2
  <2>4. Skew(f, n) = -size
    BY <1>5, <2>1 DEF Skew
  <2>5. QED
    BY <1>3, <2>3, <2>4
<1>6. QED
  BY <1>4, <1>5

\* What the obligations measure of a quote above the floor.
LEMMA SpreadMeasured ==
    ASSUME NEW f \in Nat, NEW n \in Int, HalfSpread(f) + Skew(f, n) < f
    PROVE  LET q == DesiredQuote(f, n)
           IN  ((q.SELL - q.BUY) * BPS) \div ((q.SELL + q.BUY) \div 2)
                  = (2 * HalfSpread(f) * BPS) \div (f - Skew(f, n))
<1>1. PICK h \in Nat \ {0} : h = HalfSpread(f)
  BY HalfSpreadIsPositive
<1>2. PICK mid \in Int : mid = f - Skew(f, n)
  BY SkewIsOdd
<1>3. mid - h >= 1
  BY <1>1, <1>2, SkewIsOdd
<1>4. PICK q : q = DesiredQuote(f, n)
  OBVIOUS
<1>5. q.BUY = mid - h /\ q.SELL = mid + h
  BY <1>1, <1>2, <1>3, <1>4 DEF DesiredQuote, AtLeast
<1>6. q.SELL - q.BUY = 2 * h /\ q.SELL + q.BUY = 2 * mid
  BY <1>5
<1>7. (2 * mid) \div 2 = mid
  OBVIOUS
<1>8. QED
  BY <1>1, <1>2, <1>4, <1>6, <1>7

\* No market is wider than the flat one's.
THEOREM SpreadIsBounded ==
    ASSUME NEW f \in Nat, NEW n \in Int
    PROVE  LET q == DesiredQuote(f, n) IN q.SELL - q.BUY <= 2 * HalfSpread(f)
<1>1. HalfSpread(f) \in Nat \ {0} /\ Skew(f, n) \in Int
  BY HalfSpreadIsPositive, SkewIsOdd
<1>2. QED
  BY <1>1 DEF DesiredQuote, AtLeast

\* Inventory to be bought back never costs the maker its obligations
\* (ObligationMeter.observe, obligations.py).
THEOREM ShortMeetsObligations ==
    ASSUME NEW f \in Nat, NEW n \in Int, n <= 0, HalfSpread(f) < f,
           ~Breached(DesiredQuote(f, 0))
    PROVE  ~Breached(DesiredQuote(f, n))
<1>1. PICK h \in Nat \ {0} : h = HalfSpread(f)
  BY HalfSpreadIsPositive
<1>2. PICK s \in Int : s = Skew(f, n) /\ s <= 0
  BY SkewIsOdd, ShortRaisesTheMid
<1>3. Skew(f, 0) = 0 /\ h < f
  BY <1>1, ShortRaisesTheMid
<1>4. PICK x \in Nat : x = 2 * h * BPS
  BY DEF BPS
<1>5. PICK p, q : p = DesiredQuote(f, 0) /\ q = DesiredQuote(f, n)
  OBVIOUS
<1>6. ((p.SELL - p.BUY) * BPS) \div ((p.SELL + p.BUY) \div 2) = x \div f
  <2>1. HalfSpread(f) + Skew(f, 0) < f /\ f - Skew(f, 0) = f
    BY <1>1, <1>3
  <2>2. QED
    BY <1>1, <1>4, <1>5, <2>1, SpreadMeasured
<1>7. ((q.SELL - q.BUY) * BPS) \div ((q.SELL + q.BUY) \div 2) = x \div (f - s)
  <2>1. HalfSpread(f) + Skew(f, n) < f
    BY <1>1, <1>2, <1>3
  <2>2. QED
    BY <1>1, <1>2, <1>4, <1>5, <2>1, SpreadMeasured
<1>8. x \div (f - s) <= x \div f /\ x \div f \in Int /\ x \div (f - s) \in Int
  <2>1. f \in Nat \ {0} /\ f - s \in Nat \ {0} /\ f <= f - s
    BY <1>1, <1>2, <1>3
  <2>2. \A d \in Nat \ {0} : x \div d \in Int
    OBVIOUS
  <2>3. x \div (f - s) <= x \div f
    BY <2>1, DivIsAntitone
  <2>4. QED
    BY <2>1, <2>2, <2>3
<1>9. ~(x \div f > MaxSpreadBps) /\ ~SizeTooSmall
  BY <1>5, <1>6 DEF Breached, SpreadTooWide
<1>10. ~(x \div (f - s) > MaxSpreadBps)
  BY <1>8, <1>9, QuotingParameters
<1>11. QED
  BY <1>5, <1>7, <1>9, <1>10 DEF Breached, SpreadTooWide

\* The market a tick wants is one, no wider than when flat, mirrors a short
\* position exactly above the floor and meets the obligations when short, for
\* every configuration and every inventory (quoting.py:79-102, obligations.py).
THEOREM QuotesStaySound == Spec => []QuotesAreSound
<1>1. ASSUME TypeInv
      PROVE  QuotesAreSound
  <2>1. fair \in Nat /\ known \in Int
    BY <1>1 DEF TypeInv
  <2>2. PICK f \in Nat, n \in Int : f = fair /\ n = known
    BY <2>1
  <2>3. PICK q : q = wanted /\ q = DesiredQuote(f, n)
    BY <2>2 DEF wanted
  <2>4. 1 <= q.BUY /\ q.BUY < q.SELL
    BY <2>3, QuoteIsAMarket
  <2>5. q.SELL - q.BUY <= 2 * HalfSpread(f)
    BY <2>3, SpreadIsBounded
  <2>6. DesiredQuote(f, n + 1).BUY <= q.BUY /\ DesiredQuote(f, n + 1).SELL <= q.SELL
    BY <2>3, InventoryLowersTheQuote
  <2>7. HalfSpread(f) + Magnitude(Skew(f, n)) < f =>
           /\ DesiredQuote(f, -n).SELL - f = f - q.BUY
           /\ DesiredQuote(f, -n).BUY - f = f - q.SELL
    BY <2>3, ShortMirrorsLong
  <2>8. n <= 0 /\ HalfSpread(f) < f /\ ~Breached(DesiredQuote(f, 0)) => ~Breached(q)
    BY <2>3, ShortMeetsObligations
  <2>9. QED
    BY <2>2, <2>3, <2>4, <2>5, <2>6, <2>7, <2>8 DEF QuotesAreSound
<1>2. IInv => QuotesAreSound
  BY <1>1 DEF IInv
<1>3. QED
  BY <1>2, QuotesAndOrders, PTL
=============================================================================
