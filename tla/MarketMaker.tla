---------------------------- MODULE MarketMaker ----------------------------
(***************************************************************************)
(* A designated market maker (services/bots/market_maker.py, client.py):   *)
(* one process per account that shows one bid and one ask over HTTP, and   *)
(* what the exchange makes of its requests.  A request is executed, or     *)
(* not; its answer comes, says that the exchange is halted, or is lost     *)
(* with the connection; and one whose caller has given up may still be     *)
(* executed later.  The process may be killed and started again.           *)
(*                                                                         *)
(* The exchange is reduced to what the maker can tell of it: orders by     *)
(* client order id, accepted once each, and traded by others at any time,  *)
(* or against an order of the maker's own that crosses.  The read model    *)
(* lags behind it.                                                         *)
(***************************************************************************)
EXTENDS Quoting, Sequences

CONSTANTS Fairs,          \* fair values, in ticks
          None,           \* no quote on that side
          MaxDecisions,   \* client order ids taken for quotes
          MaxInventory,   \* what others trade with the maker, at most
          MaxFaults       \* see faults

\* None is neither an order nor a quote that rests.
ASSUME MakerParameters ==
    /\ Fairs \subseteq Nat /\ MaxInventory \in Nat
    /\ None \notin [side : {"BUY", "SELL"}, price : Int] \union [key : Nat, price : Int]

VARIABLES
    \* the process
    pc,
    todo, fair,         \* locals of tick(): the sides left, the fair value
    key, attempt,       \* locals of _place()
    resting,            \* _resting: side -> [key, price], or None
    nextKey,            \* _next_client_order_id, which cancels draw from too
    known,              \* the position last read
    clearing,           \* client order ids to cancel at start-up
    \* the exchange
    placed,             \* client order id -> [side, price], of what was accepted
    live,               \* client order ids in the book
    inventory,
    shown,              \* the read model: [inventory, open]
    late,               \* requests whose caller has given up on them
    \* history and bounds
    strays,             \* orders the maker may have and does not know of
    faults              \* lost answers, failed reads and kills

tick     == <<todo, fair, key, attempt>>
maker    == <<tick, resting, nextKey, known, clearing>>
exchange == <<placed, live, inventory, shown, late>>
vars == <<pc, maker, exchange, strays, faults>>

Sides == {"BUY", "SELL"}
HaltRetries == 3

Init ==
    /\ pc = "signing"
    /\ todo = <<>> /\ fair = 0 /\ key = 0 /\ attempt = 0
    /\ resting = [s \in Sides |-> None]
    /\ nextKey = 1 /\ known = 0 /\ clearing = {}
    /\ placed = <<>> /\ live = {} /\ inventory = 0
    /\ shown = [inventory |-> 0, open |-> {}] /\ late = {}
    /\ strays = {} /\ faults = 0

Fault == faults < MaxFaults /\ faults' = faults + 1

-----------------------------------------------------------------------------
(* What the exchange does with a request. *)

Submit(k, q) == [key |-> k, quote |-> q]
Cancel(k) == [key |-> k, quote |-> None]

Crosses(q, r) ==
    \/ q.side = "BUY"  /\ r.side = "SELL" /\ q.price >= r.price
    \/ q.side = "SELL" /\ r.side = "BUY"  /\ q.price <= r.price

\* A cancel withdraws its target; an order is accepted unless its id has been.
Execute(r) ==
    CASE r.quote = None -> live' = live \ {r.key} /\ UNCHANGED placed
      [] r.quote # None /\ r.key \in DOMAIN placed -> UNCHANGED <<placed, live>>
      [] r.quote # None /\ r.key \notin DOMAIN placed ->
            LET own == {k \in live : Crosses(r.quote, placed[k])}
            IN  /\ placed' = [k \in DOMAIN placed \union {r.key} |->
                               IF k = r.key THEN r.quote ELSE placed[k]]
                /\ IF own = {} THEN live' = live \union {r.key}
                   ELSE \E k \in own : live' = live \ {k}

\* The answer is lost: the request was executed, is not, or will be.
Lost(r) ==
    \/ Execute(r) /\ UNCHANGED late
    \/ UNCHANGED <<placed, live, late>>
    \/ late' = late \union {r} /\ UNCHANGED <<placed, live>>

\* 503: Redis has executed the append, or has not.
Halted(r) == Execute(r) \/ UNCHANGED <<placed, live>>

LandLate ==
    \E r \in late :
        /\ Execute(r)
        /\ late' = late \ {r}
        /\ UNCHANGED <<pc, maker, inventory, shown, strays, faults>>

\* Somebody trades one unit of an order, or what is left of it.
Trade(k) ==
    /\ inventory' = IF placed[k].side = "BUY" THEN inventory + 1 ELSE inventory - 1
    /\ Magnitude(inventory') <= MaxInventory
    /\ live' \in {live, live \ {k}}
    /\ UNCHANGED <<pc, maker, placed, shown, late, strays, faults>>

Project ==
    /\ shown' = [inventory |-> inventory, open |-> live]
    /\ UNCHANGED <<pc, maker, placed, live, inventory, late, strays, faults>>

-----------------------------------------------------------------------------
(* Start-up: sign in, then withdraw what an earlier run left in the book. *)

\* GET /orders/open; an answer other than 200 reads as no orders at all.
SignIn ==
    /\ pc = "signing"
    /\ \/ clearing' = shown.open /\ UNCHANGED faults
       \/ clearing' = {} /\ Fault
    /\ strays' = (strays \union live) \ clearing'
    /\ pc' = "clearing"
    /\ UNCHANGED <<tick, resting, nextKey, known, exchange>>

Clear ==
    /\ pc = "clearing"
    /\ IF clearing = {} THEN pc' = "idle" /\ UNCHANGED <<clearing, placed, live, strays, faults>>
       ELSE \E k \in clearing :
              /\ clearing' = clearing \ {k} /\ UNCHANGED pc
              /\ \/ Execute(Cancel(k)) /\ UNCHANGED <<strays, faults>>
                 \/ Halted(Cancel(k)) /\ strays' = strays \union {k} /\ UNCHANGED faults
    /\ UNCHANGED <<tick, resting, nextKey, known, inventory, shown, late>>

-----------------------------------------------------------------------------
(* One tick: for each side whose quote is not the one wanted, cancel and    *)
(* place.  A request that raises ends the tick.                             *)

Side == Head(todo)
wanted == DesiredQuote(fair, known)
NeedsRequote == resting[Side] = None \/ resting[Side].price # wanted[Side]
Quote == [side |-> Side, price |-> wanted[Side]]

\* refresh(): a read that fails leaves the position last read.
Refreshed == {shown.inventory, known}

StartTick(value) ==
    /\ pc = "idle" /\ nextKey + 1 <= MaxDecisions
    /\ fair' = value
    /\ known' \in Refreshed
    /\ todo' = <<"BUY", "SELL">> /\ pc' = "quoting"
    /\ UNCHANGED <<key, attempt, resting, nextKey, clearing, exchange, strays, faults>>

NextSide == todo' = Tail(todo) /\ key' = 0 /\ attempt' = 0 /\ pc' = "quoting" /\ UNCHANGED fair
LeaveTick == todo' = <<>> /\ key' = 0 /\ attempt' = 0 /\ fair' = 0 /\ pc' = "idle"

Keep ==
    /\ pc = "quoting" /\ todo # <<>> /\ ~NeedsRequote
    /\ NextSide
    /\ UNCHANGED <<resting, nextKey, known, clearing, exchange, strays, faults>>

EndTick ==
    /\ pc = "quoting" /\ todo = <<>>
    /\ LeaveTick
    /\ UNCHANGED <<resting, nextKey, known, clearing, exchange, strays, faults>>

\* One client order id per decision.
TakeKey ==
    /\ key' = nextKey /\ nextKey' = nextKey + 1 /\ attempt' = 1 /\ pc' = "placing"

PlaceNew ==
    /\ pc = "quoting" /\ todo # <<>> /\ resting[Side] = None
    /\ TakeKey
    /\ UNCHANGED <<todo, fair, resting, known, clearing, exchange, strays, faults>>

\* _pull: the entry is dropped whatever the answer.
Pull ==
    /\ pc = "quoting" /\ todo # <<>> /\ resting[Side] # None /\ NeedsRequote
    /\ LET old == resting[Side].key IN
       \/ Execute(Cancel(old)) /\ UNCHANGED <<strays, faults>>
       \/ Halted(Cancel(old)) /\ strays' = strays \union {old} /\ UNCHANGED faults
    /\ resting' = [resting EXCEPT ![Side] = None]
    /\ TakeKey
    /\ UNCHANGED <<todo, fair, known, clearing, inventory, shown, late>>

PullBreaks ==
    /\ pc = "quoting" /\ todo # <<>> /\ resting[Side] # None /\ NeedsRequote
    /\ Fault /\ Lost(Cancel(resting[Side].key))
    /\ LeaveTick
    /\ UNCHANGED <<resting, nextKey, known, clearing, inventory, shown, strays>>

Placed ==
    /\ pc = "placing" /\ Execute(Submit(key, Quote))
    /\ resting' = [resting EXCEPT ![Side] = [key |-> key, price |-> wanted[Side]]]
    /\ NextSide
    /\ UNCHANGED <<nextKey, known, clearing, inventory, shown, late, strays, faults>>

\* Risk, the rate limit or a login that fails: not retried in this tick.
Refused ==
    /\ pc = "placing"
    /\ strays' = strays \union {key}
    /\ NextSide
    /\ UNCHANGED <<resting, nextKey, known, clearing, exchange, faults>>

\* Fault: the retry is a decision of its own.
PlaceHaltedAfresh ==
    /\ pc = "placing" /\ Halted(Submit(key, Quote))
    /\ IF attempt < HaltRetries
       THEN /\ attempt' = attempt + 1 /\ key' = nextKey /\ nextKey' = nextKey + 1
            /\ UNCHANGED <<pc, todo, fair, strays>>
       ELSE NextSide /\ strays' = strays \union {key} /\ UNCHANGED nextKey
    /\ UNCHANGED <<resting, known, clearing, inventory, shown, late, faults>>

\* A halt is retried with the same id, three attempts in all.
PlaceHalted ==
    /\ pc = "placing" /\ Halted(Submit(key, Quote))
    /\ IF attempt < HaltRetries
       THEN attempt' = attempt + 1 /\ UNCHANGED <<pc, todo, fair, key, strays>>
       ELSE NextSide /\ strays' = strays \union {key}
    /\ UNCHANGED <<resting, nextKey, known, clearing, inventory, shown, late, faults>>

PlaceBreaks ==
    /\ pc = "placing" /\ Fault /\ Lost(Submit(key, Quote))
    /\ strays' = strays \union {key}
    /\ LeaveTick
    /\ UNCHANGED <<resting, nextKey, known, clearing, inventory, shown>>

-----------------------------------------------------------------------------
\* The process ends, between requests or in one, and starts with nothing.
Forget ==
    /\ pc' = "signing" /\ todo' = <<>> /\ clearing' = {}
    /\ resting' = [s \in Sides |-> None]
    /\ fair' = 0 /\ key' = 0 /\ attempt' = 0 /\ known' = 0

InFlight ==
    CASE pc = "placing" -> {Submit(key, Quote)}
      [] pc = "quoting" /\ todo # <<>> /\ resting[Side] # None /\ NeedsRequote ->
            {Cancel(resting[Side].key)}
      [] OTHER -> {Cancel(k) : k \in clearing}

Dies ==
    /\ Fault
    /\ UNCHANGED <<placed, live, inventory, shown>>
    /\ \/ UNCHANGED <<late, strays>>
       \/ \E r \in InFlight : /\ late' = late \union {r}
                              /\ strays' = strays \union {r.key}

\* Fault: ids start from one again.
RestartFromOne == Dies /\ Forget /\ nextKey' = 1

\* Ids start from the clock, above every id taken before.
Restart == Dies /\ Forget /\ UNCHANGED nextKey

Next ==
    \/ SignIn \/ Clear
    \/ \E value \in Fairs : StartTick(value)
    \/ Keep \/ EndTick \/ PlaceNew \/ Pull \/ PullBreaks
    \/ Placed \/ Refused \/ PlaceHalted \/ PlaceBreaks
    \/ Restart \/ LandLate \/ Project
    \/ \E k \in live : Trade(k)

Spec == Init /\ [][Next]_vars

-----------------------------------------------------------------------------
(***************************************************************************)
(* What the maker believes it shows, the exchange has accepted: under that *)
(* id, on that side, at that price; in one run and over restarts, however  *)
(* many answers of the decision were lost (client.py:10-24: a counter that *)
(* began again was "answered from the store without placing anything").    *)
(***************************************************************************)
QuotesAreOrders ==
    \A s \in Sides : resting[s] # None =>
        /\ resting[s].key \in DOMAIN placed
        /\ placed[resting[s].key] = [side |-> s, price |-> resting[s].price]

(***************************************************************************)
(* And what the exchange holds, the maker knows of: once signed in, every  *)
(* order in its book is the quote of its side or the decision being sent,  *)
(* but for the strays: cancels and placements given up with their outcome  *)
(* unknown, and what the read model did not show when the process started. *)
(* Without that an order holds cash that nobody will give back             *)
(* (BotClient.cancel_all_resting).                                         *)
(***************************************************************************)
OrdersAreQuotes ==
    pc \notin {"signing", "clearing"} =>
        \A k \in live \ strays :
            \/ resting[placed[k].side] = [key |-> k, price |-> placed[k].price]
            \/ pc = "placing" /\ k = key

(***************************************************************************)
(* The market a tick wants, whatever the position it knows: a bid of at    *)
(* least one tick below an ask, never wider than a flat maker's; more      *)
(* inventory never raises a quote; as long as the floor of one tick is out *)
(* of reach, being short is the mirror image of being long, to the tick    *)
(* (quoting.py: a signed division would "quietly bias the maker in one     *)
(* direction"); and a maker that meets its obligations when it is flat     *)
(* meets them when it is short.  Long it may not: the same spread is a     *)
(* larger part of a lower mid.                                             *)
(***************************************************************************)
QuotesAreSound ==
    todo # <<>> =>
        LET flat   == DesiredQuote(fair, 0)
            mirror == DesiredQuote(fair, -known)
            longer == DesiredQuote(fair, known + 1)
        IN  /\ 1 <= wanted.BUY /\ wanted.BUY < wanted.SELL
            /\ wanted.SELL - wanted.BUY <= 2 * HalfSpread(fair)
            /\ longer.BUY <= wanted.BUY /\ longer.SELL <= wanted.SELL
            /\ HalfSpread(fair) + Magnitude(Skew(fair, known)) < fair =>
                  /\ mirror.SELL - fair = fair - wanted.BUY
                  /\ mirror.BUY - fair = fair - wanted.SELL
            /\ known <= 0 /\ HalfSpread(fair) < fair /\ ~Breached(flat) => ~Breached(wanted)
=============================================================================
