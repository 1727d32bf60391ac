------------------------------ MODULE Engines ------------------------------
(***************************************************************************)
(* The C++ engine, the Python reference engine, and a C++ engine that was  *)
(* restarted from a snapshot, fed the same inbound records.                *)
(*                                                                         *)
(* `view' is the table of open orders that a consumer of the outbound      *)
(* stream builds from the events alone, as the ledger, the gateway's risk  *)
(* state and the fan-out book do.                                          *)
(***************************************************************************)
EXTENDS StreamEngine

CONSTANTS
    Inputs,          \* the inbound records of the instance
    MaxOrders        \* bound on the order ids handed out

ASSUME PricesAreAGrid == IsFiniteSet(Prices) /\ Prices \subseteq Nat \ {0}

\* What unpack() can leave of a packed record, on the instance's price grid: any
\* side, any tif, any price and quantity.
ASSUME InputsAreRecords ==
    \A r \in Inputs :
        /\ r.kind \in {"SubmitOrder", "CancelOrder"} \union Sequenced
        /\ r.kind = "SubmitOrder" => /\ r.user \in Users
                                     /\ r.sym \in Symbols
                                     /\ r.price \in Int /\ r.qty \in Int
                                     /\ r.price > 0 => r.price \in Prices

VARIABLES
    eng, out,            \* the uninterrupted C++ engine, its last answer
    model, modelOut,     \* the reference engine
    twin, twinOut,       \* the C++ engine that was last restored
    view,                \* order id -> remaining quantity, from the events
    reused               \* a live order's client id was submitted again

vars == <<eng, out, model, modelOut, twin, twinOut, view, reused>>

Naive == INSTANCE NaiveMatcher

\* What a consumer of the outbound stream does with one event.
Track(open, r) ==
    CASE r.kind = "OrderAccepted"  -> Put(open, r.id, r.qty)
      [] r.kind = "Fill" ->
            LET cut == [open EXCEPT ![r.maker] = @ - r.qty, ![r.taker] = @ - r.qty]
            IN  Restrict(cut, {id \in DOMAIN cut : cut[id] > 0})
      [] r.kind = "OrderCancelled" ->
            Restrict(open, {id \in DOMAIN open : id # r.id \/ open[id] # r.remaining})
      [] OTHER -> open

Follow(open, records) == FoldLeft(Track, open, records)

Init == /\ eng = New /\ model = Naive!New /\ twin = New
        /\ out = <<>> /\ modelOut = <<>> /\ twinOut = <<>>
        /\ view = <<>>
        /\ reused = FALSE

Admissible(r) == r.kind = "SubmitOrder" => eng.next <= MaxOrders

Reuses(r) == /\ r.kind = "SubmitOrder"
             /\ \E id \in DOMAIN eng.live : KeyOf(eng.live[id]) = KeyOf(r)

\* The record reaches every engine.
Feed(r) ==
    /\ Admissible(r)
    /\ LET c == Apply(eng, r)
           n == Naive!Apply(model, r)
           t == Apply(twin, r)
       IN  /\ eng' = c.eng   /\ out' = c.out
           /\ model' = n.eng /\ modelOut' = n.out
           /\ twin' = t.eng  /\ twinOut' = t.out
           /\ view' = Follow(view, c.out)
           /\ reused' = (reused \/ Reuses(r))

\* A worker starts from the snapshot the running engine just gave.
Restart ==
    /\ twin' = Restore(Snapshot(eng))
    /\ twin' # twin
    /\ UNCHANGED <<eng, out, model, modelOut, twinOut, view, reused>>

Next == \/ \E r \in Inputs : Feed(r)
        \/ Restart

Spec == Init /\ [][Next]_vars

-----------------------------------------------------------------------------
(***************************************************************************)
(* Whatever the engine holds can be rebuilt from its outbound records      *)
(* alone (schema.toml, OrderAccepted): the events name exactly the live    *)
(* orders, with what is left of them.  The book holds the same ones: each  *)
(* in the queue of its symbol, side and price, once, in arrival order, and *)
(* nothing else; and no book is left crossed between two records, whatever *)
(* was cancelled or expired in the last one (match, order_book.cpp:244).   *)
(***************************************************************************)
BookIsSound ==
    /\ DOMAIN eng.orders = DOMAIN eng.live
    /\ view = [id \in DOMAIN eng.live |-> eng.orders[id].qty]
    /\ \A id \in DOMAIN eng.orders :
          LET o == eng.orders[id] IN
          /\ o.qty > 0
          /\ Contains(QueueAt(eng, LevelOf(o)), id)
    /\ \A level \in DOMAIN eng.levels :
          LET q == eng.levels[level] IN
          \A i \in DOMAIN q :
             /\ LevelOf(eng.orders[q[i]]) = level
             /\ \A j \in 1..(i - 1) :
                   eng.orders[q[j]].arrival < eng.orders[q[i]].arrival
    /\ \A s \in Symbols : ~CanMatch(eng, s)

\* A submission out of bounds in its side or tif and in its price or quantity.
BadTwice(r) == /\ r.kind = "SubmitOrder"
               /\ r.side \notin Sides \/ r.tif \notin Tifs
               /\ r.price <= 0 \/ r.qty <= 0

\* The two engines' answers to one record.
Agree(answer, modelAnswer) ==
    \/ answer = modelAnswer
    \/ \E r \in Inputs :
          /\ BadTwice(r)
          /\ \E why \in {"INVALID_PRICE", "INVALID_QUANTITY"} :
                answer = <<OrderRejected(r, why)>>
          /\ \E why \in {"INVALID_SIDE", "INVALID_TIF"} :
                modelAnswer = <<OrderRejected(r, why)>>

\* README.md:115 ("byte-identical event streams") and test_snapshot.py claim 2,
\* whose generators draw no submission out of bounds: the C++ engine and the
\* reference engine give the same answers and the same snapshot, whatever the
\* records; but for a submission out of bounds twice, which both refuse, the
\* C++ engine for its price or quantity and the reference for its side or tif.
EnginesAgree == /\ Agree(out, modelOut)
                /\ Snapshot(eng) = Naive!Snapshot(model)

\* tests/matcher/test_snapshot.py claim 1: an engine restored from a snapshot
\* answers every later record as the engine that was never stopped, though it
\* has new arrival numbers and only one bit of the client index per order.
RestoredAgrees == /\ out = twinOut
                  /\ Snapshot(eng) = Snapshot(twin)

\* Recovery counts anchors (services/matcher/runner.py): every record is
\* answered by one anchor, and it is the first record of the answer.
OneAnchorFirst == [][{i \in DOMAIN out' : IsAnchor(out'[i])} = {1}]_<<eng, out>>

\* cancel() and submit() look orders up through the index: an entry always
\* leads to a live order of that user and client id, so neither can throw; and
\* as long as no client id is submitted while an order with it is live, every
\* order in the book can be cancelled by its owner.
ClientIndexIsExact ==
    /\ \A k \in DOMAIN eng.index :
          /\ eng.index[k] \in DOMAIN eng.live
          /\ KeyOf(eng.live[eng.index[k]]) = k
    /\ ~reused => \A id \in DOMAIN eng.orders : id \in DOMAIN eng.live /\ IndexReaches(eng, id)

\* Price-time priority, stated of one answer: each fill trades at the resting
\* order's own price, within the taker's limit, and no order that was resting
\* on that side and is still resting afterwards goes before the one that traded.
PriceTimePriority ==
    [][\A i \in DOMAIN out' :
          LET f == out'[i]
              accepted == out'[1]
          IN  f.kind = "Fill" =>
              /\ f.maker \in DOMAIN eng.orders
              /\ f.taker = accepted.id
              /\ LET m == eng.orders[f.maker] IN
                 /\ f.price = m.price
                 /\ m.side = Opposite(accepted.side) /\ m.sym = accepted.sym
                 /\ IF accepted.side = "BUY" THEN f.price <= accepted.price
                                             ELSE f.price >= accepted.price
                 /\ \A id \in DOMAIN eng.orders \cap DOMAIN eng'.orders :
                       LET o == eng.orders[id] IN
                       (id # f.maker /\ o.sym = m.sym /\ o.side = m.side) =>
                          IF o.price = m.price THEN id > f.maker
                          ELSE (o.side = "BUY") <=> (o.price < m.price)]_<<eng, out>>
=============================================================================
