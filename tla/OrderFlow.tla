------------------------------ MODULE OrderFlow ------------------------------
(***************************************************************************)
(* What the gateway relies on about the orders the stream tells of, and    *)
(* the engine provides: the contract between Risk and StreamEngine.        *)
(*                                                                         *)
(* The open orders are a table of rows, by order id.  An answer says what  *)
(* becomes of them; that it may follow where the rows stand is what both   *)
(* sides have to agree on.                                                 *)
(***************************************************************************)
EXTENDS Contracts, FiniteSets, SequencesExt, Functions

CONSTANTS Users, Symbols

\* std::map::erase, and dict.pop.
Without(f, key) == Restrict(f, DOMAIN f \ {key})

\* How a table of orders is iterated: a std::map by ascending key, a dict in the
\* order its orders came, which have ascending ids.
Ascending(S) == CHOOSE q \in [1..Cardinality(S) -> S] :
                   Range(q) = S /\ \A i, j \in DOMAIN q : i < j => q[i] < q[j]

\* A row is what a Reservation holds of an order.
Reservation(o) == [user |-> o.user, coid |-> o.coid, sym |-> o.sym,
                   side |-> o.side, price |-> o.price, qty |-> o.qty]

\* What a fill takes from an order, with what is left of it or with the order.
Cut(rows, id, q) ==
    IF rows[id].qty = q THEN Without(rows, id)
                        ELSE Put(rows, id, [rows[id] EXCEPT !.qty = @ - q])

NextRows(rows, e) ==
    CASE e.kind = "OrderAccepted"  -> Put(rows, e.id, Reservation(e))
      [] e.kind = "Fill"           -> Cut(Cut(rows, e.maker, e.qty), e.taker, e.qty)
      [] e.kind = "OrderCancelled" -> IF e.id \in DOMAIN rows THEN Without(rows, e.id) ELSE rows
      [] OTHER -> rows

\* The rows after the first n records.
RowsAfter(rows, records, n) == FoldLeft(NextRows, rows, SubSeq(records, 1, n))

\* A fill takes from two open orders what they still have, one of them the
\* aggressor's, at no more than the buyer's price.
TradesRows(rows, e) ==
    /\ {e.maker, e.taker} \subseteq DOMAIN rows /\ e.maker # e.taker
    /\ LET maker == rows[e.maker]
           taker == rows[e.taker]
       IN  /\ maker.user = e.makerUser /\ taker.user = e.takerUser
           /\ maker.sym = e.sym /\ taker.sym = e.sym
           /\ maker.side = Opposite(e.aggressor) /\ taker.side = e.aggressor
           /\ e.qty \in 1..maker.qty /\ e.qty \in 1..taker.qty
           /\ e.price \in 1..(IF e.aggressor = "BUY" THEN taker.price ELSE maker.price)

MayFollow(rows, e) ==
    \/ /\ e.kind = "OrderAccepted"
       /\ e.id \in Nat \ DOMAIN rows
       /\ e.user \in Users /\ e.sym \in Symbols /\ e.side \in Sides
       /\ e.price \in Nat \ {0} /\ e.qty \in Nat \ {0}
    \/ e.kind = "Fill" /\ TradesRows(rows, e)
    \/ e.kind \in {"OrderCancelled", "OrderRejected"}

\* One request is answered: the order is accepted by the first record, as it was
\* sent, and every record follows; the rows after the last are the next ones.
Answered(rows, r, records, next) ==
    /\ \A i \in 1..Len(records) :
          /\ MayFollow(RowsAfter(rows, records, i - 1), records[i])
          /\ records[i].kind = "OrderAccepted" =>
                /\ i = 1 /\ r.kind = "SubmitOrder"
                /\ records[i] = OrderAccepted(r, records[i].id)
    /\ next = RowsAfter(rows, records, Len(records))
=============================================================================
