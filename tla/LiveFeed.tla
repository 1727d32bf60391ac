------------------------------ MODULE LiveFeed ------------------------------
(***************************************************************************)
(* The fan-out and the browsers it serves, beside the matcher, which       *)
(* appends to qa.outbound.  (Consumers has the trimming of the stream.)    *)
(***************************************************************************)
EXTENDS WebClient

vars == <<outboundVars, fanOutVars, webVars>>

Init == OutboundInit /\ FanOutInit /\ WebInit

Next ==
    \/ Publish /\ UNCHANGED <<fanOutVars, webVars>>
    \/ FanOutNext /\ UNCHANGED webVars
    \/ WebNext

Spec == Init /\ [][Next]_vars

-----------------------------------------------------------------------------
(***************************************************************************)
(* messages.py: a book frame is a complete snapshot.  What the fan-out has *)
(* and what a browser shows is what rests on the exchange's book after the *)
(* record the frame is stamped with, through restarts and trimming.        *)
(***************************************************************************)
FilledOf(id, n) ==
    MapThenSumSet(LAMBDA i : stream[i].qty,
                  {i \in 1..n : stream[i].kind = "Fill" /\ id \in {stream[i].maker, stream[i].taker}})

RestingAfter(n, sym, side) ==
    {i \in 1..n : /\ stream[i].kind = "OrderAccepted" /\ stream[i].sym = sym /\ stream[i].side = side
                  /\ stream[i].qty > FilledOf(stream[i].id, n)
                  /\ \A j \in 1..n : ~(stream[j].kind = "OrderCancelled" /\ stream[j].id = stream[i].id)}

QuantityAt(n, sym, side, price) ==
    MapThenSumSet(LAMBDA i : stream[i].qty - FilledOf(stream[i].id, n),
                  {i \in RestingAfter(n, sym, side) : stream[i].price = price})

\* The levels, best first, as prices and quantities.
IsBestOf(levels, n, sym, side) ==
    LET prices == {stream[i].price : i \in RestingAfter(n, sym, side)}
        Better(p, q) == IF side = "BUY" THEN p > q ELSE p < q
    IN  /\ DOMAIN levels \subseteq prices
        /\ Cardinality(DOMAIN levels) = Min({BookDepth, Cardinality(prices)})
        /\ \A p \in DOMAIN levels : \A q \in prices \ DOMAIN levels : Better(p, q)
        /\ \A p \in DOMAIN levels : levels[p] = QuantityAt(n, sym, side, p)

SnapshotsAreTrue ==
    /\ fpc # "down" => \A sym \in {stream[i].sym : i \in {j \in 1..fseq :
                                                           stream[j].kind = "OrderAccepted"}} :
            \A side \in Sides : IsBestOf(Levels(BookOf(market, sym), side), fseq, sym, side)
    /\ \A c \in Clients : \A sym \in DOMAIN client[c].books : \A side \in Sides :
            IsBestOf(client[c].books[sym].levels[side], client[c].books[sym].seq, sym, side)

(***************************************************************************)
(* buffer.ts: the tape shows trades that happened, in their order and once *)
(* each, through reconnects and restarts of the fan-out.                   *)
(***************************************************************************)
Ascends(s, Key(_)) == \A i \in 1..Len(s) - 1 : Key(s[i]) < Key(s[i + 1])

IsPrint(t, sym) == /\ t.seq \in DOMAIN stream /\ t = Trade(stream[t.seq], t.seq)
                   /\ stream[t.seq].kind = "Fill" /\ t.sym = sym

TapeIsTrue ==
    \A c \in Clients : \A sym \in DOMAIN client[c].tapes :
        LET tape == client[c].tapes[sym]
        IN  /\ \A i \in DOMAIN tape : IsPrint(tape[i], sym)
            /\ Ascends(tape, LAMBDA t : t.seq)

(***************************************************************************)
(* A bar shown is that of its bucket, and the series ascends (or the chart *)
(* throws).                                                                *)
(***************************************************************************)
FillsIn(bar) == {i \in DOMAIN stream : /\ stream[i].kind = "Fill" /\ stream[i].sym = bar.sym
                                       /\ BucketStart(bar.width, stream[i].ts) = bar.start}

IsBar(bar) ==
    LET is == FillsIn(bar)
        prices == {stream[i].price : i \in is}
    IN  /\ bar.open = stream[Min(is)].price /\ bar.close = stream[Max(is)].price
        /\ bar.high = Max(prices) /\ bar.low = Min(prices)
        /\ bar.volume = MapThenSumSet(LAMBDA i : stream[i].qty, is)

BarsAreTrue ==
    \A c \in Clients : \A ch \in DOMAIN client[c].bars :
        /\ Ascends(client[c].bars[ch], LAMBDA b : b.start)
        /\ \A i \in DOMAIN client[c].bars[ch] : IsBar(client[c].bars[ch][i])

\* What a screen draws of a symbol is what the stream says: a restart of the
\* fan-out restores both from the one checkpoint.
BooksAndBarsAreTrue == SnapshotsAreTrue /\ BarsAreTrue

(***************************************************************************)
(* private.py, subscribers.py: a user's messages are never dropped without *)
(* the connection being closed for it: those numbered since a connection   *)
(* received its first are received or on their way, in order and without a *)
(* hole up to the last.  What waits for a socket has a bound.              *)
(***************************************************************************)
Coming(c) == wire[c] \o conn[c].private
PrivateAfter(c, n) == {i \in DOMAIN Coming(c) : i > n /\ Coming(c)[i].ch[1] = "private"}

NothingDroppedSilently ==
    \A c \in DOMAIN conn :
        /\ Len(conn[c].private) <= PrivateMax
        /\ Joined(c) /\ ~conn[c].overflowed =>
               LET last == client[c].lastPrivate
                   newest == userSeq[UserOf[c]]
               IN  /\ last # 0 => last = newest - Cardinality(PrivateAfter(c, 0))
                   /\ \A i \in PrivateAfter(c, 0) :
                          Coming(c)[i].seq = newest - Cardinality(PrivateAfter(c, i))

(***************************************************************************)
(* portfolio.ts: the browser's arithmetic is the ledger's.  What it shows  *)
(* is the user's account after the last record it was told of, as long as  *)
(* its last re-synchronisation found PostgreSQL at the record it had been  *)
(* told of last, and no message came between a read and its use.           *)
(***************************************************************************)
PortfolioIsLedger ==
    \A c \in Clients : client[c].aligned =>
        client[c].portfolio = AccountAt(client[c].upto, UserOf[c])

(***************************************************************************)
(* subscribers.py: `the next snapshot is complete and repairs it'.  When   *)
(* nothing is left to do (no step of the fan-out or a browser changes      *)
(* anything) a browser shows the book and the halt as they are, unless the *)
(* frame that told it found the connection busy (a book that moves no more *)
(* is not sent again) or, for a halt, came before the browser; and an      *)
(* aligned portfolio is the account as it is.                              *)
(***************************************************************************)
FanOutIdle ==
    /\ fpc = "serving" /\ Batch(fseq) = <<>> /\ ~haltOwed
    /\ market.dirty = {} /\ market.tape = <<>> /\ market.closed = <<>>

Idle(c) ==
    /\ wire[c] = <<>> /\ client[c].fetch = NoFetch /\ client[c].socket = "open"
    /\ Joined(c) /\ conn[c].subscribed /\ ~conn[c].fresh
    /\ ~conn[c].overflowed /\ ~conn[c].wake /\ conn[c].private \o conn[c].market = <<>>

QuietIsCurrent ==
    FanOutIdle => \A c \in Clients : Idle(c) =>
        /\ "book" \notin unseen[c] =>
              \A sym \in DOMAIN market.books :
                  /\ sym \in DOMAIN client[c].books
                  /\ client[c].books[sym].levels =
                        [side \in Sides |-> Levels(market.books[sym], side)]
        /\ "halt" \notin unseen[c] => (client[c].state = "halted") = (view # "clear")
        /\ client[c].aligned => client[c].portfolio = AccountAt(fseq, UserOf[c])
=============================================================================
