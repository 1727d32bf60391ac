----------------------------- MODULE MarketData -----------------------------
(***************************************************************************)
(* services/fanout/state.py, book.py and bars.py as operators: the books,  *)
(* the tape and the bars that the fan-out and the archiver both derive     *)
(* from qa.outbound.  A market is a record; its books, open bars and tape  *)
(* have an entry for every symbol seen (and bar width).                    *)
(***************************************************************************)
EXTENDS Contracts, FiniteSetsExt, SequencesExt, Functions

CONSTANTS
    BarWidths,      \* [market_data].bar_bucket_seconds
    BookDepth

ASSUME WidthsAreSeconds == BarWidths \in Seq(Nat \ {0})

NewMarket == [books |-> <<>>, bars |-> <<>>, tape |-> <<>>, closed |-> <<>>, dirty |-> {}]

Entry(f, x, default) == IF x \in DOMAIN f THEN f[x] ELSE default
Without(f, S) == Restrict(f, DOMAIN f \ S)

BookOf(m, sym) == Entry(m.books, sym, <<>>)
SetBook(m, sym, book) == [m EXCEPT !.books = Put(@, sym, book), !.dirty = @ \union {sym}]

\* Book.fill: silent on an order it does not know.
ReduceOrder(book, id, n) ==
    IF id \notin DOMAIN book THEN book
    ELSE IF book[id].remaining <= n THEN Without(book, {id})
    ELSE [book EXCEPT ![id].remaining = @ - n]

\* Book.levels: the total quantity at each of the best BookDepth prices.
Levels(book, side) ==
    LET resting == {id \in DOMAIN book : book[id].side = side /\ book[id].remaining > 0}
        prices == {book[id].price : id \in resting}
        Better(p) == {q \in prices : IF side = "BUY" THEN q > p ELSE q < p}
    IN  [p \in {q \in prices : Cardinality(Better(q)) < BookDepth} |->
            MapThenSumSet(LAMBDA id : book[id].remaining, {id \in resting : book[id].price = p})]

-----------------------------------------------------------------------------
BucketStart(width, ts) == (ts \div width) * width

OpenBar(e, width) ==
    [sym |-> e.sym, width |-> width, start |-> BucketStart(width, e.ts), open |-> e.price,
     high |-> e.price, low |-> e.price, close |-> e.price, volume |-> e.qty]

ExtendBar(bar, e) ==
    [bar EXCEPT !.high = Max({@, e.price}), !.low = Min({@, e.price}), !.close = e.price,
                !.volume = @ + e.qty]

\* BarBuilder.add: a trade in another bucket closes the open bar.
AddToBar(m, entry) ==
    LET e == entry.trade
        width == entry.width
        key == <<e.sym, width>>
        current == Entry(m.bars, key, <<>>)
    IN  IF current = <<>>
        THEN [m EXCEPT !.bars = Put(@, key, OpenBar(e, width))]
        ELSE IF current.start = BucketStart(width, e.ts)
        THEN [m EXCEPT !.bars[key] = ExtendBar(@, e)]
        ELSE [m EXCEPT !.bars[key] = OpenBar(e, width), !.closed = Append(@, current)]

\* BarSet.add
AddToBars(m, e) ==
    FoldLeft(AddToBar, m, [i \in DOMAIN BarWidths |-> [trade |-> e, width |-> BarWidths[i]]])

Trade(e, seq) == [sym |-> e.sym, price |-> e.price, qty |-> e.qty,
                  aggressor |-> e.aggressor, ts |-> e.ts, seq |-> seq]

\* Tape.record
OnTape(m, trade) ==
    [m EXCEPT !.tape = Put(@, trade.sym, Append(Entry(@, trade.sym, <<>>), trade))]

-----------------------------------------------------------------------------
\* MarketState.apply
Observe(m, e, seq) ==
    CASE e.kind = "OrderAccepted" ->
            SetBook(m, e.sym, Put(BookOf(m, e.sym), e.id,
                                  [side |-> e.side, price |-> e.price, remaining |-> e.qty]))
      [] e.kind = "Fill" ->
            LET book == ReduceOrder(ReduceOrder(BookOf(m, e.sym), e.maker, e.qty),
                                    e.taker, e.qty)
            IN  AddToBars(OnTape(SetBook(m, e.sym, book), Trade(e, seq)), e)
      [] e.kind = "OrderCancelled" -> SetBook(m, e.sym, Without(BookOf(m, e.sym), {e.id}))
      [] OTHER -> m

DrainTape(m, sym) == [m EXCEPT !.tape = Without(@, {sym})]
DrainClosedBars(m) == [m EXCEPT !.closed = <<>>]

\* dump_state, load_state: output not delivered yet is no part of it.
DumpMarket(m) == [books |-> m.books, bars |-> m.bars]
LoadMarket(s) == [NewMarket EXCEPT !.books = s.books, !.bars = s.bars, !.dirty = DOMAIN s.books]
=============================================================================
