----------------------------- MODULE WebClient -----------------------------
(***************************************************************************)
(* A browser: stream/client.ts, gaps.ts, buffer.ts and portfolio.ts under  *)
(* web/src, and the re-synchronisation App.tsx wires to them.              *)
(*                                                                         *)
(* A client is a record.  The ledger's tables stand for LedgerConsumer:    *)
(* they are the projection of the ledger at dbPos (ReadModelIsReplay).     *)
(* Cash that is not known yet (null) is 0, and notices are left out.  No   *)
(* page is closed.  Old prints and bars are not dropped (TAPE_LIMIT,       *)
(* BAR_LIMIT): what is true of a series is true of its end.                *)
(***************************************************************************)
EXTENDS FanOut, Ledger

CONSTANTS NoFetch, NoRead

VARIABLES
    client,
    dbPos           \* how far PostgreSQL was when it was last read

webVars == <<client, dbPos>>

EmptyPortfolio == [cash |-> 0, positions |-> <<>>, orders |-> <<>>]

NewClient ==
    [socket |-> "closed", state |-> "closed",
     lastSeq |-> <<>>, lastPrivate |-> 0,   \* SequenceTracker; 0 stands for null
     books |-> <<>>, tapes |-> <<>>, bars |-> <<>>,     \* MarketBuffer
     portfolio |-> EmptyPortfolio,
     fetch |-> NoFetch,                     \* resyncing, and what has been read
     aligned |-> TRUE, upto |-> 0]          \* history: see PortfolioIsLedger

WebInit == client = [c \in Clients |-> NewClient] /\ dbPos = 0

LedgerAt(n) == FoldLeft(Post, NewLedger, SubSeq(stream, 1, n))

-----------------------------------------------------------------------------
\* portfolio.ts
OrderView(row) == [sym |-> row.sym, side |-> row.side, price |-> row.price,
                   remaining |-> row.remaining]

OpenOrder(b) == [sym |-> b.sym, side |-> b.side, price |-> b.price, remaining |-> b.qty]

Bought(b) == IF b.role = "taker" THEN b.aggressor = "BUY" ELSE b.aggressor # "BUY"

\* Fault: every fill is charged the taker's fee.
FoldFillAsTaker(p, b) ==
    LET notional == b.price * b.qty
        fee == TakerFee(notional)
    IN  [cash |-> p.cash + (IF Bought(b) THEN -(notional + fee) ELSE notional - fee),
         positions |-> NonZero(Change(p.positions, b.sym, IF Bought(b) THEN b.qty ELSE -b.qty)),
         orders |-> Shrink(p.orders, b.id, b.qty)]

FoldFill(p, b) ==
    LET notional == b.price * b.qty
        fee == IF b.role = "maker" THEN MakerFee(notional) ELSE TakerFee(notional)
    IN  [cash |-> p.cash + (IF Bought(b) THEN -(notional + fee) ELSE notional - fee),
         positions |-> NonZero(Change(p.positions, b.sym, IF Bought(b) THEN b.qty ELSE -b.qty)),
         orders |-> Shrink(p.orders, b.id, b.qty)]

\* reduce, of a private message.
FoldPrivate(p, b) ==
    CASE b.kind = "AccountCreated" -> [p EXCEPT !.cash = InitialCash]
      [] b.kind = "CashCredited"   -> [p EXCEPT !.cash = @ + b.amount]
      [] b.kind = "OrderAccepted"  -> [p EXCEPT !.orders = (b.id :> OpenOrder(b)) @@ @]
      [] b.kind = "Fill"           -> FoldFill(p, b)
      [] b.kind = "OrderCancelled" -> [p EXCEPT !.orders = Drop(@, {b.id})]
      [] OTHER -> p

\* What the tables show of a user, GET /portfolio and GET /orders/open.
CashOf(l, user) == Held(l.cash, user)
PositionsOf(l, user) ==
    LET syms == {x[2] : x \in {y \in DOMAIN NonZero(l.positions) : y[1] = user}}
    IN  [sym \in syms |-> l.positions[<<user, sym>>]]
OrdersOf(l, user) ==
    [id \in {i \in DOMAIN l.orders : l.orders[i].user = user} |-> OrderView(l.orders[id])]

AccountAt(n, user) ==
    LET l == LedgerAt(n)
    IN  [cash |-> CashOf(l, user), positions |-> PositionsOf(l, user), orders |-> OrdersOf(l, user)]

-----------------------------------------------------------------------------
\* buffer.ts
\* writeBar: the series ascends, and has a bucket once.
PutBar(series, bar) ==
    LET older == SelectSeq(series, LAMBDA b : b.start < bar.start)
        newer == SelectSeq(series, LAMBDA b : b.start > bar.start)
    IN  older \o <<bar>> \o newer

WriteMarket(k, f) ==
    CASE f.ch[1] = "book" ->
            [k EXCEPT !.books = (f.ch[2] :> [seq |-> f.seq, levels |-> f.levels]) @@ @]
      [] f.ch[1] = "tape" -> [k EXCEPT !.tapes = Put(@, f.ch[2], Append(Entry(@, f.ch[2], <<>>),
                                                                        f.trade))]
      [] f.ch[1] = "bars" -> [k EXCEPT !.bars = (f.ch :> PutBar(Entry(@, f.ch, <<>>), f.bar)) @@ @]

\* gaps.ts, for the private channel.
PrivateVerdict(previous, seq) ==
    CASE previous = 0       -> "ok"
      [] seq = previous     -> "duplicate"
      [] seq < previous     -> "out_of_order"
      [] seq > previous + 1 -> "gap"
      [] OTHER              -> "ok"

-----------------------------------------------------------------------------
\* resync: unless one is under way.
Resync(k) ==
    IF k.fetch # NoFetch THEN k
    ELSE [k EXCEPT !.fetch = [at |-> NoRead, ok |-> TRUE]]

Missed(k) == [k EXCEPT !.aligned = FALSE,
                       !.fetch = IF @ = NoFetch THEN @ ELSE [@ EXCEPT !.ok = FALSE]]

\* setState("connected"), and what App does in onState.
Connected(k) == Resync([k EXCEPT !.state = "connected"])

HearError(k, code) ==
    CASE code = "halted" -> [k EXCEPT !.state = "halted"]
      [] code = "resumed" /\ k.state = "halted" -> Connected(k)
      [] OTHER -> k

HearPrivate(k, f) ==
    LET verdict == PrivateVerdict(k.lastPrivate, f.seq)
        noted == [k EXCEPT !.lastPrivate = f.seq]
        heard == IF verdict = "gap" THEN Resync(Missed(noted)) ELSE noted
    IN  IF verdict = "duplicate" THEN noted
        ELSE [heard EXCEPT !.portfolio = FoldPrivate(@, f.body), !.upto = f.at,
                           !.fetch = IF @ = NoFetch THEN @ ELSE [@ EXCEPT !.ok = FALSE]]

\* A frame with the number of the last one on its channel is a duplicate.
HearMarket(k, f) ==
    LET noted == [k EXCEPT !.lastSeq = (f.ch :> f.seq) @@ @]
    IN  IF Entry(k.lastSeq, f.ch, 0) = f.seq THEN noted ELSE WriteMarket(noted, f)

-----------------------------------------------------------------------------
\* open() and onopen.  A connect is a gap: nothing is compared across it.
Open(c) ==
    /\ fpc = "serving" /\ client[c].socket = "closed"
    /\ conn' = Put(conn, c, NewConn)
    /\ wire' = [wire EXCEPT ![c] = <<>>]
    /\ client' = [client EXCEPT ![c] =
                    Connected(Missed([@ EXCEPT !.socket = "open", !.lastSeq = <<>>,
                                               !.lastPrivate = 0]))]
    /\ UNCHANGED <<outboundVars, fanVars, haltVars, unseen, dbPos>>

Receive(c) ==
    /\ client[c].socket = "open" /\ wire[c] # <<>>
    /\ LET f == Head(wire[c])
           k == client[c]
       IN  client' = [client EXCEPT ![c] =
                        CASE f.ch[1] = "error"   -> HearError(k, f.code)
                          [] f.ch[1] = "private" -> HearPrivate(k, f)
                          [] OTHER               -> HearMarket(k, f)]
    /\ Drained(c)
    /\ UNCHANGED <<outboundVars, fanVars, haltVars, unseen, dbPos>>

\* onclose; the timer of scheduleReconnect() fires with the next Open.
CloseSeen(c) ==
    /\ client[c].socket = "open" /\ c \notin DOMAIN conn /\ wire[c] = <<>>
    /\ client' = [client EXCEPT ![c].socket = "closed", ![c].state = "reconnecting"]
    /\ UNCHANGED <<outboundVars, fanOutVars, dbPos>>

\* Every message owed to c up to record n has arrived, and no other.
InStep(c, n) ==
    LET between == (Min({n, fseq}) + 1)..Max({n, fseq})
        queued == conn[c].private \o wire[c]
    IN  /\ Joined(c) /\ ~conn[c].overflowed
        /\ \A i \in DOMAIN queued : queued[i].ch[1] # "private"
        /\ \A i \in between : ~Concerns(UserOf[c], stream[i])

\* The gateway answers from the tables, as they were when last read, or with what
\* the fan-out has read, or all of the stream.  One read stands for the SELECTs of both requests.
Fetch(c) ==
    /\ client[c].fetch # NoFetch /\ client[c].fetch.at = NoRead
    /\ dbPos' \in {dbPos, Max({dbPos, fseq}), Len(stream)}
    /\ client' = [client EXCEPT ![c].fetch.at = dbPos',
                                ![c].fetch.ok = @ /\ InStep(c, dbPos')]
    /\ UNCHANGED <<outboundVars, fanOutVars>>

\* Both responses are there.  reduce, of a resync: replace, never merge.
Dispatch(c) ==
    LET fetch == client[c].fetch
    IN  /\ fetch # NoFetch /\ fetch.at # NoRead
        /\ client' = [client EXCEPT ![c].portfolio = AccountAt(fetch.at, UserOf[c]),
                                    ![c].fetch = NoFetch,
                                    ![c].aligned = fetch.ok, ![c].upto = fetch.at]
        /\ UNCHANGED <<outboundVars, fanOutVars, dbPos>>

\* A resync that fails leaves the previous state.
FetchFails(c) ==
    /\ client[c].fetch # NoFetch
    /\ Fails
    /\ client' = [client EXCEPT ![c].fetch = NoFetch]
    /\ UNCHANGED <<streamVars, marks, trimVars, fanOutVars, dbPos>>

WebStep ==
    \E c \in Clients : \/ Open(c) \/ Receive(c) \/ CloseSeen(c) \/ Fetch(c) \/ Dispatch(c)

WebNext == WebStep \/ \E c \in Clients : FetchFails(c)
=============================================================================
