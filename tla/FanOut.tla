------------------------------- MODULE FanOut -------------------------------
(***************************************************************************)
(* services/fanout: one process on one event loop that reads qa.outbound,  *)
(* keeps the market, numbers and queues every user's private messages, and *)
(* offers what moved to every connection when the tick fires.              *)
(*                                                                         *)
(* An action is what runs between two awaits.  A browser has at most one   *)
(* connection: the server drops a socket in the step that cuts it.  Only   *)
(* well-formed requests for channels of channelsFor() are sent, all of     *)
(* them at once.  The writer's loop runs on until a send has to wait: a    *)
(* socket takes WireMax frames, and the rest of a batch is on the wire as  *)
(* soon as the browser has read.                                           *)
(***************************************************************************)
EXTENDS Outbound, MarketData

CONSTANTS
    Clients, UserOf,    \* the browsers, and the user signed in to each
    PrivateMax,         \* PRIVATE_BUFFER_MAX
    WireMax             \* bound on the frames a socket holds

ASSUME LimitsPos == PrivateMax \in Nat \ {0} /\ WireMax \in Nat \ {0}

VARIABLES
    fpc,            \* where the process stands
    market, fseq,   \* MarketState and its last_seq
    userSeq,        \* PrivateRouter._seq
    view, haltOwed, \* HaltView, and whether its last transition is unannounced
    conn,           \* the Subscriber of each browser that has one
    wire,           \* the frames sent, or waiting in the writer's batch to be sent
    unseen          \* history: what a browser's newest frames would have told it

fanVars == <<fpc, market, fseq, userSeq>>
haltVars == <<view, haltOwed>>
hubVars == <<conn, wire, unseen>>
fanOutVars == <<fanVars, haltVars, hubVars>>

Users == {UserOf[c] : c \in Clients}
NoSeq == [u \in Users |-> 0]
Nobody == <<>>

FanOutInit ==
    /\ fpc = "down"
    /\ market = NewMarket /\ fseq = 0 /\ userSeq = NoSeq
    /\ view = "clear" /\ haltOwed = FALSE
    /\ conn = Nobody
    /\ wire = [c \in Clients |-> <<>>]
    /\ unseen = [c \in Clients |-> {}]

-----------------------------------------------------------------------------
\* Subscriber
NewConn == [joined |-> FALSE, subscribed |-> FALSE, fresh |-> FALSE, private |-> <<>>,
            market |-> <<>>, wake |-> FALSE, busy |-> FALSE, overflowed |-> FALSE]

HandOver(s) == [s EXCEPT !.busy = TRUE, !.wake = TRUE]

OfferMarket(s, frames) == IF s.busy THEN s ELSE [s EXCEPT !.market = @ \o frames]

\* Fault: a message for which there is no room is dropped without a word.
OfferPrivateQuietly(s, frame) ==
    IF Len(s.private) >= PrivateMax THEN s
    ELSE HandOver([s EXCEPT !.private = Append(@, frame)])

OfferPrivate(s, frame) ==
    IF Len(s.private) >= PrivateMax THEN [s EXCEPT !.overflowed = TRUE]
    ELSE HandOver([s EXCEPT !.private = Append(@, frame)])

FlushConn(s) == IF s.market = <<>> /\ s.private = <<>> THEN s ELSE HandOver(s)

Joined(c) == c \in DOMAIN conn /\ conn[c].joined
Waits(frames) == Len(frames) > WireMax

-----------------------------------------------------------------------------
\* PrivateRouter.messages_for: the record, or a side of a fill, for each user.
FillSide(e, id, role) ==
    [kind |-> "Fill", id |-> id, sym |-> e.sym, price |-> e.price, qty |-> e.qty,
     aggressor |-> e.aggressor, role |-> role]

MessagesFor(e) ==
    CASE e.kind = "Fill" ->
            <<[user |-> e.makerUser, body |-> FillSide(e, e.maker, "maker")],
              [user |-> e.takerUser, body |-> FillSide(e, e.taker, "taker")]>>
      [] e.kind \in {"OrderAccepted", "OrderRejected", "OrderCancelled", "AccountCreated",
                     "CashCredited"} -> <<[user |-> e.user, body |-> e]>>
      [] OTHER -> <<>>

Concerns(user, e) == \E i \in DOMAIN MessagesFor(e) : MessagesFor(e)[i].user = user

\* PrivateRouter.route for one user.  `at' is the record's position, which the
\* frame does not carry.
Route(hub, message) ==
    LET user == message.user
        listening == {c \in DOMAIN hub.conn : UserOf[c] = user /\ hub.conn[c].joined}
        seq == hub.seq[user] + 1
        frame == [ch |-> <<"private">>, seq |-> seq, body |-> message.body, at |-> message.at]
    IN  IF listening = {} THEN hub
        ELSE [seq  |-> [hub.seq EXCEPT ![user] = seq],
              conn |-> [c \in DOMAIN hub.conn |->
                          IF c \in listening THEN OfferPrivate(hub.conn[c], frame)
                          ELSE hub.conn[c]]]

\* A record as the reader yields it: its position and its fields.
RouteRecord(hub, r) ==
    LET messages == MessagesFor(r.entry)
    IN  FoldLeft(Route, hub, [i \in DOMAIN messages |-> [user |-> messages[i].user, at |-> r.seq,
                                                         body |-> messages[i].body]])

-----------------------------------------------------------------------------
ObserveRecord(m, r) == Observe(m, r.entry, r.seq)

Records(batch) == [k \in DOMAIN batch |-> [seq |-> batch[k], entry |-> stream[batch[k]]]]

\* Fault: the position of the checkpoint without its books.
ResumeWithoutState ==
    /\ fpc = "down"
    /\ fpc' = IF Resumable(StartOf("fanout")) THEN "replaying" ELSE "refused"
    /\ fseq' = StartOf("fanout")
    /\ UNCHANGED <<outboundVars, market, userSeq, haltVars, hubVars>>

\* FanOut.recover: the checkpoint, or genesis.
ResumeFanOut ==
    /\ fpc = "down"
    /\ fpc' = IF Resumable(StartOf("fanout")) THEN "replaying" ELSE "refused"
    /\ market' = IF Saved("fanout") THEN LoadMarket(marks["fanout"].state) ELSE NewMarket
    /\ fseq' = StartOf("fanout")
    /\ UNCHANGED <<outboundVars, userSeq, haltVars, hubVars>>

\* What recover() reads is history: nothing of it is routed.
ReplayHistory ==
    /\ fpc = "replaying"
    /\ LET batch == Batch(fseq)
       IN  IF batch = <<>>
           THEN fpc' = "booting" /\ UNCHANGED <<market, fseq>>
           ELSE /\ market' = FoldLeft(ObserveRecord, market, Records(batch))
                /\ fseq' = Last(batch)
                /\ UNCHANGED fpc
    /\ UNCHANGED <<outboundVars, userSeq, haltVars, hubVars>>

TickDrains(m) == [m EXCEPT !.dirty = {}, !.tape = <<>>, !.closed = <<>>]

\* Fault: a browser may connect before the first tick.
ServeBeforeTick ==
    /\ fpc = "booting"
    /\ fpc' = "serving"
    /\ Save("fanout", fseq, DumpMarket(market))
    /\ UNCHANGED <<streamVars, trimVars, chance, market, fseq, userSeq, haltVars, hubVars>>

\* write_checkpoint() before anybody is served, and the first tick, which is due
\* at once: the prints and bars of the replay go to nobody.
ServeFanOut ==
    /\ fpc = "booting"
    /\ fpc' = "serving"
    /\ Save("fanout", fseq, DumpMarket(market))
    /\ market' = TickDrains(market)
    /\ UNCHANGED <<streamVars, trimVars, chance, fseq, userSeq, haltVars, hubVars>>

\* FanOut.step, and the checkpoint of run() if the interval has passed.
ReadAndRoute ==
    /\ fpc = "serving"
    /\ LET batch == Batch(fseq)
           hub == FoldLeft(RouteRecord, [seq |-> userSeq, conn |-> conn], Records(batch))
       IN  /\ batch # <<>>
           /\ market' = FoldLeft(ObserveRecord, market, Records(batch))
           /\ fseq' = Last(batch)
           /\ userSeq' = hub.seq /\ conn' = hub.conn
    /\ UNCHANGED marks \/ Save("fanout", fseq', DumpMarket(market'))
    /\ UNCHANGED <<streamVars, trimVars, chance, fpc, haltVars, wire, unseen>>

\* HaltView.refresh, polled by watch_halt(), finds another value: the gateway has
\* published a halt, its key has expired, Redis is gone, or the end of one of
\* these.  One reason stands for all.
WatchHalt ==
    /\ fpc = "serving"
    /\ IF view = "clear" THEN view' = "halted" /\ Fails ELSE view' = "clear" /\ UNCHANGED chance
    /\ haltOwed' = TRUE
    /\ UNCHANGED <<streamVars, marks, trimVars, fanVars, hubVars>>

-----------------------------------------------------------------------------
BookFrame(sym) ==
    [ch |-> <<"book", sym>>, seq |-> fseq,
     levels |-> [side \in Sides |-> Levels(market.books[sym], side)]]
TapeFrame(trade) == [ch |-> <<"tape", trade.sym>>, seq |-> trade.seq, trade |-> trade]
BarFrame(bar) == [ch |-> <<"bars", bar.sym, bar.width>>, seq |-> fseq, bar |-> bar]
ErrorFrame(code) == [ch |-> <<"error">>, code |-> code]

HaltFrames ==
    IF haltOwed THEN <<ErrorFrame(IF view = "clear" THEN "resumed" ELSE "halted")>> ELSE <<>>

\* Conflator._books: the books that moved, and for a newcomer all there are.
BookFrames(s) ==
    LET syms == IF s.fresh THEN DOMAIN market.books ELSE market.dirty
    IN  [i \in 1..Cardinality(syms) |-> BookFrame(SetToSeq(syms)[i])]

\* The prints of one symbol after those of another.
Following(trades, tape) == trades \o tape

TapeFrames ==
    LET syms == SetToSeq(DOMAIN market.tape)
        trades == FoldLeft(Following, <<>>, [i \in DOMAIN syms |-> market.tape[syms[i]]])
    IN  [i \in DOMAIN trades |-> TapeFrame(trades[i])]

\* A browser charts one width, CHART_BAR_WIDTH.
Charted(bars, bar) == IF bar.width = BarWidths[1] THEN Append(bars, bar) ELSE bars

BarFrames ==
    LET bars == FoldLeft(Charted, <<>>, market.closed)
    IN  [i \in DOMAIN bars |-> BarFrame(bars[i])]

\* Fault: a newcomer gets the books that moved, as everybody.
FramesForAll(s) ==
    HaltFrames \o (IF ~s.subscribed THEN <<>>
                   ELSE BookFrames([s EXCEPT !.fresh = FALSE]) \o TapeFrames \o BarFrames)

FramesFor(s) ==
    HaltFrames \o (IF ~s.subscribed THEN <<>> ELSE BookFrames(s) \o TapeFrames \o BarFrames)

Ticked(s) == [FlushConn(OfferMarket(s, FramesFor(s))) EXCEPT !.fresh = FALSE]

\* The kinds of frame the tick makes for s that tell all there is to know.
Told(s) == (IF haltOwed THEN {"halt"} ELSE {})
           \union (IF s.subscribed /\ BookFrames(s) # <<>> THEN {"book"} ELSE {})

\* Conflator.tick: the queues are drained whether or not anyone listens.
Tick ==
    /\ fpc = "serving"
    /\ conn' = [c \in DOMAIN conn |-> IF conn[c].joined THEN Ticked(conn[c]) ELSE conn[c]]
    /\ unseen' = [c \in Clients |->
                    IF ~Joined(c) THEN unseen[c]
                    ELSE IF conn[c].busy THEN unseen[c] \union Told(conn[c])
                    ELSE unseen[c] \ Told(conn[c])]
    /\ market' = TickDrains(market)
    /\ haltOwed' = FALSE
    /\ UNCHANGED <<outboundVars, fpc, fseq, userSeq, view, wire>>

-----------------------------------------------------------------------------
\* /stream after the session lookup.  Nothing tells a newcomer of a halt that
\* was announced before.
Join(c) ==
    /\ c \in DOMAIN conn /\ ~conn[c].joined
    /\ conn' = [conn EXCEPT ![c].joined = TRUE]
    /\ unseen' = [unseen EXCEPT ![c] = IF view # "clear" /\ ~haltOwed THEN {"halt"} ELSE {}]
    /\ UNCHANGED <<outboundVars, fanVars, haltVars, wire>>

\* The session store failed: `halted', and the end of the connection.
JoinRefused(c) ==
    /\ c \in DOMAIN conn /\ ~conn[c].joined
    /\ Fails
    /\ conn' = Without(conn, {c})
    /\ wire' = [wire EXCEPT ![c] = Append(@, ErrorFrame("halted"))]
    /\ UNCHANGED <<streamVars, marks, trimVars, fanVars, haltVars, unseen>>

Subscribe(c) ==
    /\ Joined(c) /\ ~conn[c].subscribed
    /\ conn' = [conn EXCEPT ![c].subscribed = TRUE, ![c].fresh = TRUE]
    /\ UNCHANGED <<outboundVars, fanVars, haltVars, wire, unseen>>

\* Subscriber._run takes what has accumulated, private messages first, and is
\* not busy any more when all of it is sent.
TakeBatch(c) ==
    /\ Joined(c) /\ conn[c].wake /\ ~Waits(wire[c])
    /\ wire' = [wire EXCEPT ![c] = @ \o conn[c].private \o conn[c].market]
    /\ conn' = [conn EXCEPT ![c].wake = FALSE, ![c].private = <<>>, ![c].market = <<>>,
                            ![c].busy = @ /\ Waits(wire'[c])]
    /\ UNCHANGED <<outboundVars, fanVars, haltVars, unseen>>

\* The browser reads: a frame is gone, and with it the wait of the batch's last.
Drained(c) ==
    /\ wire' = [wire EXCEPT ![c] = Tail(@)]
    /\ conn' = IF ~Joined(c) THEN conn
               ELSE [conn EXCEPT ![c].busy = @ /\ ~(Waits(wire[c]) /\ ~Waits(wire'[c]))]

\* _serve: a connection that has overflowed is told so and closed, whatever the
\* writer had in its hands.
SlowConsumer(c) ==
    /\ Joined(c) /\ conn[c].overflowed
    /\ wire' = [wire EXCEPT ![c] = SubSeq(@, 1, Min({Len(@), WireMax}))
                                      \o <<ErrorFrame("slow_consumer")>>]
    /\ conn' = Without(conn, {c})
    /\ UNCHANGED <<outboundVars, fanVars, haltVars, unseen>>

\* The network drops a connection, and what is on its way.
Cut(c) ==
    /\ c \in DOMAIN conn
    /\ Fails
    /\ conn' = Without(conn, {c})
    /\ wire' = [wire EXCEPT ![c] = <<>>]
    /\ UNCHANGED <<streamVars, marks, trimVars, fanVars, haltVars, unseen>>

FanOutDies ==
    /\ fpc \notin {"down", "refused"}
    /\ Fails
    /\ fpc' = "down"
    /\ market' = NewMarket /\ fseq' = 0 /\ userSeq' = NoSeq
    /\ view' = "clear" /\ haltOwed' = FALSE
    /\ conn' = Nobody
    /\ UNCHANGED <<streamVars, marks, trimVars, wire, unseen>>

FanOutStep ==
    \/ ResumeFanOut \/ ReplayHistory \/ ServeFanOut \/ ReadAndRoute \/ WatchHalt \/ Tick
    \/ \E c \in Clients : \/ Join(c) \/ Subscribe(c) \/ TakeBatch(c) \/ SlowConsumer(c)

FanOutNext ==
    \/ FanOutStep \/ FanOutDies
    \/ \E c \in Clients : JoinRefused(c) \/ Cut(c)
=============================================================================
