----------------------------- MODULE MCLiveFeed -----------------------------
(***************************************************************************)
(* A browser of user 1 at the fan-out, while the C++ engine answers a      *)
(* script (see MCConsumers).                                               *)
(***************************************************************************)
EXTENDS LiveFeed, Scripts

\* User 1 rests, trades as maker and as taker, and has a remainder expire.  The
\* first batch opens a bar, the second closes it.
Session == <<
    <<At(0, Submit("SELL", 1, 1, "GTC", 10000, 1)), At(1, Submit("BUY", 2, 1, "GTC", 10500, 2))>>,
    <<At(3, Submit("SELL", 1, 2, "IOC", 10500, 2))>> >>

MCHistories == {Outcome(Session)}
MCReaders == <<"fanout">>
MCWidths == <<1>>
MCUserOf == [c \in Clients |-> 1]
=============================================================================
