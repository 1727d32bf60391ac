----------------------------- MODULE MCEngines -----------------------------
(* Instances of Engines: two users, a grid of two prices, quantities 1 and 2. *)
EXTENDS Engines

Submits(syms, sides, tifs, qtys) ==
    {SubmitOrder(u, c, s, d, t, p, q) :
        u \in Users, c \in ClientIds, s \in syms, d \in sides,
        t \in tifs, p \in Prices, q \in qtys}

Cancels == {CancelOrder(u, 9, c) : u \in Users, c \in ClientIds}

\* Submissions out of bounds: in one field, and in two that the engines check in
\* different orders.
Malformed ==
    {SubmitOrder(u, c, "s1", o[1], o[2], o[3], o[4]) :
        u \in Users, c \in ClientIds,
        o \in {<<"BUY", "GTC", 0, 0>>, <<"SELL", "IOC", 11, 0>>,
               <<"none", "GTC", 11, 2>>, <<"BUY", "none", 11, 2>>,
               <<"none", "GTC", 0, 2>>, <<"SELL", "none", 11, 0>>}}

\* And a forwarded record.
Others == {ConfigureReplay} \union Malformed

\* A buyer of one lot pays the higher price, so that it can leave part of an ask.
\* Immediate orders cross whatever rests in their symbol; in the second symbol,
\* which shares the client index and the id counter, that is nothing.
MCInputs == {o \in Submits({"s1"}, {"BUY"}, {"GTC"}, 1..2) : o.qty = 1 => o.price = 11}
               \union Submits({"s1"}, {"SELL"}, {"GTC"}, {2})
               \union {o \in Submits(Symbols, Sides, {"IOC"}, {2}) :
                          /\ o.price = 11 <=> o.side = "BUY"
                          /\ o.sym = "s2" => o.side = "SELL"}
               \union Cancels \union Others

MCSymmetry == Permutations(Users)
=============================================================================
