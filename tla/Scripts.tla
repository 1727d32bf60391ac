------------------------------ MODULE Scripts ------------------------------
(***************************************************************************)
(* Histories of qa.outbound: what the C++ engine answers to a script, a    *)
(* sequence of inbound batches of records, each with the second the        *)
(* gateway stamped it with.                                                *)
(***************************************************************************)
EXTENDS Contracts, SequencesExt, TLC

Engine == INSTANCE StreamEngine WITH ClientIds <- {1, 2, 3}, Prices <- {10000, 10500},
    Users <- {1, 2}, Symbols <- {"s1"}

At(ts, r) == [ts |-> ts, record |-> r]
Submit(side, user, coid, tif, price, qty) ==
    SubmitOrder(user, coid, "s1", side, tif, price, qty)

\* The batches append_atomic() writes, every answer with its record's stamp.
Answer(eng, items) ==
    FoldLeft(LAMBDA acc, item :
                LET res == Engine!Apply(acc.eng, item.record)
                IN  [eng |-> res.eng,
                     out |-> acc.out \o [i \in DOMAIN res.out |-> ("ts" :> item.ts) @@ res.out[i]]],
             [eng |-> eng, out |-> <<>>], items)

Outcome(script) ==
    FoldLeft(LAMBDA acc, items :
                LET res == Answer(acc.eng, items)
                IN  [eng |-> res.eng, out |-> Append(acc.out, res.out)],
             [eng |-> Engine!New, out |-> <<>>], script).out
=============================================================================
