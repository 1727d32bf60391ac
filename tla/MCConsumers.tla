---------------------------- MODULE MCConsumers ----------------------------
(***************************************************************************)
(* Consumers of what the C++ engine answers to a script: a sequence of     *)
(* inbound batches of records, each with the second the gateway stamped it *)
(* with.  Flush units of two seconds, bars of one and of two.              *)
(***************************************************************************)
EXTENDS Consumers, Scripts

\* Trades in two seconds of one unit, an expired remainder, two units without a
\* record, a position opened and closed again, and a record that ends its unit.
Day == <<
    <<At(0, CreateAccount(1)), At(0, Submit("SELL", 2, 1, "GTC", 10000, 2)),
      At(0, Submit("BUY", 1, 1, "GTC", 10000, 1)), At(1, Submit("BUY", 1, 2, "IOC", 10500, 1))>>,
    <<At(6, Submit("BUY", 2, 2, "GTC", 10500, 2)), At(7, Submit("SELL", 1, 3, "IOC", 10500, 3)),
      At(8, CreditCash(1, 7))>> >>

\* A registration is stamped before its row is written to the database and
\* appended after it: an order with a later stamp is on the stream before.
Late == <<
    <<At(0, Submit("SELL", 2, 1, "GTC", 10000, 1)), At(0, Submit("BUY", 1, 1, "GTC", 10000, 1)),
      At(4, Submit("SELL", 2, 2, "GTC", 10000, 1)), At(4, Submit("BUY", 1, 2, "GTC", 10000, 1)),
      At(3, CreateAccount(3))>>,
    <<At(6, CreditCash(3, 7))>> >>

MCHistories == {Outcome(Day)}
MCLateHistories == {Outcome(Late)}

MCReaders == <<"ledger", "archiver">>
MCWidths == <<1, 2>>
=============================================================================
