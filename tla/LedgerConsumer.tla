--------------------------- MODULE LedgerConsumer ---------------------------
(***************************************************************************)
(* services/ledger/consumer.py: one process that folds qa.outbound into    *)
(* the ledger, projects it into PostgreSQL and checkpoints it.             *)
(*                                                                         *)
(* A step ends where the code awaits Redis or PostgreSQL.  A flush is one  *)
(* transaction; when it fails, what the loop knows is an exception, and    *)
(* the transaction was committed or not.                                   *)
(***************************************************************************)
EXTENDS Outbound, Ledger

ASSUME LedgerIsAReader == "ledger" \in ToSet(Readers)

ASSUME AmountsAreIntegers ==
    /\ InitialCash \in Int
    /\ \A e \in Appended : /\ e.kind = "CashCredited" => e.amount \in Int
                           /\ e.kind = "Fill" => e.price \in Int /\ e.qty \in Int

\* The matcher gives an order id to one order.
OneOrderPerId(h) ==
    \A i, j \in DOMAIN h : \A m \in DOMAIN h[i], n \in DOMAIN h[j] :
        /\ h[i][m].kind = "OrderAccepted" /\ h[j][n].kind = "OrderAccepted"
        /\ h[i][m].id = h[j][n].id
        => Row(h[i][m]) = Row(h[j][n])

\* A user's account comes once and before anything else of its cash: the id is
\* drawn from a sequence, and without cash the risk check passes no order.
AccountsComeFirst(h) ==
    \A i, j \in DOMAIN h : \A m \in DOMAIN h[i], n \in DOMAIN h[j] :
        /\ h[j][n].kind = "AccountCreated"
        /\ i < j \/ (i = j /\ m < n)
        => h[j][n].user \notin MarkDirty(Clean, h[i][m]).accounts

ASSUME HistoriesAreMatched ==
    \A h \in Histories : OneOrderPerId(h) /\ AccountsComeFirst(h)

VARIABLES
    lpc,        \* where the process stands
    ledger, lastSeq,    \* Ledger
    dirty,      \* the keys apply() touched since the last take_dirty()
    owed,       \* _needs_full_flush
    db          \* the read model

ledgerVars == <<lpc, ledger, lastSeq, dirty, owed, db>>
ledgerMemory == <<ledger, lastSeq, dirty>>

LedgerInit ==
    /\ lpc = "down"
    /\ ledger = NewLedger /\ lastSeq = 0
    /\ dirty = Clean /\ owed = FALSE
    /\ db = EmptyTables

ApplyToLedger(batch) ==
    LET records == [i \in DOMAIN batch |-> stream[batch[i]]]
    IN  /\ ledger' = FoldLeft(Post, ledger, records)
        /\ dirty' = FoldLeft(MarkDirty, dirty, records)
        /\ lastSeq' = Last(batch)

-----------------------------------------------------------------------------
\* recover(): the checkpoint, or genesis; the guard either way.
Recover ==
    /\ lpc = "down"
    /\ lpc' = IF Resumable(StartOf("ledger")) THEN "replaying" ELSE "refused"
    /\ ledger' = IF Saved("ledger") THEN marks["ledger"].state ELSE NewLedger
    /\ lastSeq' = StartOf("ledger")
    /\ dirty' = Clean /\ owed' = FALSE
    /\ UNCHANGED <<db, outboundVars>>

\* _replay_after, batch by batch, until a read returns nothing.
ReplayBatch ==
    /\ lpc = "replaying"
    /\ IF Batch(lastSeq) = <<>>
       THEN lpc' = "rebuilding" /\ UNCHANGED ledgerMemory
       ELSE ApplyToLedger(Batch(lastSeq)) /\ UNCHANGED lpc
    /\ UNCHANGED <<owed, db, outboundVars>>

\* flush_to_db(full=True) at the end of recover().
Rebuild ==
    /\ lpc = "rebuilding"
    /\ lpc' = "booting"
    /\ db' = FlushAll(db, ledger)
    /\ dirty' = Clean
    /\ UNCHANGED <<ledger, lastSeq, owed, outboundVars>>

\* write_checkpoint(), by main() at boot and by run() after a flush.
SaveLedger ==
    /\ lpc \in {"booting", "saving"}
    /\ lpc' = "polling"
    /\ Save("ledger", lastSeq, ledger)
    /\ UNCHANGED <<ledgerMemory, owed, db, streamVars, trimVars, chance>>

\* run() catches the exception.  The checkpoint may have been saved all the same.
SaveFails ==
    /\ lpc = "saving"
    /\ Fails
    /\ lpc' = "polling" /\ owed' = TRUE
    /\ Save("ledger", lastSeq, ledger) \/ UNCHANGED marks
    /\ UNCHANGED <<ledgerMemory, db, streamVars, trimVars>>

Poll ==
    /\ lpc = "polling"
    /\ Batch(lastSeq) # <<>>
    /\ lpc' = "flushing"
    /\ ApplyToLedger(Batch(lastSeq))
    /\ UNCHANGED <<owed, db, outboundVars>>

\* The read raises: a full flush is owed that nothing asked for.
PollFails ==
    /\ lpc = "polling"
    /\ Fails
    /\ owed' = TRUE
    /\ UNCHANGED <<lpc, ledgerMemory, db, streamVars, marks, trimVars>>

Flushed == IF owed THEN FlushAll(db, ledger) ELSE FlushDirty(db, ledger, dirty)

\* A checkpoint follows if the interval has passed.
Flush ==
    /\ lpc = "flushing"
    /\ lpc' \in {"polling", "saving"}
    /\ db' = Flushed
    /\ dirty' = Clean /\ owed' = FALSE
    /\ UNCHANGED <<ledger, lastSeq, outboundVars>>

\* Fault: the rows taken are forgotten and no full flush is owed.
FlushFailsUnowed ==
    /\ lpc = "flushing"
    /\ Fails
    /\ lpc' = "polling"
    /\ db' \in {db, Flushed}
    /\ dirty' = Clean
    /\ UNCHANGED <<ledger, lastSeq, owed, streamVars, marks, trimVars>>

\* take_dirty() has emptied the sets before the transaction began.
FlushFails ==
    /\ lpc = "flushing"
    /\ Fails
    /\ lpc' = "polling"
    /\ db' \in {db, Flushed}
    /\ dirty' = Clean /\ owed' = TRUE
    /\ UNCHANGED <<ledger, lastSeq, streamVars, marks, trimVars>>

\* The process dies, or a call of recover() or main() raises; what it asked of
\* PostgreSQL or Redis may have been done.
LedgerDies ==
    /\ lpc \notin {"down", "refused"}
    /\ Dies
    /\ lpc' = "down"
    /\ ledger' = NewLedger /\ lastSeq' = 0
    /\ dirty' = Clean /\ owed' = FALSE
    /\ db' = db \/ (lpc = "rebuilding" /\ db' = FlushAll(db, ledger))
                \/ (lpc = "flushing" /\ db' = Flushed)
    /\ UNCHANGED marks \/ (lpc \in {"booting", "saving"} /\ Save("ledger", lastSeq, ledger))
    /\ UNCHANGED <<streamVars, trimVars>>

LedgerStep == Recover \/ ReplayBatch \/ Rebuild \/ SaveLedger \/ Poll \/ Flush
LedgerNext == LedgerStep \/ SaveFails \/ PollFails \/ FlushFails \/ LedgerDies
=============================================================================
