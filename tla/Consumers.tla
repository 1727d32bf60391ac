------------------------------ MODULE Consumers ------------------------------
(***************************************************************************)
(* The readers of qa.outbound that keep something: the ledger with its     *)
(* read model, and the archiver with its files, beside the matcher, which  *)
(* appends to the stream and trims it.                                     *)
(***************************************************************************)
EXTENDS LedgerConsumer, Archiver

vars == <<outboundVars, ledgerVars, archiverVars>>

Init == OutboundInit /\ LedgerInit /\ ArchiverInit

Next ==
    \/ OutboundNext /\ UNCHANGED <<ledgerVars, archiverVars>>
    \/ LedgerNext /\ UNCHANGED archiverVars
    \/ ArchiverNext /\ UNCHANGED ledgerVars

Spec == Init /\ [][Next]_vars

LedgerCanStep == lpc # "refused" /\ (lpc = "polling" => Batch(lastSeq) # <<>>)
ArchiverCanStep == apc # "refused" /\ (apc = "reading" => Batch(position) # <<>>)

\* docker-compose.yml restarts every process, and the matcher answers what it
\* reads: weak fairness of the three, with what enables a step spelled out.
FairSpec ==
    /\ Spec
    /\ []<>(coming = <<>>) \/ []<><<Publish>>_stream
    /\ []<>(~LedgerCanStep) \/ []<><<LedgerStep>>_ledgerVars
    /\ []<>(~ArchiverCanStep) \/ []<><<ArchiverStep>>_archiverVars

-----------------------------------------------------------------------------
(***************************************************************************)
(* In every copy of the ledger (the process, its checkpoint, PostgreSQL)   *)
(* what users hold and the house has taken is what was deposited, and the  *)
(* units sold are the units bought.                                        *)
(***************************************************************************)
DepositedBy(n) == Total([i \in 1..n |-> Granted(stream[i])])

CashConserved ==
    /\ Balanced(ledger)
    /\ Saved("ledger") => Balanced(marks["ledger"].state)
    /\ Total(db.positions) = 0
    /\ \E n \in 0..Len(stream) : Total(db.accounts) + db.fees = DepositedBy(n)

\* The ledgers a replay goes through: Replays[n + 1] is that after n records.
NextReplay(ledgers, e) == Append(ledgers, Post(Last(ledgers), e))
Replays == FoldLeft(NextReplay, <<NewLedger>>, stream)

(***************************************************************************)
(* write_checkpoint(): PostgreSQL and the checkpoint describe the stream:  *)
(* the process and its checkpoint are replays of a prefix of it, the read  *)
(* model is the projection of one, never older than the checkpoint's, and  *)
(* unless a full flush is owed it is that of the last batch flushed.       *)
(***************************************************************************)
ReadModelIsReplay ==
    LET replays == Replays
        saved == StartOf("ledger")
    IN  /\ lpc # "refused" => ledger = replays[lastSeq + 1]
        /\ Saved("ledger") => marks["ledger"].state = replays[saved + 1]
        /\ \E n \in saved..Len(stream) : db = Projection(replays[n + 1])
        /\ lpc \in {"polling", "saving"} /\ ~owed => db = Projection(ledger)

(***************************************************************************)
(* archiver/state.py: every file is complete for everything before the     *)
(* bookmark.  Each trade of an archived unit is there once and no other    *)
(* is, and the bars are those of the trades.                               *)
(***************************************************************************)
Fills == {i \in DOMAIN stream : stream[i].kind = "Fill"}
UnitOf(i) == UnitStart(stream[i].ts)
FillsOf(sym, unit) == {i \in Fills : stream[i].sym = sym /\ UnitOf(i) = unit}
RowsAt(dataset, sym, unit) == Entry(disk, <<dataset, sym, unit>>, <<>>)

BarOf(is, width) ==
    LET prices == {stream[i].price : i \in is}
        first == stream[Min(is)]
    IN  [sym |-> first.sym, width |-> width, start |-> BucketStart(width, first.ts),
         open |-> first.price, high |-> Max(prices), low |-> Min(prices),
         close |-> stream[Max(is)].price, volume |-> MapThenSumSet(LAMBDA i : stream[i].qty, is)]

BarsOf(is) ==
    UNION {{BarOf({j \in is : BucketStart(w, stream[j].ts) = b}, w) :
               b \in {BucketStart(w, stream[i].ts) : i \in is}} : w \in ToSet(BarWidths)}

IsWhole(sym, unit) ==
    LET is == FillsOf(sym, unit)
        bars == RowsAt("bars", sym, unit)
    IN  /\ RowsAt("trades", sym, unit) = [i \in 1..Cardinality(is) |->
                LET n == SetToSortSeq(is, <)[i] IN Trade(stream[n], n)]
        /\ ToSet(bars) = BarsOf(is) /\ Len(bars) = Cardinality(ToSet(bars))

ArchivedBefore(n) == {<<stream[i].sym, UnitOf(i)>> : i \in {j \in Fills : j <= n}}

\* Every unit the bookmark has passed is whole, unless writing it failed, or a
\* clean stop wrote the first part of it (its remainder then takes its place).
ArchivedUnitsAreWhole ==
    /\ archive.late = 0
    /\ \A x \in ArchivedBefore(bookmark) : x[2] \notin hurt => IsWhole(x[1], x[2])

\* archiver/state.py: `Every file on disk is complete for everything strictly
\* before the checkpoint'.
ArchiveIsComplete == \A x \in ArchivedBefore(bookmark) : IsWhole(x[1], x[2])

(***************************************************************************)
(* Trimming (Open Issue 020): what is gone from the stream is archived and *)
(* behind the ledger's checkpoint, and no process finds itself refused.    *)
(***************************************************************************)
LedgerCanAlwaysResume ==
    /\ floor > 0 => StartOf("ledger") > floor
    /\ lpc # "refused" /\ (lpc # "down" => lastSeq >= floor)

BookmarkIsAPosition == bookmark \in 0..Len(stream)

ArchiverCanAlwaysResume ==
    /\ BookmarkIsAPosition
    /\ floor > 0 => bookmark > floor
    /\ apc # "refused" /\ (apc # "down" => position >= floor)

TrimmedIsKept ==
    /\ LedgerCanAlwaysResume /\ ArchiverCanAlwaysResume
    /\ \A x \in ArchivedBefore(floor) : x[2] \notin hurt => IsWhole(x[1], x[2])

\* Once the faults are over both readers have read the whole stream, and the read
\* model is the ledger's, or a full flush is owed to the next batch.
ReadersCatchUp ==
    <>[](/\ lastSeq = Len(stream) /\ position = Len(stream)
         /\ db = Projection(ledger) \/ owed)
=============================================================================
