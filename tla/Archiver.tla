------------------------------ MODULE Archiver ------------------------------
(***************************************************************************)
(* services/archiver: state.py as operators on a record, then the process  *)
(* of runner.py and writer.py, which turns qa.outbound into files, one for *)
(* each dataset, symbol and flush unit.                                    *)
(*                                                                         *)
(* An archive state holds a market, the open units by their first second,  *)
(* the units sealed and not yet written, the last unit sealed (-1 if       *)
(* none), the last record applied and how many rows came too late.  A unit *)
(* maps every second sampled to the rows of the book at its end.           *)
(***************************************************************************)
EXTENDS Outbound, MarketData

CONSTANTS
    FlushSeconds    \* the flush unit

\* The constructor refuses a width that does not divide the flush unit.
ASSUME WidthsDivideUnit ==
    /\ FlushSeconds \in Nat \ {0}
    /\ \A i \in DOMAIN BarWidths : FlushSeconds % BarWidths[i] = 0
ASSUME StampsAreSeconds == \A e \in Appended : e.ts \in Int

NewArchive == [market |-> NewMarket, open |-> <<>>, ready |-> <<>>, sealed |-> -1,
               last |-> 0, late |-> 0]

UnitStart(ts) == BucketStart(FlushSeconds, ts)

\* _write_snapshot: the levels of every symbol seen.
BookRows(m) ==
    {[sym |-> sym, side |-> side, levels |-> Levels(m.books[sym], side)] :
        sym \in DOMAIN m.books, side \in Sides}

\* _sample_until: every second before this one of every open unit.
SampleUntil(a, second) ==
    LET rows == {r \in BookRows(a.market) : r.levels # <<>>}
        Sampled(start) == [s \in start..Min({start + FlushSeconds, second}) - 1 |-> rows]
    IN  [a EXCEPT !.open = [start \in DOMAIN @ |->
            [@[start] EXCEPT !.snapshots = Upsert(Sampled(start), @)]]]

\* _ensure_unit: a sealed unit is never opened again.
EnsureUnit(a, start, previous) ==
    IF start <= a.sealed \/ start \in DOMAIN a.open THEN a
    ELSE [a EXCEPT !.open = Put(@, start, [start |-> start, resumeAfter |-> previous,
                                           trades |-> <<>>, bars |-> <<>>, snapshots |-> <<>>])]

\* A row goes to the unit it belongs to, and is late if that is not open.
File(a, dataset, row, ts) ==
    IF UnitStart(ts) \in DOMAIN a.open
    THEN [a EXCEPT !.open[UnitStart(ts)][dataset] = Append(@, row)]
    ELSE [a EXCEPT !.late = @ + 1]

FileTrade(a, t) == File(a, "trades", t, t.ts)
FileBar(a, bar) == File(a, "bars", bar, bar.start)

CollectTrades(a, sym) ==
    FoldLeft(FileTrade, [a EXCEPT !.market = DrainTape(@, sym)], a.market.tape[sym])

CollectBars(a, bars) == FoldLeft(FileBar, a, bars)

\* _force_close_bars: every open bar that has ended.
ForceCloseBars(a, cutoff) ==
    LET ended == {k \in DOMAIN a.market.bars : a.market.bars[k].start + k[2] <= cutoff}
    IN  CollectBars([a EXCEPT !.market.bars = Without(@, ended)],
                    SetToSeq({a.market.bars[k] : k \in ended}))

IsEmpty(unit) == /\ unit.trades = <<>> /\ unit.bars = <<>>
                 /\ \A s \in DOMAIN unit.snapshots : unit.snapshots[s] = {}

\* The tail of _seal_before and of finish.
SealUnits(a, starts) ==
    LET kept == {s \in starts : ~IsEmpty(a.open[s])}
    IN  [a EXCEPT !.open = Without(@, starts),
                  !.sealed = Max(starts \union {@}),
                  !.ready = @ \o [i \in 1..Cardinality(kept) |->
                                    a.open[SetToSortSeq(kept, <)[i]]]]

SealBefore(a, cutoff) ==
    LET stale == {s \in DOMAIN a.open : s < cutoff}
    IN  IF stale = {} THEN a ELSE SealUnits(ForceCloseBars(a, cutoff), stale)

\* ArchiveState.apply: sample, open the unit, fold the record in, collect, seal.
Archive(a, e, seq) ==
    LET unit == UnitStart(e.ts)
        opened == EnsureUnit(SampleUntil([a EXCEPT !.last = seq], e.ts), unit, a.last)
        applied == [opened EXCEPT !.market = Observe(@, e, seq)]
        traded == IF e.kind = "Fill" THEN CollectTrades(applied, e.sym) ELSE applied
        barred == CollectBars([traded EXCEPT !.market = DrainClosedBars(@)], traded.market.closed)
    IN  SealBefore(barred, unit)

\* ArchiveState.finish
FinishArchive(a) ==
    IF DOMAIN a.open = {} THEN a
    ELSE LET end == Max(DOMAIN a.open) + FlushSeconds
         IN  SealUnits(ForceCloseBars(SampleUntil(a, end), end), DOMAIN a.open)

\* Fault: the last record applied.
CheckpointAtLast(a) == a.last

\* checkpoint(), asked when nothing is left to write.
CheckpointOf(a) ==
    IF DOMAIN a.open = {} THEN a.last ELSE a.open[Min(DOMAIN a.open)].resumeAfter

\* write_unit: a file for each dataset and symbol that has rows.
SymbolsIn(unit, dataset) ==
    IF dataset = "snapshots" THEN {r.sym : r \in UNION Range(unit.snapshots)}
    ELSE {r.sym : r \in ToSet(unit[dataset])}

RowsOf(unit, dataset, sym) ==
    IF dataset = "snapshots"
    THEN [s \in DOMAIN unit.snapshots |-> {r \in unit.snapshots[s] : r.sym = sym}]
    ELSE SelectSeq(unit[dataset], LAMBDA r : r.sym = sym)

FilesOf(unit) ==
    FlattenSeq([d \in 1..3 |->
        LET dataset == <<"trades", "bars", "snapshots">>[d]
        IN  SetToSeq({[path |-> <<dataset, sym, unit.start>>,
                       rows |-> RowsOf(unit, dataset, sym)] :
                          sym \in SymbolsIn(unit, dataset)})])

-----------------------------------------------------------------------------
VARIABLES
    apc,        \* where the process stands
    archive, position,  \* Archiver.state, Archiver.position
    queue,      \* the files of the units drained, not written yet
    stopping,   \* in finish()
    disk,       \* the files in place
    bookmark,   \* _checkpoint.json, 0 if there is none
    hurt        \* history: units drained and lost, or cut short by a clean stop

archiverVars == <<apc, archive, position, queue, stopping, disk, bookmark, hurt>>
archiveMemory == <<archive, position, stopping>>

ArchiverInit ==
    /\ apc = "down"
    /\ archive = NewArchive /\ position = 0
    /\ queue = <<>> /\ stopping = FALSE
    /\ disk = <<>> /\ bookmark = 0
    /\ hurt = {}

\* resume() and ensure_resumable(): only the position survives a restart.
ResumeArchive ==
    /\ apc = "down"
    /\ apc' = IF Resumable(bookmark) THEN "booting" ELSE "refused"
    /\ archive' = NewArchive /\ position' = bookmark
    /\ UNCHANGED <<queue, stopping, disk, bookmark, hurt, outboundVars>>

\* publish_position(), at boot and at intervals.
PublishPosition ==
    /\ apc \in {"booting", "reading"}
    /\ apc' = "reading"
    /\ Save("archiver", bookmark, <<>>)
    /\ UNCHANGED <<archiveMemory, queue, disk, bookmark, hurt, streamVars, trimVars, chance>>

\* The rest of _write_ready: the drained units go to the writer.
Drain(a) ==
    /\ archive' = [a EXCEPT !.ready = <<>>]
    /\ queue' = FlattenSeq([i \in DOMAIN a.ready |-> FilesOf(a.ready[i])])

\* A record as the reader yields it: its position and its fields.
ArchiveRecord(a, r) == Archive(a, r.entry, r.seq)

\* step(): a batch is read and applied, and what it sealed is drained.
ReadAndArchive ==
    LET batch == Batch(position)
        a == FoldLeft(ArchiveRecord, archive,
                      [k \in DOMAIN batch |-> [seq |-> batch[k], entry |-> stream[batch[k]]]])
    IN  /\ apc = "reading"
        /\ batch # <<>>
        /\ position' = Last(batch)
        /\ Drain(a)
        /\ apc' = IF queue' = <<>> THEN "reading" ELSE "writing"
        /\ UNCHANGED <<stopping, disk, bookmark, hurt, outboundVars>>

\* _write_table: a temporary file takes the place of what is at the path.
WriteFile ==
    /\ apc = "writing"
    /\ disk' = (Head(queue).path :> Head(queue).rows) @@ disk
    /\ queue' = Tail(queue)
    /\ apc' = IF queue' = <<>> THEN "bookmarking" ELSE "writing"
    /\ UNCHANGED <<archiveMemory, bookmark, hurt, outboundVars>>

AfterWriting == IF stopping THEN "down" ELSE "reading"

\* write_checkpoint()
WriteBookmark ==
    /\ apc = "bookmarking"
    /\ bookmark' = CheckpointOf(archive)
    /\ apc' = AfterWriting
    /\ stopping' = FALSE
    /\ UNCHANGED <<archive, position, queue, disk, hurt, outboundVars>>

\* A write raises: run() logs it and reads on, and the drained units are gone.
WriteFails ==
    /\ apc \in {"writing", "bookmarking"}
    /\ Fails
    /\ hurt' = hurt \union {f.path[3] : f \in ToSet(queue)}
    /\ queue' = <<>>
    /\ apc' = AfterWriting
    /\ stopping' = FALSE
    /\ UNCHANGED <<archive, position, disk, bookmark, streamVars, marks, trimVars>>

\* Ctrl-C between two steps: stop() and then finish().
StopCleanly ==
    LET a == FinishArchive(archive)
    IN  /\ apc = "reading"
        /\ Fails
        /\ hurt' = hurt \union {u.start : u \in ToSet(a.ready)}
        /\ Drain(a)
        /\ stopping' = (queue' # <<>>)
        /\ apc' = IF queue' = <<>> THEN "down" ELSE "writing"
        /\ UNCHANGED <<position, disk, bookmark, streamVars, marks, trimVars>>

\* The process dies, or is sent a SIGTERM it does not handle.
ArchiverDies ==
    /\ apc \notin {"down", "refused"}
    /\ Dies
    /\ apc' = "down"
    /\ archive' = NewArchive /\ position' = 0
    /\ queue' = <<>> /\ stopping' = FALSE
    /\ UNCHANGED <<disk, bookmark, hurt, streamVars, marks, trimVars>>

ArchiverStep == ResumeArchive \/ PublishPosition \/ ReadAndArchive \/ WriteFile \/ WriteBookmark
ArchiverNext == ArchiverStep \/ WriteFails \/ StopCleanly \/ ArchiverDies
=============================================================================
