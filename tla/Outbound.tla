------------------------------ MODULE Outbound ------------------------------
(***************************************************************************)
(* The stream qa.outbound as its readers see it, the checkpoint hashes     *)
(* they leave in Redis and the matcher's trimming of the stream below      *)
(* them: services/checkpoint.py, read_records() of                         *)
(* services/gateway/streams.py and trim_streams() of                       *)
(* services/matcher/checkpointing.py.                                      *)
(*                                                                         *)
(* A record's id is its position; 0 is "0-0".  A history is all the        *)
(* matcher will ever append: the batches of append_atomic(), the records   *)
(* with the gateway's timestamps in seconds.  All processes run under one  *)
(* configuration (Matcher has several).                                    *)
(***************************************************************************)
EXTENDS Contracts, FiniteSetsExt, SequencesExt, TLC

CONSTANTS
    Histories,      \* what the matcher may append
    Readers,        \* [checkpoint].outbound_readers, in their order
    BatchSize,
    MaxFaults,      \* bound on failed writes, lost replies and clean stops
    MaxCrashes      \* bound on processes dying

ASSUME BatchSizePos == BatchSize \in Nat \ {0}
ASSUME ReadersAreNames == Readers \in Seq(STRING)

Appended == UNION {UNION {ToSet(h[i]) : i \in DOMAIN h} : h \in Histories}
ASSUME HistoriesAreBatches == Histories \subseteq Seq(Seq(Appended))

VARIABLES
    coming, stream,     \* the batches to come, and the records appended
    floor,      \* how many records were trimmed from the front
    marks,      \* the hashes qa.checkpoint.<reader> there are: a position and a state
    seen, oldest,   \* the trimmer: readers asked so far, the oldest of their marks
    faults, crashes

streamVars == <<coming, stream, floor>>
trimVars == <<seen, oldest>>
chance == <<faults, crashes>>
outboundVars == <<streamVars, marks, trimVars, chance>>

OutboundInit ==
    /\ coming \in Histories
    /\ stream = <<>> /\ floor = 0
    /\ marks = <<>>
    /\ seen = 0 /\ oldest = 0
    /\ faults = 0 /\ crashes = 0

Fails == faults < MaxFaults /\ faults' = faults + 1 /\ UNCHANGED crashes
Dies == crashes < MaxCrashes /\ crashes' = crashes + 1 /\ UNCHANGED faults

\* XREAD: what is retained after a position, at most BatchSize records.
Batch(position) ==
    LET from == Max({position, floor})
    IN  [i \in 1..Min({BatchSize, Len(stream) - from}) |-> from + i]

\* ensure_resumable(): the first record retained is not newer than the next one.
Resumable(position) == floor = 0 \/ position >= floor + 1

\* checkpoint.save(), one HSET.
Save(r, position, state) ==
    marks' = [x \in DOMAIN marks \union {r} |->
                IF x = r THEN [pos |-> position, state |-> state] ELSE marks[x]]

Saved(r) == r \in DOMAIN marks

\* Where a recovery starts: behind the checkpoint, or at genesis.
StartOf(r) == IF Saved(r) THEN marks[r].pos ELSE 0

-----------------------------------------------------------------------------
Publish ==
    /\ coming # <<>>
    /\ stream' = stream \o Head(coming)
    /\ coming' = Tail(coming)
    /\ UNCHANGED <<floor, marks, trimVars, chance>>

\* trim() asks the readers one by one, and gives up at one without a mark.
AskReader ==
    LET r == Readers[seen + 1]
    IN  /\ seen < Len(Readers)
        /\ IF ~Saved(r)
           THEN seen' = 0 /\ oldest' = 0
           ELSE /\ seen' = seen + 1
                /\ oldest' = IF seen = 0 THEN marks[r].pos ELSE Min({oldest, marks[r].pos})
        /\ UNCHANGED <<streamVars, marks, chance>>

\* Fault: trims below the newest mark.
TrimBelowNewest ==
    /\ seen = Len(Readers)
    /\ floor' = Max({floor} \union {marks[Readers[i]].pos - 1 : i \in 1..seen})
    /\ seen' = 0 /\ oldest' = 0
    /\ UNCHANGED <<coming, stream, marks, chance>>

\* XTRIM MINID ~: at most what is below the oldest mark, which is kept.  Redis
\* removes whole nodes, here nothing or all of it.
Trim ==
    /\ seen = Len(Readers)
    /\ IF oldest = 0 THEN UNCHANGED floor
       ELSE floor' \in {floor, Max({floor, oldest - 1})}
    /\ seen' = 0 /\ oldest' = 0
    /\ UNCHANGED <<coming, stream, marks, chance>>

OutboundNext == Publish \/ AskReader \/ Trim
=============================================================================
