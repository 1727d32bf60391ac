------------------------------ MODULE Matcher ------------------------------
(***************************************************************************)
(* The matcher process: services/matcher/cpp_runner.py (deployed) and      *)
(* runner.py, with checkpointing.py and the matcher's share of             *)
(* services/checkpoint.py.                                                 *)
(*                                                                         *)
(* It reads a batch of inbound records, applies them to the engine, and    *)
(* appends the whole batch's outputs in one MULTI/EXEC.  When anything     *)
(* fails it does not retry: it rebuilds the engine from its checkpoint,    *)
(* counts the anchors that are already on the outbound stream, and replays *)
(* that many inbound records without appending anything.                   *)
(*                                                                         *)
(* Covered: the process and the C++ worker dying at any point, connections *)
(* failing at any call, the reply of the append or of the checkpoint being *)
(* lost though Redis applied it, a halt of the exchange, trimming of both  *)
(* streams, and restarts under another configuration.                      *)
(* Not covered: a call that fails and takes effect later; Redis losing     *)
(* what it acknowledged (appendfsync always); two matchers at once.        *)
(***************************************************************************)
EXTENDS AnswerLog, FiniteSets

CONSTANTS
    BatchSize,      \* XREAD COUNT
    Configs,        \* values of Settings.checkpoint_hash
    NoCheckpoint,   \* the checkpoint key does not exist
    MaxFaults       \* bound on crashes, failed calls and halts

ASSUME BatchSizePos == BatchSize \in Nat \ {0}
ASSUME MaxFaultsNat == MaxFaults \in Nat
ASSUME NotACheckpoint ==
    NoCheckpoint \notin [in : Nat, out : Nat, eng : EngineStates, config : Configs]

VARIABLES
    trimIn, trimOut,    \* how many records XTRIM has removed from each stream
    saved,              \* the hash qa.checkpoint.matcher
    pc,                 \* where the process is
    started,            \* the loop runs: an exception leads to recover() again
    config,             \* the checkpoint_hash it runs under
    eng,                \* the worker's engine
    lastIn, lastOut,    \* last_inbound_id, last_outbound_id
    cursor,             \* last_id while replaying, position within a batch
    toReplay,           \* already_answered - replayed
    batchEnd, outputs,  \* the batch being applied
    halted,             \* HaltState.halted of this process
    emptied,            \* history: a worker that had applied records was lost
                        \* without notice (StartLoop)
    faults              \* counts what MaxFaults bounds

disk    == <<trimIn, trimOut, saved>>
process == <<pc, started, config, eng, lastIn, lastOut, cursor, toReplay,
             batchEnd, outputs>>
vars    == <<logVars, disk, process, halted, emptied, faults>>

Larger(a, b) == IF a > b THEN a ELSE b

Init ==
    /\ LogInit
    /\ trimIn = 0 /\ trimOut = 0
    /\ saved = NoCheckpoint
    /\ pc = "down"
    /\ started = FALSE
    /\ config \in Configs
    /\ eng = InitEngine
    /\ lastIn = 0 /\ lastOut = 0 /\ cursor = 0 /\ toReplay = 0
    /\ batchEnd = 0 /\ outputs = <<>>
    /\ halted = FALSE
    /\ emptied = FALSE
    /\ faults = 0

-----------------------------------------------------------------------------
(* The gateway's side. *)

Submit(r) == Receive(r) /\ UNCHANGED <<disk, process, halted, emptied, faults>>

-----------------------------------------------------------------------------
(* Recovery: recover().  The process is down, or run() caught an exception. *)

\* checkpoint.load: one written under another configuration is not used.
Usable == saved # NoCheckpoint /\ saved.config = config

\* Fault: the guard is left out.
ResumableAlways(trimmed, position) == TRUE

\* checkpoint.ensure_resumable: the position is still on the stream, or
\* nothing was ever removed from it.
Resumable(trimmed, position) == trimmed = 0 \/ position > trimmed

\* Fault: an exception ends the loop for good.
ResumeOnceOnly ==
    LET from == IF Usable THEN saved ELSE [in |-> 0, out |-> 0, eng |-> InitEngine]
    IN  /\ pc = "down"
        /\ IF Resumable(trimIn, from.in) /\ Resumable(trimOut, from.out)
           THEN /\ pc' = "counting"
                /\ eng' = from.eng
                /\ cursor' = from.in
                /\ lastOut' = from.out
           ELSE pc' = "refused" /\ UNCHANGED <<eng, cursor, lastOut>>
        /\ UNCHANGED <<logVars, disk, started, config, lastIn, toReplay, batchEnd,
                       outputs, halted, emptied, faults>>

\* resume_positions, then a new worker restored from the snapshot.
Resume ==
    LET from == IF Usable THEN saved ELSE [in |-> 0, out |-> 0, eng |-> InitEngine]
    IN  /\ pc \in {"down", "failed"}
        /\ IF Resumable(trimIn, from.in) /\ Resumable(trimOut, from.out)
           THEN /\ pc' = "counting"
                /\ eng' = from.eng
                /\ cursor' = from.in
                /\ lastOut' = from.out
           ELSE pc' = "refused" /\ UNCHANGED <<eng, cursor, lastOut>>
        /\ UNCHANGED <<logVars, disk, started, config, lastIn, toReplay, batchEnd,
                       outputs, halted, emptied, faults>>

\* Fault: every record is counted, fills too.
RecordsAfter(position) == (Larger(position, trimOut) + 1)..Len(outbound)

\* Fault: XRANGE from the checkpoint's own record on.
AnchorsFrom(position) ==
    {i \in Larger(position, trimOut + 1)..Len(outbound) : IsAnchor(outbound[i])}

\* count_anchors_after: everything retained on the stream after lastOut.
AnchorsAfter(position) ==
    {i \in (Larger(position, trimOut) + 1)..Len(outbound) : IsAnchor(outbound[i])}

CountAnchors ==
    /\ pc = "counting"
    /\ toReplay' = Cardinality(AnchorsAfter(lastOut))
    /\ lastOut' = Larger(lastOut, Len(outbound))
    /\ pc' = "replaying"
    /\ UNCHANGED <<logVars, disk, started, config, eng, lastIn, cursor, batchEnd,
                   outputs, halted, emptied, faults>>

\* XREAD returns the first retained record after a position.
NextAfter(position) == Larger(position, trimIn) + 1

\* Fault: one record too many is replayed.
ReplayOneMore ==
    LET next == NextAfter(cursor)
    IN  /\ pc = "replaying"
        /\ toReplay >= 0
        /\ IF next <= Len(inbound)
           THEN /\ eng' = ApplyRecord(eng, inbound[next]).eng
                /\ cursor' = next
                /\ toReplay' = toReplay - 1
                /\ UNCHANGED pc
           ELSE pc' = "failed" /\ UNCHANGED <<eng, cursor, toReplay>>
        /\ UNCHANGED <<logVars, disk, started, config, lastIn, lastOut, batchEnd,
                       outputs, halted, emptied, faults>>

\* A record is applied silently; when there is none, recover() raises.
ReplayOne ==
    LET next == NextAfter(cursor)
    IN  /\ pc = "replaying"
        /\ toReplay > 0
        /\ IF next <= Len(inbound)
           THEN /\ eng' = ApplyRecord(eng, inbound[next]).eng
                /\ cursor' = next
                /\ toReplay' = toReplay - 1
                /\ UNCHANGED pc
           ELSE /\ pc' = IF started THEN "failed" ELSE "down"
                /\ UNCHANGED <<eng, cursor, toReplay>>
        /\ UNCHANGED <<logVars, disk, started, config, lastIn, lastOut, batchEnd,
                       outputs, halted, emptied, faults>>

Recovered ==
    /\ pc = "replaying"
    /\ toReplay = 0
    /\ lastIn' = cursor
    /\ pc' = IF started THEN "running" ELSE "booted"
    /\ UNCHANGED <<logVars, disk, started, config, eng, lastOut, cursor, toReplay,
                   batchEnd, outputs, halted, emptied, faults>>

Checkpoint == [in |-> lastIn, out |-> lastOut, eng |-> eng, config |-> config]

\* main() saves the recovered state before anything else.
BootCheckpoint ==
    /\ pc = "booted"
    /\ saved' = Checkpoint
    /\ pc' = "starting"
    /\ UNCHANGED <<logVars, trimIn, trimOut, started, config, eng, lastIn, lastOut,
                   cursor, toReplay, batchEnd, outputs, halted, emptied, faults>>

(***************************************************************************)
(* CppMatcher.start calls CppEngineProcess.start, which starts a new       *)
(* worker if the one that was recovered has exited since.  Nothing is      *)
(* restored into it: the loop then runs on an empty engine.                *)
(***************************************************************************)
StartLoop ==
    /\ pc = "starting"
    /\ \/ UNCHANGED <<eng, emptied, faults>>
       \/ /\ faults < MaxFaults
          /\ eng' = InitEngine
          /\ emptied' = (emptied \/ eng # InitEngine)
          /\ faults' = faults + 1
    /\ started' = TRUE
    /\ pc' = "running"
    /\ UNCHANGED <<logVars, disk, config, lastIn, lastOut, cursor, toReplay,
                   batchEnd, outputs, halted>>

-----------------------------------------------------------------------------
(* The live loop: step() and maintain(). *)

\* The batch that XREAD returns; the loop polls again when there is none.
Read ==
    LET from == Larger(lastIn, trimIn)
    IN  /\ pc = "running"
        /\ from < Len(inbound)
        /\ cursor' = from
        /\ batchEnd' = IF from + BatchSize < Len(inbound) THEN from + BatchSize
                                                          ELSE Len(inbound)
        /\ outputs' = <<>>
        /\ pc' = "applying"
        /\ UNCHANGED <<logVars, disk, started, config, eng, lastIn, lastOut,
                       toReplay, halted, emptied, faults>>

ApplyOne ==
    LET answer == ApplyRecord(eng, inbound[cursor + 1])
    IN  /\ pc = "applying"
        /\ cursor < batchEnd
        /\ eng' = answer.eng
        /\ outputs' = outputs \o answer.out
        /\ cursor' = cursor + 1
        /\ UNCHANGED <<logVars, disk, pc, started, config, lastIn, lastOut,
                       toReplay, batchEnd, halted, emptied, faults>>

ReadyToAppend == pc = "applying" /\ cursor = batchEnd

\* Fault: last_outbound_id is not advanced.
AppendBatchForgetsPosition ==
    /\ ReadyToAppend
    /\ ~halted
    /\ outbound' = outbound \o outputs
    /\ lastIn' = batchEnd
    /\ pc' = "running"
    /\ UNCHANGED <<inbound, history, disk, started, config, eng, lastOut, cursor,
                   toReplay, batchEnd, outputs, halted, emptied, faults>>

\* append_atomic returned the ids.
AppendBatch ==
    /\ ReadyToAppend
    /\ ~halted
    /\ outbound' = outbound \o outputs
    /\ lastOut' = Len(outbound')
    /\ lastIn' = batchEnd
    /\ pc' = "running"
    /\ UNCHANGED <<inbound, history, disk, started, config, eng, cursor, toReplay,
                   batchEnd, outputs, halted, emptied, faults>>

\* Fault: a refused batch is skipped.
AppendRefusedSkips ==
    /\ ReadyToAppend
    /\ halted
    /\ pc' = "running"
    /\ lastIn' = batchEnd
    /\ UNCHANGED <<logVars, disk, started, config, eng, lastOut, cursor, toReplay,
                   batchEnd, outputs, halted, emptied, faults>>

\* append_atomic refuses while the exchange is halted: ExchangeHalted is raised.
AppendRefused ==
    /\ ReadyToAppend
    /\ halted
    /\ pc' = "failed"
    /\ UNCHANGED <<logVars, disk, started, config, eng, lastIn, lastOut, cursor,
                   toReplay, batchEnd, outputs, halted, emptied, faults>>

\* Fault: the records are appended one by one, outside a transaction.
AppendBreaksOff(applied) ==
    /\ ReadyToAppend
    /\ ~halted
    /\ faults < MaxFaults
    /\ outbound' = IF applied THEN Append(outbound, outputs[1]) ELSE outbound
    /\ halted' = TRUE
    /\ pc' = "failed"
    /\ faults' = faults + 1
    /\ UNCHANGED <<inbound, history, disk, started, config, eng, lastIn, lastOut,
                   cursor, toReplay, batchEnd, outputs, emptied>>

\* The connection broke under EXEC, which Redis had applied or had not.
AppendFails(applied) ==
    /\ ReadyToAppend
    /\ ~halted
    /\ faults < MaxFaults
    /\ outbound' = IF applied THEN outbound \o outputs ELSE outbound
    /\ halted' = TRUE
    /\ pc' = "failed"
    /\ faults' = faults + 1
    /\ UNCHANGED <<inbound, history, disk, started, config, eng, lastIn, lastOut,
                   cursor, toReplay, batchEnd, outputs, emptied>>

\* Fault: the checkpoint may be written in the middle of a batch.
WriteCheckpointAnytime(acknowledged) ==
    /\ pc \in {"running", "applying"}
    /\ saved' = Checkpoint
    /\ UNCHANGED <<logVars, trimIn, trimOut, process, halted, emptied, faults>>

\* write_checkpoint, between batches; the reply of the HSET may be lost.
WriteCheckpoint(acknowledged) ==
    /\ pc = "running"
    /\ saved' = Checkpoint
    /\ \/ acknowledged /\ UNCHANGED <<pc, faults>>
       \/ /\ ~acknowledged
          /\ faults < MaxFaults
          /\ pc' = "failed"
          /\ faults' = faults + 1
    /\ UNCHANGED <<logVars, trimIn, trimOut, started, config, eng, lastIn, lastOut,
                   cursor, toReplay, batchEnd, outputs, halted, emptied>>

(***************************************************************************)
(* checkpointing.trim_streams and checkpoint.trim.  The matcher is the     *)
(* only reader of the inbound stream; the outbound stream has others, whose*)
(* checkpoints can only keep more of it, as XTRIM's approximation does.    *)
(***************************************************************************)
CanTrim == pc = "running" /\ ~halted /\ Usable

\* Fault: everything that was read is trimmed, checkpoint or not.
TrimInboundToPosition ==
    /\ CanTrim
    /\ trimIn' \in (trimIn + 1)..(lastIn - 1)
    /\ UNCHANGED <<logVars, trimOut, saved, process, halted, emptied, faults>>

TrimInbound ==
    /\ CanTrim
    /\ trimIn' \in (trimIn + 1)..(saved.in - 1)
    /\ UNCHANGED <<logVars, trimOut, saved, process, halted, emptied, faults>>

TrimOutbound ==
    /\ CanTrim
    /\ trimOut' \in (trimOut + 1)..(saved.out - 1)
    /\ UNCHANGED <<logVars, trimIn, saved, process, halted, emptied, faults>>

-----------------------------------------------------------------------------
(* Failures, halts and restarts. *)

\* The worker died, or a read or a checkpoint call failed: step() or recover()
\* raises, and run() starts recover() again.  Before the loop runs, the process
\* exits instead, which is Crash.
Fails ==
    /\ started
    /\ pc \in {"counting", "replaying", "running", "applying"}
    /\ faults < MaxFaults
    /\ pc' = "failed"
    /\ faults' = faults + 1
    /\ UNCHANGED <<logVars, disk, started, config, eng, lastIn, lastOut, cursor,
                   toReplay, batchEnd, outputs, halted, emptied>>

\* The process dies; everything but Redis is lost, the halt flag included.
Crash ==
    /\ pc # "down"
    /\ faults < MaxFaults
    /\ pc' = "down"
    /\ started' = FALSE
    /\ eng' = InitEngine
    /\ lastIn' = 0 /\ lastOut' = 0 /\ cursor' = 0 /\ toReplay' = 0
    /\ batchEnd' = 0 /\ outputs' = <<>>
    /\ halted' = FALSE
    /\ faults' = faults + 1
    /\ UNCHANGED <<logVars, disk, config, emptied>>

\* The process exited or refused to start, and starts under configuration c.
Deploy(c) ==
    /\ pc \in {"down", "refused"}
    /\ <<pc, config>> # <<"down", c>>
    /\ pc' = "down"
    /\ started' = FALSE
    /\ config' = c
    /\ UNCHANGED <<logVars, disk, eng, lastIn, lastOut, cursor, toReplay, batchEnd,
                   outputs, halted, emptied, faults>>

\* watch_health: a ping fails, or succeeds.
Halt ==
    /\ ~halted
    /\ pc # "down"
    /\ faults < MaxFaults
    /\ halted' = TRUE
    /\ faults' = faults + 1
    /\ UNCHANGED <<logVars, disk, process, emptied>>

ClearHalt ==
    /\ halted
    /\ halted' = FALSE
    /\ UNCHANGED <<logVars, disk, process, emptied, faults>>

-----------------------------------------------------------------------------
\* What the process does of itself, once it is started.
Progress == \/ Resume \/ CountAnchors \/ ReplayOne \/ Recovered
            \/ BootCheckpoint \/ StartLoop
            \/ Read \/ ApplyOne \/ AppendBatch \/ AppendRefused

Next == \/ \E r \in Requests : Submit(r)
        \/ Progress
        \/ \E b \in BOOLEAN : AppendFails(b) \/ WriteCheckpoint(b)
        \/ TrimInbound \/ TrimOutbound
        \/ Fails \/ Crash \/ Halt \/ ClearHalt
        \/ \E c \in Configs : Deploy(c)

Spec == Init /\ [][Next]_vars

(***************************************************************************)
(* The loop never stops by itself and the container is restarted           *)
(* (docker-compose.yml), so Progress is fair; so is the health watchdog,   *)
(* which pings for ever.  Orders, faults, checkpoints, trims and           *)
(* deployments are not.                                                    *)
(***************************************************************************)
FairSpec == Spec /\ WF_vars(Progress) /\ WF_vars(ClearHalt)

-----------------------------------------------------------------------------
(* Properties. *)

Checkpoints == [in : Nat, out : Nat, eng : EngineStates, config : Configs]

TypeOK ==
    /\ inbound \in Seq(Requests)
    /\ outbound \in Seq(Records)
    /\ ideal \in Seq(Records)
    /\ books \in [0..Len(inbound) -> EngineStates]
    /\ ends \in [0..Len(inbound) -> Nat]
    /\ trimIn \in Nat /\ trimOut \in Nat
    /\ saved \in Checkpoints \union {NoCheckpoint}
    /\ pc \in {"down", "counting", "replaying", "booted", "starting", "running",
               "applying", "failed", "refused"}
    /\ started \in BOOLEAN
    /\ config \in Configs
    /\ eng \in EngineStates
    /\ lastIn \in Nat /\ lastOut \in Nat /\ cursor \in Nat /\ toReplay \in Nat
    /\ batchEnd \in Nat
    /\ outputs \in Seq(Records)
    /\ halted \in BOOLEAN
    /\ emptied \in BOOLEAN
    /\ faults \in Nat

\* How many of the first n records of s are anchors.
Anchors(s, n) == Cardinality({i \in 1..n : IsAnchor(s[i])})
AnsweredCount == Anchors(outbound, Len(outbound))

\* outbound is the answers to the first k inbound records, no more and no less.
Answered(k) == /\ Len(outbound) = ends[k]
               /\ \A i \in 1..Len(outbound) : outbound[i] = ideal[i]

\* runner.py: recovery "re-emits nothing", and a fill is never lost.  Whatever
\* fails, and however often, no more records are answered than were submitted, and
\* the outbound stream is exactly what one engine that never stopped would have
\* written: no record answered twice, skipped, answered out of order or in part,
\* and no answer given by an engine in another state.  Only a worker that was lost
\* as the loop started (cpp_runner.py:271) ends that; the count holds after it too.
ExactlyOnce == /\ AnsweredCount <= Len(inbound)
               /\ emptied \/ \E k \in 0..Len(inbound) : Answered(k)

\* Between batches the two positions are those of the records that are answered,
\* and the engine has applied exactly these: write_checkpoint relies on both.
\* step() says it never matches on "an *empty* engine" (cpp_runner.py:202-204),
\* which holds of a worker that dies in the loop; start() (271) replaces one that
\* died before it by an empty one, and from then on only the positions are right.
InStep == pc \in {"booted", "starting", "running"} =>
            /\ lastIn = AnsweredCount
            /\ lastIn <= Len(inbound)
            /\ lastOut = Len(outbound)
            /\ emptied \/ (eng = books[lastIn] /\ Answered(lastIn))

\* checkpointing.py: the two positions and the snapshot describe one moment,
\* and that moment is never ahead of the stream.
CheckpointIsConsistent ==
    saved # NoCheckpoint =>
        /\ saved.in <= Len(inbound)
        /\ saved.out <= Len(outbound)
        /\ saved.in = Anchors(outbound, saved.out)
        /\ emptied \/ (saved.eng = books[saved.in] /\ saved.out = ends[saved.in])

\* recover() never raises "outbound anchors exceed retained inbound records":
\* as many records are retained as there are anchors left to replay.
RecoveryIsNotShort ==
    pc = "replaying" /\ toReplay > 0 => NextAfter(cursor) <= Len(inbound)

\* XREAD skips what was trimmed without a word.  The process never reads from a
\* position below the trimmed part: what it reads next is the next record.
NeverReadsPastAGap ==
    /\ pc \in {"counting", "replaying"} => cursor >= trimIn
    /\ pc = "counting" => lastOut >= trimOut
    /\ pc \in {"booted", "starting", "running"} => lastIn >= trimIn

\* checkpoint.py, rules 2 and 3: trimming stays below the matcher's own
\* checkpoint, so under one configuration it can always start.
NeverRefused == pc # "refused"

\* Every inbound record is answered in the end, whatever failed in between.
EveryRecordIsAnswered ==
    \A k \in 1..MaxInbound : (Len(inbound) >= k) ~> (AnsweredCount >= k)

\* The matcher is an AnswerLog: it publishes answers and does nothing else, until
\* a worker is lost as the loop starts.
ImplementsAnswerLog == LogInit /\ [][emptied' \/ LogNext]_logVars
ImplementsFairAnswerLog ==
    /\ ImplementsAnswerLog
    /\ <>emptied \/ WF_logVars(\E k \in 1..Len(inbound) : Answer(k))
=============================================================================
