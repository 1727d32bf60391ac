----------------------------- MODULE AnswerLog -----------------------------
(***************************************************************************)
(* What the matcher promises the rest of the exchange: every inbound       *)
(* record is answered exactly once, in the order of the inbound stream, by *)
(* a deterministic engine, and an answer becomes visible as a whole.       *)
(*                                                                         *)
(* The engine being deterministic, the whole outbound stream is decided    *)
(* the moment a record is on the inbound stream.  `ideal' is that stream,  *)
(* `books[k]' the engine after the first k records and `ends[k]' the       *)
(* length of their answers.  A matcher can only choose how much of `ideal' *)
(* it has published so far.                                                *)
(***************************************************************************)
EXTENDS Contracts

CONSTANTS
    Requests,       \* the inbound records of the instance
    Records,        \* the outbound records
    EngineStates,
    InitEngine,
    ApplyRecord(_, _),  \* an engine and a request -> [eng |-> , out |-> ]
    MaxInbound          \* bound on the length of the inbound stream

(***************************************************************************)
(* The engine is deterministic (ApplyRecord is an operator) and answers    *)
(* every record by exactly one anchor, which comes first: the table of     *)
(* services/matcher/runner.py.  Engines!OneAnchorFirst checks it of the    *)
(* C++ engine.                                                             *)
(***************************************************************************)
ASSUME EngineAnswers ==
    /\ InitEngine \in EngineStates
    /\ \A e \in EngineStates, r \in Requests :
          /\ ApplyRecord(e, r).eng \in EngineStates
          /\ ApplyRecord(e, r).out \in Seq(Records)
          /\ Len(ApplyRecord(e, r).out) >= 1
          /\ \A i \in 1..Len(ApplyRecord(e, r).out) :
                IsAnchor(ApplyRecord(e, r).out[i]) <=> i = 1

ASSUME MaxInboundNat == MaxInbound \in Nat

VARIABLES
    inbound,    \* the stream qa.inbound, from its genesis
    outbound,   \* the stream qa.outbound, from its genesis
    books, ends, ideal

history == <<books, ends, ideal>>
logVars == <<inbound, outbound, books, ends, ideal>>

LogInit ==
    /\ inbound = <<>>
    /\ outbound = <<>>
    /\ books = [k \in {0} |-> InitEngine]
    /\ ends = [k \in {0} |-> 0]
    /\ ideal = <<>>

\* The gateway appends r to the inbound stream.
Receive(r) ==
    LET n == Len(inbound)
        a == ApplyRecord(books[n], r)
    IN  /\ r \in Requests
        /\ n < MaxInbound
        /\ inbound' = Append(inbound, r)
        /\ books' = [k \in 0..(n + 1) |-> IF k = n + 1 THEN a.eng ELSE books[k]]
        /\ ends' = [k \in 0..(n + 1) |->
                      IF k = n + 1 THEN ends[n] + Len(a.out) ELSE ends[k]]
        /\ ideal' = ideal \o a.out
        /\ UNCHANGED outbound

\* The answers up to the k-th record are published, none of them twice.
Answer(k) ==
    /\ Len(outbound) < ends[k]
    /\ outbound' = SubSeq(ideal, 1, ends[k])
    /\ UNCHANGED <<inbound, history>>

LogNext == \/ \E r \in Requests : Receive(r)
           \/ \E k \in 1..Len(inbound) : Answer(k)

LogSpec == LogInit /\ [][LogNext]_logVars

\* With the matcher running, every record is answered in the end.
FairLogSpec == LogSpec /\ WF_logVars(\E k \in 1..Len(inbound) : Answer(k))
=============================================================================
