--------------------------- MODULE Matcher_proofs ---------------------------
(***************************************************************************)
(* The matcher's safety, for every engine, every batch size, every number  *)
(* of faults and every stream length.                                      *)
(*                                                                         *)
(* k is the number of records answered so far.  Counts(k) relates the      *)
(* checkpoint, the positions and the trim points through the anchors they  *)
(* stand for.  It needs no more of the engine than that it answers a       *)
(* record by one anchor, so it holds of an emptied engine too: recovery    *)
(* never loses count.  Content(k) says that engine, checkpoint and stream  *)
(* are those of an engine that never stopped, and holds until a worker is  *)
(* lost as the loop starts.  The step that needs an argument is            *)
(* CountAnchors: the anchors behind the checkpoint's position are as many  *)
(* as the records answered since (AnchorsBehind).                          *)
(***************************************************************************)
EXTENDS Matcher, FiniteSetTheorems, SequenceTheorems, TLAPS

\* The three history variables are the run of one engine over the stream.
RunOfEngine ==
    /\ books[0] = InitEngine
    /\ ends[0] = 0
    /\ ends[Len(inbound)] = Len(ideal)
    /\ \A k \in 0..(Len(inbound) - 1) :
          LET a == ApplyRecord(books[k], inbound[k + 1])
          IN  /\ books[k + 1] = a.eng
              /\ ends[k + 1] = ends[k] + Len(a.out)
              /\ \A i \in 1..Len(a.out) : ideal[ends[k] + i] = a.out[i]

Increasing == \A j, k \in 0..Len(inbound) : j < k => ends[j] < ends[k]

HistoryInv == RunOfEngine /\ Increasing

SavedCounts(k) ==
    saved # NoCheckpoint => /\ saved.in <= k
                            /\ saved.out <= Len(outbound)
                            /\ saved.in = Anchors(outbound, saved.out)

PhaseCounts(k) ==
    /\ pc = "counting" =>
          /\ cursor <= k /\ lastOut <= Len(outbound)
          /\ cursor = Anchors(outbound, lastOut)
          /\ trimIn <= cursor /\ trimOut <= lastOut
    /\ pc = "replaying" =>
          /\ cursor <= k /\ lastOut = Len(outbound)
          /\ toReplay = k - cursor
          /\ trimIn <= cursor
    /\ pc \in {"booted", "starting", "running"} =>
          lastIn = k /\ lastOut = Len(outbound) /\ trimIn <= k
    /\ pc = "applying" =>
          /\ lastIn = k /\ trimIn <= k
          /\ k <= cursor /\ cursor <= batchEnd /\ k < batchEnd
          /\ Anchors(outputs, Len(outputs)) = cursor - k

Counts(k) == k = AnsweredCount /\ SavedCounts(k) /\ PhaseCounts(k)

SavedTrue ==
    saved # NoCheckpoint => saved.eng = books[saved.in] /\ saved.out = ends[saved.in]

PhaseTrue(k) ==
    /\ pc \in {"counting", "replaying"} => eng = books[cursor]
    /\ pc \in {"booted", "starting", "running"} => eng = books[k]
    /\ pc = "applying" =>
          /\ eng = books[cursor]
          /\ Len(outputs) = ends[cursor] - ends[k]
          /\ \A i \in 1..Len(outputs) : outputs[i] = ideal[ends[k] + i]

Content(k) == Answered(k) /\ SavedTrue /\ PhaseTrue(k)

Core(k) == Counts(k) /\ (emptied \/ Content(k))

\* What TypeOK needs to be inductive: a batch lies on the stream.
TypeInv == TypeOK /\ (pc = "applying" => batchEnd <= Len(inbound))

IInv == TypeInv /\ HistoryInv /\ \E k \in 0..Len(inbound) : Core(k)

-----------------------------------------------------------------------------
(* Type correctness. *)

\* max() of two positions is a position.
LEMMA LargerNat == \A a, b \in Nat : Larger(a, b) \in Nat
BY DEF Larger

\* A fresh system is well typed: empty streams, no checkpoint, no process.
LEMMA TypeInit == Init => TypeInv
<1> SUFFICES ASSUME Init PROVE TypeInv
  OBVIOUS
<1> USE DEF Init, LogInit
<1>1. <<>> \in Seq(Requests) /\ <<>> \in Seq(Records) /\ Len(<<>>) = 0
  BY EmptySeq
<1>2. InitEngine \in EngineStates
  BY EngineAnswers
<1>3. QED
  BY <1>1, <1>2 DEF TypeInv, TypeOK

\* A record that is received keeps the history variables well typed.
LEMMA TypeSubmit ==
    ASSUME TypeInv, NEW r \in Requests, Submit(r)
    PROVE  TypeInv'
<1> DEFINE n == Len(inbound)
           a == ApplyRecord(books[n], r)
<1> USE DEF TypeInv, TypeOK, Submit, Receive, disk, process
<1>1. n \in Nat /\ books[n] \in EngineStates /\ ends[n] \in Nat
  <2>1. inbound \in Seq(Requests) /\ n \in Nat /\ n \in 0..n
    OBVIOUS
  <2>2. QED
    BY <2>1
<1>2. a.eng \in EngineStates /\ a.out \in Seq(Records) /\ Len(a.out) \in Nat
  BY <1>1, EngineAnswers, LenProperties
<1>3. inbound' \in Seq(Requests) /\ Len(inbound') = n + 1
  BY AppendProperties
<1>4. ideal' \in Seq(Records)
  BY <1>2, ConcatProperties
<1>5. books' \in [0..Len(inbound') -> EngineStates]
  <2>1. books' = [k \in 0..(n + 1) |-> IF k = n + 1 THEN a.eng ELSE books[k]]
    OBVIOUS
  <2>2. ASSUME NEW k \in 0..(n + 1), k # n + 1 PROVE books[k] \in EngineStates
    <3>1. k \in 0..n
      BY <1>1, <2>2
    <3>2. QED
      BY <3>1
  <2>3. QED
    BY <1>1, <1>2, <1>3, <2>1, <2>2
<1>6. ends' \in [0..Len(inbound') -> Nat]
  <2>1. ends' = [k \in 0..(n + 1) |-> IF k = n + 1 THEN ends[n] + Len(a.out)
                                                   ELSE ends[k]]
    OBVIOUS
  <2>2. ASSUME NEW k \in 0..(n + 1), k # n + 1 PROVE ends[k] \in Nat
    <3>1. k \in 0..n
      BY <1>1, <2>2
    <3>2. QED
      BY <3>1
  <2>3. QED
    BY <1>1, <1>2, <1>3, <2>1, <2>2
<1>7. QED
  BY <1>1, <1>3, <1>4, <1>5, <1>6

\* What count_anchors_after counts is a finite part of the outbound stream.
LEMMA AnchorsFinite ==
    ASSUME TypeInv, NEW position \in Nat
    PROVE  /\ AnchorsAfter(position) \subseteq 1..Len(outbound)
           /\ IsFiniteSet(AnchorsAfter(position))
           /\ Cardinality(AnchorsAfter(position)) \in Nat
<1>1. trimOut \in Nat /\ outbound \in Seq(Records) /\ Len(outbound) \in Nat
  BY DEF TypeInv, TypeOK
<1>2. Larger(position, trimOut) \in Nat
  BY <1>1, LargerNat
<1>3. AnchorsAfter(position) \subseteq 1..Len(outbound)
  BY <1>1, <1>2 DEF AnchorsAfter
<1>4. IsFiniteSet(1..Len(outbound))
  BY <1>1, FS_Interval
<1>5. QED
  BY <1>3, <1>4, FS_Subset, FS_CardinalityType

\* No step of the matcher, of the gateway or of Redis leaves the types.
LEMMA TypeStep == TypeInv /\ [Next]_vars => TypeInv'
<1> SUFFICES ASSUME TypeInv, [Next]_vars PROVE TypeInv'
  OBVIOUS
<1> USE DEF vars, logVars, history, disk, process
<1>1. ASSUME NEW r \in Requests, Submit(r) PROVE TypeInv'
  BY <1>1, TypeSubmit
<1>2. CASE Resume
  <2>1. InitEngine \in EngineStates /\ pc # "refused"
    BY <1>2, EngineAnswers DEF Resume
  <2>2. Usable => saved.in \in Nat /\ saved.out \in Nat /\ saved.eng \in EngineStates
    BY DEF Usable, TypeInv, TypeOK, Checkpoints
  <2>3. QED
    BY <1>2, <2>1, <2>2 DEF Resume, TypeInv, TypeOK
<1>3. CASE CountAnchors
  <2>1. lastOut \in Nat /\ Len(outbound) \in Nat
    BY DEF TypeInv, TypeOK
  <2>2. Larger(lastOut, Len(outbound)) \in Nat
    BY <2>1, LargerNat
  <2>3. Cardinality(AnchorsAfter(lastOut)) \in Nat
    BY <2>1, AnchorsFinite
  <2>4. QED
    BY <1>3, <2>2, <2>3 DEF CountAnchors, TypeInv, TypeOK
<1>4. CASE ReplayOne
  <2>1. cursor \in Nat /\ trimIn \in Nat /\ eng \in EngineStates /\ toReplay \in Nat
    BY DEF TypeInv, TypeOK
  <2>2. NextAfter(cursor) \in Nat \ {0}
    BY <2>1 DEF NextAfter, Larger
  <2>3. ASSUME NextAfter(cursor) <= Len(inbound)
        PROVE  ApplyRecord(eng, inbound[NextAfter(cursor)]).eng \in EngineStates
    <3>1. inbound[NextAfter(cursor)] \in Requests
      BY <2>2, <2>3 DEF TypeInv, TypeOK
    <3>2. QED
      BY <2>1, <3>1, EngineAnswers
  <2>4. QED
    BY <1>4, <2>1, <2>2, <2>3 DEF ReplayOne, TypeInv, TypeOK
<1>5. CASE Recovered
  BY <1>5 DEF Recovered, TypeInv, TypeOK
<1>5a. CASE BootCheckpoint
  <2>1. saved' \in Checkpoints
    BY <1>5a DEF BootCheckpoint, Checkpoint, Checkpoints, TypeInv, TypeOK
  <2>2. QED
    BY <1>5a, <2>1 DEF BootCheckpoint, TypeInv, TypeOK
<1>5b. CASE StartLoop
  <2>1. eng' \in EngineStates /\ faults' \in Nat
    BY <1>5b, EngineAnswers DEF StartLoop, TypeInv, TypeOK
  <2>2. emptied' = emptied \/ emptied' = (emptied \/ eng # InitEngine)
    BY <1>5b DEF StartLoop
  <2>3. emptied' \in BOOLEAN
    <3>1. emptied \in BOOLEAN
      BY DEF TypeInv, TypeOK
    <3>2. QED
      BY <2>2, <3>1, Zenon
  <2>4. QED
    BY <1>5b, <2>1, <2>3 DEF StartLoop, TypeInv, TypeOK
<1>6. CASE Read
  <2>1. lastIn \in Nat /\ trimIn \in Nat /\ Len(inbound) \in Nat /\ BatchSize \in Nat
    BY BatchSizePos DEF TypeInv, TypeOK
  <2>2. Larger(lastIn, trimIn) \in Nat
    BY <2>1, LargerNat
  <2>3. batchEnd' \in Nat /\ batchEnd' <= Len(inbound)
    BY <1>6, <2>1, <2>2 DEF Read
  <2>4. <<>> \in Seq(Records)
    BY EmptySeq
  <2>5. QED
    BY <1>6, <2>2, <2>3, <2>4 DEF Read, TypeInv, TypeOK
<1>7. CASE ApplyOne
  <2>1. cursor \in Nat /\ eng \in EngineStates /\ inbound[cursor + 1] \in Requests
    BY <1>7 DEF ApplyOne, TypeInv, TypeOK
  <2>2. /\ ApplyRecord(eng, inbound[cursor + 1]).eng \in EngineStates
        /\ ApplyRecord(eng, inbound[cursor + 1]).out \in Seq(Records)
    BY <2>1, EngineAnswers
  <2>3. outputs' \in Seq(Records)
    BY <1>7, <2>2, ConcatProperties DEF ApplyOne, TypeInv, TypeOK
  <2>4. QED
    BY <1>7, <2>1, <2>2, <2>3 DEF ApplyOne, TypeInv, TypeOK
<1>8. CASE AppendBatch
  <2>1. outbound' \in Seq(Records) /\ Len(outbound') \in Nat
    BY <1>8, ConcatProperties DEF AppendBatch, TypeInv, TypeOK
  <2>2. QED
    BY <1>8, <2>1 DEF AppendBatch, ReadyToAppend, TypeInv, TypeOK
<1>9. CASE AppendRefused
  BY <1>9 DEF AppendRefused, TypeInv, TypeOK
<1>10. ASSUME NEW b \in BOOLEAN, AppendFails(b) PROVE TypeInv'
  <2>1. outbound' \in Seq(Records)
    BY <1>10, ConcatProperties DEF AppendFails, TypeInv, TypeOK
  <2>2. QED
    BY <1>10, <2>1 DEF AppendFails, TypeInv, TypeOK
<1>11. ASSUME NEW b \in BOOLEAN, WriteCheckpoint(b) PROVE TypeInv'
  <2>1. saved' \in Checkpoints
    BY <1>11 DEF WriteCheckpoint, Checkpoint, Checkpoints, TypeInv, TypeOK
  <2>2. pc' \in {"running", "failed"} /\ faults' \in Nat
    BY <1>11 DEF WriteCheckpoint, TypeInv, TypeOK
  <2>3. QED
    BY <1>11, <2>1, <2>2 DEF WriteCheckpoint, TypeInv, TypeOK
<1>12. CASE TrimInbound
  <2>1. saved.in \in Nat
    BY <1>12 DEF TrimInbound, CanTrim, Usable, TypeInv, TypeOK, Checkpoints
  <2>2. QED
    BY <1>12, <2>1 DEF TrimInbound, TypeInv, TypeOK
<1>13. CASE TrimOutbound
  <2>1. saved.out \in Nat
    BY <1>13 DEF TrimOutbound, CanTrim, Usable, TypeInv, TypeOK, Checkpoints
  <2>2. QED
    BY <1>13, <2>1 DEF TrimOutbound, TypeInv, TypeOK
<1>14. CASE Fails
  BY <1>14 DEF Fails, TypeInv, TypeOK
<1>15. CASE Crash
  <2>1. InitEngine \in EngineStates /\ <<>> \in Seq(Records)
    BY EngineAnswers, EmptySeq
  <2>2. outputs' \in Seq(Records) /\ eng' \in EngineStates /\ faults' \in Nat
    BY <1>15, <2>1 DEF Crash, TypeInv, TypeOK
  <2>3. UNCHANGED <<inbound, outbound, books, ends, ideal>>
        /\ UNCHANGED <<trimIn, trimOut, saved, config>>
    BY <1>15 DEF Crash
  <2>4. QED
    BY <1>15, <2>2, <2>3 DEF Crash, TypeInv, TypeOK
<1>16. CASE Halt \/ ClearHalt
  <2>1. CASE Halt
    BY <2>1 DEF Halt, TypeInv, TypeOK
  <2>2. CASE ClearHalt
    BY <2>2 DEF ClearHalt, TypeInv, TypeOK
  <2>3. QED
    BY <1>16, <2>1, <2>2
<1>17. ASSUME NEW c \in Configs, Deploy(c) PROVE TypeInv'
  BY <1>17 DEF Deploy, TypeInv, TypeOK
<1>18. CASE UNCHANGED vars
  BY <1>18 DEF TypeInv, TypeOK
<1>19. QED
  BY <1>1, <1>2, <1>3, <1>4, <1>5, <1>5a, <1>5b, <1>6, <1>7, <1>8, <1>9, <1>10,
     <1>11, <1>12, <1>13, <1>14, <1>15, <1>16, <1>17, <1>18 DEF Next, Progress

\* Every variable keeps its type: in particular no position runs below zero, and
\* what the process appends or restores is always a record or an engine.
THEOREM TypeCorrect == Spec => []TypeOK
<1>1. TypeInv => TypeOK
  BY DEF TypeInv
<1>2. QED
  BY TypeInit, TypeStep, <1>1, PTL DEF Spec

-----------------------------------------------------------------------------
(* The history of the ideal answers. *)

\* Concatenation, by its two parts; the form every later step uses.
LEMMA ConcatSplit ==
    ASSUME NEW S, NEW s \in Seq(S), NEW t \in Seq(S)
    PROVE  /\ s \o t \in Seq(S)
           /\ Len(s \o t) = Len(s) + Len(t)
           /\ \A i \in 1..Len(s) : (s \o t)[i] = s[i]
           /\ \A i \in 1..Len(t) : (s \o t)[Len(s) + i] = t[i]
<1>1. Len(s) \in Nat /\ Len(t) \in Nat
  OBVIOUS
<1>2. /\ s \o t \in Seq(S)
      /\ Len(s \o t) = Len(s) + Len(t)
      /\ \A i \in 1..(Len(s) + Len(t)) :
            (s \o t)[i] = IF i <= Len(s) THEN s[i] ELSE t[i - Len(s)]
  BY ConcatProperties
<1>3. ASSUME NEW i \in 1..Len(t) PROVE (s \o t)[Len(s) + i] = t[i]
  <2>1. Len(s) + i \in 1..(Len(s) + Len(t)) /\ ~(Len(s) + i <= Len(s))
        /\ (Len(s) + i) - Len(s) = i
    BY <1>1, <1>3
  <2>2. QED
    BY <1>2, <2>1
<1>4. ASSUME NEW i \in 1..Len(s) PROVE (s \o t)[i] = s[i]
  <2>1. i \in 1..(Len(s) + Len(t)) /\ i <= Len(s)
    BY <1>1, <1>4
  <2>2. QED
    BY <1>2, <2>1
<1>5. QED
  BY <1>2, <1>3, <1>4

\* What the types say of the components, without the sequences themselves.
LEMMA Components ==
    ASSUME TypeInv
    PROVE  /\ Len(inbound) \in Nat /\ Len(outbound) \in Nat /\ Len(ideal) \in Nat
           /\ \A k \in 0..Len(inbound) : books[k] \in EngineStates /\ ends[k] \in Nat
           /\ \A k \in 1..Len(inbound) : inbound[k] \in Requests
<1>1. /\ inbound \in Seq(Requests) /\ outbound \in Seq(Records)
      /\ ideal \in Seq(Records)
      /\ books \in [0..Len(inbound) -> EngineStates]
      /\ ends \in [0..Len(inbound) -> Nat]
  BY DEF TypeInv, TypeOK
<1>2. Len(inbound) \in Nat /\ Len(outbound) \in Nat /\ Len(ideal) \in Nat
  BY <1>1
<1>3. \A k \in 0..Len(inbound) : books[k] \in EngineStates /\ ends[k] \in Nat
  BY <1>1
<1>4. \A k \in 1..Len(inbound) : inbound[k] \in Requests
  BY <1>1, ElementOfSeq
<1>5. QED
  BY <1>2, <1>3, <1>4

\* EngineAnswers, of one record: the table of runner.py.
LEMMA AnswerHasOneAnchor ==
    ASSUME NEW e \in EngineStates, NEW r \in Requests
    PROVE  LET a == ApplyRecord(e, r)
           IN  /\ a.eng \in EngineStates /\ a.out \in Seq(Records)
               /\ Len(a.out) \in Nat /\ Len(a.out) >= 1
               /\ \A i \in 1..Len(a.out) : IsAnchor(a.out[i]) <=> i = 1
<1>1. /\ ApplyRecord(e, r).eng \in EngineStates
      /\ ApplyRecord(e, r).out \in Seq(Records)
      /\ Len(ApplyRecord(e, r).out) >= 1
      /\ \A i \in 1..Len(ApplyRecord(e, r).out) :
            IsAnchor(ApplyRecord(e, r).out[i]) <=> i = 1
  BY EngineAnswers
<1>2. Len(ApplyRecord(e, r).out) \in Nat
  BY <1>1
<1>3. QED
  BY <1>1, <1>2

\* The answers lie on the ideal stream one after the other, none of them empty.
LEMMA EndsOrdered ==
    ASSUME TypeInv, HistoryInv, NEW j \in 0..Len(inbound), NEW k \in 0..Len(inbound),
           j <= k
    PROVE  /\ ends[j] \in Nat /\ ends[k] \in Nat /\ Len(ideal) \in Nat
           /\ ends[j] <= ends[k] /\ ends[k] <= Len(ideal)
           /\ j < k => ends[j] < ends[k]
<1>1. /\ Len(inbound) \in Nat /\ Len(ideal) \in Nat
      /\ \A m \in 0..Len(inbound) : ends[m] \in Nat
  BY Components
<1>2. j < k => ends[j] < ends[k]
  BY DEF HistoryInv, Increasing
<1>3. k < Len(inbound) => ends[k] < ends[Len(inbound)]
  BY <1>1 DEF HistoryInv, Increasing
<1>4. ends[Len(inbound)] = Len(ideal)
  BY DEF HistoryInv, RunOfEngine
<1>5. QED
  BY <1>1, <1>2, <1>3, <1>4

\* A record that is received adds one answer behind the others.
LEMMA HistorySubmit ==
    ASSUME TypeInv, HistoryInv, NEW r \in Requests, Submit(r)
    PROVE  /\ HistoryInv'
           /\ Len(inbound') = Len(inbound) + 1
           /\ \A k \in 0..Len(inbound) : books'[k] = books[k] /\ ends'[k] = ends[k]
           /\ \A i \in 1..Len(ideal) : ideal'[i] = ideal[i]
<1> DEFINE n == Len(inbound)
           a == ApplyRecord(books[n], r)
<1>0. inbound \in Seq(Requests) /\ ideal \in Seq(Records)
  BY DEF TypeInv, TypeOK
<1>1. /\ n \in Nat /\ n \in 0..n /\ books[n] \in EngineStates /\ Len(ideal) \in Nat
      /\ \A k \in 0..n : ends[k] \in Nat
  BY Components
<1>2. /\ a.eng \in EngineStates /\ a.out \in Seq(Records)
      /\ Len(a.out) \in Nat /\ Len(a.out) >= 1
      /\ \A i \in 1..Len(a.out) : IsAnchor(a.out[i]) <=> i = 1
  BY <1>1, AnswerHasOneAnchor
<1>3. /\ inbound' = Append(inbound, r)
      /\ ideal' = ideal \o a.out
      /\ books' = [k \in 0..(n + 1) |-> IF k = n + 1 THEN a.eng ELSE books[k]]
      /\ ends' = [k \in 0..(n + 1) |-> IF k = n + 1 THEN ends[n] + Len(a.out)
                                                    ELSE ends[k]]
  BY DEF Submit, Receive
<1>4. /\ Len(inbound') = n + 1
      /\ \A k \in 1..n : inbound'[k] = inbound[k]
      /\ inbound'[n + 1] = r
  BY <1>0, <1>1, <1>3, AppendProperties
<1>5. /\ Len(ideal') = Len(ideal) + Len(a.out)
      /\ \A i \in 1..Len(ideal) : ideal'[i] = ideal[i]
      /\ \A i \in 1..Len(a.out) : ideal'[Len(ideal) + i] = a.out[i]
  BY <1>0, <1>2, <1>3, ConcatSplit
<1>6. \A k \in 0..n : books'[k] = books[k] /\ ends'[k] = ends[k]
  BY <1>1, <1>3
<1>7. books'[n + 1] = a.eng /\ ends'[n + 1] = ends[n] + Len(a.out)
  BY <1>1, <1>3
<1>8. ends[n] = Len(ideal)
  BY DEF HistoryInv, RunOfEngine
<1>9. RunOfEngine'
  <2>1. books'[0] = InitEngine /\ ends'[0] = 0
    BY <1>1, <1>6 DEF HistoryInv, RunOfEngine
  <2>2. ends'[Len(inbound')] = Len(ideal')
    BY <1>4, <1>5, <1>7, <1>8
  <2>3. ASSUME NEW k \in 0..(Len(inbound') - 1)
        PROVE  LET b == ApplyRecord(books'[k], inbound'[k + 1])
               IN  /\ books'[k + 1] = b.eng
                   /\ ends'[k + 1] = ends'[k] + Len(b.out)
                   /\ \A i \in 1..Len(b.out) : ideal'[ends'[k] + i] = b.out[i]
    <3>1. CASE k = n
      <4>1. /\ books'[k] = books[n] /\ inbound'[k + 1] = r
            /\ ends'[k] = Len(ideal) /\ k + 1 = n + 1
        BY <1>1, <1>4, <1>6, <1>8, <3>1
      <4>2. QED
        BY <1>5, <1>7, <1>8, <4>1
    <3>2. CASE k # n
      <4> DEFINE b == ApplyRecord(books[k], inbound[k + 1])
      <4>1. k \in 0..(n - 1) /\ k \in 0..n /\ k + 1 \in 0..n /\ k + 1 \in 1..n
        BY <1>1, <1>4, <3>2
      <4>2. /\ books[k + 1] = b.eng
            /\ ends[k + 1] = ends[k] + Len(b.out)
            /\ \A i \in 1..Len(b.out) : ideal[ends[k] + i] = b.out[i]
        BY <4>1 DEF HistoryInv, RunOfEngine
      <4>3. books[k] \in EngineStates /\ inbound[k + 1] \in Requests
        BY <4>1, Components
      <4>4. Len(b.out) \in Nat
        BY <4>3, AnswerHasOneAnchor
      <4>5. ends[k + 1] <= Len(ideal)
        BY <4>1, EndsOrdered
      <4>6. \A i \in 1..Len(b.out) : ends[k] + i \in 1..Len(ideal)
        BY <1>1, <4>1, <4>2, <4>4, <4>5
      <4>7. QED
        BY <1>4, <1>5, <1>6, <4>1, <4>2, <4>6
    <3>3. QED
      BY <3>1, <3>2
  <2>4. QED
    BY <2>1, <2>2, <2>3 DEF RunOfEngine
<1>10. Increasing'
  <2>1. ASSUME NEW j \in 0..(n + 1), NEW k \in 0..(n + 1), j < k
        PROVE  ends'[j] < ends'[k]
    <3>1. CASE k = n + 1
      <4>1. j \in 0..n /\ ends[j] \in Nat /\ ends[j] <= ends[n]
        BY <1>1, <2>1, <3>1, EndsOrdered
      <4>2. QED
        BY <1>1, <1>2, <1>6, <1>7, <3>1, <4>1
    <3>2. CASE k # n + 1
      BY <1>1, <1>6, <2>1, <3>2 DEF HistoryInv, Increasing
    <3>3. QED
      BY <3>1, <3>2
  <2>2. QED
    BY <1>4, <2>1 DEF Increasing
<1>11. QED
  BY <1>4, <1>5, <1>6, <1>9, <1>10 DEF HistoryInv

-----------------------------------------------------------------------------
(* Counting anchors. *)

\* A count of anchors is a count.
LEMMA AnchorsNat ==
    ASSUME NEW s, NEW n \in Nat
    PROVE  /\ IsFiniteSet({i \in 1..n : IsAnchor(s[i])})
           /\ Anchors(s, n) \in Nat
<1>1. IsFiniteSet(1..n)
  BY FS_Interval
<1>2. {i \in 1..n : IsAnchor(s[i])} \subseteq 1..n
  OBVIOUS
<1>3. IsFiniteSet({i \in 1..n : IsAnchor(s[i])})
  BY <1>1, <1>2, FS_Subset
<1>4. QED
  BY <1>3, FS_CardinalityType DEF Anchors

\* Two sets with nothing in common.
LEMMA DisjointUnion ==
    ASSUME NEW S, IsFiniteSet(S), NEW T, IsFiniteSet(T), S \cap T = {}
    PROVE  Cardinality(S \union T) = Cardinality(S) + Cardinality(T)
<1>1. Cardinality(S \cap T) = 0
  BY FS_EmptySet
<1>2. Cardinality(S) \in Nat /\ Cardinality(T) \in Nat
  BY FS_CardinalityType
<1>3. Cardinality(S \union T) = Cardinality(S) + Cardinality(T) - Cardinality(S \cap T)
  BY FS_Union
<1>4. QED
  BY <1>1, <1>2, <1>3

\* Nothing holds no anchor.
LEMMA NoAnchors ==
    ASSUME NEW s
    PROVE  Anchors(s, 0) = 0
<1>1. {i \in 1..0 : IsAnchor(s[i])} = {}
  OBVIOUS
<1>2. QED
  BY <1>1, FS_EmptySet DEF Anchors

\* The table of runner.py: an answer holds one anchor.
LEMMA AnswerCountsOne ==
    ASSUME NEW e \in EngineStates, NEW r \in Requests
    PROVE  LET a == ApplyRecord(e, r) IN Anchors(a.out, Len(a.out)) = 1
<1> DEFINE out == ApplyRecord(e, r).out
<1>1. Len(out) \in Nat /\ Len(out) >= 1 /\ \A i \in 1..Len(out) : IsAnchor(out[i]) <=> i = 1
  BY AnswerHasOneAnchor
<1>2. {i \in 1..Len(out) : IsAnchor(out[i])} = {1}
  BY <1>1
<1>3. Cardinality({1}) = 1
  BY FS_Singleton
<1>4. QED
  BY <1>2, <1>3 DEF Anchors

\* Appending adds the anchors of what is appended, and moves none.
LEMMA AnchorsConcat ==
    ASSUME NEW s \in Seq(Records), NEW t \in Seq(Records)
    PROVE  /\ Anchors(s \o t, Len(s \o t)) = Anchors(s, Len(s)) + Anchors(t, Len(t))
           /\ \A n \in 0..Len(s) : Anchors(s \o t, n) = Anchors(s, n)
<1> DEFINE w == s \o t
           A == {i \in 1..Len(s) : IsAnchor(s[i])}
           T == {i \in 1..Len(t) : IsAnchor(t[i])}
           B == {i \in (Len(s) + 1)..(Len(s) + Len(t)) : IsAnchor(w[i])}
           f == [m \in T |-> Len(s) + m]
<1>1. Len(s) \in Nat /\ Len(t) \in Nat
  OBVIOUS
<1>2. /\ Len(w) = Len(s) + Len(t)
      /\ \A i \in 1..Len(s) : w[i] = s[i]
      /\ \A i \in 1..Len(t) : w[Len(s) + i] = t[i]
  BY ConcatSplit
<1> HIDE DEF w
<1>3. IsFiniteSet(A) /\ IsFiniteSet(T)
  BY <1>1, AnchorsNat
<1>4. f \in Bijection(T, B)
  <2>1. ASSUME NEW m \in T PROVE f[m] \in B
    BY <1>1, <1>2, <2>1
  <2>2. ASSUME NEW i \in B PROVE \E m \in T : f[m] = i
    <3>1. i - Len(s) \in 1..Len(t) /\ Len(s) + (i - Len(s)) = i
      BY <1>1, <2>2
    <3>2. i - Len(s) \in T
      <4>1. w[Len(s) + (i - Len(s))] = t[i - Len(s)]
        BY <1>2, <3>1
      <4>2. QED
        BY <3>1, <4>1
    <3>3. QED
      BY <3>1, <3>2
  <2>3. ASSUME NEW m1 \in T, NEW m2 \in T, f[m1] = f[m2] PROVE m1 = m2
    BY <1>1, <2>3
  <2>4. f \in [T -> B]
    BY <2>1
  <2>5. QED
    BY <2>2, <2>3, <2>4 DEF Bijection, Injection, Surjection, IsInjective
<1>5. IsFiniteSet(B) /\ Cardinality(B) = Cardinality(T)
  BY <1>3, <1>4, FS_Bijection DEF ExistsBijection
<1>6. {i \in 1..Len(w) : IsAnchor(w[i])} = A \union B
  BY <1>1, <1>2
<1>7. A \cap B = {}
  BY <1>1
<1>8. Cardinality(A \union B) = Cardinality(A) + Cardinality(B)
  BY <1>3, <1>5, <1>7, DisjointUnion
<1>9. ASSUME NEW n \in 0..Len(s) PROVE Anchors(w, n) = Anchors(s, n)
  <2>1. {i \in 1..n : IsAnchor(w[i])} = {i \in 1..n : IsAnchor(s[i])}
    BY <1>1, <1>2
  <2>2. QED
    BY <2>1 DEF Anchors
<1>10. QED
  BY <1>5, <1>6, <1>8, <1>9 DEF Anchors, w

\* What recover() counts: the anchors of the stream that lie behind a position,
\* as long as nothing behind it was trimmed.
LEMMA AnchorsBehind ==
    ASSUME TypeInv, NEW p \in 0..Len(outbound), trimOut <= p
    PROVE  Cardinality(AnchorsAfter(p)) = AnsweredCount - Anchors(outbound, p)
<1> DEFINE L == Len(outbound)
           P == {i \in 1..p : IsAnchor(outbound[i])}
           B == AnchorsAfter(p)
<1>1. L \in Nat /\ p \in Nat /\ p <= L /\ trimOut \in Nat
  BY Components DEF TypeInv, TypeOK
<1>2. B = {i \in (p + 1)..L : IsAnchor(outbound[i])}
  BY <1>1 DEF AnchorsAfter, Larger
<1>3. IsFiniteSet(P) /\ IsFiniteSet(B)
  BY <1>1, AnchorsNat, AnchorsFinite
<1>4. {i \in 1..L : IsAnchor(outbound[i])} = P \union B
  BY <1>1, <1>2
<1>5. P \cap B = {}
  BY <1>1, <1>2
<1>6. Cardinality(P \union B) = Cardinality(P) + Cardinality(B)
  BY <1>3, <1>5, DisjointUnion
<1>7. Cardinality(P) \in Nat /\ Cardinality(B) \in Nat
  BY <1>3, FS_CardinalityType
<1>8. AnsweredCount = Cardinality(P) + Cardinality(B) /\ Anchors(outbound, p) = Cardinality(P)
  BY <1>4, <1>6 DEF Anchors, AnsweredCount
<1>9. QED
  BY <1>7, <1>8

\* What the process has applied but not appended is the next part of the ideal
\* stream: appending it answers the whole batch.
LEMMA OutputsAreNext ==
    ASSUME TypeInv, HistoryInv, NEW k \in 0..Len(inbound), Counts(k), Content(k),
           ReadyToAppend
    PROVE  /\ batchEnd \in (k + 1)..Len(inbound)
           /\ Len(outbound) < ends[batchEnd]
           /\ outbound \o outputs = SubSeq(ideal, 1, ends[batchEnd])
           /\ Len(outbound \o outputs) = ends[batchEnd]
           /\ \A i \in 1..ends[batchEnd] : (outbound \o outputs)[i] = ideal[i]
<1> DEFINE whole == outbound \o outputs
<1> HIDE DEF whole
<1>1. /\ Len(inbound) \in Nat /\ Len(ideal) \in Nat /\ k \in Nat
      /\ \A m \in 0..Len(inbound) : ends[m] \in Nat
  BY Components
<1>2. /\ k < batchEnd /\ batchEnd <= Len(inbound) /\ batchEnd \in Nat
      /\ Len(outputs) = ends[batchEnd] - ends[k]
      /\ \A i \in 1..Len(outputs) : outputs[i] = ideal[ends[k] + i]
  BY DEF ReadyToAppend, Counts, PhaseCounts, Content, PhaseTrue, TypeInv, TypeOK
<1>3. outbound \in Seq(Records) /\ outputs \in Seq(Records) /\ ideal \in Seq(Records)
  BY DEF TypeInv, TypeOK
<1>4. /\ Len(outbound) = ends[k]
      /\ \A i \in 1..ends[k] : outbound[i] = ideal[i]
  BY DEF Content, Answered
<1>5. batchEnd \in (k + 1)..Len(inbound) /\ batchEnd \in 0..Len(inbound)
  BY <1>1, <1>2
<1>6. ends[k] < ends[batchEnd] /\ ends[batchEnd] <= Len(ideal)
  BY <1>2, <1>5, EndsOrdered
<1>7. /\ whole \in Seq(Records)
      /\ Len(whole) = ends[batchEnd]
      /\ \A i \in 1..ends[k] : whole[i] = outbound[i]
      /\ \A i \in 1..Len(outputs) : whole[ends[k] + i] = outputs[i]
  <2>1. /\ whole \in Seq(Records)
        /\ Len(whole) = Len(outbound) + Len(outputs)
        /\ \A i \in 1..Len(outbound) : whole[i] = outbound[i]
        /\ \A i \in 1..Len(outputs) :
              whole[Len(outbound) + i] = outputs[i]
    BY <1>3, ConcatSplit DEF whole
  <2>2. ends[k] \in Nat /\ ends[batchEnd] \in Nat
    BY <1>1, <1>5
  <2>3. QED
    BY <1>2, <1>4, <2>1, <2>2
<1>8. ASSUME NEW i \in 1..ends[batchEnd] PROVE whole[i] = ideal[i]
  <2>1. CASE i <= ends[k]
    BY <1>1, <1>4, <1>7, <2>1
  <2>2. CASE i > ends[k]
    <3>1. i - ends[k] \in 1..Len(outputs) /\ ends[k] + (i - ends[k]) = i
      BY <1>1, <1>2, <1>5, <2>2
    <3>2. QED
      BY <1>2, <1>7, <3>1
  <2>3. ends[k] \in Nat /\ ends[batchEnd] \in Nat
    BY <1>1, <1>5
  <2>4. QED
    BY <2>1, <2>2, <2>3
<1>9. whole = SubSeq(ideal, 1, ends[batchEnd])
  <2> DEFINE part == SubSeq(ideal, 1, ends[batchEnd])
  <2>1. \A i \in 1..ends[batchEnd] : ideal[i] \in Records
    BY <1>1, <1>3, <1>5, <1>6
  <2>2. /\ part \in Seq(Records)
        /\ Len(part) = IF 1 <= ends[batchEnd] THEN ends[batchEnd] - 1 + 1 ELSE 0
        /\ \A i \in 1..(ends[batchEnd] - 1 + 1) : part[i] = ideal[1 + i - 1]
    BY <1>1, <1>5, <2>1, SubSeqProperties
  <2>3. Len(part) = ends[batchEnd] /\ \A i \in 1..ends[batchEnd] : part[i] = ideal[i]
    BY <1>1, <1>5, <2>2
  <2>4. QED
    BY <1>7, <1>8, <2>2, <2>3, SeqEqual
<1>10. QED
  BY <1>4, <1>5, <1>6, <1>7, <1>8, <1>9 DEF whole

-----------------------------------------------------------------------------
(* The counts are inductive: one lemma per step that touches them. *)

\* A stream whose answers, checkpoint and process all count the same records.
LEMMA CountsStopped ==
    ASSUME NEW k, Counts(k), UNCHANGED <<outbound, saved>>,
           pc' \in {"down", "failed", "refused"}
    PROVE  Counts(k)'
BY DEF Counts, AnsweredCount, SavedCounts, PhaseCounts

\* A record that is received is not answered yet.
LEMMA CountsSubmit ==
    ASSUME NEW k, Counts(k), NEW r \in Requests, Submit(r)
    PROVE  Counts(k)'
<1>1. /\ UNCHANGED <<outbound, trimIn, trimOut, saved>>
      /\ UNCHANGED <<pc, lastIn, lastOut, cursor, toReplay, batchEnd, outputs>>
  BY DEF Submit, Receive, disk, process
<1>2. QED
  BY <1>1 DEF Counts, AnsweredCount, SavedCounts, PhaseCounts

\* The positions recover() starts from: the checkpoint's, or genesis.
LEMMA CountsResume ==
    ASSUME TypeInv, NEW k \in 0..Len(inbound), Counts(k), Resume
    PROVE  Counts(k)'
<1> DEFINE from == IF Usable THEN saved ELSE [in |-> 0, out |-> 0, eng |-> InitEngine]
<1>1. UNCHANGED <<inbound, outbound, trimIn, trimOut, saved>>
  BY DEF Resume, logVars, disk
<1>2. /\ trimIn \in Nat /\ trimOut \in Nat /\ from.in \in Nat /\ from.out \in Nat
      /\ Len(outbound) \in Nat /\ k \in Nat
      /\ from.in <= k /\ from.out <= Len(outbound)
      /\ from.in = Anchors(outbound, from.out)
  <2>1. trimIn \in Nat /\ trimOut \in Nat /\ Len(outbound) \in Nat /\ k \in Nat
    BY Components DEF TypeInv, TypeOK
  <2>2. CASE Usable
    <3>1. saved \in Checkpoints /\ saved # NoCheckpoint /\ from = saved
      BY <2>2 DEF Usable, TypeInv, TypeOK
    <3>2. QED
      BY <2>1, <3>1 DEF Counts, SavedCounts, Checkpoints
  <2>3. CASE ~Usable
    BY <2>1, <2>3, NoAnchors
  <2>4. QED
    BY <2>2, <2>3
<1>3. CASE Resumable(trimIn, from.in) /\ Resumable(trimOut, from.out)
  <2>1. pc' = "counting" /\ cursor' = from.in /\ lastOut' = from.out
    BY <1>3 DEF Resume
  <2>2. trimIn <= from.in /\ trimOut <= from.out
    BY <1>2, <1>3 DEF Resumable
  <2>3. QED
    BY <1>1, <1>2, <2>1, <2>2 DEF Counts, AnsweredCount, SavedCounts, PhaseCounts
<1>4. CASE ~(Resumable(trimIn, from.in) /\ Resumable(trimOut, from.out))
  <2>1. pc' = "refused"
    BY <1>4 DEF Resume
  <2>2. QED
    BY <1>1, <2>1, CountsStopped
<1>5. QED
  BY <1>3, <1>4

\* After counting, toReplay is the distance to the answered records.
LEMMA CountsCountAnchors ==
    ASSUME TypeInv, NEW k \in 0..Len(inbound), Counts(k), CountAnchors
    PROVE  Counts(k)'
<1>1. /\ UNCHANGED <<outbound, trimIn, trimOut, saved, cursor>>
      /\ pc = "counting" /\ pc' = "replaying"
      /\ toReplay' = Cardinality(AnchorsAfter(lastOut))
      /\ lastOut' = Larger(lastOut, Len(outbound))
  BY DEF CountAnchors, logVars, disk
<1>2. /\ cursor <= k /\ lastOut <= Len(outbound) /\ cursor = Anchors(outbound, lastOut)
      /\ trimIn <= cursor /\ trimOut <= lastOut /\ k = AnsweredCount
  BY <1>1 DEF Counts, PhaseCounts
<1>3. lastOut \in 0..Len(outbound) /\ lastOut \in Nat /\ Len(outbound) \in Nat
  BY <1>2, Components DEF TypeInv, TypeOK
<1>4. toReplay' = k - cursor
  BY <1>1, <1>2, <1>3, AnchorsBehind
<1>5. lastOut' = Len(outbound)
  BY <1>1, <1>2, <1>3 DEF Larger
<1>6. QED
  BY <1>1, <1>2, <1>4, <1>5 DEF Counts, AnsweredCount, SavedCounts, PhaseCounts

\* The record recover() applies next is the one behind its cursor.
LEMMA ReplaysTheNext ==
    ASSUME TypeInv, NEW k \in 0..Len(inbound), Counts(k), pc = "replaying", toReplay > 0
    PROVE  /\ NextAfter(cursor) = cursor + 1
           /\ cursor \in 0..(Len(inbound) - 1) /\ cursor < k /\ trimIn <= cursor
           /\ toReplay = k - cursor /\ lastOut = Len(outbound)
<1>1. /\ cursor <= k /\ lastOut = Len(outbound)
      /\ toReplay = k - cursor /\ trimIn <= cursor
  BY DEF Counts, PhaseCounts
<1>2. Len(inbound) \in Nat /\ k \in Nat /\ cursor \in Nat /\ trimIn \in Nat
  BY Components DEF TypeInv, TypeOK
<1>3. QED
  BY <1>1, <1>2 DEF NextAfter, Larger

\* Replaying one record leaves one less to replay.
LEMMA CountsReplayOne ==
    ASSUME TypeInv, NEW k \in 0..Len(inbound), Counts(k), ReplayOne
    PROVE  Counts(k)'
<1>1. /\ UNCHANGED <<outbound, trimIn, trimOut, saved, lastOut>>
      /\ pc = "replaying" /\ toReplay > 0
  BY DEF ReplayOne, logVars, disk
<1>2. /\ NextAfter(cursor) = cursor + 1
      /\ cursor \in 0..(Len(inbound) - 1) /\ cursor < k /\ trimIn <= cursor
      /\ toReplay = k - cursor /\ lastOut = Len(outbound)
  BY <1>1, ReplaysTheNext
<1>3. Len(inbound) \in Nat /\ k \in Nat /\ trimIn \in Nat
  BY Components DEF TypeInv, TypeOK
<1>4. cursor' = cursor + 1 /\ toReplay' = toReplay - 1 /\ pc' = "replaying"
  BY <1>1, <1>2, <1>3 DEF ReplayOne
<1>5. QED
  BY <1>1, <1>2, <1>3, <1>4 DEF Counts, AnsweredCount, SavedCounts, PhaseCounts

\* With nothing left to replay the cursor stands at the last answered record.
LEMMA CountsRecovered ==
    ASSUME TypeInv, NEW k \in 0..Len(inbound), Counts(k), Recovered
    PROVE  Counts(k)' /\ cursor = k
<1>1. /\ UNCHANGED <<outbound, trimIn, trimOut, saved, lastOut>>
      /\ pc = "replaying" /\ pc' \in {"running", "booted"} /\ toReplay = 0 /\ lastIn' = cursor
  BY DEF Recovered, logVars, disk
<1>2. /\ cursor <= k /\ lastOut = Len(outbound)
      /\ toReplay = k - cursor /\ trimIn <= cursor
  BY <1>1 DEF Counts, PhaseCounts
<1>3. cursor = k
  BY <1>1, <1>2, Components DEF TypeInv, TypeOK
<1>4. QED
  BY <1>1, <1>2, <1>3 DEF Counts, AnsweredCount, SavedCounts, PhaseCounts

\* A checkpoint, at boot or between batches, saves the positions of one moment.
LEMMA CountsCheckpoint ==
    ASSUME TypeInv, NEW k \in 0..Len(inbound), Counts(k),
           BootCheckpoint \/ \E b \in BOOLEAN : WriteCheckpoint(b)
    PROVE  Counts(k)'
<1>1. /\ UNCHANGED <<outbound, trimIn, trimOut, lastIn, lastOut>>
      /\ pc \in {"booted", "running"} /\ pc' \in {"starting", "running", "failed"}
      /\ saved' = [in |-> lastIn, out |-> lastOut, eng |-> eng, config |-> config]
  BY DEF BootCheckpoint, WriteCheckpoint, Checkpoint, logVars
<1>2. lastIn = k /\ lastOut = Len(outbound) /\ trimIn <= k /\ k = AnsweredCount
  BY <1>1 DEF Counts, PhaseCounts
<1>3. SavedCounts(k)'
  <2>1. saved'.in = k /\ saved'.out = Len(outbound) /\ k \in Nat /\ Len(outbound) \in Nat
    BY <1>1, <1>2, Components
  <2>2. QED
    BY <1>1, <1>2, <2>1 DEF SavedCounts, AnsweredCount
<1>4. PhaseCounts(k)'
  BY <1>1, <1>2 DEF PhaseCounts
<1>5. QED
  BY <1>1, <1>2, <1>3, <1>4 DEF Counts, AnsweredCount

\* The engine may be lost as the loop starts; the positions are not.
LEMMA CountsStartLoop ==
    ASSUME NEW k, Counts(k), StartLoop
    PROVE  Counts(k)'
<1>1. /\ UNCHANGED <<outbound, trimIn, trimOut, saved, lastIn, lastOut>>
      /\ pc = "starting" /\ pc' = "running"
  BY DEF StartLoop, logVars, disk
<1>2. QED
  BY <1>1 DEF Counts, AnsweredCount, SavedCounts, PhaseCounts

\* A batch begins at the first unanswered record.
LEMMA CountsRead ==
    ASSUME TypeInv, NEW k \in 0..Len(inbound), Counts(k), Read
    PROVE  Counts(k)' /\ cursor' = k
<1>1. /\ UNCHANGED <<outbound, trimIn, trimOut, saved, lastIn>>
      /\ pc = "running" /\ pc' = "applying" /\ outputs' = <<>>
      /\ cursor' = Larger(lastIn, trimIn)
      /\ Larger(lastIn, trimIn) < Len(inbound)
      /\ batchEnd' = IF Larger(lastIn, trimIn) + BatchSize < Len(inbound)
                     THEN Larger(lastIn, trimIn) + BatchSize ELSE Len(inbound)
  BY DEF Read, logVars, disk
<1>2. lastIn = k /\ trimIn <= k
  BY <1>1 DEF Counts, PhaseCounts
<1>3. /\ Len(inbound) \in Nat /\ k \in Nat /\ trimIn \in Nat
      /\ BatchSize \in Nat /\ BatchSize > 0
  BY Components, BatchSizePos DEF TypeInv, TypeOK
<1>4. cursor' = k /\ k < batchEnd'
  BY <1>1, <1>2, <1>3 DEF Larger
<1>5. Anchors(outputs', Len(outputs')) = 0
  BY <1>1, NoAnchors
<1>6. PhaseCounts(k)'
  BY <1>1, <1>2, <1>3, <1>4, <1>5 DEF PhaseCounts
<1>7. QED
  BY <1>1, <1>4, <1>6 DEF Counts, AnsweredCount, SavedCounts

\* Each record applied adds one anchor to the outputs, whatever the engine.
LEMMA CountsApplyOne ==
    ASSUME TypeInv, NEW k \in 0..Len(inbound), Counts(k), ApplyOne
    PROVE  Counts(k)'
<1> DEFINE a == ApplyRecord(eng, inbound[cursor + 1])
<1>1. /\ UNCHANGED <<outbound, trimIn, trimOut, saved, lastIn, batchEnd>>
      /\ pc = "applying" /\ pc' = "applying" /\ cursor < batchEnd
      /\ outputs' = outputs \o a.out /\ cursor' = cursor + 1
  BY DEF ApplyOne, logVars, disk
<1>2. /\ lastIn = k /\ trimIn <= k /\ k <= cursor /\ k < batchEnd
      /\ batchEnd <= Len(inbound) /\ Anchors(outputs, Len(outputs)) = cursor - k
  BY <1>1 DEF Counts, PhaseCounts, TypeInv
<1>3. /\ cursor \in Nat /\ batchEnd \in Nat /\ outputs \in Seq(Records)
      /\ eng \in EngineStates /\ k \in Nat /\ Len(inbound) \in Nat
  BY Components DEF TypeInv, TypeOK
<1>4. inbound[cursor + 1] \in Requests
  BY <1>1, <1>2, <1>3, Components
<1>5. a.out \in Seq(Records) /\ Anchors(a.out, Len(a.out)) = 1
  BY <1>3, <1>4, AnswerHasOneAnchor, AnswerCountsOne
<1>6. Anchors(outputs', Len(outputs')) = (cursor - k) + 1
  BY <1>1, <1>2, <1>3, <1>5, AnchorsConcat
<1>7. PhaseCounts(k)'
  BY <1>1, <1>2, <1>3, <1>6 DEF PhaseCounts
<1>8. QED
  BY <1>1, <1>7 DEF Counts, AnsweredCount, SavedCounts

\* The batch is on the outbound stream: batchEnd records are answered now.
LEMMA CountsAppended ==
    ASSUME TypeInv, NEW k \in 0..Len(inbound), Counts(k), ReadyToAppend,
           outbound' = outbound \o outputs, UNCHANGED saved, NEW n, n = batchEnd
    PROVE  /\ n \in 0..Len(inbound) /\ k < n /\ trimIn <= n
           /\ n = AnsweredCount' /\ SavedCounts(n)'
<1>1. /\ k < batchEnd /\ trimIn <= k /\ k = AnsweredCount
      /\ Anchors(outputs, Len(outputs)) = batchEnd - k
      /\ batchEnd <= Len(inbound)
  BY DEF ReadyToAppend, Counts, PhaseCounts, TypeInv
<1>2. /\ batchEnd \in Nat /\ k \in Nat /\ trimIn \in Nat /\ Len(inbound) \in Nat
      /\ outbound \in Seq(Records) /\ outputs \in Seq(Records)
  BY Components DEF TypeInv, TypeOK
<1>3. /\ Anchors(outbound', Len(outbound')) = k + (batchEnd - k)
      /\ \A m \in 0..Len(outbound) : Anchors(outbound', m) = Anchors(outbound, m)
      /\ Len(outbound') \in Nat /\ Len(outbound) <= Len(outbound')
  <2>1. /\ Len(outbound') = Len(outbound) + Len(outputs)
        /\ Len(outbound) \in Nat /\ Len(outputs) \in Nat
    BY <1>2, ConcatSplit
  <2>2. /\ Anchors(outbound', Len(outbound')) = Anchors(outbound, Len(outbound))
                                                   + Anchors(outputs, Len(outputs))
        /\ \A m \in 0..Len(outbound) : Anchors(outbound', m) = Anchors(outbound, m)
    BY <1>2, AnchorsConcat
  <2>3. QED
    BY <1>1, <2>1, <2>2 DEF AnsweredCount
<1>4. n = AnsweredCount'
  BY <1>2, <1>3 DEF AnsweredCount
<1>5. SavedCounts(n)'
  <2>1. SUFFICES ASSUME saved # NoCheckpoint
                 PROVE  /\ saved.in <= n /\ saved.out <= Len(outbound')
                        /\ saved.in = Anchors(outbound', saved.out)
    BY DEF SavedCounts
  <2>2. saved.in \in Nat /\ saved.out \in Nat /\ Len(outbound) \in Nat
    BY <2>1, Components DEF TypeInv, TypeOK, Checkpoints
  <2>3. /\ saved.in <= k /\ saved.out <= Len(outbound)
        /\ saved.in = Anchors(outbound, saved.out)
    BY <2>1 DEF Counts, SavedCounts
  <2>4. saved.out \in 0..Len(outbound)
    BY <2>2, <2>3
  <2>5. QED
    BY <1>1, <1>2, <1>3, <2>2, <2>3, <2>4
<1>6. QED
  BY <1>1, <1>2, <1>4, <1>5

\* The batch appended, its records are answered and the positions say so.
LEMMA CountsAppendBatch ==
    ASSUME TypeInv, NEW k \in 0..Len(inbound), Counts(k), AppendBatch,
           NEW n, n = batchEnd
    PROVE  n \in 0..Len(inbound) /\ Counts(n)'
<1>1. /\ UNCHANGED <<trimIn, trimOut, saved>>
      /\ ReadyToAppend /\ outbound' = outbound \o outputs
      /\ lastOut' = Len(outbound') /\ lastIn' = batchEnd /\ pc' = "running"
  BY DEF AppendBatch, disk
<1>2. /\ n \in 0..Len(inbound) /\ trimIn <= n
      /\ n = AnsweredCount' /\ SavedCounts(n)'
  BY <1>1, CountsAppended
<1>3. PhaseCounts(n)'
  BY <1>1, <1>2 DEF PhaseCounts
<1>4. QED
  BY <1>2, <1>3 DEF Counts

\* A lost EXEC answered the whole batch or none of it.
LEMMA CountsAppendFails ==
    ASSUME TypeInv, NEW k \in 0..Len(inbound), Counts(k),
           NEW b \in BOOLEAN, AppendFails(b), NEW n, n = (IF b THEN batchEnd ELSE k)
    PROVE  n \in 0..Len(inbound) /\ Counts(n)'
<1>1. /\ UNCHANGED saved
      /\ ReadyToAppend /\ pc' = "failed"
      /\ outbound' = IF b THEN outbound \o outputs ELSE outbound
  BY DEF AppendFails, disk
<1>2. CASE b
  <2>1. n \in 0..Len(inbound) /\ n = AnsweredCount' /\ SavedCounts(n)'
    BY <1>1, <1>2, CountsAppended
  <2>2. PhaseCounts(n)'
    BY <1>1 DEF PhaseCounts
  <2>3. QED
    BY <2>1, <2>2 DEF Counts
<1>3. CASE ~b
  BY <1>1, <1>3, CountsStopped
<1>4. QED
  BY <1>2, <1>3

\* Trimming stays below the matcher's own checkpoint and so below its positions.
LEMMA CountsTrim ==
    ASSUME TypeInv, NEW k \in 0..Len(inbound), Counts(k), TrimInbound \/ TrimOutbound
    PROVE  Counts(k)'
<1>1. /\ UNCHANGED <<outbound, saved, pc, lastIn, lastOut>>
      /\ pc = "running" /\ saved \in Checkpoints /\ saved # NoCheckpoint
  BY DEF TrimInbound, TrimOutbound, CanTrim, Usable, logVars, process, TypeInv, TypeOK
<1>2. lastIn = k /\ lastOut = Len(outbound) /\ saved.in <= k /\ trimIn <= k
  BY <1>1 DEF Counts, PhaseCounts, SavedCounts
<1>3. trimIn' <= k
  <2>1. saved.in \in Nat /\ k \in Nat /\ trimIn \in Nat
    BY <1>1, Components DEF Checkpoints, TypeInv, TypeOK
  <2>2. CASE TrimInbound
    BY <1>2, <2>1, <2>2 DEF TrimInbound
  <2>3. CASE TrimOutbound
    BY <1>2, <2>3 DEF TrimOutbound
  <2>4. QED
    BY <2>2, <2>3
<1>4. QED
  BY <1>1, <1>2, <1>3 DEF Counts, AnsweredCount, SavedCounts, PhaseCounts

-----------------------------------------------------------------------------
(* The content: what the streams, the checkpoint and the engine say is what *)
(* an engine that never stopped says.                                       *)

\* Once the process has stopped, Content only speaks of what Redis holds.
LEMMA ContentStopped ==
    ASSUME NEW k, Content(k), UNCHANGED <<logVars, saved>>,
           pc' \in {"down", "failed", "refused"}
    PROVE  Content(k)'
BY DEF logVars, history, Content, Answered, SavedTrue, PhaseTrue

\* A record the gateway appends is not answered yet, so nothing else moves.
LEMMA ContentSubmit ==
    ASSUME TypeInv, HistoryInv, NEW k \in 0..Len(inbound), Counts(k), Content(k),
           NEW r \in Requests, Submit(r)
    PROVE  Content(k)'
<1>1. /\ Len(inbound) \in Nat /\ Len(ideal) \in Nat /\ Len(outbound) \in Nat
      /\ \A m \in 0..Len(inbound) : ends[m] \in Nat
  BY Components
<1>2. /\ \A m \in 0..Len(inbound) : books'[m] = books[m] /\ ends'[m] = ends[m]
      /\ \A i \in 1..Len(ideal) : ideal'[i] = ideal[i]
  BY HistorySubmit
<1>3. /\ UNCHANGED <<outbound, trimIn, trimOut, saved>>
      /\ UNCHANGED <<pc, eng, lastIn, lastOut, cursor, toReplay, batchEnd, outputs>>
  BY DEF Submit, Receive, disk, process
<1>4. Answered(k)'
  <2>1. Len(outbound) = ends[k] /\ ends[k] <= Len(ideal)
    BY <1>1, EndsOrdered DEF Content, Answered
  <2>2. \A i \in 1..Len(outbound) : outbound[i] = ideal[i] /\ i \in 1..Len(ideal)
    BY <1>1, <2>1 DEF Content, Answered
  <2>3. QED
    BY <1>2, <1>3, <2>1, <2>2 DEF Answered
<1>5. SavedTrue'
  <2>1. saved # NoCheckpoint => saved.in \in 0..Len(inbound)
    BY <1>1 DEF Counts, SavedCounts, TypeInv, TypeOK, Checkpoints
  <2>2. QED
    BY <1>2, <1>3, <2>1 DEF Content, SavedTrue
<1>6. PhaseTrue(k)'
  <2>1. cursor \in Nat /\ batchEnd \in Nat
    BY DEF TypeInv, TypeOK
  <2>2. pc \in {"counting", "replaying"} => cursor \in 0..Len(inbound)
    BY <1>1, <2>1 DEF Counts, PhaseCounts
  <2>3. CASE pc = "applying"
    <3>1. /\ k <= cursor /\ cursor <= batchEnd /\ batchEnd <= Len(inbound)
          /\ eng = books[cursor]
          /\ Len(outputs) = ends[cursor] - ends[k]
          /\ \A i \in 1..Len(outputs) : outputs[i] = ideal[ends[k] + i]
      BY <2>3 DEF Counts, PhaseCounts, Content, PhaseTrue, TypeInv
    <3>2. /\ cursor \in 0..Len(inbound)
          /\ ends[cursor] <= Len(ideal) /\ ends[cursor] \in Nat
      BY <1>1, <2>1, <3>1, EndsOrdered
    <3>3. \A i \in 1..Len(outputs) : ends[k] + i \in 1..Len(ideal)
      BY <1>1, <3>1, <3>2
    <3>4. \A i \in 1..Len(outputs) : outputs[i] = ideal'[ends[k] + i]
      BY <1>2, <3>1, <3>3
    <3>5. QED
      BY <1>2, <1>3, <2>3, <3>1, <3>2, <3>4 DEF PhaseTrue
  <2>4. CASE pc # "applying"
    BY <1>2, <1>3, <2>2, <2>4 DEF Content, PhaseTrue
  <2>5. QED
    BY <2>3, <2>4
<1>7. QED
  BY <1>4, <1>5, <1>6 DEF Content

\* recover() starts from the checkpoint's engine, or from a new one.
LEMMA ContentResume ==
    ASSUME HistoryInv, NEW k, Content(k), Resume
    PROVE  Content(k)'
<1> DEFINE from == IF Usable THEN saved ELSE [in |-> 0, out |-> 0, eng |-> InitEngine]
<1>1. UNCHANGED <<inbound, outbound, books, ends, ideal, saved>>
  BY DEF Resume, logVars, history, disk
<1>2. from.eng = books[from.in]
  <2>1. CASE Usable
    BY <2>1 DEF Usable, Content, SavedTrue
  <2>2. CASE ~Usable
    BY <2>2 DEF HistoryInv, RunOfEngine
  <2>3. QED
    BY <2>1, <2>2
<1>3. CASE Resumable(trimIn, from.in) /\ Resumable(trimOut, from.out)
  <2>1. pc' = "counting" /\ eng' = from.eng /\ cursor' = from.in
    BY <1>3 DEF Resume
  <2>2. QED
    BY <1>1, <1>2, <2>1 DEF Content, Answered, SavedTrue, PhaseTrue
<1>4. CASE ~(Resumable(trimIn, from.in) /\ Resumable(trimOut, from.out))
  <2>1. pc' = "refused"
    BY <1>4 DEF Resume
  <2>2. QED
    BY <1>1, <2>1, ContentStopped DEF logVars, history
<1>5. QED
  BY <1>3, <1>4

\* Replaying one record applies the next one.
LEMMA ContentReplayOne ==
    ASSUME TypeInv, HistoryInv, NEW k \in 0..Len(inbound), Counts(k), Content(k), ReplayOne
    PROVE  Content(k)'
<1>1. /\ UNCHANGED <<inbound, outbound, books, ends, ideal, saved>>
      /\ pc = "replaying" /\ toReplay > 0
  BY DEF ReplayOne, logVars, history, disk
<1>2. NextAfter(cursor) = cursor + 1 /\ cursor \in 0..(Len(inbound) - 1)
  BY <1>1, ReplaysTheNext
<1>3. Len(inbound) \in Nat /\ eng = books[cursor]
  BY <1>1, Components DEF Content, PhaseTrue
<1>4. /\ eng' = ApplyRecord(eng, inbound[cursor + 1]).eng
      /\ cursor' = cursor + 1
      /\ pc' = "replaying"
  BY <1>1, <1>2, <1>3 DEF ReplayOne
<1>5. books[cursor + 1] = ApplyRecord(books[cursor], inbound[cursor + 1]).eng
  BY <1>2 DEF HistoryInv, RunOfEngine
<1>6. QED
  BY <1>1, <1>3, <1>4, <1>5 DEF Content, Answered, SavedTrue, PhaseTrue

\* With nothing left to replay the engine is where the outbound stream is.
LEMMA ContentRecovered ==
    ASSUME TypeInv, NEW k \in 0..Len(inbound), Counts(k), Content(k), Recovered
    PROVE  Content(k)'
<1>1. /\ UNCHANGED <<inbound, outbound, books, ends, ideal, saved, eng>>
      /\ pc = "replaying" /\ pc' \in {"running", "booted"}
  BY DEF Recovered, logVars, history, disk
<1>2. eng = books[k]
  BY <1>1, CountsRecovered DEF Content, PhaseTrue
<1>3. QED
  BY <1>1, <1>2 DEF Content, Answered, SavedTrue, PhaseTrue

\* A checkpoint saves the engine of the moment its positions stand for.
LEMMA ContentCheckpoint ==
    ASSUME NEW k, Counts(k), Content(k),
           BootCheckpoint \/ \E b \in BOOLEAN : WriteCheckpoint(b)
    PROVE  Content(k)'
<1>1. /\ UNCHANGED <<inbound, outbound, books, ends, ideal, eng>>
      /\ pc \in {"booted", "running"} /\ pc' \in {"starting", "running", "failed"}
      /\ saved' = [in |-> lastIn, out |-> lastOut, eng |-> eng, config |-> config]
  BY DEF BootCheckpoint, WriteCheckpoint, Checkpoint, logVars, history
<1>2. lastIn = k /\ lastOut = Len(outbound) /\ eng = books[k] /\ Len(outbound) = ends[k]
  BY <1>1 DEF Counts, PhaseCounts, Content, PhaseTrue, Answered
<1>3. QED
  BY <1>1, <1>2 DEF Content, Answered, SavedTrue, PhaseTrue

\* The one step that can lose the engine without anybody noticing, and says so
\* unless there was nothing to lose.
LEMMA ContentStartLoop ==
    ASSUME NEW k, Content(k), StartLoop, ~emptied'
    PROVE  Content(k)'
<1>1. /\ UNCHANGED <<inbound, outbound, books, ends, ideal, saved>>
      /\ pc = "starting" /\ pc' = "running"
  BY DEF StartLoop, logVars, history, disk
<1>2. eng' = eng
  BY DEF StartLoop
<1>3. QED
  BY <1>1, <1>2 DEF Content, Answered, SavedTrue, PhaseTrue

\* A batch begins with the engine of the answered records.
LEMMA ContentRead ==
    ASSUME TypeInv, NEW k \in 0..Len(inbound), Counts(k), Content(k), Read
    PROVE  Content(k)'
<1>1. /\ UNCHANGED <<inbound, outbound, books, ends, ideal, saved, eng>>
      /\ pc = "running" /\ pc' = "applying" /\ outputs' = <<>>
  BY DEF Read, logVars, history, disk
<1>2. eng = books[k] /\ cursor' = k /\ ends[k] \in Nat
  BY <1>1, CountsRead, Components DEF Content, PhaseTrue
<1>3. Len(outputs') = 0 /\ ends'[cursor'] - ends'[k] = 0
  BY <1>1, <1>2
<1>4. PhaseTrue(k)'
  BY <1>1, <1>2, <1>3 DEF PhaseTrue
<1>5. QED
  BY <1>1, <1>4 DEF Content, Answered, SavedTrue

\* Each record applied adds its own answer to the outputs.
LEMMA ContentApplyOne ==
    ASSUME TypeInv, HistoryInv, NEW k \in 0..Len(inbound), Counts(k), Content(k), ApplyOne
    PROVE  Content(k)'
<1> DEFINE a == ApplyRecord(eng, inbound[cursor + 1])
           whole == outputs \o a.out
<1>1. /\ UNCHANGED <<inbound, outbound, books, ends, ideal, trimIn, trimOut, saved>>
      /\ UNCHANGED <<lastIn, batchEnd>>
      /\ pc = "applying" /\ pc' = "applying" /\ cursor < batchEnd
      /\ eng' = a.eng /\ outputs' = whole /\ cursor' = cursor + 1
  BY DEF ApplyOne, logVars, history, disk
<1>2. /\ lastIn = k /\ trimIn <= k
      /\ k <= cursor /\ k < batchEnd /\ batchEnd <= Len(inbound)
      /\ eng = books[cursor]
      /\ Len(outputs) = ends[cursor] - ends[k]
      /\ \A i \in 1..Len(outputs) : outputs[i] = ideal[ends[k] + i]
  BY <1>1 DEF Counts, PhaseCounts, Content, PhaseTrue, TypeInv
<1>3. /\ Len(inbound) \in Nat /\ k \in Nat /\ cursor \in Nat /\ batchEnd \in Nat
      /\ \A m \in 0..Len(inbound) : ends[m] \in Nat
      /\ outputs \in Seq(Records) /\ Len(outputs) \in Nat
  <2>1. cursor \in Nat /\ batchEnd \in Nat /\ outputs \in Seq(Records)
    BY DEF TypeInv, TypeOK
  <2>2. Len(outputs) \in Nat
    BY <2>1
  <2>3. QED
    BY <2>1, <2>2, Components
<1>4. /\ cursor \in 0..(Len(inbound) - 1) /\ cursor \in 0..Len(inbound)
      /\ cursor + 1 \in 0..Len(inbound) /\ cursor + 1 \in 1..Len(inbound)
  BY <1>1, <1>2, <1>3
<1>5. a.out \in Seq(Records) /\ Len(a.out) \in Nat
  BY <1>2, <1>4, Components, AnswerHasOneAnchor
<1>6. /\ books[cursor + 1] = a.eng
      /\ ends[cursor + 1] = ends[cursor] + Len(a.out)
      /\ \A i \in 1..Len(a.out) : ideal[ends[cursor] + i] = a.out[i]
  BY <1>2, <1>4 DEF HistoryInv, RunOfEngine
<1>7. /\ Len(whole) = Len(outputs) + Len(a.out)
      /\ \A i \in 1..Len(outputs) : whole[i] = outputs[i]
      /\ \A i \in 1..Len(a.out) : whole[Len(outputs) + i] = a.out[i]
  BY <1>3, <1>5, ConcatSplit
<1> HIDE DEF a, whole
<1>8. ends[k] \in Nat /\ ends[cursor] \in Nat /\ ends[cursor + 1] \in Nat
  BY <1>3, <1>4
<1>9. Len(whole) = ends[cursor + 1] - ends[k]
  BY <1>2, <1>5, <1>6, <1>7, <1>8
<1>10. ASSUME NEW i \in 1..Len(whole) PROVE whole[i] = ideal[ends[k] + i]
  <2>1. CASE i <= Len(outputs)
    <3>1. i \in 1..Len(outputs)
      BY <1>3, <2>1
    <3>2. QED
      BY <1>2, <1>7, <3>1
  <2>2. CASE i > Len(outputs)
    <3> DEFINE m == i - Len(outputs)
    <3>1. m \in 1..Len(a.out) /\ Len(outputs) + m = i
      <4>1. Len(whole) = Len(outputs) + Len(a.out) /\ i \in Int /\ i <= Len(whole)
        BY <1>3, <1>5, <1>7
      <4>2. Len(outputs) \in Nat /\ Len(a.out) \in Nat
        BY <1>3, <1>5
      <4>3. QED
        BY <2>2, <4>1, <4>2
    <3>2. ends[cursor] + m = ends[k] + i
      <4>1. Len(outputs) = ends[cursor] - ends[k] /\ i \in Int
        BY <1>2
      <4>2. QED
        BY <1>8, <4>1
    <3>3. QED
      BY <1>6, <1>7, <3>1, <3>2
  <2>3. QED
    BY <1>3, <1>5, <1>7, <2>1, <2>2
<1>11. PhaseTrue(k)'
  BY <1>1, <1>2, <1>3, <1>6, <1>9, <1>10 DEF PhaseTrue
<1>12. QED
  BY <1>1, <1>11 DEF Content, Answered, SavedTrue

\* The batch is on the outbound stream: batchEnd records are answered now.
LEMMA ContentAppended ==
    ASSUME TypeInv, HistoryInv, NEW k \in 0..Len(inbound), Counts(k), Content(k),
           ReadyToAppend, outbound' = outbound \o outputs,
           UNCHANGED <<inbound, history, saved>>, NEW n, n = batchEnd
    PROVE  Answered(n)' /\ SavedTrue'
<1>1. /\ Len(outbound') = ends[batchEnd]
      /\ \A i \in 1..ends[batchEnd] : outbound'[i] = ideal[i]
  BY OutputsAreNext
<1>2. ends' = ends /\ ideal' = ideal /\ books' = books /\ saved' = saved
  BY DEF history
<1>3. QED
  BY <1>1, <1>2 DEF Answered, Content, SavedTrue

\* The batch appended, the engine is the one of its last record.
LEMMA ContentAppendBatch ==
    ASSUME TypeInv, HistoryInv, NEW k \in 0..Len(inbound), Counts(k), Content(k),
           AppendBatch, NEW n, n = batchEnd
    PROVE  Content(n)'
<1>1. /\ UNCHANGED <<inbound, books, ends, ideal, saved, eng>>
      /\ ReadyToAppend /\ outbound' = outbound \o outputs /\ pc' = "running"
  BY DEF AppendBatch, history, disk
<1>2. Answered(n)' /\ SavedTrue'
  BY <1>1, ContentAppended DEF history
<1>3. eng = books[n]
  BY <1>1 DEF ReadyToAppend, Content, PhaseTrue
<1>4. QED
  BY <1>1, <1>2, <1>3 DEF Content, PhaseTrue

\* A lost EXEC answered the whole batch or none of it.
LEMMA ContentAppendFails ==
    ASSUME TypeInv, HistoryInv, NEW k \in 0..Len(inbound), Counts(k), Content(k),
           NEW b \in BOOLEAN, AppendFails(b), NEW n, n = (IF b THEN batchEnd ELSE k)
    PROVE  Content(n)'
<1>1. /\ UNCHANGED <<inbound, books, ends, ideal, saved>>
      /\ ReadyToAppend /\ pc' = "failed"
      /\ outbound' = IF b THEN outbound \o outputs ELSE outbound
  BY DEF AppendFails, history, disk
<1>2. CASE b
  <2>1. Answered(n)' /\ SavedTrue'
    BY <1>1, <1>2, ContentAppended DEF history
  <2>2. QED
    BY <1>1, <2>1 DEF Content, PhaseTrue
<1>3. CASE ~b
  BY <1>1, <1>3, ContentStopped DEF logVars, history
<1>4. QED
  BY <1>2, <1>3

-----------------------------------------------------------------------------
(* Both together. *)

\* The fresh system satisfies the invariant, with no record answered.
LEMMA InvInit == Init => IInv
<1> SUFFICES ASSUME Init PROVE IInv
  OBVIOUS
<1>1. /\ inbound = <<>> /\ outbound = <<>> /\ ideal = <<>>
      /\ books = [k \in {0} |-> InitEngine] /\ ends = [k \in {0} |-> 0]
      /\ saved = NoCheckpoint /\ pc = "down"
  BY DEF Init, LogInit
<1>2. Len(inbound) = 0 /\ Len(outbound) = 0 /\ Len(ideal) = 0
  BY <1>1
<1>3. books[0] = InitEngine /\ ends[0] = 0
  BY <1>1
<1>4. HistoryInv
  BY <1>2, <1>3 DEF HistoryInv, RunOfEngine, Increasing
<1>5. Counts(0)
  <2>1. AnsweredCount = 0
    BY <1>2, NoAnchors DEF AnsweredCount
  <2>2. QED
    BY <1>1, <2>1 DEF Counts, SavedCounts, PhaseCounts
<1>6. Content(0)
  BY <1>1, <1>2, <1>3 DEF Content, Answered, SavedTrue, PhaseTrue
<1>7. TypeInv
  BY TypeInit
<1>8. QED
  BY <1>2, <1>4, <1>5, <1>6, <1>7 DEF IInv, Core

\* The history does not move when no record is received.
LEMMA HistoryKept ==
    ASSUME HistoryInv, UNCHANGED <<inbound, history>>
    PROVE  HistoryInv'
BY DEF history, HistoryInv, RunOfEngine, Increasing

\* Every step of the process but the append keeps the number of answered records.
LEMMA CoreProcess ==
    ASSUME TypeInv, HistoryInv, NEW k \in 0..Len(inbound), Core(k),
           \/ Resume \/ CountAnchors \/ ReplayOne \/ Recovered \/ BootCheckpoint
           \/ StartLoop \/ Read \/ ApplyOne \/ \E b \in BOOLEAN : WriteCheckpoint(b)
    PROVE  Core(k)'
<1>1. Counts(k) /\ (emptied \/ Content(k))
  BY DEF Core
<1>2. Counts(k)'
  BY <1>1, CountsResume, CountsCountAnchors, CountsReplayOne, CountsRecovered,
     CountsCheckpoint, CountsStartLoop, CountsRead, CountsApplyOne
<1>3. emptied => emptied'
  BY DEF Resume, CountAnchors, ReplayOne, Recovered, BootCheckpoint, StartLoop, Read,
         ApplyOne, WriteCheckpoint
<1>4. ASSUME Content(k), ~emptied' PROVE Content(k)'
  <2>1. CASE CountAnchors
    <3>1. UNCHANGED <<inbound, outbound, books, ends, ideal, saved, eng, cursor>>
          /\ pc = "counting" /\ pc' = "replaying"
      BY <2>1 DEF CountAnchors, logVars, history, disk
    <3>2. QED
      BY <1>4, <3>1 DEF Content, Answered, SavedTrue, PhaseTrue
  <2>2. QED
    BY <1>1, <1>4, <2>1, ContentResume, ContentReplayOne, ContentRecovered,
       ContentCheckpoint, ContentStartLoop, ContentRead, ContentApplyOne
<1>5. QED
  BY <1>1, <1>2, <1>3, <1>4 DEF Core

\* An append answers the batch, if Redis applied it.
LEMMA CoreAppend ==
    ASSUME TypeInv, HistoryInv, NEW k \in 0..Len(inbound), Core(k),
           AppendBatch \/ \E b \in BOOLEAN : AppendFails(b)
    PROVE  \E n \in 0..Len(inbound') : Core(n)'
<1>1. Counts(k) /\ (emptied \/ Content(k)) /\ emptied' = emptied /\ inbound' = inbound
  BY DEF Core, AppendBatch, AppendFails
<1>2. CASE AppendBatch
  <2>1. PICK n : n = batchEnd
    OBVIOUS
  <2>2. n \in 0..Len(inbound) /\ Counts(n)'
    BY <1>1, <1>2, <2>1, CountsAppendBatch
  <2>3. Content(k) => Content(n)'
    BY <1>1, <1>2, <2>1, ContentAppendBatch
  <2>4. QED
    BY <1>1, <2>2, <2>3 DEF Core
<1>3. ASSUME NEW b \in BOOLEAN, AppendFails(b)
      PROVE  \E n \in 0..Len(inbound') : Core(n)'
  <2>1. PICK n : n = (IF b THEN batchEnd ELSE k)
    OBVIOUS
  <2>2. n \in 0..Len(inbound) /\ Counts(n)'
    BY <1>1, <1>3, <2>1, CountsAppendFails
  <2>3. Content(k) => Content(n)'
    BY <1>1, <1>3, <2>1, ContentAppendFails
  <2>4. QED
    BY <1>1, <2>2, <2>3 DEF Core
<1>4. QED
  BY <1>2, <1>3

\* A stopped process leaves what Redis holds alone.
LEMMA CoreStopped ==
    ASSUME NEW k, Core(k), UNCHANGED <<logVars, saved, emptied>>,
           pc' \in {"down", "failed", "refused"}
    PROVE  Core(k)'
BY CountsStopped, ContentStopped DEF Core, logVars

\* Trimming touches neither engine nor checkpoint.
LEMMA CoreTrim ==
    ASSUME TypeInv, NEW k \in 0..Len(inbound), Core(k), TrimInbound \/ TrimOutbound
    PROVE  Core(k)'
<1>1. UNCHANGED <<inbound, outbound, books, ends, ideal, saved, pc, eng, cursor, outputs,
                  emptied>>
  BY DEF TrimInbound, TrimOutbound, logVars, history, process
<1>2. Content(k) => Content(k)'
  BY <1>1 DEF Content, Answered, SavedTrue, PhaseTrue
<1>3. Counts(k)'
  BY CountsTrim DEF Core
<1>4. QED
  BY <1>1, <1>2, <1>3 DEF Core

\* A halt, its end, and a stutter touch nothing of this.
LEMMA CoreUntouched ==
    ASSUME NEW k, Core(k), UNCHANGED <<logVars, disk, process, emptied>>
    PROVE  Core(k)'
<1>1. /\ UNCHANGED <<inbound, outbound, books, ends, ideal, saved, trimIn, trimOut>>
      /\ UNCHANGED <<pc, eng, lastIn, lastOut, cursor, toReplay, batchEnd, outputs, emptied>>
  BY DEF logVars, history, disk, process
<1>2. Content(k) => Content(k)'
  BY <1>1 DEF Content, Answered, SavedTrue, PhaseTrue
<1>3. Counts(k) => Counts(k)'
  BY <1>1 DEF Counts, AnsweredCount, SavedCounts, PhaseCounts
<1>4. QED
  BY <1>1, <1>2, <1>3 DEF Core

\* Every step preserves the invariant.
LEMMA InvStep ==
    ASSUME IInv, [Next]_vars
    PROVE  IInv'
<1>1. TypeInv /\ HistoryInv /\ TypeInv'
  BY TypeStep DEF IInv
<1>2. PICK k \in 0..Len(inbound) : Core(k)
  BY DEF IInv
<1>3. k \in Nat /\ Len(inbound) \in Nat
  BY <1>1, Components
<1> SUFFICES HistoryInv' /\ \E n \in 0..Len(inbound') : Core(n)'
  BY <1>1 DEF IInv
<1> USE <1>1, <1>2, <1>3
<1>4. ASSUME NEW r \in Requests, Submit(r)
      PROVE  HistoryInv' /\ \E n \in 0..Len(inbound') : Core(n)'
  <2>1. HistoryInv' /\ Len(inbound') = Len(inbound) + 1 /\ (emptied => emptied')
    BY <1>4, HistorySubmit DEF Submit
  <2>2. Counts(k) /\ (emptied \/ Content(k))
    BY DEF Core
  <2>3. Counts(k)'
    BY <1>4, <2>2, CountsSubmit
  <2>4. Content(k) => Content(k)'
    BY <1>4, <2>2, ContentSubmit
  <2>5. k \in 0..Len(inbound')
    BY <2>1
  <2>6. Core(k)'
    BY <2>1, <2>2, <2>3, <2>4 DEF Core
  <2>7. QED
    BY <2>1, <2>5, <2>6
<1>5. ASSUME UNCHANGED <<inbound, history>>, \E n \in 0..Len(inbound') : Core(n)'
      PROVE  HistoryInv' /\ \E n \in 0..Len(inbound') : Core(n)'
  BY <1>5, HistoryKept
<1>6. ASSUME UNCHANGED <<inbound, history>>, Core(k)'
      PROVE  HistoryInv' /\ \E n \in 0..Len(inbound') : Core(n)'
  BY <1>6, HistoryKept
<1>7. CASE \/ Resume \/ CountAnchors \/ ReplayOne \/ Recovered \/ BootCheckpoint
           \/ StartLoop \/ Read \/ ApplyOne \/ \E b \in BOOLEAN : WriteCheckpoint(b)
  <2>1. UNCHANGED <<inbound, history>>
    BY <1>7 DEF Resume, CountAnchors, ReplayOne, Recovered, BootCheckpoint, StartLoop,
                Read, ApplyOne, WriteCheckpoint, logVars, history
  <2>2. Core(k)'
    BY <1>7, CoreProcess
  <2>3. QED
    BY <1>6, <2>1, <2>2
<1>8. CASE AppendBatch \/ \E b \in BOOLEAN : AppendFails(b)
  BY <1>5, <1>8, CoreAppend DEF AppendBatch, AppendFails
<1>9. CASE AppendRefused \/ Fails \/ Crash \/ \E c \in Configs : Deploy(c)
  BY <1>6, <1>9, CoreStopped
     DEF AppendRefused, Fails, Crash, Deploy, logVars, history, disk
<1>10. CASE TrimInbound \/ TrimOutbound
  BY <1>6, <1>10, CoreTrim DEF TrimInbound, TrimOutbound, logVars, history
<1>11. CASE Halt \/ ClearHalt \/ UNCHANGED vars
  <2>1. UNCHANGED <<logVars, disk, process, emptied>>
    BY <1>11 DEF Halt, ClearHalt, vars
  <2>2. Core(k)'
    BY <2>1, CoreUntouched
  <2>3. QED
    BY <1>6, <2>1, <2>2 DEF logVars, history
<1>12. QED
  BY <1>4, <1>7, <1>8, <1>9, <1>10, <1>11 DEF Next, Progress

\* The invariant of recovery: at every program point of cpp_runner.py the
\* positions, the checkpoint and the trim points count the same records, and
\* engine, checkpoint and stream belong to the run of an engine that never
\* stopped, until a worker is lost as the loop starts.
THEOREM Invariance == Spec => []IInv
<1>1. IInv /\ [Next]_vars => IInv'
  BY InvStep
<1>2. QED
  BY InvInit, <1>1, PTL DEF Spec

-----------------------------------------------------------------------------
(* What the invariant says. *)

\* The promise of runner.py's recovery, for every engine and every sequence of
\* crashes, lost replies, trims and reconfigurations: never more answers than
\* records, and until a worker is lost as the loop starts, the outbound stream is
\* the answers to a prefix of the inbound stream, each of them once.
THEOREM AnsweredExactlyOnce == Spec => []ExactlyOnce
<1>1. IInv => ExactlyOnce
  <2> SUFFICES ASSUME IInv PROVE ExactlyOnce
    OBVIOUS
  <2>1. PICK k \in 0..Len(inbound) : Core(k)
    BY DEF IInv
  <2>2. AnsweredCount <= Len(inbound)
    BY <2>1 DEF Core, Counts
  <2>3. QED
    BY <2>1, <2>2 DEF Core, Content, ExactlyOnce
<1>2. QED
  BY Invariance, <1>1, PTL

\* Between batches the two positions and the outbound stream agree, and the engine
\* with them: the moment write_checkpoint saves is one moment.  After start() has
\* replaced a worker that died by an empty one the positions still agree.
THEOREM BatchesKeepStep == Spec => []InStep
<1>1. IInv => InStep
  <2> SUFFICES ASSUME IInv, pc \in {"booted", "starting", "running"}
               PROVE  /\ lastIn = AnsweredCount
                      /\ lastIn <= Len(inbound)
                      /\ lastOut = Len(outbound)
                      /\ emptied \/ (eng = books[lastIn] /\ Answered(lastIn))
    BY DEF InStep
  <2>1. PICK k \in 0..Len(inbound) : Core(k)
    BY DEF IInv
  <2>2. k = AnsweredCount /\ lastIn = k /\ lastOut = Len(outbound) /\ lastIn <= Len(inbound)
    BY <2>1 DEF Core, Counts, PhaseCounts
  <2>3. emptied \/ (eng = books[lastIn] /\ Answered(lastIn))
    BY <2>1, <2>2 DEF Core, Content, PhaseTrue
  <2>4. QED
    BY <2>2, <2>3
<1>2. QED
  BY Invariance, <1>1, PTL

\* A checkpoint is never ahead of the streams, its two positions count the same
\* records, and it is not torn (checkpointing.py).
THEOREM CheckpointNeverAhead == Spec => []CheckpointIsConsistent
<1>1. IInv => CheckpointIsConsistent
  <2> SUFFICES ASSUME IInv, saved # NoCheckpoint
               PROVE  /\ saved.in <= Len(inbound)
                      /\ saved.out <= Len(outbound)
                      /\ saved.in = Anchors(outbound, saved.out)
                      /\ emptied \/ (saved.eng = books[saved.in] /\ saved.out = ends[saved.in])
    BY DEF CheckpointIsConsistent
  <2>1. PICK k \in 0..Len(inbound) : Core(k)
    BY DEF IInv
  <2>2. Len(inbound) \in Nat /\ saved.in \in Nat
    BY Components DEF IInv, TypeInv, TypeOK, Checkpoints
  <2>3. /\ saved.in <= k /\ saved.out <= Len(outbound)
        /\ saved.in = Anchors(outbound, saved.out)
    BY <2>1 DEF Core, Counts, SavedCounts
  <2>4. emptied \/ (saved.eng = books[saved.in] /\ saved.out = ends[saved.in])
    BY <2>1 DEF Core, Content, SavedTrue
  <2>5. QED
    BY <2>2, <2>3, <2>4
<1>2. QED
  BY Invariance, <1>1, PTL

\* recover() always finds the records its anchors stand for.
THEOREM EnoughRecordsRetained == Spec => []RecoveryIsNotShort
<1>1. IInv => RecoveryIsNotShort
  <2> SUFFICES ASSUME IInv, pc = "replaying", toReplay > 0
               PROVE  NextAfter(cursor) <= Len(inbound)
    BY DEF RecoveryIsNotShort
  <2>1. PICK k \in 0..Len(inbound) : Core(k)
    BY DEF IInv
  <2>2. TypeInv /\ Len(inbound) \in Nat
    BY Components DEF IInv
  <2>3. NextAfter(cursor) = cursor + 1 /\ cursor \in 0..(Len(inbound) - 1)
    BY <2>1, <2>2, ReplaysTheNext DEF Core
  <2>4. QED
    BY <2>2, <2>3
<1>2. QED
  BY Invariance, <1>1, PTL

\* No read of the matcher steps over records that XTRIM removed.
THEOREM NoGapIsRead == Spec => []NeverReadsPastAGap
<1>1. IInv => NeverReadsPastAGap
  <2> SUFFICES ASSUME IInv PROVE NeverReadsPastAGap
    OBVIOUS
  <2>1. PICK k \in 0..Len(inbound) : Core(k)
    BY DEF IInv
  <2>2. QED
    BY <2>1 DEF Core, Counts, PhaseCounts, NeverReadsPastAGap
<1>2. QED
  BY Invariance, <1>1, PTL

-----------------------------------------------------------------------------
(* Refinement. *)

\* Every step of the matcher publishes answers in order, receives a record, or
\* is invisible to the rest of the exchange, until a worker is lost.
LEMMA StepIsLogStep ==
    ASSUME IInv, [Next]_vars
    PROVE  [emptied' \/ LogNext]_logVars
<1>1. PICK k \in 0..Len(inbound) : Core(k)
  BY DEF IInv
<1>2. TypeInv /\ HistoryInv
  BY DEF IInv
<1>3. ASSUME NEW r \in Requests, Submit(r) PROVE [emptied' \/ LogNext]_logVars
  BY <1>3 DEF Submit, LogNext
<1>4. ASSUME ReadyToAppend, outbound' = outbound \o outputs,
             UNCHANGED <<inbound, history>>, emptied' = emptied
      PROVE  [emptied' \/ LogNext]_logVars
  <2>1. CASE emptied
    BY <1>4, <2>1
  <2>2. CASE ~emptied
    <3>1. /\ batchEnd \in (k + 1)..Len(inbound)
          /\ Len(outbound) < ends[batchEnd]
          /\ outbound \o outputs = SubSeq(ideal, 1, ends[batchEnd])
      BY <1>1, <1>2, <1>4, <2>2, OutputsAreNext DEF Core
    <3>2. batchEnd \in 1..Len(inbound)
      BY <1>1, <3>1
    <3>3. Answer(batchEnd)
      BY <1>4, <3>1 DEF Answer
    <3>4. QED
      BY <3>2, <3>3 DEF LogNext
  <2>3. QED
    BY <2>1, <2>2
<1>5. CASE AppendBatch
  BY <1>4, <1>5 DEF AppendBatch
<1>6. ASSUME NEW b \in BOOLEAN, AppendFails(b) PROVE [emptied' \/ LogNext]_logVars
  <2>1. CASE b
    BY <1>4, <1>6, <2>1 DEF AppendFails
  <2>2. CASE ~b
    BY <1>6, <2>2 DEF AppendFails, logVars, history
  <2>3. QED
    BY <2>1, <2>2
<1>7. CASE Resume \/ CountAnchors \/ ReplayOne \/ Recovered \/ Read \/ ApplyOne
               \/ BootCheckpoint \/ StartLoop
  BY <1>7 DEF Resume, CountAnchors, ReplayOne, Recovered, Read, ApplyOne,
              BootCheckpoint, StartLoop
<1>8. CASE AppendRefused \/ Fails \/ Crash \/ Halt \/ ClearHalt
  BY <1>8 DEF AppendRefused, Fails, Crash, Halt, ClearHalt
<1>9. CASE TrimInbound \/ TrimOutbound \/ UNCHANGED vars
  BY <1>9 DEF TrimInbound, TrimOutbound, vars
<1>10. ASSUME NEW b \in BOOLEAN, WriteCheckpoint(b) PROVE [emptied' \/ LogNext]_logVars
  BY <1>10 DEF WriteCheckpoint
<1>11. ASSUME NEW c \in Configs, Deploy(c) PROVE [emptied' \/ LogNext]_logVars
  BY <1>11 DEF Deploy
<1>12. QED
  BY <1>3, <1>5, <1>6, <1>7, <1>8, <1>9, <1>10, <1>11 DEF Next, Progress

\* The matcher implements the answer log: a batch that is appended is Answer, a
\* record that is submitted is Receive, and nothing else it does is visible, until
\* a worker is lost as the loop starts.
THEOREM MatcherIsAnswerLog == Spec => ImplementsAnswerLog
<1>1. Init => LogInit
  BY DEF Init
<1>2. IInv /\ [Next]_vars => [emptied' \/ LogNext]_logVars
  BY StepIsLogStep
<1>3. QED
  BY Invariance, <1>1, <1>2, PTL DEF Spec, ImplementsAnswerLog

-----------------------------------------------------------------------------
(* Under one configuration the matcher can always start. *)

\* The matcher's own checkpoint lies behind whatever was trimmed, and is usable.
KeptInv ==
    /\ trimIn > 0 => saved # NoCheckpoint /\ saved.in > trimIn
    /\ trimOut > 0 => saved # NoCheckpoint /\ saved.out > trimOut
    /\ saved # NoCheckpoint => saved.config = config
    /\ NeverRefused

\* Under one configuration, what a checkpoint needs is retained by every step.
LEMMA KeptStep ==
    ASSUME NEW c, Configs = {c}, IInv, KeptInv, [Next]_vars
    PROVE  KeptInv'
<1> USE DEF KeptInv, NeverRefused, vars, logVars, history, disk, process
<1>1. PICK k \in 0..Len(inbound) : Core(k)
  BY DEF IInv
<1>2. /\ TypeInv /\ config = c /\ trimIn \in Nat /\ trimOut \in Nat
      /\ saved # NoCheckpoint => saved \in Checkpoints
  BY DEF IInv, TypeInv, TypeOK
<1>3. saved # NoCheckpoint => saved.in \in Nat /\ saved.out \in Nat
  BY <1>2 DEF Checkpoints
<1>4. CASE Resume
  <2>1. saved # NoCheckpoint => Usable
    BY DEF Usable
  <2>2. /\ Usable => Resumable(trimIn, saved.in) /\ Resumable(trimOut, saved.out)
        /\ ~Usable => Resumable(trimIn, 0) /\ Resumable(trimOut, 0)
    BY <1>2, <2>1 DEF Resumable
  <2>3. pc' = "counting"
    BY <1>4, <2>2 DEF Resume
  <2>4. QED
    BY <1>4, <2>3 DEF Resume
<1>5. CASE CountAnchors \/ ReplayOne \/ Recovered \/ StartLoop \/ Read \/ ApplyOne
  BY <1>5 DEF CountAnchors, ReplayOne, Recovered, StartLoop, Read, ApplyOne
<1>6. CASE AppendBatch \/ AppendRefused \/ Fails \/ Crash \/ Halt \/ ClearHalt
  BY <1>6 DEF AppendBatch, AppendRefused, Fails, Crash, Halt, ClearHalt
<1>7. ASSUME NEW b \in BOOLEAN, AppendFails(b) PROVE KeptInv'
  BY <1>7 DEF AppendFails
<1>8. ASSUME BootCheckpoint \/ \E b \in BOOLEAN : WriteCheckpoint(b) PROVE KeptInv'
  <2>1. /\ pc \in {"booted", "running"} /\ pc' # "refused"
        /\ UNCHANGED <<trimIn, trimOut, config>>
        /\ saved' = [in |-> lastIn, out |-> lastOut, eng |-> eng, config |-> config]
    BY <1>8 DEF WriteCheckpoint, BootCheckpoint, Checkpoint
  <2>2. /\ lastIn = k /\ lastOut = Len(outbound)
        /\ eng \in EngineStates /\ lastOut \in Nat /\ lastIn \in Nat
    BY <1>1, <1>2, <2>1 DEF Core, Counts, PhaseCounts, TypeInv, TypeOK
  <2>3. saved' # NoCheckpoint
    BY <1>2, <2>1, <2>2, NotACheckpoint
  <2>4. saved # NoCheckpoint => saved.in <= lastIn /\ saved.out <= lastOut
    BY <1>1, <2>2 DEF Core, Counts, SavedCounts
  <2>5. QED
    BY <1>2, <1>3, <2>1, <2>2, <2>3, <2>4
<1>9. CASE TrimInbound
  BY <1>2, <1>3, <1>9 DEF TrimInbound, CanTrim, Usable
<1>10. CASE TrimOutbound
  BY <1>2, <1>3, <1>10 DEF TrimOutbound, CanTrim, Usable
<1>11. ASSUME NEW d \in Configs, Deploy(d) PROVE KeptInv'
  BY <1>2, <1>11 DEF Deploy
<1>12. ASSUME NEW r \in Requests, Submit(r) PROVE KeptInv'
  BY <1>12 DEF Submit
<1>13. CASE UNCHANGED vars
  BY <1>13
<1>14. QED
  BY <1>4, <1>5, <1>6, <1>7, <1>8, <1>9, <1>10, <1>11, <1>12, <1>13
     DEF Next, Progress

\* Rules 2 and 3 of checkpoint.py for the matcher alone: as long as the
\* configuration does not change, no trim ever makes it refuse to start.
THEOREM OneConfigNeverRefuses ==
    ASSUME NEW CONSTANT c, Configs = {c}
    PROVE  Spec => []NeverRefused
<1>1. Init => KeptInv
  BY DEF Init, KeptInv, NeverRefused
<1>2. IInv /\ KeptInv /\ [Next]_vars => KeptInv'
  BY KeptStep
<1>3. KeptInv => NeverRefused
  BY DEF KeptInv
<1>4. QED
  BY Invariance, <1>1, <1>2, <1>3, PTL DEF Spec
=============================================================================
