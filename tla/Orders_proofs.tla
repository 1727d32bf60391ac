---------------------------- MODULE Orders_proofs ----------------------------
(***************************************************************************)
(* The gateway's orders, for every set of calls and orders, every batch    *)
(* size and every number of lost replies, restarts and key expiries.       *)
(*                                                                         *)
(* Idempotent submission.  The invariant ties the three places an outcome  *)
(* is kept: the stream, the idempotency key and the result a call holds.   *)
(* A key is claimed together with the append (ClaimInv), so it bounds what *)
(* the stream holds; and as long as it has not expired it only moves away  *)
(* from `none', once, so a result that was true when it was taken stays    *)
(* true (TruthInv).                                                        *)
(*                                                                         *)
(* Commitments.  What is set aside is what the reservations cost           *)
(* (WellKept), whatever the order of reserving, adopting, cutting and      *)
(* giving back.  Every answer the gateway has still to read finds its      *)
(* reservation (AwaitedInv, PendingInv), and what it knows of the records  *)
(* it has read is what a replay of them gives (Alike): so a checkpoint,    *)
(* a restart and the watcher all lead to one state.                        *)
(***************************************************************************)
EXTENDS Orders, FiniteSetTheorems, SequenceTheorems, TLAPS

Remembered(k) == IF key[k] = "accepted" THEN 1 ELSE 0

StreamInv == \E S : inbound \in Seq(S)

ProducerInv ==
    /\ queue \in Seq(Calls) /\ batch \in Seq(Calls) /\ ran \in Nat
    /\ \A i \in 1..Len(queue) : pc[queue[i]] # "idle"
    /\ \A i \in 1..Len(batch) : pc[batch[i]] # "idle"

CallInv ==
    /\ key \in [Keys -> {"none", "accepted", "rejected"}]
    /\ expired \in [Keys -> Nat]
    /\ DOMAIN pc = Calls /\ DOMAIN result = Calls /\ DOMAIN ask = Calls
    /\ \A c \in Calls : /\ pc[c] = "idle" => result[c] = "none"
                        /\ pc[c] = "missed" => ask[c] \in Asks
                        /\ pc[c] # "idle" => KeyOfCall(c) \in Keys

\* No order is on the stream but under a key that was claimed for it.
ClaimInv ==
    \A k \in Keys : /\ IsFiniteSet(Appended(k))
                    /\ Cardinality(Appended(k)) <= expired[k] + Remembered(k)
                    /\ key[k] = "accepted" => Appended(k) # {}

\* What a call was told is what its key holds, until the key expires.
TruthInv ==
    \A c \in Calls : pc[c] # "idle" /\ expired[KeyOfCall(c)] = 0 =>
        /\ result[c] \in {"appended", "accepted"} => key[KeyOfCall(c)] = "accepted"
        /\ result[c] = "rejected" => key[KeyOfCall(c)] = "rejected"
        /\ pc[c] = "rereading" => key[KeyOfCall(c)] # "none"

IInv == StreamInv /\ ProducerInv /\ CallInv /\ ClaimInv /\ TruthInv

-----------------------------------------------------------------------------
\* The stream, the key and the answers are empty at genesis.
LEMMA InvInit == Init => IInv
<1> SUFFICES ASSUME Init PROVE IInv
  OBVIOUS
<1> USE DEF Init, LogInit
<1>1. StreamInv
  BY EmptySeq DEF StreamInv
<1>2. ProducerInv
  <2>1. <<>> \in Seq(Calls) /\ Len(<<>>) = 0
    BY EmptySeq
  <2>2. QED
    BY <2>1 DEF ProducerInv
<1>3. CallInv
  BY DEF CallInv
<1>4. ClaimInv
  <2> SUFFICES ASSUME NEW k \in Keys
               PROVE  /\ IsFiniteSet(Appended(k))
                      /\ Cardinality(Appended(k)) <= expired[k] + Remembered(k)
                      /\ key[k] = "accepted" => Appended(k) # {}
    BY DEF ClaimInv
  <2>1. Appended(k) = {}
    BY DEF Appended
  <2>2. QED
    BY <2>1, FS_EmptySet DEF Remembered
<1>5. TruthInv
  BY DEF TruthInv
<1>6. QED
  BY <1>1, <1>2, <1>3, <1>4, <1>5 DEF IInv

\* One more record on the stream adds its place to those of its key.
LEMMA AppendedGrows ==
    ASSUME NEW S, inbound \in Seq(S), NEW r, inbound' = Append(inbound, r), NEW k
    PROVE  /\ StreamInv'
           /\ Appended(k)' = IF OrderKey(r) = k THEN Appended(k) \union {Len(inbound) + 1}
                                                ELSE Appended(k)
           /\ Len(inbound) + 1 \notin Appended(k)
<1>1. inbound \in Seq(S \union {r}) /\ Len(inbound) \in Nat
  OBVIOUS
<1>2. /\ inbound' \in Seq(S \union {r})
      /\ Len(inbound') = Len(inbound) + 1
      /\ \A i \in 1..Len(inbound) : inbound'[i] = inbound[i]
      /\ inbound'[Len(inbound) + 1] = r
  BY <1>1, AppendProperties
<1>3. DOMAIN inbound = 1..Len(inbound) /\ DOMAIN inbound' = 1..(Len(inbound) + 1)
  BY <1>1, <1>2
<1>4. StreamInv'
  BY <1>2 DEF StreamInv
<1>5. Len(inbound) + 1 \notin Appended(k)
  BY <1>1, <1>3 DEF Appended
<1>6. Appended(k)' = IF OrderKey(r) = k THEN Appended(k) \union {Len(inbound) + 1}
                                        ELSE Appended(k)
  BY <1>1, <1>2, <1>3 DEF Appended, OrderKey
<1>7. QED
  BY <1>4, <1>5, <1>6

\* While neither stream nor key moves, only calls and producer need looking at.
LEMMA ClaimKept ==
    ASSUME StreamInv, ClaimInv, UNCHANGED <<inbound, key, expired>>
    PROVE  StreamInv' /\ ClaimInv'
BY DEF StreamInv, ClaimInv, Appended, Remembered

\* A market order is sent under the key it came with.
LEMMA PricedKeepsKey ==
    ASSUME NEW a \in Asks
    PROVE  OrderKey(Priced(a)) = OrderKey(a)
BY AsksAreOrders DEF Priced, OrderKey, SubmitOrder, CancelOrder

-----------------------------------------------------------------------------
(* The steps of a call. *)

\* An answer or a move of one call c, all else being equal, keeps the invariant
\* if it is true of the key.
LEMMA CallMoves ==
    ASSUME IInv, NEW c \in Calls,
           UNCHANGED <<inbound, key, expired>>,
           UNCHANGED <<queue, batch, ran>>
              \/ (UNCHANGED <<batch, ran>> /\ queue' = Append(queue, c)),
           DOMAIN ask' = Calls, DOMAIN pc' = Calls, DOMAIN result' = Calls,
           \A d \in Calls \ {c} : ask'[d] = ask[d],
           \A d \in Calls \ {c} : pc'[d] = pc[d] /\ result'[d] = result[d],
           pc'[c] # "idle", KeyOfCall(c)' \in Keys,
           pc'[c] = "missed" => ask'[c] \in Asks,
           expired[KeyOfCall(c)'] = 0 =>
              /\ result'[c] \in {"appended", "accepted"} => key[KeyOfCall(c)'] = "accepted"
              /\ result'[c] = "rejected" => key[KeyOfCall(c)'] = "rejected"
              /\ pc'[c] = "rereading" => key[KeyOfCall(c)'] # "none"
    PROVE  IInv'
<1> USE DEF IInv
<1>1. StreamInv' /\ ClaimInv'
  BY ClaimKept
<1>2. \A d \in Calls \ {c} : KeyOfCall(d)' = KeyOfCall(d)
  BY DEF KeyOfCall, OrderKey
<1>3. ProducerInv'
  <2>1. batch' \in Seq(Calls) /\ ran' \in Nat
        /\ \A i \in 1..Len(batch') : pc'[batch'[i]] # "idle"
    <3>1. batch' = batch /\ ran' = ran
      OBVIOUS
    <3>2. \A i \in 1..Len(batch) : batch[i] \in Calls
      BY DEF ProducerInv
    <3>3. QED
      BY <3>1, <3>2 DEF ProducerInv
  <2>2. queue' \in Seq(Calls) /\ \A i \in 1..Len(queue') : pc'[queue'[i]] # "idle"
    <3>1. queue \in Seq(Calls) /\ Len(queue) \in Nat
          /\ \A i \in 1..Len(queue) : queue[i] \in Calls /\ pc'[queue[i]] # "idle"
      BY DEF ProducerInv
    <3>2. CASE queue' = queue
      BY <3>1, <3>2
    <3>3. CASE queue' = Append(queue, c)
      BY <3>1, <3>3, AppendProperties
    <3>4. QED
      BY <3>2, <3>3
  <2>3. QED
    BY <2>1, <2>2 DEF ProducerInv
<1>4. CallInv'
  <2>1. /\ key' \in [Keys -> {"none", "accepted", "rejected"}]
        /\ expired' \in [Keys -> Nat]
    BY DEF CallInv
  <2>2. ASSUME NEW d \in Calls
        PROVE  /\ pc'[d] = "idle" => result'[d] = "none"
               /\ pc'[d] = "missed" => ask'[d] \in Asks
               /\ pc'[d] # "idle" => KeyOfCall(d)' \in Keys
    <3>1. CASE d = c
      BY <3>1
    <3>2. CASE d # c
      BY <1>2, <3>2 DEF CallInv
    <3>3. QED
      BY <3>1, <3>2
  <2>3. QED
    BY <2>1, <2>2 DEF CallInv
<1>5. TruthInv'
  <2> SUFFICES ASSUME NEW d \in Calls, pc'[d] # "idle", expired'[KeyOfCall(d)'] = 0
               PROVE
        /\ result'[d] \in {"appended", "accepted"} => key'[KeyOfCall(d)'] = "accepted"
        /\ result'[d] = "rejected" => key'[KeyOfCall(d)'] = "rejected"
        /\ pc'[d] = "rereading" => key'[KeyOfCall(d)'] # "none"
    BY DEF TruthInv
  <2>1. CASE d = c
    BY <2>1
  <2>2. CASE d # c
    BY <1>2, <2>2 DEF TruthInv
  <2>3. QED
    BY <2>1, <2>2
<1>6. QED
  BY <1>1, <1>3, <1>4, <1>5

\* What the lookup of the key finds is true of the key.
LEMMA InvLookup ==
    ASSUME IInv, NEW c \in Calls, NEW a \in Asks, Lookup(c, a)
    PROVE  IInv'
<1> USE DEF Lookup, Goes, Answers, logVars, producer, bounded
<1>1. /\ DOMAIN pc = Calls /\ DOMAIN result = Calls /\ DOMAIN ask = Calls
      /\ key \in [Keys -> {"none", "accepted", "rejected"}]
      /\ pc[c] = "idle" /\ result[c] = "none"
  BY DEF IInv, CallInv
<1>2. /\ ask'[c] = a /\ \A d \in Calls \ {c} : ask'[d] = ask[d]
      /\ DOMAIN ask' = Calls
  BY <1>1
<1>3. KeyOfCall(c)' = OrderKey(a) /\ OrderKey(a) \in Keys
  BY <1>2 DEF KeyOfCall, OrderKey, Keys
<1>4. /\ DOMAIN pc' = Calls /\ DOMAIN result' = Calls
      /\ \A d \in Calls \ {c} : pc'[d] = pc[d] /\ result'[d] = result[d]
      /\ \/ pc'[c] = "missed" /\ result'[c] = "none"
         \/ pc'[c] = "done" /\ result'[c] = key[OrderKey(a)]
  BY <1>1, <1>3
<1>5. QED
  BY <1>1, <1>2, <1>3, <1>4, CallMoves

\* A call that goes on, is queued, or learns that its order is in flight.
LEMMA InvDecide ==
    ASSUME IInv, NEW c \in Calls, Decide(c) \/ DecideCancel(c)
    PROVE  IInv'
<1> USE DEF Decide, DecideCancel, Goes, Answers, logVars, bounded
<1>1. /\ DOMAIN pc = Calls /\ DOMAIN result = Calls /\ DOMAIN ask = Calls
      /\ pc[c] = "missed" /\ ask[c] \in Asks /\ KeyOfCall(c) \in Keys
  BY DEF IInv, CallInv
<1>2. /\ DOMAIN ask' = Calls
      /\ \A d \in Calls \ {c} : ask'[d] = ask[d]
      /\ ask'[c] = ask[c] \/ ask'[c] = Priced(ask[c])
  BY <1>1
<1>3. KeyOfCall(c)' = KeyOfCall(c)
  BY <1>1, <1>2, PricedKeepsKey DEF KeyOfCall, OrderKey
<1>4. /\ DOMAIN pc' = Calls /\ DOMAIN result' = Calls
      /\ \A d \in Calls \ {c} : pc'[d] = pc[d] /\ result'[d] = result[d]
      /\ pc'[c] \in {"done", "rejecting", "queued"}
      /\ result'[c] \in {result[c], "in_progress"}
  BY <1>1
<1>5. expired[KeyOfCall(c)] = 0 =>
         /\ result[c] \in {"appended", "accepted"} => key[KeyOfCall(c)] = "accepted"
         /\ result[c] = "rejected" => key[KeyOfCall(c)] = "rejected"
  BY <1>1 DEF IInv, TruthInv
<1>6. /\ UNCHANGED <<inbound, key, expired>>
      /\ UNCHANGED <<queue, batch, ran>>
            \/ (UNCHANGED <<batch, ran>> /\ queue' = Append(queue, c))
  OBVIOUS
<1>7. QED
  BY <1>1, <1>2, <1>3, <1>4, <1>5, <1>6, CallMoves

\* record_rejected answers what the key holds, when it reads it again.
LEMMA InvReread ==
    ASSUME IInv, NEW c \in Calls, Reread(c)
    PROVE  IInv'
<1> USE DEF Reread, Answers, logVars, producer, bounded
<1>1. /\ DOMAIN pc = Calls /\ DOMAIN result = Calls /\ DOMAIN ask = Calls
      /\ pc[c] = "rereading" /\ KeyOfCall(c) \in Keys
      /\ key \in [Keys -> {"none", "accepted", "rejected"}]
  BY DEF IInv, CallInv
<1>2. KeyOfCall(c)' = KeyOfCall(c)
  BY DEF KeyOfCall, OrderKey
<1>3. /\ DOMAIN pc' = Calls /\ DOMAIN result' = Calls
      /\ \A d \in Calls \ {c} : pc'[d] = pc[d] /\ result'[d] = result[d]
      /\ pc'[c] = "done"
      /\ result'[c] = IF key[KeyOfCall(c)] = "none" THEN "rejected" ELSE key[KeyOfCall(c)]
  BY <1>1
<1>4. expired[KeyOfCall(c)] = 0 => key[KeyOfCall(c)] # "none"
  BY <1>1 DEF IInv, TruthInv
<1>5. ask' = ask /\ UNCHANGED <<inbound, key, expired, queue, batch, ran>>
  OBVIOUS
<1>6. QED
  BY <1>1, <1>2, <1>3, <1>4, <1>5, CallMoves

\* A resolved call tells its client what its future holds.
LEMMA InvFinish ==
    ASSUME IInv, NEW c \in Calls, Finish(c)
    PROVE  IInv'
<1> USE DEF Finish, Answers, logVars, producer, bounded
<1>1. /\ DOMAIN pc = Calls /\ DOMAIN result = Calls /\ DOMAIN ask = Calls
      /\ pc[c] = "resolved" /\ KeyOfCall(c) \in Keys
  BY DEF IInv, CallInv
<1>2. KeyOfCall(c)' = KeyOfCall(c)
  BY DEF KeyOfCall, OrderKey
<1>3. /\ DOMAIN pc' = Calls /\ DOMAIN result' = Calls
      /\ \A d \in Calls \ {c} : pc'[d] = pc[d] /\ result'[d] = result[d]
      /\ pc'[c] = "done"
      /\ result'[c] = IF result[c] = "appended" THEN "accepted" ELSE result[c]
  BY <1>1
<1>4. expired[KeyOfCall(c)] = 0 =>
         /\ result[c] \in {"appended", "accepted"} => key[KeyOfCall(c)] = "accepted"
         /\ result[c] = "rejected" => key[KeyOfCall(c)] = "rejected"
  BY <1>1 DEF IInv, TruthInv
<1>5. ask' = ask /\ UNCHANGED <<inbound, key, expired, queue, batch, ran>>
  OBVIOUS
<1>6. QED
  BY <1>1, <1>2, <1>3, <1>4, <1>5, CallMoves

\* A refusal is written under a key that had no outcome, which no one was told of.
LEMMA InvRecordRejected ==
    ASSUME IInv, NEW c \in Calls, RecordRejected(c)
    PROVE  IInv'
<1> USE DEF RecordRejected, Goes, Answers, logVars, producer, bounded
<1> DEFINE k == KeyOfCall(c)
<1>1. /\ DOMAIN pc = Calls /\ DOMAIN result = Calls /\ DOMAIN ask = Calls
      /\ pc[c] = "rejecting" /\ k \in Keys
      /\ key \in [Keys -> {"none", "accepted", "rejected"}]
  BY DEF IInv, CallInv
<1>2. \A d \in Calls : KeyOfCall(d)' = KeyOfCall(d)
  BY DEF KeyOfCall, OrderKey
<1>3. CASE key[k] = "none"
  <2>1. /\ key' = [key EXCEPT ![k] = "rejected"]
        /\ pc' = [pc EXCEPT ![c] = "done"] /\ result' = [result EXCEPT ![c] = "rejected"]
        /\ UNCHANGED <<inbound, expired, ask, queue, batch, ran>>
    BY <1>3
  <2>2. StreamInv' /\ ProducerInv'
    <3>1. \A d : d \in Calls /\ pc[d] # "idle" => pc'[d] # "idle"
      BY <1>1, <2>1
    <3>2. /\ \A i \in 1..Len(queue) : queue[i] \in Calls
          /\ \A i \in 1..Len(batch) : batch[i] \in Calls
      BY DEF IInv, ProducerInv
    <3>3. QED
      BY <2>1, <3>1, <3>2 DEF IInv, StreamInv, ProducerInv
  <2>3. CallInv'
    BY <1>1, <1>2, <2>1 DEF IInv, CallInv
  <2>4. ClaimInv'
    <3>1. \A h \in Keys : Appended(h)' = Appended(h) /\ Remembered(h)' = Remembered(h)
                          /\ (key'[h] = "accepted" => key[h] = "accepted")
      BY <1>1, <1>3, <2>1 DEF Appended, Remembered
    <3>2. QED
      BY <2>1, <3>1 DEF IInv, ClaimInv
  <2>5. TruthInv'
    <3> SUFFICES ASSUME NEW d \in Calls, pc'[d] # "idle", expired'[KeyOfCall(d)'] = 0
                 PROVE
          /\ result'[d] \in {"appended", "accepted"} => key'[KeyOfCall(d)'] = "accepted"
          /\ result'[d] = "rejected" => key'[KeyOfCall(d)'] = "rejected"
          /\ pc'[d] = "rereading" => key'[KeyOfCall(d)'] # "none"
      BY DEF TruthInv
    <3>1. CASE d = c
      BY <1>1, <1>2, <2>1, <3>1
    <3>2. CASE d # c
      BY <1>1, <1>2, <1>3, <2>1, <3>2 DEF IInv, CallInv, TruthInv
    <3>3. QED
      BY <3>1, <3>2
  <2>6. QED
    BY <2>2, <2>3, <2>4, <2>5 DEF IInv
<1>4. CASE key[k] # "none"
  <2>1. /\ pc' = [pc EXCEPT ![c] = "rereading"]
        /\ UNCHANGED <<inbound, key, expired, ask, result, queue, batch, ran>>
    BY <1>4
  <2>2. /\ DOMAIN pc' = Calls /\ DOMAIN result' = Calls
        /\ \A d \in Calls \ {c} : pc'[d] = pc[d] /\ result'[d] = result[d]
        /\ pc'[c] = "rereading" /\ result'[c] = result[c]
    BY <1>1, <2>1
  <2>3. expired[k] = 0 =>
           /\ result[c] \in {"appended", "accepted"} => key[k] = "accepted"
           /\ result[c] = "rejected" => key[k] = "rejected"
    BY <1>1 DEF IInv, TruthInv
  <2>4. QED
    BY <1>1, <1>2, <1>4, <2>1, <2>2, <2>3, CallMoves
<1>5. QED
  BY <1>3, <1>4

-----------------------------------------------------------------------------
(* The steps of the producer. *)

\* Calls that are ended from outside are told nothing their key would deny.
LEMMA CallsEnd ==
    ASSUME IInv, UNCHANGED <<inbound, key, expired, ask>>,
           DOMAIN pc' = Calls, DOMAIN result' = Calls,
           \A c \in Calls : /\ pc'[c] \in {pc[c], "resolved", "done"}
                            /\ result'[c] \in {result[c], "halted", "lost"}
                            /\ pc[c] = "idle" => pc'[c] = "idle" /\ result'[c] = result[c]
    PROVE  /\ StreamInv' /\ ClaimInv' /\ CallInv' /\ TruthInv'
           /\ \A c \in Calls : pc[c] # "idle" => pc'[c] # "idle"
<1>1. StreamInv' /\ ClaimInv'
  BY ClaimKept DEF IInv
<1>2. \A c \in Calls : KeyOfCall(c)' = KeyOfCall(c)
  BY DEF KeyOfCall, OrderKey
<1>3. \A c \in Calls : pc[c] # "idle" => pc'[c] # "idle"
  OBVIOUS
<1>4. CallInv'
  BY <1>2 DEF IInv, CallInv
<1>5. TruthInv'
  BY <1>2 DEF IInv, TruthInv
<1>6. QED
  BY <1>1, <1>3, <1>4, <1>5

\* Nothing the invariant speaks of has changed.
LEMMA InvQuiet ==
    ASSUME IInv, UNCHANGED <<inbound, key, expired, calls, producer>>
    PROVE  IInv'
BY DEF IInv, StreamInv, ProducerInv, CallInv, ClaimInv, TruthInv, calls, producer,
       Appended, Remembered, KeyOfCall

\* What is flushed next are calls that were queued.
LEMMA InvTakeBatch ==
    ASSUME IInv, TakeBatch
    PROVE  IInv'
<1> DEFINE n == IF Len(queue) < BatchMax THEN Len(queue) ELSE BatchMax
<1>1. /\ batch' = SubSeq(queue, 1, n) /\ queue' = SubSeq(queue, n + 1, Len(queue))
      /\ ran' = 0 /\ UNCHANGED <<inbound, key, expired, ask, pc, result>>
  BY DEF TakeBatch, logVars, calls, bounded
<1>2. /\ queue \in Seq(Calls) /\ Len(queue) \in Nat /\ n \in 0..Len(queue)
      /\ \A i \in 1..Len(queue) : queue[i] \in Calls /\ pc[queue[i]] # "idle"
      /\ DOMAIN pc = Calls /\ DOMAIN result = Calls
  BY BatchMaxPos DEF IInv, ProducerInv, CallInv
<1>3. /\ batch' \in Seq(Calls) /\ Len(batch') = n
      /\ \A i \in 1..n : batch'[i] = queue[i]
  BY <1>1, <1>2
<1>4. /\ queue' \in Seq(Calls) /\ Len(queue') = Len(queue) - n
      /\ \A i \in 1..(Len(queue) - n) : queue'[i] = queue[n + i]
  BY <1>1, <1>2
<1>5. ProducerInv'
  <2>1. \A i \in 1..Len(batch') : pc'[batch'[i]] # "idle"
    BY <1>1, <1>2, <1>3
  <2>2. \A i \in 1..Len(queue') : pc'[queue'[i]] # "idle"
    BY <1>1, <1>2, <1>4
  <2>3. QED
    BY <1>1, <1>3, <1>4, <2>1, <2>2 DEF ProducerInv
<1>6. StreamInv' /\ ClaimInv' /\ CallInv' /\ TruthInv'
  BY <1>1, <1>2, CallsEnd
<1>7. QED
  BY <1>5, <1>6 DEF IInv

\* A reply, or the loss of one, resolves the calls of the batch and no other.
LEMMA InvFlushed ==
    ASSUME IInv, Flushed \/ FlushBreaks
    PROVE  IInv'
<1> USE DEF Flushed, FlushBreaks, logVars, bounded
<1>1. /\ DOMAIN pc = Calls /\ DOMAIN result = Calls
      /\ queue \in Seq(Calls) /\ batch \in Seq(Calls) /\ ran \in Nat
      /\ \A i \in 1..Len(queue) : queue[i] \in Calls /\ pc[queue[i]] # "idle"
      /\ \A i \in 1..Len(batch) : pc[batch[i]] # "idle"
  BY DEF IInv, ProducerInv, CallInv
<1>2. \A c \in Range(batch) : pc[c] # "idle"
  BY <1>1 DEF Range
<1>3. /\ batch' = <<>> /\ UNCHANGED <<inbound, key, expired, ask, queue, ran>>
      /\ pc' = [c \in Calls |-> IF c \in Range(batch) THEN "resolved" ELSE pc[c]]
      /\ \/ result' = result
         \/ result' = [c \in Calls |-> IF c \in Range(batch) THEN "halted" ELSE result[c]]
  BY DEF Resolved
<1>4. /\ StreamInv' /\ ClaimInv' /\ CallInv' /\ TruthInv'
      /\ \A c \in Calls : pc[c] # "idle" => pc'[c] # "idle"
  <2>1. /\ DOMAIN pc' = Calls /\ DOMAIN result' = Calls
        /\ \A c \in Calls :
              /\ pc'[c] \in {pc[c], "resolved", "done"}
              /\ result'[c] \in {result[c], "halted", "lost"}
              /\ pc[c] = "idle" => pc'[c] = "idle" /\ result'[c] = result[c]
    BY <1>1, <1>2, <1>3
  <2>2. UNCHANGED <<inbound, key, expired, ask>>
    BY <1>3
  <2>3. QED
    BY <2>1, <2>2, CallsEnd
<1>5. ProducerInv'
  <2>1. <<>> \in Seq(Calls) /\ Len(<<>>) = 0
    BY EmptySeq
  <2>2. QED
    BY <1>1, <1>3, <1>4, <2>1 DEF ProducerInv
<1>6. QED
  BY <1>4, <1>5 DEF IInv

\* A call that dies with the gateway is told nothing.
LEMMA InvRestart ==
    ASSUME IInv, Restart
    PROVE  IInv'
<1>1. /\ queue' = <<>> /\ batch' = <<>> /\ ran' = 0
      /\ pc' = [c \in Calls |-> IF c \in InFlight THEN "done" ELSE pc[c]]
      /\ result' = [c \in Calls |-> IF c \in InFlight THEN "lost" ELSE result[c]]
      /\ UNCHANGED <<inbound, key, expired, ask>>
  BY DEF Restart, logVars
<1>2. /\ DOMAIN pc' = Calls /\ DOMAIN result' = Calls
      /\ \A c \in Calls : /\ pc'[c] \in {pc[c], "resolved", "done"}
                          /\ result'[c] \in {result[c], "halted", "lost"}
                          /\ pc[c] = "idle" => pc'[c] = "idle" /\ result'[c] = result[c]
  BY <1>1 DEF InFlight
<1>3. StreamInv' /\ ClaimInv' /\ CallInv' /\ TruthInv'
  BY <1>1, <1>2, CallsEnd
<1>4. ProducerInv'
  <2>1. <<>> \in Seq(Calls) /\ Len(<<>>) = 0
    BY EmptySeq
  <2>2. QED
    BY <1>1, <2>1 DEF ProducerInv
<1>5. QED
  BY <1>3, <1>4 DEF IInv

\* An expired key promises nothing any more, and allows one order more.
LEMMA InvExpire ==
    ASSUME IInv, NEW k \in Keys, Expire(k)
    PROVE  IInv'
<1>1. /\ key' = [key EXCEPT ![k] = "none"] /\ expired' = [expired EXCEPT ![k] = @ + 1]
      /\ UNCHANGED <<inbound, pc, ask, result, queue, batch, ran>>
  BY DEF Expire, logVars, calls, producer
<1>2. /\ key \in [Keys -> {"none", "accepted", "rejected"}] /\ expired \in [Keys -> Nat]
  BY DEF IInv, CallInv
<1>3. /\ expired' \in [Keys -> Nat] /\ expired'[k] = expired[k] + 1
      /\ \A h \in Keys \ {k} : key'[h] = key[h] /\ expired'[h] = expired[h]
      /\ key'[k] = "none" /\ key' \in [Keys -> {"none", "accepted", "rejected"}]
  BY <1>1, <1>2
<1>4. StreamInv' /\ ProducerInv'
  BY <1>1 DEF IInv, StreamInv, ProducerInv
<1>5. \A c \in Calls : KeyOfCall(c)' = KeyOfCall(c)
  BY <1>1 DEF KeyOfCall, OrderKey
<1>6. CallInv'
  BY <1>1, <1>3, <1>5 DEF IInv, CallInv
<1>7. ClaimInv'
  <2> SUFFICES ASSUME NEW h \in Keys
               PROVE  /\ IsFiniteSet(Appended(h)')
                      /\ Cardinality(Appended(h)') <= expired'[h] + Remembered(h)'
                      /\ key'[h] = "accepted" => Appended(h)' # {}
    BY DEF ClaimInv
  <2>1. Appended(h)' = Appended(h)
    BY <1>1 DEF Appended
  <2>2. /\ IsFiniteSet(Appended(h)) /\ Cardinality(Appended(h)) \in Nat
        /\ Cardinality(Appended(h)) <= expired[h] + Remembered(h)
        /\ key[h] = "accepted" => Appended(h) # {}
    BY FS_CardinalityType DEF IInv, ClaimInv
  <2>3. expired[h] + Remembered(h) <= expired'[h] + Remembered(h)'
    BY <1>2, <1>3 DEF Remembered
  <2>4. Remembered(h) \in Nat /\ Remembered(h)' \in Nat /\ expired[h] \in Nat
        /\ expired'[h] \in Nat
    BY <1>2, <1>3 DEF Remembered
  <2>5. Cardinality(Appended(h)) <= expired'[h] + Remembered(h)'
    BY <2>2, <2>3, <2>4
  <2>6. key'[h] = "accepted" => key[h] = "accepted"
    BY <1>3
  <2>7. QED
    BY <2>1, <2>2, <2>5, <2>6
<1>8. TruthInv'
  <2> SUFFICES ASSUME NEW d \in Calls, pc'[d] # "idle", expired'[KeyOfCall(d)'] = 0
               PROVE
        /\ result'[d] \in {"appended", "accepted"} => key'[KeyOfCall(d)'] = "accepted"
        /\ result'[d] = "rejected" => key'[KeyOfCall(d)'] = "rejected"
        /\ pc'[d] = "rereading" => key'[KeyOfCall(d)'] # "none"
    BY DEF TruthInv
  <2>1. KeyOfCall(d) \in Keys /\ KeyOfCall(d) # k
    BY <1>1, <1>2, <1>3, <1>5 DEF IInv, CallInv
  <2>2. QED
    BY <1>1, <1>3, <1>5, <2>1 DEF IInv, TruthInv
<1>9. QED
  BY <1>4, <1>6, <1>7, <1>8 DEF IInv

\* The script appends under a key without an outcome, and claims it in one step.
LEMMA InvClaimAndAppend ==
    ASSUME IInv, ClaimAndAppend
    PROVE  IInv'
<1> DEFINE c == batch[ran + 1]
           k == KeyOfCall(c)
<1>1. /\ ran \in Nat /\ c \in Calls /\ pc[c] # "idle" /\ k \in Keys
      /\ DOMAIN result = Calls /\ key \in [Keys -> {"none", "accepted", "rejected"}]
      /\ expired \in [Keys -> Nat]
  BY DEF ClaimAndAppend, IInv, ProducerInv, CallInv
<1>2. /\ ran' = ran + 1
      /\ UNCHANGED <<pc, ask, queue, batch, expired>>
      /\ \/ /\ key[k] = "none" /\ inbound' = Append(inbound, ask[c])
            /\ key' = [key EXCEPT ![k] = "accepted"]
            /\ result' = [result EXCEPT ![c] = "appended"]
         \/ /\ key[k] # "none" /\ UNCHANGED <<inbound, key>>
            /\ result' = [result EXCEPT ![c] = key[k]]
  BY DEF ClaimAndAppend, Receive, logVars, bounded
<1>3. \A d \in Calls : KeyOfCall(d)' = KeyOfCall(d)
  BY <1>2 DEF KeyOfCall, OrderKey
<1>4. ProducerInv'
  BY <1>1, <1>2 DEF IInv, ProducerInv
<1>5. CallInv'
  <2>1. DOMAIN result' = Calls /\ \A d \in Calls \ {c} : result'[d] = result[d]
    BY <1>1, <1>2
  <2>2. key' \in [Keys -> {"none", "accepted", "rejected"}]
    BY <1>1, <1>2
  <2>3. QED
    BY <1>1, <1>2, <1>3, <2>1, <2>2 DEF IInv, CallInv
<1>6. CASE key[k] = "none"
  <2>1. /\ inbound' = Append(inbound, ask[c])
        /\ key' = [key EXCEPT ![k] = "accepted"]
        /\ result' = [result EXCEPT ![c] = "appended"]
    BY <1>2, <1>6
  <2>2. PICK S : inbound \in Seq(S)
    BY DEF IInv, StreamInv
  <2>3. ASSUME NEW h \in Keys
        PROVE  /\ StreamInv'
               /\ Appended(h)' = IF h = k THEN Appended(h) \union {Len(inbound) + 1}
                                          ELSE Appended(h)
               /\ Len(inbound) + 1 \notin Appended(h)
    BY <2>1, <2>2, AppendedGrows DEF KeyOfCall
  <2>4. ClaimInv'
    <3> SUFFICES ASSUME NEW h \in Keys
                 PROVE  /\ IsFiniteSet(Appended(h)')
                        /\ Cardinality(Appended(h)') <= expired'[h] + Remembered(h)'
                        /\ key'[h] = "accepted" => Appended(h)' # {}
      BY DEF ClaimInv
    <3>1. /\ IsFiniteSet(Appended(h)) /\ Cardinality(Appended(h)) \in Nat
          /\ Cardinality(Appended(h)) <= expired[h] + Remembered(h)
          /\ key[h] = "accepted" => Appended(h) # {}
      BY FS_CardinalityType DEF IInv, ClaimInv
    <3>2. CASE h = k
      <4>1. /\ IsFiniteSet(Appended(h)')
            /\ Cardinality(Appended(h)') = Cardinality(Appended(h)) + 1
        BY <2>3, <3>1, <3>2, FS_AddElement
      <4>2. Remembered(h) = 0 /\ Remembered(h)' = 1 /\ expired'[h] = expired[h]
            /\ expired[h] \in Nat
        BY <1>1, <1>2, <1>6, <2>1, <3>2 DEF Remembered
      <4>3. Appended(h)' # {}
        BY <2>3, <3>2
      <4>4. QED
        BY <3>1, <4>1, <4>2, <4>3
    <3>3. CASE h # k
      <4>1. key'[h] = key[h] /\ expired'[h] = expired[h] /\ Remembered(h)' = Remembered(h)
        BY <1>1, <1>2, <2>1, <3>3 DEF Remembered
      <4>2. QED
        BY <2>3, <3>1, <3>3, <4>1
    <3>4. QED
      BY <3>2, <3>3
  <2>5. TruthInv'
    <3> SUFFICES ASSUME NEW d \in Calls, pc'[d] # "idle", expired'[KeyOfCall(d)'] = 0
                 PROVE
          /\ result'[d] \in {"appended", "accepted"} => key'[KeyOfCall(d)'] = "accepted"
          /\ result'[d] = "rejected" => key'[KeyOfCall(d)'] = "rejected"
          /\ pc'[d] = "rereading" => key'[KeyOfCall(d)'] # "none"
      BY DEF TruthInv
    <3>1. CASE d = c
      BY <1>1, <1>2, <1>3, <2>1, <3>1
    <3>2. CASE d # c
      BY <1>1, <1>2, <1>3, <1>6, <2>1, <3>2 DEF IInv, CallInv, TruthInv
    <3>3. QED
      BY <3>1, <3>2
  <2>6. QED
    BY <1>1, <1>4, <1>5, <2>3, <2>4, <2>5 DEF IInv
<1>7. CASE key[k] # "none"
  <2>1. UNCHANGED <<inbound, key, expired>> /\ result' = [result EXCEPT ![c] = key[k]]
    BY <1>2, <1>7
  <2>2. StreamInv' /\ ClaimInv'
    BY <2>1, ClaimKept DEF IInv
  <2>3. TruthInv'
    <3> SUFFICES ASSUME NEW d \in Calls, pc'[d] # "idle", expired'[KeyOfCall(d)'] = 0
                 PROVE
          /\ result'[d] \in {"appended", "accepted"} => key'[KeyOfCall(d)'] = "accepted"
          /\ result'[d] = "rejected" => key'[KeyOfCall(d)'] = "rejected"
          /\ pc'[d] = "rereading" => key'[KeyOfCall(d)'] # "none"
      BY DEF TruthInv
    <3>1. CASE d = c
      <4>1. result'[d] = key[k] /\ KeyOfCall(d)' = k /\ key' = key
            /\ key[k] \in {"accepted", "rejected"}
        BY <1>1, <1>3, <1>7, <2>1, <3>1
      <4>2. QED
        BY <1>7, <4>1
    <3>2. CASE d # c
      BY <1>1, <1>2, <1>3, <2>1, <3>2 DEF IInv, TruthInv
    <3>3. QED
      BY <3>1, <3>2
  <2>4. QED
    BY <1>4, <1>5, <2>2, <2>3 DEF IInv
<1>8. QED
  BY <1>6, <1>7

-----------------------------------------------------------------------------
\* Every step of the gateway, of Redis and of the exchange keeps the invariant.
LEMMA InvStep ==
    ASSUME IInv, [Next]_vars
    PROVE  IInv'
<1>1. ASSUME NEW c \in Calls, NEW a \in Asks, Lookup(c, a)
      PROVE  IInv'
  BY <1>1, InvLookup
<1>2. ASSUME NEW c \in Calls, Proceed(c)
      PROVE  IInv'
  BY <1>2, InvDecide, InvRecordRejected, InvReread, InvFinish DEF Proceed
<1>3. CASE Produce \/ FlushBreaks
  BY <1>3, InvTakeBatch, InvClaimAndAppend, InvFlushed DEF Produce
<1>4. CASE Match
  <2>1. UNCHANGED <<inbound, key, expired, calls, producer>>
    BY <1>4 DEF Match, Answer, history, bounded
  <2>2. QED
    BY <2>1, InvQuiet
<1>5. CASE Watch \/ SaveCheckpoint
  <2>1. UNCHANGED <<inbound, key, expired, calls, producer>>
    BY <1>5 DEF Watch, SaveCheckpoint, logVars, bounded
  <2>2. QED
    BY <2>1, InvQuiet
<1>6. CASE Restart
  BY <1>6, InvRestart
<1>7. ASSUME NEW k \in Keys, Expire(k)
      PROVE  IInv'
  BY <1>7, InvExpire
<1>8. CASE UNCHANGED vars
  <2>1. UNCHANGED <<inbound, key, expired, calls, producer>>
    BY <1>8 DEF vars, logVars, bounded
  <2>2. QED
    BY <2>1, InvQuiet
<1>9. QED
  BY <1>1, <1>2, <1>3, <1>4, <1>5, <1>6, <1>7, <1>8 DEF Next

\* The strengthening of the two properties below: a key is claimed with its
\* append, and what a call was told is what its key holds.
THEOREM KeysAreTruthful == Spec => []IInv
<1>1. Init => IInv
  BY InvInit
<1>2. IInv /\ [Next]_vars => IInv'
  BY InvStep
<1>3. QED
  BY <1>1, <1>2, PTL DEF Spec

\* However often a client retries, and whatever replies are lost or gateways die,
\* the stream holds one order per client order id while the id is remembered.
THEOREM SubmittedAtMostOnce == Spec => []AppendedOnce
<1>1. IInv => AppendedOnce
  <2> SUFFICES ASSUME IInv, NEW k \in Keys
               PROVE  Cardinality(Appended(k)) <= 1 + expired[k]
    BY DEF AppendedOnce
  <2>1. /\ Cardinality(Appended(k)) \in Nat
        /\ Cardinality(Appended(k)) <= expired[k] + Remembered(k)
    BY FS_CardinalityType DEF IInv, ClaimInv
  <2>2. expired[k] \in Nat /\ Remembered(k) \in {0, 1}
    BY DEF IInv, CallInv, Remembered
  <2>3. QED
    BY <2>1, <2>2
<1>2. QED
  BY <1>1, KeysAreTruthful, PTL

\* Who was told `accepted' has an order on the stream; who was told `rejected'
\* has none, and no retry of his can have made one.
THEOREM OutcomesAreTrue == Spec => []AnswersAreTrue
<1>1. IInv => AnswersAreTrue
  <2> SUFFICES ASSUME IInv, NEW c \in Calls, pc[c] = "done", expired[KeyOfCall(c)] = 0
               PROVE  /\ result[c] = "accepted" => Appended(KeyOfCall(c)) # {}
                      /\ result[c] = "rejected" => Appended(KeyOfCall(c)) = {}
    BY DEF AnswersAreTrue
  <2> DEFINE k == KeyOfCall(c)
  <2>1. /\ k \in Keys
        /\ result[c] = "accepted" => key[k] = "accepted"
        /\ result[c] = "rejected" => key[k] = "rejected"
    BY DEF IInv, CallInv, TruthInv
  <2>2. CASE result[c] = "accepted"
    BY <2>1, <2>2 DEF IInv, ClaimInv
  <2>3. CASE result[c] = "rejected"
    <3>1. IsFiniteSet(Appended(k)) /\ Cardinality(Appended(k)) \in Nat
          /\ Cardinality(Appended(k)) <= 0
      BY <2>1, <2>3, FS_CardinalityType DEF IInv, ClaimInv, Remembered
    <3>2. QED
      BY <2>3, <3>1, FS_EmptySet
  <2>4. QED
    BY <2>2, <2>3
<1>2. QED
  BY <1>1, KeysAreTruthful, PTL

-----------------------------------------------------------------------------
(***************************************************************************)
(* The commitments.  Somebody who sends no order and applies the stream    *)
(* from genesis has the risk state Told(ideal, n) after n records.  The    *)
(* gateway applies the same records between the steps of its own calls;    *)
(* what it knows of the open orders is the same (Alike), and what it has   *)
(* set aside besides is what its pending orders commit (Exact).            *)
(***************************************************************************)
Sums == INSTANCE FoldFacts WITH Op <- Observe
Tables == INSTANCE FoldFacts WITH Op <- NextRows

LEMMA Finite == ASSUME NEW S PROVE Sums!IsFiniteSet(S) <=> IsFiniteSet(S)
  BY DEF Sums!IsFiniteSet, IsFiniteSet

\* A table of reservations, by whatever names them, and what it commits.
IsOrder(o) ==
    /\ o = [user |-> o.user, coid |-> o.coid, sym |-> o.sym,
            side |-> o.side, price |-> o.price, qty |-> o.qty]
    /\ o.user \in Users /\ o.sym \in Symbols /\ o.side \in Sides
    /\ o.price \in Nat \ {0} /\ o.qty \in Nat \ {0}

IsTable(T) == IsFiniteSet(DOMAIN T) /\ \A i \in DOMAIN T : IsOrder(T[i])

Owed(T, i, x) == IF i \in DOMAIN T /\ Resource(T[i]) = x THEN Cost(T[i], T[i].qty) ELSE 0

Commits(T, x) == Sums!SumOver([i \in DOMAIN T |-> Owed(T, i, x)], DOMAIN T)

\* What one unit of an order commits.
UnitCost(o) == IF o.side = "BUY" THEN o.price - ((-(o.price * TakerFeeBps)) \div BpsDenominator)
                                 ELSE 1

LEMMA CostIsLinear ==
    ASSUME NEW o, o.price \in Nat \ {0}
    PROVE  /\ UnitCost(o) \in Nat \ {0}
           /\ \A q \in Int : Cost(o, q) = q * UnitCost(o)
<1>1. ASSUME NEW p \in Nat \ {0}
      PROVE  p - ((-(p * 10)) \div 10000) \in Nat \ {0}
  OBVIOUS
<1>2. UnitCost(o) \in Nat \ {0}
  BY <1>1 DEF UnitCost, TakerFeeBps, BpsDenominator
<1>3. \A q \in Int : q * 1 = q
  OBVIOUS
<1>4. QED
  BY <1>2, <1>3 DEF UnitCost, Cost, BuyCost

LEMMA Products ==
    ASSUME NEW u \in Nat
    PROVE  /\ \A q \in Nat : q * u \in Nat
           /\ \A a \in Int : \A b \in Int : (a - b) * u = a * u - b * u /\ a * u \in Int
  OBVIOUS

LEMMA CostOf ==
    ASSUME NEW o, IsOrder(o)
    PROVE  /\ \A q \in Nat : Cost(o, q) \in Nat
           /\ \A a \in Int : \A b \in Int : Cost(o, a - b) = Cost(o, a) - Cost(o, b)
           /\ Resource(o) \in Resources
<1> DEFINE u == UnitCost(o)
<1>1. u \in Nat /\ \A q \in Int : Cost(o, q) = q * u
  BY CostIsLinear DEF IsOrder
<1>2. Resource(o) \in Resources
  BY DEF IsOrder, Resource, Resources
<1> HIDE DEF u
<1>3. \A q \in Nat : q * u \in Nat
  BY <1>1, Products
<1>4. ASSUME NEW a \in Int, NEW b \in Int
      PROVE  Cost(o, a - b) = Cost(o, a) - Cost(o, b)
  <2>1. a - b \in Int /\ (a - b) * u = a * u - b * u
    BY <1>1, Products
  <2>2. QED
    BY <1>1, <2>1
<1>5. QED
  BY <1>1, <1>2, <1>3, <1>4

\* What a table commits is what each of its orders owes, no order more than that.
LEMMA CommitsAreNat ==
    ASSUME NEW T, IsTable(T), NEW x
    PROVE  /\ \A i : Owed(T, i, x) \in Nat
           /\ Commits(T, x) \in Nat
           /\ \A i : Owed(T, i, x) <= Commits(T, x)
<1> DEFINE f == [i \in DOMAIN T |-> Owed(T, i, x)]
<1>1. ASSUME NEW i PROVE Owed(T, i, x) \in Nat
  BY CostOf DEF Owed, IsTable, IsOrder
<1>2. \A i \in DOMAIN T : f[i] \in Nat
  BY <1>1
<1>3. Commits(T, x) \in Nat /\ \A i \in DOMAIN T : f[i] <= Commits(T, x)
  <2>1. Sums!IsFiniteSet(DOMAIN T)
    BY Finite DEF IsTable
  <2> HIDE DEF f
  <2>2. Sums!SumOver(f, DOMAIN T) \in Nat
        /\ \A i \in DOMAIN T : f[i] <= Sums!SumOver(f, DOMAIN T)
    BY <1>2, <2>1, Sums!SumOfNat
  <2>3. QED
    BY <2>2 DEF Commits, f
<1>4. ASSUME NEW i PROVE Owed(T, i, x) <= Commits(T, x)
  <2>1. CASE i \in DOMAIN T
    <3>1. f[i] = Owed(T, i, x)
      BY <2>1
    <3>2. QED
      BY <1>3, <2>1, <3>1
  <2>2. CASE i \notin DOMAIN T
    BY <1>3, <2>2 DEF Owed
  <2>3. QED
    BY <2>1, <2>2
<1>5. QED
  BY <1>1, <1>3, <1>4

\* Tables that differ at one entry commit the difference.
SameBut(T, U, i) == /\ DOMAIN U \ {i} = DOMAIN T \ {i}
                    /\ \A j \in DOMAIN T \ {i} : U[j] = T[j]

LEMMA CommitsStep ==
    ASSUME NEW T, IsTable(T), NEW U, IsTable(U), NEW i, SameBut(T, U, i), NEW x
    PROVE  Commits(U, x) = Commits(T, x) - Owed(T, i, x) + Owed(U, i, x)
<1> DEFINE f == [j \in DOMAIN T |-> Owed(T, j, x)]
           g == [j \in DOMAIN U |-> Owed(U, j, x)]
           D == DOMAIN T \ {i}
<1>1. /\ \A j \in DOMAIN T : f[j] \in Int
      /\ \A j \in DOMAIN U : g[j] \in Int
  BY CommitsAreNat
<1>2. /\ Sums!IsFiniteSet(DOMAIN T) /\ Sums!IsFiniteSet(DOMAIN U) /\ Sums!IsFiniteSet(D)
  BY Finite, FS_Subset DEF IsTable
<1>3. /\ D \subseteq DOMAIN T /\ D = DOMAIN U \ {i}
      /\ \A j \in D : g[j] = f[j]
  BY DEF SameBut, Owed
<1>4. Sums!SumOver(f, D) = Sums!SumOver(g, D)
  <2>1. \A j \in D : g[j] \in Int
    BY <1>1, <1>3
  <2> HIDE DEF f, g, D
  <2>2. D \in SUBSET D /\ \A j \in D \ D : g[j] = 0
    OBVIOUS
  <2>3. QED
    BY <1>2, <1>3, <2>1, <2>2, Sums!SumOfSame
<1>5. Sums!SumOver(f, D) \in Int
  <2>1. \A j \in D : f[j] \in Int
    BY <1>1, <1>3
  <2> HIDE DEF f, D
  <2>2. QED
    BY <1>2, <2>1, Sums!SumSteps
<1>6. Commits(T, x) = Owed(T, i, x) + Sums!SumOver(f, D)
  <2>1. CASE i \in DOMAIN T
    <3>1. f[i] = Owed(T, i, x)
      BY <2>1
    <3> HIDE DEF f
    <3>2. Sums!SumOver(f, DOMAIN T) = f[i] + Sums!SumOver(f, D)
      BY <1>1, <1>2, <2>1, Sums!SumSteps
    <3>3. QED
      BY <3>1, <3>2 DEF Commits, f
  <2>2. CASE i \notin DOMAIN T
    <3>1. D = DOMAIN T /\ Owed(T, i, x) = 0
      BY <2>2 DEF Owed
    <3>2. QED
      BY <1>5, <3>1 DEF Commits
  <2>3. QED
    BY <2>1, <2>2
<1>7. Commits(U, x) = Owed(U, i, x) + Sums!SumOver(g, D)
  <2>1. CASE i \in DOMAIN U
    <3>1. g[i] = Owed(U, i, x)
      BY <2>1
    <3> HIDE DEF g
    <3>2. Sums!SumOver(g, DOMAIN U) = g[i] + Sums!SumOver(g, DOMAIN U \ {i})
      BY <1>1, <1>2, <2>1, Sums!SumSteps
    <3>3. QED
      BY <1>3, <3>1, <3>2 DEF Commits, g
  <2>2. CASE i \notin DOMAIN U
    <3>1. D = DOMAIN U /\ Owed(U, i, x) = 0
      BY <1>3, <2>2 DEF Owed
    <3>2. QED
      BY <1>4, <1>5, <3>1 DEF Commits
  <2>3. QED
    BY <2>1, <2>2
<1>8. Owed(T, i, x) \in Int /\ Owed(U, i, x) \in Int
  BY CommitsAreNat
<1> HIDE DEF f, g, D
<1>9. QED
  BY <1>4, <1>5, <1>6, <1>7, <1>8

-----------------------------------------------------------------------------
(* A risk state that is well kept, and what each operation makes of it. *)

\* The orders in flight, each with its reservation.
Pend(k) == [h \in DOMAIN k.pending |-> k.pool[k.pending[h]]]

Fields == {"settled", "reserved", "pending", "open", "pool", "last"}

Shape(k) ==
    /\ DOMAIN k = Fields
    /\ k.settled \in [Resources -> Int] /\ k.reserved \in [Resources -> Int]
    /\ k.last \in Nat
    /\ IsTable(Rows(k)) /\ IsTable(Pend(k))

\* No two entries share a reservation.  One is named by its call, or by the id
\* of the order if the stream made it.
Separate(k) ==
    /\ \A h \in DOMAIN k.pending : /\ k.pending[h] \in Calls /\ k.pending[h] \in DOMAIN k.pool
                                   /\ OrderKey(k.pool[k.pending[h]]) = h
    /\ \A i \in DOMAIN k.open : /\ i \notin Calls /\ k.open[i] \in DOMAIN k.pool
                                /\ k.open[i] = i \/ k.open[i] \in Calls
    /\ \A i \in DOMAIN k.open : \A g \in DOMAIN k.open : k.open[i] = k.open[g] => i = g
    /\ \A i \in DOMAIN k.open : \A h \in DOMAIN k.pending : k.open[i] # k.pending[h]

ExactAt(k, x) == k.reserved[x] = Commits(Rows(k), x) + Commits(Pend(k), x)
Exact(k) == \A x \in Resources : ExactAt(k, x)

WellKept(k) == Shape(k) /\ Separate(k) /\ Exact(k)

\* What is set aside moves with what the tables owe.
LEMMA ExactStep ==
    ASSUME NEW k, WellKept(k), NEW j, IsTable(Rows(j)), IsTable(Pend(j)),
           NEW i, SameBut(Rows(k), Rows(j), i), NEW h, SameBut(Pend(k), Pend(j), h),
           NEW x \in Resources,
           j.reserved[x] = k.reserved[x] - Owed(Rows(k), i, x) + Owed(Rows(j), i, x)
                                         - Owed(Pend(k), h, x) + Owed(Pend(j), h, x)
    PROVE  ExactAt(j, x)
<1>1. IsTable(Rows(k)) /\ IsTable(Pend(k)) /\ k.reserved[x] = Commits(Rows(k), x) + Commits(Pend(k), x)
  BY DEF WellKept, Shape, Exact, ExactAt
<1>2. /\ Commits(Rows(j), x) = Commits(Rows(k), x) - Owed(Rows(k), i, x) + Owed(Rows(j), i, x)
      /\ Commits(Pend(j), x) = Commits(Pend(k), x) - Owed(Pend(k), h, x) + Owed(Pend(j), h, x)
  BY <1>1, CommitsStep
<1>3. /\ Commits(Rows(k), x) \in Int /\ Commits(Pend(k), x) \in Int
      /\ Owed(Rows(k), i, x) \in Int /\ Owed(Rows(j), i, x) \in Int
      /\ Owed(Pend(k), h, x) \in Int /\ Owed(Pend(j), h, x) \in Int
  BY <1>1, CommitsAreNat
<1>4. QED
  BY <1>1, <1>2, <1>3 DEF ExactAt

\* Nothing owes more than is set aside, so that giving back never stops at zero.
LEMMA OwedIsReserved ==
    ASSUME NEW k, WellKept(k), NEW x \in Resources
    PROVE  /\ k.reserved[x] \in Nat
           /\ \A i : Owed(Rows(k), i, x) \in Nat /\ Owed(Rows(k), i, x) <= k.reserved[x]
           /\ \A h : Owed(Pend(k), h, x) \in Nat /\ Owed(Pend(k), h, x) <= k.reserved[x]
<1>1. IsTable(Rows(k)) /\ IsTable(Pend(k)) /\ k.reserved[x] = Commits(Rows(k), x) + Commits(Pend(k), x)
  BY DEF WellKept, Shape, Exact, ExactAt
<1>2. Commits(Rows(k), x) \in Nat /\ Commits(Pend(k), x) \in Nat
  BY <1>1, CommitsAreNat
<1>3. /\ \A i : Owed(Rows(k), i, x) \in Nat /\ Owed(Rows(k), i, x) <= Commits(Rows(k), x)
      /\ \A h : Owed(Pend(k), h, x) \in Nat /\ Owed(Pend(k), h, x) <= Commits(Pend(k), x)
  BY <1>1, CommitsAreNat
<1>4. QED
  BY <1>1, <1>2, <1>3

\* The position moves alone.
Seen(k) == [k EXCEPT !.last = @ + 1]

LEMMA SeenIsWellKept ==
    ASSUME NEW k, WellKept(k)
    PROVE  /\ WellKept(Seen(k)) /\ Seen(k).last = k.last + 1
           /\ Seen(k).settled = k.settled /\ Seen(k).reserved = k.reserved
           /\ Seen(k).pending = k.pending /\ Seen(k).open = k.open /\ Seen(k).pool = k.pool
           /\ Rows(Seen(k)) = Rows(k) /\ Pend(Seen(k)) = Pend(k)
<1> DEFINE j == Seen(k)
<1>1. DOMAIN k = Fields /\ k.last \in Nat
  BY DEF WellKept, Shape
<1>2. /\ j.last = k.last + 1 /\ j.settled = k.settled /\ j.reserved = k.reserved
      /\ j.pending = k.pending /\ j.open = k.open /\ j.pool = k.pool
      /\ DOMAIN j = Fields
  BY <1>1 DEF Seen, Fields
<1>3. Rows(j) = Rows(k) /\ Pend(j) = Pend(k)
  BY <1>2 DEF Rows, Pend
<1>4. Shape(j)
  <2> HIDE DEF j
  <2>1. QED
    BY <1>1, <1>2, <1>3 DEF WellKept, Shape
<1>5. Separate(j) /\ Exact(j)
  <2> HIDE DEF j
  <2>1. QED
    BY <1>2, <1>3 DEF WellKept, Separate, Exact, ExactAt
<1>6. QED
  BY <1>2, <1>3, <1>4, <1>5 DEF WellKept

\* An order is decided: its reservation is a new entry of the orders in flight.
LEMMA Reserves ==
    ASSUME NEW k, WellKept(k), NEW r \in Calls, NEW o, IsOrder(Reservation(o)),
           OrderKey(o) \notin DOMAIN k.pending,
           \A h \in DOMAIN k.pending : k.pending[h] # r,
           \A i \in DOMAIN k.open : k.open[i] # r
    PROVE  LET j == Reserve(k, r, o)
           IN  /\ WellKept(j) /\ j.settled = k.settled /\ j.last = k.last
               /\ j.open = k.open /\ Rows(j) = Rows(k)
               /\ DOMAIN j.pending = DOMAIN k.pending \union {OrderKey(o)}
               /\ j.pending[OrderKey(o)] = r
               /\ \A h \in DOMAIN k.pending : j.pending[h] = k.pending[h]
               /\ j.pool[r] = Reservation(o) 
               /\ \A h \in DOMAIN k.pending : j.pool[k.pending[h]] = k.pool[k.pending[h]]
               /\ \A x \in Resources : j.reserved[x] = k.reserved[x] +
                     (IF x = Resource(o) THEN Cost(o, o.qty) ELSE 0)
<1> DEFINE j == Reserve(k, r, o)
           y == OrderKey(o)
           v == Reservation(o)
<1>0. /\ DOMAIN k = Fields
      /\ k.reserved \in [Resources -> Int] /\ k.last \in Nat
  BY DEF WellKept, Shape
<1>1. /\ v.user = o.user /\ v.coid = o.coid /\ v.sym = o.sym /\ v.side = o.side
      /\ v.price = o.price /\ v.qty = o.qty
  BY DEF Reservation
<1>2. Resource(v) = Resource(o) /\ Cost(v, v.qty) = Cost(o, o.qty) /\ OrderKey(v) = y
  BY <1>1 DEF Resource, Cost, OrderKey
<1>3. Resource(o) \in Resources /\ Cost(o, o.qty) \in Nat
  <2>1. v.qty \in Nat
    BY DEF IsOrder
  <2>2. Resource(v) \in Resources /\ Cost(v, v.qty) \in Nat
    BY <2>1, CostOf
  <2>3. QED
    BY <1>2, <2>2
<1>4. DOMAIN j = Fields
  BY <1>0 DEF Reserve, Fields
<1>5. /\ j.settled = k.settled /\ j.open = k.open /\ j.last = k.last
      /\ j.pending = With(k.pending, y, r) /\ j.pool = With(k.pool, r, v)
      /\ j.reserved = [k.reserved EXCEPT ![Resource(o)] = @ + Cost(o, o.qty)]
  BY <1>0 DEF Reserve, Fields
<1> HIDE DEF j, v
<1>6. /\ j.reserved \in [Resources -> Int]
      /\ \A x \in Resources : j.reserved[x] = k.reserved[x] +
            (IF x = Resource(o) THEN Cost(o, o.qty) ELSE 0)
  BY <1>0, <1>3, <1>5
<1>7. /\ DOMAIN j.pending = DOMAIN k.pending \union {y} /\ j.pending[y] = r
      /\ \A h \in DOMAIN k.pending : j.pending[h] = k.pending[h]
      /\ DOMAIN j.pool = DOMAIN k.pool \union {r} /\ j.pool[r] = v
      /\ \A q \in DOMAIN k.pool : q # r => j.pool[q] = k.pool[q]
  <2>1. /\ DOMAIN j.pending = DOMAIN k.pending \union {y} /\ j.pending[y] = r
        /\ \A h \in DOMAIN k.pending : h # y => j.pending[h] = k.pending[h]
    BY <1>5 DEF With, Put, Upsert
  <2>2. /\ DOMAIN j.pool = DOMAIN k.pool \union {r} /\ j.pool[r] = v
        /\ \A q \in DOMAIN k.pool : q # r => j.pool[q] = k.pool[q]
    BY <1>5 DEF With, Put, Upsert
  <2>3. QED
    BY <2>1, <2>2
<1>8. /\ \A h \in DOMAIN k.pending : j.pool[k.pending[h]] = k.pool[k.pending[h]]
      /\ \A i \in DOMAIN k.open : j.pool[k.open[i]] = k.pool[k.open[i]]
  BY <1>7 DEF WellKept, Separate
<1>9. Rows(j) = Rows(k)
  BY <1>5, <1>8 DEF Rows
<1>10. /\ DOMAIN Pend(k) = DOMAIN k.pending /\ DOMAIN Pend(j) = DOMAIN k.pending \union {y}
       /\ Pend(j)[y] = v /\ \A h \in DOMAIN k.pending : Pend(j)[h] = Pend(k)[h]
  BY <1>7, <1>8 DEF Pend
<1>11. IsTable(Rows(k)) /\ IsTable(Pend(k)) /\ IsOrder(v)
  BY DEF WellKept, Shape, v
<1>12. IsTable(Pend(j))
  BY <1>10, <1>11, FS_AddElement DEF IsTable
<1>13. Shape(j)
  BY <1>0, <1>4, <1>5, <1>6, <1>9, <1>11, <1>12 DEF WellKept, Shape
<1>14. Separate(j)
  BY <1>2, <1>5, <1>7, <1>8 DEF WellKept, Separate
<1>15. Exact(j)
  <2> SUFFICES ASSUME NEW x \in Resources PROVE ExactAt(j, x)
    BY DEF Exact
  <2>1. SameBut(Rows(k), Rows(j), y) /\ SameBut(Pend(k), Pend(j), y)
    BY <1>9, <1>10 DEF SameBut
  <2>2. Owed(Pend(k), y, x) = 0 /\ Owed(Rows(j), y, x) = Owed(Rows(k), y, x)
    BY <1>9, <1>10 DEF Owed
  <2>3. Owed(Pend(j), y, x) = IF x = Resource(o) THEN Cost(o, o.qty) ELSE 0
    BY <1>2, <1>10 DEF Owed
  <2>4. Owed(Rows(k), y, x) \in Int /\ k.reserved[x] \in Int
    BY <1>0, <1>11, CommitsAreNat
  <2>5. j.reserved[x] = k.reserved[x] - Owed(Rows(k), y, x) + Owed(Rows(j), y, x)
                                      - Owed(Pend(k), y, x) + Owed(Pend(j), y, x)
    BY <1>3, <1>6, <2>2, <2>3, <2>4
  <2>6. QED
    BY <1>9, <1>11, <1>12, <2>1, <2>5, ExactStep
<1>16. QED
  BY <1>5, <1>6, <1>7, <1>8, <1>9, <1>13, <1>14, <1>15 DEF WellKept, j, v

\* Its acceptance is seen: the reservation moves to the open orders.
LEMMA Adopts ==
    ASSUME NEW k, WellKept(k), NEW e, OrderKey(e) \in DOMAIN k.pending,
           e.id \notin DOMAIN k.open, e.id \notin Calls
    PROVE  LET j == Accept(k, e)
           IN  /\ WellKept(j) /\ j.settled = k.settled /\ j.last = k.last
               /\ j.reserved = k.reserved /\ j.pool = k.pool
               /\ Rows(j) = With(Rows(k), e.id, Pend(k)[OrderKey(e)])
               /\ DOMAIN j.pending = DOMAIN k.pending \ {OrderKey(e)}
               /\ \A h \in DOMAIN j.pending : j.pending[h] = k.pending[h]
               /\ DOMAIN j.open = DOMAIN k.open \union {e.id}
               /\ j.open[e.id] = k.pending[OrderKey(e)]
               /\ \A i \in DOMAIN k.open : j.open[i] = k.open[i]
<1> DEFINE j == Accept(k, e)
           y == OrderKey(e)
           n == e.id
<1>0. DOMAIN k = Fields /\ k.settled \in [Resources -> Int] /\ k.reserved \in [Resources -> Int]
      /\ k.last \in Nat /\ IsTable(Rows(k)) /\ IsTable(Pend(k))
  BY DEF WellKept, Shape
<1>1. /\ DOMAIN j = Fields
      /\ j.settled = k.settled /\ j.reserved = k.reserved /\ j.last = k.last /\ j.pool = k.pool
      /\ j.pending = Without(k.pending, y) /\ j.open = With(k.open, n, k.pending[y])
  BY <1>0 DEF Accept, Fields
<1> HIDE DEF j
<1>2. /\ DOMAIN j.pending = DOMAIN k.pending \ {y}
      /\ \A h \in DOMAIN k.pending : h # y => j.pending[h] = k.pending[h]
  BY <1>1 DEF Without, Restrict
<1>3. /\ DOMAIN j.open = DOMAIN k.open \union {n} /\ j.open[n] = k.pending[y]
      /\ \A i \in DOMAIN k.open : j.open[i] = k.open[i]
  BY <1>1 DEF With, Put, Upsert
<1>4. Rows(j) = With(Rows(k), n, Pend(k)[y])
  BY <1>1, <1>3 DEF Rows, Pend, With, Put, Upsert
<1>5. /\ DOMAIN Rows(k) = DOMAIN k.open /\ DOMAIN Rows(j) = DOMAIN k.open \union {n}
      /\ Rows(j)[n] = Pend(k)[y] /\ \A i \in DOMAIN k.open : Rows(j)[i] = Rows(k)[i]
  BY <1>1, <1>3 DEF Rows, Pend
<1>6. /\ DOMAIN Pend(k) = DOMAIN k.pending /\ DOMAIN Pend(j) = DOMAIN k.pending \ {y}
      /\ \A h \in DOMAIN k.pending : h # y => Pend(j)[h] = Pend(k)[h]
  BY <1>1, <1>2 DEF Pend
<1>7. IsTable(Rows(j))
  BY <1>0, <1>5, <1>6, FS_AddElement DEF IsTable
<1>8. IsTable(Pend(j))
  BY <1>0, <1>6, FS_Subset DEF IsTable
<1>9. Shape(j)
  BY <1>0, <1>1, <1>7, <1>8 DEF Shape
<1>10. Separate(j)
  BY <1>1, <1>2, <1>3 DEF WellKept, Separate, OrderKey
<1>11. Exact(j)
  <2> SUFFICES ASSUME NEW x \in Resources PROVE ExactAt(j, x)
    BY DEF Exact
  <2>1. SameBut(Rows(k), Rows(j), n) /\ SameBut(Pend(k), Pend(j), y)
    BY <1>5, <1>6 DEF SameBut
  <2>2. /\ Owed(Rows(k), n, x) = 0 /\ Owed(Rows(j), n, x) = Owed(Pend(k), y, x)
        /\ Owed(Pend(j), y, x) = 0 /\ Owed(Pend(k), y, x) \in Int
    BY <1>0, <1>5, <1>6, CommitsAreNat DEF Owed
  <2>3. j.reserved[x] = k.reserved[x] - Owed(Rows(k), n, x) + Owed(Rows(j), n, x)
                                      - Owed(Pend(k), y, x) + Owed(Pend(j), y, x)
    BY <1>0, <1>1, <2>2
  <2>4. QED
    BY <1>7, <1>8, <2>1, <2>3, ExactStep
<1>12. QED
  BY <1>1, <1>2, <1>3, <1>4, <1>9, <1>10, <1>11 DEF WellKept, j

\* Nobody here waits for it: the order is committed as the stream tells it.
LEMMA CommitsAnew ==
    ASSUME NEW k, WellKept(k), NEW e, OrderKey(e) \notin DOMAIN k.pending,
           e.id \notin DOMAIN k.open, e.id \notin Calls, IsOrder(Reservation(e))
    PROVE  LET j == Accept(k, e)
           IN  /\ WellKept(j) /\ j.settled = k.settled /\ j.last = k.last
               /\ Rows(j) = With(Rows(k), e.id, Reservation(e))
               /\ j.pending = k.pending
               /\ \A h \in DOMAIN k.pending : j.pool[k.pending[h]] = k.pool[k.pending[h]]
               /\ DOMAIN j.open = DOMAIN k.open \union {e.id}
               /\ j.open[e.id] = e.id
               /\ \A i \in DOMAIN k.open : j.open[i] = k.open[i]
<1> DEFINE j == Accept(k, e)
           n == e.id
           v == Reservation(e)
<1>0. DOMAIN k = Fields /\ k.settled \in [Resources -> Int] /\ k.reserved \in [Resources -> Int]
      /\ k.last \in Nat /\ IsTable(Rows(k)) /\ IsTable(Pend(k)) /\ IsOrder(v)
  BY DEF WellKept, Shape
<1>1. /\ v.user = e.user /\ v.sym = e.sym /\ v.side = e.side /\ v.price = e.price /\ v.qty = e.qty
  BY DEF Reservation
<1>2. Resource(v) = Resource(e) /\ Cost(v, v.qty) = Cost(e, e.qty)
  BY <1>1 DEF Resource, Cost
<1>3. Resource(e) \in Resources /\ Cost(e, e.qty) \in Nat
  <2>1. v.qty \in Nat
    BY DEF IsOrder
  <2>2. Resource(v) \in Resources /\ Cost(v, v.qty) \in Nat
    BY <2>1, CostOf
  <2>3. QED
    BY <1>2, <2>2
<1>4. /\ DOMAIN j = Fields
      /\ j.settled = k.settled /\ j.last = k.last /\ j.pending = k.pending
      /\ j.reserved = [k.reserved EXCEPT ![Resource(e)] = @ + Cost(e, e.qty)]
      /\ j.pool = With(k.pool, n, v) /\ j.open = With(k.open, n, n)
  BY <1>0 DEF Accept, Fields
<1> HIDE DEF j, v
<1>5. /\ j.reserved \in [Resources -> Int]
      /\ \A x \in Resources : j.reserved[x] = k.reserved[x] +
            (IF x = Resource(e) THEN Cost(e, e.qty) ELSE 0)
  BY <1>0, <1>3, <1>4
<1>6. /\ DOMAIN j.pool = DOMAIN k.pool \union {n} /\ j.pool[n] = v
      /\ \A q \in DOMAIN k.pool : q # n => j.pool[q] = k.pool[q]
  BY <1>4 DEF With, Put, Upsert
<1>7. /\ DOMAIN j.open = DOMAIN k.open \union {n} /\ j.open[n] = n
      /\ \A i \in DOMAIN k.open : j.open[i] = k.open[i]
  BY <1>4 DEF With, Put, Upsert
<1>8. /\ \A i \in DOMAIN k.open : k.open[i] # n /\ j.pool[k.open[i]] = k.pool[k.open[i]]
      /\ \A h \in DOMAIN k.pending : k.pending[h] # n /\ j.pool[k.pending[h]] = k.pool[k.pending[h]]
  BY <1>6 DEF WellKept, Separate
<1>9. Rows(j) = With(Rows(k), n, v)
  BY <1>6, <1>7, <1>8 DEF Rows, With, Put, Upsert
<1>10. /\ DOMAIN Rows(k) = DOMAIN k.open /\ DOMAIN Rows(j) = DOMAIN k.open \union {n}
       /\ Rows(j)[n] = v /\ \A i \in DOMAIN k.open : Rows(j)[i] = Rows(k)[i]
  BY <1>6, <1>7, <1>8 DEF Rows
<1>11. Pend(j) = Pend(k)
  BY <1>4, <1>8 DEF Pend
<1>12. IsTable(Rows(j))
  BY <1>0, <1>10, FS_AddElement DEF IsTable
<1>13. Shape(j)
  BY <1>0, <1>4, <1>5, <1>11, <1>12 DEF Shape
<1>14. Separate(j)
  BY <1>4, <1>6, <1>7, <1>8 DEF WellKept, Separate
<1>15. Exact(j)
  <2> SUFFICES ASSUME NEW x \in Resources PROVE ExactAt(j, x)
    BY DEF Exact
  <2>1. SameBut(Rows(k), Rows(j), n) /\ SameBut(Pend(k), Pend(j), n)
    BY <1>10, <1>11 DEF SameBut
  <2>2. /\ Owed(Rows(k), n, x) = 0 /\ Owed(Pend(j), n, x) = Owed(Pend(k), n, x)
        /\ Owed(Rows(j), n, x) = IF x = Resource(e) THEN Cost(e, e.qty) ELSE 0
        /\ Owed(Pend(k), n, x) \in Int
    BY <1>0, <1>2, <1>10, <1>11, CommitsAreNat DEF Owed
  <2>3. j.reserved[x] = k.reserved[x] - Owed(Rows(k), n, x) + Owed(Rows(j), n, x)
                                      - Owed(Pend(k), n, x) + Owed(Pend(j), n, x)
    BY <1>0, <1>3, <1>5, <2>2
  <2>4. QED
    BY <1>0, <1>11, <1>12, <2>1, <2>3, ExactStep
<1>16. QED
  BY <1>4, <1>7, <1>8, <1>9, <1>13, <1>14, <1>15 DEF WellKept, j, v

\* Giving back what an entry owes, or a part of it, never stops at zero.
LEMMA Releases ==
    ASSUME NEW k, WellKept(k), NEW o, IsOrder(o), NEW q \in 0 .. o.qty,
           \A x \in Resources : Resource(o) = x =>
               Cost(o, o.qty) <= k.reserved[x]
    PROVE  LET r == [k.reserved EXCEPT ![Resource(o)] = Floor0(@ - Cost(o, q))]
           IN  /\ r \in [Resources -> Int]
               /\ \A x \in Resources : r[x] = k.reserved[x] -
                     (IF x = Resource(o) THEN Cost(o, q) ELSE 0)
<1> DEFINE x == Resource(o)
<1>1. /\ x \in Resources /\ k.reserved \in [Resources -> Int] /\ k.reserved[x] \in Nat
  BY CostOf, OwedIsReserved DEF WellKept, Shape
<1>2. o.qty \in Nat /\ q \in Nat /\ o.qty - q \in Nat /\ o.qty - (o.qty - q) = q
  BY DEF IsOrder
<1>3. /\ Cost(o, q) \in Nat /\ Cost(o, o.qty) \in Nat /\ Cost(o, o.qty - q) \in Nat
      /\ Cost(o, o.qty - q) = Cost(o, o.qty) - Cost(o, q)
  <2>1. /\ \A a \in Nat : Cost(o, a) \in Nat
        /\ \A a \in Int : \A b \in Int : Cost(o, a - b) = Cost(o, a) - Cost(o, b)
    BY CostOf
  <2> DEFINE n == o.qty
  <2>2. n \in Nat /\ q \in Nat /\ n - q \in Nat /\ n \in Int /\ q \in Int
    BY <1>2
  <2> HIDE DEF n
  <2>3. Cost(o, n) \in Nat /\ Cost(o, q) \in Nat /\ Cost(o, n - q) \in Nat
    BY <2>1, <2>2
  <2>4. Cost(o, n - q) = Cost(o, n) - Cost(o, q)
    BY <2>1, <2>2
  <2>5. QED
    BY <2>3, <2>4 DEF n
<1>4. Cost(o, q) <= k.reserved[x]
  BY <1>1, <1>3
<1>5. Floor0(k.reserved[x] - Cost(o, q)) = k.reserved[x] - Cost(o, q)
  BY <1>1, <1>3, <1>4 DEF Floor0
<1> HIDE DEF x
<1>6. \A z \in Resources : k.reserved[z] \in Int
  BY <1>1
<1>7. [k.reserved EXCEPT ![x] = Floor0(@ - Cost(o, q))] =
         [z \in Resources |-> IF z = x THEN k.reserved[x] - Cost(o, q) ELSE k.reserved[z]]
  BY <1>1, <1>5
<1>8. QED
  BY <1>1, <1>3, <1>6, <1>7 DEF x

\* A fill takes from an order what it trades.
LEMMA CutsRow ==
    ASSUME NEW k, WellKept(k), NEW id \in DOMAIN k.open, NEW q \in 1 .. Rows(k)[id].qty
    PROVE  LET j == ReleaseFill(k, id, q)
           IN  /\ WellKept(j) /\ j.settled = k.settled /\ j.last = k.last
               /\ Rows(j) = Cut(Rows(k), id, q)
               /\ j.pending = k.pending
               /\ \A h \in DOMAIN k.pending : j.pool[k.pending[h]] = k.pool[k.pending[h]]
               /\ DOMAIN j.open \subseteq DOMAIN k.open
               /\ \A i \in DOMAIN j.open : j.open[i] = k.open[i]
               /\ \A x \in Resources : j.reserved[x] = k.reserved[x] -
                     (IF x = Resource(Rows(k)[id]) THEN Cost(Rows(k)[id], q) ELSE 0)
<1> DEFINE j == ReleaseFill(k, id, q)
           p == k.open[id]
           o == k.pool[p]
           m == o.qty - q
           v == [o EXCEPT !.qty = m]
<1>0. DOMAIN k = Fields /\ k.settled \in [Resources -> Int] /\ k.reserved \in [Resources -> Int]
      /\ k.last \in Nat /\ IsTable(Rows(k)) /\ IsTable(Pend(k))
  BY DEF WellKept, Shape
<1>1. /\ DOMAIN Rows(k) = DOMAIN k.open /\ Rows(k)[id] = o /\ IsOrder(o)
      /\ q \in 1 .. o.qty /\ o.qty \in Nat /\ p \in DOMAIN k.pool
  <2>1. DOMAIN Rows(k) = DOMAIN k.open /\ Rows(k)[id] = o
    BY DEF Rows
  <2>2. IsOrder(o)
    BY <1>0, <2>1 DEF IsTable
  <2>3. QED
    BY <2>1, <2>2 DEF IsOrder, WellKept, Separate
<1>2. m \in Nat /\ Floor0(o.qty - q) = m /\ (m = 0 <=> o.qty = q) /\ q \in 0 .. o.qty
  BY <1>1 DEF Floor0
<1> DEFINE r == [k.reserved EXCEPT ![Resource(o)] = Floor0(@ - Cost(o, q))]
           w == [k.pool EXCEPT ![p].qty = m]
<1>3. j = [Release(k, p, q) EXCEPT !.pool[p].qty = m,
                                   !.open = IF m = 0 THEN Without(@, id) ELSE @]
  BY <1>2 DEF ReleaseFill
<1>4. /\ DOMAIN j = Fields
      /\ j.settled = k.settled /\ j.last = k.last /\ j.pending = k.pending
      /\ j.reserved = r /\ j.pool = w
      /\ j.open = IF m = 0 THEN Without(k.open, id) ELSE k.open
  <2> HIDE DEF j, m
  <2>1. QED
    BY <1>0, <1>3 DEF Release, Fields
<1>5. /\ DOMAIN w = DOMAIN k.pool /\ w[p] = v
      /\ \A a \in DOMAIN k.pool : a # p => w[a] = k.pool[a]
  <2> HIDE DEF m
  <2>1. QED
    BY <1>1
<1>6. /\ r \in [Resources -> Int]
      /\ \A x \in Resources : r[x] = k.reserved[x] -
            (IF x = Resource(o) THEN Cost(o, q) ELSE 0)
  <2>1. ASSUME NEW x \in Resources, Resource(o) = x
        PROVE  Cost(o, o.qty) <= k.reserved[x]
    <3>1. Owed(Rows(k), id, x) = Cost(o, o.qty)
      BY <1>1, <2>1 DEF Owed
    <3>2. Owed(Rows(k), id, x) <= k.reserved[x]
      BY OwedIsReserved
    <3>3. QED
      BY <3>1, <3>2
  <2> HIDE DEF o
  <2>2. QED
    BY <1>1, <1>2, <2>1, Releases
<1> HIDE DEF j, r, w
<1>7. /\ v.qty = m /\ v.user = o.user /\ v.coid = o.coid /\ v.sym = o.sym
      /\ v.side = o.side /\ v.price = o.price
      /\ v = [user |-> o.user, coid |-> o.coid, sym |-> o.sym,
              side |-> o.side, price |-> o.price, qty |-> m]
  <2> HIDE DEF m, o
  <2>1. DOMAIN o = {"user", "coid", "sym", "side", "price", "qty"}
    BY <1>1 DEF IsOrder
  <2>2. QED
    BY <2>1
<1> HIDE DEF v
<1>8. m # 0 => IsOrder(v)
  BY <1>1, <1>2, <1>7 DEF IsOrder
<1>9. Resource(v) = Resource(o) /\ \A a : Cost(v, a) = Cost(o, a)
  BY <1>7 DEF Resource, Cost
<1>10. Cost(o, m) \in Nat /\ Cost(o, q) \in Nat /\ Cost(o, o.qty) \in Nat
       /\ Cost(o, m) = Cost(o, o.qty) - Cost(o, q)
  <2>1. /\ \A a \in Nat : Cost(o, a) \in Nat
        /\ \A a \in Int : \A b \in Int : Cost(o, a - b) = Cost(o, a) - Cost(o, b)
    BY <1>1, CostOf
  <2> DEFINE n == o.qty
  <2>2. n \in Nat /\ q \in Nat /\ m \in Nat /\ n \in Int /\ q \in Int /\ m = n - q
    BY <1>1, <1>2
  <2> HIDE DEF n, m
  <2>3. Cost(o, n) \in Nat /\ Cost(o, q) \in Nat /\ Cost(o, m) \in Nat
    BY <2>1, <2>2
  <2>4. Cost(o, m) = Cost(o, n) - Cost(o, q)
    BY <2>1, <2>2
  <2>5. QED
    BY <2>3, <2>4 DEF n
<1>11. /\ DOMAIN j.open = IF m = 0 THEN DOMAIN k.open \ {id} ELSE DOMAIN k.open
       /\ \A i \in DOMAIN j.open : j.open[i] = k.open[i]
  BY <1>4 DEF Without, Restrict
<1>12. /\ \A i \in DOMAIN k.open : i # id => j.pool[k.open[i]] = k.pool[k.open[i]]
       /\ \A h \in DOMAIN k.pending : j.pool[k.pending[h]] = k.pool[k.pending[h]]
       /\ j.pool[p] = v
  <2> HIDE DEF o, m
  <2>1. QED
    BY <1>1, <1>4, <1>5 DEF WellKept, Separate
<1>13. /\ DOMAIN Rows(j) = DOMAIN j.open
       /\ \A i \in DOMAIN j.open : Rows(j)[i] = IF i = id THEN v ELSE Rows(k)[i]
       /\ Rows(j) = [i \in DOMAIN j.open |-> IF i = id THEN v ELSE Rows(k)[i]]
  <2>1. \A i \in DOMAIN j.open : j.pool[j.open[i]] = IF i = id THEN v ELSE k.pool[k.open[i]]
    BY <1>11, <1>12
  <2> HIDE DEF v, m, o
  <2>2. QED
    BY <1>11, <2>1 DEF Rows
<1>14. Rows(j) = Cut(Rows(k), id, q)
  <2> HIDE DEF m, o
  <2>1. CASE m = 0
    <3>1. Cut(Rows(k), id, q) = Without(Rows(k), id)
      BY <1>1, <1>2, <2>1 DEF Cut
    <3>2. QED
      BY <1>1, <1>11, <1>13, <2>1, <3>1 DEF Without, Restrict
  <2>2. CASE m # 0
    <3>1. Cut(Rows(k), id, q) = With(Rows(k), id, v)
      BY <1>1, <1>2, <2>2 DEF Cut, With, v, m
    <3>2. QED
      BY <1>1, <1>11, <1>13, <2>2, <3>1 DEF With, Put, Upsert
  <2>3. QED
    BY <2>1, <2>2
<1>15. Pend(j) = Pend(k)
  BY <1>4, <1>12 DEF Pend
<1>16. IsTable(Rows(j))
  <2> HIDE DEF m, o
  <2>1. IsFiniteSet(DOMAIN j.open)
    BY <1>0, <1>1, <1>11, FS_Subset DEF IsTable
  <2>2. QED
    BY <1>0, <1>1, <1>8, <1>11, <1>13, <2>1 DEF IsTable
<1>17. Shape(j)
  BY <1>0, <1>4, <1>6, <1>15, <1>16 DEF Shape
<1>18. Separate(j)
  <2> HIDE DEF m, o
  <2>1. \A i \in DOMAIN j.open : i \in DOMAIN k.open
    BY <1>11
  <2>2. \A h \in DOMAIN k.pending : k.pending[h] # p
    BY DEF WellKept, Separate
  <2>3. QED
    BY <1>4, <1>5, <1>11, <1>12, <2>1, <2>2 DEF WellKept, Separate
<1>19. Exact(j)
  <2> SUFFICES ASSUME NEW x \in Resources PROVE ExactAt(j, x)
    BY DEF Exact
  <2>1. SameBut(Rows(k), Rows(j), id) /\ SameBut(Pend(k), Pend(j), id)
    <3> HIDE DEF m, o
    <3>1. QED
      BY <1>1, <1>11, <1>13, <1>15 DEF SameBut
  <2>2. Owed(Rows(j), id, x) = Owed(Rows(k), id, x) - (IF x = Resource(o) THEN Cost(o, q) ELSE 0)
    <3>1. Owed(Rows(k), id, x) = IF x = Resource(o) THEN Cost(o, o.qty) ELSE 0
      BY <1>1 DEF Owed
    <3>2. CASE m = 0
      <4>1. Owed(Rows(j), id, x) = 0
        BY <1>11, <1>13, <3>2 DEF Owed
      <4>2. o.qty = q
        BY <1>2, <3>2
      <4>3. QED
        BY <1>10, <3>1, <4>1, <4>2
    <3>3. CASE m # 0
      <4>1. id \in DOMAIN Rows(j) /\ Rows(j)[id] = v
        BY <1>11, <1>13, <3>3
      <4>2. Owed(Rows(j), id, x) = IF x = Resource(o) THEN Cost(o, m) ELSE 0
        BY <1>7, <1>9, <4>1 DEF Owed
      <4>3. QED
        BY <1>10, <3>1, <4>2
    <3>4. QED
      BY <3>2, <3>3
  <2>3. /\ Owed(Rows(k), id, x) \in Int /\ Owed(Pend(k), id, x) \in Int
        /\ Owed(Pend(j), id, x) = Owed(Pend(k), id, x) /\ Owed(Rows(j), id, x) \in Int
    BY <1>0, <1>15, <1>16, CommitsAreNat
  <2>4. j.reserved[x] = k.reserved[x] - (IF x = Resource(o) THEN Cost(o, q) ELSE 0)
        /\ k.reserved[x] \in Int
    BY <1>0, <1>4, <1>6
  <2>5. (IF x = Resource(o) THEN Cost(o, q) ELSE 0) \in Int
    BY <1>10
  <2>6. j.reserved[x] = k.reserved[x] - Owed(Rows(k), id, x) + Owed(Rows(j), id, x)
                                      - Owed(Pend(k), id, x) + Owed(Pend(j), id, x)
    <3> DEFINE d == IF x = Resource(o) THEN Cost(o, q) ELSE 0
    <3> HIDE DEF d
    <3>1. QED
      BY <2>2, <2>3, <2>4, <2>5 DEF d
  <2>7. QED
    BY <1>0, <1>15, <1>16, <2>1, <2>6, ExactStep
<1>20. WellKept(j)
  BY <1>17, <1>18, <1>19 DEF WellKept
<1>21. QED
  <2>1. DOMAIN j.open \subseteq DOMAIN k.open
    BY <1>11
  <2> HIDE DEF m, o
  <2>2. QED
    BY <1>1, <1>4, <1>6, <1>11, <1>12, <1>14, <1>20, <2>1 DEF j

\* Cancelled: the order goes, and what it still committed.
LEMMA Retires ==
    ASSUME NEW k, WellKept(k), NEW id \in DOMAIN k.open
    PROVE  LET j == Retire(k, id)
           IN  /\ WellKept(j) /\ j.settled = k.settled /\ j.last = k.last
               /\ Rows(j) = Without(Rows(k), id)
               /\ j.pending = k.pending /\ j.pool = k.pool
               /\ DOMAIN j.open \subseteq DOMAIN k.open
               /\ \A i \in DOMAIN j.open : j.open[i] = k.open[i]
               /\ \A x \in Resources : j.reserved[x] <= k.reserved[x]
<1> DEFINE j == Retire(k, id)
           o == k.pool[k.open[id]]
           r == [k.reserved EXCEPT ![Resource(o)] = Floor0(@ - Cost(o, o.qty))]
<1>0. DOMAIN k = Fields /\ k.settled \in [Resources -> Int] /\ k.reserved \in [Resources -> Int]
      /\ k.last \in Nat /\ IsTable(Rows(k)) /\ IsTable(Pend(k))
  BY DEF WellKept, Shape
<1>1. /\ DOMAIN Rows(k) = DOMAIN k.open /\ Rows(k)[id] = o /\ IsOrder(o)
      /\ o.qty \in Nat /\ o.qty \in 0 .. o.qty
  <2>1. DOMAIN Rows(k) = DOMAIN k.open /\ Rows(k)[id] = o
    BY DEF Rows
  <2>2. IsOrder(o)
    BY <1>0, <2>1 DEF IsTable
  <2>3. QED
    BY <2>1, <2>2 DEF IsOrder
<1>2. /\ DOMAIN j = Fields
      /\ j.settled = k.settled /\ j.last = k.last /\ j.pending = k.pending
      /\ j.reserved = r /\ j.pool = k.pool /\ j.open = Without(k.open, id)
  BY <1>0 DEF Retire, Release, Fields
<1>3. Cost(o, o.qty) \in Nat
  BY <1>1, CostOf
<1>4. /\ r \in [Resources -> Int]
      /\ \A x \in Resources : r[x] = k.reserved[x] -
            (IF x = Resource(o) THEN Cost(o, o.qty) ELSE 0)
  <2>1. ASSUME NEW x \in Resources, Resource(o) = x
        PROVE  Cost(o, o.qty) <= k.reserved[x]
    <3>1. Owed(Rows(k), id, x) = Cost(o, o.qty)
      BY <1>1, <2>1 DEF Owed
    <3>2. Owed(Rows(k), id, x) <= k.reserved[x]
      BY OwedIsReserved
    <3>3. QED
      BY <3>1, <3>2
  <2> HIDE DEF o
  <2>2. QED
    BY <1>1, <2>1, Releases
<1> HIDE DEF j, r
<1>5. /\ DOMAIN j.open = DOMAIN k.open \ {id}
      /\ \A i \in DOMAIN j.open : j.open[i] = k.open[i]
  BY <1>2 DEF Without, Restrict
<1>6. Rows(j) = Without(Rows(k), id)
  BY <1>2, <1>5 DEF Rows, Without, Restrict
<1>7. /\ DOMAIN Rows(j) = DOMAIN k.open \ {id}
      /\ \A i \in DOMAIN j.open : Rows(j)[i] = Rows(k)[i]
  BY <1>2, <1>5 DEF Rows
<1>8. Pend(j) = Pend(k)
  BY <1>2 DEF Pend
<1>9. IsTable(Rows(j))
  BY <1>0, <1>1, <1>5, <1>7, FS_Subset DEF IsTable
<1>10. Shape(j)
  BY <1>0, <1>2, <1>4, <1>8, <1>9 DEF Shape
<1>11. Separate(j)
  BY <1>2, <1>5 DEF WellKept, Separate
<1>12. Exact(j)
  <2> SUFFICES ASSUME NEW x \in Resources PROVE ExactAt(j, x)
    BY DEF Exact
  <2>1. SameBut(Rows(k), Rows(j), id) /\ SameBut(Pend(k), Pend(j), id)
    BY <1>1, <1>5, <1>7, <1>8 DEF SameBut
  <2>2. /\ Owed(Rows(j), id, x) = 0
        /\ Owed(Rows(k), id, x) = IF x = Resource(o) THEN Cost(o, o.qty) ELSE 0
        /\ Owed(Pend(j), id, x) = Owed(Pend(k), id, x) /\ Owed(Pend(k), id, x) \in Int
    <3>1. Owed(Pend(k), id, x) \in Int
      BY <1>0, CommitsAreNat
    <3>2. QED
      BY <1>1, <1>5, <1>7, <1>8, <3>1 DEF Owed
  <2>3. j.reserved[x] = k.reserved[x] - (IF x = Resource(o) THEN Cost(o, o.qty) ELSE 0)
        /\ k.reserved[x] \in Int
    BY <1>0, <1>2, <1>4
  <2>4. j.reserved[x] = k.reserved[x] - Owed(Rows(k), id, x) + Owed(Rows(j), id, x)
                                      - Owed(Pend(k), id, x) + Owed(Pend(j), id, x)
    BY <1>3, <2>2, <2>3
  <2>5. QED
    BY <1>0, <1>8, <1>9, <2>1, <2>4, ExactStep
<1>13. \A x \in Resources : j.reserved[x] <= k.reserved[x]
  BY <1>0, <1>2, <1>3, <1>4
<1>14. QED
  BY <1>2, <1>5, <1>6, <1>10, <1>11, <1>12, <1>13 DEF WellKept, j

\* Abandoned by its call: the same of an order in flight.
LEMMA Abandons ==
    ASSUME NEW k, WellKept(k), NEW h \in DOMAIN k.pending
    PROVE  LET j == Abandon(k, k.pending[h])
           IN  /\ WellKept(j) /\ j.settled = k.settled /\ j.last = k.last
               /\ j.open = k.open /\ j.pool = k.pool /\ Rows(j) = Rows(k)
               /\ DOMAIN j.pending = DOMAIN k.pending \ {h}
               /\ \A g \in DOMAIN j.pending : j.pending[g] = k.pending[g]
               /\ \A x \in Resources : j.reserved[x] <= k.reserved[x]
<1> DEFINE j == Abandon(k, k.pending[h])
           o == k.pool[k.pending[h]]
           r == [k.reserved EXCEPT ![Resource(o)] = Floor0(@ - Cost(o, o.qty))]
<1>0. DOMAIN k = Fields /\ k.settled \in [Resources -> Int] /\ k.reserved \in [Resources -> Int]
      /\ k.last \in Nat /\ IsTable(Rows(k)) /\ IsTable(Pend(k))
  BY DEF WellKept, Shape
<1>1. /\ DOMAIN Pend(k) = DOMAIN k.pending /\ Pend(k)[h] = o /\ IsOrder(o)
      /\ o.qty \in Nat /\ o.qty \in 0 .. o.qty
  <2>1. DOMAIN Pend(k) = DOMAIN k.pending /\ Pend(k)[h] = o
    BY DEF Pend
  <2>2. IsOrder(o)
    BY <1>0, <2>1 DEF IsTable
  <2>3. QED
    BY <2>1, <2>2 DEF IsOrder
<1>2. OrderKey(o) = h
  BY DEF WellKept, Separate
<1>3. /\ DOMAIN j = Fields
      /\ j.settled = k.settled /\ j.last = k.last /\ j.open = k.open
      /\ j.reserved = r /\ j.pool = k.pool /\ j.pending = Without(k.pending, h)
  <2>1. j = Release([k EXCEPT !.pending = Without(@, h)], k.pending[h], o.qty)
    BY <1>2 DEF Abandon
  <2> HIDE DEF j
  <2>2. QED
    BY <1>0, <2>1 DEF Release, Fields
<1>4. Cost(o, o.qty) \in Nat
  BY <1>1, CostOf
<1>5. /\ r \in [Resources -> Int]
      /\ \A x \in Resources : r[x] = k.reserved[x] -
            (IF x = Resource(o) THEN Cost(o, o.qty) ELSE 0)
  <2>1. ASSUME NEW x \in Resources, Resource(o) = x
        PROVE  Cost(o, o.qty) <= k.reserved[x]
    <3>1. Owed(Pend(k), h, x) = Cost(o, o.qty)
      BY <1>1, <2>1 DEF Owed
    <3>2. Owed(Pend(k), h, x) <= k.reserved[x]
      BY OwedIsReserved
    <3>3. QED
      BY <3>1, <3>2
  <2> HIDE DEF o
  <2>2. QED
    BY <1>1, <2>1, Releases
<1> HIDE DEF j, r
<1>6. /\ DOMAIN j.pending = DOMAIN k.pending \ {h}
      /\ \A g \in DOMAIN j.pending : j.pending[g] = k.pending[g]
  BY <1>3 DEF Without, Restrict
<1>7. Rows(j) = Rows(k)
  BY <1>3 DEF Rows
<1>8. /\ DOMAIN Pend(j) = DOMAIN k.pending \ {h}
      /\ \A g \in DOMAIN j.pending : Pend(j)[g] = Pend(k)[g]
  BY <1>3, <1>6 DEF Pend
<1>9. IsTable(Pend(j))
  BY <1>0, <1>1, <1>6, <1>8, FS_Subset DEF IsTable
<1>10. Shape(j)
  BY <1>0, <1>3, <1>5, <1>7, <1>9 DEF Shape
<1>11. Separate(j)
  BY <1>3, <1>6 DEF WellKept, Separate
<1>12. Exact(j)
  <2> SUFFICES ASSUME NEW x \in Resources PROVE ExactAt(j, x)
    BY DEF Exact
  <2>1. SameBut(Rows(k), Rows(j), h) /\ SameBut(Pend(k), Pend(j), h)
    BY <1>1, <1>6, <1>7, <1>8 DEF SameBut
  <2>2. /\ Owed(Pend(j), h, x) = 0
        /\ Owed(Pend(k), h, x) = IF x = Resource(o) THEN Cost(o, o.qty) ELSE 0
        /\ Owed(Rows(j), h, x) = Owed(Rows(k), h, x) /\ Owed(Rows(k), h, x) \in Int
    BY <1>0, <1>1, <1>7, <1>8, CommitsAreNat DEF Owed
  <2>3. j.reserved[x] = k.reserved[x] - (IF x = Resource(o) THEN Cost(o, o.qty) ELSE 0)
        /\ k.reserved[x] \in Int
    BY <1>0, <1>3, <1>5
  <2>4. j.reserved[x] = k.reserved[x] - Owed(Rows(k), h, x) + Owed(Rows(j), h, x)
                                      - Owed(Pend(k), h, x) + Owed(Pend(j), h, x)
    BY <1>4, <2>2, <2>3
  <2>5. QED
    BY <1>0, <1>7, <1>9, <2>1, <2>4, ExactStep
<1>13. \A x \in Resources : j.reserved[x] <= k.reserved[x]
  BY <1>0, <1>3, <1>4, <1>5
<1>14. QED
  BY <1>3, <1>6, <1>7, <1>10, <1>11, <1>12, <1>13 DEF WellKept, j

\* What nothing refers to is forgotten, and changes nothing.
LEMMA Collects ==
    ASSUME NEW k, WellKept(k), NEW S
    PROVE  LET j == Collect(k, S)
           IN  /\ WellKept(j) /\ j.settled = k.settled /\ j.last = k.last
               /\ j.reserved = k.reserved /\ j.pending = k.pending /\ j.open = k.open
               /\ Rows(j) = Rows(k) /\ Pend(j) = Pend(k)
               /\ \A h \in DOMAIN k.pending : j.pool[k.pending[h]] = k.pool[k.pending[h]]
<1> DEFINE j == Collect(k, S)
           D == DOMAIN k.pool \intersect (S \union Range(k.pending) \union Range(k.open))
<1>0. DOMAIN k = Fields
  BY DEF WellKept, Shape
<1>1. /\ DOMAIN j = Fields
      /\ j.settled = k.settled /\ j.last = k.last /\ j.reserved = k.reserved
      /\ j.pending = k.pending /\ j.open = k.open /\ j.pool = Restrict(k.pool, D)
  BY <1>0 DEF Collect, Fields
<1>2. /\ \A h \in DOMAIN k.pending : k.pending[h] \in D
      /\ \A i \in DOMAIN k.open : k.open[i] \in D
  BY DEF WellKept, Separate, Range
<1> HIDE DEF j, D
<1>3. DOMAIN j.pool = D /\ \A p \in D : j.pool[p] = k.pool[p]
  BY <1>1 DEF Restrict
<1>4. Rows(j) = Rows(k) /\ Pend(j) = Pend(k)
  BY <1>1, <1>2, <1>3 DEF Rows, Pend
<1>5. Shape(j)
  BY <1>1, <1>4 DEF WellKept, Shape
<1>6. Separate(j)
  BY <1>1, <1>2, <1>3 DEF WellKept, Separate
<1>7. Exact(j)
  BY <1>1, <1>4 DEF WellKept, Exact, ExactAt
<1>8. QED
  BY <1>1, <1>2, <1>3, <1>4, <1>5, <1>6, <1>7 DEF WellKept, j

\* What a fill moves: the cash and the fees, and the inventory.
Buyer(e)  == IF e.aggressor = "BUY" THEN e.takerUser ELSE e.makerUser
Seller(e) == IF e.aggressor = "BUY" THEN e.makerUser ELSE e.takerUser
BuyFee(e)  == Fee(e.price * e.qty, IF e.aggressor = "BUY" THEN TakerFeeBps ELSE MakerFeeBps)
SellFee(e) == Fee(e.price * e.qty, IF e.aggressor = "BUY" THEN MakerFeeBps ELSE TakerFeeBps)

Moved(s, e) ==
    [[[[s EXCEPT ![<<Buyer(e), Cash>>] = @ - (e.price * e.qty + BuyFee(e))]
          EXCEPT ![<<Seller(e), Cash>>] = @ + e.price * e.qty - SellFee(e)]
          EXCEPT ![<<Buyer(e), e.sym>>] = @ + e.qty]
          EXCEPT ![<<Seller(e), e.sym>>] = @ - e.qty]

NextSettled(s, e) == IF e.kind = "Fill" THEN Moved(s, e) ELSE s

LEMMA FillIsTyped ==
    ASSUME NEW T, IsTable(T), NEW e, TradesRows(T, e)
    PROVE  /\ e.maker \in DOMAIN T /\ e.taker \in DOMAIN T /\ e.maker # e.taker
           /\ e.makerUser \in Users /\ e.takerUser \in Users /\ e.sym \in Symbols
           /\ e.price \in Nat \ {0} /\ e.qty \in Nat \ {0} /\ e.aggressor \in Sides
           /\ IsOrder(T[e.maker]) /\ IsOrder(T[e.taker])
           /\ e.qty \in 1 .. T[e.maker].qty /\ e.qty \in 1 .. T[e.taker].qty
<1>1. e.maker \in DOMAIN T /\ e.taker \in DOMAIN T /\ e.maker # e.taker
  BY DEF TradesRows
<1>2. IsOrder(T[e.maker]) /\ IsOrder(T[e.taker])
  BY <1>1 DEF IsTable
<1>3. /\ T[e.maker].user = e.makerUser /\ T[e.taker].user = e.takerUser
      /\ T[e.maker].sym = e.sym /\ T[e.taker].side = e.aggressor
      /\ e.qty \in 1 .. T[e.maker].qty /\ e.qty \in 1 .. T[e.taker].qty
      /\ e.price \in 1 .. (IF e.aggressor = "BUY" THEN T[e.taker].price ELSE T[e.maker].price)
  BY DEF TradesRows
<1>4. /\ T[e.maker].qty \in Nat /\ T[e.maker].price \in Nat /\ T[e.taker].price \in Nat
      /\ T[e.maker].user \in Users /\ T[e.taker].user \in Users
      /\ T[e.maker].sym \in Symbols /\ T[e.taker].side \in Sides
  BY <1>2 DEF IsOrder
<1>5. e.price \in Nat \ {0} /\ e.qty \in Nat \ {0}
  BY <1>3, <1>4
<1>6. QED
  BY <1>1, <1>2, <1>3, <1>4, <1>5

\* Whoever trades with whom, himself not excluded.
LEMMA MovedIs ==
    ASSUME NEW s \in [Resources -> Int], NEW e,
           e.makerUser \in Users, e.takerUser \in Users, e.sym \in Symbols,
           e.price \in Nat, e.qty \in Nat
    PROVE  /\ Moved(s, e) \in [Resources -> Int]
           /\ e.price * e.qty \in Nat /\ BuyFee(e) \in Nat /\ SellFee(e) \in Nat
           /\ \A x \in Resources : Moved(s, e)[x] = s[x]
                 - (IF x = <<Buyer(e), Cash>> THEN e.price * e.qty + BuyFee(e) ELSE 0)
                 + (IF x = <<Seller(e), Cash>> THEN e.price * e.qty - SellFee(e) ELSE 0)
                 + (IF x = <<Buyer(e), e.sym>> THEN e.qty ELSE 0)
                 - (IF x = <<Seller(e), e.sym>> THEN e.qty ELSE 0)
<1>1. ASSUME NEW p \in Nat, NEW q \in Nat
      PROVE  p * q \in Nat /\ (p * q * 2) \div 10000 \in Nat /\ (p * q * 10) \div 10000 \in Nat
  <2> DEFINE n == p * q
  <2>1. n \in Nat
    OBVIOUS
  <2> HIDE DEF n
  <2>2. (n * 2) \div 10000 \in Nat /\ (n * 10) \div 10000 \in Nat
    BY <2>1
  <2>3. QED
    BY <2>1, <2>2 DEF n
<1> DEFINE n == e.price * e.qty
<1>2. n \in Nat /\ BuyFee(e) \in Nat /\ SellFee(e) \in Nat
  BY <1>1 DEF BuyFee, SellFee, Fee, MakerFeeBps, TakerFeeBps, BpsDenominator
<1> DEFINE a == <<Buyer(e), Cash>>
           b == <<Seller(e), Cash>>
           c == <<Buyer(e), e.sym>>
           d == <<Seller(e), e.sym>>
<1>3. a \in Resources /\ b \in Resources /\ c \in Resources /\ d \in Resources
  BY DEF Buyer, Seller, Resources
<1> DEFINE s1 == [s EXCEPT ![a] = @ - (n + BuyFee(e))]
           s2 == [s1 EXCEPT ![b] = @ + n - SellFee(e)]
           s3 == [s2 EXCEPT ![c] = @ + e.qty]
           s4 == [s3 EXCEPT ![d] = @ - e.qty]
<1>4. Moved(s, e) = s4
  BY DEF Moved
<1> HIDE DEF a, b, c, d, n
<1>5. /\ s1 \in [Resources -> Int]
      /\ \A x \in Resources : s1[x] = s[x] - (IF x = a THEN n + BuyFee(e) ELSE 0)
  BY <1>2, <1>3
<1> HIDE DEF s1
<1>6. /\ s2 \in [Resources -> Int]
      /\ \A x \in Resources : s2[x] = s1[x] + (IF x = b THEN n - SellFee(e) ELSE 0)
  BY <1>2, <1>3, <1>5
<1> HIDE DEF s2
<1>7. /\ s3 \in [Resources -> Int]
      /\ \A x \in Resources : s3[x] = s2[x] + (IF x = c THEN e.qty ELSE 0)
  BY <1>2, <1>3, <1>6
<1> HIDE DEF s3
<1>8. /\ s4 \in [Resources -> Int]
      /\ \A x \in Resources : s4[x] = s3[x] - (IF x = d THEN e.qty ELSE 0)
  BY <1>2, <1>3, <1>7
<1>9. \A x \in Resources : s4[x] = s[x] - (IF x = a THEN n + BuyFee(e) ELSE 0)
                                        + (IF x = b THEN n - SellFee(e) ELSE 0)
                                        + (IF x = c THEN e.qty ELSE 0)
                                        - (IF x = d THEN e.qty ELSE 0)
  <2> HIDE DEF s4
  <2> SUFFICES ASSUME NEW x \in Resources
               PROVE  s4[x] = s[x] - (IF x = a THEN n + BuyFee(e) ELSE 0)
                                        + (IF x = b THEN n - SellFee(e) ELSE 0)
                                        + (IF x = c THEN e.qty ELSE 0)
                                        - (IF x = d THEN e.qty ELSE 0)
    OBVIOUS
  <2>1. s4[x] = s3[x] - (IF x = d THEN e.qty ELSE 0)
    BY <1>8
  <2>2. s3[x] = s2[x] + (IF x = c THEN e.qty ELSE 0)
    BY <1>7
  <2>3. s2[x] = s1[x] + (IF x = b THEN n - SellFee(e) ELSE 0)
    BY <1>6
  <2>4. s1[x] = s[x] - (IF x = a THEN n + BuyFee(e) ELSE 0)
    BY <1>5
  <2> DEFINE A == IF x = a THEN n + BuyFee(e) ELSE 0
             B == IF x = b THEN n - SellFee(e) ELSE 0
             C == IF x = c THEN e.qty ELSE 0
             D == IF x = d THEN e.qty ELSE 0
  <2>5. s4[x] = s3[x] - D /\ s3[x] = s2[x] + C /\ s2[x] = s1[x] + B /\ s1[x] = s[x] - A
    BY <2>1, <2>2, <2>3, <2>4
  <2>0. s[x] \in Int /\ A \in Int /\ B \in Int /\ C \in Int /\ D \in Int
    BY <1>2
  <2> HIDE DEF A, B, C, D
  <2>6. s4[x] = s[x] - A + B + C - D
    BY <2>0, <2>5
  <2>7. QED
    BY <2>6 DEF A, B, C, D
<1>10. QED
  BY <1>2, <1>4, <1>8, <1>9 DEF a, b, c, d, n

LEMMA Trades ==
    ASSUME NEW k, WellKept(k), NEW e, TradesRows(Rows(k), e)
    PROVE  LET j == Trade(k, e)
           IN  /\ WellKept(j) /\ j.settled = Moved(k.settled, e) /\ j.last = k.last
               /\ Rows(j) = Cut(Cut(Rows(k), e.maker, e.qty), e.taker, e.qty)
               /\ j.pending = k.pending
               /\ \A h \in DOMAIN k.pending : j.pool[k.pending[h]] = k.pool[k.pending[h]]
               /\ \A i \in DOMAIN j.open : i \in DOMAIN k.open /\ j.open[i] = k.open[i]
               /\ \A x \in Resources : j.reserved[x] = k.reserved[x]
                     - (IF x = Resource(Rows(k)[e.maker]) THEN Cost(Rows(k)[e.maker], e.qty) ELSE 0)
                     - (IF x = Resource(Rows(k)[e.taker]) THEN Cost(Rows(k)[e.taker], e.qty) ELSE 0)
<1> DEFINE T == Rows(k)
<1>1. /\ e.maker \in DOMAIN T /\ e.taker \in DOMAIN T /\ e.maker # e.taker
      /\ e.makerUser \in Users /\ e.takerUser \in Users /\ e.sym \in Symbols
      /\ e.price \in Nat \ {0} /\ e.qty \in Nat \ {0}
      /\ e.qty \in 1 .. T[e.maker].qty /\ e.qty \in 1 .. T[e.taker].qty
      /\ DOMAIN T = DOMAIN k.open
  <2>1. IsTable(T)
    BY DEF WellKept, Shape
  <2>2. DOMAIN T = DOMAIN k.open
    BY DEF Rows
  <2> HIDE DEF T
  <2>3. QED
    BY <2>1, <2>2, FillIsTyped DEF T
<1> DEFINE k1 == [k EXCEPT !.settled = Moved(k.settled, e)]
           k2 == ReleaseFill(k1, e.maker, e.qty)
           k3 == ReleaseFill(k2, e.taker, e.qty)
<1>2. Trade(k, e) = k3
  BY DEF Trade, Moved, Buyer, Seller, BuyFee, SellFee
<1>3. /\ WellKept(k1) /\ k1.settled = Moved(k.settled, e) /\ k1.last = k.last
      /\ k1.reserved = k.reserved /\ k1.pending = k.pending /\ k1.open = k.open
      /\ k1.pool = k.pool /\ Rows(k1) = T
  <2>1. /\ DOMAIN k1 = Fields /\ k1.settled = Moved(k.settled, e) /\ k1.last = k.last
        /\ k1.reserved = k.reserved /\ k1.pending = k.pending /\ k1.open = k.open
        /\ k1.pool = k.pool
    BY DEF WellKept, Shape, Fields
  <2> HIDE DEF k1
  <2>2. Rows(k1) = T /\ Pend(k1) = Pend(k)
    BY <2>1 DEF Rows, Pend
  <2>3. k1.settled \in [Resources -> Int]
    <3>1. k.settled \in [Resources -> Int]
      BY DEF WellKept, Shape
    <3>2. QED
      BY <1>1, <2>1, <3>1, MovedIs
  <2> HIDE DEF T
  <2>4. Shape(k1)
    BY <2>1, <2>2, <2>3 DEF WellKept, Shape, T
  <2>5. Separate(k1) /\ Exact(k1)
    BY <2>1, <2>2 DEF WellKept, Separate, Exact, ExactAt, T
  <2>6. QED
    BY <2>1, <2>2, <2>4, <2>5 DEF WellKept
<1> HIDE DEF k1
<1>4. /\ WellKept(k2) /\ k2.settled = k1.settled /\ k2.last = k1.last
      /\ Rows(k2) = Cut(T, e.maker, e.qty)
      /\ k2.pending = k1.pending
      /\ \A h \in DOMAIN k1.pending : k2.pool[k1.pending[h]] = k1.pool[k1.pending[h]]
      /\ \A i \in DOMAIN k2.open : i \in DOMAIN k1.open /\ k2.open[i] = k1.open[i]
      /\ \A x \in Resources : k2.reserved[x] = k1.reserved[x] -
            (IF x = Resource(T[e.maker]) THEN Cost(T[e.maker], e.qty) ELSE 0)
  <2>1. e.maker \in DOMAIN k1.open /\ e.qty \in 1 .. Rows(k1)[e.maker].qty
    BY <1>1, <1>3
  <2> HIDE DEF T
  <2>2. QED
    BY <1>3, <2>1, CutsRow
<1> HIDE DEF k2
<1>5. e.taker \in DOMAIN k2.open /\ Rows(k2)[e.taker] = T[e.taker]
  <2>1. DOMAIN Rows(k2) = DOMAIN k2.open
    BY DEF Rows
  <2> HIDE DEF T
  <2>2. e.taker \in DOMAIN Cut(T, e.maker, e.qty) /\ Cut(T, e.maker, e.qty)[e.taker] = T[e.taker]
    BY <1>1 DEF Cut, Without, Restrict, With, Put, Upsert
  <2>3. QED
    BY <1>4, <2>1, <2>2
<1>6. /\ WellKept(k3) /\ k3.settled = k2.settled /\ k3.last = k2.last
      /\ Rows(k3) = Cut(Rows(k2), e.taker, e.qty)
      /\ k3.pending = k2.pending
      /\ \A h \in DOMAIN k2.pending : k3.pool[k2.pending[h]] = k2.pool[k2.pending[h]]
      /\ \A i \in DOMAIN k3.open : i \in DOMAIN k2.open /\ k3.open[i] = k2.open[i]
      /\ \A x \in Resources : k3.reserved[x] = k2.reserved[x] -
            (IF x = Resource(T[e.taker]) THEN Cost(T[e.taker], e.qty) ELSE 0)
  <2>1. e.qty \in 1 .. Rows(k2)[e.taker].qty
    BY <1>1, <1>5
  <2> HIDE DEF T
  <2>2. QED
    BY <1>4, <1>5, <2>1, CutsRow
<1> HIDE DEF k3, T
<1>7. \A x \in Resources : k3.reserved[x] = k.reserved[x]
                     - (IF x = Resource(T[e.maker]) THEN Cost(T[e.maker], e.qty) ELSE 0)
                     - (IF x = Resource(T[e.taker]) THEN Cost(T[e.taker], e.qty) ELSE 0)
  BY <1>3, <1>4, <1>6
<1>8. QED
  BY <1>2, <1>3, <1>4, <1>6, <1>7 DEF T

\* What a record leaves of the orders in flight: an acceptance adopts its own.
LeavesPending(k, e, j) ==
    /\ DOMAIN j.pending = IF e.kind = "OrderAccepted"
                          THEN DOMAIN k.pending \ {OrderKey(e)} ELSE DOMAIN k.pending
    /\ \A h \in DOMAIN j.pending : /\ j.pending[h] = k.pending[h]
                                   /\ j.pool[k.pending[h]] = k.pool[k.pending[h]]
    /\ \A i \in DOMAIN j.open :
          \/ j.open[i] = i
          \/ i \in DOMAIN k.open /\ j.open[i] = k.open[i]
          \/ /\ e.kind = "OrderAccepted" /\ OrderKey(e) \in DOMAIN k.pending
             /\ j.open[i] = k.pending[OrderKey(e)]

\* Any record that may follow is applied to a state well kept, and what is known of
\* the open orders follows from the record alone.
LEMMA Observes ==
    ASSUME NEW k, WellKept(k), NEW e, MayFollow(Rows(k), e),
           e.kind = "OrderAccepted" /\ OrderKey(e) \in DOMAIN k.pending =>
              k.pool[k.pending[OrderKey(e)]] = Reservation(e)
    PROVE  LET j == Observe(k, e)
           IN  /\ WellKept(j) /\ j.last = k.last + 1
               /\ j.settled = NextSettled(k.settled, e)
               /\ Rows(j) = NextRows(Rows(k), e)
               /\ LeavesPending(k, e, j)
<1> DEFINE j == Observe(k, e)
           s == Seen(k)
<1>1. /\ WellKept(s) /\ s.last = k.last + 1
      /\ s.settled = k.settled /\ s.reserved = k.reserved
      /\ s.pending = k.pending /\ s.open = k.open /\ s.pool = k.pool
      /\ Rows(s) = Rows(k) /\ Pend(s) = Pend(k)
  BY SeenIsWellKept
<1> HIDE DEF s
<1>2. CASE e.kind = "OrderAccepted"
  <2>1. j = Accept(s, e)
    BY <1>2 DEF Observe, s, Seen
  <2>2. /\ e.id \notin DOMAIN s.open /\ e.id \notin Calls
        /\ e.user \in Users /\ e.sym \in Symbols /\ e.side \in Sides
        /\ e.price \in Nat \ {0} /\ e.qty \in Nat \ {0}
    <3>1. DOMAIN Rows(k) = DOMAIN s.open
      BY <1>1 DEF Rows
    <3>2. QED
      BY <1>2, <3>1, CallsAreNoIds DEF MayFollow
  <2>3. NextRows(Rows(k), e) = With(Rows(k), e.id, Reservation(e))
        /\ NextSettled(k.settled, e) = k.settled
    BY <1>2 DEF NextRows, NextSettled, With
  <2>4. CASE OrderKey(e) \in DOMAIN k.pending
    <3>1. Pend(s)[OrderKey(e)] = Reservation(e)
      BY <1>1, <1>2, <2>4 DEF Pend
    <3> HIDE DEF j, LeavesPending
    <3>2. /\ WellKept(j) /\ j.settled = s.settled /\ j.last = s.last
          /\ j.pool = s.pool
          /\ Rows(j) = With(Rows(s), e.id, Pend(s)[OrderKey(e)])
          /\ DOMAIN j.pending = DOMAIN s.pending \ {OrderKey(e)}
          /\ \A h \in DOMAIN j.pending : j.pending[h] = s.pending[h]
          /\ DOMAIN j.open = DOMAIN s.open \union {e.id}
          /\ j.open[e.id] = s.pending[OrderKey(e)]
          /\ \A i \in DOMAIN s.open : j.open[i] = s.open[i]
      BY <1>1, <2>1, <2>2, <2>4, Adopts
    <3>3. QED
      BY <1>1, <1>2, <2>3, <2>4, <3>1, <3>2 DEF j, LeavesPending
  <2>5. CASE OrderKey(e) \notin DOMAIN k.pending
    <3>1. IsOrder(Reservation(e))
      BY <2>2 DEF IsOrder, Reservation
    <3> HIDE DEF j, LeavesPending
    <3>2. /\ WellKept(j) /\ j.settled = s.settled /\ j.last = s.last
          /\ Rows(j) = With(Rows(s), e.id, Reservation(e))
          /\ j.pending = s.pending
          /\ \A h \in DOMAIN s.pending : j.pool[s.pending[h]] = s.pool[s.pending[h]]
          /\ DOMAIN j.open = DOMAIN s.open \union {e.id}
          /\ j.open[e.id] = e.id
          /\ \A i \in DOMAIN s.open : j.open[i] = s.open[i]
      BY <1>1, <2>1, <2>2, <2>5, <3>1, CommitsAnew
    <3>3. QED
      BY <1>1, <1>2, <2>3, <2>5, <3>2 DEF j, LeavesPending
  <2>6. QED
    BY <2>4, <2>5
<1>3. CASE e.kind = "Fill"
  <2>1. j = Trade(s, e)
    BY <1>3 DEF Observe, s, Seen
  <2>2. TradesRows(Rows(s), e)
    BY <1>1, <1>3 DEF MayFollow
  <2>3. NextRows(Rows(k), e) = Cut(Cut(Rows(k), e.maker, e.qty), e.taker, e.qty)
        /\ NextSettled(k.settled, e) = Moved(k.settled, e)
    BY <1>3 DEF NextRows, NextSettled
  <2> HIDE DEF j, LeavesPending
  <2>4. /\ WellKept(j) /\ j.settled = Moved(s.settled, e) /\ j.last = s.last
        /\ Rows(j) = Cut(Cut(Rows(s), e.maker, e.qty), e.taker, e.qty)
        /\ j.pending = s.pending
        /\ \A h \in DOMAIN s.pending : j.pool[s.pending[h]] = s.pool[s.pending[h]]
        /\ \A i \in DOMAIN j.open : i \in DOMAIN s.open /\ j.open[i] = s.open[i]
    BY <1>1, <2>1, <2>2, Trades
  <2>5. QED
    BY <1>1, <1>3, <2>3, <2>4 DEF j, LeavesPending
<1>4. CASE e.kind = "OrderCancelled"
  <2>1. j = Retire(s, e.id)
    BY <1>4 DEF Observe, s, Seen
  <2>2. /\ e.id \in DOMAIN Rows(k) => NextRows(Rows(k), e) = Without(Rows(k), e.id)
        /\ e.id \notin DOMAIN Rows(k) => NextRows(Rows(k), e) = Rows(k)
        /\ NextSettled(k.settled, e) = k.settled
    BY <1>4 DEF NextRows, NextSettled
  <2>3. DOMAIN Rows(k) = DOMAIN s.open
    BY <1>1 DEF Rows
  <2> HIDE DEF j, LeavesPending
  <2>4. CASE e.id \in DOMAIN s.open
    <3>1. /\ WellKept(j) /\ j.settled = s.settled /\ j.last = s.last
          /\ Rows(j) = Without(Rows(s), e.id)
          /\ j.pending = s.pending /\ j.pool = s.pool
          /\ DOMAIN j.open \subseteq DOMAIN s.open
          /\ \A i \in DOMAIN j.open : j.open[i] = s.open[i]
      BY <1>1, <2>1, <2>4, Retires
    <3>2. QED
      BY <1>1, <1>4, <2>2, <2>3, <2>4, <3>1 DEF j, LeavesPending
  <2>5. CASE e.id \notin DOMAIN s.open
    <3>1. j = s
      BY <2>1, <2>5 DEF Retire
    <3>2. QED
      BY <1>1, <1>4, <2>2, <2>3, <2>5, <3>1 DEF j, LeavesPending
  <2>6. QED
    BY <2>4, <2>5
<1>5. CASE e.kind = "OrderRejected"
  <2>1. j = s
    BY <1>5 DEF Observe, s, Seen
  <2>2. NextRows(Rows(k), e) = Rows(k) /\ NextSettled(k.settled, e) = k.settled
    BY <1>5 DEF NextRows, NextSettled
  <2> HIDE DEF j, LeavesPending
  <2>3. QED
    BY <1>1, <1>5, <2>1, <2>2 DEF j, LeavesPending
<1>6. QED
  BY <1>2, <1>3, <1>4, <1>5 DEF MayFollow

-----------------------------------------------------------------------------
(* The risk state the stream tells. *)

LEMMA FoldIs ==
    ASSUME NEW b, NEW s
    PROVE  FoldLeft(Observe, b, s) = Sums!Folded(b, s)
  BY DEF FoldLeft, MapThenFoldSet, Sums!Folded, Sums!Folds, Sums!Max, Max

\* The risk state of somebody who applies the first n records of a stream and
\* sends no order himself.
Told(stream, n) == FoldLeft(Observe, Genesis, SubSeq(stream, 1, n))

LEMMA ToldSteps ==
    ASSUME NEW S, NEW s \in Seq(S)
    PROVE  /\ Told(s, 0) = Genesis
           /\ \A n \in 1 .. Len(s) : Told(s, n) = Observe(Told(s, n - 1), s[n])
<1>1. \A n : Told(s, n) = Sums!Folded(Genesis, SubSeq(s, 1, n))
  BY FoldIs DEF Told
<1>2. QED
  BY <1>1, Sums!FoldedPrefix

\* The rows a stretch of records leaves, record by record.
LEMMA RowsSteps ==
    ASSUME NEW S, NEW s \in Seq(S), NEW T
    PROVE  /\ RowsAfter(T, s, 0) = T
           /\ \A n \in 1 .. Len(s) : RowsAfter(T, s, n) = NextRows(RowsAfter(T, s, n - 1), s[n])
<1>1. \A n : RowsAfter(T, s, n) = Tables!Folded(T, SubSeq(s, 1, n))
  BY DEF RowsAfter, FoldLeft, MapThenFoldSet, Tables!Folded, Tables!Folds, Tables!Max, Max
<1>2. QED
  BY <1>1, Tables!FoldedPrefix

\* What was told is not taken back.
LEMMA ToldAlready ==
    ASSUME NEW S, NEW s \in Seq(S), NEW t \in Seq(S), Len(s) <= Len(t),
           \A i \in 1 .. Len(s) : t[i] = s[i], NEW n \in 0 .. Len(s)
    PROVE  Told(t, n) = Told(s, n) /\ SubSeq(t, 1, n) = SubSeq(s, 1, n)
<1>1. SubSeq(t, 1, n) = SubSeq(s, 1, n)
  BY SubSeqProperties
<1>2. QED
  BY <1>1 DEF Told

LEMMA EmptyCommits ==
    ASSUME NEW T, DOMAIN T = {}
    PROVE  IsTable(T) /\ \A x : Commits(T, x) = 0
<1>1. IsTable(T) /\ Sums!IsFiniteSet({})
  BY FS_EmptySet, Finite DEF IsTable
<1>2. ASSUME NEW x PROVE Commits(T, x) = 0
  <2> DEFINE f == [i \in DOMAIN T |-> Owed(T, i, x)]
  <2>1. \A i \in {} : f[i] \in Int
    OBVIOUS
  <2> HIDE DEF f
  <2>2. Sums!SumOver(f, {}) = 0
    BY <1>1, <2>1, Sums!SumSteps
  <2>3. QED
    BY <2>2 DEF Commits, f
<1>3. QED
  BY <1>1, <1>2

LEMMA GenesisIsWellKept ==
    /\ WellKept(Genesis) /\ Genesis.last = 0
    /\ DOMAIN Genesis.pending = {} /\ DOMAIN Genesis.open = {}
<1> DEFINE g == Genesis
<1>1. /\ DOMAIN g = Fields /\ g.settled = Holdings /\ g.last = 0
      /\ g.reserved = [x \in Resources |-> 0]
      /\ DOMAIN g.pending = {} /\ DOMAIN g.open = {}
  BY DEF Genesis, Fields
<1> HIDE DEF g
<1>2. DOMAIN Rows(g) = {} /\ DOMAIN Pend(g) = {}
  BY <1>1 DEF Rows, Pend
<1>3. Holdings \in [Resources -> Int]
  BY HoldingsAreNat
<1>4. Shape(g)
  BY <1>1, <1>2, <1>3, EmptyCommits DEF Shape
<1>5. Separate(g)
  BY <1>1 DEF Separate
<1>6. Exact(g)
  <2> SUFFICES ASSUME NEW x \in Resources PROVE ExactAt(g, x)
    BY DEF Exact
  <2>1. Commits(Rows(g), x) = 0 /\ Commits(Pend(g), x) = 0
    BY <1>2, EmptyCommits
  <2>2. g.reserved[x] = 0
    BY <1>1
  <2>3. QED
    BY <2>1, <2>2 DEF ExactAt
<1>7. QED
  BY <1>1, <1>4, <1>5, <1>6 DEF WellKept, g

\* Two views of the same exchange: the balances and the open orders agree.
Alike(k, t) == k.settled = t.settled /\ Rows(k) = Rows(t) /\ k.last = t.last

\* Every record that may follow for one of them is the same step for both.
LEMMA StaysAlike ==
    ASSUME NEW k, WellKept(k), NEW t, WellKept(t), Alike(k, t),
           NEW e, MayFollow(Rows(t), e), DOMAIN t.pending = {},
           e.kind = "OrderAccepted" /\ OrderKey(e) \in DOMAIN k.pending =>
              k.pool[k.pending[OrderKey(e)]] = Reservation(e)
    PROVE  /\ WellKept(Observe(k, e)) /\ WellKept(Observe(t, e))
           /\ Alike(Observe(k, e), Observe(t, e))
           /\ Observe(k, e).last = k.last + 1
           /\ DOMAIN Observe(t, e).pending = {}
<1> DEFINE a == Observe(k, e)
           b == Observe(t, e)
<1>1. MayFollow(Rows(k), e)
  BY DEF Alike
<1>2. /\ WellKept(a) /\ a.last = k.last + 1
      /\ a.settled = NextSettled(k.settled, e) /\ Rows(a) = NextRows(Rows(k), e)
  <2> HIDE DEF a
  <2>1. QED
    BY <1>1, Observes DEF a
<1>3. /\ WellKept(b) /\ b.last = t.last + 1
      /\ b.settled = NextSettled(t.settled, e) /\ Rows(b) = NextRows(Rows(t), e)
      /\ DOMAIN b.pending = {}
  <2> HIDE DEF b
  <2>1. OrderKey(e) \notin DOMAIN t.pending
    OBVIOUS
  <2>2. QED
    BY <2>1, Observes DEF b, LeavesPending
<1> HIDE DEF a, b
<1>4. Alike(a, b)
  BY <1>2, <1>3 DEF Alike
<1>5. QED
  BY <1>2, <1>3, <1>4 DEF a, b

LEMMA ToldIsWellKept ==
    ASSUME NEW S, NEW s \in Seq(S),
           \A n \in 1 .. Len(s) : MayFollow(Rows(Told(s, n - 1)), s[n])
    PROVE  \A n \in 0 .. Len(s) : /\ WellKept(Told(s, n)) /\ Told(s, n).last = n
                                  /\ DOMAIN Told(s, n).pending = {}
<1> DEFINE P == {n \in 0 .. Len(s) : /\ WellKept(Told(s, n)) /\ Told(s, n).last = n
                                     /\ DOMAIN Told(s, n).pending = {}}
<1>1. Len(s) \in Nat
  OBVIOUS
<1>2. 0 \in P
  <2>1. Told(s, 0) = Genesis
    BY <1>1, ToldSteps
  <2>2. QED
    BY <1>1, <2>1, GenesisIsWellKept
<1>3. ASSUME NEW n \in 0 .. Len(s) - 1, n \in P
      PROVE  n + 1 \in P
  <2> DEFINE t == Told(s, n)
  <2>1. n + 1 \in 1 .. Len(s) /\ (n + 1) - 1 = n /\ n + 1 \in 0 .. Len(s)
    OBVIOUS
  <2>2. Told(s, n + 1) = Observe(t, s[n + 1])
    BY <2>1, ToldSteps
  <2>3. WellKept(t) /\ t.last = n /\ DOMAIN t.pending = {} /\ MayFollow(Rows(t), s[n + 1])
    BY <1>3, <2>1
  <2> HIDE DEF t
  <2>4. /\ WellKept(Observe(t, s[n + 1])) /\ Observe(t, s[n + 1]).last = t.last + 1
        /\ DOMAIN Observe(t, s[n + 1]).pending = {}
    BY <2>3, StaysAlike DEF Alike
  <2>5. QED
    BY <2>1, <2>2, <2>3, <2>4
<1>4. 0 .. Len(s) \subseteq P
  <2> DEFINE m == Len(s)
  <2> HIDE DEF P
  <2>1. m \in Nat /\ 0 \in P /\ \A n \in 0 .. m - 1 : n \in P => n + 1 \in P
    BY <1>1, <1>2, <1>3
  <2> HIDE DEF m
  <2>2. 0 .. m \subseteq P
    BY <2>1, Sums!UpTo
  <2>3. QED
    BY <2>2 DEF m
<1>5. QED
  BY <1>4

-----------------------------------------------------------------------------
(* What the code computes by walking over reservations. *)

\* Where every entry has a reservation of its own, walking over the reservations
\* adds up what the table commits.
LEMMA CommittedIs ==
    ASSUME NEW k, NEW T, IsTable(T), NEW p,
           \A i \in DOMAIN T : T[i] = k.pool[p[i]],
           \A i \in DOMAIN T : \A g \in DOMAIN T : p[i] = p[g] => i = g,
           NEW R, R = {p[i] : i \in DOMAIN T}, NEW x
    PROVE  Committed(k, R, x) = Commits(T, x)
<1> DEFINE D == DOMAIN T
           S == {r \in R : Resource(k.pool[r]) = x}
           cost == [r \in S |-> Cost(k.pool[r], k.pool[r].qty)]
           all == [r \in R |-> IF Resource(k.pool[r]) = x
                               THEN Cost(k.pool[r], k.pool[r].qty) ELSE 0]
           f == [i \in D |-> Owed(T, i, x)]
<1>1. Committed(k, R, x) = Sums!SumOver(cost, S)
  <2>1. DOMAIN cost = S
    OBVIOUS
  <2>2. Committed(k, R, x) = MapThenSumSet(LAMBDA r : cost[r], S)
    BY DEF Committed
  <2> HIDE DEF cost, S
  <2>3. MapThenSumSet(LAMBDA r : cost[r], S) = Sums!SumOver(cost, S)
    BY DEF MapThenSumSet, MapThenFoldSet, Sums!SumOver, Sums!Sums
  <2>4. QED
    BY <2>2, <2>3
<1>2. \A i \in D : f[i] \in Int /\ all[p[i]] = f[i]
  <2>1. \A i \in D : f[i] \in Int
    BY CommitsAreNat
  <2>2. \A i \in D : p[i] \in R
    OBVIOUS
  <2>3. \A i \in D : all[p[i]] = f[i]
    BY <2>2 DEF Owed
  <2>4. QED
    BY <2>1, <2>3
<1>3. IsFiniteSet(D) /\ Sums!IsFiniteSet(D) /\ IsFiniteSet(R) /\ Sums!IsFiniteSet(R)
  <2>1. IsFiniteSet(D)
    BY DEF IsTable
  <2>2. [i \in D |-> p[i]] \in Surjection(D, R)
    BY DEF Surjection
  <2> HIDE DEF D
  <2>3. IsFiniteSet(R)
    BY <2>1, <2>2, FS_Surjection
  <2>4. QED
    BY <2>1, <2>3, Finite
<1>4. Sums!SumOver(all, R) = Sums!SumOver(f, D)
  <2>1. R = {p[i] : i \in D} /\ \A i \in D : \A g \in D : p[i] = p[g] => i = g
    OBVIOUS
  <2> HIDE DEF f, all, D
  <2>2. Sums!SumOver(all, {p[i] : i \in D}) = Sums!SumOver(f, D)
    BY <1>2, <1>3, <2>1, Sums!SumRenamed
  <2>3. QED
    BY <2>1, <2>2
<1>5. Sums!SumOver(cost, S) = Sums!SumOver(all, R)
  <2>1. \A r \in R : all[r] \in Int
    BY <1>2
  <2>2. S \in SUBSET R /\ \A r \in S : cost[r] = all[r]
    OBVIOUS
  <2>3. \A r \in R \ S : all[r] = 0
    OBVIOUS
  <2> HIDE DEF cost, all, S
  <2>4. QED
    BY <1>3, <2>1, <2>2, <2>3, Sums!SumOfSame
<1>6. QED
  BY <1>1, <1>4, <1>5 DEF Commits

\* Where the entries are named by their reservations.
LEMMA CommittedByName ==
    ASSUME NEW k, NEW T, IsTable(T), \A r \in DOMAIN T : T[r] = k.pool[r], NEW x
    PROVE  Committed(k, DOMAIN T, x) = Commits(T, x)
<1> DEFINE id == [r \in DOMAIN T |-> r]
<1>1. \A r \in DOMAIN T : id[r] = r
  OBVIOUS
<1>2. {id[r] : r \in DOMAIN T} = DOMAIN T
  OBVIOUS
<1> HIDE DEF id
<1>3. \A r \in DOMAIN T : T[r] = k.pool[id[r]]
  BY <1>1
<1>4. \A r \in DOMAIN T : \A q \in DOMAIN T : id[r] = id[q] => r = q
  BY <1>1
<1>5. QED
  BY <1>2, <1>3, <1>4, CommittedIs

\* What dump_state leaves out is what the orders in flight commit.
LEMMA PendingIsCommitted ==
    ASSUME NEW k, WellKept(k), NEW x
    PROVE  /\ Committed(k, Range(k.pending), x) = Commits(Pend(k), x)
           /\ Committed(k, Range(k.open), x) = Commits(Rows(k), x)
<1>1. IsTable(Rows(k)) /\ IsTable(Pend(k)) /\ Separate(k)
  BY DEF WellKept, Shape
<1>2. /\ DOMAIN Pend(k) = DOMAIN k.pending /\ DOMAIN Rows(k) = DOMAIN k.open
      /\ \A h \in DOMAIN k.pending : Pend(k)[h] = k.pool[k.pending[h]]
      /\ \A i \in DOMAIN k.open : Rows(k)[i] = k.pool[k.open[i]]
  BY DEF Pend, Rows
<1>3. /\ \A h \in DOMAIN k.pending : \A g \in DOMAIN k.pending : k.pending[h] = k.pending[g] => h = g
      /\ \A i \in DOMAIN k.open : \A g \in DOMAIN k.open : k.open[i] = k.open[g] => i = g
  BY <1>1 DEF Separate
<1>4. Committed(k, Range(k.pending), x) = Commits(Pend(k), x)
  <2> DEFINE p == k.pending
             T == Pend(k)
             R == Range(k.pending)
  <2>1. /\ IsTable(T) /\ \A h \in DOMAIN T : T[h] = k.pool[p[h]]
        /\ \A h \in DOMAIN T : \A g \in DOMAIN T : p[h] = p[g] => h = g
        /\ R = {p[h] : h \in DOMAIN T}
    BY <1>1, <1>2, <1>3 DEF Range
  <2> HIDE DEF p, T, R
  <2>2. Committed(k, R, x) = Commits(T, x)
    BY <2>1, CommittedIs
  <2>3. QED
    BY <2>2 DEF T, R
<1>5. Committed(k, Range(k.open), x) = Commits(Rows(k), x)
  <2> DEFINE p == k.open
             T == Rows(k)
             R == Range(k.open)
  <2>1. /\ IsTable(T) /\ \A i \in DOMAIN T : T[i] = k.pool[p[i]]
        /\ \A i \in DOMAIN T : \A g \in DOMAIN T : p[i] = p[g] => i = g
        /\ R = {p[i] : i \in DOMAIN T}
    BY <1>1, <1>2, <1>3 DEF Range
  <2> HIDE DEF p, T, R
  <2>2. Committed(k, R, x) = Commits(T, x)
    BY <2>1, CommittedIs
  <2>3. QED
    BY <2>2 DEF T, R
<1>6. QED
  BY <1>4, <1>5

\* CommitmentsExact, of any risk state that is well kept.
LEMMA CommittedIsReserved ==
    ASSUME NEW k, WellKept(k), NEW x \in Resources
    PROVE  k.reserved[x] = Committed(k, Range(k.pending) \union Range(k.open), x)
<1> DEFINE A == Range(k.pending)
           B == Range(k.open)
           T(S) == [r \in S |-> k.pool[r]]
           f(S) == [r \in S |-> Owed(T(S), r, x)]
<1>1. Separate(k) /\ IsTable(Rows(k)) /\ IsTable(Pend(k)) /\ ExactAt(k, x)
  BY DEF WellKept, Shape, Exact
<1>2. A \intersect B = {}
  BY <1>1 DEF Separate, Range
<1>3. IsFiniteSet(A) /\ IsFiniteSet(B)
  <2>1. DOMAIN Pend(k) = DOMAIN k.pending /\ DOMAIN Rows(k) = DOMAIN k.open
    BY DEF Pend, Rows
  <2>2. IsFiniteSet(DOMAIN k.pending) /\ IsFiniteSet(DOMAIN k.open)
    BY <1>1, <2>1 DEF IsTable
  <2>3. /\ [h \in DOMAIN k.pending |-> k.pending[h]] \in Surjection(DOMAIN k.pending, A)
        /\ [i \in DOMAIN k.open |-> k.open[i]] \in Surjection(DOMAIN k.open, B)
    BY DEF Surjection, Range
  <2> HIDE DEF A, B
  <2>4. QED
    BY <2>2, <2>3, FS_Surjection
<1>4. \A r \in A \union B : IsOrder(k.pool[r])
  BY <1>1 DEF IsTable, Pend, Rows, Range
<1>5. \A S \in SUBSET (A \union B) :
         IsTable(T(S)) /\ Committed(k, S, x) = Sums!SumOver(f(S), S)
  <2> SUFFICES ASSUME NEW S \in SUBSET (A \union B)
               PROVE  IsTable(T(S)) /\ Committed(k, S, x) = Sums!SumOver(f(S), S)
    OBVIOUS
  <2>1. IsFiniteSet(S)
    BY <1>3, FS_Union, FS_Subset
  <2>2. IsTable(T(S)) /\ DOMAIN T(S) = S /\ \A r \in S : T(S)[r] = k.pool[r]
    BY <1>4, <2>1 DEF IsTable
  <2> DEFINE t == T(S)
  <2>3. IsTable(t) /\ DOMAIN t = S /\ \A r \in DOMAIN t : t[r] = k.pool[r]
    BY <2>2
  <2>4. Sums!SumOver(f(S), S) = Commits(t, x)
    BY <2>2 DEF Commits
  <2> HIDE DEF t
  <2>5. Committed(k, DOMAIN t, x) = Commits(t, x)
    BY <2>3, CommittedByName
  <2>6. QED
    BY <2>2, <2>3, <2>4, <2>5
<1> DEFINE C == A \union B
           g == f(C)
<1>6. \A r \in C : g[r] \in Int
  BY <1>5, CommitsAreNat
<1>7. /\ Sums!SumOver(f(A), A) = Sums!SumOver(g, A)
      /\ Sums!SumOver(f(B), B) = Sums!SumOver(g, B)
  <2> SUFFICES ASSUME NEW S \in {A, B}
               PROVE  Sums!SumOver(f(S), S) = Sums!SumOver(g, S)
    OBVIOUS
  <2>1. S \in SUBSET S /\ (\A r \in S : f(S)[r] = g[r]) /\ (\A r \in S \ S : g[r] = 0)
    BY DEF Owed
  <2>2. \A r \in S : g[r] \in Int
    BY <1>6
  <2>3. Sums!IsFiniteSet(S)
    BY <1>3, Finite
  <2> DEFINE h == f(S)
  <2>4. \A r \in S : h[r] = g[r]
    BY <2>1
  <2> HIDE DEF g, h
  <2>5. Sums!SumOver(h, S) = Sums!SumOver(g, S)
    BY <2>1, <2>2, <2>3, <2>4, Sums!SumOfSame
  <2>6. QED
    BY <2>5 DEF h
<1>8. Sums!SumOver(g, A \union B) = Sums!SumOver(g, A) + Sums!SumOver(g, B)
  <2>1. Sums!IsFiniteSet(A) /\ Sums!IsFiniteSet(B)
    BY <1>3, Finite
  <2>2. \A r \in A \union B : g[r] \in Int
    BY <1>6
  <2> HIDE DEF g, A, B
  <2>3. QED
    BY <1>2, <2>1, <2>2, Sums!SumOfParts
<1>9. Committed(k, A \union B, x) = Committed(k, A, x) + Committed(k, B, x)
  BY <1>5, <1>7, <1>8
<1>10. Committed(k, A, x) = Commits(Pend(k), x) /\ Committed(k, B, x) = Commits(Rows(k), x)
  BY PendingIsCommitted
<1>11. Commits(Pend(k), x) \in Int /\ Commits(Rows(k), x) \in Int
  BY <1>1, CommitsAreNat
<1>12. QED
  BY <1>1, <1>9, <1>10, <1>11 DEF ExactAt

\* What is saved is what the open orders commit, whoever saves it.
LEMMA DumpIs ==
    ASSUME NEW k, WellKept(k)
    PROVE  Dump(k) = [settled |-> k.settled,
                      reserved |-> [x \in Resources |-> Commits(Rows(k), x)],
                      open |-> Rows(k), last |-> k.last]
<1>1. ASSUME NEW x \in Resources
      PROVE  k.reserved[x] - Committed(k, Range(k.pending), x) = Commits(Rows(k), x)
  <2>1. IsTable(Rows(k)) /\ IsTable(Pend(k)) /\ k.reserved[x] = Commits(Rows(k), x) + Commits(Pend(k), x)
    BY DEF WellKept, Shape, Exact, ExactAt
  <2>2. Commits(Pend(k), x) \in Int /\ Commits(Rows(k), x) \in Int
    BY <2>1, CommitsAreNat
  <2>3. QED
    BY <2>1, <2>2, PendingIsCommitted
<1>2. [x \in Resources |-> k.reserved[x] - Committed(k, Range(k.pending), x)] =
         [x \in Resources |-> Commits(Rows(k), x)]
  BY <1>1
<1>3. QED
  BY <1>2 DEF Dump

LEMMA AlikeDumps ==
    ASSUME NEW k, WellKept(k), NEW t, WellKept(t), Alike(k, t)
    PROVE  Dump(k) = Dump(t)
  BY DumpIs DEF Alike

\* A gateway that starts from a dump knows what its writer knew of the stream.
LEMMA LoadIs ==
    ASSUME NEW t, WellKept(t)
    PROVE  LET k == Load(Dump(t))
           IN  /\ WellKept(k) /\ Alike(k, t) /\ DOMAIN k.pending = {}
               /\ \A i \in DOMAIN k.open : k.open[i] = i
<1> DEFINE s == Dump(t)
           rows == Rows(t)
           k0 == [settled |-> s.settled, reserved |-> s.reserved, pending |-> <<>>,
                  open |-> [id \in DOMAIN s.open |-> id], pool |-> s.open, last |-> s.last]
           k == Load(s)
<1>1. /\ s.settled = t.settled /\ s.open = rows /\ s.last = t.last
      /\ s.reserved = [x \in Resources |-> Commits(rows, x)]
  BY DumpIs
<1>2. /\ t.settled \in [Resources -> Int] /\ t.last \in Nat /\ IsTable(rows) /\ Separate(t)
      /\ rows = [i \in DOMAIN rows |-> rows[i]] /\ DOMAIN rows = DOMAIN t.open
  BY DEF WellKept, Shape, Rows
<1> HIDE DEF s, rows
<1>3. \A x \in Resources : Committed(k0, DOMAIN s.open, x) = Commits(rows, x)
  <2>1. DOMAIN s.open = DOMAIN rows /\ \A i \in DOMAIN rows : rows[i] = k0.pool[i]
    BY <1>1
  <2> HIDE DEF k0
  <2>2. QED
    BY <1>2, <2>1, CommittedByName
<1>4. /\ DOMAIN k = Fields /\ k.settled = t.settled /\ k.last = t.last
      /\ k.pool = rows /\ k.open = [id \in DOMAIN rows |-> id] /\ k.pending = <<>>
      /\ k.reserved = [x \in Resources |-> IF x[2] = Cash THEN Committed(k0, DOMAIN s.open, x)
                                                          ELSE s.reserved[x]]
  BY <1>1 DEF Load, Fields
<1>5. \A x \in Resources : k.reserved[x] = Commits(rows, x)
  BY <1>1, <1>3, <1>4
<1>6. k.reserved \in [Resources -> Int]
  <2>1. \A x \in Resources : Commits(rows, x) \in Int
    BY <1>2, CommitsAreNat
  <2> HIDE DEF k, k0
  <2>2. DOMAIN k.reserved = Resources /\ k.reserved = [x \in Resources |-> k.reserved[x]]
    BY <1>4
  <2>3. QED
    BY <1>5, <2>1, <2>2
<1> HIDE DEF k, k0
<1>7. DOMAIN k.pending = {} /\ DOMAIN k.open = DOMAIN rows /\ \A i \in DOMAIN rows : k.open[i] = i
  BY <1>4
<1>8. Rows(k) = rows
  <2>1. Rows(k) = [i \in DOMAIN rows |-> rows[i]]
    BY <1>4, <1>7 DEF Rows
  <2>2. QED
    BY <1>2, <2>1
<1>9. DOMAIN Pend(k) = {}
  BY <1>7 DEF Pend
<1>10. Shape(k)
  BY <1>2, <1>4, <1>6, <1>8, <1>9, EmptyCommits DEF Shape
<1>11. Separate(k)
  BY <1>2, <1>4, <1>7 DEF Separate
<1>12. Exact(k)
  <2> SUFFICES ASSUME NEW x \in Resources PROVE ExactAt(k, x)
    BY DEF Exact
  <2>1. Commits(Pend(k), x) = 0 /\ Commits(rows, x) \in Int
    BY <1>2, <1>9, EmptyCommits, CommitsAreNat
  <2>2. QED
    BY <1>5, <1>8, <2>1 DEF ExactAt
<1>13. QED
  BY <1>4, <1>7, <1>8, <1>10, <1>11, <1>12 DEF WellKept, Alike, k, s, rows

\* A state that knows the first m records, and has no order in flight, knows the
\* first n when it has read on: by itself, or after a restart.
ByItself(k) == DOMAIN k.pending = {} /\ \A i \in DOMAIN k.open : k.open[i] = i

Follows(s) == \A n \in 1 .. Len(s) : MayFollow(Rows(Told(s, n - 1)), s[n])

LEMMA Replays ==
    ASSUME NEW S, NEW s \in Seq(S), Follows(s), NEW n \in 0 .. Len(s), NEW m \in 0 .. n,
           NEW k, WellKept(k), Alike(k, Told(s, m)), ByItself(k)
    PROVE  LET j == Replay(k, SubSeq(s, 1, n))
           IN  WellKept(j) /\ Alike(j, Told(s, n)) /\ ByItself(j)
<1> DEFINE r == SubSeq(s, 1, n)
           u == SubSeq(r, k.last + 1, Len(r))
           l == n - m
           f == FoldLeft(Observe, k, u)
<1>1. \A i \in 0 .. Len(s) : /\ WellKept(Told(s, i)) /\ Told(s, i).last = i
                             /\ DOMAIN Told(s, i).pending = {}
  BY ToldIsWellKept DEF Follows
<1>2. k.last = m /\ l \in Nat /\ Len(s) \in Nat /\ m \in Nat /\ n \in Nat
  <2>1. m \in 0 .. Len(s)
    OBVIOUS
  <2>2. Told(s, m).last = m
    BY <1>1, <2>1
  <2>3. QED
    BY <2>2 DEF Alike
<1>3. r \in Seq(S) /\ Len(r) = n /\ \A i \in 1 .. n : r[i] = s[i]
  <2>1. \A i \in 1 .. n : i \in 1 .. Len(s)
    OBVIOUS
  <2>2. QED
    BY <1>2, <2>1, SubSeqProperties
<1> HIDE DEF r
<1>4. u \in Seq(S) /\ Len(u) = l /\ \A i \in 1 .. l : u[i] = s[m + i]
  <2>1. u = SubSeq(r, m + 1, n)
    BY <1>2, <1>3
  <2>2. /\ Len(u) = l /\ u \in Seq(S)
        /\ \A i \in 1 .. l : u[i] = r[m + i]
    <3>1. m + 1 \in 1 .. n + 1 /\ n \in (m + 1) - 1 .. n
      BY <1>2
    <3>2. \A i \in (m + 1) .. n : i \in 1 .. Len(r)
      BY <1>2, <1>3
    <3>3. QED
      BY <1>2, <1>3, <2>1, <3>1, <3>2, SubSeqProperties
  <2>3. \A i \in 1 .. l : m + i \in 1 .. n
    BY <1>2
  <2>4. QED
    BY <1>3, <2>2, <2>3
<1> HIDE DEF u
<1>5. PICK v : /\ v[0] = k /\ v[l] = f
               /\ \A i \in 0 .. l - 1 : v[i + 1] = Observe(v[i], u[i + 1])
  <2> HIDE DEF l, f
  <2>1. DOMAIN u = 1 .. l
    BY <1>4
  <2>2. \E v : /\ v[0] = k /\ v[l] = Sums!Folded(k, u)
               /\ \A i \in 0 .. l - 1 : v[i + 1] = Observe(v[i], u[i + 1])
    BY <1>2, <2>1, Sums!FoldedRun
  <2>3. f = Sums!Folded(k, u)
    BY FoldIs DEF f
  <2>4. QED
    BY <2>2, <2>3
<1> DEFINE P == {i \in 0 .. l : WellKept(v[i]) /\ Alike(v[i], Told(s, m + i)) /\ ByItself(v[i])}
<1>6. 0 \in P
  BY <1>2, <1>5
<1>7. ASSUME NEW i \in 0 .. l - 1, i \in P
      PROVE  i + 1 \in P
  <2> DEFINE t == Told(s, m + i)
             e == s[m + i + 1]
             b == v[i]
             w == Observe(b, e)
  <2>1. /\ m + i \in 0 .. Len(s) /\ m + i + 1 \in 1 .. Len(s) /\ (m + i + 1) - 1 = m + i
        /\ i + 1 \in 1 .. l /\ i + 1 \in 0 .. l /\ m + (i + 1) = m + i + 1
    BY <1>2
  <2>2. WellKept(t) /\ DOMAIN t.pending = {} /\ MayFollow(Rows(t), e)
    BY <1>1, <2>1 DEF Follows
  <2>3. WellKept(b) /\ Alike(b, t) /\ ByItself(b)
    BY <1>7
  <2>4. v[i + 1] = w
    BY <1>4, <1>5, <2>1
  <2>5. Told(s, m + i + 1) = Observe(t, e)
    BY <2>1, ToldSteps
  <2> HIDE DEF t, e, b
  <2>6. DOMAIN b.pending = {} /\ \A h : h \notin DOMAIN b.pending
    BY <2>3 DEF ByItself
  <2>7. WellKept(w) /\ Alike(w, Observe(t, e))
    BY <2>2, <2>3, <2>6, StaysAlike
  <2>8. MayFollow(Rows(b), e)
    BY <2>2, <2>3 DEF Alike
  <2>9. ByItself(w)
    <3> HIDE DEF w
    <3>1. /\ DOMAIN w.pending \subseteq DOMAIN b.pending
          /\ \A g \in DOMAIN w.open : \/ w.open[g] = g
                                      \/ g \in DOMAIN b.open /\ w.open[g] = b.open[g]
      BY <2>3, <2>6, <2>8, Observes DEF w, LeavesPending
    <3>2. QED
      BY <2>3, <2>6, <3>1 DEF ByItself
  <2>10. QED
    BY <2>1, <2>4, <2>5, <2>7, <2>9
<1>8. WellKept(f) /\ Alike(f, Told(s, n)) /\ ByItself(f)
  <2> HIDE DEF P
  <2>1. 0 .. l \subseteq P
    <3> HIDE DEF l
    <3>1. QED
      BY <1>2, <1>6, <1>7, Sums!UpTo
  <2>2. l \in P /\ m + l = n
    BY <1>2, <2>1
  <2>3. QED
    BY <1>5, <2>2 DEF P
<1> HIDE DEF f
<1>9. Replay(k, r) = Collect(f, {})
  BY DEF Replay, f, u
<1>10. /\ WellKept(Collect(f, {})) /\ Alike(Collect(f, {}), Told(s, n))
       /\ ByItself(Collect(f, {}))
  <2> DEFINE j == Collect(f, {})
  <2>1. /\ WellKept(j) /\ j.settled = f.settled /\ j.last = f.last
        /\ j.pending = f.pending /\ j.open = f.open /\ Rows(j) = Rows(f)
    BY <1>8, Collects
  <2> HIDE DEF j
  <2>2. QED
    BY <1>8, <2>1 DEF Alike, ByItself, j
<1>11. QED
  BY <1>9, <1>10 DEF r

\* A checkpoint taken at any moment is what a replay from genesis gives.
LEMMA ReplaysFromGenesis ==
    ASSUME NEW S, NEW s \in Seq(S), Follows(s), NEW n \in 0 .. Len(s)
    PROVE  Dump(Replay(Genesis, SubSeq(s, 1, n))) = Dump(Told(s, n))
<1> DEFINE j == Replay(Genesis, SubSeq(s, 1, n))
<1>1. Told(s, 0) = Genesis /\ Len(s) \in Nat /\ 0 \in 0 .. n
  BY ToldSteps
<1>2. WellKept(Genesis) /\ ByItself(Genesis) /\ Alike(Genesis, Told(s, 0))
  BY <1>1, GenesisIsWellKept DEF ByItself, Alike
<1> HIDE DEF j
<1>3. WellKept(j) /\ Alike(j, Told(s, n))
  BY <1>1, <1>2, Replays DEF j
<1>4. WellKept(Told(s, n))
  BY ToldIsWellKept DEF Follows
<1>5. QED
  BY <1>3, <1>4, AlikeDumps DEF j

-----------------------------------------------------------------------------
(***************************************************************************)
(* The invariant of the commitments.  An order is awaited from the moment  *)
(* it is on the inbound stream until its acceptance is seen.  Meanwhile    *)
(* its key is claimed, so nobody else can be sent under it; and unless the *)
(* gateway was restarted in between, it is pending, with the reservation   *)
(* of the call that sent it, which will not abandon it.  That is what      *)
(* makes the acceptance adopt what was reserved for it.                    *)
(***************************************************************************)
LogInv ==
    /\ books[Len(inbound)] \in EngineStates
    /\ ideal \in Seq(Records)
    /\ \A i \in 0..Len(inbound) : ends[i] \in 0..Len(ideal)
    /\ ends[Len(inbound)] = Len(ideal)
    /\ Len(outbound) \in 0..Len(ideal) /\ outbound = SubSeq(ideal, 1, Len(outbound))
    /\ Follows(ideal)
    /\ Rows(Told(ideal, Len(ideal))) = RestingIn(books[Len(inbound)])

BoundsInv == /\ lost \in Nat /\ restarts \in Nat
             /\ MaxLost = 0 => lost = 0
             /\ MaxRestarts = 0 => restarts = 0

\* A call that waits for the producer is in its queue once, or was run by Redis.
QueueInv ==
    /\ \A i \in 1..Len(queue) : pc[queue[i]] = "queued" /\ result[queue[i]] = "none"
    /\ \A i \in 1..Len(batch) : /\ pc[batch[i]] = "queued"
                                /\ i > ran => result[batch[i]] = "none"
    /\ \A i, j \in 1..Len(queue) : queue[i] = queue[j] => i = j
    /\ \A i, j \in 1..Len(batch) : batch[i] = batch[j] => i = j
    /\ \A i \in 1..Len(queue), j \in 1..Len(batch) : queue[i] # batch[j]
    /\ \A c \in Calls : pc[c] \in {"missed", "rejecting", "rereading"} => result[c] = "none"

RiskInv == /\ WellKept(risk) /\ risk.last <= Len(outbound)
           /\ Alike(risk, Told(ideal, risk.last))

SavedInv == /\ saved.last \in 0..Len(outbound)
            /\ saved = Dump(Told(ideal, saved.last))

\* The call's order is on the stream, and the call knows it.
Sent(c) == result[c] = "appended" \/ (pc[c] = "done" /\ result[c] = "accepted")

Awaited(n) == n \in risk.last + 1 .. Len(ideal) /\ ideal[n].kind = "OrderAccepted"

AwaitedInv ==
    /\ \A n, m \in 1..Len(ideal) :
          Awaited(n) /\ Awaited(m) /\ OrderKey(ideal[n]) = OrderKey(ideal[m]) => n = m
    /\ \A n \in 1..Len(ideal) : Awaited(n) =>
          LET k == OrderKey(ideal[n])
          IN  /\ k \in Keys /\ key[k] = "accepted"
              /\ k \in DOMAIN risk.pending =>
                    /\ Sent(risk.pending[k])
                    /\ risk.pool[risk.pending[k]] = Reservation(ideal[n])
              /\ k \notin DOMAIN risk.pending =>
                    /\ restarts # 0
                    /\ \A c \in Calls : pc[c] = "missed" => KeyOfCall(c) # k

\* Who has an order in flight has not been answered, and who waits for the answer
\* has his order in flight unless he knows that it was sent.
PendingInv ==
    /\ \A k \in DOMAIN risk.pending :
          LET c == risk.pending[k]
          IN  /\ KeyOfCall(c) = k /\ ask[c].kind = "SubmitOrder"
              /\ risk.pool[c] = Reservation(ask[c])
              /\ pc[c] \in {"queued", "resolved"} \/ (pc[c] = "done" /\ result[c] = "accepted")
    /\ \A c \in Calls :
          pc[c] \in {"queued", "resolved"} /\ ask[c].kind = "SubmitOrder" /\ result[c] # "appended" =>
              KeyOfCall(c) \in DOMAIN risk.pending /\ risk.pending[KeyOfCall(c)] = c
    /\ \A i \in DOMAIN risk.open :
          risk.open[i] = i \/ pc[risk.open[i]] \in {"queued", "resolved", "done"}

Solvent(k) ==
    \A x \in Resources : x[1] \notin MarketMakers \/ x[2] = Cash => k.reserved[x] <= k.settled[x]

KeptInv == /\ QueueInv /\ RiskInv /\ SavedInv /\ AwaitedInv /\ PendingInv
           /\ restarts = 0 => Solvent(risk)

CommitInv == LogInv /\ BoundsInv /\ (lost = 0 => KeptInv)

\* The stream of answers: what was told stays, and more is told.
LEMMA LogIs ==
    ASSUME LogInv
    PROVE  /\ ideal \in Seq(Records) /\ Len(ideal) \in Nat /\ Follows(ideal)
           /\ Len(outbound) \in 0 .. Len(ideal)
           /\ \A n \in 0 .. Len(ideal) : /\ WellKept(Told(ideal, n)) /\ Told(ideal, n).last = n
                                         /\ DOMAIN Told(ideal, n).pending = {}
<1>1. ideal \in Seq(Records) /\ Len(outbound) \in 0 .. Len(ideal)
  BY DEF LogInv
<1>2. Follows(ideal)
  BY DEF LogInv
<1>3. \A n \in 1 .. Len(ideal) : MayFollow(Rows(Told(ideal, n - 1)), ideal[n])
  BY <1>2 DEF Follows
<1>4. QED
  BY <1>1, <1>2, <1>3, ToldIsWellKept

\* What the engine answers goes on from what was told.
LEMMA FollowsOn ==
    ASSUME NEW S, NEW s \in Seq(S), Follows(s), NEW a \in Seq(S),
           \A i \in 1 .. Len(a) :
              MayFollow(RowsAfter(Rows(Told(s, Len(s))), a, i - 1), a[i])
    PROVE  LET t == s \o a
           IN  /\ Follows(t)
               /\ Rows(Told(t, Len(t))) = RowsAfter(Rows(Told(s, Len(s))), a, Len(a))
<1> DEFINE t == s \o a
           l == Len(s)
           m == Len(a)
           T == Rows(Told(s, l))
           W(i) == RowsAfter(T, a, i)
<1>1. /\ t \in Seq(S) /\ Len(t) = l + m /\ l \in Nat /\ m \in Nat
      /\ \A i \in 1 .. l : t[i] = s[i]
      /\ \A i \in 1 .. m : t[l + i] = a[i]
  BY ConcatProperties
<1>2. /\ W(0) = T
      /\ \A i \in 1 .. m : W(i) = NextRows(W(i - 1), a[i])
  BY RowsSteps
<1>3. \A i \in 1 .. m : MayFollow(W(i - 1), a[i])
  OBVIOUS
<1> HIDE DEF t, l, m, W
<1>4. \A i \in 0 .. l : Told(t, i) = Told(s, i)
  BY <1>1, ToldAlready DEF l
<1>5. \A i \in 0 .. l : WellKept(Told(s, i)) /\ DOMAIN Told(s, i).pending = {}
  BY ToldIsWellKept DEF Follows, l
<1> DEFINE P == {i \in 0 .. m : /\ WellKept(Told(t, l + i)) /\ DOMAIN Told(t, l + i).pending = {}
                                /\ Rows(Told(t, l + i)) = W(i)}
<1>6. 0 \in P
  <2>1. l + 0 = l /\ l \in 0 .. l /\ 0 \in 0 .. m
    BY <1>1
  <2>2. QED
    BY <1>2, <1>4, <1>5, <2>1
<1>7. ASSUME NEW i \in 0 .. m - 1, i \in P
      PROVE  i + 1 \in P
  <2> DEFINE k == Told(t, l + i)
             e == a[i + 1]
             j == Observe(k, e)
  <2>1. /\ i + 1 \in 1 .. m /\ i + 1 \in 0 .. m /\ (i + 1) - 1 = i
        /\ l + (i + 1) \in 1 .. l + m /\ (l + (i + 1)) - 1 = l + i
    BY <1>1
  <2>2. Told(t, l + (i + 1)) = j
    <3> DEFINE q == l + (i + 1)
    <3>1. q \in 1 .. Len(t) /\ q - 1 = l + i /\ t[q] = e
      BY <1>1, <2>1
    <3> HIDE DEF q
    <3>2. Told(t, q) = Observe(Told(t, q - 1), t[q])
      BY <1>1, <3>1, ToldSteps
    <3>3. QED
      BY <3>1, <3>2 DEF q
  <2>3. /\ WellKept(k) /\ Rows(k) = W(i) /\ \A h : h \notin DOMAIN k.pending
        /\ MayFollow(W(i), e) /\ W(i + 1) = NextRows(W(i), e)
    BY <1>2, <1>3, <1>7, <2>1
  <2> HIDE DEF k, e, j
  <2>4. MayFollow(Rows(k), e) /\ OrderKey(e) \notin DOMAIN k.pending
    BY <2>3
  <2>5. WellKept(j) /\ Rows(j) = NextRows(Rows(k), e) /\ LeavesPending(k, e, j)
    BY <2>3, <2>4, Observes DEF j
  <2>6. DOMAIN j.pending = {}
    BY <2>3, <2>5 DEF LeavesPending
  <2>7. QED
    BY <2>1, <2>2, <2>3, <2>5, <2>6
<1>8. 0 .. m \subseteq P
  BY <1>1, <1>6, <1>7, Sums!UpTo
<1>9. Follows(t)
  <2> SUFFICES ASSUME NEW n \in 1 .. Len(t) PROVE MayFollow(Rows(Told(t, n - 1)), t[n])
    BY DEF Follows
  <2>1. CASE n <= l
    <3>1. n \in 1 .. l /\ n - 1 \in 0 .. l
      BY <1>1, <2>1
    <3>2. QED
      BY <1>1, <1>4, <3>1 DEF Follows, l
  <2>2. CASE n > l
    <3>1. PICK i \in 1 .. m : n = l + i /\ n - 1 = l + (i - 1) /\ i - 1 \in 0 .. m
      <4>1. n - l \in 1 .. m /\ n = l + (n - l) /\ n - 1 = l + ((n - l) - 1) /\ (n - l) - 1 \in 0 .. m
        BY <1>1, <2>2
      <4>2. QED
        BY <4>1
    <3>2. Rows(Told(t, l + (i - 1))) = W(i - 1)
      BY <1>8, <3>1
    <3>3. QED
      BY <1>1, <1>3, <3>1, <3>2
  <2>3. QED
    BY <1>1, <2>1, <2>2
<1>10. Rows(Told(t, Len(t))) = W(m)
  <2>1. m \in P
    <3> HIDE DEF P
    <3>1. m \in 0 .. m
      BY <1>1
    <3>2. QED
      BY <1>8, <3>1
  <2>2. QED
    BY <1>1, <2>1
<1>11. QED
  BY <1>9, <1>10 DEF t, m, l, W

LEMMA LogGrows ==
    ASSUME StreamInv, LogInv, NEW r, Receive(r)
    PROVE  /\ LogInv' /\ UNCHANGED outbound /\ Len(ideal) <= Len(ideal')
           /\ \A n \in 1 .. Len(ideal) : ideal'[n] = ideal[n]
           /\ \A n \in 0 .. Len(ideal) : Told(ideal', n) = Told(ideal, n)
           /\ \A n \in Len(ideal) + 1 .. Len(ideal') : ideal'[n].kind = "OrderAccepted" =>
                 /\ n = Len(ideal) + 1
                 /\ r.kind = "SubmitOrder"
                 /\ ideal'[n] = OrderAccepted(r, ideal'[n].id)
<1> DEFINE n == Len(inbound)
           a == ApplyRecord(books[n], r)
           l == Len(ideal)
           T == RestingIn(books[n])
<1>1. n \in Nat /\ inbound' = Append(inbound, r) /\ Len(inbound') = n + 1 /\ inbound'[n + 1] = r
  <2>1. PICK S : inbound \in Seq(S)
    BY DEF StreamInv
  <2>2. n \in Nat /\ inbound \in Seq(S \union {r}) /\ inbound' = Append(inbound, r)
    BY <2>1 DEF Receive
  <2>3. QED
    BY <2>2, AppendProperties
<1>2. r \in Requests
  BY DEF Receive
<1>3. a.eng \in EngineStates /\ a.out \in Seq(Records)
  BY <1>2, EngineAnswers DEF LogInv
<1>4. /\ books' = [k \in 0 .. (n + 1) |-> IF k = n + 1 THEN a.eng ELSE books[k]]
      /\ ends' = [k \in 0 .. (n + 1) |-> IF k = n + 1 THEN ends[n] + Len(a.out) ELSE ends[k]]
      /\ ideal' = ideal \o a.out /\ UNCHANGED outbound
  BY DEF Receive
<1>5. /\ l \in Nat /\ ideal \in Seq(Records) /\ ends[n] = l
      /\ \A i \in 0 .. n : ends[i] \in 0 .. l
      /\ Len(outbound) \in 0 .. l /\ outbound = SubSeq(ideal, 1, Len(outbound))
  BY DEF LogInv
<1> DEFINE m == Len(a.out)
<1>6. m \in Nat
  BY <1>3
<1>7. /\ ideal' \in Seq(Records) /\ Len(ideal') = l + m
      /\ \A i \in 1 .. l : ideal'[i] = ideal[i]
      /\ \A i \in 1 .. m : ideal'[l + i] = a.out[i]
  BY <1>3, <1>4, <1>5, ConcatProperties
<1> HIDE DEF a, m, n, l, T
<1>8. /\ ends'[n + 1] = l + m /\ ends'[n] = l /\ books'[n + 1] = a.eng
      /\ \A i \in 0 .. n : ends'[i] \in 0 .. l
  BY <1>1, <1>4, <1>5, <1>6 DEF m
<1>9. \A i \in 0 .. l : Told(ideal', i) = Told(ideal, i) /\ SubSeq(ideal', 1, i) = SubSeq(ideal, 1, i)
  <2>1. /\ ideal \in Seq(Records) /\ ideal' \in Seq(Records) /\ Len(ideal) <= Len(ideal')
        /\ \A i \in 1 .. Len(ideal) : ideal'[i] = ideal[i]
    BY <1>5, <1>6, <1>7 DEF l
  <2>2. \A i \in 0 .. Len(ideal) : /\ Told(ideal', i) = Told(ideal, i)
                                   /\ SubSeq(ideal', 1, i) = SubSeq(ideal, 1, i)
    BY <2>1, ToldAlready
  <2>3. QED
    BY <2>2 DEF l
<1>10. Answered(T, r, a.out, RestingIn(a.eng)) /\ T = Rows(Told(ideal, l))
  BY <1>2, EngineTellsOrders DEF LogInv, a, n, l, T
<1>11. Follows(ideal') /\ Rows(Told(ideal', Len(ideal'))) = RestingIn(a.eng)
  <2>1. \A i \in 1 .. Len(a.out) : MayFollow(RowsAfter(T, a.out, i - 1), a.out[i])
    BY <1>10 DEF Answered
  <2>2. RestingIn(a.eng) = RowsAfter(T, a.out, Len(a.out))
    BY <1>10 DEF Answered
  <2>3. Follows(ideal)
    BY DEF LogInv
  <2>4. QED
    BY <1>3, <1>4, <1>5, <1>10, <2>1, <2>2, <2>3, FollowsOn DEF l
<1>12. LogInv'
  <2>1. books'[Len(inbound')] \in EngineStates /\ ends'[Len(inbound')] = Len(ideal')
    BY <1>1, <1>3, <1>7, <1>8
  <2>2. \A i \in 0 .. n + 1 : ends'[i] \in 0 .. Len(ideal')
    BY <1>1, <1>5, <1>6, <1>7, <1>8
  <2>3. outbound' = SubSeq(ideal', 1, Len(outbound'))
    BY <1>4, <1>5, <1>9
  <2>4. Len(outbound') \in 0 .. Len(ideal')
    BY <1>4, <1>5, <1>6, <1>7
  <2>5. QED
    BY <1>1, <1>7, <1>8, <1>11, <2>1, <2>2, <2>3, <2>4 DEF LogInv
<1>13. ASSUME NEW i \in l + 1 .. Len(ideal'), ideal'[i].kind = "OrderAccepted"
       PROVE  i = l + 1 /\ r.kind = "SubmitOrder" /\ ideal'[i] = OrderAccepted(r, ideal'[i].id)
  <2>1. PICK k \in 1 .. m : i = l + k
    <3>1. i - l \in 1 .. m /\ i = l + (i - l)
      BY <1>5, <1>6, <1>7
    <3>2. QED
      BY <3>1
  <2>2. ideal'[i] = a.out[k]
    BY <1>7, <2>1
  <2>3. a.out[k].kind = "OrderAccepted" =>
           k = 1 /\ r.kind = "SubmitOrder" /\ a.out[k] = OrderAccepted(r, a.out[k].id)
    BY <1>10, <2>1 DEF Answered, m
  <2>4. QED
    BY <1>13, <2>1, <2>2, <2>3
<1>14. Len(ideal) <= Len(ideal')
  BY <1>5, <1>6, <1>7 DEF l
<1>15. QED
  BY <1>4, <1>7, <1>9, <1>12, <1>13, <1>14 DEF l

LEMMA LogAnswers ==
    ASSUME StreamInv, LogInv, NEW k \in 1 .. Len(inbound), Answer(k)
    PROVE  LogInv' /\ UNCHANGED ideal /\ Len(outbound) <= Len(outbound')
<1>1. Len(inbound) \in Nat
  <2>1. PICK S : inbound \in Seq(S)
    BY DEF StreamInv
  <2>2. QED
    BY <2>1
<1>2. /\ outbound' = SubSeq(ideal, 1, ends[k]) /\ Len(outbound) < ends[k]
      /\ UNCHANGED <<inbound, books, ends, ideal>>
  BY DEF Answer, history
<1>3. ends[k] \in 0 .. Len(ideal) /\ ideal \in Seq(Records) /\ Len(outbound) \in Nat
  BY <1>1 DEF LogInv
<1>4. Len(outbound') = ends[k]
  <2>1. \A i \in 1 .. ends[k] : i \in 1 .. Len(ideal)
    BY <1>3
  <2>2. QED
    BY <1>2, <1>3, <2>1, SubSeqProperties
<1>5. QED
  BY <1>2, <1>3, <1>4 DEF LogInv

\* Nobody waits for a call that has sent nothing yet: what it does on its own
\* disturbs no commitment.
LEMMA OthersInFlight ==
    ASSUME PendingInv, NEW c, pc[c] \in {"idle", "missed", "rejecting", "rereading"}
    PROVE  /\ \A k \in DOMAIN risk.pending : risk.pending[k] # c
           /\ \A i \in DOMAIN risk.open : risk.open[i] # i => risk.open[i] # c
  BY DEF PendingInv

\* A call that has sent nothing is in no queue, and may be put in the producer's.
LEMMA QueueGrows ==
    ASSUME IInv, QueueInv, NEW c \in Calls,
           pc[c] # "queued",
           UNCHANGED <<batch, ran>>,
           queue' = queue \/ (queue' = Append(queue, c) /\ pc'[c] = "queued" /\ result'[c] = "none"),
           \A d \in Calls \ {c} : pc'[d] = pc[d] /\ result'[d] = result[d],
           pc'[c] \in {"missed", "rejecting", "rereading"} => result'[c] = "none"
    PROVE  QueueInv'
<1>1. /\ queue \in Seq(Calls) /\ batch \in Seq(Calls) /\ ran \in Nat
      /\ Len(queue) \in Nat /\ Len(batch) \in Nat
      /\ \A i \in 1 .. Len(queue) : queue[i] \in Calls /\ queue[i] # c
      /\ \A i \in 1 .. Len(batch) : batch[i] \in Calls /\ batch[i] # c
  BY DEF IInv, ProducerInv, QueueInv
<1>2. CASE queue' = queue
  BY <1>1, <1>2 DEF QueueInv
<1>3. CASE queue' = Append(queue, c) /\ pc'[c] = "queued" /\ result'[c] = "none"
  <2>1. /\ Len(queue') = Len(queue) + 1 /\ queue'[Len(queue) + 1] = c
        /\ \A i \in 1 .. Len(queue) : queue'[i] = queue[i]
    BY <1>1, <1>3, AppendProperties
  <2>2. \A i \in 1 .. Len(queue') : i \in 1 .. Len(queue) \/ i = Len(queue) + 1
    BY <1>1, <2>1
  <2>3. \A i \in 1 .. Len(queue') : pc'[queue'[i]] = "queued" /\ result'[queue'[i]] = "none"
    BY <1>1, <1>3, <2>1, <2>2 DEF QueueInv
  <2>4. \A i, j \in 1 .. Len(queue') : queue'[i] = queue'[j] => i = j
    BY <1>1, <2>1, <2>2 DEF QueueInv
  <2>5. \A i \in 1 .. Len(queue'), j \in 1 .. Len(batch) : queue'[i] # batch[j]
    BY <1>1, <2>1, <2>2 DEF QueueInv
  <2>6. \A i \in 1 .. Len(batch) : /\ pc'[batch[i]] = "queued"
                                   /\ i > ran => result'[batch[i]] = "none"
    BY <1>1 DEF QueueInv
  <2>7. \A d \in Calls : pc'[d] \in {"missed", "rejecting", "rereading"} => result'[d] = "none"
    BY DEF QueueInv
  <2>8. \A i, j \in 1 .. Len(batch) : batch[i] = batch[j] => i = j
    BY DEF QueueInv
  <2>9. QED
    BY <2>3, <2>4, <2>5, <2>6, <2>7, <2>8 DEF QueueInv
<1>4. QED
  BY <1>2, <1>3

LEMMA BystanderMoves ==
    ASSUME IInv, LogInv, KeptInv, NEW c \in Calls,
           pc[c] \in {"idle", "missed", "rejecting", "rereading"},
           UNCHANGED <<logVars, risk, saved, restarts, batch, ran>>,
           queue' = queue \/ (queue' = Append(queue, c) /\ pc'[c] = "queued" /\ result'[c] = "none"),
           \A d \in Calls \ {c} : ask'[d] = ask[d] /\ pc'[d] = pc[d] /\ result'[d] = result[d],
           \A k \in Keys : key[k] = "accepted" => key'[k] = "accepted",
           pc'[c] \in {"missed", "rejecting", "rereading"} => result'[c] = "none",
           pc'[c] = "missed" => key[KeyOfCall(c)'] = "none",
           pc'[c] \in {"queued", "resolved"} => ask'[c].kind = "CancelOrder"
    PROVE  KeptInv'
<1> USE DEF KeptInv
<1>1. /\ UNCHANGED <<inbound, outbound, books, ends, ideal>>
      /\ UNCHANGED <<risk, saved, restarts, batch, ran>>
  BY DEF logVars
<1>2. \A d \in Calls \ {c} : KeyOfCall(d)' = KeyOfCall(d)
  BY DEF KeyOfCall, OrderKey
<1>3. QueueInv'
  BY <1>1, QueueGrows
<1>4. RiskInv' /\ SavedInv'
  BY <1>1 DEF RiskInv, SavedInv
<1>5. /\ \A k \in DOMAIN risk.pending : risk.pending[k] \in Calls \ {c}
      /\ \A i \in DOMAIN risk.open : risk.open[i] # i => risk.open[i] \in Calls \ {c}
  <2>1. Separate(risk)
    BY DEF RiskInv, WellKept
  <2>2. QED
    BY <2>1, OthersInFlight DEF Separate
<1>6. AwaitedInv'
  <2>1. \A n : Awaited(n)' <=> Awaited(n)
    BY <1>1 DEF Awaited
  <2>2. ASSUME NEW n \in 1 .. Len(ideal), Awaited(n), NEW k, k = OrderKey(ideal[n])
        PROVE  /\ k \in Keys /\ key'[k] = "accepted"
               /\ k \in DOMAIN risk.pending =>
                     /\ Sent(risk.pending[k])'
                     /\ risk.pool[risk.pending[k]] = Reservation(ideal[n])
               /\ k \notin DOMAIN risk.pending =>
                     /\ restarts # 0
                     /\ \A d \in Calls : pc'[d] = "missed" => KeyOfCall(d)' # k
    <3>1. /\ k \in Keys /\ key[k] = "accepted"
          /\ k \in DOMAIN risk.pending =>
                /\ Sent(risk.pending[k])
                /\ risk.pool[risk.pending[k]] = Reservation(ideal[n])
          /\ k \notin DOMAIN risk.pending =>
                /\ restarts # 0
                /\ \A d \in Calls : pc[d] = "missed" => KeyOfCall(d) # k
      BY <2>2 DEF AwaitedInv
    <3>2. k \in DOMAIN risk.pending => Sent(risk.pending[k])'
      BY <1>1, <1>5, <3>1 DEF Sent
    <3>3. k \notin DOMAIN risk.pending =>
             \A d \in Calls : pc'[d] = "missed" => KeyOfCall(d)' # k
      BY <1>2, <3>1
    <3>4. QED
      BY <3>1, <3>2, <3>3
  <2>3. QED
    BY <1>1, <2>1, <2>2 DEF AwaitedInv, Sent
<1>7. PendingInv'
  <2>1. ASSUME NEW k \in DOMAIN risk.pending
        PROVE  LET d == risk.pending[k]
               IN  /\ KeyOfCall(d)' = k /\ ask'[d].kind = "SubmitOrder"
                   /\ risk.pool[d] = Reservation(ask'[d])
                   /\ pc'[d] \in {"queued", "resolved"} \/ (pc'[d] = "done" /\ result'[d] = "accepted")
    BY <1>2, <1>5 DEF PendingInv
  <2>2. ASSUME NEW d \in Calls, pc'[d] \in {"queued", "resolved"}, ask'[d].kind = "SubmitOrder",
               result'[d] # "appended"
        PROVE  KeyOfCall(d)' \in DOMAIN risk.pending /\ risk.pending[KeyOfCall(d)'] = d
    <3>1. d # c
      BY <2>2
    <3>2. QED
      BY <1>2, <2>2, <3>1 DEF PendingInv
  <2>3. \A i \in DOMAIN risk.open :
           risk.open[i] = i \/ pc'[risk.open[i]] \in {"queued", "resolved", "done"}
    BY <1>5 DEF PendingInv
  <2>4. QED
    BY <1>1, <2>1, <2>2, <2>3 DEF PendingInv
<1>8. restarts' = 0 => Solvent(risk)'
  BY <1>1 DEF Solvent
<1>9. QED
  BY <1>3, <1>4, <1>6, <1>7, <1>8

LEMMA KeptLookup ==
    ASSUME IInv, LogInv, KeptInv, NEW c \in Calls, NEW a \in Asks, Lookup(c, a)
    PROVE  KeptInv'
<1>1. /\ DOMAIN pc = Calls /\ DOMAIN result = Calls /\ DOMAIN ask = Calls
      /\ pc[c] = "idle" /\ result[c] = "none"
      /\ key[OrderKey(a)] \in {"none", "accepted", "rejected"}
  BY DEF IInv, CallInv, Lookup, Keys
<1>2. /\ ask' = [ask EXCEPT ![c] = a]
      /\ UNCHANGED <<logVars, key, queue, batch, ran, risk, saved, restarts>>
  BY DEF Lookup, producer, bounded
<1>3. /\ \A d \in Calls \ {c} : ask'[d] = ask[d] /\ pc'[d] = pc[d] /\ result'[d] = result[d]
      /\ KeyOfCall(c)' = OrderKey(a)
      /\ \/ key[OrderKey(a)] = "none" /\ pc'[c] = "missed" /\ result'[c] = "none"
         \/ pc'[c] = "done"
  BY <1>1, <1>2 DEF Lookup, Goes, Answers, KeyOfCall, OrderKey
<1>4. QED
  BY <1>1, <1>2, <1>3, BystanderMoves

LEMMA KeptTurnedDown ==
    ASSUME IInv, LogInv, KeptInv, NEW c \in Calls,
           UNCHANGED <<logVars, queue, batch, ran, risk, saved, restarts, ask>>,
           pc[c] \in {"missed", "rejecting", "rereading"},
           \A k \in Keys : key[k] = "accepted" => key'[k] = "accepted",
           \/ \E r : Answers(c, r)
           \/ Goes(c, "rejecting") \/ Goes(c, "rereading")
    PROVE  KeptInv'
<1>1. DOMAIN pc = Calls /\ DOMAIN result = Calls /\ result[c] = "none"
  BY DEF IInv, CallInv, KeptInv, QueueInv
<1>2. /\ \A d \in Calls \ {c} : ask'[d] = ask[d] /\ pc'[d] = pc[d] /\ result'[d] = result[d]
      /\ pc'[c] = "done" \/ (pc'[c] \in {"rejecting", "rereading"} /\ result'[c] = "none")
  BY <1>1 DEF Goes, Answers
<1>3. QED
  BY <1>1, <1>2, BystanderMoves

LEMMA KeptDecideCancel ==
    ASSUME IInv, LogInv, KeptInv, NEW c \in Calls, DecideCancel(c)
    PROVE  KeptInv'
<1>1. /\ DOMAIN pc = Calls /\ pc[c] = "missed" /\ ask[c].kind = "CancelOrder"
      /\ result[c] = "none"
  BY DEF IInv, CallInv, DecideCancel, KeptInv, QueueInv
<1>2. /\ queue' = Append(queue, c)
      /\ UNCHANGED <<logVars, key, ask, batch, ran, risk, saved, restarts, result>>
      /\ pc' = [pc EXCEPT ![c] = "queued"]
  BY DEF DecideCancel, Goes, bounded
<1>3. /\ \A d \in Calls \ {c} : ask'[d] = ask[d] /\ pc'[d] = pc[d] /\ result'[d] = result[d]
      /\ pc'[c] = "queued" /\ result'[c] = "none" /\ ask'[c].kind = "CancelOrder"
  BY <1>1, <1>2
<1>4. QED
  BY <1>1, <1>2, <1>3, BystanderMoves

LEMMA KeptRecordRejected ==
    ASSUME IInv, LogInv, KeptInv, NEW c \in Calls, RecordRejected(c)
    PROVE  KeptInv'
<1>1. /\ pc[c] = "rejecting" /\ KeyOfCall(c) \in Keys
      /\ key \in [Keys -> {"none", "accepted", "rejected"}]
  BY DEF IInv, CallInv, RecordRejected
<1>2. /\ UNCHANGED <<logVars, queue, batch, ran, risk, saved, restarts, ask>>
      /\ (\E r : Answers(c, r)) \/ Goes(c, "rereading")
  BY DEF RecordRejected, producer, bounded
<1>3. \A k \in Keys : key[k] = "accepted" => key'[k] = "accepted"
  BY <1>1 DEF RecordRejected
<1>4. QED
  BY <1>1, <1>2, <1>3, KeptTurnedDown

LEMMA KeptReread ==
    ASSUME IInv, LogInv, KeptInv, NEW c \in Calls, Reread(c)
    PROVE  KeptInv'
<1>1. /\ pc[c] = "rereading" /\ UNCHANGED key
      /\ UNCHANGED <<logVars, queue, batch, ran, risk, saved, restarts, ask>>
      /\ \E r : Answers(c, r)
  BY DEF Reread, producer, bounded
<1>2. QED
  BY <1>1, KeptTurnedDown

-----------------------------------------------------------------------------
(* A call decides. *)

LEMMA MinIs ==
    ASSUME NEW S, IsFiniteSet(S), S # {}, S \subseteq Nat \ {0}
    PROVE  Min(S) \in S /\ Max(S) \in S
<1>1. S \subseteq Int
  OBVIOUS
<1>2. /\ \E x \in S : \A y \in S : x <= y
      /\ \E x \in S : \A y \in S : x >= y
  <2>1. Sums!IsFiniteSet(S)
    BY Finite
  <2>2. QED
    BY <1>1, <2>1, Sums!Extremes
<1>3. QED
  BY <1>2 DEF Min, Max

\* The price of a market order is 0, for none, or the price of an order.
LEMMA MarketPriceIs ==
    ASSUME NEW k, WellKept(k), NEW sym, NEW side \in Sides
    PROVE  MarketPrice(k, sym, side) \in Nat
<1> DEFINE S == Resting(k, sym, Opposite(side))
<1>1. IsTable(Rows(k)) /\ DOMAIN Rows(k) = DOMAIN k.open
  BY DEF WellKept, Shape, Rows
<1>2. S \subseteq Nat \ {0}
  <2> SUFFICES ASSUME NEW i \in DOMAIN k.open PROVE k.pool[k.open[i]].price \in Nat \ {0}
    BY DEF Resting
  <2>1. Rows(k)[i] = k.pool[k.open[i]] /\ IsOrder(Rows(k)[i])
    BY <1>1 DEF Rows, IsTable
  <2>2. QED
    BY <2>1 DEF IsOrder
<1>3. IsFiniteSet(S)
  <2> DEFINE D == {i \in DOMAIN k.open : LET o == k.pool[k.open[i]]
                                         IN  o.sym = sym /\ o.side = Opposite(side) /\ o.qty > 0}
  <2>1. IsFiniteSet(D)
    <3>1. D \subseteq DOMAIN k.open /\ IsFiniteSet(DOMAIN k.open)
      BY <1>1 DEF IsTable
    <3> HIDE DEF D
    <3>2. QED
      BY <3>1, FS_Subset
  <2>2. [i \in D |-> k.pool[k.open[i]].price] \in Surjection(D, S)
    BY DEF Surjection, Resting
  <2> HIDE DEF D, S
  <2>3. QED
    BY <2>1, <2>2, FS_Surjection
<1> HIDE DEF S
<1>4. CASE S = {}
  BY <1>4 DEF MarketPrice, S
<1>5. CASE S # {}
  <2>1. Min(S) \in Nat \ {0} /\ Max(S) \in Nat \ {0}
    BY <1>2, <1>3, <1>5, MinIs
  <2>2. CASE side = "BUY"
    <3>1. MarketPrice(k, sym, side) = (Min(S) * (10000 + BandBps) + 9999) \div 10000
      BY <1>5, <2>2 DEF MarketPrice, S
    <3>2. \A m \in Nat : m * (10000 + BandBps) \in Nat
      BY BandIsNat
    <3>3. \A m \in Nat : (m + 9999) \div 10000 \in Nat
      OBVIOUS
    <3>4. QED
      BY <2>1, <3>1, <3>2, <3>3
  <2>3. CASE side = "SELL"
    <3> DEFINE z == (Max(S) * (10000 - BandBps)) \div 10000
    <3>1. MarketPrice(k, sym, side) = Max({1, z})
      BY <1>5, <2>3 DEF MarketPrice, S
    <3>2. z \in Int
      <4>1. \A m \in Nat : m * (10000 - BandBps) \in Int
        BY BandIsNat
      <4>2. \A m \in Int : m \div 10000 \in Int
        OBVIOUS
      <4>3. QED
        BY <2>1, <4>1, <4>2
    <3> HIDE DEF z
    <3>3. Max({1, z}) \in {1, z} /\ Max({1, z}) >= 1
      <4>1. \E x \in {1, z} : \A y \in {1, z} : x >= y
        BY <3>2
      <4>2. QED
        BY <3>2, <4>1 DEF Max
    <3>4. QED
      BY <3>1, <3>2, <3>3
  <2>4. QED
    BY <2>2, <2>3 DEF Sides
<1>6. QED
  BY <1>4, <1>5

\* What is sent is an order the gateway can pay for, under the key it came with.
LEMMA PricedIs ==
    ASSUME WellKept(risk), NEW a \in Asks, a.kind = "SubmitOrder", ~Refused(a)
    PROVE  /\ IsOrder(Reservation(Priced(a))) /\ OrderKey(Priced(a)) = OrderKey(a)
           /\ Priced(a).kind = "SubmitOrder" /\ Affordable(risk, Priced(a))
<1> DEFINE p == MarketPrice(risk, a.sym, a.side)
<1>1. /\ a = SubmitOrder(a.user, a.coid, a.sym, a.side, a.tif, a.price, a.qty)
      /\ a.user \in Users /\ a.side \in Sides
      /\ a.price \in Nat /\ a.qty \in Nat \ {0}
  BY AsksAreOrders
<1>2. p \in Nat
  BY <1>1, MarketPriceIs
<1>3. a.sym \in Symbols /\ Priced(a).price # 0 /\ Affordable(risk, Priced(a))
  BY DEF Refused
<1> HIDE DEF p
<1>4. DOMAIN a = {"kind", "user", "coid", "sym", "side", "tif", "price", "qty"}
  BY <1>1 DEF SubmitOrder
<1>5. /\ Priced(a).kind = a.kind /\ Priced(a).user = a.user /\ Priced(a).coid = a.coid
      /\ Priced(a).sym = a.sym /\ Priced(a).side = a.side /\ Priced(a).qty = a.qty
      /\ Priced(a).price \in {a.price, p}
  BY <1>4 DEF Priced, p
<1> DEFINE b == Priced(a)
<1> HIDE DEF b
<1>6. b.price \in Nat \ {0} /\ b.user \in Users /\ b.sym \in Symbols /\ b.side \in Sides
      /\ b.qty \in Nat \ {0}
  BY <1>1, <1>2, <1>3, <1>5 DEF b
<1>7. IsOrder(Reservation(b))
  BY <1>6 DEF IsOrder, Reservation
<1>8. QED
  BY <1>3, <1>5, <1>7 DEF b, OrderKey

\* The reservation is backed by what the user has, unless a market maker sells.
LEMMA ReservesSolvent ==
    ASSUME NEW k, Shape(k), NEW o, o.side \in Sides, o.sym \in Symbols,
           Cost(o, o.qty) \in Nat, Affordable(k, o), Solvent(k),
           NEW j, j.settled = k.settled,
           \A x \in Resources : j.reserved[x] = k.reserved[x] +
                 (IF x = Resource(o) THEN Cost(o, o.qty) ELSE 0)
    PROVE  Solvent(j)
<1> SUFFICES ASSUME NEW x \in Resources, x[1] \notin MarketMakers \/ x[2] = Cash
             PROVE  j.reserved[x] <= j.settled[x]
  BY DEF Solvent
<1>1. k.settled[x] \in Int /\ k.reserved[x] \in Int /\ k.reserved[x] <= k.settled[x]
  BY DEF Shape, Solvent
<1>2. CASE x = Resource(o)
  <2>1. ~(o.side = "SELL" /\ o.user \in MarketMakers)
    BY <1>2, CashIsNoSymbol DEF Resource
  <2>2. k.settled[x] - k.reserved[x] >= Cost(o, o.qty)
    BY <1>2, <2>1 DEF Affordable, Available
  <2>3. QED
    BY <1>1, <1>2, <2>2
<1>3. CASE x # Resource(o)
  BY <1>1, <1>3
<1>4. QED
  BY <1>2, <1>3

LEMMA KeptReserve ==
    ASSUME IInv, LogInv, KeptInv, NEW c \in Calls, pc[c] = "missed",
           ask[c].kind = "SubmitOrder", KeyOfCall(c) \notin DOMAIN risk.pending,
           ~Refused(ask[c]),
           ask' = [ask EXCEPT ![c] = Priced(ask[c])],
           risk' = Reserve(risk, c, Priced(ask[c])),
           queue' = Append(queue, c), Goes(c, "queued"),
           UNCHANGED <<logVars, key, batch, ran, saved, restarts>>
    PROVE  KeptInv'
<1> USE DEF KeptInv
<1> DEFINE o == Priced(ask[c])
           y == KeyOfCall(c)
<1>1. /\ DOMAIN pc = Calls /\ DOMAIN result = Calls /\ DOMAIN ask = Calls
      /\ ask[c] \in Asks /\ result[c] = "none" /\ WellKept(risk)
  BY DEF IInv, CallInv, QueueInv, RiskInv
<1>2. /\ IsOrder(Reservation(o)) /\ OrderKey(o) = y /\ o.kind = "SubmitOrder"
      /\ Affordable(risk, o)
  BY <1>1, PricedIs DEF KeyOfCall
<1>3. /\ ask'[c] = o /\ pc'[c] = "queued" /\ UNCHANGED result
      /\ \A d \in Calls \ {c} : ask'[d] = ask[d] /\ pc'[d] = pc[d] /\ result'[d] = result[d]
      /\ KeyOfCall(c)' = y
      /\ \A d \in Calls \ {c} : KeyOfCall(d)' = KeyOfCall(d)
  <2>1. /\ ask'[c] = o /\ pc'[c] = "queued" /\ UNCHANGED result
        /\ \A d \in Calls \ {c} : ask'[d] = ask[d] /\ pc'[d] = pc[d]
    BY <1>1 DEF Goes
  <2> HIDE DEF o
  <2>2. QED
    BY <1>2, <2>1 DEF KeyOfCall, OrderKey
<1> HIDE DEF o
<1>4. /\ \A h \in DOMAIN risk.pending : risk.pending[h] # c
      /\ \A i \in DOMAIN risk.open : risk.open[i] # c
  <2>1. \A i \in DOMAIN risk.open : i \notin Calls
    BY <1>1 DEF WellKept, Separate
  <2>2. QED
    BY <2>1, OthersInFlight
<1>5. /\ WellKept(risk') /\ risk'.settled = risk.settled /\ risk'.last = risk.last
      /\ risk'.open = risk.open /\ Rows(risk') = Rows(risk)
      /\ DOMAIN risk'.pending = DOMAIN risk.pending \union {y}
      /\ risk'.pending[y] = c
      /\ \A h \in DOMAIN risk.pending : risk'.pending[h] = risk.pending[h]
      /\ risk'.pool[c] = Reservation(o)
      /\ \A h \in DOMAIN risk.pending : risk'.pool[risk.pending[h]] = risk.pool[risk.pending[h]]
      /\ \A x \in Resources : risk'.reserved[x] = risk.reserved[x] +
            (IF x = Resource(o) THEN Cost(o, o.qty) ELSE 0)
  <2>1. risk' = Reserve(risk, c, o)
    BY DEF o
  <2>2. QED
    BY <1>1, <1>2, <1>4, <2>1, Reserves
<1>6. UNCHANGED <<inbound, outbound, books, ends, ideal, key, saved, restarts, batch, ran>>
  BY DEF logVars
<1>7. QueueInv'
  BY <1>1, <1>3, <1>6, QueueGrows
<1>8. RiskInv' /\ SavedInv'
  BY <1>5, <1>6 DEF RiskInv, SavedInv, Alike
<1>9. \A h \in DOMAIN risk.pending : risk.pending[h] \in Calls \ {c}
  BY <1>1, <1>4 DEF WellKept, Separate
<1>10. AwaitedInv'
  <2>1. \A n : Awaited(n)' <=> Awaited(n)
    BY <1>5, <1>6 DEF Awaited
  <2>2. ASSUME NEW n \in 1 .. Len(ideal), Awaited(n), NEW k, k = OrderKey(ideal[n])
        PROVE  /\ k \in Keys /\ key[k] = "accepted"
               /\ k \in DOMAIN risk'.pending =>
                     /\ \E d \in Calls : d = risk'.pending[k] /\ Sent(d)'
                     /\ risk'.pool[risk'.pending[k]] = Reservation(ideal[n])
               /\ k \notin DOMAIN risk'.pending =>
                     /\ restarts # 0
                     /\ \A d \in Calls : pc'[d] = "missed" => KeyOfCall(d)' # k
    <3>1. /\ k \in Keys /\ key[k] = "accepted"
          /\ k \in DOMAIN risk.pending =>
                /\ Sent(risk.pending[k])
                /\ risk.pool[risk.pending[k]] = Reservation(ideal[n])
          /\ k \notin DOMAIN risk.pending =>
                /\ restarts # 0
                /\ \A d \in Calls : pc[d] = "missed" => KeyOfCall(d) # k
      BY <2>2 DEF AwaitedInv
    <3>2. k # y
      BY <3>1
    <3>3. k \in DOMAIN risk.pending => \E d \in Calls : d = risk.pending[k] /\ Sent(d)'
      BY <1>3, <1>9, <3>1 DEF Sent
    <3>4. k \notin DOMAIN risk.pending =>
             \A d \in Calls : pc'[d] = "missed" => KeyOfCall(d)' # k
      BY <1>3, <3>1
    <3>5. k \in DOMAIN risk'.pending <=> k \in DOMAIN risk.pending
      BY <1>5, <3>2
    <3>6. QED
      BY <1>5, <3>1, <3>3, <3>4, <3>5
  <2>3. QED
    BY <1>6, <2>1, <2>2 DEF AwaitedInv, Sent
<1>11. PendingInv'
  <2>1. ASSUME NEW k \in DOMAIN risk'.pending, NEW d, d = risk'.pending[k]
        PROVE  /\ KeyOfCall(d)' = k /\ ask'[d].kind = "SubmitOrder"
               /\ risk'.pool[d] = Reservation(ask'[d])
               /\ pc'[d] \in {"queued", "resolved"} \/ (pc'[d] = "done" /\ result'[d] = "accepted")
    <3>1. CASE k = y
      BY <1>2, <1>3, <1>5, <2>1, <3>1
    <3>2. CASE k # y
      BY <1>3, <1>5, <1>9, <2>1, <3>2 DEF PendingInv
    <3>3. QED
      BY <3>1, <3>2
  <2>2. ASSUME NEW d \in Calls, pc'[d] \in {"queued", "resolved"}, ask'[d].kind = "SubmitOrder",
               result'[d] # "appended"
        PROVE  KeyOfCall(d)' \in DOMAIN risk'.pending /\ risk'.pending[KeyOfCall(d)'] = d
    <3>1. CASE d = c
      BY <1>3, <1>5, <3>1
    <3>2. CASE d # c
      BY <1>3, <1>5, <2>2, <3>2 DEF PendingInv
    <3>3. QED
      BY <3>1, <3>2
  <2>3. \A i \in DOMAIN risk'.open :
           risk'.open[i] = i \/ pc'[risk'.open[i]] \in {"queued", "resolved", "done"}
    <3>1. \A i \in DOMAIN risk.open : risk.open[i] # i => risk.open[i] \in Calls \ {c}
      BY <1>1, <1>4 DEF WellKept, Separate
    <3>2. QED
      BY <1>3, <1>5, <3>1 DEF PendingInv
  <2>4. QED
    BY <2>1, <2>2, <2>3 DEF PendingInv
<1>12. restarts' = 0 => Solvent(risk')
  <2>1. o.side \in Sides /\ o.sym \in Symbols /\ Cost(o, o.qty) \in Nat
    <3> DEFINE v == Reservation(o)
    <3>1. v.side = o.side /\ v.sym = o.sym /\ v.qty = o.qty /\ v.price = o.price
      BY DEF Reservation
    <3> HIDE DEF v
    <3>2. v.qty \in Nat /\ o.side \in Sides /\ o.sym \in Symbols
      BY <1>2, <3>1 DEF IsOrder, v
    <3>3. Cost(v, v.qty) \in Nat
      BY <1>2, <3>2, CostOf DEF v
    <3>4. Cost(o, o.qty) = Cost(v, v.qty)
      BY <3>1 DEF Cost
    <3>5. QED
      BY <3>2, <3>3, <3>4
  <2>2. Shape(risk)
    BY <1>1 DEF WellKept
  <2>3. QED
    BY <1>2, <1>5, <1>6, <2>1, <2>2, ReservesSolvent
<1>13. QED
  <2>1. (Solvent(risk))' <=> Solvent(risk')
    BY DEF Solvent
  <2>2. QED
    BY <1>7, <1>8, <1>10, <1>11, <1>12, <2>1

-----------------------------------------------------------------------------
(* The future of a call is resolved. *)

\* Only a call whose order was not sent takes its reservation back.
LEMMA FinishUndoes ==
    ASSUME KeptInv, NEW c \in Calls, Finish(c)
    PROVE  /\ WellKept(risk') /\ Alike(risk', risk) /\ risk'.open = risk.open
           /\ DOMAIN risk'.pending \subseteq DOMAIN risk.pending
           /\ \A h \in DOMAIN risk'.pending :
                 /\ risk'.pending[h] = risk.pending[h]
                 /\ risk'.pool[risk.pending[h]] = risk.pool[risk.pending[h]]
                 /\ risk.pending[h] = c => result[c] = "appended"
           /\ \A h \in DOMAIN risk.pending \ DOMAIN risk'.pending :
                 risk.pending[h] = c /\ result[c] # "appended"
           /\ \A x \in Resources : risk'.reserved[x] <= risk.reserved[x]
<1> DEFINE y == KeyOfCall(c)
           S == InFlight \ {c}
<1>1. WellKept(risk) /\ pc[c] = "resolved" /\ \A x \in Resources : risk.reserved[x] \in Int
  BY DEF KeptInv, RiskInv, WellKept, Shape, Finish
<1> HIDE DEF S
<1>2. CASE ask[c].kind = "SubmitOrder" /\ result[c] # "appended"
  <2>1. risk' = Collect(Abandon(risk, c), S)
    BY <1>2 DEF Finish, S
  <2>2. y \in DOMAIN risk.pending /\ risk.pending[y] = c
    BY <1>1, <1>2 DEF KeptInv, PendingInv
  <2> DEFINE j == Abandon(risk, c)
  <2> HIDE DEF y, j
  <2>3. /\ WellKept(j) /\ j.settled = risk.settled /\ j.last = risk.last
        /\ j.open = risk.open /\ j.pool = risk.pool /\ Rows(j) = Rows(risk)
        /\ DOMAIN j.pending = DOMAIN risk.pending \ {y}
        /\ \A g \in DOMAIN j.pending : j.pending[g] = risk.pending[g]
        /\ \A x \in Resources : j.reserved[x] <= risk.reserved[x]
    BY <1>1, <2>2, Abandons DEF j
  <2>4. /\ WellKept(risk') /\ risk'.settled = j.settled /\ risk'.last = j.last
        /\ risk'.reserved = j.reserved /\ risk'.pending = j.pending /\ risk'.open = j.open
        /\ Rows(risk') = Rows(j)
        /\ \A h \in DOMAIN j.pending : risk'.pool[j.pending[h]] = j.pool[j.pending[h]]
    BY <2>1, <2>3, Collects DEF j
  <2>5. \A h \in DOMAIN j.pending : risk.pending[h] # c
    <3>1. \A h \in DOMAIN risk.pending : OrderKey(risk.pool[risk.pending[h]]) = h
      BY <1>1 DEF WellKept, Separate
    <3>2. QED
      BY <2>2, <2>3, <3>1
  <2>6. QED
    BY <1>2, <2>2, <2>3, <2>4, <2>5 DEF Alike
<1>3. CASE ~(ask[c].kind = "SubmitOrder" /\ result[c] # "appended")
  <2>1. risk' = Collect(risk, S)
    BY <1>3 DEF Finish, S
  <2>2. /\ WellKept(risk') /\ risk'.settled = risk.settled /\ risk'.last = risk.last
        /\ risk'.reserved = risk.reserved /\ risk'.pending = risk.pending /\ risk'.open = risk.open
        /\ Rows(risk') = Rows(risk)
        /\ \A h \in DOMAIN risk.pending : risk'.pool[risk.pending[h]] = risk.pool[risk.pending[h]]
    BY <1>1, <2>1, Collects
  <2>3. \A h \in DOMAIN risk.pending : risk.pending[h] = c => result[c] = "appended"
    BY <1>3 DEF KeptInv, PendingInv
  <2>4. QED
    BY <1>1, <2>2, <2>3 DEF Alike
<1>4. QED
  BY <1>2, <1>3

LEMMA KeptFinish ==
    ASSUME IInv, LogInv, KeptInv, NEW c \in Calls, Finish(c)
    PROVE  KeptInv'
<1> USE DEF KeptInv
<1>1. /\ WellKept(risk') /\ Alike(risk', risk) /\ risk'.open = risk.open
      /\ DOMAIN risk'.pending \subseteq DOMAIN risk.pending
      /\ \A h \in DOMAIN risk'.pending :
            /\ risk'.pending[h] = risk.pending[h]
            /\ risk'.pool[risk.pending[h]] = risk.pool[risk.pending[h]]
            /\ risk.pending[h] = c => result[c] = "appended"
      /\ \A h \in DOMAIN risk.pending \ DOMAIN risk'.pending :
            risk.pending[h] = c /\ result[c] # "appended"
      /\ \A x \in Resources : risk'.reserved[x] <= risk.reserved[x]
  BY FinishUndoes
<1>2. /\ DOMAIN pc = Calls /\ DOMAIN result = Calls /\ pc[c] = "resolved"
      /\ WellKept(risk)
  BY DEF IInv, CallInv, Finish, RiskInv
<1>3. /\ UNCHANGED <<inbound, outbound, books, ends, ideal>>
      /\ UNCHANGED <<key, ask, queue, batch, ran, saved, lost, restarts>>
  BY DEF Finish, logVars, producer, bounded
<1>4. /\ pc'[c] = "done"
      /\ result'[c] = IF result[c] = "appended" THEN "accepted" ELSE result[c]
      /\ \A d \in Calls \ {c} : pc'[d] = pc[d] /\ result'[d] = result[d]
      /\ \A d \in Calls : KeyOfCall(d)' = KeyOfCall(d)
  BY <1>2, <1>3 DEF Finish, Answers, KeyOfCall, OrderKey
<1>5. QueueInv'
  BY <1>2, <1>3, <1>4, QueueGrows
<1>6. RiskInv' /\ SavedInv'
  BY <1>1, <1>3 DEF RiskInv, SavedInv, Alike
<1>7. \A h \in DOMAIN risk.pending : risk.pending[h] \in Calls
  BY <1>2 DEF WellKept, Separate
<1>8. AwaitedInv'
  <2>1. \A n : Awaited(n)' <=> Awaited(n)
    BY <1>1, <1>3 DEF Awaited, Alike
  <2>2. ASSUME NEW n \in 1 .. Len(ideal), Awaited(n), NEW k, k = OrderKey(ideal[n])
        PROVE  /\ k \in Keys /\ key[k] = "accepted"
               /\ k \in DOMAIN risk'.pending =>
                     /\ \E d \in Calls : d = risk'.pending[k] /\ Sent(d)'
                     /\ risk'.pool[risk'.pending[k]] = Reservation(ideal[n])
               /\ k \notin DOMAIN risk'.pending =>
                     /\ restarts # 0
                     /\ \A d \in Calls : pc'[d] = "missed" => KeyOfCall(d)' # k
    <3>1. /\ k \in Keys /\ key[k] = "accepted"
          /\ k \in DOMAIN risk.pending =>
                /\ Sent(risk.pending[k])
                /\ risk.pool[risk.pending[k]] = Reservation(ideal[n])
          /\ k \notin DOMAIN risk.pending =>
                /\ restarts # 0
                /\ \A d \in Calls : pc[d] = "missed" => KeyOfCall(d) # k
      BY <2>2 DEF AwaitedInv
    <3>2. k \in DOMAIN risk'.pending <=> k \in DOMAIN risk.pending
      BY <1>1, <1>2, <3>1 DEF Sent
    <3>3. \A d \in Calls : Sent(d) => Sent(d)'
      BY <1>2, <1>4 DEF Sent
    <3>4. k \in DOMAIN risk'.pending => \E d \in Calls : d = risk'.pending[k] /\ Sent(d)'
      BY <1>1, <1>7, <3>1, <3>2, <3>3
    <3>5. \A d \in Calls : pc'[d] = "missed" => pc[d] = "missed"
      BY <1>4
    <3>6. QED
      BY <1>1, <1>4, <3>1, <3>2, <3>4, <3>5
  <2>3. QED
    BY <1>3, <2>1, <2>2 DEF AwaitedInv, Sent
<1>9. PendingInv'
  <2>1. ASSUME NEW k \in DOMAIN risk'.pending, NEW d, d = risk'.pending[k]
        PROVE  /\ KeyOfCall(d)' = k /\ ask'[d].kind = "SubmitOrder"
               /\ risk'.pool[d] = Reservation(ask'[d])
               /\ pc'[d] \in {"queued", "resolved"} \/ (pc'[d] = "done" /\ result'[d] = "accepted")
    <3>1. /\ k \in DOMAIN risk.pending /\ d = risk.pending[k] /\ d \in Calls
          /\ risk'.pool[d] = risk.pool[d] /\ (d = c => result[c] = "appended")
      BY <1>1, <1>7, <2>1
    <3>2. /\ KeyOfCall(d) = k /\ ask[d].kind = "SubmitOrder"
          /\ risk.pool[d] = Reservation(ask[d])
          /\ pc[d] \in {"queued", "resolved"} \/ (pc[d] = "done" /\ result[d] = "accepted")
      BY <3>1 DEF PendingInv
    <3>3. QED
      BY <1>3, <1>4, <3>1, <3>2
  <2>2. ASSUME NEW d \in Calls, pc'[d] \in {"queued", "resolved"}, ask'[d].kind = "SubmitOrder",
               result'[d] # "appended"
        PROVE  KeyOfCall(d)' \in DOMAIN risk'.pending /\ risk'.pending[KeyOfCall(d)'] = d
    <3>1. d # c
      BY <1>4, <2>2
    <3>2. KeyOfCall(d) \in DOMAIN risk.pending /\ risk.pending[KeyOfCall(d)] = d
      BY <1>3, <1>4, <2>2, <3>1 DEF PendingInv
    <3>3. QED
      BY <1>1, <1>4, <3>1, <3>2
  <2>3. \A i \in DOMAIN risk'.open :
           risk'.open[i] = i \/ pc'[risk'.open[i]] \in {"queued", "resolved", "done"}
    <3>1. \A i \in DOMAIN risk.open : risk.open[i] # i => risk.open[i] \in Calls
      BY <1>2 DEF WellKept, Separate
    <3>2. QED
      BY <1>1, <1>4, <3>1 DEF PendingInv
  <2>4. QED
    BY <2>1, <2>2, <2>3 DEF PendingInv
<1>10. restarts' = 0 => Solvent(risk')
  <2>1. \A x \in Resources : /\ risk.reserved[x] \in Int /\ risk'.reserved[x] \in Int
                             /\ risk.settled[x] \in Int
    BY <1>1, <1>2 DEF WellKept, Shape
  <2>2. \A x \in Resources : risk.reserved[x] <= risk.settled[x] =>
                                risk'.reserved[x] <= risk'.settled[x]
    BY <1>1, <2>1 DEF Alike
  <2>3. QED
    BY <1>3, <2>2 DEF Solvent
<1>11. QED
  <2>1. (Solvent(risk))' <=> Solvent(risk')
    BY DEF Solvent
  <2>2. QED
    BY <1>5, <1>6, <1>8, <1>9, <1>10, <2>1

-----------------------------------------------------------------------------
(* The producer, the matcher and the checkpoint. *)

\* Steps in which no call and no reservation moves.
LEMMA KeptQuiet ==
    ASSUME KeptInv, LogInv, QueueInv', SavedInv',
           UNCHANGED <<ideal, risk, ask, pc, result, restarts>>,
           Len(outbound) \in Nat, Len(outbound') \in Nat, Len(outbound) <= Len(outbound'),
           \A k \in Keys : key[k] = "accepted" => key'[k] = "accepted" \/ risk.last = Len(ideal)
    PROVE  KeptInv'
<1> USE DEF KeptInv
<1>1. WellKept(risk) /\ risk.last \in Nat /\ Len(ideal) \in Nat
  <2>1. ideal \in Seq(Records)
    BY DEF LogInv
  <2>2. QED
    BY <2>1 DEF RiskInv, WellKept, Shape
<1>2. RiskInv'
  BY <1>1 DEF RiskInv
<1>3. /\ \A n : Awaited(n)' <=> Awaited(n)
      /\ \A n : Awaited(n) => risk.last # Len(ideal)
      /\ \A c : Sent(c)' <=> Sent(c)
      /\ \A c : KeyOfCall(c)' = KeyOfCall(c)
  BY <1>1 DEF Awaited, Sent, KeyOfCall, OrderKey
<1>4. AwaitedInv'
  <2>1. ASSUME NEW n \in 1 .. Len(ideal), Awaited(n), NEW k, k = OrderKey(ideal[n])
        PROVE  /\ k \in Keys /\ key'[k] = "accepted"
               /\ k \in DOMAIN risk.pending =>
                     /\ Sent(risk.pending[k])
                     /\ risk.pool[risk.pending[k]] = Reservation(ideal[n])
               /\ k \notin DOMAIN risk.pending =>
                     /\ restarts # 0
                     /\ \A d \in Calls : pc[d] = "missed" => KeyOfCall(d) # k
    BY <1>3, <2>1 DEF AwaitedInv
  <2>2. QED
    BY <1>3, <2>1 DEF AwaitedInv, Sent, KeyOfCall
<1>5. PendingInv'
  BY <1>3 DEF PendingInv, KeyOfCall
<1>6. restarts' = 0 => Solvent(risk)'
  BY DEF Solvent
<1>7. QED
  BY <1>2, <1>4, <1>5, <1>6

LEMMA KeptTakeBatch ==
    ASSUME IInv, LogInv, KeptInv, TakeBatch
    PROVE  KeptInv'
<1> DEFINE n == IF Len(queue) < BatchMax THEN Len(queue) ELSE BatchMax
<1>1. /\ queue \in Seq(Calls) /\ Len(queue) \in Nat /\ BatchMax \in Nat
  BY BatchMaxPos DEF IInv, ProducerInv
<1>2. n \in Nat /\ n <= Len(queue)
  BY <1>1
<1>3. /\ batch' = SubSeq(queue, 1, n) /\ queue' = SubSeq(queue, n + 1, Len(queue)) /\ ran' = 0
      /\ UNCHANGED <<inbound, outbound, books, ends, ideal>>
      /\ UNCHANGED <<key, pc, ask, result, risk, saved, lost, restarts>>
  BY DEF TakeBatch, logVars, calls, bounded
<1> HIDE DEF n
<1>4. /\ Len(batch') = n /\ \A i \in 1 .. n : batch'[i] = queue[i]
  <2>1. \A i \in 1 .. n : i \in 1 .. Len(queue)
    BY <1>1, <1>2
  <2>2. QED
    BY <1>1, <1>2, <1>3, <2>1, SubSeqProperties
<1> DEFINE m == Len(queue) - n
<1>5. /\ m \in Nat /\ Len(queue') = m
      /\ \A i \in 1 .. m : i + n \in 1 .. Len(queue) /\ queue'[i] = queue[i + n] /\ i + n > n
  <2>1. m \in Nat /\ \A i \in 1 .. m : i + n \in 1 .. Len(queue) /\ i + n > n
    BY <1>1, <1>2
  <2>2. \A i \in n + 1 .. Len(queue) : i \in 1 .. Len(queue)
    BY <1>1, <1>2
  <2>3. n + 1 \in 1 .. Len(queue) + 1 /\ Len(queue) \in (n + 1) - 1 .. Len(queue)
    BY <1>1, <1>2
  <2>4. Len(queue') = m /\ \A i \in 1 .. m : queue'[i] = queue[i + n]
    BY <1>1, <1>2, <1>3, <2>2, <2>3, SubSeqProperties
  <2>5. QED
    BY <2>1, <2>4
<1> HIDE DEF m
<1>6. QueueInv'
  <2>1. \A i, j \in 1 .. Len(queue) : queue[i] = queue[j] => i = j
    BY DEF KeptInv, QueueInv
  <2>2. \A i \in 1 .. n : i \in 1 .. Len(queue)
    BY <1>1, <1>2
  <2>3. \A i \in 1 .. m : pc[queue'[i]] = "queued" /\ result[queue'[i]] = "none"
    BY <1>5 DEF KeptInv, QueueInv
  <2>4. \A i \in 1 .. n : pc[batch'[i]] = "queued" /\ result[batch'[i]] = "none"
    BY <1>4, <2>2 DEF KeptInv, QueueInv
  <2>5. \A i, j \in 1 .. m : queue'[i] = queue'[j] => i = j
    <3>1. \A i, j \in 1 .. m : queue'[i] = queue'[j] => i + n = j + n
      BY <1>5, <2>1
    <3>2. \A i, j \in 1 .. m : i + n = j + n => i = j
      BY <1>2, <1>5
    <3>3. QED
      BY <3>1, <3>2
  <2>6. \A i, j \in 1 .. n : batch'[i] = batch'[j] => i = j
    BY <1>4, <2>2 DEF KeptInv, QueueInv
  <2>7. \A i \in 1 .. m, j \in 1 .. n : queue'[i] # batch'[j]
    <3>1. \A i \in 1 .. m, j \in 1 .. n : i + n # j
      BY <1>2, <1>5
    <3>2. ASSUME NEW i \in 1 .. m, NEW j \in 1 .. n, queue'[i] = batch'[j]
          PROVE  FALSE
      <4>1. queue[i + n] = queue[j] /\ i + n \in 1 .. Len(queue) /\ j \in 1 .. Len(queue)
        BY <1>4, <1>5, <2>2, <3>2
      <4>2. QED
        BY <2>1, <3>1, <4>1
    <3>3. QED
      BY <3>2
  <2>8. \A c \in Calls : pc[c] \in {"missed", "rejecting", "rereading"} => result[c] = "none"
    BY DEF KeptInv, QueueInv
  <2>9. Len(queue') = m /\ Len(batch') = n /\ UNCHANGED <<pc, result>>
    BY <1>3, <1>4, <1>5
  <2>10. QED
    BY <2>3, <2>4, <2>5, <2>6, <2>7, <2>8, <2>9 DEF QueueInv
<1>7. SavedInv' /\ Len(outbound) \in Nat /\ UNCHANGED <<ideal, outbound>>
  BY <1>3 DEF KeptInv, SavedInv, LogInv
<1>8. QED
  BY <1>3, <1>6, <1>7, KeptQuiet

LEMMA KeptMatch ==
    ASSUME IInv, LogInv, KeptInv, Match
    PROVE  LogInv' /\ KeptInv'
<1>1. PICK k \in 1 .. Len(inbound) : Answer(k)
  BY DEF Match
<1>2. LogInv' /\ UNCHANGED ideal /\ Len(outbound) <= Len(outbound')
  BY <1>1, LogAnswers DEF IInv
<1>3. UNCHANGED <<key, pc, ask, result, queue, batch, ran, risk, saved, restarts>>
  BY DEF Match, calls, producer, bounded
<1>4. Len(outbound) \in Nat /\ Len(outbound') \in Nat
  BY <1>2 DEF LogInv
<1>5. QueueInv' /\ SavedInv'
  BY <1>2, <1>3, <1>4 DEF KeptInv, QueueInv, SavedInv
<1>6. QED
  BY <1>2, <1>3, <1>4, <1>5, KeptQuiet

\* With orders in flight, what is saved is still what the stream tells.
LEMMA KeptSaveCheckpoint ==
    ASSUME LogInv, KeptInv, SaveCheckpoint
    PROVE  KeptInv'
<1>1. /\ saved' = Dump(risk)
      /\ UNCHANGED <<inbound, outbound, books, ends, ideal>>
      /\ UNCHANGED <<key, pc, ask, result, queue, batch, ran, risk, restarts>>
  BY DEF SaveCheckpoint, logVars, calls, producer, bounded
<1>2. WellKept(risk) /\ risk.last <= Len(outbound) /\ Alike(risk, Told(ideal, risk.last))
  BY DEF KeptInv, RiskInv
<1>3. risk.last \in Nat /\ Len(outbound) \in 0 .. Len(ideal) /\ risk.last \in 0 .. Len(ideal)
      /\ risk.last \in 0 .. Len(outbound)
  BY <1>2, LogIs DEF WellKept, Shape
<1>4. Dump(risk) = Dump(Told(ideal, risk.last))
  <2>1. WellKept(Told(ideal, risk.last))
    BY <1>3, LogIs
  <2>2. QED
    BY <1>2, <2>1, AlikeDumps
<1>5. Dump(risk).last = risk.last
  BY DEF Dump
<1>6. QueueInv' /\ SavedInv'
  BY <1>1, <1>3, <1>4, <1>5 DEF KeptInv, QueueInv, SavedInv
<1>7. QED
  BY <1>1, <1>3, <1>6, KeptQuiet

LEMMA KeptExpire ==
    ASSUME IInv, LogInv, KeptInv, NEW k \in Keys, Expire(k)
    PROVE  KeptInv'
<1>1. /\ key' = [key EXCEPT ![k] = "none"] /\ risk.last = Len(ideal)
      /\ UNCHANGED <<inbound, outbound, books, ends, ideal>>
      /\ UNCHANGED <<pc, ask, result, queue, batch, ran, risk, saved, restarts>>
  BY DEF Expire, logVars, calls, producer
<1>2. QueueInv'
  BY <1>1 DEF KeptInv, QueueInv
<1>3. SavedInv' /\ Len(outbound) \in Nat
  BY <1>1 DEF KeptInv, SavedInv, LogInv
<1>4. \A h \in Keys : key[h] = "accepted" => key'[h] = "accepted" \/ risk.last = Len(ideal)
  BY <1>1
<1>5. QED
  BY <1>1, <1>2, <1>3, <1>4, KeptQuiet

\* The reply of the pipeline arrives, for calls that are all still waiting.
LEMMA KeptFlushed ==
    ASSUME IInv, LogInv, KeptInv, Flushed
    PROVE  KeptInv'
<1> USE DEF KeptInv
<1>1. /\ queue \in Seq(Calls) /\ batch \in Seq(Calls) /\ DOMAIN pc = Calls
      /\ WellKept(risk)
  BY DEF IInv, ProducerInv, CallInv, RiskInv
<1>2. /\ pc' = Resolved /\ batch' = <<>>
      /\ UNCHANGED <<inbound, outbound, books, ends, ideal>>
      /\ UNCHANGED <<key, ask, result, queue, ran, risk, saved, lost, restarts>>
  BY DEF Flushed, logVars, bounded
<1>3. /\ \A d \in Range(batch) : d \in Calls /\ pc[d] = "queued" /\ pc'[d] = "resolved"
      /\ \A d \in Calls \ Range(batch) : pc'[d] = pc[d]
  BY <1>1, <1>2 DEF Resolved, Range, QueueInv
<1>4. /\ \A d \in Calls : pc'[d] \in {"queued", "resolved"} <=> pc[d] \in {"queued", "resolved"}
      /\ \A d \in Calls : pc'[d] = "done" <=> pc[d] = "done"
      /\ \A d \in Calls : pc'[d] \in {"missed", "rejecting", "rereading"} => pc'[d] = pc[d]
  BY <1>3
<1>5. QueueInv'
  <2>1. Len(batch') = 0
    BY <1>2
  <2>2. \A i \in 1 .. Len(queue) : queue[i] \in Calls \ Range(batch)
    BY <1>1 DEF QueueInv, Range
  <2>3. QED
    BY <1>2, <1>3, <1>4, <2>1, <2>2 DEF QueueInv
<1>6. RiskInv' /\ SavedInv'
  BY <1>2 DEF RiskInv, SavedInv
<1>7. /\ \A h \in DOMAIN risk.pending : risk.pending[h] \in Calls
      /\ \A i \in DOMAIN risk.open : risk.open[i] # i => risk.open[i] \in Calls
  BY <1>1 DEF WellKept, Separate
<1>8. /\ \A n : Awaited(n)' <=> Awaited(n)
      /\ \A d \in Calls : Sent(d)' <=> Sent(d)
      /\ \A d : KeyOfCall(d)' = KeyOfCall(d)
  BY <1>2, <1>4 DEF Awaited, Sent, KeyOfCall, OrderKey
<1>9. AwaitedInv'
  <2>1. ASSUME NEW n \in 1 .. Len(ideal), Awaited(n), NEW k, k = OrderKey(ideal[n])
        PROVE  /\ k \in Keys /\ key[k] = "accepted"
               /\ k \in DOMAIN risk.pending =>
                     /\ \E d \in Calls : d = risk.pending[k] /\ Sent(d)'
                     /\ risk.pool[risk.pending[k]] = Reservation(ideal[n])
               /\ k \notin DOMAIN risk.pending =>
                     /\ restarts # 0
                     /\ \A d \in Calls : pc'[d] = "missed" => KeyOfCall(d)' # k
    <3>1. /\ k \in Keys /\ key[k] = "accepted"
          /\ k \in DOMAIN risk.pending =>
                /\ Sent(risk.pending[k])
                /\ risk.pool[risk.pending[k]] = Reservation(ideal[n])
          /\ k \notin DOMAIN risk.pending =>
                /\ restarts # 0
                /\ \A d \in Calls : pc[d] = "missed" => KeyOfCall(d) # k
      BY <2>1 DEF AwaitedInv
    <3>2. k \in DOMAIN risk.pending => \E d \in Calls : d = risk.pending[k] /\ Sent(d)'
      BY <1>7, <1>8, <3>1
    <3>3. \A d \in Calls : pc'[d] = "missed" => pc[d] = "missed"
      BY <1>4
    <3>4. QED
      BY <1>8, <3>1, <3>2, <3>3
  <2>2. QED
    BY <1>2, <1>8, <2>1 DEF AwaitedInv, Sent
<1>10. PendingInv'
  <2>1. ASSUME NEW k \in DOMAIN risk.pending, NEW d, d = risk.pending[k]
        PROVE  /\ KeyOfCall(d)' = k /\ ask[d].kind = "SubmitOrder"
               /\ risk.pool[d] = Reservation(ask[d])
               /\ pc'[d] \in {"queued", "resolved"} \/ (pc'[d] = "done" /\ result[d] = "accepted")
    <3>1. d \in Calls
      BY <1>7, <2>1
    <3>2. QED
      BY <1>4, <1>8, <2>1, <3>1 DEF PendingInv
  <2>2. ASSUME NEW d \in Calls, pc'[d] \in {"queued", "resolved"}, ask[d].kind = "SubmitOrder",
               result[d] # "appended"
        PROVE  KeyOfCall(d)' \in DOMAIN risk.pending /\ risk.pending[KeyOfCall(d)'] = d
    BY <1>4, <1>8, <2>2 DEF PendingInv
  <2>3. \A i \in DOMAIN risk.open :
           risk.open[i] = i \/ pc'[risk.open[i]] \in {"queued", "resolved", "done"}
    BY <1>4, <1>7 DEF PendingInv
  <2>4. QED
    BY <1>2, <2>1, <2>2, <2>3 DEF PendingInv
<1>11. restarts' = 0 => Solvent(risk)'
  BY <1>2 DEF Solvent
<1>12. QED
  BY <1>5, <1>6, <1>9, <1>10, <1>11

\* The gateway that starts again knows what the stream told; what was in flight it
\* commits when it sees it accepted, and nobody claims it meanwhile.
LEMMA KeptRestart ==
    ASSUME IInv, LogInv, restarts \in Nat, KeptInv, Restart
    PROVE  KeptInv'
<1> USE DEF KeptInv
<1> DEFINE m == saved.last
           n == Len(outbound)
<1>1. /\ risk' = Replay(Load(saved), outbound) /\ saved' = Dump(risk')
      /\ pc' = [c \in Calls |-> IF c \in InFlight THEN "done" ELSE pc[c]]
      /\ queue' = <<>> /\ batch' = <<>> /\ restarts' = restarts + 1
      /\ UNCHANGED <<inbound, outbound, books, ends, ideal, key, ask>>
  BY DEF Restart, logVars
<1>2. /\ ideal \in Seq(Records) /\ Follows(ideal) /\ n \in 0 .. Len(ideal) /\ m \in 0 .. n
      /\ outbound = SubSeq(ideal, 1, n) /\ saved = Dump(Told(ideal, m))
      /\ Len(ideal) \in Nat /\ risk.last \in Nat /\ risk.last <= n
  BY LogIs DEF LogInv, SavedInv, RiskInv, WellKept, Shape
<1>3. \A i \in 0 .. Len(ideal) : WellKept(Told(ideal, i)) /\ Told(ideal, i).last = i
  BY LogIs
<1> DEFINE k == Load(saved)
<1>4. WellKept(k) /\ Alike(k, Told(ideal, m)) /\ ByItself(k)
  <2>1. m \in 0 .. Len(ideal)
    BY <1>2
  <2>2. QED
    BY <1>2, <1>3, <2>1, LoadIs DEF ByItself
<1>5. WellKept(risk') /\ Alike(risk', Told(ideal, n)) /\ ByItself(risk')
  <2> HIDE DEF k, m, n
  <2>1. risk' = Replay(k, SubSeq(ideal, 1, n))
    BY <1>1, <1>2 DEF k
  <2>2. QED
    BY <1>2, <1>4, <2>1, Replays
<1>6. risk'.last = n
  BY <1>2, <1>3, <1>5 DEF Alike
<1>7. \A c \in Calls : pc'[c] \in {"idle", "done"}
  BY <1>1 DEF InFlight
<1>8. QueueInv'
  <2>1. Len(queue') = 0 /\ Len(batch') = 0
    BY <1>1
  <2>2. QED
    BY <1>7, <2>1 DEF QueueInv
<1>9. RiskInv' /\ SavedInv'
  <2>1. RiskInv'
    BY <1>1, <1>2, <1>5, <1>6 DEF RiskInv
  <2>2. Dump(risk') = Dump(Told(ideal, n))
    BY <1>2, <1>3, <1>5, AlikeDumps
  <2>3. Dump(risk').last = n
    BY <1>6 DEF Dump
  <2>4. QED
    BY <1>1, <1>2, <2>1, <2>2, <2>3 DEF SavedInv
<1>10. AwaitedInv'
  <2>1. \A i \in 1 .. Len(ideal) : Awaited(i)' => Awaited(i)
    BY <1>1, <1>2, <1>6 DEF Awaited
  <2>2. ASSUME NEW i \in 1 .. Len(ideal), Awaited(i), NEW h, h = OrderKey(ideal[i])
        PROVE  h \in Keys /\ key[h] = "accepted"
    BY <2>2 DEF AwaitedInv
  <2>3. /\ \A h : h \notin DOMAIN risk'.pending
        /\ restarts' # 0 /\ \A c \in Calls : pc'[c] # "missed"
    BY <1>1, <1>5, <1>7 DEF ByItself
  <2>4. QED
    BY <1>1, <2>1, <2>2, <2>3 DEF AwaitedInv
<1>11. PendingInv'
  BY <1>5, <1>7 DEF PendingInv, ByItself
<1>12. restarts' # 0
  BY <1>1
<1>13. QED
  BY <1>8, <1>9, <1>10, <1>11, <1>12

\* Redis runs the script for one call.  If the key was free, the order that is now
\* awaited is the one that is pending under it.
LEMMA KeptClaimAndAppend ==
    ASSUME IInv, LogInv, KeptInv, ClaimAndAppend
    PROVE  LogInv' /\ KeptInv'
<1> USE DEF KeptInv
<1> DEFINE c == batch[ran + 1]
           y == KeyOfCall(c)
<1>1. /\ batch \in Seq(Calls) /\ ran \in Nat /\ ran < Len(batch) /\ Len(batch) \in Nat
      /\ queue \in Seq(Calls) /\ DOMAIN result = Calls /\ WellKept(risk)
      /\ ran + 1 \in 1 .. Len(batch)
  BY DEF IInv, ProducerInv, CallInv, RiskInv, ClaimAndAppend
<1>2. /\ c \in Calls /\ pc[c] = "queued" /\ result[c] = "none" /\ y \in Keys
      /\ key \in [Keys -> {"none", "accepted", "rejected"}]
  <2>1. c \in Calls /\ pc[c] = "queued" /\ result[c] = "none"
    BY <1>1 DEF QueueInv
  <2>2. QED
    BY <2>1 DEF IInv, CallInv
<1>3. /\ \A i \in 1 .. Len(queue) : queue[i] # c
      /\ \A i \in 1 .. Len(batch) : i > ran + 1 => batch[i] # c
  BY <1>1 DEF QueueInv
<1>4. /\ ran' = ran + 1
      /\ UNCHANGED <<pc, ask, queue, batch, risk, saved, restarts, outbound>>
      /\ \/ /\ key[y] = "none" /\ Receive(ask[c])
            /\ key' = [key EXCEPT ![y] = "accepted"]
            /\ result' = [result EXCEPT ![c] = "appended"]
         \/ /\ key[y] # "none" /\ UNCHANGED <<inbound, books, ends, ideal, key>>
            /\ result' = [result EXCEPT ![c] = key[y]]
  BY DEF ClaimAndAppend, Receive, logVars, bounded
<1> HIDE DEF c, y
<1>5. /\ \A d \in Calls \ {c} : result'[d] = result[d]
      /\ \A d \in Calls : Sent(d) => d # c /\ Sent(d)'
      /\ \A d : KeyOfCall(d)' = KeyOfCall(d)
      /\ key[y] = "none" => result'[c] = "appended"
  <2>1. \A d \in Calls \ {c} : result'[d] = result[d]
    BY <1>1, <1>4
  <2>2. key[y] = "none" => result'[c] = "appended"
    BY <1>1, <1>2, <1>4
  <2>3. QED
    BY <1>2, <1>4, <2>1, <2>2 DEF Sent, KeyOfCall, OrderKey
<1>6. /\ ideal \in Seq(Records) /\ Len(ideal) \in Nat /\ Len(outbound) \in 0 .. Len(ideal)
      /\ risk.last \in 0 .. Len(outbound) /\ saved.last \in 0 .. Len(outbound)
  BY <1>1, LogIs DEF RiskInv, SavedInv, WellKept, Shape
<1>7. /\ LogInv' /\ Len(ideal) <= Len(ideal') /\ Len(ideal') \in Nat
      /\ \A n \in 1 .. Len(ideal) : ideal'[n] = ideal[n]
      /\ \A n \in 0 .. Len(ideal) : Told(ideal', n) = Told(ideal, n)
      /\ \A n \in Len(ideal) + 1 .. Len(ideal') : ideal'[n].kind = "OrderAccepted" =>
            /\ n = Len(ideal) + 1 /\ key[y] = "none"
            /\ ask[c].kind = "SubmitOrder"
            /\ ideal'[n] = OrderAccepted(ask[c], ideal'[n].id)
  <2>1. CASE key[y] = "none"
    <3>1. Receive(ask[c])
      BY <1>4, <2>1
    <3>2. LogInv'
      BY <3>1, LogGrows DEF IInv
    <3>3. Len(ideal') \in Nat
      BY <3>2 DEF LogInv
    <3>4. QED
      BY <2>1, <3>1, <3>3, LogGrows DEF IInv
  <2>2. CASE key[y] # "none"
    <3>1. UNCHANGED <<inbound, outbound, books, ends, ideal>>
      BY <1>4, <2>2
    <3>2. QED
      BY <1>6, <3>1 DEF LogInv
  <2>3. QED
    BY <2>1, <2>2
<1>8. QueueInv'
  <2>1. \A i \in 1 .. Len(queue) : pc[queue[i]] = "queued" /\ result'[queue[i]] = "none"
    BY <1>1, <1>3, <1>5 DEF QueueInv
  <2>2. \A i \in 1 .. Len(batch) : pc[batch[i]] = "queued"
                                   /\ (i > ran + 1 => result'[batch[i]] = "none")
    BY <1>1, <1>3, <1>5 DEF QueueInv
  <2>3. \A d \in Calls : pc[d] \in {"missed", "rejecting", "rereading"} => result'[d] = "none"
    BY <1>2, <1>5 DEF QueueInv
  <2>4. /\ \A i, j \in 1 .. Len(queue) : queue[i] = queue[j] => i = j
        /\ \A i, j \in 1 .. Len(batch) : batch[i] = batch[j] => i = j
        /\ \A i \in 1 .. Len(queue), j \in 1 .. Len(batch) : queue[i] # batch[j]
    BY DEF QueueInv
  <2>5. QED
    BY <1>4, <2>1, <2>2, <2>3, <2>4 DEF QueueInv
<1>9. RiskInv' /\ SavedInv'
  BY <1>4, <1>6, <1>7 DEF RiskInv, SavedInv
<1>10. \A h \in DOMAIN risk.pending : risk.pending[h] \in Calls
  BY <1>1 DEF WellKept, Separate
<1>11. ASSUME NEW n \in 1 .. Len(ideal), Awaited(n), NEW k, k = OrderKey(ideal[n])
       PROVE  /\ k \in Keys /\ key[k] = "accepted" /\ key'[k] = "accepted"
              /\ k \in DOMAIN risk.pending =>
                    /\ \E d \in Calls : d = risk.pending[k] /\ Sent(d)'
                    /\ risk.pool[risk.pending[k]] = Reservation(ideal[n])
              /\ k \notin DOMAIN risk.pending =>
                    /\ restarts # 0
                    /\ \A d \in Calls : pc[d] = "missed" => KeyOfCall(d) # k
  <2>1. /\ k \in Keys /\ key[k] = "accepted"
        /\ k \in DOMAIN risk.pending =>
              /\ Sent(risk.pending[k])
              /\ risk.pool[risk.pending[k]] = Reservation(ideal[n])
        /\ k \notin DOMAIN risk.pending =>
              /\ restarts # 0
              /\ \A d \in Calls : pc[d] = "missed" => KeyOfCall(d) # k
    BY <1>11 DEF AwaitedInv
  <2>2. key'[k] = "accepted"
    BY <1>2, <1>4, <2>1
  <2>3. k \in DOMAIN risk.pending => \E d \in Calls : d = risk.pending[k] /\ Sent(d)'
    BY <1>5, <1>10, <2>1
  <2>4. QED
    BY <2>1, <2>2, <2>3
<1>12. ASSUME NEW n \in 1 .. Len(ideal'), n > Len(ideal), Awaited(n)'
       PROVE  /\ n = Len(ideal) + 1 /\ OrderKey(ideal'[n]) = y /\ key[y] = "none"
              /\ y \in DOMAIN risk.pending /\ risk.pending[y] = c
              /\ risk.pool[c] = Reservation(ideal'[n])
  <2>1. n \in Len(ideal) + 1 .. Len(ideal') /\ ideal'[n].kind = "OrderAccepted"
    BY <1>6, <1>7, <1>12 DEF Awaited
  <2>2. /\ n = Len(ideal) + 1 /\ key[y] = "none" /\ ask[c].kind = "SubmitOrder"
        /\ ideal'[n] = OrderAccepted(ask[c], ideal'[n].id)
    BY <1>7, <2>1
  <2>3. OrderKey(ideal'[n]) = y /\ Reservation(ideal'[n]) = Reservation(ask[c])
    <3> DEFINE e == ideal'[n]
    <3> HIDE DEF e
    <3>1. e = OrderAccepted(ask[c], e.id)
      BY <2>2 DEF e
    <3>2. OrderKey(e) = y /\ Reservation(e) = Reservation(ask[c])
      BY <3>1 DEF OrderAccepted, OrderKey, Reservation, y, KeyOfCall
    <3>3. QED
      BY <3>2 DEF e
  <2>4. y \in DOMAIN risk.pending /\ risk.pending[y] = c
    BY <1>2, <2>2 DEF PendingInv, y
  <2>5. risk.pool[c] = Reservation(ask[c])
    BY <2>4 DEF PendingInv
  <2>6. QED
    BY <2>2, <2>3, <2>4, <2>5
<1>13. \A n \in 1 .. Len(ideal') : n <= Len(ideal) =>
          /\ n \in 1 .. Len(ideal) /\ ideal'[n] = ideal[n]
          /\ Awaited(n)' => Awaited(n)
  BY <1>4, <1>6, <1>7 DEF Awaited
<1>14. AwaitedInv'
  <2>1. ASSUME NEW n \in 1 .. Len(ideal'), Awaited(n)', NEW k, k = OrderKey(ideal'[n])
        PROVE  /\ k \in Keys /\ key'[k] = "accepted"
               /\ k \in DOMAIN risk.pending =>
                     /\ \E d \in Calls : d = risk.pending[k] /\ Sent(d)'
                     /\ risk.pool[risk.pending[k]] = Reservation(ideal'[n])
               /\ k \notin DOMAIN risk.pending =>
                     /\ restarts # 0
                     /\ \A d \in Calls : pc[d] = "missed" => KeyOfCall(d) # k
    <3>1. CASE n <= Len(ideal)
      <4>1. n \in 1 .. Len(ideal) /\ Awaited(n) /\ k = OrderKey(ideal[n])
            /\ ideal'[n] = ideal[n]
        BY <1>13, <2>1, <3>1
      <4>2. QED
        BY <1>11, <4>1
    <3>2. CASE n > Len(ideal)
      <4>1. k = y /\ key[y] = "none" /\ y \in DOMAIN risk.pending /\ risk.pending[y] = c
            /\ risk.pool[c] = Reservation(ideal'[n])
        BY <1>12, <2>1, <3>2
      <4>2. key'[y] = "accepted" /\ \A d \in Calls : d = c => Sent(d)'
        BY <1>2, <1>4, <1>5, <4>1 DEF Sent
      <4>3. QED
        BY <1>2, <4>1, <4>2
    <3>3. QED
      BY <1>6, <3>1, <3>2
  <2>2. ASSUME NEW n \in 1 .. Len(ideal'), NEW m \in 1 .. Len(ideal'), Awaited(n)', Awaited(m)',
               OrderKey(ideal'[n]) = OrderKey(ideal'[m])
        PROVE  n = m
    <3>1. CASE n <= Len(ideal) /\ m <= Len(ideal)
      BY <1>13, <2>2, <3>1 DEF AwaitedInv
    <3>2. CASE n > Len(ideal) /\ m > Len(ideal)
      BY <1>12, <2>2, <3>2
    <3>3. CASE n <= Len(ideal) /\ m > Len(ideal)
      <4>1. OrderKey(ideal[n]) = y /\ key[y] = "none" /\ n \in 1 .. Len(ideal) /\ Awaited(n)
        BY <1>12, <1>13, <2>2, <3>3
      <4>2. QED
        BY <1>11, <4>1
    <3>4. CASE n > Len(ideal) /\ m <= Len(ideal)
      <4>1. OrderKey(ideal[m]) = y /\ key[y] = "none" /\ m \in 1 .. Len(ideal) /\ Awaited(m)
        BY <1>12, <1>13, <2>2, <3>4
      <4>2. QED
        BY <1>11, <4>1
    <3>5. QED
      BY <1>6, <3>1, <3>2, <3>3, <3>4
  <2>3. QED
    BY <1>4, <1>5, <2>1, <2>2 DEF AwaitedInv, Sent
<1>15. PendingInv'
  <2>1. ASSUME NEW k \in DOMAIN risk.pending, NEW d, d = risk.pending[k]
        PROVE  /\ KeyOfCall(d)' = k /\ ask[d].kind = "SubmitOrder"
               /\ risk.pool[d] = Reservation(ask[d])
               /\ pc[d] \in {"queued", "resolved"} \/ (pc[d] = "done" /\ result'[d] = "accepted")
    <3>1. d \in Calls
      BY <1>10, <2>1
    <3>2. QED
      BY <1>2, <1>5, <2>1, <3>1 DEF PendingInv
  <2>2. ASSUME NEW d \in Calls, pc[d] \in {"queued", "resolved"}, ask[d].kind = "SubmitOrder",
               result'[d] # "appended"
        PROVE  KeyOfCall(d)' \in DOMAIN risk.pending /\ risk.pending[KeyOfCall(d)'] = d
    <3>1. result[d] # "appended"
      BY <1>2, <1>5, <2>2
    <3>2. QED
      BY <1>5, <2>2, <3>1 DEF PendingInv
  <2>3. QED
    BY <1>4, <1>5, <2>1, <2>2 DEF PendingInv
<1>16. restarts' = 0 => Solvent(risk)'
  BY <1>4 DEF Solvent
<1>17. QED
  BY <1>7, <1>8, <1>9, <1>14, <1>15, <1>16

-----------------------------------------------------------------------------
(* What is set aside is enough. *)

\* A buy sets aside its own price and the taker's fee, rounded up for every unit.
\* No fill of it costs more, at its price or below, as maker or as taker.
LEMMA FillIsPaid ==
    ASSUME NEW p \in Nat \ {0}, NEW v \in Nat \ {0}, p <= v, NEW q \in Nat \ {0},
           NEW bps \in {MakerFeeBps, TakerFeeBps}
    PROVE  /\ Fee(p * q, bps) \in Nat /\ Fee(p * q, bps) <= p * q
           /\ p * q + Fee(p * q, bps) <= BuyCost(v, q)
<1> DEFINE n == p * q
           a == q * v
           u == -((-(v * 10)) \div 10000)
           b == q * u
<1>1. n \in Nat /\ a \in Nat /\ n <= a
  <2>1. \A x, y, z \in Nat : x <= y => x * z \in Nat /\ z * y \in Nat /\ x * z <= z * y
    OBVIOUS
  <2>2. QED
    BY <2>1
<1>2. u \in Nat /\ 10 * v <= 10000 * u
  OBVIOUS
<1> HIDE DEF u
<1>3. b \in Nat /\ 10 * a <= 10000 * b
  <2> DEFINE w == 10000 * u - 10 * v
  <2>1. w \in Nat
    BY <1>2
  <2>2. \A x, y \in Nat : x * y \in Nat
    OBVIOUS
  <2>3. q * w \in Nat /\ q * u \in Nat
    BY <1>2, <2>1, <2>2
  <2>4. \A x, y, z \in Nat : x * (10000 * y - 10 * z) = 10000 * (x * y) - 10 * (x * z)
    OBVIOUS
  <2>5. q * w = 10000 * (q * u) - 10 * (q * v)
    BY <1>2, <2>4
  <2> DEFINE qw == q * w
  <2> HIDE DEF w
  <2>6. qw \in Nat /\ qw = 10000 * b - 10 * a /\ b \in Nat
    BY <2>3, <2>5
  <2> HIDE DEF qw, a, b
  <2>7. QED
    BY <1>1, <2>6
<1>4. BuyCost(v, q) = a + b
  <2>1. BuyCost(v, q) = q * (v + u)
    <3>1. v - ((-(v * 10)) \div 10000) = v + u
      BY DEF u
    <3>2. QED
      BY <3>1 DEF BuyCost, TakerFeeBps, BpsDenominator
  <2>2. \A x, y, z \in Nat : x * (y + z) = x * y + x * z
    OBVIOUS
  <2>3. QED
    BY <1>2, <2>1, <2>2
<1> DEFINE f == Fee(n, bps)
<1> HIDE DEF a, b, n
<1>5. f \in Nat /\ f <= n /\ 10000 * f <= 10 * n
  BY <1>1 DEF Fee, MakerFeeBps, TakerFeeBps, BpsDenominator
<1> HIDE DEF f
<1>6. n + f <= a + b
  BY <1>1, <1>3, <1>5
<1>7. QED
  BY <1>4, <1>5, <1>6 DEF f, n

\* So a fill leaves both sides with no less than they had available.
LEMMA FillKeepsSolvent ==
    ASSUME NEW k, WellKept(k), Solvent(k), NEW e, TradesRows(Rows(k), e)
    PROVE  Solvent(Trade(k, e))
<1> DEFINE j == Trade(k, e)
           T == Rows(k)
           n == e.price * e.qty
           A == <<Buyer(e), Cash>>
           D == <<Seller(e), e.sym>>
<1>1. /\ e.makerUser \in Users /\ e.takerUser \in Users /\ e.sym \in Symbols
      /\ e.price \in Nat \ {0} /\ e.qty \in Nat \ {0} /\ e.aggressor \in Sides
      /\ IsOrder(T[e.maker]) /\ IsOrder(T[e.taker])
  BY FillIsTyped DEF WellKept, Shape
<1> DEFINE buy  == IF e.aggressor = "BUY" THEN T[e.taker] ELSE T[e.maker]
           sell == IF e.aggressor = "BUY" THEN T[e.maker] ELSE T[e.taker]
           c == BuyCost(buy.price, e.qty)
<1>2. /\ buy.side = "BUY" /\ sell.side = "SELL" /\ e.price <= buy.price
      /\ buy.price \in Nat \ {0}
      /\ Resource(buy) = A /\ Resource(sell) = D
      /\ Cost(buy, e.qty) = c /\ Cost(sell, e.qty) = e.qty
  <2>1. CASE e.aggressor = "BUY"
    <3>1. /\ buy = T[e.taker] /\ sell = T[e.maker]
          /\ T[e.taker].side = "BUY" /\ T[e.maker].side = "SELL"
          /\ T[e.taker].user = Buyer(e) /\ T[e.maker].user = Seller(e)
          /\ T[e.taker].sym = e.sym /\ T[e.maker].sym = e.sym
          /\ e.price \in 1 .. T[e.taker].price
      BY <2>1 DEF TradesRows, Opposite, Buyer, Seller
    <3>2. buy.price \in Nat \ {0}
      BY <1>1, <3>1 DEF IsOrder
    <3>3. QED
      BY <1>1, <3>1, <3>2 DEF Resource, Cost
  <2>2. CASE e.aggressor = "SELL"
    <3>1. /\ buy = T[e.maker] /\ sell = T[e.taker]
          /\ T[e.maker].side = "BUY" /\ T[e.taker].side = "SELL"
          /\ T[e.maker].user = Buyer(e) /\ T[e.taker].user = Seller(e)
          /\ T[e.maker].sym = e.sym /\ T[e.taker].sym = e.sym
          /\ e.price \in 1 .. T[e.maker].price
      BY <2>2 DEF TradesRows, Opposite, Buyer, Seller
    <3>2. buy.price \in Nat \ {0}
      BY <1>1, <3>1 DEF IsOrder
    <3>3. QED
      BY <1>1, <3>1, <3>2 DEF Resource, Cost
  <2>3. QED
    BY <1>1, <2>1, <2>2 DEF Sides
<1>3. /\ n \in Nat /\ BuyFee(e) \in Nat /\ SellFee(e) \in Nat
      /\ SellFee(e) <= n /\ n + BuyFee(e) <= c
  <2>1. e.price <= e.price
    BY <1>1
  <2>2. \A bps \in {MakerFeeBps, TakerFeeBps} :
           /\ Fee(n, bps) \in Nat /\ Fee(n, bps) <= n /\ n + Fee(n, bps) <= c
    <3> HIDE DEF buy
    <3>1. QED
      BY <1>1, <1>2, FillIsPaid
  <2>3. QED
    BY <1>1, <2>2, MovedIs DEF BuyFee, SellFee, WellKept, Shape
<1>4. c \in Int
  <2>1. \A x \in Nat : x - ((-(x * 10)) \div 10000) \in Int
    OBVIOUS
  <2>2. \A x, y \in Int : x * y \in Int
    OBVIOUS
  <2> HIDE DEF buy
  <2>3. QED
    BY <1>1, <1>2, <2>1, <2>2 DEF BuyCost, TakerFeeBps, BpsDenominator
<1>5. /\ j.settled = Moved(k.settled, e)
      /\ \A x \in Resources : j.reserved[x] = k.reserved[x]
            - (IF x = A THEN c ELSE 0) - (IF x = D THEN e.qty ELSE 0)
  <2> HIDE DEF j, A, D, c
  <2>1. /\ j.settled = Moved(k.settled, e)
        /\ \A x \in Resources : j.reserved[x] = k.reserved[x]
              - (IF x = Resource(T[e.maker]) THEN Cost(T[e.maker], e.qty) ELSE 0)
              - (IF x = Resource(T[e.taker]) THEN Cost(T[e.taker], e.qty) ELSE 0)
    BY Trades DEF j
  <2>2. \A x \in Resources : k.reserved[x] \in Int
    BY DEF WellKept, Shape
  <2> HIDE DEF T
  <2>3. ASSUME NEW x \in Resources
        PROVE  j.reserved[x] = k.reserved[x]
                 - (IF x = A THEN c ELSE 0) - (IF x = D THEN e.qty ELSE 0)
    <3> DEFINE X == IF x = A THEN c ELSE 0
               Y == IF x = D THEN e.qty ELSE 0
    <3>1. X \in Int /\ Y \in Int
      BY <1>1, <1>4
    <3>2. CASE e.aggressor = "BUY"
      <4>1. j.reserved[x] = k.reserved[x] - Y - X
        BY <1>2, <2>1, <3>2
      <4> HIDE DEF X, Y
      <4>2. j.reserved[x] = k.reserved[x] - X - Y
        BY <2>2, <3>1, <4>1
      <4>3. QED
        BY <4>2 DEF X, Y
    <3>3. CASE e.aggressor = "SELL"
      BY <1>2, <2>1, <3>3
    <3>4. QED
      BY <1>1, <3>2, <3>3 DEF Sides
  <2>4. QED
    BY <2>1, <2>3
<1> HIDE DEF j, c, n
<1>6. ASSUME NEW x \in Resources, k.reserved[x] <= k.settled[x]
      PROVE  j.reserved[x] <= j.settled[x]
  <2> DEFINE a1 == IF x = A THEN n + BuyFee(e) ELSE 0
             a2 == IF x = A THEN c ELSE 0
             b == IF x = <<Seller(e), Cash>> THEN n - SellFee(e) ELSE 0
             g == IF x = <<Buyer(e), e.sym>> THEN e.qty ELSE 0
             d == IF x = D THEN e.qty ELSE 0
  <2>1. j.settled[x] = k.settled[x] - a1 + b + g - d
    <3>1. /\ k.settled \in [Resources -> Int]
          /\ e.price \in Nat /\ e.qty \in Nat
      BY <1>1 DEF WellKept, Shape
    <3>2. QED
      BY <1>1, <1>5, <3>1, MovedIs DEF n
  <2>2. j.reserved[x] = k.reserved[x] - a2 - d
    BY <1>5
  <2>3. /\ a1 \in Int /\ a2 \in Int /\ b \in Nat /\ g \in Nat /\ d \in Nat /\ a1 <= a2
    BY <1>1, <1>3, <1>4
  <2>4. k.settled[x] \in Int /\ k.reserved[x] \in Int
    BY DEF WellKept, Shape
  <2> HIDE DEF a1, a2, b, g, d
  <2>5. QED
    BY <1>6, <2>1, <2>2, <2>3, <2>4
<1>7. QED
  BY <1>6 DEF Solvent, j

LEMMA ObservesSolvent ==
    ASSUME NEW k, WellKept(k), Solvent(k), NEW e, MayFollow(Rows(k), e),
           e.kind = "OrderAccepted" => OrderKey(e) \in DOMAIN k.pending
    PROVE  Solvent(Observe(k, e))
<1> DEFINE j == Observe(k, e)
           s == Seen(k)
<1>1. /\ WellKept(s) /\ s.settled = k.settled /\ s.reserved = k.reserved
      /\ s.pending = k.pending /\ s.open = k.open /\ Rows(s) = Rows(k)
  BY SeenIsWellKept
<1>2. Solvent(s)
  <2> HIDE DEF s
  <2>1. QED
    BY <1>1 DEF Solvent
<1> HIDE DEF s
<1>3. CASE e.kind = "OrderAccepted"
  <2>1. j = Accept(s, e)
    BY <1>3 DEF Observe, s, Seen
  <2>2. e.id \notin DOMAIN s.open /\ e.id \notin Calls
    BY <1>1, <1>3, CallsAreNoIds DEF MayFollow, Rows
  <2> HIDE DEF j
  <2>3. j.settled = s.settled /\ j.reserved = s.reserved
    BY <1>1, <1>3, <2>1, <2>2, Adopts
  <2>4. QED
    BY <1>2, <2>3 DEF Solvent, j
<1>4. CASE e.kind = "Fill"
  <2>1. j = Trade(s, e)
    BY <1>4 DEF Observe, s, Seen
  <2>2. TradesRows(Rows(s), e)
    BY <1>1, <1>4 DEF MayFollow
  <2> HIDE DEF j
  <2>3. Solvent(j)
    BY <1>1, <1>2, <2>1, <2>2, FillKeepsSolvent
  <2>4. QED
    BY <2>3 DEF j
<1>5. CASE e.kind = "OrderCancelled"
  <2>1. j = Retire(s, e.id)
    BY <1>5 DEF Observe, s, Seen
  <2> HIDE DEF j
  <2>2. CASE e.id \in DOMAIN s.open
    <3>1. WellKept(j) /\ j.settled = s.settled /\ \A x \in Resources : j.reserved[x] <= s.reserved[x]
      BY <1>1, <2>1, <2>2, Retires
    <3>2. \A x \in Resources : /\ j.reserved[x] \in Int /\ s.reserved[x] \in Int
                               /\ s.settled[x] \in Int
      BY <1>1, <3>1 DEF WellKept, Shape
    <3>3. \A x \in Resources : s.reserved[x] <= s.settled[x] => j.reserved[x] <= j.settled[x]
      BY <3>1, <3>2
    <3>4. QED
      BY <1>2, <3>3 DEF Solvent, j
  <2>3. CASE e.id \notin DOMAIN s.open
    BY <1>2, <2>1, <2>3 DEF Retire, j
  <2>4. QED
    BY <2>2, <2>3
<1>6. CASE e.kind = "OrderRejected"
  <2>1. j = s
    BY <1>6 DEF Observe, s, Seen
  <2>2. QED
    BY <1>2, <2>1
<1>7. QED
  BY <1>3, <1>4, <1>5, <1>6 DEF MayFollow

-----------------------------------------------------------------------------
(* The next record of the outbound stream is applied. *)

\* The state after it: what is told so far, and the pending reservations but the
\* one that the record accepts, which is that of the order accepted.
LEMMA WatchSees ==
    ASSUME LogInv, KeptInv, Watch,
           NEW n, n = risk.last + 1, NEW e, e = ideal[n]
    PROVE  /\ n \in 1 .. Len(ideal) /\ n <= Len(outbound) /\ risk'.last = n
           /\ WellKept(risk') /\ Alike(risk', Told(ideal, n))
           /\ e.kind = "OrderAccepted" => Awaited(n)
           /\ LeavesPending(risk, e, risk')
           /\ restarts = 0 => Solvent(risk')
<1> DEFINE t == Told(ideal, risk.last)
           j == Observe(risk, e)
<1>1. /\ WellKept(risk) /\ risk.last \in Nat /\ risk.last < Len(outbound) /\ Alike(risk, t)
  BY DEF KeptInv, RiskInv, WellKept, Shape, Watch
<1>2. /\ ideal \in Seq(Records) /\ Len(ideal) \in Nat /\ Follows(ideal)
      /\ Len(outbound) \in 0 .. Len(ideal) /\ outbound = SubSeq(ideal, 1, Len(outbound))
      /\ \A i \in 0 .. Len(ideal) : /\ WellKept(Told(ideal, i)) /\ Told(ideal, i).last = i
                                    /\ DOMAIN Told(ideal, i).pending = {}
  BY LogIs DEF LogInv
<1>3. /\ n \in 1 .. Len(ideal) /\ n <= Len(outbound) /\ n - 1 = risk.last
      /\ n \in 1 .. Len(outbound) /\ risk.last \in 0 .. Len(ideal)
  BY <1>1, <1>2
<1>4. outbound[n] = e
  <2> DEFINE l == Len(outbound)
  <2>1. SubSeq(ideal, 1, l)[n] = ideal[n]
    <3>1. \A i \in 1 .. l : i \in 1 .. Len(ideal)
      BY <1>2
    <3> HIDE DEF l
    <3>2. QED
      BY <1>2, <1>3, <3>1, SubSeqProperties DEF l
  <2>2. QED
    BY <1>2, <2>1
<1>5. risk' = Collect(j, InFlight)
  BY <1>4 DEF Watch
<1>6. /\ WellKept(t) /\ DOMAIN t.pending = {} /\ MayFollow(Rows(t), e)
      /\ Told(ideal, n) = Observe(t, e)
  BY <1>2, <1>3, ToldSteps DEF Follows
<1> HIDE DEF t
<1>7. MayFollow(Rows(risk), e)
  BY <1>1, <1>6 DEF Alike
<1>8. e.kind = "OrderAccepted" => Awaited(n)
  <2>1. n \in risk.last + 1 .. Len(ideal)
    BY <1>2, <1>3
  <2>2. QED
    BY <2>1 DEF Awaited
<1>9. e.kind = "OrderAccepted" =>
         /\ OrderKey(e) \in DOMAIN risk.pending =>
               risk.pool[risk.pending[OrderKey(e)]] = Reservation(e)
         /\ OrderKey(e) \notin DOMAIN risk.pending => restarts # 0
  BY <1>3, <1>8 DEF KeptInv, AwaitedInv
<1>10. /\ WellKept(j) /\ Alike(j, Told(ideal, n)) /\ j.last = n
  BY <1>1, <1>6, <1>9, StaysAlike
<1>11. LeavesPending(risk, e, j)
  <2> HIDE DEF j
  <2>1. QED
    BY <1>1, <1>7, <1>9, Observes DEF j
<1>12. restarts = 0 => Solvent(j)
  BY <1>1, <1>7, <1>9, ObservesSolvent DEF KeptInv
<1> HIDE DEF j
<1>13. /\ WellKept(risk') /\ risk'.settled = j.settled /\ risk'.last = j.last
       /\ risk'.reserved = j.reserved /\ risk'.pending = j.pending /\ risk'.open = j.open
       /\ Rows(risk') = Rows(j)
       /\ \A h \in DOMAIN j.pending : risk'.pool[j.pending[h]] = j.pool[j.pending[h]]
  BY <1>5, <1>10, Collects
<1>14. Alike(risk', Told(ideal, n))
  BY <1>10, <1>13 DEF Alike
<1>15. restarts = 0 => Solvent(risk')
  BY <1>12, <1>13 DEF Solvent
<1>16. LeavesPending(risk, e, risk')
  BY <1>11, <1>13 DEF LeavesPending
<1>17. QED
  BY <1>3, <1>8, <1>10, <1>13, <1>14, <1>15, <1>16

LEMMA KeptWatch ==
    ASSUME IInv, LogInv, KeptInv, Watch
    PROVE  KeptInv'
<1> USE DEF KeptInv
<1> DEFINE n == risk.last + 1
           e == ideal[n]
           y == OrderKey(e)
<1>1. /\ n \in 1 .. Len(ideal) /\ n <= Len(outbound) /\ risk'.last = n
      /\ WellKept(risk') /\ Alike(risk', Told(ideal, n))
      /\ e.kind = "OrderAccepted" => Awaited(n)
      /\ DOMAIN risk'.pending = IF e.kind = "OrderAccepted"
                                THEN DOMAIN risk.pending \ {y} ELSE DOMAIN risk.pending
      /\ \A h \in DOMAIN risk'.pending : /\ risk'.pending[h] = risk.pending[h]
                                         /\ risk'.pool[risk.pending[h]] = risk.pool[risk.pending[h]]
      /\ \A i \in DOMAIN risk'.open :
            \/ risk'.open[i] = i
            \/ i \in DOMAIN risk.open /\ risk'.open[i] = risk.open[i]
            \/ /\ e.kind = "OrderAccepted" /\ y \in DOMAIN risk.pending
               /\ risk'.open[i] = risk.pending[y]
      /\ restarts = 0 => Solvent(risk')
  <2> HIDE DEF n, e, y
  <2>1. QED
    BY WatchSees DEF n, e, y, LeavesPending
<1>2. risk.last \in Nat /\ risk.last < n /\ Len(ideal) \in Nat
      /\ \A h \in DOMAIN risk.pending : risk.pending[h] \in Calls
  <2>1. ideal \in Seq(Records)
    BY DEF LogInv
  <2>2. QED
    BY <2>1 DEF RiskInv, WellKept, Shape, Separate
<1>3. /\ UNCHANGED <<inbound, outbound, books, ends, ideal>>
      /\ UNCHANGED <<key, pc, ask, result, queue, batch, ran, saved, restarts>>
      /\ \A d : KeyOfCall(d)' = KeyOfCall(d)
      /\ \A d : Sent(d)' <=> Sent(d)
  BY DEF Watch, logVars, calls, producer, bounded, KeyOfCall, OrderKey, Sent
<1> HIDE DEF n, e, y
<1>4. QueueInv' /\ SavedInv' /\ RiskInv'
  BY <1>1, <1>3 DEF QueueInv, SavedInv, RiskInv
<1>5. \A m \in 1 .. Len(ideal) : Awaited(m)' =>
         /\ Awaited(m) /\ m # n
         /\ e.kind = "OrderAccepted" => OrderKey(ideal[m]) # y
  <2>1. \A m \in 1 .. Len(ideal) : Awaited(m)' => Awaited(m) /\ m # n
    BY <1>1, <1>2, <1>3 DEF Awaited, n
  <2>2. QED
    BY <1>1, <2>1 DEF AwaitedInv, y, e
<1>6. AwaitedInv'
  <2>1. ASSUME NEW m \in 1 .. Len(ideal), Awaited(m)', NEW k, k = OrderKey(ideal[m])
        PROVE  /\ k \in Keys /\ key[k] = "accepted"
               /\ k \in DOMAIN risk'.pending =>
                     /\ \E d \in Calls : d = risk'.pending[k] /\ Sent(d)'
                     /\ risk'.pool[risk'.pending[k]] = Reservation(ideal[m])
               /\ k \notin DOMAIN risk'.pending =>
                     /\ restarts # 0
                     /\ \A d \in Calls : pc[d] = "missed" => KeyOfCall(d) # k
    <3>1. Awaited(m) /\ (e.kind = "OrderAccepted" => k # y)
      BY <1>5, <2>1
    <3>2. /\ k \in Keys /\ key[k] = "accepted"
          /\ k \in DOMAIN risk.pending =>
                /\ Sent(risk.pending[k])
                /\ risk.pool[risk.pending[k]] = Reservation(ideal[m])
          /\ k \notin DOMAIN risk.pending =>
                /\ restarts # 0
                /\ \A d \in Calls : pc[d] = "missed" => KeyOfCall(d) # k
      BY <2>1, <3>1 DEF AwaitedInv
    <3>3. k \in DOMAIN risk'.pending <=> k \in DOMAIN risk.pending
      BY <1>1, <3>1
    <3>4. k \in DOMAIN risk'.pending => \E d \in Calls : d = risk'.pending[k] /\ Sent(d)'
      BY <1>1, <1>2, <1>3, <3>2, <3>3
    <3>5. QED
      BY <1>1, <3>2, <3>3, <3>4
  <2>2. \A m, i \in 1 .. Len(ideal) : Awaited(m)' /\ Awaited(i)'
                                      /\ OrderKey(ideal[m]) = OrderKey(ideal[i]) => m = i
    BY <1>5 DEF AwaitedInv
  <2>3. QED
    BY <1>3, <2>1, <2>2 DEF AwaitedInv, Sent
<1>7. PendingInv'
  <2>1. ASSUME NEW k \in DOMAIN risk'.pending, NEW d, d = risk'.pending[k]
        PROVE  /\ KeyOfCall(d) = k /\ ask[d].kind = "SubmitOrder"
               /\ risk'.pool[d] = Reservation(ask[d])
               /\ pc[d] \in {"queued", "resolved"} \/ (pc[d] = "done" /\ result[d] = "accepted")
    <3>1. k \in DOMAIN risk.pending /\ d = risk.pending[k] /\ risk'.pool[d] = risk.pool[d]
      BY <1>1, <2>1
    <3>2. QED
      BY <3>1 DEF PendingInv
  <2>2. ASSUME NEW d \in Calls, pc[d] \in {"queued", "resolved"}, ask[d].kind = "SubmitOrder",
               result[d] # "appended"
        PROVE  KeyOfCall(d) \in DOMAIN risk'.pending /\ risk'.pending[KeyOfCall(d)] = d
    <3>1. KeyOfCall(d) \in DOMAIN risk.pending /\ risk.pending[KeyOfCall(d)] = d
      BY <2>2 DEF PendingInv
    <3>2. ~Sent(d)
      BY <2>2 DEF Sent
    <3>3. e.kind = "OrderAccepted" => KeyOfCall(d) # y
      BY <1>1, <3>1, <3>2 DEF AwaitedInv, y, e
    <3>4. QED
      BY <1>1, <3>1, <3>3
  <2>3. \A i \in DOMAIN risk'.open :
           risk'.open[i] = i \/ pc[risk'.open[i]] \in {"queued", "resolved", "done"}
    BY <1>1 DEF PendingInv
  <2>4. QED
    BY <1>3, <2>1, <2>2, <2>3 DEF PendingInv
<1>8. restarts' = 0 => Solvent(risk')
  BY <1>1, <1>3
<1>9. QED
  <2>1. (Solvent(risk))' <=> Solvent(risk')
    BY DEF Solvent
  <2>2. QED
    BY <1>4, <1>6, <1>7, <1>8, <2>1

-----------------------------------------------------------------------------
(* The invariant holds from the genesis on, and in every step. *)

LEMMA CommitInit == Init => CommitInv
<1> SUFFICES ASSUME Init PROVE CommitInv
  OBVIOUS
<1>1. /\ inbound = <<>> /\ outbound = <<>> /\ ideal = <<>>
      /\ books = [k \in {0} |-> InitEngine] /\ ends = [k \in {0} |-> 0]
      /\ pc = [c \in Calls |-> "idle"] /\ result = [c \in Calls |-> "none"]
      /\ queue = <<>> /\ batch = <<>> /\ risk = Genesis /\ saved = Dump(Genesis)
      /\ lost = 0 /\ restarts = 0
  BY DEF Init, LogInit
<1>2. /\ Len(inbound) = 0 /\ Len(outbound) = 0 /\ Len(ideal) = 0
      /\ Len(queue) = 0 /\ Len(batch) = 0
  BY <1>1
<1>3. /\ WellKept(Genesis) /\ Genesis.last = 0
      /\ DOMAIN Genesis.pending = {} /\ DOMAIN Genesis.open = {}
      /\ Told(ideal, 0) = Genesis
  <2>1. ideal \in Seq(Records)
    BY <1>1
  <2>2. QED
    BY <2>1, GenesisIsWellKept, ToldSteps
<1>4. LogInv
  <2>1. books[0] = InitEngine /\ ends[0] = 0 /\ InitEngine \in EngineStates
    BY <1>1, EngineAnswers
  <2>2. ideal \in Seq(Records) /\ SubSeq(ideal, 1, 0) = <<>>
    BY <1>1
  <2>3. \A i \in 0 .. 0 : i = 0
    OBVIOUS
  <2>4. Follows(ideal) /\ Rows(Told(ideal, 0)) = RestingIn(books[0])
    BY <1>2, <1>3, <2>1, EngineTellsOrders DEF Follows
  <2>5. QED
    BY <1>1, <1>2, <2>1, <2>2, <2>3, <2>4 DEF LogInv
<1>5. BoundsInv
  BY <1>1 DEF BoundsInv
<1>6. QueueInv
  BY <1>1, <1>2 DEF QueueInv
<1>7. RiskInv /\ SavedInv
  <2>1. RiskInv
    BY <1>1, <1>2, <1>3 DEF RiskInv, Alike
  <2>2. saved.last = 0
    BY <1>1, <1>3 DEF Dump
  <2>3. QED
    BY <1>1, <1>2, <1>3, <2>1, <2>2 DEF SavedInv
<1>8. AwaitedInv
  BY <1>2 DEF AwaitedInv
<1>9. PendingInv
  BY <1>1, <1>3 DEF PendingInv
<1>10. Solvent(risk)
  <2>1. risk.settled = Holdings /\ risk.reserved = [x \in Resources |-> 0]
    BY <1>1 DEF Genesis
  <2>2. \A x \in Resources : Holdings[x] \in Nat
    BY HoldingsAreNat
  <2>3. \A x \in Resources : risk.reserved[x] <= risk.settled[x]
    BY <2>1, <2>2
  <2>4. QED
    BY <2>3 DEF Solvent
<1>11. QED
  BY <1>4, <1>5, <1>6, <1>7, <1>8, <1>9, <1>10 DEF CommitInv, KeptInv

\* The bookkeeping of the stream and of the bounds, whatever was lost.
LEMMA LogStep ==
    ASSUME IInv, LogInv, BoundsInv, [Next]_vars
    PROVE  LogInv' /\ BoundsInv' /\ (lost' = 0 => lost = 0)
<1>1. ASSUME UNCHANGED <<inbound, outbound, books, ends, ideal>>
      PROVE  LogInv'
  BY <1>1 DEF LogInv
<1>2. ASSUME NEW c \in Calls, NEW a \in Asks, Lookup(c, a)
      PROVE  UNCHANGED <<logVars, lost, restarts>>
  BY <1>2 DEF Lookup, bounded
<1>3. ASSUME NEW c \in Calls, Proceed(c)
      PROVE  UNCHANGED <<logVars, lost, restarts>>
  BY <1>3 DEF Proceed, Decide, DecideCancel, RecordRejected, Reread, Finish, bounded
<1>4. CASE TakeBatch \/ Flushed \/ Watch \/ SaveCheckpoint \/ UNCHANGED vars
  <2>1. UNCHANGED <<logVars, lost, restarts>>
    BY <1>4 DEF TakeBatch, Flushed, Watch, SaveCheckpoint, vars, bounded
  <2>2. QED
    BY <1>1, <2>1 DEF logVars, BoundsInv
<1>5. CASE ClaimAndAppend
  <2>1. /\ UNCHANGED <<lost, restarts>>
        /\ (\E r : Receive(r)) \/ UNCHANGED logVars
    BY <1>5 DEF ClaimAndAppend, bounded
  <2>2. LogInv'
    BY <1>1, <2>1, LogGrows DEF IInv, logVars
  <2>3. QED
    BY <2>1, <2>2 DEF BoundsInv
<1>6. CASE Match
  <2>1. UNCHANGED <<lost, restarts>> /\ \E k \in 1 .. Len(inbound) : Answer(k)
    BY <1>6 DEF Match, bounded
  <2>2. LogInv'
    BY <2>1, LogAnswers DEF IInv
  <2>3. QED
    BY <2>1, <2>2 DEF BoundsInv
<1>7. CASE FlushBreaks
  <2>1. UNCHANGED logVars /\ lost < MaxLost /\ lost' = lost + 1 /\ restarts' = restarts
    BY <1>7 DEF FlushBreaks
  <2>2. LogInv'
    BY <1>1, <2>1 DEF logVars
  <2>3. QED
    BY <2>1, <2>2 DEF BoundsInv
<1>8. CASE Restart
  <2>1. UNCHANGED logVars /\ restarts < MaxRestarts /\ restarts' = restarts + 1 /\ lost' = lost
    BY <1>8 DEF Restart
  <2>2. LogInv'
    BY <1>1, <2>1 DEF logVars
  <2>3. QED
    BY <2>1, <2>2 DEF BoundsInv
<1>9. ASSUME NEW k \in Keys, Expire(k)
      PROVE  UNCHANGED <<logVars, lost, restarts>>
  BY <1>9 DEF Expire
<1>10. ASSUME UNCHANGED <<logVars, lost, restarts>>
       PROVE  LogInv' /\ BoundsInv' /\ (lost' = 0 => lost = 0)
  BY <1>1, <1>10 DEF logVars, BoundsInv
<1>11. QED
  BY <1>2, <1>3, <1>4, <1>5, <1>6, <1>7, <1>8, <1>9, <1>10 DEF Next, Produce

LEMMA KeptDecide ==
    ASSUME IInv, LogInv, KeptInv, NEW c \in Calls, Decide(c)
    PROVE  KeptInv'
<1>1. /\ pc[c] = "missed" /\ ask[c].kind = "SubmitOrder"
      /\ UNCHANGED <<logVars, key, batch, ran, saved, restarts>>
  BY DEF Decide, bounded
<1>2. CASE /\ (\E r : Answers(c, r)) \/ Goes(c, "rejecting")
           /\ UNCHANGED <<ask, queue, risk>>
  BY <1>1, <1>2, KeptTurnedDown
<1>3. CASE /\ KeyOfCall(c) \notin DOMAIN risk.pending
           /\ ~Refused(ask[c])
           /\ ask' = [ask EXCEPT ![c] = Priced(ask[c])]
           /\ risk' = Reserve(risk, c, Priced(ask[c]))
           /\ queue' = Append(queue, c)
           /\ Goes(c, "queued")
  BY <1>1, <1>3, KeptReserve
<1>4. QED
  BY <1>2, <1>3 DEF Decide

LEMMA KeptStep ==
    ASSUME IInv, LogInv, BoundsInv, KeptInv,
           [Next]_vars, lost' = lost
    PROVE  KeptInv'
<1>1. ASSUME NEW c \in Calls, NEW a \in Asks, Lookup(c, a)
      PROVE  KeptInv'
  BY <1>1, KeptLookup
<1>2. ASSUME NEW c \in Calls, Proceed(c)
      PROVE  KeptInv'
  BY <1>2, KeptDecide, KeptDecideCancel, KeptRecordRejected, KeptReread, KeptFinish DEF Proceed
<1>3. CASE Produce
  BY <1>3, KeptTakeBatch, KeptClaimAndAppend, KeptFlushed DEF Produce
<1>4. CASE FlushBreaks
  BY <1>4 DEF FlushBreaks, BoundsInv
<1>5. CASE Match
  BY <1>5, KeptMatch
<1>6. CASE Watch
  BY <1>6, KeptWatch
<1>7. CASE SaveCheckpoint
  BY <1>7, KeptSaveCheckpoint
<1>8. CASE Restart
  BY <1>8, KeptRestart DEF BoundsInv
<1>9. ASSUME NEW k \in Keys, Expire(k)
      PROVE  KeptInv'
  BY <1>9, KeptExpire
<1>10. CASE UNCHANGED vars
  <2>1. /\ UNCHANGED <<inbound, outbound, books, ends, ideal>>
        /\ UNCHANGED <<key, pc, ask, result, queue, batch, ran, risk, saved, restarts>>
    BY <1>10 DEF vars, logVars, calls, producer, bounded
  <2>2. QueueInv' /\ SavedInv'
    BY <2>1 DEF KeptInv, QueueInv, SavedInv
  <2>3. Len(outbound) \in Nat
    BY LogIs
  <2>4. QED
    BY <2>1, <2>2, <2>3, KeptQuiet
<1>11. QED
  BY <1>1, <1>2, <1>3, <1>4, <1>5, <1>6, <1>7, <1>8, <1>9, <1>10 DEF Next

LEMMA CommitStep ==
    ASSUME IInv, CommitInv, [Next]_vars
    PROVE  CommitInv'
<1>1. LogInv /\ BoundsInv /\ (lost = 0 => KeptInv)
  BY DEF CommitInv
<1>2. LogInv' /\ BoundsInv' /\ (lost' = 0 => lost = 0)
  BY <1>1, LogStep
<1>3. lost' = 0 => KeptInv'
  BY <1>1, <1>2, KeptStep
<1>4. QED
  BY <1>2, <1>3 DEF CommitInv

-----------------------------------------------------------------------------
(***************************************************************************)
(* What follows for the gateway, whatever engine answers, so long as it     *)
(* tells of orders as they are (EngineTellsOrders).                        *)
(***************************************************************************)

\* The strengthening of the four properties below.
THEOREM CommitmentsAreKept == Spec => []CommitInv
<1>1. Init => CommitInv
  BY CommitInit
<1>2. IInv /\ CommitInv /\ [Next]_vars => CommitInv'
  BY CommitStep
<1>3. QED
  BY <1>1, <1>2, KeysAreTruthful, PTL DEF Spec

\* What is set aside, resource by resource, is what the orders in flight and the
\* open orders commit, unless the reply of an append was ever lost.
THEOREM WhatIsSetAsideIsCommitted == Spec => []CommitmentsExactUnlessLost
<1>1. CommitInv => CommitmentsExactUnlessLost
  <2> SUFFICES ASSUME CommitInv, lost = 0, NEW x \in Resources
               PROVE  risk.reserved[x]
                         = Committed(risk, Range(risk.pending) \union Range(risk.open), x)
    BY DEF CommitmentsExactUnlessLost, CommitmentsExact
  <2>1. WellKept(risk)
    BY DEF CommitInv, KeptInv, RiskInv
  <2>2. QED
    BY <2>1, CommittedIsReserved
<1>2. QED
  BY <1>1, CommitmentsAreKept, PTL

\* Where no reply is lost, the same without a condition, over restarts and retries.
THEOREM WhatIsSetAsideIsCommittedIfNoneIsLost ==
    ASSUME MaxLost = 0
    PROVE  Spec => []CommitmentsExact
<1>1. CommitInv => CommitmentsExact
  <2> SUFFICES ASSUME CommitInv, NEW x \in Resources
               PROVE  risk.reserved[x]
                         = Committed(risk, Range(risk.pending) \union Range(risk.open), x)
    BY DEF CommitmentsExact
  <2>1. WellKept(risk)
    BY DEF CommitInv, BoundsInv, KeptInv, RiskInv
  <2>2. QED
    BY <2>1, CommittedIsReserved
<1>2. QED
  BY <1>1, CommitmentsAreKept, PTL

\* The checkpoint is what a replay of the stream from genesis gives: it carries
\* nothing of the orders that were in flight when it was written.
THEOREM CheckpointsReplay == Spec => []CheckpointIsReplay
<1>1. CommitInv => CheckpointIsReplay
  <2> SUFFICES ASSUME CommitInv, lost = 0
               PROVE  saved = Dump(Replay(Genesis, SubSeq(outbound, 1, saved.last)))
    BY DEF CheckpointIsReplay
  <2> DEFINE m == saved.last
             n == Len(outbound)
  <2>1. /\ ideal \in Seq(Records) /\ Len(ideal) \in Nat /\ Follows(ideal)
        /\ n \in 0 .. Len(ideal) /\ outbound = SubSeq(ideal, 1, n)
        /\ m \in 0 .. n /\ saved = Dump(Told(ideal, m))
    BY LogIs DEF CommitInv, LogInv, KeptInv, SavedInv
  <2> HIDE DEF m, n
  <2>2. m \in 0 .. Len(ideal) /\ m \in Nat /\ n \in Nat /\ m <= n
    BY <2>1
  <2>3. SubSeq(outbound, 1, m) = SubSeq(ideal, 1, m)
    <3>1. \A i \in 1 .. n : outbound[i] = ideal[i]
      BY <2>1, <2>2, SubSeqProperties
    <3>2. \A i \in 1 .. m : i \in 1 .. n
      BY <2>2
    <3>3. \A i \in 1 .. m : outbound[i] = ideal[i]
      BY <3>1, <3>2
    <3>4. QED
      BY <2>2, <3>3
  <2>4. Dump(Replay(Genesis, SubSeq(ideal, 1, m))) = Dump(Told(ideal, m))
    BY <2>1, <2>2, ReplaysFromGenesis
  <2>5. QED
    BY <2>1, <2>3, <2>4 DEF m
<1>2. QED
  BY <1>1, CommitmentsAreKept, PTL

\* While no reply is lost and the gateway is not restarted, it never promises cash
\* twice, nor inventory of who may not sell short, and no such balance goes below
\* zero: every fill is paid by what was set aside for it.
THEOREM NothingIsPromisedTwice ==
    ASSUME MaxLost = 0, MaxRestarts = 0
    PROVE  Spec => []NothingPromisedTwice
<1>1. CommitInv => NothingPromisedTwice
  <2> SUFFICES ASSUME CommitInv, NEW x \in Resources, x[1] \notin MarketMakers \/ x[2] = Cash
               PROVE  Available(risk, x) >= 0 /\ risk.settled[x] >= 0
    BY DEF NothingPromisedTwice
  <2>1. WellKept(risk) /\ Solvent(risk)
    BY DEF CommitInv, BoundsInv, KeptInv, RiskInv
  <2>2. /\ risk.reserved[x] \in Nat /\ risk.settled[x] \in Int
        /\ risk.reserved[x] <= risk.settled[x]
    BY <2>1, OwedIsReserved DEF Solvent, WellKept, Shape
  <2>3. QED
    BY <2>2 DEF Available
<1>2. QED
  BY <1>1, CommitmentsAreKept, PTL
=============================================================================
