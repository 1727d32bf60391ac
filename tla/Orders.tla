------------------------------- MODULE Orders -------------------------------
(***************************************************************************)
(* Order submission: services/gateway/routes_orders.py, idempotency.py and *)
(* the StreamProducer of streams.py, over the risk state of Risk.          *)
(*                                                                         *)
(* Several HTTP calls are in flight in one event loop, some of them        *)
(* retries with the same client order id.  Between two awaits a call runs  *)
(* alone; at an await anything else may run.  The producer sends what has  *)
(* queued up as one pipeline, Redis runs it script by script, and the      *)
(* reply may be lost after any of them.  A second task applies the         *)
(* outbound stream to the same risk state, and can overtake the reply of   *)
(* the very append it answers.                                             *)
(*                                                                         *)
(* The rest of the exchange is an AnswerLog: what Matcher is shown to be.  *)
(***************************************************************************)
EXTENDS AnswerLog, Risk

CONSTANTS
    Calls,          \* the HTTP calls of the instance
    Asks,           \* the orders they carry; a market order has price 0
    BatchMax,       \* Settings.stream_batch_max
    RestingIn(_),   \* the orders that rest in an engine
    NoAsk,
    MaxLost, MaxRestarts, MaxExpiries   \* bounds on lost replies, restarts, expiries

ASSUME BatchMaxPos == BatchMax \in Nat \ {0}

\* A Reservation is named by a call or by an order id: they are apart.
ASSUME CallsAreNoIds == \A c \in Calls : c \notin Nat

\* SubmitOrderRequest and CancelOrderRequest: what a body may hold.  The symbol of
\* a submit is checked by the handler.
ASSUME AsksAreOrders ==
    \A a \in Asks :
        \/ a.kind = "CancelOrder" /\ a = CancelOrder(a.user, a.coid, a.target)
        \/ /\ a.kind = "SubmitOrder"
           /\ a = SubmitOrder(a.user, a.coid, a.sym, a.side, a.tif, a.price, a.qty)
           /\ a.user \in Users /\ a.side \in Sides
           /\ a.price \in Nat /\ a.qty \in Nat \ {0}

VARIABLES
    key,        \* the idempotency keys: "none", "accepted" or "rejected"
    pc, ask,    \* each call: where it is, and the order it carries
    result,     \* the value of its future, then its answer
    queue, batch, ran,  \* the producer: queued, being flushed, run by Redis
    risk, saved,        \* the risk state, and qa.checkpoint.gateway
    expired, lost, restarts     \* what the bounds count

calls    == <<pc, ask, result>>
producer == <<queue, batch, ran>>
bounded  == <<expired, lost, restarts>>
vars     == <<logVars, key, calls, producer, risk, saved, bounded>>

Keys == {OrderKey(a) : a \in Asks}
KeyOfCall(c) == OrderKey(ask[c])
InFlight == {c \in Calls : pc[c] \notin {"idle", "done"}}

Init ==
    /\ LogInit
    /\ key = [k \in Keys |-> "none"]
    /\ pc = [c \in Calls |-> "idle"]
    /\ ask = [c \in Calls |-> NoAsk]
    /\ result = [c \in Calls |-> "none"]
    /\ queue = <<>> /\ batch = <<>> /\ ran = 0
    /\ risk = Genesis
    /\ saved = Dump(Genesis)
    /\ expired = [k \in Keys |-> 0] /\ lost = 0 /\ restarts = 0

\* The call returns an answer to the client.
Answers(c, answer) == /\ pc' = [pc EXCEPT ![c] = "done"]
                      /\ result' = [result EXCEPT ![c] = answer]

Goes(c, where) == pc' = [pc EXCEPT ![c] = where] /\ UNCHANGED result

-----------------------------------------------------------------------------
(* The handlers submit_order and cancel_order. *)

\* Admitted by the rate limiter, the call looks its key up in Redis.
Lookup(c, a) ==
    /\ pc[c] = "idle"
    /\ ask' = [ask EXCEPT ![c] = a]
    /\ IF key[OrderKey(a)] = "none" THEN Goes(c, "missed")
                                    ELSE Answers(c, key[OrderKey(a)])
    /\ UNCHANGED <<logVars, key, producer, risk, saved, bounded>>

\* The order that will be sent: a market order becomes an IOC at the band.
Priced(a) == IF a.price # 0 THEN a
             ELSE [a EXCEPT !.price = MarketPrice(risk, a.sym, a.side), !.tif = "IOC"]

Refused(a) == \/ a.sym \notin Symbols
              \/ Priced(a).price = 0
              \/ ~Affordable(risk, Priced(a))

\* From the lookup's reply to the next await: check, reserve and queue.
Decide(c) ==
    /\ pc[c] = "missed"
    /\ ask[c].kind = "SubmitOrder"
    /\ \/ /\ KeyOfCall(c) \in DOMAIN risk.pending
          /\ Answers(c, "in_progress")
          /\ UNCHANGED <<ask, queue, risk>>
       \/ /\ KeyOfCall(c) \notin DOMAIN risk.pending
          /\ Refused(ask[c])
          /\ Goes(c, "rejecting")
          /\ UNCHANGED <<ask, queue, risk>>
       \/ /\ KeyOfCall(c) \notin DOMAIN risk.pending
          /\ ~Refused(ask[c])
          /\ ask' = [ask EXCEPT ![c] = Priced(ask[c])]
          /\ risk' = Reserve(risk, c, Priced(ask[c]))
          /\ queue' = Append(queue, c)
          /\ Goes(c, "queued")
    /\ UNCHANGED <<logVars, key, batch, ran, saved, bounded>>

DecideCancel(c) ==
    /\ pc[c] = "missed"
    /\ ask[c].kind = "CancelOrder"
    /\ queue' = Append(queue, c)
    /\ Goes(c, "queued")
    /\ UNCHANGED <<logVars, key, ask, batch, ran, risk, saved, bounded>>

\* Fault: SET without NX.
RecordRejectedAlways(c) ==
    /\ pc[c] = "rejecting"
    /\ key' = [key EXCEPT ![KeyOfCall(c)] = "rejected"]
    /\ Answers(c, "rejected")
    /\ UNCHANGED <<logVars, ask, producer, risk, saved, bounded>>

\* record_rejected: SET NX; if there was an outcome already, GET it.
RecordRejected(c) ==
    /\ pc[c] = "rejecting"
    /\ \/ /\ key[KeyOfCall(c)] = "none"
          /\ key' = [key EXCEPT ![KeyOfCall(c)] = "rejected"]
          /\ Answers(c, "rejected")
       \/ /\ key[KeyOfCall(c)] # "none"
          /\ Goes(c, "rereading")
          /\ UNCHANGED key
    /\ UNCHANGED <<logVars, ask, producer, risk, saved, bounded>>

Reread(c) ==
    /\ pc[c] = "rereading"
    /\ Answers(c, IF key[KeyOfCall(c)] = "none" THEN "rejected" ELSE key[KeyOfCall(c)])
    /\ UNCHANGED <<logVars, key, ask, producer, risk, saved, bounded>>

\* The future of the append is resolved: answer, after undoing the reservation
\* if the order was not appended or nobody knows.
Finish(c) ==
    /\ pc[c] = "resolved"
    /\ risk' = IF ask[c].kind = "SubmitOrder" /\ result[c] # "appended"
               THEN Collect(Abandon(risk, c), InFlight \ {c})
               ELSE Collect(risk, InFlight \ {c})
    /\ Answers(c, IF result[c] = "appended" THEN "accepted" ELSE result[c])
    /\ UNCHANGED <<logVars, key, ask, producer, saved, bounded>>

-----------------------------------------------------------------------------
(* StreamProducer: _loop, _flush and the script. *)

TakeBatch ==
    LET n == IF Len(queue) < BatchMax THEN Len(queue) ELSE BatchMax
    IN  /\ batch = <<>>
        /\ queue # <<>>
        /\ batch' = SubSeq(queue, 1, n)
        /\ queue' = SubSeq(queue, n + 1, Len(queue))
        /\ ran' = 0
        /\ UNCHANGED <<logVars, key, calls, risk, saved, bounded>>

\* Fault: the record is appended whatever the key holds.
AppendWithoutClaim ==
    LET c == batch[ran + 1]
    IN  /\ ran < Len(batch)
        /\ ran' = ran + 1
        /\ Receive(ask[c])
        /\ key' = [key EXCEPT ![KeyOfCall(c)] = "accepted"]
        /\ result' = [result EXCEPT ![c] = "appended"]
        /\ UNCHANGED <<pc, ask, queue, batch, risk, saved, bounded>>

\* CLAIM_AND_APPEND_SCRIPT, for the next item of the pipeline.
ClaimAndAppend ==
    LET c == batch[ran + 1]
    IN  /\ ran < Len(batch)
        /\ ran' = ran + 1
        /\ \/ /\ key[KeyOfCall(c)] = "none"
              /\ Receive(ask[c])
              /\ key' = [key EXCEPT ![KeyOfCall(c)] = "accepted"]
              /\ result' = [result EXCEPT ![c] = "appended"]
           \/ /\ key[KeyOfCall(c)] # "none"
              /\ result' = [result EXCEPT ![c] = key[KeyOfCall(c)]]
              /\ UNCHANGED <<logVars, key>>
        /\ UNCHANGED <<pc, ask, queue, batch, risk, saved, bounded>>

Resolved == [c \in Calls |-> IF c \in Range(batch) THEN "resolved" ELSE pc[c]]

\* The pipeline's reply arrived: every future gets its own result.
Flushed ==
    /\ batch # <<>>
    /\ ran = Len(batch)
    /\ pc' = Resolved
    /\ batch' = <<>>
    /\ UNCHANGED <<logVars, key, ask, result, queue, ran, risk, saved, bounded>>

\* Fault: after a connection error the loop goes on, and the futures hang.
FlushBreaksSilently ==
    /\ batch # <<>>
    /\ lost < MaxLost
    /\ lost' = lost + 1
    /\ batch' = <<>>
    /\ UNCHANGED <<logVars, key, calls, queue, ran, risk, saved, expired, restarts>>

\* The connection broke; Redis has run a part of the pipeline, or all of it.
FlushBreaks ==
    /\ batch # <<>>
    /\ lost < MaxLost
    /\ lost' = lost + 1
    /\ pc' = Resolved
    /\ result' = [c \in Calls |-> IF c \in Range(batch) THEN "halted" ELSE result[c]]
    /\ batch' = <<>>
    /\ UNCHANGED <<logVars, key, ask, queue, ran, risk, saved, expired, restarts>>

-----------------------------------------------------------------------------
(* The rest of the gateway, Redis and the exchange. *)

\* The matcher publishes more answers.
Match == /\ \E k \in 1..Len(inbound) : Answer(k)
         /\ UNCHANGED <<key, calls, producer, risk, saved, bounded>>

\* watch_stream applies the next outbound record.
Watch == /\ risk.last < Len(outbound)
         /\ risk' = Collect(Observe(risk, outbound[risk.last + 1]), InFlight)
         /\ UNCHANGED <<logVars, key, calls, producer, saved, bounded>>

\* save_risk_checkpoint; the dump is one moment, so is its HSET.
SaveCheckpoint ==
    /\ saved' = Dump(risk)
    /\ saved' # saved
    /\ UNCHANGED <<logVars, key, calls, producer, risk, bounded>>

\* The gateway dies and starts again; its calls are never answered.
Restart ==
    /\ restarts < MaxRestarts
    /\ restarts' = restarts + 1
    /\ risk' = Replay(Load(saved), outbound)
    /\ saved' = Dump(risk')
    /\ pc' = [c \in Calls |-> IF c \in InFlight THEN "done" ELSE pc[c]]
    /\ result' = [c \in Calls |-> IF c \in InFlight THEN "lost" ELSE result[c]]
    /\ queue' = <<>> /\ batch' = <<>> /\ ran' = 0
    /\ UNCHANGED <<logVars, key, ask, expired, lost>>

\* An hour later: no call of the key is in flight, and its order was answered.
Expire(k) ==
    /\ expired[k] < MaxExpiries
    /\ key[k] # "none"
    /\ \A c \in InFlight : KeyOfCall(c) # k
    /\ Len(outbound) = Len(ideal) /\ risk.last = Len(outbound)
    /\ key' = [key EXCEPT ![k] = "none"]
    /\ expired' = [expired EXCEPT ![k] = @ + 1]
    /\ UNCHANGED <<logVars, calls, producer, risk, saved, lost, restarts>>

-----------------------------------------------------------------------------
\* What a call does once it was admitted.
Proceed(c) == \/ Decide(c) \/ DecideCancel(c)
              \/ RecordRejected(c) \/ Reread(c) \/ Finish(c)

Produce == TakeBatch \/ ClaimAndAppend \/ Flushed

Next == \/ \E c \in Calls, a \in Asks : Lookup(c, a)
        \/ \E c \in Calls : Proceed(c)
        \/ Produce \/ FlushBreaks
        \/ Match \/ Watch \/ SaveCheckpoint \/ Restart
        \/ \E k \in Keys : Expire(k)

Spec == Init /\ [][Next]_vars

(***************************************************************************)
(* Coroutines that can run are run (one event loop), the producer's loop   *)
(* and watch_stream survive what fails in them, and the matcher answers    *)
(* (Matcher!EveryRecordIsAnswered).  Clients owe nothing.                  *)
(***************************************************************************)
FairSpec == /\ Spec
            /\ \A c \in Calls : WF_vars(Proceed(c))
            /\ WF_vars(Produce) /\ WF_vars(Match) /\ WF_vars(Watch)
-----------------------------------------------------------------------------
(***************************************************************************)
(* What the commitments rest on: that the engine answers as OrderFlow has  *)
(* it, from the orders that rest in it to those that rest in it next.      *)
(***************************************************************************)
ASSUME EngineTellsOrders ==
    /\ RestingIn(InitEngine) = Rows(Genesis)
    /\ \A eng \in EngineStates, r \in Requests :
          LET a == ApplyRecord(eng, r)
          IN  Answered(RestingIn(eng), r, a.out, RestingIn(a.eng))

-----------------------------------------------------------------------------
(* Properties. *)

Outcomes == {"accepted", "rejected"}

Appended(k) == {i \in DOMAIN inbound : OrderKey(inbound[i]) = k}

\* Open Issue 008: however often a client retries, and whatever replies are lost,
\* the exchange gets one order per client order id while the id is remembered.
AppendedOnce == \A k \in Keys : Cardinality(Appended(k)) <= 1 + expired[k]

\* idempotency.py: "On a duplicate submission, the same outcome is returned", and
\* the outcome is the truth: who was told `accepted' has an order on the stream,
\* and who was told `rejected' has none and never will.
AnswersAreTrue ==
    \A c \in Calls : pc[c] = "done" /\ expired[KeyOfCall(c)] = 0 =>
        /\ result[c] = "accepted" => Appended(KeyOfCall(c)) # {}
        /\ result[c] = "rejected" => Appended(KeyOfCall(c)) = {}

\* What the gateway has set aside is what its pending and open orders commit, to
\* the tick and to the unit, though reservations are made, adopted, cut and given
\* back by two tasks.  routes_orders.py:290-293 holds that abandoning is right
\* even when the reply of an append was lost.
CommitmentsExact ==
    \A x \in Resources :
        risk.reserved[x] = Committed(risk, Range(risk.pending) \union Range(risk.open), x)

\* The same where every reply arrived, over key expiries and restarts.
CommitmentsExactUnlessLost == lost = 0 => CommitmentsExact

\* risk.py:65-69: `settled_cash - reserved' never goes negative, and neither does
\* a retail account ("cash accounts and may never go negative").
NothingPromisedTwice ==
    \A x \in Resources : x[1] \notin MarketMakers \/ x[2] = Cash =>
        /\ Available(risk, x) >= 0
        /\ risk.settled[x] >= 0

\* risk.py:22-30 and 65-69, of the settled balances alone.
RetailNeverNegative ==
    \A x \in Resources : x[1] \notin MarketMakers => risk.settled[x] >= 0

\* Task 3.1: "restarting the gateway rebuilds reservations identically".  The
\* saved checkpoint is what a replay from genesis to its position gives, though
\* it was dumped with orders in flight; while every reply arrived, as above.
CheckpointIsReplay ==
    lost = 0 => saved = Dump(Replay(Genesis, SubSeq(outbound, 1, saved.last)))

\* Every call that was admitted is answered: no future of the producer is left
\* unresolved (streams.py:306-309).  And no reservation stays pending for ever,
\* which would refuse every retry as in progress: its order is accepted, or it
\* is undone (routes_orders.py:286-307).
CallsAndReservationsEnd ==
    /\ \A c \in Calls : (pc[c] # "idle") ~> (pc[c] = "done")
    /\ \A k \in Keys : []<>(k \notin DOMAIN risk.pending)
=============================================================================
