--------------------------- MODULE Accounts_proofs ---------------------------
(***************************************************************************)
(* Every account on the stream has its user, for every set of calls, names *)
(* and cookies and any number of refused, broken and unanswered pipelines, *)
(* restarts of the gateway and of the ledger.                              *)
(*                                                                         *)
(* The argument is who may delete a row: only the call that inserted it,   *)
(* under an id of its own (RowInv), and when it does, the producer has     *)
(* either not appended the id or lost the reply to it (SentInv).           *)
(*                                                                         *)
(* And a call was told what it left: an account announced once under a row *)
(* it made, or nothing (RegInv, below).                                    *)
(*                                                                         *)
(* Last, the rate limiter, which has its own state (LimiterInv).           *)
(***************************************************************************)
EXTENDS Accounts, RateLimiter, SequenceTheorems, FiniteSetTheorems, TLAPS

OnStream == ToSet(stream)

\* The call has a row, and has not been answered.
HasRow(c) == pc[c] \in {"saved", "waiting", "withdrawing"}

TypeInv ==
    /\ DOMAIN pc = Calls /\ DOMAIN told = Calls /\ uid \in [Calls -> Nat]
    /\ nextId \in Nat \ {0}
    /\ queue \in Seq(Calls) /\ batch \in Seq([call : Calls, seq : Nat])
    /\ stream \in Seq(Nat)
    /\ session \in [Cookies -> Int]

RowInv ==
    /\ DOMAIN users \subseteq Nat /\ lost \subseteq Nat
    /\ \A id \in DOMAIN users \union OnStream \union lost : id < nextId
    /\ \A c \in Calls : uid[c] < nextId
    /\ \A c \in Calls : pc[c] \in {"saved", "waiting"} => uid[c] \in DOMAIN users
    /\ \A c, d \in Calls : c # d /\ HasRow(c) /\ HasRow(d) => uid[c] # uid[d]

SentInv ==
    /\ \A c \in Waiting \union InFlight : pc[c] = "waiting"
    /\ Waiting \intersect InFlight = {}
    /\ \A c \in Calls : HasRow(c) /\ c \notin InFlight /\ uid[c] \in OnStream => uid[c] \in lost

AnswerInv == \A c \in Calls : told[c].code = "halted" => pc[c] = "done"

IInv == TypeInv /\ RowInv /\ SentInv /\ AnswerInv /\ AccountsHaveTheirUsers

PositionInv == applied \in Nat

-----------------------------------------------------------------------------
LEMMA ToSetOfConcat ==
    ASSUME NEW S, NEW s \in Seq(S), NEW t \in Seq(S)
    PROVE  ToSet(s \o t) = ToSet(s) \union ToSet(t)
<1>1. /\ s \o t \in Seq(S) /\ Len(s \o t) = Len(s) + Len(t)
      /\ \A i \in 1 .. Len(s) + Len(t) :
            (s \o t)[i] = IF i <= Len(s) THEN s[i] ELSE t[i - Len(s)]
  BY ConcatProperties
<1>2. Len(s) \in Nat /\ Len(t) \in Nat
  OBVIOUS
<1>3. /\ DOMAIN s = 1 .. Len(s) /\ DOMAIN t = 1 .. Len(t)
      /\ DOMAIN (s \o t) = 1 .. Len(s) + Len(t)
  BY <1>1
<1>4. ASSUME NEW x \in ToSet(s \o t)
      PROVE  x \in ToSet(s) \union ToSet(t)
  BY <1>1, <1>2, <1>3 DEF ToSet
<1>5. ASSUME NEW x \in ToSet(s)
      PROVE  x \in ToSet(s \o t)
  BY <1>1, <1>2, <1>3 DEF ToSet
<1>6. ASSUME NEW x \in ToSet(t)
      PROVE  x \in ToSet(s \o t)
  <2>1. PICK i \in 1 .. Len(t) : x = t[i]
    BY <1>3 DEF ToSet
  <2>2. i + Len(s) \in 1 .. Len(s) + Len(t) /\ ~(i + Len(s) <= Len(s)) /\ (i + Len(s)) - Len(s) = i
    BY <1>2
  <2>3. QED
    BY <1>1, <1>3, <2>1, <2>2 DEF ToSet
<1>7. QED
  BY <1>4, <1>5, <1>6

\* The records of the calls at the head of the queue.
LEMMA UidsOfPrefix ==
    ASSUME TypeInv, NEW n \in 0 .. Len(queue)
    PROVE  /\ UidsOf(SubSeq(queue, 1, n)) \in Seq(Nat)
           /\ ToSet(UidsOf(SubSeq(queue, 1, n))) = {uid[queue[i]] : i \in 1 .. n}
<1> DEFINE cs == SubSeq(queue, 1, n)
<1>1. queue \in Seq(Calls) /\ uid \in [Calls -> Nat] /\ Len(queue) \in Nat
  BY DEF TypeInv
<1>2. cs \in Seq(Calls) /\ DOMAIN cs = 1 .. n /\ \A i \in 1 .. n : cs[i] = queue[i] /\ queue[i] \in Calls
  BY <1>1
<1>3. UidsOf(cs) = [i \in 1 .. n |-> uid[queue[i]]]
  BY <1>2 DEF UidsOf
<1>4. UidsOf(cs) \in [1 .. n -> Nat]
  BY <1>1, <1>2, <1>3
<1>5. UidsOf(cs) \in Seq(Nat)
  BY <1>4
<1>6. ToSet(UidsOf(cs)) = {uid[queue[i]] : i \in 1 .. n}
  BY <1>3 DEF ToSet
<1>7. QED
  BY <1>5, <1>6

LEMMA QueueIsPrefix ==
    ASSUME TypeInv
    PROVE  /\ UidsOf(queue) \in Seq(Nat)
           /\ ToSet(UidsOf(queue)) = {uid[c] : c \in Waiting}
           /\ Waiting = {queue[i] : i \in 1 .. Len(queue)} /\ Waiting \subseteq Calls
<1>1. queue \in Seq(Calls) /\ Len(queue) \in Nat /\ DOMAIN queue = 1 .. Len(queue)
  BY DEF TypeInv
<1>2. SubSeq(queue, 1, Len(queue)) = queue
  BY <1>1
<1>3. Waiting = {queue[i] : i \in 1 .. Len(queue)}
  BY <1>1 DEF Waiting, ToSet
<1>4. /\ UidsOf(SubSeq(queue, 1, Len(queue))) \in Seq(Nat)
      /\ ToSet(UidsOf(SubSeq(queue, 1, Len(queue)))) = {uid[queue[i]] : i \in 1 .. Len(queue)}
  <2>1. Len(queue) \in 0 .. Len(queue)
    BY <1>1
  <2>2. QED
    BY <2>1, UidsOfPrefix
<1>5. {uid[queue[i]] : i \in 1 .. Len(queue)} = {uid[c] : c \in Waiting}
  BY <1>3
<1>6. Waiting \subseteq Calls
  BY <1>1, <1>3
<1>7. QED
  BY <1>2, <1>3, <1>4, <1>5, <1>6

LEMMA FlightIsCalls ==
    ASSUME TypeInv
    PROVE  InFlight \subseteq Calls /\ (batch = <<>> => InFlight = {})
<1>1. batch \in Seq([call : Calls, seq : Nat])
  BY DEF TypeInv
<1>2. DOMAIN batch = 1 .. Len(batch) /\ \A i \in 1 .. Len(batch) : batch[i].call \in Calls
  <2> DEFINE Entries == [call : Calls, seq : Nat]
  <2>1. \A e \in Entries : e.call \in Calls
    OBVIOUS
  <2>2. DOMAIN batch = 1 .. Len(batch) /\ \A i \in 1 .. Len(batch) : batch[i] \in Entries
    <3> HIDE DEF Entries
    <3>1. batch \in Seq(Entries)
      BY <1>1 DEF Entries
    <3>2. QED
      BY <3>1
  <2>3. QED
    BY <2>1, <2>2
<1>3. batch = <<>> => DOMAIN batch = {}
  OBVIOUS
<1>4. QED
  BY <1>2, <1>3 DEF InFlight, ToSet

LEMMA EndsEffect ==
    ASSUME TypeInv, AnswerInv, NEW cs, NEW code, Ends(cs, code), \A c \in cs : pc[c] # "done"
    PROVE  /\ DOMAIN pc' = Calls /\ DOMAIN told' = Calls /\ AnswerInv'
           /\ \A c \in Calls : pc'[c] = IF c \in cs THEN "done" ELSE pc[c]
           /\ \A c \in Calls : told[c].code = "halted" => c \notin cs /\ told'[c] = told[c]
           /\ \A c \in cs \intersect Calls : told'[c].code = code
<1>1. /\ pc' = [c \in Calls |-> IF c \in cs THEN "done" ELSE pc[c]]
      /\ told' = [c \in Calls |-> IF c \in cs THEN [code |-> code, seq |-> 0] ELSE told[c]]
  BY DEF Ends, Goes
<1>2. \A c \in Calls : told[c].code = "halted" => c \notin cs
  BY DEF AnswerInv
<1>3. AnswerInv'
  BY <1>1 DEF AnswerInv
<1>4. QED
  BY <1>1, <1>2, <1>3

LEMMA GoesEffect ==
    ASSUME TypeInv, AnswerInv, NEW cs, NEW next, Goes(cs, next), told' = told,
           next = "done" \/ \A c \in cs : pc[c] # "done"
    PROVE  /\ DOMAIN pc' = Calls /\ DOMAIN told' = Calls /\ AnswerInv'
           /\ \A c \in Calls : pc'[c] = IF c \in cs THEN next ELSE pc[c]
  BY DEF Goes, TypeInv, AnswerInv

-----------------------------------------------------------------------------
LEMMA InvInit == Init => IInv
<1> SUFFICES ASSUME Init PROVE IInv
  OBVIOUS
<1> USE DEF Init
<1>1. TypeInv
  BY DEF TypeInv, Unused
<1>2. DOMAIN users = {} /\ OnStream = {} /\ Waiting = {} /\ InFlight = {}
  BY DEF OnStream, Waiting, InFlight, ToSet
<1>3. RowInv
  BY <1>2 DEF RowInv, HasRow
<1>4. SentInv /\ AnswerInv
  BY <1>2 DEF SentInv, HasRow, AnswerInv
<1>5. AccountsHaveTheirUsers
  BY <1>2 DEF AccountsHaveTheirUsers, OnStream, SignedIn, Unused
<1>6. QED
  BY <1>1, <1>3, <1>4, <1>5 DEF IInv

\* A step of a call that keeps PostgreSQL, Redis and the producer as they are.
LEMMA InvLookup ==
    ASSUME IInv, NEW c \in Calls, Lookup(c)
    PROVE  IInv'
<1> USE DEF IInv
<1>1. /\ pc[c] = "new"
      /\ UNCHANGED <<users, nextId, uid, queue, batch, stream, lost, owed, session>>
  BY DEF Lookup, postgres, producer
<1>2. /\ DOMAIN pc' = Calls /\ DOMAIN told' = Calls /\ AnswerInv'
      /\ pc'[c] \in {"saving", "done"} /\ \A d \in Calls \ {c} : pc'[d] = pc[d]
      /\ \A d \in Calls : told[d].code = "halted" => told'[d] = told[d]
  <2>1. CASE Ends({c}, "conflict")
    BY <1>1, <2>1, EndsEffect
  <2>2. CASE Goes({c}, "saving") /\ told' = told
    BY <1>1, <2>2, GoesEffect
  <2>3. QED
    BY <2>1, <2>2 DEF Lookup
<1>3. OnStream' = OnStream /\ Waiting' = Waiting /\ InFlight' = InFlight
  BY <1>1 DEF OnStream, Waiting, InFlight
<1>4. TypeInv' /\ RowInv'
  BY <1>1, <1>2, <1>3 DEF TypeInv, RowInv, HasRow
<1>5. SentInv'
  BY <1>1, <1>2, <1>3, QueueIsPrefix, FlightIsCalls DEF SentInv, HasRow
<1>6. AccountsHaveTheirUsers'
  BY <1>1, <1>2 DEF AccountsHaveTheirUsers, SignedIn
<1>7. QED
  BY <1>2, <1>4, <1>5, <1>6

LEMMA InvInsert ==
    ASSUME IInv, NEW c \in Calls, Insert(c)
    PROVE  IInv'
<1> USE DEF IInv
<1>1. /\ pc[c] = "saving" /\ nextId' = nextId + 1 /\ nextId \in Nat \ {0}
      /\ UNCHANGED <<queue, batch, stream, lost, owed, session>>
  BY DEF Insert, producer, TypeInv
<1>2. /\ DOMAIN pc' = Calls /\ DOMAIN told' = Calls /\ AnswerInv'
      /\ \A d \in Calls \ {c} : pc'[d] = pc[d]
      /\ \A d \in Calls : told[d].code = "halted" => d # c /\ told'[d] = told[d]
      /\ \/ pc'[c] = "done" /\ UNCHANGED <<users, uid>>
         \/ /\ pc'[c] = "saved" /\ uid' = [uid EXCEPT ![c] = nextId]
            /\ DOMAIN users' = DOMAIN users \union {nextId}
  <2>1. CASE Ends({c}, "error") /\ UNCHANGED <<users, uid>>
    BY <1>1, <2>1, EndsEffect
  <2>2. CASE /\ Goes({c}, "saved") /\ told' = told /\ uid' = [uid EXCEPT ![c] = nextId]
             /\ DOMAIN users' = DOMAIN users \union {nextId}
    <3>1. \A d \in Calls : told[d].code = "halted" => d # c
      BY <1>1 DEF AnswerInv
    <3>2. QED
      BY <1>1, <2>2, <3>1, GoesEffect
  <2>3. QED
    BY <2>1, <2>2 DEF Insert
<1>3. OnStream' = OnStream /\ Waiting' = Waiting /\ InFlight' = InFlight /\ OnStream \subseteq Nat
  BY <1>1 DEF OnStream, Waiting, InFlight, ToSet, TypeInv
<1>4. /\ uid \in [Calls -> Nat] /\ uid' \in [Calls -> Nat]
      /\ \A d \in Calls \ {c} : uid'[d] = uid[d]
      /\ uid'[c] \in {uid[c], nextId} /\ (pc'[c] # "done" => uid'[c] = nextId)
      /\ DOMAIN users \subseteq DOMAIN users'
      /\ DOMAIN users' \subseteq DOMAIN users \union {nextId}
      /\ pc'[c] = "saved" => nextId \in DOMAIN users'
  BY <1>2 DEF TypeInv
<1>5. TypeInv'
  BY <1>1, <1>2, <1>4 DEF TypeInv
<1>6. nextId \notin OnStream \union lost /\ \A d \in Calls : uid[d] < nextId /\ uid[d] # nextId
  BY <1>1, <1>4 DEF RowInv, TypeInv
<1>7. RowInv'
  <2>1. DOMAIN users' \subseteq Nat
    BY <1>1, <1>4 DEF RowInv
  <2>2. \A id : id < nextId \/ id = nextId => (id \in Nat => id < nextId')
    BY <1>1
  <2>3. \A id \in DOMAIN users' \union OnStream : id < nextId'
    BY <1>1, <1>3, <1>4, <2>1, <2>2 DEF RowInv
  <2>4. \A d \in Calls : uid'[d] < nextId'
    BY <1>4, <1>6, <2>2, <1>1 DEF RowInv
  <2>5. \A d \in Calls : pc'[d] \in {"saved", "waiting"} => uid'[d] \in DOMAIN users'
    BY <1>2, <1>4 DEF RowInv
  <2>6. \A d, e \in Calls : d # e /\ HasRow(d)' /\ HasRow(e)' => uid'[d] # uid'[e]
    BY <1>2, <1>4, <1>6 DEF RowInv, HasRow
  <2>7. lost \subseteq Nat
    BY DEF RowInv
  <2>8. QED
    BY <1>1, <1>3, <2>1, <2>2, <2>3, <2>4, <2>5, <2>6, <2>7 DEF RowInv
<1>8. SentInv'
  BY <1>1, <1>2, <1>3, <1>4, <1>6, QueueIsPrefix, FlightIsCalls DEF SentInv, HasRow
<1>9. AccountsHaveTheirUsers'
  <2>1. ToSet(stream) \ lost \subseteq DOMAIN users'
    BY <1>4 DEF AccountsHaveTheirUsers
  <2>2. owed => lost \ DOMAIN users' # {}
    BY <1>4, <1>6 DEF AccountsHaveTheirUsers
  <2>3. ASSUME NEW k \in Cookies, SignedIn(k), session[k] \notin DOMAIN users'
        PROVE  \E d \in Calls : uid'[d] = session[k] /\ told'[d].code = "halted"
    BY <1>2, <1>4, <2>3 DEF AccountsHaveTheirUsers
  <2>4. QED
    BY <1>1, <2>1, <2>2, <2>3 DEF AccountsHaveTheirUsers, SignedIn
<1>10. QED
  BY <1>2, <1>5, <1>7, <1>8, <1>9

LEMMA InvEnqueue ==
    ASSUME IInv, NEW c \in Calls, Enqueue(c)
    PROVE  IInv'
<1> USE DEF IInv
<1>1. /\ pc[c] = "saved"
      /\ UNCHANGED <<users, nextId, uid, told, batch, stream, lost, owed, session>>
  BY DEF Enqueue, postgres
<1>2. /\ DOMAIN pc' = Calls /\ AnswerInv'
      /\ \A d \in Calls \ {c} : pc'[d] = pc[d]
      /\ \/ pc'[c] = "withdrawing" /\ queue' = queue
         \/ pc'[c] = "waiting" /\ queue' = queue \o <<c>>
  <2>1. CASE Goes({c}, "withdrawing") /\ queue' = queue
    BY <1>1, <2>1, GoesEffect
  <2>2. CASE Goes({c}, "waiting") /\ queue' = queue \o <<c>>
    BY <1>1, <2>2, GoesEffect
  <2>3. QED
    BY <2>1, <2>2 DEF Enqueue
<1>3. /\ queue' \in Seq(Calls) /\ OnStream' = OnStream /\ InFlight' = InFlight
      /\ Waiting' = Waiting \/ (Waiting' = Waiting \union {c} /\ pc'[c] = "waiting")
  <2>1. CASE queue' = queue
    BY <1>1, <2>1 DEF TypeInv, OnStream, Waiting, InFlight
  <2>2. CASE pc'[c] = "waiting" /\ queue' = queue \o <<c>>
    <3>1. queue \in Seq(Calls) /\ <<c>> \in Seq(Calls) /\ ToSet(<<c>>) = {c}
      <4>1. DOMAIN <<c>> = {1} /\ <<c>>[1] = c
        OBVIOUS
      <4>2. ToSet(<<c>>) = {c}
        BY <4>1 DEF ToSet
      <4>3. <<c>> \in Seq(Calls)
        OBVIOUS
      <4>4. queue \in Seq(Calls)
        BY DEF TypeInv
      <4>5. QED
        BY <4>2, <4>3, <4>4
    <3>2. ToSet(queue \o <<c>>) = ToSet(queue) \union {c} /\ queue \o <<c>> \in Seq(Calls)
      <4>1. ToSet(queue \o <<c>>) = ToSet(queue) \union ToSet(<<c>>)
        BY <3>1, ToSetOfConcat
      <4>2. queue \o <<c>> \in Seq(Calls)
        BY <3>1
      <4>3. QED
        BY <3>1, <4>1, <4>2
    <3>3. QED
      BY <1>1, <2>2, <3>1, <3>2 DEF OnStream, Waiting, InFlight
  <2>3. QED
    BY <1>2, <2>1, <2>2
<1>4. TypeInv' /\ RowInv'
  BY <1>1, <1>2, <1>3 DEF TypeInv, RowInv, HasRow
<1>5. SentInv'
  BY <1>1, <1>2, <1>3, QueueIsPrefix, FlightIsCalls DEF SentInv, HasRow
<1>6. AccountsHaveTheirUsers'
  BY <1>1 DEF AccountsHaveTheirUsers, SignedIn
<1>7. QED
  BY <1>2, <1>4, <1>5, <1>6

\* The row that goes is this call's alone, and its id is on the stream only if the
\* reply to it was lost.
LEMMA InvWithdraw ==
    ASSUME IInv, NEW c \in Calls, Withdraw(c)
    PROVE  IInv'
<1> USE DEF IInv
<1>1. /\ pc[c] = "withdrawing"
      /\ UNCHANGED <<nextId, uid, queue, batch, stream, lost, owed, session>>
  BY DEF Withdraw, producer
<1>2. /\ DOMAIN pc' = Calls /\ DOMAIN told' = Calls /\ AnswerInv'
      /\ pc'[c] = "done" /\ \A d \in Calls \ {c} : pc'[d] = pc[d]
      /\ \A d \in Calls : told[d].code = "halted" => told'[d] = told[d]
      /\ \/ users' = users
         \/ DOMAIN users' = DOMAIN users \ {uid[c]} /\ told'[c].code = "halted"
  <2>1. CASE Ends({c}, "error") /\ users' = users
    BY <1>1, <2>1, EndsEffect
  <2>2. CASE Ends({c}, "halted") /\ users' = [id \in DOMAIN users \ {uid[c]} |-> users[id]]
    BY <1>1, <2>2, EndsEffect
  <2>3. QED
    BY <2>1, <2>2 DEF Withdraw
<1>3. OnStream' = OnStream /\ Waiting' = Waiting /\ InFlight' = InFlight
  BY <1>1 DEF OnStream, Waiting, InFlight
<1>4. c \notin Waiting \union InFlight
  BY <1>1 DEF SentInv
<1>5. TypeInv'
  BY <1>1, <1>2 DEF TypeInv
<1>6. RowInv'
  BY <1>1, <1>2, <1>3 DEF RowInv, HasRow
<1>7. SentInv'
  BY <1>1, <1>2, <1>3, <1>4, QueueIsPrefix, FlightIsCalls DEF SentInv, HasRow
<1>8. AccountsHaveTheirUsers'
  <2>1. uid[c] \in ToSet(stream) => uid[c] \in lost
    BY <1>1, <1>4 DEF SentInv, HasRow, OnStream
  <2>2. DOMAIN users \ {uid[c]} \subseteq DOMAIN users' /\ DOMAIN users' \subseteq DOMAIN users
    BY <1>2
  <2>3. ToSet(stream) \ lost \subseteq DOMAIN users'
    BY <2>1, <2>2 DEF AccountsHaveTheirUsers
  <2>4. owed => lost \ DOMAIN users' # {}
    BY <2>2 DEF AccountsHaveTheirUsers
  <2>5. ASSUME NEW k \in Cookies, SignedIn(k), session[k] \notin DOMAIN users'
        PROVE  \E d \in Calls : uid[d] = session[k] /\ told'[d].code = "halted"
    <3>1. CASE session[k] \notin DOMAIN users
      BY <1>2, <2>5, <3>1 DEF AccountsHaveTheirUsers
    <3>2. CASE session[k] \in DOMAIN users
      BY <1>2, <2>5, <3>2
    <3>3. QED
      BY <3>1, <3>2
  <2>6. QED
    BY <1>1, <2>3, <2>4, <2>5 DEF AccountsHaveTheirUsers, SignedIn
<1>9. QED
  BY <1>2, <1>5, <1>6, <1>7, <1>8

-----------------------------------------------------------------------------
\* What every step of the producer keeps, given what it does to the stream.
LEMMA InvProducer ==
    ASSUME IInv, UNCHANGED <<users, nextId, uid, owed, session>>,
           DOMAIN pc' = Calls, DOMAIN told' = Calls, AnswerInv',
           \A c \in Calls : told[c].code = "halted" => told'[c] = told[c],
           \A c \in Calls : pc'[c] = pc[c] \/ (HasRow(c) /\ pc'[c] = "withdrawing")
                                           \/ pc'[c] = "done",
           queue' \in Seq(Calls), batch' \in Seq([call : Calls, seq : Nat]), stream' \in Seq(Nat),
           lost \subseteq lost', lost' \subseteq lost \union {uid[c] : c \in Calls},
           OnStream' \subseteq OnStream \union {uid[c] : c \in Calls},
           OnStream' \ lost' \subseteq DOMAIN users,
           SentInv'
    PROVE  IInv'
<1> USE DEF IInv
<1>1. TypeInv'
  BY DEF TypeInv
<1>2. RowInv'
  <2>1. lost' \subseteq Nat
    BY DEF RowInv, TypeInv
  <2>2. \A id \in DOMAIN users' \union OnStream' \union lost' : id < nextId'
    <3>1. nextId' = nextId /\ users' = users
      OBVIOUS
    <3>2. /\ \A id \in DOMAIN users \union OnStream \union lost : id < nextId
          /\ \A id \in {uid[c] : c \in Calls} : id < nextId
      BY DEF RowInv
    <3>3. DOMAIN users' \union OnStream' \union lost'
             \subseteq (DOMAIN users \union OnStream \union lost) \union {uid[c] : c \in Calls}
      BY <3>1
    <3>4. QED
      BY <3>1, <3>2, <3>3
  <2>3. \A c \in Calls : HasRow(c)' => HasRow(c)
    BY DEF HasRow
  <2>4. \A c \in Calls : pc'[c] \in {"saved", "waiting"} => pc[c] \in {"saved", "waiting"}
    OBVIOUS
  <2>5. QED
    BY <2>1, <2>2, <2>3, <2>4 DEF RowInv
<1>3. AccountsHaveTheirUsers'
  BY DEF AccountsHaveTheirUsers, SignedIn, OnStream
<1>4. QED
  BY <1>1, <1>2, <1>3

LEMMA InvFlush ==
    ASSUME IInv, Flush
    PROVE  IInv'
<1> USE DEF IInv
<1>1. /\ batch = <<>> /\ queue' = <<>> /\ stream' = stream \o UidsOf(queue)
      /\ batch' = [i \in DOMAIN queue |-> [call |-> queue[i], seq |-> Len(stream) + i]]
      /\ UNCHANGED <<users, nextId, pc, uid, told, lost, owed, session>>
  BY DEF Flush, postgres, calls
<1>2. /\ UidsOf(queue) \in Seq(Nat) /\ ToSet(UidsOf(queue)) = {uid[c] : c \in Waiting}
      /\ Waiting = {queue[i] : i \in 1 .. Len(queue)} /\ Waiting \subseteq Calls
  BY QueueIsPrefix
<1>3. stream' \in Seq(Nat) /\ OnStream' = OnStream \union {uid[c] : c \in Waiting}
  BY <1>1, <1>2, ToSetOfConcat, ConcatProperties DEF TypeInv, OnStream
<1>4. batch' \in Seq([call : Calls, seq : Nat]) /\ InFlight' = Waiting
  <2>1. DOMAIN queue = 1 .. Len(queue) /\ Len(queue) \in Nat /\ Len(stream) \in Nat
    BY DEF TypeInv
  <2>2. batch' = [i \in 1 .. Len(queue) |-> [call |-> queue[i], seq |-> Len(stream) + i]]
    BY <1>1, <2>1
  <2>3. \A i \in 1 .. Len(queue) : [call |-> queue[i], seq |-> Len(stream) + i] \in [call : Calls, seq : Nat]
    BY <1>2, <2>1
  <2>4. batch' \in [1 .. Len(queue) -> [call : Calls, seq : Nat]]
    BY <2>2, <2>3
  <2>5. ToSet(batch') = {[call |-> queue[i], seq |-> Len(stream) + i] : i \in 1 .. Len(queue)}
    BY <2>2 DEF ToSet
  <2>6. InFlight' = {queue[i] : i \in 1 .. Len(queue)}
    <3>1. InFlight' = {b.call : b \in ToSet(batch')}
      BY DEF InFlight
    <3>2. ASSUME NEW i \in 1 .. Len(queue)
          PROVE  queue[i] \in InFlight'
      <4>1. PICK b \in ToSet(batch') : b = [call |-> queue[i], seq |-> Len(stream) + i]
        BY <2>5
      <4>2. b.call = queue[i]
        BY <4>1
      <4>3. QED
        BY <3>1, <4>2
    <3>3. ASSUME NEW c \in InFlight'
          PROVE  \E i \in 1 .. Len(queue) : c = queue[i]
      <4>1. PICK b \in ToSet(batch') : c = b.call
        BY <3>1
      <4>2. PICK i \in 1 .. Len(queue) : b = [call |-> queue[i], seq |-> Len(stream) + i]
        BY <2>5
      <4>3. QED
        BY <4>1, <4>2
    <3>4. QED
      BY <3>2, <3>3
  <2>7. batch' \in Seq([call : Calls, seq : Nat])
    <3> DEFINE Entries == [call : Calls, seq : Nat]
    <3>1. batch' \in [1 .. Len(queue) -> Entries]
      BY <2>4
    <3> HIDE DEF Entries
    <3>2. batch' \in Seq(Entries)
      BY <2>1, <3>1
    <3>3. QED
      BY <3>2 DEF Entries
  <2>8. QED
    BY <1>2, <2>6, <2>7
<1>5. Waiting' = {} /\ InFlight = {} /\ queue' \in Seq(Calls)
  BY <1>1, FlightIsCalls DEF Waiting, ToSet
<1>6. \A c \in Waiting : pc[c] = "waiting" /\ uid[c] \in DOMAIN users
  BY <1>2 DEF SentInv, RowInv
<1>7. SentInv'
  <2> SUFFICES ASSUME NEW c \in Calls, HasRow(c), c \notin Waiting, uid[c] \in OnStream'
               PROVE  uid[c] \in lost
    BY <1>1, <1>4, <1>5, <1>6 DEF SentInv, HasRow
  <2>1. \A d \in Waiting : uid[d] # uid[c]
    BY <1>2, <1>6 DEF RowInv, HasRow
  <2>2. QED
    BY <1>3, <1>5, <2>1 DEF SentInv
<1>8. OnStream' \ lost \subseteq DOMAIN users
  BY <1>3, <1>6 DEF AccountsHaveTheirUsers, OnStream
<1>9. AnswerInv' /\ DOMAIN pc' = Calls /\ DOMAIN told' = Calls
  BY <1>1 DEF AnswerInv, TypeInv
<1>10. QED
  BY <1>1, <1>2, <1>3, <1>4, <1>5, <1>7, <1>8, <1>9, InvProducer

LEMMA InvFlushed ==
    ASSUME IInv, Flushed
    PROVE  IInv'
<1> USE DEF IInv
<1> DEFINE Seqs == [c \in Calls |-> (CHOOSE b \in ToSet(batch) : b.call = c).seq]
<1>1. /\ told' = [c \in Calls |-> IF c \in InFlight THEN [code |-> "created", seq |-> Seqs[c]]
                                 ELSE told[c]]
      /\ pc' = [c \in Calls |-> IF c \in InFlight THEN "done" ELSE pc[c]]
      /\ batch' = <<>>
      /\ UNCHANGED <<users, nextId, uid, queue, stream, lost, owed, session>>
  BY DEF Flushed, Goes, postgres
<1> HIDE DEF Seqs
<1>2. \A c \in InFlight : pc[c] = "waiting"
  BY DEF SentInv
<1>3. \A c \in Calls : told[c].code = "halted" => c \notin InFlight
  BY <1>2 DEF AnswerInv
<1>4. AnswerInv'
  BY <1>1, <1>3 DEF AnswerInv
<1>5. OnStream' = OnStream /\ Waiting' = Waiting /\ InFlight' = {} /\ Waiting \subseteq Calls
  BY <1>1, QueueIsPrefix DEF OnStream, Waiting, InFlight, ToSet
<1>6. SentInv'
  BY <1>1, <1>5 DEF SentInv, HasRow
<1>7. OnStream' \ lost \subseteq DOMAIN users
  BY <1>5 DEF AccountsHaveTheirUsers, OnStream
<1>8. /\ queue' \in Seq(Calls) /\ stream' \in Seq(Nat) /\ batch' \in Seq([call : Calls, seq : Nat])
      /\ DOMAIN pc' = Calls /\ DOMAIN told' = Calls
  BY <1>1 DEF TypeInv
<1>9. /\ \A c \in Calls : told[c].code = "halted" => told'[c] = told[c]
      /\ \A c \in Calls : pc'[c] = pc[c] \/ pc'[c] = "done"
  BY <1>1, <1>3
<1>10. QED
  BY <1>1, <1>4, <1>5, <1>6, <1>7, <1>8, <1>9, InvProducer

LEMMA InvFlushBreaks ==
    ASSUME IInv, NEW n \in 0 .. Len(queue), FlushBreaks(n)
    PROVE  IInv'
<1> USE DEF IInv
<1> DEFINE sent == {uid[queue[i]] : i \in 1 .. n}
<1>1. /\ batch = <<>> /\ batch' = <<>> /\ queue' = <<>> /\ Goes(Waiting, "withdrawing")
      /\ stream' = stream \o UidsOf(SubSeq(queue, 1, n)) /\ lost' = lost \union sent
      /\ UNCHANGED <<users, nextId, uid, told, owed, session>>
  BY DEF FlushBreaks, postgres
<1>2. Waiting = {queue[i] : i \in 1 .. Len(queue)} /\ Waiting \subseteq Calls
  BY QueueIsPrefix
<1>3. sent \subseteq {uid[c] : c \in Waiting}
  BY <1>2 DEF TypeInv
<1>4. UidsOf(SubSeq(queue, 1, n)) \in Seq(Nat) /\ ToSet(UidsOf(SubSeq(queue, 1, n))) = sent
  BY UidsOfPrefix
<1> HIDE DEF sent
<1>5. stream' \in Seq(Nat) /\ OnStream' = OnStream \union sent
  BY <1>1, <1>4, ToSetOfConcat, ConcatProperties DEF TypeInv, OnStream
<1>6. \A c \in Waiting : pc[c] = "waiting"
  BY DEF SentInv
<1>7. /\ DOMAIN pc' = Calls /\ DOMAIN told' = Calls /\ AnswerInv'
      /\ \A c \in Calls : pc'[c] = IF c \in Waiting THEN "withdrawing" ELSE pc[c]
  BY <1>1, <1>6, GoesEffect
<1>8. Waiting' = {} /\ InFlight' = {} /\ InFlight = {} /\ queue' \in Seq(Calls)
  BY <1>1, FlightIsCalls DEF Waiting, InFlight, ToSet
<1>9. SentInv'
  <2>1. \A c \in Calls : HasRow(c)' => HasRow(c)
    BY <1>6, <1>7 DEF HasRow
  <2>2. \A c \in Calls : HasRow(c) /\ uid[c] \in OnStream => uid[c] \in lost
    BY <1>8 DEF SentInv
  <2>3. QED
    BY <1>1, <1>5, <1>8, <2>1, <2>2 DEF SentInv
<1>10. OnStream' \ lost' \subseteq DOMAIN users
  BY <1>1, <1>5 DEF AccountsHaveTheirUsers, OnStream
<1>11. \A c \in Calls : pc'[c] = pc[c] \/ (HasRow(c) /\ pc'[c] = "withdrawing")
  BY <1>6, <1>7 DEF HasRow
<1>12. batch' \in Seq([call : Calls, seq : Nat])
  BY <1>1
<1>13. /\ lost \subseteq lost' /\ lost' \subseteq lost \union {uid[c] : c \in Calls}
       /\ OnStream' \subseteq OnStream \union {uid[c] : c \in Calls}
  BY <1>1, <1>2, <1>3, <1>5
<1>14. QED
  BY <1>1, <1>5, <1>7, <1>8, <1>9, <1>10, <1>11, <1>12, <1>13, InvProducer

LEMMA InvReplyLost ==
    ASSUME IInv, ReplyLost
    PROVE  IInv'
<1> USE DEF IInv
<1>1. /\ batch' = <<>> /\ Goes(InFlight, "withdrawing")
      /\ lost' = lost \union {uid[c] : c \in InFlight}
      /\ UNCHANGED <<users, nextId, uid, told, queue, stream, owed, session>>
  BY DEF ReplyLost, postgres
<1>2. InFlight \subseteq Calls /\ Waiting \subseteq Calls
  BY FlightIsCalls, QueueIsPrefix
<1>3. /\ \A c \in Waiting \union InFlight : pc[c] = "waiting"
      /\ Waiting \intersect InFlight = {}
  BY DEF SentInv
<1>4. /\ DOMAIN pc' = Calls /\ DOMAIN told' = Calls /\ AnswerInv'
      /\ \A c \in Calls : pc'[c] = IF c \in InFlight THEN "withdrawing" ELSE pc[c]
  BY <1>1, <1>3, GoesEffect
<1>5. OnStream' = OnStream /\ Waiting' = Waiting /\ InFlight' = {}
  BY <1>1 DEF OnStream, Waiting, InFlight, ToSet
<1>6. SentInv'
  <2>1. \A c \in Calls : HasRow(c)' => HasRow(c)
    BY <1>3, <1>4 DEF HasRow
  <2>2. \A c \in Calls : HasRow(c) /\ uid[c] \in OnStream => uid[c] \in lost'
    BY <1>1 DEF SentInv
  <2>3. QED
    BY <1>1, <1>2, <1>3, <1>4, <1>5, <2>1, <2>2 DEF SentInv
<1>7. OnStream' \ lost' \subseteq DOMAIN users
  BY <1>1, <1>5 DEF AccountsHaveTheirUsers, OnStream
<1>8. \A c \in Calls : pc'[c] = pc[c] \/ (HasRow(c) /\ pc'[c] = "withdrawing")
  BY <1>3, <1>4 DEF HasRow
<1>9. queue' \in Seq(Calls) /\ stream' \in Seq(Nat) /\ batch' \in Seq([call : Calls, seq : Nat])
  BY <1>1 DEF TypeInv
<1>10. lost \subseteq lost' /\ lost' \subseteq lost \union {uid[c] : c \in Calls}
  BY <1>1, <1>2
<1>11. QED
  BY <1>1, <1>4, <1>5, <1>6, <1>7, <1>8, <1>9, <1>10, InvProducer

\* Calls end and the queue is emptied: an error of Redis, or the death of the
\* process with everything in flight.
LEMMA InvEndsAll ==
    ASSUME IInv, NEW cs, NEW code \in {"error", "none"}, Ends(cs, code),
           \A c \in cs : pc[c] # "done",
           queue' = <<>>, Waiting \subseteq cs, batch' = <<>>, InFlight \subseteq cs,
           UNCHANGED <<users, nextId, uid, stream, lost, owed, session>>
    PROVE  IInv'
<1> USE DEF IInv
<1>1. /\ DOMAIN pc' = Calls /\ DOMAIN told' = Calls /\ AnswerInv'
      /\ \A c \in Calls : pc'[c] = IF c \in cs THEN "done" ELSE pc[c]
      /\ \A c \in Calls : told[c].code = "halted" => told'[c] = told[c]
  BY EndsEffect
<1>2. OnStream' = OnStream /\ Waiting' = {} /\ InFlight' = {}
  BY DEF OnStream, Waiting, InFlight, ToSet
<1>3. SentInv'
  BY <1>1, <1>2 DEF SentInv, HasRow
<1>4. OnStream' \ lost \subseteq DOMAIN users
  BY <1>2 DEF AccountsHaveTheirUsers, OnStream
<1>5. queue' \in Seq(Calls) /\ stream' \in Seq(Nat) /\ batch' \in Seq([call : Calls, seq : Nat])
  BY DEF TypeInv
<1>6. \A c \in Calls : pc'[c] = pc[c] \/ pc'[c] = "done"
  BY <1>1
<1>7. QED
  BY <1>1, <1>2, <1>3, <1>4, <1>5, <1>6, InvProducer

LEMMA InvFlushRefused ==
    ASSUME IInv, FlushRefused
    PROVE  IInv'
<1>1. \A c \in Waiting : pc[c] # "done"
  BY DEF IInv, SentInv
<1>2. /\ Ends(Waiting, "error") /\ queue' = <<>> /\ batch = <<>> /\ batch' = <<>>
      /\ UNCHANGED <<users, nextId, uid, stream, lost, owed, session>>
  BY DEF FlushRefused, postgres
<1>3. InFlight \subseteq Waiting
  BY <1>2, FlightIsCalls DEF IInv
<1>4. QED
  BY <1>1, <1>2, <1>3, InvEndsAll

LEMMA InvRestart ==
    ASSUME IInv, Restart
    PROVE  IInv'
<1> DEFINE cs == {c \in Calls : pc[c] \notin {"new", "done"}}
<1>1. /\ Ends(cs, "none") /\ queue' = <<>> /\ batch' = <<>>
      /\ UNCHANGED <<users, nextId, uid, stream, lost, owed, session>>
  BY DEF Restart, postgres
<1>2. Waiting \subseteq cs /\ InFlight \subseteq cs /\ \A c \in cs : pc[c] # "done"
  BY FlightIsCalls, QueueIsPrefix DEF IInv, SentInv
<1> HIDE DEF cs
<1>3. QED
  BY <1>1, <1>2, InvEndsAll

-----------------------------------------------------------------------------
LEMMA TouchedIsOnStream ==
    ASSUME IInv, NEW from \in Nat, NEW to \in Nat, to <= Len(stream)
    PROVE  ToSet(SubSeq(stream, from + 1, to)) \subseteq OnStream
<1>1. stream \in Seq(Nat) /\ from + 1 \in 1 .. from + 1
  BY DEF IInv, TypeInv
<1>2. /\ DOMAIN SubSeq(stream, from + 1, to) = 1 .. Len(SubSeq(stream, from + 1, to))
      /\ \A i \in 1 .. Len(SubSeq(stream, from + 1, to)) :
            /\ SubSeq(stream, from + 1, to)[i] = stream[from + i]
            /\ from + i \in DOMAIN stream
  BY <1>1
<1>3. QED
  BY <1>2 DEF ToSet, OnStream

\* The ledger writes no users, and is refused only over a user that was withdrawn.
LEMMA InvLedger ==
    ASSUME IInv, NEW from \in Nat, NEW to \in Nat, to <= Len(stream), Project(from, to),
           UNCHANGED <<users, nextId, pc, uid, told, queue, batch, stream, lost, session>>
    PROVE  IInv'
<1> USE DEF IInv
<1> DEFINE touched == ToSet(SubSeq(stream, from + 1, to))
<1>1. touched \subseteq OnStream
  BY TouchedIsOnStream
<1>2. touched \subseteq DOMAIN users \/ ~(touched \subseteq DOMAIN users)
  OBVIOUS
<1>3. owed' => ~(touched \subseteq DOMAIN users)
  BY DEF Project
<1> HIDE DEF touched
<1>4. owed' => lost \ DOMAIN users # {}
  BY <1>1, <1>3 DEF AccountsHaveTheirUsers, OnStream
<1>5. OnStream' = OnStream /\ Waiting' = Waiting /\ InFlight' = InFlight
  BY DEF OnStream, Waiting, InFlight
<1>6. TypeInv' /\ RowInv' /\ SentInv' /\ AnswerInv'
  BY <1>5 DEF TypeInv, RowInv, SentInv, HasRow, AnswerInv
<1>7. AccountsHaveTheirUsers'
  BY <1>4 DEF AccountsHaveTheirUsers, SignedIn
<1>8. QED
  BY <1>6, <1>7

\* A cookie names a user at the moment it is given, and no other after that.
LEMMA InvSession ==
    ASSUME IInv, NEW k \in Cookies, NEW v,
           v \in DOMAIN users \/ v = Ended, session' = [session EXCEPT ![k] = v],
           UNCHANGED <<users, nextId, pc, uid, told, queue, batch, stream, lost, owed>>
    PROVE  IInv'
<1> USE DEF IInv
<1>1. v \in Int
  BY DEF RowInv, Ended
<1>2. /\ session' \in [Cookies -> Int] /\ session'[k] = v
      /\ \A j \in Cookies \ {k} : session'[j] = session[j]
  BY <1>1 DEF TypeInv
<1>3. OnStream' = OnStream /\ Waiting' = Waiting /\ InFlight' = InFlight
  BY DEF OnStream, Waiting, InFlight
<1>4. TypeInv' /\ RowInv' /\ SentInv' /\ AnswerInv'
  BY <1>2, <1>3 DEF TypeInv, RowInv, SentInv, HasRow, AnswerInv
<1>5. AccountsHaveTheirUsers'
  <2>1. ASSUME NEW j \in Cookies, session'[j] > 0, session'[j] \notin DOMAIN users
        PROVE  \E c \in Calls : uid[c] = session'[j] /\ told[c].code = "halted"
    <3>1. j # k
      BY <1>2, <2>1 DEF Ended
    <3>2. QED
      BY <1>2, <2>1, <3>1 DEF AccountsHaveTheirUsers, SignedIn
  <2>2. QED
    BY <2>1 DEF AccountsHaveTheirUsers, SignedIn
<1>6. QED
  BY <1>4, <1>5

LEMMA InvStutter ==
    ASSUME IInv, UNCHANGED <<users, nextId, pc, uid, told, queue, batch, stream, lost, owed, session>>
    PROVE  IInv'
<1>1. OnStream' = OnStream /\ Waiting' = Waiting /\ InFlight' = InFlight
  BY DEF OnStream, Waiting, InFlight
<1>2. QED
  BY <1>1 DEF IInv, TypeInv, RowInv, SentInv, HasRow, AnswerInv, AccountsHaveTheirUsers, SignedIn

LEMMA InvPosition ==
    ASSUME IInv, PositionInv, [Next]_vars
    PROVE  PositionInv'
<1>1. Len(stream) \in Nat
  BY DEF IInv, TypeInv
<1>2. ASSUME NEW from, NEW to, Project(from, to)
      PROVE  applied' = to
  BY <1>2 DEF Project
<1>3. CASE ReadAndFlush
  BY <1>1, <1>2, <1>3 DEF ReadAndFlush, PositionInv
<1>4. CASE RestartLedger
  BY <1>1, <1>2, <1>4 DEF RestartLedger, PositionInv
<1>5. CASE applied' = applied
  BY <1>5 DEF PositionInv
<1>6. QED
  BY <1>3, <1>4, <1>5
  DEF Next, vars, Lookup, Insert, Enqueue, Withdraw, Flush, Flushed, ReplyLost, FlushRefused,
      FlushBreaks, WatchHalt, Restart, Login, EndSession

-----------------------------------------------------------------------------
(* The inductive invariant: ids are drawn once, only a call waiting for the *)
(* producer is in its queue or its batch, and an id on the stream whose     *)
(* call is not in flight belongs to a call that ended or to a lost reply.   *)
THEOREM AccountsInv == Spec => [](IInv /\ PositionInv)
<1>1. Init => IInv /\ PositionInv
  BY InvInit DEF Init, PositionInv
<1>2. IInv /\ PositionInv /\ [Next]_vars => (IInv /\ PositionInv)'
  <2> SUFFICES ASSUME IInv, PositionInv, [Next]_vars PROVE IInv'
    BY InvPosition
  <2>1. CASE \E c \in Calls : Lookup(c) \/ Insert(c) \/ Enqueue(c) \/ Withdraw(c)
    BY <2>1, InvLookup, InvInsert, InvEnqueue, InvWithdraw
  <2>2. CASE Flush \/ Flushed \/ ReplyLost \/ FlushRefused \/ Restart
    BY <2>2, InvFlush, InvFlushed, InvReplyLost, InvFlushRefused, InvRestart
  <2>3. CASE \E n \in 0 .. Len(queue) : FlushBreaks(n)
    BY <2>3, InvFlushBreaks
  <2>4. CASE WatchHalt
    BY <2>4, InvStutter DEF WatchHalt, postgres, calls
  <2>5. CASE ReadAndFlush
    <3>1. PICK to \in applied + 1 .. Len(stream) : Project(IF owed THEN 0 ELSE applied, to)
      BY <2>5 DEF ReadAndFlush
    <3>2. UNCHANGED <<users, nextId, pc, uid, told, queue, batch, stream, lost, session>>
      BY <2>5 DEF ReadAndFlush, calls, producer
    <3>3. /\ to \in Nat /\ to <= Len(stream)
          /\ (IF owed THEN 0 ELSE applied) \in Nat
      BY <3>1 DEF PositionInv, IInv, TypeInv
    <3>4. QED
      BY <3>1, <3>2, <3>3, InvLedger
  <2>6. CASE RestartLedger
    BY <2>6, InvLedger DEF RestartLedger, calls, producer, IInv, TypeInv
  <2>7. CASE \E k \in Cookies : Login(k) \/ EndSession(k)
    <3>1. PICK k \in Cookies : Login(k) \/ EndSession(k)
      BY <2>7
    <3>2. /\ \E v : (v \in DOMAIN users \/ v = Ended) /\ session' = [session EXCEPT ![k] = v]
          /\ UNCHANGED <<users, nextId, pc, uid, told, queue, batch, stream, lost, owed>>
      BY <3>1 DEF Login, EndSession, postgres, calls, producer
    <3>3. QED
      BY <3>2, InvSession
  <2>8. CASE UNCHANGED vars
    BY <2>8, InvStutter DEF vars, postgres, calls, producer
  <2>9. QED
    BY <2>1, <2>2, <2>3, <2>4, <2>5, <2>6, <2>7, <2>8 DEF Next
<1>3. QED
  BY <1>1, <1>2, PTL DEF Spec

\* Every account on the stream has its user, a write of the ledger is owed only
\* over a user withdrawn because a reply was lost, and a session names a user or
\* one withdrawn after it was opened (routes_auth.py:113-135, consumer.py:254-262).
THEOREM AccountsKeepTheirUsers == Spec => []AccountsHaveTheirUsers
<1>1. IInv => AccountsHaveTheirUsers
  BY DEF IInv
<1>2. QED
  BY <1>1, AccountsInv, PTL

-----------------------------------------------------------------------------
(***************************************************************************)
(* What a call was told is what it left behind.                            *)
(***************************************************************************)
\* An id is drawn once, by one call, and its row has the name the call asked for.
OwnInv ==
    /\ 0 \notin DOMAIN users \union OnStream
    /\ \A c \in Calls : /\ pc[c] \in {"new", "saving"} => uid[c] = 0
                        /\ HasRow(c) => uid[c] # 0
                        /\ uid[c] \in DOMAIN users => users[uid[c]] = NameOf[c]
    /\ \A c, d \in Calls : c # d /\ uid[c] # 0 => uid[c] # uid[d]

MakerInv ==
    /\ \A id \in makers : id \in Nat \ {0} /\ id < nextId
    /\ \A c \in Calls : /\ uid[c] \in makers => NameOf[c] \in Designated
                        /\ pc[c] \in {"waiting", "withdrawing", "done"}
                              /\ uid[c] \in DOMAIN users /\ NameOf[c] \in Designated
                           => uid[c] \in makers

\* The stream names nobody twice, and nobody before the producer has sent the id.
OnceInv ==
    /\ \A i, j \in DOMAIN stream : stream[i] = stream[j] => i = j
    /\ \A i, j \in DOMAIN queue : queue[i] = queue[j] => i = j
    /\ \A c \in Calls : pc[c] = "saved" \/ c \in Waiting => uid[c] \notin OnStream
    /\ lost \union accounts \subseteq OnStream
    /\ \A b \in ToSet(batch) : b.seq \in DOMAIN stream /\ stream[b.seq] = uid[b.call]

\* What a call was told.
Said(c) ==
    /\ told[c].code \in {"none", "created", "conflict", "halted", "error"}
    /\ told[c].code = "created" => /\ uid[c] \in DOMAIN users /\ told[c].seq \in DOMAIN stream
                                   /\ stream[told[c].seq] = uid[c]
    /\ told[c].code = "conflict" => uid[c] = 0
    /\ told[c].code = "halted" => /\ uid[c] \notin DOMAIN users
                                  /\ uid[c] \in OnStream => uid[c] \in lost
    /\ told[c].code = "error" /\ uid[c] \in DOMAIN users =>
          (uid[c] \in OnStream <=> uid[c] \in lost)

ToldInv == \A c \in Calls : pc[c] = "done" => Said(c)

RegInv == OwnInv /\ MakerInv /\ OnceInv /\ ToldInv

LEMMA RegInit == Init => RegInv
<1> SUFFICES ASSUME Init PROVE RegInv
  OBVIOUS
<1> USE DEF Init
<1>1. DOMAIN users = {} /\ OnStream = {} /\ Waiting = {} /\ ToSet(batch) = {}
  BY DEF OnStream, Waiting, ToSet
<1>2. OwnInv /\ MakerInv /\ ToldInv
  BY <1>1 DEF OwnInv, HasRow, MakerInv, ToldInv
<1>3. OnceInv
  BY <1>1 DEF OnceInv
<1>4. QED
  BY <1>2, <1>3 DEF RegInv

\* What a call was told stays true, if what it is about stays.
LEMMA SaidStays ==
    ASSUME NEW c \in Calls, Said(c), told'[c] = told[c], uid'[c] = uid[c],
           uid[c] \in DOMAIN users' <=> uid[c] \in DOMAIN users,
           \A i \in DOMAIN stream : i \in DOMAIN stream' /\ stream'[i] = stream[i],
           uid[c] \in OnStream' <=> uid[c] \in OnStream, uid[c] \in lost' <=> uid[c] \in lost
    PROVE  Said(c)'
  BY DEF Said

\* Likewise for what a step of a call leaves on the stream and with the producer.
LEMMA OnceStays ==
    ASSUME OnceInv, UNCHANGED <<stream, queue, batch, lost>>, accounts' \subseteq OnStream,
           \A c \in Calls : pc'[c] = "saved" => uid'[c] \notin OnStream,
           \A c \in Waiting : uid'[c] = uid[c], \A b \in ToSet(batch) : uid'[b.call] = uid[b.call]
    PROVE  OnceInv'
<1>1. OnStream' = OnStream /\ Waiting' = Waiting
  BY DEF OnStream, Waiting
<1>2. QED
  BY <1>1 DEF OnceInv

LEMMA BatchCalls ==
    ASSUME IInv, NEW b \in ToSet(batch)
    PROVE  b.call \in InFlight /\ b.call \in Calls /\ pc[b.call] = "waiting"
<1>1. b.call \in InFlight
  BY DEF InFlight
<1>2. QED
  BY <1>1, FlightIsCalls DEF IInv, SentInv

\* A call that is answered: the others keep their answers.
LEMMA RegAnswer ==
    ASSUME IInv, RegInv, NEW c \in Calls, pc[c] # "done", pc[c] # "waiting", OnceInv', MakerInv',
           \A d \in Calls \ {c} : pc'[d] = pc[d] /\ told'[d] = told[d] /\ uid'[d] = uid[d],
           UNCHANGED <<stream, lost>>,
           \A d \in Calls \ {c} : uid[d] \in DOMAIN users' <=> uid[d] \in DOMAIN users,
           pc'[c] = "done" => Said(c)', OwnInv'
    PROVE  RegInv'
<1>1. OnStream' = OnStream
  BY DEF OnStream
<1>2. ASSUME NEW d \in Calls, pc'[d] = "done"
      PROVE  Said(d)'
  <2>1. CASE d = c
    BY <1>2, <2>1
  <2>2. CASE d # c
    <3>1. pc[d] = "done" /\ Said(d)
      BY <1>2, <2>2 DEF RegInv, ToldInv
    <3>2. QED
      BY <1>1, <2>2, <3>1, SaidStays
  <2>3. QED
    BY <2>1, <2>2
<1>3. QED
  BY <1>2 DEF RegInv, ToldInv

LEMMA RegLookup ==
    ASSUME IInv, RegInv, NEW c \in Calls, Lookup(c)
    PROVE  RegInv'
<1>1. /\ pc[c] = "new"
      /\ UNCHANGED <<users, accounts, nextId, uid, queue, batch, stream, lost, makers>>
  BY DEF Lookup, postgres, producer
<1>2. /\ pc'[c] \in {"saving", "done"} /\ (pc'[c] = "done" => told'[c].code = "conflict")
      /\ \A d \in Calls \ {c} : pc'[d] = pc[d] /\ told'[d] = told[d]
  <2>1. CASE Ends({c}, "conflict")
    BY <2>1 DEF Ends, Goes
  <2>2. CASE Goes({c}, "saving") /\ told' = told
    BY <2>2 DEF Goes
  <2>3. QED
    BY <2>1, <2>2 DEF Lookup
<1>3. OnceInv'
  BY <1>1, <1>2, OnceStays DEF RegInv, OnceInv
<1>4. uid[c] = 0 /\ 0 \notin DOMAIN users /\ OnStream' = OnStream
  BY <1>1 DEF RegInv, OwnInv, OnStream
<1>5. OwnInv'
  BY <1>1, <1>2, <1>4 DEF RegInv, OwnInv, HasRow
<1>6. MakerInv'
  BY <1>1, <1>2, <1>4 DEF RegInv, MakerInv
<1>7. pc'[c] = "done" => Said(c)'
  BY <1>1, <1>2, <1>4 DEF Said
<1>8. QED
  BY <1>1, <1>2, <1>3, <1>5, <1>6, <1>7, RegAnswer

LEMMA RegInsert ==
    ASSUME IInv, RegInv, NEW c \in Calls, Insert(c)
    PROVE  RegInv'
<1>1. /\ pc[c] = "saving" /\ nextId' = nextId + 1 /\ nextId \in Nat \ {0}
      /\ UNCHANGED <<accounts, queue, batch, stream, lost, makers>>
      /\ uid[c] = 0 /\ 0 \notin DOMAIN users /\ OnStream' = OnStream /\ uid \in [Calls -> Nat]
  BY DEF Insert, producer, IInv, TypeInv, RegInv, OwnInv, OnStream
<1>2. /\ \A d \in Calls \ {c} : pc'[d] = pc[d] /\ told'[d] = told[d]
      /\ \/ pc'[c] = "done" /\ told'[c].code = "error" /\ UNCHANGED <<users, uid>>
         \/ /\ pc'[c] = "saved" /\ uid' = [uid EXCEPT ![c] = nextId]
            /\ users' = [id \in DOMAIN users \union {nextId} |->
                           IF id = nextId THEN NameOf[c] ELSE users[id]]
  <2>1. CASE Ends({c}, "error") /\ UNCHANGED <<users, uid>>
    BY <2>1 DEF Ends, Goes
  <2>2. CASE /\ Goes({c}, "saved") /\ told' = told /\ uid' = [uid EXCEPT ![c] = nextId]
             /\ users' = [id \in DOMAIN users \union {nextId} |->
                            IF id = nextId THEN NameOf[c] ELSE users[id]]
    BY <2>2 DEF Goes
  <2>3. QED
    BY <2>1, <2>2 DEF Insert
<1>3. /\ \A d \in Calls : uid[d] < nextId /\ uid[d] # nextId
      /\ \A id \in DOMAIN users \union OnStream : id # nextId
      /\ nextId \notin makers
  BY <1>1 DEF IInv, RowInv, RegInv, MakerInv
<1>4. \A d \in Calls \ {c} : uid'[d] = uid[d]
  BY <1>1, <1>2
<1>5. OnceInv'
  <2>1. \A d \in Waiting : d \in Calls /\ d # c
    BY <1>1, QueueIsPrefix DEF IInv, SentInv
  <2>2. \A b \in ToSet(batch) : b.call \in Calls /\ b.call # c
    BY <1>1, BatchCalls
  <2>3. \A d \in Calls : pc'[d] = "saved" => uid'[d] \notin OnStream
    BY <1>1, <1>2, <1>3, <1>4 DEF RegInv, OnceInv
  <2>4. QED
    BY <1>1, <1>4, <2>1, <2>2, <2>3, OnceStays DEF RegInv, OnceInv
<1>6. CASE pc'[c] = "done" /\ told'[c].code = "error" /\ UNCHANGED <<users, uid>>
  <2>1. OwnInv'
    BY <1>1, <1>2, <1>6 DEF RegInv, OwnInv, HasRow
  <2>2. MakerInv'
    BY <1>1, <1>2, <1>6 DEF RegInv, MakerInv
  <2>3. Said(c)'
    BY <1>1, <1>6 DEF Said
  <2>4. QED
    BY <1>1, <1>2, <1>5, <1>6, <2>1, <2>2, <2>3, RegAnswer
<1>7. CASE /\ pc'[c] = "saved" /\ uid' = [uid EXCEPT ![c] = nextId]
           /\ users' = [id \in DOMAIN users \union {nextId} |->
                          IF id = nextId THEN NameOf[c] ELSE users[id]]
  <2>1. /\ uid'[c] = nextId /\ DOMAIN users' = DOMAIN users \union {nextId}
        /\ users'[nextId] = NameOf[c] /\ \A id \in DOMAIN users : users'[id] = users[id]
    BY <1>1, <1>3, <1>7
  <2>2. OwnInv'
    <3>1. 0 \notin DOMAIN users' \union OnStream'
      BY <1>1, <2>1 DEF RegInv, OwnInv
    <3>2. \A d \in Calls : /\ pc'[d] \in {"new", "saving"} => uid'[d] = 0
                           /\ HasRow(d)' => uid'[d] # 0
                           /\ uid'[d] \in DOMAIN users' => users'[uid'[d]] = NameOf[d]
      <4>1. ASSUME NEW d \in Calls \ {c}
            PROVE  /\ pc'[d] \in {"new", "saving"} => uid'[d] = 0
                   /\ HasRow(d)' => uid'[d] # 0
                   /\ uid'[d] \in DOMAIN users' => users'[uid'[d]] = NameOf[d]
        BY <1>2, <1>3, <1>4, <2>1 DEF RegInv, OwnInv, HasRow
      <4>2. QED
        BY <1>1, <1>7, <2>1, <4>1 DEF HasRow
    <3>3. \A d, e \in Calls : d # e /\ uid'[d] # 0 => uid'[d] # uid'[e]
      BY <1>3, <1>4, <2>1 DEF RegInv, OwnInv
    <3>4. QED
      BY <3>1, <3>2, <3>3 DEF OwnInv
  <2>3. MakerInv'
    <3>1. \A id \in makers' : id \in Nat \ {0} /\ id < nextId'
      BY <1>1 DEF RegInv, MakerInv
    <3>2. ASSUME NEW d \in Calls \ {c}
          PROVE  /\ uid'[d] \in makers' => NameOf[d] \in Designated
                 /\ pc'[d] \in {"waiting", "withdrawing", "done"}
                       /\ uid'[d] \in DOMAIN users' /\ NameOf[d] \in Designated
                    => uid'[d] \in makers'
      BY <1>1, <1>2, <1>3, <1>4, <2>1 DEF RegInv, MakerInv
    <3>3. QED
      BY <1>1, <1>3, <1>7, <2>1, <3>1, <3>2 DEF MakerInv
  <2>4. \A d \in Calls \ {c} : uid[d] \in DOMAIN users' <=> uid[d] \in DOMAIN users
    BY <1>3, <2>1
  <2>5. QED
    BY <1>1, <1>2, <1>4, <1>5, <1>7, <2>2, <2>3, <2>4, RegAnswer
<1>8. QED
  BY <1>2, <1>6, <1>7

LEMMA RegEnqueue ==
    ASSUME IInv, RegInv, NEW c \in Calls, Enqueue(c)
    PROVE  RegInv'
<1>1. /\ pc[c] = "saved" /\ queue \in Seq(Calls)
      /\ UNCHANGED <<users, accounts, nextId, uid, told, batch, stream, lost>>
      /\ OnStream' = OnStream
      /\ makers' = makers \union (IF NameOf[c] \in Designated THEN {uid[c]} ELSE {})
  BY DEF Enqueue, postgres, OnStream, IInv, TypeInv
<1>2. /\ \A d \in Calls \ {c} : pc'[d] = pc[d]
      /\ \/ pc'[c] = "withdrawing" /\ queue' = queue
         \/ pc'[c] = "waiting" /\ queue' = queue \o <<c>>
  BY DEF Enqueue, Goes
<1>3. c \notin Waiting
  BY <1>1 DEF IInv, SentInv
<1>4. OwnInv'
  BY <1>1, <1>2 DEF RegInv, OwnInv, HasRow
<1>5. MakerInv'
  <2>1. \A id \in makers' : id \in Nat \ {0} /\ id < nextId'
    <3>1. uid[c] \in Nat \ {0} /\ uid[c] < nextId
      BY <1>1 DEF IInv, TypeInv, RowInv, RegInv, OwnInv, HasRow
    <3>2. QED
      BY <1>1, <3>1 DEF RegInv, MakerInv
  <2>2. \A d \in Calls \ {c} : uid[d] # uid[c]
    BY <1>1 DEF RegInv, OwnInv, HasRow
  <2>3. \A d \in Calls : uid[d] \in makers' => NameOf[d] \in Designated
    BY <1>1, <2>2 DEF RegInv, MakerInv
  <2>4. ASSUME NEW d \in Calls, pc'[d] \in {"waiting", "withdrawing", "done"},
               uid[d] \in DOMAIN users, NameOf[d] \in Designated
        PROVE  uid[d] \in makers'
    BY <1>1, <1>2, <2>4 DEF RegInv, MakerInv
  <2>5. QED
    BY <1>1, <2>1, <2>3, <2>4 DEF MakerInv
<1>6. OnceInv'
  <2>1. CASE queue' = queue
    BY <1>1, <1>2, <2>1, OnceStays DEF RegInv, OnceInv
  <2>2. CASE queue' = queue \o <<c>>
    <3>1. /\ DOMAIN queue' = DOMAIN queue \union {Len(queue) + 1} /\ queue'[Len(queue) + 1] = c
          /\ \A i \in DOMAIN queue : queue'[i] = queue[i] /\ queue[i] # c
      <4>1. /\ DOMAIN queue' = DOMAIN queue \union {Len(queue) + 1} /\ queue'[Len(queue) + 1] = c
            /\ \A i \in DOMAIN queue : queue'[i] = queue[i]
        BY <1>1, <2>2
      <4>2. QED
        BY <1>3, <4>1 DEF Waiting, ToSet
    <3>2. \A i, j \in DOMAIN queue' : queue'[i] = queue'[j] => i = j
      BY <3>1 DEF RegInv, OnceInv
    <3>3. uid[c] \notin OnStream
      BY <1>1 DEF RegInv, OnceInv
    <3>4. Waiting' = Waiting \union {c}
      BY <3>1 DEF Waiting, ToSet
    <3>5. \A d \in Calls : pc'[d] = "saved" \/ d \in Waiting' => uid'[d] \notin OnStream'
      BY <1>1, <1>2, <3>3, <3>4 DEF RegInv, OnceInv
    <3>6. QED
      BY <1>1, <3>2, <3>5 DEF RegInv, OnceInv
  <2>3. QED
    BY <1>2, <2>1, <2>2
<1>7. pc'[c] # "done"
  BY <1>2
<1>8. QED
  BY <1>1, <1>2, <1>4, <1>5, <1>6, <1>7, RegAnswer

LEMMA RegWithdraw ==
    ASSUME IInv, RegInv, NEW c \in Calls, Withdraw(c)
    PROVE  RegInv'
<1>1. /\ pc[c] = "withdrawing"
      /\ UNCHANGED <<accounts, nextId, uid, queue, batch, stream, lost, makers>>
      /\ OnStream' = OnStream
  BY DEF Withdraw, producer, OnStream
<1>2. /\ pc'[c] = "done"
      /\ \A d \in Calls \ {c} : pc'[d] = pc[d] /\ told'[d] = told[d]
      /\ \/ told'[c].code = "error" /\ uid[c] \in accounts /\ users' = users
         \/ /\ told'[c].code = "halted"
            /\ users' = [id \in DOMAIN users \ {uid[c]} |-> users[id]]
  <2>1. CASE uid[c] \in accounts /\ Ends({c}, "error") /\ users' = users
    BY <2>1 DEF Ends, Goes
  <2>2. CASE Ends({c}, "halted") /\ users' = [id \in DOMAIN users \ {uid[c]} |-> users[id]]
    BY <2>2 DEF Ends, Goes
  <2>3. QED
    BY <2>1, <2>2 DEF Withdraw
<1>3. /\ \A id \in DOMAIN users' : id \in DOMAIN users /\ users'[id] = users[id]
      /\ \A id \in DOMAIN users : id # uid[c] => id \in DOMAIN users'
  BY <1>2
<1>4. \A d \in Calls \ {c} : uid[d] # uid[c]
  BY <1>1 DEF RegInv, OwnInv, HasRow
<1>5. OwnInv'
  BY <1>1, <1>2, <1>3 DEF RegInv, OwnInv, HasRow
<1>6. MakerInv'
  BY <1>1, <1>2, <1>3 DEF RegInv, MakerInv
<1>7. OnceInv'
  BY <1>1, <1>2, OnceStays DEF RegInv, OnceInv
<1>8. uid[c] \in OnStream => uid[c] \in lost
  BY <1>1 DEF IInv, SentInv, HasRow
<1>9. Said(c)'
  <2>1. CASE told'[c].code = "error" /\ uid[c] \in accounts
    <3>1. uid[c] \in OnStream
      BY <2>1 DEF RegInv, OnceInv
    <3>2. QED
      BY <1>1, <1>8, <2>1, <3>1 DEF Said
  <2>2. CASE told'[c].code = "halted" /\ uid[c] \notin DOMAIN users'
    BY <1>1, <1>8, <2>2 DEF Said
  <2>3. QED
    BY <1>2, <2>1, <2>2
<1>10. QED
  BY <1>1, <1>2, <1>3, <1>4, <1>5, <1>6, <1>7, <1>9, RegAnswer

-----------------------------------------------------------------------------
\* What every step of the producer keeps: only calls that wait are answered or
\* sent back, and only their ids are new on the stream.
LEMMA RegProducer ==
    ASSUME IInv, RegInv, UNCHANGED <<users, nextId, uid, makers>>,
           \A c \in Calls : \/ pc'[c] = pc[c] /\ told'[c] = told[c]
                            \/ pc[c] = "waiting" /\ pc'[c] = "withdrawing" /\ told'[c] = told[c]
                            \/ pc[c] = "waiting" /\ pc'[c] = "done" /\ Said(c)',
           \A i \in DOMAIN stream : i \in DOMAIN stream' /\ stream'[i] = stream[i],
           NEW sent, sent \subseteq Calls, \A c \in sent : pc[c] = "waiting",
           OnStream \subseteq OnStream', OnStream' \subseteq OnStream \union {uid[c] : c \in sent},
           lost \subseteq lost', lost' \subseteq lost \union {uid[c] : c \in sent},
           OnceInv'
    PROVE  RegInv'
<1>1. ASSUME NEW c \in Calls, pc[c] # "waiting", NEW d \in sent
      PROVE  uid[c] # uid[d] /\ uid[d] # 0
  BY <1>1 DEF RegInv, OwnInv, HasRow
<1>2. \A d \in sent : uid[d] # 0
  BY DEF RegInv, OwnInv, HasRow
<1>3. OwnInv'
  <2>1. 0 \notin OnStream' \union DOMAIN users'
    BY <1>2 DEF RegInv, OwnInv
  <2>2. \A c \in Calls : /\ HasRow(c)' => HasRow(c)
                         /\ pc'[c] \in {"new", "saving"} => pc[c] = pc'[c]
    BY DEF HasRow
  <2>3. QED
    BY <2>1, <2>2 DEF RegInv, OwnInv
<1>4. MakerInv'
  <2>1. \A c \in Calls : pc'[c] \in {"waiting", "withdrawing", "done"}
                            => pc[c] \in {"waiting", "withdrawing", "done"}
    OBVIOUS
  <2>2. QED
    BY <2>1 DEF RegInv, MakerInv
<1>5. ASSUME NEW c \in Calls, pc'[c] = "done"
      PROVE  Said(c)'
  <2>1. CASE pc[c] = "done" /\ told'[c] = told[c]
    <3>1. Said(c)
      BY <2>1 DEF RegInv, ToldInv
    <3>2. uid[c] \notin {uid[d] : d \in sent}
      BY <1>1, <2>1
    <3>3. (uid[c] \in OnStream' <=> uid[c] \in OnStream) /\ (uid[c] \in lost' <=> uid[c] \in lost)
      BY <3>2
    <3>4. QED
      BY <2>1, <3>1, <3>3, SaidStays
  <2>2. QED
    BY <1>5, <2>1
<1>6. QED
  BY <1>3, <1>4, <1>5 DEF RegInv, ToldInv

\* Redis has executed the appends at the head of the queue.
LEMMA Appended ==
    ASSUME IInv, RegInv, NEW n \in 0 .. Len(queue),
           stream' = stream \o UidsOf(SubSeq(queue, 1, n))
    PROVE  /\ \A i \in DOMAIN stream : i \in DOMAIN stream' /\ stream'[i] = stream[i]
           /\ \A i \in 1 .. n : /\ Len(stream) + i \in DOMAIN stream'
                                /\ stream'[Len(stream) + i] = uid[queue[i]]
           /\ \A i, j \in DOMAIN stream' : stream'[i] = stream'[j] => i = j
           /\ OnStream' = OnStream \union {uid[queue[i]] : i \in 1 .. n}
<1>1. /\ stream \in Seq(Nat) /\ queue \in Seq(Calls) /\ Len(stream) \in Nat /\ Len(queue) \in Nat
      /\ UidsOf(SubSeq(queue, 1, n)) \in Seq(Nat)
      /\ ToSet(UidsOf(SubSeq(queue, 1, n))) = {uid[queue[i]] : i \in 1 .. n}
  BY UidsOfPrefix DEF IInv, TypeInv
<1>2. PICK u \in Seq(Nat) : u = UidsOf(SubSeq(queue, 1, n))
  BY <1>1
<1>3. DOMAIN u = 1 .. n /\ \A i \in 1 .. n : u[i] = uid[queue[i]]
  BY <1>1, <1>2 DEF UidsOf
<1>4. Len(u) = n /\ n \in Nat
  BY <1>1, <1>3
<1>5. /\ DOMAIN stream' = 1 .. Len(stream) + n
      /\ \A i \in 1 .. Len(stream) : stream'[i] = stream[i]
      /\ \A i \in 1 .. n : stream'[Len(stream) + i] = u[i]
  BY <1>1, <1>2, <1>4
<1>6. DOMAIN stream = 1 .. Len(stream)
  BY <1>1
<1>7. OnStream' = OnStream \union {uid[queue[i]] : i \in 1 .. n}
  BY <1>1, ToSetOfConcat DEF OnStream
<1>8. /\ \A i \in DOMAIN stream : i \in DOMAIN stream' /\ stream'[i] = stream[i]
      /\ \A i \in 1 .. n : Len(stream) + i \in DOMAIN stream'
  BY <1>1, <1>4, <1>5, <1>6
<1>9. \A i \in 1 .. n : queue[i] \in Waiting /\ queue[i] \in Calls /\ pc[queue[i]] = "waiting"
  BY <1>1, QueueIsPrefix DEF IInv, SentInv
<1>10. \A i, j \in 1 .. n : uid[queue[i]] = uid[queue[j]] => i = j
  <2>1. \A i, j \in 1 .. n : queue[i] = queue[j] => i = j
    BY <1>1 DEF RegInv, OnceInv
  <2>2. QED
    BY <1>9, <2>1 DEF RegInv, OwnInv, HasRow
<1>11. ASSUME NEW i \in DOMAIN stream', NEW j \in DOMAIN stream', stream'[i] = stream'[j]
       PROVE  i = j
  <2>1. \A k \in DOMAIN stream' : k \in DOMAIN stream \/ \E m \in 1 .. n : k = Len(stream) + m
    <3>1. ASSUME NEW k \in DOMAIN stream', k \notin DOMAIN stream
          PROVE  \E m \in 1 .. n : k = Len(stream) + m
      <4>1. k - Len(stream) \in 1 .. n /\ k = Len(stream) + (k - Len(stream))
        BY <1>1, <1>4, <1>5, <1>6, <3>1
      <4>2. QED
        BY <4>1
    <3>2. QED
      BY <3>1
  <2>2. \A k \in DOMAIN stream : \A m \in 1 .. n : stream[k] # uid[queue[m]]
    BY <1>9 DEF RegInv, OnceInv, OnStream, ToSet
  <2>3. CASE i \in DOMAIN stream /\ j \in DOMAIN stream
    BY <1>5, <1>6, <1>11, <2>3 DEF RegInv, OnceInv
  <2>4. \A m \in 1 .. n : stream'[Len(stream) + m] = uid[queue[m]]
    BY <1>3, <1>5
  <2>5. ASSUME NEW k \in DOMAIN stream, NEW m \in 1 .. n
        PROVE  stream'[k] # stream'[Len(stream) + m]
    <3>1. stream'[k] = stream[k]
      BY <1>8
    <3>2. stream[k] # uid[queue[m]]
      BY <2>2
    <3>3. stream'[Len(stream) + m] = uid[queue[m]]
      BY <2>4
    <3>4. QED
      BY <3>1, <3>2, <3>3
  <2>6. ASSUME NEW k \in 1 .. n, NEW m \in 1 .. n, i = Len(stream) + k, j = Len(stream) + m
        PROVE  i = j
    <3>1. uid[queue[k]] = uid[queue[m]]
      BY <1>11, <2>4, <2>6
    <3>2. k = m
      BY <1>10, <3>1
    <3>3. QED
      BY <2>6, <3>2
  <2>7. QED
    BY <1>11, <2>1, <2>3, <2>5, <2>6
<1>12. QED
  BY <1>3, <1>5, <1>7, <1>8, <1>11

LEMMA RegFlush ==
    ASSUME IInv, RegInv, Flush
    PROVE  RegInv'
<1>1. /\ batch = <<>> /\ queue' = <<>> /\ stream' = stream \o UidsOf(queue)
      /\ batch' = [i \in DOMAIN queue |-> [call |-> queue[i], seq |-> Len(stream) + i]]
      /\ UNCHANGED <<users, accounts, nextId, pc, uid, told, lost, makers>>
      /\ queue \in Seq(Calls) /\ Len(queue) \in Nat
  BY DEF Flush, postgres, calls, IInv, TypeInv
<1>2. PICK n \in 0 .. Len(queue) : n = Len(queue)
  BY <1>1
<1>3. SubSeq(queue, 1, n) = queue /\ DOMAIN queue = 1 .. n
  BY <1>1, <1>2
<1>4. stream' = stream \o UidsOf(SubSeq(queue, 1, n))
  BY <1>1, <1>3
<1>5. /\ \A i \in DOMAIN stream : i \in DOMAIN stream' /\ stream'[i] = stream[i]
      /\ \A i \in 1 .. n : /\ Len(stream) + i \in DOMAIN stream'
                           /\ stream'[Len(stream) + i] = uid[queue[i]]
      /\ \A i, j \in DOMAIN stream' : stream'[i] = stream'[j] => i = j
      /\ OnStream' = OnStream \union {uid[queue[i]] : i \in 1 .. n}
  BY <1>4, Appended
<1>6. /\ Waiting = {queue[i] : i \in 1 .. n} /\ Waiting \subseteq Calls
      /\ \A c \in Waiting : pc[c] = "waiting"
  BY <1>2, QueueIsPrefix DEF IInv, SentInv
<1>7. OnStream' = OnStream \union {uid[c] : c \in Waiting}
  BY <1>5, <1>6
<1>8. OnceInv'
  <2>1. DOMAIN queue' = {} /\ Waiting' = {}
    BY <1>1 DEF Waiting, ToSet
  <2>2. ASSUME NEW c \in Calls, pc[c] = "saved"
        PROVE  uid[c] \notin OnStream'
    <3>1. \A d \in Waiting : uid[c] # uid[d]
      BY <1>6, <2>2 DEF RegInv, OwnInv, HasRow
    <3>2. uid[c] \notin OnStream
      BY <2>2 DEF RegInv, OnceInv
    <3>3. QED
      BY <1>7, <3>1, <3>2
  <2>3. ASSUME NEW b \in ToSet(batch')
        PROVE  b.seq \in DOMAIN stream' /\ stream'[b.seq] = uid[b.call]
    <3>1. ToSet(batch') = {[call |-> queue[i], seq |-> Len(stream) + i] : i \in 1 .. n}
      BY <1>1, <1>3 DEF ToSet
    <3>2. PICK i \in 1 .. n : b = [call |-> queue[i], seq |-> Len(stream) + i]
      BY <2>3, <3>1
    <3>3. b.seq = Len(stream) + i /\ b.call = queue[i]
      BY <3>2
    <3>4. QED
      BY <1>5, <3>3
  <2>4. lost' \union accounts' \subseteq OnStream'
    BY <1>1, <1>7 DEF RegInv, OnceInv
  <2>5. QED
    BY <1>1, <1>5, <2>1, <2>2, <2>3, <2>4 DEF OnceInv
<1>9. QED
  BY <1>1, <1>5, <1>6, <1>7, <1>8, RegProducer

LEMMA RegFlushBreaks ==
    ASSUME IInv, RegInv, NEW n \in 0 .. Len(queue), FlushBreaks(n)
    PROVE  RegInv'
<1> DEFINE ids == {uid[queue[i]] : i \in 1 .. n}
           sent == {queue[i] : i \in 1 .. n}
<1>1. /\ batch' = <<>> /\ queue' = <<>> /\ Goes(Waiting, "withdrawing")
      /\ stream' = stream \o UidsOf(SubSeq(queue, 1, n)) /\ lost' = lost \union ids
      /\ UNCHANGED <<users, accounts, nextId, uid, told, makers>>
  BY DEF FlushBreaks, postgres
<1>2. Waiting = {queue[i] : i \in 1 .. Len(queue)} /\ Waiting \subseteq Calls
  BY QueueIsPrefix DEF IInv
<1>3. \A c \in Waiting : pc[c] = "waiting"
  BY DEF IInv, SentInv
<1>4. sent \subseteq Waiting
  BY <1>2 DEF IInv, TypeInv
<1>5. /\ \A i \in DOMAIN stream : i \in DOMAIN stream' /\ stream'[i] = stream[i]
      /\ \A i, j \in DOMAIN stream' : stream'[i] = stream'[j] => i = j
      /\ OnStream' = OnStream \union ids
  BY <1>1, Appended
<1>6. ids = {uid[c] : c \in sent}
  OBVIOUS
<1> HIDE DEF ids, sent
<1>7. \A c \in Calls : pc'[c] = IF c \in Waiting THEN "withdrawing" ELSE pc[c]
  BY <1>1 DEF Goes
<1>8. OnceInv'
  <2>1. DOMAIN queue' = {} /\ Waiting' = {} /\ ToSet(batch') = {}
    BY <1>1 DEF Waiting, ToSet
  <2>2. ASSUME NEW c \in Calls, pc'[c] = "saved"
        PROVE  uid[c] \notin OnStream'
    <3>1. pc[c] = "saved"
      BY <1>7, <2>2
    <3>2. \A d \in sent : uid[c] # uid[d]
      BY <1>2, <1>3, <1>4, <3>1 DEF RegInv, OwnInv, HasRow
    <3>3. uid[c] \notin OnStream
      BY <3>1 DEF RegInv, OnceInv
    <3>4. QED
      BY <1>5, <1>6, <3>2, <3>3
  <2>3. lost' \union accounts' \subseteq OnStream'
    BY <1>1, <1>5 DEF RegInv, OnceInv
  <2>4. QED
    BY <1>1, <1>5, <2>1, <2>2, <2>3 DEF OnceInv
<1>9. \A c \in Calls : \/ pc'[c] = pc[c] /\ told'[c] = told[c]
                       \/ pc[c] = "waiting" /\ pc'[c] = "withdrawing" /\ told'[c] = told[c]
  BY <1>1, <1>3, <1>7
<1>10. sent \subseteq Calls /\ \A c \in sent : pc[c] = "waiting"
  BY <1>2, <1>3, <1>4
<1>11. /\ OnStream \subseteq OnStream' /\ OnStream' \subseteq OnStream \union {uid[c] : c \in sent}
       /\ lost \subseteq lost' /\ lost' \subseteq lost \union {uid[c] : c \in sent}
  BY <1>1, <1>5, <1>6
<1>12. QED
  BY <1>1, <1>5, <1>8, <1>9, <1>10, <1>11, RegProducer

\* The calls of the batch are answered, or fail, and the stream stays.
LEMMA RegAnswers ==
    ASSUME IInv, RegInv, UNCHANGED <<users, accounts, nextId, uid, makers, stream>>,
           NEW cs, cs \subseteq Calls, \A c \in cs : pc[c] = "waiting",
           queue' \in {queue, <<>>}, batch' = <<>>,
           \A c \in Calls \ cs : pc'[c] = pc[c] /\ told'[c] = told[c],
           \A c \in cs : \/ pc'[c] = "withdrawing" /\ told'[c] = told[c]
                         \/ pc'[c] = "done" /\ Said(c)',
           lost \subseteq lost', lost' \subseteq lost \union {uid[c] : c \in cs}, lost' \subseteq OnStream
    PROVE  RegInv'
<1>1. OnStream' = OnStream /\ Waiting' \subseteq Waiting /\ ToSet(batch') = {}
  BY DEF OnStream, Waiting, ToSet
<1>2. OnceInv'
  <2>1. \A c \in Calls : pc'[c] = "saved" => pc[c] = "saved"
    OBVIOUS
  <2>2. \A i, j \in DOMAIN queue' : queue'[i] = queue'[j] => i = j
    <3>1. DOMAIN <<>> = {}
      OBVIOUS
    <3>2. QED
      BY <3>1 DEF RegInv, OnceInv
  <2>3. QED
    BY <1>1, <2>1, <2>2 DEF RegInv, OnceInv
<1>3. QED
  BY <1>1, <1>2, RegProducer

LEMMA RegFlushed ==
    ASSUME IInv, RegInv, Flushed
    PROVE  RegInv'
<1>1. /\ batch' = <<>> /\ Goes(InFlight, "done")
      /\ told' = [c \in Calls |->
                    IF c \in InFlight
                    THEN [code |-> "created", seq |-> (CHOOSE b \in ToSet(batch) : b.call = c).seq]
                    ELSE told[c]]
      /\ UNCHANGED <<users, accounts, nextId, uid, queue, stream, lost, makers>>
  BY DEF Flushed, postgres
<1>2. InFlight \subseteq Calls /\ \A c \in InFlight : pc[c] = "waiting" /\ uid[c] \in DOMAIN users
  BY FlightIsCalls DEF IInv, SentInv, RowInv
<1>3. ASSUME NEW c \in InFlight
      PROVE  pc'[c] = "done" /\ Said(c)'
  <2>1. \E b \in ToSet(batch) : b.call = c
    BY DEF InFlight
  <2>2. PICK b \in ToSet(batch) : b.call = c /\ told'[c] = [code |-> "created", seq |-> b.seq]
    BY <1>1, <1>2, <2>1
  <2>3. b.seq \in DOMAIN stream /\ stream[b.seq] = uid[c]
    BY <2>2 DEF RegInv, OnceInv
  <2>4. told'[c].code = "created" /\ told'[c].seq = b.seq
    BY <2>2
  <2>5. Said(c)'
    BY <1>1, <1>2, <2>3, <2>4 DEF Said
  <2>6. QED
    BY <1>1, <1>2, <2>5 DEF Goes
<1>4. \A c \in Calls \ InFlight : pc'[c] = pc[c] /\ told'[c] = told[c]
  BY <1>1 DEF Goes
<1>5. lost \subseteq OnStream
  BY DEF RegInv, OnceInv
<1>6. QED
  BY <1>1, <1>2, <1>3, <1>4, <1>5, RegAnswers

LEMMA RegReplyLost ==
    ASSUME IInv, RegInv, ReplyLost
    PROVE  RegInv'
<1>1. /\ batch' = <<>> /\ Goes(InFlight, "withdrawing")
      /\ lost' = lost \union {uid[c] : c \in InFlight}
      /\ UNCHANGED <<users, accounts, nextId, uid, told, queue, stream, makers>>
  BY DEF ReplyLost, postgres
<1>2. InFlight \subseteq Calls /\ \A c \in InFlight : pc[c] = "waiting"
  BY FlightIsCalls DEF IInv, SentInv
<1>3. ASSUME NEW c \in InFlight
      PROVE  uid[c] \in OnStream
  <2>1. PICK b \in ToSet(batch) : b.call = c
    BY DEF InFlight
  <2>2. QED
    BY <2>1 DEF RegInv, OnceInv, OnStream, ToSet
<1>4. lost' \subseteq OnStream
  BY <1>1, <1>3 DEF RegInv, OnceInv
<1>5. \A c \in Calls : pc'[c] = (IF c \in InFlight THEN "withdrawing" ELSE pc[c]) /\ told'[c] = told[c]
  BY <1>1 DEF Goes
<1>6. QED
  BY <1>1, <1>2, <1>4, <1>5, RegAnswers

LEMMA RegFlushRefused ==
    ASSUME IInv, RegInv, FlushRefused
    PROVE  RegInv'
<1>1. /\ queue' = <<>> /\ batch' = <<>> /\ Ends(Waiting, "error")
      /\ UNCHANGED <<users, accounts, nextId, uid, stream, lost, makers>>
  BY DEF FlushRefused, postgres
<1>2. Waiting \subseteq Calls /\ \A c \in Waiting : pc[c] = "waiting"
  BY QueueIsPrefix DEF IInv, SentInv
<1>3. \A c \in Calls : /\ pc'[c] = IF c \in Waiting THEN "done" ELSE pc[c]
                       /\ told'[c] = IF c \in Waiting THEN [code |-> "error", seq |-> 0] ELSE told[c]
  BY <1>1 DEF Ends, Goes
<1>4. lost \subseteq OnStream /\ OnStream' = OnStream
  BY <1>1 DEF RegInv, OnceInv, OnStream
<1>5. ASSUME NEW c \in Waiting
      PROVE  Said(c)'
  <2>1. uid[c] \notin OnStream /\ uid[c] \notin lost /\ told'[c].code = "error"
    BY <1>2, <1>3, <1>4 DEF RegInv, OnceInv
  <2>2. QED
    BY <1>1, <1>2, <1>4, <2>1 DEF Said
<1>6. QED
  BY <1>1, <1>2, <1>3, <1>4, <1>5, RegAnswers

\* The privileges that are found again are those that were given.
LEMMA RegRestart ==
    ASSUME IInv, RegInv, Restart
    PROVE  RegInv'
<1> DEFINE cs == {c \in Calls : pc[c] \notin {"new", "done"}}
<1>1. /\ Ends(cs, "none") /\ queue' = <<>> /\ batch' = <<>>
      /\ makers' = {id \in DOMAIN users : users[id] \in Designated}
      /\ UNCHANGED <<users, accounts, nextId, uid, stream, lost>>
  BY DEF Restart, postgres
<1>2. \A c \in Calls :
        \/ pc'[c] = pc[c] /\ told'[c] = told[c] /\ pc[c] \in {"new", "done"}
        \/ pc'[c] = "done" /\ told'[c] = [code |-> "none", seq |-> 0]
  BY <1>1 DEF Ends, Goes
<1>3. OnStream' = OnStream /\ Waiting' = {} /\ ToSet(batch') = {} /\ DOMAIN queue' = {}
  BY <1>1 DEF OnStream, Waiting, ToSet
<1>4. OwnInv'
  BY <1>1, <1>2, <1>3 DEF RegInv, OwnInv, HasRow
<1>5. MakerInv'
  <2>1. \A id \in makers' : id \in Nat \ {0} /\ id < nextId'
    BY <1>1 DEF RegInv, OwnInv, IInv, RowInv
  <2>2. QED
    BY <1>1, <2>1 DEF RegInv, OwnInv, MakerInv
<1>6. OnceInv'
  BY <1>1, <1>2, <1>3 DEF RegInv, OnceInv
<1>7. ASSUME NEW c \in Calls, pc'[c] = "done"
      PROVE  Said(c)'
  <2>1. CASE pc[c] = "done" /\ told'[c] = told[c]
    BY <1>1, <1>3, <2>1, SaidStays DEF RegInv, ToldInv
  <2>2. CASE told'[c] = [code |-> "none", seq |-> 0]
    <3>1. told'[c].code = "none"
      BY <2>2
    <3>2. QED
      BY <3>1 DEF Said
  <2>3. QED
    BY <1>2, <1>7, <2>1, <2>2
<1>8. QED
  BY <1>4, <1>5, <1>6, <1>7 DEF RegInv, ToldInv

-----------------------------------------------------------------------------
\* A step of the ledger, of a session or of the watchdog.
LEMMA RegAround ==
    ASSUME RegInv, UNCHANGED <<users, nextId, pc, uid, told, queue, batch, stream, lost, makers>>,
           accounts' \subseteq OnStream
    PROVE  RegInv'
<1>1. OnStream' = OnStream /\ Waiting' = Waiting
  BY DEF OnStream, Waiting
<1>2. OwnInv' /\ MakerInv' /\ OnceInv'
  BY <1>1 DEF RegInv, OwnInv, HasRow, MakerInv, OnceInv
<1>3. ToldInv'
  BY <1>1 DEF RegInv, ToldInv, Said
<1>4. QED
  BY <1>2, <1>3 DEF RegInv

LEMMA RegLedger ==
    ASSUME IInv, RegInv, NEW from \in Nat, NEW to \in Nat, to <= Len(stream), Project(from, to),
           UNCHANGED <<users, nextId, pc, uid, told, queue, batch, stream, lost, makers>>
    PROVE  RegInv'
<1>1. ToSet(SubSeq(stream, from + 1, to)) \subseteq OnStream
  BY TouchedIsOnStream
<1>2. accounts' \subseteq accounts \union ToSet(SubSeq(stream, from + 1, to))
  BY DEF Project
<1>3. accounts' \subseteq OnStream
  BY <1>1, <1>2 DEF RegInv, OnceInv
<1>4. QED
  BY <1>3, RegAround

LEMMA RegNext ==
    ASSUME IInv, PositionInv, RegInv, [Next]_vars
    PROVE  RegInv'
<1>1. CASE \E c \in Calls : Lookup(c) \/ Insert(c) \/ Enqueue(c) \/ Withdraw(c)
  BY <1>1, RegLookup, RegInsert, RegEnqueue, RegWithdraw
<1>2. CASE Flush \/ Flushed \/ ReplyLost \/ FlushRefused \/ Restart
  BY <1>2, RegFlush, RegFlushed, RegReplyLost, RegFlushRefused, RegRestart
<1>3. CASE \E n \in 0 .. Len(queue) : FlushBreaks(n)
  BY <1>3, RegFlushBreaks
<1>4. CASE ReadAndFlush
  <2>1. PICK to \in applied + 1 .. Len(stream) : Project(IF owed THEN 0 ELSE applied, to)
    BY <1>4 DEF ReadAndFlush
  <2>2. UNCHANGED <<users, nextId, pc, uid, told, queue, batch, stream, lost, makers>>
    BY <1>4 DEF ReadAndFlush, calls, producer
  <2>3. /\ to \in Nat /\ to <= Len(stream)
        /\ (IF owed THEN 0 ELSE applied) \in Nat
    BY <2>1 DEF PositionInv, IInv, TypeInv
  <2>4. QED
    BY <2>1, <2>2, <2>3, RegLedger
<1>5. CASE RestartLedger
  BY <1>5, RegLedger DEF RestartLedger, calls, producer, IInv, TypeInv
<1>6. CASE WatchHalt \/ (\E k \in Cookies : Login(k) \/ EndSession(k)) \/ UNCHANGED vars
  <2>1. UNCHANGED <<users, nextId, pc, uid, told, queue, batch, stream, lost, makers, accounts>>
    BY <1>6 DEF WatchHalt, Login, EndSession, vars, postgres, calls, producer
  <2>2. QED
    BY <2>1, RegAround DEF RegInv, OnceInv
<1>7. QED
  BY <1>1, <1>2, <1>3, <1>4, <1>5, <1>6 DEF Next

LEMMA RegistrationFollows ==
    ASSUME IInv, RegInv
    PROVE  RegistrationIsWhole
<1>1. ASSUME NEW c \in Calls, pc[c] = "done", uid[c] \in DOMAIN users
      PROVE  uid[c] \in makers <=> NameOf[c] \in Designated
  BY <1>1 DEF RegInv, MakerInv
<1>2. ASSUME NEW c \in Calls, pc[c] = "done", told[c].code = "created"
      PROVE  /\ uid[c] \in DOMAIN users /\ users[uid[c]] = NameOf[c]
             /\ {i \in DOMAIN stream : stream[i] = uid[c]} = {told[c].seq}
  BY <1>2 DEF RegInv, ToldInv, Said, OwnInv, OnceInv
<1>3. ASSUME NEW c \in Calls
      PROVE  On(uid[c]) <=> uid[c] \in OnStream
  BY DEF On, OnStream, ToSet
<1>4. ASSUME NEW c \in Calls, pc[c] = "done"
      PROVE  CASE told[c].code = "created"  -> /\ uid[c] \in DOMAIN users
                                               /\ users[uid[c]] = NameOf[c]
                                               /\ {i \in DOMAIN stream : stream[i] = uid[c]}
                                                     = {told[c].seq}
               [] told[c].code = "conflict" -> uid[c] = 0
               [] told[c].code = "halted"   -> /\ uid[c] \notin DOMAIN users
                                               /\ On(uid[c]) => uid[c] \in lost
               [] told[c].code = "error"    -> uid[c] \in DOMAIN users =>
                                                   On(uid[c]) = (uid[c] \in lost)
               [] told[c].code = "none"     -> TRUE
  <2>1. Said(c)
    BY <1>4 DEF RegInv, ToldInv
  <2>2. CASE told[c].code = "created"
    BY <1>2, <1>4, <2>2
  <2>3. CASE told[c].code = "conflict"
    BY <2>1, <2>3 DEF Said
  <2>4. CASE told[c].code = "halted"
    BY <1>3, <2>1, <2>4 DEF Said
  <2>5. CASE told[c].code = "error"
    <3>1. On(uid[c]) \in BOOLEAN
      BY DEF On
    <3>2. QED
      BY <1>3, <2>1, <2>5, <3>1 DEF Said
  <2>6. CASE told[c].code = "none"
    BY <2>6
  <2>7. QED
    BY <2>1, <2>2, <2>3, <2>4, <2>5, <2>6 DEF Said
<1>5. QED
  BY <1>1, <1>4 DEF RegistrationIsWhole

\* A registration leaves behind what its caller was told, and the privilege to
\* sell short stays with the designated accounts, however the calls, the producer,
\* the ledger and their failures interleave (register, routes_auth.py:66-135).
THEOREM RegistrationsAreWhole == Spec => []RegistrationIsWhole
<1>1. Init => RegInv
  BY RegInit
<1>2. IInv /\ PositionInv /\ RegInv /\ [Next]_vars => RegInv'
  BY RegNext
<1>3. IInv /\ RegInv => RegistrationIsWhole
  BY RegistrationFollows
<1>4. QED
  BY <1>1, <1>2, <1>3, AccountsInv, PTL DEF Spec

-----------------------------------------------------------------------------
(***************************************************************************)
(* The token bucket is exactly the limit it stands for, for every rate,    *)
(* every user and every history of orders.                                 *)
(*                                                                         *)
(* What a bucket holds is the least of a full bucket and of the room left  *)
(* in the windows that begin at the user's earlier orders (Level).  A log   *)
(* is called g, and with one order more, h.                                *)
(***************************************************************************)
Passed(g, user) == {i \in DOMAIN g : g[i].user = user /\ g[i].passed}
Since(g, user, first) == {i \in Passed(g, user) : i >= first}

\* What is left, at that time, of the window that began with order `first'.
Room(g, user, first, at) ==
    Capacity + (at - g[first].at) - Cardinality(Since(g, user, first)) * Unit

Level(g, user, tokens, at) ==
    /\ tokens \in Int /\ tokens <= Capacity
    /\ \A first \in Passed(g, user) : tokens <= Room(g, user, first, at)
    /\ tokens = Capacity \/ \E first \in Passed(g, user) : tokens = Room(g, user, first, at)

OrderEntries == [user : Senders, at : Nat, passed : BOOLEAN]

LogInv ==
    /\ log \in Seq(OrderEntries)
    /\ \A user \in Senders \ DOMAIN buckets : Passed(log, user) = {}

BucketInv ==
    \A user \in DOMAIN buckets :
        /\ buckets[user].last \in Nat
        /\ \E i \in DOMAIN log : buckets[user].last = log[i].at
        /\ Level(log, user, buckets[user].tokens, buckets[user].last)

LimiterInv == LogInv /\ BucketInv /\ LimiterIsExact

-----------------------------------------------------------------------------
LEMMA CapacityIsNat == Capacity \in Nat /\ Unit \in Nat \ {0} /\ Unit <= Capacity
<1>1. Rate \in Nat /\ Unit \in Nat /\ 1 <= Rate /\ 1 <= Unit
  BY RateAssumption
<1>2. Rate * Unit \in Nat /\ Unit <= Rate * Unit
  BY <1>1
<1>3. QED
  BY <1>1, <1>2 DEF Capacity

LEMMA LogIsTyped ==
    ASSUME LogInv
    PROVE  /\ Len(log) \in Nat /\ DOMAIN log = 1 .. Len(log)
           /\ \A i \in DOMAIN log : log[i].user \in Senders /\ log[i].at \in Nat
                                    /\ log[i].passed \in BOOLEAN
<1>1. \A x \in OrderEntries : x.user \in Senders /\ x.at \in Nat /\ x.passed \in BOOLEAN
  BY DEF OrderEntries
<1>2. Len(log) \in Nat /\ DOMAIN log = 1 .. Len(log) /\ \A i \in DOMAIN log : log[i] \in OrderEntries
  BY DEF LogInv
<1>3. QED
  BY <1>1, <1>2

LEMMA PassedIsFinite ==
    ASSUME LogInv, NEW user
    PROVE  /\ IsFiniteSet(Passed(log, user)) /\ Passed(log, user) \subseteq 1 .. Len(log)
           /\ \A first : /\ IsFiniteSet(Since(log, user, first)) /\ Cardinality(Since(log, user, first)) \in Nat
                         /\ Since(log, user, first) \subseteq 1 .. Len(log)
<1>1. Passed(log, user) \subseteq 1 .. Len(log) /\ IsFiniteSet(1 .. Len(log))
  BY LogIsTyped, FS_Interval DEF Passed
<1>2. IsFiniteSet(Passed(log, user))
  BY <1>1, FS_Subset
<1>3. ASSUME NEW first
      PROVE  /\ IsFiniteSet(Since(log, user, first)) /\ Cardinality(Since(log, user, first)) \in Nat
             /\ Since(log, user, first) \subseteq 1 .. Len(log)
  <2>1. Since(log, user, first) \subseteq Passed(log, user)
    BY DEF Since
  <2>2. QED
    BY <1>1, <1>2, <2>1, FS_Subset, FS_CardinalityType
<1>4. QED
  BY <1>1, <1>2, <1>3

LEMMA RoomIsInt ==
    ASSUME LogInv, NEW user, NEW first \in Passed(log, user), NEW at \in Nat
    PROVE  /\ Room(log, user, first, at) \in Int /\ log[first].at \in Nat
           /\ \A t \in Nat : Room(log, user, first, t) = Room(log, user, first, at) + (t - at)
           /\ Cardinality(Since(log, user, first)) * Unit \in Nat
<1>1. log[first].at \in Nat /\ Cardinality(Since(log, user, first)) \in Nat
  BY LogIsTyped, PassedIsFinite DEF Passed
<1>2. Cardinality(Since(log, user, first)) * Unit \in Nat
  BY <1>1, CapacityIsNat
<1>3. QED
  BY <1>1, <1>2, CapacityIsNat DEF Room

-----------------------------------------------------------------------------
\* A refill keeps the level at the new time.
LEMMA RefillKeepsLevel ==
    ASSUME LimiterInv, NEW user \in Senders, NEW at \in Nat, \A i \in DOMAIN log : log[i].at <= at
    PROVE  /\ Found(user, at) = [tokens |-> Found(user, at).tokens, last |-> at]
           /\ Level(log, user, Found(user, at).tokens, at)
<1>1. CASE user \notin DOMAIN buckets
  <2>1. Found(user, at) = [tokens |-> Capacity, last |-> at]
    BY <1>1 DEF Found
  <2>2. Passed(log, user) = {}
    BY <1>1 DEF LimiterInv, LogInv
  <2>3. QED
    BY <2>1, <2>2, CapacityIsNat DEF Level
<1>2. CASE user \in DOMAIN buckets
  <2> DEFINE old == buckets[user].tokens
             last == buckets[user].last
             new == Least(Capacity, old + (at - last))
  <2>1. Found(user, at) = [tokens |-> new, last |-> at]
    BY <1>2 DEF Found, Refilled
  <2>2. Level(log, user, old, last) /\ last \in Nat /\ last <= at /\ old \in Int
    BY <1>2, LogIsTyped DEF LimiterInv, BucketInv, Level
  <2>3. /\ new \in Int /\ new <= Capacity /\ new <= old + (at - last)
        /\ new = Capacity \/ new = old + (at - last)
    BY <2>2, CapacityIsNat DEF Least
  <2> HIDE DEF old, last, new
  <2>4. ASSUME NEW first \in Passed(log, user)
        PROVE  /\ new <= Room(log, user, first, at)
               /\ old = Room(log, user, first, last) => old + (at - last) = Room(log, user, first, at)
    <3>1. /\ Room(log, user, first, last) \in Int /\ old <= Room(log, user, first, last)
          /\ Room(log, user, first, at) = Room(log, user, first, last) + (at - last)
      BY <2>2, RoomIsInt DEF LimiterInv, Level
    <3>2. QED
      BY <2>2, <2>3, <3>1
  <2>5. new = Capacity \/ \E first \in Passed(log, user) : new = Room(log, user, first, at)
    <3>1. CASE new = Capacity
      BY <3>1
    <3>2. CASE new = old + (at - last) /\ old = Capacity
      BY <2>2, <2>3, <3>2, CapacityIsNat
    <3>3. CASE new = old + (at - last) /\ \E first \in Passed(log, user) : old = Room(log, user, first, last)
      BY <2>4, <3>3
    <3>4. QED
      BY <2>2, <2>3, <3>1, <3>2, <3>3 DEF Level
  <2>6. QED
    BY <2>1, <2>3, <2>4, <2>5 DEF Level
<1>3. QED
  BY <1>1, <1>2

\* With the level known, a whole token is there just if every window has room.
LEMMA LevelDecides ==
    ASSUME LogInv, NEW user, NEW tokens, NEW at \in Nat, Level(log, user, tokens, at)
    PROVE  tokens >= Unit <=>
              \A first \in Passed(log, user) :
                 (Cardinality(Since(log, user, first)) + 1) * Unit <= Capacity + (at - log[first].at)
<1>1. ASSUME NEW first \in Passed(log, user)
      PROVE  /\ Room(log, user, first, at) \in Int
             /\ Room(log, user, first, at) >= Unit <=>
                   (Cardinality(Since(log, user, first)) + 1) * Unit <= Capacity + (at - log[first].at)
  <2> DEFINE c == Cardinality(Since(log, user, first))
  <2>1. c \in Nat /\ c * Unit \in Nat /\ log[first].at \in Nat /\ Room(log, user, first, at) \in Int
    BY RoomIsInt, PassedIsFinite
  <2>2. Room(log, user, first, at) = Capacity + (at - log[first].at) - c * Unit
    BY DEF Room
  <2> HIDE DEF c
  <2>3. (c + 1) * Unit = c * Unit + Unit
    BY <2>1, CapacityIsNat
  <2>4. QED
    BY <2>1, <2>2, <2>3, CapacityIsNat DEF c
<1>2. /\ tokens \in Int /\ \A first \in Passed(log, user) : tokens <= Room(log, user, first, at)
      /\ tokens = Capacity \/ \E first \in Passed(log, user) : tokens = Room(log, user, first, at)
  BY DEF Level
<1>3. QED
  BY <1>1, <1>2, CapacityIsNat

-----------------------------------------------------------------------------
\* What an order appends to the log.
LEMMA OrderEffect ==
    ASSUME LimiterInv, NEW user \in Senders, NEW at \in Nat, Order(user, at)
    PROVE  LET n == Len(log) + 1
               bucket == Found(user, at)
           IN  /\ log' \in Seq(OrderEntries) /\ DOMAIN log' = 1 .. n /\ n \in Nat
               /\ \A i \in 1 .. Len(log) : log'[i] = log[i]
               /\ log'[n] = [user |-> user, at |-> at, passed |-> Allows(bucket)]
               /\ DOMAIN buckets' = DOMAIN buckets \union {user}
               /\ buckets'[user] = Spent(bucket)
               /\ \A u \in DOMAIN buckets \ {user} : buckets'[u] = buckets[u]
<1> DEFINE entry == [user |-> user, at |-> at, passed |-> Allows(Found(user, at))]
<1>1. entry \in OrderEntries
  BY DEF OrderEntries, Allows
<1>2. log' = Append(log, entry) /\ log \in Seq(OrderEntries)
  BY DEF Order, LimiterInv, LogInv
<1>3. buckets' = [u \in DOMAIN buckets \union {user} |->
                    IF u = user THEN Spent(Found(user, at)) ELSE buckets[u]]
  BY DEF Order
<1> HIDE DEF entry
<1>4. /\ log' \in Seq(OrderEntries) /\ Len(log) \in Nat /\ DOMAIN log' = 1 .. Len(log) + 1
      /\ \A i \in 1 .. Len(log) : log'[i] = log[i]
      /\ log'[Len(log) + 1] = entry
  BY <1>1, <1>2
<1>5. QED
  BY <1>3, <1>4 DEF entry

\* The passed orders of a log with one order more.
LEMMA PassedAfter ==
    ASSUME NEW g \in Seq(OrderEntries), NEW h, DOMAIN h = 1 .. Len(g) + 1,
           \A i \in 1 .. Len(g) : h[i] = g[i],
           NEW user, h[Len(g) + 1].user = user, h[Len(g) + 1].passed \in BOOLEAN
    PROVE  /\ \A u : u # user => Passed(h, u) = Passed(g, u)
           /\ Passed(h, user) = IF h[Len(g) + 1].passed THEN Passed(g, user) \union {Len(g) + 1}
                                ELSE Passed(g, user)
           /\ \A u : Passed(g, u) \subseteq 1 .. Len(g)
<1>1. DOMAIN g = 1 .. Len(g) /\ Len(g) \in Nat
  OBVIOUS
<1>2. \A i : i \in DOMAIN h <=> i \in DOMAIN g \/ i = Len(g) + 1
  BY <1>1
<1>3. \A u : \A i : i \in Passed(h, u) <=> i \in DOMAIN h /\ h[i].user = u /\ h[i].passed
  BY DEF Passed
<1>4. \A u : \A i : i \in Passed(g, u) <=> i \in DOMAIN g /\ g[i].user = u /\ g[i].passed
  BY DEF Passed
<1>5. \A u : Passed(g, u) \subseteq 1 .. Len(g)
  BY <1>1, <1>4
<1>6. ASSUME NEW u, u # user
      PROVE  Passed(h, u) = Passed(g, u)
  <2>1. \A i : i \in Passed(h, u) <=> i \in Passed(g, u)
    BY <1>1, <1>2, <1>3, <1>4, <1>6
  <2>2. QED
    BY <2>1
<1>7. CASE h[Len(g) + 1].passed
  <2>1. \A i : i \in Passed(h, user) <=> i \in Passed(g, user) \/ i = Len(g) + 1
    BY <1>1, <1>2, <1>3, <1>4, <1>7
  <2>2. QED
    BY <1>5, <1>6, <1>7, <2>1
<1>8. CASE ~h[Len(g) + 1].passed
  <2>1. \A i : i \in Passed(h, user) <=> i \in Passed(g, user)
    BY <1>1, <1>2, <1>3, <1>4, <1>8
  <2>2. QED
    BY <1>5, <1>6, <1>8, <2>1
<1>9. QED
  BY <1>7, <1>8

\* The windows of a user whose passed orders are the same.
LEMMA RoomUnmoved ==
    ASSUME NEW g, NEW h, NEW u, Passed(h, u) = Passed(g, u), \A i \in Passed(g, u) : h[i] = g[i],
           NEW tokens, NEW t, Level(g, u, tokens, t)
    PROVE  Level(h, u, tokens, t)
<1>1. \A first : Since(h, u, first) = Since(g, u, first)
  BY DEF Since
<1>2. \A first \in Passed(g, u) : Room(h, u, first, t) = Room(g, u, first, t)
  BY <1>1 DEF Room
<1>3. QED
  BY <1>2 DEF Level

\* An order let through takes a token, and every window gets one order longer.
LEMMA SpendKeepsLevel ==
    ASSUME LogInv, NEW h, NEW user, NEW tokens, NEW at \in Nat, Level(log, user, tokens, at),
           Passed(h, user) = Passed(log, user) \union {Len(log) + 1},
           \A i \in Passed(log, user) : h[i] = log[i], h[Len(log) + 1].at = at
    PROVE  Level(h, user, tokens - Unit, at)
<1> DEFINE n == Len(log) + 1
<1>1. /\ Passed(log, user) \subseteq 1 .. Len(log) /\ n \in Nat /\ Len(log) \in Nat
      /\ n \notin Passed(log, user)
  BY LogIsTyped, PassedIsFinite
<1>2. ASSUME NEW first \in Passed(log, user)
      PROVE  Room(h, user, first, at) = Room(log, user, first, at) - Unit
  <2> DEFINE c == Cardinality(Since(log, user, first))
  <2>1. first \in 1 .. Len(log) /\ n >= first
    BY <1>1
  <2>2. Since(h, user, first) = Since(log, user, first) \union {n}
    BY <1>1, <2>1 DEF Since
  <2>3. n \notin Since(log, user, first) /\ IsFiniteSet(Since(log, user, first)) /\ c \in Nat
    BY <1>1, PassedIsFinite DEF Since
  <2>4. Cardinality(Since(h, user, first)) = c + 1
    BY <2>2, <2>3, FS_AddElement
  <2>5. Room(h, user, first, at) = Capacity + (at - log[first].at) - (c + 1) * Unit
    BY <2>4 DEF Room
  <2>6. Room(log, user, first, at) = Capacity + (at - log[first].at) - c * Unit
    BY DEF Room
  <2>7. log[first].at \in Nat /\ c * Unit \in Nat
    BY RoomIsInt
  <2> HIDE DEF c
  <2>8. (c + 1) * Unit = c * Unit + Unit
    BY <2>3, CapacityIsNat
  <2>9. QED
    BY <2>5, <2>6, <2>7, <2>8, CapacityIsNat
<1>3. Room(h, user, n, at) = Capacity - Unit
  <2>1. Since(h, user, n) = {n}
    BY <1>1 DEF Since
  <2>2. Cardinality(Since(h, user, n)) = 1
    BY <2>1, FS_Singleton
  <2>3. Room(h, user, n, at) = Capacity + (at - at) - 1 * Unit
    BY <2>2 DEF Room
  <2>4. QED
    BY <2>3, CapacityIsNat
<1>4. /\ tokens \in Int /\ tokens <= Capacity
      /\ \A first \in Passed(log, user) : tokens <= Room(log, user, first, at)
      /\ tokens = Capacity \/ \E first \in Passed(log, user) : tokens = Room(log, user, first, at)
  BY DEF Level
<1>5. \A first \in Passed(log, user) : Room(log, user, first, at) \in Int
  BY RoomIsInt
<1>6. tokens - Unit \in Int /\ tokens - Unit <= Capacity
  BY <1>4, CapacityIsNat
<1>7. \A first \in Passed(h, user) : tokens - Unit <= Room(h, user, first, at)
  <2>1. tokens - Unit <= Room(h, user, n, at)
    BY <1>3, <1>4, CapacityIsNat
  <2>2. \A first \in Passed(log, user) : tokens - Unit <= Room(h, user, first, at)
    BY <1>2, <1>4, <1>5, CapacityIsNat
  <2>3. QED
    BY <2>1, <2>2
<1>8. \E first \in Passed(h, user) : tokens - Unit = Room(h, user, first, at)
  <2>1. CASE tokens = Capacity
    BY <1>3, <2>1
  <2>2. CASE \E first \in Passed(log, user) : tokens = Room(log, user, first, at)
    BY <1>2, <2>2
  <2>3. QED
    BY <1>4, <2>1, <2>2
<1>9. QED
  BY <1>6, <1>7, <1>8 DEF Level

-----------------------------------------------------------------------------
LEMMA InvOrder ==
    ASSUME LimiterInv, NEW user \in Senders, NEW at \in Nat, Order(user, at)
    PROVE  LimiterInv'
<1> DEFINE n == Len(log) + 1
           bucket == Found(user, at)
<1>1. /\ log' \in Seq(OrderEntries) /\ DOMAIN log' = 1 .. n /\ n \in Nat
      /\ \A i \in 1 .. Len(log) : log'[i] = log[i]
      /\ log'[n] = [user |-> user, at |-> at, passed |-> Allows(bucket)]
      /\ DOMAIN buckets' = DOMAIN buckets \union {user}
      /\ buckets'[user] = Spent(bucket)
      /\ \A u \in DOMAIN buckets \ {user} : buckets'[u] = buckets[u]
  BY OrderEffect
<1>2. Len(log) \in Nat /\ DOMAIN log = 1 .. Len(log) /\ LogInv /\ log \in Seq(OrderEntries)
  BY LogIsTyped DEF LimiterInv, LogInv
<1>3. Allows(bucket) \in BOOLEAN /\ log'[n].passed = Allows(bucket) /\ log'[n].at = at
      /\ log'[n].user = user
  BY <1>1 DEF Allows
<1>4. /\ \A u : u # user => Passed(log', u) = Passed(log, u)
      /\ Passed(log', user) = IF Allows(bucket) THEN Passed(log, user) \union {n}
                              ELSE Passed(log, user)
      /\ \A u : Passed(log, u) \subseteq 1 .. Len(log)
      /\ \A u : \A i \in Passed(log, u) : log'[i] = log[i]
  <2>1. /\ log' \in Seq(OrderEntries) /\ DOMAIN log' = 1 .. Len(log) + 1
        /\ \A i \in 1 .. Len(log) : log'[i] = log[i]
        /\ log'[Len(log) + 1].user = user /\ log'[Len(log) + 1].passed \in BOOLEAN
    BY <1>1, <1>3
  <2>2. /\ \A u : u # user => Passed(log', u) = Passed(log, u)
        /\ Passed(log', user) = IF log'[Len(log) + 1].passed THEN Passed(log, user) \union {Len(log) + 1}
                                ELSE Passed(log, user)
        /\ \A u : Passed(log, u) \subseteq 1 .. Len(log)
    <3>1. log \in Seq(OrderEntries)
      BY <1>2
    <3> HIDE DEF bucket, n
    <3>2. QED
      BY ONLY <2>1, <3>1, PassedAfter
  <2>3. \A u : \A i \in Passed(log, u) : log'[i] = log[i]
    <3>1. \A u : \A i \in Passed(log, u) : i \in 1 .. Len(log)
      BY <2>2
    <3>2. QED
      BY <1>1, <3>1
  <2>4. Passed(log', user) = IF Allows(bucket) THEN Passed(log, user) \union {n}
                             ELSE Passed(log, user)
    <3>1. log'[Len(log) + 1].passed = Allows(bucket)
      BY <1>3
    <3> HIDE DEF bucket
    <3>2. QED
      BY <2>2, <3>1
  <2>5. QED
    BY <2>2, <2>3, <2>4
<1>5. /\ bucket = [tokens |-> bucket.tokens, last |-> at]
      /\ Level(log, user, bucket.tokens, at)
  <2>1. \A i \in DOMAIN log : log[i].at <= at
    BY DEF Order
  <2>2. QED
    BY <2>1, RefillKeepsLevel
<1>6. LogInv'
  BY <1>1, <1>4 DEF LimiterInv, LogInv
<1>7. BucketInv'
  <2> SUFFICES ASSUME NEW u \in DOMAIN buckets'
               PROVE  /\ buckets'[u].last \in Nat
                      /\ \E i \in DOMAIN log' : buckets'[u].last = log'[i].at
                      /\ Level(log', u, buckets'[u].tokens, buckets'[u].last)
    BY DEF BucketInv
  <2>1. CASE u # user
    <3>1. /\ buckets'[u] = buckets[u] /\ buckets[u].last \in Nat
          /\ \E i \in DOMAIN log : buckets[u].last = log[i].at
          /\ Level(log, u, buckets[u].tokens, buckets[u].last)
      BY <1>1, <2>1 DEF LimiterInv, BucketInv
    <3>2. Level(log', u, buckets[u].tokens, buckets[u].last)
      BY <1>4, <2>1, <3>1, RoomUnmoved
    <3>3. \E i \in DOMAIN log' : buckets[u].last = log'[i].at
      BY <1>1, <1>2, <3>1
    <3>4. QED
      BY <3>1, <3>2, <3>3
  <2>2. CASE u = user /\ ~Allows(bucket)
    <3>1. buckets'[u] = bucket /\ bucket.last = at
      BY <1>1, <1>5, <2>2 DEF Spent
    <3>2. Level(log', u, bucket.tokens, at)
      BY <1>4, <1>5, <2>2, RoomUnmoved
    <3>3. QED
      BY <1>1, <1>3, <3>1, <3>2
  <2>3. CASE u = user /\ Allows(bucket)
    <3>1. buckets'[u].last = at /\ buckets'[u].tokens = bucket.tokens - Unit
      <4>1. buckets'[u] = [bucket EXCEPT !.tokens = bucket.tokens - Unit]
        BY <1>1, <2>3 DEF Spent
      <4>2. QED
        BY <1>5, <4>1
    <3>2. Level(log', u, bucket.tokens - Unit, at)
      BY <1>2, <1>3, <1>4, <1>5, <2>3, SpendKeepsLevel
    <3>3. QED
      BY <1>1, <1>3, <3>1, <3>2
  <2>4. QED
    BY <2>1, <2>2, <2>3
<1>8. LimiterIsExact'
  <2> SUFFICES ASSUME NEW m \in 1 .. n
               PROVE  log'[m].passed = RoomFor(m)'
    BY <1>1 DEF LimiterIsExact
  <2>1. CASE m # n
    <3>1. m \in 1 .. Len(log) /\ \A i \in 1 .. m - 1 : i \in 1 .. Len(log)
      BY <1>2, <2>1
    <3>2. log'[m] = log[m] /\ \A i \in 1 .. m - 1 : log'[i] = log[i]
      BY <1>1, <3>1
    <3>3. Earlier(m)' = Earlier(m)
      BY <3>2 DEF Earlier
    <3>4. \A first \in Earlier(m) : log'[first] = log[first]
      BY <3>2 DEF Earlier
    <3>5. RoomFor(m)' = RoomFor(m)
      BY <3>2, <3>3, <3>4 DEF RoomFor, Capacity
    <3>6. log[m].passed = RoomFor(m)
      BY <1>2, <3>1 DEF LimiterInv, LimiterIsExact
    <3>7. QED
      BY <3>2, <3>5, <3>6
  <2>2. CASE m = n
    <3>1. Earlier(m)' = Passed(log, user)
      <4>1. m - 1 = Len(log) /\ log'[m].user = user
        BY <1>1, <1>2, <2>2
      <4>2. Earlier(m)' = {i \in 1 .. m - 1 : log'[i].user = log'[m].user /\ log'[i].passed}
        BY DEF Earlier
      <4>3. Passed(log, user) = {i \in 1 .. Len(log) : log[i].user = user /\ log[i].passed}
        BY <1>2 DEF Passed
      <4>4. QED
        BY <1>1, <4>1, <4>2, <4>3
    <3>2. RoomFor(m)' <=>
             \A first \in Passed(log, user) :
                (Cardinality({i \in Passed(log, user) : i >= first}) + 1) * Unit
                   <= Capacity + (log'[m].at - log'[first].at)
      BY <3>1 DEF RoomFor, Capacity
    <3>3. RoomFor(m)' <=>
             \A first \in Passed(log, user) :
                (Cardinality(Since(log, user, first)) + 1) * Unit
                   <= Capacity + (at - log[first].at)
      <4>1. \A first \in Passed(log, user) :
               /\ {i \in Passed(log, user) : i >= first} = Since(log, user, first)
               /\ log'[first].at = log[first].at /\ log'[m].at = at
        BY <1>3, <1>4, <2>2 DEF Since
      <4>2. QED
        BY <3>2, <4>1
    <3>4. bucket.tokens >= Unit <=> RoomFor(m)'
      BY <1>2, <1>5, <3>3, LevelDecides
    <3>5. log'[m].passed = (bucket.tokens >= Unit)
      BY <1>3, <2>2 DEF Allows
    <3>6. RoomFor(m)' \in BOOLEAN
      BY DEF RoomFor
    <3>7. QED
      BY <3>4, <3>5, <3>6
  <2>3. QED
    BY <2>1, <2>2
<1>9. QED
  BY <1>6, <1>7, <1>8 DEF LimiterInv

-----------------------------------------------------------------------------
(* Inductive: a bucket holds the least of a full one and what each window   *)
(* leaves, so that comparing it with one token compares all the windows.    *)
THEOREM BucketsKeepTheWindows == LimiterSpec => []LimiterInv
<1>1. Fresh => LimiterInv
  BY DEF Fresh, LimiterInv, LogInv, BucketInv, LimiterIsExact, Passed
<1>2. LimiterInv /\ [Limit]_limiter => LimiterInv'
  <2> SUFFICES ASSUME LimiterInv, [Limit]_limiter PROVE LimiterInv'
    OBVIOUS
  <2>1. CASE Limit
    <3>1. PICK user \in Senders, at \in 0 .. MaxTick : Order(user, at)
      BY <2>1 DEF Limit
    <3>2. at \in Nat
      BY RateAssumption
    <3>3. QED
      BY <3>1, <3>2, InvOrder
  <2>2. CASE UNCHANGED limiter
    <3>1. buckets' = buckets /\ log' = log
      BY <2>2 DEF limiter
    <3>2. LogInv' /\ BucketInv'
      BY <3>1 DEF LimiterInv, LogInv, BucketInv
    <3>3. \A m : RoomFor(m)' = RoomFor(m)
      BY <3>1 DEF RoomFor, Earlier, Capacity
    <3>4. LimiterIsExact'
      BY <3>1, <3>3 DEF LimiterInv, LimiterIsExact
    <3>5. QED
      BY <3>2, <3>4 DEF LimiterInv
  <2>3. QED
    BY <2>1, <2>2
<1>3. QED
  BY <1>1, <1>2, PTL DEF LimiterSpec

\* An order is let through exactly when no window of the user's orders that ends
\* with it would hold more than a burst and what was refilled (ratelimit.py:13-17).
THEOREM LimitIsTheWindow == LimiterSpec => []LimiterIsExact
<1>1. LimiterInv => LimiterIsExact
  BY DEF LimiterInv
<1>2. QED
  BY <1>1, BucketsKeepTheWindows, PTL
=============================================================================
