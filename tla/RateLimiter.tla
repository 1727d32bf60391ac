----------------------------- MODULE RateLimiter -----------------------------
(***************************************************************************)
(* gateway/ratelimit.py: a token bucket per user, refilled when it is read. *)
(*                                                                         *)
(* Time passes in ticks, Unit of them for one token, and a bucket counts   *)
(* its tokens in the same fractions, so that a refill is exact.            *)
(***************************************************************************)
EXTENDS Integers, Sequences, FiniteSets

CONSTANTS Rate,      \* rate_per_second: what a full bucket holds
          Unit,      \* ticks until one more token exists
          Senders, MaxOrders, MaxTick  \* bounds: users, orders, and the clock

ASSUME RateAssumption == Rate \in Nat \ {0} /\ Unit \in Nat \ {0} /\ MaxTick \in Nat

VARIABLES buckets,   \* _buckets: user -> [tokens, last]
          log        \* the orders of the process's life: [user, at, passed]

limiter == <<buckets, log>>

Fresh == buckets = <<>> /\ log = <<>>

Capacity == Rate * Unit

Least(a, b) == IF a <= b THEN a ELSE b

\* Fault: whole tokens only, and the fraction is forgotten.
RefilledWhole(bucket, time) ==
    [tokens |-> Least(Capacity, bucket.tokens + ((time - bucket.last) \div Unit) * Unit),
     last |-> time]

Refilled(bucket, time) ==
    [tokens |-> Least(Capacity, bucket.tokens + (time - bucket.last)), last |-> time]

\* A user's first order finds a full bucket.
Found(user, time) ==
    IF user \in DOMAIN buckets THEN Refilled(buckets[user], time)
    ELSE [tokens |-> Capacity, last |-> time]

Allows(bucket) == bucket.tokens >= Unit

\* allow(): a refused order spends nothing.
Spent(bucket) == IF Allows(bucket) THEN [bucket EXCEPT !.tokens = @ - Unit] ELSE bucket

\* POST /orders: an order of this user reaches the limiter at that time, and is
\* let through or answered 429.
Order(user, at) ==
    /\ Len(log) < MaxOrders
    /\ \A i \in DOMAIN log : log[i].at <= at
    /\ LET bucket == Found(user, at)
       IN  /\ buckets' = [u \in DOMAIN buckets \union {user} |->
                          IF u = user THEN Spent(bucket) ELSE buckets[u]]
           /\ log' = Append(log, [user |-> user, at |-> at, passed |-> Allows(bucket)])

Limit == \E user \in Senders, at \in 0..MaxTick : Order(user, at)

LimiterSpec == Fresh /\ [][Limit]_limiter

-----------------------------------------------------------------------------
(***************************************************************************)
(* The bucket lets an order through exactly when every window that ends    *)
(* with it has room: as many orders of that user as a full bucket holds,   *)
(* and one for each Unit that went by (ratelimit.py:13-17).                *)
(***************************************************************************)
Earlier(n) == {i \in 1 .. n - 1 : log[i].user = log[n].user /\ log[i].passed}

RoomFor(n) ==
    \A first \in Earlier(n) :
        (Cardinality({i \in Earlier(n) : i >= first}) + 1) * Unit
            <= Capacity + (log[n].at - log[first].at)

LimiterIsExact == \A n \in DOMAIN log : log[n].passed = RoomFor(n)
=============================================================================
