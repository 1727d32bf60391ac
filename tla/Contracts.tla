----------------------------- MODULE Contracts -----------------------------
(***************************************************************************)
(* The records of the two streams: the classes generated from              *)
(* contracts/v1/schema.toml.                                               *)
(*                                                                         *)
(* A record is a TLA+ record whose field `kind' is the schema's record     *)
(* name.  The header's timestamp and version are dropped (every output     *)
(* copies its input's), and a record's sequence number is its position on  *)
(* the stream, as with_seq() stamps it on read.                            *)
(***************************************************************************)
EXTENDS Integers, Sequences

\* Tables: rows written over what is there, and one entry set.
Upsert(f, rows) == [x \in DOMAIN f \union DOMAIN rows |->
                       IF x \in DOMAIN rows THEN rows[x] ELSE f[x]]
Put(f, x, v) == Upsert(f, [y \in {x} |-> v])

Sides == {"BUY", "SELL"}
Tifs == {"GTC", "IOC"}
Opposite(side) == IF side = "BUY" THEN "SELL" ELSE "BUY"

\* ---------------------------------------------------------------- inbound
SubmitOrder(user, coid, sym, side, tif, price, qty) ==
    [kind |-> "SubmitOrder", user |-> user, coid |-> coid, sym |-> sym,
     side |-> side, tif |-> tif, price |-> price, qty |-> qty]

\* Every field in its bounds.  unpack() builds records that are not, too: it takes
\* any byte for a side or a tif, any integer for a price or a quantity.
WellFormed(r) == r.side \in Sides /\ r.tif \in Tifs /\ r.price > 0 /\ r.qty > 0

CancelOrder(user, coid, target) ==
    [kind |-> "CancelOrder", user |-> user, coid |-> coid, target |-> target]

CreateAccount(user) == [kind |-> "CreateAccount", user |-> user]

CreditCash(user, amount) ==
    [kind |-> "CreditCash", user |-> user, amount |-> amount]

ConfigureReplay == [kind |-> "ConfigureReplay"]

\* --------------------------------------------------------------- outbound
OrderAccepted(r, id) ==
    [kind |-> "OrderAccepted", id |-> id, user |-> r.user, coid |-> r.coid,
     sym |-> r.sym, side |-> r.side, tif |-> r.tif, price |-> r.price,
     qty |-> r.qty]

OrderRejected(r, reason) ==
    [kind |-> "OrderRejected", user |-> r.user, coid |-> r.coid,
     reason |-> reason]

\* maker and taker carry their order id, user and client order id.
Fill(maker, taker, price, qty, sym, aggressor) ==
    [kind |-> "Fill", maker |-> maker.id, taker |-> taker.id,
     makerUser |-> maker.user, takerUser |-> taker.user,
     price |-> price, qty |-> qty, sym |-> sym, aggressor |-> aggressor]

OrderCancelled(order, remaining, reason) ==
    [kind |-> "OrderCancelled", id |-> order.id, user |-> order.user,
     coid |-> order.coid, sym |-> order.sym, remaining |-> remaining,
     reason |-> reason]

\* The records the engine passes through.  The grant of an account is the same
\* for everybody, a parameter of the configuration.
AccountCreated(r) == [kind |-> "AccountCreated", user |-> r.user]

CashCredited(r) == [kind |-> "CashCredited", user |-> r.user, amount |-> r.amount]

ReplayConfigured(r) == [kind |-> "ReplayConfigured"]

Sequenced == {"CreateAccount", "CreditCash", "ConfigureReplay"}

Forwarded(r) ==
    CASE r.kind = "CreateAccount"   -> AccountCreated(r)
      [] r.kind = "CreditCash"      -> CashCredited(r)
      [] r.kind = "ConfigureReplay" -> ReplayConfigured(r)

(***************************************************************************)
(* runner.is_anchor: exactly one of these answers each inbound record.     *)
(***************************************************************************)
IsAnchor(r) ==
    \/ r.kind \in {"OrderAccepted", "OrderRejected", "AccountCreated",
                   "CashCredited", "ReplayConfigured"}
    \/ r.kind = "OrderCancelled" /\ r.reason = "USER_REQUESTED"
=============================================================================
