----------------------------- MODULE MCAccounts -----------------------------
(***************************************************************************)
(* Two calls race for one name, which is a designated one, while a third   *)
(* asks for another.                                                       *)
(*                                                                         *)
(* The limiter shares no state with accounts: a behaviour is of one or of  *)
(* the other, so that the run explores their states side by side and not   *)
(* their product.  A bucket of two tokens, each of two ticks.              *)
(***************************************************************************)
EXTENDS Accounts, RateLimiter

CONSTANTS c1, c2, c3

MCCalls == {c1, c2, c3}
MCNameOf == [c \in MCCalls |-> IF c = c3 THEN "bob" ELSE "ann"]

NobodyCame == \A c \in Calls : pc[c] = "new"

MCNext ==
    \/ Next /\ Fresh /\ UNCHANGED limiter
    \/ NobodyCame /\ faults = 0 /\ Limit /\ UNCHANGED vars

MCInit == Init /\ Fresh

MCSpec == MCInit /\ [][MCNext]_<<vars, limiter>> /\ Fairness
=============================================================================
