------------------------------- MODULE MCBots -------------------------------
(***************************************************************************)
(* A maker of one unit at a fair value of five ticks, so that a position   *)
(* of one or two units does what takes many at a large price: short, a     *)
(* signed division would round the other way; long, the spread obligation  *)
(* breaks, and two units push the bid below one tick and the ask down to   *)
(* it.  The skew alone moves the quotes across each other.  Four decisions *)
(* are two ticks that replace both sides, or more that replace one; one    *)
(* fault is a lost answer, a failed start-up read or a kill, while a 503   *)
(* may answer any request.                                                 *)
(***************************************************************************)
EXTENDS MarketMaker
=============================================================================
