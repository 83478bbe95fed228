------------------------------- MODULE MCLimits --------------------------------
(***************************************************************************)
(* The limits of the service.  The components share no state; a behaviour  *)
(* is of one of them, chosen at the start, so that their states add.       *)
(***************************************************************************)
EXTENDS TeamSeats, Coupons, Admins, Lockout, RateLimit, TLC

CONSTANTS owner, p1, p2, p3, i1, i2, j1, j2, b1, b2, f1, f2, k1, k2, n1, n2, t1, t2

VARIABLE side

Uses21 == (i1 :> 2) @@ (i2 :> 1)
Invitees == (n1 :> k1) @@ (n2 :> k1)
PriceList == {9900}

\* Half a percent has halves of a cent, 200.00 is more than the price, -1 is below zero.
TermList == {<<"percentage", 50>>, <<"flat", 2000000>>, <<"flat", -1>>}

LimitsVars == <<seatVars, sellVars, adminVars, lockVars, rateVars, side>>

OfSeats(A) == side = "seats" /\ A /\ UNCHANGED <<sellVars, adminVars, lockVars, rateVars, side>>
OfCoupons(A) == side = "coupons" /\ A /\ UNCHANGED <<seatVars, adminVars, lockVars, rateVars, side>>
OfAdmins(A) == side = "admins" /\ A /\ UNCHANGED <<seatVars, sellVars, lockVars, rateVars, side>>
OfLockout(A) == side = "lockout" /\ A /\ UNCHANGED <<seatVars, sellVars, adminVars, rateVars, side>>
OfRate(A) == side = "rate" /\ A /\ UNCHANGED <<seatVars, sellVars, adminVars, lockVars, side>>

LimitsInit ==
  /\ side \in {"seats", "coupons", "admins", "lockout", "rate"}
  /\ SeatInit /\ AdminInit /\ LockoutInit /\ RateInit
  /\ CouponInit
  /\ side # "coupons" =>
       /\ coupon.from = 0 /\ coupon.until = 0 /\ \A m \in Caps : coupon.max <= m
       /\ discount.terms = <<"flat", -1>> /\ \A r \in Rates : tax.rate <= r

LimitsNext ==
  \/ OfSeats(SeatNext) \/ OfCoupons(CouponNext) \/ OfAdmins(AdminNext)
  \/ OfLockout(LockoutNext) \/ OfRate(RateNext)

LimitsSpec == LimitsInit /\ [][LimitsNext]_LimitsVars

\* The types of the five components' states.
LimitsTypeOK == SeatTypeOK /\ CouponTypeOK /\ AdminTypeOK /\ LockoutTypeOK /\ RateTypeOK

\* Every use of an invite and of a coupon is counted, however joins and checkouts overlap:
\* the counter that refuses further uses is the number of those that were committed.
EveryUseCounted == UsesCounted /\ CouponUsesCounted

Symmetry == Permutations({p1, p2, p3}) \cup Permutations({j1, j2}) \cup Permutations({b1, b2})
=============================================================================
