-------------------------------- MODULE Coupons --------------------------------
(***************************************************************************)
(* Checkouts that pay with a coupon or a discount: validate_coupon and     *)
(* checkout (src/src/subscription/service.rs), the invoice                 *)
(* (src/src/subscription/invoice.rs), the payment provider's client        *)
(* (src/src/subscription/paddle.rs), and the admins who change the coupon, *)
(* the discount and the tax meanwhile (src/src/admin/service.rs).  One     *)
(* coupon, its discount and one country.                                   *)
(*                                                                         *)
(* Amounts are in cents, rates and values of discounts in 1/10000, and a   *)
(* product of the two in 1/10000 of a cent.                                *)
(***************************************************************************)
EXTENDS Integers, FiniteSets

CONSTANTS
  Buyers,       \* checkouts in flight, of different workspaces
  Coupon,       \* the coupon's code
  Prices,       \* PRO_BASE_PRICE, TEAMS_BASE_PRICE: 9900 and 19900
  Terms,        \* discounts: <<type, value>>
  Rates,        \* rates of the tax
  Caps,         \* values of max_uses
  SellTime,     \* bound of the clock
  EditBound,    \* bound: changes by admins
  CheckoutBound \* bound: checkouts

ASSUME CouponsAssumption ==
  /\ Prices \cup Rates \cup Caps \cup {SellTime, EditBound, CheckoutBound} \subseteq Nat
  /\ \E m \in Caps : \A n \in Caps : n <= m
  /\ IsFiniteSet(Buyers) /\ Buyers # {}
  /\ Terms \subseteq {"percentage", "flat"} \X Int

VARIABLES
  coupon,    \* coupon_codes: active, max, used, from, until
  discount,  \* discounts: terms, active
  tax,       \* tax_rates: rate, active
  sale,      \* the task of each checkout
  sold,      \* history: checkouts committed with the coupon
  edits, checkouts, today

sellVars == <<coupon, discount, tax, sale, sold, edits, checkouts, today>>
-----------------------------------------------------------------------------
(* The invoice                                                                  *)

One == 10000

\* Mutant: halves are rounded up.
Round2_HalfUp(x) == (x + One \div 2) \div One

\* MidpointNearestEven
Round2(x) ==
  LET q == x \div One
      r == 2 * (x % One)
  IN IF r < One \/ (r = One /\ q % 2 = 0) THEN q ELSE q + 1

ClampDiscount(d, base) == IF d < 0 THEN 0 ELSE IF d > base THEN base ELSE d

\* In 1/10000 of a cent; no terms: no discount
ApplyDiscount(price, terms) ==
  IF terms = <<>> THEN 0
  ELSE ClampDiscount(IF terms[1] = "percentage" THEN price * terms[2] ELSE terms[2] * 100,
                     price * One)

Invoice(price, terms, rate) ==
  LET cut == ApplyDiscount(price, terms)
      subtotal == Round2(price * One - cut)
      due == Round2(subtotal * rate)
  IN [price |-> price, discount |-> Round2(cut), subtotal |-> subtotal, tax |-> due,
      total |-> subtotal + due]
-----------------------------------------------------------------------------
NoSale == [pc |-> "idle", code |-> FALSE, price |-> 0, terms |-> <<>>, invoice |-> <<>>, value |-> 0]

CouponInit ==
  /\ \E m \in Caps, from \in 0..SellTime, until \in 0..SellTime :
       coupon = [active |-> TRUE, max |-> m, used |-> 0, from |-> from, until |-> until]
  /\ \E d \in Terms : discount = [terms |-> d, active |-> TRUE]
  /\ \E r \in Rates : tax = [rate |-> r, active |-> TRUE]
  /\ sale = [b \in Buyers |-> NoSale] /\ sold = 0 /\ edits = 0 /\ checkouts = 0 /\ today = 0

Moves(b, next) ==
  sale' = [sale EXCEPT ![b] = next] /\ UNCHANGED <<discount, tax, edits, today>>

Begins(b, next) ==
  /\ sale[b].pc = "idle" /\ checkouts < CheckoutBound /\ checkouts' = checkouts + 1
  /\ Moves(b, next) /\ UNCHANGED <<coupon, sold>>

\* Mutant: the last use can be had twice.
ValidateCoupon_Inclusive(b, price) ==
  /\ coupon.active /\ coupon.from <= today /\ coupon.until > today /\ coupon.used <= coupon.max
  /\ Begins(b, [NoSale EXCEPT !.pc = "discount", !.code = TRUE, !.price = price])

ValidateCoupon(b, price) ==
  /\ coupon.active /\ coupon.from <= today /\ coupon.until > today /\ coupon.used < coupon.max
  /\ Begins(b, [NoSale EXCEPT !.pc = "discount", !.code = TRUE, !.price = price])

\* A discount_id, or neither
StartCheckout(b, price) ==
  \E pc \in {"discount", "tax"} : Begins(b, [NoSale EXCEPT !.pc = pc, !.price = price])

FetchDiscount(b) ==
  /\ sale[b].pc = "discount" /\ discount.active
  /\ Moves(b, [sale[b] EXCEPT !.pc = "tax", !.terms = discount.terms])
  /\ UNCHANGED <<coupon, sold, checkouts>>

\* Without a country or an active rate there is no tax.
ComputeInvoice(b) ==
  /\ sale[b].pc = "tax"
  /\ \E rate \in {0} \cup (IF tax.active THEN {tax.rate} ELSE {}) :
       Moves(b, [sale[b] EXCEPT !.pc = "update", !.terms = <<>>, !.price = 0,
                                !.invoice = Invoice(sale[b].price, sale[b].terms, rate)])
  /\ UNCHANGED <<coupon, sold, checkouts>>

\* The subscription becomes pending_payment (module Billing), and the coupon's row is
\* locked and incremented until the commit.
UseCoupon(b) ==
  /\ sale[b].pc = "update"
  /\ sale[b].code => \A o \in Buyers : sale[o].pc = "commit" => ~sale[o].code
  /\ Moves(b, [sale[b] EXCEPT !.pc = "commit", !.value = IF sale[b].code THEN coupon.used + 1 ELSE 0])
  /\ UNCHANGED <<coupon, sold, checkouts>>

CommitCheckout(b) ==
  /\ sale[b].pc = "commit" /\ Moves(b, [sale[b] EXCEPT !.pc = "pay"])
  /\ IF sale[b].code THEN coupon' = [coupon EXCEPT !.used = sale[b].value] /\ sold' = sold + 1
     ELSE UNCHANGED <<coupon, sold>>
  /\ UNCHANGED checkouts

\* create_checkout_transaction: a URL, or an error that undoes nothing
CreateTransaction(b) ==
  sale[b].pc = "pay" /\ Moves(b, NoSale) /\ UNCHANGED <<coupon, sold, checkouts>>

CheckoutFails(b) ==
  /\ sale[b].pc \notin {"idle", "pay"} /\ Moves(b, NoSale) /\ UNCHANGED <<coupon, sold, checkouts>>
-----------------------------------------------------------------------------
\* COALESCE: a field that is not given stays.  The row waits for a checkout's lock.
UpdateCoupon(b, m, until) ==
  /\ edits < EditBound /\ edits' = edits + 1
  /\ \A o \in Buyers : sale[o].pc = "commit" => ~sale[o].code
  /\ coupon' = [coupon EXCEPT !.active = b, !.max = m, !.until = until]
  /\ UNCHANGED <<discount, tax, sale, sold, checkouts, today>>

UpdateDiscount(d, b) ==
  /\ edits < EditBound /\ edits' = edits + 1 /\ discount' = [terms |-> d, active |-> b]
  /\ UNCHANGED <<coupon, tax, sale, sold, checkouts, today>>

UpdateTaxRate(r, b) ==
  /\ edits < EditBound /\ edits' = edits + 1 /\ tax' = [rate |-> r, active |-> b]
  /\ UNCHANGED <<coupon, discount, sale, sold, checkouts, today>>

DayPasses ==
  /\ today < SellTime /\ today' = today + 1
  /\ UNCHANGED <<coupon, discount, tax, sale, sold, edits, checkouts>>

CouponNext ==
  \/ \E b \in Buyers :
       \/ \E price \in Prices : ValidateCoupon(b, price) \/ StartCheckout(b, price)
       \/ FetchDiscount(b) \/ ComputeInvoice(b) \/ UseCoupon(b) \/ CommitCheckout(b)
       \/ CreateTransaction(b) \/ CheckoutFails(b)
  \/ \E a \in BOOLEAN :
       \/ \E m \in Caps, until \in 0..SellTime : UpdateCoupon(a, m, until)
       \/ \E d \in Terms : UpdateDiscount(d, a)
       \/ \E r \in Rates : UpdateTaxRate(r, a)
  \/ DayPasses

CouponSpec == CouponInit /\ [][CouponNext]_sellVars
-----------------------------------------------------------------------------
CouponTypeOK ==
  /\ coupon \in [active: BOOLEAN, max: Caps, used: Nat, from: 0..SellTime, until: 0..SellTime]
  /\ discount \in [terms: Terms, active: BOOLEAN] /\ tax \in [rate: Rates, active: BOOLEAN]
  /\ \A b \in Buyers :
       /\ sale[b].pc \in {"idle", "discount", "tax", "update", "commit", "pay"}
       /\ sale[b].terms \in Terms \cup {<<>>} /\ sale[b].price \in Prices \cup {0}
       /\ sale[b].code \in BOOLEAN /\ sale[b].value \in Nat
  /\ {sold, edits, checkouts, today} \subseteq Nat

CapMax == CHOOSE m \in Caps : \A n \in Caps : n <= m

Redeeming == {b \in Buyers : sale[b].code /\ sale[b].pc # "pay"}

Redemptions == INSTANCE CheckThenAct WITH
  Resources <- {Coupon}, Actors <- Buyers, Capacity <- [c \in {Coupon} |-> CapMax],
  used <- [c \in {Coupon} |-> coupon.used], checked <- [c \in {Coupon} |-> Redeeming]

\* Every checkout that commits with the coupon is counted, also when checkouts overlap
\* and when an admin changes the coupon in between.
CouponUsesCounted == coupon.used = sold

\* The coupon is a limit that is checked first and used up later: it is overrun by at
\* most the checkouts that run beside the last one that found a use left.
CouponImplements == Redemptions!Spec

\* Whatever discount and tax an admin has set, an invoice adds up to the cent: the
\* discount and what is left of the price are the price, the tax comes on top, and no
\* amount is negative.  Halves rounded to even only fit because the prices are even.
InvoiceAddsUp ==
  \A b \in Buyers : sale[b].invoice # <<>> =>
    LET i == sale[b].invoice
    IN /\ i.discount + i.subtotal = i.price /\ i.subtotal + i.tax = i.total
       /\ {i.discount, i.subtotal, i.tax, i.total} \subseteq Nat
=============================================================================
