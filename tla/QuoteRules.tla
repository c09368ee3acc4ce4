----------------------------- MODULE QuoteRules -----------------------------
(***************************************************************************)
(* Whether a quote is acceptable and what it costs (modules/quotes/rules): *)
(* a submission is refused for its form, its total or its age; one that    *)
(* misses a requirement is kept and marked ineligible.                     *)
(*                                                                         *)
(* A submission s has amounts in cents, s.validUntil on the clock, answers *)
(* TRUE, FALSE or Unknown, s.diet with a status for each diet, and s.blank,*)
(* the required fields that are missing or empty.  Requirements r have     *)
(* r.diets, the diets somebody asked for, and r.maximumTotal or Unknown.   *)
(***************************************************************************)
EXTENDS Integers

CONSTANT Unknown

\* Integer division, halves rounded up.
DivideHalfUp(n, d) == n \div d + (IF 2 * (n % d) >= d THEN 1 ELSE 0)

QuoteTotal(s) == s.subtotal + s.deliveryFee + s.otherFee

PricePerPerson(s, r) == DivideHalfUp(QuoteTotal(s), r.people)

Complete(s) == s.blank = {} /\ s.supplierConfirmation = TRUE

BudgetMet(s, r) == r.maximumTotal = Unknown \/ QuoteTotal(s) <= r.maximumTotal

\* An invoice that is not known to be available counts as refused.
InvoiceMet(s, r) == r.invoice => s.invoice = TRUE

DietsMet(s, r) == \A d \in r.diets : s.diet[d] = "confirmed"

PlasticMet(s, r) == r.noPlastic => s.noPlastic = TRUE

EligibleFor(s, r) ==
  /\ s.available = TRUE
  /\ BudgetMet(s, r)
  /\ InvoiceMet(s, r)
  /\ DietsMet(s, r)
  /\ PlasticMet(s, r)

Expired(s, now) == s.validUntil <= now

\* A submission is refused for its form, its total or its age.
Refused(s, now) == ~Complete(s) \/ s.total # QuoteTotal(s) \/ Expired(s, now)
=============================================================================
