---------------------------- MODULE QuoteScoring ----------------------------
(***************************************************************************)
(* The scores and the order of the quotes in a comparison                  *)
(* (modules/comparison/scoring.py), in basis points of integers.  A quote  *)
(* q is a record with its supplier, its total, whether it is eligible and  *)
(* the answers the criteria look at; weights are percentages per criterion.*)
(***************************************************************************)
EXTENDS QuoteRules, FiniteSets, FiniteSetsExt

MaxBasisPoints == 10000

StatusScore(status) ==
  CASE status = "confirmed" -> MaxBasisPoints
    [] status = "partial" -> 5000
    [] OTHER -> 0

\* The price relative to the lowest eligible total.
PriceScore(q, lowest) ==
  IF q.total = 0 THEN IF lowest = 0 THEN MaxBasisPoints ELSE 0
  ELSE Min({MaxBasisPoints, DivideHalfUp(lowest * MaxBasisPoints, q.total)})

\* Linear over the minutes of a day.
ResponseScore(minutes) ==
  Max({0, MaxBasisPoints - DivideHalfUp(minutes * MaxBasisPoints, 1440)})

AllOrNothing(condition) == IF condition THEN MaxBasisPoints ELSE 0

NormalizedScore(criterion, q, lowest) ==
  CASE criterion = "price" -> PriceScore(q, lowest)
    [] criterion = "restrictions" ->
         DivideHalfUp(StatusScore(q.diet["vegetarian"]) + StatusScore(q.diet["vegan"])
                        + StatusScore(q.diet["gluten_free"]), 3)
    [] criterion = "adequacy" -> AllOrNothing(q.items # {})
    [] criterion = "logistics" -> AllOrNothing(q.available = TRUE)
    [] criterion = "response" -> ResponseScore(q.responseMinutes)
    [] criterion \in {"sustainability", "history"} -> 2000 * q[criterion]
    [] criterion = "documentation" -> AllOrNothing(q.invoice = TRUE)
    [] OTHER -> 0

WeightedPoints(weight, normalized) == DivideHalfUp(weight * normalized, 100)

\* What a criterion adds, if the policy weighs it.
Points(criterion, q, weights, lowest) ==
  IF criterion \in DOMAIN weights
  THEN WeightedPoints(weights[criterion], NormalizedScore(criterion, q, lowest)) ELSE 0

\* The points of the criteria that have an evaluator.
BasePoints(q, weights, lowest) ==
  LET P(criterion) == Points(criterion, q, weights, lowest)
  IN  P("restrictions") + P("adequacy") + P("logistics") + P("response")
        + P("sustainability") + P("history") + P("documentation")

\* What an ineligible quote answers is shown, but earns nothing.
Score(q, weights, lowest) ==
  IF q.eligible
  THEN Points("price", q, weights, lowest) + BasePoints(q, weights, lowest) ELSE 0

\* The total the others are compared with.
LowestTotal(quotes) ==
  LET eligible == {q \in quotes : q.eligible}
  IN  Min({q.total : q \in IF eligible = {} THEN quotes ELSE eligible})

\* Mutant: the dearer of two quotes with one score comes first.
Precedes_Dearer(a, b, weights, lowest) ==
  LET x == Score(a, weights, lowest)
      y == Score(b, weights, lowest)
  IN  \/ a.eligible /\ ~b.eligible
      \/ /\ a.eligible = b.eligible
         /\ \/ x > y
            \/ x = y /\ a.total > b.total
            \/ x = y /\ a.total = b.total /\ a.supplier < b.supplier

\* Quote a stands before quote b: eligible first, then by score, total,
\* response time and supplier.
Precedes(a, b, weights, lowest) ==
  LET x == Score(a, weights, lowest)
      y == Score(b, weights, lowest)
      key(q) == <<q.total, q.responseMinutes, q.supplier>>
  IN  \/ a.eligible /\ ~b.eligible
      \/ a.eligible = b.eligible /\ x > y
      \/ /\ a.eligible = b.eligible /\ x = y
         /\ \E i \in 1..3 : /\ key(a)[i] < key(b)[i]
                            /\ \A j \in 1..(i - 1) : key(a)[j] = key(b)[j]
=============================================================================
