--------------------------- MODULE QuoteComparison ---------------------------
(***************************************************************************)
(* The quotes of one round as its suppliers submit and correct them, and   *)
(* what a comparison of them would say.  RfqExecution models the protocol  *)
(* around it; here are the amounts, the eligibility and the ranking.       *)
(***************************************************************************)
EXTENDS QuoteScoring, Sequences

CONSTANTS
  Supplier,      \* ids, in the order that breaks ties
  Submission,    \* what a supplier may submit
  Requirements,  \* the request's requirements
  Weights,       \* the policy's ranking weights
  MinimumValid,  \* minimum_valid_quotes of the policy
  MaxTime        \* bound on the clock

ASSUME WeightsAssumption ==
  /\ \A c \in DOMAIN Weights : Weights[c] \in 0..100
  /\ MapThenSumSet(LAMBDA c : Weights[c], DOMAIN Weights) = 100

\* The request's budget is an amount, when there is one.
ASSUME RequirementsAssumption == Requirements.maximumTotal \in Nat \cup {Unknown}

\* Ids are compared.
ASSUME SupplierAssumption == Supplier \subseteq Nat

\* The form takes amounts in cents, a status for each diet and a score of 0 to 5.
ASSUME SubmissionAssumption ==
  Submission \subseteq
    [subtotal : Nat, deliveryFee : Nat, otherFee : Nat, total : Nat, validUntil : Int,
     available : BOOLEAN, supplierConfirmation : BOOLEAN, blank : SUBSET STRING,
     invoice : BOOLEAN \cup {Unknown}, noPlastic : BOOLEAN \cup {Unknown},
     diet : [{"vegetarian", "vegan", "gluten_free"} -> STRING], items : SUBSET STRING,
     responseMinutes : Nat, sustainability : 0..5, history : 0..5]

VARIABLES
  now,       \* the clock
  quotes,    \* the current quote of each supplier, or NoQuote
  ranking    \* the suppliers in the order of the latest comparison, or empty

vars == <<now, quotes, ranking>>

NoQuote == [status |-> "NONE"]

Submitted == {quotes[s] : s \in {t \in Supplier : quotes[t] # NoQuote}}

Init ==
  /\ now = 0
  /\ quotes = [s \in Supplier |-> NoQuote]
  /\ ranking = << >>

\* Expired quotes stay, with no claim to be chosen.
Outdated(q) == [q EXCEPT !.status = "EXPIRED", !.eligible = FALSE]

Expire(q) ==
  IF q # NoQuote /\ q.status # "EXPIRED" /\ Expired(q, now) THEN Outdated(q) ELSE q

\* The quote made of supplier s's submission.
QuoteOf(s, sub) ==
  LET fit == EligibleFor(sub, Requirements)
  IN  [f \in DOMAIN sub \cup {"supplier", "status", "eligible", "perPerson"} |->
         CASE f = "supplier" -> s
           [] f = "status" -> IF fit THEN "FINAL" ELSE "NEEDS_CLARIFICATION"
           [] f = "eligible" -> fit
           [] f = "perPerson" -> PricePerPerson(sub, Requirements)
           [] OTHER -> sub[f]]

\* A submission that is not refused replaces the supplier's quote.
Submit(s, sub) ==
  /\ ~Refused(sub, now)
  /\ quotes' = [quotes EXCEPT ![s] = QuoteOf(s, sub)]
  /\ quotes' # quotes
  /\ ranking' = << >>
  /\ UNCHANGED now

\* The comparison ranks every quote of the round, the best first.
Compare ==
  LET current == [s \in Supplier |-> Expire(quotes[s])]
      quoted  == {s \in Supplier : current[s] # NoQuote}
      lowest  == LowestTotal({current[s] : s \in quoted})
  IN  /\ Cardinality({s \in quoted : current[s].eligible}) >= MinimumValid
      /\ quotes' = current
      /\ ranking' \in [1..Cardinality(quoted) -> quoted]
      /\ \A i, j \in DOMAIN ranking' :
           i < j => Precedes(current[ranking'[i]], current[ranking'[j]], Weights, lowest)
      /\ UNCHANGED now

Tick ==
  /\ now < MaxTime
  /\ now' = now + 1
  /\ UNCHANGED <<quotes, ranking>>

Next == (\E s \in Supplier, sub \in Submission : Submit(s, sub)) \/ Compare \/ Tick

Spec == Init /\ [][Next]_vars

-----------------------------------------------------------------------------
\* Properties.

Lowest == LowestTotal(Submitted)

\* Quote a is at least as good as b in every answer, and cheaper.
Dominates(a, b) ==
  /\ a.eligible /\ b.eligible /\ a.total < b.total
  /\ \A c \in DOMAIN Weights \ {"price"} :
       NormalizedScore(c, a, 0) >= NormalizedScore(c, b, 0)

\* No quote stands before one that is cheaper and as good in every other
\* criterion, even where rounding makes their scores equal.
CheaperEqualStandsFirst ==
  \A i, j \in DOMAIN ranking :
    Dominates(quotes[ranking[i]], quotes[ranking[j]]) => i < j

\* In a step, supplier s resubmits the same offer at a higher price.
RaisesPrice(s) ==
  LET old == quotes[s]
      new == quotes'[s]
  IN  /\ NoQuote \notin {old, new} /\ old.status # "EXPIRED" /\ new.total > old.total
      /\ \A f \in DOMAIN old \ {"subtotal", "deliveryFee", "otherFee", "total", "perPerson",
                                "eligible", "status"} : new[f] = old[f]

\* Supplier t, who stands before s, still does after the step.
KeepsAhead(t, s) ==
  quotes[t] # NoQuote /\ Precedes(quotes[t], quotes[s], Weights, Lowest)
    => Precedes(quotes[t], quotes'[s], Weights, Lowest')

\* A supplier never gains by asking for more: nobody whom it stood behind falls
\* behind it.
RaisingThePriceNeverHelps ==
  [][\A s \in Supplier :
       RaisesPrice(s) => \A t \in Supplier \ {s} : KeepsAhead(t, s)]_vars

-----------------------------------------------------------------------------
(* What makes these provable *)

\* A quote is what the form it came by makes of it, until it expires.
QuotesAreOfSubmissions ==
  /\ DOMAIN quotes = Supplier
  /\ \A s \in Supplier : quotes[s] # NoQuote =>
       \E sub \in Submission : /\ sub.total = QuoteTotal(sub)
                              /\ quotes[s] \in {QuoteOf(s, sub), Outdated(QuoteOf(s, sub))}

\* A ranking that is shown is the order of the quotes as they are.
RankingIsCurrent ==
  /\ DOMAIN ranking \subseteq Nat
  /\ \A i \in DOMAIN ranking : ranking[i] \in Supplier /\ quotes[ranking[i]] # NoQuote
  /\ \A i, j \in DOMAIN ranking :
       i < j => Precedes(quotes[ranking[i]], quotes[ranking[j]], Weights, Lowest)

ComparisonInv == QuotesAreOfSubmissions /\ RankingIsCurrent
=============================================================================
