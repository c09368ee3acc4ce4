------------------------------ MODULE Sourcing ------------------------------
(***************************************************************************)
(* Who may be asked for a quote: the tri-state eligibility checks of a     *)
(* supplier's profile (modules/sourcing/eligibility.py) and the choice of  *)
(* recipients (selection.py).                                              *)
(*                                                                         *)
(* A profile c is what the directory returns: a field is None when the     *)
(* directory has no value, and c.missing names the fields it says are      *)
(* missing.  Spellings that the code identifies (accents, case, aliases,   *)
(* synonyms of "supported") are one value here.  Criteria q are what the   *)
(* request asks for; times are in the clock's ticks.                       *)
(***************************************************************************)
EXTENDS Integers, FiniteSets

CONSTANTS
  Unset,           \* a value the directory does not have
  MaxProfileAge    \* how long a confirmed profile counts as current

ASSUME MaxProfileAgeAssumption == MaxProfileAge \in Nat \ {0}

Outcome == {"PASS", "FAIL", "UNKNOWN"}

Decision == {"ELIGIBLE", "EXCLUDED", "NEEDS_REFRESH"}

\* Mutant: what is not known to be wrong passes.
OutcomeOf_Lenient(known, holds) == IF known /\ ~holds THEN "FAIL" ELSE "PASS"

\* The outcome of a check whose value is known or not.
OutcomeOf(known, holds) ==
  IF ~known THEN "UNKNOWN" ELSE IF holds THEN "PASS" ELSE "FAIL"

Has(c, field) == field \notin c.missing /\ c[field] # Unset

StatusCheck(c) == OutcomeOf(Has(c, "status"), c.status = "ACTIVE")

CategoryCheck(c, q) ==
  OutcomeOf("categories" \notin c.missing, q.category \in c.categories)

\* An entry for the city covers all of its districts; a request that names no
\* district needs one.
AreasFor(q) == {q.city} \cup ({q.district} \ {Unset})

RegionCheck(c, q) ==
  OutcomeOf("service_areas" \notin c.missing, AreasFor(q) \cap c.service_areas # {})

CapacityChecks(c, q) ==
  {OutcomeOf(Has(c, "minimum_people"), q.people_count >= c.minimum_people),
   OutcomeOf(Has(c, "maximum_people"), q.people_count <= c.maximum_people)}

LeadTimeCheck(c, q) ==
  IF q.maximum_lead_time_hours = Unset THEN "PASS"
  ELSE OutcomeOf(Has(c, "lead_time_hours"),
                 c.lead_time_hours <= q.maximum_lead_time_hours)

InvoiceCheck(c, q) ==
  IF ~q.invoice_required THEN "PASS"
  ELSE OutcomeOf(Has(c, "invoice_available"), c.invoice_available = TRUE)

\* A capability is "supported", "unsupported" or a text that says neither.
DietaryChecks(c, q) ==
  {OutcomeOf(/\ c.missing \cap {"dietary_capabilities", d} = {}
             /\ c.dietary[d] \in {"supported", "unsupported"},
             c.dietary[d] = "supported") : d \in q.diets}

TagChecks(c, q) ==
  {OutcomeOf("sustainability_tags" \notin c.missing,
             t \in c.sustainability_tags) : t \in q.tags}

\* Age alone never excludes: an old or future confirmation is to be refreshed.
FreshnessCheck(c, now) ==
  OutcomeOf(/\ Has(c, "last_confirmed_at")
            /\ now - c.last_confirmed_at \in 0..MaxProfileAge, TRUE)

RelevantFields(q) ==
  {"status", "categories", "service_areas", "minimum_people",
   "maximum_people", "last_confirmed_at"}
    \cup {f \in {"lead_time_hours"} : q.maximum_lead_time_hours # Unset}
    \cup {f \in {"invoice_available"} : q.invoice_required}
    \cup {f \in {"dietary_capabilities"} : q.diets # {}} \cup q.diets
    \cup {f \in {"sustainability_tags"} : q.tags # {}}

MissingFieldsCheck(c, q) ==
  OutcomeOf(c.missing \cap RelevantFields(q) = {}, TRUE)

DecisionFor(outcomes) ==
  IF "FAIL" \in outcomes THEN "EXCLUDED"
  ELSE IF "UNKNOWN" \in outcomes THEN "NEEDS_REFRESH" ELSE "ELIGIBLE"

\* The engine's verdict on profile c for criteria q at time now.
Evaluate(c, q, now) ==
  DecisionFor({StatusCheck(c), CategoryCheck(c, q), RegionCheck(c, q),
               LeadTimeCheck(c, q), InvoiceCheck(c, q), FreshnessCheck(c, now),
               MissingFieldsCheck(c, q)}
              \cup CapacityChecks(c, q) \cup DietaryChecks(c, q)
              \cup TagChecks(c, q))

\* Results are <<supplier, decision>> pairs; every one of s is favourable.
Unanimous(results, s) == {d \in Decision : <<s, d>> \in results} = {"ELIGIBLE"}

\* The first `limit` unanimously eligible suppliers, in the order of their ids.
SelectRecipients(results, limit) ==
  LET eligible == {s \in {r[1] : r \in results} : Unanimous(results, s)}
  IN  {s \in eligible : Cardinality({t \in eligible : t < s}) < limit}
=============================================================================
