---------------------------- MODULE SupplierSearch ----------------------------
(***************************************************************************)
(* The supplier directory of the onboarding module in front of the         *)
(* eligibility engine: one supplier's record, what a search returns of it, *)
(* and the engine's verdict on what is returned.                           *)
(***************************************************************************)
EXTENDS Sourcing

CONSTANTS
  Records,    \* the records a supplier may confirm
  Criteria,   \* what buyers search for
  MaxTime,    \* bound on the clock
  MaxGaps     \* bound on the fields that are empty at once

\* SupplierLifecycleStatus
LifecycleStatus ==
  {"DRAFT", "MATERIALS_UPLOADED", "EXTRACTED", "AWAITING_SUPPLIER_REVIEW", "CONFIRMED",
   "ACTIVE", "SUSPENDED", "EXPIRED"}

Optional == {"minimum_people", "maximum_people", "lead_time_hours", "invoice_available"}

Lists == {"categories", "service_cities"}

\* The diets some search asks for.  A record that does not name one of them has
\* a text for it that says neither "supported" nor "unsupported".
Diets == UNION {q.diets : q \in Criteria}

\* SupplierDirectoryRecord
Profile ==
  [status : LifecycleStatus, profile_confirmed : BOOLEAN,
   categories : SUBSET STRING, service_cities : SUBSET STRING,
   service_districts : SUBSET STRING,
   minimum_people : Nat \cup {Unset}, maximum_people : Nat \cup {Unset},
   lead_time_hours : Nat \cup {Unset}, invoice_available : BOOLEAN \cup {Unset},
   dietary : [Diets -> STRING], sustainability_tags : SUBSET STRING,
   last_confirmed_at : Int]

\* A value that is absent is none of the values of a field.
ASSUME UnsetAssumption == Unset \notin Int \cup BOOLEAN \cup STRING \cup LifecycleStatus

\* The records were confirmed before the clock starts.
ASSUME RecordsAssumption ==
  Records \subseteq Profile /\ \A r \in Records : r.last_confirmed_at <= 0

\* SupplierSearchCriteria: a search need not name a district.  A diet is not
\* called like a field of the profile.
ASSUME CriteriaAssumption ==
  /\ Criteria \subseteq
       [category : STRING, city : STRING, district : STRING \cup {Unset},
        people_count : Nat, maximum_lead_time_hours : Nat \cup {Unset},
        invoice_required : BOOLEAN,
        diets : SUBSET Diets, tags : SUBSET STRING]
  /\ Diets \cap (Optional \cup Lists) = {}

VARIABLES record, criteria, now

searchVars == <<record, criteria, now>>

\* _is_visible
Visible(r) == r.status = "ACTIVE" /\ r.profile_confirmed /\ r.last_confirmed_at # Unset

\* Mutant: districts are not looked at.
ServesDistrict_Any(r, q) == TRUE

\* No districts are all districts, and a search without a district takes a
\* supplier of whatever districts of the city.
ServesDistrict(r, q) ==
  q.district # Unset /\ r.service_districts # {} => q.district \in r.service_districts

\* _matches_recall_filters: what is unknown passes, except an unknown invoice.
Matches(r, q) ==
  /\ q.category \in r.categories
  /\ q.city \in r.service_cities
  /\ ServesDistrict(r, q)
  /\ r.minimum_people # Unset => r.minimum_people <= q.people_count
  /\ r.maximum_people # Unset => q.people_count <= r.maximum_people
  /\ q.invoice_required => r.invoice_available = TRUE
  /\ (q.maximum_lead_time_hours # Unset /\ r.lead_time_hours # Unset)
       => r.lead_time_hours <= q.maximum_lead_time_hours
  /\ q.tags \subseteq r.sustainability_tags

Found(r, q) == Visible(r) /\ Matches(r, q)

\* _missing_fields
MissingFields(r) ==
  {f \in Optional : r[f] = Unset} \cup {f \in Lists : r[f] = {}}

\* _candidate: every city is listed as an area, with its districts or without;
\* the entries city/district add nothing to the city's own and are left out.
CandidateOf(r) ==
  [status |-> r.status, categories |-> r.categories, service_areas |-> r.service_cities,
   minimum_people |-> r.minimum_people, maximum_people |-> r.maximum_people,
   lead_time_hours |-> r.lead_time_hours, invoice_available |-> r.invoice_available,
   dietary |-> r.dietary, sustainability_tags |-> r.sustainability_tags,
   last_confirmed_at |-> r.last_confirmed_at, missing |-> MissingFields(r)]

Verdict == Evaluate(CandidateOf(record), criteria, now)

SearchInit ==
  /\ record \in Records
  /\ criteria \in Criteria
  /\ now = 0

Gaps == Cardinality(MissingFields(record))

Confirm(r) ==
  /\ record' = [r EXCEPT !.last_confirmed_at = now]
  /\ UNCHANGED <<criteria, now>>

Lose ==
  /\ Gaps < MaxGaps
  /\ \/ \E f \in Optional : record' = [record EXCEPT ![f] = Unset]
     \/ \E f \in Lists : record' = [record EXCEPT ![f] = {}]
  /\ UNCHANGED <<criteria, now>>

Retire ==
  /\ \/ \E s \in {"SUSPENDED", "EXPIRED"} : record' = [record EXCEPT !.status = s]
     \/ record' = [record EXCEPT !.profile_confirmed = FALSE]
  /\ UNCHANGED <<criteria, now>>

Tick ==
  /\ now < MaxTime
  /\ now' = now + 1
  /\ UNCHANGED <<record, criteria>>

SearchNext == (\E r \in Records : Confirm(r)) \/ Lose \/ Retire \/ Tick

SearchSpec == SearchInit /\ [][SearchNext]_searchVars

-----------------------------------------------------------------------------
\* Properties.

\* The record is a profile, confirmed at a time that has come.
SearchTypeOK ==
  /\ record \in Profile /\ record.last_confirmed_at <= now
  /\ criteria \in Criteria
  /\ now \in Nat

Between(low, x, high) == Unset \notin {low, x, high} /\ low <= x /\ x <= high

\* Directory and engine together ask exactly the suppliers that are active and
\* confirmed of late, are known to meet every need, and serve the very district
\* when the search names one.  The engine alone would take a city with districts
\* for all of it; when the search names no district, directory and engine both
\* do, and ask a supplier that serves only some of them.
AskedExactlyWhenSuitable ==
  (Found(record, criteria) /\ Verdict = "ELIGIBLE") <=>
    /\ record.status = "ACTIVE" /\ record.profile_confirmed
    /\ now - record.last_confirmed_at <= MaxProfileAge
    /\ criteria.category \in record.categories
    /\ criteria.city \in record.service_cities
    /\ criteria.district # Unset =>
         record.service_districts = {} \/ criteria.district \in record.service_districts
    /\ Between(record.minimum_people, criteria.people_count, record.maximum_people)
    /\ criteria.invoice_required => record.invoice_available = TRUE
    /\ criteria.maximum_lead_time_hours # Unset =>
         Between(0, record.lead_time_hours, criteria.maximum_lead_time_hours)
    /\ \A d \in criteria.diets : record.dietary[d] = "supported"
    /\ criteria.tags \subseteq record.sustainability_tags

\* Losing a value of the profile, or the mere age of it, never turns a supplier
\* that the engine did not recommend into a recommended one, and never excludes
\* one: what is unknown neither speaks for a supplier nor against it, in
\* whatever combination it is unknown (_check, _decision_for).  Only the loss of
\* all cities excludes: the directory reports it as service_cities, a name the
\* engine does not look for.
IgnoranceNeverDecides ==
  [][(Lose \/ Tick) =>
       /\ Verdict' = "ELIGIBLE" => Verdict = "ELIGIBLE"
       /\ Verdict' = "EXCLUDED" =>
            Verdict = "EXCLUDED" \/ record'.service_cities # record.service_cities]_searchVars
=============================================================================
