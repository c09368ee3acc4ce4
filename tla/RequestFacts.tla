---------------------------- MODULE RequestFacts ----------------------------
(***************************************************************************)
(* The deterministic rules for a buyer's request                           *)
(* (modules/procurement_requests/service.py and schemas.py) and what an    *)
(* interpreter makes of a message.  A message m is the facts m.says that   *)
(* the local rules read in its text, the facts m.hints that they read in   *)
(* an excerpt of it taken alone, and the values m.confirms that it         *)
(* confirms; reading Portuguese is left out.  A value is an integer; dates *)
(* and times are in the clock's ticks, Day of them to a day.               *)
(***************************************************************************)
EXTENDS Integers, Sequences, FiniteSets, Functions

CONSTANTS
  None,
  Day,              \* ticks in a day
  PolicyRequired    \* the answers the procurement policy makes compulsory

ASSUME PolicyRequiredAssumption ==
  PolicyRequired \subseteq {"delivery_time", "maximum_total_cents",
                            "invoice_required", "no_single_use_plastic"}

ASSUME DayAssumption == Day \in Nat \ {0}

Diets == {"vegetarian_count", "vegan_count", "gluten_free_count"}

AlwaysRequired == {"category", "description", "event_date", "people_count",
                   "response_deadline", "approver_user_id"}

Field == AlwaysRequired \cup Diets \cup
           {"delivery_time", "maximum_total_cents", "invoice_required",
            "no_single_use_plastic", "location_district", "full_address",
            "desired_quote_count"}

\* A draft: its facts, the fields that were ever supplied, its version.
NewDraft ==
  [facts    |-> [f \in Field |-> IF f \in Diets THEN 0 ELSE None],
   explicit |-> {}, version |-> 1]

-----------------------------------------------------------------------------
\* Readiness.

MissingRequired(facts) ==
  {f \in AlwaysRequired \cup PolicyRequired : facts[f] = None}
    \cup (IF facts["full_address"] = None THEN
            {f \in {"location_district"} : facts[f] = None} ELSE {})

Eaters(facts) ==
  facts["vegetarian_count"] + facts["vegan_count"] + facts["gluten_free_count"]

\* The first instant of the event, if its date and time are known.
EventAt(facts) == facts["event_date"] * Day + facts["delivery_time"]

Known(facts, fields) == \A f \in fields : facts[f] # None

DeadlineTooLate(facts) ==
  /\ Known(facts, {"event_date", "delivery_time", "response_deadline"})
  /\ facts["response_deadline"] >= EventAt(facts)

\* Facts that are present and cannot all be right at time now.
BlockingIssues(facts, now) ==
  LET Holds(issue, condition) == {i \in {issue} : condition}
  IN  Holds("DIETARY_COUNTS_EXCEED_PEOPLE_COUNT",
            /\ Known(facts, {"people_count"})
            /\ Eaters(facts) > facts["people_count"])
        \cup Holds("EVENT_DATE_IN_PAST",
                   /\ Known(facts, {"event_date"})
                   /\ facts["event_date"] < now \div Day)
        \cup Holds("RESPONSE_DEADLINE_NOT_FUTURE",
                   /\ Known(facts, {"response_deadline"})
                   /\ facts["response_deadline"] <= now)
        \cup Holds("RESPONSE_DEADLINE_NOT_BEFORE_EVENT", DeadlineTooLate(facts))

IsReady(facts, now) == MissingRequired(facts) = {} /\ BlockingIssues(facts, now) = {}

\* The groups of blockers a question is asked about, most urgent first.
QuestionGroups ==
  << [reason |-> "MISSING_EVENT_SCHEDULE", about |-> {"event_date", "delivery_time"}],
     [reason |-> "MISSING_DELIVERY_LOCATION", about |-> {"location_district"}],
     [reason |-> "MISSING_REQUEST_SCOPE",
      about  |-> {"category", "description", "people_count"}],
     [reason |-> "MISSING_COMMERCIAL_RULES",
      about  |-> {"maximum_total_cents", "response_deadline", "approver_user_id"}],
     [reason |-> "MISSING_MANDATORY_REQUIREMENTS",
      about  |-> {"invoice_required", "no_single_use_plastic"}],
     [reason |-> "DIETARY_COUNTS_EXCEED_PEOPLE_COUNT",
      about  |-> {"DIETARY_COUNTS_EXCEED_PEOPLE_COUNT"}],
     [reason |-> "EVENT_DATE_IN_PAST", about |-> {"EVENT_DATE_IN_PAST"}],
     [reason |-> "RESPONSE_DEADLINE_NOT_FUTURE",
      about  |-> {"RESPONSE_DEADLINE_NOT_FUTURE"}],
     [reason |-> "RESPONSE_DEADLINE_NOT_BEFORE_EVENT",
      about  |-> {"RESPONSE_DEADLINE_NOT_BEFORE_EVENT"}] >>

\* The questions a draft calls for: one per group with a blocker in it.
Clarifications(facts, now) ==
  LET blockers == MissingRequired(facts) \cup BlockingIssues(facts, now)
      Asked(g) == g.about \cap blockers # {}
  IN  SelectSeq(QuestionGroups, Asked)

\* The next question, or that none is known.
ClarificationFor(facts, now) ==
  LET cs == Clarifications(facts, now)
  IN  IF cs = << >> THEN "BLOCKING_ISSUE" ELSE Head(cs).reason

-----------------------------------------------------------------------------
\* Merging what a message says.  Facts of messages are functions on a subset
\* of Field.

\* Changes to facts the buyer supplied before.
ConflictsOf(draft, patch) ==
  {f \in DOMAIN patch : /\ draft.facts[f] # None
                        /\ draft.facts[f] # patch[f]
                        /\ f \in draft.explicit}

\* Non-conflicting facts, and the allowed ones, are applied; the version says
\* that something was.
ApplyPatch(draft, patch, allowed) ==
  LET changes == DOMAIN patch \ (ConflictsOf(draft, patch) \ allowed)
  IN  IF changes = {} THEN draft
      ELSE [facts    |-> [f \in Field |-> IF f \in changes THEN patch[f]
                                          ELSE draft.facts[f]],
            explicit |-> draft.explicit \cup changes,
            version  |-> draft.version + 1]

\* The values an excerpt of the message supports for a field.
Supports(msg, f) ==
  {g[f] : g \in {h \in {msg.says, msg.hints} : f \in DOMAIN h}}
    \cup {1 : x \in {f} \cap {"description"}}

\* Mutant: a claim of the model is taken when it quotes the message.
Verified_Quoted(msg, claims) ==
  LET held == {f \in DOMAIN claims \ {"description"} : claims[f].quoted}
  IN  [f \in held |-> claims[f].value]

\* What is left of the model's claims: the quote is in the message and the
\* local rules read the claimed value in it.
Verified(msg, claims) ==
  LET held == {f \in DOMAIN claims \ {"description"} :
                 claims[f].quoted /\ claims[f].value \in Supports(msg, f)}
  IN  [f \in held |-> claims[f].value]

\* What an interpreter that heard these facts returns: safe facts and, apart,
\* the conflicting ones.  The text is the description if the request has none.
Interpret(draft, heard) ==
  LET said == IF draft.facts["description"] = None
              THEN [f \in DOMAIN heard \cup {"description"} |->
                      IF f = "description" THEN 1 ELSE heard[f]]
              ELSE heard
      conflicts == ConflictsOf(draft, said)
  IN  [extracted |-> Restrict(said, DOMAIN said \ conflicts),
       conflicts |-> Restrict(said, conflicts)]

\* Yes-or-no answers: no text is ever taken as the confirmation of one.
BooleanField == {"invoice_required", "no_single_use_plastic"}

\* Mutant: any confirmed value is taken, whatever was asked.
Settled_Unasked(msg, found, asked) ==
  {f \in DOMAIN found \ BooleanField : found[f] \in msg.confirms}

\* The conflicts a message settles: the question about this field and this
\* very value was open, and the message confirms the value.
Settled(msg, found, asked) ==
  {f \in DOMAIN found \ BooleanField : /\ found[f] \in msg.confirms
                                       /\ f \in DOMAIN asked
                                       /\ asked[f] = found[f]}
=============================================================================
