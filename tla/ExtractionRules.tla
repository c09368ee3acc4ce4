--------------------------- MODULE ExtractionRules ---------------------------
(***************************************************************************)
(* What becomes of the values a model or a spreadsheet offers for the      *)
(* fields of a supplier's profile.  A field's text is a member of a small  *)
(* set; Normal says what the deterministic normalisation makes of it.      *)
(***************************************************************************)
EXTENDS Naturals, Sequences, FiniteSets

CONSTANTS
  Critical,   \* CRITICAL_EXTRACTION_FIELDS, all of the schema's fields
  Normal,     \* the normalised value of each raw cell, or Nothing
  Nothing     \* no value

ProviderStatus == {"extracted", "not_found", "needs_review"}

\* Confidence in per cent, 80 the threshold; Nothing when none was given.
Threshold == 80

\* The evidence of a claim is the set of the places it cites.
NotFound == [value |-> Nothing, status |-> "not_found", confidence |-> Nothing,
             evidence |-> {}]

\* What a model may say of a field; anything else fails the extraction.
WellFormed(c) ==
  /\ c.status \in ProviderStatus
  /\ c.status = "not_found" => c.value = Nothing /\ c.confidence = Nothing

\* Mutant: a value without evidence passes.
WithEvidence_Trusting(c) == c

\* A value that names no source is as good as not found.
WithEvidence(c) == IF c.evidence # {} THEN c ELSE NotFound

\* A response is a sequence of [field, claim].  Unknown and repeated fields
\* fail the extraction.
ModelAccepts(response) ==
  /\ \A i \in DOMAIN response : /\ WellFormed(response[i].claim)
                                /\ response[i].field \in Critical
  /\ \A i, j \in DOMAIN response : response[i].field = response[j].field => i = j

ModelFields(response) ==
  [f \in {response[i].field : i \in DOMAIN response} |->
     WithEvidence(response[CHOOSE i \in DOMAIN response : response[i].field = f].claim)]

\* Mutant: one of several cells decides.
Agreed_Any(values) == TRUE

Agreed(values) == \A v, w \in values : v = w

\* Cells are the [field, raw] pairs of the labels that were found, in order.
\* One that cannot be normalised, and several that disagree, need a review.
SheetFields(cells) ==
  [f \in {cells[i].field : i \in DOMAIN cells} |->
     LET found  == {cells[i].raw : i \in {j \in DOMAIN cells : cells[j].field = f}}
         values == {Normal[raw] : raw \in found}
         clear  == Agreed(values) /\ Nothing \notin values
     IN  [value      |-> IF clear THEN CHOOSE v \in values : TRUE ELSE Nothing,
          status     |-> IF clear THEN "extracted" ELSE "needs_review",
          confidence |-> IF clear THEN 100 ELSE 50,
          evidence   |-> found]]

Doubtful(c) == c.status = "extracted" /\ c.confidence # Nothing /\ c.confidence < Threshold

Checked(c) == IF Doubtful(c) THEN [c EXCEPT !.status = "needs_review"] ELSE c

\* finalize_extraction_result: doubtful values need a review, and a critical
\* field nobody mentioned was not found.
Finalize(fields) ==
  [f \in DOMAIN fields \cup Critical |->
     IF f \in DOMAIN fields THEN Checked(fields[f]) ELSE NotFound]
=============================================================================
