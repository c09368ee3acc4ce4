-------------------------- MODULE MCProcurementAgent --------------------------
(* Messages about a catering request and profiles of suppliers; categories, *)
(* cities and districts are numbers. *)
EXTENDS ProcurementAgent, TLC

Says(facts, values) == [says |-> facts, hints |-> << >>, confirms |-> values]

Complete ==
  [f \in AlwaysRequired \cup {"location_district", "delivery_time", "maximum_total_cents",
                             "invoice_required", "no_single_use_plastic"} |->
     CASE f = "event_date" -> 2 [] f = "response_deadline" -> 3 [] f = "people_count" -> 3
       [] f = "delivery_time" -> 0
       [] f = "location_district" -> 12 [] f = "category" -> 1 [] OTHER -> 1]

(* Intake: one message that says almost all of it, later ones that change,  *)
(* confirm and dispute it. *)
MCMessage ==
  {Says([Complete EXCEPT !["people_count"] = 1], {}),
   Says(("people_count" :> 2) @@ ("vegan_count" :> 2), {2}),
   [says |-> ("people_count" :> 1) @@ ("event_date" :> 2), confirms |-> {1},
    hints |-> ("people_count" :> 2)],
   Says(("response_deadline" :> 4) @@ ("vegan_count" :> 1), {4})}

(* The model sees the count of an excerpt, or a quoted and an unquoted fancy. *)
MCClaim ==
  {"people_count" :> [value |-> 2, quoted |-> TRUE],
   ("people_count" :> [value |-> 3, quoted |-> TRUE])
     @@ ("vegan_count" :> [value |-> 1, quoted |-> FALSE])}

Good ==
  [status |-> "ACTIVE", categories |-> {1}, service_areas |-> {12},
   minimum_people |-> 1, maximum_people |-> 5, lead_time_hours |-> 1,
   invoice_available |-> TRUE, dietary |-> [d \in Diets |-> "supported"],
   sustainability_tags |-> {"no_single_use_plastic"}, last_confirmed_at |-> 0, missing |-> {}]

MCProfile == {Good, [Good EXCEPT !.status = "INACTIVE"], None}
=============================================================================
