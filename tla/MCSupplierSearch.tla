--------------------------- MODULE MCSupplierSearch ---------------------------
(* Records that suit, nearly suit and do not suit four searches, one of them *)
(* without a district. *)
EXTENDS SupplierSearch

Good ==
  [status |-> "ACTIVE", profile_confirmed |-> TRUE, categories |-> {"catering"},
   service_cities |-> {"sao paulo"}, service_districts |-> {"moema"},
   minimum_people |-> 2, maximum_people |-> 4, lead_time_hours |-> 3,
   invoice_available |-> TRUE, dietary |-> [d \in {"vegan_count"} |-> "supported"],
   sustainability_tags |-> {"no_plastic"}, last_confirmed_at |-> 0]

MCRecords ==
  {Good,
   [Good EXCEPT !.service_districts = {}, !.maximum_people = 3],
   [Good EXCEPT !.service_districts = {"pinheiros"}, !.minimum_people = 3],
   [Good EXCEPT !.service_cities = {"campinas"}, !.invoice_available = FALSE],
   [Good EXCEPT !.sustainability_tags = {}, !.lead_time_hours = 4,
                !.dietary = [d \in {"vegan_count"} |-> "ask us"]]}

Search ==
  [category |-> "catering", city |-> "sao paulo", district |-> "moema",
   people_count |-> 3, maximum_lead_time_hours |-> 3, invoice_required |-> TRUE,
   diets |-> {"vegan_count"}, tags |-> {"no_plastic"}]

MCCriteria ==
  {Search,
   [Search EXCEPT !.district = Unset],
   [Search EXCEPT !.people_count = 4, !.maximum_lead_time_hours = Unset, !.tags = {}],
   [Search EXCEPT !.invoice_required = FALSE, !.people_count = 2, !.diets = {}]}
=============================================================================
