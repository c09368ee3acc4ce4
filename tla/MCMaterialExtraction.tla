------------------------- MODULE MCMaterialExtraction -------------------------
(* Answers of the model and spreadsheets about two critical fields. *)
EXTENDS MaterialExtraction

MCCritical == {"trade_name", "minimum_people"}

MCNormal == [r \in {"10", "ten", "12"} |->
               CASE r = "10" -> "10" [] r = "12" -> "12" [] OTHER -> Nothing]

Sure ==
  [value |-> "10", status |-> "extracted", confidence |-> 80, evidence |-> {"page 1"}]

Says(claims) == [kind |-> "model", items |->
                   [i \in DOMAIN claims |-> [field |-> "minimum_people", claim |-> claims[i]]]]

Lists(cells) == [kind |-> "sheet", items |->
                   [i \in DOMAIN cells |-> [field |-> "minimum_people", raw |-> cells[i]]]]

(* Sure, unsure and unsupported claims, one that is made twice and one of a  *)
(* status no provider may give; cells that agree, disagree and say nothing.  *)
MCResponse ==
  {Says(<<Sure>>), Says(<<[Sure EXCEPT !.confidence = 79]>>),
   Says(<<[Sure EXCEPT !.evidence = {}]>>), Says(<<Sure, Sure>>),
   Says(<<[Sure EXCEPT !.status = "confirmed"]>>),
   Lists(<<"10", "10">>), Lists(<<"10", "12">>), Lists(<<"ten">>)}
=============================================================================
