-------------------------- MODULE MCQuoteComparison --------------------------
(* Offers of two or three suppliers around the budget and each other. *)
EXTENDS QuoteComparison

MCRequirements ==
  [people |-> 4, maximumTotal |-> 301, invoice |-> TRUE, noPlastic |-> FALSE,
   diets |-> {"vegan"}]

(* Small weights of the price let rounding make scores equal. *)
MCWeights ==
  [c \in {"price", "restrictions", "response", "documentation", "history"} |->
     CASE c = "price" -> 1 [] c = "restrictions" -> 33 [] c = "response" -> 33
       [] c = "documentation" -> 25 [] c = "history" -> 8]

Offer ==
  [subtotal |-> 297, deliveryFee |-> 2, otherFee |-> 0, total |-> 299, available |-> TRUE,
   validUntil |-> 2, supplierConfirmation |-> TRUE, blank |-> {}, invoice |-> TRUE,
   diet |-> [d \in {"vegan", "vegetarian", "gluten_free"} |-> "confirmed"],
   noPlastic |-> Unknown, items |-> {"lunch"}, responseMinutes |-> 7,
   history |-> 3, sustainability |-> 0]

MCSubmission ==
  {Offer,
   [Offer EXCEPT !.subtotal = 298, !.total = 300],
   [Offer EXCEPT !.subtotal = 300, !.total = 302],
   [Offer EXCEPT !.subtotal = 300, !.total = 301],
   [Offer EXCEPT !.subtotal = 98, !.total = 100, !.invoice = Unknown],
   [Offer EXCEPT !.subtotal = 298, !.total = 300, !.responseMinutes = 720,
                 !.validUntil = 1,
                 !.diet["vegetarian"] = "partial", !.diet["gluten_free"] = "unknown"],
   [Offer EXCEPT !.subtotal = 0, !.deliveryFee = 0, !.total = 0, !.history = 5,
                 !.validUntil = 3]}
=============================================================================
