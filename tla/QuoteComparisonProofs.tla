------------------------ MODULE QuoteComparisonProofs ------------------------
(***************************************************************************)
(* Theorems about the comparison of the quotes of a round, for any number  *)
(* of suppliers, any offers and any weights of a policy.                   *)
(***************************************************************************)
EXTENDS QuoteComparison, WellFoundedInduction, TLAPS

\* Rounding brackets the quotient.
LEMMA DivideHalfUpBrackets ==
  ASSUME NEW n \in Nat, NEW d \in Nat \ {0}
  PROVE  /\ DivideHalfUp(n, d) \in Nat
         /\ d * (2 * DivideHalfUp(n, d) - 1) <= 2 * n
         /\ 2 * n < d * (2 * DivideHalfUp(n, d) + 1)
<1> DEFINE q == n \div d
           r == n % d
<1>1. q \in Nat /\ r \in 0..(d - 1) /\ n = d * q + r
  OBVIOUS
<1> HIDE DEF q, r
<1>2. CASE 2 * r >= d
  <2>1. DivideHalfUp(n, d) = q + 1
    BY <1>2 DEF DivideHalfUp, q, r
  <2>2. d * (2 * (q + 1) - 1) = 2 * (d * q) + d /\ d * (2 * (q + 1) + 1) = 2 * (d * q) + 3 * d
    BY <1>1
  <2> QED
    BY <1>1, <1>2, <2>1, <2>2
<1>3. CASE 2 * r < d
  <2>1. DivideHalfUp(n, d) = q
    BY <1>1, <1>3 DEF DivideHalfUp, q, r
  <2>2. d * (2 * q - 1) = 2 * (d * q) - d /\ d * (2 * q + 1) = 2 * (d * q) + d
    BY <1>1
  <2> QED
    BY <1>1, <1>3, <2>1, <2>2
<1> QED
  BY <1>1, <1>2, <1>3

\* A larger dividend never yields less.
LEMMA DivideHalfUpGrows ==
  ASSUME NEW n \in Nat, NEW m \in Nat, n <= m, NEW d \in Nat \ {0}
  PROVE  DivideHalfUp(n, d) <= DivideHalfUp(m, d)
<1> DEFINE j == DivideHalfUp(n, d)
           k == DivideHalfUp(m, d)
<1>1. j \in Nat /\ k \in Nat /\ d * (2 * j - 1) <= 2 * n /\ 2 * m < d * (2 * k + 1)
  BY DivideHalfUpBrackets
<1> HIDE DEF j, k
<1>2. ASSUME j > k PROVE FALSE
  <2>1. 2 * j - 1 >= 2 * k + 1
    BY <1>1, <1>2
  <2>2. d * (2 * j - 1) >= d * (2 * k + 1)
    BY <1>1, <2>1
  <2> QED
    BY <1>1, <2>2
<1> QED
  BY <1>1, <1>2 DEF j, k

\* A larger divisor never yields more.
LEMMA DivideHalfUpShrinks ==
  ASSUME NEW n \in Nat, NEW d \in Nat \ {0}, NEW e \in Nat \ {0}, d <= e
  PROVE  DivideHalfUp(n, e) <= DivideHalfUp(n, d)
<1> DEFINE j == DivideHalfUp(n, e)
           k == DivideHalfUp(n, d)
<1>1. j \in Nat /\ k \in Nat /\ e * (2 * j - 1) <= 2 * n /\ 2 * n < d * (2 * k + 1)
  BY DivideHalfUpBrackets
<1> HIDE DEF j, k
<1>2. ASSUME j > k PROVE FALSE
  <2> DEFINE a == 2 * j - 1
             b == 2 * k + 1
  <2>1. a >= b /\ a \in Nat /\ b \in Nat
    BY <1>1, <1>2
  <2>2. e * a <= 2 * n /\ 2 * n < d * b
    BY <1>1
  <2> HIDE DEF a, b
  <2>3. e * a >= d * a
    BY <2>1
  <2>4. d * a >= d * b
    BY <2>1
  <2> QED
    BY <2>1, <2>2, <2>3, <2>4
<1> QED
  BY <1>1, <1>2 DEF j, k

\* Dividing a number by itself is exact.
LEMMA DivideHalfUpExact ==
  ASSUME NEW n \in Nat, NEW d \in Nat \ {0}
  PROVE  DivideHalfUp(d * n, d) = n
<1> DEFINE k == DivideHalfUp(d * n, d)
<1>1. /\ d * n \in Nat /\ k \in Nat
      /\ d * (2 * k - 1) <= 2 * (d * n) /\ 2 * (d * n) < d * (2 * k + 1)
  BY DivideHalfUpBrackets
<1> HIDE DEF k
<1>2. 2 * (d * n) = d * (2 * n)
  OBVIOUS
<1>3. 2 * k - 1 <= 2 * n
  <2> SUFFICES ASSUME 2 * k - 1 >= 2 * n + 1 PROVE FALSE
    BY <1>1
  <2>1. d * (2 * k - 1) >= d * (2 * n + 1) /\ d * (2 * n + 1) = d * (2 * n) + d
    BY <1>1
  <2> QED
    BY <1>1, <1>2, <2>1
<1>4. 2 * n < 2 * k + 1
  <2> SUFFICES ASSUME 2 * n >= 2 * k + 1 PROVE FALSE
    BY <1>1
  <2>1. d * (2 * n) >= d * (2 * k + 1)
    BY <1>1
  <2> QED
    BY <1>1, <1>2, <2>1
<1> QED
  BY <1>1, <1>3, <1>4 DEF k

\* The least of natural numbers exists.
LEMMA LeastExists ==
  ASSUME NEW S \in SUBSET Nat, S # {}
  PROVE  Min(S) \in S /\ \A n \in S : Min(S) <= n
<1> DEFINE R == {p \in Nat \X Nat : p[1] < p[2]}
<1>1. IsWellFoundedOn(R, Nat)
  BY NatLessThanWellFounded DEF OpToRel
<1>2. \A x, y \in Nat : y < x => <<y, x>> \in R
  OBVIOUS
<1> HIDE DEF R
<1>3. PICK x \in S : \A y \in S : ~(<<y, x>> \in R)
  BY <1>1, WFMin
<1>4. \A y \in S : x \in Nat /\ y \in Nat
  OBVIOUS
<1>5. ASSUME NEW y \in S PROVE x <= y
  <2>1. x \in Nat /\ y \in Nat /\ ~(<<y, x>> \in R)
    BY <1>3, <1>4
  <2>2. ~(y < x)
    BY <1>2, <2>1
  <2> QED
    BY <2>1, <2>2
<1> QED
  BY <1>5 DEF Min


\* The lesser of two.
LEMMA LesserOfTwo ==
  ASSUME NEW m \in Nat, NEW n \in Nat
  PROVE  Min({m, n}) = IF m <= n THEN m ELSE n
<1>1. Min({m, n}) \in {m, n} /\ Min({m, n}) <= m /\ Min({m, n}) <= n
  <2>1. {m, n} \in SUBSET Nat /\ {m, n} # {}
    OBVIOUS
  <2> QED
    BY <2>1, LeastExists
<1> QED
  BY <1>1

\* The greater of two.
LEMMA GreaterOfTwo ==
  ASSUME NEW m \in Int, NEW n \in Int
  PROVE  Max({m, n}) = IF m >= n THEN m ELSE n
<1> DEFINE x == IF m >= n THEN m ELSE n
<1>1. x \in {m, n} /\ \A y \in {m, n} : x >= y
  OBVIOUS
<1> HIDE DEF x
<1>2. \E y \in {m, n} : \A z \in {m, n} : y >= z
  BY <1>1
<1>3. Max({m, n}) \in {m, n} /\ \A z \in {m, n} : Max({m, n}) >= z
  BY <1>2 DEF Max
<1> QED
  BY <1>1, <1>3 DEF x

-----------------------------------------------------------------------------
(* The price *)

LEMMA PriceScoreInRange ==
  ASSUME NEW q, q.total \in Nat, NEW lowest \in Nat
  PROVE  PriceScore(q, lowest) \in Nat /\ PriceScore(q, lowest) <= MaxBasisPoints
<1>1. CASE q.total = 0
  BY <1>1 DEF PriceScore, MaxBasisPoints
<1>2. CASE q.total # 0
  <2> DEFINE n == lowest * MaxBasisPoints
             p == DivideHalfUp(n, q.total)
  <2>1. n \in Nat /\ MaxBasisPoints \in Nat
    BY DEF MaxBasisPoints
  <2>2. p \in Nat
    BY <1>2, <2>1, DivideHalfUpBrackets
  <2>3. PriceScore(q, lowest) = Min({MaxBasisPoints, p})
    BY <1>2 DEF PriceScore
  <2> HIDE DEF n, p
  <2> QED
    BY <2>1, <2>2, <2>3, LesserOfTwo
<1> QED
  BY <1>1, <1>2

\* What the others are compared with has the full score.
LEMMA LowestScoresFull ==
  ASSUME NEW q, q.total \in Nat
  PROVE  PriceScore(q, q.total) = MaxBasisPoints
<1>1. CASE q.total = 0
  BY <1>1 DEF PriceScore
<1>2. CASE q.total # 0
  <2>1. DivideHalfUp(q.total * MaxBasisPoints, q.total) = MaxBasisPoints
    BY <1>2, DivideHalfUpExact DEF MaxBasisPoints
  <2>2. Min({MaxBasisPoints, MaxBasisPoints}) = MaxBasisPoints
    BY LesserOfTwo DEF MaxBasisPoints
  <2> QED
    BY <1>2, <2>1, <2>2 DEF PriceScore
<1> QED
  BY <1>1, <1>2

\* A dearer quote never has the better price.
LEMMA DearerScoresNoMore ==
  ASSUME NEW a, NEW b, a.total \in Nat, b.total \in Nat,
         NEW lowest \in Nat, lowest <= a.total, a.total <= b.total
  PROVE  PriceScore(b, lowest) <= PriceScore(a, lowest)
<1>1. CASE a.total = 0
  <2>1. lowest = a.total
    BY <1>1
  <2>2. PriceScore(a, lowest) = MaxBasisPoints
    BY <2>1, LowestScoresFull
  <2>3. PriceScore(b, lowest) \in Nat /\ PriceScore(b, lowest) <= MaxBasisPoints
    BY PriceScoreInRange
  <2> QED
    BY <2>2, <2>3
<1>2. CASE a.total # 0
  <2> DEFINE n == lowest * MaxBasisPoints
             x == DivideHalfUp(n, a.total)
             y == DivideHalfUp(n, b.total)
  <2>1. n \in Nat /\ MaxBasisPoints \in Nat /\ a.total \in Nat \ {0} /\ b.total \in Nat \ {0}
    BY <1>2 DEF MaxBasisPoints
  <2>2. x \in Nat /\ y \in Nat /\ y <= x
    BY <2>1, DivideHalfUpBrackets, DivideHalfUpShrinks
  <2>3. PriceScore(a, lowest) = Min({MaxBasisPoints, x})
        /\ PriceScore(b, lowest) = Min({MaxBasisPoints, y})
    BY <2>1 DEF PriceScore
  <2> HIDE DEF n, x, y
  <2> QED
    BY <2>1, <2>2, <2>3, LesserOfTwo
<1> QED
  BY <1>1, <1>2

\* A price looks no worse when the lowest one rises.
LEMMA HigherLowestScoresNoLess ==
  ASSUME NEW q, q.total \in Nat, NEW low \in Nat, NEW high \in Nat,
         low <= high, high <= q.total
  PROVE  PriceScore(q, low) <= PriceScore(q, high)
<1>1. CASE q.total = 0
  <2>1. low = high
    BY <1>1
  <2>2. PriceScore(q, low) \in Nat
    BY PriceScoreInRange
  <2> QED
    BY <2>1, <2>2
<1>2. CASE q.total # 0
  <2> DEFINE m == low * MaxBasisPoints
             n == high * MaxBasisPoints
             x == DivideHalfUp(m, q.total)
             y == DivideHalfUp(n, q.total)
  <2>1. m \in Nat /\ n \in Nat /\ m <= n /\ MaxBasisPoints \in Nat /\ q.total \in Nat \ {0}
    BY <1>2 DEF MaxBasisPoints
  <2>2. x \in Nat /\ y \in Nat /\ x <= y
    BY <2>1, DivideHalfUpBrackets, DivideHalfUpGrows
  <2>3. PriceScore(q, low) = Min({MaxBasisPoints, x})
        /\ PriceScore(q, high) = Min({MaxBasisPoints, y})
    BY <2>1 DEF PriceScore
  <2> HIDE DEF m, n, x, y
  <2> QED
    BY <2>1, <2>2, <2>3, LesserOfTwo
<1> QED
  BY <1>1, <1>2


-----------------------------------------------------------------------------
(* The score *)

\* The figures the score and the order of a quote are made of.
Figures(q) ==
  /\ q.total \in Nat /\ q.responseMinutes \in Nat /\ q.supplier \in Nat
  /\ q.eligible \in BOOLEAN
  /\ q.sustainability \in 0..5 /\ q.history \in 0..5

Criterion ==
  {"price", "restrictions", "adequacy", "logistics", "response", "sustainability",
   "history", "documentation"}

\* Every score is a natural number.
LEMMA NormalizedScoreInNat ==
  ASSUME NEW q, Figures(q), NEW lowest \in Nat, NEW c \in Criterion
  PROVE  NormalizedScore(c, q, lowest) \in Nat
<1>1. CASE c = "price"
  BY <1>1, PriceScoreInRange DEF NormalizedScore, Figures
<1>2. CASE c = "restrictions"
  <2>1. \A status : StatusScore(status) \in Nat
    BY DEF StatusScore, MaxBasisPoints
  <2> DEFINE n == StatusScore(q.diet["vegetarian"]) + StatusScore(q.diet["vegan"])
                    + StatusScore(q.diet["gluten_free"])
  <2>2. n \in Nat
    BY <2>1
  <2>3. NormalizedScore(c, q, lowest) = DivideHalfUp(n, 3)
    BY <1>2 DEF NormalizedScore
  <2> HIDE DEF n
  <2> QED
    BY <2>2, <2>3, DivideHalfUpBrackets
<1>3. CASE c = "response"
  <2> DEFINE n == q.responseMinutes * MaxBasisPoints
             p == DivideHalfUp(n, 1440)
  <2>1. n \in Nat /\ MaxBasisPoints \in Nat
    BY DEF Figures, MaxBasisPoints
  <2>2. p \in Nat
    BY <2>1, DivideHalfUpBrackets
  <2>3. NormalizedScore(c, q, lowest) = Max({0, MaxBasisPoints - p})
    BY <1>3 DEF NormalizedScore, ResponseScore
  <2> HIDE DEF n, p
  <2>4. MaxBasisPoints - p \in Int /\ 0 \in Int
    BY <2>1, <2>2
  <2> QED
    BY <2>3, <2>4, GreaterOfTwo
<1>4. CASE c = "sustainability"
  BY <1>4 DEF NormalizedScore, Figures
<1>5. CASE c = "history"
  BY <1>5 DEF NormalizedScore, Figures
<1>6. CASE c \in {"adequacy", "logistics", "documentation"}
  BY <1>6 DEF NormalizedScore, AllOrNothing, MaxBasisPoints
<1> QED
  BY <1>1, <1>2, <1>3, <1>4, <1>5, <1>6 DEF Criterion

\* Only the price looks at the other quotes.
LEMMA OnlyPriceIsRelative ==
  ASSUME NEW q, NEW low, NEW high, NEW c, c # "price"
  PROVE  NormalizedScore(c, q, low) = NormalizedScore(c, q, high)
BY DEF NormalizedScore

\* A better answer never earns less, whatever the weight.
LEMMA PointsGrow ==
  ASSUME NEW q, NEW r, Figures(q), Figures(r), NEW low \in Nat, NEW high \in Nat,
         NEW c \in Criterion,
         c \in DOMAIN Weights => NormalizedScore(c, q, low) <= NormalizedScore(c, r, high)
  PROVE  /\ Points(c, q, Weights, low) \in Nat
         /\ Points(c, r, Weights, high) \in Nat
         /\ Points(c, q, Weights, low) <= Points(c, r, Weights, high)
<1>1. CASE c \notin DOMAIN Weights
  BY <1>1 DEF Points
<1>2. CASE c \in DOMAIN Weights
  <2> DEFINE w == Weights[c]
             x == NormalizedScore(c, q, low)
             y == NormalizedScore(c, r, high)
  <2>1. w \in Nat
    BY <1>2, WeightsAssumption
  <2>2. x \in Nat /\ y \in Nat /\ x <= y
    BY <1>2, NormalizedScoreInNat
  <2>3. /\ Points(c, q, Weights, low) = DivideHalfUp(w * x, 100)
        /\ Points(c, r, Weights, high) = DivideHalfUp(w * y, 100)
    BY <1>2 DEF Points, WeightedPoints
  <2> HIDE DEF w, x, y
  <2>4. w * x \in Nat /\ w * y \in Nat /\ w * x <= w * y
    BY <2>1, <2>2
  <2> QED
    BY <2>3, <2>4, DivideHalfUpGrows, DivideHalfUpBrackets
<1> QED
  BY <1>1, <1>2

\* An eligible quote with no worse answers never has the lower score.
LEMMA ScoreGrows ==
  ASSUME NEW q, NEW r, Figures(q), Figures(r), NEW low \in Nat, NEW high \in Nat,
         q.eligible, r.eligible,
         \A c \in Criterion \cap DOMAIN Weights :
           NormalizedScore(c, q, low) <= NormalizedScore(c, r, high)
  PROVE  /\ Score(q, Weights, low) \in Nat
         /\ Score(r, Weights, high) \in Nat
         /\ Score(q, Weights, low) <= Score(r, Weights, high)
<1> DEFINE P(c) == Points(c, q, Weights, low)
           R(c) == Points(c, r, Weights, high)
<1>1. \A c \in Criterion : P(c) \in Nat /\ R(c) \in Nat /\ P(c) <= R(c)
  BY PointsGrow
<1>2. /\ Score(q, Weights, low)
           = P("price") + (P("restrictions") + P("adequacy") + P("logistics") + P("response")
               + P("sustainability") + P("history") + P("documentation"))
      /\ Score(r, Weights, high)
           = R("price") + (R("restrictions") + R("adequacy") + R("logistics") + R("response")
               + R("sustainability") + R("history") + R("documentation"))
  BY DEF Score, BasePoints
<1> HIDE DEF P, R
<1>3. {"price", "restrictions", "adequacy", "logistics", "response", "sustainability",
       "history", "documentation"} \subseteq Criterion
  BY DEF Criterion
<1> QED
  BY <1>1, <1>2, <1>3


-----------------------------------------------------------------------------
(* The order *)

\* Whoever stands behind has no higher score and, with the same, no lower total.
LEMMA OrderOfEquals ==
  ASSUME NEW a, NEW b, Figures(a), Figures(b), a.eligible = b.eligible, NEW lowest,
         Score(a, Weights, lowest) \in Nat, Score(b, Weights, lowest) \in Nat,
         Precedes(a, b, Weights, lowest)
  PROVE  /\ Score(a, Weights, lowest) >= Score(b, Weights, lowest)
         /\ Score(a, Weights, lowest) = Score(b, Weights, lowest) => a.total <= b.total
<1> DEFINE x == Score(a, Weights, lowest)
           y == Score(b, Weights, lowest)
           k == <<a.total, a.responseMinutes, a.supplier>>
           l == <<b.total, b.responseMinutes, b.supplier>>
<1>1. \/ x > y
      \/ x = y /\ \E i \in 1..3 : k[i] < l[i] /\ \A j \in 1..(i - 1) : k[j] = l[j]
  BY DEF Precedes
<1>2. x \in Nat /\ y \in Nat
  OBVIOUS
<1>3. k[1] = a.total /\ l[1] = b.total
  OBVIOUS
<1>4. a.total \in Nat /\ b.total \in Nat
  BY DEF Figures
<1> HIDE DEF x, y, k, l
<1>5. ASSUME x = y, NEW i \in 1..3, k[i] < l[i], \A j \in 1..(i - 1) : k[j] = l[j]
      PROVE  a.total <= b.total
  <2>1. CASE i = 1
    BY <1>3, <1>4, <1>5, <2>1
  <2>2. CASE i # 1
    <3>1. 1 \in 1..(i - 1)
      BY <2>2
    <3> QED
      BY <1>3, <1>4, <1>5, <3>1
  <2> QED
    BY <2>1, <2>2
<1>6. x >= y /\ (x = y => a.total <= b.total)
  BY <1>1, <1>2, <1>5
<1> QED
  BY <1>6 DEF x, y

\* Whoever has the higher score, or the same and the lower total, stands before.
LEMMA StandsBefore ==
  ASSUME NEW a, NEW b, a.eligible = b.eligible, NEW lowest,
         \/ Score(a, Weights, lowest) > Score(b, Weights, lowest)
         \/ Score(a, Weights, lowest) = Score(b, Weights, lowest) /\ a.total < b.total
  PROVE  Precedes(a, b, Weights, lowest)
<1> DEFINE k == <<a.total, a.responseMinutes, a.supplier>>
           l == <<b.total, b.responseMinutes, b.supplier>>
<1>1. k[1] = a.total /\ l[1] = b.total
  OBVIOUS
<1> HIDE DEF k, l
<1>2. ASSUME a.total < b.total
      PROVE  \E i \in 1..3 : k[i] < l[i] /\ \A j \in 1..(i - 1) : k[j] = l[j]
  <2>1. 1 \in 1..3 /\ k[1] < l[1] /\ \A j \in 1..(1 - 1) : k[j] = l[j]
    BY <1>1, <1>2
  <2> QED
    BY <2>1
<1> QED
  BY <1>2 DEF Precedes, k, l

\* Among quotes, the lowest total is some quote's, of an eligible one if there
\* is any, and no eligible one is lower.
LEMMA LowestIsLeast ==
  ASSUME NEW S, S # {}, \A q \in S : q.total \in Nat /\ q.eligible \in BOOLEAN
  PROVE  /\ LowestTotal(S) \in Nat
         /\ \A q \in S : q.eligible => LowestTotal(S) <= q.total
         /\ (\E q \in S : q.eligible) => \E q \in S : q.eligible /\ q.total = LowestTotal(S)
<1> DEFINE eligible == {q \in S : q.eligible}
           among == IF eligible = {} THEN S ELSE eligible
           totals == {q.total : q \in among}
<1>1. among # {} /\ among \subseteq S /\ eligible \subseteq among
  OBVIOUS
<1>2. totals \in SUBSET Nat /\ totals # {}
  BY <1>1
<1>3. LowestTotal(S) = Min(totals)
  BY DEF LowestTotal
<1>4. Min(totals) \in totals /\ \A n \in totals : Min(totals) <= n
  BY <1>2, LeastExists
<1>5. \A q \in S : q.eligible => q \in among
  OBVIOUS
<1>6. (\E q \in S : q.eligible) => among = eligible
  OBVIOUS
<1> HIDE DEF among
<1>7. LowestTotal(S) \in Nat
  BY <1>2, <1>3, <1>4
<1>8. \A q \in S : q.eligible => LowestTotal(S) <= q.total
  BY <1>3, <1>4, <1>5
<1>9. \E q \in among : q.total = LowestTotal(S)
  BY <1>3, <1>4
<1>10. (\E q \in S : q.eligible) => \E q \in S : q.eligible /\ q.total = LowestTotal(S)
  BY <1>6, <1>9
<1> QED
  BY <1>7, <1>8, <1>10


-----------------------------------------------------------------------------
(* The quotes *)

FormFields ==
  {"subtotal", "deliveryFee", "otherFee", "total", "validUntil", "available",
   "supplierConfirmation", "blank", "invoice", "noPlastic", "diet", "items",
   "responseMinutes", "sustainability", "history"}

\* A form fills in these fields, with natural numbers where figures are asked.
LEMMA FormsAreFilledIn ==
  ASSUME NEW sub \in Submission
  PROVE  /\ DOMAIN sub = FormFields
         /\ sub.total \in Nat /\ sub.responseMinutes \in Nat
         /\ sub.sustainability \in 0..5 /\ sub.history \in 0..5
BY SubmissionAssumption DEF FormFields

\* A quote has the fields of its form and those the service adds.
LEMMA QuoteFields ==
  ASSUME NEW s \in Supplier, NEW sub \in Submission, NEW q,
         q \in {QuoteOf(s, sub), Outdated(QuoteOf(s, sub))}
  PROVE  /\ DOMAIN q = FormFields \cup {"supplier", "status", "eligible", "perPerson"}
         /\ \A f \in FormFields : q[f] = sub[f]
         /\ q.supplier = s
         /\ q.eligible \in BOOLEAN
         /\ q.status \in {"FINAL", "NEEDS_CLARIFICATION", "EXPIRED"}
         /\ q.eligible <=> q.status = "FINAL"
         /\ q.status = "FINAL" => EligibleFor(sub, Requirements)
         /\ q.status = "NEEDS_CLARIFICATION" => ~EligibleFor(sub, Requirements)
<1> DEFINE p == QuoteOf(s, sub)
           all == FormFields \cup {"supplier", "status", "eligible", "perPerson"}
           fit == EligibleFor(sub, Requirements)
<1>1. DOMAIN sub = FormFields
  BY FormsAreFilledIn
<1>2. DOMAIN p = all
  BY <1>1 DEF QuoteOf
<1>3. \A f \in FormFields : p[f] = sub[f]
  BY <1>1 DEF QuoteOf, FormFields
<1>4. p.supplier = s
  BY DEF QuoteOf
<1>5. /\ p.status = IF fit THEN "FINAL" ELSE "NEEDS_CLARIFICATION"
      /\ p.eligible = fit
  BY DEF QuoteOf
<1>6. fit \in BOOLEAN
  BY DEF EligibleFor
<1> HIDE DEF p, fit
<1>7. CASE q = p
  BY <1>2, <1>3, <1>4, <1>5, <1>6, <1>7 DEF p, fit
<1>8. CASE q = [p EXCEPT !.status = "EXPIRED", !.eligible = FALSE]
  <2>1. DOMAIN q = all /\ q.status = "EXPIRED" /\ q.eligible = FALSE
    BY <1>2, <1>8
  <2>2. \A f \in FormFields \cup {"supplier"} : q[f] = p[f]
    BY <1>2, <1>8 DEF FormFields
  <2> QED
    BY <1>3, <1>4, <2>1, <2>2
<1> QED
  BY <1>7, <1>8 DEF Outdated, p

\* What the service keeps of a supplier has all the figures it is ranked by.
LEMMA QuotesHaveFigures ==
  ASSUME QuotesAreOfSubmissions, NEW s \in Supplier, quotes[s] # NoQuote
  PROVE  Figures(quotes[s])
<1>1. PICK sub \in Submission : quotes[s] \in {QuoteOf(s, sub), Outdated(QuoteOf(s, sub))}
  BY DEF QuotesAreOfSubmissions
<1>2. /\ \A f \in FormFields : quotes[s][f] = sub[f]
      /\ quotes[s].supplier = s /\ quotes[s].eligible \in BOOLEAN
  BY <1>1, QuoteFields
<1>3. s \in Nat
  BY SupplierAssumption
<1> QED
  BY <1>2, <1>3, FormsAreFilledIn DEF Figures, FormFields


-----------------------------------------------------------------------------
(* The invariant *)

\* Nothing is quoted or ranked.
LEMMA InitComparison == Init => ComparisonInv
BY DEF Init, ComparisonInv, QuotesAreOfSubmissions, RankingIsCurrent

\* Expiring a quote leaves it one of its form.
LEMMA ExpiryKeepsForms ==
  ASSUME NEW s \in Supplier, NEW sub \in Submission, NEW q,
         q \in {QuoteOf(s, sub), Outdated(QuoteOf(s, sub))}
  PROVE  Expire(q) \in {QuoteOf(s, sub), Outdated(QuoteOf(s, sub))}
<1> DEFINE p == QuoteOf(s, sub)
           o == Outdated(p)
<1>1. CASE q = p
  BY <1>1 DEF Expire
<1>2. CASE q = o
  <2>1. "status" \in DOMAIN p
    BY QuoteFields
  <2>2. o.status = "EXPIRED"
    BY <2>1 DEF Outdated
  <2> QED
    BY <1>2, <2>2 DEF Expire
<1> QED
  BY <1>1, <1>2

\* ComparisonInv is inductive.
LEMMA NextComparison == ComparisonInv /\ [Next]_vars => ComparisonInv'
<1> SUFFICES ASSUME ComparisonInv, [Next]_vars PROVE ComparisonInv'
  OBVIOUS
<1>0. QuotesAreOfSubmissions /\ RankingIsCurrent
  BY DEF ComparisonInv
<1>1. ASSUME NEW s \in Supplier, NEW sub \in Submission, Submit(s, sub)
      PROVE  ComparisonInv'
  <2>1. /\ quotes' = [quotes EXCEPT ![s] = QuoteOf(s, sub)] /\ ranking' = << >>
        /\ sub.total = QuoteTotal(sub)
    BY <1>1 DEF Submit, Refused
  <2>2. quotes'[s] = QuoteOf(s, sub) /\ \A t \in Supplier \ {s} : quotes'[t] = quotes[t]
    BY <1>0, <2>1 DEF QuotesAreOfSubmissions
  <2>3. QuotesAreOfSubmissions'
    BY <1>0, <2>1, <2>2 DEF QuotesAreOfSubmissions
  <2>4. RankingIsCurrent'
    BY <2>1 DEF RankingIsCurrent
  <2> QED
    BY <2>3, <2>4 DEF ComparisonInv
<1>2. ASSUME Compare PROVE ComparisonInv'
  <2> DEFINE current == [s \in Supplier |-> Expire(quotes[s])]
             quoted  == {s \in Supplier : current[s] # NoQuote}
             lowest  == LowestTotal({current[s] : s \in quoted})
             n       == Cardinality(quoted)
  <2>1. /\ quotes' = current
        /\ ranking' \in [1..n -> quoted]
        /\ \A i, j \in DOMAIN ranking' :
             i < j => Precedes(current[ranking'[i]], current[ranking'[j]], Weights, lowest)
    BY <1>2 DEF Compare
  <2>2. QuotesAreOfSubmissions'
    <3>1. ASSUME NEW s \in Supplier, quotes'[s] # NoQuote
          PROVE  \E sub \in Submission :
                   /\ sub.total = QuoteTotal(sub)
                   /\ quotes'[s] \in {QuoteOf(s, sub), Outdated(QuoteOf(s, sub))}
      <4>1. quotes'[s] = Expire(quotes[s])
        BY <2>1
      <4>2. quotes[s] # NoQuote
        BY <3>1, <4>1 DEF Expire
      <4> QED
        BY <1>0, <4>1, <4>2, ExpiryKeepsForms DEF QuotesAreOfSubmissions
    <3>2. DOMAIN quotes' = Supplier
      BY <2>1
    <3> QED
      BY <3>1, <3>2 DEF QuotesAreOfSubmissions
  <2>3. Lowest' = lowest
    BY <2>1 DEF Lowest, Submitted
  <2>4. DOMAIN ranking' = 1..n /\ \A i \in DOMAIN ranking' : ranking'[i] \in quoted
    BY <2>1
  <2>5. 1..n \subseteq Nat
    OBVIOUS
  <2> HIDE DEF current, lowest, n
  <2>6. DOMAIN ranking' \subseteq Nat
    BY <2>4, <2>5
  <2>7. RankingIsCurrent'
    BY <2>1, <2>3, <2>4, <2>6 DEF RankingIsCurrent
  <2> QED
    BY <2>2, <2>7 DEF ComparisonInv
<1>3. CASE Tick
  BY <1>0, <1>3 DEF Tick, ComparisonInv, QuotesAreOfSubmissions, RankingIsCurrent, Lowest,
                    Submitted
<1>4. CASE UNCHANGED vars
  BY <1>0, <1>4 DEF vars, ComparisonInv, QuotesAreOfSubmissions, RankingIsCurrent, Lowest,
                    Submitted
<1> QED
  BY <1>1, <1>2, <1>3, <1>4 DEF Next

LEMMA ComparisonInvariant == Spec => []ComparisonInv
BY InitComparison, NextComparison, PTL DEF Spec


-----------------------------------------------------------------------------
(* The theorems *)

\* Everything quoted has its figures, and the lowest total is theirs.
LEMMA QuotedFigures ==
  ASSUME QuotesAreOfSubmissions, NEW s \in Supplier, quotes[s] # NoQuote
  PROVE  /\ Figures(quotes[s])
         /\ Lowest \in Nat
         /\ quotes[s].eligible => Lowest <= quotes[s].total
<1>1. quotes[s] \in Submitted
  BY DEF Submitted
<1>2. \A q \in Submitted : Figures(q)
  BY QuotesHaveFigures DEF Submitted
<1>3. \A q \in Submitted : q.total \in Nat /\ q.eligible \in BOOLEAN
  BY <1>2 DEF Figures
<1> QED
  BY <1>1, <1>2, <1>3, LowestIsLeast DEF Lowest

\* Whatever the weights and however scores are rounded, a quote that is cheaper
\* and as good in every other criterion stands first.
THEOREM CheaperStandsFirst == Spec => []CheaperEqualStandsFirst
<1>1. ComparisonInv => CheaperEqualStandsFirst
  <2> SUFFICES ASSUME ComparisonInv, NEW i \in DOMAIN ranking, NEW j \in DOMAIN ranking,
                      Dominates(quotes[ranking[i]], quotes[ranking[j]])
               PROVE  i < j
    BY DEF CheaperEqualStandsFirst
  <2> DEFINE a == quotes[ranking[i]]
             b == quotes[ranking[j]]
  <2>0. QuotesAreOfSubmissions /\ RankingIsCurrent
    BY DEF ComparisonInv
  <2>1. /\ i \in Nat /\ j \in Nat
        /\ ranking[i] \in Supplier /\ ranking[j] \in Supplier
        /\ a # NoQuote /\ b # NoQuote
    BY <2>0 DEF RankingIsCurrent
  <2>2. /\ a.eligible /\ b.eligible /\ a.total < b.total
        /\ \A c \in DOMAIN Weights \ {"price"} :
             NormalizedScore(c, a, 0) >= NormalizedScore(c, b, 0)
    BY DEF Dominates
  <2>3. Lowest \in Nat /\ Lowest <= a.total
    BY <2>0, <2>1, <2>2, QuotedFigures
  <2>4. j < i => Precedes(b, a, Weights, Lowest)
    BY <2>0 DEF RankingIsCurrent
  <2> HIDE DEF a, b
  <2>5. Figures(a) /\ Figures(b)
    BY <2>0, <2>1, QuotedFigures DEF a, b
  <2>6. a.total \in Nat /\ b.total \in Nat
    BY <2>5 DEF Figures
  <2>7. ASSUME NEW c \in Criterion \cap DOMAIN Weights
        PROVE  NormalizedScore(c, b, Lowest) <= NormalizedScore(c, a, Lowest)
    <3>1. CASE c = "price"
      <4>1. PriceScore(b, Lowest) <= PriceScore(a, Lowest)
        BY <2>2, <2>3, <2>6, DearerScoresNoMore
      <4> QED
        BY <3>1, <4>1 DEF NormalizedScore
    <3>2. CASE c # "price"
      <4>1. NormalizedScore(c, b, 0) \in Nat /\ NormalizedScore(c, a, 0) \in Nat
        BY <2>5, NormalizedScoreInNat
      <4>2. NormalizedScore(c, b, 0) <= NormalizedScore(c, a, 0)
        BY <2>2, <3>2, <4>1
      <4> QED
        BY <3>2, <4>2, OnlyPriceIsRelative
    <3> QED
      BY <3>1, <3>2
  <2>8. /\ Score(b, Weights, Lowest) \in Nat /\ Score(a, Weights, Lowest) \in Nat
        /\ Score(b, Weights, Lowest) <= Score(a, Weights, Lowest)
    BY <2>2, <2>3, <2>5, <2>7, ScoreGrows
  <2>9. a.eligible = b.eligible
    BY <2>2, <2>5 DEF Figures
  <2>10. ~Precedes(b, a, Weights, Lowest)
    <3> SUFFICES ASSUME Precedes(b, a, Weights, Lowest) PROVE FALSE
      OBVIOUS
    <3>1. Score(b, Weights, Lowest) = Score(a, Weights, Lowest) /\ b.total <= a.total
      BY <2>5, <2>8, <2>9, OrderOfEquals
    <3> QED
      BY <2>2, <2>6, <3>1
  <2>11. i # j
    BY <2>2, <2>6 DEF a, b
  <2> QED
    BY <2>1, <2>4, <2>10, <2>11
<1> QED
  BY <1>1, ComparisonInvariant, PTL


\* Only a new submission of a supplier changes what it asks for.
LEMMA OnlyItsSubmissionRaises ==
  ASSUME ComparisonInv, [Next]_vars, NEW s \in Supplier,
         quotes[s] # NoQuote, quotes'[s] # NoQuote, quotes'[s].total > quotes[s].total
  PROVE  \E sub \in Submission :
           /\ sub.total = QuoteTotal(sub)
           /\ quotes'[s] = QuoteOf(s, sub)
           /\ DOMAIN quotes' = Supplier
           /\ \A t \in Supplier \ {s} : quotes'[t] = quotes[t]
<1>0. DOMAIN quotes = Supplier /\ quotes[s].total \in Nat
  BY QuotesHaveFigures DEF ComparisonInv, QuotesAreOfSubmissions, Figures
<1>1. quotes'[s].total # quotes[s].total
  BY <1>0
<1>2. ASSUME NEW u \in Supplier, NEW sub \in Submission, Submit(u, sub)
      PROVE  /\ u = s
             /\ sub.total = QuoteTotal(sub)
             /\ quotes'[s] = QuoteOf(s, sub)
             /\ DOMAIN quotes' = Supplier
             /\ \A t \in Supplier \ {s} : quotes'[t] = quotes[t]
  <2>1. quotes' = [quotes EXCEPT ![u] = QuoteOf(u, sub)] /\ sub.total = QuoteTotal(sub)
    BY <1>2 DEF Submit, Refused
  <2>2. u = s
    BY <1>0, <1>1, <2>1
  <2> QED
    BY <1>0, <2>1, <2>2
<1>3. ASSUME Compare PROVE FALSE
  <2>1. quotes'[s] = Expire(quotes[s])
    BY <1>3 DEF Compare
  <2>2. Outdated(quotes[s]).total = quotes[s].total
    BY DEF Outdated
  <2> QED
    BY <1>1, <2>1, <2>2 DEF Expire
<1>4. ~Tick /\ ~UNCHANGED vars
  BY <1>1 DEF Tick, vars
<1> QED
  BY <1>2, <1>3, <1>4 DEF Next

\* The same offer at a higher price meets the requirements no better.
LEMMA DearerFitsNoBetter ==
  ASSUME NEW old \in Submission, NEW new \in Submission,
         old.total = QuoteTotal(old), new.total = QuoteTotal(new), old.total < new.total,
         \A f \in {"available", "invoice", "diet", "noPlastic"} : new[f] = old[f],
         EligibleFor(new, Requirements)
  PROVE  EligibleFor(old, Requirements)
<1>1. old.total \in Nat /\ new.total \in Nat
  BY FormsAreFilledIn
<1>2. /\ new.available = old.available /\ new.invoice = old.invoice
      /\ new.diet = old.diet /\ new.noPlastic = old.noPlastic
  OBVIOUS
<1>3. BudgetMet(old, Requirements)
  <2>1. BudgetMet(new, Requirements)
    BY DEF EligibleFor
  <2> QED
    BY <1>1, <2>1, RequirementsAssumption DEF BudgetMet
<1> QED
  BY <1>2, <1>3 DEF EligibleFor, InvoiceMet, DietsMet, PlasticMet

\* Two quotes with the same answers differ in their price alone.
LEMMA SameAnswersScoreSame ==
  ASSUME NEW q, NEW r, NEW low, NEW high, NEW c, c # "price",
         \A f \in {"diet", "items", "available", "responseMinutes", "sustainability",
                   "history", "invoice"} : q[f] = r[f]
  PROVE  NormalizedScore(c, q, low) = NormalizedScore(c, r, high)
<1>1. /\ q.diet = r.diet /\ q.items = r.items /\ q.available = r.available
      /\ q.responseMinutes = r.responseMinutes /\ q.sustainability = r.sustainability
      /\ q.history = r.history /\ q.invoice = r.invoice
  OBVIOUS
<1> QED
  BY <1>1 DEF NormalizedScore


\* With all three eligible, the price that is raised scores no more and the
\* other no less, although the lowest total they are compared with may move.
LEMMA RaisedPriceScoresNoMore ==
  ASSUME NEW other, NEW old, NEW new, Figures(other), Figures(old), Figures(new),
         other.eligible, old.eligible, new.eligible, old.total < new.total,
         NEW low \in Nat, NEW high \in Nat, low <= high, low <= old.total,
         high <= other.total, low < high => old.total = low,
         \A f \in {"diet", "items", "available", "responseMinutes", "sustainability",
                   "history", "invoice"} : new[f] = old[f],
         Precedes(other, old, Weights, low)
  PROVE  Precedes(other, new, Weights, high)
<1>0. /\ old.total \in Nat /\ new.total \in Nat /\ other.total \in Nat
      /\ other.eligible = old.eligible /\ other.eligible = new.eligible
  BY DEF Figures
<1>1. PriceScore(new, high) <= PriceScore(old, low)
  <2>1. CASE low = high
    BY <1>0, <2>1, DearerScoresNoMore
  <2>2. CASE low < high
    <3>1. PriceScore(old, low) = MaxBasisPoints
      BY <1>0, <2>2, LowestScoresFull
    <3>2. PriceScore(new, high) <= MaxBasisPoints
      BY <1>0, PriceScoreInRange
    <3> QED
      BY <3>1, <3>2
  <2> QED
    BY <2>1, <2>2
<1>2. PriceScore(other, low) <= PriceScore(other, high)
  BY <1>0, HigherLowestScoresNoLess
<1>3. ASSUME NEW c \in Criterion
      PROVE  /\ NormalizedScore(c, new, high) <= NormalizedScore(c, old, low)
             /\ NormalizedScore(c, other, low) <= NormalizedScore(c, other, high)
  <2>1. CASE c = "price"
    BY <1>1, <1>2, <2>1 DEF NormalizedScore
  <2>2. CASE c # "price"
    <3>1. /\ NormalizedScore(c, new, high) = NormalizedScore(c, old, low)
          /\ NormalizedScore(c, other, low) = NormalizedScore(c, other, high)
      BY <2>2, SameAnswersScoreSame, OnlyPriceIsRelative
    <3>2. NormalizedScore(c, old, low) \in Nat /\ NormalizedScore(c, other, high) \in Nat
      BY NormalizedScoreInNat
    <3> QED
      BY <3>1, <3>2
  <2> QED
    BY <2>1, <2>2
<1>4. /\ Score(new, Weights, high) \in Nat /\ Score(old, Weights, low) \in Nat
      /\ Score(new, Weights, high) <= Score(old, Weights, low)
  BY <1>3, ScoreGrows
<1>5. /\ Score(other, Weights, low) \in Nat /\ Score(other, Weights, high) \in Nat
      /\ Score(other, Weights, low) <= Score(other, Weights, high)
  BY <1>3, ScoreGrows
<1>6. /\ Score(other, Weights, low) >= Score(old, Weights, low)
      /\ Score(other, Weights, low) = Score(old, Weights, low) => other.total <= old.total
  BY <1>0, <1>4, <1>5, OrderOfEquals
<1>7. \/ Score(other, Weights, high) > Score(new, Weights, high)
      \/ Score(other, Weights, high) = Score(new, Weights, high) /\ other.total < new.total
  BY <1>0, <1>4, <1>5, <1>6
<1> QED
  BY <1>0, <1>7, StandsBefore

\* The lowest total does not fall when one quote is raised, and when it rises the
\* raised quote was the lowest.
LEMMA RaisingMovesTheLowest ==
  ASSUME NEW S, NEW T, NEW old \in S, NEW new \in T,
         \A q \in S \cup T : q.total \in Nat /\ q.eligible \in BOOLEAN,
         S \ {old} \subseteq T, T \ {new} \subseteq S,
         old.eligible, new.eligible, old.total < new.total
  PROVE  /\ LowestTotal(S) <= LowestTotal(T)
         /\ LowestTotal(S) < LowestTotal(T) => old.total = LowestTotal(S)
<1>1. /\ LowestTotal(S) \in Nat
      /\ \A q \in S : q.eligible => LowestTotal(S) <= q.total
      /\ \E q \in S : q.eligible /\ q.total = LowestTotal(S)
  BY LowestIsLeast
<1>2. /\ LowestTotal(T) \in Nat
      /\ \A q \in T : q.eligible => LowestTotal(T) <= q.total
      /\ \E q \in T : q.eligible /\ q.total = LowestTotal(T)
  BY LowestIsLeast
<1>3. LowestTotal(S) <= LowestTotal(T)
  <2>1. PICK q \in T : q.eligible /\ q.total = LowestTotal(T)
    BY <1>2
  <2>2. CASE q = new
    BY <1>1, <1>2, <2>1, <2>2
  <2>3. CASE q # new
    BY <1>1, <2>1, <2>3
  <2> QED
    BY <2>2, <2>3
<1>4. ASSUME LowestTotal(S) < LowestTotal(T) PROVE old.total = LowestTotal(S)
  <2>1. PICK q \in S : q.eligible /\ q.total = LowestTotal(S)
    BY <1>1
  <2>2. CASE q # old
    <3>1. LowestTotal(T) <= q.total
      BY <1>2, <2>1, <2>2
    <3> QED
      BY <1>1, <1>2, <1>4, <2>1, <3>1
  <2> QED
    BY <2>1, <2>2
<1> QED
  BY <1>3, <1>4


\* For every policy, whatever the other offers are, asking for more never wins a
\* supplier a place.
THEOREM RaisingNeverHelps == Spec => RaisingThePriceNeverHelps
<1>1. ASSUME ComparisonInv, [Next]_vars, NEW s \in Supplier, RaisesPrice(s),
             NEW t \in Supplier \ {s}, quotes[t] # NoQuote,
             Precedes(quotes[t], quotes[s], Weights, Lowest)
      PROVE  Precedes(quotes[t], quotes'[s], Weights, Lowest')
  <2> DEFINE old == quotes[s]
             new == quotes'[s]
             other == quotes[t]
             S == Submitted
             T == {quotes'[u] : u \in {v \in Supplier : quotes'[v] # NoQuote}}
  <2>0. /\ QuotesAreOfSubmissions /\ old # NoQuote /\ new # NoQuote
        /\ old.total < new.total /\ old.status # "EXPIRED"
        /\ \A f \in DOMAIN old \ {"subtotal", "deliveryFee", "otherFee", "total", "perPerson",
                                  "eligible", "status"} : new[f] = old[f]
    BY <1>1 DEF ComparisonInv, RaisesPrice
  <2>1. PICK sub \in Submission :
          /\ sub.total = QuoteTotal(sub)
          /\ new = QuoteOf(s, sub)
          /\ \A u \in Supplier \ {s} : quotes'[u] = quotes[u]
    BY <1>1, <2>0, OnlyItsSubmissionRaises
  <2>2. PICK osub \in Submission :
          /\ osub.total = QuoteTotal(osub)
          /\ old \in {QuoteOf(s, osub), Outdated(QuoteOf(s, osub))}
    BY <2>0 DEF QuotesAreOfSubmissions
  <2>3. /\ \A f \in FormFields : new[f] = sub[f]
        /\ new.supplier = s /\ new.eligible \in BOOLEAN
        /\ new.status \in {"FINAL", "NEEDS_CLARIFICATION", "EXPIRED"}
        /\ new.eligible <=> new.status = "FINAL"
        /\ new.status = "FINAL" => EligibleFor(sub, Requirements)
    BY <2>1, QuoteFields
  <2>4. /\ DOMAIN old = FormFields \cup {"supplier", "status", "eligible", "perPerson"}
        /\ \A f \in FormFields : old[f] = osub[f]
        /\ old.status \in {"FINAL", "NEEDS_CLARIFICATION", "EXPIRED"}
        /\ old.eligible <=> old.status = "FINAL"
        /\ old.status = "NEEDS_CLARIFICATION" => ~EligibleFor(osub, Requirements)
    BY <2>2, QuoteFields
  <2>5. \A f \in {"diet", "items", "available", "responseMinutes", "sustainability",
                  "history", "invoice", "noPlastic"} : new[f] = old[f]
    BY <2>0, <2>4 DEF FormFields
  <2>6. Figures(old) /\ Figures(other) /\ Figures(new)
    <3>1. Figures(old) /\ Figures(other)
      BY <1>1, <2>0, QuotesHaveFigures
    <3>2. /\ new.total \in Nat /\ new.responseMinutes \in Nat
          /\ new.sustainability \in 0..5 /\ new.history \in 0..5
      BY <2>3, FormsAreFilledIn DEF FormFields
    <3>3. s \in Nat
      BY SupplierAssumption
    <3> QED
      BY <2>3, <3>1, <3>2, <3>3 DEF Figures
  <2>7. old \in S /\ new \in T /\ other \in S /\ other \in T
    BY <1>1, <2>0, <2>1 DEF Submitted
  <2>8. S \ {old} \subseteq T /\ T \ {new} \subseteq S
    BY <1>1, <2>0, <2>1 DEF Submitted
  <2>9. \A q \in S \cup T : q.total \in Nat /\ q.eligible \in BOOLEAN
    <3>1. \A q \in S : Figures(q)
      BY <2>0, QuotesHaveFigures DEF Submitted
    <3> QED
      BY <2>6, <2>8, <3>1 DEF Figures
  <2>10. new.eligible => old.eligible
    <3> SUFFICES ASSUME new.eligible PROVE old.eligible
      OBVIOUS
    <3>1. EligibleFor(sub, Requirements)
      BY <2>3
    <3>2. osub.total < sub.total
      BY <2>0, <2>3, <2>4 DEF FormFields
    <3>3. \A f \in {"available", "invoice", "diet", "noPlastic"} : sub[f] = osub[f]
      BY <2>3, <2>4, <2>5 DEF FormFields
    <3>4. EligibleFor(osub, Requirements)
      BY <2>1, <2>2, <3>1, <3>2, <3>3, DearerFitsNoBetter
    <3> QED
      BY <2>0, <2>4, <3>4
  <2>11. Lowest = LowestTotal(S) /\ Lowest' = LowestTotal(T)
    BY DEF Lowest, Submitted
  <2>12. Precedes(other, old, Weights, LowestTotal(S))
    BY <1>1, <2>11
  <2> HIDE DEF old, new, other, S, T
  <2>13. Precedes(other, new, Weights, LowestTotal(T))
    <3>1. CASE other.eligible /\ ~new.eligible
      BY <3>1 DEF Precedes
    <3>2. CASE other.eligible /\ new.eligible
      <4>1. old.eligible
        BY <2>10, <3>2
      <4>2. /\ LowestTotal(S) \in Nat /\ LowestTotal(S) <= old.total
            /\ LowestTotal(T) \in Nat /\ LowestTotal(T) <= other.total
        BY <2>7, <2>9, <3>2, <4>1, LowestIsLeast
      <4>3. /\ LowestTotal(S) <= LowestTotal(T)
            /\ LowestTotal(S) < LowestTotal(T) => old.total = LowestTotal(S)
        BY <2>0, <2>7, <2>8, <2>9, <3>2, <4>1, RaisingMovesTheLowest DEF old, new
      <4>4. \A f \in {"diet", "items", "available", "responseMinutes", "sustainability",
                      "history", "invoice"} : new[f] = old[f]
        BY <2>5
      <4> QED
        BY <2>0, <2>6, <2>12, <3>2, <4>1, <4>2, <4>3, <4>4, RaisedPriceScoresNoMore
    <3>3. CASE ~other.eligible
      <4>1. ~old.eligible /\ ~new.eligible
        BY <2>6, <2>10, <2>12, <3>3 DEF Precedes, Figures
      <4>2. /\ Score(other, Weights, LowestTotal(S)) = 0
            /\ Score(old, Weights, LowestTotal(S)) = 0
            /\ Score(other, Weights, LowestTotal(T)) = 0
            /\ Score(new, Weights, LowestTotal(T)) = 0
        BY <3>3, <4>1 DEF Score
      <4>3. other.eligible = old.eligible /\ other.eligible = new.eligible
        BY <2>6, <3>3, <4>1 DEF Figures
      <4>4. other.total <= old.total
        <5>1. /\ Score(other, Weights, LowestTotal(S)) \in Nat
              /\ Score(old, Weights, LowestTotal(S)) \in Nat
              /\ Score(other, Weights, LowestTotal(S)) = Score(old, Weights, LowestTotal(S))
          BY <4>2
        <5> QED
          BY <2>6, <2>12, <4>3, <5>1, OrderOfEquals
      <4>5. other.total < new.total
        BY <2>0, <2>6, <4>4 DEF Figures, old, new
      <4> QED
        BY <4>2, <4>3, <4>5, StandsBefore
    <3> QED
      BY <3>1, <3>2, <3>3
  <2> QED
    BY <2>11, <2>13 DEF other, new
<1>2. ComparisonInv /\ [Next]_vars =>
        [\A s \in Supplier : RaisesPrice(s) => \A t \in Supplier \ {s} : KeepsAhead(t, s)]_vars
  BY <1>1 DEF KeepsAhead
<1> QED
  BY <1>2, ComparisonInvariant, PTL DEF Spec, RaisingThePriceNeverHelps
=============================================================================
