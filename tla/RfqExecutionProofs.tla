------------------------- MODULE RfqExecutionProofs -------------------------
(***************************************************************************)
(* Theorems about the execution service, for every set of rounds,          *)
(* recipients and payloads, every policy and every bound.                  *)
(***************************************************************************)
EXTENDS RfqExecution, FiniteSetTheorems, TLAPS

-----------------------------------------------------------------------------
(* Lemmas about the operators the actions are built from *)

\* The quotes that a refresh of a round expires are finitely many, so the
\* collection version stays a number.
LEMMA ExpiryCounts ==
  ASSUME NEW rd \in Round
  PROVE  Cardinality(Expirable(rd)) \in Nat
<1>1. Expirable(rd) \subseteq Recipient
  BY DEF Expirable, RecipientsOf
<1>2. IsFiniteSet(Expirable(rd))
  BY <1>1, RecipientsAssumption, FS_Subset
<1> QED
  BY <1>2, FS_CardinalityType

\* A recipient record keeps its shape when the provider's state is copied.
LEMMA RefreshedRecipientType ==
  ASSUME NEW rc \in RecipientRecord, NEW provider \in {"NONE"} \cup DeliveryState
  PROVE  RefreshedRecipient(rc, provider) \in RecipientRecord
BY DEF RefreshedRecipient, RecipientRecord, DeliveryState

\* Updates of a record, with the new version named: the shape is kept.
LEMMA RoundUpdate ==
  ASSUME NEW rs \in [Round -> RoundRecord], NEW rd \in Round, NEW version \in Nat,
         NEW status \in {"NONE", "DRAFT", "DISPATCHING", "ACTIVE"}
  PROVE  [rs EXCEPT ![rd].status = status, ![rd].version = version]
           \in [Round -> RoundRecord]
BY DEF RoundRecord

LEMMA ApprovalUpdate ==
  ASSUME NEW x \in ApprovalRecord, NEW version \in Nat
  PROVE  /\ [x EXCEPT !.status = "INVALIDATED", !.version = version] \in ApprovalRecord
         /\ [x EXCEPT !.status = "INVALIDATED", !.version = version].status = "INVALIDATED"
         /\ [x EXCEPT !.status = "INVALIDATED", !.version = version].recipient = x.recipient
BY DEF ApprovalRecord

LEMMA AwardAnswer ==
  ASSUME NEW x \in AwardRecord, NEW version \in Nat,
         NEW status \in {"ACCEPTED", "DECLINED", "FAILED"}
  PROVE  [x EXCEPT !.status = status, !.version = version] \in AwardRecord
BY DEF AwardRecord, DeliveryState

LEMMA AwardAcceptance ==
  ASSUME NEW x \in AwardRecord, NEW version \in Nat, NEW p \in Respondent
  PROVE  [x EXCEPT !.status = "ACCEPTED", !.version = version, !.acceptedBy = p]
           \in AwardRecord
BY DEF AwardRecord, DeliveryState

LEMMA AwardDelivery ==
  ASSUME NEW x \in AwardRecord, NEW version \in Nat, NEW audits \in Nat
  PROVE  [x EXCEPT !.status = "DELIVERED", !.version = version, !.emitted = TRUE,
                   !.audits = audits] \in AwardRecord
BY DEF AwardRecord, DeliveryState

LEMMA AwardReady ==
  ASSUME NEW as \in [AwardId -> AwardRecord], NEW w \in AwardId, NEW version \in Nat
  PROVE  [as EXCEPT ![w].version = version, ![w].ready = TRUE] \in [AwardId -> AwardRecord]
<1> DEFINE x == as[w]
           y == [x EXCEPT !.version = version, !.ready = TRUE]
<1>1. x \in AwardRecord
  OBVIOUS
<1>2. y \in AwardRecord
  <2> HIDE DEF x
  <2> QED
    BY <1>1 DEF AwardRecord
<1>3. [as EXCEPT ![w].version = version, ![w].ready = TRUE] = [as EXCEPT ![w] = y]
  OBVIOUS
<1> HIDE DEF y
<1> QED
  BY <1>2, <1>3

\* A refreshed award is an award record.
LEMMA RefreshedAwardType ==
  ASSUME TypeOK, NEW w \in AwardId
  PROVE  RefreshedAward(w) \in AwardRecord
<1>1. awards[w] \in AwardRecord
  BY DEF TypeOK
<1>2. CASE ~AwardNews(w)
  BY <1>1, <1>2 DEF RefreshedAward
<1>3. CASE AwardNews(w)
  <2> DEFINE version == awards[w].version + 1
             audits == IF awards[w].emitted THEN awards[w].audits ELSE awards[w].audits + 1
  <2>1. version \in Nat /\ audits \in Nat
    BY <1>1 DEF AwardRecord
  <2>2. CASE awardGateway[w] = "DELIVERED"
    <3>1. RefreshedAward(w) = [awards[w] EXCEPT !.status = "DELIVERED", !.version = version,
                                 !.emitted = TRUE, !.audits = audits]
      BY <1>3, <2>2 DEF RefreshedAward
    <3> HIDE DEF version, audits
    <3>2. [awards[w] EXCEPT !.status = "DELIVERED", !.version = version,
                            !.emitted = TRUE, !.audits = audits] \in AwardRecord
      BY <1>1, <2>1, AwardDelivery
    <3> QED
      BY <3>1, <3>2, Zenon
  <2>3. CASE awardGateway[w] # "DELIVERED"
    <3>1. RefreshedAward(w) = [awards[w] EXCEPT !.status = "FAILED", !.version = version]
      BY <1>3, <2>3 DEF RefreshedAward
    <3> HIDE DEF version
    <3> QED
      BY <1>1, <2>1, <3>1, AwardAnswer
  <2> QED
    BY <2>2, <2>3
<1> QED
  BY <1>2, <1>3

\* RefreshDeliveryBatch writes well-formed recipients, rounds and status.
LEMMA RefreshType ==
  ASSUME TypeOK, NEW rd \in Round,
         NEW provider \in [Recipient -> {"NONE"} \cup DeliveryState],
         RefreshDeliveryBatch(rd, provider)
  PROVE  /\ recipients' \in [Recipient -> RecipientRecord]
         /\ rounds' \in [Round -> RoundRecord]
         /\ procurementStatus' \in ProcurementStatus
<1>1. recipients' \in [Recipient -> RecipientRecord]
  BY RefreshedRecipientType DEF RefreshDeliveryBatch, TypeOK
<1>2. RefreshedStatus(rd, provider) \in {"NONE", "DRAFT", "DISPATCHING", "ACTIVE"}
  BY DEF RefreshedStatus, TypeOK, RoundRecord
<1>3. rounds' \in [Round -> RoundRecord]
  <2> DEFINE version == rounds[rd].version + 1
  <2>1. version \in Nat
    BY DEF TypeOK, RoundRecord
  <2>2. \/ rounds' = rounds
        \/ rounds' = [rounds EXCEPT ![rd].status = RefreshedStatus(rd, provider),
                                    ![rd].version = version]
    BY DEF RefreshDeliveryBatch
  <2> HIDE DEF version
  <2>3. rounds \in [Round -> RoundRecord]
    BY DEF TypeOK
  <2>4. [rounds EXCEPT ![rd].status = RefreshedStatus(rd, provider),
                       ![rd].version = version] \in [Round -> RoundRecord]
    BY <1>2, <2>1, <2>3, RoundUpdate
  <2> QED
    BY <2>2, <2>3, <2>4, Zenon
<1>4. procurementStatus' \in ProcurementStatus
  BY DEF RefreshDeliveryBatch, StatusAfterRefresh, TypeOK, ProcurementStatus
<1> QED
  BY <1>1, <1>3, <1>4

-----------------------------------------------------------------------------
(* Type correctness *)

LEMMA InitType == Init => TypeOK
BY DEF Init, TypeOK, RoundRecord, NoRound, RecipientRecord, QuoteRecord,
       ComparisonRecord, ApprovalRecord, AwardRecord, NoAward,
       ReservationRecord, ProcurementStatus, DeliveryState

LEMMA NextType == TypeOK /\ ApprovalsNameQuotes /\ [Next]_vars => TypeOK'
<1> SUFFICES ASSUME TypeOK, ApprovalsNameQuotes, [Next]_vars PROVE TypeOK'
  OBVIOUS
<1> USE RecipientsAssumption
<1>1. CASE Tick
  BY <1>1 DEF Tick, TypeOK, rfqVars, quoteVars, decisionVars, awardVars
<1>2. ASSUME NEW r \in Recipient, Ack(r) \/ Fail(r) PROVE TypeOK'
  BY <1>2 DEF Ack, Fail, TypeOK, quoteVars, decisionVars, awardVars, DeliveryState
<1>3. ASSUME NEW w \in AwardId, AckAward(w) \/ FailAward(w) PROVE TypeOK'
  BY <1>3 DEF AckAward, FailAward, TypeOK, rfqVars, quoteVars, decisionVars,
              DeliveryState
<1>4. ASSUME NEW rd \in Round, NEW deadline \in 1..MaxTime, CreateRound(rd, deadline)
      PROVE  TypeOK'
  BY <1>4, BoundsAssumption DEF CreateRound, TypeOK, quoteVars, decisionVars, awardVars, RoundRecord,
              ProcurementStatus
<1>5. ASSUME NEW rd \in Round, SendRound(rd) PROVE TypeOK'
  <2>1. gateway' \in [Recipient -> {"NONE"} \cup DeliveryState]
    BY <1>5 DEF SendRound, TypeOK, FirstSend, DeliveryState
  <2>2. RefreshDeliveryBatch(rd, gateway')
    BY <1>5 DEF SendRound
  <2> QED
    BY <1>5, <2>1, <2>2, RefreshType
    DEF SendRound, TypeOK, quoteVars, decisionVars, awardVars
<1>6. ASSUME NEW rd \in Round, GetDeliveryStatus(rd) PROVE TypeOK'
  <2>1. gateway \in [Recipient -> {"NONE"} \cup DeliveryState]
    BY DEF TypeOK
  <2>2. RefreshDeliveryBatch(rd, gateway)
    BY <1>6 DEF GetDeliveryStatus
  <2> QED
    BY <1>6, <2>1, <2>2, RefreshType
    DEF GetDeliveryStatus, TypeOK, quoteVars, decisionVars, awardVars
<1>7. ASSUME NEW rd \in Round, GetQuoteStatus(rd) PROVE TypeOK'
  <2>1. quotes' \in [Recipient -> QuoteRecord]
    BY <1>7 DEF GetQuoteStatus, ExpireQuotes, TypeOK, QuoteRecord
  <2>2. rounds' \in [Round -> RoundRecord]
    <3>1. CollectionAfterExpiry(rd) \in Nat
      BY ExpiryCounts DEF CollectionAfterExpiry, TypeOK, RoundRecord
    <3> QED
      BY <1>7, <3>1 DEF GetQuoteStatus, ExpireQuotes, TypeOK, RoundRecord
  <2> QED
    BY <1>7, <2>1, <2>2 DEF GetQuoteStatus, TypeOK, decisionVars, awardVars
<1>8. ASSUME NEW rd \in Round, NEW c \in ComparisonId, Compare(rd, c) PROVE TypeOK'
  <2>1. EligibleQuotes(rd) \subseteq Recipient \X Nat
    BY DEF EligibleQuotes, RecipientsOf, TypeOK, QuoteRecord
  <2>2. comparisons' \in [ComparisonId -> ComparisonRecord]
    BY <1>8, <2>1 DEF Compare, TypeOK, ComparisonRecord, RoundRecord
  <2> QED
    BY <1>8, <2>2 DEF Compare, TypeOK, rfqVars, quoteVars, awardVars, ProcurementStatus
<1>9. ASSUME NEW c \in ComparisonId, NEW r \in Recipient, NEW a \in ApprovalId,
             RequestApproval(c, r, a)
      PROVE  TypeOK'
  BY <1>9 DEF RequestApproval, TypeOK, rfqVars, quoteVars, awardVars,
              ApprovalRecord, QuoteRecord
<1>10. ASSUME NEW a \in ApprovalId, NEW approve \in BOOLEAN, DecideApproval(a, approve)
       PROVE  TypeOK'
  BY <1>10 DEF DecideApproval, TypeOK, rfqVars, quoteVars, awardVars,
               ApprovalRecord, ProcurementStatus
<1>11. ASSUME NEW a \in ApprovalId, NEW w \in AwardId, SendAward(a, w) PROVE TypeOK'
  <2>1. approvals[a].recipient \in Recipient /\ approvals[a].quoteVersion \in Nat
    BY <1>11 DEF SendAward, ApprovalsNameQuotes, TypeOK, ApprovalRecord
  <2>2. quotes[approvals[a].recipient].submission \in Submission \cup {None}
    BY <2>1 DEF TypeOK, QuoteRecord
  <2>3. a \in Nat /\ now + AwardTtl \in Nat
    BY GatewayAssumption, BoundsAssumption DEF ApprovalId, TypeOK
  <2>4. awards' \in [AwardId -> AwardRecord]
    BY <1>11, <2>1, <2>2, <2>3 DEF SendAward, FirstSend, TypeOK, AwardRecord, DeliveryState
  <2> QED
    BY <1>11, <2>4 DEF SendAward, FirstSend, TypeOK, rfqVars, quoteVars, decisionVars,
                       DeliveryState, ProcurementStatus
<1>12. ASSUME NEW w \in AwardId, GetAwardStatus(w) PROVE TypeOK'
  BY <1>12, RefreshedAwardType
  DEF GetAwardStatus, TypeOK, rfqVars, quoteVars, decisionVars, ProcurementStatus
<1>13. ASSUME NEW w \in AwardId, NEW p \in Respondent, AcceptAward(w, p) PROVE TypeOK'
  <2>1. [RefreshedAward(w) EXCEPT !.status = "ACCEPTED", !.version = @ + 1,
                                  !.acceptedBy = p] \in AwardRecord
    <3> DEFINE version == RefreshedAward(w).version + 1
    <3>1. RefreshedAward(w) \in AwardRecord
      BY RefreshedAwardType
    <3>2. version \in Nat
      BY <3>1 DEF AwardRecord
    <3>3. [RefreshedAward(w) EXCEPT !.status = "ACCEPTED", !.version = version,
                                    !.acceptedBy = p] \in AwardRecord
      BY <3>1, <3>2, AwardAcceptance
    <3> QED
      BY <3>3
  <2> QED
    BY <1>13, <2>1
    DEF AcceptAward, TypeOK, rfqVars, quoteVars, decisionVars, ProcurementStatus
<1>14. ASSUME NEW w \in AwardId, DeclineAward(w) PROVE TypeOK'
  <2>1. [RefreshedAward(w) EXCEPT !.status = "DECLINED", !.version = @ + 1]
          \in AwardRecord
    <3> DEFINE version == RefreshedAward(w).version + 1
    <3>1. RefreshedAward(w) \in AwardRecord
      BY RefreshedAwardType
    <3>2. version \in Nat
      BY <3>1 DEF AwardRecord
    <3>3. [RefreshedAward(w) EXCEPT !.status = "DECLINED", !.version = version]
            \in AwardRecord
      BY <3>1, <3>2, AwardAnswer
    <3> QED
      BY <3>3
  <2> QED
    BY <1>14, <2>1
    DEF DeclineAward, TypeOK, rfqVars, quoteVars, decisionVars, ProcurementStatus
<1>15. ASSUME NEW w \in AwardId, NEW p \in Respondent, NEW k \in ReservationId,
              ConfirmReservation(w, p, k)
       PROVE  TypeOK'
  <2>1. reservations' \in [ReservationId -> ReservationRecord]
    BY <1>15, BoundsAssumption DEF ConfirmReservation, TypeOK, ReservationRecord, AwardId
  <2>2. awards' \in [AwardId -> AwardRecord]
    <3> DEFINE version == awards[w].version + 1
    <3>1. version \in Nat
      BY DEF TypeOK, AwardRecord
    <3>2. awards' = [awards EXCEPT ![w].version = version, ![w].ready = TRUE]
      BY <1>15 DEF ConfirmReservation
    <3> HIDE DEF version
    <3> QED
      BY <3>1, <3>2, AwardReady DEF TypeOK
  <2> QED
    BY <1>15, <2>1, <2>2
    DEF ConfirmReservation, TypeOK, rfqVars, quoteVars, decisionVars, ProcurementStatus
<1>16. ASSUME NEW r \in Recipient, NEW s \in Submission, SubmitQuote(r, s) PROVE TypeOK'
  <2>1. quotes' \in [Recipient -> QuoteRecord]
    BY <1>16 DEF SubmitQuote, TypeOK, QuoteRecord
  <2>2. quoteVersions' \in [Recipient -> Seq(Submission)]
    BY <1>16 DEF SubmitQuote, TypeOK
  <2>3. rounds' \in [Round -> RoundRecord]
    <3> DEFINE rd == RoundOf[r]
               n == rounds[rd].collection + 1
    <3>1. rd \in Round
      OBVIOUS
    <3>2. n \in Nat
      BY <3>1 DEF TypeOK, RoundRecord
    <3>3. rounds' = [rounds EXCEPT ![rd].collection = n]
      BY <1>16 DEF SubmitQuote
    <3> HIDE DEF rd, n
    <3> QED
      BY <3>1, <3>2, <3>3 DEF TypeOK, RoundRecord
  <2>4. approvals' \in [ApprovalId -> ApprovalRecord]
    <3>1. ASSUME NEW a \in ApprovalId
          PROVE  [approvals[a] EXCEPT !.status = "INVALIDATED", !.version = @ + 1]
                   \in ApprovalRecord
      <4>1. approvals[a] \in ApprovalRecord /\ approvals[a].version + 1 \in Nat
        BY DEF TypeOK, ApprovalRecord
      <4> QED
        BY <4>1, ApprovalUpdate
    <3> QED
      BY <1>16, <3>1 DEF SubmitQuote, InvalidateApprovalsForQuote, TypeOK
  <2>5. procurementStatus' \in ProcurementStatus
    BY <1>16 DEF SubmitQuote, InvalidateApprovalsForQuote, StatusAfterInvalidation,
                 TypeOK, ProcurementStatus
  <2> QED
    BY <1>16, <2>1, <2>2, <2>3, <2>4, <2>5 DEF SubmitQuote, TypeOK, awardVars
<1>17. CASE UNCHANGED vars
  BY <1>17 DEF vars, TypeOK
<1> QED
  BY <1>1, <1>2, <1>3, <1>4, <1>5, <1>6, <1>7, <1>8, <1>9, <1>10, <1>11, <1>12,
     <1>13, <1>14, <1>15, <1>16, <1>17
  DEF Next, GatewayNext, RfqNext, DecisionNext, SupplierNext

-----------------------------------------------------------------------------
(* Approvals and awards *)

\* Two award records with the same basis: the approval they rest on, the quote
\* version they carry and its terms.
SameBasis(x, y) ==
  /\ x.status = "NONE" <=> y.status = "NONE"
  /\ x.approval = y.approval
  /\ x.recipient = y.recipient
  /\ x.quoteVersion = y.quoteVersion
  /\ x.terms = y.terms

\* Delivery news, the supplier's answer and the reservation leave an award's
\* basis alone.
LEMMA BasisKept ==
  ASSUME TypeOK,
         \/ \E w \in AwardId : GetAwardStatus(w) \/ DeclineAward(w)
         \/ \E w \in AwardId, p \in Respondent : AcceptAward(w, p)
         \/ \E w \in AwardId, p \in Respondent, k \in ReservationId :
              ConfirmReservation(w, p, k)
  PROVE  \A v \in AwardId : SameBasis(awards[v], awards'[v])
<1> SUFFICES ASSUME NEW v \in AwardId PROVE SameBasis(awards[v], awards'[v])
  OBVIOUS
<1>1. awards \in [AwardId -> AwardRecord]
  BY DEF TypeOK
<1>2. ASSUME NEW w \in AwardId PROVE SameBasis(awards[w], RefreshedAward(w))
  BY <1>1 DEF SameBasis, RefreshedAward, AwardNews, AwardRecord
<1>3. ASSUME NEW w \in AwardId, GetAwardStatus(w)
      PROVE  SameBasis(awards[v], awards'[v])
  BY <1>1, <1>2, <1>3 DEF GetAwardStatus, SameBasis
<1>4. ASSUME NEW w \in AwardId, DeclineAward(w)
      PROVE  SameBasis(awards[v], awards'[v])
  <2>1. RefreshedAward(w) \in AwardRecord /\ RefreshedAward(w).status = "DELIVERED"
    BY <1>4, RefreshedAwardType DEF DeclineAward, MayRespond
  <2> QED
    BY <1>1, <1>2, <1>4, <2>1 DEF DeclineAward, SameBasis, AwardRecord
<1>5. ASSUME NEW w \in AwardId, NEW p \in Respondent, AcceptAward(w, p)
      PROVE  SameBasis(awards[v], awards'[v])
  <2>1. RefreshedAward(w) \in AwardRecord /\ RefreshedAward(w).status = "DELIVERED"
    BY <1>5, RefreshedAwardType DEF AcceptAward, MayRespond
  <2> QED
    BY <1>1, <1>2, <1>5, <2>1 DEF AcceptAward, SameBasis, AwardRecord
<1>6. ASSUME NEW w \in AwardId, NEW p \in Respondent, NEW k \in ReservationId,
             ConfirmReservation(w, p, k)
      PROVE  SameBasis(awards[v], awards'[v])
  BY <1>1, <1>6 DEF ConfirmReservation, SameBasis, AwardRecord
<1> QED
  BY <1>3, <1>4, <1>5, <1>6

\* A step that leaves the quotes, their history, the approvals and the basis of
\* every award alone preserves the whole invariant.
LEMMA AwardInvFrame ==
  ASSUME AwardInv, TypeOK',
         UNCHANGED <<quotes, quoteVersions, approvals>>,
         \A v \in AwardId : SameBasis(awards[v], awards'[v])
  PROVE  AwardInv'
<1>1. ApprovalsNameQuotes' /\ HistoryIsCurrent' /\ LiveApprovalsAreCurrent'
  BY DEF AwardInv, ApprovalsNameQuotes, HistoryIsCurrent, LiveApprovalsAreCurrent,
         SelectedQuoteUnchanged
<1>2. AwardIds' = AwardIds
  BY DEF AwardIds, SameBasis
<1>3. AwardsRestOnApprovals'
  BY <1>2 DEF AwardInv, AwardsRestOnApprovals, AwardIds, SameBasis
<1>4. OneAwardPerApproval'
  BY <1>2 DEF AwardInv, OneAwardPerApproval, AwardIds, SameBasis
<1> QED
  BY <1>1, <1>3, <1>4 DEF AwardInv

\* A resubmission overtakes the live approvals of the quote, and an award on
\* any of them would have forbidden it.
LEMMA SubmitQuoteAwardInv ==
  ASSUME AwardInv, TypeOK', NEW r \in Recipient, NEW s \in Submission, SubmitQuote(r, s)
  PROVE  AwardInv'
<1> DEFINE version == quotes[r].version + 1
<1>1. /\ quotes' = [quotes EXCEPT ![r] =
           [status |-> IF Compliant[s] THEN "FINAL" ELSE "NEEDS_CLARIFICATION",
            version |-> version, submission |-> s]]
      /\ quoteVersions' = [quoteVersions EXCEPT ![r] = Append(@, s)]
      /\ InvalidateApprovalsForQuote(r, version)
      /\ UNCHANGED awards
      /\ ~AwardExistsFor(r)
  BY DEF SubmitQuote, awardVars
<1>2. quotes \in [Recipient -> QuoteRecord] /\ quoteVersions \in [Recipient -> Seq(Submission)]
  BY DEF AwardInv, TypeOK
<1>3. version \in Nat /\ version > 0
  BY <1>2 DEF QuoteRecord
<1>4. ASSUME NEW a \in ApprovalId
      PROVE  /\ approvals'[a].recipient = approvals[a].recipient
             /\ approvals'[a].quoteVersion = approvals[a].quoteVersion
             /\ a \notin Overtaken(r, version) => approvals'[a] = approvals[a]
             /\ a \in Overtaken(r, version) => approvals'[a].status = "INVALIDATED"
  <2>1. approvals[a] \in ApprovalRecord
    BY DEF AwardInv, TypeOK
  <2> QED
    BY <1>1, <2>1 DEF InvalidateApprovalsForQuote, ApprovalRecord
<1>5. ApprovalsNameQuotes'
  BY <1>4 DEF ApprovalsNameQuotes, AwardInv, Overtaken
<1>6. HistoryIsCurrent'
  <2> SUFFICES ASSUME NEW x \in Recipient
               PROVE  /\ Len(quoteVersions'[x]) = quotes'[x].version
                      /\ quotes'[x].status # "NONE" =>
                           /\ quotes'[x].version > 0
                           /\ quoteVersions'[x][quotes'[x].version] = quotes'[x].submission
    BY DEF HistoryIsCurrent
  <2>1. CASE x = r
    <3>1. /\ quoteVersions'[r] = Append(quoteVersions[r], s)
          /\ quotes'[r].version = version
          /\ quotes'[r].submission = s
      BY <1>1, <1>2
    <3>2. Len(quoteVersions[r]) + 1 = version /\ quoteVersions[r] \in Seq(Submission)
      BY <1>2 DEF AwardInv, HistoryIsCurrent
    <3> QED
      BY <1>3, <2>1, <3>1, <3>2
  <2>2. CASE x # r
    BY <1>1, <1>2, <2>2 DEF AwardInv, HistoryIsCurrent
  <2> QED
    BY <2>1, <2>2
<1>7. LiveApprovalsAreCurrent'
  <2> SUFFICES ASSUME NEW a \in ApprovalId,
                      approvals'[a].status \in {"REQUESTED", "APPROVED"}
               PROVE  approvals'[a].quoteVersion = quotes'[approvals'[a].recipient].version
    BY DEF LiveApprovalsAreCurrent, SelectedQuoteUnchanged
  <2>1. approvals'[a] = approvals[a] /\ a \notin Overtaken(r, version)
    BY <1>4
  <2>2. CASE approvals[a].recipient = r
    BY <1>1, <1>2, <2>1, <2>2 DEF Overtaken
  <2>3. CASE approvals[a].recipient # r
    <3>1. approvals[a].recipient \in Recipient
      BY <2>1 DEF AwardInv, ApprovalsNameQuotes
    <3> QED
      BY <1>1, <1>2, <2>1, <2>3, <3>1
      DEF AwardInv, LiveApprovalsAreCurrent, SelectedQuoteUnchanged
  <2> QED
    BY <2>2, <2>3
<1>8. AwardsRestOnApprovals' /\ OneAwardPerApproval'
  <2>1. AwardIds' = AwardIds
    BY <1>1 DEF AwardIds
  <2>2. OneAwardPerApproval'
    BY <1>1, <2>1 DEF AwardInv, OneAwardPerApproval, AwardIds
  <2>3. ASSUME NEW w \in AwardIds
        PROVE  /\ awards[w].recipient # r
               /\ awards[w].recipient \in Recipient
    <3>1. /\ awards[w].approval \in ApprovalId
          /\ approvals[awards[w].approval].recipient = awards[w].recipient
          /\ approvals[awards[w].approval].status = "APPROVED"
      BY DEF AwardInv, AwardsRestOnApprovals
    <3>2. Awarded(awards[w].approval)
      BY DEF Awarded, AwardIds
    <3> QED
      BY <1>1, <3>1, <3>2 DEF AwardExistsFor, AwardInv, ApprovalsNameQuotes
  <2>4. AwardsRestOnApprovals'
    <3>1. ASSUME NEW w \in AwardIds
          PROVE  /\ awards[w].approval \in ApprovalId
                 /\ approvals'[awards[w].approval] = approvals[awards[w].approval]
                 /\ quotes'[awards[w].recipient] = quotes[awards[w].recipient]
                 /\ quoteVersions'[awards[w].recipient] = quoteVersions[awards[w].recipient]
      <4>1. /\ awards[w].approval \in ApprovalId
            /\ approvals[awards[w].approval].recipient = awards[w].recipient
        BY DEF AwardInv, AwardsRestOnApprovals
      <4>2. awards[w].approval \notin Overtaken(r, version)
        BY <2>3, <4>1 DEF Overtaken
      <4> QED
        BY <1>1, <1>2, <1>4, <2>3, <4>1, <4>2
    <3>2. awards' = awards
      BY <1>1
    <3>3. AwardsRestOnApprovals
      BY DEF AwardInv
    <3> QED
      BY <2>1, <3>1, <3>2, <3>3 DEF AwardsRestOnApprovals
  <2> QED
    BY <2>2, <2>4
<1> QED
  BY <1>5, <1>6, <1>7, <1>8 DEF AwardInv

\* An award copies the current version of a quote whose approval stands, and
\* that approval has no other award.
LEMMA SendAwardAwardInv ==
  ASSUME AwardInv, TypeOK', NEW a \in ApprovalId, NEW w \in AwardId, SendAward(a, w)
  PROVE  AwardInv'
<1> DEFINE r == approvals[a].recipient
<1>1. /\ UNCHANGED <<quotes, quoteVersions, approvals>>
      /\ approvals[a].status = "APPROVED"
      /\ SelectedQuoteUnchanged(a)
      /\ quotes[r].status = "FINAL"
      /\ ~Awarded(a)
      /\ w \notin AwardIds
  BY DEF SendAward, StillValid, IsNewId, quoteVars, decisionVars
<1>2. r \in Recipient
  BY <1>1 DEF AwardInv, ApprovalsNameQuotes
<1>3. awards \in [AwardId -> AwardRecord]
  BY DEF AwardInv, TypeOK
<1>4. /\ awards'[w].status # "NONE"
      /\ awards'[w].approval = a
      /\ awards'[w].recipient = r
      /\ awards'[w].quoteVersion = approvals[a].quoteVersion
      /\ awards'[w].terms = quotes[r].submission
      /\ \A v \in AwardId : v # w => awards'[v] = awards[v]
  BY <1>3 DEF SendAward, FirstSend
<1>5. AwardIds' = AwardIds \cup {w}
  BY <1>4 DEF AwardIds
<1>6. ApprovalsNameQuotes' /\ HistoryIsCurrent' /\ LiveApprovalsAreCurrent'
  BY <1>1 DEF AwardInv, ApprovalsNameQuotes, HistoryIsCurrent, LiveApprovalsAreCurrent,
              SelectedQuoteUnchanged
<1>7. AwardsRestOnApprovals'
  <2> SUFFICES ASSUME NEW v \in AwardIds \cup {w}
               PROVE  /\ awards'[v].approval \in ApprovalId
                      /\ approvals[awards'[v].approval].status = "APPROVED"
                      /\ approvals[awards'[v].approval].recipient = awards'[v].recipient
                      /\ approvals[awards'[v].approval].quoteVersion = awards'[v].quoteVersion
                      /\ awards'[v].quoteVersion = quotes[awards'[v].recipient].version
                      /\ awards'[v].terms
                           = quoteVersions[awards'[v].recipient][awards'[v].quoteVersion]
    BY <1>1, <1>5 DEF AwardsRestOnApprovals
  <2>1. CASE v = w
    BY <1>1, <1>2, <1>4, <2>1 DEF AwardInv, HistoryIsCurrent, SelectedQuoteUnchanged
  <2>2. CASE v # w
    BY <1>4, <2>2 DEF AwardInv, AwardsRestOnApprovals, AwardIds
  <2> QED
    BY <2>1, <2>2
<1>8. OneAwardPerApproval'
  <2>1. \A v \in AwardIds : awards[v].approval # a
    BY <1>1 DEF Awarded, AwardIds
  <2> QED
    BY <1>4, <1>5, <2>1 DEF AwardInv, OneAwardPerApproval, AwardIds
<1> QED
  BY <1>6, <1>7, <1>8 DEF AwardInv

\* AwardInv is inductive.
LEMMA NextAwardInv == AwardInv /\ [Next]_vars => AwardInv'
<1> SUFFICES ASSUME AwardInv, [Next]_vars PROVE AwardInv'
  OBVIOUS
<1>0. TypeOK'
  BY NextType DEF AwardInv
<1>1. ASSUME UNCHANGED <<quotes, quoteVersions, approvals, awards>> PROVE AwardInv'
  BY <1>0, <1>1, AwardInvFrame DEF SameBasis
<1>2. CASE Tick
  BY <1>1, <1>2 DEF Tick, quoteVars, decisionVars, awardVars
<1>3. CASE GatewayNext
  BY <1>1, <1>3 DEF GatewayNext, Ack, Fail, AckAward, FailAward, quoteVars,
                    decisionVars, awardVars
<1>4. ASSUME NEW rd \in Round,
             \/ \E deadline \in 1..MaxTime : CreateRound(rd, deadline)
             \/ SendRound(rd)
             \/ GetDeliveryStatus(rd)
             \/ \E c \in ComparisonId : Compare(rd, c)
      PROVE  AwardInv'
  BY <1>1, <1>4 DEF CreateRound, SendRound, GetDeliveryStatus, Compare, quoteVars,
                    decisionVars, awardVars
<1>5. ASSUME NEW rd \in Round, GetQuoteStatus(rd) PROVE AwardInv'
  <2>1. UNCHANGED <<quoteVersions, approvals, awards>>
    BY <1>5 DEF GetQuoteStatus, decisionVars, awardVars
  <2>2. ASSUME NEW r \in Recipient
        PROVE  /\ quotes'[r].version = quotes[r].version
               /\ quotes'[r].submission = quotes[r].submission
               /\ quotes'[r].status # "NONE" => quotes[r].status # "NONE"
    <3>1. quotes[r] \in QuoteRecord
      BY DEF AwardInv, TypeOK
    <3> QED
      BY <1>5, <3>1 DEF GetQuoteStatus, ExpireQuotes, Expirable, QuoteRecord
  <2>3. ApprovalsNameQuotes' /\ HistoryIsCurrent'
    BY <2>1, <2>2 DEF AwardInv, ApprovalsNameQuotes, HistoryIsCurrent
  <2>4. LiveApprovalsAreCurrent'
    BY <2>1, <2>2 DEF AwardInv, ApprovalsNameQuotes, LiveApprovalsAreCurrent,
                      SelectedQuoteUnchanged
  <2>5. OneAwardPerApproval'
    BY <2>1 DEF AwardInv, OneAwardPerApproval, AwardIds
  <2>6. AwardsRestOnApprovals'
    <3>1. \A w \in AwardIds : awards[w].recipient \in Recipient
      BY DEF AwardInv, AwardsRestOnApprovals, ApprovalsNameQuotes
    <3> QED
      BY <2>1, <2>2, <3>1 DEF AwardInv, AwardsRestOnApprovals, AwardIds
  <2> QED
    BY <1>0, <2>3, <2>4, <2>5, <2>6 DEF AwardInv
<1>6. ASSUME NEW c \in ComparisonId, NEW r \in Recipient, NEW a \in ApprovalId,
             RequestApproval(c, r, a)
      PROVE  AwardInv'
  <2>1. /\ UNCHANGED <<quotes, quoteVersions, awards>>
        /\ approvals[a].status = "NONE"
        /\ approvals' = [approvals EXCEPT ![a] =
                           [status |-> "REQUESTED", version |-> 1, recipient |-> r,
                            quoteVersion |-> quotes[r].version]]
    BY <1>6 DEF RequestApproval, IsNewId, ApprovalIds, quoteVars, awardVars
  <2>2. approvals \in [ApprovalId -> ApprovalRecord]
    BY DEF AwardInv, TypeOK
  <2>3. ApprovalsNameQuotes' /\ HistoryIsCurrent' /\ LiveApprovalsAreCurrent'
    BY <2>1, <2>2 DEF AwardInv, ApprovalsNameQuotes, HistoryIsCurrent,
                      LiveApprovalsAreCurrent, SelectedQuoteUnchanged
  <2>4. AwardsRestOnApprovals' /\ OneAwardPerApproval'
    BY <2>1, <2>2 DEF AwardInv, AwardsRestOnApprovals, OneAwardPerApproval, AwardIds
  <2> QED
    BY <1>0, <2>3, <2>4 DEF AwardInv
<1>7. ASSUME NEW a \in ApprovalId, NEW approve \in BOOLEAN, DecideApproval(a, approve)
      PROVE  AwardInv'
  <2>1. /\ UNCHANGED <<quotes, quoteVersions, awards>>
        /\ approvals[a].status = "REQUESTED"
    BY <1>7 DEF DecideApproval, quoteVars, awardVars
  <2>2. /\ \A b \in ApprovalId : b # a => approvals'[b] = approvals[b]
        /\ approvals'[a].recipient = approvals[a].recipient
        /\ approvals'[a].quoteVersion = approvals[a].quoteVersion
    BY <1>7 DEF DecideApproval, AwardInv, TypeOK, ApprovalRecord
  <2>3. ApprovalsNameQuotes' /\ HistoryIsCurrent' /\ LiveApprovalsAreCurrent'
    BY <2>1, <2>2 DEF AwardInv, ApprovalsNameQuotes, HistoryIsCurrent,
                      LiveApprovalsAreCurrent, SelectedQuoteUnchanged
  <2>4. AwardsRestOnApprovals' /\ OneAwardPerApproval'
    BY <2>1, <2>2 DEF AwardInv, AwardsRestOnApprovals, OneAwardPerApproval, AwardIds
  <2> QED
    BY <1>0, <2>3, <2>4 DEF AwardInv
<1>8. ASSUME NEW a \in ApprovalId, NEW w \in AwardId, SendAward(a, w) PROVE AwardInv'
  BY <1>0, <1>8, SendAwardAwardInv
<1>9. ASSUME NEW r \in Recipient, NEW s \in Submission, SubmitQuote(r, s) PROVE AwardInv'
  BY <1>0, <1>9, SubmitQuoteAwardInv
<1>10. ASSUME \/ \E w \in AwardId : GetAwardStatus(w) \/ DeclineAward(w)
              \/ \E w \in AwardId, p \in Respondent : AcceptAward(w, p)
              \/ \E w \in AwardId, p \in Respondent, k \in ReservationId :
                   ConfirmReservation(w, p, k)
       PROVE  AwardInv'
  <2>1. UNCHANGED <<quotes, quoteVersions, approvals>>
    BY <1>10 DEF GetAwardStatus, AcceptAward, DeclineAward, ConfirmReservation,
                 quoteVars, decisionVars
  <2>2. \A v \in AwardId : SameBasis(awards[v], awards'[v])
    BY <1>10, BasisKept DEF AwardInv
  <2> QED
    BY <1>0, <2>1, <2>2, AwardInvFrame
<1>11. CASE UNCHANGED vars
  BY <1>1, <1>11 DEF vars
<1> QED
  BY <1>2, <1>3, <1>4, <1>5, <1>6, <1>7, <1>8, <1>9, <1>10, <1>11
  DEF Next, RfqNext, DecisionNext, SupplierNext

LEMMA InitAwardInv == Init => AwardInv
<1> SUFFICES ASSUME Init PROVE AwardInv
  OBVIOUS
<1>1. AwardIds = {}
  BY DEF Init, AwardIds, NoAward
<1> QED
  BY <1>1, InitType DEF Init, AwardInv, ApprovalsNameQuotes, HistoryIsCurrent,
     LiveApprovalsAreCurrent, AwardsRestOnApprovals, OneAwardPerApproval

LEMMA AwardInvariant == Spec => []AwardInv
BY InitAwardInv, NextAwardInv, PTL DEF Spec

\* The service only ever writes records of the declared shapes.
THEOREM TypeCorrect == Spec => []TypeOK
<1>1. AwardInv => TypeOK
  BY DEF AwardInv
<1> QED
  BY <1>1, AwardInvariant, PTL

\* An approval that is undecided or granted selects the current version of its
\* quote, in every history of resubmissions, expiries and decisions.
THEOREM ApprovalsFollowQuotes == Spec => []LiveApprovalsAreCurrent
<1>1. AwardInv => LiveApprovalsAreCurrent
  BY DEF AwardInv
<1> QED
  BY <1>1, AwardInvariant, PTL

\* Every award rests on a granted approval of exactly the quote version it
\* carries, and the supplier can no longer change that quote.
THEOREM AwardsAreApproved == Spec => []AwardsRestOnApprovals
<1>1. AwardInv => AwardsRestOnApprovals
  BY DEF AwardInv
<1> QED
  BY <1>1, AwardInvariant, PTL

\* No approval is ever awarded twice.
THEOREM AwardsAreUnique == Spec => []OneAwardPerApproval
<1>1. AwardInv => OneAwardPerApproval
  BY DEF AwardInv
<1> QED
  BY <1>1, AwardInvariant, PTL

-----------------------------------------------------------------------------
(* What one step may do to one record *)

\* To a round: nothing, its creation, a refresh, or an advance of its collection.
RoundStep(rd) ==
  \/ rounds'[rd] = rounds[rd]
  \/ /\ rounds[rd].status = "NONE" /\ rounds'[rd].status = "DRAFT"
     /\ rounds'[rd].version = 1 /\ rounds'[rd].collection = 0
     /\ procurementStatus' = "RFQ_DRAFT"
  \/ /\ rounds[rd].status # "NONE"
     /\ rounds'[rd].status = RefreshedStatus(rd, gateway')
     /\ rounds'[rd].version = rounds[rd].version + 1
     /\ rounds'[rd].collection = rounds[rd].collection
  \/ /\ rounds'[rd].status = rounds[rd].status
     /\ rounds'[rd].version = rounds[rd].version
     /\ rounds'[rd].collection >= rounds[rd].collection
     /\ rounds[rd].status = "NONE" => rounds'[rd].collection = rounds[rd].collection

\* A batch refresh makes a refresh step of its round.
LEMMA RefreshRoundStep ==
  ASSUME TypeOK, NEW rd \in Round, rounds[rd].status # "NONE",
         RefreshDeliveryBatch(rd, gateway'), NEW x \in Round
  PROVE  RoundStep(x)
<1>1. rounds[x] \in RoundRecord /\ rounds \in [Round -> RoundRecord]
  BY DEF TypeOK
<1>2. CASE rounds' = rounds
  BY <1>2 DEF RoundStep
<1>3. CASE rounds' = [rounds EXCEPT ![rd].status = RefreshedStatus(rd, gateway'),
                                    ![rd].version = @ + 1]
  <2>1. CASE x = rd
    BY <1>1, <1>3, <2>1 DEF RoundStep, RoundRecord
  <2>2. CASE x # rd
    BY <1>1, <1>3, <2>2 DEF RoundStep
  <2> QED
    BY <2>1, <2>2
<1> QED
  BY <1>2, <1>3 DEF RefreshDeliveryBatch

\* Every step of the service does one of these to a round.
LEMMA RoundSteps ==
  ASSUME TypeOK, BlankUntilCreated, [Next]_vars, NEW x \in Round
  PROVE  RoundStep(x)
<1>0. rounds[x] \in RoundRecord /\ rounds \in [Round -> RoundRecord]
  BY DEF TypeOK
<1>1. ASSUME rounds' = rounds PROVE RoundStep(x)
  BY <1>1 DEF RoundStep
<1>2. ASSUME NEW rd \in Round, NEW deadline \in 1..MaxTime, CreateRound(rd, deadline)
      PROVE  RoundStep(x)
  BY <1>0, <1>2 DEF CreateRound, RoundStep
<1>3. ASSUME NEW rd \in Round, SendRound(rd) PROVE RoundStep(x)
  BY <1>3, RefreshRoundStep DEF SendRound
<1>4. ASSUME NEW rd \in Round, GetDeliveryStatus(rd) PROVE RoundStep(x)
  <2>1. gateway' = gateway /\ rounds[rd].status # "NONE"
    BY <1>4 DEF GetDeliveryStatus
  <2>2. RefreshDeliveryBatch(rd, gateway')
    BY <1>4, <2>1 DEF GetDeliveryStatus, RefreshDeliveryBatch
  <2> QED
    BY <2>1, <2>2, RefreshRoundStep
<1>5. ASSUME NEW rd \in Round, GetQuoteStatus(rd) PROVE RoundStep(x)
  <2>1. /\ rounds' = [rounds EXCEPT ![rd].collection = CollectionAfterExpiry(rd)]
        /\ rounds[rd].status # "NONE"
    BY <1>5 DEF GetQuoteStatus, ExpireQuotes
  <2>2. CollectionAfterExpiry(rd) \in Nat /\ CollectionAfterExpiry(rd) >= rounds[rd].collection
    <3>1. rounds[rd].collection \in Nat /\ Cardinality(Expirable(rd)) \in Nat
      BY ExpiryCounts DEF TypeOK, RoundRecord
    <3> QED
      BY <3>1 DEF CollectionAfterExpiry
  <2>3. CASE x = rd
    BY <1>0, <2>1, <2>2, <2>3 DEF RoundStep, RoundRecord
  <2>4. CASE x # rd
    BY <1>0, <2>1, <2>4 DEF RoundStep
  <2> QED
    BY <2>3, <2>4
<1>6. ASSUME NEW r \in Recipient, NEW s \in Submission, SubmitQuote(r, s) PROVE RoundStep(x)
  <2> DEFINE rd == RoundOf[r]
  <2>1. rd \in Round /\ rounds[rd].status # "NONE"
    BY <1>6, RecipientsAssumption DEF SubmitQuote, BlankUntilCreated
  <2>2. rounds' = [rounds EXCEPT ![rd].collection = @ + 1]
    BY <1>6 DEF SubmitQuote
  <2> HIDE DEF rd
  <2>3. CASE x = rd
    BY <1>0, <2>1, <2>2, <2>3 DEF RoundStep, RoundRecord
  <2>4. CASE x # rd
    BY <1>0, <2>2, <2>4 DEF RoundStep
  <2> QED
    BY <2>3, <2>4
<1>7. CASE UNCHANGED vars \/ Tick \/ GatewayNext \/ DecisionNext
           \/ \E w \in AwardId : GetAwardStatus(w)
  BY <1>1, <1>7 DEF vars, Tick, GatewayNext, Ack, Fail, AckAward, FailAward, DecisionNext,
     RequestApproval, DecideApproval, SendAward, GetAwardStatus, rfqVars
<1>8. ASSUME \/ \E w \in AwardId, p \in Respondent : AcceptAward(w, p)
             \/ \E w \in AwardId : DeclineAward(w)
             \/ \E w \in AwardId, p \in Respondent, k \in ReservationId :
                  ConfirmReservation(w, p, k)
             \/ \E rd \in Round : \E c \in ComparisonId : Compare(rd, c)
      PROVE  RoundStep(x)
  BY <1>1, <1>8 DEF AcceptAward, DeclineAward, ConfirmReservation, Compare, rfqVars
<1> QED
  BY <1>2, <1>3, <1>4, <1>5, <1>6, <1>7, <1>8 DEF Next, RfqNext, SupplierNext

\* A message that was delivered stays so, and only a round that exists sends.
LEMMA GatewaySteps ==
  ASSUME TypeOK, [Next]_vars, NEW r \in Recipient
  PROVE  /\ gateway[r] = "DELIVERED" => gateway'[r] = "DELIVERED"
         /\ gateway'[r] # "NONE" => gateway[r] # "NONE" \/ rounds[RoundOf[r]].status # "NONE"
<1>1. gateway \in [Recipient -> {"NONE"} \cup DeliveryState]
  BY DEF TypeOK
<1>2. ASSUME NEW x \in Recipient, Ack(x) \/ Fail(x)
      PROVE  /\ gateway[r] = "DELIVERED" => gateway'[r] = "DELIVERED"
             /\ gateway'[r] # "NONE" => gateway[r] # "NONE"
  BY <1>1, <1>2 DEF Ack, Fail
<1>3. ASSUME NEW rd \in Round, SendRound(rd)
      PROVE  /\ gateway[r] = "DELIVERED" => gateway'[r] = "DELIVERED"
             /\ gateway'[r] # "NONE" => gateway[r] # "NONE" \/ rounds[RoundOf[r]].status # "NONE"
  <2>1. /\ rounds[rd].status # "NONE"
        /\ gateway'[r] = gateway[r] \/ (RoundOf[r] = rd /\ gateway[r] = "NONE")
    <3>1. /\ rounds[rd].status # "NONE"
          /\ gateway' = [s \in Recipient |->
                           IF RoundOf[s] = rd /\ gateway[s] = "NONE" THEN FirstSend
                           ELSE gateway[s]]
      BY <1>3 DEF SendRound
    <3>2. gateway'[r] = IF RoundOf[r] = rd /\ gateway[r] = "NONE" THEN FirstSend ELSE gateway[r]
      BY <3>1, Zenon
    <3> QED
      BY <3>1, <3>2
  <2> QED
    BY <2>1
<1>4. gateway' = gateway
        \/ (\E x \in Recipient : Ack(x) \/ Fail(x)) \/ (\E rd \in Round : SendRound(rd))
  BY DEF Next, vars, Tick, GatewayNext, AckAward, FailAward, RfqNext, CreateRound,
     GetDeliveryStatus, GetQuoteStatus, Compare, DecisionNext, RequestApproval, DecideApproval,
     SendAward, SupplierNext, SubmitQuote, AcceptAward, DeclineAward, ConfirmReservation,
     GetAwardStatus, rfqVars
<1> QED
  BY <1>2, <1>3, <1>4

\* A recipient changes only to what the gateway says of its message.
LEMMA RecipientSteps ==
  ASSUME TypeOK, [Next]_vars, NEW r \in Recipient
  PROVE  \/ recipients'[r] = recipients[r]
         \/ recipients'[r] = RefreshedRecipient(recipients[r], gateway'[r])
<1>1. recipients \in [Recipient -> RecipientRecord]
  BY DEF TypeOK
<1>2. ASSUME NEW rd \in Round, SendRound(rd) \/ GetDeliveryStatus(rd)
      PROVE  \/ recipients'[r] = recipients[r]
             \/ recipients'[r] = RefreshedRecipient(recipients[r], gateway'[r])
  BY <1>2 DEF SendRound, GetDeliveryStatus, RefreshDeliveryBatch
<1>3. recipients' = recipients
        \/ (\E rd \in Round : SendRound(rd) \/ GetDeliveryStatus(rd))
  BY DEF Next, vars, Tick, GatewayNext, Ack, Fail, AckAward, FailAward, RfqNext, CreateRound,
     GetQuoteStatus, Compare, DecisionNext, RequestApproval, DecideApproval,
     SendAward, SupplierNext, SubmitQuote, AcceptAward, DeclineAward, ConfirmReservation,
     GetAwardStatus, rfqVars
<1> QED
  BY <1>2, <1>3

\* To an approval: nothing, its request, its decision, or its invalidation.
ApprovalStep(a) ==
  \/ approvals'[a] = approvals[a]
  \/ /\ approvals[a].status = "NONE"
     /\ approvals'[a].status = "REQUESTED" /\ approvals'[a].version = 1
  \/ /\ approvals[a].status = "REQUESTED"
     /\ approvals'[a].status \in {"APPROVED", "REJECTED"}
     /\ approvals'[a].version = approvals[a].version + 1
  \/ /\ approvals[a].status \in {"REQUESTED", "APPROVED"}
     /\ approvals'[a].status = "INVALIDATED"
     /\ approvals'[a].version = approvals[a].version + 1
     /\ procurementStatus' = "AWAITING_COMPARISON"

\* Every step of the service does one of these to an approval.
LEMMA ApprovalSteps ==
  ASSUME TypeOK, [Next]_vars, NEW x \in ApprovalId
  PROVE  ApprovalStep(x)
<1>0. approvals[x] \in ApprovalRecord /\ approvals \in [ApprovalId -> ApprovalRecord]
  BY DEF TypeOK
<1>1. ASSUME NEW c \in ComparisonId, NEW r \in Recipient, NEW a \in ApprovalId,
             RequestApproval(c, r, a)
      PROVE  ApprovalStep(x)
  BY <1>0, <1>1 DEF RequestApproval, ApprovalStep, IsNewId, ApprovalIds
<1>2. ASSUME NEW a \in ApprovalId, NEW approve \in BOOLEAN, DecideApproval(a, approve)
      PROVE  ApprovalStep(x)
  <2>1. CASE x = a
    BY <1>0, <1>2, <2>1 DEF DecideApproval, ApprovalStep, ApprovalRecord
  <2>2. CASE x # a
    BY <1>0, <1>2, <2>2 DEF DecideApproval, ApprovalStep
  <2> QED
    BY <2>1, <2>2
<1>3. ASSUME NEW r \in Recipient, NEW s \in Submission, SubmitQuote(r, s)
      PROVE  ApprovalStep(x)
  <2> DEFINE n == quotes[r].version + 1
             version == approvals[x].version + 1
  <2>1. InvalidateApprovalsForQuote(r, n)
    BY <1>3 DEF SubmitQuote
  <2>2. version \in Nat
    BY <1>0 DEF ApprovalRecord
  <2>3. CASE x \in Overtaken(r, n)
    <3>1. /\ approvals'[x] = [approvals[x] EXCEPT !.status = "INVALIDATED",
                                                  !.version = version]
          /\ procurementStatus' = "AWAITING_COMPARISON"
      BY <2>1, <2>3 DEF InvalidateApprovalsForQuote, StatusAfterInvalidation
    <3> HIDE DEF version
    <3>2. approvals'[x].status = "INVALIDATED" /\ approvals'[x].version = version
      BY <1>0, <2>2, <3>1 DEF ApprovalRecord
    <3> QED
      BY <2>3, <3>1, <3>2 DEF ApprovalStep, Overtaken, version
  <2>4. CASE x \notin Overtaken(r, n)
    BY <2>1, <2>4 DEF InvalidateApprovalsForQuote, ApprovalStep
  <2> QED
    BY <2>3, <2>4
<1>4. \/ approvals' = approvals
      \/ \E c \in ComparisonId, r \in Recipient, a \in ApprovalId : RequestApproval(c, r, a)
      \/ \E a \in ApprovalId, approve \in BOOLEAN : DecideApproval(a, approve)
      \/ \E r \in Recipient, s \in Submission : SubmitQuote(r, s)
  BY DEF Next, vars, Tick, GatewayNext, Ack, Fail, AckAward, FailAward, RfqNext, CreateRound,
     SendRound, GetDeliveryStatus, GetQuoteStatus, Compare, DecisionNext,
     SendAward, SupplierNext, AcceptAward, DeclineAward, ConfirmReservation,
     GetAwardStatus, decisionVars
<1>5. approvals' = approvals => ApprovalStep(x)
  BY DEF ApprovalStep
<1> QED
  BY <1>1, <1>2, <1>3, <1>4, <1>5

\* To an award: nothing, its sending, news of its delivery, the supplier's
\* answer (after the news, if any), or the confirmation of its reservation.
AwardSent(w) ==
  /\ awards[w].status = "NONE"
  /\ awards'[w].status \in {"SENT_TO_GATEWAY", "DELIVERED"}
  /\ awards'[w].version = 1
  /\ awards'[w].ready = FALSE
  /\ awards'[w].emitted <=> awards'[w].status = "DELIVERED"
  /\ awards'[w].audits = IF awards'[w].status = "DELIVERED" THEN 1 ELSE 0

AwardReported(w) ==
  /\ awards[w].status = "SENT_TO_GATEWAY"
  /\ awards'[w].status \in {"DELIVERED", "FAILED"}
  /\ awards'[w].version > awards[w].version
  /\ awards'[w].ready = awards[w].ready
  /\ awards'[w].emitted <=> awards[w].emitted \/ awards'[w].status = "DELIVERED"
  /\ awards'[w].audits = IF awards'[w].status = "DELIVERED" /\ ~awards[w].emitted
                         THEN awards[w].audits + 1 ELSE awards[w].audits

AwardAnswered(w) ==
  /\ awards[w].status \in {"SENT_TO_GATEWAY", "DELIVERED"}
  /\ awards'[w].status \in {"ACCEPTED", "DECLINED"}
  /\ awards'[w].version > awards[w].version
  /\ awards'[w].ready = awards[w].ready
  /\ awards'[w].emitted <=> awards[w].emitted \/ awards[w].status = "SENT_TO_GATEWAY"
  /\ awards'[w].audits = IF awards[w].status = "SENT_TO_GATEWAY" /\ ~awards[w].emitted
                         THEN awards[w].audits + 1 ELSE awards[w].audits
  /\ procurementStatus' = IF awards'[w].status = "ACCEPTED" THEN "SUPPLIER_ACCEPTED"
                                                            ELSE "AWARD_DECLINED"

AwardReserved(w) ==
  /\ awards[w].status = "ACCEPTED" /\ ~Reserved(w) /\ Reserved(w)'
  /\ awards'[w].status = "ACCEPTED"
  /\ awards'[w].version = awards[w].version + 1
  /\ awards'[w].acceptedBy = awards[w].acceptedBy
  /\ awards'[w].ready = TRUE
  /\ awards'[w].emitted = awards[w].emitted /\ awards'[w].audits = awards[w].audits

AwardStep(w) ==
  \/ awards'[w] = awards[w]
  \/ AwardSent(w) \/ AwardReported(w) \/ AwardAnswered(w) \/ AwardReserved(w)

\* What get_award_status learns of an award in the gateway.
LEMMA RefreshedAwardNews ==
  ASSUME TypeOK, NEW w \in AwardId, AwardNews(w)
  PROVE  /\ awards[w].status = "SENT_TO_GATEWAY"
         /\ RefreshedAward(w).status = IF awardGateway[w] = "DELIVERED" THEN "DELIVERED"
                                                                      ELSE "FAILED"
         /\ RefreshedAward(w).version = awards[w].version + 1
         /\ RefreshedAward(w).ready = awards[w].ready
         /\ RefreshedAward(w).emitted <=> awards[w].emitted \/ awardGateway[w] = "DELIVERED"
         /\ RefreshedAward(w).audits =
              IF awardGateway[w] = "DELIVERED" /\ ~awards[w].emitted
              THEN awards[w].audits + 1 ELSE awards[w].audits
<1>1. awards[w] \in AwardRecord
  BY DEF TypeOK
<1> DEFINE version == awards[w].version + 1
           audits == IF awards[w].emitted THEN awards[w].audits ELSE awards[w].audits + 1
<1>2. version \in Nat /\ audits \in Nat
  BY <1>1 DEF AwardRecord
<1>3. awards[w].emitted \in BOOLEAN
  BY <1>1 DEF AwardRecord
<1>4. CASE awardGateway[w] = "DELIVERED"
  <2>1. RefreshedAward(w) = [awards[w] EXCEPT !.status = "DELIVERED", !.version = version,
                               !.emitted = TRUE, !.audits = audits]
    BY <1>4 DEF RefreshedAward
  <2> HIDE DEF version, audits
  <2>2. /\ RefreshedAward(w).status = "DELIVERED" /\ RefreshedAward(w).version = version
        /\ RefreshedAward(w).ready = awards[w].ready /\ RefreshedAward(w).emitted = TRUE
        /\ RefreshedAward(w).audits = audits
    BY <1>1, <2>1 DEF AwardRecord
  <2> QED
    BY <1>3, <1>4, <2>2 DEF AwardNews, version, audits
<1>5. CASE awardGateway[w] # "DELIVERED"
  <2>1. RefreshedAward(w) = [awards[w] EXCEPT !.status = "FAILED", !.version = version]
    BY <1>5 DEF RefreshedAward
  <2> HIDE DEF version
  <2>2. /\ RefreshedAward(w).status = "FAILED" /\ RefreshedAward(w).version = version
        /\ RefreshedAward(w).ready = awards[w].ready
        /\ RefreshedAward(w).emitted = awards[w].emitted
        /\ RefreshedAward(w).audits = awards[w].audits
    BY <1>1, <2>1 DEF AwardRecord
  <2> QED
    BY <1>3, <1>5, <2>2 DEF AwardNews, version
<1> QED
  BY <1>4, <1>5

\* What the answer of a supplier makes of its award.
LEMMA AnswerSteps ==
  ASSUME TypeOK, NEW w \in AwardId,
         DeclineAward(w) \/ \E p \in Respondent : AcceptAward(w, p)
  PROVE  AwardAnswered(w) /\ \A x \in AwardId : x # w => awards'[x] = awards[x]
<1> DEFINE news == RefreshedAward(w)
           version == news.version + 1
<1>1. /\ news \in AwardRecord /\ news.status = "DELIVERED"
      /\ awards \in [AwardId -> AwardRecord]
  BY RefreshedAwardType DEF AcceptAward, DeclineAward, MayRespond, TypeOK
<1>2. /\ awards[w].status \in {"SENT_TO_GATEWAY", "DELIVERED"}
      /\ awards[w].version \in Nat /\ news.version \in Nat
      /\ news.version >= awards[w].version /\ news.ready = awards[w].ready
      /\ news.emitted <=> awards[w].emitted \/ awards[w].status = "SENT_TO_GATEWAY"
      /\ news.audits = IF awards[w].status = "SENT_TO_GATEWAY" /\ ~awards[w].emitted
                       THEN awards[w].audits + 1 ELSE awards[w].audits
  <2>1. awards[w].version \in Nat /\ news.version \in Nat /\ awards[w].emitted \in BOOLEAN
    BY <1>1 DEF AwardRecord
  <2>2. CASE AwardNews(w)
    BY <1>1, <2>1, <2>2, RefreshedAwardNews
  <2>3. CASE ~AwardNews(w)
    <3>1. news = awards[w]
      BY <2>3 DEF RefreshedAward
    <3> HIDE DEF news
    <3> QED
      BY <1>1, <2>1, <3>1
  <2> QED
    BY <2>2, <2>3
<1>3. version \in Nat /\ version > awards[w].version
  BY <1>2
<1>4. \/ /\ \E p \in Respondent :
              awards' = [awards EXCEPT ![w] = [news EXCEPT !.status = "ACCEPTED",
                                               !.version = version, !.acceptedBy = p]]
         /\ procurementStatus' = "SUPPLIER_ACCEPTED"
      \/ /\ awards' = [awards EXCEPT ![w] = [news EXCEPT !.status = "DECLINED",
                                               !.version = version]]
         /\ procurementStatus' = "AWARD_DECLINED"
  BY DEF AcceptAward, DeclineAward
<1> HIDE DEF news, version
<1>5. /\ \/ awards'[w].status = "ACCEPTED" /\ procurementStatus' = "SUPPLIER_ACCEPTED"
         \/ awards'[w].status = "DECLINED" /\ procurementStatus' = "AWARD_DECLINED"
      /\ awards'[w].version = version
      /\ awards'[w].ready = news.ready /\ awards'[w].emitted = news.emitted
      /\ awards'[w].audits = news.audits
  <2>1. version \in Nat
    BY <1>3
  <2>2. ASSUME NEW y, awards' = [awards EXCEPT ![w] = y]
        PROVE  awards'[w] = y
    BY <1>1, <2>2
  <2>3. ASSUME NEW p \in Respondent,
               awards' = [awards EXCEPT ![w] = [news EXCEPT !.status = "ACCEPTED",
                                               !.version = version, !.acceptedBy = p]],
               procurementStatus' = "SUPPLIER_ACCEPTED"
        PROVE  /\ \/ awards'[w].status = "ACCEPTED" /\ procurementStatus' = "SUPPLIER_ACCEPTED"
                  \/ awards'[w].status = "DECLINED" /\ procurementStatus' = "AWARD_DECLINED"
               /\ awards'[w].version = version
               /\ awards'[w].ready = news.ready /\ awards'[w].emitted = news.emitted
               /\ awards'[w].audits = news.audits
    <3>1. awards'[w] = [news EXCEPT !.status = "ACCEPTED", !.version = version,
                                    !.acceptedBy = p]
      BY <2>2, <2>3
    <3> QED
      BY <1>1, <2>3, <3>1 DEF AwardRecord
  <2>4. CASE /\ awards' = [awards EXCEPT ![w] = [news EXCEPT !.status = "DECLINED",
                                                !.version = version]]
             /\ procurementStatus' = "AWARD_DECLINED"
    <3>1. awards'[w] = [news EXCEPT !.status = "DECLINED", !.version = version]
      BY <2>2, <2>4
    <3> QED
      BY <1>1, <2>4, <3>1 DEF AwardRecord
  <2> QED
    BY <1>4, <2>3, <2>4
<1>6. \A x \in AwardId : x # w => awards'[x] = awards[x]
  BY <1>1, <1>4
<1> QED
  BY <1>2, <1>3, <1>5, <1>6 DEF AwardAnswered

\* Every step of the service does one of these to an award.
LEMMA AwardSteps ==
  ASSUME TypeOK, [Next]_vars, NEW x \in AwardId
  PROVE  AwardStep(x)
<1>0. /\ awards[x] \in AwardRecord /\ awards \in [AwardId -> AwardRecord]
      /\ reservations \in [ReservationId -> ReservationRecord]
  BY DEF TypeOK
<1>1. awards'[x] = awards[x] => AwardStep(x)
  BY DEF AwardStep
<1>2. ASSUME NEW a \in ApprovalId, NEW w \in AwardId, SendAward(a, w)
      PROVE  AwardStep(x)
  <2>1. CASE x = w
    <3>1. awards[x].status = "NONE"
      BY <1>2, <2>1 DEF SendAward, IsNewId, AwardIds
    <3>2. /\ awards'[x].status = FirstSend
          /\ awards'[x].version = 1 /\ awards'[x].ready = FALSE
          /\ awards'[x].emitted <=> FirstSend = "DELIVERED"
          /\ awards'[x].audits = IF FirstSend = "DELIVERED" THEN 1 ELSE 0
      BY <1>0, <1>2, <2>1 DEF SendAward
    <3>3. FirstSend \in {"SENT_TO_GATEWAY", "DELIVERED"}
      BY DEF FirstSend
    <3>4. AwardSent(x)
      BY <3>1, <3>2, <3>3 DEF AwardSent
    <3> QED
      BY <3>4 DEF AwardStep
  <2>2. CASE x # w
    BY <1>0, <1>1, <1>2, <2>2 DEF SendAward
  <2> QED
    BY <2>1, <2>2
<1>3. ASSUME NEW w \in AwardId, GetAwardStatus(w)
      PROVE  AwardStep(x)
  <2>1. CASE x = w
    <3>1. AwardNews(x) /\ awards'[x] = RefreshedAward(x)
      BY <1>0, <1>3, <2>1 DEF GetAwardStatus
    <3>2. awards[x].version \in Nat
      BY <1>0 DEF AwardRecord
    <3>3. AwardReported(x)
      BY <3>1, <3>2, RefreshedAwardNews DEF AwardReported
    <3> QED
      BY <3>3 DEF AwardStep
  <2>2. CASE x # w
    BY <1>0, <1>1, <1>3, <2>2 DEF GetAwardStatus
  <2> QED
    BY <2>1, <2>2
<1>4. ASSUME NEW w \in AwardId,
             DeclineAward(w) \/ \E p \in Respondent : AcceptAward(w, p)
      PROVE  AwardStep(x)
  BY <1>1, <1>4, AnswerSteps DEF AwardStep
<1>5. ASSUME NEW w \in AwardId, NEW p \in Respondent, NEW k \in ReservationId,
             ConfirmReservation(w, p, k)
      PROVE  AwardStep(x)
  <2>1. CASE x = w
    <3>1. awards[x].status = "ACCEPTED" /\ ~Reserved(x) /\ Reserved(x)'
      BY <1>0, <1>5, <2>1 DEF ConfirmReservation, Reserved
    <3>2. awards' = [awards EXCEPT ![x].version = awards[x].version + 1, ![x].ready = TRUE]
      BY <1>5, <2>1 DEF ConfirmReservation
    <3>3. AwardReserved(x)
      BY <1>0, <3>1, <3>2 DEF AwardReserved, AwardRecord
    <3> QED
      BY <3>3 DEF AwardStep
  <2>2. CASE x # w
    BY <1>0, <1>1, <1>5, <2>2 DEF ConfirmReservation
  <2> QED
    BY <2>1, <2>2
<1>6. \/ awards' = awards
      \/ \E a \in ApprovalId, w \in AwardId : SendAward(a, w)
      \/ \E w \in AwardId : GetAwardStatus(w)
      \/ \E w \in AwardId, p \in Respondent : AcceptAward(w, p)
      \/ \E w \in AwardId : DeclineAward(w)
      \/ \E w \in AwardId, p \in Respondent, k \in ReservationId :
           ConfirmReservation(w, p, k)
  BY DEF Next, vars, Tick, GatewayNext, Ack, Fail, AckAward, FailAward, RfqNext, CreateRound,
     SendRound, GetDeliveryStatus, GetQuoteStatus, Compare, DecisionNext, RequestApproval,
     DecideApproval, SupplierNext, SubmitQuote, awardVars
<1> QED
  BY <1>1, <1>2, <1>3, <1>4, <1>5, <1>6

-----------------------------------------------------------------------------
(* Delivery: what is created, flagged and audited *)

\* Only a creation fills a blank record, and it gives the record its status.
LEMMA BlankUntilCreatedKept ==
  ASSUME TypeOK, BlankUntilCreated, [Next]_vars
  PROVE  BlankUntilCreated'
<1>1. ASSUME NEW rd \in Round
      PROVE  /\ rounds'[rd].status = "NONE" =>
                  rounds'[rd].version = 0 /\ rounds'[rd].collection = 0
             /\ rounds[rd].status # "NONE" => rounds'[rd].status # "NONE"
  <2>1. RoundStep(rd)
    BY RoundSteps
  <2> QED
    BY <2>1 DEF RoundStep, RefreshedStatus, BlankUntilCreated
<1>2. ASSUME NEW a \in ApprovalId
      PROVE  approvals'[a].status = "NONE" => approvals'[a].version = 0
  <2>1. ApprovalStep(a)
    BY ApprovalSteps
  <2> QED
    BY <2>1 DEF ApprovalStep, BlankUntilCreated
<1>3. ASSUME NEW w \in AwardId
      PROVE  awards'[w].status = "NONE" => awards'[w].version = 0
  <2>1. AwardStep(w)
    BY AwardSteps
  <2> QED
    BY <2>1 DEF AwardStep, AwardSent, AwardReported, AwardAnswered, AwardReserved,
                BlankUntilCreated
<1>4. ASSUME NEW r \in Recipient
      PROVE  gateway'[r] # "NONE" => rounds'[RoundOf[r]].status # "NONE"
  <2>1. RoundOf[r] \in Round
    BY RecipientsAssumption
  <2> QED
    BY <1>1, <2>1, GatewaySteps DEF BlankUntilCreated
<1> QED
  BY <1>1, <1>2, <1>3, <1>4 DEF BlankUntilCreated

\* The fields of a recipient whose message the gateway knows.
LEMMA RefreshedRecipientNews ==
  ASSUME NEW rc, NEW provider, provider # "NONE"
  PROVE  /\ RefreshedRecipient(rc, provider).status = provider
         /\ RefreshedRecipient(rc, provider).emitted <=> rc.emitted \/ provider = "DELIVERED"
         /\ RefreshedRecipient(rc, provider).audits =
              rc.audits + (IF provider = "DELIVERED" /\ ~rc.emitted THEN 1 ELSE 0)
<1> DEFINE flag == rc.emitted \/ provider = "DELIVERED"
           n == rc.audits + (IF provider = "DELIVERED" /\ ~rc.emitted THEN 1 ELSE 0)
<1>1. RefreshedRecipient(rc, provider) = [status |-> provider, emitted |-> flag, audits |-> n]
  BY Zenon DEF RefreshedRecipient
<1> HIDE DEF flag, n
<1>2. /\ RefreshedRecipient(rc, provider).status = provider
      /\ RefreshedRecipient(rc, provider).emitted = flag
      /\ RefreshedRecipient(rc, provider).audits = n
  BY <1>1
<1> QED
  BY <1>2, Zenon DEF flag, n

\* An audit event is written with the flag that prevents the next one.
LEMMA FlagsKept ==
  ASSUME TypeOK, TypeOK', FlagsAreTrue, DeliveriesAuditedOnce, [Next]_vars
  PROVE  FlagsAreTrue' /\ DeliveriesAuditedOnce'
<1>1. ASSUME NEW r \in Recipient
      PROVE  /\ recipients'[r].emitted <=> recipients'[r].status = "DELIVERED"
             /\ recipients'[r].status = "DELIVERED" => gateway'[r] = "DELIVERED"
             /\ recipients'[r].audits = IF recipients'[r].status = "DELIVERED" THEN 1 ELSE 0
  <2> DEFINE rc == recipients[r]
  <2>1. /\ rc \in RecipientRecord
        /\ rc.emitted <=> rc.status = "DELIVERED"
        /\ rc.status = "DELIVERED" => gateway'[r] = "DELIVERED"
        /\ rc.audits = IF rc.status = "DELIVERED" THEN 1 ELSE 0
    BY GatewaySteps DEF FlagsAreTrue, DeliveriesAuditedOnce, TypeOK
  <2> HIDE DEF rc
  <2>2. recipients'[r] = rc \/ recipients'[r] = RefreshedRecipient(rc, gateway'[r])
    BY RecipientSteps DEF rc
  <2>3. CASE recipients'[r] = rc
    BY <2>1, <2>3
  <2>4. CASE recipients'[r] = RefreshedRecipient(rc, gateway'[r]) /\ gateway'[r] = "DELIVERED"
    <3>1. /\ recipients'[r].status = "DELIVERED"
          /\ recipients'[r].emitted
          /\ recipients'[r].audits = rc.audits + (IF ~rc.emitted THEN 1 ELSE 0)
      BY <2>4, RefreshedRecipientNews
    <3> QED
      BY <2>1, <2>4, <3>1
  <2>5. CASE recipients'[r] = RefreshedRecipient(rc, gateway'[r]) /\ gateway'[r] # "DELIVERED"
    <3>1. rc.status # "DELIVERED" /\ rc.emitted = FALSE /\ rc.audits = 0
      BY <2>1, <2>5 DEF RecipientRecord
    <3>2. \/ recipients'[r] = rc
          \/ /\ recipients'[r].status # "DELIVERED"
             /\ ~recipients'[r].emitted
             /\ recipients'[r].audits = rc.audits + 0
      <4>1. CASE gateway'[r] = "NONE"
        BY <2>5, <4>1 DEF RefreshedRecipient
      <4>2. CASE gateway'[r] # "NONE"
        BY <2>5, <3>1, <4>2, RefreshedRecipientNews
      <4> QED
        BY <4>1, <4>2
    <3> QED
      BY <3>1, <3>2
  <2> QED
    BY <2>2, <2>3, <2>4, <2>5
<1>2. ASSUME NEW w \in AwardId
      PROVE  /\ awards'[w].emitted <=> awards'[w].status \in {"DELIVERED", "ACCEPTED", "DECLINED"}
             /\ awards'[w].audits =
                  IF awards'[w].status \in {"DELIVERED", "ACCEPTED", "DECLINED"} THEN 1 ELSE 0
  <2>1. /\ awards[w].emitted \in BOOLEAN /\ awards'[w].emitted \in BOOLEAN
        /\ awards[w].emitted <=> awards[w].status \in {"DELIVERED", "ACCEPTED", "DECLINED"}
        /\ awards[w].audits =
             IF awards[w].status \in {"DELIVERED", "ACCEPTED", "DECLINED"} THEN 1 ELSE 0
    BY DEF TypeOK, AwardRecord, FlagsAreTrue, DeliveriesAuditedOnce
  <2>2. CASE awards'[w] = awards[w]
    BY <2>1, <2>2
  <2>3. CASE AwardSent(w)
    BY <2>1, <2>3 DEF AwardSent
  <2>4. CASE AwardReported(w)
    BY <2>1, <2>4 DEF AwardReported
  <2>5. CASE AwardAnswered(w)
    BY <2>1, <2>5 DEF AwardAnswered
  <2>6. CASE AwardReserved(w)
    BY <2>1, <2>6 DEF AwardReserved
  <2> QED
    BY <2>2, <2>3, <2>4, <2>5, <2>6, AwardSteps DEF AwardStep
<1> QED
  BY <1>1, <1>2 DEF FlagsAreTrue, DeliveriesAuditedOnce

\* Once enough suppliers are reached they stay reached.
LEMMA ActivationLasts ==
  ASSUME TypeOK, [Next]_vars, NEW rd \in Round, Activation(rd, gateway)
  PROVE  Activation(rd, gateway')
<1> DEFINE reached == ConfirmedIn(rd, gateway)
           later == ConfirmedIn(rd, gateway')
<1>1. reached \subseteq later
  BY GatewaySteps DEF ConfirmedIn, RecipientsOf
<1>2. later \subseteq Recipient
  BY DEF ConfirmedIn, RecipientsOf
<1>3. IsFiniteSet(later)
  BY <1>2, RecipientsAssumption, FS_Subset
<1>4. /\ Cardinality(reached) \in Nat /\ Cardinality(later) \in Nat
      /\ Cardinality(reached) <= Cardinality(later)
  BY <1>1, <1>3, FS_Subset, FS_CardinalityType
<1>5. MinimumConfirmedDeliveries \in Nat
  BY PolicyAssumption
<1>6. Cardinality(reached) >= MinimumConfirmedDeliveries
  BY DEF Activation
<1> HIDE DEF reached, later
<1>7. Cardinality(later) >= MinimumConfirmedDeliveries
  BY <1>4, <1>5, <1>6
<1> QED
  BY <1>7 DEF Activation, later

\* A round becomes ACTIVE with its criterion met, and the criterion lasts.
LEMMA ActiveRoundsKept ==
  ASSUME TypeOK, BlankUntilCreated, ActiveRoundsAreDelivered, [Next]_vars
  PROVE  ActiveRoundsAreDelivered'
<1> SUFFICES ASSUME NEW rd \in Round, rounds'[rd].status = "ACTIVE"
             PROVE  Activation(rd, gateway')
  BY DEF ActiveRoundsAreDelivered, Activation, ConfirmedIn, RecipientsOf
<1>1. rounds[rd].status = "ACTIVE" => Activation(rd, gateway')
  BY ActivationLasts DEF ActiveRoundsAreDelivered, Activation, ConfirmedIn
<1>2. RoundStep(rd)
  BY RoundSteps
<1> QED
  BY <1>1, <1>2 DEF RoundStep, RefreshedStatus

-----------------------------------------------------------------------------
(* Reservations *)

\* Confirmation is the only step that writes a reservation, and no step takes
\* the acceptance of a reserved award back.
LEMMA ReservationsKept ==
  ASSUME TypeOK, ReservationsAreBacked, [Next]_vars
  PROVE  ReservationsAreBacked'
<1>0. /\ awards \in [AwardId -> AwardRecord]
      /\ reservations \in [ReservationId -> ReservationRecord]
      /\ 0 \notin AwardId
  BY DEF TypeOK, AwardId
<1>1. ASSUME NEW w \in AwardId, NEW p \in Respondent, NEW k \in ReservationId,
             ConfirmReservation(w, p, k)
      PROVE  ReservationsAreBacked'
  <2>1. /\ awards[w].status = "ACCEPTED" /\ awards[w].acceptedBy = p
        /\ ~Reserved(w) /\ k \notin ReservationIds
        /\ reservations' = [reservations EXCEPT ![k] = [award |-> w, confirmedBy |-> p]]
    BY <1>1 DEF ConfirmReservation, IsNewId
  <2>2. /\ reservations'[k].award = w /\ reservations'[k].confirmedBy = p
        /\ \A j \in ReservationId : j # k => reservations'[j] = reservations[j]
        /\ ReservationIds' = ReservationIds \cup {k}
    BY <1>0, <2>1 DEF ReservationIds
  <2>3. /\ awards'[w].status = "ACCEPTED" /\ awards'[w].acceptedBy = p
        /\ awards'[w].ready = TRUE
        /\ \A v \in AwardId : v # w => awards'[v] = awards[v]
    <3> DEFINE version == awards[w].version + 1
    <3>1. awards' = [awards EXCEPT ![w].version = version, ![w].ready = TRUE]
      BY <1>1 DEF ConfirmReservation
    <3> HIDE DEF version
    <3> QED
      BY <1>0, <2>1, <3>1 DEF AwardRecord
  <2>4. \A j \in ReservationIds : reservations[j].award # w
    BY <2>1 DEF Reserved, ReservationIds
  <2>5. \A j \in ReservationIds : j \in ReservationId /\ j # k
    BY <2>1 DEF ReservationIds
  <2>6. ASSUME NEW j \in ReservationIds \cup {k}
        PROVE  /\ reservations'[j].award \in AwardId
               /\ awards'[reservations'[j].award].status = "ACCEPTED"
               /\ awards'[reservations'[j].award].acceptedBy = reservations'[j].confirmedBy
    BY <2>2, <2>3, <2>4, <2>5 DEF ReservationsAreBacked
  <2>7. ASSUME NEW i \in ReservationIds \cup {k}, NEW j \in ReservationIds \cup {k},
               reservations'[i].award = reservations'[j].award
        PROVE  i = j
    BY <2>2, <2>4, <2>5, <2>7 DEF ReservationsAreBacked
  <2>8. ASSUME NEW v \in AwardId
        PROVE  awards'[v].ready <=> \E j \in ReservationIds' : reservations'[j].award = v
    BY <2>2, <2>3, <2>4, <2>5 DEF ReservationsAreBacked
  <2> QED
    BY <2>2, <2>6, <2>7, <2>8 DEF ReservationsAreBacked
<1>2. ASSUME reservations' = reservations
      PROVE  ReservationsAreBacked'
  <2>1. ReservationIds' = ReservationIds
    BY <1>2 DEF ReservationIds
  <2>2. ASSUME NEW w \in AwardId
        PROVE  \/ awards'[w] = awards[w]
               \/ /\ awards[w].status # "ACCEPTED"
                  /\ awards'[w].ready = awards[w].ready \/ awards'[w].ready = FALSE
    <3>1. Reserved(w)' = Reserved(w)
      BY <1>2 DEF Reserved
    <3> QED
      BY <3>1, AwardSteps
      DEF AwardStep, AwardSent, AwardReported, AwardAnswered, AwardReserved
  <2>3. ASSUME NEW w \in AwardId, awards[w].status # "ACCEPTED"
        PROVE  ~awards[w].ready /\ \A k \in ReservationIds : reservations[k].award # w
    BY <2>3 DEF ReservationsAreBacked
  <2>4. ASSUME NEW k \in ReservationIds
        PROVE  /\ reservations[k].award \in AwardId
               /\ awards'[reservations[k].award] = awards[reservations[k].award]
    BY <2>2, <2>3 DEF ReservationsAreBacked
  <2>5. ASSUME NEW w \in AwardId
        PROVE  awards'[w].ready <=> awards[w].ready
    BY <2>2, <2>3
  <2> QED
    BY <1>2, <2>1, <2>4, <2>5 DEF ReservationsAreBacked
<1>3. \/ reservations' = reservations
      \/ \E w \in AwardId, p \in Respondent, k \in ReservationId : ConfirmReservation(w, p, k)
  BY DEF Next, vars, Tick, GatewayNext, Ack, Fail, AckAward, FailAward, RfqNext, CreateRound,
     SendRound, GetDeliveryStatus, GetQuoteStatus, Compare, DecisionNext, RequestApproval,
     DecideApproval, SendAward, SupplierNext, SubmitQuote, AcceptAward, DeclineAward,
     GetAwardStatus, awardVars
<1> QED
  BY <1>1, <1>2, <1>3

-----------------------------------------------------------------------------
(* Comparisons *)

\* The collection of a round never moves back.
LEMMA CollectionGrows ==
  ASSUME TypeOK, TypeOK', BlankUntilCreated, [Next]_vars, NEW rd \in Round
  PROVE  /\ rounds[rd].collection \in Nat /\ rounds'[rd].collection \in Nat
         /\ rounds[rd].collection <= rounds'[rd].collection
<1>1. rounds[rd].collection \in Nat
  BY DEF TypeOK, RoundRecord
<1>2. RoundStep(rd)
  BY RoundSteps
<1>3. rounds'[rd].collection \in Nat
  BY DEF TypeOK, RoundRecord
<1> QED
  BY <1>1, <1>2, <1>3 DEF RoundStep, BlankUntilCreated

\* No step changes the eligible quotes of a round and keeps its collection.
LEMMA QuoteSteps ==
  ASSUME TypeOK, [Next]_vars, NEW x \in Round
  PROVE  \/ EligibleQuotes(x)' = EligibleQuotes(x)
         \/ rounds'[x].collection > rounds[x].collection
<1>0. /\ rounds \in [Round -> RoundRecord] /\ rounds[x].collection \in Nat
      /\ quotes \in [Recipient -> QuoteRecord]
  BY DEF TypeOK, RoundRecord
<1>1. ASSUME \A r \in RecipientsOf(x) : quotes'[r].status = quotes[r].status
                                        /\ quotes'[r].version = quotes[r].version
      PROVE  EligibleQuotes(x)' = EligibleQuotes(x)
  BY <1>1 DEF EligibleQuotes, RecipientsOf
<1>2. ASSUME NEW r \in Recipient, NEW s \in Submission, SubmitQuote(r, s)
      PROVE  \/ EligibleQuotes(x)' = EligibleQuotes(x)
             \/ rounds'[x].collection > rounds[x].collection
  <2>1. CASE RoundOf[r] = x
    <3>1. rounds' = [rounds EXCEPT ![x].collection = @ + 1]
      BY <1>2, <2>1 DEF SubmitQuote
    <3>2. rounds'[x].collection = rounds[x].collection + 1
      BY <1>0, <3>1 DEF RoundRecord
    <3> QED
      BY <1>0, <3>2
  <2>2. CASE RoundOf[r] # x
    <3>1. \A y \in Recipient : y # r => quotes'[y] = quotes[y]
      BY <1>0, <1>2 DEF SubmitQuote
    <3>2. \A y \in RecipientsOf(x) : y \in Recipient /\ y # r
      BY <2>2 DEF RecipientsOf
    <3> QED
      BY <1>1, <3>1, <3>2
  <2> QED
    BY <2>1, <2>2
<1>3. ASSUME NEW rd \in Round, GetQuoteStatus(rd)
      PROVE  \/ EligibleQuotes(x)' = EligibleQuotes(x)
             \/ rounds'[x].collection > rounds[x].collection
  <2>1. /\ rounds' = [rounds EXCEPT ![rd].collection = CollectionAfterExpiry(rd)]
        /\ \A r \in Recipient : r \notin Expirable(rd) => quotes'[r] = quotes[r]
    BY <1>3 DEF GetQuoteStatus, ExpireQuotes
  <2>2. CASE x # rd
    <3>1. \A r \in RecipientsOf(x) : r \in Recipient /\ r \notin Expirable(rd)
      BY <2>2 DEF RecipientsOf, Expirable
    <3> QED
      BY <1>1, <2>1, <3>1
  <2>3. CASE x = rd /\ Expirable(rd) = {}
    BY <1>1, <2>1, <2>3 DEF RecipientsOf
  <2>4. CASE x = rd /\ Expirable(rd) # {}
    <3>1. Expirable(rd) \subseteq Recipient
      BY DEF Expirable, RecipientsOf
    <3>2. IsFiniteSet(Expirable(rd))
      BY <3>1, RecipientsAssumption, FS_Subset
    <3>3. Cardinality(Expirable(rd)) \in Nat /\ Cardinality(Expirable(rd)) # 0
      BY <2>4, <3>2, FS_CardinalityType, FS_EmptySet
    <3>4. rounds'[x].collection = rounds[x].collection + Cardinality(Expirable(rd))
      <4>1. rounds'[x].collection = CollectionAfterExpiry(rd)
        <5> DEFINE c == CollectionAfterExpiry(rd)
        <5>1. rounds' = [rounds EXCEPT ![x].collection = c]
          BY <2>1, <2>4
        <5> HIDE DEF c
        <5>2. rounds[x] \in RoundRecord /\ rounds'[x] = [rounds[x] EXCEPT !.collection = c]
          BY <1>0, <5>1
        <5>3. rounds'[x].collection = c
          BY <5>2 DEF RoundRecord
        <5> QED
          BY <5>3 DEF c
      <4> QED
        BY <2>4, <4>1 DEF CollectionAfterExpiry
    <3> QED
      BY <1>0, <3>3, <3>4
  <2> QED
    BY <2>2, <2>3, <2>4
<1>4. \/ quotes' = quotes
      \/ \E r \in Recipient, s \in Submission : SubmitQuote(r, s)
      \/ \E rd \in Round : GetQuoteStatus(rd)
  BY DEF Next, vars, Tick, GatewayNext, Ack, Fail, AckAward, FailAward, RfqNext, CreateRound,
     SendRound, GetDeliveryStatus, Compare, DecisionNext, RequestApproval,
     DecideApproval, SendAward, SupplierNext, AcceptAward, DeclineAward, ConfirmReservation,
     GetAwardStatus, quoteVars
<1>5. quotes' = quotes => EligibleQuotes(x)' = EligibleQuotes(x)
  BY <1>1
<1> QED
  BY <1>2, <1>3, <1>4, <1>5

\* To a comparison: nothing, or the record of what is eligible now.
ComparisonStep(c) ==
  \/ comparisons'[c] = comparisons[c]
  \/ \E rd \in Round :
       /\ rounds' = rounds /\ quotes' = quotes
       /\ comparisons'[c] = [round |-> rd, collection |-> rounds[rd].collection,
                             candidates |-> EligibleQuotes(rd)]

\* Every step of the service does one of these to a comparison.
LEMMA ComparisonSteps ==
  ASSUME TypeOK, [Next]_vars, NEW x \in ComparisonId
  PROVE  ComparisonStep(x)
<1>0. comparisons \in [ComparisonId -> ComparisonRecord]
  BY DEF TypeOK
<1>1. ASSUME NEW rd \in Round, NEW c \in ComparisonId, Compare(rd, c)
      PROVE  ComparisonStep(x)
  BY <1>0, <1>1 DEF Compare, ComparisonStep, rfqVars, quoteVars
<1>2. \/ comparisons' = comparisons
      \/ \E rd \in Round, c \in ComparisonId : Compare(rd, c)
  BY DEF Next, vars, Tick, GatewayNext, Ack, Fail, AckAward, FailAward, RfqNext, CreateRound,
     SendRound, GetDeliveryStatus, GetQuoteStatus, DecisionNext, RequestApproval,
     DecideApproval, SendAward, SupplierNext, SubmitQuote, AcceptAward, DeclineAward,
     ConfirmReservation, GetAwardStatus, decisionVars
<1> QED
  BY <1>1, <1>2 DEF ComparisonStep

\* A comparison is of the collection of its moment, which only grows.
LEMMA ComparisonsKept ==
  ASSUME TypeOK, TypeOK', BlankUntilCreated, ComparisonsAreOfThePast,
         CollectionVersionIdentifiesQuotes, [Next]_vars
  PROVE  ComparisonsAreOfThePast' /\ CollectionVersionIdentifiesQuotes'
<1> SUFFICES ASSUME NEW c \in ComparisonId, NEW rd, comparisons'[c].round = rd, rd # None
             PROVE  /\ rd \in Round
                    /\ comparisons'[c].collection <= rounds'[rd].collection
                    /\ comparisons'[c].collection = rounds'[rd].collection
                         => comparisons'[c].candidates = EligibleQuotes(rd)'
  BY DEF ComparisonsAreOfThePast, CollectionVersionIdentifiesQuotes, ComparisonIds
<1>1. CASE comparisons'[c] = comparisons[c]
  <2>1. /\ rd \in Round
        /\ comparisons[c].collection <= rounds[rd].collection
        /\ comparisons[c].collection \in Nat
        /\ comparisons[c].collection = rounds[rd].collection
             => comparisons[c].candidates = EligibleQuotes(rd)
    BY <1>1 DEF ComparisonIds, ComparisonsAreOfThePast, CollectionVersionIdentifiesQuotes,
                TypeOK, ComparisonRecord
  <2>2. /\ rounds[rd].collection \in Nat /\ rounds'[rd].collection \in Nat
        /\ rounds[rd].collection <= rounds'[rd].collection
    BY <2>1, CollectionGrows
  <2>3. \/ EligibleQuotes(rd)' = EligibleQuotes(rd)
        \/ rounds'[rd].collection > rounds[rd].collection
    BY <2>1, QuoteSteps
  <2>4. comparisons[c].collection <= rounds'[rd].collection
    BY <2>1, <2>2
  <2>5. comparisons[c].collection = rounds'[rd].collection
          => comparisons[c].candidates = EligibleQuotes(rd)'
    BY <2>1, <2>2, <2>3
  <2> QED
    BY <1>1, <2>1, <2>4, <2>5
<1>2. CASE /\ rd \in Round /\ rounds' = rounds /\ quotes' = quotes
           /\ comparisons'[c] = [round |-> rd, collection |-> rounds[rd].collection,
                                 candidates |-> EligibleQuotes(rd)]
  <2>1. EligibleQuotes(rd)' = EligibleQuotes(rd)
    BY <1>2 DEF EligibleQuotes
  <2>2. rounds[rd].collection \in Nat
    BY <1>2 DEF TypeOK, RoundRecord
  <2> QED
    BY <1>2, <2>1, <2>2
<1>3. ASSUME NEW q \in Round, rounds' = rounds, quotes' = quotes,
             comparisons'[c] = [round |-> q, collection |-> rounds[q].collection,
                                candidates |-> EligibleQuotes(q)]
      PROVE  q = rd
  BY <1>3
<1> QED
  BY <1>1, <1>2, <1>3, ComparisonSteps DEF ComparisonStep

-----------------------------------------------------------------------------
(* The status of the request *)

\* What a step may take the evidence of the current status away from, it gives
\* a new status.
LEMMA EvidenceLasts ==
  ASSUME TypeOK, BlankUntilCreated, ActiveRoundsAreDelivered, ComparisonsAreOfThePast,
         [Next]_vars,
         NEW s \in ProcurementStatus, Evidence(s), procurementStatus' = s
  PROVE  Evidence(s)'
<1>1. CASE s = "NONE"
  <2>1. \A rd \in Round : rounds[rd].status = "NONE"
    BY <1>1 DEF Evidence
  <2>2. \A rd \in Round : rounds'[rd].status = "NONE"
    BY <1>1, <2>1, RoundSteps DEF RoundStep
  <2> QED
    BY <1>1, <2>2 DEF Evidence
<1>2. CASE s = "RFQ_DRAFT"
  <2>1. PICK rd \in Round : rounds[rd].status # "NONE"
    BY <1>2 DEF Evidence
  <2>2. rounds'[rd].status # "NONE"
    BY <2>1, RoundSteps DEF RoundStep, RefreshedStatus
  <2> QED
    BY <1>2, <2>2 DEF Evidence
<1>3. CASE s = "RFQ_ACTIVE"
  <2>1. PICK rd \in Round : rounds[rd].status = "ACTIVE"
    BY <1>3 DEF Evidence
  <2>2. Activation(rd, gateway')
    BY <2>1, ActivationLasts DEF ActiveRoundsAreDelivered, Activation, ConfirmedIn
  <2>3. rounds'[rd].status = "ACTIVE"
    BY <2>1, <2>2, RoundSteps DEF RoundStep, RefreshedStatus
  <2> QED
    BY <1>3, <2>3 DEF Evidence
<1>4. CASE s = "AWAITING_COMPARISON"
  <2>1. PICK a \in ApprovalId : approvals[a].status = "INVALIDATED"
    BY <1>4 DEF Evidence
  <2>2. approvals'[a].status = "INVALIDATED"
    BY <2>1, ApprovalSteps DEF ApprovalStep
  <2> QED
    BY <1>4, <2>2 DEF Evidence
<1>5. CASE s = "AWAITING_APPROVAL"
  <2>1. PICK c \in ComparisonId : comparisons[c].round # None
    BY <1>5 DEF Evidence, ComparisonIds
  <2>2. CASE comparisons'[c] = comparisons[c]
    BY <1>5, <2>1, <2>2 DEF Evidence, ComparisonIds
  <2>3. ASSUME NEW rd \in Round,
               comparisons'[c] = [round |-> rd, collection |-> rounds[rd].collection,
                                  candidates |-> EligibleQuotes(rd)]
        PROVE  Evidence(s)'
    <3>1. comparisons'[c].round # None
      BY <2>3, SubmissionAssumption
    <3> QED
      BY <1>5, <3>1 DEF Evidence, ComparisonIds
  <2> QED
    BY <2>2, <2>3, ComparisonSteps DEF ComparisonStep
<1>6. CASE s = "APPROVED"
  <2>1. PICK a \in ApprovalId : approvals[a].status = "APPROVED"
    BY <1>6 DEF Evidence
  <2>2. approvals'[a].status = "APPROVED"
    BY <1>6, <2>1, ApprovalSteps DEF ApprovalStep
  <2> QED
    BY <1>6, <2>2 DEF Evidence
<1>7. CASE s = "AWARD_SENT"
  <2>1. PICK w \in AwardId : awards[w].status = "DELIVERED"
    BY <1>7 DEF Evidence
  <2>2. awards'[w].status = "DELIVERED"
    BY <1>7, <2>1, AwardSteps
    DEF AwardStep, AwardSent, AwardReported, AwardAnswered, AwardReserved
  <2> QED
    BY <1>7, <2>2 DEF Evidence
<1>8. CASE s = "AWARD_DECLINED"
  <2>1. PICK w \in AwardId : awards[w].status = "DECLINED"
    BY <1>8 DEF Evidence
  <2>2. awards'[w].status = "DECLINED"
    BY <2>1, AwardSteps
    DEF AwardStep, AwardSent, AwardReported, AwardAnswered, AwardReserved
  <2> QED
    BY <1>8, <2>2 DEF Evidence
<1>9. CASE s = "SUPPLIER_ACCEPTED"
  <2>1. PICK w \in AwardId : awards[w].status = "ACCEPTED"
    BY <1>9 DEF Evidence
  <2>2. awards'[w].status = "ACCEPTED"
    BY <2>1, AwardSteps
    DEF AwardStep, AwardSent, AwardReported, AwardAnswered, AwardReserved
  <2> QED
    BY <1>9, <2>2 DEF Evidence
<1>10. CASE s = "READY_FOR_CONTRACTING"
  <2>1. PICK w \in AwardId : awards[w].status = "ACCEPTED" /\ awards[w].ready
    BY <1>10 DEF Evidence
  <2>2. awards'[w].status = "ACCEPTED" /\ awards'[w].ready
    BY <2>1, AwardSteps
    DEF AwardStep, AwardSent, AwardReported, AwardAnswered, AwardReserved
  <2> QED
    BY <1>10, <2>2 DEF Evidence
<1> QED
  BY <1>1, <1>2, <1>3, <1>4, <1>5, <1>6, <1>7, <1>8, <1>9, <1>10 DEF ProcurementStatus

\* A step gives the request a new status only with its evidence.
LEMMA StatusIsEarned ==
  ASSUME TypeOK, [Next]_vars, NEW s, procurementStatus' = s, procurementStatus # s
  PROVE  Evidence(s)'
<1>0. /\ rounds \in [Round -> RoundRecord] /\ approvals \in [ApprovalId -> ApprovalRecord]
      /\ awards \in [AwardId -> AwardRecord] /\ comparisons \in [ComparisonId -> ComparisonRecord]
  BY DEF TypeOK
<1>1. ASSUME NEW rd \in Round, NEW deadline \in 1..MaxTime, CreateRound(rd, deadline)
      PROVE  Evidence(s)'
  <2>1. s = "RFQ_DRAFT" /\ rounds'[rd].status = "DRAFT"
    BY <1>0, <1>1 DEF CreateRound
  <2> QED
    BY <2>1 DEF Evidence
<1>2. ASSUME NEW rd \in Round, SendRound(rd) \/ GetDeliveryStatus(rd)
      PROVE  Evidence(s)'
  <2>1. RefreshDeliveryBatch(rd, gateway')
    BY <1>2 DEF SendRound, GetDeliveryStatus, RefreshDeliveryBatch
  <2>2. s = "RFQ_ACTIVE" /\ Activation(rd, gateway')
    BY <2>1 DEF RefreshDeliveryBatch, StatusAfterRefresh
  <2>3. rounds'[rd].status = "ACTIVE"
    BY <1>0, <2>1, <2>2 DEF RefreshDeliveryBatch, RefreshedStatus, RoundRecord
  <2> QED
    BY <2>2, <2>3 DEF Evidence
<1>3. ASSUME NEW r \in Recipient, NEW q \in Submission, SubmitQuote(r, q)
      PROVE  Evidence(s)'
  <2> DEFINE n == quotes[r].version + 1
  <2>1. InvalidateApprovalsForQuote(r, n)
    BY <1>3 DEF SubmitQuote
  <2> HIDE DEF n
  <2>2. s = "AWAITING_COMPARISON" /\ Overtaken(r, n) # {}
    BY <2>1 DEF InvalidateApprovalsForQuote, StatusAfterInvalidation
  <2>3. PICK a \in ApprovalId : a \in Overtaken(r, n)
    BY <2>2 DEF Overtaken
  <2>4. approvals'[a].status = "INVALIDATED"
    BY <1>0, <2>1, <2>3 DEF InvalidateApprovalsForQuote, ApprovalRecord
  <2> QED
    BY <2>2, <2>4 DEF Evidence
<1>4. ASSUME NEW rd \in Round, NEW c \in ComparisonId, Compare(rd, c)
      PROVE  Evidence(s)'
  <2>1. s = "AWAITING_APPROVAL" /\ comparisons'[c].round = rd
    BY <1>0, <1>4 DEF Compare
  <2>2. c \in ComparisonIds'
    BY <2>1, SubmissionAssumption DEF ComparisonIds
  <2> QED
    BY <2>1, <2>2 DEF Evidence
<1>5. ASSUME NEW a \in ApprovalId, NEW approve \in BOOLEAN, DecideApproval(a, approve)
      PROVE  Evidence(s)'
  <2>1. s = "APPROVED" /\ approvals'[a].status = "APPROVED"
    BY <1>0, <1>5 DEF DecideApproval, ApprovalRecord
  <2> QED
    BY <2>1 DEF Evidence
<1>6. ASSUME NEW a \in ApprovalId, NEW w \in AwardId, SendAward(a, w)
      PROVE  Evidence(s)'
  <2>1. s = "AWARD_SENT" /\ awards'[w].status = "DELIVERED"
    BY <1>0, <1>6 DEF SendAward
  <2> QED
    BY <2>1 DEF Evidence
<1>7. ASSUME NEW w \in AwardId, GetAwardStatus(w)
      PROVE  Evidence(s)'
  <2>1. s = "AWARD_SENT" /\ awards'[w].status = "DELIVERED"
    BY <1>0, <1>7, RefreshedAwardNews DEF GetAwardStatus
  <2> QED
    BY <2>1 DEF Evidence
<1>8. ASSUME NEW w \in AwardId, DeclineAward(w) \/ \E p \in Respondent : AcceptAward(w, p)
      PROVE  Evidence(s)'
  <2>1. \/ s = "SUPPLIER_ACCEPTED" /\ awards'[w].status = "ACCEPTED"
        \/ s = "AWARD_DECLINED" /\ awards'[w].status = "DECLINED"
    BY <1>8, AnswerSteps DEF AwardAnswered
  <2> QED
    BY <2>1 DEF Evidence
<1>9. ASSUME NEW w \in AwardId, NEW p \in Respondent, NEW k \in ReservationId,
             ConfirmReservation(w, p, k)
      PROVE  Evidence(s)'
  <2> DEFINE version == awards[w].version + 1
  <2>1. /\ awards' = [awards EXCEPT ![w].version = version, ![w].ready = TRUE]
        /\ s = "READY_FOR_CONTRACTING" /\ awards[w].status = "ACCEPTED"
    BY <1>9 DEF ConfirmReservation
  <2> HIDE DEF version
  <2>2. awards'[w].status = "ACCEPTED" /\ awards'[w].ready
    BY <1>0, <2>1 DEF AwardRecord
  <2> QED
    BY <2>1, <2>2 DEF Evidence
<1>10. \/ \E rd \in Round, deadline \in 1..MaxTime : CreateRound(rd, deadline)
       \/ \E rd \in Round : SendRound(rd) \/ GetDeliveryStatus(rd)
       \/ \E r \in Recipient, q \in Submission : SubmitQuote(r, q)
       \/ \E rd \in Round, c \in ComparisonId : Compare(rd, c)
       \/ \E a \in ApprovalId, approve \in BOOLEAN : DecideApproval(a, approve)
       \/ \E a \in ApprovalId, w \in AwardId : SendAward(a, w)
       \/ \E w \in AwardId : GetAwardStatus(w)
       \/ \E w \in AwardId : DeclineAward(w) \/ \E p \in Respondent : AcceptAward(w, p)
       \/ \E w \in AwardId, p \in Respondent, k \in ReservationId : ConfirmReservation(w, p, k)
  BY DEF Next, vars, Tick, GatewayNext, Ack, Fail, AckAward, FailAward, RfqNext,
     GetQuoteStatus, DecisionNext, RequestApproval, SupplierNext
<1> QED
  BY <1>1, <1>2, <1>3, <1>4, <1>5, <1>6, <1>7, <1>8, <1>9, <1>10

\* The status keeps its evidence or is replaced together with it.
LEMMA StatusKept ==
  ASSUME TypeOK, BlankUntilCreated, ActiveRoundsAreDelivered, ComparisonsAreOfThePast,
         StatusHasEvidence, [Next]_vars
  PROVE  StatusHasEvidence'
<1> SUFFICES ASSUME NEW s, s = procurementStatus' PROVE Evidence(s)'
  BY DEF StatusHasEvidence
<1>1. CASE procurementStatus = s
  BY <1>1, EvidenceLasts DEF StatusHasEvidence, TypeOK
<1>2. CASE procurementStatus # s
  BY <1>2, StatusIsEarned
<1> QED
  BY <1>1, <1>2

-----------------------------------------------------------------------------
(* The whole invariant *)

\* ExecutionInv is inductive.
LEMMA NextExecutionInv == ExecutionInv /\ [Next]_vars => ExecutionInv'
<1> SUFFICES ASSUME ExecutionInv, [Next]_vars PROVE ExecutionInv'
  OBVIOUS
<1>1. AwardInv' /\ TypeOK /\ TypeOK'
  BY NextAwardInv DEF ExecutionInv, AwardInv
<1>2. BlankUntilCreated'
  BY <1>1, BlankUntilCreatedKept DEF ExecutionInv
<1>3. FlagsAreTrue' /\ DeliveriesAuditedOnce'
  BY <1>1, FlagsKept DEF ExecutionInv
<1>4. ActiveRoundsAreDelivered'
  BY <1>1, ActiveRoundsKept DEF ExecutionInv
<1>5. ReservationsAreBacked'
  BY <1>1, ReservationsKept DEF ExecutionInv
<1>6. ComparisonsAreOfThePast' /\ CollectionVersionIdentifiesQuotes'
  BY <1>1, ComparisonsKept DEF ExecutionInv
<1>7. StatusHasEvidence'
  BY <1>1, StatusKept DEF ExecutionInv
<1> QED
  BY <1>1, <1>2, <1>3, <1>4, <1>5, <1>6, <1>7 DEF ExecutionInv

LEMMA InitExecutionInv == Init => ExecutionInv
<1> SUFFICES ASSUME Init PROVE ExecutionInv
  OBVIOUS
<1>1. AwardInv
  BY InitAwardInv
<1>2. ComparisonIds = {} /\ ReservationIds = {}
  BY DEF Init, ComparisonIds, ReservationIds
<1>3. BlankUntilCreated /\ ActiveRoundsAreDelivered
  BY DEF Init, BlankUntilCreated, ActiveRoundsAreDelivered, NoRound, NoAward
<1>4. FlagsAreTrue /\ DeliveriesAuditedOnce
  BY DEF Init, FlagsAreTrue, DeliveriesAuditedOnce, NoAward
<1>5. ReservationsAreBacked
  BY <1>2 DEF Init, ReservationsAreBacked, NoAward
<1>6. ComparisonsAreOfThePast /\ CollectionVersionIdentifiesQuotes
  BY <1>2 DEF ComparisonsAreOfThePast, CollectionVersionIdentifiesQuotes
<1>7. StatusHasEvidence
  BY DEF Init, StatusHasEvidence, Evidence, NoRound
<1> QED
  BY <1>1, <1>3, <1>4, <1>5, <1>6, <1>7 DEF ExecutionInv

LEMMA ExecutionInvariant == Spec => []ExecutionInv
BY InitExecutionInv, NextExecutionInv, PTL DEF Spec

\* A round is ACTIVE only while enough suppliers really hold the RFQ, for every
\* policy, every set of recipients and every history of the gateway.
THEOREM ActiveRoundsHoldTheirCriterion == Spec => []ActiveRoundsAreDelivered
<1>1. ExecutionInv => ActiveRoundsAreDelivered
  BY DEF ExecutionInv
<1> QED
  BY <1>1, ExecutionInvariant, PTL

\* However often a message is sent and polled, its delivery is audited once.
THEOREM EachDeliveryIsAuditedOnce == Spec => []DeliveriesAuditedOnce
<1>1. ExecutionInv => DeliveriesAuditedOnce
  BY DEF ExecutionInv
<1> QED
  BY <1>1, ExecutionInvariant, PTL

\* Every reservation is backed by its own accepted award.
THEOREM EveryReservationIsBacked == Spec => []ReservationsAreBacked
<1>1. ExecutionInv => ReservationsAreBacked
  BY DEF ExecutionInv
<1> QED
  BY <1>1, ExecutionInvariant, PTL

\* A comparison whose collection is still current still compares the quotes.
THEOREM CollectionsIdentifyQuotes == Spec => []CollectionVersionIdentifiesQuotes
<1>1. ExecutionInv => CollectionVersionIdentifiesQuotes
  BY DEF ExecutionInv
<1> QED
  BY <1>1, ExecutionInvariant, PTL

\* The status of the request never claims what has not happened.
THEOREM StatusIsTrue == Spec => []StatusHasEvidence
<1>1. ExecutionInv => StatusHasEvidence
  BY DEF ExecutionInv
<1> QED
  BY <1>1, ExecutionInvariant, PTL

\* No step changes a round, an approval or an award and keeps its version.
THEOREM ChangesAreVersioned == Spec => VersionsWitnessChange
<1> DEFINE Versioned ==
     /\ \A rd \in Round : rounds'[rd].status # rounds[rd].status
                            => rounds'[rd].version > rounds[rd].version
     /\ \A a \in ApprovalId : approvals'[a] # approvals[a]
                            => approvals'[a].version > approvals[a].version
     /\ \A w \in AwardId : awards'[w] # awards[w]
                            => awards'[w].version > awards[w].version
<1>1. ExecutionInv /\ [Next]_vars => [Versioned]_vars
  <2> SUFFICES ASSUME ExecutionInv, [Next]_vars PROVE Versioned
    OBVIOUS
  <2>1. TypeOK /\ BlankUntilCreated
    BY DEF ExecutionInv, AwardInv
  <2>2. ASSUME NEW rd \in Round, rounds'[rd].status # rounds[rd].status
        PROVE  rounds'[rd].version > rounds[rd].version
    <3>1. RoundStep(rd) /\ rounds[rd].version \in Nat
      BY <2>1, RoundSteps DEF TypeOK, RoundRecord
    <3> QED
      BY <2>1, <2>2, <3>1 DEF RoundStep, BlankUntilCreated
  <2>3. ASSUME NEW a \in ApprovalId, approvals'[a] # approvals[a]
        PROVE  approvals'[a].version > approvals[a].version
    <3>1. ApprovalStep(a) /\ approvals[a].version \in Nat
      BY <2>1, ApprovalSteps DEF TypeOK, ApprovalRecord
    <3> QED
      BY <2>1, <2>3, <3>1 DEF ApprovalStep, BlankUntilCreated
  <2>4. ASSUME NEW w \in AwardId, awards'[w] # awards[w]
        PROVE  awards'[w].version > awards[w].version
    <3>1. AwardStep(w) /\ awards[w].version \in Nat
      BY <2>1, AwardSteps DEF TypeOK, AwardRecord
    <3> QED
      BY <2>1, <2>4, <3>1 DEF AwardStep, AwardSent, AwardReported, AwardAnswered,
                              AwardReserved, BlankUntilCreated
  <2> QED
    BY <2>2, <2>3, <2>4
<1> QED
  BY <1>1, ExecutionInvariant, PTL DEF Spec, VersionsWitnessChange

\* A supplier's answer and a failed delivery are never undone.
THEOREM AnswersStand == Spec => AnswersAreFinal
<1> DEFINE Final ==
     \A w \in AwardId :
       awards[w].status \in {"ACCEPTED", "DECLINED", "FAILED"} =>
         /\ awards'[w].status = awards[w].status
         /\ awards'[w].acceptedBy = awards[w].acceptedBy
         /\ awards[w].ready => awards'[w] = awards[w]
<1>1. ExecutionInv /\ [Next]_vars => [Final]_vars
  <2> SUFFICES ASSUME ExecutionInv, [Next]_vars,
                      NEW w \in AwardId, awards[w].status \in {"ACCEPTED", "DECLINED", "FAILED"}
               PROVE  /\ awards'[w].status = awards[w].status
                      /\ awards'[w].acceptedBy = awards[w].acceptedBy
                      /\ awards[w].ready => awards'[w] = awards[w]
    OBVIOUS
  <2>1. awards'[w] = awards[w] \/ AwardReserved(w)
    BY AwardSteps DEF ExecutionInv, AwardInv, AwardStep, AwardSent, AwardReported, AwardAnswered
  <2>2. AwardReserved(w) => ~awards[w].ready
    BY DEF AwardReserved, Reserved, ExecutionInv, ReservationsAreBacked, ReservationIds
  <2> QED
    BY <2>1, <2>2 DEF AwardReserved
<1> QED
  BY <1>1, ExecutionInvariant, PTL DEF Spec, AnswersAreFinal
=============================================================================
