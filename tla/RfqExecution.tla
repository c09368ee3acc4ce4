---------------------------- MODULE RfqExecution ----------------------------
(***************************************************************************)
(* The execution service of the RFQ channel, from the creation of an RFQ   *)
(* round to the confirmed reservation (ProcurementExecutionService in      *)
(* backend/app/modules/rfq/service.py), for ONE procurement request.       *)
(*                                                                         *)
(* Every command runs in one transaction that holds the lock on the        *)
(* execution snapshot (live/uow.py), so a handler is one action.  A        *)
(* command that a guard rejects, and the replay of a remembered            *)
(* idempotency key, change nothing and are stuttering steps.  A quote has  *)
(* a stable id per recipient, so the recipient stands for the quote id.    *)
(***************************************************************************)
EXTENDS Naturals, Sequences, FiniteSets

CONSTANTS
  Round,                       \* RFQ rounds the request may get
  Recipient,                   \* (round, supplier) pairs that receive an RFQ
  RoundOf,                     \* the round of each recipient
  MinimumConfirmedDeliveries,  \* ExecutionPolicySnapshot: activation
  MinimumValidQuotes,          \* ExecutionPolicySnapshot: comparison
  Submission,                  \* quote payloads, equal iff their hash is
  ValidUntil,                  \* the valid_until of each payload
  Compliant,                   \* the eligibility verdict on each payload
  Respondent,                  \* names a supplier signs with
  None,                        \* "no value"
  AutoAck,                     \* the gateway acknowledges inside send()
  AwardTtl,                    \* life of an award response token
  MaxTime,                     \* bound on the clock
  MaxQuoteVersion,             \* bound on resubmissions of one quote
  MaxComparisons, MaxApprovals, MaxAwards, MaxReservations \* bounds on ids

ASSUME RecipientsAssumption ==
  /\ IsFiniteSet(Recipient)
  /\ RoundOf \in [Recipient -> Round]

ASSUME PolicyAssumption ==
  /\ MinimumConfirmedDeliveries \in Nat \ {0}
  /\ MinimumValidQuotes \in Nat \ {0}

ASSUME SubmissionAssumption ==
  /\ ValidUntil \in [Submission -> Nat]
  /\ Compliant \in [Submission -> BOOLEAN]
  /\ None \notin Submission
  /\ None \notin Respondent
  /\ None \notin Round

ASSUME GatewayAssumption ==
  /\ AutoAck \in BOOLEAN
  /\ AwardTtl \in Nat \ {0}

ASSUME BoundsAssumption ==
  /\ MaxTime \in Nat
  /\ MaxQuoteVersion \in Nat
  /\ MaxComparisons \in Nat
  /\ MaxApprovals \in Nat
  /\ MaxAwards \in Nat
  /\ MaxReservations \in Nat

VARIABLES
  now,                \* the injected clock
  rounds,             \* store.rounds
  recipients,         \* store.recipients: what the service last saw
  gateway,            \* the gateway's own record of each RFQ message
  quotes,             \* store.quotes, by recipient
  quoteVersions,      \* store.quote_versions, by recipient
  comparisons,        \* store.comparisons
  approvals,          \* store.approvals
  awards,             \* store.awards (and award_by_approval_id)
  awardGateway,       \* the gateway's own record of each award message
  reservations,       \* store.reservations (and reservation_by_award_id)
  procurementStatus   \* store.procurement_status of the request

vars == <<now, rounds, recipients, gateway, quotes, quoteVersions, comparisons,
          approvals, awards, awardGateway, reservations, procurementStatus>>

rfqVars      == <<rounds, recipients, gateway>>
quoteVars    == <<quotes, quoteVersions>>
decisionVars == <<comparisons, approvals>>
awardVars    == <<awards, awardGateway, reservations>>

-----------------------------------------------------------------------------
(* Identifiers and records *)

ComparisonId  == 1..MaxComparisons
ApprovalId    == 1..MaxApprovals
AwardId       == 1..MaxAwards
ReservationId == 1..MaxReservations

DeliveryState == {"SENT_TO_GATEWAY", "DELIVERED", "FAILED"}

RoundRecord ==
  [status : {"NONE", "DRAFT", "DISPATCHING", "ACTIVE"}, version : Nat,
   deadline : Nat, collection : Nat]

\* audits counts the RFQ_DELIVERY_CONFIRMED events of the recipient in the
\* audit trail; emitted is the flag delivery_event_emitted.
RecipientRecord ==
  [status : {"PENDING"} \cup DeliveryState, emitted : BOOLEAN, audits : Nat]

\* A quote is eligible exactly while it is FINAL: submit_quote and
\* _expire_quotes always set the two fields together.
QuoteRecord ==
  [status : {"NONE", "FINAL", "NEEDS_CLARIFICATION", "EXPIRED"},
   version : Nat, submission : Submission \cup {None}]

\* candidates: the eligible quotes the comparison scored, with their versions.
ComparisonRecord ==
  [round : Round \cup {None}, collection : Nat,
   candidates : SUBSET (Recipient \X Nat)]

ApprovalRecord ==
  [status : {"NONE", "REQUESTED", "APPROVED", "REJECTED", "INVALIDATED"},
   version : Nat, recipient : Recipient \cup {None}, quoteVersion : Nat]

\* audits counts the AWARD_DELIVERY_CONFIRMED events of the award.
AwardRecord ==
  [status : {"NONE", "ACCEPTED", "DECLINED"} \cup DeliveryState,
   version : Nat, approval : Nat, recipient : Recipient \cup {None},
   quoteVersion : Nat, terms : Submission \cup {None}, expires : Nat,
   emitted : BOOLEAN, audits : Nat, acceptedBy : Respondent \cup {None},
   ready : BOOLEAN]

ReservationRecord == [award : Nat, confirmedBy : Respondent \cup {None}]

ProcurementStatus ==
  {"NONE", "RFQ_DRAFT", "RFQ_ACTIVE", "AWAITING_COMPARISON",
   "AWAITING_APPROVAL", "APPROVED", "AWARD_SENT", "AWARD_DECLINED",
   "SUPPLIER_ACCEPTED", "READY_FOR_CONTRACTING"}

NoRound == [status |-> "NONE", version |-> 0, deadline |-> 0, collection |-> 0]

NoAward ==
  [status |-> "NONE", version |-> 0, approval |-> 0, recipient |-> None,
   quoteVersion |-> 0, terms |-> None, expires |-> 0, emitted |-> FALSE,
   audits |-> 0, acceptedBy |-> None, ready |-> FALSE]

\* The store of a request for which nothing has been created.
Init ==
  /\ now = 0
  /\ rounds = [rd \in Round |-> NoRound]
  /\ recipients = [r \in Recipient |->
                     [status |-> "PENDING", emitted |-> FALSE, audits |-> 0]]
  /\ gateway = [r \in Recipient |-> "NONE"]
  /\ quotes = [r \in Recipient |->
                 [status |-> "NONE", version |-> 0, submission |-> None]]
  /\ quoteVersions = [r \in Recipient |-> << >>]
  /\ comparisons = [c \in ComparisonId |->
                      [round |-> None, collection |-> 0, candidates |-> {}]]
  /\ approvals = [a \in ApprovalId |->
                    [status |-> "NONE", version |-> 0, recipient |-> None,
                     quoteVersion |-> 0]]
  /\ awards = [w \in AwardId |-> NoAward]
  /\ awardGateway = [w \in AwardId |-> "NONE"]
  /\ reservations = [k \in ReservationId |->
                       [award |-> 0, confirmedBy |-> None]]
  /\ procurementStatus = "NONE"

-----------------------------------------------------------------------------
(* The clock and the delivery gateway *)

Tick ==
  /\ now < MaxTime
  /\ now' = now + 1
  /\ UNCHANGED <<rfqVars, quoteVars, decisionVars, awardVars, procurementStatus>>

\* The state of a message on its first send(); a second send() of the same
\* message is a replay of the gateway's idempotency key.
FirstSend == IF AutoAck THEN "DELIVERED" ELSE "SENT_TO_GATEWAY"

\* Delivery confirmation of an RFQ message (ack, or the supplier's opening of
\* a manual link).  A failed message can never be acknowledged.
Ack(r) ==
  /\ gateway[r] = "SENT_TO_GATEWAY"
  /\ gateway' = [gateway EXCEPT ![r] = "DELIVERED"]
  /\ UNCHANGED <<now, rounds, recipients, quoteVars, decisionVars, awardVars,
                 procurementStatus>>

\* Provider failure.  A delivered message can never fail.
Fail(r) ==
  /\ gateway[r] = "SENT_TO_GATEWAY"
  /\ gateway' = [gateway EXCEPT ![r] = "FAILED"]
  /\ UNCHANGED <<now, rounds, recipients, quoteVars, decisionVars, awardVars,
                 procurementStatus>>

AckAward(w) ==
  /\ awardGateway[w] = "SENT_TO_GATEWAY"
  /\ awardGateway' = [awardGateway EXCEPT ![w] = "DELIVERED"]
  /\ UNCHANGED <<now, rfqVars, quoteVars, decisionVars, awards, reservations,
                 procurementStatus>>

FailAward(w) ==
  /\ awardGateway[w] = "SENT_TO_GATEWAY"
  /\ awardGateway' = [awardGateway EXCEPT ![w] = "FAILED"]
  /\ UNCHANGED <<now, rfqVars, quoteVars, decisionVars, awards, reservations,
                 procurementStatus>>

-----------------------------------------------------------------------------
(* RFQ rounds *)

RecipientsOf(rd) == {r \in Recipient : RoundOf[r] = rd}

CreateRound(rd, deadline) ==
  /\ rounds[rd].status = "NONE"
  /\ deadline > now
  /\ MinimumValidQuotes <= Cardinality(RecipientsOf(rd))
  /\ MinimumConfirmedDeliveries <= Cardinality(RecipientsOf(rd))
  /\ rounds' = [rounds EXCEPT ![rd] =
                  [status |-> "DRAFT", version |-> 1, deadline |-> deadline,
                   collection |-> 0]]
  /\ procurementStatus' = "RFQ_DRAFT"
  /\ UNCHANGED <<now, recipients, gateway, quoteVars, decisionVars, awardVars>>

\* Mutant: the flag delivery_event_emitted is not consulted.
RefreshedRecipient_AuditsAgain(rc, provider) ==
  [status  |-> IF provider = "NONE" THEN rc.status ELSE provider,
   emitted |-> rc.emitted \/ provider = "DELIVERED",
   audits  |-> rc.audits + (IF provider = "DELIVERED" THEN 1 ELSE 0)]

\* A recipient after the service has read the provider's state of its message.
RefreshedRecipient(rc, provider) ==
  IF provider = "NONE" THEN rc
  ELSE [status  |-> provider,
        emitted |-> rc.emitted \/ provider = "DELIVERED",
        audits  |-> rc.audits +
                      (IF provider = "DELIVERED" /\ ~rc.emitted THEN 1 ELSE 0)]

\* Mutant: a message the gateway accepted counts as confirmed.
ConfirmedIn_Optimistic(rd, provider) ==
  {r \in RecipientsOf(rd) : provider[r] # "NONE"}

ConfirmedIn(rd, provider) == {r \in RecipientsOf(rd) : provider[r] = "DELIVERED"}

Activation(rd, provider) ==
  Cardinality(ConfirmedIn(rd, provider)) >= MinimumConfirmedDeliveries

RefreshedStatus(rd, provider) ==
  IF Activation(rd, provider) THEN "ACTIVE"
  ELSE IF \E r \in RecipientsOf(rd) : provider[r] # "NONE" THEN "DISPATCHING"
  ELSE rounds[rd].status

\* Mutant: the request is declared active as soon as dispatch starts.
StatusAfterRefresh_OnDispatch(rd, provider) ==
  IF \E r \in RecipientsOf(rd) : provider[r] # "NONE" THEN "RFQ_ACTIVE"
  ELSE procurementStatus

\* On EVERY refresh that meets the activation criteria, not only on the one
\* that activates the round.
StatusAfterRefresh(rd, provider) ==
  IF Activation(rd, provider) THEN "RFQ_ACTIVE" ELSE procurementStatus

\* _refresh_delivery_batch: copy the provider's states, audit each confirmed
\* delivery once, derive the round's status and the request's.
RefreshDeliveryBatch(rd, provider) ==
  /\ recipients' = [r \in Recipient |->
                      IF RoundOf[r] = rd
                      THEN RefreshedRecipient(recipients[r], provider[r])
                      ELSE recipients[r]]
  /\ rounds' = IF RefreshedStatus(rd, provider) = rounds[rd].status THEN rounds
               ELSE [rounds EXCEPT ![rd].status = RefreshedStatus(rd, provider),
                                   ![rd].version = @ + 1]
  /\ procurementStatus' = StatusAfterRefresh(rd, provider)

\* The response token of an unsent recipient can be issued only before the
\* deadline; a recipient that was sent keeps its token and its message.
SendRound(rd) ==
  /\ rounds[rd].status # "NONE"
  /\ \A r \in RecipientsOf(rd) : gateway[r] = "NONE" => now < rounds[rd].deadline
  /\ gateway' = [r \in Recipient |->
                   IF RoundOf[r] = rd /\ gateway[r] = "NONE" THEN FirstSend
                   ELSE gateway[r]]
  /\ RefreshDeliveryBatch(rd, gateway')
  /\ UNCHANGED <<now, quoteVars, decisionVars, awardVars>>

GetDeliveryStatus(rd) ==
  /\ rounds[rd].status # "NONE"
  /\ RefreshDeliveryBatch(rd, gateway)
  /\ UNCHANGED <<now, gateway, quoteVars, decisionVars, awardVars>>

-----------------------------------------------------------------------------
(* Quotes *)

\* Mutant: a failed award does not count, so that its approval can be retried.
Awarded_UnlessFailed(a) ==
  \E w \in AwardId : /\ awards[w].status \notin {"NONE", "FAILED"}
                     /\ awards[w].approval = a

Awarded(a) == \E w \in AwardId : awards[w].status # "NONE" /\ awards[w].approval = a

\* Mutant: only an award that the supplier accepted freezes the quote.
AwardExistsFor_Accepted(r) ==
  \E w \in AwardId : awards[w].recipient = r /\ awards[w].status = "ACCEPTED"

\* An award exists for some approval of this quote id, whatever the version.
AwardExistsFor(r) ==
  \E a \in ApprovalId : approvals[a].recipient = r /\ Awarded(a)

\* Mutant: an approval that was already granted is left standing.
Overtaken_OnlyRequested(r, version) ==
  {a \in ApprovalId : /\ approvals[a].recipient = r
                      /\ approvals[a].quoteVersion # version
                      /\ approvals[a].status = "REQUESTED"}

\* The approvals that a new version of r's quote overtakes.
Overtaken(r, version) ==
  {a \in ApprovalId : /\ approvals[a].recipient = r
                      /\ approvals[a].quoteVersion # version
                      /\ approvals[a].status \in {"REQUESTED", "APPROVED"}}

StatusAfterInvalidation(r, version) ==
  IF Overtaken(r, version) = {} THEN procurementStatus
  ELSE "AWAITING_COMPARISON"

InvalidateApprovalsForQuote(r, version) ==
  /\ approvals' = [a \in ApprovalId |->
                     IF a \in Overtaken(r, version)
                     THEN [approvals[a] EXCEPT !.status = "INVALIDATED",
                                               !.version = @ + 1]
                     ELSE approvals[a]]
  /\ procurementStatus' = StatusAfterInvalidation(r, version)

\* validate_quote_submission rejects an expired payload and decides whether
\* the quote is FINAL.  A payload equal to the current one changes nothing.
SubmitQuote(r, s) ==
  LET rd      == RoundOf[r]
      version == quotes[r].version + 1
  IN  /\ version <= MaxQuoteVersion
      /\ gateway[r] = "DELIVERED"
      /\ now < rounds[rd].deadline
      /\ now < ValidUntil[s]
      /\ quotes[r].submission # s
      /\ ~AwardExistsFor(r)
      /\ quotes' = [quotes EXCEPT ![r] =
           [status |-> IF Compliant[s] THEN "FINAL" ELSE "NEEDS_CLARIFICATION",
            version |-> version, submission |-> s]]
      /\ quoteVersions' = [quoteVersions EXCEPT ![r] = Append(@, s)]
      /\ rounds' = [rounds EXCEPT ![rd].collection = @ + 1]
      /\ InvalidateApprovalsForQuote(r, version)
      /\ UNCHANGED <<now, recipients, gateway, comparisons, awardVars>>

Expirable(rd) ==
  {r \in RecipientsOf(rd) : /\ quotes[r].status \in {"FINAL", "NEEDS_CLARIFICATION"}
                            /\ ValidUntil[quotes[r].submission] <= now}

\* Mutant: expiring a quote does not advance the collection.
CollectionAfterExpiry_Same(rd) == rounds[rd].collection

CollectionAfterExpiry(rd) ==
  rounds[rd].collection + Cardinality(Expirable(rd))

\* _expire_quotes: the approvals of an expired quote are left as they are.
ExpireQuotes(rd) ==
  /\ quotes' = [r \in Recipient |->
                  IF r \in Expirable(rd)
                  THEN [quotes[r] EXCEPT !.status = "EXPIRED"]
                  ELSE quotes[r]]
  /\ rounds' = [rounds EXCEPT ![rd].collection = CollectionAfterExpiry(rd)]

GetQuoteStatus(rd) ==
  /\ rounds[rd].status # "NONE"
  /\ ExpireQuotes(rd)
  /\ UNCHANGED <<now, recipients, gateway, quoteVersions, decisionVars,
                 awardVars, procurementStatus>>

-----------------------------------------------------------------------------
(* Comparison and approval *)

EligibleQuotes(rd) ==
  {<<r, quotes[r].version>> : r \in {x \in RecipientsOf(rd) : quotes[x].status = "FINAL"}}

\* The new id is the smallest one in use nowhere (_new_id).
IsNewId(i, used) == i \notin used /\ \A j \in 1..(i - 1) : j \in used

ComparisonIds  == {c \in ComparisonId : comparisons[c].round # None}
ApprovalIds    == {a \in ApprovalId : approvals[a].status # "NONE"}
AwardIds       == {w \in AwardId : awards[w].status # "NONE"}
ReservationIds == {k \in ReservationId : reservations[k].award # 0}

\* compare expires quotes first.  When it expires one, the collection moves
\* past every version a caller can have read and the STALE_VERSION check
\* rejects the command: a comparison succeeds only when nothing expires.
Compare(rd, c) ==
  /\ rounds[rd].status # "NONE"
  /\ Expirable(rd) = {}
  /\ Cardinality(EligibleQuotes(rd)) >= MinimumValidQuotes
  /\ IsNewId(c, ComparisonIds)
  /\ comparisons' = [comparisons EXCEPT ![c] =
                       [round |-> rd, collection |-> rounds[rd].collection,
                        candidates |-> EligibleQuotes(rd)]]
  /\ procurementStatus' = "AWAITING_APPROVAL"
  /\ UNCHANGED <<now, rfqVars, quoteVars, approvals, awardVars>>

\* The validity test that request_approval, decide_approval and send_award
\* all make on the current quote.
StillValid(r) ==
  /\ quotes[r].status = "FINAL"
  /\ now < ValidUntil[quotes[r].submission]

\* The selected candidate must be the current version of its quote; other
\* quotes may have changed since the comparison.
RequestApproval(c, r, a) ==
  /\ <<r, quotes[r].version>> \in comparisons[c].candidates
  /\ StillValid(r)
  /\ IsNewId(a, ApprovalIds)
  /\ approvals' = [approvals EXCEPT ![a] =
                     [status |-> "REQUESTED", version |-> 1, recipient |-> r,
                      quoteVersion |-> quotes[r].version]]
  /\ UNCHANGED <<now, rfqVars, quoteVars, comparisons, awardVars,
                 procurementStatus>>

SelectedQuoteUnchanged(a) ==
  approvals[a].quoteVersion = quotes[approvals[a].recipient].version

\* By the human approver of the frozen policy.
DecideApproval(a, approve) ==
  /\ approvals[a].status = "REQUESTED"
  /\ SelectedQuoteUnchanged(a)
  /\ StillValid(approvals[a].recipient)
  /\ approvals' = [approvals EXCEPT
                     ![a].status = IF approve THEN "APPROVED" ELSE "REJECTED",
                     ![a].version = @ + 1]
  /\ procurementStatus' = IF approve THEN "APPROVED" ELSE procurementStatus
  /\ UNCHANGED <<now, rfqVars, quoteVars, comparisons, awardVars>>

-----------------------------------------------------------------------------
(* Award, acceptance and reservation *)

\* An approval that already has an award gets that award back unchanged.
SendAward(a, w) ==
  LET r == approvals[a].recipient
  IN  /\ approvals[a].status = "APPROVED"
      /\ SelectedQuoteUnchanged(a)
      /\ StillValid(r)
      /\ ~Awarded(a)
      /\ IsNewId(w, AwardIds)
      /\ awardGateway' = [awardGateway EXCEPT ![w] = FirstSend]
      /\ awards' = [awards EXCEPT ![w] =
           [status |-> FirstSend, version |-> 1, approval |-> a, recipient |-> r,
            quoteVersion |-> approvals[a].quoteVersion,
            terms |-> quotes[r].submission, expires |-> now + AwardTtl,
            emitted |-> FirstSend = "DELIVERED",
            audits |-> IF FirstSend = "DELIVERED" THEN 1 ELSE 0,
            acceptedBy |-> None, ready |-> FALSE]]
      /\ procurementStatus' =
           IF FirstSend = "DELIVERED" THEN "AWARD_SENT" ELSE procurementStatus
      /\ UNCHANGED <<now, rfqVars, quoteVars, decisionVars, reservations>>

\* get_award_status moves an award only out of SENT_TO_GATEWAY.
AwardNews(w) ==
  awards[w].status = "SENT_TO_GATEWAY" /\ awardGateway[w] # "SENT_TO_GATEWAY"

\* Mutant: a failed delivery keeps the award's version.
RefreshedAward_FailsSilently(w) ==
  IF ~AwardNews(w) THEN awards[w]
  ELSE IF awardGateway[w] = "DELIVERED"
       THEN [awards[w] EXCEPT !.status = "DELIVERED", !.version = @ + 1,
                              !.emitted = TRUE, !.audits = 1]
       ELSE [awards[w] EXCEPT !.status = "FAILED"]

RefreshedAward(w) ==
  IF ~AwardNews(w) THEN awards[w]
  ELSE IF awardGateway[w] = "DELIVERED"
       THEN [awards[w] EXCEPT !.status = "DELIVERED", !.version = @ + 1,
                              !.emitted = TRUE,
                              !.audits = IF awards[w].emitted THEN @ ELSE @ + 1]
       ELSE [awards[w] EXCEPT !.status = "FAILED", !.version = @ + 1]

GetAwardStatus(w) ==
  /\ AwardNews(w)
  /\ awards' = [awards EXCEPT ![w] = RefreshedAward(w)]
  /\ procurementStatus' =
       IF awardGateway[w] = "DELIVERED" THEN "AWARD_SENT" ELSE procurementStatus
  /\ UNCHANGED <<now, rfqVars, quoteVars, decisionVars, awardGateway, reservations>>

\* Mutant: an award that was accepted can be answered again.
MayRespond_Again(w) ==
  now < awards[w].expires /\ RefreshedAward(w).status \in {"DELIVERED", "ACCEPTED"}

\* The response token must be alive and the award, refreshed first, DELIVERED.
MayRespond(w) == now < awards[w].expires /\ RefreshedAward(w).status = "DELIVERED"

AcceptAward(w, p) ==
  /\ MayRespond(w)
  /\ awards' = [awards EXCEPT ![w] =
                  [RefreshedAward(w) EXCEPT !.status = "ACCEPTED",
                                            !.version = @ + 1,
                                            !.acceptedBy = p]]
  /\ procurementStatus' = "SUPPLIER_ACCEPTED"
  /\ UNCHANGED <<now, rfqVars, quoteVars, decisionVars, awardGateway, reservations>>

DeclineAward(w) ==
  /\ MayRespond(w)
  /\ awards' = [awards EXCEPT ![w] =
                  [RefreshedAward(w) EXCEPT !.status = "DECLINED",
                                            !.version = @ + 1]]
  /\ procurementStatus' = "AWARD_DECLINED"
  /\ UNCHANGED <<now, rfqVars, quoteVars, decisionVars, awardGateway, reservations>>

\* Mutant: reservation_by_award_id is not consulted.
Reserved_Forgotten(w) == FALSE

Reserved(w) == \E k \in ReservationId : reservations[k].award = w

\* The terms must equal the frozen requirements, so a second confirmation
\* always has the terms of the first and is a replay.
ConfirmReservation(w, p, k) ==
  /\ awards[w].status = "ACCEPTED"
  /\ awards[w].acceptedBy = p
  /\ ~Reserved(w)
  /\ IsNewId(k, ReservationIds)
  /\ reservations' = [reservations EXCEPT ![k] = [award |-> w, confirmedBy |-> p]]
  /\ awards' = [awards EXCEPT ![w].version = @ + 1, ![w].ready = TRUE]
  /\ procurementStatus' = "READY_FOR_CONTRACTING"
  /\ UNCHANGED <<now, rfqVars, quoteVars, decisionVars, awardGateway>>

-----------------------------------------------------------------------------

GatewayNext ==
  \/ \E r \in Recipient : Ack(r) \/ Fail(r)
  \/ \E w \in AwardId : AckAward(w) \/ FailAward(w)

RfqNext ==
  \E rd \in Round :
    \/ \E deadline \in 1..MaxTime : CreateRound(rd, deadline)
    \/ SendRound(rd)
    \/ GetDeliveryStatus(rd)
    \/ GetQuoteStatus(rd)
    \/ \E c \in ComparisonId : Compare(rd, c)

DecisionNext ==
  \/ \E c \in ComparisonId, r \in Recipient, a \in ApprovalId : RequestApproval(c, r, a)
  \/ \E a \in ApprovalId, approve \in BOOLEAN : DecideApproval(a, approve)
  \/ \E a \in ApprovalId, w \in AwardId : SendAward(a, w)

SupplierNext ==
  \/ \E r \in Recipient, s \in Submission : SubmitQuote(r, s)
  \/ \E w \in AwardId, p \in Respondent : AcceptAward(w, p)
  \/ \E w \in AwardId : DeclineAward(w)
  \/ \E w \in AwardId, p \in Respondent, k \in ReservationId : ConfirmReservation(w, p, k)

Next ==
  \/ Tick
  \/ GatewayNext
  \/ RfqNext
  \/ DecisionNext
  \/ SupplierNext
  \/ \E w \in AwardId : GetAwardStatus(w)

Spec == Init /\ [][Next]_vars

-----------------------------------------------------------------------------
(* Properties *)

\* The store holds records of the shapes the service writes.
TypeOK ==
  /\ now \in Nat
  /\ rounds \in [Round -> RoundRecord]
  /\ recipients \in [Recipient -> RecipientRecord]
  /\ gateway \in [Recipient -> {"NONE"} \cup DeliveryState]
  /\ quotes \in [Recipient -> QuoteRecord]
  /\ quoteVersions \in [Recipient -> Seq(Submission)]
  /\ comparisons \in [ComparisonId -> ComparisonRecord]
  /\ approvals \in [ApprovalId -> ApprovalRecord]
  /\ awards \in [AwardId -> AwardRecord]
  /\ awardGateway \in [AwardId -> {"NONE"} \cup DeliveryState]
  /\ reservations \in [ReservationId -> ReservationRecord]
  /\ procurementStatus \in ProcurementStatus

\* A round is ACTIVE only while enough suppliers have really received the RFQ:
\* the service never runs ahead of the gateway (_refresh_delivery_batch).
ActiveRoundsAreDelivered ==
  \A rd \in Round : rounds[rd].status = "ACTIVE" =>
    Cardinality({r \in RecipientsOf(rd) : gateway[r] = "DELIVERED"})
      >= MinimumConfirmedDeliveries

\* However often a round is sent and polled, each confirmed delivery of an RFQ
\* or of an award is in the audit trail exactly once (delivery_event_emitted).
DeliveriesAuditedOnce ==
  /\ \A r \in Recipient :
       recipients[r].audits = IF recipients[r].status = "DELIVERED" THEN 1 ELSE 0
  /\ \A w \in AwardId :
       awards[w].audits =
         IF awards[w].status \in {"DELIVERED", "ACCEPTED", "DECLINED"} THEN 1 ELSE 0

\* An undecided or granted approval always selects the current version of its
\* quote: a resubmission by the supplier invalidates what it overtakes
\* (submit_quote and _invalidate_approvals_for_quote).
LiveApprovalsAreCurrent ==
  \A a \in ApprovalId :
    approvals[a].status \in {"REQUESTED", "APPROVED"} => SelectedQuoteUnchanged(a)

\* An award rests for ever on a granted approval of the very quote version it
\* carries, its terms are that version's, and the supplier's quote is still
\* that one: no resubmission slips between approval, award and acceptance.
AwardsRestOnApprovals ==
  \A w \in AwardIds :
    LET a == awards[w].approval
        r == awards[w].recipient
    IN  /\ a \in ApprovalId
        /\ approvals[a].status = "APPROVED"
        /\ approvals[a].recipient = r
        /\ approvals[a].quoteVersion = awards[w].quoteVersion
        /\ awards[w].quoteVersion = quotes[r].version
        /\ awards[w].terms = quoteVersions[r][awards[w].quoteVersion]

\* send_award creates at most one award for an approval, whatever the number
\* of calls with different idempotency keys (award_by_approval_id).
OneAwardPerApproval ==
  \A v, w \in AwardIds : awards[v].approval = awards[w].approval => v = w

\* A reservation is backed by an award that its supplier accepted, under the
\* same respondent, an award has at most one, and an award is ready for
\* contracting exactly when it has one (confirm_reservation).
ReservationsAreBacked ==
  /\ \A k \in ReservationIds :
       /\ reservations[k].award \in AwardId
       /\ awards[reservations[k].award].status = "ACCEPTED"
       /\ awards[reservations[k].award].acceptedBy = reservations[k].confirmedBy
  /\ \A j, k \in ReservationIds : reservations[j].award = reservations[k].award => j = k
  /\ \A w \in AwardId : awards[w].ready <=> \E k \in ReservationIds : reservations[k].award = w

\* What each procurement status claims to have happened.
Evidence(status) ==
  CASE status = "NONE"                  -> \A rd \in Round : rounds[rd].status = "NONE"
    [] status = "RFQ_DRAFT"             -> \E rd \in Round : rounds[rd].status # "NONE"
    [] status = "RFQ_ACTIVE"            -> \E rd \in Round : rounds[rd].status = "ACTIVE"
    [] status = "AWAITING_COMPARISON"   -> \E a \in ApprovalId : approvals[a].status = "INVALIDATED"
    [] status = "AWAITING_APPROVAL"     -> ComparisonIds # {}
    [] status = "APPROVED"              -> \E a \in ApprovalId : approvals[a].status = "APPROVED"
    [] status = "AWARD_SENT"            -> \E w \in AwardId : awards[w].status = "DELIVERED"
    [] status = "AWARD_DECLINED"        -> \E w \in AwardId : awards[w].status = "DECLINED"
    [] status = "SUPPLIER_ACCEPTED"     -> \E w \in AwardId : awards[w].status = "ACCEPTED"
    [] status = "READY_FOR_CONTRACTING" -> \E w \in AwardId : awards[w].status = "ACCEPTED" /\ awards[w].ready

\* The status that buyers see never claims what has not happened: an APPROVED
\* request has a granted approval that still stands, an AWARD_SENT one has a
\* delivered award without an answer, and so on for every status.
StatusHasEvidence == Evidence(procurementStatus)

\* The collection version identifies the quotes: if it is still the one a
\* comparison was made of, the eligible quotes are still the compared ones
\* (submit_quote and _expire_quotes advance it with every change).
CollectionVersionIdentifiesQuotes ==
  \A c \in ComparisonIds :
    comparisons[c].collection = rounds[comparisons[c].round].collection
      => comparisons[c].candidates = EligibleQuotes(comparisons[c].round)

\* A caller that holds the version of a round, an approval or an award detects
\* every later change of it: no step changes one and keeps its version.
VersionsWitnessChange ==
  [][/\ \A rd \in Round : rounds'[rd].status # rounds[rd].status
                            => rounds'[rd].version > rounds[rd].version
     /\ \A a \in ApprovalId : approvals'[a] # approvals[a]
                            => approvals'[a].version > approvals[a].version
     /\ \A w \in AwardId : awards'[w] # awards[w]
                            => awards'[w].version > awards[w].version]_vars

\* A supplier's answer to an award, and a failed delivery, are final: the only
\* change an answered award sees is the confirmation of its reservation.
AnswersAreFinal ==
  [][\A w \in AwardId :
       awards[w].status \in {"ACCEPTED", "DECLINED", "FAILED"} =>
         /\ awards'[w].status = awards[w].status
         /\ awards'[w].acceptedBy = awards[w].acceptedBy
         /\ awards[w].ready => awards'[w] = awards[w]]_vars

\* What the proofs add to make these invariants inductive: an approval names a
\* quote, and the last entry of store.quote_versions is the current quote.
ApprovalsNameQuotes ==
  \A a \in ApprovalId : approvals[a].status # "NONE" => approvals[a].recipient \in Recipient

HistoryIsCurrent ==
  \A r \in Recipient :
    /\ Len(quoteVersions[r]) = quotes[r].version
    /\ quotes[r].status # "NONE" =>
         /\ quotes[r].version > 0
         /\ quoteVersions[r][quotes[r].version] = quotes[r].submission

AwardInv ==
  /\ TypeOK
  /\ ApprovalsNameQuotes
  /\ HistoryIsCurrent
  /\ LiveApprovalsAreCurrent
  /\ AwardsRestOnApprovals
  /\ OneAwardPerApproval

\* What is not created is blank, and what was sent has a round.
BlankUntilCreated ==
  /\ \A rd \in Round : rounds[rd].status = "NONE" =>
       rounds[rd].version = 0 /\ rounds[rd].collection = 0
  /\ \A a \in ApprovalId : approvals[a].status = "NONE" => approvals[a].version = 0
  /\ \A w \in AwardId : awards[w].status = "NONE" => awards[w].version = 0
  /\ \A r \in Recipient : gateway[r] # "NONE" => rounds[RoundOf[r]].status # "NONE"

\* A recipient and an award are flagged exactly while the service knows that
\* they were delivered, and then the gateway says so too.
FlagsAreTrue ==
  /\ \A r \in Recipient :
       /\ recipients[r].emitted <=> recipients[r].status = "DELIVERED"
       /\ recipients[r].status = "DELIVERED" => gateway[r] = "DELIVERED"
  /\ \A w \in AwardId :
       awards[w].emitted <=> awards[w].status \in {"DELIVERED", "ACCEPTED", "DECLINED"}

\* The collection of a round only grows after a comparison.
ComparisonsAreOfThePast ==
  \A c \in ComparisonIds :
    /\ comparisons[c].round \in Round
    /\ comparisons[c].collection <= rounds[comparisons[c].round].collection

\* The inductive invariant of the whole service.
ExecutionInv ==
  /\ AwardInv
  /\ BlankUntilCreated
  /\ FlagsAreTrue
  /\ DeliveriesAuditedOnce
  /\ ActiveRoundsAreDelivered
  /\ ReservationsAreBacked
  /\ ComparisonsAreOfThePast
  /\ CollectionVersionIdentifiesQuotes
  /\ StatusHasEvidence
=============================================================================
