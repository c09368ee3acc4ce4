----------------------------- MODULE Lifecycles -----------------------------
(***************************************************************************)
(* The domain aggregates (app.domain): one procurement request, and the    *)
(* quotes, approvals, awards and suppliers around it.  An aggregate moves  *)
(* only by _transition, which raises its version and stages an event; a    *)
(* method refuses a call from another state, or with facts that do not     *)
(* belong together, and then changes nothing, so a refused call is an      *)
(* action that is not enabled.                                             *)
(*                                                                         *)
(* The callers are command handlers the repository does not contain: any   *)
(* of them may call any method at any time, with the facts of any existing *)
(* aggregate.  The blank strings, the malformed identifiers and the naive  *)
(* times that validation refuses are left out.                             *)
(***************************************************************************)
EXTENDS Naturals, FiniteSets, Sequences

CONSTANTS
    Request,        \* the procurement request
    Quotes,         \* quote aggregates, one per supplier and round
    Approvals,      \* approval aggregates
    Awards,         \* award aggregates
    Suppliers,      \* supplier aggregates
    People,         \* respondents of the supplier
    Terms,          \* terms snapshots, identified by their hash
    Fields,         \* REQUIRED_PROCUREMENT_FIELDS, REQUIRED_SUPPLIER_FIELDS
    MaxQuoteVersion,    \* bound: the version of a quote
    MaxTime,        \* bound: the clock
    None            \* an attribute that is not set

ASSUME LifecyclesAssumption ==
    /\ MaxQuoteVersion \in Nat /\ MaxTime \in Nat
    /\ Request \notin Quotes \cup Approvals \cup Awards \cup Suppliers
    /\ Quotes \cap (Approvals \cup Awards \cup Suppliers) = {}
    /\ Approvals \cap (Awards \cup Suppliers) = {}
    /\ Awards \cap Suppliers = {}

Objects == {Request} \cup Quotes \cup Approvals \cup Awards \cup Suppliers

VARIABLES
    state,      \* state of an aggregate, "None" before it is created
    version,    \* its version, 0 before it is created
    log,        \* the events of the request: pending and pulled ones
    selected,   \* selected quote and version of the request
    approvalId, \* approval_id of the request
    awardId,    \* award_id of the request
    awardTerms, \* award_terms_hash of the request
    respondent, \* respondent_id of a quote or of an award
    facts,      \* validation_facts of a quote
    bound,      \* quote and version of an approval
    decidedBy,  \* actor type of the decision of an approval
    basis,      \* approval of an award
    terms,      \* terms_hash of an award
    sentAt,     \* sent_at of an award
    confirmed,  \* confirmed_fields of a supplier
    clock       \* the time

requestFacts == <<selected, approvalId, awardId, awardTerms>>
quoteFacts == <<facts>>
approvalFacts == <<bound, decidedBy>>
awardFacts == <<basis, terms, sentAt>>
vars == <<state, version, log, requestFacts, respondent, quoteFacts,
          approvalFacts, awardFacts, confirmed, clock>>

ActorTypes == {"human", "agent"}

RequestStates ==
    {"DRAFT", "NEEDS_CLARIFICATION", "READY", "SOURCING", "RFQ_ACTIVE",
     "QUOTES_UNDER_REVIEW", "NEGOTIATING", "AWAITING_APPROVAL", "APPROVED",
     "AWARD_SENT", "SUPPLIER_ACCEPTED", "READY_FOR_CONTRACTING", "CLOSED",
     "CANCELLED", "NO_ELIGIBLE_SUPPLIERS", "NO_VALID_QUOTES",
     "APPROVAL_REJECTED", "SUPPLIER_DECLINED_AWARD", "EXPIRED"}

\* The states a request can be cancelled or can expire in.
PreCommitStates ==
    {"DRAFT", "NEEDS_CLARIFICATION", "READY", "SOURCING", "RFQ_ACTIVE",
     "QUOTES_UNDER_REVIEW", "NEGOTIATING", "AWAITING_APPROVAL", "APPROVED"}

QuoteStates ==
    {"REQUESTED", "OPENED", "DRAFT_RESPONSE", "SUBMITTED", "VALIDATING",
     "NEEDS_CLARIFICATION", "VALID", "NEGOTIATING", "FINAL", "SELECTED",
     "REJECTED", "EXPIRED"}

ApprovalStates == {"None", "REQUESTED", "APPROVED", "REJECTED", "CHANGES_REQUESTED"}

AwardStates == {"None", "CREATED", "SENT", "ACCEPTED", "DECLINED"}

SupplierStates ==
    {"DRAFT", "MATERIALS_UPLOADED", "EXTRACTED", "AWAITING_SUPPLIER_REVIEW",
     "CONFIRMED", "ACTIVE", "SUSPENDED", "EXPIRED"}

\* A quote at one version of its aggregate.
Ref(q) == [quote |-> q, version |-> version[q]]

Refs == [quote : Quotes, version : Nat]

\* What a quote was validated with.
Facts == [by : People, until : 0..(MaxTime + 1)]

ASSUME NoneAssumption ==
    /\ None \notin Approvals \cup Awards \cup Terms \cup People
    /\ None \notin Refs /\ None \notin Facts /\ None \notin 0..MaxTime

\* What the payload of an event of the request refers to.
Subject ==
    Refs \cup {None}
      \cup [approval : Approvals, actor : ActorTypes, ref : Refs]
      \cup [award : Awards, terms : Terms, ref : Refs]
      \cup [award : Awards, terms : Terms]

Event == [from : RequestStates \cup {"None"}, to : RequestStates, at : Nat, of : Subject]

\* Type correctness: states, versions and the attributes the methods set.
TypeOK ==
    /\ version \in [Objects -> Nat]
    /\ log \in Seq(Event)
    /\ DOMAIN state = Objects
    /\ state[Request] \in RequestStates
    /\ \A q \in Quotes : state[q] \in QuoteStates
    /\ \A p \in Approvals : state[p] \in ApprovalStates
    /\ \A w \in Awards : state[w] \in AwardStates
    /\ \A s \in Suppliers : state[s] \in SupplierStates
    /\ selected \in Refs \cup {None}
    /\ approvalId \in Approvals \cup {None}
    /\ awardId \in Awards \cup {None}
    /\ awardTerms \in Terms \cup {None}
    /\ respondent \in [Quotes \cup Awards -> People \cup {None}]
    /\ facts \in [Quotes -> Facts \cup {None}]
    /\ bound \in [Approvals -> Refs \cup {None}]
    /\ decidedBy \in [Approvals -> ActorTypes \cup {None}]
    /\ basis \in [Awards -> Approvals \cup {None}]
    /\ terms \in [Awards -> Terms \cup {None}]
    /\ sentAt \in [Awards -> (0..MaxTime) \cup {None}]
    /\ confirmed \in [Suppliers -> SUBSET Fields]
    /\ clock \in 0..MaxTime

\* The request, the quotes and the suppliers were created; approvals and
\* awards are created along the way.
Init ==
    /\ state = [x \in Objects |->
                  IF x \in {Request} \cup Suppliers THEN "DRAFT"
                  ELSE IF x \in Quotes THEN "REQUESTED" ELSE "None"]
    /\ version = [x \in Objects |-> IF x \in Approvals \cup Awards THEN 0 ELSE 1]
    /\ log = <<[from |-> "None", to |-> "DRAFT", at |-> 1, of |-> None]>>
    /\ selected = None
    /\ approvalId = None
    /\ awardId = None
    /\ awardTerms = None
    /\ respondent = [x \in Quotes \cup Awards |-> None]
    /\ facts = [q \in Quotes |-> None]
    /\ bound = [p \in Approvals |-> None]
    /\ decidedBy = [p \in Approvals |-> None]
    /\ basis = [w \in Awards |-> None]
    /\ terms = [w \in Awards |-> None]
    /\ sentAt = [w \in Awards |-> None]
    /\ confirmed = [s \in Suppliers |-> {}]
    /\ clock = 0

\* AggregateRoot._transition: only from the allowed states; the version of the
\* aggregate rises with every event.
NextVersion(x) == version[x] + 1

Transition(x, allowed, to) ==
    /\ state[x] \in allowed
    /\ state' = [state EXCEPT ![x] = to]
    /\ version' = [version EXCEPT ![x] = NextVersion(x)]

\* A transition of the request; "of" is what the event's payload refers to.
Move(allowed, to, of) ==
    /\ Transition(Request, allowed, to)
    /\ log' = Append(log, [from |-> state[Request], to |-> to,
                           at |-> NextVersion(Request), of |-> of])
    /\ UNCHANGED <<respondent, quoteFacts, approvalFacts, awardFacts, confirmed,
                   clock>>
-----------------------------------------------------------------------------
(***************************************************************************)
(* The procurement request                                                 *)
(***************************************************************************)

RequestClarification ==
    /\ Move({"DRAFT"}, "NEEDS_CLARIFICATION", None)
    /\ UNCHANGED requestFacts

\* mark_ready refuses a request with a required field missing.
MarkReady ==
    /\ \E provided \in SUBSET Fields :
         /\ Fields \ provided = {}
         /\ Move({"DRAFT", "NEEDS_CLARIFICATION"}, "READY", None)
    /\ UNCHANGED requestFacts

StartSourcing == Move({"READY"}, "SOURCING", None) /\ UNCHANGED requestFacts

MarkNoEligibleSuppliers ==
    Move({"SOURCING"}, "NO_ELIGIBLE_SUPPLIERS", None) /\ UNCHANGED requestFacts

\* mark_rfq_active, begin_quote_review: the acknowledgement of a delivery and
\* the identifier of a submission are strings the caller has.
MarkRfqActive == Move({"SOURCING"}, "RFQ_ACTIVE", None) /\ UNCHANGED requestFacts

BeginQuoteReview ==
    Move({"RFQ_ACTIVE"}, "QUOTES_UNDER_REVIEW", None) /\ UNCHANGED requestFacts

MarkNoValidQuotes ==
    /\ Move({"RFQ_ACTIVE", "QUOTES_UNDER_REVIEW", "NEGOTIATING"}, "NO_VALID_QUOTES", None)
    /\ UNCHANGED requestFacts

StartNegotiation ==
    Move({"QUOTES_UNDER_REVIEW"}, "NEGOTIATING", None) /\ UNCHANGED requestFacts

RequestApproval(q) ==
    /\ Move({"QUOTES_UNDER_REVIEW", "NEGOTIATING"}, "AWAITING_APPROVAL", Ref(q))
    /\ selected' = Ref(q)
    /\ UNCHANGED <<approvalId, awardId, awardTerms>>

\* _require_selected_quote
SelectedQuote(ref) == ref = selected

\* Only a human decision counts.
MayDecide(actor) == actor = "human"

\* record_human_approval, with the quote version the approval is bound to.
RecordHumanApproval(p, actor) ==
    /\ state[p] # "None"
    /\ MayDecide(actor)
    /\ SelectedQuote(bound[p])
    /\ Move({"AWAITING_APPROVAL"}, "APPROVED",
            [approval |-> p, actor |-> actor, ref |-> bound[p]])
    /\ approvalId' = p
    /\ UNCHANGED <<selected, awardId, awardTerms>>

RecordApprovalRejected(p) ==
    /\ state[p] # "None"
    /\ Move({"AWAITING_APPROVAL"}, "APPROVAL_REJECTED", None)
    /\ UNCHANGED requestFacts

\* record_award_sent, with the quote version, the terms and the
\* acknowledgement of an award.
RecordAwardSent(w) ==
    /\ basis[w] # None
    /\ sentAt[w] # None
    /\ SelectedQuote(bound[basis[w]])
    /\ Move({"APPROVED"}, "AWARD_SENT",
            [award |-> w, terms |-> terms[w], ref |-> bound[basis[w]]])
    /\ awardId' = w
    /\ awardTerms' = terms[w]
    /\ UNCHANGED <<selected, approvalId>>

\* Mutant: only the award is compared.
MatchingAward_Terms(w, t) == w = awardId

\* _require_matching_award
MatchingAward(w, t) == w = awardId /\ t = awardTerms

RecordSupplierAcceptance(w, t) ==
    /\ MatchingAward(w, t)
    /\ Move({"AWARD_SENT"}, "SUPPLIER_ACCEPTED", [award |-> w, terms |-> t])
    /\ UNCHANGED requestFacts

RecordSupplierDecline(w) ==
    /\ w = awardId
    /\ Move({"AWARD_SENT"}, "SUPPLIER_DECLINED_AWARD", None)
    /\ UNCHANGED requestFacts

MarkReadyForContracting ==
    Move({"SUPPLIER_ACCEPTED"}, "READY_FOR_CONTRACTING", None) /\ UNCHANGED requestFacts

Close == Move({"READY_FOR_CONTRACTING"}, "CLOSED", None) /\ UNCHANGED requestFacts

\* Mutant: a request is withdrawn until the supplier has accepted.
Withdrawable_Late == PreCommitStates \cup {"AWARD_SENT"}

Withdrawable == PreCommitStates

Cancel == Move(Withdrawable, "CANCELLED", None) /\ UNCHANGED requestFacts

Expire == Move(Withdrawable, "EXPIRED", None) /\ UNCHANGED requestFacts
-----------------------------------------------------------------------------
(***************************************************************************)
(* The quotes                                                              *)
(***************************************************************************)

\* What no method of a quote changes.
QuoteOnly == UNCHANGED <<log, requestFacts, approvalFacts, awardFacts, confirmed, clock>>

\* A method of a quote that only moves it.
QuoteMove(q, allowed, to) ==
    Transition(q, allowed, to) /\ QuoteOnly /\ UNCHANGED <<respondent, quoteFacts>>

RecordOpened(q) == QuoteMove(q, {"REQUESTED"}, "OPENED")

SaveDraft(q) == QuoteMove(q, {"OPENED"}, "DRAFT_RESPONSE")

Submit(q, person) ==
    /\ Transition(q, {"DRAFT_RESPONSE"}, "SUBMITTED")
    /\ respondent' = [respondent EXCEPT ![q] = person]
    /\ QuoteOnly /\ UNCHANGED quoteFacts

StartValidation(q) == QuoteMove(q, {"SUBMITTED"}, "VALIDATING")

RequestQuoteClarification(q) == QuoteMove(q, {"VALIDATING"}, "NEEDS_CLARIFICATION")

\* record_clarification replaces the submission, not the respondent.
RecordClarification(q) == QuoteMove(q, {"NEEDS_CLARIFICATION"}, "VALIDATING")

\* Mutant: the facts may name another respondent.
Consistent_Anyone(q, person, until) == until > clock

\* _validated_facts: the respondent of the submission, and a validity in the
\* future.
Consistent(q, person, until) ==
    /\ respondent[q] # None => person = respondent[q]
    /\ until > clock

MarkValid(q, person, until) ==
    /\ Consistent(q, person, until)
    /\ Transition(q, {"VALIDATING"}, "VALID")
    /\ facts' = [facts EXCEPT ![q] = [by |-> person, until |-> until]]
    /\ QuoteOnly /\ UNCHANGED respondent

StartQuoteNegotiation(q) == QuoteMove(q, {"VALID"}, "NEGOTIATING")

Finalize(q) == QuoteMove(q, {"VALID", "NEGOTIATING"}, "FINAL")

Select(q) == QuoteMove(q, {"FINAL"}, "SELECTED")

Reject(q) == QuoteMove(q, {"FINAL"}, "REJECTED")

ExpireQuote(q) == QuoteMove(q, {"FINAL"}, "EXPIRED")
-----------------------------------------------------------------------------
(***************************************************************************)
(* The approvals and the awards                                            *)
(***************************************************************************)

\* The creation of an aggregate: version 1 and its first event.
Create(x, first) ==
    /\ state[x] = "None"
    /\ state' = [state EXCEPT ![x] = first]
    /\ version' = [version EXCEPT ![x] = 1]

CreateApproval(p, q) ==
    /\ Create(p, "REQUESTED")
    /\ bound' = [bound EXCEPT ![p] = Ref(q)]
    /\ UNCHANGED <<log, requestFacts, respondent, quoteFacts, decidedBy,
                   awardFacts, confirmed, clock>>

Undecided == {"REQUESTED"}

\* approve, reject and request_changes of an approval.
Decide(p, actor) ==
    /\ MayDecide(actor)
    /\ \E decision \in {"APPROVED", "REJECTED", "CHANGES_REQUESTED"} :
         Transition(p, Undecided, decision)
    /\ decidedBy' = [decidedBy EXCEPT ![p] = actor]
    /\ UNCHANGED <<log, requestFacts, respondent, quoteFacts, bound, awardFacts,
                   confirmed, clock>>

\* assert_valid_for, which the award calls with the approval's own quote.
ValidFor(p) == state[p] = "APPROVED"

\* AwardAggregate.__init__ copies the quote version of the approval.
CreateAward(w, p, t) ==
    /\ ValidFor(p)
    /\ Create(w, "CREATED")
    /\ basis' = [basis EXCEPT ![w] = p]
    /\ terms' = [terms EXCEPT ![w] = t]
    /\ UNCHANGED <<log, requestFacts, respondent, quoteFacts, approvalFacts,
                   sentAt, confirmed, clock>>

ConfirmDelivery(w) ==
    /\ Transition(w, {"CREATED"}, "SENT")
    /\ sentAt' = [sentAt EXCEPT ![w] = clock]
    /\ UNCHANGED <<log, requestFacts, respondent, quoteFacts, approvalFacts,
                   basis, terms, confirmed, clock>>

Answerable == {"SENT"}

\* accept, with the terms that were displayed, and decline.
Answer(w, person) ==
    /\ \/ \E displayed \in Terms :
            displayed = terms[w] /\ Transition(w, Answerable, "ACCEPTED")
       \/ Transition(w, Answerable, "DECLINED")
    /\ respondent' = [respondent EXCEPT ![w] = person]
    /\ UNCHANGED <<log, requestFacts, quoteFacts, approvalFacts, awardFacts,
                   confirmed, clock>>
-----------------------------------------------------------------------------
(***************************************************************************)
(* The suppliers                                                           *)
(***************************************************************************)

SupplierMove(s, allowed, to) ==
    /\ Transition(s, allowed, to)
    /\ UNCHANGED <<log, requestFacts, respondent, quoteFacts, approvalFacts,
                   awardFacts, clock>>

RecordMaterialsUploaded(s) ==
    SupplierMove(s, {"DRAFT"}, "MATERIALS_UPLOADED") /\ UNCHANGED confirmed

RecordExtraction(s) ==
    SupplierMove(s, {"MATERIALS_UPLOADED"}, "EXTRACTED") /\ UNCHANGED confirmed

RequestReview(s) ==
    SupplierMove(s, {"EXTRACTED"}, "AWAITING_SUPPLIER_REVIEW") /\ UNCHANGED confirmed

\* confirm_review keeps the confirmed fields, whether or not all are there.
ConfirmReview(s, fields) ==
    /\ SupplierMove(s, {"AWAITING_SUPPLIER_REVIEW"}, "CONFIRMED")
    /\ confirmed' = [confirmed EXCEPT ![s] = fields]

\* Mutant: activation only needs a confirmed review.
Complete_Any(s) == TRUE

Complete(s) == Fields \subseteq confirmed[s]

Activate(s) ==
    /\ Complete(s)
    /\ SupplierMove(s, {"CONFIRMED"}, "ACTIVE")
    /\ UNCHANGED confirmed

Suspend(s) == SupplierMove(s, {"ACTIVE"}, "SUSPENDED") /\ UNCHANGED confirmed

ExpireSupplier(s) == SupplierMove(s, {"ACTIVE"}, "EXPIRED") /\ UNCHANGED confirmed
-----------------------------------------------------------------------------
RequestStep ==
    \/ RequestClarification \/ MarkReady \/ StartSourcing
    \/ MarkNoEligibleSuppliers \/ MarkRfqActive \/ BeginQuoteReview
    \/ MarkNoValidQuotes \/ StartNegotiation
    \/ \E q \in Quotes : RequestApproval(q)
    \/ \E p \in Approvals :
         \/ \E actor \in ActorTypes : RecordHumanApproval(p, actor)
         \/ RecordApprovalRejected(p)
    \/ \E w \in Awards :
         \/ RecordAwardSent(w)
         \/ \E t \in Terms : RecordSupplierAcceptance(w, t)
         \/ RecordSupplierDecline(w)
    \/ MarkReadyForContracting \/ Close \/ Cancel \/ Expire

QuoteStep ==
    \E q \in {x \in Quotes : version[x] < MaxQuoteVersion} :
        \/ RecordOpened(q) \/ SaveDraft(q) \/ StartValidation(q)
        \/ \E person \in People : Submit(q, person)
        \/ RequestQuoteClarification(q) \/ RecordClarification(q)
        \/ \E person \in People, until \in 0..(MaxTime + 1) : MarkValid(q, person, until)
        \/ StartQuoteNegotiation(q) \/ Finalize(q)
        \/ Select(q) \/ Reject(q) \/ ExpireQuote(q)

ApprovalStep ==
    \E p \in Approvals :
        \/ \E q \in Quotes : CreateApproval(p, q)
        \/ \E actor \in ActorTypes : Decide(p, actor)

AwardStep ==
    \E w \in Awards :
        \/ \E p \in Approvals, t \in Terms : CreateAward(w, p, t)
        \/ ConfirmDelivery(w)
        \/ \E person \in People : Answer(w, person)

SupplierStep ==
    \E s \in Suppliers :
        \/ RecordMaterialsUploaded(s) \/ RecordExtraction(s) \/ RequestReview(s)
        \/ \E fields \in SUBSET Fields : ConfirmReview(s, fields)
        \/ Activate(s) \/ Suspend(s) \/ ExpireSupplier(s)

Tick ==
    /\ clock < MaxTime
    /\ clock' = clock + 1
    /\ UNCHANGED <<state, version, log, requestFacts, respondent, quoteFacts,
                   approvalFacts, awardFacts, confirmed>>

Next == RequestStep \/ QuoteStep \/ ApprovalStep \/ AwardStep \/ SupplierStep \/ Tick

Spec == Init /\ [][Next]_vars
-----------------------------------------------------------------------------
(***************************************************************************)
(* Properties                                                              *)
(***************************************************************************)

\* The position of the event that took the request to a state, if any.
Reached(to) == {i \in 1..Len(log) : log[i].to = to}

\* A human approved the quote version the approval was asked for.
ApprovalsWereAsked ==
    \A i \in Reached("APPROVED") :
      /\ log[i].of.actor = "human"
      /\ \E j \in Reached("AWAITING_APPROVAL") : j < i /\ log[j].of = log[i].of.ref

\* The award was sent for the quote version that was approved.
AwardsWereApproved ==
    \A i \in Reached("AWARD_SENT") :
      \E j \in Reached("APPROVED") : j < i /\ log[j].of.ref = log[i].of.ref

\* An acceptance is of the award and the terms that were sent.
AcceptancesWereSent ==
    \A i \in Reached("SUPPLIER_ACCEPTED") :
      \E j \in Reached("AWARD_SENT") :
        j < i /\ log[j].of.award = log[i].of.award /\ log[j].of.terms = log[i].of.terms

\* A request that was awarded is never withdrawn, and nothing follows a
\* withdrawal.
WithdrawalsAreLast ==
    \A i \in Reached("CANCELLED") \cup Reached("EXPIRED") :
      i = Len(log) /\ Reached("AWARD_SENT") = {}

\* An award stands on a human approval that never changes again, and is
\* answered only after its delivery.
AwardsStandOnApprovals ==
    \A w \in {x \in Awards : state[x] # "None"} :
      /\ state[basis[w]] = "APPROVED" /\ decidedBy[basis[w]] = "human"
      /\ state[w] \in {"ACCEPTED", "DECLINED"} => sentAt[w] # None

\* Nothing is committed without the whole chain (the states and bindings that
\* each method of the request, the approval and the award requires).
CommitmentsAreChained ==
    /\ ApprovalsWereAsked
    /\ AwardsWereApproved
    /\ AcceptancesWereSent
    /\ WithdrawalsAreLast
    /\ AwardsStandOnApprovals

\* A quote that reached VALID was validated for the respondent who submitted
\* it, also after clarifications (_validated_facts).
QuotesAreBound ==
    \A q \in Quotes :
      state[q] \in {"VALID", "NEGOTIATING", "FINAL", "SELECTED", "REJECTED", "EXPIRED"} =>
          facts[q] # None /\ facts[q].by = respondent[q]

\* A supplier is, or was, active only with every required field confirmed by
\* itself (confirm_review, activate).
SuppliersAreBound ==
    \A s \in Suppliers :
      state[s] \in {"ACTIVE", "SUSPENDED", "EXPIRED"} => Fields \subseteq confirmed[s]

\* Quotes and suppliers speak for whom they should.
PartiesAreBound == QuotesAreBound /\ SuppliersAreBound
-----------------------------------------------------------------------------
(***************************************************************************)
(* What makes these properties inductive                                   *)
(***************************************************************************)

\* The states of a request that has an award out, or had one.
AfterAward ==
    {"AWARD_SENT", "SUPPLIER_ACCEPTED", "SUPPLIER_DECLINED_AWARD",
     "READY_FOR_CONTRACTING", "CLOSED"}

\* The last event of the request tells its state and what it is bound to.
LogTellsTheState ==
    LET last == log[Len(log)] IN
    /\ Len(log) > 0
    /\ last.to = state[Request]
    /\ state[Request] = "APPROVED" => last.of.ref = selected
    /\ state[Request] = "AWARD_SENT" =>
         last.of.award = awardId /\ last.of.terms = awardTerms
    /\ selected # None => \E j \in Reached("AWAITING_APPROVAL") : log[j].of = selected
    /\ Reached("AWARD_SENT") # {} => state[Request] \in AfterAward

\* Approvals and awards have what their creation and their decision gave them.
BindingsAreSet ==
    /\ \A p \in Approvals : state[p] # "None" => bound[p] \in Refs
    /\ \A p \in Approvals : state[p] = "APPROVED" => decidedBy[p] = "human"
    /\ \A w \in Awards :
         /\ state[w] # "None" <=> basis[w] # None
         /\ state[w] # "None" => terms[w] # None
         /\ state[w] = "SENT" => sentAt[w] # None

\* A quote that was submitted has a respondent.
SubmissionsAreSigned ==
    \A q \in Quotes :
      respondent[q] = None => state[q] \in {"REQUESTED", "OPENED", "DRAFT_RESPONSE"}

LifecyclesInv ==
    /\ TypeOK
    /\ LogTellsTheState
    /\ BindingsAreSet
    /\ SubmissionsAreSigned
    /\ CommitmentsAreChained
    /\ PartiesAreBound
=============================================================================
