--------------------------- MODULE LifecyclesProofs ---------------------------
(***************************************************************************)
(* Theorems about the domain aggregates, for any number of quotes,         *)
(* approvals, awards and suppliers, and any order of calls.                *)
(***************************************************************************)
EXTENDS Lifecycles, TLAPS

\* What is said of the events of the request alone.
LogInv ==
    /\ LogTellsTheState
    /\ ApprovalsWereAsked
    /\ AwardsWereApproved
    /\ AcceptancesWereSent
    /\ WithdrawalsAreLast

-----------------------------------------------------------------------------
(* The events of the request *)

\* A new event comes after the ones that are there.
LEMMA LogGrows ==
  ASSUME log \in Seq(Event), NEW e \in Event, log' = Append(log, e)
  PROVE  /\ log' \in Seq(Event)
         /\ Len(log) \in Nat /\ Len(log') = Len(log) + 1
         /\ log'[Len(log')] = e
         /\ \A i \in 1..Len(log) : log'[i] = log[i]
         /\ \A to : /\ Reached(to) \subseteq 1..Len(log)
                    /\ Reached(to)' = IF e.to = to THEN Reached(to) \cup {Len(log')}
                                      ELSE Reached(to)
<1>1. /\ log' \in Seq(Event)
      /\ Len(log) \in Nat /\ Len(log') = Len(log) + 1
      /\ log'[Len(log')] = e
      /\ \A i \in 1..Len(log) : log'[i] = log[i]
      /\ 1..Len(log') = (1..Len(log)) \cup {Len(log')}
  OBVIOUS
<1>2. ASSUME NEW to
      PROVE  /\ Reached(to) \subseteq 1..Len(log)
             /\ Reached(to)' = IF e.to = to THEN Reached(to) \cup {Len(log')}
                               ELSE Reached(to)
  BY <1>1 DEF Reached
<1> QED
  BY <1>1, <1>2

\* What an event must refer to when it is written.
Justified(e) ==
    /\ state[Request] \notin {"CANCELLED", "EXPIRED"}
    /\ state[Request] \in AfterAward => e.to \in AfterAward
    /\ e.to = "APPROVED" =>
         /\ e.of.actor = "human"
         /\ \E j \in Reached("AWAITING_APPROVAL") : log[j].of = e.of.ref
    /\ e.to = "AWARD_SENT" => \E j \in Reached("APPROVED") : log[j].of.ref = e.of.ref
    /\ e.to = "SUPPLIER_ACCEPTED" =>
         \E j \in Reached("AWARD_SENT") :
           log[j].of.award = e.of.award /\ log[j].of.terms = e.of.terms

\* A justified event keeps the chain of events.
LEMMA ChainGrows ==
  ASSUME LogInv, log \in Seq(Event), NEW e \in Event, log' = Append(log, e), Justified(e)
  PROVE  ApprovalsWereAsked' /\ AwardsWereApproved' /\ AcceptancesWereSent'
           /\ WithdrawalsAreLast'
<1>0. /\ Len(log) \in Nat /\ Len(log') = Len(log) + 1
      /\ log'[Len(log')] = e
      /\ \A i \in 1..Len(log) : log'[i] = log[i] /\ i < Len(log')
      /\ \A to : /\ Reached(to) \subseteq 1..Len(log)
                 /\ Reached(to) \subseteq Reached(to)'
                 /\ Reached(to)' = IF e.to = to THEN Reached(to) \cup {Len(log')}
                                   ELSE Reached(to)
  BY LogGrows
<1>1. ApprovalsWereAsked'
  <2> SUFFICES ASSUME NEW i \in Reached("APPROVED")'
               PROVE  /\ log'[i].of.actor = "human"
                      /\ \E j \in Reached("AWAITING_APPROVAL")' :
                           j < i /\ log'[j].of = log'[i].of.ref
    BY DEF ApprovalsWereAsked
  <2>1. CASE i \in Reached("APPROVED")
    BY <1>0, <2>1 DEF LogInv, ApprovalsWereAsked
  <2>2. CASE i = Len(log') /\ e.to = "APPROVED"
    BY <1>0, <2>2 DEF Justified
  <2> QED
    BY <1>0, <2>1, <2>2
<1>2. AwardsWereApproved'
  <2> SUFFICES ASSUME NEW i \in Reached("AWARD_SENT")'
               PROVE  \E j \in Reached("APPROVED")' :
                        j < i /\ log'[j].of.ref = log'[i].of.ref
    BY DEF AwardsWereApproved
  <2>1. CASE i \in Reached("AWARD_SENT")
    BY <1>0, <2>1 DEF LogInv, AwardsWereApproved
  <2>2. CASE i = Len(log') /\ e.to = "AWARD_SENT"
    BY <1>0, <2>2 DEF Justified
  <2> QED
    BY <1>0, <2>1, <2>2
<1>3. AcceptancesWereSent'
  <2> SUFFICES ASSUME NEW i \in Reached("SUPPLIER_ACCEPTED")'
               PROVE  \E j \in Reached("AWARD_SENT")' :
                        /\ j < i /\ log'[j].of.award = log'[i].of.award
                        /\ log'[j].of.terms = log'[i].of.terms
    BY DEF AcceptancesWereSent
  <2>1. CASE i \in Reached("SUPPLIER_ACCEPTED")
    BY <1>0, <2>1 DEF LogInv, AcceptancesWereSent
  <2>2. CASE i = Len(log') /\ e.to = "SUPPLIER_ACCEPTED"
    BY <1>0, <2>2 DEF Justified
  <2> QED
    BY <1>0, <2>1, <2>2
<1>4. WithdrawalsAreLast'
  <2>1. Reached("CANCELLED") = {} /\ Reached("EXPIRED") = {}
    BY <1>0 DEF LogInv, WithdrawalsAreLast, LogTellsTheState, Justified, Reached
  <2>2. e.to \in {"CANCELLED", "EXPIRED"} => Reached("AWARD_SENT")' = {}
    BY <1>0 DEF LogInv, LogTellsTheState, Justified, AfterAward
  <2> QED
    BY <1>0, <2>1, <2>2 DEF WithdrawalsAreLast
<1> QED
  BY <1>1, <1>2, <1>3, <1>4

\* A justified event that says what the request is bound to keeps LogInv.
LEMMA LogKept ==
  ASSUME LogInv, log \in Seq(Event), NEW e \in Event, log' = Append(log, e), Justified(e),
         e.to = state'[Request],
         e.to = "APPROVED" => e.of.ref = selected',
         e.to = "AWARD_SENT" => e.of.award = awardId' /\ e.of.terms = awardTerms',
         selected' = selected \/ (e.to = "AWAITING_APPROVAL" /\ selected' = e.of)
  PROVE  LogInv'
<1>0. /\ Len(log) \in Nat /\ Len(log') = Len(log) + 1
      /\ log'[Len(log')] = e
      /\ \A i \in 1..Len(log) : log'[i] = log[i]
      /\ \A to : /\ Reached(to) \subseteq 1..Len(log)
                 /\ Reached(to)' = IF e.to = to THEN Reached(to) \cup {Len(log')}
                                   ELSE Reached(to)
  BY LogGrows
<1>1. selected' # None => \E j \in Reached("AWAITING_APPROVAL")' : log'[j].of = selected'
  <2>1. CASE selected' = selected
    BY <1>0, <2>1 DEF LogInv, LogTellsTheState
  <2>2. CASE e.to = "AWAITING_APPROVAL" /\ selected' = e.of
    BY <1>0, <2>2
  <2> QED
    BY <2>1, <2>2
<1>2. Reached("AWARD_SENT")' # {} => state'[Request] \in AfterAward
  BY <1>0 DEF LogInv, LogTellsTheState, Justified, AfterAward
<1>3. LogTellsTheState'
  BY <1>0, <1>1, <1>2 DEF LogTellsTheState
<1> QED
  BY <1>3, ChainGrows DEF LogInv

\* The other aggregates write no event of the request.
LEMMA LogFrame ==
  ASSUME LogInv, UNCHANGED <<log, selected, awardId, awardTerms>>,
         state'[Request] = state[Request]
  PROVE  LogInv'
<1>1. \A to : Reached(to)' = Reached(to)
  BY DEF Reached
<1> QED
  BY <1>1 DEF LogInv, LogTellsTheState, ApprovalsWereAsked, AwardsWereApproved,
              AcceptancesWereSent, WithdrawalsAreLast

-----------------------------------------------------------------------------
(* Transitions *)

\* The request is none of the other aggregates, and these are of four kinds.
LEMMA Kinds ==
  /\ Request \in Objects /\ Quotes \subseteq Objects /\ Approvals \subseteq Objects
  /\ Awards \subseteq Objects /\ Suppliers \subseteq Objects
  /\ \A q \in Quotes : q # Request /\ q \notin Approvals /\ q \notin Awards /\ q \notin Suppliers
  /\ \A p \in Approvals : p # Request /\ p \notin Awards /\ p \notin Suppliers
  /\ \A w \in Awards : w # Request /\ w \notin Suppliers
  /\ \A s \in Suppliers : s # Request
BY LifecyclesAssumption DEF Objects

\* One aggregate changed to a state, with a version: nobody else did.
Becomes(x, to) ==
    /\ DOMAIN state' = Objects
    /\ version' \in [Objects -> Nat]
    /\ state'[x] = to
    /\ \A y \in Objects : y # x => state'[y] = state[y]

\* A method that goes on only from its allowed states leaves the object where it
\* says and every other object where it was.
LEMMA TransitionStep ==
  ASSUME TypeOK, NEW x \in Objects, NEW allowed, NEW to, Transition(x, allowed, to)
  PROVE  Becomes(x, to) /\ state[x] \in allowed
<1>1. version[x] + 1 \in Nat
  BY DEF TypeOK
<1>2. version' \in [Objects -> Nat]
  BY <1>1 DEF TypeOK, Transition, NextVersion
<1> QED
  BY <1>2 DEF TypeOK, Transition, Becomes

\* A new object starts where its kind starts.
LEMMA CreateStep ==
  ASSUME TypeOK, NEW x \in Objects, NEW first, Create(x, first)
  PROVE  Becomes(x, first) /\ state[x] = "None"
BY DEF TypeOK, Create, Becomes

\* What is said of the approvals and the awards.
CommitInv == BindingsAreSet /\ AwardsStandOnApprovals

\* What is said of the approvals and the awards depends on them and the log only.
LEMMA CommitFrame ==
  ASSUME CommitInv, UNCHANGED <<bound, decidedBy, basis, terms, sentAt>>,
         \A x \in Approvals \cup Awards : state'[x] = state[x],
         \A w \in Awards : basis[w] # None => basis[w] \in Approvals
  PROVE  CommitInv'
<1>1. BindingsAreSet'
  BY DEF CommitInv, BindingsAreSet
<1>2. \A w \in Awards : state[w] # "None" => state'[basis[w]] = state[basis[w]]
  BY DEF CommitInv, BindingsAreSet
<1>3. AwardsStandOnApprovals'
  BY <1>2 DEF CommitInv, AwardsStandOnApprovals
<1> QED
  BY <1>1, <1>3 DEF CommitInv

\* What is said of the quotes.
QuoteInv == SubmissionsAreSigned /\ QuotesAreBound

\* What is said of the quotes depends on them and what binds them only.
LEMMA QuoteFrame ==
  ASSUME QuoteInv, UNCHANGED facts,
         \A q \in Quotes : state'[q] = state[q] /\ respondent'[q] = respondent[q]
  PROVE  QuoteInv'
BY DEF QuoteInv, SubmissionsAreSigned, QuotesAreBound

\* What is said of the suppliers depends on them and what binds them only.
LEMMA SupplierFrame ==
  ASSUME SuppliersAreBound, UNCHANGED confirmed,
         \A s \in Suppliers : state'[s] = state[s]
  PROVE  SuppliersAreBound'
BY DEF SuppliersAreBound

\* The invariant in the parts that a step can disturb.
LEMMA Parts ==
  LifecyclesInv <=> TypeOK /\ LogInv /\ CommitInv /\ QuoteInv /\ SuppliersAreBound
BY DEF LifecyclesInv, LogInv, CommitInv, QuoteInv, CommitmentsAreChained, PartiesAreBound

-----------------------------------------------------------------------------
(* The request *)

\* A method of the request that appends a justified event.
LEMMA MoveKept ==
  ASSUME LifecyclesInv, NEW allowed, NEW to \in RequestStates, NEW of \in Subject,
         Move(allowed, to, of),
         selected' \in Refs \cup {None}, approvalId' \in Approvals \cup {None},
         awardId' \in Awards \cup {None}, awardTerms' \in Terms \cup {None},
         "CANCELLED" \notin allowed, "EXPIRED" \notin allowed,
         allowed \cap AfterAward = {} \/ to \in AfterAward,
         to = "APPROVED" =>
           /\ of.actor = "human" /\ of.ref = selected'
           /\ \E j \in Reached("AWAITING_APPROVAL") : log[j].of = of.ref,
         to = "AWARD_SENT" =>
           /\ of.award = awardId' /\ of.terms = awardTerms'
           /\ \E j \in Reached("APPROVED") : log[j].of.ref = of.ref,
         to = "SUPPLIER_ACCEPTED" =>
           \E j \in Reached("AWARD_SENT") : log[j].of.award = of.award /\ log[j].of.terms = of.terms,
         selected' = selected \/ (to = "AWAITING_APPROVAL" /\ selected' = of)
  PROVE  LifecyclesInv'
<1> DEFINE n == NextVersion(Request)
           e == [from |-> state[Request], to |-> to, at |-> n, of |-> of]
<1>0. TypeOK /\ LogInv /\ CommitInv /\ QuoteInv /\ SuppliersAreBound
  BY Parts
<1>1. /\ Becomes(Request, to) /\ state[Request] \in allowed
      /\ log' = Append(log, e)
      /\ UNCHANGED <<respondent, facts, bound, decidedBy, basis, terms, sentAt, confirmed, clock>>
  BY <1>0, Kinds, TransitionStep DEF Move, quoteFacts, approvalFacts, awardFacts
<1>2. n \in Nat /\ state[Request] \in RequestStates
  BY <1>0, Kinds DEF TypeOK, NextVersion
<1> HIDE DEF n
<1>3. e \in Event /\ e.to = to /\ e.of = of
  BY <1>2 DEF Event
<1> HIDE DEF e
<1>4. \A x \in Quotes \cup Approvals \cup Awards \cup Suppliers : state'[x] = state[x]
  BY <1>1, Kinds DEF Becomes
<1>5. TypeOK'
  <2>1. log' \in Seq(Event)
    BY <1>0, <1>1, <1>3 DEF TypeOK
  <2> QED
    BY <1>0, <1>1, <1>4, <2>1 DEF TypeOK, Becomes
<1>6. LogInv'
  <2>1. Justified(e)
    BY <1>1, <1>3 DEF Justified
  <2>2. e.to = state'[Request] /\ log \in Seq(Event)
    BY <1>0, <1>1, <1>3 DEF Becomes, TypeOK
  <2> QED
    BY <1>0, <1>1, <1>3, <2>1, <2>2, LogKept
<1>7. CommitInv'
  BY <1>0, <1>1, <1>4, CommitFrame DEF TypeOK
<1>8. QuoteInv' /\ SuppliersAreBound'
  BY <1>0, <1>1, <1>4, QuoteFrame, SupplierFrame
<1> QED
  BY <1>5, <1>6, <1>7, <1>8
  DEF LifecyclesInv, LogInv, CommitInv, QuoteInv, CommitmentsAreChained, PartiesAreBound

\* A method that refers to nothing and binds nothing.
LEMMA PlainMoveKept ==
  ASSUME LifecyclesInv, NEW allowed, NEW to \in RequestStates, Move(allowed, to, None),
         UNCHANGED <<selected, approvalId, awardId, awardTerms>>,
         to \notin {"APPROVED", "AWARD_SENT", "SUPPLIER_ACCEPTED"},
         "CANCELLED" \notin allowed, "EXPIRED" \notin allowed,
         allowed \cap AfterAward = {} \/ to \in AfterAward
  PROVE  LifecyclesInv'
<1>1. None \in Subject
  BY DEF Subject
<1>2. /\ selected' \in Refs \cup {None} /\ approvalId' \in Approvals \cup {None}
      /\ awardId' \in Awards \cup {None} /\ awardTerms' \in Terms \cup {None}
  BY DEF LifecyclesInv, TypeOK
<1> QED
  BY <1>1, <1>2, MoveKept

\* The methods of the request: each event it appends has what it needs in the
\* log or in the aggregates.
LEMMA RequestStepKept ==
  ASSUME LifecyclesInv, RequestStep
  PROVE  LifecyclesInv'
<1>0. TypeOK /\ LogInv /\ CommitInv
  BY Parts
<1>1. ASSUME RequestClarification \/ MarkReady \/ StartSourcing \/ MarkNoEligibleSuppliers
             \/ MarkRfqActive \/ BeginQuoteReview
      PROVE  LifecyclesInv'
  BY <1>1, PlainMoveKept
  DEF RequestClarification, MarkReady, StartSourcing, MarkNoEligibleSuppliers, MarkRfqActive,
      BeginQuoteReview, requestFacts, RequestStates, AfterAward
<1>2. ASSUME MarkNoValidQuotes \/ StartNegotiation \/ (\E p \in Approvals : RecordApprovalRejected(p))
      PROVE  LifecyclesInv'
  BY <1>2, PlainMoveKept
  DEF MarkNoValidQuotes, StartNegotiation, RecordApprovalRejected, requestFacts, RequestStates,
      AfterAward
<1>3. ASSUME (\E w \in Awards : RecordSupplierDecline(w)) \/ MarkReadyForContracting \/ Close
      PROVE  LifecyclesInv'
  BY <1>3, PlainMoveKept
  DEF RecordSupplierDecline, MarkReadyForContracting, Close, requestFacts, RequestStates, AfterAward
<1>4. ASSUME Cancel \/ Expire
      PROVE  LifecyclesInv'
  BY <1>4, PlainMoveKept
  DEF Cancel, Expire, Withdrawable, PreCommitStates, requestFacts, RequestStates, AfterAward
<1>5. ASSUME NEW q \in Quotes, RequestApproval(q)
      PROVE  LifecyclesInv'
  <2>1. Ref(q) \in Refs /\ Ref(q) \in Subject
    BY <1>0, Kinds DEF Ref, Refs, Subject, TypeOK
  <2>2. /\ Move({"QUOTES_UNDER_REVIEW", "NEGOTIATING"}, "AWAITING_APPROVAL", Ref(q))
        /\ selected' = Ref(q)
        /\ UNCHANGED <<approvalId, awardId, awardTerms>>
    BY <1>5 DEF RequestApproval
  <2> QED
    BY <1>0, <2>1, <2>2, MoveKept DEF RequestStates, AfterAward, TypeOK
<1>6. ASSUME NEW p \in Approvals, NEW actor \in ActorTypes, RecordHumanApproval(p, actor)
      PROVE  LifecyclesInv'
  <2> DEFINE of == [approval |-> p, actor |-> actor, ref |-> bound[p]]
  <2>1. /\ bound[p] \in Refs /\ bound[p] # None
        /\ actor = "human" /\ bound[p] = selected
        /\ Move({"AWAITING_APPROVAL"}, "APPROVED", of)
        /\ approvalId' = p
        /\ UNCHANGED <<selected, awardId, awardTerms>>
    BY <1>0, <1>6, NoneAssumption
    DEF RecordHumanApproval, MayDecide, SelectedQuote, CommitInv, BindingsAreSet
  <2>2. of \in Subject /\ of.actor = "human" /\ of.ref = selected
    BY <2>1 DEF Subject
  <2> HIDE DEF of
  <2>3. \E j \in Reached("AWAITING_APPROVAL") : log[j].of = of.ref
    BY <1>0, <2>1, <2>2 DEF LogInv, LogTellsTheState
  <2> QED
    BY <1>0, <2>1, <2>2, <2>3, MoveKept DEF RequestStates, AfterAward, TypeOK
<1>7. ASSUME NEW w \in Awards, RecordAwardSent(w)
      PROVE  LifecyclesInv'
  <2> DEFINE of == [award |-> w, terms |-> terms[w], ref |-> bound[basis[w]]]
  <2>1. basis[w] \in Approvals /\ state[w] # "None" /\ terms[w] \in Terms
    BY <1>0, <1>7 DEF RecordAwardSent, TypeOK, CommitInv, BindingsAreSet
  <2>2. bound[basis[w]] \in Refs
    BY <1>0, <2>1 DEF CommitInv, BindingsAreSet, AwardsStandOnApprovals
  <2>3. /\ bound[basis[w]] = selected
        /\ Move({"APPROVED"}, "AWARD_SENT", of)
        /\ awardId' = w /\ awardTerms' = terms[w]
        /\ UNCHANGED <<selected, approvalId>>
    BY <1>7 DEF RecordAwardSent, SelectedQuote
  <2>4. of \in Subject /\ of.award = w /\ of.terms = terms[w] /\ of.ref = selected
    BY <2>1, <2>2, <2>3 DEF Subject
  <2> HIDE DEF of
  <2>5. \E j \in Reached("APPROVED") : log[j].of.ref = of.ref
    <3>1. state[Request] = "APPROVED"
      BY <1>0, <2>3, Kinds, TransitionStep DEF Move
    <3>2. Len(log) \in Nat /\ Len(log) > 0
      BY <1>0 DEF LogInv, LogTellsTheState, TypeOK
    <3>3. Len(log) \in Reached("APPROVED") /\ log[Len(log)].of.ref = selected
      BY <1>0, <3>1, <3>2 DEF LogInv, LogTellsTheState, Reached
    <3> QED
      BY <2>4, <3>3
  <2> QED
    BY <1>0, <2>1, <2>3, <2>4, <2>5, MoveKept DEF RequestStates, AfterAward, TypeOK
<1>8. ASSUME NEW w \in Awards, NEW t \in Terms, RecordSupplierAcceptance(w, t)
      PROVE  LifecyclesInv'
  <2> DEFINE of == [award |-> w, terms |-> t]
  <2>1. of \in Subject /\ of.award = w /\ of.terms = t
    BY DEF Subject
  <2>2. /\ Move({"AWARD_SENT"}, "SUPPLIER_ACCEPTED", of)
        /\ w = awardId /\ t = awardTerms
        /\ UNCHANGED <<selected, approvalId, awardId, awardTerms>>
    BY <1>8 DEF RecordSupplierAcceptance, MatchingAward, requestFacts
  <2> HIDE DEF of
  <2>3. \E j \in Reached("AWARD_SENT") : log[j].of.award = of.award /\ log[j].of.terms = of.terms
    <3>1. state[Request] = "AWARD_SENT"
      BY <1>0, <2>2, Kinds, TransitionStep DEF Move
    <3>2. Len(log) \in Nat /\ Len(log) > 0
      BY <1>0 DEF LogInv, LogTellsTheState, TypeOK
    <3>3. /\ Len(log) \in Reached("AWARD_SENT")
          /\ log[Len(log)].of.award = awardId /\ log[Len(log)].of.terms = awardTerms
      BY <1>0, <3>1, <3>2 DEF LogInv, LogTellsTheState, Reached
    <3> QED
      BY <2>1, <2>2, <3>3
  <2> QED
    BY <1>0, <2>1, <2>2, <2>3, MoveKept DEF RequestStates, AfterAward, TypeOK
<1> QED
  BY <1>1, <1>2, <1>3, <1>4, <1>5, <1>6, <1>7, <1>8 DEF RequestStep

-----------------------------------------------------------------------------
(* The quotes *)

\* The states of a quote that has not been submitted, and of one that is valid.
Unsubmitted == {"REQUESTED", "OPENED", "DRAFT_RESPONSE"}
Validated == {"VALID", "NEGOTIATING", "FINAL", "SELECTED", "REJECTED", "EXPIRED"}

\* A method of a quote, with what it leaves in the respondent and the facts.
LEMMA QuoteKept ==
  ASSUME LifecyclesInv, NEW q \in Quotes, NEW to \in QuoteStates, Becomes(q, to), QuoteOnly,
         respondent' \in [Quotes \cup Awards -> People \cup {None}],
         facts' \in [Quotes -> Facts \cup {None}],
         \A x \in Quotes : x # q => respondent'[x] = respondent[x] /\ facts'[x] = facts[x],
         respondent'[q] = None => to \in Unsubmitted,
         to \in Validated => facts'[q] # None /\ facts'[q].by = respondent'[q]
  PROVE  LifecyclesInv'
<1>0. TypeOK /\ LogInv /\ CommitInv /\ QuoteInv /\ SuppliersAreBound
  BY Parts
<1>1. UNCHANGED <<log, selected, approvalId, awardId, awardTerms, bound, decidedBy, basis,
                  terms, sentAt, confirmed, clock>>
  BY DEF QuoteOnly, requestFacts, approvalFacts, awardFacts
<1>2. /\ \A x \in {Request} \cup Approvals \cup Awards \cup Suppliers : state'[x] = state[x]
      /\ \A x \in Quotes : x # q => state'[x] = state[x]
      /\ state'[q] = to
  BY Kinds DEF Becomes
<1>3. TypeOK'
  <2>1. \A x \in Quotes : state'[x] \in QuoteStates
    BY <1>0, <1>2 DEF TypeOK
  <2> QED
    BY <1>0, <1>1, <1>2, <2>1 DEF TypeOK, Becomes
<1>4. LogInv'
  BY <1>0, <1>1, <1>2, LogFrame
<1>5. CommitInv'
  BY <1>0, <1>1, <1>2, CommitFrame DEF TypeOK
<1>6. SuppliersAreBound'
  BY <1>0, <1>1, <1>2, SupplierFrame
<1>7. QuoteInv'
  BY <1>0, <1>2 DEF QuoteInv, SubmissionsAreSigned, QuotesAreBound, Unsubmitted, Validated
<1> QED
  BY <1>3, <1>4, <1>5, <1>6, <1>7
  DEF LifecyclesInv, LogInv, CommitInv, QuoteInv, CommitmentsAreChained, PartiesAreBound

\* A method of a quote that only moves it, to where its facts allow.
LEMMA QuoteMoveKept ==
  ASSUME LifecyclesInv, NEW q \in Quotes, NEW allowed, NEW to \in QuoteStates,
         QuoteMove(q, allowed, to),
         allowed \cap Unsubmitted = {} \/ to \in Unsubmitted,
         allowed \subseteq Validated \/ to \notin Validated
  PROVE  LifecyclesInv'
<1>0. TypeOK /\ QuoteInv
  BY Parts
<1>1. /\ Becomes(q, to) /\ state[q] \in allowed /\ QuoteOnly
      /\ UNCHANGED <<respondent, facts>>
  BY <1>0, Kinds, TransitionStep DEF QuoteMove, quoteFacts
<1>2. respondent[q] = None => to \in Unsubmitted
  BY <1>0, <1>1 DEF QuoteInv, SubmissionsAreSigned, Unsubmitted
<1>3. to \in Validated => facts[q] # None /\ facts[q].by = respondent[q]
  BY <1>0, <1>1 DEF QuoteInv, QuotesAreBound, Validated
<1> QED
  BY <1>0, <1>1, <1>2, <1>3, QuoteKept DEF TypeOK

\* The methods of a quote: where it gets is where its facts allow it to be.
LEMMA QuoteStepKept ==
  ASSUME LifecyclesInv, QuoteStep
  PROVE  LifecyclesInv'
<1>0. TypeOK /\ QuoteInv
  BY Parts
<1> PICK q \in Quotes :
           \/ RecordOpened(q) \/ SaveDraft(q) \/ StartValidation(q)
           \/ \E person \in People : Submit(q, person)
           \/ RequestQuoteClarification(q) \/ RecordClarification(q)
           \/ \E person \in People, until \in 0..(MaxTime + 1) : MarkValid(q, person, until)
           \/ StartQuoteNegotiation(q) \/ Finalize(q)
           \/ Select(q) \/ Reject(q) \/ ExpireQuote(q)
  BY DEF QuoteStep
<1>1. CASE RecordOpened(q) \/ SaveDraft(q)
  BY <1>1, QuoteMoveKept DEF RecordOpened, SaveDraft, QuoteStates, Unsubmitted, Validated
<1>2. CASE StartValidation(q) \/ RequestQuoteClarification(q) \/ RecordClarification(q)
  BY <1>2, QuoteMoveKept
  DEF StartValidation, RequestQuoteClarification, RecordClarification, QuoteStates, Unsubmitted,
      Validated
<1>3. CASE StartQuoteNegotiation(q) \/ Finalize(q)
  BY <1>3, QuoteMoveKept
  DEF StartQuoteNegotiation, Finalize, QuoteStates, Unsubmitted, Validated
<1>4. CASE Select(q) \/ Reject(q) \/ ExpireQuote(q)
  BY <1>4, QuoteMoveKept DEF Select, Reject, ExpireQuote, QuoteStates, Unsubmitted, Validated
<1>5. ASSUME NEW person \in People, Submit(q, person)
      PROVE  LifecyclesInv'
  <2>1. /\ Becomes(q, "SUBMITTED") /\ QuoteOnly /\ UNCHANGED facts
        /\ respondent' = [respondent EXCEPT ![q] = person]
    BY <1>0, <1>5, Kinds, TransitionStep DEF Submit, quoteFacts
  <2>2. respondent \in [Quotes \cup Awards -> People \cup {None}] /\ person # None
    BY <1>0, NoneAssumption DEF TypeOK
  <2>3. /\ respondent' \in [Quotes \cup Awards -> People \cup {None}]
        /\ respondent'[q] = person
        /\ \A x \in Quotes : x # q => respondent'[x] = respondent[x]
    BY <2>1, <2>2
  <2> QED
    BY <1>0, <2>1, <2>2, <2>3, QuoteKept DEF QuoteStates, Unsubmitted, Validated, TypeOK
<1>6. ASSUME NEW person \in People, NEW until \in 0..(MaxTime + 1), MarkValid(q, person, until)
      PROVE  LifecyclesInv'
  <2> DEFINE f == [by |-> person, until |-> until]
  <2>1. f \in Facts /\ f.by = person /\ f # None
    BY NoneAssumption DEF Facts
  <2>2. /\ Becomes(q, "VALID") /\ state[q] = "VALIDATING"
        /\ QuoteOnly /\ UNCHANGED respondent
        /\ facts' = [facts EXCEPT ![q] = f]
        /\ respondent[q] # None => person = respondent[q]
    BY <1>0, <1>6, Kinds, TransitionStep DEF MarkValid, Consistent
  <2>3. respondent[q] # None
    BY <1>0, <2>2 DEF QuoteInv, SubmissionsAreSigned
  <2> HIDE DEF f
  <2>4. facts \in [Quotes -> Facts \cup {None}]
    BY <1>0 DEF TypeOK
  <2>5. /\ facts' \in [Quotes -> Facts \cup {None}]
        /\ facts'[q] = f
        /\ \A x \in Quotes : x # q => facts'[x] = facts[x]
    BY <2>1, <2>2, <2>4
  <2> QED
    BY <1>0, <2>1, <2>2, <2>3, <2>5, QuoteKept DEF QuoteStates, Unsubmitted, Validated, TypeOK
<1> QED
  BY <1>1, <1>2, <1>3, <1>4, <1>5, <1>6

-----------------------------------------------------------------------------
(* The approvals and the awards *)

\* A step of an approval or an award leaves the others alone.
LEMMA CommitStepKept ==
  ASSUME LifecyclesInv, NEW x \in Approvals \cup Awards, NEW to,
         to \in (IF x \in Approvals THEN ApprovalStates ELSE AwardStates), Becomes(x, to),
         UNCHANGED <<log, selected, approvalId, awardId, awardTerms, facts, confirmed, clock>>,
         respondent' \in [Quotes \cup Awards -> People \cup {None}],
         \A q \in Quotes : respondent'[q] = respondent[q],
         bound' \in [Approvals -> Refs \cup {None}],
         decidedBy' \in [Approvals -> ActorTypes \cup {None}],
         basis' \in [Awards -> Approvals \cup {None}],
         terms' \in [Awards -> Terms \cup {None}],
         sentAt' \in [Awards -> (0..MaxTime) \cup {None}],
         CommitInv'
  PROVE  LifecyclesInv'
<1>0. TypeOK /\ LogInv /\ QuoteInv /\ SuppliersAreBound
  BY Parts
<1>1. /\ \A y \in {Request} \cup Quotes \cup Suppliers : state'[y] = state[y]
      /\ \A y \in Approvals \cup Awards : y # x => state'[y] = state[y]
      /\ state'[x] = to
  BY Kinds DEF Becomes
<1>2. TypeOK'
  <2>1. \A p \in Approvals : state'[p] \in ApprovalStates
    <3> SUFFICES ASSUME NEW p \in Approvals PROVE state'[p] \in ApprovalStates
      OBVIOUS
    <3>1. state[p] \in ApprovalStates
      BY <1>0 DEF TypeOK
    <3> QED
      BY <1>1, <3>1
  <2>2. \A w \in Awards : state'[w] \in AwardStates
    <3> SUFFICES ASSUME NEW w \in Awards PROVE state'[w] \in AwardStates
      OBVIOUS
    <3>1. state[w] \in AwardStates /\ w \notin Approvals
      BY <1>0, Kinds DEF TypeOK
    <3> QED
      BY <1>1, <3>1
  <2> QED
    BY <1>0, <1>1, <2>1, <2>2 DEF TypeOK, Becomes
<1>3. LogInv'
  BY <1>0, <1>1, LogFrame
<1>4. QuoteInv' /\ SuppliersAreBound'
  BY <1>0, <1>1, QuoteFrame, SupplierFrame
<1> QED
  BY <1>2, <1>3, <1>4
  DEF LifecyclesInv, LogInv, CommitInv, QuoteInv, CommitmentsAreChained, PartiesAreBound

\* The methods of an approval: it is bound once, when it is created.
LEMMA ApprovalStepKept ==
  ASSUME LifecyclesInv, ApprovalStep
  PROVE  LifecyclesInv'
<1>0. TypeOK /\ CommitInv
  BY Parts
<1>1. ASSUME NEW p \in Approvals, NEW q \in Quotes, CreateApproval(p, q)
      PROVE  LifecyclesInv'
  <2>1. Ref(q) \in Refs
    BY <1>0, Kinds DEF Ref, Refs, TypeOK
  <2>2. /\ Becomes(p, "REQUESTED") /\ state[p] = "None"
        /\ bound' = [bound EXCEPT ![p] = Ref(q)]
        /\ UNCHANGED <<log, selected, approvalId, awardId, awardTerms, respondent, facts,
                       decidedBy, basis, terms, sentAt, confirmed, clock>>
    BY <1>0, <1>1, Kinds, CreateStep
    DEF CreateApproval, requestFacts, quoteFacts, awardFacts
  <2>3. bound' \in [Approvals -> Refs \cup {None}]
    BY <1>0, <2>1, <2>2 DEF TypeOK
  <2>4. /\ bound'[p] \in Refs
        /\ \A b \in Approvals : b # p => bound'[b] = bound[b] /\ state'[b] = state[b]
        /\ \A w \in Awards : state'[w] = state[w]
        /\ state'[p] = "REQUESTED"
    BY <1>0, <2>1, <2>2, Kinds DEF TypeOK, Becomes
  <2>5. BindingsAreSet'
    BY <1>0, <2>2, <2>4 DEF CommitInv, BindingsAreSet
  <2>6. \A w \in Awards : state[w] # "None" => basis[w] \in Approvals /\ basis[w] # p
    BY <1>0, <2>2 DEF CommitInv, BindingsAreSet, AwardsStandOnApprovals, TypeOK
  <2>7. AwardsStandOnApprovals'
    BY <1>0, <2>2, <2>4, <2>6 DEF CommitInv, AwardsStandOnApprovals
  <2> QED
    BY <1>0, <2>2, <2>3, <2>5, <2>7, CommitStepKept DEF CommitInv, TypeOK, ApprovalStates
<1>2. ASSUME NEW p \in Approvals, NEW actor \in ActorTypes, Decide(p, actor)
      PROVE  LifecyclesInv'
  <2>1. PICK decision \in {"APPROVED", "REJECTED", "CHANGES_REQUESTED"} :
               Transition(p, Undecided, decision)
    BY <1>2 DEF Decide
  <2>2. /\ Becomes(p, decision) /\ state[p] = "REQUESTED"
        /\ actor = "human"
        /\ decidedBy' = [decidedBy EXCEPT ![p] = actor]
        /\ UNCHANGED <<log, selected, approvalId, awardId, awardTerms, respondent, facts,
                       bound, basis, terms, sentAt, confirmed, clock>>
    BY <1>0, <1>2, <2>1, Kinds, TransitionStep
    DEF Decide, MayDecide, Undecided, requestFacts, quoteFacts, awardFacts
  <2>3. decidedBy' \in [Approvals -> ActorTypes \cup {None}]
    BY <1>0, <2>2 DEF TypeOK
  <2>4. /\ decidedBy'[p] = "human"
        /\ \A b \in Approvals : b # p => decidedBy'[b] = decidedBy[b] /\ state'[b] = state[b]
        /\ \A w \in Awards : state'[w] = state[w]
        /\ state'[p] = decision
    BY <1>0, <2>2, Kinds DEF TypeOK, Becomes
  <2>5. BindingsAreSet'
    BY <1>0, <2>2, <2>4 DEF CommitInv, BindingsAreSet
  <2>6. \A w \in Awards : state[w] # "None" => basis[w] \in Approvals /\ basis[w] # p
    BY <1>0, <2>2 DEF CommitInv, BindingsAreSet, AwardsStandOnApprovals, TypeOK
  <2>7. AwardsStandOnApprovals'
    BY <1>0, <2>2, <2>4, <2>6 DEF CommitInv, AwardsStandOnApprovals
  <2>8. decision \in ApprovalStates
    BY DEF ApprovalStates
  <2> QED
    BY <1>0, <2>2, <2>3, <2>5, <2>7, <2>8, CommitStepKept DEF CommitInv, TypeOK
<1> QED
  BY <1>1, <1>2 DEF ApprovalStep

\* The methods of an award: it is created from an approval that was granted, and
\* an approval that was granted stays so.
LEMMA AwardStepKept ==
  ASSUME LifecyclesInv, AwardStep
  PROVE  LifecyclesInv'
<1>0. TypeOK /\ CommitInv
  BY Parts
<1>1. ASSUME NEW w \in Awards, NEW p \in Approvals, NEW t \in Terms, CreateAward(w, p, t)
      PROVE  LifecyclesInv'
  <2>1. /\ Becomes(w, "CREATED") /\ state[w] = "None" /\ state[p] = "APPROVED"
        /\ basis' = [basis EXCEPT ![w] = p] /\ terms' = [terms EXCEPT ![w] = t]
        /\ UNCHANGED <<log, selected, approvalId, awardId, awardTerms, respondent, facts,
                       bound, decidedBy, sentAt, confirmed, clock>>
    BY <1>0, <1>1, Kinds, CreateStep
    DEF CreateAward, ValidFor, requestFacts, quoteFacts, approvalFacts
  <2>2. /\ basis' \in [Awards -> Approvals \cup {None}]
        /\ terms' \in [Awards -> Terms \cup {None}]
        /\ p # None /\ t # None
    BY <1>0, <2>1, NoneAssumption DEF TypeOK
  <2>3. /\ basis'[w] = p /\ terms'[w] = t
        /\ \A v \in Awards : v # w =>
             basis'[v] = basis[v] /\ terms'[v] = terms[v] /\ state'[v] = state[v]
        /\ \A b \in Approvals : state'[b] = state[b]
        /\ state'[w] = "CREATED"
    BY <1>0, <2>1, Kinds DEF TypeOK, Becomes
  <2>4. BindingsAreSet'
    BY <1>0, <2>1, <2>2, <2>3 DEF CommitInv, BindingsAreSet
  <2>5. \A v \in Awards : state[v] # "None" => basis[v] \in Approvals
    BY <1>0 DEF CommitInv, BindingsAreSet, TypeOK
  <2>6. decidedBy[p] = "human"
    BY <1>0, <2>1 DEF CommitInv, BindingsAreSet
  <2>7. AwardsStandOnApprovals'
    BY <1>0, <2>1, <2>3, <2>5, <2>6 DEF CommitInv, AwardsStandOnApprovals
  <2> QED
    BY <1>0, <2>1, <2>2, <2>4, <2>7, Kinds, CommitStepKept DEF CommitInv, TypeOK, AwardStates
<1>2. ASSUME NEW w \in Awards, ConfirmDelivery(w)
      PROVE  LifecyclesInv'
  <2>1. /\ Becomes(w, "SENT") /\ state[w] = "CREATED"
        /\ sentAt' = [sentAt EXCEPT ![w] = clock]
        /\ UNCHANGED <<log, selected, approvalId, awardId, awardTerms, respondent, facts,
                       bound, decidedBy, basis, terms, confirmed, clock>>
    BY <1>0, <1>2, Kinds, TransitionStep
    DEF ConfirmDelivery, requestFacts, quoteFacts, approvalFacts
  <2>2. /\ sentAt' \in [Awards -> (0..MaxTime) \cup {None}]
        /\ clock # None
    BY <1>0, <2>1, NoneAssumption DEF TypeOK
  <2>3. /\ sentAt'[w] = clock
        /\ \A v \in Awards : v # w => sentAt'[v] = sentAt[v] /\ state'[v] = state[v]
        /\ \A b \in Approvals : state'[b] = state[b]
        /\ state'[w] = "SENT"
    BY <1>0, <2>1, Kinds DEF TypeOK, Becomes
  <2>4. BindingsAreSet'
    BY <1>0, <2>1, <2>2, <2>3 DEF CommitInv, BindingsAreSet
  <2>5. \A v \in Awards : state[v] # "None" => basis[v] \in Approvals
    BY <1>0 DEF CommitInv, BindingsAreSet, TypeOK
  <2>6. AwardsStandOnApprovals'
    BY <1>0, <2>1, <2>3, <2>5 DEF CommitInv, AwardsStandOnApprovals
  <2> QED
    BY <1>0, <2>1, <2>2, <2>4, <2>6, Kinds, CommitStepKept DEF CommitInv, TypeOK, AwardStates
<1>3. ASSUME NEW w \in Awards, NEW person \in People, Answer(w, person)
      PROVE  LifecyclesInv'
  <2>1. PICK to \in {"ACCEPTED", "DECLINED"} : Transition(w, Answerable, to)
    BY <1>3 DEF Answer
  <2>2. /\ Becomes(w, to) /\ state[w] = "SENT"
        /\ respondent' = [respondent EXCEPT ![w] = person]
        /\ UNCHANGED <<log, selected, approvalId, awardId, awardTerms, facts,
                       bound, decidedBy, basis, terms, sentAt, confirmed, clock>>
    BY <1>0, <1>3, <2>1, Kinds, TransitionStep
    DEF Answer, Answerable, requestFacts, quoteFacts, approvalFacts, awardFacts
  <2>3. /\ respondent' \in [Quotes \cup Awards -> People \cup {None}]
        /\ \A q \in Quotes : respondent'[q] = respondent[q]
    BY <1>0, <2>2, Kinds DEF TypeOK
  <2>4. /\ \A v \in Awards : v # w => state'[v] = state[v]
        /\ \A b \in Approvals : state'[b] = state[b]
        /\ state'[w] = to
        /\ sentAt[w] # None
    BY <1>0, <2>2, Kinds DEF Becomes, CommitInv, BindingsAreSet
  <2>5. BindingsAreSet'
    BY <1>0, <2>2, <2>4 DEF CommitInv, BindingsAreSet
  <2>6. \A v \in Awards : state[v] # "None" => basis[v] \in Approvals
    BY <1>0 DEF CommitInv, BindingsAreSet, TypeOK
  <2>7. AwardsStandOnApprovals'
    BY <1>0, <2>2, <2>4, <2>6 DEF CommitInv, AwardsStandOnApprovals
  <2>8. to \in AwardStates
    BY DEF AwardStates
  <2> QED
    BY <1>0, <2>2, <2>3, <2>5, <2>7, <2>8, Kinds, CommitStepKept DEF CommitInv, TypeOK
<1> QED
  BY <1>1, <1>2, <1>3 DEF AwardStep

-----------------------------------------------------------------------------
(* The suppliers *)

\* The methods of a supplier: what it is bound to is set with its state.
LEMMA SupplierStepKept ==
  ASSUME LifecyclesInv, SupplierStep
  PROVE  LifecyclesInv'
<1>0. TypeOK /\ LogInv /\ CommitInv /\ QuoteInv /\ SuppliersAreBound
  BY Parts
<1>1. ASSUME NEW s \in Suppliers, NEW to \in SupplierStates, Becomes(s, to),
             confirmed' \in [Suppliers -> SUBSET Fields],
             \A x \in Suppliers : x # s => confirmed'[x] = confirmed[x],
             to \in {"ACTIVE", "SUSPENDED", "EXPIRED"} => Fields \subseteq confirmed'[s],
             UNCHANGED <<log, requestFacts, respondent, quoteFacts, approvalFacts,
                         awardFacts, clock>>
      PROVE  LifecyclesInv'
  <2>1. UNCHANGED <<log, selected, approvalId, awardId, awardTerms, respondent, facts,
                    bound, decidedBy, basis, terms, sentAt, clock>>
    BY <1>1 DEF requestFacts, quoteFacts, approvalFacts, awardFacts
  <2>2. /\ \A y \in {Request} \cup Quotes \cup Approvals \cup Awards : state'[y] = state[y]
        /\ \A y \in Suppliers : y # s => state'[y] = state[y]
        /\ state'[s] = to
    BY <1>1, Kinds DEF Becomes
  <2>3. TypeOK'
    <3>1. \A y \in Suppliers : state'[y] \in SupplierStates
      BY <1>0, <2>2 DEF TypeOK
    <3> QED
      BY <1>0, <1>1, <2>1, <2>2, <3>1 DEF TypeOK, Becomes
  <2>4. LogInv' /\ QuoteInv'
    BY <1>0, <2>1, <2>2, LogFrame, QuoteFrame
  <2>5. CommitInv'
    BY <1>0, <2>1, <2>2, CommitFrame DEF TypeOK
  <2>6. SuppliersAreBound'
    BY <1>0, <1>1, <2>2 DEF SuppliersAreBound
  <2> QED
    BY <2>3, <2>4, <2>5, <2>6
    DEF LifecyclesInv, LogInv, CommitInv, QuoteInv, CommitmentsAreChained, PartiesAreBound
<1> PICK s \in Suppliers :
           \/ RecordMaterialsUploaded(s) \/ RecordExtraction(s) \/ RequestReview(s)
           \/ \E fields \in SUBSET Fields : ConfirmReview(s, fields)
           \/ Activate(s) \/ Suspend(s) \/ ExpireSupplier(s)
  BY DEF SupplierStep
<1>2. confirmed \in [Suppliers -> SUBSET Fields]
  BY <1>0 DEF TypeOK
<1>3. ASSUME NEW to \in SupplierStates, NEW allowed, SupplierMove(s, allowed, to),
             UNCHANGED confirmed,
             to \in {"ACTIVE", "SUSPENDED", "EXPIRED"} => Fields \subseteq confirmed[s]
      PROVE  LifecyclesInv'
  <2>1. Becomes(s, to)
    BY <1>0, <1>3, Kinds, TransitionStep DEF SupplierMove
  <2> QED
    BY <1>1, <1>2, <1>3, <2>1 DEF SupplierMove
<1>4. CASE RecordMaterialsUploaded(s) \/ RecordExtraction(s) \/ RequestReview(s)
  BY <1>3, <1>4 DEF RecordMaterialsUploaded, RecordExtraction, RequestReview, SupplierStates
<1>5. CASE Activate(s)
  BY <1>3, <1>5 DEF Activate, Complete, SupplierStates
<1>6. CASE Suspend(s) \/ ExpireSupplier(s)
  <2>1. state[s] = "ACTIVE"
    BY <1>6 DEF Suspend, ExpireSupplier, SupplierMove, Transition
  <2>2. Fields \subseteq confirmed[s]
    BY <1>0, <2>1 DEF SuppliersAreBound
  <2> QED
    BY <1>3, <1>6, <2>2 DEF Suspend, ExpireSupplier, SupplierStates
<1>7. ASSUME NEW fields \in SUBSET Fields, ConfirmReview(s, fields)
      PROVE  LifecyclesInv'
  <2>1. /\ Becomes(s, "CONFIRMED")
        /\ confirmed' = [confirmed EXCEPT ![s] = fields]
        /\ UNCHANGED <<log, requestFacts, respondent, quoteFacts, approvalFacts,
                       awardFacts, clock>>
    BY <1>0, <1>7, Kinds, TransitionStep DEF ConfirmReview, SupplierMove
  <2>2. /\ confirmed' \in [Suppliers -> SUBSET Fields]
        /\ \A x \in Suppliers : x # s => confirmed'[x] = confirmed[x]
    BY <1>2, <2>1
  <2> QED
    BY <1>1, <2>1, <2>2 DEF SupplierStates
<1> QED
  BY <1>4, <1>5, <1>6, <1>7

-----------------------------------------------------------------------------
(* The whole invariant *)

\* The first event of the request, and nothing else.
LEMMA InitLifecycles == Init => LifecyclesInv
<1> SUFFICES ASSUME Init PROVE LifecyclesInv
  OBVIOUS
<1> DEFINE e == [from |-> "None", to |-> "DRAFT", at |-> 1, of |-> None]
<1>1. e \in Event
  BY DEF Event, Subject, RequestStates
<1>2. /\ \A x \in Objects : state[x] = IF x \in {Request} \cup Suppliers THEN "DRAFT"
                                      ELSE IF x \in Quotes THEN "REQUESTED" ELSE "None"
      /\ DOMAIN state = Objects /\ log = <<e>>
  BY DEF Init
<1> HIDE DEF e
<1>3. /\ state[Request] = "DRAFT"
      /\ \A q \in Quotes : state[q] = "REQUESTED"
      /\ \A x \in Approvals \cup Awards : state[x] = "None"
      /\ \A s \in Suppliers : state[s] = "DRAFT"
  BY <1>2, Kinds
<1>4. log \in Seq(Event) /\ Len(log) = 1 /\ log[1] = e /\ e.to = "DRAFT"
  BY <1>1, <1>2 DEF e
<1>5. TypeOK
  <2>1. 0 \in 0..MaxTime
    BY LifecyclesAssumption
  <2> QED
    BY <1>2, <1>3, <1>4, <2>1
    DEF Init, TypeOK, RequestStates, QuoteStates, ApprovalStates, AwardStates, SupplierStates
<1>6. \A to : to # "DRAFT" => Reached(to) = {}
  BY <1>4 DEF Reached
<1>7. LogInv
  BY <1>3, <1>4, <1>6
  DEF Init, LogInv, LogTellsTheState, ApprovalsWereAsked, AwardsWereApproved,
      AcceptancesWereSent, WithdrawalsAreLast
<1>8. CommitInv /\ QuoteInv /\ SuppliersAreBound
  BY <1>3 DEF Init, CommitInv, BindingsAreSet, AwardsStandOnApprovals, QuoteInv,
              SubmissionsAreSigned, QuotesAreBound, SuppliersAreBound
<1> QED
  BY <1>5, <1>7, <1>8, Parts

\* LifecyclesInv is inductive.
LEMMA NextLifecycles == LifecyclesInv /\ [Next]_vars => LifecyclesInv'
<1> SUFFICES ASSUME LifecyclesInv, [Next]_vars PROVE LifecyclesInv'
  OBVIOUS
<1>0. TypeOK /\ LogInv /\ CommitInv /\ QuoteInv /\ SuppliersAreBound
  BY Parts
<1>1. ASSUME UNCHANGED <<state, version, log, requestFacts, respondent, quoteFacts,
                         approvalFacts, awardFacts, confirmed>>,
             clock' \in 0..MaxTime
      PROVE  LifecyclesInv'
  <2>1. UNCHANGED <<state, version, log, selected, approvalId, awardId, awardTerms, respondent,
                    facts, bound, decidedBy, basis, terms, sentAt, confirmed>>
    BY <1>1 DEF requestFacts, quoteFacts, approvalFacts, awardFacts
  <2>2. TypeOK'
    BY <1>0, <1>1, <2>1 DEF TypeOK
  <2>3. LogInv' /\ QuoteInv' /\ SuppliersAreBound'
    BY <1>0, <2>1, LogFrame, QuoteFrame, SupplierFrame
  <2>4. CommitInv'
    BY <1>0, <2>1, CommitFrame DEF TypeOK
  <2> QED
    BY <2>2, <2>3, <2>4
    DEF LifecyclesInv, LogInv, CommitInv, QuoteInv, CommitmentsAreChained, PartiesAreBound
<1>2. CASE Tick
  <2>1. clock' \in 0..MaxTime
    BY <1>0, <1>2, LifecyclesAssumption DEF Tick, TypeOK
  <2> QED
    BY <1>1, <1>2, <2>1 DEF Tick
<1>3. CASE UNCHANGED vars
  BY <1>0, <1>1, <1>3 DEF vars, TypeOK
<1> QED
  BY <1>2, <1>3, RequestStepKept, QuoteStepKept, ApprovalStepKept, AwardStepKept,
     SupplierStepKept DEF Next

\* So LifecyclesInv holds in every reachable state.
LEMMA LifecyclesInvariant == Spec => []LifecyclesInv
BY InitLifecycles, NextLifecycles, PTL DEF Spec

\* Whatever the callers do and in whatever order, no commitment exists without
\* the whole chain that leads to it.
THEOREM CommitmentsStand == Spec => []CommitmentsAreChained
<1>1. LifecyclesInv => CommitmentsAreChained
  BY DEF LifecyclesInv
<1> QED
  BY <1>1, LifecyclesInvariant, PTL

\* Quotes and suppliers always speak for whom they should.
THEOREM PartiesStayBound == Spec => []PartiesAreBound
<1>1. LifecyclesInv => PartiesAreBound
  BY DEF LifecyclesInv
<1> QED
  BY <1>1, LifecyclesInvariant, PTL
====
