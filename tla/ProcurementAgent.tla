-------------------------- MODULE ProcurementAgent --------------------------
(***************************************************************************)
(* The bounded workflow of ProcurementAgentOrchestrator                    *)
(* (modules/procurement_agent/orchestrator.py): the buyer's messages       *)
(* become a request, the buyer confirms its plan, and typed tools search   *)
(* suppliers, evaluate them, select recipients and have the execution      *)
(* service create one RFQ round.                                           *)
(*                                                                         *)
(* One mutation lock serialises the operations, so at most one is under    *)
(* way; each of its awaits is a step here, because the interpreter, the    *)
(* directory and the execution service may fail there, and the clock and   *)
(* the directory move on.  An operation works on a copy (`op.work`) of the *)
(* stored process and saves it when it ends.                               *)
(***************************************************************************)
EXTENDS RequestFacts, Sourcing

CONSTANTS
  Message,          \* [says : facts, hints : facts, confirms : values]
  Claim,            \* answers of the language model: [field -> [value, quoted]]
  CreationKey,      \* idempotency keys of messages that create a request
  Supplier,         \* the ids in the directory, in their order
  Profile,          \* the profiles a supplier may have; None: it is not listed
  City,             \* the policy's default_location_city
  DefaultTarget,    \* default_target_supplier_count of the policy
  MaximumTarget,    \* maximum_target_supplier_count of the policy
  MinimumQuotes,    \* minimum_valid_quotes the execution service asks for
  Deniable,         \* actions the authorization policy may deny to an actor
  ProviderFails,    \* whether the interpreter may fail
  ToolsFail,        \* whether a tool may fail or time out before its effect
  AnswersGetLost,   \* whether create_rfq_round may fail after its effect
  MaxSteps,         \* max_steps of an agent run
  MaxRequests,      \* bound on the requests that are created
  MaxVersion,       \* bound on the version of a draft
  MaxRuns,          \* bound on the agent runs of one request
  MaxTime,          \* bound on the clock
  MaxMoves          \* bound on the changes of the directory

ASSUME AgentAssumption ==
  /\ Supplier \subseteq Nat
  /\ {DefaultTarget, MaximumTarget, MaxSteps, MaxRequests} \subseteq Nat \ {0}
  /\ DefaultTarget <= MaximumTarget
  /\ {ProviderFails, ToolsFail, AnswersGetLost} \subseteq BOOLEAN

\* What is read in a message are integers, under the names of the fields.
ASSUME MessageAssumption ==
  \A msg \in Message : \A h \in {msg.says, msg.hints} :
    DOMAIN h \subseteq Field /\ \A f \in DOMAIN h : h[f] \in Int

\* None is neither a number nor a key.
ASSUME NoneAssumption == None \notin Int \cup (Int \X Int)

VARIABLES
  now,        \* the clock
  directory,  \* the profile of each supplier
  moves,      \* how often the directory has changed
  processes,  \* the stored process of each request
  creations,  \* per creation key: the message and the request it made
  rounds,     \* the execution service: rounds by idempotency key
  op,         \* the operation that holds the lock, or Idle
  runs,       \* per request: the latest agent run and how many there were
  trail,      \* per request: the status its audit trail ends with
  brokenTrail \* history: requests with an event that contradicts the one before

vars == <<now, directory, moves, processes, creations, rounds, op, runs,
          trail, brokenTrail>>

environment == <<now, directory, moves>>

-----------------------------------------------------------------------------

RequestId == 1..MaxRequests

Idle == [step |-> "idle"]

NoProcess == [status |-> "NONE"]

NewProcess ==
  [status |-> "DRAFT", draft |-> NewDraft, asked |-> << >>, evidence |-> << >>,
   question |-> None, target |-> None, selected |-> {}, round |-> None,
   stop |-> None]

IsDraft(p) == p.target = None

NoRun == [status |-> None, steps |-> 0, number |-> 0]

Init ==
  /\ now = 0
  /\ directory \in [Supplier -> Profile]
  /\ moves = 0
  /\ processes = [r \in RequestId |-> NoProcess]
  /\ creations = [k \in CreationKey |-> None]
  /\ rounds = {}
  /\ op = Idle
  /\ runs = [r \in RequestId |-> NoRun]
  /\ trail = [r \in RequestId |-> None]
  /\ brokenTrail = {}

Tick ==
  /\ now < MaxTime
  /\ now' = now + 1
  /\ UNCHANGED <<directory, moves, processes, creations, rounds, op, runs,
                 trail, brokenTrail>>

\* A supplier's profile changes in the directory.
Move(s, p) ==
  /\ moves < MaxMoves
  /\ directory[s] # p
  /\ directory' = [directory EXCEPT ![s] = p]
  /\ moves' = moves + 1
  /\ UNCHANGED <<now, processes, creations, rounds, op, runs, trail, brokenTrail>>

-----------------------------------------------------------------------------
\* Runs, events and the end of an operation.

StartRun(r) ==
  /\ runs[r].number < MaxRuns
  /\ runs' = [runs EXCEPT ![r] = [status |-> "RUNNING", steps |-> 0,
                                  number |-> @.number + 1]]

Spent(r) == [runs[r] EXCEPT !.steps = @ + 1]

\* An event that says the request went from one status to another; None where
\* the event does not say.
Record(r, from, to) ==
  /\ trail' = [trail EXCEPT ![r] = to]
  /\ brokenTrail' = IF from \notin {None, trail[r]} THEN brokenTrail \cup {r}
                    ELSE brokenTrail

NoRecord == UNCHANGED <<trail, brokenTrail>>

\* The operation ends: its run is closed and its process is saved.
Finish(r, p, run, status) ==
  /\ op' = Idle
  /\ processes' = [processes EXCEPT ![r] = p]
  /\ runs' = [runs EXCEPT ![r] = [run EXCEPT !.status = status]]
  /\ UNCHANGED <<environment, creations>>

-----------------------------------------------------------------------------
\* Messages.

Listen(r, msg, process) ==
  /\ op' = [step |-> "interpret", request |-> r, message |-> msg, work |-> process]
  /\ StartRun(r)
  /\ UNCHANGED <<environment, rounds>>

IsNextRequest(r) == processes[r] = NoProcess /\ \A q \in 1..(r - 1) : processes[q] # NoProcess

\* The creation key is bound to the request before the provider is asked.
Reserve(k, msg, r) ==
  creations' = [creations EXCEPT ![k] = [message |-> msg, request |-> r]]

\* POST /messages without a request id, under a key that is new.
CreateRequest(k, msg, r) ==
  /\ op = Idle
  /\ creations[k] = None
  /\ IsNextRequest(r)
  /\ Reserve(k, msg, r)
  /\ processes' = [processes EXCEPT ![r] = NewProcess]
  /\ Listen(r, msg, NewProcess)
  /\ Record(r, None, "DRAFT")

\* The same call again: it is taken up where it failed.  Otherwise the stored
\* process is shown, or the key is refused for another message, and nothing
\* changes.
RetryCreation(k) ==
  /\ op = Idle
  /\ creations[k] # None
  /\ LET c == creations[k]
         p == processes[c.request]
     IN  /\ p.stop = "ACTION_BLOCKED"
         /\ IsDraft(p)
         /\ Listen(c.request, c.message, p)
  /\ UNCHANGED <<processes, creations>>
  /\ NoRecord

\* A further message about a request that has no plan yet.
ContinueRequest(r, msg) ==
  /\ op = Idle
  /\ processes[r] # NoProcess
  /\ IsDraft(processes[r])
  /\ Listen(r, msg, processes[r])
  /\ UNCHANGED <<processes, creations>>
  /\ NoRecord

InterpretationFails ==
  /\ ProviderFails
  /\ op.step = "interpret"
  /\ Finish(op.request, [op.work EXCEPT !.stop = "ACTION_BLOCKED"],
            runs[op.request], "BLOCKED")
  /\ UNCHANGED rounds
  /\ NoRecord

\* The message is the evidence of these fields now.
Evident(fields, msg, old) ==
  [f \in fields \cup DOMAIN old |-> IF f \in fields THEN msg ELSE old[f]]

\* Mutant: evidence is kept for every fact of the message.
NewEvidence_OfAll(found, settled, msg, old) ==
  Evident(DOMAIN found.extracted \cup DOMAIN found.conflicts, msg, old)

\* The message that an accepted fact rests on replaces older evidence.
NewEvidence(found, settled, msg, old) ==
  Evident(DOMAIN found.extracted \cup settled, msg, old)

\* The facts that may be heard in a message: the local rules read it, or they
\* verify what the language model makes of it.
Readings(msg) == {msg.says} \cup {Verified(msg, c) : c \in Claim}

\* The process after an interpreted message, before its status is set.
Understood(p, msg, heard) ==
  LET found   == Interpret(p.draft, heard)
      settled == Settled(msg, found.conflicts, p.asked)
      open    == DOMAIN found.conflicts \ settled
  IN  [p EXCEPT
        !.draft    = ApplyPatch(ApplyPatch(@, found.extracted, {}),
                                Restrict(found.conflicts, settled), settled),
        !.asked    = Restrict(found.conflicts, open),
        !.evidence = NewEvidence(found, settled, msg, @)]

Ask(p, question) ==
  [p EXCEPT !.status = "NEEDS_CLARIFICATION", !.question = question,
            !.stop = "NEEDS_CLARIFICATION"]

TargetCount(facts) ==
  LET desired == IF facts["desired_quote_count"] = None THEN DefaultTarget
                 ELSE facts["desired_quote_count"]
  IN  IF desired < MaximumTarget THEN desired ELSE MaximumTarget

\* The process an understood message leaves: a question, or a plan.
Assessed(p) ==
  IF DOMAIN p.asked # {} THEN Ask(p, "CONFLICTING_CONFIRMED_VALUE")
  ELSE IF ~IsReady(p.draft.facts, now) THEN Ask(p, ClarificationFor(p.draft.facts, now))
  ELSE [p EXCEPT !.status = "READY", !.question = None,
                 !.target = TargetCount(p.draft.facts),
                 !.stop = "AWAITING_PLAN_CONFIRMATION"]

InterpretMessage ==
  /\ op.step = "interpret"
  /\ \E heard \in Readings(op.message) :
     LET r == op.request
         p == Assessed(Understood(op.work, op.message, heard))
     IN  /\ p.draft.version <= MaxVersion
         /\ Finish(r, p, Spent(r), "PAUSED")
         /\ Record(r, IF p.status = "READY" THEN op.work.status ELSE None, p.status)
  /\ UNCHANGED rounds

-----------------------------------------------------------------------------
\* The confirmation of the plan.

\* The arguments the tools get: the confirmed facts as search criteria.
SearchCriteria(facts) ==
  [category |-> facts["category"], city |-> City,
   district |-> IF facts["location_district"] = None THEN Unset ELSE facts["location_district"],
   people_count |-> facts["people_count"],
   maximum_lead_time_hours |->
     IF facts["delivery_time"] = None THEN Unset
     ELSE IF EventAt(facts) > now THEN EventAt(facts) - now ELSE 0,
   invoice_required |-> facts["invoice_required"] = 1,
   diets |-> {d \in Diets : facts[d] > 0},
   tags |-> {t \in {"no_single_use_plastic"} : facts[t] = 1}]

CanConfirm(r) ==
  /\ op = Idle
  /\ processes[r] # NoProcess
  /\ processes[r].round = None
  /\ processes[r].status = "READY"

ConfirmPlan(r) ==
  /\ CanConfirm(r)
  /\ StartRun(r)
  /\ op' = [step |-> "search", request |-> r, work |-> [processes[r] EXCEPT !.status = "SOURCING"],
            criteria |-> SearchCriteria(processes[r].draft.facts),
            since |-> now, found |-> << >>, results |-> {}]
  /\ Record(r, processes[r].status, "SOURCING")
  /\ UNCHANGED <<environment, processes, creations, rounds>>

\* The policy denies the confirmation itself; the run begins and is blocked.
ConfirmationDenied(r) ==
  /\ CanConfirm(r)
  /\ "start_sourcing" \in Deniable
  /\ runs[r].number < MaxRuns
  /\ Finish(r, [processes[r] EXCEPT !.stop = "ACTION_BLOCKED"],
            [NoRun EXCEPT !.number = runs[r].number + 1], "BLOCKED")
  /\ UNCHANGED rounds
  /\ NoRecord

\* The tool of each step.
Tool ==
  [search |-> "search_suppliers", evaluate |-> "evaluate_supplier_eligibility",
   select |-> "select_rfq_recipients", create |-> "create_rfq_round"]

Sourcing_ == op.step \in DOMAIN Tool

MayStep(run) == run.steps < MaxSteps

\* Mutant: the status is left as it was.
GiveBack_Stuck(p, reason) == [p EXCEPT !.stop = reason]

\* The process is given back to the buyer, to be confirmed again.
GiveBack(p, reason) == [p EXCEPT !.status = "READY", !.stop = reason]

OutOfSteps ==
  /\ Sourcing_
  /\ ~MayStep(runs[op.request])
  /\ Finish(op.request, GiveBack(op.work, "MAX_STEPS_REACHED"), runs[op.request], "BLOCKED")
  /\ Record(op.request, "SOURCING", "READY")
  /\ UNCHANGED rounds

Executes == Sourcing_ /\ MayStep(runs[op.request])

\* A tool is not allowed, or fails, or does not answer in time.
ToolFails ==
  /\ Executes
  /\ ToolsFail \/ Tool[op.step] \in Deniable
  /\ Finish(op.request, GiveBack(op.work, "ACTION_BLOCKED"), runs[op.request], "BLOCKED")
  /\ Record(op.request, "SOURCING", "READY")
  /\ UNCHANGED rounds

Proceed(next) ==
  /\ op' = next
  /\ runs' = [runs EXCEPT ![op.request] = Spent(op.request)]
  /\ UNCHANGED <<environment, processes, creations, rounds>>
  /\ NoRecord

\* The directory returns every supplier it knows; the engine judges them.
Search ==
  /\ Executes
  /\ op.step = "search"
  /\ LET listed == {s \in Supplier : directory[s] # None}
     IN  Proceed([op EXCEPT !.step = IF listed = {} THEN "select" ELSE "evaluate",
                            !.found = Restrict(directory, listed)])

EvaluateNext ==
  /\ Executes
  /\ op.step = "evaluate"
  /\ LET judged == {x[1] : x \in op.results}
         left == DOMAIN op.found \ judged
         s == CHOOSE t \in left : \A u \in left : t <= u
     IN  Proceed([op EXCEPT
           !.step    = IF left = {s} THEN "select" ELSE "evaluate",
           !.results = @ \cup {<<s, Evaluate(op.found[s], op.criteria, now)>>}])

Select ==
  /\ Executes
  /\ op.step = "select"
  /\ LET chosen == SelectRecipients(op.results, op.work.target)
         p == [op.work EXCEPT !.selected = chosen]
         none == [p EXCEPT !.status = "NO_ELIGIBLE_SUPPLIERS",
                           !.stop = "NO_ELIGIBLE_SUPPLIERS"]
     IN  IF chosen # {} THEN Proceed([op EXCEPT !.step = "create", !.work = p])
         ELSE /\ Finish(op.request, none, Spent(op.request), "PAUSED")
              /\ Record(op.request, "SOURCING", "NO_ELIGIBLE_SUPPLIERS")
              /\ UNCHANGED rounds

\* Mutant: the key names the agent run instead of the confirmed version.
RoundKey_OfRun(r) == <<r, runs[r].number>>

\* The idempotency key of the command: request and version of the request
\* (the orchestrator never changes a plan, whose version stays 1).
RoundKey(r) == <<r, op.work.draft.version>>

\* Mutant: a known key answers without comparing the payload.
Replays_Anything(round) == round.key = RoundKey(op.request)

\* A round made for this very command.
Replays(round) ==
  /\ round.key = RoundKey(op.request)
  /\ round.recipients = op.work.selected

\* What the command may find or make at the execution service: nothing when
\* it is refused.
RoundFor ==
  LET known == {x \in rounds : x.key = RoundKey(op.request)}
      fresh == [key |-> RoundKey(op.request), request |-> op.request,
                recipients |-> op.work.selected, made |-> now]
      acceptable == /\ op.work.draft.facts["response_deadline"] > now
                    /\ op.work.draft.facts["delivery_time"] # None
                    /\ MinimumQuotes <= Cardinality(op.work.selected)
  IN  IF known # {} THEN {x \in known : Replays(x)}
      ELSE {x \in {fresh} : acceptable}

Creates == Executes /\ op.step = "create"

CreateRound ==
  /\ Creates
  /\ \E round \in RoundFor :
       /\ rounds' = rounds \cup {round}
       /\ Finish(op.request,
                 [op.work EXCEPT !.round = round.key,
                                 !.stop = "AWAITING_EXTERNAL_RESPONSE"],
                 Spent(op.request), "PAUSED")
  /\ NoRecord

\* The execution service refuses the command.
RoundRefused ==
  /\ Creates
  /\ RoundFor = {}
  /\ Finish(op.request, GiveBack(op.work, "ACTION_BLOCKED"), runs[op.request], "BLOCKED")
  /\ Record(op.request, "SOURCING", "READY")
  /\ UNCHANGED rounds

\* The round is committed and the answer is lost: the tool fails all the same.
AnswerLost ==
  /\ AnswersGetLost
  /\ Creates
  /\ \E round \in RoundFor : rounds' = rounds \cup {round}
  /\ Finish(op.request, GiveBack(op.work, "ACTION_BLOCKED"), runs[op.request], "BLOCKED")
  /\ Record(op.request, "SOURCING", "READY")

-----------------------------------------------------------------------------

MessageNext ==
  \/ \E k \in CreationKey, msg \in Message, r \in RequestId : CreateRequest(k, msg, r)
  \/ \E k \in CreationKey : RetryCreation(k)
  \/ \E r \in RequestId, msg \in Message : ContinueRequest(r, msg)
  \/ InterpretationFails
  \/ InterpretMessage

SourcingNext ==
  \/ \E r \in RequestId : ConfirmPlan(r) \/ ConfirmationDenied(r)
  \/ OutOfSteps
  \/ ToolFails
  \/ Search
  \/ EvaluateNext
  \/ Select
  \/ CreateRound
  \/ RoundRefused
  \/ AnswerLost

Next == MessageNext \/ SourcingNext \/ Tick \/ \E s \in Supplier, p \in Profile : Move(s, p)

Spec == Init /\ [][Next]_vars

-----------------------------------------------------------------------------
\* Properties.

Created == {r \in RequestId : processes[r] # NoProcess}

RoundsOf(r) == {x \in rounds : x.request = r}

ShowsRound(r, p) ==
  /\ p.status = "SOURCING" <=> p.round # None
  /\ p.round # None => \E x \in RoundsOf(r) : /\ x.key = p.round
                                              /\ x.recipients = p.selected

\* However often the buyer confirms a plan again, after whatever failure, the
\* execution service holds at most one round for the request.  Between
\* operations a request is SOURCING exactly when it has its round, and shows
\* that round and its very recipients, even when an earlier attempt made it and
\* the directory has changed since (confirm_plan, create_rfq_round's replay).
ShownRoundIsTheRound ==
  \A r \in Created : Cardinality(RoundsOf(r)) <= 1 /\ ShowsRound(r, processes[r])

\* Read on its own, the audit trail tells the status of every request: each
\* event starts from the status the last one ended with, and with no operation
\* under way the last one is the stored status.
AuditTrailMatchesStatus ==
  /\ brokenTrail = {}
  /\ op = Idle => \A r \in Created : trail[r] = processes[r].status

EvidenceBacks(p) ==
  /\ DOMAIN p.evidence = p.draft.explicit
  /\ \A f \in DOMAIN p.evidence : p.draft.facts[f] \in Supports(p.evidence[f], f)

\* Every fact that was ever supplied is shown with evidence from a message of
\* the buyer that supports the very value the request holds, whatever a
\* language model claimed and whichever values were disputed since.
EvidenceBacksFacts == \A r \in Created : EvidenceBacks(processes[r])

\* Once the buyer has supplied a fact, it changes only while no plan has been
\* offered, when a question about that very value was open and the message that
\* is being read confirms it; a retried creation changes no offered plan.
FactsChangeOnlyWhenConfirmed ==
  [][\A r \in Created : \A f \in processes[r].draft.explicit :
       processes'[r].draft.facts[f] # processes[r].draft.facts[f] =>
         /\ IsDraft(processes[r])
         /\ f \in DOMAIN processes[r].asked
         /\ processes[r].asked[f] = processes'[r].draft.facts[f]
         /\ processes[r].asked[f] \in op.message.confirms]_vars

-----------------------------------------------------------------------------
\* What the properties rest on.

Draft == [facts : [Field -> Int \cup {None}], explicit : SUBSET Field, version : Nat]

PlanStatus == {"READY", "SOURCING", "NO_ELIGIBLE_SUPPLIERS"}

\* The fields of a process; a plan has been offered from READY on, and what was
\* supplied is known.
IsProcess(p) ==
  /\ p \in [status : {"DRAFT", "NEEDS_CLARIFICATION"} \cup PlanStatus, draft : Draft,
            asked : {p.asked}, evidence : {p.evidence}, question : {p.question},
            target : Int \cup {None}, selected : {p.selected},
            round : (Int \X Int) \cup {None}, stop : {p.stop}]
  /\ p.target = None <=> p.status \notin PlanStatus
  /\ \A f \in p.draft.explicit : p.draft.facts[f] # None

\* The parts of an operation: it is about a process that is there.
IsOperation(o) ==
  /\ o.request \in Created
  /\ IsProcess(o.work)
  /\ \/ /\ o.step = "interpret"
        /\ DOMAIN o = {"step", "request", "message", "work"}
        /\ o.message \in Message
     \/ /\ o.step \in DOMAIN Tool
        /\ DOMAIN o = {"step", "request", "work", "criteria", "since", "found", "results"}

TypeOK ==
  /\ DOMAIN processes = RequestId
  /\ \A r \in Created : IsProcess(processes[r])
  /\ DOMAIN creations = CreationKey
  /\ \A k \in CreationKey : creations[k] # None => /\ creations[k].request \in Created
                                                 /\ creations[k].message \in Message
  /\ DOMAIN trail = RequestId
  /\ op # Idle => IsOperation(op)

SourcesFor(p, work) == work = [p EXCEPT !.status = "SOURCING", !.selected = work.selected]

\* An operation works on the stored process: a message is read into it as it is,
\* and sourcing changes who is selected.
WorkIsTheProcess ==
  op # Idle =>
    LET p == processes[op.request]
    IN  IF op.step = "interpret" THEN op.work = p /\ IsDraft(p)
        ELSE p.status = "READY" /\ SourcesFor(p, op.work)

\* A round is made under the key of the plan that its request was offered, which
\* no message changes any more, and there is one under that key.
RoundsAreOfPlans ==
  \A x \in rounds :
    /\ x.request \in Created
    /\ ~IsDraft(processes[x.request])
    /\ x.key = <<x.request, processes[x.request].draft.version>>
    /\ \A y \in rounds : y.key = x.key => y = x

\* The status the trail of a request ends with: its own, or the one that the
\* operation under way gives it.
CurrentStatus(r) ==
  IF op # Idle /\ op.request = r THEN op.work.status ELSE processes[r].status

TrailTellsTheStatus ==
  /\ brokenTrail = {}
  /\ \A r \in Created : trail[r] = CurrentStatus(r)

\* The inductive invariant.
AgentInv ==
  /\ TypeOK
  /\ WorkIsTheProcess
  /\ RoundsAreOfPlans
  /\ \A r \in Created : ShowsRound(r, processes[r]) /\ EvidenceBacks(processes[r])
  /\ TrailTellsTheStatus
=============================================================================
