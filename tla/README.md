# Verification of the procurement channel

TLA+ specifications, TLC runs and TLAPS proofs for the backend of the
procurement channel (`src/backend/app`): an agent turns a buyer's request into
requests for quotation (RFQs), suppliers answer through signed links, people
approve, and the award ends in a confirmed reservation.

Paths below are relative to `src/backend/app` unless they start with `src/`.

## 1. Inventory

| Component | State it keeps | Operations | Model |
|---|---|---|---|
| RFQ execution service, `modules/rfq` | `ExecutionStore`: rounds, recipients, quotes and their versions, comparisons, approvals, awards, reservations, status of the request, audit events, idempotency records | `create_round`, `send_round`, `get_delivery_status`, `submit_quote`, `get_quote_status`, `compare`, `request_approval`, `decide_approval`, `send_award`, `get_award_status`, `accept_award`, `decline_award`, `confirm_reservation` | `RfqExecution` |
| Delivery gateways, `modules/messaging`, `live/manual_link_repository.py` | one record per message: sent to the gateway, delivered, failed; the manual link also its human activities | `send`, `ack`, `fail`, `get_status`; `reveal`, `record_sent`, `confirm_supplier_open` | `ManualLink`, which implements `DeliveryGateway`; the fake gateway in `RfqExecution` |
| Live runtime, `live/uow.py`, `live/repository.py`, `live/application.py` | a snapshot of `ExecutionStore` in SQL rows, one lock row, idempotency rows, audit rows | a unit of work per command: lock, load, execute, save, commit or roll back | `LiveCommands`, which implements `CommandLedger` |
| HTTP surface, `live/router.py`, `live/server.py`, ... | none | rendering, parsing, authentication | not modelled |
| Transactional outbox, `infrastructure/outbox` | rows with status, attempts, lease and receipt | `enqueue`, `claim_due`, `mark_failed`, `mark_delivered` | `Outbox` |
| Quote rules and scoring, `modules/quotes`, `modules/comparison` | none (pure) | eligibility and price of a quote; integer scores in basis points; the order of the ranking | `QuoteRules`, `QuoteScoring`, driven by `QuoteComparison` |
| Procurement agent, `modules/procurement_agent` | processes and runs, pending questions, plan, evidence, creation records, audit trail | `create_from_message`, `add_message`, `confirm_plan`, the four typed tools | `ProcurementAgent` |
| Procurement requests, `modules/procurement_requests` | drafts, versions, conflicts | apply a patch, detect conflicts and blocking issues, verify what a language model claims | `RequestFacts` |
| Sourcing, `modules/sourcing` | none (pure) | eligibility checks, decision, selection | `Sourcing` |
| Supplier onboarding, `modules/suppliers` | documents, stored files, extraction queue and runs, review fields, single-use links, the directory | ingest, extract, decide on a field, submit, activate; search | `MaterialExtraction` with `ExtractionRules`, `SupplierReview`, `SupplierSearch` |
| Domain aggregates, `domain` | versioned requests, quotes, approvals, awards, suppliers | every transition method | `Lifecycles` |
| Core database, `infrastructure/db` | aggregate rows, audit events, idempotency keys, link nonces | the unit of work: `add`, `get`, `save`, `append`, `reserve`, `complete`, `consume`, `commit`, `rollback` | `UnitOfWork` |
| Front end, demonstrations, seeds | - | - | not modelled |

How they interact. The agent calls the RFQ service through
`DurableProcurementExecutionPort` (the live runtime) or in memory (demo).
Supplier and approver pages call `DurableLiveProcurementFacade`. Both open a unit
of work, run one or two methods of the service on the loaded store, and commit.
The service calls the gateway synchronously; the gateway's news reach it only
when a refresh polls them. The outbox shares the core database's unit of work and
is drained by external workers.

What is hard in this code:

- *One status, many writers.* Rounds, quotes, approvals and awards all write
  `procurement_status`; polls, late deliveries and resubmissions interleave.
- *Check, then decide, then act.* A quote is compared, approved and awarded in
  separate commands; the supplier may resubmit and the clock may pass in between.
- *Polling a provider.* Confirmations come late, and every poll sees them again.
- *Whole-state checkpoints.* The live runtime deletes and rewrites all business
  rows on each command; only the snapshot lock keeps concurrent commands apart.
- *Crash and retry.* A client that got no answer sends the command again.
- *Links that people handle.* Copies, recorded sends and openings of one link
  overlap; only an opening may confirm the delivery, and only once.
- *Leases.* An outbox worker may report after its lease has gone to another
  worker, or to itself under a newer attempt, with a clock reading that is old.
- *Tools that time out after their effect.* The agent's last tool makes the RFQ
  round; when its answer is lost, the buyer confirms the plan again while profiles
  have changed.
- *What a language model says.* Facts of a request and fields of a supplier may
  rest on it only where a quotation in the source says the same.
- *Awaits without a lock.* Reviews, uploads and extraction jobs interleave at every
  `await`; a link is for one submission, a job for one run, and requests are
  cancelled.
- *Optimistic and pessimistic at once.* The core's unit of work checks versions on
  save, holds row locks on keys and links, and audits its own transitions at
  commit; a caller may go on after `rollback()`, or after an error of `append`.

The list of these at their source lines is `hazards` in `PROJECT.json`.

What makes each component correct: the RFQ service never awards what was not
approved in the very version that is awarded, awards and reserves once, audits a
delivery once, and shows a status that has happened; the runtime gives each
command one effect and a durable answer; the outbox lets the latest attempt alone
write the outcome, and strands nothing. The gateway confirms a delivery once,
whoever opens first. The agent creates one round for a request, shows the one that
exists, and holds no fact the buyer did not give. A comparison rewards no price
increase; a search asks exactly the suitable suppliers. One link activates a
supplier at most once; what a supplier is asked to confirm is backed by its
document; a queued document settles. The core's units of work lose no update, leave
no transition without its audit event but where the unit had counted that event and
lost it, and use once what is for one use; the aggregates chain every commitment to a human approval of the same version and terms.

## 2. The modules

### RfqExecution - the execution service, for one request

| TLA+ | Code |
|---|---|
| `now` | the injected `Clock` |
| `rounds`, `recipients`, `quotes`, `quoteVersions`, `comparisons`, `approvals`, `awards`, `reservations`, `procurementStatus` | the dictionaries of `ExecutionStore` |
| `gateway`, `awardGateway` | the gateway's own record of each message (what `get_status` returns) |
| `Ack`, `Fail`, `AckAward`, `FailAward` | gateway `ack` / `fail`, or the opening of a manual link |
| `CreateRound`, `SendRound`, `GetDeliveryStatus`, `SubmitQuote`, `GetQuoteStatus`, `Compare`, `RequestApproval`, `DecideApproval`, `SendAward`, `GetAwardStatus`, `AcceptAward`, `DeclineAward`, `ConfirmReservation` | the methods of the same names |
| `RefreshDeliveryBatch`, `InvalidateApprovalsForQuote`, `ExpireQuotes` | the private methods of the same names, part of the actions that call them |

A method is one action because it runs in one transaction under the snapshot lock
(that this is so is what `LiveCommands` is about; in memory its only awaits are of
the gateway, and the gateways of the repository answer without yielding). Abstractions:

- A command that a guard rejects, and the replay of an idempotency key, leave the
  store alone: stuttering. New keys are not restricted, so every command may be
  repeated with another key.
- The id of a quote is fixed per recipient, so the recipient stands for it. A
  quote is eligible exactly while FINAL. `award_by_approval_id` and
  `reservation_by_award_id` are read off the awards and reservations.
- The audit trail is reduced to the delivery confirmations of each message; the
  scores of a comparison, prices, terms and messages are omitted. A payload is one
  model value with its `valid_until` and its verdict.
- `compare` expires quotes before it checks the collection version. When it
  expires one, no caller can hold the new version and the command is rejected: a
  comparison succeeds only when nothing expires. With a bare store the rejected
  call leaves the expiry behind, which is what `GetQuoteStatus` does.
- In the live runtime an opening and the poll that follows it are one transaction
  (`open_rfq`, `open_award`); `Ack` followed by a separate poll also covers that
  order, and the deployments where the gateway is a provider.

### LiveCommands, Commands, CommandLedger - the live runtime

`CommandLedger` is the promise to a client: a key takes effect at most once, and
every answer under it reports that one effect, or a conflict of payloads, or a
refusal that changed nothing. `LiveCommands` is how it is done: `AcquireSnapshotLock`
and `Load` (`__enter__`), `Replay`, `Execute` or `Refused` (the handler),
`Commit` (`save` and the SQL commit with its integrity checks), `Respond`, and
`Crash` at any point, after which the client retries. The business state is the
sequence of the commands that took effect; `Commands` has what both share.

The manual-link rows are written in the same session, so they commit or roll back
with the rest and need no state of their own here. `failed` is the outcome of
`PersistenceIntegrityError`; `CheckpointsNeverCollide` shows it is dead code
under the lock.

### ManualLink, DeliveryGateway - the gateway

`DeliveryGateway` is what the service expects: a message is accepted for one
payload and confirmed or failed once. `ManualLink` has the rows (`records`, `trail`)
and, for each call in progress, what it has read (`calls`). `Send`/`Create` is
`send`, `RecordHumanAction`/`AppendActivity` is `record_link_copied` and
`record_sent`, `Open`/`CheckSent`/`MarkDeliveredOnOpen` is `confirm_supplier_open`;
`SendReplay` and `OpenAgain` are their early returns. A rejected call is stuttering.
The constant `Locked` says whether calls run under the snapshot lock (the live
runtime) or only with the atomicity that the repository's protocol asks for. The
status predicate of the conditional update and the unique deduplication key of the
opening both guard the transition; `WinsTransition` is their conjunction, since
either failing leaves the row alone. `accepted` and `receipts` are history variables.
The external id, which is the public capability, is fixed by the record of its key;
a repeated response token under another key is a conflict and left out.

### Outbox

`items` are the rows; `claims` what each worker believes it holds; `sent` what the
provider took; `writer` is a history variable. Each repository method holds its row
lock, so it is an action; the `now` it is given may be up to `MaxLag` old, and
time stamps are stored as the time left until them, so that time has no bound.
The repository ships no worker: `Send`, `Drop` and `Crash` are the environment.
`Enqueue` may give a first attempt in the future; the lowest value stands for null.

### RequestFacts, Sourcing, ProcurementAgent - the agent

`RequestFacts` has the deterministic rules of the request: what is missing, which
facts cannot all be right (`BlockingIssues`), what a patch changes and disputes, and
which claims of the language model survive (`Verified`). A message is what the
local rules read in it (`says`), what they read in an excerpt of it taken alone
(`hints`), and the values it confirms; reading Portuguese is left out. `Sourcing` has
the tri-state checks of a profile, their combination and the choice of recipients.

`ProcurementAgent` is the orchestrator. Its mutation lock serialises the operations, so
there is at most one, `op`; each of its awaits (interpreter, directory, tool, RFQ
service) is a step, because it may fail there and the clock and the directory move.
The operation works on a copy, `op.work`, and stores it when it ends. `creations`
are the idempotent creation keys, a request without a process has `NoProcess`, `rounds` what the RFQ service holds for a key,
`runs` the latest agent run of a request and `trail` the status its audit trail ends
with. `create_rfq_round` may fail before its effect, after it (the answer is lost),
or replay it. The constants say which of these failures happen and which actions the
authorization policy denies.

### QuoteRules, QuoteScoring, QuoteComparison

The arithmetic is the code's: integer cents, basis points, halves rounded up
(`DivideHalfUp`), weights in percent, ties broken by total and then by supplier.
`QuoteComparison` is the smallest system around it: suppliers submit and correct,
quotes expire, a comparison ranks. What the price adds to a score (`Points`) is kept
apart from what the other criteria add (`BasePoints`): only the first depends on the
other quotes.

### SupplierSearch

One supplier's record in the directory, the recall filter and the candidate it
returns, and the verdict of the engine of `Sourcing` on that candidate. The
directory names the field `service_cities` when it is missing and the engine looks
for `service_areas`; the two names are kept apart as in the code. `Profile` is the
shape of a record. The engine's checks of diets share one name space with its
checks of fields, so a diet may not be called like a field (`CriteriaAssumption`). A
search may name no district (`Unset`); the recall filter and the engine then look at
the city alone.

### ExtractionRules, MaterialExtraction

`ExtractionRules` says what becomes of a provider's answer: claims without evidence,
doubtful ones, duplicates, and spreadsheet cells that disagree. `MaterialExtraction`
has the uploads (`upload`: the progress of each), the content-addressed files
(`blobs`), the statuses, the queue and the runs. Each await is a step at which
others run or the request is cancelled; a cancellation passes by the handler, which
catches `Exception` only. `Findings` are the fields an extraction may end with: what
the rules make of an answer that is accepted. The passages a model quotes are taken to
be other strings than the raw texts of a sheet's cells (`ResponseAssumption`), so that
a citation says which of the two it is.

### SupplierReview

`history` are the decisions on each field, `call` what each request awaits, `core` the
activation in the core system. `Decide` and `Submit` change the session before they
await the audit trail or the activation, as the code does; `AuditFails` and
`ActivationFails` are the two ways of not coming back, the latter before or after the
core has activated. The core's own check of the expected version is in `CoreActivates`.

### UnitOfWork

One tenant. Committed rows are `version` .. `consumed`; each unit keeps what it has
written and not committed, the Python sets that survive a rollback, and the copy its
caller holds. A statement that has to wait for a row lock is an action that is not
enabled; a deadlock's victim leaves (`Leave`, as any failure). The caller loads,
changes the copy, saves, and appends the event; only the unit that claimed a key
completes it; a unit ends with its commit. A refused commit changes nothing. After
`rollback()` a unit may go on, and its caller drops its copies: were they kept, the
transition keys that survive the rollback would let `save` accept an outdated one.
`append` has three steps in the code: it counts the event (`Count`), converts its time,
and inserts the row. It may fail after the first: with a naive time the transaction goes
on, with a row the database refuses it can only be rolled back (`RefuseEvent`,
`SaveTransitionFails`; a payload that is refused fails before the event is counted).
`Faulty` are the units whose caller may hand over such an event; the caller may go on.
`lost` is history: what a unit has counted and no row stands for.

### Lifecycles

The five aggregates of `domain`, for one request. The command handlers that call
them are not in the repository, so every method may be called at any time, with the
facts of any aggregate that exists. A refused call changes nothing and is left out.
`log` are the events the request has staged, in order, with what they name.

## 3. Runs

| Run | What it checks | Instance |
|---|---|---|
| `rfq_quotes` | `ActiveRoundsAreDelivered`, `LiveApprovalsAreCurrent`, `StatusHasEvidence`, `CollectionVersionIdentifiesQuotes` | one round, two suppliers who must both be reached, three payloads, 2 versions of each quote, 2 approvals |
| `rfq_awards` | `DeliveriesAuditedOnce`, `AwardsRestOnApprovals`, `OneAwardPerApproval`, `ReservationsAreBacked`, `VersionsWitnessChange`, `AnswersAreFinal` | one supplier, 2 comparisons, 2 approvals, 2 awards, 3 reservation ids, 2 respondents |
| `outbox` | `OutcomeOfLatestAttempt`, `AttemptsAreExclusive`, `ReceiptIsOfLatestAttempt`, `DeliveredIsFinal`, `NeverStranded` | one item, two workers that crash at will, lag 1, lease 2, 4 attempts |
| `live_commands` | `EffectsHappenOnce`, `AuditMatchesState`, `EveryRequestAnswered`, refinement `ImplementsLedger` | a request, its own retry, one with its key and another payload, one with another key; 2 crashes |
| `manual_link` | `DeliveryIsWitnessed`, `OpeningsAgree`, refinement `ImplementsGateway` | one message, two payloads, three overlapping calls, no lock |
| `agent` | `ShownRoundIsTheRound`, `AuditTrailMatchesStatus`, `EvidenceBacksFacts`, `FactsChangeOnlyWhenConfirmed` | one request, four messages, two answers of the model, three suppliers, 3 runs of 5 steps |
| `quote_comparison` | `CheaperEqualStandsFirst`, `RaisingThePriceNeverHelps` | three suppliers, seven offers |
| `supplier_search` | `AskedExactlyWhenSuitable`, `IgnoranceNeverDecides` | five records, each losing up to two values, four searches, one without a district |
| `supplier_review` | `OneActivationPerLink`, `StrandedForGood` | one required field, two links, two requests, 3 decisions |
| `extraction` | `RunAgreesWithDocument`, `ReviewsAreSupported`, `QueuedDocumentsSettle` | two documents with the same bytes, of one tenant or two, two workers, eight answers, 2 cancellations |
| `unit_of_work` | `NoLostUpdate`, `TransitionsAreAudited`, `UsedOnce` | two units whose events may be refused, one key, two payloads, two answers, one aggregate, one link, 3 versions, one rollback each |
| `lifecycles` | `CommitmentsAreChained`, `PartiesAreBound` | one request, a quote, two approvals, two awards, a supplier, two respondents |

*Bounds.* Two versions of a quote are enough for a resubmission to overtake an
approval or an award; two approvals and two awards for a second award of one
approval or of one quote; one more reservation id than awards for a double
reservation. The payloads `short` and `long` expire at 1 and 3, `incomplete` needs
clarification, so a quote may expire before, between and after the commands of a
decision. Three calls of a link are two that race and a third that comes between. Two
workers and four attempts give an overtaken worker a successor, and a successor of
that. Two crashes hit one request twice or two requests once. Of three runs of the
agent one may lose its answer, one meet a changed directory and one replay; five
steps are the four tools and one more. Two of a supplier's values are enough for two
unknown checks to meet a failed one. The weights and offers of `quote_comparison` are
chosen so that scores of different totals round to the same points. The smallest
races of the core database need two units; three versions give an outdated copy
something to overwrite. Bounded where the code has no bound: `MaxTime`,
`MaxQuoteVersion`, `MaxComparisons`, `MaxApprovals`, `MaxAwards`, `MaxReservations`,
`MaxTrail`, `MaxAttempts`, `MaxCrashes`, `MaxRequests`, `MaxRuns`, `MaxVersion`,
`MaxMoves`, `MaxGaps`, `MaxRevisions`, `MaxCancels`, `MaxRollbacks`. The proofs
hold for every value of them.

*Symmetry and constraints.* Model values are permuted where no definition tells them
apart. `unit_of_work` has the constraint `OneSideMoves`: the aggregates with their events
on one side, the reservations and links on the other, share only the phase of their
unit, so leaving out the steps of one side leaves a behaviour of the other, and no
property relates the two. `lifecycles` has another `OneSideMoves`: quotes and suppliers on one
side, and the request with its approvals and awards on the other, read nothing of each
other but the version of a quote, so their steps commute and neither property relates
them; exploring the one while the other is nearly at rest loses nothing.

Runs take between seconds and two minutes. Deadlock is not checked where the system
stops at its end: when clock and ids are used up, all requests are answered, links
spent or units closed. The outbox never ends, and its run checks it.

Every property has a mutant in `PROJECT.json`: a definition changed as a plausible
bug would change the code (named `<definition>_<bug>` in the module, marked
*Mutant*), under which TLC finds the property violated.

### Fairness

- `LiveCommands`: weak fairness of each request's own progress. A handler has no
  loop and no wait but the lock row; the database wakes a waiter when the lock is
  free; the client retries (the idempotency keys exist for that); crashes are finite.
- `Outbox`: time passes, and for each item some worker keeps polling. Nothing is
  assumed of what a worker does with what it claims. That items which always fail
  cannot starve others under a small `limit` is not shown (and `claim_due` does not
  promise it).
- `MaterialExtraction`: an upload that has begun and a request that processes a job go
  on, and requests to process keep coming while jobs are queued; cancellations are
  finite, and the property excepts documents once a request was cut short, because
  the code does not recover a job that was taken and dropped.
- The others: none; their properties are safety. No step of a person or of a
  provider is ever certain.

### Where the code and its texts disagree

Met while modelling. The models follow the code, and the properties are stated so
that they hold of it; each line says how to see the disagreement.

- *Counted events without a row.* `src/backend/tests/integration/core/test_audit_invariant.py:1`
  says that the unit of work "refuses aggregate transitions without matching audit
  facts". `append` (`infrastructure/db/repositories.py:206`) counts an event before it
  converts its time, which raises for a time without a zone, and before the row is
  inserted: add, save with such an event, commit leaves a transition without its event.
  `rollback` (`infrastructure/db/unit_of_work.py:102`) keeps what was counted: add, save
  with an event, roll back, add, save without one, commit does so too. No caller in the
  repository goes on after either. `TransitionsAreAudited` says what is left; without
  its second disjunct it fails in `unit_of_work`, with `Faulty` empty as well.
- *An expired quote leaves its approval live.* `src/DEV4_LIVE_RUNBOOK.md:170` says
  the earlier approval is invalidated when a quote expires or changes;
  `_expire_quotes` (`modules/rfq/service.py:1337`) leaves approvals alone. Nothing
  can be awarded on one, since `send_award` checks the quote itself, but the request
  stays APPROVED. The property that a live
  approval's quote is not EXPIRED fails in `rfq_awards`.
- *A finished request is taken back.* In the order of
  `src/PRD_Canal_Agente_Procurement.md`, section 15.2, only CLOSED follows
  READY_FOR_CONTRACTING. `_refresh_delivery_batch` (`modules/rfq/service.py:1284`)
  writes RFQ_ACTIVE on every refresh that meets the activation criteria. The property
  that READY_FOR_CONTRACTING stays fails in `rfq_awards`.
- *Failed sourcing may leave a round.* `src/docs/DEV3_PROTOTYPE.md:71` against
  `modules/procurement_agent/tool_registry.py:131`: a tool whose answer is lost has
  had its effect. `ShownRoundIsTheRound` therefore relates a shown round to the
  service's only in one direction.
- *The retry of a decision is refused.* `live/application.py:377` compares the
  approval's version before it looks for a replay, so a client that lost the answer
  of a decision and repeats it is told it is stale.
- *A worker may lose an extraction job.* `modules/suppliers/application/ingestion.py:268`
  queues the job before the document is EXTRACTION_QUEUED; a worker that is faster
  finds it STORED and drops the job. `QueuedDocumentsSettle` speaks only of
  documents whose job is still queued.
- *A review changes while it is activated.* `modules/suppliers/application/review.py:168`
  and `:428`: a field may be decided during the awaited activation, also with a
  spent link; a second link takes an ACTIVE session back to CONFIRMED while its
  activation is awaited; an activation that fails after the last link is spent
  leaves the supplier stranded (`StrandedForGood`).
- *Two names for one gap.* The directory reports missing `service_cities`; the
  eligibility engine looks for `service_areas`, so a supplier without cities is
  excluded instead of sent to a refresh (the exception in `IgnoranceNeverDecides`).
  And the directory (`modules/suppliers/search/directory.py:76`) drops a supplier whose invoicing is unknown
  before the engine can ask for a refresh.
- *A search without a district asks more suppliers.* With `district` `None` the
  directory (`modules/suppliers/search/directory.py:66`) skips the district filter, and
  a supplier that serves only some districts of the city is asked. No text forbids it;
  `AskedExactlyWhenSuitable` asks for the district only of a search that names one.
- *In progress for ever.* The docstring at `infrastructure/db/errors.py:48` speaks
  of a reservation whose transaction is under way, but under the row lock only a
  reservation that was committed without a completion is ever met, and it stays.
- *An award for a changed quote.* The award aggregate (`domain/awards/aggregate.py:46`)
  takes its approval as it was, whatever version the quote has reached since.

## 4. Proofs

The theorems hold for every value of the constants that the modules' assumptions
allow: any number of rounds, suppliers, payloads, requests, workers and items, and
any bounds.

`RfqExecutionProofs`: `TypeCorrect`, `ApprovalsFollowQuotes`, `AwardsAreApproved`,
`AwardsAreUnique`, `ActiveRoundsHoldTheirCriterion`, `EachDeliveryIsAuditedOnce`,
`EveryReservationIsBacked`, `CollectionsIdentifyQuotes`, `StatusIsTrue`,
`ChangesAreVersioned`, `AnswersStand`: every property of the two runs. The first four
rest on `AwardInv`. `LiveApprovalsAreCurrent` is not
enough for `AwardsRestOnApprovals`: an award also has to freeze the quote, which
`SubmitQuote` guards through the approvals that name it, so an approval must name a
quote (`ApprovalsNameQuotes`) and stay granted once awarded. That follows from
`LiveApprovalsAreCurrent` again: an invalidation hits only approvals of another
version, and none exists for a quote that `AwardExistsFor`. `HistoryIsCurrent` ties the
terms that an award copies to the stored history of versions. There is one lemma per
command or group of commands that leave the parts alone.

The others rest on `ExecutionInv`, which adds what the store knows of the gateway. A
round may be ACTIVE only as the count of *known* deliveries stands, so a known delivery
must be a real one and stay known (`FlagsAreTrue`), and the count must only grow: the
gateway never takes a delivery back. The same flags are why a poll that sees a delivery
again does not audit it again. `StatusHasEvidence` looks like a matter of the status
alone and is not: each command that writes the status brings its evidence, but every
other command must leave the evidence of the status there, or replace it, and that
needs the versions, the awards and the reservations (an award that is answered is
no longer sent, but then the status was written too). `ComparisonsAreOfThePast`
makes a later collection version a new one, so an old comparison is never current
again. What one step does to one round, one approval or one award is stated once
(`RoundStep`, `ApprovalStep`, `AwardStep`) and used for every part.

`InfrastructureProofs` has the outbox and the unit of work. *Outbox*:
`OutcomesAreFenced`, `ClaimsAreExclusive`, `ReceiptsAreReal`, `DeliveryIsFinal`. Besides the properties the invariant has `AttemptsAreCounted`: a
claim in hand is of an attempt that the row has already counted, so a new claim is
of a number nobody holds. The lease's expiry is not needed for fencing: the attempt
number is what fences (the mutant that compares workers only is caught).

`LiveCommandsProofs`: `CommandsHappenOnce`, `AnswersStand`, `AuditTellsTheState`,
`NoCollision`, `RuntimeImplementsLedger`. The invariant `LiveInv` says that the rows agree with each
other (`RowsAgree`), that a unit of work between lock and commit is alone and its
store is the committed rows, or these with its own command executed
(`WorkIsCurrent`), and that what a client is about to be told is what is
remembered (`OutcomesAreTruthful`). The refinement then maps `Commit` to `Apply`, `Respond` to `Reply` or
`Refuse`, and all other steps to stuttering.

`ManualLinkProofs`: `LinksAreTyped`, `OpeningConfirmsOnce`, `OpeningsTellOneTime`,
`LinkImplementsGateway`, and `OpeningIsLast` for `Locked`. What a call read may be
stale when it writes; what makes the proof go through is that each stale fact is
stable (`CallsAreGrounded`: a record never vanishes, a recorded send stays) and the
one that is not, the status, is tested again in the write itself. `OpeningIsLast`
needs that stability from the lock instead (`CallsAreAlone`).

*Unit of work* (`InfrastructureProofs`): `EverythingIsUsedOnce`, `UpdatesAreKept`, `ChangesAreAudited`.
`UsedOnce` rests on what a blocked `INSERT` ensures: what a unit was granted, or has
claimed, is its own uncommitted row or a committed one, and nobody else has it
(`LinksAreApart`, `KeysAreApart`). `NoLostUpdate` speaks of committed rows only and needs
what is under way (`RowsInv`): of each row one unit at a time has an uncommitted version,
made of the committed content and its own transitions (`RowsAreCurrent`), and a copy that
still has the version the unit sees has its content too (`CopiesAreTrue`), which is what
`save` relies on when it compares versions and no content. It would fail for a caller that kept its
copies across `rollback()`. `TransitionsAreAudited` follows from
`ChangesAreCovered`: what a unit wrote it has in its saved keys, and what it has in its
appended keys it has, while it runs, staged or lost; `commit` links the two. Rollbacks and
refused events need no exception: both move what they take away into `lost`.

`ProcurementAgentProofs`: `OneRoundIsShown`, `TrailMatchesStatus`, `FactsAreBacked`,
`SuppliedFactsStand`, for every directory, every set of messages and every answer of the
language model. The invariant is `AgentInv`. That a request has one round is a matter of
keys: the key of a round names the version of the plan, and a plan that was offered is
never read into again, so every attempt makes the same key and meets the round that the
first one left (`RoundsAreOfPlans`). While an operation is under way it works on a copy;
the copy is the stored process but for who is selected (`WorkIsTheProcess`), so whatever
step it fails at, what it gives back is the plan it took. The trail ends with
the status of the copy meanwhile (`TrailTellsTheStatus`). `UnderstoodProcess` is the
lemma about a message: of what is heard (`HeardIsSupported`), what does not conflict is
applied and backed by the message, and of what conflicts only what was asked and is
confirmed. `SuppliedFactsStand` needs that supplied facts are never unknown
(`IsProcess`), or overwriting one would be no conflict.

`QuoteComparisonProofs`: `CheaperStandsFirst`, `RaisingNeverHelps`, for all amounts,
weights and policies. The first asks why rounding cannot turn an order around: halves are
rounded up the same way everywhere, so each component is monotone (`DivideHalfUpGrows`,
`DivideHalfUpShrinks`, `ScoreGrows`), and where it makes the scores equal the total
decides. The second is harder because the scores are relative: a supplier that raises the
lowest price raises everybody's score. `RaisingMovesTheLowest` splits the cases: either
the lowest total stays, and only this supplier's score moves, downwards; or this
supplier was the lowest, then its price scored full marks before and scores at
most that afterwards (`LowestScoresFull`), while nobody else's score falls
(`HigherLowestScoresNoLess`). A dearer
offer is also never eligible where the cheaper was not (`DearerFitsNoBetter`). The
invariant `ComparisonInv` says that a quote is what its form makes of it until it expires
(`QuotesAreOfSubmissions`) and that a ranking that is shown orders the quotes as they are
(`RankingIsCurrent`).

`OnboardingProofs` has the supplier's review, the extraction and the directory. *Review*:
`LinksActivateOnce`, `StrandedReviewsStay`. Whatever awaits the
core holds a spent link of its own that has activated nothing yet
(`SubmissionsHoldLinks`), and the core's version counts the links that did
(`ActivationsAreCounted`): the version never outgrows the spent links. The second is an
action property and needs only the types: every step out of a stranded session would need
a link that is neither spent nor expired.

*Extraction* (`OnboardingProofs`): `RunsAgree`, `ReviewableClaimsAreSupported`. The
properties relate the statuses of a document and of its run, which different awaits of two
procedures write, each of which may be cut short. The invariant `ExtractionInv` is a table:
`Stage` lists for every place a request may be in the one status its document and its run
have then (`WorkersFollowTheirDocuments`). It is inductive because a document has one
holder: once claimed it is out of the queue and its upload does not queue it again; until
the upload's last write the document is `STORED`, and a request that claimed it so early
cannot start it but loses the job (`DocumentsAreUploads`). A
request that is cut short leaves the pair behind, which is why `DocumentWithRun` is wider
than `Stage`. That claims are supported is a lemma about the rules (`FindingsAreBacked`,
for every answer of a model and every sheet) plus `RunsHoldFindings`, and that the original
is never lost while its document exists.

*Directory* (`OnboardingProofs`): `AskedAreSuitable`, `IgnoranceIsNoAnswer`, for every
profile, search and age. From what each three-valued check of the engine fails
or doubts (`ChecksMean`, `BoundsMean`, `DemandsMean`, `DoubtsMean`), `VerdictMeans` derives
the verdict: excluded exactly when the profile is `Unfit`, eligible exactly when it is `Fit`
and was confirmed recently enough; the theorems then compare two records, or a record with the plain statement
of the needs. The invariant is the type of the record: `last_confirmed_at` is never later
than the clock.

`LifecyclesProofs`: `CommitmentsStand`, `PartiesStayBound`, whoever calls the methods in
whatever order. `CommitmentsAreChained` speaks of the whole log and is kept by an event
that is justified when it is appended (`ChainGrows`); to see that each event is, the
aggregates' own fields must tell the last events (`LogTellsTheState`), and the approvals
and awards that are named must be what they were when they were named (`BindingsAreSet`,
`AwardsStandOnApprovals`). `QuotesAreBound` needs that a quote is signed before it is
validated (`SubmissionsAreSigned`).

*Assumptions.* Each module names its own next to its constants. Bounds are natural
numbers; aggregates of different kinds are different objects (`LifecyclesAssumption`);
`None` is no value it stands beside (`NoneAssumption`); what is read in a message are
integers under the names of fields (`MessageAssumption`); amounts, scores and weights are
those the form and the policy admit (`SubmissionAssumption`, `WeightsAssumption`,
`RequirementsAssumption`), suppliers' ids are compared and so are numbers
(`SupplierAssumption`); answers of an extraction, records and searches have the shapes of
their classes (`ResponseAssumption`, `RecordsAssumption`, `CriteriaAssumption`), and a
value that is not set is none (`UnsetAssumption`). TLC evaluates all of them in
the runs. TLC checked every inductive invariant on the instances of the runs before it
was proved.

Proved and in no run: the type invariants, `AnswersAreDurable`, `CheckpointsNeverCollide`
and `OpeningEndsTrail` (under the lock).

Only model-checked: the liveness properties `NeverStranded`, `EveryRequestAnswered` and
`QueuedDocumentsSettle`, which are outside what TLAPS proves. Every invariant, every action
property and both refinements of the passing runs are theorems.

## 5. Not modelled, and why

Front end, rendering, authentication, encryption and configuration keep no protocol
state. The language model is external in any model: it may answer anything in a
small set. Reading Portuguese text and file formats, and the canonical spelling of
names, are abstracted to what they yield. The facade's expected versions and
capability bindings (`live/facade.py`, `live/application.py`) are checks in front of
`LiveCommands` and await a module. Signing link tokens, and the in-memory idempotency
store of `platform`, are left out of `UnitOfWork`.

## 6. Plan

1. *Facade*: bindings, expected versions and facade-level idempotency, on top of
   `LiveCommands`; the retry of a committed decision.
2. *Restart of the agent*: processes and creation keys are lost while the rounds stay.
3. *Proofs across modules*: that `RfqExecution` under the commands of `LiveCommands` keeps
   its invariants, with the ledger in the place of the lock.
