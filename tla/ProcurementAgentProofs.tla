------------------------ MODULE ProcurementAgentProofs ------------------------
(***************************************************************************)
(* Proofs about ProcurementAgent, for every directory, every set of        *)
(* messages and claims and every bound.                                    *)
(***************************************************************************)
EXTENDS ProcurementAgent, FiniteSetTheorems, TLAPS

-----------------------------------------------------------------------------
(* Facts *)

\* An interpreter hears only what the message supports.
LEMMA HeardIsSupported ==
  ASSUME NEW msg \in Message, NEW heard \in Readings(msg)
  PROVE  /\ DOMAIN heard \subseteq Field
         /\ \A f \in DOMAIN heard : heard[f] \in Supports(msg, f) /\ heard[f] \in Int
<1>1. ASSUME NEW f, f \in DOMAIN msg.says \/ f \in DOMAIN msg.hints
      PROVE  f \in Field
  BY <1>1, MessageAssumption
<1>2. ASSUME NEW f, f \in DOMAIN msg.says
      PROVE  msg.says[f] \in Supports(msg, f) /\ msg.says[f] \in Int
  BY <1>2, MessageAssumption DEF Supports
<1>3. ASSUME NEW f, f # "description", NEW v \in Supports(msg, f)
      PROVE  v \in Int /\ f \in Field
  BY <1>3, MessageAssumption DEF Supports
<1>4. CASE heard = msg.says
  BY <1>1, <1>2, <1>4
<1>5. ASSUME NEW c \in Claim, heard = Verified(msg, c)
      PROVE  \A f \in DOMAIN heard : /\ f # "description"
                                     /\ heard[f] \in Supports(msg, f)
  BY <1>5 DEF Verified
<1> QED
  BY <1>3, <1>4, <1>5 DEF Readings

\* The description is a field, and any message supports its text as one.
LEMMA DescriptionIsSupported ==
  "description" \in Field /\ \A msg : 1 \in Supports(msg, "description")
BY DEF Field, AlwaysRequired, Supports

\* What is interpreted is apart from what conflicts, both are supported, and
\* what conflicts is about facts the buyer has supplied.
LEMMA InterpretedIsSupported ==
  ASSUME NEW msg \in Message, NEW heard \in Readings(msg), NEW draft,
         NEW found, found = Interpret(draft, heard)
  PROVE  /\ DOMAIN found.extracted \cup DOMAIN found.conflicts \subseteq Field
         /\ \A f \in DOMAIN found.extracted :
              /\ found.extracted[f] \in Supports(msg, f) /\ found.extracted[f] \in Int
              /\ f \notin ConflictsOf(draft, found.extracted)
         /\ \A f \in DOMAIN found.conflicts :
              /\ found.conflicts[f] \in Supports(msg, f) /\ found.conflicts[f] \in Int
              /\ f \in draft.explicit
              /\ f \notin DOMAIN found.extracted
<1> DEFINE said == IF draft.facts["description"] = None
                   THEN [f \in DOMAIN heard \cup {"description"} |->
                           IF f = "description" THEN 1 ELSE heard[f]]
                   ELSE heard
           conflicts == ConflictsOf(draft, said)
<1>1. /\ DOMAIN said \subseteq Field
      /\ \A f \in DOMAIN said : said[f] \in Supports(msg, f) /\ said[f] \in Int
  BY HeardIsSupported, DescriptionIsSupported
<1>2. /\ found.extracted = [f \in DOMAIN said \ conflicts |-> said[f]]
      /\ found.conflicts = [f \in conflicts |-> said[f]]
  BY DEF Interpret, Restrict
<1> HIDE DEF said
<1>3. conflicts \subseteq DOMAIN said /\ conflicts \subseteq draft.explicit
  BY DEF ConflictsOf
<1>4. ASSUME NEW f \in DOMAIN found.extracted
      PROVE  f \notin ConflictsOf(draft, found.extracted)
  BY <1>2, <1>4 DEF ConflictsOf
<1> QED
  BY <1>1, <1>2, <1>3, <1>4

\* A patch whose conflicts are allowed is applied, and nothing else is.
LEMMA PatchIsApplied ==
  ASSUME NEW draft \in Draft, NEW patch, NEW allowed,
         DOMAIN patch \subseteq Field, \A f \in DOMAIN patch : patch[f] \in Int,
         \A f \in DOMAIN patch : f \in ConflictsOf(draft, patch) => f \in allowed,
         NEW new, new = ApplyPatch(draft, patch, allowed)
  PROVE  /\ new \in Draft
         /\ new.explicit = draft.explicit \cup DOMAIN patch
         /\ \A f \in Field : new.facts[f] = IF f \in DOMAIN patch THEN patch[f]
                                            ELSE draft.facts[f]
<1>1. DOMAIN patch \ (ConflictsOf(draft, patch) \ allowed) = DOMAIN patch
  OBVIOUS
<1>2. new = IF DOMAIN patch = {} THEN draft
            ELSE [facts    |-> [f \in Field |-> IF f \in DOMAIN patch THEN patch[f]
                                                ELSE draft.facts[f]],
                  explicit |-> draft.explicit \cup DOMAIN patch,
                  version  |-> draft.version + 1]
  BY <1>1 DEF ApplyPatch
<1>3. CASE DOMAIN patch = {}
  BY <1>2, <1>3 DEF Draft
<1>4. CASE DOMAIN patch # {}
  <2>1. [f \in Field |-> IF f \in DOMAIN patch THEN patch[f] ELSE draft.facts[f]]
          \in [Field -> Int \cup {None}]
    BY DEF Draft
  <2> QED
    BY <1>2, <1>4, <2>1 DEF Draft
<1> QED
  BY <1>3, <1>4

\* A process with another draft, other questions and other evidence.
Revised(p, q) ==
  q = [p EXCEPT !.draft = q.draft, !.asked = q.asked, !.evidence = q.evidence]

\* A message that is read into a process leaves every supplied fact backed, and
\* changes one only when the process asked about that very value and the message
\* confirms it.
LEMMA UnderstoodProcess ==
  ASSUME NEW msg \in Message, NEW heard \in Readings(msg),
         NEW p, IsProcess(p), EvidenceBacks(p),
         NEW q, q = Understood(p, msg, heard)
  PROVE  /\ Revised(p, q)
         /\ q.draft \in Draft
         /\ \A f \in q.draft.explicit : q.draft.facts[f] # None
         /\ EvidenceBacks(q)
         /\ \A f \in p.draft.explicit :
              q.draft.facts[f] # p.draft.facts[f] =>
                /\ f \in DOMAIN p.asked
                /\ p.asked[f] = q.draft.facts[f]
                /\ p.asked[f] \in msg.confirms
<1>0. PICK found : found = Interpret(p.draft, heard)
  OBVIOUS
<1>1. /\ DOMAIN found.extracted \cup DOMAIN found.conflicts \subseteq Field
      /\ \A f \in DOMAIN found.extracted :
           /\ found.extracted[f] \in Supports(msg, f) /\ found.extracted[f] \in Int
           /\ f \notin ConflictsOf(p.draft, found.extracted)
      /\ \A f \in DOMAIN found.conflicts :
           /\ found.conflicts[f] \in Supports(msg, f) /\ found.conflicts[f] \in Int
           /\ f \in p.draft.explicit
           /\ f \notin DOMAIN found.extracted
  BY <1>0, InterpretedIsSupported
<1>2. PICK settled : settled = Settled(msg, found.conflicts, p.asked)
  OBVIOUS
<1>3. /\ settled \subseteq DOMAIN found.conflicts
      /\ \A f \in settled : /\ f \in DOMAIN p.asked
                            /\ p.asked[f] = found.conflicts[f]
                            /\ found.conflicts[f] \in msg.confirms
  BY <1>2 DEF Settled
<1>4. PICK patch : patch = Restrict(found.conflicts, settled)
  OBVIOUS
<1>5. DOMAIN patch = settled /\ \A f \in settled : patch[f] = found.conflicts[f]
  BY <1>4 DEF Restrict
<1>6. PICK first : first = ApplyPatch(p.draft, found.extracted, {})
  OBVIOUS
<1>7. PICK second : second = ApplyPatch(first, patch, settled)
  OBVIOUS
<1>8. PICK evidence : evidence = NewEvidence(found, settled, msg, p.evidence)
  OBVIOUS
<1>9. /\ DOMAIN evidence = DOMAIN found.extracted \cup settled \cup DOMAIN p.evidence
      /\ \A f \in DOMAIN found.extracted \cup settled : evidence[f] = msg
      /\ \A f \in DOMAIN evidence :
           f \notin DOMAIN found.extracted \cup settled => evidence[f] = p.evidence[f]
  BY <1>8 DEF NewEvidence, Evident
<1>10. q = [p EXCEPT !.draft = second,
                     !.asked = Restrict(found.conflicts, DOMAIN found.conflicts \ settled),
                     !.evidence = evidence]
  <2>1. q = [p EXCEPT
               !.draft = ApplyPatch(ApplyPatch(p.draft, found.extracted, {}),
                                    Restrict(found.conflicts, settled), settled),
               !.asked = Restrict(found.conflicts, DOMAIN found.conflicts \ settled),
               !.evidence = NewEvidence(found, settled, msg, p.evidence)]
    BY <1>0, <1>2, Zenon DEF Understood
  <2> QED
    BY <2>1, <1>4, <1>6, <1>7, <1>8
<1>11. p.draft \in Draft /\ {"draft", "asked", "evidence"} \subseteq DOMAIN p
  BY DEF IsProcess
<1>12. q.draft = second /\ q.evidence = evidence
  BY <1>10, <1>11
<1>13. /\ first \in Draft
       /\ first.explicit = p.draft.explicit \cup DOMAIN found.extracted
       /\ \A f \in Field : first.facts[f] = IF f \in DOMAIN found.extracted
                                            THEN found.extracted[f] ELSE p.draft.facts[f]
  BY <1>1, <1>6, <1>11, PatchIsApplied
<1>14. /\ second \in Draft
       /\ second.explicit = first.explicit \cup settled
       /\ \A f \in Field : second.facts[f] = IF f \in settled THEN found.conflicts[f]
                                             ELSE first.facts[f]
  BY <1>1, <1>3, <1>5, <1>7, <1>13, PatchIsApplied
<1>15. /\ second.explicit = p.draft.explicit \cup DOMAIN found.extracted \cup settled
       /\ second.explicit \subseteq Field
       /\ \A f \in second.explicit :
            second.facts[f] = IF f \in settled THEN found.conflicts[f]
                              ELSE IF f \in DOMAIN found.extracted THEN found.extracted[f]
                              ELSE p.draft.facts[f]
  BY <1>1, <1>3, <1>11, <1>13, <1>14 DEF Draft
<1>16. \A f \in second.explicit : second.facts[f] # None
  BY <1>1, <1>3, <1>15, NoneAssumption DEF IsProcess
<1>17. EvidenceBacks(q)
  BY <1>1, <1>3, <1>9, <1>12, <1>15 DEF EvidenceBacks
<1>18. ASSUME NEW f \in p.draft.explicit, second.facts[f] # p.draft.facts[f]
       PROVE  f \in settled
  <2>1. f \in DOMAIN found.extracted => f \in ConflictsOf(p.draft, found.extracted)
    BY <1>1, <1>3, <1>15, <1>18 DEF ConflictsOf, IsProcess
  <2> QED
    BY <1>1, <1>15, <1>18, <2>1
<1>19. \A f \in p.draft.explicit :
         second.facts[f] # p.draft.facts[f] =>
           /\ f \in DOMAIN p.asked
           /\ p.asked[f] = second.facts[f]
           /\ p.asked[f] \in msg.confirms
  BY <1>3, <1>15, <1>18
<1>20. Revised(p, q)
  BY <1>10, <1>11 DEF Revised
<1> QED
  BY <1>12, <1>14, <1>16, <1>17, <1>19, <1>20

-----------------------------------------------------------------------------
(* Processes and operations *)

\* A process is one, whatever its fields hold.
LEMMA ProcessIsThere == \A p : IsProcess(p) => p # NoProcess
BY DEF IsProcess, NoProcess, PlanStatus

\* An operation that is under way is another one than no operation.
LEMMA OperationIsNotIdle ==
  ASSUME NEW o, DOMAIN o = {"step", "request", "message", "work"} \/
                DOMAIN o = {"step", "request", "work", "criteria", "since", "found", "results"}
  PROVE  o # Idle
BY DEF Idle

\* A new process asks for nothing and holds nothing.
LEMMA NewProcessIsOne ==
  IsProcess(NewProcess) /\ EvidenceBacks(NewProcess) /\ IsDraft(NewProcess)
    /\ NewProcess.status = "DRAFT" /\ NewProcess.round = None
<1>1. NewDraft \in Draft /\ NewDraft.explicit = {}
  BY DEF NewDraft, Draft
<1>2. DOMAIN << >> = {}
  OBVIOUS
<1> QED
  BY <1>1, <1>2 DEF NewProcess, IsProcess, EvidenceBacks, IsDraft, PlanStatus

\* A stored process replaced by another: the others stay.
LEMMA ProcessesChange ==
  ASSUME TypeOK, NEW r \in Created, NEW p, IsProcess(p),
         processes' = [processes EXCEPT ![r] = p]
  PROVE  /\ Created' = Created /\ r \in RequestId
         /\ DOMAIN processes' = RequestId
         /\ processes'[r] = p
         /\ \A s \in RequestId : s # r => processes'[s] = processes[s]
<1>1. p # NoProcess
  BY ProcessIsThere
<1> QED
  BY <1>1 DEF TypeOK, Created

\* An operation ends: it stores a process that keeps its plan, may have made a
\* round for it, and leaves the trail at the status it stored.
LEMMA FinishKept ==
  ASSUME AgentInv, NEW r \in Created, NEW p, IsProcess(p), EvidenceBacks(p),
         op # Idle => op.request = r,
         op' = Idle, processes' = [processes EXCEPT ![r] = p], UNCHANGED creations,
         ~IsDraft(processes[r]) => ~IsDraft(p) /\ p.draft = processes[r].draft,
         NEW new, rounds' = rounds \cup new,
         \A x \in new : /\ x.request = r /\ ~IsDraft(p)
                        /\ x.key = <<r, p.draft.version>>
                        /\ \A y \in rounds \cup new : y.key = x.key => y = x,
         ShowsRound(r, p)',
         DOMAIN trail' = RequestId, trail'[r] = p.status,
         \A s \in RequestId : s # r => trail'[s] = trail[s],
         brokenTrail' = {}
  PROVE  AgentInv'
<1>0. TypeOK /\ RoundsAreOfPlans /\ TrailTellsTheStatus
  BY DEF AgentInv
<1>1. /\ Created' = Created /\ r \in RequestId
      /\ DOMAIN processes' = RequestId
      /\ processes'[r] = p
      /\ \A s \in RequestId : s # r => processes'[s] = processes[s]
  BY <1>0, ProcessesChange
<1>2. Created \subseteq RequestId
  BY DEF Created
<1>3. TypeOK'
  BY <1>0, <1>1, <1>2 DEF TypeOK
<1>4. WorkIsTheProcess'
  BY DEF WorkIsTheProcess
<1>5. ASSUME NEW x \in rounds'
      PROVE  /\ x.request \in Created'
             /\ ~IsDraft(processes'[x.request])
             /\ x.key = <<x.request, processes'[x.request].draft.version>>
             /\ \A y \in rounds' : y.key = x.key => y = x
  <2>1. CASE x \in new
    BY <1>1, <2>1
  <2>2. CASE x \in rounds
    <3>1. /\ x.request \in Created
          /\ ~IsDraft(processes[x.request])
          /\ x.key = <<x.request, processes[x.request].draft.version>>
          /\ \A y \in rounds : y.key = x.key => y = x
      BY <1>0, <2>2 DEF RoundsAreOfPlans
    <3>2. /\ ~IsDraft(processes'[x.request])
          /\ processes'[x.request].draft = processes[x.request].draft
      BY <1>1, <1>2, <3>1
    <3>3. \A y \in new : y.key = x.key => y = x
      BY <2>2
    <3> QED
      BY <1>1, <3>1, <3>2, <3>3
  <2> QED
    BY <2>1, <2>2
<1>6. RoundsAreOfPlans'
  BY <1>5 DEF RoundsAreOfPlans, IsDraft
<1>7. ASSUME NEW s \in Created'
      PROVE  (ShowsRound(s, processes[s]) /\ EvidenceBacks(processes[s]))'
  <2>1. CASE s = r
    BY <1>1, <2>1 DEF ShowsRound, EvidenceBacks
  <2>2. CASE s # r
    <3>1. processes'[s] = processes[s] /\ s \in Created
      BY <1>1, <1>2, <2>2
    <3>2. ShowsRound(s, processes[s]) /\ EvidenceBacks(processes[s])
      BY <3>1 DEF AgentInv
    <3>3. RoundsOf(s) \subseteq RoundsOf(s)'
      BY DEF RoundsOf
    <3> QED
      BY <3>1, <3>2, <3>3 DEF ShowsRound, EvidenceBacks
  <2> QED
    BY <2>1, <2>2
<1>8. TrailTellsTheStatus'
  <2>1. ASSUME NEW s \in Created', s # r
        PROVE  trail'[s] = processes'[s].status
    BY <1>0, <1>1, <1>2, <2>1 DEF TrailTellsTheStatus, CurrentStatus
  <2> QED
    BY <1>1, <2>1 DEF TrailTellsTheStatus, CurrentStatus
<1> QED
  BY <1>3, <1>4, <1>6, <1>7, <1>8 DEF AgentInv

\* The same for an operation that makes no round.
LEMMA StoreKept ==
  ASSUME AgentInv, NEW r \in Created, NEW p, IsProcess(p), EvidenceBacks(p),
         op # Idle => op.request = r,
         op' = Idle, processes' = [processes EXCEPT ![r] = p], UNCHANGED <<creations, rounds>>,
         ~IsDraft(processes[r]) => ~IsDraft(p) /\ p.draft = processes[r].draft,
         ShowsRound(r, p)',
         DOMAIN trail' = RequestId, trail'[r] = p.status,
         \A s \in RequestId : s # r => trail'[s] = trail[s],
         brokenTrail' = {}
  PROVE  AgentInv'
<1>1. PICK new : new = {}
  OBVIOUS
<1>2. rounds' = rounds \cup new
  BY <1>1
<1>3. \A x \in new : /\ x.request = r /\ ~IsDraft(p)
                      /\ x.key = <<r, p.draft.version>>
                      /\ \A y \in rounds \cup new : y.key = x.key => y = x
  BY <1>1
<1> QED
  BY <1>2, <1>3, FinishKept

\* An operation begins or goes on, with nothing stored.
LEMMA WorkKept ==
  ASSUME AgentInv, UNCHANGED <<processes, creations, rounds>>,
         op' # Idle, IsOperation(op)', WorkIsTheProcess',
         op # Idle => op.request = op'.request,
         DOMAIN trail' = RequestId, trail'[op'.request] = op'.work.status,
         \A s \in RequestId : s # op'.request => trail'[s] = trail[s],
         brokenTrail' = {}
  PROVE  AgentInv'
<1>0. TypeOK /\ RoundsAreOfPlans /\ TrailTellsTheStatus
  BY DEF AgentInv
<1>1. Created' = Created /\ Created \subseteq RequestId
  BY DEF Created
<1>2. TypeOK'
  BY <1>0, <1>1 DEF TypeOK
<1>3. RoundsAreOfPlans'
  BY <1>0, <1>1 DEF RoundsAreOfPlans, IsDraft
<1>4. (\A r \in Created : ShowsRound(r, processes[r]) /\ EvidenceBacks(processes[r]))'
  BY <1>1 DEF AgentInv, ShowsRound, RoundsOf, EvidenceBacks
<1>5. TrailTellsTheStatus'
  BY <1>0, <1>1 DEF TrailTellsTheStatus, CurrentStatus
<1> QED
  BY <1>2, <1>3, <1>4, <1>5 DEF AgentInv

\* An event that starts where the trail of its request ends is no contradiction.
LEMMA RecordStep ==
  ASSUME AgentInv, NEW r \in Created, NEW from, NEW to, Record(r, from, to),
         from = None \/ from = trail[r]
  PROVE  /\ DOMAIN trail' = RequestId /\ trail'[r] = to /\ brokenTrail' = {}
         /\ \A s \in RequestId : s # r => trail'[s] = trail[s]
BY DEF AgentInv, TypeOK, TrailTellsTheStatus, Record, Created

\* Without an event the trail is as it was.
LEMMA NoRecordStep ==
  ASSUME AgentInv, NoRecord
  PROVE  /\ DOMAIN trail' = RequestId /\ brokenTrail' = {}
         /\ \A s \in RequestId : trail'[s] = trail[s]
BY DEF AgentInv, TypeOK, TrailTellsTheStatus, NoRecord

-----------------------------------------------------------------------------
(* Messages *)

\* What is read is a stored draft.
LEMMA InterpretedWork ==
  ASSUME AgentInv, op.step = "interpret"
  PROVE  /\ op # Idle /\ op.request \in Created /\ op.message \in Message
         /\ op.work = processes[op.request]
         /\ IsProcess(op.work) /\ IsDraft(op.work) /\ EvidenceBacks(op.work)
         /\ op.work.round = None /\ op.work.status \notin PlanStatus
         /\ trail[op.request] = op.work.status
<1>1. op # Idle
  BY DEF Idle
<1>2. IsOperation(op) /\ op.work = processes[op.request] /\ IsDraft(op.work)
  BY <1>1 DEF AgentInv, TypeOK, WorkIsTheProcess
<1>3. op.request \in Created /\ op.message \in Message /\ IsProcess(op.work)
  BY <1>2 DEF IsOperation, Tool
<1>4. op.work.status \notin PlanStatus
  BY <1>2, <1>3 DEF IsProcess, IsDraft
<1>5. op.work.round = None /\ EvidenceBacks(op.work)
  BY <1>2, <1>3, <1>4 DEF AgentInv, ShowsRound, PlanStatus
<1>6. trail[op.request] = op.work.status
  BY <1>1, <1>3 DEF AgentInv, TrailTellsTheStatus, CurrentStatus
<1> QED
  BY <1>1, <1>2, <1>3, <1>4, <1>5, <1>6

\* A message is taken up for a draft that is stored.
LEMMA ListenKept ==
  ASSUME AgentInv, op = Idle, NEW r \in Created, NEW msg \in Message,
         IsDraft(processes[r]), Listen(r, msg, processes[r]),
         UNCHANGED <<processes, creations>>, NoRecord
  PROVE  AgentInv'
<1>1. PICK o : o = [step |-> "interpret", request |-> r, message |-> msg,
                    work |-> processes[r]]
  OBVIOUS
<1>2. op' = o /\ rounds' = rounds
  BY <1>1 DEF Listen
<1>3. /\ DOMAIN o = {"step", "request", "message", "work"}
      /\ o.step = "interpret" /\ o.request = r /\ o.message = msg /\ o.work = processes[r]
  BY <1>1
<1>4. op' # Idle
  BY <1>2, <1>3, OperationIsNotIdle
<1>5. Created' = Created /\ r \in RequestId
  BY DEF Created
<1>6. IsOperation(op)'
  BY <1>2, <1>3, <1>5 DEF IsOperation, AgentInv, TypeOK
<1>7. WorkIsTheProcess'
  BY <1>2, <1>3 DEF WorkIsTheProcess, IsDraft
<1>8. trail[r] = processes[r].status
  BY DEF AgentInv, TrailTellsTheStatus, CurrentStatus
<1> QED
  BY <1>2, <1>3, <1>4, <1>5, <1>6, <1>7, <1>8, NoRecordStep, WorkKept

\* A request is created with its first message.
LEMMA CreateRequestKept ==
  ASSUME AgentInv, NEW k \in CreationKey, NEW msg \in Message, NEW r \in RequestId,
         CreateRequest(k, msg, r)
  PROVE  AgentInv'
<1>0. /\ op = Idle /\ processes[r] = NoProcess /\ rounds' = rounds
      /\ creations' = [creations EXCEPT ![k] = [message |-> msg, request |-> r]]
      /\ processes' = [processes EXCEPT ![r] = NewProcess]
      /\ trail' = [trail EXCEPT ![r] = "DRAFT"]
      /\ op' = [step |-> "interpret", request |-> r, message |-> msg, work |-> NewProcess]
  BY DEF CreateRequest, IsNextRequest, Reserve, Listen, Record
<1>1. brokenTrail' = {}
  BY DEF CreateRequest, Record, AgentInv, TrailTellsTheStatus
<1>2. TypeOK
  BY DEF AgentInv
<1>3. /\ DOMAIN processes' = RequestId /\ processes'[r] = NewProcess
      /\ \A s \in RequestId : s # r => processes'[s] = processes[s]
  BY <1>0, <1>2 DEF TypeOK
<1>4. Created' = Created \cup {r} /\ r \notin Created /\ Created \subseteq RequestId
  BY <1>0, <1>3, NewProcessIsOne, ProcessIsThere DEF Created
<1>5. /\ DOMAIN op' = {"step", "request", "message", "work"}
      /\ op'.step = "interpret" /\ op'.request = r /\ op'.message = msg
      /\ op'.work = NewProcess /\ op' # Idle
  BY <1>0, OperationIsNotIdle
<1>6. TypeOK'
  <2>1. IsOperation(op)'
    BY <1>4, <1>5, NewProcessIsOne DEF IsOperation
  <2>2. \A s \in Created' : IsProcess(processes'[s])
    BY <1>2, <1>3, <1>4, NewProcessIsOne DEF TypeOK
  <2>3. /\ DOMAIN creations' = CreationKey
        /\ creations'[k].request = r /\ creations'[k].message = msg
        /\ \A c \in CreationKey : c # k => creations'[c] = creations[c]
    BY <1>0, <1>2 DEF TypeOK
  <2>4. \A c \in CreationKey : creations'[c] # None => /\ creations'[c].request \in Created'
                                                       /\ creations'[c].message \in Message
    BY <1>2, <1>4, <2>3 DEF TypeOK
  <2>5. DOMAIN trail' = RequestId
    BY <1>0, <1>2 DEF TypeOK
  <2> QED
    BY <1>3, <2>1, <2>2, <2>3, <2>4, <2>5 DEF TypeOK
<1>7. WorkIsTheProcess'
  BY <1>3, <1>5, NewProcessIsOne DEF WorkIsTheProcess, IsDraft
<1>8. RoundsAreOfPlans'
  <2>1. \A x \in rounds : x.request \in Created /\ processes'[x.request] = processes[x.request]
    BY <1>3, <1>4 DEF AgentInv, RoundsAreOfPlans
  <2> QED
    BY <1>0, <1>4, <2>1 DEF AgentInv, RoundsAreOfPlans, IsDraft
<1>9. \A s \in Created' : (ShowsRound(s, processes[s]) /\ EvidenceBacks(processes[s]))'
  <2>1. \A s : RoundsOf(s)' = RoundsOf(s)
    BY <1>0 DEF RoundsOf
  <2>2. ShowsRound(r, NewProcess)' /\ EvidenceBacks(NewProcess)
    BY NewProcessIsOne DEF ShowsRound
  <2>3. ASSUME NEW s \in Created
        PROVE  (ShowsRound(s, processes[s]) /\ EvidenceBacks(processes[s]))'
    BY <1>3, <1>4, <2>1, <2>3 DEF AgentInv, ShowsRound, EvidenceBacks
  <2> QED
    BY <1>3, <1>4, <2>2, <2>3 DEF ShowsRound, EvidenceBacks
<1>10. TrailTellsTheStatus'
  <2>1. trail'[r] = "DRAFT" /\ \A s \in RequestId : s # r => trail'[s] = trail[s]
    BY <1>0, <1>2 DEF TypeOK
  <2>2. \A s \in Created : trail[s] = processes[s].status
    BY <1>0 DEF AgentInv, TrailTellsTheStatus, CurrentStatus
  <2> QED
    BY <1>1, <1>3, <1>4, <1>5, <2>1, <2>2, NewProcessIsOne
    DEF TrailTellsTheStatus, CurrentStatus
<1> QED
  BY <1>6, <1>7, <1>8, <1>9, <1>10 DEF AgentInv

\* The interpreter fails: the process stays what it was, and says that it stopped.
LEMMA InterpretationFailsKept ==
  ASSUME AgentInv, InterpretationFails
  PROVE  AgentInv'
<1>1. PICK r \in Created : r = op.request
  BY InterpretedWork DEF InterpretationFails
<1>2. PICK w : w = op.work
  OBVIOUS
<1>3. /\ op # Idle /\ w = processes[r] /\ IsProcess(w) /\ IsDraft(w) /\ EvidenceBacks(w)
      /\ w.round = None /\ w.status \notin PlanStatus /\ trail[r] = w.status
  BY <1>1, <1>2, InterpretedWork DEF InterpretationFails
<1>4. PICK p : p = [w EXCEPT !.stop = "ACTION_BLOCKED"]
  OBVIOUS
<1>5. IsProcess(p) /\ p.status = w.status /\ p.round = None /\ p.draft = w.draft
      /\ p.evidence = w.evidence
  BY <1>3, <1>4 DEF IsProcess
<1>6. EvidenceBacks(p)
  BY <1>3, <1>5 DEF EvidenceBacks
<1>7. /\ op' = Idle /\ processes' = [processes EXCEPT ![r] = p]
      /\ UNCHANGED <<creations, rounds>>
  BY <1>1, <1>2, <1>4 DEF InterpretationFails, Finish
<1>8. ShowsRound(r, p)'
  BY <1>3, <1>5 DEF ShowsRound, PlanStatus
<1>9. r \in RequestId
  BY DEF Created
<1>10. NoRecord
  BY DEF InterpretationFails
<1> HIDE DEF NoRecord
<1> QED
  BY <1>1, <1>3, <1>5, <1>6, <1>7, <1>8, <1>9, <1>10, NoRecordStep, StoreKept

\* The number of quotes a plan aims at is one.
LEMMA TargetCountIsANumber ==
  ASSUME NEW draft \in Draft
  PROVE  TargetCount(draft.facts) \in Int
<1>1. draft.facts["desired_quote_count"] \in Int \cup {None}
  BY DEF Draft, Field
<1>2. DefaultTarget \in Int /\ MaximumTarget \in Int
  BY AgentAssumption
<1> QED
  BY <1>1, <1>2 DEF TargetCount

\* An understood message leads to a question or to a plan.
LEMMA AssessedProcess ==
  ASSUME NEW q, NEW w, IsProcess(w), IsDraft(w), w.round = None,
         Revised(w, q),
         q.draft \in Draft, \A f \in q.draft.explicit : q.draft.facts[f] # None,
         EvidenceBacks(q), NEW p, p = Assessed(q)
  PROVE  /\ IsProcess(p) /\ EvidenceBacks(p)
         /\ p.draft = q.draft /\ p.round = None /\ p.status # "SOURCING"
<1>1. /\ DOMAIN q = {"status", "draft", "asked", "evidence", "question", "target",
                     "selected", "round", "stop"}
      /\ q.target = None /\ q.round = None
      /\ q \in [status : {q.status}, draft : Draft, asked : {q.asked},
                evidence : {q.evidence}, question : {q.question}, target : {None},
                selected : {q.selected}, round : {None}, stop : {q.stop}]
  BY DEF IsProcess, IsDraft, Revised
<1>2. \/ \E question : p = [q EXCEPT !.status = "NEEDS_CLARIFICATION", !.question = question,
                                     !.stop = "NEEDS_CLARIFICATION"]
      \/ p = [q EXCEPT !.status = "READY", !.question = None,
                       !.target = TargetCount(q.draft.facts),
                       !.stop = "AWAITING_PLAN_CONFIRMATION"]
  BY DEF Assessed, Ask
<1>3. CASE \E question :
             p = [q EXCEPT !.status = "NEEDS_CLARIFICATION", !.question = question,
                           !.stop = "NEEDS_CLARIFICATION"]
  <2>1. /\ p.draft = q.draft /\ p.round = None /\ p.status = "NEEDS_CLARIFICATION"
        /\ p.evidence = q.evidence
    BY <1>1, <1>3
  <2>2. IsProcess(p)
    BY <1>1, <1>3 DEF IsProcess, PlanStatus
  <2> QED
    BY <2>1, <2>2 DEF EvidenceBacks
<1>4. CASE p = [q EXCEPT !.status = "READY", !.question = None,
                         !.target = TargetCount(q.draft.facts),
                         !.stop = "AWAITING_PLAN_CONFIRMATION"]
  <2>1. /\ p.draft = q.draft /\ p.round = None /\ p.status = "READY"
        /\ p.evidence = q.evidence
    BY <1>1, <1>4
  <2>2. PICK t \in Int : t = TargetCount(q.draft.facts)
    BY TargetCountIsANumber
  <2>3. t # None /\ p = [q EXCEPT !.status = "READY", !.question = None, !.target = t,
                                 !.stop = "AWAITING_PLAN_CONFIRMATION"]
    BY <1>4, <2>2, NoneAssumption
  <2>4. /\ p.status = "READY" /\ p.target = t /\ p.round = None
        /\ p \in [status : {"READY"}, draft : Draft, asked : {p.asked},
                  evidence : {p.evidence}, question : {p.question}, target : {t},
                  selected : {p.selected}, round : {None}, stop : {p.stop}]
    BY <1>1, <2>3
  <2>5. IsProcess(p)
    BY <2>1, <2>2, <2>3, <2>4 DEF IsProcess, PlanStatus
  <2> QED
    BY <2>1, <2>5 DEF EvidenceBacks
<1> QED
  BY <1>2, <1>3, <1>4

\* A message is interpreted.
LEMMA InterpretMessageKept ==
  ASSUME AgentInv, InterpretMessage
  PROVE  AgentInv'
<1>1. PICK r \in Created : r = op.request
  BY InterpretedWork DEF InterpretMessage
<1>2. PICK w : w = op.work
  OBVIOUS
<1>3. /\ op # Idle /\ w = processes[r] /\ IsProcess(w) /\ IsDraft(w) /\ EvidenceBacks(w)
      /\ w.round = None /\ trail[r] = w.status /\ op.message \in Message
  BY <1>1, <1>2, InterpretedWork DEF InterpretMessage
<1>4. PICK heard \in Readings(op.message) :
        LET p == Assessed(Understood(op.work, op.message, heard))
        IN  /\ Finish(op.request, p, Spent(op.request), "PAUSED")
            /\ Record(op.request, IF p.status = "READY" THEN op.work.status ELSE None, p.status)
            /\ UNCHANGED rounds
  BY DEF InterpretMessage
<1>5. PICK q : q = Understood(w, op.message, heard)
  OBVIOUS
<1>6. PICK p : p = Assessed(q)
  OBVIOUS
<1>7. PICK msg \in Message : msg = op.message
  BY <1>3
<1>8. /\ Finish(r, p, Spent(r), "PAUSED") /\ UNCHANGED rounds
      /\ Record(r, IF p.status = "READY" THEN w.status ELSE None, p.status)
  BY <1>1, <1>2, <1>4, <1>5, <1>6
<1>9. /\ Revised(w, q)
      /\ q.draft \in Draft
      /\ \A f \in q.draft.explicit : q.draft.facts[f] # None
      /\ EvidenceBacks(q)
  <2>1. q = Understood(w, msg, heard) /\ heard \in Readings(msg)
    BY <1>4, <1>5, <1>7
  <2>2. IsProcess(w) /\ EvidenceBacks(w)
    BY <1>3
  <2> QED
    BY <2>1, <2>2, UnderstoodProcess
<1>10. /\ IsProcess(p) /\ EvidenceBacks(p)
       /\ p.draft = q.draft /\ p.round = None /\ p.status # "SOURCING"
  BY <1>3, <1>6, <1>9, AssessedProcess
<1>11. /\ op' = Idle /\ processes' = [processes EXCEPT ![r] = p]
       /\ UNCHANGED <<creations, rounds>>
  BY <1>8 DEF Finish
<1>12. ShowsRound(r, p)'
  BY <1>10 DEF ShowsRound
<1>13. PICK from : from = IF p.status = "READY" THEN w.status ELSE None
  OBVIOUS
<1>14. Record(r, from, p.status) /\ (from = None \/ from = trail[r])
  BY <1>3, <1>8, <1>13
<1>15. /\ DOMAIN trail' = RequestId /\ trail'[r] = p.status /\ brokenTrail' = {}
       /\ \A s \in RequestId : s # r => trail'[s] = trail[s]
  BY <1>14, RecordStep
<1> QED
  <2>1. ~IsDraft(processes[r]) => ~IsDraft(p) /\ p.draft = processes[r].draft
    BY <1>3
  <2>2. op # Idle => op.request = r
    BY <1>1
  <2>3. IsProcess(p) /\ EvidenceBacks(p)
    BY <1>10
  <2> QED
    BY <2>1, <2>2, <2>3, <1>11, <1>12, <1>15, StoreKept

\* Every step of a message.
LEMMA MessageKept ==
  ASSUME AgentInv, MessageNext
  PROVE  AgentInv'
<1>1. ASSUME NEW k \in CreationKey, RetryCreation(k)
      PROVE  AgentInv'
  <2>1. PICK c : c = creations[k]
    OBVIOUS
  <2>2. c.request \in Created /\ c.message \in Message
    BY <1>1, <2>1 DEF RetryCreation, AgentInv, TypeOK
  <2>3. /\ IsDraft(processes[c.request])
        /\ Listen(c.request, c.message, processes[c.request])
        /\ op = Idle /\ UNCHANGED <<processes, creations>> /\ NoRecord
    BY <1>1, <2>1 DEF RetryCreation
  <2> QED
    BY <2>2, <2>3, ListenKept
<1>2. ASSUME NEW r \in RequestId, NEW msg \in Message, ContinueRequest(r, msg)
      PROVE  AgentInv'
  BY <1>2, ListenKept DEF ContinueRequest, Created
<1> QED
  BY <1>1, <1>2, CreateRequestKept, InterpretationFailsKept, InterpretMessageKept
  DEF MessageNext

-----------------------------------------------------------------------------
(* Sourcing *)

\* What an operation sources for is a confirmed plan that has no round.
LEMMA SourcedWork ==
  ASSUME AgentInv, Sourcing_, NEW r, r = op.request, NEW w, w = op.work
  PROVE  /\ op # Idle /\ r \in Created
         /\ IsProcess(w) /\ EvidenceBacks(w)
         /\ w.status = "SOURCING" /\ w.round = None
         /\ ~IsDraft(processes[r]) /\ ~IsDraft(w) /\ w.draft = processes[r].draft
         /\ trail[r] = "SOURCING"
         /\ DOMAIN op = {"step", "request", "work", "criteria", "since", "found", "results"}
         /\ SourcesFor(processes[r], w)
         /\ IsProcess(processes[r]) /\ processes[r].status = "READY"
<1>1. op # Idle /\ op.step # "interpret"
  BY DEF Sourcing_, Tool, Idle
<1>2. IsOperation(op)
  BY <1>1 DEF AgentInv, TypeOK
<1>3. /\ r \in Created /\ IsProcess(w) /\ IsProcess(processes[r])
      /\ DOMAIN op = {"step", "request", "work", "criteria", "since", "found", "results"}
  BY <1>1, <1>2 DEF IsOperation, AgentInv, TypeOK
<1>4. /\ processes[r].status = "READY"
      /\ SourcesFor(processes[r], w)
  BY <1>1 DEF AgentInv, WorkIsTheProcess
<1>5. /\ w.status = "SOURCING" /\ w.round = processes[r].round
      /\ w.draft = processes[r].draft /\ w.evidence = processes[r].evidence
  BY <1>3, <1>4 DEF IsProcess, SourcesFor
<1>6. processes[r].round = None /\ EvidenceBacks(processes[r])
  BY <1>3, <1>4 DEF AgentInv, ShowsRound
<1>7. ~IsDraft(processes[r]) /\ ~IsDraft(w)
  BY <1>3, <1>4, <1>5 DEF IsProcess, IsDraft, PlanStatus
<1>8. EvidenceBacks(w)
  BY <1>5, <1>6 DEF EvidenceBacks
<1>9. trail[r] = "SOURCING"
  BY <1>1, <1>3, <1>5 DEF AgentInv, TrailTellsTheStatus, CurrentStatus
<1> QED
  BY <1>1, <1>3, <1>4, <1>5, <1>6, <1>7, <1>8, <1>9

\* A process that is given back to the buyer is what it was, to be confirmed.
LEMMA GivenBack ==
  ASSUME NEW w, IsProcess(w), EvidenceBacks(w), ~IsDraft(w), w.round = None,
         NEW reason, NEW p, p = GiveBack(w, reason)
  PROVE  /\ IsProcess(p) /\ EvidenceBacks(p) /\ ~IsDraft(p)
         /\ p.draft = w.draft /\ p.status = "READY" /\ p.round = None
<1>1. p = [w EXCEPT !.status = "READY", !.stop = reason]
  BY DEF GiveBack
<1>2. /\ p.status = "READY" /\ p.target = w.target /\ p.draft = w.draft
      /\ p.round = w.round /\ p.evidence = w.evidence
  BY <1>1 DEF IsProcess
<1>3. IsProcess(p)
  BY <1>1, <1>2 DEF IsProcess, IsDraft, PlanStatus
<1> QED
  BY <1>2, <1>3 DEF EvidenceBacks, IsDraft

\* Sourcing that stops gives the request back, whether or not it made a round.
LEMMA GiveBackKept ==
  ASSUME AgentInv, Sourcing_, NEW reason, NEW run, NEW status, NEW new,
         Finish(op.request, GiveBack(op.work, reason), run, status),
         Record(op.request, "SOURCING", "READY"),
         rounds' = rounds \cup new,
         \A x \in new : /\ x.request = op.request
                        /\ x.key = <<op.request, op.work.draft.version>>
                        /\ \A y \in rounds \cup new : y.key = x.key => y = x
  PROVE  AgentInv'
<1>1. PICK r : r = op.request
  OBVIOUS
<1>2. PICK w : w = op.work
  OBVIOUS
<1>3. /\ op # Idle /\ r \in Created
      /\ IsProcess(w) /\ EvidenceBacks(w) /\ w.round = None
      /\ ~IsDraft(w) /\ w.draft = processes[r].draft /\ trail[r] = "SOURCING"
  BY <1>1, <1>2, SourcedWork
<1>4. PICK p : p = GiveBack(w, reason)
  OBVIOUS
<1>5. /\ IsProcess(p) /\ EvidenceBacks(p) /\ ~IsDraft(p)
      /\ p.draft = w.draft /\ p.status = "READY" /\ p.round = None
  BY <1>3, <1>4, GivenBack
<1>6. op' = Idle /\ processes' = [processes EXCEPT ![r] = p] /\ UNCHANGED creations
  BY <1>1, <1>2, <1>4 DEF Finish
<1>7. ShowsRound(r, p)'
  BY <1>5 DEF ShowsRound
<1>8. /\ DOMAIN trail' = RequestId /\ trail'[r] = p.status /\ brokenTrail' = {}
      /\ \A s \in RequestId : s # r => trail'[s] = trail[s]
  BY <1>1, <1>3, <1>5, RecordStep
<1>9. \A x \in new : /\ x.request = r /\ ~IsDraft(p)
                     /\ x.key = <<r, p.draft.version>>
                     /\ \A y \in rounds \cup new : y.key = x.key => y = x
  BY <1>1, <1>2, <1>5
<1>10. ~IsDraft(processes[r]) => ~IsDraft(p) /\ p.draft = processes[r].draft
  BY <1>3, <1>5
<1>11. op # Idle => op.request = r
  BY <1>1
<1>12. r \in Created /\ IsProcess(p) /\ EvidenceBacks(p)
  BY <1>3, <1>5
<1> QED
  BY <1>6, <1>7, <1>8, <1>9, <1>10, <1>11, <1>12, FinishKept

\* The round that the execution service finds or makes is the one of the plan.
LEMMA RoundForStep ==
  ASSUME AgentInv, Sourcing_, NEW x \in RoundFor
  PROVE  /\ x.request = op.request
         /\ x.key = <<op.request, op.work.draft.version>>
         /\ x.recipients = op.work.selected
         /\ \A y \in rounds \cup {x} : y.key = x.key => y = x
<1>1. PICK key : key = RoundKey(op.request)
  OBVIOUS
<1>2. key = <<op.request, op.work.draft.version>>
  BY <1>1 DEF RoundKey
<1>3. CASE {y \in rounds : y.key = key} # {}
  <2>1. x \in rounds /\ x.key = key /\ x.recipients = op.work.selected
    BY <1>1, <1>3 DEF RoundFor, Replays
  <2>2. x.key = <<x.request, processes[x.request].draft.version>>
        /\ \A y \in rounds : y.key = x.key => y = x
    BY <2>1 DEF AgentInv, RoundsAreOfPlans
  <2>3. x.request = op.request
    BY <1>2, <2>1, <2>2
  <2> QED
    BY <1>2, <2>1, <2>2, <2>3
<1>4. CASE {y \in rounds : y.key = key} = {}
  <2>1. x = [key |-> key, request |-> op.request, recipients |-> op.work.selected,
             made |-> now]
    BY <1>1, <1>4 DEF RoundFor
  <2>2. \A y \in rounds : y.key # x.key
    BY <1>4, <2>1
  <2> QED
    BY <1>2, <2>1, <2>2
<1> QED
  BY <1>3, <1>4

\* A plan is confirmed: its sourcing begins.
LEMMA ConfirmPlanKept ==
  ASSUME AgentInv, NEW r \in RequestId, ConfirmPlan(r)
  PROVE  AgentInv'
<1>1. PICK p : p = processes[r]
  OBVIOUS
<1>2. /\ op = Idle /\ r \in Created /\ p.round = None /\ p.status = "READY"
  BY <1>1 DEF ConfirmPlan, CanConfirm, Created
<1>3. IsProcess(p)
  BY <1>1, <1>2 DEF AgentInv, TypeOK
<1>4. trail[r] = p.status
  BY <1>1, <1>2 DEF AgentInv, TrailTellsTheStatus, CurrentStatus
<1>5. PICK w : w = [p EXCEPT !.status = "SOURCING"]
  OBVIOUS
<1>6. IsProcess(w) /\ w.status = "SOURCING"
  BY <1>2, <1>3, <1>5 DEF IsProcess, PlanStatus
<1>7. SourcesFor(p, w)
  BY <1>3, <1>5 DEF IsProcess, SourcesFor
<1>8. /\ op'.step = "search" /\ op'.request = r /\ op'.work = w
      /\ DOMAIN op' = {"step", "request", "work", "criteria", "since", "found", "results"}
      /\ UNCHANGED <<processes, creations, rounds>>
  BY <1>1, <1>5 DEF ConfirmPlan
<1>9. op' # Idle
  BY <1>8, OperationIsNotIdle
<1>10. Created' = Created
  BY <1>8 DEF Created
<1>11. IsOperation(op)'
  BY <1>2, <1>6, <1>8, <1>10 DEF IsOperation, Tool
<1>12. WorkIsTheProcess'
  BY <1>1, <1>2, <1>7, <1>8 DEF WorkIsTheProcess
<1>13. Record(r, p.status, "SOURCING")
  BY <1>1 DEF ConfirmPlan
<1>14. /\ DOMAIN trail' = RequestId /\ trail'[r] = "SOURCING" /\ brokenTrail' = {}
       /\ \A s \in RequestId : s # r => trail'[s] = trail[s]
  BY <1>2, <1>4, <1>13, RecordStep
<1> QED
  BY <1>2, <1>6, <1>8, <1>9, <1>11, <1>12, <1>14, WorkKept

\* A denied confirmation leaves the plan to be confirmed.
LEMMA ConfirmationDeniedKept ==
  ASSUME AgentInv, NEW r \in RequestId, ConfirmationDenied(r)
  PROVE  AgentInv'
<1>1. PICK w : w = processes[r]
  OBVIOUS
<1>2. op = Idle /\ r \in Created /\ w.round = None /\ w.status = "READY"
  BY <1>1 DEF ConfirmationDenied, CanConfirm, Created
<1>3. IsProcess(w) /\ EvidenceBacks(w) /\ trail[r] = w.status
  BY <1>1, <1>2 DEF AgentInv, TypeOK, TrailTellsTheStatus, CurrentStatus
<1>4. PICK p : p = [w EXCEPT !.stop = "ACTION_BLOCKED"]
  OBVIOUS
<1>5. /\ p.status = w.status /\ p.round = w.round /\ p.draft = w.draft
      /\ p.evidence = w.evidence /\ p.target = w.target /\ IsProcess(p)
  BY <1>3, <1>4 DEF IsProcess
<1>6. EvidenceBacks(p)
  BY <1>3, <1>5 DEF EvidenceBacks
<1>7. /\ op' = Idle /\ processes' = [processes EXCEPT ![r] = p]
      /\ UNCHANGED <<creations, rounds>>
  BY <1>1, <1>4 DEF ConfirmationDenied, Finish
<1>8. ShowsRound(r, p)'
  BY <1>2, <1>5 DEF ShowsRound
<1>9. NoRecord
  BY DEF ConfirmationDenied
<1>10. /\ DOMAIN trail' = RequestId /\ trail'[r] = p.status /\ brokenTrail' = {}
       /\ \A s \in RequestId : s # r => trail'[s] = trail[s]
  BY <1>2, <1>3, <1>5, <1>9, NoRecordStep
<1>11. ~IsDraft(processes[r]) => ~IsDraft(p) /\ p.draft = processes[r].draft
  BY <1>1, <1>5 DEF IsDraft
<1>12. r \in Created /\ IsProcess(p) /\ EvidenceBacks(p) /\ (op # Idle => op.request = r)
  BY <1>2, <1>5, <1>6
<1> QED
  BY <1>7, <1>8, <1>10, <1>11, <1>12, StoreKept

\* A tool has its effect and the next one follows; it may select recipients.
LEMMA ProceedKept ==
  ASSUME AgentInv, Sourcing_, NEW o, Proceed(o),
         DOMAIN o = DOMAIN op, o.step \in DOMAIN Tool, o.request = op.request,
         NEW selected, o.work = [op.work EXCEPT !.selected = selected]
  PROVE  AgentInv'
<1>1. PICK r : r = op.request
  OBVIOUS
<1>2. PICK w : w = op.work
  OBVIOUS
<1>3. PICK v : v = o.work
  OBVIOUS
<1>4. /\ op # Idle /\ r \in Created /\ IsProcess(w) /\ w.status = "SOURCING"
      /\ trail[r] = "SOURCING"
      /\ DOMAIN op = {"step", "request", "work", "criteria", "since", "found", "results"}
      /\ SourcesFor(processes[r], w)
      /\ IsProcess(processes[r]) /\ processes[r].status = "READY"
  BY <1>1, <1>2, SourcedWork
<1>5. v = [w EXCEPT !.selected = selected]
  BY <1>2, <1>3
<1>6. IsProcess(v) /\ v.status = "SOURCING" /\ v.selected = selected
  BY <1>4, <1>5 DEF IsProcess, PlanStatus
<1>7. SourcesFor(processes[r], v)
  BY <1>4, <1>5, <1>6 DEF IsProcess, SourcesFor
<1>8. op' = o /\ UNCHANGED <<processes, creations, rounds>> /\ NoRecord
  BY DEF Proceed
<1>9. op' # Idle
  BY <1>4, <1>8, OperationIsNotIdle
<1>10. Created' = Created /\ r \in RequestId
  BY <1>4, <1>8 DEF Created
<1>11. IsOperation(op)'
  BY <1>1, <1>3, <1>4, <1>6, <1>8, <1>10 DEF IsOperation
<1>12. WorkIsTheProcess'
  BY <1>1, <1>3, <1>4, <1>7, <1>8 DEF WorkIsTheProcess, Tool
<1>13. /\ DOMAIN trail' = RequestId /\ trail'[r] = v.status /\ brokenTrail' = {}
       /\ \A s \in RequestId : trail'[s] = trail[s]
  BY <1>4, <1>6, <1>8, <1>10, NoRecordStep
<1>14. op'.request = r /\ op'.work = v /\ op.request = r
  BY <1>1, <1>3, <1>8
<1> QED
  BY <1>8, <1>9, <1>11, <1>12, <1>13, <1>14, WorkKept

\* The suppliers are searched.
LEMMA SearchKept == ASSUME AgentInv, Search PROVE AgentInv'
<1>1. PICK step, found : /\ step \in DOMAIN Tool
                         /\ Proceed([op EXCEPT !.step = step, !.found = found])
  BY DEF Search, Tool
<1>2. PICK o : o = [op EXCEPT !.step = step, !.found = found]
  OBVIOUS
<1>3. Sourcing_
  BY DEF Search, Executes
<1>4. /\ DOMAIN op = {"step", "request", "work", "criteria", "since", "found", "results"}
      /\ IsProcess(op.work)
  BY <1>3, SourcedWork
<1>5. /\ DOMAIN o = DOMAIN op /\ o.step = step /\ o.request = op.request
      /\ o.work = op.work
  BY <1>2, <1>4
<1>6. o.work = [op.work EXCEPT !.selected = op.work.selected]
  BY <1>4, <1>5 DEF IsProcess
<1> QED
  BY <1>1, <1>2, <1>3, <1>5, <1>6, ProceedKept

\* One supplier is evaluated.
LEMMA EvaluateNextKept == ASSUME AgentInv, EvaluateNext PROVE AgentInv'
<1>1. PICK step, results : /\ step \in DOMAIN Tool
                           /\ Proceed([op EXCEPT !.step = step, !.results = results])
  BY DEF EvaluateNext, Tool
<1>2. PICK o : o = [op EXCEPT !.step = step, !.results = results]
  OBVIOUS
<1>3. Sourcing_
  BY DEF EvaluateNext, Executes
<1>4. /\ DOMAIN op = {"step", "request", "work", "criteria", "since", "found", "results"}
      /\ IsProcess(op.work)
  BY <1>3, SourcedWork
<1>5. /\ DOMAIN o = DOMAIN op /\ o.step = step /\ o.request = op.request
      /\ o.work = op.work
  BY <1>2, <1>4
<1>6. o.work = [op.work EXCEPT !.selected = op.work.selected]
  BY <1>4, <1>5 DEF IsProcess
<1> QED
  BY <1>1, <1>2, <1>3, <1>5, <1>6, ProceedKept

\* The recipients are selected, or there is nobody to ask.
LEMMA SelectKept == ASSUME AgentInv, Select PROVE AgentInv'
<1>1. PICK chosen : chosen = SelectRecipients(op.results, op.work.target)
  OBVIOUS
<1>2. Sourcing_
  BY DEF Select, Executes
<1>3. PICK r : r = op.request
  OBVIOUS
<1>4. PICK w : w = op.work
  OBVIOUS
<1>5. /\ op # Idle /\ r \in Created /\ IsProcess(w) /\ EvidenceBacks(w)
      /\ w.round = None /\ ~IsDraft(w) /\ w.draft = processes[r].draft
      /\ trail[r] = "SOURCING"
      /\ DOMAIN op = {"step", "request", "work", "criteria", "since", "found", "results"}
  BY <1>2, <1>3, <1>4, SourcedWork
<1>6. PICK p : p = [w EXCEPT !.selected = chosen]
  OBVIOUS
<1>7. CASE chosen # {}
  <2>1. PICK o : o = [op EXCEPT !.step = "create", !.work = p]
    OBVIOUS
  <2>2. Proceed(o)
    BY <1>1, <1>4, <1>6, <1>7, <2>1 DEF Select
  <2>3. /\ DOMAIN o = DOMAIN op /\ o.step \in DOMAIN Tool /\ o.request = op.request
        /\ o.work = p
    BY <1>5, <2>1 DEF Tool
  <2> QED
    BY <1>2, <1>4, <1>6, <2>2, <2>3, ProceedKept
<1>8. CASE chosen = {}
  <2>1. PICK n : n = [p EXCEPT !.status = "NO_ELIGIBLE_SUPPLIERS",
                               !.stop = "NO_ELIGIBLE_SUPPLIERS"]
    OBVIOUS
  <2>2. /\ Finish(op.request, n, Spent(op.request), "PAUSED")
        /\ Record(op.request, "SOURCING", "NO_ELIGIBLE_SUPPLIERS")
        /\ UNCHANGED rounds
    BY <1>1, <1>4, <1>6, <1>8, <2>1 DEF Select
  <2>3. /\ op' = Idle /\ processes' = [processes EXCEPT ![r] = n]
        /\ UNCHANGED <<creations, rounds>>
    BY <1>3, <2>2 DEF Finish
  <2>4. /\ n.status = "NO_ELIGIBLE_SUPPLIERS" /\ n.target = w.target
        /\ n.draft = w.draft /\ n.evidence = w.evidence /\ n.round = None
    BY <1>5, <1>6, <2>1 DEF IsProcess
  <2>5. IsProcess(n)
    BY <1>5, <1>6, <2>1, <2>4 DEF IsProcess, IsDraft, PlanStatus
  <2>6. EvidenceBacks(n) /\ ~IsDraft(n) /\ n.draft = processes[r].draft
    BY <1>5, <2>4 DEF EvidenceBacks, IsDraft
  <2>7. ShowsRound(r, n)'
    BY <2>4 DEF ShowsRound
  <2>8. /\ DOMAIN trail' = RequestId /\ trail'[r] = n.status /\ brokenTrail' = {}
        /\ \A s \in RequestId : s # r => trail'[s] = trail[s]
    BY <1>3, <1>5, <2>2, <2>4, RecordStep
  <2> QED
    BY <1>3, <1>5, <2>3, <2>5, <2>6, <2>7, <2>8, StoreKept
<1> QED
  BY <1>7, <1>8

\* The round is there and the request shows it.
LEMMA CreateRoundKept == ASSUME AgentInv, CreateRound PROVE AgentInv'
<1>1. PICK round \in RoundFor :
        /\ rounds' = rounds \cup {round}
        /\ Finish(op.request,
                  [op.work EXCEPT !.round = round.key, !.stop = "AWAITING_EXTERNAL_RESPONSE"],
                  Spent(op.request), "PAUSED")
  BY DEF CreateRound
<1>2. Sourcing_
  BY DEF CreateRound, Creates, Executes
<1>3. PICK r : r = op.request
  OBVIOUS
<1>4. PICK w : w = op.work
  OBVIOUS
<1>5. /\ op # Idle /\ r \in Created /\ IsProcess(w) /\ EvidenceBacks(w)
      /\ w.status = "SOURCING" /\ ~IsDraft(w) /\ w.draft = processes[r].draft
      /\ trail[r] = "SOURCING"
  BY <1>2, <1>3, <1>4, SourcedWork
<1>6. /\ round.request = r
      /\ round.key = <<r, w.draft.version>>
      /\ round.recipients = w.selected
      /\ \A y \in rounds \cup {round} : y.key = round.key => y = round
  BY <1>1, <1>2, <1>3, <1>4, RoundForStep
<1>7. PICK key : key = round.key
  OBVIOUS
<1>8. key \in Int \X Int /\ key # None
  <2>1. r \in Int
    BY <1>5, AgentAssumption DEF Created, RequestId
  <2>2. w.draft.version \in Int
    BY <1>5 DEF IsProcess, Draft
  <2> QED
    BY <1>6, <1>7, <2>1, <2>2, NoneAssumption
<1>9. PICK p : p = [w EXCEPT !.round = key, !.stop = "AWAITING_EXTERNAL_RESPONSE"]
  OBVIOUS
<1>10. /\ p.status = "SOURCING" /\ p.target = w.target /\ p.draft = w.draft
       /\ p.evidence = w.evidence /\ p.round = key /\ p.selected = w.selected
  BY <1>5, <1>9 DEF IsProcess
<1>11. IsProcess(p)
  BY <1>5, <1>8, <1>9, <1>10 DEF IsProcess, IsDraft, PlanStatus
<1>12. EvidenceBacks(p) /\ ~IsDraft(p) /\ p.draft = processes[r].draft
  BY <1>5, <1>10 DEF EvidenceBacks, IsDraft
<1>13. op' = Idle /\ processes' = [processes EXCEPT ![r] = p] /\ UNCHANGED creations
  BY <1>1, <1>3, <1>4, <1>7, <1>9 DEF Finish
<1>14. ShowsRound(r, p)'
  BY <1>1, <1>6, <1>7, <1>8, <1>10 DEF ShowsRound, RoundsOf
<1>15. NoRecord
  BY DEF CreateRound
<1>16. /\ DOMAIN trail' = RequestId /\ trail'[r] = p.status /\ brokenTrail' = {}
       /\ \A s \in RequestId : s # r => trail'[s] = trail[s]
  BY <1>5, <1>10, <1>15, NoRecordStep DEF Created
<1>17. PICK new : new = {round}
  OBVIOUS
<1>18. /\ rounds' = rounds \cup new
       /\ \A x \in new : /\ x.request = r /\ ~IsDraft(p)
                         /\ x.key = <<r, p.draft.version>>
                         /\ \A y \in rounds \cup new : y.key = x.key => y = x
  BY <1>1, <1>6, <1>10, <1>12, <1>17
<1> QED
  BY <1>3, <1>5, <1>11, <1>12, <1>13, <1>14, <1>16, <1>18, FinishKept

\* Sourcing that stops before its round, or that loses the answer, gives the
\* request back.
LEMMA StoppedKept ==
  ASSUME AgentInv, OutOfSteps \/ ToolFails \/ RoundRefused \/ AnswerLost
  PROVE  AgentInv'
<1>1. Sourcing_
  BY DEF OutOfSteps, ToolFails, RoundRefused, AnswerLost, Executes, Creates
<1>2. PICK reason, run : /\ Finish(op.request, GiveBack(op.work, reason), run, "BLOCKED")
                         /\ Record(op.request, "SOURCING", "READY")
  BY DEF OutOfSteps, ToolFails, RoundRefused, AnswerLost
<1>3. CASE rounds' = rounds
  <2>1. PICK new : new = {}
    OBVIOUS
  <2>2. rounds' = rounds \cup new
    BY <1>3, <2>1
  <2> QED
    BY <1>1, <1>2, <2>1, <2>2, GiveBackKept
<1>4. CASE \E round \in RoundFor : rounds' = rounds \cup {round}
  <2>1. PICK round \in RoundFor : rounds' = rounds \cup {round}
    BY <1>4
  <2>2. /\ round.request = op.request
        /\ round.key = <<op.request, op.work.draft.version>>
        /\ \A y \in rounds \cup {round} : y.key = round.key => y = round
    BY <1>1, RoundForStep
  <2>3. PICK new : new = {round}
    OBVIOUS
  <2>4. /\ rounds' = rounds \cup new
        /\ \A x \in new : /\ x.request = op.request
                          /\ x.key = <<op.request, op.work.draft.version>>
                          /\ \A y \in rounds \cup new : y.key = x.key => y = x
    BY <2>1, <2>2, <2>3
  <2> QED
    BY <1>1, <1>2, <2>4, GiveBackKept
<1> QED
  BY <1>3, <1>4 DEF OutOfSteps, ToolFails, RoundRefused, AnswerLost

-----------------------------------------------------------------------------
(* The invariant *)

\* Nothing has been asked for.
LEMMA InitAgent == ASSUME Init PROVE AgentInv
<1>1. Created = {}
  BY DEF Init, Created
<1>2. op = Idle /\ rounds = {} /\ brokenTrail = {}
  BY DEF Init
<1>3. TypeOK
  BY <1>1, <1>2 DEF Init, TypeOK
<1> QED
  BY <1>1, <1>2, <1>3 DEF AgentInv, WorkIsTheProcess, RoundsAreOfPlans, TrailTellsTheStatus

\* AgentInv is inductive.
LEMMA NextAgent == AgentInv /\ [Next]_vars => AgentInv'
<1> SUFFICES ASSUME AgentInv, [Next]_vars PROVE AgentInv'
  OBVIOUS
<1>1. CASE MessageNext
  BY <1>1, MessageKept
<1>2. CASE SourcingNext
  BY <1>2, ConfirmPlanKept, ConfirmationDeniedKept, SearchKept, EvaluateNextKept, SelectKept,
     CreateRoundKept, StoppedKept DEF SourcingNext
<1>3. ASSUME UNCHANGED <<processes, creations, rounds, op, trail, brokenTrail>>
      PROVE  AgentInv'
  <2>1. Created' = Created
    BY <1>3 DEF Created
  <2>2. TypeOK'
    BY <1>3, <2>1 DEF AgentInv, TypeOK, IsOperation
  <2>3. WorkIsTheProcess'
    BY <1>3 DEF AgentInv, WorkIsTheProcess, IsDraft, SourcesFor
  <2>4. RoundsAreOfPlans'
    BY <1>3, <2>1 DEF AgentInv, RoundsAreOfPlans, IsDraft
  <2>5. (\A r \in Created : ShowsRound(r, processes[r]) /\ EvidenceBacks(processes[r]))'
    BY <1>3, <2>1 DEF AgentInv, ShowsRound, RoundsOf, EvidenceBacks
  <2>6. TrailTellsTheStatus'
    BY <1>3, <2>1 DEF AgentInv, TrailTellsTheStatus, CurrentStatus
  <2> QED
    BY <2>2, <2>3, <2>4, <2>5, <2>6 DEF AgentInv
<1>4. CASE Tick \/ \E s \in Supplier, p \in Profile : Move(s, p)
  BY <1>3, <1>4 DEF Tick, Move
<1>5. CASE UNCHANGED vars
  BY <1>3, <1>5 DEF vars
<1> QED
  BY <1>1, <1>2, <1>4, <1>5 DEF Next

\* So AgentInv holds in every reachable state.
LEMMA AgentInvariant == Spec => []AgentInv
  BY InitAgent, NextAgent, PTL DEF Spec

-----------------------------------------------------------------------------
(* The theorems *)

\* However often the buyer confirms, whatever fails and whatever answers are
\* lost, a request has at most one round, and shows that very round.
THEOREM OneRoundIsShown == Spec => []ShownRoundIsTheRound
<1>1. ASSUME AgentInv PROVE ShownRoundIsTheRound
  <2>1. ASSUME NEW r \in Created, NEW x \in RoundsOf(r), NEW y \in RoundsOf(r)
        PROVE  x = y
    BY <1>1, <2>1 DEF AgentInv, RoundsAreOfPlans, RoundsOf
  <2>2. ASSUME NEW r \in Created PROVE Cardinality(RoundsOf(r)) <= 1
    <3>1. CASE RoundsOf(r) = {}
      BY <3>1, FS_EmptySet
    <3>2. CASE \E x : x \in RoundsOf(r)
      <4>1. PICK x : x \in RoundsOf(r)
        BY <3>2
      <4>2. RoundsOf(r) = {x}
        BY <2>1, <4>1
      <4>3. Cardinality({x}) = 1
        BY FS_Singleton
      <4> QED
        BY <4>2, <4>3
    <3> QED
      BY <3>1, <3>2
  <2> QED
    BY <1>1, <2>2 DEF AgentInv, ShownRoundIsTheRound
<1> QED
  BY <1>1, AgentInvariant, PTL

\* The audit trail of a request tells its status at every moment at which no
\* operation is under way, and never contradicts itself.
THEOREM TrailMatchesStatus == Spec => []AuditTrailMatchesStatus
<1>1. ASSUME AgentInv PROVE AuditTrailMatchesStatus
  BY <1>1 DEF AgentInv, TrailTellsTheStatus, CurrentStatus, AuditTrailMatchesStatus
<1> QED
  BY <1>1, AgentInvariant, PTL

\* Whatever a language model claims, every supplied fact is backed by a message
\* of the buyer that supports its very value.
THEOREM FactsAreBacked == Spec => []EvidenceBacksFacts
<1>1. ASSUME AgentInv PROVE EvidenceBacksFacts
  BY <1>1 DEF AgentInv, EvidenceBacksFacts
<1> QED
  BY <1>1, AgentInvariant, PTL

\* An operation that ends with the draft it found leaves every draft alone.
LEMMA DraftsStand ==
  ASSUME AgentInv, NEW r \in Created, NEW p, NEW run, NEW status, Finish(r, p, run, status),
         p.draft = processes[r].draft, NEW s \in Created
  PROVE  processes'[s].draft = processes[s].draft
BY DEF Finish, AgentInv, TypeOK, Created

\* Only a message that is interpreted changes a draft that is there.
LEMMA DraftsChangeByMessages ==
  ASSUME AgentInv, [Next]_vars, ~InterpretMessage, NEW s \in Created
  PROVE  processes'[s].draft = processes[s].draft
<1>1. ASSUME NEW k \in CreationKey, NEW msg \in Message, NEW r \in RequestId,
             CreateRequest(k, msg, r)
      PROVE  processes'[s] = processes[s]
  BY <1>1 DEF CreateRequest, IsNextRequest, AgentInv, TypeOK, Created
<1>2. CASE InterpretationFails
  <2>1. PICK p : p = [op.work EXCEPT !.stop = "ACTION_BLOCKED"]
    OBVIOUS
  <2>2. /\ op.request \in Created /\ op.work = processes[op.request] /\ IsProcess(op.work)
    BY <1>2, InterpretedWork DEF InterpretationFails
  <2>3. p.draft = processes[op.request].draft
    BY <2>1, <2>2 DEF IsProcess
  <2> QED
    BY <1>2, <2>1, <2>2, <2>3, DraftsStand DEF InterpretationFails
<1>3. ASSUME NEW r \in RequestId, ConfirmationDenied(r)
      PROVE  processes'[s].draft = processes[s].draft
  <2>1. PICK p : p = [processes[r] EXCEPT !.stop = "ACTION_BLOCKED"]
    OBVIOUS
  <2>2. r \in Created /\ IsProcess(processes[r])
    BY <1>3 DEF ConfirmationDenied, CanConfirm, Created, AgentInv, TypeOK
  <2>3. p.draft = processes[r].draft
    BY <2>1, <2>2 DEF IsProcess
  <2> QED
    BY <1>3, <2>1, <2>2, <2>3, DraftsStand DEF ConfirmationDenied
<1>4. ASSUME Sourcing_, NEW p, p.draft = op.work.draft, NEW run, NEW status,
             Finish(op.request, p, run, status)
      PROVE  processes'[s].draft = processes[s].draft
  <2>1. op.request \in Created /\ op.work.draft = processes[op.request].draft
    BY <1>4, SourcedWork
  <2> QED
    BY <1>4, <2>1, DraftsStand
<1>5. CASE OutOfSteps \/ ToolFails \/ RoundRefused \/ AnswerLost
  <2>1. Sourcing_
    BY <1>5 DEF OutOfSteps, ToolFails, RoundRefused, AnswerLost, Executes, Creates
  <2>2. PICK reason, run : Finish(op.request, GiveBack(op.work, reason), run, "BLOCKED")
    BY <1>5 DEF OutOfSteps, ToolFails, RoundRefused, AnswerLost
  <2>3. PICK p : p = GiveBack(op.work, reason)
    OBVIOUS
  <2>4. IsProcess(op.work)
    BY <2>1, SourcedWork
  <2>5. p.draft = op.work.draft
    BY <2>3, <2>4 DEF GiveBack, IsProcess
  <2> QED
    BY <1>4, <2>1, <2>2, <2>3, <2>5
<1>6. CASE CreateRound
  <2>1. PICK key, p : /\ p = [op.work EXCEPT !.round = key,
                                             !.stop = "AWAITING_EXTERNAL_RESPONSE"]
                      /\ Finish(op.request, p, Spent(op.request), "PAUSED")
    BY <1>6 DEF CreateRound
  <2>2. Sourcing_
    BY <1>6 DEF CreateRound, Creates, Executes
  <2>3. IsProcess(op.work)
    BY <2>2, SourcedWork
  <2>4. p.draft = op.work.draft
    BY <2>1, <2>3 DEF IsProcess
  <2> QED
    BY <1>4, <2>1, <2>2, <2>4
<1>7. CASE Select
  <2>1. Sourcing_
    BY <1>7 DEF Select, Executes
  <2>2. IsProcess(op.work)
    BY <2>1, SourcedWork
  <2>3. PICK chosen : chosen = SelectRecipients(op.results, op.work.target)
    OBVIOUS
  <2>4. PICK n : n = [[op.work EXCEPT !.selected = chosen]
                        EXCEPT !.status = "NO_ELIGIBLE_SUPPLIERS",
                               !.stop = "NO_ELIGIBLE_SUPPLIERS"]
    OBVIOUS
  <2>5. n.draft = op.work.draft
    BY <2>2, <2>4 DEF IsProcess
  <2>6. UNCHANGED processes \/ Finish(op.request, n, Spent(op.request), "PAUSED")
    BY <1>7, <2>3, <2>4 DEF Select, Proceed
  <2> QED
    BY <1>4, <2>1, <2>5, <2>6
<1>8. CASE UNCHANGED processes
  BY <1>8
<1>9. CASE MessageNext
  BY <1>1, <1>2, <1>9 DEF MessageNext, RetryCreation, ContinueRequest
<1>10. CASE SourcingNext
  BY <1>3, <1>5, <1>6, <1>7, <1>8, <1>10
  DEF SourcingNext, ConfirmPlan, Search, EvaluateNext, Proceed
<1> QED
  BY <1>8, <1>9, <1>10 DEF Next, Tick, Move, vars

\* A message changes a fact that was supplied only when the process asked about
\* that value and the message confirms it.
LEMMA MessageChangesConfirmed ==
  ASSUME AgentInv, InterpretMessage, NEW s \in Created,
         NEW f \in processes[s].draft.explicit,
         processes'[s].draft.facts[f] # processes[s].draft.facts[f]
  PROVE  /\ IsDraft(processes[s])
         /\ f \in DOMAIN processes[s].asked
         /\ processes[s].asked[f] = processes'[s].draft.facts[f]
         /\ processes[s].asked[f] \in op.message.confirms
<1>1. PICK r \in Created : r = op.request
  BY InterpretedWork DEF InterpretMessage
<1>2. PICK w : w = op.work
  OBVIOUS
<1>3. PICK msg \in Message : msg = op.message
  BY InterpretedWork DEF InterpretMessage
<1>4. /\ w = processes[r] /\ IsProcess(w) /\ IsDraft(w) /\ EvidenceBacks(w)
      /\ w.round = None
  BY <1>1, <1>2, InterpretedWork DEF InterpretMessage
<1>5. PICK heard \in Readings(msg) :
        Finish(r, Assessed(Understood(w, msg, heard)), Spent(r), "PAUSED")
  BY <1>1, <1>2, <1>3 DEF InterpretMessage
<1>6. PICK q : q = Understood(w, msg, heard)
  OBVIOUS
<1>7. PICK p : p = Assessed(q)
  OBVIOUS
<1>8. processes' = [processes EXCEPT ![r] = p]
  BY <1>5, <1>6, <1>7 DEF Finish
<1>9. s = r /\ processes'[r] = p
  BY <1>8 DEF AgentInv, TypeOK, Created
<1>10. IsProcess(w) /\ EvidenceBacks(w)
  BY <1>4
<1>11. /\ Revised(w, q) /\ q.draft \in Draft
       /\ \A g \in q.draft.explicit : q.draft.facts[g] # None
       /\ EvidenceBacks(q)
       /\ \A g \in w.draft.explicit :
            q.draft.facts[g] # w.draft.facts[g] =>
              /\ g \in DOMAIN w.asked
              /\ w.asked[g] = q.draft.facts[g]
              /\ w.asked[g] \in msg.confirms
  BY <1>6, <1>10, UnderstoodProcess
<1>12. p.draft = q.draft
  BY <1>4, <1>7, <1>11, AssessedProcess
<1> QED
  BY <1>3, <1>4, <1>9, <1>11, <1>12

\* What the buyer supplied changes only with his confirmation, and never after a
\* plan was offered.
THEOREM SuppliedFactsStand == Spec => FactsChangeOnlyWhenConfirmed
<1>1. ASSUME AgentInv, [Next]_vars, NEW r \in Created, NEW f \in processes[r].draft.explicit,
             processes'[r].draft.facts[f] # processes[r].draft.facts[f]
      PROVE  /\ IsDraft(processes[r])
             /\ f \in DOMAIN processes[r].asked
             /\ processes[r].asked[f] = processes'[r].draft.facts[f]
             /\ processes[r].asked[f] \in op.message.confirms
  BY <1>1, DraftsChangeByMessages, MessageChangesConfirmed
<1>2. AgentInv /\ [Next]_vars =>
        [\A r \in Created : \A f \in processes[r].draft.explicit :
           processes'[r].draft.facts[f] # processes[r].draft.facts[f] =>
             /\ IsDraft(processes[r])
             /\ f \in DOMAIN processes[r].asked
             /\ processes[r].asked[f] = processes'[r].draft.facts[f]
             /\ processes[r].asked[f] \in op.message.confirms]_vars
  BY <1>1
<1> QED
  BY <1>2, AgentInvariant, PTL DEF Spec, FactsChangeOnlyWhenConfirmed
====
