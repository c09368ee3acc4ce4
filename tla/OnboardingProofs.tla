-------------------------- MODULE OnboardingProofs --------------------------
(***************************************************************************)
(* Theorems about the onboarding of suppliers: the review of a profile, the *)
(* extraction of what suppliers upload and the search of their directory,   *)
(* for any number of fields, links, documents and concurrent requests, any  *)
(* answers of the extraction's provider, any profiles and searches.         *)
(***************************************************************************)
EXTENDS SupplierReview, MaterialExtraction, SupplierSearch, FiniteSetTheorems, TLAPS

-----------------------------------------------------------------------------
(* The review of a profile: SupplierReview *)

\* The fields a submission confirms are reviewed fields.
LEMMA ConfirmedFields == Confirmed \subseteq Field
BY DEF Confirmed

\* Whatever a request goes on to await is something a request can await.
LEMMA AwaitingForms ==
  ASSUME NEW l \in Link
  PROVE  /\ \A at \in {"decided", "blocked", "submitted", "projected"} :
              [at |-> at, link |-> l] \in Awaiting
         /\ \A s \in SUBSET Field : [at |-> "activating", link |-> l, confirmed |-> s] \in Awaiting
         /\ \A n \in Nat : [at |-> "answered", link |-> l, version |-> n] \in Awaiting
BY DEF Awaiting

\* A request that awaits something came by a link.
LEMMA RequestsHaveLinks ==
  ASSUME ReviewTypeOK, NEW c \in Call, call[c].at # "idle"
  PROVE  call[c].link \in Link
<1>1. call[c] \in Awaiting \cup {Idle} /\ call[c] # Idle
  BY DEF ReviewTypeOK, Idle
<1> QED
  BY <1>1 DEF Awaiting

\* Nobody joins those who are submitting, and they keep their links.
LEMMA NobodySubmits ==
  ASSUME NEW c \in Call, NEW x, ReviewTypeOK, SubmissionsHoldLinks,
         call' = [call EXCEPT ![c] = x],
         x.at \notin {"submitted", "activating"},
         consumed' = consumed, core' = core
  PROVE  SubmissionsHoldLinks'
<1>1. /\ call'[c] = x
      /\ \A b \in Call : b # c => call'[b] = call[b]
  BY DEF ReviewTypeOK
<1>2. \A b \in Submitting' : b \in Submitting /\ call'[b] = call[b]
  BY <1>1 DEF Submitting
<1> QED
  BY <1>2 DEF SubmissionsHoldLinks

\* A fresh session, with no link spent.
LEMMA InitReview == ReviewInit => ReviewInv
<1> SUFFICES ASSUME ReviewInit PROVE ReviewInv
  OBVIOUS
<1>1. ReviewTypeOK
  BY FS_EmptySet DEF ReviewInit, ReviewTypeOK
<1>2. Submitting = {}
  BY DEF ReviewInit, Submitting, Idle
<1>3. ActivationsAreCounted
  BY FS_EmptySet DEF ReviewInit, ActivationsAreCounted
<1> QED
  BY <1>1, <1>2, <1>3 DEF ReviewInv, SubmissionsHoldLinks

\* ReviewInv is inductive.
LEMMA NextReview == ReviewInv /\ [ReviewNext]_reviewVars => ReviewInv'
<1> SUFFICES ASSUME ReviewInv, [ReviewNext]_reviewVars PROVE ReviewInv'
  OBVIOUS
<1>0. ReviewTypeOK /\ SubmissionsHoldLinks /\ ActivationsAreCounted
  BY DEF ReviewInv
<1>1. ASSUME NEW c \in Call, NEW l \in Link, NEW f \in Field, NEW d \in FieldDecision,
             Decide(c, l, f, d)
      PROVE  ReviewInv'
  <2> DEFINE x == [at |-> "decided", link |-> l]
  <2>1. x \in Awaiting /\ x.at = "decided"
    BY AwaitingForms
  <2>2. call' = [call EXCEPT ![c] = x] /\ consumed' = consumed /\ core' = core
    BY <1>1 DEF Decide
  <2> HIDE DEF x
  <2>3. history' \in [Field -> Seq(FieldDecision)]
    BY <1>0, <1>1 DEF Decide, ReviewTypeOK
  <2>4. ReviewTypeOK'
    BY <1>0, <1>1, <2>1, <2>2, <2>3 DEF Decide, ReviewTypeOK
  <2>5. SubmissionsHoldLinks'
    BY <1>0, <2>1, <2>2, NobodySubmits
  <2> QED
    BY <1>0, <2>2, <2>4, <2>5 DEF ReviewInv, ActivationsAreCounted
<1>2. ASSUME NEW c \in Call, NEW l \in Link, SubmitIncomplete(c, l)
      PROVE  ReviewInv'
  <2> DEFINE x == [at |-> "blocked", link |-> l]
  <2>1. x \in Awaiting /\ x.at = "blocked"
    BY AwaitingForms
  <2>2. /\ call' = [call EXCEPT ![c] = x]
        /\ UNCHANGED <<history, projected_status, aggregate_version, consumed, expired, core>>
    BY <1>2 DEF SubmitIncomplete
  <2> HIDE DEF x
  <2>3. ReviewTypeOK'
    BY <1>0, <2>1, <2>2 DEF ReviewTypeOK
  <2>4. SubmissionsHoldLinks'
    BY <1>0, <2>1, <2>2, NobodySubmits
  <2> QED
    BY <1>0, <2>2, <2>3, <2>4 DEF ReviewInv, ActivationsAreCounted
<1>3. ASSUME NEW c \in Call, NEW l \in Link, Submit(c, l)
      PROVE  ReviewInv'
  <2> DEFINE x == [at |-> "submitted", link |-> l]
  <2>1. x \in Awaiting /\ x.at = "submitted" /\ x.link = l
    BY AwaitingForms
  <2>2. /\ call' = [call EXCEPT ![c] = x] /\ consumed' = consumed \cup {l}
        /\ projected_status' = "CONFIRMED" /\ l \notin consumed
        /\ UNCHANGED <<history, aggregate_version, expired, core>>
    BY <1>3 DEF Submit, MayConsume
  <2> HIDE DEF x
  <2>3. IsFiniteSet(consumed')
    BY <1>0, <2>2, FS_AddElement DEF ReviewTypeOK
  <2>4. ReviewTypeOK'
    BY <1>0, <2>1, <2>2, <2>3 DEF ReviewTypeOK
  <2>5. /\ call'[c] = x
        /\ \A b \in Call : b # c => call'[b] = call[b]
    BY <1>0, <2>2 DEF ReviewTypeOK
  <2>6. \A b \in Submitting' : b = c \/ (b # c /\ b \in Submitting /\ call'[b] = call[b])
    BY <2>5 DEF Submitting
  <2>7. \A b \in Submitting : call[b].link # l
    BY <1>0, <2>2 DEF SubmissionsHoldLinks
  <2>8. l \notin core.activated
    BY <1>0, <2>2 DEF ActivationsAreCounted
  <2>9. SubmissionsHoldLinks'
    BY <1>0, <2>1, <2>2, <2>5, <2>6, <2>7, <2>8 DEF SubmissionsHoldLinks
  <2> QED
    BY <1>0, <2>2, <2>4, <2>9 DEF ReviewInv, ActivationsAreCounted
<1>4. ASSUME NEW c \in Call, Audited(c)
      PROVE  ReviewInv'
  <2>1. /\ call[c].at \in {"decided", "blocked", "submitted", "projected"}
        /\ call[c].link \in Link
        /\ UNCHANGED <<history, projected_status, aggregate_version, consumed, expired, core>>
    BY <1>0, <1>4, RequestsHaveLinks DEF Audited
  <2>2. CASE call[c].at = "submitted"
    <3> DEFINE x == [at |-> "activating", link |-> call[c].link, confirmed |-> Confirmed]
    <3>1. x \in Awaiting /\ x.at = "activating" /\ x.link = call[c].link
      BY <2>1, AwaitingForms, ConfirmedFields
    <3>2. call' = [call EXCEPT ![c] = x]
      BY <1>4, <2>2 DEF Audited
    <3> HIDE DEF x
    <3>3. /\ call'[c] = x
          /\ \A b \in Call : b # c => call'[b] = call[b]
      BY <1>0, <3>2 DEF ReviewTypeOK
    <3>4. ReviewTypeOK'
      BY <1>0, <2>1, <3>1, <3>2 DEF ReviewTypeOK
    <3>5. Submitting' = Submitting /\ \A b \in Call : call'[b].link = call[b].link
      BY <2>2, <3>1, <3>3 DEF Submitting
    <3>6. \A b \in Submitting : b \in Call
      BY DEF Submitting
    <3>7. SubmissionsHoldLinks'
      BY <1>0, <2>1, <3>5, <3>6 DEF SubmissionsHoldLinks
    <3> QED
      BY <1>0, <2>1, <3>4, <3>7 DEF ReviewInv, ActivationsAreCounted
  <2>3. CASE call[c].at # "submitted"
    <3>1. call' = [call EXCEPT ![c] = Idle]
      BY <1>4, <2>3 DEF Audited
    <3>2. ReviewTypeOK'
      BY <1>0, <2>1, <3>1 DEF ReviewTypeOK
    <3>3. SubmissionsHoldLinks'
      BY <1>0, <2>1, <3>1, NobodySubmits DEF Idle
    <3> QED
      BY <1>0, <2>1, <3>2, <3>3 DEF ReviewInv, ActivationsAreCounted
  <2> QED
    BY <2>2, <2>3
<1>5. ASSUME NEW c \in Call, AuditFails(c)
      PROVE  ReviewInv'
  <2>1. /\ call' = [call EXCEPT ![c] = Idle]
        /\ UNCHANGED <<history, projected_status, aggregate_version, consumed, expired, core>>
    BY <1>5 DEF AuditFails
  <2>2. ReviewTypeOK'
    BY <1>0, <2>1 DEF ReviewTypeOK
  <2>3. SubmissionsHoldLinks'
    BY <1>0, <2>1, NobodySubmits DEF Idle
  <2> QED
    BY <1>0, <2>1, <2>2, <2>3 DEF ReviewInv, ActivationsAreCounted
<1>6. ASSUME NEW c \in Call, CoreActivates(c)
      PROVE  ReviewInv'
  <2> DEFINE l == call[c].link
             n == core.version + 1
             x == [at |-> "answered", link |-> l, version |-> n]
             active == core.activated \cup {l}
  <2>1. /\ c \in Submitting /\ l \in Link
        /\ core.activated \subseteq Link /\ n \in Nat
    BY <1>0, <1>6, RequestsHaveLinks DEF CoreActivates, Submitting, ReviewTypeOK
  <2>2. l \in consumed /\ l \notin core.activated
    BY <1>0, <2>1 DEF SubmissionsHoldLinks
  <2>3. x \in Awaiting /\ x.at = "answered"
    BY <2>1, AwaitingForms
  <2>4. /\ core' = [activated |-> active, version |-> n]
        /\ call' = [call EXCEPT ![c] = x]
        /\ UNCHANGED <<history, projected_status, aggregate_version, consumed, expired>>
    BY <1>6 DEF CoreActivates
  <2>5. Cardinality(active) = n /\ active \subseteq consumed
    <3>1. IsFiniteSet(core.activated) /\ core.activated \subseteq consumed
      BY <1>0, FS_Subset DEF ActivationsAreCounted, ReviewTypeOK
    <3> QED
      BY <1>0, <2>2, <3>1, FS_AddElement DEF ActivationsAreCounted
  <2>6. active \subseteq Link
    BY <2>1
  <2> HIDE DEF x, n, active
  <2>7. ReviewTypeOK'
    BY <1>0, <2>1, <2>3, <2>4, <2>6 DEF ReviewTypeOK
  <2>8. ActivationsAreCounted'
    BY <2>4, <2>5 DEF ActivationsAreCounted
  <2>9. /\ call'[c] = x
        /\ \A b \in Call : b # c => call'[b] = call[b]
    BY <1>0, <2>4 DEF ReviewTypeOK
  <2>10. \A b \in Submitting' : b \in Submitting /\ b # c /\ call'[b] = call[b]
    BY <2>3, <2>9 DEF Submitting
  <2>11. \A b \in Submitting' : call[b].link # l
    BY <1>0, <2>1, <2>10 DEF SubmissionsHoldLinks
  <2>12. core'.activated = core.activated \cup {l}
    BY <2>4 DEF active
  <2>13. SubmissionsHoldLinks'
    BY <1>0, <2>4, <2>10, <2>11, <2>12 DEF SubmissionsHoldLinks
  <2> QED
    BY <2>7, <2>8, <2>13 DEF ReviewInv
<1>7. ASSUME NEW c \in Call, ActivationFails(c)
      PROVE  ReviewInv'
  <2> DEFINE x == [at |-> "blocked", link |-> call[c].link]
  <2>1. x \in Awaiting /\ x.at = "blocked"
    BY <1>0, <1>7, RequestsHaveLinks, AwaitingForms DEF ActivationFails
  <2>2. /\ call' = [call EXCEPT ![c] = x]
        /\ UNCHANGED <<history, projected_status, aggregate_version, consumed, expired, core>>
    BY <1>7 DEF ActivationFails, Spent
  <2> HIDE DEF x
  <2>3. ReviewTypeOK'
    BY <1>0, <2>1, <2>2 DEF ReviewTypeOK
  <2>4. SubmissionsHoldLinks'
    BY <1>0, <2>1, <2>2, NobodySubmits
  <2> QED
    BY <1>0, <2>2, <2>3, <2>4 DEF ReviewInv, ActivationsAreCounted
<1>8. ASSUME NEW c \in Call, Project(c)
      PROVE  ReviewInv'
  <2> DEFINE x == [at |-> "projected", link |-> call[c].link]
  <2>1. x \in Awaiting /\ x.at = "projected"
    BY <1>0, <1>8, RequestsHaveLinks, AwaitingForms DEF Project
  <2>2. /\ call' = [call EXCEPT ![c] = x]
        /\ projected_status' = "ACTIVE" /\ aggregate_version' = call[c].version
        /\ UNCHANGED <<history, consumed, expired, core>>
    BY <1>8 DEF Project
  <2> HIDE DEF x
  <2>3. call[c].version \in Nat
    BY <1>0, <1>8 DEF Project, ReviewTypeOK, Awaiting, Idle
  <2>4. ReviewTypeOK'
    BY <1>0, <2>1, <2>2, <2>3 DEF ReviewTypeOK
  <2>5. SubmissionsHoldLinks'
    BY <1>0, <2>1, <2>2, NobodySubmits
  <2> QED
    BY <1>0, <2>2, <2>4, <2>5 DEF ReviewInv, ActivationsAreCounted
<1>9. ASSUME NEW l \in Link, Expire(l)
      PROVE  ReviewInv'
  <2>1. ReviewTypeOK'
    BY <1>0, <1>9 DEF Expire, ReviewTypeOK
  <2> QED
    BY <1>0, <1>9, <2>1 DEF Expire, ReviewInv, SubmissionsHoldLinks, Submitting,
                            ActivationsAreCounted
<1>10. CASE UNCHANGED reviewVars
  BY <1>10 DEF reviewVars, ReviewInv, ReviewTypeOK, SubmissionsHoldLinks, Submitting, ActivationsAreCounted
<1> QED
  BY <1>1, <1>2, <1>3, <1>4, <1>5, <1>6, <1>7, <1>8, <1>9, <1>10 DEF ReviewNext

LEMMA ReviewInvariant == ReviewSpec => []ReviewInv
BY InitReview, NextReview, PTL DEF ReviewSpec

\* A spent link activates the supplier once at the most, whatever number of
\* requests race with it and whatever fails on the way.
THEOREM LinksActivateOnce == ReviewSpec => []OneActivationPerLink
<1>1. ReviewInv => OneActivationPerLink
  <2> SUFFICES ASSUME ReviewInv PROVE OneActivationPerLink
    OBVIOUS
  <2>1. IsFiniteSet(consumed) /\ core.activated \subseteq consumed
        /\ core.version = Cardinality(core.activated)
    BY DEF ReviewInv, ReviewTypeOK, ActivationsAreCounted
  <2> QED
    BY <2>1, FS_Subset DEF OneActivationPerLink
<1> QED
  BY <1>1, ReviewInvariant, PTL

\* A confirmed review whose activation has failed, with every link spent or
\* expired, is beyond the reach of every request.
THEOREM StrandedReviewsStay == ReviewSpec => StrandedForGood
<1>1. ReviewInv /\ [ReviewNext]_reviewVars => [Stranded => Stranded']_reviewVars
  <2> SUFFICES ASSUME ReviewInv, [ReviewNext]_reviewVars, Stranded PROVE Stranded'
    OBVIOUS
  <2>0. /\ projected_status = "CONFIRMED"
        /\ Link \subseteq consumed \cup expired
        /\ \A c \in Call : call[c].at \in {"idle", "decided", "blocked"}
        /\ DOMAIN call = Call
    BY DEF Stranded, ReviewInv, ReviewTypeOK
  <2>1. ASSUME NEW c \in Call, NEW x, call' = [call EXCEPT ![c] = x],
               x.at \in {"idle", "decided", "blocked"},
               UNCHANGED <<projected_status, consumed, expired>>
        PROVE  Stranded'
    <3>1. call'[c] = x /\ \A b \in Call : b # c => call'[b] = call[b]
      BY <2>0, <2>1
    <3> QED
      BY <2>0, <2>1, <3>1 DEF Stranded
  <2>2. ASSUME NEW c \in Call, NEW l \in Link,
               \/ \E f \in Field, d \in FieldDecision : Decide(c, l, f, d)
               \/ SubmitIncomplete(c, l)
        PROVE  Stranded'
    <3> DEFINE decided == [at |-> "decided", link |-> l]
               blocked == [at |-> "blocked", link |-> l]
    <3>1. decided.at = "decided" /\ blocked.at = "blocked"
      OBVIOUS
    <3>2. /\ call' = [call EXCEPT ![c] = decided] \/ call' = [call EXCEPT ![c] = blocked]
          /\ UNCHANGED <<projected_status, consumed, expired>>
      BY <2>2 DEF Decide, SubmitIncomplete
    <3> HIDE DEF decided, blocked
    <3> QED
      BY <2>1, <3>1, <3>2
  <2>3. ASSUME NEW c \in Call, NEW l \in Link, Submit(c, l)
        PROVE  FALSE
    BY <2>0, <2>3 DEF Submit, MayConsume
  <2>4. ASSUME NEW c \in Call, Audited(c) \/ AuditFails(c)
        PROVE  Stranded'
    <3>1. /\ call' = [call EXCEPT ![c] = Idle]
          /\ UNCHANGED <<projected_status, consumed, expired>>
      BY <2>0, <2>4 DEF Audited, AuditFails
    <3> QED
      BY <2>1, <3>1 DEF Idle
  <2>5. ASSUME NEW c \in Call, CoreActivates(c) \/ ActivationFails(c) \/ Project(c)
        PROVE  FALSE
    <3>1. call[c].at \in {"activating", "answered"}
      BY <2>5 DEF CoreActivates, ActivationFails, Project
    <3> QED
      BY <2>0, <3>1
  <2>6. ASSUME NEW l \in Link, Expire(l) PROVE Stranded'
    BY <2>0, <2>6 DEF Expire, Stranded
  <2>7. CASE UNCHANGED reviewVars
    BY <2>7 DEF reviewVars, Stranded
  <2> QED
    BY <2>2, <2>3, <2>4, <2>5, <2>6, <2>7 DEF ReviewNext
<1> QED
  BY <1>1, ReviewInvariant, PTL DEF ReviewSpec, StrandedForGood

-----------------------------------------------------------------------------
(* The extraction of uploaded materials: MaterialExtraction *)

\* Nothing uploaded, nothing extracted.
LEMMA InitExtraction == Init => ExtractionInv
<1> SUFFICES ASSUME Init PROVE ExtractionInv
  OBVIOUS
<1>1. ExtractionTypeOK
  BY DEF Init, ExtractionTypeOK, NoUpload, NoRun, DocumentWithRun, Free
<1>2. DocumentsAreUploads
  BY DEF Init, DocumentsAreUploads, NoUpload
<1>3. WorkersFollowTheirDocuments /\ RunsHoldFindings
  BY DEF Init, WorkersFollowTheirDocuments, RunsHoldFindings, NoRun
<1> QED
  BY <1>1, <1>2, <1>3 DEF ExtractionInv

\* Where a request that extracts may be, and what it goes on to.
LEMMA WorkForms ==
  ASSUME ExtractionTypeOK, NEW w \in Worker, work[w] # Free
  PROVE  /\ work[w].doc \in Document /\ work[w].at \in Place
         /\ \A at \in Place :
              LET next == [work[w] EXCEPT !.at = at] IN
              /\ next \in Working
              /\ next.at = at /\ next.doc = work[w].doc
<1>1. work[w] \in Working
  BY DEF ExtractionTypeOK
<1> QED
  BY <1>1 DEF Working

\* A place where requests may be is not where the idle ones are.
LEMMA PlacesAreNotFree ==
  /\ "free" \notin Place
  /\ Place = {"claimed", "started", "announcing", "extracting", "extracted", "completed",
              "marked", "reviewable", "failing", "failed", "reporting"}
<1>1. Place = {"claimed", "started", "announcing", "extracting", "extracted", "completed",
               "marked", "reviewable", "failing", "failed", "reporting"}
  BY DEF Place, Stage
<1> QED
  BY <1>1

\* Request w goes on to x, and its document to status s and run r, as the stages
\* allow: the invariant survives, whatever the other requests do.
LEMMA WorkerMoves ==
  ASSUME ExtractionInv, NEW w \in Worker, work[w] # Free, NEW x, NEW s, NEW r,
         UNCHANGED <<blobs, upload, queue>>,
         work' = [work EXCEPT ![w] = x],
         DOMAIN status' = Document, DOMAIN run' = Document,
         status'[work[w].doc] = s, run'[work[w].doc] = r,
         \A e \in Document \ {work[w].doc} : status'[e] = status[e] /\ run'[e] = run[e],
         <<s, r.status>> \in DocumentWithRun,
         s = status[work[w].doc] \/ s \notin {"NONE", "STORED"},
         s = status[work[w].doc] \/ status[work[w].doc] # "STORED",
         r.status = "COMPLETED" => r.fields \in Findings,
         \/ x = Free
         \/ /\ x \in Working
            /\ x.doc = work[w].doc
            /\ <<x.at, s, r.status>> \in Stage
            /\ x.at = "extracted" => x.fields \in Findings
  PROVE  ExtractionInv'
<1> DEFINE d == work[w].doc
<1>0. /\ ExtractionTypeOK /\ DocumentsAreUploads
      /\ WorkersFollowTheirDocuments /\ RunsHoldFindings
  BY DEF ExtractionInv
<1>1. d \in Document
  BY <1>0, WorkForms
<1>2. /\ d \notin queue
      /\ upload[d].at \in {"enqueued", "done", "cancelled"}
      /\ \A v \in Worker \ {w} : work[v] # Free => work[v].doc # d
      /\ status[d] # "NONE"
  <2>1. <<work[w].at, status[d], run[d].status>> \in Stage
    BY <1>0 DEF WorkersFollowTheirDocuments
  <2>2. status[d] # "NONE"
    BY <2>1 DEF Stage
  <2> QED
    BY <1>0, <2>2 DEF WorkersFollowTheirDocuments
<1>3. /\ work'[w] = x /\ \A v \in Worker \ {w} : work'[v] = work[v]
      /\ DOMAIN work' = Worker
  BY <1>0 DEF ExtractionTypeOK
<1> HIDE DEF d
<1>4. ExtractionTypeOK'
  <2>1. \A e \in Document : <<status'[e], run'[e].status>> \in DocumentWithRun
    BY <1>0, <1>1 DEF ExtractionTypeOK, d
  <2>2. x \in {Free} \cup Working
    OBVIOUS
  <2> QED
    BY <1>0, <2>1, <2>2 DEF ExtractionTypeOK
<1>5. DocumentsAreUploads'
  <2> SUFFICES ASSUME NEW e \in Document
               PROVE  /\ upload[e].at = "stored" => upload[e].blob \in blobs
                      /\ status'[e] = "NONE" => upload[e].at \notin {"recorded", "enqueued", "done"}
                      /\ status'[e] # "NONE" =>
                           upload[e].at \in Documented /\ upload[e].blob \in blobs
                      /\ upload[e].at \in {"recorded", "enqueued"} => status'[e] = "STORED"
                      /\ e \in queue => /\ upload[e].at \in {"enqueued", "done", "cancelled"}
                                        /\ status'[e] \in {"STORED", "EXTRACTION_QUEUED"}
    BY DEF DocumentsAreUploads
  <2>1. CASE e # d
    BY <1>0, <2>1 DEF DocumentsAreUploads, d
  <2>2. CASE e = d
    BY <1>0, <1>1, <1>2, <2>2 DEF DocumentsAreUploads, d
  <2> QED
    BY <2>1, <2>2
<1>6. WorkersFollowTheirDocuments'
  <2> SUFFICES ASSUME NEW v \in Worker, work'[v] # Free
               PROVE  /\ <<work'[v].at, status'[work'[v].doc], run'[work'[v].doc].status>> \in Stage
                      /\ work'[v].doc \notin queue
                      /\ upload[work'[v].doc].at \in {"enqueued", "done", "cancelled"}
                      /\ work'[v].at = "extracted" => work'[v].fields \in Findings
                      /\ \A u \in Worker \ {v} : work'[u] # Free => work'[u].doc # work'[v].doc
    BY DEF WorkersFollowTheirDocuments
  <2>1. CASE v = w
    <3>1. x # Free /\ x.doc = d
      BY <1>3, <2>1 DEF d
    <3> QED
      BY <1>2, <1>3, <2>1, <3>1 DEF d
  <2>2. CASE v # w
    <3>1. work'[v] = work[v] /\ work[v] # Free /\ work[v].doc # d
      BY <1>2, <1>3, <2>2
    <3>2. work[v].doc \in Document
      BY <1>0, <3>1, WorkForms
    <3>3. /\ status'[work[v].doc] = status[work[v].doc]
          /\ run'[work[v].doc] = run[work[v].doc]
      BY <3>1, <3>2 DEF d
    <3>4. \A u \in Worker \ {v} : work'[u] # Free => work'[u].doc # work[v].doc
      <4> SUFFICES ASSUME NEW u \in Worker \ {v}, work'[u] # Free
                   PROVE  work'[u].doc # work[v].doc
        OBVIOUS
      <4>1. CASE u = w
        BY <1>3, <3>1, <4>1 DEF d
      <4>2. CASE u # w
        <5>1. work'[u] = work[u] /\ work[u] # Free
          BY <1>3, <4>2
        <5>2. \A z \in Worker \ {v} : work[z] # Free => work[z].doc # work[v].doc
          BY <1>0, <3>1 DEF WorkersFollowTheirDocuments
        <5> QED
          BY <5>1, <5>2
      <4> QED
        BY <4>1, <4>2
    <3> QED
      BY <1>0, <3>1, <3>3, <3>4 DEF WorkersFollowTheirDocuments
  <2> QED
    BY <2>1, <2>2
<1>7. RunsHoldFindings'
  BY <1>0, <1>1 DEF RunsHoldFindings, d
<1> QED
  BY <1>4, <1>5, <1>6, <1>7 DEF ExtractionInv


\* What is known of a request that takes a step, and of its document.
LEMMA WorkersKnow ==
  ASSUME ExtractionInv, NEW w \in Worker, work[w].at # "free"
  PROVE  /\ work[w] # Free /\ work[w].doc \in Document
         /\ <<work[w].at, status[work[w].doc], run[work[w].doc].status>> \in Stage
         /\ <<status[work[w].doc], run[work[w].doc].status>> \in DocumentWithRun
         /\ work[w].at = "extracted" => work[w].fields \in Findings
         /\ DOMAIN status = Document /\ DOMAIN run = Document
         /\ run[work[w].doc].status = "COMPLETED" => run[work[w].doc].fields \in Findings
<1>1. work[w] # Free
  BY DEF Free
<1>2. work[w].doc \in Document
  BY <1>1, WorkForms DEF ExtractionInv
<1> QED
  BY <1>1, <1>2 DEF ExtractionInv, ExtractionTypeOK, WorkersFollowTheirDocuments, RunsHoldFindings

\* Request w advances, and its document to status s and run r.
LEMMA AdvanceKeeps ==
  ASSUME ExtractionInv, NEW w \in Worker, NEW from, NEW to, NEW s, NEW r,
         Advance(w, from, to), from # "free", to # "extracted",
         UNCHANGED <<blobs, upload, queue>>,
         DOMAIN status' = Document, DOMAIN run' = Document,
         status'[work[w].doc] = s, run'[work[w].doc] = r,
         \A e \in Document \ {work[w].doc} : status'[e] = status[e] /\ run'[e] = run[e],
         <<s, r.status>> \in DocumentWithRun,
         s = status[work[w].doc] \/ s \notin {"NONE", "STORED"},
         s = status[work[w].doc] \/ status[work[w].doc] # "STORED",
         r.status = "COMPLETED" => r.fields \in Findings,
         to = "free" \/ <<to, s, r.status>> \in Stage
  PROVE  ExtractionInv'
<1>1. work[w].at = from /\ from # "free"
  BY DEF Advance
<1>2. work[w] # Free
  BY <1>1 DEF Free
<1>3. CASE to = "free"
  <2>1. work' = [work EXCEPT ![w] = Free]
    BY <1>3 DEF Advance
  <2> QED
    BY <1>2, <2>1, WorkerMoves
<1>4. CASE to # "free"
  <2> DEFINE x == [work[w] EXCEPT !.at = to]
  <2>1. work' = [work EXCEPT ![w] = x]
    BY <1>4 DEF Advance
  <2>4. to \in Place
    BY <1>4 DEF Place
  <2>2. /\ x \in Working
        /\ x.at = to /\ x.doc = work[w].doc
    BY <1>2, <2>4, WorkForms DEF ExtractionInv
  <2> HIDE DEF x
  <2>3. \/ x = Free
        \/ /\ x \in Working
           /\ x.doc = work[w].doc
           /\ <<x.at, s, r.status>> \in Stage
           /\ x.at = "extracted" => x.fields \in Findings
    BY <1>4, <2>2
  <2> QED
    BY <1>2, <2>1, <2>3, WorkerMoves
<1> QED
  BY <1>3, <1>4

\* An advance that leaves the document and its run alone.
LEMMA AdvanceAlone ==
  ASSUME ExtractionInv, NEW w \in Worker, NEW from, NEW to,
         Advance(w, from, to), from # "free", to # "extracted",
         UNCHANGED <<blobs, upload, queue, status, run>>,
         to = "free" \/ <<to, status[work[w].doc], run[work[w].doc].status>> \in Stage
  PROVE  ExtractionInv'
<1>1. work[w].at # "free"
  BY DEF Advance
<1> DEFINE s == status[work[w].doc]
           r == run[work[w].doc]
<1>2. /\ <<s, r.status>> \in DocumentWithRun
      /\ r.status = "COMPLETED" => r.fields \in Findings
      /\ DOMAIN status' = Document /\ DOMAIN run' = Document
      /\ status'[work[w].doc] = s /\ run'[work[w].doc] = r
      /\ to = "free" \/ <<to, s, r.status>> \in Stage
  BY <1>1, WorkersKnow
<1> HIDE DEF s, r
<1> QED
  BY <1>2, AdvanceKeeps DEF s

\* An advance that moves the document to status s.
LEMMA AdvanceMarks ==
  ASSUME ExtractionInv, NEW w \in Worker, NEW from, NEW to, NEW s,
         Advance(w, from, to), from # "free", to # "extracted",
         status' = [status EXCEPT ![work[w].doc] = s],
         UNCHANGED <<blobs, upload, queue, run>>,
         status[work[w].doc] # "STORED", s \notin {"NONE", "STORED"},
         <<s, run[work[w].doc].status>> \in DocumentWithRun,
         <<to, s, run[work[w].doc].status>> \in Stage
  PROVE  ExtractionInv'
<1> DEFINE r == run[work[w].doc]
<1>1. work[w].at # "free"
  BY DEF Advance
<1>2. /\ work[w].doc \in Document
      /\ DOMAIN status = Document /\ DOMAIN run = Document
      /\ r.status = "COMPLETED" => r.fields \in Findings
  BY <1>1, WorkersKnow
<1>3. /\ DOMAIN status' = Document /\ DOMAIN run' = Document
      /\ status'[work[w].doc] = s /\ run'[work[w].doc] = r
      /\ \A e \in Document \ {work[w].doc} : status'[e] = status[e] /\ run'[e] = run[e]
  BY <1>2
<1>4. <<s, r.status>> \in DocumentWithRun /\ <<to, s, r.status>> \in Stage
  OBVIOUS
<1> HIDE DEF r
<1> QED
  BY <1>2, <1>3, <1>4, AdvanceKeeps

\* An advance that moves the run of the document to r.
LEMMA AdvanceRuns ==
  ASSUME ExtractionInv, NEW w \in Worker, NEW from, NEW to, NEW r,
         Advance(w, from, to), from # "free", to # "extracted",
         run' = [run EXCEPT ![work[w].doc] = r],
         UNCHANGED <<blobs, upload, queue, status>>,
         r.status = "COMPLETED" => r.fields \in Findings,
         <<status[work[w].doc], r.status>> \in DocumentWithRun,
         <<to, status[work[w].doc], r.status>> \in Stage
  PROVE  ExtractionInv'
<1> DEFINE s == status[work[w].doc]
<1>1. work[w].at # "free"
  BY DEF Advance
<1>2. /\ work[w].doc \in Document
      /\ DOMAIN status = Document /\ DOMAIN run = Document
  BY <1>1, WorkersKnow
<1>3. /\ DOMAIN status' = Document /\ DOMAIN run' = Document
      /\ status'[work[w].doc] = s /\ run'[work[w].doc] = r
      /\ \A e \in Document \ {work[w].doc} : status'[e] = status[e] /\ run'[e] = run[e]
  BY <1>2
<1>4. <<s, r.status>> \in DocumentWithRun /\ <<to, s, r.status>> \in Stage
  OBVIOUS
<1> HIDE DEF s
<1> QED
  BY <1>3, <1>4, AdvanceKeeps DEF s

\* The steps of the requests that extract.
LEMMA WorkKeeps ==
  ASSUME ExtractionInv, NEW w \in Worker,
         Start(w) \/ StartRun(w) \/ Extract(w) \/ CompleteRun(w) \/ MarkExtracted(w)
         \/ MarkAwaiting(w) \/ MarkFailed(w) \/ FailRun(w) \/ Announce(w)
         \/ SinkFails(w) \/ CancelWork(w)
  PROVE  ExtractionInv'
<1> DEFINE d == work[w].doc
<1>1. CASE Start(w)
  <2>1. CASE Advance(w, "claimed", "started") /\ Moves(d, "EXTRACTING")
    <3>1. work[w].at = "claimed" /\ status[d] = "EXTRACTION_QUEUED"
      BY <2>1 DEF Advance, Moves, Allowed
    <3>2. run[d].status = "NONE"
      BY <3>1, WorkersKnow DEF Stage
    <3> DEFINE s == "EXTRACTING"
    <3>3. status' = [status EXCEPT ![d] = s] /\ s \notin {"NONE", "STORED"}
      BY <2>1 DEF Moves
    <3>4. UNCHANGED <<blobs, upload, queue, run>>
      BY <1>1 DEF Start
    <3>5. <<s, run[d].status>> \in DocumentWithRun /\ <<"started", s, run[d].status>> \in Stage
      BY <3>2 DEF Stage, DocumentWithRun
    <3> HIDE DEF s
    <3> QED
      BY <2>1, <3>1, <3>3, <3>4, <3>5, AdvanceMarks
  <2>2. CASE Advance(w, "claimed", "free") /\ UNCHANGED status
    <3>1. UNCHANGED <<blobs, upload, queue, run>>
      BY <1>1 DEF Start
    <3> QED
      BY <2>2, <3>1, AdvanceAlone
  <2> QED
    BY <1>1, <2>1, <2>2 DEF Start
<1>2. CASE StartRun(w)
  <2> DEFINE r == [status |-> "EXTRACTING"]
  <2>1. /\ Advance(w, "started", "announcing")
        /\ run' = [run EXCEPT ![d] = r] /\ r.status = "EXTRACTING"
        /\ UNCHANGED <<blobs, upload, status, queue>>
    BY <1>2 DEF StartRun
  <2>2. status[d] = "EXTRACTING"
    BY <2>1, WorkersKnow DEF Stage, Advance
  <2> HIDE DEF r
  <2>3. /\ <<status[d], r.status>> \in DocumentWithRun
        /\ <<"announcing", status[d], r.status>> \in Stage
    BY <2>1, <2>2 DEF Stage, DocumentWithRun
  <2> QED
    BY <2>1, <2>3, AdvanceRuns
<1>3. CASE Extract(w)
  <2>1. UNCHANGED <<blobs, upload, queue, status, run>>
    BY <1>3 DEF Extract
  <2>2. work[w].at = "extracting"
    BY <1>3 DEF Extract, Advance
  <2>3. status[d] = "EXTRACTING" /\ run[d].status = "EXTRACTING"
    BY <2>2, WorkersKnow DEF Stage
  <2>4. CASE Advance(w, "extracting", "failing")
    <3>1. <<"failing", status[d], run[d].status>> \in Stage
      BY <2>3 DEF Stage
    <3> QED
      BY <2>1, <2>4, <3>1, AdvanceAlone
  <2>5. ASSUME NEW found \in Findings,
               work' = [work EXCEPT ![w] = [at |-> "extracted", doc |-> d, fields |-> found]]
        PROVE  ExtractionInv'
    <3> DEFINE x == [at |-> "extracted", doc |-> d, fields |-> found]
               s == status[d]
               r == run[d]
    <3>1. /\ x \in Working
          /\ x.doc = d /\ x.at = "extracted" /\ x.fields \in Findings
      BY <2>2, <2>5, WorkersKnow, PlacesAreNotFree DEF Working
    <3>2. <<x.at, s, r.status>> \in Stage
      BY <2>3, <3>1 DEF Stage
    <3>3. /\ work[w] # Free
          /\ DOMAIN status' = Document /\ DOMAIN run' = Document
          /\ status'[d] = s /\ run'[d] = r
          /\ \A e \in Document \ {d} : status'[e] = status[e] /\ run'[e] = run[e]
          /\ <<s, r.status>> \in DocumentWithRun
          /\ r.status = "COMPLETED" => r.fields \in Findings
      BY <2>1, <2>2, WorkersKnow
    <3>4. work' = [work EXCEPT ![w] = x]
      BY <2>5
    <3> HIDE DEF x, r, s
    <3> QED
      BY <2>1, <3>1, <3>2, <3>3, <3>4, WorkerMoves DEF s
  <2> QED
    BY <1>3, <2>2, <2>4, <2>5 DEF Extract
<1>4. CASE CompleteRun(w)
  <2> DEFINE r == [status |-> "COMPLETED", fields |-> work[w].fields]
  <2>1. /\ Advance(w, "extracted", "completed")
        /\ run' = [run EXCEPT ![d] = r] /\ r.status = "COMPLETED" /\ r.fields = work[w].fields
        /\ UNCHANGED <<blobs, upload, status, queue>>
    BY <1>4 DEF CompleteRun
  <2>2. status[d] = "EXTRACTING" /\ work[w].fields \in Findings
    BY <2>1, WorkersKnow DEF Stage, Advance
  <2> HIDE DEF r
  <2>3. /\ <<status[d], r.status>> \in DocumentWithRun
        /\ <<"completed", status[d], r.status>> \in Stage
        /\ r.status = "COMPLETED" => r.fields \in Findings
    BY <2>1, <2>2 DEF Stage, DocumentWithRun
  <2> QED
    BY <2>1, <2>3, AdvanceRuns
<1>5. CASE MarkExtracted(w)
  <2> DEFINE s == "EXTRACTED"
  <2>1. /\ Advance(w, "completed", "marked")
        /\ status' = [status EXCEPT ![d] = s] /\ s \notin {"NONE", "STORED"}
        /\ UNCHANGED <<blobs, upload, queue, run>>
    BY <1>5 DEF MarkExtracted, Moves
  <2>2. status[d] = "EXTRACTING" /\ run[d].status = "COMPLETED" /\ run[d].fields \in Findings
    BY <2>1, WorkersKnow DEF Stage, Advance
  <2>3. <<s, run[d].status>> \in DocumentWithRun /\ <<"marked", s, run[d].status>> \in Stage
    BY <2>2 DEF Stage, DocumentWithRun
  <2> HIDE DEF s
  <2> QED
    BY <2>1, <2>2, <2>3, AdvanceMarks
<1>6. CASE MarkAwaiting(w)
  <2> DEFINE s == "AWAITING_SUPPLIER_REVIEW"
  <2>1. /\ Advance(w, "marked", "reviewable")
        /\ status' = [status EXCEPT ![d] = s] /\ s \notin {"NONE", "STORED"}
        /\ UNCHANGED <<blobs, upload, queue, run>>
    BY <1>6 DEF MarkAwaiting, Moves
  <2>2. status[d] = "EXTRACTED" /\ run[d].status = "COMPLETED" /\ run[d].fields \in Findings
    BY <2>1, WorkersKnow DEF Stage, Advance
  <2>3. <<s, run[d].status>> \in DocumentWithRun /\ <<"reviewable", s, run[d].status>> \in Stage
    BY <2>2 DEF Stage, DocumentWithRun
  <2> HIDE DEF s
  <2> QED
    BY <2>1, <2>2, <2>3, AdvanceMarks
<1>7. CASE MarkFailed(w)
  <2>1. CASE Advance(w, "failing", "failed") /\ MayFail(d)
             /\ status' = [status EXCEPT ![d] = "EXTRACTION_FAILED"]
    <3>1. status[d] = "EXTRACTING"
      BY <2>1 DEF MayFail, Allowed
    <3>2. run[d].status = "EXTRACTING"
      BY <2>1, <3>1, WorkersKnow DEF Stage, Advance
    <3> DEFINE s == "EXTRACTION_FAILED"
    <3>3. /\ UNCHANGED <<blobs, upload, queue, run>>
          /\ status' = [status EXCEPT ![d] = s] /\ s \notin {"NONE", "STORED"}
      BY <1>7, <2>1 DEF MarkFailed
    <3>4. <<s, run[d].status>> \in DocumentWithRun /\ <<"failed", s, run[d].status>> \in Stage
      BY <3>2 DEF Stage, DocumentWithRun
    <3> HIDE DEF s
    <3> QED
      BY <2>1, <3>1, <3>3, <3>4, AdvanceMarks
  <2>2. CASE Advance(w, "failing", "free") /\ UNCHANGED status
    <3>1. UNCHANGED <<blobs, upload, queue, run>>
      BY <1>7 DEF MarkFailed
    <3> QED
      BY <2>2, <3>1, AdvanceAlone
  <2> QED
    BY <1>7, <2>1, <2>2 DEF MarkFailed
<1>8. CASE FailRun(w)
  <2> DEFINE r == [status |-> "FAILED"]
  <2>1. /\ Advance(w, "failed", "reporting")
        /\ run' = [run EXCEPT ![d] = r] /\ r.status = "FAILED"
        /\ UNCHANGED <<blobs, upload, status, queue>>
    BY <1>8 DEF FailRun
  <2>2. status[d] = "EXTRACTION_FAILED"
    BY <2>1, WorkersKnow DEF Stage, Advance
  <2> HIDE DEF r
  <2>3. /\ <<status[d], r.status>> \in DocumentWithRun
        /\ <<"reporting", status[d], r.status>> \in Stage
    BY <2>1, <2>2 DEF Stage, DocumentWithRun
  <2> QED
    BY <2>1, <2>3, AdvanceRuns
<1>9. CASE Announce(w)
  <2>1. /\ \/ Advance(w, "announcing", "extracting")
           \/ Advance(w, "reviewable", "free") \/ Advance(w, "reporting", "free")
        /\ UNCHANGED <<blobs, upload, queue, status, run>>
    BY <1>9 DEF Announce, Announcement
  <2>2. work[w].at = "announcing" =>
          status[d] = "EXTRACTING" /\ run[d].status = "EXTRACTING"
    BY WorkersKnow DEF Stage
  <2>3. Advance(w, "announcing", "extracting") =>
          <<"extracting", status[d], run[d].status>> \in Stage
    BY <2>2 DEF Advance, Stage
  <2> QED
    BY <2>1, <2>3, AdvanceAlone
<1>10. CASE SinkFails(w)
  <2>1. /\ \/ Advance(w, "reviewable", "failing")
           \/ Advance(w, "announcing", "free") \/ Advance(w, "reporting", "free")
        /\ UNCHANGED <<blobs, upload, queue, status, run>>
    BY <1>10 DEF SinkFails
  <2>2. work[w].at = "reviewable" =>
          status[d] = "AWAITING_SUPPLIER_REVIEW" /\ run[d].status = "COMPLETED"
    BY WorkersKnow DEF Stage
  <2>3. Advance(w, "reviewable", "failing") =>
          <<"failing", status[d], run[d].status>> \in Stage
    BY <2>2 DEF Advance, Stage
  <2> QED
    BY <2>1, <2>3, AdvanceAlone
<1>11. CASE CancelWork(w)
  <2>1. /\ work[w] # Free /\ work' = [work EXCEPT ![w] = Free]
        /\ UNCHANGED <<blobs, upload, queue, status, run>>
    BY <1>11 DEF CancelWork
  <2>2. work[w].at # "free"
    BY <2>1, WorkForms, PlacesAreNotFree DEF ExtractionInv
  <2> DEFINE s == status[d]
             r == run[d]
  <2>3. /\ DOMAIN status' = Document /\ DOMAIN run' = Document
        /\ status'[d] = s /\ run'[d] = r
        /\ \A e \in Document \ {d} : status'[e] = status[e] /\ run'[e] = run[e]
        /\ <<s, r.status>> \in DocumentWithRun
        /\ r.status = "COMPLETED" => r.fields \in Findings
    BY <2>1, <2>2, WorkersKnow
  <2> HIDE DEF r, s
  <2> QED
    BY <2>1, <2>3, WorkerMoves DEF s
<1> QED
  BY <1>1, <1>2, <1>3, <1>4, <1>5, <1>6, <1>7, <1>8, <1>9, <1>10, <1>11


\* The upload of document d goes on to u and the document to status s; the requests
\* that extract d, if any, are where that leaves them.
LEMMA UploadMoves ==
  ASSUME ExtractionInv, NEW d \in Document, NEW s,
         NEW u \in Uploading,
         UNCHANGED <<work, run>>,
         blobs \subseteq blobs', queue' \ {d} = queue \ {d},
         upload' = [upload EXCEPT ![d] = u],
         DOMAIN status' = Document, status'[d] = s,
         \A e \in Document \ {d} : status'[e] = status[e],
         <<s, run[d].status>> \in DocumentWithRun,
         u.at = "stored" => u.blob \in blobs',
         s = "NONE" => u.at \notin {"recorded", "enqueued", "done"},
         s # "NONE" => u.at \in Documented /\ u.blob \in blobs',
         u.at \in {"recorded", "enqueued"} => s = "STORED",
         d \in queue' => /\ u.at \in {"enqueued", "done", "cancelled"}
                         /\ s \in {"STORED", "EXTRACTION_QUEUED"},
         \A w \in Worker : work[w] # Free /\ work[w].doc = d =>
           /\ <<work[w].at, s, run[d].status>> \in Stage
           /\ d \notin queue'
           /\ u.at \in {"enqueued", "done", "cancelled"}
  PROVE  ExtractionInv'
<1>0. /\ ExtractionTypeOK /\ DocumentsAreUploads
      /\ WorkersFollowTheirDocuments /\ RunsHoldFindings
  BY DEF ExtractionInv
<1>1. upload'[d] = u /\ \A e \in Document \ {d} : upload'[e] = upload[e]
  BY <1>0 DEF ExtractionTypeOK
<1>2. \A e \in Document \ {d} : e \in queue' <=> e \in queue
  OBVIOUS
<1>3. ExtractionTypeOK'
  <2>1. \A e \in Document : <<status'[e], run'[e].status>> \in DocumentWithRun
    BY <1>0 DEF ExtractionTypeOK
  <2>2. queue' \subseteq Document
    BY <1>0 DEF ExtractionTypeOK
  <2>3. upload' \in [Document -> {NoUpload} \cup
                       Uploading]
    BY <1>0 DEF ExtractionTypeOK
  <2> QED
    BY <1>0, <2>1, <2>2, <2>3 DEF ExtractionTypeOK
<1>4. DocumentsAreUploads'
  <2> SUFFICES ASSUME NEW e \in Document
               PROVE  /\ upload'[e].at = "stored" => upload'[e].blob \in blobs'
                      /\ status'[e] = "NONE" =>
                           upload'[e].at \notin {"recorded", "enqueued", "done"}
                      /\ status'[e] # "NONE" =>
                           upload'[e].at \in Documented /\ upload'[e].blob \in blobs'
                      /\ upload'[e].at \in {"recorded", "enqueued"} => status'[e] = "STORED"
                      /\ e \in queue' => /\ upload'[e].at \in {"enqueued", "done", "cancelled"}
                                         /\ status'[e] \in {"STORED", "EXTRACTION_QUEUED"}
    BY DEF DocumentsAreUploads
  <2>1. CASE e # d
    BY <1>0, <1>1, <1>2, <2>1 DEF DocumentsAreUploads
  <2>2. CASE e = d
    BY <1>1, <2>2
  <2> QED
    BY <2>1, <2>2
<1>5. WorkersFollowTheirDocuments'
  <2> SUFFICES ASSUME NEW w \in Worker, work[w] # Free
               PROVE  /\ <<work[w].at, status'[work[w].doc], run[work[w].doc].status>> \in Stage
                      /\ work[w].doc \notin queue'
                      /\ upload'[work[w].doc].at \in {"enqueued", "done", "cancelled"}
                      /\ work[w].at = "extracted" => work[w].fields \in Findings
                      /\ \A v \in Worker \ {w} : work[v] # Free => work[v].doc # work[w].doc
    BY DEF WorkersFollowTheirDocuments
  <2>1. work[w].doc \in Document
    BY <1>0, WorkForms
  <2>2. CASE work[w].doc # d
    BY <1>0, <1>1, <1>2, <2>1, <2>2 DEF WorkersFollowTheirDocuments
  <2>3. CASE work[w].doc = d
    BY <1>0, <1>1, <2>3 DEF WorkersFollowTheirDocuments
  <2> QED
    BY <2>2, <2>3
<1>6. RunsHoldFindings'
  BY <1>0 DEF RunsHoldFindings
<1> QED
  BY <1>3, <1>4, <1>5, <1>6 DEF ExtractionInv


\* The forms of an upload that has begun.
LEMMA UploadForms ==
  ASSUME ExtractionInv, NEW d \in Document, upload[d].at # "none"
  PROVE  /\ upload[d] \in Uploading /\ upload[d].blob \in Tenant \X Content
         /\ \A at \in Documented \cup {"writing", "stored", "orphaned"} :
              /\ [upload[d] EXCEPT !.at = at] \in Uploading
              /\ [upload[d] EXCEPT !.at = at].at = at
              /\ [upload[d] EXCEPT !.at = at].blob = upload[d].blob
<1>1. upload[d] \in {NoUpload} \cup Uploading
  BY DEF ExtractionInv, ExtractionTypeOK
<1>2. upload[d] \in Uploading
  BY <1>1 DEF NoUpload
<1> QED
  BY <1>2 DEF Uploading

\* What is known of the document of an upload.
LEMMA UploadsKnow ==
  ASSUME ExtractionInv, NEW d \in Document
  PROVE  /\ DOMAIN status = Document
         /\ <<status[d], run[d].status>> \in DocumentWithRun
         /\ upload[d].at \notin Documented => status[d] = "NONE"
         /\ status[d] # "NONE" => upload[d].blob \in blobs
         /\ upload[d].at \in {"recorded", "enqueued"} => status[d] = "STORED"
         /\ upload[d].at = "stored" => upload[d].blob \in blobs
         /\ d \in queue => /\ upload[d].at \in {"enqueued", "done", "cancelled"}
                           /\ status[d] \in {"STORED", "EXTRACTION_QUEUED"}
         /\ \A w \in Worker : work[w] # Free /\ work[w].doc = d =>
              /\ <<work[w].at, status[d], run[d].status>> \in Stage
              /\ d \notin queue
              /\ upload[d].at \in {"enqueued", "done", "cancelled"}
<1>1. DOMAIN status = Document /\ <<status[d], run[d].status>> \in DocumentWithRun
  BY DEF ExtractionInv, ExtractionTypeOK
<1>2. /\ upload[d].at \notin Documented => status[d] = "NONE"
      /\ status[d] # "NONE" => upload[d].blob \in blobs
      /\ upload[d].at \in {"recorded", "enqueued"} => status[d] = "STORED"
      /\ upload[d].at = "stored" => upload[d].blob \in blobs
      /\ d \in queue => /\ upload[d].at \in {"enqueued", "done", "cancelled"}
                        /\ status[d] \in {"STORED", "EXTRACTION_QUEUED"}
  BY DEF ExtractionInv, DocumentsAreUploads
<1>3. \A w \in Worker : work[w] # Free /\ work[w].doc = d =>
        /\ <<work[w].at, status[d], run[d].status>> \in Stage
        /\ d \notin queue
        /\ upload[d].at \in {"enqueued", "done", "cancelled"}
  BY DEF ExtractionInv, WorkersFollowTheirDocuments
<1> QED
  BY <1>1, <1>2, <1>3

\* The steps of the uploads.
LEMMA UploadKeeps ==
  ASSUME ExtractionInv, NEW d \in Document,
         \/ \E t \in Tenant, x \in Content : Upload(d, t, x)
         \/ UploadStep(d) \/ CancelUpload(d)
  PROVE  ExtractionInv'
<1> DEFINE s == status[d]
<1>1. ASSUME NEW t \in Tenant, NEW x \in Content, Upload(d, t, x) PROVE ExtractionInv'
  <2> DEFINE there == <<t, x>> \in blobs
             u == [at |-> IF there THEN "stored" ELSE "writing",
                   blob |-> <<t, x>>, reused |-> there]
  <2>1. /\ upload[d] = NoUpload /\ upload' = [upload EXCEPT ![d] = u]
        /\ UNCHANGED <<blobs, status, queue, work, run>>
    BY <1>1 DEF Upload
  <2>2. u \in Uploading /\ u.at \in {"stored", "writing"}
    BY DEF Uploading
  <2>3. u.at = "stored" => u.blob \in blobs
    OBVIOUS
  <2>4. upload[d].at = "none"
    BY <2>1 DEF NoUpload
  <2>5. s = "NONE" /\ d \notin queue /\ ~\E w \in Worker : work[w] # Free /\ work[w].doc = d
    BY <2>4, UploadsKnow DEF Documented
  <2>6. <<s, run[d].status>> \in DocumentWithRun /\ DOMAIN status = Document
    BY UploadsKnow
  <2> HIDE DEF u, s
  <2>8. /\ u.at = "stored" => u.blob \in blobs'
        /\ s = "NONE" => u.at \notin {"recorded", "enqueued", "done"}
        /\ s # "NONE" => u.at \in Documented /\ u.blob \in blobs'
        /\ u.at \in {"recorded", "enqueued"} => s = "STORED"
        /\ d \in queue' => /\ u.at \in {"enqueued", "done", "cancelled"}
                           /\ s \in {"STORED", "EXTRACTION_QUEUED"}
        /\ \A w \in Worker : work[w] # Free /\ work[w].doc = d =>
             /\ <<work[w].at, s, run[d].status>> \in Stage
             /\ d \notin queue'
             /\ u.at \in {"enqueued", "done", "cancelled"}
    BY <2>1, <2>2, <2>3, <2>5 DEF Documented
  <2>9. /\ queue' \ {d} = queue \ {d} /\ blobs \subseteq blobs'
        /\ DOMAIN status' = Document /\ \A e \in Document \ {d} : status'[e] = status[e]
        /\ upload' = [upload EXCEPT ![d] = u] /\ u \in Uploading
        /\ UNCHANGED <<work, run>>
        /\ <<s, run[d].status>> \in DocumentWithRun
    BY <2>1, <2>2, <2>6
  <2>10. status'[d] = s
    BY <2>1 DEF s
  <2> QED
    BY <2>8, <2>9, <2>10, UploadMoves DEF s
<1>2. CASE Store(d)
  <2> DEFINE u == [at |-> IF upload[d].at = "writing" THEN "stored" ELSE "cancelled",
                   blob |-> upload[d].blob, reused |-> LinkFails(upload[d].blob)]
  <2>1. /\ upload[d].at \in {"writing", "orphaned"}
        /\ blobs' = blobs \cup {upload[d].blob}
        /\ upload' = [upload EXCEPT ![d] = u]
        /\ UNCHANGED <<status, queue, work, run>>
    BY <1>2 DEF Store
  <2>2. upload[d].blob \in Tenant \X Content
    BY <2>1, UploadForms
  <2>3. u \in Uploading /\ u.at \in {"stored", "cancelled"}
    BY <2>2 DEF Uploading, LinkFails, Documented
  <2>4. u.blob \in blobs'
    BY <2>1
  <2>5. s = "NONE" /\ d \notin queue /\ ~\E w \in Worker : work[w] # Free /\ work[w].doc = d
    BY <2>1, UploadsKnow DEF Documented
  <2>6. <<s, run[d].status>> \in DocumentWithRun /\ DOMAIN status = Document
    BY UploadsKnow
  <2> HIDE DEF u, s
  <2>8. /\ u.at = "stored" => u.blob \in blobs'
        /\ s = "NONE" => u.at \notin {"recorded", "enqueued", "done"}
        /\ s # "NONE" => u.at \in Documented /\ u.blob \in blobs'
        /\ u.at \in {"recorded", "enqueued"} => s = "STORED"
        /\ d \in queue' => /\ u.at \in {"enqueued", "done", "cancelled"}
                           /\ s \in {"STORED", "EXTRACTION_QUEUED"}
        /\ \A w \in Worker : work[w] # Free /\ work[w].doc = d =>
             /\ <<work[w].at, s, run[d].status>> \in Stage
             /\ d \notin queue'
             /\ u.at \in {"enqueued", "done", "cancelled"}
    BY <2>1, <2>3, <2>4, <2>5 DEF Documented
  <2>9. /\ queue' \ {d} = queue \ {d} /\ blobs \subseteq blobs'
        /\ DOMAIN status' = Document /\ \A e \in Document \ {d} : status'[e] = status[e]
        /\ upload' = [upload EXCEPT ![d] = u] /\ u \in Uploading
        /\ UNCHANGED <<work, run>>
        /\ <<s, run[d].status>> \in DocumentWithRun
    BY <2>1, <2>3, <2>6
  <2>10. status'[d] = s
    BY <2>1 DEF s
  <2> QED
    BY <2>8, <2>9, <2>10, UploadMoves DEF s
<1>3. CASE Record(d)
  <2> DEFINE u == [upload[d] EXCEPT !.at = "recorded"]
             stored == "STORED"
  <2>0. stored = "STORED" /\ stored # "NONE"
    OBVIOUS
  <2>1. /\ upload[d].at = "stored"
        /\ status' = [status EXCEPT ![d] = stored]
        /\ upload' = [upload EXCEPT ![d] = u]
        /\ UNCHANGED <<blobs, queue, work, run>>
    BY <1>3 DEF Record, MayRecord
  <2>2. u \in Uploading /\ u.at = "recorded" /\ u.blob \in blobs
    BY <2>1, UploadForms, UploadsKnow DEF Documented
  <2>3. s = "NONE" /\ d \notin queue /\ ~\E w \in Worker : work[w] # Free /\ work[w].doc = d
    BY <2>1, UploadsKnow DEF Documented
  <2>4. DOMAIN status = Document /\ <<stored, run[d].status>> \in DocumentWithRun
    BY <2>3, UploadsKnow DEF DocumentWithRun
  <2>5. /\ DOMAIN status' = Document /\ status'[d] = stored
        /\ \A e \in Document \ {d} : status'[e] = status[e]
    BY <2>1, <2>4
  <2> HIDE DEF u, s, stored
  <2>8. /\ u.at = "stored" => u.blob \in blobs'
        /\ stored = "NONE" => u.at \notin {"recorded", "enqueued", "done"}
        /\ stored # "NONE" => u.at \in Documented /\ u.blob \in blobs'
        /\ u.at \in {"recorded", "enqueued"} => stored = "STORED"
        /\ d \in queue' => /\ u.at \in {"enqueued", "done", "cancelled"}
                           /\ stored \in {"STORED", "EXTRACTION_QUEUED"}
        /\ \A w \in Worker : work[w] # Free /\ work[w].doc = d =>
             /\ <<work[w].at, stored, run[d].status>> \in Stage
             /\ d \notin queue'
             /\ u.at \in {"enqueued", "done", "cancelled"}
    BY <2>0, <2>1, <2>2, <2>3 DEF Documented
  <2>9. /\ queue' \ {d} = queue \ {d} /\ blobs \subseteq blobs'
        /\ upload' = [upload EXCEPT ![d] = u] /\ u \in Uploading
        /\ UNCHANGED <<work, run>>
        /\ <<stored, run[d].status>> \in DocumentWithRun
    BY <2>1, <2>2, <2>4
  <2> QED
    BY <2>5, <2>8, <2>9, UploadMoves DEF stored
<1>4. CASE Enqueue(d)
  <2> DEFINE u == [upload[d] EXCEPT !.at = "enqueued"]
  <2>1. /\ upload[d].at = "recorded"
        /\ queue' = queue \cup {d}
        /\ upload' = [upload EXCEPT ![d] = u]
        /\ UNCHANGED <<blobs, status, work, run>>
    BY <1>4 DEF Enqueue, MayEnqueue
  <2>2. s = "STORED" /\ ~\E w \in Worker : work[w] # Free /\ work[w].doc = d
    BY <2>1, UploadsKnow
  <2>3. u \in Uploading /\ u.at = "enqueued" /\ u.blob \in blobs
    BY <2>1, <2>2, UploadForms, UploadsKnow DEF Documented
  <2>4. <<s, run[d].status>> \in DocumentWithRun /\ DOMAIN status = Document
    BY UploadsKnow
  <2> HIDE DEF u, s
  <2>8. /\ u.at = "stored" => u.blob \in blobs'
        /\ s = "NONE" => u.at \notin {"recorded", "enqueued", "done"}
        /\ s # "NONE" => u.at \in Documented /\ u.blob \in blobs'
        /\ u.at \in {"recorded", "enqueued"} => s = "STORED"
        /\ d \in queue' => /\ u.at \in {"enqueued", "done", "cancelled"}
                           /\ s \in {"STORED", "EXTRACTION_QUEUED"}
        /\ \A w \in Worker : work[w] # Free /\ work[w].doc = d =>
             /\ <<work[w].at, s, run[d].status>> \in Stage
             /\ d \notin queue'
             /\ u.at \in {"enqueued", "done", "cancelled"}
    BY <2>1, <2>2, <2>3 DEF Documented
  <2>9. /\ queue' \ {d} = queue \ {d} /\ blobs \subseteq blobs'
        /\ DOMAIN status' = Document /\ \A e \in Document \ {d} : status'[e] = status[e]
        /\ upload' = [upload EXCEPT ![d] = u] /\ u \in Uploading
        /\ UNCHANGED <<work, run>>
        /\ <<s, run[d].status>> \in DocumentWithRun
    BY <2>1, <2>3, <2>4
  <2>10. status'[d] = s
    BY <2>1 DEF s
  <2> QED
    BY <2>8, <2>9, <2>10, UploadMoves DEF s
<1>5. CASE MarkQueued(d)
  <2> DEFINE u == [upload[d] EXCEPT !.at = "done"]
             queued == "EXTRACTION_QUEUED"
  <2>0. queued \in {"STORED", "EXTRACTION_QUEUED"} /\ queued # "NONE"
    OBVIOUS
  <2>1. /\ upload[d].at = "enqueued"
        /\ status' = [status EXCEPT ![d] = queued]
        /\ upload' = [upload EXCEPT ![d] = u]
        /\ UNCHANGED <<blobs, queue, work, run>>
    BY <1>5 DEF MarkQueued
  <2>2. s = "STORED"
    BY <2>1, UploadsKnow
  <2>3. u \in Uploading /\ u.at = "done" /\ u.blob \in blobs
    BY <2>1, <2>2, UploadForms, UploadsKnow DEF Documented
  <2>4. DOMAIN status = Document /\ <<queued, run[d].status>> \in DocumentWithRun
    BY <2>2, UploadsKnow DEF DocumentWithRun
  <2>5. ASSUME NEW w \in Worker, work[w] # Free, work[w].doc = d
        PROVE  <<work[w].at, queued, run[d].status>> \in Stage /\ d \notin queue
    <3>1. <<work[w].at, s, run[d].status>> \in Stage /\ d \notin queue
      BY <2>5, UploadsKnow
    <3> QED
      BY <2>2, <3>1 DEF Stage
  <2>6. /\ DOMAIN status' = Document /\ status'[d] = queued
        /\ \A e \in Document \ {d} : status'[e] = status[e]
    BY <2>1, <2>4
  <2>7. d \in queue => u.at \in {"enqueued", "done", "cancelled"}
    BY <2>3
  <2> HIDE DEF u, s, queued
  <2>8. /\ u.at = "stored" => u.blob \in blobs'
        /\ queued = "NONE" => u.at \notin {"recorded", "enqueued", "done"}
        /\ queued # "NONE" => u.at \in Documented /\ u.blob \in blobs'
        /\ u.at \in {"recorded", "enqueued"} => queued = "STORED"
        /\ d \in queue' => /\ u.at \in {"enqueued", "done", "cancelled"}
                           /\ queued \in {"STORED", "EXTRACTION_QUEUED"}
        /\ \A w \in Worker : work[w] # Free /\ work[w].doc = d =>
             /\ <<work[w].at, queued, run[d].status>> \in Stage
             /\ d \notin queue'
             /\ u.at \in {"enqueued", "done", "cancelled"}
    BY <2>0, <2>1, <2>3, <2>5, <2>7 DEF Documented
  <2>9. queue' \ {d} = queue \ {d} /\ blobs \subseteq blobs'
    BY <2>1
  <2> QED
    BY <2>1, <2>3, <2>4, <2>6, <2>8, <2>9, UploadMoves
<1>6. CASE CancelUpload(d)
  <2> DEFINE at == IF upload[d].at = "writing" THEN "orphaned" ELSE "cancelled"
             u == [upload[d] EXCEPT !.at = at]
  <2>1. /\ upload[d].at \in {"writing", "stored", "recorded", "enqueued"}
        /\ upload' = [upload EXCEPT ![d] = u]
        /\ UNCHANGED <<blobs, status, queue, work, run>>
    BY <1>6 DEF CancelUpload
  <2>2. u \in Uploading /\ u.at = at /\ u.blob = upload[d].blob
    <3>1. at \in Documented \cup {"writing", "stored", "orphaned"}
      BY DEF Documented
    <3>2. upload[d].at # "none"
      BY <2>1
    <3> HIDE DEF at
    <3> QED
      BY <3>1, <3>2, UploadForms
  <2>3. /\ at \in {"orphaned", "cancelled"}
        /\ at = "orphaned" => s = "NONE"
        /\ s # "NONE" => u.blob \in blobs
        /\ <<s, run[d].status>> \in DocumentWithRun /\ DOMAIN status = Document
    BY <2>2, UploadsKnow DEF Documented
  <2>4. /\ d \in queue => at = "cancelled" /\ s \in {"STORED", "EXTRACTION_QUEUED"}
        /\ \A w \in Worker : work[w] # Free /\ work[w].doc = d =>
             /\ <<work[w].at, s, run[d].status>> \in Stage
             /\ d \notin queue /\ at = "cancelled"
    BY UploadsKnow
  <2>5. u.at \in {"recorded", "enqueued"} => s = "STORED"
    BY <2>2, <2>3
  <2>6. DOMAIN status' = Document /\ status'[d] = s
    BY <2>1, <2>3
  <2> HIDE DEF u, s, at
  <2>8. /\ u.at = "stored" => u.blob \in blobs'
        /\ s = "NONE" => u.at \notin {"recorded", "enqueued", "done"}
        /\ s # "NONE" => u.at \in Documented /\ u.blob \in blobs'
        /\ u.at \in {"recorded", "enqueued"} => s = "STORED"
        /\ d \in queue' => /\ u.at \in {"enqueued", "done", "cancelled"}
                           /\ s \in {"STORED", "EXTRACTION_QUEUED"}
        /\ \A w \in Worker : work[w] # Free /\ work[w].doc = d =>
             /\ <<work[w].at, s, run[d].status>> \in Stage
             /\ d \notin queue'
             /\ u.at \in {"enqueued", "done", "cancelled"}
    BY <2>1, <2>2, <2>3, <2>4, <2>5 DEF Documented
  <2>9. /\ queue' \ {d} = queue \ {d} /\ blobs \subseteq blobs'
        /\ \A e \in Document \ {d} : status'[e] = status[e]
        /\ upload' = [upload EXCEPT ![d] = u] /\ u \in Uploading
        /\ UNCHANGED <<work, run>>
        /\ <<s, run[d].status>> \in DocumentWithRun
    BY <2>1, <2>2, <2>3
  <2> QED
    BY <2>6, <2>8, <2>9, UploadMoves DEF s
<1> QED
  BY <1>1, <1>2, <1>3, <1>4, <1>5, <1>6 DEF UploadStep


\* A request takes a job: it has the document alone, since jobs are queued once.
LEMMA ClaimKeeps ==
  ASSUME ExtractionInv, NEW w \in Worker, NEW d \in Document, Claim(w, d)
  PROVE  ExtractionInv'
<1> DEFINE x == [at |-> "claimed", doc |-> d]
<1>0. /\ ExtractionTypeOK /\ DocumentsAreUploads
      /\ WorkersFollowTheirDocuments /\ RunsHoldFindings
  BY DEF ExtractionInv
<1>1. /\ work[w] = Free /\ d \in queue /\ queue' = queue \ {d}
      /\ work' = [work EXCEPT ![w] = x]
      /\ UNCHANGED <<blobs, upload, status, run>>
  BY DEF Claim, Rest
<1>2. x \in Working /\ x.at = "claimed" /\ x.doc = d
  BY PlacesAreNotFree DEF Working
<1>3. /\ <<"claimed", status[d], run[d].status>> \in Stage
      /\ upload[d].at \in {"enqueued", "done", "cancelled"}
      /\ \A v \in Worker : work[v] # Free => work[v].doc # d
  <2>1. /\ <<status[d], run[d].status>> \in DocumentWithRun
        /\ status[d] \in {"STORED", "EXTRACTION_QUEUED"}
        /\ upload[d].at \in {"enqueued", "done", "cancelled"}
        /\ \A v \in Worker : work[v] # Free => work[v].doc # d
    BY <1>1, UploadsKnow
  <2>2. run[d].status = "NONE"
    BY <2>1 DEF DocumentWithRun
  <2> QED
    BY <2>1, <2>2 DEF Stage
<1> HIDE DEF x
<1>4. /\ work'[w] = x /\ \A v \in Worker \ {w} : work'[v] = work[v]
  BY <1>0, <1>1 DEF ExtractionTypeOK
<1>5. ExtractionTypeOK'
  BY <1>0, <1>1, <1>2 DEF ExtractionTypeOK
<1>6. DocumentsAreUploads'
  BY <1>0, <1>1 DEF DocumentsAreUploads
<1>7. WorkersFollowTheirDocuments'
  <2> SUFFICES ASSUME NEW v \in Worker, work'[v] # Free
               PROVE  /\ <<work'[v].at, status[work'[v].doc], run[work'[v].doc].status>> \in Stage
                      /\ work'[v].doc \notin queue'
                      /\ upload[work'[v].doc].at \in {"enqueued", "done", "cancelled"}
                      /\ work'[v].at = "extracted" => work'[v].fields \in Findings
                      /\ \A u \in Worker \ {v} : work'[u] # Free => work'[u].doc # work'[v].doc
    BY <1>1 DEF WorkersFollowTheirDocuments
  <2>1. CASE v = w
    BY <1>1, <1>2, <1>3, <1>4, <2>1
  <2>2. CASE v # w
    <3>1. work'[v] = work[v] /\ work[v] # Free /\ work[v].doc # d
      BY <1>3, <1>4, <2>2
    <3>2. \A u \in Worker \ {v} : work'[u] # Free => work'[u].doc # work[v].doc
      <4> SUFFICES ASSUME NEW u \in Worker \ {v}, work'[u] # Free
                   PROVE  work'[u].doc # work[v].doc
        OBVIOUS
      <4>1. CASE u = w
        BY <1>2, <1>4, <3>1, <4>1
      <4>2. CASE u # w
        <5>1. work'[u] = work[u] /\ work[u] # Free
          BY <1>4, <4>2
        <5>2. \A z \in Worker \ {v} : work[z] # Free => work[z].doc # work[v].doc
          BY <1>0, <3>1 DEF WorkersFollowTheirDocuments
        <5> QED
          BY <5>1, <5>2
      <4> QED
        BY <4>1, <4>2
    <3> QED
      BY <1>0, <1>1, <3>1, <3>2 DEF WorkersFollowTheirDocuments
  <2> QED
    BY <2>1, <2>2
<1>8. RunsHoldFindings'
  BY <1>0, <1>1 DEF RunsHoldFindings
<1> QED
  BY <1>5, <1>6, <1>7, <1>8 DEF ExtractionInv

LEMMA ExtractionInvariant == Spec => []ExtractionInv
<1>1. ExtractionInv /\ [Next]_vars => ExtractionInv'
  <2> SUFFICES ASSUME ExtractionInv, [Next]_vars PROVE ExtractionInv'
    OBVIOUS
  <2>1. CASE UNCHANGED vars
    BY <2>1 DEF vars, ExtractionInv, ExtractionTypeOK, DocumentsAreUploads,
                WorkersFollowTheirDocuments, RunsHoldFindings
  <2> QED
    BY <2>1, UploadKeeps, ClaimKeeps, WorkKeeps DEF Next, WorkStep
<1> QED
  BY <1>1, InitExtraction, PTL DEF Spec

\* Documents and their runs agree, at whatever point requests fail, are cut short
\* or run into each other.
THEOREM RunsAgree == Spec => []RunAgreesWithDocument
<1>1. ExtractionInv => RunAgreesWithDocument
  BY DEF ExtractionInv, ExtractionTypeOK, DocumentWithRun, RunAgreesWithDocument
<1> QED
  BY <1>1, ExtractionInvariant, PTL

\* A model's claims are backed once they are checked, whatever the model says.
LEMMA ModelFindingsAreBacked ==
  ASSUME NEW r \in Response, r.kind = "model", NEW f \in DOMAIN ModelFields(r.items)
  PROVE  Backed(Checked(ModelFields(r.items)[f]))
<1> DEFINE c == ModelFields(r.items)[f]
           Said == [value : STRING \cup {Nothing}, status : STRING,
                    confidence : 0..100 \cup {Nothing},
                    evidence : SUBSET (STRING \ DOMAIN Normal)]
<1>1. \A i \in DOMAIN r.items : r.items[i].claim \in Said
  <2> DEFINE Item == [field : STRING, claim : Said]
  <2>1. r.items \in Seq(Item)
    BY ResponseAssumption
  <2>2. \A x \in Item : x.claim \in Said
    OBVIOUS
  <2> HIDE DEF Item, Said
  <2> QED
    BY <2>1, <2>2
<1>2. c = NotFound \/ (c \in Said /\ c.evidence # {})
  <2>1. f \in {r.items[i].field : i \in DOMAIN r.items}
    BY DEF ModelFields
  <2> DEFINE i == CHOOSE i \in DOMAIN r.items : r.items[i].field = f
  <2>2. i \in DOMAIN r.items
    BY <2>1
  <2>3. c = WithEvidence(r.items[i].claim)
    BY <2>1 DEF ModelFields
  <2> QED
    BY <1>1, <2>2, <2>3 DEF WithEvidence
<1>3. CASE c = NotFound
  BY <1>3 DEF NotFound, Checked, Doubtful, Backed
<1>4. CASE c \in Said /\ c.evidence # {}
  <2> HIDE DEF c
  <2>1. c.evidence \cap DOMAIN Normal = {}
    BY <1>4
  <2>2. Checked(c).evidence = c.evidence
    BY <1>4 DEF Checked
  <2>3. ~Doubtful(Checked(c))
    BY <1>4 DEF Checked, Doubtful
  <2> QED
    BY <1>4, <2>1, <2>2, <2>3 DEF Backed, c
<1> QED
  BY <1>2, <1>3, <1>4

\* What a sheet says of a field agrees with every cell it was read from.
LEMMA SheetFindingsAreBacked ==
  ASSUME NEW r \in Response, NEW f \in DOMAIN SheetFields(r.items)
  PROVE  Backed(Checked(SheetFields(r.items)[f]))
<1> DEFINE found  == {r.items[i].raw : i \in {j \in DOMAIN r.items : r.items[j].field = f}}
           values == {Normal[raw] : raw \in found}
           clear  == Agreed(values) /\ Nothing \notin values
           c      == SheetFields(r.items)[f]
<1>1. f \in {r.items[i].field : i \in DOMAIN r.items}
  BY DEF SheetFields
<1>2. c = [value      |-> IF clear THEN CHOOSE v \in values : TRUE ELSE Nothing,
           status     |-> IF clear THEN "extracted" ELSE "needs_review",
           confidence |-> IF clear THEN 100 ELSE 50,
           evidence   |-> found]
  BY <1>1 DEF SheetFields
<1>3. found # {} /\ values # {}
  BY <1>1
<1> HIDE DEF found, c
<1>4. ~Doubtful(c)
  BY <1>2 DEF Doubtful, Threshold
<1>5. Checked(c) = c
  BY <1>4 DEF Checked
<1>6. c.status # "not_found" /\ c.evidence = found
  BY <1>2
<1>7. ASSUME c.status = "extracted", NEW raw \in found
      PROVE  Normal[raw] = c.value
  <2>1. clear
    BY <1>2, <1>7
  <2>2. c.value \in values /\ Normal[raw] \in values
    BY <1>2, <1>3, <1>7, <2>1
  <2> QED
    BY <2>1, <2>2 DEF Agreed
<1> QED
  BY <1>3, <1>4, <1>5, <1>6, <1>7 DEF Backed, c

\* Whatever is found, every critical field has a claim, and it is backed.
LEMMA FindingsAreBacked ==
  ASSUME NEW fields \in Findings, NEW f \in Critical
  PROVE  f \in DOMAIN fields /\ Backed(fields[f])
<1>1. ASSUME NEW found, fields = Finalize(found),
             \A g \in DOMAIN found : Backed(Checked(found[g]))
      PROVE  f \in DOMAIN fields /\ Backed(fields[f])
  <2>1. /\ f \in DOMAIN fields
        /\ fields[f] = IF f \in DOMAIN found THEN Checked(found[f]) ELSE NotFound
    BY <1>1 DEF Finalize
  <2> QED
    BY <1>1, <2>1 DEF Backed, NotFound
<1>2. \/ \E r \in Response : r.kind = "model" /\ fields = Finalize(ModelFields(r.items))
      \/ \E r \in Response : fields = Finalize(SheetFields(r.items))
  BY DEF Findings
<1> QED
  BY <1>1, <1>2, ModelFindingsAreBacked, SheetFindingsAreBacked

\* Whatever the provider answers, and however uploads and requests interleave: a
\* document awaits review only with a claim for every critical field, and each
\* claim is backed and its original stored.
THEOREM ReviewableClaimsAreSupported == Spec => []ReviewsAreSupported
<1>1. ExtractionInv => ReviewsAreSupported
  <2> SUFFICES ASSUME ExtractionInv, NEW d \in Document, NEW f \in Critical,
                      status[d] = "AWAITING_SUPPLIER_REVIEW"
               PROVE  f \in DOMAIN run[d].fields /\ Supported(d, run[d].fields[f])
    BY DEF ReviewsAreSupported
  <2>1. run[d].status = "COMPLETED"
    BY DEF ExtractionInv, ExtractionTypeOK, DocumentWithRun
  <2>2. run[d].fields \in Findings
    BY <2>1 DEF ExtractionInv, RunsHoldFindings
  <2>3. upload[d].blob \in blobs
    BY UploadsKnow
  <2> QED
    BY <2>2, <2>3, FindingsAreBacked DEF Supported
<1> QED
  BY <1>1, ExtractionInvariant, PTL

-----------------------------------------------------------------------------
(* The directory in front of the engine: SupplierSearch *)

\* What the engine knows against a profile: it is told something that fails.
Unfit(r, q) ==
  \/ r.status # "ACTIVE"
  \/ r.categories # {} /\ q.category \notin r.categories
  \/ AreasFor(q) \cap r.service_cities = {}
  \/ r.minimum_people # Unset /\ ~(q.people_count >= r.minimum_people)
  \/ r.maximum_people # Unset /\ ~(q.people_count <= r.maximum_people)
  \/ /\ q.maximum_lead_time_hours # Unset /\ r.lead_time_hours # Unset
     /\ ~(r.lead_time_hours <= q.maximum_lead_time_hours)
  \/ q.invoice_required /\ r.invoice_available # Unset /\ r.invoice_available # TRUE
  \/ \E d \in q.diets : r.dietary[d] = "unsupported"
  \/ ~(q.tags \subseteq r.sustainability_tags)

\* What it must know for a profile.
Fit(r, q) ==
  /\ r.status = "ACTIVE"
  /\ q.category \in r.categories
  /\ AreasFor(q) \cap r.service_cities # {}
  /\ r.minimum_people # Unset /\ q.people_count >= r.minimum_people
  /\ r.maximum_people # Unset /\ q.people_count <= r.maximum_people
  /\ q.maximum_lead_time_hours # Unset =>
       r.lead_time_hours # Unset /\ r.lead_time_hours <= q.maximum_lead_time_hours
  /\ q.invoice_required => r.invoice_available = TRUE
  /\ \A d \in q.diets : r.dietary[d] = "supported"
  /\ q.tags \subseteq r.sustainability_tags

\* A check fails on what is known not to hold, and passes what is known to hold.
LEMMA OutcomeMeans ==
  ASSUME NEW known \in BOOLEAN, NEW holds \in BOOLEAN
  PROVE  /\ OutcomeOf(known, holds) \in Outcome
         /\ OutcomeOf(known, holds) = "FAIL" <=> known /\ ~holds
         /\ OutcomeOf(known, holds) = "PASS" <=> known /\ holds
BY DEF OutcomeOf, Outcome

\* One failure excludes; without one, every check must pass.
LEMMA DecisionMeans ==
  ASSUME NEW S \in SUBSET Outcome
  PROVE  /\ DecisionFor(S) = "EXCLUDED" <=> "FAIL" \in S
         /\ DecisionFor(S) = "ELIGIBLE" <=> \A x \in S : x = "PASS"
BY DEF DecisionFor, Outcome

\* The fields of a candidate, with those of a profile.
LEMMA CandidateFields ==
  ASSUME NEW r \in Profile
  PROVE  LET c == CandidateOf(r) IN
         /\ c.status = r.status /\ c.categories = r.categories
         /\ c.service_areas = r.service_cities
         /\ c.minimum_people = r.minimum_people /\ c["minimum_people"] = r.minimum_people
         /\ c.maximum_people = r.maximum_people /\ c["maximum_people"] = r.maximum_people
         /\ c.lead_time_hours = r.lead_time_hours /\ c["lead_time_hours"] = r.lead_time_hours
         /\ c.invoice_available = r.invoice_available
         /\ c["invoice_available"] = r.invoice_available
         /\ c.dietary = r.dietary /\ c.sustainability_tags = r.sustainability_tags
         /\ c.last_confirmed_at = r.last_confirmed_at
         /\ c["status"] = r.status /\ c["last_confirmed_at"] = r.last_confirmed_at
         /\ c.missing = MissingFields(r)
BY DEF CandidateOf

LEMMA MissingMeans ==
  ASSUME NEW r \in Profile
  PROVE  /\ MissingFields(r) \subseteq Optional \cup Lists
         /\ "status" \notin MissingFields(r)
         /\ "last_confirmed_at" \notin MissingFields(r)
         /\ "service_areas" \notin MissingFields(r)
         /\ "dietary_capabilities" \notin MissingFields(r)
         /\ "sustainability_tags" \notin MissingFields(r)
         /\ "categories" \in MissingFields(r) <=> r.categories = {}
         /\ "service_cities" \in MissingFields(r) <=> r.service_cities = {}
         /\ "minimum_people" \in MissingFields(r) <=> r.minimum_people = Unset
         /\ "maximum_people" \in MissingFields(r) <=> r.maximum_people = Unset
         /\ "lead_time_hours" \in MissingFields(r) <=> r.lead_time_hours = Unset
         /\ "invoice_available" \in MissingFields(r) <=> r.invoice_available = Unset
BY DEF MissingFields, Optional, Lists

\* What the engine makes of a candidate, check by check.
LEMMA ChecksMean ==
  ASSUME NEW r \in Profile, NEW q \in Criteria, NEW t \in Nat
  PROVE  LET c == CandidateOf(r) IN
         /\ StatusCheck(c) \in Outcome
         /\ StatusCheck(c) = "FAIL" <=> r.status # "ACTIVE"
         /\ StatusCheck(c) = "PASS" <=> r.status = "ACTIVE"
         /\ CategoryCheck(c, q) \in Outcome
         /\ CategoryCheck(c, q) = "FAIL" <=> r.categories # {} /\ q.category \notin r.categories
         /\ CategoryCheck(c, q) = "PASS" <=> q.category \in r.categories
         /\ RegionCheck(c, q) \in Outcome
         /\ RegionCheck(c, q) = "FAIL" <=> AreasFor(q) \cap r.service_cities = {}
         /\ RegionCheck(c, q) = "PASS" <=> AreasFor(q) \cap r.service_cities # {}
<1> DEFINE c == CandidateOf(r)
<1>1. /\ c.status = r.status /\ c.categories = r.categories
      /\ c.service_areas = r.service_cities
      /\ c["status"] = r.status
      /\ c.missing = MissingFields(r)
  BY CandidateFields
<1> HIDE DEF c
<1>2. StatusCheck(c) = OutcomeOf(TRUE, r.status = "ACTIVE")
  <2>1. r.status \in LifecycleStatus
    BY DEF Profile
  <2>2. r.status # Unset
    BY <2>1, UnsetAssumption
  <2>3. "status" \notin c.missing
    BY <1>1, MissingMeans
  <2> QED
    BY <1>1, <2>2, <2>3 DEF StatusCheck, Has
<1>3. CategoryCheck(c, q) = OutcomeOf(r.categories # {}, q.category \in r.categories)
  BY <1>1, MissingMeans DEF CategoryCheck
<1>4. RegionCheck(c, q) = OutcomeOf(TRUE, AreasFor(q) \cap r.service_cities # {})
  BY <1>1, MissingMeans DEF RegionCheck
<1> QED
  BY <1>2, <1>3, <1>4 DEF OutcomeOf, Outcome, c


\* The bounds on what the supplier takes on: people, hours, invoices.
LEMMA BoundsMean ==
  ASSUME NEW r \in Profile, NEW q \in Criteria
  PROVE  LET c == CandidateOf(r) IN
         /\ CapacityChecks(c, q) \subseteq Outcome
         /\ "FAIL" \in CapacityChecks(c, q) <=>
              \/ r.minimum_people # Unset /\ ~(q.people_count >= r.minimum_people)
              \/ r.maximum_people # Unset /\ ~(q.people_count <= r.maximum_people)
         /\ CapacityChecks(c, q) = {"PASS"} <=>
              /\ r.minimum_people # Unset /\ q.people_count >= r.minimum_people
              /\ r.maximum_people # Unset /\ q.people_count <= r.maximum_people
         /\ LeadTimeCheck(c, q) \in Outcome
         /\ LeadTimeCheck(c, q) = "FAIL" <=>
              /\ q.maximum_lead_time_hours # Unset /\ r.lead_time_hours # Unset
              /\ ~(r.lead_time_hours <= q.maximum_lead_time_hours)
         /\ LeadTimeCheck(c, q) = "PASS" <=>
              (q.maximum_lead_time_hours # Unset =>
                 r.lead_time_hours # Unset /\ r.lead_time_hours <= q.maximum_lead_time_hours)
         /\ InvoiceCheck(c, q) \in Outcome
         /\ InvoiceCheck(c, q) = "FAIL" <=>
              q.invoice_required /\ r.invoice_available # Unset /\ r.invoice_available # TRUE
         /\ InvoiceCheck(c, q) = "PASS" <=>
              (q.invoice_required => r.invoice_available = TRUE)
<1> DEFINE c == CandidateOf(r)
<1>1. /\ c.minimum_people = r.minimum_people /\ c["minimum_people"] = r.minimum_people
      /\ c.maximum_people = r.maximum_people /\ c["maximum_people"] = r.maximum_people
      /\ c.lead_time_hours = r.lead_time_hours /\ c["lead_time_hours"] = r.lead_time_hours
      /\ c.invoice_available = r.invoice_available
      /\ c["invoice_available"] = r.invoice_available
      /\ c.missing = MissingFields(r)
  BY CandidateFields
<1> HIDE DEF c
<1>2. /\ Has(c, "minimum_people") <=> r.minimum_people # Unset
      /\ Has(c, "maximum_people") <=> r.maximum_people # Unset
      /\ Has(c, "lead_time_hours") <=> r.lead_time_hours # Unset
      /\ Has(c, "invoice_available") <=> r.invoice_available # Unset
  BY <1>1, MissingMeans DEF Has
<1>3. CapacityChecks(c, q) =
        {OutcomeOf(r.minimum_people # Unset, q.people_count >= r.minimum_people),
         OutcomeOf(r.maximum_people # Unset, q.people_count <= r.maximum_people)}
  BY <1>1, <1>2 DEF CapacityChecks, OutcomeOf
<1>4. q.maximum_lead_time_hours # Unset =>
        LeadTimeCheck(c, q) =
          OutcomeOf(r.lead_time_hours # Unset, r.lead_time_hours <= q.maximum_lead_time_hours)
  BY <1>1, <1>2 DEF LeadTimeCheck, OutcomeOf
<1>5. q.maximum_lead_time_hours = Unset => LeadTimeCheck(c, q) = "PASS"
  BY DEF LeadTimeCheck, OutcomeOf
<1>6. q.invoice_required =>
        InvoiceCheck(c, q) =
          OutcomeOf(r.invoice_available # Unset, r.invoice_available = TRUE)
  BY <1>1, <1>2 DEF InvoiceCheck, OutcomeOf
<1>7. ~q.invoice_required => InvoiceCheck(c, q) = "PASS"
  BY DEF InvoiceCheck, OutcomeOf
<1>8. r.invoice_available = TRUE => r.invoice_available # Unset
  BY UnsetAssumption
<1>9. /\ CapacityChecks(c, q) \subseteq Outcome
      /\ "FAIL" \in CapacityChecks(c, q) <=>
           \/ r.minimum_people # Unset /\ ~(q.people_count >= r.minimum_people)
           \/ r.maximum_people # Unset /\ ~(q.people_count <= r.maximum_people)
      /\ CapacityChecks(c, q) = {"PASS"} <=>
           /\ r.minimum_people # Unset /\ q.people_count >= r.minimum_people
           /\ r.maximum_people # Unset /\ q.people_count <= r.maximum_people
  BY <1>3 DEF OutcomeOf, Outcome
<1>10. /\ LeadTimeCheck(c, q) \in Outcome
       /\ LeadTimeCheck(c, q) = "FAIL" <=>
            /\ q.maximum_lead_time_hours # Unset /\ r.lead_time_hours # Unset
            /\ ~(r.lead_time_hours <= q.maximum_lead_time_hours)
       /\ LeadTimeCheck(c, q) = "PASS" <=>
            (q.maximum_lead_time_hours # Unset =>
               r.lead_time_hours # Unset /\ r.lead_time_hours <= q.maximum_lead_time_hours)
  BY <1>4, <1>5 DEF OutcomeOf, Outcome
<1>11. /\ InvoiceCheck(c, q) \in Outcome
       /\ InvoiceCheck(c, q) = "FAIL" <=>
            q.invoice_required /\ r.invoice_available # Unset /\ r.invoice_available # TRUE
       /\ InvoiceCheck(c, q) = "PASS" <=>
            (q.invoice_required => r.invoice_available = TRUE)
  BY <1>6, <1>7, <1>8 DEF OutcomeOf, Outcome
<1> QED
  BY <1>9, <1>10, <1>11 DEF c

\* The diets and the tags a search demands.
LEMMA DemandsMean ==
  ASSUME NEW r \in Profile, NEW q \in Criteria
  PROVE  LET c == CandidateOf(r) IN
         /\ DietaryChecks(c, q) \subseteq Outcome
         /\ "FAIL" \in DietaryChecks(c, q) <=> \E d \in q.diets : r.dietary[d] = "unsupported"
         /\ DietaryChecks(c, q) \subseteq {"PASS"} <=>
              \A d \in q.diets : r.dietary[d] = "supported"
         /\ TagChecks(c, q) \subseteq Outcome
         /\ "FAIL" \in TagChecks(c, q) <=> ~(q.tags \subseteq r.sustainability_tags)
         /\ TagChecks(c, q) \subseteq {"PASS"} <=> q.tags \subseteq r.sustainability_tags
<1> DEFINE c == CandidateOf(r)
<1>1. /\ c.dietary = r.dietary /\ c.sustainability_tags = r.sustainability_tags
      /\ c.missing = MissingFields(r)
  BY CandidateFields
<1> HIDE DEF c
<1>2. ASSUME NEW d \in q.diets
      PROVE  c.missing \cap {"dietary_capabilities", d} = {}
  BY <1>1, MissingMeans, CriteriaAssumption DEF Diets
<1>3. DietaryChecks(c, q) =
        {OutcomeOf(r.dietary[d] \in {"supported", "unsupported"},
                   r.dietary[d] = "supported") : d \in q.diets}
  BY <1>1, <1>2 DEF DietaryChecks, OutcomeOf
<1>4. TagChecks(c, q) = {OutcomeOf(TRUE, t \in r.sustainability_tags) : t \in q.tags}
  BY <1>1, MissingMeans DEF TagChecks
<1>5. /\ DietaryChecks(c, q) \subseteq Outcome
      /\ "FAIL" \in DietaryChecks(c, q) <=> \E d \in q.diets : r.dietary[d] = "unsupported"
      /\ DietaryChecks(c, q) \subseteq {"PASS"} <=>
           \A d \in q.diets : r.dietary[d] = "supported"
  BY <1>3 DEF OutcomeOf, Outcome
<1>6. /\ TagChecks(c, q) \subseteq Outcome
      /\ "FAIL" \in TagChecks(c, q) <=> ~(q.tags \subseteq r.sustainability_tags)
      /\ TagChecks(c, q) \subseteq {"PASS"} <=> q.tags \subseteq r.sustainability_tags
  BY <1>4 DEF OutcomeOf, Outcome
<1> QED
  BY <1>5, <1>6 DEF c

\* Age and gaps only raise doubts; a gap that matters shows in its own check.
LEMMA DoubtsMean ==
  ASSUME NEW r \in Profile, NEW q \in Criteria, NEW t \in Nat
  PROVE  LET c == CandidateOf(r) IN
         /\ FreshnessCheck(c, t) \in {"PASS", "UNKNOWN"}
         /\ FreshnessCheck(c, t) = "PASS" <=> t - r.last_confirmed_at \in 0..MaxProfileAge
         /\ MissingFieldsCheck(c, q) \in {"PASS", "UNKNOWN"}
         /\ Fit(r, q) => MissingFieldsCheck(c, q) = "PASS"
<1> DEFINE c == CandidateOf(r)
<1>1. /\ c.last_confirmed_at = r.last_confirmed_at
      /\ c["last_confirmed_at"] = r.last_confirmed_at
      /\ c.missing = MissingFields(r)
  BY CandidateFields
<1> HIDE DEF c
<1>2. Has(c, "last_confirmed_at")
  BY <1>1, MissingMeans, UnsetAssumption DEF Has, Profile
<1>3. FreshnessCheck(c, t) = OutcomeOf(t - r.last_confirmed_at \in 0..MaxProfileAge, TRUE)
  BY <1>1, <1>2 DEF FreshnessCheck, OutcomeOf
<1>4. MissingFieldsCheck(c, q) = OutcomeOf(MissingFields(r) \cap RelevantFields(q) = {}, TRUE)
  BY <1>1 DEF MissingFieldsCheck
<1>5. ASSUME Fit(r, q) PROVE MissingFields(r) \cap RelevantFields(q) = {}
  <2>1. q.diets \cap (Optional \cup Lists) = {}
    BY CriteriaAssumption DEF Diets
  <2>2. r.categories # {} /\ r.minimum_people # Unset /\ r.maximum_people # Unset
    BY <1>5 DEF Fit
  <2>3. /\ q.maximum_lead_time_hours # Unset => r.lead_time_hours # Unset
        /\ q.invoice_required => r.invoice_available # Unset
    BY <1>5, UnsetAssumption DEF Fit
  <2>4. ASSUME NEW f \in MissingFields(r), f \in RelevantFields(q) PROVE FALSE
    <3>1. f \notin q.diets
      BY <2>1, MissingMeans
    <3>2. f \notin {"status", "categories", "service_areas", "minimum_people",
                    "maximum_people", "last_confirmed_at",
                    "dietary_capabilities", "sustainability_tags"}
      BY <2>2, MissingMeans
    <3>3. /\ f = "lead_time_hours" => q.maximum_lead_time_hours = Unset
          /\ f = "invoice_available" => ~q.invoice_required
      BY <2>3, MissingMeans
    <3> QED
      BY <2>4, <3>1, <3>2, <3>3 DEF RelevantFields
  <2> QED
    BY <2>4
<1> QED
  BY <1>3, <1>4, <1>5 DEF OutcomeOf, c


\* The verdict, in terms of the profile alone: excluded when something is known
\* against it, eligible when everything is known to fit and the profile is fresh.
LEMMA VerdictMeans ==
  ASSUME NEW r \in Profile, NEW q \in Criteria, NEW t \in Nat
  PROVE  /\ Evaluate(CandidateOf(r), q, t) = "EXCLUDED" <=> Unfit(r, q)
         /\ Evaluate(CandidateOf(r), q, t) = "ELIGIBLE" <=>
              Fit(r, q) /\ t - r.last_confirmed_at \in 0..MaxProfileAge
<1> DEFINE c == CandidateOf(r)
           S == {StatusCheck(c), CategoryCheck(c, q), RegionCheck(c, q),
                 LeadTimeCheck(c, q), InvoiceCheck(c, q), FreshnessCheck(c, t),
                 MissingFieldsCheck(c, q)}
                \cup CapacityChecks(c, q) \cup DietaryChecks(c, q) \cup TagChecks(c, q)
<1>1. Evaluate(c, q, t) = DecisionFor(S)
  BY DEF Evaluate
<1>2. S \in SUBSET Outcome
  <2>1. /\ StatusCheck(c) \in Outcome /\ CategoryCheck(c, q) \in Outcome
        /\ RegionCheck(c, q) \in Outcome
    BY ChecksMean
  <2>2. /\ LeadTimeCheck(c, q) \in Outcome /\ InvoiceCheck(c, q) \in Outcome
        /\ CapacityChecks(c, q) \subseteq Outcome
    BY BoundsMean
  <2>3. DietaryChecks(c, q) \subseteq Outcome /\ TagChecks(c, q) \subseteq Outcome
    BY DemandsMean
  <2>4. FreshnessCheck(c, t) \in Outcome /\ MissingFieldsCheck(c, q) \in Outcome
    BY DoubtsMean DEF Outcome
  <2> HIDE DEF c
  <2> QED
    BY <2>1, <2>2, <2>3, <2>4
<1>3. "FAIL" \in S <=> Unfit(r, q)
  <2>1. "FAIL" \in S <=>
          \/ StatusCheck(c) = "FAIL" \/ CategoryCheck(c, q) = "FAIL"
          \/ RegionCheck(c, q) = "FAIL" \/ LeadTimeCheck(c, q) = "FAIL"
          \/ InvoiceCheck(c, q) = "FAIL" \/ "FAIL" \in CapacityChecks(c, q)
          \/ "FAIL" \in DietaryChecks(c, q) \/ "FAIL" \in TagChecks(c, q)
    BY DoubtsMean
  <2>2. /\ StatusCheck(c) = "FAIL" <=> r.status # "ACTIVE"
        /\ CategoryCheck(c, q) = "FAIL" <=> r.categories # {} /\ q.category \notin r.categories
        /\ RegionCheck(c, q) = "FAIL" <=> AreasFor(q) \cap r.service_cities = {}
    BY ChecksMean
  <2>3. /\ "FAIL" \in CapacityChecks(c, q) <=>
             \/ r.minimum_people # Unset /\ ~(q.people_count >= r.minimum_people)
             \/ r.maximum_people # Unset /\ ~(q.people_count <= r.maximum_people)
        /\ LeadTimeCheck(c, q) = "FAIL" <=>
             /\ q.maximum_lead_time_hours # Unset /\ r.lead_time_hours # Unset
             /\ ~(r.lead_time_hours <= q.maximum_lead_time_hours)
        /\ InvoiceCheck(c, q) = "FAIL" <=>
             q.invoice_required /\ r.invoice_available # Unset /\ r.invoice_available # TRUE
    BY BoundsMean
  <2>4. /\ "FAIL" \in DietaryChecks(c, q) <=> \E d \in q.diets : r.dietary[d] = "unsupported"
        /\ "FAIL" \in TagChecks(c, q) <=> ~(q.tags \subseteq r.sustainability_tags)
    BY DemandsMean
  <2> HIDE DEF S, c
  <2> QED
    BY <2>1, <2>2, <2>3, <2>4 DEF Unfit
<1>4. (\A x \in S : x = "PASS") <=> Fit(r, q) /\ t - r.last_confirmed_at \in 0..MaxProfileAge
  <2>1. (\A x \in S : x = "PASS") <=>
          /\ StatusCheck(c) = "PASS" /\ CategoryCheck(c, q) = "PASS"
          /\ RegionCheck(c, q) = "PASS" /\ LeadTimeCheck(c, q) = "PASS"
          /\ InvoiceCheck(c, q) = "PASS" /\ FreshnessCheck(c, t) = "PASS"
          /\ MissingFieldsCheck(c, q) = "PASS" /\ CapacityChecks(c, q) \subseteq {"PASS"}
          /\ DietaryChecks(c, q) \subseteq {"PASS"} /\ TagChecks(c, q) \subseteq {"PASS"}
    OBVIOUS
  <2>2. CapacityChecks(c, q) \subseteq {"PASS"} <=> CapacityChecks(c, q) = {"PASS"}
    BY DEF CapacityChecks
  <2> HIDE DEF S
  <2>3. /\ StatusCheck(c) = "PASS" <=> r.status = "ACTIVE"
        /\ CategoryCheck(c, q) = "PASS" <=> q.category \in r.categories
        /\ RegionCheck(c, q) = "PASS" <=> AreasFor(q) \cap r.service_cities # {}
    BY ChecksMean
  <2>4. /\ CapacityChecks(c, q) = {"PASS"} <=>
             /\ r.minimum_people # Unset /\ q.people_count >= r.minimum_people
             /\ r.maximum_people # Unset /\ q.people_count <= r.maximum_people
        /\ LeadTimeCheck(c, q) = "PASS" <=>
             (q.maximum_lead_time_hours # Unset =>
                r.lead_time_hours # Unset /\ r.lead_time_hours <= q.maximum_lead_time_hours)
        /\ InvoiceCheck(c, q) = "PASS" <=>
             (q.invoice_required => r.invoice_available = TRUE)
    BY BoundsMean
  <2>5. /\ DietaryChecks(c, q) \subseteq {"PASS"} <=>
             \A d \in q.diets : r.dietary[d] = "supported"
        /\ TagChecks(c, q) \subseteq {"PASS"} <=> q.tags \subseteq r.sustainability_tags
    BY DemandsMean
  <2>6. /\ FreshnessCheck(c, t) = "PASS" <=> t - r.last_confirmed_at \in 0..MaxProfileAge
        /\ Fit(r, q) => MissingFieldsCheck(c, q) = "PASS"
    BY DoubtsMean
  <2> HIDE DEF c
  <2> QED
    BY <2>1, <2>2, <2>3, <2>4, <2>5, <2>6 DEF Fit
<1> HIDE DEF S
<1> QED
  BY <1>1, <1>2, <1>3, <1>4, DecisionMeans DEF c

\* The steps of the directory keep the types.
LEMMA SearchInvariant == SearchSpec => []SearchTypeOK
<1>1. SearchInit => SearchTypeOK
  BY RecordsAssumption DEF SearchInit, SearchTypeOK
<1>2. SearchTypeOK /\ [SearchNext]_searchVars => SearchTypeOK'
  <2> SUFFICES ASSUME SearchTypeOK, [SearchNext]_searchVars PROVE SearchTypeOK'
    OBVIOUS
  <2>1. ASSUME NEW r \in Records, Confirm(r) PROVE SearchTypeOK'
    BY <2>1, RecordsAssumption DEF Confirm, SearchTypeOK, Profile
  <2>2. CASE Lose
    <3>1. ASSUME NEW f \in Optional, record' = [record EXCEPT ![f] = Unset]
          PROVE  record' \in Profile /\ record'.last_confirmed_at = record.last_confirmed_at
      BY <3>1 DEF Optional, SearchTypeOK, Profile
    <3>2. ASSUME NEW f \in Lists, record' = [record EXCEPT ![f] = {}]
          PROVE  record' \in Profile /\ record'.last_confirmed_at = record.last_confirmed_at
      BY <3>2 DEF Lists, SearchTypeOK, Profile
    <3> QED
      BY <2>2, <3>1, <3>2 DEF Lose, SearchTypeOK
  <2>3. CASE Retire
    <3>1. ASSUME NEW s \in LifecycleStatus, record' = [record EXCEPT !.status = s]
          PROVE  record' \in Profile /\ record'.last_confirmed_at = record.last_confirmed_at
      BY <3>1 DEF SearchTypeOK, Profile
    <3>2. ASSUME record' = [record EXCEPT !.profile_confirmed = FALSE]
          PROVE  record' \in Profile /\ record'.last_confirmed_at = record.last_confirmed_at
      BY <3>2 DEF SearchTypeOK, Profile
    <3> QED
      BY <2>3, <3>1, <3>2 DEF Retire, SearchTypeOK, LifecycleStatus
  <2>4. CASE Tick
    BY <2>4 DEF Tick, SearchTypeOK, Profile
  <2>5. CASE UNCHANGED searchVars
    BY <2>5 DEF searchVars, SearchTypeOK
  <2> QED
    BY <2>1, <2>2, <2>3, <2>4, <2>5 DEF SearchNext
<1> QED
  BY <1>1, <1>2, PTL DEF SearchSpec

\* Whoever the directory returns and the engine recommends is known to suit the
\* search, and nobody who is known to suit it is left out, whether or not the
\* search names a district.
THEOREM AskedAreSuitable == SearchSpec => []AskedExactlyWhenSuitable
<1>1. SearchTypeOK => AskedExactlyWhenSuitable
  <2> SUFFICES ASSUME SearchTypeOK PROVE AskedExactlyWhenSuitable
    OBVIOUS
  <2>1. record \in Profile /\ criteria \in Criteria /\ now \in Nat
        /\ record.last_confirmed_at \in Int /\ record.last_confirmed_at <= now
    BY DEF SearchTypeOK, Profile
  <2>2. Verdict = "ELIGIBLE" <=>
          Fit(record, criteria) /\ now - record.last_confirmed_at \in 0..MaxProfileAge
    BY <2>1, VerdictMeans DEF Verdict
  <2>3. now - record.last_confirmed_at \in 0..MaxProfileAge <=>
          now - record.last_confirmed_at <= MaxProfileAge
    BY <2>1, MaxProfileAgeAssumption
  <2>4. /\ record.minimum_people \in Nat \cup {Unset}
        /\ record.maximum_people \in Nat \cup {Unset}
        /\ record.lead_time_hours \in Nat \cup {Unset}
        /\ criteria.people_count \in Nat
        /\ criteria.maximum_lead_time_hours \in Nat \cup {Unset}
    BY <2>1, CriteriaAssumption DEF Profile
  <2>5. Unset \notin Int
    BY UnsetAssumption
  <2>6. Between(record.minimum_people, criteria.people_count, record.maximum_people) <=>
          /\ record.minimum_people # Unset /\ criteria.people_count >= record.minimum_people
          /\ record.maximum_people # Unset /\ criteria.people_count <= record.maximum_people
    BY <2>4, <2>5 DEF Between
  <2>7. criteria.maximum_lead_time_hours # Unset =>
          (Between(0, record.lead_time_hours, criteria.maximum_lead_time_hours) <=>
             /\ record.lead_time_hours # Unset
             /\ record.lead_time_hours <= criteria.maximum_lead_time_hours)
    BY <2>4, <2>5 DEF Between
  <2>8. record.last_confirmed_at # Unset
    BY <2>1, <2>5
  <2>9. Found(record, criteria) <=>
          /\ record.status = "ACTIVE" /\ record.profile_confirmed
          /\ criteria.category \in record.categories
          /\ criteria.city \in record.service_cities
          /\ criteria.district # Unset =>
               \/ record.service_districts = {}
               \/ criteria.district \in record.service_districts
          /\ record.minimum_people # Unset => record.minimum_people <= criteria.people_count
          /\ record.maximum_people # Unset => criteria.people_count <= record.maximum_people
          /\ criteria.invoice_required => record.invoice_available = TRUE
          /\ (criteria.maximum_lead_time_hours # Unset /\ record.lead_time_hours # Unset)
               => record.lead_time_hours <= criteria.maximum_lead_time_hours
          /\ criteria.tags \subseteq record.sustainability_tags
    BY <2>8 DEF Found, Visible, Matches, ServesDistrict
  <2>10. criteria.people_count >= record.minimum_people <=>
           record.minimum_people <= criteria.people_count
    OBVIOUS
  <2>11. criteria.city \in record.service_cities =>
           AreasFor(criteria) \cap record.service_cities # {}
    BY DEF AreasFor
  <2> QED
    BY <2>2, <2>3, <2>6, <2>7, <2>9, <2>10, <2>11 DEF AskedExactlyWhenSuitable, Fit
<1> QED
  BY <1>1, SearchInvariant, PTL

\* Losing values or growing old makes nobody eligible, and excludes nobody but
\* a supplier that serves no city any more.
THEOREM IgnoranceIsNoAnswer == SearchSpec => IgnoranceNeverDecides
<1>1. SearchTypeOK /\ SearchTypeOK' /\ [SearchNext]_searchVars =>
        [(Lose \/ Tick) =>
           /\ Verdict' = "ELIGIBLE" => Verdict = "ELIGIBLE"
           /\ Verdict' = "EXCLUDED" =>
                Verdict = "EXCLUDED" \/ record'.service_cities # record.service_cities]_searchVars
  <2> SUFFICES ASSUME SearchTypeOK, SearchTypeOK', Lose \/ Tick
               PROVE  /\ Verdict' = "ELIGIBLE" => Verdict = "ELIGIBLE"
                      /\ Verdict' = "EXCLUDED" =>
                           \/ Verdict = "EXCLUDED"
                           \/ record'.service_cities # record.service_cities
    OBVIOUS
  <2>0. /\ record \in Profile /\ record' \in Profile
        /\ criteria \in Criteria /\ criteria' = criteria
        /\ now \in Nat /\ now' \in Nat
        /\ record.last_confirmed_at <= now
    BY DEF SearchTypeOK, Lose, Tick
  <2>1. /\ Verdict = "EXCLUDED" <=> Unfit(record, criteria)
        /\ Verdict = "ELIGIBLE" <=>
             Fit(record, criteria) /\ now - record.last_confirmed_at \in 0..MaxProfileAge
    BY <2>0, VerdictMeans DEF Verdict
  <2>2. /\ Verdict' = "EXCLUDED" <=> Unfit(record', criteria)
        /\ Verdict' = "ELIGIBLE" <=>
             Fit(record', criteria) /\ now' - record'.last_confirmed_at \in 0..MaxProfileAge
    BY <2>0, VerdictMeans DEF Verdict
  <2>3. CASE Tick
    <3>1. record' = record /\ now' = now + 1
      BY <2>3 DEF Tick
    <3>2. now' - record.last_confirmed_at \in 0..MaxProfileAge =>
            now - record.last_confirmed_at \in 0..MaxProfileAge
      BY <2>0, <3>1, MaxProfileAgeAssumption DEF Profile
    <3> QED
      BY <2>1, <2>2, <3>1, <3>2
  <2>4. ASSUME NEW f \in Optional, record' = [record EXCEPT ![f] = Unset], now' = now
        PROVE  /\ Verdict' = "ELIGIBLE" => Verdict = "ELIGIBLE"
               /\ Verdict' = "EXCLUDED" => Verdict = "EXCLUDED"
    <3>1. /\ \A g \in {"minimum_people", "maximum_people", "lead_time_hours",
                       "invoice_available"} : record'[g] \in {record[g], Unset}
          /\ \A g \in {"status", "categories", "service_cities", "dietary",
                       "sustainability_tags", "last_confirmed_at"} : record'[g] = record[g]
      BY <2>0, <2>4 DEF Optional, Profile
    <3>2. Fit(record', criteria) => Fit(record, criteria)
      BY <3>1, UnsetAssumption DEF Fit
    <3>3. Unfit(record', criteria) => Unfit(record, criteria)
      BY <3>1 DEF Unfit
    <3> QED
      BY <2>1, <2>2, <2>4, <3>1, <3>2, <3>3
  <2>5. ASSUME NEW f \in Lists, record' = [record EXCEPT ![f] = {}], now' = now
        PROVE  /\ Verdict' = "ELIGIBLE" => Verdict = "ELIGIBLE"
               /\ Verdict' = "EXCLUDED" =>
                    Verdict = "EXCLUDED" \/ record'.service_cities # record.service_cities
    <3>1. /\ \A g \in {"categories", "service_cities"} : record'[g] \in {record[g], {}}
          /\ \A g \in {"status", "minimum_people", "maximum_people", "lead_time_hours",
                       "invoice_available", "dietary", "sustainability_tags",
                       "last_confirmed_at"} : record'[g] = record[g]
      BY <2>0, <2>5 DEF Lists, Profile
    <3>2. Fit(record', criteria) => Fit(record, criteria)
      BY <3>1 DEF Fit
    <3>3. record'.service_cities = record.service_cities =>
            (Unfit(record', criteria) => Unfit(record, criteria))
      BY <3>1 DEF Unfit
    <3> QED
      BY <2>1, <2>2, <2>5, <3>1, <3>2, <3>3
  <2> QED
    BY <2>3, <2>4, <2>5 DEF Lose
<1> QED
  BY <1>1, SearchInvariant, PTL DEF SearchSpec, IgnoranceNeverDecides
=============================================================================
