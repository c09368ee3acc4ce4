-------------------------- MODULE MaterialExtraction --------------------------
(***************************************************************************)
(* Uploaded materials of suppliers: the content-addressed storage, the     *)
(* documents and their statuses, the queue of extraction jobs and the      *)
(* requests that work it off.  Every await of ingest_file and process_next *)
(* is a place where other requests run or the request is cancelled; a      *)
(* cancellation passes by the handler of process_next, which catches       *)
(* Exception only.                                                         *)
(***************************************************************************)
EXTENDS ExtractionRules

CONSTANTS
  Document,      \* uploads, each its own document with one job
  Tenant,        \* their tenants
  Content,       \* file contents, equal ones having equal digests
  Worker,        \* requests that process extractions
  Response,      \* what the provider may answer
  MaxCancels     \* bound on cancelled requests and failures of the event sink

\* A model's claims quote passages of the file, a sheet's cells are its raw texts.
ASSUME ResponseAssumption ==
  \A r \in Response :
    \/ /\ r.kind = "model"
       /\ r.items \in Seq([field : STRING,
                           claim : [value : STRING \cup {Nothing}, status : STRING,
                                    confidence : 0..100 \cup {Nothing},
                                    evidence : SUBSET (STRING \ DOMAIN Normal)]])
    \/ /\ r.kind = "sheet"
       /\ r.items \in Seq([field : Critical, raw : DOMAIN Normal])

\* What an extraction may find: the fields of an answer that is accepted.
Findings ==
  {Finalize(ModelFields(r.items)) :
     r \in {s \in Response : s.kind = "model" /\ ModelAccepts(s.items)}}
  \cup {Finalize(SheetFields(r.items)) : r \in {s \in Response : s.kind = "sheet"}}

VARIABLES
  blobs,    \* stored <<tenant, content>>
  upload,   \* the progress of each upload
  status,   \* the status of each document
  queue,    \* documents whose job is queued
  work,     \* the progress of each worker
  run,      \* the extraction run of each document
  events,   \* the extraction events
  cancels   \* requests cut short so far

vars == <<blobs, upload, status, queue, work, run, events, cancels>>

NoUpload == [at |-> "none"]

NoRun == [status |-> "NONE"]

Free == [at |-> "free"]

Init ==
  /\ blobs = {}
  /\ upload = [d \in Document |-> NoUpload]
  /\ status = [d \in Document |-> "NONE"]
  /\ queue = {}
  /\ work = [w \in Worker |-> Free]
  /\ run = [d \in Document |-> NoRun]
  /\ events = {}
  /\ cancels = 0

\* _ALLOWED_TRANSITIONS
Allowed ==
  {<<"STORED", "EXTRACTION_QUEUED">>, <<"EXTRACTION_QUEUED", "EXTRACTING">>,
   <<"EXTRACTING", "EXTRACTED">>, <<"EXTRACTING", "EXTRACTION_FAILED">>,
   <<"EXTRACTED", "AWAITING_SUPPLIER_REVIEW">>}

-----------------------------------------------------------------------------
\* ingest_file

\* A valid material is looked for in the storage; one that is there is reused.
Upload(d, t, x) ==
  /\ upload[d] = NoUpload
  /\ upload' = [upload EXCEPT ![d] =
                  [at |-> IF <<t, x>> \in blobs THEN "stored" ELSE "writing",
                   blob |-> <<t, x>>, reused |-> <<t, x>> \in blobs]]
  /\ UNCHANGED <<blobs, status, queue, work, run, events, cancels>>

LinkFails(blob) == blob \in blobs

\* The temporary file becomes the blob unless another upload was faster.  The
\* thread that writes it outlives its request.
Store(d) ==
  /\ upload[d].at \in {"writing", "orphaned"}
  /\ blobs' = blobs \cup {upload[d].blob}
  /\ upload' = [upload EXCEPT ![d] =
                  [at |-> IF upload[d].at = "writing" THEN "stored" ELSE "cancelled",
                   blob |-> upload[d].blob, reused |-> LinkFails(upload[d].blob)]]
  /\ UNCHANGED <<status, queue, work, run, events, cancels>>

MayRecord(d) == upload[d].at = "stored"

Record(d) ==
  /\ MayRecord(d)
  /\ status' = [status EXCEPT ![d] = "STORED"]
  /\ upload' = [upload EXCEPT ![d].at = "recorded"]
  /\ UNCHANGED <<blobs, queue, work, run, events, cancels>>

MayEnqueue(d) == upload[d].at = "recorded"

Enqueue(d) ==
  /\ MayEnqueue(d)
  /\ queue' = queue \cup {d}
  /\ upload' = [upload EXCEPT ![d].at = "enqueued"]
  /\ UNCHANGED <<blobs, status, work, run, events, cancels>>

\* Only now does the document say that it is queued.
MarkQueued(d) ==
  /\ upload[d].at = "enqueued"
  /\ <<status[d], "EXTRACTION_QUEUED">> \in Allowed
  /\ status' = [status EXCEPT ![d] = "EXTRACTION_QUEUED"]
  /\ upload' = [upload EXCEPT ![d].at = "done"]
  /\ UNCHANGED <<blobs, queue, work, run, events, cancels>>

-----------------------------------------------------------------------------
\* process_next

\* Worker w goes from one await to the next.
Advance(w, from, to) ==
  /\ work[w].at = from
  /\ work' = [work EXCEPT ![w] = IF to = "free" THEN Free ELSE [@ EXCEPT !.at = to]]

\* Document d moves to a status; what is not allowed raises.
Moves(d, to) ==
  /\ <<status[d], to>> \in Allowed
  /\ status' = [status EXCEPT ![d] = to]

\* Mutant: the job stays in the queue.
Rest_Kept(d) == queue

Rest(d) == queue \ {d}

\* The job is taken from the queue, also before its upload has returned.
Claim(w, d) ==
  /\ work[w] = Free
  /\ d \in queue
  /\ queue' = Rest(d)
  /\ work' = [work EXCEPT ![w] = [at |-> "claimed", doc |-> d]]
  /\ UNCHANGED <<blobs, upload, status, run, events, cancels>>

\* The document starts extracting; when it may not, the job is lost.
Start(w) ==
  LET d == work[w].doc IN
  /\ \/ Advance(w, "claimed", "started") /\ Moves(d, "EXTRACTING")
     \/ /\ Advance(w, "claimed", "free")
        /\ <<status[d], "EXTRACTING">> \notin Allowed
        /\ UNCHANGED status
  /\ UNCHANGED <<blobs, upload, queue, run, events, cancels>>

StartRun(w) ==
  /\ Advance(w, "started", "announcing")
  /\ run' = [run EXCEPT ![work[w].doc] = [status |-> "EXTRACTING"]]
  /\ UNCHANGED <<blobs, upload, status, queue, events, cancels>>

\* The provider answers with fields, or with something that is refused, or
\* not at all: that is handled as a failure.
Extract(w) ==
  /\ \/ /\ work[w].at = "extracting"
        /\ \E found \in Findings :
             work' = [work EXCEPT ![w] =
                        [at |-> "extracted", doc |-> work[w].doc, fields |-> found]]
     \/ Advance(w, "extracting", "failing")
  /\ UNCHANGED <<blobs, upload, status, queue, run, events, cancels>>

CompleteRun(w) ==
  /\ Advance(w, "extracted", "completed")
  /\ run' = [run EXCEPT ![work[w].doc] = [status |-> "COMPLETED", fields |-> work[w].fields]]
  /\ UNCHANGED <<blobs, upload, status, queue, events, cancels>>

MarkExtracted(w) ==
  /\ Advance(w, "completed", "marked")
  /\ Moves(work[w].doc, "EXTRACTED")
  /\ UNCHANGED <<blobs, upload, queue, run, events, cancels>>

MarkAwaiting(w) ==
  /\ Advance(w, "marked", "reviewable")
  /\ Moves(work[w].doc, "AWAITING_SUPPLIER_REVIEW")
  /\ UNCHANGED <<blobs, upload, queue, run, events, cancels>>

\* Mutant: the failure is recorded whatever the document's status.
MayFail_Always(d) == TRUE

MayFail(d) == <<status[d], "EXTRACTION_FAILED">> \in Allowed

\* The handler marks the document; when it may not, the request fails there.
MarkFailed(w) ==
  LET d == work[w].doc IN
  /\ \/ /\ Advance(w, "failing", "failed") /\ MayFail(d)
        /\ status' = [status EXCEPT ![d] = "EXTRACTION_FAILED"]
     \/ /\ Advance(w, "failing", "free") /\ ~MayFail(d)
        /\ UNCHANGED status
  /\ UNCHANGED <<blobs, upload, queue, run, events, cancels>>

FailRun(w) ==
  /\ Advance(w, "failed", "reporting")
  /\ run' = [run EXCEPT ![work[w].doc] = [status |-> "FAILED"]]
  /\ UNCHANGED <<blobs, upload, status, queue, events, cancels>>

\* The events that await the sink, and where the request goes from there.
Announcement ==
  {[at |-> "announcing", event |-> "STARTED", next |-> "extracting"],
   [at |-> "reviewable", event |-> "COMPLETED", next |-> "free"],
   [at |-> "reporting", event |-> "FAILED", next |-> "free"]}

Announce(w) ==
  /\ \E a \in Announcement : /\ Advance(w, a.at, a.next)
                             /\ events' = events \cup {<<a.event, work[w].doc>>}
  /\ UNCHANGED <<blobs, upload, status, queue, run, cancels>>

\* The sink fails: the announcement of a completed extraction is inside the
\* try, the others end the request.
SinkFails(w) ==
  /\ cancels < MaxCancels
  /\ cancels' = cancels + 1
  /\ \/ Advance(w, "announcing", "free")
     \/ Advance(w, "reviewable", "failing")
     \/ Advance(w, "reporting", "free")
  /\ UNCHANGED <<blobs, upload, status, queue, run, events>>

-----------------------------------------------------------------------------
\* Requests are cut short at any await.
CancelWork(w) ==
  /\ work[w] # Free
  /\ cancels < MaxCancels
  /\ cancels' = cancels + 1
  /\ work' = [work EXCEPT ![w] = Free]
  /\ UNCHANGED <<blobs, upload, status, queue, run, events>>

CancelUpload(d) ==
  /\ upload[d].at \in {"writing", "stored", "recorded", "enqueued"}
  /\ cancels < MaxCancels
  /\ cancels' = cancels + 1
  /\ upload' = [upload EXCEPT ![d].at =
                  IF upload[d].at = "writing" THEN "orphaned" ELSE "cancelled"]
  /\ UNCHANGED <<blobs, status, queue, work, run, events>>

UploadStep(d) == Store(d) \/ Record(d) \/ Enqueue(d) \/ MarkQueued(d)

WorkStep(w) ==
  \/ \E d \in Document : Claim(w, d)
  \/ Start(w) \/ StartRun(w) \/ Extract(w) \/ CompleteRun(w) \/ MarkExtracted(w)
  \/ MarkAwaiting(w) \/ MarkFailed(w) \/ FailRun(w) \/ Announce(w)

Next ==
  \/ \E d \in Document :
       (\E t \in Tenant, x \in Content : Upload(d, t, x)) \/ UploadStep(d) \/ CancelUpload(d)
  \/ \E w \in Worker : WorkStep(w) \/ SinkFails(w) \/ CancelWork(w)

Spec == Init /\ [][Next]_vars

\* An upload that has begun and a request that processes go on; extractions
\* are asked for as long as jobs are queued.
FairSpec ==
  /\ Spec
  /\ \A d \in Document : WF_vars(UploadStep(d))
  /\ \A w \in Worker : WF_vars(WorkStep(w))

-----------------------------------------------------------------------------
\* Properties.

\* However far a request got, document and run never contradict each other:
\* what awaits review was extracted by a completed run, and a failed document
\* has no completed run, nor a reviewable one a failed run.
RunAgreesWithDocument ==
  \A d \in Document :
    /\ status[d] \in {"EXTRACTED", "AWAITING_SUPPLIER_REVIEW"} => run[d].status = "COMPLETED"
    /\ status[d] = "EXTRACTION_FAILED" => run[d].status # "COMPLETED"
    /\ run[d].status = "FAILED" => status[d] = "EXTRACTION_FAILED"

\* What a claim of a value rests on: it cites a place, it is not doubtful, and
\* every spreadsheet cell it cites says the same.
Backed(claim) ==
  claim.status # "not_found" =>
    /\ claim.evidence # {}
    /\ ~Doubtful(claim)
    /\ claim.status = "extracted" =>
         \A raw \in claim.evidence \cap DOMAIN Normal : Normal[raw] = claim.value

\* A value the supplier is shown as found is backed by its original, which is in
\* the storage whatever other uploads did.
Supported(d, claim) ==
  Backed(claim) /\ (claim.status # "not_found" => upload[d].blob \in blobs)

\* Every critical field of a document that awaits review has a claim, found
\* and supported or not found, whatever the provider answered.
ReviewsAreSupported ==
  \A d \in Document : status[d] = "AWAITING_SUPPLIER_REVIEW" =>
    \A f \in Critical : f \in DOMAIN run[d].fields /\ Supported(d, run[d].fields[f])

Settled(d) == status[d] \in {"AWAITING_SUPPLIER_REVIEW", "EXTRACTION_FAILED"}

\* A document that says it is queued, with its job still in the queue, is
\* extracted in the end or fails, unless a request is cut short.
QueuedDocumentsSettle ==
  \A d \in Document :
    (status[d] = "EXTRACTION_QUEUED" /\ d \in queue) ~> (Settled(d) \/ cancels > 0)

-----------------------------------------------------------------------------
(* What makes the invariants inductive *)

\* The stages of an upload after which its document exists.
Documented == {"recorded", "enqueued", "done", "cancelled"}

\* What the status of a document says about its run.
DocumentWithRun ==
  ({"NONE", "STORED", "EXTRACTION_QUEUED"} \X {"NONE"})
  \cup ({"EXTRACTING"} \X {"NONE", "EXTRACTING", "COMPLETED"})
  \cup ({"EXTRACTED", "AWAITING_SUPPLIER_REVIEW"} \X {"COMPLETED"})
  \cup ({"EXTRACTION_FAILED"} \X {"EXTRACTING", "FAILED"})

\* Where a request may be, with the status of its document and of the run.
Stage ==
  {<<"claimed", "STORED", "NONE">>, <<"claimed", "EXTRACTION_QUEUED", "NONE">>,
   <<"started", "EXTRACTING", "NONE">>, <<"announcing", "EXTRACTING", "EXTRACTING">>,
   <<"extracting", "EXTRACTING", "EXTRACTING">>, <<"extracted", "EXTRACTING", "EXTRACTING">>,
   <<"completed", "EXTRACTING", "COMPLETED">>, <<"marked", "EXTRACTED", "COMPLETED">>,
   <<"reviewable", "AWAITING_SUPPLIER_REVIEW", "COMPLETED">>,
   <<"failing", "EXTRACTING", "EXTRACTING">>,
   <<"failing", "AWAITING_SUPPLIER_REVIEW", "COMPLETED">>,
   <<"failed", "EXTRACTION_FAILED", "EXTRACTING">>,
   <<"reporting", "EXTRACTION_FAILED", "FAILED">>}

Place == {s[1] : s \in Stage}

\* An upload that has begun, and a request that extracts.
Uploading ==
  [at : Documented \cup {"writing", "stored", "orphaned"},
   blob : Tenant \X Content, reused : BOOLEAN]

Working ==
  [at : Place, doc : Document] \cup [at : Place, doc : Document, fields : Findings]

\* Uploads, documents, runs and requests have the shapes the code gives them.
ExtractionTypeOK ==
  /\ upload \in [Document -> {NoUpload} \cup Uploading]
  /\ DOMAIN status = Document /\ DOMAIN run = Document
  /\ \A d \in Document : <<status[d], run[d].status>> \in DocumentWithRun
  /\ queue \subseteq Document
  /\ work \in [Worker -> {Free} \cup Working]

\* A document exists once its original is stored, and nobody is to extract it
\* before its upload has asked for that.
DocumentsAreUploads ==
  \A d \in Document :
    /\ upload[d].at = "stored" => upload[d].blob \in blobs
    /\ status[d] = "NONE" => upload[d].at \notin {"recorded", "enqueued", "done"}
    /\ status[d] # "NONE" => upload[d].at \in Documented /\ upload[d].blob \in blobs
    /\ upload[d].at \in {"recorded", "enqueued"} => status[d] = "STORED"
    /\ d \in queue => /\ upload[d].at \in {"enqueued", "done", "cancelled"}
                      /\ status[d] \in {"STORED", "EXTRACTION_QUEUED"}

\* A request that extracts a document has it alone and is where document and run
\* say; so a run is completed or failed only while it extracts.
WorkersFollowTheirDocuments ==
  \A w \in Worker : work[w] # Free =>
    LET d == work[w].doc IN
    /\ <<work[w].at, status[d], run[d].status>> \in Stage
    /\ d \notin queue
    /\ upload[d].at \in {"enqueued", "done", "cancelled"}
    /\ work[w].at = "extracted" => work[w].fields \in Findings
    /\ \A v \in Worker \ {w} : work[v] # Free => work[v].doc # d

\* What a completed run holds was found.
RunsHoldFindings ==
  \A d \in Document : run[d].status = "COMPLETED" => run[d].fields \in Findings

ExtractionInv ==
  /\ ExtractionTypeOK
  /\ DocumentsAreUploads
  /\ WorkersFollowTheirDocuments
  /\ RunsHoldFindings
=============================================================================
