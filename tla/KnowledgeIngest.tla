--------------------------- MODULE KnowledgeIngest --------------------------
(***************************************************************************)
(* Uploading, ingesting and removing documents in apps/ai-service.  A Bull *)
(* job replaces the chunks of its document in the vector collection and    *)
(* then marks the document; Bull repeats what fails and what stalls.       *)
(***************************************************************************)
EXTENDS ServiceCalls

CONSTANTS
  Documents,      \* bound: the documents uploaded
  LastChunk,      \* the number of chunks of each document
  MaxAttempts     \* attempts, of the queue's options

ASSUME IngestAssumption ==
  "undefined" \notin Documents /\ LastChunk \in Nat \ {0} /\ MaxAttempts \in Nat \ {0}

VARIABLES
  document,  \* knowledge_documents: the status of each document, or "none"
  chunks,    \* knowledge_chunks: the indices stored under each documentId
  job,       \* job[d]: the Bull job of document d
  ingest,    \* ingest[c]: a run of IngestDocumentUseCase in a worker
  removal,   \* removal[d]: how far DELETE knowledge/documents/d is
  removedAmid,   \* history: keys of chunks whose document was removed amid its ingestion
  stalled    \* history: documents whose job was handed out again during a run

ingestVars == <<document, chunks, job, ingest, removal, removedAmid, stalled, callFaults>>

\* The documentId of a chunk.  A run that does not find its document goes on
\* with a new one that has no id.
Keys == Documents \cup {"undefined"}

\* Chunks are numbered from the text, so that their ids are the same each time.
ChunksOf == 1..LastChunk

NoRun == [pc |-> "idle", doc |-> "undefined", key |-> "undefined", locked |-> FALSE]
InFlight(d) == {c \in Calls : ingest[c].pc # "idle" /\ ingest[c].doc = d}
IngestStep(c, from, to) ==
  ingest[c].pc = from /\ ingest' = [ingest EXCEPT ![c].pc = to]

IngestInit ==
  /\ document = [d \in Documents |-> "none"]
  /\ chunks = [k \in Keys |-> {}]
  /\ job = [d \in Documents |-> [state |-> "none", attempts |-> 0, stalls |-> 0]]
  /\ ingest = [c \in Calls |-> NoRun]
  /\ removal = [d \in Documents |-> "none"]
  /\ removedAmid = {}
  /\ stalled = {}
  /\ callFaults = 0

-----------------------------------------------------------------------------
(* KnowledgeController                                                     *)

Upload(d) ==
  /\ document[d] = "none" /\ removal[d] = "none" /\ job[d].state = "none"
  /\ document' = [document EXCEPT ![d] = "pending"]
  /\ job' = [job EXCEPT ![d].state = "enqueue"]
  /\ UNCHANGED <<chunks, ingest, removal, removedAmid, stalled, callFaults>>

Enqueue(d) ==
  /\ job[d].state = "enqueue"
  /\ job' = [job EXCEPT ![d].state = "waiting"]
  /\ UNCHANGED <<document, chunks, ingest, removal, removedAmid, stalled, callFaults>>

\* The upload is answered with an error; the document stays, PENDING.
EnqueueThrows(d) ==
  /\ job[d].state = "enqueue"
  /\ JobFault
  /\ job' = [job EXCEPT ![d].state = "failed"]
  /\ UNCHANGED <<document, chunks, ingest, removal, removedAmid, stalled>>

Unfinished(d) == job[d].state \in {"enqueue", "waiting", "active"} \/ InFlight(d) # {}

\* Mutant: the chunks are left to the next ingestion.
RemoveNoChunks(d) ==
  /\ document[d] # "none" /\ removal[d] = "none"
  /\ removal' = [removal EXCEPT ![d] = "chunks"]
  /\ removedAmid' = IF Unfinished(d) THEN removedAmid \cup {d, "undefined"} ELSE removedAmid
  /\ UNCHANGED <<document, chunks, job, ingest, stalled, callFaults>>

\* remove: first the chunks, then the document.
RemoveChunks(d) ==
  /\ document[d] # "none" /\ removal[d] = "none"
  /\ chunks' = [chunks EXCEPT ![d] = {}]
  /\ removal' = [removal EXCEPT ![d] = "chunks"]
  /\ removedAmid' = IF Unfinished(d) THEN removedAmid \cup {d, "undefined"} ELSE removedAmid
  /\ UNCHANGED <<document, job, ingest, stalled, callFaults>>

RemoveDocument(d) ==
  /\ removal[d] = "chunks"
  /\ document' = [document EXCEPT ![d] = "none"]
  /\ removal' = [removal EXCEPT ![d] = "done"]
  /\ UNCHANGED <<chunks, job, ingest, removedAmid, stalled, callFaults>>

RemoveThrows(d) ==
  /\ removal[d] = "chunks"
  /\ JobFault
  /\ removal' = [removal EXCEPT ![d] = "broken"]
  /\ UNCHANGED <<document, chunks, job, ingest, removedAmid, stalled>>

-----------------------------------------------------------------------------
(* IngestConsumer and IngestDocumentUseCase                                *)

TakeJob(c, d) ==
  /\ ingest[c] = NoRun /\ job[d].state = "waiting"
  /\ job' = [job EXCEPT ![d].state = "active", ![d].attempts = @ + 1]
  /\ ingest' = [ingest EXCEPT ![c] = [pc |-> "find", doc |-> d, key |-> d, locked |-> TRUE]]
  /\ UNCHANGED <<document, chunks, removal, removedAmid, stalled, callFaults>>

FindById(c) ==
  /\ ingest[c].pc = "find"
  /\ ingest' = [ingest EXCEPT ![c].pc = "delete",
       ![c].key = IF document[ingest[c].doc] = "none" THEN "undefined" ELSE @]
  /\ UNCHANGED <<document, chunks, job, removal, removedAmid, stalled, callFaults>>

\* The text has been read, scanned, split and embedded without an await on the
\* stores; what goes wrong there is caught here.
PrepareThrows(c) ==
  /\ IngestStep(c, "delete", "markFailed")
  /\ JobFault
  /\ UNCHANGED <<document, chunks, job, removal, removedAmid, stalled>>

DeleteByDocumentId(c) ==
  /\ IngestStep(c, "delete", "upsert")
  /\ chunks' = [chunks EXCEPT ![ingest[c].key] = {}]
  /\ UNCHANGED <<document, job, removal, removedAmid, stalled, callFaults>>

Upsert(c) ==
  /\ IngestStep(c, "upsert", "markProcessed")
  /\ chunks' = [chunks EXCEPT ![ingest[c].key] = ChunksOf]
  /\ UNCHANGED <<document, job, removal, removedAmid, stalled, callFaults>>

\* Mutant: a rejected bulkWrite is swallowed.
UpsertSwallows(c) ==
  /\ JobFault
  /\ IngestStep(c, "upsert", "markProcessed")
  /\ \E n \in 0..(LastChunk - 1) :
       chunks' = [chunks EXCEPT ![ingest[c].key] = @ \cup 1..n]
  /\ UNCHANGED <<document, job, removal, removedAmid, stalled>>

\* bulkWrite stops at the operation that fails.
UpsertThrows(c) ==
  /\ JobFault
  /\ IngestStep(c, "upsert", "markFailed")
  /\ \E n \in 0..(LastChunk - 1) :
       chunks' = [chunks EXCEPT ![ingest[c].key] = @ \cup 1..n]
  /\ UNCHANGED <<document, job, removal, removedAmid, stalled>>

\* update: without effect if the document is gone, or never had an id.
Update(k, status) ==
  IF k \in Documents /\ document[k] # "none" THEN [document EXCEPT ![k] = status] ELSE document

\* What Bull does at the end of a run that still holds the job's lock.
Finish(c, ok) ==
  LET j == job[ingest[c].doc] IN
  /\ ingest' = [ingest EXCEPT ![c] = NoRun]
  /\ job' = IF ~ingest[c].locked THEN job
            ELSE [job EXCEPT ![ingest[c].doc].state =
                   IF ok THEN "completed" ELSE IF j.attempts < MaxAttempts THEN "waiting" ELSE "failed"]

MarkProcessed(c) ==
  /\ ingest[c].pc = "markProcessed"
  /\ document' = Update(ingest[c].key, "processed")
  /\ Finish(c, TRUE)
  /\ UNCHANGED <<chunks, removal, removedAmid, stalled, callFaults>>

MarkFailed(c) ==
  /\ ingest[c].pc = "markFailed"
  /\ document' = Update(ingest[c].key, "failed")
  /\ Finish(c, FALSE)
  /\ UNCHANGED <<chunks, removal, removedAmid, stalled, callFaults>>

\* The last update is returned without await, so that its rejection, like one of
\* the first query or of the update to failed, leaves the status as it is.
RunThrows(c) ==
  /\ ingest[c].pc \in {"find", "markProcessed", "markFailed"}
  /\ JobFault
  /\ Finish(c, FALSE)
  /\ UNCHANGED <<document, chunks, removal, removedAmid, stalled>>

\* Bull finds the job without a lock: it hands it out again, once.
StallJob(d) ==
  job' = [job EXCEPT ![d].stalls = @ + 1,
            ![d].state = IF job[d].stalls < MaxStalledCount THEN "waiting" ELSE "failed"]

\* A worker that blocks for long loses its lock while the run goes on.
Stall(c) ==
  /\ ingest[c].pc # "idle" /\ ingest[c].locked
  /\ JobFault
  /\ ingest' = [ingest EXCEPT ![c].locked = FALSE]
  /\ StallJob(ingest[c].doc)
  /\ stalled' = stalled \cup {ingest[c].doc}
  /\ UNCHANGED <<document, chunks, removal, removedAmid>>

\* The worker dies, after its last update perhaps: Bull finds the job stalled.
WorkerDies(c) ==
  /\ ingest[c].pc # "idle"
  /\ JobFault
  /\ document' \in {document} \cup IF ingest[c].pc # "markProcessed" THEN {}
                                   ELSE {Update(ingest[c].key, "processed")}
  /\ ingest' = [ingest EXCEPT ![c] = NoRun]
  /\ IF ingest[c].locked THEN StallJob(ingest[c].doc) ELSE UNCHANGED job
  /\ UNCHANGED <<chunks, removal, removedAmid, stalled>>

IngestNext ==
  \/ \E d \in Documents : \/ Upload(d) \/ Enqueue(d) \/ EnqueueThrows(d)
                          \/ RemoveChunks(d) \/ RemoveDocument(d) \/ RemoveThrows(d)
  \/ \E c \in Calls : \/ \E d \in Documents : TakeJob(c, d)
                      \/ FindById(c) \/ PrepareThrows(c) \/ DeleteByDocumentId(c)
                      \/ Upsert(c) \/ UpsertThrows(c) \/ MarkProcessed(c) \/ MarkFailed(c)
                      \/ RunThrows(c) \/ Stall(c) \/ WorkerDies(c)

IngestSpec == IngestInit /\ [][IngestNext]_ingestVars

-----------------------------------------------------------------------------
IngestTypeOK ==
  /\ document \in [Documents -> {"none", "pending", "processed", "failed"}]
  /\ chunks \in [Keys -> SUBSET ChunksOf]
  /\ job \in [Documents -> [state : {"none", "enqueue", "waiting", "active", "completed", "failed"},
                            attempts : Nat, stalls : Nat]]
  /\ ingest \in [Calls -> [pc : {"idle", "find", "delete", "upsert", "markProcessed", "markFailed"},
                           doc : Keys, key : Keys, locked : BOOLEAN]]
  /\ removal \in [Documents -> {"none", "chunks", "done", "broken"}]
  /\ removedAmid \subseteq Keys /\ stalled \subseteq Documents

\* When no job or run of a document is left, it is answered as processed only if
\* all its chunks can be found, whatever died, was repeated or overlapped; except
\* where a run that had lost its job, or the last attempt, met another fault.
ProcessedHasAllChunks ==
  \A d \in Documents :
    (/\ document[d] = "processed" /\ removal[d] = "none" /\ ~Unfinished(d)
     /\ (d \in stalled \/ job[d].state = "failed") => callFaults < 2) => chunks[d] = ChunksOf

\* No chunk is found by a search whose document is gone, unless the document was
\* removed while its job was waiting or running.
OrphansOnlyByRace ==
  \A k \in Keys :
    (chunks[k] # {} /\ (k = "undefined" \/ document[k] = "none")) => k \in removedAmid

=============================================================================
