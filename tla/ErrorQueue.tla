----------------------------- MODULE ErrorQueue -----------------------------
(***************************************************************************)
(* The queue of frontend errors of the Windows client: the file            *)
(* frontend-errors.dat (cmd/client/store.go), ReportFrontendError and      *)
(* flushFrontendErrors (runtime_app.go), which share queueMu, ClearAllData *)
(* of Reactivate and Uninstall, which does not take it, and the handler    *)
(* ingestClientErrors of the server.                                       *)
(*                                                                         *)
(* A batch is uploaded when an error is reported, when the client starts   *)
(* and when it is activated, at no other time.  The file is written in     *)
(* place (writeProtectedFile): a write that is cut short leaves a file     *)
(* that nothing but ClearAllData removes.                                  *)
(***************************************************************************)
EXTENDS Naturals, Sequences, FiniteSets, SequencesExt

CONSTANTS
  Errors,      \* eventIds of the errors of the frontend
  Oversized,   \* those the server refuses: a message of more than 8192 bytes...
  Large,       \* those near these limits, about 41 KB
  BodyLimit,   \* how many of them one request may have (decodeJSON: 1 MiB)
  QueueLimit,  \* 200 in the code
  MaxFlushes,  \* bound of the goroutines that wait for queueMu
  Torn         \* content of a file that was not written to its end

ASSUME OversizedAssumption == Oversized \subseteq Errors /\ Large \subseteq Errors
ASSUME BodyLimitAssumption == BodyLimit \in Nat \ {0}
ASSUME QueueLimitAssumption == QueueLimit \in Nat \ {0}
ASSUME MaxFlushesAssumption == MaxFlushes \in Nat \ {0}

VARIABLES
  queue,     \* content of frontend-errors.dat, <<>> without the file
  activated, \* state.dat names a server and a token
  queueMu,   \* which function holds it, or "free"
  adding,    \* the content that ReportFrontendError is about to write
  batch,     \* the content that flushFrontendErrors is uploading
  answer,    \* of the server to this batch
  flushes,   \* goroutines that wait to run flushFrontendErrors
  clearing,  \* ClearAllData has removed state.dat and not yet the queue
  stored,    \* rows of frontend_errors
  reported,  \* errors for which ReportFrontendError has returned nil
  gone       \* errors pushed out by newer ones, lost in a torn file, or erased

uploadVars == <<batch, answer, stored>>
historyVars == <<reported, gone>>
errorVars == <<queue, activated, queueMu, adding, flushes, clearing, uploadVars, historyVars>>

Batches == UNION {[1..n -> Errors] : n \in 0..QueueLimit}

ASSUME TornAssumption == Torn \notin Batches

ErrorsTypeOK ==
  /\ queue \in Batches \cup {Torn}
  /\ activated \in BOOLEAN /\ clearing \in BOOLEAN
  /\ queueMu \in {"free", "append", "flush"}
  /\ adding \in Batches /\ (adding # <<>> <=> queueMu = "append")
  /\ batch \in Batches /\ (batch # <<>> <=> queueMu = "flush")
  /\ answer \in {"none", "accepted", "refused"}
  /\ flushes \in 0..MaxFlushes
  /\ stored \subseteq Errors \ Oversized
  /\ reported \subseteq Errors /\ gone \subseteq Errors

ErrorsInit ==
  /\ queue = <<>> /\ activated = FALSE
  /\ queueMu = "free" /\ adding = <<>> /\ batch = <<>> /\ answer = "none"
  /\ flushes = 1 /\ clearing = FALSE
  /\ stored = {} /\ reported = {} /\ gone = {}

Queued == IF queue = Torn THEN {} ELSE ToSet(queue)

\* One that is more than MaxFlushes would only repeat the one before it.
StartFlush == flushes' = IF flushes < MaxFlushes THEN flushes + 1 ELSE flushes

-----------------------------------------------------------------------------
(* ReportFrontendError *)

\* The newest errors, as many as may be kept.
Newest(items) ==
  IF Len(items) > QueueLimit THEN Tail(items) ELSE items

Displaced == IF Len(queue) = QueueLimit THEN {Head(queue)} ELSE {}

EndAppend == queueMu' = "free" /\ adding' = <<>>

\* A torn file makes AppendFrontendError fail.
ReadQueue(e) ==
  /\ queueMu = "free" /\ queue # Torn
  /\ e \notin reported \cup Queued \cup stored \cup gone
  /\ queueMu' = "append" /\ adding' = Newest(Append(queue, e))
  /\ UNCHANGED <<queue, activated, flushes, clearing, uploadVars, historyVars>>

WriteQueue ==
  /\ queueMu = "append" /\ EndAppend
  /\ queue' = adding /\ gone' = gone \cup Displaced
  /\ reported' = reported \cup {Last(adding)}
  /\ StartFlush
  /\ UNCHANGED <<activated, clearing, uploadVars>>

\* The file is as before, or torn.
WriteFails ==
  /\ queueMu = "append" /\ EndAppend
  /\ \/ UNCHANGED <<queue, gone>>
     \/ queue' = Torn /\ gone' = gone \cup Queued
  /\ UNCHANGED <<activated, flushes, clearing, uploadVars, reported>>

-----------------------------------------------------------------------------
(* flushFrontendErrors *)

EndUpload ==
  /\ batch' = <<>> /\ answer' = "none"
  /\ queueMu' = IF queueMu = "flush" THEN "free" ELSE queueMu

\* Mutant of ReadBatch: the lock is given back before the upload.
ReadBatchAndUnlock ==
  /\ queueMu = "free" /\ flushes > 0 /\ flushes' = flushes - 1
  /\ batch' = IF activated /\ batch = <<>> /\ queue # Torn THEN queue ELSE batch
  /\ UNCHANGED <<queue, activated, queueMu, adding, answer, clearing, stored, historyVars>>

ReadBatch ==
  /\ queueMu = "free" /\ flushes > 0 /\ flushes' = flushes - 1
  /\ IF activated /\ queue \notin {<<>>, Torn}
       THEN queueMu' = "flush" /\ batch' = queue
       ELSE UNCHANGED <<queueMu, batch>>
  /\ UNCHANGED <<queue, activated, adding, answer, clearing, stored, historyVars>>

\* The batch has no error over its limits and is not too long as a whole; the
\* errors that are not large always fit into what these leave.
Acceptable(items) ==
  /\ ToSet(items) \cap Oversized = {}
  /\ Cardinality(ToSet(items) \cap Large) <= BodyLimit

\* Mutant of Insert: without ON CONFLICT.
InsertOnce(items) ==
  IF Acceptable(items) /\ ToSet(items) \cap stored = {}
    THEN stored' = stored \cup ToSet(items) /\ answer' = "accepted"
    ELSE answer' = "refused" /\ UNCHANGED stored

\* ingestClientErrors: one transaction, in which a row may be there already.
Insert(items) ==
  IF Acceptable(items)
    THEN stored' = stored \cup ToSet(items) /\ answer' = "accepted"
    ELSE answer' = "refused" /\ UNCHANGED stored

Upload ==
  /\ batch # <<>> /\ answer = "none"
  /\ Insert(batch)
  /\ UNCHANGED <<queue, activated, queueMu, adding, batch, flushes, clearing, historyVars>>

\* The request or the server fails, or the answer is lost (15 seconds).
UploadFails ==
  /\ batch # <<>> /\ EndUpload
  /\ UNCHANGED <<queue, activated, adding, flushes, clearing, stored, historyVars>>

\* ClearFrontendErrors, if the server has accepted the batch; it may fail.
EndFlush ==
  /\ answer # "none" /\ EndUpload
  /\ \/ answer = "accepted" /\ queue' = <<>>
     \/ UNCHANGED queue
  /\ UNCHANGED <<activated, adding, flushes, clearing, stored, historyVars>>

-----------------------------------------------------------------------------
\* Activate stores the credentials.
StoreCredentials ==
  /\ ~activated /\ activated' = TRUE
  /\ StartFlush
  /\ UNCHANGED <<queue, queueMu, adding, clearing, uploadVars, historyVars>>

\* ClearAllData removes state.dat and goes on with the queue, or fails.
EraseState ==
  /\ ~clearing /\ activated' = FALSE
  /\ clearing' \in BOOLEAN
  /\ UNCHANGED <<queue, queueMu, adding, flushes, uploadVars, historyVars>>

EraseQueue ==
  /\ clearing /\ clearing' = FALSE
  /\ \/ queue' = <<>> /\ gone' = gone \cup Queued
     \/ UNCHANGED <<queue, gone>>
  /\ UNCHANGED <<activated, queueMu, adding, flushes, uploadVars, reported>>

\* The client ends, maybe while it writes, and is started again.
RestartClient ==
  /\ \/ UNCHANGED <<queue, gone>>
     \/ queueMu = "append" /\ queue' = adding /\ gone' = gone \cup Displaced
     \/ queueMu = "append" /\ queue' = Torn /\ gone' = gone \cup Queued
  /\ queueMu' = "free" /\ adding' = <<>> /\ batch' = <<>> /\ answer' = "none"
  /\ flushes' = 1 /\ clearing' = FALSE
  /\ UNCHANGED <<activated, stored, reported>>

ErrorsNext ==
  \/ \E e \in Errors : ReadQueue(e)
  \/ WriteQueue \/ WriteFails
  \/ ReadBatch \/ Upload \/ UploadFails \/ EndFlush
  \/ StoreCredentials \/ EraseState \/ EraseQueue \/ RestartClient

ErrorsSpec == ErrorsInit /\ [][ErrorsNext]_errorVars

-----------------------------------------------------------------------------
(* Properties *)

\* Invariant: an error that was reported is in the queue or in the server's
\* table, unless newer ones have displaced it, the user had the data erased or
\* a write was cut short; no upload, retry or restart drops an error that was
\* added meanwhile (queueMu in flushFrontendErrors and ReportFrontendError).
NoErrorIsLost ==
  reported \subseteq Queued \cup stored \cup gone

\* Liveness: as long as the server answers a batch from time to time, there is
\* again and again no error left that it does not have, though answers are lost
\* and batches sent again, unless the queue comes to be blocked: by an error over
\* its limits, by more errors than one request may carry, or by a torn file.
\* Such a queue keeps back the errors that follow, until enough of them have
\* displaced it or it is erased (flushFrontendErrors, decodeJSON and ON CONFLICT
\* of ingestClientErrors).
UploadsDrain ==
  /\ []<>(answer # "none")
  /\ <>[](queue # Torn /\ Acceptable(queue))
  => []<>(reported \subseteq stored \cup gone)

=============================================================================
