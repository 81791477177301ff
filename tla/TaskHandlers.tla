---------------------------- MODULE TaskHandlers ----------------------------
(***************************************************************************)
(* The three registered handlers, resize_image, scrape_url and             *)
(* generate_report, run one after the other along a chain that             *)
(* HandleCreateTask has accepted.  Each decodes its payload, reads its     *)
(* input, uploads one object to MinIO and stores the object's key as the   *)
(* result of its row; any of these may fail, the upload and the store also *)
(* after they took effect, and the pool then runs the handler again.       *)
(*                                                                         *)
(* Only the kind of data an object holds matters: generate_report decodes  *)
(* the scraped page of the root of its chain.                              *)
(***************************************************************************)
EXTENDS RequestValidation

CONSTANTS
    MaxChain,     \* bound: tasks in a chain
    MaxRetries    \* attempts the pool gives a task

ASSUME HandlersAssumption == MaxChain \in Nat \ {0} /\ MaxRetries \in Nat \ {0}

(* The chains a request may bring into being.                              *)
Chains ==
    {c \in UNION {[1..n -> TaskRequest] : n \in 1..MaxChain} :
        \E executeAt \in {"none", "past", "future"} : Accepts(c, executeAt)}

(* The storage client of the process.  NewMinioClient may fail, which      *)
(* leaves none; when EnsureBucket fails, which is only logged, there is a  *)
(* client and perhaps no bucket, and nothing tries again.  The model is of *)
(* one process: rows and objects outlive it, and the next may start with   *)
(* another of these.                                                       *)
StorageAtStart == {"none", "noBucket", "ready"}

VARIABLES
    chain,        \* the tasks, root first
    storage,      \* the storage client of the process
    at,           \* the task being run
    pc,           \* where its handler is
    attempt,
    object,       \* what is stored under each task's object key
    result,       \* tasks whose row has a file result
    undecodable,  \* history: reports that met data they cannot decode
    unusable      \* history: tasks that failed on their own payload

vars == <<chain, storage, at, pc, attempt, object, result, undecodable,
          unusable>>

Content(type) ==
    CASE type = "resize_image"    -> "image"
      [] type = "scrape_url"      -> "page"
      [] type = "generate_report" -> "csv"

Init ==
    /\ chain \in Chains
    /\ storage \in StorageAtStart
    /\ at = 1
    /\ pc = "read"
    /\ attempt = 1
    /\ object = [i \in DOMAIN chain |-> "none"]
    /\ result = {}
    /\ undecodable = {}
    /\ unusable = {}

(* Mutant: one attempt too many.                                           *)
BugRetry ==
    IF attempt <= MaxRetries
    THEN pc' = "read" /\ attempt' = attempt + 1
    ELSE pc' = "failed" /\ UNCHANGED attempt

(* The handler returned an error.                                          *)
Retry ==
    IF attempt < MaxRetries
    THEN pc' = "read" /\ attempt' = attempt + 1
    ELSE pc' = "failed" /\ UNCHANGED attempt

(* What a handler can work with.  A payload that was omitted is stored as  *)
(* null and decodes to empty parameters, with which only a report can do   *)
(* something; options out of range fall back to fit, jpeg and the like.    *)
(* A report decodes scraped_key into a string.                             *)
Usable(task) ==
    CASE task.type = "resize_image"    -> task.payload \in {"good", "badOption"}
      [] task.type = "scrape_url"      -> task.payload = "good"
      [] task.type = "generate_report" ->
            task.payload \notin {"malformed", "badKey"}
      [] OTHER                         -> FALSE   \* no registered handler

RejectPayload ==
    /\ pc = "read"
    /\ ~Usable(chain[at])
    /\ unusable' = unusable \cup {at}
    /\ Retry
    /\ UNCHANGED <<chain, storage, at, object, result, undecodable>>

(* resize_image: download and transform; the storage client is only looked *)
(* at afterwards.                                                          *)
ResizeImage ==
    /\ pc = "read"
    /\ chain[at].type = "resize_image"
    /\ Usable(chain[at])
    /\ \/ storage # "none" /\ pc' = "upload" /\ UNCHANGED attempt
       \/ Retry
    /\ UNCHANGED <<chain, storage, at, object, result, undecodable, unusable>>

ScrapeURL ==
    /\ pc = "read"
    /\ chain[at].type = "scrape_url"
    /\ Usable(chain[at])
    /\ \/ storage # "none" /\ pc' = "upload" /\ UNCHANGED attempt
       \/ Retry
    /\ UNCHANGED <<chain, storage, at, object, result, undecodable, unusable>>

(* Mutant: the result of the task before is looked up, not of the parent.  *)
BugParentFileResultKey == at - 1

(* parentFileResultKey: the parent row of a chained task is the root of    *)
(* its chain.                                                              *)
ParentFileResultKey == 1

(* The data generate_report downloads.                                     *)
ReportInput ==
    CASE chain[at].key = "page"    -> "page"
      [] chain[at].key = "other"   -> "other"
      [] chain[at].key = "omitted" ->
            IF ParentFileResultKey \in result THEN object[ParentFileResultKey]
            ELSE "none"

(* generate_report: find the key, download, decode as a scraped page.      *)
GenerateReport ==
    /\ pc = "read"
    /\ chain[at].type = "generate_report"
    /\ Usable(chain[at])
    /\ \/ /\ storage # "none"
          /\ ReportInput = "page"
          /\ pc' = "upload"
          /\ UNCHANGED <<attempt, undecodable>>
       \/ /\ storage # "none"
          /\ ReportInput \notin {"page", "none"}
          /\ undecodable' = undecodable \cup {at}
          /\ Retry
       \/ Retry /\ UNCHANGED undecodable
    /\ UNCHANGED <<chain, storage, at, object, result, unusable>>

(* Mutant: storing the result before the upload has succeeded.             *)
BugUpload ==
    /\ pc = "upload"
    /\ result' = result \cup {at}
    /\ \/ /\ object' = [object EXCEPT ![at] = Content(chain[at].type)]
          /\ pc' = "store" /\ UNCHANGED attempt
       \/ UNCHANGED object /\ Retry
    /\ UNCHANGED <<chain, storage, at, undecodable, unusable>>

(* Mutant: an error of Upload is not looked at.                            *)
BugUploadIgnored ==
    /\ pc = "upload"
    /\ \/ object' = [object EXCEPT ![at] = Content(chain[at].type)]
       \/ UNCHANGED object
    /\ pc' = "store"
    /\ UNCHANGED <<chain, storage, at, attempt, result, undecodable, unusable>>

(* storageClient.Upload under the task's own key; without a bucket it      *)
(* always fails.                                                           *)
Upload ==
    /\ pc = "upload"
    /\ \/ /\ storage = "ready"
          /\ object' = [object EXCEPT ![at] = Content(chain[at].type)]
          /\ pc' = "store" /\ UNCHANGED attempt
       \/ /\ \/ storage = "ready" /\ object' = [object EXCEPT ![at] = Content(chain[at].type)]
             \/ UNCHANGED object
          /\ Retry
    /\ UNCHANGED <<chain, storage, at, result, undecodable, unusable>>

(* Mutant: an error of UpdateEventResult is not looked at.                 *)
BugStoreResult ==
    /\ pc = "store"
    /\ result' \in {result, result \cup {at}}
    /\ IF at < Len(chain)
       THEN at' = at + 1 /\ pc' = "read" /\ attempt' = 1
       ELSE pc' = "processed" /\ UNCHANGED <<at, attempt>>
    /\ UNCHANGED <<chain, storage, object, undecodable, unusable>>

(* UpdateEventResult with {"kind": "file", "key": ...}; on success         *)
(* chaining.Wrap goes on to the next task, if any; one without a type ends *)
(* the chain.                                                              *)
StoreResult ==
    /\ pc = "store"
    /\ \/ /\ result' = result \cup {at}
          /\ IF at < Len(chain) /\ chain[at + 1].type # ""
             THEN at' = at + 1 /\ pc' = "read" /\ attempt' = 1
             ELSE pc' = "processed" /\ UNCHANGED <<at, attempt>>
       \/ /\ result' \in {result, result \cup {at}}
          /\ Retry
          /\ UNCHANGED at
    /\ UNCHANGED <<chain, storage, object, undecodable, unusable>>

Handle ==
    \/ RejectPayload \/ ResizeImage \/ ScrapeURL \/ GenerateReport
    \/ Upload \/ StoreResult

(* The chain has ended: the last task is processed or one has failed.      *)
Ended == pc \in {"processed", "failed"} /\ UNCHANGED vars

Next == Handle \/ Ended

Spec == Init /\ [][Next]_vars

(* Tasks whose handler has returned without an error: the pool has marked  *)
(* the row processed or is about to, while the next task already runs.     *)
Returned == {i \in DOMAIN chain : i < at \/ (i = at /\ pc = "processed")}

(* GET /tasks/{id}/result: the possible answers for task i, given whether  *)
(* its row is marked processed.  An answer with a URL is what downloading  *)
(* from it yields.  Every error of the lookup is answered "notFound".      *)
HandleGetTaskResult(i, processed) ==
    {"notFound"} \cup
    (CASE ~processed                             -> {"notYetProcessed"}
       [] processed /\ i \notin result           -> {"noResult"}
       [] processed /\ i \in result /\ storage = "none" -> {"unavailable"}
       [] processed /\ i \in result /\ storage # "none" -> {object[i], "error"})

-----------------------------------------------------------------------------
(* Correctness properties.                                                 *)

(* Shapes of the state; at most MaxRetries attempts.                       *)
TypeOK ==
    /\ chain \in Seq(TaskRequest)
    /\ storage \in StorageAtStart
    /\ at \in DOMAIN chain
    /\ pc \in {"read", "upload", "store", "processed", "failed"}
    /\ attempt \in 1..MaxRetries
    /\ object \in [DOMAIN chain -> {"none", "image", "page", "csv"}]
    /\ result \subseteq DOMAIN chain
    /\ undecodable \subseteq DOMAIN chain
    /\ unusable \subseteq DOMAIN chain

(* A stored result always points at an object that has been uploaded and   *)
(* holds what the task's type produces, whatever failed and was retried.   *)
ResultPointsAtObject ==
    \A i \in result : object[i] = Content(chain[i].type)

(* Once a row is marked processed, asking the process that ran it for its  *)
(* result never gets "no result" or "storage not configured": the URL      *)
(* handed out downloads what the task's type produces (a failing database  *)
(* or presigning aside).  A later process that came up without a storage   *)
(* client answers 503 (task_handler.go:274).                               *)
ProcessedDownloads ==
    \A i \in Returned :
       HandleGetTaskResult(i, TRUE)
          \subseteq {Content(chain[i].type), "notFound", "error"}

(* A report that runs always finds a file result on its parent: the errors *)
(* "no parent task" and "has no result" cannot occur.                      *)
ReportFindsParentFile ==
    chain[at].type = "generate_report" =>
       /\ ParentFileResultKey \in result
       /\ object[ParentFileResultKey] # "none"

(* A report fails on the data it reads only when the root of its chain is  *)
(* not a scrape_url or when its scraped_key names something else.          *)
ReportDecodesScrapedRoot ==
    \A i \in undecodable :
       chain[1].type # "scrape_url" \/ chain[i].key = "other"

(* What the validator lets through, the handlers can use, but for one      *)
(* case: a task fails on its own payload only where HandleCreateTask did   *)
(* not look at it (a first chained step without a payload, and any step    *)
(* after that), or as a first chained report whose scraped_key is not a    *)
(* string, which Validate takes (task_validator.go:61) and                 *)
(* generate_report cannot decode.  The root never fails for that reason.   *)
ValidatedIsUsable ==
    \A i \in unusable :
       /\ i # 1
       /\ i = 2 => chain[i].payload \in {"omitted", "badKey"}
=============================================================================
