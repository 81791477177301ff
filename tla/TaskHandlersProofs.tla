------------------------ MODULE TaskHandlersProofs ------------------------
(***************************************************************************)
(* Proofs about TaskHandlers: what the handlers of an accepted chain can   *)
(* rely on, for chains of any length and any number of attempts.           *)
(***************************************************************************)
EXTENDS TaskHandlers, SequenceTheorems, TLAPS

(* What HandleCreateTask has checked of the chain.                         *)
Admitted ==
    /\ chain \in Seq(TaskRequest)
    /\ Len(chain) >= 1
    /\ chain[1].type \in {"resize_image", "scrape_url"}
    /\ Usable(chain[1])
    /\ Len(chain) > 1 =>
          chain[2].payload \in {"omitted", "badKey"} \/ Usable(chain[2])

(* What validation admits: a chain of at least one usable step.            *)
LEMMA ChainsAdmitted ==
    ASSUME NEW c \in Chains
    PROVE  /\ c \in Seq(TaskRequest)
           /\ Len(c) >= 1
           /\ DOMAIN c = 1..Len(c)
           /\ c[1].type \in {"resize_image", "scrape_url"}
           /\ Usable(c[1])
           /\ Len(c) > 1 =>
                 c[2].payload \in {"omitted", "badKey"} \/ Usable(c[2])
  <1>1. PICK n \in 1..MaxChain : c \in [1..n -> TaskRequest]
    BY DEF Chains
  <1>2. n \in Nat /\ n >= 1
    BY <1>1, HandlersAssumption
  <1>3. c \in Seq(TaskRequest) /\ Len(c) = n
    BY <1>1, <1>2
  <1>4. PICK executeAt : Accepts(c, executeAt)
    BY DEF Chains
  <1>5. Validate(c[1].type, c[1].payload) /\ c[1].type # "generate_report"
    BY <1>4 DEF Accepts
  <1>6. \A r : Validate(r.type, r.payload) =>
                  \/ Usable(r)
                  \/ r.type = "generate_report" /\ r.payload = "badKey"
    BY DEF Validate, Usable
  <1>7. c[1].type \in {"resize_image", "scrape_url"}
    BY <1>5 DEF Validate
  <1>8. Len(c) > 1 =>
           \/ c[2].payload = "omitted"
           \/ Validate(c[2].type, c[2].payload)
    BY <1>4 DEF Accepts
  <1> QED
    BY <1>1, <1>2, <1>3, <1>5, <1>6, <1>7, <1>8

(* A task a handler can use produces data of its kind.                     *)
LEMMA UsableContent ==
    ASSUME NEW r, Usable(r)
    PROVE  /\ r.type \in Types
           /\ Content(r.type) \in {"image", "page", "csv"}
  BY DEF Usable, Content, Types

(* A retry stays within MaxRetries attempts.                               *)
LEMMA RetryType ==
    ASSUME attempt \in 1..MaxRetries, Retry
    PROVE  attempt' \in 1..MaxRetries /\ pc' \in {"read", "failed"}
  BY HandlersAssumption DEF Retry

-----------------------------------------------------------------------------
(* The inductive invariant.                                                *)

(* The handler has come this far with a task it can use, and past the      *)
(* upload its object is there.                                             *)
HandlerFits ==
    /\ pc \in {"upload", "store"} => Usable(chain[at])
    /\ pc = "store" => object[at] = Content(chain[at].type)
    /\ at > 1 \/ pc \in {"store", "processed"} => storage = "ready"

(* The tasks before the one that runs have their results.                  *)
ResultsSoFar ==
    \A i \in DOMAIN chain : i < at \/ (i = at /\ pc = "processed") => i \in result

(* An object is what its task's type produces.                             *)
ObjectsFit ==
    \A i \in DOMAIN chain :
       object[i] # "none" => object[i] = Content(chain[i].type)

ResultsHaveObjects ==
    \A i \in result : Usable(chain[i]) /\ object[i] = Content(chain[i].type)

RejectedUnusable == \A i \in unusable : ~Usable(chain[i])

HandlersInv ==
    /\ TypeOK
    /\ Admitted
    /\ HandlerFits
    /\ ResultsSoFar
    /\ ObjectsFit
    /\ ResultsHaveObjects
    /\ ReportDecodesScrapedRoot
    /\ RejectedUnusable

(* No handler has run yet.                                                 *)
LEMMA InitInv == Init => HandlersInv
  <1> SUFFICES ASSUME Init PROVE HandlersInv
    OBVIOUS
  <1>1. Admitted /\ DOMAIN chain = 1..Len(chain)
    BY ChainsAdmitted DEF Init, Admitted
  <1>2. 1 \in DOMAIN chain
    BY <1>1 DEF Admitted
  <1>3. TypeOK
    BY <1>1, <1>2, HandlersAssumption DEF Init, TypeOK, Admitted
  <1> QED
    BY <1>1, <1>3
       DEF Init, HandlersInv, HandlerFits, ResultsSoFar, ObjectsFit,
           ResultsHaveObjects, ReportDecodesScrapedRoot, RejectedUnusable

(* An attempt that fails or is rejected changes no object and no result.   *)
LEMMA ReadStep ==
    ASSUME HandlersInv, pc = "read",
           UNCHANGED <<chain, storage, at, object, result>>,
           \/ pc' = "upload" /\ Usable(chain[at]) /\ attempt' = attempt
           \/ Retry,
           \/ undecodable' = undecodable
           \/ /\ undecodable' = undecodable \cup {at}
              /\ chain[1].type # "scrape_url" \/ chain[at].key = "other",
           \/ unusable' = unusable
           \/ unusable' = unusable \cup {at} /\ ~Usable(chain[at])
    PROVE  HandlersInv'
  <1>1. TypeOK'
    BY RetryType DEF HandlersInv, TypeOK
  <1>2. pc' \in {"upload", "read", "failed"}
    BY RetryType DEF HandlersInv, TypeOK
  <1>3. Admitted' /\ ObjectsFit' /\ ResultsHaveObjects'
    BY DEF HandlersInv, Admitted, ObjectsFit, ResultsHaveObjects
  <1>4. HandlerFits'
    <2>1. pc' = "upload" => Usable(chain[at])
      BY RetryType DEF HandlersInv, TypeOK
    <2> QED
      BY <1>2, <2>1 DEF HandlersInv, HandlerFits
  <1>5. ResultsSoFar'
    BY <1>2 DEF HandlersInv, ResultsSoFar
  <1>6. ReportDecodesScrapedRoot' /\ RejectedUnusable'
    BY DEF HandlersInv, ReportDecodesScrapedRoot, RejectedUnusable
  <1> QED
    BY <1>1, <1>3, <1>4, <1>5, <1>6 DEF HandlersInv

(* What a report meets when its data is no page.                           *)
LEMMA ReportMisses ==
    ASSUME HandlersInv, chain[at] \in TaskRequest,
           ReportInput \notin {"page", "none"}
    PROVE  chain[1].type # "scrape_url" \/ chain[at].key = "other"
  <1>1. chain[at].key \in {"omitted", "page", "other"}
    BY DEF TaskRequest
  <1>2. CASE chain[at].key = "omitted"
    <2>1. 1 \in result /\ object[1] # "page"
      BY <1>2 DEF ReportInput, ParentFileResultKey
    <2>2. object[1] = Content(chain[1].type)
      BY <2>1 DEF HandlersInv, ResultsHaveObjects
    <2> QED
      BY <2>1, <2>2 DEF Content
  <1>3. CASE chain[at].key = "page"
    BY <1>3 DEF ReportInput
  <1> QED
    BY <1>1, <1>2, <1>3

(* Uploading puts the object where the result will point.                  *)
LEMMA UploadStep == HandlersInv /\ Upload => HandlersInv'
  <1> SUFFICES ASSUME HandlersInv, Upload PROVE HandlersInv'
    OBVIOUS
  <1> DEFINE content == Content(chain[at].type)
  <1>1. /\ pc = "upload" /\ UNCHANGED <<chain, storage, at, result, undecodable,
                                        unusable>>
        /\ \/ /\ object' = [object EXCEPT ![at] = content]
              /\ storage = "ready" /\ pc' = "store" /\ attempt' = attempt
           \/ /\ object' = object \/ object' = [object EXCEPT ![at] = content]
              /\ Retry
    BY DEF Upload
  <1>2. Usable(chain[at]) /\ content \in {"image", "page", "csv"}
    BY <1>1, UsableContent DEF HandlersInv, HandlerFits
  <1>3. at \in DOMAIN chain
    BY DEF HandlersInv, TypeOK
  <1>4. /\ object' \in [DOMAIN chain -> {"none", "image", "page", "csv"}]
        /\ \A i \in DOMAIN chain : object'[i] = object[i] \/ object'[i] = Content(chain[i].type)
        /\ pc' = "store" => object'[at] = content
    <2> HIDE DEF content
    <2>1. /\ object' \in [DOMAIN chain -> {"none", "image", "page", "csv"}]
          /\ \A i \in DOMAIN chain : i # at => object'[i] = object[i]
          /\ object'[at] = object[at] \/ object'[at] = content
      BY <1>1, <1>2, <1>3 DEF HandlersInv, TypeOK
    <2>2. pc' = "store" => object'[at] = content
      BY <1>1, <1>3, RetryType DEF HandlersInv, TypeOK
    <2> QED
      BY <2>1, <2>2 DEF content
  <1>5. attempt' \in 1..MaxRetries /\ pc' \in {"store", "read", "failed"}
    BY <1>1, RetryType DEF HandlersInv, TypeOK
  <1>6. TypeOK'
    BY <1>1, <1>4, <1>5 DEF HandlersInv, TypeOK
  <1>7. Admitted' /\ ReportDecodesScrapedRoot' /\ RejectedUnusable'
    BY <1>1 DEF HandlersInv, Admitted, ReportDecodesScrapedRoot, RejectedUnusable
  <1>8. HandlerFits'
    <2>1. pc' = "store" => storage = "ready"
      BY <1>1, RetryType DEF HandlersInv, TypeOK
    <2> QED
      BY <1>1, <1>2, <1>4, <1>5, <2>1 DEF HandlersInv, HandlerFits
  <1>9. ResultsSoFar' /\ ObjectsFit'
    BY <1>1, <1>4, <1>5 DEF HandlersInv, ResultsSoFar, ObjectsFit
  <1>10. ResultsHaveObjects'
    BY <1>1, <1>4 DEF HandlersInv, TypeOK, ResultsHaveObjects
  <1> QED
    BY <1>6, <1>7, <1>8, <1>9, <1>10 DEF HandlersInv

(* Storing the result points it at the object just uploaded.               *)
LEMMA StoreStep == HandlersInv /\ StoreResult => HandlersInv'
  <1> SUFFICES ASSUME HandlersInv, StoreResult PROVE HandlersInv'
    OBVIOUS
  <1>1. /\ pc = "store" /\ UNCHANGED <<chain, storage, object, undecodable,
                                       unusable>>
        /\ result' = result \/ result' = result \cup {at}
        /\ \/ /\ result' = result \cup {at} /\ at < Len(chain)
              /\ at' = at + 1 /\ pc' = "read" /\ attempt' = 1
           \/ /\ result' = result \cup {at}
              /\ pc' = "processed" /\ UNCHANGED <<at, attempt>>
           \/ Retry /\ at' = at
    BY DEF StoreResult
  <1>2. /\ Usable(chain[at]) /\ object[at] = Content(chain[at].type)
        /\ storage = "ready"
    BY <1>1 DEF HandlersInv, HandlerFits
  <1>3. DOMAIN chain = 1..Len(chain) /\ Len(chain) \in Nat
    BY DEF HandlersInv, Admitted
  <1>4. TypeOK'
    <2>1. at' \in DOMAIN chain /\ at \in DOMAIN chain
      BY <1>1, <1>3 DEF HandlersInv, TypeOK
    <2>2. /\ attempt' \in 1..MaxRetries
          /\ pc' \in {"read", "processed", "failed"}
      BY <1>1, RetryType, HandlersAssumption DEF HandlersInv, TypeOK
    <2> QED
      BY <1>1, <2>1, <2>2 DEF HandlersInv, TypeOK
  <1>5. pc' \in {"read", "processed", "failed"}
    BY <1>1, RetryType DEF HandlersInv, TypeOK
  <1>6. Admitted' /\ ObjectsFit' /\ ReportDecodesScrapedRoot' /\ RejectedUnusable'
    BY <1>1 DEF HandlersInv, Admitted, ObjectsFit, ReportDecodesScrapedRoot,
                RejectedUnusable
  <1>7. HandlerFits'
    BY <1>1, <1>2, <1>5 DEF HandlersInv, HandlerFits
  <1>8. ResultsHaveObjects'
    BY <1>1, <1>2 DEF HandlersInv, ResultsHaveObjects
  <1>9. ResultsSoFar'
    <2>1. at \in Nat /\ \A i \in DOMAIN chain : i < at => i \in result
      BY <1>3 DEF HandlersInv, TypeOK, ResultsSoFar
    <2>2. CASE at' = at + 1 /\ result' = result \cup {at} /\ pc' = "read"
      BY <1>1, <1>3, <2>1, <2>2 DEF ResultsSoFar
    <2>3. CASE at' = at /\ result' = result \cup {at}
      BY <1>1, <2>1, <2>3 DEF ResultsSoFar
    <2>4. CASE at' = at /\ Retry
      BY <1>1, <2>1, <2>4, RetryType DEF ResultsSoFar, HandlersInv, TypeOK
    <2> QED
      BY <1>1, <2>2, <2>3, <2>4
  <1> QED
    BY <1>4, <1>6, <1>7, <1>8, <1>9 DEF HandlersInv

(* Every step keeps the invariant.                                         *)
LEMMA InvStep == HandlersInv /\ [Next]_vars => HandlersInv'
  <1> SUFFICES ASSUME HandlersInv, [Next]_vars PROVE HandlersInv'
    OBVIOUS
  <1>1. CASE RejectPayload
    BY <1>1, ReadStep DEF RejectPayload
  <1>2. CASE ResizeImage
    BY <1>2, ReadStep DEF ResizeImage
  <1>3. CASE ScrapeURL
    BY <1>3, ReadStep DEF ScrapeURL
  <1>4. CASE GenerateReport
    <2>1. chain[at] \in TaskRequest
      BY DEF HandlersInv, TypeOK
    <2>2. ReportInput \notin {"page", "none"} =>
             chain[1].type # "scrape_url" \/ chain[at].key = "other"
      BY <2>1, ReportMisses
    <2> QED
      BY <1>4, <2>2, ReadStep DEF GenerateReport
  <1>5. CASE UNCHANGED vars
    BY <1>5 DEF vars, HandlersInv, TypeOK, Admitted, HandlerFits, ResultsSoFar,
                ObjectsFit, ResultsHaveObjects, ReportDecodesScrapedRoot,
                RejectedUnusable
  <1> QED
    BY <1>1, <1>2, <1>3, <1>4, <1>5, UploadStep, StoreStep
       DEF Next, Handle, Ended

(* It holds throughout.                                                    *)
LEMMA HandlersInvariant == Spec => []HandlersInv
  BY InitInv, InvStep, PTL DEF Spec

-----------------------------------------------------------------------------
(* The shapes of the handlers' state, and at most MaxRetries attempts, for *)
(* chains of any length.                                                   *)
THEOREM TypeCorrect == Spec => []TypeOK
  <1>1. HandlersInv => TypeOK
    BY DEF HandlersInv
  <1> QED
    BY <1>1, HandlersInvariant, PTL

(* However uploads and result writes fail and are repeated, a stored key   *)
(* names an object of the task's kind.                                     *)
THEOREM ResultsPointAtObjects == Spec => []ResultPointsAtObject
  <1>1. HandlersInv => ResultPointsAtObject
    BY DEF HandlersInv, ResultsHaveObjects, ResultPointsAtObject
  <1> QED
    BY <1>1, HandlersInvariant, PTL

(* GET /tasks/{id}/result for a processed row hands out a URL of the       *)
(* task's own object: the process that ran it has its storage client.      *)
THEOREM ProcessedCanBeDownloaded == Spec => []ProcessedDownloads
  <1>1. ASSUME HandlersInv, NEW i \in Returned
        PROVE  HandleGetTaskResult(i, TRUE)
                  \subseteq {Content(chain[i].type), "notFound", "error"}
    <2>1. /\ i \in DOMAIN chain
          /\ i < at \/ (i = at /\ pc = "processed")
      BY <1>1 DEF Returned
    <2>2. i \in result /\ object[i] = Content(chain[i].type)
      BY <1>1, <2>1 DEF HandlersInv, ResultsSoFar, ResultsHaveObjects
    <2>3. i \in Nat /\ i >= 1 /\ at \in Nat
      BY <1>1, <2>1 DEF HandlersInv, Admitted, TypeOK
    <2>4. storage = "ready"
      BY <1>1, <2>1, <2>3 DEF HandlersInv, HandlerFits
    <2> QED
      BY <2>2, <2>4 DEF HandleGetTaskResult
  <1>2. HandlersInv => ProcessedDownloads
    BY <1>1 DEF ProcessedDownloads
  <1> QED
    BY <1>2, HandlersInvariant, PTL

(* parentFileResultKey never fails for a running report: a report is never *)
(* the root, and the root has its result before any chained task runs.     *)
THEOREM ReportsFindParentFile == Spec => []ReportFindsParentFile
  <1>1. ASSUME HandlersInv, chain[at].type = "generate_report"
        PROVE  1 \in result /\ object[1] # "none"
    <2>1. DOMAIN chain = 1..Len(chain) /\ Len(chain) \in Nat /\ Len(chain) >= 1
      BY <1>1 DEF HandlersInv, Admitted
    <2>2. at # 1 /\ at \in 1..Len(chain)
      BY <1>1, <2>1 DEF HandlersInv, Admitted, TypeOK
    <2>3. 1 \in result
      BY <1>1, <2>1, <2>2 DEF HandlersInv, ResultsSoFar
    <2>4. object[1] \in {"image", "page", "csv"}
      BY <1>1, <2>3, UsableContent DEF HandlersInv, ResultsHaveObjects
    <2> QED
      BY <2>3, <2>4
  <1>2. HandlersInv => ReportFindsParentFile
    BY <1>1 DEF ReportFindsParentFile, ParentFileResultKey
  <1> QED
    BY <1>2, HandlersInvariant, PTL

(* A report cannot decode its data only when the root of its chain is no   *)
(* scrape_url or its scraped_key names something that is no page.          *)
THEOREM ReportsDecodeScrapedRoot == Spec => []ReportDecodesScrapedRoot
  <1>1. HandlersInv => ReportDecodesScrapedRoot
    BY DEF HandlersInv
  <1> QED
    BY <1>1, HandlersInvariant, PTL

(* TaskValidator and the handlers agree but for a report whose scraped_key *)
(* is not a string: elsewhere a task fails on its own payload only where   *)
(* HandleCreateTask has not validated it, and the root never does.         *)
THEOREM ValidatedStaysUsable == Spec => []ValidatedIsUsable
  <1>1. ASSUME HandlersInv, NEW i \in unusable
        PROVE  i # 1 /\ (i = 2 => chain[i].payload \in {"omitted", "badKey"})
    <2>1. ~Usable(chain[i])
      BY <1>1 DEF HandlersInv, RejectedUnusable
    <2>2. i \in 1..Len(chain) /\ Len(chain) \in Nat
      BY <1>1 DEF HandlersInv, Admitted, TypeOK
    <2> QED
      BY <1>1, <2>1, <2>2 DEF HandlersInv, Admitted
  <1>2. HandlersInv => ValidatedIsUsable
    BY <1>1 DEF ValidatedIsUsable
  <1> QED
    BY <1>2, HandlersInvariant, PTL
=============================================================================
