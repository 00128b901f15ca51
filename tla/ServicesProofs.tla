--------------------------- MODULE ServicesProofs ---------------------------
(* Theorems about module ReportEvidence, for any number of photos and      *)
(* requests, any set of content types, any limits and any number of stored *)
(* suggestions: no object without its row, and no answer that is not on    *)
(* record.  Then about module Subscribers, for every set of consumers,     *)
(* subscriptions, concurrent requests, rules and alerts, and any bound of  *)
(* a version: what was stored is read back, matched and shown as it was    *)
(* accepted (RulesKeepMeaning), and a token opens what its answer promised *)
(* (TokenOpens).  At last, that the services TLC runs side by side keep    *)
(* their types side by side.                                               *)
EXTENDS MCServices, AccessProofs, SequenceTheorems

-----------------------------------------------------------------------------
(* Evidence: the inductive invariant. *)

PhotoTypes ==
  /\ attachments \in [Photo -> Metadata \cup {NoRow}]
  /\ objects \in [Photo -> Photo \cup {NoObject}]
  /\ uploads \in [Photo -> [stage : Stage, meta : Metadata \cup {NoRow}]]

Acceptable(meta) ==
  meta \in Metadata /\ meta.type \in Supported /\ meta.size \in 1 .. MaxSize

\* How far an upload is, and what it has left behind so far: validation comes before the
\* row, the row before the URL, the URL before the object.
PhotosInStep ==
  \A p \in Photo :
    LET stage == uploads[p].stage IN
    /\ stage \in {"asked", "exists"} => uploads[p].meta \in Metadata
    /\ stage = "prepared" => Acceptable(uploads[p].meta)
    /\ stage \in {"idle", "asked", "exists", "prepared"} => attachments[p] = NoRow
    /\ stage \in {"created", "granted", "done"} => attachments[p] # NoRow
    /\ stage \in {"created", "granted"} => objects[p] = NoObject
    /\ stage = "done" => objects[p] = p
    /\ attachments[p] # NoRow => Acceptable(attachments[p])
    /\ objects[p] \in {NoObject, p}
    /\ objects[p] # NoObject => attachments[p] # NoRow

PhotoInv == PhotoTypes /\ PhotosInStep

SuggestionTypes ==
  /\ desk \in [Desk -> DeskRequest \cup {NoDeskRequest}]
  /\ extractions \in Seq(Suggested) /\ descriptions \in Seq(Pair)
  /\ downloads \in [Photo -> 0 .. MaxDownloads]
  /\ answered \in SUBSET ([op : {"extract"}, row : 1 .. MaxSuggestions, fields : Suggested]
                     \cup [op : {"describe"}, row : 1 .. MaxSuggestions, pair : Pair]
                     \cup [op : {"download"}, key : Photo, row : 1 .. MaxDownloads])

\* What a request carries to its statement: a whole pair, or a key that has a row.
DeskInStep ==
  \A d \in Desk : desk[d] # NoDeskRequest =>
    /\ desk[d].op = "describe" /\ desk[d].stage = "produced" => Complete(desk[d].pair)
    /\ desk[d].op = "download" => attachments[desk[d].key] # NoRow

SuggestionInv == SuggestionTypes /\ DeskInStep /\ AnswersOnRecord

EvidenceInv == PhotoInv /\ SuggestionInv

-----------------------------------------------------------------------------
(* Photos. *)

\* One photo's upload goes on, and nobody else's: what has to be shown is about that photo.
LEMMA OnePhoto ==
  ASSUME PhotoInv, NEW p \in Photo,
         NEW upload \in [stage : Stage, meta : Metadata \cup {NoRow}],
         NEW row \in Metadata \cup {NoRow}, NEW object \in {NoObject, p},
         uploads' = [uploads EXCEPT ![p] = upload],
         attachments' = [attachments EXCEPT ![p] = row],
         objects' = [objects EXCEPT ![p] = object],
         upload.stage \in {"asked", "exists"} => upload.meta \in Metadata,
         upload.stage = "prepared" => Acceptable(upload.meta),
         upload.stage \in {"idle", "asked", "exists", "prepared"} => row = NoRow,
         upload.stage \in {"created", "granted", "done"} => row # NoRow,
         upload.stage \in {"created", "granted"} => object = NoObject,
         upload.stage = "done" => object = p,
         row # NoRow => Acceptable(row),
         object # NoObject => row # NoRow
  PROVE  PhotoInv'
<1>1. PhotoTypes'  BY DEF PhotoInv, PhotoTypes
<1>2. /\ uploads'[p] = upload /\ attachments'[p] = row /\ objects'[p] = object
      /\ \A q \in Photo : q # p =>
           uploads'[q] = uploads[q] /\ attachments'[q] = attachments[q] /\ objects'[q] = objects[q]
  BY DEF PhotoInv, PhotoTypes
<1>3. PhotosInStep'
  <2> SUFFICES ASSUME NEW q \in Photo
               PROVE  LET stage == uploads'[q].stage IN
                      /\ stage \in {"asked", "exists"} => uploads'[q].meta \in Metadata
                      /\ stage = "prepared" => Acceptable(uploads'[q].meta)
                      /\ stage \in {"idle", "asked", "exists", "prepared"} =>
                           attachments'[q] = NoRow
                      /\ stage \in {"created", "granted", "done"} => attachments'[q] # NoRow
                      /\ stage \in {"created", "granted"} => objects'[q] = NoObject
                      /\ stage = "done" => objects'[q] = q
                      /\ attachments'[q] # NoRow => Acceptable(attachments'[q])
                      /\ objects'[q] \in {NoObject, q}
                      /\ objects'[q] # NoObject => attachments'[q] # NoRow
    BY DEF PhotosInStep, Acceptable
  <2>1. CASE q = p  BY <1>2, <2>1
  <2>2. CASE q # p  BY <1>2, <2>2 DEF PhotoInv, PhotosInStep
  <2> QED  BY <2>1, <2>2
<1> QED  BY <1>1, <1>3 DEF PhotoInv

\* What the step of an upload changes: its stage, and its row or object at most.
LEMMA PhotoSteps ==
  ASSUME PhotoInv, NEW p \in Photo,
         \/ \E meta \in Metadata : AskUpload(p, meta)
         \/ CheckReport(p) \/ PrepareUpload(p) \/ CreateAttachment(p)
         \/ AnswerUpload(p) \/ PutPhoto(p) \/ UploadFails(p)
  PROVE  /\ PhotoInv'
         /\ UNCHANGED suggestionVars
         /\ \A q \in Photo : attachments[q] # NoRow => attachments'[q] # NoRow
<1>1. /\ uploads[p] \in [stage : Stage, meta : Metadata \cup {NoRow}]
      /\ attachments[p] \in Metadata \cup {NoRow} /\ objects[p] \in {NoObject, p}
      /\ attachments = [attachments EXCEPT ![p] = attachments[p]]
      /\ objects = [objects EXCEPT ![p] = objects[p]]
      /\ PhotosInStep
  BY DEF PhotoInv, PhotoTypes, PhotosInStep
<1>2. ASSUME NEW stage \in Stage, Reach(p, stage)
      PROVE  \E upload \in [stage : Stage, meta : Metadata \cup {NoRow}] :
               /\ upload.stage = stage /\ upload.meta = uploads[p].meta
               /\ uploads' = [uploads EXCEPT ![p] = upload]
  <2>1. [uploads[p] EXCEPT !.stage = stage] \in [stage : Stage, meta : Metadata \cup {NoRow}]
    BY <1>1
  <2>2. uploads' = [uploads EXCEPT ![p] = [uploads[p] EXCEPT !.stage = stage]]
    BY <1>2, <1>1 DEF Reach, PhotoInv, PhotoTypes
  <2> QED  BY <1>1, <2>1, <2>2
<1>3. ASSUME NEW meta \in Metadata, AskUpload(p, meta)
      PROVE  PhotoInv'
  <2> DEFINE upload == [stage |-> "asked", meta |-> meta]
  <2>1. /\ uploads' = [uploads EXCEPT ![p] = upload] /\ uploads[p].stage = "idle"
        /\ attachments' = attachments /\ objects' = objects
    BY <1>3 DEF AskUpload
  <2>2. /\ upload \in [stage : Stage, meta : Metadata \cup {NoRow}]
        /\ upload.stage = "asked" /\ upload.meta = meta
    BY DEF Stage
  <2> HIDE DEF upload
  <2>3. attachments[p] = NoRow /\ objects[p] = NoObject
    BY <1>1, <2>1 DEF PhotosInStep
  <2> QED  BY <1>1, <2>1, <2>2, <2>3, OnePhoto
<1>4. ASSUME CheckReport(p)  PROVE PhotoInv'
  <2>1. PICK stage \in {"exists", "lost"} : Reach(p, stage)
    BY <1>4 DEF CheckReport
  <2>2. /\ uploads[p].stage = "asked" /\ attachments' = attachments /\ objects' = objects
    BY <1>4 DEF CheckReport
  <2>3. PICK upload \in [stage : Stage, meta : Metadata \cup {NoRow}] :
               /\ upload.stage = stage /\ upload.meta = uploads[p].meta
               /\ uploads' = [uploads EXCEPT ![p] = upload]
    BY <1>2, <2>1 DEF Stage
  <2>4. uploads[p].meta \in Metadata /\ attachments[p] = NoRow /\ objects[p] = NoObject
    BY <1>1, <2>2 DEF PhotosInStep
  <2> QED  BY <1>1, <2>2, <2>3, <2>4, OnePhoto
<1>5. ASSUME PrepareUpload(p)  PROVE PhotoInv'
  <2>1. PICK stage \in {"prepared", "lost"} :
          /\ Reach(p, stage)
          /\ stage = "prepared" =>
               FromMimeType(uploads[p].meta.type) /\ ValidAttachment(uploads[p].meta)
    BY <1>5 DEF PrepareUpload
  <2>2. /\ uploads[p].stage = "exists" /\ attachments' = attachments /\ objects' = objects
    BY <1>5 DEF PrepareUpload
  <2>3. PICK upload \in [stage : Stage, meta : Metadata \cup {NoRow}] :
               /\ upload.stage = stage /\ upload.meta = uploads[p].meta
               /\ uploads' = [uploads EXCEPT ![p] = upload]
    BY <1>2, <2>1 DEF Stage
  <2>4. uploads[p].meta \in Metadata /\ attachments[p] = NoRow /\ objects[p] = NoObject
    BY <1>1, <2>2 DEF PhotosInStep
  <2>5. stage = "prepared" => Acceptable(uploads[p].meta)
    BY <2>1, <2>4, EvidenceAssumption DEF Acceptable, FromMimeType, ValidAttachment, Metadata
  <2> QED  BY <1>1, <2>1, <2>2, <2>3, <2>4, <2>5, OnePhoto
<1>6. ASSUME CreateAttachment(p)  PROVE PhotoInv'
  <2>1. /\ uploads[p].stage = "prepared" /\ Reach(p, "created") /\ objects' = objects
        /\ attachments' = [attachments EXCEPT ![p] = uploads[p].meta]
    BY <1>6 DEF CreateAttachment
  <2>2. PICK upload \in [stage : Stage, meta : Metadata \cup {NoRow}] :
               /\ upload.stage = "created" /\ upload.meta = uploads[p].meta
               /\ uploads' = [uploads EXCEPT ![p] = upload]
    BY <1>2, <2>1 DEF Stage
  <2>3. /\ Acceptable(uploads[p].meta) /\ uploads[p].meta \in Metadata
        /\ uploads[p].meta # NoRow /\ objects[p] = NoObject
    BY <1>1, <2>1, EvidenceAssumption DEF PhotosInStep, Acceptable
  <2> QED  BY <1>1, <2>1, <2>2, <2>3, OnePhoto
<1>7. ASSUME AnswerUpload(p)  PROVE PhotoInv'
  <2>1. /\ uploads[p].stage = "created" /\ Reach(p, "granted") /\ objects' = objects
        /\ attachments' = attachments
    BY <1>7 DEF AnswerUpload
  <2>2. PICK upload \in [stage : Stage, meta : Metadata \cup {NoRow}] :
               /\ upload.stage = "granted" /\ upload.meta = uploads[p].meta
               /\ uploads' = [uploads EXCEPT ![p] = upload]
    BY <1>2, <2>1 DEF Stage
  <2>3. Acceptable(attachments[p]) /\ attachments[p] # NoRow /\ objects[p] = NoObject
    BY <1>1, <2>1 DEF PhotosInStep
  <2> QED  BY <1>1, <2>1, <2>2, <2>3, OnePhoto
<1>8. ASSUME PutPhoto(p)  PROVE PhotoInv'
  <2>1. PICK stage \in {"done", "lost"} : Reach(p, stage)
    BY <1>8 DEF PutPhoto
  <2>2. /\ uploads[p].stage = "granted" /\ attachments' = attachments
        /\ objects' = [objects EXCEPT ![p] = p]
    BY <1>8 DEF PutPhoto
  <2>3. PICK upload \in [stage : Stage, meta : Metadata \cup {NoRow}] :
               /\ upload.stage = stage /\ upload.meta = uploads[p].meta
               /\ uploads' = [uploads EXCEPT ![p] = upload]
    BY <1>2, <2>1 DEF Stage
  <2>4. Acceptable(attachments[p]) /\ attachments[p] # NoRow
    BY <1>1, <2>2 DEF PhotosInStep
  <2> QED  BY <1>1, <2>1, <2>2, <2>3, <2>4, OnePhoto
<1>9. ASSUME UploadFails(p)  PROVE PhotoInv'
  <2>1. Reach(p, "lost") /\ attachments' = attachments /\ objects' = objects
    BY <1>9 DEF UploadFails
  <2>2. PICK upload \in [stage : Stage, meta : Metadata \cup {NoRow}] :
               /\ upload.stage = "lost" /\ upload.meta = uploads[p].meta
               /\ uploads' = [uploads EXCEPT ![p] = upload]
    BY <1>2, <2>1 DEF Stage
  <2>3. /\ attachments[p] # NoRow => Acceptable(attachments[p])
        /\ objects[p] # NoObject => attachments[p] # NoRow
    BY <1>1 DEF PhotosInStep
  <2> QED  BY <1>1, <2>1, <2>2, <2>3, OnePhoto
<1>10. UNCHANGED suggestionVars
  BY DEF AskUpload, CheckReport, PrepareUpload, CreateAttachment, AnswerUpload, PutPhoto,
         UploadFails
<1>11. ASSUME NEW q \in Photo, attachments[q] # NoRow
       PROVE  attachments'[q] # NoRow
  <2>1. CASE attachments' = attachments  BY <1>11, <2>1
  <2>2. CASE CreateAttachment(p)
    <3>1. /\ attachments' = [attachments EXCEPT ![p] = uploads[p].meta]
          /\ Acceptable(uploads[p].meta)
      BY <1>1, <2>2 DEF CreateAttachment, PhotosInStep
    <3> QED  BY <1>11, <3>1, EvidenceAssumption DEF Acceptable, PhotoInv, PhotoTypes
  <2> QED
    BY <2>1, <2>2 DEF AskUpload, CheckReport, PrepareUpload, AnswerUpload, PutPhoto, UploadFails
<1> QED
  BY <1>3, <1>4, <1>5, <1>6, <1>7, <1>8, <1>9, <1>10, <1>11

\* The upload of a photo takes nothing from a request that relies on its row.
LEMMA PhotosGoOn ==
  ASSUME EvidenceInv, NEW p \in Photo,
         \/ \E meta \in Metadata : AskUpload(p, meta)
         \/ CheckReport(p) \/ PrepareUpload(p) \/ CreateAttachment(p)
         \/ AnswerUpload(p) \/ PutPhoto(p) \/ UploadFails(p)
  PROVE  EvidenceInv'
<1>1. /\ PhotoInv' /\ UNCHANGED <<desk, extractions, descriptions, downloads, answered>>
      /\ \A q \in Photo : attachments[q] # NoRow => attachments'[q] # NoRow
  BY PhotoSteps DEF EvidenceInv, suggestionVars
<1>2. SuggestionTypes'  BY <1>1 DEF EvidenceInv, SuggestionInv, SuggestionTypes
<1>3. \A d \in Desk : desk[d] # NoDeskRequest /\ desk[d].op = "download" => desk[d].key \in Photo
  BY DEF EvidenceInv, SuggestionInv, SuggestionTypes, DeskRequest
<1>4. DeskInStep'  BY <1>1, <1>3 DEF EvidenceInv, SuggestionInv, DeskInStep, Complete
<1>5. \A a \in answered : a.op = "download" => a.key \in Photo
  BY DEF EvidenceInv, SuggestionInv, SuggestionTypes
<1>6. \A a \in answered : a.op \in {"extract", "describe", "download"}
  BY DEF EvidenceInv, SuggestionInv, SuggestionTypes
<1>7. AnswersOnRecord'
  BY <1>1, <1>5, <1>6 DEF EvidenceInv, SuggestionInv, AnswersOnRecord, Complete
<1> QED  BY <1>1, <1>2, <1>4, <1>7 DEF EvidenceInv, SuggestionInv

-----------------------------------------------------------------------------
(* Suggestions and downloads. *)

\* What an answer promises of the tables.
Promise(a, fields, pairs, links) ==
  \/ /\ a \in [op : {"extract"}, row : 1 .. MaxSuggestions, fields : Suggested]
     /\ a.row <= Len(fields) /\ fields[a.row] = a.fields
  \/ /\ a \in [op : {"describe"}, row : 1 .. MaxSuggestions, pair : Pair]
     /\ a.row <= Len(pairs) /\ pairs[a.row] = a.pair
  \/ /\ a \in [op : {"download"}, key : Photo, row : 1 .. MaxDownloads]
     /\ attachments[a.key] # NoRow /\ a.row <= links[a.key]

LEMMA AnswersPromise ==
  ASSUME SuggestionInv
  PROVE  \A a \in answered : Promise(a, extractions, descriptions, downloads)
<1> SUFFICES ASSUME NEW a \in answered
             PROVE  Promise(a, extractions, descriptions, downloads)
  OBVIOUS
<1>1. CASE a \in [op : {"extract"}, row : 1 .. MaxSuggestions, fields : Suggested]
  <2>1. a.op = "extract"  BY <1>1
  <2> QED  BY <1>1, <2>1 DEF SuggestionInv, AnswersOnRecord, Promise
<1>2. CASE a \in [op : {"describe"}, row : 1 .. MaxSuggestions, pair : Pair]
  <2>1. a.op = "describe"  BY <1>2
  <2> QED  BY <1>2, <2>1 DEF SuggestionInv, AnswersOnRecord, Promise
<1>3. CASE a \in [op : {"download"}, key : Photo, row : 1 .. MaxDownloads]
  <2>1. a.op = "download"  BY <1>3
  <2> QED  BY <1>3, <2>1 DEF SuggestionInv, AnswersOnRecord, Promise
<1> QED  BY <1>1, <1>2, <1>3 DEF SuggestionInv, SuggestionTypes

\* A table that keeps the answers given and the new one, if any, keeps the whole invariant.
LEMMA TablesGrow ==
  ASSUME EvidenceInv, UNCHANGED photoVars,
         desk' \in [Desk -> DeskRequest \cup {NoDeskRequest}], DeskInStep',
         extractions' \in Seq(Suggested), descriptions' \in Seq(Pair),
         downloads' \in [Photo -> 0 .. MaxDownloads],
         \A a \in answered : Promise(a, extractions, descriptions, downloads) =>
                             Promise(a, extractions', descriptions', downloads'),
         \A a \in answered' \ answered : Promise(a, extractions', descriptions', downloads'),
         \A i \in 1 .. Len(descriptions') : Complete(descriptions'[i])
  PROVE  EvidenceInv'
<1>1. UNCHANGED <<attachments, objects, uploads>>  BY DEF photoVars
<1>2. PhotoInv'
  BY <1>1 DEF EvidenceInv, PhotoInv, PhotoTypes, PhotosInStep, Acceptable
<1>3. \A a \in answered' : Promise(a, extractions', descriptions', downloads')
  BY AnswersPromise DEF EvidenceInv
<1>4. SuggestionTypes'  BY <1>3 DEF SuggestionTypes, Promise
<1>5. AnswersOnRecord'
  <2>1. ASSUME NEW a \in answered'
        PROVE  CASE a.op = "extract"  -> /\ a.row <= Len(extractions')
                                          /\ extractions'[a.row] = a.fields
                 [] a.op = "describe" -> /\ a.row <= Len(descriptions')
                                          /\ descriptions'[a.row] = a.pair
                 [] a.op = "download" -> attachments'[a.key] # NoRow /\ a.row <= downloads'[a.key]
    <3>1. CASE /\ a \in [op : {"extract"}, row : 1 .. MaxSuggestions, fields : Suggested]
               /\ a.row <= Len(extractions') /\ extractions'[a.row] = a.fields
      BY <3>1
    <3>2. CASE /\ a \in [op : {"describe"}, row : 1 .. MaxSuggestions, pair : Pair]
               /\ a.row <= Len(descriptions') /\ descriptions'[a.row] = a.pair
      BY <3>2
    <3>3. CASE /\ a \in [op : {"download"}, key : Photo, row : 1 .. MaxDownloads]
               /\ attachments[a.key] # NoRow /\ a.row <= downloads'[a.key]
      BY <1>1, <3>3
    <3> QED  BY <1>3, <3>1, <3>2, <3>3 DEF Promise
  <2> QED  BY <2>1 DEF AnswersOnRecord, Complete
<1> QED  BY <1>2, <1>4, <1>5 DEF EvidenceInv, SuggestionInv

\* A step that touches one request and no table.
LEMMA OneRequest ==
  ASSUME EvidenceInv, UNCHANGED photoVars,
         UNCHANGED <<extractions, descriptions, downloads, answered>>,
         NEW d \in Desk, NEW request \in DeskRequest \cup {NoDeskRequest},
         desk' = [desk EXCEPT ![d] = request],
         request # NoDeskRequest =>
           /\ request.op = "describe" /\ request.stage = "produced" => Complete(request.pair)
           /\ request.op = "download" => attachments[request.key] # NoRow
  PROVE  EvidenceInv'
<1>1. /\ desk' \in [Desk -> DeskRequest \cup {NoDeskRequest}]
      /\ \A e \in Desk : desk'[e] = IF e = d THEN request ELSE desk[e]
  BY DEF EvidenceInv, SuggestionInv, SuggestionTypes
<1>2. attachments' = attachments  BY DEF photoVars
<1>3. DeskInStep'  BY <1>1, <1>2 DEF EvidenceInv, SuggestionInv, DeskInStep, Complete
<1> QED
  BY <1>1, <1>3, TablesGrow DEF EvidenceInv, SuggestionInv, SuggestionTypes, AnswersOnRecord

\* What a request carries, by its operation and stage.
LEMMA RequestKinds ==
  ASSUME EvidenceInv, NEW d \in Desk, desk[d] # NoDeskRequest
  PROVE  /\ desk[d].op = "extract" /\ desk[d].stage = "produced" => desk[d].fields \in Suggested
         /\ desk[d].op = "describe" /\ desk[d].stage = "produced" =>
              desk[d].pair \in Pair /\ Complete(desk[d].pair)
         /\ desk[d].op = "download" =>
              /\ desk[d] \in [op : {"download"}, stage : {"found", "signed"}, key : Photo]
              /\ desk[d].key \in Photo /\ attachments[desk[d].key] # NoRow
<1>1. desk[d] \in DeskRequest
  BY DEF EvidenceInv, SuggestionInv, SuggestionTypes
<1>2. /\ desk[d].op = "describe" /\ desk[d].stage = "produced" => Complete(desk[d].pair)
      /\ desk[d].op = "download" => attachments[desk[d].key] # NoRow
  BY DEF EvidenceInv, SuggestionInv, DeskInStep
<1> QED  BY <1>1, <1>2 DEF DeskRequest

\* Steps between the statements (find_by_id, the adapters, the ends of requests).
LEMMA RequestsGoOn ==
  ASSUME EvidenceInv, NEW d \in Desk,
         \/ OpenExtraction(d) \/ ExtractorAnswers(d)
         \/ \E source \in Text : OpenDescription(d, source)
         \/ GeneratorAnswers(d)
         \/ \E p \in Photo : OpenDownload(d, p)
         \/ SignDownload(d)
         \/ \E size \in 0 .. (MaxAudio + 1), type \in AudioType :
              OpenTranscription(d, size, type)
         \/ TranscriberAnswers(d) \/ RequestFails(d)
  PROVE  EvidenceInv'
<1>1. UNCHANGED photoVars /\ UNCHANGED <<extractions, descriptions, downloads, answered>>
  BY DEF OpenExtraction, ExtractorAnswers, OpenDescription, GeneratorAnswers, OpenDownload,
         SignDownload, OpenTranscription, TranscriberAnswers, RequestFails
<1>2. CASE OpenExtraction(d)
  <2> DEFINE request == [op |-> "extract", stage |-> "found"]
  <2>1. request \in DeskRequest /\ request.op = "extract"  BY DEF DeskRequest
  <2>2. desk' = [desk EXCEPT ![d] = request]  BY <1>2 DEF OpenExtraction, Open
  <2> HIDE DEF request
  <2> QED  BY <1>1, <2>1, <2>2, OneRequest
<1>3. CASE ExtractorAnswers(d)
  <2>1. PICK raw \in Raw :
          desk' = [desk EXCEPT ![d] =
            [op |-> "extract", stage |-> "produced", fields |-> Normalize(raw)]]
    BY <1>3 DEF ExtractorAnswers
  <2>2. Normalize(raw) \in Suggested  BY DEF Normalize, Suggested, Raw, Text
  <2> DEFINE request == [op |-> "extract", stage |-> "produced", fields |-> Normalize(raw)]
  <2>3. request \in DeskRequest /\ request.op = "extract"  BY <2>2 DEF DeskRequest
  <2> HIDE DEF request
  <2> QED  BY <1>1, <2>1, <2>3, OneRequest DEF request
<1>4. CASE \E source \in Text : OpenDescription(d, source)
  <2> DEFINE request == [op |-> "describe", stage |-> "found"]
  <2>1. request \in DeskRequest /\ request.op = "describe" /\ request.stage = "found"
    BY DEF DeskRequest
  <2>2. desk' = [desk EXCEPT ![d] = request]  BY <1>4 DEF OpenDescription, Open
  <2> HIDE DEF request
  <2> QED  BY <1>1, <2>1, <2>2, OneRequest
<1>5. CASE GeneratorAnswers(d)
  <2>1. PICK pair \in Pair :
          /\ Complete(pair)
          /\ desk' = [desk EXCEPT ![d] =
               [op |-> "describe", stage |-> "produced", pair |-> pair]]
    BY <1>5 DEF GeneratorAnswers
  <2> DEFINE request == [op |-> "describe", stage |-> "produced", pair |-> pair]
  <2>2. /\ request \in DeskRequest /\ request.op = "describe" /\ request.pair = pair
    BY DEF DeskRequest
  <2> HIDE DEF request
  <2> QED  BY <1>1, <2>1, <2>2, OneRequest DEF request
<1>6. ASSUME NEW p \in Photo, OpenDownload(d, p)  PROVE EvidenceInv'
  <2> DEFINE request == [op |-> "download", stage |-> "found", key |-> p]
  <2>1. /\ request \in DeskRequest /\ request.op = "download" /\ request.key = p
    BY DEF DeskRequest
  <2>2. desk' = [desk EXCEPT ![d] = request] /\ attachments[p] # NoRow
    BY <1>6 DEF OpenDownload, Open
  <2> HIDE DEF request
  <2> QED  BY <1>1, <2>1, <2>2, OneRequest
<1>7. CASE SignDownload(d)
  <2> DEFINE request == [desk[d] EXCEPT !.stage = "signed"]
  <2>1. desk[d] # NoDeskRequest /\ desk[d].op = "download"
    BY <1>7 DEF SignDownload, IsAt
  <2>2. /\ desk[d] \in [op : {"download"}, stage : {"found", "signed"}, key : Photo]
        /\ attachments[desk[d].key] # NoRow
    BY <2>1, RequestKinds
  <2>3. /\ request \in [op : {"download"}, stage : {"found", "signed"}, key : Photo]
        /\ request.op = "download" /\ request.key = desk[d].key
    BY <2>2
  <2>4. desk' = [desk EXCEPT ![d] = request]
    BY <1>7 DEF SignDownload, EvidenceInv, SuggestionInv, SuggestionTypes
  <2> HIDE DEF request
  <2>5. request \in DeskRequest  BY <2>3 DEF DeskRequest
  <2> QED  BY <1>1, <2>2, <2>3, <2>4, <2>5, OneRequest
<1>8. ASSUME NEW size \in 0 .. (MaxAudio + 1), NEW type \in AudioType,
             OpenTranscription(d, size, type)
      PROVE  EvidenceInv'
  <2>1. FormatOf(type) \in AudioFormat  BY DEF FormatOf, AudioFormat
  <2> DEFINE request == [op |-> "transcribe", format |-> FormatOf(type)]
  <2>2. request \in DeskRequest /\ request.op = "transcribe"  BY <2>1 DEF DeskRequest
  <2>3. desk' = [desk EXCEPT ![d] = request]  BY <1>8 DEF OpenTranscription, Open
  <2> HIDE DEF request
  <2> QED  BY <1>1, <2>2, <2>3, OneRequest
<1>9. CASE TranscriberAnswers(d) \/ RequestFails(d)
  <2>1. desk' = [desk EXCEPT ![d] = NoDeskRequest]
    BY <1>9 DEF TranscriberAnswers, RequestFails, EndRequest
  <2> QED  BY <1>1, <2>1, OneRequest
<1> QED  BY <1>2, <1>3, <1>4, <1>5, <1>6, <1>7, <1>8, <1>9

\* A request that ends leaves the others.
LEMMA EndedRequest ==
  ASSUME EvidenceInv, UNCHANGED photoVars, NEW d \in Desk, EndRequest(d)
  PROVE  desk' \in [Desk -> DeskRequest \cup {NoDeskRequest}] /\ DeskInStep'
<1>1. /\ desk' \in [Desk -> DeskRequest \cup {NoDeskRequest}]
      /\ \A e \in Desk : desk'[e] = IF e = d THEN NoDeskRequest ELSE desk[e]
  BY DEF EndRequest, EvidenceInv, SuggestionInv, SuggestionTypes
<1>2. attachments' = attachments  BY DEF photoVars
<1> QED  BY <1>1, <1>2 DEF EvidenceInv, SuggestionInv, DeskInStep, Complete

\* create of the two repositories appends a row and answers with it.
LEMMA StoreExtractionInv ==
  ASSUME EvidenceInv, NEW d \in Desk, StoreExtraction(d)
  PROVE  EvidenceInv'
<1> DEFINE fields == desk[d].fields
           n == Len(extractions) + 1
           a == [op |-> "extract", row |-> n, fields |-> fields]
<1>1. /\ UNCHANGED photoVars /\ UNCHANGED <<descriptions, downloads>> /\ EndRequest(d)
      /\ extractions' = Append(extractions, fields) /\ Len(extractions) < MaxSuggestions
      /\ desk[d] # NoDeskRequest /\ desk[d].op = "extract" /\ desk[d].stage = "produced"
  BY DEF StoreExtraction, IsAt
<1>2. fields \in Suggested /\ extractions \in Seq(Suggested)
  BY <1>1, RequestKinds DEF EvidenceInv, SuggestionInv, SuggestionTypes
<1>3. /\ extractions' \in Seq(Suggested) /\ Len(extractions') = n
      /\ n \in 1 .. MaxSuggestions
      /\ extractions'[n] = fields
      /\ \A i \in 1 .. Len(extractions) : extractions'[i] = extractions[i]
  BY <1>1, <1>2, EvidenceAssumption
<1>4. answered' \subseteq answered \cup {a}
  BY <1>1, <1>3 DEF StoreExtraction
<1>5. ASSUME NEW b, Promise(b, extractions, descriptions, downloads)
      PROVE  Promise(b, extractions', descriptions', downloads')
  <2>1. CASE /\ b \in [op : {"extract"}, row : 1 .. MaxSuggestions, fields : Suggested]
             /\ b.row <= Len(extractions) /\ extractions[b.row] = b.fields
    <3>1. b.row \in 1 .. Len(extractions) /\ b.row <= Len(extractions')
      BY <1>2, <1>3, <2>1
    <3> QED  BY <1>3, <2>1, <3>1 DEF Promise
  <2> QED  BY <1>1, <1>5, <2>1 DEF Promise
<1>6. Promise(a, extractions', descriptions', downloads')
  <2>1. /\ a \in [op : {"extract"}, row : 1 .. MaxSuggestions, fields : Suggested]
        /\ a.row = n /\ a.fields = fields
    BY <1>2, <1>3
  <2> HIDE DEF a
  <2> QED  BY <1>3, <2>1 DEF Promise
<1> HIDE DEF a, n
<1>7. \A i \in 1 .. Len(descriptions') : Complete(descriptions'[i])
  BY <1>1 DEF EvidenceInv, SuggestionInv, AnswersOnRecord
<1>8. descriptions' \in Seq(Pair) /\ downloads' \in [Photo -> 0 .. MaxDownloads]
  BY <1>1 DEF EvidenceInv, SuggestionInv, SuggestionTypes
<1> QED  BY <1>1, <1>3, <1>4, <1>5, <1>6, <1>7, <1>8, EndedRequest, TablesGrow

LEMMA StoreDescriptionInv ==
  ASSUME EvidenceInv, NEW d \in Desk, StoreDescription(d)
  PROVE  EvidenceInv'
<1> DEFINE pair == desk[d].pair
           n == Len(descriptions) + 1
           a == [op |-> "describe", row |-> n, pair |-> pair]
<1>1. /\ UNCHANGED photoVars /\ UNCHANGED <<extractions, downloads>> /\ EndRequest(d)
      /\ descriptions' = Append(descriptions, pair) /\ Len(descriptions) < MaxSuggestions
      /\ desk[d] # NoDeskRequest /\ desk[d].op = "describe" /\ desk[d].stage = "produced"
  BY DEF StoreDescription, IsAt
<1>2. pair \in Pair /\ Complete(pair) /\ descriptions \in Seq(Pair)
  BY <1>1, RequestKinds DEF EvidenceInv, SuggestionInv, SuggestionTypes
<1>3. /\ descriptions' \in Seq(Pair) /\ Len(descriptions') = n
      /\ n \in 1 .. MaxSuggestions
      /\ descriptions'[n] = pair
      /\ \A i \in 1 .. Len(descriptions) : descriptions'[i] = descriptions[i]
      /\ \A i \in 1 .. n : i = n \/ i \in 1 .. Len(descriptions)
  BY <1>1, <1>2, EvidenceAssumption
<1>4. answered' \subseteq answered \cup {a}
  BY <1>1, <1>3 DEF StoreDescription
<1>5. ASSUME NEW b, Promise(b, extractions, descriptions, downloads)
      PROVE  Promise(b, extractions', descriptions', downloads')
  <2>1. CASE /\ b \in [op : {"describe"}, row : 1 .. MaxSuggestions, pair : Pair]
             /\ b.row <= Len(descriptions) /\ descriptions[b.row] = b.pair
    <3>1. b.row \in 1 .. Len(descriptions) /\ b.row <= Len(descriptions')
      BY <1>2, <1>3, <2>1
    <3> QED  BY <1>3, <2>1, <3>1 DEF Promise
  <2> QED  BY <1>1, <1>5, <2>1 DEF Promise
<1>6. Promise(a, extractions', descriptions', downloads')
  <2>1. /\ a \in [op : {"describe"}, row : 1 .. MaxSuggestions, pair : Pair]
        /\ a.row = n /\ a.pair = pair
    BY <1>2, <1>3
  <2> HIDE DEF a
  <2> QED  BY <1>3, <2>1 DEF Promise
<1> HIDE DEF a, n, pair
<1>7. \A i \in 1 .. Len(descriptions') : Complete(descriptions'[i])
  <2>1. \A i \in 1 .. Len(descriptions) : Complete(descriptions[i])
    BY DEF EvidenceInv, SuggestionInv, AnswersOnRecord
  <2> QED  BY <1>2, <1>3, <2>1
<1>8. extractions' \in Seq(Suggested) /\ downloads' \in [Photo -> 0 .. MaxDownloads]
  BY <1>1 DEF EvidenceInv, SuggestionInv, SuggestionTypes
<1> QED  BY <1>1, <1>3, <1>4, <1>5, <1>6, <1>7, <1>8, EndedRequest, TablesGrow

\* record_download_access counts before the URL is handed out.
LEMMA RecordDownloadInv ==
  ASSUME EvidenceInv, NEW d \in Desk, RecordDownload(d)
  PROVE  EvidenceInv'
<1> DEFINE p == desk[d].key
           n == downloads[p] + 1
           a == [op |-> "download", key |-> p, row |-> n]
<1>1. /\ UNCHANGED photoVars /\ UNCHANGED <<extractions, descriptions>> /\ EndRequest(d)
      /\ downloads[p] < MaxDownloads /\ downloads' = [downloads EXCEPT ![p] = @ + 1]
      /\ desk[d] # NoDeskRequest /\ desk[d].op = "download"
  BY DEF RecordDownload, IsAt
<1>2. /\ p \in Photo /\ attachments[p] # NoRow /\ downloads \in [Photo -> 0 .. MaxDownloads]
      /\ attachments' = attachments
  BY <1>1, RequestKinds DEF EvidenceInv, SuggestionInv, SuggestionTypes, photoVars
<1> HIDE DEF p
<1>3. /\ downloads' \in [Photo -> 0 .. MaxDownloads] /\ downloads'[p] = n
      /\ n \in 1 .. MaxDownloads
      /\ \A q \in Photo : downloads[q] \in Nat /\ downloads'[q] \in Nat
                          /\ downloads[q] <= downloads'[q]
  BY <1>1, <1>2, EvidenceAssumption
<1>4. answered' \subseteq answered \cup {a}
  BY <1>1, <1>3 DEF RecordDownload, p
<1>5. ASSUME NEW b, Promise(b, extractions, descriptions, downloads)
      PROVE  Promise(b, extractions', descriptions', downloads')
  <2>1. CASE /\ b \in [op : {"download"}, key : Photo, row : 1 .. MaxDownloads]
             /\ attachments[b.key] # NoRow /\ b.row <= downloads[b.key]
    <3>1. b.key \in Photo /\ b.row \in Nat  BY <2>1
    <3>2. b.row <= downloads'[b.key]  BY <1>3, <2>1, <3>1
    <3> QED  BY <2>1, <3>2 DEF Promise
  <2> QED  BY <1>1, <1>5, <2>1 DEF Promise
<1>6. Promise(a, extractions', descriptions', downloads')
  <2>1. /\ a \in [op : {"download"}, key : Photo, row : 1 .. MaxDownloads]
        /\ a.row = n /\ a.key = p
    BY <1>2, <1>3
  <2> HIDE DEF a
  <2> QED  BY <1>2, <1>3, <2>1 DEF Promise
<1> HIDE DEF a, n
<1>7. \A i \in 1 .. Len(descriptions') : Complete(descriptions'[i])
  BY <1>1 DEF EvidenceInv, SuggestionInv, AnswersOnRecord
<1>8. extractions' \in Seq(Suggested) /\ descriptions' \in Seq(Pair)
  BY <1>1 DEF EvidenceInv, SuggestionInv, SuggestionTypes
<1> QED  BY <1>1, <1>3, <1>4, <1>5, <1>6, <1>7, <1>8, EndedRequest, TablesGrow

-----------------------------------------------------------------------------
(* The theorems. *)

LEMMA EvidenceInitially == EvidenceInit => EvidenceInv
<1> SUFFICES ASSUME EvidenceInit PROVE EvidenceInv
  OBVIOUS
<1> USE DEF EvidenceInit
<1>1. PhotoTypes  BY DEF PhotoTypes, Stage
<1>2. PhotosInStep  BY DEF PhotosInStep
<1>3. SuggestionTypes  BY EvidenceAssumption DEF SuggestionTypes
<1>4. DeskInStep /\ AnswersOnRecord  BY DEF DeskInStep, AnswersOnRecord
<1> QED  BY <1>1, <1>2, <1>3, <1>4 DEF EvidenceInv, PhotoInv, SuggestionInv

LEMMA EvidenceStep == EvidenceInv /\ [EvidenceNext]_evidenceVars => EvidenceInv'
<1> SUFFICES ASSUME EvidenceInv, [EvidenceNext]_evidenceVars PROVE EvidenceInv'
  OBVIOUS
<1>1. CASE UNCHANGED evidenceVars
  <2>1. UNCHANGED <<attachments, objects, uploads>> /\ UNCHANGED photoVars
    BY <1>1 DEF evidenceVars, photoVars
  <2>2. UNCHANGED <<desk, extractions, descriptions, downloads, answered>>
    BY <1>1 DEF evidenceVars
  <2>3. DeskInStep'  BY <2>1, <2>2 DEF EvidenceInv, SuggestionInv, DeskInStep, Complete
  <2> QED
    BY <2>1, <2>2, <2>3, TablesGrow DEF EvidenceInv, SuggestionInv, SuggestionTypes, AnswersOnRecord
<1> QED
  BY <1>1, PhotosGoOn, RequestsGoOn, StoreExtractionInv, StoreDescriptionInv, RecordDownloadInv
     DEF EvidenceNext

\* The invariant holds in every reachable state.
THEOREM EvidenceInvariant == EvidenceSpec => []EvidenceInv
BY EvidenceInitially, EvidenceStep, PTL DEF EvidenceSpec

\* Type correctness of attachments, suggestions and the requests for them.
THEOREM EvidenceTypeCorrect == EvidenceSpec => []EvidenceTypeOK
<1>1. EvidenceInv => EvidenceTypeOK
  BY DEF EvidenceInv, PhotoInv, SuggestionInv, PhotoTypes, SuggestionTypes, EvidenceTypeOK
<1> QED  BY <1>1, EvidenceInvariant, PTL

\* No object is in the bucket without the row that declares an acceptable file, however an
\* upload is cut off, for any number of photos (create_attachment, uploadPhoto).
THEOREM PhotosAccountedForHolds == EvidenceSpec => []PhotosAccountedFor
<1>1. EvidenceInv => PhotosAccountedFor
  <2> SUFFICES ASSUME EvidenceInv, NEW p \in Photo
               PROVE  /\ objects[p] # NoObject => /\ attachments[p] # NoRow
                                                  /\ attachments[p].type \in Supported
                                                  /\ attachments[p].size \in 1 .. MaxSize
                      /\ uploads[p].stage = "done" => objects[p] = p
                      /\ attachments[p] # NoRow /\ objects[p] = NoObject =>
                           uploads[p].stage \in {"created", "granted", "lost"}
    BY DEF PhotosAccountedFor
  <2>1. uploads[p].stage \in Stage  BY DEF EvidenceInv, PhotoInv, PhotoTypes
  <2> QED
    BY <2>1, EvidenceAssumption DEF EvidenceInv, PhotoInv, PhotosInStep, Acceptable, Stage
<1> QED  BY <1>1, EvidenceInvariant, PTL

\* A suggestion or a download URL a reviewer was given stays on record, however requests
\* overlap and fail, for any number of them (create_extraction, generate_alert_description,
\* create_download_url).
THEOREM AnswersOnRecordHolds == EvidenceSpec => []AnswersOnRecord
<1>1. EvidenceInv => AnswersOnRecord  BY DEF EvidenceInv, SuggestionInv
<1> QED  BY <1>1, EvidenceInvariant, PTL

-----------------------------------------------------------------------------
(* Rules in the API, in the table and in memory. *)

\* from_database_value undoes as_database_value.
LEMMA ComparisonReadBack ==
  ASSUME NEW c \in Comparison
  PROVE  /\ AsDatabaseValue(c) \in DatabaseComparison
         /\ FromDatabaseValue(AsDatabaseValue(c)) = c
<1>1. \A d \in Comparison : AsDatabaseValue(d) = AsDatabaseValue(c) => d = c
  BY DEF Comparison, AsDatabaseValue
<1>2. AsDatabaseValue(c) \in DatabaseComparison
  BY DEF Comparison, AsDatabaseValue, DatabaseComparison
<1>3. QED
  BY <1>1, <1>2 DEF FromDatabaseValue

\* rule_from_json undoes rule_to_json.
LEMMA RuleReadBack ==
  ASSUME NEW r \in Rule
  PROVE  RuleToJson(r) \in StoredRule /\ RuleFromJson(RuleToJson(r)) = r
<1>1. CASE r.rule = "SEVERITY"
  <2>1. r \in [rule : {"SEVERITY"}, operator : Comparison, value : Severity]
    BY <1>1 DEF Rule
  <2> DEFINE json == [r EXCEPT !.operator = AsDatabaseValue(@)]
  <2>2. /\ json \in [rule : {"SEVERITY"}, operator : DatabaseComparison, value : Severity]
        /\ json.operator = AsDatabaseValue(r.operator)
        /\ [json EXCEPT !.operator = r.operator] = r
    BY <2>1, ComparisonReadBack
  <2>3. RuleToJson(r) = json
    BY <1>1 DEF RuleToJson
  <2>4. RuleFromJson(json) = [json EXCEPT !.operator = r.operator]
    BY <2>1, <2>2, ComparisonReadBack DEF RuleFromJson
  <2>5. json \in StoredRule
    BY <2>2 DEF StoredRule
  <2>6. QED
    BY <2>2, <2>3, <2>4, <2>5
<1>2. CASE r.rule = "GEOGRAPHY"
  <2>1. r \in [rule : {"GEOGRAPHY"}, areas : SUBSET Area]
    BY <1>2 DEF Rule
  <2>2. RuleToJson(r) = r /\ r \in StoredRule
    BY <2>1 DEF RuleToJson, StoredRule
  <2>3. RuleFromJson(r) = r
    BY <2>1 DEF RuleFromJson
  <2>4. QED
    BY <2>2, <2>3
<1>3. CASE r.rule \notin {"SEVERITY", "GEOGRAPHY"}
  <2>1. RuleToJson(r) = r /\ RuleFromJson(r) = r
    BY <1>3 DEF RuleToJson, RuleFromJson
  <2>2. r \in StoredRule
    BY <1>3 DEF Rule, StoredRule
  <2>3. QED
    BY <2>1, <2>2
<1>4. QED
  BY <1>1, <1>2, <1>3

\* What is stored is read back as it was.
LEMMA RulesReadBack ==
  ASSUME NEW rules \in Seq(Rule)
  PROVE  /\ RulesToJson(rules) \in Seq(StoredRule)
         /\ RulesFromJson(RulesToJson(rules)) = rules
<1> DEFINE n == Len(rules)
           json == RulesToJson(rules)
<1>1. n \in Nat /\ DOMAIN rules = 1 .. n /\ \A i \in 1 .. n : rules[i] \in Rule
  OBVIOUS
<1>2. json = [i \in 1 .. n |-> RuleToJson(rules[i])]
  BY <1>1 DEF RulesToJson
<1>3. \A i \in 1 .. n : json[i] \in StoredRule /\ RuleFromJson(json[i]) = rules[i]
  BY <1>1, <1>2, RuleReadBack
<1>4. json \in Seq(StoredRule)
  BY <1>1, <1>2, <1>3
<1>5. RulesFromJson(json) = [i \in 1 .. n |-> RuleFromJson(json[i])]
  BY <1>2 DEF RulesFromJson
<1>6. RulesFromJson(json) = [i \in 1 .. n |-> rules[i]]
  BY <1>3, <1>5
<1>7. QED
  BY <1>1, <1>4, <1>6

\* The rules of a row from before several areas were supported.
OldRules(json) == [i \in DOMAIN json |-> [rule |-> "GEOGRAPHY", areas |-> {json[i].area}]]

\* A row of the older form is read as a rule with one area.
LEMMA OldRulesReadBack ==
  ASSUME NEW json \in Legacy
  PROVE  /\ json \in Seq(StoredRule)
         /\ OldRules(json) \in Seq(Rule) /\ OldRules(json) # <<>>
         /\ RulesFromJson(json) = OldRules(json)
<1> DEFINE n == Len(json)
<1>1. json # <<>> /\ json \in Seq([rule : {"GEOGRAPHY"}, area : Area])
  BY SubscriberAssumption
<1>2. n \in Nat \ {0} /\ json \in [1 .. n -> [rule : {"GEOGRAPHY"}, area : Area]]
  BY <1>1, EmptySeq, LenProperties, Zenon
<1>3. \A i \in 1 .. n : json[i] \in [rule : {"GEOGRAPHY"}, area : Area]
  BY <1>2
<1>4. \A i \in 1 .. n : json[i] \in StoredRule
  BY <1>3 DEF StoredRule
<1>5. json \in Seq(StoredRule)
  BY <1>2, <1>4
<1>6. \A i \in 1 .. n :
        [rule |-> "GEOGRAPHY", areas |-> {json[i].area}] \in Rule
  BY <1>3 DEF Rule
<1>7. OldRules(json) = [i \in 1 .. n |-> [rule |-> "GEOGRAPHY", areas |-> {json[i].area}]]
  BY <1>2 DEF OldRules
<1>8. OldRules(json) \in Seq(Rule) /\ OldRules(json) # <<>>
  BY <1>2, <1>6, <1>7
<1>9. \A i \in 1 .. n :
        RuleFromJson(json[i]) = [rule |-> "GEOGRAPHY", areas |-> {json[i].area}]
  <2> TAKE i \in 1 .. n
  <2>1. json[i].rule = "GEOGRAPHY" /\ DOMAIN json[i] = {"rule", "area"}
    BY <1>3
  <2>2. "areas" \notin DOMAIN json[i]
    BY <2>1
  <2>3. QED
    BY <2>1, <2>2 DEF RuleFromJson
<1>10. QED
  BY <1>2, <1>5, <1>7, <1>8, <1>9 DEF RulesFromJson

\* What a reviewer sends and the API accepts are rules.
LEMMA AcceptedAreRules ==
  ASSUME NEW inputs \in ReviewerRules, AcceptedRules(inputs)
  PROVE  inputs \in Seq(Rule) /\ inputs # <<>>
<1>1. inputs \in Seq(RuleInput)
  BY SubscriberAssumption
<1>2. inputs # <<>>
  BY DEF AcceptedRules
<1>3. ASSUME NEW i \in DOMAIN inputs PROVE inputs[i] \in Rule
  <2>1. inputs[i] \in RuleInput /\ ToDomainRule(inputs[i])
    BY <1>1, <1>3 DEF AcceptedRules
  <2>2. CASE inputs[i].rule = "GEOGRAPHY"
    BY <2>1, <2>2 DEF RuleInput, ToDomainRule, AreaInput, Rule
  <2>3. CASE inputs[i].rule = "SEVERITY"
    BY <2>1, <2>3 DEF RuleInput, ToDomainRule, Rule
  <2>4. CASE inputs[i].rule \notin {"GEOGRAPHY", "SEVERITY"}
    BY <2>1, <2>4 DEF RuleInput, Rule
  <2>5. QED
    BY <2>2, <2>3, <2>4
<1>4. QED
  BY <1>1, <1>2, <1>3
-----------------------------------------------------------------------------
(* The rules of citizens. *)

\* What a citizen asks for is four rules, one of each kind.
LEMMA CitizenRulesAre ==
  ASSUME NEW ask \in CitizenAsk
  PROVE  LET rules == CitizenRules(ask) IN
         /\ DOMAIN rules = 1 .. 4
         /\ rules[1] = [rule |-> "INCIDENT_TYPE", values |-> ask.incidents]
         /\ rules[2] = [rule |-> "SEVERITY", operator |-> "GreaterThanOrEqual",
                        value |-> ask.minimum]
         /\ rules[3] = [rule |-> "GEOGRAPHY", areas |-> ask.areas \ {Blank}]
         /\ rules[4] = [rule |-> "VISIBILITY", values |-> Broad]
         /\ rules \in Seq(Rule) /\ rules # <<>>
<1> DEFINE r1 == [rule |-> "INCIDENT_TYPE", values |-> ask.incidents]
           r2 == [rule |-> "SEVERITY", operator |-> "GreaterThanOrEqual",
                  value |-> ask.minimum]
           r3 == [rule |-> "GEOGRAPHY", areas |-> ask.areas \ {Blank}]
           r4 == [rule |-> "VISIBILITY", values |-> Broad]
<1>1. r1 \in Rule
  BY DEF CitizenAsk, Rule
<1>2. r2 \in Rule
  BY DEF CitizenAsk, Rule, Comparison
<1>3. ask.areas \ {Blank} \subseteq Area
  BY DEF CitizenAsk, AreaInput
<1>4. r3 \in Rule
  BY <1>3 DEF Rule
<1>5. r4 \in Rule
  BY RulesAssumption DEF Rule
<1>6. CitizenRules(ask) = <<r1, r2, r3, r4>>
  BY DEF CitizenRules
<1> HIDE DEF r1, r2, r3, r4
<1>7. <<r1, r2, r3, r4>> \in Seq(Rule) /\ DOMAIN <<r1, r2, r3, r4>> = 1 .. 4
  BY <1>1, <1>2, <1>4, <1>5
<1>8. <<r1, r2, r3, r4>> # <<>>
  BY <1>7
<1>9. QED
  BY <1>6, <1>7, <1>8 DEF r1, r2, r3, r4

\* What a citizen asked for matches only alerts for everyone, at a place that was asked for.
LEMMA CitizenMatches ==
  ASSUME NEW ask \in CitizenAsk, NEW alert \in Announcement,
         \A i \in DOMAIN CitizenRules(ask) : EvaluateRule(CitizenRules(ask)[i], alert)
  PROVE  /\ alert.visibility \in Broad
         /\ \E area \in ask.areas \ {Blank} : MatchesTarget(area, alert.target)
<1>0. 3 \in DOMAIN CitizenRules(ask) /\ 4 \in DOMAIN CitizenRules(ask)
  <2>1. DOMAIN CitizenRules(ask) = 1 .. 4
    BY CitizenRulesAre, Zenon
  <2>2. 3 \in 1 .. 4 /\ 4 \in 1 .. 4
    OBVIOUS
  <2>3. QED
    BY <2>1, <2>2, Zenon
<1>1. EvaluateRule(CitizenRules(ask)[4], alert) /\ EvaluateRule(CitizenRules(ask)[3], alert)
  BY <1>0, Zenon
<1>2. EvaluateRule([rule |-> "VISIBILITY", values |-> Broad], alert)
  BY <1>1, CitizenRulesAre
<1>3. EvaluateRule([rule |-> "GEOGRAPHY", areas |-> ask.areas \ {Blank}], alert)
  BY <1>1, CitizenRulesAre
<1>4. alert.visibility \in Broad
  BY <1>2 DEF EvaluateRule
<1>5. \E area \in ask.areas \ {Blank} : MatchesTarget(area, alert.target)
  BY <1>3 DEF EvaluateRule
<1>6. QED
  BY <1>4, <1>5

\* Where a kind has one rule, that is the last.
LEMMA OnlyRuleIsLast ==
  ASSUME NEW rules, NEW kind, NEW other, NEW i \in DOMAIN rules, rules[i].rule = kind,
         \A j \in DOMAIN rules : rules[j].rule = kind => j = i,
         i \in Nat
  PROVE  LastOf(rules, kind, other) = rules[i]
<1> DEFINE places == {j \in DOMAIN rules : rules[j].rule = kind}
<1>0. places # {}
  OBVIOUS
<1>1. places = {i}
  OBVIOUS
<1>2. (CHOOSE k \in {i} : \A j \in {i} : j <= k) = i
  OBVIOUS
<1>3. (CHOOSE k \in places : \A j \in places : j <= k) = i
  BY <1>1, <1>2
<1>4. QED
  BY <1>0, <1>3, Zenon DEF LastOf

\* What a citizen is shown, sent back, is the same again.
LEMMA ShownSentBack ==
  ASSUME NEW ask \in CitizenAsk
  PROVE  CitizenRules(Shown(CitizenRules(ask))) = CitizenRules(ask)
<1> DEFINE rules == CitizenRules(ask)
<1>1. /\ DOMAIN rules = 1 .. 4
      /\ rules[1] = [rule |-> "INCIDENT_TYPE", values |-> ask.incidents]
      /\ rules[2] = [rule |-> "SEVERITY", operator |-> "GreaterThanOrEqual",
                     value |-> ask.minimum]
      /\ rules[3] = [rule |-> "GEOGRAPHY", areas |-> ask.areas \ {Blank}]
      /\ rules[4] = [rule |-> "VISIBILITY", values |-> Broad]
  BY CitizenRulesAre
<1> HIDE DEF rules
<1>2. /\ rules[1].rule = "INCIDENT_TYPE" /\ rules[2].rule = "SEVERITY"
      /\ rules[3].rule = "GEOGRAPHY" /\ rules[4].rule = "VISIBILITY"
  BY <1>1
<1>3. \A i \in 1 .. 4 : i = 1 \/ i = 2 \/ i = 3 \/ i = 4
  OBVIOUS
<1>4. \A other : LastOf(rules, "INCIDENT_TYPE", other) = rules[1]
  BY <1>1, <1>2, <1>3, OnlyRuleIsLast
<1>5. \A other : LastOf(rules, "SEVERITY", other) = rules[2]
  BY <1>1, <1>2, <1>3, OnlyRuleIsLast
<1>6. \A other : LastOf(rules, "GEOGRAPHY", other) = rules[3]
  BY <1>1, <1>2, <1>3, OnlyRuleIsLast
<1>7. Shown(rules) = [incidents |-> rules[1].values, minimum |-> rules[2].value,
                      areas |-> rules[3].areas]
  BY <1>4, <1>5, <1>6 DEF Shown
<1>8. Shown(rules) = [incidents |-> ask.incidents, minimum |-> ask.minimum,
                      areas |-> ask.areas \ {Blank}]
  BY <1>1, <1>7
<1>9. (ask.areas \ {Blank}) \ {Blank} = ask.areas \ {Blank}
  OBVIOUS
<1>10. QED
  BY <1>8, <1>9 DEF CitizenRules, rules
-----------------------------------------------------------------------------
(* The inductive invariant. *)

CitizenWrote(rules) == \E ask \in CitizenAsk : rules = CitizenRules(ask)

\* A row reads as what was last accepted, and citizens write citizens' rules.
RowOK(s) ==
  subscriptions[s] # NoSubscription =>
    /\ accepted[s] # <<>>
    /\ RulesFromJson(subscriptions[s].rules) = accepted[s]
    /\ s \notin reviewed => CitizenWrote(accepted[s])

\* What a token is for, or that it was given back.
Opens(c, s) == s \in cancelled \/ MayOpen(c, s)

\* What a request may rely on since its earlier steps: a creation has made what it is past, and
\* its id is still nobody's.
CreationOK(j) ==
  /\ j.stage # "begun" => consumers[j.consumer] = "citizen"
  /\ j.stage \in {"preference", "subscription"} => preferences[j.consumer] # NoEndpoint
  /\ j.stage = "subscription" => Opens(j.consumer, j.id)
  /\ j.stage # "subscription" => accepted[j.id] = <<>>

ErrandBacked(j) ==
  /\ j.op # "cancel" => j.rules # <<>>
  /\ j.op \in {"create", "update"} => CitizenWrote(j.rules)
  /\ j.op = "create" => CreationOK(j)
  /\ j.op = "update" /\ j.stage = "updated" => j.endpoint \in offered[j.consumer]
  /\ j.op = "cancel" => j.id \in cancelled

\* A creation that has drawn its id and not stored the subscription.
Unstored(j) == j # NoRequest /\ j.op = "create" /\ j.stage # "subscription"

IdsApart ==
  \A q, r \in Request :
    Unstored(errands[q]) /\ Unstored(errands[r]) /\ errands[q].id = errands[r].id => q = r

SubscriberInv ==
  /\ SubscriberTypeOK
  /\ \A s \in SubscriptionId : RowOK(s)
  /\ \A q \in Request : errands[q] # NoRequest => ErrandBacked(errands[q])
  /\ IdsApart
  /\ TokenOpens
-----------------------------------------------------------------------------
(* Types. *)

Creation ==
  [op : {"create"}, stage : {"begun", "consumer", "preference", "subscription"},
   consumer : Consumer, id : SubscriptionId, rules : Seq(Rule), endpoint : Endpoint]
OwnUpdate ==
  [op : {"update"}, stage : {"loaded", "updated"}, consumer : Consumer,
   id : SubscriptionId, rules : Seq(Rule), endpoint : Endpoint \cup {NoEndpoint},
   version : 1 .. MaxVersion]
Cancellation ==
  [op : {"cancel"}, stage : {"loaded"}, consumer : Consumer, id : SubscriptionId]
Review ==
  [op : {"review"}, stage : {"loaded"}, consumer : Consumer, id : SubscriptionId,
   rules : Seq(Rule), version : 1 .. MaxVersion]

LEMMA ErrandKinds == Errand = Creation \cup OwnUpdate \cup Cancellation \cup Review
  BY DEF Errand, Creation, OwnUpdate, Cancellation, Review

\* A request under way is a record of its operation.
LEMMA ErrandOf ==
  ASSUME SubscriberTypeOK, NEW q \in Request, errands[q] # NoRequest
  PROVE  /\ errands[q] \in Errand
         /\ errands[q].consumer \in Consumer /\ errands[q].id \in SubscriptionId
         /\ errands[q].op = "create" => errands[q] \in Creation
         /\ errands[q].op = "update" => errands[q] \in OwnUpdate
         /\ errands[q].op = "cancel" => errands[q] \in Cancellation
         /\ errands[q].op = "review" => errands[q] \in Review
<1>1. errands[q] \in Errand
  BY DEF SubscriberTypeOK
<1>2. errands[q] \in Creation \/ errands[q] \in OwnUpdate
      \/ errands[q] \in Cancellation \/ errands[q] \in Review
  BY <1>1, ErrandKinds
<1>3. errands[q] \in Creation => errands[q].op = "create"
      /\ errands[q].consumer \in Consumer /\ errands[q].id \in SubscriptionId
  BY DEF Creation
<1>4. errands[q] \in OwnUpdate => errands[q].op = "update"
      /\ errands[q].consumer \in Consumer /\ errands[q].id \in SubscriptionId
  BY DEF OwnUpdate
<1>5. errands[q] \in Cancellation => errands[q].op = "cancel"
      /\ errands[q].consumer \in Consumer /\ errands[q].id \in SubscriptionId
  BY DEF Cancellation
<1>6. errands[q] \in Review => errands[q].op = "review"
      /\ errands[q].consumer \in Consumer /\ errands[q].id \in SubscriptionId
  BY DEF Review
<1>7. QED
  BY <1>1, <1>2, <1>3, <1>4, <1>5, <1>6

\* A step of one request keeps the types of all.
LEMMA ErrandsTyped ==
  ASSUME SubscriberTypeOK, NEW q \in Request,
         \/ \E j \in Errand : Begin(q, j)
         \/ Finish(q)
         \/ \E stage \in {"consumer", "preference", "subscription"} :
              (\E s \in {"begun", "consumer", "preference"} : Doing(q, "create", s))
              /\ Proceeds(q, stage)
         \/ Doing(q, "update", "loaded") /\ Proceeds(q, "updated")
  PROVE  errands' \in [Request -> Errand \cup {NoRequest}]
<1>1. errands \in [Request -> Errand \cup {NoRequest}]
  BY DEF SubscriberTypeOK
<1>2. CASE \E j \in Errand : Begin(q, j)
  BY <1>1, <1>2 DEF Begin
<1>3. CASE Finish(q)
  BY <1>1, <1>3 DEF Finish
<1>4. ASSUME NEW stage \in {"consumer", "preference", "subscription"},
             errands[q] \in Creation, Proceeds(q, stage)
      PROVE  errands' \in [Request -> Errand \cup {NoRequest}]
  <2>1. [errands[q] EXCEPT !.stage = stage] \in Creation
    BY <1>4 DEF Creation
  <2>2. [errands[q] EXCEPT !.stage = stage] \in Errand
    BY <2>1, ErrandKinds
  <2>3. QED
    BY <1>1, <1>4, <2>2 DEF Proceeds
<1>5. ASSUME errands[q] \in OwnUpdate, Proceeds(q, "updated")
      PROVE  errands' \in [Request -> Errand \cup {NoRequest}]
  <2>1. [errands[q] EXCEPT !.stage = "updated"] \in OwnUpdate
    BY <1>5 DEF OwnUpdate
  <2>2. [errands[q] EXCEPT !.stage = "updated"] \in Errand
    BY <2>1, ErrandKinds
  <2>3. QED
    BY <1>1, <1>5, <2>2 DEF Proceeds
<1>6. QED
  BY <1>2, <1>3, <1>4, <1>5, ErrandOf DEF Doing

\* A row that is stored is one.
LEMMA StoredIsRow ==
  ASSUME NEW c \in Consumer, NEW version \in 1 .. MaxVersion, NEW rules \in Seq(Rule)
  PROVE  /\ Stored(c, version, rules) \in SubscriptionRow
         /\ Stored(c, version, rules) # NoSubscription
         /\ Stored(c, version, rules).consumer = c
         /\ RulesFromJson(Stored(c, version, rules).rules) = rules
BY RulesReadBack, AbsenceAssumption DEF Stored, SubscriptionRow

\* A row that is present is one.
LEMMA RowPresent ==
  ASSUME SubscriberTypeOK, NEW s \in SubscriptionId, subscriptions[s] # NoSubscription
  PROVE  /\ subscriptions[s] \in SubscriptionRow
         /\ subscriptions[s].consumer \in Consumer
         /\ subscriptions[s].version \in 1 .. MaxVersion
BY DEF SubscriberTypeOK, SubscriptionRow

\* An update that finds its version replaces a row of the same consumer.
LEMMA RowReplaced ==
  ASSUME SubscriberTypeOK, NEW j, j.id \in SubscriptionId, j.version \in 1 .. MaxVersion,
         j.rules \in Seq(Rule), IsUnchanged(j), ReplaceRules(j)
  PROVE  /\ subscriptions' \in [SubscriptionId -> SubscriptionRow \cup {NoSubscription}]
         /\ accepted' \in [SubscriptionId -> Seq(Rule)]
         /\ subscriptions'[j.id] # NoSubscription
         /\ subscriptions'[j.id].consumer = subscriptions[j.id].consumer
         /\ RulesFromJson(subscriptions'[j.id].rules) = j.rules /\ accepted'[j.id] = j.rules
         /\ \A s \in SubscriptionId \ {j.id} :
              subscriptions'[s] = subscriptions[s] /\ accepted'[s] = accepted[s]
<1> DEFINE row == Stored(subscriptions[j.id].consumer, j.version + 1, j.rules)
<1>1. j.version + 1 \in 1 .. MaxVersion
  BY SubscriberAssumption DEF IsUnchanged
<1>2. subscriptions[j.id].consumer \in Consumer
  BY RowPresent DEF IsUnchanged
<1>3. /\ row \in SubscriptionRow /\ row # NoSubscription
      /\ row.consumer = subscriptions[j.id].consumer
      /\ RulesFromJson(row.rules) = j.rules
  BY <1>1, <1>2, StoredIsRow
<1>4. /\ subscriptions' = [subscriptions EXCEPT ![j.id] = row]
      /\ accepted' = [accepted EXCEPT ![j.id] = j.rules]
  BY DEF ReplaceRules
<1> HIDE DEF row
<1>5. QED
  BY <1>3, <1>4 DEF SubscriberTypeOK
-----------------------------------------------------------------------------
(* What every step leaves true. *)

\* Nobody's token, endpoint or subscription is taken away, but by a cancellation.
NothingTaken ==
  /\ \A c \in Consumer : consumers[c] = "citizen" => consumers'[c] = "citizen"
  /\ \A c \in Consumer : preferences[c] # NoEndpoint => preferences'[c] # NoEndpoint
  /\ \A c \in Consumer : offered[c] \subseteq offered'[c]
  /\ cancelled \subseteq cancelled'
  /\ \A s \in SubscriptionId : s \in cancelled' \/ subscriptions[s] = NoSubscription
       \/ /\ subscriptions'[s] # NoSubscription
          /\ subscriptions'[s].consumer = subscriptions[s].consumer

LEMMA OpensStays ==
  ASSUME SubscriberTypeOK, NothingTaken, NEW c \in Consumer, NEW s \in SubscriptionId,
         Opens(c, s)
  PROVE  Opens(c, s)'
<1>1. CASE s \in cancelled'
  BY <1>1 DEF Opens
<1>2. CASE s \notin cancelled'
  <2>1. MayOpen(c, s)
    BY <1>2 DEF Opens, NothingTaken
  <2>2. /\ subscriptions'[s] # NoSubscription
        /\ subscriptions'[s].consumer = c /\ consumers[c] = "citizen"
    BY <1>2, <2>1 DEF MayOpen, NothingTaken
  <2>3. MayOpen(c, s)'
    BY <2>2 DEF MayOpen, NothingTaken
  <2>4. QED
    BY <2>3 DEF Opens
<1>3. QED
  BY <1>1, <1>2

\* A request can go on relying on what it has.
LEMMA BackingStays ==
  ASSUME SubscriberTypeOK, NothingTaken, NEW j \in Errand, ErrandBacked(j),
         Unstored(j) => accepted'[j.id] = <<>>
  PROVE  ErrandBacked(j)'
<1>1. j # NoRequest /\ j.consumer \in Consumer /\ j.id \in SubscriptionId
  BY AbsenceAssumption DEF Errand
<1>2. ASSUME j.op = "create" PROVE CreationOK(j)'
  <2>1. CreationOK(j)
    BY <1>2 DEF ErrandBacked
  <2>2. j.stage = "subscription" => Opens(j.consumer, j.id)'
    BY <1>1, <2>1, OpensStays DEF CreationOK
  <2>3. j.stage # "subscription" => accepted'[j.id] = <<>>
    BY <1>1, <1>2 DEF Unstored
  <2>4. j.stage # "begun" => consumers'[j.consumer] = "citizen"
    BY <1>1, <2>1 DEF CreationOK, NothingTaken
  <2>5. j.stage \in {"preference", "subscription"} => preferences'[j.consumer] # NoEndpoint
    BY <1>1, <2>1 DEF CreationOK, NothingTaken
  <2>6. QED
    BY <2>2, <2>3, <2>4, <2>5 DEF CreationOK
<1>3. j.op = "update" /\ j.stage = "updated" => j.endpoint \in offered'[j.consumer]
  BY <1>1 DEF ErrandBacked, NothingTaken
<1>4. j.op = "cancel" => j.id \in cancelled'
  BY DEF ErrandBacked, NothingTaken
<1>5. QED
  BY <1>2, <1>3, <1>4 DEF ErrandBacked

\* A row that is left alone stays in order.
LEMMA RowStays ==
  ASSUME NEW s \in SubscriptionId, RowOK(s), reviewed \subseteq reviewed',
         \/ subscriptions'[s] = NoSubscription
         \/ subscriptions'[s] = subscriptions[s] /\ accepted'[s] = accepted[s]
  PROVE  RowOK(s)'
<1>1. CASE subscriptions'[s] = NoSubscription
  BY <1>1 DEF RowOK
<1>2. CASE subscriptions'[s] = subscriptions[s] /\ accepted'[s] = accepted[s]
  <2>1. SUFFICES ASSUME subscriptions'[s] # NoSubscription
                 PROVE  /\ accepted'[s] # <<>>
                        /\ RulesFromJson(subscriptions'[s].rules) = accepted'[s]
                        /\ s \notin reviewed' => CitizenWrote(accepted'[s])
    BY DEF RowOK
  <2>2. QED
    BY <1>2, <2>1 DEF RowOK
<1>3. QED
  BY <1>1, <1>2

\* What has been told goes on being true.
LEMMA TokensStay ==
  ASSUME SubscriberTypeOK, NothingTaken, TokenOpens,
         told' = told \/ \E c \in Consumer, s \in SubscriptionId :
           /\ told' = told \cup {<<c, s>>}
           /\ consumers[c] = "citizen" /\ preferences[c] # NoEndpoint /\ Opens(c, s),
         \A c \in Consumer : preferences'[c] = preferences[c]
                             \/ preferences'[c] \in offered'[c]
  PROVE  TokenOpens'
<1>1. ASSUME NEW pair \in told'
      PROVE  /\ consumers'[pair[1]] = "citizen" /\ preferences'[pair[1]] # NoEndpoint
             /\ pair[2] \in cancelled' \/ MayOpen(pair[1], pair[2])'
  <2>1. /\ pair[1] \in Consumer /\ pair[2] \in SubscriptionId
        /\ consumers[pair[1]] = "citizen" /\ preferences[pair[1]] # NoEndpoint
        /\ Opens(pair[1], pair[2])
    <3>1. CASE pair \in told
      BY <3>1 DEF SubscriberTypeOK, TokenOpens, Opens
    <3>2. CASE pair \notin told
      BY <1>1, <3>2
    <3>3. QED
      BY <3>1, <3>2
  <2>2. Opens(pair[1], pair[2])'
    BY <2>1, OpensStays
  <2>3. QED
    BY <2>1, <2>2 DEF Opens, NothingTaken
<1>2. ASSUME NEW c \in Consumer, preferences'[c] # NoEndpoint
      PROVE  preferences'[c] \in offered'[c]
  BY <1>2 DEF TokenOpens, NothingTaken
<1>3. QED
  BY <1>1, <1>2 DEF TokenOpens
\* A request stays where it is, ends, or has what it goes on with.
GoesOn(r) ==
  \/ errands'[r] = errands[r] /\ (Unstored(errands[r]) => accepted'[errands[r].id] = <<>>)
  \/ errands'[r] = NoRequest
  \/ ErrandBacked(errands[r])'

\* Ids stay apart when none is drawn.
LEMMA IdsStay ==
  ASSUME IdsApart,
         \A r \in Request : Unstored(errands'[r]) =>
           Unstored(errands[r]) /\ errands'[r].id = errands[r].id
  PROVE  IdsApart'
BY DEF IdsApart, Unstored

\* What is left to see of a step.
LEMMA InvKept ==
  ASSUME SubscriberInv, SubscriberTypeOK', NothingTaken, IdsApart',
         \A r \in Request : GoesOn(r),
         \A s \in SubscriptionId : RowOK(s)',
         told' = told \/ \E c \in Consumer, s \in SubscriptionId :
           /\ told' = told \cup {<<c, s>>}
           /\ consumers[c] = "citizen" /\ preferences[c] # NoEndpoint /\ Opens(c, s),
         \A c \in Consumer : preferences'[c] = preferences[c]
                             \/ preferences'[c] \in offered'[c]
  PROVE  SubscriberInv'
<1>1. ASSUME NEW r \in Request, errands'[r] # NoRequest PROVE ErrandBacked(errands[r])'
  <2>1. CASE ErrandBacked(errands[r])'
    BY <2>1
  <2>2. CASE /\ errands'[r] = errands[r]
             /\ Unstored(errands[r]) => accepted'[errands[r].id] = <<>>
    <3> DEFINE j == errands[r]
    <3>1. j \in Errand /\ ErrandBacked(j)
      BY <1>1, <2>2, ErrandOf DEF SubscriberInv
    <3>2. j = errands'[r] /\ (Unstored(j) => accepted'[j.id] = <<>>)
      BY <2>2
    <3> HIDE DEF j
    <3>3. ASSUME NEW k \in Errand, ErrandBacked(k), Unstored(k) => accepted'[k.id] = <<>>
          PROVE  ErrandBacked(k)'
      BY <3>3, BackingStays DEF SubscriberInv
    <3>4. ASSUME NEW k \in Errand, ErrandBacked(k), Unstored(k) => accepted'[k.id] = <<>>,
                 k = errands'[r]
          PROVE  ErrandBacked(errands[r])'
      BY <3>3, <3>4 DEF ErrandBacked, CreationOK, Opens, MayOpen
    <3>5. QED
      BY <3>1, <3>2, <3>4
  <2>3. QED
    BY <1>1, <2>1, <2>2 DEF GoesOn
<1>2. TokenOpens'
  BY TokensStay DEF SubscriberInv
<1>3. QED
  BY <1>1, <1>2 DEF SubscriberInv

\* The initial states.
LEMMA SubscribersBegin == ASSUME SubscriberInit PROVE SubscriberInv
<1>1. /\ preferences = [c \in Consumer |-> NoEndpoint]
      /\ errands = [q \in Request |-> NoRequest]
      /\ told = {} /\ cancelled = {} /\ offered = [c \in Consumer |-> {}]
  BY DEF SubscriberInit
<1>2. /\ consumers \in [Consumer -> ConsumerRow \cup {NoConsumer}]
      /\ subscriptions \in [SubscriptionId -> SubscriptionRow \cup {NoSubscription}]
      /\ accepted \in [SubscriptionId -> Seq(Rule)] /\ reviewed \subseteq SubscriptionId
      /\ \A s \in SubscriptionId : RowOK(s)
  <2>1. CASE /\ consumers = [c \in Consumer |-> NoConsumer]
             /\ subscriptions = [s \in SubscriptionId |-> NoSubscription]
             /\ accepted = [s \in SubscriptionId |-> <<>>] /\ reviewed = {}
    <3>1. <<>> \in Seq(Rule)
      OBVIOUS
    <3>2. QED
      BY <2>1, <3>1 DEF RowOK
  <2>2. ASSUME NEW c \in Consumer, NEW s \in SubscriptionId, NEW json \in Legacy,
               consumers = [d \in Consumer |-> IF d = c THEN "reviewed" ELSE NoConsumer],
               subscriptions = [t \in SubscriptionId |->
                 IF t = s THEN [consumer |-> c, version |-> 1, rules |-> json]
                 ELSE NoSubscription],
               accepted = [t \in SubscriptionId |-> IF t # s THEN <<>> ELSE OldRules(json)],
               reviewed = {s}
        PROVE  /\ consumers \in [Consumer -> ConsumerRow \cup {NoConsumer}]
               /\ subscriptions \in [SubscriptionId -> SubscriptionRow \cup {NoSubscription}]
               /\ accepted \in [SubscriptionId -> Seq(Rule)] /\ reviewed \subseteq SubscriptionId
               /\ \A t \in SubscriptionId : RowOK(t)
    <3>1. /\ json \in Seq(StoredRule) /\ RulesFromJson(json) = OldRules(json)
          /\ OldRules(json) \in Seq(Rule) /\ OldRules(json) # <<>>
      BY OldRulesReadBack
    <3>2. [consumer |-> c, version |-> 1, rules |-> json] \in SubscriptionRow
      BY <3>1, SubscriberAssumption DEF SubscriptionRow
    <3>3. subscriptions \in [SubscriptionId -> SubscriptionRow \cup {NoSubscription}]
      BY <2>2, <3>2
    <3>4. <<>> \in Seq(Rule)
      OBVIOUS
    <3>5. accepted \in [SubscriptionId -> Seq(Rule)]
      BY <2>2, <3>1, <3>4
    <3>6. RowOK(s)
      BY <2>2, <3>1 DEF RowOK
    <3>7. \A t \in SubscriptionId \ {s} : subscriptions[t] = NoSubscription
      BY <2>2
    <3>8. \A t \in SubscriptionId : RowOK(t)
      BY <3>6, <3>7 DEF RowOK
    <3>9. QED
      BY <2>2, <3>3, <3>5, <3>8 DEF ConsumerRow
  <2>3. QED
    BY <2>1, <2>2 DEF SubscriberInit, OldRules
<1>3. SubscriberTypeOK
  BY <1>1, <1>2 DEF SubscriberTypeOK
<1>4. IdsApart
  BY <1>1 DEF IdsApart, Unstored
<1>5. TokenOpens
  BY <1>1 DEF TokenOpens
<1>6. QED
  BY <1>1, <1>2, <1>3, <1>4, <1>5 DEF SubscriberInv
-----------------------------------------------------------------------------
(* The steps. *)

\* Requests that only begin or end.
LEMMA BeginOrEnd ==
  ASSUME SubscriberInv, NEW q \in Request,
         \/ /\ errands[q] # NoRequest /\ Finish(q) /\ UNCHANGED cancelled
         \/ \E j \in Errand :
              /\ Begin(q, j)
              /\ cancelled' = IF j.op = "cancel" THEN cancelled \cup {j.id} ELSE cancelled
              /\ j.op # "cancel" => j.rules # <<>>
              /\ j.op \in {"create", "update"} => CitizenWrote(j.rules)
              /\ j.op = "create" => j.stage = "begun" /\ Fresh(j.consumer, j.id)
              /\ j.op = "update" => j.stage = "loaded",
         UNCHANGED tables, UNCHANGED <<accepted, reviewed, told, offered>>
  PROVE  SubscriberInv'
<1>1. /\ consumers' = consumers /\ preferences' = preferences
      /\ subscriptions' = subscriptions /\ accepted' = accepted /\ reviewed' = reviewed
      /\ told' = told /\ offered' = offered /\ cancelled \subseteq cancelled'
  BY DEF tables
<1>2. errands' \in [Request -> Errand \cup {NoRequest}]
  BY ErrandsTyped DEF SubscriberInv
<1>3. cancelled' \subseteq SubscriptionId
  <2>1. \A j \in Errand : j.id \in SubscriptionId
    BY DEF Errand
  <2>2. QED
    BY <2>1 DEF SubscriberInv, SubscriberTypeOK
<1>4. SubscriberTypeOK'
  BY <1>1, <1>2, <1>3 DEF SubscriberInv, SubscriberTypeOK
<1>5. NothingTaken
  BY <1>1 DEF NothingTaken
<1>6. ASSUME NEW s \in SubscriptionId PROVE RowOK(s)'
  BY <1>1 DEF SubscriberInv, RowOK
<1>7. ASSUME NEW r \in Request PROVE GoesOn(r)
  <2>1. CASE r # q
    <3>1. errands'[r] = errands[r]
      BY <2>1 DEF Finish, Begin, SubscriberInv, SubscriberTypeOK
    <3>2. Unstored(errands[r]) => accepted[errands[r].id] = <<>>
      BY DEF SubscriberInv, Unstored, ErrandBacked, CreationOK
    <3>3. QED
      BY <1>1, <3>1, <3>2 DEF GoesOn
  <2>2. CASE r = q /\ Finish(q)
    BY <2>2 DEF GoesOn, Finish, SubscriberInv, SubscriberTypeOK
  <2>3. ASSUME NEW j \in Errand, Begin(q, j), r = q,
               cancelled' = IF j.op = "cancel" THEN cancelled \cup {j.id} ELSE cancelled,
               j.op # "cancel" => j.rules # <<>>,
               j.op \in {"create", "update"} => CitizenWrote(j.rules),
               j.op = "create" => j.stage = "begun" /\ Fresh(j.consumer, j.id),
               j.op = "update" => j.stage = "loaded"
        PROVE  GoesOn(r)
    <3>1. errands'[r] = j
      BY <2>3 DEF Begin, SubscriberInv, SubscriberTypeOK
    <3>2. j.op = "create" => CreationOK(j)'
      BY <1>1, <2>3 DEF CreationOK, Fresh
    <3>3. ErrandBacked(j)'
      BY <2>3, <3>2 DEF ErrandBacked
    <3>4. ErrandBacked(errands[r])'
      BY <3>1, <3>3 DEF ErrandBacked, CreationOK, Opens, MayOpen
    <3>5. QED
      BY <3>4 DEF GoesOn
  <2>4. QED
    BY <2>1, <2>2, <2>3
<1>8. IdsApart'
  <2>1. CASE Finish(q)
    <3>1. \A r \in Request : errands'[r] = errands[r] \/ errands'[r] = NoRequest
      BY <2>1 DEF Finish, SubscriberInv, SubscriberTypeOK
    <3>2. QED
      BY <3>1, IdsStay DEF SubscriberInv, Unstored
  <2>2. ASSUME NEW j \in Errand, Begin(q, j),
               j.op = "create" => j.stage = "begun" /\ Fresh(j.consumer, j.id)
        PROVE  IdsApart'
    <3>1. errands'[q] = j /\ \A r \in Request \ {q} : errands'[r] = errands[r]
      BY <2>2 DEF Begin, SubscriberInv, SubscriberTypeOK
    <3>2. j.op = "create" => \A r \in Request \ {q} :
            errands[r] # NoRequest => errands[r].id # j.id
      BY <2>2 DEF Fresh, IdDrawn
    <3>3. ASSUME NEW r \in Request, NEW t \in Request, Unstored(errands'[r]),
                 Unstored(errands'[t]), errands'[r].id = errands'[t].id
          PROVE  r = t
      BY <3>1, <3>2, <3>3 DEF SubscriberInv, IdsApart, Unstored
    <3>4. QED
      BY <3>3 DEF IdsApart, Unstored
  <2>3. QED
    BY <2>1, <2>2
<1>9. QED
  BY <1>1, <1>4, <1>5, <1>6, <1>7, <1>8, InvKept

LEMMA BeginCitizenKeeps ==
  ASSUME SubscriberInv, NEW q \in Request, NEW c \in Consumer, NEW s \in SubscriptionId,
         NEW ask \in Asked, NEW e \in Endpoint, BeginCitizen(q, c, s, ask, e)
  PROVE  SubscriberInv'
<1> DEFINE j == [op |-> "create", stage |-> "begun", consumer |-> c, id |-> s,
                 rules |-> CitizenRules(ask), endpoint |-> e]
<1>1. ask \in CitizenAsk
  BY SubscriberAssumption
<1>2. CitizenRules(ask) \in Seq(Rule) /\ CitizenRules(ask) # <<>>
  BY <1>1, CitizenRulesAre
<1>3. j \in Creation
  BY <1>2 DEF Creation
<1>4. j \in Errand
  BY <1>3, ErrandKinds
<1>5. CitizenWrote(j.rules) /\ j.rules # <<>>
  BY <1>1, <1>2 DEF CitizenWrote
<1>6. Begin(q, j) /\ Fresh(j.consumer, j.id) /\ j.stage = "begun" /\ j.op = "create"
  BY DEF BeginCitizen
<1>7. UNCHANGED tables /\ UNCHANGED <<accepted, reviewed, told, offered>> /\ cancelled' = cancelled
  BY DEF BeginCitizen, histories
<1> HIDE DEF j
<1>8. QED
  BY <1>4, <1>5, <1>6, <1>7, BeginOrEnd

LEMMA LoadOwnKeeps ==
  ASSUME SubscriberInv, NEW q \in Request, NEW c \in Consumer, NEW s \in SubscriptionId,
         NEW ask \in Asked, NEW e \in Endpoint \cup {NoEndpoint}, LoadOwn(q, c, s, ask, e)
  PROVE  SubscriberInv'
<1> DEFINE j == [op |-> "update", stage |-> "loaded", consumer |-> c, id |-> s,
                 rules |-> CitizenRules(ask), endpoint |-> e,
                 version |-> subscriptions[s].version]
<1>1. ask \in CitizenAsk
  BY SubscriberAssumption
<1>2. CitizenRules(ask) \in Seq(Rule) /\ CitizenRules(ask) # <<>>
  BY <1>1, CitizenRulesAre
<1>3. subscriptions[s].version \in 1 .. MaxVersion
  BY RowPresent DEF LoadOwn, MayOpen, SubscriberInv
<1>4. j \in OwnUpdate
  BY <1>2, <1>3 DEF OwnUpdate
<1>5. j \in Errand
  BY <1>4, ErrandKinds
<1>6. CitizenWrote(j.rules) /\ j.rules # <<>>
  BY <1>1, <1>2 DEF CitizenWrote
<1>7. Begin(q, j) /\ j.stage = "loaded" /\ j.op = "update"
  BY DEF LoadOwn
<1>8. UNCHANGED tables /\ UNCHANGED <<accepted, reviewed, told, offered>> /\ cancelled' = cancelled
  BY DEF LoadOwn, histories
<1> HIDE DEF j
<1>9. QED
  BY <1>5, <1>6, <1>7, <1>8, BeginOrEnd

LEMMA LoadToCancelOwnKeeps ==
  ASSUME SubscriberInv, NEW q \in Request, NEW c \in Consumer, NEW s \in SubscriptionId,
         LoadToCancelOwn(q, c, s)
  PROVE  SubscriberInv'
<1> DEFINE j == [op |-> "cancel", stage |-> "loaded", consumer |-> c, id |-> s]
<1>1. j \in Errand
  BY ErrandKinds DEF Cancellation
<1>2. Begin(q, j) /\ j.op = "cancel" /\ cancelled' = cancelled \cup {j.id}
  BY DEF LoadToCancelOwn
<1>3. UNCHANGED tables /\ UNCHANGED <<accepted, reviewed, told, offered>>
  BY DEF LoadToCancelOwn
<1> HIDE DEF j
<1>4. QED
  BY <1>1, <1>2, <1>3, BeginOrEnd

LEMMA LoadToReviewKeeps ==
  ASSUME SubscriberInv, NEW q \in Request, NEW s \in SubscriptionId,
         NEW inputs \in ReviewerRules, LoadToReview(q, s, inputs)
  PROVE  SubscriberInv'
<1> DEFINE j == [op |-> "review", stage |-> "loaded", consumer |-> subscriptions[s].consumer,
                 id |-> s, rules |-> inputs, version |-> subscriptions[s].version]
<1>1. inputs \in Seq(Rule) /\ inputs # <<>>
  BY AcceptedAreRules DEF LoadToReview
<1>2. subscriptions[s].consumer \in Consumer /\ subscriptions[s].version \in 1 .. MaxVersion
  BY RowPresent DEF LoadToReview, SubscriberInv
<1>3. j \in Review
  BY <1>1, <1>2 DEF Review
<1>4. j \in Errand
  BY <1>3, ErrandKinds
<1>5. Begin(q, j) /\ j.op = "review" /\ j.rules # <<>>
  BY <1>1 DEF LoadToReview
<1>6. UNCHANGED tables /\ UNCHANGED <<accepted, reviewed, told, offered>> /\ cancelled' = cancelled
  BY DEF LoadToReview, histories
<1> HIDE DEF j
<1>7. QED
  BY <1>4, <1>5, <1>6, BeginOrEnd

LEMMA ErrandFailsKeeps ==
  ASSUME SubscriberInv, NEW q \in Request, ErrandFails(q)
  PROVE  SubscriberInv'
BY BeginOrEnd DEF ErrandFails, histories
\* A request that goes on keeps what it wants; the others stay.
LEMMA ProceedsTo ==
  ASSUME SubscriberInv, NEW q \in Request, NEW op, NEW old, NEW stage, Doing(q, op, old),
         Proceeds(q, stage)
  PROVE  /\ \A r \in Request \ {q} : errands'[r] = errands[r]
         /\ errands[q] # NoRequest /\ errands[q].op = op /\ errands[q].stage = old
         /\ ErrandBacked(errands[q])
         /\ errands'[q] = [errands[q] EXCEPT !.stage = stage]
BY DEF Doing, Proceeds, SubscriberInv, SubscriberTypeOK

\* The steps of a creation before its answer.
LEMMA CreationProceeds ==
  ASSUME SubscriberInv, NEW q \in Request, NEW old \in {"begun", "consumer", "preference"},
         NEW stage \in {"consumer", "preference", "subscription"},
         Doing(q, "create", old), Proceeds(q, stage)
  PROVE  /\ errands' \in [Request -> Errand \cup {NoRequest}]
         /\ errands[q] \in Creation /\ CreationOK(errands[q])
         /\ errands[q].rules # <<>> /\ CitizenWrote(errands[q].rules)
         /\ CreationOK(errands[q])' => GoesOn(q)
         /\ IdsApart'
         /\ \A r \in Request \ {q} :
              /\ errands'[r] = errands[r]
              /\ Unstored(errands[r]) =>
                   accepted[errands[r].id] = <<>> /\ errands[r].id # errands[q].id
         /\ LET j == errands'[q] IN
            /\ j.op = "create" /\ j.stage = stage /\ j.consumer = errands[q].consumer
            /\ j.id = errands[q].id /\ j.rules = errands[q].rules
<1> DEFINE j == errands'[q]
<1>1. errands' \in [Request -> Errand \cup {NoRequest}]
  BY ErrandsTyped DEF SubscriberInv
<1>2. /\ errands[q] \in Creation /\ errands[q] # NoRequest
      /\ errands[q].op = "create" /\ errands[q].stage = old
  BY ErrandOf DEF Doing, SubscriberInv
<1>3. /\ j = [errands[q] EXCEPT !.stage = stage] /\ ErrandBacked(errands[q])
      /\ \A r \in Request \ {q} : errands'[r] = errands[r]
  BY ProceedsTo
<1>4. CreationOK(errands[q]) /\ errands[q].rules # <<>> /\ CitizenWrote(errands[q].rules)
  BY <1>2, <1>3 DEF ErrandBacked
<1>5. /\ j.op = "create" /\ j.stage = stage /\ j.consumer = errands[q].consumer
      /\ j.id = errands[q].id /\ j.rules = errands[q].rules
  BY <1>2, <1>3 DEF Creation
<1>6. CreationOK(errands[q])' => GoesOn(q)
  BY <1>4, <1>5 DEF GoesOn, ErrandBacked, CitizenWrote
<1>7. Unstored(errands[q])
  BY <1>2 DEF Unstored
<1>8. IdsApart'
  BY <1>3, <1>5, <1>7, IdsStay DEF SubscriberInv
<1>9. ASSUME NEW r \in Request \ {q}, Unstored(errands[r])
      PROVE  accepted[errands[r].id] = <<>> /\ errands[r].id # errands[q].id
  BY <1>7, <1>9 DEF SubscriberInv, Unstored, ErrandBacked, CreationOK, IdsApart
<1>10. QED
  BY <1>1, <1>2, <1>3, <1>4, <1>5, <1>6, <1>8, <1>9

LEMMA CreateConsumerWithTokenKeeps ==
  ASSUME SubscriberInv, NEW q \in Request, CreateConsumerWithToken(q)
  PROVE  SubscriberInv'
<1> DEFINE c == errands[q].consumer
<1>1. /\ Doing(q, "create", "begun") /\ Proceeds(q, "consumer")
      /\ consumers' = [consumers EXCEPT ![c] = "citizen"]
      /\ preferences' = preferences /\ subscriptions' = subscriptions
      /\ accepted' = accepted /\ reviewed' = reviewed /\ told' = told
      /\ cancelled' = cancelled /\ offered' = offered
  BY DEF CreateConsumerWithToken, histories
<1>2. /\ errands' \in [Request -> Errand \cup {NoRequest}]
      /\ errands[q] \in Creation /\ CreationOK(errands[q])
      /\ CreationOK(errands[q])' => GoesOn(q)
      /\ IdsApart'
      /\ \A r \in Request \ {q} :
           /\ errands'[r] = errands[r]
           /\ Unstored(errands[r]) => accepted[errands[r].id] = <<>>
      /\ errands'[q].op = "create" /\ errands'[q].stage = "consumer"
      /\ errands'[q].consumer = c /\ errands'[q].id = errands[q].id
  BY <1>1, CreationProceeds
<1>3. c \in Consumer /\ "citizen" \in ConsumerRow
  BY <1>2 DEF Creation, ConsumerRow
<1>4. SubscriberTypeOK'
  BY <1>1, <1>2, <1>3 DEF SubscriberInv, SubscriberTypeOK
<1>5. NothingTaken /\ consumers'[c] = "citizen"
  BY <1>1, <1>3 DEF NothingTaken, SubscriberInv, SubscriberTypeOK
<1>6. \A s \in SubscriptionId : RowOK(s)'
  BY <1>1 DEF SubscriberInv, RowOK
<1>7. accepted[errands[q].id] = <<>>
  BY <1>1, <1>2 DEF CreationOK, Doing
<1>8. CreationOK(errands[q])'
  BY <1>1, <1>2, <1>5, <1>7 DEF CreationOK
<1>9. \A r \in Request : GoesOn(r)
  BY <1>1, <1>2, <1>8 DEF GoesOn
<1> HIDE DEF c
<1>10. QED
  BY <1>1, <1>2, <1>4, <1>5, <1>6, <1>9, InvKept

LEMMA CreatePreferenceKeeps ==
  ASSUME SubscriberInv, NEW q \in Request, CreatePreference(q)
  PROVE  SubscriberInv'
<1> DEFINE c == errands[q].consumer
           e == errands[q].endpoint
<1>1. /\ Doing(q, "create", "consumer") /\ Proceeds(q, "preference")
      /\ preferences' = [preferences EXCEPT ![c] = e]
      /\ offered' = [offered EXCEPT ![c] = @ \cup {e}]
      /\ consumers' = consumers /\ subscriptions' = subscriptions
      /\ accepted' = accepted /\ reviewed' = reviewed /\ told' = told
      /\ cancelled' = cancelled
  BY DEF CreatePreference
<1>2. /\ errands' \in [Request -> Errand \cup {NoRequest}]
      /\ errands[q] \in Creation /\ CreationOK(errands[q])
      /\ CreationOK(errands[q])' => GoesOn(q)
      /\ IdsApart'
      /\ \A r \in Request \ {q} :
           /\ errands'[r] = errands[r]
           /\ Unstored(errands[r]) => accepted[errands[r].id] = <<>>
      /\ errands'[q].op = "create" /\ errands'[q].stage = "preference"
      /\ errands'[q].consumer = c /\ errands'[q].id = errands[q].id
  BY <1>1, CreationProceeds
<1>3. c \in Consumer /\ e \in Endpoint /\ e # NoEndpoint
  BY <1>2, AbsenceAssumption DEF Creation
<1>4. SubscriberTypeOK'
  BY <1>1, <1>2, <1>3 DEF SubscriberInv, SubscriberTypeOK
<1>5. NothingTaken /\ preferences'[c] = e /\ e \in offered'[c]
  BY <1>1, <1>3 DEF NothingTaken, SubscriberInv, SubscriberTypeOK
<1>6. \A s \in SubscriptionId : RowOK(s)'
  BY <1>1 DEF SubscriberInv, RowOK
<1>7. accepted[errands[q].id] = <<>> /\ consumers[c] = "citizen"
  BY <1>1, <1>2 DEF CreationOK, Doing
<1>8. CreationOK(errands[q])'
  BY <1>1, <1>2, <1>3, <1>5, <1>7 DEF CreationOK
<1>9. \A r \in Request : GoesOn(r)
  BY <1>1, <1>2, <1>8 DEF GoesOn
<1>10. \A d \in Consumer : preferences'[d] = preferences[d] \/ preferences'[d] \in offered'[d]
  BY <1>1, <1>3, <1>5 DEF SubscriberInv, SubscriberTypeOK
<1> HIDE DEF c, e
<1>11. QED
  BY <1>1, <1>2, <1>4, <1>5, <1>6, <1>9, <1>10, InvKept

LEMMA InsertSubscriptionKeeps ==
  ASSUME SubscriberInv, NEW q \in Request, InsertSubscription(q)
  PROVE  SubscriberInv'
<1>0. SUFFICES ASSUME NEW c, NEW id, NEW rules, c = errands[q].consumer,
                      id = errands[q].id, rules = errands[q].rules
               PROVE  SubscriberInv'
  OBVIOUS
<1> DEFINE row == Stored(c, 1, rules)
<1>1. /\ Doing(q, "create", "preference") /\ Proceeds(q, "subscription")
      /\ subscriptions' = [subscriptions EXCEPT ![id] = row]
      /\ accepted' = [accepted EXCEPT ![id] = rules]
      /\ consumers' = consumers /\ preferences' = preferences /\ offered' = offered
      /\ reviewed' = reviewed /\ told' = told /\ cancelled' = cancelled
  BY <1>0 DEF InsertSubscription
<1>2. /\ errands' \in [Request -> Errand \cup {NoRequest}]
      /\ errands[q] \in Creation /\ CreationOK(errands[q])
      /\ rules # <<>> /\ CitizenWrote(rules)
      /\ CreationOK(errands[q])' => GoesOn(q)
      /\ IdsApart'
      /\ \A r \in Request \ {q} :
           /\ errands'[r] = errands[r]
           /\ Unstored(errands[r]) => accepted[errands[r].id] = <<>> /\ errands[r].id # id
      /\ errands'[q].op = "create" /\ errands'[q].stage = "subscription"
      /\ errands'[q].consumer = c /\ errands'[q].id = id
  BY <1>0, <1>1, CreationProceeds
<1>3. c \in Consumer /\ id \in SubscriptionId /\ rules \in Seq(Rule) /\ 1 \in 1 .. MaxVersion
  BY <1>0, <1>2, SubscriberAssumption DEF Creation
<1>4. /\ row \in SubscriptionRow /\ row # NoSubscription /\ row.consumer = c
      /\ RulesFromJson(row.rules) = rules
  BY <1>3, StoredIsRow
<1>5. /\ accepted[id] = <<>> /\ consumers[c] = "citizen" /\ preferences[c] # NoEndpoint
      /\ errands[q] # NoRequest
  BY <1>0, <1>1, <1>2 DEF CreationOK, Doing
<1>6. subscriptions[id] = NoSubscription
  BY <1>3, <1>5 DEF SubscriberInv, RowOK
<1> HIDE DEF row
<1>7. SubscriberTypeOK'
  BY <1>1, <1>2, <1>3, <1>4 DEF SubscriberInv, SubscriberTypeOK
<1>8. /\ subscriptions'[id] = row /\ accepted'[id] = rules
      /\ \A s \in SubscriptionId \ {id} :
           subscriptions'[s] = subscriptions[s] /\ accepted'[s] = accepted[s]
  BY <1>1, <1>3 DEF SubscriberInv, SubscriberTypeOK
<1>9. NothingTaken
  BY <1>1, <1>6, <1>8 DEF NothingTaken
<1>10. RowOK(id)'
  BY <1>2, <1>4, <1>8 DEF RowOK, CitizenWrote
<1>11. \A s \in SubscriptionId : RowOK(s)'
  BY <1>1, <1>8, <1>10, RowStays DEF SubscriberInv
<1>12. Opens(c, id)'
  BY <1>1, <1>4, <1>5, <1>8 DEF Opens, MayOpen
<1>13. CreationOK(errands[q])'
  BY <1>1, <1>2, <1>5, <1>12 DEF CreationOK, Opens, MayOpen
<1>14. ASSUME NEW r \in Request \ {q}, Unstored(errands[r])
       PROVE  accepted'[errands[r].id] = <<>>
  <2>1. errands[r].id \in SubscriptionId
    BY <1>14, ErrandOf DEF SubscriberInv, Unstored
  <2>2. QED
    BY <1>2, <1>8, <1>14, <2>1
<1>15. \A r \in Request : GoesOn(r)
  BY <1>2, <1>13, <1>14 DEF GoesOn
<1>16. QED
  BY <1>1, <1>2, <1>7, <1>9, <1>11, <1>15, InvKept
\* A request that ends, and leaves the others where they are.
LEMMA FinishOnly ==
  ASSUME SubscriberInv, NEW q \in Request, Finish(q)
  PROVE  /\ errands' \in [Request -> Errand \cup {NoRequest}]
         /\ errands'[q] = NoRequest
         /\ \A r \in Request \ {q} : errands'[r] = errands[r]
         /\ IdsApart'
<1>1. errands' \in [Request -> Errand \cup {NoRequest}]
  BY ErrandsTyped DEF SubscriberInv
<1>2. errands'[q] = NoRequest /\ \A r \in Request \ {q} : errands'[r] = errands[r]
  BY DEF Finish, SubscriberInv, SubscriberTypeOK
<1>3. IdsApart'
  BY <1>2, IdsStay DEF SubscriberInv, Unstored
<1>4. QED
  BY <1>1, <1>2, <1>3

\* A creation that is not stored has an id that nothing was accepted for.
LEMMA UnstoredIsNew ==
  ASSUME SubscriberInv, NEW r \in Request, Unstored(errands[r])
  PROVE  /\ errands[r].id \in SubscriptionId
         /\ accepted[errands[r].id] = <<>>
         /\ subscriptions[errands[r].id] = NoSubscription
<1>1. errands[r].id \in SubscriptionId /\ accepted[errands[r].id] = <<>>
  BY ErrandOf DEF SubscriberInv, Unstored, ErrandBacked, CreationOK
<1>2. QED
  BY <1>1 DEF SubscriberInv, RowOK

LEMMA AnswerCitizenKeeps ==
  ASSUME SubscriberInv, NEW q \in Request, AnswerCitizen(q)
  PROVE  SubscriberInv'
<1>0. SUFFICES ASSUME NEW c, NEW id, c = errands[q].consumer, id = errands[q].id
               PROVE  SubscriberInv'
  OBVIOUS
<1>1. /\ Doing(q, "create", "subscription") /\ Finish(q)
      /\ told' = told \cup {<<c, id>>}
      /\ consumers' = consumers /\ preferences' = preferences
      /\ subscriptions' = subscriptions /\ accepted' = accepted /\ reviewed' = reviewed
      /\ cancelled' = cancelled /\ offered' = offered
  BY <1>0 DEF AnswerCitizen, tables
<1>2. /\ errands' \in [Request -> Errand \cup {NoRequest}] /\ IdsApart'
      /\ errands'[q] = NoRequest /\ \A r \in Request \ {q} : errands'[r] = errands[r]
  BY <1>1, FinishOnly
<1>3. c \in Consumer /\ id \in SubscriptionId
  BY <1>0, <1>1, ErrandOf DEF SubscriberInv, Doing
<1>4. consumers[c] = "citizen" /\ preferences[c] # NoEndpoint /\ Opens(c, id)
  BY <1>0, <1>1 DEF SubscriberInv, Doing, ErrandBacked, CreationOK
<1>5. SubscriberTypeOK'
  BY <1>1, <1>2, <1>3 DEF SubscriberInv, SubscriberTypeOK
<1>6. NothingTaken
  BY <1>1 DEF NothingTaken
<1>7. \A s \in SubscriptionId : RowOK(s)'
  BY <1>1 DEF SubscriberInv, RowOK
<1>8. \A r \in Request : GoesOn(r)
  BY <1>1, <1>2, UnstoredIsNew DEF GoesOn
<1>9. QED
  BY <1>1, <1>2, <1>3, <1>4, <1>5, <1>6, <1>7, <1>8, InvKept

\* An update that finds its version: what becomes of the rows.
LEMMA UpdateKeepsRows ==
  ASSUME SubscriberInv, NEW j, j.id \in SubscriptionId, j.version \in 1 .. MaxVersion,
         j.rules \in Seq(Rule), j.rules # <<>>, IsUnchanged(j), ReplaceRules(j),
         reviewed \subseteq reviewed', CitizenWrote(j.rules) \/ j.id \in reviewed'
  PROVE  /\ subscriptions' \in [SubscriptionId -> SubscriptionRow \cup {NoSubscription}]
         /\ accepted' \in [SubscriptionId -> Seq(Rule)]
         /\ \A s \in SubscriptionId : RowOK(s)'
         /\ \A s \in SubscriptionId : subscriptions[s] = NoSubscription
              \/ /\ subscriptions'[s] # NoSubscription
                 /\ subscriptions'[s].consumer = subscriptions[s].consumer
         /\ \A r \in Request : Unstored(errands[r]) => accepted'[errands[r].id] = <<>>
<1>1. /\ subscriptions' \in [SubscriptionId -> SubscriptionRow \cup {NoSubscription}]
      /\ accepted' \in [SubscriptionId -> Seq(Rule)]
      /\ subscriptions'[j.id] # NoSubscription
      /\ subscriptions'[j.id].consumer = subscriptions[j.id].consumer
      /\ RulesFromJson(subscriptions'[j.id].rules) = j.rules /\ accepted'[j.id] = j.rules
      /\ \A s \in SubscriptionId \ {j.id} :
           subscriptions'[s] = subscriptions[s] /\ accepted'[s] = accepted[s]
  BY RowReplaced DEF SubscriberInv
<1>2. ASSUME NEW id, id = j.id PROVE RowOK(id)'
  BY <1>1, <1>2 DEF RowOK, CitizenWrote
<1>3. ASSUME NEW s \in SubscriptionId PROVE RowOK(s)'
  <2>1. CASE s = j.id
    BY <1>2, <2>1
  <2>2. CASE s # j.id
    BY <1>1, <2>2, RowStays DEF SubscriberInv
  <2>3. QED
    BY <2>1, <2>2
<1>4. ASSUME NEW r \in Request, Unstored(errands[r]) PROVE accepted'[errands[r].id] = <<>>
  BY <1>1, <1>4, UnstoredIsNew DEF IsUnchanged
<1>5. QED
  BY <1>1, <1>3, <1>4

LEMMA StoreReviewKeeps ==
  ASSUME SubscriberInv, NEW q \in Request, StoreReview(q)
  PROVE  SubscriberInv'
<1>0. SUFFICES ASSUME NEW j, j = errands[q] PROVE SubscriberInv'
  OBVIOUS
<1>1. /\ Doing(q, "review", "loaded") /\ Finish(q)
      /\ consumers' = consumers /\ preferences' = preferences
      /\ told' = told /\ cancelled' = cancelled /\ offered' = offered
  BY DEF StoreReview
<1>2. /\ errands' \in [Request -> Errand \cup {NoRequest}] /\ IdsApart'
      /\ errands'[q] = NoRequest /\ \A r \in Request \ {q} : errands'[r] = errands[r]
  BY <1>1, FinishOnly
<1>3. /\ j.id \in SubscriptionId /\ j.version \in 1 .. MaxVersion /\ j.rules \in Seq(Rule)
      /\ j.rules # <<>>
  <2>1. j \in Review /\ ErrandBacked(j) /\ j.op = "review"
    BY <1>0, <1>1, ErrandOf DEF SubscriberInv, Doing
  <2>2. QED
    BY <2>1 DEF Review, ErrandBacked
<1>4. /\ subscriptions' \in [SubscriptionId -> SubscriptionRow \cup {NoSubscription}]
      /\ accepted' \in [SubscriptionId -> Seq(Rule)]
      /\ reviewed' \subseteq SubscriptionId
      /\ \A s \in SubscriptionId : RowOK(s)'
      /\ \A s \in SubscriptionId : subscriptions[s] = NoSubscription
           \/ /\ subscriptions'[s] # NoSubscription
              /\ subscriptions'[s].consumer = subscriptions[s].consumer
      /\ \A r \in Request : Unstored(errands[r]) => accepted'[errands[r].id] = <<>>
  <2>1. CASE IsUnchanged(j) /\ ReplaceRules(j) /\ reviewed' = reviewed \cup {j.id}
    <3>1. reviewed' \subseteq SubscriptionId /\ reviewed \subseteq reviewed' /\ j.id \in reviewed'
      BY <1>3, <2>1 DEF SubscriberInv, SubscriberTypeOK
    <3>2. QED
      BY <1>3, <2>1, <3>1, UpdateKeepsRows
  <2>2. CASE UNCHANGED <<subscriptions, accepted, reviewed>>
    <3>1. \A s \in SubscriptionId : RowOK(s)'
      BY <2>2 DEF SubscriberInv, RowOK
    <3>2. QED
      BY <2>2, <3>1, UnstoredIsNew DEF SubscriberInv, SubscriberTypeOK
  <2>3. QED
    BY <1>0, <2>1, <2>2 DEF StoreReview
<1>5. SubscriberTypeOK'
  BY <1>1, <1>2, <1>4 DEF SubscriberInv, SubscriberTypeOK
<1>6. NothingTaken
  BY <1>1, <1>4 DEF NothingTaken
<1>7. \A r \in Request : GoesOn(r)
  BY <1>2, <1>4 DEF GoesOn
<1>8. QED
  BY <1>1, <1>2, <1>4, <1>5, <1>6, <1>7, InvKept
LEMMA StoreOwnKeeps ==
  ASSUME SubscriberInv, NEW q \in Request, StoreOwn(q)
  PROVE  SubscriberInv'
<1>0. SUFFICES ASSUME NEW j, j = errands[q] PROVE SubscriberInv'
  OBVIOUS
<1>1. /\ Doing(q, "update", "loaded")
      /\ consumers' = consumers /\ preferences' = preferences
      /\ reviewed' = reviewed /\ told' = told /\ cancelled' = cancelled
  BY DEF StoreOwn
<1>2. j \in OwnUpdate /\ j \in Errand /\ ErrandBacked(j) /\ j.op = "update" /\ j # NoRequest
  BY <1>0, <1>1, ErrandOf DEF SubscriberInv, Doing
<1>3. /\ j.id \in SubscriptionId /\ j.version \in 1 .. MaxVersion /\ j.rules \in Seq(Rule)
      /\ j.consumer \in Consumer /\ j.rules # <<>> /\ CitizenWrote(j.rules)
      /\ j.endpoint \in Endpoint \cup {NoEndpoint}
  BY <1>2 DEF OwnUpdate, ErrandBacked
<1>4. /\ \/ IsUnchanged(j) /\ ReplaceRules(j)
         \/ UNCHANGED <<subscriptions, accepted>>
      /\ \/ Finish(q) /\ offered' = offered
         \/ /\ j.endpoint # NoEndpoint /\ Proceeds(q, "updated")
            /\ offered' = [offered EXCEPT ![j.consumer] = @ \cup {j.endpoint}]
  BY <1>0 DEF StoreOwn
<1>5. /\ subscriptions' \in [SubscriptionId -> SubscriptionRow \cup {NoSubscription}]
      /\ accepted' \in [SubscriptionId -> Seq(Rule)]
      /\ \A s \in SubscriptionId : RowOK(s)'
      /\ \A s \in SubscriptionId : subscriptions[s] = NoSubscription
           \/ /\ subscriptions'[s] # NoSubscription
              /\ subscriptions'[s].consumer = subscriptions[s].consumer
      /\ \A r \in Request : Unstored(errands[r]) => accepted'[errands[r].id] = <<>>
  <2>1. CASE IsUnchanged(j) /\ ReplaceRules(j)
    BY <1>1, <1>3, <2>1, UpdateKeepsRows
  <2>2. CASE UNCHANGED <<subscriptions, accepted>>
    <3>1. \A s \in SubscriptionId : RowOK(s)'
      BY <1>1, <2>2 DEF SubscriberInv, RowOK
    <3>2. QED
      BY <2>2, <3>1, UnstoredIsNew DEF SubscriberInv, SubscriberTypeOK
  <2>3. QED
    BY <1>4, <2>1, <2>2
<1>6. /\ offered' \in [Consumer -> SUBSET Endpoint]
      /\ \A c \in Consumer : offered[c] \subseteq offered'[c]
  <2>1. offered \in [Consumer -> SUBSET Endpoint]
    BY DEF SubscriberInv, SubscriberTypeOK
  <2>2. CASE offered' = offered
    BY <2>1, <2>2
  <2>3. CASE /\ j.endpoint # NoEndpoint
             /\ offered' = [offered EXCEPT ![j.consumer] = @ \cup {j.endpoint}]
    <3>1. j.endpoint \in Endpoint
      BY <1>3, <2>3
    <3>2. QED
      BY <1>3, <2>1, <2>3, <3>1
  <2>4. QED
    BY <1>4, <2>2, <2>3
<1>7. NothingTaken
  BY <1>1, <1>5, <1>6 DEF NothingTaken
<1>8. /\ errands' \in [Request -> Errand \cup {NoRequest}] /\ IdsApart'
      /\ \A r \in Request : GoesOn(r)
  <2>1. CASE Finish(q)
    BY <1>5, <2>1, FinishOnly DEF GoesOn
  <2>2. CASE /\ j.endpoint # NoEndpoint /\ Proceeds(q, "updated")
             /\ offered' = [offered EXCEPT ![j.consumer] = @ \cup {j.endpoint}]
    <3> DEFINE k == [j EXCEPT !.stage = "updated"]
    <3>1. errands' \in [Request -> Errand \cup {NoRequest}]
      BY <1>1, <2>2, ErrandsTyped DEF SubscriberInv
    <3>2. errands'[q] = k /\ \A r \in Request \ {q} : errands'[r] = errands[r]
      BY <1>0, <1>1, <2>2, ProceedsTo
    <3>3. /\ k.op = "update" /\ k.rules = j.rules /\ k.endpoint = j.endpoint
          /\ k.consumer = j.consumer
      BY <1>2 DEF OwnUpdate
    <3>4. k.endpoint \in offered'[k.consumer]
      BY <1>3, <2>2, <3>3 DEF SubscriberInv, SubscriberTypeOK
    <3> HIDE DEF k
    <3>5. ErrandBacked(errands[q])'
      BY <1>3, <3>2, <3>3, <3>4 DEF ErrandBacked, CitizenWrote
    <3>6. \A r \in Request : GoesOn(r)
      BY <1>5, <3>2, <3>5 DEF GoesOn
    <3>7. IdsApart'
      BY <3>2, <3>3, IdsStay DEF SubscriberInv, Unstored
    <3>8. QED
      BY <3>1, <3>6, <3>7
  <2>3. QED
    BY <1>4, <2>1, <2>2
<1>9. SubscriberTypeOK'
  BY <1>1, <1>5, <1>6, <1>8 DEF SubscriberInv, SubscriberTypeOK
<1>10. QED
  BY <1>1, <1>5, <1>7, <1>8, <1>9, InvKept

LEMMA ReplaceEndpointKeeps ==
  ASSUME SubscriberInv, NEW q \in Request, ReplaceEndpoint(q)
  PROVE  SubscriberInv'
<1>0. SUFFICES ASSUME NEW c, NEW e, c = errands[q].consumer, e = errands[q].endpoint
               PROVE  SubscriberInv'
  OBVIOUS
<1>1. /\ Doing(q, "update", "updated") /\ Finish(q)
      /\ preferences' = [preferences EXCEPT ![c] = e]
      /\ consumers' = consumers /\ subscriptions' = subscriptions
      /\ accepted' = accepted /\ reviewed' = reviewed /\ told' = told
      /\ cancelled' = cancelled /\ offered' = offered
  BY <1>0 DEF ReplaceEndpoint, histories
<1>2. /\ errands' \in [Request -> Errand \cup {NoRequest}] /\ IdsApart'
      /\ errands'[q] = NoRequest /\ \A r \in Request \ {q} : errands'[r] = errands[r]
  BY <1>1, FinishOnly
<1>3. c \in Consumer /\ e \in offered[c]
  BY <1>0, <1>1, ErrandOf DEF SubscriberInv, Doing, ErrandBacked
<1>4. e \in Endpoint /\ e # NoEndpoint
  BY <1>3, AbsenceAssumption DEF SubscriberInv, SubscriberTypeOK
<1>5. SubscriberTypeOK'
  BY <1>1, <1>2, <1>4 DEF SubscriberInv, SubscriberTypeOK
<1>6. NothingTaken /\ \A d \in Consumer : preferences'[d] = preferences[d]
                                          \/ preferences'[d] \in offered'[d]
  BY <1>1, <1>3, <1>4 DEF NothingTaken, SubscriberInv, SubscriberTypeOK
<1>7. \A s \in SubscriptionId : RowOK(s)'
  BY <1>1 DEF SubscriberInv, RowOK
<1>8. \A r \in Request : GoesOn(r)
  BY <1>1, <1>2, UnstoredIsNew DEF GoesOn
<1>9. QED
  BY <1>1, <1>2, <1>5, <1>6, <1>7, <1>8, InvKept

LEMMA DeleteOwnKeeps ==
  ASSUME SubscriberInv, NEW q \in Request, DeleteOwn(q)
  PROVE  SubscriberInv'
<1>0. SUFFICES ASSUME NEW id, id = errands[q].id PROVE SubscriberInv'
  OBVIOUS
<1>1. /\ Doing(q, "cancel", "loaded") /\ Finish(q)
      /\ subscriptions' = [subscriptions EXCEPT ![id] = NoSubscription]
      /\ consumers' = consumers /\ preferences' = preferences
      /\ accepted' = accepted /\ reviewed' = reviewed /\ told' = told
      /\ cancelled' = cancelled /\ offered' = offered
  BY <1>0 DEF DeleteOwn, histories
<1>2. /\ errands' \in [Request -> Errand \cup {NoRequest}] /\ IdsApart'
      /\ errands'[q] = NoRequest /\ \A r \in Request \ {q} : errands'[r] = errands[r]
  BY <1>1, FinishOnly
<1>3. id \in SubscriptionId /\ id \in cancelled
  BY <1>0, <1>1, ErrandOf DEF SubscriberInv, Doing, ErrandBacked
<1>4. SubscriberTypeOK'
  BY <1>1, <1>2 DEF SubscriberInv, SubscriberTypeOK
<1>5. \A s \in SubscriptionId :
        subscriptions'[s] = IF s = id THEN NoSubscription ELSE subscriptions[s]
  BY <1>1, <1>3 DEF SubscriberInv, SubscriberTypeOK
<1>6. NothingTaken
  BY <1>1, <1>3, <1>5 DEF NothingTaken
<1>7. \A s \in SubscriptionId : RowOK(s)'
  BY <1>1, <1>5, RowStays DEF SubscriberInv
<1>8. \A r \in Request : GoesOn(r)
  BY <1>1, <1>2, UnstoredIsNew DEF GoesOn
<1>9. QED
  BY <1>1, <1>2, <1>4, <1>6, <1>7, <1>8, InvKept

\* The requests of reviewers that are one statement.
LEMMA StatementKeeps ==
  ASSUME SubscriberInv, SubscriberTypeOK', NothingTaken, UNCHANGED errands,
         told' = told, \A s \in SubscriptionId : RowOK(s)',
         \A r \in Request : Unstored(errands[r]) => accepted'[errands[r].id] = <<>>,
         \A c \in Consumer : preferences'[c] = preferences[c]
                             \/ preferences'[c] \in offered'[c]
  PROVE  SubscriberInv'
<1>1. IdsApart'
  BY IdsStay DEF SubscriberInv
<1>2. \A r \in Request : GoesOn(r)
  BY DEF GoesOn
<1>3. QED
  BY <1>1, <1>2, InvKept

LEMMA RegisterConsumerKeeps ==
  ASSUME SubscriberInv, NEW c \in Consumer, RegisterConsumer(c)
  PROVE  SubscriberInv'
<1>1. /\ consumers' = [consumers EXCEPT ![c] = "reviewed"] /\ consumers[c] = NoConsumer
      /\ preferences' = preferences /\ subscriptions' = subscriptions /\ errands' = errands
      /\ accepted' = accepted /\ reviewed' = reviewed /\ told' = told
      /\ cancelled' = cancelled /\ offered' = offered
  BY DEF RegisterConsumer, histories
<1>2. SubscriberTypeOK'
  BY <1>1 DEF SubscriberInv, SubscriberTypeOK, ConsumerRow
<1>3. NoConsumer # "citizen"
  BY AbsenceAssumption DEF ConsumerRow
<1>4. NothingTaken
  BY <1>1, <1>3 DEF NothingTaken, SubscriberInv, SubscriberTypeOK
<1>5. \A s \in SubscriptionId : RowOK(s)'
  BY <1>1 DEF SubscriberInv, RowOK
<1>6. QED
  BY <1>1, <1>2, <1>4, <1>5, StatementKeeps, UnstoredIsNew

LEMMA CreateForConsumerKeeps ==
  ASSUME SubscriberInv, NEW c \in Consumer, NEW s \in SubscriptionId,
         NEW inputs \in ReviewerRules, CreateForConsumer(c, s, inputs)
  PROVE  SubscriberInv'
<1> DEFINE row == Stored(c, 1, inputs)
<1>1. /\ subscriptions[s] = NoSubscription /\ ~IdDrawn(s)
      /\ subscriptions' = [subscriptions EXCEPT ![s] = row]
      /\ accepted' = [accepted EXCEPT ![s] = inputs] /\ reviewed' = reviewed \cup {s}
      /\ consumers' = consumers /\ preferences' = preferences /\ errands' = errands
      /\ told' = told /\ cancelled' = cancelled /\ offered' = offered
  BY DEF CreateForConsumer
<1>2. inputs \in Seq(Rule) /\ inputs # <<>> /\ 1 \in 1 .. MaxVersion
  BY AcceptedAreRules, SubscriberAssumption DEF CreateForConsumer
<1>3. /\ row \in SubscriptionRow /\ row # NoSubscription
      /\ RulesFromJson(row.rules) = inputs
  BY <1>2, StoredIsRow
<1> HIDE DEF row
<1>4. SubscriberTypeOK'
  BY <1>1, <1>2, <1>3 DEF SubscriberInv, SubscriberTypeOK
<1>5. /\ subscriptions'[s] = row /\ accepted'[s] = inputs
      /\ \A t \in SubscriptionId \ {s} :
           subscriptions'[t] = subscriptions[t] /\ accepted'[t] = accepted[t]
  BY <1>1 DEF SubscriberInv, SubscriberTypeOK
<1>6. NothingTaken
  BY <1>1, <1>5 DEF NothingTaken
<1>7. RowOK(s)'
  BY <1>1, <1>2, <1>3, <1>5 DEF RowOK
<1>8. \A t \in SubscriptionId : RowOK(t)'
  BY <1>1, <1>5, <1>7, RowStays DEF SubscriberInv
<1>9. ASSUME NEW r \in Request, Unstored(errands[r]) PROVE accepted'[errands[r].id] = <<>>
  BY <1>1, <1>5, <1>9, UnstoredIsNew DEF IdDrawn, Unstored
<1>10. QED
  BY <1>1, <1>4, <1>6, <1>8, <1>9, StatementKeeps

LEMMA SetDeliveryPreferenceKeeps ==
  ASSUME SubscriberInv, NEW c \in Consumer, NEW e \in Endpoint, SetDeliveryPreference(c, e)
  PROVE  SubscriberInv'
<1>1. /\ preferences' = [preferences EXCEPT ![c] = e]
      /\ offered' = [offered EXCEPT ![c] = @ \cup {e}]
      /\ consumers' = consumers /\ subscriptions' = subscriptions /\ errands' = errands
      /\ accepted' = accepted /\ reviewed' = reviewed /\ told' = told
      /\ cancelled' = cancelled
  BY DEF SetDeliveryPreference
<1>2. SubscriberTypeOK'
  BY <1>1 DEF SubscriberInv, SubscriberTypeOK
<1>3. NothingTaken /\ \A d \in Consumer : preferences'[d] = preferences[d]
                                          \/ preferences'[d] \in offered'[d]
  BY <1>1, AbsenceAssumption DEF NothingTaken, SubscriberInv, SubscriberTypeOK
<1>4. \A s \in SubscriptionId : RowOK(s)'
  BY <1>1 DEF SubscriberInv, RowOK
<1>5. QED
  BY <1>1, <1>2, <1>3, <1>4, StatementKeeps, UnstoredIsNew
-----------------------------------------------------------------------------
(* The theorems. *)

LEMMA SubscribersStep == ASSUME SubscriberInv, SubscriberNext PROVE SubscriberInv'
BY BeginCitizenKeeps, LoadOwnKeeps, CreateConsumerWithTokenKeeps, CreatePreferenceKeeps,
   InsertSubscriptionKeeps, AnswerCitizenKeeps, StoreOwnKeeps, ReplaceEndpointKeeps,
   LoadToCancelOwnKeeps, DeleteOwnKeeps, LoadToReviewKeeps, StoreReviewKeeps,
   ErrandFailsKeeps, RegisterConsumerKeeps, CreateForConsumerKeeps,
   SetDeliveryPreferenceKeeps DEF SubscriberNext

\* The inductive invariant of consumers, subscriptions and the requests on them
\* (citizen_subscriptions.rs, subscriptions.rs and consumers.rs of apps/api).
THEOREM SubscriberInvariant == SubscriberSpec => []SubscriberInv
<1>1. SubscriberInit => SubscriberInv
  BY SubscribersBegin
<1>2. SubscriberInv /\ [SubscriberNext]_subscriberVars => SubscriberInv'
  <2>1. ASSUME SubscriberInv, UNCHANGED subscriberVars PROVE SubscriberInv'
    <3>1. /\ consumers' = consumers /\ preferences' = preferences
          /\ subscriptions' = subscriptions /\ errands' = errands /\ accepted' = accepted
          /\ reviewed' = reviewed /\ told' = told /\ cancelled' = cancelled
          /\ offered' = offered
      BY <2>1 DEF subscriberVars
    <3>2. SubscriberTypeOK' /\ NothingTaken
      BY <2>1, <3>1 DEF SubscriberInv, SubscriberTypeOK, NothingTaken
    <3>3. \A s \in SubscriptionId : RowOK(s)'
      BY <2>1, <3>1 DEF SubscriberInv, RowOK
    <3>4. QED
      BY <2>1, <3>1, <3>2, <3>3, StatementKeeps, UnstoredIsNew
  <2>2. QED
    BY <2>1, SubscribersStep
<1>3. QED
  BY <1>1, <1>2, PTL DEF SubscriberSpec

\* Every table of subscriptions, every request on them and every rule that was accepted stays
\* well-formed.
THEOREM SubscriberTypeCorrect == SubscriberSpec => []SubscriberTypeOK
<1>1. SubscriberInv => SubscriberTypeOK
  BY DEF SubscriberInv
<1>2. QED
  BY <1>1, SubscriberInvariant, PTL

\* Whoever was answered 201 with a token can open the subscription with it until it is
\* cancelled, and has an endpoint that an accepted request gave: whatever failed in between
\* the commits of create_citizen_subscription, and whoever else changed the rows.
THEOREM TokenOpensHolds == SubscriberSpec => []TokenOpens
<1>1. SubscriberInv => TokenOpens
  BY DEF SubscriberInv
<1>2. QED
  BY <1>1, SubscriberInvariant, PTL

\* What the invariant says of one subscription as it is listed.
LEMMA ListedRow ==
  ASSUME SubscriberInv, NEW l \in Listed
  PROVE  /\ l.id \in SubscriptionId /\ subscriptions[l.id] # NoSubscription
         /\ l.consumer = subscriptions[l.id].consumer /\ l.rules = accepted[l.id]
         /\ l.id \notin reviewed => CitizenWrote(accepted[l.id])
         /\ \A k \in Listed : k.id = l.id => k = l
BY DEF Listed, SubscriberInv, RowOK

\* Of an alert each consumer is told once, about all of its subscriptions that match.
LEMMA FoundAreWanted ==
  ASSUME SubscriberInv, NEW alert \in Announcement, NEW l \in Listed
  PROVE  LET found == Deduplicated(Decisions(Listed, alert)) IN
         EvaluateSubscription(l, alert)
           <=> /\ l.consumer \in DOMAIN found
               /\ \E d \in found[l.consumer] : d.id = l.id
<1> DEFINE decisions == Decisions(Listed, alert)
           found == Deduplicated(decisions)
           Of(k) == [id |-> k.id, version |-> k.version, consumer |-> k.consumer,
                     matched |-> EvaluateSubscription(k, alert)]
<1>1. decisions = {Of(k) : k \in Listed}
  BY DEF Decisions
<1>2. \A k : /\ Of(k).id = k.id /\ Of(k).consumer = k.consumer
             /\ Of(k).matched = EvaluateSubscription(k, alert)
  OBVIOUS
<1> HIDE DEF decisions, Of
<1>3. /\ DOMAIN found = {d.consumer : d \in {e \in decisions : e.matched}}
      /\ \A c \in DOMAIN found : found[c] = {d \in decisions : d.matched /\ d.consumer = c}
  BY DEF Deduplicated, MatchedFor
<1> HIDE DEF found
<1>4. ASSUME EvaluateSubscription(l, alert)
      PROVE  /\ l.consumer \in DOMAIN found
             /\ \E d \in found[l.consumer] : d.id = l.id
  <2>1. Of(l) \in decisions /\ Of(l).matched
    BY <1>1, <1>2, <1>4
  <2>2. QED
    BY <1>2, <1>3, <2>1
<1>5. ASSUME l.consumer \in DOMAIN found, NEW d \in found[l.consumer], d.id = l.id
      PROVE  EvaluateSubscription(l, alert)
  <2>1. d \in decisions /\ d.matched
    BY <1>3, <1>5
  <2>2. PICK k \in Listed : d = Of(k)
    BY <1>1, <2>1
  <2>3. k = l
    BY <1>2, <1>5, <2>2, ListedRow
  <2>4. QED
    BY <1>2, <2>1, <2>2, <2>3
<1>6. QED
  BY <1>4, <1>5 DEF found, decisions

\* Where the invariant holds, rules keep their meaning.
LEMMA MeaningKept == ASSUME SubscriberInv PROVE RulesKeepMeaning
<1>1. \A l \in Listed : l.rules = accepted[l.id]
  BY ListedRow
<1>2. ASSUME NEW alert \in Announcement, NEW l \in Listed
      PROVE  LET found == Deduplicated(Decisions(Listed, alert))
                 wants == \A i \in DOMAIN accepted[l.id] :
                             EvaluateRule(accepted[l.id][i], alert)
             IN /\ wants <=> /\ l.consumer \in DOMAIN found
                             /\ \E d \in found[l.consumer] : d.id = l.id
                /\ wants /\ l.id \notin reviewed =>
                     /\ alert.visibility \in Broad
                     /\ \E area \in GeographyAreas({l}) : MatchesTarget(area, alert.target)
  <2> DEFINE wants == \A i \in DOMAIN accepted[l.id] : EvaluateRule(accepted[l.id][i], alert)
  <2>1. l.rules = accepted[l.id]
    BY <1>1
  <2>2. wants <=> EvaluateSubscription(l, alert)
    BY <2>1 DEF EvaluateSubscription
  <2>3. ASSUME wants, l.id \notin reviewed
        PROVE  /\ alert.visibility \in Broad
               /\ \E area \in GeographyAreas({l}) : MatchesTarget(area, alert.target)
    <3>1. PICK ask \in CitizenAsk : accepted[l.id] = CitizenRules(ask)
      BY <2>3, ListedRow DEF CitizenWrote
    <3>2. /\ alert.visibility \in Broad
          /\ \E area \in ask.areas \ {Blank} : MatchesTarget(area, alert.target)
      BY <2>3, <3>1, CitizenMatches
    <3>3. PICK area \in ask.areas \ {Blank} : MatchesTarget(area, alert.target)
      BY <3>2
    <3>4. /\ 3 \in DOMAIN l.rules /\ l.rules[3].rule = "GEOGRAPHY"
          /\ l.rules[3].areas = ask.areas \ {Blank}
      <4>1. /\ DOMAIN CitizenRules(ask) = 1 .. 4
            /\ CitizenRules(ask)[3] = [rule |-> "GEOGRAPHY", areas |-> ask.areas \ {Blank}]
        BY CitizenRulesAre, Zenon
      <4>2. 3 \in 1 .. 4
        OBVIOUS
      <4>3. QED
        BY <2>1, <3>1, <4>1, <4>2
    <3>5. area \in Area
      BY <3>3 DEF CitizenAsk, AreaInput
    <3>6. area \in GeographyAreas({l})
      BY <3>3, <3>4, <3>5 DEF GeographyAreas
    <3>7. QED
      BY <3>2, <3>3, <3>6
  <2>4. QED
    BY <2>2, <2>3, FoundAreWanted
<1>3. ASSUME NEW l \in Listed, l.id \notin reviewed
      PROVE  CitizenRules(Shown(l.rules)) = l.rules
  <2>1. PICK ask \in CitizenAsk : accepted[l.id] = CitizenRules(ask)
    BY <1>3, ListedRow DEF CitizenWrote
  <2>2. QED
    BY <1>1, <2>1, ShownSentBack
<1>4. QED
  BY <1>1, <1>2, <1>3 DEF RulesKeepMeaning

\* What was accepted as the rules of a subscription is what is read back, matched and shown,
\* through races of updates and in rows of either form; and what citizens wrote never widens
\* to alerts that are not for everyone or that lie elsewhere.
THEOREM RulesKeepMeaningHolds == SubscriberSpec => []RulesKeepMeaning
<1>1. SubscriberInv => RulesKeepMeaning
  BY MeaningKept
<1>2. QED
  BY <1>1, SubscriberInvariant, PTL

-----------------------------------------------------------------------------
(* The services side by side. *)

LEMMA EachServesAsSpecified ==
  ServicesSpec => TrustSpec /\ SessionSpec /\ LimitSpec /\ EvidenceSpec /\ SubscriberSpec
<1>1. ServicesInit => TrustInit /\ SessionInit /\ LimitInit /\ EvidenceInit /\ SubscriberInit
  BY DEF ServicesInit
<1>2. [ServicesNext]_serviceVars =>
        /\ [TrustNext]_trustVars /\ [SessionNext]_sessionVars /\ [LimitNext]_limitVars
        /\ [EvidenceNext]_evidenceVars /\ [SubscriberNext]_subscriberVars
  BY DEF ServicesNext, serviceVars, Alone
<1> QED
  BY <1>1, <1>2, PTL DEF ServicesSpec, TrustSpec, SessionSpec, LimitSpec, EvidenceSpec,
                         SubscriberSpec

\* Organizations, sessions, limits, photos and subscribers keep their types (the types of the
\* tables, domain/src/organization.rs, attachment.rs and subscription.rs).
THEOREM ServicesTypeHolds == ServicesSpec => []ServicesTypeOK
<1>1. TrustInv => TrustTypeOK
  BY DEF TrustInv
<1>2. LimitInv => LimitTypeOK
  BY DEF LimitInv
<1>3. TrustTypeOK /\ SessionTypeOK /\ LimitTypeOK /\ EvidenceTypeOK /\ SubscriberTypeOK
        => ServicesTypeOK
  BY DEF ServicesTypeOK
<1> QED
  BY <1>1, <1>2, <1>3, EachServesAsSpecified, TrustInvariant, SessionTypes, LimitInvariant,
     EvidenceTypeCorrect, SubscriberTypeCorrect, PTL
=============================================================================
