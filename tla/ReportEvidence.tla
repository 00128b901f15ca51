--------------------------- MODULE ReportEvidence ---------------------------
(* Photos of a report and what a model makes of its text: apps/api/src/    *)
(* attachments.rs, extractions.rs, alert_description.rs and reports.rs     *)
(* (transcribe_audio) over their workflows, repositories and adapters, and *)
(* uploadPhoto of the citizen app.  A photo takes a row in Postgres and an *)
(* object in R2, written by two parties; a suggestion takes a call to a    *)
(* provider between the read of its source and the row that records it.    *)
EXTENDS Integers, Sequences, FiniteSets

CONSTANTS
  Photo,           \* photos, one upload each; its object key is its own (a fresh UUID)
  Supported,       \* AttachmentContentType
  MimeType,        \* what a request may declare
  MaxSize,         \* MAX_ATTACHMENT_SIZE_BYTES
  AudioType,       \* what follows audio/ in the Content-Type of a recording
  MaxAudio,        \* MAX_AUDIO_BYTES
  VoiceEnabled,    \* VOICE_REPORTS_ENABLED
  Field,           \* fields of ExtractedReportFields
  Desk,            \* API requests of reviewers and citizens in progress
  MaxSuggestions,  \* bound: stored rows of each kind
  MaxDownloads,    \* bound: download URLs on record for a photo
  NoRow, NoObject, NoDeskRequest

VARIABLES
  attachments,   \* table attachments, by object key
  objects,       \* the bucket: what was put under each key
  uploads,       \* uploadPhoto of each photo and the request it makes
  desk,          \* other requests in progress
  extractions,   \* table report_extractions
  descriptions,  \* table alert_description_generations
  downloads,     \* audit_events ATTACHMENT_DOWNLOAD_URL_ISSUED of each key
  answered       \* history: answers that promise a stored row

evidenceVars == <<attachments, objects, uploads, desk, extractions, descriptions,
                  downloads, answered>>

Text == {"blank", "text"}
Metadata == [type : MimeType, size : 0 .. (MaxSize + 1), checksum : Text]

ASSUME EvidenceAssumption ==
  /\ Supported \subseteq MimeType /\ MaxSize \in Nat \ {0} /\ MaxAudio \in Nat \ {0}
  /\ VoiceEnabled \in BOOLEAN /\ MaxSuggestions \in Nat /\ MaxDownloads \in Nat
  /\ NoRow \notin Metadata /\ NoObject \notin Photo

Stage == {"idle", "asked", "exists", "prepared", "created", "granted", "done", "lost"}
Suggested == [Field -> {"none", "text"}]
Raw == [Field -> {"none"} \cup Text]
Pair == [en : Text, fr : Text]
AudioFormat == {"webm", "ogg", "wav", "m4a", "mp3", "aac", "flac"}
DeskRequest ==
  [op : {"extract"}, stage : {"found"}]
  \cup [op : {"extract"}, stage : {"produced"}, fields : Suggested]
  \cup [op : {"describe"}, stage : {"found"}]
  \cup [op : {"describe"}, stage : {"produced"}, pair : Pair]
  \cup [op : {"download"}, stage : {"found", "signed"}, key : Photo]
  \cup [op : {"transcribe"}, format : AudioFormat]

EvidenceTypeOK ==
  /\ attachments \in [Photo -> Metadata \cup {NoRow}]
  /\ objects \in [Photo -> Photo \cup {NoObject}]
  /\ uploads \in [Photo -> [stage : Stage, meta : Metadata \cup {NoRow}]]
  /\ desk \in [Desk -> DeskRequest \cup {NoDeskRequest}]
  /\ extractions \in Seq(Suggested) /\ descriptions \in Seq(Pair)
  /\ downloads \in [Photo -> 0 .. MaxDownloads]
  /\ answered \in SUBSET ([op : {"extract"}, row : 1 .. MaxSuggestions, fields : Suggested]
                     \cup [op : {"describe"}, row : 1 .. MaxSuggestions, pair : Pair]
                     \cup [op : {"download"}, key : Photo, row : 1 .. MaxDownloads])

EvidenceInit ==
  /\ attachments = [p \in Photo |-> NoRow] /\ objects = [p \in Photo |-> NoObject]
  /\ uploads = [p \in Photo |-> [stage |-> "idle", meta |-> NoRow]]
  /\ desk = [d \in Desk |-> NoDeskRequest]
  /\ extractions = <<>> /\ descriptions = <<>> /\ answered = {}
  /\ downloads = [p \in Photo |-> 0]

suggestionVars == <<desk, extractions, descriptions, downloads, answered>>
photoVars == <<attachments, objects, uploads>>
Reach(p, stage) == uploads' = [uploads EXCEPT ![p].stage = stage]

-----------------------------------------------------------------------------
(* A photo: the app asks, the API answers with an upload URL, the app puts *)
(* the bytes.  Every failure on the way ends it: the app does not retry.   *)

\* create_attachment begins; the rate limit is module RateLimits.
AskUpload(p, meta) ==
  /\ uploads[p].stage = "idle"
  /\ uploads' = [uploads EXCEPT ![p] = [stage |-> "asked", meta |-> meta]]
  /\ UNCHANGED <<attachments, objects>> /\ UNCHANGED suggestionVars

\* reports.exists; 404 for an unknown report.
CheckReport(p) ==
  /\ uploads[p].stage = "asked"
  /\ \E known \in BOOLEAN : Reach(p, IF known THEN "exists" ELSE "lost")
  /\ UNCHANGED <<attachments, objects>> /\ UNCHANGED suggestionVars

\* from_mime_type knows the closed set of types.
FromMimeType(type) == type \in Supported

\* Attachment::new
ValidAttachment(meta) ==
  /\ meta.checksum # "blank"
  /\ meta.size > 0 /\ meta.size <= MaxSize

\* prepare_attachment_upload: validation first, then the URL, before there is a row.
PrepareUpload(p) ==
  LET meta == uploads[p].meta IN
  /\ uploads[p].stage = "exists"
  /\ \E stored \in BOOLEAN :   \* whether the storage adapter signs
       Reach(p, IF FromMimeType(meta.type) /\ ValidAttachment(meta) /\ stored
                  THEN "prepared" ELSE "lost")
  /\ UNCHANGED <<attachments, objects>> /\ UNCHANGED suggestionVars

\* create: the row with what was declared.
CreateAttachment(p) ==
  /\ uploads[p].stage = "prepared"
  /\ attachments' = [attachments EXCEPT ![p] = uploads[p].meta]
  /\ Reach(p, "created")
  /\ objects' = objects /\ UNCHANGED suggestionVars

\* Mutant: the URL is answered before its row is there.
AnswerUploadEarly(p) ==
  /\ uploads[p].stage = "prepared"
  /\ Reach(p, "granted")
  /\ UNCHANGED <<attachments, objects>> /\ UNCHANGED suggestionVars

\* 201 with the upload URL.
AnswerUpload(p) ==
  /\ uploads[p].stage = "created"
  /\ Reach(p, "granted")
  /\ UNCHANGED <<attachments, objects>> /\ UNCHANGED suggestionVars

\* The PUT to the bucket; its answer may be lost.
PutPhoto(p) ==
  /\ uploads[p].stage = "granted"
  /\ objects' = [objects EXCEPT ![p] = p]
  /\ \E heard \in BOOLEAN : Reach(p, IF heard THEN "done" ELSE "lost")
  /\ attachments' = attachments /\ UNCHANGED suggestionVars

\* A failed statement, a lost answer, an expired URL or a closed tab.
UploadFails(p) ==
  /\ uploads[p].stage \notin {"idle", "done", "lost"}
  /\ Reach(p, "lost")
  /\ UNCHANGED <<attachments, objects>> /\ UNCHANGED suggestionVars

-----------------------------------------------------------------------------
(* Requests of reviewers.  authorize refuses anyone without a session      *)
(* before anything is read; such a request leaves no trace.                *)

EndRequest(d) == desk' = [desk EXCEPT ![d] = NoDeskRequest]
Open(d, request) == desk[d] = NoDeskRequest /\ desk' = [desk EXCEPT ![d] = request]
IsAt(d, op, stage) ==
  desk[d] # NoDeskRequest /\ desk[d].op = op /\ desk[d].stage = stage

\* create_extraction, up to the report that find_by_id returned.
OpenExtraction(d) ==
  /\ Open(d, [op |-> "extract", stage |-> "found"])
  /\ UNCHANGED photoVars /\ UNCHANGED <<extractions, descriptions, downloads, answered>>

\* Mutant: blank answers are kept.
NormalizeNothing(raw) == raw

\* ExtractedReportFields::new: what is blank is nothing.
Normalize(raw) == [f \in Field |-> IF raw[f] = "blank" THEN "none" ELSE raw[f]]

\* extract: anything but a well-formed answer in time ends as 502 (RequestFails).
ExtractorAnswers(d) ==
  /\ IsAt(d, "extract", "found")
  /\ \E raw \in Raw :
       desk' = [desk EXCEPT ![d] =
         [op |-> "extract", stage |-> "produced", fields |-> Normalize(raw)]]
  /\ UNCHANGED photoVars /\ UNCHANGED <<extractions, descriptions, downloads, answered>>

\* Mutant: a repeated extraction replaces the earlier one.
StoreExtractionOver(d) ==
  /\ IsAt(d, "extract", "produced")
  /\ extractions' = <<desk[d].fields>>
  /\ answered' = answered \cup {[op |-> "extract", row |-> 1, fields |-> desk[d].fields]}
  /\ EndRequest(d)
  /\ UNCHANGED photoVars /\ UNCHANGED <<descriptions, downloads>>

\* create of PostgresReportExtractionRepository, and the 201.
StoreExtraction(d) ==
  /\ IsAt(d, "extract", "produced") /\ Len(extractions) < MaxSuggestions
  /\ extractions' = Append(extractions, desk[d].fields)
  /\ \E heard \in BOOLEAN : answered' =
       IF heard THEN answered \cup {[op |-> "extract", row |-> Len(extractions'),
                                     fields |-> desk[d].fields]}
                ELSE answered
  /\ EndRequest(d)
  /\ UNCHANGED photoVars /\ UNCHANGED <<descriptions, downloads>>

\* generate_alert_description, up to the case that find_by_id returned: no blank draft.
OpenDescription(d, source) ==
  /\ source # "blank"
  /\ Open(d, [op |-> "describe", stage |-> "found"])
  /\ UNCHANGED photoVars /\ UNCHANGED <<extractions, descriptions, downloads, answered>>

\* generate: a pair with a blank side is a provider's failure.
Complete(pair) == pair.en # "blank" /\ pair.fr # "blank"

GeneratorAnswers(d) ==
  /\ IsAt(d, "describe", "found")
  /\ \E pair \in Pair :
       /\ Complete(pair)
       /\ desk' = [desk EXCEPT ![d] =
            [op |-> "describe", stage |-> "produced", pair |-> pair]]
  /\ UNCHANGED photoVars /\ UNCHANGED <<extractions, descriptions, downloads, answered>>

\* create of PostgresAlertDescriptionGenerationRepository, and the 201.
StoreDescription(d) ==
  /\ IsAt(d, "describe", "produced") /\ Len(descriptions) < MaxSuggestions
  /\ descriptions' = Append(descriptions, desk[d].pair)
  /\ \E heard \in BOOLEAN : answered' =
       IF heard THEN answered \cup {[op |-> "describe", row |-> Len(descriptions'),
                                     pair |-> desk[d].pair]}
                ELSE answered
  /\ EndRequest(d)
  /\ UNCHANGED photoVars /\ UNCHANGED <<extractions, downloads>>

\* create_download_url: find_by_id
OpenDownload(d, p) ==
  /\ attachments[p] # NoRow
  /\ Open(d, [op |-> "download", stage |-> "found", key |-> p])
  /\ UNCHANGED photoVars /\ UNCHANGED <<extractions, descriptions, downloads, answered>>

\* The storage adapter signs a URL for the key; it does not look for the object.
SignDownload(d) ==
  /\ IsAt(d, "download", "found")
  /\ desk' = [desk EXCEPT ![d].stage = "signed"]
  /\ UNCHANGED photoVars /\ UNCHANGED <<extractions, descriptions, downloads, answered>>

\* record_download_access, and the 200 with the URL.
RecordDownload(d) ==
  LET p == desk[d].key IN
  /\ IsAt(d, "download", "signed") /\ downloads[p] < MaxDownloads
  /\ downloads' = [downloads EXCEPT ![p] = @ + 1]
  /\ \E heard \in BOOLEAN : answered' =
       IF heard THEN answered \cup {[op |-> "download", key |-> p, row |-> downloads'[p]]}
                ELSE answered
  /\ EndRequest(d)
  /\ UNCHANGED photoVars /\ UNCHANGED <<extractions, descriptions>>

\* transcription_format_from_content_type; whatever is unknown is sent as webm.
FormatOf(type) ==
  CASE type \in {"wav", "wave", "x-wav"} -> "wav"
    [] type \in {"mp4", "m4a", "x-m4a"} -> "m4a"
    [] type \in {"mpeg", "mp3"} -> "mp3"
    [] type \in {"ogg", "aac", "flac"} -> type
    [] OTHER -> "webm"

\* transcribe_audio, once the rate limit let it pass.
OpenTranscription(d, size, type) ==
  /\ VoiceEnabled
  /\ size > 0 /\ size <= MaxAudio
  /\ Open(d, [op |-> "transcribe", format |-> FormatOf(type)])
  /\ UNCHANGED photoVars /\ UNCHANGED <<extractions, descriptions, downloads, answered>>

\* transcribe: the transcript goes back to the app and is stored nowhere.
TranscriberAnswers(d) ==
  /\ desk[d] # NoDeskRequest /\ desk[d].op = "transcribe"
  /\ EndRequest(d)
  /\ UNCHANGED photoVars /\ UNCHANGED <<extractions, descriptions, downloads, answered>>

\* 404, 502, 500 or a crash: nothing was written.
RequestFails(d) ==
  /\ desk[d] # NoDeskRequest
  /\ EndRequest(d)
  /\ UNCHANGED photoVars /\ UNCHANGED <<extractions, descriptions, downloads, answered>>

EvidenceNext ==
  \/ \E p \in Photo :
       \/ \E meta \in Metadata : AskUpload(p, meta)
       \/ CheckReport(p) \/ PrepareUpload(p) \/ CreateAttachment(p)
       \/ AnswerUpload(p) \/ PutPhoto(p) \/ UploadFails(p)
  \/ \E d \in Desk :
       \/ OpenExtraction(d) \/ ExtractorAnswers(d) \/ StoreExtraction(d)
       \/ \E source \in Text : OpenDescription(d, source)
       \/ GeneratorAnswers(d) \/ StoreDescription(d)
       \/ \E p \in Photo : OpenDownload(d, p)
       \/ SignDownload(d) \/ RecordDownload(d)
       \/ \E size \in 0 .. (MaxAudio + 1), type \in AudioType :
            OpenTranscription(d, size, type)
       \/ TranscriberAnswers(d) \/ RequestFails(d)

EvidenceSpec == EvidenceInit /\ [][EvidenceNext]_evidenceVars

-----------------------------------------------------------------------------
(* Properties. *)

\* Every object in the bucket has a row that declares an acceptable file, whoever fails on
\* the way; an app that saw its upload succeed has both; and a row without an object is
\* left only by an upload that is still going on or was cut off.
PhotosAccountedFor ==
  \A p \in Photo :
    /\ objects[p] # NoObject => /\ attachments[p] # NoRow
                                /\ attachments[p].type \in Supported
                                /\ attachments[p].size \in 1 .. MaxSize
    /\ uploads[p].stage = "done" => objects[p] = p
    /\ attachments[p] # NoRow /\ objects[p] = NoObject =>
         uploads[p].stage \in {"created", "granted", "lost"}

\* What a reviewer was given (a suggestion, a download URL) stays on record as it was
\* given, however requests overlap and fail; a recorded description is whole.
AnswersOnRecord ==
  /\ \A a \in answered :
       CASE a.op = "extract"  -> a.row <= Len(extractions) /\ extractions[a.row] = a.fields
         [] a.op = "describe" -> a.row <= Len(descriptions) /\ descriptions[a.row] = a.pair
         [] a.op = "download" -> attachments[a.key] # NoRow /\ a.row <= downloads[a.key]
  /\ \A i \in 1 .. Len(descriptions) : Complete(descriptions[i])
=============================================================================
