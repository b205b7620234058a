--------------------------- MODULE SourceHandoff ----------------------------
(***************************************************************************)
(* Uploads of symbolic files and the handoff of a source candidate they    *)
(* may answer: packages/catalog/src/source-candidate-handoff.ts, the       *)
(* upload route of apps/web and the part of ingestSource that decides      *)
(* between publishing, reusing and replacing an upload.                    *)
(*                                                                         *)
(* A file is its own base, because the base is named by the hash of the    *)
(* bytes.  Inspecting and publishing run under the lock of the base and    *)
(* are one step each (Publication has their parts); an upload keeps the    *)
(* handoff record it bound all the while its file is arranged, and writes  *)
(* that whole record back at the end.                                      *)
(***************************************************************************)
EXTENDS Integers

CONSTANTS Servers,       \* the web processes
          Files,         \* the files users upload
          Expected,      \* those of the format the candidate promised
          NoFile,        \* no file, no record
          MaxRevisions,  \* bound on the publications
          MaxUploads     \* bound on the uploads

ASSUME HandoffConstants ==
    /\ Expected \subseteq Files /\ NoFile \notin Files
    /\ MaxRevisions \in Nat /\ MaxUploads \in Nat

VARIABLES
    published,  \* per file: the revision of its base, 0 if there is none
    revisions,  \* number of publications
    linked,     \* history: files published with the handoff in their manifest
    handoff,    \* the stored record of the handoff
    expired,    \* whether its time is over
    tx,         \* the record a confirmation has read in its transaction
    upload,     \* per server: the upload it works on
    uploads     \* number of uploads

handoffVars == <<published, revisions, linked, handoff, expired, tx, upload, uploads>>

HandoffStates == {"absent", "AWAITING_USER_FILE", "FILE_RECEIVED", "FORMAT_MISMATCH",
                  "FILE_REJECTED", "GENERATION_ACCEPTED", "EXPIRED"}
Records == [state : HandoffStates, affirmed : BOOLEAN, file : Files \cup {NoFile}]
Absent == [state |-> "absent", affirmed |-> FALSE, file |-> NoFile]
Waiting == [step |-> "idle", file |-> NoFile, expect |-> 0, linking |-> FALSE,
            record |-> Absent]

HandoffTypeOK ==
    /\ published \in [Files -> 0 .. MaxRevisions] /\ revisions \in 0 .. MaxRevisions
    /\ linked \subseteq Files
    /\ handoff \in Records /\ expired \in BOOLEAN
    /\ tx \in Records \cup {NoFile}
    /\ upload \in [Servers -> [step : {"idle", "inspect", "bind", "ingest", "published",
                                       "failed"},
                               file : Files \cup {NoFile}, expect : 0 .. MaxRevisions,
                               linking : BOOLEAN, record : Records]]
    /\ uploads \in 0 .. MaxUploads

HandoffInit ==
    /\ published = [f \in Files |-> 0] /\ revisions = 0 /\ linked = {}
    /\ handoff = Absent /\ expired = FALSE /\ tx = NoFile
    /\ upload = [s \in Servers |-> Waiting] /\ uploads = 0

\* Mutant: a confirmation reads and writes without a transaction.
WriteFree_Always == TRUE
\* SQLite has one writer: a save waits for the transaction of a confirmation.
WriteFree == tx = NoFile

-----------------------------------------------------------------------------
CreateHandoff ==
    /\ handoff = Absent /\ ~expired
    /\ handoff' = [Absent EXCEPT !.state = "AWAITING_USER_FILE"]
    /\ UNCHANGED <<published, revisions, linked, expired, tx, upload, uploads>>

HandoffExpires ==
    /\ ~expired /\ expired' = TRUE
    /\ UNCHANGED <<published, revisions, linked, handoff, tx, upload, uploads>>

\* cleanupExpiredSourceCandidateHandoffs.
CleanUp ==
    /\ expired /\ handoff # Absent /\ WriteFree
    /\ handoff' = Absent
    /\ UNCHANGED <<published, revisions, linked, expired, tx, upload, uploads>>

Usable(h) == ~expired /\ h.state \notin {"absent", "EXPIRED"}
Receives(h) == h.state \in {"AWAITING_USER_FILE", "FILE_REJECTED", "FORMAT_MISMATCH"}

\* A confirmation with nothing to do returns the record it found.
BeginConfirm ==
    /\ tx = NoFile
    /\ Usable(handoff) /\ Receives(handoff) /\ ~(handoff.affirmed /\ handoff.file # NoFile)
    /\ tx' = handoff
    /\ UNCHANGED <<published, revisions, linked, handoff, expired, upload, uploads>>

SaveConfirm ==
    /\ tx # NoFile
    /\ tx' = NoFile
    /\ IF Usable(tx)
       THEN handoff' = [tx EXCEPT !.affirmed = TRUE, !.state = "AWAITING_USER_FILE"]
       ELSE UNCHANGED handoff
    /\ UNCHANGED <<published, revisions, linked, expired, upload, uploads>>

-----------------------------------------------------------------------------
\* One upload per server (uploadActive); one that replaces names the revision
\* its user reviewed, 0 stands for one that does not replace.
BeginUpload(s) ==
    /\ upload[s].step = "idle" /\ uploads < MaxUploads
    /\ \E f \in Files, e \in 0 .. revisions, linking \in BOOLEAN :
         upload' = [upload EXCEPT ![s] = [step |-> "inspect", file |-> f, expect |-> e,
                                          linking |-> linking, record |-> Absent]]
    /\ uploads' = uploads + 1
    /\ UNCHANGED <<published, revisions, linked, handoff, expired, tx>>

Step(s, step) == upload' = [upload EXCEPT ![s].step = step]
Over(s) == upload' = [upload EXCEPT ![s] = Waiting]

\* A new file is published; a known one is only replaced at the revision its
\* user reviewed, and otherwise reused.
Welcome(s) == published[upload[s].file] = upload[s].expect

Inspect(s) ==
    /\ upload[s].step = "inspect"
    /\ IF Welcome(s) THEN Step(s, IF upload[s].linking THEN "bind" ELSE "ingest")
                     ELSE Over(s)
    /\ UNCHANGED <<published, revisions, linked, handoff, expired, tx, uploads>>

\* bindSourceCandidateUpload, on a copy of the record.
Bound(h, f) ==
    [h EXCEPT !.file = f,
              !.state = IF h.state = "GENERATION_ACCEPTED" THEN @
                        ELSE IF f \in Expected THEN "FILE_RECEIVED" ELSE "FORMAT_MISMATCH"]

Bind(s) ==
    /\ upload[s].step = "bind"
    /\ LET f == upload[s].file IN
       IF /\ Usable(handoff) /\ handoff.affirmed
          /\ \/ Receives(handoff)
             \/ handoff.state = "GENERATION_ACCEPTED" /\ handoff.file = f
       THEN upload' = [upload EXCEPT ![s].step = "ingest", ![s].record = Bound(handoff, f)]
       ELSE Over(s)
    /\ UNCHANGED <<published, revisions, linked, handoff, expired, tx, uploads>>

\* What publishing the file of s changes.
Install(s) ==
    /\ revisions < MaxRevisions /\ revisions' = revisions + 1
    /\ published' = [published EXCEPT ![upload[s].file] = revisions']
    /\ linked' = linked \cup {f \in {upload[s].file} : upload[s].record # Absent}
    /\ Step(s, "published")

\* Mutant: the decision taken before the file was arranged is not repeated.
Publish_Early(s) ==
    /\ upload[s].step = "ingest"
    /\ Install(s)
    /\ UNCHANGED <<handoff, expired, tx, uploads>>

\* Mutant: a reused publication is taken for one of this upload.
Publish_Reused(s) ==
    /\ upload[s].step = "ingest"
    /\ IF Welcome(s) THEN Install(s)
       ELSE Step(s, "published") /\ UNCHANGED <<published, revisions, linked>>
    /\ UNCHANGED <<handoff, expired, tx, uploads>>

\* The decision is taken again under the lock that publishes.
Publish(s) ==
    /\ upload[s].step = "ingest"
    /\ IF Welcome(s)
       THEN Install(s)
       ELSE Over(s) /\ UNCHANGED <<published, revisions, linked>>
    /\ UNCHANGED <<handoff, expired, tx, uploads>>

\* The file turns out not to be a song, or its arrangement fails.
Refuse(s) ==
    /\ upload[s].step = "ingest"
    /\ Step(s, "failed")
    /\ UNCHANGED <<published, revisions, linked, handoff, expired, tx, uploads>>

\* saveSourceCandidateHandoff of the accepted or rejected copy, if the upload
\* has one; accepting a record whose time is over throws instead.
SaveOutcome(s) ==
    /\ upload[s].step \in {"published", "failed"} /\ WriteFree
    /\ LET record == upload[s].record IN
       handoff' = IF record = Absent THEN handoff
                  ELSE IF upload[s].step = "failed"
                       THEN [record EXCEPT !.state =
                               IF expired THEN "EXPIRED" ELSE "FILE_REJECTED"]
                       ELSE IF Usable(record)
                            THEN [record EXCEPT !.state = "GENERATION_ACCEPTED"]
                            ELSE handoff
    /\ Over(s)
    /\ UNCHANGED <<published, revisions, linked, expired, tx, uploads>>

\* A stop of the server, a busy lock or an open journal ends an upload at any
\* point without a word about the handoff.
Cut(s) ==
    /\ upload[s].step # "idle"
    /\ Over(s)
    /\ UNCHANGED <<published, revisions, linked, handoff, expired, tx, uploads>>

\* Somebody edits the published song, or deletes it.
EditOrDelete(f) ==
    /\ published[f] # 0
    /\ \/ /\ revisions < MaxRevisions /\ revisions' = revisions + 1
          /\ published' = [published EXCEPT ![f] = revisions']
       \/ published' = [published EXCEPT ![f] = 0] /\ UNCHANGED revisions
    /\ UNCHANGED <<linked, handoff, expired, tx, upload, uploads>>

HandoffNext ==
    \/ CreateHandoff \/ HandoffExpires \/ CleanUp \/ BeginConfirm \/ SaveConfirm
    \/ \E s \in Servers : \/ BeginUpload(s) \/ Inspect(s) \/ Bind(s) \/ Publish(s)
                          \/ Refuse(s) \/ SaveOutcome(s) \/ Cut(s)
    \/ \E f \in Files : EditOrDelete(f)

HandoffSpec == HandoffInit /\ [][HandoffNext]_handoffVars

-----------------------------------------------------------------------------
\* A file sent again, after a lost answer or from another server, is never
\* published twice, and a replacement replaces the very publication its user
\* reviewed (uploads/route.ts:109-118, ingest.ts beforeSwap), not an edit made
\* while the file was arranged.
UploadReplacesReviewed ==
    [][\A s \in Servers :
         upload[s].step = "ingest" /\ upload'[s].step = "published"
           => published[upload[s].file] = upload[s].expect]_handoffVars

\* A handoff is accepted only for a file that really was published with it.
AcceptedWasPublished ==
    handoff.state = "GENERATION_ACCEPTED" => handoff.file \in linked

\* "An older request cannot erase an upload binding" (source-candidate-
\* handoff.ts:411): while the record is kept it keeps a file once it has one.
ConfirmKeepsBinding ==
    [][handoff.file # NoFile /\ handoff' # Absent => handoff'.file # NoFile]_handoffVars
=============================================================================
