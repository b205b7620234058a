----------------------------- MODULE WebProofs ------------------------------
(***************************************************************************)
(* The theorems about the parts of the web application that MCWeb brings   *)
(* together, for any number of processes, files, publications, stops,      *)
(* changes and readers, and for any music: uploads and their handoff       *)
(* (SourceHandoff), the retained source of an upload (UploadMove), the     *)
(* cached rows (ReadModel) and the transport of the player (Transport);    *)
(* and at the end about all parts at once.  The editors (SongUpdate) have  *)
(* a module of their own.                                                  *)
(***************************************************************************)
EXTENDS MCWeb, SongUpdateProofs, FiniteSetTheorems, TLAPS

(***************************************************************************)
(* SourceHandoff, for any number of processes and files.  What is          *)
(* inductive is which record each running upload holds.                    *)
(***************************************************************************)
\* The record a running upload keeps: none before it has bound one, and then
\* one with its own file, which is linked once it is published.
RecordFits(u) ==
    /\ u.step \in {"idle", "inspect", "bind"} => u.record = Absent
    /\ u.step # "idle" => u.file \in Files
    /\ u.record # Absent => u.record.file = u.file /\ u.step # "idle"
    /\ u.step = "published" /\ u.record # Absent => u.file \in linked
    /\ u.record.state = "GENERATION_ACCEPTED" => u.record.file \in linked

UploadsFit == \A s \in Servers : RecordFits(upload[s])

\* A confirmation works on the stored record, and not on an accepted one.
TransactionFits == tx # NoFile => tx = handoff /\ Receives(tx)

\* What a server may be working on.
Uploads == [step : {"idle", "inspect", "bind", "ingest", "published", "failed"},
            file : Files \cup {NoFile}, expect : 0 .. MaxRevisions,
            linking : BOOLEAN, record : Records]

HandoffInv ==
    HandoffTypeOK /\ AcceptedWasPublished /\ UploadsFit /\ TransactionFits

-----------------------------------------------------------------------------
LEMMA HandoffBegins == HandoffInit => HandoffInv
<1> SUFFICES ASSUME HandoffInit PROVE HandoffInv
    OBVIOUS
<1>1. Absent \in Records
    BY DEF Absent, Records, HandoffStates
<1>2. HandoffTypeOK
  <2>1. upload = [s \in Servers |-> Waiting]
      BY DEF HandoffInit
  <2>2. Waiting \in Uploads
      BY <1>1, HandoffConstants DEF Waiting, Uploads
  <2>3. upload \in [Servers -> Uploads]
      BY <2>1, <2>2
  <2>4. 0 \in 0 .. MaxRevisions /\ 0 \in 0 .. MaxUploads
      BY HandoffConstants
  <2>5. published \in [Files -> 0 .. MaxRevisions]
      BY <2>4 DEF HandoffInit
  <2> QED
      BY <1>1, <2>3, <2>4, <2>5 DEF HandoffInit, HandoffTypeOK, Uploads
<1>3. AcceptedWasPublished /\ UploadsFit /\ TransactionFits
    BY DEF HandoffInit, AcceptedWasPublished, UploadsFit, RecordFits, TransactionFits,
           Absent, Waiting
<1> QED
    BY <1>2, <1>3 DEF HandoffInv

\* A step that leaves the uploads alone.
LEMMA NoUpload ==
    ASSUME HandoffInv,
           CreateHandoff \/ HandoffExpires \/ CleanUp \/ BeginConfirm \/ SaveConfirm
    PROVE  HandoffInv'
<1> USE DEF HandoffInv
<1>1. UploadsFit'
    BY DEF UploadsFit, RecordFits, CreateHandoff, HandoffExpires, CleanUp, BeginConfirm,
           SaveConfirm
<1>2. HandoffTypeOK' /\ AcceptedWasPublished' /\ TransactionFits'
  <2>1. CASE CreateHandoff
      BY <2>1, HandoffConstants
         DEF CreateHandoff, HandoffTypeOK, AcceptedWasPublished, TransactionFits, Receives,
             Records, Absent, HandoffStates
  <2>2. CASE HandoffExpires
      BY <2>2 DEF HandoffExpires, HandoffTypeOK, AcceptedWasPublished, TransactionFits, Receives
  <2>3. CASE CleanUp
      BY <2>3, HandoffConstants
         DEF CleanUp, WriteFree, HandoffTypeOK, AcceptedWasPublished, TransactionFits, Receives,
             Records, Absent, HandoffStates
  <2>4. CASE BeginConfirm
      BY <2>4
         DEF BeginConfirm, HandoffTypeOK, AcceptedWasPublished, TransactionFits, Receives
  <2>5. CASE SaveConfirm
    <3>1. /\ tx # NoFile /\ tx = handoff /\ tx' = NoFile
          /\ UNCHANGED <<published, revisions, linked, expired, upload, uploads>>
        BY <2>5 DEF SaveConfirm, TransactionFits
    <3>2. handoff' \in Records
      <4>1. handoff \in Records
          BY DEF HandoffTypeOK
      <4>2. CASE Usable(tx)
          BY <2>5, <3>1, <4>1, <4>2 DEF SaveConfirm, Records, HandoffStates
      <4> QED
          BY <2>5, <4>1, <4>2 DEF SaveConfirm
    <3>3. HandoffTypeOK'
        BY <3>1, <3>2 DEF HandoffTypeOK
    <3>4. AcceptedWasPublished'
        BY <2>5, <3>1 DEF SaveConfirm, HandoffTypeOK, Records, AcceptedWasPublished
    <3> QED
        BY <3>1, <3>3, <3>4 DEF TransactionFits
  <2> QED
      BY <2>1, <2>2, <2>3, <2>4, <2>5
<1> QED
    BY <1>1, <1>2

\* The step of one server leaves the uploads of the others alone.
LEMMA OthersUnmoved ==
    ASSUME HandoffInv, NEW s \in Servers,
           BeginUpload(s) \/ Inspect(s) \/ Bind(s) \/ Publish(s) \/ Refuse(s)
             \/ SaveOutcome(s) \/ Cut(s)
    PROVE  \E u : upload' = [upload EXCEPT ![s] = u]
<1>1. CASE BeginUpload(s)
    BY <1>1 DEF BeginUpload
<1>2. CASE Inspect(s)
    BY <1>2 DEF Inspect, Step, Over
<1>3. CASE Bind(s)
    BY <1>3 DEF Bind, Over
<1>4. CASE Publish(s)
    BY <1>4 DEF Publish, Install, Step, Over
<1>5. CASE Refuse(s) \/ SaveOutcome(s) \/ Cut(s)
    BY <1>5 DEF Refuse, SaveOutcome, Cut, Step, Over
<1> QED
    BY <1>1, <1>2, <1>3, <1>4, <1>5

\* What the server of a step works on afterwards.
LEMMA OwnUpload ==
    ASSUME HandoffInv, NEW s \in Servers,
           BeginUpload(s) \/ Inspect(s) \/ Bind(s) \/ Publish(s) \/ Refuse(s)
             \/ SaveOutcome(s) \/ Cut(s)
    PROVE  upload'[s] \in Uploads /\ RecordFits(upload[s])'
<1>1. upload \in [Servers -> Uploads] /\ upload[s] \in Uploads /\ RecordFits(upload[s])
    BY DEF HandoffInv, HandoffTypeOK, UploadsFit, Uploads
<1>2. Absent \in Records /\ Waiting \in Uploads
    BY HandoffConstants DEF Absent, Waiting, Records, HandoffStates, Uploads
<1>3. CASE upload'[s] = Waiting
    BY <1>2, <1>3 DEF Waiting, Absent, RecordFits
<1>4. CASE BeginUpload(s)
  <2> PICK f \in Files, e \in 0 .. revisions, linking \in BOOLEAN :
        upload'[s] = [step |-> "inspect", file |-> f, expect |-> e,
                      linking |-> linking, record |-> Absent]
      BY <1>1, <1>4 DEF BeginUpload
  <2>1. e \in 0 .. MaxRevisions
      BY HandoffConstants DEF HandoffInv, HandoffTypeOK
  <2> QED
      BY <1>2, <2>1 DEF Uploads, RecordFits, Absent
<1>5. CASE Inspect(s)
  <2>1. CASE ~Welcome(s)
      BY <1>1, <1>3, <1>5, <2>1 DEF Inspect, Over
  <2>2. CASE Welcome(s)
    <3> PICK next \in {"bind", "ingest"} : upload'[s] = [upload[s] EXCEPT !.step = next]
        BY <1>1, <1>5, <2>2 DEF Inspect, Step
    <3>1. upload[s].record = Absent /\ linked' = linked
        BY <1>1, <1>5 DEF Inspect, RecordFits
    <3>2. /\ upload'[s] \in Uploads /\ upload'[s].step = next
          /\ upload'[s].file = upload[s].file /\ upload'[s].record = Absent
        BY <1>1, <1>2, <3>1 DEF Uploads
    <3>3. upload[s].file \in Files
        BY <1>1, <1>5 DEF Inspect, RecordFits
    <3> QED
        BY <3>2, <3>3 DEF RecordFits, Absent
  <2> QED
      BY <2>1, <2>2
<1>6. CASE Bind(s)
  <2>1. CASE upload'[s] # [upload[s] EXCEPT !.step = "ingest",
                                            !.record = Bound(handoff, upload[s].file)]
      BY <1>1, <1>3, <1>6, <2>1 DEF Bind, Over
  <2>2. CASE upload'[s] = [upload[s] EXCEPT !.step = "ingest",
                                            !.record = Bound(handoff, upload[s].file)]
    <3>1. linked' = linked /\ upload[s].step = "bind" /\ handoff \in Records
        BY <1>6 DEF Bind, HandoffInv, HandoffTypeOK
    <3>2. upload[s].file \in Files
        BY <1>1, <3>1 DEF RecordFits
    <3>3. /\ Bound(handoff, upload[s].file) \in Records
          /\ Bound(handoff, upload[s].file).file = upload[s].file
        BY <3>1, <3>2 DEF Bound, Records, HandoffStates
    <3>4. Bound(handoff, upload[s].file).state = "GENERATION_ACCEPTED"
            => handoff.state = "GENERATION_ACCEPTED"
        BY <3>1 DEF Bound, Records
    <3>5. upload'[s] # Waiting /\ upload'[s].record = Bound(handoff, upload[s].file)
          /\ upload'[s].step = "ingest" /\ upload'[s].file = upload[s].file
      <4>1. upload'[s].step = "ingest" /\ upload'[s].file = upload[s].file
            /\ upload'[s].record = Bound(handoff, upload[s].file)
          BY <1>1, <2>2, <3>3 DEF Uploads
      <4> QED
          BY <4>1 DEF Waiting
    <3>6. handoff.state = "GENERATION_ACCEPTED" => handoff.file = upload[s].file
        BY <1>1, <1>6, <3>5 DEF Bind, Over, Receives, Waiting
    <3>7. upload[s].file \in linked \/ handoff.state # "GENERATION_ACCEPTED"
        BY <3>6 DEF HandoffInv, AcceptedWasPublished
    <3>8. upload'[s] \in Uploads
        BY <1>1, <2>2, <3>3 DEF Uploads
    <3> QED
        BY <3>1, <3>2, <3>3, <3>4, <3>5, <3>7, <3>8 DEF RecordFits
  <2> QED
      BY <2>1, <2>2
<1>7. CASE Publish(s)
  <2>1. CASE ~Welcome(s)
      BY <1>1, <1>3, <1>7, <2>1 DEF Publish, Over
  <2>2. CASE Welcome(s)
    <3>1. /\ upload'[s] = [upload[s] EXCEPT !.step = "published"]
          /\ linked' = linked \cup {f \in {upload[s].file} : upload[s].record # Absent}
        BY <1>1, <1>7, <2>2 DEF Publish, Install, Step
    <3>2. /\ upload'[s] \in Uploads /\ upload'[s].step = "published"
          /\ upload'[s].file = upload[s].file /\ upload'[s].record = upload[s].record
        BY <1>1, <3>1 DEF Uploads
    <3>3. upload[s].file \in Files
        BY <1>1, <1>7 DEF Publish, RecordFits
    <3>4. upload[s].record # Absent => upload[s].file \in linked'
        BY <3>1
    <3>5. upload[s].record.state = "GENERATION_ACCEPTED" => upload[s].record.file \in linked'
        BY <1>1, <3>1 DEF RecordFits
    <3>6. upload[s].record # Absent => upload[s].record.file = upload[s].file
        BY <1>1 DEF RecordFits
    <3> QED
        BY <3>2, <3>3, <3>4, <3>5, <3>6 DEF RecordFits
  <2> QED
      BY <2>1, <2>2
<1>8. CASE Refuse(s)
  <2>1. upload'[s] = [upload[s] EXCEPT !.step = "failed"] /\ linked' = linked
      BY <1>1, <1>8 DEF Refuse, Step
  <2>2. /\ upload'[s] \in Uploads /\ upload'[s].step = "failed"
        /\ upload'[s].file = upload[s].file /\ upload'[s].record = upload[s].record
      BY <1>1, <2>1 DEF Uploads
  <2>3. upload[s].step # "idle"
      BY <1>8 DEF Refuse
  <2> QED
      BY <1>1, <2>1, <2>2, <2>3 DEF RecordFits
<1>9. CASE SaveOutcome(s) \/ Cut(s)
    BY <1>1, <1>3, <1>9 DEF SaveOutcome, Cut, Over
<1> QED
    BY <1>4, <1>5, <1>6, <1>7, <1>8, <1>9

LEMMA OneUpload ==
    ASSUME HandoffInv, NEW s \in Servers,
           BeginUpload(s) \/ Inspect(s) \/ Bind(s) \/ Publish(s) \/ Refuse(s)
             \/ SaveOutcome(s) \/ Cut(s)
    PROVE  HandoffInv'
<1> USE DEF HandoffInv
<1>1. /\ upload \in [Servers -> Uploads] /\ upload[s] \in Uploads
      /\ RecordFits(upload[s]) /\ handoff \in Records
    BY DEF HandoffTypeOK, UploadsFit, Uploads
<1>2. upload'[s] \in Uploads /\ RecordFits(upload[s])'
    BY OwnUpload
<1>3. PICK u : upload' = [upload EXCEPT ![s] = u]
    BY OthersUnmoved
<1>4. upload' \in [Servers -> Uploads] /\ \A q \in Servers \ {s} : upload'[q] = upload[q]
    BY <1>1, <1>2, <1>3
<1>5. linked \subseteq linked'
    BY DEF BeginUpload, Inspect, Bind, Publish, Install, Refuse, SaveOutcome, Cut
<1>6. UploadsFit'
    BY <1>2, <1>4, <1>5 DEF UploadsFit, RecordFits
<1>7. handoff' \in Records /\ AcceptedWasPublished' /\ TransactionFits'
  <2>1. CASE SaveOutcome(s)
    <3>1. tx = NoFile /\ tx' = NoFile /\ linked' = linked
        BY <2>1 DEF SaveOutcome, WriteFree
    <3>2. CASE handoff' = handoff
        BY <1>1, <3>1, <3>2 DEF AcceptedWasPublished, TransactionFits
    <3>3. CASE handoff' = [upload[s].record EXCEPT
                             !.state = IF expired THEN "EXPIRED" ELSE "FILE_REJECTED"]
        BY <1>1, <3>1, <3>3
           DEF AcceptedWasPublished, TransactionFits, Uploads, Records, HandoffStates
    <3>4. CASE /\ handoff' = [upload[s].record EXCEPT !.state = "GENERATION_ACCEPTED"]
               /\ upload[s].record # Absent /\ upload[s].step = "published"
      <4>1. upload[s].record.file \in linked
          BY <1>1, <3>4 DEF RecordFits
      <4> QED
          BY <1>1, <3>1, <3>4, <4>1
             DEF AcceptedWasPublished, TransactionFits, Uploads, Records, HandoffStates
    <3> QED
        BY <2>1, <3>2, <3>3, <3>4 DEF SaveOutcome
  <2>2. CASE ~SaveOutcome(s)
    <3>1. handoff' = handoff /\ tx' = tx
        BY <2>2 DEF BeginUpload, Inspect, Bind, Publish, Refuse, Cut
    <3> QED
        BY <1>1, <1>5, <3>1 DEF AcceptedWasPublished, TransactionFits, Receives
  <2> QED
      BY <2>1, <2>2
<1>8. HandoffTypeOK'
  <2>1. uploads' \in 0 .. MaxUploads
      BY HandoffConstants
         DEF HandoffTypeOK, BeginUpload, Inspect, Bind, Publish, Refuse, SaveOutcome, Cut
  <2>2. expired' \in BOOLEAN /\ tx' \in Records \cup {NoFile}
      BY DEF HandoffTypeOK, BeginUpload, Inspect, Bind, Publish, Refuse, SaveOutcome, Cut
  <2>3. /\ published' \in [Files -> 0 .. MaxRevisions] /\ revisions' \in 0 .. MaxRevisions
        /\ linked' \subseteq Files
    <3>1. CASE Publish(s) /\ Install(s)
      <4>1. upload[s].file \in Files
          BY <1>1, <3>1 DEF Publish, RecordFits
      <4>2. revisions' \in 0 .. MaxRevisions
          BY <3>1, HandoffConstants DEF Install, HandoffTypeOK
      <4> QED
          BY <3>1, <4>1, <4>2 DEF Install, HandoffTypeOK
    <3>2. CASE UNCHANGED <<published, revisions, linked>>
        BY <3>2 DEF HandoffTypeOK
    <3> QED
        BY <3>1, <3>2 DEF BeginUpload, Inspect, Bind, Publish, Refuse, SaveOutcome, Cut
  <2> QED
      BY <1>4, <1>7, <2>1, <2>2, <2>3 DEF HandoffTypeOK, Uploads
<1> QED
    BY <1>6, <1>7, <1>8

LEMMA HandoffKeeps == HandoffInv /\ [HandoffNext]_handoffVars => HandoffInv'
<1> SUFFICES ASSUME HandoffInv, [HandoffNext]_handoffVars PROVE HandoffInv'
    OBVIOUS
<1>1. CASE UNCHANGED handoffVars
    BY <1>1
       DEF handoffVars, HandoffInv, HandoffTypeOK, AcceptedWasPublished, UploadsFit, RecordFits,
           TransactionFits, Receives
<1>2. CASE \E f \in Files : EditOrDelete(f)
    BY <1>2, HandoffConstants
       DEF EditOrDelete, HandoffInv, HandoffTypeOK, AcceptedWasPublished, UploadsFit,
           RecordFits, TransactionFits, Receives
<1>3. CASE CreateHandoff \/ HandoffExpires \/ CleanUp \/ BeginConfirm \/ SaveConfirm
    BY <1>3, NoUpload
<1>4. CASE \E s \in Servers :
             BeginUpload(s) \/ Inspect(s) \/ Bind(s) \/ Publish(s) \/ Refuse(s)
               \/ SaveOutcome(s) \/ Cut(s)
    BY <1>4, OneUpload
<1> QED
    BY <1>1, <1>2, <1>3, <1>4 DEF HandoffNext

-----------------------------------------------------------------------------
LEMMA HandoffInvariant == HandoffSpec => []HandoffInv
BY HandoffBegins, HandoffKeeps, PTL DEF HandoffSpec

\* A handoff is accepted only for a file that was published with it, however
\* uploads, confirmations, the expiry and clean-ups overlap.
THEOREM AcceptanceIsTrue == HandoffSpec => []AcceptedWasPublished
<1>1. HandoffInv => AcceptedWasPublished
    BY DEF HandoffInv
<1> QED
    BY <1>1, HandoffInvariant, PTL

\* confirmSourceCandidateHandoff never takes the file from a record that has
\* one, because its transaction keeps every other writer out.
THEOREM BindingIsKept == HandoffSpec => ConfirmKeepsBinding
<1>1. ASSUME HandoffInv, [HandoffNext]_handoffVars
      PROVE  [handoff.file # NoFile /\ handoff' # Absent => handoff'.file # NoFile]_handoffVars
  <2> SUFFICES ASSUME HandoffNext, handoff.file # NoFile, handoff' # Absent
               PROVE  handoff'.file # NoFile
      BY <1>1
  <2> USE <1>1 DEF HandoffInv
  <2>1. CASE UNCHANGED handoff
      BY <2>1
  <2>2. CASE SaveConfirm
      BY <2>2 DEF SaveConfirm, TransactionFits, HandoffTypeOK, Records
  <2>3. CASE \E s \in Servers : SaveOutcome(s)
    <3> PICK s \in Servers : SaveOutcome(s)
        BY <2>3
    <3>1. /\ upload[s].record \in Records
          /\ upload[s].record # Absent => upload[s].record.file \in Files
        BY DEF HandoffTypeOK, UploadsFit, RecordFits
    <3> QED
        BY <3>1, HandoffConstants DEF SaveOutcome, Records
  <2>4. CASE CreateHandoff
      BY <2>4 DEF CreateHandoff, Absent
  <2>5. CASE CleanUp
      BY <2>5 DEF CleanUp
  <2> QED
      BY <2>1, <2>2, <2>3, <2>4, <2>5
         DEF HandoffNext, HandoffExpires, BeginConfirm, BeginUpload, Inspect, Bind, Publish,
             Refuse, Cut, EditOrDelete
<1> QED
    BY <1>1, HandoffInvariant, PTL DEF HandoffSpec, ConfirmKeepsBinding

\* An upload is published only over the very publication its user reviewed,
\* or over none.
THEOREM ReplacesOnlyReviewed == HandoffSpec => UploadReplacesReviewed
<1>1. ASSUME HandoffInv, [HandoffNext]_handoffVars
      PROVE  [\A s \in Servers :
                upload[s].step = "ingest" /\ upload'[s].step = "published"
                  => published[upload[s].file] = upload[s].expect]_handoffVars
  <2> SUFFICES ASSUME HandoffNext, NEW s \in Servers,
                      upload[s].step = "ingest", upload'[s].step = "published"
               PROVE  published[upload[s].file] = upload[s].expect
      BY <1>1
  <2>1. upload \in [Servers -> Uploads]
      BY <1>1 DEF HandoffInv, HandoffTypeOK, Uploads
  <2>2. upload' # upload
      OBVIOUS
  <2>3. PICK q \in Servers : BeginUpload(q) \/ Inspect(q) \/ Bind(q) \/ Publish(q)
                                \/ Refuse(q) \/ SaveOutcome(q) \/ Cut(q)
      BY <2>2
         DEF HandoffNext, CreateHandoff, HandoffExpires, CleanUp, BeginConfirm, SaveConfirm,
             EditOrDelete
  <2>4. PICK u : upload' = [upload EXCEPT ![q] = u]
      BY <1>1, <2>3, OthersUnmoved
  <2>5. q = s
    <3>1. upload'[s] # upload[s]
        OBVIOUS
    <3> QED
        BY <2>1, <2>4, <3>1
  <2>6. upload'[s] # Waiting
      BY DEF Waiting
  <2>7. ~Inspect(s) /\ ~BeginUpload(s) /\ ~Refuse(s)
    <3>1. ~Refuse(s)
        BY <2>1 DEF Refuse, Step, Uploads
    <3> QED
        BY <3>1 DEF Inspect, BeginUpload
  <2>8. ~Bind(s) /\ ~SaveOutcome(s) /\ ~Cut(s)
      BY <2>1, <2>6 DEF Bind, SaveOutcome, Cut, Over
  <2>9. Publish(s)
      BY <2>3, <2>5, <2>7, <2>8
  <2> QED
      BY <2>1, <2>9 DEF Publish, Welcome, Over, Waiting
<1> QED
    BY <1>1, HandoffInvariant, PTL DEF HandoffSpec, UploadReplacesReviewed

-----------------------------------------------------------------------------
(***************************************************************************)
(* UploadMove: the retained source, for any number of publications and     *)
(* stops.  What is inductive is how far the moves of the journaled         *)
(* publication u have come once its tree is installed.                     *)
(***************************************************************************)
Moving(u) ==
    \/ source = listed /\ u \in stagedFiles /\ u \notin backups
    \/ ~source /\ u \in stagedFiles /\ (listed => u \in backups)
    \/ source /\ u \notin stagedFiles

\* Each step of the lock holder finds what the step before has made.
HolderFits ==
    /\ step \in {"stage", "journal"} =>
          /\ recovery = NoRecovery /\ current \in attempted
          /\ current \notin backups
    /\ step = "journal" => current \in stagedFiles
    /\ step \in {"swap", "aside", "place", "verify", "list", "unkeep"} =>
          current \in Stagings /\ recovery = PublicationOf(current)
    /\ step = "swap" => artifact = "staged"
    /\ step \in {"aside", "place", "verify", "list", "unkeep"} =>
          artifact = "installed"
    /\ step = "place" => ~source /\ current \in stagedFiles
    /\ step = "verify" => current \notin stagedFiles
    /\ step = "list" => source
    /\ step = "unkeep" => source /\ listed
    /\ step \in {"unlist", "unsource"} => recovery = Deletion
    /\ step = "unsource" => ~listed
    /\ step = "close" => source = listed

JournalFits ==
    /\ recovery = NoRecovery => source = listed
    /\ recovery.kind # "publish" => artifact = "none"
    /\ recovery.kind = "publish" =>
          /\ recovery.of \in attempted
          /\ artifact # "installed" => source = listed
          /\ artifact = "staged" =>
                recovery.of \in stagedFiles /\ recovery.of \notin backups
          /\ artifact = "installed" => Moving(recovery.of)

MoveInv ==
    /\ MoveTypeOK
    /\ backups \subseteq attempted
    /\ JournalFits
    /\ HolderFits

LEMMA Journals ==
    /\ NoRecovery.kind = "none" /\ NoRecovery.of = NoStaging
    /\ Deletion.kind = "delete" /\ Deletion.of = NoStaging
    /\ \A u : PublicationOf(u).kind = "publish" /\ PublicationOf(u).of = u
    /\ NoRecovery # Deletion
    /\ \A u : PublicationOf(u) # NoRecovery /\ PublicationOf(u) # Deletion
<1>1. /\ NoRecovery.kind = "none" /\ NoRecovery.of = NoStaging
      /\ Deletion.kind = "delete" /\ Deletion.of = NoStaging
      /\ \A u : PublicationOf(u).kind = "publish" /\ PublicationOf(u).of = u
    BY DEF NoRecovery, Deletion, PublicationOf
<1>2. "none" # "publish" /\ "none" # "delete" /\ "delete" # "publish"
    OBVIOUS
<1> QED
    BY <1>1, <1>2

LEMMA MoveBegins == MoveInit => MoveInv
<1> SUFFICES ASSUME MoveInit PROVE MoveInv
    OBVIOUS
<1>1. MoveTypeOK
  <2>1. source \in BOOLEAN /\ listed \in BOOLEAN
      BY DEF MoveInit
  <2>2. kills \in 0 .. MaxKills
      BY MoveAssumption DEF MoveInit
  <2> QED
      BY <2>1, <2>2 DEF MoveInit, MoveTypeOK
<1>2. JournalFits /\ HolderFits
    BY Journals DEF MoveInit, JournalFits, HolderFits
<1> QED
    BY <1>1, <1>2 DEF MoveInit, MoveInv

\* The types, action by action.
LEMMA MovesKeepTypes ==
    ASSUME MoveInv, MoveNext PROVE MoveTypeOK'
<1> USE MoveAssumption DEF MoveInv, MoveTypeOK, Proceed, Release, moveFiles, moveRecord
<1>1. ASSUME NEW u \in Stagings, BeginIngest(u) PROVE MoveTypeOK'
    BY <1>1 DEF BeginIngest
<1>2. CASE StageUpload
    BY <1>2 DEF StageUpload, HolderFits
<1>3. CASE Abandon
    BY <1>3 DEF Abandon
<1>4. CASE OpenRecovery
    BY <1>4 DEF OpenRecovery, HolderFits
<1>5. CASE FailRecovery
    BY <1>5 DEF FailRecovery, HolderFits
<1>6. CASE SwapTree
    BY <1>6 DEF SwapTree
<1>7. CASE MoveAside
    BY <1>7 DEF MoveAside
<1>8. CASE MoveIntoPlace
    BY <1>8 DEF MoveIntoPlace
<1>9. CASE VerifySource
    BY <1>9 DEF VerifySource
<1>10. CASE ListRows
    BY <1>10 DEF ListRows
<1>11. CASE RefuseRows
    BY <1>11 DEF RefuseRows
<1>12. CASE RemoveBackup
    BY <1>12 DEF RemoveBackup
<1>13. CASE CloseRecovery
    BY <1>13 DEF CloseRecovery
<1>14. CASE BeginErase
    BY <1>14 DEF BeginErase
<1>15. CASE UnlistRows
    BY <1>15 DEF UnlistRows
<1>16. CASE RemoveSources
    BY <1>16 DEF RemoveSources
<1>17. CASE ReplayMove
  <2>1. recovery.of \in Stagings
      BY <1>17, Journals DEF ReplayMove
  <2> QED
      BY <1>17, <2>1 DEF ReplayMove
<1>18. CASE RollBackMove
    BY <1>18 DEF RollBackMove
<1>19. CASE ReplayErase
    BY <1>19 DEF ReplayErase
<1>20. CASE Kill
    BY <1>20 DEF Kill
<1> QED
    BY <1>1, <1>2, <1>3, <1>4, <1>5, <1>6, <1>7, <1>8, <1>9, <1>10, <1>11, <1>12,
       <1>13, <1>14, <1>15, <1>16, <1>17, <1>18, <1>19, <1>20 DEF MoveNext

\* The moves and the journal, action by action.
LEMMA MovesKeepFits ==
    ASSUME MoveInv, MoveNext
    PROVE  (backups \subseteq attempted)'
           /\ JournalFits' /\ HolderFits'
<1> DEFINE Fits == /\ backups \subseteq attempted
                   /\ JournalFits /\ HolderFits
<1> USE MoveAssumption, Journals DEF MoveInv, JournalFits, HolderFits, Proceed, Release,
        moveFiles, moveRecord
<1>1. ASSUME NEW u \in Stagings, BeginIngest(u) PROVE Fits'
    BY <1>1 DEF BeginIngest, MoveTypeOK
<1>2. CASE StageUpload
    BY <1>2 DEF StageUpload
<1>3. CASE Abandon
    BY <1>3 DEF Abandon
<1>4. CASE OpenRecovery
    BY <1>4 DEF OpenRecovery, MoveTypeOK
<1>5. CASE FailRecovery
    BY <1>5 DEF FailRecovery
<1>6. CASE SwapTree
    BY <1>6 DEF SwapTree, Moving
<1>7. CASE MoveAside
    BY <1>7 DEF MoveAside, Moving, MoveTypeOK
<1>8. CASE MoveIntoPlace
    BY <1>8 DEF MoveIntoPlace, Moving
<1>9. CASE VerifySource
    BY <1>9 DEF VerifySource, Moving
<1>10. CASE ListRows
    BY <1>10 DEF ListRows, Moving
<1>11. CASE RefuseRows
    BY <1>11 DEF RefuseRows, Moving
<1>12. CASE RemoveBackup
    BY <1>12 DEF RemoveBackup, Moving, MoveTypeOK
<1>13. CASE CloseRecovery
    BY <1>13 DEF CloseRecovery
<1>14. CASE BeginErase
    BY <1>14 DEF BeginErase
<1>15. CASE UnlistRows
    BY <1>15 DEF UnlistRows
<1>16. CASE RemoveSources
  <2>1. listed = FALSE
      BY <1>16 DEF RemoveSources, MoveTypeOK
  <2> QED
      BY <1>16, <2>1 DEF RemoveSources
<1>17. CASE ReplayMove
  <2>1. recovery.of \in Stagings /\ recovery = PublicationOf(recovery.of)
      BY <1>17 DEF ReplayMove, MoveTypeOK
  <2> QED
      BY <1>17, <2>1 DEF ReplayMove, Moving
<1>18. CASE RollBackMove
    BY <1>18 DEF RollBackMove
<1>19. CASE ReplayErase
    BY <1>19 DEF ReplayErase
<1>20. CASE Kill
    BY <1>20 DEF Kill, Moving
<1> QED
    BY <1>1, <1>2, <1>3, <1>4, <1>5, <1>6, <1>7, <1>8, <1>9, <1>10, <1>11, <1>12,
       <1>13, <1>14, <1>15, <1>16, <1>17, <1>18, <1>19, <1>20 DEF MoveNext

LEMMA MoveStutters ==
    ASSUME MoveInv, UNCHANGED moveVars PROVE MoveInv'
BY DEF moveVars, MoveInv, MoveTypeOK, JournalFits, HolderFits, Moving

LEMMA RetainedNow == MoveInv => SourceRetained
<1> SUFFICES ASSUME MoveInv PROVE SourceRetained
    OBVIOUS
<1>1. recovery = NoRecovery => source = listed
    BY DEF MoveInv, JournalFits
<1>2. ASSUME listed, recovery # Deletion PROVE source \/ backups # {}
  <2>1. CASE recovery = NoRecovery
      BY <1>1, <1>2, <2>1
  <2>2. ASSUME NEW w \in Stagings, recovery = PublicationOf(w)
        PROVE  source \/ backups # {}
    <3>1. source = listed \/ Moving(w)
        BY <2>2, Journals DEF MoveInv, JournalFits, MoveTypeOK
    <3> QED
        BY <1>2, <3>1 DEF Moving
  <2> QED
      BY <1>2, <2>1, <2>2 DEF MoveInv, MoveTypeOK
<1> QED
    BY <1>1, <1>2 DEF SourceRetained

\* However publications, replays and deletions of a base are cut between two
\* renames, a listed base has its source file in place or as a backup, and
\* once no journal is pending it is in place (commitCatalogPublication and
\* commitCatalogDeletion of reconcile.ts, under the lock of publish.ts).
THEOREM SourceIsRetained == MoveSpec => []SourceRetained
<1>1. MoveInv /\ [MoveNext]_moveVars => MoveInv'
  <2>1. ASSUME MoveInv, MoveNext PROVE MoveInv'
      BY <2>1, MovesKeepTypes, MovesKeepFits DEF MoveInv
  <2> QED
      BY <2>1, MoveStutters
<1> QED
    BY MoveBegins, <1>1, RetainedNow, PTL DEF MoveSpec

-----------------------------------------------------------------------------
(***************************************************************************)
(* ReadModel, for any number of calls with at most one change by others    *)
(* during each: with two, HitIsCurrent is false.  What is inductive is     *)
(* which versions each value was read between.                             *)
(***************************************************************************)
\* The versions only grow, and grow during a call by the counted changes.
CountedInv ==
    phase # "idle" =>
      /\ began.data <= data /\ began.policy <= policy
      /\ foreign = (data - began.data) + (policy - began.policy)

\* Rows that were read twice were read after the last change of the call.
RetryInv == retried => phase # "idle" /\ foreign = MaxPerCall

SignedInv ==
    /\ phase \in {"policy", "files", "hidden", "rows", "dataAgain", "policyAgain"} =>
         began.data <= before.data /\ before.data <= data
    /\ phase \in {"files", "hidden", "rows", "dataAgain", "policyAgain"} =>
         began.policy <= before.policy /\ before.policy <= policy

\* What has been read so far is not older than the signatures before it, and
\* not older than now when it was read twice.
PolicyReadInv ==
    phase \in {"hidden", "rows", "dataAgain", "policyAgain"} =>
      /\ before.policy <= got.policy /\ got.policy <= policy
      /\ retried => got.policy = policy
HiddenReadInv ==
    phase \in {"rows", "dataAgain", "policyAgain"} =>
      /\ before.data <= got.hidden /\ got.hidden <= data
      /\ retried => got.hidden = data
RowsReadInv ==
    phase \in {"dataAgain", "policyAgain"} =>
      /\ got.hidden <= got.rows /\ got.rows <= data
      /\ retried => got.rows = data
AfterInv ==
    phase = "policyAgain" =>
      /\ got.rows <= after /\ after <= data
      /\ retried => after = data

\* Cached rows are those of the versions they are stored under.
CacheInv ==
    cache.valid => cache.of = [policy |-> cache.sig.policy, hidden |-> cache.sig.data,
                               rows |-> cache.sig.data]

ReadModelInv ==
    /\ ReadModelTypeOK /\ CountedInv /\ RetryInv /\ SignedInv
    /\ PolicyReadInv /\ HiddenReadInv /\ RowsReadInv /\ AfterInv /\ CacheInv

-----------------------------------------------------------------------------
LEMMA VersionsAreNat == Versions \subseteq Nat
    BY ReadModelConstants DEF Versions

\* The types the arithmetic needs.
LEMMA Numbers ==
    ASSUME ReadModelTypeOK
    PROVE  /\ data \in Nat /\ policy \in Nat /\ after \in Nat /\ foreign \in Nat
           /\ before.data \in Nat /\ before.policy \in Nat
           /\ began.data \in Nat /\ began.policy \in Nat
           /\ got.policy \in Nat /\ got.hidden \in Nat /\ got.rows \in Nat
           /\ before = [data |-> before.data, policy |-> before.policy]
<1>1. /\ data \in Versions /\ policy \in Versions /\ after \in Versions
      /\ before \in [data : Versions, policy : Versions]
      /\ began \in [data : Versions, policy : Versions]
      /\ got \in [policy : Versions, hidden : Versions, rows : Versions]
    BY DEF ReadModelTypeOK, Signatures, Reads
<1>2. foreign \in Nat
    BY ReadModelConstants DEF ReadModelTypeOK
<1>3. /\ before.data \in Versions /\ before.policy \in Versions
      /\ began.data \in Versions /\ began.policy \in Versions
      /\ got.policy \in Versions /\ got.hidden \in Versions /\ got.rows \in Versions
    BY <1>1
<1>4. before = [data |-> before.data, policy |-> before.policy]
    BY <1>1
<1> QED
    BY <1>1, <1>2, <1>3, VersionsAreNat, <1>4

LEMMA ReadModelBegins == ReadModelInit => ReadModelInv
<1> SUFFICES ASSUME ReadModelInit PROVE ReadModelInv
    OBVIOUS
<1>1. 0 \in Versions /\ 0 \in 0 .. MaxPerCall
    BY ReadModelConstants DEF Versions
<1>2. ReadModelTypeOK
    BY <1>1 DEF ReadModelInit, ReadModelTypeOK, Signatures, Reads, NoReads, NoCache
<1> QED
    BY <1>2
       DEF ReadModelInit, ReadModelInv, CountedInv, RetryInv, SignedInv, PolicyReadInv,
           HiddenReadInv, RowsReadInv, AfterInv, CacheInv, NoCache

\* The rows a call stores are those of one instant: without a retry the
\* signatures before and after them are the same, and after a retry nothing
\* can have changed any more.
LEMMA ReadOfOneInstant ==
    ASSUME MaxPerCall \in {0, 1}, ReadModelInv, phase = "policyAgain",
           retried \/ [data |-> after, policy |-> policy] = before
    PROVE  got = [policy |-> policy, hidden |-> after, rows |-> after]
<1> USE DEF ReadModelInv
<1>1. /\ got.policy \in Nat /\ got.hidden \in Nat /\ got.rows \in Nat
      /\ after \in Nat /\ policy \in Nat /\ data \in Nat
    BY Numbers
<1>2. got = [policy |-> got.policy, hidden |-> got.hidden, rows |-> got.rows]
  <2>1. got \in [policy : Versions, hidden : Versions, rows : Versions]
      BY DEF ReadModelTypeOK, Reads
  <2> QED
      BY <2>1
<1>3. CASE retried
  <2>1. got.policy = policy /\ got.hidden = data /\ got.rows = data /\ after = data
      BY <1>3 DEF PolicyReadInv, HiddenReadInv, RowsReadInv, AfterInv
  <2> QED
      BY <1>2, <2>1
<1>4. CASE [data |-> after, policy |-> policy] = before
  <2>1. before.data = after /\ before.policy = policy
      BY <1>4
  <2>2. /\ policy <= got.policy /\ got.policy <= policy
        /\ after <= got.hidden /\ got.hidden <= got.rows /\ got.rows <= after
      BY <2>1 DEF PolicyReadInv, HiddenReadInv, RowsReadInv, AfterInv
  <2>3. got.policy = policy /\ got.hidden = after /\ got.rows = after
      BY <1>1, <2>2
  <2> QED
      BY <1>2, <2>3
<1> QED
    BY <1>3, <1>4

LEMMA TypeKeeps == ReadModelTypeOK /\ ReadModelNext => ReadModelTypeOK'
<1> SUFFICES ASSUME ReadModelTypeOK, ReadModelNext PROVE ReadModelTypeOK'
    OBVIOUS
<1> USE DEF ReadModelTypeOK
<1>0. 0 \in Versions /\ NoReads \in Reads /\ Current \in Signatures
  <2>1. 0 \in Versions
      BY ReadModelConstants DEF Versions
  <2> QED
      BY <2>1 DEF NoReads, Reads, Current, Signatures
<1>1. CASE Call
  <2>1. 0 \in 0 .. MaxPerCall
      BY ReadModelConstants
  <2> QED
      BY <1>0, <1>1, <2>1 DEF Call
<1>2. CASE SignData
    BY <1>0, <1>2 DEF SignData, Signatures
<1>3. CASE SignPolicy
  <2> DEFINE sig == [before EXCEPT !.policy = policy]
  <2>1. sig \in Signatures /\ [data |-> 0, policy |-> 0] \in Signatures /\ cache.of \in Reads
      BY <1>0 DEF Signatures
  <2>2. /\ before' \in Signatures /\ answer' \in Reads /\ got' \in Reads
        /\ retried' \in BOOLEAN /\ phase' \in {"idle", "files"}
    <3> HIDE DEF sig
    <3>1. CASE cache.valid /\ cache.sig = sig
        BY <1>0, <1>3, <2>1, <3>1 DEF SignPolicy, Return, sig
    <3>2. CASE ~(cache.valid /\ cache.sig = sig)
        BY <1>3, <2>1, <3>2 DEF SignPolicy, sig
    <3> QED
        BY <3>1, <3>2
  <2> QED
      BY <1>3, <2>2 DEF SignPolicy
<1>4. CASE ReadPolicyFiles \/ ReadTombstones \/ SelectSongs
    BY <1>4 DEF ReadPolicyFiles, ReadTombstones, SelectSongs, Reads
<1>5. CASE SignDataAfter
    BY <1>5 DEF SignDataAfter
<1>6. CASE SignPolicyAfter
  <2> DEFINE sig == [data |-> after, policy |-> policy]
  <2>1. sig \in Signatures /\ [data |-> 0, policy |-> 0] \in Signatures
      BY <1>0 DEF Signatures
  <2>2. [valid |-> TRUE, sig |-> sig, of |-> got]
          \in [valid : BOOLEAN, sig : Signatures, of : Reads]
      BY <2>1
  <2>3. CASE ~retried /\ sig # before
      BY <1>0, <1>6, <2>3 DEF SignPolicyAfter
  <2>4. CASE ~(~retried /\ sig # before)
    <3>1. /\ cache' = [valid |-> TRUE, sig |-> sig, of |-> got]
          /\ answer' = got /\ phase' = "idle" /\ retried' = FALSE
          /\ before' = [data |-> 0, policy |-> 0] /\ got' = NoReads
          /\ UNCHANGED <<data, policy, after, began, foreign>>
        BY <1>6, <2>4 DEF SignPolicyAfter, Store, Return
    <3> HIDE DEF sig
    <3> QED
        BY <1>0, <2>1, <2>2, <3>1
  <2> QED
      BY <2>3, <2>4
<1>7. CASE OwnWrite
  <2>1. data' \in Versions
      BY <1>7, ReadModelConstants DEF OwnWrite, Versions
  <2>2. NoCache \in [valid : BOOLEAN, sig : Signatures, of : Reads]
      BY <1>0 DEF NoCache, Signatures
  <2> QED
      BY <1>7, <2>1, <2>2 DEF OwnWrite
<1>8. CASE Foreign
  <2>1. data' \in Versions /\ policy' \in Versions
    <3>1. data + 1 \in Versions \/ ~(data < MaxChanges)
        BY ReadModelConstants DEF Versions
    <3>2. policy + 1 \in Versions \/ ~(policy < MaxChanges)
        BY ReadModelConstants DEF Versions
    <3> QED
        BY <1>8, <3>1, <3>2 DEF Foreign
  <2>2. foreign' \in 0 .. MaxPerCall
      BY <1>8, ReadModelConstants DEF Foreign
  <2> QED
      BY <1>8, <2>1, <2>2 DEF Foreign
<1> QED
    BY <1>1, <1>2, <1>3, <1>4, <1>5, <1>6, <1>7, <1>8 DEF ReadModelNext

LEMMA ReadModelKeeps ==
    ASSUME MaxPerCall \in {0, 1}, ReadModelInv, [ReadModelNext]_readModelVars
    PROVE  ReadModelInv'
<1> DEFINE Parts == /\ CountedInv /\ RetryInv /\ SignedInv /\ PolicyReadInv
                    /\ HiddenReadInv /\ RowsReadInv /\ AfterInv
<1>1. CASE UNCHANGED readModelVars
    BY <1>1
       DEF readModelVars, ReadModelInv, ReadModelTypeOK, CountedInv, RetryInv, SignedInv,
           PolicyReadInv, HiddenReadInv, RowsReadInv, AfterInv, CacheInv
<1>2. CASE ReadModelNext
  <2> USE DEF ReadModelInv
  <2>1. ReadModelTypeOK'
      BY <1>2, TypeKeeps
  <2>2. /\ data \in Nat /\ policy \in Nat /\ after \in Nat /\ foreign \in Nat
        /\ before.data \in Nat /\ before.policy \in Nat
        /\ began.data \in Nat /\ began.policy \in Nat
        /\ got.policy \in Nat /\ got.hidden \in Nat /\ got.rows \in Nat
        /\ before = [data |-> before.data, policy |-> before.policy]
        /\ foreign <= MaxPerCall
      BY Numbers DEF ReadModelTypeOK
  <2>3. CASE Call
    <3>1. /\ phase' = "data" /\ ~retried' /\ foreign' = 0 /\ cache' = cache
          /\ data' = data /\ policy' = policy /\ began'.data = data /\ began'.policy = policy
        BY <2>3 DEF Call, Current, RetryInv
    <3>2. Parts'
        BY <2>2, <3>1
           DEF CountedInv, RetryInv, SignedInv, PolicyReadInv, HiddenReadInv, RowsReadInv,
               AfterInv
    <3>3. CacheInv'
        BY <3>1 DEF CacheInv
    <3> QED
        BY <2>1, <3>2, <3>3
  <2>10. CASE SignData
    <3>1. /\ phase = "data" /\ phase' = "policy" /\ before'.data = data
          /\ UNCHANGED <<data, policy, retried, began, foreign, cache>>
        BY <2>2, <2>10 DEF SignData
    <3>2. Parts'
        BY <2>2, <3>1
           DEF CountedInv, RetryInv, SignedInv, PolicyReadInv, HiddenReadInv, RowsReadInv,
               AfterInv
    <3>3. CacheInv'
        BY <3>1 DEF CacheInv
    <3> QED
        BY <2>1, <3>2, <3>3
  <2>11. CASE ReadPolicyFiles
    <3>1. /\ phase = "files" /\ phase' = "hidden" /\ before' = before
          /\ got'.policy = policy
          /\ UNCHANGED <<data, policy, retried, began, foreign, cache>>
        BY <2>2, <2>11 DEF ReadPolicyFiles
    <3>2. Parts'
        BY <2>2, <3>1
           DEF CountedInv, RetryInv, SignedInv, PolicyReadInv, HiddenReadInv, RowsReadInv,
               AfterInv
    <3>3. CacheInv'
        BY <3>1 DEF CacheInv
    <3> QED
        BY <2>1, <3>2, <3>3
  <2>12. CASE ReadTombstones
    <3>1. /\ phase = "hidden" /\ phase' = "rows" /\ before' = before
          /\ got'.policy = got.policy /\ got'.hidden = data
          /\ UNCHANGED <<data, policy, retried, began, foreign, cache>>
        BY <2>2, <2>12 DEF ReadTombstones
    <3>2. Parts'
        BY <2>2, <3>1
           DEF CountedInv, RetryInv, SignedInv, PolicyReadInv, HiddenReadInv, RowsReadInv,
               AfterInv
    <3>3. CacheInv'
        BY <3>1 DEF CacheInv
    <3> QED
        BY <2>1, <3>2, <3>3
  <2>13. CASE SelectSongs
    <3>1. /\ phase = "rows" /\ phase' = "dataAgain" /\ before' = before
          /\ got'.policy = got.policy /\ got'.hidden = got.hidden /\ got'.rows = data
          /\ UNCHANGED <<data, policy, retried, began, foreign, cache>>
        BY <2>2, <2>13 DEF SelectSongs
    <3>2. Parts'
        BY <2>2, <3>1
           DEF CountedInv, RetryInv, SignedInv, PolicyReadInv, HiddenReadInv, RowsReadInv,
               AfterInv
    <3>3. CacheInv'
        BY <3>1 DEF CacheInv
    <3> QED
        BY <2>1, <3>2, <3>3
  <2>14. CASE SignDataAfter
    <3>1. /\ phase = "dataAgain" /\ phase' = "policyAgain" /\ before' = before
          /\ got' = got /\ after' = data
          /\ UNCHANGED <<data, policy, retried, began, foreign, cache>>
        BY <2>2, <2>14 DEF SignDataAfter
    <3>2. Parts'
        BY <2>2, <3>1
           DEF CountedInv, RetryInv, SignedInv, PolicyReadInv, HiddenReadInv, RowsReadInv,
               AfterInv
    <3>3. CacheInv'
        BY <3>1 DEF CacheInv
    <3> QED
        BY <2>1, <3>2, <3>3
  <2>5. CASE SignPolicy
    <3>1. /\ phase = "policy" /\ UNCHANGED <<data, policy, began, foreign, cache>>
          /\ \/ phase' = "idle" /\ ~retried'
             \/ /\ phase' = "files" /\ retried' = retried
                /\ before'.policy = policy /\ before'.data = before.data
        BY <2>2, <2>5 DEF SignPolicy, Return
    <3>2. Parts'
        BY <2>2, <3>1
           DEF CountedInv, RetryInv, SignedInv, PolicyReadInv, HiddenReadInv, RowsReadInv,
               AfterInv
    <3>3. CacheInv'
        BY <3>1 DEF CacheInv
    <3> QED
        BY <2>1, <3>2, <3>3
  <2>6. CASE SignPolicyAfter
    <3>1. CASE ~retried /\ [data |-> after, policy |-> policy] # before
      <4>1. after # before.data \/ policy # before.policy
          BY <2>2, <3>1
      <4>2. foreign = MaxPerCall
        <5>1. /\ began.data <= before.data /\ began.policy <= before.policy
              /\ before.data <= after /\ after <= data /\ before.policy <= policy
            BY <2>2, <2>6
               DEF SignPolicyAfter, SignedInv, HiddenReadInv, RowsReadInv, AfterInv
        <5>2. foreign = (data - began.data) + (policy - began.policy)
            BY <2>6 DEF SignPolicyAfter, CountedInv
        <5>3. foreign >= 1
            BY <2>2, <4>1, <5>1, <5>2
        <5> QED
            BY <2>2, <5>3
      <4>3. /\ phase' = "files" /\ retried' /\ UNCHANGED <<data, policy, before, began>>
            /\ foreign' = foreign /\ cache' = cache /\ phase = "policyAgain"
          BY <2>6, <3>1 DEF SignPolicyAfter
      <4> QED
          BY <2>1, <2>2, <4>2, <4>3
             DEF CountedInv, RetryInv, SignedInv, PolicyReadInv, HiddenReadInv, RowsReadInv,
                 AfterInv, CacheInv
    <3>2. CASE retried \/ [data |-> after, policy |-> policy] = before
      <4>1. /\ phase' = "idle" /\ ~retried'
            /\ cache' = [valid |-> TRUE, sig |-> [data |-> after, policy |-> policy],
                         of |-> got]
          BY <2>6, <3>2 DEF SignPolicyAfter, Store, Return
      <4>2. got = [policy |-> policy, hidden |-> after, rows |-> after]
          BY <2>6, <3>2, ReadOfOneInstant DEF SignPolicyAfter
      <4> QED
          BY <2>1, <4>1, <4>2
             DEF CountedInv, RetryInv, SignedInv, PolicyReadInv, HiddenReadInv, RowsReadInv,
                 AfterInv, CacheInv
    <3> QED
        BY <3>1, <3>2
  <2>7. CASE OwnWrite
      BY <2>1, <2>7
         DEF OwnWrite, NoCache, CountedInv, RetryInv, SignedInv, PolicyReadInv, HiddenReadInv,
             RowsReadInv, AfterInv, CacheInv
  <2>8. CASE Foreign
    <3>1. CASE phase = "idle"
        BY <2>1, <2>8, <3>1
           DEF Foreign, CountedInv, RetryInv, SignedInv, PolicyReadInv, HiddenReadInv,
               RowsReadInv, AfterInv, CacheInv
    <3>2. CASE phase # "idle"
      <4>1. foreign < MaxPerCall /\ ~retried
          BY <2>2, <2>8, <3>2 DEF Foreign, RetryInv
      <4>2. /\ data' \in Nat /\ policy' \in Nat /\ data <= data' /\ policy <= policy'
            /\ foreign' - foreign = (data' - data) + (policy' - policy)
            /\ UNCHANGED <<phase, retried, before, after, got, began, cache>>
          BY <2>2, <2>8, <3>2 DEF Foreign
      <4>3. foreign' \in Nat
          BY <2>1, ReadModelConstants DEF ReadModelTypeOK
      <4>4. Parts'
        <5>1. CountedInv'
            BY <2>2, <4>2, <4>3 DEF CountedInv
        <5>2. RetryInv' /\ SignedInv'
            BY <2>2, <4>1, <4>2 DEF RetryInv, SignedInv
        <5>3. PolicyReadInv' /\ HiddenReadInv' /\ RowsReadInv' /\ AfterInv'
            BY <2>2, <4>1, <4>2
               DEF PolicyReadInv, HiddenReadInv, RowsReadInv, AfterInv
        <5> QED
            BY <5>1, <5>2, <5>3
      <4>5. CacheInv'
          BY <4>2 DEF CacheInv
      <4> QED
          BY <2>1, <4>4, <4>5
    <3> QED
        BY <3>1, <3>2
  <2> QED
      BY <1>2, <2>1, <2>3, <2>5, <2>6, <2>7, <2>8, <2>10, <2>11, <2>12, <2>13, <2>14
         DEF ReadModelNext
<1> QED
    BY <1>1, <1>2

LEMMA ReadModelInvariant ==
    ASSUME MaxPerCall \in {0, 1}
    PROVE  ReadModelSpec => []ReadModelInv
<1>1. ReadModelInv /\ [ReadModelNext]_readModelVars => ReadModelInv'
    BY ReadModelKeeps
<1> QED
    BY <1>1, ReadModelBegins, PTL DEF ReadModelSpec

-----------------------------------------------------------------------------
\* visibleSongRowsSnapshot returns songs and tombstones of one instant, not
\* older than its call, if others change something at most once meanwhile.
THEOREM AnswersOneInstant ==
    ASSUME MaxPerCall \in {0, 1}
    PROVE  ReadModelSpec => AnswerOfOneInstant
<1>1. ASSUME ReadModelInv, [ReadModelNext]_readModelVars
      PROVE  [phase # "idle" /\ phase' = "idle" =>
                /\ answer'.hidden = answer'.rows
                /\ answer'.rows >= began.data
                /\ answer'.policy >= began.policy]_readModelVars
  <2> SUFFICES ASSUME ReadModelNext, phase # "idle", phase' = "idle"
               PROVE  /\ answer'.hidden = answer'.rows
                      /\ answer'.rows >= began.data
                      /\ answer'.policy >= began.policy
      BY <1>1
  <2> USE <1>1 DEF ReadModelInv
  <2>1. /\ data \in Nat /\ policy \in Nat /\ after \in Nat
        /\ before.data \in Nat /\ before.policy \in Nat
        /\ began.data \in Nat /\ began.policy \in Nat
        /\ got.policy \in Nat /\ got.hidden \in Nat /\ got.rows \in Nat
        /\ before = [data |-> before.data, policy |-> before.policy]
      BY Numbers
  <2>2. CASE SignPolicy
    <3>1. answer' = cache.of /\ cache.valid /\ cache.sig = [before EXCEPT !.policy = policy]
        BY <2>2 DEF SignPolicy, Return
    <3>2. /\ answer'.hidden = before.data /\ answer'.rows = before.data
          /\ answer'.policy = policy
        BY <2>1, <3>1 DEF CacheInv
    <3> QED
        BY <2>1, <2>2, <3>2 DEF SignPolicy, SignedInv, CountedInv
  <2>3. CASE SignPolicyAfter
    <3>1. answer' = got /\ (retried \/ [data |-> after, policy |-> policy] = before)
        BY <2>3 DEF SignPolicyAfter, Return
    <3>2. got.hidden = after /\ got.rows = after /\ got.policy = policy
      <4>1. got = [policy |-> policy, hidden |-> after, rows |-> after]
          BY <2>3, <3>1, ReadOfOneInstant DEF SignPolicyAfter
      <4> QED
          BY <4>1
    <3>3. began.data <= after /\ began.policy <= policy
        BY <2>1, <2>3, <3>2
           DEF SignPolicyAfter, SignedInv, HiddenReadInv, RowsReadInv, CountedInv
    <3> QED
        BY <2>1, <3>1, <3>2, <3>3
  <2> QED
      BY <2>2, <2>3
         DEF ReadModelNext, Call, SignData, ReadPolicyFiles, ReadTombstones, SelectSongs,
             SignDataAfter, OwnWrite, Foreign
<1> QED
    BY <1>1, ReadModelInvariant, PTL DEF ReadModelSpec, AnswerOfOneInstant

\* Under the same condition rows a call would take from the cache are those
\* of the database and the policy files as they are.
THEOREM HitsAreCurrent ==
    ASSUME MaxPerCall \in {0, 1}
    PROVE  ReadModelSpec => []HitIsCurrent
<1>1. ReadModelInv => HitIsCurrent
    BY DEF ReadModelInv, CacheInv, HitIsCurrent, Current
<1> QED
    BY <1>1, ReadModelInvariant, PTL

-----------------------------------------------------------------------------
(***************************************************************************)
(* Transport, for any notes, loops, passages and lookahead.  What is       *)
(* inductive is that the sound of a player that runs is near its playhead, *)
(* that a paused player has none, and that a target is open, missed or     *)
(* taken.                                                                  *)
(***************************************************************************)

\* A target is open, missed or taken, and what is counted are these sets.
TargetsCounted ==
    passage # NoRange =>
      /\ open \cup gone \cup taken = TargetsOf(passage.range)
      /\ open \cap gone = {} /\ open \cap taken = {} /\ gone \cap taken = {}
      /\ scored = Cardinality(taken) /\ missed = Cardinality(gone)

AttackedOnce ==
    \A n \in Notes : sounds[n] = IF origin <= n.at /\ n.at < last THEN 1 ELSE 0

\* How far the sound of a player that runs may be from its playhead.
SoundNear ==
    /\ Earlier(time, EndpointOf(loop, passage)) <= last
    /\ last <= Later(origin, Earlier(time + Lookahead, EndpointOf(loop, passage)))

\* A player that runs has sound near its playhead, whatever was answered;
\* a paused one has no sound, unless an answer has scheduled it.
SoundInv ==
    /\ playing => SoundNear
    /\ ~waited => /\ AttackedOnce
                  /\ origin <= last
                  /\ ~playing => origin = last

TransportInv == TransportTypeOK /\ TargetsCounted /\ SoundInv

-----------------------------------------------------------------------------
LEMMA TransportBegins == TransportInit => TransportInv
<1> SUFFICES ASSUME TransportInit PROVE TransportInv
    OBVIOUS
<1> USE TransportConstants DEF TransportInit
<1>1. Cardinality(Notes) \in Nat
    BY FS_CardinalityType
<1>2. TransportTypeOK
    <2>1. 0 \in Times /\ 1 \in Tolerances /\ 0 \in 0 .. Cardinality(Notes)
        BY <1>1 DEF Times, Tolerances
    <2>2. sounds \in [Notes -> 0 .. 2]
        BY DEF Silence
    <2> QED BY <2>1, <2>2 DEF TransportTypeOK
<1>3. SoundInv
    BY DEF SoundInv, AttackedOnce, Silence
<1> QED BY <1>2, <1>3 DEF TransportInv, TargetsCounted

\* Where the sound ends lies within the song.
LEMMA EndpointTyped ==
    ASSUME TransportTypeOK, NEW l \in Regions \cup {NoRange}
    PROVE  EndpointOf(l, passage) \in 0 .. Duration
BY TransportConstants DEF TransportTypeOK, EndpointOf

\* Scheduling keeps the types, whatever sounded before.
LEMMA ScheduleTypes ==
    ASSUME TransportTypeOK, NEW t \in Times, NEW l \in Regions \cup {NoRange},
           Schedules(sounds, t, t, l)
    PROVE  last' \in Times /\ sounds' \in [Notes -> 0 .. 2]
<1> DEFINE end == EndpointOf(l, passage)
<1>1. end \in 0 .. Duration /\ sounds \in [Notes -> 0 .. 2]
    BY EndpointTyped DEF TransportTypeOK
<1> HIDE DEF end
<1>2. /\ last' = Later(t, Earlier(t + Lookahead, end))
      /\ sounds' = [n \in Notes |-> IF t <= n.at /\ n.at < Earlier(t + Lookahead, end)
                                    THEN Earlier(sounds[n] + 1, 2) ELSE sounds[n]]
    BY DEF Schedules, end
<1>3. last' \in Times
    BY <1>1, <1>2, TransportConstants DEF Times, Later, Earlier
<1>4. sounds' \in [Notes -> 0 .. 2]
    BY <1>1, <1>2, TransportConstants DEF Earlier
<1> QED BY <1>3, <1>4

\* Sound that begins anew at t attacks every note of its window once.
LEMMA Restarted ==
    ASSUME TransportTypeOK, NEW t \in Times, NEW l \in Regions \cup {NoRange},
           Schedules(Silence, t, t, l), origin' = t,
           time' = t, loop' = l, UNCHANGED passage
    PROVE  /\ last' \in Times /\ origin' \in Times /\ sounds' \in [Notes -> 0 .. 2]
           /\ AttackedOnce' /\ origin' <= last' /\ SoundNear'
<1> DEFINE end == EndpointOf(l, passage)
<1>1. end \in 0 .. Duration
    BY EndpointTyped
<1>2. end' = EndpointOf(loop, passage)' /\ EndpointOf(loop, passage)' = end
    BY DEF EndpointOf
<1> USE TransportConstants
<1> HIDE DEF end
<1>3. /\ last' = Later(t, Earlier(t + Lookahead, end))
      /\ sounds' = [n \in Notes |-> IF t <= n.at /\ n.at < Earlier(t + Lookahead, end)
                                    THEN Earlier(0 + 1, 2) ELSE 0]
    BY DEF Schedules, Silence, end
<1>4. last' \in Times /\ origin' \in Times /\ origin' <= last'
    BY <1>1, <1>3 DEF Times, Later, Earlier
<1>5. sounds' \in [Notes -> 0 .. 2]
    BY <1>3 DEF Earlier
<1>6. AttackedOnce'
    <2> SUFFICES ASSUME NEW n \in Notes
                 PROVE  sounds'[n] = IF origin' <= n.at /\ n.at < last' THEN 1 ELSE 0
        BY DEF AttackedOnce
    <2>1. n.at \in Nat
        OBVIOUS
    <2> QED BY <1>1, <1>3, <2>1 DEF Later, Earlier, Times
<1>7. SoundNear'
    BY <1>1, <1>2, <1>3 DEF SoundNear, Later, Earlier, Times
<1> QED BY <1>4, <1>5, <1>6, <1>7

\* After cancelAll nothing sounds, wherever the schedule was moved to.
LEMMA Silenced ==
    ASSUME NEW t \in Times, last' = t, origin' = t, sounds' = Silence
    PROVE  /\ last' \in Times /\ origin' \in Times /\ sounds' \in [Notes -> 0 .. 2]
           /\ AttackedOnce' /\ origin' <= last'
<1>1. Times \subseteq Int
    BY TransportConstants DEF Times
<1>2. ASSUME NEW n \in Notes
      PROVE  sounds'[n] = IF origin' <= n.at /\ n.at < last' THEN 1 ELSE 0
    <2>1. n.at \in Nat /\ t \in Int
        BY <1>1, TransportConstants
    <2> QED BY <2>1 DEF Silence
<1> QED BY <1>1, <1>2 DEF AttackedOnce, Silence

\* A frame without a gap adds the notes between its windows.
LEMMA Continued ==
    ASSUME TransportInv, playing, NEW t \in Times, t >= time, time' = t,
           Schedules(sounds, last, t, loop), UNCHANGED <<origin, waited, loop, passage>>
    PROVE  /\ last' \in Times /\ sounds' \in [Notes -> 0 .. 2]
           /\ ~waited' => AttackedOnce' /\ origin' <= last'
           /\ SoundNear'
<1> DEFINE end == EndpointOf(loop, passage)
<1> USE TransportConstants
<1>0. /\ TransportTypeOK /\ SoundInv
      /\ last \in Times /\ time \in Times /\ origin \in Times /\ sounds \in [Notes -> 0 .. 2]
    BY DEF TransportInv, TransportTypeOK
<1>1. end \in 0 .. Duration
    BY <1>0, EndpointTyped DEF TransportTypeOK
<1>2. EndpointOf(loop, passage)' = end
    BY DEF EndpointOf
<1>a. /\ ~waited => AttackedOnce /\ origin <= last
      /\ Earlier(time, end) <= last /\ last <= Later(origin, Earlier(time + Lookahead, end))
    BY <1>0 DEF SoundInv, SoundNear
<1> HIDE DEF end
<1>3. /\ last' = Later(last, Earlier(t + Lookahead, end))
      /\ sounds' = [n \in Notes |-> IF last <= n.at /\ n.at < Earlier(t + Lookahead, end)
                                    THEN Earlier(sounds[n] + 1, 2) ELSE sounds[n]]
    BY DEF Schedules, end
<1>4. last' \in Times
    BY <1>0, <1>1, <1>3 DEF Times, Later, Earlier
<1>5. sounds' \in [Notes -> 0 .. 2]
    BY <1>0, <1>3 DEF Earlier
<1>6. ASSUME ~waited' PROVE AttackedOnce'
    <2> SUFFICES ASSUME NEW n \in Notes
                 PROVE  sounds'[n] = IF origin' <= n.at /\ n.at < last' THEN 1 ELSE 0
        BY DEF AttackedOnce
    <2>1. n.at \in Nat /\ last \in Int /\ t \in Int /\ origin \in Int /\ end \in Int
        BY <1>0, <1>1 DEF Times
    <2>2. sounds[n] = IF origin <= n.at /\ n.at < last THEN 1 ELSE 0
        BY <1>a, <1>6 DEF AttackedOnce
    <2> QED BY <1>3, <1>a, <1>6, <2>1, <2>2 DEF Later, Earlier
<1>7. ASSUME ~waited' PROVE origin' <= last'
    BY <1>0, <1>1, <1>a, <1>3, <1>7 DEF Later, Earlier, Times
<1>8. SoundNear'
    BY <1>0, <1>1, <1>a, <1>2, <1>3 DEF SoundNear, Later, Earlier, Times
<1> QED BY <1>4, <1>5, <1>6, <1>7, <1>8

-----------------------------------------------------------------------------
\* Calls that leave the grader alone keep what it has counted.
LEMMA GraderKept ==
    ASSUME TransportInv, UNCHANGED grader
    PROVE  TargetsCounted'
BY DEF TransportInv, TargetsCounted, grader

LEMMA StartKeeps == ASSUME TransportInv, Start PROVE TransportInv'
<1>0. TransportTypeOK /\ SoundInv
    BY DEF TransportInv
<1>1. /\ UNCHANGED <<time, loop, wait, waited, grader, passage>> /\ playing' = TRUE
      /\ origin' = time /\ Schedules(sounds, time, time, loop) /\ ~playing
    BY DEF Start, grader
<1>2. time \in Times /\ loop \in Regions \cup {NoRange} /\ sounds \in [Notes -> 0 .. 2]
    BY <1>0 DEF TransportTypeOK
<1>3. last' \in Times /\ sounds' \in [Notes -> 0 .. 2]
    BY <1>0, <1>1, <1>2, ScheduleTypes
<1>4. SoundInv'
    <2>0. SoundNear'
        <3>1. EndpointOf(loop, passage)' = EndpointOf(loop, passage)
            BY <1>1 DEF EndpointOf
        <3>2. EndpointOf(loop, passage) \in 0 .. Duration
            BY <1>0, <1>2, EndpointTyped
        <3>3. last' = Later(time, Earlier(time + Lookahead, EndpointOf(loop, passage)))
            BY <1>1 DEF Schedules
        <3> HIDE DEF EndpointOf
        <3> QED BY <1>1, <1>2, <3>1, <3>2, <3>3, TransportConstants
                DEF SoundNear, Later, Earlier, Times
    <2> SUFFICES ASSUME ~waited' PROVE (AttackedOnce /\ origin <= last)'
        BY <1>1, <2>0 DEF SoundInv
    <2>1. AttackedOnce /\ origin = last
        BY <1>0, <1>1 DEF SoundInv
    <2>2. \A n \in Notes : sounds[n] = 0
        <3> SUFFICES ASSUME NEW n \in Notes PROVE sounds[n] = 0
            OBVIOUS
        <3>1. n.at \in Nat /\ last \in Int
            BY <1>0, TransportConstants DEF TransportTypeOK, Times
        <3> QED BY <2>1, <3>1 DEF AttackedOnce
    <2>3. sounds = Silence
        BY <1>2, <2>2 DEF Silence
    <2> QED BY <1>0, <1>1, <1>2, <2>3, Restarted
<1>5. TransportTypeOK'
    BY <1>0, <1>1, <1>2, <1>3 DEF TransportTypeOK, grader
<1> QED BY <1>1, <1>4, <1>5, GraderKept DEF TransportInv

\* A paused player after cancelAll.
LEMMA QuietFits ==
    ASSUME NEW t \in Times, Quiet(t), playing' = FALSE
    PROVE  /\ last' \in Times /\ origin' \in Times /\ sounds' \in [Notes -> 0 .. 2]
           /\ waited' = FALSE /\ SoundInv'
<1>1. last' = t /\ origin' = t /\ waited' = FALSE /\ sounds' = Silence
    BY DEF Quiet, Silences
<1> QED BY <1>1, Silenced DEF SoundInv

LEMMA StopKeeps == ASSUME TransportInv, Stop PROVE TransportInv'
<1>0. TransportTypeOK /\ last \in Times
    BY DEF TransportInv, TransportTypeOK
<1>1. playing' = FALSE /\ Quiet(last) /\ UNCHANGED <<time, loop, wait, grader>>
    BY DEF Stop
<1>2. /\ last' \in Times /\ origin' \in Times /\ sounds' \in [Notes -> 0 .. 2]
      /\ waited' = FALSE /\ SoundInv'
    BY <1>0, <1>1, QuietFits
<1>3. TransportTypeOK'
    BY <1>0, <1>1, <1>2 DEF TransportTypeOK, grader
<1> QED BY <1>1, <1>2, <1>3, GraderKept DEF TransportInv

LEMMA RestartFits ==
    ASSUME TransportTypeOK, NEW t \in Times, NEW l \in Regions \cup {NoRange},
           Restarts(t, l), time' = t, loop' = l, UNCHANGED passage, playing' = TRUE
    PROVE  /\ last' \in Times /\ origin' \in Times /\ sounds' \in [Notes -> 0 .. 2]
           /\ waited' = FALSE /\ SoundInv'
<1>1. Schedules(Silence, t, t, l) /\ origin' = t /\ waited' = FALSE
    BY DEF Restarts, Silences
<1> QED BY <1>1, Restarted DEF SoundInv

LEMMA SeekPausedFits ==
    ASSUME TransportInv, ~playing, NEW t \in Times, Seeks(t, FALSE), playing' = FALSE
    PROVE  /\ last' \in Times /\ origin' \in Times /\ sounds' \in [Notes -> 0 .. 2]
           /\ waited' \in BOOLEAN /\ SoundInv'
<1>0. SoundInv /\ waited \in BOOLEAN /\ sounds \in [Notes -> 0 .. 2] /\ last \in Int /\ t \in Int
    BY TransportConstants DEF TransportInv, TransportTypeOK, Times
<1>1. last' = t /\ origin' = t /\ UNCHANGED <<sounds, waited>>
    BY DEF Seeks
<1>2. ASSUME ~waited PROVE sounds = Silence
    <2>1. AttackedOnce /\ origin = last
        BY <1>0, <1>2 DEF SoundInv
    <2>2. ASSUME NEW n \in Notes PROVE sounds[n] = 0
        <3>1. n.at \in Nat
            BY TransportConstants
        <3> QED BY <1>0, <2>1, <3>1 DEF AttackedOnce
    <2> QED BY <1>0, <2>2 DEF Silence
<1>3. ~waited' => AttackedOnce' /\ origin' <= last'
    BY <1>1, <1>2, Silenced
<1> QED BY <1>0, <1>1, <1>3 DEF SoundInv

LEMMA SeekKeeps == ASSUME TransportInv, Seek PROVE TransportInv'
<1>0. TransportTypeOK
    BY DEF TransportInv
<1>1. PICK t \in 0 .. Duration : time' = t /\ Seeks(t, playing)
    BY DEF Seek
<1>2. UNCHANGED <<playing, loop, wait, grader, passage>>
    BY DEF Seek, grader
<1>3. t \in Times /\ loop \in Regions \cup {NoRange} /\ playing \in BOOLEAN
    BY <1>0, TransportConstants DEF Times, TransportTypeOK
<1>4. /\ last' \in Times /\ origin' \in Times /\ sounds' \in [Notes -> 0 .. 2]
      /\ waited' \in BOOLEAN /\ SoundInv'
    <2>1. CASE playing
        <3>1. Restarts(t, loop)
            BY <1>1, <2>1 DEF Seeks
        <3> QED BY <1>0, <1>1, <1>2, <1>3, <2>1, <3>1, RestartFits
    <2>2. CASE ~playing
        <3>1. Seeks(t, FALSE) /\ playing' = FALSE
            BY <1>1, <1>2, <1>3, <2>2
        <3> QED BY <1>3, <2>2, <3>1, SeekPausedFits
    <2> QED BY <2>1, <2>2
<1>5. TransportTypeOK'
    BY <1>0, <1>1, <1>2, <1>3, <1>4 DEF TransportTypeOK, grader
<1> QED BY <1>2, <1>4, <1>5, GraderKept DEF TransportInv

LEMMA ReinstallKeeps == ASSUME TransportInv, Reinstall PROVE TransportInv'
<1>0. TransportTypeOK /\ time \in Times /\ loop \in Regions \cup {NoRange}
    BY DEF TransportInv, TransportTypeOK
<1>1. Restarts(time, loop) /\ playing /\ UNCHANGED <<time, playing, loop, wait, grader, passage>>
    BY DEF Reinstall, player, grader
<1>2. playing' = TRUE
    BY <1>0, <1>1 DEF TransportTypeOK
<1>3. /\ last' \in Times /\ origin' \in Times /\ sounds' \in [Notes -> 0 .. 2]
      /\ waited' = FALSE /\ SoundInv'
    BY <1>0, <1>1, <1>2, RestartFits
<1>4. TransportTypeOK'
    BY <1>0, <1>1, <1>3 DEF TransportTypeOK, grader
<1> QED BY <1>1, <1>3, <1>4, GraderKept DEF TransportInv

LEMMA SoundStays ==
    ASSUME TransportInv, UNCHANGED <<sound, playing, time, loop, passage>>
    PROVE  SoundInv'
BY DEF TransportInv, SoundInv, sound, AttackedOnce, SoundNear, EndpointOf

LEMMA SetSettingsKeeps == ASSUME TransportInv, SetSettings PROVE TransportInv'
<1>0. TransportTypeOK /\ time \in Times /\ playing \in BOOLEAN /\ loop \in Regions \cup {NoRange}
    BY DEF TransportInv, TransportTypeOK
<1>1. /\ UNCHANGED <<time, playing, loop, wait, passage, open, gone, scored, missed, taken>>
      /\ tolerance' \in Tolerances
      /\ IF playing THEN Quiet(time) ELSE UNCHANGED sound
    BY <1>0 DEF SetSettings, player, TransportTypeOK
<1>2. /\ last' \in Times /\ origin' \in Times /\ sounds' \in [Notes -> 0 .. 2]
      /\ waited' \in BOOLEAN /\ SoundInv'
    <2>1. CASE playing
        <3>1. last' = time /\ origin' = time /\ waited' = FALSE /\ sounds' = Silence
            BY <1>1, <2>1 DEF Quiet, Silences
        <3>2. /\ last' \in Times /\ origin' \in Times /\ sounds' \in [Notes -> 0 .. 2]
              /\ AttackedOnce' /\ origin' <= last'
            BY <1>0, <3>1, Silenced
        <3>3. SoundNear'
            <4>1. EndpointOf(loop, passage)' \in 0 .. Duration
                BY <1>0, <1>1, EndpointTyped DEF EndpointOf
            <4> QED BY <1>0, <1>1, <3>1, <4>1, TransportConstants
                    DEF SoundNear, Later, Earlier, Times
        <3> QED BY <1>1, <2>1, <3>1, <3>2, <3>3 DEF SoundInv
    <2>2. CASE ~playing
        <3>1. UNCHANGED <<sound, last, origin, sounds, waited>>
            BY <1>1, <2>2 DEF sound
        <3> QED BY <1>0, <1>1, <3>1, SoundStays DEF TransportTypeOK
    <2> QED BY <2>1, <2>2
<1>3. TransportTypeOK'
    BY <1>0, <1>1, <1>2 DEF TransportTypeOK
<1>4. TargetsCounted'
    BY <1>1 DEF TransportInv, TargetsCounted
<1> QED BY <1>2, <1>3, <1>4 DEF TransportInv

LEMMA SetLoopKeeps == ASSUME TransportInv, SetLoop PROVE TransportInv'
<1>0. TransportTypeOK /\ time \in Times /\ playing \in BOOLEAN
    BY DEF TransportInv, TransportTypeOK
<1>1. PICK l \in Regions \cup {NoRange} :
        loop' = l /\ IF playing THEN Restarts(time, l) ELSE UNCHANGED sound
    BY DEF SetLoop
<1>2. UNCHANGED <<time, playing, wait, grader, passage>>
    BY DEF SetLoop, grader
<1>3. /\ last' \in Times /\ origin' \in Times /\ sounds' \in [Notes -> 0 .. 2]
      /\ waited' \in BOOLEAN /\ SoundInv'
    <2>1. CASE playing
        BY <1>0, <1>1, <1>2, <2>1, RestartFits
    <2>2. CASE ~playing
        <3>1. UNCHANGED <<last, origin, sounds, waited>>
            BY <1>1, <2>2 DEF sound
        <3> QED BY <1>0, <1>2, <2>2, <3>1
                DEF TransportInv, TransportTypeOK, SoundInv, AttackedOnce
    <2> QED BY <2>1, <2>2
<1>4. TransportTypeOK'
    BY <1>0, <1>1, <1>2, <1>3 DEF TransportTypeOK, grader
<1> QED BY <1>2, <1>3, <1>4, GraderKept DEF TransportInv

LEMMA SetWaitModeKeeps == ASSUME TransportInv, SetWaitMode PROVE TransportInv'
<1>1. UNCHANGED <<time, playing, loop, sound, grader, passage>> /\ wait' \in BOOLEAN
    BY DEF SetWaitMode, grader
<1>2. TransportTypeOK'
    BY <1>1 DEF TransportInv, TransportTypeOK, grader, sound
<1> QED BY <1>1, <1>2, SoundStays, GraderKept DEF TransportInv

-----------------------------------------------------------------------------
LEMMA FinishKeeps ==
    ASSUME TransportInv, NEW t \in Times, NEW h \in Times, Finishes(t, h)
    PROVE  TransportInv'
<1>0. TransportTypeOK
    BY DEF TransportInv
<1>1. /\ time' = t /\ playing' = FALSE /\ wait' = FALSE /\ Quiet(h) /\ loop' = loop
      /\ passage' = NoRange /\ open' = {} /\ gone' = {} /\ taken' = {}
      /\ scored' = 0 /\ missed' = 0 /\ tolerance' = tolerance
    BY DEF Finishes, Ungraded
<1>2. /\ last' \in Times /\ origin' \in Times /\ sounds' \in [Notes -> 0 .. 2]
      /\ waited' = FALSE /\ SoundInv'
    BY <1>1, QuietFits
<1>3. 0 \in 0 .. Cardinality(Notes)
    BY FS_CardinalityType, TransportConstants
<1>4. {scored', missed'} \subseteq 0 .. Cardinality(Notes)
    BY <1>1, <1>3
<1>5. TransportTypeOK'
    BY <1>0, <1>1, <1>2, <1>4 DEF TransportTypeOK
<1> QED BY <1>1, <1>2, <1>5 DEF TransportInv, TargetsCounted

LEMMA FinishGradingKeeps == ASSUME TransportInv, FinishGrading PROVE TransportInv'
<1>1. time \in Times /\ last \in Times
    BY DEF TransportInv, TransportTypeOK
<1> QED BY <1>1, FinishKeeps DEF FinishGrading

\* The targets of a passage are finitely many, and so are the parts of them.
LEMMA TargetsFinite ==
    ASSUME TransportInv
    PROVE  /\ IsFiniteSet(open) /\ IsFiniteSet(gone) /\ IsFiniteSet(taken)
           /\ Cardinality(open) \in Nat /\ Cardinality(gone) \in Nat
           /\ Cardinality(taken) \in Nat /\ Cardinality(Notes) \in Nat
<1>1. {open, gone, taken} \subseteq SUBSET Notes /\ IsFiniteSet(Notes)
    BY TransportConstants DEF TransportInv, TransportTypeOK
<1>2. IsFiniteSet(open) /\ IsFiniteSet(gone) /\ IsFiniteSet(taken)
    BY <1>1, FS_Subset
<1> QED BY <1>1, <1>2, FS_CardinalityType

\* A part of the notes has no more members than the notes.
LEMMA CountFits ==
    ASSUME NEW S \in SUBSET Notes
    PROVE  Cardinality(S) \in 0 .. Cardinality(Notes)
<1>1. IsFiniteSet(S) /\ Cardinality(S) <= Cardinality(Notes) /\ IsFiniteSet(Notes)
    BY TransportConstants, FS_Subset
<1> QED BY <1>1, FS_CardinalityType

LEMMA ExpireKeeps ==
    ASSUME TransportInv, passage # NoRange, NEW t \in Times, Expire(t)
    PROVE  /\ TargetsCounted'
           /\ {open', gone', taken'} \subseteq SUBSET Notes
           /\ {scored', missed'} \subseteq 0 .. Cardinality(Notes)
           /\ UNCHANGED <<passage, tolerance>>
<1> DEFINE over == {n \in open : t - n.at > tolerance}
<1>1. /\ open' = open \ over /\ gone' = gone \cup over
      /\ missed' = missed + Cardinality(over)
      /\ UNCHANGED <<passage, tolerance, scored, taken>>
    BY DEF Expire
<1>2. over \subseteq open
    OBVIOUS
<1> HIDE DEF over
<1>3. /\ {open, gone, taken} \subseteq SUBSET Notes /\ TargetsCounted
      /\ {scored, missed} \subseteq 0 .. Cardinality(Notes)
    BY DEF TransportInv, TransportTypeOK
<1>4. gone \cap over = {} /\ missed = Cardinality(gone)
    BY <1>2, <1>3 DEF TargetsCounted
<1>5. Cardinality(gone \cup over) = Cardinality(gone) + Cardinality(over)
    <2>1. IsFiniteSet(over) /\ IsFiniteSet(gone) /\ IsFiniteSet(open)
        BY <1>2, TargetsFinite, FS_Subset
    <2>2. Cardinality(gone \cap over) = 0
        BY <1>4, FS_EmptySet
    <2>3. Cardinality(gone) \in Nat /\ Cardinality(over) \in Nat
        BY <2>1, FS_CardinalityType
    <2>4. Cardinality(gone \cup over)
            = Cardinality(gone) + Cardinality(over) - Cardinality(gone \cap over)
        BY <2>1, FS_Union
    <2> QED BY <2>2, <2>3, <2>4
<1>6. missed' = Cardinality(gone')
    BY <1>1, <1>4, <1>5
<1>7. gone' \in SUBSET Notes /\ open' \in SUBSET Notes
    BY <1>1, <1>2, <1>3
<1>8. TargetsCounted'
    BY <1>1, <1>2, <1>3, <1>6 DEF TargetsCounted
<1>9. missed' \in 0 .. Cardinality(Notes)
    BY <1>6, <1>7, CountFits
<1> QED BY <1>1, <1>3, <1>7, <1>8, <1>9

\* A frame stays in the loop, and one that does not wrap moves ahead.
LEMMA Advances ==
    ASSUME TransportInv, NEW dt \in Frames,
           passage # NoRange => time + dt < passage.range.to + passage.tail,
           Advanced(dt) >= Duration => loop # NoRange \/ passage # NoRange
    PROVE  Advanced(dt) \in Times /\ (~Skips(dt) => Advanced(dt) >= time)
<1>0. time \in 0 .. Duration + Tail /\ loop \in Regions \cup {NoRange} /\ dt \in Nat
    BY TransportConstants DEF TransportInv, TransportTypeOK, Times, Frames
<1>1. ~Skips(dt) => Advanced(dt) = time + dt
    BY DEF Skips
<1>2. CASE loop # NoRange /\ passage = NoRange /\ time + dt >= loop.to
    <2>1. loop.from \in Nat /\ loop.to \in Nat /\ loop.from < loop.to /\ loop.to <= Duration
        BY <1>0, <1>2, TransportConstants
    <2> DEFINE x == time + dt - loop.from
               d == loop.to - loop.from
    <2>2. x \in Int /\ d \in Nat \ {0}
        BY <1>0, <2>1
    <2>3. Advanced(dt) = loop.from + (x % d)
        BY <1>2 DEF Advanced
    <2> HIDE DEF x
    <2>4. x % d \in 0 .. d - 1
        <3> HIDE DEF d
        <3> QED BY <2>2
    <2>5. Advanced(dt) \in Times
        BY <2>1, <2>3, <2>4, TransportConstants DEF Times
    <2> QED BY <1>0, <1>1, <2>5
<1>3. CASE ~(loop # NoRange /\ passage = NoRange /\ time + dt >= loop.to)
    <2>1. Advanced(dt) = time + dt
        BY <1>3 DEF Advanced
    <2>2. CASE passage # NoRange
        <3>1. passage.range.to <= Duration /\ passage.tail <= Tail
              /\ passage.range.to \in Nat /\ passage.tail \in Nat
            BY <2>2, TransportConstants DEF TransportInv, TransportTypeOK
        <3> QED BY <1>0, <2>1, <2>2, <3>1, TransportConstants DEF Times
    <2>3. CASE passage = NoRange /\ loop # NoRange
        <3>1. loop.to \in 0 .. Duration /\ time + dt < loop.to
            BY <1>0, <1>3, <2>3, TransportConstants
        <3> QED BY <1>0, <2>1, <3>1, TransportConstants DEF Times
    <2>4. CASE passage = NoRange /\ loop = NoRange
        <3>1. time + dt < Duration
            BY <1>0, <2>1, <2>4, TransportConstants
        <3> QED BY <1>0, <2>1, <3>1, TransportConstants DEF Times
    <2> QED BY <2>2, <2>3, <2>4
<1> QED BY <1>2, <1>3

LEMMA TickKeeps == ASSUME TransportInv, NEW dt \in Frames, Tick(dt) PROVE TransportInv'
<1>0. TransportTypeOK /\ last \in Times /\ loop \in Regions \cup {NoRange}
      /\ playing \in BOOLEAN /\ playing
    BY DEF TransportInv, TransportTypeOK, Tick
<1>1. CASE passage # NoRange /\ time + dt >= passage.range.to + passage.tail
    <2>1. Finishes(passage.range.to, last)
        BY <1>1 DEF Tick
    <2>2. passage.range.to \in Times
        BY <1>1, TransportConstants DEF TransportInv, TransportTypeOK, Times
    <2> QED BY <1>0, <2>1, <2>2, FinishKeeps
<1>2. CASE /\ ~(passage # NoRange /\ time + dt >= passage.range.to + passage.tail)
           /\ Advanced(dt) >= Duration /\ loop = NoRange /\ passage = NoRange
    <2>1. /\ playing' = FALSE /\ time' = 0 /\ Quiet(0)
          /\ UNCHANGED <<loop, wait, grader>>
        BY <1>2 DEF Tick
    <2>2. 0 \in Times
        BY TransportConstants DEF Times
    <2>3. /\ last' \in Times /\ origin' \in Times /\ sounds' \in [Notes -> 0 .. 2]
          /\ waited' = FALSE /\ SoundInv'
        BY <2>1, <2>2, QuietFits
    <2>4. TransportTypeOK'
        BY <1>0, <2>1, <2>2, <2>3 DEF TransportTypeOK, grader
    <2> QED BY <2>1, <2>3, <2>4, GraderKept DEF TransportInv
<1>3. CASE /\ ~(passage # NoRange /\ time + dt >= passage.range.to + passage.tail)
           /\ ~(Advanced(dt) >= Duration /\ loop = NoRange /\ passage = NoRange)
    <2> DEFINE t == Advanced(dt)
    <2>1. /\ time' = t /\ UNCHANGED <<playing, loop, wait>>
          /\ IF Skips(dt) THEN Restarts(t, loop)
             ELSE Schedules(sounds, last, t, loop) /\ UNCHANGED <<origin, waited>>
          /\ IF passage # NoRange THEN Expire(t) ELSE UNCHANGED grader
        BY <1>3 DEF Tick
    <2>2. t \in Times /\ (~Skips(dt) => t >= time)
        <3>1. passage # NoRange => time + dt < passage.range.to + passage.tail
            <4> SUFFICES ASSUME passage # NoRange
                         PROVE  time + dt < passage.range.to + passage.tail
                OBVIOUS
            <4>1. passage.range.to \in Nat /\ passage.tail \in Nat /\ time \in Int /\ dt \in Int
                BY TransportConstants DEF TransportInv, TransportTypeOK, Times, Frames
            <4> QED BY <1>3, <4>1
        <3> QED BY <1>3, <3>1, Advances
    <2> HIDE DEF t
    <2>3. /\ TargetsCounted'
          /\ {open', gone', taken'} \subseteq SUBSET Notes
          /\ {scored', missed'} \subseteq 0 .. Cardinality(Notes)
          /\ UNCHANGED <<passage, tolerance>>
        <3>1. CASE passage # NoRange
            BY <2>1, <2>2, <3>1, ExpireKeeps
        <3>2. CASE passage = NoRange
            <4>1. UNCHANGED <<grader, passage, tolerance, open, gone, taken, scored, missed>>
                BY <2>1, <3>2 DEF grader
            <4> QED BY <1>0, <4>1, GraderKept DEF TransportTypeOK
        <3> QED BY <3>1, <3>2
    <2>4. /\ last' \in Times /\ origin' \in Times /\ sounds' \in [Notes -> 0 .. 2]
          /\ waited' \in BOOLEAN /\ SoundInv'
        <3>1. CASE Skips(dt)
            BY <1>0, <2>1, <2>2, <2>3, <3>1, RestartFits
        <3>2. CASE ~Skips(dt)
            <4>1. /\ last' \in Times /\ sounds' \in [Notes -> 0 .. 2]
                  /\ ~waited' => AttackedOnce' /\ origin' <= last'
                  /\ SoundNear'
                BY <1>0, <2>1, <2>2, <2>3, <3>2, Continued
            <4> QED BY <1>0, <2>1, <3>2, <4>1 DEF SoundInv, TransportTypeOK
        <3> QED BY <3>1, <3>2
    <2>5. TransportTypeOK'
        BY <1>0, <2>1, <2>2, <2>3, <2>4 DEF TransportTypeOK
    <2> QED BY <2>3, <2>4, <2>5 DEF TransportInv
<1> QED BY <1>1, <1>2, <1>3

LEMMA StartGradingKeeps == ASSUME TransportInv, StartGrading PROVE TransportInv'
<1>0. TransportTypeOK /\ playing \in BOOLEAN
    BY DEF TransportInv, TransportTypeOK
<1>1. PICK w \in BOOLEAN, r \in Regions, tail \in {0, Tail} :
        /\ passage' = [range |-> r, tail |-> tail]
        /\ open' = TargetsOf(r)
        /\ wait' = w /\ time' = r.from
        /\ IF playing \/ passage # NoRange THEN Quiet(r.from) ELSE Seeks(r.from, FALSE)
    BY DEF StartGrading
<1>2. /\ playing' = FALSE /\ loop' = loop /\ tolerance' \in Tolerances
      /\ gone' = {} /\ taken' = {} /\ scored' = 0 /\ missed' = 0
    BY DEF StartGrading
<1>3. r.from \in Times
    BY TransportConstants DEF Times
<1>4. /\ last' \in Times /\ origin' \in Times /\ sounds' \in [Notes -> 0 .. 2]
      /\ waited' \in BOOLEAN /\ SoundInv'
    <2>1. CASE playing \/ passage # NoRange
        BY <1>1, <1>2, <1>3, <2>1, QuietFits
    <2>2. CASE ~(playing \/ passage # NoRange)
        BY <1>1, <1>2, <1>3, <2>2, SeekPausedFits
    <2> QED BY <2>1, <2>2
<1>5. 0 \in 0 .. Cardinality(Notes) /\ Cardinality({}) = 0
    BY FS_CardinalityType, FS_EmptySet, TransportConstants
<1>6. TransportTypeOK'
    <2>1. open' \in SUBSET Notes /\ gone' \in SUBSET Notes /\ taken' \in SUBSET Notes
        BY <1>1, <1>2 DEF TargetsOf
    <2>2. {scored', missed'} \subseteq 0 .. Cardinality(Notes)
        BY <1>2, <1>5
    <2>3. passage' \in [range : Regions, tail : {0, Tail}]
        BY <1>1
    <2> QED BY <1>0, <1>1, <1>2, <1>3, <1>4, <2>1, <2>2, <2>3 DEF TransportTypeOK
<1>7. TargetsCounted'
    <2>1. passage'.range = r
        BY <1>1
    <2> QED BY <1>1, <1>2, <1>5, <2>1 DEF TargetsCounted, TargetsOf
<1> QED BY <1>4, <1>6, <1>7 DEF TransportInv

-----------------------------------------------------------------------------
LEMMA ConsumeKeeps ==
    ASSUME TransportInv, passage # NoRange, NEW n \in open \cup gone, Consume(n)
    PROVE  /\ TargetsCounted'
           /\ {open', gone', taken'} \subseteq SUBSET Notes
           /\ {scored', missed'} \subseteq 0 .. Cardinality(Notes)
           /\ UNCHANGED <<passage, tolerance>>
<1>1. /\ scored' = scored + 1 /\ taken' = taken \cup {n}
      /\ n \in gone => missed' = missed - 1
      /\ n \notin gone => missed' = missed
      /\ open' = open \ {n} /\ gone' = gone \ {n}
      /\ UNCHANGED <<passage, tolerance>>
    BY DEF Consume
<1>2. /\ {open, gone, taken} \subseteq SUBSET Notes /\ TargetsCounted
      /\ n \in Notes
    BY DEF TransportInv, TransportTypeOK
<1>3. /\ n \notin taken /\ scored = Cardinality(taken) /\ missed = Cardinality(gone)
      /\ open \cup gone \cup taken = TargetsOf(passage.range)
      /\ open \cap gone = {} /\ open \cap taken = {} /\ gone \cap taken = {}
    BY <1>2 DEF TargetsCounted
<1>4. /\ Cardinality(taken \cup {n}) = Cardinality(taken) + 1
      /\ n \in gone => Cardinality(gone \ {n}) = Cardinality(gone) - 1
      /\ n \notin gone => Cardinality(gone \ {n}) = Cardinality(gone)
    BY <1>3, TargetsFinite, FS_AddElement, FS_RemoveElement
<1>5. scored' = Cardinality(taken') /\ missed' = Cardinality(gone')
    BY <1>1, <1>3, <1>4
<1>6. {open', gone', taken'} \subseteq SUBSET Notes
    BY <1>1, <1>2
<1>7. TargetsCounted'
    <2>1. open' \cup gone' \cup taken' = open \cup gone \cup taken
        BY <1>1
    <2>2. open' \cap gone' = {} /\ open' \cap taken' = {} /\ gone' \cap taken' = {}
        BY <1>1, <1>3
    <2> QED BY <1>1, <1>3, <1>5, <2>1, <2>2 DEF TargetsCounted
<1>8. {scored', missed'} \subseteq 0 .. Cardinality(Notes)
    BY <1>5, <1>6, CountFits
<1> QED BY <1>1, <1>6, <1>7, <1>8

LEMMA InputKeeps == ASSUME TransportInv, NEW pitch, Input(pitch) PROVE TransportInv'
<1>0. TransportTypeOK
    BY DEF TransportInv
<1>1. PICK now : \E n \in Matches(pitch, now) : Consume(n)
    BY DEF Input
<1>2. PICK n \in Matches(pitch, now) : Consume(n)
    BY <1>1
<1>3. n \in open \cup gone
    BY DEF Matches, Firsts
<1>4. passage # NoRange /\ UNCHANGED <<time, playing, loop, wait, sound, last, sounds, origin, waited>>
    BY DEF Input, player, sound
<1>5. /\ TargetsCounted'
      /\ {open', gone', taken'} \subseteq SUBSET Notes
      /\ {scored', missed'} \subseteq 0 .. Cardinality(Notes)
      /\ UNCHANGED <<passage, tolerance>>
    BY <1>2, <1>3, <1>4, ConsumeKeeps
<1>6. SoundInv'
    BY <1>4, <1>5, SoundStays
<1>7. TransportTypeOK'
    BY <1>0, <1>4, <1>5 DEF TransportTypeOK
<1> QED BY <1>5, <1>6, <1>7 DEF TransportInv

\* The onset of the first notes of a set is one of theirs.
LEMMA OnsetOfFirsts ==
    ASSUME NEW S \in SUBSET Notes, Firsts(S) # {}
    PROVE  Max({m.at : m \in Firsts(S)}) \in 0 .. Duration
<1>1. PICK m \in Firsts(S) : TRUE
    OBVIOUS
<1>2. \A k \in Firsts(S) : k \in Notes /\ k.at \in Nat /\ k.at < Duration
    BY TransportConstants DEF Firsts
<1>3. \A k \in Firsts(S) : k.at = m.at
    BY <1>2 DEF Firsts
<1>4. {k.at : k \in Firsts(S)} = {m.at}
    BY <1>3
<1>5. Max({m.at}) = m.at
    BY <1>2 DEF Max
<1> QED BY <1>2, <1>4, <1>5, TransportConstants

LEMMA AnswerKeeps == ASSUME TransportInv, NEW pitch, Answer(pitch) PROVE TransportInv'
<1>0. /\ TransportTypeOK /\ passage # NoRange /\ open \in SUBSET Notes
      /\ time \in Times /\ passage \in [range : Regions, tail : {0, Tail}]
      /\ loop \in Regions \cup {NoRange} /\ sounds \in [Notes -> 0 .. 2] /\ playing \in BOOLEAN
    BY DEF TransportInv, TransportTypeOK, Answer
<1> DEFINE Next(n) == Firsts(open \ {n})
           Goal(n) == IF Next(n) = {} THEN n.at + 1 ELSE Max({m.at : m \in Next(n)})
           To(n) == Earlier(passage.range.to, Later(time, Goal(n)))
<1>1. PICK n \in Firsts(open) :
        IF Next(n) = {} THEN Finishes(To(n), To(n))
        ELSE /\ time' = To(n) /\ waited' = TRUE
             /\ IF playing THEN last' = To(n) /\ UNCHANGED sounds
                           ELSE Schedules(sounds, To(n), To(n), loop)
             /\ Consume(n)
             /\ UNCHANGED <<playing, loop, wait, origin>>
    BY DEF Answer
<1>2. n \in open /\ n \in Notes
    BY <1>0 DEF Firsts
<1>3. To(n) \in Times /\ To(n) <= passage.range.to
    <2>1. Goal(n) \in Int
        <3>1. CASE Next(n) = {}
            BY <1>2, <3>1, TransportConstants
        <3>2. CASE Next(n) # {}
            <4>1. open \ {n} \in SUBSET Notes
                BY <1>0
            <4>2. Max({m.at : m \in Next(n)}) \in 0 .. Duration
                BY <3>2, <4>1, OnsetOfFirsts
            <4>3. Goal(n) = Max({m.at : m \in Next(n)})
                BY <3>2
            <4>4. 0 .. Duration \subseteq Int
                OBVIOUS
            <4> HIDE DEF Goal, Next
            <4> QED BY <4>2, <4>3, <4>4
        <3> QED BY <3>1, <3>2
    <2>2. passage.range.to \in 0 .. Duration /\ passage.range \in Regions
        BY <1>0, TransportConstants
    <2>3. time \in 0 .. Duration + Tail
        BY <1>0 DEF Times
    <2> HIDE DEF Goal
    <2> QED BY <2>1, <2>2, <2>3, TransportConstants DEF Earlier, Later, Times
<1> HIDE DEF Goal, To
<1>4. CASE Next(n) = {}
    BY <1>1, <1>3, <1>4, FinishKeeps
<1>5. CASE Next(n) # {}
    <2>1. /\ time' = To(n) /\ waited' = TRUE
          /\ IF playing THEN last' = To(n) /\ UNCHANGED sounds
                        ELSE Schedules(sounds, To(n), To(n), loop)
          /\ Consume(n)
          /\ UNCHANGED <<playing, loop, wait, origin>>
        BY <1>1, <1>5
    <2>2. /\ TargetsCounted'
          /\ {open', gone', taken'} \subseteq SUBSET Notes
          /\ {scored', missed'} \subseteq 0 .. Cardinality(Notes)
          /\ UNCHANGED <<passage, tolerance>>
        BY <1>0, <1>2, <2>1, ConsumeKeeps
    <2>3. last' \in Times /\ sounds' \in [Notes -> 0 .. 2]
        <3>1. CASE playing
            BY <1>0, <1>3, <2>1, <3>1
        <3>2. CASE ~playing
            BY <1>0, <1>3, <2>1, <3>2, ScheduleTypes
        <3> QED BY <3>1, <3>2
    <2>4. TransportTypeOK'
        BY <1>0, <1>3, <2>1, <2>2, <2>3 DEF TransportTypeOK
    <2>5. playing => SoundNear'
        <3> SUFFICES ASSUME playing PROVE SoundNear'
            OBVIOUS
        <3>1. EndpointOf(loop, passage)' = passage.range.to
            BY <1>0, <2>2 DEF EndpointOf
        <3> QED BY <1>0, <1>3, <2>1, <3>1, TransportConstants
                DEF SoundNear, Later, Earlier, Times, TransportTypeOK
    <2> QED BY <2>1, <2>2, <2>4, <2>5 DEF TransportInv, SoundInv
<1> QED BY <1>4, <1>5

-----------------------------------------------------------------------------
LEMMA TransportKeeps == TransportInv /\ [TransportNext]_transportVars => TransportInv'
<1> SUFFICES ASSUME TransportInv, [TransportNext]_transportVars PROVE TransportInv'
    OBVIOUS
<1>1. CASE UNCHANGED transportVars
    <2>1. UNCHANGED <<sound, grader, playing, time, loop, wait, passage>>
        BY <1>1 DEF transportVars, player, grader
    <2>2. TransportTypeOK'
        BY <2>1 DEF TransportInv, TransportTypeOK, sound, grader
    <2> QED BY <2>1, <2>2, SoundStays, GraderKept DEF TransportInv
<1>2. ASSUME NEW pitch, Answer(pitch) \/ Input(pitch) PROVE TransportInv'
    BY <1>2, AnswerKeeps, InputKeeps
<1> QED BY <1>1, <1>2, StartKeeps, StopKeeps, SeekKeeps, TickKeeps, ReinstallKeeps,
           SetSettingsKeeps, SetLoopKeeps, SetWaitModeKeeps, StartGradingKeeps,
           FinishGradingKeeps DEF TransportNext

LEMMA TransportInvariant == TransportSpec => []TransportInv
<1> QED BY TransportBegins, TransportKeeps, PTL DEF TransportSpec

\* Every attack of the music between where the sound began and where it is
\* scheduled to is handed to the audio once, and the sound keeps to its
\* distance from the playhead (schedule and cancelAll of the engine).
THEOREM AttacksAreExact == TransportSpec => []AttacksExact
<1>1. ASSUME TransportInv PROVE AttacksExact
    BY <1>1 DEF TransportInv, SoundInv, AttackedOnce, SoundNear, AttacksExact
<1> QED BY <1>1, TransportInvariant, PTL

\* Whatever is played, missed and reconciled, in time or in wait mode, the
\* grader counts every target of its passage once.
THEOREM EveryTargetCounts == TransportSpec => []ScoreAddsUp
<1>1. ASSUME TransportInv PROVE ScoreAddsUp
    <2> SUFFICES ASSUME passage # NoRange
                 PROVE  /\ scored = Cardinality(taken) /\ missed = Cardinality(gone)
                        /\ scored + missed + Cardinality(open)
                             = Cardinality(TargetsOf(passage.range))
        BY DEF ScoreAddsUp
    <2>1. /\ open \cup gone \cup taken = TargetsOf(passage.range)
          /\ open \cap gone = {} /\ (open \cup gone) \cap taken = {}
          /\ scored = Cardinality(taken) /\ missed = Cardinality(gone)
        BY <1>1 DEF TransportInv, TargetsCounted
    <2>2. /\ IsFiniteSet(open) /\ IsFiniteSet(gone) /\ IsFiniteSet(taken)
          /\ Cardinality(open) \in Nat /\ Cardinality(gone) \in Nat
          /\ Cardinality(taken) \in Nat
        BY <1>1, TargetsFinite
    <2>3. /\ IsFiniteSet(open \cup gone)
          /\ Cardinality(open \cup gone) = Cardinality(open) + Cardinality(gone)
        BY <2>1, <2>2, FS_Union, FS_EmptySet
    <2>4. Cardinality(open \cup gone \cup taken)
            = Cardinality(open \cup gone) + Cardinality(taken)
        <3> DEFINE left == open \cup gone
        <3>1. IsFiniteSet(left) /\ left \cap taken = {} /\ Cardinality(left) \in Nat
            BY <2>1, <2>2, <2>3
        <3> HIDE DEF left
        <3>2. Cardinality(left \cup taken)
                = Cardinality(left) + Cardinality(taken) - Cardinality(left \cap taken)
            BY <2>2, <3>1, FS_Union
        <3>3. Cardinality(left \cap taken) = 0
            BY <3>1, FS_EmptySet
        <3>4. Cardinality(left \cup taken) = Cardinality(left) + Cardinality(taken)
            BY <2>2, <3>1, <3>2, <3>3
        <3> QED BY <3>4 DEF left
    <2>5. Cardinality(open) + Cardinality(gone) + Cardinality(taken)
            = Cardinality(TargetsOf(passage.range))
        BY <2>1, <2>3, <2>4
    <2> QED BY <2>1, <2>2, <2>5
<1> QED BY <1>1, TransportInvariant, PTL

-----------------------------------------------------------------------------
(***************************************************************************)
(* The parts together, as MCWeb runs them: one part moves and the others   *)
(* stay where they begin, so each keeps its invariant.                     *)
(***************************************************************************)
WebInv ==
    /\ part \in {"read model", "song update", "handoff", "transport", "upload"}
    /\ ReadModelTypeOK /\ UpdateInv /\ HandoffInv /\ TransportInv /\ MoveInv

\* Every part keeps its invariant, whether it moves or not.
LEMMA PartsKeep ==
    /\ ReadModelTypeOK /\ [ReadModelNext]_readModelVars => ReadModelTypeOK'
    /\ UpdateInv /\ [UpdateNext]_updateVars => UpdateInv'
    /\ HandoffInv /\ [HandoffNext]_handoffVars => HandoffInv'
    /\ TransportInv /\ [TransportNext]_transportVars => TransportInv'
    /\ MoveInv /\ [MoveNext]_moveVars => MoveInv'
<1>1. ReadModelTypeOK /\ UNCHANGED readModelVars => ReadModelTypeOK'
    BY DEF readModelVars, ReadModelTypeOK
<1>2. MoveInv /\ MoveNext => MoveInv'
    BY MovesKeepTypes, MovesKeepFits DEF MoveInv
<1>3. MoveInv /\ UNCHANGED moveVars => MoveInv'
    BY MoveStutters
<1> QED
    BY <1>1, <1>2, <1>3, TypeKeeps, UpdateKeeps, HandoffKeeps, TransportKeeps

\* A step of the whole is one of a single part.
LEMMA PartsMove ==
    [WebNext]_WebVars =>
      /\ UNCHANGED part
      /\ [ReadModelNext]_readModelVars /\ [UpdateNext]_updateVars /\ [HandoffNext]_handoffVars
      /\ [TransportNext]_transportVars /\ [MoveNext]_moveVars
BY DEF WebNext, Only, WebVars

LEMMA WebKeeps == WebInv /\ [WebNext]_WebVars => WebInv'
BY PartsMove, PartsKeep DEF WebInv

\* What is proved of each part by itself holds of the parts together, which is
\* what MCWeb runs.
THEOREM PartsOfWeb ==
    WebSpec => ReadModelSpec /\ UpdateSpec /\ HandoffSpec /\ TransportSpec /\ MoveSpec
<1>1. WebInit => ReadModelInit /\ UpdateInit /\ HandoffInit /\ TransportInit /\ MoveInit
    BY DEF WebInit
<1> QED
    BY <1>1, PartsMove, PTL
       DEF WebSpec, ReadModelSpec, UpdateSpec, HandoffSpec, TransportSpec, MoveSpec

\* The variables of the web application's parts keep to their types, for any
\* number of requests, processes, files, stops and changes and for any music.
THEOREM WebTyped == WebSpec => []WebTypeOK
<1>1. WebInit => WebInv
    BY ReadModelBegins, UpdateBegins, HandoffBegins, TransportBegins, MoveBegins
       DEF WebInit, WebInv, ReadModelInv
<1>2. WebInv => WebTypeOK
    BY DEF WebInv, WebTypeOK, UpdateInv, HandoffInv, TransportInv, MoveInv
<1> QED
    BY <1>1, <1>2, WebKeeps, PTL DEF WebSpec
=============================================================================
