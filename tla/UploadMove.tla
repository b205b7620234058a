----------------------------- MODULE UploadMove -----------------------------
(***************************************************************************)
(* The uploaded source of one base on its way into place: ingestSource of  *)
(* packages/catalog/src/ingest.ts stages it, commitCatalogPublication of   *)
(* reconcile.ts moves the previous source to a backup, the staged one into *)
(* place, and the rows after it.  Publication takes these renames for one  *)
(* step; here it is the artifact protocol that is reduced, to a journal    *)
(* and to whether the journaled tree is staged or installed.  An upload is *)
(* addressed by its bytes (uploads/route.ts), and the script that repeats  *)
(* one reads them from the retained file: all files have the same bytes,   *)
(* so a file is there or is not.  All steps but the start of a publication *)
(* are taken under the lock of the base.                                   *)
(***************************************************************************)
EXTENDS Naturals

CONSTANTS
    Stagings,    \* the ingestions, each with a token in its file names
    NoStaging,   \* no ingestion
    MaxKills     \* bound on the stops

ASSUME MoveAssumption == NoStaging \notin Stagings /\ MaxKills \in Nat

VARIABLES
    source,      \* does the file BASE.mid exist?
    stagedFiles, \* the ingestions whose .BASE.staging-token.mid exists
    backups,     \* the ingestions whose .BASE.backup-token.mid exists
    listed,      \* does the catalog hold rows of the base?
    recovery,    \* the reconciliation journal
    artifact,    \* the tree of the journaled publication
    step,        \* the step of the process that holds the lock
    current,     \* the ingestion it works on
    attempted,   \* the ingestions that have begun: a token is used once
    kills        \* number of stops so far

moveVars == <<source, stagedFiles, backups, listed, recovery, artifact, step,
              current, attempted, kills>>

NoRecovery == [kind |-> "none", of |-> NoStaging]
PublicationOf(u) == [kind |-> "publish", of |-> u]
Deletion == [kind |-> "delete", of |-> NoStaging]

MoveTypeOK ==
    /\ source \in BOOLEAN /\ listed \in BOOLEAN
    /\ current \in Stagings \cup {NoStaging}
    /\ stagedFiles \subseteq Stagings /\ backups \subseteq Stagings
    /\ attempted \subseteq Stagings
    /\ recovery \in {NoRecovery, Deletion} \cup {PublicationOf(u) : u \in Stagings}
    /\ artifact \in {"none", "staged", "installed"}
    /\ step \in {"free", "stage", "journal", "swap", "aside", "place", "verify",
                 "list", "unkeep", "unlist", "unsource", "close"}
    /\ kills \in 0 .. MaxKills

MoveInit ==
    /\ source = FALSE /\ listed = FALSE /\ current = NoStaging
    /\ stagedFiles = {} /\ backups = {} /\ attempted = {}
    /\ recovery = NoRecovery /\ artifact = "none"
    /\ step = "free" /\ kills = 0

\* The files, and what the catalog and its journal say of them.
moveFiles == <<source, stagedFiles, backups>>
moveRecord == <<listed, recovery, artifact>>

Proceed(s) == step' = s /\ UNCHANGED <<current, attempted, kills>>

\* The operation returns or throws and the lock is dropped.
Release ==
    /\ step' = "free" /\ current' = NoStaging
    /\ UNCHANGED <<attempted, kills>>

\* ingestSource: a pending journal makes the publisher throw.
BeginIngest(u) ==
    /\ step = "free" /\ recovery = NoRecovery
    /\ u \notin attempted
    /\ attempted' = attempted \cup {u}
    /\ current' = u
    /\ step' = "stage"
    /\ UNCHANGED <<moveFiles, moveRecord, kills>>

StageUpload ==
    /\ step = "stage"
    /\ stagedFiles' = stagedFiles \cup {current}
    /\ Proceed("journal")
    /\ UNCHANGED <<source, backups, moveRecord>>

\* The writer or beforeSwap throws: the staged file goes with the stage.
Abandon ==
    /\ step \in {"stage", "journal"}
    /\ stagedFiles' = stagedFiles \ {current}
    /\ Release
    /\ UNCHANGED <<source, backups, moveRecord>>

OpenRecovery ==
    /\ step = "journal"
    /\ recovery' = PublicationOf(current)
    /\ artifact' = "staged"
    /\ Proceed("swap")
    /\ UNCHANGED <<moveFiles, listed>>

\* The journal reaches the disk although its write throws: both stages go.
FailRecovery ==
    /\ step = "journal"
    /\ recovery' = PublicationOf(current)
    /\ stagedFiles' = stagedFiles \ {current}
    /\ Release
    /\ UNCHANGED <<source, backups, listed, artifact>>

SwapTree ==
    /\ step = "swap"
    /\ artifact' = "installed"
    /\ Proceed("aside")
    /\ UNCHANGED <<moveFiles, listed, recovery>>

\* The previous source becomes the backup, unless an interrupted commit has
\* made one; without a staged file the move is done already.
MoveAside ==
    /\ step = "aside"
    /\ IF current \in stagedFiles /\ source /\ current \notin backups
       THEN /\ backups' = backups \cup {current}
            /\ source' = FALSE
       ELSE UNCHANGED <<backups, source>>
    /\ Proceed(IF current \in stagedFiles THEN "place" ELSE "verify")
    /\ UNCHANGED <<stagedFiles, moveRecord>>

MoveIntoPlace ==
    /\ step = "place"
    /\ source' = TRUE
    /\ stagedFiles' = stagedFiles \ {current}
    /\ Proceed("verify")
    /\ UNCHANGED <<backups, moveRecord>>

\* A source that is missing fails the commit, which keeps the journal.
VerifySource ==
    /\ step = "verify"
    /\ IF source THEN Proceed("list") ELSE Release
    /\ UNCHANGED <<moveFiles, moveRecord>>

ListRows ==
    /\ step = "list"
    /\ listed' = TRUE
    /\ Proceed("unkeep")
    /\ UNCHANGED <<moveFiles, recovery, artifact>>

\* The transaction throws: the database is busy.
RefuseRows ==
    /\ step = "list"
    /\ Release
    /\ UNCHANGED <<moveFiles, moveRecord>>

\* A backup that cannot be removed stays, and nobody hears of it.
RemoveBackup ==
    /\ step = "unkeep"
    /\ backups' \in {backups, backups \ {current}}
    /\ Proceed("close")
    /\ UNCHANGED <<source, stagedFiles, moveRecord>>

CloseRecovery ==
    /\ step = "close"
    /\ recovery' = NoRecovery
    /\ artifact' = "none"
    /\ Release
    /\ UNCHANGED <<moveFiles, listed>>

\* deleteBaseArtifact up to its commit.
BeginErase ==
    /\ step = "free" /\ recovery = NoRecovery
    /\ recovery' = Deletion
    /\ Proceed("unlist")
    /\ UNCHANGED <<moveFiles, listed, artifact>>

UnlistRows ==
    /\ step = "unlist"
    /\ listed' = FALSE
    /\ Proceed("unsource")
    /\ UNCHANGED <<moveFiles, recovery, artifact>>

\* The names that begin with the base: neither staged files nor backups.
RemoveSources ==
    /\ step = "unsource"
    /\ source' = FALSE
    /\ Proceed("close")
    /\ UNCHANGED <<stagedFiles, backups, moveRecord>>

\* Mutant: the reconciler takes the moves for done and commits the rows.
ReplayMove_Moved ==
    /\ step = "free" /\ recovery.kind = "publish" /\ artifact = "installed"
    /\ step' = "list" /\ current' = recovery.of
    /\ UNCHANGED <<moveFiles, moveRecord, attempted, kills>>

\* reconcileBaseArtifact: an installed publication is committed again.
ReplayMove ==
    /\ step = "free" /\ recovery.kind = "publish" /\ artifact = "installed"
    /\ step' = "aside" /\ current' = recovery.of
    /\ UNCHANGED <<moveFiles, moveRecord, attempted, kills>>

\* A staged one is rolled back; its staged upload is not looked for.
RollBackMove ==
    /\ step = "free" /\ recovery.kind = "publish" /\ artifact = "staged"
    /\ artifact' = "none"
    /\ Proceed("close")
    /\ UNCHANGED <<moveFiles, listed, recovery>>

\* Over HTTP; the command line would leave the sources (run delete_replayed).
ReplayErase ==
    /\ step = "free" /\ recovery = Deletion
    /\ Proceed("unlist")
    /\ UNCHANGED <<moveFiles, moveRecord>>

\* The process dies; a failed swap of the trees is the same.
Kill ==
    /\ step # "free" /\ kills < MaxKills
    /\ kills' = kills + 1
    /\ step' = "free" /\ current' = NoStaging
    /\ UNCHANGED <<moveFiles, moveRecord, attempted>>

MoveNext ==
    \/ \E u \in Stagings : BeginIngest(u)
    \/ StageUpload \/ Abandon \/ OpenRecovery \/ FailRecovery \/ SwapTree
    \/ MoveAside \/ MoveIntoPlace \/ VerifySource \/ ListRows \/ RefuseRows
    \/ RemoveBackup \/ CloseRecovery
    \/ BeginErase \/ UnlistRows \/ RemoveSources
    \/ ReplayMove \/ RollBackMove \/ ReplayErase \/ Kill

MoveSpec == MoveInit /\ [][MoveNext]_moveVars

-----------------------------------------------------------------------------
\* The retained source of a listed base is never lost: without a journal the
\* file of the base is there exactly with its rows, and until a deletion is
\* journaled there is that file or a backup of it, wherever the moves of
\* publications and replays were cut.
SourceRetained ==
    /\ recovery = NoRecovery => source = listed
    /\ listed /\ recovery # Deletion => source \/ backups # {}
=============================================================================
