----------------------------- MODULE SongUpdate -----------------------------
(***************************************************************************)
(* The editors of one base: applySongMetadata of                           *)
(* apps/web/src/lib/song-update.ts, which prepares a new tree from a       *)
(* snapshot taken without the lock, and publishHarmonyCandidate of         *)
(* harmony-publication.ts, which adds a reviewed harmony to one exact      *)
(* revision; beside an ingest, a deletion, the play counter, stops and the *)
(* replay of a recovery journal.  Module Publication has the protocol step *)
(* by step; here it is a lock, a swap, a commit and a journal, and a swap  *)
(* that a stop cuts short is rolled back, as if it had never begun.        *)
(*                                                                         *)
(* A request publishes at most once, so its name is also the revision it   *)
(* installs, the manifest it writes and the value it gives to a field.     *)
(* The notes of a tree are known by the request that set their tempo.      *)
(***************************************************************************)
EXTENDS Integers, FiniteSets

CONSTANTS Updates, Harmonies, Ingests, Deletes,  \* the requests
          None,      \* no holder, no journal, no tree, no rows, no backing
          First,     \* the publication the base starts with
          AnyRevision,  \* a request that names no revision
          MaxSent,   \* bound on the requests that are sent
          MaxPlays,  \* bound on the plays counted
          MaxHalts   \* bound on the stops

Editors == Updates \cup Harmonies
Requests == Editors \cup Ingests \cup Deletes
Authors == Requests \cup {First}

ASSUME UpdateConstants ==
    /\ {None, First, AnyRevision} \cap Requests = {}
    /\ None # First /\ None # AnyRevision /\ First # AnyRevision
    /\ Updates \cap Harmonies = {} /\ Editors \cap (Ingests \cup Deletes) = {}
    /\ Ingests \cap Deletes = {}
    /\ {MaxSent, MaxPlays, MaxHalts} \subseteq Nat

VARIABLES
    tree,     \* the installed tree
    song,     \* its catalog rows
    pending,  \* the recovery journal: who wrote it, the rows to commit
    holder,   \* the request that holds the lock of the base
    at,       \* per request: its step
    patch,    \* per update: the fields it sets
    expect,   \* per request: the revision it was sent for
    saw,      \* per request: the rows, manifest and notes it read
    result,   \* per request: how it ended
    moved,    \* history: running requests that saw a publication change the base
    halts     \* number of stops

base == <<tree, song, pending, holder>>
updateVars == <<base, at, patch, expect, saw, result, moved, halts>>

Fields == {"title", "tempo"}
Tree == [rev : Authors, manifest : Authors, notes : Authors,
         backing : Authors \cup {None}, binding : Authors \cup {None}]
Row == [title : Authors, tempo : Authors, plays : 0 .. MaxPlays]
Journal == [by : Requests, rows : Row \cup {None}]
Base == [rev : Authors, title : Authors, tempo : Authors, plays : 0 .. MaxPlays,
         backing : Authors \cup {None}, binding : Authors \cup {None}]
ASSUME NothingIsNone == None \notin Tree \cup Row \cup Journal \cup Base

EditSteps == {"idle", "open", "revision", "manifest", "notes", "lock", "recheck", "swap",
              "rows", "close", "done"}
Outcomes == {"none", "done", "replayed", "conflict", "corrupt", "review", "missing",
             "refused", "stopped"}
Snapshots == [rows : Row \cup {None}, manifest : Authors \cup {None},
              tempo : Authors \cup {None}, notes : Authors \cup {None}]
Unread == [rows |-> None, manifest |-> None, tempo |-> None, notes |-> None]

UpdateTypeOK ==
    /\ tree \in Tree \cup {None}
    /\ song \in Row \cup {None}
    /\ pending \in Journal \cup {None}
    /\ holder \in Requests \cup {None}
    /\ at \in [Requests -> EditSteps]
    /\ patch \in [Requests -> SUBSET Fields]
    /\ expect \in [Requests -> Authors \cup {AnyRevision}]
    /\ saw \in [Requests -> Snapshots]
    /\ result \in [Requests -> Outcomes]
    /\ moved \subseteq Requests
    /\ halts \in 0 .. MaxHalts

UpdateInit ==
    /\ tree = [rev |-> First, manifest |-> First, notes |-> First,
               backing |-> None, binding |-> None]
    /\ song = [title |-> First, tempo |-> First, plays |-> 0]
    /\ pending = None /\ holder = None
    /\ at = [r \in Requests |-> "idle"]
    /\ patch = [r \in Requests |-> {}]
    /\ expect = [r \in Requests |-> AnyRevision]
    /\ saw = [r \in Requests |-> Unread]
    /\ result = [r \in Requests |-> "none"]
    /\ moved = {} /\ halts = 0

-----------------------------------------------------------------------------
Goes(r, step) == at' = [at EXCEPT ![r] = step]

\* A request is over; what it named and what it read is forgotten.
Ends(r, outcome) ==
    /\ Goes(r, "done")
    /\ expect' = [expect EXCEPT ![r] = AnyRevision]
    /\ result' = [result EXCEPT ![r] = outcome]
    /\ saw' = [saw EXCEPT ![r] = Unread]
    /\ moved' = moved \ {r}

\* A publication changes the base under every request that is running.
Disturb(r) ==
    moved' = moved \cup {q \in Requests \ {r} : at[q] \notin {"idle", "done"}}

Comes(r) == at[r] = "idle" /\ Cardinality({q \in Requests : at[q] # "idle"}) < MaxSent

\* The client of r has loaded revision e, if r names one; a request that
\* starts during a publication runs beside it.
Sent(r, e) ==
    /\ Comes(r) /\ tree # None
    /\ expect' = [expect EXCEPT ![r] = e]
    /\ moved' = IF pending = None THEN moved ELSE moved \cup {r}

SendUpdate(r) ==
    /\ r \in Updates
    /\ Sent(r, AnyRevision) \/ Sent(r, tree.rev)
    /\ \E fields \in (SUBSET Fields) \ {{}} : patch' = [patch EXCEPT ![r] = fields]
    /\ Goes(r, "open")
    /\ UNCHANGED <<base, saw, result, halts>>

SendHarmony(r) ==
    /\ r \in Harmonies
    /\ Sent(r, tree.rev)
    /\ Goes(r, "lock")
    /\ UNCHANGED <<base, patch, saw, result, halts>>

SendOther(r) ==
    /\ r \in Ingests \cup Deletes
    /\ Comes(r) /\ Goes(r, "lock")
    /\ UNCHANGED <<base, patch, expect, saw, result, moved, halts>>

\* The rows are read at once ...
ReadRowsOf(r) ==
    /\ at[r] = "open"
    /\ IF song = None THEN Ends(r, "missing")
       ELSE /\ saw' = [saw EXCEPT ![r].rows = song]
            /\ Goes(r, "revision") /\ UNCHANGED <<expect, result, moved>>
    /\ UNCHANGED <<base, patch, halts>>

\* Mutant: that there is a publication is enough.
RevisionHolds_Any(r) == expect[r] # AnyRevision => tree # None
\* checkExpectedRevision.
RevisionHolds(r) ==
    expect[r] # AnyRevision => tree # None /\ tree.rev = expect[r]

CheckRevision(r) ==
    /\ at[r] = "revision"
    /\ IF RevisionHolds(r)
       THEN Goes(r, "manifest") /\ UNCHANGED <<expect, saw, result, moved>>
       ELSE Ends(r, "conflict")
    /\ UNCHANGED <<base, patch, halts>>

\* ... the manifest and the notes later, still without the lock.
ReadManifestOf(r) ==
    /\ at[r] = "manifest"
    /\ IF tree = None THEN Ends(r, "corrupt")
       ELSE /\ saw' = [saw EXCEPT ![r].manifest = tree.manifest, ![r].tempo = tree.notes]
            /\ Goes(r, "notes") /\ UNCHANGED <<expect, result, moved>>
    /\ UNCHANGED <<base, patch, halts>>

\* loadStoredVariants: the notes and the rows must have the manifest's tempo.
ReadNotesOf(r) ==
    /\ at[r] = "notes"
    /\ IF tree = None \/ {tree.notes, saw[r].rows.tempo} # {saw[r].tempo}
       THEN Ends(r, "corrupt")
       ELSE /\ saw' = [saw EXCEPT ![r].notes = tree.notes]
            /\ Goes(r, "lock") /\ UNCHANGED <<expect, result, moved>>
    /\ UNCHANGED <<base, patch, halts>>

-----------------------------------------------------------------------------
\* Mutant: a journal left by a stop does not refuse a publication.
TakeLock_Anyway(r) ==
    /\ at[r] = "lock"
    /\ IF holder = None
       THEN /\ holder' = r /\ Goes(r, "recheck")
            /\ UNCHANGED <<expect, saw, result, moved>>
       ELSE Ends(r, "refused") /\ UNCHANGED holder
    /\ UNCHANGED <<tree, song, pending, patch, halts>>
\* The lock of the base; a journal left by a stop refuses every publication.
TakeLock(r) ==
    /\ at[r] = "lock"
    /\ IF holder = None /\ pending = None
       THEN /\ holder' = r /\ Goes(r, "recheck")
            /\ UNCHANGED <<expect, saw, result, moved>>
       ELSE Ends(r, "refused") /\ UNCHANGED holder
    /\ UNCHANGED <<tree, song, pending, patch, halts>>

\* Mutant: the plays belong to the snapshot.
SameRows_Plays(r) == song = saw[r].rows
\* sourceSnapshotFingerprint takes every column of the rows but the plays.
SameRows(r) ==
    song # None /\ [song EXCEPT !.plays = 0] = [saw[r].rows EXCEPT !.plays = 0]

\* Mutant: the snapshot is not compared again.
SameSource_Unchecked(r) == tree # None
\* Under the lock the whole snapshot is read and compared again.
SameSource(r) ==
    /\ tree # None /\ tree.manifest = saw[r].manifest /\ tree.notes = saw[r].notes
    /\ SameRows(r)

\* Mutant: a backing is carried over to any notes.
BackingFits_Always(r) == TRUE
\* stagePreparedBacking: a backing goes with the music it was reviewed with.
BackingFits(r) ==
    tree = None \/ tree.backing = None \/ (r \in Updates /\ "tempo" \notin patch[r])

\* What the writer of r decides under the lock: "ok" or how r ends.  Study
\* uploads leave the backing behind on purpose; a harmony is published
\* already if the same candidate, receipts and statement are bound.
Verdict(r, study, same) ==
    CASE r \in Harmonies /\ same /\ tree # None /\ tree.binding = expect[r] -> "replayed"
      [] r \in Editors /\ ~RevisionHolds(r) -> "conflict"
      [] r \in Updates /\ ~SameSource(r)    -> "conflict"
      [] r \in Updates \cup Ingests /\ ~study /\ ~BackingFits(r) -> "review"
      [] OTHER -> "ok"

Recheck(r) ==
    /\ at[r] = "recheck" /\ holder = r
    /\ \E study \in {FALSE} \cup {r \in Ingests}, same \in BOOLEAN :
         LET verdict == Verdict(r, study, same) IN
         IF verdict = "ok"
         THEN /\ Goes(r, "swap")
              /\ saw' = IF r \in Harmonies THEN [saw EXCEPT ![r].rows = song]
                        ELSE IF study THEN [saw EXCEPT ![r].notes = r] ELSE saw
              /\ UNCHANGED <<holder, expect, result, moved>>
         ELSE Ends(r, verdict) /\ holder' = None
    /\ UNCHANGED <<tree, song, pending, patch, halts>>

Value(r, field, old) == IF field \in patch[r] THEN r ELSE old

\* The rows request r makes of the rows s.
RowsBy(r, s) ==
    CASE r \in Updates   -> [s EXCEPT !.title = Value(r, "title", @),
                                      !.tempo = Value(r, "tempo", @)]
      [] r \in Harmonies -> s
      [] r \in Ingests   -> [title |-> r, tempo |-> r, plays |-> 0]
      [] r \in Deletes   -> None

TreeBy(r) ==
    CASE r \in Updates   -> [tree EXCEPT !.rev = r, !.manifest = r,
                                         !.notes = Value(r, "tempo", @), !.binding = None]
      [] r \in Harmonies -> [tree EXCEPT !.rev = r, !.backing = tree.notes,
                                         !.binding = expect[r]]
      [] r \in Ingests   -> [rev |-> r, manifest |-> r, notes |-> r, binding |-> None,
                             backing |-> IF tree = None \/ saw[r].notes = r
                                         THEN None ELSE tree.backing]
      [] r \in Deletes   -> None

\* The journal with the rows of the snapshot, and the tree in one swap.
Swap(r) ==
    /\ at[r] = "swap" /\ holder = r
    /\ pending' = [by |-> r, rows |-> RowsBy(r, saw[r].rows)]
    /\ tree' = TreeBy(r)
    /\ Disturb(r) /\ Goes(r, "rows")
    /\ UNCHANGED <<song, holder, patch, expect, saw, result, halts>>

\* replaceSongsByBase keeps the larger count of plays.
Committed(rows) ==
    IF rows = None \/ song = None \/ song.plays < rows.plays THEN rows
    ELSE [rows EXCEPT !.plays = song.plays]

CommitRows(r) ==
    /\ at[r] = "rows" /\ holder = r
    /\ song' = Committed(pending.rows)
    /\ Disturb(r) /\ Goes(r, "close")
    /\ UNCHANGED <<tree, pending, holder, patch, expect, saw, result, halts>>

CloseJournal(r) ==
    /\ at[r] = "close" /\ holder = r
    /\ pending' = None /\ holder' = None
    /\ Ends(r, "done")
    /\ UNCHANGED <<tree, song, patch, halts>>

-----------------------------------------------------------------------------
\* A stop or a failed step; the journal, if there is one, stays.
Halt(r) ==
    /\ holder = r /\ halts < MaxHalts
    /\ halts' = halts + 1
    /\ holder' = None
    /\ Ends(r, "stopped")
    /\ UNCHANGED <<tree, song, pending, patch>>

\* Reconciliation commits the rows of the journal and closes it.
Replay ==
    /\ holder = None /\ pending # None
    /\ song' = Committed(pending.rows)
    /\ pending' = None
    /\ Disturb(pending.by)
    /\ UNCHANGED <<tree, holder, at, patch, expect, saw, result, halts>>

\* incrementPlays, without any lock.
Play ==
    /\ song # None /\ song.plays < MaxPlays
    /\ song' = [song EXCEPT !.plays = @ + 1]
    /\ UNCHANGED <<tree, pending, holder, at, patch, expect, saw, result, moved, halts>>

UpdateNext ==
    \/ Play \/ Replay
    \/ \E r \in Requests :
         \/ SendUpdate(r) \/ SendHarmony(r) \/ SendOther(r)
         \/ ReadRowsOf(r) \/ CheckRevision(r) \/ ReadManifestOf(r) \/ ReadNotesOf(r)
         \/ TakeLock(r) \/ Recheck(r) \/ Swap(r) \/ CommitRows(r) \/ CloseJournal(r)
         \/ Halt(r)

UpdateSpec == UpdateInit /\ [][UpdateNext]_updateVars

-----------------------------------------------------------------------------
\* No edit is lost: whenever the rows change, it is a play being counted or
\* the change of one request applied to the rows as they are, not to those
\* it read before its rebuild (song-update.ts:257-258, "prevents a slower
\* metadata request from overwriting a concurrent ingest/update"); no update
\* brings a deleted song back.
EditsCompose ==
    [][song' # song =>
         \/ song # None /\ song' = [song EXCEPT !.plays = @ + 1]
         \/ /\ pending # None
            /\ pending.by \in Editors => song # None
            /\ \/ pending.by \in Deletes /\ song' = None
               \/ song' = [RowsBy(pending.by, song) EXCEPT
                            !.plays = IF song = None THEN 0 ELSE song.plays]]_updateVars

\* The parts of a base belong together.  Once no journal is open the rows and
\* the tree tell the same tempo and there are rows exactly when there is a
\* tree (loadStoredVariants would otherwise refuse every later edit of the
\* song); and a backing always belongs to the notes beside it, whatever was
\* published over it since its review (chord-timeline.ts:566).
BaseAgrees ==
    /\ pending = None => /\ tree = None <=> song = None
                         /\ tree # None => song.tempo = tree.notes
    /\ tree # None => tree.backing \in {None, tree.notes}

\* Edits are refused because somebody published, never because somebody
\* played the song (song-update.ts:270-272, "must not cause a spurious 409").
PlaysNeverConflict ==
    [][\A r \in Requests :
         result'[r] # result[r] /\ result'[r] \in {"conflict", "corrupt"}
           => r \in moved]_updateVars

\* A request that names the revision its author looked at replaces exactly
\* that one, however long it took to get the lock.
RevisionHonoured ==
    [][tree' # tree /\ expect[holder] # AnyRevision
         => tree # None /\ tree.rev = expect[holder]]_updateVars

-----------------------------------------------------------------------------
\* The base as its journal will leave it: a publication counts from its swap
\* on, whoever commits its rows.  Its parts lie in the rows and in the tree.
Catalog == IF pending = None THEN song ELSE Committed(pending.rows)

Whole ==
    IF tree = None THEN None
    ELSE [rev |-> tree.rev, title |-> Catalog.title, tempo |-> Catalog.tempo,
          plays |-> Catalog.plays, backing |-> tree.backing, binding |-> tree.binding]

Stage(r) ==
    CASE at[r] = "idle" -> "idle"
      [] at[r] = "done" -> result[r]
      [] at[r] \in {"rows", "close"} -> "applied"
      [] OTHER -> "sent"

Edits == INSTANCE SongEdits WITH whole <- Whole, stage <- [r \in Requests |-> Stage(r)]

\* The editors of a base, which read without its lock, rebuild, compare again
\* under the lock, swap a tree, commit rows, stop anywhere and are replayed,
\* are requests that each change the whole base at one instant, once and as it
\* then is, or answer truly that they did not.
EditsSpec == Edits!Spec
=============================================================================
