----------------------------- MODULE StableRead -----------------------------
(***************************************************************************)
(* A request that reads a base without its lock, beside the writers of     *)
(* Publication: withStablePublication of apps/web/src/lib/catalog-api.ts   *)
(* around a read of the catalog rows, the manifest and the notes, as in    *)
(* loadSongDetail.  Readers change nothing that others see, so one reader  *)
(* stands for all of them.                                                 *)
(***************************************************************************)
EXTENDS Publication

CONSTANT Missing  \* what reading an absent file returns

ASSUME MissingAssumption == Missing \notin Contents \cup {None}

VARIABLES
    at,       \* the reader's step
    attempt,  \* attempts left
    wanted,   \* the revision the caller requires, or "any"
    before,   \* the revision read first
    after,    \* the revision read last
    seen,     \* the rows, manifest and notes this attempt read
    live,     \* history: the publications served since the request began
    answer    \* the outcome of the last request

reader == <<at, attempt, wanted, before, after, seen, live, answer>>

Nothing == [rows |-> None, manifest |-> Missing, notes |-> Missing]
NoAnswer == [kind |-> "none", revision |-> None, seen |-> Nothing]
Conflict == [NoAnswer EXCEPT !.kind = "conflict"]
NotFound == [NoAnswer EXCEPT !.kind = "null"]

ReaderTypeOK ==
    /\ at \in {"idle", "gate", "before", "rows", "load", "notes", "after", "verify"}
    /\ attempt \in 0 .. 2
    /\ wanted \in Tokens \cup {None, "any"}
    /\ before \in Tokens \cup {None}
    /\ after \in Tokens \cup {None}
    /\ seen \in [rows : Contents \cup {None},
                 manifest : Contents \cup {Missing},
                 notes : Contents \cup {Missing}]
    /\ live \subseteq Contents \cup {None}
    /\ answer \in [kind : {"none", "conflict", "null", "value"},
                   revision : Tokens \cup {None},
                   seen : [rows : Contents \cup {None},
                           manifest : Contents \cup {Missing},
                           notes : Contents \cup {Missing}]]

ReaderInit ==
    /\ at = "idle" /\ attempt = 0 /\ wanted = "any"
    /\ before = None /\ after = None
    /\ seen = Nothing /\ live = {} /\ answer = NoAnswer

\* readPublicationRevision: the marker of the installed tree, if any.
Revision == final.marker

\* A file of the installed tree; an incomplete tree may lack it.
FileOf(tree) ==
    IF ~Exists(tree) THEN {Missing}
    ELSE IF tree.whole THEN {tree.content} ELSE {tree.content, Missing}

\* What the register of the base serves at this instant.
Served == IF Pending THEN {} ELSE {rows}

Stay == UNCHANGED <<wanted, attempt, answer>>

\* The request ends, and forgets what it read; what it returns is kept.
Finish(a) ==
    /\ answer' = a
    /\ at' = "idle"
    /\ attempt' = 0
    /\ wanted' = "any"
    /\ before' = None
    /\ after' = None
    /\ seen' = Nothing

\* The request looks its rows up first, and ends here if there are none.
\* Then two attempts without a required revision, one with it.
StartRead(w) ==
    /\ at = "idle" /\ rows # None
    /\ wanted' = w
    /\ attempt' = IF w = "any" THEN 2 ELSE 1
    /\ at' = "gate"
    /\ live' = Served
    /\ answer' = NoAnswer
    /\ UNCHANGED <<before, after, seen>>

\* The lookup is answered whatever journal is pending.
FindNothing ==
    /\ at = "idle" /\ rows = None
    /\ Finish(NotFound)
    /\ live' = {None}

Gate ==
    /\ at = "gate"
    /\ IF Pending THEN Finish(Conflict)
       ELSE at' = "before" /\ Stay /\ UNCHANGED <<before, after, seen>>
    /\ UNCHANGED live

ReadBefore ==
    /\ at = "before"
    /\ IF wanted # "any" /\ Revision # wanted THEN Finish(Conflict)
       ELSE /\ before' = Revision
            /\ at' = "rows"
            /\ Stay /\ UNCHANGED <<after, seen>>
    /\ UNCHANGED live

ReadRows ==
    /\ at = "rows"
    /\ seen' = [Nothing EXCEPT !.rows = rows]
    /\ at' = IF rows = None THEN "after" ELSE "load"
    /\ Stay /\ UNCHANGED <<before, after, live>>

\* loadSongArtifact gives up on a journal, then reads the manifest ...
ReadManifest ==
    /\ at = "load"
    /\ IF Pending THEN at' = "after" /\ UNCHANGED seen
       ELSE /\ \E f \in FileOf(final) : seen' = [seen EXCEPT !.manifest = f]
            /\ at' = "notes"
    /\ Stay /\ UNCHANGED <<before, after, live>>

\* ... and the notes.
ReadNotes ==
    /\ at = "notes"
    /\ \E f \in FileOf(final) : seen' = [seen EXCEPT !.notes = f]
    /\ at' = "after"
    /\ Stay /\ UNCHANGED <<before, after, live>>

ReadAfter ==
    /\ at = "after"
    /\ after' = Revision
    /\ at' = "verify"
    /\ Stay /\ UNCHANGED <<before, seen, live>>

\* Mutants: the revision is not compared, the journal not looked for.
Stable_NoCompare == ~Pending /\ (wanted # "any" => after = wanted)
Stable_NoJournal == before = after /\ (wanted # "any" => after = wanted)

Stable ==
    /\ ~Pending
    /\ before = after
    /\ wanted # "any" => after = wanted

\* Rows that were removed since the lookup make the value null, and the
\* revision is dropped with it.
Deliver ==
    /\ at = "verify" /\ Stable
    /\ Finish(IF seen.rows = None THEN NotFound
              ELSE [kind |-> "value", revision |-> before, seen |-> seen])
    /\ UNCHANGED live

Retry ==
    /\ at = "verify" /\ ~Stable
    /\ IF attempt = 1 THEN Finish(Conflict)
       ELSE /\ attempt' = attempt - 1
            /\ at' = "gate"
            /\ seen' = Nothing /\ before' = None /\ after' = None
            /\ UNCHANGED <<wanted, answer>>
    /\ UNCHANGED live

Read ==
    \/ \E w \in Tokens \cup {None, "any"} : StartRead(w)
    \/ FindNothing \/ Gate \/ ReadBefore \/ ReadRows \/ ReadManifest \/ ReadNotes
    \/ ReadAfter \/ Deliver \/ Retry

\* While a request runs, the history collects what the base serves.
Write ==
    /\ Next
    /\ live' = IF at = "idle" \/ Pending' THEN live ELSE live \cup {rows'}
    /\ UNCHANGED <<at, attempt, wanted, before, after, seen, answer>>

ReadSpec ==
    /\ Init /\ ReaderInit
    /\ [][Write \/ (Read /\ UNCHANGED vars)]_<<vars, reader>>

-----------------------------------------------------------------------------
\* A request that returns a publication's revision has read no file of any
\* other publication: each file is that publication's or was not found,
\* however many writers, stops and reconciliations ran between its reads.
FilesMatchRevision ==
    answer.kind = "value" /\ answer.revision # None =>
        {answer.seen.manifest, answer.seen.notes}
            \subseteq {answer.revision, Missing}

\* The revision, the rows and the files a request returns were each served at
\* some instant of the request: none was replaced before the request began,
\* and none belongs to a publication that was installed and not committed.
\* This holds of the requests that return no revision as well, which a base
\* without its tree at both revision reads lets through uncompared; and a
\* request that found rows and then none is told that there is no such song
\* only if there was none for a moment.
AnswerWasServed ==
    /\ answer.kind = "null" => None \in live
    /\ answer.kind = "value" =>
         /\ answer.revision # None => answer.revision \in live
         /\ answer.seen.rows \in live
         /\ {answer.seen.manifest, answer.seen.notes} \subseteq live \cup {Missing}

\* The rows a request returns are those of the revision it returns: detail,
\* sheet and exports carry one publication revision.
RowsMatchRevision ==
    answer.kind = "value" /\ answer.revision # None =>
        answer.seen.rows = answer.revision
=============================================================================
