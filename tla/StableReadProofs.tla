-------------------------- MODULE StableReadProofs --------------------------
(***************************************************************************)
(* Proofs about StableRead, for every value of its constants: what a       *)
(* request returns without the lock of the base belongs to the revision it *)
(* returns, and was served while it ran.  They rest on the invariant of    *)
(* the writers, and on one fact more about their trees: a publication that *)
(* has left the installed place to another one never comes back to it.     *)
(***************************************************************************)
EXTENDS StableRead, PublicationProofs

\* A stage is not a tree that is installed or moved aside, and a tree has been
\* written; a journaled deletion finds one tree at most, that of the rows.
PlaceInv ==
    /\ \A t \in {final, old, new} : Exists(t) => fate[t.content] # "fresh"
    /\ Exists(new) => new.content \notin {final.content, old.content}
    /\ journal.kind = "delete" =>
          ~Exists(old) /\ (Exists(final) => final.content = rows)

\* The publication is not installed and no step can install it again.
Gone(r) ==
    /\ r \notin {final.content, new.content}
    /\ old.content = r => Exists(final)

Inside == {"rows", "load", "notes", "after", "verify"}
Files == {seen.manifest, seen.notes}

\* Files of another publication show that the first revision is gone, so that
\* it cannot be the last one as well.
FilesInv ==
    /\ at \in Inside /\ before # None =>
          /\ fate[before] # "fresh" /\ new.content # before
          /\ Files \subseteq {before, Missing} \/ Gone(before)
    /\ at = "verify" /\ before # None /\ after = before =>
          Files \subseteq {before, Missing}
    /\ FilesMatchRevision

\* The pending journal has already changed the rows.
RowsDecided ==
    \/ rows # None /\ journal = PublishJournal(rows)
    \/ rows = None /\ journal = DeleteJournal

\* A publication served while the request ran, or installed and pending.
Met(r) == r \in live \/ (journal = PublishJournal(r) /\ Installed)

\* Rows, files and revisions a request meets were served while it ran, or
\* belong to the operation whose journal is pending.
ServedInv ==
    /\ at # "idle" /\ ~Pending => rows \in live
    /\ at \notin {"idle", "gate"} => rows \in live \/ RowsDecided
    /\ at \in {"load", "notes", "after", "verify"} =>
          seen.rows \in live \/ (Pending /\ seen.rows = rows)
    /\ at \in Inside => \A f \in Files : f = Missing \/ Met(f)
    /\ at = "verify" /\ after # None => Met(after)
    /\ AnswerWasServed

\* A running request has an attempt left, which starts with nothing read.
AttemptInv ==
    /\ at # "idle" => attempt # 0
    /\ at \in {"idle", "gate", "before"} => seen = Nothing

ReaderInvariant == ReaderTypeOK /\ AttemptInv /\ PlaceInv /\ FilesInv /\ ServedInv

-----------------------------------------------------------------------------
(* What a step of the writers does to the trees *)

Fades(t) == t'.content \in {t.content, None}

\* Trees lose files or go; a deletion removes the installed one; a new stage
\* appears; a tree moves between the installed place and the other two.
TreesMove ==
    \/ final'.content = final.content /\ Fades(old) /\ Fades(new)
    \/ journal.kind = "delete" /\ ~Exists(final)' /\ Fades(old) /\ Fades(new)
    \/ /\ final' = final /\ old' = old /\ ~Pending
       /\ new'.content \in Tokens /\ fate[new'.content] = "fresh"
       /\ fate'[new'.content] = "staged"
    \/ /\ journal.kind # "delete"
       /\ \/ ~Exists(final) /\ final' = old /\ ~Exists(old)' /\ new' = new
          \/ ~Exists(old) /\ old' = final /\ ~Exists(final)' /\ new' = new
          \/ ~Exists(final) /\ final' = new /\ ~Exists(new)' /\ old' = old

\* A tree that is being removed has its content or none.
LEMMA RemovingFades ==
    ASSUME NEW t \in Tree, NEW r \in Removing(t)
    PROVE  r.content \in {t.content, None}
<1>1. CASE r = NoTree
    BY <1>1 DEF NoTree
<1>2. ASSUME NEW m \in {t.marker, None},
             r = [t EXCEPT !.marker = m, !.whole = FALSE]
      PROVE  r.content = t.content
    BY <1>2 DEF Tree
<1> QED
    BY <1>1, <1>2 DEF Removing

\* The steps that move a tree, and the others, which remove files at most.
LEMMA WorkMovesTrees ==
    ASSUME PublicationInvariant, NEW p \in Procs, Work(p)
    PROVE  TreesMove
<1> USE DEF At, TreesMove, Fades, disk
<1>0. /\ final \in Tree /\ old \in Tree /\ new \in Tree
      /\ fate \in [Contents -> {"fresh", "staged", "committed"}] /\ StepAt(p)
    BY DEF PublicationInvariant, TypeOK, StepInv
<1>1. CASE Stage(p)
    BY <1>0, <1>1 DEF Stage, StepAt, Contents
<1>2. CASE Retire(p)
    BY <1>0, <1>2, NoTreeFacts DEF Retire, StepAt, PublishJournal
<1>3. CASE Install(p)
    BY <1>0, <1>3, NoTreeFacts DEF Install, StepAt, PublishJournal
<1>4. CASE FailInstall(p) \/ RollBack(p) \/ RestoreOld(p)
    BY <1>0, <1>4, NoTreeFacts
       DEF FailInstall, RollBack, RestoreOld, StepAt, Pending, NoJournal,
           PublishJournal
<1>5. CASE Erase(p)
    BY <1>0, <1>5, NoTreeFacts, RemovingFades DEF Erase, StepAt, DeleteJournal,
       NoTree, Exists
<1>6. CASE SweepOld(p) \/ SweepNew(p) \/ Discard(p) \/ Clean(p) \/ Unstage(p)
    BY <1>0, <1>6, RemovingFades
       DEF SweepOld, SweepNew, Discard, Clean, Unstage, NoTree
<1>7. CASE WriteTree(p) \/ WriteMarker(p)
    BY <1>0, <1>7 DEF WriteTree, WriteMarker, Tree, NoTree
<1> QED
    BY <1>1, <1>2, <1>3, <1>4, <1>5, <1>6, <1>7
       DEF Work, Blocked, NoOld, Return, Fence, FailStage, OpenJournal,
           WriteJournal, FailJournal, CommitSource, CommitRows, DeleteRows,
           DeleteSources, CloseJournal, Refuse, RollForward, ResumeDelete,
           WriteReceipt

\* Every step of the writers does one of these things, and makes no used
\* publication fresh again.
LEMMA WritersMoveTrees ==
    ASSUME PublicationInvariant, [Next]_vars
    PROVE  /\ TreesMove
           /\ \A c \in Contents : fate'[c] = "fresh" => fate[c] = "fresh"
<1>1. ASSUME NEW p \in Procs, Begin(p) \/ Review(p) \/ BeginReconcile(p) \/ Stop(p)
      PROVE  UNCHANGED <<final, old, new, fate>>
    BY <1>1 DEF Begin, BeginPublish, BeginDelete, BeginInspect, Enter, Review,
       BeginReconcile, Stop, Leave, disk
<1>2. CASE UNCHANGED <<final, old, new, fate>>
    BY <1>2 DEF TreesMove, Fades
<1>3. ASSUME NEW p \in Procs, Work(p)
      PROVE  /\ TreesMove
             /\ \A c \in Contents : fate'[c] = "fresh" => fate[c] = "fresh"
  <2>1. TreesMove
      BY <1>3, WorkMovesTrees
  <2>2. \A c \in Contents : fate'[c] = "fresh" => fate[c] = "fresh"
      BY <1>3 DEF PublicationInvariant, TypeOK, Work, disk, Leave, Blocked,
         RestoreOld, SweepOld, NoOld, SweepNew, Return, Stage, WriteTree,
         WriteMarker, Fence, FailStage, Discard, OpenJournal, WriteJournal,
         FailJournal, Retire, Install, FailInstall, CommitSource, CommitRows,
         Erase, DeleteRows, DeleteSources, Clean, CloseJournal, Refuse,
         RollBack, Unstage, RollForward, ResumeDelete, WriteReceipt
  <2> QED
      BY <2>1, <2>2
<1> QED
    BY <1>1, <1>2, <1>3 DEF Next, vars, disk

-----------------------------------------------------------------------------
(* The trees beside the writers *)

\* The places of the trees keep apart.
LEMMA PlaceKept ==
    ASSUME PublicationInvariant, PlaceInv, [Next]_vars
    PROVE  PlaceInv'
<1>0. /\ final \in Tree /\ old \in Tree /\ new \in Tree
      /\ final' \in Tree /\ old' \in Tree /\ new' \in Tree
    BY NextKeeps DEF PublicationInvariant, TypeOK
<1>1. /\ TreesMove
      /\ \A c \in Contents : fate'[c] = "fresh" => fate[c] = "fresh"
    BY WritersMoveTrees
<1>2. \A t \in {final, old, new} : Exists(t) => t.content \in Contents
    BY <1>0 DEF Tree, Exists
<1>3. (\A t \in {final, old, new} : Exists(t) => fate[t.content] # "fresh")'
    BY <1>1, <1>2 DEF TreesMove, Fades, PlaceInv, Exists
<1>4. (Exists(new) => new.content \notin {final.content, old.content})'
    BY <1>1, <1>2 DEF TreesMove, Fades, PlaceInv, Exists
<1>5. (journal.kind = "delete" =>
          ~Exists(old) /\ (Exists(final) => final.content = rows))'
  <2>1. CASE journal' # journal
    <3>1. DiskInv
        BY DEF PublicationInvariant
    <3> QED
        BY <2>1, <3>1, JournalChangeTo DEF DiskInv, Matches, Current, Exists,
           Pending, NoJournal, TornJournal
  <2>2. CASE journal' = journal /\ rows' # rows
      BY <2>2, RowsChangeTo, RowsChangeOnly DEF PlaceInv, Exists,
         PublishJournal
  <2>3. CASE journal' = journal /\ rows' = rows
      BY <1>1, <2>3 DEF TreesMove, Fades, PlaceInv, Exists, Pending, NoJournal
  <2> QED
      BY <2>1, <2>2, <2>3
<1> QED
    BY <1>3, <1>4, <1>5 DEF PlaceInv

\* A publication that is gone stays gone.
LEMMA GoneKept ==
    ASSUME PublicationInvariant, PlaceInv, [Next]_vars,
           NEW r \in Contents, r # None, fate[r] # "fresh", Gone(r)
    PROVE  Gone(r)'
BY WritersMoveTrees DEF TreesMove, Fades, Gone, PlaceInv, Exists

\* A publication that was installed is never staged again.
LEMMA UnstagedKept ==
    ASSUME PublicationInvariant, [Next]_vars,
           NEW r \in Contents, r # None, fate[r] # "fresh", new.content # r
    PROVE  new'.content # r /\ fate'[r] # "fresh"
BY WritersMoveTrees, NoTreeFacts DEF TreesMove, Fades, Exists

\* A step of the writers keeps what a request has read.
LEMMA WriteKeepsFiles ==
    ASSUME PublicationInvariant, ReaderInvariant, Write
    PROVE  FilesInv'
<1> USE DEF Write
<1>1. ASSUME at \in Inside, before # None
      PROVE  /\ fate'[before] # "fresh" /\ new'.content # before
             /\ Files \subseteq {before, Missing} \/ Gone(before)'
  <2>1. /\ before \in Contents /\ fate[before] # "fresh"
        /\ new.content # before
        /\ Files \subseteq {before, Missing} \/ Gone(before)
      BY <1>1 DEF ReaderInvariant, FilesInv, ReaderTypeOK, Contents
  <2> QED
      BY <1>1, <2>1, GoneKept, UnstagedKept DEF ReaderInvariant, Gone
<1> QED
    BY <1>1 DEF ReaderInvariant, FilesInv, FilesMatchRevision, Files, Inside, Gone

\* The publication whose tree is installed was served while the request ran,
\* or is the one that is pending.
LEMMA ContentMet ==
    ASSUME PublicationInvariant, ReaderInvariant,
           at \notin {"idle", "gate"}, Exists(final)
    PROVE  Met(final.content)
<1> USE DEF Met
<1>1. Current = final
    BY DEF Current
<1>2. CASE Matches(Current) /\ ~RowsDecided
    BY <1>1, <1>2 DEF Matches, ReaderInvariant, ServedInv
<1>3. CASE journal.kind \in {"none", "torn"}
    BY <1>2, <1>3 DEF PublicationInvariant, DiskInv, RowsDecided,
       PublishJournal, DeleteJournal
<1>4. CASE journal.kind = "delete"
  <2>1. rows = final.content
      BY <1>1, <1>4 DEF ReaderInvariant, PlaceInv
  <2>2. ~RowsDecided
      BY <1>1, <1>4, <2>1 DEF RowsDecided, PublishJournal, Exists
  <2> QED
      BY <1>1, <2>1, <2>2 DEF ReaderInvariant, ServedInv
<1>5. CASE journal.kind = "publish"
  <2>1. CASE Installed
      BY <1>1, <1>5, <2>1
         DEF Installed, PublishJournal, PublicationInvariant, TypeOK, Journals,
             ShapeInv
  <2>2. CASE BeforeSwap
    <3>1. ~RowsDecided
        BY <1>5, <2>2 DEF BeforeSwap, RowsDecided, PublishJournal,
           DeleteJournal, PublicationInvariant, ShapeInv
    <3> QED
        BY <1>2, <2>2, <3>1 DEF BeforeSwap
  <2> QED
      BY <1>5, <2>1, <2>2 DEF PublicationInvariant, DiskInv, AfterSwap
<1> QED
    BY <1>3, <1>4, <1>5 DEF PublicationInvariant, TypeOK, Journals

\* So was the revision its marker names.
LEMMA RevisionMet ==
    ASSUME PublicationInvariant, ReaderInvariant,
           at \notin {"idle", "gate"}, Revision # None
    PROVE  Met(Revision)
<1>1. Exists(final) /\ Revision = final.content
    BY DEF PublicationInvariant, TypeOK, ShapeInv, Revision, Exists, Tree
<1> QED
    BY <1>1, ContentMet

\* A step of the writers keeps what is known of what a request met: what was pending is served as soon as its journal goes.
LEMMA WriteKeepsServed ==
    ASSUME PublicationInvariant, ReaderInvariant, Write
    PROVE  ServedInv'
<1> USE DEF Write
<1>0. /\ ServedInv /\ [Next]_vars
      /\ live \subseteq live'
      /\ at # "idle" /\ ~Pending' => rows' \in live'
    BY DEF ReaderInvariant
<1>1. ASSUME at \notin {"idle", "gate"}, Pending'
      PROVE  rows' \in live' \/ RowsDecided'
  <2>1. CASE journal' = journal /\ rows' = rows
      BY <1>0, <1>1, <2>1 DEF ServedInv, RowsDecided
  <2>2. CASE journal' # journal
      BY <1>0, <1>1, <2>2, JournalChangeTo
         DEF ServedInv, RowsDecided, Pending, NoJournal, TornJournal,
             PublishJournal, DeleteJournal
  <2>3. CASE rows' # rows
      BY <1>0, <2>3, RowsChangeTo, RowsChangeOnly, ConstantsDistinct
         DEF RowsDecided, Contents
  <2> QED
      BY <2>1, <2>2, <2>3
<1>2. ASSUME at \in {"load", "notes", "after", "verify"}
      PROVE  seen.rows \in live' \/ (Pending' /\ seen.rows = rows')
  <2> SUFFICES ASSUME Pending, seen.rows = rows, rows \notin live
               PROVE  rows \in live' \/ (Pending' /\ rows = rows')
      BY <1>0, <1>2 DEF ServedInv
  <2>1. RowsDecided
      BY <1>0, <1>2 DEF ServedInv
  <2>2. rows' = rows
      BY <1>0, <2>1, RowsChangeTo
         DEF RowsDecided, PublishJournal, DeleteJournal
  <2> QED
      BY <1>0, <1>2, <2>2
<1>3. ASSUME NEW r, at # "idle", Met(r)
      PROVE  Met(r)'
  <2> SUFFICES ASSUME journal = PublishJournal(r), Installed
               PROVE  r \in live' \/ (journal' = PublishJournal(r) /\ Installed')
      BY <1>0, <1>3 DEF Met
  <2>1. CASE journal' = journal
      BY <1>0, <2>1, InstalledStays DEF PublishJournal
  <2>2. CASE journal' # journal
      BY <1>0, <1>3, <2>2, JournalChangeTo
         DEF PublishJournal, TornJournal, Pending, NoJournal
  <2> QED
      BY <2>1, <2>2
<1>4. at \in Inside => \A f \in Files : f = Missing \/ Met(f)'
    BY <1>0, <1>3 DEF ServedInv, Inside
<1> QED
    BY <1>0, <1>1, <1>2, <1>3, <1>4 DEF ServedInv, AnswerWasServed, Files, Inside

-----------------------------------------------------------------------------
(* The steps of the reader *)

\* The reader's variables keep to their types, whoever moves.
LEMMA ReaderTyped ==
    ASSUME TypeOK, TypeOK', ReaderTypeOK, AttemptInv,
           Write \/ (Read /\ UNCHANGED vars)
    PROVE  ReaderTypeOK' /\ AttemptInv'
<1> USE MissingAssumption DEF ReaderTypeOK, AttemptInv, Stay, Finish,
        NoAnswer, Conflict, NotFound, Nothing
<1>1. CASE Write
    BY <1>1 DEF Write, TypeOK
<1>2. ASSUME NEW w \in Tokens \cup {None, "any"}, StartRead(w), UNCHANGED vars
      PROVE  ReaderTypeOK' /\ AttemptInv'
    BY <1>2 DEF StartRead, Served, TypeOK
<1>3. CASE Gate
    BY <1>3 DEF Gate
<1>4. CASE ReadBefore
    BY <1>4 DEF ReadBefore, Revision, TypeOK, Tree
<1>5. CASE ReadRows
    BY <1>5 DEF ReadRows, TypeOK
<1>6. FileOf(final) \subseteq Contents \cup {Missing}
    BY DEF FileOf, TypeOK, Tree, Exists
<1>7. CASE ReadManifest
    BY <1>6, <1>7 DEF ReadManifest
<1>8. CASE ReadNotes
    BY <1>6, <1>8 DEF ReadNotes
<1>9. CASE ReadAfter
    BY <1>9 DEF ReadAfter, Revision, TypeOK, Tree
<1>10. CASE Deliver
    BY <1>10 DEF Deliver
<1>11. CASE Retry
    BY <1>11 DEF Retry
<1>12. CASE FindNothing
    BY <1>12 DEF FindNothing
<1> QED
    BY <1>1, <1>2, <1>3, <1>4, <1>5, <1>7, <1>8, <1>9, <1>10, <1>11, <1>12 DEF Read

\* What a request reads keeps the facts about its files: a file of another
\* publication is read from an installed tree, so that the first revision is
\* gone, and is not what the request finds last.
LEMMA ReadKeepsFiles ==
    ASSUME PublicationInvariant, ReaderInvariant, Read, UNCHANGED vars
    PROVE  FilesInv'
<1> USE DEF Finish, Stay, Nothing
<1>0. /\ FilesInv /\ ReaderTypeOK /\ PlaceInv /\ FilesMatchRevision
      /\ UNCHANGED <<final, old, new, fate>>
    BY DEF ReaderInvariant, FilesInv, vars, disk
<1>1. /\ final.marker \in {None, final.content}
      /\ final.marker # None => Exists(final)
    BY DEF PublicationInvariant, ShapeInv, Exists
<1>2. ASSUME NEW w \in Tokens \cup {None, "any"}, StartRead(w)
      PROVE  FilesInv'
    BY <1>2 DEF StartRead, FilesInv, FilesMatchRevision, Inside, NoAnswer
<1>3. CASE Gate
    BY <1>0, <1>3 DEF Gate, FilesInv, FilesMatchRevision, Inside, NoAnswer,
       Conflict
<1>4. CASE ReadBefore
  <2>1. CASE at' = "idle"
      BY <1>4, <2>1 DEF ReadBefore, FilesInv, FilesMatchRevision, Inside,
         NoAnswer, Conflict
  <2>2. CASE at' # "idle"
    <3>1. before' = final.marker /\ at' = "rows" /\ UNCHANGED <<seen, answer>>
        BY <1>4, <2>2 DEF ReadBefore, Revision
    <3>2. before' # None => fate[before'] # "fresh" /\ new.content # before'
        BY <1>0, <1>1, <3>1 DEF PlaceInv, Exists
    <3>3. seen = Nothing
        BY <1>4 DEF ReaderInvariant, AttemptInv, ReadBefore
    <3> QED
        BY <1>0, <3>1, <3>2, <3>3 DEF FilesInv, FilesMatchRevision, Files
  <2> QED
      BY <2>1, <2>2
<1>5. CASE ReadRows
    BY <1>0, <1>5 DEF ReadRows, FilesInv, FilesMatchRevision, Inside, Files, Gone
<1>6. ASSUME NEW f \in FileOf(final), before # None, new.content # before
      PROVE  f \in {before, Missing} \/ Gone(before)
  <2>1. f = Missing \/ (Exists(final) /\ f = final.content)
      BY DEF FileOf
  <2> QED
      BY <1>6, <2>1 DEF Gone
<1>7. CASE ReadManifest
    BY <1>0, <1>6, <1>7 DEF ReadManifest, FilesInv, FilesMatchRevision,
       Inside, Files, Gone, ReaderTypeOK
<1>8. CASE ReadNotes
    BY <1>0, <1>6, <1>8 DEF ReadNotes, FilesInv, FilesMatchRevision, Inside,
       Files, Gone, ReaderTypeOK
<1>9. CASE ReadAfter
    BY <1>0, <1>1, <1>9 DEF ReadAfter, FilesInv, FilesMatchRevision, Inside,
       Files, Gone, Revision
<1>10. CASE Deliver
    BY <1>0, <1>10 DEF Deliver, Stable, FilesInv, FilesMatchRevision, Inside,
       Files, NotFound, NoAnswer
<1>11. CASE Retry
    BY <1>0, <1>11 DEF Retry, FilesInv, FilesMatchRevision, Inside,
       Conflict, NoAnswer
<1>12. CASE FindNothing
    BY <1>12 DEF FindNothing, FilesInv, FilesMatchRevision, Inside, NotFound,
       NoAnswer
<1> QED
    BY <1>2, <1>3, <1>4, <1>5, <1>7, <1>8, <1>9, <1>10, <1>11, <1>12 DEF Read

\* What a request reads was served, or is pending.
LEMMA ReadKeepsServed ==
    ASSUME PublicationInvariant, ReaderInvariant, Read, UNCHANGED vars
    PROVE  ServedInv'
<1> USE DEF Finish, Stay, Nothing, Files, Inside
<1>0. /\ ServedInv /\ AnswerWasServed /\ ReaderTypeOK /\ AttemptInv
      /\ UNCHANGED <<final, journal, rows>>
    BY DEF ReaderInvariant, ServedInv, vars, disk
<1>1. /\ (Pending <=> Pending') /\ (Installed <=> Installed')
      /\ (RowsDecided <=> RowsDecided')
    BY <1>0 DEF Pending, Installed, RowsDecided
<1>2. ASSUME NEW r, live' = live
      PROVE  Met(r)' <=> Met(r)
    BY <1>0, <1>1, <1>2 DEF Met
<1>3. ASSUME NEW f \in FileOf(final), at \in Inside
      PROVE  f = Missing \/ Met(f)
    BY <1>3, ContentMet DEF FileOf
<1> HIDE <1>0
<1>4. ASSUME NEW w \in Tokens \cup {None, "any"}, StartRead(w)
      PROVE  ServedInv'
    BY <1>0, <1>1, <1>4 DEF StartRead, Served, ServedInv, AnswerWasServed, NoAnswer
<1>5. CASE Gate
    BY <1>0, <1>1, <1>5 DEF Gate, ServedInv, AnswerWasServed, NoAnswer, Conflict
<1>6. CASE ReadBefore
    BY <1>0, <1>1, <1>6 DEF ReadBefore, ServedInv, AnswerWasServed, AttemptInv,
       NoAnswer, Conflict
<1>7. CASE ReadRows
  <2>1. (seen'.rows = rows /\ Pending) \/ rows \in live
      BY <1>0, <1>7 DEF ReadRows, ServedInv
  <2> QED
      BY <1>0, <1>1, <1>7, <2>1 DEF ReadRows, ServedInv, AnswerWasServed
<1>8. CASE ReadManifest
    BY <1>0, <1>1, <1>2, <1>3, <1>8
       DEF ReadManifest, ServedInv, AnswerWasServed, ReaderTypeOK
<1>9. CASE ReadNotes
    BY <1>0, <1>1, <1>2, <1>3, <1>9
       DEF ReadNotes, ServedInv, AnswerWasServed, ReaderTypeOK
<1>10. CASE ReadAfter
    BY <1>0, <1>1, <1>2, <1>10, RevisionMet
       DEF ReadAfter, ServedInv, AnswerWasServed
<1>11. CASE Deliver
  <2>1. ASSUME NEW r, Met(r)
        PROVE  r \in live
      BY <1>11, <2>1 DEF Deliver, Stable, Met, Pending, NoJournal, PublishJournal
  <2> QED
      BY <1>0, <1>1, <1>11, <2>1 DEF Deliver, Stable, ServedInv, AnswerWasServed,
         NotFound, NoAnswer
<1>12. CASE Retry
    BY <1>0, <1>1, <1>12 DEF Retry, ServedInv, AnswerWasServed, NoAnswer, Conflict
<1>13. CASE FindNothing
    BY <1>13 DEF FindNothing, ServedInv, AnswerWasServed, NotFound, NoAnswer
<1> QED
    BY <1>4, <1>5, <1>6, <1>7, <1>8, <1>9, <1>10, <1>11, <1>12, <1>13 DEF Read

-----------------------------------------------------------------------------
(* The theorems *)

\* The invariants of the writers and of the reader hold together in every
\* reachable state.
THEOREM ReaderInvariantHolds ==
    ReadSpec => [](PublicationInvariant /\ ReaderInvariant)
<1>1. Init /\ ReaderInit => PublicationInvariant /\ ReaderInvariant
  <2> SUFFICES ASSUME Init, ReaderInit
               PROVE  PublicationInvariant /\ ReaderInvariant
      OBVIOUS
  <2>1. PublicationInvariant
      BY InitHolds
  <2>2. ReaderTypeOK /\ AttemptInv /\ FilesInv /\ ServedInv
      BY DEF ReaderInit, ReaderTypeOK, AttemptInv, FilesInv, ServedInv,
         FilesMatchRevision, AnswerWasServed, Inside, NoAnswer, Nothing
  <2>3. PlaceInv
      BY ConstantsDistinct DEF Init, PlaceInv, NoTree, Exists, NoJournal, Contents
  <2> QED
      BY <2>1, <2>2, <2>3 DEF ReaderInvariant
<1>2. PublicationInvariant /\ ReaderInvariant
      /\ [Write \/ (Read /\ UNCHANGED vars)]_<<vars, reader>>
          => PublicationInvariant' /\ ReaderInvariant'
  <2> SUFFICES ASSUME PublicationInvariant, ReaderInvariant,
                      [Write \/ (Read /\ UNCHANGED vars)]_<<vars, reader>>
               PROVE  PublicationInvariant' /\ ReaderInvariant'
      OBVIOUS
  <2>1. [Next]_vars
      BY DEF Write
  <2>2. PublicationInvariant' /\ PlaceInv'
      BY <2>1, NextKeeps, PlaceKept DEF ReaderInvariant
  <2>3. CASE Write
      BY <2>2, <2>3, ReaderTyped, WriteKeepsFiles, WriteKeepsServed
         DEF ReaderInvariant, PublicationInvariant
  <2>4. CASE Read /\ UNCHANGED vars
      BY <2>2, <2>4, ReaderTyped, ReadKeepsFiles, ReadKeepsServed
         DEF ReaderInvariant, PublicationInvariant
  <2>5. CASE UNCHANGED <<vars, reader>>
    <3>1. UNCHANGED <<final, old, new, journal, rows, fate, reader>>
        BY <2>5 DEF vars, disk
    <3> QED
        BY <2>2, <3>1 DEF reader, ReaderInvariant, ReaderTypeOK, AttemptInv,
           FilesInv, ServedInv, FilesMatchRevision, AnswerWasServed, Files,
           Gone, Exists, Pending, RowsDecided, Installed, Met
  <2> QED
      BY <2>3, <2>4, <2>5
<1> QED
    BY <1>1, <1>2, PTL DEF ReadSpec

\* The variables of a request keep to their types.
THEOREM ReaderTypeCorrect == ReadSpec => []ReaderTypeOK
<1>1. ReaderInvariant => ReaderTypeOK
    BY DEF ReaderInvariant
<1> QED
    BY <1>1, ReaderInvariantHolds, PTL

\* A request that returns a publication's revision has read no file of any
\* other publication.
THEOREM FilesAreOfRevision == ReadSpec => []FilesMatchRevision
<1>1. ReaderInvariant => FilesMatchRevision
    BY DEF ReaderInvariant, FilesInv
<1> QED
    BY <1>1, ReaderInvariantHolds, PTL

\* The revision, the rows and the files a request returns were each served at
\* some instant of the request, whether it returns a revision or none.
THEOREM AnswersWereServed == ReadSpec => []AnswerWasServed
<1>1. ReaderInvariant => AnswerWasServed
    BY DEF ReaderInvariant, ServedInv
<1> QED
    BY <1>1, ReaderInvariantHolds, PTL

-----------------------------------------------------------------------------
(* When the rows are those of the revision *)

\* The reader is not overtaken between its look for a journal and the read of
\* the first revision: no journal is pending when it reads that revision.
\* MCReadRows shows what happens when it is.
NotOvertaken == ReadBefore => ~Pending

\* The catalog holds the rows of the first revision until that publication is
\* gone, and so did it when the rows were read.
RowsInv ==
    /\ at \in Inside /\ before # None =>
          /\ rows = before \/ Gone(before)
          /\ at # "rows" => seen.rows = before \/ Gone(before)
    /\ at = "verify" /\ before # None /\ after = before => seen.rows = before
    /\ RowsMatchRevision

\* When the rows change, the publication whose rows they were is replaced at
\* the installed place or removed from it.
LEMMA ReplacedGone ==
    ASSUME PublicationInvariant, PlaceInv, [Next]_vars,
           NEW r, r = rows, rows' # rows, rows # None, new.content # rows
    PROVE  Gone(r)'
<1>1. UNCHANGED <<final, old, new, journal>>
    BY RowsChangeOnly
<1>2. CASE journal = DeleteJournal /\ ~Exists(final)
    BY <1>1, <1>2 DEF PlaceInv, DeleteJournal, Gone, Exists
<1>3. CASE rows' \in Tokens /\ final.content = rows'
    BY <1>1, <1>3, ConstantsDistinct DEF Gone, Exists, Contents
<1> QED
    BY <1>2, <1>3, RowsChangeTo

\* A step of the writers keeps what is known of the rows a request reads.
LEMMA WriteKeepsRows ==
    ASSUME PublicationInvariant, ReaderInvariant, RowsInv, Write
    PROVE  RowsInv'
<1> USE DEF Write
<1>1. ASSUME at \in Inside, before # None
      PROVE  /\ rows' = before \/ Gone(before)'
             /\ at # "rows" => seen.rows = before \/ Gone(before)'
  <2>1. /\ before \in Contents /\ fate[before] # "fresh"
        /\ new.content # before
        /\ rows = before \/ Gone(before)
        /\ at # "rows" => seen.rows = before \/ Gone(before)
      BY <1>1 DEF ReaderInvariant, FilesInv, ReaderTypeOK, Contents, RowsInv
  <2>2. Gone(before) => Gone(before)'
      BY <1>1, <2>1, GoneKept DEF ReaderInvariant, Gone
  <2>3. rows = before => rows' = before \/ Gone(before)'
      BY <1>1, <2>1, ReplacedGone DEF ReaderInvariant, Gone
  <2> QED
      BY <2>1, <2>2, <2>3
<1> QED
    BY <1>1 DEF RowsInv, RowsMatchRevision, Inside

\* A request that is not overtaken meets the rows of the revision it reads
\* first, or that publication is gone and is not what it reads last.
LEMMA ReadKeepsRows ==
    ASSUME PublicationInvariant, ReaderInvariant, RowsInv, Read, NotOvertaken,
           UNCHANGED vars
    PROVE  RowsInv'
<1> USE DEF Finish, Stay, Nothing
<1>0. /\ RowsInv /\ RowsMatchRevision
      /\ UNCHANGED <<final, old, new, rows>>
    BY DEF RowsInv, vars, disk
<1>1. /\ final.marker \in {None, final.content}
      /\ final.marker # None => Exists(final)
    BY DEF PublicationInvariant, ShapeInv, Exists
<1>2. ASSUME NEW w \in Tokens \cup {None, "any"}, StartRead(w)
      PROVE  RowsInv'
    BY <1>0, <1>2 DEF StartRead, RowsInv, RowsMatchRevision, Inside, NoAnswer
<1>3. CASE Gate
    BY <1>0, <1>3 DEF Gate, RowsInv, RowsMatchRevision, Inside, NoAnswer, Conflict
<1>4. CASE ReadBefore
  <2>1. final.marker # None => rows = final.marker
      BY <1>1, <1>4 DEF NotOvertaken, PublicationInvariant, DiskInv, Matches,
         Current, Pending, NoJournal
  <2> QED
      BY <1>0, <1>4, <2>1 DEF ReadBefore, Revision, RowsInv, RowsMatchRevision,
         Inside, NoAnswer, Conflict
<1>5. CASE ReadRows
    BY <1>0, <1>5 DEF ReadRows, RowsInv, RowsMatchRevision, Inside, Gone, Exists
<1>6. CASE ReadManifest
    BY <1>0, <1>6 DEF ReadManifest, RowsInv, RowsMatchRevision, Inside, Gone,
       Exists, ReaderInvariant, ReaderTypeOK
<1>7. CASE ReadNotes
    BY <1>0, <1>7 DEF ReadNotes, RowsInv, RowsMatchRevision, Inside, Gone,
       Exists, ReaderInvariant, ReaderTypeOK
<1>8. CASE ReadAfter
    BY <1>0, <1>1, <1>8 DEF ReadAfter, RowsInv, RowsMatchRevision, Inside, Gone,
       Exists, Revision
<1>9. CASE Deliver
    BY <1>0, <1>9 DEF Deliver, Stable, RowsInv, RowsMatchRevision, Inside,
       NotFound, NoAnswer
<1>10. CASE Retry
    BY <1>0, <1>10 DEF Retry, RowsInv, RowsMatchRevision, Inside, Conflict, NoAnswer
<1>11. CASE FindNothing
    BY <1>11 DEF FindNothing, RowsInv, RowsMatchRevision, Inside, NotFound, NoAnswer
<1> QED
    BY <1>2, <1>3, <1>4, <1>5, <1>6, <1>7, <1>8, <1>9, <1>10, <1>11 DEF Read

\* The rows a request returns are those of the revision it returns, if no
\* writer opens its journal between the request's look for one and its read
\* of the first revision: that window is all that stands against the promise.
THEOREM RowsAreOfRevision ==
    ReadSpec /\ [][NotOvertaken]_<<vars, reader>> => []RowsMatchRevision
<1>1. Init /\ ReaderInit => RowsInv
    BY DEF ReaderInit, RowsInv, RowsMatchRevision, Inside, NoAnswer
<1>2. PublicationInvariant /\ ReaderInvariant /\ RowsInv
      /\ [Write \/ (Read /\ UNCHANGED vars)]_<<vars, reader>>
      /\ [NotOvertaken]_<<vars, reader>>
          => RowsInv'
  <2> SUFFICES ASSUME PublicationInvariant, ReaderInvariant, RowsInv,
                      [Write \/ (Read /\ UNCHANGED vars)]_<<vars, reader>>,
                      [NotOvertaken]_<<vars, reader>>
               PROVE  RowsInv'
      OBVIOUS
  <2>1. CASE Write
      BY <2>1, WriteKeepsRows
  <2>2. CASE Read /\ UNCHANGED vars /\ NotOvertaken
      BY <2>2, ReadKeepsRows
  <2>3. CASE UNCHANGED <<vars, reader>>
    <3>1. UNCHANGED <<final, old, new, rows, reader>>
        BY <2>3 DEF vars, disk
    <3> QED
        BY <3>1 DEF reader, RowsInv, RowsMatchRevision, Gone, Exists
  <2> QED
      BY <2>1, <2>2, <2>3
<1>3. RowsInv => RowsMatchRevision
    BY DEF RowsInv
<1> QED
    BY <1>1, <1>2, <1>3, ReaderInvariantHolds, PTL DEF ReadSpec
=============================================================================
