-------------------------- MODULE SongUpdateProofs --------------------------
(***************************************************************************)
(* The properties of SongUpdate for any number of requests, plays and      *)
(* stops.                                                                  *)
(***************************************************************************)
EXTENDS SongUpdate, TLAPS

Mentions(row, q) == row # None /\ q \in {row.title, row.tempo}
SameText(a, b) == a # None /\ b # None /\ a.title = b.title /\ a.tempo = b.tempo

\* Nobody has seen a change of request q.
Unused(q) == ~Mentions(song, q) /\ \A r \in Requests : ~Mentions(saw[r].rows, q)

\* A snapshot with the title and the tempo of the rows is one of the same
\* life of the song, so it cannot have more plays.
PlaysGrow ==
    \A r \in Requests : SameText(saw[r].rows, song) => saw[r].rows.plays <= song.plays

\* The rows `now` become `rows` by the change of r, made now or a second time.
ChangeOf(r, rows, now) ==
    /\ r \in Editors =>
         /\ now # None /\ rows # None /\ rows.plays <= now.plays
         /\ rows.title = (IF r \in Updates THEN Value(r, "title", now.title) ELSE now.title)
         /\ rows.tempo = (IF r \in Updates THEN Value(r, "tempo", now.tempo) ELSE now.tempo)
    /\ r \in Ingests => rows = [title |-> r, tempo |-> r, plays |-> 0]
    /\ r \in Deletes => rows = None

\* The rows of an open journal: the installed tree goes with them, they are
\* the change of its request, and they are committed or nobody has seen them.
JournalInv ==
    pending # None =>
      /\ at[pending.by] \in {"rows", "close", "done"}
      /\ ChangeOf(pending.by, pending.rows, song)
      /\ tree = None <=> pending.rows = None
      /\ tree # None => pending.rows.tempo = tree.notes
      /\ pending.by \in Updates \cup Ingests =>
           Unused(pending.by) \/ SameText(pending.rows, song)

\* What r has decided under the lock still holds when it swaps.
Decided(r) ==
    /\ expect[r] # AnyRevision => tree # None /\ tree.rev = expect[r]
    /\ r \in Editors => tree # None /\ SameText(saw[r].rows, song)
    /\ r \in Updates /\ "tempo" \in patch[r] => tree.backing = None
    /\ r \in Ingests => tree = None \/ tree.backing = None \/ saw[r].notes = r

RequestInv(r) ==
    /\ at[r] \in {"recheck", "swap", "rows", "close"} <=> holder = r
    /\ at[r] \in {"recheck", "swap"} => pending = None
    /\ at[r] \in {"rows", "close"} => pending # None /\ pending.by = r
    /\ at[r] \notin {"rows", "close", "done"} =>
         /\ r \in Updates \cup Ingests => Unused(r)
         /\ pending # None => pending.by # r
    /\ expect[r] # AnyRevision => r \in Editors
    /\ r \in Harmonies /\ at[r] \notin {"idle", "done"} => expect[r] # AnyRevision
    /\ r \in Updates /\ at[r] # "idle" => patch[r] # {}
    /\ r \in Updates /\ at[r] \in {"revision", "manifest", "notes", "lock", "recheck", "swap"}
         => saw[r].rows # None
    /\ at[r] = "swap" => Decided(r)
    /\ at[r] = "close" => IF pending.rows = None THEN song = None
                          ELSE SameText(pending.rows, song)

UpdateInv ==
    /\ UpdateTypeOK /\ BaseAgrees /\ PlaysGrow /\ JournalInv
    /\ \A r \in Requests : RequestInv(r)

-----------------------------------------------------------------------------
(* Types *)

\* The names of requests are not those of anything else, and a request is of
\* one kind.
LEMMA Kinds ==
    /\ \A r \in Requests : r \in Authors /\ r # None /\ r # AnyRevision
    /\ AnyRevision \notin Authors /\ None \notin Authors
    /\ Updates \subseteq Requests /\ Harmonies \subseteq Requests
    /\ Ingests \subseteq Requests /\ Deletes \subseteq Requests
    /\ \A r \in Requests : \/ r \in Updates /\ r \in Editors
                           \/ r \in Harmonies /\ r \in Editors
                           \/ r \in Ingests
                           \/ r \in Deletes
    /\ \A r \in Updates : r \notin Harmonies /\ r \notin Ingests /\ r \notin Deletes
    /\ \A r \in Harmonies : r \notin Ingests /\ r \notin Deletes
    /\ \A r \in Ingests : r \notin Deletes /\ r \notin Editors
    /\ \A r \in Deletes : r \notin Editors
BY UpdateConstants DEF Requests, Editors, Authors

LEMMA NothingIsNot ==
    None \notin Tree /\ None \notin Row /\ None \notin Journal /\ None \notin Base
BY NothingIsNone

LEMMA UnreadTyped == Unread \in Snapshots
BY DEF Unread, Snapshots

LEMMA EndsTyped ==
    ASSUME UpdateTypeOK, NEW r \in Requests, NEW outcome \in Outcomes, Ends(r, outcome)
    PROVE  /\ at' \in [Requests -> EditSteps]
           /\ expect' \in [Requests -> Authors \cup {AnyRevision}]
           /\ saw' \in [Requests -> Snapshots]
           /\ result' \in [Requests -> Outcomes] /\ moved' \subseteq Requests
BY UnreadTyped DEF Ends, Goes, UpdateTypeOK, EditSteps

LEMMA TypeKept1 ==
    ASSUME UpdateTypeOK, NEW r \in Requests,
           SendUpdate(r) \/ SendHarmony(r) \/ SendOther(r) \/ CheckRevision(r)
    PROVE  UpdateTypeOK'
<1> USE DEF UpdateTypeOK
<1>1. tree # None => tree.rev \in Authors
    BY DEF Tree
<1>2. {"open", "lock", "manifest"} \subseteq EditSteps /\ "conflict" \in Outcomes
    BY DEF EditSteps, Outcomes
<1>3. CASE SendUpdate(r)
  <2>1. \E e \in Authors \cup {AnyRevision} : expect' = [expect EXCEPT ![r] = e]
      BY <1>1, <1>3 DEF SendUpdate, Sent
  <2>2. /\ moved' \subseteq Requests
        /\ \E fields \in SUBSET Fields : patch' = [patch EXCEPT ![r] = fields]
      BY <1>3 DEF SendUpdate, Sent
  <2> QED
      BY <1>2, <1>3, <2>1, <2>2 DEF SendUpdate, Goes, base
<1>4. CASE SendHarmony(r)
  <2>1. expect' = [expect EXCEPT ![r] = tree.rev] /\ tree # None /\ moved' \subseteq Requests
      BY <1>4 DEF SendHarmony, Sent
  <2> QED
      BY <1>1, <1>2, <1>4, <2>1 DEF SendHarmony, Goes, base
<1>5. CASE SendOther(r)
    BY <1>2, <1>5 DEF SendOther, Goes, base
<1>6. CASE CheckRevision(r)
  <2>1. CASE RevisionHolds(r)
      BY <1>2, <1>6, <2>1 DEF CheckRevision, Goes, base
  <2>2. CASE ~RevisionHolds(r)
      BY <1>2, <1>6, <2>2, EndsTyped DEF CheckRevision, base
  <2> QED
      BY <2>1, <2>2
<1> QED
    BY <1>3, <1>4, <1>5, <1>6

LEMMA TypeKept2 ==
    ASSUME UpdateTypeOK, NEW r \in Requests,
           ReadRowsOf(r) \/ ReadManifestOf(r) \/ ReadNotesOf(r)
    PROVE  UpdateTypeOK'
<1> USE DEF UpdateTypeOK
<1>1. tree # None => tree.manifest \in Authors /\ tree.notes \in Authors
    BY DEF Tree
<1>2. {"revision", "notes", "lock"} \subseteq EditSteps /\ {"missing", "corrupt"} \subseteq Outcomes
    BY DEF EditSteps, Outcomes
<1>3. CASE ReadRowsOf(r)
  <2>1. CASE song = None
      BY <1>2, <1>3, <2>1, EndsTyped DEF ReadRowsOf, base
  <2>2. CASE song # None
    <3>1. saw' = [saw EXCEPT ![r].rows = song] /\ at' = [at EXCEPT ![r] = "revision"]
        BY <1>3, <2>2 DEF ReadRowsOf, Goes
    <3>2. saw' \in [Requests -> Snapshots]
        BY <3>1 DEF Snapshots
    <3> QED
        BY <1>2, <1>3, <2>2, <3>1, <3>2 DEF ReadRowsOf, base
  <2> QED
      BY <2>1, <2>2
<1>4. CASE ReadManifestOf(r)
  <2>1. CASE tree = None
      BY <1>2, <1>4, <2>1, EndsTyped DEF ReadManifestOf, base
  <2>2. CASE tree # None
    <3>1. /\ saw' = [saw EXCEPT ![r].manifest = tree.manifest, ![r].tempo = tree.notes]
          /\ at' = [at EXCEPT ![r] = "notes"]
        BY <1>4, <2>2 DEF ReadManifestOf, Goes
    <3>2. saw' \in [Requests -> Snapshots]
      <4>1. tree.manifest \in Authors /\ tree.notes \in Authors
          BY <1>1, <2>2
      <4>2. [saw[r] EXCEPT !.manifest = tree.manifest, !.tempo = tree.notes] \in Snapshots
          BY <4>1 DEF Snapshots
      <4> QED
          BY <3>1, <4>2
    <3> QED
        BY <1>2, <1>4, <2>2, <3>1, <3>2 DEF ReadManifestOf, base
  <2> QED
      BY <2>1, <2>2
<1>5. CASE ReadNotesOf(r)
  <2> DEFINE wrong == tree = None \/ {tree.notes, saw[r].rows.tempo} # {saw[r].tempo}
  <2>1. CASE wrong
      BY <1>2, <1>5, <2>1, EndsTyped DEF ReadNotesOf, base
  <2>2. CASE ~wrong
    <3>1. /\ saw' = [saw EXCEPT ![r].notes = tree.notes] /\ at' = [at EXCEPT ![r] = "lock"]
          /\ tree # None
        BY <1>5, <2>2 DEF ReadNotesOf, Goes
    <3>2. saw' \in [Requests -> Snapshots]
        BY <1>1, <3>1 DEF Snapshots
    <3> QED
        BY <1>2, <1>5, <2>2, <3>1, <3>2 DEF ReadNotesOf, base
  <2> QED
      BY <2>1, <2>2
<1> QED
    BY <1>3, <1>4, <1>5
LEMMA TypeKept3 ==
    ASSUME UpdateTypeOK, NEW r \in Requests, TakeLock(r) \/ CloseJournal(r) \/ Halt(r)
    PROVE  UpdateTypeOK'
<1> USE DEF UpdateTypeOK
<1>1. "recheck" \in EditSteps /\ {"refused", "done", "stopped"} \subseteq Outcomes
    BY DEF EditSteps, Outcomes
<1>2. CASE TakeLock(r)
  <2>1. CASE holder = None /\ pending = None
      BY <1>1, <1>2, <2>1 DEF TakeLock, Goes
  <2>2. CASE ~(holder = None /\ pending = None)
      BY <1>1, <1>2, <2>2, EndsTyped DEF TakeLock
  <2> QED
      BY <2>1, <2>2
<1>3. CASE CloseJournal(r)
    BY <1>1, <1>3, EndsTyped DEF CloseJournal
<1>4. CASE Halt(r)
  <2>1. halts' \in 0 .. MaxHalts
      BY <1>4, UpdateConstants DEF Halt
  <2> QED
      BY <1>1, <1>4, <2>1, EndsTyped DEF Halt
<1> QED
    BY <1>2, <1>3, <1>4

\* The rows and the tree each kind of request makes.
LEMMA RowsMade ==
    ASSUME NEW r \in Requests, NEW rows
    PROVE  /\ r \in Updates =>
                RowsBy(r, rows) = [rows EXCEPT !.title = Value(r, "title", rows.title),
                                               !.tempo = Value(r, "tempo", rows.tempo)]
           /\ r \in Harmonies => RowsBy(r, rows) = rows
           /\ r \in Ingests => RowsBy(r, rows) = [title |-> r, tempo |-> r, plays |-> 0]
           /\ r \in Deletes => RowsBy(r, rows) = None
BY Kinds DEF RowsBy

LEMMA TreeMade ==
    ASSUME NEW r \in Requests
    PROVE  /\ r \in Updates =>
                TreeBy(r) = [tree EXCEPT !.rev = r, !.manifest = r,
                                         !.notes = Value(r, "tempo", tree.notes),
                                         !.binding = None]
           /\ r \in Harmonies =>
                TreeBy(r) = [tree EXCEPT !.rev = r, !.backing = tree.notes,
                                         !.binding = expect[r]]
           /\ r \in Ingests =>
                TreeBy(r) = [rev |-> r, manifest |-> r, notes |-> r, binding |-> None,
                             backing |-> IF tree = None \/ saw[r].notes = r
                                         THEN None ELSE tree.backing]
           /\ r \in Deletes => TreeBy(r) = None
BY Kinds DEF TreeBy

\* An update keeps what its patch does not name.
LEMMA RowsEdited ==
    ASSUME UpdateTypeOK, NEW r \in Updates, NEW rows \in Row
    PROVE  /\ RowsBy(r, rows) \in Row
           /\ RowsBy(r, rows).title = Value(r, "title", rows.title)
           /\ RowsBy(r, rows).tempo = Value(r, "tempo", rows.tempo)
           /\ RowsBy(r, rows).plays = rows.plays
<1>1. RowsBy(r, rows) = [rows EXCEPT !.title = Value(r, "title", rows.title),
                                     !.tempo = Value(r, "tempo", rows.tempo)]
    BY Kinds, RowsMade
<1>2. /\ Value(r, "title", rows.title) \in Authors
      /\ Value(r, "tempo", rows.tempo) \in Authors
    BY Kinds DEF Value, Row
<1> QED
    BY <1>1, <1>2 DEF Row

LEMMA CommitMade ==
    ASSUME NEW rows \in Row \cup {None}, UpdateTypeOK
    PROVE  /\ Committed(rows) \in Row \cup {None}
           /\ rows = None => Committed(rows) = None
           /\ rows # None => SameText(Committed(rows), rows)
           /\ rows # None /\ song # None =>
                /\ song.plays <= Committed(rows).plays
                /\ rows.plays <= Committed(rows).plays
                /\ rows.plays <= song.plays => Committed(rows) = [rows EXCEPT !.plays = song.plays]
           /\ song = None => Committed(rows) = rows
<1>1. CASE rows = None
    BY <1>1 DEF Committed
<1>2. CASE rows # None /\ song = None
    BY <1>2 DEF Committed, SameText
<1>3. CASE rows # None /\ song # None
  <2>1. rows \in Row /\ song \in Row
      BY <1>3 DEF UpdateTypeOK
  <2>2. rows.plays \in Nat /\ song.plays \in Nat
      BY <2>1, UpdateConstants DEF Row
  <2>3. CASE song.plays < rows.plays
    <3>1. Committed(rows) = rows
        BY <2>3 DEF Committed
    <3> QED
        BY <1>3, <2>2, <2>3, <3>1 DEF SameText
  <2>4. CASE ~(song.plays < rows.plays)
    <3>1. Committed(rows) = [rows EXCEPT !.plays = song.plays]
        BY <1>3, <2>4 DEF Committed
    <3>2. /\ Committed(rows) \in Row
          /\ Committed(rows).plays = song.plays
          /\ Committed(rows).title = rows.title /\ Committed(rows).tempo = rows.tempo
        BY <2>1, <3>1 DEF Row
    <3> QED
        BY <1>3, <2>2, <2>4, <3>1, <3>2, NothingIsNot DEF SameText
  <2> QED
      BY <2>3, <2>4
<1> QED
    BY <1>1, <1>2, <1>3

LEMMA TypeKept4 ==
    ASSUME UpdateTypeOK,
           \/ pending # None /\ \E r \in Requests : CommitRows(r)
           \/ Replay \/ Play
    PROVE  UpdateTypeOK'
<1> USE DEF UpdateTypeOK
<1>1. pending # None => /\ pending.rows \in Row \cup {None} /\ pending.by \in Requests
                        /\ Committed(pending.rows) \in Row \cup {None}
    BY CommitMade DEF Journal
<1>2. CASE pending # None /\ \E r \in Requests : CommitRows(r)
  <2>1. at' \in [Requests -> EditSteps] /\ moved' \subseteq Requests
      BY <1>2 DEF CommitRows, Disturb, Goes, EditSteps
  <2> QED
      BY <1>1, <1>2, <2>1 DEF CommitRows
<1>3. CASE Replay
  <2>1. moved' \subseteq Requests
      BY <1>3 DEF Replay, Disturb
  <2> QED
      BY <1>1, <1>3, <2>1 DEF Replay
<1>4. CASE Play
  <2>1. song \in Row /\ song.plays < MaxPlays
      BY <1>4 DEF Play
  <2>2. song.plays + 1 \in 0 .. MaxPlays
      BY <2>1, UpdateConstants DEF Row
  <2>3. song' \in Row
      BY <1>4, <2>1, <2>2 DEF Play, Row
  <2> QED
      BY <1>4, <2>3 DEF Play
<1> QED
    BY <1>2, <1>3, <1>4

LEMMA TypeKept5 ==
    ASSUME UpdateTypeOK, NEW r \in Requests, Recheck(r)
    PROVE  UpdateTypeOK'
<1> USE DEF UpdateTypeOK
<1> PICK study \in {FALSE} \cup {r \in Ingests}, same \in BOOLEAN :
         LET verdict == Verdict(r, study, same) IN
         IF verdict = "ok"
         THEN /\ Goes(r, "swap")
              /\ saw' = IF r \in Harmonies THEN [saw EXCEPT ![r].rows = song]
                        ELSE IF study THEN [saw EXCEPT ![r].notes = r] ELSE saw
              /\ UNCHANGED <<holder, expect, result, moved>>
         ELSE Ends(r, verdict) /\ holder' = None
    BY DEF Recheck
<1>1. CASE Verdict(r, study, same) = "ok"
  <2>1. at' = [at EXCEPT ![r] = "swap"] /\ UNCHANGED <<holder, expect, result, moved>>
      BY <1>1 DEF Goes
  <2>2. CASE r \in Harmonies
    <3>1. saw' = [saw EXCEPT ![r].rows = song]
        BY <1>1, <2>2
    <3>2. saw' \in [Requests -> Snapshots]
        BY <3>1 DEF Snapshots
    <3> QED
        BY <2>1, <3>2 DEF Recheck, EditSteps
  <2>3. CASE r \notin Harmonies /\ study
    <3>1. saw' = [saw EXCEPT ![r].notes = r]
        BY <1>1, <2>3
    <3>2. saw' \in [Requests -> Snapshots]
      <4>1. r \in Authors
          BY Kinds
      <4> QED
          BY <3>1, <4>1 DEF Snapshots
    <3> QED
        BY <2>1, <3>2 DEF Recheck, EditSteps
  <2>4. CASE r \notin Harmonies /\ ~study
    <3>1. saw' = saw
        BY <1>1, <2>4
    <3> QED
        BY <2>1, <3>1 DEF Recheck, EditSteps
  <2> QED
      BY <2>2, <2>3, <2>4
<1>2. CASE Verdict(r, study, same) # "ok"
  <2>1. Verdict(r, study, same) \in Outcomes
      BY <1>2 DEF Verdict, Outcomes
  <2> QED
      BY <1>2, <2>1, EndsTyped DEF Recheck
<1> QED
    BY <1>1, <1>2
-----------------------------------------------------------------------------
(* The invariant *)

LEMMA UpdateBegins == UpdateInit => UpdateInv
<1> SUFFICES ASSUME UpdateInit PROVE UpdateInv
    OBVIOUS
<1> USE DEF UpdateInit
<1>1. UpdateTypeOK
  <2>1. {0} \subseteq 0 .. MaxPlays /\ halts \in 0 .. MaxHalts
      BY UpdateConstants
  <2>2. First \in Authors
      BY DEF Authors
  <2>3. tree \in Tree /\ song \in Row
      BY <2>1, <2>2 DEF Tree, Row
  <2>4. /\ at \in [Requests -> EditSteps] /\ result \in [Requests -> Outcomes]
        /\ saw \in [Requests -> Snapshots]
      BY UnreadTyped DEF EditSteps, Outcomes
  <2> QED
      BY <2>1, <2>3, <2>4 DEF UpdateTypeOK
<1>2. BaseAgrees
  <2>1. tree # None /\ song # None
    <3>1. tree \in Tree /\ song \in Row
        BY UpdateConstants DEF Tree, Row, Authors
    <3> QED
        BY <3>1, NothingIsNot
  <2>2. song.tempo = First /\ tree.notes = First /\ tree.backing = None
      OBVIOUS
  <2> QED
      BY <2>1, <2>2 DEF BaseAgrees
<1>3. PlaysGrow /\ JournalInv
    BY DEF PlaysGrow, JournalInv, SameText, Unread
<1>4. ASSUME NEW r \in Requests PROVE RequestInv(r)
  <2>1. Unused(r)
      BY UpdateConstants DEF Unused, Mentions, Unread
  <2> QED
      BY <2>1, Kinds DEF RequestInv
<1> QED
    BY <1>1, <1>2, <1>3, <1>4 DEF UpdateInv

\* What the steps of one request outside a publication have in common: the
\* base stays, and what r knows of the rows is what it knew, or the rows.
Private(r) ==
    /\ UNCHANGED <<tree, song, pending>>
    /\ \A q \in Requests \ {r} :
         /\ at'[q] = at[q] /\ patch'[q] = patch[q] /\ expect'[q] = expect[q]
         /\ saw'[q] = saw[q] /\ (holder' = q <=> holder = q)
    /\ saw'[r].rows \in {None, saw[r].rows, song}
    /\ pending # None /\ pending.by = r =>
         patch'[r] = patch[r] /\ at'[r] \in {"rows", "close", "done"}

\* A request that is unused stays so when somebody looks at the rows.
LEMMA UnusedKept ==
    ASSUME NEW r \in Requests, Private(r), NEW q, Unused(q)
    PROVE  Unused(q)'
<1>1. \A p \in Requests : saw'[p].rows \in {None, saw[p].rows, song}
    BY DEF Private
<1> QED
    BY <1>1 DEF Unused, Mentions, Private

LEMMA PrivateKeeps ==
    ASSUME UpdateInv, UpdateTypeOK', NEW r \in Requests, Private(r), RequestInv(r)'
    PROVE  UpdateInv'
<1>1. BaseAgrees'
    BY DEF UpdateInv, BaseAgrees, Private
<1>2. PlaysGrow'
  <2> SUFFICES ASSUME NEW q \in Requests, SameText(saw'[q].rows, song')
               PROVE  saw'[q].rows.plays <= song'.plays
      BY DEF PlaysGrow
  <2>1. song' = song /\ saw'[q].rows \in {None, saw[q].rows, song}
      BY DEF Private
  <2>2. song # None /\ saw'[q].rows # None
      BY <2>1 DEF SameText
  <2>3. song.plays <= song.plays
      BY <2>2, UpdateConstants DEF UpdateInv, UpdateTypeOK, Row
  <2> QED
      BY <2>1, <2>2, <2>3 DEF UpdateInv, PlaysGrow
<1>3. JournalInv'
  <2> SUFFICES ASSUME pending' # None PROVE JournalInv'
      BY DEF JournalInv
  <2>1. /\ pending' = pending /\ tree' = tree /\ song' = song /\ JournalInv
        /\ pending # None /\ pending.by \in Requests
      BY DEF Private, UpdateInv, UpdateTypeOK, Journal
  <2>2. /\ at'[pending.by] \in {"rows", "close", "done"}
        /\ patch'[pending.by] = patch[pending.by]
      BY <2>1 DEF Private, JournalInv
  <2>3. ChangeOf(pending.by, pending.rows, song)'
      BY <2>1, <2>2 DEF JournalInv, ChangeOf, Value
  <2>4. pending.by \in Updates \cup Ingests =>
          Unused(pending.by)' \/ SameText(pending.rows, song)
      BY <2>1, UnusedKept DEF JournalInv
  <2> QED
      BY <2>1, <2>2, <2>3, <2>4 DEF JournalInv, SameText, Unused
<1>4. ASSUME NEW q \in Requests PROVE RequestInv(q)'
  <2>1. CASE q # r
    <3>1. /\ at'[q] = at[q] /\ patch'[q] = patch[q] /\ expect'[q] = expect[q]
          /\ saw'[q] = saw[q] /\ (holder' = q <=> holder = q)
          /\ UNCHANGED <<tree, song, pending>> /\ RequestInv(q)
        BY <2>1 DEF Private, UpdateInv
    <3>2. Unused(q) => Unused(q)'
        BY UnusedKept
    <3>3. at'[q] = "swap" => Decided(q)'
        BY <3>1 DEF RequestInv, Decided, SameText
    <3> QED
        BY <3>1, <3>2, <3>3 DEF RequestInv, SameText
  <2> QED
      BY <2>1
<1> QED
    BY <1>1, <1>2, <1>3, <1>4 DEF UpdateInv
\* A request that ends forgets what it saw.
LEMMA EndsPrivate ==
    ASSUME UpdateInv, UpdateTypeOK', NEW r \in Requests, NEW outcome, Ends(r, outcome),
           UNCHANGED <<tree, song, pending, patch>>, at[r] # "idle",
           holder' = IF holder = r THEN None ELSE holder
    PROVE  UpdateInv'
<1>1. /\ at' = [at EXCEPT ![r] = "done"] /\ expect' = [expect EXCEPT ![r] = AnyRevision]
      /\ saw' = [saw EXCEPT ![r] = Unread]
    BY DEF Ends, Goes
<1>2. /\ at'[r] = "done" /\ expect'[r] = AnyRevision /\ saw'[r].rows = None
      /\ \A q \in Requests \ {r} : at'[q] = at[q] /\ expect'[q] = expect[q] /\ saw'[q] = saw[q]
    BY <1>1 DEF UpdateInv, UpdateTypeOK, Unread
<1>3. holder' # r /\ \A q \in Requests \ {r} : holder' = q <=> holder = q
    BY Kinds
<1>4. Private(r)
    BY <1>2, <1>3 DEF Private
<1>5. RequestInv(r)'
    BY <1>2, <1>3 DEF RequestInv, UpdateInv
<1> QED
    BY <1>4, <1>5, PrivateKeeps

LEMMA SendKeeps ==
    ASSUME UpdateInv, NEW r \in Requests, SendUpdate(r) \/ SendHarmony(r) \/ SendOther(r)
    PROVE  UpdateInv'
<1>1. UpdateTypeOK /\ UpdateTypeOK' /\ RequestInv(r)
    BY TypeKept1 DEF UpdateInv
<1>2. /\ UNCHANGED <<tree, song, pending, holder, saw>> /\ at[r] = "idle"
      /\ at'[r] \in {"open", "lock"} /\ \A q \in Requests \ {r} : at'[q] = at[q]
      /\ at'[r] = "open" => r \in Updates
    BY <1>1, Kinds DEF SendUpdate, SendHarmony, SendOther, Sent, Comes, Goes, base, UpdateTypeOK
<1>3. \A q \in Requests \ {r} : patch'[q] = patch[q] /\ expect'[q] = expect[q]
    BY <1>1 DEF SendUpdate, SendHarmony, SendOther, Sent, UpdateTypeOK
<1>4. pending # None => pending.by # r
    BY <1>1, <1>2 DEF RequestInv
<1>5. Private(r)
    BY <1>2, <1>3, <1>4 DEF Private
<1>6. Unused(r) => Unused(r)'
    BY <1>5, UnusedKept
<1>7. /\ r \in Updates => patch'[r] # {} /\ at'[r] = "open"
      /\ expect'[r] # AnyRevision => r \in Editors
      /\ r \in Harmonies => expect'[r] # AnyRevision
  <2>1. CASE SendUpdate(r)
    <3>1. r \in Updates /\ r \in Editors /\ r \notin Harmonies
        BY <2>1, Kinds DEF SendUpdate
    <3>2. patch'[r] # {} /\ at'[r] = "open"
        BY <1>1, <2>1 DEF SendUpdate, Goes, UpdateTypeOK
    <3> QED
        BY <3>1, <3>2
  <2>2. CASE SendHarmony(r)
    <3>1. r \in Harmonies /\ r \in Editors /\ r \notin Updates
        BY <2>2, Kinds DEF SendHarmony
    <3>2. expect'[r] = tree.rev /\ tree \in Tree
        BY <1>1, <2>2 DEF SendHarmony, Sent, UpdateTypeOK
    <3>3. tree.rev # AnyRevision
        BY <3>2, Kinds DEF Tree
    <3> QED
        BY <3>1, <3>2, <3>3
  <2>3. CASE SendOther(r)
    <3>1. r \notin Updates /\ r \notin Harmonies
        BY <2>3, Kinds DEF SendOther
    <3>2. expect' = expect
        BY <2>3 DEF SendOther
    <3> QED
        BY <1>1, <3>1, <3>2 DEF RequestInv
  <2> QED
      BY <2>1, <2>2, <2>3
<1>8. RequestInv(r)'
    BY <1>1, <1>2, <1>4, <1>6, <1>7, Kinds DEF RequestInv
<1> QED
    BY <1>1, <1>5, <1>8, PrivateKeeps

LEMMA ReadKeeps ==
    ASSUME UpdateInv, NEW r \in Requests,
           ReadRowsOf(r) \/ CheckRevision(r) \/ ReadManifestOf(r) \/ ReadNotesOf(r)
    PROVE  UpdateInv'
<1>1. UpdateTypeOK /\ UpdateTypeOK' /\ RequestInv(r)
    BY TypeKept1, TypeKept2 DEF UpdateInv
<1>2. /\ UNCHANGED <<tree, song, pending, holder, patch>>
      /\ at[r] \in {"open", "revision", "manifest", "notes"} /\ holder # r
    BY <1>1 DEF ReadRowsOf, CheckRevision, ReadManifestOf, ReadNotesOf, base, RequestInv
<1>3. CASE \E outcome : Ends(r, outcome)
    BY <1>1, <1>2, <1>3, EndsPrivate
<1>4. CASE ~\E outcome : Ends(r, outcome)
  <2>1. /\ expect' = expect /\ at'[r] \in {"revision", "manifest", "notes", "lock"}
        /\ saw'[r].rows \in {saw[r].rows, song}
        /\ saw'[r].rows = saw[r].rows \/ song # None
        /\ at[r] = "open" => saw'[r].rows = song /\ song # None
        /\ \A q \in Requests \ {r} : at'[q] = at[q] /\ saw'[q] = saw[q]
    <3>1. CASE ReadRowsOf(r)
      <4>1. /\ song # None /\ saw' = [saw EXCEPT ![r].rows = song]
            /\ at' = [at EXCEPT ![r] = "revision"] /\ expect' = expect
          BY <1>4, <3>1 DEF ReadRowsOf, Goes
      <4> QED
          BY <1>1, <4>1 DEF UpdateTypeOK, Snapshots
    <3>2. CASE CheckRevision(r)
      <4>1. /\ saw' = saw /\ at' = [at EXCEPT ![r] = "manifest"] /\ expect' = expect
            /\ at[r] = "revision"
          BY <1>4, <3>2 DEF CheckRevision, Goes
      <4> QED
          BY <1>1, <4>1 DEF UpdateTypeOK
    <3>3. CASE ReadManifestOf(r)
      <4>1. /\ saw' = [saw EXCEPT ![r].manifest = tree.manifest, ![r].tempo = tree.notes]
            /\ at' = [at EXCEPT ![r] = "notes"] /\ expect' = expect /\ at[r] = "manifest"
          BY <1>4, <3>3 DEF ReadManifestOf, Goes
      <4> QED
          BY <1>1, <4>1 DEF UpdateTypeOK, Snapshots
    <3>4. CASE ReadNotesOf(r)
      <4>1. /\ saw' = [saw EXCEPT ![r].notes = tree.notes]
            /\ at' = [at EXCEPT ![r] = "lock"] /\ expect' = expect /\ at[r] = "notes"
          BY <1>4, <3>4 DEF ReadNotesOf, Goes
      <4> QED
          BY <1>1, <4>1 DEF UpdateTypeOK, Snapshots
    <3> QED
        BY <3>1, <3>2, <3>3, <3>4
  <2>2. pending # None => pending.by # r
      BY <1>1, <1>2 DEF RequestInv
  <2>3. Private(r)
      BY <1>2, <2>1, <2>2 DEF Private
  <2>4. Unused(r) => Unused(r)'
      BY <2>3, UnusedKept
  <2>5. RequestInv(r)'
      BY <1>1, <1>2, <2>1, <2>2, <2>4, Kinds DEF RequestInv
  <2> QED
      BY <1>1, <2>3, <2>5, PrivateKeeps
<1> QED
    BY <1>3, <1>4
LEMMA LockKeeps ==
    ASSUME UpdateInv, NEW r \in Requests, TakeLock(r) \/ Halt(r)
    PROVE  UpdateInv'
<1>1. UpdateTypeOK /\ UpdateTypeOK' /\ RequestInv(r)
    BY TypeKept3 DEF UpdateInv
<1>2. UNCHANGED <<tree, song, pending, patch>>
    BY DEF TakeLock, Halt
<1>3. CASE \E outcome : Ends(r, outcome)
  <2>1. at[r] # "idle" /\ holder' = IF holder = r THEN None ELSE holder
    <3>1. CASE TakeLock(r)
      <4>1. at'[r] = "done" /\ at[r] = "lock" /\ holder # r
          BY <1>1, <1>3, <3>1 DEF TakeLock, Ends, Goes, UpdateTypeOK, RequestInv
      <4>2. ~Goes(r, "recheck")
          BY <1>1, <4>1 DEF Goes, UpdateTypeOK
      <4> QED
          BY <3>1, <4>1, <4>2 DEF TakeLock
    <3>2. CASE Halt(r)
        BY <1>1, <3>2 DEF Halt, RequestInv
    <3> QED
        BY <3>1, <3>2
  <2> QED
      BY <1>1, <1>2, <1>3, <2>1, EndsPrivate
<1>4. CASE ~\E outcome : Ends(r, outcome)
  <2>1. /\ at[r] = "lock" /\ holder = None /\ pending = None /\ holder' = r
        /\ at' = [at EXCEPT ![r] = "recheck"] /\ UNCHANGED <<expect, saw>>
      BY <1>4 DEF TakeLock, Halt, Goes
  <2>2. at'[r] = "recheck" /\ \A q \in Requests \ {r} : at'[q] = at[q]
      BY <1>1, <2>1 DEF UpdateTypeOK
  <2>3. Private(r)
      BY <1>2, <2>1, <2>2, Kinds DEF Private
  <2>4. Unused(r) => Unused(r)'
      BY <2>3, UnusedKept
  <2>5. RequestInv(r)'
      BY <1>1, <1>2, <2>1, <2>2, <2>4 DEF RequestInv
  <2> QED
      BY <1>1, <2>3, <2>5, PrivateKeeps
<1> QED
    BY <1>3, <1>4

\* What a request has decided when its verdict is "ok".
LEMMA VerdictOk ==
    ASSUME NEW r \in Requests, NEW study, NEW same, Verdict(r, study, same) = "ok"
    PROVE  /\ r \in Editors => RevisionHolds(r)
           /\ r \in Updates => SameSource(r)
           /\ r \in Updates \cup Ingests => study \/ BackingFits(r)
BY DEF Verdict

LEMMA RecheckKeeps ==
    ASSUME UpdateInv, NEW r \in Requests, Recheck(r)
    PROVE  UpdateInv'
<1>1. UpdateTypeOK /\ UpdateTypeOK' /\ RequestInv(r) /\ BaseAgrees
    BY TypeKept5 DEF UpdateInv
<1>2. /\ UNCHANGED <<tree, song, pending, patch>> /\ at[r] = "recheck" /\ holder = r
      /\ pending = None
    BY <1>1 DEF Recheck, RequestInv
<1> PICK study \in {FALSE} \cup {r \in Ingests}, same \in BOOLEAN :
         LET verdict == Verdict(r, study, same) IN
         IF verdict = "ok"
         THEN /\ Goes(r, "swap")
              /\ saw' = IF r \in Harmonies THEN [saw EXCEPT ![r].rows = song]
                        ELSE IF study THEN [saw EXCEPT ![r].notes = r] ELSE saw
              /\ UNCHANGED <<holder, expect, result, moved>>
         ELSE Ends(r, verdict) /\ holder' = None
    BY DEF Recheck
<1>3. CASE Verdict(r, study, same) # "ok"
    BY <1>1, <1>2, <1>3, EndsPrivate
<1>4. CASE Verdict(r, study, same) = "ok"
  <2>1. /\ at' = [at EXCEPT ![r] = "swap"] /\ UNCHANGED <<holder, expect>>
        /\ saw' = IF r \in Harmonies THEN [saw EXCEPT ![r].rows = song]
                  ELSE IF study THEN [saw EXCEPT ![r].notes = r] ELSE saw
      BY <1>4 DEF Goes
  <2>2. at'[r] = "swap" /\ \A q \in Requests \ {r} : at'[q] = at[q] /\ saw'[q] = saw[q]
      BY <1>1, <2>1 DEF UpdateTypeOK
  <2>3. /\ r \in Harmonies => saw'[r].rows = song
        /\ r \notin Harmonies => saw'[r].rows = saw[r].rows
        /\ r \in Ingests /\ study => saw'[r].notes = r
    <3>1. saw \in [Requests -> Snapshots]
        BY <1>1 DEF UpdateTypeOK
    <3>2. CASE r \in Harmonies
        BY <2>1, <3>1, <3>2, Kinds DEF Snapshots
    <3>3. CASE r \notin Harmonies /\ study
        BY <2>1, <3>1, <3>3 DEF Snapshots
    <3>4. CASE r \notin Harmonies /\ ~study
        BY <2>1, <3>4
    <3> QED
        BY <3>2, <3>3, <3>4
  <2>4. Private(r)
      BY <1>2, <2>1, <2>2, <2>3 DEF Private
  <2>5. r \in Editors => RevisionHolds(r)
      BY <1>4, VerdictOk
  <2>6. r \in Updates => SameSource(r)
      BY <1>4, VerdictOk
  <2>7. r \in Updates \cup Ingests => study \/ BackingFits(r)
      BY <1>4, VerdictOk
  <2>8. r \in Updates => BackingFits(r)
      BY <2>7, Kinds
  <2>9. ~study => study = FALSE
      OBVIOUS
  <2>10. r \in Updates => tree # None /\ SameText(saw'[r].rows, song')
    <3> SUFFICES ASSUME r \in Updates PROVE tree # None /\ SameText(saw'[r].rows, song')
        OBVIOUS
    <3>1. tree # None /\ song # None /\ saw[r].rows # None
          /\ [song EXCEPT !.plays = 0] = [saw[r].rows EXCEPT !.plays = 0]
        BY <1>1, <1>2, <2>6 DEF SameSource, SameRows, RequestInv
    <3>2. song \in Row /\ saw[r].rows \in Row
        BY <1>1, <3>1 DEF UpdateTypeOK, Snapshots
    <3>3. song.title = saw[r].rows.title /\ song.tempo = saw[r].rows.tempo
      <4>1. /\ [song EXCEPT !.plays = 0].title = song.title
            /\ [song EXCEPT !.plays = 0].tempo = song.tempo
            /\ [saw[r].rows EXCEPT !.plays = 0].title = saw[r].rows.title
            /\ [saw[r].rows EXCEPT !.plays = 0].tempo = saw[r].rows.tempo
          BY <3>2 DEF Row
      <4> QED
          BY <3>1, <4>1
    <3> QED
        BY <1>2, <2>3, <3>1, <3>3, Kinds DEF SameText
  <2>11. r \in Harmonies => tree # None /\ SameText(saw'[r].rows, song')
    <3> SUFFICES ASSUME r \in Harmonies PROVE tree # None /\ SameText(saw'[r].rows, song')
        OBVIOUS
    <3>1. tree # None
        BY <1>1, <1>2, <2>5, Kinds DEF RevisionHolds, RequestInv
    <3> QED
        BY <1>1, <1>2, <2>3, <3>1 DEF BaseAgrees, SameText
  <2>12. Decided(r)'
    <3>1. expect[r] # AnyRevision => tree # None /\ tree.rev = expect[r]
        BY <1>1, <2>5 DEF RevisionHolds, RequestInv
    <3>2. r \in Editors => tree # None /\ SameText(saw'[r].rows, song')
        BY <2>10, <2>11 DEF Editors
    <3>3. r \in Updates /\ "tempo" \in patch[r] => tree.backing = None
        BY <2>8, <2>10 DEF BackingFits
    <3>4. r \in Ingests => tree = None \/ tree.backing = None \/ saw'[r].notes = r
        BY <2>3, <2>7, Kinds DEF BackingFits
    <3> QED
        BY <1>2, <2>1, <3>1, <3>2, <3>3, <3>4 DEF Decided, SameText
  <2>13. Unused(r) => Unused(r)'
      BY <2>4, UnusedKept
  <2>14. r \in Updates => saw'[r].rows # None
      BY <2>10 DEF SameText
  <2>15. RequestInv(r)'
      BY <1>1, <1>2, <2>1, <2>2, <2>12, <2>13, <2>14 DEF RequestInv
  <2> QED
      BY <1>1, <2>4, <2>15, PrivateKeeps
<1> QED
    BY <1>3, <1>4
-----------------------------------------------------------------------------
(* The steps that change the base *)

\* A swap and the journal that goes with it.
LEMMA SwapMade ==
    ASSUME UpdateInv, NEW r \in Requests, Swap(r)
    PROVE  /\ pending' \in Journal /\ pending'.by = r /\ tree' \in Tree \cup {None}
           /\ ChangeOf(r, pending'.rows, song)
           /\ tree' = None <=> pending'.rows = None
           /\ tree' # None => /\ pending'.rows.tempo = tree'.notes
                              /\ tree'.backing \in {None, tree'.notes}
<1> DEFINE rows == RowsBy(r, saw[r].rows)
<1>1. /\ at[r] = "swap" /\ pending = None /\ Decided(r) /\ UpdateTypeOK
      /\ pending' = [by |-> r, rows |-> rows] /\ tree' = TreeBy(r)
    BY DEF Swap, UpdateInv, RequestInv
<1>2. SUFFICES /\ rows \in Row \cup {None} /\ tree' \in Tree \cup {None}
               /\ ChangeOf(r, rows, song)
               /\ tree' = None <=> rows = None
               /\ tree' # None => rows.tempo = tree'.notes /\ tree'.backing \in {None, tree'.notes}
    BY <1>1 DEF Journal
<1>3. r \in Authors /\ r # None
    BY Kinds
<1>4. CASE r \in Editors
  <2>1. /\ tree # None /\ song # None /\ saw[r].rows # None
        /\ saw[r].rows.title = song.title /\ saw[r].rows.tempo = song.tempo
      BY <1>1, <1>4 DEF Decided, SameText
  <2>2. tree \in Tree /\ song \in Row /\ saw[r].rows \in Row
      BY <1>1, <2>1 DEF UpdateTypeOK, Snapshots
  <2>3. song.tempo = tree.notes /\ tree.backing \in {None, tree.notes}
      BY <1>1, <2>1 DEF UpdateInv, BaseAgrees
  <2>4. saw[r].rows.plays <= song.plays
      BY <1>1, <1>4 DEF UpdateInv, PlaysGrow, Decided
  <2>5. CASE r \in Updates
    <3>1. /\ rows \in Row /\ rows.title = Value(r, "title", song.title)
          /\ rows.tempo = Value(r, "tempo", song.tempo) /\ rows.plays = saw[r].rows.plays
        BY <1>1, <2>1, <2>2, <2>5, RowsEdited
    <3>2. tree' = [tree EXCEPT !.rev = r, !.manifest = r,
                               !.notes = Value(r, "tempo", tree.notes), !.binding = None]
        BY <1>1, <2>5, TreeMade
    <3>3. Value(r, "tempo", tree.notes) \in Authors
        BY <1>3, <2>2 DEF Value, Tree
    <3>4. /\ tree' \in Tree /\ tree'.notes = Value(r, "tempo", tree.notes)
          /\ tree'.backing = tree.backing
        BY <1>3, <2>2, <3>2, <3>3 DEF Tree
    <3>5. tree'.backing \in {None, tree'.notes}
        BY <1>1, <2>3, <2>5, <3>4 DEF Decided, Value
    <3>6. ChangeOf(r, rows, song)
        BY <2>1, <2>4, <2>5, <3>1, Kinds, NothingIsNot DEF ChangeOf
    <3> HIDE DEF rows
    <3> QED
        BY <2>3, <3>1, <3>4, <3>5, <3>6, NothingIsNot
  <2>6. CASE r \in Harmonies
    <3>1. rows = saw[r].rows
        BY <2>6, RowsMade
    <3>2. tree' = [tree EXCEPT !.rev = r, !.backing = tree.notes, !.binding = expect[r]]
        BY <1>1, <2>6, TreeMade
    <3>3. expect[r] \in Authors
        BY <1>1, <2>6 DEF UpdateInv, UpdateTypeOK, RequestInv
    <3>4. tree' \in Tree /\ tree'.notes = tree.notes /\ tree'.backing = tree.notes
        BY <1>3, <2>2, <3>2, <3>3 DEF Tree
    <3>5. ChangeOf(r, rows, song)
        BY <2>1, <2>4, <2>6, <3>1, Kinds DEF ChangeOf
    <3> HIDE DEF rows
    <3> QED
        BY <2>1, <2>2, <2>3, <3>1, <3>4, <3>5, NothingIsNot
  <2> QED
      BY <1>4, <2>5, <2>6 DEF Editors
<1>5. CASE r \in Ingests
  <2>1. rows = [title |-> r, tempo |-> r, plays |-> 0]
      BY <1>5, RowsMade
  <2>2. rows \in Row
    <3>1. 0 \in 0 .. MaxPlays
        BY UpdateConstants
    <3> QED
        BY <1>3, <2>1, <3>1 DEF Row
  <2>3. tree' = [rev |-> r, manifest |-> r, notes |-> r, binding |-> None,
                 backing |-> IF tree = None \/ saw[r].notes = r THEN None ELSE tree.backing]
      BY <1>1, <1>5, TreeMade
  <2>4. (IF tree = None \/ saw[r].notes = r THEN None ELSE tree.backing) = None
      BY <1>1, <1>5 DEF Decided
  <2>5. tree' \in Tree /\ tree'.notes = r /\ tree'.backing = None
      BY <1>3, <2>3, <2>4 DEF Tree
  <2>6. ChangeOf(r, rows, song)
      BY <1>5, <2>1, Kinds DEF ChangeOf
  <2>7. rows.tempo = r
      BY <2>1
  <2> HIDE DEF rows
  <2> QED
      BY <2>2, <2>5, <2>6, <2>7, NothingIsNot
<1>6. CASE r \in Deletes
  <2>1. rows = None /\ tree' = None
      BY <1>1, <1>6, RowsMade, TreeMade
  <2>2. ChangeOf(r, rows, song)
      BY <1>6, <2>1, Kinds DEF ChangeOf
  <2> HIDE DEF rows
  <2> QED
      BY <2>1, <2>2
<1> QED
    BY <1>4, <1>5, <1>6, Kinds

LEMMA SwapKeeps ==
    ASSUME UpdateInv, NEW r \in Requests, Swap(r)
    PROVE  UpdateInv'
<1>1. /\ at[r] = "swap" /\ holder = r /\ pending = None /\ UpdateTypeOK
      /\ at' = [at EXCEPT ![r] = "rows"]
      /\ UNCHANGED <<song, holder, patch, expect, saw, result, halts>>
      /\ moved' \subseteq Requests
    BY DEF Swap, Goes, Disturb, UpdateInv, UpdateTypeOK, RequestInv
<1>2. at'[r] = "rows" /\ \A q \in Requests \ {r} : at'[q] = at[q]
    BY <1>1 DEF UpdateTypeOK
<1>3. pending' # None
    BY SwapMade, NothingIsNot
<1>4. UpdateTypeOK'
  <2>1. at' \in [Requests -> EditSteps]
      BY <1>1 DEF UpdateTypeOK, EditSteps
  <2>2. pending' \in Journal /\ tree' \in Tree \cup {None}
      BY SwapMade
  <2> QED
      BY <1>1, <2>1, <2>2 DEF UpdateTypeOK
<1>5. BaseAgrees' /\ PlaysGrow'
  <2>1. tree' # None => tree'.backing \in {None, tree'.notes}
      BY SwapMade
  <2>2. BaseAgrees'
      BY <1>3, <2>1 DEF BaseAgrees
  <2>3. PlaysGrow'
      BY <1>1 DEF PlaysGrow, UpdateInv, SameText
  <2> QED
      BY <2>2, <2>3
<1>6. JournalInv'
  <2>1. ChangeOf(r, pending.rows, song)'
    <3>1. ChangeOf(r, pending'.rows, song)
        BY SwapMade
    <3> QED
        BY <1>1, <3>1 DEF ChangeOf, Value
  <2>2. r \in Updates \cup Ingests => Unused(r)'
      BY <1>1 DEF UpdateInv, RequestInv, Unused
  <2>3. /\ pending'.by = r
        /\ tree' = None <=> pending'.rows = None
        /\ tree' # None => pending'.rows.tempo = tree'.notes
      BY SwapMade
  <2> QED
      BY <1>2, <2>1, <2>2, <2>3 DEF JournalInv
<1>7. ASSUME NEW q \in Requests PROVE RequestInv(q)'
  <2>1. RequestInv(q) /\ (Unused(q) => Unused(q)')
      BY <1>1 DEF UpdateInv, Unused
  <2>2. CASE q = r
      BY <1>1, <1>2, <1>3, <2>1, <2>2, SwapMade DEF RequestInv
  <2>3. CASE q # r
    <3>1. at'[q] = at[q] /\ at[q] \notin {"recheck", "swap", "rows", "close"}
        BY <1>1, <1>2, <2>1, <2>3 DEF RequestInv
    <3> QED
        BY <1>1, <2>1, <2>3, <3>1, SwapMade DEF RequestInv
  <2> QED
      BY <2>2, <2>3
<1> QED
    BY <1>4, <1>5, <1>6, <1>7 DEF UpdateInv
\* The commit of the rows of a journal, the first one or a replay.
LEMMA CommitFacts ==
    ASSUME UpdateInv, pending # None, song' = Committed(pending.rows), UNCHANGED <<saw, patch>>
    PROVE  /\ ChangeOf(pending.by, pending.rows, song')
           /\ IF pending.rows = None THEN song' = None ELSE SameText(pending.rows, song')
           /\ PlaysGrow'
           /\ \A q \in Requests : q # pending.by /\ Unused(q) => Unused(q)'
<1> DEFINE b == pending.by
           rows == pending.rows
<1>1. /\ UpdateTypeOK /\ JournalInv /\ PlaysGrow /\ b \in Requests /\ rows \in Row \cup {None}
      /\ song \in Row \cup {None} /\ song' \in Row \cup {None}
    BY CommitMade DEF UpdateInv, UpdateTypeOK, Journal
<1>2. /\ rows = None => song' = None
      /\ rows # None => SameText(song', rows)
      /\ rows # None /\ song # None => song.plays <= song'.plays /\ rows.plays <= song'.plays
    BY <1>1, CommitMade
<1>3. ChangeOf(b, rows, song) /\ (b \in Updates \cup Ingests => Unused(b) \/ SameText(rows, song))
    BY DEF JournalInv, UpdateInv
<1>4. b \in Updates => patch[b] # {} /\ patch[b] \subseteq Fields
    BY <1>1 DEF UpdateInv, RequestInv, JournalInv, UpdateTypeOK
<1> HIDE DEF b, rows
<1>5. b \in Editors =>
        /\ song # None /\ song' # None /\ song'.title = rows.title /\ song'.tempo = rows.tempo
        /\ rows.plays <= song'.plays /\ rows # None
    BY <1>2, <1>3 DEF ChangeOf, SameText
<1>6. ChangeOf(b, rows, song')
  <2>1. CASE b \in Updates
      BY <1>3, <1>5, <2>1, Kinds DEF ChangeOf, Value
  <2>2. CASE b \notin Updates
      BY <1>3, <1>5, <2>2, Kinds DEF ChangeOf
  <2> QED
      BY <2>1, <2>2
<1>7. ASSUME NEW q, Mentions(song', q) PROVE q = b \/ Mentions(song, q)
  <2>1. rows # None /\ song'.title = rows.title /\ song'.tempo = rows.tempo
      BY <1>2, <1>7 DEF Mentions, SameText
  <2>2. CASE b \in Editors
      BY <1>3, <1>7, <2>1, <2>2 DEF Mentions, ChangeOf, Value
  <2>3. CASE b \in Ingests
    <3>1. rows = [title |-> b, tempo |-> b, plays |-> 0]
        BY <1>3, <2>3 DEF ChangeOf
    <3> QED
        BY <1>7, <2>1, <3>1 DEF Mentions
  <2>4. CASE b \in Deletes
      BY <1>3, <2>1, <2>4 DEF ChangeOf
  <2> QED
      BY <1>1, <2>2, <2>3, <2>4, Kinds
<1>8. PlaysGrow'
  <2> SUFFICES ASSUME NEW q \in Requests, SameText(saw[q].rows, song')
               PROVE  saw[q].rows.plays <= song'.plays
      BY DEF PlaysGrow
  <2>1. /\ rows # None /\ song'.title = rows.title /\ song'.tempo = rows.tempo
        /\ saw[q].rows # None /\ song' # None
        /\ saw[q].rows.title = rows.title /\ saw[q].rows.tempo = rows.tempo
      BY <1>2 DEF SameText
  <2>2. saw[q].rows \in Row /\ song' \in Row
      BY <1>1, <2>1 DEF UpdateTypeOK, Snapshots
  <2>3. saw[q].rows.plays \in Nat /\ song'.plays \in Nat
      BY <2>2, UpdateConstants DEF Row
  <2>4. CASE SameText(rows, song)
    <3>1. SameText(saw[q].rows, song) /\ song # None
        BY <2>1, <2>4 DEF SameText
    <3>2. song.plays \in Nat /\ song.plays <= song'.plays /\ saw[q].rows.plays <= song.plays
        BY <1>1, <1>2, <2>1, <3>1, UpdateConstants DEF PlaysGrow, Row
    <3> QED
        BY <2>3, <3>2
  <2>5. CASE ~SameText(rows, song)
    <3>1. b \in {rows.title, rows.tempo}
      <4>1. CASE b \in Updates
        <5>1. "title" \in patch[b] \/ "tempo" \in patch[b]
            BY <1>4, <4>1 DEF Fields
        <5> QED
            BY <1>3, <4>1, <5>1, Kinds DEF ChangeOf, Value
      <4>2. CASE b \in Harmonies
          BY <1>3, <2>5, <4>2, Kinds DEF ChangeOf, SameText
      <4>3. CASE b \in Ingests
          BY <1>3, <4>3 DEF ChangeOf
      <4>4. CASE b \in Deletes
          BY <1>3, <2>1, <4>4 DEF ChangeOf
      <4> QED
          BY <1>1, <4>1, <4>2, <4>3, <4>4, Kinds
    <3>2. Mentions(saw[q].rows, b)
        BY <2>1, <3>1 DEF Mentions
    <3>3. b \in Updates \cup Ingests
      <4>1. b \notin Harmonies
          BY <1>3, <2>5, Kinds DEF ChangeOf, SameText
      <4>2. b \notin Deletes
          BY <1>3, <2>1 DEF ChangeOf
      <4> QED
          BY <1>1, <4>1, <4>2, Kinds
    <3> QED
        BY <1>3, <2>5, <3>2, <3>3 DEF Unused
  <2> QED
      BY <2>4, <2>5
<1>9. \A q \in Requests : q # b /\ Unused(q) => Unused(q)'
    BY <1>7 DEF Unused
<1> QED
    BY <1>2, <1>6, <1>8, <1>9 DEF b, rows, SameText
LEMMA CommitKeeps ==
    ASSUME UpdateInv, NEW r \in Requests, CommitRows(r)
    PROVE  UpdateInv'
<1>1. /\ UpdateTypeOK /\ at[r] = "rows" /\ holder = r /\ pending # None /\ pending.by = r
      /\ at' = [at EXCEPT ![r] = "close"] /\ song' = Committed(pending.rows)
      /\ UNCHANGED <<tree, pending, holder, patch, expect, saw, result, halts>>
    BY DEF CommitRows, Goes, UpdateInv, RequestInv
<1>2. at'[r] = "close" /\ \A q \in Requests \ {r} : at'[q] = at[q]
    BY <1>1 DEF UpdateTypeOK
<1>3. UpdateTypeOK'
    BY <1>1, TypeKept4
<1>4. BaseAgrees'
    BY <1>1 DEF BaseAgrees, UpdateInv
<1>5. /\ ChangeOf(r, pending.rows, song')
      /\ IF pending.rows = None THEN song' = None ELSE SameText(pending.rows, song')
      /\ PlaysGrow'
      /\ \A q \in Requests : q # r /\ Unused(q) => Unused(q)'
    BY <1>1, CommitFacts
<1>6. JournalInv'
  <2>1. ChangeOf(pending.by, pending.rows, song)'
      BY <1>1, <1>5 DEF ChangeOf, Value
  <2>2. /\ tree = None <=> pending.rows = None
        /\ tree # None => pending.rows.tempo = tree.notes
      BY <1>1 DEF UpdateInv, JournalInv
  <2>3. r \in Updates \cup Ingests => SameText(pending.rows, song)'
    <3>1. r \in Updates \cup Ingests => pending.rows # None
      <4>1. r \in Updates => pending.rows # None
          BY <1>5, Kinds DEF ChangeOf
      <4>2. r \in Ingests => pending.rows # None
        <5>1. [title |-> r, tempo |-> r, plays |-> 0] \in Row
          <6>1. 0 \in 0 .. MaxPlays /\ r \in Authors
              BY Kinds, UpdateConstants
          <6> QED
              BY <6>1 DEF Row
        <5> QED
            BY <1>5, <5>1, NothingIsNot DEF ChangeOf
      <4> QED
          BY <4>1, <4>2
    <3> QED
        BY <1>1, <1>5, <3>1 DEF SameText
  <2> QED
      BY <1>1, <1>2, <2>1, <2>2, <2>3 DEF JournalInv
<1>7. ASSUME NEW q \in Requests PROVE RequestInv(q)'
  <2>1. RequestInv(q)
      BY DEF UpdateInv
  <2>2. CASE q = r
      BY <1>1, <1>2, <1>5, <2>1, <2>2 DEF RequestInv, SameText
  <2>3. CASE q # r
    <3>1. at'[q] = at[q] /\ at[q] \notin {"recheck", "swap", "rows", "close"}
        BY <1>1, <1>2, <2>1, <2>3 DEF RequestInv
    <3>2. Unused(q) => Unused(q)'
        BY <1>5, <2>3
    <3> QED
        BY <1>1, <2>1, <2>3, <3>1, <3>2 DEF RequestInv
  <2> QED
      BY <2>2, <2>3
<1> QED
    BY <1>3, <1>4, <1>5, <1>6, <1>7 DEF UpdateInv

LEMMA ReplayKeeps ==
    ASSUME UpdateInv, Replay
    PROVE  UpdateInv'
<1>1. /\ UpdateTypeOK /\ holder = None /\ pending # None /\ song' = Committed(pending.rows)
      /\ pending' = None
      /\ UNCHANGED <<tree, holder, at, patch, expect, saw, result, halts>>
    BY DEF Replay, UpdateInv
<1>2. UpdateTypeOK'
    BY TypeKept4 DEF UpdateInv
<1>3. /\ IF pending.rows = None THEN song' = None ELSE SameText(pending.rows, song')
      /\ PlaysGrow'
      /\ \A q \in Requests : q # pending.by /\ Unused(q) => Unused(q)'
    BY <1>1, CommitFacts
<1>4. /\ tree = None <=> pending.rows = None
      /\ tree # None => pending.rows.tempo = tree.notes /\ tree.backing \in {None, tree.notes}
    BY <1>1 DEF UpdateInv, JournalInv, BaseAgrees
<1>5. BaseAgrees'
    BY <1>1, <1>3, <1>4 DEF BaseAgrees, SameText
<1>6. JournalInv'
    BY <1>1 DEF JournalInv
<1>7. ASSUME NEW q \in Requests PROVE RequestInv(q)'
  <2>1. RequestInv(q) /\ q # None
      BY Kinds DEF UpdateInv
  <2>2. at[q] \notin {"recheck", "swap", "rows", "close"}
      BY <1>1, <2>1 DEF RequestInv
  <2>3. at[q] # "done" /\ Unused(q) => Unused(q)'
      BY <1>1, <1>3, <2>1, <2>2 DEF RequestInv
  <2> QED
      BY <1>1, <2>1, <2>2, <2>3 DEF RequestInv
<1> QED
    BY <1>2, <1>3, <1>5, <1>6, <1>7 DEF UpdateInv

LEMMA CloseKeeps ==
    ASSUME UpdateInv, NEW r \in Requests, CloseJournal(r)
    PROVE  UpdateInv'
<1>1. /\ UpdateTypeOK /\ at[r] = "close" /\ holder = r /\ pending # None /\ pending.by = r
      /\ holder' = None /\ pending' = None /\ UNCHANGED <<tree, song, patch>>
      /\ at' = [at EXCEPT ![r] = "done"] /\ expect' = [expect EXCEPT ![r] = AnyRevision]
      /\ saw' = [saw EXCEPT ![r] = Unread]
    BY DEF CloseJournal, Ends, Goes, UpdateInv, RequestInv
<1>2. /\ at'[r] = "done" /\ expect'[r] = AnyRevision /\ saw'[r].rows = None
      /\ \A q \in Requests \ {r} : at'[q] = at[q] /\ expect'[q] = expect[q] /\ saw'[q] = saw[q]
    BY <1>1 DEF UpdateTypeOK, Unread
<1>3. UpdateTypeOK'
    BY <1>1, TypeKept3
<1>4. BaseAgrees'
  <2>1. IF pending.rows = None THEN song = None ELSE SameText(pending.rows, song)
      BY <1>1 DEF UpdateInv, RequestInv
  <2>2. /\ tree = None <=> pending.rows = None
        /\ tree # None => pending.rows.tempo = tree.notes /\ tree.backing \in {None, tree.notes}
      BY <1>1 DEF UpdateInv, JournalInv, BaseAgrees
  <2> QED
      BY <1>1, <2>1, <2>2 DEF BaseAgrees, SameText
<1>5. PlaysGrow' /\ JournalInv'
    BY <1>1, <1>2 DEF PlaysGrow, JournalInv, UpdateInv, SameText
<1>6. ASSUME NEW q \in Requests PROVE RequestInv(q)'
  <2>1. RequestInv(q) /\ q # None /\ (Unused(q) => Unused(q)')
      BY <1>1, <1>2, Kinds DEF UpdateInv, Unused, Mentions
  <2>2. CASE q = r
      BY <1>1, <1>2, <2>1, <2>2 DEF RequestInv
  <2>3. CASE q # r
    <3>1. at'[q] = at[q] /\ at[q] \notin {"recheck", "swap", "rows", "close"}
        BY <1>1, <1>2, <2>1, <2>3 DEF RequestInv
    <3> QED
        BY <1>1, <1>2, <2>1, <2>3, <3>1 DEF RequestInv
  <2> QED
      BY <2>2, <2>3
<1> QED
    BY <1>3, <1>4, <1>5, <1>6 DEF UpdateInv

LEMMA PlayKeeps ==
    ASSUME UpdateInv, Play
    PROVE  UpdateInv'
<1>1. /\ UpdateTypeOK /\ song # None /\ song \in Row /\ song' = [song EXCEPT !.plays = @ + 1]
      /\ UNCHANGED <<tree, pending, holder, at, patch, expect, saw, result, halts>>
    BY DEF Play, UpdateInv, UpdateTypeOK
<1>2. UpdateTypeOK'
    BY <1>1, TypeKept4
<1>3. /\ song'.title = song.title /\ song'.tempo = song.tempo /\ song'.plays = song.plays + 1
      /\ song' # None /\ song.plays \in Nat
  <2>1. song'.title = song.title /\ song'.tempo = song.tempo /\ song'.plays = song.plays + 1
      BY <1>1 DEF Row
  <2>2. song' # None
    <3>1. song.plays + 1 \in 0 .. MaxPlays
        BY <1>1, UpdateConstants DEF Play, Row
    <3>2. song' \in Row
        BY <1>1, <3>1 DEF Row
    <3> QED
        BY <3>2, NothingIsNot
  <2> QED
      BY <1>1, <2>1, <2>2, UpdateConstants DEF Row
<1>4. BaseAgrees'
    BY <1>1, <1>3 DEF BaseAgrees, UpdateInv
<1>5. PlaysGrow'
  <2> SUFFICES ASSUME NEW q \in Requests, SameText(saw[q].rows, song')
               PROVE  saw[q].rows.plays <= song'.plays
      BY <1>1 DEF PlaysGrow
  <2>1. SameText(saw[q].rows, song) /\ saw[q].rows # None
      BY <1>1, <1>3 DEF SameText
  <2>2. saw[q].rows.plays \in Nat
    <3>1. saw[q].rows \in Row
        BY <1>1, <2>1 DEF UpdateTypeOK, Snapshots
    <3> QED
        BY <3>1, UpdateConstants DEF Row
  <2>3. saw[q].rows.plays <= song.plays
      BY <2>1 DEF UpdateInv, PlaysGrow
  <2> QED
      BY <1>3, <2>2, <2>3
<1>6. \A q \in Requests : Unused(q) => Unused(q)'
    BY <1>1, <1>3 DEF Unused, Mentions
<1>7. JournalInv'
  <2> SUFFICES ASSUME pending # None PROVE JournalInv'
      BY <1>1 DEF JournalInv
  <2>1. JournalInv /\ pending.by \in Requests /\ pending.rows \in Row \cup {None}
      BY <1>1 DEF UpdateInv, UpdateTypeOK, Journal
  <2>2. ChangeOf(pending.by, pending.rows, song)'
    <3>1. ChangeOf(pending.by, pending.rows, song)
        BY <2>1 DEF JournalInv
    <3>2. pending.rows # None => pending.rows.plays \in Nat
        BY <2>1, UpdateConstants DEF Row
    <3>3. pending.rows # None /\ pending.rows.plays <= song.plays
            => pending.rows.plays <= song'.plays
        BY <1>3, <3>2
    <3> QED
        BY <1>1, <1>3, <3>1, <3>3 DEF ChangeOf, Value
  <2>3. SameText(pending.rows, song) => SameText(pending.rows, song)'
      BY <1>1, <1>3 DEF SameText
  <2>4. Unused(pending.by) => Unused(pending.by)'
      BY <1>1, <1>3 DEF Unused, Mentions
  <2> QED
      BY <1>1, <2>1, <2>2, <2>3, <2>4 DEF JournalInv
<1>8. ASSUME NEW q \in Requests PROVE RequestInv(q)'
  <2>1. RequestInv(q) /\ (Unused(q) => Unused(q)')
      BY <1>6 DEF UpdateInv
  <2>2. Decided(q) => Decided(q)'
      BY <1>1, <1>3 DEF Decided, SameText
  <2>3. at[q] = "close" => /\ pending.rows # None /\ SameText(pending.rows, song)'
      BY <1>1, <1>3, <2>1 DEF RequestInv, SameText
  <2> QED
      BY <1>1, <2>1, <2>2, <2>3 DEF RequestInv
<1> QED
    BY <1>2, <1>4, <1>5, <1>7, <1>8 DEF UpdateInv
LEMMA UpdateKeeps == UpdateInv /\ [UpdateNext]_updateVars => UpdateInv'
<1> SUFFICES ASSUME UpdateInv, [UpdateNext]_updateVars PROVE UpdateInv'
    OBVIOUS
<1>1. CASE UNCHANGED updateVars
    BY <1>1
       DEF updateVars, base, UpdateInv, UpdateTypeOK, BaseAgrees, PlaysGrow, JournalInv,
           RequestInv, ChangeOf, Value, Unused, Mentions, SameText, Decided
<1>2. CASE \E r \in Requests : SendUpdate(r) \/ SendHarmony(r) \/ SendOther(r)
    BY <1>2, SendKeeps
<1>3. CASE \E r \in Requests : \/ ReadRowsOf(r) \/ CheckRevision(r)
                             \/ ReadManifestOf(r) \/ ReadNotesOf(r)
    BY <1>3, ReadKeeps
<1>4. CASE \E r \in Requests : TakeLock(r) \/ Halt(r)
    BY <1>4, LockKeeps
<1>5. CASE \E r \in Requests : Recheck(r)
    BY <1>5, RecheckKeeps
<1>6. CASE \E r \in Requests : Swap(r)
    BY <1>6, SwapKeeps
<1>7. CASE \E r \in Requests : CommitRows(r)
    BY <1>7, CommitKeeps
<1>8. CASE \E r \in Requests : CloseJournal(r)
    BY <1>8, CloseKeeps
<1>9. CASE Replay
    BY <1>9, ReplayKeeps
<1>10. CASE Play
    BY <1>10, PlayKeeps
<1> QED
    BY <1>1, <1>2, <1>3, <1>4, <1>5, <1>6, <1>7, <1>8, <1>9, <1>10 DEF UpdateNext

LEMMA UpdateInvariant == UpdateSpec => []UpdateInv
BY UpdateBegins, UpdateKeeps, PTL DEF UpdateSpec

-----------------------------------------------------------------------------
(* The properties *)

\* Without an open journal the rows and the tree of a base belong together,
\* and a backing belongs to the notes beside it.
THEOREM PartsAgree == UpdateSpec => []BaseAgrees
<1>1. UpdateInv => BaseAgrees
    BY DEF UpdateInv
<1> QED
    BY <1>1, UpdateInvariant, PTL

\* Only a play or the change of one request, applied to the rows as they are,
\* ever changes the rows: applySongMetadata loses nobody's edit.
THEOREM NoEditIsLost == UpdateSpec => EditsCompose
<1>1. ASSUME UpdateInv, [UpdateNext]_updateVars
      PROVE  [song' # song =>
                \/ song # None /\ song' = [song EXCEPT !.plays = @ + 1]
                \/ /\ pending # None
                   /\ pending.by \in Editors => song # None
                   /\ \/ pending.by \in Deletes /\ song' = None
                      \/ song' = [RowsBy(pending.by, song) EXCEPT
                                    !.plays = IF song = None THEN 0 ELSE song.plays]]_updateVars
  <2> DEFINE b == pending.by
             rows == pending.rows
  <2> SUFFICES ASSUME UpdateNext, song' # song
               PROVE  \/ song # None /\ song' = [song EXCEPT !.plays = @ + 1]
                      \/ /\ pending # None
                         /\ b \in Editors => song # None
                         /\ \/ b \in Deletes /\ song' = None
                            \/ song' = [RowsBy(b, song) EXCEPT
                                          !.plays = IF song = None THEN 0 ELSE song.plays]
      BY <1>1
  <2>1. \/ Play
        \/ pending # None /\ song' = Committed(rows)
    <3>1. CASE \E r \in Requests : CommitRows(r)
        BY <1>1, <3>1 DEF CommitRows, UpdateInv, RequestInv
    <3>2. CASE Replay
        BY <3>2 DEF Replay
    <3> QED
        BY <3>1, <3>2
           DEF UpdateNext, SendUpdate, SendHarmony, SendOther, ReadRowsOf, CheckRevision,
               ReadManifestOf, ReadNotesOf, TakeLock, Recheck, Swap, CloseJournal, Halt, base
  <2>2. CASE Play
      BY <2>2 DEF Play
  <2>3. CASE pending # None /\ song' = Committed(rows)
    <3>1. /\ UpdateTypeOK /\ ChangeOf(b, rows, song) /\ b \in Requests
          /\ rows \in Row \cup {None} /\ song \in Row \cup {None}
        BY <1>1, <2>3 DEF UpdateInv, UpdateTypeOK, JournalInv, Journal
    <3>2. /\ rows = None => song' = None
          /\ rows # None /\ song # None /\ rows.plays <= song.plays
               => song' = [rows EXCEPT !.plays = song.plays]
          /\ song = None => song' = rows
        BY <2>3, <3>1, CommitMade
    <3> HIDE DEF b, rows
    <3>3. CASE b \in Editors
      <4>1. /\ song \in Row /\ song # None /\ rows \in Row
            /\ song' = [rows EXCEPT !.plays = song.plays]
          BY <3>1, <3>2, <3>3 DEF ChangeOf
      <4>2. [rows EXCEPT !.plays = song.plays] = [RowsBy(b, song) EXCEPT !.plays = song.plays]
        <5>1. CASE b \in Updates
          <6>1. /\ RowsBy(b, song) \in Row /\ RowsBy(b, song).title = rows.title
                /\ RowsBy(b, song).tempo = rows.tempo
              BY <3>1, <3>3, <4>1, <5>1, RowsEdited DEF ChangeOf
          <6> QED
              BY <4>1, <6>1 DEF Row
        <5>2. CASE b \notin Updates
          <6>1. RowsBy(b, song) = song
              BY <3>1, <3>3, <5>2, RowsMade DEF Editors
          <6>2. rows.title = song.title /\ rows.tempo = song.tempo
              BY <3>1, <3>3, <5>2 DEF ChangeOf
          <6> QED
              BY <4>1, <6>1, <6>2 DEF Row
        <5> QED
            BY <5>1, <5>2
      <4> QED
          BY <2>3, <4>1, <4>2
    <3>4. CASE b \in Ingests
      <4>1. /\ rows = [title |-> b, tempo |-> b, plays |-> 0] /\ RowsBy(b, song) = rows
            /\ b \notin Editors
        <5>1. rows = [title |-> b, tempo |-> b, plays |-> 0]
            BY <3>1, <3>4 DEF ChangeOf
        <5>2. RowsBy(b, song) = [title |-> b, tempo |-> b, plays |-> 0]
            BY <3>1, <3>4, RowsMade
        <5> QED
            BY <3>4, <5>1, <5>2, Kinds
      <4>2. CASE song = None
          BY <2>3, <3>2, <4>1, <4>2
      <4>3. CASE song # None
        <5>1. rows # None /\ rows.plays <= song.plays
          <6>1. song.plays \in Nat /\ rows.plays = 0
              BY <3>1, <4>1, <4>3, UpdateConstants DEF Row
          <6>2. rows \in Row
            <7>1. b \in Authors /\ 0 \in 0 .. MaxPlays
                BY <3>1, Kinds, UpdateConstants
            <7> QED
                BY <4>1, <7>1 DEF Row
          <6> QED
              BY <6>1, <6>2, NothingIsNot
        <5> QED
            BY <2>3, <3>2, <4>1, <4>3, <5>1
      <4> QED
          BY <4>2, <4>3
    <3>5. CASE b \in Deletes
        BY <2>3, <3>1, <3>2, <3>5, Kinds DEF ChangeOf
    <3> QED
        BY <3>1, <3>3, <3>4, <3>5, Kinds
  <2> QED
      BY <2>1, <2>2, <2>3
<1> QED
    BY <1>1, UpdateInvariant, PTL DEF UpdateSpec, EditsCompose

\* A request that names a revision replaces exactly that one.
THEOREM NamedRevisionReplaced == UpdateSpec => RevisionHonoured
<1>1. ASSUME UpdateInv, [UpdateNext]_updateVars
      PROVE  [tree' # tree /\ expect[holder] # AnyRevision
                => tree # None /\ tree.rev = expect[holder]]_updateVars
  <2> SUFFICES ASSUME UpdateNext, tree' # tree, expect[holder] # AnyRevision
               PROVE  tree # None /\ tree.rev = expect[holder]
      BY <1>1
  <2>1. PICK r \in Requests : Swap(r)
      BY DEF UpdateNext, Play, Replay, SendUpdate, SendHarmony, SendOther, ReadRowsOf,
             CheckRevision, ReadManifestOf, ReadNotesOf, TakeLock, Recheck, CommitRows,
             CloseJournal, Halt, base
  <2> QED
      BY <1>1, <2>1 DEF Swap, UpdateInv, RequestInv, Decided
<1> QED
    BY <1>1, UpdateInvariant, PTL DEF UpdateSpec, RevisionHonoured
-----------------------------------------------------------------------------
(* No spurious conflicts *)

\* An editor that saw no publication finds the base as it read it.
Undisturbed(r) ==
    /\ pending = None /\ tree # None
    /\ expect[r] # AnyRevision => tree.rev = expect[r]
    /\ r \in Updates /\ at[r] # "open" => SameText(saw[r].rows, song)
    /\ at[r] \in {"notes", "lock", "recheck", "swap"} /\ r \in Updates =>
         saw[r].manifest = tree.manifest /\ saw[r].tempo = tree.notes
    /\ at[r] \in {"lock", "recheck", "swap"} /\ r \in Updates => saw[r].notes = tree.notes

QuietInv ==
    /\ \A r \in Requests :
         at[r] \in {"open", "revision", "manifest", "notes"} => r \in Updates
    /\ \A r \in Editors :
         at[r] \notin {"idle", "rows", "close", "done"} /\ r \notin moved => Undisturbed(r)
\* A step of r that leaves the base, and the others, as they are.
QuietStep(r) ==
    /\ UNCHANGED <<tree, song, pending>>
    /\ moved \ {r} \subseteq moved'
    /\ \A q \in Requests \ {r} :
         at'[q] = at[q] /\ expect'[q] = expect[q] /\ saw'[q] = saw[q]
    /\ at'[r] \in {"open", "revision", "manifest", "notes"} => r \in Updates
    /\ \/ r \notin Editors \/ r \in moved'
       \/ at'[r] = "done"
       \/ Undisturbed(r)'

LEMMA QuietFrame ==
    ASSUME QuietInv, NEW r \in Requests, QuietStep(r)
    PROVE  QuietInv'
<1>1. ASSUME NEW q \in Requests, at'[q] \in {"open", "revision", "manifest", "notes"}
      PROVE  q \in Updates
    BY <1>1 DEF QuietInv, QuietStep
<1>2. ASSUME NEW q \in Editors, at'[q] \notin {"idle", "rows", "close", "done"}, q \notin moved'
      PROVE  Undisturbed(q)'
  <2>1. CASE q = r
      BY <1>2, <2>1 DEF QuietStep
  <2>2. CASE q # r
    <3>1. /\ at'[q] = at[q] /\ expect'[q] = expect[q] /\ saw'[q] = saw[q] /\ q \notin moved
          /\ q \in Requests
        BY <1>2, <2>2 DEF Requests, QuietStep
    <3>2. Undisturbed(q)
        BY <1>2, <3>1 DEF QuietInv
    <3> QED
        BY <3>1, <3>2 DEF Undisturbed, SameText, QuietStep
  <2> QED
      BY <2>1, <2>2
<1> QED
    BY <1>1, <1>2 DEF QuietInv

LEMMA QuietEnds ==
    ASSUME UpdateTypeOK, QuietInv, NEW r \in Requests, NEW outcome, Ends(r, outcome),
           UNCHANGED <<tree, song, pending>>
    PROVE  QuietInv'
<1>1. /\ at' = [at EXCEPT ![r] = "done"] /\ expect' = [expect EXCEPT ![r] = AnyRevision]
      /\ saw' = [saw EXCEPT ![r] = Unread] /\ moved' = moved \ {r}
    BY DEF Ends, Goes
<1>2. /\ at'[r] = "done" /\ moved \ {r} \subseteq moved'
      /\ \A q \in Requests \ {r} : at'[q] = at[q] /\ expect'[q] = expect[q] /\ saw'[q] = saw[q]
    BY <1>1 DEF UpdateTypeOK
<1>3. QuietStep(r)
    BY <1>2 DEF QuietStep
<1> QED
    BY <1>3, QuietFrame

LEMMA QuietSends ==
    ASSUME UpdateInv, QuietInv, NEW r \in Requests,
           SendUpdate(r) \/ SendHarmony(r) \/ SendOther(r)
    PROVE  QuietInv'
<1>1. UpdateTypeOK /\ UNCHANGED <<tree, song, pending, saw>>
    BY DEF UpdateInv, SendUpdate, SendHarmony, SendOther, base
<1>2. /\ at'[r] \in {"open", "lock"} /\ (at'[r] = "open" => r \in Updates)
      /\ (at'[r] = "lock" => r \notin Updates)
      /\ \A q \in Requests \ {r} : at'[q] = at[q]
    BY <1>1, Kinds DEF SendUpdate, SendHarmony, SendOther, Goes, UpdateTypeOK
<1>3. /\ \A q \in Requests \ {r} : expect'[q] = expect[q]
      /\ moved \ {r} \subseteq moved'
    BY <1>1 DEF SendUpdate, SendHarmony, SendOther, Sent, UpdateTypeOK
<1>4. r \in Editors /\ r \notin moved' => Undisturbed(r)'
  <2> SUFFICES ASSUME r \in Editors, r \notin moved' PROVE Undisturbed(r)'
      OBVIOUS
  <2>1. \E e : Sent(r, e) /\ (e = AnyRevision \/ e = tree.rev)
      BY Kinds DEF SendUpdate, SendHarmony, SendOther
  <2>2. pending = None /\ tree # None /\ (expect'[r] = AnyRevision \/ expect'[r] = tree.rev)
      BY <1>1, <2>1 DEF Sent, UpdateTypeOK
  <2> QED
      BY <1>1, <1>2, <2>2 DEF Undisturbed
<1>5. QuietStep(r)
    BY <1>1, <1>2, <1>3, <1>4 DEF QuietStep
<1> QED
    BY <1>5, QuietFrame

LEMMA QuietReads ==
    ASSUME UpdateInv, QuietInv, NEW r \in Requests,
           ReadRowsOf(r) \/ CheckRevision(r) \/ ReadManifestOf(r) \/ ReadNotesOf(r) \/ TakeLock(r)
    PROVE  QuietInv'
<1>1. UpdateTypeOK /\ UNCHANGED <<tree, song, pending>>
    BY DEF UpdateInv, ReadRowsOf, CheckRevision, ReadManifestOf, ReadNotesOf, TakeLock, base
<1>2. CASE \E outcome : Ends(r, outcome)
    BY <1>1, <1>2, QuietEnds
<1>3. CASE ~\E outcome : Ends(r, outcome)
  <2>1. /\ expect' = expect /\ moved' = moved
        /\ at[r] \in {"open", "revision", "manifest", "notes", "lock"}
      BY <1>3 DEF ReadRowsOf, CheckRevision, ReadManifestOf, ReadNotesOf, TakeLock
  <2>2. at[r] # "lock" => r \in Updates
      BY <2>1 DEF QuietInv
  <2>3. r \in Editors /\ r \notin moved => Undisturbed(r)
      BY <2>1 DEF QuietInv
  <2>4. saw \in [Requests -> Snapshots]
      BY <1>1 DEF UpdateTypeOK
  <2> DEFINE Frame == \A q \in Requests \ {r} : at'[q] = at[q] /\ saw'[q] = saw[q]
             Fits == r \in Editors /\ r \notin moved => Undisturbed(r)'
  <2>5. CASE ReadRowsOf(r)
    <3>1. /\ song # None /\ saw' = [saw EXCEPT ![r].rows = song]
          /\ at' = [at EXCEPT ![r] = "revision"] /\ at[r] = "open"
        BY <1>3, <2>5 DEF ReadRowsOf, Goes
    <3>2. at'[r] = "revision" /\ saw'[r].rows = song /\ Frame
        BY <1>1, <2>4, <3>1 DEF UpdateTypeOK, Snapshots
    <3>3. Fits
        BY <1>1, <2>1, <2>3, <3>1, <3>2 DEF Undisturbed, SameText
    <3>4. QuietStep(r)
        BY <1>1, <2>1, <2>2, <3>1, <3>2, <3>3 DEF QuietStep
    <3> QED
        BY <3>4, QuietFrame
  <2>6. CASE CheckRevision(r)
    <3>1. /\ saw' = saw /\ at' = [at EXCEPT ![r] = "manifest"] /\ at[r] = "revision"
        BY <1>3, <2>6 DEF CheckRevision, Goes
    <3>2. at'[r] = "manifest" /\ Frame
        BY <1>1, <3>1 DEF UpdateTypeOK
    <3>3. Fits
        BY <1>1, <2>1, <2>3, <3>1, <3>2 DEF Undisturbed, SameText
    <3>4. QuietStep(r)
        BY <1>1, <2>1, <2>2, <3>1, <3>2, <3>3 DEF QuietStep
    <3> QED
        BY <3>4, QuietFrame
  <2>7. CASE ReadManifestOf(r)
    <3>1. /\ saw' = [saw EXCEPT ![r].manifest = tree.manifest, ![r].tempo = tree.notes]
          /\ at' = [at EXCEPT ![r] = "notes"] /\ at[r] = "manifest"
        BY <1>3, <2>7 DEF ReadManifestOf, Goes
    <3>2. /\ at'[r] = "notes" /\ saw'[r].rows = saw[r].rows
          /\ saw'[r].manifest = tree.manifest /\ saw'[r].tempo = tree.notes /\ Frame
        BY <1>1, <2>4, <3>1 DEF UpdateTypeOK, Snapshots
    <3>3. Fits
        BY <1>1, <2>1, <2>3, <3>1, <3>2 DEF Undisturbed, SameText
    <3>4. QuietStep(r)
        BY <1>1, <2>1, <2>2, <3>1, <3>2, <3>3 DEF QuietStep
    <3> QED
        BY <3>4, QuietFrame
  <2>8. CASE ReadNotesOf(r)
    <3>1. /\ saw' = [saw EXCEPT ![r].notes = tree.notes]
          /\ at' = [at EXCEPT ![r] = "lock"] /\ at[r] = "notes"
        BY <1>3, <2>8 DEF ReadNotesOf, Goes
    <3>2. /\ at'[r] = "lock" /\ saw'[r].rows = saw[r].rows /\ saw'[r].notes = tree.notes
          /\ saw'[r].manifest = saw[r].manifest /\ saw'[r].tempo = saw[r].tempo /\ Frame
        BY <1>1, <2>4, <3>1 DEF UpdateTypeOK, Snapshots
    <3>3. Fits
        BY <1>1, <2>1, <2>3, <3>1, <3>2 DEF Undisturbed, SameText
    <3>4. QuietStep(r)
        BY <1>1, <2>1, <2>2, <3>1, <3>2, <3>3 DEF QuietStep
    <3> QED
        BY <3>4, QuietFrame
  <2>9. CASE TakeLock(r)
    <3>1. saw' = saw /\ at' = [at EXCEPT ![r] = "recheck"] /\ at[r] = "lock"
        BY <1>3, <2>9 DEF TakeLock, Goes
    <3>2. at'[r] = "recheck" /\ Frame
        BY <1>1, <3>1 DEF UpdateTypeOK
    <3>3. Fits
        BY <1>1, <2>1, <2>3, <3>1, <3>2 DEF Undisturbed, SameText
    <3>4. QuietStep(r)
        BY <1>1, <2>1, <3>1, <3>2, <3>3 DEF QuietStep
    <3> QED
        BY <3>4, QuietFrame
  <2> QED
      BY <2>5, <2>6, <2>7, <2>8, <2>9
<1> QED
    BY <1>2, <1>3
LEMMA QuietRecheck ==
    ASSUME UpdateInv, QuietInv, NEW r \in Requests, Recheck(r)
    PROVE  QuietInv'
<1>1. /\ UpdateTypeOK /\ UNCHANGED <<tree, song, pending>> /\ at[r] = "recheck"
      /\ saw \in [Requests -> Snapshots]
    BY DEF UpdateInv, Recheck, UpdateTypeOK
<1>2. CASE \E outcome : Ends(r, outcome)
    BY <1>1, <1>2, QuietEnds
<1>3. CASE ~\E outcome : Ends(r, outcome)
  <2>1. PICK study \in {FALSE} \cup {r \in Ingests}, same \in BOOLEAN :
          /\ Goes(r, "swap")
          /\ saw' = IF r \in Harmonies THEN [saw EXCEPT ![r].rows = song]
                    ELSE IF study THEN [saw EXCEPT ![r].notes = r] ELSE saw
          /\ UNCHANGED <<holder, expect, result, moved>>
      BY <1>3 DEF Recheck
  <2>2. r \in Updates => saw' = saw
      BY <2>1, Kinds
  <2>3. at'[r] = "swap" /\ \A q \in Requests \ {r} : at'[q] = at[q]
      BY <1>1, <2>1 DEF Goes, UpdateTypeOK
  <2>4. \A q \in Requests \ {r} : saw'[q] = saw[q]
      BY <1>1, <2>1
  <2>5. r \in Editors /\ r \notin moved => Undisturbed(r)
      BY <1>1 DEF QuietInv
  <2>6. r \in Editors /\ r \notin moved => Undisturbed(r)'
      BY <1>1, <2>1, <2>2, <2>3, <2>5 DEF Undisturbed, SameText
  <2>7. QuietStep(r)
      BY <1>1, <2>1, <2>3, <2>4, <2>6 DEF QuietStep
  <2> QED
      BY <2>7, QuietFrame
<1> QED
    BY <1>2, <1>3

\* A publication disturbs everybody else.
LEMMA QuietPublishes ==
    ASSUME UpdateInv, QuietInv,
           NEW r \in Requests, Disturb(r), at'[r] \in {"rows", "close", "done"},
           \A q \in Requests \ {r} : at'[q] = at[q]
    PROVE  QuietInv'
<1>1. ASSUME NEW q \in Requests, at'[q] \notin {"idle", "rows", "close", "done"}
      PROVE  q \in moved' /\ at'[q] = at[q]
    BY <1>1 DEF Disturb
<1>2. Editors \subseteq Requests
    BY DEF Requests
<1> QED
    BY <1>1, <1>2 DEF QuietInv

LEMMA QuietKeeps == UpdateInv /\ QuietInv /\ [UpdateNext]_updateVars => QuietInv'
<1> SUFFICES ASSUME UpdateInv, QuietInv, [UpdateNext]_updateVars PROVE QuietInv'
    OBVIOUS
<1>1. UpdateTypeOK
    BY DEF UpdateInv
<1>2. CASE UNCHANGED updateVars
    BY <1>2 DEF updateVars, base, QuietInv, Undisturbed, SameText
<1>3. ASSUME NEW r \in Requests, SendUpdate(r) \/ SendHarmony(r) \/ SendOther(r) PROVE QuietInv'
    BY <1>3, QuietSends
<1>4. ASSUME NEW r \in Requests,
             \/ ReadRowsOf(r) \/ CheckRevision(r) \/ ReadManifestOf(r) \/ ReadNotesOf(r)
             \/ TakeLock(r)
      PROVE  QuietInv'
    BY <1>4, QuietReads
<1>5. ASSUME NEW r \in Requests, Recheck(r) PROVE QuietInv'
    BY <1>5, QuietRecheck
<1>6. ASSUME NEW r \in Requests, Halt(r) PROVE QuietInv'
    BY <1>1, <1>6, QuietEnds DEF Halt
<1>7. ASSUME NEW r \in Requests, Swap(r) \/ CommitRows(r) PROVE QuietInv'
  <2>1. /\ Disturb(r) /\ at'[r] \in {"rows", "close"}
        /\ \A q \in Requests \ {r} : at'[q] = at[q]
      BY <1>1, <1>7 DEF Swap, CommitRows, Goes, UpdateTypeOK
  <2> QED
      BY <2>1, QuietPublishes
<1>8. CASE Replay
  <2>1. /\ pending.by \in Requests /\ at[pending.by] \in {"rows", "close", "done"}
        /\ Disturb(pending.by) /\ at' = at
      BY <1>1, <1>8 DEF Replay, UpdateInv, JournalInv, UpdateTypeOK, Journal
  <2> QED
      BY <2>1, QuietPublishes
<1>9. ASSUME NEW r \in Requests, CloseJournal(r) PROVE QuietInv'
  <2>1. /\ pending # None /\ moved' = moved \ {r} /\ at' = [at EXCEPT ![r] = "done"]
      BY <1>9 DEF CloseJournal, Ends, Goes, UpdateInv, RequestInv
  <2>2. at'[r] = "done" /\ \A q \in Requests \ {r} : at'[q] = at[q]
      BY <1>1, <2>1 DEF UpdateTypeOK
  <2>3. ASSUME NEW q \in Editors, at[q] \notin {"idle", "rows", "close", "done"}
        PROVE  q \in moved
      BY <2>1, <2>3 DEF QuietInv, Undisturbed
  <2>4. Editors \subseteq Requests
      BY DEF Requests
  <2> QED
      BY <2>1, <2>2, <2>3, <2>4 DEF QuietInv
<1>10. CASE Play
  <2>1. /\ song \in Row /\ song # None /\ song' = [song EXCEPT !.plays = @ + 1]
        /\ UNCHANGED <<tree, pending, at, expect, saw, moved>>
      BY <1>1, <1>10 DEF Play, UpdateTypeOK
  <2>2. song'.title = song.title /\ song'.tempo = song.tempo
      BY <2>1 DEF Row
  <2>3. song' # None
    <3>1. song' \in Row
      <4>1. song.plays + 1 \in 0 .. MaxPlays
          BY <1>10, <2>1, UpdateConstants DEF Play, Row
      <4> QED
          BY <2>1, <4>1 DEF Row
    <3> QED
        BY <3>1, NothingIsNot
  <2> QED
      BY <2>1, <2>2, <2>3 DEF QuietInv, Undisturbed, SameText
<1> QED
    BY <1>2, <1>3, <1>4, <1>5, <1>6, <1>7, <1>8, <1>9, <1>10 DEF UpdateNext

\* An edit is refused because somebody published meanwhile, never because
\* somebody played the song.
THEOREM NoSpuriousConflict == UpdateSpec => PlaysNeverConflict
<1>1. UpdateInit => QuietInv
    BY DEF UpdateInit, QuietInv, Editors, Requests
<1>2. UpdateSpec => [](UpdateInv /\ QuietInv)
    BY <1>1, QuietKeeps, UpdateInvariant, PTL DEF UpdateSpec
<1>3. ASSUME UpdateInv, QuietInv, [UpdateNext]_updateVars
      PROVE  [\A r \in Requests :
                result'[r] # result[r] /\ result'[r] \in {"conflict", "corrupt"}
                  => r \in moved]_updateVars
  <2> SUFFICES ASSUME UpdateNext, NEW r \in Requests, r \notin moved,
                      result'[r] # result[r], result'[r] \in {"conflict", "corrupt"}
               PROVE  FALSE
      BY <1>3
  <2>1. UpdateTypeOK
      BY <1>3 DEF UpdateInv
  <2>2. PICK q, outcome :
          /\ q \in Requests
          /\ Ends(q, outcome)
          /\ \/ ReadRowsOf(q) \/ CheckRevision(q) \/ ReadManifestOf(q) \/ ReadNotesOf(q)
             \/ TakeLock(q) \/ Recheck(q) \/ CloseJournal(q) \/ Halt(q)
    <3>1. ~Play /\ ~Replay
        BY DEF Play, Replay
    <3>2. PICK q \in Requests :
            \/ SendUpdate(q) \/ SendHarmony(q) \/ SendOther(q)
            \/ ReadRowsOf(q) \/ CheckRevision(q) \/ ReadManifestOf(q) \/ ReadNotesOf(q)
            \/ TakeLock(q) \/ Recheck(q) \/ Swap(q) \/ CommitRows(q) \/ CloseJournal(q)
            \/ Halt(q)
        BY <3>1 DEF UpdateNext
    <3>3. /\ ~SendUpdate(q) /\ ~SendHarmony(q) /\ ~SendOther(q)
          /\ ~Swap(q) /\ ~CommitRows(q)
        BY DEF SendUpdate, SendHarmony, SendOther, Swap, CommitRows
    <3>4. CASE ReadRowsOf(q) \/ CheckRevision(q) \/ ReadManifestOf(q) \/ ReadNotesOf(q)
        BY <3>4 DEF ReadRowsOf, CheckRevision, ReadManifestOf, ReadNotesOf
    <3>5. CASE TakeLock(q) \/ CloseJournal(q) \/ Halt(q)
        BY <3>5 DEF TakeLock, CloseJournal, Halt
    <3>6. CASE Recheck(q)
        BY <3>6 DEF Recheck
    <3> QED
        BY <3>2, <3>3, <3>4, <3>5, <3>6
  <2>3. q = r /\ outcome \in {"conflict", "corrupt"}
      BY <2>1, <2>2 DEF Ends, UpdateTypeOK
  <2>4. at'[r] = "done"
      BY <2>1, <2>2, <2>3 DEF Ends, Goes, UpdateTypeOK
  <2>5. \A other : Ends(r, other) => other = outcome
      BY <2>1, <2>2, <2>3 DEF Ends, UpdateTypeOK
  <2>6. ~ReadRowsOf(r) /\ ~TakeLock(r) /\ ~CloseJournal(r) /\ ~Halt(r)
    <3>1. ~Goes(r, "revision") /\ ~Goes(r, "recheck")
        BY <2>1, <2>4 DEF Goes, UpdateTypeOK
    <3> QED
        BY <2>3, <2>5, <3>1 DEF ReadRowsOf, TakeLock, CloseJournal, Halt
  <2>7. CASE CheckRevision(r)
    <3>1. at[r] = "revision" /\ ~RevisionHolds(r)
        BY <2>1, <2>4, <2>7 DEF CheckRevision, Goes, UpdateTypeOK
    <3>2. Undisturbed(r)
        BY <1>3, <3>1 DEF QuietInv, Editors
    <3> QED
        BY <3>1, <3>2 DEF Undisturbed, RevisionHolds
  <2>8. CASE ReadManifestOf(r)
    <3>1. at[r] = "manifest" /\ tree = None
        BY <2>1, <2>4, <2>8 DEF ReadManifestOf, Goes, UpdateTypeOK
    <3> QED
        BY <1>3, <3>1 DEF QuietInv, Editors, Undisturbed
  <2>9. CASE ReadNotesOf(r)
    <3>1. /\ at[r] = "notes"
          /\ tree = None \/ {tree.notes, saw[r].rows.tempo} # {saw[r].tempo}
        BY <2>1, <2>4, <2>9 DEF ReadNotesOf, Goes, UpdateTypeOK
    <3>2. Undisturbed(r) /\ r \in Updates /\ BaseAgrees
        BY <1>3, <3>1 DEF QuietInv, Editors, UpdateInv
    <3>3. saw[r].tempo = tree.notes /\ saw[r].rows.tempo = tree.notes /\ tree # None
        BY <3>1, <3>2 DEF Undisturbed, SameText, BaseAgrees
    <3> QED
        BY <3>1, <3>3
  <2>10. CASE Recheck(r)
    <3>1. /\ at[r] = "recheck"
          /\ \E study \in {FALSE} \cup {r \in Ingests}, same \in BOOLEAN :
               Verdict(r, study, same) \in {"conflict", "corrupt"}
      <4>1. ~Goes(r, "swap")
          BY <2>1, <2>4 DEF Goes, UpdateTypeOK
      <4> QED
          BY <2>3, <2>5, <2>10, <4>1 DEF Recheck
    <3>2. PICK study, same : Verdict(r, study, same) \in {"conflict", "corrupt"}
        BY <3>1
    <3>3. \/ r \in Editors /\ ~RevisionHolds(r)
          \/ r \in Updates /\ ~SameSource(r)
        BY <3>2 DEF Verdict
    <3>4. r \in Editors /\ Undisturbed(r)
        BY <1>3, <3>1, <3>3 DEF QuietInv, Editors
    <3>5. RevisionHolds(r)
        BY <3>4 DEF Undisturbed, RevisionHolds
    <3>6. r \in Updates => SameSource(r)
      <4> SUFFICES ASSUME r \in Updates PROVE SameSource(r)
          OBVIOUS
      <4>1. /\ SameText(saw[r].rows, song) /\ tree # None
            /\ saw[r].manifest = tree.manifest /\ saw[r].notes = tree.notes
          BY <3>1, <3>4 DEF Undisturbed
      <4>2. song \in Row /\ saw[r].rows \in Row
          BY <2>1, <4>1 DEF UpdateTypeOK, Snapshots, SameText
      <4>3. [song EXCEPT !.plays = 0] = [saw[r].rows EXCEPT !.plays = 0]
          BY <4>1, <4>2 DEF SameText, Row
      <4> QED
          BY <4>1, <4>3 DEF SameSource, SameRows, SameText
    <3> QED
        BY <3>3, <3>5, <3>6
  <2> QED
      BY <2>2, <2>3, <2>6, <2>7, <2>8, <2>9, <2>10
<1> QED
    BY <1>2, <1>3, PTL DEF UpdateSpec, PlaysNeverConflict

-----------------------------------------------------------------------------
(* The editors implement SongEdits *)

\* What an open journal will leave: its rows, with the plays counted since.
LEMMA JournalPlays ==
    ASSUME UpdateInv, pending # None, pending.rows # None, song # None
    PROVE  /\ pending.rows \in Row /\ song \in Row /\ pending.rows.plays <= song.plays
           /\ Catalog = [pending.rows EXCEPT !.plays = song.plays]
<1>1. /\ UpdateTypeOK /\ pending.by \in Requests /\ pending.rows \in Row /\ song \in Row
      /\ ChangeOf(pending.by, pending.rows, song)
    BY DEF UpdateInv, UpdateTypeOK, JournalInv, Journal
<1>2. pending.rows.plays <= song.plays
  <2>1. CASE pending.by \in Editors
      BY <1>1, <2>1 DEF ChangeOf
  <2>2. CASE pending.by \in Ingests
    <3>1. pending.rows.plays = 0
        BY <1>1, <2>2 DEF ChangeOf
    <3> QED
        BY <1>1, <3>1, UpdateConstants DEF Row
  <2>3. CASE pending.by \in Deletes
      BY <1>1, <2>3 DEF ChangeOf
  <2> QED
      BY <1>1, <2>1, <2>2, <2>3, Kinds
<1> QED
    BY <1>1, <1>2, CommitMade DEF Catalog

\* A base with a tree has rows to come, with the tempo of the tree's notes.
LEMMA CatalogFits ==
    ASSUME UpdateInv
    PROVE  /\ tree # None => Catalog \in Row /\ Catalog.tempo = tree.notes /\ Whole \in Base
           /\ tree # None <=> Whole # None
           /\ pending = None => Catalog = song /\ (tree = None <=> song = None)
<1>1. UpdateTypeOK /\ BaseAgrees /\ JournalInv
    BY DEF UpdateInv
<1>2. tree # None => Catalog \in Row /\ Catalog.tempo = tree.notes
  <2>1. CASE pending = None
      BY <1>1, <2>1 DEF UpdateTypeOK, BaseAgrees, Catalog
  <2>2. CASE pending # None
    <3> SUFFICES ASSUME tree # None PROVE Catalog \in Row /\ Catalog.tempo = tree.notes
        OBVIOUS
    <3>1. /\ pending.rows \in Row \cup {None} /\ pending.rows # None
          /\ pending.rows.tempo = tree.notes
        BY <1>1, <2>2 DEF UpdateTypeOK, JournalInv, Journal
    <3>2. Committed(pending.rows) \in Row \cup {None} /\ SameText(Committed(pending.rows), pending.rows)
        BY <1>1, <3>1, CommitMade
    <3> QED
        BY <2>2, <3>1, <3>2 DEF Catalog, SameText
  <2> QED
      BY <2>1, <2>2
<1>3. tree # None => Whole \in Base
  <2> SUFFICES ASSUME tree # None PROVE Whole \in Base
      OBVIOUS
  <2>1. tree \in Tree /\ Catalog \in Row
      BY <1>1, <1>2 DEF UpdateTypeOK
  <2> QED
      BY <2>1 DEF Whole, Base, Tree, Row
<1>4. tree = None => Whole = None
    BY DEF Whole
<1>5. pending = None => Catalog = song /\ (tree = None <=> song = None)
    BY <1>1 DEF Catalog, BaseAgrees
<1> QED
    BY <1>2, <1>3, <1>4, <1>5, NothingIsNot

\* Only the rows, the tree and the journal make the base.
LEMMA SameWhole == UNCHANGED <<tree, song, pending>> => Whole' = Whole
BY DEF Whole, Catalog, Committed

\* Whoever commits the rows of a journal, and however often, leaves the base
\* that the swap announced.
LEMMA CommitUnseen ==
    ASSUME UpdateInv, pending # None, song' = Committed(pending.rows), UNCHANGED tree,
           pending' \in {pending, None}
    PROVE  Whole' = Whole
<1>1. CASE tree = None
    BY <1>1 DEF Whole
<1>2. CASE tree # None
  <2> DEFINE rows == pending.rows
  <2>1. UpdateTypeOK /\ rows \in Row /\ rows # None /\ song \in Row \cup {None}
      BY <1>2 DEF UpdateInv, UpdateTypeOK, JournalInv, Journal
  <2>2. /\ song' \in Row /\ song' # None /\ song'.title = rows.title /\ song'.tempo = rows.tempo
        /\ rows.plays <= song'.plays
    <3>1. song' \in Row \cup {None} /\ SameText(song', rows)
        BY <2>1, CommitMade
    <3>2. CASE song = None
      <4>1. song' = rows
          BY <2>1, <3>2, CommitMade
      <4> QED
          BY <2>1, <4>1, UpdateConstants DEF Row
    <3>3. CASE song # None
        BY <2>1, <3>1, <3>3, CommitMade DEF SameText
    <3> QED
        BY <3>1, <3>2, <3>3 DEF SameText
  <2> HIDE DEF rows
  <2>3. song' = [rows EXCEPT !.plays = song'.plays]
      BY <2>1, <2>2 DEF Row
  <2>4. ~(song'.plays < rows.plays)
      BY <2>1, <2>2, UpdateConstants DEF Row
  <2>5. pending' # None => Catalog' = song'
      BY <2>1, <2>2, <2>3, <2>4 DEF Catalog, Committed, rows
  <2>6. Catalog' = song' /\ Catalog = song'
      BY <2>5 DEF Catalog, rows
  <2> QED
      BY <2>6 DEF Whole
<1> QED
    BY <1>1, <1>2

-----------------------------------------------------------------------------
\* The stages of all requests but one stay.
LEMMA StageGoes ==
    ASSUME UpdateTypeOK, NEW r \in Requests, NEW step \in EditSteps, Goes(r, step),
           \A q \in Requests \ {r} : result'[q] = result[q],
           NEW to, Stage(r)' \in to
    PROVE  Edits!Goes(r, Stage(r), to)
<1>1. at'[r] = step /\ \A q \in Requests \ {r} : at'[q] = at[q]
    BY DEF Goes, UpdateTypeOK
<1>2. \A q \in Requests \ {r} : Stage(q)' = Stage(q)
    BY <1>1 DEF Stage
<1>3. [q \in Requests |-> Stage(q)]' = [[q \in Requests |-> Stage(q)] EXCEPT ![r] = Stage(r)']
    BY <1>2
<1>4. [q \in Requests |-> Stage(q)]'[r] = Stage(r)'
    BY <1>2
<1> QED
    BY <1>3, <1>4 DEF Edits!Goes

\* A request that keeps its stage is not seen.
LEMMA StageStays ==
    ASSUME UpdateTypeOK, NEW r \in Requests, NEW step \in EditSteps, Goes(r, step),
           UNCHANGED result, Stage(r)' = Stage(r)
    PROVE  UNCHANGED [q \in Requests |-> Stage(q)]
<1>1. at'[r] = step /\ \A q \in Requests \ {r} : at'[q] = at[q]
    BY DEF Goes, UpdateTypeOK
<1>2. \A q \in Requests \ {r} : Stage(q)' = Stage(q)
    BY <1>1 DEF Stage
<1> QED
    BY <1>2

\* A request that ends has answered.
LEMMA EndGoes ==
    ASSUME UpdateTypeOK, NEW r \in Requests, NEW outcome, Ends(r, outcome), NEW to, outcome \in to
    PROVE  Edits!Goes(r, Stage(r), to)
<1>1. /\ Goes(r, "done") /\ result' = [result EXCEPT ![r] = outcome] /\ "done" \in EditSteps
    BY DEF Ends, EditSteps
<1>2. at'[r] = "done" /\ result'[r] = outcome /\ \A q \in Requests \ {r} : result'[q] = result[q]
    BY <1>1 DEF Goes, UpdateTypeOK
<1>3. Stage(r)' = outcome
    BY <1>2 DEF Stage
<1> QED
    BY <1>1, <1>2, <1>3, StageGoes

\* A step of the base as its clients see it, or none.
EditSeen == Edits!Next \/ UNCHANGED Edits!vars

\* A request that was not applied, and says so, or was stopped.
LEMMA EndSeen ==
    ASSUME UpdateTypeOK, NEW r \in Requests, NEW outcome, Ends(r, outcome), Stage(r) = "sent",
           UNCHANGED <<tree, song, pending, patch>>,
           outcome \in Edits!Answers \ {"done"},
           outcome = "replayed" => r \in Harmonies /\ Whole # None /\ Whole.binding = expect[r],
           outcome = "conflict" /\ r \in Harmonies => ~Edits!Named(r),
           outcome = "review" => Whole # None /\ Whole.backing # None
    PROVE  EditSeen
<1>1. Edits!Goes(r, "sent", {outcome})
    BY EndGoes
<1>2. [q \in Requests |-> Stage(q)]'[r] = outcome /\ Edits!Goes(r, "sent", Edits!Answers \ {"done"})
    BY <1>1 DEF Edits!Goes
<1>3. Edits!Refused(r)
    BY <1>2 DEF Edits!Refused
<1>4. Edits!Answer(r)
    BY <1>3, SameWhole DEF Edits!Answer, Ends
<1> QED
    BY <1>4 DEF EditSeen, Edits!Next, Edits!Requests, Requests, Editors

\* A request that only goes on reading or waiting is not seen.
LEMMA WaitUnseen ==
    ASSUME UpdateTypeOK, NEW r \in Requests, NEW step \in EditSteps, Goes(r, step),
           Stage(r) = "sent", step \in {"revision", "manifest", "notes", "lock", "recheck", "swap"},
           UNCHANGED <<tree, song, pending, patch, expect, result>>
    PROVE  EditSeen
<1>1. at'[r] = step
    BY DEF Goes, UpdateTypeOK
<1>2. Stage(r)' = "sent"
    BY <1>1 DEF Stage
<1> QED
    BY <1>2, StageStays, SameWhole DEF EditSeen, Edits!vars

\* A request names the revision that is there, or none.
LEMMA SendSeen ==
    ASSUME UpdateInv, NEW r \in Requests, SendUpdate(r) \/ SendHarmony(r) \/ SendOther(r)
    PROVE  EditSeen
<1>1. UpdateTypeOK /\ at[r] = "idle" /\ UNCHANGED <<tree, song, pending, result>>
    BY DEF UpdateInv, SendUpdate, SendHarmony, SendOther, Sent, Comes, base
<1>2. \E step \in {"open", "lock"} : Goes(r, step)
    BY DEF SendUpdate, SendHarmony, SendOther
<1>3. Edits!Goes(r, "idle", {"sent"})
  <2> PICK step \in {"open", "lock"} : Goes(r, step)
      BY <1>2
  <2>1. at'[r] = step /\ step \in EditSteps
      BY <1>1 DEF Goes, UpdateTypeOK, EditSteps
  <2>2. Stage(r) = "idle" /\ Stage(r)' = "sent"
      BY <1>1, <2>1 DEF Stage
  <2> QED
      BY <1>1, <2>1, <2>2, StageGoes
<1>4. Whole' = Whole /\ (tree # None => Whole # None /\ Whole.rev = tree.rev)
    BY <1>1, SameWhole, CatalogFits DEF Whole
<1>5. CASE SendUpdate(r)
  <2>1. r \in Updates /\ \E fields \in SUBSET {"title", "tempo"} : patch' = [patch EXCEPT ![r] = fields]
      BY <1>5 DEF SendUpdate, Fields
  <2>2. \/ expect' = [expect EXCEPT ![r] = AnyRevision]
        \/ Whole # None /\ expect' = [expect EXCEPT ![r] = Whole.rev]
      BY <1>4, <1>5 DEF SendUpdate, Sent
  <2> QED
      BY <1>3, <1>4, <2>1, <2>2 DEF EditSeen, Edits!Next, Edits!Send, Edits!Requests
<1>6. CASE SendHarmony(r)
  <2>1. /\ r \in Harmonies /\ Whole # None /\ UNCHANGED patch
        /\ expect' = [expect EXCEPT ![r] = Whole.rev]
      BY <1>4, <1>6 DEF SendHarmony, Sent
  <2> QED
      BY <1>3, <1>4, <2>1 DEF EditSeen, Edits!Next, Edits!Send, Edits!Requests
<1>7. CASE SendOther(r)
  <2>1. r \in Ingests \cup Deletes /\ UNCHANGED <<patch, expect>>
      BY <1>7 DEF SendOther
  <2> QED
      BY <1>3, <1>4, <2>1 DEF EditSeen, Edits!Next, Edits!Send, Edits!Requests
<1> QED
    BY <1>5, <1>6, <1>7

\* The revision named is compared with that of the base.
LEMMA NamedHolds == UpdateInv => \A r \in Requests :
    /\ ~RevisionHolds(r) => ~Edits!Named(r)
    /\ tree # None /\ RevisionHolds(r) => Edits!Named(r)
BY CatalogFits DEF RevisionHolds, Edits!Named, Whole

\* Reading, without the lock, ends in an answer or is not seen.
LEMMA ReadSeen ==
    ASSUME UpdateInv, NEW r \in Requests,
           ReadRowsOf(r) \/ CheckRevision(r) \/ ReadManifestOf(r) \/ ReadNotesOf(r)
    PROVE  EditSeen
<1>1. /\ UpdateTypeOK /\ UNCHANGED <<tree, song, pending, patch>>
      /\ at[r] \in {"open", "revision", "manifest", "notes"}
    BY DEF UpdateInv, ReadRowsOf, CheckRevision, ReadManifestOf, ReadNotesOf, base
<1>2. Stage(r) = "sent"
    BY <1>1 DEF Stage
<1>3. \/ \E step \in {"revision", "manifest", "notes", "lock"} :
            Goes(r, step) /\ UNCHANGED <<expect, result>>
      \/ Ends(r, "missing") \/ Ends(r, "corrupt")
      \/ Ends(r, "conflict") /\ ~RevisionHolds(r)
    BY DEF ReadRowsOf, CheckRevision, ReadManifestOf, ReadNotesOf
<1>4. CASE \E step \in {"revision", "manifest", "notes", "lock"} :
              Goes(r, step) /\ UNCHANGED <<expect, result>>
    BY <1>1, <1>2, <1>4, WaitUnseen DEF EditSteps
<1>5. CASE Ends(r, "missing") \/ Ends(r, "corrupt")
    BY <1>1, <1>2, <1>5, EndSeen DEF Edits!Answers
<1>6. CASE Ends(r, "conflict") /\ ~RevisionHolds(r)
    BY <1>1, <1>2, <1>6, EndSeen, NamedHolds DEF Edits!Answers
<1> QED
    BY <1>3, <1>4, <1>5, <1>6

\* So does taking the lock.
LEMMA LockSeen ==
    ASSUME UpdateInv, NEW r \in Requests, TakeLock(r)
    PROVE  EditSeen
<1>1. UpdateTypeOK /\ at[r] = "lock" /\ UNCHANGED <<tree, song, pending, patch>>
    BY DEF UpdateInv, TakeLock
<1>2. Stage(r) = "sent"
    BY <1>1 DEF Stage
<1>3. CASE Goes(r, "recheck") /\ UNCHANGED <<expect, saw, result, moved>>
    BY <1>1, <1>2, <1>3, WaitUnseen DEF EditSteps
<1>4. CASE Ends(r, "refused")
    BY <1>1, <1>2, <1>4, EndSeen DEF Edits!Answers
<1> QED
    BY <1>3, <1>4 DEF TakeLock

\* The verdict under the lock is true of the base, for no journal is open.
LEMMA RecheckSeen ==
    ASSUME UpdateInv, NEW r \in Requests, Recheck(r)
    PROVE  EditSeen
<1>1. UpdateTypeOK /\ at[r] = "recheck" /\ UNCHANGED <<tree, song, pending, patch>>
    BY DEF UpdateInv, Recheck
<1>2. Stage(r) = "sent"
    BY <1>1 DEF Stage
<1>3. PICK study, same : \/ /\ Verdict(r, study, same) = "ok" /\ Goes(r, "swap")
                            /\ UNCHANGED <<expect, result>>
                         \/ Verdict(r, study, same) # "ok" /\ Ends(r, Verdict(r, study, same))
    BY DEF Recheck
<1>4. CASE Verdict(r, study, same) = "ok" /\ Goes(r, "swap") /\ UNCHANGED <<expect, result>>
    BY <1>1, <1>2, <1>4, WaitUnseen DEF EditSteps
<1>5. CASE Verdict(r, study, same) # "ok" /\ Ends(r, Verdict(r, study, same))
  <2>1. Verdict(r, study, same) \in {"replayed", "conflict", "review"}
      BY <1>5 DEF Verdict
  <2>2. Verdict(r, study, same) = "replayed" =>
          r \in Harmonies /\ Whole # None /\ Whole.binding = expect[r]
    <3>1. Verdict(r, study, same) = "replayed" => r \in Harmonies /\ tree # None /\ tree.binding = expect[r]
        BY DEF Verdict
    <3> QED
        BY <3>1, CatalogFits DEF Whole
  <2>3. Verdict(r, study, same) = "conflict" /\ r \in Harmonies => ~Edits!Named(r)
    <3>1. Verdict(r, study, same) = "conflict" /\ r \in Harmonies => ~RevisionHolds(r)
        BY Kinds DEF Verdict
    <3> QED
        BY <3>1, NamedHolds
  <2>4. Verdict(r, study, same) = "review" => Whole # None /\ Whole.backing # None
    <3>1. Verdict(r, study, same) = "review" => tree # None /\ tree.backing # None
        BY DEF Verdict, BackingFits
    <3> QED
        BY <3>1, CatalogFits DEF Whole
  <2> QED
      BY <1>1, <1>2, <1>5, <2>1, <2>2, <2>3, <2>4, EndSeen DEF Edits!Answers
<1> QED
    BY <1>3, <1>4, <1>5

\* What the base is after the swap of an editor: the rows announced are those
\* of the base with the change of the request.
LEMMA EditorSwaps ==
    ASSUME UpdateInv, NEW r \in Editors, Swap(r)
    PROVE  /\ tree \in Tree /\ song \in Row /\ Whole # None /\ Edits!Named(r)
           /\ pending' # None /\ pending'.rows \in Row
           /\ Catalog' = [pending'.rows EXCEPT !.plays = song.plays]
           /\ Catalog = song /\ song.tempo = tree.notes
<1>1. /\ r \in Requests /\ at[r] = "swap" /\ pending = None /\ Decided(r) /\ UpdateTypeOK
      /\ UNCHANGED song
    BY DEF Requests, Swap, UpdateInv, RequestInv
<1>2. /\ tree \in Tree /\ song \in Row /\ song # None /\ Whole # None /\ Catalog = song
      /\ song.tempo = tree.notes
    BY <1>1, CatalogFits DEF UpdateTypeOK, Decided, SameText
<1>3. /\ pending' \in Journal /\ pending' # None /\ pending'.by = r
      /\ ChangeOf(r, pending'.rows, song)
    BY <1>1, SwapMade, NothingIsNot
<1>4. /\ pending'.rows \in Row /\ pending'.rows # None /\ pending'.rows.plays <= song.plays
    BY <1>3 DEF ChangeOf, Journal
<1>5. Committed(pending'.rows) = [pending'.rows EXCEPT !.plays = song.plays]
    BY <1>1, <1>2, <1>4, CommitMade
<1>6. Catalog' = Committed(pending'.rows)
    BY <1>1, <1>3 DEF Catalog, Committed
<1>7. Edits!Named(r)
    BY <1>1, <1>2, NamedHolds DEF Decided, RevisionHolds
<1> QED
    BY <1>2, <1>3, <1>4, <1>5, <1>6, <1>7

\* An update changes the fields it names and nothing else.
LEMMA UpdateApplies ==
    ASSUME UpdateInv, NEW r \in Updates, Swap(r)
    PROVE  Edits!Edit(r)
<1>1. r \in Requests /\ r \in Editors /\ r \in Authors /\ UpdateTypeOK /\ Decided(r)
    BY Kinds DEF Requests, Editors, Swap, UpdateInv, RequestInv
<1>2. /\ tree \in Tree /\ song \in Row /\ Whole # None /\ Edits!Named(r) /\ pending'.rows \in Row
      /\ Catalog' = [pending'.rows EXCEPT !.plays = song.plays]
      /\ Catalog = song
    BY <1>1, EditorSwaps
<1>3. /\ tree' = [tree EXCEPT !.rev = r, !.manifest = r,
                              !.notes = Value(r, "tempo", tree.notes), !.binding = None]
      /\ tree # None /\ tree' # None
  <2>1. tree' = TreeBy(r) /\ pending'.rows # None
      BY <1>2, NothingIsNot DEF Swap
  <2> QED
      BY <1>1, <1>2, <2>1, TreeMade, SwapMade, NothingIsNot
<1>4. /\ tree'.rev = r /\ tree'.backing = tree.backing /\ tree'.binding = None
    BY <1>2, <1>3 DEF Tree
<1>5. /\ pending'.rows.title = Value(r, "title", song.title)
      /\ pending'.rows.tempo = Value(r, "tempo", song.tempo)
    BY <1>1, SwapMade DEF ChangeOf
<1>6. /\ Catalog'.title = Value(r, "title", song.title) /\ Catalog'.plays = song.plays
      /\ Catalog'.tempo = Value(r, "tempo", song.tempo)
    BY <1>2, <1>5 DEF Row
<1>7. Whole' = [rev |-> r, title |-> Value(r, "title", song.title),
                tempo |-> Value(r, "tempo", song.tempo), plays |-> song.plays,
                backing |-> tree.backing, binding |-> None]
    BY <1>3, <1>4, <1>6 DEF Whole
<1>8. Whole = [rev |-> tree.rev, title |-> song.title, tempo |-> song.tempo, plays |-> song.plays,
               backing |-> tree.backing, binding |-> tree.binding]
    BY <1>2, <1>3 DEF Whole
<1>9. "tempo" \in patch[r] => Whole.backing = None
    BY <1>1, <1>8 DEF Decided
<1>10. Whole \in Base /\ Whole' \in Base
  <2>1. song.title \in Authors /\ song.tempo \in Authors /\ song.plays \in 0 .. MaxPlays
        /\ tree.backing \in Authors \cup {None}
      BY <1>2 DEF Row, Tree
  <2> QED
      BY <1>1, <1>3, <1>7, <2>1, CatalogFits DEF Base, Value
<1>11. Whole' = [Whole EXCEPT !.rev = r, !.binding = None,
                              !.title = Edits!Set(r, "title", Whole.title),
                              !.tempo = Edits!Set(r, "tempo", Whole.tempo)]
  <2>1. /\ Whole'.rev = r /\ Whole'.binding = None /\ Whole'.plays = Whole.plays
        /\ Whole'.backing = Whole.backing
        /\ Whole'.title = Edits!Set(r, "title", Whole.title)
        /\ Whole'.tempo = Edits!Set(r, "tempo", Whole.tempo)
      BY <1>7, <1>8 DEF Edits!Set, Value
  <2> QED
      BY <1>10, <2>1 DEF Base
<1> QED
    BY <1>2, <1>9, <1>11 DEF Edits!Edit

\* A harmony puts its backing beside the notes and changes nothing else.
LEMMA HarmonyApplies ==
    ASSUME UpdateInv, NEW r \in Harmonies, Swap(r)
    PROVE  Edits!Harmonise(r)
<1>1. /\ r \in Requests /\ r \in Editors /\ UpdateTypeOK /\ Decided(r) /\ at[r] = "swap"
      /\ expect[r] # AnyRevision
    BY DEF Requests, Editors, Swap, UpdateInv, RequestInv
<1>2. /\ tree \in Tree /\ song \in Row /\ Whole # None /\ Edits!Named(r) /\ pending'.rows \in Row
      /\ Catalog' = [pending'.rows EXCEPT !.plays = song.plays]
      /\ Catalog = song /\ song.tempo = tree.notes
    BY <1>1, EditorSwaps
<1>3. /\ tree' = [tree EXCEPT !.rev = r, !.backing = tree.notes, !.binding = expect[r]]
      /\ tree # None /\ tree' # None
  <2>1. tree' = TreeBy(r) /\ pending'.rows # None
      BY <1>2, NothingIsNot DEF Swap
  <2> QED
      BY <1>1, <1>2, <2>1, TreeMade, SwapMade, NothingIsNot
<1>4. /\ tree'.rev = r /\ tree'.backing = song.tempo /\ tree'.binding = expect[r]
    BY <1>2, <1>3 DEF Tree
<1>5. pending'.rows.title = song.title /\ pending'.rows.tempo = song.tempo
    BY <1>1, SwapMade, Kinds DEF ChangeOf
<1>6. Catalog'.title = song.title /\ Catalog'.plays = song.plays /\ Catalog'.tempo = song.tempo
    BY <1>2, <1>5 DEF Row
<1>7. Whole' = [rev |-> r, title |-> song.title, tempo |-> song.tempo, plays |-> song.plays,
                backing |-> song.tempo, binding |-> expect[r]]
    BY <1>3, <1>4, <1>6 DEF Whole
<1>8. Whole = [rev |-> tree.rev, title |-> song.title, tempo |-> song.tempo, plays |-> song.plays,
               backing |-> tree.backing, binding |-> tree.binding]
    BY <1>2, <1>3 DEF Whole
<1>9. Whole \in Base /\ Whole' \in Base
  <2>1. song.title \in Authors /\ song.tempo \in Authors /\ song.plays \in 0 .. MaxPlays
      BY <1>2 DEF Row
  <2>2. r \in Authors /\ expect[r] \in Authors
      BY <1>1, Kinds DEF UpdateTypeOK
  <2> QED
      BY <1>1, <1>3, <1>7, <2>1, <2>2, CatalogFits DEF Base
<1>10. Whole' = [Whole EXCEPT !.rev = r, !.backing = Whole.tempo, !.binding = expect[r]]
  <2>1. /\ Whole'.rev = r /\ Whole'.binding = expect[r] /\ Whole'.plays = Whole.plays
        /\ Whole'.backing = Whole.tempo
        /\ Whole'.title = Whole.title /\ Whole'.tempo = Whole.tempo
      BY <1>7, <1>8
  <2> QED
      BY <1>9, <2>1 DEF Base
<1> QED
    BY <1>1, <1>2, <1>10 DEF Edits!Harmonise

\* An ingest keeps nothing but the plays.
LEMMA IngestApplies ==
    ASSUME UpdateInv, NEW r \in Ingests, Swap(r)
    PROVE  Edits!Ingest(r)
<1>1. /\ r \in Requests /\ r \in Authors /\ UpdateTypeOK /\ Decided(r) /\ at[r] = "swap"
      /\ pending = None /\ UNCHANGED song
    BY Kinds DEF Requests, Swap, UpdateInv, RequestInv
<1>2. /\ Catalog = song /\ (Whole = None <=> song = None) /\ (tree # None <=> Whole # None)
      /\ song # None => song \in Row
    BY <1>1, CatalogFits DEF UpdateTypeOK
<1> DEFINE rows == [title |-> r, tempo |-> r, plays |-> 0]
           plays == IF song = None THEN 0 ELSE song.plays
<1>3. rows \in Row /\ rows # None
  <2>1. 0 \in 0 .. MaxPlays
      BY UpdateConstants
  <2> QED
      BY <1>1, <2>1, NothingIsNot DEF Row
<1>4. pending' # None /\ pending'.rows = rows /\ tree' # None
    BY <1>1, <1>3, SwapMade, NothingIsNot DEF ChangeOf
<1>5. tree'.rev = r /\ tree'.backing = None /\ tree'.binding = None
  <2>1. tree' = [rev |-> r, manifest |-> r, notes |-> r, binding |-> None,
                 backing |-> IF tree = None \/ saw[r].notes = r THEN None ELSE tree.backing]
      BY <1>1, TreeMade DEF Swap
  <2>2. (IF tree = None \/ saw[r].notes = r THEN None ELSE tree.backing) = None
      BY <1>1 DEF Decided
  <2> QED
      BY <2>1, <2>2
<1>6. Catalog' = Committed(rows)
    BY <1>1, <1>4 DEF Catalog, Committed
<1>7. Committed(rows) = [rows EXCEPT !.plays = plays]
  <2>1. CASE song = None
      BY <1>1, <1>3, <2>1, CommitMade
  <2>2. CASE song # None
    <3>1. rows.plays <= song.plays
        BY <1>2, <2>2, UpdateConstants DEF Row
    <3> QED
        BY <1>1, <1>3, <2>2, <3>1, CommitMade
  <2> QED
      BY <2>1, <2>2
<1>8. Catalog'.title = r /\ Catalog'.tempo = r /\ Catalog'.plays = plays
    BY <1>6, <1>7
<1>9. Whole' = [rev |-> r, title |-> r, tempo |-> r, plays |-> plays, backing |-> None,
                binding |-> None]
    BY <1>4, <1>5, <1>8 DEF Whole
<1>10. plays = IF Whole = None THEN 0 ELSE Whole.plays
    BY <1>2 DEF Whole
<1> HIDE DEF plays
<1>11. Whole' = [rev |-> r, title |-> r, tempo |-> r, backing |-> None, binding |-> None,
                 plays |-> IF Whole = None THEN 0 ELSE Whole.plays]
    BY <1>9, <1>10
<1> QED
    BY <1>11 DEF Edits!Ingest

\* The swap is the instant at which a request takes effect.
LEMMA SwapSeen ==
    ASSUME UpdateInv, NEW r \in Requests, Swap(r)
    PROVE  EditSeen
<1>1. /\ UpdateTypeOK /\ at[r] = "swap" /\ Goes(r, "rows") /\ "rows" \in EditSteps
      /\ UNCHANGED <<patch, expect, result>>
    BY DEF UpdateInv, Swap, EditSteps
<1>2. Edits!Goes(r, "sent", {"applied"})
  <2>1. at'[r] = "rows"
      BY <1>1 DEF Goes, UpdateTypeOK
  <2>2. Stage(r) = "sent" /\ Stage(r)' = "applied"
      BY <1>1, <2>1 DEF Stage
  <2> QED
      BY <1>1, <2>2, StageGoes
<1>3. r \in Deletes => Edits!Delete(r)
  <2>1. r \in Deletes => tree' = None
      BY TreeMade DEF Swap
  <2> QED
      BY <2>1 DEF Edits!Delete, Whole
<1>4. Edits!Edit(r) \/ Edits!Harmonise(r) \/ Edits!Ingest(r) \/ Edits!Delete(r)
    BY <1>3, UpdateApplies, HarmonyApplies, IngestApplies DEF Requests, Editors
<1>5. Edits!Apply(r)
    BY <1>1, <1>2, <1>4 DEF Edits!Apply
<1> QED
    BY <1>5 DEF EditSeen, Edits!Next, Edits!Requests, Requests, Editors

\* The commit and the end of the journal only make known what was applied.
LEMMA CommitSeen ==
    ASSUME UpdateInv, NEW r \in Requests, CommitRows(r)
    PROVE  EditSeen
<1>1. /\ UpdateTypeOK /\ at[r] = "rows" /\ Goes(r, "close") /\ "close" \in EditSteps
      /\ pending # None /\ song' = Committed(pending.rows)
      /\ UNCHANGED <<tree, pending, patch, expect, result>>
    BY DEF UpdateInv, RequestInv, CommitRows, EditSteps
<1>2. at'[r] = "close"
    BY <1>1 DEF Goes, UpdateTypeOK
<1>3. Stage(r)' = Stage(r)
    BY <1>1, <1>2 DEF Stage
<1> QED
    BY <1>1, <1>3, StageStays, CommitUnseen DEF EditSeen, Edits!vars

LEMMA CloseSeen ==
    ASSUME UpdateInv, NEW r \in Requests, CloseJournal(r)
    PROVE  EditSeen
<1>1. /\ UpdateTypeOK /\ at[r] = "close" /\ Ends(r, "done") /\ pending # None /\ pending' = None
      /\ UNCHANGED <<tree, song, patch>>
      /\ IF pending.rows = None THEN song = None ELSE SameText(pending.rows, song)
    BY DEF UpdateInv, RequestInv, CloseJournal
<1>2. Whole' = Whole
  <2>1. CASE tree = None
      BY <1>1, <2>1 DEF Whole
  <2>2. CASE tree # None
    <3>1. /\ pending.rows # None /\ song # None
          /\ pending.rows.title = song.title /\ pending.rows.tempo = song.tempo
        BY <1>1, <2>2 DEF UpdateInv, JournalInv, SameText
    <3>2. /\ pending.rows \in Row /\ song \in Row
          /\ Catalog = [pending.rows EXCEPT !.plays = song.plays]
        BY <1>1, <3>1, JournalPlays
    <3>3. Catalog = song
        BY <3>1, <3>2 DEF Row
    <3>4. Catalog' = song
        BY <1>1 DEF Catalog
    <3> QED
        BY <1>1, <3>3, <3>4 DEF Whole
  <2> QED
      BY <2>1, <2>2
<1>3. Stage(r) = "applied" /\ Edits!Goes(r, "applied", {"done", "stopped"})
    BY <1>1, EndGoes DEF Stage
<1>4. Edits!Answer(r)
    BY <1>1, <1>2, <1>3 DEF Edits!Answer, Ends
<1> QED
    BY <1>4 DEF EditSeen, Edits!Next, Edits!Requests, Requests, Editors

\* A stop is an answer that does not tell.
LEMMA HaltSeen ==
    ASSUME UpdateInv, NEW r \in Requests, Halt(r)
    PROVE  EditSeen
<1>1. /\ UpdateTypeOK /\ Ends(r, "stopped") /\ UNCHANGED <<tree, song, pending, patch>>
      /\ at[r] \in {"recheck", "swap", "rows", "close"}
    BY DEF UpdateInv, RequestInv, Halt
<1>2. CASE at[r] \in {"recheck", "swap"}
  <2>1. Stage(r) = "sent"
      BY <1>2 DEF Stage
  <2> QED
      BY <1>1, <2>1, EndSeen DEF Edits!Answers
<1>3. CASE at[r] \in {"rows", "close"}
  <2>1. Stage(r) = "applied" /\ Edits!Goes(r, "applied", {"done", "stopped"})
      BY <1>1, <1>3, EndGoes DEF Stage
  <2>2. Edits!Answer(r)
      BY <1>1, <2>1, SameWhole DEF Edits!Answer, Ends
  <2> QED
      BY <2>2 DEF EditSeen, Edits!Next, Edits!Requests, Requests, Editors
<1> QED
    BY <1>1, <1>2, <1>3

\* A replay makes known what its journal announced.
LEMMA ReplaySeen == ASSUME UpdateInv, Replay PROVE EditSeen
<1>1. /\ pending # None /\ pending' = None /\ song' = Committed(pending.rows)
      /\ UNCHANGED <<tree, at, patch, expect, result>>
    BY DEF Replay
<1>2. Whole' = Whole
    BY <1>1, CommitUnseen
<1>3. UNCHANGED [q \in Requests |-> Stage(q)]
    BY <1>1 DEF Stage
<1> QED
    BY <1>1, <1>2, <1>3 DEF EditSeen, Edits!vars

\* A play counts for the base, even under an open journal, unless that is the
\* journal of a deletion.
LEMMA PlaySeen == ASSUME UpdateInv, Play PROVE EditSeen
<1>1. /\ UpdateTypeOK /\ song # None /\ song \in Row /\ song' = [song EXCEPT !.plays = @ + 1]
      /\ UNCHANGED <<tree, pending, at, patch, expect, result>>
    BY DEF Play, UpdateInv, UpdateTypeOK
<1>2. UNCHANGED [q \in Requests |-> Stage(q)]
    BY <1>1 DEF Stage
<1>3. CASE tree = None
    BY <1>1, <1>2, <1>3 DEF Whole, EditSeen, Edits!vars
<1>4. CASE tree # None
  <2>1. Catalog \in Row /\ Whole # None
      BY <1>4, CatalogFits
  <2>2. song'.plays = song.plays + 1 /\ song.plays \in Nat
      BY <1>1, UpdateConstants DEF Row
  <2>3. Catalog' = [Catalog EXCEPT !.plays = @ + 1]
    <3>1. CASE pending = None
        BY <1>1, <3>1 DEF Catalog
    <3>2. CASE pending # None
      <4>1. pending.rows # None
          BY <1>4, <3>2 DEF UpdateInv, JournalInv
      <4>2. /\ pending.rows \in Row /\ pending.rows.plays <= song.plays
            /\ Catalog = [pending.rows EXCEPT !.plays = song.plays]
          BY <1>1, <3>2, <4>1, JournalPlays
      <4>3. song' # None /\ pending.rows.plays \in Nat
        <5>1. UpdateTypeOK' /\ song'.plays \in Nat
            BY <2>2, TypeKept4 DEF UpdateInv
        <5>2. song' \in Row
          <6>1. song.plays + 1 \in 0 .. MaxPlays
              BY <2>2, UpdateConstants DEF Play
          <6> QED
              BY <1>1, <6>1 DEF Row
        <5> QED
            BY <4>2, <5>2, NothingIsNot, UpdateConstants DEF Row
      <4>4. ~(song'.plays < pending.rows.plays)
          BY <2>2, <4>2, <4>3
      <4>5. Catalog' = [pending.rows EXCEPT !.plays = song'.plays]
          BY <1>1, <3>2, <4>1, <4>3, <4>4 DEF Catalog, Committed
      <4> QED
          BY <2>2, <4>2, <4>5 DEF Row
    <3> QED
        BY <3>1, <3>2
  <2>4. /\ Catalog'.title = Catalog.title /\ Catalog'.tempo = Catalog.tempo
        /\ Catalog'.plays = Catalog.plays + 1
      BY <2>1, <2>3 DEF Row
  <2>5. Whole' = [Whole EXCEPT !.plays = @ + 1]
      BY <1>1, <1>4, <2>4 DEF Whole
  <2> QED
      BY <1>1, <1>2, <2>1, <2>5 DEF EditSeen, Edits!Next, Edits!Play
<1> QED
    BY <1>3, <1>4

LEMMA EditsBegin == UpdateInit => Edits!Init
<1> SUFFICES ASSUME UpdateInit PROVE Edits!Init
    OBVIOUS
<1>1. UpdateInv
    BY UpdateBegins
<1>2. tree # None /\ Catalog = song
    BY <1>1, CatalogFits, NothingIsNot DEF UpdateInit, UpdateInv, UpdateTypeOK
<1>3. Whole = [rev |-> First, title |-> First, tempo |-> First, plays |-> 0,
               backing |-> None, binding |-> None]
    BY <1>2 DEF UpdateInit, Whole
<1>4. [r \in Requests |-> Stage(r)] = [r \in Requests |-> "idle"]
    BY DEF UpdateInit, Stage
<1> QED
    BY <1>3, <1>4 DEF UpdateInit, Edits!Init, Edits!Requests, Requests, Editors

\* Every step is one step of the base as its clients see it, or none.
LEMMA EditStep == UpdateInv /\ [UpdateNext]_updateVars => [Edits!Next]_(Edits!vars)
<1> SUFFICES ASSUME UpdateInv, [UpdateNext]_updateVars PROVE EditSeen
    BY DEF EditSeen
<1>1. CASE UNCHANGED updateVars
    BY <1>1, SameWhole DEF updateVars, base, Stage, EditSeen, Edits!vars
<1>2. ASSUME NEW r \in Requests, SendUpdate(r) \/ SendHarmony(r) \/ SendOther(r) PROVE EditSeen
    BY <1>2, SendSeen
<1>3. ASSUME NEW r \in Requests,
             ReadRowsOf(r) \/ CheckRevision(r) \/ ReadManifestOf(r) \/ ReadNotesOf(r)
      PROVE  EditSeen
    BY <1>3, ReadSeen
<1>4. ASSUME NEW r \in Requests, TakeLock(r) \/ Recheck(r) \/ Swap(r) PROVE EditSeen
    BY <1>4, LockSeen, RecheckSeen, SwapSeen
<1>5. ASSUME NEW r \in Requests, CommitRows(r) \/ CloseJournal(r) \/ Halt(r) PROVE EditSeen
    BY <1>5, CommitSeen, CloseSeen, HaltSeen
<1>6. CASE Play \/ Replay
    BY <1>6, PlaySeen, ReplaySeen
<1> QED
    BY <1>1, <1>2, <1>3, <1>4, <1>5, <1>6 DEF UpdateNext

\* applySongMetadata, publishHarmonyCandidate, an ingest and a deletion of one
\* base, with their reads before the lock, their stops and their replays,
\* implement requests that each take effect at one instant, once, on the whole
\* base as it is then, or truly answer that they did not.
THEOREM EditsImplemented == UpdateSpec => EditsSpec
    BY UpdateInvariant, EditsBegin, EditStep, PTL DEF UpdateSpec, EditsSpec, Edits!Spec
=============================================================================
