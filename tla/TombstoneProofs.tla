-------------------------- MODULE TombstoneProofs ---------------------------
(***************************************************************************)
(* The safety of the reversible deletion for any number of paths, stops,   *)
(* newer files, jobs and publications.                                     *)
(***************************************************************************)
EXTENDS Tombstone, TLAPS

Cleared(i) == place[i] \in {None, Newer}
InPlace(i) == place[i] = tomb.of /\ saved[i] = None
Away(i) == saved[i] = tomb.of /\ Cleared(i)

\* On which side each path lies, for every state of the record.
SidesInv ==
    /\ tomb.state \in {"quarantining", "restoring"} => \A i \in Paths : InPlace(i) \/ Away(i)
    /\ tomb.state = "quarantined" => target /\ \A i \in Paths : Away(i)
    /\ tomb.state = "purging" =>
         expired /\ \A i \in Paths : Cleared(i) /\ saved[i] \in {tomb.of, None}

\* The record of a hidden base pins its rows.
RecordInv == Hidden => tomb.of \in Publications /\ rows = tomb.of

\* What the holder of the lock relies on at its step.
StepInv ==
    /\ pc = "save" => act = "finish" /\ ~Hidden /\ rows # None
    /\ pc = "mark" => \/ act = "undo" /\ tomb.state \in {"quarantined", "restoring"}
                      \/ act = "purge" /\ tomb.state = "purging"
                      \/ act = "purge" /\ tomb.state = "quarantined" /\ expired
    /\ pc = "move" => \/ act = "finish" /\ tomb.state = "quarantining" /\ target
                      \/ act = "undo" /\ tomb.state = "restoring"
    /\ pc = "record" =>
         \/ /\ act = "finish" /\ tomb.state = "quarantining" /\ target
            /\ \A i \in Paths : saved[i] = tomb.of
         \/ /\ act = "undo" /\ tomb.state = "restoring" /\ ~target
            /\ \A i \in Paths : place[i] = tomb.of
    /\ pc = "clear" => act = "purge" /\ tomb.state = "purging"
    /\ pc = "remove" => \/ /\ act = "undo" /\ tomb.state = "restoring"
                           /\ \A i \in Paths : place[i] = tomb.of
                        \/ act = "purge" /\ tomb.state = "purging"
    /\ pc = "drop" => act = "purge" /\ tomb.state = "purging" /\ ~target /\ saved = Nowhere

TombstoneInv ==
    TypeOK /\ ShownIsWhole /\ SidesInv /\ RecordInv /\ StepInv

-----------------------------------------------------------------------------
\* A base with no record and no files is whole.
LEMMA TombstoneBegins == Init => TombstoneInv
<1> SUFFICES ASSUME Init PROVE TombstoneInv
    OBVIOUS
<1>1. TypeOK
  <2>1. Nowhere \in [Paths -> Publications \cup {None}]
      BY DEF Nowhere
  <2>2. NoTomb \in [state : States, of : Publications \cup {None}]
      BY DEF NoTomb, States
  <2>3. 1 \in 1 .. NPaths + 1 /\ 0 \in 0 .. MaxStops /\ 0 \in 0 .. MaxNewer /\ 0 \in 0 .. MaxJobs
      BY PathsAssumption, LimitsAssumption
  <2>4. target \in BOOLEAN /\ expired \in BOOLEAN /\ active \in BOOLEAN /\ journal \in BOOLEAN
      BY DEF Init
  <2> QED
      BY <2>1, <2>2, <2>3, <2>4 DEF Init, TypeOK, Free, Nowhere
<1>2. ShownIsWhole /\ SidesInv /\ RecordInv /\ StepInv
    BY DEF Init, ShownIsWhole, SidesInv, RecordInv, StepInv, Hidden, NoTomb
<1> QED
    BY <1>1, <1>2 DEF TombstoneInv

\* What everybody else does, and the start of an operation: the rows of a hidden
\* base are guarded, and the lock keeps whole publications out of an operation.
LEMMA OthersKeep ==
    ASSUME TombstoneInv,
           Publish \/ Delete \/ Interrupt \/ Reconcile \/ Enqueue \/ EndJob
             \/ PutNewer \/ TakeNewer \/ RetentionEnds \/ Plan
    PROVE  TombstoneInv'
<1> USE ValuesDistinct, PathsAssumption, LimitsAssumption
       DEF TombstoneInv, Hidden, Free, Nowhere, Cleared, InPlace, Away, holder, counts,
           files
<1>1. CASE Publish
  <2>1. TypeOK'
      BY <1>1 DEF Publish, TypeOK, States, Paths, StepInv
  <2>2. ShownIsWhole' /\ SidesInv' /\ RecordInv' /\ StepInv'
      BY <1>1
         DEF Publish, TypeOK, ShownIsWhole, SidesInv, RecordInv, StepInv
  <2> QED
      BY <2>1, <2>2
<1>2. CASE Delete
  <2>1. TypeOK'
      BY <1>2 DEF Delete, TypeOK, States, Paths, StepInv
  <2>2. ShownIsWhole' /\ SidesInv' /\ RecordInv' /\ StepInv'
      BY <1>2
         DEF Delete, TypeOK, ShownIsWhole, SidesInv, RecordInv, StepInv
  <2> QED
      BY <2>1, <2>2
<1>3. CASE Interrupt
  <2>1. TypeOK'
      BY <1>3 DEF Interrupt, TypeOK, States, Paths, StepInv
  <2>2. ShownIsWhole' /\ SidesInv' /\ RecordInv' /\ StepInv'
      BY <1>3
         DEF Interrupt, TypeOK, ShownIsWhole, SidesInv, RecordInv, StepInv
  <2> QED
      BY <2>1, <2>2
<1>4. CASE Reconcile
  <2>1. TypeOK'
      BY <1>4 DEF Reconcile, TypeOK, States, Paths, StepInv
  <2>2. ShownIsWhole' /\ SidesInv' /\ RecordInv' /\ StepInv'
      BY <1>4
         DEF Reconcile, TypeOK, ShownIsWhole, SidesInv, RecordInv, StepInv
  <2> QED
      BY <2>1, <2>2
<1>5. CASE Enqueue
  <2>1. TypeOK'
      BY <1>5 DEF Enqueue, TypeOK, States, Paths, StepInv
  <2>2. ShownIsWhole' /\ SidesInv' /\ RecordInv' /\ StepInv'
      BY <1>5
         DEF Enqueue, TypeOK, ShownIsWhole, SidesInv, RecordInv, StepInv
  <2> QED
      BY <2>1, <2>2
<1>6. CASE EndJob
  <2>1. TypeOK'
    <3>1. active' \in BOOLEAN
        BY <1>6 DEF EndJob
    <3> QED
        BY <1>6, <3>1 DEF EndJob, TypeOK
  <2>2. ShownIsWhole' /\ SidesInv' /\ RecordInv' /\ StepInv'
      BY <1>6
         DEF EndJob, TypeOK, ShownIsWhole, SidesInv, RecordInv, StepInv
  <2> QED
      BY <2>1, <2>2
<1>7. CASE PutNewer
  <2>1. TypeOK'
      BY <1>7 DEF PutNewer, TypeOK, States, Paths, StepInv
  <2>2. ShownIsWhole' /\ SidesInv' /\ RecordInv' /\ StepInv'
      BY <1>7
         DEF PutNewer, TypeOK, ShownIsWhole, SidesInv, RecordInv, StepInv
  <2> QED
      BY <2>1, <2>2
<1>8. CASE TakeNewer
  <2>1. TypeOK'
      BY <1>8 DEF TakeNewer, TypeOK, States, Paths, StepInv
  <2>2. ShownIsWhole' /\ SidesInv' /\ RecordInv' /\ StepInv'
      BY <1>8
         DEF TakeNewer, TypeOK, ShownIsWhole, SidesInv, RecordInv, StepInv
  <2> QED
      BY <2>1, <2>2
<1>9. CASE RetentionEnds
  <2>1. TypeOK'
      BY <1>9 DEF RetentionEnds, TypeOK, States, Paths, StepInv
  <2>2. ShownIsWhole' /\ SidesInv' /\ RecordInv' /\ StepInv'
      BY <1>9
         DEF RetentionEnds, TypeOK, ShownIsWhole, SidesInv, RecordInv, StepInv
  <2> QED
      BY <2>1, <2>2
<1>10. CASE Plan
  <2>1. TypeOK'
      BY <1>10 DEF Plan, TypeOK, States, Paths, StepInv
  <2>2. ShownIsWhole' /\ SidesInv' /\ RecordInv' /\ StepInv'
      BY <1>10
         DEF Plan, TypeOK, ShownIsWhole, SidesInv, RecordInv, StepInv
  <2> QED
      BY <2>1, <2>2
<1> QED
    BY <1>1, <1>2, <1>3, <1>4, <1>5, <1>6, <1>7, <1>8, <1>9, <1>10

\* An operation ends before its time: nothing but the lock changes.
LEMMA EndsKeep ==
    ASSUME TombstoneInv,
           OverBudget \/ Turned \/ Collide \/ Stop
    PROVE  TombstoneInv'
<1> USE ValuesDistinct, PathsAssumption, LimitsAssumption
       DEF TombstoneInv, Hidden, Free, Nowhere, Cleared, InPlace, Away, Leave, At, files,
           counts
<1>1. CASE OverBudget
  <2>1. TypeOK'
      BY <1>1 DEF OverBudget, TypeOK, States, Paths, StepInv
  <2>2. ShownIsWhole' /\ SidesInv' /\ RecordInv' /\ StepInv'
      BY <1>1
         DEF OverBudget, TypeOK, ShownIsWhole, SidesInv, RecordInv, StepInv
  <2> QED
      BY <2>1, <2>2
<1>2. CASE Turned
  <2>1. TypeOK'
      BY <1>2 DEF Turned, TypeOK, States, Paths, StepInv
  <2>2. ShownIsWhole' /\ SidesInv' /\ RecordInv' /\ StepInv'
      BY <1>2
         DEF Turned, TypeOK, ShownIsWhole, SidesInv, RecordInv, StepInv
  <2> QED
      BY <2>1, <2>2
<1>3. CASE Collide
  <2>1. TypeOK'
      BY <1>3 DEF Collide, TypeOK, States, Paths, StepInv
  <2>2. ShownIsWhole' /\ SidesInv' /\ RecordInv' /\ StepInv'
      BY <1>3
         DEF Collide, TypeOK, ShownIsWhole, SidesInv, RecordInv, StepInv
  <2> QED
      BY <2>1, <2>2
<1>4. CASE Stop
  <2>1. TypeOK'
      BY <1>4 DEF Stop, TypeOK, States, Paths, StepInv
  <2>2. ShownIsWhole' /\ SidesInv' /\ RecordInv' /\ StepInv'
      BY <1>4
         DEF Stop, TypeOK, ShownIsWhole, SidesInv, RecordInv, StepInv
  <2> QED
      BY <2>1, <2>2
<1> QED
    BY <1>1, <1>2, <1>3, <1>4

\* The steps before the first file moves.
LEMMA MarksKeep ==
    ASSUME TombstoneInv,
           SaveRecord \/ Check \/ Mark
    PROVE  TombstoneInv'
<1> USE ValuesDistinct, PathsAssumption, LimitsAssumption
       DEF TombstoneInv, Hidden, Free, Nowhere, Cleared, InPlace, Away, Goto, At, Admitted,
           Allowed, Complete, files, counts
<1>1. CASE SaveRecord
  <2>1. TypeOK'
      BY <1>1 DEF SaveRecord, TypeOK, States, Paths, StepInv
  <2>2. ShownIsWhole' /\ SidesInv' /\ RecordInv' /\ StepInv'
      BY <1>1
         DEF SaveRecord, TypeOK, ShownIsWhole, SidesInv, RecordInv, StepInv
  <2> QED
      BY <2>1, <2>2
<1>2. CASE Check
  <2>1. TypeOK'
      BY <1>2 DEF Check, TypeOK, States, Paths, StepInv
  <2>2. ShownIsWhole' /\ SidesInv' /\ RecordInv' /\ StepInv'
      BY <1>2
         DEF Check, TypeOK, ShownIsWhole, SidesInv, RecordInv, StepInv
  <2> QED
      BY <2>1, <2>2
<1>3. CASE Mark
  <2>1. TypeOK'
      BY <1>3 DEF Mark, TypeOK, States, Paths, StepInv
  <2>2. ShownIsWhole' /\ SidesInv' /\ RecordInv' /\ StepInv'
      BY <1>3
         DEF Mark, TypeOK, ShownIsWhole, SidesInv, RecordInv, StepInv
  <2> QED
      BY <2>1, <2>2
<1> QED
    BY <1>1, <1>2, <1>3

\* The steps that move the files and look at them.
LEMMA MovesKeep ==
    ASSUME TombstoneInv,
           Move \/ Verify \/ Clear \/ RemoveTarget
    PROVE  TombstoneInv'
<1> USE ValuesDistinct, PathsAssumption, LimitsAssumption
       DEF TombstoneInv, Hidden, Free, Nowhere, Cleared, InPlace, Away, Goto, Leave, At,
           Intact, Source, Destination, files, counts
<1>1. CASE Move
  <2>1. TypeOK'
      BY <1>1 DEF Move, TypeOK, States, Paths, StepInv
  <2>2. ShownIsWhole' /\ SidesInv' /\ RecordInv' /\ StepInv'
      BY <1>1
         DEF Move, TypeOK, ShownIsWhole, SidesInv, RecordInv, StepInv
  <2> QED
      BY <2>1, <2>2
<1>2. CASE Verify
  <2>1. TypeOK'
      BY <1>2 DEF Verify, TypeOK, States, Paths, StepInv
  <2>2. ShownIsWhole' /\ SidesInv' /\ RecordInv' /\ StepInv'
      BY <1>2
         DEF Verify, TypeOK, ShownIsWhole, SidesInv, RecordInv, StepInv
  <2> QED
      BY <2>1, <2>2
<1>3. CASE Clear
  <2>1. TypeOK'
      BY <1>3 DEF Clear, TypeOK, States, Paths, StepInv
  <2>2. ShownIsWhole' /\ SidesInv' /\ RecordInv' /\ StepInv'
      BY <1>3
         DEF Clear, TypeOK, ShownIsWhole, SidesInv, RecordInv, StepInv
  <2> QED
      BY <2>1, <2>2
<1>4. CASE RemoveTarget
  <2>1. TypeOK'
      BY <1>4 DEF RemoveTarget, TypeOK, States, Paths, StepInv
  <2>2. ShownIsWhole' /\ SidesInv' /\ RecordInv' /\ StepInv'
      BY <1>4
         DEF RemoveTarget, TypeOK, ShownIsWhole, SidesInv, RecordInv, StepInv
  <2> QED
      BY <2>1, <2>2
<1> QED
    BY <1>1, <1>2, <1>3, <1>4

\* The steps that end an operation with its outcome.
LEMMA RecordsKeep ==
    ASSUME TombstoneInv,
           Record \/ Drop
    PROVE  TombstoneInv'
<1> USE ValuesDistinct, PathsAssumption, LimitsAssumption
       DEF TombstoneInv, Hidden, Free, Nowhere, Cleared, InPlace, Away, Leave, At, files,
           counts
<1>1. CASE Record
  <2>1. TypeOK'
      BY <1>1 DEF Record, TypeOK, States, Paths, StepInv
  <2>2. ShownIsWhole' /\ SidesInv' /\ RecordInv' /\ StepInv'
      BY <1>1
         DEF Record, TypeOK, ShownIsWhole, SidesInv, RecordInv, StepInv
  <2> QED
      BY <2>1, <2>2
<1>2. CASE Drop
  <2>1. TypeOK'
    <3>1. active' \in BOOLEAN
        BY <1>2 DEF Drop
    <3>2. rows' \in Publications \cup {None} /\ act' = "none" /\ pc' = "idle" /\ path' = 1
        BY <1>2 DEF Drop
    <3>3. tomb' \in [state : States, of : Publications \cup {None}]
        BY <1>2 DEF Drop, TypeOK, States
    <3> QED
        BY <1>2, <3>1, <3>2, <3>3 DEF Drop, TypeOK
  <2>2. ShownIsWhole' /\ SidesInv' /\ RecordInv' /\ StepInv'
      BY <1>2
         DEF Drop, TypeOK, ShownIsWhole, SidesInv, RecordInv, StepInv
  <2> QED
      BY <2>1, <2>2
<1> QED
    BY <1>1, <1>2

\* A request takes the lock; what it may do is decided at its first step.
LEMMA OperateKeeps ==
    ASSUME TombstoneInv, NEW a \in {"finish", "undo", "purge"}, Operate(a)
    PROVE  TombstoneInv'
<1> USE PathsAssumption
       DEF TombstoneInv, Hidden, Free, Nowhere, Cleared, InPlace, Away, files, counts
<1>1. TypeOK'
    BY DEF Operate, TypeOK
<1>2. ShownIsWhole' /\ SidesInv' /\ RecordInv' /\ StepInv'
    BY DEF Operate, ShownIsWhole, SidesInv, RecordInv, StepInv
<1> QED
    BY <1>1, <1>2

\* Every step of the quarantine keeps the invariant.
LEMMA TombstoneKeeps == TombstoneInv /\ [Next]_vars => TombstoneInv'
<1> SUFFICES ASSUME TombstoneInv, [Next]_vars PROVE TombstoneInv'
    OBVIOUS
<1>1. CASE UNCHANGED vars
    BY <1>1
       DEF vars, files, holder, counts, TombstoneInv, TypeOK, ShownIsWhole, SidesInv, RecordInv,
           StepInv, Hidden, Free, Nowhere, Cleared, InPlace, Away
<1>2. CASE Publish \/ Delete \/ Interrupt \/ Reconcile \/ Enqueue \/ EndJob
             \/ PutNewer \/ TakeNewer \/ RetentionEnds \/ Plan
    BY <1>2, OthersKeep
<1>3. CASE Preview
    BY <1>1, <1>3 DEF Preview
<1>4. ASSUME NEW a \in {"finish", "undo", "purge"}, Operate(a) PROVE TombstoneInv'
    BY <1>4, OperateKeeps
<1>5. CASE Work
    BY <1>5, EndsKeep, MarksKeep, MovesKeep, RecordsKeep DEF Work
<1>6. CASE Stop
    BY <1>6, EndsKeep
<1> QED
    BY <1>1, <1>2, <1>3, <1>4, <1>5, <1>6 DEF Next

\* The invariant holds in every reachable state.
LEMMA TombstoneInvariant == Spec => []TombstoneInv
    BY TombstoneBegins, TombstoneKeeps, PTL DEF Spec

-----------------------------------------------------------------------------
\* The record, the files on both sides and the step of the lock holder keep
\* to their types.
THEOREM TombstoneTyped == Spec => []TypeOK
<1>1. TombstoneInv => TypeOK
    BY DEF TombstoneInv
<1> QED
    BY <1>1, TombstoneInvariant, PTL

\* quarantineBase and operateTombstone: a base that is not hidden is whole and
\* left nothing in the quarantine, wherever earlier operations stopped.
THEOREM ShownBasesAreWhole == Spec => []ShownIsWhole
<1>1. TombstoneInv => ShownIsWhole
    BY DEF TombstoneInv
<1> QED
    BY <1>1, TombstoneInvariant, PTL

\* Until a purge every owned path of a hidden base lies on one of its two
\* sides with the bytes of the record, and a purge begins after the retention.
THEOREM NoBytesLost == Spec => []BytesKept
<1>1. TombstoneInv => BytesKept
    BY DEF TombstoneInv, BytesKept, Hidden, SidesInv, InPlace, Away
<1> QED
    BY <1>1, TombstoneInvariant, PTL

\* The transaction of a purge is the only one that changes the rows of a
\* hidden base, and it comes after the removal of its saved files.
THEOREM RowsGoLast == Spec => RowsLast
<1>1. ASSUME TombstoneInv, [Next]_vars
      PROVE  [Hidden /\ rows' # rows =>
                 rows' = None /\ ~target /\ ~Hidden' /\ expired]_vars
  <2> SUFFICES ASSUME Next, Hidden, rows' # rows
               PROVE  rows' = None /\ ~target /\ ~Hidden' /\ expired
      BY <1>1
  <2>1. Drop
      BY DEF Next, Work, Publish, Delete, Interrupt, Reconcile, Enqueue, EndJob, PutNewer,
             TakeNewer, RetentionEnds, Plan, Preview, vars, Operate, SaveRecord, OverBudget,
             Turned, Check, Mark, Move, Collide, Verify, Clear, RemoveTarget, Record, Stop
  <2>2. ~target /\ expired /\ tomb \in [state : States, of : Publications \cup {None}]
      BY <1>1, <2>1 DEF Drop, At, TombstoneInv, StepInv, SidesInv, TypeOK
  <2> QED
      BY <2>1, <2>2 DEF Drop, Hidden
<1> QED
    BY <1>1, TombstoneInvariant, PTL DEF Spec, RowsLast

\* No step but that of its owner replaces or removes a newer file at an owned
\* path of a hidden base: a move finds it on the other side and stops.
THEOREM NewerFilesKept == Spec => NewerKept
<1>1. ASSUME TombstoneInv, [Next]_vars
      PROVE  [\A i \in Paths :
                 Hidden /\ place[i] = Newer /\ place'[i] # Newer => TakeNewer]_vars
  <2> SUFFICES ASSUME Next, NEW i \in Paths, Hidden, place[i] = Newer, ~TakeNewer
               PROVE  place'[i] = Newer
      BY <1>1
  <2>1. TypeOK /\ RecordInv
      BY <1>1 DEF TombstoneInv
  <2>2. CASE Move
    <3>1. i # path
        BY <2>1, <2>2, ValuesDistinct
           DEF Move, Intact, Source, Destination, RecordInv
    <3> QED
        BY <2>1, <2>2, <3>1 DEF Move, TypeOK
  <2>3. CASE PutNewer
      BY <2>1, <2>3, ValuesDistinct DEF PutNewer, TypeOK
  <2>4. CASE place' = place
      BY <2>4
  <2> QED
      BY <2>2, <2>3, <2>4
         DEF Next, Work, Publish, Delete, Interrupt, Reconcile, Enqueue, EndJob, RetentionEnds,
             Plan, Preview, vars, files, Operate, SaveRecord, OverBudget, Turned, Check, Mark,
             Collide, Verify, Clear, RemoveTarget, Record, Drop, Stop
<1> QED
    BY <1>1, TombstoneInvariant, PTL DEF Spec, NewerKept

-----------------------------------------------------------------------------
(* Tombstone implements ReversibleRemoval                                  *)

\* The variables of ReversibleRemoval, as Tombstone maps them.
Shown == IF Hidden \/ rows = None THEN None ELSE place
Kept == IF Hidden /\ tomb.state # "purging" THEN Copy ELSE None
Phase == CASE tomb.state = "quarantining" -> "hiding"
           [] tomb.state = "quarantined"  -> "hidden"
           [] tomb.state = "restoring"    -> "returning"
           [] tomb.state = "purging"      -> "doomed"
           [] OTHER                       -> "shown"

\* What the invariant says of them: a base is shown whole, what is kept of a
\* hidden one is the publication its record pins, and the phase is the record's.
Mapped ==
    /\ ~Hidden /\ rows # None => /\ Shown = place /\ place = [i \in Paths |-> rows]
                                 /\ rows \in Publications
    /\ Hidden \/ rows = None => Shown = None
    /\ tomb.state \in {"quarantining", "quarantined", "restoring"} =>
         /\ Kept = [i \in Paths |-> rows]
         /\ rows = tomb.of /\ rows \in Publications
    /\ tomb.state \notin {"quarantining", "quarantined", "restoring"} => Kept = None
    /\ Hidden <=> tomb.state \in {"quarantining", "quarantined", "restoring", "purging"}
    /\ ~Hidden <=> Phase = "shown"
    /\ tomb.state = "quarantining" <=> Phase = "hiding"
    /\ tomb.state = "quarantined" <=> Phase = "hidden"
    /\ tomb.state = "restoring" <=> Phase = "returning"
    /\ tomb.state = "purging" <=> Phase = "doomed"

LEMMA InvariantMapped == TombstoneInv => Mapped
<1> SUFFICES ASSUME TombstoneInv PROVE Mapped
    OBVIOUS
<1>1. ASSUME ~Hidden, rows # None
      PROVE  Shown = place /\ place = [i \in Paths |-> rows] /\ rows \in Publications
  <2>1. place \in [Paths -> Publications \cup {None, Newer}] /\ rows \in Publications
      BY <1>1 DEF TombstoneInv, TypeOK
  <2>2. \A i \in Paths : place[i] = rows
      BY <1>1 DEF TombstoneInv, ShownIsWhole
  <2> QED
      BY <1>1, <2>1, <2>2 DEF Shown
<1>2. ASSUME tomb.state \in {"quarantining", "quarantined", "restoring"}
      PROVE  Kept = [i \in Paths |-> rows] /\ rows = tomb.of /\ rows \in Publications
  <2>1. Hidden /\ tomb.state # "purging" /\ rows = tomb.of /\ rows \in Publications
      BY <1>2 DEF Hidden, TombstoneInv, RecordInv
  <2>2. \A i \in Paths : InPlace(i) \/ Away(i)
      BY <1>2 DEF TombstoneInv, SidesInv
  <2>3. \A i \in Paths : (IF saved[i] # None THEN saved[i] ELSE place[i]) = rows
      BY <2>1, <2>2, ValuesDistinct DEF InPlace, Away
  <2>4. Copy = [i \in Paths |-> rows]
      BY <2>3 DEF Copy
  <2> QED
      BY <2>1, <2>4 DEF Kept
<1>3. tomb.state \notin {"quarantining", "quarantined", "restoring"} => Kept = None
    BY DEF Kept, Hidden
<1>4. Hidden \/ rows = None => Shown = None
    BY DEF Shown
<1> QED
    BY <1>1, <1>2, <1>3, <1>4 DEF Mapped, Phase, Hidden

\* The same of the state after a step.
LEMMA MappedAfter == TombstoneInv' => Mapped'
BY InvariantMapped, PTL

RemovalNext == [Removal!Next]_(Removal!vars)

\* A step is seen through the mapped variables.
LEMMA RemovalSteps ==
    /\ Shown' = Shown /\ Kept' = Kept /\ Phase' = Phase /\ expired' = expired => RemovalNext
    /\ /\ Phase = "shown" /\ Shown' \in [Paths -> Publications] \cup {None}
       /\ Kept' = Kept /\ Phase' = Phase /\ expired' = expired
       => RemovalNext
    /\ /\ Phase = "shown" /\ Shown \in [Paths -> Publications]
       /\ Shown' = None /\ Kept' = Shown /\ Phase' = "hiding" /\ expired' = FALSE
       => RemovalNext
    /\ /\ Phase # "shown" /\ expired'
       /\ Shown' = Shown /\ Kept' = Kept /\ Phase' = Phase
       => RemovalNext
    /\ /\ \/ Phase = "hiding" /\ Phase' = "hidden"
          \/ Phase = "hidden" /\ Phase' = "returning"
          \/ Phase = "doomed" /\ Phase' = "shown"
       /\ Shown' = Shown /\ Kept' = Kept /\ expired' = expired
       => RemovalNext
    /\ /\ Phase = "hidden" /\ expired /\ Phase' = "doomed" /\ Kept' = None
       /\ Shown' = Shown /\ expired' = expired
       => RemovalNext
    /\ /\ Phase = "returning" /\ Shown' = Kept /\ Kept' = None /\ Phase' = "shown"
       /\ expired' = expired
       => RemovalNext
BY DEF RemovalNext, Removal!Next, Removal!vars, Removal!Change, Removal!Hide, Removal!Hidden,
       Removal!Age, Removal!Recall, Removal!Doom, Removal!Return, Removal!Forget,
       Shown, Kept, Phase

LEMMA RemovalBegins == Init => Removal!Init
BY DEF Init, NoTomb, Removal!Init, Hidden

\* Files that move while the record and the rows stay are not seen.
LEMMA MovesUnseen ==
    ASSUME TombstoneInv, TombstoneInv', UNCHANGED <<tomb, rows, expired>>,
           Hidden \/ rows = None \/ UNCHANGED place
    PROVE  RemovalNext
<1>1. Mapped /\ Mapped'
    BY InvariantMapped, MappedAfter
<1>2. Phase' = Phase /\ (Hidden' <=> Hidden)
    BY DEF Phase, Hidden
<1>3. Shown' = Shown
    BY <1>1, <1>2 DEF Mapped
<1>4. Kept' = Kept
    BY <1>1 DEF Mapped
<1> QED
    BY <1>2, <1>3, <1>4, RemovalSteps

\* Publications and deletions of a base that is not hidden.
LEMMA ChangesImplement ==
    ASSUME TombstoneInv, TombstoneInv', Publish \/ Delete
    PROVE  RemovalNext
<1>1. Mapped /\ Mapped' /\ ~Hidden /\ UNCHANGED <<tomb, expired>>
    BY InvariantMapped, MappedAfter DEF Publish, Delete
<1>2. Phase' = Phase /\ ~Hidden' /\ Phase = "shown" /\ Kept' = Kept
    BY <1>1 DEF Mapped, Phase, Hidden
<1>3. Shown' \in [Paths -> Publications] \cup {None}
    BY <1>1, <1>2 DEF Mapped
<1> QED
    BY <1>1, <1>2, <1>3, RemovalSteps

\* The steps that change the record.
LEMMA RecordsImplement ==
    ASSUME TombstoneInv, TombstoneInv', SaveRecord \/ Mark \/ Record \/ Drop
    PROVE  RemovalNext
<1>1. Mapped /\ Mapped' /\ StepInv
    BY InvariantMapped, MappedAfter DEF TombstoneInv
<1>2. tomb \in [state : States, of : Publications \cup {None}]
    BY DEF TombstoneInv, TypeOK
<1>3. CASE SaveRecord
  <2>1. /\ ~Hidden /\ rows # None /\ tomb'.state = "quarantining"
        /\ UNCHANGED rows /\ expired' = FALSE
      BY <1>1, <1>3 DEF SaveRecord, At, StepInv, files
  <2>2. Phase = "shown" /\ Shown = [i \in Paths |-> rows] /\ rows \in Publications
      BY <1>1, <2>1 DEF Mapped
  <2>3. Phase' = "hiding" /\ Shown' = None /\ Kept' = [i \in Paths |-> rows]
      BY <1>1, <2>1 DEF Mapped
  <2> QED
      BY <2>1, <2>2, <2>3, RemovalSteps
<1>4. CASE Mark
  <2>1. UNCHANGED <<rows, expired>>
      BY <1>4 DEF Mark
  <2>2. CASE act = "undo"
    <3>1. tomb.state \in {"quarantined", "restoring"} /\ tomb'.state = "restoring"
        BY <1>1, <1>2, <1>4, <2>2 DEF Mark, At, StepInv
    <3>2. Shown' = Shown /\ Kept' = Kept /\ Phase' = "returning"
          /\ (Phase = "hidden" \/ Phase = "returning")
        BY <1>1, <2>1, <3>1 DEF Mapped
    <3>3. CASE Phase = "hidden"
        BY <2>1, <3>2, <3>3, RemovalSteps
    <3>4. CASE Phase = "returning"
      <4>1. Phase' = Phase
          BY <3>2, <3>4
      <4> QED
          BY <2>1, <3>2, <4>1, RemovalSteps
    <3> QED
        BY <3>2, <3>3, <3>4
  <2>3. CASE act # "undo"
    <3>1. tomb'.state = "purging" /\ (tomb.state = "purging" \/ (tomb.state = "quarantined" /\ expired))
        BY <1>1, <1>2, <1>4, <2>3 DEF Mark, At, StepInv
    <3>2. Shown' = Shown /\ Kept' = None /\ Phase' = "doomed"
        BY <1>1, <2>1, <3>1 DEF Mapped
    <3>3. CASE tomb.state = "purging"
      <4>1. Phase = "doomed" /\ Kept = None
          BY <1>1, <3>3 DEF Mapped
      <4> QED
          BY <2>1, <3>2, <4>1, RemovalSteps
    <3>4. CASE tomb.state = "quarantined" /\ expired
      <4>1. Phase = "hidden"
          BY <1>1, <3>4 DEF Mapped
      <4> QED
          BY <2>1, <3>2, <3>4, <4>1, RemovalSteps
    <3> QED
        BY <3>1, <3>3, <3>4
  <2> QED
      BY <2>2, <2>3
<1>5. CASE Record
  <2>1. UNCHANGED <<rows, expired, place>>
      BY <1>5 DEF Record, files
  <2>2. CASE act = "finish"
    <3>1. tomb.state = "quarantining" /\ tomb'.state = "quarantined"
        BY <1>1, <1>2, <1>5, <2>2 DEF Record, At, StepInv
    <3>2. Shown' = Shown /\ Kept' = Kept /\ Phase' = "hidden" /\ Phase = "hiding"
        BY <1>1, <2>1, <3>1 DEF Mapped
    <3> QED
        BY <2>1, <3>2, RemovalSteps
  <2>3. CASE act # "finish"
    <3>1. tomb.state = "restoring" /\ tomb'.state = "restored"
        BY <1>1, <1>2, <1>5, <2>3 DEF Record, At, StepInv
    <3>2. rows # None /\ ~Hidden'
        BY <1>1, <3>1, ValuesDistinct DEF Mapped
    <3>3. Shown' = Kept /\ Kept' = None /\ Phase' = "shown" /\ Phase = "returning"
        BY <1>1, <2>1, <3>1, <3>2 DEF Mapped
    <3> QED
        BY <2>1, <3>3, RemovalSteps
  <2> QED
      BY <2>2, <2>3
<1>6. CASE Drop
  <2>1. /\ tomb.state = "purging" /\ tomb'.state = "purged" /\ rows' = None
        /\ UNCHANGED expired
      BY <1>1, <1>2, <1>6 DEF Drop, At, StepInv
  <2>2. Shown = None /\ Kept = None /\ Phase = "doomed"
      BY <1>1, <2>1 DEF Mapped
  <2>3. Shown' = None /\ Kept' = None /\ Phase' = "shown"
      BY <1>1, <2>1 DEF Mapped
  <2> QED
      BY <2>1, <2>2, <2>3, RemovalSteps
<1> QED
    BY <1>3, <1>4, <1>5, <1>6

LEMMA RemovalStep ==
    ASSUME TombstoneInv, TombstoneInv', [Next]_vars
    PROVE  RemovalNext
<1>1. CASE Publish \/ Delete
    BY <1>1, ChangesImplement
<1>2. CASE SaveRecord \/ Mark \/ Record \/ Drop
    BY <1>2, RecordsImplement
<1>3. CASE RetentionEnds
  <2>1. Phase # "shown" /\ expired' = TRUE
      BY <1>3, InvariantMapped DEF RetentionEnds, Mapped
  <2>2. Shown' = Shown /\ Kept' = Kept /\ Phase' = Phase
      BY <1>3 DEF RetentionEnds, files, Shown, Kept, Phase, Hidden, Copy
  <2> QED
      BY <2>1, <2>2, RemovalSteps
<1>4. CASE TakeNewer
  <2>1. PICK i \in Paths : place[i] = Newer
      BY <1>4 DEF TakeNewer
  <2>2. Hidden \/ rows = None
    <3> SUFFICES ASSUME ~Hidden, rows # None PROVE FALSE
        OBVIOUS
    <3>1. place[i] = rows /\ rows \in Publications
        BY <2>1 DEF TombstoneInv, ShownIsWhole, TypeOK
    <3> QED
        BY <2>1, <3>1, ValuesDistinct
  <2> QED
      BY <1>4, <2>2, MovesUnseen DEF TakeNewer
<1>5. CASE PutNewer
    BY <1>5, MovesUnseen DEF PutNewer
<1>6. CASE Move \/ RemoveTarget
  <2>1. Hidden
      BY <1>6 DEF Move, RemoveTarget, At, TombstoneInv, StepInv, Hidden
  <2> QED
      BY <1>6, <2>1, MovesUnseen DEF Move, RemoveTarget
<1>7. CASE UNCHANGED <<tomb, rows, expired, place>>
    BY <1>7, MovesUnseen
<1>8. Interrupt \/ Reconcile \/ Enqueue \/ EndJob \/ Plan \/ Preview
        \/ (\E a \in {"finish", "undo", "purge"} : Operate(a)) \/ OverBudget \/ Turned
        \/ Check \/ Collide \/ Verify \/ Clear \/ Stop \/ UNCHANGED vars
      => UNCHANGED <<tomb, rows, expired, place>>
    BY DEF Interrupt, Reconcile, Enqueue, EndJob, Plan, Preview, Operate, OverBudget, Turned,
           Check, Collide, Verify, Clear, Stop, vars, files
<1> QED
    BY <1>1, <1>2, <1>3, <1>4, <1>5, <1>6, <1>7, <1>8 DEF Next, Work

\* The quarantine of tombstone.ts, cut at any step and resumed from its record,
\* hides a base, brings it back and gives it up as ReversibleRemoval does in
\* single steps.
THEOREM RemovalImplemented == Spec => RemovalSpec
<1>1. TombstoneInv /\ TombstoneInv' /\ [Next]_vars => [Removal!Next]_(Removal!vars)
    BY RemovalStep DEF RemovalNext
<1> QED
    BY <1>1, RemovalBegins, TombstoneInvariant, PTL DEF Spec, RemovalSpec, Removal!Spec
=============================================================================
