----------------------------- MODULE Tombstone -----------------------------
(***************************************************************************)
(* The reversible deletion of one base: packages/catalog/src/tombstone.ts  *)
(* with the triggers of catalog-schema.ts and the check of the base lock.  *)
(*                                                                         *)
(* A base owns files at several paths; the first is its artifact tree.  A  *)
(* quarantine hides the base, moves its paths one by one under             *)
(* quarantine/ and keeps a record in the database; undo moves them back    *)
(* before the retention ends, purge removes them for good after it.  Every *)
(* operation runs under the lock of the base and can stop between any two  *)
(* of its steps; the record says how to go on.                             *)
(*                                                                         *)
(* Publication and deletion are whole steps here (Publication shows why)   *)
(* and the content of a path is the publication it belongs to.             *)
(***************************************************************************)
EXTENDS Naturals

CONSTANTS
    Publications,  \* publication ids
    None,          \* nothing
    Newer,         \* a file somebody put at an owned path
    NPaths,        \* the number of owned paths
    MaxStops,      \* bound on the number of stops
    MaxNewer,      \* bound on the number of newer files
    MaxJobs        \* bound on the number of jobs

ASSUME PathsAssumption == NPaths \in Nat \ {0}
ASSUME ValuesDistinct ==
    None \notin Publications /\ Newer \notin Publications \cup {None}
ASSUME LimitsAssumption ==
    MaxStops \in Nat /\ MaxNewer \in Nat /\ MaxJobs \in Nat

Paths == 1 .. NPaths
Artifacts == 1

VARIABLES
    rows,     \* the publication in the catalog rows
    place,    \* per path: what lies at its own place
    saved,    \* per path: what lies in the quarantine directory
    target,   \* whether the quarantine directory exists
    tomb,     \* the record: its state and the publication it pins
    expired,  \* whether the retention of the record has ended
    active,   \* whether a job of the base is queued or processing
    journal,  \* whether the base waits for publication recovery
    act,      \* the operation that holds the lock, or "none"
    pc,       \* its step
    path,     \* the next path it moves
    fresh,    \* publications not used so far
    stops, newers, jobs

files == <<place, saved, target>>
holder == <<act, pc, path>>
counts == <<fresh, stops, newers, jobs>>
vars == <<rows, files, tomb, expired, active, journal, holder, counts>>

States == {"none", "quarantining", "quarantined", "restoring", "restored",
           "purging", "purged"}
NoTomb == [state |-> "none", of |-> None]
Hidden == tomb.state \in {"quarantining", "quarantined", "restoring", "purging"}
Nowhere == [i \in Paths |-> None]
Free == act = "none"

TypeOK ==
    /\ rows \in Publications \cup {None}
    /\ place \in [Paths -> Publications \cup {None, Newer}]
    /\ saved \in [Paths -> Publications \cup {None}]
    /\ target \in BOOLEAN
    /\ tomb \in [state : States, of : Publications \cup {None}]
    /\ expired \in BOOLEAN /\ active \in BOOLEAN /\ journal \in BOOLEAN
    /\ act \in {"none", "finish", "undo", "purge"}
    /\ pc \in {"idle", "save", "check", "mark", "move", "verify", "record",
               "clear", "remove", "drop"}
    /\ path \in 1 .. NPaths + 1
    /\ fresh \subseteq Publications
    /\ stops \in 0 .. MaxStops /\ newers \in 0 .. MaxNewer /\ jobs \in 0 .. MaxJobs
    /\ Free <=> pc = "idle"

Init ==
    /\ rows = None /\ place = Nowhere /\ saved = Nowhere /\ target = FALSE
    /\ tomb = NoTomb
    /\ expired = FALSE /\ active = FALSE /\ journal = FALSE
    /\ act = "none" /\ pc = "idle" /\ path = 1
    /\ fresh = Publications
    /\ stops = 0 /\ newers = 0 /\ jobs = 0

-----------------------------------------------------------------------------
(* The lock and the steps of its holder                                    *)

Goto(step) == pc' = step /\ UNCHANGED <<act, path>>

\* The operation returns, throws or dies, which drops the lock.
Leave == act' = "none" /\ pc' = "idle" /\ path' = 1

At(step) == pc = step

-----------------------------------------------------------------------------
(* The rest of the system, which finds a hidden base locked                *)

\* A publication of fresh rows and files.
Publish ==
    /\ Free /\ ~Hidden /\ ~journal
    /\ \E t \in fresh :
          /\ fresh' = fresh \ {t}
          /\ rows' = t
          /\ place' = [i \in Paths |-> t]
    /\ UNCHANGED <<saved, target, tomb, expired, active, journal, holder,
                   stops, newers, jobs>>

\* The other deletion, which keeps nothing; deleteBaseRows takes the jobs.
Delete ==
    /\ Free /\ ~Hidden /\ ~journal
    /\ rows # None
    /\ rows' = None /\ place' = Nowhere /\ active' = FALSE
    /\ UNCHANGED <<saved, target, tomb, expired, journal, holder, counts>>

\* A publication stops with its journal, and is reconciled.
Interrupt ==
    /\ Free /\ ~Hidden /\ ~journal
    /\ stops < MaxStops
    /\ stops' = stops + 1
    /\ journal' = TRUE
    /\ UNCHANGED <<rows, files, tomb, expired, active, holder, fresh, newers, jobs>>

Reconcile ==
    /\ Free /\ ~Hidden /\ journal
    /\ journal' = FALSE
    /\ UNCHANGED <<rows, files, tomb, expired, active, holder, counts>>

\* POST /api/youtube with the id of a base finds its rows although it is
\* hidden, and queues a job for it without the lock.
Enqueue ==
    /\ rows # None /\ ~active
    /\ jobs < MaxJobs
    /\ jobs' = jobs + 1
    /\ active' = TRUE
    /\ UNCHANGED <<rows, files, tomb, expired, journal, holder, fresh, stops, newers>>

\* The job ends: it publishes by Publish, or it fails.
EndJob ==
    /\ active
    /\ active' = FALSE
    /\ UNCHANGED <<rows, files, tomb, expired, journal, holder, counts>>

\* Somebody puts a file at an owned path that is free while the base is
\* hidden, and takes it away again.
PutNewer ==
    /\ Hidden /\ newers < MaxNewer
    /\ newers' = newers + 1
    /\ \E i \in Paths : /\ place[i] = None
                        /\ place' = [place EXCEPT ![i] = Newer]
    /\ UNCHANGED <<rows, saved, target, tomb, expired, active, journal, holder,
                   fresh, stops, jobs>>

TakeNewer ==
    /\ \E i \in Paths : /\ place[i] = Newer
                        /\ place' = [place EXCEPT ![i] = None]
    /\ UNCHANGED <<rows, saved, target, tomb, expired, active, journal, holder, counts>>

RetentionEnds ==
    /\ Hidden /\ ~expired
    /\ expired' = TRUE
    /\ UNCHANGED <<rows, files, tomb, active, journal, holder, counts>>

-----------------------------------------------------------------------------
(* quarantineBase                                                          *)

\* plan: every check and the inventory of the owned files, under the lock.
Plan ==
    /\ Free /\ ~Hidden
    /\ ~active /\ ~journal
    /\ rows # None /\ place[Artifacts] # None
    /\ act' = "finish" /\ pc' = "save" /\ path' = 1
    /\ UNCHANGED <<rows, files, tomb, expired, active, journal, counts>>

\* A preview, the inventory, or a quarantine that plan refuses.
Preview ==
    /\ Free
    /\ UNCHANGED vars

\* From here on the base is hidden and its rows are guarded.
SaveRecord ==
    /\ At("save")
    /\ tomb' = [state |-> "quarantining", of |-> rows]
    /\ expired' = FALSE
    /\ Goto("check")
    /\ UNCHANGED <<rows, files, active, journal, counts>>

\* Too many bases or bytes are retained already.
OverBudget ==
    /\ At("save")
    /\ Leave
    /\ UNCHANGED <<rows, files, tomb, expired, active, journal, counts>>

-----------------------------------------------------------------------------
(* operateTombstone                                                        *)

\* A request carries the token an owner saw; a stale one changes nothing.
Operate(action) ==
    /\ Free /\ tomb.state # "none"
    /\ act' = action /\ pc' = "check" /\ path' = 1
    /\ UNCHANGED <<rows, files, tomb, expired, active, journal, counts>>

\* Mutant: an expired quarantine is the only condition of a purge.
Allowed_NoExpiry ==
    \/ act = "finish" /\ tomb.state = "quarantining"
    \/ act = "undo" /\ tomb.state \in {"quarantined", "restoring"}
    \/ act = "purge" /\ tomb.state \in {"quarantined", "purging"}

\* Mutant: an undo is admitted after a purge began.
Allowed_Late ==
    \/ act = "finish" /\ tomb.state = "quarantining"
    \/ act = "undo" /\ tomb.state \in {"restoring", "purging"}
    \/ act = "undo" /\ tomb.state = "quarantined" /\ ~expired
    \/ act = "purge" /\ tomb.state = "purging"
    \/ act = "purge" /\ tomb.state = "quarantined" /\ expired

\* A finish needs an unfinished quarantine, an undo and a purge a finished
\* one, on their side of the deadline, or one of their own that was cut.
Allowed ==
    \/ act = "finish" /\ tomb.state = "quarantining"
    \/ act = "undo" /\ tomb.state = "restoring"
    \/ act = "undo" /\ tomb.state = "quarantined" /\ ~expired
    \/ act = "purge" /\ tomb.state = "purging"
    \/ act = "purge" /\ tomb.state = "quarantined" /\ expired

\* Mutant: a resumed operation insists on all saved files, too.
Complete_Always ==
    act = "finish" \/ (target /\ \A i \in Paths : saved[i] = tomb.of)

\* The quarantine holds all that the record lists, unless an operation that
\* empties it was cut.
Complete ==
    \/ act = "finish" \/ tomb.state \in {"restoring", "purging"}
    \/ target /\ \A i \in Paths : saved[i] = tomb.of

Admitted == rows = tomb.of /\ ~active /\ Allowed /\ Complete

\* Refused, or done before.
Turned ==
    /\ At("check") /\ ~Admitted
    /\ Leave
    /\ UNCHANGED <<rows, files, tomb, expired, active, journal, counts>>

\* A finish creates the quarantine directory.
Check ==
    /\ At("check") /\ Admitted
    /\ target' = (target \/ act = "finish")
    /\ Goto(IF act = "finish" THEN "move" ELSE "mark")
    /\ UNCHANGED <<rows, place, saved, tomb, expired, active, journal, counts>>

\* Mutant: an undo is recorded as done before its files are back.
Mark_Restored ==
    /\ At("mark")
    /\ tomb' = [tomb EXCEPT !.state = IF act = "undo" THEN "restored" ELSE "purging"]
    /\ Goto(IF act = "undo" THEN "move" ELSE "clear")
    /\ UNCHANGED <<rows, files, expired, active, journal, counts>>

\* The record says which way it goes before the first file does.
Mark ==
    /\ At("mark")
    /\ tomb' = [tomb EXCEPT !.state = IF act = "undo" THEN "restoring" ELSE "purging"]
    /\ Goto(IF act = "undo" THEN "move" ELSE "clear")
    /\ UNCHANGED <<rows, files, expired, active, journal, counts>>

Source == IF act = "finish" THEN place ELSE saved
Destination == IF act = "finish" THEN saved ELSE place

\* Mutant: only a missing path is an error.
Intact_Collision(i) ==
    (IF Source[i] # None THEN Source ELSE Destination)[i] = tomb.of

\* A path lies on one side, not on both, with the bytes of the record.
Intact(i) ==
    /\ (Source[i] = None) # (Destination[i] = None)
    /\ (IF Source[i] # None THEN Source ELSE Destination)[i] = tomb.of

\* One path, unless a predecessor moved it.
Move ==
    /\ At("move") /\ path \in Paths
    /\ Intact(path)
    /\ IF act = "finish"
       THEN /\ place' = [place EXCEPT ![path] = None]
            /\ saved' = [saved EXCEPT ![path] = tomb.of]
       ELSE /\ place' = [place EXCEPT ![path] = tomb.of]
            /\ saved' = [saved EXCEPT ![path] = None]
    /\ path' = path + 1
    /\ UNCHANGED <<act, pc>>
    /\ UNCHANGED <<rows, target, tomb, expired, active, journal, counts>>

\* A collision stops the operation; the record stays.
Collide ==
    /\ At("move") /\ path \in Paths
    /\ ~Intact(path)
    /\ Leave
    /\ UNCHANGED <<rows, files, tomb, expired, active, journal, counts>>

\* All files are hashed once more on the side where they now are.
Verify ==
    /\ At("move") /\ path \notin Paths
    /\ \A i \in Paths : Destination[i] = tomb.of
    /\ Goto(IF act = "finish" THEN "record" ELSE "remove")
    /\ UNCHANGED <<rows, files, tomb, expired, active, journal, counts>>

\* Mutant: a purge does not look for newer files.
Clear_Blind ==
    /\ At("clear")
    /\ Goto("drop")
    /\ UNCHANGED <<rows, files, tomb, expired, active, journal, counts>>

\* A purge refuses while an owned path is in use again.
Clear ==
    /\ At("clear")
    /\ IF place = Nowhere THEN Goto("remove") ELSE Leave
    /\ UNCHANGED <<rows, files, tomb, expired, active, journal, counts>>

\* rm of the quarantine directory, which may be cut at any file.
RemoveTarget ==
    /\ At("remove")
    /\ \E kept \in SUBSET Paths :
          saved' = [i \in Paths |-> IF i \in kept THEN saved[i] ELSE None]
    /\ target' = (saved' # Nowhere)
    /\ Goto(IF target' THEN "remove" ELSE IF act = "undo" THEN "record" ELSE "drop")
    /\ UNCHANGED <<rows, place, tomb, expired, active, journal, counts>>

Record ==
    /\ At("record")
    /\ tomb' = [tomb EXCEPT !.state = IF act = "finish" THEN "quarantined"
                                                        ELSE "restored"]
    /\ Leave
    /\ UNCHANGED <<rows, files, expired, active, journal, counts>>

\* One transaction removes the guard, the rows and their jobs.
Drop ==
    /\ At("drop")
    /\ tomb' = [tomb EXCEPT !.state = "purged"]
    /\ rows' = None /\ active' = FALSE
    /\ Leave
    /\ UNCHANGED <<files, expired, journal, counts>>

\* The process dies, or the file system refuses.
Stop ==
    /\ ~Free /\ stops < MaxStops
    /\ stops' = stops + 1
    /\ Leave
    /\ UNCHANGED <<rows, files, tomb, expired, active, journal, fresh, newers, jobs>>

Work ==
    \/ SaveRecord \/ OverBudget \/ Turned \/ Check \/ Mark \/ Move \/ Collide
    \/ Verify \/ Clear \/ RemoveTarget \/ Record \/ Drop

Next ==
    \/ Publish \/ Delete \/ Interrupt \/ Reconcile \/ Enqueue \/ EndJob
    \/ PutNewer \/ TakeNewer \/ RetentionEnds
    \/ Plan \/ Preview \/ (\E a \in {"finish", "undo", "purge"} : Operate(a))
    \/ Work \/ Stop

Spec == Init /\ [][Next]_vars

\* An operation that holds the lock runs on, jobs end, and an owner keeps
\* asking for the operation that applies.
FairSpec ==
    /\ Spec
    /\ WF_vars(Work) /\ WF_vars(EndJob)
    /\ \A a \in {"finish", "undo", "purge"} : SF_vars(Operate(a))

-----------------------------------------------------------------------------
(* Properties *)

\* A base that readers see is whole: all its paths are back in place with
\* the bytes of its publication, and nothing of it is left in the
\* quarantine; a base that was purged left nothing there either.
ShownIsWhole ==
    ~Hidden =>
        /\ ~target /\ saved = Nowhere
        /\ rows # None => \A i \in Paths : place[i] = rows

\* While a base is hidden, each owned path is intact at its own place or in
\* the quarantine, wherever operations stopped; bytes go only in a purge,
\* which began after the retention had ended.
BytesKept ==
    Hidden =>
        \/ \A i \in Paths : place[i] = tomb.of \/ saved[i] = tomb.of
        \/ tomb.state = "purging" /\ expired

\* The rows of a hidden base change only at the very end of a purge, when
\* its bytes are gone.
RowsLast ==
    [][Hidden /\ rows' # rows =>
          rows' = None /\ ~target /\ ~Hidden' /\ expired]_vars

\* A file that somebody put at an owned path of a hidden base is neither
\* overwritten nor removed, by whichever operation meets it, resumed or not:
\* it goes only when its owner takes it away.
NewerKept ==
    [][\A i \in Paths :
          Hidden /\ place[i] = Newer /\ place'[i] # Newer => TakeNewer]_vars

\* An owner who keeps asking gets a hidden base restored or purged, however
\* often operations stopped, unless a newer file stands in the way.
HiddenIsSettled == Hidden ~> (~Hidden \/ \E i \in Paths : place[i] = Newer)

-----------------------------------------------------------------------------
(* Tombstone implements ReversibleRemoval                                  *)

\* The bytes of a hidden base, each path on the side where it lies.
Copy == [i \in Paths |-> IF saved[i] # None THEN saved[i] ELSE place[i]]

Removal == INSTANCE ReversibleRemoval WITH
    Contents <- [Paths -> Publications],
    shown <- IF Hidden \/ rows = None THEN None ELSE place,
    kept <- IF Hidden /\ tomb.state # "purging" THEN Copy ELSE None,
    phase <- CASE tomb.state = "quarantining" -> "hiding"
               [] tomb.state = "quarantined"  -> "hidden"
               [] tomb.state = "restoring"    -> "returning"
               [] tomb.state = "purging"      -> "doomed"
               [] OTHER                       -> "shown",
    due <- expired

\* Wherever its operations are cut and resumed, a base is hidden, brought
\* back and given up as a whole: what comes back is byte for byte what was
\* hidden, an undo and a purge never mix, and nothing is given up before the
\* retention is over (tombstone.ts:100, the direction is recorded first).
RemovalSpec == Removal!Spec
=============================================================================
