------------------------------ MODULE ImportJob ------------------------------
(***************************************************************************)
(* One tutorial import: its row in conversion_jobs, the workers that poll, *)
(* claim and process it (services/transcribe/src/worker.ts), the lease     *)
(* operations of packages/catalog/src/db.ts, the publication of its base   *)
(* preview-<id> with the journal, and the routes that retry, delete and    *)
(* cancel it.  Publication models the files; here a publication is its     *)
(* lock, its journal and whether its tree is installed.                    *)
(*                                                                         *)
(* Time is abstracted: a lease is live until it expires, at any moment, and*)
(* the heartbeat keeps a live lease live.                                  *)
(***************************************************************************)
EXTENDS Naturals, FiniteSets

CONSTANTS
    Workers,      \* worker processes
    Owners,       \* owner ids of claims (randomUUID)
    None,
    MaxAttempts,  \* KEYSPILLI_MAX_ATTEMPTS
    MaxStops,     \* bound on shutdowns, crashes and stalls of workers
    MaxRetries    \* bound on uses of the retry route

ASSUME JobAssumption ==
    /\ MaxAttempts \in Nat \ {0}
    /\ {MaxStops, MaxRetries} \subseteq Nat
    /\ None \notin Workers \cup Owners

VARIABLES
    job,        \* the row of the job
    rows,       \* whether preview-<id> has catalog rows
    lock,       \* holder of the artifact lock: a worker or None
    journal,    \* owner id in the pending publish journal, or None
    installed,  \* whether the tree of that journal is installed
    wpc,        \* per worker: its step
    seen,       \* per worker: the owner its last poll found in a journal
    tries,      \* per worker: the attempts it read before its claim
    claim,      \* per worker: its owner id
    aborted,    \* per worker: SIGTERM received
    fenced,     \* per worker: publicationFencePassed
    stops, retries,
    published   \* history: how often the base went from absent to listed

shared == <<job, rows, lock, journal, installed>>
counters == <<stops, retries, published>>
vars == <<shared, wpc, seen, tries, claim, aborted, fenced, counters>>

Reasons == {"none", "failed", "review", "reconcile", "cancelled"}
Job == [status : {"absent", "queued", "processing", "error", "done"},
        reason : Reasons, owner : Owners \cup {None}, live : BOOLEAN,
        attempts : 0 .. MaxAttempts + MaxRetries]

Active == {"work", "publish", "fence", "intent", "swap", "commit", "close"}

TypeOK ==
    /\ job \in Job
    /\ rows \in BOOLEAN
    /\ lock \in Workers \cup {None}
    /\ journal \in Owners \cup {None}
    /\ installed \in BOOLEAN
    /\ wpc \in [Workers -> Active \cup {"down", "scan", "requeue", "list", "read", "claim"}]
    /\ seen \in [Workers -> Owners \cup {None}]
    /\ tries \in [Workers -> 0 .. MaxAttempts + MaxRetries]
    /\ claim \in [Workers -> Owners \cup {None}]
    /\ aborted \in [Workers -> BOOLEAN]
    /\ fenced \in [Workers -> BOOLEAN]
    /\ stops \in 0 .. MaxStops
    /\ retries \in 0 .. MaxRetries
    /\ published \in Nat

\* The job was just enqueued by the import route.
Init ==
    /\ job = [status |-> "queued", reason |-> "none", owner |-> None,
              live |-> FALSE, attempts |-> 0]
    /\ rows = FALSE /\ lock = None /\ journal = None /\ installed = FALSE
    /\ wpc = [w \in Workers |-> "scan"]
    /\ seen = [w \in Workers |-> None]
    /\ tries = [w \in Workers |-> 0]
    /\ claim = [w \in Workers |-> None]
    /\ aborted = [w \in Workers |-> FALSE]
    /\ fenced = [w \in Workers |-> FALSE]
    /\ stops = 0 /\ retries = 0 /\ published = 0

-----------------------------------------------------------------------------
(* The lease operations of db.ts *)

Goto(w, step) == wpc' = [wpc EXCEPT ![w] = step]

\* ownsJobLease
Owns(w) ==
    /\ job.status = "processing" /\ job.live
    /\ claim[w] # None /\ job.owner = claim[w]

\* updateJob to a status other than processing clears the lease.
Released(status, reason) ==
    [job EXCEPT !.status = status, !.reason = reason,
                !.owner = None, !.live = FALSE]

\* Mutant: only rows without a lease are requeued.
Stale_Unleased == job.status = "processing" /\ job.owner = None

Stale == job.status = "processing" /\ ~job.live

\* Fifteen minutes pass without a heartbeat: the owner is gone, or its event
\* loop, its machine or its database stalled for so long.
Abandoned == \A w \in Workers : claim[w] # job.owner
Expire ==
    /\ job.status = "processing" /\ job.live
    /\ job' = [job EXCEPT !.live = FALSE]
    /\ IF Abandoned THEN UNCHANGED stops
                    ELSE stops < MaxStops /\ stops' = stops + 1
    /\ UNCHANGED <<rows, lock, journal, installed, wpc, seen, tries, claim,
                   aborted, fenced, retries, published>>

-----------------------------------------------------------------------------
(* A poll of the worker loop *)

\* requeueOrphaned reads the journals before its transaction ...
ScanJournals(w) ==
    /\ wpc[w] = "scan" /\ ~aborted[w]
    /\ seen' = [seen EXCEPT ![w] = journal]
    /\ Goto(w, "requeue")
    /\ UNCHANGED <<shared, tries, claim, aborted, fenced, counters>>

\* ... that parks a stale job whose owner it found in one, and requeues
\* another stale job.
RequeueOrphaned(w) ==
    /\ wpc[w] = "requeue"
    /\ job' = IF ~Stale THEN job
              ELSE IF seen[w] # None /\ seen[w] = job.owner
                   THEN Released("error", "reconcile")
                   ELSE Released("queued", job.reason)
    /\ seen' = [seen EXCEPT ![w] = None]
    /\ Goto(w, "list")
    /\ UNCHANGED <<rows, lock, journal, installed, tries, claim, aborted, fenced, counters>>

GetQueuedJobs(w) ==
    /\ wpc[w] = "list"
    /\ Goto(w, IF job.status = "queued" /\ ~aborted[w] THEN "read" ELSE "scan")
    /\ UNCHANGED <<shared, seen, tries, claim, aborted, fenced, counters>>

\* processJob reads the job, and its attempts, before it claims it.
ReadJob(w) ==
    /\ wpc[w] = "read"
    /\ IF job.status = "absent" THEN Goto(w, "scan") /\ UNCHANGED tries
       ELSE Goto(w, "claim") /\ tries' = [tries EXCEPT ![w] = job.attempts]
    /\ UNCHANGED <<shared, seen, claim, aborted, fenced, counters>>

\* An owner id that nothing refers to any more is as good as a new one.
Fresh == Owners \ ({journal} \cup {claim[w] : w \in Workers}
                             \cup {seen[w] : w \in Workers})

ClaimJob(w) ==
    /\ wpc[w] = "claim"
    /\ job.status = "queued"
    /\ \E owner \in Fresh :
          /\ claim' = [claim EXCEPT ![w] = owner]
          /\ job' = [job EXCEPT !.status = "processing", !.owner = owner,
                                !.live = TRUE]
    /\ Goto(w, "work")
    /\ UNCHANGED <<rows, lock, journal, installed, seen, tries, aborted, fenced, counters>>

\* Processing ends: the worker forgets its claim and polls again.
Rest(w) ==
    /\ Goto(w, "scan")
    /\ tries' = [tries EXCEPT ![w] = 0]
    /\ claim' = [claim EXCEPT ![w] = None]
    /\ fenced' = [fenced EXCEPT ![w] = FALSE]
    /\ lock' = IF lock = w THEN None ELSE lock
    /\ UNCHANGED seen

ClaimLost(w) ==
    /\ wpc[w] = "claim"
    /\ job.status # "queued"
    /\ Rest(w)
    /\ UNCHANGED <<job, rows, journal, installed, aborted, counters>>

-----------------------------------------------------------------------------
(* The catch of processJob *)

\* Mutants: every failure is retried, and the row is updated unowned.
Caught_Uncapped(w, reason) ==
    IF ~Owns(w) THEN job
    ELSE [Released("queued", reason) EXCEPT !.attempts = tries[w] + 1]
Caught_Unowned(w, reason) ==
    IF tries[w] + 1 < MaxAttempts
    THEN [Released("queued", reason) EXCEPT !.attempts = tries[w] + 1]
    ELSE [Released("error", reason) EXCEPT !.attempts = tries[w] + 1]

\* What the row becomes when the worker's attempt fails for a reason.  A lost
\* lease leaves it alone; a shutdown before publication costs no attempt.
\* The attempt counts from the value read before the claim.
Caught(w, reason) ==
    LET n == tries[w] + 1 IN
    IF ~Owns(w) THEN job
    ELSE IF aborted[w] /\ wpc[w] = "work" THEN Released("queued", "none")
    ELSE IF reason = "failed" /\ n < MaxAttempts
    THEN [Released("queued", "failed") EXCEPT !.attempts = n]
    ELSE [Released("error", reason) EXCEPT !.attempts = n]

Fail(w, reason) ==
    /\ job' = Caught(w, reason)
    /\ Rest(w)
    /\ UNCHANGED <<rows, journal, installed, aborted, counters>>

\* Resolving, extracting or transcribing fails, or needs a review.
WorkFails(w) ==
    /\ wpc[w] = "work"
    /\ \E reason \in {"failed", "review"} : Fail(w, reason)

\* onProgress("publishing") checks the lease, then the shutdown is checked.
WorkDone(w) ==
    /\ wpc[w] = "work"
    /\ Owns(w) /\ ~aborted[w]
    /\ Goto(w, "publish")
    /\ UNCHANGED <<shared, seen, tries, claim, aborted, fenced, counters>>

\* withBaseArtifactLock and the preamble of publishBaseArtifact.
LockBase(w) ==
    /\ wpc[w] = "publish"
    /\ lock = None /\ journal = None
    /\ lock' = w
    /\ Goto(w, "fence")
    /\ UNCHANGED <<job, rows, journal, installed, seen, tries, claim, aborted, fenced, counters>>

\* A busy lock may be tried again, a pending journal needs the operator.
LockFails(w) ==
    /\ wpc[w] = "publish"
    /\ \/ lock # None /\ Fail(w, "failed")
       \/ lock = None /\ journal # None /\ Fail(w, "reconcile")

\* beforeSwap under the lock.
FencePasses(w) == Owns(w) /\ ~aborted[w] /\ ~rows

Fence(w) ==
    /\ wpc[w] = "fence"
    /\ FencePasses(w)
    /\ fenced' = [fenced EXCEPT ![w] = TRUE]
    /\ Goto(w, "intent")
    /\ UNCHANGED <<shared, seen, tries, claim, aborted, counters>>

FenceFails(w) ==
    /\ wpc[w] = "fence"
    /\ ~FencePasses(w)
    /\ Fail(w, "failed")

WriteIntent(w) ==
    /\ wpc[w] = "intent"
    /\ journal' = claim[w]
    /\ installed' = FALSE
    /\ Goto(w, "swap")
    /\ UNCHANGED <<job, rows, lock, seen, tries, claim, aborted, fenced, counters>>

Swap(w) ==
    /\ wpc[w] = "swap"
    /\ installed' = TRUE
    /\ Goto(w, "commit")
    /\ UNCHANGED <<job, rows, lock, journal, seen, tries, claim, aborted, fenced, counters>>

\* The transaction of commitCatalogPublication for the job of a journal: the
\* lease is compared, its expiry is not.
Committable(owner) ==
    \/ job.status = "processing" /\ job.owner = owner
    \/ job.status = "error" /\ job.reason = "reconcile"
    \/ job.status = "done"

CommitRows ==
    /\ job' = IF job.status = "done" THEN job ELSE Released("done", "none")
    /\ rows' = TRUE
    /\ published' = published + (IF rows THEN 0 ELSE 1)

Commit(w) ==
    /\ wpc[w] = "commit"
    /\ Committable(claim[w])
    /\ CommitRows
    /\ Goto(w, "close")
    /\ UNCHANGED <<lock, journal, installed, seen, tries, claim, aborted, fenced, stops, retries>>

CommitFails(w) ==
    /\ wpc[w] = "commit"
    /\ ~Committable(claim[w])
    /\ Fail(w, "reconcile")

\* A rename, the source check or the clean-up throws: the journal stays.
PublicationFails(w) ==
    /\ wpc[w] \in {"swap", "commit", "close"}
    /\ Fail(w, "reconcile")

CloseJournal(w) ==
    /\ wpc[w] = "close"
    /\ journal' = None
    /\ installed' = FALSE
    /\ Rest(w)
    /\ UNCHANGED <<job, rows, aborted, counters>>

-----------------------------------------------------------------------------
(* Shutdown, grace, crash and restart of a worker *)

Abort(w) ==
    /\ ~aborted[w] /\ wpc[w] # "down"
    /\ stops < MaxStops
    /\ stops' = stops + 1
    /\ aborted' = [aborted EXCEPT ![w] = TRUE]
    /\ UNCHANGED <<shared, wpc, seen, tries, claim, fenced, retries, published>>

\* The grace period ends while the job runs: a job that has not passed the
\* fence is requeued; its worker runs on until it notices or exits.
GraceExpires(w) ==
    /\ aborted[w] /\ wpc[w] \in Active
    /\ ~fenced[w] /\ Owns(w)
    /\ job' = Released("queued", "none")
    /\ UNCHANGED <<rows, lock, journal, installed, wpc, seen, tries, claim, aborted, fenced, counters>>

Exit(w) ==
    /\ Goto(w, "down")
    /\ seen' = [seen EXCEPT ![w] = None]
    /\ tries' = [tries EXCEPT ![w] = 0]
    /\ claim' = [claim EXCEPT ![w] = None]
    /\ fenced' = [fenced EXCEPT ![w] = FALSE]
    /\ aborted' = [aborted EXCEPT ![w] = FALSE]
    /\ lock' = IF lock = w THEN None ELSE lock
    /\ UNCHANGED <<job, rows, journal, installed, retries, published>>

Drained(w) ==
    /\ aborted[w] /\ wpc[w] = "scan"
    /\ Exit(w)
    /\ UNCHANGED stops

Crash(w) ==
    /\ wpc[w] # "down"
    /\ stops < MaxStops
    /\ stops' = stops + 1
    /\ Exit(w)

Restart(w) ==
    /\ wpc[w] = "down"
    /\ Goto(w, "scan")
    /\ UNCHANGED <<shared, seen, tries, claim, aborted, fenced, counters>>

-----------------------------------------------------------------------------
(* The routes of the web application and the operator's reconciliation *)

RouteFrame == UNCHANGED <<lock, wpc, seen, tries, claim, aborted, fenced, stops>>

\* Mutant: a finished job may be retried.
RetryJob_Done ==
    /\ job.status \in {"error", "done"} /\ job.reason # "cancelled"
    /\ retries < MaxRetries
    /\ retries' = retries + 1
    /\ job' = [Released("queued", "none") EXCEPT !.attempts = 0]
    /\ RouteFrame /\ UNCHANGED <<rows, journal, installed, published>>

RetryJob ==
    /\ job.status = "error" /\ job.reason = "failed"
    /\ retries < MaxRetries
    /\ retries' = retries + 1
    /\ job' = [Released("queued", "none") EXCEPT !.attempts = 0]
    /\ RouteFrame /\ UNCHANGED <<rows, journal, installed, published>>

Gone == [Released("absent", "none") EXCEPT !.attempts = 0]

DeleteJob ==
    /\ job.status = "queued"
    /\ job' = Gone
    /\ RouteFrame /\ UNCHANGED <<rows, journal, installed, retries, published>>

\* Mutant: the cancellation does not take the artifact lock.
CancelJob_Unlocked ==
    /\ journal = None /\ ~rows
    /\ job.status \in {"queued", "processing"}
    /\ job' = Released("error", "cancelled")
    /\ RouteFrame /\ UNCHANGED <<rows, journal, installed, retries, published>>

CancelJob ==
    /\ lock = None
    /\ journal = None /\ ~rows
    /\ job.status \in {"queued", "processing"}
    /\ job' = Released("error", "cancelled")
    /\ RouteFrame /\ UNCHANGED <<rows, journal, installed, retries, published>>

\* Mutant: the deletion leaves the jobs of the song.
DeleteSong_KeepJobs ==
    /\ lock = None /\ journal = None
    /\ rows
    /\ rows' = FALSE
    /\ RouteFrame /\ UNCHANGED <<job, journal, installed, retries, published>>

\* deleteBaseArtifact of the published base, with the jobs of its songs.
DeleteSong ==
    /\ lock = None /\ journal = None
    /\ rows
    /\ rows' = FALSE
    /\ job' = IF job.status = "done" THEN Gone ELSE job
    /\ RouteFrame /\ UNCHANGED <<journal, installed, retries, published>>

\* reconcileBaseArtifact: roll back a tree that is not installed, or replay
\* the commit of one that is.
RollBack ==
    /\ lock = None /\ journal # None
    /\ ~installed
    /\ journal' = None
    /\ RouteFrame /\ UNCHANGED <<job, rows, installed, retries, published>>

RollForward ==
    /\ lock = None /\ journal # None
    /\ installed /\ Committable(journal)
    /\ CommitRows
    /\ journal' = None
    /\ installed' = FALSE
    /\ RouteFrame /\ UNCHANGED retries

-----------------------------------------------------------------------------

Poll(w) ==
    \/ ScanJournals(w) \/ RequeueOrphaned(w) \/ GetQueuedJobs(w)
    \/ ReadJob(w) \/ ClaimJob(w) \/ ClaimLost(w)

Process(w) ==
    \/ WorkFails(w) \/ WorkDone(w) \/ LockBase(w) \/ LockFails(w)
    \/ Fence(w) \/ FenceFails(w) \/ WriteIntent(w) \/ Swap(w)
    \/ Commit(w) \/ CommitFails(w) \/ PublicationFails(w) \/ CloseJournal(w)

Next ==
    \/ \E w \in Workers :
          \/ Poll(w) \/ Process(w)
          \/ Abort(w) \/ GraceExpires(w) \/ Drained(w) \/ Crash(w) \/ Restart(w)
    \/ Expire
    \/ RetryJob \/ DeleteJob \/ CancelJob \/ DeleteSong
    \/ RollBack \/ RollForward

Spec == Init /\ [][Next]_vars

\* The event loop of a worker runs on and its process manager restarts it;
\* the lease of a worker that is gone runs out.  Users and the operator owe
\* nothing.
FairSpec ==
    /\ Spec
    /\ \A w \in Workers : WF_vars(Poll(w)) /\ WF_vars(Process(w))
                          /\ WF_vars(Drained(w)) /\ WF_vars(Restart(w))
    /\ WF_vars(Abandoned /\ Expire)

-----------------------------------------------------------------------------
\* A job publishes its base at most once: neither a worker that lost its
\* lease, nor a second claim, nor a replayed journal lists it again, not even
\* after the song was deleted.
PublishedOnce == published <= 1

\* A worker counts an attempt on from what it read before its claim, so that a
\* retry in between may be forgotten: each retry admits one attempt more than
\* the limit, and no more.  A job that may still be claimed is below it.
AttemptsBounded ==
    /\ job.attempts <= MaxAttempts + retries
    /\ job.status \in {"queued", "processing"} =>
          job.attempts < MaxAttempts + retries

\* The catalog rows of the base and the end of its job are one fact: no job
\* is done without its song, and no song is listed while its job may still
\* be claimed, retried or cancelled.
DoneWithSong == job.status = "done" <=> rows

\* A cancelled job stays cancelled and never publishes, wherever its worker
\* was when the cancellation came.
CancelIsFinal ==
    [][job.reason = "cancelled" => UNCHANGED <<job, rows>>]_vars

\* What the row of the job tells the user, and how far a publication has come
\* that nobody has finished or rolled back.
Told ==
    CASE job.status = "absent" -> "gone"
      [] job.status \in {"queued", "processing"} -> "pending"
      [] job.status = "error" -> job.reason
      [] job.status = "done" -> "listed"

Attempt ==
    CASE journal = None -> "none"
      [] journal # None /\ ~installed -> "begun"
      [] journal # None /\ installed -> "installed"

Outcome == INSTANCE ImportOutcome
    WITH outcome <- Told, listed <- rows, attempt <- Attempt

\* Workers that lose their lease, crash or are stopped anywhere, requeues,
\* retries, deletions, cancellations and reconciliations together are an
\* import with one outcome at a time: a failure the user may retry, a final
\* one, or a base listed by an attempt that began before any cancellation and
\* is closed only when the base is listed.
OutcomeSpec == Outcome!Spec

\* Every job that is queued or claimed ends: whatever its workers crash,
\* stall or drain at, the lease, the requeue and the attempts bring it to
\* done, to an error, or it is deleted.
JobSettles ==
    job.status \in {"queued", "processing"}
        ~> job.status \in {"absent", "error", "done"}

\* docs/publication-failure-model.md: with the new tree installed, explicit
\* reconciliation retries the idempotent commit.  The commit finds the job
\* as the journal left it, or can still do so.
JournalCommittable ==
    journal # None /\ installed =>
        \/ Committable(journal)
        \/ job.status \in {"queued", "processing"}
        \/ job.status = "error" /\ job.reason = "failed"
=============================================================================
