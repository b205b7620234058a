------------------------------ MODULE JobProofs -------------------------------
(***************************************************************************)
(* The safety of ImportJob for any number of workers, owner ids, attempts, *)
(* stops and retries.                                                      *)
(***************************************************************************)
EXTENDS ImportJob, TLAPS

\* A retry starts the count of attempts again, but a worker may still write
\* back the count it read before: a job that may be claimed, and a worker that
\* may claim it or processes it, is below this limit.
Limit == MaxAttempts + retries

AttemptsInv ==
    /\ job.attempts <= Limit
    /\ job.status \in {"queued", "processing"} => job.attempts < Limit
    /\ \A w \in Workers :
         /\ tries[w] <= Limit
         /\ wpc[w] \in Active => tries[w] < Limit
         /\ wpc[w] = "claim" /\ job.status \in {"queued", "processing"} => tries[w] < Limit

\* A base that was published is listed with its job done, or both are gone,
\* and nothing brings an absent job back.
OnceInv ==
    IF published = 0 THEN ~rows ELSE published = 1 /\ job.status \in {"done", "absent"}

\* A cancelled job is in error, so it is not claimed, requeued or committed.
CancelInv == job.reason = "cancelled" => job.status = "error"

JobInv == TypeOK /\ AttemptsInv /\ DoneWithSong /\ OnceInv /\ CancelInv

-----------------------------------------------------------------------------
\* What becomes of the row when its lease is released.
LEMMA ReleasedTyped ==
    ASSUME job \in Job, NEW status \in {"absent", "queued", "processing", "error", "done"},
           NEW reason \in Reasons
    PROVE  /\ Released(status, reason) \in Job
           /\ [Released(status, reason) EXCEPT !.attempts = 0] \in Job
           /\ \A n \in 0 .. MaxAttempts + MaxRetries :
                [Released(status, reason) EXCEPT !.attempts = n] \in Job
<1>1. [job EXCEPT !.status = status, !.reason = reason] \in Job
    BY DEF Job
<1>2. ASSUME NEW row \in Job PROVE [row EXCEPT !.owner = None, !.live = FALSE] \in Job
    BY DEF Job
<1>3. Released(status, reason) \in Job
    BY <1>1, <1>2 DEF Released
<1>4. ASSUME NEW row \in Job, NEW n \in 0 .. MaxAttempts + MaxRetries
      PROVE  [row EXCEPT !.attempts = n] \in Job
    BY DEF Job
<1>5. 0 \in 0 .. MaxAttempts + MaxRetries
    BY JobAssumption
<1> QED
    BY <1>3, <1>4, <1>5

\* The job is queued and everybody polls.
LEMMA JobBegins == Init => JobInv
<1> SUFFICES ASSUME Init PROVE JobInv
    OBVIOUS
<1>1. TypeOK
  <2>1. 0 \in 0 .. MaxAttempts + MaxRetries /\ 0 \in 0 .. MaxStops /\ 0 \in 0 .. MaxRetries
      BY JobAssumption
  <2>2. job \in Job
      BY <2>1 DEF Init, Job, Reasons
  <2>3. rows \in BOOLEAN /\ installed \in BOOLEAN
      BY DEF Init
  <2> QED
      BY <2>1, <2>2, <2>3 DEF Init, TypeOK
<1>2. AttemptsInv /\ DoneWithSong /\ OnceInv /\ CancelInv
    BY JobAssumption DEF Init, AttemptsInv, Limit, DoneWithSong, OnceInv, CancelInv, Active
<1> QED
    BY <1>1, <1>2 DEF JobInv

\* A poll: the lease operations on the row and the claim.
LEMMA PollKeeps ==
    ASSUME JobInv, NEW w \in Workers,
           ScanJournals(w) \/ RequeueOrphaned(w) \/ GetQueuedJobs(w) \/ ReadJob(w)
             \/ ClaimJob(w) \/ ClaimLost(w)
    PROVE  JobInv'
<1> USE JobAssumption DEF JobInv, shared, counters, Goto, Stale, Rest, Fresh
<1>1. CASE ScanJournals(w)
  <2>1. TypeOK'
      BY <1>1 DEF ScanJournals, TypeOK, Job, Active, Reasons, AttemptsInv, Limit
  <2>2. AttemptsInv' /\ DoneWithSong' /\ OnceInv' /\ CancelInv'
      BY <1>1
         DEF ScanJournals, TypeOK, Job, Active, AttemptsInv, Limit, DoneWithSong,
             OnceInv, CancelInv
  <2> QED
      BY <2>1, <2>2
<1>2. CASE RequeueOrphaned(w)
  <2>1. TypeOK'
      BY <1>2 DEF RequeueOrphaned, Released, TypeOK, Job, Active, Reasons, AttemptsInv, Limit
  <2>2. AttemptsInv' /\ DoneWithSong' /\ OnceInv' /\ CancelInv'
      BY <1>2
         DEF RequeueOrphaned, Released, TypeOK, Job, Active, AttemptsInv, Limit, DoneWithSong,
             OnceInv, CancelInv
  <2> QED
      BY <2>1, <2>2
<1>3. CASE GetQueuedJobs(w)
  <2>1. TypeOK'
      BY <1>3 DEF GetQueuedJobs, TypeOK, Job, Active, Reasons, AttemptsInv, Limit
  <2>2. AttemptsInv' /\ DoneWithSong' /\ OnceInv' /\ CancelInv'
      BY <1>3
         DEF GetQueuedJobs, TypeOK, Job, Active, AttemptsInv, Limit, DoneWithSong,
             OnceInv, CancelInv
  <2> QED
      BY <2>1, <2>2
<1>4. CASE ReadJob(w)
  <2>1. TypeOK'
      BY <1>4 DEF ReadJob, TypeOK, Job, Active, Reasons, AttemptsInv, Limit
  <2>2. AttemptsInv' /\ DoneWithSong' /\ OnceInv' /\ CancelInv'
      BY <1>4
         DEF ReadJob, TypeOK, Job, Active, AttemptsInv, Limit, DoneWithSong,
             OnceInv, CancelInv
  <2> QED
      BY <2>1, <2>2
<1>5. CASE ClaimJob(w)
  <2>1. PICK owner \in Owners :
          /\ claim' = [claim EXCEPT ![w] = owner]
          /\ job' = [job EXCEPT !.status = "processing", !.owner = owner, !.live = TRUE]
      BY <1>5 DEF ClaimJob
  <2>2. /\ job.status = "queued" /\ wpc[w] = "claim" /\ wpc' = [wpc EXCEPT ![w] = "work"]
        /\ UNCHANGED <<rows, lock, journal, installed, seen, tries, aborted, fenced, counters>>
      BY <1>5 DEF ClaimJob
  <2>3. /\ job' \in Job
        /\ job'.status = "processing" /\ job'.reason = job.reason
        /\ job'.attempts = job.attempts
      BY <2>1 DEF TypeOK, Job
  <2>4. TypeOK'
      BY <2>1, <2>2, <2>3 DEF TypeOK, Active
  <2>5. AttemptsInv'
      BY <2>2, <2>3 DEF TypeOK, AttemptsInv, Limit, Active
  <2>6. DoneWithSong' /\ OnceInv' /\ CancelInv'
      BY <2>2, <2>3 DEF DoneWithSong, OnceInv, CancelInv
  <2> QED
      BY <2>4, <2>5, <2>6
<1>6. CASE ClaimLost(w)
  <2>1. TypeOK'
      BY <1>6 DEF ClaimLost, TypeOK, Job, Active, Reasons, AttemptsInv, Limit
  <2>2. AttemptsInv' /\ DoneWithSong' /\ OnceInv' /\ CancelInv'
      BY <1>6
         DEF ClaimLost, TypeOK, Job, Active, AttemptsInv, Limit, DoneWithSong,
             OnceInv, CancelInv
  <2> QED
      BY <2>1, <2>2
<1> QED
    BY <1>1, <1>2, <1>3, <1>4, <1>5, <1>6

\* The catch of a worker that processes a job.
LEMMA FailKeeps ==
    ASSUME JobInv, NEW w \in Workers, wpc[w] \in Active,
           NEW reason \in {"failed", "review", "reconcile"}, Fail(w, reason)
    PROVE  JobInv'
<1> USE JobAssumption DEF JobInv
<1>1. UNCHANGED <<rows, journal, installed, aborted, counters>>
    BY DEF Fail
<1>2. \/ job' = job
      \/ /\ job.status = "processing" /\ job'.status \in {"queued", "error"}
         /\ job'.reason # "cancelled"
         /\ job' \in Job /\ job'.attempts <= Limit
         /\ job'.status = "queued" => job'.attempts < Limit
  <2> DEFINE n == tries[w] + 1
  <2>1. n \in 0 .. MaxAttempts + MaxRetries /\ n <= Limit
      BY DEF TypeOK, AttemptsInv, Limit
  <2>2. CASE ~Owns(w)
      BY <2>2 DEF Fail, Caught
  <2>3. CASE Owns(w) /\ aborted[w] /\ wpc[w] = "work"
    <3>1. job' = Released("queued", "none") /\ job.status = "processing" /\ job \in Job
        BY <2>3 DEF Fail, Caught, Owns, TypeOK
    <3>2. job' \in Job
        BY <3>1, ReleasedTyped DEF Reasons
    <3> QED
        BY <3>1, <3>2 DEF Released, Job, AttemptsInv
  <2>4. CASE Owns(w) /\ ~(aborted[w] /\ wpc[w] = "work")
    <3>1. /\ job.status = "processing" /\ job \in Job
          /\ \/ n < MaxAttempts /\ job' = [Released("queued", "failed") EXCEPT !.attempts = n]
             \/ job' = [Released("error", reason) EXCEPT !.attempts = n]
        BY <2>4 DEF Fail, Caught, Owns, TypeOK
    <3>2. job' \in Job
        BY <2>1, <3>1, ReleasedTyped DEF Reasons
    <3>3. CASE n < MaxAttempts /\ job' = [Released("queued", "failed") EXCEPT !.attempts = n]
      <4>1. job'.status = "queued" /\ job'.reason = "failed" /\ job'.attempts = n
          BY <3>1, <3>3 DEF Released, Job
      <4>2. MaxAttempts \in Nat /\ retries \in Nat
          BY DEF TypeOK
      <4> QED
          BY <2>1, <3>1, <3>2, <3>3, <4>1, <4>2 DEF Limit
    <3>4. CASE job' = [Released("error", reason) EXCEPT !.attempts = n]
      <4>1. job'.status = "error" /\ job'.reason = reason /\ job'.attempts = n
          BY <3>1, <3>4 DEF Released, Job
      <4> QED
          BY <2>1, <3>1, <3>2, <4>1
    <3> QED
        BY <3>1, <3>3, <3>4
  <2> QED
      BY <2>2, <2>3, <2>4
<1>3. TypeOK'
    BY <1>1, <1>2 DEF Fail, Rest, Goto, TypeOK, counters
<1>4. AttemptsInv' /\ DoneWithSong' /\ OnceInv' /\ CancelInv'
    BY <1>1, <1>2, <1>3 DEF Fail, Rest, Goto, TypeOK, Job, Active, AttemptsInv, Limit, DoneWithSong,
           OnceInv, CancelInv, counters
<1> QED
    BY <1>3, <1>4

\* The failures of a job, at whichever step.
LEMMA FailuresKeep ==
    ASSUME JobInv, NEW w \in Workers,
           \/ WorkFails(w) \/ LockFails(w) \/ FenceFails(w)
           \/ CommitFails(w) \/ PublicationFails(w)
    PROVE  JobInv'
    BY FailKeeps DEF WorkFails, LockFails, FenceFails, CommitFails, PublicationFails, Active

\* The steps of a job that succeed.
LEMMA ProcessKeeps ==
    ASSUME JobInv, NEW w \in Workers,
           WorkDone(w) \/ LockBase(w) \/ Fence(w) \/ WriteIntent(w) \/ Swap(w)
             \/ Commit(w) \/ CloseJournal(w)
    PROVE  JobInv'
<1> USE JobAssumption DEF JobInv, shared, counters, Goto, Rest, Committable,
           CommitRows
<1>1. CASE WorkDone(w)
  <2>1. TypeOK'
      BY <1>1 DEF WorkDone, TypeOK, Job, Active, Reasons, AttemptsInv, Limit
  <2>2. AttemptsInv' /\ DoneWithSong' /\ OnceInv' /\ CancelInv'
      BY <1>1
         DEF WorkDone, TypeOK, Job, Active, AttemptsInv, Limit, DoneWithSong,
             OnceInv, CancelInv
  <2> QED
      BY <2>1, <2>2
<1>2. CASE LockBase(w)
  <2>1. TypeOK'
      BY <1>2 DEF LockBase, TypeOK, Job, Active, Reasons, AttemptsInv, Limit
  <2>2. AttemptsInv' /\ DoneWithSong' /\ OnceInv' /\ CancelInv'
      BY <1>2
         DEF LockBase, TypeOK, Job, Active, AttemptsInv, Limit, DoneWithSong,
             OnceInv, CancelInv
  <2> QED
      BY <2>1, <2>2
<1>3. CASE Fence(w)
  <2>1. TypeOK'
      BY <1>3 DEF Fence, TypeOK, Job, Active, Reasons, AttemptsInv, Limit
  <2>2. AttemptsInv' /\ DoneWithSong' /\ OnceInv' /\ CancelInv'
      BY <1>3
         DEF Fence, TypeOK, Job, Active, AttemptsInv, Limit, DoneWithSong,
             OnceInv, CancelInv
  <2> QED
      BY <2>1, <2>2
<1>4. CASE WriteIntent(w)
  <2>1. TypeOK'
      BY <1>4 DEF WriteIntent, TypeOK, Job, Active, Reasons, AttemptsInv, Limit
  <2>2. AttemptsInv' /\ DoneWithSong' /\ OnceInv' /\ CancelInv'
      BY <1>4
         DEF WriteIntent, TypeOK, Job, Active, AttemptsInv, Limit, DoneWithSong,
             OnceInv, CancelInv
  <2> QED
      BY <2>1, <2>2
<1>5. CASE Swap(w)
  <2>1. TypeOK'
      BY <1>5 DEF Swap, TypeOK, Job, Active, Reasons, AttemptsInv, Limit
  <2>2. AttemptsInv' /\ DoneWithSong' /\ OnceInv' /\ CancelInv'
      BY <1>5
         DEF Swap, TypeOK, Job, Active, AttemptsInv, Limit, DoneWithSong,
             OnceInv, CancelInv
  <2> QED
      BY <2>1, <2>2
<1>6. CASE Commit(w)
  <2>1. TypeOK'
    <3>1. job' \in Job
        BY <1>6, ReleasedTyped DEF Commit, TypeOK, Reasons
    <3>2. rows' \in BOOLEAN /\ published' \in Nat
        BY <1>6 DEF Commit, TypeOK
    <3> QED
        BY <1>6, <3>1, <3>2 DEF Commit, TypeOK, Active
  <2>2. AttemptsInv' /\ DoneWithSong' /\ OnceInv' /\ CancelInv'
      BY <1>6
         DEF Commit, Released, TypeOK, Job, Active, AttemptsInv, Limit, DoneWithSong,
             OnceInv, CancelInv
  <2> QED
      BY <2>1, <2>2
<1>7. CASE CloseJournal(w)
  <2>1. TypeOK'
    <3>1. installed' \in BOOLEAN
        BY <1>7 DEF CloseJournal
    <3> QED
        BY <1>7, <3>1 DEF CloseJournal, TypeOK
  <2>2. AttemptsInv' /\ DoneWithSong' /\ OnceInv' /\ CancelInv'
      BY <1>7
         DEF CloseJournal, TypeOK, Job, Active, AttemptsInv, Limit, DoneWithSong,
             OnceInv, CancelInv
  <2> QED
      BY <2>1, <2>2
<1> QED
    BY <1>1, <1>2, <1>3, <1>4, <1>5, <1>6, <1>7

\* Shutdown, crash and restart of a worker.
LEMMA StopsKeep ==
    ASSUME JobInv, NEW w \in Workers,
           Abort(w) \/ GraceExpires(w) \/ Drained(w) \/ Crash(w) \/ Restart(w)
    PROVE  JobInv'
<1> USE JobAssumption DEF JobInv, shared, counters, Goto, Owns, Exit
<1>1. CASE Abort(w)
  <2>1. TypeOK'
      BY <1>1 DEF Abort, TypeOK, Job, Active, Reasons, AttemptsInv, Limit
  <2>2. AttemptsInv' /\ DoneWithSong' /\ OnceInv' /\ CancelInv'
      BY <1>1
         DEF Abort, TypeOK, Job, Active, AttemptsInv, Limit, DoneWithSong,
             OnceInv, CancelInv
  <2> QED
      BY <2>1, <2>2
<1>2. CASE GraceExpires(w)
  <2>1. TypeOK'
      BY <1>2 DEF GraceExpires, Released, TypeOK, Job, Active, Reasons, AttemptsInv, Limit
  <2>2. AttemptsInv' /\ DoneWithSong' /\ OnceInv' /\ CancelInv'
      BY <1>2
         DEF GraceExpires, Released, TypeOK, Job, Active, AttemptsInv, Limit, DoneWithSong,
             OnceInv, CancelInv
  <2> QED
      BY <2>1, <2>2
<1>3. CASE Drained(w)
  <2>1. TypeOK'
      BY <1>3 DEF Drained, TypeOK, Job, Active, Reasons, AttemptsInv, Limit
  <2>2. AttemptsInv' /\ DoneWithSong' /\ OnceInv' /\ CancelInv'
      BY <1>3
         DEF Drained, TypeOK, Job, Active, AttemptsInv, Limit, DoneWithSong,
             OnceInv, CancelInv
  <2> QED
      BY <2>1, <2>2
<1>4. CASE Crash(w)
  <2>1. TypeOK'
      BY <1>4 DEF Crash, TypeOK, Job, Active, Reasons, AttemptsInv, Limit
  <2>2. AttemptsInv' /\ DoneWithSong' /\ OnceInv' /\ CancelInv'
      BY <1>4
         DEF Crash, TypeOK, Job, Active, AttemptsInv, Limit, DoneWithSong,
             OnceInv, CancelInv
  <2> QED
      BY <2>1, <2>2
<1>5. CASE Restart(w)
  <2>1. TypeOK'
      BY <1>5 DEF Restart, TypeOK, Job, Active, Reasons, AttemptsInv, Limit
  <2>2. AttemptsInv' /\ DoneWithSong' /\ OnceInv' /\ CancelInv'
      BY <1>5
         DEF Restart, TypeOK, Job, Active, AttemptsInv, Limit, DoneWithSong,
             OnceInv, CancelInv
  <2> QED
      BY <2>1, <2>2
<1> QED
    BY <1>1, <1>2, <1>3, <1>4, <1>5

\* The routes, the operator, and the end of a lease.
LEMMA RoutesKeep ==
    ASSUME JobInv,
           Expire \/ RetryJob \/ DeleteJob \/ CancelJob \/ DeleteSong \/ RollBack
             \/ RollForward
    PROVE  JobInv'
<1> USE JobAssumption DEF JobInv, RouteFrame, Committable, CommitRows
<1>1. CASE Expire
  <2>1. TypeOK'
    <3>1. job' \in Job
        BY <1>1, ReleasedTyped DEF Expire, TypeOK, Job
    <3>2. stops' \in 0 .. MaxStops
        BY <1>1 DEF Expire, TypeOK
    <3> QED
        BY <1>1, <3>1, <3>2 DEF Expire, TypeOK
  <2>2. AttemptsInv' /\ DoneWithSong' /\ OnceInv' /\ CancelInv'
      BY <1>1
         DEF Expire, TypeOK, Job, Active, AttemptsInv, Limit, DoneWithSong,
             OnceInv, CancelInv
  <2> QED
      BY <2>1, <2>2
<1>2. CASE RetryJob
  <2>1. TypeOK'
    <3>1. job' \in Job
      <4>1. job' = [Released("queued", "none") EXCEPT !.attempts = 0]
          BY <1>2 DEF RetryJob
      <4> QED
          BY <4>1, ReleasedTyped DEF TypeOK, Reasons
    <3>2. retries' \in 0 .. MaxRetries
        BY <1>2 DEF RetryJob, TypeOK
    <3> QED
        BY <1>2, <3>1, <3>2 DEF RetryJob, TypeOK
  <2>2. AttemptsInv' /\ DoneWithSong' /\ OnceInv' /\ CancelInv'
      BY <1>2
         DEF RetryJob, Released, TypeOK, Job, Active, AttemptsInv, Limit, DoneWithSong,
             OnceInv, CancelInv
  <2> QED
      BY <2>1, <2>2
<1>3. CASE DeleteJob
  <2>1. TypeOK'
    <3>1. job' \in Job
      <4>1. job' = job \/ job' = Gone
          BY <1>3 DEF DeleteJob
      <4> QED
          BY <4>1, ReleasedTyped DEF Gone, TypeOK, Reasons
    <3> QED
        BY <1>3, <3>1 DEF DeleteJob, TypeOK
  <2>2. AttemptsInv' /\ DoneWithSong' /\ OnceInv' /\ CancelInv'
      BY <1>3
         DEF DeleteJob, Gone, Released, TypeOK, Job, Active, AttemptsInv, Limit, DoneWithSong,
             OnceInv, CancelInv
  <2> QED
      BY <2>1, <2>2
<1>4. CASE CancelJob
  <2>1. TypeOK'
      BY <1>4 DEF CancelJob, Released, TypeOK, Job, Active, Reasons, AttemptsInv, Limit
  <2>2. AttemptsInv' /\ DoneWithSong' /\ OnceInv' /\ CancelInv'
      BY <1>4
         DEF CancelJob, Released, TypeOK, Job, Active, AttemptsInv, Limit, DoneWithSong,
             OnceInv, CancelInv
  <2> QED
      BY <2>1, <2>2
<1>5. CASE DeleteSong
  <2>1. TypeOK'
    <3>1. job' \in Job
      <4>1. job' = job \/ job' = Gone
          BY <1>5 DEF DeleteSong
      <4> QED
          BY <4>1, ReleasedTyped DEF Gone, TypeOK, Reasons
    <3>2. rows' \in BOOLEAN
        BY <1>5 DEF DeleteSong, TypeOK
    <3> QED
        BY <1>5, <3>1, <3>2 DEF DeleteSong, TypeOK
  <2>2. AttemptsInv' /\ DoneWithSong' /\ OnceInv' /\ CancelInv'
      BY <1>5
         DEF DeleteSong, Gone, Released, TypeOK, Job, Active, AttemptsInv, Limit, DoneWithSong,
             OnceInv, CancelInv
  <2> QED
      BY <2>1, <2>2
<1>6. CASE RollBack
  <2>1. TypeOK'
      BY <1>6 DEF RollBack, TypeOK, Job, Active, Reasons, AttemptsInv, Limit
  <2>2. AttemptsInv' /\ DoneWithSong' /\ OnceInv' /\ CancelInv'
      BY <1>6
         DEF RollBack, TypeOK, Job, Active, AttemptsInv, Limit, DoneWithSong,
             OnceInv, CancelInv
  <2> QED
      BY <2>1, <2>2
<1>7. CASE RollForward
  <2>1. TypeOK'
    <3>1. job' \in Job
      <4>1. job' = job \/ job' = Released("done", "none")
          BY <1>7 DEF RollForward
      <4> QED
          BY <4>1, ReleasedTyped DEF TypeOK, Reasons
    <3>2. rows' \in BOOLEAN /\ installed' \in BOOLEAN
        BY <1>7 DEF RollForward
    <3>3. published' \in Nat
        BY <1>7 DEF RollForward, TypeOK
    <3> QED
        BY <1>7, <3>1, <3>2, <3>3 DEF RollForward, TypeOK
  <2>2. AttemptsInv' /\ DoneWithSong' /\ OnceInv' /\ CancelInv'
      BY <1>7
         DEF RollForward, Released, TypeOK, Job, Active, AttemptsInv, Limit, DoneWithSong,
             OnceInv, CancelInv
  <2> QED
      BY <2>1, <2>2
<1> QED
    BY <1>1, <1>2, <1>3, <1>4, <1>5, <1>6, <1>7

\* Every step keeps the invariant.
LEMMA JobKeeps == JobInv /\ [Next]_vars => JobInv'
<1> SUFFICES ASSUME JobInv, [Next]_vars PROVE JobInv'
    OBVIOUS
<1>1. CASE UNCHANGED vars
    BY <1>1 DEF vars, shared, counters, JobInv, TypeOK, AttemptsInv, Limit, DoneWithSong, OnceInv,
           CancelInv
<1>2. ASSUME NEW w \in Workers, Poll(w) PROVE JobInv'
    BY <1>2, PollKeeps DEF Poll
<1>3. ASSUME NEW w \in Workers, Process(w) PROVE JobInv'
    BY <1>3, FailuresKeep, ProcessKeeps DEF Process
<1>4. ASSUME NEW w \in Workers,
             Abort(w) \/ GraceExpires(w) \/ Drained(w) \/ Crash(w) \/ Restart(w)
      PROVE  JobInv'
    BY <1>4, StopsKeep
<1>5. CASE Expire \/ RetryJob \/ DeleteJob \/ CancelJob \/ DeleteSong \/ RollBack \/ RollForward
    BY <1>5, RoutesKeep
<1> QED
    BY <1>1, <1>2, <1>3, <1>4, <1>5 DEF Next

\* The invariant holds in every reachable state.
LEMMA JobInvariant == Spec => []JobInv
    BY JobBegins, JobKeeps, PTL DEF Spec

-----------------------------------------------------------------------------
\* Every variable keeps to its type; in particular the attempts a stale worker
\* writes back stay within the attempts and the retries allowed.
THEOREM JobTyped == Spec => []TypeOK
<1>1. JobInv => TypeOK
    BY DEF JobInv
<1> QED
    BY <1>1, JobInvariant, PTL

\* However claims, failures and retries interleave, every retry admits at most
\* one attempt more than the limit.
THEOREM AttemptsStayBounded == Spec => []AttemptsBounded
<1>1. JobInv => AttemptsBounded
    BY DEF JobInv, AttemptsInv, Limit, AttemptsBounded
<1> QED
    BY <1>1, JobInvariant, PTL

\* claimJob, requeueOrphaned and the replay of a journal: no race of them
\* publishes the base of a job a second time.
THEOREM PublishesOnce == Spec => []PublishedOnce
<1>1. JobInv => PublishedOnce
    BY DEF JobInv, OnceInv, PublishedOnce
<1> QED
    BY <1>1, JobInvariant, PTL

\* commitCatalogPublication and deleteBaseRows keep the rows of the base and
\* the end of its job one fact.
THEOREM SongMeansDone == Spec => []DoneWithSong
<1>1. JobInv => DoneWithSong
    BY DEF JobInv
<1> QED
    BY <1>1, JobInvariant, PTL

\* Once the cancel route has answered, neither a worker nor a journal nor a
\* retry changes the job or lists its base.
THEOREM CancelHolds == Spec => CancelIsFinal
<1>1. ASSUME JobInv, [Next]_vars
      PROVE  [job.reason = "cancelled" => UNCHANGED <<job, rows>>]_vars
  <2> SUFFICES ASSUME Next, job.reason = "cancelled" PROVE UNCHANGED <<job, rows>>
      BY <1>1
  <2>1. job.status = "error" /\ ~rows
      BY <1>1 DEF JobInv, CancelInv, DoneWithSong
  <2>2. ASSUME NEW w \in Workers, Poll(w) PROVE UNCHANGED <<job, rows>>
      BY <2>1, <2>2 DEF Poll, ScanJournals, RequeueOrphaned, Stale, GetQueuedJobs, ReadJob,
             ClaimJob, ClaimLost, shared
  <2>3. ASSUME NEW w \in Workers, Process(w) PROVE UNCHANGED <<job, rows>>
      BY <2>1, <2>3 DEF Process, WorkFails, LockFails, FenceFails, CommitFails, PublicationFails,
             Fail, Caught, Owns, WorkDone, LockBase, Fence, WriteIntent, Swap, Commit, Committable,
             CloseJournal, shared
  <2>4. ASSUME NEW w \in Workers,
               Abort(w) \/ GraceExpires(w) \/ Drained(w) \/ Crash(w) \/ Restart(w)
        PROVE  UNCHANGED <<job, rows>>
      BY <2>1, <2>4 DEF Abort, GraceExpires, Owns, Drained, Crash, Exit, Restart, shared
  <2>5. CASE Expire \/ RetryJob \/ DeleteJob \/ CancelJob \/ DeleteSong \/ RollBack \/ RollForward
      BY <2>1, <2>5 DEF Expire, RetryJob, DeleteJob, CancelJob, DeleteSong, RollBack, RollForward,
             Committable
  <2> QED
      BY <2>2, <2>3, <2>4, <2>5 DEF Next
<1> QED
    BY <1>1, JobInvariant, PTL DEF Spec, CancelIsFinal

-----------------------------------------------------------------------------
\* Who may have an attempt open: a worker between the fence and the end of its
\* publication holds the lock, and what it has done to the journal and to the
\* files is still there.  A worker about to write its intent has a job that is
\* neither listed nor cancelled.
Holding == {"fence", "intent", "swap", "commit", "close"}

AttemptInv ==
    \A w \in Workers :
        /\ wpc[w] \in Active => claim[w] # None
        /\ wpc[w] \in Holding => lock = w
        /\ wpc[w] \in {"fence", "intent"} => journal = None
        /\ wpc[w] \in {"swap", "commit", "close"} => journal # None
        /\ wpc[w] = "intent" => ~rows /\ job.reason # "cancelled"
        /\ wpc[w] = "swap" => ~installed
        /\ wpc[w] \in {"commit", "close"} => installed
        /\ wpc[w] = "close" => rows

\* Nobody holds the lock before the first poll.
LEMMA AttemptBegins == Init => AttemptInv
    BY DEF Init, AttemptInv, Active, Holding

\* A poll gives a worker its claim and otherwise touches no attempt.
LEMMA PollKeepsAttempt ==
    ASSUME JobInv, AttemptInv, NEW w \in Workers,
           ScanJournals(w) \/ RequeueOrphaned(w) \/ GetQueuedJobs(w) \/ ReadJob(w)
             \/ ClaimJob(w) \/ ClaimLost(w)
    PROVE  AttemptInv'
<1> USE JobAssumption DEF JobInv, TypeOK, Goto, shared, Active, Holding
<1>1. CASE ScanJournals(w) \/ GetQueuedJobs(w) \/ ReadJob(w)
    BY <1>1 DEF ScanJournals, GetQueuedJobs, ReadJob, AttemptInv
<1>2. CASE RequeueOrphaned(w)
  <2>1. job'.reason = "cancelled" => job.reason = "cancelled"
      BY <1>2 DEF RequeueOrphaned, Released, Job
  <2> QED
      BY <1>2, <2>1 DEF RequeueOrphaned, AttemptInv
<1>3. CASE ClaimJob(w)
  <2>1. PICK owner \in Owners :
          /\ claim' = [claim EXCEPT ![w] = owner]
          /\ job' = [job EXCEPT !.status = "processing", !.owner = owner, !.live = TRUE]
      BY <1>3 DEF ClaimJob, Fresh
  <2>2. job'.reason = job.reason /\ owner # None
      BY <2>1 DEF Job
  <2> QED
      BY <1>3, <2>1, <2>2 DEF ClaimJob, AttemptInv
<1>4. CASE ClaimLost(w)
    BY <1>4 DEF ClaimLost, Rest, AttemptInv
<1> QED
    BY <1>1, <1>2, <1>3, <1>4

\* What a failed attempt makes of the row: nothing without the lease, else the
\* job is queued again or ends with its reason.
LEMMA CaughtTells ==
    ASSUME JobInv, NEW w \in Workers, wpc[w] \in Active,
           NEW reason \in {"failed", "review", "reconcile"}
    PROVE  \/ Caught(w, reason) = job
           \/ /\ job.status = "processing"
              /\ Caught(w, reason).status = "queued"
              /\ Caught(w, reason).reason # "cancelled"
           \/ /\ job.status = "processing"
              /\ Caught(w, reason).status = "error"
              /\ Caught(w, reason).reason = reason
<1> USE DEF JobInv, TypeOK, Job, Caught, Released, Owns
<1>1. CASE ~Owns(w)
    BY <1>1
<1>2. CASE Owns(w) /\ aborted[w] /\ wpc[w] = "work"
    BY <1>2
<1>3. CASE Owns(w) /\ ~(aborted[w] /\ wpc[w] = "work") /\ reason = "failed"
             /\ tries[w] + 1 < MaxAttempts
    BY <1>3
<1>4. CASE Owns(w) /\ ~(aborted[w] /\ wpc[w] = "work")
             /\ ~(reason = "failed" /\ tries[w] + 1 < MaxAttempts)
    BY <1>4
<1> QED
    BY <1>1, <1>2, <1>3, <1>4

\* A failing worker leaves the lock, never the journal.
LEMMA FailKeepsAttempt ==
    ASSUME JobInv, AttemptInv, NEW w \in Workers, wpc[w] \in Active,
           NEW reason \in {"failed", "review", "reconcile"}, Fail(w, reason)
    PROVE  AttemptInv'
<1>1. job'.reason = "cancelled" => job.reason = "cancelled"
    BY CaughtTells DEF Fail
<1> QED
    BY <1>1, JobAssumption DEF Fail, Rest, Goto, JobInv, TypeOK, AttemptInv, Active, Holding

\* The steps of a publication, each under the lock.
LEMMA ProcessKeepsAttempt ==
    ASSUME JobInv, AttemptInv, NEW w \in Workers, Process(w)
    PROVE  AttemptInv'
<1> USE JobAssumption DEF JobInv, TypeOK, Goto, shared, Active, Holding
<1>1. CASE WorkFails(w) \/ LockFails(w) \/ FenceFails(w) \/ CommitFails(w) \/ PublicationFails(w)
  <2>1. PICK reason \in {"failed", "review", "reconcile"} : wpc[w] \in Active /\ Fail(w, reason)
      BY <1>1 DEF WorkFails, LockFails, FenceFails, CommitFails, PublicationFails
  <2> QED
      BY <2>1, FailKeepsAttempt
<1>2. CASE WorkDone(w)
    BY <1>2 DEF WorkDone, AttemptInv
<1>3. CASE LockBase(w)
    BY <1>3 DEF LockBase, AttemptInv
<1>4. CASE Fence(w)
    BY <1>4 DEF Fence, FencePasses, Owns, CancelInv, AttemptInv
<1>5. CASE WriteIntent(w)
    BY <1>5 DEF WriteIntent, AttemptInv
<1>6. CASE Swap(w)
    BY <1>6 DEF Swap, AttemptInv
<1>7. CASE Commit(w)
    BY <1>7 DEF Commit, CommitRows, AttemptInv
<1>8. CASE CloseJournal(w)
    BY <1>8 DEF CloseJournal, Rest, AttemptInv
<1> QED
    BY <1>1, <1>2, <1>3, <1>4, <1>5, <1>6, <1>7, <1>8 DEF Process

\* A stopped worker drops its lock with its place in the publication.
LEMMA StopsKeepAttempt ==
    ASSUME JobInv, AttemptInv, NEW w \in Workers,
           Abort(w) \/ GraceExpires(w) \/ Drained(w) \/ Crash(w) \/ Restart(w)
    PROVE  AttemptInv'
<1> USE JobAssumption DEF JobInv, TypeOK, Goto, shared, Active, Holding, Exit
<1>1. CASE Abort(w)
    BY <1>1 DEF Abort, AttemptInv
<1>2. CASE GraceExpires(w)
    BY <1>2 DEF GraceExpires, Released, Job, AttemptInv
<1>3. CASE Drained(w)
    BY <1>3 DEF Drained, AttemptInv
<1>4. CASE Crash(w)
    BY <1>4 DEF Crash, AttemptInv
<1>5. CASE Restart(w)
    BY <1>5 DEF Restart, AttemptInv
<1> QED
    BY <1>1, <1>2, <1>3, <1>4, <1>5

\* The routes that matter to an attempt wait for the lock; the others neither
\* cancel nor list.
LEMMA RoutesKeepAttempt ==
    ASSUME JobInv, AttemptInv,
           Expire \/ RetryJob \/ DeleteJob \/ CancelJob \/ DeleteSong \/ RollBack
             \/ RollForward
    PROVE  AttemptInv'
<1> USE JobAssumption DEF JobInv, TypeOK, RouteFrame, Active, Holding
<1>1. CASE Expire
    BY <1>1 DEF Expire, Job, AttemptInv
<1>2. CASE RetryJob
    BY <1>2 DEF RetryJob, Released, Job, AttemptInv
<1>3. CASE DeleteJob
    BY <1>3 DEF DeleteJob, Gone, Released, Job, AttemptInv
<1>4. CASE CancelJob \/ DeleteSong \/ RollBack \/ RollForward
  <2>1. lock = None /\ UNCHANGED <<lock, wpc, claim>>
      BY <1>4 DEF CancelJob, DeleteSong, RollBack, RollForward
  <2> QED
      BY <2>1 DEF AttemptInv
<1> QED
    BY <1>1, <1>2, <1>3, <1>4

\* Every step keeps it.
LEMMA AttemptKeeps == JobInv /\ AttemptInv /\ [Next]_vars => AttemptInv'
<1> SUFFICES ASSUME JobInv, AttemptInv, [Next]_vars PROVE AttemptInv'
    OBVIOUS
<1>1. CASE UNCHANGED vars
    BY <1>1 DEF vars, shared, AttemptInv
<1>2. ASSUME NEW w \in Workers, Poll(w) PROVE AttemptInv'
    BY <1>2, PollKeepsAttempt DEF Poll
<1>3. ASSUME NEW w \in Workers, Process(w) PROVE AttemptInv'
    BY <1>3, ProcessKeepsAttempt
<1>4. ASSUME NEW w \in Workers,
             Abort(w) \/ GraceExpires(w) \/ Drained(w) \/ Crash(w) \/ Restart(w)
      PROVE  AttemptInv'
    BY <1>4, StopsKeepAttempt
<1>5. CASE Expire \/ RetryJob \/ DeleteJob \/ CancelJob \/ DeleteSong \/ RollBack \/ RollForward
    BY <1>5, RoutesKeepAttempt
<1> QED
    BY <1>1, <1>2, <1>3, <1>4, <1>5 DEF Next

-----------------------------------------------------------------------------
\* A step of the import as its users and the operator see it, or none.
Seen == Outcome!Next \/ UNCHANGED <<Told, rows, Attempt>>

\* What is told of a job is told of its status and its reason alone.
LEMMA SameTold ==
    ASSUME job'.status = job.status, job'.reason = job.reason
    PROVE  Told' = Told
    BY DEF Told

\* The attempt is where the journal and the files are.
LEMMA SameAttempt == UNCHANGED <<journal, installed>> => Attempt' = Attempt
    BY DEF Attempt

\* The import begins pending, unlisted and without an attempt.
LEMMA OutcomeBegins == Init => Outcome!Init
    BY DEF Init, Outcome!Init, Told, Attempt

\* Polls are not seen, but for a stale job whose journal was found.
LEMMA PollSeen ==
    ASSUME JobInv, NEW w \in Workers, Poll(w)
    PROVE  Seen
<1> USE JobAssumption DEF JobInv, TypeOK, shared
<1>1. CASE ScanJournals(w) \/ GetQueuedJobs(w) \/ ReadJob(w) \/ ClaimLost(w)
    BY <1>1, SameTold, SameAttempt
       DEF Seen, ScanJournals, GetQueuedJobs, ReadJob, ClaimLost
<1>2. CASE ClaimJob(w)
  <2>1. PICK owner \in Owners :
          job' = [job EXCEPT !.status = "processing", !.owner = owner, !.live = TRUE]
      BY <1>2 DEF ClaimJob, Fresh
  <2>2. Told = "pending" /\ Told' = "pending"
      BY <1>2, <2>1 DEF ClaimJob, Told, Job
  <2> QED
      BY <1>2, <2>2, SameAttempt DEF ClaimJob, Seen
<1>3. CASE RequeueOrphaned(w)
  <2>1. UNCHANGED <<rows, Attempt>>
      BY <1>3, SameAttempt DEF RequeueOrphaned
  <2>2. CASE ~Stale
      BY <1>3, <2>1, <2>2, SameTold DEF RequeueOrphaned, Seen
  <2>3. CASE Stale /\ job' = Released("error", "reconcile")
    <3>1. Told = "pending" /\ Told' = "reconcile"
        BY <2>3 DEF Stale, Told, Released, Job
    <3> QED
        BY <2>1, <3>1 DEF Seen, Outcome!Next, Outcome!Fail
  <2>4. CASE Stale /\ job' = Released("queued", job.reason)
    <3>1. Told = "pending" /\ Told' = "pending"
        BY <2>4 DEF Stale, Told, Released, Job
    <3> QED
        BY <2>1, <3>1 DEF Seen
  <2> QED
      BY <1>3, <2>2, <2>3, <2>4 DEF RequeueOrphaned
<1> QED
    BY <1>1, <1>2, <1>3 DEF Poll

\* A worker that fails tells the user so, or leaves the job pending.
LEMMA FailSeen ==
    ASSUME JobInv, NEW w \in Workers, wpc[w] \in Active,
           NEW reason \in {"failed", "review", "reconcile"}, Fail(w, reason)
    PROVE  Seen
<1>1. job' = Caught(w, reason) /\ UNCHANGED <<rows, Attempt>>
    BY SameAttempt DEF Fail
<1>2. CASE job' = job
    BY <1>1, <1>2, SameTold DEF Seen
<1>3. CASE job.status = "processing" /\ job'.status = "queued"
  <2>1. Told = "pending" /\ Told' = "pending"
      BY <1>3 DEF Told
  <2> QED
      BY <1>1, <2>1 DEF Seen
<1>4. CASE job.status = "processing" /\ job'.status = "error" /\ job'.reason = reason
  <2>1. Told = "pending" /\ Told' = reason
      BY <1>4 DEF Told
  <2> QED
      BY <1>1, <2>1 DEF Seen, Outcome!Next, Outcome!Fail
<1> QED
    BY <1>1, <1>2, <1>3, <1>4, CaughtTells

\* A journal whose job can be committed has a pending import, one that waits
\* for the operator, or one that is listed.
LEMMA CommittableTells ==
    ASSUME JobInv, NEW owner, Committable(owner)
    PROVE  IF job.status = "done" THEN Told = "listed" /\ rows
                                  ELSE Told \in {"pending", "reconcile"}
    BY DEF Committable, Told, JobInv, DoneWithSong

\* The commit tells the user and the catalog at once.
LEMMA CommitLists == JobInv /\ CommitRows => Told' = "listed" /\ rows'
    BY DEF CommitRows, Released, Told, JobInv, TypeOK, Job

\* The steps of a publication are those of its attempt.
LEMMA ProcessSeen ==
    ASSUME JobInv, AttemptInv, NEW w \in Workers, Process(w)
    PROVE  Seen
<1> USE DEF shared
<1>1. CASE WorkFails(w) \/ LockFails(w) \/ FenceFails(w) \/ CommitFails(w) \/ PublicationFails(w)
  <2>1. PICK reason \in {"failed", "review", "reconcile"} : wpc[w] \in Active /\ Fail(w, reason)
      BY <1>1 DEF WorkFails, LockFails, FenceFails, CommitFails, PublicationFails, Active
  <2> QED
      BY <2>1, FailSeen
<1>2. CASE WorkDone(w) \/ LockBase(w) \/ Fence(w)
    BY <1>2, SameTold, SameAttempt DEF Seen, WorkDone, LockBase, Fence
<1>3. CASE WriteIntent(w)
  <2>1. /\ wpc[w] = "intent" /\ journal = None /\ journal' # None /\ ~installed'
        /\ ~rows /\ job.reason # "cancelled" /\ UNCHANGED <<job, rows>>
      BY <1>3 DEF WriteIntent, AttemptInv, Active
  <2>2. Attempt = "none" /\ Attempt' = "begun" /\ Told' = Told
      BY <2>1, SameTold DEF Attempt
  <2>3. Told \notin {"listed", "cancelled"}
      BY <2>1 DEF Told, JobInv, DoneWithSong, TypeOK, Job, Reasons
  <2> QED
      BY <2>1, <2>2, <2>3 DEF Seen, Outcome!Next, Outcome!Begin
<1>4. CASE Swap(w)
  <2>1. Attempt = "begun" /\ Attempt' = "installed" /\ UNCHANGED <<Told, rows>>
      BY <1>4, SameTold DEF Swap, AttemptInv, Attempt
  <2> QED
      BY <2>1 DEF Seen, Outcome!Next, Outcome!Install
<1>5. CASE Commit(w)
  <2>1. Attempt = "installed" /\ Attempt' = "installed"
      BY <1>5 DEF Commit, AttemptInv, Attempt
  <2>2. Told' = "listed" /\ rows' = TRUE
      BY <1>5, CommitLists DEF Commit, CommitRows
  <2>3. rows \in BOOLEAN /\ \/ Told = "listed" /\ rows
                            \/ Told \in {"pending", "reconcile"}
      BY <1>5, CommittableTells DEF Commit, JobInv, TypeOK
  <2> QED
      BY <2>1, <2>2, <2>3 DEF Seen, Outcome!Next, Outcome!Publish, Outcome!List
<1>6. CASE CloseJournal(w)
  <2>1. Attempt = "installed" /\ Attempt' = "none" /\ UNCHANGED <<Told, rows>>
      BY <1>6, SameTold DEF CloseJournal, AttemptInv, Attempt
  <2>2. Told = "listed"
      BY <1>6 DEF CloseJournal, AttemptInv, Told, JobInv, DoneWithSong
  <2> QED
      BY <2>1, <2>2 DEF Seen, Outcome!Next, Outcome!Close
<1> QED
    BY <1>1, <1>2, <1>3, <1>4, <1>5, <1>6 DEF Process

\* Stops are not seen.
LEMMA StopsUnseen ==
    ASSUME JobInv, NEW w \in Workers,
           Abort(w) \/ GraceExpires(w) \/ Drained(w) \/ Crash(w) \/ Restart(w)
    PROVE  Seen
<1>1. CASE Abort(w) \/ Drained(w) \/ Crash(w) \/ Restart(w)
    BY <1>1, SameTold, SameAttempt DEF Seen, Abort, Drained, Crash, Restart, Exit, shared
<1>2. CASE GraceExpires(w)
  <2>1. Told = "pending" /\ Told' = "pending"
      BY <1>2 DEF GraceExpires, Owns, Released, Told, JobInv, TypeOK, Job
  <2> QED
      BY <1>2, <2>1, SameAttempt DEF GraceExpires, Seen
<1> QED
    BY <1>1, <1>2

\* Each route and each reconciliation is one step of the import.
LEMMA RoutesSeen ==
    ASSUME JobInv,
           Expire \/ RetryJob \/ DeleteJob \/ CancelJob \/ DeleteSong \/ RollBack
             \/ RollForward
    PROVE  Seen
<1> USE DEF JobInv, TypeOK
<1>1. CASE Expire
  <2>1. job'.status = job.status /\ job'.reason = job.reason
      BY <1>1 DEF Expire, Job
  <2> QED
      BY <1>1, <2>1, SameTold, SameAttempt DEF Expire, Seen
<1>2. CASE RetryJob
  <2>1. Told = "failed" /\ Told' = "pending"
      BY <1>2 DEF RetryJob, Released, Told, Job
  <2> QED
      BY <1>2, <2>1, SameAttempt DEF RetryJob, Seen, Outcome!Next, Outcome!Retry
<1>3. CASE DeleteJob
  <2>1. Told = "pending" /\ Told' = "gone"
      BY <1>3 DEF DeleteJob, Gone, Released, Told, Job
  <2> QED
      BY <1>3, <2>1, SameAttempt DEF DeleteJob, Seen, Outcome!Next, Outcome!Delete
<1>4. CASE CancelJob
  <2>1. Told = "pending" /\ Told' = "cancelled"
      BY <1>4 DEF CancelJob, Released, Told, Job
  <2>2. Attempt = "none"
      BY <1>4 DEF CancelJob, Attempt
  <2> QED
      BY <1>4, <2>1, <2>2, SameAttempt DEF CancelJob, Seen, Outcome!Next, Outcome!Cancel
<1>5. CASE DeleteSong
  <2>1. Told' = "gone"
      BY <1>5 DEF DeleteSong, DoneWithSong, Gone, Released, Told, Job
  <2>2. Attempt = "none"
      BY <1>5 DEF DeleteSong, Attempt
  <2> QED
      BY <1>5, <2>1, <2>2, SameAttempt DEF DeleteSong, Seen, Outcome!Next, Outcome!Remove
<1>6. CASE RollBack
  <2>1. Attempt = "begun" /\ Attempt' = "none" /\ UNCHANGED <<Told, rows>>
      BY <1>6, SameTold DEF RollBack, Attempt
  <2> QED
      BY <2>1 DEF Seen, Outcome!Next, Outcome!Undo
<1>7. CASE RollForward
  <2>1. Attempt = "installed" /\ Attempt' = "none"
      BY <1>7 DEF RollForward, Attempt
  <2>2. Told' = "listed" /\ rows' = TRUE
      BY <1>7, CommitLists DEF RollForward, CommitRows
  <2>3. rows \in BOOLEAN /\ \/ Told = "listed" /\ rows
                            \/ Told \in {"pending", "reconcile"}
      BY <1>7, CommittableTells DEF RollForward
  <2> QED
      BY <2>1, <2>2, <2>3
         DEF Seen, Outcome!Next, Outcome!Replay, Outcome!List, Outcome!Close
<1> QED
    BY <1>1, <1>2, <1>3, <1>4, <1>5, <1>6, <1>7

\* Every step of workers, routes and operator is one step of the import or none.
LEMMA OutcomeStep == JobInv /\ AttemptInv /\ [Next]_vars => [Outcome!Next]_(Outcome!vars)
<1> SUFFICES ASSUME JobInv, AttemptInv, [Next]_vars PROVE Seen
    BY DEF Seen, Outcome!vars
<1>1. CASE UNCHANGED vars
    BY <1>1, SameTold, SameAttempt DEF vars, shared, Seen
<1>2. ASSUME NEW w \in Workers, Poll(w) PROVE Seen
    BY <1>2, PollSeen
<1>3. ASSUME NEW w \in Workers, Process(w) PROVE Seen
    BY <1>3, ProcessSeen
<1>4. ASSUME NEW w \in Workers,
             Abort(w) \/ GraceExpires(w) \/ Drained(w) \/ Crash(w) \/ Restart(w)
      PROVE  Seen
    BY <1>4, StopsUnseen
<1>5. CASE Expire \/ RetryJob \/ DeleteJob \/ CancelJob \/ DeleteSong \/ RollBack \/ RollForward
    BY <1>5, RoutesSeen
<1> QED
    BY <1>1, <1>2, <1>3, <1>4, <1>5 DEF Next

\* The claims, leases, stops and reconciliations of ImportJob implement an
\* import with one outcome at a time: it is listed only by an attempt begun
\* while it was neither cancelled nor listed, a cancellation comes before any
\* attempt, and only a plain failure is ever taken back.
THEOREM OutcomeImplemented == Spec => OutcomeSpec
    BY JobInvariant, AttemptBegins, AttemptKeeps, OutcomeBegins, OutcomeStep, PTL
       DEF Spec, OutcomeSpec, Outcome!Spec

-----------------------------------------------------------------------------
(* When an installed journal can be committed *)

\* No lease runs out under a worker that still holds it: the heartbeat of a
\* live worker always reaches the row.
LeaseKept == Expire => Abandoned

\* A poll that parks or requeues a stale job has seen its journal, if the job
\* left one: the journals are not read too early.  MCStaleOwner shows what
\* becomes of a journal otherwise.
ScanCurrent ==
    \A w \in Workers :
        RequeueOrphaned(w) /\ journal = job.owner => seen[w] = journal

\* No two workers have one owner id, and only a publication in progress has
\* that of the journal; its worker owns the job until the commit, and the job
\* of any journal is claimed under its id, waits for the operator or is done.
OwnerInv ==
    /\ \A w, v \in Workers : w # v /\ claim[w] # None => claim[w] # claim[v]
    /\ \A w \in Workers : wpc[w] \in {"intent", "swap", "commit"} => Owns(w)
    /\ \A w \in Workers :
          /\ wpc[w] \in {"intent", "swap", "commit", "close"} => fenced[w]
          /\ claim[w] # None /\ claim[w] = journal =>
                wpc[w] \in {"swap", "commit", "close"}
    /\ journal # None => Committable(journal)

\* The row after a poll that found a stale job.
LEMMA RequeueKeepsOwner ==
    ASSUME JobInv, OwnerInv, NEW w \in Workers, RequeueOrphaned(w), ScanCurrent
    PROVE  OwnerInv'
<1> USE DEF JobInv, TypeOK, Goto
<1>1. CASE ~Stale
    BY <1>1 DEF RequeueOrphaned, OwnerInv, Owns, Committable
<1>2. CASE Stale
  <2>1. \A v \in Workers : ~Owns(v)
      BY <1>2 DEF Stale, Owns
  <2>2. journal # None => Committable(journal)'
    <3> SUFFICES ASSUME journal # None, job.status = "processing", job.owner = journal
                 PROVE  Committable(journal)'
        BY <1>2 DEF OwnerInv, Committable, Stale
    <3>1. job' = Released("error", "reconcile") /\ journal' = journal
        BY <1>2 DEF ScanCurrent, RequeueOrphaned
    <3> QED
        BY <3>1 DEF Released, Committable, Job
  <2> QED
      BY <2>1, <2>2 DEF RequeueOrphaned, OwnerInv
<1> QED
    BY <1>1, <1>2

\* A queued job has no owner and no journal; its claim is new.
LEMMA ClaimKeepsOwner ==
    ASSUME JobInv, AttemptInv, OwnerInv, NEW w \in Workers, ClaimJob(w)
    PROVE  OwnerInv'
<1>1. PICK owner \in Fresh :
        /\ claim' = [claim EXCEPT ![w] = owner]
        /\ job' = [job EXCEPT !.status = "processing", !.owner = owner, !.live = TRUE]
    BY DEF ClaimJob
<1>2. /\ job.status = "queued" /\ wpc' = [wpc EXCEPT ![w] = "work"]
      /\ UNCHANGED <<journal, fenced>>
    BY DEF ClaimJob, Goto
<1>3. journal = None
    BY <1>2 DEF OwnerInv, Committable
<1>4. \A v \in Workers : ~Owns(v)
    BY <1>2 DEF Owns
<1>5. owner # journal /\ \A v \in Workers : owner # claim[v]
    BY <1>1 DEF Fresh
<1>6. (\A v, u \in Workers : v # u /\ claim[v] # None => claim[v] # claim[u])'
    BY <1>1, <1>5 DEF OwnerInv, JobInv, TypeOK
<1> QED
    BY <1>1, <1>2, <1>3, <1>4, <1>6 DEF OwnerInv, JobInv, TypeOK

\* Every poll, given that the journals were not read too early.
LEMMA PollKeepsOwner ==
    ASSUME JobInv, AttemptInv, OwnerInv, NEW w \in Workers, Poll(w), ScanCurrent
    PROVE  OwnerInv'
<1>1. CASE ScanJournals(w) \/ GetQueuedJobs(w) \/ ReadJob(w)
    BY <1>1 DEF ScanJournals, GetQueuedJobs, ReadJob, Goto, shared, OwnerInv,
       Owns, Committable, JobInv, TypeOK
<1>2. CASE ClaimLost(w)
    BY <1>2 DEF ClaimLost, Rest, Goto, OwnerInv, Owns, Committable, JobInv, TypeOK
<1> QED
    BY <1>1, <1>2, RequeueKeepsOwner, ClaimKeepsOwner DEF Poll

\* A worker that fails beside a pending journal does not own its job, or it is
\* the one that publishes, and leaves the job to the operator.
LEMMA FailKeepsOwner ==
    ASSUME JobInv, AttemptInv, OwnerInv, NEW w \in Workers, wpc[w] \in Active,
           NEW reason \in {"failed", "review", "reconcile"}, Fail(w, reason),
           wpc[w] \in {"swap", "commit", "close"} => reason = "reconcile"
    PROVE  OwnerInv'
<1> USE DEF Fail, Rest, Goto
<1>1. CASE ~Owns(w)
  <2>1. job' = job /\ journal' = journal
      BY <1>1 DEF Caught
  <2> QED
      BY <2>1 DEF OwnerInv, Owns, Committable, JobInv, TypeOK
<1>2. CASE Owns(w)
  <2>1. \A v \in Workers : v # w => ~Owns(v)
      BY <1>2 DEF Owns, OwnerInv
  <2>2. journal # None => Committable(journal)'
    <3> SUFFICES ASSUME journal # None
                 PROVE  Committable(journal)'
        OBVIOUS
    <3>1. claim[w] = journal
        BY <1>2 DEF Owns, OwnerInv, Committable
    <3>2. wpc[w] \in {"swap", "commit", "close"} /\ reason = "reconcile"
        BY <1>2, <3>1 DEF OwnerInv, Owns
    <3>3. job' = [Released("error", "reconcile") EXCEPT !.attempts = tries[w] + 1]
        BY <1>2, <3>2 DEF Caught
    <3> QED
        BY <3>3 DEF Released, Committable, JobInv, TypeOK, Job
  <2> QED
      BY <2>1, <2>2 DEF OwnerInv, JobInv, TypeOK
<1> QED
    BY <1>1, <1>2

\* The fence finds the job owned, the intent names its owner, and the commit
\* ends it.
LEMMA ProcessKeepsOwner ==
    ASSUME JobInv, AttemptInv, OwnerInv, NEW w \in Workers, Process(w)
    PROVE  OwnerInv'
<1> USE DEF Goto, JobInv, TypeOK
<1>1. CASE WorkFails(w) \/ LockFails(w) \/ FenceFails(w) \/ CommitFails(w) \/ PublicationFails(w)
  <2>1. PICK reason \in {"failed", "review", "reconcile"} :
          /\ wpc[w] \in Active /\ Fail(w, reason)
          /\ wpc[w] \in {"swap", "commit", "close"} => reason = "reconcile"
      BY <1>1 DEF WorkFails, LockFails, FenceFails, CommitFails, PublicationFails, Active
  <2> QED
      BY <2>1, FailKeepsOwner
<1>2. CASE WorkDone(w) \/ LockBase(w)
    BY <1>2 DEF WorkDone, LockBase, shared, OwnerInv, Owns, Committable
<1>3. CASE Fence(w)
    BY <1>3 DEF Fence, FencePasses, shared, OwnerInv, Owns, Committable, AttemptInv
<1>4. CASE WriteIntent(w)
    BY <1>4 DEF WriteIntent, OwnerInv, Owns, Committable
<1>5. CASE Swap(w)
    BY <1>5 DEF Swap, OwnerInv, Owns, Committable
<1>6. CASE Commit(w)
  <2>1. \A v \in Workers : wpc'[v] \notin {"intent", "swap", "commit"}
      BY <1>6 DEF Commit, AttemptInv, Holding
  <2>2. job'.status = "done"
      BY <1>6 DEF Commit, CommitRows, Released, Job
  <2> QED
      BY <1>6, <2>1, <2>2 DEF Commit, OwnerInv, Committable
<1>7. CASE CloseJournal(w)
    BY <1>7 DEF CloseJournal, Rest, OwnerInv, Owns, AttemptInv, Holding
<1> QED
    BY <1>1, <1>2, <1>3, <1>4, <1>5, <1>6, <1>7 DEF Process

\* The grace period ends for a job that has no journal.
LEMMA StopsKeepOwner ==
    ASSUME JobInv, AttemptInv, OwnerInv, NEW w \in Workers,
           Abort(w) \/ GraceExpires(w) \/ Drained(w) \/ Crash(w) \/ Restart(w)
    PROVE  OwnerInv'
<1> USE DEF Goto, JobInv, TypeOK, shared
<1>1. CASE Abort(w) \/ Restart(w)
    BY <1>1 DEF Abort, Restart, OwnerInv, Owns, Committable
<1>2. CASE Drained(w) \/ Crash(w)
    BY <1>2 DEF Drained, Crash, Exit, OwnerInv, Owns, Committable
<1>3. CASE GraceExpires(w)
  <2>1. Owns(w) /\ ~fenced[w]
      BY <1>3 DEF GraceExpires
  <2>2. \A v \in Workers : v # w => ~Owns(v)
      BY <2>1 DEF Owns, OwnerInv
  <2>3. journal = None
      BY <2>1 DEF Owns, OwnerInv, Committable
  <2>4. \A v \in Workers : wpc[v] \notin {"intent", "swap", "commit"}
      BY <2>1, <2>2 DEF OwnerInv
  <2> QED
      BY <1>3, <2>3, <2>4 DEF GraceExpires, OwnerInv
<1> QED
    BY <1>1, <1>2, <1>3

\* Routes change a job that has no journal; a reconciliation closes one.
LEMMA RoutesKeepOwner ==
    ASSUME JobInv, AttemptInv, OwnerInv, LeaseKept,
           Expire \/ RetryJob \/ DeleteJob \/ CancelJob \/ DeleteSong \/ RollBack
             \/ RollForward
    PROVE  OwnerInv'
<1> USE DEF RouteFrame, JobInv, TypeOK
<1>1. CASE Expire
    BY <1>1 DEF LeaseKept, Expire, Abandoned, OwnerInv, Owns, Committable, Job
<1>2. CASE RetryJob \/ DeleteJob
  <2>1. journal = None /\ \A v \in Workers : ~Owns(v)
      BY <1>2 DEF RetryJob, DeleteJob, OwnerInv, Owns, Committable
  <2> QED
      BY <1>2, <2>1 DEF RetryJob, DeleteJob, OwnerInv
<1>3. CASE CancelJob \/ DeleteSong \/ RollBack \/ RollForward
  <2>1. journal' = None /\ UNCHANGED <<wpc, claim, fenced>>
      BY <1>3 DEF CancelJob, DeleteSong, RollBack, RollForward
  <2>2. \A v \in Workers : wpc[v] \notin {"intent", "swap", "commit"}
      BY <1>3, JobAssumption
         DEF CancelJob, DeleteSong, RollBack, RollForward, AttemptInv, Holding
  <2> QED
      BY <2>1, <2>2 DEF OwnerInv
<1> QED
    BY <1>1, <1>2, <1>3

\* Every step keeps it.
LEMMA OwnerKeeps ==
    JobInv /\ AttemptInv /\ OwnerInv /\ [Next]_vars /\ [LeaseKept /\ ScanCurrent]_vars
      => OwnerInv'
<1> SUFFICES ASSUME JobInv, AttemptInv, OwnerInv, [Next]_vars,
                    [LeaseKept /\ ScanCurrent]_vars
             PROVE  OwnerInv'
    OBVIOUS
<1>1. CASE UNCHANGED vars
    BY <1>1 DEF vars, shared, OwnerInv, Owns, Committable
<1>2. CASE Next /\ LeaseKept /\ ScanCurrent
  <2>1. ASSUME NEW w \in Workers, Poll(w) PROVE OwnerInv'
      BY <1>2, <2>1, PollKeepsOwner
  <2>2. ASSUME NEW w \in Workers, Process(w) PROVE OwnerInv'
      BY <2>2, ProcessKeepsOwner
  <2>3. ASSUME NEW w \in Workers,
               Abort(w) \/ GraceExpires(w) \/ Drained(w) \/ Crash(w) \/ Restart(w)
        PROVE  OwnerInv'
      BY <2>3, StopsKeepOwner
  <2>4. CASE Expire \/ RetryJob \/ DeleteJob \/ CancelJob \/ DeleteSong \/ RollBack \/ RollForward
      BY <1>2, <2>4, RoutesKeepOwner
  <2> QED
      BY <1>2, <2>1, <2>2, <2>3, <2>4 DEF Next
<1> QED
    BY <1>1, <1>2

\* Where the heartbeat of a live worker keeps its lease and the journals are
\* read in time, the commit of an installed journal always finds its job as
\* the journal left it, waiting for the operator, or done: the promise that
\* a stall or an early reading breaks.
THEOREM JournalsCommittable ==
    Spec /\ [][LeaseKept /\ ScanCurrent]_vars => []JournalCommittable
<1>1. Init => OwnerInv
    BY DEF Init, OwnerInv
<1>2. OwnerInv => JournalCommittable
    BY DEF OwnerInv, JournalCommittable
<1> QED
    BY <1>1, <1>2, JobInvariant, AttemptBegins, AttemptKeeps, OwnerKeeps, PTL DEF Spec
===============================================================================
