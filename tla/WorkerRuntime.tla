--------------------------- MODULE WorkerRuntime ----------------------------
(***************************************************************************)
(* The loop of the transcription worker and its health file:               *)
(* services/transcribe/src/worker-runtime.ts, worker-health.ts and the     *)
(* callbacks worker.ts gives the loop.                                     *)
(*                                                                         *)
(* One thread: the loop gives way at startup, at a queue poll, in the      *)
(* delay between two polls and while a job runs.  There the abort signal,  *)
(* the heartbeat, the grace timer, the progress of a job and the answers   *)
(* awaited may come in any order, or never.  Time is counted in heartbeat  *)
(* periods, up to the number after which a snapshot is stale and one more. *)
(*                                                                         *)
(* A job is what runs; what it does to its row is in module ImportJob.     *)
(***************************************************************************)
EXTENDS Integers

CONSTANT MaxQueued  \* bound on the jobs of one poll

ASSUME RuntimeConstants == MaxQueued \in Nat

VARIABLES
    at,          \* where the loop is
    status,      \* the status it publishes
    aborted,     \* whether the signal has fired
    queued,      \* jobs of the last poll not yet started
    running,     \* whether a job is running
    registered,  \* whether the job has registered its lease fence
    fenced,      \* whether the fence of the running job has been set
    armed,       \* whether the grace timer runs
    failed,      \* whether the last poll failed
    outcome,     \* how the loop returned
    due,         \* whether the heartbeat of this period is still to come
    beat,        \* age of the last heartbeat
    silent,      \* history: periods since the loop last got anywhere
    file         \* the health file

job == <<queued, running, registered, fenced, armed>>
clock == <<due, silent>>
reported == <<status, beat, file>>
runtimeVars == <<at, aborted, failed, outcome, job, clock, reported>>

StaleAfter == 2
Ages == 0 .. StaleAfter + 1
Older(n) == IF n > StaleAfter THEN n ELSE n + 1

Statuses == {"starting", "polling", "idle", "busy", "draining", "unfinished", "stopped",
             "health-error"}
\* A file is kept when neither the new one nor its removal succeeds.
Snapshots == [status : Statuses, age : Ages, active : BOOLEAN, recovery : BOOLEAN,
              kept : BOOLEAN]
Missing == [status |-> "stopped", age |-> StaleAfter + 1, active |-> FALSE,
            recovery |-> FALSE, kept |-> TRUE]

RuntimeTypeOK ==
    /\ at \in {"startup", "head", "poll", "delay", "next", "job", "leave", "returned",
               "killed"}
    /\ status \in Statuses
    /\ {aborted, running, registered, fenced, armed, failed, due} \subseteq BOOLEAN
    /\ queued \in 0 .. MaxQueued
    /\ outcome \in {"none", "stopped", "unfinished", "fence-failed", "startup-failed"}
    /\ beat \in Ages /\ silent \in Ages
    /\ file \in Snapshots

Looping == at \notin {"returned", "killed"}
Abandoned == {"unfinished", "fence-failed"}

\* publish: the file is written, or removed after a failed write, or neither.
\* The job counts as active at step "job" and after a return without it.
Publish(to, s, age, how) ==
    \/ file' = [status |-> s, age |-> age, active |-> to = "job" \/ how \in Abandoned,
                recovery |-> how = "unfinished", kept |-> FALSE]
    \/ file' = Missing
    \/ file' = [file EXCEPT !.kept = TRUE]

RuntimeInit ==
    /\ at = "startup" /\ status = "starting" /\ aborted = FALSE
    /\ queued = 0 /\ running = FALSE /\ registered = FALSE /\ fenced = FALSE
    /\ armed = FALSE /\ failed = FALSE /\ outcome = "none" /\ due = FALSE
    /\ beat = 0 /\ silent = 0
    /\ file = Missing

\* The loop goes to step `to` under status s, with a fresh heartbeat ...
Moves(to, s) == at' = to /\ status' = s /\ beat' = 0 /\ Publish(to, s, 0, outcome)
\* ... and returns.
Returns(s, how) ==
    /\ at' = "returned" /\ status' = s /\ outcome' = how
    /\ beat' = 0 /\ Publish("returned", s, 0, how)

-----------------------------------------------------------------------------
StartupDone ==
    /\ at = "startup" /\ at' = "head"
    /\ silent' = 0
    /\ UNCHANGED <<reported, aborted, job, failed, outcome, due>>

StartupFails ==
    /\ at = "startup"
    /\ Returns("stopped", "startup-failed")
    /\ UNCHANGED <<aborted, job, failed, clock>>

\* The head of the loop.
LoopHead ==
    /\ at = "head"
    /\ IF aborted
       THEN at' = "leave" /\ UNCHANGED reported
       ELSE Moves("poll", IF failed THEN "health-error" ELSE "polling")
    /\ UNCHANGED <<aborted, job, failed, outcome, clock>>

PollAnswers ==
    /\ at = "poll"
    /\ queued' \in 0 .. MaxQueued
    /\ failed' = FALSE /\ silent' = 0
    /\ Moves("next", "idle")
    /\ UNCHANGED <<aborted, running, registered, fenced, armed, outcome, due>>

PollRejects ==
    /\ at = "poll"
    /\ failed' = TRUE /\ queued' = 0
    /\ at' = "delay" /\ status' = "health-error" /\ UNCHANGED beat
    /\ Publish(at', status', beat, outcome)
    /\ UNCHANGED <<aborted, running, registered, fenced, armed, outcome, clock>>

DelayEnds ==
    /\ at = "delay" /\ at' = "head"
    /\ UNCHANGED <<reported, aborted, job, failed, outcome, clock>>

\* The signal is looked at before every job.
Stops == aborted \/ queued = 0

NextJob ==
    /\ at = "next"
    /\ IF Stops
       THEN /\ at' = IF aborted THEN "leave" ELSE "delay"
            /\ UNCHANGED <<status, queued, running, registered, fenced, beat, file>>
       ELSE /\ queued' = queued - 1 /\ running' = TRUE
            /\ registered' = FALSE /\ fenced' = FALSE
            /\ Moves("job", "busy")
    /\ UNCHANGED <<aborted, armed, failed, outcome, clock>>

\* The job registers the fence of its lease (worker.ts:229).
RegisterFence ==
    /\ running /\ ~registered /\ Looping
    /\ registered' = TRUE
    /\ UNCHANGED <<at, reported, aborted, queued, running, fenced, armed, failed, outcome,
                   clock>>

\* A job reports its stage, also after the loop has returned without it.
Progress ==
    /\ running /\ at # "killed"
    /\ Publish(at, status, beat, outcome)
    /\ UNCHANGED <<at, status, aborted, job, failed, outcome, beat, clock>>

\* A job ends, well or not; nobody listens once the loop has returned.
JobSettles ==
    /\ running /\ at # "killed"
    /\ running' = FALSE
    /\ IF at = "job"
       THEN /\ armed' = FALSE /\ registered' = FALSE /\ fenced' = FALSE
            /\ Moves("next", IF aborted THEN "draining" ELSE "idle")
       ELSE UNCHANGED <<at, reported, armed, registered, fenced>>
    /\ UNCHANGED <<aborted, queued, failed, outcome, clock>>

-----------------------------------------------------------------------------
\* The abort wakes the delay and cancels the poll; a startup is waited for.
Cancelled == IF at \in {"delay", "poll"} THEN "leave" ELSE at

\* onAbort.
Abort ==
    /\ ~aborted /\ Looping
    /\ aborted' = TRUE
    /\ armed' = (at = "job")
    /\ Moves(Cancelled, "draining")
    /\ UNCHANGED <<queued, running, registered, fenced, failed, outcome, clock>>

\* Mutant: recovery is announced whether or not the lease was released.
Fenced_Assumed == {TRUE}
\* The fence can be missing, and it can throw.
FenceResults == {FALSE, registered}

\* The grace timer: the fence, the snapshot and the return without the job.
GraceExpires ==
    /\ armed /\ at = "job"
    /\ \E ok \in FenceResults :
         /\ fenced' = (ok /\ registered)
         /\ IF ok THEN Returns("unfinished", "unfinished")
                  ELSE Returns("health-error", "fence-failed")
    /\ armed' = FALSE
    /\ UNCHANGED <<aborted, queued, running, registered, failed, clock>>

Leave ==
    /\ at = "leave"
    /\ Returns("stopped", "stopped")
    /\ UNCHANGED <<aborted, job, failed, clock>>

\* A heartbeat does not vouch for a poll or a startup.
Beats == at # "poll" /\ status # "starting"

Period ==
    /\ ~due \/ ~Looping
    /\ due' = Looping
    /\ silent' = IF Looping /\ at \notin {"startup", "poll"} /\ ~failed
                 THEN 0 ELSE Older(silent)
    /\ beat' = Older(beat) /\ file' = [file EXCEPT !.age = Older(@)]
    /\ UNCHANGED <<at, status, aborted, job, failed, outcome>>

Heartbeat ==
    /\ due /\ Looping
    /\ due' = FALSE
    /\ beat' = IF Beats THEN 0 ELSE beat
    /\ Publish(at, status, beat', outcome)
    /\ UNCHANGED <<at, status, aborted, job, failed, outcome, silent>>

\* SIGKILL, a crash or a power cut.
Kill ==
    /\ at # "killed" /\ (Looping \/ running)
    /\ at' = "killed" /\ running' = FALSE
    /\ UNCHANGED <<reported, aborted, queued, registered, fenced, armed, failed, outcome,
                   clock>>

RuntimeNext ==
    \/ StartupDone \/ StartupFails \/ LoopHead \/ PollAnswers \/ PollRejects \/ DelayEnds
    \/ NextJob \/ RegisterFence \/ Progress \/ JobSettles
    \/ Abort \/ GraceExpires \/ Leave \/ Period \/ Heartbeat \/ Kill

\* Timers fire and the loop runs on.  Nothing is assumed of polls and jobs;
\* a startup does end, because the loop waits for it (its command has a
\* limit of ten seconds and ends with the signal).
RuntimeFairness ==
    /\ WF_runtimeVars(StartupDone) /\ WF_runtimeVars(LoopHead) /\ WF_runtimeVars(NextJob)
    /\ WF_runtimeVars(Leave) /\ WF_runtimeVars(GraceExpires)

-----------------------------------------------------------------------------
\* What worker-health-check.ts says of the file.
Healthy ==
    file.age <= StaleAfter /\ file.status \in {"starting", "polling", "idle", "busy"}

\* Recovery is announced only after a successful fence (docs/ops.md:1091); a
\* worker that says it has stopped has no job left; and while a job runs the
\* file never says otherwise, unless it could not be touched.
SnapshotTruthful ==
    /\ file.recovery => fenced
    /\ ~file.kept /\ at # "killed" => (running => file.active /\ file.status # "stopped")

\* A healthy probe means that within the period of staleness the loop lived,
\* left its startup, and had a poll answered or work to do (docs/ops.md:1081,
\* "an unresolved poll stops refreshing its heartbeat, and a rejected poll
\* stays unhealthy until a successful retry").
HealthyMeansProgress ==
    Healthy => silent <= StaleAfter /\ (failed => file.kept)

\* A signalled worker returns within its grace, whether or not the queue
\* answers and the job ends; so no job may start once the signal has fired,
\* wherever it found the loop ("SIGTERM stops admission", docs/ops.md:1087),
\* because no grace timer would run for it.
ShutdownEnds == aborted ~> ~Looping
=============================================================================
