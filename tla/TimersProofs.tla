---------------------------- MODULE TimersProofs ----------------------------
(***************************************************************************)
(* The safety of the loop of the worker and of the engraving worker, for   *)
(* any number of jobs in a poll, of scores, pages, requests and workers.   *)
(***************************************************************************)
EXTENDS MCTimers, SequenceTheorems, TLAPS

(***************************************************************************)
(* WorkerRuntime.  The file is judged by its age, so what is inductive is  *)
(* that the loop has not been silent for longer than the file is old: when *)
(* a status that the probe accepts is published, the loop has just got     *)
(* somewhere, and heartbeat and silence age together.                      *)
(***************************************************************************)
Accepted == {"starting", "polling", "idle", "busy"}

\* Where a job may be running, and under which status.
RunningFits ==
    /\ running => at = "job" \/ (at = "returned" /\ outcome \in Abandoned)
    /\ at = "job" => status \in {"busy", "draining"}
    /\ Looping => outcome = "none"
    /\ outcome = "unfinished" => fenced
    /\ at = "returned" => status \notin Accepted
    /\ at = "returned" /\ outcome \in Abandoned => status # "stopped"

\* An accepted status is the one of a loop that works.
StatusFits ==
    /\ status \in Accepted => ~failed /\ ~aborted /\ silent <= beat
    /\ at = "startup" => status \in {"starting", "draining"}
    /\ at = "poll" => ~aborted
    /\ at \in {"next", "job"} => ~failed
    /\ Looping /\ ~failed /\ ~aborted /\ at \notin {"startup", "poll"} => silent = 0

\* The file was written under such a status, and both have aged since.
FileFits ==
    /\ file.status \in Accepted /\ file.age <= StaleAfter => silent <= file.age
    /\ file.status \in Accepted /\ ~file.kept => ~failed
    /\ file.recovery => outcome = "unfinished"
    /\ ~file.kept /\ at # "killed" => (running => file.active /\ file.status # "stopped")

RuntimeInv == RuntimeTypeOK /\ RunningFits /\ StatusFits /\ FileFits

LEMMA RuntimeBegins == RuntimeInit => RuntimeInv
<1> SUFFICES ASSUME RuntimeInit PROVE RuntimeInv
    OBVIOUS
<1>1. RuntimeTypeOK
  <2>1. {aborted, running, registered, fenced, armed, failed, due} \subseteq BOOLEAN
      BY DEF RuntimeInit
  <2>2. queued \in 0 .. MaxQueued
      BY RuntimeConstants DEF RuntimeInit
  <2>3. beat \in Ages /\ silent \in Ages /\ file \in Snapshots
      BY DEF RuntimeInit, Ages, StaleAfter, Missing, Snapshots, Statuses
  <2> QED
      BY <2>1, <2>2, <2>3 DEF RuntimeInit, RuntimeTypeOK, Statuses
<1>2. RunningFits /\ StatusFits /\ FileFits
    BY DEF RuntimeInit, RunningFits, StatusFits, FileFits, Missing,
           Accepted, StaleAfter, Looping, Abandoned
<1> QED
    BY <1>1, <1>2 DEF RuntimeInv

\* A step writes the file as it leaves status, heartbeat and outcome, or not at
\* all, or lets the file age.
Written ==
    \/ /\ file'.status = status' /\ file'.age = beat' /\ file'.kept = FALSE
       /\ file'.active <=> at' = "job" \/ outcome' \in Abandoned
       /\ file'.recovery <=> outcome' = "unfinished"
    \/ file'.status = "stopped" /\ file'.kept = TRUE /\ file'.recovery = FALSE
    \/ /\ file'.status = file.status /\ file'.age = file.age
       /\ file'.recovery = file.recovery /\ file'.kept = TRUE

LEMMA Publishes ==
    ASSUME RuntimeTypeOK, status' \in Statuses, beat' \in Ages,
           Publish(at', status', beat', outcome')
    PROVE  file' \in Snapshots /\ Written
<1> DEFINE written == [status |-> status', age |-> beat',
                       active |-> at' = "job" \/ outcome' \in Abandoned,
                       recovery |-> outcome' = "unfinished", kept |-> FALSE]
<1>1. CASE file' = written
  <2>1. (at' = "job" \/ outcome' \in Abandoned) \in BOOLEAN /\ (outcome' = "unfinished") \in BOOLEAN
      OBVIOUS
  <2>2. file' \in Snapshots
      BY <1>1, <2>1 DEF Snapshots
  <2>3. /\ written.active <=> at' = "job" \/ outcome' \in Abandoned
        /\ written.recovery <=> outcome' = "unfinished"
        /\ written.status = status' /\ written.age = beat' /\ written.kept = FALSE
      OBVIOUS
  <2> HIDE DEF written
  <2> QED
      BY <1>1, <2>2, <2>3 DEF Written
<1>2. CASE file' = Missing
    BY <1>2 DEF Missing, Snapshots, Statuses, Ages, StaleAfter, Written
<1>3. CASE file' = [file EXCEPT !.kept = TRUE]
    BY <1>3 DEF Snapshots, RuntimeTypeOK, Written
<1> QED
    BY <1>1, <1>2, <1>3 DEF Publish

LEMMA Writes ==
    ASSUME RuntimeNext, ~Period
    PROVE  \/ Publish(at', status', beat', outcome')
           \/ /\ file' = file /\ (running' => running) /\ (failed' => failed)
              /\ silent' \in {silent, 0} /\ outcome' = outcome /\ at # "killed"
<1> USE DEF reported, job, clock, Looping
<1>1. CASE StartupDone
    BY <1>1 DEF StartupDone
<1>2. CASE StartupFails
    BY <1>2 DEF StartupFails, Returns
<1>3. CASE LoopHead
    BY <1>3 DEF LoopHead, Moves
<1>4. CASE PollAnswers
    BY <1>4 DEF PollAnswers, Moves
<1>5. CASE PollRejects
    BY <1>5 DEF PollRejects
<1>6. CASE DelayEnds
    BY <1>6 DEF DelayEnds
<1>7. CASE NextJob
    BY <1>7 DEF NextJob, Moves
<1>8. CASE RegisterFence
    BY <1>8 DEF RegisterFence
<1>9. CASE Progress
    BY <1>9 DEF Progress
<1>10. CASE JobSettles
    BY <1>10 DEF JobSettles, Moves
<1>11. CASE Abort
    BY <1>11 DEF Abort, Moves
<1>12. CASE GraceExpires
    BY <1>12 DEF GraceExpires, Returns
<1>13. CASE Leave
    BY <1>13 DEF Leave, Returns
<1>14. CASE Heartbeat
    BY <1>14 DEF Heartbeat
<1>15. CASE Kill
    BY <1>15 DEF Kill
<1> QED
    BY <1>1, <1>2, <1>3, <1>4, <1>5, <1>6, <1>7, <1>8, <1>9, <1>10, <1>11, <1>12,
       <1>13, <1>14, <1>15 DEF RuntimeNext

LEMMA RuntimeTyped ==
    ASSUME RuntimeTypeOK, RuntimeNext
    PROVE  RuntimeTypeOK'
<1>1. /\ beat' \in Ages /\ silent' \in Ages
      /\ queued' \in 0 .. MaxQueued
      /\ at' \in {"startup", "head", "poll", "delay", "next", "job", "leave", "returned",
                  "killed"}
      /\ status' \in Statuses
      /\ outcome' \in {"none", "stopped", "unfinished", "fence-failed", "startup-failed"}
    BY RuntimeConstants
    DEF RuntimeTypeOK, RuntimeNext, StartupDone, StartupFails, LoopHead, PollAnswers,
        PollRejects, DelayEnds, NextJob, RegisterFence, Progress, JobSettles, Abort,
        GraceExpires, Leave, Period, Heartbeat, Kill, Moves, Returns, reported, job, clock,
        Ages, StaleAfter, Older, Statuses, Cancelled, Stops
<1>2. file' \in Snapshots
  <2>1. CASE Period
      BY <2>1 DEF Period, RuntimeTypeOK, Snapshots, Ages, StaleAfter, Older
  <2>2. CASE ~Period
      BY <1>1, <2>2, Writes, Publishes DEF RuntimeTypeOK
  <2> QED
      BY <2>1, <2>2
<1>3. /\ aborted' \in BOOLEAN /\ running' \in BOOLEAN /\ registered' \in BOOLEAN
      /\ failed' \in BOOLEAN /\ due' \in BOOLEAN
    BY DEF RuntimeTypeOK, RuntimeNext, StartupDone, StartupFails, LoopHead, PollAnswers,
        PollRejects, DelayEnds, NextJob, RegisterFence, Progress, JobSettles, Abort,
        GraceExpires, Leave, Period, Heartbeat, Kill, job, clock, Looping
<1>4. armed' \in BOOLEAN /\ fenced' \in BOOLEAN
    BY DEF RuntimeTypeOK, RuntimeNext, StartupDone, StartupFails, LoopHead, PollAnswers,
        PollRejects, DelayEnds, NextJob, RegisterFence, Progress, JobSettles, Abort,
        GraceExpires, Leave, Period, Heartbeat, Kill, job, clock
<1> QED
    BY <1>1, <1>2, <1>3, <1>4 DEF RuntimeTypeOK

LEMMA RunningKept ==
    ASSUME RuntimeTypeOK, RunningFits, RuntimeNext PROVE RunningFits'
<1> USE DEF RunningFits, Accepted, Abandoned, Looping, reported, job, clock
<1>1. CASE StartupDone
    BY <1>1 DEF StartupDone
<1>2. CASE StartupFails
    BY <1>2 DEF StartupFails, Returns
<1>3. CASE LoopHead
    BY <1>3 DEF LoopHead, Moves
<1>4. CASE PollAnswers
    BY <1>4 DEF PollAnswers, Moves
<1>5. CASE PollRejects
    BY <1>5 DEF PollRejects
<1>6. CASE DelayEnds
    BY <1>6 DEF DelayEnds
<1>7. CASE NextJob
    BY <1>7 DEF NextJob, Moves
<1>8. CASE RegisterFence
    BY <1>8 DEF RegisterFence
<1>9. CASE Progress
    BY <1>9 DEF Progress
<1>10. CASE JobSettles
    BY <1>10 DEF JobSettles, Moves
<1>11. CASE Abort
    BY <1>11 DEF Abort, Moves, Cancelled
<1>12. CASE GraceExpires
  <2>1. PICK ok \in FenceResults :
          /\ fenced' = (ok /\ registered)
          /\ IF ok THEN Returns("unfinished", "unfinished")
                   ELSE Returns("health-error", "fence-failed")
      BY <1>12 DEF GraceExpires
  <2>2. CASE ok = FALSE
      BY <1>12, <2>1, <2>2 DEF GraceExpires, Returns
  <2>3. CASE ok = registered /\ registered = TRUE
    <3>1. fenced' = TRUE
        BY <2>1, <2>3
    <3>2. Returns("unfinished", "unfinished")
        BY <2>1, <2>3
    <3> QED
        BY <3>1, <3>2 DEF Returns
  <2>4. registered \in BOOLEAN
      BY DEF RuntimeTypeOK
  <2> QED
      BY <2>2, <2>3, <2>4 DEF FenceResults
<1>13. CASE Leave
    BY <1>13 DEF Leave, Returns
<1>14. CASE Heartbeat
    BY <1>14 DEF Heartbeat
<1>15. CASE Kill
    BY <1>15 DEF Kill
<1>16. CASE Period
    BY <1>16 DEF Period
<1> QED
    BY <1>1, <1>2, <1>3, <1>4, <1>5, <1>6, <1>7, <1>8, <1>9, <1>10, <1>11, <1>12,
       <1>13, <1>14, <1>15, <1>16 DEF RuntimeNext

LEMMA StatusKept ==
    ASSUME RuntimeTypeOK, RunningFits, StatusFits, RuntimeNext PROVE StatusFits'
<1>0. beat \in 0 .. 3 /\ silent \in 0 .. 3
    BY DEF RuntimeTypeOK, Ages, StaleAfter
<1> USE DEF StatusFits, RunningFits, Accepted, Abandoned, Looping, reported, job, clock
<1>1. CASE StartupDone
    BY <1>0, <1>1 DEF StartupDone
<1>2. CASE StartupFails
    BY <1>2 DEF StartupFails, Returns
<1>3. CASE LoopHead
    BY <1>3 DEF LoopHead, Moves
<1>4. CASE PollAnswers
    BY <1>4 DEF PollAnswers, Moves
<1>5. CASE PollRejects
    BY <1>5 DEF PollRejects
<1>6. CASE DelayEnds
    BY <1>6 DEF DelayEnds
<1>7. CASE NextJob
    BY <1>7 DEF NextJob, Moves, Stops
<1>8. CASE RegisterFence
    BY <1>8 DEF RegisterFence
<1>9. CASE Progress
    BY <1>9 DEF Progress
<1>10. CASE JobSettles
    BY <1>10 DEF JobSettles, Moves
<1>11. CASE Abort
    BY <1>11 DEF Abort, Moves, Cancelled
<1>12. CASE GraceExpires
    BY <1>12 DEF GraceExpires, Returns
<1>13. CASE Leave
    BY <1>13 DEF Leave, Returns
<1>14. CASE Heartbeat
    BY <1>14, <1>0 DEF Heartbeat, Beats
<1>15. CASE Kill
    BY <1>15 DEF Kill
<1>16. CASE Period
    BY <1>0, <1>16 DEF Period, Older, StaleAfter
<1> QED
    BY <1>1, <1>2, <1>3, <1>4, <1>5, <1>6, <1>7, <1>8, <1>9, <1>10, <1>11, <1>12,
       <1>13, <1>14, <1>15, <1>16 DEF RuntimeNext

LEMMA FileKept ==
    ASSUME RuntimeInv, RuntimeNext, RunningFits', StatusFits', RuntimeTypeOK'
    PROVE  FileFits'
<1>0. /\ beat \in 0 .. 3 /\ silent \in 0 .. 3 /\ file.age \in 0 .. 3
      /\ beat' \in 0 .. 3 /\ silent' \in 0 .. 3
    BY DEF RuntimeInv, RuntimeTypeOK, Ages, StaleAfter, Snapshots
<1>1. CASE Period
  <2>1. /\ file'.status = file.status /\ file'.age = Older(file.age)
        /\ file'.recovery = file.recovery /\ file'.kept = file.kept
        /\ file'.active = file.active
      BY <1>1 DEF Period, RuntimeInv, RuntimeTypeOK, Snapshots
  <2>2. /\ silent' \in {0, Older(silent)} /\ failed' = failed /\ running' = running
        /\ at' = at /\ outcome' = outcome
      BY <1>1 DEF Period, job
  <2> QED
      BY <1>0, <2>1, <2>2 DEF RuntimeInv, FileFits, Older, StaleAfter
<1>2. CASE ~Period /\ Publish(at', status', beat', outcome')
  <2>1. Written
      BY <1>2, Publishes DEF RuntimeTypeOK, RuntimeInv
  <2>2. silent' \in {silent, 0}
      BY <1>2 DEF RuntimeNext, StartupDone, StartupFails, LoopHead, PollAnswers, PollRejects,
         DelayEnds, NextJob, RegisterFence, Progress, JobSettles, Abort, GraceExpires, Leave,
         Heartbeat, Kill, clock
  <2>3. file'.status \in Accepted /\ file'.age <= StaleAfter => silent' <= file'.age
      BY <1>0, <2>1, <2>2 DEF Written, RuntimeInv, FileFits, StatusFits, Accepted, StaleAfter
  <2>4. file'.status \in Accepted /\ ~file'.kept => ~failed'
      BY <2>1 DEF Written, StatusFits
  <2>5. file'.recovery => outcome' = "unfinished"
    <3>1. file.recovery => outcome' = "unfinished"
        BY <1>2 DEF RuntimeInv, FileFits, RunningFits, RuntimeNext, StartupDone, StartupFails,
           LoopHead, PollAnswers, PollRejects, DelayEnds, NextJob, RegisterFence, Progress,
           JobSettles, Abort, GraceExpires, Leave, Heartbeat, Kill, Looping, Moves, Returns
    <3> QED
        BY <2>1, <3>1 DEF Written
  <2>6. ~file'.kept /\ at' # "killed" =>
          (running' => file'.active /\ file'.status # "stopped")
      BY <2>1 DEF Written, RunningFits, Abandoned
  <2> QED
      BY <2>3, <2>4, <2>5, <2>6 DEF FileFits
<1>3. CASE ~Period /\ ~Publish(at', status', beat', outcome')
  <2>1. /\ file' = file /\ (running' => running) /\ (failed' => failed)
        /\ silent' \in {silent, 0} /\ outcome' = outcome /\ at # "killed"
      BY <1>3, Writes
  <2> QED
      BY <1>0, <2>1 DEF RuntimeInv, FileFits, StaleAfter
<1> QED
    BY <1>1, <1>2, <1>3

LEMMA RuntimeStep ==
    ASSUME RuntimeInv, RuntimeNext PROVE RuntimeInv'
BY RuntimeTyped, RunningKept, StatusKept, FileKept DEF RuntimeInv

LEMMA RuntimeStutters ==
    ASSUME RuntimeInv, UNCHANGED runtimeVars PROVE RuntimeInv'
BY DEF RuntimeInv, RuntimeTypeOK, RunningFits, StatusFits, FileFits, runtimeVars, job, clock,
       reported, Looping, Abandoned

LEMMA FileTellsTheTruth == RuntimeInv => HealthFileTruthful
BY DEF RuntimeInv, RuntimeTypeOK, RunningFits, FileFits, HealthFileTruthful, SnapshotTruthful,
       HealthyMeansProgress, Healthy, Accepted, StaleAfter, Snapshots, Ages

-----------------------------------------------------------------------------
(***************************************************************************)
(* Engraving.  A session number is given again by the next worker, and     *)
(* several sessions share one toolkit, so what is inductive is of which    *)
(* score a number speaks: nobody holds the number of the active session    *)
(* for another score, be it a session, a request or an answer on its way.  *)
(***************************************************************************)
Elements(s) == {s[i] : i \in 1 .. Len(s)}

\* The number n may stand for this score.
NumberFits(n, score) ==
    n <= opened /\ (active # Nothing /\ active.session = n => active.score = score)

\* Requests and answers are of numbers and workers that have been.
PastInv ==
    /\ \A q \in Elements(inbox) \cup pending : q.id <= requests
    /\ \A m \in Elements(outbox) : m.id <= requests /\ m.gen <= gen
    /\ \A s \in sessions : s.gen <= gen
    /\ \A q \in Elements(inbox), r \in pending : q.id = r.id => q = r
    /\ alive => gen >= 1
    /\ ~alive => pending = {} /\ inbox = <<>>
    /\ opened + Len(inbox) <= requests

\* What a message of its type carries.
MessageInv ==
    /\ \A q \in Elements(inbox) : q.type = "page" => q.page \in Pages
    /\ \A m \in Elements(outbox) :
         /\ m.type = "prepared" => m.session >= 1
         /\ m.type = "page" => m.image \in Images

\* The cache holds pages of the score in the toolkit, and an active session
\* that was prepared is of that score.
ToolkitInv ==
    /\ cache # Nothing => /\ cache.score = toolkit
                          /\ \A i \in cache.pages : i.score = toolkit
    /\ active # Nothing /\ active.prepared => active.score = toolkit

SessionInv ==
    alive =>
      /\ \A s \in sessions : s.gen = gen => NumberFits(s.session, s.score)
      /\ \A q \in Elements(inbox) : q.type = "page" => NumberFits(q.session, q.score)
      /\ \A m \in Elements(outbox), r \in pending : m.gen = gen /\ m.id = r.id =>
           /\ m.type = "prepared" => NumberFits(m.session, r.score)
           /\ m.type = "page" => m.image.score = r.score

EngravingInv ==
    EngravingTypeOK /\ PastInv /\ MessageInv /\ ToolkitInv /\ SessionInv /\ PageOfItsScore

LEMMA NoElements == Elements(<<>>) = {}
BY DEF Elements

LEMMA AppendElements ==
    ASSUME NEW S, NEW s \in Seq(S), NEW e \in S
    PROVE  /\ Append(s, e) \in Seq(S) /\ Len(Append(s, e)) = Len(s) + 1
           /\ Elements(Append(s, e)) = Elements(s) \cup {e}
<1>1. Len(s) \in Nat
    BY LenProperties
<1>2. /\ Append(s, e) \in Seq(S) /\ Len(Append(s, e)) = Len(s) + 1
      /\ \A i \in 1 .. Len(s) : Append(s, e)[i] = s[i]
      /\ Append(s, e)[Len(s) + 1] = e
    BY AppendProperties
<1> QED
    BY <1>1, <1>2 DEF Elements

LEMMA TailElements ==
    ASSUME NEW S, NEW s \in Seq(S), s # <<>>
    PROVE  /\ Head(s) \in S /\ Head(s) \in Elements(s) /\ Tail(s) \in Seq(S)
           /\ Len(Tail(s)) = Len(s) - 1 /\ Elements(Tail(s)) \subseteq Elements(s)
<1>1. /\ Head(s) \in S /\ Tail(s) \in Seq(S) /\ Len(Tail(s)) = Len(s) - 1
      /\ \A i \in 1 .. Len(Tail(s)) : Tail(s)[i] = s[i + 1]
    BY HeadTailProperties
<1>2. Len(s) \in Nat /\ Len(s) # 0
    BY LenProperties, EmptySeq
<1>3. Head(s) = s[1] /\ 1 \in 1 .. Len(s)
    BY <1>2
<1>4. \A i \in 1 .. Len(s) - 1 : i + 1 \in 1 .. Len(s)
    BY <1>2
<1> QED
    BY <1>1, <1>3, <1>4 DEF Elements

LEMMA ElementsTyped == ASSUME NEW S, NEW s \in Seq(S) PROVE Elements(s) \subseteq S
BY ElementOfSeq DEF Elements

LEMMA EngravingBegins == EngravingInit => EngravingInv
<1> SUFFICES ASSUME EngravingInit PROVE EngravingInv
    OBVIOUS
<1>1. <<>> \in Seq(Requests) /\ <<>> \in Seq(Replies) /\ Len(<<>>) = 0
    BY EmptySeq
<1>2. 0 \in 0 .. MaxWorkers /\ 0 \in 0 .. MaxRequests
    BY EngravingConstants
<1>3. alive \in BOOLEAN
    BY DEF EngravingInit
<1>4. EngravingTypeOK
    BY <1>1, <1>2, <1>3 DEF EngravingInit, EngravingTypeOK
<1> QED
    BY <1>1, <1>4, NoElements
    DEF EngravingInit, EngravingInv, PastInv, MessageInv, ToolkitInv, SessionInv, PageOfItsScore

\* A request takes a new name, which no answer bears yet.
LEMMA AsksKeeps ==
    ASSUME EngravingInv, NEW type \in {"open", "page", "close"}, NEW score \in Scores,
           NEW session \in 0 .. MaxRequests, NEW page \in Pages \cup {Nothing},
           Asks(type, score, session, page), sessions' \subseteq sessions,
           type # "open" => alive,
           type = "page" => page \in Pages /\ NumberFits(session, score)
    PROVE  EngravingInv'
<1> DEFINE r == [id |-> requests', type |-> type, gen |-> gen', score |-> score,
                 session |-> session, page |-> page]
<1> USE EngravingConstants DEF EngravingInv
<1>1. /\ requests \in 0 .. MaxRequests /\ requests' = requests + 1
      /\ requests' \in 1 .. MaxRequests /\ gen \in 0 .. MaxWorkers
      /\ gen' \in 1 .. MaxWorkers /\ gen <= gen' /\ alive' = TRUE
      /\ alive => gen' = gen
      /\ ~alive => gen' = gen + 1
    BY DEF Asks, EngravingTypeOK, PastInv
<1>2. /\ pending' = pending \cup {r} /\ inbox' = Append(inbox, r)
      /\ UNCHANGED <<outbox, active, opened, toolkit, cache, shown>>
    BY DEF Asks, worker
<1>3. /\ r \in Requests /\ r.id = requests + 1 /\ r.type = type /\ r.session = session
      /\ r.score = score /\ r.page = page
    BY <1>1 DEF Requests
<1> HIDE DEF r
<1>4. /\ inbox' \in Seq(Requests) /\ Len(inbox') = Len(inbox) + 1
      /\ Elements(inbox') = Elements(inbox) \cup {r}
    BY <1>2, <1>3, AppendElements DEF EngravingTypeOK
<1>5. EngravingTypeOK'
    BY <1>1, <1>2, <1>3, <1>4 DEF EngravingTypeOK
<1>6. PastInv'
  <2>1. /\ \A q \in Elements(inbox) \cup pending : q.id \in Nat /\ q.id <= requests
        /\ \A m \in Elements(outbox) : m.id \in Nat /\ m.id <= requests
                                       /\ m.gen \in Nat /\ m.gen <= gen
        /\ \A s \in sessions : s.gen \in Nat /\ s.gen <= gen
    <3>1. Elements(inbox) \subseteq Requests /\ Elements(outbox) \subseteq Replies
        BY ElementsTyped DEF EngravingTypeOK
    <3>2. pending \subseteq Requests
        BY DEF EngravingTypeOK
    <3>3. \A q \in Requests : q.id \in Nat
        BY DEF Requests
    <3>4. \A m \in Replies : m.id \in Nat /\ m.gen \in Nat
        BY DEF Replies
    <3>5. \A s \in sessions : s.gen \in Nat
        BY DEF EngravingTypeOK
    <3>6. /\ \A q \in Elements(inbox) \cup pending : q.id <= requests
          /\ \A m \in Elements(outbox) : m.id <= requests /\ m.gen <= gen
          /\ \A s \in sessions : s.gen <= gen
        BY DEF PastInv
    <3> QED
        BY <3>1, <3>2, <3>3, <3>4, <3>5, <3>6
  <2>2. \A q \in Elements(inbox'), p \in pending' : q.id = p.id => q = p
      BY <1>1, <1>2, <1>3, <1>4, <2>1 DEF PastInv
  <2>3. opened \in Nat /\ Len(inbox) \in Nat
      BY LenProperties DEF EngravingTypeOK
  <2>4. opened' + Len(inbox') <= requests'
      BY <1>1, <1>2, <1>4, <2>3 DEF PastInv
  <2>5. \A q \in Elements(inbox') \cup pending' : q.id <= requests'
      BY <1>1, <1>2, <1>3, <1>4, <2>1
  <2>6. \A m \in Elements(outbox') : m.id <= requests' /\ m.gen <= gen'
      BY <1>1, <1>2, <2>1
  <2>7. \A s \in sessions' : s.gen <= gen'
      BY <1>1, <2>1
  <2> QED
      BY <1>1, <2>2, <2>4, <2>5, <2>6, <2>7 DEF PastInv
<1>7. MessageInv' /\ ToolkitInv' /\ PageOfItsScore'
    BY <1>2, <1>3, <1>4 DEF MessageInv, ToolkitInv, PageOfItsScore
<1>8. SessionInv'
  <2>1. \A n, x : NumberFits(n, x)' <=> NumberFits(n, x)
      BY <1>2 DEF NumberFits
  <2>2. \A m \in Elements(outbox) : m.id # r.id
    <3>1. Elements(outbox) \subseteq Replies
        BY ElementsTyped DEF EngravingTypeOK
    <3> QED
        BY <1>1, <1>3, <3>1 DEF PastInv, Replies
  <2>3. CASE alive
      BY <1>1, <1>2, <1>3, <1>4, <2>1, <2>2, <2>3 DEF SessionInv
  <2>4. CASE ~alive
    <3>1. \A s \in sessions' : s.gen # gen'
        BY <1>1, <2>4 DEF PastInv, EngravingTypeOK
    <3>2. inbox = <<>> /\ pending = {} /\ Elements(inbox) = {}
        BY <2>4, NoElements DEF PastInv
    <3> QED
        BY <1>2, <1>3, <1>4, <2>2, <2>4, <3>1, <3>2 DEF SessionInv
  <2> QED
      BY <2>3, <2>4
<1> QED
    BY <1>5, <1>6, <1>7, <1>8

\* The end of a worker leaves nothing of its requests and its toolkit.
LEMMA DisposeKeeps ==
    ASSUME EngravingInv, NEW r, Dispose(r) PROVE EngravingInv'
<1>1. <<>> \in Seq(Requests) /\ Len(<<>>) = 0 /\ alive' \in BOOLEAN
    BY EmptySeq DEF Dispose
<1>2. EngravingTypeOK'
    BY <1>1, EngravingConstants DEF Dispose, EngravingInv, EngravingTypeOK
<1>3. PastInv'
    BY <1>1, NoElements DEF Dispose, EngravingInv, PastInv, EngravingTypeOK
<1> QED
    BY <1>2, <1>3, NoElements
    DEF Dispose, EngravingInv, MessageInv, ToolkitInv, SessionInv, PageOfItsScore

LEMMA DeliverKeeps == ASSUME EngravingInv, Deliver PROVE EngravingInv'
<1> DEFINE m == Head(outbox)
           asked == {r \in pending : r.id = m.id /\ alive /\ m.gen = gen}
           new == {[session |-> m.session, gen |-> gen, score |-> r.score] :
                     r \in {q \in asked : m.type = "prepared"}}
<1> USE DEF EngravingInv
<1>1. /\ m \in Replies /\ m \in Elements(outbox) /\ outbox' \in Seq(Replies)
      /\ Elements(outbox') \subseteq Elements(outbox)
    BY TailElements DEF Deliver, EngravingTypeOK
<1>2. /\ pending' = pending \ asked /\ sessions' = sessions \cup new
      /\ UNCHANGED <<alive, gen, requests, inbox, active, opened, toolkit, cache>>
    BY DEF Deliver, worker
<1>3. \/ UNCHANGED shown
      \/ \E r \in asked : /\ m.type = "page" /\ m.image.page = r.page
                          /\ shown' = [asked |-> r, image |-> m.image]
    BY DEF Deliver
<1>4. \A r \in asked : r \in pending /\ r \in Requests /\ r.id = m.id /\ alive /\ m.gen = gen
    BY DEF EngravingTypeOK
<1>5. \A s \in new : /\ s.session = m.session /\ s.gen = gen /\ m.type = "prepared"
                     /\ s \in [session : 1 .. MaxRequests, gen : 1 .. MaxWorkers, score : Scores]
                     /\ \E r \in asked : s.score = r.score
  <2>1. SUFFICES ASSUME NEW r \in asked, m.type = "prepared"
                 PROVE  [session |-> m.session, gen |-> gen, score |-> r.score] \in
                          [session : 1 .. MaxRequests, gen : 1 .. MaxWorkers, score : Scores]
      OBVIOUS
  <2>2. m.session \in 1 .. MaxRequests
      BY <1>1, <2>1, EngravingConstants DEF MessageInv, Replies
  <2>3. gen \in 1 .. MaxWorkers /\ r.score \in Scores
      BY <1>4, EngravingConstants DEF PastInv, EngravingTypeOK, Requests
  <2> QED
      BY <2>2, <2>3
<1> HIDE DEF m, asked, new
<1>6. EngravingTypeOK' /\ PageOfItsScore'
  <2>1. CASE UNCHANGED shown
      BY <1>1, <1>2, <1>5, <2>1 DEF EngravingTypeOK, PageOfItsScore
  <2>2. ASSUME NEW r \in asked, m.type = "page", m.image.page = r.page,
               shown' = [asked |-> r, image |-> m.image]
        PROVE  EngravingTypeOK' /\ PageOfItsScore'
    <3>1. r \in Requests /\ m.image \in Images
        BY <1>1, <1>4, <2>2 DEF MessageInv
    <3>2. m.image.score = r.score
        BY <1>1, <1>4, <2>2 DEF SessionInv
    <3> QED
        BY <1>1, <1>2, <1>5, <2>2, <3>1, <3>2 DEF EngravingTypeOK, PageOfItsScore
  <2> QED
      BY <1>3, <2>1, <2>2
<1>7. PastInv'
    BY <1>1, <1>2, <1>5, EngravingConstants DEF PastInv, EngravingTypeOK
<1>8. MessageInv' /\ ToolkitInv'
    BY <1>1, <1>2 DEF MessageInv, ToolkitInv
<1>9. SessionInv'
  <2>1. \A n, x : NumberFits(n, x)' <=> NumberFits(n, x)
      BY <1>2 DEF NumberFits
  <2>2. \A s \in new : NumberFits(s.session, s.score)
      BY <1>1, <1>4, <1>5 DEF SessionInv
  <2> QED
      BY <1>1, <1>2, <2>1, <2>2 DEF SessionInv
<1> QED
    BY <1>6, <1>7, <1>8, <1>9

\* The worker takes its next message and posts one answer to it.
LEMMA AnswersKeep ==
    ASSUME EngravingInv, NEW type, Takes(type),
           NEW reply \in {"prepared", "closed", "error", "page"},
           NEW session \in 0 .. MaxRequests, NEW image \in Images \cup {Nothing},
           Answers(reply, session, image), UNCHANGED <<thread, shown>>,
           opened' \in {opened, opened + 1}, EngravingTypeOK', ToolkitInv',
           NEW score, score = Head(inbox).score,
           reply = "prepared" => session >= 1 /\ NumberFits(session, score)',
           reply = "page" => image \in Images /\ image.score = score,
           \A n \in 0 .. MaxRequests : \A x : NumberFits(n, x) => NumberFits(n, x)'
    PROVE  EngravingInv'
<1> DEFINE q == Head(inbox)
           m == [id |-> q.id, gen |-> gen, type |-> reply, session |-> session,
                 image |-> image]
<1> USE DEF EngravingInv
<1>1. /\ q \in Requests /\ q \in Elements(inbox) /\ alive /\ inbox' = Tail(inbox)
      /\ Len(inbox') = Len(inbox) - 1 /\ Elements(inbox') \subseteq Elements(inbox)
    BY TailElements DEF Takes, EngravingTypeOK
<1>2. gen \in 1 .. MaxWorkers
    BY <1>1, EngravingConstants DEF PastInv, EngravingTypeOK
<1>3. /\ m \in Replies /\ m.id = q.id /\ m.gen = gen /\ m.type = reply
      /\ m.session = session /\ m.image = image
    BY <1>1, <1>2 DEF Replies, Requests
<1>4. outbox' = Append(outbox, m)
    BY DEF Answers
<1> HIDE DEF m
<1>5. Elements(outbox') = Elements(outbox) \cup {m}
    BY <1>3, <1>4, AppendElements DEF EngravingTypeOK
<1>6. UNCHANGED <<alive, gen, requests, pending, sessions, shown>>
    BY DEF thread
<1>7. \A r \in pending : r.id = m.id => r = q
    BY <1>1, <1>3 DEF PastInv
<1> HIDE DEF q
<1>8. PastInv'
  <2>1. opened \in Nat /\ Len(inbox) \in Nat /\ requests \in Nat
      BY LenProperties DEF EngravingTypeOK
  <2>2. opened' + Len(inbox') <= requests'
      BY <1>1, <1>6, <2>1 DEF PastInv
  <2>3. m.gen <= gen
      BY <1>2, <1>3
  <2> QED
      BY <1>1, <1>3, <1>5, <1>6, <2>2, <2>3 DEF PastInv
<1>9. MessageInv'
    BY <1>1, <1>3, <1>5 DEF MessageInv
<1>10. SessionInv'
  <2>1. Elements(inbox) \subseteq Requests /\ Elements(outbox) \subseteq Replies
      BY ElementsTyped DEF EngravingTypeOK
  <2>2. \A s \in sessions' : s.gen = gen' => NumberFits(s.session, s.score)'
    <3>1. \A s \in sessions : s.session \in 0 .. MaxRequests
        BY EngravingConstants DEF EngravingTypeOK
    <3> QED
        BY <1>1, <1>6, <3>1 DEF SessionInv
  <2>3. \A p \in Elements(inbox') : p.type = "page" => NumberFits(p.session, p.score)'
      BY <1>1, <2>1 DEF SessionInv, Requests
  <2>4. ASSUME NEW n \in Elements(outbox'), NEW r \in pending', n.gen = gen', n.id = r.id
        PROVE  /\ n.type = "prepared" => NumberFits(n.session, r.score)'
               /\ n.type = "page" => n.image.score = r.score
    <3>1. CASE n \in Elements(outbox)
        BY <1>1, <1>6, <2>1, <2>4, <3>1 DEF SessionInv, Replies
    <3>2. CASE n = m
      <4>1. r = q /\ score = r.score
          BY <1>3, <1>6, <1>7, <2>4, <3>2 DEF q
      <4> QED
          BY <1>3, <3>2, <4>1
    <3> QED
        BY <1>5, <2>4, <3>1, <3>2
  <2> QED
      BY <2>2, <2>3, <2>4 DEF SessionInv
<1>11. PageOfItsScore'
    BY <1>6 DEF PageOfItsScore
<1> QED
    BY <1>8, <1>9, <1>10, <1>11

\* What every message leaves alone, and what it takes.
LEMMA TakesTyped ==
    ASSUME EngravingInv, NEW type, Takes(type),
           NEW reply \in {"prepared", "closed", "error", "page"},
           NEW session \in 0 .. MaxRequests, NEW image \in Images \cup {Nothing},
           Answers(reply, session, image)
    PROVE  /\ Head(inbox) \in Requests /\ Head(inbox) \in Elements(inbox)
           /\ Head(inbox).type = type /\ alive
           /\ inbox' \in Seq(Requests) /\ outbox' \in Seq(Replies)
           /\ opened + 1 \in 1 .. MaxRequests
<1> USE DEF EngravingInv
<1>1. /\ Head(inbox) \in Requests /\ Head(inbox) \in Elements(inbox)
      /\ inbox' \in Seq(Requests) /\ Len(Tail(inbox)) = Len(inbox) - 1
      /\ Tail(inbox) \in Seq(Requests)
    BY TailElements DEF Takes, EngravingTypeOK
<1>2. gen \in 1 .. MaxWorkers
    BY EngravingConstants DEF PastInv, EngravingTypeOK, Takes
<1>3. [id |-> Head(inbox).id, gen |-> gen, type |-> reply, session |-> session,
       image |-> image] \in Replies
    BY <1>1, <1>2 DEF Replies, Requests
<1>4. outbox' \in Seq(Replies)
    BY <1>3, AppendElements DEF Answers, EngravingTypeOK
<1>5. opened + 1 \in 1 .. MaxRequests
  <2>1. Len(Tail(inbox)) \in Nat /\ Len(inbox) \in Nat
      BY <1>1, LenProperties DEF EngravingTypeOK
  <2>2. opened \in Nat /\ requests \in 0 .. MaxRequests /\ opened + Len(inbox) <= requests
      BY DEF EngravingTypeOK, PastInv
  <2> QED
      BY <1>1, <2>1, <2>2, EngravingConstants
<1> QED
    BY <1>1, <1>4, <1>5 DEF Takes

LEMMA CloseKeeps == ASSUME EngravingInv, HandleClose PROVE EngravingInv'
<1> USE DEF EngravingInv
<1>0. Head(inbox).session \in 0 .. MaxRequests
  <2>1. inbox \in Seq(Requests) /\ inbox # <<>>
      BY DEF HandleClose, Takes, EngravingTypeOK
  <2>2. Head(inbox) \in Requests
      BY <2>1, TailElements
  <2> QED
      BY <2>2 DEF Requests
<1>1. /\ Takes("close") /\ Answers("closed", Head(inbox).session, Nothing)
      /\ active' \in {active, Nothing}
      /\ UNCHANGED <<thread, opened, toolkit, cache, shown>>
    BY DEF HandleClose
<1>2. inbox' \in Seq(Requests) /\ outbox' \in Seq(Replies)
    BY <1>0, <1>1, TakesTyped
<1>3. EngravingTypeOK' /\ ToolkitInv'
    BY <1>1, <1>2 DEF EngravingTypeOK, ToolkitInv, thread
<1>4. \A n \in 0 .. MaxRequests : \A x : NumberFits(n, x) => NumberFits(n, x)'
    BY <1>1 DEF NumberFits
<1> QED
    BY <1>0, <1>1, <1>3, <1>4, AnswersKeep

LEMMA OpenKeeps == ASSUME EngravingInv, HandleOpen PROVE EngravingInv'
<1> DEFINE score == Head(inbox).score
           session == [session |-> opened', score |-> score]
<1> USE DEF EngravingInv
<1>1. /\ Takes("open") /\ opened' = opened + 1 /\ UNCHANGED <<thread, shown>>
    BY DEF HandleOpen
<1>2. PICK loads \in BOOLEAN :
        LET hit == cache # Nothing /\ cache.score = score IN
        /\ hit => loads
        /\ active' = [session |-> opened', score |-> score, prepared |-> loads]
        /\ IF hit THEN UNCHANGED <<toolkit, cache>> ELSE Prepare(score, loads)
        /\ IF loads THEN Answers("prepared", opened', Nothing) ELSE Fails
    BY DEF HandleOpen
<1>3. opened' \in 1 .. MaxRequests /\ opened' \in 0 .. MaxRequests /\ score \in Scores
      /\ inbox' \in Seq(Requests) /\ outbox' \in Seq(Replies) /\ 0 \in 0 .. MaxRequests
  <2>1. Head(inbox) \in Requests
      BY <1>1, TailElements DEF Takes, EngravingTypeOK
  <2>2. 0 \in 0 .. MaxRequests
      BY EngravingConstants
  <2>3. opened + 1 \in 0 .. MaxRequests
    <3>1. Len(inbox) \in Nat /\ Len(inbox) # 0
        BY <1>1, LenProperties, EmptySeq DEF Takes, EngravingTypeOK
    <3> QED
        BY <3>1, EngravingConstants DEF EngravingTypeOK, PastInv
  <2>4. \/ Answers("prepared", opened + 1, Nothing)
        \/ Answers("error", 0, Nothing)
      BY <1>1, <1>2 DEF Fails
  <2> QED
      BY <1>1, <2>1, <2>2, <2>3, <2>4, TakesTyped DEF Requests
<1> HIDE DEF score
<1>4. active'.session = opened' /\ active'.score = score
      /\ active'.prepared = loads
      /\ active' \in [session : 1 .. MaxRequests, score : Scores, prepared : BOOLEAN]
  <2>1. active' = [session |-> opened', score |-> score, prepared |-> loads]
      BY <1>2
  <2>2. active' \in [session : 1 .. MaxRequests, score : Scores, prepared : BOOLEAN]
      BY <1>3, <2>1
  <2> QED
      BY <2>1, <2>2
<1>5. /\ toolkit' \in Scores \cup {Nothing}
      /\ cache' \in [score : Scores, pages : SUBSET Images] \cup {Nothing}
      /\ ToolkitInv'
  <2>1. CASE cache # Nothing /\ cache.score = score
      BY <1>2, <1>4, <2>1 DEF ToolkitInv, EngravingTypeOK
  <2>2. CASE ~(cache # Nothing /\ cache.score = score)
      BY <1>2, <1>3, <1>4, <2>2 DEF Prepare, ToolkitInv
  <2> QED
      BY <2>1, <2>2
<1>6. EngravingTypeOK'
    BY <1>1, <1>3, <1>4, <1>5 DEF EngravingTypeOK, thread
<1>7. \A n \in 0 .. MaxRequests : \A x : NumberFits(n, x) => NumberFits(n, x)'
  <2> SUFFICES ASSUME NEW n \in 0 .. MaxRequests, NEW x, NumberFits(n, x)
               PROVE  NumberFits(n, x)'
      OBVIOUS
  <2>1. n \in Nat /\ opened \in Nat /\ n <= opened
      BY EngravingConstants DEF NumberFits, EngravingTypeOK
  <2>2. n <= opened' /\ n # opened'
      BY <1>1, <2>1
  <2> QED
      BY <1>4, <2>2 DEF NumberFits
<1>8. PICK n \in 1 .. MaxRequests, x \in Scores : n = opened' /\ x = score
    BY <1>3
<1>9. CASE loads
  <2>1. Answers("prepared", n, Nothing) /\ n >= 1 /\ n \in 0 .. MaxRequests
      BY <1>2, <1>3, <1>8, <1>9
  <2>2. NumberFits(n, x)'
      BY <1>3, <1>4, <1>8 DEF NumberFits
  <2>3. x = Head(inbox).score
      BY <1>8 DEF score
  <2> QED
      BY <1>1, <1>5, <1>6, <1>7, <2>1, <2>2, <2>3, AnswersKeep
<1>10. CASE ~loads
  <2>1. Answers("error", 0, Nothing)
      BY <1>2, <1>10 DEF Fails
  <2> QED
      BY <1>1, <1>3, <1>5, <1>6, <1>7, <2>1, AnswersKeep DEF score
<1> QED
    BY <1>9, <1>10

LEMMA PageKeeps == ASSUME EngravingInv, HandlePage PROVE EngravingInv'
<1> DEFINE r == Head(inbox)
           entry == cache # Nothing /\ active # Nothing /\ cache.score = active.score
           kept == {i \in IF entry THEN cache.pages ELSE {} : i.page = r.page}
           fresh == [score |-> toolkit, page |-> r.page]
<1> USE DEF EngravingInv
<1>1. Takes("page") /\ UNCHANGED <<thread, active, opened, toolkit, shown>>
    BY DEF HandlePage
<1>2. \/ Fails /\ UNCHANGED cache
      \/ /\ active # Nothing /\ active.session = r.session /\ active.prepared
         /\ \/ \E i \in kept : Answers("page", r.session, i) /\ UNCHANGED cache
            \/ /\ Answers("page", r.session, fresh)
               /\ cache' = IF entry THEN [cache EXCEPT !.pages = @ \cup {fresh}] ELSE cache
    BY DEF HandlePage
<1>3. /\ r \in Requests /\ r \in Elements(inbox) /\ r.type = "page" /\ alive
      /\ r.session \in 0 .. MaxRequests /\ r.score \in Scores /\ r.page \in Pages
  <2>1. r \in Requests /\ r \in Elements(inbox)
      BY <1>1, TailElements DEF Takes, EngravingTypeOK
  <2> QED
      BY <1>1, <2>1 DEF Takes, Requests, MessageInv
<1>4. \A n \in 0 .. MaxRequests : \A x : NumberFits(n, x) => NumberFits(n, x)'
    BY <1>1 DEF NumberFits
<1>5. NumberFits(r.session, r.score)
    BY <1>3 DEF SessionInv
<1>6. 0 \in 0 .. MaxRequests
    BY EngravingConstants
<1> HIDE DEF r
<1>7. CASE Fails /\ UNCHANGED cache
  <2>1. inbox' \in Seq(Requests) /\ outbox' \in Seq(Replies)
      BY <1>1, <1>6, <1>7, TakesTyped DEF Fails
  <2>2. EngravingTypeOK' /\ ToolkitInv'
      BY <1>1, <1>7, <2>1 DEF EngravingTypeOK, ToolkitInv, thread
  <2> QED
      BY <1>1, <1>4, <1>6, <1>7, <2>2, AnswersKeep DEF Fails
<1>8. ASSUME active # Nothing, active.session = r.session, active.prepared,
             NEW image \in Images, image.score = toolkit, Answers("page", r.session, image),
             \/ UNCHANGED cache
             \/ entry /\ cache' = [cache EXCEPT !.pages = @ \cup {image}]
      PROVE  EngravingInv'
  <2>1. inbox' \in Seq(Requests) /\ outbox' \in Seq(Replies)
      BY <1>1, <1>3, <1>8, TakesTyped
  <2>2. EngravingTypeOK' /\ ToolkitInv'
      BY <1>1, <1>8, <2>1 DEF EngravingTypeOK, ToolkitInv, thread
  <2>3. image.score = r.score
      BY <1>5, <1>8 DEF ToolkitInv, NumberFits
  <2> QED
      BY <1>1, <1>3, <1>4, <1>8, <2>2, <2>3, AnswersKeep DEF r
<1>9. ASSUME active # Nothing, active.session = r.session, active.prepared
      PROVE  /\ \A i \in kept : i \in Images /\ i.score = toolkit
             /\ fresh \in Images /\ fresh.score = toolkit
    BY <1>3, <1>9 DEF ToolkitInv, EngravingTypeOK, Images
<1> HIDE DEF kept, fresh
<1> QED
    BY <1>2, <1>7, <1>8, <1>9

LEMMA EngravingStep == ASSUME EngravingInv, EngravingNext PROVE EngravingInv'
<1>1. ASSUME NEW score \in Scores, OpenScore(score) PROVE EngravingInv'
  <2>1. 0 \in 0 .. MaxRequests
      BY EngravingConstants
  <2> QED
      BY <1>1, <2>1, AsksKeeps DEF OpenScore
<1>2. ASSUME NEW s \in sessions PROVE  /\ s.score \in Scores /\ s.session \in 0 .. MaxRequests
                                       /\ Usable(s) => NumberFits(s.session, s.score)
    BY <1>2, EngravingConstants DEF EngravingInv, EngravingTypeOK, SessionInv, Usable
<1>3. ASSUME NEW s \in sessions, NEW page \in Pages, RenderPage(s, page) PROVE EngravingInv'
    BY <1>2, <1>3, AsksKeeps DEF RenderPage, Usable
<1>4. ASSUME NEW s \in sessions, CloseSession(s) PROVE EngravingInv'
  <2>1. CASE Usable(s)
      BY <1>2, <1>4, <2>1, AsksKeeps DEF CloseSession, Usable
  <2>2. CASE ~Usable(s)
    <3>1. /\ sessions' \subseteq sessions
          /\ UNCHANGED <<alive, gen, requests, pending, inbox, outbox, worker, shown>>
        BY <1>4, <2>2 DEF CloseSession
    <3> QED
        BY <3>1 DEF EngravingInv, EngravingTypeOK, PastInv, MessageInv, ToolkitInv, SessionInv,
           PageOfItsScore, NumberFits, worker
  <2> QED
      BY <2>1, <2>2
<1>5. ASSUME NEW id \in 1 .. MaxRequests, TimeOut(id) PROVE EngravingInv'
    BY <1>5, DisposeKeeps DEF TimeOut
<1>6. CASE WorkerFails
    BY <1>6, DisposeKeeps DEF WorkerFails
<1> QED
    BY <1>1, <1>3, <1>4, <1>5, <1>6, DeliverKeeps, OpenKeeps, PageKeeps, CloseKeeps
    DEF EngravingNext

LEMMA EngravingStutters == ASSUME EngravingInv, UNCHANGED engravingVars PROVE EngravingInv'
BY DEF EngravingInv, EngravingTypeOK, PastInv, MessageInv, ToolkitInv, SessionInv,
       PageOfItsScore, NumberFits, engravingVars, thread, worker

-----------------------------------------------------------------------------
\* Both parts, of which one runs.
LEMMA TimersInvariant == TimersSpec => [](RuntimeInv /\ EngravingInv)
<1>1. TimersInit => RuntimeInv /\ EngravingInv
    BY RuntimeBegins, EngravingBegins DEF TimersInit
<1>2. RuntimeInv /\ EngravingInv /\ [TimersNext]_timersVars => (RuntimeInv /\ EngravingInv)'
    BY RuntimeStep, RuntimeStutters, EngravingStep, EngravingStutters DEF TimersNext, timersVars
<1> QED
    BY <1>1, <1>2, PTL DEF TimersSpec

\* Every variable of the loop and of the engraving keeps to its type; requests,
\* sessions and workers stay within their bounds.
THEOREM TimersTyped == TimersSpec => []TimersTypeOK
<1>1. RuntimeInv /\ EngravingInv => TimersTypeOK
    BY DEF RuntimeInv, EngravingInv, TimersTypeOK
<1> QED
    BY <1>1, TimersInvariant, PTL

\* Whatever the health file says is true: a fence announced was set, a running
\* job is not denied, and a file the probe accepts was left by a loop that got
\* somewhere within the period of staleness (worker-runtime.ts, worker-health.ts).
THEOREM HealthIsTrue == TimersSpec => []HealthFileTruthful
<1> QED
    BY FileTellsTheTruth, TimersInvariant, PTL

\* A page shown for a score is of that score, however many sessions share the
\* toolkit and however often the worker was replaced (verovio-worker.ts,
\* render-worker.mjs).
THEOREM PagesBelong == TimersSpec => []PageOfItsScore
<1>1. EngravingInv => PageOfItsScore
    BY DEF EngravingInv
<1> QED
    BY <1>1, TimersInvariant, PTL
=============================================================================
