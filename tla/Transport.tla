----------------------------- MODULE Transport ------------------------------
(***************************************************************************)
(* The transport of the player, PlaybackEngine of packages/player-core/src *)
(* engine.ts, with the grader of grading.ts it drives.  Sound is scheduled *)
(* a little ahead of the playhead, so every call that moves or bounds the  *)
(* playhead has to agree with the sound already handed to the audio.       *)
(*                                                                         *)
(* Time is counted in ticks of the lookahead.  Notes stand for everything  *)
(* scheduled by windows (pulses and chord changes follow the same ones).   *)
(* A practice run always has a passage, as the player starts it.           *)
(***************************************************************************)
EXTENDS Integers, FiniteSets, FiniteSetsExt

CONSTANTS Notes,      \* the notes: records of an onset and a pitch
          Duration,   \* the length of the song
          Regions,    \* its loops and passages, records of two times
          Lookahead,  \* how far ahead of the playhead notes are scheduled
          Stall,      \* a longer frame skips what it missed
          Tail,       \* how long releases are observed after a passage
          NoRange     \* no loop, no passage

ASSUME TransportConstants ==
    /\ Notes \subseteq [at : Nat, pitch : Nat] /\ IsFiniteSet(Notes)
    /\ \A n \in Notes : n.at < Duration
    /\ Regions \subseteq [from : 0 .. Duration, to : 0 .. Duration]
    /\ \A r \in Regions : r.from < r.to
    /\ {Duration, Lookahead, Stall} \subseteq Nat \ {0} /\ Tail \in Nat

VARIABLES
    time, playing, loop,
    wait,       \* wait mode
    passage,    \* the graded passage while there is a grader
    tolerance,  \* of the grader
    last,       \* lastScheduled
    sounds,     \* per note: how often it was scheduled since the last silence
    origin,     \* history: where the scheduling began since the last silence
    waited,     \* history: whether an answer moved the playhead since
    open,       \* targets neither played nor missed
    gone,       \* targets missed and not played later
    scored, missed,  \* the counts of targets played, and of targets missed
    taken       \* history: the targets played

player == <<time, playing, loop, wait>>
sound == <<last, sounds, origin, waited>>
grader == <<passage, tolerance, open, gone, scored, missed, taken>>
transportVars == <<player, sound, grader>>

Times == 0 .. Duration + Tail
Tolerances == {1, 2}

TransportTypeOK ==
    /\ time \in Times /\ last \in Times /\ origin \in Times
    /\ {playing, wait, waited} \subseteq BOOLEAN
    /\ loop \in Regions \cup {NoRange}
    /\ passage \in [range : Regions, tail : {0, Tail}] \cup {NoRange}
    /\ tolerance \in Tolerances
    /\ sounds \in [Notes -> 0 .. 2]
    /\ {open, gone, taken} \subseteq SUBSET Notes
    /\ {scored, missed} \subseteq 0 .. Cardinality(Notes)

Silence == [n \in Notes |-> 0]
Ungraded == /\ passage' = NoRange /\ open' = {} /\ gone' = {} /\ taken' = {}
            /\ scored' = 0 /\ missed' = 0 /\ UNCHANGED tolerance

TransportInit ==
    /\ time = 0 /\ playing = FALSE /\ loop = NoRange /\ wait = FALSE
    /\ passage = NoRange /\ tolerance = 1
    /\ last = 0 /\ sounds = Silence /\ origin = 0 /\ waited = FALSE
    /\ open = {} /\ gone = {} /\ scored = 0 /\ missed = 0 /\ taken = {}

-----------------------------------------------------------------------------
Earlier(a, b) == IF a < b THEN a ELSE b
Later(a, b) == IF a < b THEN b ELSE a

\* scheduleEndpoint, under loop l and passage p.
EndpointOf(l, p) ==
    IF p # NoRange THEN p.range.to ELSE IF l # NoRange THEN l.to ELSE Duration

\* schedule: the notes of the window that begins at `from`, heard at t, are
\* added to the sounds s; counting stops at two.
Schedules(s, from, t, l) ==
    LET to == Earlier(t + Lookahead, EndpointOf(l, passage)) IN
    /\ last' = Later(from, to)
    /\ sounds' = [n \in Notes |-> IF from <= n.at /\ n.at < to
                                  THEN Earlier(s[n] + 1, 2) ELSE s[n]]

\* cancelAll; whatever is scheduled next begins at t.
Silences(t) == origin' = t /\ waited' = FALSE
\* cancelAll, and the sound from t on is scheduled again.
Restarts(t, l) == Silences(t) /\ Schedules(Silence, t, t, l)
\* cancelAll, and nothing is scheduled yet.
Quiet(t) == Silences(t) /\ last' = t /\ sounds' = Silence

Start ==
    /\ ~playing /\ playing' = TRUE
    /\ origin' = time /\ Schedules(sounds, time, time, loop)
    /\ UNCHANGED <<time, loop, wait, waited, grader>>

Stop ==
    /\ playing \/ passage # NoRange
    /\ playing' = FALSE
    /\ Quiet(last)
    /\ UNCHANGED <<time, loop, wait, grader>>

\* What seek does to the sound; a paused player has none to cancel.
Seeks(t, isPlaying) ==
    IF isPlaying THEN Restarts(t, loop)
    ELSE last' = t /\ origin' = t /\ UNCHANGED <<sounds, waited>>

Seek ==
    /\ \E t \in 0 .. Duration : time' = t /\ Seeks(t, playing)
    /\ UNCHANGED <<playing, loop, wait, grader>>

-----------------------------------------------------------------------------
\* Grader.tick at time t: the targets whose window is over are missed.
Expire(t) ==
    LET over == {n \in open : t - n.at > tolerance} IN
    /\ open' = open \ over /\ gone' = gone \cup over
    /\ missed' = missed + Cardinality(over)
    /\ UNCHANGED <<passage, tolerance, scored, taken>>

\* The run is over: finishGrading.
Finishes(t, scheduled) ==
    /\ time' = t /\ playing' = FALSE /\ wait' = FALSE
    /\ Quiet(scheduled)
    /\ Ungraded
    /\ UNCHANGED loop

Frames == 1 .. Stall + 1

\* Mutant: the end of the loop goes unnoticed.
Advanced_Straight(dt) == time + dt
\* The playhead after a frame, in the loop unless a passage is graded.
Advanced(dt) ==
    IF loop # NoRange /\ passage = NoRange /\ time + dt >= loop.to
    THEN loop.from + ((time + dt - loop.from) % (loop.to - loop.from))
    ELSE time + dt

\* Mutant: a loop that wraps goes on from what was scheduled.
Skips_Stalled(dt) == dt > Stall
\* A stalled frame skips the attacks it missed, and a loop those before its
\* first frame; both begin with silence.
Skips(dt) == dt > Stall \/ Advanced(dt) # time + dt

Tick(dt) ==
    /\ playing /\ (passage = NoRange \/ ~wait)
    /\ IF passage # NoRange /\ time + dt >= passage.range.to + passage.tail
       THEN Finishes(passage.range.to, last)
       ELSE LET t == Advanced(dt) IN
            IF t >= Duration /\ loop = NoRange /\ passage = NoRange
            THEN /\ playing' = FALSE /\ time' = 0
                 /\ Quiet(0)
                 /\ UNCHANGED <<loop, wait, grader>>
            ELSE /\ time' = t
                 /\ IF Skips(dt) THEN Restarts(t, loop)
                    ELSE Schedules(sounds, last, t, loop) /\ UNCHANGED <<origin, waited>>
                 /\ IF passage # NoRange THEN Expire(t) ELSE UNCHANGED grader
                 /\ UNCHANGED <<playing, loop, wait>>

-----------------------------------------------------------------------------
\* setNotes, setTimeline, setChords and a change of the background while the
\* player runs.
Reinstall ==
    /\ playing
    /\ Restarts(time, loop)
    /\ UNCHANGED <<player, grader>>

\* setSettings: other timing, clicks or pedal silence the player until its
\* next frame; another speed gives the grader another tolerance.
SetSettings ==
    /\ IF playing THEN Quiet(time) ELSE UNCHANGED sound
    /\ \/ passage # NoRange /\ tolerance' \in Tolerances
       \/ UNCHANGED tolerance
    /\ UNCHANGED <<player, passage, open, gone, scored, missed, taken>>

SetLoop ==
    /\ \E l \in Regions \cup {NoRange} :
         loop' = l /\ IF playing THEN Restarts(time, l) ELSE UNCHANGED sound
    /\ UNCHANGED <<time, playing, wait, grader>>

SetWaitMode ==
    /\ wait' \in BOOLEAN
    /\ UNCHANGED <<time, playing, loop, sound, grader>>

TargetsOf(range) == {n \in Notes : range.from <= n.at /\ n.at < range.to}

\* Only timed practice grades the releases, and so has a tail.
StartGrading ==
    /\ \E w \in BOOLEAN, r \in Regions, tail \in {0, Tail} :
         /\ w => tail = 0
         /\ TargetsOf(r) # {}
         /\ passage' = [range |-> r, tail |-> tail]
         /\ open' = TargetsOf(r)
         /\ wait' = w /\ time' = r.from
         /\ IF playing \/ passage # NoRange THEN Quiet(r.from) ELSE Seeks(r.from, FALSE)
    /\ playing' = FALSE
    /\ gone' = {} /\ taken' = {} /\ scored' = 0 /\ missed' = 0
    /\ tolerance' \in Tolerances
    /\ UNCHANGED loop

FinishGrading == passage # NoRange /\ Finishes(time, last)

-----------------------------------------------------------------------------
\* Mutant: a miss that was played after all stays among the misses found.
Consume_Again(n) ==
    /\ scored' = Earlier(scored + 1, Cardinality(Notes)) /\ taken' = taken \cup {n}
    /\ IF n \in gone THEN missed' = Later(missed - 1, 0) ELSE UNCHANGED missed
    /\ open' = open \ {n}
    /\ UNCHANGED <<passage, tolerance, gone>>

\* A target is played, in time or late; a miss is reconciled.
Consume(n) ==
    /\ scored' = scored + 1 /\ taken' = taken \cup {n}
    /\ IF n \in gone THEN missed' = missed - 1 ELSE UNCHANGED missed
    /\ open' = open \ {n} /\ gone' = gone \ {n}
    /\ UNCHANGED <<passage, tolerance>>

\* The earliest notes of a set.
Firsts(S) == {n \in S : \A m \in S : n.at <= m.at}

\* In wait mode a right answer moves the playhead to the next target, also
\* back from what was scheduled ahead of it.
Answer(pitch) ==
    /\ passage # NoRange /\ wait
    /\ \E n \in Firsts(open) :
         /\ n.pitch = pitch
         /\ LET next == Firsts(open \ {n})
                goal == IF next = {} THEN n.at + 1 ELSE Max({m.at : m \in next})
                t == Earlier(passage.range.to, Later(time, goal)) IN
            IF next = {} THEN Finishes(t, t)
            ELSE /\ time' = t /\ waited' = TRUE
                 /\ IF playing THEN last' = t /\ UNCHANGED sounds
                               ELSE Schedules(sounds, t, t, loop)
                 /\ Consume(n)
                 /\ UNCHANGED <<playing, loop, wait, origin>>

\* What an input at `now` counts as: the earliest target of its pitch within
\* the tolerance, else, if the window has no target at all, the earliest past.
Matches(pitch, now) ==
    LET left == open \cup gone
        near == {n \in left : n.at \in now - tolerance .. now + tolerance} IN
    IF near = {} THEN Firsts({n \in left : n.pitch = pitch /\ n.at < now})
                 ELSE Firsts({n \in near : n.pitch = pitch})

\* An input of timed practice, at the time of its event while the player
\* runs and less the input offset at any time.  A wrong or unmatched one
\* changes no target.
Input(pitch) ==
    /\ passage # NoRange /\ (wait => open = {})
    /\ \E now \in time - 1 .. time + 1 :
         \E n \in Matches(pitch, now) : Consume(n)
    /\ UNCHANGED <<player, sound>>

TransportNext ==
    \/ Start \/ Stop \/ Seek \/ \E dt \in Frames : Tick(dt)
    \/ Reinstall \/ SetSettings \/ SetLoop \/ SetWaitMode
    \/ StartGrading \/ FinishGrading
    \/ \E pitch \in {n.pitch : n \in Notes} : Answer(pitch) \/ Input(pitch)

TransportSpec == TransportInit /\ [][TransportNext]_transportVars

-----------------------------------------------------------------------------
\* Since the last silence every attack between where the sound began and
\* where it is scheduled to has been scheduled once ("never schedules a note
\* twice across frames", player-core/test/engine.test.ts:89), unless an answer
\* in wait mode has moved the schedule back over sound already handed out.
\* Answers or not, while the player runs its playhead has not overtaken the
\* sound, and the sound is at most one lookahead ahead and not beyond the end
\* of the loop or passage.
AttacksExact ==
    /\ ~waited => \A n \in Notes :
          sounds[n] = IF origin <= n.at /\ n.at < last THEN 1 ELSE 0
    /\ LET end == EndpointOf(loop, passage) IN
       playing => /\ Earlier(time, end) <= last
                  /\ last <= Later(origin, Earlier(time + Lookahead, end))

\* Whatever the order of frames, answers, late answers and changes of the
\* wait mode, every target of the passage is counted once (grading.test.ts:
\* 128, "accounts for repeated pitches, chord tones, and duplicate targets
\* once each"; two targets that agree in onset and pitch are one member of
\* Notes here, so of the duplicates nothing is said).
ScoreAddsUp ==
    passage # NoRange =>
      /\ scored = Cardinality(taken) /\ missed = Cardinality(gone)
      /\ scored + missed + Cardinality(open) = Cardinality(TargetsOf(passage.range))
=============================================================================
