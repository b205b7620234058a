------------------------------ MODULE SongEdits ------------------------------
(***************************************************************************)
(* What the editors of one base promise, without locks, journals, trees    *)
(* and rows.  The base is one value.  A request takes effect once, at one  *)
(* instant between its start and its answer, on the base as it is at that  *)
(* instant and on all of it; or it never does, and is told so.  Only a     *)
(* request that was stopped is not told whether it did.                    *)
(***************************************************************************)
EXTENDS Integers

CONSTANTS
    Updates,      \* requests that set a title, a tempo or both
    Harmonies,    \* requests that put a backing beside one exact revision
    Ingests,      \* requests that write the base anew
    Deletes,
    None, First, AnyRevision

VARIABLES
    whole,   \* the base: what it was last changed by and all its parts, or None
    stage,   \* per request: "idle", "sent", "applied", or its answer
    patch,   \* per request: the fields it sets
    expect   \* per request: the revision it asks for

vars == <<whole, stage, patch, expect>>

Requests == Updates \cup Harmonies \cup Ingests \cup Deletes

Init ==
    /\ whole = [rev |-> First, title |-> First, tempo |-> First, plays |-> 0,
                backing |-> None, binding |-> None]
    /\ stage = [r \in Requests |-> "idle"]
    /\ patch = [r \in Requests |-> {}]
    /\ expect = [r \in Requests |-> AnyRevision]

Answers == {"done", "replayed", "conflict", "corrupt", "review", "missing", "refused", "stopped"}

Goes(r, from, to) ==
    stage[r] = from /\ \E next \in to : stage'[r] = next /\ stage' = [stage EXCEPT ![r] = next]

\* An editor names nothing or the revision it has seen; a harmony has seen one.
Send(r) ==
    /\ Goes(r, "idle", {"sent"})
    /\ \/ r \in Ingests \cup Deletes /\ UNCHANGED <<patch, expect>>
       \/ /\ r \in Updates
          /\ \E fields \in SUBSET {"title", "tempo"} : patch' = [patch EXCEPT ![r] = fields]
          /\ \/ expect' = [expect EXCEPT ![r] = AnyRevision]
             \/ whole # None /\ expect' = [expect EXCEPT ![r] = whole.rev]
       \/ /\ r \in Harmonies /\ whole # None
          /\ expect' = [expect EXCEPT ![r] = whole.rev] /\ UNCHANGED patch
    /\ UNCHANGED whole

Set(r, field, old) == IF field \in patch[r] THEN r ELSE old

Named(r) == whole # None /\ expect[r] \in {AnyRevision, whole.rev}

\* A new tempo does not carry a backing that was reviewed with the old one.
Edit(r) ==
    /\ r \in Updates /\ Named(r)
    /\ "tempo" \in patch[r] => whole.backing = None
    /\ whole' = [whole EXCEPT !.rev = r, !.binding = None,
                              !.title = Set(r, "title", @), !.tempo = Set(r, "tempo", @)]

Harmonise(r) ==
    /\ r \in Harmonies /\ Named(r) /\ expect[r] # AnyRevision
    /\ whole' = [whole EXCEPT !.rev = r, !.backing = whole.tempo, !.binding = expect[r]]

\* The plays of a base outlive its content.
Ingest(r) ==
    /\ r \in Ingests
    /\ whole' = [rev |-> r, title |-> r, tempo |-> r, backing |-> None, binding |-> None,
                 plays |-> IF whole = None THEN 0 ELSE whole.plays]

Delete(r) == r \in Deletes /\ whole' = None

Apply(r) ==
    /\ Goes(r, "sent", {"applied"})
    /\ Edit(r) \/ Harmonise(r) \/ Ingest(r) \/ Delete(r)
    /\ UNCHANGED <<patch, expect>>

\* A harmony is refused for its revision only if the base has another one, is
\* a replay only if the base has this harmony, and a backing stands in the way
\* only where there is one.
Refused(r) ==
    /\ Goes(r, "sent", Answers \ {"done"})
    /\ stage'[r] = "replayed" => r \in Harmonies /\ whole # None /\ whole.binding = expect[r]
    /\ stage'[r] = "conflict" /\ r \in Harmonies => ~Named(r)
    /\ stage'[r] = "review" => whole # None /\ whole.backing # None

Answer(r) ==
    /\ Refused(r) \/ Goes(r, "applied", {"done", "stopped"})
    /\ expect' = [expect EXCEPT ![r] = AnyRevision]
    /\ UNCHANGED <<whole, patch>>

Play ==
    /\ whole # None /\ whole' = [whole EXCEPT !.plays = @ + 1]
    /\ UNCHANGED <<stage, patch, expect>>

Next ==
    \/ Play
    \/ \E r \in Requests : Send(r) \/ Apply(r) \/ Answer(r)

Spec == Init /\ [][Next]_vars
=============================================================================
