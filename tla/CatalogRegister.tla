-------------------------- MODULE CatalogRegister --------------------------
(***************************************************************************)
(* What the publication protocol of one base promises, without files,      *)
(* locks, journals or processes: a register whose value is the current     *)
(* publication.  It is served while it is settled.  A change first takes   *)
(* it out of service, then either decides on a value that was never        *)
(* current before (or on none) or leaves the old one, and only then brings *)
(* it back.  An in-doubt period decides at most once.                      *)
(***************************************************************************)
CONSTANTS Values, None, Unavailable

VARIABLES
    value,   \* the current publication, or None
    served,  \* what a reader gets
    phase,   \* "settled", "open" (in doubt) or "decided"
    past     \* the values that were current once

vars == <<value, served, phase, past>>

Init ==
    /\ value \in Values \cup {None}
    /\ served = value
    /\ phase = "settled"
    /\ past = {value} \ {None}

Suspend ==
    /\ phase = "settled"
    /\ phase' = "open"
    /\ served' = Unavailable
    /\ UNCHANGED <<value, past>>

Decide ==
    /\ phase = "open"
    /\ \E v \in (Values \ past) \cup {None} :
          /\ value' = v
          /\ past' = past \cup ({v} \ {None})
    /\ phase' = "decided"
    /\ UNCHANGED served

Resume ==
    /\ phase # "settled"
    /\ phase' = "settled"
    /\ served' = value
    /\ UNCHANGED <<value, past>>

Next == Suspend \/ Decide \/ Resume

Spec == Init /\ [][Next]_vars
=============================================================================
