------------------------- MODULE ReversibleRemoval --------------------------
(***************************************************************************)
(* What the quarantine of one base promises, without files, records, locks *)
(* or stops.  The base is shown or hidden, and both happen to all of it at *)
(* once.  While it is hidden its content is kept; from there it either     *)
(* comes back exactly as it was, or is given up for good, which nothing    *)
(* can do before the retention is over and nothing can undo.               *)
(***************************************************************************)
CONSTANTS Contents,  \* what a base can hold: bytes for each of its paths
          None

VARIABLES
    shown,  \* the content readers see, or None
    kept,   \* the content that can still come back, or None
    phase,  \* "shown", "hiding", "hidden", "returning" or "doomed"
    due     \* whether the retention is over

vars == <<shown, kept, phase, due>>

Init ==
    /\ shown = None /\ kept = None
    /\ phase = "shown" /\ due = FALSE

\* Publications and deletions, as long as the base is not hidden.
Change ==
    /\ phase = "shown"
    /\ shown' \in Contents \cup {None}
    /\ UNCHANGED <<kept, phase, due>>

Hide ==
    /\ phase = "shown" /\ shown \in Contents
    /\ shown' = None /\ kept' = shown
    /\ phase' = "hiding" /\ due' = FALSE

Hidden == phase = "hiding" /\ phase' = "hidden" /\ UNCHANGED <<shown, kept, due>>

Age == phase # "shown" /\ due' = TRUE /\ UNCHANGED <<shown, kept, phase>>

\* The decision, one way or the other, is final.
Recall == phase = "hidden" /\ phase' = "returning" /\ UNCHANGED <<shown, kept, due>>
Doom == /\ phase = "hidden" /\ due
        /\ phase' = "doomed" /\ kept' = None
        /\ UNCHANGED <<shown, due>>

Return == /\ phase = "returning"
          /\ shown' = kept /\ kept' = None
          /\ phase' = "shown" /\ UNCHANGED due

Forget == phase = "doomed" /\ phase' = "shown" /\ UNCHANGED <<shown, kept, due>>

Next == Change \/ Hide \/ Hidden \/ Age \/ Recall \/ Doom \/ Return \/ Forget

Spec == Init /\ [][Next]_vars
=============================================================================
