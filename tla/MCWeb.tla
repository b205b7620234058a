------------------------------- MODULE MCWeb --------------------------------
(***************************************************************************)
(* The parts of the web application and its catalog that share no state,   *)
(* checked in one run: each behaviour is one of a single part, and the     *)
(* others stay where they begin.                                           *)
(***************************************************************************)
EXTENDS ReadModel, SongUpdate, SourceHandoff, Transport, UploadMove, TLC

VARIABLE part  \* the part that runs

\* Two notes of one onset, one pitch that returns, overlapping regions.
WebNotes == {[at |-> 0, pitch |-> 1], [at |-> 1, pitch |-> 1], [at |-> 1, pitch |-> 2],
             [at |-> 3, pitch |-> 1]}
WebRegions == {[from |-> 0, to |-> 3], [from |-> 1, to |-> 4]}

\* The edits and the harmonies of a song differ in nothing but their names.
Interchangeable == Permutations(Updates) \cup Permutations(Harmonies)

WebVars == <<part, readModelVars, updateVars, handoffVars, transportVars, moveVars>>

WebInit ==
    /\ part \in {"read model", "song update", "handoff", "transport", "upload"}
    /\ ReadModelInit /\ UpdateInit /\ HandoffInit /\ TransportInit /\ MoveInit

Only(name, step_, others) == part = name /\ step_ /\ UNCHANGED <<part, others>>

WebNext ==
    \/ Only("read model", ReadModelNext, <<updateVars, handoffVars, transportVars, moveVars>>)
    \/ Only("song update", UpdateNext, <<readModelVars, handoffVars, transportVars, moveVars>>)
    \/ Only("handoff", HandoffNext, <<readModelVars, updateVars, transportVars, moveVars>>)
    \/ Only("transport", TransportNext, <<readModelVars, updateVars, handoffVars, moveVars>>)
    \/ Only("upload", MoveNext, <<readModelVars, updateVars, handoffVars, transportVars>>)

WebSpec == WebInit /\ [][WebNext]_WebVars

\* Every variable of the part that runs stays in its type.
WebTypeOK ==
    CASE part = "read model"  -> ReadModelTypeOK
      [] part = "song update" -> UpdateTypeOK
      [] part = "handoff"     -> HandoffTypeOK
      [] part = "transport"   -> TransportTypeOK
      [] part = "upload"      -> MoveTypeOK
=============================================================================
