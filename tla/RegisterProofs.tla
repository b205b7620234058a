--------------------------- MODULE RegisterProofs ---------------------------
(***************************************************************************)
(* The publication protocol implements CatalogRegister, for every value of *)
(* the constants of Publication.                                           *)
(***************************************************************************)
EXTENDS PublicationProofs

\* The variables of the register, as Publication maps them.
Value == rows
Shown == IF Pending THEN Unavailable ELSE Current.content
Phase == CASE ~Pending -> "settled"
           [] journal = PublishJournal(rows) -> "decided"
           [] journal = DeleteJournal /\ rows = None -> "decided"
           [] OTHER -> "open"
Past == {c \in Contents : fate[c] = "committed"}

\* A base without a pending journal serves the publication in its rows.
LEMMA ShownIsValue ==
    ASSUME PublicationInvariant, ~Pending
    PROVE  Shown = rows
BY DEF PublicationInvariant, DiskInv, Matches, Shown, Current, Exists, Pending,
   NoJournal

\* The same of the state after a step.
LEMMA ShownIsValueAfter ==
    ASSUME PublicationInvariant', ~Pending'
    PROVE  Shown' = rows'
BY DEF PublicationInvariant, DiskInv, Matches, Shown, Current, Exists, Pending,
   NoJournal

\* The three kinds of journal that are pending, as phases.
LEMMA Phases ==
    /\ ~Pending => Phase = "settled"
    /\ journal = TornJournal => Pending /\ Phase = "open"
    /\ journal.kind = "publish" =>
           Pending /\ Phase = IF journal = PublishJournal(rows)
                              THEN "decided" ELSE "open"
    /\ journal = DeleteJournal =>
           Pending /\ Phase = IF rows = None THEN "decided" ELSE "open"
BY DEF Phase, Pending, NoJournal, TornJournal, PublishJournal, DeleteJournal

\* A step that leaves the journal, the rows and what was committed alone is
\* none of the register.
LEMMA Stutters ==
    ASSUME PublicationInvariant, PublicationInvariant',
           UNCHANGED <<journal, rows>>, Past' = Past
    PROVE  UNCHANGED <<Value, Shown, Phase, Past>>
<1>1. UNCHANGED <<Value, Phase, Past>>
    BY DEF Value, Phase, Pending
<1>2. CASE Pending
    BY <1>1, <1>2 DEF Shown, Pending
<1>3. CASE ~Pending
  <2>1. Shown = rows
      BY <1>3, ShownIsValue
  <2>2. ~Pending' /\ Shown' = rows'
      BY <1>3, ShownIsValueAfter DEF Pending
  <2> QED
      BY <1>1, <2>1, <2>2
<1> QED
    BY <1>2, <1>3

\* Only these steps change the journal, the rows or what was committed.
LEMMA Visible ==
    ASSUME TypeOK, [Next]_vars, ~UNCHANGED <<journal, rows, Past>>
    PROVE  \E p \in Procs :
              \/ OpenJournal(p) \/ WriteJournal(p) \/ FailJournal(p)
              \/ CommitRows(p) \/ DeleteRows(p) \/ CloseJournal(p)
<1>1. PICK p \in Procs :
          Begin(p) \/ Review(p) \/ BeginReconcile(p) \/ Work(p) \/ Stop(p)
    BY DEF Next, vars, disk, Past
<1>2. ~(Begin(p) \/ Review(p) \/ BeginReconcile(p) \/ Stop(p))
    BY DEF Begin, BeginPublish, BeginDelete, BeginInspect, Review,
       BeginReconcile, Stop, Enter, Leave, disk, Past
<1>3. ~Stage(p)
    BY DEF Stage, Past, TypeOK, Contents
<1> QED
    BY <1>1, <1>2, <1>3 DEF Work, disk, Blocked, RestoreOld, SweepOld, NoOld,
       SweepNew, Return, WriteTree, WriteMarker, Fence, FailStage, Discard,
       Retire, Install, FailInstall, CommitSource, Erase, DeleteSources, Clean,
       Refuse, RollBack, Unstage, RollForward, ResumeDelete, WriteReceipt,
       Leave, Past

\* An installation starts as a register that is settled.
LEMMA InitImplements ==
    ASSUME Init
    PROVE  Register!Init
<1>1. PublicationInvariant /\ ~Pending
    BY InitHolds DEF Init, Pending
<1>2. Shown = rows /\ Phase = "settled"
    BY <1>1, ShownIsValue, Phases
<1>3. Past = {rows} \ {None}
    BY ConstantsDistinct DEF Past, Init, Contents
<1>4. rows \in Contents \cup {None}
    BY <1>1 DEF PublicationInvariant, TypeOK
<1> QED
    BY <1>2, <1>3, <1>4 DEF Register!Init, Shown, Phase, Past

\* The creation of a journal suspends the register, its removal resumes it,
\* the commits decide, and every other step stutters.
LEMMA NextImplements ==
    ASSUME PublicationInvariant, [Next]_vars
    PROVE  [Register!Next]_(Register!vars)
<1> USE DEF Value
<1>1. PublicationInvariant'
    BY NextKeeps
<1>2. CASE UNCHANGED <<journal, rows, Past>>
  <2>1. UNCHANGED <<Value, Shown, Phase, Past>>
      BY <1>1, <1>2, Stutters
  <2> QED
      BY <2>1 DEF Shown, Phase, Past, Register!vars
<1>3. CASE ~UNCHANGED <<journal, rows, Past>>
  <2>1. PICK p \in Procs :
            \/ OpenJournal(p) \/ WriteJournal(p) \/ FailJournal(p)
            \/ CommitRows(p) \/ DeleteRows(p) \/ CloseJournal(p)
      BY <1>3, Visible DEF PublicationInvariant
  <2>2. StepAt(p)
      BY DEF PublicationInvariant, StepInv
  <2>3. CASE OpenJournal(p)
    <3>1. ~Pending /\ journal' = TornJournal /\ UNCHANGED <<rows, Past>>
        BY <2>3 DEF OpenJournal, Pending, Past
    <3>2. Shown = rows /\ Phase = "settled"
        BY <3>1, ShownIsValue, Phases
    <3>3. Shown' = Unavailable /\ Phase' = "open"
        BY <3>1 DEF Shown, Phase, Pending, TornJournal, NoJournal,
           PublishJournal, DeleteJournal
    <3> QED
        BY <3>1, <3>2, <3>3 DEF Register!Next, Register!Suspend, Shown, Phase,
           Past
  <2>4. CASE WriteJournal(p) /\ op[p] = "publish"
    <3>1. /\ journal = TornJournal /\ journal' = PublishJournal(tok[p])
          /\ tok[p] # rows /\ UNCHANGED <<rows, Past>>
        BY <2>2, <2>4 DEF WriteJournal, At, StepAt, Staging, Past,
           PublicationInvariant, ShapeInv
    <3>2. UNCHANGED <<Shown, Phase>>
        BY <3>1 DEF Shown, Phase, Pending, TornJournal, NoJournal,
           PublishJournal, DeleteJournal
    <3> QED
        BY <3>1, <3>2 DEF Register!vars, Shown, Phase, Past
  <2>5. CASE WriteJournal(p) /\ op[p] # "publish"
    <3>1. /\ journal = TornJournal /\ journal' = DeleteJournal
          /\ UNCHANGED <<rows, Past>>
        BY <2>2, <2>5 DEF WriteJournal, At, StepAt, Past
    <3>2. /\ Phase = "open" /\ UNCHANGED Shown
          /\ Phase' = IF rows = None THEN "decided" ELSE "open"
        BY <3>1 DEF Shown, Phase, Pending, TornJournal, NoJournal,
           PublishJournal, DeleteJournal
    <3>3. CASE rows = None
        BY <3>1, <3>2, <3>3 DEF Register!Next, Register!Decide, Shown, Phase,
           Past
    <3>4. CASE rows # None
        BY <3>1, <3>2, <3>4 DEF Register!vars, Shown, Phase, Past
    <3> QED
        BY <3>3, <3>4
  <2>6. CASE FailJournal(p)
    <3>1. /\ journal = TornJournal
          /\ journal' \in {TornJournal, PublishJournal(tok[p])}
          /\ tok[p] # rows /\ UNCHANGED <<rows, Past>>
        BY <2>2, <2>6 DEF FailJournal, At, StepAt, Staging, Past,
           PublicationInvariant, ShapeInv
    <3>2. UNCHANGED <<Shown, Phase>>
        BY <3>1 DEF Shown, Phase, Pending, TornJournal, NoJournal,
           PublishJournal, DeleteJournal
    <3> QED
        BY <3>1, <3>2 DEF Register!vars, Shown, Phase, Past
  <2>7. CASE CommitRows(p)
    <3>1. /\ tok[p] \in Tokens /\ journal = PublishJournal(tok[p])
          /\ UNCHANGED journal /\ rows' = tok[p]
          /\ Past' = Past \cup {tok[p]}
          /\ tok[p] \in Past <=> rows = tok[p]
        BY <2>2, <2>7 DEF CommitRows, At, StepAt, AfterSwap, PublishJournal,
           Past, PublicationInvariant, TypeOK, ShapeInv, Contents
    <3>2. /\ UNCHANGED Shown /\ Phase' = "decided"
          /\ Phase = IF rows = tok[p] THEN "decided" ELSE "open"
        BY <3>1 DEF Shown, Phase, Pending, NoJournal, PublishJournal,
           DeleteJournal
    <3>3. CASE rows = tok[p]
        BY <3>1, <3>2, <3>3 DEF Register!vars, Shown, Phase, Past
    <3>4. CASE rows # tok[p]
      <4>1. /\ tok[p] \in (Contents \ Past) \cup {None}
            /\ Past' = Past \cup ({tok[p]} \ {None})
          BY <3>1, <3>4, ConstantsDistinct DEF Contents
      <4> QED
          BY <3>1, <3>2, <3>4, <4>1 DEF Register!Next, Register!Decide, Shown,
             Phase, Past
    <3> QED
        BY <3>3, <3>4
  <2>8. CASE DeleteRows(p)
    <3>1. /\ journal = DeleteJournal /\ rows' = None
          /\ UNCHANGED <<journal, Past>>
        BY <2>2, <2>8 DEF DeleteRows, At, StepAt, Past
    <3>2. /\ UNCHANGED Shown /\ Phase' = "decided"
          /\ Phase = IF rows = None THEN "decided" ELSE "open"
        BY <3>1 DEF Shown, Phase, Pending, NoJournal, PublishJournal,
           DeleteJournal
    <3>3. CASE rows = None
        BY <3>1, <3>2, <3>3 DEF Register!vars, Shown, Phase, Past
    <3>4. CASE rows # None
        BY <3>1, <3>2, <3>4 DEF Register!Next, Register!Decide, Shown, Phase,
           Past
    <3> QED
        BY <3>3, <3>4
  <2>9. CASE CloseJournal(p)
    <3>1. /\ Pending /\ ~Pending' /\ journal' = NoJournal
          /\ UNCHANGED <<rows, Past>>
        BY <2>2, <2>9 DEF CloseJournal, Leave, At, StepAt, Committed, RolledBack,
           Deleted, Pending, NoJournal, PublishJournal, DeleteJournal, Past
    <3>2. Phase # "settled" /\ Phase' = "settled"
      <4>1. Phase # "settled"
          BY <3>1 DEF Phase
      <4>2. Phase' = "settled"
          BY <3>1 DEF Phase, Pending, NoJournal, PublishJournal,
             DeleteJournal
      <4> QED
          BY <4>1, <4>2
    <3>3. Shown' = rows'
        BY <1>1, <3>1, ShownIsValueAfter
    <3> QED
        BY <3>1, <3>2, <3>3 DEF Register!Next, Register!Resume, Shown, Phase,
           Past
  <2> QED
      BY <2>1, <2>3, <2>4, <2>5, <2>6, <2>7, <2>8, <2>9
<1> QED
    BY <1>2, <1>3

\* However its processes interleave and stop, a base is served, suspended and
\* changed like the register.
THEOREM RegisterImplemented == Spec => RegisterSpec
<1>1. Init => Register!Init
    BY InitImplements
<1>2. PublicationInvariant /\ [Next]_vars => [Register!Next]_(Register!vars)
    BY NextImplements
<1> QED
    BY <1>1, <1>2, InvariantHolds, PTL DEF Spec, RegisterSpec, Register!Spec
=============================================================================
