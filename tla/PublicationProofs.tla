------------------------- MODULE PublicationProofs -------------------------
(***************************************************************************)
(* Proofs about Publication, for every value of its constants: the         *)
(* invariant of PublicationInv is inductive, and the safety properties     *)
(* follow from it.  One lemma per action shows that the action keeps the   *)
(* invariant; what it does not touch is left to the frame lemmas.          *)
(***************************************************************************)
EXTENDS PublicationInv, TLAPS

-----------------------------------------------------------------------------
(* Trees, and what a step leaves alone *)

\* The missing tree.
LEMMA NoTreeFacts ==
    /\ NoTree \in Tree /\ ~Exists(NoTree)
    /\ NoTree.marker = None /\ ~NoTree.whole
BY DEF NoTree, Tree, Exists

\* A tree in removal is never whole and keeps its content until it is gone.
LEMMA RemovingFacts ==
    ASSUME NEW t \in Tree, t.marker \in {None, t.content},
           NEW r \in Removing(t)
    PROVE  /\ r \in Tree /\ r.marker \in {None, r.content} /\ ~r.whole
           /\ Exists(r) => r.content = t.content
<1>1. CASE r = NoTree
    BY <1>1, NoTreeFacts
<1>2. ASSUME NEW m \in {t.marker, None},
             r = [t EXCEPT !.marker = m, !.whole = FALSE]
      PROVE  /\ r \in Tree /\ r.marker \in {None, r.content} /\ ~r.whole
             /\ r.content = t.content
    BY <1>2 DEF Tree
<1> QED
    BY <1>1, <1>2, NoTreeFacts DEF Removing

\* A process that leaves its operation has nothing left to show.
LEMMA IdleStep ==
    ASSUME NEW p \in Procs, pc'[p] = "idle"
    PROVE  StepAt(p)'
BY DEF StepAt, Staging

\* A step of the lock holder is not seen by the others, which are idle.
LEMMA StepFrame ==
    ASSUME LockInv, NEW p \in Procs, lock = p, StepAt(p)',
           \A q \in Procs \ {p} : pc'[q] = pc[q]
    PROVE  StepInv'
<1> SUFFICES ASSUME NEW q \in Procs, q # p
             PROVE  StepAt(q)'
    BY DEF StepInv
<1> QED
    BY DEF LockInv, StepAt, Staging

\* What the invariant says of the disk depends on the trees, the journal, the
\* rows and the fates only.
LEMMA Frame ==
    ASSUME ShapeInv, DiskInv,
           UNCHANGED <<final, old, new, journal, rows, fate>>
    PROVE  ShapeInv' /\ DiskInv'
BY DEF ShapeInv, DiskInv, BeforeSwap, AfterSwap, Matches, Current, Installed,
       Exists

\* A receipt stays true while no process takes a token.
LEMMA ReceiptFrame ==
    ASSUME ReceiptInv, UNCHANGED <<final, journal, receipt, fate>>,
           \A q \in Procs : tok'[q] \in {tok[q], None}
    PROVE  ReceiptInv'
BY DEF ReceiptInv, Installed

\* If nothing the steps refer to changes, every step keeps its facts.
LEMMA StepInvFrame ==
    ASSUME StepInv, UNCHANGED <<final, old, new, journal, rows, fate, pc, op, tok>>
    PROVE  StepInv'
BY DEF StepInv, StepAt, Staging, BeforeSwap, AfterSwap, Committed, RolledBack,
   Deleted, Matches, Current, Installed, Pending, Exists

-----------------------------------------------------------------------------
(* The actions *)

\* A pending journal makes an operation leave: only its step changes.
LEMMA BlockedKeeps ==
    ASSUME PublicationInvariant, NEW p \in Procs, Blocked(p)
    PROVE  PublicationInvariant'
<1> USE DEF PublicationInvariant, Blocked, At, Goto, Leave, disk
<1>0. pc[p] # "idle" /\ lock = p
    BY DEF LockInv
<1>1. TypeOK'
    BY DEF TypeOK
<1>2. LockInv'
    BY ConstantsDistinct DEF LockInv, TypeOK
<1>3. ShapeInv' /\ DiskInv'
    BY Frame
<1>4. StepAt(p)'
    BY IdleStep DEF TypeOK
<1>5. ReceiptInv'
    BY ReceiptFrame
<1> QED
    BY <1>0, <1>1, <1>2, <1>3, <1>4, <1>5, StepFrame DEF TypeOK

\* The recovery of an old swap moves the tree that the rows describe
\* from .old back into place.
LEMMA RestoreOldKeeps ==
    ASSUME PublicationInvariant, NEW p \in Procs, RestoreOld(p)
    PROVE  PublicationInvariant'
<1> USE DEF PublicationInvariant, RestoreOld, At, Goto
<1>0. pc[p] # "idle" /\ lock = p
    BY DEF LockInv
<1>1. TypeOK'
    BY NoTreeFacts DEF TypeOK, Steps
<1>2. LockInv'
    BY DEF LockInv
<1>3. ShapeInv'
    BY NoTreeFacts DEF ShapeInv
<1>4. DiskInv'
    BY DEF DiskInv, Matches, Current, Pending, NoJournal
<1>5. StepAt(p)'
    BY NoTreeFacts DEF StepAt, Staging, Pending
<1>6. ReceiptInv'
    BY DEF ReceiptInv, Pending, NoJournal
<1> QED
    BY <1>0, <1>1, <1>2, <1>3, <1>4, <1>5, <1>6, StepFrame DEF TypeOK

\* The abandoned backup goes; the installed tree is the current one.
LEMMA SweepOldKeeps ==
    ASSUME PublicationInvariant, NEW p \in Procs, SweepOld(p)
    PROVE  PublicationInvariant'
<1> USE DEF PublicationInvariant, SweepOld, At, Goto
<1>0. pc[p] # "idle" /\ lock = p
    BY DEF LockInv
<1>1. TypeOK'
    BY RemovingFacts DEF TypeOK, Steps, ShapeInv
<1>2. LockInv'
    BY DEF LockInv
<1>3. ShapeInv'
    BY RemovingFacts DEF TypeOK, ShapeInv
<1>4. DiskInv'
    BY DEF DiskInv, Matches, Current, Pending, NoJournal
<1>5. StepAt(p)'
    BY DEF StepAt, Staging, Pending
<1>6. ReceiptInv'
    BY DEF ReceiptInv, Installed
<1> QED
    BY <1>0, <1>1, <1>2, <1>3, <1>4, <1>5, <1>6, StepFrame DEF TypeOK

\* There is no backup to recover: only the step changes.
LEMMA NoOldKeeps ==
    ASSUME PublicationInvariant, NEW p \in Procs, NoOld(p)
    PROVE  PublicationInvariant'
<1> USE DEF PublicationInvariant, NoOld, At, Goto, disk
<1>0. pc[p] # "idle" /\ lock = p
    BY DEF LockInv
<1>1. TypeOK'
    BY DEF TypeOK, Steps
<1>2. LockInv'
    BY DEF LockInv
<1>3. ShapeInv' /\ DiskInv'
    BY Frame
<1>4. StepAt(p)'
    BY DEF StepAt, Staging, Pending
<1>5. ReceiptInv'
    BY ReceiptFrame
<1> QED
    BY <1>0, <1>1, <1>2, <1>3, <1>4, <1>5, StepFrame DEF TypeOK

\* The abandoned stage goes; no journal refers to it.
LEMMA SweepNewKeeps ==
    ASSUME PublicationInvariant, NEW p \in Procs, SweepNew(p)
    PROVE  PublicationInvariant'
<1> USE DEF PublicationInvariant, SweepNew, At, Goto
<1>0. pc[p] # "idle" /\ lock = p
    BY DEF LockInv
<1>1. TypeOK'
    BY RemovingFacts DEF TypeOK, Steps, ShapeInv
<1>2. LockInv'
    BY DEF LockInv
<1>3. ShapeInv'
    BY RemovingFacts DEF TypeOK, ShapeInv
<1>4. DiskInv'
    BY DEF DiskInv, Matches, Current, BeforeSwap, AfterSwap, Installed
<1>5. StepAt(p)'
    BY DEF StepInv, StepAt, Staging, Pending
<1>6. ReceiptInv'
    BY DEF ReceiptInv, Installed
<1> QED
    BY <1>0, <1>1, <1>2, <1>3, <1>4, <1>5, <1>6, StepFrame DEF TypeOK

\* An operation returns after its preamble: only its step changes.
LEMMA ReturnKeeps ==
    ASSUME PublicationInvariant, NEW p \in Procs, Return(p)
    PROVE  PublicationInvariant'
<1> USE DEF PublicationInvariant, Return, At, Goto, Leave, disk
<1>0. pc[p] # "idle" /\ lock = p
    BY DEF LockInv
<1>1. TypeOK'
    BY DEF TypeOK
<1>2. LockInv'
    BY ConstantsDistinct DEF LockInv, TypeOK
<1>3. ShapeInv' /\ DiskInv'
    BY Frame
<1>4. StepAt(p)'
    BY IdleStep DEF TypeOK
<1>5. ReceiptInv'
    BY ReceiptFrame
<1> QED
    BY <1>0, <1>1, <1>2, <1>3, <1>4, <1>5, StepFrame DEF TypeOK

\* A fresh token is staged; no receipt, marker or row knows it.
LEMMA StageKeeps ==
    ASSUME PublicationInvariant, NEW p \in Procs, Stage(p)
    PROVE  PublicationInvariant'
<1> USE DEF PublicationInvariant, Stage, At, Goto
<1>0. pc[p] # "idle" /\ lock = p
    BY DEF LockInv
<1>1. TypeOK'
    BY DEF TypeOK, Steps, Tree, Contents
<1>2. LockInv'
    BY DEF LockInv
<1>3. ShapeInv'
    BY DEF ShapeInv
<1>4. DiskInv'
    BY DEF DiskInv, Matches, Current, StepInv, StepAt, Pending, NoJournal
<1>5. StepAt(p)'
    BY ConstantsDistinct DEF StepInv, StepAt, TypeOK, Pending, Contents
<1>6. ReceiptInv'
    BY DEF ReceiptInv, Installed
<1> QED
    BY <1>0, <1>1, <1>2, <1>3, <1>4, <1>5, <1>6, StepFrame DEF TypeOK

\* The stage becomes whole.
LEMMA WriteTreeKeeps ==
    ASSUME PublicationInvariant, NEW p \in Procs, WriteTree(p)
    PROVE  PublicationInvariant'
<1> USE DEF PublicationInvariant, WriteTree, At, Goto
<1>0. pc[p] # "idle" /\ lock = p
    BY DEF LockInv
<1>1. TypeOK'
    BY <1>0, ConstantsDistinct DEF TypeOK, Steps, Tree
<1>2. LockInv'
    BY DEF LockInv
<1>3. ShapeInv'
    BY DEF ShapeInv, Exists, StepInv, StepAt, Staging
<1>4. DiskInv'
    BY DEF DiskInv, Matches, Current, BeforeSwap, AfterSwap, Installed
<1>5. StepAt(p)'
    BY DEF StepInv, StepAt, Staging, Pending
<1>6. ReceiptInv'
    BY DEF ReceiptInv, Installed
<1> QED
    BY <1>0, <1>1, <1>2, <1>3, <1>4, <1>5, <1>6, StepFrame DEF TypeOK

\* The stage gets its marker, and no backup is left.
LEMMA WriteMarkerKeeps ==
    ASSUME PublicationInvariant, NEW p \in Procs, WriteMarker(p)
    PROVE  PublicationInvariant'
<1> USE DEF PublicationInvariant, WriteMarker, At, Goto
<1>0. pc[p] # "idle" /\ lock = p
    BY DEF LockInv
<1>1. TypeOK'
    BY NoTreeFacts DEF TypeOK, Steps, Tree
<1>2. LockInv'
    BY DEF LockInv
<1>3. ShapeInv'
    BY NoTreeFacts DEF ShapeInv, Exists, StepInv, StepAt, Staging
<1>4. DiskInv'
    BY NoTreeFacts DEF DiskInv, Matches, Current, Exists, StepInv, StepAt,
       Pending, NoJournal
<1>5. StepAt(p)'
    BY NoTreeFacts DEF StepInv, StepAt, Staging, Pending
<1>6. ReceiptInv'
    BY DEF ReceiptInv, Installed
<1> QED
    BY <1>0, <1>1, <1>2, <1>3, <1>4, <1>5, <1>6, StepFrame DEF TypeOK

\* beforeSwap passes: only the step changes.
LEMMA FenceKeeps ==
    ASSUME PublicationInvariant, NEW p \in Procs, Fence(p)
    PROVE  PublicationInvariant'
<1> USE DEF PublicationInvariant, Fence, At, Goto, disk
<1>0. pc[p] # "idle" /\ lock = p
    BY DEF LockInv
<1>1. TypeOK'
    BY DEF TypeOK, Steps
<1>2. LockInv'
    BY DEF LockInv
<1>3. ShapeInv' /\ DiskInv'
    BY Frame
<1>4. StepAt(p)'
    BY DEF StepInv, StepAt, Staging, Pending
<1>5. ReceiptInv'
    BY ReceiptFrame
<1> QED
    BY <1>0, <1>1, <1>2, <1>3, <1>4, <1>5, StepFrame DEF TypeOK

\* beforeSwap, a check or the writer throws: only the step changes.
LEMMA FailStageKeeps ==
    ASSUME PublicationInvariant, NEW p \in Procs, FailStage(p)
    PROVE  PublicationInvariant'
<1> USE DEF PublicationInvariant, FailStage, At, Goto, disk
<1>0. pc[p] # "idle" /\ lock = p
    BY DEF LockInv
<1>1. TypeOK'
    BY DEF TypeOK, Steps
<1>2. LockInv'
    BY DEF LockInv
<1>3. ShapeInv' /\ DiskInv'
    BY Frame
<1>4. StepAt(p)'
    BY DEF StepAt, Staging, TypeOK
<1>5. ReceiptInv'
    BY ReceiptFrame
<1> QED
    BY <1>0, <1>1, <1>2, <1>3, <1>4, <1>5, StepFrame DEF TypeOK

\* The stage of a failed publication goes, unjournaled or journaled.
LEMMA DiscardKeeps ==
    ASSUME PublicationInvariant, NEW p \in Procs, Discard(p)
    PROVE  PublicationInvariant'
<1> USE DEF PublicationInvariant, Discard, At, Goto, Leave
<1>0. pc[p] # "idle" /\ lock = p
    BY DEF LockInv
<1>1. TypeOK'
    BY RemovingFacts DEF TypeOK, ShapeInv
<1>2. LockInv'
    BY ConstantsDistinct DEF LockInv, TypeOK
<1>3. ShapeInv'
    BY RemovingFacts DEF TypeOK, ShapeInv
<1>4. DiskInv'
    BY DEF DiskInv, Matches, Current, BeforeSwap, AfterSwap, Installed
<1>5. StepAt(p)'
    BY DEF StepAt, Staging, TypeOK
<1>6. ReceiptInv'
    BY DEF ReceiptInv, TypeOK, Installed
<1> QED
    BY <1>0, <1>1, <1>2, <1>3, <1>4, <1>5, <1>6, StepFrame DEF TypeOK

\* The journal exists but is not written: it names nothing yet.
LEMMA OpenJournalKeeps ==
    ASSUME PublicationInvariant, NEW p \in Procs, OpenJournal(p)
    PROVE  PublicationInvariant'
<1> USE DEF PublicationInvariant, OpenJournal, At, Goto
<1>0. pc[p] # "idle" /\ lock = p
    BY DEF LockInv
<1>1. TypeOK'
    BY DEF TypeOK, Steps, Journals, TornJournal
<1>2. LockInv'
    BY DEF LockInv
<1>3. ShapeInv'
    BY DEF ShapeInv, TornJournal
<1>4. DiskInv'
    BY DEF DiskInv, Matches, Current, NoJournal, TornJournal
<1>5. StepAt(p)'
    BY DEF StepInv, StepAt, Staging, TypeOK
<1>6. ReceiptInv'
    BY DEF ReceiptInv, TornJournal
<1> QED
    BY <1>0, <1>1, <1>2, <1>3, <1>4, <1>5, <1>6, StepFrame DEF TypeOK

\* The journal of a publication is written before its swap, that of a
\* deletion before its removals.
LEMMA WriteJournalKeeps ==
    ASSUME PublicationInvariant, NEW p \in Procs, WriteJournal(p)
    PROVE  PublicationInvariant'
<1> USE DEF PublicationInvariant, WriteJournal, At, Goto
<1>0. pc[p] # "idle" /\ lock = p
    BY DEF LockInv
<1>1. TypeOK'
    BY DEF TypeOK, Steps, Journals, PublishJournal, DeleteJournal
<1>2. LockInv'
    BY DEF LockInv
<1>3. ShapeInv'
    BY DEF ShapeInv, PublishJournal, DeleteJournal, StepInv, StepAt, Staging
<1>4. DiskInv'
    BY DEF ShapeInv, DiskInv, Matches, Current, Exists, BeforeSwap,
       Installed, PublishJournal, DeleteJournal, TornJournal, StepInv,
       StepAt, Staging
<1>5. StepAt(p)'
    BY DEF StepInv, StepAt, Staging, TypeOK, ShapeInv, DiskInv, Matches,
       Current, Exists, BeforeSwap, Installed, PublishJournal, TornJournal
<1>6. ReceiptInv'
    BY DEF ReceiptInv, PublishJournal, DeleteJournal
<1> QED
    BY <1>0, <1>1, <1>2, <1>3, <1>4, <1>5, <1>6, StepFrame DEF TypeOK

\* The journal is torn, or it is written although writeFile threw.
LEMMA FailJournalKeeps ==
    ASSUME PublicationInvariant, NEW p \in Procs, FailJournal(p)
    PROVE  PublicationInvariant'
<1> USE DEF PublicationInvariant, FailJournal, At, Goto
<1>0. pc[p] # "idle" /\ lock = p
    BY DEF LockInv
<1>1. TypeOK'
    BY DEF TypeOK, Steps, Journals, PublishJournal, TornJournal
<1>2. LockInv'
    BY DEF LockInv
<1>3. ShapeInv'
    BY DEF ShapeInv, PublishJournal, StepInv, StepAt, Staging
<1>4. DiskInv'
    BY DEF ShapeInv, DiskInv, Matches, Current, Exists, BeforeSwap,
       Installed, PublishJournal, TornJournal, StepInv, StepAt, Staging
<1>5. StepAt(p)'
    BY DEF StepAt, Staging, TypeOK
<1>6. ReceiptInv'
    BY DEF ReceiptInv, PublishJournal, TornJournal
<1> QED
    BY <1>0, <1>1, <1>2, <1>3, <1>4, <1>5, <1>6, StepFrame DEF TypeOK

\* The current tree moves aside and stays the current one.
LEMMA RetireKeeps ==
    ASSUME PublicationInvariant, NEW p \in Procs, Retire(p)
    PROVE  PublicationInvariant'
<1> USE DEF PublicationInvariant, Retire, At, Goto
<1>0. pc[p] # "idle" /\ lock = p
    BY DEF LockInv
<1>1. TypeOK'
    BY NoTreeFacts DEF TypeOK, Steps
<1>2. LockInv'
    BY DEF LockInv
<1>3. ShapeInv'
    BY NoTreeFacts DEF ShapeInv
<1>4. DiskInv'
    BY NoTreeFacts DEF ShapeInv, DiskInv, Matches, Current, BeforeSwap,
       Installed, StepInv, StepAt
<1>5. StepAt(p)'
    BY NoTreeFacts DEF StepInv, StepAt, Staging, TypeOK, Matches, Current,
       BeforeSwap, Installed, PublishJournal
<1>6. ReceiptInv'
    BY DEF ReceiptInv, StepInv, StepAt, PublishJournal
<1> QED
    BY <1>0, <1>1, <1>2, <1>3, <1>4, <1>5, <1>6, StepFrame DEF TypeOK

\* The stage is installed: the swap is done, the old tree is in .old.
LEMMA InstallKeeps ==
    ASSUME PublicationInvariant, NEW p \in Procs, Install(p)
    PROVE  PublicationInvariant'
<1> USE DEF PublicationInvariant, Install, At, Goto
<1>0. pc[p] # "idle" /\ lock = p
    BY DEF LockInv
<1>1. TypeOK'
    BY NoTreeFacts DEF TypeOK, Steps
<1>2. LockInv'
    BY DEF LockInv
<1>3. ShapeInv'
    BY NoTreeFacts DEF ShapeInv
<1>4. DiskInv'
    BY DEF DiskInv, Matches, Current, BeforeSwap, AfterSwap, Installed,
       StepInv, StepAt, Staging, PublishJournal
<1>5. StepAt(p)'
    BY DEF StepInv, StepAt, Staging, TypeOK, Matches, Current, BeforeSwap,
       AfterSwap, Installed, PublishJournal
<1>6. ReceiptInv'
    BY DEF ReceiptInv, StepInv, StepAt, PublishJournal
<1> QED
    BY <1>0, <1>1, <1>2, <1>3, <1>4, <1>5, <1>6, StepFrame DEF TypeOK

\* The swap is undone by its handler and its journal stays.
LEMMA FailInstallKeeps ==
    ASSUME PublicationInvariant, NEW p \in Procs, FailInstall(p)
    PROVE  PublicationInvariant'
<1> USE DEF PublicationInvariant, FailInstall, At, Goto, Leave
<1>0. pc[p] # "idle" /\ lock = p
    BY DEF LockInv
<1>1. TypeOK'
    BY NoTreeFacts DEF TypeOK
<1>2. LockInv'
    BY ConstantsDistinct DEF LockInv, TypeOK
<1>3. ShapeInv'
    BY NoTreeFacts DEF ShapeInv
<1>4. DiskInv'
    BY DEF ShapeInv, DiskInv, Matches, Current, BeforeSwap, Installed,
       StepInv, StepAt
<1>5. StepAt(p)'
    BY IdleStep DEF TypeOK
<1>6. ReceiptInv'
    BY DEF ReceiptInv, StepInv, StepAt, PublishJournal
<1> QED
    BY <1>0, <1>1, <1>2, <1>3, <1>4, <1>5, <1>6, StepFrame DEF TypeOK

\* The source is in place; the rows are as before.
LEMMA CommitSourceKeeps ==
    ASSUME PublicationInvariant, NEW p \in Procs, CommitSource(p)
    PROVE  PublicationInvariant'
<1> USE DEF PublicationInvariant, CommitSource, At, Goto
<1>0. pc[p] # "idle" /\ lock = p
    BY DEF LockInv
<1>1. TypeOK'
    BY DEF TypeOK, Steps
<1>2. LockInv'
    BY DEF LockInv
<1>3. ShapeInv' /\ DiskInv'
    BY Frame
<1>4. StepAt(p)'
    BY DEF StepInv, StepAt, Staging, AfterSwap, Installed
<1>5. ReceiptInv'
    BY ReceiptFrame
<1> QED
    BY <1>0, <1>1, <1>2, <1>3, <1>4, <1>5, StepFrame DEF TypeOK

\* The rows follow the installed tree.
LEMMA CommitRowsKeeps ==
    ASSUME PublicationInvariant, NEW p \in Procs, CommitRows(p)
    PROVE  PublicationInvariant'
<1> USE DEF PublicationInvariant, CommitRows, At, Goto
<1>0. pc[p] # "idle" /\ lock = p
    BY DEF LockInv
<1>1. TypeOK'
    BY DEF TypeOK, Steps, Contents
<1>2. LockInv'
    BY DEF LockInv
<1>3. ShapeInv'
    BY DEF TypeOK, ShapeInv, Contents
<1>4. DiskInv'
    BY DEF DiskInv, AfterSwap, Installed, StepInv, StepAt, PublishJournal
<1>5. StepAt(p)'
    BY DEF StepInv, StepAt, Staging, Committed, AfterSwap, Installed,
       PublishJournal
<1>6. ReceiptInv'
    BY DEF ReceiptInv, Installed
<1> QED
    BY <1>0, <1>1, <1>2, <1>3, <1>4, <1>5, <1>6, StepFrame DEF TypeOK

\* The trees of a journaled deletion go.
LEMMA EraseKeeps ==
    ASSUME PublicationInvariant, NEW p \in Procs, Erase(p)
    PROVE  PublicationInvariant'
<1> USE DEF PublicationInvariant, Erase, At, Goto
<1>0. pc[p] # "idle" /\ lock = p
    BY DEF LockInv
<1>1. TypeOK'
    BY RemovingFacts, NoTreeFacts DEF TypeOK, Steps, ShapeInv
<1>2. LockInv'
    BY DEF LockInv, TypeOK
<1>3. ShapeInv'
    BY RemovingFacts, NoTreeFacts DEF TypeOK, ShapeInv
<1>4. DiskInv'
    BY DEF DiskInv, StepInv, StepAt, DeleteJournal
<1>5. StepAt(p)'
    BY NoTreeFacts DEF StepInv, StepAt, Staging, TypeOK
<1>6. ReceiptInv'
    BY DEF ReceiptInv, StepInv, StepAt, DeleteJournal
<1> QED
    BY <1>0, <1>1, <1>2, <1>3, <1>4, <1>5, <1>6, StepFrame DEF TypeOK

\* The rows follow the removed tree.
LEMMA DeleteRowsKeeps ==
    ASSUME PublicationInvariant, NEW p \in Procs, DeleteRows(p)
    PROVE  PublicationInvariant'
<1> USE DEF PublicationInvariant, DeleteRows, At, Goto
<1>0. pc[p] # "idle" /\ lock = p
    BY DEF LockInv
<1>1. TypeOK'
    BY DEF TypeOK, Steps
<1>2. LockInv'
    BY DEF LockInv
<1>3. ShapeInv'
    BY DEF ShapeInv
<1>4. DiskInv'
    BY DEF DiskInv, StepInv, StepAt, DeleteJournal
<1>5. StepAt(p)'
    BY DEF StepInv, StepAt, Staging, Deleted
<1>6. ReceiptInv'
    BY DEF ReceiptInv, Installed
<1> QED
    BY <1>0, <1>1, <1>2, <1>3, <1>4, <1>5, <1>6, StepFrame DEF TypeOK

\* The source files follow the rows.
LEMMA DeleteSourcesKeeps ==
    ASSUME PublicationInvariant, NEW p \in Procs, DeleteSources(p)
    PROVE  PublicationInvariant'
<1> USE DEF PublicationInvariant, DeleteSources, At, Goto
<1>0. pc[p] # "idle" /\ lock = p
    BY DEF LockInv
<1>1. TypeOK'
    BY DEF TypeOK, Steps
<1>2. LockInv'
    BY DEF LockInv
<1>3. ShapeInv' /\ DiskInv'
    BY Frame
<1>4. StepAt(p)'
    BY DEF StepInv, StepAt, Staging, Deleted
<1>5. ReceiptInv'
    BY ReceiptFrame
<1> QED
    BY <1>0, <1>1, <1>2, <1>3, <1>4, <1>5, StepFrame DEF TypeOK

\* The backup goes once its successor is committed, or the base deleted.
LEMMA CleanKeeps ==
    ASSUME PublicationInvariant, NEW p \in Procs, Clean(p)
    PROVE  PublicationInvariant'
<1> USE DEF PublicationInvariant, Clean, At, Goto
<1>0. pc[p] # "idle" /\ lock = p
    BY DEF LockInv
<1>1. TypeOK'
    BY RemovingFacts, NoTreeFacts DEF TypeOK, Steps, ShapeInv
<1>2. LockInv'
    BY DEF LockInv
<1>3. ShapeInv'
    BY RemovingFacts, NoTreeFacts DEF TypeOK, ShapeInv
<1>4. DiskInv'
    BY DEF DiskInv, AfterSwap, Installed, StepInv, StepAt, Committed,
       Deleted, DeleteJournal, PublishJournal
<1>5. StepAt(p)'
    BY DEF StepInv, StepAt, Staging, Committed, Deleted, AfterSwap,
       Installed, PublishJournal
<1>6. ReceiptInv'
    BY DEF ReceiptInv, Installed
<1> QED
    BY <1>0, <1>1, <1>2, <1>3, <1>4, <1>5, <1>6, StepFrame DEF TypeOK

\* A journal goes only when tree and rows agree.
LEMMA CloseJournalKeeps ==
    ASSUME PublicationInvariant, NEW p \in Procs, CloseJournal(p)
    PROVE  PublicationInvariant'
<1> USE DEF PublicationInvariant, CloseJournal, At, Goto, Leave
<1>0. pc[p] # "idle" /\ lock = p
    BY DEF LockInv
<1>1. TypeOK'
    BY DEF TypeOK, Journals, NoJournal
<1>2. LockInv'
    BY ConstantsDistinct DEF LockInv, TypeOK
<1>3. ShapeInv'
    BY DEF ShapeInv, NoJournal
<1>4. DiskInv'
    BY DEF ShapeInv, DiskInv, Matches, Current, BeforeSwap, AfterSwap,
       Installed, StepInv, StepAt, Committed, RolledBack, Deleted,
       PublishJournal, NoJournal
<1>5. StepAt(p)'
    BY IdleStep DEF TypeOK
<1>6. ReceiptInv'
    BY DEF ReceiptInv, NoJournal
<1> QED
    BY <1>0, <1>1, <1>2, <1>3, <1>4, <1>5, <1>6, StepFrame DEF TypeOK

\* A reconciler refuses: only its step changes.
LEMMA RefuseKeeps ==
    ASSUME PublicationInvariant, NEW p \in Procs, Refuse(p)
    PROVE  PublicationInvariant'
<1> USE DEF PublicationInvariant, Refuse, At, Goto, Leave, disk
<1>0. pc[p] # "idle" /\ lock = p
    BY DEF LockInv
<1>1. TypeOK'
    BY DEF TypeOK
<1>2. LockInv'
    BY ConstantsDistinct DEF LockInv, TypeOK
<1>3. ShapeInv' /\ DiskInv'
    BY Frame
<1>4. StepAt(p)'
    BY IdleStep DEF TypeOK
<1>5. ReceiptInv'
    BY ReceiptFrame
<1> QED
    BY <1>0, <1>1, <1>2, <1>3, <1>4, <1>5, StepFrame DEF TypeOK

\* The previous tree is current again, or still.
LEMMA RollBackKeeps ==
    ASSUME PublicationInvariant, NEW p \in Procs, RollBack(p)
    PROVE  PublicationInvariant'
<1> USE DEF PublicationInvariant, RollBack, At, Goto, Accepted
<1>0. pc[p] # "idle" /\ lock = p
    BY DEF LockInv
<1>1. TypeOK'
    BY NoTreeFacts DEF TypeOK, Steps
<1>2. LockInv'
    BY DEF LockInv
<1>3. ShapeInv'
    BY NoTreeFacts DEF ShapeInv
<1>4. DiskInv'
    BY DEF ShapeInv, DiskInv, Matches, Current, BeforeSwap, AfterSwap,
       Installed
<1>5. StepAt(p)'
    BY DEF StepInv, StepAt, Staging, RolledBack, ShapeInv, DiskInv, Matches,
       Current, BeforeSwap, AfterSwap, Installed
<1>6. ReceiptInv'
    BY <1>5 DEF ReceiptInv, TypeOK, StepAt, RolledBack, BeforeSwap
<1> QED
    BY <1>0, <1>1, <1>2, <1>3, <1>4, <1>5, <1>6, StepFrame DEF TypeOK

\* The stage of a rolled back publication goes.
LEMMA UnstageKeeps ==
    ASSUME PublicationInvariant, NEW p \in Procs, Unstage(p)
    PROVE  PublicationInvariant'
<1> USE DEF PublicationInvariant, Unstage, At, Goto
<1>0. pc[p] # "idle" /\ lock = p
    BY DEF LockInv
<1>1. TypeOK'
    BY RemovingFacts DEF TypeOK, Steps, ShapeInv
<1>2. LockInv'
    BY DEF LockInv
<1>3. ShapeInv'
    BY RemovingFacts DEF TypeOK, ShapeInv
<1>4. DiskInv'
    BY DEF DiskInv, Matches, Current, BeforeSwap, AfterSwap, Installed
<1>5. StepAt(p)'
    BY DEF StepInv, StepAt, Staging, RolledBack, BeforeSwap, Installed,
       Matches, Current
<1>6. ReceiptInv'
    BY DEF ReceiptInv, Installed
<1> QED
    BY <1>0, <1>1, <1>2, <1>3, <1>4, <1>5, <1>6, StepFrame DEF TypeOK

\* The reconciler takes over the token of the installed tree.
LEMMA RollForwardKeeps ==
    ASSUME PublicationInvariant, NEW p \in Procs, RollForward(p)
    PROVE  PublicationInvariant'
<1> USE DEF PublicationInvariant, RollForward, At, Goto, Accepted, disk
<1>0. pc[p] # "idle" /\ lock = p
    BY DEF LockInv
<1>1. TypeOK'
    BY DEF TypeOK, Steps, Journals
<1>2. LockInv'
    BY DEF LockInv
<1>3. ShapeInv' /\ DiskInv'
    BY Frame
<1>4. StepAt(p)'
    BY DEF StepAt, Staging, TypeOK, ShapeInv, DiskInv, BeforeSwap, AfterSwap,
       Installed, PublishJournal, Journals
<1>5. ReceiptInv'
    BY DEF ReceiptInv
<1> QED
    BY <1>0, <1>1, <1>2, <1>3, <1>4, <1>5, StepFrame DEF TypeOK

\* The reconciler resumes the deletion the journal names.
LEMMA ResumeDeleteKeeps ==
    ASSUME PublicationInvariant, NEW p \in Procs, ResumeDelete(p)
    PROVE  PublicationInvariant'
<1> USE DEF PublicationInvariant, ResumeDelete, At, Goto, Accepted, disk
<1>0. pc[p] # "idle" /\ lock = p
    BY DEF LockInv
<1>1. TypeOK'
    BY DEF TypeOK, Steps
<1>2. LockInv'
    BY DEF LockInv
<1>3. ShapeInv' /\ DiskInv'
    BY Frame
<1>4. StepAt(p)'
    BY DEF StepAt, Staging, TypeOK, ShapeInv, DeleteJournal, Journals
<1>5. ReceiptInv'
    BY ReceiptFrame
<1> QED
    BY <1>0, <1>1, <1>2, <1>3, <1>4, <1>5, StepFrame DEF TypeOK

\* The receipt says what the reconciler did.
LEMMA WriteReceiptKeeps ==
    ASSUME PublicationInvariant, NEW p \in Procs, WriteReceipt(p)
    PROVE  PublicationInvariant'
<1> USE DEF PublicationInvariant, WriteReceipt, At, Goto
<1>0. pc[p] # "idle" /\ lock = p
    BY DEF LockInv
<1>1. TypeOK'
    BY DEF TypeOK, Steps, Receipts
<1>2. LockInv'
    BY DEF LockInv
<1>3. ShapeInv' /\ DiskInv'
    BY Frame
<1>4. StepAt(p)'
    BY DEF StepInv, StepAt, Staging, Committed, RolledBack, Deleted,
       AfterSwap, BeforeSwap, Installed, Matches, Current
<1>5. ReceiptInv'
    BY DEF ReceiptInv, StepInv, StepAt, Committed, RolledBack, Deleted,
       PublishJournal, DeleteJournal, BeforeSwap, Installed, ShapeInv,
       LockInv
<1> QED
    BY <1>0, <1>1, <1>2, <1>3, <1>4, <1>5, StepFrame DEF TypeOK

\* A process that dies drops the lock; what the others rely on is on disk.
LEMMA StopKeeps ==
    ASSUME PublicationInvariant, NEW p \in Procs, Stop(p)
    PROVE  PublicationInvariant'
<1> USE DEF PublicationInvariant, Stop, At, Goto, Leave, disk
<1>0. pc[p] # "idle" /\ lock = p
    BY BoundsAssumption DEF LockInv, Steps
<1>1. TypeOK'
    BY BoundsAssumption DEF TypeOK
<1>2. LockInv'
    BY ConstantsDistinct, BoundsAssumption DEF LockInv, TypeOK, Steps
<1>3. ShapeInv' /\ DiskInv'
    BY Frame
<1>4. StepAt(p)'
    BY IdleStep DEF TypeOK
<1>5. ReceiptInv'
    BY ReceiptFrame
<1> QED
    BY <1>0, <1>1, <1>2, <1>3, <1>4, <1>5, StepFrame DEF TypeOK

\* Begin an operation or a reconciliation: the lock is taken.
LEMMA EnterKeeps ==
    ASSUME PublicationInvariant, NEW p \in Procs,
           NEW o \in Operations, NEW first \in {"recover", "examine"},
           Enter(p, o, first)
    PROVE  PublicationInvariant'
<1> USE DEF PublicationInvariant, Enter, At
<1>1. TypeOK'
    BY DEF TypeOK, Steps, disk
<1>2. LockInv'
    BY ConstantsDistinct DEF LockInv, TypeOK
<1>3. ShapeInv' /\ DiskInv'
    BY Frame DEF disk
<1>4. StepInv'
  <2>1. StepAt(p)'
      BY DEF StepAt, Staging, TypeOK, LockInv
  <2>2. ASSUME NEW q \in Procs, q # p
        PROVE  StepAt(q)'
      BY <2>2, ConstantsDistinct DEF StepAt, Staging, TypeOK, LockInv
  <2> QED
      BY <2>1, <2>2 DEF StepInv
<1>5. ReceiptInv'
    BY ReceiptFrame DEF disk
<1> QED
    BY <1>1, <1>2, <1>3, <1>4, <1>5

\* The digest an operator reviewed is not part of the invariant.
LEMMA ReviewKeeps ==
    ASSUME PublicationInvariant, NEW p \in Procs, Review(p)
    PROVE  PublicationInvariant'
<1> USE DEF PublicationInvariant, Review, disk
<1>1. TypeOK'
    BY DEF TypeOK
<1>2. LockInv'
    BY DEF LockInv
<1>3. ShapeInv' /\ DiskInv'
    BY Frame
<1>4. StepInv'
    BY StepInvFrame
<1>5. ReceiptInv'
    BY ReceiptFrame
<1> QED
    BY <1>1, <1>2, <1>3, <1>4, <1>5

-----------------------------------------------------------------------------
(* The invariant and the theorems *)

\* Every step of an operation under the lock keeps the invariant.
LEMMA WorkKeeps ==
    ASSUME PublicationInvariant, NEW p \in Procs, Work(p)
    PROVE  PublicationInvariant'
BY BlockedKeeps, RestoreOldKeeps, SweepOldKeeps, NoOldKeeps, SweepNewKeeps,
   ReturnKeeps, StageKeeps, WriteTreeKeeps, WriteMarkerKeeps, FenceKeeps,
   FailStageKeeps, DiscardKeeps, OpenJournalKeeps, WriteJournalKeeps,
   FailJournalKeeps, RetireKeeps, InstallKeeps, FailInstallKeeps,
   CommitSourceKeeps, CommitRowsKeeps, EraseKeeps, DeleteRowsKeeps,
   DeleteSourcesKeeps, CleanKeeps, CloseJournalKeeps, RefuseKeeps,
   RollBackKeeps, UnstageKeeps, RollForwardKeeps, ResumeDeleteKeeps,
   WriteReceiptKeeps
   DEF Work

\* So does every step of the system, and a step that changes nothing.
LEMMA NextKeeps ==
    ASSUME PublicationInvariant, [Next]_vars
    PROVE  PublicationInvariant'
<1>1. ASSUME NEW p \in Procs, Begin(p)
      PROVE  PublicationInvariant'
    BY <1>1, EnterKeeps
       DEF Begin, BeginPublish, BeginDelete, BeginInspect, Operations
<1>2. ASSUME NEW p \in Procs, BeginReconcile(p)
      PROVE  PublicationInvariant'
    BY <1>2, EnterKeeps, BoundsAssumption DEF BeginReconcile, Operations
<1>3. CASE UNCHANGED vars
    BY <1>3 DEF vars, disk, PublicationInvariant, TypeOK, LockInv, ShapeInv,
       DiskInv, StepInv, ReceiptInv, StepAt, Staging, Matches, BeforeSwap,
       AfterSwap, Committed, RolledBack, Deleted, Current, Installed, Pending,
       Exists
<1> QED
    BY <1>1, <1>2, <1>3, WorkKeeps, ReviewKeeps, StopKeeps DEF Next

\* The bases an installation may start from satisfy the invariant.
LEMMA InitHolds ==
    ASSUME Init
    PROVE  PublicationInvariant
<1> USE ConstantsDistinct DEF Init, NoTree, NoJournal
<1>1. TypeOK
  <2>1. final \in Tree /\ old \in Tree /\ new \in Tree
    <3>1. /\ NoTree \in Tree
          /\ \A b \in BOOLEAN :
                [content |-> Legacy, marker |-> None, whole |-> b] \in Tree
        BY DEF Tree, Contents
    <3> QED
        BY <3>1
  <2>2. journal \in Journals /\ receipt \in Receipts
      BY DEF Journals, Receipts, NoReceipt
  <2>3. rows \in Contents \cup {None} /\ sources \in BOOLEAN
      BY DEF Contents
  <2>4. pin \in [Procs -> Journals] /\ stops \in 0 .. MaxStops
      BY BoundsAssumption DEF Journals
  <2>5. fate \in [Contents -> {"fresh", "staged", "committed"}]
      OBVIOUS
  <2> QED
      BY <2>1, <2>2, <2>3, <2>4, <2>5 DEF TypeOK
<1>2. LockInv
    BY DEF LockInv
<1>3. ShapeInv
    BY DEF ShapeInv, Exists, Contents
<1>4. DiskInv
    BY DEF DiskInv, Matches, Current, Exists, Contents
<1>5. StepInv
    BY DEF StepInv, StepAt, Staging
<1>6. ReceiptInv
    BY DEF ReceiptInv, NoReceipt
<1> QED
    BY <1>1, <1>2, <1>3, <1>4, <1>5, <1>6 DEF PublicationInvariant

\* The inductive invariant holds in every reachable state, for every set of
\* processes, tokens, reconcilers and stopping points and every number of
\* stops.
THEOREM InvariantHolds == Spec => []PublicationInvariant
<1>1. Init => PublicationInvariant
    BY InitHolds
<1>2. PublicationInvariant /\ [Next]_vars => PublicationInvariant'
    BY NextKeeps
<1> QED
    BY <1>1, <1>2, PTL DEF Spec

\* Every variable of the protocol keeps to its type.
THEOREM TypeCorrect == Spec => []TypeOK
<1>1. PublicationInvariant => TypeOK
    BY DEF PublicationInvariant
<1> QED
    BY <1>1, InvariantHolds, PTL

\* Whenever no journal is pending, the tree a reader or the next recovery
\* finds is complete and is the one the rows describe.
THEOREM TreeMatchesCatalog == Spec => []CatalogMatchesTree
<1>1. PublicationInvariant => CatalogMatchesTree
    BY DEF PublicationInvariant, DiskInv, Matches, CatalogMatchesTree, Pending,
       NoJournal
<1> QED
    BY <1>1, InvariantHolds, PTL

\* Until a deletion is journaled, a complete copy of the tree the rows
\* describe exists.
THEOREM TreeSurvives == Spec => []CommittedTreeSurvives
<1>1. PublicationInvariant => CommittedTreeSurvives
  <2> SUFFICES ASSUME PublicationInvariant, rows # None,
                      journal.kind # "delete"
               PROVE  \E t \in {final, old} : t.whole /\ t.content = rows
      BY DEF CommittedTreeSurvives
  <2>1. CASE Matches(Current)
      BY <2>1 DEF Matches, Current
  <2>2. CASE AfterSwap /\ rows = journal.token
      BY <2>2 DEF PublicationInvariant, ShapeInv, AfterSwap, Installed
  <2>3. CASE AfterSwap /\ old.whole /\ old.content = rows
      BY <2>3
  <2> QED
      BY <2>1, <2>2, <2>3 DEF PublicationInvariant, TypeOK, Journals, DiskInv,
         BeforeSwap, AfterSwap
<1> QED
    BY <1>1, InvariantHolds, PTL

\* A recovery receipt says what happened to the publication it names.
THEOREM ReceiptsAreTrue == Spec => []ReceiptTruthful
<1>1. PublicationInvariant => ReceiptTruthful
    BY DEF PublicationInvariant, ReceiptInv, ReceiptTruthful
<1> QED
    BY <1>1, InvariantHolds, PTL

\* Only the commit of a publication and of a deletion change the rows.
LEMMA RowsChange ==
    ASSUME [Next]_vars, rows' # rows
    PROVE  \E p \in Procs : CommitRows(p) \/ DeleteRows(p)
<1>1. PICK p \in Procs :
          Begin(p) \/ Review(p) \/ BeginReconcile(p) \/ Work(p) \/ Stop(p)
    BY DEF Next, vars, disk
<1>2. ~(Begin(p) \/ Review(p) \/ BeginReconcile(p) \/ Stop(p))
    BY DEF Begin, BeginPublish, BeginDelete, BeginInspect, Review,
       BeginReconcile, Stop, Enter, disk
<1>3. Work(p)
    BY <1>1, <1>2
<1>4. CommitRows(p) \/ DeleteRows(p)
    BY <1>3 DEF Work, disk, Blocked, RestoreOld, SweepOld, NoOld, SweepNew,
       Return, Stage, WriteTree, WriteMarker, Fence, FailStage, Discard,
       OpenJournal, WriteJournal, FailJournal, Retire, Install, FailInstall,
       CommitSource, Erase, DeleteSources, Clean, CloseJournal, Refuse,
       RollBack, Unstage, RollForward, ResumeDelete, WriteReceipt
<1> QED
    BY <1>4

\* What the commits find: the rows change only to the journaled publication,
\* which is installed and was never committed, or to nothing, with the tree
\* removed.
LEMMA RowsChangeTo ==
    ASSUME PublicationInvariant, [Next]_vars, rows' # rows
    PROVE  \/ /\ rows' = None
              /\ journal = DeleteJournal /\ ~Exists(final)
           \/ /\ rows' \in Tokens /\ fate[rows'] = "staged"
              /\ journal = PublishJournal(rows')
              /\ final.whole /\ final.content = rows'
<1>1. PICK p \in Procs : CommitRows(p) \/ DeleteRows(p)
    BY RowsChange
<1>2. StepAt(p)
    BY DEF PublicationInvariant, StepInv
<1>3. CASE DeleteRows(p)
    BY <1>2, <1>3 DEF DeleteRows, At, StepAt
<1>4. CASE CommitRows(p)
    BY <1>2, <1>4 DEF CommitRows, At, StepAt, AfterSwap, Installed,
       PublishJournal, PublicationInvariant, ShapeInv, TypeOK
<1> QED
    BY <1>1, <1>3, <1>4

\* The rows never run ahead of the disk, in a publication, a deletion or
\* their replay by a reconciler.
THEOREM RowsOnlyFollow == Spec => RowsFollowTree
<1>1. PublicationInvariant /\ [Next]_vars =>
          [rows' # rows =>
             \/ /\ rows' = None
                /\ journal = DeleteJournal /\ ~Exists(final)
             \/ /\ journal = PublishJournal(rows')
                /\ final.whole /\ final.content = rows']_vars
    BY RowsChangeTo
<1> QED
    BY <1>1, InvariantHolds, PTL DEF Spec, RowsFollowTree

\* A publication that was replaced or deleted never becomes current again.
THEOREM NothingResurrected == Spec => NoResurrection
<1>1. PublicationInvariant /\ [Next]_vars =>
          [\A c \in Contents :
              fate[c] = "committed" /\ rows # c => rows' # c]_vars
    BY RowsChangeTo, ConstantsDistinct DEF Contents
<1> QED
    BY <1>1, InvariantHolds, PTL DEF Spec, NoResurrection

-----------------------------------------------------------------------------
(* Journals *)

\* Who changes the journal.
LEMMA JournalChange ==
    ASSUME [Next]_vars, journal' # journal
    PROVE  \E p \in Procs : OpenJournal(p) \/ WriteJournal(p)
                            \/ FailJournal(p) \/ CloseJournal(p)
<1>1. PICK p \in Procs :
          Begin(p) \/ Review(p) \/ BeginReconcile(p) \/ Work(p) \/ Stop(p)
    BY DEF Next, vars, disk
<1>2. ~(Begin(p) \/ Review(p) \/ BeginReconcile(p) \/ Stop(p))
    BY DEF Begin, BeginPublish, BeginDelete, BeginInspect, Review,
       BeginReconcile, Stop, Enter, disk
<1> QED
    BY <1>1, <1>2 DEF Work, disk, Blocked, RestoreOld, SweepOld, NoOld,
       SweepNew, Return, Stage, WriteTree, WriteMarker, Fence, FailStage,
       Discard, Retire, Install, FailInstall, CommitSource, CommitRows, Erase,
       DeleteRows, DeleteSources, Clean, Refuse, RollBack, Unstage,
       RollForward, ResumeDelete, WriteReceipt

\* A journal is opened where there is none, is written over a torn one while
\* the rows and the trees stay, and is removed when it has taken effect.
LEMMA JournalChangeTo ==
    ASSUME PublicationInvariant, [Next]_vars, journal' # journal
    PROVE  /\ UNCHANGED <<final, old, new, rows>>
           /\ \/ ~Pending /\ journal' = TornJournal
              \/ /\ journal = TornJournal /\ journal'.kind \in {"publish", "delete"}
                 /\ ~Exists(old)
              \/ /\ ~Pending'
                 /\ journal.kind = "publish" /\ Installed =>
                        rows = journal.token
<1>1. PICK p \in Procs : OpenJournal(p) \/ WriteJournal(p)
                         \/ FailJournal(p) \/ CloseJournal(p)
    BY JournalChange
<1>2. StepAt(p)
    BY DEF PublicationInvariant, StepInv
<1>3. CASE OpenJournal(p)
    BY <1>3 DEF OpenJournal, Pending
<1>4. CASE WriteJournal(p) \/ FailJournal(p)
    BY <1>2, <1>4 DEF WriteJournal, FailJournal, At, StepAt, PublishJournal,
       DeleteJournal
<1>5. CASE CloseJournal(p)
    BY <1>2, <1>5 DEF CloseJournal, At, StepAt, Pending, Committed, RolledBack,
       Deleted, BeforeSwap, PublishJournal, DeleteJournal
<1> QED
    BY <1>1, <1>3, <1>4, <1>5

\* A commit changes nothing but the rows and the fate.
LEMMA RowsChangeOnly ==
    ASSUME [Next]_vars, rows' # rows
    PROVE  UNCHANGED <<final, old, new, journal>>
BY RowsChange DEF CommitRows, DeleteRows

\* A journaled publication that is installed stays there until its journal
\* has been removed.
LEMMA InstalledStays ==
    ASSUME PublicationInvariant, [Next]_vars, journal' = journal,
           journal.kind = "publish", Installed
    PROVE  Installed'
<1> SUFFICES ASSUME final' # final
             PROVE  FALSE
    BY DEF Installed
<1>1. PICK p \in Procs :
          Begin(p) \/ Review(p) \/ BeginReconcile(p) \/ Work(p) \/ Stop(p)
    BY DEF Next, vars, disk
<1>2. ~(Begin(p) \/ Review(p) \/ BeginReconcile(p) \/ Stop(p))
    BY DEF Begin, BeginPublish, BeginDelete, BeginInspect, Review,
       BeginReconcile, Stop, Enter, disk
<1>3. RestoreOld(p) \/ Retire(p) \/ Install(p) \/ FailInstall(p)
      \/ RollBack(p) \/ Erase(p)
    BY <1>1, <1>2 DEF Work, disk, Blocked, SweepOld, NoOld, SweepNew, Return,
       Stage, WriteTree, WriteMarker, Fence, FailStage, Discard, OpenJournal,
       WriteJournal, FailJournal, CommitSource, CommitRows, DeleteRows,
       DeleteSources, Clean, CloseJournal, Refuse, Unstage, RollForward,
       ResumeDelete, WriteReceipt
<1>4. StepAt(p)
    BY DEF PublicationInvariant, StepInv
<1> QED
    BY <1>3, <1>4 DEF RestoreOld, Retire, Install, FailInstall, RollBack,
       Erase, At, StepAt, BeforeSwap, Pending, NoJournal, DeleteJournal

-----------------------------------------------------------------------------
(* Source files *)

\* Without a journal, and before the swap of a journaled publication, a base
\* without rows owns no source files; a deletion has removed them when it
\* cleans up.  The reconciler of the command line does not.
SourceInv ==
    /\ journal.kind \in {"none", "torn"} \/ (journal.kind = "publish" /\ ~Installed) =>
          (rows = None => ~sources)
    /\ \A p \in Procs :
          /\ pc[p] \in {"receipt", "clean", "close"} /\ journal.kind = "delete" =>
                ~sources
          /\ op[p] # "cli"

\* Only the commits of a publication and of a deletion touch the sources.
LEMMA SourcesChange ==
    ASSUME [Next]_vars, sources' # sources
    PROVE  \E p \in Procs : CommitSource(p) \/ DeleteSources(p)
<1>1. PICK p \in Procs :
          Begin(p) \/ Review(p) \/ BeginReconcile(p) \/ Work(p) \/ Stop(p)
    BY DEF Next, vars, disk
<1>2. ~(Begin(p) \/ Review(p) \/ BeginReconcile(p) \/ Stop(p))
    BY DEF Begin, BeginPublish, BeginDelete, BeginInspect, Review,
       BeginReconcile, Stop, Enter, disk
<1> QED
    BY <1>1, <1>2 DEF Work, disk, Blocked, RestoreOld, SweepOld, NoOld,
       SweepNew, Return, Stage, WriteTree, WriteMarker, Fence, FailStage,
       Discard, OpenJournal, WriteJournal, FailJournal, Retire, Install,
       FailInstall, CommitRows, Erase, DeleteRows, Clean, CloseJournal, Refuse,
       RollBack, Unstage, RollForward, ResumeDelete, WriteReceipt

\* While the lock holder works, the others are idle.
LEMMA OthersIdle ==
    ASSUME PublicationInvariant, NEW p \in Procs, Work(p)
    PROVE  \A q \in Procs \ {p} : pc[q] = "idle" /\ pc'[q] = "idle" /\ op'[q] = op[q]
<1>0. TypeOK /\ LockInv
    BY DEF PublicationInvariant
<1>1. pc[p] # "idle"
    BY DEF Work, At, Accepted, Blocked, RestoreOld, SweepOld, NoOld, SweepNew,
       Return, Stage, WriteTree, WriteMarker, Fence, FailStage, Discard,
       OpenJournal, WriteJournal, FailJournal, Retire, Install, FailInstall,
       CommitSource, CommitRows, Erase, DeleteRows, DeleteSources, Clean,
       CloseJournal, Refuse, RollBack, Unstage, RollForward, ResumeDelete,
       WriteReceipt
<1>2. \A q \in Procs \ {p} : pc'[q] = pc[q] /\ op'[q] = op[q]
    BY <1>0 DEF TypeOK, Work, Goto, Leave, Blocked, RestoreOld, SweepOld,
       NoOld, SweepNew, Return, Stage, WriteTree, WriteMarker, Fence,
       FailStage, Discard, OpenJournal, WriteJournal, FailJournal, Retire,
       Install, FailInstall, CommitSource, CommitRows, Erase, DeleteRows,
       DeleteSources, Clean, CloseJournal, Refuse, RollBack, Unstage,
       RollForward, ResumeDelete, WriteReceipt
<1> QED
    BY <1>0, <1>1, <1>2 DEF LockInv

\* The source files of a base follow its rows in every step.
LEMMA SourceKept ==
    ASSUME PublicationInvariant, SourceInv, [Next]_vars,
           "cli" \notin Reconcilers
    PROVE  SourceInv'
<1>0. TypeOK /\ StepInv /\ TypeOK'
    BY NextKeeps DEF PublicationInvariant
<1>1. ASSUME \/ journal'.kind \in {"none", "torn"}
             \/ journal'.kind = "publish" /\ ~Installed'
      PROVE  rows' = None => ~sources'
  <2>1. CASE sources' # sources
    <3>1. PICK p \in Procs : CommitSource(p) \/ DeleteSources(p)
        BY <2>1, SourcesChange
    <3> QED
        BY <1>0, <1>1, <3>1 DEF CommitSource, DeleteSources, StepInv, StepAt,
           At, AfterSwap, Installed, PublishJournal
  <2>2. CASE rows' # rows
      BY <1>1, <2>2, RowsChangeTo, RowsChangeOnly, ConstantsDistinct
         DEF DeleteJournal, Contents
  <2>3. CASE UNCHANGED <<sources, rows, journal>>
      BY <1>1, <2>3, InstalledStays DEF SourceInv
  <2>4. CASE UNCHANGED <<sources, rows>> /\ journal' # journal
    <3>1. PICK p \in Procs : OpenJournal(p) \/ WriteJournal(p)
                             \/ FailJournal(p) \/ CloseJournal(p)
        BY <2>4, JournalChange
    <3>2. StepAt(p)
        BY <1>0 DEF StepInv
    <3>3. CASE OpenJournal(p)
        BY <2>4, <3>3 DEF OpenJournal, SourceInv, NoJournal
    <3>4. CASE WriteJournal(p) \/ FailJournal(p)
        BY <2>4, <3>2, <3>4 DEF WriteJournal, FailJournal, StepAt, At,
           SourceInv, TornJournal
    <3>5. CASE CloseJournal(p)
        BY <2>4, <3>2, <3>5 DEF CloseJournal, StepAt, At, SourceInv, Committed,
           RolledBack, Deleted, BeforeSwap, DeleteJournal
    <3> QED
        BY <3>1, <3>3, <3>4, <3>5
  <2> QED
      BY <2>1, <2>2, <2>3, <2>4
<1>2. ASSUME NEW q \in Procs
      PROVE  /\ pc'[q] \in {"receipt", "clean", "close"}
                /\ journal'.kind = "delete" => ~sources'
             /\ op'[q] # "cli"
  <2>1. CASE UNCHANGED vars
      BY <2>1 DEF vars, disk, SourceInv
  <2>2. ASSUME NEW p \in Procs, Begin(p) \/ BeginReconcile(p) \/ Review(p) \/ Stop(p)
        PROVE  /\ pc'[q] \in {"receipt", "clean", "close"}
                  /\ journal'.kind = "delete" => ~sources'
               /\ op'[q] # "cli"
      BY <1>0, <2>2, BoundsAssumption
         DEF TypeOK, SourceInv, Begin, BeginPublish, BeginDelete, BeginInspect,
             BeginReconcile, Enter, Review, Stop, Leave, disk
  <2>3. ASSUME NEW p \in Procs, Work(p)
        PROVE  /\ pc'[q] \in {"receipt", "clean", "close"}
                  /\ journal'.kind = "delete" => ~sources'
               /\ op'[q] # "cli"
    <3>1. CASE q # p
        BY <2>3, <3>1, OthersIdle DEF SourceInv
    <3>2. CASE q = p
      <4>1. StepAt(p) /\ ~(op[p] = "cli")
            /\ (pc[p] \in {"receipt", "clean", "close"}
                /\ journal.kind = "delete" => ~sources)
          BY <1>0 DEF StepInv, SourceInv
      <4>2. op'[p] # "cli"
          BY <1>0, <2>3, <4>1 DEF TypeOK, Work, Goto, Leave, Blocked,
             RestoreOld, SweepOld, NoOld, SweepNew, Return, Stage, WriteTree,
             WriteMarker, Fence, FailStage, Discard, OpenJournal, WriteJournal,
             FailJournal, Retire, Install, FailInstall, CommitSource,
             CommitRows, Erase, DeleteRows, DeleteSources, Clean, CloseJournal,
             Refuse, RollBack, Unstage, RollForward, ResumeDelete, WriteReceipt
      <4>3. ASSUME pc'[p] \in {"receipt", "clean", "close"},
                   journal'.kind = "delete"
            PROVE  ~sources'
        <5>1. CommitRows(p) \/ DeleteRows(p) \/ DeleteSources(p) \/ Clean(p)
              \/ Unstage(p) \/ WriteReceipt(p)
            BY <1>0, <2>3, <4>3 DEF TypeOK, Work, Goto, Leave, Blocked,
               RestoreOld, SweepOld, NoOld, SweepNew, Return, Stage, WriteTree,
               WriteMarker, Fence, FailStage, Discard, OpenJournal,
               WriteJournal, FailJournal, Retire, Install, FailInstall,
               CommitSource, Erase, CloseJournal, Refuse, RollBack,
               RollForward, ResumeDelete
        <5> QED
            BY <1>0, <4>1, <4>3, <5>1 DEF TypeOK, CommitRows, DeleteRows,
               DeleteSources, Clean, Unstage, WriteReceipt, Goto, At, StepAt,
               PublishJournal, RolledBack
      <4> QED
          BY <3>2, <4>2, <4>3
    <3> QED
        BY <3>1, <3>2
  <2> QED
      BY <2>1, <2>2, <2>3 DEF Next
<1> QED
    BY <1>1, <1>2 DEF SourceInv, Installed

\* A base without rows and without a journal owns no source files, where
\* journals are reconciled over HTTP only.
THEOREM SourcesGoWithRows ==
    ASSUME "cli" \notin Reconcilers
    PROVE  Spec => []SourcesFollowRows
<1>1. Init => SourceInv
    BY DEF Init, SourceInv, NoJournal
<1>2. PublicationInvariant /\ SourceInv /\ [Next]_vars => SourceInv'
    BY SourceKept
<1>3. SourceInv => SourcesFollowRows
    BY DEF SourceInv, SourcesFollowRows, Pending, NoJournal
<1> QED
    BY <1>1, <1>2, <1>3, InvariantHolds, PTL DEF Spec

-----------------------------------------------------------------------------
(* Resolvable journals *)

\* The journal of a publication names one of the two trees, until a roll back
\* has removed the stage; a stage is discarded without a journal.
ResolveInv ==
    /\ journal.kind = "publish" =>
          \/ Installed \/ Staged
          \/ \E p \in Procs : pc[p] \in {"unstage", "receipt", "close"}
    /\ \A p \in Procs : pc[p] = "discard" => ~Pending

\* Only the roll back, and the rename into place, take the stage away from a
\* journaled publication.
LEMMA StagedStays ==
    ASSUME PublicationInvariant, ResolveInv, NEW p \in Procs, Work(p),
           journal' = journal, journal.kind = "publish", Staged
    PROVE  Installed' \/ Staged' \/ pc'[p] \in {"unstage", "receipt", "close"}
<1>0. TypeOK /\ ShapeInv /\ StepAt(p)
      /\ (pc[p] = "discard" => ~Pending)
    BY DEF PublicationInvariant, StepInv, ResolveInv
<1>1. CASE new' = new
    BY <1>0, <1>1 DEF Staged
<1>2. CASE new' # new
  <2>1. SweepNew(p) \/ Stage(p) \/ WriteTree(p) \/ WriteMarker(p) \/ Discard(p)
        \/ Install(p) \/ Erase(p) \/ Clean(p) \/ Unstage(p)
      BY <1>2 DEF Work, disk, Blocked, RestoreOld, SweepOld, NoOld, Return,
         Fence, FailStage, OpenJournal, WriteJournal, FailJournal, Retire,
         FailInstall, CommitSource, CommitRows, DeleteRows, DeleteSources,
         CloseJournal, Refuse, RollBack, RollForward, ResumeDelete, WriteReceipt
  <2>2. CASE Install(p)
      BY <1>0, <2>2 DEF Install, Staged, Installed
  <2>3. CASE Clean(p)
      BY <1>0, <2>3, InstalledStays
         DEF Clean, At, StepAt, Committed, Deleted, AfterSwap, Installed,
             DeleteJournal
  <2>4. CASE Unstage(p)
      BY <1>0, <2>4 DEF Unstage, Goto, TypeOK
  <2> QED
      BY <1>0, <2>1, <2>2, <2>3, <2>4
         DEF SweepNew, Stage, WriteTree, WriteMarker, Discard, Erase, At,
             StepAt, Pending, NoJournal, DeleteJournal
<1> QED
    BY <1>1, <1>2

\* Every step keeps an intact journal resolvable, unless a process stops in
\* one of the four steps.
LEMMA ResolveKept ==
    ASSUME PublicationInvariant, ResolveInv, [Next]_vars,
           StopAt \cap {"intent", "unstage", "receipt", "close"} = {}
    PROVE  ResolveInv'
<1>0. TypeOK /\ LockInv /\ StepInv
    BY DEF PublicationInvariant
<1>1. CASE UNCHANGED vars
    BY <1>1 DEF vars, disk, ResolveInv, Installed, Staged, Pending
<1>2. ASSUME NEW p \in Procs, Begin(p) \/ BeginReconcile(p) \/ Review(p) \/ Stop(p)
      PROVE  ResolveInv'
  <2>1. UNCHANGED <<final, new, journal>>
      BY <1>2 DEF Begin, BeginPublish, BeginDelete, BeginInspect,
         BeginReconcile, Enter, Review, Stop, disk
  <2>2. \A q \in Procs :
            /\ pc[q] \in {"unstage", "receipt", "close"} => pc'[q] = pc[q]
            /\ pc'[q] = "discard" => pc[q] = "discard"
      BY <1>0, <1>2 DEF TypeOK, Begin, BeginPublish, BeginDelete,
         BeginInspect, BeginReconcile, Enter, Review, Stop, Leave, At
  <2> QED
      BY <2>1, <2>2 DEF ResolveInv, Installed, Staged, Pending
<1>3. ASSUME NEW p \in Procs, Work(p)
      PROVE  ResolveInv'
  <2>0. StepAt(p) /\ (pc[p] = "discard" => ~Pending)
        /\ ~FailJournal(p)
      BY <1>0 DEF StepInv, ResolveInv, FailJournal
  <2>1. ASSUME journal'.kind = "publish"
        PROVE  Installed' \/ Staged'
               \/ pc'[p] \in {"unstage", "receipt", "close"}
    <3>1. CASE journal' # journal
      <4>1. WriteJournal(p)
          BY <1>3, <2>0, <2>1, <3>1
             DEF Work, disk, Blocked, RestoreOld, SweepOld, NoOld, SweepNew,
                 Return, Stage, WriteTree, WriteMarker, Fence, FailStage,
                 Discard, OpenJournal, Retire, Install, FailInstall,
                 CommitSource, CommitRows, Erase, DeleteRows, DeleteSources,
                 Clean, CloseJournal, Refuse, RollBack, Unstage, RollForward,
                 ResumeDelete, WriteReceipt, TornJournal, NoJournal
      <4> QED
          BY <2>0, <2>1, <4>1 DEF WriteJournal, At, StepAt, Staging, Staged,
             PublishJournal, DeleteJournal
    <3>2. CASE journal' = journal /\ (Installed \/ Staged)
        BY <1>3, <2>1, <3>2, InstalledStays, StagedStays DEF Next
    <3>3. CASE journal' = journal /\ ~Installed /\ ~Staged
      <4>1. pc[p] \in {"unstage", "receipt", "close"}
          BY <1>3, <2>1, <3>3, OthersIdle DEF ResolveInv
      <4>2. Unstage(p) \/ WriteReceipt(p) \/ CloseJournal(p)
          BY <1>3, <4>1 DEF Work, At, Accepted, Blocked, RestoreOld, SweepOld,
             NoOld, SweepNew, Return, Stage, WriteTree, WriteMarker, Fence,
             FailStage, Discard, OpenJournal, WriteJournal, FailJournal,
             Retire, Install, FailInstall, CommitSource, CommitRows, Erase,
             DeleteRows, DeleteSources, Clean, Refuse, RollBack, RollForward,
             ResumeDelete
      <4> QED
          BY <1>0, <2>1, <4>2 DEF Unstage, WriteReceipt, CloseJournal, Goto,
             TypeOK, NoJournal
    <3> QED
        BY <3>1, <3>2, <3>3
  <2>2. pc'[p] = "discard" => ~Pending'
    <3>1. SUFFICES ASSUME pc'[p] = "discard"
                   PROVE  ~Pending'
        OBVIOUS
    <3>2. FailStage(p) \/ Discard(p)
        BY <1>0, <1>3, <2>0, <3>1
           DEF TypeOK, Work, Goto, Leave, Blocked, RestoreOld, SweepOld, NoOld,
               SweepNew, Return, Stage, WriteTree, WriteMarker, Fence,
               OpenJournal, WriteJournal, Retire, Install, FailInstall,
               CommitSource, CommitRows, Erase, DeleteRows, DeleteSources,
               Clean, CloseJournal, Refuse, RollBack, Unstage, RollForward,
               ResumeDelete, WriteReceipt
    <3> QED
        BY <2>0, <3>2 DEF FailStage, Discard, StepAt, At, Pending, disk
  <2> QED
      BY <1>3, <2>1, <2>2, OthersIdle DEF ResolveInv
<1> QED
    BY <1>1, <1>2, <1>3 DEF Next

\* Between operations an intact publish journal can be resolved, where no
\* process stops while it writes a journal or after a roll back has removed
\* the stage.
THEOREM JournalsResolvable ==
    ASSUME StopAt \cap {"intent", "unstage", "receipt", "close"} = {}
    PROVE  Spec => []JournalResolvable
<1>1. Init => ResolveInv
    BY DEF Init, ResolveInv, NoJournal
<1>2. PublicationInvariant /\ ResolveInv /\ [Next]_vars => ResolveInv'
    BY ResolveKept
<1>3. PublicationInvariant /\ ResolveInv => JournalResolvable
    BY ConstantsDistinct
       DEF PublicationInvariant, LockInv, ResolveInv, JournalResolvable
<1> QED
    BY <1>1, <1>2, <1>3, InvariantHolds, PTL DEF Spec
=============================================================================
