---------------------------- MODULE Publication ----------------------------
(***************************************************************************)
(* The publication protocol of one base (one song) of the catalog:         *)
(* packages/catalog/src/publish.ts with the commits of reconcile.ts and    *)
(* the two reconcilers, recovery.ts (HTTP) and reconcile-artifacts.ts      *)
(* (command line).                                                         *)
(*                                                                         *)
(* On disk a base has three directories (installed, .old, .new) and one    *)
(* journal file; in SQLite it has its catalog rows; beside them it has     *)
(* source files.  Each operation runs under the lock of the base and is    *)
(* cut into the file-system and database steps between which the process   *)
(* can die.  The data of a tree is the token of the publication that wrote *)
(* it.  Every publisher modelled passes afterSwap, as those of the service *)
(* do, so a publish journal always requires a commit.                      *)
(***************************************************************************)
EXTENDS Naturals, FiniteSets

CONSTANTS
    Procs,        \* processes that can take the lock of the base
    Tokens,       \* publication ids (randomUUID), each used once
    None,         \* no token, no holder, no rows
    Legacy,       \* the content of a tree written before markers existed
    Reconcilers,  \* the reconcilers in use: "http", "cli"
    StopAt,       \* the steps at which a process may stop
    MaxStops      \* bound on the number of stops

Contents == Tokens \cup {Legacy}

Steps == {"recover", "sweep", "ready", "write", "mark", "fence", "discard",
          "journal", "intent", "retire", "install", "source", "rows",
          "clean", "close", "erase", "unlist", "unsource",
          "examine", "unstage", "receipt"}

ASSUME ConstantsDistinct ==
    /\ None \notin Contents /\ None \notin Procs
    /\ Legacy \notin Tokens
ASSUME BoundsAssumption ==
    /\ Reconcilers \subseteq {"http", "cli"}
    /\ StopAt \subseteq Steps
    /\ MaxStops \in Nat

VARIABLES
    final, old, new,  \* the trees BASE, .BASE.old and .BASE.new
    journal,          \* .BASE.reconciliation.json
    receipt,          \* .BASE.recovery-receipt.json
    rows,             \* the publication whose rows the catalog holds
    sources,          \* whether BASE owns source files
    lock,             \* the process that holds .BASE.lock.sqlite
    pc, op, tok,      \* per process: its step, its operation, its token
    pin,              \* per process: the journal an operator reviewed
    fate,             \* history: what became of each publication
    stops             \* number of stops so far

disk == <<final, old, new, journal, receipt, rows, sources>>
vars == <<disk, lock, pc, op, tok, pin, fate, stops>>

-----------------------------------------------------------------------------
(* Values *)

Tree == [content : Contents \cup {None}, marker : Tokens \cup {None},
         whole : BOOLEAN]
NoTree == [content |-> None, marker |-> None, whole |-> FALSE]
Exists(t) == t.content # None

\* What a recursive rm may have left of a tree so far: nothing, or a
\* directory with some files missing, the marker perhaps among them.
Removing(t) ==
    {NoTree} \cup {[t EXCEPT !.marker = m, !.whole = FALSE] :
                      m \in {t.marker, None}}

Journals == [kind : {"none", "torn", "publish", "delete"},
             token : Tokens \cup {None}]
NoJournal == [kind |-> "none", token |-> None]
TornJournal == [kind |-> "torn", token |-> None]
PublishJournal(t) == [kind |-> "publish", token |-> t]
DeleteJournal == [kind |-> "delete", token |-> None]
Pending == journal # NoJournal

Receipts == [of : Journals,
             disposition : {"none", "rolled-back", "committed", "deleted"}]
NoReceipt == [of |-> NoJournal, disposition |-> "none"]

Operations == {"publish", "delete", "inspect", "http", "cli"}

TypeOK ==
    /\ final \in Tree /\ old \in Tree /\ new \in Tree
    /\ journal \in Journals
    /\ receipt \in Receipts
    /\ rows \in Contents \cup {None}
    /\ sources \in BOOLEAN
    /\ lock \in Procs \cup {None}
    /\ pc \in [Procs -> Steps \cup {"idle"}]
    /\ op \in [Procs -> Operations \cup {"none"}]
    /\ tok \in [Procs -> Tokens \cup {None}]
    /\ pin \in [Procs -> Journals]
    /\ fate \in [Contents -> {"fresh", "staged", "committed"}]
    /\ stops \in 0 .. MaxStops

\* A base that was never published, or what a release without journals left
\* of one: its tree, its tree moved aside by an interrupted swap, or its
\* tree and a backup half removed.
Init ==
    LET legacy == [content |-> Legacy, marker |-> None, whole |-> TRUE]
        scraps == [legacy EXCEPT !.whole = FALSE]
    IN  /\ \/ final = NoTree /\ old = NoTree /\ rows = None
           \/ final = legacy /\ old = NoTree /\ rows = Legacy
           \/ final = NoTree /\ old = legacy /\ rows = Legacy
           \/ final = legacy /\ old = scraps /\ rows = Legacy
        /\ new = NoTree
        /\ journal = NoJournal
        /\ receipt = NoReceipt
        /\ sources = (rows # None)
        /\ lock = None
        /\ pc = [p \in Procs |-> "idle"]
        /\ op = [p \in Procs |-> "none"]
        /\ tok = [p \in Procs |-> None]
        /\ pin = [p \in Procs |-> NoJournal]
        /\ fate = [c \in Contents |-> IF c = rows THEN "committed" ELSE "fresh"]
        /\ stops = 0

-----------------------------------------------------------------------------
(* The lock.  A busy lock makes the caller throw, which changes nothing.   *)

Goto(p, step) ==
    /\ pc' = [pc EXCEPT ![p] = step]
    /\ UNCHANGED <<lock, op>>

At(p, step) == pc[p] = step

\* Mutant: the lock is taken without being free.
Enter_Unlocked(p, o, first) ==
    /\ At(p, "idle")
    /\ lock' = p
    /\ pc' = [pc EXCEPT ![p] = first]
    /\ op' = [op EXCEPT ![p] = o]
    /\ UNCHANGED <<disk, tok, pin, fate, stops>>

Enter(p, o, first) ==
    /\ At(p, "idle")
    /\ lock = None
    /\ lock' = p
    /\ pc' = [pc EXCEPT ![p] = first]
    /\ op' = [op EXCEPT ![p] = o]
    /\ UNCHANGED <<disk, tok, pin, fate, stops>>

\* The operation returns or throws; closing the database drops the lock.
Leave(p) ==
    /\ lock' = None
    /\ pc' = [pc EXCEPT ![p] = "idle"]
    /\ op' = [op EXCEPT ![p] = "none"]
    /\ tok' = [tok EXCEPT ![p] = None]
    /\ UNCHANGED <<pin, fate>>

BeginPublish(p) == Enter(p, "publish", "recover")
BeginDelete(p) == Enter(p, "delete", "recover")
BeginInspect(p) == Enter(p, "inspect", "recover")

-----------------------------------------------------------------------------
(* recoverBaseArtifact, the preamble of publish, delete and inspect        *)

\* A journal of any kind makes the call throw ArtifactReconciliationError.
Blocked(p) ==
    /\ At(p, "recover")
    /\ Pending
    /\ Leave(p)
    /\ UNCHANGED <<disk, stops>>

\* The swap of an old release was cut between its renames: put back .old.
RestoreOld(p) ==
    /\ At(p, "recover") /\ ~Pending
    /\ ~Exists(final) /\ Exists(old)
    /\ final' = old
    /\ old' = NoTree
    /\ Goto(p, "sweep")
    /\ UNCHANGED <<new, journal, receipt, rows, sources, tok, pin, fate, stops>>

\* The installed tree wins over an abandoned backup.
SweepOld(p) ==
    /\ At(p, "recover") /\ ~Pending
    /\ Exists(final) /\ Exists(old)
    /\ old' \in Removing(old)
    /\ Goto(p, IF Exists(old') THEN "recover" ELSE "sweep")
    /\ UNCHANGED <<final, new, journal, receipt, rows, sources, tok, pin, fate, stops>>

NoOld(p) ==
    /\ At(p, "recover") /\ ~Pending
    /\ ~Exists(old)
    /\ Goto(p, "sweep")
    /\ UNCHANGED <<disk, tok, pin, fate, stops>>

\* An abandoned stage is discarded.
SweepNew(p) ==
    /\ At(p, "sweep")
    /\ IF Exists(new) THEN new' \in Removing(new) ELSE new' = new
    /\ Goto(p, IF Exists(new') THEN "sweep" ELSE "ready")
    /\ UNCHANGED <<final, old, journal, receipt, rows, sources, tok, pin, fate, stops>>

\* inspectBaseArtifact, or a publisher whose reuseExisting accepts the tree.
Return(p) ==
    /\ At(p, "ready")
    /\ op[p] \in {"inspect", "publish"}
    /\ Leave(p)
    /\ UNCHANGED <<disk, stops>>

-----------------------------------------------------------------------------
(* publishBaseArtifact *)

\* rm and mkdir of .new, and a token nobody has used.
Stage(p) ==
    /\ At(p, "ready") /\ op[p] = "publish"
    /\ \E t \in Tokens :
          /\ fate[t] = "fresh"
          /\ fate' = [fate EXCEPT ![t] = "staged"]
          /\ tok' = [tok EXCEPT ![p] = t]
          /\ new' = [content |-> t, marker |-> None, whole |-> FALSE]
    /\ Goto(p, "write")
    /\ UNCHANGED <<final, old, journal, receipt, rows, sources, pin, stops>>

\* Mutant: the stage is published without its marker.
WriteTree_Unmarked(p) ==
    /\ At(p, "write")
    /\ new' = [new EXCEPT !.whole = TRUE]
    /\ Goto(p, "fence")
    /\ UNCHANGED <<final, old, journal, receipt, rows, sources, tok, pin, fate, stops>>

\* The writer fills the stage; manifest, completeness and semantics hold.
WriteTree(p) ==
    /\ At(p, "write")
    /\ new' = [new EXCEPT !.whole = TRUE]
    /\ Goto(p, "mark")
    /\ UNCHANGED <<final, old, journal, receipt, rows, sources, tok, pin, fate, stops>>

WriteMarker(p) ==
    /\ At(p, "mark")
    /\ old' = NoTree
    /\ new' = [new EXCEPT !.marker = tok[p]]
    /\ Goto(p, "fence")
    /\ UNCHANGED <<final, journal, receipt, rows, sources, tok, pin, fate, stops>>

\* Mutant: the swap starts without a journal.
Fence_Unjournaled(p) ==
    /\ At(p, "fence")
    /\ Goto(p, "retire")
    /\ UNCHANGED <<disk, tok, pin, fate, stops>>

\* beforeSwap lets the publication go on.
Fence(p) ==
    /\ At(p, "fence")
    /\ Goto(p, "journal")
    /\ UNCHANGED <<disk, tok, pin, fate, stops>>

\* The writer, a check of the stage or beforeSwap throws.
FailStage(p) ==
    /\ pc[p] \in {"write", "mark", "fence"}
    /\ Goto(p, "discard")
    /\ UNCHANGED <<disk, tok, pin, fate, stops>>

Discard(p) ==
    /\ At(p, "discard")
    /\ new' \in Removing(new)
    /\ IF Exists(new') THEN Goto(p, "discard") /\ UNCHANGED <<tok, pin, fate>>
                       ELSE Leave(p)
    /\ UNCHANGED <<final, old, journal, receipt, rows, sources, stops>>

\* writeFile with flag wx creates the file before it holds a byte.  A delete
\* comes here straight from the preamble, once its snapshot is taken.
OpenJournal(p) ==
    /\ \/ At(p, "journal") /\ op[p] = "publish"
       \/ At(p, "ready") /\ op[p] = "delete"
    /\ journal = NoJournal
    /\ journal' = TornJournal
    /\ Goto(p, "intent")
    /\ UNCHANGED <<final, old, new, receipt, rows, sources, tok, pin, fate, stops>>

\* Mutant: the database is updated before the swap.
WriteJournal_RowsFirst(p) ==
    /\ At(p, "intent")
    /\ journal' = IF op[p] = "publish" THEN PublishJournal(tok[p])
                                       ELSE DeleteJournal
    /\ Goto(p, IF op[p] = "publish" THEN "source" ELSE "erase")
    /\ UNCHANGED <<final, old, new, receipt, rows, sources, tok, pin, fate, stops>>

WriteJournal(p) ==
    /\ At(p, "intent")
    /\ journal' = IF op[p] = "publish" THEN PublishJournal(tok[p])
                                       ELSE DeleteJournal
    /\ Goto(p, IF op[p] = "publish" THEN "retire" ELSE "erase")
    /\ UNCHANGED <<final, old, new, receipt, rows, sources, tok, pin, fate, stops>>

\* writeFile throws, before its bytes are written or in the flush after
\* them: the publisher takes the journal for unwritten and drops the stage.
FailJournal(p) ==
    /\ At(p, "intent") /\ op[p] = "publish"
    /\ "intent" \in StopAt
    /\ journal' \in {TornJournal, PublishJournal(tok[p])}
    /\ Goto(p, "discard")
    /\ UNCHANGED <<final, old, new, receipt, rows, sources, tok, pin, fate, stops>>

\* rename BASE to .BASE.old, when there is one.
Retire(p) ==
    /\ At(p, "retire")
    /\ IF Exists(final) THEN old' = final /\ final' = NoTree
                        ELSE UNCHANGED <<final, old>>
    /\ Goto(p, "install")
    /\ UNCHANGED <<new, journal, receipt, rows, sources, tok, pin, fate, stops>>

\* Mutant: the backup goes with the rename, before the commit.
Install_NoBackup(p) ==
    /\ At(p, "install")
    /\ final' = new
    /\ new' = NoTree /\ old' = NoTree
    /\ Goto(p, "source")
    /\ UNCHANGED <<journal, receipt, rows, sources, tok, pin, fate, stops>>

Install(p) ==
    /\ At(p, "install")
    /\ final' = new
    /\ new' = NoTree
    /\ Goto(p, "source")
    /\ UNCHANGED <<old, journal, receipt, rows, sources, tok, pin, fate, stops>>

\* The rename fails: the previous tree goes back and the journal stays.
FailInstall(p) ==
    /\ At(p, "install")
    /\ IF ~Exists(final) /\ Exists(old) THEN final' = old /\ old' = NoTree
                                        ELSE UNCHANGED <<final, old>>
    /\ Leave(p)
    /\ UNCHANGED <<new, journal, receipt, rows, sources, stops>>

-----------------------------------------------------------------------------
(* commitCatalogPublication, run as afterSwap or by a reconciler *)

\* The upload is moved into place before the rows change.
CommitSource(p) ==
    /\ At(p, "source")
    /\ sources' = TRUE
    /\ Goto(p, "rows")
    /\ UNCHANGED <<final, old, new, journal, receipt, rows, tok, pin, fate, stops>>

CommitRows(p) ==
    /\ At(p, "rows")
    /\ rows' = tok[p]
    /\ fate' = [fate EXCEPT ![tok[p]] = "committed"]
    /\ Goto(p, "clean")
    /\ UNCHANGED <<final, old, new, journal, receipt, sources, tok, pin, stops>>

-----------------------------------------------------------------------------
(* deleteBaseArtifact and commitCatalogDeletion *)

\* A delete removes all three trees, a reconciler the installed one.
Erase(p) ==
    /\ At(p, "erase")
    /\ IF Exists(final) THEN final' \in Removing(final) ELSE final' = final
    /\ IF Exists(final')
       THEN Goto(p, "erase") /\ UNCHANGED <<old, new>>
       ELSE /\ Goto(p, "unlist")
            /\ IF op[p] = "delete" THEN old' = NoTree /\ new' = NoTree
                                   ELSE UNCHANGED <<old, new>>
    /\ UNCHANGED <<journal, receipt, rows, sources, tok, pin, fate, stops>>

\* Mutant: no reconciler removes source files.
DeleteRows_KeepSources(p) ==
    /\ At(p, "unlist")
    /\ rows' = None
    /\ Goto(p, IF op[p] = "delete" THEN "unsource" ELSE "clean")
    /\ UNCHANGED <<final, old, new, journal, receipt, sources, tok, pin, fate, stops>>

\* deleteBaseRows.  The command line stops here: it removes no source file.
DeleteRows(p) ==
    /\ At(p, "unlist")
    /\ rows' = None
    /\ Goto(p, IF op[p] = "cli" THEN "clean" ELSE "unsource")
    /\ UNCHANGED <<final, old, new, journal, receipt, sources, tok, pin, fate, stops>>

DeleteSources(p) ==
    /\ At(p, "unsource")
    /\ sources' = FALSE
    /\ Goto(p, IF op[p] = "delete" THEN "close" ELSE "clean")
    /\ UNCHANGED <<final, old, new, journal, receipt, rows, tok, pin, fate, stops>>

-----------------------------------------------------------------------------
(* The end of every operation that wrote or resolved a journal *)

\* rm of .old, and by a reconciler of .new as well.
Clean(p) ==
    /\ At(p, "clean")
    /\ IF Exists(old) THEN old' \in Removing(old) ELSE old' = old
    /\ new' = IF op[p] = "publish" \/ Exists(old') THEN new ELSE NoTree
    /\ Goto(p, IF Exists(old') THEN "clean"
               ELSE IF op[p] = "http" THEN "receipt" ELSE "close")
    /\ UNCHANGED <<final, journal, receipt, rows, sources, tok, pin, fate, stops>>

CloseJournal(p) ==
    /\ At(p, "close")
    /\ journal' = NoJournal
    /\ Leave(p)
    /\ UNCHANGED <<final, old, new, receipt, rows, sources, stops>>

-----------------------------------------------------------------------------
(* reconcileBaseArtifact *)

\* The recovery inventory shows an operator the hash of a journal; it takes
\* no lock, and its answer may be stale when it is used.
Review(p) ==
    /\ At(p, "idle")
    /\ "http" \in Reconcilers
    /\ Pending
    /\ pin' = [pin EXCEPT ![p] = journal]
    /\ UNCHANGED <<disk, lock, pc, op, tok, fate, stops>>

BeginReconcile(p) ==
    \E r \in Reconcilers :
        /\ r = "http" => pin[p] # NoJournal
        /\ Enter(p, r, "examine")

\* Mutant: any installed tree passes for the journaled one.
Installed_AnyTree == Exists(final)

Installed == final.marker = journal.token
Staged == new.marker = journal.token

\* No journal (the stored receipt may answer), another journal than the one
\* reviewed, a journal that does not parse, a publication found in neither
\* tree, or an installed tree with files missing.
Refuse(p) ==
    /\ At(p, "examine")
    /\ \/ ~Pending
       \/ op[p] = "http" /\ pin[p] # journal
       \/ journal.kind = "torn"
       \/ journal.kind = "publish" /\ ~Installed /\ ~Staged
       \/ journal.kind = "publish" /\ Installed /\ ~final.whole
    /\ Leave(p)
    /\ UNCHANGED <<disk, stops>>

Accepted(p) ==
    /\ At(p, "examine")
    /\ op[p] = "http" => pin[p] = journal

\* Mutant: a roll back insists on a backup to restore.
RollBack_NeedsOld(p) ==
    /\ Accepted(p)
    /\ journal.kind = "publish" /\ ~Installed /\ Staged
    /\ Exists(old)
    /\ final' = old /\ old' = NoTree
    /\ Goto(p, "unstage")
    /\ UNCHANGED <<new, journal, receipt, rows, sources, tok, pin, fate, stops>>

\* The swap never happened: the previous tree goes back, the rows stay.
RollBack(p) ==
    /\ Accepted(p)
    /\ journal.kind = "publish" /\ ~Installed /\ Staged
    /\ IF ~Exists(final) /\ Exists(old) THEN final' = old /\ old' = NoTree
                                        ELSE UNCHANGED <<final, old>>
    /\ Goto(p, "unstage")
    /\ UNCHANGED <<new, journal, receipt, rows, sources, tok, pin, fate, stops>>

Unstage(p) ==
    /\ At(p, "unstage")
    /\ new' \in Removing(new)
    /\ Goto(p, IF Exists(new') THEN "unstage"
               ELSE IF op[p] = "http" THEN "receipt" ELSE "close")
    /\ UNCHANGED <<final, old, journal, receipt, rows, sources, tok, pin, fate, stops>>

\* Mutant: the receipt is written before the commit is replayed.
RollForward_ReceiptFirst(p) ==
    /\ Accepted(p)
    /\ journal.kind = "publish" /\ Installed /\ final.whole
    /\ tok' = [tok EXCEPT ![p] = journal.token]
    /\ Goto(p, "receipt")
    /\ UNCHANGED <<disk, pin, fate, stops>>

\* The new tree is installed and complete: replay its commit.
RollForward(p) ==
    /\ Accepted(p)
    /\ journal.kind = "publish" /\ Installed /\ final.whole
    /\ tok' = [tok EXCEPT ![p] = journal.token]
    /\ Goto(p, "source")
    /\ UNCHANGED <<disk, pin, fate, stops>>

ResumeDelete(p) ==
    /\ Accepted(p)
    /\ journal.kind = "delete"
    /\ Goto(p, "erase")
    /\ UNCHANGED <<disk, tok, pin, fate, stops>>

\* finish: the receipt is renamed into place before the journal goes.
\* tok is set exactly when the publication was committed.
WriteReceipt(p) ==
    /\ At(p, "receipt")
    /\ receipt' = [of |-> journal,
                   disposition |-> IF journal.kind = "delete" THEN "deleted"
                                   ELSE IF tok[p] = None THEN "rolled-back"
                                   ELSE "committed"]
    /\ Goto(p, "close")
    /\ UNCHANGED <<final, old, new, journal, rows, sources, tok, pin, fate, stops>>

-----------------------------------------------------------------------------
\* The process dies, or a call throws where no handler touches the disk:
\* either way the lock is dropped and the files stay as they are.
Stop(p) ==
    /\ pc[p] \in StopAt
    /\ stops < MaxStops
    /\ stops' = stops + 1
    /\ Leave(p)
    /\ UNCHANGED disk

Begin(p) == BeginPublish(p) \/ BeginDelete(p) \/ BeginInspect(p)

Work(p) ==
    \/ Blocked(p) \/ RestoreOld(p) \/ SweepOld(p) \/ NoOld(p) \/ SweepNew(p)
    \/ Return(p) \/ Stage(p) \/ WriteTree(p) \/ WriteMarker(p) \/ Fence(p)
    \/ FailStage(p) \/ Discard(p) \/ OpenJournal(p) \/ WriteJournal(p)
    \/ FailJournal(p) \/ Retire(p) \/ Install(p) \/ FailInstall(p)
    \/ CommitSource(p) \/ CommitRows(p)
    \/ Erase(p) \/ DeleteRows(p) \/ DeleteSources(p)
    \/ Clean(p) \/ CloseJournal(p)
    \/ Refuse(p) \/ RollBack(p) \/ Unstage(p) \/ RollForward(p)
    \/ ResumeDelete(p) \/ WriteReceipt(p)

Next ==
    \E p \in Procs :
        Begin(p) \/ Review(p) \/ BeginReconcile(p) \/ Work(p) \/ Stop(p)

Spec == Init /\ [][Next]_vars

\* A process that holds the lock runs on; an operator keeps reviewing and
\* reconciling a pending journal although others compete for the lock.
Reconciling(p) == Pending /\ BeginReconcile(p)
FairSpec ==
    /\ Spec
    /\ \A p \in Procs : /\ WF_vars(Work(p))
                        /\ SF_vars(Review(p))
                        /\ SF_vars(Reconciling(p))
-----------------------------------------------------------------------------
(* Properties *)

Current == IF Exists(final) THEN final ELSE old

\* Whenever no journal is pending, whatever step any process is at and
\* wherever earlier ones stopped, the tree a reader or the next recovery
\* finds is complete and is the one the catalog rows describe; a base
\* without rows has no tree (withBaseArtifactLock, publishBaseArtifact,
\* deleteBaseArtifact, reconcileBaseArtifact).
CatalogMatchesTree ==
    ~Pending => IF rows = None THEN ~Exists(Current)
                ELSE Current.whole /\ Current.content = rows

\* Until a deletion is journaled, a complete copy of the tree the rows
\* describe exists, installed or moved aside: no crash in a swap, in its
\* clean-up or in a reconciliation loses the last good copy.
CommittedTreeSurvives ==
    rows # None /\ journal.kind # "delete" =>
        \E t \in {final, old} : t.whole /\ t.content = rows

\* The rows change only to what is on disk: to a publication whose complete
\* tree is installed and whose journal is pending, or to nothing once the
\* tree is gone ("SQLite updates belong in afterSwap, never before the swap").
RowsFollowTree ==
    [][rows' # rows =>
         \/ /\ rows' = None
            /\ journal = DeleteJournal /\ ~Exists(final)
         \/ /\ journal = PublishJournal(rows')
            /\ final.whole /\ final.content = rows']_vars

\* A publication that was replaced or deleted never becomes current again:
\* no late commit and no replayed reconciliation brings its rows back.
NoResurrection ==
    [][\A c \in Contents :
          fate[c] = "committed" /\ rows # c => rows' # c]_vars

\* A recovery receipt says what happened: a publication reported committed
\* has had its rows in the catalog, one reported rolled back never has and
\* never will, and one reported deleted was journaled as a deletion.
ReceiptTruthful ==
    /\ receipt.disposition = "committed" =>
           fate[receipt.of.token] = "committed"
    /\ receipt.disposition = "rolled-back" =>
           fate[receipt.of.token] # "committed"
    /\ receipt.disposition = "deleted" => receipt.of = DeleteJournal

\* A base whose rows are gone and that has no pending journal owns no source
\* files any more: commitCatalogDeletion survives a stop between its database
\* commit and its source clean-up.
SourcesFollowRows == ~Pending /\ rows = None => ~sources

\* The recovery guarantee of docs/publication-failure-model.md: between
\* operations, an intact publish journal can be resolved, because one of the
\* two trees carries its token.
JournalResolvable ==
    lock = None /\ journal.kind = "publish" => Installed \/ Staged

\* A pending journal is eventually resolved by explicit reconciliation.
PendingIsResolved == Pending ~> ~Pending
-----------------------------------------------------------------------------
(* Refinement: the base is a register, suspended while a journal is pending *)

Unavailable == "unavailable"

Register == INSTANCE CatalogRegister WITH
    Values <- Contents,
    value <- rows,
    served <- IF Pending THEN Unavailable ELSE Current.content,
    phase <- CASE ~Pending -> "settled"
               [] journal = PublishJournal(rows) -> "decided"
               [] journal = DeleteJournal /\ rows = None -> "decided"
               [] OTHER -> "open",
    past <- {c \in Contents : fate[c] = "committed"}

\* However its processes interleave and stop, a base is served, suspended
\* and changed like that register.
RegisterSpec == Register!Spec
=============================================================================
