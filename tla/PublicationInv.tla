--------------------------- MODULE PublicationInv ---------------------------
(***************************************************************************)
(* The inductive invariant behind the safety properties of Publication.    *)
(* The disk alone says whether a journaled publication is before its swap  *)
(* or after it, and in each case where the last committed tree is; the     *)
(* step of the lock holder says how far its operation has come.            *)
(***************************************************************************)
EXTENDS Publication

\* Only the lock holder is at a step of an operation, and only its token is
\* in use.
LockInv ==
    \A p \in Procs :
        /\ lock = p <=> pc[p] # "idle"
        /\ pc[p] = "idle" => tok[p] = None

ShapeInv ==
    /\ journal.kind = "publish" <=> journal.token # None
    /\ \A t \in {final, old, new} :
          /\ t.marker \in {None, t.content}
          /\ t.whole => Exists(t)
    /\ rows # None => fate[rows] = "committed"

Matches(tree) ==
    IF rows = None THEN ~Exists(tree) ELSE tree.whole /\ tree.content = rows

\* The journaled publication is not installed: its token was never committed
\* and the rows describe the tree that is installed or moved aside.
BeforeSwap ==
    /\ ~Installed
    /\ fate[journal.token] = "staged"
    /\ Matches(Current)

\* It is installed and complete; until its rows are committed the previous
\* tree is in .old.
AfterSwap ==
    /\ Installed /\ final.whole
    /\ \/ rows = journal.token
       \/ /\ fate[journal.token] = "staged"
          /\ rows # None => old.whole /\ old.content = rows

DiskInv ==
    /\ journal.kind \in {"none", "torn"} => Matches(Current)
    /\ journal.kind = "publish" => BeforeSwap \/ AfterSwap

Committed(p) ==
    /\ tok[p] # None /\ journal = PublishJournal(tok[p])
    /\ AfterSwap /\ rows = tok[p]

RolledBack(p) ==
    /\ tok[p] = None /\ journal.kind = "publish"
    /\ BeforeSwap

Deleted == journal = DeleteJournal /\ rows = None /\ ~Exists(final)

\* From the creation of the stage to its installation.
Staging(p) ==
    \/ pc[p] \in {"write", "mark", "fence", "journal", "retire", "install"}
    \/ pc[p] = "intent" /\ op[p] = "publish"

StepAt(p) ==
    /\ pc[p] \in {"sweep", "ready", "write", "mark", "fence", "journal"} =>
          ~Pending /\ ~Exists(old)
    /\ Staging(p) =>
          /\ tok[p] # None /\ fate[tok[p]] = "staged"
          /\ new.content = tok[p]
          /\ pc[p] # "write" => new.whole
          /\ pc[p] \notin {"write", "mark"} => new.marker = tok[p]
    /\ pc[p] = "intent" => journal = TornJournal /\ ~Exists(old)
    /\ pc[p] \in {"retire", "install"} =>
          journal = PublishJournal(tok[p]) /\ BeforeSwap
    /\ pc[p] = "retire" => ~Exists(old)
    /\ pc[p] = "install" => ~Exists(final)
    /\ pc[p] \in {"source", "rows"} =>
          tok[p] # None /\ journal = PublishJournal(tok[p]) /\ AfterSwap
    /\ pc[p] \in {"erase", "unlist", "unsource"} => journal = DeleteJournal
    /\ pc[p] \in {"unlist", "unsource"} =>
          ~Exists(final) /\ (op[p] = "delete" => ~Exists(old))
    /\ pc[p] = "unsource" => rows = None
    /\ pc[p] = "examine" => tok[p] = None
    /\ pc[p] = "unstage" => RolledBack(p)
    /\ pc[p] = "clean" => Committed(p) \/ Deleted
    /\ pc[p] \in {"receipt", "close"} =>
          Committed(p) \/ RolledBack(p) \/ (Deleted /\ ~Exists(old))

StepInv == \A p \in Procs : StepAt(p)

\* A publication reported rolled back is nowhere on its way to a commit.
ReceiptInv ==
    LET t == receipt.of.token IN
    /\ receipt.disposition = "committed" =>
           t # None /\ fate[t] = "committed"
    /\ receipt.disposition = "rolled-back" =>
           /\ t # None /\ fate[t] = "staged"
           /\ \A p \in Procs : tok[p] # t
           /\ journal.token = t => ~Installed
    /\ receipt.disposition = "deleted" => receipt.of = DeleteJournal

PublicationInvariant ==
    TypeOK /\ LockInv /\ ShapeInv /\ DiskInv /\ StepInv /\ ReceiptInv
=============================================================================
