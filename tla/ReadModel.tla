----------------------------- MODULE ReadModel ------------------------------
(***************************************************************************)
(* The cached song rows of one process: visibleSongRowsSnapshot of         *)
(* packages/catalog/src/db.ts.  A call never awaits, so writes of its own  *)
(* process come before or after it; another process may commit to the      *)
(* database or replace a policy file between any two of its reads.         *)
(*                                                                         *)
(* Database and policy files are version counters and a signature is the   *)
(* version it was taken at: file-fingerprint.ts and data_version make two  *)
(* versions with one signature impossible, and a signature torn by a       *)
(* change equals no later one, which only rebuilds once more.              *)
(***************************************************************************)
EXTENDS Integers

CONSTANTS MaxChanges,  \* bound on the changes of database and policy
          MaxPerCall   \* changes by other processes during one call

ASSUME ReadModelConstants == MaxChanges \in Nat /\ MaxPerCall \in Nat

VARIABLES
    data,     \* version of the database: songs and tombstones
    policy,   \* version of the policy files
    phase,    \* the next read of the call, or "idle"
    retried,  \* whether the call reads for the second time
    before,   \* the signatures the call began with
    after,    \* the signature of the database after the rows
    got,      \* the versions its rows were read at
    began,    \* history: the versions when the call began
    cache,    \* the cached rows and their signatures
    answer,   \* the versions of the rows last returned
    foreign   \* changes by other processes during this call

readModelVars ==
    <<data, policy, phase, retried, before, after, got, began, cache, answer, foreign>>

Versions == 0 .. MaxChanges
Signatures == [data : Versions, policy : Versions]
Reads == [policy : Versions, hidden : Versions, rows : Versions]
NoReads == [policy |-> 0, hidden |-> 0, rows |-> 0]
NoCache == [valid |-> FALSE, sig |-> [data |-> 0, policy |-> 0], of |-> NoReads]

ReadModelTypeOK ==
    /\ data \in Versions /\ policy \in Versions
    /\ phase \in {"idle", "data", "policy", "files", "hidden", "rows", "dataAgain",
                  "policyAgain"}
    /\ retried \in BOOLEAN
    /\ after \in Versions /\ before \in Signatures /\ began \in Signatures
    /\ got \in Reads /\ answer \in Reads
    /\ cache \in [valid : BOOLEAN, sig : Signatures, of : Reads]
    /\ foreign \in 0 .. MaxPerCall

ReadModelInit ==
    /\ data = 0 /\ policy = 0
    /\ phase = "idle" /\ retried = FALSE
    /\ before = [data |-> 0, policy |-> 0] /\ began = before
    /\ after = 0 /\ got = NoReads /\ answer = NoReads
    /\ cache = NoCache
    /\ foreign = 0

Current == [data |-> data, policy |-> policy]

-----------------------------------------------------------------------------
Call ==
    /\ phase = "idle"
    /\ phase' = "data" /\ began' = Current /\ foreign' = 0
    /\ UNCHANGED <<data, policy, retried, before, after, got, cache, answer>>

SignData ==
    /\ phase = "data"
    /\ before' = [before EXCEPT !.data = data]
    /\ phase' = "policy"
    /\ UNCHANGED <<data, policy, retried, after, got, began, cache, answer, foreign>>

\* The call returns rows read at the versions `of`.
Return(of) ==
    /\ answer' = of
    /\ phase' = "idle" /\ retried' = FALSE
    /\ before' = [data |-> 0, policy |-> 0] /\ got' = NoReads

\* The cached rows are used only under the signatures they are stored with.
SignPolicy ==
    /\ phase = "policy"
    /\ LET sig == [before EXCEPT !.policy = policy] IN
       IF cache.valid /\ cache.sig = sig
       THEN Return(cache.of)
       ELSE before' = sig /\ phase' = "files" /\ UNCHANGED <<retried, got, answer>>
    /\ UNCHANGED <<data, policy, after, began, cache, foreign>>

ReadPolicyFiles ==
    /\ phase = "files"
    /\ got' = [got EXCEPT !.policy = policy]
    /\ phase' = "hidden"
    /\ UNCHANGED <<data, policy, retried, before, after, began, cache, answer, foreign>>

ReadTombstones ==
    /\ phase = "hidden"
    /\ got' = [got EXCEPT !.hidden = data]
    /\ phase' = "rows"
    /\ UNCHANGED <<data, policy, retried, before, after, began, cache, answer, foreign>>

SelectSongs ==
    /\ phase = "rows"
    /\ got' = [got EXCEPT !.rows = data]
    /\ phase' = "dataAgain"
    /\ UNCHANGED <<data, policy, retried, before, after, began, cache, answer, foreign>>

SignDataAfter ==
    /\ phase = "dataAgain"
    /\ after' = data
    /\ phase' = "policyAgain"
    /\ UNCHANGED <<data, policy, retried, before, got, began, cache, answer, foreign>>

Store(sig) == cache' = [valid |-> TRUE, sig |-> sig, of |-> got]

\* Mutant: the rows are stored under the signatures read after them, with no
\* second look.
SignPolicyAfter_Once ==
    /\ phase = "policyAgain"
    /\ Store([data |-> after, policy |-> policy]) /\ Return(got)
    /\ UNCHANGED <<data, policy, after, began, foreign>>

\* Rows read while something changed are read once more; the second rows
\* are stored with the signatures read after them, whatever happened since.
SignPolicyAfter ==
    /\ phase = "policyAgain"
    /\ LET sig == [data |-> after, policy |-> policy] IN
       IF ~retried /\ sig # before
       THEN /\ phase' = "files" /\ retried' = TRUE /\ got' = NoReads
            /\ UNCHANGED <<before, cache, answer>>
       ELSE Store(sig) /\ Return(got)
    /\ UNCHANGED <<data, policy, after, began, foreign>>

-----------------------------------------------------------------------------
\* A write of this process: it drops the cache (invalidateSongReadModel).
OwnWrite ==
    /\ phase = "idle" /\ data < MaxChanges
    /\ data' = data + 1
    /\ cache' = NoCache
    /\ UNCHANGED <<policy, phase, retried, before, after, got, began, answer, foreign>>

\* Another process, between any two reads; the counter is of this call.
Foreign ==
    /\ phase = "idle" \/ foreign < MaxPerCall
    /\ foreign' = IF phase = "idle" THEN foreign ELSE foreign + 1
    /\ \/ data < MaxChanges /\ data' = data + 1 /\ UNCHANGED policy
       \/ policy < MaxChanges /\ policy' = policy + 1 /\ UNCHANGED data
    /\ UNCHANGED <<phase, retried, before, after, got, began, cache, answer>>

ReadModelNext ==
    \/ Call \/ SignData \/ SignPolicy
    \/ ReadPolicyFiles \/ ReadTombstones \/ SelectSongs \/ SignDataAfter \/ SignPolicyAfter
    \/ OwnWrite \/ Foreign

ReadModelSpec == ReadModelInit /\ [][ReadModelNext]_readModelVars

-----------------------------------------------------------------------------
\* With at most one foreign change during a call, its answer shows songs and
\* tombstones of one instant, and nothing older than the call: a base that
\* is quarantined before or during the call never shows half.
AnswerOfOneInstant ==
    [][phase # "idle" /\ phase' = "idle" =>
         /\ answer'.hidden = answer'.rows
         /\ answer'.rows >= began.data
         /\ answer'.policy >= began.policy]_readModelVars

\* The cache "carries filesystem/SQLite signatures so a write made by another
\* process cannot leave the read model stale" (db.ts:25-27): rows a call would
\* return from the cache are those of the database and the policy files now.
HitIsCurrent ==
    phase = "idle" /\ cache.valid /\ cache.sig = Current =>
      cache.of = [policy |-> policy, hidden |-> data, rows |-> data]
=============================================================================
