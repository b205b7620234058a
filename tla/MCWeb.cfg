\* Parts run one at a time, so the bounds below multiply only within a part.
CONSTANTS
    \* read model: one foreign change in a call (MCStaleHit has two)
    MaxChanges = 3
    MaxPerCall = 1
    \* song update: three requests out of two edits, two harmonies, an ingest
    \* and a deletion
    Updates = {u1, u2}
    Harmonies = {h1, h2}
    Ingests = {i1}
    Deletes = {d1}
    None = None
    First = First
    AnyRevision = AnyRevision
    MaxSent = 3
    MaxPlays = 1
    MaxHalts = 1
    \* handoff: two processes, an expected and an unexpected file
    Servers = {s1, s2}
    Files = {f1, f2}
    Expected = {f1}
    NoFile = NoFile
    MaxRevisions = 2
    MaxUploads = 3
    \* transport
    Notes <- WebNotes
    Regions <- WebRegions
    Duration = 4
    Lookahead = 1
    Stall = 2
    Tail = 1
    NoRange = NoRange
    \* upload: a first one, one that replaces it, and a stop and a replay of each
    Stagings = {m1, m2}
    NoStaging = NoStaging
    MaxKills = 3
SPECIFICATION WebSpec
SYMMETRY Interchangeable
\* a part may be done: every request sent, every upload made
CHECK_DEADLOCK FALSE
INVARIANTS
    WebTypeOK
    BaseAgrees
    AcceptedWasPublished
    AttacksExact
    ScoreAddsUp
    SourceRetained
PROPERTIES
    AnswerOfOneInstant
    EditsCompose
    EditsSpec
    PlaysNeverConflict
    RevisionHonoured
    UploadReplacesReviewed
    ConfirmKeepsBinding
