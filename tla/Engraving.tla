----------------------------- MODULE Engraving ------------------------------
(***************************************************************************)
(* Engraving in a worker: the requests and sessions of the main thread     *)
(* (packages/engrave/src/verovio-worker.ts) and the worker that answers    *)
(* them (apps/web/public/verovio/render-worker.mjs) with one toolkit and   *)
(* one cached score.  A request that is not answered in time, or an error  *)
(* of the worker, ends the worker and every request; the next open starts  *)
(* another worker, which numbers its sessions from one again.              *)
(*                                                                         *)
(* The worker takes its messages one after the other, so each is one step. *)
(* elementPage asks like renderPage and is left out; so is the eviction of *)
(* cached pages, of which there are fewer here than the cache holds.       *)
(***************************************************************************)
EXTENDS Integers, Sequences

CONSTANTS Scores,       \* the scores to engrave, with their layout
          Large,        \* those too large for the cache
          Pages,        \* page numbers
          Nothing,      \* no score, no session, no page
          MaxRequests,  \* bound on the requests
          MaxWorkers    \* bound on the workers started

ASSUME EngravingConstants ==
    /\ Large \subseteq Scores /\ Nothing \notin Scores \cup Pages
    /\ MaxRequests \in Nat /\ MaxWorkers \in Nat

VARIABLES
    alive,     \* whether there is a worker
    gen,       \* workerGeneration
    requests,  \* number of requests, and the name of the last
    pending,   \* pendingRenders: the requests without an answer
    sessions,  \* the sessions opened and not closed
    inbox, outbox,  \* messages to and from the worker
    active,    \* in the worker: the active session
    opened,    \* in the worker: number of sessions
    toolkit,   \* in the worker: the score the toolkit holds
    cache,     \* in the worker: the score prepared last and its pages
    shown      \* history: the page shown last, and what had been asked for

thread == <<alive, gen, requests, pending, sessions>>
worker == <<active, opened, toolkit, cache>>
engravingVars == <<thread, inbox, outbox, worker, shown>>

Requests == [id : 1 .. MaxRequests, type : {"open", "page", "close"}, gen : 1 .. MaxWorkers,
             score : Scores, session : 0 .. MaxRequests, page : Pages \cup {Nothing}]
Images == [score : Scores \cup {Nothing}, page : Pages]
Replies == [id : 1 .. MaxRequests, gen : 1 .. MaxWorkers, session : 0 .. MaxRequests,
            type : {"prepared", "closed", "error", "page"}, image : Images \cup {Nothing}]

EngravingTypeOK ==
    /\ alive \in BOOLEAN /\ gen \in 0 .. MaxWorkers /\ requests \in 0 .. MaxRequests
    /\ pending \subseteq Requests
    /\ sessions \subseteq
         [session : 1 .. MaxRequests, gen : 1 .. MaxWorkers, score : Scores]
    /\ inbox \in Seq(Requests) /\ outbox \in Seq(Replies)
    /\ active \in [session : 1 .. MaxRequests, score : Scores, prepared : BOOLEAN]
                  \cup {Nothing}
    /\ opened \in 0 .. MaxRequests /\ toolkit \in Scores \cup {Nothing}
    /\ cache \in [score : Scores, pages : SUBSET Images] \cup {Nothing}
    /\ shown \in [asked : Requests, image : Images] \cup {Nothing}

EngravingInit ==
    /\ alive = FALSE /\ gen = 0 /\ requests = 0 /\ pending = {} /\ sessions = {}
    /\ inbox = <<>> /\ outbox = <<>>
    /\ active = Nothing /\ opened = 0 /\ toolkit = Nothing /\ cache = Nothing
    /\ shown = Nothing

-----------------------------------------------------------------------------
\* request: a worker is started if there is none.
Asks(type, score, session, page) ==
    /\ requests < MaxRequests /\ requests' = requests + 1
    /\ alive \/ gen < MaxWorkers
    /\ alive' = TRUE /\ gen' = IF alive THEN gen ELSE gen + 1
    /\ LET r == [id |-> requests', type |-> type, gen |-> gen', score |-> score,
                 session |-> session, page |-> page] IN
       pending' = pending \cup {r} /\ inbox' = Append(inbox, r)
    /\ UNCHANGED <<outbox, worker, shown>>

\* A session is good for the worker that opened it.
Usable(s) == alive /\ s.gen = gen

OpenScore(score) == Asks("open", score, 0, Nothing) /\ UNCHANGED sessions

RenderPage(s, page) ==
    /\ s \in sessions /\ Usable(s)
    /\ Asks("page", s.score, s.session, page) /\ UNCHANGED sessions

CloseSession(s) ==
    /\ s \in sessions /\ sessions' = sessions \ {s}
    /\ IF Usable(s) THEN Asks("close", s.score, s.session, Nothing)
       ELSE UNCHANGED <<alive, gen, requests, pending, inbox, outbox, worker, shown>>

\* Mutant: only the request that timed out is given up.
Dispose_One(r) ==
    /\ alive' = FALSE /\ pending' = pending \ {r}
    /\ inbox' = <<>>
    /\ active' = Nothing /\ opened' = 0 /\ toolkit' = Nothing /\ cache' = Nothing
    /\ UNCHANGED <<gen, requests, sessions, outbox, shown>>

\* disposeWorker: every request is rejected, because the timers of the others
\* no longer find their worker.
Dispose(r) ==
    /\ alive' = FALSE /\ pending' = {}
    /\ inbox' = <<>>
    /\ active' = Nothing /\ opened' = 0 /\ toolkit' = Nothing /\ cache' = Nothing
    /\ UNCHANGED <<gen, requests, sessions, outbox, shown>>

TimeOut(id) == \E r \in pending : r.id = id /\ alive /\ r.gen = gen /\ Dispose(r)

WorkerFails == alive /\ Dispose(Nothing)

\* onmessage: an answer of a former worker or to nobody's request is dropped,
\* and so is a page that is not the one asked for.
Deliver ==
    /\ outbox # <<>> /\ outbox' = Tail(outbox)
    /\ LET m == Head(outbox)
           asked == {r \in pending : r.id = m.id /\ alive /\ m.gen = gen} IN
       /\ pending' = pending \ asked
       /\ sessions' = sessions \cup
            {[session |-> m.session, gen |-> gen, score |-> r.score] :
               r \in {q \in asked : m.type = "prepared"}}
       /\ \/ \E r \in asked : /\ m.type = "page" /\ m.image.page = r.page
                              /\ m.session = r.session
                              /\ shown' = [asked |-> r, image |-> m.image]
          \/ /\ ~\E r \in asked : m.type = "page" /\ m.image.page = r.page
                                  /\ m.session = r.session
             /\ UNCHANGED shown
    /\ UNCHANGED <<alive, gen, requests, inbox, worker>>

-----------------------------------------------------------------------------
\* The worker takes the next message of a type and answers it.
Takes(type) == alive /\ inbox # <<>> /\ Head(inbox).type = type /\ inbox' = Tail(inbox)
Answers(type, session, image) ==
    outbox' = Append(outbox, [id |-> Head(inbox).id, gen |-> gen, type |-> type,
                              session |-> session, image |-> image])
Fails == Answers("error", 0, Nothing)

\* Mutant: what the cache holds is kept when the toolkit loads another score.
Prepare_KeepsCache(score, loads) ==
    /\ toolkit' = IF loads THEN score ELSE Nothing
    /\ cache' = IF loads /\ score \notin Large THEN [score |-> score, pages |-> {}]
                ELSE cache

\* prepareSession: the cache is emptied before the toolkit, which its score
\* shares, loads another one; a large score is not cached.
Prepare(score, loads) ==
    /\ toolkit' = IF loads THEN score ELSE Nothing
    /\ cache' = IF loads /\ score \notin Large THEN [score |-> score, pages |-> {}]
                ELSE Nothing

\* A new session supersedes the active one, even if its score cannot be read.
HandleOpen ==
    /\ Takes("open")
    /\ opened' = opened + 1
    /\ \E loads \in BOOLEAN :
         LET score == Head(inbox).score
             hit == cache # Nothing /\ cache.score = score IN
         /\ hit => loads
         /\ active' = [session |-> opened', score |-> score, prepared |-> loads]
         /\ IF hit THEN UNCHANGED <<toolkit, cache>> ELSE Prepare(score, loads)
         /\ IF loads THEN Answers("prepared", opened', Nothing) ELSE Fails
    /\ UNCHANGED <<thread, shown>>

HandlePage ==
    /\ Takes("page")
    /\ LET r == Head(inbox)
           entry == cache # Nothing /\ active # Nothing /\ cache.score = active.score
           kept == {i \in IF entry THEN cache.pages ELSE {} : i.page = r.page}
           image == [score |-> toolkit, page |-> r.page] IN
       IF active = Nothing \/ active.session # r.session \/ ~active.prepared
       THEN Fails /\ UNCHANGED cache
       ELSE \/ \E i \in kept : Answers("page", r.session, i) /\ UNCHANGED cache
            \/ /\ kept = {} /\ Answers("page", r.session, image)
               /\ cache' = IF entry THEN [cache EXCEPT !.pages = @ \cup {image}] ELSE cache
            \/ kept = {} /\ Fails /\ UNCHANGED cache
    /\ UNCHANGED <<thread, active, opened, toolkit, shown>>

HandleClose ==
    /\ Takes("close")
    /\ LET r == Head(inbox) IN
       /\ active' = IF active # Nothing /\ active.session = r.session
                    THEN Nothing ELSE active
       /\ Answers("closed", r.session, Nothing)
    /\ UNCHANGED <<thread, opened, toolkit, cache, shown>>

EngravingNext ==
    \/ \E score \in Scores : OpenScore(score)
    \/ \E s \in sessions : CloseSession(s) \/ \E page \in Pages : RenderPage(s, page)
    \/ \E id \in 1 .. MaxRequests : TimeOut(id)
    \/ WorkerFails \/ Deliver
    \/ HandleOpen \/ HandlePage \/ HandleClose

\* The timer of a request fires; nothing is assumed of the worker.
EngravingFairness == \A id \in 1 .. MaxRequests : WF_engravingVars(TimeOut(id))

-----------------------------------------------------------------------------
\* Whatever was opened, closed, cached, timed out and restarted before, a page
\* that is shown for a score is the page asked for of that very score.
PageOfItsScore ==
    shown # Nothing =>
      /\ shown.image.score = shown.asked.score
      /\ shown.image.page = shown.asked.page

\* Nobody waits for a page for ever.
RequestsSettle ==
    \A id \in 1 .. MaxRequests :
      (\E r \in pending : r.id = id) ~> ~\E r \in pending : r.id = id
=============================================================================
