------------------------------ MODULE Postings ------------------------------
(***************************************************************************)
(* The job-board feed: the tables source_boards and postings, the Celery   *)
(* task that ingests every live board, the freshness sweep, and the API    *)
(* requests that add and delete a board.                                   *)
(*                                                                         *)
(* One ingest run is a set of coroutines, one per board, each with its own *)
(* session.  A coroutine commits three times (health, upsert, links) and   *)
(* other boards' coroutines and API requests run between the commits, so   *)
(* each stretch between two of its awaits that others can tell apart is an *)
(* action of its own.  The worker pool is "solo": two tasks never overlap, *)
(* but an API request overlaps with anything.                              *)
(*                                                                         *)
(* A posting is named by its unique key (board, external_id); a board id   *)
(* is used once (a board registered again gets a fresh UUID).  A content   *)
(* stands for the hashed fields, title and description.  Instead of        *)
(* last_seen_at the model keeps the days since an active posting was last  *)
(* seen, cut off just past the freshness window: the sweep is the only     *)
(* reader of the column, and it reads active rows only.                    *)
(*                                                                         *)
(* A definition marked as a broken variant is what the one after it would  *)
(* be with a bug; no other definition uses it.  They show what each        *)
(* property is able to catch.                                              *)
(***************************************************************************)
EXTENDS Integers, FiniteSets

CONSTANTS
    Boards,         \* source_boards.id
    PostingIds,     \* (source_board_id, external_id) pairs
    Home,           \* the board of each posting
    Repeated,       \* postings whose external_id an answer may list twice
    Contents,       \* what title and description may say
    Ratio(_, _, _, _), \* Ratio(b, c, d, e): token_sort_ratio of the dedup keys
                    \* of content c on board b and content e on board d
    Threshold,      \* crossboard_dedup_threshold
    DegradedAfter,  \* board_degraded_after
    DeadAfter,      \* board_dead_after
    FreshnessDays,  \* posting_freshness_days
    Caps,           \* what a run may be told of concurrency
    None            \* SQL NULL

ASSUME FeedAssumption ==
    /\ Home \in [PostingIds -> Boards]
    /\ Repeated \subseteq PostingIds
    /\ None \notin PostingIds \cup Contents

ASSUME LimitsAssumption ==
    /\ DegradedAfter \in Nat /\ DeadAfter \in Nat
    /\ 0 < DegradedAfter /\ DegradedAfter < DeadAfter
    /\ FreshnessDays \in Nat
    /\ Caps \subseteq Int /\ Caps # {}

VARIABLES
    registered, \* Boards -> "new", "watched" or "deleted"
    failures,   \* source_boards.consecutive_failures
    health,     \* source_boards.health
    stored,     \* the rows of postings
    active,     \* rows with is_active
    expired,    \* rows with a deactivated_at
    content,    \* title, description_text and content_hash of a row
    canon,      \* canonical_posting_id
    age,        \* days since last_seen_at, of an active row
    worker,     \* what the solo worker is doing: "free" or "ingest"
    permits,    \* how many coroutines the run's semaphore lets in at once
    job,        \* how far each board's coroutine is
    listed,     \* raw_postings: the content a fetch returned for a posting
    plan        \* links computed by link_cross_board_duplicates, not committed

boardVars == <<registered, failures, health>>
rowVars   == <<stored, active, expired, content, canon, age>>
runVars   == <<worker, permits, job, listed, plan>>
vars      == <<boardVars, rowVars, runVars>>

Healths == {"healthy", "degraded", "dead"}
Stages  == {"idle", "queued", "fetching", "upserting", "linking", "committing", "done"}
InFlight == {"fetching", "upserting", "linking", "committing"}
Nothing == [p \in PostingIds |-> None]

Of(b)   == {p \in PostingIds : Home[p] = b}
Seen(b) == {p \in Of(b) : listed[p] # None}

\* Broken variant.
DeadOneLate(n) ==
    IF n > DeadAfter THEN "dead"
    ELSE IF n >= DegradedAfter THEN "degraded" ELSE "healthy"

HealthFor(n) ==
    IF n >= DeadAfter THEN "dead"
    ELSE IF n >= DegradedAfter THEN "degraded" ELSE "healthy"

TypeOK ==
    /\ registered \in [Boards -> {"new", "watched", "deleted"}]
    /\ failures \in [Boards -> Nat]
    /\ health \in [Boards -> Healths]
    /\ stored \subseteq PostingIds
    /\ active \subseteq PostingIds
    /\ expired \subseteq PostingIds
    /\ content \in [PostingIds -> Contents \cup {None}]
    /\ canon \in [PostingIds -> PostingIds \cup {None}]
    /\ age \in [PostingIds -> 0 .. FreshnessDays + 1]
    /\ worker \in {"free", "ingest"}
    /\ permits \in Nat
    /\ job \in [Boards -> Stages]
    /\ listed \in [PostingIds -> Contents \cup {None}]
    /\ plan \in [PostingIds -> PostingIds \cup {None}]

Init ==
    /\ registered = [b \in Boards |-> "new"]
    /\ failures = [b \in Boards |-> 0]
    /\ health = [b \in Boards |-> "healthy"]
    /\ stored = {} /\ active = {} /\ expired = {}
    /\ content = Nothing
    /\ canon = Nothing
    /\ age = [p \in PostingIds |-> 0]
    /\ worker = "free"
    /\ permits = 0
    /\ job = [b \in Boards |-> "idle"]
    /\ listed = Nothing
    /\ plan = Nothing

-----------------------------------------------------------------------------
(* API requests. *)

(* The live fetch that validates the board succeeded; a failed one answers *)
(* 422 and changes nothing.                                                *)
CreateBoard(b) ==
    /\ registered[b] = "new"
    /\ registered' = [registered EXCEPT ![b] = "watched"]
    /\ UNCHANGED <<failures, health, rowVars, runVars>>

\* Broken variant.
DeletesBoardOnly(b) ==
    /\ registered[b] = "watched"
    /\ registered' = [registered EXCEPT ![b] = "deleted"]
    /\ UNCHANGED <<failures, health, rowVars, runVars>>

(* ON DELETE CASCADE takes the board's postings, ON DELETE SET NULL the    *)
(* links that pointed at them.                                             *)
DeleteBoard(b) ==
    /\ registered[b] = "watched"
    /\ registered' = [registered EXCEPT ![b] = "deleted"]
    /\ stored' = stored \ Of(b)
    /\ active' = active \ Of(b)
    /\ expired' = expired \ Of(b)
    /\ content' = [p \in PostingIds |-> IF p \in Of(b) THEN None ELSE content[p]]
    /\ age' = [p \in PostingIds |-> IF p \in Of(b) THEN 0 ELSE age[p]]
    /\ canon' = [p \in PostingIds |->
                   IF p \in Of(b) \/ canon[p] \in Of(b) THEN None ELSE canon[p]]
    /\ UNCHANGED <<failures, health, runVars>>

-----------------------------------------------------------------------------
(* The ingest task. *)

\* Broken variant.
StartsForAll(cap) ==
    /\ worker = "free"
    /\ worker' = "ingest"
    /\ permits' = IF cap > 1 THEN cap ELSE 1
    /\ job' = [b \in Boards |-> IF registered[b] = "watched" THEN "queued" ELSE "idle"]
    /\ UNCHANGED <<boardVars, rowVars, listed, plan>>

(* The board list is read once; dead boards are left out of it.  The       *)
(* semaphore lets in one coroutine at least.                               *)
IngestStart(cap) ==
    /\ worker = "free"
    /\ worker' = "ingest"
    /\ permits' = IF cap > 1 THEN cap ELSE 1
    /\ job' = [b \in Boards |->
                 IF registered[b] = "watched" /\ health[b] # "dead"
                 THEN "queued" ELSE "idle"]
    /\ UNCHANGED <<boardVars, rowVars, listed, plan>>

(* The coroutine gets the semaphore, if it is not taken by as many as it   *)
(* lets in, and loads the board again.                                     *)
Acquire(b) ==
    /\ job[b] = "queued"
    /\ Cardinality({c \in Boards : job[c] \in InFlight}) < permits
    /\ job' = [job EXCEPT ![b] = IF registered[b] = "watched" THEN "fetching" ELSE "done"]
    /\ UNCHANGED <<boardVars, rowVars, worker, permits, listed, plan>>

(* The source answered with the postings in response. *)
FetchSucceeds(b, response) ==
    /\ job[b] = "fetching"
    /\ registered[b] = "watched"
    /\ failures' = [failures EXCEPT ![b] = 0]
    /\ health' = [health EXCEPT ![b] = "healthy"]
    /\ listed' = [p \in PostingIds |-> IF p \in Of(b) THEN response[p] ELSE listed[p]]
    /\ job' = [job EXCEPT ![b] = "upserting"]
    /\ UNCHANGED <<registered, rowVars, worker, permits, plan>>

(* A SourceError: the streak and the health are committed, and the caller  *)
(* gets an empty list.                                                     *)
FetchFails(b) ==
    /\ job[b] = "fetching"
    /\ registered[b] = "watched"
    /\ failures' = [failures EXCEPT ![b] = @ + 1]
    /\ health' = [health EXCEPT ![b] = HealthFor(failures[b] + 1)]
    /\ listed' = [p \in PostingIds |-> IF p \in Of(b) THEN None ELSE listed[p]]
    /\ job' = [job EXCEPT ![b] = "upserting"]
    /\ UNCHANGED <<registered, rowVars, worker, permits, plan>>

(* An answer that lists a new posting twice: inserting both rows violates  *)
(* the unique key of (board, external_id).                                 *)
MayInsertTwice(b) == (Seen(b) \ stored) \cap Repeated # {}

\* Broken variant.
ClosedOnAllBoards(b) == active \ Seen(b)

(* Rows the response left out. *)
Closed(b) == (active \cap Of(b)) \ Seen(b)

(* New rows, refreshed rows, reactivated rows and closed rows, in one      *)
(* transaction.                                                            *)
Upsert(b) ==
    /\ job[b] = "upserting"
    /\ registered[b] = "watched" \/ Seen(b) = {}
    /\ stored' = stored \cup Seen(b)
    /\ active' = (active \ Closed(b)) \cup Seen(b)
    /\ expired' = (expired \ Seen(b)) \cup Closed(b)
    /\ content' = [p \in PostingIds |-> IF p \in Seen(b) THEN listed[p] ELSE content[p]]
    /\ age' = [p \in PostingIds |-> IF p \in Seen(b) \cup Closed(b) THEN 0 ELSE age[p]]
    /\ listed' = [p \in PostingIds |-> IF p \in Of(b) THEN None ELSE listed[p]]
    /\ job' = [job EXCEPT ![b] = "linking"]
    /\ UNCHANGED <<boardVars, canon, worker, permits, plan>>

(* Rows on other boards that a link may look at, and the score they get. *)
Candidates(b) == {q \in active : Home[q] # b}
Score(p, q) == Ratio(Home[p], content[p], Home[q], content[q])

(* The best candidate of p: any of the highest score, as the rows come in  *)
(* no order.                                                               *)
IsBest(p, q) ==
    /\ q \in Candidates(Home[p])
    /\ Score(p, q) >= Threshold
    /\ \A r \in Candidates(Home[p]) : Score(p, r) <= Score(p, q)

CanonicalOf(q) == IF canon[q] # None THEN canon[q] ELSE q

\* Broken variant.
LinksToItself(p, target) ==
    \/ /\ \A q \in PostingIds : ~ IsBest(p, q)
       /\ target = None
    \/ \E q \in PostingIds : IsBest(p, q) /\ target = CanonicalOf(q)

(* The link computed for p, None when there is no match or it is p itself. *)
IsLink(p, target) ==
    \/ /\ \A q \in PostingIds : ~ IsBest(p, q)
       /\ target = None
    \/ \E q \in PostingIds :
         /\ IsBest(p, q)
         /\ target = IF CanonicalOf(q) = p THEN None ELSE CanonicalOf(q)

(* The rows to link: those of the board that have no link yet. *)
\* Broken variant.
LinksAgain(b) == Of(b) \cap active
ToLink(b) == {p \in Of(b) \cap active : canon[p] = None}

(* The two SELECTs of link_cross_board_duplicates and its loop. *)
LinkScan(b) ==
    /\ job[b] = "linking"
    /\ \E links \in [PostingIds -> PostingIds \cup {None}] :
         /\ \A p \in PostingIds :
              IF p \in ToLink(b) THEN IsLink(p, links[p]) ELSE links[p] = plan[p]
         /\ plan' = links
    /\ job' = [job EXCEPT ![b] = "committing"]
    /\ UNCHANGED <<boardVars, rowVars, worker, permits, listed>>

\* Broken variant.
LinksReset(b) ==
    /\ job[b] = "committing"
    /\ \A p \in Of(b) : plan[p] # None => p \in stored /\ plan[p] \in stored
    /\ canon' = [p \in PostingIds |-> IF p \in Of(b) THEN plan[p] ELSE canon[p]]
    /\ plan' = [p \in PostingIds |-> IF p \in Of(b) THEN None ELSE plan[p]]
    /\ job' = [job EXCEPT ![b] = "done"]
    /\ UNCHANGED <<boardVars, stored, active, expired, content, age, worker, permits, listed>>

(* Its commit, which the foreign key refuses when a target is gone. *)
LinkCommit(b) ==
    /\ job[b] = "committing"
    /\ \A p \in Of(b) : plan[p] # None => p \in stored /\ plan[p] \in stored
    /\ canon' = [p \in PostingIds |->
                   IF p \in Of(b) /\ plan[p] # None THEN plan[p] ELSE canon[p]]
    /\ plan' = [p \in PostingIds |-> IF p \in Of(b) THEN None ELSE plan[p]]
    /\ job' = [job EXCEPT ![b] = "done"]
    /\ UNCHANGED <<boardVars, stored, active, expired, content, age, worker, permits, listed>>

(* What makes the coroutine raise: a bug in a client (anything that is not *)
(* a SourceError), a board or a link target deleted under it, or a unique  *)
(* key it violates.                                                        *)
Raises(b) ==
    \/ job[b] = "fetching"
    \/ job[b] = "upserting" /\ (registered[b] # "watched" \/ MayInsertTwice(b))
    \/ job[b] = "committing"
       /\ \E p \in Of(b) : plan[p] # None /\ ~ (p \in stored /\ plan[p] \in stored)

\* Broken variant.
RetriesWithoutEnd(b) ==
    /\ Raises(b)
    /\ job' = [job EXCEPT ![b] = "queued"]
    /\ listed' = [p \in PostingIds |-> IF p \in Of(b) THEN None ELSE listed[p]]
    /\ plan' = [p \in PostingIds |-> IF p \in Of(b) THEN None ELSE plan[p]]
    /\ UNCHANGED <<boardVars, rowVars, worker, permits>>

(* gather() has no return_exceptions: the first coroutine that raises ends *)
(* the task, asyncio.run cancels the others, and what they had not         *)
(* committed is rolled back.                                               *)
RunAborts(b) ==
    /\ Raises(b)
    /\ worker' = "free"
    /\ permits' = 0
    /\ job' = [c \in Boards |-> "idle"]
    /\ listed' = Nothing
    /\ plan' = Nothing
    /\ UNCHANGED <<boardVars, rowVars>>

IngestFinish ==
    /\ worker = "ingest"
    /\ \A b \in Boards : job[b] \in {"idle", "done"}
    /\ worker' = "free"
    /\ permits' = 0
    /\ job' = [b \in Boards |-> "idle"]
    /\ UNCHANGED <<boardVars, rowVars, listed, plan>>

-----------------------------------------------------------------------------
(* The freshness sweep, and the days going by. *)

\* Broken variant.
StaleADayEarly == {p \in active : age[p] >= FreshnessDays}
Stale == {p \in active : age[p] > FreshnessDays}

\* Broken variant.
CleanupOfCanonicals ==
    LET gone == {p \in Stale : canon[p] = None}
    IN  /\ worker = "free"
        /\ gone # {}
        /\ active' = active \ gone
        /\ expired' = expired \cup gone
        /\ age' = [p \in PostingIds |-> IF p \in gone THEN 0 ELSE age[p]]
        /\ UNCHANGED <<boardVars, stored, content, canon, runVars>>

FreshnessCleanup ==
    /\ worker = "free"
    /\ Stale # {}
    /\ active' = active \ Stale
    /\ expired' = expired \cup Stale
    /\ age' = [p \in PostingIds |-> IF p \in Stale THEN 0 ELSE age[p]]
    /\ UNCHANGED <<boardVars, stored, content, canon, runVars>>

DayPasses ==
    /\ \E p \in active : age[p] <= FreshnessDays
    /\ age' = [p \in PostingIds |->
                 IF p \in active /\ age[p] <= FreshnessDays THEN age[p] + 1 ELSE age[p]]
    /\ UNCHANGED <<boardVars, stored, active, expired, content, canon, runVars>>

-----------------------------------------------------------------------------
(* What a source may list for board b: any subset of its postings. *)
Responses(b) ==
    {r \in [PostingIds -> Contents \cup {None}] :
        \A p \in PostingIds : Home[p] # b => r[p] = None}

BoardStep(b) ==
    \/ Acquire(b)
    \/ job[b] = "fetching" /\ \E r \in Responses(b) : FetchSucceeds(b, r)
    \/ FetchFails(b)
    \/ Upsert(b)
    \/ LinkScan(b)
    \/ LinkCommit(b)
    \/ RunAborts(b)

Next ==
    \/ \E b \in Boards : CreateBoard(b) \/ DeleteBoard(b) \/ BoardStep(b)
    \/ \E cap \in Caps : IngestStart(cap)
    \/ IngestFinish
    \/ FreshnessCleanup
    \/ DayPasses

Spec == Init /\ [][Next]_vars

(* The event loop runs some coroutine that can run, a client times out,    *)
(* and the broker's queue hands the daily sweep to the worker some time,   *)
(* however many ingest runs are queued: strong fairness for the sweep,     *)
(* whose turn comes again and again between two runs.                      *)
Fairness ==
    /\ WF_vars(\E b \in Boards : BoardStep(b))
    /\ WF_vars(IngestFinish)
    /\ SF_vars(FreshnessCleanup)

FairSpec == Spec /\ Fairness

-----------------------------------------------------------------------------
(* Properties. *)

(* Every link is between two stored rows and never from a row to itself,   *)
(* whatever is deleted between the scan and the commit of the link step.   *)
LinksWellFormed ==
    \A p \in PostingIds :
        canon[p] # None => p \in stored /\ canon[p] \in stored /\ canon[p] # p

(* A row is either active or carries a deactivated_at, never both, never   *)
(* neither, through upserts, reactivations and sweeps.                     *)
ExpiryStamped == stored = active \cup expired /\ active \cap expired = {}

(* A row's board is in the table: a run that outlives the deletion of its  *)
(* board leaves no orphan behind.                                          *)
NoOrphanRows == \A p \in stored : registered[Home[p]] = "watched"

(* The health column says what the streak says, and the streak never runs  *)
(* past the dead threshold, since a dead board is not fetched again.       *)
HealthTracksStreak ==
    \A b \in Boards : health[b] = HealthFor(failures[b]) /\ failures[b] <= DeadAfter

(* Between the upsert and the commit of the links a row cannot go inactive *)
(* and no one else links it: what LinkScan found still holds when          *)
(* LinkCommit writes, except that rows may have been deleted.              *)
PlansPending ==
    \A p \in PostingIds : plan[p] # None =>
        /\ plan[p] # p
        /\ canon[p] = None
        /\ job[Home[p]] = "committing"

(* Only a board short of the dead threshold is on its way to a fetch.      *)
OnlyLiveBoardsFetched ==
    \A b \in Boards : job[b] \in {"queued", "fetching"} => failures[b] < DeadAfter

(* Outside an ingest run there are no coroutines. *)
FreeMeansIdle == worker = "free" => \A b \in Boards : job[b] = "idle"

(* The inductive invariant: the five invariants hold only together with    *)
(* what the pending plans and the coroutines' places say.                  *)
IndInv ==
    /\ TypeOK
    /\ LinksWellFormed
    /\ ExpiryStamped
    /\ NoOrphanRows
    /\ HealthTracksStreak
    /\ PlansPending
    /\ OnlyLiveBoardsFetched
    /\ FreeMeansIdle

(* Once dead, a board stays dead: no run that was started earlier can      *)
(* bring it back.                                                          *)
DeadStaysDead == [][\A b \in Boards : health[b] = "dead" => health'[b] = "dead"]_health

(* A link, once written, is never pointed at another row; it only goes     *)
(* away with one of its two rows.                                          *)
LinksNeverMove ==
    [][\A p \in PostingIds :
         canon[p] # None /\ canon'[p] # canon[p] =>
             canon'[p] = None /\ (p \notin stored' \/ canon[p] \notin stored')]_canon

(* A posting leaves the feed for one of three reasons: the response being  *)
(* applied did not list it, it was not seen for the freshness window, or   *)
(* its board was deleted.                                                  *)
DeactivationHasCause ==
    [][\A p \in active \ active' :
         \/ listed[p] = None /\ job[Home[p]] = "upserting"
         \/ age[p] > FreshnessDays
         \/ registered'[Home[p]] = "deleted"]_active

(* An ingest run ends, whatever concurrency it is told, zero included: no  *)
(* coroutine waits for ever for those that hold the semaphore.             *)
IngestEnds == worker = "ingest" ~> worker = "free"

(* A posting nobody has seen for the freshness window leaves the feed, or  *)
(* is seen again.                                                          *)
StalePostingsExpire ==
    \A p \in PostingIds : p \in Stale ~> p \notin Stale

(* The feed the rest of the backend relies on.                             *)
Promised == INSTANCE Feed

(* Ingestion implements the feed Matching is built on: a fetch is applied  *)
(* as a whole and only to its own board, a link is written once, and only  *)
(* between rows that are there when it commits.                            *)
ImplementsFeed == Promised!FeedSpec

(* postings.py:192 "so the canonical stays stable and links never chain".  *)
LinksNeverChain ==
    \A p \in PostingIds : canon[p] # None => canon[canon[p]] = None

(* postings.py:216 the sweep "catches postings orphaned by boards that     *)
(* stopped being fetched (e.g. went dead)": while a board fails, its       *)
(* postings stay until they are stale.                                     *)
OutageKeepsPostings ==
    [][\A p \in active \ active' :
         \/ failures[Home[p]] = 0
         \/ age[p] > FreshnessDays
         \/ registered'[Home[p]] = "deleted"]_active
=============================================================================
