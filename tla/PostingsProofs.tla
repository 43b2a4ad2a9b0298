--------------------------- MODULE PostingsProofs ---------------------------
(***************************************************************************)
(* What holds of the feed for any number of boards and postings, any       *)
(* similarity measure, thresholds and concurrency.                         *)
(***************************************************************************)
EXTENDS Postings, TLAPS

(* The empty tables satisfy the inductive invariant. *)
LEMMA InitInductive == Init => IndInv
<1> SUFFICES ASSUME Init PROVE IndInv
  OBVIOUS
<1> USE FeedAssumption, LimitsAssumption DEF Init, Nothing
<1>1. TypeOK
  BY DEF TypeOK, Healths, Stages
<1>2. LinksWellFormed /\ ExpiryStamped /\ NoOrphanRows
  BY DEF LinksWellFormed, ExpiryStamped, NoOrphanRows
<1>3. HealthTracksStreak
  BY DEF HealthTracksStreak, HealthFor
<1>4. PlansPending /\ OnlyLiveBoardsFetched /\ FreeMeansIdle
  BY DEF PlansPending, OnlyLiveBoardsFetched, FreeMeansIdle
<1> QED
  BY <1>1, <1>2, <1>3, <1>4 DEF IndInv

(* Deleting a board takes its rows and the links to them, whatever the     *)
(* board's coroutine is doing.                                             *)
LEMMA DeleteInductive ==
    ASSUME IndInv, NEW b \in Boards, DeleteBoard(b)
    PROVE  IndInv'
<1> USE FeedAssumption, LimitsAssumption DEF IndInv, DeleteBoard, rowVars, runVars, Of
<1>1. TypeOK'
  BY DEF TypeOK
<1>2. LinksWellFormed'
  BY DEF TypeOK, LinksWellFormed
<1>3. ExpiryStamped'
  BY DEF TypeOK, ExpiryStamped
<1>4. NoOrphanRows'
  BY DEF TypeOK, NoOrphanRows
<1>5. HealthTracksStreak'
  BY DEF HealthTracksStreak, HealthFor
<1>6. PlansPending'
  BY DEF TypeOK, PlansPending
<1>7. OnlyLiveBoardsFetched' /\ FreeMeansIdle'
  BY DEF OnlyLiveBoardsFetched, FreeMeansIdle
<1> QED
  BY <1>1, <1>2, <1>3, <1>4, <1>5, <1>6, <1>7

(* Fetching: the streak and the health move together, and a board that is  *)
(* being fetched was short of the dead threshold when the run began.       *)
LEMMA FetchInductive ==
    ASSUME IndInv, NEW b \in Boards,
           FetchFails(b) \/ \E r \in Responses(b) : FetchSucceeds(b, r)
    PROVE  IndInv'
<1> USE FeedAssumption, LimitsAssumption DEF IndInv, rowVars
<1>1. CASE FetchFails(b)
  <2> USE <1>1 DEF FetchFails
  <2>1. failures[b] \in Nat /\ failures[b] < DeadAfter
    BY DEF TypeOK, OnlyLiveBoardsFetched
  <2>2. TypeOK'
    BY <2>1 DEF TypeOK, HealthFor, Healths, Stages
  <2>3. HealthTracksStreak'
    BY <2>1 DEF TypeOK, HealthTracksStreak, HealthFor
  <2>4. LinksWellFormed' /\ ExpiryStamped' /\ NoOrphanRows'
    BY DEF LinksWellFormed, ExpiryStamped, NoOrphanRows
  <2>5. PlansPending' /\ OnlyLiveBoardsFetched' /\ FreeMeansIdle'
    BY DEF TypeOK, PlansPending, OnlyLiveBoardsFetched, FreeMeansIdle
  <2> QED
    BY <2>2, <2>3, <2>4, <2>5
<1>2. ASSUME NEW r \in Responses(b), FetchSucceeds(b, r)
      PROVE  IndInv'
  <2> USE <1>2 DEF FetchSucceeds
  <2>1. TypeOK'
    BY DEF TypeOK, Healths, Stages, Responses
  <2>2. HealthTracksStreak'
    BY DEF TypeOK, HealthTracksStreak, HealthFor
  <2>3. LinksWellFormed' /\ ExpiryStamped' /\ NoOrphanRows'
    BY DEF LinksWellFormed, ExpiryStamped, NoOrphanRows
  <2>4. PlansPending' /\ OnlyLiveBoardsFetched' /\ FreeMeansIdle'
    BY DEF TypeOK, PlansPending, OnlyLiveBoardsFetched, FreeMeansIdle
  <2> QED
    BY <2>1, <2>2, <2>3, <2>4
<1> QED
  BY <1>1, <1>2

(* Applying a fetch touches the rows of its own board only. *)
LEMMA UpsertInductive ==
    ASSUME IndInv, NEW b \in Boards, Upsert(b)
    PROVE  IndInv'
<1> USE FeedAssumption, LimitsAssumption DEF IndInv, Upsert, Closed, boardVars, Of, Seen
<1>1. TypeOK'
  BY DEF TypeOK, Stages
<1>2. LinksWellFormed'
  BY DEF TypeOK, LinksWellFormed
<1>3. ExpiryStamped'
  BY DEF TypeOK, ExpiryStamped
<1>4. NoOrphanRows'
  BY DEF TypeOK, NoOrphanRows
<1>5. HealthTracksStreak'
  BY DEF HealthTracksStreak, HealthFor
<1>6. PlansPending' /\ OnlyLiveBoardsFetched' /\ FreeMeansIdle'
  BY DEF TypeOK, PlansPending, OnlyLiveBoardsFetched, FreeMeansIdle
<1> QED
  BY <1>1, <1>2, <1>3, <1>4, <1>5, <1>6

(* A computed link never points back at its own row. *)
LEMMA LinkElsewhere ==
    ASSUME NEW p \in PostingIds, NEW target, IsLink(p, target)
    PROVE  target # p
BY FeedAssumption DEF IsLink

(* Scanning records plans; committing turns them into links, and only if   *)
(* both rows of every link are still there.                                *)
LEMMA LinkInductive ==
    ASSUME IndInv, NEW b \in Boards, LinkScan(b) \/ LinkCommit(b)
    PROVE  IndInv'
<1> USE FeedAssumption, LimitsAssumption DEF IndInv, boardVars, rowVars, Of
<1>1. CASE LinkScan(b)
  <2> USE <1>1 DEF LinkScan, ToLink
  <2>1. TypeOK'
    BY DEF TypeOK, Stages
  <2>2. PlansPending'
    <3> SUFFICES ASSUME NEW p \in PostingIds, plan'[p] # None
                 PROVE  plan'[p] # p /\ canon[p] = None /\ job'[Home[p]] = "committing"
      BY DEF PlansPending
    <3>1. CASE p \in Of(b) /\ p \in active /\ canon[p] = None
      BY <3>1, LinkElsewhere DEF TypeOK
    <3>2. CASE ~ (p \in Of(b) /\ p \in active /\ canon[p] = None)
      BY <3>2 DEF TypeOK, PlansPending
    <3> QED
      BY <3>1, <3>2
  <2>3. LinksWellFormed' /\ ExpiryStamped' /\ NoOrphanRows'
    BY DEF LinksWellFormed, ExpiryStamped, NoOrphanRows
  <2>4. HealthTracksStreak' /\ OnlyLiveBoardsFetched' /\ FreeMeansIdle'
    BY DEF TypeOK, HealthTracksStreak, HealthFor, OnlyLiveBoardsFetched, FreeMeansIdle
  <2> QED
    BY <2>1, <2>2, <2>3, <2>4
<1>2. CASE LinkCommit(b)
  <2> USE <1>2 DEF LinkCommit
  <2>1. TypeOK'
    BY DEF TypeOK, Stages
  <2>2. LinksWellFormed'
    BY DEF TypeOK, LinksWellFormed, PlansPending
  <2>3. PlansPending'
    BY DEF TypeOK, PlansPending
  <2>4. ExpiryStamped' /\ NoOrphanRows'
    BY DEF ExpiryStamped, NoOrphanRows
  <2>5. HealthTracksStreak' /\ OnlyLiveBoardsFetched' /\ FreeMeansIdle'
    BY DEF TypeOK, HealthTracksStreak, HealthFor, OnlyLiveBoardsFetched, FreeMeansIdle
  <2> QED
    BY <2>1, <2>2, <2>3, <2>4, <2>5
<1> QED
  BY <1>1, <1>2

(* The steps that only move the run along. *)
LEMMA RunInductive ==
    ASSUME IndInv,
           \/ (\E cap \in Caps : IngestStart(cap)) \/ IngestFinish
           \/ \E b \in Boards : CreateBoard(b) \/ Acquire(b) \/ RunAborts(b)
    PROVE  IndInv'
<1> USE FeedAssumption, LimitsAssumption DEF IndInv, boardVars, rowVars, runVars, Nothing
<1>1. ASSUME NEW cap \in Caps, IngestStart(cap)
      PROVE  IndInv'
  <2> USE <1>1 DEF IngestStart
  <2>1. TypeOK'
    BY DEF TypeOK, Stages
  <2>2. OnlyLiveBoardsFetched'
    BY DEF TypeOK, OnlyLiveBoardsFetched, HealthTracksStreak, HealthFor
  <2>3. PlansPending'
    BY DEF TypeOK, PlansPending, FreeMeansIdle
  <2> QED
    BY <2>1, <2>2, <2>3 DEF LinksWellFormed, ExpiryStamped, NoOrphanRows, HealthTracksStreak,
                            HealthFor, FreeMeansIdle
<1>2. CASE IngestFinish
  <2> USE <1>2 DEF IngestFinish
  <2>1. TypeOK'
    BY DEF TypeOK, Stages
  <2>2. PlansPending'
    BY DEF TypeOK, PlansPending
  <2> QED
    BY <2>1, <2>2 DEF LinksWellFormed, ExpiryStamped, NoOrphanRows, HealthTracksStreak,
                      HealthFor, FreeMeansIdle, OnlyLiveBoardsFetched
<1>3. ASSUME NEW b \in Boards, CreateBoard(b)
      PROVE  IndInv'
  <2> USE <1>3 DEF CreateBoard
  <2>1. TypeOK'
    BY DEF TypeOK
  <2>2. NoOrphanRows'
    BY DEF TypeOK, NoOrphanRows
  <2> QED
    BY <2>1, <2>2 DEF LinksWellFormed, ExpiryStamped, HealthTracksStreak, HealthFor,
                      PlansPending, OnlyLiveBoardsFetched, FreeMeansIdle
<1>4. ASSUME NEW b \in Boards, Acquire(b)
      PROVE  IndInv'
  <2> USE <1>4 DEF Acquire
  <2>1. TypeOK'
    BY DEF TypeOK, Stages
  <2>2. PlansPending' /\ OnlyLiveBoardsFetched' /\ FreeMeansIdle'
    BY DEF TypeOK, PlansPending, OnlyLiveBoardsFetched, FreeMeansIdle
  <2> QED
    BY <2>1, <2>2 DEF LinksWellFormed, ExpiryStamped, NoOrphanRows, HealthTracksStreak, HealthFor
<1>5. ASSUME NEW b \in Boards, RunAborts(b)
      PROVE  IndInv'
  <2> USE <1>5 DEF RunAborts
  <2>1. TypeOK'
    BY DEF TypeOK, Stages
  <2>2. PlansPending' /\ OnlyLiveBoardsFetched' /\ FreeMeansIdle'
    BY DEF TypeOK, PlansPending, OnlyLiveBoardsFetched, FreeMeansIdle
  <2> QED
    BY <2>1, <2>2 DEF LinksWellFormed, ExpiryStamped, NoOrphanRows, HealthTracksStreak, HealthFor
<1> QED
  BY <1>1, <1>2, <1>3, <1>4, <1>5

(* The sweep stamps what it deactivates; days only age rows. *)
LEMMA SweepInductive ==
    ASSUME IndInv, FreshnessCleanup \/ DayPasses
    PROVE  IndInv'
<1> USE FeedAssumption, LimitsAssumption DEF IndInv, boardVars, runVars
<1>1. CASE FreshnessCleanup
  BY <1>1 DEF FreshnessCleanup, Stale, TypeOK, LinksWellFormed, ExpiryStamped, NoOrphanRows,
              HealthTracksStreak, HealthFor, PlansPending, OnlyLiveBoardsFetched, FreeMeansIdle
<1>2. CASE DayPasses
  BY <1>2 DEF DayPasses, TypeOK, LinksWellFormed, ExpiryStamped, NoOrphanRows,
              HealthTracksStreak, HealthFor, PlansPending, OnlyLiveBoardsFetched, FreeMeansIdle
<1> QED
  BY <1>1, <1>2

(* A step that changes no variable. *)
LEMMA StutterInductive == IndInv /\ UNCHANGED vars => IndInv'
BY DEF vars, boardVars, rowVars, runVars, IndInv, TypeOK, LinksWellFormed, ExpiryStamped,
       NoOrphanRows, HealthTracksStreak, HealthFor, PlansPending, OnlyLiveBoardsFetched,
       FreeMeansIdle

(* Every step preserves the inductive invariant. *)
LEMMA NextInductive == IndInv /\ [Next]_vars => IndInv'
<1> SUFFICES ASSUME IndInv, [Next]_vars PROVE IndInv'
  OBVIOUS
<1>1. ASSUME NEW b \in Boards, CreateBoard(b) \/ DeleteBoard(b) \/ BoardStep(b)
      PROVE  IndInv'
  BY <1>1, DeleteInductive, FetchInductive, UpsertInductive, LinkInductive, RunInductive
     DEF BoardStep
<1>2. CASE (\E cap \in Caps : IngestStart(cap)) \/ IngestFinish
  BY <1>2, RunInductive
<1>3. CASE FreshnessCleanup \/ DayPasses
  BY <1>3, SweepInductive
<1>4. CASE UNCHANGED vars
  BY <1>4, StutterInductive
<1> QED
  BY <1>1, <1>2, <1>3, <1>4 DEF Next

(* The columns keep their types. *)
THEOREM TypeCorrect == Spec => []TypeOK
<1>1. IndInv => TypeOK
  BY DEF IndInv
<1> QED
  BY <1>1, InitInductive, NextInductive, PTL DEF Spec

(* Links join two stored, distinct rows, however boards are deleted while  *)
(* their or other boards' postings are being linked.                       *)
THEOREM LinksStayWellFormed == Spec => []LinksWellFormed
<1>1. IndInv => LinksWellFormed
  BY DEF IndInv
<1> QED
  BY <1>1, InitInductive, NextInductive, PTL DEF Spec

(* A stored row is active or deactivated, never both, through upserts,     *)
(* reactivations and sweeps of any number of boards.                       *)
THEOREM RowsStayConsistent == Spec => []ExpiryStamped
<1>1. IndInv => ExpiryStamped
  BY DEF IndInv
<1> QED
  BY <1>1, InitInductive, NextInductive, PTL DEF Spec

(* A run that outlives the deletion of its board leaves no row of it.      *)
THEOREM RowsHaveBoards == Spec => []NoOrphanRows
<1>1. IndInv => NoOrphanRows
  BY DEF IndInv
<1> QED
  BY <1>1, InitInductive, NextInductive, PTL DEF Spec

(* What the pending plans of a link step and the places of the coroutines  *)
(* say holds throughout, and with it the five invariants of the feed.      *)
THEOREM FeedStaysCoherent == Spec => []IndInv
  BY InitInductive, NextInductive, PTL DEF Spec

(* Health and failure streak agree and the streak stops at the dead        *)
(* threshold, for any thresholds.                                          *)
THEOREM HealthFollowsStreak == Spec => []HealthTracksStreak
<1>1. IndInv => HealthTracksStreak
  BY DEF IndInv
<1> QED
  BY <1>1, InitInductive, NextInductive, PTL DEF Spec

(* Once dead, a board stays dead: a fetch that could revive it was started *)
(* when the board was still short of the threshold.                        *)
THEOREM DeadBoardsStayDead == Spec => DeadStaysDead
<1> DEFINE Stays == \A b \in Boards : health[b] = "dead" => health'[b] = "dead"
<1>1. ASSUME IndInv, [Next]_vars, health' # health PROVE Stays
  <2> USE LimitsAssumption DEF IndInv
  <2>1. PICK b \in Boards : FetchFails(b) \/ \E r \in Responses(b) : FetchSucceeds(b, r)
    BY <1>1 DEF Next, BoardStep, vars, boardVars, CreateBoard, DeleteBoard, Acquire, Upsert,
       LinkScan, LinkCommit, RunAborts, IngestStart, IngestFinish, FreshnessCleanup, DayPasses
  <2>2. failures[b] \in Nat /\ failures[b] < DeadAfter
    BY <1>1, <2>1 DEF TypeOK, OnlyLiveBoardsFetched, FetchFails, FetchSucceeds
  <2>3. health[b] # "dead"
    BY <1>1, <2>2 DEF HealthTracksStreak, HealthFor
  <2>4. \A c \in Boards \ {b} : health'[c] = health[c]
    BY <1>1, <2>1 DEF TypeOK, FetchFails, FetchSucceeds
  <2> QED
    BY <2>3, <2>4
<1>2. ASSUME IndInv, [Next]_vars PROVE [Stays]_health
  BY <1>1, <1>2
<1> QED
  BY <1>2, InitInductive, NextInductive, PTL DEF Spec, DeadStaysDead

(* A link is written once: it is never pointed at another row, and goes    *)
(* away only with one of its two rows.                                     *)
THEOREM LinksAreFinal == Spec => LinksNeverMove
<1> DEFINE Final == \A p \in PostingIds :
              canon[p] # None /\ canon'[p] # canon[p] =>
                  canon'[p] = None /\ (p \notin stored' \/ canon[p] \notin stored')
<1>1. ASSUME IndInv, [Next]_vars, canon' # canon PROVE Final
  <2> USE FeedAssumption DEF IndInv
  <2>1. PICK b \in Boards : DeleteBoard(b) \/ LinkCommit(b)
    BY <1>1 DEF Next, BoardStep, vars, boardVars, rowVars, CreateBoard, FetchFails,
       FetchSucceeds, Acquire, Upsert, LinkScan, RunAborts, IngestStart, IngestFinish,
       FreshnessCleanup, DayPasses
  <2>2. CASE DeleteBoard(b)
    BY <1>1, <2>2 DEF DeleteBoard, TypeOK, LinksWellFormed, Of
  <2>3. CASE LinkCommit(b)
    BY <1>1, <2>3 DEF LinkCommit, TypeOK, PlansPending
  <2> QED
    BY <2>1, <2>2, <2>3
<1>2. ASSUME IndInv, [Next]_vars PROVE [Final]_canon
  BY <1>1, <1>2
<1> QED
  BY <1>2, InitInductive, NextInductive, PTL DEF Spec, LinksNeverMove

(* A posting leaves the feed only because the response being applied did   *)
(* not list it, because it went unseen too long, or with its board.        *)
THEOREM DeactivationsAreCaused == Spec => DeactivationHasCause
<1> DEFINE Caused == \A p \in active \ active' :
              \/ listed[p] = None /\ job[Home[p]] = "upserting"
              \/ age[p] > FreshnessDays
              \/ registered'[Home[p]] = "deleted"
<1>1. ASSUME IndInv, [Next]_vars, active' # active PROVE Caused
  <2> USE FeedAssumption DEF IndInv, TypeOK, Of
  <2>1. CASE FreshnessCleanup
    BY <1>1, <2>1 DEF FreshnessCleanup, Stale
  <2>2. ASSUME NEW b \in Boards, DeleteBoard(b) PROVE Caused
    BY <1>1, <2>2 DEF DeleteBoard
  <2>3. ASSUME NEW b \in Boards, Upsert(b) PROVE Caused
    BY <1>1, <2>3 DEF Upsert, Closed, Seen
  <2>4. FreshnessCleanup \/ \E b \in Boards : DeleteBoard(b) \/ Upsert(b)
    BY <1>1 DEF Next, BoardStep, vars, boardVars, rowVars, CreateBoard, FetchFails,
       FetchSucceeds, Acquire, LinkScan, LinkCommit, RunAborts, IngestStart, IngestFinish,
       DayPasses
  <2> HIDE DEF Caused
  <2> QED
    BY <2>1, <2>2, <2>3, <2>4
<1>2. ASSUME IndInv, [Next]_vars PROVE [Caused]_active
  BY <1>1, <1>2
<1> QED
  BY <1>2, InitInductive, NextInductive, PTL DEF Spec, DeactivationHasCause

(* Each step of the detailed ingestion is a step of the promised feed, or  *)
(* changes nothing of it.                                                  *)
LEMMA StepImplementsFeed ==
    ASSUME IndInv, [Next]_vars
    PROVE  [Promised!FeedNext]_(Promised!feedVars)
<1> USE FeedAssumption DEF Promised!feedVars, Promised!Of, Of
<1>1. ASSUME NEW b \in Boards, CreateBoard(b) PROVE Promised!FeedNext
  BY <1>1 DEF CreateBoard, rowVars, Promised!FeedNext, Promised!Register
<1>2. ASSUME NEW b \in Boards, DeleteBoard(b) PROVE Promised!FeedNext
  BY <1>2 DEF DeleteBoard, Promised!FeedNext, Promised!Remove
<1>3. ASSUME NEW b \in Boards, Upsert(b), Seen(b) # {} PROVE Promised!FeedNext
  <2> DEFINE c0 == listed[CHOOSE p \in PostingIds : p \in Seen(b)]
             says == [p \in PostingIds |-> IF p \in Seen(b) THEN listed[p] ELSE c0]
  <2>1. listed \in [PostingIds -> Contents \cup {None}]
    BY DEF IndInv, TypeOK
  <2>2. c0 \in Contents
    <3>1. \E p \in PostingIds : p \in Seen(b)
      BY <1>3 DEF Seen
    <3>2. (CHOOSE p \in PostingIds : p \in Seen(b)) \in Seen(b) \cap PostingIds
      BY <3>1
    <3> HIDE DEF Of
    <3> QED
      BY <2>1, <3>2 DEF Seen
  <2>3. says \in Promised!Says
    <3> HIDE DEF c0
    <3> QED
      BY <2>1, <2>2 DEF Promised!Says, Seen
  <2>4. Seen(b) \in SUBSET Promised!Of(b)
    BY DEF Seen
  <2>5. registered[b] = "watched"
    BY <1>3 DEF Upsert, Closed
  <2>6. Promised!Apply(b, Seen(b), says)
    <3> HIDE DEF c0, Of
    <3>1. content' = [p \in PostingIds |-> IF p \in Seen(b) THEN says[p] ELSE content[p]]
      BY <1>3 DEF Upsert, Closed
    <3>2. stored' = stored \cup Seen(b) /\ active' = (active \ Of(b)) \cup Seen(b)
      BY <1>3 DEF Upsert, Closed
    <3>3. registered' = registered /\ canon' = canon
      BY <1>3 DEF Upsert, boardVars
    <3> QED
      BY <2>5, <3>1, <3>2, <3>3 DEF Promised!Apply, Of
  <2> QED
    BY <2>3, <2>4, <2>6 DEF Promised!FeedNext
<1>4. ASSUME NEW b \in Boards, Upsert(b), Seen(b) = {} PROVE Promised!FeedNext
  <2> DEFINE stale == active \cap Of(b)
  <2>1. stale \in SUBSET active
    OBVIOUS
  <2>2. content' = content
    BY <1>4 DEF Upsert, Closed, IndInv, TypeOK
  <2>3. Promised!Expire(stale)
    BY <1>4, <2>2 DEF Upsert, Closed, boardVars, Promised!Expire
  <2> QED
    BY <2>1, <2>3 DEF Promised!FeedNext
<1>5. ASSUME NEW b \in Boards, LinkCommit(b) PROVE Promised!FeedNext
  <2> DEFINE targets == [p \in PostingIds |-> IF p \in Of(b) THEN plan[p] ELSE None]
  <2>1. targets \in Promised!Targets
    BY DEF IndInv, TypeOK, Promised!Targets
  <2>2. Promised!Link(b, targets)
    <3>1. \A p \in PostingIds : targets[p] # None =>
            /\ p \in Promised!Of(b) \cap stored
            /\ canon[p] = None
            /\ targets[p] \in stored \ {p}
      BY <1>5 DEF LinkCommit, IndInv, PlansPending
    <3>2. canon' = [p \in PostingIds |->
                      IF targets[p] # None THEN targets[p] ELSE canon[p]]
      BY <1>5 DEF LinkCommit
    <3> QED
      BY <1>5, <3>1, <3>2 DEF LinkCommit, boardVars, Promised!Link
  <2> QED
    BY <2>1, <2>2 DEF Promised!FeedNext
<1>6. ASSUME FreshnessCleanup PROVE Promised!FeedNext
  <2>1. Stale \in SUBSET active /\ Promised!Expire(Stale)
    BY <1>6 DEF FreshnessCleanup, boardVars, Stale, Promised!Expire
  <2> QED
    BY <2>1 DEF Promised!FeedNext
<1>7. ASSUME NEW b \in Boards,
             \/ Acquire(b) \/ FetchFails(b) \/ LinkScan(b) \/ RunAborts(b)
             \/ \E r \in Responses(b) : FetchSucceeds(b, r)
      PROVE  UNCHANGED Promised!feedVars
  BY <1>7 DEF Acquire, FetchFails, LinkScan, RunAborts, FetchSucceeds, boardVars, rowVars
<1>8. ASSUME (\E cap \in Caps : IngestStart(cap)) \/ IngestFinish \/ DayPasses \/ UNCHANGED vars
      PROVE  UNCHANGED Promised!feedVars
  BY <1>8 DEF IngestStart, IngestFinish, DayPasses, vars, boardVars, rowVars
<1> QED
  BY <1>1, <1>2, <1>3, <1>4, <1>5, <1>6, <1>7, <1>8 DEF Next, BoardStep

(* Ingestion implements the feed the rest of the backend is built on.      *)
THEOREM IngestionImplementsFeed == Spec => ImplementsFeed
<1>1. Init => Promised!FeedInit
  BY DEF Init, Nothing, Promised!FeedInit
<1>2. IndInv /\ [Next]_vars => [Promised!FeedNext]_(Promised!feedVars)
  BY StepImplementsFeed
<1> QED
  BY <1>1, <1>2, InitInductive, NextInductive, PTL
     DEF Spec, ImplementsFeed, Promised!FeedSpec
=============================================================================
