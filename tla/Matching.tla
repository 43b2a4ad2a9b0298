------------------------------ MODULE Matching ------------------------------
(***************************************************************************)
(* Saved searches: scoring the feed for a search, the cached requirements  *)
(* of a posting, and the daily digests.                                    *)
(*                                                                         *)
(* A refresh of a search runs in a session of its own: in the worker's     *)
(* rescore task, or in the API request that lists the matches.  It reads   *)
(* the postings and the existing matches once, then scores posting after   *)
(* posting; a posting without cached requirements costs an LLM call, and   *)
(* anything may commit while that call is awaited.  Sessions keep loaded   *)
(* rows as they were read (expire_on_commit is off), so the refresh goes   *)
(* on with the text it read.                                               *)
(*                                                                         *)
(* Scores are not computed here: a match keeps what it was computed from,  *)
(* the text its requirements were extracted from and the resume, and Fit   *)
(* says what score_resume makes of the two.                                *)
(*                                                                         *)
(* A definition marked as a broken variant is what the one after it would  *)
(* be with a bug; no other definition uses it.                             *)
(***************************************************************************)
EXTENDS Feed, Integers, Sequences

CONSTANTS
    Searches,     \* saved_searches.id
    Refreshers,   \* sessions that may be refreshing: the worker and requests
    Worker,       \* the one of them that is the worker
    Scope,        \* search -> boards its owner sees: own boards and system boards
    Resumes,      \* what the search's profile may say
    Fit(_, _),    \* Fit(text, resume): the headline score
    Bars,         \* values of min_score
    Lookback,     \* digest_lookback_hours, in clock ticks
    MaxClock,     \* bound on the clock
    MaxDigests    \* bound on the digests of one search

ASSUME MatchingAssumption ==
    /\ Worker \in Refreshers
    /\ Scope \in [Searches -> SUBSET Boards]
    /\ \A c \in Contents, r \in Resumes : Fit(c, r) \in Nat
    /\ Bars # {} /\ Bars \subseteq Nat
    /\ Lookback \in Nat /\ MaxClock \in Nat /\ MaxDigests \in Nat
    /\ None \notin Resumes \cup Nat

VARIABLES
    reqs,     \* extracted_requirements: the text they were extracted from
    matches,  \* posting_matches: search -> posting -> row or None
    resume,   \* profiles.data of the search's profile
    bar,      \* saved_searches.min_score; None until the search is saved
    enabled,  \* saved_searches with is_active
    lastSent, \* saved_searches.last_digest_sent_at
    digests,  \* the digests of a search: sets of <<posting, computed_at>>
    clock,    \* every reading of the clock is later than the one before
    session,  \* what each refresher has in memory
    mailer    \* the digest task: when it began, and the digests it has built

searchVars == <<reqs, matches, resume, bar, enabled>>
digestVars == <<lastSent, digests, mailer>>
vars == <<feedVars, searchVars, digestVars, clock, session>>

Match == [hash : Contents, text : Contents, resume : Resumes, at : 1 .. MaxClock]

(* A refresher at rest. *)
Idle == [stage |-> "idle"]

TypeOK ==
    /\ FeedTypeOK
    /\ reqs \in [PostingIds -> Contents \cup {None}]
    /\ matches \in [Searches -> [PostingIds -> Match \cup {None}]]
    /\ resume \in [Searches -> Resumes]
    /\ bar \in [Searches -> Bars \cup {None}]
    /\ enabled \subseteq Searches
    /\ lastSent \in [Searches -> 1 .. MaxClock \cup {None}]
    /\ \A s \in Searches : digests[s] \in Seq(SUBSET (PostingIds \X (1 .. MaxClock)))
    /\ clock \in 0 .. MaxClock
    /\ \A r \in Refreshers :
         \/ session[r] = Idle
         \/ /\ session[r].stage \in {"scoring", "extracting"}
            /\ session[r].search \in Searches
            /\ session[r].todo \subseteq PostingIds
            /\ session[r].fresh \in [PostingIds -> Match \cup {None}]
    /\ mailer = Idle \/ mailer.now \in 1 .. MaxClock

Unscored == [p \in PostingIds |-> None]

Init ==
    /\ FeedInit
    /\ reqs = Unscored
    /\ matches = [s \in Searches |-> Unscored]
    /\ resume \in [Searches -> Resumes]
    /\ bar = [s \in Searches |-> None]
    /\ enabled = {}
    /\ lastSent = [s \in Searches |-> None]
    /\ digests = [s \in Searches |-> << >>]
    /\ clock = 0
    /\ session = [r \in Refreshers |-> Idle]
    /\ mailer = Idle

WorkerFree == session[Worker] = Idle /\ mailer = Idle

-----------------------------------------------------------------------------
(* The feed moves on under the searches.  Fetches, links and the sweep are *)
(* the worker's own tasks; boards are added and deleted by requests.       *)

\* Broken variant.
FollowFeedKeepsRequirements ==
    /\ reqs' = [p \in PostingIds |-> IF p \notin stored' THEN None ELSE reqs[p]]
    /\ matches' = [s \in Searches |-> [p \in PostingIds |->
                     IF p \in stored' THEN matches[s][p] ELSE None]]
    /\ UNCHANGED <<resume, bar, enabled, digestVars, clock, session>>

(* Changed text voids the cached requirements; a deleted row takes its     *)
(* matches along.                                                          *)
FollowFeed ==
    /\ reqs' = [p \in PostingIds |->
                  IF p \notin stored' \/ content'[p] # content[p] THEN None ELSE reqs[p]]
    /\ matches' = [s \in Searches |-> [p \in PostingIds |->
                     IF p \in stored' THEN matches[s][p] ELSE None]]
    /\ UNCHANGED <<resume, bar, enabled, digestVars, clock, session>>

FeedByWorker ==
    /\ WorkerFree
    /\ \/ \E b \in Boards :
            \/ \E seen \in SUBSET Of(b), says \in Says : Apply(b, seen, says)
            \/ \E targets \in Targets : Link(b, targets)
       \/ \E stale \in SUBSET active : Expire(stale)
    /\ FollowFeed

FeedByRequest ==
    /\ \E b \in Boards : Register(b) \/ Remove(b)
    /\ FollowFeed

-----------------------------------------------------------------------------
(* Requests on the search and its profile. *)

EditResume(s, data) ==
    /\ resume' = [resume EXCEPT ![s] = data]
    /\ UNCHANGED <<feedVars, reqs, matches, bar, enabled, digestVars, clock, session>>

CreateSearch(s, min) ==
    /\ bar[s] = None
    /\ bar' = [bar EXCEPT ![s] = min]
    /\ enabled' = enabled \cup {s}
    /\ UNCHANGED <<feedVars, reqs, matches, resume, digestVars, clock, session>>

UpdateSearch(s, min, on) ==
    /\ bar[s] # None
    /\ bar' = [bar EXCEPT ![s] = min]
    /\ enabled' = IF on THEN enabled \cup {s} ELSE enabled \ {s}
    /\ UNCHANGED <<feedVars, reqs, matches, resume, digestVars, clock, session>>

-----------------------------------------------------------------------------
(* Refreshing a search. *)

\* Broken variant.
ScorableAnywhere(s) == {p \in active : canon[p] = None}
Scorable(s) == {p \in active : canon[p] = None /\ Home[p] \in Scope[s]}

(* The two SELECTs: rows are kept as they were read. *)
RefreshStart(r, s) ==
    /\ session[r] = Idle
    /\ bar[s] # None
    /\ r = Worker => mailer = Idle /\ s \in enabled
    /\ session' = [session EXCEPT ![r] =
         [stage |-> "scoring", search |-> s, todo |-> Scorable(s),
          text |-> content, cached |-> reqs, known |-> matches[s],
          fresh |-> Unscored, data |-> None, reading |-> None]]
    /\ UNCHANGED <<feedVars, searchVars, digestVars, clock>>

(* The stored score counts as current: same text.  The profile id it was   *)
(* computed for cannot differ, no request changes a search's profile.      *)
IsCurrent(r, p) ==
    /\ session[r].known[p] # None
    /\ session[r].known[p].hash = session[r].text[p]

RefreshSkips(r, p) ==
    /\ session[r].stage = "scoring"
    /\ p \in session[r].todo
    /\ IsCurrent(r, p)
    /\ session' = [session EXCEPT ![r].todo = @ \ {p}]
    /\ UNCHANGED <<feedVars, searchVars, digestVars, clock>>

(* The score, not yet committed. *)
\* Broken variant.
StampedEarly(r, p, text, data) ==
    [hash |-> session[r].text[p], text |-> text, resume |-> data, at |-> clock]

Scored(r, p, text, data) ==
    [hash |-> session[r].text[p], text |-> text, resume |-> data, at |-> clock + 1]

(* The posting was read with its requirements cached: no call. *)
RefreshScores(r, p) ==
    /\ session[r].stage = "scoring"
    /\ p \in session[r].todo
    /\ ~ IsCurrent(r, p)
    /\ session[r].cached[p] # None
    /\ clock < MaxClock
    /\ clock' = clock + 1
    /\ session' = [session EXCEPT
         ![r].todo = @ \ {p},
         ![r].fresh[p] = Scored(r, p, session[r].cached[p], resume[session[r].search])]
    /\ UNCHANGED <<feedVars, searchVars, digestVars>>

(* No cached requirements: the profile has been read, the call goes out.   *)
ExtractStart(r, p) ==
    /\ session[r].stage = "scoring"
    /\ p \in session[r].todo
    /\ ~ IsCurrent(r, p)
    /\ session[r].cached[p] = None
    /\ session' = [session EXCEPT
         ![r].stage = "extracting",
         ![r].reading = p,
         ![r].data = resume[session[r].search]]
    /\ UNCHANGED <<feedVars, searchVars, digestVars, clock>>

(* What the session would insert or update is still possible: the rows are *)
(* there, and nobody inserted the match first (the pair is unique).        *)
Commits(r) ==
    \A p \in PostingIds : session[r].fresh[p] # None =>
        /\ p \in stored
        /\ (session[r].known[p] = None) <=> (matches[session[r].search][p] = None)

(* Rows with the ones just written over them. *)
Overlay(rows, written) ==
    [p \in PostingIds |-> IF written[p] # None THEN written[p] ELSE rows[p]]

(* The matches once the session's uncommitted scores are. *)
Published(r) == [matches EXCEPT ![session[r].search] = Overlay(@, session[r].fresh)]

(* The answer is stored on the posting and committed, with the scores of   *)
(* the postings before it; then this posting is scored.                    *)
ExtractDone(r) ==
    /\ session[r].stage = "extracting"
    /\ session[r].reading \in stored
    /\ Commits(r)
    /\ clock < MaxClock
    /\ clock' = clock + 1
    /\ LET p == session[r].reading
           text == session[r].text[p]
       IN  /\ reqs' = [reqs EXCEPT ![p] = text]
           /\ matches' = Published(r)
           /\ session' = [session EXCEPT
                ![r].stage = "scoring",
                ![r].todo = @ \ {p},
                ![r].known = Overlay(@, session[r].fresh),
                ![r].fresh = [Unscored EXCEPT ![p] = Scored(r, p, text, session[r].data)],
                ![r].data = None,
                ![r].reading = None]
    /\ UNCHANGED <<feedVars, resume, bar, enabled, digestVars>>

RefreshFinish(r) ==
    /\ session[r].stage = "scoring"
    /\ session[r].todo = {}
    /\ Commits(r)
    /\ matches' = Published(r)
    /\ session' = [session EXCEPT ![r] = Idle]
    /\ UNCHANGED <<feedVars, reqs, resume, bar, enabled, digestVars, clock>>

(* The call or the scoring failed, a commit violates a key, or the process *)
(* died: the session is dropped, with what it had not committed.           *)
RefreshFails(r) ==
    /\ session[r] # Idle
    /\ session' = [session EXCEPT ![r] = Idle]
    /\ UNCHANGED <<feedVars, searchVars, digestVars, clock>>

-----------------------------------------------------------------------------
(* Digests. *)

Clears(s, m) == Fit(m.text, m.resume) >= bar[s]

(* now is read before the searches are. *)
DigestStart ==
    /\ WorkerFree
    /\ clock < MaxClock
    /\ clock' = clock + 1
    /\ mailer' = [stage |-> "building", now |-> clock + 1, todo |-> enabled,
                  built |-> [s \in Searches |-> {}]]
    /\ UNCHANGED <<feedVars, searchVars, lastSent, digests, session>>

(* Without a digest yet, the cutoff is the lookback, counted back from a   *)
(* clock reading of its own.                                               *)
\* Broken variant.
CutoffByLookback(s) == clock - Lookback
Cutoff(s) == IF lastSent[s] # None THEN lastSent[s] ELSE clock - Lookback

NewMatches(s) ==
    {p \in active : /\ matches[s][p] # None
                    /\ matches[s][p].at > Cutoff(s)
                    /\ Clears(s, matches[s][p])
                    /\ Home[p] \in Scope[s]}

BuildDigest(s) ==
    /\ mailer.stage = "building"
    /\ s \in mailer.todo
    /\ mailer' = [mailer EXCEPT
         !.todo = @ \ {s},
         !.built[s] = {<<p, matches[s][p].at>> : p \in NewMatches(s)}]
    /\ UNCHANGED <<feedVars, searchVars, lastSent, digests, clock, session>>

(* One commit for all searches; a search with nothing new keeps its mark.  *)
SendDigests ==
    /\ mailer.stage = "building"
    /\ mailer.todo = {}
    /\ digests' = [s \in Searches |->
                     IF mailer.built[s] # {} THEN Append(digests[s], mailer.built[s])
                     ELSE digests[s]]
    /\ \A s \in Searches : Len(digests'[s]) <= MaxDigests
    /\ lastSent' = [s \in Searches |->
                      IF mailer.built[s] # {} THEN mailer.now ELSE lastSent[s]]
    /\ mailer' = Idle
    /\ UNCHANGED <<feedVars, searchVars, clock, session>>

(* The task failed or the process died before the commit. *)
DigestFails ==
    /\ mailer # Idle
    /\ mailer' = Idle
    /\ UNCHANGED <<feedVars, searchVars, lastSent, digests, clock, session>>

-----------------------------------------------------------------------------
RefreshStep(r) ==
    \/ \E s \in Searches : RefreshStart(r, s)
    \/ \E p \in PostingIds : RefreshSkips(r, p) \/ RefreshScores(r, p) \/ ExtractStart(r, p)
    \/ ExtractDone(r)
    \/ RefreshFinish(r)
    \/ RefreshFails(r)

Next ==
    \/ FeedByWorker
    \/ FeedByRequest
    \/ \E s \in Searches :
         \/ \E data \in Resumes : EditResume(s, data)
         \/ \E min \in Bars : CreateSearch(s, min)
         \/ \E min \in Bars, on \in BOOLEAN : UpdateSearch(s, min, on)
         \/ BuildDigest(s)
    \/ \E r \in Refreshers : RefreshStep(r)
    \/ DigestStart
    \/ SendDigests
    \/ DigestFails

Spec == Init /\ [][Next]_vars

-----------------------------------------------------------------------------
(* Properties. *)

(* The ownership invariant, at the source: no refresh ever writes a match  *)
(* on a board outside the owner's scope, nor on a posting that is gone.    *)
MatchesInScope ==
    \A s \in Searches, p \in PostingIds :
        matches[s][p] # None => p \in stored /\ Home[p] \in Scope[s]

(* A digest shows again at most what the one before it has shown (a score  *)
(* computed anew is a new match).  digest.py:6 says that the mark stops    *)
(* the same jobs from being shown every day.  Once they may be: the mark   *)
(* is the time the task began, and a request may commit scores between     *)
(* that and the reading of the search's matches.                           *)
DigestsRepeatAtMostOnce ==
    \A s \in Searches : \A i, j \in 1 .. Len(digests[s]) :
        i + 1 < j => digests[s][i] \cap digests[s][j] = {}

(* The cached requirements are those of the text the posting has.          *)
(* posting.py:67 "invalidated (set NULL) by the storage layer whenever     *)
(* content_hash changes".                                                  *)
RequirementsFollowText ==
    \A p \in PostingIds : reqs[p] # None => reqs[p] = content[p]

(* In one way only do cached requirements stop being those of the text: by *)
(* the late answer to a request, whose call was awaited while the text     *)
(* changed.  New text takes its requirements away whoever holds the old    *)
(* ones in a session, and the worker, which ingests nothing while it       *)
(* awaits a call, never writes such an answer, whatever requests do.       *)
Awaiting(r) == IF session[r].stage = "extracting" THEN {session[r].reading} ELSE {}
OnlyLateAnswersGoStale ==
    [][\A p \in PostingIds :
          reqs[p] \in {None, content[p]} /\ reqs'[p] \notin {None, content'[p]} =>
             \E r \in Refreshers \ {Worker} : p \in Awaiting(r) \ Awaiting(r)']_vars
=============================================================================
