# Re-Fit: a TLA+ model of the application's concurrent core

Re-Fit is a FastAPI service with a Celery worker, PostgreSQL (through SQLAlchemy's async sessions),
S3 and a Next.js frontend. It watches job boards, matches their postings against a user's resume,
tailors a resume version and a cover letter to one job target, renders them, and tracks the
applications made with them.

The modules here model the parts in which several actors work on the same rows, and the checks that
stand between a language model and what is stored. TLC checks them on small instances; TLAPS proves
the main results for every value of the constants. Paths below are relative to the repository's
root, `services/` is `app/services/`.

## 1. Inventory

Actors: API requests (one session each, many at once), one Celery worker (solo pool: one task at a
time; within the ingest task one coroutine per board), the beat schedule, and outside the code the
job boards, the LLM, S3, PostgreSQL and the broker. They interact through tables, through S3 objects
under fixed keys, and through Celery messages.

| Component | State | Operations | What is hard | What makes it correct |
|---|---|---|---|---|
| Board registry, source clients (`services/source_boards.py`, `services/sources/`) | `source_boards`: failure streak, health | create, delete, fetch | a failed fetch and an empty answer look alike to the caller; deletion under a running task | health is what the streak says; dead boards are not fetched |
| Ingestion, links, sweep (`services/ingestion.py`, `services/postings.py`) | `postings`: active, deactivated_at, last_seen_at, content, canonical_posting_id | ingest all boards, upsert, link duplicates, sweep | coroutines with three commits each, gather aborting all of them, stale scans, cascades | links well formed and final; rows follow their board; a posting leaves the feed only for a cause; the interleaved task implements an atomic feed |
| Matching (`services/matching.py`) | `posting_matches`, cached requirements on the posting | refresh by the worker and by requests | rows read before an LLM await and written after it | matches stay in scope; scores and requirements follow the text |
| Saved searches, digests (`services/saved_searches.py`, `services/digest.py`) | min_score, is_active, last_digest_sent_at, `digests` | update, send | a watermark read before the rows it covers | a digest shows what is new since the one before it |
| Kit, letters, rendering (`services/kit.py`, `cover_letter.py`, `render.py`) | `resume_versions`, `cover_letters`, `documents`, S3 objects | POST/GET kit, letter, render | flushes that hold row locks, commits half way, uploads outside transactions, check-then-insert | no dead link, one live version, a text is replaced only when its PDF is there to be recorded, everything ends |
| Tailoring (`services/tailor.py`, `diffing.py`) | none of its own | choose, rewrite, validate, apply, diff; insert the version | a model that repeats, mixes up or omits refs | no claim that the check can see and nothing backs; every candidate is accounted for; the report is the diff |
| Versions, applications (`services/versions.py`, `applications.py`) | deleted_at, `applications` | soft delete, track, create, update | check-then-act in two sessions | a referenced version stays; tracking is idempotent |
| Job targets (`services/job_targets.py`, `jd.py`) | `job_targets` and their cached requirements | create, create from a posting, extract | check-then-insert without a key; a row lock held over LLM calls | one job target per posting and user; everything ends |
| Pipeline (`services/pipeline.py`, `app/worker.py`, `app/db.py`) | `pipeline_runs`, the broker's queue, the engine's pool | create, enqueue, five stages, fail, succeed | a crash between stages, early acknowledgement, connections of a closed loop | an outcome is true when it is reported, and no other actor changes it; a run settles |
| Claims and evidence (`services/claims.py`, `evidence.py`) | none | verify a rewrite, verify prose, offer evidence | names at the start of a sentence, parts of names, which resume a text is held against | a text that passes has no number, technology, employer, title or date that its sources lack, and no capitalised name but where the check does not look |
| Follow-ups, short answers (`services/followup.py`, `short_answers.py`) | `followups`, `short_answers` | generate, verify, retry once, look again, flush, commit | a retry judged on the wrong draft; two sessions and one unique key; weekends | only prose that passed is stored; follow-ups fall due on the right day |
| Assisted apply kit (`services/apply_kit.py`, `answer_profile.py`, `app/data/ats_fields.py`) | `answer_profiles` | assemble, regenerate one field | one field failing among many; rows that change between the plan and the answer | ready exactly when nothing blocks; no answer is replaced unseen |
| Scoring, embeddings (`services/score.py`, `embeddings.py`) | in-process LRU cache | score, embed | eviction inside a batch; rounding; no bullets, no requirements | scores stay in range; every asked text gets its vector |
| Accounts (`services/auth.py`, `users.py`) | `users`, `auth_sessions` | register, log in, resolve, log out | expiry boundary | a revoked or expired session is never live |
| Web (`web/src`) | query cache | optimistic status change | a late failure against a newer change | the cache ends at the server's state |

`PROJECT.json` lists each with its status, and 40 hazards at their lines: what is hard to test in
this code. The properties are for those hazards.

## 2. Modules

| Module | What it is |
|---|---|
| `Feed` | abstract: boards are registered and removed; one step applies a listing of a board, one adds links, one expires rows |
| `Postings` | ingestion as it runs: one coroutine per board, its awaits and commits, the semaphore, aborts, the sweep, days going by; refines `Feed` |
| `Matching` | EXTENDS `Feed`: refreshes, cached requirements, matches, digests |
| `Kit` | the kit of one job target under nine kinds of concurrent requests |
| `Pipeline` | runs, queue, worker, engine pool, crashes |
| `Vetted` | abstract: a place holds what it held at first, or a value that passed the check of that place |
| `Claims` | the claims of a resume, and the check of a rewritten bullet |
| `Diffing` | where two resumes differ, and what a version's page makes of it |
| `Scoring` | EXTENDS `Claims`: relevance of a text, four component scores, the headline |
| `Selections` | what of a sequence is in a set, and the stable partition of one, as folds |
| `Tailoring` | EXTENDS `Scoring`, `Diffing`, `Selections`: `tailor()` against a model that may answer anything; refines `Vetted` |
| `Prose` | EXTENDS `Scoring`: the evidence pack, the shape of each kind of prose, `verify_prose` |
| `FieldPlan` | the forms of three applicant tracking systems, the status of each field, the checklist |
| `Calendar` | business days, and what adding them means |
| `Desk` | EXTENDS `Prose`, `FieldPlan`, `Calendar`: the apply kit, short answers, letters, follow-ups and applications of one job target, as concurrent sessions; refines `Vetted` |
| `Inductions` | induction over numbers, finite sets and sequences, and what sums and selections have in common for every input; the other proofs cite it |
| `PostingsProofs`, `MatchingProofs`, `KitProofs`, `PipelineProofs`, `TailoringProofs`, `CalendarProofs`, `DeskProofs` | the proofs about the module of that name |
| `MCPostings`, `MCMatching`, `MCKit`, `MCPipeline`, `MCTailoring`, `MCDesk` | the values of the constants TLC is given, and a symmetry set |

Two composition decisions. `Matching` is composed with `Feed`, not with `Postings`: `Postings`
implements `Feed` (`ImplementsFeed`, proved), so what matching sees of ingestion is what any feed
may do. The tables' variables are shared: `Matching`'s `FeedByWorker` and `FeedByRequest` are
`Feed`'s actions conjoined with what the same statements do to cached requirements and matches
(`FollowFeed`). `Kit` and `Desk` look at one job target from two sides. `Kit` has every step of the
requests that make and render the kit, with texts as atoms; `Desk` has every step of the requests
that write prose, with what the checks see of a text, and takes POST kit, which `assemble_apply_kit`
calls first, as two steps: the commit of the version, and the commit of the letter with the reads
that follow it.

In each module a definition marked *broken variant* is the definition after it with a bug that the
code could have had; nothing else uses it. It says which mistake a property would notice.

### How state and actions correspond to the code

**Postings.** A posting is its unique key (board, external_id). Contents stand for the hashed text.
`age` counts the days since `last_seen_at` of an active row, cut off one past the window, as the
sweep's comparison is the only reader of the column. A run is told its concurrency (`Caps`; zero and
less are allowed) and lets in `permits` coroutines at once, one at least. `job[b]` says where the
coroutine of board b is: waiting for the semaphore, awaiting the fetch, about to upsert, about to
scan, about to commit links. `listed` is the list a fetch returned, in the coroutine's memory;
`plan` its uncommitted links. `FetchFails` is the SourceError branch of `fetch_board`: the streak is
committed and the caller gets an empty list, which `Upsert` then applies. `LinkScan` reads,
`LinkCommit` commits, and the foreign key may refuse it. `RunAborts` is the first exception out of
`gather`: the other coroutines are cancelled and lose what they had not committed (the cancellation
and the abort are one step: `asyncio.run` awaits the cancelled tasks before the worker goes on).
`DeleteBoard` cascades, at any point.

**Matching.** A refresher's `session` holds the rows it read (`text`, `cached`, `known`), the scores
it has not committed (`fresh`) and the posting whose extraction it awaits. `ExtractDone` writes the
requirements and commits earlier scores with them. The session's identity map holds weak references
and `expire_on_commit` is off, so postings, kept in a list, stay as read, and the profile is read
again for each posting. `Fit` says what the scorer makes of a text and a resume. The clock ticks at
every reading that is stored. `RefreshFails` and `DigestFails` are an exception or the death of the
process at any point: what was not committed is gone. The worker's task reads once which searches
are active; the model reads `is_active` of each when its refresh begins, and lets other tasks of the
worker in between two searches. A refresher may be any request of GET matches
(`saved_searches.py:68-73`) as well as the worker, and refreshes overlap; only the worker's tasks do
not overlap with each other.

**Kit.** `req[r]` is the session of one request: its stage, the rows as it loaded them, and what it
has flushed and not committed (`wrote`). From `wrote` follow the row locks others wait for and the
unique keys they would violate. `PutPdf`/`PutLetter` change S3 at once, `CommitPdf`/`CommitLetter`
add the documents row and commit all that was flushed. `Fails` is an exception or the death of the
process in any stage: the session is rolled back. `docs` and `apps` count up to "many".
`MissingPieces` is what GET kit would report as missing right then; it is not asked while two PDFs
of the resume make the look-up itself raise.

**Pipeline.** `runs` are the rows, `queue` the broker's list, `worker` the stage in progress.
`EnterStage` is `_record_stage`, `WorkStage` the stage's work, `FailRun` the `except` that records
the failure. `SucceedRun` is the commit of `_commit_run` that says succeeded, `FinishRun` the
reading of the row after it and the return; the `except` encloses both, so `FailRun` is possible
between them. A run for which the failure cannot be recorded is left out (section 6). `pool` is
"bound" when the engine pools connections of an event loop that is closed: beat tasks dispose of the
engine (`_run`), pipeline runs do not.

**Tailoring.** `stage` is where the loop of `tailor()` is; `candidates`, `role`, `pending`,
`bullets`, `skills`, `discarded` and `report` are its local variables. One role's bullets go to the
model and come back as any sequence of rewrites (`Answered`); each of them is one `TakeRewrite`,
with the code's order of tests (a candidate, of whichever role? quoted as it is? the model's own
word? `verify_rewrite`?); `OmitMissing` records what the answer left out, `Finish` reorders skills,
diffs and scores. `SkillsReordered` is the flag of `_reorder_skills`: without it the resume keeps
the skills it had, even if groups of one category have changed places. What the regular expressions
of `claims.py` find in a text (numbers, dates, capitalised words, words that open a sentence, terms)
is the constant `Facts`; what a search of the serialised resume finds in its other strings
(employers, titles, places, links, skills and their headings) is `Within` and `CapsIn`, and `Keys`
what it finds in the names of the fields. `Similarity` stands for what the vectors of two texts have
in common, negative included. `Renderings` is what may become of a round trip through the PDF: it
fails, or any number of bullets survives it.

**Desk.** `req[r]` is the session of one request: its stage, what it asks for, the resumes and the
date it read when it began, the draft it is about to store, and whether it found an answer when it
looked first (`cached`) and again (`found`). `Draft` is one call of the model with the check of its
answer and the retry; `LookAgain`, `FlushAnswer` and `CommitAnswer` are the select and the flush of
`_upsert_short_answer` and the commit after it, apart because another session with the same question
may come between: `Unflushed` is the lock on the unique key, `AnswerExists` its violation, which
nothing catches. `holds` is the lock on the job target's row that a session has from writing the
requirements to its end. `Others` are PUT answer-profile, a forced POST kit, PATCH application and
the replacement of the profile. What a session has read stays as it was read (`expire_on_commit` is
off); only the apply kit, which keeps no rows of POST kit, reads again after its commit
(`PlanFields`).

**Prose, Scoring, Claims, FieldPlan, Calendar.** Operators, no state. A draft is what is found in
it: words, names, numbers, cited evidence, sentences about the company, placeholders. `Clean` is the
list of violations being empty. Scores are hundredths of a percent, with the code's rounding, and
the code's values for an empty resume or an empty job.

## 3. Runs

| Run | Question | Bounds | Distinct states |
|---|---|---|---|
| `postings_feed` | do rows, links and health stay consistent under every interleaving, is it the abstract feed, does every run end and every stale posting go? | 2 boards with a posting each, which an answer may list twice; 2 contents (one of them matching across boards), streak thresholds 1 and 2, window of 1 day; a run told to take 0 boards at once (it takes one, the other waits) or 2 | 97,960 |
| `postings_outage` | does an outage leave postings to the sweep? No. | | violation |
| `postings_chain` | do links never chain? They may. | | violation |
| `matching_requests` | scope, staleness and digests, with a request that refreshes beside the worker | worker and one request; 2 searches, one of which does not see the board; one posting, 2 contents, 4 clock readings, 3 digests | 1,061,461 |
| `matching_stale` | does invalidation hold against a request's refresh? No. | one posting, worker and one request | violation |
| `kit_all` | two requests of any kinds against each other | 9 kinds, 1 version, 2 texts, symmetric | 678,555 |
| `kit_ends` | is one version live, can requests wait in a circle, and does every request end? | kinds kit, tailor, letter render; 2 version rows, 2 templates | 124,196 |
| `kit_readable` | can the PDF be looked up? Not after a second render. | one request at a time | violation |
| `pipeline_worker` | outcomes and crashes | 2 runs, 2 beat tasks, 1 crash | 22,186 |
| `pipeline_loop` | does a task never start on a closed loop's pool? It may. | no crash | violation |
| `tailoring` | does what a model says get past the checks, and is the report true? | 3 roles, 3 candidates of which 2 are put to the model, 9 rewrites it may return, 2 to an answer | 57,918 |
| `desk` | prose, answers, checklists and dates while requests and others interleave | an apply kit (seen, or with a field regenerated) beside one other request; 5 drafts, 2 resumes, the form of Greenhouse, 1 edit by others | 77,640 |

Why the bounds are enough. Every hazard covered needs at most two actors and one row of each table
they share, apart from two cases that get their own instance: links, which need rows on two boards,
and two ways of making one version, which need two rows. Two contents tell a changed text from an
unchanged one and a match from a non-match. Thresholds 1 and 2 visit each health; a window of one
day visits both sides of the cutoff. With one permit the second board of `postings_feed` waits for
the first, with two both are in flight; the safety properties are proved for any number of permits.
In `matching_requests` three digests are the fewest of which two that are not neighbours can repeat,
and four clock readings are three digests and a score; the resume is fixed, as no property of the
run reads it (`EditResume` changes nothing there). In `tailoring` the first role has two bullets
that one answer can repeat, swap or leave out, the second role can be named in the first one's
answer, the third is too old to be asked about; the proposals are one for each way through the
validation. Four bullets let a rendering lose none, some or all of them (the 95 percent of
`score.py:326` needs twenty bullets to be met by less than all, which the theorem covers); one title
is blank. In `desk` each of the five drafts passes a different part of the check: a note passes as a
short answer and two follow-ups, one only against the tailored resume, one has the slot of a
thank-you note, one invents a name, one is a letter. The instance begins without an answer profile
and with the profile as its owner wrote it (`FirstInit`); every other value is reached by an edit.
The application's date is a Friday, so that five and ten business days cross weekends.

Bounds in the guards: `MaxClock` and `MaxDigests` (Matching), `MaxBeats` and `MaxCrashes`
(Pipeline), `MaxAnswer` (Tailoring: rewrites in one answer), `MaxEdits` (Desk: what others do to the
rows). `Postings` and `Kit` need none: ages are cut off, counts saturate, streaks stop with the
board's death, and requests recycle. Deadlock is checked but in `tailoring` and `desk`, which really
stop: one tailoring ends, and each request of the desk is made once.

### What the passing runs show

* `LinksWellFormed`, `NoOrphanRows`, `LinksNeverMove`: whatever is deleted under a running ingest, a
  link leads from a stored row to another stored row and is never pointed elsewhere.
* `HealthTracksStreak`, `DeadStaysDead`: the ladder, and that no run started earlier revives a
  board.
* `IndInv` (with `ExpiryStamped`), `DeactivationHasCause`, `StalePostingsExpire`: who leaves the
  feed, why, and that the stale do. `IngestEnds`: an ingest ends however many of its boards fail or
  are deleted, with coroutines that wait for the semaphore and with a concurrency of zero.
* `ImplementsFeed`: three commits per board, interleaved and aborted anywhere, are steps of `Feed`.
* `MatchesInScope`: a refresh that loses its board or its posting half way leaves nothing behind,
  and a search never gets a match of a board it does not see, whoever refreshes.
* `OnlyLateAnswersGoStale`: of all that happens to cached requirements, one thing makes them differ
  from the posting's text: the answer to a request whose call was out while the text changed. New
  text takes them away whoever holds the old ones, and the worker never writes a late answer, since
  nothing is ingested while it waits.
* `DigestsRepeatAtMostOnce`: a match shown in a digest may be shown in the next one, when a request
  committed its score between the digest's mark and its reading, and in no later one.
* `DocsHaveObjects`, `RewritesComeWithDocuments`, `KitIsDelivered`: failures at every step of every
  request leave no dead link; a version's text is replaced only by a forced POST kit that has
  uploaded its PDF of that text, together with one more documents row, and stays as it was when that
  request dies (what the object under the key shows afterwards is not claimed: a render that loaded
  the old text may put it there again); a POST kit that answers leaves nothing for GET kit to report
  as missing, whatever the other request has done in between.
* `OneLiveVersion`, `NobodyWaitsInACircle`, `Kit!RequestsEnd`: races for the unique key, and the
  order in which locks are taken and kept over slow calls.
* `SucceededIsRendered`, `RunningIsReal`, `RunsSettle`: what a run's row says. `TakenBackByItsTask`:
  once it says how the run ended, no second message, request or restart changes that; the task that
  reported a success can still turn it into a failure before it returns, and a failure is final.
* `ClaimsAreBacked`: a bullet of the tailored resume has no number it did not have, the same dates,
  employers and titles, no listed skill that the resume never mentions, and no capitalised word that
  nothing backs, *except* one that opens a sentence. The exemption is `claims.py:325`: the run
  applies a rewrite that opens with a name the resume does not have, so `tailor.py:3-4` ("never a
  source of new claims") is not fully kept.
* `Tailoring!ImplementsVetted`: every bullet is the owner's or passed the check against the owner's
  text, not against what an earlier answer put in its place; it says "passed the check", no more.
* `ReportIsTrue`: every candidate was returned or is listed as discarded; the changes shown are
  where the two resumes differ, each under its role; the counts are theirs. A discarded candidate
  kept its bullet, if the model kept to one object per candidate.
* `SkillsOnlyMove`: groups and skills are never lost, made or repeated, and within a group only
  those of one letter change places, as the lexicon they are compared with holds all the others.
  `ScoresInRange`: every component is between zero and a hundred percent, the headline between the
  worst and the best but for rounding, also with nothing to score and whatever part of the bullets
  survives the renderings.
* `Desk!ImplementsVetted`: a stored answer, letter or follow-up passed the check of its kind,
  against the resumes it was written from. `AnswersReplacedKnowingly`: of two requests that draft
  one answer at once, one that found none after its draft never replaces what the other committed
  since; the unique key refuses it. One that found it does replace it, unforced, which is less than
  `short_answers.py:378-379` says ("reused unless force is set").
* `ReadyMeansReady`: a checklist says "ready" only over a form whose facts are known and whose
  question has an answer that passed; and the gaps are the facts that are missing.
* `FollowupsDated`, `Desk!RequestsEnd`: follow-ups fall due on the right day of an application that
  has a date; every request ends, through both attempts, the key's lock and the rows' locks.

### What the violations show

1. **A failed fetch empties the board** (`postings_outage`). `fetch_board` turns a SourceError into
   `[]` and `ingest_all_boards` upserts it; one failure deactivates all of the board's postings. The
   comments at `services/postings.py:216` and `app/config.py:23` expect such postings to be left for
   the sweep.
2. **Links chain** (`postings_chain`), against the comment at `services/postings.py:191`.
3. **Stale requirements overwrite the invalidation** (`matching_stale`), against
   `app/models/posting.py:66`.
4. **A second render makes the kit unreadable** (`kit_readable`): two documents rows make
   `scalar_one_or_none` raise.
5. **Pipeline tasks leave the pool on a closed loop** (`pipeline_loop`), against `app/worker.py:57`.

Other disagreements were met while reading and modelling and have no run; they are hazards with a
note: digests show linked duplicates; with a request that refreshes, a digest may repeat the one
before it (against `digest.py:6-7`) and pass over a match for good; a reset resume is not rescored;
a name that opens a sentence passes the check of a rewrite; a failure to read a run's row again
takes back its success; the object of a version may show another text than its row; a template
switch through docx or a letter is not rerendered; letters stay behind a rewritten version's text;
tracking and creating from a posting are not idempotent under two clicks; deletion races with a new
application; a pipeline run that fails while rendering blocks its own retry; an apply kit that found
no answer overwrites the one stored while it drafted.

## 4. Fairness

* `Postings!FairSpec`: weak fairness of the boards' coroutines taken together and of the run's end
  (the event loop runs one of those that are ready, awaited calls have timeouts; a coroutine that
  waits for the semaphore is helped by the others' progress only), strong fairness of the sweep (the beat schedule
  sends it every day, and the worker is free between tasks but not always). Nothing is assumed of
  API requests, of boards' answers, or of ingestion being started.
* `Kit!FairSpec` and `Desk!FairSpec`: strong fairness of each request's steps. A request can be
  enabled and disabled again while others take and release the lock it waits for; PostgreSQL grants
  row locks in the order they were asked for, so it is not overtaken for ever. The calls to the
  model time out. That a request fails, or that its draft passes, is not assumed.
* `Pipeline!FairSpec`: weak fairness of the worker. Sending the task is not fair: a process can die
  between the commit and the send.

## 5. Proofs

For any finite or infinite sets of boards, postings, searches, requests, versions, texts, resumes,
drafts and questions, from the assumptions of the modules only (`FeedAssumption`, `KitAssumption`,
`DeskAssumption` and their like: the sentinel `None` is none of the values, functions have their
domains, thresholds are ordered). TLC evaluates the assumptions in the runs. Where a theorem needs
more it says so. Every preservation proof has one step per action.

**Postings.** `LinksWellFormed` is not inductive: `LinkCommit` writes a plan computed earlier.
`IndInv` adds what plans and coroutines are: `PlansPending` (a plan belongs to a coroutine about to
commit, never links a row to itself, and is only for a row that still has no link),
`OnlyLiveBoardsFetched` (a board on its way to a fetch is short of the dead threshold) and
`FreeMeansIdle` (no coroutine outside a run). It holds throughout (`FeedStaysCoherent`). From it
follow `TypeCorrect`, `LinksStayWellFormed`, `RowsStayConsistent` (active and deactivated rows),
`RowsHaveBoards` (no orphans), `HealthFollowsStreak`, and the action properties
`DeadBoardsStayDead`, `LinksAreFinal`, `DeactivationsAreCaused`. `IngestionImplementsFeed` shows
that every step is a step of `Feed` or leaves its variables alone; the one that needs the invariant
is `LinkCommit`, whose targets must be admissible links at the time of the commit.

**Matching.** `MatchesStayInScope` holds for any refreshers: a session's rows may be gone by the
time it commits, and `Commits` refuses what the foreign and unique keys refuse. The other two
theorems hold for any number of requests that refresh beside the worker. `StaleOnlyByLateAnswers`
needs `ReadsAgree`: what the worker's session holds of a posting that is still stored is its text,
because only the worker ingests; so an answer that the worker stores is of the present text, and
what remains is the answer to a request. `DigestsMoveOn` needs `Stamped` (no score is later than the
clock) and `Marked` (what a digest shows is not later than the mark of the next one, and what is
being built is later than the mark there is), so that only a neighbour can show it again.

**Kit.** The inductive invariant is `IndInv`: besides types, `DocsHaveObjects` and `OneLiveVersion`
it needs `SessionsCoherent`. A version that is being inserted exists in one session only, no version
is live while it is there, and nobody else may insert; what was uploaded in a stage is in S3 before
the commit of the stage. Each request's shape (which fields are set in which stage) is
`SessionShape`. From it follow `DownloadsExist`, `OneVersionIsLive`, `SessionsStayCoherent` and the
action property `RewritesAreDocumented` (of all the commits that write a version's text only that of
a forced kit finds another text in the row, and it does so after its upload). `KitsAreDelivered` is
about the answer of POST kit: `KitInv` says, for each stage of a kit, which pieces are in the tables
or in what the session has flushed, and `Progress` that other requests only add to them, or delete
the version as a whole. `LocksAreOrdered` needs `LockInv`: a request that has flushed the
requirements never extracts again, only the kit keeps a letter flushed, and a version's row is
flushed by one session at a time. Then whoever holds a version, its row or a letter waits for nobody
(`HoldersGoOn`), and whoever holds the job target waits at most for one of those.
`RequestsGoForward` gives the rest of the argument that requests end: each step lowers the number of
stages ahead (`Ahead`), at most ten, and no other request raises it. What is left to fairness is
that a lock is granted and a call answered.

**Pipeline.** `Held` says who has a run: each was sent at most once, so it waits at one place of the
queue and is pending, or is the worker's, rendered once the worker is past that stage and succeeded
once it has reported, or neither. `SuccessMeansRendered`, `RunningMeansWorked` (but for a worker
that died) and `OutcomesAreTheTasks` follow.

**Tailoring.** `ClaimsStayBacked` and `TailoringIsVetted` need that a bullet changed only by
`ApplyRewrite`, which checks against the owner's text and not the current one. `ReportsAreTrue`
needs `LoopInv`: the candidates of the roles that the loop has passed are all accounted for
(`Accounted`); what is pending is the end of what was returned (`PendingNamed`); a bullet changed
only if its object was handled (`Kept`). The rest is about `Diff`: it finds the refs whose text
changed, and no other.

`SkillsAreMoved`, `TailoringIsTyped` and `ScoresStayInRange` are about what `Finish` computes, for
every resume and job. A stable partition of a sequence counts as many of every value as the sequence
(`PartitionSameBag`) and keeps the order of whatever is all on one side (`PartitionKeepsOrder`); a
skill of two characters or more is part of the lexicon that it is looked up in, so it matches
(`LongSkillsMatch`), and both are used once within the groups and once for the groups. That
`SkillsReordered` says exactly whether the skills differ (`ReorderedIsDifferent`) needs that a
second partition changes nothing (`PartitionTwice`). The scores are in range because the weight of
the covered terms is part of the weight of all (`SumMonotone`), a sum of capped scores is at most
the cap times their number (`SumBounded`), and a quotient rounds to at most k when it is at most k
(`RoundBounded`); each of the headline's four parts is off by half a hundredth at most
(`WeightedAverage`). The assumption that a job's terms are finite is what makes the sums exist.

**Inductions.** The library's induction theorems take an operator, which the provers cannot
instantiate, but that less-than is well-founded on the naturals (`NatLessThanWellFounded`, `WFMin`)
is a statement about sets. `Induction` (a set with 0 and with the successor of each member has all
naturals), `InductionOnSet` and `InductionOnSeq` follow from it, and with them, for the folds of the
community modules, that their recursion has a solution and only one, and the equations of sums and
selections.

**Calendar.** `AddBusinessDays` goes on day by day; `BusinessDaysAdded` shows for every starting day
and every number of days, by `Induction`, that it ends on a business day with exactly that many of
them passed.

**Desk.** The invariant says of each session, by stage and kind, what it holds (`Stands`): a draft
about to be stored passed against the resumes the session read, a follow-up in flight has a date, a
view that found an answer does not draft, an apply kit that returns without a failure shows an
answer that passed, to a question that has one (`Fit`, `Stands`). With it go the tables (`Tabled`),
`Passed` (every stored text) and `FollowupsDated`. `DeskIsVetted`, `ReadyIsReady`, and
`FollowupsAreDated` (by `BusinessDaysAdded`) follow. `AnswersReplacedAfterLooking` needs `Locked`:
no two sessions have flushed an answer to one question, and one that has flushed its own over an
answer in the table had found that one. `RequestsGoForward`: each step of a request, and a second
draft with it, lowers a number (`Ahead`), and nothing that anybody else does raises it.

Only model-checked: liveness (`IngestEnds`, `StalePostingsExpire`, both `RequestsEnd`,
`RunsSettle`), as fairness and ENABLED are out of the prover's reach (what both `RequestsEnd` need
besides is proved: `RequestsGoForward`, and `LocksAreOrdered` in Kit). Every invariant and every
action property of the passing runs is a theorem.

## 6. Not modelled

* Outside the code: what a model answers, vectors and their similarity, rendering of templates, S3
  and HTTP. They are a nondeterministic success, failure or value. The regular expressions of
  `claims.py` and the fuzzy ratios are parameters (`Facts`, `Written`, `Overlaps`, `Similarity`,
  `Ratio`), and so is the guess of what kind of question a form asks.
* Left out of modelled parts: template variables and docx documents beyond their rows, back-filling
  scores into versions made before scores were kept, the kit view of an application, sorting and
  paging of lists, a database that fails while a pipeline failure is being recorded, the retries
  inside the LLM client, which change no state, the status of an application, which only lists read.
* In `Desk` the version is not deleted meanwhile (`Kit` has deletions), a POST kit inserts its
  letter in one step with its last commit, and there is one job target. The creation of job targets
  is not modelled, nor is the fallback extraction without a key.
* Accounts: an operation is one statement on one row, and no other router asks who the user is. The
  embedding cache: what it can get wrong needs it to be full. The web frontend, the HTTP layer,
  migrations, scripts and evaluations: views, mappings, DDL and offline programs. `PROJECT.json`
  gives each component's status and reason.

## 7. What could come next

1. Job targets as a module: creation from a posting, the look-up without a key, and what two kits of
   one posting share.
2. The embedding cache against its bound, as a refinement of "every asked text gets its vector".
3. Refreshes by requests with the fairness of later refreshes, and a digest that catches up.
4. The optimistic status change of the web frontend against the server's list.

Instances are kept below five minutes: where a larger instance is wanted, the property is proved.

## 8. Running

    tlc -workers 2 -config Postings_feed.cfg MCPostings
    tlapm PostingsProofs.tla

Each run's module and configuration are in `PROJECT.json`.
