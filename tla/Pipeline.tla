------------------------------- MODULE Pipeline --------------------------------
(***************************************************************************)
(* Pipeline runs: the API request that records and enqueues a run, the     *)
(* Celery worker that takes one task after another (solo pool), and the    *)
(* five stages of a run, each announced on the run's row before it is      *)
(* worked on.  All runs here are of one profile and job target, so their   *)
(* tailored versions compete for one unique key, with each other and with  *)
(* the versions that requests make and delete.                             *)
(*                                                                         *)
(* Celery acknowledges a message as it hands it to the task: a worker that *)
(* dies takes the task with it.                                            *)
(*                                                                         *)
(* A definition marked as a broken variant is what the one after it would  *)
(* be with a bug; no other definition uses it.                             *)
(***************************************************************************)
EXTENDS Naturals, Sequences

CONSTANTS
    Runs,        \* pipeline_runs.id
    Beat,        \* a task of the beat schedule
    Request,     \* the maker of a version that no run made
    None,
    MaxBeats,    \* bound on the beat tasks sent
    MaxCrashes   \* bound on the crashes of the worker

VARIABLES
    runs,     \* run -> [status, stage], or None before the request
    queue,    \* the broker's queue
    sent,     \* runs whose task was sent
    beats,    \* beat tasks sent so far
    worker,   \* [task, step, entered]: the stage a run is in, announced or not
    pool,     \* "bound": the engine pools connections of a closed event loop
    version,  \* the live version of the job target: who made it
    rendered, \* runs whose version has a documents row and an object
    crashes

vars == <<runs, queue, sent, beats, worker, pool, version, rendered, crashes>>

Steps == <<"parse_resume", "extract_requirements", "embeddings", "tailor", "render_pdf">>
Tailor == 4
Render == 5
Reported == Len(Steps) + 2  \* the succeeded row is committed, the task not over
Statuses == {"pending", "running", "succeeded", "failed"}
StageNames == {"pending", "succeeded"} \cup {Steps[k] : k \in 1 .. Len(Steps)}
RunRow == [status : Statuses, stage : StageNames]

ASSUME PipelineAssumption ==
    /\ Beat \notin Runs /\ Request \notin Runs
    /\ None \notin Runs \cup {Beat, Request} \cup RunRow
    /\ MaxBeats \in Nat /\ MaxCrashes \in Nat

Resting == [task |-> None, step |-> 0, entered |-> FALSE]

TypeOK ==
    /\ runs \in [Runs -> RunRow \cup {None}]
    /\ queue \in Seq(Runs \cup {Beat})
    /\ sent \subseteq Runs
    /\ beats \in 0 .. MaxBeats
    /\ worker \in [task : Runs \cup {None}, step : 0 .. Reported, entered : BOOLEAN]
    /\ pool \in {"clean", "bound"}
    /\ version \in Runs \cup {Request, None}
    /\ rendered \subseteq Runs
    /\ crashes \in 0 .. MaxCrashes

Init ==
    /\ runs = [r \in Runs |-> None]
    /\ queue = << >>
    /\ sent = {}
    /\ beats = 0
    /\ worker = Resting
    /\ pool = "clean"
    /\ version = None
    /\ rendered = {}
    /\ crashes = 0

-----------------------------------------------------------------------------
(* POST /pipeline/runs commits the row, then sends the task.  A process    *)
(* that dies in between never sends it.                                    *)
CreateRun(r) ==
    /\ runs[r] = None
    /\ runs' = [runs EXCEPT ![r] = [status |-> "pending", stage |-> "pending"]]
    /\ UNCHANGED <<queue, sent, beats, worker, pool, version, rendered, crashes>>

Send(r) ==
    /\ runs[r] # None
    /\ r \notin sent
    /\ sent' = sent \cup {r}
    /\ queue' = Append(queue, r)
    /\ UNCHANGED <<runs, beats, worker, pool, version, rendered, crashes>>

SendBeat ==
    /\ beats < MaxBeats
    /\ beats' = beats + 1
    /\ queue' = Append(queue, Beat)
    /\ UNCHANGED <<runs, sent, worker, pool, version, rendered, crashes>>

(* Tailoring, or the kit, by request; deleting the version. *)
RequestMakesVersion ==
    /\ version = None
    /\ version' = Request
    /\ UNCHANGED <<runs, queue, sent, beats, worker, pool, rendered, crashes>>

RequestDeletesVersion ==
    /\ version # None
    /\ version' = None
    /\ UNCHANGED <<runs, queue, sent, beats, worker, pool, rendered, crashes>>

-----------------------------------------------------------------------------
(* The worker. *)

NextTaskIs(task) == worker = Resting /\ queue # << >> /\ Head(queue) = task

(* A beat task runs under _run, which disposes of the engine whatever      *)
(* became of the task.  What it does to the feed is Postings' and          *)
(* Matching's business.                                                    *)
RunBeat ==
    /\ NextTaskIs(Beat)
    /\ queue' = Tail(queue)
    /\ pool' = "clean"
    /\ UNCHANGED <<runs, sent, beats, worker, version, rendered, crashes>>

\* Broken variant.
StartsUnacknowledged(r) ==
    /\ NextTaskIs(r)
    /\ pool = "clean"
    /\ worker' = [task |-> r, step |-> 1, entered |-> FALSE]
    /\ UNCHANGED <<runs, queue, sent, beats, pool, version, rendered, crashes>>

StartRun(r) ==
    /\ NextTaskIs(r)
    /\ pool = "clean"
    /\ queue' = Tail(queue)
    /\ worker' = [task |-> r, step |-> 1, entered |-> FALSE]
    /\ UNCHANGED <<runs, sent, beats, pool, version, rendered, crashes>>

(* The run's row is read on a connection of another event loop.  That      *)
(* raises outside of the try that records failures; the pool may or may    *)
(* not drop the connection.                                                *)
StartRaises(r) ==
    /\ NextTaskIs(r)
    /\ pool = "bound"
    /\ queue' = Tail(queue)
    /\ pool' \in {"clean", "bound"}
    /\ UNCHANGED <<runs, sent, beats, worker, version, rendered, crashes>>

(* _record_stage *)
EnterStage(r) ==
    /\ worker.task = r
    /\ ~ worker.entered
    /\ worker.step <= Len(Steps)
    /\ runs' = [runs EXCEPT ![r] = [status |-> "running", stage |-> Steps[worker.step]]]
    /\ worker' = [worker EXCEPT !.entered = TRUE]
    /\ UNCHANGED <<queue, sent, beats, pool, version, rendered, crashes>>

(* The stage's own work and _finish_stage.  The tailored version is        *)
(* inserted if the key is free; rendering goes on with the version in      *)
(* memory.                                                                 *)
WorkStage(r) ==
    /\ worker.task = r
    /\ worker.entered
    /\ worker.step = Tailor => version = None
    /\ version' = IF worker.step = Tailor THEN r ELSE version
    /\ rendered' = IF worker.step = Render THEN rendered \cup {r} ELSE rendered
    /\ worker' = [worker EXCEPT !.step = @ + 1, !.entered = FALSE]
    /\ UNCHANGED <<runs, queue, sent, beats, pool, crashes>>

\* Broken variant.
FailsUnrecorded(r) ==
    /\ worker.task = r
    /\ worker' = Resting
    /\ pool' = "bound"
    /\ UNCHANGED <<runs, queue, sent, beats, version, rendered, crashes>>

\* Broken variant.
FailsWithStage(r) ==
    /\ worker.task = r
    /\ runs' = [runs EXCEPT ![r] = [status |-> "failed", stage |-> "failed"]]
    /\ worker' = Resting
    /\ pool' = "bound"
    /\ UNCHANGED <<queue, sent, beats, version, rendered, crashes>>

(* Anything raised in or between the stages (a call that fails, the key    *)
(* taken) is recorded, and so is what is raised by reading the row again   *)
(* after the commit that says succeeded: the stage stays, the status is    *)
(* overwritten.  asyncio.run closes the loop, the engine keeps its pool.   *)
FailRun(r) ==
    /\ worker.task = r
    /\ runs' = [runs EXCEPT ![r].status = "failed"]
    /\ worker' = Resting
    /\ pool' = "bound"
    /\ UNCHANGED <<queue, sent, beats, version, rendered, crashes>>

\* Broken variant.
SucceedsBeforeRender(r) ==
    /\ worker.task = r
    /\ worker.step = Len(Steps)
    /\ runs' = [runs EXCEPT ![r] = [status |-> "succeeded", stage |-> "succeeded"]]
    /\ worker' = [worker EXCEPT !.step = Reported]
    /\ UNCHANGED <<queue, sent, beats, pool, version, rendered, crashes>>

(* _commit_run: the commit, after which the row is read again.             *)
SucceedRun(r) ==
    /\ worker.task = r
    /\ worker.step = Len(Steps) + 1
    /\ runs' = [runs EXCEPT ![r] = [status |-> "succeeded", stage |-> "succeeded"]]
    /\ worker' = [worker EXCEPT !.step = Reported]
    /\ UNCHANGED <<queue, sent, beats, pool, version, rendered, crashes>>

(* The row was read; the task returns its results.                         *)
FinishRun(r) ==
    /\ worker.task = r
    /\ worker.step = Reported
    /\ worker' = Resting
    /\ pool' = "bound"
    /\ UNCHANGED <<runs, queue, sent, beats, version, rendered, crashes>>

(* The worker process dies and is started again. *)
Crash ==
    /\ crashes < MaxCrashes
    /\ crashes' = crashes + 1
    /\ worker' = Resting
    /\ pool' = "clean"
    /\ UNCHANGED <<runs, queue, sent, beats, version, rendered>>

WorkerStep ==
    \/ RunBeat
    \/ \E r \in Runs :
         \/ StartRun(r) \/ StartRaises(r)
         \/ EnterStage(r) \/ WorkStage(r)
         \/ FailRun(r) \/ SucceedRun(r) \/ FinishRun(r)

Next ==
    \/ \E r \in Runs : CreateRun(r) \/ Send(r)
    \/ SendBeat
    \/ RequestMakesVersion \/ RequestDeletesVersion
    \/ WorkerStep
    \/ Crash

Spec == Init /\ [][Next]_vars

(* The worker goes on with its task: the calls it awaits have timeouts.    *)
FairSpec == Spec /\ WF_vars(WorkerStep)

-----------------------------------------------------------------------------
(* Properties. *)

Settled == {"succeeded", "failed"}
Status(r) == IF runs[r] = None THEN "none" ELSE runs[r].status

(* A run is reported succeeded only when its PDF can be downloaded, and    *)
(* only one that is running can have become so.                            *)
SucceededIsRendered == \A r \in Runs : Status(r) = "succeeded" => r \in rendered

(* Unless the worker died, a run that says it is running is being worked   *)
(* on: every other way out of the stages records its outcome.              *)
RunningIsReal ==
    \A r \in Runs : Status(r) = "running" /\ crashes = 0 => worker.task = r

(* No second message, request or restart changes the outcome a user may    *)
(* have been shown.  Only the task that reported a success can take it     *)
(* back, while it is still the worker's, by recording a failure; a failure *)
(* is final.                                                               *)
TakenBackByItsTask ==
    [][\A r \in Runs : Status(r) \in Settled /\ runs'[r] # runs[r] =>
           /\ Status(r) = "succeeded" /\ worker.task = r
           /\ runs'[r] = [runs[r] EXCEPT !.status = "failed"]]_runs

(* A run that was started settles, unless the worker dies.                 *)
RunsSettle ==
    \A r \in Runs : Status(r) = "running" ~> Status(r) \in Settled \/ crashes > 0

(* worker.py:57 "disposing the engine after so the next Celery task (solo  *)
(* pool) doesn't reuse asyncpg connections bound to a now-closed loop".    *)
NoTaskOnAClosedLoop ==
    [][Len(queue') < Len(queue) => pool = "clean"]_queue
=============================================================================
