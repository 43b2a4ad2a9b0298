---------------------------- MODULE PipelineProofs ----------------------------
(***************************************************************************)
(* Proofs about Pipeline, for any number of runs, beat tasks and crashes.  *)
(***************************************************************************)
EXTENDS Pipeline, TLAPS

LEMMA Appended ==
    ASSUME NEW S, NEW s \in Seq(S), NEW x \in S
    PROVE  /\ Append(s, x) \in Seq(S)
           /\ Len(Append(s, x)) = Len(s) + 1
           /\ \A k \in 1 .. Len(s) : Append(s, x)[k] = s[k]
           /\ Append(s, x)[Len(s) + 1] = x
  OBVIOUS

LEMMA Popped ==
    ASSUME NEW S, NEW s \in Seq(S), s # << >>
    PROVE  /\ Head(s) = s[1] /\ Len(s) \in Nat \ {0}
           /\ Tail(s) \in Seq(S)
           /\ Len(Tail(s)) = Len(s) - 1
           /\ \A k \in 1 .. Len(Tail(s)) : Tail(s)[k] = s[k + 1]
  OBVIOUS

LEMMA FiveSteps ==
    /\ Len(Steps) = 5
    /\ \A k \in 1 .. 5 : Steps[k] \in StageNames
    /\ Steps[Render] = "render_pdf"
    /\ Reported = 7
  BY DEF Steps, StageNames, Render, Reported

(* The type of the state, with the step that a task is at, and the rows    *)
(* there are for the tasks.                                                *)
Typed ==
    /\ TypeOK
    /\ worker.task # None => worker.step >= 1 /\ runs[worker.task] # None
    /\ worker.entered => worker.task # None /\ worker.step <= Len(Steps)
    /\ \A k \in 1 .. Len(queue) : queue[k] \in Runs => runs[queue[k]] # None

WorkerRow == [task : Runs \cup {None}, step : 0 .. Reported, entered : BOOLEAN]

(* Rows stay: an action that only changes rows keeps what is said of them. *)
LEMMA RowsStay ==
    ASSUME Typed, \A r \in Runs : runs[r] # None => runs'[r] # None
    PROVE  /\ queue' = queue => \A k \in 1 .. Len(queue') : queue'[k] \in Runs => runs'[queue'[k]] # None
           /\ queue # << >> /\ queue' = Tail(queue) =>
                /\ queue' \in Seq(Runs \cup {Beat})
                /\ \A k \in 1 .. Len(queue') : queue'[k] \in Runs => runs'[queue'[k]] # None
<1> USE DEF Typed, TypeOK
<1>1. CASE queue' = queue
  BY <1>1
<1>2. CASE queue # << >> /\ queue' = Tail(queue)
  <2>1. /\ queue' \in Seq(Runs \cup {Beat})
        /\ Len(queue) \in Nat /\ Len(queue') = Len(queue) - 1
        /\ \A k \in 1 .. Len(queue') : queue'[k] = queue[k + 1]
    BY <1>2, Popped
  <2>2. \A k \in 1 .. Len(queue') : k + 1 \in 1 .. Len(queue)
    BY <2>1
  <2> QED
    BY <2>1, <2>2
<1> QED
  BY <1>1, <1>2

LEMMA Enqueued ==
    ASSUME Typed, NEW task \in Runs \cup {Beat}, queue' = Append(queue, task), runs' = runs,
           task \in Runs => runs[task] # None
    PROVE  /\ queue' \in Seq(Runs \cup {Beat})
           /\ \A k \in 1 .. Len(queue') : queue'[k] \in Runs => runs'[queue'[k]] # None
<1> USE DEF Typed, TypeOK
<1>1. /\ queue' \in Seq(Runs \cup {Beat})
      /\ Len(queue) \in Nat /\ Len(queue') = Len(queue) + 1
      /\ \A k \in 1 .. Len(queue) : queue'[k] = queue[k]
      /\ queue'[Len(queue) + 1] = task
  BY Appended
<1>2. \A k \in 1 .. Len(queue') : k \in 1 .. Len(queue) \/ k = Len(queue) + 1
  BY <1>1
<1> QED
  BY <1>1, <1>2

LEMMA TypedInv == Spec => []Typed
<1>1. Init => Typed
  BY FiveSteps, PipelineAssumption DEF Init, Typed, TypeOK, Resting
<1>2. Typed /\ [Next]_vars => Typed'
  <2> SUFFICES ASSUME Typed, [Next]_vars PROVE Typed'
    OBVIOUS
  <2> USE DEF Typed
  <2>0. /\ runs \in [Runs -> RunRow \cup {None}]
        /\ worker \in WorkerRow
        /\ None \notin Runs \cup RunRow /\ Resting \in WorkerRow
    BY PipelineAssumption, FiveSteps DEF TypeOK, RunRow, WorkerRow, Resting
  <2>1. ASSUME NEW r \in Runs, CreateRun(r) PROVE Typed'
    <3>1. runs' \in [Runs -> RunRow \cup {None}] /\ \A p \in Runs : runs[p] # None => runs'[p] # None
      BY <2>0, <2>1 DEF CreateRun, Statuses, StageNames, RunRow
    <3> QED
      BY <2>0, <2>1, <3>1, RowsStay DEF CreateRun, TypeOK, RunRow, WorkerRow
  <2>2. ASSUME NEW r \in Runs, Send(r) PROVE Typed'
    <3>1. /\ queue' \in Seq(Runs \cup {Beat})
          /\ \A k \in 1 .. Len(queue') : queue'[k] \in Runs => runs'[queue'[k]] # None
      BY <2>2, Enqueued DEF Send
    <3> QED
      BY <2>2, <3>1 DEF Send, TypeOK
  <2>3. CASE SendBeat
    <3>1. /\ queue' \in Seq(Runs \cup {Beat})
          /\ \A k \in 1 .. Len(queue') : queue'[k] \in Runs => runs'[queue'[k]] # None
      BY <2>3, Enqueued, PipelineAssumption DEF SendBeat
    <3> QED
      BY <2>3, <3>1, PipelineAssumption DEF SendBeat, TypeOK
  <2>4. CASE RequestMakesVersion \/ RequestDeletesVersion
    BY <2>4 DEF RequestMakesVersion, RequestDeletesVersion, TypeOK
  <2>5. CASE RunBeat
    <3>1. /\ queue' \in Seq(Runs \cup {Beat})
          /\ \A k \in 1 .. Len(queue') : queue'[k] \in Runs => runs'[queue'[k]] # None
      BY <2>5, RowsStay DEF RunBeat, NextTaskIs
    <3> QED
      BY <2>5, <3>1 DEF RunBeat, TypeOK
  <2>6. ASSUME NEW r \in Runs, StartRun(r) PROVE Typed'
    <3>1. /\ queue' \in Seq(Runs \cup {Beat})
          /\ \A k \in 1 .. Len(queue') : queue'[k] \in Runs => runs'[queue'[k]] # None
      BY <2>6, RowsStay DEF StartRun, NextTaskIs
    <3>2. runs[r] # None
      <4>1. r = queue[1] /\ 1 \in 1 .. Len(queue)
        BY <2>6, Popped DEF StartRun, NextTaskIs, TypeOK
      <4> QED
        BY <4>1
    <3>3. worker' = [task |-> r, step |-> 1, entered |-> FALSE] /\ worker' \in WorkerRow
      BY <2>6, FiveSteps DEF StartRun, WorkerRow
    <3> QED
      BY <2>0, <2>6, <3>1, <3>2, <3>3 DEF StartRun, TypeOK, WorkerRow
  <2>7. ASSUME NEW r \in Runs, StartRaises(r) PROVE Typed'
    <3>1. /\ queue' \in Seq(Runs \cup {Beat})
          /\ \A k \in 1 .. Len(queue') : queue'[k] \in Runs => runs'[queue'[k]] # None
      BY <2>7, RowsStay DEF StartRaises, NextTaskIs
    <3> QED
      BY <2>7, <3>1 DEF StartRaises, TypeOK
  <2>8. ASSUME NEW r \in Runs, EnterStage(r) PROVE Typed'
    <3>1. worker.step \in 1 .. 5 /\ r # None /\ worker.task = r
      BY <2>0, <2>8, FiveSteps DEF EnterStage, WorkerRow
    <3>2. [status |-> "running", stage |-> Steps[worker.step]] \in RunRow
      BY <3>1, FiveSteps DEF Statuses, RunRow
    <3>3. /\ runs' \in [Runs -> RunRow \cup {None}] /\ runs'[r] # None
          /\ \A p \in Runs : runs[p] # None => runs'[p] # None
      BY <2>0, <2>8, <3>2 DEF EnterStage
    <3>4. worker' \in WorkerRow /\ worker'.step = worker.step /\ worker'.task = r
      BY <2>0, <2>8, <3>1 DEF EnterStage, WorkerRow
    <3> QED
      BY <2>0, <2>8, <3>1, <3>3, <3>4, FiveSteps, RowsStay DEF EnterStage, TypeOK, RunRow, WorkerRow
  <2>9. ASSUME NEW r \in Runs, WorkStage(r) PROVE Typed'
    <3>1. worker.step \in 1 .. 5 /\ r # None /\ worker.task = r
      BY <2>0, <2>9, FiveSteps DEF WorkStage, WorkerRow
    <3>2. worker' = [task |-> r, step |-> worker.step + 1, entered |-> FALSE]
      BY <2>0, <2>9, <3>1 DEF WorkStage, WorkerRow
    <3>3. worker' \in WorkerRow /\ worker.step + 1 >= 1
      BY <3>1, <3>2, FiveSteps DEF WorkerRow
    <3> QED
      BY <2>0, <2>9, <3>1, <3>2, <3>3 DEF WorkStage, TypeOK, WorkerRow
  <2>10. ASSUME NEW r \in Runs, FailRun(r) \/ SucceedRun(r) PROVE Typed'
    <3>1. runs[r] \in RunRow /\ worker.task = r /\ r # None
      BY <2>0, <2>10 DEF FailRun, SucceedRun
    <3>2. /\ runs' \in [Runs -> RunRow \cup {None}]
          /\ \A p \in Runs : runs[p] # None => runs'[p] # None
      <4>1. [runs[r] EXCEPT !.status = "failed"] \in RunRow
        BY <3>1 DEF RunRow, Statuses
      <4>2. [status |-> "succeeded", stage |-> "succeeded"] \in RunRow
        BY DEF RunRow, Statuses, StageNames
      <4>3. PICK row \in RunRow : runs' = [runs EXCEPT ![r] = row]
        BY <2>10, <4>1, <4>2 DEF FailRun, SucceedRun
      <4> QED
        BY <2>0, <4>3
    <3>3. CASE FailRun(r)
      BY <2>0, <3>2, <3>3, RowsStay DEF FailRun, TypeOK, RunRow, WorkerRow, Resting
    <3>4. CASE SucceedRun(r)
      <4>1. ~ worker.entered
        BY <2>0, <3>4, FiveSteps DEF SucceedRun
      <4>2. /\ worker' \in WorkerRow /\ worker'.step >= 1
            /\ worker'.task = r /\ worker'.entered = worker.entered
        BY <2>0, <3>1, <3>4, FiveSteps DEF SucceedRun, WorkerRow
      <4>3. runs'[r] # None
        BY <3>1, <3>2
      <4> QED
        BY <3>2, <3>4, <4>1, <4>2, <4>3, RowsStay DEF SucceedRun, TypeOK, WorkerRow
    <3> QED
      BY <2>10, <3>3, <3>4
  <2>13. ASSUME NEW r \in Runs, FinishRun(r) PROVE Typed'
    BY <2>0, <2>13, RowsStay DEF FinishRun, TypeOK, RunRow, WorkerRow, Resting
  <2>11. CASE Crash
    BY <2>0, <2>11, PipelineAssumption DEF Crash, Resting, TypeOK, WorkerRow
  <2>12. CASE UNCHANGED vars
    BY <2>12 DEF vars, TypeOK
  <2> QED
    BY <2>1, <2>2, <2>3, <2>4, <2>5, <2>6, <2>7, <2>8, <2>9, <2>10, <2>11, <2>12, <2>13
       DEF Next, WorkerStep
<1> QED
  BY <1>1, <1>2, PTL DEF Spec

(* The types of the rows, the queue and the worker.                        *)
THEOREM TypeCorrect == Spec => []TypeOK
  BY TypedInv, PTL DEF Typed

-----------------------------------------------------------------------------
(* Who holds a run.  Each was sent at most once, so it waits at one place  *)
(* of the queue, or is the worker's, or neither.                           *)

Waiting ==
    \A k \in 1 .. Len(queue) : queue[k] \in Runs =>
        /\ queue[k] \in sent
        /\ queue[k] # worker.task
        /\ Status(queue[k]) = "pending"
        /\ \A n \in 1 .. Len(queue) : queue[n] = queue[k] => n = k

Unsent == \A r \in Runs \ sent : Status(r) \in {"none", "pending"}

Working ==
    worker.task # None =>
        /\ worker.task \in sent
        /\ Status(worker.task) \in {"pending", "running"} \/ worker.step = Reported
        /\ worker.step = Reported => Status(worker.task) = "succeeded"
        /\ worker.step > Render => worker.task \in rendered

Held == Waiting /\ Unsent /\ Working

IInv == Held /\ SucceededIsRendered /\ RunningIsReal

(* What a task taken from the queue leaves behind.                         *)
LEMMA TakenOnce ==
    ASSUME Typed, Waiting, NEW r \in Runs, NextTaskIs(r), queue' = Tail(queue)
    PROVE  /\ r \in sent /\ Status(r) = "pending"
           /\ \A k \in 1 .. Len(queue') : queue'[k] \in Runs =>
                /\ queue'[k] \in sent /\ queue'[k] # r
                /\ Status(queue'[k]) = "pending"
                /\ \A n \in 1 .. Len(queue') : queue'[n] = queue'[k] => n = k
<1>1. /\ Len(queue) \in Nat \ {0} /\ Len(queue') = Len(queue) - 1
      /\ \A k \in 1 .. Len(queue') : queue'[k] = queue[k + 1]
      /\ queue[1] = r
  BY Popped DEF Typed, TypeOK, NextTaskIs
<1>2. \A k \in 1 .. Len(queue') : k + 1 \in 1 .. Len(queue) /\ k + 1 # 1
  BY <1>1
<1>3. 1 \in 1 .. Len(queue)
  BY <1>1
<1> QED
  BY <1>1, <1>2, <1>3 DEF Waiting

LEMMA WaitingOn ==
    ASSUME Typed, Waiting, queue # << >>, queue' = Tail(queue), UNCHANGED <<sent, runs, worker>>
    PROVE  Waiting'
<1>1. /\ Len(queue) \in Nat \ {0} /\ Len(queue') = Len(queue) - 1
      /\ \A k \in 1 .. Len(queue') : queue'[k] = queue[k + 1]
  BY Popped DEF Typed, TypeOK
<1>2. \A k \in 1 .. Len(queue') : k + 1 \in 1 .. Len(queue)
  BY <1>1
<1> QED
  BY <1>1, <1>2 DEF Waiting, Status

LEMMA Joined ==
    ASSUME Typed, Held, NEW task \in Runs \cup {Beat}, queue' = Append(queue, task),
           UNCHANGED <<runs, worker>>, sent \subseteq sent',
           task \in Runs => runs[task] # None /\ task \notin sent /\ task \in sent'
    PROVE  Waiting'
<1>1. /\ Len(queue) \in Nat /\ Len(queue') = Len(queue) + 1
      /\ \A k \in 1 .. Len(queue) : queue'[k] = queue[k]
      /\ queue'[Len(queue) + 1] = task
  BY Appended DEF Typed, TypeOK
<1>2. \A k \in 1 .. Len(queue') : k \in 1 .. Len(queue) \/ k = Len(queue) + 1
  BY <1>1
<1>3. task \in Runs => Status(task) = "pending" /\ task # worker.task
  <2> SUFFICES ASSUME task \in Runs PROVE Status(task) = "pending" /\ task # worker.task
    OBVIOUS
  <2>1. runs[task] \in RunRow /\ task # None
    BY PipelineAssumption DEF Typed, TypeOK
  <2>2. Status(task) \in Statuses
    BY <2>1 DEF Status, RunRow
  <2> QED
    BY <2>1, <2>2 DEF Held, Unsent, Working, Statuses
<1> QED
  BY <1>1, <1>2, <1>3 DEF Held, Waiting, Status

LEMMA SafetyInv == Spec => []IInv
<1>1. Init => IInv
  BY DEF Init, IInv, Held, Waiting, Unsent, Working, SucceededIsRendered, RunningIsReal, Status, Resting
<1>2. Typed /\ Typed' /\ IInv /\ [Next]_vars => IInv'
  <2> SUFFICES ASSUME Typed, Typed', IInv, [Next]_vars PROVE IInv'
    OBVIOUS
  <2> USE DEF IInv, Held
  <2>0. /\ runs \in [Runs -> RunRow \cup {None}]
        /\ worker \in WorkerRow
        /\ None \notin Runs \cup RunRow
        /\ \A row \in RunRow : row \in [status : Statuses, stage : StageNames]
        /\ Resting.task = None
    BY PipelineAssumption DEF Typed, TypeOK, RunRow, WorkerRow, Resting
  <2>1. ASSUME NEW r \in Runs, CreateRun(r) PROVE IInv'
    <3>1. r # worker.task /\ \A k \in 1 .. Len(queue) : queue[k] # r
      BY <2>0, <2>1 DEF CreateRun, Typed
    <3>2. Status(r)' = "pending" /\ \A p \in Runs \ {r} : Status(p)' = Status(p)
      <4>1. [status |-> "pending", stage |-> "pending"] \in RunRow
        BY DEF RunRow, Statuses, StageNames
      <4>2. /\ runs'[r] = [status |-> "pending", stage |-> "pending"]
            /\ \A p \in Runs \ {r} : runs'[p] = runs[p]
        BY <2>0, <2>1 DEF CreateRun
      <4> QED
        BY <2>0, <4>1, <4>2 DEF Status
    <3>3. worker' = worker /\ queue' = queue /\ sent' = sent
      BY <2>1 DEF CreateRun
    <3>4. Waiting' /\ Working'
      BY <2>0, <3>1, <3>2, <3>3, <2>1 DEF CreateRun, Waiting, Working, WorkerRow, Typed, TypeOK
    <3> QED
      BY <2>1, <3>2, <3>4 DEF CreateRun, Unsent, SucceededIsRendered, RunningIsReal
  <2>2. ASSUME NEW r \in Runs, Send(r) PROVE IInv'
    <3>1. Waiting'
      BY <2>2, Joined DEF Send
    <3> QED
      BY <2>2, <3>1 DEF Send, Unsent, Working, SucceededIsRendered, RunningIsReal, Status
  <2>3. CASE SendBeat
    <3>1. Waiting'
      BY <2>3, Joined, PipelineAssumption DEF SendBeat
    <3> QED
      BY <2>3, <3>1 DEF SendBeat, Unsent, Working, SucceededIsRendered, RunningIsReal, Status
  <2>4. CASE RequestMakesVersion \/ RequestDeletesVersion
    BY <2>4 DEF RequestMakesVersion, RequestDeletesVersion, Waiting, Unsent, Working,
                SucceededIsRendered, RunningIsReal, Status
  <2>5. CASE RunBeat
    <3>1. Waiting'
      BY <2>5, WaitingOn DEF RunBeat, NextTaskIs
    <3> QED
      BY <2>5, <3>1 DEF RunBeat, Unsent, Working, SucceededIsRendered, RunningIsReal, Status
  <2>6. ASSUME NEW r \in Runs, StartRun(r) PROVE IInv'
    <3>1. /\ worker.task = None /\ worker'.task = r /\ worker'.step = 1
          /\ UNCHANGED <<runs, sent, rendered, crashes>>
      BY <2>0, <2>6 DEF StartRun, NextTaskIs
    <3>2. Waiting'
      BY <2>6, <3>1, TakenOnce DEF StartRun, Waiting, Status
    <3>3. Working'
      BY <2>6, <3>1, TakenOnce, FiveSteps DEF StartRun, Working, Status, Render
    <3> QED
      BY <2>0, <3>1, <3>2, <3>3 DEF Unsent, SucceededIsRendered, RunningIsReal, Status
  <2>7. ASSUME NEW r \in Runs, StartRaises(r) PROVE IInv'
    <3>1. Waiting'
      BY <2>7, WaitingOn DEF StartRaises, NextTaskIs
    <3> QED
      BY <2>7, <3>1 DEF StartRaises, Unsent, Working, SucceededIsRendered, RunningIsReal, Status
  <2>8. ASSUME NEW r \in Runs, EnterStage(r) PROVE IInv'
    <3>1. /\ worker.task = r /\ worker'.task = r /\ worker'.step = worker.step
          /\ UNCHANGED <<queue, sent, rendered, crashes>>
      BY <2>0, <2>8 DEF EnterStage, WorkerRow
    <3>2. Status(r)' = "running" /\ \A p \in Runs \ {r} : Status(p)' = Status(p)
      <4>1. runs'[r] = [status |-> "running", stage |-> Steps[worker.step]] /\ runs'[r] # None
        BY <2>0, <2>8 DEF EnterStage, Typed, TypeOK
      <4>2. \A p \in Runs \ {r} : runs'[p] = runs[p]
        BY <2>0, <2>8 DEF EnterStage
      <4> QED
        BY <4>1, <4>2 DEF Status
    <3>3. Waiting'
      BY <3>1, <3>2 DEF Waiting
    <3>4. worker'.step # Reported
      BY <2>0, <2>8, <3>1, FiveSteps DEF EnterStage, WorkerRow
    <3> QED
      BY <2>0, <3>1, <3>2, <3>3, <3>4 DEF Unsent, Working, SucceededIsRendered, RunningIsReal
  <2>9. ASSUME NEW r \in Runs, WorkStage(r) PROVE IInv'
    <3>1. /\ worker.task = r /\ worker'.task = r /\ worker'.step = worker.step + 1
          /\ worker.step \in 1 .. 5
          /\ rendered \subseteq rendered' /\ (worker.step = Render => r \in rendered')
          /\ UNCHANGED <<runs, queue, sent, crashes>>
      BY <2>0, <2>9, FiveSteps DEF WorkStage, WorkerRow, Typed
    <3>2. Working'
      BY <2>0, <3>1, FiveSteps DEF Working, Status, Render
    <3> QED
      BY <3>1, <3>2 DEF Waiting, Unsent, SucceededIsRendered, RunningIsReal, Status
  <2>10. ASSUME NEW r \in Runs, FailRun(r) \/ SucceedRun(r) PROVE IInv'
    <3>1. /\ worker.task = r /\ r # None
          /\ UNCHANGED <<queue, sent, rendered, crashes>>
          /\ FailRun(r) => worker'.task = None
          /\ SucceedRun(r) => worker'.task = r /\ worker'.step = Reported
      BY <2>0, <2>10 DEF FailRun, SucceedRun, WorkerRow
    <3>2. /\ \A p \in Runs \ {r} : Status(p)' = Status(p)
          /\ Status(r)' = IF FailRun(r) THEN "failed" ELSE "succeeded"
          /\ SucceedRun(r) => r \in rendered
      <4>1. runs[r] \in RunRow
        BY <2>0, <3>1 DEF Typed
      <4>2. CASE FailRun(r)
        <5>1. runs' = [runs EXCEPT ![r] = [runs[r] EXCEPT !.status = "failed"]]
          BY <4>2 DEF FailRun
        <5>2. runs'[r].status = "failed" /\ runs'[r] # None
          BY <2>0, <4>1, <5>1 DEF RunRow, Statuses
        <5>3. ~ SucceedRun(r)
          BY <3>1, <4>2 DEF SucceedRun
        <5> QED
          BY <2>0, <4>2, <5>1, <5>2, <5>3 DEF Status
      <4>3. CASE SucceedRun(r)
        <5>1. runs'[r].status = "succeeded" /\ \A p \in Runs \ {r} : runs'[p] = runs[p]
          BY <2>0, <4>3 DEF SucceedRun
        <5>2. runs'[r] # None
          BY <2>0, <4>3 DEF SucceedRun, RunRow, Statuses, StageNames
        <5>3. r \in rendered
          BY <3>1, <4>3, FiveSteps DEF SucceedRun, Working, Render
        <5>4. ~ FailRun(r)
          BY <3>1, <4>3 DEF FailRun
        <5> QED
          BY <4>3, <5>1, <5>2, <5>3, <5>4 DEF Status
      <4> QED
        BY <2>10, <4>2, <4>3
    <3>3. \A k \in 1 .. Len(queue) : queue[k] \in Runs => queue[k] # r /\ queue[k] # None
      BY <2>0, <3>1 DEF Waiting
    <3>4. Waiting'
      BY <2>10, <3>1, <3>2, <3>3 DEF Waiting
    <3>5. Working'
      BY <2>10, <3>1, <3>2 DEF Working
    <3>6. SucceededIsRendered' /\ RunningIsReal'
      BY <2>10, <3>1, <3>2 DEF SucceededIsRendered, RunningIsReal
    <3> QED
      BY <3>1, <3>2, <3>4, <3>5, <3>6 DEF Unsent, Working
  <2>13. ASSUME NEW r \in Runs, FinishRun(r) PROVE IInv'
    <3>1. /\ worker.task = r /\ worker'.task = None /\ Status(r) = "succeeded"
          /\ UNCHANGED <<runs, queue, sent, rendered, crashes>>
      BY <2>0, <2>13 DEF FinishRun, Working
    <3> QED
      BY <2>0, <3>1 DEF Waiting, Unsent, Working, SucceededIsRendered, RunningIsReal, Status
  <2>11. CASE Crash
    <3>1. crashes' # 0 /\ worker'.task = None /\ UNCHANGED <<runs, queue, sent, rendered>>
      BY <2>0, <2>11 DEF Crash, Typed, TypeOK
    <3> QED
      BY <2>0, <3>1 DEF Waiting, Unsent, Working, SucceededIsRendered, RunningIsReal, Status
  <2>12. CASE UNCHANGED vars
    BY <2>12 DEF vars, Waiting, Unsent, Working, SucceededIsRendered, RunningIsReal, Status
  <2> QED
    BY <2>1, <2>2, <2>3, <2>4, <2>5, <2>6, <2>7, <2>8, <2>9, <2>10, <2>11, <2>12, <2>13
       DEF Next, WorkerStep
<1> QED
  BY <1>1, <1>2, TypedInv, PTL DEF Spec

(* A run is reported succeeded only when its PDF is there.                 *)
THEOREM SuccessMeansRendered == Spec => []SucceededIsRendered
  BY SafetyInv, PTL DEF IInv

(* While the worker lives, a run that says it is running is being worked   *)
(* on.                                                                     *)
THEOREM RunningMeansWorked == Spec => []RunningIsReal
  BY SafetyInv, PTL DEF IInv

(* No task for a settled run waits, and none is worked on but the one that *)
(* reported it: only that one, by failing, changes a settled run, and only *)
(* from succeeded to failed.                                               *)
THEOREM OutcomesAreTheTasks == Spec => TakenBackByItsTask
<1>1. Typed /\ IInv /\ [Next]_vars =>
        [\A r \in Runs : Status(r) \in Settled /\ runs'[r] # runs[r] =>
            /\ Status(r) = "succeeded" /\ worker.task = r
            /\ runs'[r] = [runs[r] EXCEPT !.status = "failed"]]_runs
  <2> SUFFICES ASSUME Typed, IInv, [Next]_vars, NEW r \in Runs, Status(r) \in Settled, runs'[r] # runs[r]
               PROVE  /\ Status(r) = "succeeded" /\ worker.task = r
                      /\ runs'[r] = [runs[r] EXCEPT !.status = "failed"]
    OBVIOUS
  <2>1. /\ runs \in [Runs -> RunRow \cup {None}] /\ worker \in WorkerRow
        /\ runs[r] # None /\ Status(r) \notin {"none", "pending", "running"}
    BY DEF Typed, TypeOK, WorkerRow, Status, Settled
  <2>2. \E p \in Runs : CreateRun(p) \/ EnterStage(p) \/ FailRun(p) \/ SucceedRun(p)
    BY DEF Next, WorkerStep, vars, Send, SendBeat, RequestMakesVersion, RequestDeletesVersion,
           RunBeat, StartRun, StartRaises, WorkStage, FinishRun, Crash
  <2>3. PICK p \in Runs : CreateRun(p) \/ EnterStage(p) \/ FailRun(p) \/ SucceedRun(p)
    BY <2>2
  <2>4. p = r /\ ~ CreateRun(p)
    BY <2>1, <2>3 DEF CreateRun, EnterStage, FailRun, SucceedRun
  <2>5. worker.task = r /\ r # None
    BY <2>3, <2>4, PipelineAssumption DEF EnterStage, FailRun, SucceedRun
  <2>6. worker.step = Reported /\ Status(r) = "succeeded"
    BY <2>1, <2>5 DEF IInv, Held, Working
  <2>7. ~ EnterStage(p) /\ ~ SucceedRun(p)
    BY <2>4, <2>6, FiveSteps DEF EnterStage, SucceedRun
  <2> QED
    BY <2>1, <2>3, <2>4, <2>5, <2>6, <2>7 DEF FailRun
<1> QED
  BY <1>1, TypedInv, SafetyInv, PTL DEF Spec, TakenBackByItsTask
===============================================================================
