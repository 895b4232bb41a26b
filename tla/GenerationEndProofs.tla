----------------------- MODULE GenerationEndProofs -----------------------
(***************************************************************************)
(* How a generation job ends: completed only with outputs, a batch child   *)
(* without a forgotten reservation, and, where ComfyUI answers and the     *)
(* owner stays, with nothing left running.                                 *)
(***************************************************************************)
EXTENDS GenerationJobProofs

\* What a step of worker p may do, as far as these proofs look: everything is typed,
\* only p's call stack changes.
LEMMA OnlyOneMoves ==
  ASSUME HandoffInv, NEW p \in Workers, NEW w, Become(p, w)
  PROVE  /\ worker'[p] = w
         /\ \A q \in Workers : q # p => worker'[q] = worker[q]
         /\ worker[p] \in WorkerSet /\ row \in Row
BY DEF HandoffInv, TypeOK, Become

\* The values call stacks start with.
Take(mode, r) == [Idle EXCEPT !.mode = mode, !.job = View(r)]
Taken(r) == [Idle EXCEPT !.pc = "check", !.mode = "dispatch", !.job = View(r)]
Swept == [Idle EXCEPT !.mode = "sweep"]

LEMMA TakeType ==
  ASSUME NEW mode \in {"sweep", "view", "undo", "cancel"}, NEW r \in Row
  PROVE  /\ Take(mode, r) \in WorkerSet /\ Take(mode, r).pc = "idle"
         /\ Take(mode, r).mode = mode /\ Take(mode, r).job = View(r)
         /\ Take(mode, r).seen = "none" /\ Take(mode, r).old = 0
<1>1. Idle \in WorkerSet /\ Idle.pc = "idle" /\ Idle.seen = "none" /\ Idle.old = 0
  BY IdleType DEF Calm, Idle
<1>2. ASSUME NEW i \in WorkerSet, NEW v \in ViewSet
      PROVE  LET w == [i EXCEPT !.mode = mode, !.job = v] IN
             /\ w \in WorkerSet /\ w.pc = i.pc /\ w.mode = mode /\ w.job = v
             /\ w.seen = i.seen /\ w.old = i.old
  BY DEF WorkerSet
<1>3. View(r) \in ViewSet
  BY ViewType
<1> QED
  BY <1>1, <1>2, <1>3 DEF Take

LEMMA TakenType ==
  ASSUME NEW r \in Row
  PROVE  /\ Taken(r) \in WorkerSet /\ Taken(r).pc = "check"
         /\ Taken(r).mode = "dispatch" /\ Taken(r).job = View(r)
         /\ Taken(r).seen = "none" /\ Taken(r).old = 0
<1>1. Idle \in WorkerSet /\ Idle.seen = "none" /\ Idle.old = 0
  BY IdleType DEF Calm, Idle
<1>2. "check" \in PCs /\ "dispatch" \in Modes
  BY DEF PCs, Modes
<1>3. View(r) \in ViewSet
  BY ViewType
<1>4. Taken(r) = Charged(Idle, "check", "dispatch", View(r))
  BY DEF Taken, Charged
<1> QED
  BY <1>1, <1>2, <1>3, <1>4, JobTurn

LEMMA SweptType == Swept \in WorkerSet /\ Swept.mode = "sweep" /\ Swept.seen = "none"
<1>1. Idle \in WorkerSet /\ Idle.seen = "none"
  BY IdleType DEF Calm, Idle
<1>2. ASSUME NEW i \in WorkerSet
      PROVE  /\ [i EXCEPT !.mode = "sweep"] \in WorkerSet
             /\ [i EXCEPT !.mode = "sweep"].mode = "sweep"
             /\ [i EXCEPT !.mode = "sweep"].seen = i.seen
  BY DEF WorkerSet
<1> QED
  BY <1>1, <1>2 DEF Swept

-----------------------------------------------------------------------------
(* Completed jobs have outputs. *)

\* The worker says, or is on its way to record, that ComfyUI produced the outputs.
Promises(w) ==
  \/ w.seen = "success" \/ w.goal \in {"archiving", "completed"} \/ w.pc = "archive"

\* Nobody says so in vain.
CompletedInv ==
  /\ \A p \in Workers : Promises(worker[p]) => comfy \in Produced
  /\ CompletedAfterSuccess

LEMMA IdlePromise == ~Promises(Idle)
BY DEF Promises, Idle

LEMMA GotoPromise ==
  ASSUME NEW w \in WorkerSet, NEW pc, pc # "archive", Promises(Goto(w, pc))
  PROVE  Promises(w)
BY DEF Promises, Goto, WorkerSet

LEMMA ReleasePromise ==
  ASSUME NEW w \in WorkerSet, NEW goal, goal \notin {"archiving", "completed"},
         Promises(Release(w, goal))
  PROVE  Promises(w)
BY DEF Promises, Release, WorkerSet

LEMMA FailPromise ==
  ASSUME NEW w \in WorkerSet, Promises(Fail(w)) PROVE Promises(w)
BY ReleasePromise DEF Fail

LEMMA HoldingPromise ==
  ASSUME NEW w \in WorkerSet, NEW r
  PROVE  Promises(Holding(w, r)) <=> Promises(w)
<1>1. ASSUME NEW v, NEW o
      PROVE  Promises([w EXCEPT !.job = v, !.old = o]) <=> Promises(w)
  BY DEF Promises, WorkerSet
<1> QED
  BY <1>1 DEF Holding

LEMMA CancelPromise ==
  ASSUME NEW w \in WorkerSet, Promises(Cancel(w)) PROVE Promises(w)
<1>1. Promises([w EXCEPT !.pc = "confirm", !.seen = "none"]) => Promises(w)
  BY DEF Promises, WorkerSet
<1> QED
  BY <1>1, GotoPromise, IdlePromise DEF Cancel

LEMMA ArrivedPromise ==
  ASSUME NEW w \in WorkerSet, Promises(Arrived(w)) PROVE Promises(w)
<1> DEFINE v == [w EXCEPT !.mode = IF @ = "sweep" THEN "cancel" ELSE @]
<1>1. v \in WorkerSet /\ (Promises(v) => Promises(w))
  BY DEF Promises, WorkerSet
<1>2. w.goal = "archiving" => Promises(w)
  BY DEF Promises
<1>3. Promises(Cancel(v)) => Promises(w)
  BY <1>1, CancelPromise
<1> HIDE DEF v
<1>4. CASE w.pc = "requeue" /\ (w.mode \in {"cancel", "undo"} \/ (w.mode = "sweep" /\ w.job.cancelReq))
  BY <1>3, <1>4 DEF Arrived, v
<1>5. CASE w.pc = "requeue" /\ ~(w.mode \in {"cancel", "undo"} \/ (w.mode = "sweep" /\ w.job.cancelReq))
  BY <1>5, GotoPromise DEF Arrived
<1>6. CASE w.pc # "requeue"
  BY <1>2, <1>6, IdlePromise DEF Arrived
<1> QED
  BY <1>4, <1>5, <1>6

LEMMA AdvancePromise ==
  ASSUME NEW w \in WorkerSet, NEW pc \in {"advance", "requeue"},
         NEW target \in States \cup {"none"},
         target \in {"archiving", "completed"} => Promises(w),
         Promises(Advance(w, pc, target))
  PROVE  Promises(w)
<1> DEFINE v == [w EXCEPT !.pc = pc, !.goal = target]
<1>1. v \in WorkerSet /\ (Promises(v) => Promises(w))
  <2>1. pc \in PCs /\ pc # "archive"
    BY DEF PCs
  <2>a. v = Aimed(w, pc, target)
    BY DEF Aimed
  <2> HIDE DEF v
  <2>2. v \in WorkerSet /\ v.pc = pc /\ v.goal = target /\ v.seen = w.seen
    BY <2>1, <2>a, GoalTurn
  <2> QED
    BY <2>1, <2>2 DEF Promises
<1>2. Promises(Arrived(v)) => Promises(w)
  BY <1>1, ArrivedPromise
<1> HIDE DEF v
<1> QED
  BY <1>1, <1>2, IdlePromise DEF Advance, v

LEMMA ReconcilePromise ==
  ASSUME NEW w \in WorkerSet, Promises(Reconcile(w)) PROVE Promises(w)
<1>1. "queued" \in States /\ "running" \in States /\ "archiving" \in States
  BY DEF States, Cancellable
<1>2. w.seen = "success" => Promises(w)
  BY DEF Promises
<1>3. /\ Promises(Advance(w, "advance", "queued")) => Promises(w)
      /\ Promises(Advance(w, "advance", "running")) => Promises(w)
      /\ w.seen = "success" /\ Promises(Advance(w, "advance", "archiving")) => Promises(w)
  BY <1>1, <1>2, AdvancePromise
<1>4. (Promises(Fail(w)) => Promises(w)) /\ (Promises(Release(w, "cancelled")) => Promises(w))
  BY FailPromise, ReleasePromise
<1>5. w.seen \in {"none", "unknown", "pending", "running", "success", "error"}
  BY DEF WorkerSet
<1> QED
  BY <1>2, <1>3, <1>4, <1>5, IdlePromise DEF Reconcile

LEMMA JudgePromise ==
  ASSUME NEW w \in WorkerSet, Promises(Judge(w)) PROVE Promises(w)
<1>1. /\ Promises(Goto(w, "clear")) => Promises(w)
      /\ Promises(Goto(w, "confirm")) => Promises(w)
      /\ Promises(Release(w, "expired")) => Promises(w)
      /\ Promises(Reconcile(w)) => Promises(w)
  BY GotoPromise, ReleasePromise, ReconcilePromise
<1> QED
  BY <1>1, IdlePromise DEF Judge

LEMMA UnsentPromise ==
  ASSUME NEW w \in WorkerSet, Promises(Unsent(w)) PROVE Promises(w)
BY GotoPromise, IdlePromise DEF Unsent

LEMMA InspectPromise ==
  ASSUME NEW w \in WorkerSet, NEW queued, NEW batch, Promises(Inspect(w, queued, batch))
  PROVE  Promises(w)
<1>1. [w EXCEPT !.mode = "cancel"] \in WorkerSet
      /\ (Promises([w EXCEPT !.mode = "cancel"]) => Promises(w))
  BY DEF Promises, WorkerSet
<1>2. /\ Promises(Cancel([w EXCEPT !.mode = "cancel"])) => Promises(w)
      /\ Promises(Goto(w, "history")) => Promises(w)
      /\ Promises(Goto(w, "findInQueue")) => Promises(w)
      /\ Promises(Fail(w)) => Promises(w)
  BY <1>1, CancelPromise, GotoPromise, FailPromise
<1> QED
  BY <1>2, IdlePromise DEF Inspect

\* What the statements of the store do to the state.
LEMMA StoreState ==
  ASSUME NEW r \in Row
  PROVE  /\ Prepared(r).state = r.state /\ Reserved(r).state = r.state
         /\ Queued(r).state = r.state /\ Postponed(r).state = r.state
         /\ Begun(r).state = r.state /\ Rejected(r).state = r.state
         /\ Bound(r).state = r.state /\ Committed(r).state = r.state
         /\ Fenced(r).state = r.state /\ Refunded(r).state = r.state
         /\ Released(r).state = r.state /\ CancelRequested(r).state = r.state
         /\ BatchCancelled(r).state = r.state /\ CancelCleared(r).state = r.state
         /\ CancelConfirmed(r).state = r.state
         /\ \A token : Claimed(r, token).state \in {r.state, "preparing"}
         /\ \A s : AfterTransition(r, s).state \in {r.state, s}
<1>1. /\ Prepared(r).state = r.state /\ Reserved(r).state = r.state
      /\ Queued(r).state = r.state /\ Postponed(r).state = r.state
      /\ Begun(r).state = r.state /\ Rejected(r).state = r.state
  BY DEF Row, Prepared, Reserved, Queued, Postponed, Begun, Rejected
<1>2. /\ Bound(r).state = r.state /\ Committed(r).state = r.state
      /\ Fenced(r).state = r.state /\ Refunded(r).state = r.state
      /\ Released(r).state = r.state
  BY DEF Row, Bound, Committed, Fenced, Refunded, Released
<1>3. /\ CancelRequested(r).state = r.state /\ BatchCancelled(r).state = r.state
  BY DEF Row, CancelRequested, BatchCancelled
<1>4. CancelCleared(r).state = r.state
  BY DEF Row, CancelCleared
<1>5. CancelConfirmed(r).state = r.state
  BY DEF Row, CancelConfirmed
<1>6. ASSUME NEW token PROVE Claimed(r, token).state \in {r.state, "preparing"}
  BY DEF Row, Claimed
<1>7. ASSUME NEW s PROVE AfterTransition(r, s).state \in {r.state, s}
  BY DEF Row, AfterTransition, Entered
<1> QED
  BY <1>1, <1>2, <1>3, <1>4, <1>5, <1>6, <1>7

\* The worker p promises nothing new, and the job is not completed by the step.
Modest(p) ==
  /\ \E w : Become(p, w) /\ (Promises(w) => Promises(worker[p]) \/ comfy \in Produced)
  /\ row'.state = "completed" => row.state = "completed" \/ comfy \in Produced
  /\ comfy \in Produced => comfy' \in Produced

LEMMA ModestKeeps ==
  ASSUME HandoffInv, CompletedInv, NEW p \in Workers, Modest(p)
  PROVE  CompletedInv'
<1>1. PICK w : Become(p, w) /\ (Promises(w) => Promises(worker[p]) \/ comfy \in Produced)
  BY DEF Modest
<1>2. ASSUME NEW q \in Workers, Promises(worker'[q]) PROVE comfy' \in Produced
  <2>1. worker'[q] = IF q = p THEN w ELSE worker[q]
    BY <1>1, OnlyOneMoves
  <2>2. comfy \in Produced
    BY <1>1, <1>2, <2>1 DEF CompletedInv
  <2> QED
    BY <2>2 DEF Modest
<1>3. CompletedAfterSuccess'
  BY DEF Modest, CompletedInv, CompletedAfterSuccess
<1> QED
  BY <1>2, <1>3 DEF CompletedInv

LEMMA ModestMove ==
  ASSUME HandoffInv, NEW p \in Workers, NEW s, NEW ok \in WorkerSet, NEW ko,
         Move(p, s, ok, ko), comfy' = comfy,
         s = "completed" => comfy \in Produced,
         Promises(ok) => Promises(worker[p]), Promises(ko) => Promises(worker[p])
  PROVE  Modest(p)
<1>1. row \in Row
  BY DEF HandoffInv, TypeOK
<1>2. row'.state \in {row.state, s}
  BY <1>1, StoreState DEF Move
<1>3. \E w : Become(p, w) /\ (Promises(w) => Promises(worker[p]))
  BY HoldingPromise DEF Move
<1> QED
  BY <1>2, <1>3 DEF Modest

LEMMA PreparationModest ==
  ASSUME HandoffInv, NEW p \in Workers,
         Launch(p) \/ Check(p) \/ Prepare(p) \/ Wait(p) \/ Reserve(p) \/ Publish(p)
  PROVE  Modest(p)
<1>h. worker[p] \in WorkerSet /\ row \in Row
  BY DEF HandoffInv, TypeOK
<1>s. /\ Prepared(row).state = row.state /\ Reserved(row).state = row.state
      /\ Queued(row).state = row.state
  BY <1>h, StoreState
<1>g. ASSUME NEW pc \in {"check", "prepare", "reread", "wait", "reserve", "publish"}
      PROVE  /\ Goto(worker[p], pc) \in WorkerSet
             /\ Promises(Goto(worker[p], pc)) => Promises(worker[p])
  <2>1. pc \in PCs
    BY DEF PCs
  <2> QED
    BY <1>h, <2>1, GotoType, GotoPromise
<1>f. Promises(Fail(worker[p])) => Promises(worker[p])
  BY <1>h, FailPromise
<1>1. CASE Launch(p)
  BY <1>1, <1>g, IdlePromise, ModestMove DEF Launch, world
<1>2. CASE Check(p)
  <2>1. CASE Move(p, "uploading", Goto(worker[p], "prepare"), Idle)
    BY <1>2, <2>1, <1>g, IdlePromise, ModestMove DEF Check, world
  <2>2. CASE row' = row /\ \E w : Become(p, w) /\ (Promises(w) => Promises(worker[p]))
    BY <1>2, <2>2 DEF Check, world, Modest
  <2> QED
    BY <1>2, <1>f, <1>g, <2>1, <2>2 DEF Check
<1>3. CASE Prepare(p)
  <2>1. Promises(Holding(Goto(worker[p], "wait"), row')) => Promises(worker[p])
    BY <1>g, HoldingPromise
  <2> QED
    BY <1>3, <1>s, <2>1, IdlePromise DEF Prepare, world, Modest
<1>4. CASE Wait(p)
  <2>1. PICK pc \in {"reserve", "reread"} :
          Move(p, "waiting_for_resources", Goto(worker[p], pc), Idle)
    BY <1>4 DEF Wait
  <2> QED
    BY <1>4, <2>1, <1>g, IdlePromise, ModestMove DEF Wait, world
<1>5. CASE Reserve(p)
  BY <1>5, <1>s, <1>f, <1>g DEF Reserve, world, Modest
<1>6. CASE Publish(p)
  BY <1>6, <1>s, IdlePromise DEF Publish, world, Modest
<1> QED
  BY <1>1, <1>2, <1>3, <1>4, <1>5, <1>6

LEMMA DispatchModest ==
  ASSUME HandoffInv, NEW p \in Workers,
         Reread(p) \/ Admit(p) \/ Postpone(p) \/ Pause(p) \/ Begin(p) \/ Post(p)
         \/ Reply(p) \/ Reject(p) \/ Bind(p) \/ Charge(p) \/ Enqueued(p)
  PROVE  Modest(p)
<1>h. worker[p] \in WorkerSet /\ row \in Row /\ SendsOK /\ PositionOK(p)
  BY DEF HandoffInv, TypeOK
<1>s. /\ Postponed(row).state = row.state /\ Begun(row).state = row.state
      /\ Rejected(row).state = row.state /\ Bound(row).state = row.state
      /\ Committed(row).state = row.state
  BY <1>h, StoreState
<1>g. ASSUME NEW pc \in {"pause", "postpone", "begin", "post", "reply", "bind", "reject",
                         "charge", "recharge", "enqueued", "admit"}, NEW w \in WorkerSet
      PROVE  Goto(w, pc) \in WorkerSet /\ (Promises(Goto(w, pc)) => Promises(w))
  <2>1. pc \in PCs
    BY DEF PCs
  <2> QED
    BY <2>1, GotoType, GotoPromise
<1>f. Promises(Fail(worker[p])) => Promises(worker[p])
  BY <1>h, FailPromise
<1>1. CASE Reread(p)
  <2> DEFINE w == Holding(worker[p], row)
  <2>1. w \in WorkerSet /\ (Promises(w) => Promises(worker[p]))
    BY <1>h, HoldingType, HoldingPromise
  <2>2. [w EXCEPT !.mode = "cancel"] \in WorkerSet
        /\ (Promises([w EXCEPT !.mode = "cancel"]) => Promises(w))
    BY <2>1 DEF Promises, WorkerSet
  <2>3. /\ Promises(Cancel([w EXCEPT !.mode = "cancel"])) => Promises(worker[p])
        /\ Promises(Goto(w, "admit")) => Promises(worker[p])
    BY <1>g, <2>1, <2>2, CancelPromise
  <2> QED
    BY <1>1, <2>3, IdlePromise DEF Reread, world, Modest
<1>2. CASE Admit(p) \/ Pause(p)
  BY <1>2, <1>h, <1>f, <1>g DEF Admit, Pause, world, Modest
<1>3. CASE Postpone(p)
  BY <1>3, <1>s, IdlePromise DEF Postpone, world, Modest
<1>4. CASE Begin(p)
  BY <1>4, <1>h, <1>s, <1>f, <1>g DEF Begin, world, Modest
<1>5. CASE Post(p)
  <2>1. comfy = "absent"
    BY <1>5, <1>h DEF Post, PositionOK
  <2> QED
    BY <1>5, <2>1, <1>h, <1>g DEF Post, Modest, Produced
<1>6. CASE Reply(p)
  BY <1>6, <1>h, <1>f, <1>g DEF Reply, world, Modest
<1>7. CASE Reject(p)
  BY <1>7, <1>h, <1>s, <1>f, <1>g, IdlePromise DEF Reject, world, Modest
<1>8. CASE Bind(p)
  <2>1. PICK pc \in {"charge", "recharge"} : Become(p, Holding(Goto(worker[p], pc), row'))
    BY <1>8 DEF Bind
  <2>2. Promises(Holding(Goto(worker[p], pc), row')) => Promises(worker[p])
    BY <1>g, <1>h, HoldingPromise
  <2> QED
    BY <1>8, <1>s, <2>1, <2>2 DEF Bind, world, Modest
<1>9. CASE Charge(p)
  <2>1. "queued" \in States
    BY DEF States, Cancellable
  <2>2. Promises(Advance(worker[p], "requeue", "queued")) => Promises(worker[p])
    BY <1>h, <2>1, AdvancePromise
  <2> QED
    BY <1>9, <1>h, <1>s, <1>g, <2>2, IdlePromise DEF Charge, world, Modest
<1>10. CASE Enqueued(p)
  BY <1>10, IdleType, IdlePromise, ModestMove DEF Enqueued, world, Calm
<1> QED
  BY <1>1, <1>2, <1>3, <1>4, <1>5, <1>6, <1>7, <1>8, <1>9, <1>10

LEMMA ReleaseModest ==
  ASSUME HandoffInv, CompletedInv, NEW p \in Workers,
         Fence(p) \/ Refund(p) \/ Resume(p) \/ Mark(p) \/ Finish(p)
  PROVE  Modest(p)
<1>h. worker[p] \in WorkerSet /\ row \in Row
  BY DEF HandoffInv, TypeOK
<1>s. /\ Fenced(row).state = row.state /\ Refunded(row).state = row.state
      /\ Released(row).state = row.state
  BY <1>h, StoreState
<1>g. ASSUME NEW pc \in {"refund", "resume", "mark", "finish"}
      PROVE  /\ Goto(worker[p], pc) \in WorkerSet
             /\ Promises(Goto(worker[p], pc)) => Promises(worker[p])
  <2>1. pc \in PCs
    BY DEF PCs
  <2> QED
    BY <1>h, <2>1, GotoType, GotoPromise
<1>1. CASE Fence(p) \/ Refund(p)
  BY <1>1, <1>s, <1>g, IdlePromise DEF Fence, Refund, world, Modest
<1>2. CASE Resume(p)
  BY <1>2, <1>g, IdlePromise DEF Resume, Modest
<1>3. CASE Mark(p)
  <2>1. Promises(Holding(Goto(worker[p], "finish"), row')) => Promises(worker[p])
    BY <1>g, HoldingPromise
  <2> QED
    BY <1>3, <1>s, <2>1, IdlePromise DEF Mark, world, Modest
<1>4. CASE Finish(p)
  <2>1. worker[p].goal = "completed" => comfy \in Produced
    BY DEF CompletedInv, Promises
  <2>2. CASE Move(p, worker[p].goal, Idle, Idle)
    BY <1>4, <2>1, <2>2, IdleType, IdlePromise, ModestMove DEF Finish, world, Calm
  <2> QED
    BY <1>4, <2>2, IdlePromise DEF Finish, world, Modest
<1> QED
  BY <1>1, <1>2, <1>3, <1>4

LEMMA SearchModest ==
  ASSUME HandoffInv, CompletedInv, NEW p \in Workers,
         FindInQueue(p) \/ FindInHistory(p) \/ ReadHistory(p) \/ ReadQueue(p)
         \/ Control(p) \/ SendControl(p) \/ Archive(p)
  PROVE  Modest(p)
<1>h. worker[p] \in WorkerSet
  BY DEF HandoffInv, TypeOK
<1>g. ASSUME NEW pc, pc # "archive"
      PROVE  Promises(Goto(worker[p], pc)) => Promises(worker[p])
  BY <1>h, <1>g, GotoPromise
<1>u. Promises(Unsent(worker[p])) => Promises(worker[p])
  BY <1>h, UnsentPromise
<1>e. Promises(Release(worker[p], "expired")) => Promises(worker[p])
  BY <1>h, ReleasePromise
<1>j. ASSUME NEW seen \in {"pending", "running", "success", "error", "unknown"}
      PROVE  Promises(Judge([worker[p] EXCEPT !.seen = seen]))
               => Promises(worker[p]) \/ seen = "success"
  <2>1. [worker[p] EXCEPT !.seen = seen] \in WorkerSet
        /\ (Promises([worker[p] EXCEPT !.seen = seen])
              => Promises(worker[p]) \/ seen = "success")
    BY <1>h DEF Promises, WorkerSet
  <2> QED
    BY <2>1, JudgePromise
<1>1. CASE FindInQueue(p) \/ FindInHistory(p)
  BY <1>1, <1>g, <1>e, IdlePromise DEF FindInQueue, FindInHistory, world, Modest
<1>2. CASE ReadHistory(p)
  BY <1>2, <1>g, <1>u, <1>j, IdlePromise DEF ReadHistory, world, Modest, Produced
<1>3. CASE ReadQueue(p)
  BY <1>3, <1>j DEF ReadQueue, world, Modest
<1>4. CASE Control(p)
  <2>1. PICK pc \in {"delete", "interrupt", "history"} :
             Become(p, Goto(worker[p], pc)) \/ Become(p, Unsent(worker[p]))
    BY <1>4 DEF Control
  <2> QED
    BY <1>4, <1>g, <1>u, <2>1 DEF Control, world, Modest
<1>5. CASE SendControl(p)
  <2>1. Promises([worker[p] EXCEPT !.pc = "history", !.sent = TRUE]) => Promises(worker[p])
    BY <1>h DEF Promises, WorkerSet
  <2>2. comfy \in Produced => comfy' = comfy
    BY <1>5 DEF SendControl, Produced
  <2> QED
    BY <1>5, <1>u, <2>1, <2>2 DEF SendControl, Modest
<1>6. CASE Archive(p)
  <2>1. comfy \in Produced
    BY <1>6 DEF Archive, At, CompletedInv, Promises
  <2> QED
    BY <1>6, <2>1, IdlePromise DEF Archive, world, Modest
<1> QED
  BY <1>1, <1>2, <1>3, <1>4, <1>5, <1>6

LEMMA CancellationModest ==
  ASSUME HandoffInv, NEW p \in Workers,
         ConfirmCancel(p) \/ ClearCancel(p) \/ AdvanceStep(p) \/ Crash(p)
  PROVE  Modest(p)
<1>h. worker[p] \in WorkerSet /\ row \in Row /\ GoodRow(row)
  BY HereType DEF HandoffInv, TypeOK
<1>s. CancelCleared(row).state = row.state /\ CancelConfirmed(row).state = row.state
  BY <1>h, StoreState
<1>r. ASSUME NEW r \in Row
      PROVE  /\ Holding(worker[p], r) \in WorkerSet
             /\ Promises(Holding(worker[p], r)) => Promises(worker[p])
             /\ Promises(Reconcile(Holding(worker[p], r))) => Promises(worker[p])
  <2>1. Holding(worker[p], r) \in WorkerSet
        /\ (Promises(Holding(worker[p], r)) => Promises(worker[p]))
    BY <1>h, HoldingType, HoldingPromise
  <2> QED
    BY <2>1, ReconcilePromise
<1>1. CASE ConfirmCancel(p) \/ ClearCancel(p)
  <2>1. row' \in Row
    BY <1>1, <1>h, CancelKeeps DEF ConfirmCancel, ClearCancel, Keeps
  <2> QED
    BY <1>1, <1>s, <1>r, <2>1, IdlePromise DEF ConfirmCancel, ClearCancel, world, Modest
<1>2. CASE AdvanceStep(p)
  <2> DEFINE w == Holding(worker[p], row')
  <2>1. row' \in Row
    BY <1>2, <1>h, TransitionKeeps DEF AdvanceStep, Keeps
  <2>2. w \in WorkerSet /\ (Promises(w) => Promises(worker[p]))
    BY <1>r, <2>1
  <2>3. /\ worker[p].pc \in {"advance", "requeue"}
        /\ worker[p].goal \in States \cup {"none"}
        /\ worker[p].goal \in {"archiving", "completed"} => Promises(w)
    BY <1>2, <1>h, HoldingPromise DEF AdvanceStep, At, WorkerSet, Promises
  <2>4. Promises(Advance(w, worker[p].pc, worker[p].goal)) => Promises(worker[p])
    BY <2>2, <2>3, AdvancePromise
  <2>5. Toward(worker[p].job.state, worker[p].goal) # "completed"
    BY DEF Toward
  <2>6. row'.state \in {row.state, Toward(worker[p].job.state, worker[p].goal)}
    BY <1>2, <1>h, StoreState DEF AdvanceStep
  <2>7. Become(p, Advance(w, worker[p].pc, worker[p].goal)) \/ Become(p, Idle)
    BY <1>2 DEF AdvanceStep
  <2> HIDE DEF w
  <2> QED
    BY <1>2, <2>4, <2>5, <2>6, <2>7, IdlePromise DEF AdvanceStep, world, Modest
<1>3. CASE Crash(p)
  BY <1>3, IdlePromise DEF Crash, Modest
<1> QED
  BY <1>1, <1>2, <1>3

LEMMA StartModest ==
  ASSUME HandoffInv, NEW p \in Workers, Start(p)
  PROVE  Modest(p)
<1>h. row \in Row /\ GoodRow(row) /\ worker \in [Workers -> WorkerSet]
  BY HereType DEF HandoffInv, TypeOK
<1>t. ASSUME NEW r \in Row, NEW mode \in {"sweep", "view", "undo", "cancel"}
      PROVE  Take(mode, r) \in WorkerSet /\ ~Promises(Take(mode, r))
             /\ ~Promises(Cancel(Take(mode, r)))
  <2>1. ~Promises(Take(mode, r))
    <3>1. ASSUME NEW i \in WorkerSet, ~Promises(i), NEW v \in ViewSet
          PROVE  ~Promises([i EXCEPT !.mode = mode, !.job = v])
      BY <3>1 DEF Promises, WorkerSet
    <3>2. Idle \in WorkerSet /\ View(r) \in ViewSet
      BY IdleType, ViewType DEF Calm
    <3> QED
      BY <3>1, <3>2, IdlePromise DEF Take
  <2> QED
    BY <2>1, TakeType, CancelPromise
<1>1. CASE Claim(p)
  <2>1. PICK token \in 1..TokenBound : row' = Claimed(row, token)
    BY <1>1 DEF Claim
  <2>2. TokenBound \in Nat
    BY WorkersAssumption, FS_CardinalityType DEF TokenBound
  <2>3. row' \in Row /\ row'.state \in {row.state, "preparing"}
    BY <1>h, <2>1, <2>2, ClaimKeeps, StoreState DEF Keeps
  <2>4. ~Promises(Taken(row'))
    <3>1. ASSUME NEW i \in WorkerSet, ~Promises(i), NEW v \in ViewSet
          PROVE  ~Promises([i EXCEPT !.pc = "check", !.mode = "dispatch", !.job = v])
      BY <3>1 DEF Promises, WorkerSet
    <3>2. Idle \in WorkerSet /\ View(row') \in ViewSet
      BY <2>3, IdleType, ViewType DEF Calm
    <3> QED
      BY <3>1, <3>2, IdlePromise DEF Taken
  <2>5. ~Promises(Fail(Taken(row')))
    BY <2>3, <2>4, TakenType, FailPromise
  <2>6. Become(p, Taken(row')) \/ Become(p, Fail(Taken(row')))
    BY <1>1 DEF Claim, Taken
  <2> QED
    BY <1>1, <2>3, <2>4, <2>5, <2>6 DEF Claim, world, Modest
<1>2. CASE Sweep(p)
  <2>1. ~Promises(Swept)
    <3>1. ASSUME NEW i \in WorkerSet, ~Promises(i)
          PROVE  ~Promises([i EXCEPT !.mode = "sweep"])
      BY <3>1 DEF Promises, WorkerSet
    <3>2. Idle \in WorkerSet
      BY IdleType DEF Calm
    <3> QED
      BY <3>1, <3>2, IdlePromise DEF Swept
  <2>2. Holding(Swept, row) \in WorkerSet /\ ~Promises(Holding(Swept, row))
    BY <1>h, <2>1, SweptType, HoldingType, HoldingPromise
  <2>3. ~Promises(Inspect(Holding(Swept, row), row.queued, row.batch))
    BY <2>2, InspectPromise
  <2> QED
    BY <1>2, <2>3 DEF Sweep, Swept, world, Modest
<1>3. CASE SweepLeases(p)
  <2>1. ~Promises(Release(Take("sweep", row), "none"))
    BY <1>h, <1>t, ReleasePromise
  <2>2. UNCHANGED worker => Become(p, worker[p])
    BY <1>h DEF Become
  <2>3. UNCHANGED worker \/ Become(p, Release(Take("sweep", row), "none"))
    BY <1>3 DEF SweepLeases, Take
  <2> QED
    BY <1>3, <2>1, <2>2, <2>3 DEF SweepLeases, Modest
<1>4. CASE Poll(p)
  <2> DEFINE w == Take("view", row)
  <2>1. w \in WorkerSet /\ ~Promises(w)
    BY <1>h, <1>t
  <2>2. [w EXCEPT !.mode = "cancel"] \in WorkerSet /\ ~Promises([w EXCEPT !.mode = "cancel"])
    BY <2>1 DEF Promises, WorkerSet
  <2> HIDE DEF w
  <2>3. ~Promises(Cancel([w EXCEPT !.mode = "cancel"])) /\ ~Promises(Goto(w, "history"))
    BY <2>1, <2>2, CancelPromise, GotoPromise
  <2>4. Become(p, Cancel([w EXCEPT !.mode = "cancel"])) \/ Become(p, Goto(w, "history"))
    BY <1>4 DEF Poll, w, Take
  <2> QED
    BY <1>4, <2>3, <2>4 DEF Poll, world, Modest
<1>5. CASE Recover(p)
  <2>1. PICK pc \in {"history", "findInQueue"} : Become(p, Goto(Take("view", row), pc))
    BY <1>5 DEF Recover, Goto, Take
  <2>2. ~Promises(Goto(Take("view", row), pc))
    BY <1>h, <1>t, GotoPromise
  <2> QED
    BY <1>5, <2>1, <2>2 DEF Recover, world, Modest
<1>6. CASE RequestCancel(p) \/ CancelBatch(p)
  <2>1. row' \in Row /\ row'.state = row.state
    BY <1>6, <1>h, CancelKeeps, StoreState DEF RequestCancel, CancelBatch, Keeps
  <2>2. ~Promises(Cancel(Take("undo", row'))) /\ ~Promises(Cancel(Take("cancel", row')))
    BY <1>t, <2>1
  <2>3. Become(p, Cancel(Take("undo", row'))) \/ Become(p, Cancel(Take("cancel", row')))
    BY <1>6 DEF RequestCancel, CancelBatch, Take
  <2> QED
    BY <1>6, <2>1, <2>2, <2>3 DEF RequestCancel, CancelBatch, world, Modest
<1> QED
  BY <1>1, <1>2, <1>3, <1>4, <1>5, <1>6 DEF Start

LEMMA CompletedNext == ASSUME HandoffInv, CompletedInv, [Next]_vars PROVE CompletedInv'
<1>1. ASSUME NEW p \in Workers, Work(p) PROVE CompletedInv'
  BY <1>1, PreparationModest, DispatchModest, ReleaseModest, SearchModest,
     CancellationModest, ModestKeeps DEF Work
<1>2. ASSUME NEW p \in Workers, Start(p) \/ Crash(p) PROVE CompletedInv'
  BY <1>2, StartModest, CancellationModest, ModestKeeps
<1>3. CASE Ages \/ LeaseTimesOut \/ OwnerLeaves \/ Comfy \/ UNCHANGED vars
  <2>1. row \in Row
    BY DEF HandoffInv, TypeOK
  <2>2. worker' = worker /\ row'.state = row.state
    BY <1>3, <2>1 DEF Ages, LeaseTimesOut, OwnerLeaves, Comfy, vars, Row
  <2>3. comfy \in Produced => comfy' \in Produced
    BY <1>3 DEF Ages, LeaseTimesOut, OwnerLeaves, Comfy, ComfySteps, vars, world, Produced
  <2> QED
    BY <2>2, <2>3 DEF CompletedInv, CompletedAfterSuccess
<1> QED
  BY <1>1, <1>2, <1>3 DEF Next

\* Whoever says that ComfyUI produced the outputs of the job is right, in every state.
THEOREM CompletedInvariant == Spec => []CompletedInv
<1>1. Init => CompletedInv
  <2> SUFFICES ASSUME Init PROVE CompletedInv
    OBVIOUS
  <2>1. ASSUME NEW p \in Workers PROVE ~Promises(worker[p])
    <3>1. Idle \in WorkerSet
      BY IdleType DEF Calm
    <3>2. ~Promises([Idle EXCEPT !.pc = "launch", !.mode = "dispatch", !.job = View(row)])
      BY <3>1, IdlePromise DEF Promises, WorkerSet
    <3> QED
      BY <3>2, IdlePromise DEF Init
  <2>2. row.state = "draft"
    BY DEF Init, NewRow
  <2> QED
    BY <2>1, <2>2 DEF CompletedInv, CompletedAfterSuccess
<1>2. HandoffInv /\ CompletedInv /\ [Next]_vars => CompletedInv'
  BY CompletedNext
<1> QED
  BY <1>1, <1>2, HandoffInvariant, PTL DEF Spec

\* A job is recorded as completed only after ComfyUI has produced its outputs: every
\* worker on the way to archive or to complete it saw the success, which stays.
THEOREM CompletedProduced == Spec => []CompletedAfterSuccess
<1>1. CompletedInv => CompletedAfterSuccess
  BY DEF CompletedInv
<1> QED
  BY <1>1, CompletedInvariant, PTL

-----------------------------------------------------------------------------
(* Where the call stacks go. *)

LEMMA CancelPlace ==
  ASSUME NEW w \in WorkerSet
  PROVE  Cancel(w).pc \in {"idle", "control", "findInQueue", "confirm"}
<1>1. [w EXCEPT !.pc = "confirm", !.seen = "none"].pc = "confirm"
  BY DEF WorkerSet
<1>2. Goto(w, "control").pc = "control" /\ Goto(w, "findInQueue").pc = "findInQueue"
  BY DEF Goto, WorkerSet
<1>3. Idle.pc = "idle"
  BY DEF Idle
<1> QED
  BY <1>1, <1>2, <1>3 DEF Cancel

LEMMA ReleasePlace ==
  ASSUME NEW w \in WorkerSet, NEW goal
  PROVE  Release(w, goal).pc = "fence" /\ Fail(w).pc = "fence"
BY DEF Release, Fail, WorkerSet

LEMMA ArrivedPlace ==
  ASSUME NEW w \in WorkerSet
  PROVE  Arrived(w).pc \in
           IF w.pc = "requeue"
           THEN {"idle", "control", "findInQueue", "confirm", "history"}
           ELSE {"idle", "archive"}
<1> DEFINE v == [w EXCEPT !.mode = IF @ = "sweep" THEN "cancel" ELSE @]
<1>1. v \in WorkerSet
  BY DEF WorkerSet
<1>2. Cancel(v).pc \in {"idle", "control", "findInQueue", "confirm"}
  BY <1>1, CancelPlace
<1>3. Goto(w, "history").pc = "history" /\ Goto(w, "archive").pc = "archive"
      /\ Idle.pc = "idle"
  BY DEF Goto, WorkerSet, Idle
<1> HIDE DEF v
<1> QED
  BY <1>2, <1>3 DEF Arrived, v

LEMMA AdvancePlace ==
  ASSUME NEW w \in WorkerSet, NEW pc \in {"advance", "requeue"},
         NEW target \in States \cup {"none"}
  PROVE  Advance(w, pc, target).pc \in
           IF pc = "requeue"
           THEN {"idle", "requeue", "control", "findInQueue", "confirm", "history"}
           ELSE {"idle", "advance", "archive"}
<1> DEFINE v == [w EXCEPT !.pc = pc, !.goal = target]
<1>1. v \in WorkerSet /\ v.pc = pc
  <2>1. pc \in PCs
    BY DEF PCs
  <2>2. v = Aimed(w, pc, target)
    BY DEF Aimed
  <2> HIDE DEF v
  <2> QED
    BY <2>1, <2>2, GoalTurn
<1>2. Arrived(v).pc \in
        IF v.pc = "requeue"
        THEN {"idle", "control", "findInQueue", "confirm", "history"}
        ELSE {"idle", "archive"}
  BY <1>1, ArrivedPlace
<1>3. Idle.pc = "idle"
  BY DEF Idle
<1> HIDE DEF v
<1> QED
  BY <1>1, <1>2, <1>3 DEF Advance, v

LEMMA ReconcilePlace ==
  ASSUME NEW w \in WorkerSet
  PROVE  Reconcile(w).pc \in {"idle", "fence", "advance", "archive"}
<1>1. "queued" \in States /\ "running" \in States /\ "archiving" \in States
  BY DEF States, Cancellable
<1>2. ASSUME NEW target \in {"queued", "running", "archiving"}
      PROVE  Advance(w, "advance", target).pc \in {"idle", "advance", "archive"}
  BY <1>1, AdvancePlace
<1>3. Idle.pc = "idle" /\ Fail(w).pc = "fence" /\ Release(w, "cancelled").pc = "fence"
  BY ReleasePlace DEF Idle
<1>4. w.seen \in {"none", "unknown", "pending", "running", "success", "error"}
  BY DEF WorkerSet
<1> QED
  BY <1>2, <1>3, <1>4 DEF Reconcile

LEMMA JudgePlace ==
  ASSUME NEW w \in WorkerSet
  PROVE  Judge(w).pc \in {"idle", "clear", "confirm", "fence", "advance", "archive"}
<1>1. Goto(w, "clear").pc = "clear" /\ Goto(w, "confirm").pc = "confirm"
      /\ Idle.pc = "idle"
  BY DEF Goto, WorkerSet, Idle
<1> QED
  BY <1>1, ReleasePlace, ReconcilePlace DEF Judge

LEMMA UnsentPlace ==
  ASSUME NEW w \in WorkerSet PROVE Unsent(w).pc \in {"idle", "clearUnsent"}
BY DEF Unsent, Goto, WorkerSet, Idle

LEMMA InspectPlace ==
  ASSUME NEW w \in WorkerSet, NEW queued, NEW batch
  PROVE  Inspect(w, queued, batch).pc \in
           {"idle", "fence", "control", "findInQueue", "confirm", "history"}
<1>1. [w EXCEPT !.mode = "cancel"] \in WorkerSet
  BY DEF WorkerSet
<1>2. Cancel([w EXCEPT !.mode = "cancel"]).pc
        \in {"idle", "control", "findInQueue", "confirm"}
  BY <1>1, CancelPlace
<1>3. Goto(w, "history").pc = "history" /\ Goto(w, "findInQueue").pc = "findInQueue"
      /\ Idle.pc = "idle" /\ Fail(w).pc = "fence"
  BY ReleasePlace DEF Goto, WorkerSet, Idle
<1> QED
  BY <1>2, <1>3 DEF Inspect

LEMMA HoldingPlace ==
  ASSUME NEW w \in WorkerSet, NEW r
  PROVE  Holding(w, r).pc = w.pc /\ Holding(w, r).goal = w.goal
         /\ Holding(w, r).mode = w.mode /\ Holding(w, r).seen = w.seen
         /\ Holding(w, r).sent = w.sent
<1>1. ASSUME NEW v, NEW o
      PROVE  LET h == [w EXCEPT !.job = v, !.old = o] IN
             /\ h.pc = w.pc /\ h.goal = w.goal /\ h.mode = w.mode
             /\ h.seen = w.seen /\ h.sent = w.sent
  BY DEF WorkerSet
<1> QED
  BY <1>1 DEF Holding

-----------------------------------------------------------------------------
(* A batch child gives its reservation back.  The child's quota is reserved *)
(* by the transaction that inserts it, and nobody launches it: no worker    *)
(* reserves again after the refund.                                         *)

Accounted(r) == ~r.reserved \/ r.committed
Refunding == {"resume", "mark", "finish"}
Launching == {"launch", "reserve", "publish"}

QuotaInv ==
  row.batch =>
    /\ \A p \in Workers :
         /\ p \in Launchers => At(p, "idle")
         /\ worker[p].pc \notin Launching
         /\ worker[p].pc \in Refunding => Accounted(row)
    /\ row.released => Accounted(row)

\* What the statements of the store do to the reservation.
Frugal(r, s) ==
  /\ s.batch = r.batch
  /\ Accounted(r) => Accounted(s)
  /\ s.released = r.released

LEMMA StoreFrugal ==
  ASSUME NEW r \in Row
  PROVE  /\ Frugal(r, Prepared(r)) /\ Frugal(r, Postponed(r)) /\ Frugal(r, Begun(r))
         /\ Frugal(r, Rejected(r)) /\ Frugal(r, Bound(r)) /\ Frugal(r, Committed(r))
         /\ Frugal(r, Fenced(r)) /\ Frugal(r, Refunded(r)) /\ Accounted(Refunded(r))
         /\ Frugal(r, CancelRequested(r)) /\ Frugal(r, BatchCancelled(r))
         /\ Frugal(r, CancelCleared(r)) /\ Frugal(r, CancelConfirmed(r))
         /\ Frugal(r, r) /\ Released(r).batch = r.batch
         /\ Accounted(r) => Accounted(Released(r))
         /\ \A token : Frugal(r, Claimed(r, token))
         /\ \A s : Frugal(r, AfterTransition(r, s))
<1>1. /\ Frugal(r, Prepared(r)) /\ Frugal(r, Postponed(r)) /\ Frugal(r, Begun(r))
      /\ Frugal(r, Rejected(r)) /\ Frugal(r, Bound(r)) /\ Frugal(r, Committed(r))
      /\ Frugal(r, r)
  BY DEF Row, Frugal, Accounted, Prepared, Postponed, Begun, Rejected, Bound, Committed
<1>2. /\ Frugal(r, Fenced(r)) /\ Frugal(r, Refunded(r)) /\ Accounted(Refunded(r))
      /\ Released(r).batch = r.batch /\ (Accounted(r) => Accounted(Released(r)))
  BY DEF Row, Frugal, Accounted, Fenced, Refunded, Released
<1>3. Frugal(r, CancelRequested(r)) /\ Frugal(r, BatchCancelled(r))
  BY DEF Row, Frugal, Accounted, CancelRequested, BatchCancelled
<1>4. Frugal(r, CancelCleared(r)) /\ Frugal(r, CancelConfirmed(r))
  BY DEF Row, Frugal, Accounted, CancelCleared, CancelConfirmed
<1>5. ASSUME NEW token PROVE Frugal(r, Claimed(r, token))
  BY DEF Row, Frugal, Accounted, Claimed
<1>6. ASSUME NEW s PROVE Frugal(r, AfterTransition(r, s))
  BY DEF Row, Frugal, Accounted, AfterTransition, Entered
<1> QED
  BY <1>1, <1>2, <1>3, <1>4, <1>5, <1>6

\* A step of one worker that loses no reservation.
FrugalStep(p) ==
  /\ \E w : /\ Become(p, w) /\ w.pc \notin Launching
            /\ w.pc \in Refunding => Accounted(row')
            /\ p \in Launchers => w.pc = "idle"
  /\ row'.batch = row.batch
  /\ Accounted(row) => Accounted(row')
  /\ row'.released => row.released \/ Accounted(row')

LEMMA FrugalKeeps ==
  ASSUME HandoffInv, QuotaInv, row.batch, NEW p \in Workers, FrugalStep(p)
  PROVE  QuotaInv'
<1>1. PICK w : /\ Become(p, w) /\ w.pc \notin Launching
               /\ w.pc \in Refunding => Accounted(row')
               /\ p \in Launchers => w.pc = "idle"
  BY DEF FrugalStep
<1>2. ASSUME NEW q \in Workers
      PROVE  /\ q \in Launchers => worker'[q].pc = "idle"
             /\ worker'[q].pc \notin Launching
             /\ worker'[q].pc \in Refunding => Accounted(row')
  <2>1. CASE q = p
    BY <1>1, <2>1, OnlyOneMoves
  <2>2. CASE q # p
    <3>1. worker'[q] = worker[q]
      BY <1>1, <2>2, OnlyOneMoves
    <3> QED
      BY <3>1 DEF QuotaInv, FrugalStep, At
  <2> QED
    BY <2>1, <2>2
<1>3. row'.released => Accounted(row')
  BY DEF QuotaInv, FrugalStep
<1> QED
  BY <1>2, <1>3 DEF QuotaInv, At

\* Steps that leave the reservation alone and do not go behind the fence.
Plain(w) == w \in WorkerSet /\ w.pc \notin Refunding \cup Launching

LEMMA PlainIntro ==
  ASSUME NEW p \in Workers, p \notin Launchers, NEW w, Plain(w), Become(p, w),
         Frugal(row, row')
  PROVE  FrugalStep(p)
BY DEF Plain, Frugal, FrugalStep

LEMMA PlainMove ==
  ASSUME HandoffInv, NEW p \in Workers, p \notin Launchers, NEW s, NEW ok, NEW ko,
         Plain(ok), Plain(ko), Move(p, s, ok, ko)
  PROVE  FrugalStep(p)
<1>1. row \in Row /\ GoodRow(row)
  BY HereType DEF HandoffInv, TypeOK
<1>2. Frugal(row, row') /\ row' \in Row
  BY <1>1, StoreFrugal, TransitionKeeps DEF Move, Keeps
<1>3. Plain(Holding(ok, row'))
  BY <1>2, HoldingType DEF Plain
<1>4. \E w : Plain(w) /\ Become(p, w)
  BY <1>3 DEF Move
<1> QED
  BY <1>2, <1>4, PlainIntro

\* Whoever works on a batch child is not one of those that launch.
LEMMA NoLauncher ==
  ASSUME QuotaInv, row.batch, NEW p \in Workers, ~At(p, "idle")
  PROVE  p \notin Launchers /\ worker[p].pc \notin Launching
BY DEF QuotaInv

LEMMA WorkFrugal ==
  ASSUME HandoffInv, QuotaInv, row.batch, NEW p \in Workers, Work(p)
  PROVE  FrugalStep(p)
<1>h. worker[p] \in WorkerSet /\ row \in Row /\ GoodRow(row)
  BY HereType DEF HandoffInv, TypeOK
<1>i. Plain(Idle)
  BY IdleType DEF Plain, Calm, Idle, Refunding, Launching
<1>l. p \notin Launchers /\ worker[p].pc \notin Launching
  <2>1. worker[p].pc # "idle"
    BY <1>h DEF Work, Launch, Check, Prepare, Wait, Reserve, Publish, Reread, Admit,
       Postpone, Pause, Begin, Post, Reply, Reject, Bind, Charge, Enqueued, Fence,
       Refund, Resume, Mark, Finish, FindInQueue, FindInHistory, ReadHistory, ReadQueue,
       Control, SendControl, ConfirmCancel, ClearCancel, AdvanceStep, Archive, At
  <2> QED
    BY <2>1, NoLauncher DEF At
<1>g. ASSUME NEW w \in WorkerSet, NEW pc \in PCs, pc \notin Refunding \cup Launching
      PROVE  Plain(Goto(w, pc))
  BY <1>g, GotoType DEF Plain
<1>f. Plain(Fail(worker[p]))
  BY <1>h, FailType, ReleasePlace DEF Calm, Plain, Refunding, Launching
<1>1. CASE Launch(p) \/ Reserve(p) \/ Publish(p)
  BY <1>1, <1>l DEF Launch, Reserve, Publish, At, Launching
<1>2. CASE Check(p) \/ Wait(p) \/ Enqueued(p)
  <2>1. /\ Plain(Goto(worker[p], "prepare")) /\ Plain(Goto(worker[p], "reread"))
    BY <1>h, <1>g DEF PCs, Refunding, Launching
  <2>2. CASE \E s : \E ok \in {Goto(worker[p], "prepare"), Goto(worker[p], "reread"), Idle} :
               Move(p, s, ok, Idle)
    BY <1>i, <1>l, <2>1, <2>2, PlainMove
  <2>3. CASE row' = row /\ \E w : Plain(w) /\ Become(p, w)
    BY <1>h, <1>l, <2>3, PlainIntro, StoreFrugal
  <2> QED
    BY <1>2, <1>f, <1>l, <2>1, <2>2, <2>3 DEF Check, Wait, Enqueued
<1>3. CASE Prepare(p) \/ Reread(p) \/ Bind(p)
  <2>1. Frugal(row, row') /\ row' \in Row
    <3>1. Prepared(row) \in Row /\ Bound(row) \in Row
      BY <1>h DEF Row, Prepared, Bound
    <3> QED
      BY <1>3, <1>h, <3>1, StoreFrugal DEF Prepare, Reread, Bind
  <2>2. ASSUME NEW pc \in {"wait", "charge", "recharge"}
        PROVE  Plain(Holding(Goto(worker[p], pc), row'))
    <3>1. Plain(Goto(worker[p], pc))
      BY <1>h, <1>g DEF PCs, Refunding, Launching
    <3> QED
      BY <2>1, <3>1, HoldingType DEF Plain
  <2> DEFINE w == Holding(worker[p], row')
  <2>3. w \in WorkerSet
    BY <1>h, <2>1, HoldingType
  <2>4. [w EXCEPT !.mode = "cancel"] \in WorkerSet
    BY <2>3 DEF WorkerSet
  <2>5. Plain(Cancel([w EXCEPT !.mode = "cancel"]))
    BY <2>4, CancelType, CancelPlace DEF Calm, Plain, Refunding, Launching
  <2>6. Plain(Goto(w, "admit"))
    BY <1>g, <2>3 DEF PCs, Refunding, Launching
  <2>7. ASSUME Prepare(p) PROVE \E v : Plain(v) /\ Become(p, v)
    BY <2>7, <1>i, <2>2 DEF Prepare
  <2>8. ASSUME Bind(p) PROVE \E v : Plain(v) /\ Become(p, v)
    BY <2>8, <2>2 DEF Bind
  <2>9. ASSUME Reread(p) PROVE \E v : Plain(v) /\ Become(p, v)
    BY <2>9, <1>i, <2>5, <2>6 DEF Reread
  <2> QED
    BY <1>3, <1>l, <2>1, <2>7, <2>8, <2>9, PlainIntro
<1>4. CASE Admit(p) \/ Postpone(p) \/ Pause(p) \/ Begin(p) \/ Post(p) \/ Reply(p) \/ Reject(p)
  <2>1. Frugal(row, row')
    BY <1>4, <1>h, StoreFrugal DEF Admit, Postpone, Pause, Begin, Post, Reply, Reject
  <2>2. ASSUME NEW pc \in {"pause", "postpone", "begin", "post", "reply", "bind", "reject"}
        PROVE  Plain(Goto(worker[p], pc))
    BY <1>h, <1>g DEF PCs, Refunding, Launching
  <2>3. \E w : Plain(w) /\ Become(p, w)
    BY <1>4, <1>f, <1>i, <2>2 DEF Admit, Postpone, Pause, Begin, Post, Reply, Reject
  <2> QED
    BY <1>l, <2>1, <2>3, PlainIntro
<1>5. CASE Charge(p)
  <2>1. "queued" \in States
    BY DEF States, Cancellable
  <2>2. Plain(Advance(worker[p], "requeue", "queued"))
    BY <1>h, <2>1, AdvanceType, AdvancePlace DEF Calm, Plain, Refunding, Launching
  <2>3. Plain(Goto(worker[p], "enqueued"))
    BY <1>h, <1>g DEF PCs, Refunding, Launching
  <2> QED
    BY <1>5, <1>h, <1>i, <1>l, <2>2, <2>3, PlainIntro, StoreFrugal DEF Charge
<1>6. CASE Fence(p)
  <2>1. Plain(Goto(worker[p], "refund"))
    BY <1>h, <1>g DEF PCs, Refunding, Launching
  <2> QED
    BY <1>6, <1>h, <1>i, <1>l, <2>1, PlainIntro, StoreFrugal DEF Fence
<1>7. CASE Refund(p)
  <2>1. Goto(worker[p], "resume").pc = "resume"
    BY <1>h DEF Goto, WorkerSet
  <2>2. Frugal(row, row') /\ Accounted(row')
    BY <1>7, <1>h, StoreFrugal DEF Refund
  <2> QED
    BY <1>7, <1>l, <2>1, <2>2 DEF Refund, Frugal, FrugalStep, Launching
<1>8. CASE Resume(p) \/ Mark(p)
  <2>1. Accounted(row)
    BY <1>8 DEF Resume, Mark, QuotaInv, At, Refunding
  <2>2. row'.batch = row.batch /\ Accounted(row')
    BY <1>8, <1>h, <2>1, StoreFrugal DEF Resume, Mark, Frugal
  <2>3. Goto(worker[p], "mark").pc = "mark" /\ Goto(worker[p], "finish") \in WorkerSet
        /\ Goto(worker[p], "finish").pc = "finish"
    BY <1>h DEF Goto, WorkerSet, PCs
  <2>4. Holding(Goto(worker[p], "finish"), row').pc = "finish"
    BY <2>3, HoldingPlace
  <2>5. \E w : Become(p, w) /\ w.pc \in {"mark", "finish", "idle"}
    BY <1>8, <1>i, <2>3, <2>4 DEF Resume, Mark, Idle
  <2> QED
    BY <1>l, <2>2, <2>5 DEF FrugalStep, Launching
<1>9. CASE Finish(p)
  BY <1>9, <1>h, <1>i, <1>l, PlainIntro, PlainMove, StoreFrugal DEF Finish
<1>10. CASE FindInQueue(p) \/ FindInHistory(p) \/ Control(p) \/ SendControl(p) \/ Archive(p)
  <2>1. ASSUME NEW pc \in {"found", "findInHistory", "findOnlyInHistory", "delete",
                           "interrupt", "history"}
        PROVE  Plain(Goto(worker[p], pc))
    BY <1>h, <1>g DEF PCs, Refunding, Launching
  <2>2. ASSUME NEW goal \in {"expired", "completed"}
        PROVE  Plain(Release(worker[p], goal))
    <3>1. goal \in States \cup {"none"}
      BY DEF States, Terminal
    <3> QED
      BY <1>h, <3>1, ReleaseType, ReleasePlace DEF Calm, Plain, Refunding, Launching
  <2>3. Plain(Unsent(worker[p]))
    BY <1>h, UnsentType, UnsentPlace DEF Calm, Plain, Refunding, Launching
  <2>4. Plain([worker[p] EXCEPT !.pc = "history", !.sent = TRUE])
    BY <1>h DEF Plain, WorkerSet, PCs, Refunding, Launching
  <2>5. ASSUME FindInQueue(p) \/ FindInHistory(p) PROVE \E w : Plain(w) /\ Become(p, w)
    BY <2>5, <1>i, <2>1, <2>2 DEF FindInQueue, FindInHistory
  <2>6. ASSUME Control(p) PROVE \E w : Plain(w) /\ Become(p, w)
    <3>1. PICK pc \in {"delete", "interrupt", "history"} :
             Become(p, Goto(worker[p], pc)) \/ Become(p, Unsent(worker[p]))
      BY <2>6 DEF Control
    <3> QED
      BY <2>1, <2>3, <3>1
  <2>7. ASSUME SendControl(p) \/ Archive(p) PROVE \E w : Plain(w) /\ Become(p, w)
    BY <2>7, <1>i, <2>2, <2>3, <2>4 DEF SendControl, Archive
  <2>8. row' = row
    BY <1>10 DEF FindInQueue, FindInHistory, Control, SendControl, Archive
  <2> QED
    BY <1>10, <1>h, <1>l, <2>5, <2>6, <2>7, <2>8, PlainIntro, StoreFrugal
<1>11. CASE ReadHistory(p) \/ ReadQueue(p)
  <2>1. ASSUME NEW seen \in {"pending", "running", "success", "error", "unknown"}
        PROVE  Plain(Judge([worker[p] EXCEPT !.seen = seen]))
    <3>1. [worker[p] EXCEPT !.seen = seen] \in WorkerSet
      BY <1>h DEF WorkerSet
    <3> QED
      BY <3>1, JudgeType, JudgePlace DEF Calm, Plain, Refunding, Launching
  <2>2. Plain(Unsent(worker[p])) /\ Plain(Goto(worker[p], "queue"))
    BY <1>h, <1>g, UnsentType, UnsentPlace DEF Calm, Plain, Refunding, Launching, PCs
  <2>3. \E w : Plain(w) /\ Become(p, w)
    BY <1>11, <1>i, <2>1, <2>2 DEF ReadHistory, ReadQueue
  <2> QED
    BY <1>11, <1>h, <1>l, <2>3, PlainIntro, StoreFrugal DEF ReadHistory, ReadQueue
<1>12. CASE ConfirmCancel(p) \/ ClearCancel(p) \/ AdvanceStep(p)
  <2>1. Frugal(row, row') /\ row' \in Row
    BY <1>12, <1>h, StoreFrugal, CancelKeeps, TransitionKeeps
    DEF ConfirmCancel, ClearCancel, AdvanceStep, Keeps
  <2> DEFINE w == Holding(worker[p], row')
  <2>2. w \in WorkerSet /\ w.goal = worker[p].goal
    BY <1>h, <2>1, HoldingType, HoldingPlace
  <2>3. Plain(Reconcile(w))
    BY <2>2, ReconcileType, ReconcilePlace DEF Calm, Plain, Refunding, Launching
  <2>4. ASSUME AdvanceStep(p) PROVE Plain(Advance(w, worker[p].pc, worker[p].goal))
    <3>1. worker[p].pc \in {"advance", "requeue"} /\ worker[p].goal \in States \cup {"none"}
      BY <2>4, <1>h DEF AdvanceStep, At, WorkerSet
    <3> QED
      BY <2>2, <3>1, AdvanceType, AdvancePlace DEF Calm, Plain, Refunding, Launching
  <2>5. \E v : Plain(v) /\ Become(p, v)
    BY <1>12, <1>i, <2>3, <2>4 DEF ConfirmCancel, ClearCancel, AdvanceStep
  <2> QED
    BY <1>l, <2>1, <2>5, PlainIntro
<1> QED
  BY <1>1, <1>2, <1>3, <1>4, <1>5, <1>6, <1>7, <1>8, <1>9, <1>10, <1>11, <1>12 DEF Work

LEMMA StartFrugal ==
  ASSUME HandoffInv, QuotaInv, row.batch, NEW p \in Workers, Start(p) \/ Crash(p)
  PROVE  FrugalStep(p)
<1>h. row \in Row /\ GoodRow(row) /\ worker \in [Workers -> WorkerSet]
  BY HereType DEF HandoffInv, TypeOK
<1>i. Plain(Idle)
  BY IdleType DEF Plain, Calm, Idle, Refunding, Launching
<1>l. p \notin Launchers
  <2>1. CASE Crash(p)
    BY <2>1, NoLauncher DEF Crash
  <2>2. CASE Start(p)
    BY <2>2, WorkersAssumption
    DEF Start, Claim, Sweep, SweepLeases, Poll, Recover, RequestCancel, CancelBatch
  <2> QED
    BY <2>1, <2>2
<1>p. ASSUME NEW w \in WorkerSet, w.pc \in {"check", "history", "findInQueue", "idle", "fence",
                                          "control", "confirm"}
      PROVE  Plain(w)
  BY <1>p DEF Plain, Refunding, Launching
<1>c. ASSUME NEW w \in WorkerSet PROVE Plain(Cancel(w)) /\ Plain(Fail(w))
  BY <1>p, CancelType, CancelPlace, FailType, ReleasePlace DEF Calm
<1>1. CASE Claim(p)
  <2>1. PICK token \in 1..TokenBound : row' = Claimed(row, token)
    BY <1>1 DEF Claim
  <2>2. TokenBound \in Nat
    BY WorkersAssumption, FS_CardinalityType DEF TokenBound
  <2>3. row' \in Row /\ Frugal(row, row')
    BY <1>h, <2>1, <2>2, ClaimKeeps, StoreFrugal DEF Keeps
  <2>5. Plain(Taken(row')) /\ Plain(Fail(Taken(row')))
    BY <1>p, <1>c, <2>3, TakenType
  <2>6. Become(p, Taken(row')) \/ Become(p, Fail(Taken(row')))
    BY <1>1 DEF Claim, Taken
  <2> QED
    BY <1>l, <2>3, <2>5, <2>6, PlainIntro
<1>2. CASE Sweep(p)
  <2> DEFINE v == Holding(Swept, row)
  <2>1. v \in WorkerSet
    BY <1>h, SweptType, HoldingType
  <2>2. row.queued \in BOOLEAN /\ row.batch \in BOOLEAN
    BY <1>h DEF Row
  <2>3. Plain(Inspect(v, row.queued, row.batch))
    BY <1>p, <2>1, <2>2, InspectType, InspectPlace DEF Calm
  <2>4. Become(p, Inspect(v, row.queued, row.batch))
    BY <1>2 DEF Sweep, Swept
  <2> QED
    BY <1>2, <1>h, <1>l, <2>3, <2>4, PlainIntro, StoreFrugal DEF Sweep
<1>3. CASE SweepLeases(p)
  <2>1. Plain(Release(Take("sweep", row), "none"))
    BY <1>h, <1>p, TakeType, ReleaseType, ReleasePlace DEF Calm
  <2>2. UNCHANGED worker => Become(p, worker[p]) /\ Plain(worker[p])
    BY <1>3, <1>h, <1>p DEF Become, SweepLeases, At
  <2>3. UNCHANGED worker \/ Become(p, Release(Take("sweep", row), "none"))
    BY <1>3 DEF SweepLeases, Take
  <2> QED
    BY <1>3, <1>h, <1>l, <2>1, <2>2, <2>3, PlainIntro, StoreFrugal DEF SweepLeases
<1>4. CASE Poll(p)
  <2>1. [Take("view", row) EXCEPT !.mode = "cancel"] \in WorkerSet
    BY <1>h, TakeType DEF WorkerSet
  <2>2. Plain(Cancel([Take("view", row) EXCEPT !.mode = "cancel"]))
        /\ Plain(Goto(Take("view", row), "history"))
    BY <1>h, <1>c, <1>p, <2>1, TakeType, GotoType DEF PCs
  <2>3. \/ Become(p, Cancel([Take("view", row) EXCEPT !.mode = "cancel"]))
        \/ Become(p, Goto(Take("view", row), "history"))
    BY <1>4 DEF Poll, Take
  <2> QED
    BY <1>4, <1>h, <1>l, <2>2, <2>3, PlainIntro, StoreFrugal DEF Poll
<1>5. CASE Recover(p)
  <2>1. PICK pc \in {"history", "findInQueue"} : Become(p, Goto(Take("view", row), pc))
    BY <1>5 DEF Recover, Goto, Take
  <2>2. Plain(Goto(Take("view", row), pc))
    BY <1>h, <1>p, TakeType, GotoType DEF PCs
  <2> QED
    BY <1>5, <1>h, <1>l, <2>1, <2>2, PlainIntro, StoreFrugal DEF Recover
<1>6. CASE RequestCancel(p) \/ CancelBatch(p)
  <2>1. row' \in Row /\ Frugal(row, row')
    BY <1>6, <1>h, CancelKeeps, StoreFrugal DEF RequestCancel, CancelBatch, Keeps
  <2>2. Plain(Cancel(Take("undo", row'))) /\ Plain(Cancel(Take("cancel", row')))
    BY <1>c, <2>1, TakeType
  <2>3. Become(p, Cancel(Take("undo", row'))) \/ Become(p, Cancel(Take("cancel", row')))
    BY <1>6 DEF RequestCancel, CancelBatch, Take
  <2> QED
    BY <1>l, <2>1, <2>2, <2>3, PlainIntro
<1>7. CASE Crash(p)
  BY <1>7, <1>h, <1>i, <1>l, PlainIntro, StoreFrugal DEF Crash
<1> QED
  BY <1>1, <1>2, <1>3, <1>4, <1>5, <1>6, <1>7 DEF Start

\* A job is a batch child from the beginning or never.
LEMMA BatchStays == ASSUME HandoffInv, Next PROVE row'.batch = row.batch
<1>h. row \in Row
  BY DEF HandoffInv, TypeOK
<1>s. Reserved(row).batch = row.batch /\ Queued(row).batch = row.batch
  BY <1>h DEF Row, Reserved, Queued
<1>1. ASSUME NEW p \in Workers, Work(p) PROVE row'.batch = row.batch
  <2>1. CASE Launch(p) \/ Check(p) \/ Prepare(p) \/ Wait(p) \/ Reserve(p) \/ Publish(p)
    BY <2>1, <1>h, <1>s, StoreFrugal
    DEF Launch, Check, Prepare, Wait, Reserve, Publish, Move, Frugal
  <2>2. CASE Reread(p) \/ Admit(p) \/ Postpone(p) \/ Pause(p) \/ Begin(p) \/ Post(p)
             \/ Reply(p) \/ Reject(p) \/ Bind(p) \/ Charge(p) \/ Enqueued(p)
    BY <2>2, <1>h, StoreFrugal
    DEF Reread, Admit, Postpone, Pause, Begin, Post, Reply, Reject, Bind, Charge,
        Enqueued, Move, Frugal
  <2>3. CASE Fence(p) \/ Refund(p) \/ Resume(p) \/ Mark(p) \/ Finish(p)
    BY <2>3, <1>h, StoreFrugal DEF Fence, Refund, Resume, Mark, Finish, Move, Frugal
  <2>4. CASE FindInQueue(p) \/ FindInHistory(p) \/ ReadHistory(p) \/ ReadQueue(p)
             \/ Control(p) \/ SendControl(p) \/ Archive(p)
    BY <2>4 DEF FindInQueue, FindInHistory, ReadHistory, ReadQueue, Control,
                SendControl, Archive
  <2>5. CASE ConfirmCancel(p) \/ ClearCancel(p) \/ AdvanceStep(p)
    BY <2>5, <1>h, StoreFrugal DEF ConfirmCancel, ClearCancel, AdvanceStep, Frugal
  <2> QED
    BY <1>1, <2>1, <2>2, <2>3, <2>4, <2>5 DEF Work
<1>2. ASSUME NEW p \in Workers, Start(p) \/ Crash(p) PROVE row'.batch = row.batch
  BY <1>2, <1>h, StoreFrugal
  DEF Start, Claim, Sweep, SweepLeases, Poll, Recover, RequestCancel, CancelBatch, Crash,
      Frugal
<1>3. CASE Ages \/ LeaseTimesOut \/ OwnerLeaves \/ Comfy
  BY <1>3, <1>h DEF Ages, LeaseTimesOut, OwnerLeaves, Comfy, Row
<1> QED
  BY <1>1, <1>2, <1>3 DEF Next

LEMMA QuotaNext == ASSUME HandoffInv, QuotaInv, [Next]_vars PROVE QuotaInv'
<1>1. ASSUME NEW p \in Workers, Work(p) \/ Start(p) \/ Crash(p), row.batch
      PROVE  QuotaInv'
  BY <1>1, WorkFrugal, StartFrugal, FrugalKeeps
<1>2. row'.batch = row.batch
  BY BatchStays DEF vars
<1>3. CASE Ages \/ LeaseTimesOut \/ OwnerLeaves \/ Comfy \/ UNCHANGED vars
  <2>1. row \in Row
    BY DEF HandoffInv, TypeOK
  <2>2. worker' = worker /\ row'.batch = row.batch /\ row'.reserved = row.reserved
        /\ row'.committed = row.committed /\ row'.released = row.released
    BY <1>3, <2>1 DEF Ages, LeaseTimesOut, OwnerLeaves, Comfy, vars, Row
  <2> QED
    BY <2>2 DEF QuotaInv, Accounted, At
<1> QED
  BY <1>1, <1>2, <1>3 DEF Next, QuotaInv

\* A batch child that ended was charged or has its reservation back, however its
\* dispatch, its cancellation and the sweeps interleaved, and whoever crashed.
THEOREM BatchQuota == Spec => [](row.batch => NoQuotaLeak)
<1>1. Init => QuotaInv
  <2> SUFFICES ASSUME Init, row.batch PROVE QuotaInv
    BY DEF QuotaInv
  <2>1. \A p \in Workers : worker[p].pc = "idle"
    BY DEF Init, Idle
  <2>2. ~row.released
    BY DEF Init, NewRow
  <2> QED
    BY <2>1, <2>2 DEF QuotaInv, At, Launching, Refunding
<1>2. HandoffInv /\ QuotaInv /\ [Next]_vars => QuotaInv'
  BY QuotaNext
<1>3. HandoffInv /\ QuotaInv => (row.batch => NoQuotaLeak)
  BY DEF HandoffInv, RowOK, QuotaInv, NoQuotaLeak, Accounted
<1> QED
  BY <1>1, <1>2, <1>3, HandoffInvariant, PTL DEF Spec
=============================================================================
