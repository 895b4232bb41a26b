----------------------- MODULE GenerationJobProofs -----------------------
(***************************************************************************)
(* What holds of one generation job for any number of launchers,           *)
(* dispatchers, sweepers, viewers and cancellers, any of the faults, any   *)
(* number of leases and crashes.                                           *)
(*                                                                         *)
(* HandoffInv is inductive.  Most steps are calm: they leave ComfyUI and   *)
(* what the row says about the hand-off alone, and put their worker at a   *)
(* place of which the invariant says nothing.  The others are taken one by *)
(* one.                                                                    *)
(***************************************************************************)
EXTENDS GenerationJob, FiniteSetTheorems, TLAPS

\* The places of which PositionOK says something.
Hot == {"post", "reply", "reject", "bind", "found", "refund", "resume", "mark",
        "finish"}

Calm(w) == w \in WorkerSet /\ w.pc \notin Hot

\* A row that says the same about the hand-off and, if it was final, stays so.
Keeps(r, s) ==
  /\ s \in Row
  /\ s.started = r.started /\ s.rejected = r.rejected /\ s.prompt = r.prompt
  /\ s.closed = r.closed /\ s.released = r.released
  /\ s.state \in Terminal => s.released
  /\ s.committed => s.prompt
  /\ r.state \in Terminal => s.state = r.state

CalmStep(p) ==
  /\ \E w \in WorkerSet : w.pc \notin Hot /\ Become(p, w)
  /\ Keeps(row, row')
  /\ comfy' = comfy /\ sends' = sends
  /\ held' \in Nat /\ ready' \in Nat /\ crashes' \in Nat

-----------------------------------------------------------------------------
(* The values the call stacks are made of. *)

LEMMA ViewType == ASSUME NEW r \in Row PROVE View(r) \in ViewSet
BY DEF Row, View, ViewSet

LEMMA NewRowType == ASSUME NEW batch \in BOOLEAN PROVE NewRow(batch) \in Row
BY DEF NewRow, Row, NoToken, States, Cancellable, Elapsed

LEMMA IdleType == Calm(Idle)
<1>1. View(NewRow(FALSE)) \in ViewSet
  BY NewRowType, ViewType
<1>2. ASSUME NEW v \in ViewSet, NEW old \in Elapsed
      PROVE  [pc |-> "idle", mode |-> "none", goal |-> "none", seen |-> "none",
              sent |-> FALSE, job |-> v, old |-> old] \in WorkerSet
  BY DEF WorkerSet, PCs
<1>3. 0 \in Elapsed
  BY DEF Elapsed
<1> QED
  BY <1>1, <1>2, <1>3 DEF Idle, Calm, Hot

\* The fields of a call stack, and what a turn of several of them leaves alone.
Modes == {"none", "dispatch", "sweep", "view", "cancel", "undo"}
Goals == States \cup {"none"}
Sights == {"none", "unknown", "pending", "running", "success", "error"}
Frame == [pc : PCs, mode : Modes, goal : Goals, seen : Sights, sent : BOOLEAN,
          job : ViewSet, old : Elapsed]

Aimed(w, pc, goal) == [w EXCEPT !.pc = pc, !.goal = goal]
Seeing(w, pc, seen) == [w EXCEPT !.pc = pc, !.seen = seen]
Charged(w, pc, mode, job) == [w EXCEPT !.pc = pc, !.mode = mode, !.job = job]

LEMMA FrameType == WorkerSet = Frame
BY DEF WorkerSet, Frame, Modes, Goals, Sights

LEMMA GoalTurn ==
  ASSUME NEW w \in WorkerSet, NEW pc \in PCs, NEW goal \in States \cup {"none"}
  PROVE  /\ Aimed(w, pc, goal) \in WorkerSet
         /\ Aimed(w, pc, goal).pc = pc /\ Aimed(w, pc, goal).goal = goal
         /\ Aimed(w, pc, goal).mode = w.mode /\ Aimed(w, pc, goal).seen = w.seen
         /\ Aimed(w, pc, goal).job = w.job /\ Aimed(w, pc, goal).old = w.old
<1> DEFINE u == [w EXCEPT !.pc = pc]
<1>1. u \in Frame /\ u.pc = pc /\ u.mode = w.mode
      /\ u.seen = w.seen /\ u.job = w.job /\ u.old = w.old
  BY FrameType DEF Frame
<1>2. Aimed(w, pc, goal) = [u EXCEPT !.goal = goal]
  BY DEF Aimed
<1> HIDE DEF u
<1> QED
  BY <1>1, <1>2, FrameType DEF Frame, Goals

LEMMA SeenTurn ==
  ASSUME NEW w \in WorkerSet, NEW pc \in PCs, NEW seen \in Sights
  PROVE  /\ Seeing(w, pc, seen) \in WorkerSet
         /\ Seeing(w, pc, seen).pc = pc /\ Seeing(w, pc, seen).seen = seen
         /\ Seeing(w, pc, seen).mode = w.mode /\ Seeing(w, pc, seen).goal = w.goal
         /\ Seeing(w, pc, seen).job = w.job /\ Seeing(w, pc, seen).old = w.old
<1> DEFINE u == [w EXCEPT !.pc = pc]
<1>1. u \in Frame /\ u.pc = pc /\ u.mode = w.mode
      /\ u.goal = w.goal /\ u.job = w.job /\ u.old = w.old
  BY FrameType DEF Frame
<1>2. Seeing(w, pc, seen) = [u EXCEPT !.seen = seen]
  BY DEF Seeing
<1> HIDE DEF u
<1> QED
  BY <1>1, <1>2, FrameType DEF Frame

LEMMA JobTurn ==
  ASSUME NEW w \in WorkerSet, NEW pc \in PCs, NEW mode \in Modes, NEW job \in ViewSet
  PROVE  /\ Charged(w, pc, mode, job) \in WorkerSet
         /\ Charged(w, pc, mode, job).pc = pc /\ Charged(w, pc, mode, job).mode = mode
         /\ Charged(w, pc, mode, job).job = job /\ Charged(w, pc, mode, job).goal = w.goal
         /\ Charged(w, pc, mode, job).seen = w.seen /\ Charged(w, pc, mode, job).old = w.old
<1> DEFINE u == [w EXCEPT !.pc = pc]
           v == [u EXCEPT !.mode = mode]
<1>1. u \in Frame /\ u.pc = pc /\ u.goal = w.goal /\ u.seen = w.seen /\ u.old = w.old
  BY FrameType DEF Frame
<1>2. v \in Frame /\ v.pc = pc /\ v.mode = mode /\ v.goal = w.goal /\ v.seen = w.seen
      /\ v.old = w.old
  <2> HIDE DEF u
  <2> QED
    BY <1>1 DEF Frame
<1>3. Charged(w, pc, mode, job) = [v EXCEPT !.job = job]
  BY DEF Charged
<1> HIDE DEF u, v
<1> QED
  BY <1>2, <1>3, FrameType DEF Frame

LEMMA GotoType ==
  ASSUME NEW w \in WorkerSet, NEW pc \in PCs
  PROVE  /\ Goto(w, pc) \in WorkerSet /\ Goto(w, pc).pc = pc
         /\ Goto(w, pc).job = w.job /\ Goto(w, pc).mode = w.mode
BY DEF Goto, WorkerSet

LEMMA ReleaseType ==
  ASSUME NEW w \in WorkerSet, NEW goal \in States \cup {"none"}
  PROVE  Calm(Release(w, goal))
<1>1. "fence" \in PCs \ Hot
  BY DEF PCs, Hot
<1>2. Release(w, goal) = Aimed(w, "fence", goal)
  BY DEF Release, Aimed
<1> QED
  BY <1>1, <1>2, GoalTurn DEF Calm

LEMMA FailType == ASSUME NEW w \in WorkerSet PROVE Calm(Fail(w))
<1>1. "failed" \in States \cup {"none"}
  BY DEF States, Terminal
<1> QED
  BY <1>1, ReleaseType DEF Fail

LEMMA HoldingType ==
  ASSUME NEW w \in WorkerSet, NEW r \in Row
  PROVE  Holding(w, r) \in WorkerSet /\ Holding(w, r).pc = w.pc
<1> DEFINE since == IF w.mode = "sweep" THEN r.age ELSE 0
<1>1. View(r) \in ViewSet
  BY ViewType
<1>2. r.age \in Elapsed
  BY DEF Row
<1>3. since \in Elapsed
  BY <1>2 DEF Elapsed
<1>4. ASSUME NEW v \in ViewSet, NEW o \in Elapsed,
             Holding(w, r) = [w EXCEPT !.job = v, !.old = o]
      PROVE  Holding(w, r) \in WorkerSet /\ Holding(w, r).pc = w.pc
  BY <1>4 DEF WorkerSet
<1> HIDE DEF since
<1>5. Holding(w, r) = [w EXCEPT !.job = View(r), !.old = since]
  BY DEF Holding, since
<1> QED
  BY <1>1, <1>3, <1>4, <1>5

LEMMA CancelType == ASSUME NEW w \in WorkerSet PROVE Calm(Cancel(w))
<1>1. [w EXCEPT !.pc = "confirm", !.seen = "none"] \in WorkerSet
      /\ [w EXCEPT !.pc = "confirm", !.seen = "none"].pc = "confirm"
  <2>1. "confirm" \in PCs /\ "none" \in Sights
    BY DEF PCs, Sights
  <2>2. [w EXCEPT !.pc = "confirm", !.seen = "none"] = Seeing(w, "confirm", "none")
    BY DEF Seeing
  <2>3. Seeing(w, "confirm", "none") \in WorkerSet /\ Seeing(w, "confirm", "none").pc = "confirm"
    BY <2>1, SeenTurn
  <2> QED
    BY ONLY <2>2, <2>3
<1>2. Calm(Goto(w, "control")) /\ Calm(Goto(w, "findInQueue"))
  BY GotoType DEF Calm, PCs, Hot
<1> QED
  BY <1>1, <1>2, IdleType DEF Cancel, Calm, Hot

LEMMA ArrivedType ==
  ASSUME NEW w \in WorkerSet
  PROVE  Calm(Arrived(w))
<1>1. [w EXCEPT !.mode = IF @ = "sweep" THEN "cancel" ELSE @] \in WorkerSet
  BY DEF WorkerSet
<1>2. Calm(Goto(w, "history")) /\ Calm(Goto(w, "archive"))
  BY GotoType DEF Calm, PCs, Hot
<1> QED
  BY <1>1, <1>2, CancelType, IdleType DEF Arrived

LEMMA AdvanceType ==
  ASSUME NEW w \in WorkerSet, NEW pc \in {"advance", "requeue"},
         NEW target \in States \cup {"none"}
  PROVE  Calm(Advance(w, pc, target))
<1> DEFINE v == [w EXCEPT !.pc = pc, !.goal = target]
<1>1. Calm(v)
  <2>1. pc \in PCs \ Hot
    BY DEF PCs, Hot
  <2>2. v = Aimed(w, pc, target)
    BY DEF Aimed
  <2> HIDE DEF v
  <2> QED
    BY <2>1, <2>2, GoalTurn DEF Calm
<1>2. Calm(Arrived(v))
  BY <1>1, ArrivedType DEF Calm
<1> HIDE DEF v
<1> QED
  BY <1>1, <1>2, IdleType DEF Advance, v

LEMMA ReconcileType == ASSUME NEW w \in WorkerSet PROVE Calm(Reconcile(w))
<1>1. "cancelled" \in States /\ "queued" \in States /\ "running" \in States
      /\ "archiving" \in States
  BY DEF States, Terminal, Cancellable
<1>2. /\ Calm(Release(w, "cancelled")) /\ Calm(Fail(w)) /\ Calm(Idle)
      /\ Calm(Advance(w, "advance", "queued")) /\ Calm(Advance(w, "advance", "running"))
      /\ Calm(Advance(w, "advance", "archiving"))
  BY <1>1, ReleaseType, FailType, IdleType, AdvanceType
<1>3. w.seen \in {"none", "unknown", "pending", "running", "success", "error"}
  BY DEF WorkerSet
<1> QED
  BY <1>2, <1>3 DEF Reconcile

LEMMA JudgeType == ASSUME NEW w \in WorkerSet PROVE Calm(Judge(w))
<1>1. Calm(Goto(w, "clear")) /\ Calm(Goto(w, "confirm"))
  BY GotoType DEF Calm, PCs, Hot
<1>2. Calm(Release(w, "expired"))
  BY ReleaseType DEF States, Terminal
<1> QED
  BY <1>1, <1>2, IdleType, ReconcileType DEF Judge

LEMMA UnsentType == ASSUME NEW w \in WorkerSet PROVE Calm(Unsent(w))
<1>1. Calm(Goto(w, "clearUnsent"))
  BY GotoType DEF Calm, PCs, Hot
<1> QED
  BY <1>1, IdleType DEF Unsent

LEMMA InspectType ==
  ASSUME NEW w \in WorkerSet, NEW queued \in BOOLEAN, NEW batch \in BOOLEAN
  PROVE  Calm(Inspect(w, queued, batch))
<1>1. [w EXCEPT !.mode = "cancel"] \in WorkerSet
  BY DEF WorkerSet
<1>2. Calm(Goto(w, "history")) /\ Calm(Goto(w, "findInQueue"))
  BY GotoType DEF Calm, PCs, Hot
<1> QED
  BY <1>1, <1>2, IdleType, FailType, CancelType DEF Inspect
-----------------------------------------------------------------------------
(* What the statements of the store keep. *)

\* Rows on which the end and the charge are as RowOK says.
GoodRow(r) ==
  /\ r \in Row
  /\ r.state \in Terminal => r.released
  /\ r.committed => r.prompt

LEMMA ProgressType ==
  /\ \A s \in Terminal : Progress[s] = {}
  /\ \A s \in States : Progress[s] \subseteq States
BY DEF Progress, States, Terminal, Cancellable

LEMMA TransitionType ==
  ASSUME NEW from \in States, NEW to, CanTransition(from, to)
  PROVE  to \in States /\ from \notin Terminal
<1>1. "failed" \in States /\ "expired" \in States /\ "cancelled" \in States
      /\ \A s \in Cancellable : s \notin Terminal
  BY DEF States, Terminal, Cancellable
<1> QED
  BY <1>1, ProgressType DEF CanTransition

LEMMA SameKeeps == ASSUME NEW r, GoodRow(r) PROVE Keeps(r, r)
BY DEF GoodRow, Keeps

LEMMA TransitionKeeps ==
  ASSUME NEW r, GoodRow(r), NEW s
  PROVE  Keeps(r, AfterTransition(r, s))
<1>1. CASE CanEnter(r, s)
  <2>1. r.state \in States
    BY DEF GoodRow, Row
  <2>2. s \in States /\ r.state \notin Terminal /\ (s \in Terminal => r.released)
    BY <1>1, <2>1, TransitionType DEF CanEnter
  <2>3. 0 \in Elapsed
    BY DEF Elapsed
  <2>4. Keeps(r, Entered(r, s))
    BY <2>2, <2>3 DEF GoodRow, Keeps, Entered, Row
  <2> QED
    BY <1>1, <2>4 DEF AfterTransition
<1>2. CASE ~CanEnter(r, s)
  BY <1>2, SameKeeps DEF AfterTransition
<1> QED
  BY <1>1, <1>2

LEMMA StoreKeeps ==
  ASSUME NEW r, GoodRow(r)
  PROVE  /\ Keeps(r, Prepared(r)) /\ Keeps(r, Reserved(r)) /\ Keeps(r, Queued(r))
         /\ Keeps(r, Postponed(r)) /\ Keeps(r, Refunded(r))
         /\ CanCommit(r) => Keeps(r, Committed(r))
<1>1. Keeps(r, Prepared(r)) /\ Keeps(r, Reserved(r)) /\ Keeps(r, Queued(r))
  BY DEF GoodRow, Keeps, Row, Prepared, Reserved, Queued
<1>2. Keeps(r, Postponed(r)) /\ Keeps(r, Refunded(r))
  BY DEF GoodRow, Keeps, Row, Postponed, Refunded, NoToken
<1>3. CanCommit(r) => Keeps(r, Committed(r))
  BY DEF GoodRow, Keeps, Row, Committed, CanCommit
<1> QED
  BY <1>1, <1>2, <1>3

LEMMA CancelKeeps ==
  ASSUME NEW r, GoodRow(r)
  PROVE  /\ Keeps(r, CancelRequested(r)) /\ Keeps(r, BatchCancelled(r))
         /\ Keeps(r, CancelCleared(r)) /\ Keeps(r, CancelConfirmed(r))
<1>1. Keeps(r, CancelRequested(r))
  BY DEF GoodRow, Keeps, Row, CancelRequested
<1>2. Keeps(r, BatchCancelled(r))
  BY DEF GoodRow, Keeps, Row, BatchCancelled, CanRequestCancel
<1>3. Keeps(r, [r EXCEPT !.cancelReq = FALSE, !.cancelConf = FALSE])
      /\ Keeps(r, [r EXCEPT !.cancelConf = TRUE])
  BY DEF GoodRow, Keeps, Row
<1>4. Keeps(r, CancelCleared(r)) /\ Keeps(r, CancelConfirmed(r))
  BY <1>3, SameKeeps DEF CancelCleared, CancelConfirmed
<1> QED
  BY <1>1, <1>2, <1>3, <1>4

LEMMA ClaimKeeps ==
  ASSUME NEW r, GoodRow(r), NEW token \in Nat
  PROVE  Keeps(r, Claimed(r, token))
<1> DEFINE state == IF r.state = "draft" THEN "preparing" ELSE r.state
           age == IF r.state = "draft" THEN 0 ELSE r.age
<1>1. state \in States /\ (state \in Terminal => state = r.state)
      /\ (r.state \in Terminal => state = r.state)
  <2>1. "preparing" \in States /\ "preparing" \notin Terminal /\ "draft" \notin Terminal
    BY DEF States, Cancellable, Terminal
  <2> QED
    BY <2>1 DEF GoodRow, Row
<1>2. age \in Elapsed
  BY DEF Elapsed, GoodRow, Row
<1> HIDE DEF state, age
<1>3. Claimed(r, token)
        = [r EXCEPT !.queued = TRUE, !.token = token, !.lease = "live",
                    !.state = state, !.age = age]
  BY DEF Claimed, state, age
<1>4. ASSUME NEW s, s = [r EXCEPT !.queued = TRUE, !.token = token, !.lease = "live",
                                  !.state = state, !.age = age]
      PROVE  Keeps(r, s)
  BY <1>1, <1>2, <1>4 DEF GoodRow, Keeps, Row
<1> QED
  BY <1>3, <1>4
-----------------------------------------------------------------------------
(* What a step of one worker owes the others. *)

\* Nobody else's position is disturbed.
RowKeeps ==
  /\ row' \in Row /\ RowOK'
  /\ row.started => row'.started
  /\ row.closed => row'.closed
  /\ row.released => row'.released
ComfyKeeps ==
  /\ comfy' \in ComfyStates
  /\ comfy' = "absent" <=> comfy = "absent"
  /\ comfy = "refused" => comfy' = "refused"
  /\ comfy \in Accepted => comfy' \in Accepted
CountsOK == held' \in Nat /\ ready' \in Nat /\ crashes' \in Nat

\* What every step preserves, does not do to a finished job, and is of
\* GenerationHandoff.
StepOK ==
  /\ HandoffInv'
  /\ row.state \in Terminal => row'.state = row.state /\ sends' = sends
  /\ [Handoff!Next]_(Handoff!handoff)

LEMMA PositionKept ==
  ASSUME HandoffInv, NEW q \in Workers, worker'[q] = worker[q],
         RowKeeps, ComfyKeeps, sends' = sends
  PROVE  PositionOK(q)'
<1>1. PositionOK(q)
  BY DEF HandoffInv
<1>2. comfy' = "absent" => ~row'.rejected /\ ~row'.prompt
  BY DEF RowKeeps, RowOK, Accepted
<1>3. At(q, "post") => PositionOK(q)'
  BY <1>1, <1>2 DEF PositionOK, At, RowKeeps, ComfyKeeps
<1>4. ~At(q, "post") => PositionOK(q)'
  BY <1>1 DEF PositionOK, At, RowKeeps, ComfyKeeps
<1> QED
  BY <1>3, <1>4

LEMMA WorkerStep ==
  ASSUME HandoffInv, NEW p \in Workers, NEW w \in WorkerSet, Become(p, w),
         w.pc # "post", RowKeeps, ComfyKeeps, CountsOK, sends' = sends,
         PositionOK(p)'
  PROVE  HandoffInv'
<1>1. worker \in [Workers -> WorkerSet] /\ sends \in Nat
  BY DEF HandoffInv, TypeOK
<1>2. /\ worker' \in [Workers -> WorkerSet]
      /\ worker'[p] = w
      /\ \A q \in Workers : q # p => worker'[q] = worker[q]
  BY <1>1 DEF Become
<1>3. TypeOK'
  BY <1>1, <1>2 DEF TypeOK, RowKeeps, ComfyKeeps, CountsOK
<1>4. \A q \in Workers : PositionOK(q)'
  BY <1>2, PositionKept
<1>5. OnePoster'
  BY <1>2 DEF OnePoster, At, HandoffInv
<1>6. SendsOK'
  BY DEF SendsOK, ComfyKeeps, HandoffInv
<1> QED
  BY <1>3, <1>4, <1>5, <1>6 DEF HandoffInv, RowKeeps

LEMMA WorldStep ==
  ASSUME HandoffInv, UNCHANGED worker, RowKeeps, ComfyKeeps, CountsOK,
         sends' = sends
  PROVE  HandoffInv'
<1>1. worker \in [Workers -> WorkerSet] /\ sends \in Nat
  BY DEF HandoffInv, TypeOK
<1>2. TypeOK'
  BY <1>1 DEF TypeOK, RowKeeps, ComfyKeeps, CountsOK
<1>3. \A q \in Workers : PositionOK(q)'
  BY PositionKept
<1>4. OnePoster' /\ SendsOK'
  BY DEF OnePoster, At, SendsOK, ComfyKeeps, HandoffInv
<1> QED
  BY <1>2, <1>3, <1>4 DEF HandoffInv, RowKeeps

LEMMA KeptRow ==
  ASSUME HandoffInv, Keeps(row, row'), comfy' = comfy
  PROVE  RowKeeps /\ ComfyKeeps
<1>1. RowOK /\ comfy \in ComfyStates
  BY DEF HandoffInv, TypeOK
<1>2. RowOK'
  BY <1>1 DEF RowOK, Keeps, Settled
<1> QED
  BY <1>1, <1>2 DEF RowKeeps, ComfyKeeps, Keeps

LEMMA SameHandoff ==
  ASSUME comfy' = comfy, row'.prompt = row.prompt,
         row'.rejected = row.rejected, row'.closed = row.closed
  PROVE  UNCHANGED Handoff!handoff
BY DEF Handoff!handoff

LEMMA CalmIsOK ==
  ASSUME HandoffInv, NEW p \in Workers, CalmStep(p)
  PROVE  StepOK
<1>1. PICK w \in WorkerSet : w.pc \notin Hot /\ Become(p, w)
  BY DEF CalmStep
<1>2. RowKeeps /\ ComfyKeeps /\ CountsOK
  BY KeptRow DEF CalmStep, CountsOK
<1>3. worker'[p] = w
  BY <1>1 DEF Become, HandoffInv, TypeOK
<1>4. PositionOK(p)'
  BY <1>1, <1>3 DEF PositionOK, At, Hot
<1>5. HandoffInv'
  BY <1>1, <1>2, <1>4, WorkerStep DEF CalmStep, Hot
<1>6. UNCHANGED Handoff!handoff
  BY SameHandoff DEF CalmStep, Keeps
<1> QED
  BY <1>5, <1>6 DEF StepOK, CalmStep, Keeps
-----------------------------------------------------------------------------
(* The calm steps. *)

LEMMA HereType ==
  ASSUME HandoffInv, NEW p \in Workers
  PROVE  /\ worker[p] \in WorkerSet /\ worker[p].mode \in {"none", "dispatch", "sweep", "view", "cancel", "undo"}
         /\ worker[p].job \in ViewSet /\ GoodRow(row)
         /\ held \in Nat /\ ready \in Nat /\ sends \in Nat /\ crashes \in Nat
<1>1. worker[p] \in WorkerSet
  BY DEF HandoffInv, TypeOK
<1>2. worker[p].mode \in {"none", "dispatch", "sweep", "view", "cancel", "undo"}
      /\ worker[p].job \in ViewSet
  BY <1>1 DEF WorkerSet
<1>3. GoodRow(row)
  BY DEF HandoffInv, TypeOK, RowOK, GoodRow
<1> QED
  BY <1>1, <1>2, <1>3 DEF HandoffInv, TypeOK

LEMMA CalmIntro ==
  ASSUME HandoffInv, NEW p \in Workers, NEW w, Calm(w), Become(p, w),
         Keeps(row, row'), UNCHANGED world
  PROVE  StepOK
<1>1. held' \in Nat /\ ready' \in Nat /\ crashes' \in Nat
  BY DEF HandoffInv, TypeOK, world
<1>2. CalmStep(p)
  BY <1>1 DEF CalmStep, Calm, world
<1> QED
  BY <1>2, CalmIsOK

\* A step that reads and moves its worker only.
LEMMA ReadIntro ==
  ASSUME HandoffInv, NEW p \in Workers, NEW w, Calm(w), Become(p, w),
         UNCHANGED <<row, world>>
  PROVE  StepOK
<1>1. Keeps(row, row')
  BY HereType, SameKeeps DEF HandoffInv
<1> QED
  BY <1>1, CalmIntro

\* TransitionGenerationJob, whatever it finds.
LEMMA MoveIntro ==
  ASSUME HandoffInv, NEW p \in Workers, NEW s, NEW ok, NEW ko,
         Calm(ok), Calm(ko), Move(p, s, ok, ko), UNCHANGED world
  PROVE  StepOK
<1>1. GoodRow(row)
  BY HereType
<1>2. Keeps(row, row')
  BY <1>1, TransitionKeeps DEF Move
<1>3. Calm(Holding(ok, row'))
  BY <1>2, HoldingType DEF Calm, Keeps
<1>4. \E w : Calm(w) /\ Become(p, w)
  BY <1>3 DEF Move
<1> QED
  BY <1>2, <1>4, CalmIntro

LEMMA CalmGoto ==
  ASSUME NEW w \in WorkerSet, NEW pc \in PCs, pc \notin Hot
  PROVE  Calm(Goto(w, pc))
BY GotoType DEF Calm

LEMMA PreparationOK ==
  ASSUME HandoffInv, NEW p \in Workers,
         Launch(p) \/ Check(p) \/ Prepare(p) \/ Wait(p) \/ Reserve(p) \/ Publish(p)
  PROVE  StepOK
<1>h. worker[p] \in WorkerSet /\ GoodRow(row) /\ Keeps(row, row)
  BY HereType, SameKeeps
<1>c. /\ Calm(Goto(worker[p], "check")) /\ Calm(Goto(worker[p], "prepare"))
      /\ Calm(Goto(worker[p], "reread")) /\ Calm(Goto(worker[p], "wait"))
      /\ Calm(Goto(worker[p], "reserve")) /\ Calm(Goto(worker[p], "publish"))
      /\ Calm(Fail(worker[p])) /\ Calm(Idle)
  BY <1>h, CalmGoto, FailType, IdleType DEF PCs, Hot
<1>1. CASE Launch(p)
  BY <1>1, <1>c, MoveIntro DEF Launch
<1>2. CASE Check(p)
  <2>1. CASE Become(p, Fail(worker[p])) /\ UNCHANGED row
    BY <1>2, <2>1, <1>c, ReadIntro DEF Check
  <2>2. CASE Move(p, "uploading", Goto(worker[p], "prepare"), Idle)
    BY <1>2, <2>2, <1>c, MoveIntro DEF Check
  <2>3. ASSUME NEW pc \in {"reread", "prepare"}, Become(p, Goto(worker[p], pc)), UNCHANGED row
        PROVE  StepOK
    BY <1>2, <2>3, <1>c, ReadIntro DEF Check
  <2> QED
    BY <1>2, <2>1, <2>2, <2>3 DEF Check
<1>3. CASE Prepare(p)
  <2>1. Keeps(row, Prepared(row))
    BY <1>h, StoreKeeps
  <2>2. Calm(Holding(Goto(worker[p], "wait"), Prepared(row)))
    BY <2>1, <1>c, HoldingType DEF Calm, Keeps
  <2> QED
    BY <1>3, <2>1, <2>2, <1>c, CalmIntro, ReadIntro DEF Prepare
<1>4. CASE Wait(p)
  <2>1. PICK pc \in {"reserve", "reread"} :
          Move(p, "waiting_for_resources", Goto(worker[p], pc), Idle)
    BY <1>4 DEF Wait
  <2> QED
    BY <1>4, <2>1, <1>c, MoveIntro DEF Wait
<1>5. CASE Reserve(p)
  <2>1. Keeps(row, Reserved(row))
    BY <1>h, StoreKeeps
  <2> QED
    BY <1>5, <2>1, <1>c, CalmIntro, ReadIntro DEF Reserve
<1>6. CASE Publish(p)
  <2>1. Keeps(row, row')
    BY <1>6, <1>h, StoreKeeps DEF Publish
  <2> QED
    BY <1>6, <2>1, <1>c, CalmIntro DEF Publish
<1> QED
  BY <1>1, <1>2, <1>3, <1>4, <1>5, <1>6

LEMMA ClaimOK ==
  ASSUME HandoffInv, NEW p \in Workers, Claim(p)
  PROVE  StepOK
<1>h. GoodRow(row)
  BY HereType
<1>1. PICK token \in 1..TokenBound : row' = Claimed(row, token)
  BY DEF Claim
<1>2. TokenBound \in Nat
  BY WorkersAssumption, FS_CardinalityType DEF TokenBound
<1>3. token \in Nat
  BY <1>2
<1>4. Keeps(row, row')
  BY <1>h, <1>1, <1>3, ClaimKeeps
<1>5. View(row') \in ViewSet
  BY <1>4, ViewType DEF Keeps
<1> DEFINE w == [Idle EXCEPT !.pc = "check", !.mode = "dispatch", !.job = View(row')]
<1>6. Calm(w)
  <2>1. "check" \in PCs \ Hot /\ "dispatch" \in Modes
    BY DEF PCs, Hot, Modes
  <2>2. w = Charged(Idle, "check", "dispatch", View(row'))
    BY DEF Charged
  <2> HIDE DEF w
  <2> QED
    BY <1>5, <2>1, <2>2, IdleType, JobTurn DEF Calm
<1>7. Calm(Fail(w))
  BY <1>6, FailType DEF Calm
<1>8. Become(p, IF row.owner THEN w ELSE Fail(w)) /\ UNCHANGED world
  BY DEF Claim
<1> HIDE DEF w
<1> QED
  BY <1>4, <1>6, <1>7, <1>8, CalmIntro

LEMMA DispatchOK ==
  ASSUME HandoffInv, NEW p \in Workers,
         Reread(p) \/ Admit(p) \/ Postpone(p) \/ Pause(p) \/ Charge(p) \/ Enqueued(p)
  PROVE  StepOK
<1>h. worker[p] \in WorkerSet /\ GoodRow(row) /\ Keeps(row, row)
      /\ held \in Nat /\ ready \in Nat /\ crashes \in Nat
  BY HereType, SameKeeps
<1>c. /\ Calm(Goto(worker[p], "pause")) /\ Calm(Goto(worker[p], "postpone"))
      /\ Calm(Goto(worker[p], "begin")) /\ Calm(Goto(worker[p], "enqueued"))
      /\ Calm(Fail(worker[p])) /\ Calm(Idle)
  BY <1>h, CalmGoto, FailType, IdleType DEF PCs, Hot
<1>1. CASE Reread(p)
  <2> DEFINE w == Holding(worker[p], row)
  <2>1. w \in WorkerSet
    BY <1>h, HoldingType DEF GoodRow
  <2>2. [w EXCEPT !.mode = "cancel"] \in WorkerSet
    BY <2>1 DEF WorkerSet
  <2>3. Calm(Goto(w, "admit")) /\ Calm(Cancel([w EXCEPT !.mode = "cancel"]))
    BY <2>1, <2>2, CalmGoto, CancelType DEF PCs, Hot
  <2>4. \E v : Calm(v) /\ Become(p, v)
    BY <1>1, <1>c, <2>3 DEF Reread
  <2> QED
    BY <1>1, <2>4, ReadIntro DEF Reread
<1>2. CASE Admit(p)
  BY <1>2, <1>c, ReadIntro DEF Admit
<1>3. CASE Postpone(p)
  <2>1. Keeps(row, row')
    BY <1>3, <1>h, StoreKeeps DEF Postpone
  <2> QED
    BY <1>3, <2>1, <1>c, CalmIntro DEF Postpone
<1>4. CASE Pause(p)
  <2>1. held' \in Nat
    BY <1>4, <1>h DEF Pause
  <2>2. \E w : Calm(w) /\ Become(p, w)
    BY <1>4, <1>c DEF Pause
  <2>3. CalmStep(p)
    BY <1>4, <1>h, <2>1, <2>2 DEF Pause, CalmStep, Calm
  <2> QED
    BY <2>3, CalmIsOK
<1>5. CASE Charge(p)
  <2>1. Keeps(row, row')
    BY <1>5, <1>h, StoreKeeps DEF Charge
  <2>2. "queued" \in States
    BY DEF States, Cancellable
  <2>3. Calm(Advance(worker[p], "requeue", "queued"))
    BY <1>h, <2>2, AdvanceType
  <2> QED
    BY <1>5, <2>1, <2>3, <1>c, CalmIntro DEF Charge
<1>6. CASE Enqueued(p)
  BY <1>6, <1>c, MoveIntro DEF Enqueued
<1> QED
  BY <1>1, <1>2, <1>3, <1>4, <1>5, <1>6

LEMMA StartOK ==
  ASSUME HandoffInv, NEW p \in Workers, Start(p)
  PROVE  StepOK
<1>h. worker[p] \in WorkerSet /\ row \in Row /\ GoodRow(row) /\ Keeps(row, row)
      /\ held \in Nat /\ ready \in Nat /\ crashes \in Nat
      /\ worker \in [Workers -> WorkerSet]
  BY HereType, SameKeeps DEF HandoffInv, TypeOK
<1>i. Idle \in WorkerSet /\ Idle.pc = "idle" /\ Calm(Idle)
  BY IdleType DEF Calm, Idle
<1>a. ASSUME NEW i, Calm(i), NEW mode \in {"sweep", "view", "undo", "cancel"},
             NEW v \in ViewSet, NEW pc \in {"idle", "history", "findInQueue"}
      PROVE  /\ Calm([i EXCEPT !.mode = mode, !.job = v, !.pc = pc])
             /\ Calm([i EXCEPT !.mode = mode, !.job = v])
             /\ Calm([i EXCEPT !.mode = mode])
  <2>1. pc \in PCs /\ pc \notin Hot
    BY DEF PCs, Hot
  <2>2. i \in WorkerSet /\ i.pc \notin Hot
    BY <1>a DEF Calm
  <2>3. Calm([i EXCEPT !.mode = mode, !.job = v, !.pc = pc])
    BY <2>1, <2>2 DEF Calm, WorkerSet
  <2>4. Calm([i EXCEPT !.mode = mode, !.job = v])
    BY <2>2 DEF Calm, WorkerSet
  <2>5. Calm([i EXCEPT !.mode = mode])
    BY <2>2 DEF Calm, WorkerSet
  <2> QED
    BY <2>3, <2>4, <2>5
<1>j. ASSUME NEW mode \in {"sweep", "view", "undo", "cancel"}, NEW r \in Row,
             NEW pc \in {"idle", "history", "findInQueue"}
      PROVE  /\ Calm([Idle EXCEPT !.mode = mode, !.job = View(r), !.pc = pc])
             /\ Calm([Idle EXCEPT !.mode = mode, !.job = View(r)])
             /\ Calm([Idle EXCEPT !.mode = mode])
  BY <1>a, <1>i, ViewType
<1>1. CASE Claim(p)
  BY <1>1, ClaimOK
<1>2. CASE Sweep(p)
  <2> DEFINE v == Holding([Idle EXCEPT !.mode = "sweep"], row)
  <2>1. v \in WorkerSet
    BY <1>h, <1>j, HoldingType DEF Calm
  <2>2. row.queued \in BOOLEAN /\ row.batch \in BOOLEAN
    BY <1>h DEF Row
  <2>3. Calm(Inspect(v, row.queued, row.batch))
    BY <2>1, <2>2, InspectType
  <2> QED
    BY <1>2, <2>3, ReadIntro DEF Sweep
<1>3. CASE SweepLeases(p)
  <2>1. CASE ready > 0 /\ ready' = ready - 1 /\ UNCHANGED worker
    <3>1. worker[p].pc = "idle" /\ Become(p, worker[p])
      BY <1>3, <2>1, <1>h DEF SweepLeases, At, Become
    <3>2. CalmStep(p)
      BY <1>3, <2>1, <3>1, <1>h DEF SweepLeases, CalmStep, Hot
    <3> QED
      BY <3>2, CalmIsOK
  <2>2. CASE /\ ready' = ready
             /\ Become(p, Release([Idle EXCEPT !.mode = "sweep", !.job = View(row)], "none"))
    <3>1. Calm(Release([Idle EXCEPT !.mode = "sweep", !.job = View(row)], "none"))
      BY <1>h, <1>j, ReleaseType DEF Calm
    <3> QED
      BY <1>3, <2>2, <3>1, ReadIntro DEF SweepLeases, world
  <2> QED
    BY <1>3, <2>1, <2>2 DEF SweepLeases
<1>4. CASE Poll(p)
  <2> DEFINE w == [Idle EXCEPT !.mode = "view", !.job = View(row)]
  <2>1. Calm(w)
    BY <1>h, <1>j
  <2>2. Calm([w EXCEPT !.mode = "cancel"])
    BY <1>a, <1>h, <2>1, ViewType
  <2> HIDE DEF w
  <2>3. Calm(Cancel([w EXCEPT !.mode = "cancel"])) /\ Calm(Goto(w, "history"))
    BY <2>1, <2>2, CancelType, CalmGoto DEF Calm, PCs, Hot
  <2> USE DEF w
  <2> QED
    BY <1>4, <2>3, ReadIntro DEF Poll
<1>5. CASE Recover(p)
  <2>1. PICK pc \in {"history", "findInQueue"} :
          Become(p, [Idle EXCEPT !.mode = "view", !.job = View(row), !.pc = pc])
    BY <1>5 DEF Recover
  <2>2. Calm([Idle EXCEPT !.mode = "view", !.job = View(row), !.pc = pc])
    BY <1>h, <1>j
  <2> QED
    BY <1>5, <2>1, <2>2, ReadIntro DEF Recover
<1>6. CASE RequestCancel(p)
  <2>1. Keeps(row, row')
    BY <1>6, <1>h, CancelKeeps DEF RequestCancel
  <2>2. Calm(Cancel([Idle EXCEPT !.mode = "undo", !.job = View(row')]))
    BY <2>1, <1>j, CancelType DEF Keeps, Calm
  <2> QED
    BY <1>6, <2>1, <2>2, CalmIntro DEF RequestCancel
<1>7. CASE CancelBatch(p)
  <2>1. Keeps(row, row')
    BY <1>7, <1>h, CancelKeeps DEF CancelBatch
  <2>2. Calm(Cancel([Idle EXCEPT !.mode = "cancel", !.job = View(row')]))
    BY <2>1, <1>j, CancelType DEF Keeps, Calm
  <2> QED
    BY <1>7, <2>1, <2>2, CalmIntro DEF CancelBatch
<1> QED
  BY <1>1, <1>2, <1>3, <1>4, <1>5, <1>6, <1>7 DEF Start
-----------------------------------------------------------------------------
(* Reconciliation and cancellation. *)

\* A step that leaves the hand-off alone and puts its worker where the
\* invariant says something.
LEMMA HotIntro ==
  ASSUME HandoffInv, NEW p \in Workers, NEW w \in WorkerSet, w.pc # "post",
         Become(p, w), Keeps(row, row'), comfy' = comfy, sends' = sends,
         CountsOK, PositionOK(p)'
  PROVE  StepOK
<1>1. RowKeeps /\ ComfyKeeps
  BY KeptRow
<1>2. HandoffInv'
  BY <1>1, WorkerStep
<1>3. UNCHANGED Handoff!handoff
  BY SameHandoff DEF Keeps
<1> QED
  BY <1>2, <1>3 DEF StepOK, Keeps

LEMMA SameCounts ==
  ASSUME HandoffInv, UNCHANGED <<held, ready, crashes>>
  PROVE  CountsOK
BY DEF HandoffInv, TypeOK, CountsOK

\* The prompt was found in ComfyUI.
LEMMA FoundOK ==
  ASSUME HandoffInv, NEW p \in Workers, comfy \in Accepted,
         Become(p, Goto(worker[p], "found")), UNCHANGED <<row, world>>
  PROVE  StepOK
<1>h. worker[p] \in WorkerSet /\ Keeps(row, row) /\ CountsOK
  BY HereType, SameKeeps, SameCounts DEF world
<1>1. "found" \in PCs
  BY DEF PCs
<1>2. Goto(worker[p], "found") \in WorkerSet /\ Goto(worker[p], "found").pc = "found"
  BY <1>h, <1>1, GotoType
<1>3. worker'[p].pc = "found"
  BY <1>2 DEF Become, HandoffInv, TypeOK
<1>4. PositionOK(p)'
  BY <1>3 DEF PositionOK, At, world
<1> QED
  BY <1>h, <1>2, <1>4, HotIntro DEF world

LEMMA SearchOK ==
  ASSUME HandoffInv, NEW p \in Workers,
         FindInQueue(p) \/ FindInHistory(p) \/ ReadHistory(p) \/ ReadQueue(p)
         \/ Control(p) \/ Archive(p)
  PROVE  StepOK
<1>h. worker[p] \in WorkerSet
  BY HereType
<1>c. /\ Calm(Goto(worker[p], "findInHistory")) /\ Calm(Goto(worker[p], "findOnlyInHistory"))
      /\ Calm(Goto(worker[p], "queue")) /\ Calm(Goto(worker[p], "delete"))
      /\ Calm(Goto(worker[p], "interrupt")) /\ Calm(Goto(worker[p], "history"))
      /\ Calm(Unsent(worker[p])) /\ Calm(Idle)
  BY <1>h, CalmGoto, UnsentType, IdleType DEF PCs, Hot
<1>r. Calm(Release(worker[p], "expired")) /\ Calm(Release(worker[p], "completed"))
  BY <1>h, ReleaseType DEF States, Terminal
<1>s. ASSUME NEW seen \in {"pending", "running", "success", "error", "unknown"}
      PROVE  Calm(Judge([worker[p] EXCEPT !.seen = seen]))
  <2>1. [worker[p] EXCEPT !.seen = seen] \in WorkerSet
    BY <1>h DEF WorkerSet
  <2> QED
    BY <2>1, JudgeType
<1>1. CASE FindInQueue(p)
  <2>1. CASE comfy \in {"pending", "running"} /\ Become(p, Goto(worker[p], "found"))
    BY <1>1, <2>1, FoundOK DEF FindInQueue, Accepted
  <2>2. CASE \E w : Calm(w) /\ Become(p, w)
    BY <1>1, <2>2, ReadIntro DEF FindInQueue
  <2> QED
    BY <1>1, <1>c, <2>1, <2>2 DEF FindInQueue
<1>2. CASE FindInHistory(p)
  <2>1. CASE comfy \in {"success", "error"} /\ Become(p, Goto(worker[p], "found"))
    BY <1>2, <2>1, FoundOK DEF FindInHistory, Accepted
  <2>2. CASE \E w : Calm(w) /\ Become(p, w)
    BY <1>2, <2>2, ReadIntro DEF FindInHistory
  <2> QED
    BY <1>2, <1>c, <1>r, <2>1, <2>2 DEF FindInHistory
<1>3. CASE ReadHistory(p)
  <2>1. \E w : Calm(w) /\ Become(p, w)
    BY <1>3, <1>c, <1>s DEF ReadHistory
  <2> QED
    BY <1>3, <2>1, ReadIntro DEF ReadHistory
<1>4. CASE ReadQueue(p)
  <2>1. \E w : Calm(w) /\ Become(p, w)
    BY <1>4, <1>s DEF ReadQueue
  <2> QED
    BY <1>4, <2>1, ReadIntro DEF ReadQueue
<1>5. CASE Control(p)
  <2>1. \E w : Calm(w) /\ Become(p, w)
    BY <1>5, <1>c DEF Control
  <2> QED
    BY <1>5, <2>1, ReadIntro DEF Control
<1>6. CASE Archive(p)
  BY <1>6, <1>c, <1>r, ReadIntro DEF Archive
<1> QED
  BY <1>1, <1>2, <1>3, <1>4, <1>5, <1>6

\* A control request only takes a queued prompt away or stops a running one:
\* either way ComfyUI had accepted it.
LEMMA SendControlOK ==
  ASSUME HandoffInv, NEW p \in Workers, SendControl(p)
  PROVE  StepOK
<1>h. worker[p] \in WorkerSet /\ RowOK /\ row \in Row /\ comfy \in ComfyStates
  BY HereType DEF HandoffInv, TypeOK
<1>1. [worker[p] EXCEPT !.pc = "history", !.sent = TRUE] \in WorkerSet
      /\ [worker[p] EXCEPT !.pc = "history", !.sent = TRUE].pc = "history"
  BY <1>h DEF WorkerSet, PCs
<1>2. PICK w : Calm(w) /\ Become(p, w)
  BY <1>h, <1>1, UnsentType DEF SendControl, Calm, Hot
<1>3. comfy' = comfy \/ (comfy \in {"pending", "running"} /\ comfy' \in {"gone", "error"})
  BY DEF SendControl
<1>4. ComfyKeeps /\ CountsOK
  BY <1>h, <1>3, SameCounts DEF ComfyKeeps, ComfyStates, Accepted, SendControl
<1>5. row' = row /\ RowKeeps
  BY <1>h, <1>3 DEF SendControl, RowKeeps, RowOK, Settled, Accepted
<1>6. worker'[p] = w
  BY <1>2 DEF Become, HandoffInv, TypeOK
<1>7. PositionOK(p)'
  BY <1>2, <1>6 DEF PositionOK, At, Calm, Hot
<1>8. HandoffInv'
  BY <1>2, <1>4, <1>5, <1>7, WorkerStep DEF Calm, Hot, SendControl
<1>9. UNCHANGED Handoff!handoff
  BY <1>3, <1>5 DEF Handoff!handoff
<1> QED
  BY <1>5, <1>8, <1>9 DEF StepOK, SendControl

LEMMA ReconciliationOK ==
  ASSUME HandoffInv, NEW p \in Workers,
         ConfirmCancel(p) \/ ClearCancel(p) \/ AdvanceStep(p) \/ Finish(p) \/ Crash(p)
  PROVE  StepOK
<1>h. worker[p] \in WorkerSet /\ GoodRow(row) /\ Keeps(row, row) /\ Calm(Idle)
      /\ held \in Nat /\ ready \in Nat /\ crashes \in Nat
  BY HereType, SameKeeps, IdleType
<1>k. ASSUME Keeps(row, row')
      PROVE  Holding(worker[p], row') \in WorkerSet
             /\ Calm(Reconcile(Holding(worker[p], row')))
             /\ Holding(worker[p], row').pc = worker[p].pc
             /\ Holding(worker[p], row').goal = worker[p].goal
  <2>1. Holding(worker[p], row') \in WorkerSet
        /\ Holding(worker[p], row').pc = worker[p].pc
    BY <1>h, <1>k, HoldingType DEF Keeps
  <2>2. Holding(worker[p], row').goal = worker[p].goal
    BY <1>h DEF Holding, WorkerSet
  <2> QED
    BY <2>1, <2>2, ReconcileType
<1>1. CASE ConfirmCancel(p)
  <2>1. Keeps(row, row')
    BY <1>1, <1>h, CancelKeeps DEF ConfirmCancel
  <2> QED
    BY <1>1, <1>k, <2>1, CalmIntro DEF ConfirmCancel
<1>2. CASE ClearCancel(p)
  <2>1. Keeps(row, row')
    BY <1>2, <1>h, CancelKeeps DEF ClearCancel
  <2> QED
    BY <1>2, <1>h, <1>k, <2>1, CalmIntro DEF ClearCancel
<1>3. CASE AdvanceStep(p)
  <2>1. Keeps(row, row')
    BY <1>3, <1>h, TransitionKeeps DEF AdvanceStep
  <2>2. worker[p].goal \in States \cup {"none"}
        /\ worker[p].pc \in {"advance", "requeue"}
    BY <1>3, <1>h DEF AdvanceStep, At, WorkerSet
  <2>3. Calm(Advance(Holding(worker[p], row'), worker[p].pc, worker[p].goal))
    BY <2>1, <2>2, <1>k, AdvanceType
  <2>4. \E w : Calm(w) /\ Become(p, w)
    BY <1>3, <1>h, <2>3 DEF AdvanceStep
  <2> QED
    BY <1>3, <2>1, <2>4, CalmIntro DEF AdvanceStep
<1>4. CASE Finish(p)
  <2>1. CASE row' = row /\ Become(p, Idle)
    BY <1>4, <1>h, <2>1, ReadIntro DEF Finish
  <2>2. CASE Move(p, worker[p].goal, Idle, Idle)
    BY <1>4, <1>h, <2>2, MoveIntro DEF Finish
  <2> QED
    BY <1>4, <2>1, <2>2 DEF Finish
<1>5. CASE Crash(p)
  <2>1. CalmStep(p)
    BY <1>5, <1>h DEF Crash, CalmStep, Calm
  <2> QED
    BY <2>1, CalmIsOK
<1> QED
  BY <1>1, <1>2, <1>3, <1>4, <1>5
-----------------------------------------------------------------------------
(* The submission. *)

\* Nobody is about to post while the marker is clear, and nobody else cares
\* that it is set.
LEMMA BeginOK ==
  ASSUME HandoffInv, NEW p \in Workers, Begin(p)
  PROVE  StepOK
<1>h. worker[p] \in WorkerSet /\ row \in Row /\ RowOK /\ SendsOK /\ Calm(Fail(worker[p]))
      /\ worker \in [Workers -> WorkerSet] /\ \A q \in Workers : PositionOK(q)
  BY HereType, FailType DEF HandoffInv, TypeOK
<1>1. CASE CanBegin(row, worker[p].job.token)
  <2>1. row' = Begun(row) /\ Become(p, Goto(worker[p], "post")) /\ UNCHANGED world
    BY <1>1 DEF Begin
  <2>2. /\ ~row.started /\ ~row.prompt /\ ~row.closed /\ ~row.released /\ ~row.rejected
        /\ row.state = "waiting_for_resources" /\ comfy = "absent" /\ sends = 0
    BY <1>1, <1>h DEF CanBegin, Dispatchable, RowOK, SendsOK
  <2>3. "waiting_for_resources" \notin Terminal
    BY DEF Terminal
  <2>4. row' \in Row /\ row'.started /\ row'.prompt = row.prompt
        /\ row'.closed = row.closed /\ row'.released = row.released
        /\ row'.rejected = row.rejected /\ row'.state = row.state
        /\ row'.committed = row.committed
    BY <2>1, <1>h DEF Begun, Row
  <2>5. RowOK'
    BY <2>1, <2>2, <2>3, <2>4, <1>h DEF RowOK, world
  <2>6. RowKeeps /\ ComfyKeeps /\ CountsOK
    BY <2>1, <2>2, <2>4, <2>5, SameCounts
    DEF RowKeeps, ComfyKeeps, HandoffInv, TypeOK, world
  <2>7. "post" \in PCs
    BY DEF PCs
  <2>8. Goto(worker[p], "post") \in WorkerSet /\ Goto(worker[p], "post").pc = "post"
    BY <1>h, <2>7, GotoType
  <2>9. /\ worker' \in [Workers -> WorkerSet] /\ worker'[p].pc = "post"
        /\ \A q \in Workers : q # p => worker'[q] = worker[q]
    BY <2>1, <2>8, <1>h DEF Become
  <2>10. \A q \in Workers : ~At(q, "post")
    BY <2>2, <1>h DEF PositionOK
  <2>11. \A q \in Workers : PositionOK(q)'
    <3>1. PositionOK(p)'
      BY <2>1, <2>2, <2>4, <2>9 DEF PositionOK, At, world
    <3>2. sends' = sends
      BY <2>1 DEF world
    <3> QED
      BY <3>1, <3>2, <2>6, <2>9, PositionKept
  <2>12. OnePoster'
    BY <2>9, <2>10 DEF OnePoster, At
  <2>13. TypeOK' /\ SendsOK'
    BY <2>1, <2>2, <2>6, <2>9, <1>h
    DEF TypeOK, SendsOK, RowKeeps, ComfyKeeps, CountsOK, world, HandoffInv
  <2>14. HandoffInv'
    BY <2>5, <2>11, <2>12, <2>13 DEF HandoffInv
  <2>15. UNCHANGED Handoff!handoff
    BY <2>1, <2>4, SameHandoff DEF world
  <2> QED
    BY <2>1, <2>4, <2>14, <2>15 DEF StepOK, world
<1>2. CASE ~CanBegin(row, worker[p].job.token)
  BY <1>2, <1>h, ReadIntro DEF Begin
<1> QED
  BY <1>1, <1>2

LEMMA PostOK ==
  ASSUME HandoffInv, NEW p \in Workers, Post(p)
  PROVE  StepOK
<1>h. worker[p] \in WorkerSet /\ row \in Row /\ RowOK /\ SendsOK /\ OnePoster
      /\ worker \in [Workers -> WorkerSet] /\ \A q \in Workers : PositionOK(q)
  BY HereType DEF HandoffInv, TypeOK
<1>1. At(p, "post") /\ row' = row /\ comfy' = "inflight" /\ sends' = sends + 1
      /\ Become(p, Goto(worker[p], "reply")) /\ UNCHANGED <<held, ready, crashes>>
  BY DEF Post
<1>2. row.started /\ ~row.rejected /\ ~row.prompt /\ comfy = "absent" /\ sends = 0
  BY <1>1, <1>h DEF PositionOK
<1>3. ~row.closed /\ ~row.released /\ row.state \notin Terminal
  BY <1>2, <1>h DEF RowOK, Settled
<1>4. "reply" \in PCs
  BY DEF PCs
<1>5. Goto(worker[p], "reply") \in WorkerSet /\ Goto(worker[p], "reply").pc = "reply"
  BY <1>h, <1>4, GotoType
<1>6. /\ worker' \in [Workers -> WorkerSet] /\ worker'[p].pc = "reply"
      /\ \A q \in Workers : q # p => worker'[q] = worker[q]
  BY <1>1, <1>5, <1>h DEF Become
<1>7. ASSUME NEW q \in Workers
      PROVE  PositionOK(q)' /\ ~At(q, "post")'
  <2>1. CASE q = p
    BY <2>1, <1>1, <1>6 DEF PositionOK, At
  <2>2. CASE q # p
    <3>1. ~At(q, "post") /\ PositionOK(q) /\ worker'[q] = worker[q]
      BY <2>2, <1>1, <1>6, <1>h DEF OnePoster
    <3>2. ~At(q, "reject") /\ ~At(q, "bind") /\ ~At(q, "found")
      BY <3>1, <1>2 DEF PositionOK, Accepted
    <3> QED
      BY <3>1, <3>2, <1>1 DEF PositionOK, At
  <2> QED
    BY <2>1, <2>2
<1>8. RowOK'
  BY <1>1, <1>2, <1>3, <1>h DEF RowOK
<1>9. TypeOK' /\ SendsOK' /\ OnePoster'
  <2>1. TypeOK'
    BY <1>1, <1>2, <1>6 DEF HandoffInv, TypeOK, ComfyStates
  <2>2. SendsOK'
    BY <1>1, <1>2 DEF SendsOK
  <2>3. OnePoster'
    BY <1>7 DEF OnePoster
  <2> QED
    BY <2>1, <2>2, <2>3
<1>10. HandoffInv'
  BY <1>7, <1>8, <1>9 DEF HandoffInv
<1>11. Handoff!Send
  BY <1>1, <1>2, <1>3 DEF Handoff!Send
<1> QED
  BY <1>3, <1>10, <1>11 DEF StepOK, Handoff!Next

LEMMA ReplyOK ==
  ASSUME HandoffInv, NEW p \in Workers, Reply(p)
  PROVE  StepOK
<1>h. worker[p] \in WorkerSet /\ Keeps(row, row) /\ CountsOK /\ UNCHANGED <<row, world>>
      /\ Calm(Fail(worker[p])) /\ worker \in [Workers -> WorkerSet]
  BY HereType, SameKeeps, SameCounts, FailType DEF Reply, world, HandoffInv, TypeOK
<1>1. ASSUME NEW pc \in {"bind", "reject"}, Become(p, Goto(worker[p], pc)),
             pc = "bind" => comfy \in Accepted, pc = "reject" => comfy = "refused"
      PROVE  StepOK
  <2>1. pc \in PCs
    BY DEF PCs
  <2>2. Goto(worker[p], pc) \in WorkerSet /\ Goto(worker[p], pc).pc = pc
    BY <1>h, <2>1, GotoType
  <2>3. worker'[p].pc = pc
    BY <1>1, <1>h, <2>2 DEF Become
  <2>4. PositionOK(p)'
    BY <1>1, <1>h, <2>3 DEF PositionOK, At, world
  <2> QED
    BY <1>1, <1>h, <2>2, <2>4, HotIntro DEF world
<1>2. CASE Become(p, Fail(worker[p]))
  BY <1>2, <1>h, ReadIntro
<1> QED
  BY <1>1, <1>2 DEF Reply

\* Recording a refusal or a prompt: the row changes, ComfyUI does not, and the
\* worker goes where the invariant asks nothing.
LEMMA RecordIntro ==
  ASSUME HandoffInv, NEW p \in Workers, NEW w, Calm(w), Become(p, w),
         UNCHANGED world, row' \in Row, RowOK',
         row'.started = row.started, row'.closed = row.closed,
         row'.released = row.released, row'.state = row.state,
         row.prompt \/ row.rejected \/ comfy = "refused" \/ comfy \in Accepted,
         row'.prompt \/ row'.rejected
  PROVE  StepOK
<1>1. RowKeeps /\ ComfyKeeps /\ CountsOK /\ comfy \in ComfyStates /\ row \in Row
  BY SameCounts DEF RowKeeps, ComfyKeeps, HandoffInv, TypeOK, world
<1>2. worker'[p] = w
  BY DEF Become, HandoffInv, TypeOK
<1>3. PositionOK(p)'
  BY <1>2 DEF PositionOK, At, Calm, Hot
<1>4. HandoffInv'
  BY <1>1, <1>3, WorkerStep DEF Calm, Hot, world
<1>5. [Handoff!Next]_(Handoff!handoff)
  <2>1. CASE row.prompt \/ row.rejected
    BY <2>1 DEF Handoff!handoff, world
  <2>2. CASE ~(row.prompt \/ row.rejected)
    <3>1. comfy = "refused" \/ comfy \in Accepted
      BY <2>2
    <3>2. Handoff!Record
      BY <2>2, <3>1 DEF Handoff!Record, Handoff!Decided, Accepted, world
    <3> QED
      BY <3>2 DEF Handoff!Next
  <2> QED
    BY <2>1, <2>2
<1> QED
  BY <1>4, <1>5 DEF StepOK, world

LEMMA RejectOK ==
  ASSUME HandoffInv, NEW p \in Workers, Reject(p)
  PROVE  StepOK
<1>h. worker[p] \in WorkerSet /\ row \in Row /\ RowOK /\ PositionOK(p)
      /\ Calm(Fail(worker[p])) /\ Calm(Idle)
  BY HereType, FailType, IdleType DEF HandoffInv, TypeOK
<1>1. CASE CanReject(row, worker[p].job.token)
  <2>1. row' = Rejected(row) /\ Become(p, Fail(worker[p])) /\ UNCHANGED world
        /\ comfy = "refused" /\ row.started
    BY <1>1, <1>h DEF Reject, PositionOK, CanReject
  <2>2. row' \in Row /\ row'.started = row.started /\ row'.closed = row.closed
        /\ row'.released = row.released /\ row'.state = row.state
        /\ row'.prompt = row.prompt /\ row'.rejected /\ row'.committed = row.committed
    BY <2>1, <1>h DEF Rejected, Row
  <2>3. RowOK'
    BY <2>1, <2>2, <1>h DEF RowOK, Settled, world
  <2> QED
    BY <2>1, <2>2, <2>3, <1>h, RecordIntro
<1>2. CASE ~CanReject(row, worker[p].job.token)
  BY <1>2, <1>h, ReadIntro DEF Reject
<1> QED
  BY <1>1, <1>2

LEMMA BindOK ==
  ASSUME HandoffInv, NEW p \in Workers, Bind(p)
  PROVE  StepOK
<1>h. worker[p] \in WorkerSet /\ row \in Row /\ RowOK /\ PositionOK(p)
  BY HereType DEF HandoffInv, TypeOK
<1>1. row' = Bound(row) /\ UNCHANGED world /\ comfy \in Accepted
  BY <1>h DEF Bind, PositionOK
<1>2. PICK pc \in {"charge", "recharge"} : Become(p, Holding(Goto(worker[p], pc), row'))
  BY DEF Bind
<1>3. row.started /\ ~row.rejected
  BY <1>1, <1>h DEF RowOK, Accepted
<1>4. row' \in Row /\ row'.started = row.started /\ row'.closed = row.closed
      /\ row'.released = row.released /\ row'.state = row.state
      /\ row'.prompt /\ row'.rejected = row.rejected /\ row'.committed = row.committed
  BY <1>1, <1>h DEF Bound, Row
<1>5. RowOK'
  BY <1>1, <1>3, <1>4, <1>h DEF RowOK, Settled, world
<1>6. Calm(Goto(worker[p], pc))
  BY <1>h, CalmGoto DEF PCs, Hot
<1>7. Calm(Holding(Goto(worker[p], pc), row'))
  BY <1>4, <1>6, HoldingType DEF Calm
<1> QED
  BY <1>1, <1>2, <1>4, <1>5, <1>7, RecordIntro

-----------------------------------------------------------------------------
(* The release of the resources. *)

LEMMA FenceOK ==
  ASSUME HandoffInv, NEW p \in Workers, Fence(p)
  PROVE  StepOK
<1>h. worker[p] \in WorkerSet /\ row \in Row /\ RowOK /\ Calm(Idle)
      /\ worker \in [Workers -> WorkerSet] /\ comfy \in ComfyStates
  BY HereType, IdleType DEF HandoffInv, TypeOK
<1>1. CASE CanFence(row, worker[p].job.token)
  <2>1. row' = Fenced(row) /\ Become(p, Goto(worker[p], "refund")) /\ UNCHANGED world
        /\ Settled(row)
    BY <1>1 DEF Fence, CanFence
  <2>2. row' \in Row /\ row'.started = row.started /\ row'.closed
        /\ row'.released = row.released /\ row'.state = row.state
        /\ row'.prompt = row.prompt /\ row'.rejected = row.rejected
        /\ row'.committed = row.committed
    BY <2>1, <1>h DEF Fenced, Row, NoToken
  <2>3. RowOK'
    BY <2>1, <2>2, <1>h DEF RowOK, Settled, world
  <2>4. RowKeeps /\ ComfyKeeps /\ CountsOK
    BY <2>1, <2>2, <2>3, <1>h, SameCounts DEF RowKeeps, ComfyKeeps, world
  <2>5. Goto(worker[p], "refund") \in WorkerSet /\ Goto(worker[p], "refund").pc = "refund"
    BY <1>h, GotoType DEF PCs
  <2>6. worker'[p].pc = "refund"
    BY <2>1, <2>5, <1>h DEF Become
  <2>7. PositionOK(p)'
    BY <2>2, <2>6 DEF PositionOK, At
  <2>8. HandoffInv'
    BY <2>1, <2>4, <2>5, <2>7, WorkerStep DEF world
  <2>9. [Handoff!Next]_(Handoff!handoff)
    <3>1. CASE row.closed
      BY <3>1, <2>1, <2>2 DEF Handoff!handoff, world
    <3>2. CASE ~row.closed
      <4>1. row.prompt \/ row.rejected \/ comfy = "absent"
        BY <2>1, <1>h DEF Settled, RowOK
      <4>2. Handoff!LetGo
        BY <3>2, <4>1, <2>1, <2>2 DEF Handoff!LetGo, world
      <4> QED
        BY <4>2 DEF Handoff!Next
    <3> QED
      BY <3>1, <3>2
  <2> QED
    BY <2>1, <2>2, <2>8, <2>9 DEF StepOK, world
<1>2. CASE ~CanFence(row, worker[p].job.token)
  BY <1>2, <1>h, ReadIntro DEF Fence
<1> QED
  BY <1>1, <1>2

LEMMA ReleaseOK ==
  ASSUME HandoffInv, NEW p \in Workers, Refund(p) \/ Resume(p) \/ Mark(p)
  PROVE  StepOK
<1>h. worker[p] \in WorkerSet /\ GoodRow(row) /\ row \in Row /\ RowOK /\ Keeps(row, row)
      /\ Calm(Idle) /\ worker \in [Workers -> WorkerSet] /\ PositionOK(p)
      /\ held \in Nat /\ ready \in Nat /\ crashes \in Nat /\ comfy \in ComfyStates
  BY HereType, IdleType, SameKeeps DEF HandoffInv, TypeOK
<1>c. row.closed
  BY <1>h DEF PositionOK, At, Refund, Resume, Mark
<1>g. ASSUME NEW pc \in {"resume", "mark", "finish"}
      PROVE  Goto(worker[p], pc) \in WorkerSet /\ Goto(worker[p], pc).pc = pc
  <2>1. pc \in PCs
    BY DEF PCs
  <2> QED
    BY <1>h, <2>1, GotoType
<1>m. ASSUME NEW pc \in {"resume", "mark"}, Become(p, Goto(worker[p], pc)), row'.closed
      PROVE  PositionOK(p)'
  <2>1. worker'[p].pc = pc
    BY <1>m, <1>g, <1>h DEF Become
  <2> QED
    BY <2>1, <1>m DEF PositionOK, At
<1>1. CASE Refund(p)
  <2>1. Keeps(row, row') /\ Become(p, Goto(worker[p], "resume")) /\ UNCHANGED world
    BY <1>1, <1>h, StoreKeeps DEF Refund
  <2>2. PositionOK(p)'
    BY <2>1, <1>c, <1>m DEF Keeps
  <2> QED
    BY <2>1, <2>2, <1>g, SameCounts, HotIntro DEF world
<1>2. CASE Resume(p)
  <2>1. row' = row /\ comfy' = comfy /\ sends' = sends /\ CountsOK
    BY <1>2, <1>h DEF Resume, CountsOK
  <2>2. CASE Become(p, Goto(worker[p], "mark"))
    BY <2>1, <2>2, <1>c, <1>g, <1>h, <1>m, HotIntro
  <2>3. CASE Become(p, Idle)
    <3>1. CalmStep(p)
      BY <2>1, <2>3, <1>h DEF CalmStep, CountsOK, Calm
    <3> QED
      BY <3>1, CalmIsOK
  <2> QED
    BY <1>2, <2>2, <2>3 DEF Resume
<1>3. CASE Mark(p)
  <2>1. CASE row' = Released(row)
             /\ Become(p, Holding(Goto(worker[p], "finish"), row'))
    <3>1. row' \in Row /\ row'.started = row.started /\ row'.closed = row.closed
          /\ row'.released /\ row'.state = row.state /\ row'.prompt = row.prompt
          /\ row'.rejected = row.rejected /\ row'.committed = row.committed
      BY <2>1, <1>h DEF Released, Row
    <3>2. UNCHANGED world
      BY <1>3 DEF Mark
    <3>3. RowOK'
      BY <3>1, <3>2, <1>c, <1>h DEF RowOK, Settled, world
    <3>4. RowKeeps /\ ComfyKeeps /\ CountsOK
      BY <3>1, <3>2, <3>3, <1>h, SameCounts DEF RowKeeps, ComfyKeeps, world
    <3>5. Holding(Goto(worker[p], "finish"), row') \in WorkerSet
          /\ Holding(Goto(worker[p], "finish"), row').pc = "finish"
      BY <1>g, <3>1, HoldingType
    <3>6. worker'[p].pc = "finish"
      BY <2>1, <3>5, <1>h DEF Become
    <3>7. PositionOK(p)'
      BY <3>1, <3>6, <1>c DEF PositionOK, At
    <3>8. HandoffInv'
      BY <2>1, <3>2, <3>4, <3>5, <3>7, WorkerStep DEF world
    <3>9. UNCHANGED Handoff!handoff
      BY <3>1, <3>2, SameHandoff DEF world
    <3> QED
      BY <3>1, <3>2, <3>8, <3>9 DEF StepOK, world
  <2>2. CASE row' = row /\ Become(p, Idle)
    BY <1>3, <2>2, <1>h, ReadIntro DEF Mark
  <2> QED
    BY <1>3, <2>1, <2>2 DEF Mark
<1> QED
  BY <1>1, <1>2, <1>3

-----------------------------------------------------------------------------
(* The world, and the whole. *)

LEMMA WorldOK ==
  ASSUME HandoffInv, Ages \/ LeaseTimesOut \/ OwnerLeaves \/ Comfy
  PROVE  StepOK
<1>h. row \in Row /\ GoodRow(row) /\ RowOK /\ comfy \in ComfyStates
      /\ held \in Nat /\ ready \in Nat /\ crashes \in Nat
  BY DEF HandoffInv, TypeOK, RowOK, GoodRow
<1>k. ASSUME Keeps(row, row'), UNCHANGED <<worker, comfy, sends>>, CountsOK
      PROVE  StepOK
  <2>1. RowKeeps /\ ComfyKeeps
    BY <1>k, KeptRow
  <2>2. HandoffInv'
    BY <1>k, <2>1, WorldStep
  <2>3. UNCHANGED Handoff!handoff
    BY <1>k, SameHandoff DEF Keeps
  <2> QED
    BY <1>k, <2>2, <2>3 DEF StepOK, Keeps
<1>1. CASE Ages
  <2>1. row.age + 1 \in Elapsed
    BY <1>1, <1>h DEF Ages, Row, Elapsed
  <2>2. ASSUME NEW a \in Elapsed PROVE Keeps(row, [row EXCEPT !.age = a])
    BY <1>h DEF Keeps, Row, GoodRow
  <2>3. Keeps(row, row')
    BY <1>1, <2>1, <2>2 DEF Ages
  <2> QED
    BY <1>1, <1>k, <2>3, SameCounts DEF Ages, world
<1>2. CASE LeaseTimesOut
  <2>1. Keeps(row, row')
    BY <1>2, <1>h DEF LeaseTimesOut, Keeps, Row, GoodRow
  <2> QED
    BY <1>2, <1>k, <2>1, SameCounts DEF LeaseTimesOut, world
<1>3. CASE OwnerLeaves
  <2>1. Keeps(row, row')
    BY <1>3, <1>h DEF OwnerLeaves, Keeps, Row, GoodRow
  <2>2. CountsOK
    BY <1>3, <1>h DEF OwnerLeaves, CountsOK
  <2> QED
    BY <1>3, <1>k, <2>1, <2>2 DEF OwnerLeaves
<1>4. CASE Comfy
  <2>1. UNCHANGED <<row, worker, held, ready, sends, crashes>>
        /\ comfy \in {"inflight", "pending", "running", "success", "error"}
        /\ comfy' \in ComfySteps[comfy]
    BY <1>4 DEF Comfy, ComfySteps
  <2>2. \/ comfy = "inflight" /\ comfy' \in {"pending", "refused", "lost"}
        \/ comfy \in Accepted /\ comfy' \in Accepted
    BY <2>1 DEF ComfySteps, Accepted
  <2>3. ComfyKeeps
    BY <2>2 DEF ComfyKeeps, ComfyStates, Accepted
  <2>4. RowKeeps
    BY <1>h, <2>1, <2>2 DEF RowKeeps, RowOK, Settled, Accepted
  <2>5. HandoffInv'
    BY <2>1, <2>3, <2>4, SameCounts, WorldStep
  <2>6. [Handoff!Next]_(Handoff!handoff)
    <3>1. CASE comfy = "inflight" /\ comfy' \in {"pending", "refused"}
      <4>1. Handoff!Decide
        BY <2>1, <3>1 DEF Handoff!Decide, Handoff!Decided
      <4> QED
        BY <4>1 DEF Handoff!Next
    <3>2. CASE comfy = "inflight" /\ comfy' = "lost"
      BY <2>1, <3>2 DEF Handoff!handoff
    <3>3. CASE comfy \in Accepted /\ comfy' \in Accepted
      BY <2>1, <3>3 DEF Handoff!handoff, Accepted
    <3> QED
      BY <2>2, <3>1, <3>2, <3>3
  <2> QED
    BY <2>1, <2>5, <2>6 DEF StepOK
<1> QED
  BY <1>1, <1>2, <1>3, <1>4

LEMMA NextOK == ASSUME HandoffInv, [Next]_vars PROVE StepOK
<1>1. ASSUME NEW p \in Workers, Work(p) PROVE StepOK
  BY <1>1, PreparationOK, DispatchOK, BeginOK, PostOK, ReplyOK, RejectOK, BindOK,
     FenceOK, ReleaseOK, SearchOK, SendControlOK, ReconciliationOK DEF Work
<1>2. ASSUME NEW p \in Workers, Start(p) \/ Crash(p) PROVE StepOK
  BY <1>2, StartOK, ReconciliationOK
<1>3. CASE UNCHANGED vars
  <2>1. HandoffInv'
    BY <1>3 DEF vars, HandoffInv, TypeOK, PositionOK, At, OnePoster, RowOK, SendsOK,
                Settled
  <2>2. UNCHANGED Handoff!handoff
    BY <1>3, SameHandoff DEF vars
  <2> QED
    BY <1>3, <2>1, <2>2 DEF StepOK, vars
<1> QED
  BY <1>1, <1>2, <1>3, WorldOK DEF Next

LEMMA InitOK == ASSUME Init PROVE HandoffInv /\ Handoff!Init
<1>1. PICK batch \in BOOLEAN : row = NewRow(batch)
  BY FaultsAssumption DEF Init
<1>2. row \in Row
  BY <1>1, NewRowType
<1>3. /\ row.state = "draft" /\ ~row.started /\ ~row.rejected /\ ~row.prompt
      /\ ~row.closed /\ ~row.released /\ ~row.committed
  BY <1>1 DEF NewRow
<1>4. "draft" \notin Terminal
  BY DEF Terminal
<1>5. ASSUME NEW i, NEW v \in ViewSet, Calm(i)
      PROVE  Calm([i EXCEPT !.pc = "launch", !.mode = "dispatch", !.job = v])
  <2>1. "launch" \in PCs \ Hot /\ "dispatch" \in Modes
    BY DEF PCs, Hot, Modes
  <2>2. [i EXCEPT !.pc = "launch", !.mode = "dispatch", !.job = v]
        = Charged(i, "launch", "dispatch", v)
    BY DEF Charged
  <2>3. Calm(Charged(i, "launch", "dispatch", v))
    BY <1>5, <2>1, JobTurn DEF Calm
  <2> QED
    BY ONLY <2>2, <2>3
<1>6. \A p \in Workers : Calm(worker[p])
  BY <1>2, <1>5, ViewType, IdleType DEF Init
<1>7. worker \in [Workers -> WorkerSet]
  <2>1. worker = [p \in Workers |-> worker[p]]
    BY DEF Init
  <2> QED
    BY <2>1, <1>6 DEF Calm
<1>8. TypeOK
  BY <1>2, <1>7 DEF Init, TypeOK, ComfyStates
<1>9. (\A p \in Workers : PositionOK(p)) /\ OnePoster
  BY <1>6 DEF Calm, Hot, PositionOK, OnePoster, At
<1>10. RowOK /\ SendsOK
  BY <1>3, <1>4 DEF RowOK, SendsOK, Init
<1>11. Handoff!Init
  BY <1>3 DEF Handoff!Init, Init
<1> QED
  BY <1>8, <1>9, <1>10, <1>11 DEF HandoffInv

\* The protocol state of the hand-off is as HandoffInv says in every state,
\* through every step of the handlers, the dispatch, the sweeps and the world.
THEOREM HandoffInvariant == Spec => []HandoffInv
<1>1. Init => HandoffInv
  BY InitOK
<1>2. HandoffInv /\ [Next]_vars => HandoffInv'
  BY NextOK DEF StepOK
<1> QED
  BY <1>1, <1>2, PTL DEF Spec

\* The row and the call stacks keep their types.
THEOREM Typed == Spec => []TypeOK
<1>1. HandoffInv => TypeOK
  BY DEF HandoffInv
<1> QED
  BY <1>1, HandoffInvariant, PTL

\* A job is posted to ComfyUI at most once, however many workers claim it,
\* crash or come back late.
THEOREM OneSend == Spec => []AtMostOneSend
<1>1. HandoffInv => AtMostOneSend
  BY DEF HandoffInv, SendsOK, AtMostOneSend
<1> QED
  BY <1>1, HandoffInvariant, PTL

\* Behind the fence of a resource release there is no open submission.
THEOREM ClosedSettled == Spec => []ClosedIsSettled
<1>1. HandoffInv => ClosedIsSettled
  BY DEF HandoffInv, RowOK, Settled, ClosedIsSettled
<1> QED
  BY <1>1, HandoffInvariant, PTL

\* Quota is charged only for a prompt ComfyUI accepted.
THEOREM ChargedAccepted == Spec => []ChargedWasAccepted
<1>1. HandoffInv => ChargedWasAccepted
  BY DEF HandoffInv, RowOK, ChargedWasAccepted
<1> QED
  BY <1>1, HandoffInvariant, PTL

\* No worker with an old copy of the job revives or resends a finished one.
THEOREM EndsAreFinal == Spec => TerminalIsFinal
<1>1. HandoffInv /\ [Next]_vars
        => (row.state \in Terminal => row'.state = row.state /\ sends' = sends)
  BY NextOK DEF StepOK
<1> QED
  BY <1>1, HandoffInvariant, PTL DEF Spec, TerminalIsFinal

\* The dispatch implements GenerationHandoff: Post sends, ComfyUI decides,
\* Bind and Reject record, Fence lets go, and every other step stutters.
THEOREM HandoffRefined == Spec => HandoffSpec
<1>1. Init => Handoff!Init
  BY InitOK
<1>2. HandoffInv /\ [Next]_vars => [Handoff!Next]_(Handoff!handoff)
  BY NextOK DEF StepOK
<1> QED
  BY <1>1, <1>2, HandoffInvariant, PTL DEF Spec, HandoffSpec, Handoff!Spec
=============================================================================
