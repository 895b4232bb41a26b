---------------------- MODULE GenerationStopProofs ----------------------
(***************************************************************************)
(* A finished job has nothing left in ComfyUI, as long as ComfyUI answers, *)
(* the owner stays and no dispatch outlives its lease (Answering).         *)
(* Without that it does not hold: a job whose reply was lost may end while *)
(* its prompt runs.                                                        *)
(*                                                                         *)
(* StopInv says what every worker that closes the hand-off relies on: that *)
(* nothing runs, that the job was cancelled before it began, that it is    *)
(* the one dispatcher of the job, or that the launch gave the job up.      *)
(***************************************************************************)
EXTENDS GenerationEndProofs

Answering == Faults \subseteq {"forget", "agent"}

Stopped == {"refused", "lost", "success", "error", "gone"}
PreBegin == {"launch", "check", "prepare", "wait", "reserve", "publish", "reread", "admit",
             "postpone", "pause", "begin"}
LauncherPlaces == {"launch", "check", "prepare", "wait", "reserve", "publish", "fence",
                   "refund", "resume", "mark", "finish"}
Prompted == {"history", "queue", "control", "delete", "interrupt", "advance", "requeue",
             "recharge"}

\* Nothing of the job runs, or it was cancelled before it began.
Halted(r, c) == c \in Stopped \/ (r.cancelReq /\ ~r.started)

\* The launch ended without publishing the job, and it is nobody's batch child: no
\* dispatcher will ever claim it.
LaunchOver == \A q \in Launchers : At(q, "idle")
Unlaunched(r, over) == ~r.queued /\ ~r.batch /\ over

\* What entitles a worker to close the hand-off.
FenceSafe(w, r, c, over) ==
  Halted(r, c) \/ r.closed \/ Unlaunched(r, over) \/ (w.mode = "dispatch" /\ ~r.started)

\* What a worker remembers is still so, however old its copy of the job; and a dispatcher
\* holds the lease until somebody closes the hand-off.
Knows(p, w, r, c, over) ==
  /\ w.job.owner
  /\ w.job.prompt => r.prompt
  /\ w.job.cancelConf => Halted(r, c)
  /\ w.old > 0 => over
  /\ w.seen # "none" => r.prompt
  /\ w.seen = "unknown" => c \in Stopped
  /\ w.seen = "success" => c \in Produced
  /\ w.seen = "error" => c \in {"error", "gone"}
  /\ w.mode = "dispatch" /\ p \notin Launchers => r.closed \/ (r.lease = "live" /\ r.queued)

\* What brought it where it is still holds too.
Placed(p, w, r, c, over) ==
  /\ p \in Launchers /\ w.pc # "idle" =>
       /\ w.mode = "dispatch" /\ w.pc \in LauncherPlaces
       /\ ~r.batch /\ (r.closed \/ ~r.queued)
       /\ w.pc = "check" => w.job.state = "preparing"
  /\ w.mode = "dispatch" => w.pc # "idle"
  /\ w.pc \in PreBegin => w.mode = "dispatch" /\ (r.closed \/ ~r.started)
  /\ w.pc \in Launching => p \in Launchers
  /\ w.pc \in Prompted => r.prompt
  /\ w.pc \in {"recharge", "requeue"} => w.job.prompt
  /\ w.pc = "confirm" => Halted(r, c)
  /\ w.pc # "clearUnsent"
  /\ w.pc = "clear" => c \in {"success", "error", "gone"}
  /\ w.pc = "fence" => FenceSafe(w, r, c, over)
  /\ w.mode = "sweep" /\ w.pc \in {"findInQueue", "findInHistory"}
     /\ ~w.job.started /\ w.old > 0 => r.closed \/ Unlaunched(r, over)

Fit(p, w, r, c, over) == Knows(p, w, r, c, over) /\ Placed(p, w, r, c, over)

RowFit(r, c, over) ==
  /\ r.owner
  /\ r.closed => c \notin Busy
  /\ r.token # NoToken => r.queued
  /\ r.started => r.queued \/ r.closed
  /\ r.batch /\ r.state # "draft" => r.queued \/ r.closed
  /\ r.age > 0 => over
  /\ r.cancelConf => Halted(r, c)

\* Two workers prepare or submit the job at once only behind a closed hand-off, where
\* they achieve nothing.
Exclusive ==
  \A p, q \in Workers :
    p # q /\ worker[p].mode = "dispatch" /\ worker[q].mode = "dispatch" => row.closed

StopInv ==
  /\ RowFit(row, comfy, LaunchOver) /\ Exclusive
  /\ \A p \in Workers : Fit(p, worker[p], row, comfy, LaunchOver)

-----------------------------------------------------------------------------
(* What a step owes the workers that do not move. *)

Steady(r, s, c, d, over, next) ==
  /\ s.batch = r.batch
  /\ r.closed => s.closed
  /\ r.prompt => s.prompt
  /\ c \in Stopped => d \in Stopped
  /\ c \in Produced => d \in Produced
  /\ c \in {"error", "gone"} => d \in {"error", "gone"}
  /\ Halted(r, c) => Halted(s, d)
  /\ Unlaunched(r, over) => s.closed \/ Unlaunched(s, next)
  /\ over => next

DispatchKept(p, w, r, s) ==
  w.mode = "dispatch" /\ ~s.closed =>
    /\ ~r.started => ~s.started
    /\ p \in Launchers /\ ~r.queued => ~s.queued
    /\ p \notin Launchers /\ r.lease = "live" /\ r.queued => s.lease = "live" /\ s.queued

LEMMA FitKept ==
  ASSUME NEW p, NEW w, NEW r, NEW s, NEW c, NEW d,
         NEW over \in BOOLEAN, NEW next \in BOOLEAN,
         Fit(p, w, r, c, over), Steady(r, s, c, d, over, next), DispatchKept(p, w, r, s)
  PROVE  Fit(p, w, s, d, next)
<1>1. Knows(p, w, s, d, next)
  BY DEF Fit, Knows, Steady, DispatchKept
<1>2. w.pc = "fence" => FenceSafe(w, s, d, next)
  BY DEF Fit, Placed, FenceSafe, Steady, DispatchKept
<1>3. w.pc = "clear" => d \in {"success", "error", "gone"}
  BY DEF Fit, Placed, Steady, Produced
<1>4. w.pc \in PreBegin => w.mode = "dispatch" /\ (s.closed \/ ~s.started)
  BY DEF Fit, Placed, Steady, DispatchKept
<1>5. p \in Launchers /\ w.pc # "idle" =>
        /\ w.mode = "dispatch" /\ w.pc \in LauncherPlaces
        /\ ~s.batch /\ (s.closed \/ ~s.queued)
        /\ w.pc = "check" => w.job.state = "preparing"
  BY DEF Fit, Placed, Steady, DispatchKept
<1>6. w.mode = "sweep" /\ w.pc \in {"findInQueue", "findInHistory"}
      /\ ~w.job.started /\ w.old > 0 => s.closed \/ Unlaunched(s, next)
  BY DEF Fit, Placed, Steady
<1>7. w.pc = "confirm" => Halted(s, d)
  BY DEF Fit, Placed, Steady
<1>8. /\ w.mode = "dispatch" => w.pc # "idle"
      /\ w.pc \in Launching => p \in Launchers
      /\ w.pc \in Prompted => s.prompt
      /\ w.pc \in {"recharge", "requeue"} => w.job.prompt
      /\ w.pc # "clearUnsent"
  BY DEF Fit, Placed, Steady
<1> QED
  BY <1>1, <1>2, <1>3, <1>4, <1>5, <1>6, <1>7, <1>8 DEF Fit, Placed

\* What a step of worker p owes: the row, its own place, and the others.
StopStep(p) ==
  /\ At(p, "idle") => p \notin Launchers
  /\ RowFit(row', comfy', LaunchOver)
  /\ Steady(row, row', comfy, comfy', LaunchOver, LaunchOver)
  /\ \E w : /\ Become(p, w) /\ Fit(p, w, row', comfy', LaunchOver)
            /\ \A q \in Workers : q # p =>
                 /\ DispatchKept(q, worker[q], row, row')
                 /\ w.mode = "dispatch" /\ worker[q].mode = "dispatch" => row'.closed

LEMMA StopStepKeeps ==
  ASSUME HandoffInv, StopInv, NEW p \in Workers, StopStep(p)
  PROVE  StopInv'
<1>1. PICK w : /\ Become(p, w) /\ Fit(p, w, row', comfy', LaunchOver)
               /\ \A q \in Workers : q # p =>
                    /\ DispatchKept(q, worker[q], row, row')
                    /\ w.mode = "dispatch" /\ worker[q].mode = "dispatch" => row'.closed
  BY DEF StopStep
<1>2. worker'[p] = w /\ \A q \in Workers : q # p => worker'[q] = worker[q]
  BY <1>1, OnlyOneMoves
<1>3. LaunchOver => LaunchOver'
  BY <1>2 DEF LaunchOver, At, StopStep, Workers
<1>4. LaunchOver \in BOOLEAN /\ LaunchOver' \in BOOLEAN
  BY DEF LaunchOver
<1>5. ASSUME NEW q \in Workers PROVE Fit(q, worker'[q], row', comfy', LaunchOver')
  <2>1. CASE q = p
    <3>1. Steady(row', row', comfy', comfy', LaunchOver, LaunchOver')
          /\ DispatchKept(p, w, row', row')
      BY <1>3 DEF Steady, DispatchKept, Unlaunched
    <3> QED
      BY <1>1, <1>2, <1>4, <2>1, <3>1, FitKept
  <2>2. CASE q # p
    <3>1. Fit(q, worker[q], row, comfy, LaunchOver)
          /\ DispatchKept(q, worker[q], row, row') /\ worker'[q] = worker[q]
      BY <1>1, <1>2, <2>2 DEF StopInv
    <3>2. Steady(row, row', comfy, comfy', LaunchOver, LaunchOver')
      BY <1>3 DEF StopStep, Steady, Unlaunched
    <3> QED
      BY <1>4, <3>1, <3>2, FitKept
  <2> QED
    BY <2>1, <2>2
<1>6. RowFit(row', comfy', LaunchOver')
  BY <1>3 DEF StopStep, RowFit
<1>7. Exclusive'
  <2> SUFFICES ASSUME NEW a \in Workers, NEW b \in Workers, a # b,
                      worker'[a].mode = "dispatch", worker'[b].mode = "dispatch"
               PROVE  row'.closed
    BY DEF Exclusive
  <2>1. CASE a # p /\ b # p
    BY <1>2, <2>1 DEF StopInv, Exclusive, StopStep, Steady
  <2>2. CASE a = p \/ b = p
    BY <1>1, <1>2, <2>2
  <2> QED
    BY <2>1, <2>2
<1> QED
  BY <1>5, <1>6, <1>7 DEF StopInv

-----------------------------------------------------------------------------
(* Where the answers of the store and of ComfyUI send a worker that is not a *)
(* launch.                                                                   *)

\* A worker that remembers rightly, wherever it is.
Apt(p, w, r, c, over) == p \notin Launchers /\ w \in WorkerSet /\ Knows(p, w, r, c, over)

\* A row that is as it should be.
Sound(r, c, over) ==
  r \in Row /\ RowFit(r, c, over) /\ (r.rejected => c = "refused") /\ over \in BOOLEAN

\* Places that say nothing.
Free == {"post", "reply", "reject", "bind", "charge", "enqueued", "found",
         "findOnlyInHistory", "refund", "resume", "mark", "finish", "archive"}

LEMMA IdleFit ==
  ASSUME NEW p, NEW r, NEW c, NEW over PROVE Fit(p, Idle, r, c, over)
<1>1. ASSUME NEW v, v.owner, ~v.prompt, ~v.cancelConf, NEW w,
             w = [pc |-> "idle", mode |-> "none", goal |-> "none", seen |-> "none",
                  sent |-> FALSE, job |-> v, old |-> 0]
      PROVE  Fit(p, w, r, c, over)
  BY <1>1 DEF Fit, Knows, Placed, PreBegin, Prompted, Launching
<1>2. /\ View(NewRow(FALSE)).owner /\ ~View(NewRow(FALSE)).prompt
      /\ ~View(NewRow(FALSE)).cancelConf
  BY DEF View, NewRow
<1> DEFINE v == View(NewRow(FALSE))
<1>3. Idle = [pc |-> "idle", mode |-> "none", goal |-> "none", seen |-> "none",
              sent |-> FALSE, job |-> v, old |-> 0]
  BY DEF Idle
<1> HIDE DEF v
<1> QED
  BY <1>1, <1>2, <1>3 DEF v

LEMMA FreeFit ==
  ASSUME NEW p, NEW w, NEW r, NEW c, NEW over, Apt(p, w, r, c, over), w.pc \in Free
  PROVE  Fit(p, w, r, c, over)
BY DEF Apt, Fit, Placed, Free, PreBegin, Prompted, Launching

LEMMA GotoApt ==
  ASSUME NEW p, NEW w, NEW r, NEW c, NEW over, Apt(p, w, r, c, over), NEW pc \in PCs
  PROVE  Apt(p, Goto(w, pc), r, c, over) /\ Goto(w, pc).pc = pc
BY DEF Apt, Knows, Goto, WorkerSet

LEMMA GotoFree ==
  ASSUME NEW p, NEW w, NEW r, NEW c, NEW over, Apt(p, w, r, c, over), NEW pc \in Free
  PROVE  Fit(p, Goto(w, pc), r, c, over)
<1>1. pc \in PCs
  BY DEF Free, PCs
<1> QED
  BY <1>1, GotoApt, FreeFit

LEMMA GotoPrompted ==
  ASSUME NEW p, NEW w, NEW r, NEW c, NEW over, Apt(p, w, r, c, over), r.prompt,
         NEW pc \in Prompted, pc \in {"recharge", "requeue"} => w.job.prompt
  PROVE  Fit(p, Goto(w, pc), r, c, over)
<1>1. pc \in PCs
  BY DEF Prompted, PCs
<1>2. Apt(p, Goto(w, pc), r, c, over) /\ Goto(w, pc).pc = pc
      /\ Goto(w, pc).job = w.job /\ Goto(w, pc).mode = w.mode
  BY <1>1, GotoApt, GotoType DEF Apt
<1>3. pc \notin PreBegin /\ pc \notin Launching /\ pc # "idle" /\ pc # "confirm"
      /\ pc # "clearUnsent" /\ pc # "clear" /\ pc # "fence"
      /\ pc \notin {"findInQueue", "findInHistory"}
  BY DEF Prompted, PreBegin, Launching
<1> QED
  BY <1>2, <1>3 DEF Apt, Fit, Placed

LEMMA ReleaseFit ==
  ASSUME NEW p, NEW w, NEW r, NEW c, NEW over, Apt(p, w, r, c, over),
         FenceSafe(w, r, c, over), NEW goal \in States \cup {"none"}
  PROVE  Fit(p, Release(w, goal), r, c, over)
<1>1. /\ Release(w, goal) \in WorkerSet /\ Release(w, goal).pc = "fence"
      /\ Release(w, goal).mode = w.mode /\ Release(w, goal).job = w.job
      /\ Release(w, goal).seen = w.seen /\ Release(w, goal).old = w.old
  <2>1. "fence" \in PCs
    BY DEF PCs
  <2>2. Release(w, goal) = Aimed(w, "fence", goal)
    BY DEF Release, Aimed
  <2> QED
    BY <2>1, <2>2, GoalTurn DEF Apt
<1>2. Knows(p, Release(w, goal), r, c, over)
  BY <1>1 DEF Apt, Knows
<1>3. FenceSafe(Release(w, goal), r, c, over)
  BY <1>1 DEF FenceSafe
<1> QED
  BY <1>1, <1>2, <1>3 DEF Apt, Fit, Placed, PreBegin, Launching, Prompted

LEMMA HaltedFit ==
  ASSUME NEW p, NEW w, NEW r, NEW c, NEW over, Apt(p, w, r, c, over), Halted(r, c),
         NEW goal \in States \cup {"none"}
  PROVE  Fit(p, Release(w, goal), r, c, over) /\ Fit(p, Fail(w), r, c, over)
<1>1. "failed" \in States
  BY DEF States, Terminal
<1> QED
  BY <1>1, ReleaseFit DEF Fail, FenceSafe

LEMMA HoldingApt ==
  ASSUME NEW p, NEW w, NEW r, NEW c, NEW over, Apt(p, w, r, c, over), Sound(r, c, over)
  PROVE  /\ Apt(p, Holding(w, r), r, c, over) /\ Holding(w, r).job = View(r)
         /\ Holding(w, r).pc = w.pc /\ Holding(w, r).mode = w.mode
         /\ Holding(w, r).seen = w.seen /\ Holding(w, r).goal = w.goal
<1>1. View(r) \in ViewSet /\ View(r).owner = r.owner /\ View(r).prompt = r.prompt
      /\ View(r).cancelConf = r.cancelConf
  BY ViewType DEF Sound, View
<1>2. r.age \in Elapsed
  BY DEF Sound, Row
<1>3. ASSUME NEW v \in ViewSet, NEW o \in Elapsed
      PROVE  LET h == [w EXCEPT !.job = v, !.old = o] IN
             /\ h \in WorkerSet /\ h.job = v /\ h.old = o /\ h.pc = w.pc
             /\ h.mode = w.mode /\ h.seen = w.seen /\ h.goal = w.goal
  BY DEF Apt, WorkerSet
<1> DEFINE o == IF w.mode = "sweep" THEN r.age ELSE 0
           h == Holding(w, r)
<1>4. o \in Elapsed /\ (o > 0 => over)
  BY <1>2 DEF Elapsed, Sound, RowFit
<1>5. /\ h \in WorkerSet /\ h.job = View(r) /\ h.old = o /\ h.pc = w.pc
      /\ h.mode = w.mode /\ h.seen = w.seen /\ h.goal = w.goal
  BY <1>1, <1>3, <1>4 DEF Holding
<1> HIDE DEF h, o
<1>6. Knows(p, h, r, c, over)
  BY <1>1, <1>4, <1>5 DEF Knows, Apt, Sound, RowFit
<1> QED
  BY <1>5, <1>6 DEF h, Apt

LEMMA CancelFit ==
  ASSUME NEW p, NEW w, NEW r, NEW c, NEW over, Apt(p, w, r, c, over), Sound(r, c, over),
         w.mode \notin {"dispatch", "sweep"}, w.job = View(r) \/ w.job.prompt
  PROVE  Fit(p, Cancel(w), r, c, over)
<1>1. CASE w.job.prompt
  <2>1. Fit(p, Goto(w, "control"), r, c, over)
    BY <1>1, GotoPrompted DEF Apt, Knows, Prompted
  <2> QED
    BY <1>1, <2>1, IdleFit DEF Cancel
<1>2. CASE ~w.job.prompt /\ w.job = View(r)
  <2>1. /\ w.job.cancelReq = r.cancelReq /\ w.job.started = r.started
        /\ w.job.rejected = r.rejected
    BY <1>2 DEF View
  <2>2. Fit(p, Goto(w, "findInQueue"), r, c, over)
    <3>1. Apt(p, Goto(w, "findInQueue"), r, c, over)
          /\ Goto(w, "findInQueue").pc = "findInQueue"
          /\ Goto(w, "findInQueue").mode = w.mode
      BY GotoApt, GotoType DEF Apt, PCs
    <3> QED
      BY <3>1 DEF Apt, Fit, Placed, PreBegin, Prompted, Launching
  <2>3. ASSUME Halted(r, c)
        PROVE  Fit(p, [w EXCEPT !.pc = "confirm", !.seen = "none"], r, c, over)
    <3> DEFINE v == [w EXCEPT !.pc = "confirm", !.seen = "none"]
    <3>1. v \in WorkerSet /\ v.pc = "confirm" /\ v.seen = "none" /\ v.mode = w.mode
          /\ v.job = w.job /\ v.old = w.old
      <4>1. "confirm" \in PCs /\ "none" \in Sights
        BY DEF PCs, Sights
      <4>2. v = Seeing(w, "confirm", "none")
        BY DEF Seeing
      <4> HIDE DEF v
      <4> QED
        BY <4>1, <4>2, SeenTurn DEF Apt
    <3> HIDE DEF v
    <3>2. Fit(p, v, r, c, over)
      BY <2>3, <3>1 DEF Apt, Knows, Fit, Placed, PreBegin, Prompted, Launching
    <3> QED
      BY <3>2 DEF v
  <2>4. w.job.cancelReq /\ ~(w.job.started /\ ~w.job.rejected) => Halted(r, c)
    BY <2>1 DEF Sound, Halted, Stopped
  <2> QED
    BY <1>2, <2>2, <2>3, <2>4, IdleFit DEF Cancel
<1> QED
  BY <1>1, <1>2

Turn(w, mode) == [w EXCEPT !.mode = mode]

LEMMA TurnApt ==
  ASSUME NEW p, NEW w, NEW r, NEW c, NEW over, Apt(p, w, r, c, over),
         NEW mode \in {"none", "sweep", "view", "cancel", "undo"}
  PROVE  /\ Apt(p, Turn(w, mode), r, c, over) /\ Turn(w, mode).mode = mode
         /\ Turn(w, mode).job = w.job
<1>1. /\ Turn(w, mode) \in WorkerSet /\ Turn(w, mode).mode = mode
      /\ Turn(w, mode).job = w.job /\ Turn(w, mode).seen = w.seen
      /\ Turn(w, mode).old = w.old
  BY DEF Apt, WorkerSet, Turn
<1>2. Apt(p, Turn(w, mode), r, c, over)
  BY <1>1 DEF Apt, Knows
<1> QED
  BY <1>1, <1>2

LEMMA ArrivedFit ==
  ASSUME NEW p, NEW w, NEW r, NEW c, NEW over, Apt(p, w, r, c, over), Sound(r, c, over),
         r.prompt, w.pc = "requeue" => w.job.prompt
  PROVE  Fit(p, Arrived(w), r, c, over)
<1>1. ASSUME w.pc = "requeue", NEW mode \in {"cancel", "undo"}
      PROVE  Fit(p, Cancel(Turn(w, mode)), r, c, over)
  BY <1>1, TurnApt, CancelFit
<1>2. Fit(p, Goto(w, "history"), r, c, over)
  BY GotoPrompted DEF Prompted
<1>3. Fit(p, Goto(w, "archive"), r, c, over)
  BY GotoFree DEF Free
<1>4. [w EXCEPT !.mode = IF @ = "sweep" THEN "cancel" ELSE @] =
        Turn(w, IF w.mode = "sweep" THEN "cancel" ELSE w.mode)
  BY DEF Apt, WorkerSet, Turn
<1>5. CASE w.pc = "requeue"
  BY <1>1, <1>2, <1>4, <1>5 DEF Arrived
<1>6. CASE w.pc # "requeue"
  BY <1>3, <1>6, IdleFit DEF Arrived
<1> QED
  BY <1>5, <1>6

LEMMA AdvanceFit ==
  ASSUME NEW p, NEW w, NEW r, NEW c, NEW over, Apt(p, w, r, c, over), Sound(r, c, over),
         r.prompt, NEW pc \in {"advance", "requeue"}, pc = "requeue" => w.job.prompt,
         NEW target \in States \cup {"none"}
  PROVE  Fit(p, Advance(w, pc, target), r, c, over)
<1> DEFINE v == [w EXCEPT !.pc = pc, !.goal = target]
<1>1. v \in WorkerSet /\ v.pc = pc /\ v.mode = w.mode /\ v.job = w.job
      /\ v.seen = w.seen /\ v.old = w.old
  <2>1. pc \in PCs
    BY DEF PCs
  <2>2. v = Aimed(w, pc, target)
    BY DEF Aimed
  <2> HIDE DEF v
  <2> QED
    BY <2>1, <2>2, GoalTurn DEF Apt
<1>a. Advance(w, pc, target) =
        IF v.job.state = target THEN Arrived(v)
        ELSE IF v.job.state \in Terminal \/ Toward(v.job.state, target) = "none" THEN Idle
        ELSE v
  BY DEF Advance
<1> HIDE DEF v
<1>2. Apt(p, v, r, c, over)
  BY <1>1 DEF Apt, Knows
<1>3. Fit(p, v, r, c, over)
  BY <1>1, <1>2 DEF Apt, Fit, Placed, PreBegin, Prompted, Launching
<1>4. Fit(p, Arrived(v), r, c, over)
  BY <1>1, <1>2, ArrivedFit
<1> QED
  BY <1>a, <1>3, <1>4, IdleFit

LEMMA ReconcileFit ==
  ASSUME NEW p, NEW w, NEW r, NEW c, NEW over, Apt(p, w, r, c, over), Sound(r, c, over)
  PROVE  Fit(p, Reconcile(w), r, c, over)
<1>1. "cancelled" \in States /\ {"queued", "running", "archiving"} \subseteq States
  BY DEF States, Terminal, Cancellable
<1>2. w.job.owner
  BY DEF Apt, Knows
<1>3. w.job.cancelConf \/ w.seen = "error" => Halted(r, c)
  BY DEF Apt, Knows, Halted, Stopped
<1>4. ASSUME w.job.cancelConf \/ w.seen = "error"
      PROVE  Fit(p, Release(w, "cancelled"), r, c, over) /\ Fit(p, Fail(w), r, c, over)
  BY <1>1, <1>3, <1>4, HaltedFit
<1>5. ASSUME w.seen # "none", NEW target \in {"queued", "running", "archiving"}
      PROVE  Fit(p, Advance(w, "advance", target), r, c, over)
  BY <1>1, <1>5, AdvanceFit DEF Apt, Knows
<1>6. Fit(p, Idle, r, c, over)
  BY IdleFit
<1>7. CASE w.job.cancelConf \/ w.seen = "error"
  BY <1>2, <1>4, <1>6, <1>7 DEF Reconcile
<1>8. CASE ~w.job.cancelConf /\ w.seen # "error"
  <2>1. Reconcile(w) \in {Idle} \cup
          (IF w.seen = "none" THEN {}
           ELSE {Advance(w, "advance", t) : t \in {"queued", "running", "archiving"}})
    BY <1>2, <1>8 DEF Reconcile
  <2> QED
    BY <1>5, <1>6, <2>1
<1> QED
  BY <1>7, <1>8

LEMMA JudgeFit ==
  ASSUME NEW p, NEW w, NEW r, NEW c, NEW over, Apt(p, w, r, c, over), Sound(r, c, over),
         w.seen # "none"
  PROVE  Fit(p, Judge(w), r, c, over)
<1>1. w.seen \in {"unknown", "pending", "running", "success", "error"}
  BY DEF Apt, WorkerSet
<1>2. ASSUME w.seen \in {"success", "error"} PROVE Fit(p, Goto(w, "clear"), r, c, over)
  <2>1. c \in {"success", "error", "gone"}
    BY <1>2 DEF Apt, Knows, Produced
  <2>2. Apt(p, Goto(w, "clear"), r, c, over) /\ Goto(w, "clear").pc = "clear"
    BY GotoApt DEF PCs
  <2>3. Goto(w, "clear").mode = w.mode
    BY GotoType DEF Apt, PCs
  <2> QED
    BY <2>1, <2>2, <2>3 DEF Apt, Fit, Placed, PreBegin, Prompted, Launching
<1>3. ASSUME w.seen \in {"unknown", "error"}
      PROVE  Fit(p, Goto(w, "confirm"), r, c, over)
  <2>1. Halted(r, c)
    BY <1>3 DEF Apt, Knows, Halted, Stopped
  <2>2. Apt(p, Goto(w, "confirm"), r, c, over) /\ Goto(w, "confirm").pc = "confirm"
    BY GotoApt DEF PCs
  <2> QED
    BY <2>1, <2>2 DEF Apt, Fit, Placed, PreBegin, Prompted, Launching
<1>4. ASSUME w.seen = "unknown" PROVE Fit(p, Release(w, "expired"), r, c, over)
  <2>1. Halted(r, c) /\ "expired" \in States
    BY <1>4 DEF Apt, Knows, Halted, States, Terminal
  <2> QED
    BY <2>1, HaltedFit
<1> QED
  BY <1>1, <1>2, <1>3, <1>4, IdleFit, ReconcileFit DEF Judge

LEMMA InspectFit ==
  ASSUME NEW p, NEW w, NEW r, NEW c, NEW over, Apt(p, w, r, c, over), Sound(r, c, over),
         w.mode = "sweep", w.job = View(r)
  PROVE  Fit(p, Inspect(w, r.queued, r.batch), r, c, over)
<1>1. /\ w.job.state = r.state /\ w.job.owner /\ w.job.cancelReq = r.cancelReq
      /\ w.job.prompt = r.prompt /\ w.job.rejected = r.rejected
      /\ w.job.started = r.started
  BY DEF View, Sound, RowFit
<1>2. Fit(p, Cancel([w EXCEPT !.mode = "cancel"]), r, c, over)
  <2>1. Fit(p, Cancel(Turn(w, "cancel")), r, c, over)
    BY TurnApt, CancelFit
  <2> QED
    BY <2>1 DEF Turn
<1>3. r.prompt => Fit(p, Goto(w, "history"), r, c, over)
  BY GotoPrompted DEF Prompted
<1>4. r.rejected => Fit(p, Fail(w), r, c, over)
  BY HaltedFit DEF Sound, Halted, Stopped
<1>5. ASSUME ~(r.batch /\ r.state = "draft"), r.queued => r.started
      PROVE  Fit(p, Goto(w, "findInQueue"), r, c, over)
  <2>1. Apt(p, Goto(w, "findInQueue"), r, c, over)
        /\ Goto(w, "findInQueue").pc = "findInQueue"
    BY GotoApt DEF PCs
  <2>2. ~r.started /\ Goto(w, "findInQueue").old > 0 => r.closed \/ Unlaunched(r, over)
    BY <1>5, <2>1 DEF Apt, Knows, Unlaunched, Sound, RowFit
  <2>3. Goto(w, "findInQueue").job = w.job
    BY GotoType DEF Apt, PCs
  <2> QED
    BY <1>1, <2>1, <2>2, <2>3 DEF Apt, Fit, Placed, PreBegin, Prompted, Launching
<1> QED
  BY <1>1, <1>2, <1>3, <1>4, <1>5, IdleFit DEF Inspect

-----------------------------------------------------------------------------
(* Most statements of the store are mild: they take nothing a worker knows   *)
(* of the job away.                                                          *)

Mild(r, s, c) ==
  /\ s \in Row /\ s.batch = r.batch /\ s.owner = r.owner /\ s.queued = r.queued
  /\ s.closed = r.closed /\ s.started = r.started
  /\ s.token \in {r.token, NoToken} /\ s.lease \in {r.lease, "live"}
  /\ r.prompt => s.prompt
  /\ r.cancelReq => s.cancelReq \/ c \in Stopped
  /\ s.cancelConf => r.cancelConf \/ Halted(r, c)
  /\ s.age > 0 => r.age > 0
  /\ s.state # "draft" => r.state # "draft" \/ ~r.batch \/ r.queued \/ r.closed

LEMMA MildKeeps ==
  ASSUME NEW r, NEW s, NEW c, NEW over, Mild(r, s, c), RowFit(r, c, over)
  PROVE  RowFit(s, c, over) /\ Steady(r, s, c, c, over, over)
         /\ \A p, w : DispatchKept(p, w, r, s)
<1>1. Halted(r, c) => Halted(s, c)
  BY DEF Mild, Halted
<1>2. Steady(r, s, c, c, over, over)
  BY <1>1 DEF Mild, Steady, Unlaunched
<1>3. RowFit(s, c, over)
  BY <1>1 DEF Mild, RowFit
<1>4. \A p, w : DispatchKept(p, w, r, s)
  BY DEF Mild, DispatchKept
<1> QED
  BY <1>2, <1>3, <1>4

LEMMA MildIntro ==
  ASSUME HandoffInv, StopInv, NEW p \in Workers, At(p, "idle") => p \notin Launchers,
         Mild(row, row', comfy), comfy' = comfy, NEW w, Become(p, w),
         w.mode \notin {"dispatch"} \ {worker[p].mode},
         Fit(p, w, row', comfy, LaunchOver)
  PROVE  StopStep(p)
<1>1. RowFit(row', comfy, LaunchOver) /\ Steady(row, row', comfy, comfy, LaunchOver, LaunchOver)
      /\ \A q, v : DispatchKept(q, v, row, row')
  BY MildKeeps DEF StopInv
<1>2. ASSUME NEW q \in Workers, q # p, w.mode = "dispatch", worker[q].mode = "dispatch"
      PROVE  row'.closed
  BY <1>2 DEF StopInv, Exclusive, Mild
<1> QED
  BY <1>1, <1>2 DEF StopStep

LEMMA MildHere ==
  ASSUME HandoffInv, StopInv, NEW p \in Workers, Mild(row, row', comfy),
         row'.rejected => comfy = "refused"
  PROVE  /\ Sound(row', comfy, LaunchOver) /\ worker[p] \in WorkerSet
         /\ Fit(p, worker[p], row', comfy, LaunchOver)
         /\ p \notin Launchers => Apt(p, worker[p], row', comfy, LaunchOver)
<1>1. RowFit(row', comfy, LaunchOver) /\ Steady(row, row', comfy, comfy, LaunchOver, LaunchOver)
      /\ DispatchKept(p, worker[p], row, row')
  BY MildKeeps DEF StopInv
<1>2. worker[p] \in WorkerSet /\ Fit(p, worker[p], row, comfy, LaunchOver)
  BY DEF HandoffInv, TypeOK, StopInv
<1>3. LaunchOver \in BOOLEAN
  BY DEF LaunchOver
<1>4. Fit(p, worker[p], row', comfy, LaunchOver)
  BY <1>1, <1>2, <1>3, FitKept
<1> QED
  BY <1>1, <1>2, <1>3, <1>4 DEF Sound, Apt, Fit, Mild

\* A step that only reads.
LEMMA SameMild == ASSUME NEW r \in Row, NEW c PROVE Mild(r, r, c)
BY DEF Mild

LEMMA StoreMild ==
  ASSUME NEW r \in Row, NEW c
  PROVE  /\ Mild(r, Prepared(r), c) /\ Mild(r, Reserved(r), c)
         /\ Mild(r, Refunded(r), c) /\ Mild(r, Postponed(r), c)
         /\ Mild(r, Bound(r), c) /\ Mild(r, Committed(r), c)
         /\ Mild(r, Released(r), c) /\ Mild(r, Rejected(r), c)
         /\ Mild(r, CancelRequested(r), c) /\ Mild(r, BatchCancelled(r), c)
         /\ Halted(r, c) => Mild(r, CancelConfirmed(r), c)
         /\ c \in Stopped => Mild(r, CancelCleared(r), c)
<1>1. Mild(r, Prepared(r), c) /\ Mild(r, Reserved(r), c)
  BY DEF Mild, Row, Prepared, Reserved
<1>2. Mild(r, Refunded(r), c)
  BY DEF Mild, Row, Refunded
<1>a. Mild(r, Postponed(r), c)
  <2> DEFINE s == [r EXCEPT !.token = NoToken]
  <2>1. s \in Row /\ s.token = NoToken /\ s.lease = r.lease /\ s.batch = r.batch
        /\ s.owner = r.owner /\ s.queued = r.queued /\ s.closed = r.closed
        /\ s.started = r.started /\ s.prompt = r.prompt /\ s.cancelReq = r.cancelReq
        /\ s.cancelConf = r.cancelConf /\ s.age = r.age /\ s.state = r.state
    BY DEF Row, NoToken
  <2>2. Postponed(r) = [s EXCEPT !.lease = "live"]
    BY DEF Postponed
  <2> HIDE DEF s
  <2> QED
    BY <2>1, <2>2 DEF Mild, Row
<1>3. Mild(r, Bound(r), c) /\ Mild(r, Committed(r), c)
  BY DEF Mild, Row, Bound, Committed
<1>4. Mild(r, Released(r), c) /\ Mild(r, Rejected(r), c)
  BY DEF Mild, Row, Released, Rejected
<1>5. Mild(r, CancelRequested(r), c) /\ Mild(r, BatchCancelled(r), c)
  BY DEF Mild, Row, CancelRequested, BatchCancelled, CanRequestCancel
<1>6. Halted(r, c) => Mild(r, CancelConfirmed(r), c)
  BY DEF Mild, Row, CancelConfirmed
<1>7. c \in Stopped => Mild(r, CancelCleared(r), c)
  BY DEF Mild, Row, CancelCleared
<1> QED
  BY <1>1, <1>2, <1>a, <1>3, <1>4, <1>5, <1>6, <1>7

LEMMA TransitionMild ==
  ASSUME NEW r, GoodRow(r), r.released => r.closed, NEW s, NEW c,
         s # "preparing" \/ ~r.batch \/ r.queued \/ r.closed
  PROVE  Mild(r, AfterTransition(r, s), c)
<1>1. CASE CanEnter(r, s)
  <2>1. r.state \in States /\ CanTransition(r.state, s) /\ r \in Row
    BY <1>1 DEF GoodRow, Row, CanEnter
  <2>2. s \in States
    BY <2>1, TransitionType
  <2>3. r.state = "draft" => s \in {"preparing"} \cup Terminal
    BY <2>1 DEF CanTransition, Progress, Terminal, Cancellable
  <2>4. r.state = "draft" => ~r.batch \/ r.queued \/ r.closed
    BY <1>1, <2>3 DEF CanEnter
  <2>5. Entered(r, s) \in Row
    BY <1>1, TransitionKeeps DEF Keeps, AfterTransition
  <2>6. /\ Entered(r, s).age = 0 /\ Entered(r, s).batch = r.batch
        /\ Entered(r, s).owner = r.owner /\ Entered(r, s).queued = r.queued
        /\ Entered(r, s).closed = r.closed /\ Entered(r, s).started = r.started
        /\ Entered(r, s).token = r.token /\ Entered(r, s).lease = r.lease
        /\ Entered(r, s).prompt = r.prompt /\ Entered(r, s).cancelReq = r.cancelReq
        /\ Entered(r, s).cancelConf = r.cancelConf
    BY <2>1 DEF Row, Entered
  <2>7. Mild(r, Entered(r, s), c)
    BY <2>4, <2>5, <2>6 DEF Mild
  <2> QED
    BY <1>1, <2>7 DEF AfterTransition
<1>2. CASE ~CanEnter(r, s)
  BY <1>2, SameMild DEF AfterTransition, GoodRow
<1> QED
  BY <1>1, <1>2

-----------------------------------------------------------------------------
(* Launching and dispatching. *)

\* A launcher's or dispatcher's way to the submission.
LEMMA PreFit ==
  ASSUME NEW p, NEW w \in WorkerSet, NEW r, NEW c, NEW over, Sound(r, c, over),
         Fit(p, w, r, c, over), w.pc \in PreBegin, NEW pc \in PreBegin,
         pc \in Launching => p \in Launchers,
         p \in Launchers => pc \in LauncherPlaces \ {"check"}
  PROVE  Fit(p, Goto(w, pc), r, c, over)
<1>1. pc \in PCs /\ pc # "idle" /\ pc \notin Prompted
      /\ pc \notin {"confirm", "clearUnsent", "clear", "fence", "findInQueue", "findInHistory",
                    "recharge", "requeue"}
  BY DEF PreBegin, PCs, Prompted
<1>2. /\ Goto(w, pc).pc = pc /\ Goto(w, pc).mode = w.mode /\ Goto(w, pc).job = w.job
      /\ Goto(w, pc).seen = w.seen /\ Goto(w, pc).old = w.old
  BY <1>1 DEF Goto, WorkerSet
<1>3. Knows(p, Goto(w, pc), r, c, over)
  BY <1>2 DEF Fit, Knows
<1>4. w.mode = "dispatch" /\ (r.closed \/ ~r.started)
      /\ (p \in Launchers => ~r.batch /\ (r.closed \/ ~r.queued))
  BY DEF Fit, Placed, PreBegin
<1> QED
  BY <1>1, <1>2, <1>3, <1>4 DEF Fit, Placed

LEMMA PreHold ==
  ASSUME NEW p, NEW w \in WorkerSet, NEW r, NEW c, NEW over, Sound(r, c, over),
         Fit(p, w, r, c, over), w.pc \in PreBegin, NEW pc \in PreBegin,
         pc \in Launching => p \in Launchers,
         p \in Launchers => pc \in LauncherPlaces /\ (pc = "check" => r.state = "preparing")
  PROVE  /\ Fit(p, Holding(Goto(w, pc), r), r, c, over)
         /\ Holding(Goto(w, pc), r).mode = "dispatch"
<1>1. pc \in PCs /\ pc # "idle" /\ pc \notin Prompted
      /\ pc \notin {"confirm", "clearUnsent", "clear", "fence", "findInQueue", "findInHistory",
                    "recharge", "requeue"}
  BY DEF PreBegin, PCs, Prompted
<1>4. w.mode = "dispatch" /\ (r.closed \/ ~r.started)
      /\ (p \in Launchers => ~r.batch /\ (r.closed \/ ~r.queued))
  BY DEF Fit, Placed, PreBegin
<1>3. View(r) \in ViewSet /\ View(r).owner = r.owner /\ View(r).prompt = r.prompt
      /\ View(r).cancelConf = r.cancelConf /\ View(r).state = r.state
  BY ViewType DEF Sound, View
<1> DEFINE h == Holding(Goto(w, pc), r)
<1>5. Goto(w, pc).mode = "dispatch"
  BY <1>1, <1>4, GotoType
<1>6. h = [Goto(w, pc) EXCEPT !.job = View(r), !.old = 0]
  BY <1>5 DEF Holding
<1>7. h.job = View(r) /\ h.old = 0 /\ h.pc = pc /\ h.mode = "dispatch" /\ h.seen = w.seen
  <2>1. Goto(w, pc) \in WorkerSet /\ Goto(w, pc).pc = pc /\ Goto(w, pc).seen = w.seen
    BY <1>1, GotoType DEF Goto, WorkerSet
  <2>2. ASSUME NEW g \in WorkerSet, NEW v \in ViewSet
        PROVE  /\ [g EXCEPT !.job = v, !.old = 0].job = v
               /\ [g EXCEPT !.job = v, !.old = 0].old = 0
               /\ [g EXCEPT !.job = v, !.old = 0].pc = g.pc
               /\ [g EXCEPT !.job = v, !.old = 0].mode = g.mode
               /\ [g EXCEPT !.job = v, !.old = 0].seen = g.seen
    BY DEF WorkerSet
  <2> QED
    BY <1>3, <1>5, <1>6, <2>1, <2>2
<1> HIDE DEF h
<1>8. Knows(p, h, r, c, over)
  <2>1. h.job.owner /\ (h.job.prompt => r.prompt) /\ (h.job.cancelConf => Halted(r, c))
    BY <1>3, <1>7 DEF Sound, RowFit
  <2>2. p \notin Launchers => r.closed \/ (r.lease = "live" /\ r.queued)
    BY <1>4 DEF Fit, Knows
  <2>3. /\ w.seen # "none" => r.prompt
        /\ w.seen = "unknown" => c \in Stopped
        /\ w.seen = "success" => c \in Produced
        /\ w.seen = "error" => c \in {"error", "gone"}
    BY DEF Fit, Knows
  <2> QED
    BY <1>7, <2>1, <2>2, <2>3 DEF Knows
<1>9. Fit(p, h, r, c, over)
  BY <1>1, <1>3, <1>4, <1>7, <1>8 DEF Fit, Placed
<1> QED
  BY <1>7, <1>9 DEF h

LEMMA PreFail ==
  ASSUME NEW p, NEW w \in WorkerSet, NEW r, NEW c, NEW over, Sound(r, c, over),
         Fit(p, w, r, c, over), w.pc \in PreBegin
  PROVE  Fit(p, Fail(w), r, c, over) /\ Fail(w).mode = "dispatch"
<1>1. /\ Fail(w).pc = "fence" /\ Fail(w).mode = w.mode /\ Fail(w).job = w.job
      /\ Fail(w).seen = w.seen /\ Fail(w).old = w.old
  BY DEF Fail, Release, WorkerSet
<1>2. Knows(p, Fail(w), r, c, over)
  BY <1>1 DEF Fit, Knows
<1>3. w.mode = "dispatch" /\ (r.closed \/ ~r.started)
      /\ (p \in Launchers => ~r.batch /\ (r.closed \/ ~r.queued))
  BY DEF Fit, Placed, PreBegin
<1>4. FenceSafe(Fail(w), r, c, over)
  BY <1>1, <1>3 DEF FenceSafe
<1> QED
  BY <1>1, <1>2, <1>3, <1>4 DEF Fit, Placed, PreBegin, Launching, Prompted, LauncherPlaces

LEMMA PreparationStop ==
  ASSUME HandoffInv, StopInv, NEW p \in Workers,
         Launch(p) \/ Check(p) \/ Prepare(p) \/ Wait(p) \/ Reserve(p)
  PROVE  StopStep(p)
<1>h. /\ GoodRow(row) /\ row \in Row /\ (row.released => row.closed) /\ worker[p] \in WorkerSet
      /\ Fit(p, worker[p], row, comfy, LaunchOver) /\ (row.rejected => comfy = "refused")
  BY HereType DEF HandoffInv, RowOK, StopInv, GoodRow
<1>p. worker[p].pc \in {"launch", "check", "prepare", "wait", "reserve"} /\ ~At(p, "idle")
      /\ comfy' = comfy
  BY DEF Launch, Check, Prepare, Wait, Reserve, At, world
<1>q. worker[p].pc \in PreBegin /\ worker[p].mode = "dispatch"
  BY <1>h, <1>p DEF PreBegin, Fit, Placed
<1>i. Fit(p, Idle, row', comfy, LaunchOver) /\ Idle.mode = "none"
  BY IdleFit DEF Idle
<1>l. worker[p].pc \in Launching => p \in Launchers /\ ~row.batch
  BY <1>h, <1>p DEF Fit, Placed
<1>1. ASSUME Mild(row, row', comfy), row'.rejected = row.rejected
      PROVE  /\ Sound(row', comfy, LaunchOver)
             /\ Fit(p, worker[p], row', comfy, LaunchOver)
  BY <1>1, <1>h, MildHere
<1>2. ASSUME NEW s, NEW pc \in PreBegin, NEW r, Mild(row, row', comfy),
             Move(p, s, Goto(worker[p], pc), Idle),
             pc \in Launching => p \in Launchers,
             p \in Launchers => pc \in LauncherPlaces /\ (pc = "check" => s = "preparing")
      PROVE  StopStep(p)
  <2>1. row'.rejected = row.rejected
    BY <1>2, <1>h, TransitionKeeps DEF Move, Keeps
  <2>2. row'.state = s => /\ Fit(p, Holding(Goto(worker[p], pc), row'), row', comfy, LaunchOver)
                          /\ Holding(Goto(worker[p], pc), row').mode = "dispatch"
    BY <1>1, <1>2, <1>h, <1>q, <2>1, PreHold
  <2> QED
    BY <1>2, <1>i, <1>p, <1>q, <2>2, MildIntro DEF Move
<1>3. ASSUME NEW s, s # "preparing" \/ ~row.batch \/ row.queued \/ row.closed,
             row' = AfterTransition(row, s)
      PROVE  Mild(row, row', comfy)
  BY <1>3, <1>h, TransitionMild
<1>4. CASE Launch(p)
  <2>1. p \in Launchers /\ ~row.batch
    BY <1>4, <1>l DEF Launch, At, Launching
  <2>2. Mild(row, row', comfy)
    BY <1>3, <1>4, <2>1 DEF Launch, Move
  <2> QED
    BY <1>2, <1>4, <2>1, <2>2 DEF Launch, PreBegin, LauncherPlaces
<1>5. CASE Check(p)
  <2>1. CASE row' = row /\ Become(p, Fail(worker[p]))
    BY <1>h, <1>p, <1>q, <2>1, SameMild, MildIntro, PreFail, <1>1
  <2>2. CASE Move(p, "uploading", Goto(worker[p], "prepare"), Idle)
    BY <1>2, <1>3, <2>2 DEF Move, PreBegin, LauncherPlaces, Launching
  <2>3. CASE row' = row /\ Become(p, Goto(worker[p],
                IF worker[p].job.state = "waiting_for_resources"
                THEN "reread" ELSE "prepare"))
    <3> DEFINE pc == IF worker[p].job.state = "waiting_for_resources"
                     THEN "reread" ELSE "prepare"
    <3>1. p \in Launchers => pc = "prepare"
      BY <1>5, <1>h DEF Check, At, Fit, Placed
    <3>2. Mild(row, row', comfy) /\ Sound(row', comfy, LaunchOver)
          /\ Fit(p, worker[p], row', comfy, LaunchOver)
      BY <1>1, <1>h, <2>3, SameMild
    <3>3. pc \in {"reread", "prepare"}
      OBVIOUS
    <3> HIDE DEF pc
    <3>4. Fit(p, Goto(worker[p], pc), row', comfy, LaunchOver)
      BY <1>h, <1>q, <3>1, <3>2, <3>3, PreFit DEF PreBegin, LauncherPlaces, Launching
    <3>5. Goto(worker[p], pc).mode = worker[p].mode
      BY <1>h, <3>3, GotoType DEF PCs
    <3>6. Become(p, Goto(worker[p], pc))
      BY <2>3 DEF pc
    <3> QED
      BY <1>p, <1>q, <3>2, <3>4, <3>5, <3>6, MildIntro
  <2> QED
    BY <1>5, <2>1, <2>2, <2>3 DEF Check
<1>6. CASE Prepare(p)
  <2>1. CASE row' = row
    BY <1>6, <1>h, <1>i, <1>p, <2>1, SameMild, MildIntro, PreHold, <1>1, <1>q
    DEF Prepare, PreBegin, Launching, LauncherPlaces
  <2>2. CASE row' = Prepared(row) /\ Become(p, Holding(Goto(worker[p], "wait"), row'))
    <3>1. Mild(row, row', comfy) /\ row'.rejected = row.rejected
      BY <1>h, <2>2, StoreMild, StoreKeeps DEF Keeps
    <3>2. /\ Fit(p, Holding(Goto(worker[p], "wait"), row'), row', comfy, LaunchOver)
          /\ Holding(Goto(worker[p], "wait"), row').mode = "dispatch"
      BY <1>1, <1>h, <1>q, <3>1, PreHold DEF PreBegin, Launching, LauncherPlaces
    <3> QED
      BY <1>p, <1>q, <2>2, <3>1, <3>2, MildIntro
  <2> QED
    BY <1>6, <2>1, <2>2 DEF Prepare
<1>7. CASE Wait(p)
  <2>1. PICK pc \in {"reserve", "reread"} :
          /\ Move(p, "waiting_for_resources", Goto(worker[p], pc), Idle)
          /\ pc = "reserve" <=> p \in Launchers
    BY <1>7 DEF Wait
  <2> QED
    BY <1>2, <1>3, <2>1 DEF Move, PreBegin, LauncherPlaces, Launching
<1>8. CASE Reserve(p)
  <2>1. CASE row' = row /\ Become(p, Fail(worker[p]))
    BY <1>h, <1>p, <1>q, <2>1, SameMild, MildIntro, PreFail, <1>1
  <2>2. CASE row' = Reserved(row) /\ Become(p, Goto(worker[p], "publish"))
    <3>1. Mild(row, row', comfy) /\ row'.rejected = row.rejected
      BY <1>h, <2>2, StoreMild, StoreKeeps DEF Keeps
    <3>2. Fit(p, Goto(worker[p], "publish"), row', comfy, LaunchOver)
      <4>1. p \in Launchers
        BY <1>8, <1>l DEF Reserve, At, Launching
      <4> QED
        BY <1>1, <1>h, <1>q, <3>1, <4>1, PreFit DEF PreBegin, Launching, LauncherPlaces
    <3>3. Goto(worker[p], "publish").mode = "dispatch"
      BY <1>h, <1>q, GotoType DEF PCs
    <3> QED
      BY <1>p, <1>q, <2>2, <3>1, <3>2, <3>3, MildIntro
  <2> QED
    BY <1>8, <2>1, <2>2 DEF Reserve
<1> QED
  BY <1>4, <1>5, <1>6, <1>7, <1>8

\* Publishing: nobody else dispatches the job, for it was not published before.
LEMMA PublishStop ==
  ASSUME HandoffInv, StopInv, NEW p \in Workers, Publish(p)
  PROVE  StopStep(p)
<1>h. /\ row \in Row /\ worker[p] \in WorkerSet /\ Fit(p, worker[p], row, comfy, LaunchOver)
      /\ RowFit(row, comfy, LaunchOver)
  BY DEF HandoffInv, TypeOK, StopInv
<1>p. worker[p].pc = "publish" /\ ~At(p, "idle") /\ comfy' = comfy /\ Become(p, Idle)
  BY DEF Publish, At, world
<1>q. p \in Launchers /\ worker[p].mode = "dispatch" /\ ~LaunchOver /\ ~row.batch
  BY <1>h, <1>p DEF Fit, Placed, Launching, LaunchOver
<1>i. Fit(p, Idle, row', comfy, LaunchOver) /\ Idle.mode = "none"
  BY IdleFit DEF Idle
<1>1. CASE row' = row
  BY <1>1, <1>h, <1>i, <1>p, SameMild, MildIntro
<1>2. CASE row' = Queued(row) /\ CanQueue(row)
  <2>1. ~row.closed
    BY <1>2 DEF CanQueue, Dispatchable
  <2>2. \A q \in Workers : q # p => worker[q].mode # "dispatch"
    BY <1>q, <2>1 DEF StopInv, Exclusive
  <2>3. /\ row'.queued /\ row'.batch = row.batch /\ row'.owner = row.owner
        /\ row'.closed = row.closed /\ row'.token = row.token
        /\ row'.started = row.started /\ row'.prompt = row.prompt
        /\ row'.age = row.age /\ row'.cancelReq = row.cancelReq
        /\ row'.cancelConf = row.cancelConf
    BY <1>2, <1>h DEF Row, Queued
  <2>4. RowFit(row', comfy', LaunchOver)
    BY <1>h, <1>p, <2>3 DEF RowFit, Halted
  <2>5. Steady(row, row', comfy, comfy', LaunchOver, LaunchOver)
    BY <1>p, <1>q, <2>3 DEF Steady, Halted, Unlaunched
  <2>6. \A q \in Workers : q # p => DispatchKept(q, worker[q], row, row')
    BY <2>2 DEF DispatchKept
  <2> QED
    BY <1>i, <1>p, <2>2, <2>4, <2>5, <2>6 DEF StopStep
<1> QED
  BY <1>1, <1>2 DEF Publish

\* Claiming: nobody else dispatches a job that can be claimed.
LEMMA ClaimStop ==
  ASSUME HandoffInv, StopInv, NEW p \in Workers, Claim(p)
  PROVE  StopStep(p)
<1>h. /\ row \in Row /\ GoodRow(row) /\ RowFit(row, comfy, LaunchOver)
      /\ (row.rejected => comfy = "refused") /\ LaunchOver \in BOOLEAN
  BY HereType DEF HandoffInv, TypeOK, StopInv, RowOK, LaunchOver
<1>1. PICK token \in 1..TokenBound : row' = Claimed(row, token)
  BY DEF Claim
<1>2. token \in Nat
  BY WorkersAssumption, FS_CardinalityType DEF TokenBound
<1>3. row' \in Row
  BY <1>1, <1>2, <1>h, ClaimKeeps DEF Keeps
<1>4. /\ row'.queued /\ row'.lease = "live" /\ row'.batch = row.batch
      /\ row'.owner = row.owner /\ row'.closed = row.closed
      /\ row'.started = row.started /\ row'.prompt = row.prompt
      /\ row'.cancelReq = row.cancelReq /\ row'.cancelConf = row.cancelConf
      /\ row'.rejected = row.rejected /\ (row'.age > 0 => row.age > 0)
  BY <1>1, <1>h DEF Row, Claimed
<1>5. ~row.closed /\ ~row.started /\ row.lease # "live" /\ (~row.batch => row.queued)
      /\ row.owner
  BY <1>h DEF Claim, CanClaim, Dispatchable, RowFit
<1>6. ASSUME NEW q \in Workers, worker[q].mode = "dispatch" PROVE FALSE
  <2>1. Fit(q, worker[q], row, comfy, LaunchOver)
    BY DEF StopInv
  <2>2. q \notin Launchers
    BY <1>5, <1>6, <2>1 DEF Fit, Placed
  <2> QED
    BY <1>5, <1>6, <2>1, <2>2 DEF Fit, Knows
<1>7. p \notin Launchers
  BY WorkersAssumption DEF Claim
<1>8. RowFit(row', comfy, LaunchOver)
  BY <1>4, <1>h DEF RowFit, Halted
<1>9. Steady(row, row', comfy, comfy, LaunchOver, LaunchOver)
  BY <1>4, <1>5 DEF Steady, Halted, Unlaunched
<1>10. \A q \in Workers : q # p => DispatchKept(q, worker[q], row, row')
  BY <1>6 DEF DispatchKept
<1> DEFINE t == Taken(row')
<1>11. t \in WorkerSet /\ t.pc = "check" /\ t.mode = "dispatch" /\ t.job = View(row')
       /\ t.seen = "none" /\ t.old = 0
  BY <1>3, TakenType
<1>12. Become(p, t)
  BY <1>5 DEF Claim, Taken
<1>13. View(row').owner /\ View(row').prompt = row'.prompt
       /\ View(row').cancelConf = row'.cancelConf
  BY <1>4, <1>5 DEF View
<1> HIDE DEF t
<1>14. Knows(p, t, row', comfy, LaunchOver)
  BY <1>11, <1>13, <1>4, <1>8 DEF Knows, RowFit
<1>15. Fit(p, t, row', comfy, LaunchOver)
  BY <1>11, <1>14, <1>4, <1>5, <1>7 DEF Fit, Placed, Launching, Prompted
<1>16. comfy' = comfy
  BY DEF Claim, world
<1> QED
  BY <1>6, <1>7, <1>8, <1>9, <1>10, <1>12, <1>15, <1>16 DEF StopStep

LEMMA IdleHolding ==
  ASSUME NEW p, NEW r, NEW c, NEW over, Sound(r, c, over)
  PROVE  Fit(p, Holding(Idle, r), r, c, over) /\ Holding(Idle, r).mode = "none"
<1>1. View(r).owner /\ View(r).prompt = r.prompt /\ View(r).cancelConf = r.cancelConf
      /\ View(r) \in ViewSet
  BY ViewType DEF Sound, RowFit, View
<1>2. Idle \in WorkerSet /\ Idle.pc = "idle" /\ Idle.mode = "none" /\ Idle.seen = "none"
  BY IdleType DEF Calm, Idle
<1>3. ASSUME NEW i \in WorkerSet, NEW v \in ViewSet, i.mode = "none"
      PROVE  /\ [i EXCEPT !.job = v, !.old = 0].job = v
             /\ [i EXCEPT !.job = v, !.old = 0].old = 0
             /\ [i EXCEPT !.job = v, !.old = 0].pc = i.pc
             /\ [i EXCEPT !.job = v, !.old = 0].mode = i.mode
             /\ [i EXCEPT !.job = v, !.old = 0].seen = i.seen
  BY DEF WorkerSet
<1> DEFINE h == Holding(Idle, r)
<1>4. h = [Idle EXCEPT !.job = View(r), !.old = 0]
  BY <1>2 DEF Holding
<1>5. h.job = View(r) /\ h.old = 0 /\ h.pc = "idle" /\ h.mode = "none" /\ h.seen = "none"
  BY <1>1, <1>2, <1>3, <1>4
<1> HIDE DEF h
<1>6. Fit(p, h, r, c, over)
  BY <1>1, <1>5 DEF Fit, Knows, Placed, PreBegin, Launching, Prompted, Sound, RowFit
<1> QED
  BY <1>5, <1>6 DEF h

\* None of them takes up a dispatch.
LEMMA CancelMode ==
  ASSUME NEW w \in WorkerSet PROVE Cancel(w).mode \in {"none", w.mode}
<1>1. /\ Goto(w, "control").mode = w.mode /\ Goto(w, "findInQueue").mode = w.mode
      /\ [w EXCEPT !.pc = "confirm", !.seen = "none"].mode = w.mode /\ Idle.mode = "none"
  BY DEF Goto, WorkerSet, Idle
<1> QED
  BY <1>1 DEF Cancel

LEMMA ArrivedMode ==
  ASSUME NEW w \in WorkerSet PROVE Arrived(w).mode \in {"none", "cancel", w.mode}
<1>1. /\ Goto(w, "history").mode = w.mode /\ Goto(w, "archive").mode = w.mode
      /\ Idle.mode = "none"
  BY DEF Goto, WorkerSet, Idle
<1> DEFINE v == [w EXCEPT !.mode = IF @ = "sweep" THEN "cancel" ELSE @]
<1>2. v \in WorkerSet /\ v.mode \in {"cancel", w.mode}
  BY DEF WorkerSet
<1> HIDE DEF v
<1>3. Cancel(v).mode \in {"none", "cancel", w.mode}
  BY <1>2, CancelMode
<1> QED
  BY <1>1, <1>3 DEF Arrived, v

LEMMA AdvanceMode ==
  ASSUME NEW w \in WorkerSet, NEW pc \in {"advance", "requeue"},
         NEW target \in States \cup {"none"}
  PROVE  Advance(w, pc, target).mode \in {"none", "cancel", w.mode}
<1> DEFINE v == [w EXCEPT !.pc = pc, !.goal = target]
<1>1. v \in WorkerSet /\ v.mode = w.mode
  <2>1. pc \in PCs
    BY DEF PCs
  <2>2. v = Aimed(w, pc, target)
    BY DEF Aimed
  <2> HIDE DEF v
  <2> QED
    BY <2>1, <2>2, GoalTurn
<1>2. Advance(w, pc, target) \in {Arrived(v), Idle, v}
  BY DEF Advance
<1> HIDE DEF v
<1>3. Idle.mode = "none" /\ Arrived(v).mode \in {"none", "cancel", w.mode}
  BY <1>1, ArrivedMode DEF Idle
<1> QED
  BY <1>1, <1>2, <1>3

LEMMA ReleaseMode ==
  ASSUME NEW w \in WorkerSet, NEW goal
  PROVE  Release(w, goal).mode = w.mode /\ Fail(w).mode = w.mode
BY DEF Release, Fail, WorkerSet

LEMMA ReconcileMode ==
  ASSUME NEW w \in WorkerSet PROVE Reconcile(w).mode \in {"none", "cancel", w.mode}
<1>1. \A t \in {"queued", "running", "archiving"} :
        Advance(w, "advance", t).mode \in {"none", "cancel", w.mode}
  BY AdvanceMode DEF States, Cancellable
<1>2. Idle.mode = "none" /\ Release(w, "cancelled").mode = w.mode /\ Fail(w).mode = w.mode
  BY ReleaseMode DEF Idle
<1>3. Reconcile(w) \in {Idle, Release(w, "cancelled"), Fail(w)} \cup
        {Advance(w, "advance", t) : t \in {"queued", "running", "archiving"}}
  BY DEF Reconcile
<1> QED
  BY <1>1, <1>2, <1>3

LEMMA JudgeMode ==
  ASSUME NEW w \in WorkerSet PROVE Judge(w).mode \in {"none", "cancel", w.mode}
<1>1. /\ Goto(w, "clear").mode = w.mode /\ Goto(w, "confirm").mode = w.mode
      /\ Idle.mode = "none" /\ Release(w, "expired").mode = w.mode
  BY ReleaseMode DEF Goto, WorkerSet, Idle
<1> QED
  BY <1>1, ReconcileMode DEF Judge

LEMMA InspectMode ==
  ASSUME NEW w \in WorkerSet, w.mode # "dispatch", NEW queued, NEW batch
  PROVE  Inspect(w, queued, batch).mode # "dispatch"
<1>1. /\ Goto(w, "history").mode = w.mode /\ Goto(w, "findInQueue").mode = w.mode
      /\ Idle.mode = "none" /\ Fail(w).mode = w.mode
  BY ReleaseMode DEF Goto, WorkerSet, Idle
<1> DEFINE v == [w EXCEPT !.mode = "cancel"]
<1>2. v \in WorkerSet /\ v.mode = "cancel"
  BY DEF WorkerSet
<1> HIDE DEF v
<1>3. Cancel(v).mode # "dispatch"
  BY <1>2, CancelMode
<1> QED
  BY <1>1, <1>3 DEF Inspect, v

-----------------------------------------------------------------------------
(* Submitting. *)

LEMMA StopHere ==
  ASSUME HandoffInv, StopInv, NEW p \in Workers
  PROVE  /\ GoodRow(row) /\ row \in Row /\ (row.released => row.closed)
         /\ worker[p] \in WorkerSet /\ Fit(p, worker[p], row, comfy, LaunchOver)
         /\ (row.rejected => comfy = "refused") /\ RowFit(row, comfy, LaunchOver)
         /\ Sound(row, comfy, LaunchOver) /\ Mild(row, row, comfy)
         /\ p \notin Launchers => Apt(p, worker[p], row, comfy, LaunchOver)
<1>1. /\ GoodRow(row) /\ row \in Row /\ (row.released => row.closed)
      /\ worker[p] \in WorkerSet /\ Fit(p, worker[p], row, comfy, LaunchOver)
      /\ (row.rejected => comfy = "refused") /\ RowFit(row, comfy, LaunchOver)
  BY HereType DEF HandoffInv, RowOK, StopInv, GoodRow
<1>2. LaunchOver \in BOOLEAN
  BY DEF LaunchOver
<1> QED
  BY <1>1, <1>2, SameMild DEF Sound, Apt, Fit

\* A worker past the launch reads, and goes somewhere.
LEMMA ReadStop ==
  ASSUME HandoffInv, StopInv, NEW p \in Workers, At(p, "idle") => p \notin Launchers,
         row' = row, comfy' = comfy, NEW w, Become(p, w),
         w.mode \notin {"dispatch"} \ {worker[p].mode},
         Fit(p, w, row, comfy, LaunchOver)
  PROVE  StopStep(p)
BY StopHere, MildIntro

LEMMA BeforeStop ==
  ASSUME HandoffInv, StopInv, Answering, NEW p \in Workers,
         Reread(p) \/ Admit(p) \/ Postpone(p) \/ Pause(p)
  PROVE  StopStep(p)
<1>p. worker[p].pc \in {"reread", "admit", "postpone", "pause"} /\ ~At(p, "idle")
      /\ comfy' = comfy
  BY DEF Reread, Admit, Postpone, Pause, At, world
<1>q. /\ worker[p].pc \in PreBegin /\ worker[p].mode = "dispatch" /\ p \notin Launchers
      /\ worker[p] \in WorkerSet /\ Fit(p, worker[p], row, comfy, LaunchOver)
      /\ Sound(row, comfy, LaunchOver)
  BY <1>p, StopHere DEF PreBegin, Fit, Placed, LauncherPlaces
<1>i. Fit(p, Idle, row', comfy, LaunchOver) /\ Idle.mode = "none"
  BY IdleFit DEF Idle
<1>f. Fit(p, Fail(worker[p]), row, comfy, LaunchOver) /\ Fail(worker[p]).mode = "dispatch"
  BY <1>q, PreFail
<1>g. ASSUME NEW pc \in {"postpone", "pause", "begin"}
      PROVE  /\ Fit(p, Goto(worker[p], pc), row, comfy, LaunchOver)
             /\ Goto(worker[p], pc).mode = "dispatch"
  <2>1. pc \in PCs /\ pc \in PreBegin
    BY DEF PCs, PreBegin
  <2>2. worker[p] \in WorkerSet
    BY <1>q
  <2>3. Goto(worker[p], pc).mode = "dispatch"
    BY <1>q, <2>1, <2>2, GotoType
  <2>4. pc \notin Launching
    BY DEF Launching
  <2>5. Fit(p, Goto(worker[p], pc), row, comfy, LaunchOver)
    <3>1. pc \in Launching => p \in Launchers
      BY <2>4
    <3>2. p \in Launchers => pc \in LauncherPlaces \ {"check"}
      BY <1>q
    <3>3. worker[p].pc \in PreBegin /\ Sound(row, comfy, LaunchOver)
          /\ Fit(p, worker[p], row, comfy, LaunchOver)
      BY <1>q
    <3> QED
      BY <2>1, <2>2, <3>1, <3>2, <3>3, PreFit
  <2> QED
    BY <2>3, <2>5
<1>1. CASE Reread(p)
  <2> DEFINE w == Holding(worker[p], row)
  <2>1. /\ Apt(p, w, row, comfy, LaunchOver) /\ w.job = View(row)
        /\ w.mode = worker[p].mode
    BY <1>q, StopHere, HoldingApt
  <2>2. Fit(p, Cancel(Turn(w, "cancel")), row, comfy, LaunchOver)
    BY <1>q, <2>1, TurnApt, CancelFit
  <2>3. Cancel(Turn(w, "cancel")).mode # "dispatch"
    <3>1. Turn(w, "cancel") \in WorkerSet /\ Turn(w, "cancel").mode = "cancel"
      BY <2>1, TurnApt DEF Apt
    <3> QED
      BY <3>1, CancelMode
  <2>4. /\ Fit(p, Goto(w, "admit"), row, comfy, LaunchOver)
        /\ Goto(w, "admit").mode = "dispatch"
    <3>1. w.mode = "dispatch"
      BY <1>q, <2>1
    <3>2. Apt(p, Goto(w, "admit"), row, comfy, LaunchOver) /\ Goto(w, "admit").pc = "admit"
          /\ Goto(w, "admit").mode = "dispatch"
      BY <2>1, <3>1, GotoApt, GotoType DEF PCs, Apt
    <3>3. row.closed \/ ~row.started
      BY <1>q DEF Fit, Placed
    <3> QED
      BY <1>q, <3>2, <3>3 DEF Apt, Fit, Placed, Prompted, Launching
  <2> HIDE DEF w
  <2>5. Become(p, Idle) \/ Become(p, Cancel(Turn(w, "cancel"))) \/ Become(p, Goto(w, "admit"))
    BY <1>1 DEF Reread, Turn, w
  <2> QED
    BY <1>1, <1>p, <1>q, <1>i, <2>2, <2>3, <2>4, <2>5, ReadStop DEF Reread
<1>2. CASE Admit(p)
  BY <1>2, <1>p, <1>q, <1>g, ReadStop DEF Admit, Answering
<1>3. CASE Postpone(p)
  <2>1. Mild(row, row', comfy)
    BY <1>3, StopHere, StoreMild DEF Postpone
  <2> QED
    BY <1>3, <1>p, <1>i, <2>1, MildIntro DEF Postpone
<1>4. CASE Pause(p)
  BY <1>4, <1>p, <1>q, <1>g, <1>f, ReadStop DEF Pause
<1> QED
  BY <1>1, <1>2, <1>3, <1>4

\* The submission begins: the worker is the one dispatcher of the job.
LEMMA BeginStop ==
  ASSUME HandoffInv, StopInv, NEW p \in Workers, Begin(p)
  PROVE  StopStep(p)
<1>p. worker[p].pc = "begin" /\ ~At(p, "idle") /\ comfy' = comfy
  BY DEF Begin, At, world
<1>q. /\ worker[p].pc \in PreBegin /\ worker[p].mode = "dispatch" /\ p \notin Launchers
      /\ worker[p] \in WorkerSet /\ Fit(p, worker[p], row, comfy, LaunchOver)
      /\ Sound(row, comfy, LaunchOver) /\ row \in Row /\ RowFit(row, comfy, LaunchOver)
      /\ Apt(p, worker[p], row, comfy, LaunchOver)
  BY <1>p, StopHere DEF PreBegin, Fit, Placed, LauncherPlaces
<1>1. CASE row' = row /\ Become(p, Fail(worker[p]))
  <2>1. Fit(p, Fail(worker[p]), row, comfy, LaunchOver) /\ Fail(worker[p]).mode = "dispatch"
    BY <1>q, PreFail
  <2> QED
    BY <1>1, <1>p, <1>q, <2>1, ReadStop
<1>2. CASE CanBegin(row, worker[p].job.token) /\ row' = Begun(row)
           /\ Become(p, Goto(worker[p], "post"))
  <2>1. ~row.closed /\ ~row.cancelReq /\ ~row.started /\ row.queued
    BY <1>2, <1>q DEF CanBegin, Dispatchable, RowFit
  <2>2. /\ row'.started /\ row'.batch = row.batch /\ row'.owner = row.owner
        /\ row'.closed = row.closed /\ row'.token = row.token
        /\ row'.queued = row.queued /\ row'.prompt = row.prompt
        /\ row'.age = row.age /\ row'.cancelReq = row.cancelReq
        /\ row'.lease = row.lease /\ row'.cancelConf = row.cancelConf
    BY <1>2, <1>q DEF Row, Begun
  <2>3. \A q \in Workers : q # p => worker[q].mode # "dispatch"
    BY <1>q, <2>1 DEF StopInv, Exclusive
  <2>4. RowFit(row', comfy', LaunchOver)
    BY <1>p, <1>q, <2>1, <2>2 DEF RowFit, Halted
  <2>5. Steady(row, row', comfy, comfy', LaunchOver, LaunchOver)
    BY <1>p, <2>1, <2>2 DEF Steady, Halted, Unlaunched
  <2>6. \A q \in Workers : q # p => DispatchKept(q, worker[q], row, row')
    BY <2>3 DEF DispatchKept
  <2>7. Apt(p, worker[p], row', comfy, LaunchOver)
    BY <1>q, <2>1, <2>2 DEF Apt, Knows, Halted
  <2>8. Fit(p, Goto(worker[p], "post"), row', comfy, LaunchOver)
    BY <2>7, GotoFree DEF Free
  <2> QED
    BY <1>2, <1>p, <2>3, <2>4, <2>5, <2>6, <2>8 DEF StopStep
<1> QED
  BY <1>1, <1>2 DEF Begin

LEMMA PostStop ==
  ASSUME HandoffInv, StopInv, NEW p \in Workers, Post(p)
  PROVE  StopStep(p)
<1>p. worker[p].pc = "post" /\ ~At(p, "idle") /\ comfy' = "inflight" /\ row' = row
      /\ Become(p, Goto(worker[p], "reply"))
  BY DEF Post, At
<1>q. /\ p \notin Launchers /\ worker[p] \in WorkerSet
      /\ Fit(p, worker[p], row, comfy, LaunchOver) /\ RowFit(row, comfy, LaunchOver)
      /\ LaunchOver \in BOOLEAN /\ Apt(p, worker[p], row, comfy, LaunchOver)
  BY <1>p, StopHere DEF Fit, Placed, LauncherPlaces, Sound
<1>1. row.started /\ comfy = "absent" /\ ~row.closed
  BY <1>p DEF HandoffInv, PositionOK, RowOK, Settled, At
<1>2. ~Halted(row, comfy)
  BY <1>1 DEF Halted, Stopped
<1>3. RowFit(row', comfy', LaunchOver)
  BY <1>1, <1>2, <1>p, <1>q DEF RowFit
<1>4. Steady(row, row', comfy, comfy', LaunchOver, LaunchOver)
  BY <1>1, <1>2, <1>p DEF Steady, Stopped, Produced, Unlaunched
<1>5. \A q : DispatchKept(q, worker[q], row, row')
  BY <1>p DEF DispatchKept
<1>6. Fit(p, worker[p], row', comfy', LaunchOver)
  BY <1>4, <1>5, <1>q, FitKept
<1>7. Apt(p, worker[p], row', comfy', LaunchOver)
  BY <1>6, <1>q DEF Apt, Fit
<1>8. Fit(p, Goto(worker[p], "reply"), row', comfy', LaunchOver)
  BY <1>7, GotoFree DEF Free
<1>9. ASSUME NEW q \in Workers, q # p, Goto(worker[p], "reply").mode = "dispatch",
             worker[q].mode = "dispatch"
      PROVE  row'.closed
  <2>1. worker[p].mode = "dispatch"
    BY <1>9, <1>q, GotoType DEF PCs
  <2> QED
    BY <1>9, <1>p, <2>1 DEF StopInv, Exclusive
<1> QED
  BY <1>p, <1>3, <1>4, <1>5, <1>8, <1>9 DEF StopStep

LEMMA AfterStop ==
  ASSUME HandoffInv, StopInv, Answering, NEW p \in Workers,
         Reply(p) \/ Reject(p) \/ Bind(p) \/ Charge(p) \/ Enqueued(p)
  PROVE  StopStep(p)
<1>p. worker[p].pc \in {"reply", "reject", "bind", "found", "charge", "recharge", "enqueued"}
      /\ ~At(p, "idle") /\ comfy' = comfy
  BY DEF Reply, Reject, Bind, Charge, Enqueued, At, world
<1>q. /\ p \notin Launchers /\ worker[p] \in WorkerSet /\ GoodRow(row) /\ row \in Row
      /\ Apt(p, worker[p], row, comfy, LaunchOver) /\ Sound(row, comfy, LaunchOver)
      /\ Fit(p, worker[p], row, comfy, LaunchOver) /\ (row.rejected => comfy = "refused")
  BY <1>p, StopHere DEF Fit, Placed, LauncherPlaces
<1>i. Fit(p, Idle, row', comfy, LaunchOver) /\ Idle.mode = "none"
  BY IdleFit DEF Idle
<1>m. /\ \A pc \in PCs : Goto(worker[p], pc).mode = worker[p].mode
      /\ Fail(worker[p]).mode = worker[p].mode
  BY <1>q, GotoType DEF Fail, Release, WorkerSet
<1>a. ASSUME Mild(row, row', comfy), row'.rejected => comfy = "refused"
      PROVE  /\ Sound(row', comfy, LaunchOver) /\ row' \in Row
             /\ Apt(p, worker[p], row', comfy, LaunchOver)
  BY <1>a, <1>q, MildHere DEF Mild
<1>1. CASE Reply(p)
  <2>1. ASSUME NEW pc \in {"bind", "reject"} PROVE Fit(p, Goto(worker[p], pc), row, comfy, LaunchOver)
    BY <1>q, GotoFree DEF Free
  <2>2. comfy = "lost" => Fit(p, Fail(worker[p]), row, comfy, LaunchOver)
    BY <1>q, HaltedFit DEF Halted, Stopped, States
  <2>3. \E w : Become(p, w) /\ w.mode = worker[p].mode /\ Fit(p, w, row, comfy, LaunchOver)
    BY <1>1, <1>m, <2>1, <2>2 DEF Reply, Answering, PCs
  <2> QED
    BY <1>1, <1>p, <2>3, ReadStop DEF Reply
<1>2. CASE Reject(p)
  <2>1. comfy = "refused"
    BY <1>2 DEF Reject, HandoffInv, PositionOK
  <2>2. CASE row' = row
    BY <1>2, <1>p, <1>i, <1>m, <2>1, <2>2, ReadStop, HaltedFit, <1>q
    DEF Reject, Halted, Stopped, States
  <2>3. CASE row' = Rejected(row) /\ Become(p, Fail(worker[p]))
    <3>1. Mild(row, row', comfy)
      BY <1>q, <2>3, StoreMild
    <3>2. Fit(p, Fail(worker[p]), row', comfy, LaunchOver)
      BY <1>a, <2>1, <3>1, HaltedFit DEF Halted, Stopped, States
    <3> QED
      BY <1>m, <1>p, <2>3, <3>1, <3>2, MildIntro
  <2> QED
    BY <1>2, <2>2, <2>3 DEF Reject
<1>3. CASE Bind(p)
  <2>1. Mild(row, row', comfy) /\ row'.rejected = row.rejected /\ row'.prompt
    BY <1>3, <1>q, StoreMild DEF Bind, Bound, Row
  <2>2. Apt(p, worker[p], row', comfy, LaunchOver) /\ Sound(row', comfy, LaunchOver)
    BY <1>a, <1>q, <2>1
  <2>3. ASSUME NEW pc \in {"charge", "recharge"}
        PROVE  /\ Fit(p, Holding(Goto(worker[p], pc), row'), row', comfy, LaunchOver)
               /\ Holding(Goto(worker[p], pc), row').mode = worker[p].mode
    <3> DEFINE h == Holding(Goto(worker[p], pc), row')
    <3>1. pc \in PCs
      BY DEF PCs
    <3>2. Apt(p, Goto(worker[p], pc), row', comfy, LaunchOver)
          /\ Goto(worker[p], pc).pc = pc /\ Goto(worker[p], pc).mode = worker[p].mode
      BY <1>m, <2>2, <3>1, GotoApt
    <3>3. Apt(p, h, row', comfy, LaunchOver) /\ h.job = View(row') /\ h.pc = pc
          /\ h.mode = worker[p].mode
      BY <2>2, <3>2, HoldingApt
    <3>4. View(row').prompt
      BY <2>1 DEF View
    <3> HIDE DEF h
    <3>5. Fit(p, h, row', comfy, LaunchOver)
      BY <2>1, <3>3, <3>4 DEF Apt, Fit, Placed, PreBegin, Prompted, Launching
    <3> QED
      BY <3>3, <3>5 DEF h
  <2>4. \E w : Become(p, w) /\ w.mode = worker[p].mode /\ Fit(p, w, row', comfy, LaunchOver)
    BY <1>3, <2>3 DEF Bind
  <2> QED
    BY <1>p, <2>1, <2>4, MildIntro
<1>4. CASE Charge(p)
  <2>1. Mild(row, row', comfy) /\ row'.rejected = row.rejected
    BY <1>4, <1>q, StoreMild DEF Charge, Committed, Row, Mild
  <2>2. Apt(p, worker[p], row', comfy, LaunchOver) /\ Sound(row', comfy, LaunchOver)
    BY <1>a, <1>q, <2>1
  <2>3. Fit(p, Goto(worker[p], "enqueued"), row', comfy, LaunchOver)
    BY <2>2, GotoFree DEF Free
  <2>4. ASSUME At(p, "recharge")
        PROVE  /\ Fit(p, Advance(worker[p], "requeue", "queued"), row', comfy, LaunchOver)
               /\ Advance(worker[p], "requeue", "queued").mode
                    \in {"none", "cancel", worker[p].mode}
    <3>1. row.prompt /\ worker[p].job.prompt
      BY <1>q, <2>4 DEF At, Fit, Placed, Prompted
    <3>2. row'.prompt
      BY <2>1, <3>1 DEF Mild
    <3>3. "queued" \in States
      BY DEF States, Cancellable
    <3> QED
      BY <1>q, <2>2, <3>1, <3>2, <3>3, AdvanceFit, AdvanceMode
  <2>5. \E w : /\ Become(p, w) /\ Fit(p, w, row', comfy, LaunchOver)
               /\ w.mode \notin {"dispatch"} \ {worker[p].mode}
    BY <1>4, <1>i, <1>m, <2>3, <2>4 DEF Charge, PCs
  <2> QED
    BY <1>p, <2>1, <2>5, MildIntro
<1>5. CASE Enqueued(p)
  <2>1. Mild(row, row', comfy) /\ row'.rejected = row.rejected
    <3>1. row' = AfterTransition(row, "queued")
      BY <1>5 DEF Enqueued, Move
    <3> QED
      BY <1>q, <3>1, StopHere, TransitionMild, TransitionKeeps DEF Keeps
  <2>2. Fit(p, Holding(Idle, row'), row', comfy, LaunchOver) /\ Holding(Idle, row').mode = "none"
    BY <1>a, <1>q, <2>1, IdleHolding
  <2> QED
    BY <1>5, <1>i, <1>p, <2>1, <2>2, MildIntro DEF Enqueued, Move
<1> QED
  BY <1>1, <1>2, <1>3, <1>4, <1>5

-----------------------------------------------------------------------------
(* Releasing. *)

\* The rest of a release, the launchers' too.
LEMMA LateFit ==
  ASSUME NEW p, NEW w \in WorkerSet, NEW r, NEW c, NEW over, Fit(p, w, r, c, over),
         w.pc \in {"fence", "refund", "resume", "mark", "finish"},
         NEW pc \in {"refund", "resume", "mark", "finish"}
  PROVE  Fit(p, Goto(w, pc), r, c, over)
<1>1. pc \in PCs /\ pc \in LauncherPlaces /\ pc # "check" /\ pc # "idle"
      /\ pc \notin PreBegin /\ pc \notin Launching /\ pc \notin Prompted
  BY DEF PCs, LauncherPlaces, PreBegin, Launching, Prompted
<1>2. /\ Goto(w, pc).pc = pc /\ Goto(w, pc).mode = w.mode /\ Goto(w, pc).job = w.job
      /\ Goto(w, pc).seen = w.seen /\ Goto(w, pc).old = w.old
  BY <1>1 DEF Goto, WorkerSet
<1>3. Knows(p, Goto(w, pc), r, c, over)
  BY <1>2 DEF Fit, Knows
<1>4. p \in Launchers => w.mode = "dispatch" /\ ~r.batch /\ (r.closed \/ ~r.queued)
  BY DEF Fit, Placed
<1> QED
  BY <1>1, <1>2, <1>3, <1>4 DEF Fit, Placed

LEMMA LateHolding ==
  ASSUME NEW p, NEW w \in WorkerSet, NEW r, NEW c, NEW over, Fit(p, w, r, c, over),
         Sound(r, c, over), w.pc \in {"resume", "mark", "finish"}
  PROVE  Fit(p, Holding(w, r), r, c, over) /\ Holding(w, r).mode = w.mode
<1>1. View(r).owner /\ View(r).prompt = r.prompt /\ View(r).cancelConf = r.cancelConf
      /\ View(r) \in ViewSet
  BY ViewType DEF Sound, RowFit, View
<1> DEFINE o == IF w.mode = "sweep" THEN r.age ELSE 0
           h == Holding(w, r)
<1>2. o \in Elapsed /\ (o > 0 => over)
  BY DEF Elapsed, Sound, RowFit, Row
<1>3. ASSUME NEW v \in ViewSet, NEW a \in Elapsed
      PROVE  /\ [w EXCEPT !.job = v, !.old = a].job = v
             /\ [w EXCEPT !.job = v, !.old = a].old = a
             /\ [w EXCEPT !.job = v, !.old = a].pc = w.pc
             /\ [w EXCEPT !.job = v, !.old = a].mode = w.mode
             /\ [w EXCEPT !.job = v, !.old = a].seen = w.seen
  BY DEF WorkerSet
<1>4. h = [w EXCEPT !.job = View(r), !.old = o]
  BY DEF Holding
<1> HIDE DEF h, o
<1>5. h.job = View(r) /\ h.old = o /\ h.pc = w.pc /\ h.mode = w.mode /\ h.seen = w.seen
  BY <1>1, <1>2, <1>3, <1>4
<1>6. Knows(p, h, r, c, over)
  <2>1. h.job.owner /\ (h.job.prompt => r.prompt) /\ (h.job.cancelConf => Halted(r, c))
    BY <1>1, <1>5 DEF Sound, RowFit
  <2>2. w.mode = "dispatch" /\ p \notin Launchers => r.closed \/ (r.lease = "live" /\ r.queued)
    BY DEF Fit, Knows
  <2>3. /\ w.seen # "none" => r.prompt
        /\ w.seen = "unknown" => c \in Stopped
        /\ w.seen = "success" => c \in Produced
        /\ w.seen = "error" => c \in {"error", "gone"}
    BY DEF Fit, Knows
  <2> QED
    BY <1>2, <1>5, <2>1, <2>2, <2>3 DEF Knows
<1>7. Fit(p, h, r, c, over)
  BY <1>5, <1>6 DEF Fit, Placed, PreBegin, Launching, Prompted
<1> QED
  BY <1>5, <1>7 DEF h

\* Nothing of the job is in ComfyUI when its hand-off is closed.
LEMMA FenceStop ==
  ASSUME HandoffInv, StopInv, NEW p \in Workers, Fence(p)
  PROVE  StopStep(p)
<1>p. worker[p].pc = "fence" /\ ~At(p, "idle") /\ comfy' = comfy
  BY DEF Fence, At, world
<1>q. /\ worker[p] \in WorkerSet /\ Fit(p, worker[p], row, comfy, LaunchOver)
      /\ RowFit(row, comfy, LaunchOver) /\ row \in Row /\ LaunchOver \in BOOLEAN
  BY StopHere DEF Sound
<1>1. CASE row' = row /\ Become(p, Idle)
  <2>1. Fit(p, Idle, row, comfy, LaunchOver) /\ Idle.mode = "none"
    BY IdleFit DEF Idle
  <2> QED
    BY <1>1, <1>p, <2>1, ReadStop
<1>2. CASE row' = Fenced(row) /\ Become(p, Goto(worker[p], "refund"))
  <2>1. comfy \notin Busy
    <3>1. FenceSafe(worker[p], row, comfy, LaunchOver)
      BY <1>p, <1>q DEF Fit, Placed
    <3>2. ~row.started => comfy = "absent"
      BY DEF HandoffInv, RowOK
    <3> QED
      BY <1>q, <3>1, <3>2 DEF FenceSafe, Halted, Stopped, Busy, Unlaunched, RowFit
  <2>2. /\ row'.closed /\ row'.batch = row.batch /\ row'.owner = row.owner
        /\ row'.started = row.started /\ row'.token = NoToken
        /\ row'.prompt = row.prompt /\ row'.age = row.age
        /\ row'.cancelReq = row.cancelReq /\ row'.cancelConf = row.cancelConf
    BY <1>2, <1>q DEF Row, Fenced
  <2>3. RowFit(row', comfy', LaunchOver)
    BY <1>p, <1>q, <2>1, <2>2 DEF RowFit, Halted
  <2>4. Steady(row, row', comfy, comfy', LaunchOver, LaunchOver)
    BY <1>p, <2>2 DEF Steady, Halted
  <2>5. \A q : DispatchKept(q, worker[q], row, row')
    BY <2>2 DEF DispatchKept
  <2>6. Fit(p, worker[p], row', comfy, LaunchOver)
    BY <1>p, <1>q, <2>4, <2>5, FitKept
  <2>7. Fit(p, Goto(worker[p], "refund"), row', comfy, LaunchOver)
    BY <1>p, <1>q, <2>6, LateFit
  <2> QED
    BY <1>2, <1>p, <2>2, <2>3, <2>4, <2>5, <2>7 DEF StopStep
<1> QED
  BY <1>1, <1>2 DEF Fence

LEMMA ReleaseStop ==
  ASSUME HandoffInv, StopInv, NEW p \in Workers,
         Refund(p) \/ Resume(p) \/ Mark(p) \/ Finish(p)
  PROVE  StopStep(p)
<1>p. worker[p].pc \in {"refund", "resume", "mark", "finish"} /\ ~At(p, "idle")
      /\ comfy' = comfy
  BY DEF Refund, Resume, Mark, Finish, At, world
<1>q. /\ worker[p] \in WorkerSet /\ Fit(p, worker[p], row, comfy, LaunchOver)
      /\ Sound(row, comfy, LaunchOver) /\ row \in Row /\ GoodRow(row)
      /\ (row.released => row.closed) /\ (row.rejected => comfy = "refused")
  BY StopHere
<1>i. Fit(p, Idle, row', comfy, LaunchOver) /\ Idle.mode = "none"
  BY IdleFit DEF Idle
<1>a. ASSUME Mild(row, row', comfy), row'.rejected = row.rejected
      PROVE  Sound(row', comfy, LaunchOver) /\ Fit(p, worker[p], row', comfy, LaunchOver)
  BY <1>a, <1>q, MildHere
<1>g. ASSUME Mild(row, row', comfy), row'.rejected = row.rejected,
             NEW pc \in {"resume", "mark", "finish"}
      PROVE  /\ Fit(p, Goto(worker[p], pc), row', comfy, LaunchOver)
             /\ Goto(worker[p], pc).mode = worker[p].mode
             /\ Goto(worker[p], pc) \in WorkerSet /\ Goto(worker[p], pc).pc = pc
  BY <1>a, <1>g, <1>p, <1>q, LateFit, GotoType DEF PCs
<1>1. CASE Refund(p)
  <2>1. Mild(row, row', comfy) /\ row'.rejected = row.rejected
    BY <1>1, <1>q, StoreMild, StoreKeeps DEF Refund, Keeps
  <2> QED
    BY <1>1, <1>p, <1>g, <2>1, MildIntro DEF Refund
<1>2. CASE Resume(p)
  BY <1>2, <1>p, <1>g, <1>i, StopHere, MildIntro DEF Resume
<1>3. CASE Mark(p)
  <2>1. CASE row' = row /\ Become(p, Idle)
    BY <2>1, <1>p, <1>i, ReadStop
  <2>2. CASE row' = Released(row) /\ Become(p, Holding(Goto(worker[p], "finish"), row'))
    <3>1. Mild(row, row', comfy) /\ row'.rejected = row.rejected
      BY <1>q, <2>2, StoreMild DEF Released, Row
    <3>2. /\ Fit(p, Holding(Goto(worker[p], "finish"), row'), row', comfy, LaunchOver)
          /\ Holding(Goto(worker[p], "finish"), row').mode = worker[p].mode
      BY <1>a, <1>g, <3>1, LateHolding
    <3> QED
      BY <1>p, <2>2, <3>1, <3>2, MildIntro
  <2> QED
    BY <1>3, <2>1, <2>2 DEF Mark
<1>4. CASE Finish(p)
  <2>1. CASE row' = row /\ Become(p, Idle)
    BY <2>1, <1>p, <1>i, ReadStop
  <2>2. CASE Move(p, worker[p].goal, Idle, Idle)
    <3>1. row.closed
      BY <1>4 DEF Finish, HandoffInv, PositionOK, At
    <3>2. row' = AfterTransition(row, worker[p].goal)
      BY <2>2 DEF Move
    <3>3. Mild(row, row', comfy) /\ row'.rejected = row.rejected
      BY <1>q, <3>1, <3>2, TransitionMild, TransitionKeeps DEF Keeps
    <3>4. Fit(p, Holding(Idle, row'), row', comfy, LaunchOver)
          /\ Holding(Idle, row').mode = "none"
      BY <1>a, <3>3, IdleHolding
    <3> QED
      BY <1>i, <1>p, <2>2, <3>3, <3>4, MildIntro DEF Move
  <2> QED
    BY <1>4, <2>1, <2>2 DEF Finish
<1> QED
  BY <1>1, <1>2, <1>3, <1>4

-----------------------------------------------------------------------------
(* Looking for the prompt, and cancelling it. *)

LEMMA SearchStop ==
  ASSUME HandoffInv, StopInv, CompletedInv, Answering, NEW p \in Workers,
         FindInQueue(p) \/ FindInHistory(p) \/ ReadHistory(p) \/ ReadQueue(p)
         \/ Control(p) \/ Archive(p)
  PROVE  StopStep(p)
<1>p. /\ worker[p].pc \in {"findInQueue", "findInHistory", "findOnlyInHistory", "history",
                           "queue", "control", "archive"}
      /\ ~At(p, "idle") /\ comfy' = comfy /\ row' = row
  BY DEF FindInQueue, FindInHistory, ReadHistory, ReadQueue, Control, Archive, At, world
<1>q. /\ p \notin Launchers /\ worker[p] \in WorkerSet /\ Sound(row, comfy, LaunchOver)
      /\ Apt(p, worker[p], row, comfy, LaunchOver)
      /\ Fit(p, worker[p], row, comfy, LaunchOver)
  BY <1>p, StopHere DEF Fit, Placed, LauncherPlaces
<1>i. Fit(p, Idle, row, comfy, LaunchOver) /\ Idle.mode = "none"
  BY IdleFit DEF Idle
<1>g. ASSUME NEW pc \in PCs PROVE Goto(worker[p], pc).mode = worker[p].mode
  BY <1>q, GotoType
<1>w. ASSUME \E w : /\ Become(p, w) /\ Fit(p, w, row, comfy, LaunchOver)
                    /\ w.mode \in {"none", "cancel", worker[p].mode}
      PROVE  StopStep(p)
  BY <1>p, <1>w, ReadStop
<1>o. "outage" \notin Faults
  BY DEF Answering
<1>1. CASE FindInQueue(p)
  <2>1. Fit(p, Goto(worker[p], "found"), row, comfy, LaunchOver)
    BY <1>q, GotoFree DEF Free
  <2>2. Fit(p, Goto(worker[p], "findInHistory"), row, comfy, LaunchOver)
    <3>1. /\ Apt(p, Goto(worker[p], "findInHistory"), row, comfy, LaunchOver)
          /\ Goto(worker[p], "findInHistory").pc = "findInHistory"
          /\ Goto(worker[p], "findInHistory").mode = worker[p].mode
          /\ Goto(worker[p], "findInHistory").job = worker[p].job
      BY <1>q, GotoApt, GotoType DEF PCs
    <3>2. Goto(worker[p], "findInHistory").old = worker[p].old
      BY <1>q DEF Goto, WorkerSet
    <3>3. worker[p].mode = "sweep" /\ ~worker[p].job.started /\ worker[p].old > 0
          => row.closed \/ Unlaunched(row, LaunchOver)
      BY <1>1, <1>q DEF FindInQueue, At, Fit, Placed
    <3> QED
      BY <1>q, <3>1, <3>2, <3>3 DEF Apt, Fit, Placed, PreBegin, Prompted, Launching
  <2> QED
    BY <1>1, <1>g, <1>o, <1>w, <2>1, <2>2 DEF FindInQueue, PCs
<1>2. CASE FindInHistory(p)
  <2>1. Fit(p, Goto(worker[p], "found"), row, comfy, LaunchOver)
    BY <1>q, GotoFree DEF Free
  <2>2. ASSUME At(p, "findInHistory"), worker[p].mode = "sweep", ~worker[p].job.started,
               worker[p].old > 0
        PROVE  /\ Fit(p, Release(worker[p], "expired"), row, comfy, LaunchOver)
               /\ Release(worker[p], "expired").mode = worker[p].mode
    <3>1. FenceSafe(worker[p], row, comfy, LaunchOver)
      BY <1>q, <2>2 DEF At, Fit, Placed, FenceSafe
    <3> QED
      BY <1>q, <3>1, ReleaseFit, ReleaseMode DEF States, Terminal
  <2> QED
    BY <1>2, <1>g, <1>i, <1>o, <1>w, <2>1, <2>2 DEF FindInHistory, PCs
<1>s. ASSUME NEW seen \in {"unknown", "pending", "running", "success", "error"}, row.prompt,
             seen = "unknown" => comfy \in Stopped,
             seen = "success" => comfy \in Produced,
             seen = "error" => comfy \in {"error", "gone"}
      PROVE  /\ Fit(p, Judge([worker[p] EXCEPT !.seen = seen]), row, comfy, LaunchOver)
             /\ Judge([worker[p] EXCEPT !.seen = seen]).mode
                  \in {"none", "cancel", worker[p].mode}
  <2> DEFINE v == [worker[p] EXCEPT !.seen = seen]
  <2>1. /\ v \in WorkerSet /\ v.seen = seen /\ v.mode = worker[p].mode
        /\ v.job = worker[p].job /\ v.old = worker[p].old
    BY <1>q DEF WorkerSet
  <2> HIDE DEF v
  <2>2. Apt(p, v, row, comfy, LaunchOver)
    BY <1>q, <1>s, <2>1 DEF Apt, Knows
  <2>3. Fit(p, Judge(v), row, comfy, LaunchOver)
    BY <1>q, <2>1, <2>2, JudgeFit
  <2>4. Judge(v).mode \in {"none", "cancel", worker[p].mode}
    BY <2>1, JudgeMode
  <2> QED
    BY <2>3, <2>4 DEF v
<1>t. At(p, "history") \/ At(p, "queue") \/ At(p, "control") => row.prompt
  BY <1>q DEF At, Fit, Placed, Prompted
<1>3. CASE ReadHistory(p)
  <2>1. Fit(p, Goto(worker[p], "queue"), row, comfy, LaunchOver)
    BY <1>3, <1>q, <1>t, GotoPrompted DEF ReadHistory, Prompted
  <2>2. ASSUME comfy \in {"success", "error"}
        PROVE  /\ Fit(p, Judge([worker[p] EXCEPT !.seen = comfy]), row, comfy, LaunchOver)
               /\ Judge([worker[p] EXCEPT !.seen = comfy]).mode
                    \in {"none", "cancel", worker[p].mode}
    BY <1>3, <1>s, <1>t, <2>2 DEF ReadHistory, Produced
  <2> QED
    BY <1>3, <1>g, <1>o, <1>w, <2>1, <2>2 DEF ReadHistory, PCs
<1>4. CASE ReadQueue(p)
  <2>1. row.prompt /\ comfy \in Accepted
    BY <1>4, <1>t DEF ReadQueue, HandoffInv, RowOK
  <2>2. ASSUME comfy \in {"pending", "running"}
        PROVE  /\ Fit(p, Judge([worker[p] EXCEPT !.seen = comfy]), row, comfy, LaunchOver)
               /\ Judge([worker[p] EXCEPT !.seen = comfy]).mode
                    \in {"none", "cancel", worker[p].mode}
    BY <1>s, <2>1, <2>2
  <2>3. ASSUME comfy \notin {"pending", "running"}
        PROVE  /\ Fit(p, Judge([worker[p] EXCEPT !.seen = "unknown"]), row, comfy, LaunchOver)
               /\ Judge([worker[p] EXCEPT !.seen = "unknown"]).mode
                    \in {"none", "cancel", worker[p].mode}
    BY <1>s, <2>1, <2>3 DEF Accepted, Stopped
  <2> QED
    BY <1>4, <1>o, <1>w, <2>2, <2>3 DEF ReadQueue
<1>5. CASE Control(p)
  <2>1. PICK pc \in {"delete", "interrupt", "history"} : Become(p, Goto(worker[p], pc))
    BY <1>5, <1>o DEF Control
  <2>2. Fit(p, Goto(worker[p], pc), row, comfy, LaunchOver)
    BY <1>5, <1>q, <1>t, GotoPrompted DEF Control, Prompted
  <2> QED
    BY <1>g, <1>w, <2>1, <2>2 DEF PCs
<1>6. CASE Archive(p)
  <2>1. comfy \in Produced
    BY <1>6 DEF Archive, At, CompletedInv, Promises
  <2>2. Fit(p, Release(worker[p], "completed"), row, comfy, LaunchOver)
    BY <1>q, <2>1, HaltedFit DEF Produced, Halted, Stopped, States, Terminal
  <2> QED
    BY <1>6, <1>i, <1>q, <1>w, <2>2, ReleaseMode DEF Archive
<1> QED
  BY <1>1, <1>2, <1>3, <1>4, <1>5, <1>6

LEMMA SendControlStop ==
  ASSUME HandoffInv, StopInv, Answering, NEW p \in Workers, SendControl(p)
  PROVE  StopStep(p)
<1>p. worker[p].pc \in {"delete", "interrupt"} /\ ~At(p, "idle") /\ row' = row
  BY DEF SendControl, At
<1>q. /\ p \notin Launchers /\ worker[p] \in WorkerSet /\ row.prompt
      /\ Fit(p, worker[p], row, comfy, LaunchOver) /\ RowFit(row, comfy, LaunchOver)
      /\ LaunchOver \in BOOLEAN
  BY <1>p, StopHere DEF Fit, Placed, LauncherPlaces, Prompted, Sound
<1>1. \/ comfy' = comfy
      \/ comfy \in {"pending", "running"} /\ comfy' \in {"gone", "error"}
  BY DEF SendControl
<1>2. Halted(row, comfy) => Halted(row', comfy')
  BY <1>1, <1>p DEF Halted, Stopped
<1>3. Steady(row, row', comfy, comfy', LaunchOver, LaunchOver)
  BY <1>1, <1>2, <1>p DEF Steady, Stopped, Produced, Unlaunched
<1>4. RowFit(row', comfy', LaunchOver)
  BY <1>1, <1>2, <1>p, <1>q DEF RowFit, Busy
<1>5. \A q : DispatchKept(q, worker[q], row, row')
  BY <1>p DEF DispatchKept
<1>6. Fit(p, worker[p], row', comfy', LaunchOver)
  BY <1>3, <1>5, <1>q, FitKept
<1> DEFINE v == [worker[p] EXCEPT !.pc = "history", !.sent = TRUE]
<1>7. /\ v \in WorkerSet /\ v.pc = "history" /\ v.mode = worker[p].mode
      /\ v.job = worker[p].job /\ v.old = worker[p].old /\ v.seen = worker[p].seen
  BY <1>q DEF WorkerSet, PCs
<1>8. Become(p, v)
  BY DEF SendControl, Answering
<1> HIDE DEF v
<1>9. Knows(p, v, row', comfy', LaunchOver)
  BY <1>6, <1>7 DEF Fit, Knows
<1>10. Fit(p, v, row', comfy', LaunchOver)
  BY <1>7, <1>9, <1>p, <1>q DEF Fit, Placed, PreBegin, Launching
<1>11. ASSUME NEW q \in Workers, q # p, v.mode = "dispatch", worker[q].mode = "dispatch"
       PROVE  row'.closed
  BY <1>7, <1>11, <1>p DEF StopInv, Exclusive
<1> QED
  BY <1>3, <1>4, <1>5, <1>8, <1>10, <1>11, <1>p DEF StopStep

LEMMA CancellationStop ==
  ASSUME HandoffInv, StopInv, NEW p \in Workers,
         ConfirmCancel(p) \/ ClearCancel(p) \/ AdvanceStep(p) \/ Crash(p)
  PROVE  StopStep(p)
<1>p. ~At(p, "idle") /\ comfy' = comfy
  BY DEF ConfirmCancel, ClearCancel, AdvanceStep, Crash, At, world
<1>q. /\ worker[p] \in WorkerSet /\ Sound(row, comfy, LaunchOver)
      /\ Fit(p, worker[p], row, comfy, LaunchOver) /\ row \in Row /\ GoodRow(row)
      /\ (row.released => row.closed) /\ (row.rejected => comfy = "refused")
      /\ RowFit(row, comfy, LaunchOver)
  BY StopHere
<1>i. Fit(p, Idle, row', comfy, LaunchOver) /\ Idle.mode = "none"
  BY IdleFit DEF Idle
<1>h. ASSUME Mild(row, row', comfy), row'.rejected = row.rejected, p \notin Launchers
      PROVE  /\ Sound(row', comfy, LaunchOver)
             /\ Apt(p, Holding(worker[p], row'), row', comfy, LaunchOver)
             /\ Holding(worker[p], row').mode = worker[p].mode
             /\ Holding(worker[p], row').goal = worker[p].goal
             /\ Holding(worker[p], row').job = View(row')
  BY <1>h, <1>q, MildHere, HoldingApt
<1>r. ASSUME Mild(row, row', comfy), row'.rejected = row.rejected, p \notin Launchers
      PROVE  /\ Fit(p, Reconcile(Holding(worker[p], row')), row', comfy, LaunchOver)
             /\ Reconcile(Holding(worker[p], row')).mode \in {"none", "cancel", worker[p].mode}
  <2>1. Holding(worker[p], row') \in WorkerSet
    BY <1>h, <1>r DEF Apt
  <2> QED
    BY <1>h, <1>r, <2>1, ReconcileFit, ReconcileMode
<1>1. CASE ConfirmCancel(p)
  <2>1. Halted(row, comfy) /\ p \notin Launchers
    BY <1>1, <1>q DEF ConfirmCancel, At, Fit, Placed, LauncherPlaces
  <2>2. Mild(row, row', comfy) /\ row'.rejected = row.rejected
    BY <1>1, <1>q, <2>1, StoreMild, CancelKeeps DEF ConfirmCancel, Keeps
  <2> QED
    BY <1>1, <1>p, <1>r, <2>1, <2>2, MildIntro DEF ConfirmCancel
<1>2. CASE ClearCancel(p)
  <2>1. comfy \in Stopped /\ p \notin Launchers
    BY <1>2, <1>q DEF ClearCancel, At, Fit, Placed, LauncherPlaces, Stopped
  <2>2. Mild(row, row', comfy) /\ row'.rejected = row.rejected
    BY <1>2, <1>q, <2>1, StoreMild, CancelKeeps DEF ClearCancel, Keeps
  <2>3. \E w : /\ Become(p, w) /\ Fit(p, w, row', comfy, LaunchOver)
               /\ w.mode \in {"none", "cancel", worker[p].mode}
    BY <1>2, <1>i, <1>r, <2>1, <2>2 DEF ClearCancel
  <2> QED
    BY <1>p, <2>2, <2>3, MildIntro
<1>3. CASE AdvanceStep(p)
  <2>1. worker[p].pc \in {"advance", "requeue"} /\ row.prompt /\ p \notin Launchers
    BY <1>3, <1>q DEF AdvanceStep, At, Fit, Placed, Prompted, LauncherPlaces
  <2>2. row.queued \/ row.closed
    BY <1>q, <2>1 DEF HandoffInv, RowOK, RowFit
  <2>3. PICK s : row' = AfterTransition(row, s)
    BY <1>3 DEF AdvanceStep
  <2>4. Mild(row, row', comfy) /\ row'.rejected = row.rejected
    BY <1>q, <2>2, <2>3, TransitionMild, TransitionKeeps DEF Keeps
  <2> DEFINE w == Holding(worker[p], row')
  <2>5. /\ Sound(row', comfy, LaunchOver) /\ Apt(p, w, row', comfy, LaunchOver)
        /\ w.mode = worker[p].mode /\ w.goal = worker[p].goal /\ w.job = View(row')
        /\ w.pc = worker[p].pc /\ w \in WorkerSet
    BY <1>h, <1>q, <2>1, <2>4, HoldingType DEF Mild, Apt
  <2>6. row'.prompt /\ w.job.prompt
    BY <2>1, <2>4, <2>5 DEF Mild, View
  <2>7. worker[p].goal \in States \cup {"none"}
    BY <1>q DEF WorkerSet
  <2>8. Become(p, Idle) \/ Become(p, Advance(w, worker[p].pc, worker[p].goal))
    BY <1>3, <2>5 DEF AdvanceStep
  <2> HIDE DEF w
  <2>9. /\ Fit(p, Advance(w, worker[p].pc, worker[p].goal), row', comfy, LaunchOver)
        /\ Advance(w, worker[p].pc, worker[p].goal).mode \in {"none", "cancel", worker[p].mode}
    BY <2>1, <2>5, <2>6, <2>7, AdvanceFit, AdvanceMode
  <2> QED
    BY <1>i, <1>p, <2>4, <2>8, <2>9, MildIntro
<1>4. CASE Crash(p)
  BY <1>4, <1>i, <1>p, ReadStop DEF Crash
<1> QED
  BY <1>1, <1>2, <1>3, <1>4

LEMMA StartStop ==
  ASSUME HandoffInv, StopInv, NEW p \in Workers,
         Sweep(p) \/ SweepLeases(p) \/ Poll(p) \/ Recover(p) \/ RequestCancel(p)
         \/ CancelBatch(p)
  PROVE  StopStep(p)
<1>p. /\ At(p, "idle") /\ comfy' = comfy /\ p \notin Launchers
  BY WorkersAssumption
  DEF Sweep, SweepLeases, Poll, Recover, RequestCancel, CancelBatch, world
<1>q. /\ worker[p] \in WorkerSet /\ Sound(row, comfy, LaunchOver)
      /\ Fit(p, worker[p], row, comfy, LaunchOver) /\ row \in Row /\ GoodRow(row)
      /\ (row.released => row.closed) /\ (row.rejected => comfy = "refused")
      /\ Mild(row, row, comfy)
  BY StopHere
<1>r. /\ Mild(row, row', comfy) /\ row' \in Row /\ Sound(row', comfy, LaunchOver)
  <2>1. Mild(row, row', comfy) /\ row'.rejected = row.rejected
    BY <1>q, StoreMild, CancelKeeps
    DEF Sweep, SweepLeases, Poll, Recover, RequestCancel, CancelBatch, Keeps
  <2> QED
    BY <1>q, <2>1, MildHere DEF Mild
<1>t. ASSUME NEW mode \in {"sweep", "view", "undo", "cancel"}
      PROVE  /\ Apt(p, Take(mode, row'), row', comfy, LaunchOver)
             /\ Take(mode, row').mode = mode /\ Take(mode, row').job = View(row')
             /\ Take(mode, row') \in WorkerSet
  <2>1. /\ Take(mode, row') \in WorkerSet /\ Take(mode, row').mode = mode
        /\ Take(mode, row').job = View(row') /\ Take(mode, row').seen = "none"
        /\ Take(mode, row').old = 0
    BY <1>r, TakeType
  <2>2. View(row').owner /\ View(row').prompt = row'.prompt
        /\ View(row').cancelConf = row'.cancelConf
    BY <1>r DEF Sound, RowFit, View
  <2>3. Knows(p, Take(mode, row'), row', comfy, LaunchOver)
    BY <1>r, <2>1, <2>2 DEF Knows, Sound, RowFit
  <2> QED
    BY <1>p, <2>1, <2>3 DEF Apt
<1>c. ASSUME NEW mode \in {"undo", "cancel"}
      PROVE  /\ Fit(p, Cancel(Take(mode, row')), row', comfy, LaunchOver)
             /\ Cancel(Take(mode, row')).mode # "dispatch"
  BY <1>r, <1>t, CancelFit, CancelMode
<1>w. ASSUME \E w : /\ Become(p, w) /\ Fit(p, w, row', comfy, LaunchOver)
                    /\ w.mode # "dispatch"
      PROVE  StopStep(p)
  BY <1>p, <1>r, <1>w, MildIntro
<1>1. CASE Sweep(p)
  <2> DEFINE v == Holding(Swept, row)
  <2>1. Apt(p, Swept, row, comfy, LaunchOver)
    <3>1. Swept = Turn(Idle, "sweep")
      BY DEF Swept, Turn
    <3>2. Apt(p, Idle, row, comfy, LaunchOver)
      BY <1>p, IdleFit, IdleType DEF Apt, Fit, Calm
    <3> QED
      BY <3>1, <3>2, TurnApt
  <2>2. Apt(p, v, row, comfy, LaunchOver) /\ v.mode = "sweep" /\ v.job = View(row)
    BY <1>q, <2>1, HoldingApt, SweptType
  <2>3. Become(p, Inspect(v, row.queued, row.batch)) /\ row' = row
    BY <1>1 DEF Sweep, Swept
  <2> HIDE DEF v
  <2>4. Fit(p, Inspect(v, row.queued, row.batch), row, comfy, LaunchOver)
    BY <1>q, <2>2, InspectFit
  <2>5. Inspect(v, row.queued, row.batch).mode # "dispatch"
    BY <2>2, InspectMode DEF Apt
  <2> QED
    BY <1>w, <2>3, <2>4, <2>5
<1>2. CASE SweepLeases(p)
  <2>1. CASE UNCHANGED worker
    <3>1. Become(p, worker[p])
      BY <2>1 DEF Become, HandoffInv, TypeOK
    <3> QED
      BY <1>2, <1>p, <1>q, <3>1, ReadStop DEF SweepLeases
  <2>2. CASE row.state \in Terminal /\ Become(p, Release(Take("sweep", row), "none"))
    <3>1. row.closed /\ row' = row
      BY <1>2, <1>q, <2>2 DEF GoodRow, SweepLeases
    <3>2. Fit(p, Release(Take("sweep", row), "none"), row, comfy, LaunchOver)
      BY <1>t, <3>1, ReleaseFit DEF FenceSafe
    <3>3. Release(Take("sweep", row), "none").mode # "dispatch"
      BY <1>t, <3>1, ReleaseMode
    <3> QED
      BY <1>w, <2>2, <3>1, <3>2, <3>3
  <2> QED
    BY <1>2, <2>1, <2>2 DEF SweepLeases, Take
<1>3. CASE Poll(p)
  <2>1. row' = row /\ row.prompt
    BY <1>3 DEF Poll
  <2>2. Fit(p, Goto(Take("view", row), "history"), row, comfy, LaunchOver)
        /\ Goto(Take("view", row), "history").mode = "view"
    BY <1>t, <2>1, GotoPrompted, GotoType DEF Prompted, PCs
  <2>3. [Take("view", row) EXCEPT !.mode = "cancel"] = Turn(Take("view", row), "cancel")
    BY DEF Turn
  <2>4. Fit(p, Cancel(Turn(Take("view", row), "cancel")), row, comfy, LaunchOver)
        /\ Cancel(Turn(Take("view", row), "cancel")).mode # "dispatch"
    <3>1. /\ Apt(p, Turn(Take("view", row), "cancel"), row, comfy, LaunchOver)
          /\ Turn(Take("view", row), "cancel").mode = "cancel"
          /\ Turn(Take("view", row), "cancel").job = View(row)
      BY <1>t, <2>1, TurnApt
    <3> QED
      BY <1>q, <3>1, CancelFit, CancelMode DEF Apt
  <2>5. \/ Become(p, Cancel([Take("view", row) EXCEPT !.mode = "cancel"]))
        \/ Become(p, Goto(Take("view", row), "history"))
    BY <1>3 DEF Poll, Take
  <2> QED
    BY <1>w, <2>1, <2>2, <2>3, <2>4, <2>5
<1>4. CASE Recover(p)
  <2>1. row' = row
    BY <1>4 DEF Recover
  <2>2. /\ row.prompt => Fit(p, Goto(Take("view", row), "history"), row, comfy, LaunchOver)
        /\ Goto(Take("view", row), "history").mode = "view"
    BY <1>t, <2>1, GotoPrompted, GotoType DEF Prompted, PCs
  <2>3. Fit(p, Goto(Take("view", row), "findInQueue"), row, comfy, LaunchOver)
        /\ Goto(Take("view", row), "findInQueue").mode = "view"
    <3>1. /\ Apt(p, Goto(Take("view", row), "findInQueue"), row, comfy, LaunchOver)
          /\ Goto(Take("view", row), "findInQueue").pc = "findInQueue"
          /\ Goto(Take("view", row), "findInQueue").mode = "view"
      BY <1>t, <2>1, GotoApt, GotoType DEF PCs
    <3> QED
      BY <1>p, <3>1 DEF Apt, Fit, Placed, PreBegin, Prompted, Launching
  <2>4. Become(p, Goto(Take("view", row), IF row.prompt THEN "history" ELSE "findInQueue"))
    BY <1>4 DEF Recover, Goto, Take
  <2> QED
    BY <1>w, <2>1, <2>2, <2>3, <2>4
<1>5. CASE RequestCancel(p) \/ CancelBatch(p)
  BY <1>5, <1>c, <1>w DEF RequestCancel, CancelBatch, Take
<1> QED
  BY <1>1, <1>2, <1>3, <1>4, <1>5

-----------------------------------------------------------------------------
(* Every step. *)

LEMMA StopWorld ==
  ASSUME HandoffInv, StopInv, Answering,
         Ages \/ LeaseTimesOut \/ OwnerLeaves \/ Comfy \/ UNCHANGED vars
  PROVE  StopInv'
<1>q. row \in Row /\ RowFit(row, comfy, LaunchOver) /\ Exclusive /\ worker' = worker
      /\ (\A p \in Workers : Fit(p, worker[p], row, comfy, LaunchOver))
  BY DEF HandoffInv, TypeOK, StopInv, Ages, LeaseTimesOut, OwnerLeaves, Comfy, vars
<1>s. ASSUME RowFit(row', comfy', LaunchOver),
             Steady(row, row', comfy, comfy', LaunchOver, LaunchOver),
             \A p \in Workers : DispatchKept(p, worker[p], row, row')
      PROVE  StopInv'
  <2>1. LaunchOver' = LaunchOver /\ LaunchOver \in BOOLEAN
    BY <1>q DEF LaunchOver, At
  <2>2. \A p \in Workers : Fit(p, worker[p], row', comfy', LaunchOver)
    BY <1>q, <1>s, <2>1, FitKept
  <2>3. Exclusive'
    BY <1>q, <1>s DEF Exclusive, Steady
  <2> QED
    BY <1>q, <1>s, <2>1, <2>2, <2>3 DEF StopInv
<1>t. ASSUME TimePasses
      PROVE  LaunchOver /\ \A p \in Workers : worker[p].mode # "dispatch"
  <2>1. \A p \in Workers : worker[p].mode # "dispatch"
    BY <1>t DEF TimePasses, Answering
  <2>2. LaunchOver
    BY <1>q, <2>1 DEF LaunchOver, At, Fit, Placed, Workers
  <2> QED
    BY <2>1, <2>2
<1>1. CASE Ages
  <2>1. LaunchOver /\ comfy' = comfy
    BY <1>1, <1>t DEF Ages, world
  <2>2. /\ row'.state = row.state /\ row'.batch = row.batch /\ row'.owner = row.owner
        /\ row'.queued = row.queued /\ row'.token = row.token /\ row'.lease = row.lease
        /\ row'.closed = row.closed /\ row'.started = row.started
        /\ row'.prompt = row.prompt /\ row'.cancelReq = row.cancelReq
        /\ row'.cancelConf = row.cancelConf
    BY <1>1, <1>q DEF Ages, Row
  <2>3. RowFit(row', comfy', LaunchOver)
    BY <1>q, <2>1, <2>2 DEF RowFit, Halted
  <2>4. Steady(row, row', comfy, comfy', LaunchOver, LaunchOver)
    BY <2>1, <2>2 DEF Steady, Halted, Unlaunched
  <2>5. \A p : DispatchKept(p, worker[p], row, row')
    BY <2>2 DEF DispatchKept
  <2> QED
    BY <1>s, <2>3, <2>4, <2>5
<1>2. CASE LeaseTimesOut
  <2>1. comfy' = comfy /\ \A p \in Workers : worker[p].mode # "dispatch"
    BY <1>2, <1>t DEF LeaseTimesOut, world
  <2>2. /\ row'.state = row.state /\ row'.batch = row.batch /\ row'.owner = row.owner
        /\ row'.queued = row.queued /\ row'.token = row.token /\ row'.age = row.age
        /\ row'.closed = row.closed /\ row'.started = row.started
        /\ row'.prompt = row.prompt /\ row'.cancelReq = row.cancelReq
        /\ row'.cancelConf = row.cancelConf
    BY <1>2, <1>q DEF LeaseTimesOut, Row
  <2>3. RowFit(row', comfy', LaunchOver)
    BY <1>q, <2>1, <2>2 DEF RowFit, Halted
  <2>4. Steady(row, row', comfy, comfy', LaunchOver, LaunchOver)
    BY <2>1, <2>2 DEF Steady, Halted, Unlaunched
  <2>5. \A p \in Workers : DispatchKept(p, worker[p], row, row')
    BY <2>1 DEF DispatchKept
  <2> QED
    BY <1>s, <2>3, <2>4, <2>5
<1>3. CASE OwnerLeaves
  BY <1>3 DEF OwnerLeaves, Answering
<1>4. CASE Comfy
  <2>1. row' = row
    BY <1>4 DEF Comfy
  <2>2. /\ comfy \in {"inflight", "pending", "running", "success", "error"}
        /\ comfy' \in ComfySteps[comfy]
    BY <1>4 DEF Comfy, ComfySteps
  <2>3. /\ comfy \in Stopped => comfy' \in Stopped
        /\ comfy \in Produced => comfy' \in Produced
        /\ comfy \in {"error", "gone"} => comfy' \in {"error", "gone"}
        /\ comfy \notin Busy => comfy' \notin Busy
    BY <2>2 DEF ComfySteps, Stopped, Produced, Busy
  <2>4. Halted(row, comfy) => Halted(row', comfy')
    BY <2>1, <2>3 DEF Halted
  <2>5. RowFit(row', comfy', LaunchOver)
    BY <1>q, <2>1, <2>3, <2>4 DEF RowFit
  <2>6. Steady(row, row', comfy, comfy', LaunchOver, LaunchOver)
    BY <2>1, <2>3, <2>4 DEF Steady, Unlaunched
  <2>7. \A p : DispatchKept(p, worker[p], row, row')
    BY <2>1 DEF DispatchKept
  <2> QED
    BY <1>s, <2>5, <2>6, <2>7
<1>5. CASE UNCHANGED vars
  <2>1. row' = row /\ comfy' = comfy
    BY <1>5 DEF vars
  <2>2. Steady(row, row', comfy, comfy', LaunchOver, LaunchOver)
        /\ \A p : DispatchKept(p, worker[p], row, row')
    BY <2>1 DEF Steady, DispatchKept, Unlaunched
  <2> QED
    BY <1>q, <1>s, <2>1, <2>2
<1> QED
  BY <1>1, <1>2, <1>3, <1>4, <1>5

LEMMA StopNext ==
  ASSUME HandoffInv, StopInv, CompletedInv, Answering, [Next]_vars
  PROVE  StopInv'
<1>1. ASSUME NEW p \in Workers, Work(p) PROVE StopInv'
  <2>1. StopStep(p)
    BY <1>1, PreparationStop, PublishStop, BeforeStop, BeginStop, PostStop, AfterStop,
       FenceStop, ReleaseStop, SearchStop, SendControlStop, CancellationStop DEF Work
  <2> QED
    BY <2>1, StopStepKeeps
<1>2. ASSUME NEW p \in Workers, Start(p) \/ Crash(p) PROVE StopInv'
  BY <1>2, ClaimStop, StartStop, CancellationStop, StopStepKeeps DEF Start
<1> QED
  BY <1>1, <1>2, StopWorld DEF Next

LEMMA OneLauncher == \A p, q \in Launchers : p = q
<1>1. IsFiniteSet(Launchers)
  BY WorkersAssumption, FS_Subset DEF Workers
<1> SUFFICES ASSUME NEW p \in Launchers, NEW q \in Launchers, p # q PROVE FALSE
  OBVIOUS
<1>2. IsFiniteSet(Launchers \ {p})
      /\ Cardinality(Launchers \ {p}) = Cardinality(Launchers) - 1
  BY <1>1, FS_RemoveElement
<1>3. Cardinality(Launchers) \in Nat /\ Cardinality(Launchers \ {p}) \in Nat
  BY <1>1, <1>2, FS_CardinalityType
<1>4. Cardinality(Launchers \ {p}) = 0
  BY <1>2, <1>3, WorkersAssumption
<1> QED
  BY <1>2, <1>4, FS_EmptySet

LEMMA StopInit == ASSUME Init PROVE StopInv
<1>1. PICK batch \in BOOLEAN : row = NewRow(batch)
  BY FaultsAssumption DEF Init
<1>2. /\ row \in Row /\ row.state = "draft" /\ row.owner /\ ~row.queued /\ row.token = NoToken
      /\ ~row.closed /\ ~row.started /\ ~row.prompt /\ ~row.cancelConf /\ row.age = 0
  BY <1>1, NewRowType DEF NewRow
<1>3. RowFit(row, comfy, LaunchOver)
  BY <1>2 DEF RowFit
<1> DEFINE l == [Idle EXCEPT !.pc = "launch", !.mode = "dispatch", !.job = View(row)]
<1>4. \A p \in Workers : worker[p] = IF p \in Launchers /\ ~row.batch THEN l ELSE Idle
  BY DEF Init
<1>5. ASSUME NEW i \in WorkerSet, NEW v \in ViewSet, i.seen = "none", i.old = 0
      PROVE  LET w == [i EXCEPT !.pc = "launch", !.mode = "dispatch", !.job = v] IN
             /\ w.pc = "launch" /\ w.mode = "dispatch" /\ w.job = v
             /\ w.seen = "none" /\ w.old = 0
  BY <1>5 DEF WorkerSet
<1>6. View(row) \in ViewSet /\ View(row).owner /\ ~View(row).prompt /\ ~View(row).cancelConf
  BY <1>2, ViewType DEF View
<1>7. Idle \in WorkerSet /\ Idle.seen = "none" /\ Idle.old = 0 /\ Idle.mode = "none"
  BY IdleType DEF Calm, Idle
<1>8. /\ l.pc = "launch" /\ l.mode = "dispatch" /\ l.job = View(row)
      /\ l.seen = "none" /\ l.old = 0
  BY <1>5, <1>6, <1>7
<1> HIDE DEF l
<1>9. ASSUME NEW p \in Launchers, ~row.batch PROVE Fit(p, l, row, comfy, LaunchOver)
  <2>1. Knows(p, l, row, comfy, LaunchOver)
    BY <1>6, <1>8, <1>9 DEF Knows
  <2> QED
    BY <1>2, <1>8, <1>9, <2>1 DEF Fit, Placed, LauncherPlaces, PreBegin, Prompted
<1>10. ASSUME NEW p \in Workers PROVE Fit(p, worker[p], row, comfy, LaunchOver)
  BY <1>4, <1>9, IdleFit
<1>11. Exclusive
  BY <1>4, <1>7, OneLauncher DEF Exclusive
<1> QED
  BY <1>3, <1>10, <1>11 DEF StopInv

\* Where ComfyUI answers, no dispatch outlives its lease and the owner stays, a job
\* that ended has nothing left in ComfyUI, whoever failed, expired, cancelled or
\* completed it.
THEOREM EndedStopped == ASSUME Answering PROVE Spec => []EndedIsStopped
<1>1. Init => StopInv
  BY StopInit
<1>2. HandoffInv /\ CompletedInv /\ StopInv /\ [Next]_vars => StopInv'
  BY StopNext
<1>3. HandoffInv /\ StopInv => EndedIsStopped
  BY DEF HandoffInv, RowOK, StopInv, RowFit, EndedIsStopped
<1> QED
  BY <1>1, <1>2, <1>3, HandoffInvariant, CompletedInvariant, PTL DEF Spec
=============================================================================
