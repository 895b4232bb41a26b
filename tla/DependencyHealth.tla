-------------------------- MODULE DependencyHealth --------------------------
(***************************************************************************)
(* What the Gateway tells about the services it depends on: the loop of    *)
(* the maintenance worker that probes them all, with its deadline and its  *)
(* back-off, the pages of administrators that probe what is due, calls     *)
(* whose outcome is noted beside the probes, and the state that is shown   *)
(* (internal/gateway/maintenance_workers.go, dependency_health.go).        *)
(*                                                                         *)
(* Times are counted in ticks, as ages and as ticks to go.  A tick passes  *)
(* only when nothing is due: timers are not late by more than that.        *)
(***************************************************************************)
EXTENDS Integers

CONSTANTS
  Dependencies,
  Agents,       \* dependencies whose probe has no deadline of its own
  Sampled,      \* RequiresData: the agents of which recent samples are wanted also
  Interval,     \* DEPENDENCY_CHECK_INTERVAL, also the worker's
  Deadline,     \* the worker's Timeout, of pages also
  RetryDelay, MaxBackoff,
  StaleAfter, OfflineAfter,
  MaxChanges    \* bound: changes of a dependency

VARIABLES
  ways,     \* each dependency: how it answers
  noted,   \* dependencyMonitor.records
  probe,    \* the probe of a dependency under way: who made it, its ticks to go
  loop,     \* runMaintenanceWorker
  display,    \* the worker's MaintenanceWorkerState
  down,     \* the Gateway's context is over
  calm,     \* history: ticks in which no dependency changed and no probe was given up
  changes   \* changes of dependencies so far
healthVars == <<ways, noted, probe, loop, display, down, calm, changes>>

\* The answer of an agent does not tell a refused token from another error.
Modes(d) == {"up", "down", "hangs"} \cup (IF d \in Agents THEN {} ELSE {"denied"})
Past == OfflineAfter + 1               \* the age of what is too old to matter
Never == Past + 1                      \* time.Time's zero: it was never heard
NoProbe == [by |-> "nobody", left |-> 0]
\* The longest pause of the worker: the interval after a run that went well, the back-off
\* after one that met its deadline.
Longest == IF MaxBackoff > Interval THEN MaxBackoff ELSE Interval
\* The longest that probes of a dependency are apart: passed by in one run, it waits for the next.
Round == Longest + Interval + 2 * Deadline
\* After that, and after what was heard before is stale, each is judged as it is.
Settling == IF Round > StaleAfter THEN Round ELSE StaleAfter + 1

\* A probe's 4 seconds are less than the least interval that may be configured.  What
\* answers is probed again before it is stale, and before it is offline if the worker
\* backs off: so by default (15, 60, 45 and 180 seconds; config.go, maintenance.go).
ASSUME HealthAssumption ==
  /\ Agents \subseteq Dependencies /\ Sampled \subseteq Agents
  /\ {Interval, Deadline, RetryDelay, MaxBackoff, StaleAfter, OfflineAfter, MaxChanges} \subseteq Nat
  /\ Deadline < Interval
  /\ 2 * Interval + 2 * Deadline <= StaleAfter + 1
  /\ Round <= OfflineAfter + 1 /\ StaleAfter <= OfflineAfter

\* maintenanceWorkerBackoff after so many failures in a row: doubled each time.
Backoff(failures) ==
  LET delay == RetryDelay * 2^(failures - 1) IN
  IF delay \in 0..MaxBackoff THEN delay ELSE MaxBackoff

MaxFailures == MaxBackoff + 1      \* bound: the pause is the longest by then

Up(n, most) == IF n < most THEN n + 1 ELSE n
Older(age) == IF age = Never THEN age ELSE Up(age, Past)
Down(n) == IF n > 0 THEN n - 1 ELSE n

HealthTypeOK ==
  /\ ways \in [Dependencies -> {"up", "down", "hangs", "denied"}]
  /\ \A d \in Dependencies : ways[d] \in Modes(d)
  /\ noted \in [Dependencies -> [age : 0..Never, next : 0..Interval, probing : BOOLEAN,
                                  denied : BOOLEAN]]
  /\ probe \in [Dependencies -> [by : {"nobody", "worker", "page"}, left : 0..Deadline]]
  /\ loop \in [at : {"wait", "run", "finished", "over"}, due : 0..Longest, late : BOOLEAN]
  /\ display \in [running : BOOLEAN, failures : 0..MaxFailures, next : -1..Longest,
                status : {"waiting", "running", "healthy", "retrying", "stopped"}]
  /\ down \in BOOLEAN /\ calm \in 0..Settling
  /\ changes \in 0..MaxChanges

\* register
HealthInit ==
  /\ ways \in [Dependencies -> {"up", "hangs"}]
  /\ noted = [d \in Dependencies |-> [age |-> Never, next |-> 0, probing |-> FALSE,
                                       denied |-> FALSE]]
  /\ probe = [d \in Dependencies |-> NoProbe]
  /\ loop = [at |-> "wait", due |-> 0, late |-> FALSE]
  /\ display = [running |-> FALSE, failures |-> 0, next |-> 0, status |-> "waiting"]
  /\ down = FALSE /\ calm = 0 /\ changes = 0

-----------------------------------------------------------------------------
(* The monitor *)

\* Those whose claim succeeds.
ToProbe == {d \in Dependencies : ~noted[d].probing /\ noted[d].next = 0}

\* refreshDependencyStatuses claims what is due and starts its probes.
StartProbes(who) ==
  /\ noted' = [d \in Dependencies |->
       IF d \in ToProbe THEN [noted[d] EXCEPT !.probing = TRUE, !.next = Interval] ELSE noted[d]]
  /\ probe' = [d \in Dependencies |->
       IF d \in ToProbe THEN [by |-> who, left |-> Deadline] ELSE probe[d]]

Success(r) == [age |-> 0, next |-> Interval, probing |-> FALSE, denied |-> FALSE]

\* Mutant of Failure: only a success ends the claim.
Failure_Claimed(r, denied) == [r EXCEPT !.next = Interval, !.denied = denied]

Failure(r, denied) == [r EXCEPT !.next = Interval, !.denied = denied, !.probing = FALSE]

Heard(d) ==
  [noted EXCEPT ![d] = IF ways[d] = "up" THEN Success(@) ELSE Failure(@, ways[d] = "denied")]

\* The dependency answers the probe.
Answer(d) ==
  /\ probe[d].by # "nobody" /\ ways[d] # "hangs"
  /\ noted' = Heard(d) /\ probe' = [probe EXCEPT ![d] = NoProbe]
  /\ UNCHANGED <<ways, loop, display, down, calm, changes>>

\* It does not; the deadline of the worker's run is met if the probe has none.
TimeOut(d) ==
  /\ probe[d].by # "nobody" /\ ways[d] = "hangs" /\ probe[d].left = 0
  /\ noted' = [noted EXCEPT ![d] = Failure(@, FALSE)]
  /\ probe' = [probe EXCEPT ![d] = NoProbe]
  /\ loop' = [loop EXCEPT !.late = @ \/ (probe[d].by = "worker" /\ d \in Agents)]
  /\ UNCHANGED <<ways, display, down, calm, changes>>

\* The administrator leaves the page, or the Gateway ends: the probe fails.
AbandonProbe(d) ==
  /\ probe[d].by = "page" \/ (probe[d].by = "worker" /\ down)
  /\ noted' = [noted EXCEPT ![d] = Failure(@, FALSE)]
  /\ probe' = [probe EXCEPT ![d] = NoProbe]
  /\ calm' = 0
  /\ UNCHANGED <<ways, loop, display, down, changes>>

\* handleAdminDashboard, handleAdminSystemOverview
Page ==
  /\ ToProbe # {} /\ StartProbes("page")
  /\ UNCHANGED <<ways, loop, display, down, calm, changes>>

\* Another call to the dependency is noted: serviceStatuses, miningOverview.
Observe(d) ==
  /\ noted' = Heard(d)
  /\ UNCHANGED <<ways, probe, loop, display, down, calm, changes>>

\* LastDataAt of what is sampled, as an age.  The heartbeat brings no sample: the collector
\* and the pages note one whenever they have it, and it is as old as the agent says.
Samples(d) == IF d \in Sampled THEN 0..Never ELSE {0}

\* status, with the last sample of that age
State(d, sample) ==
  LET age == noted[d].age
      missing == sample = Never
      fresh == IF ~missing /\ sample > age THEN sample ELSE age
  IN  CASE noted[d].denied -> "misconfigured"
        [] ~noted[d].denied /\ age = Never -> "offline"
        [] ~noted[d].denied /\ age # Never /\ ~missing /\ fresh <= StaleAfter -> "online"
        [] ~noted[d].denied /\ age # Never /\ (missing \/ fresh \in (StaleAfter + 1)..OfflineAfter)
             -> "stale"
        [] OTHER -> "offline"

-----------------------------------------------------------------------------
(* runMaintenanceWorker *)

Wake ==
  /\ loop.at = "wait" /\ loop.due = 0 /\ ~down /\ ~display.running
  /\ loop' = [loop EXCEPT !.at = "run", !.late = FALSE]
  /\ display' = [display EXCEPT !.running = TRUE, !.status = "running", !.next = -1]
  /\ StartProbes("worker")
  /\ UNCHANGED <<ways, down, calm, changes>>

RunOver == loop.at = "run" /\ \A d \in Dependencies : probe[d].by # "worker"

\* finish without an error
EndWell ==
  /\ RunOver /\ ~loop.late /\ ~down
  /\ loop' = [loop EXCEPT !.at = "wait", !.due = Interval]
  /\ display' = [running |-> FALSE, failures |-> 0, next |-> Interval, status |-> "healthy"]
  /\ UNCHANGED <<ways, noted, probe, down, calm, changes>>

\* finish with the context's error; the next run is first shown after the interval.
EndLate ==
  /\ RunOver /\ loop.late /\ ~down
  /\ LET failures == Up(display.failures, MaxFailures) IN
       /\ display' = [running |-> FALSE, failures |-> failures, next |-> Interval,
                    status |-> "retrying"]
       /\ loop' = [loop EXCEPT !.at = "finished", !.due = Backoff(failures)]
  /\ UNCHANGED <<ways, noted, probe, down, calm, changes>>

\* schedule
Reschedule ==
  /\ loop.at = "finished"
  /\ loop' = [loop EXCEPT !.at = "wait"] /\ display' = [display EXCEPT !.next = loop.due]
  /\ UNCHANGED <<ways, noted, probe, down, calm, changes>>

\* interrupt, or the wait is over without a run; then stop.
StopWorker ==
  /\ down /\ (RunOver \/ loop.at = "wait")
  /\ loop' = [at |-> "over", due |-> 0, late |-> FALSE]
  /\ display' = [display EXCEPT !.running = FALSE, !.status = "stopped", !.next = -1]
  /\ UNCHANGED <<ways, noted, probe, down, calm, changes>>

-----------------------------------------------------------------------------
(* Around it *)

Change(d, m) ==
  /\ changes < MaxChanges /\ ways[d] # m
  /\ ways' = [ways EXCEPT ![d] = m] /\ changes' = changes + 1
  /\ calm' = 0
  /\ UNCHANGED <<noted, probe, loop, display, down>>

ShutDown ==
  /\ ~down /\ down' = TRUE
  /\ UNCHANGED <<ways, noted, probe, loop, display, calm, changes>>

TimePasses ==
  /\ ~down
  /\ (loop.at = "run" /\ ~RunOver) \/ (loop.at = "wait" /\ loop.due > 0)
  /\ \A d \in Dependencies : probe[d].by = "nobody" \/ probe[d].left > 0
  /\ noted' = [d \in Dependencies |->
       [noted[d] EXCEPT !.age = Older(@), !.next = Down(@)]]
  /\ probe' = [d \in Dependencies |-> [probe[d] EXCEPT !.left = Down(@)]]
  /\ loop' = [loop EXCEPT !.due = IF loop.at = "wait" THEN @ - 1 ELSE @]
  /\ display' = [display EXCEPT !.next = Down(@)]
  /\ calm' = Up(calm, Settling)
  /\ UNCHANGED <<ways, down, changes>>

HealthNext ==
  \/ \E d \in Dependencies :
       \/ Answer(d) \/ TimeOut(d) \/ AbandonProbe(d) \/ Observe(d)
       \/ \E m \in Modes(d) : Change(d, m)
  \/ Page \/ Wake \/ EndWell \/ EndLate \/ Reschedule \/ StopWorker \/ ShutDown \/ TimePasses

HealthSpec == HealthInit /\ [][HealthNext]_healthVars

-----------------------------------------------------------------------------
\* Once nothing has changed and no probe was given up for as long as the worker may pause
\* and run, each dependency is shown as it is.  One that answers, and whose samples are
\* recent where they are wanted, is online, and stays so unless an agent that hangs keeps
\* the worker in its back-off; one that answers while its samples are old is not online: it
\* is stale until they are too old, and as long as there is none.  One that refuses is
\* misconfigured, and no other is; one that does not answer is not online.  The worker's
\* next run is shown as it will be, and a worker that is over as stopped.
HealthTold ==
  /\ calm = Settling =>
       \A d \in Dependencies : \A sample \in Samples(d) :
         /\ ways[d] = "up" /\ sample <= StaleAfter =>
              \/ State(d, sample) = "online"
              \/ State(d, sample) = "stale" /\ \E a \in Agents : ways[a] = "hangs"
         /\ ways[d] = "up" /\ sample > StaleAfter =>
              State(d, sample) = IF sample = Past THEN "offline" ELSE "stale"
         /\ ways[d] = "denied" <=> State(d, sample) = "misconfigured"
         /\ ways[d] \in {"down", "hangs"} => State(d, sample) # "online"
  /\ loop.at = "wait" => display.next = loop.due /\ ~display.running
  /\ loop.at = "over" => display.status = "stopped" /\ ~display.running
=============================================================================
