---------------------------- MODULE WorkersProofs ----------------------------
(***************************************************************************)
(* Proofs about what goes on in the background: the pause of the miner,    *)
(* the queue of generation jobs, and the worker that probes dependencies.  *)
(* Their modules share no state.                                           *)
(***************************************************************************)
EXTENDS MiningPause, GenerationQueue, DependencyHealth, FiniteSetTheorems, TLAPS

(* MiningPause *)

Reserving == {"look", "viewMore", "stopMore", "createMore", "viewFirst", "createFirst",
              "stopFirst", "undo"}
Releasing == {"mark", "list", "viewResume", "start", "wait", "remove"}

Finished == {"over", "gone"}

CallSet == [at : Steps, work : Works \cup {None}, up : BOOLEAN, saw : BOOLEAN]

PauseTyped ==
  /\ lease \in [Works -> {"none", "held", "ready"}]
  /\ work \in [Works -> {"new", "running", "over", "gone"}]
  /\ sure \in [Works -> BOOLEAN]
  /\ call \in [Gateways -> CallSet]
  /\ \A g \in Gateways : call[g].at # "free" => call[g].work \in Works
  /\ agent \in {"free", "on", "manual"} /\ miner \in {"on", "manual", "off", "paused"}

\* Sure work keeps its lease while it runs, and neither the miner nor a start of it is
\* the Gateway's own.
WorkHolds ==
  \A w \in Works :
    /\ lease[w] = "ready" => work[w] \in Finished
    /\ work[w] = "running" /\ sure[w] => lease[w] # "none" /\ miner # "on" /\ agent # "on"
    /\ work[w] = "new" => ~sure[w]

\* A reservation is for work that has not started, a release for work that is over.
\* Before a start no other lease is there; what an overview saw in a reservation
\* still holds when the lease is made.
CallHolds(g) ==
  /\ call[g].at \in Reserving => work[call[g].work] = "new"
  /\ call[g].at \in Releasing => work[call[g].work] \in Finished
  /\ call[g].at \in {"viewResume", "start"} => Taken \subseteq {call[g].work}
  /\ call[g].at \in Reserving /\ call[g].up => agent # "on"
  /\ call[g].at = "createMore" /\ call[g].up => miner # "on"
  /\ call[g].at = "createFirst" /\ call[g].up /\ ~call[g].saw => miner # "on"
  /\ call[g].at = "stopFirst" => lease[call[g].work] # "none"

HoldInv == PauseTyped /\ WorkHolds /\ \A g \in Gateways : CallHolds(g)

LEMMA FreeTyped == Free \in CallSet /\ Free.at = "free" /\ ~Free.up
BY DEF Free, CallSet, Steps

\* One call goes on, ends or begins.
LEMMA Goes ==
  ASSUME PauseTyped, NEW g \in Gateways, NEW at \in Steps, Go(g, at), call[g].at # "free"
  PROVE  /\ call' \in [Gateways -> CallSet]
         /\ call'[g].at = at /\ call'[g].work = call[g].work /\ call'[g].work \in Works
         /\ call'[g].up = call[g].up /\ call'[g].saw = call[g].saw
<1> DEFINE c == [call[g] EXCEPT !.at = at]
<1>1. call[g] \in CallSet /\ call[g].work \in Works
  BY DEF PauseTyped
<1>2. c \in CallSet /\ c.at = at /\ c.work = call[g].work /\ c.up = call[g].up /\ c.saw = call[g].saw
  BY <1>1 DEF CallSet
<1>3. call' = [call EXCEPT ![g] = c]
  BY DEF Go, PauseTyped
<1> HIDE DEF c
<1> QED
  BY <1>1, <1>2, <1>3 DEF PauseTyped

LEMMA Leaves ==
  ASSUME PauseTyped, NEW g \in Gateways, Unlock(g)
  PROVE  call' \in [Gateways -> CallSet] /\ call'[g].at = "free"
BY FreeTyped DEF Unlock, PauseTyped

LEMMA Comes ==
  ASSUME PauseTyped, NEW g \in Gateways, NEW w \in Works, NEW at \in Steps,
         call' = [call EXCEPT ![g] = [Free EXCEPT !.at = at, !.work = w]]
  PROVE  /\ call' \in [Gateways -> CallSet]
         /\ call'[g].at = at /\ call'[g].work = w /\ ~call'[g].up
<1> DEFINE c == [Free EXCEPT !.at = at, !.work = w]
<1>1. c \in CallSet /\ c.at = at /\ c.work = w /\ ~c.up
  BY DEF CallSet, Free
<1>2. call' = [call EXCEPT ![g] = c]
  OBVIOUS
<1> HIDE DEF c
<1> QED
  BY <1>1, <1>2 DEF PauseTyped

LEMMA HoldStarts == Init => HoldInv
<1> SUFFICES ASSUME Init PROVE HoldInv
  OBVIOUS
<1>1. PauseTyped /\ \A g \in Gateways : call[g].at = "free"
  BY FreeTyped DEF Init, PauseTyped
<1> QED
  BY <1>1 DEF Init, HoldInv, WorkHolds, CallHolds, Reserving, Releasing

OneGateway == \A g, h \in Gateways : g = h

LEMMA Reservations ==
  ASSUME OneGateway, HoldInv, NEW g \in Gateways, Reserved(g), call[g].at \in Reserving,
         lease' \in [Works -> {"none", "held", "ready"}],
         miner' \in {"on", "manual", "off", "paused"}, agent' = agent,
         \A w \in Works : w # call[g].work => lease'[w] = lease[w],
         lease'[call[g].work] = "held",
         miner = "on" \/ miner' # "on", call[g].up => miner' # "on"
  PROVE  HoldInv'
<1>1. /\ call[g].work \in Works /\ work[call[g].work] = "new" /\ (call[g].up => agent # "on")
      /\ call[g].up \in BOOLEAN
  BY DEF HoldInv, PauseTyped, CallHolds, Reserving, CallSet
<1>2. call' \in [Gateways -> CallSet] /\ \A h \in Gateways : call'[h].at = "free"
  BY Leaves DEF HoldInv, Reserved, OneGateway
<1> DEFINE w0 == call[g].work
<1>3. /\ work' = [work EXCEPT ![w0] = "running"] /\ sure' = [sure EXCEPT ![w0] = call[g].up]
  BY DEF Reserved, Work
<1>4. PauseTyped'
  BY <1>1, <1>2, <1>3 DEF HoldInv, PauseTyped
<1>5. WorkHolds'
  <2> SUFFICES ASSUME NEW w \in Works
               PROVE  /\ lease'[w] = "ready" => work'[w] \in Finished
                      /\ work'[w] = "running" /\ sure'[w] =>
                           lease'[w] # "none" /\ miner' # "on" /\ agent' # "on"
                      /\ work'[w] = "new" => ~sure'[w]
    BY DEF WorkHolds
  <2>1. CASE w = w0
    BY <1>1, <1>3, <2>1 DEF HoldInv, PauseTyped
  <2>2. CASE w # w0
    <3>1. work'[w] = work[w] /\ sure'[w] = sure[w] /\ lease'[w] = lease[w]
      BY <1>1, <1>3, <2>2 DEF HoldInv, PauseTyped
    <3> QED
      BY <3>1 DEF HoldInv, WorkHolds
  <2> QED
    BY <2>1, <2>2
<1> QED
  BY <1>2, <1>4, <1>5 DEF HoldInv, CallHolds, Reserving, Releasing

\* A call that ends without a reservation leaves what holds.
LEMMA Ends ==
  ASSUME OneGateway, HoldInv, NEW g \in Gateways,
         call' \in [Gateways -> CallSet], call'[g].at = "free",
         \/ UNCHANGED work
         \/ call[g].work \in Works /\ work' = [work EXCEPT ![call[g].work] = "gone"]
            /\ work[call[g].work] = "new",
         lease' \in [Works -> {"none", "held", "ready"}],
         \A w \in Works : lease'[w] = lease[w] \/ (lease'[w] # "ready" /\ work[w] # "running"),
         UNCHANGED <<sure, agent>>, miner' \in {"manual", "off", "paused"} \/ miner' = miner
  PROVE  HoldInv'
<1>1. \A h \in Gateways : call'[h].at = "free"
  BY DEF OneGateway
<1>2. /\ work' \in [Works -> {"new", "running", "over", "gone"}]
      /\ \A w \in Works : work'[w] = work[w] \/ (work[w] = "new" /\ work'[w] = "gone")
  BY DEF HoldInv, PauseTyped
<1>3. PauseTyped'
  BY <1>1, <1>2 DEF HoldInv, PauseTyped
<1>4. WorkHolds'
  BY <1>2 DEF HoldInv, WorkHolds, Finished
<1> QED
  BY <1>1, <1>3, <1>4 DEF HoldInv, CallHolds, Reserving, Releasing

\* A call goes to its next step with nothing else than the leases changed.
LEMMA Continues ==
  ASSUME OneGateway, HoldInv, NEW g \in Gateways,
         call' \in [Gateways -> CallSet], call'[g].work \in Works, CallHolds(g)',
         lease' \in [Works -> {"none", "held", "ready"}],
         \A w \in Works : \/ lease'[w] = lease[w]
                          \/ lease'[w] = "held" /\ work[w] = "new"
                          \/ lease'[w] = "ready" /\ work[w] \in Finished,
         UNCHANGED <<work, sure>>, miner' \in {"manual", "off", "paused"} \/ miner' = miner,
         agent' = agent \/ (agent' \in {"free", "on", "manual"}
                            /\ \A w \in Works : ~(work[w] = "running" /\ sure[w]))
  PROVE  HoldInv'
<1>1. PauseTyped'
  BY DEF HoldInv, PauseTyped, OneGateway
<1>2. WorkHolds'
  BY DEF HoldInv, WorkHolds
<1> QED
  BY <1>1, <1>2 DEF HoldInv, OneGateway

LEMMA HoldKept ==
  ASSUME OneGateway, HoldInv, [Next]_vars
  PROVE  HoldInv'
<1>a. PauseTyped /\ WorkHolds
  BY DEF HoldInv
<1>b. \A g \in Gateways : CallHolds(g)
  BY DEF HoldInv
<1> USE DEF At, Work, Finished
<1>1. ASSUME NEW g \in Gateways, NEW w \in Works, Reserve(g, w)
      PROVE  HoldInv'
  <2>1. "look" \in Steps
    BY DEF Steps
  <2>2. /\ call' \in [Gateways -> CallSet]
        /\ call'[g].at = "look" /\ call'[g].work = w /\ ~call'[g].up
    BY <1>1, <1>a, <2>1, Comes DEF Reserve
  <2>3. work[w] = "new" /\ UNCHANGED <<lease, work, sure, hand, agent, miner, aborts>>
    BY <1>1 DEF Reserve
  <2>4. CallHolds(g)'
    BY <2>2, <2>3 DEF CallHolds, Reserving, Releasing
  <2> QED
    BY <1>a, <2>2, <2>3, <2>4, Continues DEF PauseTyped
<1>2. ASSUME NEW g \in Gateways, NEW w \in Works, Release(g, w)
      PROVE  HoldInv'
  <2>1. "mark" \in Steps
    BY DEF Steps
  <2>2. /\ call' \in [Gateways -> CallSet]
        /\ call'[g].at = "mark" /\ call'[g].work = w /\ ~call'[g].up
    BY <1>2, <1>a, <2>1, Comes DEF Release
  <2>3. /\ work[w] \in Finished /\ UNCHANGED <<lease, sure, hand, agent, miner, aborts>>
        /\ work' = work \/ work' = [work EXCEPT ![w] = "gone"]
    BY <1>2, <1>a DEF Release, AskedOnce, WorkHolds, Finished
  <2>4. /\ work' \in [Works -> {"new", "running", "over", "gone"}] /\ work'[w] \in Finished
        /\ \A q \in Works : q # w => work'[q] = work[q]
    BY <1>a, <2>3 DEF PauseTyped, Finished
  <2>5. PauseTyped'
    BY <1>a, <2>2, <2>3, <2>4 DEF PauseTyped, OneGateway
  <2>6. WorkHolds'
    BY <1>a, <2>3, <2>4 DEF WorkHolds, Finished
  <2>7. CallHolds(g)'
    BY <2>2, <2>4 DEF CallHolds, Reserving, Releasing
  <2> QED
    BY <2>5, <2>6, <2>7 DEF HoldInv, OneGateway
<1>3. ASSUME NEW w \in Works, Reuse(w)
      PROVE  HoldInv'
  <2>1. /\ work[w] = "new" /\ \A g \in Gateways : call[g].work # w
        /\ work' = [work EXCEPT ![w] = "running"]
        /\ UNCHANGED <<lease, sure, call, hand, agent, miner, aborts>>
    BY <1>3 DEF Reuse
  <2>2. /\ work' \in [Works -> {"new", "running", "over", "gone"}] /\ work'[w] = "running"
        /\ \A q \in Works : q # w => work'[q] = work[q]
    BY <1>a, <2>1 DEF PauseTyped
  <2>3. PauseTyped' /\ WorkHolds'
    BY <1>a, <2>1, <2>2 DEF PauseTyped, WorkHolds
  <2>4. \A g \in Gateways : call[g].at # "free" => work'[call[g].work] = work[call[g].work]
    BY <1>a, <2>1, <2>2 DEF PauseTyped
  <2>5. \A g \in Gateways : CallHolds(g)'
    BY <1>b, <2>1, <2>4 DEF CallHolds, Reserving, Releasing, Taken
  <2> QED
    BY <2>3, <2>5 DEF HoldInv
<1>4. ASSUME NEW w \in Works, End(w) \/ Unsettled(w)
      PROVE  HoldInv'
  <2>1. /\ work[w] = "running" \/ (work[w] = "new" /\ \A g \in Gateways : call[g].work # w)
        /\ work' = [work EXCEPT ![w] = "over"] \/ work' = [work EXCEPT ![w] = "gone"]
        /\ UNCHANGED <<lease, sure, call, hand, agent, miner, aborts>>
    BY <1>4 DEF End, Unsettled
  <2>2. /\ work' \in [Works -> {"new", "running", "over", "gone"}] /\ work'[w] \in {"over", "gone"}
        /\ \A q \in Works : q # w => work'[q] = work[q]
    BY <1>a, <2>1 DEF PauseTyped
  <2>3. lease[w] # "ready"
    BY <1>a, <2>1 DEF WorkHolds
  <2>4. PauseTyped' /\ WorkHolds'
    BY <1>a, <2>1, <2>2, <2>3 DEF PauseTyped, WorkHolds
  <2>5. \A g \in Gateways : call[g].at \in Reserving \cup Releasing => call[g].work # w
    BY <1>b, <2>1 DEF CallHolds
  <2>6. \A g \in Gateways : call[g].at \in Reserving \cup Releasing =>
          work'[call[g].work] = work[call[g].work]
    BY <1>a, <2>2, <2>5 DEF PauseTyped, Reserving, Releasing
  <2>7. \A g \in Gateways : CallHolds(g)'
    BY <1>b, <2>1, <2>6 DEF CallHolds, Taken
  <2> QED
    BY <2>4, <2>7 DEF HoldInv
<1>5. ASSUME NEW g \in Gateways, Look(g)
      PROVE  HoldInv'
  <2> DEFINE to == IF Taken = {} THEN "viewFirst" ELSE "viewMore"
  <2>1. to \in {"viewFirst", "viewMore"} /\ to \in Steps
    BY DEF Steps
  <2>2. call[g].at = "look" /\ Go(g, to) /\ UNCHANGED <<lease, work, sure, hand, agent, miner, aborts>>
    BY <1>5 DEF Look
  <2> HIDE DEF to
  <2>3. /\ call' \in [Gateways -> CallSet]
        /\ call'[g].at = to /\ call'[g].work = call[g].work /\ call'[g].work \in Works
        /\ call'[g].up = call[g].up
    BY <1>a, <2>1, <2>2, Goes
  <2>4. CallHolds(g)'
    BY <1>b, <2>1, <2>2, <2>3 DEF CallHolds, Reserving, Releasing
  <2> QED
    BY <1>a, <2>2, <2>3, <2>4, Continues DEF PauseTyped
<1>6. ASSUME NEW g \in Gateways, NEW up \in BOOLEAN, View(g, up)
      PROVE  HoldInv'
  <2> DEFINE saw == up /\ Running
             to == After(call[g].at, up, saw)
  <2>1. /\ call[g].at \in {"viewMore", "viewFirst", "viewResume"}
        /\ up => agent = "free"
        /\ IF to = "free" THEN Unlock(g)
           ELSE call' = [call EXCEPT ![g].at = to, ![g].up = up, ![g].saw = saw]
        /\ UNCHANGED <<lease, work, sure, hand, agent, miner, aborts>>
    BY <1>6 DEF View
  <2>2. /\ call[g].at = "viewMore" => to = IF saw THEN "stopMore" ELSE "createMore"
        /\ call[g].at = "viewFirst" => to = "createFirst"
        /\ call[g].at = "viewResume" => to = IF ~up THEN "free" ELSE IF saw THEN "remove" ELSE "start"
        /\ saw \in BOOLEAN /\ (miner = "on" /\ up => saw)
    BY DEF After, Running
  <2> HIDE DEF to, saw
  <2>3. CASE to = "free"
    BY <1>a, <2>1, <2>3, Leaves, Ends DEF PauseTyped
  <2>4. CASE to # "free"
    <3> DEFINE c == [call[g] EXCEPT !.at = to, !.up = up, !.saw = saw]
    <3>1. call[g] \in CallSet /\ call[g].work \in Works /\ to \in Steps
      BY <1>a, <2>1, <2>2 DEF PauseTyped, Steps
    <3>2. c \in CallSet /\ c.at = to /\ c.work = call[g].work /\ c.up = up /\ c.saw = saw
      BY <3>1, <2>2 DEF CallSet
    <3>3. call' = [call EXCEPT ![g] = c]
      BY <1>a, <2>1, <2>4 DEF PauseTyped
    <3> HIDE DEF c
    <3>4. /\ call' \in [Gateways -> CallSet] /\ call'[g].at = to /\ call'[g].work = call[g].work
          /\ call'[g].up = up /\ call'[g].saw = saw
      BY <1>a, <3>2, <3>3 DEF PauseTyped
    <3>5. CallHolds(g)'
      BY <1>b, <2>1, <2>2, <2>4, <3>4 DEF CallHolds, Reserving, Releasing, Taken
    <3> QED
      BY <1>a, <2>1, <3>1, <3>4, <3>5, Continues DEF PauseTyped
  <2> QED
    BY <2>3, <2>4
<1>7. ASSUME NEW g \in Gateways, Create(g)
      PROVE  HoldInv'
  <2>1. /\ call[g].at \in {"createMore", "createFirst"} /\ call[g].work \in Works
        /\ lease' = [lease EXCEPT ![call[g].work] = "held"]
        /\ UNCHANGED <<hand, agent, miner, aborts>> /\ work[call[g].work] = "new"
    BY <1>7, <1>a, <1>b DEF Create, PauseTyped, CallHolds, Reserving
  <2>2. /\ lease' \in [Works -> {"none", "held", "ready"}] /\ lease'[call[g].work] = "held"
        /\ \A w \in Works : w # call[g].work => lease'[w] = lease[w]
    BY <1>a, <2>1 DEF PauseTyped
  <2>3. CASE call[g].at = "createFirst" /\ call[g].saw
    <3>1. "stopFirst" \in Steps /\ Go(g, "stopFirst") /\ UNCHANGED <<work, sure>>
      BY <1>7, <2>3 DEF Create, Steps
    <3>2. /\ call' \in [Gateways -> CallSet]
          /\ call'[g].at = "stopFirst" /\ call'[g].work = call[g].work /\ call'[g].work \in Works
          /\ call'[g].up = call[g].up
      BY <1>a, <2>1, <3>1, Goes
    <3>3. CallHolds(g)'
      BY <1>b, <2>1, <2>2, <3>1, <3>2 DEF CallHolds, Reserving, Releasing
    <3> QED
      BY <1>a, <2>1, <2>2, <3>1, <3>2, <3>3, Continues
  <2>4. CASE ~(call[g].at = "createFirst" /\ call[g].saw)
    <3>1. Reserved(g)
      BY <1>7, <2>4 DEF Create
    <3>2. call[g].up => miner' # "on"
      BY <1>a, <1>b, <2>1, <2>4 DEF CallHolds, PauseTyped
    <3>3. call[g].at \in Reserving /\ miner' \in {"on", "manual", "off", "paused"}
      BY <1>a, <2>1 DEF Reserving, PauseTyped
    <3> QED
      BY <2>1, <2>2, <3>1, <3>2, <3>3, Reservations
  <2> QED
    BY <2>3, <2>4
<1>8. ASSUME NEW g \in Gateways, NEW heard \in BOOLEAN, NEW answered \in BOOLEAN,
             Stop(g, heard, answered)
      PROVE  HoldInv'
  <2>1. /\ call[g].at \in {"stopMore", "stopFirst"} /\ call[g].work \in Works
        /\ answered => heard
        /\ miner' = IF heard THEN Stopped ELSE miner
        /\ UNCHANGED <<lease, hand, agent, aborts>> /\ work[call[g].work] = "new"
    BY <1>8, <1>a, <1>b DEF Stop, PauseTyped, CallHolds, Reserving
  <2>2. /\ answered /\ call[g].at = "stopMore" => Go(g, "createMore") /\ UNCHANGED <<work, sure>>
        /\ answered /\ call[g].at = "stopFirst" => Reserved(g)
        /\ ~answered /\ call[g].at = "stopMore" => Refused(g) /\ UNCHANGED sure
        /\ ~answered /\ call[g].at = "stopFirst" => Go(g, "undo") /\ UNCHANGED <<work, sure>>
    BY <1>8, <2>1 DEF Stop
  <2>3. /\ heard => miner' # "on" /\ miner' \in {"manual", "off", "paused"}
        /\ ~heard => miner' = miner
    BY <1>a, <2>1 DEF Stopped, Running, PauseTyped
  <2>4. CASE answered /\ call[g].at = "stopMore"
    <3>1. "createMore" \in Steps /\ Go(g, "createMore")
      BY <2>2, <2>4 DEF Steps
    <3>2. /\ call' \in [Gateways -> CallSet]
          /\ call'[g].at = "createMore" /\ call'[g].work = call[g].work /\ call'[g].work \in Works
          /\ call'[g].up = call[g].up
      BY <1>a, <2>1, <3>1, Goes
    <3>3. CallHolds(g)'
      BY <1>b, <2>1, <2>2, <2>3, <2>4, <3>2 DEF CallHolds, Reserving, Releasing
    <3> QED
      BY <1>a, <2>1, <2>2, <2>3, <2>4, <3>2, <3>3, Continues DEF PauseTyped
  <2>5. CASE answered /\ call[g].at = "stopFirst"
    <3>1. lease[call[g].work] = "held"
      BY <1>a, <1>b, <2>1, <2>5 DEF CallHolds, WorkHolds, PauseTyped
    <3>2. lease' = lease /\ lease \in [Works -> {"none", "held", "ready"}]
      BY <1>a, <2>1 DEF PauseTyped
    <3>3. call[g].at \in Reserving /\ miner' \in {"on", "manual", "off", "paused"} /\ miner' # "on"
      BY <1>a, <2>1, <2>3, <2>5 DEF Reserving, PauseTyped
    <3> QED
      BY <2>1, <2>2, <2>5, <3>1, <3>2, <3>3, Reservations
  <2>6. CASE ~answered /\ call[g].at = "stopMore"
    <3>1. Unlock(g) /\ UNCHANGED sure
          /\ (work' = work \/ work' = [work EXCEPT ![call[g].work] = "gone"])
      BY <2>2, <2>6 DEF Refused
    <3>2. miner' \in {"manual", "off", "paused"} \/ miner' = miner
      BY <2>3
    <3> QED
      BY <1>a, <2>1, <3>1, <3>2, Leaves, Ends DEF PauseTyped
  <2>7. CASE ~answered /\ call[g].at = "stopFirst"
    <3>1. "undo" \in Steps /\ Go(g, "undo")
      BY <2>2, <2>7 DEF Steps
    <3>2. /\ call' \in [Gateways -> CallSet]
          /\ call'[g].at = "undo" /\ call'[g].work = call[g].work /\ call'[g].work \in Works
          /\ call'[g].up = call[g].up
      BY <1>a, <2>1, <3>1, Goes
    <3>3. CallHolds(g)'
      BY <1>b, <2>1, <2>2, <2>7, <3>2 DEF CallHolds, Reserving, Releasing
    <3> QED
      BY <1>a, <2>1, <2>2, <2>3, <2>7, <3>2, <3>3, Continues DEF PauseTyped
  <2> QED
    BY <2>1, <2>4, <2>5, <2>6, <2>7
<1>9. ASSUME NEW g \in Gateways, Undo(g)
      PROVE  HoldInv'
  <2>1. /\ call[g].at = "undo" /\ call[g].work \in Works /\ work[call[g].work] = "new"
        /\ lease' = [lease EXCEPT ![call[g].work] = "none"]
        /\ Unlock(g) /\ (work' = work \/ work' = [work EXCEPT ![call[g].work] = "gone"])
        /\ UNCHANGED <<sure, hand, agent, miner, aborts>>
    BY <1>9, <1>a, <1>b DEF Undo, Refused, PauseTyped, CallHolds, Reserving
  <2>2. /\ lease' \in [Works -> {"none", "held", "ready"}]
        /\ \A w \in Works : lease'[w] = lease[w] \/ (lease'[w] # "ready" /\ work[w] # "running")
    BY <1>a, <2>1 DEF PauseTyped
  <2> QED
    BY <1>a, <2>1, <2>2, Leaves, Ends
<1>10. ASSUME NEW g \in Gateways, Mark(g)
       PROVE  HoldInv'
  <2>1. /\ call[g].at = "mark" /\ call[g].work \in Works /\ work[call[g].work] \in Finished
        /\ lease' = [lease EXCEPT ![call[g].work] =
                       IF lease[call[g].work] = "none" THEN lease[call[g].work] ELSE "ready"]
        /\ Go(g, "list") /\ UNCHANGED <<work, sure, hand, agent, miner, aborts>>
    BY <1>10, <1>a, <1>b DEF Mark, PauseTyped, CallHolds, Releasing
  <2>2. /\ lease' \in [Works -> {"none", "held", "ready"}]
        /\ \A w \in Works : lease'[w] = lease[w] \/ (lease'[w] = "ready" /\ work[w] \in Finished)
    BY <1>a, <2>1 DEF PauseTyped
  <2>3. /\ call' \in [Gateways -> CallSet]
        /\ call'[g].at = "list" /\ call'[g].work = call[g].work /\ call'[g].work \in Works
    <3>1. "list" \in Steps
      BY DEF Steps
    <3> QED
      BY <1>a, <2>1, <3>1, Goes
  <2>4. CallHolds(g)'
    BY <2>1, <2>3 DEF CallHolds, Reserving, Releasing
  <2> QED
    BY <2>1, <2>2, <2>3, <2>4, Continues
<1>11. ASSUME NEW g \in Gateways, List(g)
       PROVE  HoldInv'
  <2>1. /\ call[g].at = "list" /\ UNCHANGED <<lease, work, sure, hand, agent, miner, aborts>>
        /\ \/ Unlock(g)
           \/ Taken # {call[g].work} /\ Go(g, "remove")
           \/ Taken = {call[g].work} /\ Go(g, "viewResume")
    BY <1>11 DEF List
  <2>2. CASE Unlock(g)
    BY <1>a, <2>1, <2>2, Leaves, Ends DEF PauseTyped
  <2>3. ASSUME NEW to \in {"remove", "viewResume"}, Go(g, to), to = "remove" \/ Taken = {call[g].work}
        PROVE  HoldInv'
    <3>1. to \in Steps
      BY <2>3 DEF Steps
    <3>2. /\ call' \in [Gateways -> CallSet]
          /\ call'[g].at = to /\ call'[g].work = call[g].work /\ call'[g].work \in Works
      BY <1>a, <2>1, <2>3, <3>1, Goes
    <3>3. CallHolds(g)'
      BY <1>b, <2>1, <2>3, <3>2 DEF CallHolds, Reserving, Releasing, Taken
    <3> QED
      BY <1>a, <2>1, <3>2, <3>3, Continues DEF PauseTyped
  <2> QED
    BY <2>1, <2>2, <2>3
<1>12. ASSUME NEW g \in Gateways, NEW heard \in BOOLEAN, Start(g, heard)
       PROVE  HoldInv'
  <2>1. call[g].at = "start" /\ UNCHANGED <<lease, work, sure, hand, miner, aborts>>
    BY <1>12 DEF Start
  <2>2. CASE heard
    <3>1. agent' = "on" /\ Go(g, "wait") /\ "wait" \in Steps
      BY <1>12, <2>2 DEF Start, Steps
    <3>2. /\ call' \in [Gateways -> CallSet]
          /\ call'[g].at = "wait" /\ call'[g].work = call[g].work /\ call'[g].work \in Works
      BY <1>a, <2>1, <3>1, Goes
    <3>3. \A w \in Works : ~(work[w] = "running" /\ sure[w])
      <4>1. Taken \subseteq {call[g].work} /\ work[call[g].work] \in Finished
        BY <1>b, <2>1 DEF CallHolds, Releasing
      <4> QED
        BY <1>a, <4>1 DEF WorkHolds, Taken
    <3>4. CallHolds(g)'
      BY <1>b, <2>1, <3>2 DEF CallHolds, Reserving, Releasing
    <3> QED
      BY <1>a, <2>1, <3>1, <3>2, <3>3, <3>4, Continues DEF PauseTyped
  <2>3. CASE ~heard
    <3>1. Unlock(g) /\ UNCHANGED agent
      BY <1>12, <2>3 DEF Start
    <3> QED
      BY <1>a, <2>1, <3>1, Leaves, Ends DEF PauseTyped
  <2> QED
    BY <2>2, <2>3
<1>13. ASSUME NEW g \in Gateways, GiveUp(g)
       PROVE  HoldInv'
  BY <1>13, <1>a, Leaves, Ends DEF GiveUp, PauseTyped
<1>14. ASSUME NEW g \in Gateways, Remove(g)
       PROVE  HoldInv'
  <2>1. /\ call[g].at = "remove" /\ call[g].work \in Works /\ work[call[g].work] \in Finished
        /\ lease' = [lease EXCEPT ![call[g].work] = "none"] /\ Unlock(g)
        /\ UNCHANGED <<work, sure, hand, agent, miner, aborts>>
    BY <1>14, <1>a, <1>b DEF Remove, PauseTyped, CallHolds, Releasing
  <2>2. /\ lease' \in [Works -> {"none", "held", "ready"}]
        /\ \A w \in Works : lease'[w] = lease[w] \/ (lease'[w] # "ready" /\ work[w] # "running")
    BY <1>a, <2>1 DEF PauseTyped
  <2> QED
    BY <1>a, <2>1, <2>2, Leaves, Ends
<1>15. ASSUME NEW g \in Gateways, Abort(g)
       PROVE  HoldInv'
  <2>1. /\ call[g].work \in Works /\ Unlock(g) /\ UNCHANGED <<lease, sure, hand, agent, miner>>
        /\ \/ work' = work
           \/ work[call[g].work] = "new" /\ work' = [work EXCEPT ![call[g].work] = "gone"]
    BY <1>15, <1>a DEF Abort, Refused, PauseTyped
  <2> QED
    BY <1>a, <2>1, Leaves, Ends DEF PauseTyped
<1>16. ASSUME UNCHANGED <<lease, work, sure, call>>,
              agent' = agent \/ agent' = "manual", miner' = miner \/ miner' = "off"
       PROVE  HoldInv'
  <2>1. PauseTyped' /\ WorkHolds'
    BY <1>16, <1>a DEF PauseTyped, WorkHolds
  <2>2. \A g \in Gateways : CallHolds(g)'
    BY <1>16, <1>b DEF CallHolds, Taken
  <2> QED
    BY <2>1, <2>2 DEF HoldInv
<1>17. CASE Operator \/ MinerEnds \/ UNCHANGED vars
  <2>1. /\ UNCHANGED <<lease, work, sure, call>>
        /\ agent' = agent \/ agent' = "manual"
        /\ miner' = miner \/ miner' = "off"
    BY <1>17 DEF Operator, HandComes, HandSees, HandChecks, HandStops, HandStarts, HandLeaves,
       MinerEnds, vars
  <2> QED
    BY <1>16, <2>1
<1>18. ASSUME NEW appears \in BOOLEAN, AgentStarts(appears)
       PROVE  HoldInv'
  <2>1. /\ agent # "free" /\ agent' = "free" /\ UNCHANGED <<lease, work, sure, hand, aborts>>
        /\ miner' = agent \/ miner' = miner
        /\ call' = [g \in Gateways |->
             IF ~(call[g].at = "wait") THEN call[g]
             ELSE IF miner' \in {"on", "manual"} THEN [call[g] EXCEPT !.at = "remove"] ELSE Free]
    BY <1>18 DEF AgentStarts
  <2>2. /\ call' \in [Gateways -> CallSet]
        /\ \A g \in Gateways :
             \/ call'[g] = call[g]
             \/ call'[g].at = "free"
             \/ call[g].at = "wait" /\ call'[g].at = "remove" /\ call'[g].work = call[g].work
    <3>1. \A g \in Gateways :
            /\ call[g] \in CallSet /\ [call[g] EXCEPT !.at = "remove"] \in CallSet
            /\ [call[g] EXCEPT !.at = "remove"].at = "remove"
            /\ [call[g] EXCEPT !.at = "remove"].work = call[g].work
      BY <1>a DEF PauseTyped, CallSet, Steps
    <3> QED
      BY <2>1, <3>1, FreeTyped
  <2>3. PauseTyped' /\ WorkHolds'
    BY <1>a, <2>1, <2>2 DEF PauseTyped, WorkHolds
  <2>4. ASSUME NEW g \in Gateways PROVE CallHolds(g)'
    <3>1. CASE call'[g] = call[g]
      BY <1>b, <2>1, <3>1 DEF CallHolds, Taken, Reserving
    <3>2. CASE call'[g].at = "free"
      BY <3>2 DEF CallHolds, Reserving, Releasing
    <3>3. CASE call[g].at = "wait" /\ call'[g].at = "remove" /\ call'[g].work = call[g].work
      BY <1>b, <2>1, <3>3 DEF CallHolds, Reserving, Releasing
    <3> QED
      BY <2>2, <3>1, <3>2, <3>3
  <2> QED
    BY <2>3, <2>4 DEF HoldInv
<1> QED
  BY <1>1, <1>2, <1>3, <1>4, <1>5, <1>6, <1>7, <1>8, <1>9, <1>10, <1>11, <1>12, <1>13, <1>14, <1>15,
     <1>17, <1>18 DEF Next, Call

\* For whatever work there is, whatever calls fail, are cut off or lose their answers
\* and whatever operators do, one Gateway never starts the miner beside work whose
\* pause was confirmed.
THEOREM PauseKept ==
  ASSUME OneGateway
  PROVE  Spec => []PauseHolds
<1>1. Init => HoldInv
  BY HoldStarts
<1>2. HoldInv /\ [Next]_vars => HoldInv'
  BY HoldKept
<1>3. HoldInv => PauseHolds
  BY DEF HoldInv, WorkHolds, PauseHolds
<1> QED
  BY <1>1, <1>2, <1>3, PTL DEF Spec
\* A paused miner always has a lease beside the one a call is about to remove, and no
\* call that found no lease has stopped the miner yet.
CallOwns(g) ==
  /\ call[g].at \in {"viewMore", "stopMore"} => Taken # {}
  /\ call[g].at \in {"viewFirst", "createFirst"} => Taken = {}
  /\ call[g].at \in {"stopFirst", "undo"} => miner # "paused"
  /\ call[g].at = "remove" => miner # "paused" \/ \E w \in Taken : w # call[g].work

OwnInv == PauseHasOwner /\ \A g \in Gateways : CallOwns(g)

LEMMA OwnStarts == Init => OwnInv
BY DEF Init, Free, OwnInv, PauseHasOwner, CallOwns

\* A call ends: only the owner of a paused miner matters.
LEMMA EndsOwned ==
  ASSUME OneGateway, NEW g \in Gateways, call'[g].at = "free", PauseHasOwner'
  PROVE  OwnInv'
<1>1. \A h \in Gateways : call'[h].at = "free"
  BY DEF OneGateway
<1> QED
  BY <1>1 DEF OwnInv, CallOwns

LEMMA OwnKept ==
  ASSUME OneGateway, "lostStop" \notin Faults, HoldInv, OwnInv, [Next]_vars
  PROVE  OwnInv'
<1>a. PauseTyped /\ PauseHasOwner
  BY DEF HoldInv, OwnInv
<1>b. \A g \in Gateways : CallHolds(g) /\ CallOwns(g)
  BY DEF HoldInv, OwnInv
<1> USE DEF At, Work, Finished
<1>0. ASSUME UNCHANGED <<lease, miner>> PROVE PauseHasOwner' /\ Taken' = Taken
  BY <1>0, <1>a DEF PauseHasOwner, Taken
<1>1. ASSUME NEW g \in Gateways, NEW to \in Steps, call[g].at # "free", Go(g, to),
             PauseHasOwner', CallOwns(g)'
      PROVE  OwnInv'
  BY <1>1 DEF OwnInv, OneGateway
<1>2. ASSUME NEW g \in Gateways, NEW w \in Works, Reserve(g, w) \/ Release(g, w)
      PROVE  OwnInv'
  <2>1. "look" \in Steps /\ "mark" \in Steps
    BY DEF Steps
  <2>2. call'[g].at \in {"look", "mark"} /\ UNCHANGED <<lease, miner>>
    <3>1. CASE Reserve(g, w)
      BY <3>1, <1>a, <2>1, Comes DEF Reserve
    <3>2. CASE Release(g, w)
      BY <3>2, <1>a, <2>1, Comes DEF Release
    <3> QED
      BY <1>2, <3>1, <3>2
  <2>3. CallOwns(g)'
    BY <2>2 DEF CallOwns
  <2> QED
    BY <1>0, <2>2, <2>3 DEF OwnInv, OneGateway
<1>3. ASSUME UNCHANGED <<lease, call>>, miner' = miner \/ miner' = "off"
      PROVE  OwnInv'
  <2>1. Taken' = Taken
    BY <1>3 DEF Taken
  <2> QED
    BY <1>3, <1>a, <1>b, <2>1 DEF OwnInv, PauseHasOwner, CallOwns
<1>4. ASSUME NEW w \in Works, Reuse(w) \/ End(w) \/ Unsettled(w)
      PROVE  OwnInv'
  BY <1>3, <1>4 DEF Reuse, End, Unsettled
<1>5. CASE Operator \/ MinerEnds \/ UNCHANGED vars
  <2>1. UNCHANGED <<lease, call>> /\ (miner' = miner \/ miner' = "off")
    BY <1>5 DEF Operator, HandComes, HandSees, HandChecks, HandStops, HandStarts, HandLeaves,
       MinerEnds, vars
  <2> QED
    BY <1>3, <2>1
<1>6. ASSUME NEW g \in Gateways, Look(g)
      PROVE  OwnInv'
  <2> DEFINE to == IF Taken = {} THEN "viewFirst" ELSE "viewMore"
  <2>1. /\ to \in Steps /\ (to = "viewFirst" => Taken = {}) /\ (to = "viewMore" => Taken # {})
        /\ to \in {"viewFirst", "viewMore"}
    BY DEF Steps
  <2>2. call[g].at = "look" /\ Go(g, to) /\ UNCHANGED <<lease, miner>>
    BY <1>6 DEF Look
  <2> HIDE DEF to
  <2>3. call'[g].at = to
    BY <1>a, <2>1, <2>2, Goes
  <2>4. CallOwns(g)'
    BY <1>0, <2>1, <2>2, <2>3 DEF CallOwns
  <2> QED
    BY <1>0, <1>1, <2>1, <2>2, <2>4
<1>7. ASSUME NEW g \in Gateways, NEW up \in BOOLEAN, View(g, up)
      PROVE  OwnInv'
  <2> DEFINE saw == up /\ Running
             to == After(call[g].at, up, saw)
  <2>1. /\ call[g].at \in {"viewMore", "viewFirst", "viewResume"}
        /\ IF to = "free" THEN Unlock(g)
           ELSE call' = [call EXCEPT ![g].at = to, ![g].up = up, ![g].saw = saw]
        /\ UNCHANGED <<lease, miner>>
    BY <1>7 DEF View
  <2>2. /\ call[g].at = "viewMore" => to \in {"stopMore", "createMore"}
        /\ call[g].at = "viewFirst" => to = "createFirst"
        /\ call[g].at = "viewResume" => to \in {"free", "remove", "start"}
        /\ to = "remove" => miner # "paused"
    BY <2>1 DEF After, Running
  <2> HIDE DEF to, saw
  <2>3. CASE to = "free"
    BY <1>0, <1>a, <2>1, <2>3, Leaves, EndsOwned
  <2>4. CASE to # "free"
    <3>1. call'[g].at = to
      <4> DEFINE c == [call[g] EXCEPT !.at = to, !.up = up, !.saw = saw]
      <4>1. c.at = to
        BY <1>a DEF PauseTyped, CallSet
      <4>2. call' = [call EXCEPT ![g] = c]
        BY <1>a, <2>1, <2>4 DEF PauseTyped
      <4> HIDE DEF c
      <4> QED
        BY <1>a, <4>1, <4>2 DEF PauseTyped
    <3>2. CallOwns(g)'
      BY <1>0, <1>b, <2>1, <2>2, <3>1 DEF CallOwns
    <3> QED
      BY <1>0, <2>1, <3>2 DEF OwnInv, OneGateway
  <2> QED
    BY <2>3, <2>4
<1>8. ASSUME NEW g \in Gateways, Create(g)
      PROVE  OwnInv'
  <2>1. /\ call[g].at \in {"createMore", "createFirst"} /\ call[g].work \in Works
        /\ lease' = [lease EXCEPT ![call[g].work] = "held"] /\ miner' = miner
    BY <1>8, <1>a DEF Create, PauseTyped
  <2>2. call[g].work \in Taken'
    BY <1>a, <2>1 DEF Taken, PauseTyped
  <2>3. PauseHasOwner'
    BY <2>2 DEF PauseHasOwner
  <2>4. CASE call[g].at = "createFirst" /\ call[g].saw
    <3>1. "stopFirst" \in Steps /\ Go(g, "stopFirst")
      BY <1>8, <2>4 DEF Create, Steps
    <3>2. call'[g].at = "stopFirst"
      BY <1>a, <2>1, <3>1, Goes
    <3>3. miner # "paused"
      BY <1>a, <1>b, <2>4 DEF CallOwns, PauseHasOwner
    <3>4. CallOwns(g)'
      BY <2>1, <3>2, <3>3 DEF CallOwns
    <3> QED
      BY <1>1, <2>1, <2>3, <3>1, <3>4
  <2>5. CASE ~(call[g].at = "createFirst" /\ call[g].saw)
    BY <1>8, <1>a, <2>3, <2>5, Leaves, EndsOwned DEF Create, Reserved
  <2> QED
    BY <2>4, <2>5
<1>9. ASSUME NEW g \in Gateways, NEW heard \in BOOLEAN, NEW answered \in BOOLEAN,
             Stop(g, heard, answered)
      PROVE  OwnInv'
  <2>1. /\ call[g].at \in {"stopMore", "stopFirst"} /\ lease' = lease
        /\ answered => heard
        /\ heard /\ ~answered => "lostStop" \in Faults
        /\ ~heard => miner' = miner
    BY <1>9 DEF Stop
  <2>2. /\ answered /\ call[g].at = "stopMore" => Go(g, "createMore")
        /\ answered /\ call[g].at = "stopFirst" => Unlock(g)
        /\ ~answered /\ call[g].at = "stopMore" => Unlock(g)
        /\ ~answered /\ call[g].at = "stopFirst" => Go(g, "undo")
    BY <1>9, <2>1 DEF Stop, Reserved, Refused
  <2>3. Taken' = Taken /\ Taken # {}
    <3>1. Taken' = Taken
      BY <2>1 DEF Taken
    <3>2. CASE call[g].at = "stopFirst"
      BY <1>a, <1>b, <3>1, <3>2 DEF CallHolds, Taken, PauseTyped
    <3>3. CASE call[g].at = "stopMore"
      BY <1>b, <3>1, <3>3 DEF CallOwns
    <3> QED
      BY <2>1, <3>1, <3>2, <3>3
  <2>4. PauseHasOwner'
    BY <2>3 DEF PauseHasOwner
  <2>5. CASE Unlock(g)
    BY <1>a, <2>4, <2>5, Leaves, EndsOwned
  <2>6. CASE answered /\ call[g].at = "stopMore"
    <3>1. "createMore" \in Steps /\ Go(g, "createMore")
      BY <2>2, <2>6 DEF Steps
    <3>2. call'[g].at = "createMore"
      BY <1>a, <2>1, <3>1, Goes
    <3>3. CallOwns(g)'
      BY <3>2 DEF CallOwns
    <3> QED
      BY <1>1, <2>1, <2>4, <3>1, <3>3
  <2>7. CASE ~answered /\ call[g].at = "stopFirst"
    <3>1. "undo" \in Steps /\ Go(g, "undo")
      BY <2>2, <2>7 DEF Steps
    <3>2. call'[g].at = "undo"
      BY <1>a, <2>1, <3>1, Goes
    <3>3. miner' # "paused"
      BY <1>b, <2>1, <2>7 DEF CallOwns
    <3>4. CallOwns(g)'
      BY <3>2, <3>3 DEF CallOwns
    <3> QED
      BY <1>1, <2>1, <2>4, <3>1, <3>4
  <2> QED
    BY <2>1, <2>2, <2>5, <2>6, <2>7
<1>10. ASSUME NEW g \in Gateways, Undo(g)
       PROVE  OwnInv'
  <2>1. miner # "paused" /\ miner' = miner /\ Unlock(g)
    BY <1>10, <1>b DEF Undo, Refused, CallOwns
  <2>2. PauseHasOwner'
    BY <2>1 DEF PauseHasOwner
  <2> QED
    BY <1>a, <2>1, <2>2, Leaves, EndsOwned
<1>11. ASSUME NEW g \in Gateways, Mark(g)
       PROVE  OwnInv'
  <2>1. /\ call[g].at = "mark" /\ Go(g, "list") /\ miner' = miner /\ call[g].work \in Works
        /\ lease' = [lease EXCEPT ![call[g].work] =
                       IF lease[call[g].work] = "none" THEN lease[call[g].work] ELSE "ready"]
    BY <1>11, <1>a DEF Mark, PauseTyped
  <2>2. \A w \in Works : lease'[w] = "none" <=> lease[w] = "none"
    BY <1>a, <2>1 DEF PauseTyped
  <2>3. PauseHasOwner'
    BY <1>a, <2>1, <2>2 DEF PauseHasOwner, Taken
  <2>4. call'[g].at = "list" /\ "list" \in Steps
    <3>1. "list" \in Steps
      BY DEF Steps
    <3> QED
      BY <1>a, <2>1, <3>1, Goes
  <2>5. CallOwns(g)'
    BY <2>4 DEF CallOwns
  <2> QED
    BY <1>1, <2>1, <2>3, <2>4, <2>5
<1>12. ASSUME NEW g \in Gateways, List(g)
       PROVE  OwnInv'
  <2>1. /\ call[g].at = "list" /\ UNCHANGED <<lease, miner>>
        /\ \/ Unlock(g)
           \/ (\E w \in Taken : w # call[g].work) /\ Go(g, "remove")
           \/ Go(g, "viewResume")
    BY <1>12 DEF List
  <2>2. CASE Unlock(g)
    BY <1>0, <1>a, <2>1, <2>2, Leaves, EndsOwned
  <2>3. ASSUME NEW to \in {"remove", "viewResume"}, Go(g, to),
               to = "remove" => \E w \in Taken : w # call[g].work
        PROVE  OwnInv'
    <3>1. to \in Steps
      BY <2>3 DEF Steps
    <3>2. call'[g].at = to /\ call'[g].work = call[g].work
      BY <1>a, <2>1, <2>3, <3>1, Goes
    <3>3. CallOwns(g)'
      BY <1>0, <2>1, <2>3, <3>2 DEF CallOwns
    <3> QED
      BY <1>0, <1>1, <2>1, <2>3, <3>1, <3>3
  <2> QED
    BY <2>1, <2>2, <2>3
<1>13. ASSUME NEW g \in Gateways, NEW heard \in BOOLEAN, Start(g, heard)
       PROVE  OwnInv'
  <2>1. /\ call[g].at = "start" /\ UNCHANGED <<lease, miner>>
        /\ Go(g, "wait") \/ Unlock(g)
    BY <1>13 DEF Start
  <2>2. CASE Go(g, "wait")
    <3>1. "wait" \in Steps
      BY DEF Steps
    <3>2. call'[g].at = "wait"
      BY <1>a, <2>1, <2>2, <3>1, Goes
    <3>3. CallOwns(g)'
      BY <3>2 DEF CallOwns
    <3> QED
      BY <1>0, <1>1, <2>1, <2>2, <3>1, <3>3
  <2>3. CASE Unlock(g)
    BY <1>0, <1>a, <2>1, <2>3, Leaves, EndsOwned
  <2> QED
    BY <2>1, <2>2, <2>3
<1>14. ASSUME NEW g \in Gateways, GiveUp(g) \/ Abort(g)
       PROVE  OwnInv'
  <2>1. Unlock(g) /\ UNCHANGED <<lease, miner>>
    BY <1>14 DEF GiveUp, Abort, Refused
  <2> QED
    BY <1>0, <1>a, <2>1, Leaves, EndsOwned
<1>15. ASSUME NEW g \in Gateways, Remove(g)
       PROVE  OwnInv'
  <2>1. /\ call[g].at = "remove" /\ call[g].work \in Works
        /\ lease' = [lease EXCEPT ![call[g].work] = "none"] /\ Unlock(g) /\ miner' = miner
    BY <1>15, <1>a DEF Remove, PauseTyped
  <2>2. \A w \in Taken : w # call[g].work => w \in Taken'
    BY <1>a, <2>1 DEF Taken, PauseTyped
  <2>3. PauseHasOwner'
    BY <1>b, <2>1, <2>2 DEF CallOwns, PauseHasOwner
  <2> QED
    BY <1>a, <2>1, <2>3, Leaves, EndsOwned
<1>16. ASSUME NEW appears \in BOOLEAN, AgentStarts(appears)
       PROVE  OwnInv'
  <2>1. /\ lease' = lease /\ (miner' = miner \/ miner' \in {"on", "manual"})
        /\ call' = [g \in Gateways |->
             IF ~(call[g].at = "wait") THEN call[g]
             ELSE IF miner' \in {"on", "manual"} THEN [call[g] EXCEPT !.at = "remove"] ELSE Free]
    BY <1>16, <1>a DEF AgentStarts, PauseTyped
  <2>2. Taken' = Taken /\ PauseHasOwner'
    BY <1>a, <2>1 DEF Taken, PauseHasOwner
  <2>3. \A g \in Gateways :
          \/ call'[g] = call[g]
          \/ call'[g].at = "free"
          \/ call'[g].at = "remove" /\ miner' # "paused"
    <3>1. \A g \in Gateways : [call[g] EXCEPT !.at = "remove"].at = "remove"
      BY <1>a DEF PauseTyped, CallSet
    <3> QED
      BY <2>1, <3>1, FreeTyped
  <2>4. \A g \in Gateways : CallOwns(g)'
    BY <1>b, <2>1, <2>2, <2>3 DEF CallOwns
  <2> QED
    BY <2>2, <2>4 DEF OwnInv
<1> QED
  BY <1>2, <1>4, <1>5, <1>6, <1>7, <1>8, <1>9, <1>10, <1>11, <1>12, <1>13, <1>14, <1>15, <1>16
     DEF Next, Call

\* Whatever call is cut off or fails and whatever operators do, one Gateway that is told
\* of every stop it causes keeps a lease for a miner it paused.
THEOREM PauseOwned ==
  ASSUME OneGateway, "lostStop" \notin Faults
  PROVE  Spec => []PauseHasOwner
<1>1. Init => HoldInv /\ OwnInv
  BY HoldStarts, OwnStarts
<1>2. HoldInv /\ OwnInv /\ [Next]_vars => HoldInv' /\ OwnInv'
  BY HoldKept, OwnKept
<1>3. OwnInv => PauseHasOwner
  BY DEF OwnInv
<1> QED
  BY <1>1, <1>2, <1>3, PTL DEF Spec
-----------------------------------------------------------------------------
(* GenerationQueue *)

QueueTyped == state \in [Jobs -> {"none", "draft", "waiting", "active", "over"}]
Busies == {c \in Children : Busy(c)}

QueueInv == QueueTyped /\ BatchInTurn

LEMMA BatchOf ==
  ASSUME NEW b \in Batches, NEW i \in DOMAIN b
  PROVE  Batch(b[i]) = b
<1>1. \E c \in Batches : \E k \in DOMAIN c : c[k] = b[i]
  OBVIOUS
<1>2. Batch(b[i]) \in Batches /\ \E k \in DOMAIN Batch(b[i]) : Batch(b[i])[k] = b[i]
  BY <1>1 DEF Batch
<1> QED
  BY <1>2, QueueAssumption

\* Whose sibling one is, that one is one's own.
LEMMA SiblingsAre ==
  ASSUME NEW j \in Children, NEW s \in Siblings(j)
  PROVE  /\ s \in Children /\ j \in Siblings(s) /\ s # j
         /\ \E b \in Batches : \E i, k \in DOMAIN b : b[i] = j /\ b[k] = s
<1>0. PICK b \in Batches : \E i \in DOMAIN b : b[i] = j
  BY DEF Children
<1>1. PICK i \in DOMAIN b : b[i] = j
  BY <1>0
<1>2. Batch(j) = b
  BY <1>1, BatchOf
<1>3. PICK k \in DOMAIN b : b[k] = s /\ s # j
  BY <1>2 DEF Siblings
<1>4. Batch(s) = b
  BY <1>3, BatchOf
<1> QED
  BY <1>1, <1>3, <1>4 DEF Siblings, Children

\* Nobody of a batch set out, nor came new into one.
LEMMA TurnStays ==
  ASSUME QueueInv, QueueTyped', cancelled \subseteq cancelled',
         \A c \in Children : (Busy(c)' => Busy(c)) /\ (state'[c] = "draft" => state[c] = "draft")
  PROVE  QueueInv'
<1>1. ASSUME NEW j \in Children, Busy(j)'
      PROVE  /\ \A s \in Siblings(j) : ~Busy(s)'
             /\ \A s \in Earlier(j) : state'[s] = "draft" => s \in cancelled'
  <2>1. /\ \A s \in Siblings(j) : ~Busy(s) /\ s \in Children
        /\ \A s \in Earlier(j) : state[s] = "draft" => s \in cancelled
    BY <1>1, SiblingsAre DEF QueueInv, BatchInTurn
  <2>2. Earlier(j) \subseteq Siblings(j)
    BY DEF Earlier
  <2> QED
    BY <2>1, <2>2
<1>2. Cardinality(Busies') <= MaxActive
  <2>1. IsFiniteSet(Busies)
    BY QueueAssumption, FS_Subset DEF Busies
  <2>2. Busies' \in SUBSET Busies
    BY DEF Busies
  <2>3. /\ Cardinality(Busies') <= Cardinality(Busies) /\ IsFiniteSet(Busies')
    BY <2>1, <2>2, FS_Subset
  <2>4. Cardinality(Busies) \in Nat /\ Cardinality(Busies') \in Nat
    BY <2>1, <2>3, FS_CardinalityType
  <2>5. Cardinality(Busies) <= MaxActive
    BY DEF QueueInv, BatchInTurn, Busies
  <2> QED
    BY <2>3, <2>4, <2>5, QueueAssumption
<1> QED
  BY <1>1, <1>2 DEF QueueInv, BatchInTurn, Busies

LEMMA QueueStarts == QueueInit => QueueInv
<1> SUFFICES ASSUME QueueInit PROVE QueueInv
  OBVIOUS
<1>1. QueueTyped /\ \A c \in Children : ~Busy(c)
  BY DEF QueueInit, QueueTyped, Busy, Jobs
<1>2. {c \in Children : Busy(c)} = {}
  BY <1>1
<1>3. Cardinality({c \in Children : Busy(c)}) <= MaxActive
  BY <1>2, FS_EmptySet, QueueAssumption
<1> QED
  BY <1>1, <1>3 DEF QueueInv, BatchInTurn

LEMMA QueueKept ==
  ASSUME QueueInv, [QueueNext]_queueVars
  PROVE  QueueInv'
<1>a. QueueTyped /\ \A c \in Children : c \in Jobs /\ c \notin Launches
  BY QueueAssumption DEF QueueInv, Jobs
<1>b. ASSUME NEW j \in Jobs, NEW v \in {"none", "draft", "waiting", "active", "over"},
             state' = [state EXCEPT ![j] = v]
      PROVE  /\ QueueTyped' /\ state'[j] = v
             /\ \A c \in Children : c # j => state'[c] = state[c]
  BY <1>a, <1>b DEF QueueTyped
<1>1. ASSUME UNCHANGED state, cancelled \subseteq cancelled'
      PROVE  QueueInv'
  BY <1>1, <1>a, TurnStays DEF QueueTyped, Busy
<1>2. ASSUME NEW j \in Jobs, Launch(j)
      PROVE  QueueInv'
  BY <1>2, <1>a, <1>b, TurnStays DEF Launch, Busy
<1>3. ASSUME NEW j \in Jobs, Over(j), UNCHANGED cancelled
      PROVE  QueueInv'
  BY <1>3, <1>b, TurnStays DEF Over, Busy
<1>4. ASSUME NEW j \in Jobs, Bind(j)
      PROVE  QueueInv'
  BY <1>4, <1>b, TurnStays DEF Bind, Busy
<1>5. ASSUME NEW j \in Jobs, Claim(j), j \notin Children
      PROVE  QueueInv'
  BY <1>5, <1>b, TurnStays DEF Claim, Busy
<1>6. ASSUME NEW j \in Children, Claim(j)
      PROVE  QueueInv'
  <2>1. ChildMayGo(j) /\ UNCHANGED cancelled /\ state' = [state EXCEPT ![j] = "waiting"]
    BY <1>6, <1>a DEF Claim
  <2>2. /\ QueueTyped' /\ state'[j] = "waiting"
        /\ \A c \in Children : c # j => state'[c] = state[c]
    BY <1>a, <1>b, <2>1
  <2>3. ASSUME NEW k \in Children, Busy(k)'
        PROVE  /\ \A s \in Siblings(k) : ~Busy(s)'
               /\ \A s \in Earlier(k) : state'[s] = "draft" => s \in cancelled'
    <3>1. \A s \in Siblings(k) : s \in Children /\ s # k /\ k \in Siblings(s)
      BY SiblingsAre
    <3>2. Earlier(k) \subseteq Siblings(k)
      BY DEF Earlier
    <3>3. CASE k = j
      BY <2>1, <2>2, <3>1, <3>2, <3>3 DEF ChildMayGo, Busy
    <3>4. CASE k # j
      <4>1. Busy(k)
        BY <2>2, <2>3, <3>4 DEF Busy
      <4>2. j \notin Siblings(k)
        BY <2>1, <3>1, <4>1 DEF ChildMayGo
      <4>3. \A s \in Siblings(k) : state'[s] = state[s]
        BY <2>2, <3>1, <4>2
      <4>4. /\ \A s \in Siblings(k) : ~Busy(s)
            /\ \A s \in Earlier(k) : state[s] = "draft" => s \in cancelled
        BY <4>1 DEF QueueInv, BatchInTurn
      <4> QED
        BY <2>1, <3>2, <4>3, <4>4 DEF Busy
    <3> QED
      BY <3>3, <3>4
  <2>4. Cardinality(Busies') <= MaxActive
    <3> DEFINE others == {c \in Children \ {j} : Busy(c)}
    <3>1. IsFiniteSet(others)
      BY QueueAssumption, FS_Subset
    <3>2. Cardinality(others) < MaxActive
      BY <2>1 DEF ChildMayGo
    <3>3. j \notin others /\ Busies' \in SUBSET (others \cup {j})
      BY <2>2 DEF Busies, Busy
    <3> HIDE DEF others
    <3>4. IsFiniteSet(others \cup {j}) /\ Cardinality(others \cup {j}) = Cardinality(others) + 1
      BY <3>1, <3>3, FS_AddElement
    <3>5. IsFiniteSet(Busies') /\ Cardinality(Busies') <= Cardinality(others \cup {j})
      BY <3>3, <3>4, FS_Subset
    <3>6. Cardinality(others) \in Nat /\ Cardinality(Busies') \in Nat
      BY <3>1, <3>5, FS_CardinalityType
    <3> QED
      BY <3>2, <3>4, <3>5, <3>6, QueueAssumption
  <2> QED
    BY <2>2, <2>3, <2>4 DEF QueueInv, BatchInTurn, Busies
<1>7. ASSUME NEW b \in Batches, CreateBatch(b)
      PROVE  QueueInv'
  <2>1. /\ \A i \in DOMAIN b : state[b[i]] = "none"
        /\ state' = [j \in Jobs |-> IF \E i \in DOMAIN b : b[i] = j THEN "draft" ELSE state[j]]
        /\ UNCHANGED cancelled
    BY <1>7 DEF CreateBatch
  <2>2. /\ QueueTyped'
        /\ \A c \in Children : IF \E i \in DOMAIN b : b[i] = c THEN state'[c] = "draft"
                               ELSE state'[c] = state[c]
    BY <1>a, <2>1 DEF QueueTyped
  <2>3. \A c \in Children : Busy(c)' <=> Busy(c)
    BY <2>1, <2>2 DEF Busy
  <2>4. ASSUME NEW k \in Children, Busy(k)'
        PROVE  /\ \A s \in Siblings(k) : ~Busy(s)'
               /\ \A s \in Earlier(k) : state'[s] = "draft" => s \in cancelled'
    <3>1. Busy(k)
      BY <2>3, <2>4
    <3>2. \A s \in Siblings(k) : s \in Children /\ ~\E i \in DOMAIN b : b[i] = s
      <4> SUFFICES ASSUME NEW s \in Siblings(k), NEW i \in DOMAIN b, b[i] = s PROVE FALSE
        BY SiblingsAre
      <4>1. PICK c \in Batches : \E m, n \in DOMAIN c : c[m] = k /\ c[n] = s
        BY SiblingsAre
      <4>2. c = b
        BY <4>1, QueueAssumption
      <4>3. state[k] = "none"
        BY <2>1, <4>1, <4>2
      <4> QED
        BY <3>1, <4>3 DEF Busy
    <3>3. /\ \A s \in Siblings(k) : ~Busy(s)
          /\ \A s \in Earlier(k) : state[s] = "draft" => s \in cancelled
      BY <3>1 DEF QueueInv, BatchInTurn
    <3>4. Earlier(k) \subseteq Siblings(k)
      BY DEF Earlier
    <3> QED
      BY <2>1, <2>2, <2>3, <3>2, <3>3, <3>4
  <2>5. Busies' = Busies
    BY <2>3 DEF Busies
  <2> QED
    BY <2>2, <2>4, <2>5 DEF QueueInv, BatchInTurn, Busies
<1>8. ASSUME NEW j \in Jobs, Publish(j) \/ LeaseEnds(j) \/ Begin(j) \/ RequestCancel(j)
      PROVE  QueueInv'
  BY <1>1, <1>8 DEF Publish, LeaseEnds, Begin, RequestCancel
<1>9. ASSUME NEW j \in Jobs, EndJob(j) \/ Refuse(j) \/ Cancel(j)
      PROVE  QueueInv'
  BY <1>3, <1>9 DEF EndJob, Refuse, Cancel
<1>10. ASSUME NEW b \in Batches, CancelBatch(b)
       PROVE  QueueInv'
  BY <1>1, <1>10 DEF CancelBatch
<1>11. CASE UNCHANGED queueVars
  BY <1>1, <1>11 DEF queueVars
<1>12. ASSUME NEW j \in Jobs, Claim(j)
       PROVE  QueueInv'
  BY <1>5, <1>6, <1>12
<1> QED
  BY <1>2, <1>4, <1>7, <1>8, <1>9, <1>10, <1>11, <1>12 DEF QueueNext

\* For every set of batches, of whatever length, and every limit: siblings go one after
\* the other in their order and all batches together keep to the limit.
THEOREM TurnsKept == QueueSpec => []BatchInTurn
<1>1. QueueInit => QueueInv
  BY QueueStarts
<1>2. QueueInv /\ [QueueNext]_queueVars => QueueInv'
  BY QueueKept
<1>3. QueueInv => BatchInTurn
  BY DEF QueueInv
<1> QED
  BY <1>1, <1>2, <1>3, PTL DEF QueueSpec

-----------------------------------------------------------------------------
(* DependencyHealth *)

\* An agent that hangs holds the worker's run up to its deadline, and lengthens its pauses.
Hanging == \E a \in Agents : ways[a] = "hangs"
Pause == IF Hanging THEN Longest ELSE Interval
RunPause == IF loop.late THEN Longest ELSE Pause

\* Every dependency will have been probed within t: by then it is judged right, or else
\* it has not been calm for long.
Soon(d, t) ==
  \/ calm + t < Settling
  \/ /\ ways[d] = "up" => noted[d].age + t < Interval + Pause + 2 * Deadline
     /\ noted[d].denied <=> ways[d] = "denied"

\* The worker passes by a dependency that is not yet due, and comes again.
PassedBy(d) == noted[d].next - 1 + Deadline + Pause + Deadline
Waiting(d) == IF loop.due >= noted[d].next THEN loop.due + Deadline ELSE PassedBy(d)

Judged(d) ==
  /\ probe[d].by # "nobody" /\ loop.at # "over" => Soon(d, probe[d].left)
  /\ probe[d].by = "nobody" /\ loop.at \in {"wait", "finished"} => Soon(d, Waiting(d))
  /\ probe[d].by = "nobody" /\ loop.at = "run" =>
       /\ Soon(d, RunPause + Deadline)
       /\ \A e \in Dependencies :
            probe[e].by = "worker" => Soon(d, probe[e].left + RunPause + Deadline)
       /\ noted[d].next > 0 => Soon(d, PassedBy(d))
  /\ Soon(d, 0)

\* A probe ends before its dependency is due again; a claim is a probe under way.
Claimed(d) ==
  /\ probe[d].by # "nobody" => probe[d].left < noted[d].next
  /\ noted[d].probing => probe[d].by # "nobody"

\* What does not answer has had no success since it changed.
Aged(d) == ways[d] # "up" => noted[d].age >= calm \/ noted[d].age >= Past

\* Without an agent that hangs the back-off is over when things have been calm.
PauseEnds ==
  ~Hanging =>
    /\ loop.at \in {"wait", "finished"} => loop.due <= Interval \/ calm + loop.due <= Longest + Deadline
    /\ loop.at = "run" /\ loop.late =>
         /\ calm <= Deadline
         /\ \A e \in Dependencies : probe[e].by = "worker" => calm + probe[e].left <= Deadline

LoopShown ==
  /\ loop.at # "run" => ~display.running
  /\ loop.at = "wait" => display.next = loop.due
  /\ loop.at = "over" => display.status = "stopped"

HealthInv ==
  /\ HealthTypeOK
  /\ PauseEnds /\ LoopShown
  /\ \A d \in Dependencies : Claimed(d) /\ Aged(d) /\ Judged(d)

\* The numbers the arguments below compare.
LEMMA HealthNumbers ==
  /\ Interval \in Nat /\ Deadline \in Nat /\ MaxBackoff \in Nat /\ StaleAfter \in Nat
  /\ OfflineAfter \in Nat /\ MaxChanges \in Nat /\ RetryDelay \in Nat
  /\ Longest \in Nat /\ Interval <= Longest /\ MaxBackoff <= Longest
  /\ Pause \in Nat /\ Interval <= Pause /\ Pause <= Longest
  /\ RunPause \in Nat /\ Pause <= RunPause /\ RunPause <= Longest
  /\ Settling \in Nat /\ Never \in Nat /\ Past \in Nat
  /\ Past = OfflineAfter + 1 /\ Never = Past + 1
  /\ Round = Longest + Interval + 2 * Deadline /\ Round <= OfflineAfter + 1
  /\ Settling >= Longest + Interval + 2 * Deadline /\ Settling > StaleAfter
  /\ Deadline < Interval
BY HealthAssumption DEF Longest, Pause, RunPause, Round, Settling, Never, Past

\* The pause after a failure is one the worker may take.
LEMMA BackoffBound == ASSUME NEW n PROVE Backoff(n) \in Nat /\ Backoff(n) <= Longest
<1>1. Backoff(n) \in 0..MaxBackoff
  BY HealthNumbers DEF Backoff
<1> QED BY <1>1, HealthNumbers

\* The fields of a well-typed state.
LEMMA HealthFields ==
  ASSUME HealthTypeOK, NEW d \in Dependencies
  PROVE  /\ noted[d].age \in Nat /\ noted[d].age <= Never
         /\ noted[d].next \in Nat /\ noted[d].next <= Interval
         /\ noted[d].denied \in BOOLEAN /\ noted[d].probing \in BOOLEAN
         /\ probe[d].left \in Nat /\ probe[d].left <= Deadline
         /\ probe[d].by \in {"nobody", "worker", "page"}
         /\ loop.due \in Nat /\ loop.due <= Longest /\ loop.late \in BOOLEAN
         /\ loop.at \in {"wait", "run", "finished", "over"}
         /\ calm \in Nat /\ calm <= Settling
<1>1. noted[d] \in [age : 0..Never, next : 0..Interval, probing : BOOLEAN, denied : BOOLEAN]
  BY DEF HealthTypeOK
<1>2. probe[d] \in [by : {"nobody", "worker", "page"}, left : 0..Deadline]
  BY DEF HealthTypeOK
<1>3. loop \in [at : {"wait", "run", "finished", "over"}, due : 0..Longest, late : BOOLEAN]
  BY DEF HealthTypeOK
<1>4. calm \in 0..Settling
  BY DEF HealthTypeOK
<1> QED BY <1>1, <1>2, <1>3, <1>4, HealthNumbers

\* A shorter time is as good.
LEMMA Sooner ==
  ASSUME HealthTypeOK, NEW d \in Dependencies, NEW t \in Int, NEW s \in Int, s <= t, Soon(d, t)
  PROVE  Soon(d, s)
BY HealthFields, HealthNumbers DEF Soon

\* While it has not been calm, nothing is too late.
LEMMA NotCalm ==
  ASSUME HealthTypeOK, calm = 0, NEW d \in Dependencies
  PROVE  Judged(d)
<1> USE HealthNumbers
<1>1. \A t \in Int : t < Settling => Soon(d, t)
  BY DEF Soon
<1>2. probe[d].left \in Int /\ probe[d].left < Settling
  BY HealthFields
<1>3. Waiting(d) \in Int /\ Waiting(d) < Settling
  BY HealthFields DEF Waiting, PassedBy
<1>4. PassedBy(d) \in Int /\ PassedBy(d) < Settling
  BY HealthFields DEF PassedBy
<1>5. RunPause + Deadline \in Int /\ RunPause + Deadline < Settling
  OBVIOUS
<1>6. \A e \in Dependencies : /\ probe[e].left + RunPause + Deadline \in Int
                              /\ probe[e].left + RunPause + Deadline < Settling
  BY HealthFields
<1> QED BY <1>1, <1>2, <1>3, <1>4, <1>5, <1>6 DEF Judged

\* A dependency that was just judged right is, until it is probed again.
LEMMA JustJudged ==
  ASSUME HealthTypeOK, PauseEnds, NEW d \in Dependencies,
         ways[d] = "up" => noted[d].age = 0, noted[d].denied <=> ways[d] = "denied",
         noted[d].next = Interval
  PROVE  Judged(d)
<1> USE HealthNumbers
<1>1. \A t \in Int : t < Interval + Pause + 2 * Deadline => Soon(d, t)
  BY DEF Soon
<1>2. \A t \in Int : calm + t < Settling => Soon(d, t)
  BY DEF Soon
<1>3. Soon(d, probe[d].left) /\ Soon(d, 0)
  BY <1>1, HealthFields
<1>4. PassedBy(d) = Interval - 1 + Deadline + Pause + Deadline
  BY DEF PassedBy
<1>5. Soon(d, PassedBy(d))
  BY <1>1, <1>4
<1>6. ASSUME loop.at \in {"wait", "finished"} PROVE Soon(d, Waiting(d))
  <2>1. CASE loop.due < Interval
    BY <1>5, <2>1, HealthFields DEF Waiting
  <2>2. CASE loop.due >= Interval
    <3>1. Waiting(d) = loop.due + Deadline
      BY <2>2 DEF Waiting
    <3>2. CASE loop.due <= Pause
      BY <1>1, <3>1, <3>2, HealthFields
    <3>3. CASE ~(loop.due <= Pause)
      <4>1. ~Hanging /\ ~(loop.due <= Interval)
        BY <3>3, HealthFields DEF Pause
      <4>2. calm + loop.due <= Longest + Deadline
        BY <4>1, <1>6 DEF PauseEnds
      <4> QED BY <1>2, <4>2, <3>1, HealthFields
    <3> QED BY <3>2, <3>3
  <2> QED BY <2>1, <2>2, HealthFields
<1>7. ASSUME loop.at = "run", NEW e \in Dependencies, probe[e].by = "worker"
      PROVE  Soon(d, probe[e].left + RunPause + Deadline)
  <2>1. CASE RunPause = Pause
    BY <2>1, <1>1, HealthFields
  <2>2. CASE RunPause # Pause
    <3>1. loop.late /\ ~Hanging /\ RunPause = Longest
      BY <2>2 DEF RunPause, Pause
    <3>2. calm + probe[e].left <= Deadline
      BY <3>1, <1>7 DEF PauseEnds
    <3> QED BY <1>2, <3>1, <3>2, HealthFields
  <2> QED BY <2>1, <2>2
<1>8. ASSUME loop.at = "run" PROVE Soon(d, RunPause + Deadline)
  <2>1. CASE RunPause = Pause
    BY <2>1, <1>1
  <2>2. CASE RunPause # Pause
    <3>1. loop.late /\ ~Hanging /\ RunPause = Longest
      BY <2>2 DEF RunPause, Pause
    <3>2. calm <= Deadline
      BY <3>1, <1>8 DEF PauseEnds
    <3> QED BY <1>2, <3>1, <3>2, HealthFields
  <2> QED BY <2>1, <2>2
<1> QED BY <1>3, <1>5, <1>6, <1>7, <1>8 DEF Judged

\* Every step keeps the types.
LEMMA HealthTypedStep == HealthTypeOK /\ [HealthNext]_healthVars => HealthTypeOK'
<1> SUFFICES ASSUME HealthTypeOK, [HealthNext]_healthVars PROVE HealthTypeOK'
  OBVIOUS
<1> USE HealthNumbers
<1> DEFINE Note == [age : 0..Never, next : 0..Interval, probing : BOOLEAN, denied : BOOLEAN]
           Asked == [by : {"nobody", "worker", "page"}, left : 0..Deadline]
<1>0. /\ noted \in [Dependencies -> Note] /\ probe \in [Dependencies -> Asked]
      /\ NoProbe \in Asked /\ Interval \in 0..Interval /\ 0 \in 0..Never /\ Deadline \in 0..Deadline
  BY DEF HealthTypeOK, NoProbe
<1>1. \A r \in Note, v \in BOOLEAN : Success(r) \in Note /\ Failure(r, v) \in Note
  BY <1>0 DEF Success, Failure
<1>2. \A d \in Dependencies : Heard(d) \in [Dependencies -> Note]
  <2> TAKE d \in Dependencies
  <2>1. (ways[d] = "denied") \in BOOLEAN
    OBVIOUS
  <2>2. Success(noted[d]) \in Note /\ Failure(noted[d], ways[d] = "denied") \in Note
    BY <1>0, <1>1, <2>1
  <2> HIDE DEF Note
  <2> QED BY <1>0, <2>2 DEF Heard
<1>3. \A d \in Dependencies : [noted EXCEPT ![d] = Failure(@, FALSE)] \in [Dependencies -> Note]
  <2> HIDE DEF Note
  <2> QED BY <1>0, <1>1
<1>4. \A d \in Dependencies : [probe EXCEPT ![d] = NoProbe] \in [Dependencies -> Asked]
  <2> HIDE DEF Asked
  <2> QED BY <1>0
<1>5. ASSUME NEW who \in {"worker", "page"}, StartProbes(who)
      PROVE  noted' \in [Dependencies -> Note] /\ probe' \in [Dependencies -> Asked]
  <2>1. \A d \in Dependencies : [noted[d] EXCEPT !.probing = TRUE, !.next = Interval] \in Note
    BY <1>0
  <2>2. [by |-> who, left |-> Deadline] \in Asked
    BY <1>0
  <2> HIDE DEF Note, Asked
  <2> QED BY <1>0, <1>5, <2>1, <2>2 DEF StartProbes
<1> DEFINE Shown == [running : BOOLEAN, failures : 0..MaxFailures, next : -1..Longest,
                     status : {"waiting", "running", "healthy", "retrying", "stopped"}]
           Loop == [at : {"wait", "run", "finished", "over"}, due : 0..Longest, late : BOOLEAN]
<1>6. /\ display \in Shown /\ loop \in Loop /\ down \in BOOLEAN
      /\ calm \in 0..Settling /\ changes \in 0..MaxChanges /\ MaxFailures \in Nat
  BY DEF HealthTypeOK, MaxFailures
<1>7. /\ ways \in [Dependencies -> {"up", "down", "hangs", "denied"}]
      /\ \A d \in Dependencies : ways[d] \in Modes(d)
  BY DEF HealthTypeOK
<1>8. HealthTypeOK' <=>
        /\ ways' \in [Dependencies -> {"up", "down", "hangs", "denied"}]
        /\ \A d \in Dependencies : ways'[d] \in Modes(d)
        /\ noted' \in [Dependencies -> Note] /\ probe' \in [Dependencies -> Asked]
        /\ loop' \in Loop /\ display' \in Shown /\ down' \in BOOLEAN
        /\ calm' \in 0..Settling /\ changes' \in 0..MaxChanges
  BY DEF HealthTypeOK, Modes
<1> HIDE DEF Note, Asked
<1>9. CASE \E d \in Dependencies : Answer(d) \/ TimeOut(d) \/ AbandonProbe(d) \/ Observe(d)
  <2>1. PICK d \in Dependencies : Answer(d) \/ TimeOut(d) \/ AbandonProbe(d) \/ Observe(d)
    BY <1>9
  <2>2. noted' \in [Dependencies -> Note]
    BY <2>1, <1>2, <1>3 DEF Answer, TimeOut, AbandonProbe, Observe
  <2>3. probe' \in [Dependencies -> Asked]
    BY <2>1, <1>0, <1>4 DEF Answer, TimeOut, AbandonProbe, Observe
  <2>4. loop' \in Loop
    <3>1. CASE TimeOut(d)
      <4>1. PICK late \in BOOLEAN : late = (loop.late \/ (probe[d].by = "worker" /\ d \in Agents))
        OBVIOUS
      <4>2. loop' = [loop EXCEPT !.late = late]
        BY <3>1, <4>1 DEF TimeOut
      <4> QED BY <4>2, <1>6
    <3>2. CASE ~TimeOut(d)
      BY <3>2, <2>1, <1>6 DEF Answer, AbandonProbe, Observe
    <3> QED BY <3>1, <3>2
  <2>5. ways' = ways /\ display' = display /\ down' = down /\ changes' = changes
    BY <2>1 DEF Answer, TimeOut, AbandonProbe, Observe
  <2>6. calm' = calm \/ calm' = 0
    BY <2>1 DEF Answer, TimeOut, AbandonProbe, Observe
  <2> QED BY <2>2, <2>3, <2>4, <2>5, <2>6, <1>6, <1>7, <1>8
<1>10. ASSUME NEW d \in Dependencies, NEW m \in Modes(d), Change(d, m) PROVE HealthTypeOK'
  <2>1. ways' = [ways EXCEPT ![d] = m] /\ m \in {"up", "down", "hangs", "denied"}
    BY <1>10 DEF Change, Modes
  <2>2. calm' \in 0..Settling /\ changes' \in 0..MaxChanges
    BY <1>10, <1>6 DEF Change
  <2>3. noted' = noted /\ probe' = probe /\ loop' = loop /\ display' = display /\ down' = down
    BY <1>10 DEF Change
  <2> QED BY <2>1, <2>2, <2>3, <1>0, <1>6, <1>7, <1>8
<1>11. CASE Page \/ Wake
  <2>1. noted' \in [Dependencies -> Note] /\ probe' \in [Dependencies -> Asked]
    BY <1>11, <1>5 DEF Page, Wake
  <2>2. loop' \in Loop
    BY <1>11, <1>6 DEF Page, Wake
  <2>4. display' \in Shown
    <3>1. CASE Page
      BY <3>1, <1>6 DEF Page
    <3>2. CASE Wake
      <4>1. display' = [display EXCEPT !.running = TRUE, !.status = "running", !.next = -1]
        BY <3>2 DEF Wake
      <4>2. -1 \in -1..Longest
        OBVIOUS
      <4> QED BY <4>1, <4>2, <1>6
    <3> QED BY <1>11, <3>1, <3>2
  <2>3. ways' = ways /\ down' = down /\ calm' = calm /\ changes' = changes
    BY <1>11 DEF Page, Wake
  <2> QED BY <2>1, <2>2, <2>3, <2>4, <1>6, <1>7, <1>8
<1>12. CASE EndWell \/ EndLate \/ Reschedule \/ StopWorker \/ ShutDown
  <2>0. /\ -1 \in -1..Longest /\ Interval \in -1..Longest /\ Interval \in 0..Longest
        /\ 0 \in 0..Longest /\ loop.due \in -1..Longest /\ 0 \in 0..MaxFailures
        /\ Up(display.failures, MaxFailures) \in 0..MaxFailures
        /\ Backoff(Up(display.failures, MaxFailures)) \in 0..Longest
    BY <1>6, BackoffBound DEF Up
  <2>1. loop' \in Loop
    <3>1. CASE EndWell
      BY <3>1, <1>6, <2>0 DEF EndWell
    <3>2. CASE EndLate
      BY <3>2, <1>6, <2>0 DEF EndLate
    <3>3. CASE Reschedule
      <4>1. loop' = [loop EXCEPT !.at = "wait"]
        BY <3>3 DEF Reschedule
      <4> QED BY <4>1, <1>6
    <3>4. CASE StopWorker
      BY <3>4, <2>0 DEF StopWorker
    <3>5. CASE ShutDown
      BY <3>5, <1>6 DEF ShutDown
    <3> QED BY <1>12, <3>1, <3>2, <3>3, <3>4, <3>5
  <2>2. display' \in Shown
    <3>1. CASE EndWell
      BY <3>1, <1>6, <2>0 DEF EndWell
    <3>2. CASE EndLate
      BY <3>2, <1>6, <2>0 DEF EndLate
    <3>3. CASE Reschedule
      <4>1. display' = [display EXCEPT !.next = loop.due]
        BY <3>3 DEF Reschedule
      <4> QED BY <4>1, <1>6, <2>0
    <3>4. CASE StopWorker
      <4>1. display' = [display EXCEPT !.running = FALSE, !.status = "stopped", !.next = -1]
        BY <3>4 DEF StopWorker
      <4> QED BY <4>1, <1>6, <2>0
    <3>5. CASE ShutDown
      BY <3>5, <1>6 DEF ShutDown
    <3> QED BY <1>12, <3>1, <3>2, <3>3, <3>4, <3>5
  <2>3. noted' = noted /\ probe' = probe /\ ways' = ways /\ calm' = calm /\ changes' = changes
    BY <1>12 DEF EndWell, EndLate, Reschedule, StopWorker, ShutDown
  <2>4. down' \in BOOLEAN
    BY <1>12, <1>6 DEF EndWell, EndLate, Reschedule, StopWorker, ShutDown
  <2> QED BY <2>1, <2>2, <2>3, <2>4, <1>0, <1>6, <1>7, <1>8
<1>13. CASE TimePasses
  <2>1. \A d \in Dependencies :
           /\ [noted[d] EXCEPT !.age = Older(@), !.next = Down(@)] \in Note
           /\ [probe[d] EXCEPT !.left = Down(@)] \in Asked
    <3> TAKE d \in Dependencies
    <3>1. /\ noted[d].age \in 0..Never /\ noted[d].next \in 0..Interval
          /\ probe[d].left \in 0..Deadline
      BY <1>0 DEF Note, Asked
    <3>2. /\ Older(noted[d].age) \in 0..Never /\ Down(noted[d].next) \in 0..Interval
          /\ Down(probe[d].left) \in 0..Deadline
      BY <3>1 DEF Older, Up, Down
    <3> QED BY <1>0, <3>2 DEF Note, Asked
  <2>2. noted' \in [Dependencies -> Note] /\ probe' \in [Dependencies -> Asked]
    BY <1>13, <2>1 DEF TimePasses
  <2>3. loop' \in Loop
    <3>1. loop.due \in 0..Longest
      BY <1>6
    <3>2. CASE loop.at = "wait"
      <4>1. loop' = [loop EXCEPT !.due = loop.due - 1]
        BY <1>13, <3>2 DEF TimePasses
      <4>2. loop.due > 0
        BY <1>13, <3>2 DEF TimePasses
      <4>3. loop.due - 1 \in 0..Longest
        BY <3>1, <4>2
      <4> QED BY <4>1, <4>3, <1>6
    <3>3. CASE loop.at # "wait"
      <4>1. loop' = [loop EXCEPT !.due = loop.due]
        BY <1>13, <3>3 DEF TimePasses
      <4> QED BY <4>1, <1>6
    <3> QED BY <3>2, <3>3
  <2>4. display' \in Shown
    <3>1. Down(display.next) \in -1..Longest
      BY <1>6 DEF Down
    <3>2. display' = [display EXCEPT !.next = Down(display.next)]
      BY <1>13 DEF TimePasses
    <3> QED BY <3>1, <3>2, <1>6
  <2>5. ways' = ways /\ down' = down /\ changes' = changes
    BY <1>13 DEF TimePasses
  <2>6. calm' = Up(calm, Settling)
    BY <1>13 DEF TimePasses
  <2>7. Up(calm, Settling) \in 0..Settling
    BY <1>6 DEF Up
  <2> QED BY <2>2, <2>3, <2>4, <2>5, <2>6, <2>7, <1>6, <1>7, <1>8
<1>14. CASE UNCHANGED healthVars
  BY <1>14, <1>0, <1>6, <1>7, <1>8 DEF healthVars
<1> QED BY <1>9, <1>10, <1>11, <1>12, <1>13, <1>14 DEF HealthNext

\* NotCalm and JustJudged of the state a step leads to.
LEMMA NotCalmNext == HealthTypeOK' /\ calm' = 0 => \A d \in Dependencies : Judged(d)'
<1>1. HealthTypeOK /\ calm = 0 => \A d \in Dependencies : Judged(d)
  BY NotCalm
<1>2. (HealthTypeOK /\ calm = 0 => \A d \in Dependencies : Judged(d))'
  BY <1>1, PTL
<1> QED BY <1>2

LEMMA JustJudgedNext ==
  HealthTypeOK' /\ PauseEnds' =>
    \A d \in Dependencies :
      /\ ways'[d] = "up" => noted'[d].age = 0
      /\ noted'[d].denied <=> ways'[d] = "denied"
      /\ noted'[d].next = Interval
      => Judged(d)'
<1> DEFINE Fresh(d) ==
      /\ ways[d] = "up" => noted[d].age = 0
      /\ noted[d].denied <=> ways[d] = "denied"
      /\ noted[d].next = Interval
<1>1. HealthTypeOK /\ PauseEnds => \A d \in Dependencies : Fresh(d) => Judged(d)
  BY JustJudged
<1>2. (HealthTypeOK /\ PauseEnds => \A d \in Dependencies : Fresh(d) => Judged(d))'
  BY <1>1, PTL
<1> QED BY <1>2

\* HealthFields, as a formula.
FieldsFit ==
  \A d \in Dependencies :
    /\ noted[d].age \in Nat /\ noted[d].age <= Never
    /\ noted[d].next \in Nat /\ noted[d].next <= Interval
    /\ probe[d].left \in Nat /\ probe[d].left <= Deadline
    /\ probe[d].by \in {"nobody", "worker", "page"}
    /\ loop.due \in Nat /\ loop.due <= Longest
    /\ loop.at \in {"wait", "run", "finished", "over"}
    /\ calm \in Nat /\ calm <= Settling

\* The fields of the state a step leads to.
LEMMA HealthFieldsNext == HealthTypeOK' => FieldsFit'
<1>1. HealthTypeOK => FieldsFit
  <2> SUFFICES ASSUME HealthTypeOK PROVE FieldsFit
    OBVIOUS
  <2> QED BY HealthFields DEF FieldsFit
<1>2. (HealthTypeOK => FieldsFit)'
  BY <1>1, PTL
<1> QED BY <1>2

\* What a step must leave alone to leave a dependency judged as it is.
LEMMA JudgedKept ==
  ASSUME NEW d \in Dependencies, Judged(d),
         noted'[d] = noted[d], probe'[d] = probe[d], ways' = ways, calm' = calm,
         loop'.at = loop.at, loop'.due = loop.due, RunPause' = RunPause,
         \A e \in Dependencies : probe'[e].by = "worker" => probe'[e] = probe[e]
  PROVE  Judged(d)'
<1>1. Pause' = Pause
  BY DEF Pause, Hanging
<1>2. \A t : Soon(d, t) =>
        \/ calm' + t < Settling
        \/ /\ ways'[d] = "up" => noted'[d].age + t < Interval + Pause' + 2 * Deadline
           /\ noted'[d].denied <=> ways'[d] = "denied"
  BY <1>1 DEF Soon
<1>3. probe'[d].left = probe[d].left /\ Waiting(d)' = Waiting(d) /\ PassedBy(d)' = PassedBy(d)
  BY <1>1 DEF Waiting, PassedBy
<1>4. \A e \in Dependencies : probe'[e].by = "worker" =>
        probe'[e].left + RunPause' + Deadline = probe[e].left + RunPause + Deadline
  OBVIOUS
<1>5. Soon(d, 0)' /\ (Soon(d, RunPause + Deadline) => Soon(d, RunPause + Deadline)')
  BY <1>2 DEF Soon, Judged
<1>6. Soon(d, PassedBy(d)) => Soon(d, PassedBy(d))'
  BY <1>2, <1>3 DEF Soon
<1>7. Soon(d, Waiting(d)) => Soon(d, Waiting(d))'
  BY <1>2, <1>3 DEF Soon
<1>8. Soon(d, probe[d].left) => Soon(d, probe[d].left)'
  BY <1>2, <1>3 DEF Soon
<1>9. ASSUME NEW e \in Dependencies, probe'[e].by = "worker",
             Soon(d, probe[e].left + RunPause + Deadline)
      PROVE  Soon(d, probe[e].left + RunPause + Deadline)'
  BY <1>2, <1>4, <1>9 DEF Soon
<1> QED BY <1>5, <1>6, <1>7, <1>8, <1>9 DEF Judged

\* The noted outcomes of the probes, field by field.
LEMMA HeardFields ==
  ASSUME HealthTypeOK, NEW d \in Dependencies
  PROVE  /\ \A e \in Dependencies \ {d} : Heard(d)[e] = noted[e]
         /\ Heard(d)[d].next = Interval /\ Heard(d)[d].probing = FALSE
         /\ ways[d] = "up" => Heard(d)[d].age = 0 /\ Heard(d)[d].denied = FALSE
         /\ ways[d] # "up" => Heard(d)[d].age = noted[d].age
         /\ Heard(d)[d].denied <=> ways[d] = "denied"
<1> DEFINE Note == [age : 0..Never, next : 0..Interval, probing : BOOLEAN, denied : BOOLEAN]
<1>1. noted \in [Dependencies -> Note]
  BY DEF HealthTypeOK
<1>2. \A e \in Dependencies \ {d} : Heard(d)[e] = noted[e]
  BY <1>1 DEF Heard
<1>3. Heard(d)[d] = IF ways[d] = "up" THEN Success(noted[d])
                    ELSE Failure(noted[d], ways[d] = "denied")
  BY <1>1 DEF Heard
<1>4. noted[d] \in Note
  BY <1>1
<1>5. /\ Success(noted[d]).age = 0 /\ Success(noted[d]).next = Interval
      /\ Success(noted[d]).probing = FALSE /\ Success(noted[d]).denied = FALSE
  BY DEF Success
<1>6. \A v \in BOOLEAN :
        /\ Failure(noted[d], v).age = noted[d].age /\ Failure(noted[d], v).next = Interval
        /\ Failure(noted[d], v).probing = FALSE /\ Failure(noted[d], v).denied = v
  BY <1>4 DEF Failure
<1>7. CASE ways[d] = "up"
  BY <1>2, <1>3, <1>5, <1>7
<1>8. CASE ways[d] # "up"
  BY <1>2, <1>3, <1>6, <1>8
<1> QED BY <1>7, <1>8

\* After a change, or a probe that was given up, there is nothing to keep.
LEMMA CalmLost ==
  ASSUME HealthTypeOK', calm' = 0
  PROVE  PauseEnds' /\ \A d \in Dependencies : Aged(d)' /\ Judged(d)'
<1>1. PauseEnds'
  <2>1. 0 + loop'.due <= Longest + Deadline
    BY HealthFieldsNext, HealthNumbers DEF FieldsFit, HealthTypeOK
  <2>2. \A e \in Dependencies : 0 + probe'[e].left <= Deadline
    BY HealthFieldsNext, HealthNumbers DEF FieldsFit
  <2> QED BY <2>1, <2>2, HealthNumbers DEF PauseEnds
<1>2. \A d \in Dependencies : Aged(d)'
  BY HealthFieldsNext DEF FieldsFit, Aged
<1> QED BY <1>1, <1>2, NotCalmNext

\* A probe that is answered, and a call noted beside the probes, judge right.
LEMMA AnswersKeep ==
  ASSUME HealthInv, HealthTypeOK', NEW d \in Dependencies, Answer(d) \/ Observe(d)
  PROVE  PauseEnds' /\ \A e \in Dependencies : Claimed(e)' /\ Aged(e)' /\ Judged(e)'
<1> USE HealthNumbers
<1>0. HealthTypeOK /\ PauseEnds
  BY DEF HealthInv
<1>1. ways' = ways /\ calm' = calm /\ loop' = loop /\ noted' = Heard(d)
  BY DEF Answer, Observe
<1>2. /\ \A e \in Dependencies \ {d} : probe'[e] = probe[e]
      /\ probe'[d] = probe[d] \/ probe'[d] = NoProbe
      /\ Observe(d) => probe'[d] = probe[d]
      /\ Answer(d) => probe'[d] = NoProbe
  BY <1>0 DEF Answer, Observe, HealthTypeOK
<1>3. NoProbe.by = "nobody" /\ NoProbe.left = 0
  BY DEF NoProbe
<1>4. \A e \in Dependencies : probe'[e].by = "worker" => probe'[e] = probe[e]
  BY <1>2, <1>3
<1>5. PauseEnds'
  BY <1>0, <1>1, <1>4 DEF PauseEnds, Hanging
<1>6. /\ noted'[d].next = Interval /\ noted'[d].probing = FALSE
      /\ ways'[d] = "up" => noted'[d].age = 0
      /\ ways'[d] # "up" => noted'[d].age = noted[d].age
      /\ noted'[d].denied <=> ways'[d] = "denied"
  BY <1>0, <1>1, HeardFields
<1>7. Judged(d)'
  BY <1>5, <1>6, JustJudgedNext
<1>8. Claimed(d)'
  BY <1>6, HealthFieldsNext DEF FieldsFit, Claimed
<1>9. Aged(d)'
  BY <1>1, <1>6 DEF Aged, HealthInv
<1>10. ASSUME NEW e \in Dependencies \ {d} PROVE Claimed(e)' /\ Aged(e)' /\ Judged(e)'
  <2>1. noted'[e] = noted[e] /\ probe'[e] = probe[e]
    BY <1>0, <1>1, <1>2, HeardFields
  <2>2. Claimed(e) /\ Aged(e) /\ Judged(e)
    BY DEF HealthInv
  <2>3. Claimed(e)' /\ Aged(e)'
    BY <2>1, <2>2, <1>1 DEF Claimed, Aged
  <2>4. RunPause' = RunPause
    BY <1>1 DEF RunPause, Pause, Hanging
  <2>5. Judged(e)'
    BY <2>1, <2>2, <2>4, <1>1, <1>4, JudgedKept
  <2> QED BY <2>3, <2>5
<1> QED BY <1>5, <1>7, <1>8, <1>9, <1>10

\* So does a probe whose deadline is met; one that is given up ends the calm.
LEMMA FailuresKeep ==
  ASSUME HealthInv, HealthTypeOK', NEW d \in Dependencies, TimeOut(d) \/ AbandonProbe(d)
  PROVE  PauseEnds' /\ \A e \in Dependencies : Claimed(e)' /\ Aged(e)' /\ Judged(e)'
<1> USE HealthNumbers
<1> DEFINE Note == [age : 0..Never, next : 0..Interval, probing : BOOLEAN, denied : BOOLEAN]
<1>0. HealthTypeOK /\ PauseEnds
  BY DEF HealthInv
<1>1. noted \in [Dependencies -> Note] /\ noted[d] \in Note
  BY <1>0 DEF HealthTypeOK
<1>2. noted' = [noted EXCEPT ![d] = Failure(noted[d], FALSE)] /\ ways' = ways
  BY DEF TimeOut, AbandonProbe
<1>3. /\ \A e \in Dependencies \ {d} : noted'[e] = noted[e] /\ probe'[e] = probe[e]
      /\ probe'[d] = NoProbe
  BY <1>0, <1>1, <1>2 DEF TimeOut, AbandonProbe, HealthTypeOK
<1>4. NoProbe.by = "nobody" /\ NoProbe.left = 0
  BY DEF NoProbe
<1>5. \A e \in Dependencies : probe'[e].by = "worker" => probe'[e] = probe[e]
  BY <1>3, <1>4
<1>6. /\ noted'[d].age = noted[d].age /\ noted'[d].next = Interval
      /\ noted'[d].probing = FALSE /\ noted'[d].denied = FALSE
  BY <1>1, <1>2 DEF Failure
<1>7. \A e \in Dependencies : Claimed(e)'
  BY <1>3, <1>4, <1>6 DEF HealthInv, Claimed
<1>8. CASE AbandonProbe(d)
  <2>1. calm' = 0
    BY <1>8 DEF AbandonProbe
  <2> QED BY <2>1, <1>7, CalmLost
<1>9. CASE TimeOut(d)
  <2>1. calm' = calm /\ ways[d] = "hangs" /\ loop'.at = loop.at /\ loop'.due = loop.due
    BY <1>0, <1>9 DEF TimeOut, HealthTypeOK
  <2>2. Hanging' = Hanging /\ Pause' = Pause
    BY <1>2 DEF Hanging, Pause
  <2>3. ~Hanging => loop'.late = loop.late
    <3> SUFFICES ASSUME ~Hanging PROVE loop'.late = loop.late
      OBVIOUS
    <3>1. d \notin Agents
      BY <2>1 DEF Hanging
    <3>2. (loop.late \/ (probe[d].by = "worker" /\ d \in Agents)) = loop.late
      BY <3>1, <1>0, HealthFields
    <3>3. loop' = [loop EXCEPT !.late = loop.late]
      BY <3>2, <1>9 DEF TimeOut
    <3> QED BY <3>3, <1>0 DEF HealthTypeOK
  <2>4. RunPause' = RunPause
    BY <2>2, <2>3 DEF RunPause, Pause
  <2>5. PauseEnds'
    BY <2>1, <2>2, <2>3, <1>0, <1>5 DEF PauseEnds
  <2>6. \A e \in Dependencies : Aged(e)'
    BY <2>1, <1>2, <1>3, <1>6 DEF HealthInv, Aged
  <2>7. Judged(d)'
    BY <2>1, <2>5, <1>2, <1>6, JustJudgedNext
  <2>8. ASSUME NEW e \in Dependencies \ {d} PROVE Judged(e)'
    <3>1. Judged(e)
      BY DEF HealthInv
    <3> QED BY <3>1, <2>1, <2>4, <1>2, <1>3, <1>5, JudgedKept
  <2> QED BY <2>5, <2>6, <2>7, <2>8, <1>7
<1> QED BY <1>8, <1>9

\* A dependency that changes ends it too.
LEMMA ChangeKeeps ==
  ASSUME HealthInv, HealthTypeOK', NEW d \in Dependencies, NEW m \in Modes(d), Change(d, m)
  PROVE  PauseEnds' /\ \A e \in Dependencies : Claimed(e)' /\ Aged(e)' /\ Judged(e)'
<1>1. calm' = 0 /\ noted' = noted /\ probe' = probe
  BY DEF Change
<1>2. \A e \in Dependencies : Claimed(e)'
  BY <1>1 DEF HealthInv, Claimed
<1> QED BY <1>1, <1>2, CalmLost

\* What the probes that are started leave behind; d is claimed or left alone.
LEMMA StartedFields ==
  ASSUME HealthTypeOK, NEW who \in {"worker", "page"}, StartProbes(who), NEW d \in Dependencies
  PROVE  /\ noted'[d].age = noted[d].age /\ noted'[d].denied = noted[d].denied
         /\ d \in ToProbe => /\ noted'[d].next = Interval
                               /\ probe'[d].by = who /\ probe'[d].left = Deadline
         /\ d \notin ToProbe => noted'[d] = noted[d] /\ probe'[d] = probe[d]
<1>1. noted[d] \in [age : 0..Never, next : 0..Interval, probing : BOOLEAN, denied : BOOLEAN]
  BY DEF HealthTypeOK
<1>2. noted'[d] = IF d \in ToProbe THEN [noted[d] EXCEPT !.probing = TRUE, !.next = Interval]
                  ELSE noted[d]
  BY DEF StartProbes
<1>3. probe'[d] = IF d \in ToProbe THEN [by |-> who, left |-> Deadline] ELSE probe[d]
  BY DEF StartProbes
<1>4. CASE d \in ToProbe
  BY <1>1, <1>2, <1>3, <1>4
<1>5. CASE d \notin ToProbe
  BY <1>2, <1>3, <1>5
<1> QED BY <1>4, <1>5

\* Who starts probes has claimed only what nobody probes.
LEMMA StartedKeep ==
  ASSUME HealthInv, HealthTypeOK', NEW who \in {"worker", "page"}, StartProbes(who),
         ways' = ways, calm' = calm
  PROVE  \A d \in Dependencies : /\ Claimed(d)' /\ Aged(d)'
                                 /\ d \in ToProbe => probe[d].by = "nobody" /\ noted[d].next = 0
<1> USE HealthNumbers
<1>0. HealthTypeOK
  BY DEF HealthInv
<1> TAKE d \in Dependencies
<1>1. Claimed(d) /\ Aged(d)
  BY DEF HealthInv
<1>2. d \in ToProbe => ~noted[d].probing /\ noted[d].next = 0
  BY DEF ToProbe
<1>3. d \in ToProbe => probe[d].by = "nobody"
  BY <1>0, <1>1, <1>2, HealthFields DEF Claimed
<1>4. Aged(d)'
  BY <1>0, <1>1, StartedFields DEF Aged
<1>5. CASE d \in ToProbe
  BY <1>0, <1>5, StartedFields, <1>2, <1>3, <1>4 DEF Claimed
<1>6. CASE d \notin ToProbe
  BY <1>0, <1>1, <1>6, StartedFields, <1>4 DEF Claimed
<1> QED BY <1>5, <1>6, <1>2, <1>3, <1>4

\* A page probes sooner what the worker would have probed.
LEMMA PageKeeps ==
  ASSUME HealthInv, HealthTypeOK', Page
  PROVE  PauseEnds' /\ \A d \in Dependencies : Claimed(d)' /\ Aged(d)' /\ Judged(d)'
<1> USE HealthNumbers
<1>0. HealthTypeOK /\ PauseEnds
  BY DEF HealthInv
<1>1. StartProbes("page") /\ ways' = ways /\ calm' = calm /\ loop' = loop
  BY DEF Page
<1>2. \A d \in Dependencies : /\ Claimed(d)' /\ Aged(d)'
                              /\ d \in ToProbe => probe[d].by = "nobody" /\ noted[d].next = 0
  BY <1>1, StartedKeep
<1>3. \A e \in Dependencies : probe'[e].by = "worker" => probe'[e] = probe[e]
  BY <1>0, <1>1, StartedFields
<1>4. PauseEnds'
  BY <1>0, <1>1, <1>3 DEF PauseEnds, Hanging
<1>5. RunPause' = RunPause /\ Pause' = Pause
  BY <1>1 DEF RunPause, Pause, Hanging
<1>6. ASSUME NEW d \in Dependencies PROVE Judged(d)'
  <2>1. Judged(d)
    BY DEF HealthInv
  <2>2. CASE d \notin ToProbe
    BY <2>1, <2>2, <1>0, <1>1, <1>3, <1>5, StartedFields, JudgedKept
  <2>3. CASE d \in ToProbe
    <3>1. probe[d].by = "nobody" /\ noted[d].next = 0
      BY <1>2, <2>3
    <3>2. /\ noted'[d].age = noted[d].age /\ noted'[d].denied = noted[d].denied
          /\ probe'[d].by = "page" /\ probe'[d].left = Deadline
      BY <1>0, <1>1, <2>3, StartedFields
    <3>3. loop.at # "over" => Soon(d, Deadline)
      <4>1. CASE loop.at \in {"wait", "finished"}
        <5>1. Soon(d, Waiting(d)) /\ Waiting(d) = loop.due + Deadline
          BY <4>1, <3>1, <2>1, <1>0, HealthFields DEF Judged, Waiting
        <5> QED BY <5>1, <1>0, HealthFields, Sooner
      <4>2. CASE loop.at = "run"
        <5>1. Soon(d, RunPause + Deadline)
          BY <4>2, <3>1, <2>1 DEF Judged
        <5> QED BY <5>1, <1>0, Sooner
      <4> QED BY <4>1, <4>2, <1>0, HealthFields
    <3>4. Soon(d, 0)
      BY <2>1 DEF Judged
    <3>5. loop'.at # "over" => Soon(d, probe[d].left)'
      BY <3>2, <3>3, <1>1, <1>5 DEF Soon
    <3>6. Soon(d, 0)'
      BY <3>2, <3>4, <1>1, <1>5 DEF Soon
    <3>7. probe'[d].by # "nobody"
      BY <3>2
    <3> QED BY <3>5, <3>6, <3>7 DEF Judged
  <2> QED BY <2>2, <2>3
<1> QED BY <1>2, <1>4, <1>6

\* The worker keeps its appointment: what it passes by was probed in time for the next.
LEMMA WakeKeeps ==
  ASSUME HealthInv, HealthTypeOK', Wake
  PROVE  PauseEnds' /\ \A d \in Dependencies : Claimed(d)' /\ Aged(d)' /\ Judged(d)'
<1> USE HealthNumbers
<1>0. HealthTypeOK /\ PauseEnds
  BY DEF HealthInv
<1>1. /\ StartProbes("worker") /\ ways' = ways /\ calm' = calm
      /\ loop.at = "wait" /\ loop.due = 0 /\ loop'.at = "run" /\ loop'.late = FALSE
  BY <1>0 DEF Wake, HealthTypeOK
<1>2. \A d \in Dependencies : /\ Claimed(d)' /\ Aged(d)'
                              /\ d \in ToProbe => probe[d].by = "nobody" /\ noted[d].next = 0
  BY <1>1, StartedKeep
<1>3. PauseEnds'
  BY <1>1 DEF PauseEnds
<1>4. Pause' = Pause /\ RunPause' = Pause
  BY <1>1 DEF RunPause, Pause, Hanging
<1>5. ASSUME NEW d \in Dependencies PROVE Judged(d)'
  <2>1. Judged(d) /\ Soon(d, 0) /\ Claimed(d)
    BY DEF HealthInv, Judged
  <2>2. noted'[d].age = noted[d].age /\ noted'[d].denied = noted[d].denied
    BY <1>0, <1>1, StartedFields
  <2>3. \A t : Soon(d, t) =>
          \/ calm' + t < Settling
          \/ /\ ways'[d] = "up" => noted'[d].age + t < Interval + Pause' + 2 * Deadline
             /\ noted'[d].denied <=> ways'[d] = "denied"
    BY <2>2, <1>1, <1>4 DEF Soon
  <2>4. Soon(d, 0)'
    BY <2>1, <2>3 DEF Soon
  <2>5. CASE d \in ToProbe
    <3>1. probe[d].by = "nobody" /\ noted[d].next = 0
      BY <1>2, <2>5
    <3>2. Soon(d, Waiting(d)) /\ Waiting(d) = Deadline
      BY <3>1, <2>1, <1>1 DEF Judged, Waiting
    <3>3. probe'[d].by = "worker" /\ probe'[d].left = Deadline
      BY <1>0, <1>1, <2>5, StartedFields
    <3>4. Soon(d, probe[d].left)'
      BY <3>2, <3>3, <2>3 DEF Soon
    <3>5. probe'[d].by # "nobody"
      BY <3>3
    <3> QED BY <3>4, <3>5, <2>4 DEF Judged
  <2>6. CASE d \notin ToProbe /\ probe[d].by # "nobody"
    <3>1. probe'[d] = probe[d] /\ Soon(d, probe[d].left)
      BY <2>6, <2>1, <1>0, <1>1, StartedFields DEF Judged
    <3>2. Soon(d, probe[d].left)'
      BY <3>1, <2>3 DEF Soon
    <3> QED BY <3>1, <3>2, <2>4, <2>6 DEF Judged
  <2>7. CASE d \notin ToProbe /\ probe[d].by = "nobody"
    <3>1. noted[d].next > 0
      BY <2>1, <2>7, <1>0, HealthFields DEF Claimed, ToProbe
    <3>2. Soon(d, PassedBy(d))
      BY <3>1, <2>1, <2>7, <1>1, <1>0, HealthFields DEF Judged, Waiting
    <3>3. PassedBy(d) = noted[d].next - 1 + Deadline + Pause + Deadline
      BY DEF PassedBy
    <3>4. noted'[d] = noted[d] /\ probe'[d] = probe[d]
      BY <2>7, <1>0, <1>1, StartedFields
    <3>5. PassedBy(d)' = PassedBy(d)
      BY <3>4, <1>4 DEF PassedBy
    <3>6. Soon(d, PassedBy(d))'
      BY <3>2, <3>5, <2>3 DEF Soon
    <3>7. Soon(d, Pause + Deadline)
      BY <3>1, <3>2, <3>3, <1>0, HealthFields, Sooner
    <3>8. Soon(d, RunPause + Deadline)'
      BY <3>7, <2>3, <1>4 DEF Soon
    <3>9. ASSUME NEW e \in Dependencies PROVE Soon(d, probe[e].left + RunPause + Deadline)'
      <4>1. probe'[e].left \in Nat /\ probe'[e].left <= Deadline
        BY HealthFieldsNext DEF FieldsFit
      <4>2. PICK left \in Nat : left = probe'[e].left
        BY <4>1
      <4>3. Soon(d, left + Pause + Deadline)
        BY <4>1, <4>2, <3>1, <3>2, <3>3, <1>0, HealthFields, Sooner
      <4> QED BY <4>2, <4>3, <2>3, <1>4 DEF Soon
    <3> QED BY <3>4, <3>6, <3>8, <3>9, <2>4, <2>7, <1>1 DEF Judged
  <2> QED BY <2>5, <2>6, <2>7
<1> QED BY <1>2, <1>3, <1>5


\* The end of a run leaves a pause that every dependency without a probe was ready for.
LEMMA EndsKeep ==
  ASSUME HealthInv, HealthTypeOK', EndWell \/ EndLate
  PROVE  PauseEnds' /\ \A d \in Dependencies : Claimed(d)' /\ Aged(d)' /\ Judged(d)'
<1> USE HealthNumbers
<1>0. HealthTypeOK /\ PauseEnds
  BY DEF HealthInv
<1>1. /\ ways' = ways /\ calm' = calm /\ noted' = noted /\ probe' = probe
      /\ loop.at = "run" /\ \A e \in Dependencies : probe[e].by # "worker"
  BY DEF EndWell, EndLate, RunOver
<1>2. PICK due \in Nat : /\ due <= RunPause /\ loop'.due = due
                         /\ EndWell => due = Interval /\ loop'.at = "wait"
                         /\ EndLate => loop'.at = "finished"
  <2>1. CASE EndWell
    <3>1. loop' = [loop EXCEPT !.at = "wait", !.due = Interval]
      BY <2>1 DEF EndWell
    <3>2. loop'.due = Interval /\ loop'.at = "wait" /\ ~EndLate
      BY <2>1, <3>1, <1>0 DEF HealthTypeOK, EndWell, EndLate
    <3> QED BY <3>2
  <2>2. CASE EndLate
    <3>1. PICK n : loop' = [loop EXCEPT !.at = "finished", !.due = Backoff(n)]
      BY <2>2 DEF EndLate
    <3>2. loop'.due = Backoff(n) /\ loop'.at = "finished" /\ ~EndWell /\ RunPause = Longest
      BY <2>2, <3>1, <1>0 DEF HealthTypeOK, EndWell, EndLate, RunPause
    <3> QED BY <3>2, BackoffBound
  <2> QED BY <2>1, <2>2
<1>3. loop'.at \in {"wait", "finished"}
  BY <1>2
<1>4. Pause' = Pause /\ Hanging' = Hanging
  BY <1>1 DEF Pause, Hanging
<1>5. PauseEnds'
  <2>1. CASE EndWell
    BY <2>1, <1>2 DEF PauseEnds
  <2>2. CASE EndLate
    <3>1. loop.late
      BY <2>2 DEF EndLate
    <3>2. ~Hanging => calm <= Deadline
      BY <3>1, <1>0, <1>1 DEF PauseEnds
    <3>3. ~Hanging => calm' + loop'.due <= Longest + Deadline
      BY <3>2, <1>0, <1>1, <1>2, HealthFields DEF HealthTypeOK
    <3> QED BY <3>3, <1>3, <1>4 DEF PauseEnds
  <2> QED BY <2>1, <2>2
<1>6. \A d \in Dependencies : Claimed(d)' /\ Aged(d)'
  BY <1>1 DEF HealthInv, Claimed, Aged
<1>7. ASSUME NEW d \in Dependencies PROVE Judged(d)'
  <2>1. Judged(d) /\ Soon(d, 0)
    BY DEF HealthInv, Judged
  <2>2. \A t : Soon(d, t) =>
          \/ calm' + t < Settling
          \/ /\ ways'[d] = "up" => noted'[d].age + t < Interval + Pause' + 2 * Deadline
             /\ noted'[d].denied <=> ways'[d] = "denied"
    BY <1>1, <1>4 DEF Soon
  <2>3. Soon(d, 0)'
    BY <2>1, <2>2 DEF Soon
  <2>4. CASE probe[d].by # "nobody"
    <3>1. Soon(d, probe[d].left)
      BY <2>1, <2>4, <1>1 DEF Judged
    <3>2. Soon(d, probe[d].left)'
      BY <3>1, <2>2, <1>1 DEF Soon
    <3> QED BY <3>2, <2>3, <2>4, <1>1 DEF Judged
  <2>5. CASE probe[d].by = "nobody"
    <3>1. /\ Soon(d, RunPause + Deadline)
          /\ noted[d].next > 0 => Soon(d, PassedBy(d))
      BY <2>1, <2>5, <1>1 DEF Judged
    <3>2. PassedBy(d)' = PassedBy(d)
      BY <1>1, <1>4 DEF PassedBy
    <3>3. Waiting(d)' = IF due >= noted[d].next THEN due + Deadline ELSE PassedBy(d)
      BY <1>1, <1>2, <3>2 DEF Waiting
    <3>4. Soon(d, due + Deadline)
      BY <3>1, <1>0, <1>2, Sooner
    <3>5. due >= noted[d].next \/ noted[d].next > 0
      BY <1>0, <1>2, HealthFields
    <3>6. PICK t : t = Waiting(d)' /\ Soon(d, t)
      BY <3>1, <3>3, <3>4, <3>5
    <3>7. Soon(d, Waiting(d))'
      BY <3>6, <2>2 DEF Soon
    <3> QED BY <3>7, <2>3, <2>5, <1>1, <1>3 DEF Judged
  <2> QED BY <2>4, <2>5
<1> QED BY <1>5, <1>6, <1>7

\* Steps that leave the dependencies and their probes alone.
LEMMA RestKeeps ==
  ASSUME HealthInv, Reschedule \/ StopWorker \/ ShutDown \/ UNCHANGED healthVars
  PROVE  PauseEnds' /\ \A d \in Dependencies : Claimed(d)' /\ Aged(d)' /\ Judged(d)'
<1>0. HealthTypeOK /\ PauseEnds
  BY DEF HealthInv
<1>1. ways' = ways /\ calm' = calm /\ noted' = noted /\ probe' = probe
  BY DEF Reschedule, StopWorker, ShutDown, healthVars
<1>2. Pause' = Pause /\ Hanging' = Hanging
  BY <1>1 DEF Pause, Hanging
<1>3. \A d \in Dependencies : Claimed(d)' /\ Aged(d)'
  BY <1>1 DEF HealthInv, Claimed, Aged
<1>4. ASSUME NEW d \in Dependencies
      PROVE  Judged(d) /\ (\A t : Soon(d, t) =>
               \/ calm' + t < Settling
               \/ /\ ways'[d] = "up" => noted'[d].age + t < Interval + Pause' + 2 * Deadline
                  /\ noted'[d].denied <=> ways'[d] = "denied")
  BY <1>1, <1>2 DEF HealthInv, Soon
<1>5. CASE Reschedule
  <2>1. loop.at = "finished" /\ loop'.at = "wait" /\ loop'.due = loop.due
    BY <1>5, <1>0 DEF Reschedule, HealthTypeOK
  <2>2. PauseEnds'
    BY <2>1, <1>0, <1>1, <1>2 DEF PauseEnds
  <2>3. ASSUME NEW d \in Dependencies PROVE Judged(d)'
    <3>1. Waiting(d)' = Waiting(d)
      BY <2>1, <1>1, <1>2 DEF Waiting, PassedBy
    <3>2. probe[d].by # "nobody" => Soon(d, probe[d].left)'
      BY <2>1, <1>1, <1>4 DEF Judged, Soon
    <3>3. probe[d].by = "nobody" => Soon(d, Waiting(d))'
      BY <3>1, <2>1, <1>1, <1>4 DEF Judged, Soon
    <3>4. Soon(d, 0)'
      BY <1>4 DEF Judged, Soon
    <3> QED BY <3>2, <3>3, <3>4, <2>1, <1>1 DEF Judged
  <2> QED BY <2>2, <2>3, <1>3
<1>6. CASE StopWorker
  <2>1. loop'.at = "over"
    BY <1>6 DEF StopWorker
  <2>2. \A d \in Dependencies : Soon(d, 0)'
    BY <1>4 DEF Judged, Soon
  <2>3. \A d \in Dependencies : Judged(d)'
    BY <2>1, <2>2 DEF Judged
  <2>4. PauseEnds'
    BY <2>1 DEF PauseEnds
  <2> QED BY <2>3, <2>4, <1>3
<1>7. CASE ShutDown \/ UNCHANGED healthVars
  <2>1. loop' = loop
    BY <1>7 DEF ShutDown, healthVars
  <2>2. PauseEnds'
    BY <2>1, <1>0, <1>1, <1>2 DEF PauseEnds
  <2>3. RunPause' = RunPause
    BY <2>1, <1>2 DEF RunPause
  <2>4. \A d \in Dependencies : Judged(d)'
    BY <2>1, <2>3, <1>1, <1>4, JudgedKept
  <2> QED BY <2>2, <2>4, <1>3
<1> QED BY <1>5, <1>6, <1>7

\* A tick, field by field.
LEMMA TickFields ==
  ASSUME HealthTypeOK, TimePasses
  PROVE  /\ ways' = ways /\ calm' = Up(calm, Settling)
         /\ loop'.at = loop.at /\ loop'.late = loop.late
         /\ loop.at = "wait" => loop'.due = loop.due - 1 /\ loop.due > 0
         /\ loop.at = "run" => \E e \in Dependencies : probe[e].by = "worker"
         /\ loop.at \in {"wait", "run"}
         /\ \A d \in Dependencies :
              /\ noted'[d].age = Older(noted[d].age) /\ noted'[d].next = Down(noted[d].next)
              /\ noted'[d].denied = noted[d].denied /\ noted'[d].probing = noted[d].probing
              /\ probe'[d].by = probe[d].by /\ probe'[d].left = Down(probe[d].left)
              /\ probe[d].by # "nobody" => probe[d].left > 0
<1>1. ways' = ways /\ calm' = Up(calm, Settling) /\ loop.at \in {"wait", "run"}
  BY DEF TimePasses
<1>2. loop.at = "wait" => loop.due > 0
  BY DEF TimePasses
<1>3. loop.at = "run" => \E e \in Dependencies : probe[e].by = "worker"
  BY DEF TimePasses, RunOver
<1>4. PICK due : /\ loop' = [loop EXCEPT !.due = due]
                 /\ due = IF loop.at = "wait" THEN loop.due - 1 ELSE loop.due
  BY DEF TimePasses
<1>5. loop'.at = loop.at /\ loop'.late = loop.late /\ (loop.at = "wait" => loop'.due = loop.due - 1)
  BY <1>4 DEF HealthTypeOK
<1>6. ASSUME NEW d \in Dependencies
      PROVE  /\ noted'[d].age = Older(noted[d].age) /\ noted'[d].next = Down(noted[d].next)
             /\ noted'[d].denied = noted[d].denied /\ noted'[d].probing = noted[d].probing
             /\ probe'[d].by = probe[d].by /\ probe'[d].left = Down(probe[d].left)
             /\ probe[d].by # "nobody" => probe[d].left > 0
  <2>1. noted[d] \in [age : 0..Never, next : 0..Interval, probing : BOOLEAN, denied : BOOLEAN]
    BY DEF HealthTypeOK
  <2>2. probe[d] \in [by : {"nobody", "worker", "page"}, left : 0..Deadline]
    BY DEF HealthTypeOK
  <2>3. PICK age, next : /\ age = Older(noted[d].age) /\ next = Down(noted[d].next)
                         /\ noted'[d] = [noted[d] EXCEPT !.age = age, !.next = next]
    BY DEF TimePasses
  <2>4. PICK left : left = Down(probe[d].left) /\ probe'[d] = [probe[d] EXCEPT !.left = left]
    BY DEF TimePasses
  <2>5. probe[d].by # "nobody" => probe[d].left > 0
    BY DEF TimePasses
  <2> QED BY <2>1, <2>2, <2>3, <2>4, <2>5
<1> QED BY <1>1, <1>2, <1>3, <1>5, <1>6

\* What TickKeeps computes with.
LEMMA Shorter ==
  ASSUME NEW n \in Int, NEW m \in Int, NEW s \in Int, NEW t \in Int, NEW most \in Int,
         m <= n + 1, s + 1 <= t, n + t < most
  PROVE  m + s < most
OBVIOUS

\* As time passes, the time within which a dependency is probed shrinks with it.
LEMMA TickKeeps ==
  ASSUME HealthInv, HealthTypeOK', TimePasses
  PROVE  PauseEnds' /\ \A d \in Dependencies : Claimed(d)' /\ Aged(d)' /\ Judged(d)'
<1> USE HealthNumbers
<1>0. HealthTypeOK /\ PauseEnds
  BY DEF HealthInv
<1>1. Pause' = Pause /\ Hanging' = Hanging /\ RunPause' = RunPause
  BY <1>0, TickFields DEF RunPause, Pause, Hanging
<1>2. calm' <= calm + 1 /\ calm' \in Nat
  BY <1>0, TickFields, HealthFieldsNext, HealthFields DEF Up, FieldsFit, HealthTypeOK
<1>3. ASSUME NEW d \in Dependencies
      PROVE  /\ probe[d].by # "nobody" => probe'[d].left = probe[d].left - 1 /\ probe[d].left > 0
             /\ noted'[d].next = IF noted[d].next > 0 THEN noted[d].next - 1 ELSE 0
             /\ noted'[d].age <= noted[d].age + 1
  <2>1. /\ noted'[d].age = Older(noted[d].age) /\ noted'[d].next = Down(noted[d].next)
        /\ probe'[d].left = Down(probe[d].left)
        /\ probe[d].by # "nobody" => probe[d].left > 0
    BY <1>0, TickFields
  <2>2. noted[d].age \in Nat /\ noted[d].next \in Nat /\ probe[d].left \in Nat
    BY <1>0, HealthFields
  <2> QED BY <2>1, <2>2 DEF Older, Up, Down
<1>4. PauseEnds'
  <2> SUFFICES ASSUME ~Hanging PROVE PauseEnds'
    BY <1>1 DEF PauseEnds
  <2>1. CASE loop.at = "wait"
    <3>1. loop'.due = loop.due - 1 /\ loop'.at = "wait"
      BY <2>1, <1>0, TickFields
    <3>2. loop.due <= Interval \/ calm + loop.due <= Longest + Deadline
      BY <2>1, <1>0 DEF PauseEnds
    <3>3. loop.due \in Nat /\ calm \in Nat
      BY <1>0 DEF HealthTypeOK
    <3>4. loop'.due <= Interval \/ calm' + loop'.due <= Longest + Deadline
      BY <3>1, <3>2, <3>3, <1>2
    <3> QED BY <3>1, <3>4 DEF PauseEnds
  <2>2. CASE loop.at = "run"
    <3>1. PICK f \in Dependencies : probe[f].by = "worker"
      BY <2>2, <1>0, TickFields
    <3>2. loop'.at = "run" /\ loop'.late = loop.late
      BY <2>2, <1>0, TickFields
    <3>3. ASSUME loop.late, NEW e \in Dependencies, probe[e].by = "worker"
          PROVE  calm' + probe'[e].left <= Deadline /\ calm' <= Deadline
      <4>1. calm + probe[e].left <= Deadline
        BY <3>3, <2>2, <1>0 DEF PauseEnds
      <4>2. probe'[e].left = probe[e].left - 1 /\ probe[e].left > 0
        BY <3>3, <1>3
      <4>3. calm \in Nat /\ probe[e].left \in Nat
        BY <1>0, HealthFields
      <4> QED BY <4>1, <4>2, <4>3, <1>2
    <3>4. \A e \in Dependencies : probe'[e].by = probe[e].by
      BY <1>0, TickFields
    <3> QED BY <3>1, <3>2, <3>3, <3>4 DEF PauseEnds
  <2> QED BY <2>1, <2>2, <1>0, TickFields
<1>5. ASSUME NEW d \in Dependencies PROVE Claimed(d)' /\ Aged(d)'
  <2>1. Claimed(d) /\ Aged(d)
    BY DEF HealthInv
  <2>2. Claimed(d)'
    BY <2>1, <1>0, <1>3, TickFields, HealthFields DEF Claimed
  <2>3. noted'[d].age = Older(noted[d].age) /\ calm' = Up(calm, Settling) /\ ways' = ways
    BY <1>0, TickFields
  <2>4. noted[d].age \in Nat /\ calm \in Nat /\ calm <= Settling /\ noted[d].age <= Never
    BY <1>0, HealthFields DEF HealthTypeOK
  <2>5. Aged(d)'
    BY <2>1, <2>3, <2>4 DEF Aged, Older, Up
  <2> QED BY <2>2, <2>5
<1>6. ASSUME NEW d \in Dependencies PROVE Judged(d)'
  <2>1. Judged(d)
    BY DEF HealthInv
  <2>2. ways' = ways /\ noted'[d].denied = noted[d].denied /\ probe'[d].by = probe[d].by
    BY <1>0, TickFields
  <2>3. noted[d].age \in Nat /\ noted'[d].age \in Nat /\ calm \in Nat /\ noted[d].next \in Nat
    BY <1>0, HealthFields, HealthFieldsNext DEF FieldsFit, HealthTypeOK
  <2>4. ASSUME NEW t \in Int, NEW s \in Int, s + 1 <= t, Soon(d, t)
        PROVE  \/ calm' + s < Settling
               \/ /\ ways'[d] = "up" => noted'[d].age + s < Interval + Pause' + 2 * Deadline
                  /\ noted'[d].denied <=> ways'[d] = "denied"
    <3>1. CASE calm + t < Settling
      <4>1. calm' + s < Settling
        <5>1. calm \in Int /\ calm' \in Int /\ Settling \in Int
          BY <2>3, <1>2
        <5>2. calm' <= calm + 1
          BY <1>2
        <5>3. calm + t < Settling
          BY <3>1
        <5>4. s + 1 <= t
          BY <2>4
        <5> QED BY <5>1, <5>2, <5>3, <5>4, Shorter
      <4> QED BY <4>1
    <3>2. CASE ~(calm + t < Settling)
      <4>1. /\ ways[d] = "up" => noted[d].age + t < Interval + Pause + 2 * Deadline
            /\ noted[d].denied <=> ways[d] = "denied"
        BY <3>2, <2>4 DEF Soon
      <4>2. noted'[d].age <= noted[d].age + 1
        BY <1>3
      <4>3. ways'[d] = "up" => noted'[d].age + s < Interval + Pause + 2 * Deadline
        BY <4>1, <4>2, <2>2, <2>3, <2>4
      <4> QED BY <4>1, <4>3, <2>2, <1>1
    <3> QED BY <3>1, <3>2
  <2>5. CASE probe[d].by # "nobody"
    <3>1. /\ Soon(d, probe[d].left) /\ probe'[d].left = probe[d].left - 1
          /\ probe[d].left \in Nat /\ probe[d].left > 0
      BY <2>5, <2>1, <1>0, <1>3, TickFields, HealthFields DEF Judged
    <3>2. PICK t \in Nat : t = probe[d].left
      BY <3>1
    <3>3. Soon(d, t) /\ t - 1 \in Int /\ t > 0
      BY <3>1, <3>2
    <3>4. Soon(d, probe[d].left)'
      BY <3>1, <3>2, <3>3, <2>4 DEF Soon
    <3>5. Soon(d, 0)'
      BY <3>3, <2>4 DEF Soon
    <3> QED BY <3>4, <3>5, <2>2, <2>5 DEF Judged
  <2>6. CASE probe[d].by = "nobody" /\ loop.at = "wait"
    <3>1. PICK t : t = Waiting(d) /\ Soon(d, t)
      BY <2>6, <2>1 DEF Judged
    <3>2. loop'.due = loop.due - 1 /\ loop.due > 0 /\ loop.due \in Nat /\ loop'.at = "wait"
      BY <2>6, <1>0, TickFields, HealthFields DEF HealthTypeOK
    <3>3. t \in Int /\ t > 0
      BY <3>1, <3>2, <2>3 DEF Waiting, PassedBy
    <3>4. Waiting(d)' = t - 1
      <4>1. noted'[d].next = IF noted[d].next > 0 THEN noted[d].next - 1 ELSE 0
        BY <1>3
      <4>2. PassedBy(d)' = noted'[d].next - 1 + Deadline + Pause + Deadline
        BY <1>1 DEF PassedBy
      <4>3. Waiting(d)' = IF loop'.due >= noted'[d].next THEN loop'.due + Deadline ELSE PassedBy(d)'
        BY DEF Waiting
      <4>4. t = IF loop.due >= noted[d].next THEN loop.due + Deadline
                ELSE noted[d].next - 1 + Deadline + Pause + Deadline
        BY <3>1 DEF Waiting, PassedBy
      <4> QED BY <4>1, <4>2, <4>3, <4>4, <3>2, <2>3
    <3>5. Soon(d, Waiting(d))'
      BY <3>1, <3>3, <3>4, <2>4 DEF Soon
    <3>6. Soon(d, 0)'
      BY <3>1, <3>3, <2>4 DEF Soon
    <3> QED BY <3>2, <3>5, <3>6, <2>2, <2>6 DEF Judged
  <2>7. CASE probe[d].by = "nobody" /\ loop.at = "run"
    <3>1. PICK f \in Dependencies : probe[f].by = "worker"
      BY <2>7, <1>0, TickFields
    <3>2. ASSUME NEW e \in Dependencies, probe[e].by = "worker"
          PROVE  Soon(d, probe[e].left + RunPause + Deadline) /\ probe[e].left \in Nat
                 /\ probe[e].left > 0 /\ probe'[e].left = probe[e].left - 1
      BY <3>2, <2>7, <2>1, <1>0, <1>3, HealthFields DEF Judged
    <3>3. PICK t \in Nat : t = probe[f].left /\ t > 0 /\ Soon(d, t + RunPause + Deadline)
      BY <3>1, <3>2
    <3>4. Soon(d, RunPause + Deadline)' /\ Soon(d, 0)'
      <4>1. PICK u : u = t + RunPause + Deadline
        OBVIOUS
      <4>2. /\ u \in Int /\ Soon(d, u) /\ 0 + 1 <= u
            /\ RunPause + Deadline \in Int /\ RunPause + Deadline + 1 <= u
        BY <3>3, <4>1
      <4>3. Soon(d, RunPause + Deadline)'
        BY <4>2, <2>4, <1>1 DEF Soon
      <4>4. Soon(d, 0)'
        BY <4>2, <2>4 DEF Soon
      <4> QED BY <4>3, <4>4
    <3>5. ASSUME NEW e \in Dependencies, probe'[e].by = "worker"
          PROVE  Soon(d, probe[e].left + RunPause + Deadline)'
      <4>1. probe[e].by = "worker"
        BY <3>5, <1>0, TickFields
      <4>2. PICK s \in Nat : /\ s = probe[e].left /\ Soon(d, s + RunPause + Deadline)
                             /\ probe'[e].left = s - 1
        BY <4>1, <3>2
      <4>3. PICK u : u = s + RunPause + Deadline
        OBVIOUS
      <4>4. u \in Int /\ u - 1 \in Int /\ u - 1 + 1 <= u /\ Soon(d, u)
        BY <4>2, <4>3
      <4>5. probe'[e].left + RunPause' + Deadline = u - 1
        BY <4>2, <4>3, <1>1
      <4> QED BY <4>4, <4>5, <2>4 DEF Soon
    <3>6. ASSUME noted'[d].next > 0 PROVE Soon(d, PassedBy(d))'
      <4>1. noted[d].next > 0 /\ noted'[d].next = noted[d].next - 1
        BY <3>6, <2>3, <1>3
      <4>2. PICK s : s = PassedBy(d) /\ Soon(d, s)
        BY <4>1, <2>7, <2>1 DEF Judged
      <4>3. s \in Int /\ PassedBy(d)' = s - 1
        BY <4>1, <4>2, <2>3, <1>1 DEF PassedBy
      <4>4. s - 1 \in Int /\ s - 1 + 1 <= s
        BY <4>3
      <4> QED BY <4>2, <4>3, <4>4, <2>4 DEF Soon
    <3>7. loop'.at = "run"
      BY <2>7, <1>0, TickFields
    <3> QED BY <3>4, <3>5, <3>6, <3>7, <2>2, <2>7 DEF Judged
  <2> QED BY <2>5, <2>6, <2>7, <1>0, TickFields
<1> QED BY <1>4, <1>5, <1>6

\* What is shown of the worker follows its loop.
LEMMA LoopShownStep == HealthTypeOK /\ LoopShown /\ [HealthNext]_healthVars => LoopShown'
<1> SUFFICES ASSUME HealthTypeOK, LoopShown, [HealthNext]_healthVars PROVE LoopShown'
  OBVIOUS
<1> DEFINE Shown == [running : BOOLEAN, failures : 0..MaxFailures, next : -1..Longest,
                     status : {"waiting", "running", "healthy", "retrying", "stopped"}]
           Loop == [at : {"wait", "run", "finished", "over"}, due : 0..Longest, late : BOOLEAN]
<1>1. display \in Shown /\ loop \in Loop
  BY DEF HealthTypeOK
<1>2. CASE display' = display /\ loop'.at = loop.at /\ loop'.due = loop.due
  BY <1>2 DEF LoopShown
<1>3. CASE \E d \in Dependencies : Answer(d) \/ TimeOut(d) \/ AbandonProbe(d) \/ Observe(d)
  <2>1. PICK d \in Dependencies : Answer(d) \/ TimeOut(d) \/ AbandonProbe(d) \/ Observe(d)
    BY <1>3
  <2>2. display' = display
    BY <2>1 DEF Answer, TimeOut, AbandonProbe, Observe
  <2>3. loop' = loop \/ \E late : loop' = [loop EXCEPT !.late = late]
    BY <2>1 DEF Answer, TimeOut, AbandonProbe, Observe
  <2> QED BY <2>2, <2>3, <1>1, <1>2
<1>4. CASE Page \/ ShutDown \/ UNCHANGED healthVars
           \/ \E d \in Dependencies, m \in UNION {Modes(e) : e \in Dependencies} : Change(d, m)
  BY <1>4, <1>2 DEF Page, ShutDown, healthVars, Change
<1>5. CASE Wake
  <2>1. loop' = [loop EXCEPT !.at = "run", !.late = FALSE]
    BY <1>5 DEF Wake
  <2>2. loop'.at = "run"
    BY <2>1, <1>1
  <2> QED BY <2>2 DEF LoopShown
<1>6. CASE EndWell
  <2>1. display'.next = Interval /\ ~display'.running /\ loop'.at = "wait" /\ loop'.due = Interval
    BY <1>6, <1>1 DEF EndWell
  <2> QED BY <2>1 DEF LoopShown
<1>7. CASE EndLate
  <2>1. ~display'.running
    BY <1>7 DEF EndLate
  <2>2. PICK n : loop' = [loop EXCEPT !.at = "finished", !.due = n]
    BY <1>7 DEF EndLate
  <2>3. loop'.at = "finished"
    BY <2>2, <1>1
  <2> QED BY <2>1, <2>3 DEF LoopShown
<1>8. CASE Reschedule
  <2>1. PICK n : n = loop.due /\ display' = [display EXCEPT !.next = n]
    BY <1>8 DEF Reschedule
  <2>2. display'.next = n /\ display'.running = display.running
    BY <2>1, <1>1
  <2>3. loop' = [loop EXCEPT !.at = "wait"] /\ loop.at = "finished"
    BY <1>8 DEF Reschedule
  <2>4. loop'.at = "wait" /\ loop'.due = n
    BY <2>1, <2>3, <1>1
  <2> QED BY <2>2, <2>3, <2>4 DEF LoopShown
<1>9. CASE StopWorker
  <2>1. loop'.at = "over"
    BY <1>9 DEF StopWorker
  <2>2. display' = [display EXCEPT !.running = FALSE, !.status = "stopped", !.next = -1]
    BY <1>9 DEF StopWorker
  <2>3. display'.running = FALSE /\ display'.status = "stopped"
    BY <2>2, <1>1
  <2> QED BY <2>1, <2>3 DEF LoopShown
<1>10. CASE TimePasses
  <2>1. PICK n : n = Down(display.next) /\ display' = [display EXCEPT !.next = n]
    BY <1>10 DEF TimePasses
  <2>2. display'.next = n /\ display'.running = display.running /\ display'.status = display.status
    BY <2>1, <1>1
  <2>3. loop'.at = loop.at /\ (loop.at = "wait" => loop'.due = loop.due - 1 /\ loop.due > 0)
    BY <1>10, TickFields
  <2>4. loop.at = "wait" => display.next = loop.due /\ ~display.running
    BY DEF LoopShown
  <2>5. loop.at = "wait" => n = loop.due - 1
    BY <2>1, <2>3, <2>4 DEF Down
  <2> QED BY <2>2, <2>3, <2>5 DEF LoopShown
<1> QED BY <1>3, <1>4, <1>5, <1>6, <1>7, <1>8, <1>9, <1>10 DEF HealthNext

\* Nothing is known of a dependency at the start, and it has not been calm.
LEMMA HealthStarts == HealthInit => HealthInv
<1> SUFFICES ASSUME HealthInit PROVE HealthInv
  OBVIOUS
<1> USE HealthNumbers
<1>1. /\ loop = [at |-> "wait", due |-> 0, late |-> FALSE] /\ calm = 0
      /\ display = [running |-> FALSE, failures |-> 0, next |-> 0, status |-> "waiting"]
      /\ \A d \in Dependencies :
           /\ noted[d] = [age |-> Never, next |-> 0, probing |-> FALSE, denied |-> FALSE]
           /\ probe[d] = NoProbe
  BY DEF HealthInit
<1>2. HealthTypeOK
  <2>1. ways \in [Dependencies -> {"up", "hangs"}]
    BY DEF HealthInit
  <2>2. NoProbe \in [by : {"nobody", "worker", "page"}, left : 0..Deadline]
    BY DEF NoProbe
  <2>3. [age |-> Never, next |-> 0, probing |-> FALSE, denied |-> FALSE]
          \in [age : 0..Never, next : 0..Interval, probing : BOOLEAN, denied : BOOLEAN]
    OBVIOUS
  <2>4. ways \in [Dependencies -> {"up", "down", "hangs", "denied"}]
        /\ \A d \in Dependencies : ways[d] \in Modes(d)
    BY <2>1 DEF Modes
  <2>5. display \in [running : BOOLEAN, failures : 0..MaxFailures, next : -1..Longest,
                     status : {"waiting", "running", "healthy", "retrying", "stopped"}]
    <3>1. 0 \in 0..MaxFailures /\ 0 \in -1..Longest
      BY DEF MaxFailures
    <3> QED BY <1>1, <3>1
  <2>6. loop \in [at : {"wait", "run", "finished", "over"}, due : 0..Longest, late : BOOLEAN]
    BY <1>1
  <2>7. down \in BOOLEAN /\ calm \in 0..Settling /\ changes \in 0..MaxChanges
    <3>1. 0 \in 0..Settling /\ 0 \in 0..MaxChanges
      OBVIOUS
    <3> QED BY <3>1 DEF HealthInit
  <2>8. noted \in [Dependencies -> [age : 0..Never, next : 0..Interval, probing : BOOLEAN,
                                    denied : BOOLEAN]]
    BY <2>3 DEF HealthInit
  <2>9. probe \in [Dependencies -> [by : {"nobody", "worker", "page"}, left : 0..Deadline]]
    BY <2>2 DEF HealthInit
  <2> QED BY <2>4, <2>5, <2>6, <2>7, <2>8, <2>9 DEF HealthTypeOK
<1>3. PauseEnds /\ LoopShown
  BY <1>1 DEF PauseEnds, LoopShown
<1>4. \A d \in Dependencies : Claimed(d) /\ Aged(d)
  <2> TAKE d \in Dependencies
  <2>1. probe[d].by = "nobody" /\ noted[d].probing = FALSE /\ noted[d].age = Never
    BY <1>1 DEF NoProbe
  <2> QED BY <2>1 DEF Claimed, Aged
<1> QED BY <1>1, <1>2, <1>3, <1>4, NotCalm DEF HealthInv

\* The invariant is kept by every step ...
LEMMA HealthInvStep == HealthInv /\ [HealthNext]_healthVars => HealthInv'
<1> SUFFICES ASSUME HealthInv, [HealthNext]_healthVars PROVE HealthInv'
  OBVIOUS
<1>1. HealthTypeOK' /\ LoopShown'
  BY HealthTypedStep, LoopShownStep DEF HealthInv
<1>2. CASE \E d \in Dependencies : Answer(d) \/ Observe(d)
  BY <1>1, <1>2, AnswersKeep DEF HealthInv
<1>3. CASE \E d \in Dependencies : TimeOut(d) \/ AbandonProbe(d)
  BY <1>1, <1>3, FailuresKeep DEF HealthInv
<1>4. CASE \E d \in Dependencies : \E m \in Modes(d) : Change(d, m)
  BY <1>1, <1>4, ChangeKeeps DEF HealthInv
<1>5. CASE Page
  BY <1>1, <1>5, PageKeeps DEF HealthInv
<1>6. CASE Wake
  BY <1>1, <1>6, WakeKeeps DEF HealthInv
<1>7. CASE EndWell \/ EndLate
  BY <1>1, <1>7, EndsKeep DEF HealthInv
<1>8. CASE Reschedule \/ StopWorker \/ ShutDown \/ UNCHANGED healthVars
  BY <1>1, <1>8, RestKeeps DEF HealthInv
<1>9. CASE TimePasses
  BY <1>1, <1>9, TickKeeps DEF HealthInv
<1> QED BY <1>2, <1>3, <1>4, <1>5, <1>6, <1>7, <1>8, <1>9 DEF HealthNext

\* ... and what is shown follows from it when things have been calm.
LEMMA HealthInvTells == HealthInv => HealthTold
<1> SUFFICES ASSUME HealthInv PROVE HealthTold
  OBVIOUS
<1> USE HealthNumbers
<1>1. HealthTypeOK /\ LoopShown
  BY DEF HealthInv
<1>2. ASSUME calm = Settling, NEW d \in Dependencies, NEW sample \in Samples(d)
      PROVE  /\ ways[d] = "up" /\ sample <= StaleAfter =>
                  State(d, sample) = "online" \/ (State(d, sample) = "stale" /\ Hanging)
             /\ ways[d] = "up" /\ sample > StaleAfter =>
                  State(d, sample) = IF sample = Past THEN "offline" ELSE "stale"
             /\ ways[d] = "denied" <=> State(d, sample) = "misconfigured"
             /\ ways[d] \in {"down", "hangs"} => State(d, sample) # "online"
  <2>1. Soon(d, 0) /\ Aged(d)
    BY DEF HealthInv, Judged
  <2>2. noted[d].age \in Nat /\ sample \in Nat /\ sample <= Never
    BY <1>1, HealthFields DEF Samples
  <2>3. /\ ways[d] = "up" => noted[d].age < Interval + Pause + 2 * Deadline
        /\ noted[d].denied <=> ways[d] = "denied"
    BY <2>1, <2>2, <1>2 DEF Soon
  <2>4. State(d, sample) = "misconfigured" <=> noted[d].denied
    BY DEF State
  <2>5. ~noted[d].denied /\ noted[d].age > StaleAfter => State(d, sample) # "online"
    BY <2>2 DEF State
  <2>6. CASE ways[d] = "up"
    <3>1. ~Hanging => noted[d].age <= StaleAfter
      BY <2>2, <2>3, <2>6, HealthAssumption DEF Pause
    <3>2. noted[d].age <= OfflineAfter /\ noted[d].age # Never /\ ~noted[d].denied
      BY <2>2, <2>3, <2>6, HealthAssumption
    <3>3. sample <= StaleAfter /\ noted[d].age <= StaleAfter => State(d, sample) = "online"
      BY <2>2, <3>2, HealthAssumption DEF State
    <3>4. sample <= StaleAfter => State(d, sample) \in {"online", "stale"}
      BY <2>2, <3>2, HealthAssumption DEF State
    <3>5. sample = Never => State(d, sample) = "stale"
      BY <2>2, <3>2 DEF State
    <3>6. sample = Past => State(d, sample) = "offline"
      BY <2>2, <3>2, HealthAssumption DEF State
    <3>7. sample > StaleAfter /\ sample <= OfflineAfter => State(d, sample) = "stale"
      BY <2>2, <3>2, HealthAssumption DEF State
    <3>8. sample > StaleAfter => sample = Past \/ sample = Never \/ sample <= OfflineAfter
      BY <2>2
    <3>9. Past # Never
      OBVIOUS
    <3> QED BY <3>1, <3>3, <3>4, <3>5, <3>6, <3>7, <3>8, <3>9, <2>3, <2>4, <2>6
  <2>7. CASE ways[d] \in {"down", "hangs"}
    <3>1. noted[d].age > StaleAfter
      BY <2>1, <2>2, <2>7, <1>2, HealthAssumption DEF Aged
    <3> QED BY <3>1, <2>3, <2>4, <2>5, <2>7
  <2>8. CASE ways[d] = "denied"
    BY <2>3, <2>4, <2>8
  <2>9. ways[d] \in {"up", "down", "hangs", "denied"}
    BY <1>1 DEF HealthTypeOK
  <2> QED BY <2>6, <2>7, <2>8, <2>9
<1> QED BY <1>1, <1>2 DEF HealthTold, Hanging, LoopShown

\* Whatever the number of dependencies and whatever times are configured within the
\* assumption: what the Gateway shows of a dependency is so once things have been calm.
THEOREM HealthIsTold == HealthSpec => []HealthTold
<1>1. HealthInit => HealthInv
  BY HealthStarts
<1>2. HealthInv /\ [HealthNext]_healthVars => HealthInv'
  BY HealthInvStep
<1>3. HealthInv => HealthTold
  BY HealthInvTells
<1> QED BY <1>1, <1>2, <1>3, PTL DEF HealthSpec
=============================================================================
