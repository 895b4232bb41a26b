------------------------ MODULE GpuAdmissionProofs ------------------------
(***************************************************************************)
(* What holds of the GPU admission for any number of works, tokens and     *)
(* probers, any head start and lease term, and any bounds.  IInv is the    *)
(* inductive invariant; every action property follows from one step of it. *)
(***************************************************************************)
EXTENDS GpuAdmission, TLAPS

Row ==
  [state : States, phase : Phases, token : Tokens \cup {None},
   lease : Leases, external : Externals \cup {None},
   cancel : BOOLEAN, ready : BOOLEAN, priority : BOOLEAN,
   owner : {"enabled", "disabled", "deleted"}, queuedAt : Nat]

IInv == TypeOK /\ OneHolder /\ FreshObservation

\* The steps that leave the revision alone: none of them touches a tenure.
Quiet(w) ==
  \/ \E priority \in BOOLEAN : Enqueue(w, priority)
  \/ \E token \in Tokens, term \in 1..LeaseTerm : Heartbeat(w, token, term)
  \/ RequestCancel(w) \/ Retry(w) \/ LeaseRuns(w) \/ IntentExpires(w)
  \/ \E owner \in {"enabled", "disabled", "deleted"} : OwnerChanges(w, owner)

\* The steps that move the tenure: they all withdraw the observation.
Moving(w) ==
  \/ \E token \in Tokens, term \in 1..LeaseTerm : Grant(w, token, term)
  \/ \E token \in Tokens, phase \in {"dispatching", "running"}, external \in Externals \cup {None} :
       SetPhase(w, token, phase, external)
  \/ \E token \in Tokens, code \in Codes, p \in Probers : Release(w, token, code, p)

\* Every step is one of these.
LEMMA StepKinds ==
  ASSUME [Next]_vars
  PROVE  \/ \E w \in Works : Quiet(w) \/ Moving(w)
         \/ \E p \in Probers : Capture(p)
         \/ \E p \in Probers, observation \in {"idle", "busy", "unknown"} :
              Observe(p, observation)
         \/ Expire \/ ObservationExpires \/ Tick \/ UNCHANGED vars
BY Zenon DEF Next, Quiet, Moving

\* What a step must keep for the tenure to stay the same, and a lease that
\* ran out to stay so.
KeepsTenure ==
  \A v \in Works :
    /\ Holds(v)' <=> Holds(v)
    /\ Holds(v) => /\ work'[v].state = work[v].state
                   /\ work'[v].token = work[v].token
                   /\ work'[v].phase = work[v].phase
                   /\ work'[v].external = work[v].external
                   /\ work[v].lease = 0 => work'[v].lease = 0

LEMMA SetOne ==
  ASSUME work \in [Works -> Row], NEW w \in Works, NEW row \in Row, Set(w, row)
  PROVE  /\ work' \in [Works -> Row] /\ work'[w] = row
         /\ \A v \in Works \ {w} : work'[v] = work[v]
BY DEF Set

LEMMA SetKeeps ==
  ASSUME work \in [Works -> Row], NEW w \in Works, NEW row \in Row, Set(w, row),
         row.state \in {"held", "uncertain"} <=> Holds(w),
         Holds(w) => /\ row.state = work[w].state /\ row.token = work[w].token
                     /\ row.phase = work[w].phase
                     /\ row.external = work[w].external
                     /\ work[w].lease = 0 => row.lease = 0
  PROVE  work' \in [Works -> Row] /\ KeepsTenure
BY DEF Set, KeepsTenure, Holds

\* The rows the quiet steps write are rows, and keep the tenure.
LEMMA QuietStep ==
  ASSUME TypeOK, NEW w \in Works, Quiet(w)
  PROVE  work' \in [Works -> Row] /\ UNCHANGED <<gpu, probe, clock>> /\ KeepsTenure
<1>0. work \in [Works -> Row] /\ work[w] \in Row /\ clock \in Nat
  BY DEF TypeOK, Row
<1>1. ASSUME NEW priority \in BOOLEAN, Enqueue(w, priority)
      PROVE  work' \in [Works -> Row] /\ UNCHANGED <<gpu, probe, clock>> /\ KeepsTenure
  <2>1. CASE work[w].state = "absent"
    <3> DEFINE row == [work[w] EXCEPT !.state = "waiting", !.ready = TRUE,
                                      !.priority = priority, !.queuedAt = clock]
    <3>1. row \in Row /\ row.state = "waiting"
      BY <1>0 DEF Row, States
    <3>2. Set(w, row)
      BY <1>1, <2>1 DEF Enqueue
    <3> QED BY <1>0, <1>1, <2>1, <3>1, <3>2, SetKeeps DEF Holds, Enqueue
  <2>2. CASE work[w].state = "waiting"
    <3> DEFINE row == [work[w] EXCEPT !.ready = TRUE, !.priority = priority]
    <3>1. row \in Row /\ row.state = "waiting"
      BY <1>0, <2>2 DEF Row, States
    <3>2. Set(w, row)
      BY <1>1, <2>2 DEF Enqueue
    <3> QED BY <1>0, <1>1, <2>2, <3>1, <3>2, SetKeeps DEF Holds, Enqueue
  <2>3. CASE work[w].state \notin {"absent", "waiting"}
    <3>1. Set(w, work[w])
      BY <1>1, <2>3 DEF Enqueue
    <3> QED BY <1>0, <1>1, <3>1, SetKeeps DEF Holds, Enqueue
  <2> QED BY <2>1, <2>2, <2>3
<1>2. ASSUME NEW token \in Tokens, NEW term \in 1..LeaseTerm, Heartbeat(w, token, term)
      PROVE  work' \in [Works -> Row] /\ UNCHANGED <<gpu, probe, clock>> /\ KeepsTenure
  <2> DEFINE row == [work[w] EXCEPT !.lease = term]
  <2>1. row \in Row /\ Set(w, row) /\ work[w].lease # 0
    BY <1>0, <1>2, TimesAssumption DEF Row, Leases, Heartbeat
  <2> QED BY <1>0, <1>2, <2>1, SetKeeps DEF Row, Holds, Heartbeat
<1>3. CASE RequestCancel(w)
  <2> DEFINE row == [work[w] EXCEPT !.cancel = TRUE,
                       !.state = IF @ = "waiting" THEN "cancelled" ELSE @]
  <2>1. row \in Row
    BY <1>0 DEF Row, States
  <2>2. /\ row.state = IF work[w].state = "waiting" THEN "cancelled" ELSE work[w].state
        /\ row.token = work[w].token /\ row.phase = work[w].phase
        /\ row.external = work[w].external /\ row.lease = work[w].lease
    BY <1>0 DEF Row
  <2>3. Set(w, row)
    BY <1>3 DEF RequestCancel
  <2>4. row.state \in {"held", "uncertain"} <=> Holds(w)
    BY <2>2 DEF Holds
  <2>5. Holds(w) => row.state = work[w].state
    BY <2>2 DEF Holds
  <2>6. UNCHANGED <<gpu, probe, clock>>
    BY <1>3 DEF RequestCancel
  <2> HIDE DEF row
  <2> QED BY <1>0, <2>1, <2>2, <2>3, <2>4, <2>5, <2>6, SetKeeps
<1>4. CASE Retry(w)
  <2> DEFINE row == [work[w] EXCEPT !.state = "waiting", !.phase = "reserved",
                       !.external = None, !.cancel = FALSE, !.ready = TRUE,
                       !.queuedAt = clock]
  <2>1. row \in Row /\ row.state = "waiting"
    BY <1>0 DEF Row, States, Phases
  <2>2. Set(w, row)
    BY <1>4 DEF Retry
  <2> QED BY <1>0, <1>4, <2>1, <2>2, SetKeeps DEF Holds, Retry
<1>5. CASE LeaseRuns(w)
  <2> DEFINE row == [work[w] EXCEPT !.lease = @ - 1]
  <2>1. row \in Row /\ Set(w, row) /\ work[w].lease # 0
    BY <1>0, <1>5, TimesAssumption DEF Row, Leases, LeaseRuns
  <2> QED BY <1>0, <1>5, <2>1, SetKeeps DEF Row, Holds, LeaseRuns
<1>6. CASE IntentExpires(w)
  <2> DEFINE row == [work[w] EXCEPT !.ready = FALSE]
  <2>1. row \in Row /\ Set(w, row)
    BY <1>0, <1>6 DEF Row, IntentExpires
  <2> QED BY <1>0, <1>6, <2>1, SetKeeps DEF Row, Holds, IntentExpires
<1>7. ASSUME NEW owner \in {"enabled", "disabled", "deleted"}, OwnerChanges(w, owner)
      PROVE  work' \in [Works -> Row] /\ UNCHANGED <<gpu, probe, clock>> /\ KeepsTenure
  <2> DEFINE row == [work[w] EXCEPT !.owner = owner]
  <2>1. row \in Row /\ Set(w, row)
    BY <1>0, <1>7 DEF Row, OwnerChanges
  <2> QED BY <1>0, <1>7, <2>1, SetKeeps DEF Row, Holds, OwnerChanges
<1> QED
  BY <1>1, <1>2, <1>3, <1>4, <1>5, <1>6, <1>7, Zenon DEF Quiet

LEMMA SameTenure ==
  ASSUME KeepsTenure
  PROVE  Tenure' = Tenure
  BY DEF KeepsTenure, Tenure

LEMMA TenureType ==
  ASSUME TypeOK
  PROVE  Tenure \in TenureSet
  BY DEF TypeOK, Tenure, TenureSet, Holds
-----------------------------------------------------------------------------
(* The inductive invariant *)

\* Whoever wins the GPU, keeps it going or lets it go, does so in one row.
LEMMA MovingStep ==
  ASSUME TypeOK, NEW w \in Works, Moving(w)
  PROVE  /\ work' \in [Works -> Row]
         /\ \A v \in Works \ {w} : work'[v] = work[v]
         /\ Holds(w) \/ ~\E h \in Works : Holds(h)
         /\ Invalidate /\ UNCHANGED <<probe, clock>>
<1>0. work \in [Works -> Row] /\ work[w] \in Row
  BY DEF TypeOK, Row
<1>1. ASSUME NEW token \in Tokens, NEW term \in 1..LeaseTerm, Grant(w, token, term)
      PROVE  /\ work' \in [Works -> Row]
             /\ \A v \in Works \ {w} : work'[v] = work[v]
             /\ Holds(w) \/ ~\E h \in Works : Holds(h)
             /\ Invalidate /\ UNCHANGED <<probe, clock>>
  <2> DEFINE row == [work[w] EXCEPT !.state = "held", !.phase = "reserved",
                                    !.token = token, !.lease = term]
  <2>1. row \in Row
    <3>1. term \in Leases
      BY TimesAssumption DEF Leases
    <3> QED BY <1>0, <3>1 DEF Row, States, Phases
  <2>2. /\ Set(w, row) /\ ~\E h \in Works : Holds(h)
        /\ Invalidate /\ UNCHANGED <<probe, clock>>
    BY <1>1 DEF Grant
  <2> HIDE DEF row
  <2>3. work' \in [Works -> Row] /\ \A v \in Works \ {w} : work'[v] = work[v]
    BY <1>0, <2>1, <2>2, SetOne
  <2> QED BY <2>2, <2>3
<1>2. ASSUME NEW token \in Tokens, NEW phase \in {"dispatching", "running"},
             NEW external \in Externals \cup {None}, SetPhase(w, token, phase, external)
      PROVE  /\ work' \in [Works -> Row]
             /\ \A v \in Works \ {w} : work'[v] = work[v]
             /\ Holds(w) \/ ~\E h \in Works : Holds(h)
             /\ Invalidate /\ UNCHANGED <<probe, clock>>
  <2>1. [work[w] EXCEPT !.phase = phase, !.external = external] \in Row
    BY <1>0 DEF Row, Phases
  <2> QED BY <1>0, <1>2, <2>1 DEF SetPhase, Set, Holds
<1>3. ASSUME NEW token \in Tokens, NEW code \in Codes, NEW p \in Probers,
             Release(w, token, code, p)
      PROVE  /\ work' \in [Works -> Row]
             /\ \A v \in Works \ {w} : work'[v] = work[v]
             /\ Holds(w) \/ ~\E h \in Works : Holds(h)
             /\ Invalidate /\ UNCHANGED <<probe, clock>>
  <2> DEFINE row == [work[w] EXCEPT
               !.state = IF work[w].cancel THEN "cancelled" ELSE "released",
               !.token = None, !.lease = 0]
  <2>1. row \in Row
    <3>1. 0 \in Leases
      BY TimesAssumption DEF Leases
    <3> QED BY <1>0, <3>1 DEF Row, States
  <2>2. Set(w, row) /\ Holds(w) /\ Invalidate /\ UNCHANGED <<probe, clock>>
    BY <1>3 DEF Release
  <2> HIDE DEF row
  <2>3. work' \in [Works -> Row] /\ \A v \in Works \ {w} : work'[v] = work[v]
    BY <1>0, <2>1, <2>2, SetOne
  <2> QED BY <2>2, <2>3
<1> QED
  BY <1>1, <1>2, <1>3, Zenon DEF Moving

\* A lease that is found to have run out turns its holder uncertain.
LEMMA ExpireStep ==
  ASSUME TypeOK, Expire
  PROVE  /\ work' \in [Works -> Row]
         /\ \A v \in Works : /\ Holds(v)' <=> Holds(v)
                           /\ work'[v].lease = work[v].lease
                           /\ work'[v].phase = work[v].phase
         /\ Invalidate /\ UNCHANGED <<probe, clock>>
<1>0. work \in [Works -> Row]
  BY DEF TypeOK, Row
<1>1. PICK h \in Works : /\ work[h].state = "held"
                        /\ Set(h, [work[h] EXCEPT !.state = "uncertain"])
  BY DEF Expire
<1>2. [work[h] EXCEPT !.state = "uncertain"] \in Row
  BY <1>0 DEF Row, States
<1> QED
  BY <1>0, <1>1, <1>2 DEF Expire, Set, Holds, Row

\* A withdrawn observation makes every earlier probe stale.
LEMMA InvalidateFresh ==
  ASSUME TypeOK, FreshObservation, Invalidate, UNCHANGED probe
  PROVE  /\ gpu' \in [revision : Nat, observation : {"idle", "busy", "unknown"},
                      valid : BOOLEAN, seen : TenureSet]
         /\ FreshObservation'
<1>0. /\ gpu \in [revision : Nat, observation : {"idle", "busy", "unknown"},
                  valid : BOOLEAN, seen : TenureSet]
      /\ probe \in [Probers -> [revision : Nat, saw : TenureSet]]
  BY DEF TypeOK
<1>1. /\ gpu' \in [revision : Nat, observation : {"idle", "busy", "unknown"},
                   valid : BOOLEAN, seen : TenureSet]
      /\ gpu'.revision = gpu.revision + 1 /\ gpu'.observation = "unknown"
  <2>1. ASSUME NEW n \in Nat
        PROVE  [gpu EXCEPT !.revision = n, !.observation = "unknown", !.valid = FALSE]
                 \in [revision : Nat, observation : {"idle", "busy", "unknown"},
                      valid : BOOLEAN, seen : TenureSet]
    <3>1. gpu = [revision |-> gpu.revision, observation |-> gpu.observation,
                 valid |-> gpu.valid, seen |-> gpu.seen] /\ gpu.seen \in TenureSet
      BY <1>0
    <3> QED BY <3>1
  <2>2. gpu.revision + 1 \in Nat
    BY <1>0
  <2> QED BY <1>0, <2>1, <2>2 DEF Invalidate
<1>2. \A p \in Probers : /\ probe'[p].revision <= gpu'.revision
                         /\ probe'[p].revision # gpu'.revision
  <2> SUFFICES ASSUME NEW p \in Probers
               PROVE  /\ probe'[p].revision <= gpu'.revision
                      /\ probe'[p].revision # gpu'.revision
    OBVIOUS
  <2>1. probe' = probe /\ probe[p].revision \in Nat /\ gpu.revision \in Nat
    BY <1>0
  <2>2. probe[p].revision <= gpu.revision
    BY DEF FreshObservation
  <2> QED BY <1>1, <2>1, <2>2
<1>3. FreshObservation'
  BY <1>1, <1>2, Zenon DEF FreshObservation
<1> QED
  BY <1>1, <1>3
\* The initial state of a GPU nobody has asked for.
LEMMA InitIInv == Init => IInv
<1> SUFFICES ASSUME Init PROVE IInv
  OBVIOUS
<1>1. TypeOK
  BY TimesAssumption DEF Init, TypeOK, States, Phases, Leases, TenureSet
<1>2. OneHolder
  BY DEF Init, OneHolder, Holds
<1>3. FreshObservation
  BY DEF Init, FreshObservation
<1> QED BY <1>1, <1>2, <1>3 DEF IInv

\* Every step keeps the type, the single holder and the freshness of what the
\* callers know.
LEMMA NextIInv == IInv /\ [Next]_vars => IInv'
<1> SUFFICES ASSUME IInv, [Next]_vars PROVE IInv'
  OBVIOUS
<1>0. /\ work \in [Works -> Row]
      /\ gpu \in [revision : Nat, observation : {"idle", "busy", "unknown"},
                  valid : BOOLEAN, seen : TenureSet]
      /\ probe \in [Probers -> [revision : Nat, saw : TenureSet]]
      /\ clock \in Nat
  BY DEF IInv, TypeOK, Row
<1>1. ASSUME NEW w \in Works, Quiet(w) PROVE IInv'
  <2>1. work' \in [Works -> Row] /\ UNCHANGED <<gpu, probe, clock>> /\ KeepsTenure
    BY <1>1, QuietStep DEF IInv
  <2>2. Tenure' = Tenure
    BY <2>1, SameTenure
  <2>3. TypeOK'
    BY <1>0, <2>1 DEF TypeOK, Row
  <2>4. OneHolder'
    BY <2>1 DEF IInv, OneHolder, KeepsTenure
  <2>5. FreshObservation'
    BY <2>1, <2>2 DEF IInv, FreshObservation
  <2> QED BY <2>3, <2>4, <2>5 DEF IInv
<1>2. ASSUME NEW w \in Works, Moving(w) PROVE IInv'
  <2>1. /\ work' \in [Works -> Row]
        /\ \A v \in Works \ {w} : work'[v] = work[v]
        /\ Holds(w) \/ ~\E h \in Works : Holds(h)
        /\ Invalidate /\ UNCHANGED <<probe, clock>>
    BY <1>2, MovingStep DEF IInv
  <2>2. FreshObservation'
        /\ gpu' \in [revision : Nat, observation : {"idle", "busy", "unknown"},
                     valid : BOOLEAN, seen : TenureSet]
    BY <2>1, InvalidateFresh DEF IInv
  <2>3. TypeOK'
    BY <1>0, <2>1, <2>2 DEF TypeOK, Row
  <2>4. \A v \in Works \ {w} : ~Holds(v)'
    BY <2>1 DEF IInv, OneHolder, Holds
  <2>5. OneHolder'
    BY <2>4 DEF OneHolder
  <2> QED BY <2>2, <2>3, <2>5 DEF IInv
<1>3. ASSUME NEW p \in Probers, Capture(p) PROVE IInv'
  <2>1. /\ probe' = [probe EXCEPT ![p] = [revision |-> gpu.revision, saw |-> Tenure]]
        /\ UNCHANGED <<work, gpu, clock>>
    BY <1>3 DEF Capture
  <2>2. Tenure \in TenureSet /\ Tenure' = Tenure
    BY <2>1, TenureType DEF IInv, Tenure, Holds
  <2>3. TypeOK'
    BY <1>0, <2>1, <2>2 DEF TypeOK, Row
  <2>4. OneHolder'
    BY <2>1 DEF IInv, OneHolder, Holds
  <2>5. FreshObservation'
    BY <1>0, <2>1, <2>2 DEF IInv, FreshObservation
  <2> QED BY <2>3, <2>4, <2>5 DEF IInv
<1>4. ASSUME NEW p \in Probers, NEW observation \in {"idle", "busy", "unknown"},
             Observe(p, observation)
      PROVE  IInv'
  <2>1. /\ probe[p].revision = gpu.revision
        /\ gpu' = [revision |-> gpu.revision + 1, observation |-> observation,
                   valid |-> TRUE, seen |-> probe[p].saw]
        /\ UNCHANGED <<work, probe, clock>>
    BY <1>4 DEF Observe
  <2>2. Tenure' = Tenure
    BY <2>1 DEF Tenure, Holds
  <2>3. gpu' \in [revision : Nat, observation : {"idle", "busy", "unknown"},
                  valid : BOOLEAN, seen : TenureSet]
    <3>1. gpu.revision + 1 \in Nat /\ probe[p].saw \in TenureSet
      BY <1>0
    <3> QED BY <2>1, <3>1
  <2>4. TypeOK'
    BY <1>0, <2>1, <2>3 DEF TypeOK, Row
  <2>5. OneHolder'
    BY <2>1 DEF IInv, OneHolder, Holds
  <2>6. gpu'.seen = Tenure'
    BY <2>1, <2>2 DEF IInv, FreshObservation
  <2>7. \A q \in Probers : /\ probe'[q].revision <= gpu'.revision
                           /\ probe'[q].revision # gpu'.revision
    BY <1>0, <2>1 DEF IInv, FreshObservation
  <2>8. FreshObservation'
    BY <2>6, <2>7 DEF FreshObservation
  <2> QED BY <2>4, <2>5, <2>8 DEF IInv
<1>5. CASE Expire
  <2>1. /\ work' \in [Works -> Row]
        /\ \A v \in Works : Holds(v)' <=> Holds(v)
        /\ Invalidate /\ UNCHANGED <<probe, clock>>
    BY <1>5, ExpireStep DEF IInv
  <2>2. FreshObservation'
        /\ gpu' \in [revision : Nat, observation : {"idle", "busy", "unknown"},
                     valid : BOOLEAN, seen : TenureSet]
    BY <2>1, InvalidateFresh DEF IInv
  <2>3. TypeOK'
    BY <1>0, <2>1, <2>2 DEF TypeOK, Row
  <2>4. OneHolder'
    BY <2>1 DEF IInv, OneHolder
  <2> QED BY <2>2, <2>3, <2>4 DEF IInv
<1>6. CASE ObservationExpires
  <2>1. gpu' = [gpu EXCEPT !.valid = FALSE] /\ UNCHANGED <<work, probe, clock>>
    BY <1>6 DEF ObservationExpires
  <2>2. Tenure' = Tenure
    BY <2>1 DEF Tenure, Holds
  <2>3. TypeOK'
    BY <1>0, <2>1 DEF TypeOK, Row
  <2>4. OneHolder'
    BY <2>1 DEF IInv, OneHolder, Holds
  <2>5. FreshObservation'
    BY <1>0, <2>1, <2>2 DEF IInv, FreshObservation
  <2> QED BY <2>3, <2>4, <2>5 DEF IInv
<1>7. CASE Tick
  BY <1>0, <1>7 DEF Tick, IInv, TypeOK, OneHolder, FreshObservation, Holds, Tenure
<1>8. CASE UNCHANGED vars
  BY <1>8 DEF vars, IInv, TypeOK, OneHolder, FreshObservation, Holds, Tenure
<1> QED
  BY <1>1, <1>2, <1>3, <1>4, <1>5, <1>6, <1>7, <1>8, StepKinds

\* The invariant holds in every reachable state.
THEOREM Invariance == Spec => []IInv
<1> QED BY InitIInv, NextIInv, PTL DEF Spec

-----------------------------------------------------------------------------
(* What it is for *)

\* Rows, revisions and probes keep their types, whatever is called.
THEOREM Typed == Spec => []TypeOK
<1>1. IInv => TypeOK
  BY DEF IInv
<1> QED BY <1>1, Invariance, PTL

\* AcquireGPUWork never gives the GPU to two pieces of work.
THEOREM ExclusiveHolder == Spec => []OneHolder
<1>1. IInv => OneHolder
  BY DEF IInv
<1> QED BY <1>1, Invariance, PTL

\* A probe's answer is only taken while what it saw is still so.
THEOREM ObservationsAreFresh == Spec => []FreshObservation
<1>1. IInv => FreshObservation
  BY DEF IInv
<1> QED BY <1>1, Invariance, PTL
\* What the steps that move the tenure do to the row they write.
LEMMA MovingCases ==
  ASSUME TypeOK, NEW w \in Works, Moving(w)
  PROVE  \/ /\ ~Holds(w) /\ ~\E h \in Works : Holds(h)
            /\ gpu.observation = "idle"
            /\ \A v \in Works : Eligible(v) => Before(w, v)
         \/ /\ Holds(w) /\ Holds(w)' /\ work[w].lease > 0
         \/ /\ Holds(w) /\ ~Holds(w)'
            /\ \E p \in Probers : probe[p].revision = gpu.revision
<1>0. work \in [Works -> Row] /\ work[w] \in Row
  BY DEF TypeOK, Row
<1>1. ASSUME NEW token \in Tokens, NEW term \in 1..LeaseTerm, Grant(w, token, term)
      PROVE  /\ ~Holds(w) /\ ~\E h \in Works : Holds(h)
             /\ gpu.observation = "idle"
             /\ \A v \in Works : Eligible(v) => Before(w, v)
  BY <1>1 DEF Grant
<1>2. ASSUME NEW token \in Tokens, NEW phase \in {"dispatching", "running"},
             NEW external \in Externals \cup {None}, SetPhase(w, token, phase, external)
      PROVE  Holds(w) /\ Holds(w)' /\ work[w].lease > 0
  BY <1>0, <1>2 DEF SetPhase, Set, Holds, Row
<1>3. ASSUME NEW token \in Tokens, NEW code \in Codes, NEW p \in Probers,
             Release(w, token, code, p)
      PROVE  /\ Holds(w) /\ ~Holds(w)'
             /\ \E q \in Probers : probe[q].revision = gpu.revision
  <2>1. /\ Holds(w) /\ probe[p].revision = gpu.revision
        /\ work'[w].state = IF work[w].cancel THEN "cancelled" ELSE "released"
    BY <1>0, <1>3 DEF Release, Set, Row
  <2> QED BY <2>1 DEF Holds
<1> QED
  BY <1>1, <1>2, <1>3, Zenon DEF Moving

\* A step that changes nobody's hold is not in the way of any of the action
\* properties.
LEMMA OtherSteps ==
  ASSUME IInv, [Next]_vars, ~\E w \in Works : Moving(w)
  PROVE  \A w \in Works :
           /\ Holds(w)' <=> Holds(w)
           /\ Holds(w) /\ work[w].lease = 0 =>
                work'[w].lease = 0 /\ work'[w].phase = work[w].phase
<1>1. ASSUME NEW w \in Works, Quiet(w) PROVE KeepsTenure
  BY <1>1, QuietStep DEF IInv
<1>2. CASE KeepsTenure
  BY <1>2 DEF KeepsTenure
<1>3. CASE Expire
  BY <1>3, ExpireStep DEF IInv
<1>4. CASE UNCHANGED work
  BY <1>4 DEF Holds
<1>5. (\E p \in Probers : Capture(p)) => UNCHANGED work
  BY DEF Capture
<1>6. (\E p \in Probers, observation \in {"idle", "busy", "unknown"} :
         Observe(p, observation)) => UNCHANGED work
  BY DEF Observe
<1>7. ObservationExpires \/ Tick \/ UNCHANGED vars => UNCHANGED work
  BY DEF ObservationExpires, Tick, vars
<1> QED
  BY <1>1, <1>2, <1>3, <1>4, <1>5, <1>6, <1>7, StepKinds, Zenon

\* The step that moves one tenure leaves everybody else where they were.
LEMMA OnlyOneMoves ==
  ASSUME IInv, NEW w \in Works, Moving(w), NEW v \in Works, v # w
  PROVE  /\ Holds(v)' <=> Holds(v)
         /\ work'[v] = work[v]
BY MovingStep DEF IInv, Holds

\* Work is only let in on an idle answer asked for after the last holder let go.
THEOREM GrantsAreFresh == Spec => IdleBeforeGrant
<1>1. ASSUME IInv, [Next]_vars, NEW w \in Works, ~Holds(w), Holds(w)'
      PROVE  gpu.seen = {}
  <2>1. PICK v \in Works : Moving(v)
    BY <1>1, OtherSteps
  <2>2. v = w
    BY <1>1, <2>1, OnlyOneMoves
  <2>3. (~\E h \in Works : Holds(h)) /\ gpu.observation = "idle"
    BY <1>1, <2>1, <2>2, MovingCases DEF IInv
  <2>4. gpu.seen = Tenure
    BY <1>1, <2>3 DEF IInv, FreshObservation
  <2>5. Tenure = {}
    BY <2>3 DEF Tenure
  <2> QED BY <2>4, <2>5
<1>2. IInv /\ [Next]_vars =>
        [\A w \in Works : ~Holds(w) /\ Holds(w)' => gpu.seen = {}]_vars
  BY <1>1
<1> QED BY <1>2, Invariance, PTL DEF Spec, IdleBeforeGrant

\* Nobody frees the GPU on evidence that has not seen the present tenure.
THEOREM EvidenceIsFresh == Spec => FreshEvidence
<1>1. ASSUME IInv, [Next]_vars, NEW w \in Works, Holds(w), ~Holds(w)'
      PROVE  \E p \in Probers : probe[p].saw = Tenure
  <2>1. PICK v \in Works : Moving(v)
    BY <1>1, OtherSteps
  <2>2. v = w
    BY <1>1, <2>1, OnlyOneMoves
  <2>3. \E p \in Probers : probe[p].revision = gpu.revision
    BY <1>1, <2>1, <2>2, MovingCases DEF IInv
  <2> QED BY <1>1, <2>3 DEF IInv, FreshObservation
<1>2. IInv /\ [Next]_vars =>
        [\A w \in Works : Holds(w) /\ ~Holds(w)' =>
           \E p \in Probers : probe[p].saw = Tenure]_vars
  BY <1>1
<1> QED BY <1>2, Invariance, PTL DEF Spec, FreshEvidence

\* HeartbeatGPUWork and SetGPUWorkPhase never bring an expired lease back.
THEOREM LeasesStayExpired == Spec => NoRevival
<1>1. ASSUME IInv, [Next]_vars, NEW w \in Works, Holds(w), Holds(w)', work[w].lease = 0
      PROVE  work'[w].lease = 0 /\ work'[w].phase = work[w].phase
  <2>1. CASE ~\E v \in Works : Moving(v)
    BY <1>1, <2>1, OtherSteps
  <2>2. ASSUME NEW v \in Works, Moving(v), v # w
        PROVE  work'[w].lease = 0 /\ work'[w].phase = work[w].phase
    BY <1>1, <2>2, OnlyOneMoves
  <2>3. ~Moving(w)
    BY <1>1, MovingCases DEF IInv
  <2> QED BY <2>1, <2>2, <2>3
<1>2. IInv /\ [Next]_vars =>
        [\A w \in Works : Holds(w) /\ Holds(w)' /\ work[w].lease = 0 =>
           work'[w].lease = 0 /\ work'[w].phase = work[w].phase]_vars
  BY <1>1
<1> QED BY <1>2, Invariance, PTL DEF Spec, NoRevival

\* Priority is worth its head start and no more.
THEOREM OvertakingIsBounded == Spec => BoundedOvertaking
<1>1. ASSUME IInv, [Next]_vars, NEW v \in Works, NEW w \in Works,
             ~Holds(v), Holds(v)', Eligible(w)
      PROVE  work[v].queuedAt <= work[w].queuedAt + HeadStart
  <2>1. PICK u \in Works : Moving(u)
    BY <1>1, OtherSteps
  <2>2. u = v
    BY <1>1, <2>1, OnlyOneMoves
  <2>3. Before(v, w)
    BY <1>1, <2>1, <2>2, MovingCases DEF IInv
  <2>4. work[v].queuedAt \in Nat /\ work[w].queuedAt \in Nat /\ HeadStart \in Nat
    BY <1>1, TimesAssumption DEF IInv, TypeOK
  <2> QED BY <2>3, <2>4 DEF Before
<1>2. IInv /\ [Next]_vars =>
        [\A v, w \in Works : ~Holds(v) /\ Holds(v)' /\ Eligible(w) =>
           work[v].queuedAt <= work[w].queuedAt + HeadStart]_vars
  BY <1>1
<1> QED BY <1>2, Invariance, PTL DEF Spec, BoundedOvertaking
=============================================================================
