------------------------- MODULE LoraTrainingProofs -------------------------
(***************************************************************************)
(* Proofs about what a LoRA is made with.  The hand-off of trainings: a    *)
(* job is closed only when none of its processes is left, the miner stays  *)
(* paused while one lives, and the hand-off implements TrainingSlot.  The  *)
(* captions: only the run that was started last stores its answer.         *)
(***************************************************************************)
EXTENDS LoraTraining, LoraCaption, SequenceTheorems, FiniteSetTheorems, FunctionTheorems,
        TLAPS

RowSet == [state : RowStates, attached : BOOLEAN, begun : BOOLEAN, cancel : BOOLEAN,
           files : BOOLEAN]
GwSet == [at : Steps, job : Jobs \cup {None}, cancel : BOOLEAN, said : Records]

Over == {None} \cup Ended
Waits(j) == \E i \in 1..Len(queue) : queue[i] = j

\* No process of the job is left, and none can come: an upload still under way is
\* fenced, and what waits in the queue is skipped by the worker.
Dead(j) ==
  /\ j \notin procs /\ worker # j
  /\ upload[j] = "sent" => j \in fences
  /\ upload[j] = "accepted" \/ Waits(j) => record[j] \in Over

\* What the agent's memory and disk say of a job, against its process and its upload.
AgentHolds(j) ==
  /\ j \in procs => /\ agentUp => record[j] \in {"training", "unconfirmed"}
                    /\ disk[j] \notin Over /\ late[j] \cap Ended = {}
                    /\ j \in ran
  /\ worker = j => record[j] = "training" /\ agentUp /\ j \in ran
  /\ None \notin late[j]
  /\ late[j] \cap Ended # {} => record[j] \in Ended
  /\ record[j] # None \/ disk[j] # None \/ late[j] # {} =>
       upload[j] \in {"accepted", "answered", "refused"}
  /\ Waits(j) \/ j \in ran => upload[j] \in {"answered", "refused"}
  /\ Waits(j) /\ record[j] \notin Over /\ worker # j => j \notin ran
  /\ ~agentUp => record[j] = None /\ late[j] = {} /\ upload[j] # "accepted"

\* What the row says of the upload, the lease and the process.
RowHolds(j) ==
  /\ row[j].state \in {"absent", "queued"} => ~row[j].begun
  /\ row[j].state = "training" => row[j].attached
  /\ row[j].attached => row[j].begun
  /\ upload[j] # None => row[j].begun
  /\ row[j].begun => j \in leases \/ Closed(j)
  /\ Closed(j) => Dead(j)

\* What the Gateway read before its step is still so: it is at a step about job j,
\* and the agent said this of it.
Stands(at, j, said) ==
  /\ at \notin {"off", "idle"} => j \in Jobs /\ row[j].state \in Open
  /\ at \in {"prepare", "begin", "requeue", "drop"} => Unsent(j)
  /\ at = "begin" => j \in leases
  /\ at \in {"lookup", "adopt", "fence", "settle", "close", "send", "wait", "attach"} =>
       row[j].begun
  /\ at \in {"cancel", "poll", "write"} => row[j].attached
  /\ at = "send" => upload[j] = None
  /\ at \in {"settle", "close"} \/ (at = "write" /\ said \in Ended) => Dead(j)

GwHolds(g) == Stands(gw[g].at, gw[g].job, gw[g].said)

OneOpen == \A i, j \in Jobs : row[i].state \in Open /\ row[j].state \in Open => i = j

SlotInv ==
  /\ TypeOK /\ OneOpen
  /\ ~agentUp => queue = <<>>
  /\ \A j \in Jobs : AgentHolds(j)
  /\ \A j \in Jobs : RowHolds(j)
  /\ \A g \in Gateways : GwHolds(g)

OneGateway == \A g, h \in Gateways : g = h

-----------------------------------------------------------------------------
(* The queue. *)

LEMMA NobodyWaits == \A j : queue = <<>> => ~Waits(j)
BY DEF Waits

LEMMA WaitsLast ==
  ASSUME queue \in Seq(Jobs), NEW j \in Jobs, queue' = Append(queue, j)
  PROVE  queue' \in Seq(Jobs) /\ \A i : Waits(i)' => Waits(i) \/ i = j
<1>1. /\ queue' \in Seq(Jobs) /\ Len(queue) \in Nat /\ Len(queue') = Len(queue) + 1
      /\ \A n \in 1..Len(queue) : queue'[n] = queue[n]
      /\ queue'[Len(queue) + 1] = j
  BY AppendProperties
<1>2. \A n \in 1..Len(queue') : n \in 1..Len(queue) \/ n = Len(queue) + 1
  BY <1>1
<1> QED
  BY <1>1, <1>2 DEF Waits

LEMMA WaitsFirst ==
  ASSUME queue \in Seq(Jobs), queue # <<>>, queue' = Tail(queue)
  PROVE  /\ queue' \in Seq(Jobs) /\ Head(queue) \in Jobs /\ Waits(Head(queue))
         /\ \A i : Waits(i)' => Waits(i)
<1>1. /\ Head(queue) \in Jobs /\ queue' \in Seq(Jobs) /\ Len(queue') = Len(queue) - 1
      /\ \A n \in 1..Len(queue') : queue'[n] = queue[n + 1]
  BY HeadTailProperties
<1>2. Len(queue) \in Nat \ {0} /\ Head(queue) = queue[1]
  BY EmptySeq
<1>3. \A n \in 1..Len(queue') : n + 1 \in 1..Len(queue)
  BY <1>1, <1>2
<1>4. 1 \in 1..Len(queue)
  BY <1>2
<1> QED
  BY <1>1, <1>2, <1>3, <1>4 DEF Waits

-----------------------------------------------------------------------------
(* The agent's side. *)

\* For job j the step changed nothing but fences and what waits.
Alike(j) ==
  /\ j \in procs' <=> j \in procs
  /\ worker' = j <=> worker = j
  /\ j \in ran' <=> j \in ran
  /\ upload'[j] = upload[j] /\ record'[j] = record[j] /\ disk'[j] = disk[j]
  /\ late'[j] = late[j]
  /\ j \in fences => j \in fences'
  /\ Waits(j)' => Waits(j)

LEMMA AlikeHolds ==
  ASSUME NEW j \in Jobs, AgentHolds(j), Alike(j), agentUp' = agentUp
  PROVE  AgentHolds(j)' /\ (Dead(j) => Dead(j)')
BY DEF AgentHolds, Alike, Dead

\* What the Gateway relies on is not undone by the agent.
AgentSide ==
  /\ TypeOK' /\ (~agentUp' => queue' = <<>>)
  /\ \A j \in Jobs : AgentHolds(j)'
  /\ \A j \in Jobs : Dead(j) => Dead(j)'

LEMMA AgentActs ==
  ASSUME SlotInv, AgentSide, UNCHANGED <<row, leases, gw>>,
         \A j \in Jobs : upload'[j] = None <=> upload[j] = None
  PROVE  SlotInv'
<1>1. OneOpen'
  BY DEF SlotInv, OneOpen
<1>2. \A j \in Jobs : RowHolds(j)'
  BY DEF SlotInv, AgentSide, RowHolds, Closed
<1>3. \A g \in Gateways : GwHolds(g)'
  BY DEF SlotInv, AgentSide, GwHolds, Stands, Unsent
<1> QED
  BY <1>1, <1>2, <1>3 DEF SlotInv, AgentSide

LEMMA CancelKeeps ==
  ASSUME SlotInv, NEW j \in Jobs, agentUp, AgentCancel(j),
         fences' \subseteq Jobs, fences \subseteq fences', UNCHANGED upload,
         row' \in [Jobs -> RowSet], leases' \subseteq Jobs, gw' \in [Gateways -> GwSet],
         UNCHANGED crashes
  PROVE  AgentSide /\ record'[j] = Cancelled(j)
<1>1. /\ TypeOK /\ AgentHolds(j)
      /\ record[j] \in Records /\ late[j] \in SUBSET Records /\ record' \in [Jobs -> Records]
      /\ late' \in [Jobs -> SUBSET Records]
      /\ \A i \in Jobs \ {j} : record'[i] = record[i] /\ late'[i] = late[i]
      /\ record'[j] = Cancelled(j)
      /\ late'[j] = IF record[j] \in {"queued", "training"}
                    THEN late[j] \cup {Cancelled(j)} ELSE late[j]
  BY DEF SlotInv, TypeOK, AgentCancel, Cancelled, Records, Ended
<1>2. UNCHANGED <<agentUp, disk, queue, worker, procs, ran>> /\ killed' \in BOOLEAN
  BY <1>1 DEF AgentCancel, TypeOK
<1>3. TypeOK' /\ (~agentUp' => queue' = <<>>)
  BY <1>1, <1>2 DEF SlotInv, TypeOK, RowSet, GwSet
<1>4. \A i : Waits(i)' <=> Waits(i)
  BY <1>2 DEF Waits
<1>5. ASSUME NEW i \in Jobs \ {j} PROVE AgentHolds(i)' /\ (Dead(i) => Dead(i)')
  BY <1>1, <1>2, <1>4, AlikeHolds DEF SlotInv, Alike
<1>6. AgentHolds(j)'
  BY <1>1, <1>2, <1>4 DEF AgentHolds, Cancelled, Over, Ended, None
<1>7. Dead(j) => Dead(j)'
  BY <1>1, <1>2, <1>4 DEF Dead, Cancelled, Over, Ended
<1> QED
  BY <1>1, <1>3, <1>5, <1>6, <1>7 DEF AgentSide

LEMMA DeleteKeeps ==
  ASSUME SlotInv, NEW j \in Jobs, agentUp, record[j] \in Ended, AgentDelete(j),
         UNCHANGED <<upload, crashes>>,
         row' \in [Jobs -> RowSet], leases' \subseteq Jobs, UNCHANGED gw
  PROVE  AgentSide
<1>1. /\ TypeOK /\ AgentHolds(j) /\ None \in Records
      /\ record' \in [Jobs -> Records] /\ disk' \in [Jobs -> Records]
      /\ late' \in [Jobs -> SUBSET Records]
      /\ record'[j] = None /\ disk'[j] = None /\ late'[j] = {}
      /\ \A i \in Jobs \ {j} : record'[i] = record[i] /\ late'[i] = late[i] /\ disk'[i] = disk[i]
  BY DEF SlotInv, TypeOK, AgentDelete, Records
<1>2. UNCHANGED <<agentUp, fences, queue, worker, killed, procs, ran>>
  BY DEF AgentDelete
<1>3. TypeOK' /\ (~agentUp' => queue' = <<>>)
  BY <1>1, <1>2 DEF SlotInv, TypeOK, RowSet, GwSet
<1>4. \A i : Waits(i)' <=> Waits(i)
  BY <1>2 DEF Waits
<1>5. ASSUME NEW i \in Jobs \ {j} PROVE AgentHolds(i)' /\ (Dead(i) => Dead(i)')
  BY <1>1, <1>2, <1>4, AlikeHolds DEF SlotInv, Alike
<1>6. j \notin procs /\ worker # j
  BY <1>1 DEF AgentHolds, Ended
<1>7. AgentHolds(j)'
  BY <1>1, <1>2, <1>4, <1>6 DEF AgentHolds, Over, Ended, None
<1>8. Dead(j) => Dead(j)'
  BY <1>1, <1>2, <1>4 DEF Dead, Over
<1> QED
  BY <1>1, <1>3, <1>5, <1>7, <1>8 DEF AgentSide

\* A step of the agent about one job.
LEMMA AgentAlone ==
  ASSUME SlotInv, NEW j \in Jobs, AgentHolds(j)', Dead(j) => Dead(j)', TypeOK',
         agentUp' = agentUp, ~agentUp => queue' = queue,
         UNCHANGED <<row, leases, gw>>, upload'[j] = None <=> upload[j] = None,
         \A i \in Jobs \ {j} : Alike(i)
  PROVE  SlotInv'
<1>1. \A i \in Jobs \ {j} : AgentHolds(i)' /\ (Dead(i) => Dead(i)')
  BY AlikeHolds DEF SlotInv
<1>2. AgentSide
  BY <1>1 DEF AgentSide, SlotInv
<1>3. \A i \in Jobs : upload'[i] = None <=> upload[i] = None
  BY DEF Alike
<1> QED
  BY <1>2, <1>3, AgentActs

LEMMA AcceptKeeps ==
  ASSUME SlotInv, NEW j \in Jobs, Accept(j)
  PROVE  SlotInv'
<1>1. /\ TypeOK /\ AgentHolds(j) /\ agentUp /\ upload[j] = "sent"
      /\ UNCHANGED <<row, leases, gw, agentUp, late, fences, queue, worker, killed, procs,
                     ran, crashes>>
  BY DEF SlotInv, Accept
<1>2. \A i : Waits(i)' <=> Waits(i)
  BY <1>1 DEF Waits
<1>3. record[j] = None /\ disk[j] = None /\ late[j] = {} /\ ~Waits(j) /\ j \notin ran
  BY <1>1 DEF AgentHolds
<1>4. CASE j \in fences
  <2>1. upload' = [upload EXCEPT ![j] = "refused"] /\ UNCHANGED <<record, disk>>
    BY <1>4 DEF Accept
  <2>2. /\ upload' \in [Jobs -> Uploads] /\ upload'[j] = "refused"
        /\ \A i \in Jobs \ {j} : upload'[i] = upload[i]
    BY <1>1, <2>1 DEF TypeOK, Uploads
  <2>3. TypeOK' /\ \A i \in Jobs \ {j} : Alike(i)
    BY <1>1, <1>2, <2>1, <2>2 DEF TypeOK, Alike
  <2>4. AgentHolds(j)' /\ (Dead(j) => Dead(j)')
    BY <1>1, <1>2, <1>3, <2>1, <2>2 DEF AgentHolds, Dead
  <2> QED
    BY <1>1, <2>2, <2>3, <2>4, AgentAlone DEF None
<1>5. CASE j \notin fences
  <2>1. /\ upload' = [upload EXCEPT ![j] = "accepted"]
        /\ record' = [record EXCEPT ![j] = "queued"] /\ disk' = [disk EXCEPT ![j] = "queued"]
    BY <1>3, <1>5 DEF Accept
  <2>2. /\ upload' \in [Jobs -> Uploads] /\ upload'[j] = "accepted"
        /\ record' \in [Jobs -> Records] /\ record'[j] = "queued"
        /\ disk' \in [Jobs -> Records] /\ disk'[j] = "queued"
        /\ \A i \in Jobs \ {j} : /\ upload'[i] = upload[i] /\ record'[i] = record[i]
                                 /\ disk'[i] = disk[i]
    BY <1>1, <2>1 DEF TypeOK, Uploads, Records
  <2>3. TypeOK' /\ \A i \in Jobs \ {j} : Alike(i)
    BY <1>1, <1>2, <2>2 DEF TypeOK, Alike
  <2>4. AgentHolds(j)' /\ ~Dead(j)
    BY <1>1, <1>2, <1>3, <1>5, <2>2 DEF AgentHolds, Dead
  <2> QED
    BY <1>1, <2>2, <2>3, <2>4, AgentAlone DEF None
<1> QED
  BY <1>4, <1>5

\* An upload ends without the job being queued.
LEMMA RefusalKeeps ==
  ASSUME SlotInv, NEW j \in Jobs, upload[j] \in {"sent", "accepted"},
         upload' = [upload EXCEPT ![j] = "refused"],
         UNCHANGED <<row, leases, gw, agentVars, crashes>>
  PROVE  SlotInv'
<1>1. TypeOK /\ AgentHolds(j) /\ \A i : Waits(i)' <=> Waits(i)
  BY DEF SlotInv, Waits, agentVars
<1>2. /\ upload' \in [Jobs -> Uploads] /\ upload'[j] = "refused"
      /\ \A i \in Jobs \ {j} : upload'[i] = upload[i]
  BY <1>1 DEF TypeOK, Uploads
<1>3. TypeOK' /\ \A i \in Jobs \ {j} : Alike(i)
  BY <1>1, <1>2 DEF TypeOK, Alike, agentVars
<1>4. AgentHolds(j)' /\ (Dead(j) => Dead(j)')
  BY <1>1, <1>2 DEF AgentHolds, Dead, agentVars
<1> QED
  BY <1>2, <1>3, <1>4, AgentAlone DEF None, agentVars

LEMMA EnqueueKeeps ==
  ASSUME SlotInv, NEW j \in Jobs, Enqueue(j)
  PROVE  SlotInv'
<1>1. /\ TypeOK /\ AgentHolds(j) /\ agentUp /\ upload[j] = "accepted"
      /\ queue' = Append(queue, j) /\ upload' = [upload EXCEPT ![j] = "answered"]
      /\ UNCHANGED <<row, leases, gw, agentUp, record, disk, late, fences, worker, killed,
                     procs, ran, crashes>>
  BY DEF SlotInv, Enqueue
<1>2. queue' \in Seq(Jobs) /\ \A i : Waits(i)' => Waits(i) \/ i = j
  BY <1>1, WaitsLast DEF TypeOK
<1>3. /\ upload' \in [Jobs -> Uploads] /\ upload'[j] = "answered"
      /\ \A i \in Jobs \ {j} : upload'[i] = upload[i]
  BY <1>1 DEF TypeOK, Uploads
<1>4. TypeOK'
  BY <1>1, <1>2, <1>3 DEF TypeOK
<1>5. \A i \in Jobs \ {j} : Alike(i)
  BY <1>1, <1>2, <1>3 DEF Alike
<1>6. j \notin ran
  BY <1>1 DEF AgentHolds
<1>7. AgentHolds(j)' /\ (Dead(j) => Dead(j)')
  BY <1>1, <1>3, <1>6 DEF AgentHolds, Dead
<1> QED
  BY <1>1, <1>3, <1>4, <1>5, <1>7, AgentAlone DEF None

LEMMA FinishKeeps ==
  ASSUME SlotInv, NEW outcome \in Ended, Finish(outcome)
  PROVE  SlotInv'
<1> PICK j \in Jobs : j = worker
  BY DEF SlotInv, Finish, TypeOK
<1>1. /\ TypeOK /\ agentUp
      /\ procs' = procs \ {j} /\ worker' = None /\ killed' = FALSE
      /\ record' = [record EXCEPT ![j] = outcome]
      /\ late' = [late EXCEPT ![j] = @ \cup {outcome}]
      /\ UNCHANGED <<row, leases, gw, agentUp, disk, fences, queue, upload, ran, crashes>>
  BY DEF SlotInv, Finish, TypeOK
<1>2. AgentHolds(j) /\ record[j] = "training" /\ j \in ran
  BY <1>1 DEF SlotInv, AgentHolds
<1>a. worker' \notin Jobs
  BY <1>1, NoneAssumption
<1>3. outcome \in Records /\ outcome # None /\ worker' \notin Jobs
  BY <1>a DEF Records, Ended, None
<1>b. record \in [Jobs -> Records] /\ late \in [Jobs -> SUBSET Records]
  BY <1>1 DEF TypeOK
<1>4. /\ record' \in [Jobs -> Records] /\ record'[j] = outcome
      /\ late' \in [Jobs -> SUBSET Records] /\ late'[j] = late[j] \cup {outcome}
      /\ \A i \in Jobs \ {j} : record'[i] = record[i] /\ late'[i] = late[i]
  BY <1>1, <1>3, <1>b
<1>5. TypeOK'
  BY <1>1, <1>4 DEF TypeOK
<1>6. \A i : Waits(i)' <=> Waits(i)
  BY <1>1 DEF Waits
<1>7. \A i \in Jobs \ {j} : Alike(i)
  BY <1>1, <1>3, <1>4, <1>6 DEF Alike
<1>8. AgentHolds(j)'
  BY <1>1, <1>2, <1>3, <1>4, <1>6 DEF AgentHolds, Over
<1>9. ~Dead(j)
  BY DEF Dead
<1> QED
  BY <1>1, <1>5, <1>7, <1>8, <1>9, AgentAlone

LEMMA PersistKeeps ==
  ASSUME SlotInv, NEW j \in Jobs, Persist(j)
  PROVE  SlotInv'
<1>1. PICK saved \in late[j] :
        /\ disk' = [disk EXCEPT ![j] = saved]
        /\ late' = [late EXCEPT ![j] = @ \ {saved}]
        /\ UNCHANGED <<row, leases, gw, agentUp, record, fences, queue, worker, killed,
                       upload, procs, ran, crashes>>
  BY DEF Persist
<1>2. TypeOK /\ AgentHolds(j) /\ saved \in Records /\ \A i : Waits(i)' <=> Waits(i)
  BY <1>1 DEF SlotInv, TypeOK, Waits
<1>3. /\ disk' \in [Jobs -> Records] /\ disk'[j] = saved
      /\ late' \in [Jobs -> SUBSET Records] /\ late'[j] = late[j] \ {saved}
      /\ \A i \in Jobs \ {j} : disk'[i] = disk[i] /\ late'[i] = late[i]
  BY <1>1, <1>2 DEF TypeOK
<1>4. TypeOK' /\ \A i \in Jobs \ {j} : Alike(i)
  BY <1>1, <1>2, <1>3 DEF TypeOK, Alike
<1>5. AgentHolds(j)'
  BY <1>1, <1>2, <1>3 DEF AgentHolds, Over
<1>6. Dead(j) => Dead(j)'
  BY <1>1, <1>2 DEF Dead
<1> QED
  BY <1>1, <1>4, <1>5, <1>6, AgentAlone

LEMMA OrphanKeeps ==
  ASSUME SlotInv, NEW j \in Jobs, OrphanEnds(j)
  PROVE  SlotInv'
<1>1. /\ TypeOK /\ AgentHolds(j) /\ procs' = procs \ {j}
      /\ UNCHANGED <<row, leases, gw, agentUp, record, disk, late, fences, queue, worker,
                     killed, upload, ran, crashes>>
  BY DEF SlotInv, OrphanEnds
<1>2. \A i : Waits(i)' <=> Waits(i)
  BY <1>1 DEF Waits
<1>3. TypeOK' /\ \A i \in Jobs \ {j} : Alike(i)
  BY <1>1, <1>2 DEF TypeOK, Alike
<1>4. AgentHolds(j)' /\ (Dead(j) => Dead(j)')
  BY <1>1, <1>2 DEF AgentHolds, Dead
<1> QED
  BY <1>1, <1>3, <1>4, AgentAlone

\* The job the worker starts has never run.
LEMMA TakeKeeps ==
  ASSUME SlotInv, Take
  PROVE  SlotInv'
<1>1. /\ TypeOK /\ agentUp /\ worker = None /\ queue # <<>> /\ queue' = Tail(queue)
      /\ UNCHANGED <<row, leases, gw, agentUp, late, fences, upload, crashes>>
  BY DEF SlotInv, Take
<1> PICK j \in Jobs : j = Head(queue)
  BY <1>1, WaitsFirst DEF TypeOK
<1>2. queue' \in Seq(Jobs) /\ Waits(j) /\ \A i : Waits(i)' => Waits(i)
  BY <1>1, WaitsFirst DEF TypeOK
<1>3. AgentHolds(j) /\ \A i \in Jobs : worker # i
  BY <1>1, NoneAssumption DEF SlotInv
<1>4. CASE record[j] \in Over
  <2>1. UNCHANGED <<record, disk, worker, killed, procs, ran>>
    BY <1>4 DEF Take, Over
  <2>2. TypeOK'
    BY <1>1, <1>2, <2>1 DEF TypeOK
  <2>3. \A i \in Jobs : Alike(i)
    BY <1>1, <1>2, <2>1 DEF Alike
  <2>4. AgentHolds(j)' /\ (Dead(j) => Dead(j)')
    BY <1>1, <1>3, <2>3, AlikeHolds
  <2> QED
    BY <1>1, <2>2, <2>3, <2>4, AgentAlone
<1>5. CASE record[j] \notin Over
  <2>1. /\ record' = [record EXCEPT ![j] = "training"] /\ disk' = [disk EXCEPT ![j] = "training"]
        /\ worker' = j /\ killed' = FALSE /\ procs' = procs \cup {j} /\ ran' = ran \cup {j}
    BY <1>5 DEF Take, Over
  <2>2. /\ record' \in [Jobs -> Records] /\ record'[j] = "training"
        /\ disk' \in [Jobs -> Records] /\ disk'[j] = "training"
        /\ \A i \in Jobs \ {j} : record'[i] = record[i] /\ disk'[i] = disk[i]
    BY <1>1, <2>1 DEF TypeOK, Records
  <2>3. TypeOK'
    BY <1>1, <1>2, <2>1, <2>2 DEF TypeOK
  <2>4. \A i \in Jobs \ {j} : Alike(i)
    BY <1>1, <1>2, <1>3, <2>1, <2>2 DEF Alike
  <2>5. "training" \notin Over /\ late[j] \cap Ended = {}
    BY <1>3, <1>5 DEF AgentHolds, Over, Ended, None
  <2>6. AgentHolds(j)' /\ ~Dead(j)
    BY <1>1, <1>2, <1>3, <1>5, <2>1, <2>2, <2>5 DEF AgentHolds, Dead, Over
  <2> QED
    BY <1>1, <2>3, <2>4, <2>6, AgentAlone
<1> QED
  BY <1>4, <1>5

LEMMA DownKeeps ==
  ASSUME SlotInv, AgentDown, crashes' \in Nat, procs' \subseteq procs,
         disk' \in [Jobs -> Records],
         \A j \in Jobs : \/ disk'[j] = disk[j]
                         \/ j \notin procs' /\ worker = j
  PROVE  SlotInv'
<1>1. /\ TypeOK /\ None \in Records /\ agentUp' = FALSE /\ queue' = <<>> /\ worker' = None
      /\ killed' = FALSE /\ \A j \in Jobs : record'[j] = None /\ late'[j] = {}
      /\ record' \in [Jobs -> Records] /\ late' \in [Jobs -> SUBSET Records]
      /\ UNCHANGED <<row, leases, gw, fences, ran>>
  BY DEF SlotInv, AgentDown, Records
<1>2. /\ upload' \in [Jobs -> Uploads]
      /\ \A j \in Jobs : upload'[j] = IF upload[j] = "accepted" THEN "refused" ELSE upload[j]
  BY <1>1 DEF AgentDown, TypeOK, Uploads
<1>3. queue' \in Seq(Jobs) /\ \A j : ~Waits(j)'
  BY <1>1, EmptySeq DEF Waits
<1>4. \A j \in Jobs : worker' # j
  BY <1>1, NoneAssumption
<1>5. TypeOK'
  BY <1>1, <1>2, <1>3 DEF TypeOK
<1>6. ASSUME NEW j \in Jobs PROVE AgentHolds(j)' /\ (Dead(j) => Dead(j)')
  <2>1. AgentHolds(j)
    BY DEF SlotInv
  <2>2. AgentHolds(j)'
    BY <1>1, <1>2, <1>3, <1>4, <2>1 DEF AgentHolds
  <2>3. Dead(j) => Dead(j)'
    BY <1>1, <1>2, <1>3, <1>4 DEF Dead
  <2> QED
    BY <2>2, <2>3
<1>7. AgentSide
  BY <1>1, <1>5, <1>6 DEF AgentSide
<1>8. \A j \in Jobs : upload'[j] = None <=> upload[j] = None
  BY <1>2 DEF None
<1> QED
  BY <1>1, <1>7, <1>8, AgentActs

LEMMA StartKeeps ==
  ASSUME SlotInv, AgentStart
  PROVE  SlotInv'
<1>1. /\ TypeOK /\ ~agentUp /\ agentUp' = TRUE /\ queue = <<>>
      /\ disk' = [j \in Jobs |-> Loaded(disk[j])] /\ record' = disk'
      /\ UNCHANGED <<row, leases, gw, late, fences, queue, worker, killed, upload, procs,
                     ran, crashes>>
  BY DEF SlotInv, AgentStart
<1>2. \A state \in Records : Loaded(state) \in Records
  BY DEF Loaded, Records, Ended
<1>3. /\ disk' \in [Jobs -> Records]
      /\ \A j \in Jobs : disk'[j] = Loaded(disk[j]) /\ record'[j] = Loaded(disk[j])
  BY <1>1, <1>2 DEF TypeOK
<1>4. TypeOK' /\ \A j : ~Waits(j)' /\ ~Waits(j)
  BY <1>1, <1>3, NobodyWaits DEF TypeOK, Waits
<1>5. ASSUME NEW j \in Jobs PROVE AgentHolds(j)' /\ (Dead(j) => Dead(j)')
  <2>1. AgentHolds(j)
    BY DEF SlotInv
  <2>2. late[j] = {} /\ worker # j /\ upload[j] # "accepted"
    BY <1>1, <2>1 DEF AgentHolds
  <2>a. /\ disk[j] \notin Over => Loaded(disk[j]) = "unconfirmed"
        /\ Loaded(disk[j]) \in Over => disk[j] \in Over
        /\ disk[j] = None => Loaded(disk[j]) = None
    BY DEF Loaded, Over, Ended, None
  <2>b. None \in Over
    BY DEF Over
  <2>3. AgentHolds(j)'
    BY <1>1, <1>3, <1>4, <2>1, <2>2, <2>a, <2>b DEF AgentHolds
  <2>4. Dead(j) => Dead(j)'
    BY <1>1, <1>4, <2>2 DEF Dead
  <2> QED
    BY <2>3, <2>4
<1>6. AgentSide
  BY <1>1, <1>4, <1>5 DEF AgentSide
<1> QED
  BY <1>1, <1>6, AgentActs

LEMMA AgentKeeps ==
  ASSUME SlotInv, Agent
  PROVE  SlotInv'
<1>1. CASE Take
  BY <1>1, TakeKeeps
<1>2. ASSUME NEW outcome \in Ended, Finish(outcome) PROVE SlotInv'
  BY <1>2, FinishKeeps
<1>3. CASE AgentCrash
  <2>1. TypeOK /\ procs' \subseteq procs /\ crashes' \in Nat /\ UNCHANGED disk /\ AgentDown
    BY <1>3 DEF AgentCrash, SlotInv, TypeOK
  <2> QED
    BY <2>1, DownKeeps DEF TypeOK
<1>4. CASE AgentClose
  <2>1. /\ TypeOK /\ procs' = procs \ {worker} /\ crashes' \in Nat /\ AgentDown
        /\ disk' = [j \in Jobs |-> IF j = worker THEN "cancelled" ELSE disk[j]]
    BY <1>4 DEF AgentClose, SlotInv, TypeOK
  <2>2. /\ disk' \in [Jobs -> Records]
        /\ \A j \in Jobs : disk'[j] = disk[j] \/ (j \notin procs' /\ worker = j)
        /\ procs' \subseteq procs
    BY <2>1 DEF TypeOK, Records, Ended
  <2> QED
    BY <2>1, <2>2, DownKeeps
<1>5. CASE AgentStart
  BY <1>5, StartKeeps
<1>6. ASSUME NEW j \in Jobs, Accept(j) PROVE SlotInv'
  BY <1>6, AcceptKeeps
<1>7. ASSUME NEW j \in Jobs, UploadBreaks(j) \/ GiveUp(j) PROVE SlotInv'
  BY <1>7, RefusalKeeps DEF UploadBreaks, GiveUp
<1>8. ASSUME NEW j \in Jobs, Enqueue(j) PROVE SlotInv'
  BY <1>8, EnqueueKeeps
<1>9. ASSUME NEW j \in Jobs, Persist(j) PROVE SlotInv'
  BY <1>9, PersistKeeps
<1>10. ASSUME NEW j \in Jobs, Expire(j) PROVE SlotInv'
  <2>1. /\ TypeOK /\ agentUp /\ record[j] \in Ended /\ AgentDelete(j)
        /\ UNCHANGED <<row, leases, gw, upload, crashes>>
    BY <1>10 DEF Expire, SlotInv, Ended
  <2>2. row' \in [Jobs -> RowSet] /\ leases' \subseteq Jobs
    BY <2>1 DEF TypeOK, RowSet
  <2>3. AgentSide
    BY <2>1, <2>2, DeleteKeeps
  <2> QED
    BY <2>1, <2>3, AgentActs
<1>11. ASSUME NEW j \in Jobs, OrphanEnds(j) PROVE SlotInv'
  BY <1>11, OrphanKeeps
<1> QED
  BY <1>1, <1>2, <1>3, <1>4, <1>5, <1>6, <1>7, <1>8, <1>9, <1>10, <1>11 DEF Agent

-----------------------------------------------------------------------------
(* The rows and the Gateway. *)

LEMMA Moves ==
  ASSUME TypeOK, NEW g \in Gateways, NEW c \in GwSet, Go(g, c)
  PROVE  gw' \in [Gateways -> GwSet] /\ gw'[g] = c
BY DEF TypeOK, Go, GwSet

LEMMA Rests ==
  ASSUME TypeOK, NEW g \in Gateways, Rest(g)
  PROVE  gw' \in [Gateways -> GwSet] /\ GwHolds(g)'
<1> DEFINE c == Idle
<1>1. c \in GwSet /\ c.at = "idle" /\ Go(g, c)
  BY DEF Idle, GwSet, Steps, Records, Rest
<1> HIDE DEF c
<1>2. gw' \in [Gateways -> GwSet] /\ gw'[g].at = "idle"
  BY <1>1, Moves
<1> QED
  BY <1>2 DEF GwHolds, Stands

\* From one step to another, of the same job.
LEMMA Proceeds ==
  ASSUME TypeOK, NEW g \in Gateways, NEW at \in Steps, Go(g, [gw[g] EXCEPT !.at = at])
  PROVE  /\ gw' \in [Gateways -> GwSet]
         /\ gw'[g].at = at /\ gw'[g].job = gw[g].job /\ gw'[g].said = gw[g].said
<1> DEFINE c == [gw[g] EXCEPT !.at = at]
<1>1. gw[g] \in GwSet
  BY DEF TypeOK, GwSet
<1>2. c \in GwSet /\ c.at = at /\ c.job = gw[g].job /\ c.said = gw[g].said /\ Go(g, c)
  BY <1>1 DEF GwSet
<1> HIDE DEF c
<1> QED
  BY <1>2, Moves

LEMMA Updates ==
  ASSUME TypeOK, NEW j \in Jobs, row[j].state # "deleted", NEW state \in RowStates,
         Update(j, state)
  PROVE  /\ row' \in [Jobs -> RowSet]
         /\ row'[j].state = state /\ row'[j].attached = row[j].attached
         /\ row'[j].begun = row[j].begun
         /\ \A i \in Jobs \ {j} : row'[i] = row[i] /\ (i \in leases => i \in leases')
         /\ leases' \subseteq Jobs /\ (state \notin Ended => leases' = leases)
<1> DEFINE r == [row[j] EXCEPT !.state = state, !.files = @ /\ state \notin Ended]
<1>1. row \in [Jobs -> RowSet] /\ row[j] \in RowSet
  BY DEF TypeOK, RowSet
<1>2. /\ r \in RowSet /\ r.state = state /\ r.attached = row[j].attached
      /\ r.begun = row[j].begun
  BY <1>1 DEF RowSet
<1>3. row' = [row EXCEPT ![j] = r]
  BY <1>1 DEF Update
<1> HIDE DEF r
<1>4. /\ row' \in [Jobs -> RowSet] /\ row'[j] = r
      /\ \A i \in Jobs \ {j} : row'[i] = row[i]
  BY <1>1, <1>2, <1>3
<1>5. /\ leases' \subseteq Jobs /\ (state \notin Ended => leases' = leases)
      /\ \A i \in Jobs \ {j} : i \in leases => i \in leases'
  BY DEF Update, TypeOK
<1> QED
  BY <1>2, <1>4, <1>5

LEMMA NotBegun ==
  ASSUME SlotInv, NEW j \in Jobs, ~row[j].begun
  PROVE  upload[j] = None /\ Dead(j)
BY DEF SlotInv, RowHolds, AgentHolds, Dead, None

\* With the agent left alone, what it holds stays.
LEMMA AgentStays ==
  ASSUME SlotInv, TypeOK', UNCHANGED agentVars,
         \A j \in Jobs : upload'[j] = upload[j]
  PROVE  AgentSide
<1>1. \A i : Waits(i)' <=> Waits(i)
  BY DEF Waits, agentVars
<1>2. \A j \in Jobs : Alike(j)
  BY <1>1 DEF Alike, agentVars
<1>3. \A j \in Jobs : AgentHolds(j)' /\ (Dead(j) => Dead(j)')
  BY <1>2, AlikeHolds DEF agentVars, SlotInv
<1> QED
  BY <1>3 DEF AgentSide, SlotInv, agentVars

\* A step of the Gateway about one job, which opens none.
LEMMA GatewayActs ==
  ASSUME OneGateway, SlotInv, AgentSide, NEW g \in Gateways, NEW k \in Jobs,
         UNCHANGED upload,
         \A j \in Jobs \ {k} : row'[j] = row[j] /\ (j \in leases => j \in leases'),
         row'[k].state \in Open => row[k].state \in Open,
         RowHolds(k)', GwHolds(g)'
  PROVE  SlotInv'
<1>1. OneOpen'
  BY DEF SlotInv, OneOpen
<1>2. \A j \in Jobs \ {k} : RowHolds(j)'
  BY DEF SlotInv, AgentSide, RowHolds, Closed
<1> QED
  BY <1>1, <1>2 DEF SlotInv, AgentSide, OneGateway

LEMMA Closes ==
  ASSUME OneGateway, SlotInv, NEW g \in Gateways, NEW j \in Jobs, row[j].state \in Open,
         Dead(j), NEW state \in Ended, Update(j, state), Rest(g),
         UNCHANGED <<agentVars, upload, crashes>>
  PROVE  SlotInv'
<1>1. TypeOK /\ state \in RowStates /\ row[j].state # "deleted"
  BY DEF SlotInv, RowStates, Open
<1>2. gw' \in [Gateways -> GwSet] /\ GwHolds(g)'
  BY <1>1, Rests
<1>3. /\ row' \in [Jobs -> RowSet]
      /\ row'[j].state = state /\ row'[j].attached = row[j].attached
      /\ row'[j].begun = row[j].begun
      /\ \A i \in Jobs \ {j} : row'[i] = row[i] /\ (i \in leases => i \in leases')
      /\ leases' \subseteq Jobs
  BY <1>1, Updates
<1>4. TypeOK'
  BY <1>1, <1>2, <1>3 DEF TypeOK, RowSet, GwSet, agentVars
<1>5. AgentSide
  BY <1>4, AgentStays
<1>6. RowHolds(j)'
  BY <1>3, <1>5 DEF SlotInv, AgentSide, RowHolds, Closed, Ended
<1>7. row'[j].state \notin Open
  BY <1>3 DEF Ended, Open
<1> QED
  BY <1>2, <1>3, <1>5, <1>6, <1>7, GatewayActs

\* A step that only moves the Gateway on.
LEMMA Looks ==
  ASSUME OneGateway, SlotInv, NEW g \in Gateways,
         gw' \in [Gateways -> GwSet], GwHolds(g)',
         UNCHANGED <<row, leases, agentVars, upload, crashes>>
  PROVE  SlotInv'
<1>1. TypeOK'
  BY DEF SlotInv, TypeOK, GwSet, agentVars
<1>2. AgentSide
  BY <1>1, AgentStays
<1>3. OneOpen' /\ \A j \in Jobs : RowHolds(j)'
  BY <1>2 DEF SlotInv, AgentSide, OneOpen, RowHolds, Closed
<1> QED
  BY <1>2, <1>3 DEF SlotInv, AgentSide, OneGateway

\* The accepted job is attached to its row.
LEMMA Attaches ==
  ASSUME OneGateway, SlotInv, NEW g \in Gateways, NEW j \in Jobs, row[j].begun,
         row[j].state = "uploading", NEW files \in BOOLEAN,
         row' = [row EXCEPT ![j].state = "training", ![j].attached = TRUE, ![j].files = files],
         gw' \in [Gateways -> GwSet], GwHolds(g)',
         UNCHANGED <<leases, agentVars, upload, crashes>>
  PROVE  SlotInv'
<1> DEFINE r == [row[j] EXCEPT !.state = "training", !.attached = TRUE, !.files = files]
<1>1. TypeOK /\ row \in [Jobs -> RowSet] /\ row[j] \in RowSet
  BY DEF SlotInv, TypeOK, RowSet
<1>2. r \in RowSet /\ r.state = "training" /\ r.attached /\ r.begun = row[j].begun
  BY <1>1 DEF RowSet, RowStates, Open
<1>3. row' = [row EXCEPT ![j] = r]
  BY <1>1
<1> HIDE DEF r
<1>4. row' \in [Jobs -> RowSet] /\ row'[j] = r /\ \A i \in Jobs \ {j} : row'[i] = row[i]
  BY <1>1, <1>2, <1>3
<1>5. TypeOK'
  BY <1>1, <1>4 DEF TypeOK, RowSet, GwSet, agentVars
<1>6. AgentSide
  BY <1>5, AgentStays
<1>7. RowHolds(j)' /\ row[j].state \in Open
  BY <1>2, <1>4, <1>6 DEF SlotInv, AgentSide, RowHolds, Closed, Ended, Open
<1> QED
  BY <1>4, <1>6, <1>7, GatewayActs

LEMMA RefreshKeeps ==
  ASSUME OneGateway, SlotInv, NEW g \in Gateways, NEW j \in Jobs, Refresh(g, j)
  PROVE  SlotInv'
<1> DEFINE at == CASE row[j].attached /\ row[j].cancel -> "cancel"
                   [] row[j].attached /\ ~row[j].cancel -> "poll"
                   [] ~row[j].attached /\ row[j].begun -> "lookup"
                   [] OTHER -> "drop"
           c == [at |-> at, job |-> j, cancel |-> row[j].cancel, said |-> None]
<1>1. /\ TypeOK /\ RowHolds(j) /\ row[j].state \in Open /\ row[j] \in RowSet
      /\ Go(g, c) /\ UNCHANGED <<row, leases, agentVars, upload, crashes>>
  BY DEF SlotInv, Refresh, TypeOK, RowSet
<1>2. /\ at = "cancel" \/ at = "poll" \/ at = "lookup" \/ at = "drop"
      /\ at = "cancel" \/ at = "poll" => row[j].attached
      /\ at = "lookup" => ~row[j].attached /\ row[j].begun
      /\ at = "drop" => ~row[j].attached /\ ~row[j].begun
  BY <1>1 DEF RowSet
<1> HIDE DEF at
<1>3. c \in GwSet /\ c.at = at /\ c.job = j /\ c.said = None
  BY <1>1, <1>2 DEF GwSet, RowSet, Steps, Records
<1> HIDE DEF c
<1>4. gw' \in [Gateways -> GwSet] /\ gw'[g] = c
  BY <1>1, <1>3, Moves
<1>5. GwHolds(g)'
  BY <1>1, <1>2, <1>3, <1>4 DEF GwHolds, Stands, RowHolds, Unsent, Open
<1> QED
  BY <1>1, <1>4, <1>5, Looks

LEMMA LookupKeeps ==
  ASSUME OneGateway, SlotInv, NEW g \in Gateways, Lookup(g)
  PROVE  SlotInv'
<1>1. /\ TypeOK /\ GwHolds(g) /\ gw[g].at = "lookup"
      /\ UNCHANGED <<row, leases, agentVars, upload, crashes>>
      /\ \/ Rest(g)
         \/ Go(g, [gw[g] EXCEPT !.at = "fence"])
         \/ Go(g, [gw[g] EXCEPT !.at = "adopt"])
  BY DEF SlotInv, Lookup, Rest
<1>2. CASE Rest(g)
  BY <1>1, <1>2, Rests, Looks
<1>3. ASSUME NEW at, at = "fence" \/ at = "adopt", Go(g, [gw[g] EXCEPT !.at = at])
      PROVE  SlotInv'
  <2>1. at \in Steps
    BY <1>3 DEF Steps
  <2>2. /\ gw' \in [Gateways -> GwSet]
        /\ gw'[g].at = at /\ gw'[g].job = gw[g].job /\ gw'[g].said = gw[g].said
    BY <1>1, <1>3, <2>1, Proceeds
  <2>3. GwHolds(g)'
    BY <1>1, <1>3, <2>2 DEF GwHolds, Stands
  <2> QED
    BY <1>1, <2>2, <2>3, Looks
<1> QED
  BY <1>1, <1>2, <1>3

LEMMA AdoptKeeps ==
  ASSUME OneGateway, SlotInv, NEW g \in Gateways, Adopt(g)
  PROVE  SlotInv'
<1>1. /\ TypeOK /\ GwHolds(g) /\ gw[g].at = "adopt" /\ gw[g] \in GwSet
      /\ UNCHANGED <<leases, agentVars, upload, crashes>>
  BY DEF SlotInv, Adopt, TypeOK, GwSet
<1> PICK j \in Jobs : j = gw[g].job
  BY <1>1 DEF GwHolds, Stands
<1>2. row[j].begun /\ row[j] \in RowSet
  BY <1>1 DEF GwHolds, Stands, TypeOK, RowSet
<1>3. CASE CanAttach(j)
  <2> DEFINE at == IF row[j].cancel THEN "cancel" ELSE "poll"
             c == [gw[g] EXCEPT !.cancel = row[j].cancel, !.at = at]
  <2>1. row' = Attached(j) /\ Go(g, c) /\ row[j].state = "uploading"
    BY <1>3 DEF Adopt, CanAttach
  <2>2. at = "cancel" \/ at = "poll"
    OBVIOUS
  <2> HIDE DEF at
  <2>3. c \in GwSet /\ c.at = at /\ c.job = j /\ c.said = gw[g].said
    BY <1>1, <1>2, <2>2 DEF GwSet, RowSet, Steps
  <2> HIDE DEF c
  <2>4. gw' \in [Gateways -> GwSet] /\ gw'[g] = c
    BY <1>1, <2>1, <2>3, Moves
  <2>5. row' = [row EXCEPT ![j].state = "training", ![j].attached = TRUE,
                           ![j].files = row[j].files]
    BY <1>1, <1>2, <2>1 DEF Attached, TypeOK, RowSet
  <2>6. row'[j].state = "training" /\ row'[j].attached
    BY <1>1, <1>2, <2>1 DEF Attached, TypeOK, RowSet
  <2>7. GwHolds(g)'
    BY <2>2, <2>3, <2>4, <2>6 DEF GwHolds, Stands, Open
  <2>8. row[j].files \in BOOLEAN
    BY <1>2 DEF RowSet
  <2> QED
    BY <1>1, <1>2, <2>1, <2>4, <2>5, <2>7, <2>8, Attaches
<1>4. CASE ~CanAttach(j)
  <2>1. Rest(g) /\ UNCHANGED row
    BY <1>4 DEF Adopt
  <2> QED
    BY <1>1, <2>1, Rests, Looks
<1> QED
  BY <1>3, <1>4

LEMMA SettleKeeps ==
  ASSUME OneGateway, SlotInv, NEW g \in Gateways, Settle(g)
  PROVE  SlotInv'
<1>1. /\ TypeOK /\ GwHolds(g) /\ gw[g].at = "settle" /\ gw[g] \in GwSet
      /\ UNCHANGED <<leases, agentVars, upload, crashes>>
  BY DEF SlotInv, Settle, TypeOK, GwSet
<1> PICK j \in Jobs : j = gw[g].job
  BY <1>1 DEF GwHolds, Stands
<1>2. row[j].begun /\ row[j].state \in Open /\ Dead(j) /\ row[j] \in RowSet
  BY <1>1 DEF GwHolds, Stands, TypeOK, RowSet
<1>3. CASE Rest(g) /\ UNCHANGED row
  BY <1>1, <1>3, Rests, Looks
<1>4. CASE Go(g, [gw[g] EXCEPT !.at = "close"])
  <2>1. "close" \in Steps
    BY DEF Steps
  <2>2. /\ gw' \in [Gateways -> GwSet]
        /\ gw'[g].at = "close" /\ gw'[g].job = j /\ gw'[g].said = gw[g].said
    BY <1>1, <1>4, <2>1, Proceeds
  <2>a. Dead(j)'
    BY <1>1, <1>2 DEF Dead, Waits, agentVars
  <2>3. CASE UNCHANGED row
    <3>1. GwHolds(g)'
      BY <1>2, <2>2, <2>3, <2>a DEF GwHolds, Stands
    <3> QED
      BY <1>1, <2>2, <2>3, <3>1, Looks
  <2>4. CASE row' = Attached(j) /\ row[j].state = "uploading"
    <3>1. row' = [row EXCEPT ![j].state = "training", ![j].attached = TRUE,
                             ![j].files = row[j].files]
      BY <1>1, <1>2, <2>4 DEF Attached, TypeOK, RowSet
    <3>2. row'[j].state = "training" /\ row'[j].begun = row[j].begun
      BY <1>1, <1>2, <2>4 DEF Attached, TypeOK, RowSet
    <3>3. GwHolds(g)'
      BY <1>2, <2>2, <2>a, <3>2 DEF GwHolds, Stands, Open
    <3>4. row[j].files \in BOOLEAN
      BY <1>2 DEF RowSet
    <3> QED
      BY <1>1, <1>2, <2>2, <2>4, <3>1, <3>3, <3>4, Attaches
  <2> QED
    BY <1>1, <1>3, <2>3, <2>4 DEF Settle, CanAttach
<1> QED
  BY <1>3, <1>4 DEF Settle

LEMMA AttachKeeps ==
  ASSUME OneGateway, SlotInv, NEW g \in Gateways, Attach(g)
  PROVE  SlotInv'
<1>1. /\ TypeOK /\ GwHolds(g) /\ gw[g].at = "attach" /\ Rest(g)
      /\ UNCHANGED <<leases, agentVars, upload, crashes>>
  BY DEF SlotInv, Attach
<1> PICK j \in Jobs : j = gw[g].job
  BY <1>1 DEF GwHolds, Stands
<1>2. row[j].begun /\ row[j] \in RowSet /\ gw' \in [Gateways -> GwSet] /\ GwHolds(g)'
  BY <1>1, Rests DEF GwHolds, Stands, TypeOK, RowSet
<1>3. CASE CanAttach(j)
  <2>1. row' = [Attached(j) EXCEPT ![j].files = FALSE] /\ row[j].state = "uploading"
    BY <1>3 DEF Attach, CanAttach
  <2>2. row' = [row EXCEPT ![j].state = "training", ![j].attached = TRUE, ![j].files = FALSE]
    BY <1>1, <1>2, <2>1 DEF Attached, TypeOK, RowSet
  <2> QED
    BY <1>1, <1>2, <2>1, <2>2, Attaches
<1>4. CASE ~CanAttach(j)
  <2>1. UNCHANGED row
    BY <1>4 DEF Attach
  <2> QED
    BY <1>1, <1>2, <2>1, Looks
<1> QED
  BY <1>3, <1>4

\* The fence is what makes a settled submission dead: the agent was asked after it.
LEMMA FenceKeeps ==
  ASSUME OneGateway, SlotInv, NEW g \in Gateways, Fence(g)
  PROVE  SlotInv'
<1>1. /\ TypeOK /\ GwHolds(g) /\ gw[g].at = "fence" /\ gw[g] \in GwSet /\ agentUp
      /\ UNCHANGED <<row, leases, upload, crashes>>
  BY DEF SlotInv, Fence, TypeOK, GwSet
<1> PICK j \in Jobs : j = gw[g].job
  BY <1>1 DEF GwHolds, Stands
<1>2. /\ row[j].begun /\ row[j].state \in Open /\ AgentCancel(j)
      /\ fences' = fences \cup {j} /\ AgentHolds(j) /\ RowHolds(j)
  BY <1>1 DEF GwHolds, Stands, Fence, SlotInv
<1>3. /\ fences' \subseteq Jobs /\ fences \subseteq fences'
      /\ row' \in [Jobs -> RowSet] /\ leases' \subseteq Jobs
  BY <1>1, <1>2 DEF TypeOK, RowSet
<1>4. CASE Rest(g)
  <2>1. gw' \in [Gateways -> GwSet] /\ GwHolds(g)'
    BY <1>1, <1>4, Rests
  <2>2. AgentSide
    BY <1>1, <1>2, <1>3, <2>1, CancelKeeps
  <2>3. RowHolds(j)'
    BY <1>1, <1>2, <2>2 DEF AgentSide, RowHolds, Closed
  <2> QED
    BY <1>1, <2>1, <2>2, <2>3, GatewayActs
<1>5. CASE Cancelled(j) \in Over /\ Go(g, [gw[g] EXCEPT !.at = "settle", !.said = Cancelled(j)])
  <2> DEFINE c == [gw[g] EXCEPT !.at = "settle", !.said = Cancelled(j)]
  <2>1. Cancelled(j) \in Records
    BY <1>5 DEF Over, Records
  <2>2. c \in GwSet /\ c.at = "settle" /\ c.job = j /\ Go(g, c)
    BY <1>1, <1>5, <2>1 DEF GwSet, Steps
  <2> HIDE DEF c
  <2>3. gw' \in [Gateways -> GwSet] /\ gw'[g].at = "settle" /\ gw'[g].job = j
    BY <1>1, <2>2, Moves
  <2>4. AgentSide /\ record'[j] = Cancelled(j)
    BY <1>1, <1>2, <1>3, <2>3, CancelKeeps
  <2>5. agentUp' /\ j \in fences'
    BY <1>1, <1>2 DEF AgentCancel
  <2>6. Dead(j)'
    <3>1. AgentHolds(j)'
      BY <2>4 DEF AgentSide
    <3>2. record'[j] \in Over /\ "training" \notin Over /\ "unconfirmed" \notin Over
      BY <1>5, <2>4 DEF Over, Ended, None
    <3>3. j \notin procs' /\ worker' # j
      BY <2>5, <3>1, <3>2 DEF AgentHolds
    <3> QED
      BY <2>5, <3>2, <3>3 DEF Dead, Over
  <2>7. GwHolds(g)'
    BY <1>1, <1>2, <2>3, <2>6 DEF GwHolds, Stands
  <2>8. RowHolds(j)'
    BY <1>1, <1>2, <2>4 DEF AgentSide, RowHolds, Closed
  <2> QED
    BY <1>1, <2>4, <2>7, <2>8, GatewayActs
<1> QED
  BY <1>4, <1>5 DEF Fence, Over

LEMMA TellCancelKeeps ==
  ASSUME OneGateway, SlotInv, NEW g \in Gateways, TellCancel(g)
  PROVE  SlotInv'
<1>1. /\ TypeOK /\ GwHolds(g) /\ gw[g].at = "cancel" /\ gw[g] \in GwSet /\ agentUp
      /\ UNCHANGED <<row, leases, upload, crashes, fences>>
  BY DEF SlotInv, TellCancel, TypeOK, GwSet
<1> PICK j \in Jobs : j = gw[g].job
  BY <1>1 DEF GwHolds, Stands
<1>2. AgentCancel(j) /\ RowHolds(j) /\ row[j].state \in Open /\ row[j].attached
  BY <1>1 DEF GwHolds, Stands, TellCancel, SlotInv
<1>3. gw' \in [Gateways -> GwSet] /\ GwHolds(g)'
  <2>1. CASE Rest(g)
    BY <1>1, <2>1, Rests
  <2>2. CASE Go(g, [gw[g] EXCEPT !.at = "poll"])
    <3>1. "poll" \in Steps
      BY DEF Steps
    <3>2. gw' \in [Gateways -> GwSet] /\ gw'[g].at = "poll" /\ gw'[g].job = j
      BY <1>1, <2>2, <3>1, Proceeds
    <3> QED
      BY <1>1, <1>2, <3>2 DEF GwHolds, Stands
  <2> QED
    BY <2>1, <2>2 DEF TellCancel
<1>4. row' \in [Jobs -> RowSet] /\ leases' \subseteq Jobs /\ fences' \subseteq Jobs
  BY <1>1 DEF TypeOK, RowSet
<1>5. AgentSide
  BY <1>1, <1>2, <1>3, <1>4, CancelKeeps
<1>6. RowHolds(j)'
  BY <1>1, <1>2, <1>5 DEF AgentSide, RowHolds, Closed
<1> QED
  BY <1>1, <1>3, <1>5, <1>6, GatewayActs

\* What an agent that is up says of a record it has is true of the process.
LEMMA PollKeeps ==
  ASSUME OneGateway, SlotInv, NEW g \in Gateways, Poll(g)
  PROVE  SlotInv'
<1>1. /\ TypeOK /\ GwHolds(g) /\ gw[g].at = "poll" /\ gw[g] \in GwSet /\ agentUp
      /\ UNCHANGED <<row, leases, agentVars, upload, crashes>>
  BY DEF SlotInv, Poll, TypeOK, GwSet
<1> PICK j \in Jobs : j = gw[g].job
  BY <1>1 DEF GwHolds, Stands
<1>2. CASE Rest(g)
  BY <1>1, <1>2, Rests, Looks
<1>3. CASE record[j] # None /\ Go(g, [gw[g] EXCEPT !.at = "write", !.said = record[j]])
  <2> DEFINE c == [gw[g] EXCEPT !.at = "write", !.said = record[j]]
  <2>1. /\ c \in GwSet /\ c.at = "write" /\ c.job = j /\ c.said = record[j]
        /\ Go(g, c) /\ AgentHolds(j)
    BY <1>1, <1>3 DEF GwSet, Steps, TypeOK, SlotInv
  <2> HIDE DEF c
  <2>2. gw' \in [Gateways -> GwSet] /\ gw'[g] = c
    BY <1>1, <2>1, Moves
  <2>3. record[j] \in Ended => Dead(j)
    BY <1>1, <1>3, <2>1 DEF AgentHolds, Dead, Over, Ended
  <2>4. record[j] \in Ended => Dead(j)'
    BY <1>1, <2>3 DEF Dead, Waits, agentVars
  <2>5. GwHolds(g)'
    BY <1>1, <2>1, <2>2, <2>4 DEF GwHolds, Stands
  <2> QED
    BY <1>1, <2>2, <2>5, Looks
<1> QED
  BY <1>2, <1>3 DEF Poll

LEMMA WriteKeeps ==
  ASSUME OneGateway, SlotInv, NEW g \in Gateways, Write(g)
  PROVE  SlotInv'
<1>1. /\ TypeOK /\ GwHolds(g) /\ gw[g].at = "write" /\ gw[g] \in GwSet /\ Rest(g)
      /\ UNCHANGED <<agentVars, upload, crashes>>
  BY DEF SlotInv, Write, TypeOK, GwSet
<1> PICK j \in Jobs : j = gw[g].job
  BY <1>1 DEF GwHolds, Stands
<1>2. /\ row[j].state \in Open /\ row[j].attached /\ RowHolds(j) /\ row[j].state # "deleted"
      /\ gw[g].said \in Ended => Dead(j)
  BY <1>1 DEF GwHolds, Stands, SlotInv, Open
<1>3. CASE gw[g].said \in Ended
  <2>1. Update(j, gw[g].said)
    BY <1>3 DEF Write
  <2> QED
    BY <1>1, <1>2, <1>3, <2>1, Closes
<1>4. CASE gw[g].said \notin Ended
  <2>1. Update(j, "training") /\ "training" \in RowStates /\ "training" \notin Ended
    BY <1>4 DEF Write, RowStates, Open, Ended
  <2>2. /\ row' \in [Jobs -> RowSet]
        /\ row'[j].state = "training" /\ row'[j].attached = row[j].attached
        /\ row'[j].begun = row[j].begun /\ leases' = leases
        /\ \A i \in Jobs \ {j} : row'[i] = row[i]
    BY <1>1, <1>2, <2>1, Updates
  <2>3. gw' \in [Gateways -> GwSet] /\ GwHolds(g)'
    BY <1>1, Rests
  <2>4. TypeOK'
    BY <1>1, <2>2, <2>3 DEF TypeOK, RowSet, GwSet, agentVars
  <2>5. AgentSide
    BY <1>1, <2>4, AgentStays
  <2>6. RowHolds(j)'
    BY <1>1, <1>2, <2>2 DEF RowHolds, Closed, Ended, Open
  <2> QED
    BY <1>1, <1>2, <2>2, <2>3, <2>5, <2>6, GatewayActs
<1> QED
  BY <1>3, <1>4

\* A job is closed after its submission was settled, or before it was sent.
LEMMA CloseKeeps ==
  ASSUME OneGateway, SlotInv, NEW g \in Gateways, Close(g) \/ Drop(g) \/ Unusable(g)
  PROVE  SlotInv'
<1>1. /\ TypeOK /\ GwHolds(g) /\ gw[g].at \in {"close", "drop", "prepare"} /\ Rest(g)
      /\ UNCHANGED <<agentVars, upload, crashes>>
  BY DEF SlotInv, Close, Drop, Unusable
<1> PICK j \in Jobs : j = gw[g].job
  BY <1>1 DEF GwHolds, Stands
<1>2. row[j].state \in Open /\ Dead(j)
  BY <1>1, NotBegun DEF GwHolds, Stands, Unsent
<1>3. \E state \in Ended : Update(j, state)
  BY DEF Close, Drop, Unusable, Ended
<1> QED
  BY <1>1, <1>2, <1>3, Closes

LEMMA RequeueKeeps ==
  ASSUME OneGateway, SlotInv, NEW g \in Gateways, Requeue(g)
  PROVE  SlotInv'
<1>1. /\ TypeOK /\ GwHolds(g) /\ gw[g].at = "requeue" /\ Rest(g)
      /\ UNCHANGED <<agentVars, upload, crashes>>
  BY DEF SlotInv, Requeue
<1> PICK j \in Jobs : j = gw[g].job
  BY <1>1 DEF GwHolds, Stands
<1>2. /\ row[j].state \in Open /\ ~row[j].begun /\ Dead(j) /\ RowHolds(j)
      /\ row[j].state # "deleted"
  BY <1>1, NotBegun DEF GwHolds, Stands, Unsent, SlotInv, Open
<1>3. gw' \in [Gateways -> GwSet] /\ GwHolds(g)'
  BY <1>1, Rests
<1>4. CASE UNCHANGED <<row, leases>>
  BY <1>1, <1>3, <1>4, Looks
<1>5. CASE Update(j, "cancelled")
  <2>1. "cancelled" \in Ended
    BY DEF Ended
  <2> QED
    BY <1>1, <1>2, <1>5, <2>1, Closes
<1>6. CASE Update(j, "queued")
  <2>1. "queued" \in RowStates /\ "queued" \notin Ended /\ "queued" \notin Open
    BY DEF RowStates, Ended, Open
  <2>2. /\ row' \in [Jobs -> RowSet]
        /\ row'[j].state = "queued" /\ row'[j].attached = row[j].attached
        /\ row'[j].begun = row[j].begun /\ leases' = leases
        /\ \A i \in Jobs \ {j} : row'[i] = row[i]
    BY <1>1, <1>2, <1>6, <2>1, Updates
  <2>3. TypeOK'
    BY <1>1, <1>3, <2>2 DEF TypeOK, RowSet, GwSet, agentVars
  <2>4. AgentSide
    BY <1>1, <2>3, AgentStays
  <2>5. RowHolds(j)'
    BY <1>1, <1>2, <2>2 DEF RowHolds, Closed, Ended
  <2> QED
    BY <1>1, <1>3, <2>1, <2>2, <2>4, <2>5, GatewayActs
<1> QED
  BY <1>4, <1>5, <1>6 DEF Requeue

\* A claim opens a job when no other is open.
LEMMA ClaimKeeps ==
  ASSUME OneGateway, SlotInv, NEW g \in Gateways, NEW j \in Jobs, Claim(g, j)
  PROVE  SlotInv'
<1> DEFINE c == [Idle EXCEPT !.at = "prepare", !.job = j]
<1>1. /\ TypeOK /\ RowHolds(j) /\ row \in [Jobs -> RowSet] /\ row[j] \in RowSet
      /\ row[j].state = "queued" /\ \A i \in Jobs : row[i].state \notin Open
      /\ Go(g, c) /\ UNCHANGED <<leases, agentVars, upload, crashes>>
  BY DEF SlotInv, Claim, TypeOK, RowSet
<1>2. c \in GwSet /\ c.at = "prepare" /\ c.job = j
  BY DEF Idle, GwSet, Steps, Records
<1> HIDE DEF c
<1>3. gw' \in [Gateways -> GwSet] /\ gw'[g] = c
  BY <1>1, <1>2, Moves
<1> DEFINE r == [row[j] EXCEPT !.state = "uploading"]
<1>4. /\ r \in RowSet /\ r.state = "uploading" /\ r.attached = row[j].attached
      /\ r.begun = row[j].begun
  BY <1>1 DEF RowSet, RowStates, Open
<1>5. row' = [row EXCEPT ![j] = r]
  BY <1>1 DEF Claim
<1> HIDE DEF r
<1>6. row' \in [Jobs -> RowSet] /\ row'[j] = r /\ \A i \in Jobs \ {j} : row'[i] = row[i]
  BY <1>1, <1>4, <1>5
<1>7. TypeOK'
  BY <1>1, <1>3, <1>6 DEF TypeOK, RowSet, GwSet, agentVars
<1>8. AgentSide
  BY <1>1, <1>7, AgentStays
<1>9. OneOpen'
  BY <1>1, <1>6 DEF OneOpen
<1>10. RowHolds(j)'
  BY <1>1, <1>4, <1>6 DEF RowHolds, Closed, Ended
<1>11. \A i \in Jobs \ {j} : RowHolds(i)'
  BY <1>1, <1>6, <1>8 DEF SlotInv, AgentSide, RowHolds, Closed
<1>12. GwHolds(g)'
  BY <1>1, <1>2, <1>3, <1>4, <1>6 DEF GwHolds, Stands, Unsent, RowHolds, Open
<1> QED
  BY <1>8, <1>9, <1>10, <1>11, <1>12 DEF SlotInv, AgentSide, OneGateway

LEMMA PrepareKeeps ==
  ASSUME OneGateway, SlotInv, NEW g \in Gateways, Prepare(g)
  PROVE  SlotInv'
<1>1. /\ TypeOK /\ GwHolds(g) /\ gw[g].at = "prepare"
      /\ UNCHANGED <<row, agentVars, upload, crashes>>
  BY DEF SlotInv, Prepare
<1> PICK j \in Jobs : j = gw[g].job
  BY <1>1 DEF GwHolds, Stands
<1>2. Unsent(j) /\ row[j].state \in Open /\ RowHolds(j)
  BY <1>1 DEF GwHolds, Stands, SlotInv
<1>3. "begin" \in Steps /\ "requeue" \in Steps
  BY DEF Steps
<1>4. CASE leases' = leases \cup {j} /\ Go(g, [gw[g] EXCEPT !.at = "begin"])
  <2>1. gw' \in [Gateways -> GwSet] /\ gw'[g].at = "begin" /\ gw'[g].job = j
    BY <1>1, <1>3, <1>4, Proceeds
  <2>2. TypeOK'
    BY <1>1, <1>4, <2>1 DEF TypeOK, GwSet, agentVars
  <2>3. AgentSide
    BY <1>1, <2>2, AgentStays
  <2>4. RowHolds(j)'
    BY <1>1, <1>2, <1>4, <2>3 DEF AgentSide, RowHolds, Closed
  <2>5. GwHolds(g)'
    BY <1>1, <1>2, <1>4, <2>1 DEF GwHolds, Stands, Unsent
  <2> QED
    BY <1>1, <1>4, <2>3, <2>4, <2>5, GatewayActs
<1>5. CASE Go(g, [gw[g] EXCEPT !.at = "requeue"]) /\ UNCHANGED leases
  <2>1. gw' \in [Gateways -> GwSet] /\ gw'[g].at = "requeue" /\ gw'[g].job = j
    BY <1>1, <1>3, <1>5, Proceeds
  <2>2. GwHolds(g)'
    BY <1>1, <1>2, <2>1 DEF GwHolds, Stands, Unsent
  <2> QED
    BY <1>1, <1>5, <2>1, <2>2, Looks
<1> QED
  BY <1>4, <1>5 DEF Prepare

LEMMA BeginKeeps ==
  ASSUME OneGateway, SlotInv, NEW g \in Gateways, Begin(g)
  PROVE  SlotInv'
<1>1. /\ TypeOK /\ GwHolds(g) /\ gw[g].at = "begin"
      /\ UNCHANGED <<leases, agentVars, upload, crashes>>
  BY DEF SlotInv, Begin
<1> PICK j \in Jobs : j = gw[g].job
  BY <1>1 DEF GwHolds, Stands
<1>2. /\ Unsent(j) /\ row[j].state \in Open /\ RowHolds(j) /\ upload[j] = None
      /\ j \in leases /\ row \in [Jobs -> RowSet] /\ row[j] \in RowSet
  BY <1>1, NotBegun DEF GwHolds, Stands, SlotInv, Unsent, TypeOK, RowSet
<1>3. "send" \in Steps /\ "requeue" \in Steps
  BY DEF Steps
<1>4. CASE row' = [row EXCEPT ![j].begun = TRUE] /\ Go(g, [gw[g] EXCEPT !.at = "send"])
  <2>1. gw' \in [Gateways -> GwSet] /\ gw'[g].at = "send" /\ gw'[g].job = j
    BY <1>1, <1>3, <1>4, Proceeds
  <2> DEFINE r == [row[j] EXCEPT !.begun = TRUE]
  <2>2. r \in RowSet /\ r.state = row[j].state /\ r.attached = row[j].attached /\ r.begun
    BY <1>2 DEF RowSet
  <2>3. row' = [row EXCEPT ![j] = r]
    BY <1>2, <1>4
  <2> HIDE DEF r
  <2>4. row' \in [Jobs -> RowSet] /\ row'[j] = r /\ \A i \in Jobs \ {j} : row'[i] = row[i]
    BY <1>2, <2>2, <2>3
  <2>5. TypeOK'
    BY <1>1, <2>1, <2>4 DEF TypeOK, RowSet, GwSet, agentVars
  <2>6. AgentSide
    BY <1>1, <2>5, AgentStays
  <2>7. RowHolds(j)'
    BY <1>1, <1>2, <2>2, <2>4, <2>6 DEF AgentSide, RowHolds, Closed, Unsent
  <2>8. GwHolds(g)'
    BY <1>1, <1>2, <2>1, <2>2, <2>4 DEF GwHolds, Stands
  <2> QED
    BY <1>1, <1>2, <2>2, <2>4, <2>6, <2>7, <2>8, GatewayActs
<1>5. CASE Go(g, [gw[g] EXCEPT !.at = "requeue"]) /\ UNCHANGED row
  <2>1. gw' \in [Gateways -> GwSet] /\ gw'[g].at = "requeue" /\ gw'[g].job = j
    BY <1>1, <1>3, <1>5, Proceeds
  <2>2. GwHolds(g)'
    BY <1>1, <1>2, <1>5, <2>1 DEF GwHolds, Stands, Unsent
  <2> QED
    BY <1>1, <1>5, <2>1, <2>2, Looks
<1> QED
  BY <1>4, <1>5 DEF Begin

\* A job is sent once: nobody knows it before.
LEMMA SendKeeps ==
  ASSUME OneGateway, SlotInv, NEW g \in Gateways, Send(g)
  PROVE  SlotInv'
<1>1. /\ TypeOK /\ GwHolds(g) /\ gw[g].at = "send"
      /\ Go(g, [gw[g] EXCEPT !.at = "wait"])
      /\ UNCHANGED <<row, leases, agentVars, crashes>>
  BY DEF SlotInv, Send
<1> PICK j \in Jobs : j = gw[g].job
  BY <1>1 DEF GwHolds, Stands
<1>2. /\ row[j].begun /\ row[j].state \in Open /\ RowHolds(j) /\ AgentHolds(j)
      /\ upload[j] = None /\ upload' = [upload EXCEPT ![j] = "sent"]
  BY <1>1 DEF GwHolds, Stands, SlotInv, Send
<1>3. "wait" \in Steps
  BY DEF Steps
<1>4. gw' \in [Gateways -> GwSet] /\ gw'[g].at = "wait" /\ gw'[g].job = j
  BY <1>1, <1>3, Proceeds
<1>5. /\ upload' \in [Jobs -> Uploads] /\ upload'[j] = "sent"
      /\ \A i \in Jobs \ {j} : upload'[i] = upload[i]
  BY <1>1, <1>2 DEF TypeOK, Uploads
<1>6. TypeOK' /\ \A i : Waits(i)' <=> Waits(i)
  BY <1>1, <1>4, <1>5 DEF TypeOK, GwSet, agentVars, Waits
<1>7. \A i \in Jobs \ {j} : Alike(i)
  BY <1>1, <1>5, <1>6 DEF Alike, agentVars
<1>8. \A i \in Jobs \ {j} : AgentHolds(i)' /\ (Dead(i) => Dead(i)')
  BY <1>1, <1>7, AlikeHolds DEF SlotInv, agentVars
<1>9. \A i \in Jobs \ {j} : RowHolds(i)'
  BY <1>1, <1>5, <1>8 DEF SlotInv, RowHolds, Closed
<1>10. AgentHolds(j)'
  BY <1>1, <1>2, <1>5, <1>6 DEF AgentHolds, agentVars, None
<1>11. RowHolds(j)'
  BY <1>1, <1>2, <1>5 DEF RowHolds, Closed, Open, Ended
<1>12. GwHolds(g)' /\ OneOpen'
  BY <1>1, <1>2, <1>4 DEF GwHolds, Stands, SlotInv, OneOpen
<1>13. ~agentUp' => queue' = <<>>
  BY <1>1 DEF SlotInv, agentVars
<1> QED
  BY <1>6, <1>8, <1>9, <1>10, <1>11, <1>12, <1>13 DEF SlotInv, OneGateway

\* The other steps only move the Gateway on.
LEMMA MovingKeeps ==
  ASSUME OneGateway, SlotInv, NEW g \in Gateways, Answered(g) \/ NoAnswer(g) \/ CallFails(g)
  PROVE  SlotInv'
<1>1. TypeOK /\ GwHolds(g) /\ UNCHANGED <<row, leases, agentVars, upload, crashes>>
  BY DEF SlotInv, Answered, NoAnswer, CallFails
<1>2. CASE Rest(g)
  BY <1>1, <1>2, Rests, Looks
<1>3. CASE Answered(g)
  <2>1. "attach" \in Steps
    BY DEF Steps
  <2>2. /\ gw[g].at = "wait" /\ gw' \in [Gateways -> GwSet]
        /\ gw'[g].at = "attach" /\ gw'[g].job = gw[g].job
    BY <1>1, <1>3, <2>1, Proceeds DEF Answered
  <2>3. GwHolds(g)'
    BY <1>1, <2>2 DEF GwHolds, Stands
  <2> QED
    BY <1>1, <2>2, <2>3, Looks
<1> QED
  BY <1>2, <1>3 DEF NoAnswer, CallFails

LEMMA CrashKeeps ==
  ASSUME OneGateway, SlotInv, NEW g \in Gateways, GatewayCrash(g)
  PROVE  SlotInv'
<1> DEFINE c == Off
<1>1. c \in GwSet /\ c.at = "off"
  BY DEF Off, Idle, GwSet, Steps, Records
<1>2. TypeOK /\ Go(g, c) /\ crashes' \in Nat /\ UNCHANGED <<row, leases, agentVars, upload>>
  BY DEF SlotInv, GatewayCrash, TypeOK
<1> HIDE DEF c
<1>3. gw' \in [Gateways -> GwSet] /\ gw'[g].at = "off"
  BY <1>1, <1>2, Moves
<1>4. TypeOK'
  BY <1>2, <1>3 DEF TypeOK, GwSet, agentVars
<1>5. AgentSide
  BY <1>2, <1>4, AgentStays
<1>6. OneOpen' /\ \A j \in Jobs : RowHolds(j)'
  BY <1>2, <1>5 DEF SlotInv, AgentSide, OneOpen, RowHolds, Closed
<1>7. GwHolds(g)'
  BY <1>3 DEF GwHolds, Stands
<1> QED
  BY <1>5, <1>6, <1>7 DEF SlotInv, AgentSide, OneGateway

\* The recovery at the start gives back only what no Gateway is about to send.
LEMMA RecoveryKeeps ==
  ASSUME OneGateway, SlotInv, NEW g \in Gateways, GatewayStart(g)
  PROVE  SlotInv'
<1>1. TypeOK /\ Rest(g) /\ UNCHANGED <<leases, agentVars, upload, crashes>>
  BY DEF SlotInv, GatewayStart
<1>2. gw' \in [Gateways -> GwSet] /\ GwHolds(g)'
  BY <1>1, Rests
<1>3. ASSUME NEW j \in Jobs
      PROVE  /\ row'[j] \in RowSet
             /\ row'[j] = row[j] \/ (~row[j].begun /\ row'[j].state \in {"cancelled", "queued"})
             /\ row'[j].attached = row[j].attached /\ row'[j].begun = row[j].begun
  <2>1. row[j] \in RowSet
    BY <1>1 DEF TypeOK, RowSet
  <2> DEFINE state == IF row[j].cancel THEN "cancelled" ELSE "queued"
             r == [row[j] EXCEPT !.state = state]
  <2>2. state \in {"cancelled", "queued"} /\ state \in RowStates
    BY DEF RowStates, Ended
  <2> HIDE DEF state
  <2>3. /\ r \in RowSet /\ r.state = state /\ r.attached = row[j].attached
        /\ r.begun = row[j].begun
    BY <2>1, <2>2 DEF RowSet
  <2>4. row'[j] = IF Unsent(j) THEN r ELSE row[j]
    BY DEF GatewayStart, state
  <2> HIDE DEF r
  <2> QED
    BY <2>1, <2>2, <2>3, <2>4 DEF Unsent
<1>4. row' \in [Jobs -> RowSet]
  BY <1>3 DEF GatewayStart
<1>5. TypeOK'
  BY <1>1, <1>2, <1>4 DEF TypeOK, RowSet, GwSet, agentVars
<1>6. AgentSide
  BY <1>1, <1>5, AgentStays
<1>7. OneOpen'
  BY <1>3 DEF SlotInv, OneOpen, Open
<1>8. ASSUME NEW j \in Jobs PROVE RowHolds(j)'
  <2>1. RowHolds(j) /\ (~row[j].begun => Dead(j)')
    BY <1>6, NotBegun DEF SlotInv, AgentSide
  <2> QED
    BY <1>1, <1>3, <1>6, <2>1 DEF AgentSide, RowHolds, Closed, Ended
<1> QED
  BY <1>2, <1>6, <1>7, <1>8 DEF SlotInv, AgentSide, OneGateway

-----------------------------------------------------------------------------
(* Users, and the clean-up of leases. *)

\* A step about job j of somebody else than the Gateway's worker, which holds no
\* other than an open job.
LEMMA UserActs ==
  ASSUME SlotInv, AgentSide, NEW j \in Jobs, UNCHANGED <<gw, upload>>,
         \A i \in Jobs \ {j} : row'[i] = row[i] /\ (i \in leases => i \in leases'),
         row'[j].state \in Open => row[j].state \in Open,
         row[j].state \in Open =>
           /\ row'[j].state = row[j].state /\ row'[j].attached = row[j].attached
           /\ row'[j].begun = row[j].begun /\ (j \in leases => j \in leases'),
         RowHolds(j)'
  PROVE  SlotInv'
<1>1. OneOpen'
  BY DEF SlotInv, OneOpen
<1>2. \A i \in Jobs \ {j} : RowHolds(i)'
  BY DEF SlotInv, AgentSide, RowHolds, Closed
<1>3. ASSUME NEW g \in Gateways PROVE GwHolds(g)'
  <2>1. GwHolds(g)
    BY DEF SlotInv
  <2> DEFINE k == gw[g].job
  <2>2. gw[g].at \notin {"off", "idle"} =>
          /\ k \in Jobs /\ row'[k].state = row[k].state /\ row'[k].attached = row[k].attached
          /\ row'[k].begun = row[k].begun /\ (k \in leases => k \in leases')
    BY <2>1 DEF GwHolds, Stands
  <2>3. gw[g].at \notin {"off", "idle"} => (Dead(k) => Dead(k)')
    BY <2>2 DEF AgentSide
  <2> QED
    BY <2>1, <2>2, <2>3 DEF GwHolds, Stands, Unsent
<1> QED
  BY <1>1, <1>2, <1>3 DEF SlotInv, AgentSide

LEMMA CreateKeeps ==
  ASSUME SlotInv, NEW j \in Jobs, Create(j)
  PROVE  SlotInv'
<1> DEFINE r == [row[j] EXCEPT !.state = "queued", !.files = TRUE]
<1>1. /\ TypeOK /\ RowHolds(j) /\ row \in [Jobs -> RowSet] /\ row[j] \in RowSet
      /\ row[j].state = "absent" /\ UNCHANGED <<leases, gw, agentVars, upload, crashes>>
  BY DEF SlotInv, Create, TypeOK, RowSet
<1>2. /\ r \in RowSet /\ r.state = "queued" /\ r.attached = row[j].attached
      /\ r.begun = row[j].begun
  BY <1>1 DEF RowSet, RowStates
<1>3. row' = [row EXCEPT ![j] = r]
  BY <1>1 DEF Create
<1> HIDE DEF r
<1>4. row' \in [Jobs -> RowSet] /\ row'[j] = r /\ \A i \in Jobs \ {j} : row'[i] = row[i]
  BY <1>1, <1>2, <1>3
<1>5. TypeOK'
  BY <1>1, <1>4 DEF TypeOK, RowSet, GwSet, agentVars
<1>6. AgentSide
  BY <1>1, <1>5, AgentStays
<1>7. RowHolds(j)' /\ row'[j].state \notin Open /\ row[j].state \notin Open
  BY <1>1, <1>2, <1>4 DEF RowHolds, Closed, Ended, Open
<1> QED
  BY <1>1, <1>4, <1>6, <1>7, UserActs

LEMMA SweepKeeps ==
  ASSUME SlotInv, NEW j \in Jobs, SweepLease(j)
  PROVE  SlotInv'
<1>1. /\ TypeOK /\ RowHolds(j) /\ row[j].state \in Ended /\ leases' = leases \ {j}
      /\ UNCHANGED <<row, gw, agentVars, upload, crashes>>
  BY DEF SlotInv, SweepLease
<1>2. TypeOK'
  BY <1>1 DEF TypeOK, agentVars
<1>3. AgentSide
  BY <1>1, <1>2, AgentStays
<1>4. RowHolds(j)' /\ row[j].state \notin Open
  BY <1>1, <1>3 DEF AgentSide, RowHolds, Closed, Ended, Open
<1> QED
  BY <1>1, <1>3, <1>4, UserActs

\* A job that still waits is closed at once: it was never begun.
LEMMA RequestKeeps ==
  ASSUME SlotInv, NEW j \in Jobs, RequestCancel(j)
  PROVE  SlotInv'
<1> DEFINE ends == row[j].state = "queued"
           state == IF ends THEN "cancelled" ELSE row[j].state
           files == row[j].files /\ ~ends
           r == [row[j] EXCEPT !.cancel = TRUE, !.state = state, !.files = files]
<1>1. /\ TypeOK /\ RowHolds(j) /\ row \in [Jobs -> RowSet] /\ row[j] \in RowSet
      /\ row[j].state \in {"queued"} \cup Open /\ UNCHANGED <<gw, upload, crashes>>
      /\ leases' = IF ends THEN leases \ {j} ELSE leases
  BY DEF SlotInv, RequestCancel, TypeOK, RowSet
<1>2. /\ r \in RowSet /\ r.state = state /\ r.attached = row[j].attached
      /\ r.begun = row[j].begun /\ state \in RowStates
  BY <1>1 DEF RowSet, RowStates, Ended
<1>3. row' = [row EXCEPT ![j] = r]
  BY <1>1 DEF RequestCancel
<1> HIDE DEF r
<1>4. row' \in [Jobs -> RowSet] /\ row'[j] = r /\ \A i \in Jobs \ {j} : row'[i] = row[i]
  BY <1>1, <1>2, <1>3
<1>5. leases' \subseteq Jobs /\ \A i \in Jobs \ {j} : i \in leases => i \in leases'
  BY <1>1 DEF TypeOK
<1>6. AgentSide
  <2>1. CASE agentUp /\ AgentCancel(j) /\ UNCHANGED fences
    <3>1. fences' \subseteq Jobs /\ gw' \in [Gateways -> GwSet]
      BY <1>1, <2>1 DEF TypeOK, GwSet
    <3> QED
      BY <1>1, <1>4, <1>5, <2>1, <3>1, CancelKeeps
  <2>2. CASE UNCHANGED agentVars
    <3>1. TypeOK'
      BY <1>1, <1>4, <1>5, <2>2 DEF TypeOK, RowSet, GwSet, agentVars
    <3> QED
      BY <1>1, <2>2, <3>1, AgentStays
  <2> QED
    BY <2>1, <2>2 DEF RequestCancel
<1>7. ends => Dead(j)'
  BY <1>1, <1>6, NotBegun DEF AgentSide, RowHolds
<1>8. RowHolds(j)'
  <2>1. CASE ends
    BY <1>1, <1>2, <1>4, <1>7, <2>1 DEF RowHolds, Closed, Ended
  <2>2. CASE ~ends
    <3>1. row'[j].state = row[j].state /\ row[j].state \in Open /\ leases' = leases
      BY <1>1, <1>2, <1>4, <2>2
    <3> QED
      BY <1>1, <1>2, <1>4, <3>1 DEF RowHolds, Closed, Ended, Open
  <2> QED
    BY <2>1, <2>2
<1>9. "queued" \notin Open /\ "cancelled" \notin Open
  BY DEF Open
<1> QED
  BY <1>1, <1>2, <1>4, <1>5, <1>6, <1>8, <1>9, UserActs

LEMMA DeletionKeeps ==
  ASSUME SlotInv, NEW j \in Jobs, Delete(j)
  PROVE  SlotInv'
<1> DEFINE r == [row[j] EXCEPT !.state = "deleted", !.files = FALSE]
<1>1. /\ TypeOK /\ RowHolds(j) /\ row \in [Jobs -> RowSet] /\ row[j] \in RowSet
      /\ row[j].state \in Ended /\ UNCHANGED <<gw, upload, crashes>>
  BY DEF SlotInv, Delete, TypeOK, RowSet
<1>2. /\ r \in RowSet /\ r.state = "deleted" /\ r.attached = row[j].attached
      /\ r.begun = row[j].begun
  BY <1>1 DEF RowSet, RowStates
<1>3. \/ row' = [row EXCEPT ![j] = r] /\ leases' = leases \ {j}
      \/ UNCHANGED <<row, leases>>
  BY <1>1 DEF Delete
<1> HIDE DEF r
<1>4. /\ row' \in [Jobs -> RowSet] /\ leases' \subseteq Jobs
      /\ \A i \in Jobs \ {j} : row'[i] = row[i] /\ (i \in leases => i \in leases')
      /\ row'[j].state \in Ended \cup {"deleted"}
      /\ row'[j].attached = row[j].attached /\ row'[j].begun = row[j].begun
  BY <1>1, <1>2, <1>3 DEF TypeOK
<1>5. AgentSide
  <2>1. CASE AgentCanDelete(j) /\ AgentDelete(j)
    BY <1>1, <1>4, <2>1, DeleteKeeps DEF AgentCanDelete
  <2>2. CASE UNCHANGED agentVars
    <3>1. TypeOK'
      BY <1>1, <1>4, <2>2 DEF TypeOK, RowSet, GwSet, agentVars
    <3> QED
      BY <1>1, <2>2, <3>1, AgentStays
  <2> QED
    BY <2>1, <2>2 DEF Delete
<1>6. Dead(j)'
  BY <1>1, <1>5 DEF AgentSide, RowHolds, Closed
<1>7. RowHolds(j)' /\ row'[j].state \notin Open /\ row[j].state \notin Open
  BY <1>1, <1>4, <1>6 DEF RowHolds, Closed, Ended, Open
<1> QED
  BY <1>1, <1>4, <1>5, <1>7, UserActs

-----------------------------------------------------------------------------
(* The invariant. *)

LEMMA SlotStarts == Init => SlotInv
<1> SUFFICES ASSUME Init PROVE SlotInv
  OBVIOUS
<1> DEFINE r == [state |-> "absent", attached |-> FALSE, begun |-> FALSE, cancel |-> FALSE,
                 files |-> FALSE]
<1>1. r \in RowSet /\ r.state = "absent" /\ ~r.attached /\ ~r.begun
  BY DEF RowSet, RowStates
<1>2. row = [j \in Jobs |-> r]
  BY DEF Init
<1> HIDE DEF r
<1> DEFINE c == Idle
<1>3. c \in GwSet /\ c.at = "idle" /\ gw = [g \in Gateways |-> c]
  BY DEF Init, Idle, GwSet, Steps, Records
<1> HIDE DEF c
<1>4. TypeOK
  <2>1. row \in [Jobs -> RowSet] /\ gw \in [Gateways -> GwSet]
    BY <1>1, <1>2, <1>3
  <2>2. queue \in Seq(Jobs)
    BY EmptySeq DEF Init
  <2> QED
    BY <2>1, <2>2 DEF Init, TypeOK, RowSet, GwSet, Records, Uploads
<1>5. \A j \in Jobs : row[j].state = "absent" /\ ~row[j].attached /\ ~row[j].begun
  BY <1>1, <1>2
<1>6. \A j \in Jobs : ~Waits(j) /\ worker # j
  BY NobodyWaits, NoneAssumption DEF Init
<1>7. \A j \in Jobs : AgentHolds(j)
  BY <1>6 DEF Init, AgentHolds
<1>8. OneOpen /\ \A j \in Jobs : RowHolds(j)
  BY <1>5 DEF Init, OneOpen, RowHolds, Closed, Open, Ended
<1>9. \A g \in Gateways : GwHolds(g)
  BY <1>3 DEF GwHolds, Stands
<1> QED
  BY <1>4, <1>7, <1>8, <1>9 DEF SlotInv, Init

LEMMA SlotKept ==
  ASSUME OneGateway, SlotInv, [Next]_vars
  PROVE  SlotInv'
<1>1. ASSUME NEW j \in Jobs, Create(j) \/ SweepLease(j) PROVE SlotInv'
  BY <1>1, CreateKeeps, SweepKeeps
<1>2. ASSUME NEW j \in Jobs, RequestCancel(j) \/ Delete(j) PROVE SlotInv'
  BY <1>2, RequestKeeps, DeletionKeeps
<1>3. ASSUME NEW g \in Gateways, Reconcile(g) PROVE SlotInv'
  BY <1>3, RefreshKeeps, CloseKeeps, MovingKeeps, LookupKeeps, AdoptKeeps, FenceKeeps,
     SettleKeeps, TellCancelKeeps, PollKeeps, WriteKeeps DEF Reconcile
<1>4. ASSUME NEW g \in Gateways, Dispatch(g) PROVE SlotInv'
  BY <1>4, ClaimKeeps, CloseKeeps, PrepareKeeps, BeginKeeps, RequeueKeeps, SendKeeps,
     MovingKeeps, AttachKeeps DEF Dispatch
<1>5. ASSUME NEW g \in Gateways, GatewayCrash(g) \/ GatewayStart(g) PROVE SlotInv'
  BY <1>5, CrashKeeps, RecoveryKeeps
<1>6. CASE Agent
  BY <1>6, AgentKeeps
<1>7. CASE UNCHANGED vars
  <2>1. \A i : Waits(i)' <=> Waits(i)
    BY <1>7 DEF vars, agentVars, Waits
  <2>2. \A j \in Jobs : AgentHolds(j)' /\ RowHolds(j)'
    BY <1>7, <2>1 DEF SlotInv, AgentHolds, RowHolds, Closed, Dead, vars, agentVars
  <2>3. \A g \in Gateways : GwHolds(g)'
    BY <1>7, <2>1 DEF SlotInv, GwHolds, Stands, Unsent, Dead, vars, agentVars
  <2> QED
    BY <1>7, <2>2, <2>3 DEF SlotInv, TypeOK, OneOpen, vars, agentVars
<1> QED
  BY <1>1, <1>2, <1>3, <1>4, <1>5, <1>6, <1>7 DEF Next

\* With one Gateway the invariant holds throughout, whatever is lost and however
\* often the Gateway and the agent restart.
THEOREM SlotHeld == ASSUME OneGateway PROVE Spec => []SlotInv
<1>1. Init => SlotInv
  BY SlotStarts
<1>2. SlotInv /\ [Next]_vars => SlotInv'
  BY SlotKept
<1> QED
  BY <1>1, <1>2, PTL DEF Spec

\* A job is closed, and its lease and files given up, only when no process of it is
\* left, for every number of jobs, every fault and any number of restarts.
THEOREM ReleasedAfterStop == ASSUME OneGateway PROVE Spec => []ReleaseAfterStop
<1>1. SlotInv => ReleaseAfterStop
  BY DEF SlotInv, RowHolds, Dead, ReleaseAfterStop
<1> QED
  BY <1>1, SlotHeld, PTL

\* The miner stays paused for as long as a training process lives.
THEOREM TrainingPauses == ASSUME OneGateway PROVE Spec => []PausedWhileTraining
<1>1. SlotInv => PausedWhileTraining
  <2> SUFFICES ASSUME SlotInv, NEW j \in procs PROVE j \in leases
    BY DEF PausedWhileTraining
  <2>1. j \in Jobs /\ AgentHolds(j) /\ RowHolds(j)
    BY DEF SlotInv, TypeOK
  <2>2. row[j].begun
    BY <2>1 DEF AgentHolds, RowHolds, None
  <2> QED
    BY <2>1, <2>2 DEF RowHolds, Dead
<1> QED
  BY <1>1, SlotHeld, PTL

-----------------------------------------------------------------------------
(* The hand-off implements TrainingSlot. *)

\* Of the row, the process and the history of a job this is all one sees.
PhaseOf(j) ==
  IF j \in procs THEN "running"
  ELSE IF Closed(j) THEN "closed" ELSE IF j \in ran THEN "stopped" ELSE "waiting"

LEMMA PhaseIs == phase = [j \in Jobs |-> PhaseOf(j)]
<1>1. \A j \in Jobs : phase[j] = PhaseOf(j)
  BY DEF phase, PhaseOf
<1> QED
  BY <1>1 DEF phase

LEMMA PhaseBecomes == phase' = [j \in Jobs |-> PhaseOf(j)']
<1>1. \A j \in Jobs : phase'[j] = PhaseOf(j)'
  BY DEF phase, PhaseOf
<1> QED
  BY <1>1 DEF phase

\* A step that changes the phase of one job at most.
LEMMA OneMoves ==
  ASSUME NEW k \in Jobs, \A j \in Jobs \ {k} : PhaseOf(j)' = PhaseOf(j)
  PROVE  phase' = [phase EXCEPT ![k] = PhaseOf(k)']
BY PhaseIs, PhaseBecomes

\* No process of a job that is not open, and so of one job at most.
LEMMA RunsOpen ==
  ASSUME SlotInv, NEW j \in Jobs, j \in procs \/ (j \in ran /\ ~Closed(j))
  PROVE  row[j].state \in Open /\ ~Closed(j)
<1>1. /\ AgentHolds(j) /\ RowHolds(j) /\ row[j].state \in RowStates
  BY DEF SlotInv, TypeOK
<1>2. j \in ran /\ ~Closed(j)
  BY <1>1 DEF AgentHolds, RowHolds, Dead
<1>3. row[j].begun
  BY <1>1, <1>2 DEF AgentHolds, RowHolds, None
<1> QED
  BY <1>1, <1>2, <1>3 DEF RowHolds, Closed, RowStates

\* The Gateway and the users close one job at a time and touch no process.
LEMMA ClosingImplements ==
  ASSUME SlotInv, SlotInv', UNCHANGED <<procs, ran>>, NEW k \in Jobs,
         \A j \in Jobs \ {k} : Closed(j)' <=> Closed(j),
         Closed(k) => Closed(k)'
  PROVE  [Slot!Next]_phase
<1>1. \A j \in Jobs \ {k} : PhaseOf(j)' = PhaseOf(j)
  BY DEF PhaseOf
<1>2. phase' = [phase EXCEPT ![k] = PhaseOf(k)'] /\ phase[k] = PhaseOf(k)
  BY <1>1, OneMoves, PhaseIs
<1>3. CASE Closed(k)' <=> Closed(k)
  <2>1. PhaseOf(k)' = PhaseOf(k)
    BY <1>3 DEF PhaseOf
  <2> QED
    BY <1>2, <2>1, PhaseIs
<1>4. CASE Closed(k)' /\ ~Closed(k)
  <2>1. k \notin procs
    BY <1>4 DEF SlotInv, RowHolds, Dead
  <2>2. PhaseOf(k)' = "closed" /\ PhaseOf(k) \in {"waiting", "stopped"}
    BY <1>4, <2>1 DEF PhaseOf
  <2>3. Slot!Close(k)
    BY <1>2, <2>2 DEF Slot!Close
  <2> QED
    BY <2>3 DEF Slot!Next
<1> QED
  BY <1>3, <1>4

\* At most one process is there to end.
LEMMA EndingImplements ==
  ASSUME SlotInv, UNCHANGED <<row, ran>>, procs' \subseteq procs
  PROVE  [Slot!Next]_phase
<1>1. \A j : Closed(j)' <=> Closed(j)
  BY DEF Closed
<1>2. CASE procs' = procs
  <2>1. \A j \in Jobs : PhaseOf(j)' = PhaseOf(j)
    BY <1>1, <1>2 DEF PhaseOf
  <2> QED
    BY <2>1, PhaseIs, PhaseBecomes
<1>3. CASE procs' # procs
  <2>1. PICK k \in procs : k \notin procs'
    BY <1>3
  <2>2. k \in Jobs /\ AgentHolds(k)
    BY <2>1 DEF SlotInv, TypeOK
  <2>3. \A j \in Jobs \ {k} : j \notin procs
    BY <2>1, <2>2, RunsOpen DEF SlotInv, OneOpen
  <2>4. \A j \in Jobs \ {k} : PhaseOf(j)' = PhaseOf(j)
    BY <1>1, <2>3 DEF PhaseOf
  <2>5. k \in ran /\ ~Closed(k)
    BY <2>1, <2>2, RunsOpen DEF AgentHolds
  <2>6. PhaseOf(k)' = "stopped" /\ PhaseOf(k) = "running"
    BY <1>1, <2>1, <2>5 DEF PhaseOf
  <2>7. phase' = [phase EXCEPT ![k] = "stopped"] /\ phase[k] = "running"
    BY <2>2, <2>4, <2>6, OneMoves, PhaseIs
  <2>8. Slot!Stop(k)
    BY <2>7 DEF Slot!Stop
  <2> QED
    BY <2>2, <2>8 DEF Slot!Next
<1> QED
  BY <1>2, <1>3

\* The worker starts a job that never ran, and no other is using the GPU.
LEMMA TakeImplements ==
  ASSUME SlotInv, Take
  PROVE  [Slot!Next]_phase
<1>1. TypeOK /\ worker = None /\ queue # <<>> /\ UNCHANGED row
  BY DEF SlotInv, Take
<1>2. PICK j \in Jobs : j = Head(queue) /\ Waits(j)
  BY <1>1, WaitsFirst DEF TypeOK, Take
<1>3. \A i : Closed(i)' <=> Closed(i)
  BY <1>1 DEF Closed
<1>4. CASE record[j] \in Over
  <2>1. UNCHANGED <<procs, ran>>
    BY <1>2, <1>4 DEF Take, Over
  <2> QED
    BY <1>1, <2>1, EndingImplements
<1>5. CASE record[j] \notin Over
  <2>1. procs' = procs \cup {j} /\ ran' = ran \cup {j}
    BY <1>2, <1>5 DEF Take, Over
  <2>2. AgentHolds(j) /\ RowHolds(j) /\ worker # j /\ row[j].state \in RowStates
    BY <1>1, NoneAssumption DEF SlotInv, TypeOK
  <2>3. j \notin ran /\ j \notin procs /\ ~Closed(j)
    BY <1>2, <1>5, <2>2 DEF AgentHolds, RowHolds, Dead
  <2>4. row[j].begun
    BY <1>2, <2>2 DEF AgentHolds, RowHolds, None
  <2>5. row[j].state \in Open
    BY <2>2, <2>3, <2>4 DEF RowHolds, Closed, RowStates
  <2>6. \A i \in Jobs \ {j} : i \notin procs /\ (i \in ran => Closed(i))
    BY <2>5, RunsOpen DEF SlotInv, OneOpen
  <2>7. \A i \in Jobs \ {j} : PhaseOf(i)' = PhaseOf(i) /\ PhaseOf(i) \in {"waiting", "closed"}
    BY <1>3, <2>1, <2>6 DEF PhaseOf
  <2>8. PhaseOf(j)' = "running" /\ PhaseOf(j) = "waiting"
    BY <2>1, <2>3 DEF PhaseOf
  <2>9. /\ phase' = [phase EXCEPT ![j] = "running"] /\ phase[j] = "waiting"
        /\ \A i \in Jobs \ {j} : phase[i] \in {"waiting", "closed"}
    BY <2>7, <2>8, OneMoves, PhaseIs
  <2>10. Slot!Start(j)
    BY <2>9 DEF Slot!Start
  <2> QED
    BY <2>10 DEF Slot!Next
<1> QED
  BY <1>4, <1>5

\* A row whose state is the same is as closed as before.
LEMMA StepImplements ==
  ASSUME OneGateway, SlotInv, SlotInv', [Next]_vars
  PROVE  [Slot!Next]_phase
<1>1. ASSUME NEW k \in Jobs, UNCHANGED <<procs, ran>>,
             \A j \in Jobs \ {k} : row'[j].state = row[j].state,
             \/ row'[k].state = row[k].state
             \/ row[k].state \notin Ended \cup {"deleted"}
             \/ row'[k].state \in Ended \cup {"deleted"}
      PROVE  [Slot!Next]_phase
  BY <1>1, ClosingImplements DEF Closed
<1>2. ASSUME NEW j \in Jobs, Create(j) PROVE [Slot!Next]_phase
  <2>1. UNCHANGED <<procs, ran>> /\ row[j].state = "absent"
    BY <1>2 DEF Create, agentVars
  <2>2. \A i \in Jobs \ {j} : row'[i].state = row[i].state
    BY <1>2 DEF Create, SlotInv, TypeOK
  <2> QED
    BY <1>1, <2>1, <2>2 DEF Ended
<1>3. ASSUME NEW j \in Jobs, RequestCancel(j) PROVE [Slot!Next]_phase
  <2>1. UNCHANGED <<procs, ran>> /\ row[j].state \notin Ended \cup {"deleted"}
    BY <1>3 DEF RequestCancel, AgentCancel, agentVars, Open, Ended
  <2>2. \A i \in Jobs \ {j} : row'[i].state = row[i].state
    BY <1>3 DEF RequestCancel, SlotInv, TypeOK
  <2> QED
    BY <1>1, <2>1, <2>2
<1>4. ASSUME NEW j \in Jobs, Delete(j) PROVE [Slot!Next]_phase
  <2>1. UNCHANGED <<procs, ran>>
    BY <1>4 DEF Delete, AgentDelete, agentVars
  <2>2. /\ \A i \in Jobs \ {j} : row'[i].state = row[i].state
        /\ row'[j].state \in Ended \cup {"deleted"}
    BY <1>4 DEF Delete, SlotInv, TypeOK
  <2> QED
    BY <1>1, <2>1, <2>2
<1>5. CASE UNCHANGED <<row, ran>> /\ procs' \subseteq procs
  BY <1>5, EndingImplements
<1>6. ASSUME NEW j \in Jobs, SweepLease(j) PROVE [Slot!Next]_phase
  BY <1>5, <1>6 DEF SweepLease, agentVars
<1>7. ASSUME NEW g \in Gateways, Reconcile(g) \/ Dispatch(g), row' # row
      PROVE  [Slot!Next]_phase
  <2>1. UNCHANGED <<procs, ran>>
    BY <1>7 DEF Reconcile, Dispatch, Refresh, Drop, CallFails, Lookup, Adopt, Fence, Settle,
       Close, TellCancel, Poll, Write, Claim, Unusable, Prepare, Begin, Requeue, Send,
       Answered, NoAnswer, Attach, AgentCancel, agentVars
  <2>2. \E k \in Jobs : /\ \A j \in Jobs \ {k} : row'[j].state = row[j].state
                        /\ row[k].state \notin Ended \cup {"deleted"}
    <3>1. ASSUME NEW j \in Jobs, Claim(g, j)
          PROVE  /\ \A i \in Jobs \ {j} : row'[i].state = row[i].state
                 /\ row[j].state = "queued"
      BY <3>1 DEF Claim, SlotInv, TypeOK
    <3>2. CASE \E j \in Jobs : Claim(g, j)
      BY <3>1, <3>2 DEF Ended
    <3>3. CASE ~\E j \in Jobs : Claim(g, j)
      <4>1. GwHolds(g) /\ gw[g].at \notin {"off", "idle"}
        BY <1>7, <3>3 DEF SlotInv, Reconcile, Dispatch, Refresh, Drop, CallFails, Lookup, Adopt,
           Fence, Settle, Close, TellCancel, Poll, Write, Unusable, Prepare, Begin, Requeue,
           Send, Answered, NoAnswer, Attach
      <4> PICK k \in Jobs : k = gw[g].job
        BY <4>1 DEF GwHolds, Stands
      <4>2. row[k].state \in Open
        BY <4>1 DEF GwHolds, Stands
      <4>3. \/ \E state : Update(k, state)
            \/ row' = Attached(k)
            \/ row' = [Attached(k) EXCEPT ![k].files = FALSE]
            \/ row' = [row EXCEPT ![k].begun = TRUE]
        BY <1>7, <3>3 DEF Reconcile, Dispatch, Refresh, Drop, CallFails, Lookup, Adopt,
           Fence, Settle, Close, TellCancel, Poll, Write, Unusable, Prepare, Begin, Requeue,
           Send, Answered, NoAnswer, Attach
      <4>4. \A j \in Jobs \ {k} : row'[j].state = row[j].state
        BY <4>3 DEF SlotInv, TypeOK, Update, Attached
      <4> QED
        BY <4>2, <4>4 DEF Open, Ended
    <3> QED
      BY <3>2, <3>3
  <2> QED
    BY <1>1, <2>1, <2>2
<1>8. ASSUME NEW g \in Gateways, Reconcile(g) \/ Dispatch(g), row' = row
      PROVE  [Slot!Next]_phase
  <2>1. UNCHANGED <<procs, ran>>
    BY <1>8 DEF Reconcile, Dispatch, Refresh, Drop, CallFails, Lookup, Adopt, Fence, Settle,
       Close, TellCancel, Poll, Write, Claim, Unusable, Prepare, Begin, Requeue, Send,
       Answered, NoAnswer, Attach, AgentCancel, agentVars
  <2> QED
    BY <1>5, <1>8, <2>1
<1>9. ASSUME NEW g \in Gateways, GatewayCrash(g) PROVE [Slot!Next]_phase
  BY <1>5, <1>9 DEF GatewayCrash, agentVars
<1>10. ASSUME NEW g \in Gateways, GatewayStart(g) PROVE [Slot!Next]_phase
  <2>1. UNCHANGED <<procs, ran>>
    BY <1>10 DEF GatewayStart, agentVars
  <2>2. \A j \in Jobs : row'[j] = IF Unsent(j) THEN [row[j] EXCEPT !.state =
                          IF row[j].cancel THEN "cancelled" ELSE "queued"] ELSE row[j]
    BY <1>10 DEF GatewayStart
  <2>3. CASE \E k \in Jobs : Unsent(k)
    <3>1. PICK k \in Jobs : Unsent(k)
      BY <2>3
    <3>2. row[k].state \in Open /\ row[k].state \notin Ended \cup {"deleted"}
      BY <3>1 DEF Unsent, Open, Ended
    <3>3. \A j \in Jobs \ {k} : ~Unsent(j)
      BY <3>2 DEF SlotInv, OneOpen, Unsent, Open
    <3> QED
      BY <1>1, <2>1, <2>2, <3>2, <3>3
  <2>4. CASE ~\E k \in Jobs : Unsent(k)
    <3>1. row' = row
      BY <1>10, <2>2, <2>4 DEF GatewayStart, SlotInv, TypeOK
    <3> QED
      BY <1>5, <2>1, <3>1
  <2> QED
    BY <2>3, <2>4
<1>11. CASE Take
  BY <1>11, TakeImplements
<1>12. CASE Agent /\ ~Take
  <2>1. UNCHANGED <<row, ran>> /\ procs' \subseteq procs
    BY <1>12 DEF Agent, Finish, AgentCrash, AgentClose, AgentDown, AgentStart, Accept,
       UploadBreaks, Enqueue, GiveUp, Persist, Expire, AgentDelete, OrphanEnds, agentVars
  <2> QED
    BY <1>5, <2>1
<1>13. CASE UNCHANGED vars
  BY <1>5, <1>13 DEF vars, agentVars
<1> QED
  BY <1>2, <1>3, <1>4, <1>6, <1>7, <1>8, <1>9, <1>10, <1>11, <1>12, <1>13 DEF Next

\* Every behaviour of the hand-off is one of TrainingSlot: a job trains at most once,
\* alone, and is closed only when it cannot train any more.
THEOREM ImplementsSlot == ASSUME OneGateway PROVE Spec => SlotSpec
<1>1. Init => Slot!Init
  BY PhaseIs DEF Init, PhaseOf, Closed, Ended, Slot!Init
<1>2. SlotInv /\ SlotInv' /\ [Next]_vars => [Slot!Next]_phase
  BY StepImplements
<1> QED
  BY <1>1, <1>2, SlotHeld, PTL DEF Spec, SlotSpec, Slot!Spec

-----------------------------------------------------------------------------
(* LoraCaption *)

CaptionRows ==
  [state : {"none", "queued", "running", "completed", "failed", "cancelled"},
   token : Tokens \cup {0}, last : Tokens \cup {0}, attempts : 0..MaxAttempts,
   cancel : BOOLEAN, due : BOOLEAN]
CaptionRuns ==
  [at : {"idle", "calling", "writing"}, caption : Captions \cup {NoRun.caption},
   token : Tokens \cup {0}, attempts : 0..MaxAttempts, connected : BOOLEAN,
   write : {"none", "completed", "queued", "failed"}]

\* A running row carries the token of its last claim; one that waits has an attempt left.
RowRight(r) ==
  /\ r \in CaptionRows
  /\ r.state = "running" => r.token # 0 /\ r.token = r.last
  /\ r.state # "running" => r.token = 0
  /\ r.state = "queued" => r.attempts < MaxAttempts

RunRight(w) ==
  /\ w \in CaptionRuns
  /\ w.at = "idle" <=> w.token = 0
  /\ w.write = "queued" => w.attempts < MaxAttempts

\* What the rows say of a run that still goes on.
RunKnown(g) ==
  \A c \in Captions : run[g].token # 0 /\ caption[c].last = run[g].token =>
    /\ run[g].caption = c
    /\ caption[c].state = "running" => caption[c].attempts = run[g].attempts

CaptionInv ==
  /\ DOMAIN caption = Captions /\ DOMAIN run = CaptionWorkers
  /\ caption \in [Captions -> CaptionRows] /\ run \in [CaptionWorkers -> CaptionRuns]
  /\ lock \in CaptionWorkers \cup {NoWorker} /\ entitled \in BOOLEAN
  /\ \A c \in Captions : RowRight(caption[c])
  /\ \A g \in CaptionWorkers : RunRight(run[g]) /\ RunKnown(g)
  /\ \A g, h \in CaptionWorkers : run[g].token = run[h].token /\ run[g].token # 0 => g = h

\* So many tokens that one is always free.
LEMMA TokenCount ==
  /\ Cardinality(Captions) \in Nat /\ Cardinality(CaptionWorkers) \in Nat
  /\ Tokens \subseteq Nat /\ 0 \notin Tokens /\ IsFiniteSet(Tokens)
  /\ Cardinality(Tokens) = Cardinality(Captions) + Cardinality(CaptionWorkers) + 1
<1>1. Cardinality(Captions) \in Nat /\ Cardinality(CaptionWorkers) \in Nat
  BY CaptionAssumption, FS_CardinalityType
<1>2. /\ IsFiniteSet(Tokens)
      /\ Cardinality(Tokens) = Cardinality(Captions) + Cardinality(CaptionWorkers) + 1
  <2> DEFINE n == Cardinality(Captions) + Cardinality(CaptionWorkers) + 1
  <2>1. n \in Nat \ {0} /\ Tokens = 1..n
    BY <1>1 DEF Tokens
  <2> HIDE DEF n
  <2>2. IsFiniteSet(1..n) /\ Cardinality(1..n) = n
    BY <2>1, FS_Interval
  <2> QED
    BY <2>1, <2>2 DEF n
<1> QED
  BY <1>1, <1>2 DEF Tokens

\* The values of a function are no more than its arguments.
LEMMA ImageCount ==
  ASSUME NEW S, IsFiniteSet(S), NEW f, f \in [S -> {f[x] : x \in S}]
  PROVE  /\ IsFiniteSet({f[x] : x \in S})
         /\ Cardinality({f[x] : x \in S}) <= Cardinality(S)
<1> DEFINE T == {f[x] : x \in S}
<1>1. f \in Surjection(S, T)
  <2>1. \A t \in T : \E s \in S : f[s] = t
    OBVIOUS
  <2> QED
    BY <2>1, Fun_IsSurj
<1> QED
  BY <1>1, FS_Surjection

LEMMA TokenIsNew ==
  ASSUME CaptionInv
  PROVE  /\ NewToken \in Tokens
         /\ \A c \in Captions : NewToken \notin {caption[c].token, caption[c].last}
         /\ \A g \in CaptionWorkers : NewToken # run[g].token
<1> DEFINE last == [c \in Captions |-> caption[c].last]
           held == [g \in CaptionWorkers |-> run[g].token]
           L == {last[c] : c \in Captions}
           H == {held[g] : g \in CaptionWorkers}
<1>1. IsFiniteSet(L) /\ Cardinality(L) <= Cardinality(Captions)
  <2>1. last \in [Captions -> L]
    OBVIOUS
  <2> HIDE DEF last
  <2> QED
    BY <2>1, ImageCount, CaptionAssumption
<1>2. IsFiniteSet(H) /\ Cardinality(H) <= Cardinality(CaptionWorkers)
  <2>1. held \in [CaptionWorkers -> H]
    OBVIOUS
  <2> HIDE DEF held
  <2> QED
    BY <2>1, ImageCount, CaptionAssumption
<1>3. \E t \in Tokens : t \notin L \cup H
  <2> HIDE DEF L, H
  <2>1. IsFiniteSet(L \cup H)
        /\ Cardinality(L \cup H) = Cardinality(L) + Cardinality(H) - Cardinality(L \cap H)
    BY <1>1, <1>2, FS_Union
  <2>2. /\ Cardinality(L) \in Nat /\ Cardinality(H) \in Nat /\ Cardinality(L \cap H) \in Nat
        /\ Cardinality(L \cup H) \in Nat
    <3>1. IsFiniteSet(L \cap H)
      BY <1>1, FS_Subset
    <3> QED
      BY <1>1, <1>2, <2>1, <3>1, FS_CardinalityType
  <2>3. Cardinality(L \cup H) < Cardinality(Tokens)
    BY <1>1, <1>2, <2>1, <2>2, TokenCount
  <2>4. CASE Tokens \subseteq L \cup H
    <3>1. Cardinality(Tokens) <= Cardinality(L \cup H)
      BY <2>1, <2>4, FS_Subset
    <3> QED
      BY <2>2, <2>3, <3>1, TokenCount
  <2> QED
    BY <2>4
<1>4. \A c \in Captions : caption[c].token \in {0, caption[c].last} /\ caption[c].last \in L
  BY DEF CaptionInv, RowRight
<1>5. \A g \in CaptionWorkers : run[g].token \in H
  OBVIOUS
<1>6. \E t \in Tokens : /\ \A c \in Captions : t \notin {caption[c].token, caption[c].last}
                        /\ \A g \in CaptionWorkers : t # run[g].token
  <2> HIDE DEF L, H
  <2> QED
    BY <1>3, <1>4, <1>5, TokenCount
<1> QED
  BY <1>6 DEF NewToken

LEMMA NothingRuns == NoRun \in CaptionRuns /\ NoRun.at = "idle" /\ NoRun.token = 0
                     /\ NoRun.write = "none" /\ Absent \in CaptionRows /\ Absent.state = "none"
                     /\ Absent.token = 0 /\ Absent.last = 0 /\ Absent.attempts = 0
BY CaptionAssumption DEF NoRun, CaptionRuns, CaptionRows, Absent

LEMMA CaptionsStart == CaptionInit => CaptionInv
<1> SUFFICES ASSUME CaptionInit PROVE CaptionInv
  OBVIOUS
<1>1. /\ \A c \in Captions : caption[c] = Absent
      /\ \A g \in CaptionWorkers : run[g] = NoRun
  BY DEF CaptionInit
<1>2. RowRight(Absent) /\ RunRight(NoRun)
  BY NothingRuns DEF RowRight, RunRight
<1> HIDE DEF Absent, NoRun
<1>3. \A g \in CaptionWorkers : RunKnown(g)
  BY <1>1, NothingRuns DEF RunKnown
<1> QED
  BY <1>1, <1>2, <1>3, NothingRuns DEF CaptionInit, CaptionInv, RowRight, RunRight

\* What is done to rows that no run is about to begin.
LEMMA RowsChange ==
  ASSUME CaptionInv, UNCHANGED <<lock, run>>, entitled' \in BOOLEAN,
         caption' = [c \in Captions |-> caption'[c]],
         \A c \in Captions :
           /\ RowRight(caption'[c]) /\ caption'[c].last \in {0, caption[c].last}
           /\ caption'[c].state = "running" => /\ caption[c].state = "running"
                                               /\ caption'[c].attempts = caption[c].attempts
  PROVE  CaptionInv'
<1>1. caption' \in [Captions -> CaptionRows] /\ DOMAIN caption' = Captions
  BY DEF RowRight
<1>2. \A g \in CaptionWorkers : RunKnown(g)'
  BY DEF CaptionInv, RunKnown
<1> QED
  BY <1>1, <1>2 DEF CaptionInv, RunRight, RowRight

\* What is done to one run that has no other token afterwards.
LEMMA RunChanges ==
  ASSUME CaptionInv, UNCHANGED <<caption, entitled>>, lock' \in CaptionWorkers \cup {NoWorker},
         NEW g \in CaptionWorkers, NEW w, run' = [run EXCEPT ![g] = w], RunRight(w),
         \/ w.token = 0
         \/ w.token = run[g].token /\ w.caption = run[g].caption /\ w.attempts = run[g].attempts
  PROVE  CaptionInv'
<1>1. run'[g] = w /\ \A h \in CaptionWorkers \ {g} : run'[h] = run[h]
  BY DEF CaptionInv
<1>2. run' \in [CaptionWorkers -> CaptionRuns] /\ DOMAIN run' = CaptionWorkers
  BY DEF CaptionInv, RunRight
<1>3. ASSUME NEW h \in CaptionWorkers PROVE RunRight(run'[h]) /\ RunKnown(h)'
  BY <1>1 DEF CaptionInv, RunKnown
<1>4. ASSUME NEW h \in CaptionWorkers, NEW k \in CaptionWorkers,
             run'[h].token = run'[k].token, run'[h].token # 0
      PROVE  h = k
  BY <1>1, <1>4 DEF CaptionInv
<1> QED
  BY <1>2, <1>3, <1>4 DEF CaptionInv, RunRight, RowRight

LEMMA RowIsRight ==
  ASSUME CaptionInv, NEW c \in Captions
  PROVE  RowRight(caption[c]) /\ caption[c] \in CaptionRows
BY DEF CaptionInv

LEMMA RunIsRight ==
  ASSUME CaptionInv, NEW g \in CaptionWorkers
  PROVE  RunRight(run[g]) /\ run[g] \in CaptionRuns /\ RunKnown(g)
BY DEF CaptionInv

LEMMA RowEta ==
  ASSUME NEW r \in CaptionRows
  PROVE  r = [state |-> r.state, token |-> r.token, last |-> r.last, attempts |-> r.attempts,
              cancel |-> r.cancel, due |-> r.due]
BY DEF CaptionRows

\* A row that is taken, and one that is tried again.
RowClaimed(r, n, a) ==
  [r EXCEPT !.state = "running", !.token = n, !.last = n, !.attempts = a]
RowQueued(r) ==
  [r EXCEPT !.state = "queued", !.cancel = FALSE, !.attempts = 0, !.due = TRUE]

LEMMA ClaimedRow ==
  ASSUME NEW r \in CaptionRows, NEW n \in Tokens, NEW a \in 0..MaxAttempts
  PROVE  /\ RowClaimed(r, n, a) \in CaptionRows /\ RowClaimed(r, n, a).state = "running"
         /\ RowClaimed(r, n, a).token = n /\ RowClaimed(r, n, a).last = n
         /\ RowClaimed(r, n, a).attempts = a
BY DEF CaptionRows, RowClaimed

LEMMA QueuedRow ==
  ASSUME NEW r \in CaptionRows
  PROVE  /\ RowQueued(r) \in CaptionRows /\ RowQueued(r).state = "queued"
         /\ RowQueued(r).token = r.token /\ RowQueued(r).last = r.last
         /\ RowQueued(r).attempts = 0
<1>1. 0 \in 0..MaxAttempts
  BY CaptionAssumption
<1> QED
  BY <1>1 DEF CaptionRows, RowQueued

LEMMA Recovers ==
  ASSUME CaptionInv, NEW c \in Captions
  PROVE  /\ RowRight(Recovered(c)) /\ Recovered(c).last = caption[c].last
         /\ Recovered(c).state # "running" /\ Recovered(c) \in CaptionRows
<1>1. RowRight(caption[c]) /\ caption[c] \in CaptionRows
  BY RowIsRight
<1>2. CASE caption[c].state # "running"
  BY <1>1, <1>2 DEF Recovered
<1>3. CASE caption[c].state = "running"
  <2> DEFINE s == IF caption[c].cancel THEN "cancelled"
                  ELSE IF caption[c].attempts >= MaxAttempts THEN "failed" ELSE "queued"
             r == [state |-> s, token |-> 0, last |-> caption[c].last,
                   attempts |-> caption[c].attempts, cancel |-> caption[c].cancel, due |-> TRUE]
  <2>1. Recovered(c) = r
    BY <1>1, <1>3, RowEta DEF Recovered, CaptionRows
  <2>2. /\ s \in {"cancelled", "failed", "queued"} /\ s # "running"
        /\ s = "queued" => caption[c].attempts < MaxAttempts
    BY <1>1, CaptionAssumption DEF CaptionRows
  <2>3. RowRight(r)
    <3> HIDE DEF s
    <3> QED
      BY <1>1, <2>2 DEF RowRight, CaptionRows
  <2> QED
    BY <2>1, <2>2, <2>3 DEF RowRight
<1> QED
  BY <1>2, <1>3

LEMMA EnqueueKeepsCaptions ==
  ASSUME CaptionInv, NEW chosen \in SUBSET Captions, EnqueueCaptions(chosen)
  PROVE  CaptionInv'
<1> DEFINE q == [Absent EXCEPT !.state = "queued"]
<1>1. /\ RowRight(q) /\ q.last = 0 /\ q.state = "queued"
  <2>1. ASSUME NEW r \in CaptionRows
        PROVE  /\ [r EXCEPT !.state = "queued"] \in CaptionRows
               /\ [r EXCEPT !.state = "queued"].state = "queued"
               /\ [r EXCEPT !.state = "queued"].token = r.token
               /\ [r EXCEPT !.state = "queued"].last = r.last
               /\ [r EXCEPT !.state = "queued"].attempts = r.attempts
    BY DEF CaptionRows
  <2> HIDE DEF Absent
  <2>2. q \in CaptionRows /\ q.state = "queued" /\ q.token = 0 /\ q.last = 0 /\ q.attempts = 0
    BY <2>1, NothingRuns
  <2> HIDE DEF q
  <2> QED
    BY <2>2, CaptionAssumption DEF RowRight
<1>2. PICK new \in SUBSET Captions :
        caption' = [c \in Captions |-> IF c \in new THEN q ELSE caption[c]]
  BY DEF EnqueueCaptions
<1> HIDE DEF q
<1>3. \A c \in Captions : caption'[c] = q \/ caption'[c] = caption[c]
  BY <1>2
<1>4. UNCHANGED <<lock, run>> /\ entitled' \in BOOLEAN
  BY DEF EnqueueCaptions, CaptionInv
<1> QED
  BY <1>1, <1>2, <1>3, <1>4, RowIsRight, RowsChange

LEMMA CancelKeepsCaptions ==
  ASSUME CaptionInv, NEW chosen \in SUBSET Captions, CancelAll(chosen)
  PROVE  CaptionInv'
<1>1. UNCHANGED <<lock, run>> /\ entitled' \in BOOLEAN
      /\ caption' = [c \in Captions |-> caption'[c]]
  BY DEF CancelAll, CaptionInv
<1>2. ASSUME NEW c \in Captions
      PROVE  /\ RowRight(caption'[c]) /\ caption'[c].last = caption[c].last
             /\ caption'[c].state = "running" => /\ caption[c].state = "running"
                                                 /\ caption'[c].attempts = caption[c].attempts
  <2>1. RowRight(caption[c]) /\ caption[c] \in CaptionRows
    BY RowIsRight
  <2>2. CASE ~(c \in chosen /\ Pending(c))
    BY <2>1, <2>2 DEF CancelAll
  <2>3. CASE c \in chosen /\ Pending(c)
    <3> DEFINE s == IF caption[c].state = "queued" THEN "cancelled" ELSE caption[c].state
               r == [state |-> s, token |-> caption[c].token, last |-> caption[c].last,
                     attempts |-> caption[c].attempts, cancel |-> TRUE, due |-> caption[c].due]
    <3>1. caption'[c] = r
      BY <2>1, <2>3, RowEta DEF CancelAll, CaptionRows
    <3>2. RowRight(r)
      BY <2>1 DEF RowRight, CaptionRows
    <3> QED
      BY <3>1, <3>2
  <2> QED
    BY <2>2, <2>3
<1> QED
  BY <1>1, <1>2, RowsChange

\* One row changes, and is not running afterwards.
LEMMA RowChanges ==
  ASSUME CaptionInv, UNCHANGED <<lock, run, entitled>>, NEW c \in Captions, NEW r,
         caption' = [caption EXCEPT ![c] = r], RowRight(r), r.state # "running",
         r.last \in {0, caption[c].last}
  PROVE  CaptionInv'
<1>1. caption' = [d \in Captions |-> caption'[d]] /\ entitled' \in BOOLEAN
      /\ caption'[c] = r /\ \A d \in Captions \ {c} : caption'[d] = caption[d]
  BY DEF CaptionInv
<1> QED
  BY <1>1, RowIsRight, RowsChange

LEMMA RetryKeepsCaptions ==
  ASSUME CaptionInv, NEW c \in Captions, RetryCaption(c)
  PROVE  CaptionInv'
<1> DEFINE r == RowQueued(caption[c])
<1>1. RowRight(caption[c]) /\ caption[c] \in CaptionRows
  BY RowIsRight
<1>2. caption' = [caption EXCEPT ![c] = r]
  BY DEF RetryCaption, RowQueued
<1>3. /\ r \in CaptionRows /\ r.state = "queued" /\ r.token = caption[c].token
      /\ r.last = caption[c].last /\ r.attempts = 0
  BY <1>1, QueuedRow
<1> HIDE DEF r
<1>4. RowRight(r)
  BY <1>1, <1>3, CaptionAssumption DEF RowRight, RetryCaption
<1> QED
  BY <1>2, <1>3, <1>4, RowChanges DEF RetryCaption

LEMMA DueKeepsCaptions ==
  ASSUME CaptionInv, NEW c \in Captions, Due(c)
  PROVE  CaptionInv'
<1> DEFINE r == [caption[c] EXCEPT !.due = TRUE]
<1>1. RowRight(caption[c]) /\ caption[c] \in CaptionRows
  BY RowIsRight
<1>2. caption' = [caption EXCEPT ![c] = r]
  BY DEF Due
<1>3. /\ r \in CaptionRows /\ r.state = "queued" /\ r.token = caption[c].token
      /\ r.last = caption[c].last /\ r.attempts = caption[c].attempts
  BY <1>1 DEF CaptionRows, Due
<1> HIDE DEF r
<1>4. RowRight(r)
  BY <1>1, <1>3 DEF RowRight, Due
<1> QED
  BY <1>2, <1>3, <1>4, RowChanges DEF Due

LEMMA CleanupKeepsCaptions ==
  ASSUME CaptionInv, NEW c \in Captions, Cleanup(c)
  PROVE  CaptionInv'
<1>1. RowRight(Absent) /\ Absent.state # "running" /\ Absent.last = 0
  BY NothingRuns DEF RowRight
<1> QED
  BY <1>1, RowChanges DEF Cleanup

LEMMA RecoverKeepsCaptions ==
  ASSUME CaptionInv, NEW g \in CaptionWorkers, Recover(g)
  PROVE  CaptionInv'
<1>1. caption' = [d \in Captions |-> Recovered(d)] /\ UNCHANGED <<lock, run>>
      /\ entitled' \in BOOLEAN
  BY DEF Recover, CaptionInv
<1>2. caption' = [d \in Captions |-> caption'[d]]
      /\ \A c \in Captions : caption'[c] = Recovered(c)
  BY <1>1
<1> QED
  BY <1>1, <1>2, Recovers, RowsChange

LEMMA EndsKeepsCaptions ==
  ASSUME CaptionInv, NEW g \in CaptionWorkers, NEW outcome, Ends(g, outcome)
  PROVE  CaptionInv'
<1>1. RunRight(run[g]) /\ run[g] \in CaptionRuns
  BY RunIsRight
<1> DEFINE e == CASE outcome = "completed" -> "completed"
                  [] outcome = "again" /\ run[g].attempts < MaxAttempts -> "queued"
                  [] OTHER -> "failed"
           w == [run[g] EXCEPT !.at = "writing", !.write = e]
<1>2. run' = [run EXCEPT ![g] = w]
  <2> HIDE DEF e
  <2>1. run' = [[run EXCEPT ![g].at = "writing"] EXCEPT ![g].write = e]
    BY DEF Ends, e
  <2> QED
    BY <2>1 DEF CaptionInv
<1>3. /\ w \in CaptionRuns /\ w.at = "writing" /\ w.write = e
      /\ w.token = run[g].token /\ w.caption = run[g].caption /\ w.attempts = run[g].attempts
      /\ e = "queued" => run[g].attempts < MaxAttempts
  <2>1. e \in {"completed", "queued", "failed"} /\ (e = "queued" => run[g].attempts < MaxAttempts)
    OBVIOUS
  <2> HIDE DEF e
  <2> QED
    BY <1>1, <2>1 DEF CaptionRuns
<1>4. UNCHANGED <<caption, entitled>> /\ lock' \in CaptionWorkers \cup {NoWorker}
  BY DEF Ends, CaptionInv
<1> HIDE DEF w, e
<1>5. RunRight(w)
  BY <1>1, <1>3 DEF RunRight, Ends
<1> QED
  BY <1>2, <1>3, <1>4, <1>5, RunChanges

LEMMA CrashKeepsCaptions ==
  ASSUME CaptionInv, NEW g \in CaptionWorkers, Crash(g)
  PROVE  CaptionInv'
<1>1. RunRight(NoRun) /\ NoRun.token = 0
  BY NothingRuns DEF RunRight
<1>2. lock' \in CaptionWorkers \cup {NoWorker}
  BY DEF Crash, CaptionInv
<1> QED
  BY <1>1, <1>2, RunChanges DEF Crash

LEMMA DisconnectKeepsCaptions ==
  ASSUME CaptionInv, NEW g \in CaptionWorkers, Disconnect(g)
  PROVE  CaptionInv'
<1> DEFINE w == [run[g] EXCEPT !.connected = FALSE]
<1>1. RunRight(run[g]) /\ run[g] \in CaptionRuns
  BY RunIsRight
<1>2. run' = [run EXCEPT ![g] = w]
  BY DEF Disconnect
<1>3. /\ w \in CaptionRuns /\ w.at = run[g].at /\ w.write = run[g].write
      /\ w.token = run[g].token /\ w.caption = run[g].caption /\ w.attempts = run[g].attempts
  BY <1>1 DEF CaptionRuns
<1>4. UNCHANGED <<caption, entitled>> /\ lock' \in CaptionWorkers \cup {NoWorker}
  BY DEF Disconnect
<1> HIDE DEF w
<1>5. RunRight(w)
  BY <1>1, <1>3 DEF RunRight
<1> QED
  BY <1>2, <1>3, <1>4, <1>5, RunChanges

\* The rows first, as if the run had only been ended: then the run.
LEMMA FinishKeepsCaptions ==
  ASSUME CaptionInv, NEW g \in CaptionWorkers, NEW stored, FinishCaption(g, stored)
  PROVE  CaptionInv'
<1> DEFINE c == run[g].caption
<1>1. RunRight(run[g]) /\ run[g] \in CaptionRuns
  BY RunIsRight
<1>2. /\ run' = [run EXCEPT ![g] = NoRun] /\ entitled' \in BOOLEAN
      /\ lock' \in CaptionWorkers \cup {NoWorker} /\ run[g].token # 0
  BY <1>1 DEF FinishCaption, CaptionInv, RunRight, CaptionRuns
<1>3. RunRight(NoRun) /\ NoRun.token = 0
  BY NothingRuns DEF RunRight
<1>4. /\ run'[g] = NoRun /\ \A h \in CaptionWorkers \ {g} : run'[h] = run[h]
      /\ DOMAIN run' = CaptionWorkers /\ run' \in [CaptionWorkers -> CaptionRuns]
  <2> HIDE DEF c
  <2> QED
    BY <1>2, <1>3 DEF CaptionInv, RunRight
<1>5. \A h, k \in CaptionWorkers : run'[h].token = run'[k].token /\ run'[h].token # 0 => h = k
  BY <1>3, <1>4 DEF CaptionInv
<1>6. /\ DOMAIN caption' = Captions
      /\ \A d \in Captions : /\ RowRight(caption'[d]) /\ caption'[d].last = caption[d].last
                             /\ caption'[d].state = "running" => caption'[d] = caption[d]
  <2>1. CASE ~(stored /\ caption[c].state = "running" /\ caption[c].token = run[g].token)
    <3>1. caption' = caption
      BY <2>1 DEF FinishCaption
    <3> QED
      BY <3>1 DEF CaptionInv
  <2>2. CASE stored /\ caption[c].state = "running" /\ caption[c].token = run[g].token
    <3>1. c \notin Captions => caption' = caption
      BY <2>2 DEF FinishCaption, CaptionInv
    <3>2. CASE c \in Captions
      <4>1. RowRight(caption[c]) /\ caption[c] \in CaptionRows
        BY <3>2, RowIsRight
      <4>2. run[g].token # 0 /\ caption[c].last = run[g].token
            /\ caption[c].attempts = run[g].attempts
        BY <1>2, <2>2, <3>2, <4>1, RunIsRight DEF RowRight, RunKnown
      <4> DEFINE s == IF caption[c].cancel THEN "cancelled" ELSE run[g].write
                 d0 == run[g].write # "queued"
                 r == [caption[c] EXCEPT !.token = 0, !.due = d0, !.state = s]
      <4>3. caption' = [caption EXCEPT ![c] = r]
        BY <2>2 DEF FinishCaption
      <4>4. /\ s \in {"none", "completed", "failed", "cancelled", "queued"}
            /\ s = "queued" => caption[c].attempts < MaxAttempts
        BY <1>1, <4>2 DEF RunRight, CaptionRuns
      <4>5. RowRight(r) /\ r.last = caption[c].last /\ r.state # "running"
        <5>1. d0 \in BOOLEAN
          OBVIOUS
        <5> HIDE DEF s, d0
        <5>2. /\ r \in CaptionRows /\ r.state = s /\ r.token = 0
              /\ r.last = caption[c].last /\ r.attempts = caption[c].attempts
          BY <4>1, <4>4, <5>1 DEF CaptionRows
        <5> HIDE DEF r
        <5> QED
          BY <4>4, <5>2 DEF RowRight
      <4> HIDE DEF r
      <4>6. caption'[c] = r /\ \A d \in Captions \ {c} : caption'[d] = caption[d]
        BY <3>2, <4>3 DEF CaptionInv
      <4> QED
        BY <4>3, <4>5, <4>6 DEF CaptionInv
    <3> QED
      BY <3>1, <3>2 DEF CaptionInv
  <2> QED
    BY <2>1, <2>2
<1>7. caption' \in [Captions -> CaptionRows]
  <2>1. caption' = [d \in Captions |-> caption'[d]]
    <3>1. CASE caption' = caption
      BY <3>1 DEF CaptionInv
    <3>2. CASE caption' # caption
      BY <1>6, <3>2 DEF FinishCaption, CaptionInv
    <3> QED
      BY <3>1, <3>2
  <2> QED
    BY <1>6, <2>1 DEF RowRight
<1>8. ASSUME NEW h \in CaptionWorkers PROVE RunKnown(h)'
  BY <1>3, <1>4, <1>6 DEF RunKnown, CaptionInv
<1>9. \A h \in CaptionWorkers : RunRight(run'[h])
  BY <1>3, <1>4 DEF CaptionInv
<1> QED
  BY <1>2, <1>4, <1>5, <1>6, <1>7, <1>8, <1>9 DEF CaptionInv, RunRight, RowRight

LEMMA ClaimKeepsCaptions ==
  ASSUME CaptionInv, NEW g \in CaptionWorkers, NEW c \in Captions, ClaimCaption(g, c)
  PROVE  CaptionInv'
<1> DEFINE left == [d \in Captions |-> Recovered(d)]
           n == NewToken
           a == left[c].attempts + 1
           r == RowClaimed(left[c], n, a)
           w == [at |-> "calling", caption |-> c, token |-> n, attempts |-> a,
                 connected |-> TRUE, write |-> "none"]
<1>1. /\ n \in Tokens /\ n # 0
      /\ \A d \in Captions : n \notin {caption[d].token, caption[d].last}
      /\ \A h \in CaptionWorkers : n # run[h].token
  BY TokenIsNew, TokenCount
<1>2. /\ left[c].state = "queued" /\ left[c] \in CaptionRows /\ RowRight(left[c])
      /\ \A d \in Captions : /\ RowRight(left[d]) /\ left[d].state # "running"
                             /\ left[d].last = caption[d].last
  BY Recovers DEF ClaimCaption
<1>3. a \in 1..MaxAttempts
  <2> HIDE DEF left
  <2> QED
    BY <1>2, CaptionAssumption DEF RowRight, CaptionRows
<1>4. caption' = [left EXCEPT ![c] = r]
  BY DEF ClaimCaption, RowClaimed
<1>5. run' = [run EXCEPT ![g] = w] /\ lock' = g /\ entitled' \in BOOLEAN
  BY DEF ClaimCaption, CaptionInv
<1>6. RunRight(w) /\ w.caption = c /\ w.token = n /\ w.attempts = a
  <2> HIDE DEF n, left, a
  <2> QED
    BY <1>1, <1>2, <1>3 DEF RunRight, CaptionRuns
<1>7. RowRight(r) /\ r.state = "running" /\ r.last = n /\ r.attempts = a
  <2> HIDE DEF n, left, a
  <2>1. /\ r \in CaptionRows /\ r.state = "running" /\ r.token = n
        /\ r.last = n /\ r.attempts = a
    <3>1. a \in 0..MaxAttempts
      BY <1>3, CaptionAssumption
    <3> QED
      BY <1>1, <1>2, <3>1, ClaimedRow
  <2> HIDE DEF r
  <2> QED
    BY <1>1, <2>1 DEF RowRight
<1>8. DOMAIN left = Captions
  OBVIOUS
<1> HIDE DEF left, n, r, w, a
<1>9. caption'[c] = r /\ \A d \in Captions \ {c} : caption'[d] = left[d]
  BY <1>4, <1>8
<1>10. run'[g] = w /\ \A h \in CaptionWorkers \ {g} : run'[h] = run[h]
  BY <1>5 DEF CaptionInv
<1>11. caption' \in [Captions -> CaptionRows] /\ \A d \in Captions : RowRight(caption'[d])
  <2>1. left \in [Captions -> CaptionRows]
    BY <1>2 DEF left, RowRight
  <2> QED
    BY <1>2, <1>4, <1>7, <1>9, <2>1 DEF RowRight
<1>12. run' \in [CaptionWorkers -> CaptionRuns] /\ \A h \in CaptionWorkers : RunRight(run'[h])
  BY <1>5, <1>6, <1>10 DEF CaptionInv, RunRight
<1>13. ASSUME NEW h \in CaptionWorkers PROVE RunKnown(h)'
  <2>1. CASE h = g
    BY <1>1, <1>2, <1>6, <1>7, <1>9, <1>10, <2>1 DEF RunKnown
  <2>2. CASE h # g
    BY <1>1, <1>2, <1>6, <1>7, <1>9, <1>10, <2>2 DEF RunKnown, CaptionInv
  <2> QED
    BY <2>1, <2>2
<1>14. \A h, k \in CaptionWorkers : run'[h].token = run'[k].token /\ run'[h].token # 0 => h = k
  BY <1>1, <1>6, <1>10 DEF CaptionInv
<1> QED
  BY <1>5, <1>11, <1>12, <1>13, <1>14 DEF CaptionInv

LEMMA CaptionStep ==
  ASSUME CaptionInv, [CaptionNext]_captionVars
  PROVE  CaptionInv'
<1>1. CASE UNCHANGED captionVars
  BY <1>1 DEF captionVars, CaptionInv, RowRight, RunRight, RunKnown
<1>2. CASE Revoke
  <2>1. UNCHANGED <<lock, run, caption>> /\ entitled' \in BOOLEAN
    BY <1>2 DEF Revoke, CaptionInv
  <2> QED
    BY <2>1 DEF CaptionInv, RowRight, RunRight, RunKnown
<1>3. CASE CaptionNext /\ ~Revoke
  BY <1>3, EnqueueKeepsCaptions, CancelKeepsCaptions, RetryKeepsCaptions,
     DueKeepsCaptions, CleanupKeepsCaptions, ClaimKeepsCaptions, RecoverKeepsCaptions,
     CrashKeepsCaptions, DisconnectKeepsCaptions, EndsKeepsCaptions, FinishKeepsCaptions
     DEF CaptionNext
<1> QED
  BY <1>1, <1>2, <1>3

\* The answer that is stored is the one of the run that holds the row's last token, and no
\* two runs hold the same.
LEMMA ClaimRuns ==
  ASSUME CaptionInv, NEW g \in CaptionWorkers, NEW c \in Captions, ClaimCaption(g, c)
  PROVE  /\ caption'[c].state = "running"
         /\ \A d \in Captions : d # c => caption'[d] = Recovered(d)
<1> DEFINE left == [d \in Captions |-> Recovered(d)]
           a == left[c].attempts + 1
           r == RowClaimed(left[c], NewToken, a)
<1>1. NewToken \in Tokens
  BY TokenIsNew
<1>2. left[c].state = "queued" /\ left[c] \in CaptionRows /\ RowRight(left[c])
  BY Recovers DEF ClaimCaption
<1>3. a \in 0..MaxAttempts
  <2> HIDE DEF left
  <2> QED
    BY <1>2, CaptionAssumption DEF RowRight, CaptionRows
<1>4. caption' = [left EXCEPT ![c] = r]
  BY DEF ClaimCaption, RowClaimed
<1>5. r.state = "running"
  <2> HIDE DEF left, a
  <2> QED
    BY <1>1, <1>2, <1>3, ClaimedRow
<1> HIDE DEF r
<1> QED
  BY <1>4, <1>5

LEMMA AnswerStep ==
  ASSUME CaptionInv, [CaptionNext]_captionVars, NEW c \in Captions,
         caption[c].state # "completed", caption'[c].state = "completed"
  PROVE  /\ ~caption[c].cancel
         /\ \E g \in CaptionWorkers : run[g].caption = c /\ run[g].token = caption[c].last
                                       /\ run'[g] # run[g]
<1>1. RowRight(caption[c]) /\ caption[c] \in CaptionRows
  BY RowIsRight
<1>2. PICK g \in CaptionWorkers : \E stored \in BOOLEAN : FinishCaption(g, stored)
  <2>a. Recovered(c).state # "completed"
    <3>1. CASE caption[c].state # "running"
      BY <3>1 DEF Recovered
    <3>2. CASE caption[c].state = "running"
      BY <1>1, <3>2 DEF Recovered, CaptionRows
    <3> QED
      BY <3>1, <3>2
  <2>1. caption' # caption
    OBVIOUS
  <2>2. ASSUME NEW chosen \in SUBSET Captions, EnqueueCaptions(chosen) PROVE FALSE
    BY <2>2 DEF EnqueueCaptions, Absent
  <2>3. ASSUME NEW chosen \in SUBSET Captions, CancelAll(chosen) PROVE FALSE
    BY <1>1, <2>3, RowEta DEF CancelAll, CaptionRows
  <2>4. ASSUME NEW d \in Captions, RetryCaption(d) \/ Due(d) \/ Cleanup(d) PROVE FALSE
    <3>1. PICK r : caption' = [caption EXCEPT ![d] = r] /\ r.state \in {"queued", "none"}
      <4>1. RowRight(caption[d]) /\ caption[d] \in CaptionRows
        BY RowIsRight
      <4>2. CASE RetryCaption(d)
        <5> DEFINE r == RowQueued(caption[d])
        <5>1. r.state = "queued"
          BY <4>1, QueuedRow
        <5>2. caption' = [caption EXCEPT ![d] = r]
          BY <4>2 DEF RetryCaption, RowQueued
        <5> QED
          BY <5>1, <5>2
      <4>3. CASE Due(d)
        <5> DEFINE r == [caption[d] EXCEPT !.due = TRUE]
        <5>1. r.state = "queued"
          BY <4>1, <4>3 DEF CaptionRows, Due
        <5>2. caption' = [caption EXCEPT ![d] = r]
          BY <4>3 DEF Due
        <5> QED
          BY <5>1, <5>2
      <4>4. CASE Cleanup(d)
        BY <4>4, NothingRuns DEF Cleanup
      <4> QED
        BY <2>4, <4>2, <4>3, <4>4
    <3> QED
      BY <3>1 DEF CaptionInv
  <2>5. ASSUME NEW h \in CaptionWorkers, NEW d \in Captions, ClaimCaption(h, d) PROVE FALSE
    <3>1. caption'[c].state = "running" \/ caption'[c] = Recovered(c)
      BY <2>5, ClaimRuns
    <3> QED
      BY <2>a, <3>1
  <2>6. ASSUME NEW h \in CaptionWorkers, Recover(h) PROVE FALSE
    BY <2>a, <2>6 DEF Recover
  <2> QED
    BY <2>1, <2>2, <2>3, <2>4, <2>5, <2>6
       DEF CaptionNext, captionVars, Crash, Disconnect, Ends, Revoke
<1>3. RunRight(run[g]) /\ run'[g] = NoRun /\ run[g].at = "writing"
  BY <1>2, RunIsRight DEF FinishCaption, CaptionInv
<1>4. run'[g] # run[g]
  BY <1>3, NothingRuns
<1>5. run[g].caption = c /\ caption[c].state = "running" /\ caption[c].token = run[g].token
      /\ ~caption[c].cancel
  BY <1>1, <1>2 DEF FinishCaption, CaptionInv, CaptionRows
<1> QED
  BY <1>1, <1>4, <1>5 DEF RowRight

\* A caption is stored only by the run that claimed it last, and never after it was
\* cancelled, for any images, workers and attempts, however many sessions break.
THEOREM AnswersCurrent == CaptionSpec => AnswerIsCurrent
<1>1. CaptionInit => CaptionInv
  BY CaptionsStart
<1>2. CaptionInv /\ [CaptionNext]_captionVars => CaptionInv'
  BY CaptionStep
<1>3. CaptionInv /\ [CaptionNext]_captionVars =>
        [\A c \in Captions : caption[c].state # "completed" /\ caption'[c].state = "completed" =>
           /\ ~caption[c].cancel
           /\ \E g \in CaptionWorkers : run[g].caption = c /\ run[g].token = caption[c].last
                                         /\ run'[g] # run[g]]_captionVars
  BY AnswerStep
<1> QED
  BY <1>1, <1>2, <1>3, PTL DEF CaptionSpec, AnswerIsCurrent
=============================================================================
