--------------------------- MODULE SharingProofs ---------------------------
(***************************************************************************)
(* What the components that many requests share promise, for any number of *)
(* jobs, prompts, users, datasets and editors: the quota's counters say    *)
(* what is charged, ComfyUI's queue keeps to its limits, a control reaches *)
(* only its user's prompts, a photo that is listed is not collected, the   *)
(* copy of ComfyUI's catalog follows it, a copied file is not lost, and    *)
(* uploads stay within the quotas of ComfyUI's input directory.            *)
(***************************************************************************)
EXTENDS GenerationQuota, ComfyControl, LoraDatasets, ComfySchema, ContentArchive,
        ComfyInputs, FiniteSetTheorems, TLAPS

-----------------------------------------------------------------------------
(* GenerationQuota *)

Charges == [state : {"none", "waiting", "charged", "spent", "free"}, day : Days \cup {0},
            bound : BOOLEAN, kept : BOOLEAN]
Held == {"charged", "spent"}
OutOn(k, d) == {j \in Out(k) : charge[j].day = d}

QuotaTyped ==
  /\ charge \in [QuotaJobs -> Charges]
  /\ total \in [Kinds -> Nat] /\ daily \in [Days -> [Kinds -> Nat]]
  /\ today \in Days

\* Charges belong to days that have been, and days to come have their counters.
DaysTold ==
  /\ \A j \in QuotaJobs : charge[j].state \in Held => charge[j].day \in 1..today
  /\ present => \A d \in Days : d >= today => daily[d] # Purged

\* CountersMatch, with a name for what is out on a day.
Counted ==
  present => \A k \in Kinds :
    /\ total[k] = Cardinality(Out(k))
    /\ \A d \in Days : daily[d] # Purged => daily[d][k] = Cardinality(OutOn(k, d))

QuotaInv == QuotaTyped /\ DaysTold /\ Counted

LEMMA CountersFollow == Counted => CountersMatch
BY DEF Counted, CountersMatch, OutOn

LEMMA MostIsNatural == Most \in Nat
BY QuotaAssumption, FS_CardinalityType DEF Most

\* A set of jobs is no larger than all of them, so no counter looks like a purged day.
LEMMA SubsetCounted ==
  ASSUME NEW S \in SUBSET QuotaJobs
  PROVE  IsFiniteSet(S) /\ Cardinality(S) \in Nat /\ Cardinality(S) <= Most
BY QuotaAssumption, FS_Subset, FS_CardinalityType DEF Most

LEMMA DisjointUnion ==
  ASSUME NEW S, NEW T, IsFiniteSet(S), IsFiniteSet(T), S \cap T = {}
  PROVE  Cardinality(S \cup T) = Cardinality(S) + Cardinality(T)
<1>1. Cardinality(S) \in Nat /\ Cardinality(T) \in Nat
  BY FS_CardinalityType
<1>2. Cardinality(S \cap T) = 0
  BY FS_EmptySet
<1>3. Cardinality(S \cup T) = Cardinality(S) + Cardinality(T) - Cardinality(S \cap T)
  BY FS_Union
<1> QED
  BY <1>1, <1>2, <1>3

LEMMA OneMore ==
  ASSUME NEW S, IsFiniteSet(S), NEW x
  PROVE  /\ IsFiniteSet(S \cup {x}) /\ Cardinality(S) \in Nat
         /\ Cardinality(S \cup {x}) <= Cardinality(S) + 1
BY FS_AddElement, FS_CardinalityType

LEMMA OutIsJobs ==
  ASSUME NEW k, NEW d
  PROVE  Out(k) \in SUBSET QuotaJobs /\ OutOn(k, d) \in SUBSET QuotaJobs
BY DEF Out, OutOn

LEMMA QuotaStarts == QuotaInit => QuotaInv
<1> SUFFICES ASSUME QuotaInit PROVE QuotaInv
  OBVIOUS
<1>1. 1 \in Days
  BY QuotaAssumption DEF Days
<1>2. QuotaTyped
  BY <1>1 DEF QuotaInit, QuotaTyped, NoCharge, Charges
<1>3. \A k, d : Out(k) = {} /\ OutOn(k, d) = {}
  BY DEF QuotaInit, NoCharge, Out, OutOn
<1>4. Purged["image"] = Most + 1
  BY DEF Purged, Kinds
<1>5. \A d \in Days : daily[d]["image"] = 0
  BY DEF QuotaInit, Kinds
<1>6. DaysTold
  BY <1>4, <1>5, MostIsNatural DEF QuotaInit, DaysTold, NoCharge, Held
<1>7. Counted
  BY <1>3, FS_EmptySet DEF Counted, QuotaInit
<1> QED
  BY <1>2, <1>6, <1>7 DEF QuotaInv

\* A step that keeps what is out, and the counters of the days it does not purge.
LEMMA OutStands ==
  ASSUME QuotaInv, charge' \in [QuotaJobs -> Charges],
         \A j \in QuotaJobs : /\ charge'[j].day = charge[j].day
                              /\ charge'[j].state \in Held <=> charge[j].state \in Held,
         UNCHANGED <<total, daily, today, present>>
  PROVE  QuotaInv'
<1>1. \A k : Out(k)' = Out(k)
  BY DEF Out, Held
<1>2. \A k, d : OutOn(k, d)' = OutOn(k, d)
  BY <1>1 DEF Out, OutOn
<1>3. QuotaTyped' /\ DaysTold'
  BY DEF QuotaInv, QuotaTyped, DaysTold, Held
<1>4. Counted'
  BY <1>1, <1>2 DEF QuotaInv, Counted
<1> QED
  BY <1>3, <1>4 DEF QuotaInv

LEMMA CountersTyped ==
  ASSUME QuotaInv, present, NEW k \in Kinds, NEW d \in Days
  PROVE  /\ total[k] = Cardinality(Out(k))
         /\ daily[d] # Purged => daily[d][k] = Cardinality(OutOn(k, d))
BY DEF QuotaInv, Counted

\* Jobs that are not out yet are charged to today, one by one or as a batch.
LEMMA ChargeKeeps ==
  ASSUME QuotaInv, NEW jobs \in SUBSET QuotaJobs, NEW k \in Kinds, Charge(jobs, k),
         \A j \in jobs : charge[j].state \notin Held /\ Kind(j) = k
  PROVE  QuotaInv'
<1> DEFINE n == Cardinality(jobs)
<1>1. present /\ UNCHANGED <<today, present>> /\ today \in Days /\ daily[today] # Purged
  <2>1. present /\ UNCHANGED <<today, present>>
    BY DEF Charge, HasRoom
  <2>2. today \in Days /\ today >= today
    BY QuotaAssumption DEF QuotaInv, QuotaTyped, Days
  <2> QED
    BY <2>1, <2>2 DEF QuotaInv, DaysTold
<1>2. n \in Nat /\ IsFiniteSet(jobs)
  BY SubsetCounted
<1>3. \A j \in QuotaJobs :
        charge'[j] = IF j \in jobs THEN [charge[j] EXCEPT !.state = "charged", !.day = today]
                     ELSE charge[j]
  BY DEF Charge
<1>4. charge' \in [QuotaJobs -> Charges]
  BY <1>1 DEF Charge, QuotaInv, QuotaTyped, Charges
<1>5. \A j \in jobs : charge'[j].state = "charged" /\ charge'[j].day = today
  BY <1>3 DEF QuotaInv, QuotaTyped, Charges
<1>6. \A j \in QuotaJobs \ jobs : charge'[j] = charge[j]
  BY <1>3
<1>7. \A kind \in Kinds : Out(kind)' = IF kind = k THEN Out(k) \cup jobs ELSE Out(kind)
  BY <1>5, <1>6 DEF Out, Held
<1>8. \A kind \in Kinds, d \in Days :
        OutOn(kind, d)' = IF kind = k /\ d = today THEN OutOn(k, today) \cup jobs
                          ELSE OutOn(kind, d)
  BY <1>5, <1>6, <1>7 DEF Out, OutOn, Held
<1>9. Out(k) \cap jobs = {} /\ OutOn(k, today) \cap jobs = {}
  BY DEF Out, OutOn, Held
<1>10. /\ Cardinality(Out(k) \cup jobs) = Cardinality(Out(k)) + n
       /\ Cardinality(OutOn(k, today) \cup jobs) = Cardinality(OutOn(k, today)) + n
  <2>1. /\ IsFiniteSet(Out(k)) /\ Cardinality(Out(k)) \in Nat
        /\ IsFiniteSet(OutOn(k, today)) /\ Cardinality(OutOn(k, today)) \in Nat
    BY SubsetCounted, OutIsJobs
  <2> QED
    BY <1>2, <1>9, <2>1, DisjointUnion
<1>11. /\ total' = [total EXCEPT ![k] = total[k] + n]
       /\ daily' = [daily EXCEPT ![today][k] = daily[today][k] + n]
  BY DEF Charge
<1>12. total \in [Kinds -> Nat] /\ daily \in [Days -> [Kinds -> Nat]]
  BY DEF QuotaInv, QuotaTyped
<1>13. /\ \A kind \in Kinds : total'[kind] = IF kind = k THEN total[k] + n ELSE total[kind]
       /\ \A d \in Days, kind \in Kinds : daily'[d][kind] =
            IF d = today /\ kind = k THEN daily[today][k] + n ELSE daily[d][kind]
       /\ \A d \in Days : d # today => daily'[d] = daily[d]
       /\ total' \in [Kinds -> Nat] /\ daily' \in [Days -> [Kinds -> Nat]]
  <2> HIDE DEF n
  <2> QED
    BY <1>1, <1>2, <1>11, <1>12
<1>14. QuotaTyped'
  BY <1>1, <1>4, <1>13 DEF QuotaTyped
<1>15. daily'[today] # Purged
  <2>1. daily'[today][k] = Cardinality(OutOn(k, today) \cup jobs)
    BY <1>1, <1>10, <1>13, CountersTyped
  <2>2. OutOn(k, today) \cup jobs \in SUBSET QuotaJobs
    BY OutIsJobs
  <2>3. daily'[today][k] <= Most
    BY <2>1, <2>2, SubsetCounted
  <2>4. Purged[k] = Most + 1
    BY DEF Purged
  <2> QED
    BY <2>3, <2>4, <1>1, <1>13, MostIsNatural
<1>16. DaysTold'
  <2>1. \A j \in QuotaJobs : charge'[j].state \in Held => charge'[j].day \in 1..today
    BY <1>1, <1>5, <1>6 DEF QuotaInv, DaysTold, Days
  <2>2. \A d \in Days : d >= today => daily'[d] # Purged
    BY <1>1, <1>13, <1>15 DEF QuotaInv, DaysTold
  <2> QED
    BY <1>1, <2>1, <2>2 DEF DaysTold
<1>17. Counted'
  <2>1. ASSUME NEW kind \in Kinds
        PROVE  total'[kind] = Cardinality(Out(kind)')
    BY <1>1, <1>7, <1>10, <1>13, CountersTyped
  <2>2. ASSUME NEW kind \in Kinds, NEW d \in Days, daily'[d] # Purged
        PROVE  daily'[d][kind] = Cardinality(OutOn(kind, d)')
    <3>1. CASE d = today
      BY <1>1, <1>8, <1>10, <1>13, CountersTyped, <3>1
    <3>2. CASE d # today
      BY <1>1, <1>8, <1>13, CountersTyped, <2>2, <3>2
    <3> QED
      BY <3>1, <3>2
  <2> QED
    BY <2>1, <2>2 DEF Counted
<1> QED
  BY <1>14, <1>16, <1>17 DEF QuotaInv

\* A reservation goes back to the day it was made on, if that day has its counters still.
LEMMA ReleaseKeeps ==
  ASSUME QuotaInv, NEW j \in QuotaJobs, ReleaseForJob(j)
  PROVE  QuotaInv'
<1> DEFINE k == Kind(j)
           d == charge[j].day
<1>1. /\ k \in Kinds /\ charge[j].state = "charged" /\ charge[j].day \in 1..today
      /\ today \in Days
  BY DEF ReleaseForJob, Kind, Kinds, QuotaInv, QuotaTyped, DaysTold, Held
<1>2. d \in Days
  BY <1>1, QuotaAssumption DEF Days
<1>3. UNCHANGED <<today, present>>
  BY DEF ReleaseForJob
<1>4. charge \in [QuotaJobs -> Charges] /\ charge' = [charge EXCEPT ![j].state = "free"]
  BY DEF ReleaseForJob, QuotaInv, QuotaTyped
<1>5. /\ charge' \in [QuotaJobs -> Charges] /\ charge'[j].state = "free"
      /\ \A i \in QuotaJobs : i # j => charge'[i] = charge[i]
  BY <1>4 DEF Charges
<1>6. total \in [Kinds -> Nat] /\ daily \in [Days -> [Kinds -> Nat]]
  BY DEF QuotaInv, QuotaTyped
<1>7. \A kind \in Kinds : Out(kind)' = IF kind = k THEN Out(k) \ {j} ELSE Out(kind)
  BY <1>5 DEF Out
<1>8. \A kind \in Kinds, day \in Days :
        OutOn(kind, day)' = IF kind = k /\ day = d THEN OutOn(k, d) \ {j}
                            ELSE OutOn(kind, day)
  BY <1>5, <1>7 DEF Out, OutOn
<1>9. j \in Out(k) /\ j \in OutOn(k, d)
  BY <1>1 DEF Out, OutOn
<1>10. /\ Cardinality(Out(k) \ {j}) = Less(Cardinality(Out(k)))
       /\ Cardinality(OutOn(k, d) \ {j}) = Less(Cardinality(OutOn(k, d)))
  <2>1. /\ IsFiniteSet(Out(k)) /\ Cardinality(Out(k)) \in Nat
        /\ IsFiniteSet(OutOn(k, d)) /\ Cardinality(OutOn(k, d)) \in Nat
    BY SubsetCounted, OutIsJobs
  <2>2. Cardinality(Out(k)) # 0 /\ Cardinality(OutOn(k, d)) # 0
    BY <1>9, <2>1, FS_EmptySet
  <2> QED
    BY <1>9, <2>1, <2>2, FS_RemoveElement DEF Less
<1>11. /\ total' = IF present THEN [total EXCEPT ![k] = Less(total[k])] ELSE total
       /\ daily' = IF present /\ daily[d] # Purged
                   THEN [daily EXCEPT ![d][k] = Less(daily[d][k])] ELSE daily
  BY DEF ReleaseForJob, RefundDay
<1>12. \A n \in Nat : Less(n) \in Nat /\ Less(n) <= n
  BY DEF Less
<1>13. /\ total' \in [Kinds -> Nat] /\ daily' \in [Days -> [Kinds -> Nat]]
       /\ present => \A kind \in Kinds :
            total'[kind] = IF kind = k THEN Less(total[k]) ELSE total[kind]
       /\ \A day \in Days, kind \in Kinds : present /\ daily[d] # Purged =>
            daily'[day][kind] = IF day = d /\ kind = k THEN Less(daily[d][k])
                                ELSE daily[day][kind]
       /\ \A day \in Days : day # d => daily'[day] = daily[day]
       /\ daily[d] = Purged => daily' = daily
  <2> HIDE DEF k, d
  <2> QED
    BY <1>1, <1>2, <1>6, <1>11, <1>12
<1>14. QuotaTyped'
  BY <1>1, <1>3, <1>5, <1>13 DEF QuotaTyped
<1>15. ASSUME present, daily[d] # Purged
       PROVE  daily'[d] # Purged
  <2>1. daily'[d][k] = Cardinality(OutOn(k, d) \ {j})
    BY <1>1, <1>2, <1>10, <1>13, <1>15, CountersTyped
  <2>2. OutOn(k, d) \ {j} \in SUBSET QuotaJobs
    BY OutIsJobs
  <2>3. daily'[d][k] <= Most
    BY <2>1, <2>2, SubsetCounted
  <2>4. Purged[k] = Most + 1
    BY <1>1 DEF Purged
  <2> QED
    BY <1>1, <1>2, <1>13, <2>3, <2>4, MostIsNatural
<1>16. DaysTold'
  <2>1. \A i \in QuotaJobs : charge'[i].state \in Held => charge'[i].day \in 1..today
    BY <1>5 DEF QuotaInv, DaysTold, Held
  <2>2. present => \A day \in Days : day >= today => daily'[day] # Purged
    BY <1>13, <1>15 DEF QuotaInv, DaysTold
  <2> QED
    BY <1>3, <2>1, <2>2 DEF DaysTold
<1>17. Counted'
  <2>1. ASSUME NEW kind \in Kinds, present
        PROVE  total'[kind] = Cardinality(Out(kind)')
    BY <1>1, <1>7, <1>10, <1>13, <2>1, CountersTyped
  <2>2. ASSUME NEW kind \in Kinds, NEW day \in Days, present, daily'[day] # Purged
        PROVE  daily'[day][kind] = Cardinality(OutOn(kind, day)')
    <3>1. CASE day = d
      <4>1. daily[d] # Purged
        BY <1>13, <2>2, <3>1
      <4>2. daily[d][k] = Cardinality(OutOn(k, d)) /\ daily[d][kind] = Cardinality(OutOn(kind, d))
        BY <1>1, <1>2, <2>2, <4>1, CountersTyped
      <4> QED
        BY <1>2, <1>8, <1>10, <1>13, <2>2, <3>1, <4>1, <4>2
    <3>2. CASE day # d
      <4>1. daily[day] # Purged /\ daily'[day] = daily[day]
        BY <1>13, <2>2, <3>2
      <4> QED
        BY <1>8, <2>2, <3>2, <4>1, CountersTyped
    <3> QED
      BY <3>1, <3>2
  <2> QED
    BY <1>3, <2>1, <2>2 DEF Counted
<1> QED
  BY <1>14, <1>16, <1>17 DEF QuotaInv

LEMMA QuotaKept ==
  ASSUME QuotaInv, [QuotaNext]_quotaVars
  PROVE  QuotaInv'
<1>1. charge \in [QuotaJobs -> Charges] /\ QuotaTyped
  BY DEF QuotaInv, QuotaTyped
<1>2. ASSUME NEW j \in QuotaJobs, Arrive(j) \/ BindPrompt(j) \/ CommitForJob(j) \/ DeleteJob(j)
      PROVE  QuotaInv'
  <2>0. UNCHANGED <<total, daily, today, present>>
    BY <1>2 DEF Arrive, BindPrompt, CommitForJob, DeleteJob
  <2>1. CASE Arrive(j)
    <3>1. charge' \in [QuotaJobs -> Charges]
      BY <1>1, <2>1 DEF Arrive, Charges
    <3>2. \A i \in QuotaJobs : /\ charge'[i].day = charge[i].day
                               /\ charge'[i].state \in Held <=> charge[i].state \in Held
      BY <1>1, <2>1 DEF Arrive, Charges, Held
    <3> QED
      BY <2>0, <3>1, <3>2, OutStands
  <2>2. CASE BindPrompt(j)
    <3>1. charge' \in [QuotaJobs -> Charges]
      BY <1>1, <2>2 DEF BindPrompt, Charges
    <3>2. \A i \in QuotaJobs : /\ charge'[i].day = charge[i].day
                               /\ charge'[i].state \in Held <=> charge[i].state \in Held
      BY <1>1, <2>2 DEF BindPrompt, Charges, Held
    <3> QED
      BY <2>0, <3>1, <3>2, OutStands
  <2>3. CASE CommitForJob(j)
    <3>1. charge' \in [QuotaJobs -> Charges]
      BY <1>1, <2>3 DEF CommitForJob, Charges
    <3>2. \A i \in QuotaJobs : /\ charge'[i].day = charge[i].day
                               /\ charge'[i].state \in Held <=> charge[i].state \in Held
      BY <1>1, <2>3 DEF CommitForJob, Charges, Held
    <3> QED
      BY <2>0, <3>1, <3>2, OutStands
  <2>4. CASE DeleteJob(j)
    <3>1. charge' \in [QuotaJobs -> Charges]
      BY <1>1, <2>4 DEF DeleteJob, Charges
    <3>2. \A i \in QuotaJobs : /\ charge'[i].day = charge[i].day
                               /\ charge'[i].state \in Held <=> charge[i].state \in Held
      BY <1>1, <2>4 DEF DeleteJob, Charges, Held
    <3> QED
      BY <2>0, <3>1, <3>2, OutStands
  <2> QED
    BY <1>2, <2>1, <2>2, <2>3, <2>4
<1>3. ASSUME NEW j \in QuotaJobs, ReserveForJob(j)
      PROVE  QuotaInv'
  <2>1. Kind(j) \in Kinds /\ Charge({j}, Kind(j)) /\ charge[j].state \notin Held
    BY <1>3 DEF ReserveForJob, Kind, Kinds, Held
  <2> QED
    BY <2>1, ChargeKeeps
<1>4. ASSUME NEW b \in QuotaBatches, ReserveForBatch(b)
      PROVE  QuotaInv'
  <2>1. b \in SUBSET QuotaJobs
    BY QuotaAssumption
  <2>2. PICK k \in Kinds : (\A j \in b : Kind(j) = k) /\ Charge(b, k)
    BY <1>4 DEF ReserveForBatch
  <2>3. \A j \in b : charge[j].state \notin Held
    BY <1>4 DEF ReserveForBatch, Held
  <2> QED
    BY <2>1, <2>2, <2>3, ChargeKeeps
<1>5. ASSUME NEW j \in QuotaJobs, ReleaseForJob(j)
      PROVE  QuotaInv'
  BY <1>5, ReleaseKeeps
<1>6. ASSUME UNCHANGED charge
      PROVE  \A k, d : Out(k)' = Out(k) /\ OutOn(k, d)' = OutOn(k, d)
  BY <1>6 DEF Out, OutOn
<1>7. ASSUME NEW d \in Days, PurgeDay(d)
      PROVE  QuotaInv'
  <2>1. Purged \in [Kinds -> Nat]
    BY MostIsNatural DEF Purged
  <2>2. /\ daily' = [daily EXCEPT ![d] = Purged] /\ d < today
        /\ UNCHANGED <<charge, total, today, present>>
    BY <1>7 DEF PurgeDay
  <2>3. QuotaTyped'
    BY <1>1, <2>1, <2>2 DEF QuotaTyped
  <2>4. /\ daily'[d] = Purged
        /\ \A day \in Days : day # d => daily'[day] = daily[day]
    BY <1>1, <2>2 DEF QuotaTyped
  <2>5. ~(d >= today)
    BY <1>1, <2>2, QuotaAssumption DEF QuotaTyped, Days
  <2>6. DaysTold'
    BY <2>2, <2>4, <2>5 DEF QuotaInv, DaysTold
  <2>7. Counted'
    BY <1>6, <2>2, <2>4 DEF QuotaInv, Counted
  <2> QED
    BY <2>3, <2>6, <2>7 DEF QuotaInv
<1>8. ASSUME Midnight
      PROVE  QuotaInv'
  <2>1. today' = today + 1 /\ today' \in Days /\ UNCHANGED <<charge, total, daily, present>>
    BY <1>1, <1>8, QuotaAssumption DEF Midnight, QuotaTyped, Days
  <2>2. QuotaTyped'
    BY <1>1, <2>1 DEF QuotaTyped
  <2>3. /\ \A d \in Days : d >= today' => d >= today
        /\ \A d \in 1..today : d \in 1..today'
    BY <1>1, <2>1, QuotaAssumption DEF QuotaTyped, Days
  <2>4. DaysTold'
    BY <2>1, <2>3 DEF QuotaInv, DaysTold
  <2>5. Counted'
    BY <1>6, <2>1 DEF QuotaInv, Counted
  <2> QED
    BY <2>2, <2>4, <2>5 DEF QuotaInv
<1>9. ASSUME SetLimits
      PROVE  QuotaInv'
  <2>1. UNCHANGED <<charge, total, daily, today, present>>
    BY <1>9 DEF SetLimits
  <2> QED
    BY <1>1, <2>1, OutStands
<1>10. ASSUME DeleteAccount
       PROVE  QuotaInv'
  <2>1. Purged \in [Kinds -> Nat]
    BY MostIsNatural DEF Purged
  <2>2. /\ total' = [k \in Kinds |-> 0] /\ daily' = [d \in Days |-> Purged]
        /\ ~present' /\ UNCHANGED <<charge, today>>
    BY <1>10 DEF DeleteAccount
  <2>3. QuotaTyped'
    BY <1>1, <2>1, <2>2 DEF QuotaTyped
  <2>4. DaysTold' /\ Counted'
    BY <2>2 DEF QuotaInv, DaysTold, Counted
  <2> QED
    BY <2>3, <2>4 DEF QuotaInv
<1>11. ASSUME UNCHANGED quotaVars
       PROVE  QuotaInv'
  <2>1. UNCHANGED <<charge, total, daily, today, present>>
    BY <1>11 DEF quotaVars
  <2> QED
    BY <1>1, <2>1, OutStands
<1> QED
  BY <1>2, <1>3, <1>4, <1>5, <1>7, <1>8, <1>9, <1>10, <1>11 DEF QuotaNext

\* However reservations, batches, commitments, refunds after midnight, changed limits and
\* the retention of jobs and days interleave, the counters of an account say what is
\* charged and not given back.
THEOREM CountersHold == QuotaSpec => []CountersMatch
<1>1. QuotaInit => QuotaInv
  BY QuotaStarts
<1>2. QuotaInv /\ [QuotaNext]_quotaVars => QuotaInv'
  BY QuotaKept
<1>3. QuotaInv => CountersMatch
  BY CountersFollow DEF QuotaInv
<1> QED
  BY <1>1, <1>2, <1>3, PTL DEF QuotaSpec

-----------------------------------------------------------------------------
(* ComfyControl *)

Admitted == Queued \ stray
All == Cardinality(Admitted)
Share(u) == Cardinality(Admitted \cap Of(u))

ControlTyped ==
  /\ stage \in [Prompts -> {"unsent", "late", "pending", "running", "gone"}]
  /\ request \in [Prompts -> {"new", "waiting", "counted", "sent", "over"}]
  /\ unnamed \subseteq stray /\ stray \subseteq Prompts

\* Who has counted and not yet let go has the mutex, and is in no queue before it is sent.
OneAdmits ==
  \A p \in Prompts :
    /\ request[p] \in {"counted", "sent"} => queueMutex = p
    /\ request[p] \in {"new", "waiting", "counted"} => stage[p] = "unsent"

\* The room that was counted is there until the one who counted has used it.
RoomStands ==
  \A p \in Prompts : request[p] = "counted" =>
    All < MaxQueue /\ Share(Owner[p]) < MaxPerUser

\* QueueBounded, in the same terms.
Bounded == All <= MaxQueue /\ \A u \in Users : Share(u) <= MaxPerUser

ControlInv == ControlTyped /\ OneAdmits /\ RoomStands /\ Bounded

LEMMA BoundFollows == Bounded => QueueBounded
BY DEF Bounded, QueueBounded, Admitted, All, Share

\* Smaller sets of prompts count no more.
LEMMA FewerPrompts ==
  ASSUME NEW S \in SUBSET Prompts, NEW T \in SUBSET S
  PROVE  /\ IsFiniteSet(S) /\ IsFiniteSet(T)
         /\ Cardinality(S) \in Nat /\ Cardinality(T) \in Nat
         /\ Cardinality(T) <= Cardinality(S)
<1>1. IsFiniteSet(S)
  BY ControlAssumption, FS_Subset
<1>2. IsFiniteSet(T) /\ Cardinality(T) <= Cardinality(S)
  BY <1>1, FS_Subset
<1> QED
  BY <1>1, <1>2, FS_CardinalityType

LEMMA AdmittedIsPrompts ==
  Admitted \in SUBSET Prompts /\ \A u : (Admitted \cap Of(u)) \in SUBSET Prompts
BY DEF Admitted, Queued

LEMMA ControlStarts == ControlInit => ControlInv
<1> SUFFICES ASSUME ControlInit PROVE ControlInv
  OBVIOUS
<1>1. ControlTyped /\ OneAdmits /\ RoomStands
  BY DEF ControlInit, ControlTyped, OneAdmits, RoomStands
<1>2. Admitted = {} /\ \A u : Admitted \cap Of(u) = {}
  BY DEF ControlInit, Admitted, Queued
<1>3. Bounded
  BY <1>2, FS_EmptySet, ControlAssumption DEF Bounded, All, Share
<1> QED
  BY <1>1, <1>3 DEF ControlInv

\* When nothing is admitted anew, the limits and the room stand.
LEMMA NothingAdmitted ==
  ASSUME ControlInv, Admitted' \subseteq Admitted, ControlTyped', OneAdmits',
         \A p \in Prompts : request'[p] = "counted" => request[p] = "counted"
  PROVE  ControlInv'
<1>1. All' \in Nat /\ All \in Nat /\ All' <= All
  BY AdmittedIsPrompts, FewerPrompts DEF All
<1>2. \A u : Of(u)' = Of(u)
  BY DEF Of
<1>3. ASSUME NEW u
      PROVE  Share(u)' \in Nat /\ Share(u) \in Nat /\ Share(u)' <= Share(u)
  <2>1. (Admitted \cap Of(u))' \in SUBSET (Admitted \cap Of(u))
    BY <1>2
  <2>2. (Admitted \cap Of(u)) \in SUBSET Prompts
    BY AdmittedIsPrompts
  <2> QED
    BY <2>1, <2>2, FewerPrompts DEF Share
<1>4. RoomStands'
  <2> SUFFICES ASSUME NEW p \in Prompts, request'[p] = "counted"
               PROVE  All' < MaxQueue /\ Share(Owner[p])' < MaxPerUser
    BY DEF RoomStands
  <2>1. All < MaxQueue /\ Share(Owner[p]) < MaxPerUser
    BY DEF ControlInv, RoomStands
  <2> QED
    BY <1>1, <1>3, <2>1, ControlAssumption
<1>5. Bounded'
  <2>1. All <= MaxQueue /\ \A u \in Users : Share(u) <= MaxPerUser
    BY DEF ControlInv, Bounded
  <2>2. All' <= MaxQueue
    BY <1>1, <2>1, ControlAssumption
  <2>3. \A u \in Users : Share(u)' <= MaxPerUser
    BY <1>3, <2>1, ControlAssumption
  <2> QED
    BY <2>2, <2>3 DEF Bounded
<1> QED
  BY <1>4, <1>5 DEF ControlInv

\* The request that holds the mutex puts its prompt into the queue.
LEMMA ForwardKeeps ==
  ASSUME ControlInv, NEW p \in Prompts, request[p] = "counted",
         stage' = [stage EXCEPT ![p] = "pending"],
         request' = [request EXCEPT ![p] = "sent"],
         UNCHANGED <<queueMutex, unnamed, stray>>
  PROVE  ControlInv'
<1>1. ControlTyped'
  BY DEF ControlInv, ControlTyped
<1>2. /\ stage'[p] = "pending" /\ request'[p] = "sent"
      /\ \A q \in Prompts : q # p => stage'[q] = stage[q] /\ request'[q] = request[q]
  BY DEF ControlInv, ControlTyped
<1>3. \A q \in Prompts : q # p => request[q] \notin {"counted", "sent"}
  BY DEF ControlInv, OneAdmits
<1>4. OneAdmits'
  BY <1>2 DEF ControlInv, OneAdmits
<1>5. RoomStands'
  BY <1>2, <1>3 DEF RoomStands
<1>6. Admitted' \subseteq Admitted \cup {p}
  BY <1>2 DEF Admitted, Queued
<1>7. \A u : Of(u)' = Of(u) /\ (u # Owner[p] => p \notin Of(u))
  BY DEF Of
<1>8. /\ All \in Nat /\ All' \in Nat /\ All' <= All + 1
  <2>1. Admitted \in SUBSET Prompts /\ IsFiniteSet(Admitted)
    BY AdmittedIsPrompts, FewerPrompts
  <2>2. /\ IsFiniteSet(Admitted \cup {p}) /\ Cardinality(Admitted) \in Nat
        /\ Cardinality(Admitted \cup {p}) <= Cardinality(Admitted) + 1
    BY <2>1, OneMore
  <2>3. (Admitted \cup {p}) \in SUBSET Prompts /\ Admitted' \in SUBSET (Admitted \cup {p})
    BY <1>6, <2>1
  <2>4. /\ Cardinality(Admitted') \in Nat /\ Cardinality(Admitted \cup {p}) \in Nat
        /\ Cardinality(Admitted') <= Cardinality(Admitted \cup {p})
    BY <2>3, FewerPrompts
  <2> QED
    BY <2>2, <2>4 DEF All
<1>9. ASSUME NEW u
      PROVE  /\ Share(u) \in Nat /\ Share(u)' \in Nat /\ Share(u)' <= Share(u) + 1
             /\ u # Owner[p] => Share(u)' <= Share(u)
  <2> DEFINE S == Admitted \cap Of(u)
  <2>1. S \in SUBSET Prompts /\ IsFiniteSet(S)
    BY AdmittedIsPrompts, FewerPrompts
  <2>2. /\ IsFiniteSet(S \cup {p}) /\ Cardinality(S) \in Nat
        /\ Cardinality(S \cup {p}) <= Cardinality(S) + 1
    BY <2>1, OneMore
  <2>3. /\ (S \cup {p}) \in SUBSET Prompts /\ S' \in SUBSET (S \cup {p})
        /\ u # Owner[p] => S' \in SUBSET S
    BY <1>6, <1>7, <2>1
  <2>4. /\ Cardinality(S') \in Nat /\ Cardinality(S \cup {p}) \in Nat
        /\ Cardinality(S') <= Cardinality(S \cup {p})
    <3> HIDE DEF S
    <3> QED
      BY <2>3, FewerPrompts
  <2>5. u # Owner[p] => Cardinality(S') <= Cardinality(S)
    <3> HIDE DEF S
    <3> QED
      BY <2>1, <2>3, FewerPrompts
  <2>6. Share(u) = Cardinality(S) /\ Share(u)' = Cardinality(S')
    BY DEF Share
  <2> HIDE DEF S
  <2> QED
    BY <2>2, <2>4, <2>5, <2>6
<1>10. All < MaxQueue /\ Share(Owner[p]) < MaxPerUser
  BY DEF ControlInv, RoomStands
<1>11. All' <= MaxQueue
  BY <1>8, <1>10, ControlAssumption
<1>12. ASSUME NEW u \in Users
       PROVE  Share(u)' <= MaxPerUser
  <2>1. CASE u = Owner[p]
    BY <1>9, <1>10, <2>1, ControlAssumption
  <2>2. CASE u # Owner[p]
    <3>1. Share(u) <= MaxPerUser
      BY DEF ControlInv, Bounded
    <3> QED
      BY <1>9, <2>2, <3>1, ControlAssumption
  <2> QED
    BY <2>1, <2>2
<1>13. Bounded'
  BY <1>11, <1>12 DEF Bounded
<1> QED
  BY <1>1, <1>4, <1>5, <1>13 DEF ControlInv

LEMMA RemovedIsQueued == \A k : Removed(k) \cap Prompts \subseteq Queued
<1> SUFFICES ASSUME NEW k PROVE Removed(k) \cap Prompts \subseteq Queued
  OBVIOUS
<1>1. CASE k.what = "delete"
  <2>1. Removed(k) = {p \in k.ids : stage[p] = "pending"}
    BY <1>1 DEF Removed
  <2> QED
    BY <2>1 DEF Queued
<1>2. CASE k.what = "cancel"
  BY <1>2 DEF Removed, Queued
<1>3. CASE k.what # "delete" /\ k.what # "cancel"
  <2>1. Removed(k) = {p \in Prompts : stage[p] = "running"}
    BY <1>3 DEF Removed
  <2> QED
    BY <2>1 DEF Queued
<1> QED
  BY <1>1, <1>2, <1>3

LEMMA ControlKept ==
  ASSUME ControlInv, [ControlNext]_controlVars
  PROVE  ControlInv'
<1>1. ControlTyped /\ OneAdmits
  BY DEF ControlInv
<1>2. ASSUME UNCHANGED <<stage, stray>>
      PROVE  Admitted' = Admitted
  BY <1>2 DEF Admitted, Queued
<1>3. ASSUME NEW p \in Prompts, Refuse(p) \/ TakeSlot(p) \/ Capture(p)
      PROVE  ControlInv'
  <2>1. UNCHANGED <<stage, unnamed, stray>> /\ request[p] \in {"new", "sent"}
    BY <1>3 DEF Refuse, TakeSlot, Capture
  <2>2. PICK r \in {"waiting", "over"} : request' = [request EXCEPT ![p] = r]
    BY <1>3 DEF Refuse, TakeSlot, Capture
  <2>3. \/ UNCHANGED queueMutex /\ (r = "waiting" => request[p] = "new")
        \/ request[p] = "sent" /\ r = "over" /\ queueMutex' = Nobody
    BY <1>1, <1>3, <2>2 DEF Refuse, TakeSlot, Capture, ControlTyped
  <2>4. ControlTyped'
    BY <1>1, <2>1, <2>2 DEF ControlTyped
  <2>5. OneAdmits'
    BY <1>1, <2>1, <2>2, <2>3 DEF ControlTyped, OneAdmits
  <2>6. \A q \in Prompts : request'[q] = "counted" => request[q] = "counted"
    BY <1>1, <2>2 DEF ControlTyped
  <2> QED
    BY <1>2, <2>1, <2>4, <2>5, <2>6, NothingAdmitted
<1>4. ASSUME NEW p \in Prompts, Count(p)
      PROVE  ControlInv'
  <2>1. UNCHANGED <<stage, unnamed, stray>> /\ request[p] = "waiting" /\ queueMutex = Nobody
    BY <1>4 DEF Count
  <2>2. \A q \in Prompts : request[q] \notin {"counted", "sent"}
    BY <1>1, <2>1, ControlAssumption DEF OneAdmits
  <2>3. CASE request' = [request EXCEPT ![p] = "over"] /\ queueMutex' = Nobody
    <3>1. ControlTyped'
      BY <1>1, <2>1, <2>3 DEF ControlTyped
    <3>2. \A q \in Prompts : request'[q] = IF q = p THEN "over" ELSE request[q]
      BY <1>1, <2>3 DEF ControlTyped
    <3>3. OneAdmits'
      BY <1>1, <2>1, <2>2, <3>2 DEF OneAdmits
    <3> QED
      BY <1>2, <2>1, <3>1, <3>2, <3>3, NothingAdmitted
  <2>4. CASE /\ QueueHasRoom(Owner[p]) /\ queueMutex' = p
             /\ request' = [request EXCEPT ![p] = "counted"]
    <3>1. ControlTyped'
      BY <1>1, <2>1, <2>4 DEF ControlTyped
    <3>2. \A q \in Prompts : request'[q] = IF q = p THEN "counted" ELSE request[q]
      BY <1>1, <2>4 DEF ControlTyped
    <3>3. OneAdmits'
      BY <1>1, <2>1, <2>2, <2>4, <3>2 DEF OneAdmits
    <3>4. \A u : Of(u)' = Of(u)
      BY DEF Of
    <3>5. All' = All /\ \A u : Share(u)' = Share(u)
      BY <1>2, <2>1, <3>4 DEF All, Share
    <3>6. All < MaxQueue /\ Share(Owner[p]) < MaxPerUser
      <4>1. /\ Queued \in SUBSET Prompts /\ Admitted \in SUBSET Queued
            /\ Named(Owner[p]) \in SUBSET Prompts
            /\ (Admitted \cap Of(Owner[p])) \in SUBSET Named(Owner[p])
        BY <1>1 DEF Queued, Admitted, Named, ControlTyped
      <4>2. /\ All \in Nat /\ Cardinality(Queued) \in Nat /\ All <= Cardinality(Queued)
            /\ Share(Owner[p]) \in Nat /\ Cardinality(Named(Owner[p])) \in Nat
            /\ Share(Owner[p]) <= Cardinality(Named(Owner[p]))
        BY <4>1, FewerPrompts DEF All, Share
      <4> QED
        BY <2>4, <4>2, ControlAssumption DEF QueueHasRoom
    <3>7. RoomStands'
      BY <2>2, <3>2, <3>5, <3>6 DEF RoomStands
    <3>8. Bounded'
      BY <3>5 DEF ControlInv, Bounded
    <3> QED
      BY <3>1, <3>3, <3>7, <3>8 DEF ControlInv
  <2> QED
    BY <1>4, <2>3, <2>4 DEF Count
<1>5. ASSUME NEW p \in Prompts, Forward(p)
      PROVE  ControlInv'
  <2>1. CASE /\ stage' = [stage EXCEPT ![p] = "pending"]
             /\ request' = [request EXCEPT ![p] = "sent"] /\ queueMutex' = queueMutex
    BY <1>5, <2>1, ForwardKeeps DEF Forward
  <2>2. CASE \E s \in {"unsent", "late"} :
               /\ stage' = [stage EXCEPT ![p] = s]
               /\ request' = [request EXCEPT ![p] = "over"] /\ queueMutex' = Nobody
    <3>1. PICK s \in {"unsent", "late"} :
            /\ stage' = [stage EXCEPT ![p] = s]
            /\ request' = [request EXCEPT ![p] = "over"] /\ queueMutex' = Nobody
      BY <2>2
    <3>2. request[p] = "counted" /\ UNCHANGED <<unnamed, stray>>
      BY <1>5 DEF Forward
    <3>3. /\ \A q \in Prompts : request'[q] = IF q = p THEN "over" ELSE request[q]
          /\ \A q \in Prompts : stage'[q] = IF q = p THEN s ELSE stage[q]
      BY <1>1, <3>1 DEF ControlTyped
    <3>4. ControlTyped'
      BY <1>1, <3>1, <3>2 DEF ControlTyped
    <3>5. \A q \in Prompts : q # p => request[q] \notin {"counted", "sent"}
      BY <1>1, <3>2 DEF OneAdmits
    <3>6. OneAdmits'
      BY <1>1, <3>3, <3>5 DEF OneAdmits
    <3>7. Admitted' \subseteq Admitted
      BY <3>2, <3>3 DEF Admitted, Queued
    <3> QED
      BY <3>3, <3>4, <3>6, <3>7, NothingAdmitted
  <2> QED
    BY <1>5, <2>1, <2>2 DEF Forward
<1>6. ASSUME NEW p \in Prompts, ArriveLate(p)
      PROVE  ControlInv'
  <2>1. /\ stage[p] = "late" /\ stage' = [stage EXCEPT ![p] = "pending"]
        /\ stray' = stray \cup {p} /\ UNCHANGED <<request, queueMutex, unnamed>>
    BY <1>6 DEF ArriveLate
  <2>2. \A q \in Prompts : stage'[q] = IF q = p THEN "pending" ELSE stage[q]
    BY <1>1, <2>1 DEF ControlTyped
  <2>3. ControlTyped' /\ OneAdmits'
    BY <1>1, <2>1, <2>2 DEF ControlTyped, OneAdmits
  <2>4. Admitted' \subseteq Admitted
    BY <2>1, <2>2 DEF Admitted, Queued
  <2> QED
    BY <2>1, <2>3, <2>4, NothingAdmitted
<1>7. ASSUME NEW p \in Prompts, Run(p) \/ PromptEnds(p)
      PROVE  ControlInv'
  <2>1. PICK s \in {"running", "gone"} : stage' = [stage EXCEPT ![p] = s]
    BY <1>7 DEF Run, PromptEnds
  <2>2. stage[p] \in {"pending", "running"} /\ UNCHANGED <<request, queueMutex, unnamed, stray>>
    BY <1>7 DEF Run, PromptEnds
  <2>3. \A q \in Prompts : stage'[q] = IF q = p THEN s ELSE stage[q]
    BY <1>1, <2>1 DEF ControlTyped
  <2>4. ControlTyped' /\ OneAdmits'
    BY <1>1, <2>1, <2>2, <2>3 DEF ControlTyped, OneAdmits
  <2>5. Admitted' \subseteq Admitted
    BY <2>2, <2>3 DEF Admitted, Queued
  <2> QED
    BY <2>2, <2>4, <2>5, NothingAdmitted
<1>8. ASSUME NEW c \in Calls, Ask(c)
      PROVE  ControlInv'
  <2>1. UNCHANGED <<stage, request, queueMutex, unnamed, stray>>
    BY <1>8 DEF Ask, QueueControl, Cancel, Interrupt, Forwarded
  <2>2. ControlTyped' /\ OneAdmits'
    BY <1>1, <2>1 DEF ControlTyped, OneAdmits
  <2> QED
    BY <1>2, <2>1, <2>2, NothingAdmitted
<1>9. ASSUME (\E c \in Calls : Act(c)) \/ ControlAsItCame
      PROVE  ControlInv'
  <2>1. UNCHANGED <<request, queueMutex, unnamed, stray>>
    BY <1>9 DEF Act, ControlAsItCame
  <2>2. PICK gone : gone \cap Prompts \subseteq Queued /\ TakeOut(gone)
    <3>1. CASE \E c \in Calls : Act(c)
      BY <3>1, RemovedIsQueued DEF Act
    <3>2. CASE ControlAsItCame
      BY <3>2 DEF ControlAsItCame, Queued
    <3> QED
      BY <1>9, <3>1, <3>2
  <2>3. stage' = [p \in Prompts |-> IF p \in gone THEN "gone" ELSE stage[p]]
    BY <2>2 DEF TakeOut
  <2>4. \A p \in Prompts : stage'[p] = IF p \in gone THEN "gone" ELSE stage[p]
    BY <2>3
  <2>5. ControlTyped'
    BY <1>1, <2>1, <2>3 DEF ControlTyped
  <2>6. OneAdmits'
    BY <1>1, <2>1, <2>2, <2>4 DEF OneAdmits, Queued
  <2>7. Admitted' \subseteq Admitted
    BY <2>1, <2>4 DEF Admitted, Queued
  <2> QED
    BY <2>1, <2>5, <2>6, <2>7, NothingAdmitted
<1>10. ASSUME UNCHANGED controlVars
       PROVE  ControlInv'
  <2>1. UNCHANGED <<stage, request, queueMutex, unnamed, stray>>
    BY <1>10 DEF controlVars
  <2>2. ControlTyped' /\ OneAdmits'
    BY <1>1, <2>1 DEF ControlTyped, OneAdmits
  <2> QED
    BY <1>2, <2>1, <2>2, NothingAdmitted
<1>11. ASSUME NEW p \in Prompts, PromptAsItCame(p)
       PROVE  ControlInv'
  <2>1. /\ request[p] = "new" /\ request' = [request EXCEPT ![p] = "over"]
        /\ stage' = [stage EXCEPT ![p] = "pending"] /\ stray' = stray \cup {p}
        /\ unnamed' \in {unnamed, unnamed \cup {p}} /\ UNCHANGED queueMutex
    BY <1>11 DEF PromptAsItCame
  <2>2. /\ \A q \in Prompts : stage'[q] = IF q = p THEN "pending" ELSE stage[q]
        /\ \A q \in Prompts : request'[q] = IF q = p THEN "over" ELSE request[q]
    BY <1>1, <2>1 DEF ControlTyped
  <2>3. ControlTyped'
    BY <1>1, <2>1 DEF ControlTyped
  <2>4. OneAdmits'
    BY <1>1, <2>1, <2>2 DEF OneAdmits
  <2>5. Admitted' \subseteq Admitted
    BY <2>1, <2>2 DEF Admitted, Queued
  <2> QED
    BY <2>2, <2>3, <2>4, <2>5, NothingAdmitted
<1> QED
  BY <1>3, <1>4, <1>5, <1>6, <1>7, <1>8, <1>9, <1>10, <1>11 DEF ControlNext

\* However requests wait, are counted, are cut off, arrive late or come past the admission,
\* and whatever runs and is removed meanwhile, what was admitted stays within the limits of
\* ComfyUI's queue.
THEOREM QueueKept == ControlSpec => []QueueBounded
<1>1. ControlInit => ControlInv
  BY ControlStarts
<1>2. ControlInv /\ [ControlNext]_controlVars => ControlInv'
  BY ControlKept
<1>3. ControlInv => QueueBounded
  BY BoundFollows DEF ControlInv
<1> QED
  BY <1>1, <1>2, <1>3, PTL DEF ControlSpec

\* What a filtered path sends to ComfyUI names prompts of the user who asked, or an
\* administrator asked for it.
ReachOwn ==
  /\ DOMAIN control = Calls
  /\ \A c \in Calls : control[c] # NoCall /\ control[c].user # Admin =>
       /\ control[c].what \in {"delete", "cancel"}
       /\ control[c].ids \subseteq Of(control[c].user)

LEMMA AskReachesOwn ==
  ASSUME ReachOwn, NEW c \in Calls, NEW u \in Users,
         QueueControl(c, u) \/ Cancel(c, u) \/ Interrupt(c, u)
  PROVE  ReachOwn' /\ UNCHANGED stage
<1>2. PICK what \in {"delete", "cancel", "interrupt"}, ids \in SUBSET Prompts :
        /\ Forwarded(c, u, what, ids)
        /\ u # Admin => what # "interrupt" /\ ids \subseteq Of(u)
  <2>1. CASE QueueControl(c, u)
    <3>1. PICK ids \in {Owned(u)} \cup {asked \cap Owned(u) : asked \in SUBSET Prompts} :
            Forwarded(c, u, "delete", ids)
      BY <2>1 DEF QueueControl
    <3>2. ids \in SUBSET Prompts /\ ids \subseteq Of(u)
      BY <3>1 DEF Owned, Of
    <3> QED
      BY <3>1, <3>2
  <2>2. CASE Cancel(c, u)
    <3>1. PICK p \in IF u = Admin THEN Prompts ELSE Owned(u) : Forwarded(c, u, "cancel", {p})
      BY <2>2 DEF Cancel
    <3>2. p \in Prompts /\ (u # Admin => p \in Of(u))
      BY <3>1 DEF Owned, Of
    <3>3. {p} \in SUBSET Prompts /\ (u # Admin => {p} \subseteq Of(u))
      BY <3>2
    <3> QED
      BY <3>1, <3>3
  <2>3. CASE Interrupt(c, u)
    <3>1. CASE u = Admin /\ Forwarded(c, u, "interrupt", {})
      BY <3>1
    <3>2. CASE u # Admin /\ \E p \in RunningOf(u) : Forwarded(c, u, "cancel", {p})
      <4>1. PICK p \in RunningOf(u) : Forwarded(c, u, "cancel", {p})
        BY <3>2
      <4>2. p \in Prompts /\ p \in Of(u)
        BY DEF RunningOf, Named, Queued
      <4>3. {p} \in SUBSET Prompts /\ {p} \subseteq Of(u)
        BY <4>2
      <4> QED
        BY <3>2, <4>1, <4>3
    <3> QED
      BY <2>3, <3>1, <3>2 DEF Interrupt
  <2> QED
    BY <2>1, <2>2, <2>3
<1>3. /\ control' = [control EXCEPT ![c] = [what |-> what, user |-> u, ids |-> ids]]
      /\ UNCHANGED stage
  BY <1>2 DEF Forwarded
<1>4. \A v : Of(v)' = Of(v)
  BY DEF Of
<1> QED
  BY <1>2, <1>3, <1>4 DEF ReachOwn

LEMMA ActReachesOwn ==
  ASSUME ReachOwn, NEW c \in Calls, Act(c)
  PROVE  ReachOwn' /\ RemovesOwn
<1>1. control' = [control EXCEPT ![c] = NoCall]
  BY DEF Act
<1>2. \A v : Of(v)' = Of(v)
  BY DEF Of
<1>3. ReachOwn'
  BY <1>1, <1>2 DEF ReachOwn, NoCall
<1>4. PICK gone \in {Removed(control[c]), {}} :
        stage' = [p \in Prompts |-> IF p \in gone THEN "gone" ELSE stage[p]]
  BY DEF Act, TakeOut
<1>5. ASSUME control[c].user # Admin
      PROVE  gone \subseteq Of(control[c].user)
  <2>1. control[c].what \in {"delete", "cancel"} /\ control[c].ids \subseteq Of(control[c].user)
    BY <1>5 DEF Act, ReachOwn
  <2>2. CASE control[c].what = "delete"
    BY <1>4, <2>1, <2>2 DEF Removed
  <2>3. CASE control[c].what = "cancel"
    BY <1>4, <2>1, <2>3 DEF Removed
  <2> QED
    BY <2>1, <2>2, <2>3
<1>6. \A d \in Calls : control'[d] # control[d] => d = c
  BY <1>1 DEF ReachOwn
<1> QED
  BY <1>3, <1>4, <1>5, <1>6 DEF RemovesOwn, Of

LEMMA ReachKept ==
  ASSUME ReachOwn, [ControlNext]_controlVars
  PROVE  ReachOwn' /\ (RemovesOwn \/ UNCHANGED controlVars)
<1>1. CASE \E c \in Calls : Ask(c)
  <2>1. ReachOwn' /\ UNCHANGED stage
    BY <1>1, AskReachesOwn DEF Ask
  <2> QED
    BY <2>1 DEF RemovesOwn
<1>2. CASE \E c \in Calls : Act(c)
  BY <1>2, ActReachesOwn
<1>3. CASE UNCHANGED control
  <2>1. \A v : Of(v)' = Of(v)
    BY DEF Of
  <2> QED
    BY <1>3, <2>1 DEF ReachOwn, RemovesOwn
<1>4. ASSUME NEW p \in Prompts,
             \/ Refuse(p) \/ TakeSlot(p) \/ Count(p) \/ Forward(p) \/ Capture(p) \/ ArriveLate(p)
             \/ PromptAsItCame(p) \/ Run(p) \/ PromptEnds(p)
      PROVE  UNCHANGED control
  BY <1>4 DEF Refuse, TakeSlot, Count, Forward, Capture, ArriveLate, PromptAsItCame, Run,
              PromptEnds
<1>5. ASSUME ControlAsItCame
      PROVE  UNCHANGED control
  BY <1>5 DEF ControlAsItCame
<1> QED
  BY <1>1, <1>2, <1>3, <1>4, <1>5 DEF ControlNext, controlVars

\* What a user's control removes is the user's when its path is one the Gateway filters,
\* also when it comes late and another prompt runs by then; of these only an
\* administrator's reaches the prompts of others.
THEOREM ControlsReachOwn == ControlSpec => OwnControl
<1>1. ControlInit => ReachOwn
  BY DEF ControlInit, ReachOwn, NoCall
<1>2. ReachOwn /\ [ControlNext]_controlVars => ReachOwn' /\ [RemovesOwn]_controlVars
  BY ReachKept
<1> QED
  BY <1>1, <1>2, PTL DEF ControlSpec, OwnControl

-----------------------------------------------------------------------------
(* LoraDatasets *)

DatasetTyped ==
  /\ photo \in [Photos -> {"none", "fresh", "old"}]
  /\ holder \in [Holders -> {"none", "live", "expired"}]
  /\ manifest \in [Holders -> SUBSET Photos] /\ refs \in [Holders -> SUBSET Photos]
  /\ training \in [Versions -> {"none", "active", "over"}]
  /\ editor \in [Editors -> [dataset : Datasets \cup {"none"}, photos : SUBSET Photos]]
  /\ sweep \in [step : {"idle", "holders", "seen", "locked"}, gone : SUBSET Holders,
                seen : SUBSET Photos, locked : SUBSET Photos]

\* What is listed is referred to and exists, a training's version with it.
Listed ==
  /\ \A h \in Holders : manifest[h] \subseteq refs[h]
  /\ \A h \in Holders : \A p \in manifest[h] : photo[p] # "none"
  /\ \A v \in Versions : training[v] = "active" => holder[v] # "none"

\* A save's photos exist, and the clean-up has not locked them.
SavesShare ==
  \A e \in Editors : \A p \in editor[e].photos : photo[p] # "none" /\ p \notin sweep.locked

\* What the clean-up has deleted stays expired and unused until it commits.
GoneStays ==
  \A h \in sweep.gone : Collectable(h) /\ ~Edited(h)

DatasetInv == DatasetTyped /\ Listed /\ SavesShare /\ GoneStays

LEMMA DatasetStarts == DatasetInit => DatasetInv
BY DEF DatasetInit, DatasetInv, DatasetTyped, Listed, SavesShare, GoneStays, NoSave, NoSweep

LEMMA OwnerKeeps ==
  ASSUME DatasetInv, NEW d \in Datasets,
         \/ CreateDataset(d) \/ DeleteDataset(d)
         \/ \E v \in Versions : CreateVersion(d, v) \/ RefreshVersion(d, v) \/ Restore(v, d)
  PROVE  DatasetInv'
<1> USE DEF DatasetInv, DatasetTyped, Listed, SavesShare, GoneStays, Holders
<1>1. CASE CreateDataset(d)
  BY <1>1 DEF CreateDataset, Free, Collectable, Edited
<1>2. CASE DeleteDataset(d)
  <2>1. /\ d \in Holders /\ d \notin sweep.gone /\ ~Edited(d)
        /\ \A h \in Holders : holder'[h] = IF h = d THEN "none" ELSE holder[h]
        /\ \A h \in Holders : manifest'[h] = IF h = d THEN {} ELSE manifest[h]
        /\ \A h \in Holders : refs'[h] = IF h = d THEN {} ELSE refs[h]
        /\ UNCHANGED <<photo, training, editor, sweep>>
    BY <1>2 DEF DeleteDataset, DropHolders, Free
  <2>2. DatasetTyped'
    BY <1>2 DEF DeleteDataset, DropHolders
  <2>3. d \notin Versions
    BY DatasetAssumption
  <2>4. Listed'
    BY <2>1, <2>3
  <2>5. SavesShare' /\ GoneStays'
    BY <2>1 DEF Collectable, Edited
  <2> QED
    BY <2>2, <2>4, <2>5
<1>3. ASSUME NEW v \in Versions, CreateVersion(d, v)
      PROVE  DatasetInv'
  BY <1>3 DEF CreateVersion, Copy, Free, Collectable, Edited
<1>4. ASSUME NEW v \in Versions, RefreshVersion(d, v)
      PROVE  DatasetInv'
  BY <1>4 DEF RefreshVersion, Free, Collectable, Edited
<1>5. ASSUME NEW v \in Versions, Restore(v, d)
      PROVE  DatasetInv'
  BY <1>5 DEF Restore, Copy, Free, Collectable, Edited
<1> QED
  BY <1>1, <1>2, <1>3, <1>4, <1>5

LEMMA SaveKeeps ==
  ASSUME DatasetInv, NEW e \in Editors,
         \/ CommitSave(e) \/ RollBack(e)
         \/ \E d \in Datasets, photos \in SUBSET Photos : BeginSave(e, d, photos)
  PROVE  DatasetInv'
<1> USE DEF DatasetInv, DatasetTyped, Listed, SavesShare, GoneStays, Holders
<1>1. CASE CommitSave(e)
  <2> DEFINE d == editor[e].dataset
             photos == editor[e].photos
  <2>1. /\ d \in Datasets /\ photos \in SUBSET Photos
        /\ \A p \in photos : photo[p] # "none"
        /\ d \notin sweep.gone
    BY <1>1 DEF CommitSave, Edited
  <2>2. /\ manifest' = [manifest EXCEPT ![d] = photos] /\ refs' = [refs EXCEPT ![d] = photos]
        /\ holder' = [holder EXCEPT ![d] = "live"] /\ editor' = [editor EXCEPT ![e] = NoSave]
        /\ UNCHANGED <<photo, training, sweep>>
    BY <1>1 DEF CommitSave
  <2> HIDE DEF d, photos
  <2>3. DatasetTyped'
    BY <2>1, <2>2 DEF NoSave
  <2>4. /\ \A h \in Holders : manifest'[h] = IF h = d THEN photos ELSE manifest[h]
        /\ \A h \in Holders : refs'[h] = IF h = d THEN photos ELSE refs[h]
        /\ \A h \in Holders : holder'[h] = IF h = d THEN "live" ELSE holder[h]
        /\ \A f \in Editors : editor'[f] = IF f = e THEN NoSave ELSE editor[f]
    BY <2>2
  <2>5. Listed'
    BY <2>1, <2>2, <2>4
  <2>6. SavesShare'
    BY <2>2, <2>4 DEF NoSave
  <2>7. GoneStays'
    <3>1. \A h \in sweep.gone : h \in Holders /\ h # "none" /\ h # d
      BY <2>1, DatasetAssumption
    <3> QED
      BY <2>2, <2>4, <3>1 DEF Collectable, Edited, NoSave
  <2> QED
    BY <2>3, <2>5, <2>6, <2>7
<1>2. CASE RollBack(e)
  <2>1. /\ editor' = [editor EXCEPT ![e] = NoSave]
        /\ UNCHANGED <<photo, holder, manifest, refs, training, sweep>>
    BY <1>2 DEF RollBack
  <2>2. \A f \in Editors : editor'[f] = IF f = e THEN NoSave ELSE editor[f]
    BY <2>1
  <2>3. DatasetTyped' /\ Listed'
    BY <2>1 DEF NoSave
  <2>4. SavesShare'
    BY <2>1, <2>2 DEF NoSave
  <2>5. \A h \in sweep.gone : h \in Holders /\ h # "none"
    BY DatasetAssumption
  <2>6. GoneStays'
    BY <2>1, <2>2, <2>5 DEF NoSave, Collectable, Edited
  <2> QED
    BY <2>3, <2>4, <2>6
<1>3. ASSUME NEW d \in Datasets, NEW photos \in SUBSET Photos, BeginSave(e, d, photos)
      PROVE  DatasetInv'
  BY <1>3 DEF BeginSave, Free, Collectable, Edited
<1> QED
  BY <1>1, <1>2, <1>3

LEMMA VersionKeeps ==
  ASSUME DatasetInv, NEW v \in Versions, DeleteVersion(v) \/ Train(v) \/ TrainingEnds(v)
  PROVE  DatasetInv'
<1> USE DEF DatasetInv, DatasetTyped, Listed, SavesShare, GoneStays, Holders
<1>1. CASE DeleteVersion(v)
  BY <1>1 DEF DeleteVersion, DropHolders, Free, Collectable, Edited
<1>2. CASE Train(v)
  BY <1>2 DEF Train, Free, Collectable, Edited
<1>3. CASE TrainingEnds(v)
  BY <1>3 DEF TrainingEnds, Collectable, Edited
<1> QED
  BY <1>1, <1>2, <1>3

LEMMA TimeKeeps ==
  ASSUME DatasetInv, Age \/ \E p \in Photos : Upload(p)
  PROVE  DatasetInv'
<1> USE DEF DatasetInv, DatasetTyped, Listed, SavesShare, GoneStays, Holders
<1>1. ASSUME NEW p \in Photos, Upload(p)
      PROVE  DatasetInv'
  BY <1>1 DEF Upload, Collectable, Edited
<1>2. CASE Age
  BY <1>2 DEF Age, Collectable, Edited
<1> QED
  BY <1>1, <1>2

LEMMA SweepKeeps ==
  ASSUME DatasetInv,
         \/ \E gone \in SUBSET Holders : SweepHolders(gone)
         \/ SweepLook \/ SweepLock \/ SweepCommit \/ SweepFails
  PROVE  DatasetInv'
<1> USE DEF DatasetInv, DatasetTyped, Listed, SavesShare, GoneStays
<1>1. ASSUME NEW gone \in SUBSET Holders, SweepHolders(gone)
      PROVE  DatasetInv'
  <2>1. /\ sweep' = [sweep EXCEPT !.step = "holders", !.gone = gone]
        /\ gone \subseteq {h \in Holders : Collectable(h) /\ ~Edited(h)}
        /\ UNCHANGED <<photo, holder, manifest, refs, training, editor>>
    BY <1>1 DEF SweepHolders
  <2>2. sweep'.gone = gone /\ sweep'.locked = sweep.locked /\ DatasetTyped'
    BY <2>1
  <2>3. Listed' /\ SavesShare'
    BY <2>1, <2>2
  <2>4. GoneStays'
    BY <2>1, <2>2 DEF Collectable, Edited
  <2> QED
    BY <2>2, <2>3, <2>4
<1>2. CASE SweepLook
  <2> DEFINE unused == {p \in Photos : photo[p] = "old" /\ ~Referred(p, Holders \ sweep.gone)}
  <2>1. /\ sweep' = [sweep EXCEPT !.step = "seen", !.seen = unused] /\ unused \in SUBSET Photos
        /\ UNCHANGED <<photo, holder, manifest, refs, training, editor>>
    BY <1>2 DEF SweepLook
  <2> HIDE DEF unused
  <2>2. sweep'.gone = sweep.gone /\ sweep'.locked = sweep.locked /\ DatasetTyped'
    BY <2>1
  <2>3. Listed' /\ SavesShare'
    BY <2>1, <2>2
  <2>4. GoneStays'
    BY <2>1, <2>2 DEF Collectable, Edited
  <2> QED
    BY <2>2, <2>3, <2>4
<1>3. CASE SweepLock
  <2> DEFINE rows == {p \in sweep.seen : photo[p] = "old" /\ ~Shared(p)}
  <2>1. /\ sweep' = [sweep EXCEPT !.step = "locked", !.locked = rows] /\ rows \in SUBSET Photos
        /\ \A p \in rows : ~Shared(p)
        /\ UNCHANGED <<photo, holder, manifest, refs, training, editor>>
    BY <1>3 DEF SweepLock
  <2> HIDE DEF rows
  <2>2. sweep'.gone = sweep.gone /\ sweep'.locked = rows /\ DatasetTyped'
    BY <2>1
  <2>3. Listed' /\ SavesShare'
    BY <2>1, <2>2 DEF Shared
  <2>4. GoneStays'
    BY <2>1, <2>2 DEF Collectable, Edited
  <2> QED
    BY <2>2, <2>3, <2>4
<1>4. CASE SweepCommit
  <2>1. /\ \A p \in Photos : photo'[p] = IF p \in Collected THEN "none" ELSE photo[p]
        /\ \A h \in Holders : refs'[h] = IF h \in sweep.gone THEN {} ELSE refs[h] \ Collected
        /\ \A h \in Holders : holder'[h] = IF h \in sweep.gone THEN "none" ELSE holder[h]
        /\ \A h \in Holders : manifest'[h] = IF h \in sweep.gone THEN {} ELSE manifest[h]
        /\ sweep' = NoSweep /\ UNCHANGED <<training, editor>>
    BY <1>4 DEF SweepCommit, DropHolders
  <2>2. DatasetTyped'
    BY <1>4 DEF SweepCommit, DropHolders, NoSweep
  <2>3. \A h \in Holders : h \notin sweep.gone => refs[h] \cap Collected = {}
    BY DEF Collected, Referred
  <2>4. \A v \in Versions : training[v] = "active" => v \notin sweep.gone
    BY DEF Collectable
  <2>5. Listed'
    <3>1. \A h \in Holders : \A p \in manifest'[h] :
            p \in manifest[h] /\ p \in refs[h] /\ h \notin sweep.gone /\ p \notin Collected
      BY <2>1, <2>3
    <3>2. \A h \in Holders : manifest'[h] \subseteq refs'[h]
      BY <2>1, <2>2, <3>1
    <3>3. \A h \in Holders : \A p \in manifest'[h] : photo'[p] # "none"
      BY <2>1, <3>1
    <3>4. \A v \in Versions : training'[v] = "active" => holder'[v] # "none"
      BY <2>1, <2>4 DEF Holders
    <3> QED
      BY <3>2, <3>3, <3>4
  <2>6. \A e \in Editors : \A p \in editor[e].photos : p \notin Collected
    BY DEF Collected
  <2>7. SavesShare' /\ GoneStays'
    BY <2>1, <2>6 DEF NoSweep
  <2> QED
    BY <2>2, <2>5, <2>7
<1>5. CASE SweepFails
  BY <1>5 DEF SweepFails, NoSweep, Collectable, Edited
<1> QED
  BY <1>1, <1>2, <1>3, <1>4, <1>5

LEMMA DatasetKept ==
  ASSUME DatasetInv, [DatasetNext]_datasetVars
  PROVE  DatasetInv'
<1>1. CASE UNCHANGED datasetVars
  BY <1>1 DEF datasetVars, DatasetInv, DatasetTyped, Listed, SavesShare, GoneStays,
              Collectable, Edited
<1>2. CASE DatasetNext
  BY <1>2, OwnerKeeps, SaveKeeps, VersionKeeps, TimeKeeps, SweepKeeps DEF DatasetNext
<1> QED
  BY <1>1, <1>2

\* However saves, versions, trainings and uploads meet the clean-up between its statements,
\* it takes no photo that is listed and no version that is trained on.
THEOREM PhotosStay == DatasetSpec => []PhotosKept
<1>1. DatasetInit => DatasetInv
  BY DatasetStarts
<1>2. DatasetInv /\ [DatasetNext]_datasetVars => DatasetInv'
  BY DatasetKept
<1>3. DatasetInv => PhotosKept
  BY DEF DatasetInv, Listed, PhotosKept
<1> QED
  BY <1>1, <1>2, <1>3, PTL DEF DatasetSpec

-----------------------------------------------------------------------------
(* ComfySchema *)

\* The clock, the fetch and the answer are in order.
SchemaTyped ==
  /\ clock \in Nat
  /\ comfy \in [up : BOOLEAN, version : Nat \ {0}, since : Nat] /\ comfy.since <= clock
  /\ cache \in [version : Nat, fetched : Nat, next : Nat, tried : Nat, error : BOOLEAN]
  /\ fetching.at \in Nat /\ fetching.at <= clock /\ fetching.sent \in Nat
  /\ answer.at \in Nat /\ answer.at <= clock

\* Nodes other than ComfyUI has now were asked for before it came up.  A copy of them runs
\* out, or it is kept because an attempt failed, and then only until the next attempt.
OldCopyRunsOut ==
  /\ comfy.up /\ fetching.sent # 0 /\ fetching.sent # comfy.version =>
       fetching.at <= comfy.since
  /\ cache.error => cache.next = cache.tried + RetryPause
  /\ comfy.up /\ ~cache.error /\ cache.version > 0 /\ cache.version # comfy.version =>
       cache.next <= comfy.since + TTL
  /\ ~cache.error => cache.next <= clock + TTL

SchemaInv == SchemaTyped /\ OldCopyRunsOut /\ CatalogCatchesUp

LEMMA SchemaHolds == SchemaInit => SchemaInv
BY SchemaAssumption
DEF SchemaInit, SchemaInv, SchemaTyped, OldCopyRunsOut, CatalogCatchesUp, Unasked

LEMMA SchemaKept ==
  ASSUME SchemaInv, [SchemaNext]_schemaVars
  PROVE  SchemaInv'
<1> USE SchemaAssumption DEF SchemaInv, SchemaTyped, OldCopyRunsOut, CatalogCatchesUp
<1>1. ASSUME NEW c \in Callers, FromCache(c)
      PROVE  SchemaInv'
  BY <1>1 DEF FromCache, FreshCopy, Gave
<1>2. ASSUME NEW c \in Callers, Fetched(c)
      PROVE  SchemaInv'
  <2>1. /\ cache' \in [version : Nat, fetched : Nat, next : Nat, tried : Nat, error : BOOLEAN]
        /\ cache'.version = fetching.sent /\ cache'.next = fetching.at + TTL /\ ~cache'.error
    BY <1>2 DEF Fetched
  <2>2. answer'.at = fetching.at /\ answer'.version = fetching.sent
    BY <1>2, <2>1 DEF Fetched, Gave
  <2>3. UNCHANGED <<clock, comfy>> /\ fetching'.at = 0 /\ fetching'.sent = 0 /\ fetching.sent # 0
    BY <1>2 DEF Fetched, Unasked
  <2> QED
    BY <2>1, <2>2, <2>3
<1>3. ASSUME NEW c \in Callers, NotFetched(c)
      PROVE  SchemaInv'
  <2>1. /\ cache' \in [version : Nat, fetched : Nat, next : Nat, tried : Nat, error : BOOLEAN]
        /\ cache'.tried = fetching.at /\ cache'.next = fetching.at + RetryPause /\ cache'.error
    BY <1>3 DEF NotFetched
  <2>2. answer'.at = fetching.at /\ answer'.tried = fetching.at /\ answer'.error
    BY <1>3, <2>1 DEF NotFetched, Gave
  <2>3. UNCHANGED <<clock, comfy>> /\ fetching'.at = 0 /\ fetching'.sent = 0
    BY <1>3 DEF NotFetched, Unasked
  <2> QED
    BY <2>1, <2>2, <2>3
<1>4. ASSUME NEW c \in Callers, NEW force \in BOOLEAN, AskComfy(c, force)
      PROVE  SchemaInv'
  BY <1>4 DEF AskComfy
<1>5. CASE ClockTicks
  BY <1>5 DEF ClockTicks
<1>6. CASE Stops
  <2>1. /\ comfy' \in [up : BOOLEAN, version : Nat \ {0}, since : Nat]
        /\ ~comfy'.up /\ comfy'.since = clock /\ UNCHANGED <<clock, cache, fetching, answer>>
    BY <1>6 DEF Stops
  <2> QED
    BY <2>1
<1>7. ASSUME NEW version \in 1..LastNodes, Starts(version)
      PROVE  SchemaInv'
  BY <1>7 DEF Starts
<1>8. CASE UNCHANGED schemaVars
  BY <1>8 DEF schemaVars
<1>9. CASE SendNodes
  <2>1. /\ fetching'.at = fetching.at /\ fetching'.sent \in {fetching.sent, comfy.version}
        /\ UNCHANGED <<clock, comfy, cache, answer>>
    BY <1>9 DEF SendNodes
  <2> QED
    BY <2>1
<1> QED
  BY <1>1, <1>2, <1>3, <1>4, <1>5, <1>6, <1>7, <1>8, <1>9 DEF SchemaNext

\* Once ComfyUI has been up for the time to live, an answer speaks of the nodes it had
\* before only when an attempt has failed less than the pause ago, and it says so
\* (comfyObjectInfo), however many callers ask, force and fail in between.
THEOREM CatalogCaughtUp == SchemaSpec => []CatalogCatchesUp
<1>1. SchemaInit => SchemaInv
  BY SchemaHolds
<1>2. SchemaInv /\ [SchemaNext]_schemaVars => SchemaInv'
  BY SchemaKept
<1>3. SchemaInv => CatalogCatchesUp
  BY DEF SchemaInv
<1> QED
  BY <1>1, <1>2, <1>3, PTL DEF SchemaSpec

-----------------------------------------------------------------------------
(* ContentArchive *)

StoredRows == [of : Generations \cup {NoFile}, until : Nat]

\* A stored copy has been given time, and only what was sent is on the disk or copied.
ArchiveTyped ==
  /\ hour \in Nat
  /\ produced \in Generations \cup {NoFile}
  /\ DOMAIN owned = Generations /\ \A p \in Generations : owned[p].until \in Nat
  /\ archived \in [Generations -> StoredRows]
  /\ due \in [Generations -> Nat]
  /\ \A w \in writing : w.of \in Generations /\ w.to \in Generations
  /\ copied # "never" => produced \in Generations
  /\ \A p \in Generations : archived[p].of # NoFile => archived[p].until > 0

ArchiveInv == ArchiveTyped /\ FileIsTracked

\* A file that is to be deleted stays so.
LEMMA Soonest ==
  ASSUME NEW t \in Nat, NEW u \in Nat, u # 0
  PROVE  Earlier(t, u) \in Nat /\ Earlier(t, u) # 0
BY DEF Earlier, Unscheduled

LEMMA NoFiles ==
  /\ NoFile \notin Generations /\ NotStored \in StoredRows /\ NotStored.of = NoFile
  /\ NoRow.until = 0
BY ArchiveAssumption DEF NoFile, Generations, NotStored, StoredRows, NoRow

LEMMA ArchiveHolds == ArchiveInit => ArchiveInv
BY NoFiles DEF ArchiveInit, ArchiveInv, ArchiveTyped, FileIsTracked, NotStored, Unscheduled

LEMMA ArchiveKept ==
  ASSUME ArchiveInv, [ArchiveNext]_archiveVars
  PROVE  ArchiveInv'
<1> USE NoFiles, ArchiveAssumption
<1>1. ASSUME NEW p \in Generations, Produce(p)
      PROVE  ArchiveInv'
  BY <1>1 DEF Produce, ArchiveInv, ArchiveTyped, FileIsTracked
<1>2. ASSUME NEW p \in Generations, ExpireEvent(p)
      PROVE  ArchiveInv'
  <2>1. /\ \A q \in Generations : q # p => owned'[q] = owned[q] /\ archived'[q] = archived[q]
        /\ owned'[p] = NoRow /\ archived'[p] = NotStored
        /\ DOMAIN owned' = Generations /\ archived' \in [Generations -> StoredRows]
        /\ UNCHANGED <<hour, produced, due, writing>>
    BY <1>2 DEF ExpireEvent, ArchiveInv, ArchiveTyped
  <2>2. ArchiveTyped'
    BY <1>2, <2>1 DEF ExpireEvent, ArchiveInv, ArchiveTyped
  <2>3. copied' = "named" => copied = "named" /\ ~(archived[p].of = produced /\ produced # NoFile)
    BY <1>2 DEF ExpireEvent
  <2>4. FileIsTracked'
    BY <2>1, <2>2, <2>3 DEF ArchiveInv, ArchiveTyped, FileIsTracked, OwnerRows
  <2> QED
    BY <2>2, <2>4 DEF ArchiveInv
<1>3. CASE Learn
  <2>1. /\ DOMAIN owned' = Generations
        /\ \A p \in Generations : owned'[p] = owned[p] \/ owned'[p].until = hour + CopiesKept
    BY <1>3 DEF Learn
  <2>2. /\ \A p \in Generations : owned'[p].until \in Nat
        /\ OwnerRows \subseteq OwnerRows'
        /\ UNCHANGED <<hour, events, history, produced, archived, due, writing, copied>>
    BY <1>3, <2>1 DEF Learn, ArchiveInv, ArchiveTyped, OwnerRows
  <2> QED
    BY <2>1, <2>2 DEF ArchiveInv, ArchiveTyped, FileIsTracked
<1>4. CASE View
  <2>1. PICK p \in StoredUnder : writing' = writing \cup {[of |-> produced, to |-> p]}
    BY <1>4 DEF View
  <2>2. p \in Generations /\ produced \in Generations
    BY <1>4 DEF View, StoredUnder, LiveRows, OwnerRows, Recent, ArchiveInv, ArchiveTyped
  <2> QED
    BY <1>4, <2>1, <2>2 DEF View, ArchiveInv, ArchiveTyped, FileIsTracked, OwnerRows
<1>5. ASSUME NEW scheduled \in BOOLEAN, NEW held \in BOOLEAN, Fetch(scheduled, held)
      PROVE  ArchiveInv'
  <2>1. \A w \in writing' : w.of \in Generations /\ w.to \in Generations
    <3>1. CASE ~held
      BY <1>5, <3>1 DEF Fetch, ArchiveInv, ArchiveTyped
    <3>2. CASE held
      <4>1. PICK p \in StoredUnder : writing' = writing \cup {[of |-> produced, to |-> p]}
        BY <1>5, <3>2 DEF Fetch
      <4>2. p \in Generations /\ produced \in Generations
        BY <1>5 DEF Fetch, StoredUnder, LiveRows, OwnerRows, Recent, ArchiveInv, ArchiveTyped
      <4> QED
        BY <4>1, <4>2 DEF ArchiveInv, ArchiveTyped
    <3> QED
      BY <3>1, <3>2
  <2>2. /\ due' \in [Generations -> Nat]
        /\ \A c \in Generations : due[c] # 0 => due'[c] # 0
    <3>1. produced \in Generations /\ hour + CopiesKept \in Nat /\ hour + CopiesKept # 0
      BY <1>5 DEF Fetch, ArchiveInv, ArchiveTyped
    <3>2. CASE ~scheduled
      BY <1>5, <3>2 DEF Fetch, ArchiveInv, ArchiveTyped
    <3>3. CASE scheduled
      <4> DEFINE soon == Earlier(due[produced], hour + CopiesKept)
      <4>1. soon \in Nat /\ soon # 0
        BY <3>1, Soonest DEF ArchiveInv, ArchiveTyped
      <4>2. due' = [due EXCEPT ![produced] = soon]
        BY <1>5, <3>3 DEF Fetch
      <4> HIDE DEF soon
      <4> QED
        BY <3>1, <4>1, <4>2 DEF ArchiveInv, ArchiveTyped
    <3> QED
      BY <3>2, <3>3
  <2>3. UNCHANGED <<hour, events, history, produced, owned, archived, copied>>
    BY <1>5 DEF Fetch
  <2> QED
    BY <2>1, <2>2, <2>3 DEF ArchiveInv, ArchiveTyped, FileIsTracked, OwnerRows, Unscheduled
<1>6. ASSUME NEW w \in writing, Commit(w)
      PROVE  ArchiveInv'
  <2>1. /\ w.of \in Generations /\ w.to \in Generations
        /\ UNCHANGED <<hour, events, history, produced, owned, due>>
        /\ \A v \in writing' : v \in writing
    BY <1>6 DEF Commit, ArchiveInv, ArchiveTyped
  <2>2. CASE events[w.to].state = "kept" /\ archived[w.to].of = NoFile
    <3> DEFINE row == [of |-> w.of, until |-> hour + CopiesKept]
    <3>1. row \in StoredRows /\ row.of = w.of /\ row.until > 0
      <4>1. hour \in Nat /\ CopiesKept \in Nat /\ CopiesKept > 0
        BY DEF ArchiveInv, ArchiveTyped
      <4>2. hour + CopiesKept \in Nat /\ hour + CopiesKept > 0
        BY <4>1
      <4> QED
        BY <2>1, <4>2 DEF StoredRows
    <3>2. archived' = [archived EXCEPT ![w.to] = row]
      BY <1>6, <2>2 DEF Commit
    <3> HIDE DEF row
    <3>3. /\ archived' \in [Generations -> StoredRows] /\ archived'[w.to] = row
          /\ \A p \in Generations : p # w.to => archived'[p] = archived[p]
      BY <2>1, <3>1, <3>2 DEF ArchiveInv, ArchiveTyped
    <3>4. /\ w.of # produced => copied' = copied
          /\ w.of = produced /\ w.to \notin OwnerRows /\ copied' = "named" => copied = "named"
      BY <1>6, <2>2 DEF Commit
    <3>5. ArchiveTyped'
      BY <2>1, <3>1, <3>3, <3>4 DEF ArchiveInv, ArchiveTyped
    <3>6. FileIsTracked'
      <4>1. SUFFICES ASSUME copied' = "named"
                     PROVE  \/ due[produced] # Unscheduled
                            \/ \E p \in OwnerRows : archived'[p].of = produced
        BY <2>1 DEF FileIsTracked, OwnerRows
      <4>2. CASE w.of = produced /\ w.to \in OwnerRows
        BY <3>1, <3>3, <4>2
      <4>3. CASE ~(w.of = produced /\ w.to \in OwnerRows)
        <5>1. copied = "named" /\ produced \in Generations
          BY <3>4, <4>1, <4>3 DEF ArchiveInv, ArchiveTyped
        <5>2. CASE due[produced] # Unscheduled
          BY <5>2
        <5>3. CASE due[produced] = Unscheduled
          <6>1. PICK p \in OwnerRows : archived[p].of = produced
            BY <5>1, <5>3 DEF ArchiveInv, FileIsTracked
          <6>2. p \in Generations /\ p # w.to
            BY <2>2, <5>1, <6>1 DEF OwnerRows
          <6> QED
            BY <3>3, <6>1, <6>2
        <5> QED
          BY <5>2, <5>3
      <4> QED
        BY <4>2, <4>3
    <3> QED
      BY <3>5, <3>6 DEF ArchiveInv
  <2>3. CASE ~(events[w.to].state = "kept" /\ archived[w.to].of = NoFile)
    <3>1. UNCHANGED <<archived, copied>>
      BY <1>6, <2>3 DEF Commit
    <3> QED
      BY <2>1, <3>1 DEF ArchiveInv, ArchiveTyped, FileIsTracked, OwnerRows
  <2> QED
    BY <2>2, <2>3
<1>7. ASSUME NEW w \in writing, Abandon(w)
      PROVE  ArchiveInv'
  BY <1>7 DEF Abandon, ArchiveInv, ArchiveTyped, FileIsTracked, OwnerRows
<1>8. CASE CollectRows
  <2>1. /\ DOMAIN owned' = Generations
        /\ \A p \in Generations : owned'[p] = IF p \in Orphans THEN NoRow ELSE owned[p]
        /\ UNCHANGED <<hour, events, history, produced, archived, due, writing, copied>>
    BY <1>8 DEF CollectRows
  <2>2. \A p \in OwnerRows : archived[p].of # NoFile => p \in OwnerRows'
    BY <2>1 DEF OwnerRows, Orphans
  <2>3. ArchiveTyped'
    BY <2>1 DEF ArchiveInv, ArchiveTyped
  <2> QED
    BY <2>1, <2>2, <2>3 DEF ArchiveInv, ArchiveTyped, FileIsTracked
<1>9. CASE ExpireCopies
  <2>1. /\ archived' \in [Generations -> StoredRows]
        /\ \A p \in Generations : archived'[p] = IF p \in RunOut THEN NotStored ELSE archived[p]
        /\ UNCHANGED <<hour, events, history, produced, owned, writing, copied>>
    BY <1>9 DEF ExpireCopies, ArchiveInv, ArchiveTyped
  <2>2. /\ due' \in [Generations -> Nat]
        /\ \A c \in Generations : due[c] # 0 => due'[c] # 0
        /\ \A p \in RunOut \cap OwnerRows : due'[archived[p].of] # 0
    <3>1. ASSUME NEW c \in Generations
          PROVE  /\ due'[c] \in Nat
                 /\ due[c] # 0 => due'[c] # 0
                 /\ (\E p \in RunOut \cap OwnerRows : archived[p].of = c) => due'[c] # 0
      <4>1. CASE \E p \in RunOut \cap OwnerRows : archived[p].of = c
        <5>1. due'[c] = Earlier(due[c], hour)
          BY <1>9, <4>1 DEF ExpireCopies
        <5>2. hour \in Nat /\ hour # 0 /\ due[c] \in Nat
          BY <4>1 DEF RunOut, ArchiveInv, ArchiveTyped, StoredRows
        <5> QED
          BY <5>1, <5>2, Soonest
      <4>2. CASE ~\E p \in RunOut \cap OwnerRows : archived[p].of = c
        BY <1>9, <4>2 DEF ExpireCopies, ArchiveInv, ArchiveTyped
      <4> QED
        BY <4>1, <4>2
    <3>2. \A p \in RunOut : archived[p].of \in Generations
      BY DEF RunOut, ArchiveInv, ArchiveTyped, StoredRows
    <3>3. \E g : due' = [c \in Generations |-> g[c]]
      BY <1>9 DEF ExpireCopies
    <3> QED
      BY <3>1, <3>2, <3>3
  <2>3. ArchiveTyped'
    BY <2>1, <2>2 DEF ArchiveInv, ArchiveTyped
  <2>4. FileIsTracked'
    <3>1. CASE copied # "named"
      BY <2>1, <3>1 DEF FileIsTracked
    <3>2. CASE copied = "named" /\ due[produced] # Unscheduled
      BY <2>1, <2>2, <3>2 DEF FileIsTracked, Unscheduled, ArchiveInv, ArchiveTyped
    <3>3. CASE copied = "named" /\ due[produced] = Unscheduled
      <4>1. PICK p \in OwnerRows : archived[p].of = produced
        BY <3>3 DEF ArchiveInv, FileIsTracked
      <4>2. p \in OwnerRows' /\ p \in Generations
        BY <2>1 DEF OwnerRows
      <4>3. CASE p \in RunOut
        BY <2>1, <2>2, <4>1, <4>3 DEF FileIsTracked, Unscheduled
      <4>4. CASE p \notin RunOut
        BY <2>1, <4>1, <4>2, <4>4 DEF FileIsTracked
      <4> QED
        BY <4>3, <4>4
    <3> QED
      BY <3>1, <3>2, <3>3
  <2> QED
    BY <2>3, <2>4 DEF ArchiveInv
<1>10. ASSUME NEW reached \in BOOLEAN, NEW answered \in BOOLEAN, CleanUp(reached, answered)
       PROVE  ArchiveInv'
  <2>1. PICK done \in SUBSET Generations :
          /\ due' = [c \in Generations |-> IF c \notin Due THEN due[c]
                                           ELSE IF c \in done THEN Unscheduled ELSE hour + 1]
          /\ ~reached => done = {}
    <3>1. PICK after \in SUBSET (Due \ {produced}) :
            due' = [c \in Generations |->
                     IF c \notin Due THEN due[c]
                     ELSE IF c \in (IF reached /\ answered THEN Confirmed(after) ELSE {})
                          THEN Unscheduled ELSE hour + 1]
      BY <1>10 DEF CleanUp
    <3> DEFINE done == IF reached /\ answered THEN Confirmed(after) ELSE {}
    <3>2. done \in SUBSET Generations /\ (~reached => done = {})
      BY DEF Confirmed, Due
    <3>3. due' = [c \in Generations |-> IF c \notin Due THEN due[c]
                                        ELSE IF c \in done THEN Unscheduled ELSE hour + 1]
      BY <3>1
    <3> HIDE DEF done
    <3> QED
      BY <3>2, <3>3
  <2>2. /\ UNCHANGED <<hour, events, history, owned, archived, writing>>
        /\ produced' = IF reached THEN Found ELSE produced
        /\ copied' = IF produced' = produced THEN copied ELSE "never"
    BY <1>10 DEF CleanUp
  <2>3. due' \in [Generations -> Nat]
    BY <2>1 DEF ArchiveInv, ArchiveTyped, Unscheduled
  <2>4. ArchiveTyped'
    BY <2>2, <2>3 DEF Found, ArchiveInv, ArchiveTyped
  <2>5. CASE produced' # produced \/ copied # "named"
    BY <2>2, <2>4, <2>5 DEF ArchiveInv, FileIsTracked
  <2>6. CASE produced' = produced /\ copied = "named"
    <3>1. produced \in Generations /\ (reached => produced \notin Due)
      BY <2>2, <2>6 DEF Found, ArchiveInv, ArchiveTyped
    <3>2. due[produced] # 0 => due'[produced] # 0
      BY <2>1, <3>1 DEF ArchiveInv, ArchiveTyped
    <3>3. OwnerRows' = OwnerRows
      BY <2>2 DEF OwnerRows
    <3> QED
      BY <2>2, <2>4, <2>6, <3>2, <3>3 DEF ArchiveInv, FileIsTracked, Unscheduled
  <2> QED
    BY <2>5, <2>6
<1>11. CASE ComfyRestarts \/ HourPasses \/ UNCHANGED archiveVars
  BY <1>11 DEF ComfyRestarts, HourPasses, archiveVars, ArchiveInv, ArchiveTyped, FileIsTracked,
               OwnerRows
<1> QED
  BY <1>1, <1>2, <1>3, <1>4, <1>5, <1>6, <1>7, <1>8, <1>9, <1>10, <1>11 DEF ArchiveNext

\* A file whose bytes the Gateway has copied is not forgotten on ComfyUI's disk, whatever
\* names are reused, rows collected, copies and events expired, deletions refused or calls
\* lost (archiveGenerationOutput, QueueExpiredComfyOutputCleanup, deleteExpiredComfyMedia).
THEOREM FilesTracked == ArchiveSpec => []FileIsTracked
<1>1. ArchiveInit => ArchiveInv
  BY ArchiveHolds
<1>2. ArchiveInv /\ [ArchiveNext]_archiveVars => ArchiveInv'
  BY ArchiveKept
<1>3. ArchiveInv => FileIsTracked
  BY DEF ArchiveInv
<1> QED
  BY <1>1, <1>2, <1>3, PTL DEF ArchiveSpec

-----------------------------------------------------------------------------
(* ComfyInputs *)

AssetRows == [state : {"none", "reserved", "stored"}, bytes : Nat, exact : BOOLEAN,
              expired : BOOLEAN, owned : BOOLEAN]
Requests == [step : {"none", "forwarded", "refused", "accepted", "over"}, size : Nat,
             mask : BOOLEAN]

InputTyped ==
  /\ asset \in [Inputs -> AssetRows]
  /\ file \in [Inputs -> Nat]
  /\ posted \in [Inputs -> Requests]
  /\ cleaner.listed \subseteq Inputs /\ cleaner.confirmed \subseteq cleaner.listed

\* What the rows count is within the quotas, and a row counts for at least its file,
\* unless the file has none for good.
Within(us, quota, files) == BytesCounted(us) <= quota /\ Cardinality(InputRows(us)) <= files
Reserves ==
  /\ Within(Inputs, GlobalQuota, GlobalFiles)
  /\ \A u \in Inputs : Within(InputsOf(Uploader[u]), UserQuota, UserFiles)
Covers(u) ==
  /\ u \notin loose => file[u] <= asset[u].bytes
  /\ u \in loose => ~asset[u].owned /\ posted[u].step = "over"
  /\ asset[u].bytes <= MaxStored
  /\ asset[u].bytes > 0 => asset[u].state # "none"

\* A request that ComfyUI has not answered has no file; until it answers, its reservation
\* stands and the clean-up does not look at it; and the reservation is for what it sends.
InOrder(u) ==
  /\ posted[u].step \in {"none", "forwarded"} => file[u] = 0
  /\ posted[u].step \in {"none", "forwarded"} => ~asset[u].expired /\ u \notin cleaner.listed
  /\ posted[u].step = "none" => asset[u].state = "none" /\ ~asset[u].owned
  /\ posted[u].step = "forwarded" =>
       asset[u].state = "reserved" /\ posted[u].size \in 1..MaxStored
  /\ posted[u].step \in {"forwarded", "accepted", "refused"} /\ asset[u].state = "reserved" =>
       asset[u].bytes = ReservedBytes(posted[u].size, posted[u].mask)

\* What the clean-up forgets is gone.
GoneFirst == \A u \in cleaner.confirmed : file[u] = 0

InputInv ==
  /\ InputTyped /\ Reserves /\ GoneFirst
  /\ \A u \in Inputs : Covers(u) /\ InOrder(u)

\* Of finitely many files there are finitely many bytes.
LEMMA BytesFinite ==
  ASSUME NEW us \in SUBSET Inputs
  PROVE  /\ IsFiniteSet(us \X (1..MaxStored)) /\ IsFiniteSet(us)
         /\ IsFiniteSet(RowBytes(us)) /\ IsFiniteSet(FileBytes(us))
         /\ BytesCounted(us) \in Nat /\ Cardinality(InputRows(us)) \in Nat
         /\ IsFiniteSet(InputRows(us))
<1>1. IsFiniteSet(us)
  BY FS_Subset, InputAssumption
<1>2. IsFiniteSet(us \X (1..MaxStored))
  <2> DEFINE places == 1..MaxStored
  <2>1. IsFiniteSet(places)
    BY FS_Interval, InputAssumption
  <2> HIDE DEF places
  <2> QED
    BY <1>1, <2>1, FS_Product DEF places
<1>3. /\ RowBytes(us) \in SUBSET (us \X (1..MaxStored))
      /\ FileBytes(us) \in SUBSET (us \X (1..MaxStored)) /\ InputRows(us) \in SUBSET us
  BY DEF RowBytes, FileBytes, InputRows
<1>4. IsFiniteSet(RowBytes(us)) /\ IsFiniteSet(FileBytes(us)) /\ IsFiniteSet(InputRows(us))
  BY <1>1, <1>2, <1>3, FS_Subset
<1> QED
  BY <1>1, <1>2, <1>4, FS_CardinalityType DEF BytesCounted

\* Rows that count no more than before, and are nobody's that they were not, keep the quotas.
LEMMA ReservesShrink ==
  ASSUME Reserves,
         \A u \in Inputs :
           /\ asset'[u].bytes \in Nat /\ asset[u].bytes \in Nat
           /\ asset'[u].bytes <= asset[u].bytes
           /\ asset'[u].owned => asset[u].owned
           /\ asset'[u].state # "none" => asset[u].state # "none"
  PROVE  Reserves'
<1>1. ASSUME NEW us \in SUBSET Inputs, NEW vs \in SUBSET us, NEW quota \in Nat, NEW files \in Nat,
             Within(us, quota, files)
      PROVE  Cardinality(RowBytes(vs)') <= quota /\ Cardinality(InputRows(vs)') <= files
  <2>1. RowBytes(vs)' \in SUBSET RowBytes(us) /\ InputRows(vs)' \in SUBSET InputRows(us)
    BY DEF RowBytes, InputRows
  <2>2. /\ Cardinality(RowBytes(vs)') <= BytesCounted(us)
        /\ Cardinality(InputRows(vs)') <= Cardinality(InputRows(us))
    BY <2>1, BytesFinite, FS_Subset DEF BytesCounted
  <2>3. Cardinality(RowBytes(vs)') \in Nat /\ Cardinality(InputRows(vs)') \in Nat
    BY <2>1, BytesFinite, FS_Subset, FS_CardinalityType
  <2>4. BytesCounted(us) \in Nat /\ Cardinality(InputRows(us)) \in Nat
    BY BytesFinite
  <2> QED
    BY <1>1, <2>2, <2>3, <2>4 DEF Within
<1>2. Within(Inputs, GlobalQuota, GlobalFiles)'
  BY <1>1, InputAssumption DEF Reserves, Within, BytesCounted
<1>3. ASSUME NEW u \in Inputs
      PROVE  Within(InputsOf(Uploader[u]), UserQuota, UserFiles)'
  <2>1. /\ InputsOf(Uploader[u])' \in SUBSET InputsOf(Uploader[u])
        /\ InputsOf(Uploader[u]) \in SUBSET Inputs
    BY DEF InputsOf
  <2> QED
    BY <1>1, <1>3, <2>1, InputAssumption DEF Reserves, Within, BytesCounted
<1> QED
  BY <1>2, <1>3 DEF Reserves

\* A reservation that is admitted keeps the quota it is admitted to.
LEMMA ReserveFits ==
  ASSUME NEW u \in Inputs, NEW bytes \in 0..MaxStored, NEW us \in SUBSET Inputs,
         NEW vs \in SUBSET Inputs, vs \subseteq us \cup {u},
         NEW quota \in Nat, NEW files \in Nat,
         BytesCounted(us) + bytes <= quota, Cardinality(InputRows(us)) < files,
         asset'[u].bytes = bytes, \A v \in Inputs : v # u => asset'[v] = asset[v]
  PROVE  Cardinality(RowBytes(vs)') <= quota /\ Cardinality(InputRows(vs)') <= files
<1> DEFINE new == 1..bytes
           own == {u} \X new
<1>1. IsFiniteSet(new) /\ Cardinality(new) = bytes
  BY FS_Interval
<1>2. IsFiniteSet(own) /\ Cardinality(own) = bytes
  <2> HIDE DEF new
  <2>1. IsFiniteSet({u}) /\ Cardinality({u}) = 1
    BY FS_Singleton
  <2>2. IsFiniteSet(own) /\ Cardinality(own) = Cardinality({u}) * Cardinality(new)
    BY <1>1, <2>1, FS_Product
  <2> QED
    BY <1>1, <2>1, <2>2
<1>3. RowBytes(vs)' \in SUBSET (RowBytes(us) \cup own)
  BY DEF RowBytes
<1> HIDE DEF own
<1>4. /\ IsFiniteSet(RowBytes(us)) /\ BytesCounted(us) \in Nat
      /\ IsFiniteSet(InputRows(us)) /\ Cardinality(InputRows(us)) \in Nat
  BY BytesFinite
<1>5. /\ IsFiniteSet(RowBytes(us) \cup own)
      /\ Cardinality(RowBytes(us) \cup own) <= BytesCounted(us) + bytes
  <2>1. /\ IsFiniteSet(RowBytes(us) \cup own)
        /\ Cardinality(RowBytes(us) \cup own) =
             BytesCounted(us) + bytes - Cardinality(RowBytes(us) \cap own)
    BY <1>2, <1>4, FS_Union DEF BytesCounted
  <2>2. Cardinality(RowBytes(us) \cap own) \in Nat
    BY <1>2, FS_Subset, FS_CardinalityType
  <2> QED
    BY <1>4, <2>1, <2>2
<1>6. Cardinality(RowBytes(vs)') <= quota
  <2>1. /\ Cardinality(RowBytes(vs)') <= Cardinality(RowBytes(us) \cup own)
        /\ Cardinality(RowBytes(vs)') \in Nat /\ Cardinality(RowBytes(us) \cup own) \in Nat
    BY <1>3, <1>5, FS_Subset, FS_CardinalityType
  <2> QED
    BY <1>4, <1>5, <2>1
<1>7. Cardinality(InputRows(vs)') <= files
  <2>1. InputRows(vs)' \in SUBSET (InputRows(us) \cup {u})
    BY DEF InputRows
  <2>2. /\ IsFiniteSet(InputRows(us) \cup {u})
        /\ Cardinality(InputRows(us) \cup {u}) <= Cardinality(InputRows(us)) + 1
    <3> DEFINE kept == InputRows(us)
    <3>1. IsFiniteSet(kept) /\ Cardinality(kept) \in Nat
      BY <1>4
    <3> HIDE DEF kept
    <3>2. /\ IsFiniteSet(kept \cup {u})
          /\ Cardinality(kept \cup {u}) = IF u \in kept THEN Cardinality(kept)
                                          ELSE Cardinality(kept) + 1
      BY <3>1, FS_AddElement
    <3>3. IsFiniteSet(kept \cup {u}) /\ Cardinality(kept \cup {u}) <= Cardinality(kept) + 1
      BY <3>1, <3>2
    <3> QED
      BY <3>3 DEF kept
  <2>3. /\ Cardinality(InputRows(vs)') <= Cardinality(InputRows(us) \cup {u})
        /\ Cardinality(InputRows(vs)') \in Nat /\ Cardinality(InputRows(us) \cup {u}) \in Nat
    BY <2>1, <2>2, FS_Subset, FS_CardinalityType
  <2> QED
    BY <1>4, <2>2, <2>3
<1> QED
  BY <1>6, <1>7

LEMMA ReserveKeeps ==
  ASSUME InputInv, NEW u \in Inputs, NEW size \in 1..MaxStored, NEW mask \in BOOLEAN,
         ReserveInput(u, size, mask)
  PROVE  InputInv'
<1> DEFINE row == Reserved(size, mask)
<1>1. /\ row \in AssetRows /\ row.bytes = ReservedBytes(size, mask) /\ row.state = "reserved"
      /\ row.owned /\ ~row.expired /\ row.bytes \in 1..MaxStored
  BY InputAssumption DEF Reserved, ReservedBytes, AssetRows
<1>2. asset' = [asset EXCEPT ![u] = row] /\ UNCHANGED <<file, cleaner, loose>>
  BY DEF ReserveInput
<1> HIDE DEF row
<1>3. /\ asset' \in [Inputs -> AssetRows] /\ asset'[u] = row
      /\ \A v \in Inputs : v # u => asset'[v] = asset[v]
  BY <1>1, <1>2 DEF InputInv, InputTyped
<1> DEFINE sent == [step |-> "forwarded", size |-> size, mask |-> mask]
<1>4. /\ sent \in Requests /\ sent.step = "forwarded" /\ sent.size = size /\ sent.mask = mask
      /\ posted' = [posted EXCEPT ![u] = sent]
  BY InputAssumption DEF ReserveInput, Requests
<1> HIDE DEF sent
<1>5. /\ posted' \in [Inputs -> Requests] /\ posted'[u] = sent
      /\ \A v \in Inputs : v # u => posted'[v] = posted[v]
  BY <1>4 DEF InputInv, InputTyped
<1>6. InputTyped'
  BY <1>2, <1>3, <1>5 DEF InputInv, InputTyped
<1>7. Reserves'
  <2>1. Within(Inputs, GlobalQuota, GlobalFiles)'
    <3>1. /\ BytesCounted(Inputs) + row.bytes <= GlobalQuota
          /\ Cardinality(InputRows(Inputs)) < GlobalFiles
      BY <1>1 DEF ReserveInput
    <3> QED
      BY <1>1, <1>3, <3>1, ReserveFits, InputAssumption DEF Within, BytesCounted
  <2>2. ASSUME NEW v \in Inputs
        PROVE  Within(InputsOf(Uploader[v]), UserQuota, UserFiles)'
    <3>1. CASE Uploader[v] = Uploader[u]
      <4>1. /\ BytesCounted(InputsOf(Uploader[u])) + row.bytes <= UserQuota
            /\ Cardinality(InputRows(InputsOf(Uploader[u]))) < UserFiles
        BY <1>1 DEF ReserveInput
      <4>2. /\ InputsOf(Uploader[v])' \subseteq InputsOf(Uploader[u]) \cup {u}
            /\ InputsOf(Uploader[v])' \in SUBSET Inputs /\ InputsOf(Uploader[u]) \in SUBSET Inputs
        BY <1>3, <3>1 DEF InputsOf
      <4>3. PICK vs \in SUBSET Inputs : vs = InputsOf(Uploader[v])'
        BY <4>2
      <4>4. Cardinality(RowBytes(vs)') <= UserQuota /\ Cardinality(InputRows(vs)') <= UserFiles
        BY <1>1, <1>3, <4>1, <4>2, <4>3, ReserveFits, InputAssumption
      <4> QED
        BY <4>3, <4>4 DEF Within, BytesCounted, RowBytes, InputRows
    <3>2. CASE Uploader[v] # Uploader[u]
      <4>1. /\ InputsOf(Uploader[v])' = InputsOf(Uploader[v])
            /\ \A w \in InputsOf(Uploader[v]) : asset'[w] = asset[w]
        BY <1>3, <3>2 DEF InputsOf
      <4>2. /\ RowBytes(InputsOf(Uploader[v]))' = RowBytes(InputsOf(Uploader[v]))
            /\ InputRows(InputsOf(Uploader[v]))' = InputRows(InputsOf(Uploader[v]))
        BY <4>1 DEF RowBytes, InputRows
      <4> QED
        BY <4>2 DEF InputInv, Reserves, Within, BytesCounted
    <3> QED
      BY <3>1, <3>2
  <2> QED
    BY <2>1, <2>2 DEF Reserves
<1>8. GoneFirst'
  BY <1>2 DEF InputInv, GoneFirst
<1>9. ASSUME NEW v \in Inputs
      PROVE  Covers(v)' /\ InOrder(v)'
  <2>1. CASE v = u
    <3>1. file[u] = 0 /\ u \notin cleaner.listed /\ u \notin loose
      BY DEF InputInv, Covers, InOrder, ReserveInput
    <3> QED
      BY <1>1, <1>2, <1>3, <1>4, <1>5, <2>1, <3>1, InputAssumption DEF Covers, InOrder
  <2>2. CASE v # u
    BY <1>2, <1>3, <1>5, <2>2 DEF InputInv, Covers, InOrder
  <2> QED
    BY <2>1, <2>2
<1> QED
  BY <1>6, <1>7, <1>8, <1>9 DEF InputInv

\* A step of one request: what becomes of its row, its file and itself.
LEMMA OneRequest ==
  ASSUME InputInv, NEW u \in Inputs, UNCHANGED cleaner,
         NEW row \in AssetRows, asset' = [asset EXCEPT ![u] = row],
         NEW size \in Nat, file' = [file EXCEPT ![u] = size],
         NEW next \in Requests, posted' = [posted EXCEPT ![u] = next],
         row.bytes <= asset[u].bytes, row.owned => asset[u].owned,
         row.state # "none" => asset[u].state # "none",
         loose \subseteq loose', loose' \subseteq loose \cup {u},
         u \notin loose' => size <= row.bytes,
         u \in loose' => ~row.owned /\ next.step = "over",
         row.bytes > 0 => row.state # "none",
         next.step \notin {"none", "forwarded"},
         u \in cleaner.confirmed => size = 0,
         next.step \in {"accepted", "refused"} /\ row.state = "reserved" =>
           row.bytes = ReservedBytes(next.size, next.mask)
  PROVE  InputInv'
<1>1. /\ asset' \in [Inputs -> AssetRows] /\ asset'[u] = row
      /\ file' \in [Inputs -> Nat] /\ file'[u] = size
      /\ posted' \in [Inputs -> Requests] /\ posted'[u] = next
      /\ \A v \in Inputs : v # u =>
           asset'[v] = asset[v] /\ file'[v] = file[v] /\ posted'[v] = posted[v]
  BY DEF InputInv, InputTyped
<1>2. InputTyped'
  BY <1>1 DEF InputInv, InputTyped
<1>3. Reserves'
  <2>1. ASSUME NEW v \in Inputs
        PROVE  /\ asset'[v].bytes \in Nat /\ asset[v].bytes \in Nat
               /\ asset'[v].bytes <= asset[v].bytes
               /\ asset'[v].owned => asset[v].owned
               /\ asset'[v].state # "none" => asset[v].state # "none"
    BY <1>1 DEF InputInv, InputTyped, AssetRows
  <2> QED
    BY <2>1, ReservesShrink DEF InputInv
<1>4. GoneFirst'
  BY <1>1 DEF InputInv, InputTyped, GoneFirst
<1>5. ASSUME NEW v \in Inputs
      PROVE  Covers(v)' /\ InOrder(v)'
  <2>1. CASE v = u
    BY <1>1, <2>1, InputAssumption DEF InputInv, InputTyped, AssetRows, Covers, InOrder
  <2>2. CASE v # u
    <3>1. v \in loose' <=> v \in loose
      BY <2>2
    <3> QED
      BY <1>1, <2>2, <3>1 DEF InputInv, Covers, InOrder
  <2> QED
    BY <2>1, <2>2
<1> QED
  BY <1>2, <1>3, <1>4, <1>5 DEF InputInv

LEMMA InputHolds == InputInit => InputInv
<1> SUFFICES ASSUME InputInit
             PROVE  InputInv
  OBVIOUS
<1>1. InputTyped
  BY DEF InputInit, InputTyped, AssetRows, Requests, NoAsset, AtRest
<1>2. Reserves
  <2>1. ASSUME NEW us \in SUBSET Inputs
        PROVE  Cardinality(RowBytes(us)) = 0 /\ Cardinality(InputRows(us)) = 0
    <3>1. RowBytes(us) = {} /\ InputRows(us) = {}
      BY InputAssumption DEF InputInit, RowBytes, InputRows, NoAsset
    <3> QED
      BY <3>1, FS_EmptySet
  <2>2. \A u \in Inputs : InputsOf(Uploader[u]) \in SUBSET Inputs
    BY DEF InputsOf
  <2> QED
    BY <2>1, <2>2, InputAssumption DEF Reserves, Within, BytesCounted
<1>3. GoneFirst
  BY DEF InputInit, GoneFirst, AtRest
<1>4. \A u \in Inputs : Covers(u) /\ InOrder(u)
  BY InputAssumption DEF InputInit, Covers, InOrder, NoAsset, AtRest
<1> QED
  BY <1>1, <1>2, <1>3, <1>4 DEF InputInv

\* Rows that go, or change hands, or run out, while the files and the requests stay.
LEMMA RowsChange ==
  ASSUME InputInv, UNCHANGED <<file, posted, loose>>, asset' \in [Inputs -> AssetRows],
         cleaner'.listed \subseteq cleaner.listed, cleaner'.confirmed \subseteq cleaner'.listed,
         cleaner'.confirmed \subseteq cleaner.confirmed,
         \A u \in Inputs :
           \/ /\ asset'[u].bytes = asset[u].bytes /\ asset'[u].state = asset[u].state
              /\ asset'[u].owned => asset[u].owned
              /\ asset'[u].expired =>
                   asset[u].expired \/ posted[u].step \notin {"none", "forwarded"}
           \/ asset'[u] = NoAsset /\ file[u] = 0 /\ posted[u].step # "forwarded"
  PROVE  InputInv'
<1>1. InputTyped'
  BY DEF InputInv, InputTyped
<1>2. Reserves'
  <2>1. ASSUME NEW u \in Inputs
        PROVE  /\ asset'[u].bytes \in Nat /\ asset[u].bytes \in Nat
               /\ asset'[u].bytes <= asset[u].bytes
               /\ asset'[u].owned => asset[u].owned
               /\ asset'[u].state # "none" => asset[u].state # "none"
    BY DEF InputInv, InputTyped, AssetRows, NoAsset
  <2> QED
    BY <2>1, ReservesShrink DEF InputInv
<1>3. GoneFirst'
  BY DEF InputInv, GoneFirst
<1>4. ASSUME NEW u \in Inputs
      PROVE  Covers(u)' /\ InOrder(u)'
  <2>1. file[u] \in Nat /\ asset[u].bytes \in Nat /\ Covers(u) /\ InOrder(u)
    BY DEF InputInv, InputTyped, AssetRows
  <2>2. CASE asset'[u] = NoAsset /\ file[u] = 0 /\ posted[u].step # "forwarded"
    BY <2>1, <2>2, InputAssumption DEF Covers, InOrder, NoAsset
  <2>3. CASE ~(asset'[u] = NoAsset /\ file[u] = 0 /\ posted[u].step # "forwarded")
    BY <2>1, <2>3 DEF Covers, InOrder
  <2> QED
    BY <2>2, <2>3
<1> QED
  BY <1>1, <1>2, <1>3, <1>4 DEF InputInv

LEMMA InputKept ==
  ASSUME InputInv, [InputNext]_inputVars
  PROVE  InputInv'
<1>1. ASSUME NEW u \in Inputs, NEW size \in 1..MaxStored, NEW mask \in BOOLEAN,
             ReserveInput(u, size, mask)
      PROVE  InputInv'
  BY <1>1, ReserveKeeps
<1>2. ASSUME NEW u \in Inputs,
             \/ \E size \in 0..MaxStored :
                  \/ ComfyAccepts(u, size) \/ LoseAnswer(u, size) \/ ComfyRefuses(u, size)
                  \/ UploadUnreserved(u, size)
             \/ \E ok \in BOOLEAN : FinalizeInput(u, ok) \/ ReleaseInput(u, ok)
      PROVE  InputInv'
  <2> DEFINE Moved(row, size, next) ==
        /\ asset' = [asset EXCEPT ![u] = row] /\ file' = [file EXCEPT ![u] = size]
        /\ posted' = [posted EXCEPT ![u] = next]
        /\ row.bytes <= asset[u].bytes /\ (row.owned => asset[u].owned)
        /\ row.state # "none" => asset[u].state # "none"
        /\ loose \subseteq loose' /\ loose' \subseteq loose \cup {u}
        /\ u \notin loose' => size <= row.bytes
        /\ u \in loose' => ~row.owned /\ next.step = "over"
        /\ row.bytes > 0 => row.state # "none"
        /\ next.step \notin {"none", "forwarded"}
        /\ u \in cleaner.confirmed => size = 0
        /\ next.step \in {"accepted", "refused"} /\ row.state = "reserved" =>
             row.bytes = ReservedBytes(next.size, next.mask)
  <2>0. /\ asset[u] \in AssetRows /\ file[u] \in Nat /\ posted[u] \in Requests
        /\ Covers(u) /\ InOrder(u) /\ (u \in cleaner.confirmed => file[u] = 0)
        /\ asset = [asset EXCEPT ![u] = asset[u]] /\ file = [file EXCEPT ![u] = file[u]]
        /\ cleaner.confirmed \subseteq cleaner.listed
    BY DEF InputInv, InputTyped, GoneFirst
  <2>1. RequestOver \in Requests /\ RequestOver.step = "over"
    BY DEF RequestOver, Requests
  <2>2. UNCHANGED cleaner
    BY <1>2 DEF ComfyAccepts, LoseAnswer, ComfyRefuses, UploadUnreserved, FinalizeInput,
                ReleaseInput
  <2>9. posted[u].step # "over" => u \notin loose
    BY <2>0 DEF Covers
  <2>3. \E row \in AssetRows, size \in Nat, next \in Requests : Moved(row, size, next)
    <3>1. ASSUME NEW size \in 0..MaxStored, ComfyAccepts(u, size)
          PROVE  \E next \in Requests : Moved(asset[u], size, next)
      <4> DEFINE next == [posted[u] EXCEPT !.step = "accepted"]
      <4>1. /\ next \in Requests /\ next.step = "accepted"
            /\ next.size = posted[u].size /\ next.mask = posted[u].mask
        BY <2>0 DEF Requests
      <4>2. posted' = [posted EXCEPT ![u] = next]
        BY <3>1 DEF ComfyAccepts
      <4> HIDE DEF next
      <4>3. size <= asset[u].bytes
        BY <2>0, <3>1 DEF ComfyAccepts, StoredSizes, InOrder, ReservedBytes, Requests
      <4>4. /\ asset[u].bytes \in Nat /\ (asset[u].bytes > 0 => asset[u].state # "none")
            /\ u \notin cleaner.confirmed
            /\ asset[u].bytes = ReservedBytes(posted[u].size, posted[u].mask)
        BY <2>0, <3>1 DEF ComfyAccepts, InOrder, Covers, AssetRows
      <4>5. /\ asset' = asset /\ file' = [file EXCEPT ![u] = size]
            /\ loose' = loose /\ u \notin loose
        BY <2>9, <3>1 DEF ComfyAccepts
      <4>6. Moved(asset[u], size, next)
        BY <2>0, <4>1, <4>2, <4>3, <4>4, <4>5
      <4> HIDE DEF Moved
      <4> QED
        BY <4>1, <4>6
    <3>2. ASSUME NEW size \in 0..MaxStored, LoseAnswer(u, size)
          PROVE  Moved(asset[u], size, RequestOver)
      <4>1. size <= asset[u].bytes
        BY <2>0, <3>2 DEF LoseAnswer, StoredSizes, InOrder, ReservedBytes, Requests, AssetRows
      <4> QED
        BY <2>0, <2>1, <2>9, <3>2, <4>1 DEF LoseAnswer, InOrder, Covers, AssetRows
    <3>3. ASSUME NEW size \in 0..MaxStored, ComfyRefuses(u, size)
          PROVE  \E next \in Requests : Moved(asset[u], size, next)
      <4> DEFINE next == [posted[u] EXCEPT !.step = "refused"]
      <4>1. /\ next \in Requests /\ next.step = "refused"
            /\ next.size = posted[u].size /\ next.mask = posted[u].mask
        BY <2>0 DEF Requests
      <4>2. posted' = [posted EXCEPT ![u] = next]
        BY <3>3 DEF ComfyRefuses
      <4> HIDE DEF next
      <4>3. size <= asset[u].bytes
        BY <2>0, <3>3 DEF ComfyRefuses, StoredSizes, InOrder, ReservedBytes, Requests, AssetRows
      <4>4. /\ asset[u].bytes \in Nat /\ (asset[u].bytes > 0 => asset[u].state # "none")
            /\ u \notin cleaner.confirmed
            /\ asset[u].bytes = ReservedBytes(posted[u].size, posted[u].mask)
        BY <2>0, <3>3 DEF ComfyRefuses, InOrder, Covers, AssetRows
      <4>5. /\ asset' = asset /\ file' = [file EXCEPT ![u] = size]
            /\ loose' = loose /\ u \notin loose
        BY <2>9, <3>3 DEF ComfyRefuses
      <4>6. Moved(asset[u], size, next)
        BY <2>0, <4>1, <4>2, <4>3, <4>4, <4>5
      <4> HIDE DEF Moved
      <4> QED
        BY <4>1, <4>6
    <3>6. ASSUME NEW size \in 0..MaxStored, UploadUnreserved(u, size)
          PROVE  Moved(asset[u], size, RequestOver)
      <4>1. /\ asset[u].state = "none" /\ asset[u].bytes = 0 /\ ~asset[u].owned
            /\ u \notin cleaner.confirmed
        BY <2>0, <3>6 DEF UploadUnreserved, InOrder, Covers, AssetRows
      <4> QED
        BY <2>0, <2>1, <3>6, <4>1 DEF UploadUnreserved
    <3>4. ASSUME NEW ok \in BOOLEAN, FinalizeInput(u, ok)
          PROVE  \E row \in AssetRows : Moved(row, file[u], RequestOver)
      <4>1. CASE ok /\ asset[u].state = "reserved" /\ (posted[u].mask => file[u] # 0)
        <5> DEFINE bytes == IF posted[u].mask THEN file[u] ELSE posted[u].size
                   row == [asset[u] EXCEPT !.state = "stored", !.expired = FALSE,
                                           !.exact = TRUE, !.bytes = bytes]
        <5>1. bytes \in Nat /\ bytes <= asset[u].bytes /\ file[u] <= bytes
          BY <2>0, <2>9, <3>4, <4>1
             DEF FinalizeInput, InOrder, Covers, ReservedBytes, AssetRows, Requests
        <5>2. asset' = [asset EXCEPT ![u] = row]
          BY <3>4, <4>1 DEF FinalizeInput
        <5> HIDE DEF bytes
        <5>3. /\ row \in AssetRows /\ row.bytes = bytes /\ row.state = "stored"
              /\ row.owned = asset[u].owned
          BY <2>0, <5>1 DEF AssetRows
        <5> HIDE DEF row
        <5>4. Moved(row, file[u], RequestOver)
          BY <2>0, <2>1, <2>9, <3>4, <4>1, <5>1, <5>2, <5>3 DEF FinalizeInput
        <5> QED
          BY <5>3, <5>4
      <4>2. CASE ~(ok /\ asset[u].state = "reserved" /\ (posted[u].mask => file[u] # 0))
        <5>1. Moved(asset[u], file[u], RequestOver)
          BY <2>0, <2>1, <2>9, <3>4, <4>2 DEF FinalizeInput, Covers, AssetRows
        <5> QED
          BY <2>0, <5>1
      <4> QED
        BY <4>1, <4>2
    <3>5. ASSUME NEW ok \in BOOLEAN, ReleaseInput(u, ok)
          PROVE  \E row \in AssetRows : Moved(row, file[u], RequestOver)
      <4> DEFINE released == ok /\ asset[u].state = "reserved"
                 row == IF released THEN NoAsset ELSE asset[u]
      <4>1. /\ asset' = [asset EXCEPT ![u] = row] /\ u \notin loose /\ file' = file
            /\ posted' = [posted EXCEPT ![u] = RequestOver]
            /\ loose' = IF released /\ file[u] # 0 THEN loose \cup {u} ELSE loose
        BY <2>9, <3>5 DEF ReleaseInput, MayRelease
      <4>2. /\ row \in AssetRows /\ row.bytes <= asset[u].bytes
            /\ row.owned => asset[u].owned
            /\ row.state # "none" => asset[u].state # "none"
            /\ row.bytes > 0 => row.state # "none"
            /\ released => ~row.owned
            /\ ~released => row = asset[u]
        BY <2>0 DEF NoAsset, AssetRows, Covers
      <4>3. /\ row.bytes \in Nat
            /\ u \notin loose' => file[u] <= row.bytes
            /\ u \in loose' => ~row.owned
            /\ loose \subseteq loose' /\ loose' \subseteq loose \cup {u}
        BY <2>0, <4>1, <4>2 DEF Covers, AssetRows
      <4> HIDE DEF row, released
      <4>4. Moved(row, file[u], RequestOver)
        BY <2>0, <2>1, <4>1, <4>2, <4>3
      <4> HIDE DEF Moved
      <4> QED
        BY <4>2, <4>4
    <3> HIDE DEF Moved
    <3> QED
      BY <1>2, <2>0, <2>1, <3>1, <3>2, <3>3, <3>4, <3>5, <3>6
  <2>4. PICK row \in AssetRows, size \in Nat, next \in Requests : Moved(row, size, next)
    BY <2>3
  <2> QED
    BY <2>2, <2>4, OneRequest
<1>3. ASSUME NEW u \in Inputs, DisownInputs(u) \/ ExpireInput(u)
      PROVE  InputInv'
  <2>1. /\ asset' \in [Inputs -> AssetRows] /\ UNCHANGED <<file, posted, cleaner, loose>>
        /\ \A v \in Inputs :
             /\ asset'[v].bytes = asset[v].bytes /\ asset'[v].state = asset[v].state
             /\ asset'[v].owned => asset[v].owned
             /\ asset'[v].expired =>
                  asset[v].expired \/ posted[v].step \notin {"none", "forwarded"}
    <3>1. CASE DisownInputs(u)
      BY <3>1 DEF DisownInputs, InputInv, InputTyped, AssetRows
    <3>2. CASE ExpireInput(u)
      <4> DEFINE row == [asset[u] EXCEPT !.expired = TRUE]
      <4>1. /\ row \in AssetRows /\ row.bytes = asset[u].bytes /\ row.state = asset[u].state
            /\ row.owned = asset[u].owned
        BY DEF InputInv, InputTyped, AssetRows
      <4>2. asset' = [asset EXCEPT ![u] = row] /\ UNCHANGED <<file, posted, cleaner, loose>>
        BY <3>2 DEF ExpireInput
      <4> HIDE DEF row
      <4>3. posted[u].step \notin {"none", "forwarded"}
        BY <3>2 DEF ExpireInput, InputInv, InOrder
      <4> QED
        BY <4>1, <4>2, <4>3 DEF InputInv, InputTyped
    <3> QED
      BY <1>3, <3>1, <3>2
  <2> QED
    BY <2>1, RowsChange DEF InputInv, InputTyped
<1>4. ASSUME NEW listed \in SUBSET Inputs, NEW fetched \in SUBSET listed,
             ListInputs(listed, fetched)
      PROVE  InputInv'
  <2>1. /\ cleaner'.listed = listed /\ cleaner'.confirmed = {}
        /\ UNCHANGED <<asset, file, posted, loose>> /\ \A u \in listed : asset[u].expired
    BY <1>4 DEF ListInputs
  <2>2. InputTyped' /\ GoneFirst'
    BY <2>1 DEF InputInv, InputTyped, GoneFirst
  <2>3. Reserves'
    BY <2>1 DEF InputInv, Reserves, Within, BytesCounted, RowBytes, InputRows, InputsOf
  <2>4. \A u \in Inputs : Covers(u)' /\ InOrder(u)'
    BY <2>1 DEF InputInv, Covers, InOrder
  <2> QED
    BY <2>2, <2>3, <2>4 DEF InputInv
<1>5. ASSUME NEW reached \in SUBSET Inputs, NEW failed \in BOOLEAN, DeleteInputs(reached, failed)
      PROVE  InputInv'
  <2>1. /\ UNCHANGED <<asset, posted, loose>>
        /\ \A u \in Inputs : file'[u] = IF u \in reached \cap cleaner.exact THEN 0 ELSE file[u]
        /\ file' \in [Inputs -> Nat]
    BY <1>5 DEF DeleteInputs, InputInv, InputTyped
  <2>2. /\ cleaner'.listed \subseteq cleaner.listed /\ cleaner'.confirmed \subseteq cleaner'.listed
        /\ \A u \in cleaner'.confirmed : file'[u] = 0
    <3>1. CASE failed
      BY <1>5, <3>1 DEF DeleteInputs, AtRest
    <3>2. CASE ~failed
      <4>1. /\ cleaner' = [cleaner EXCEPT !.step = "asked", !.confirmed = SafeToForget]
            /\ reached = cleaner.listed
        BY <1>5, <3>2 DEF DeleteInputs
      <4>2. cleaner'.listed = cleaner.listed /\ cleaner'.confirmed = SafeToForget
        BY <4>1
      <4> QED
        BY <2>1, <4>1, <4>2 DEF SafeToForget, InputInv, InputTyped
    <3> QED
      BY <3>1, <3>2
  <2>3. InputTyped' /\ GoneFirst'
    BY <2>1, <2>2 DEF InputInv, InputTyped, GoneFirst
  <2>4. Reserves'
    BY <2>1 DEF InputInv, Reserves, Within, BytesCounted, RowBytes, InputRows, InputsOf
  <2>5. ASSUME NEW u \in Inputs
        PROVE  Covers(u)' /\ InOrder(u)'
    BY <2>1, <2>2 DEF InputInv, InputTyped, AssetRows, Covers, InOrder
  <2> QED
    BY <2>3, <2>4, <2>5 DEF InputInv
<1>6. ASSUME NEW ok \in BOOLEAN, ForgetInputs(ok)
      PROVE  InputInv'
  <2>1. /\ UNCHANGED <<file, posted, loose>> /\ cleaner'.listed = {} /\ cleaner'.confirmed = {}
        /\ \A u \in Inputs : asset'[u] = IF ok /\ u \in cleaner.confirmed THEN NoAsset ELSE asset[u]
        /\ asset' \in [Inputs -> AssetRows]
    <3>1. NoAsset \in AssetRows
      BY DEF NoAsset, AssetRows
    <3> QED
      BY <1>6, <3>1 DEF ForgetInputs, AtRest, InputInv, InputTyped
  <2>2. \A u \in cleaner.confirmed : file[u] = 0 /\ posted[u].step # "forwarded"
    BY DEF InputInv, InputTyped, GoneFirst, InOrder
  <2> QED
    BY <2>1, <2>2, RowsChange
<1>7. CASE UNCHANGED inputVars
  BY <1>7 DEF inputVars, InputInv, InputTyped, Reserves, Within, BytesCounted, RowBytes,
              InputRows, InputsOf, GoneFirst, Covers, InOrder
<1> QED
  BY <1>1, <1>2, <1>3, <1>4, <1>5, <1>6, <1>7 DEF InputNext

LEMMA InputsFit ==
  ASSUME InputInv
  PROVE  WithinBudget
<1>1. ASSUME NEW us \in SUBSET Inputs, NEW vs \in SUBSET us, vs \cap loose = {},
             NEW quota \in Nat, NEW files \in Nat, Within(us, quota, files)
      PROVE  Fits(vs, quota, files)
  <2>1. FileBytes(vs) \in SUBSET RowBytes(us) /\ Files(vs) \in SUBSET InputRows(us)
    BY <1>1, InputAssumption
       DEF FileBytes, RowBytes, Files, InputRows, InputInv, InputTyped, AssetRows, Covers
  <2>2. /\ IsFiniteSet(RowBytes(us)) /\ Cardinality(RowBytes(us)) \in Nat
        /\ IsFiniteSet(InputRows(us)) /\ Cardinality(InputRows(us)) \in Nat
    BY BytesFinite DEF BytesCounted
  <2>3. /\ Cardinality(FileBytes(vs)) <= Cardinality(RowBytes(us))
        /\ Cardinality(Files(vs)) <= Cardinality(InputRows(us))
        /\ Cardinality(FileBytes(vs)) \in Nat /\ Cardinality(Files(vs)) \in Nat
    BY <2>1, <2>2, FS_Subset, FS_CardinalityType
  <2> QED
    BY <1>1, <2>2, <2>3 DEF Within, BytesCounted, Fits
<1>2. ASSUME NEW u \in Inputs
      PROVE  InputsOf(Uploader[u]) \in SUBSET Inputs /\ InputsOf(Uploader[u]) \cap loose = {}
  BY DEF InputsOf, InputInv, Covers
<1>3. Fits(Inputs \ loose, GlobalQuota, GlobalFiles)
  BY <1>1, InputAssumption DEF InputInv, Reserves
<1>4. \A u \in Inputs : Fits(InputsOf(Uploader[u]), UserQuota, UserFiles)
  BY <1>1, <1>2, InputAssumption DEF InputInv, Reserves
<1> QED
  BY <1>3, <1>4 DEF WithinBudget

\* Whatever answer is lost and whatever clean-up fails, the files that reserved uploads
\* left in ComfyUI's input directory stay within the global quota, and an account's within
\* the account's, but for those whose reservation an error answer gave back
\* (ReserveComfyInputAsset, finalizeComfyInputUpload, deleteExpiredComfyInputs).
THEOREM BudgetKept == InputSpec => []WithinBudget
<1>1. InputInit => InputInv
  BY InputHolds
<1>2. InputInv /\ [InputNext]_inputVars => InputInv'
  BY InputKept
<1>3. InputInv => WithinBudget
  BY InputsFit
<1> QED
  BY <1>1, <1>2, <1>3, PTL DEF InputSpec
=============================================================================
