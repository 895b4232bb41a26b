-------------------------- MODULE GenerationQuota --------------------------
(***************************************************************************)
(* The generations one account may still start                             *)
(* (internal/store/generation_quota.go, internal/store/generation_batch.go)*)
(*                                                                         *)
(* Images and videos are counted apart, for ever and for every Moscow day. *)
(* A job is charged when it is accepted and refunded, at most once, to the *)
(* day it was charged on; batches are charged for all their children at    *)
(* once.  The counters are redundant: what they should be follows from the *)
(* jobs, but jobs and days are deleted long before the counters.           *)
(***************************************************************************)
EXTENDS Naturals, FiniteSets

CONSTANTS
  QuotaJobs,    \* jobs of the account
  QuotaBatches, \* sets of jobs of one kind that are created together
  Videos,       \* the jobs of the video template
  DailyLimit,   \* for each kind what an operator may set; 0 is no limit
  TotalLimit,
  LastDay       \* bound: days go 1..LastDay

ASSUME QuotaAssumption ==
  /\ IsFiniteSet(QuotaJobs) /\ QuotaBatches \subseteq SUBSET QuotaJobs
  /\ DailyLimit \subseteq Nat /\ TotalLimit \subseteq Nat
  /\ LastDay \in Nat \ {0}

Kinds == {"image", "video"}
Days == 1..LastDay
Kind(j) == IF j \in Videos THEN "video" ELSE "image"
InBatch == UNION QuotaBatches
Most == Cardinality(QuotaJobs)

VARIABLES
  charge,  \* each job: not yet there, waiting, charged, spent, refunded; row or not
  total,   \* users.*_total_used
  daily,   \* quick_generation_daily_usage of each day: a record, or Purged
  limit,   \* the account's limits and its right to generate
  today,
  present  \* the user row is there
quotaVars == <<charge, total, daily, limit, today, present>>

Purged == [k \in Kinds |-> Most + 1]
NoCharge == [state |-> "none", day |-> 0, bound |-> FALSE, kept |-> TRUE]
Limits == [allowed : BOOLEAN, day : [Kinds -> DailyLimit], all : [Kinds -> TotalLimit]]

QuotaInit ==
  /\ charge = [j \in QuotaJobs |-> NoCharge]
  /\ total = [k \in Kinds |-> 0]
  /\ daily = [d \in Days |-> [k \in Kinds |-> 0]]
  /\ limit \in Limits /\ limit.allowed
  /\ today = 1 /\ present = TRUE

QuotaTypeOK ==
  /\ charge \in [QuotaJobs ->
       [state : {"none", "waiting", "charged", "spent", "free"}, day : Days \cup {0},
        bound : BOOLEAN, kept : BOOLEAN]]
  /\ total \in [Kinds -> 0..Most] /\ daily \in [Days -> [Kinds -> 0..Most] \cup {Purged}]
  /\ limit \in Limits /\ today \in Days /\ present \in BOOLEAN

-----------------------------------------------------------------------------
(* Both ways to charge ask for the same room, one job or a batch at a time.    *)
HasRoom(k, count) ==
  /\ present /\ limit.allowed
  /\ limit.all[k] > 0 => total[k] + count <= limit.all[k]
  /\ limit.day[k] > 0 => daily[today][k] + count <= limit.day[k]

Charge(jobs, k) ==
  /\ HasRoom(k, Cardinality(jobs))
  /\ charge' = [j \in QuotaJobs |->
       IF j \in jobs THEN [charge[j] EXCEPT !.state = "charged", !.day = today] ELSE charge[j]]
  /\ total' = [total EXCEPT ![k] = @ + Cardinality(jobs)]
  /\ daily' = [daily EXCEPT ![today][k] = @ + Cardinality(jobs)]
  /\ UNCHANGED <<limit, today, present>>

\* A launch has gone as far as waiting_for_resources.
Arrive(j) ==
  /\ j \notin InBatch /\ charge[j].state = "none" /\ present
  /\ charge' = [charge EXCEPT ![j].state = "waiting"]
  /\ UNCHANGED <<total, daily, limit, today, present>>

\* ReserveQuickGenerationForJob; a repeated call finds the reservation and stops.
ReserveForJob(j) == charge[j].state = "waiting" /\ charge[j].kept /\ Charge({j}, Kind(j))

\* CreateGenerationBatch
ReserveForBatch(b) ==
  /\ \A j \in b : charge[j].state = "none"
  /\ \E k \in Kinds : (\A j \in b : Kind(j) = k) /\ Charge(b, k)

\* BindGenerationJobPrompt
BindPrompt(j) ==
  /\ charge[j].state = "charged" /\ charge[j].kept /\ ~charge[j].bound
  /\ charge' = [charge EXCEPT ![j].bound = TRUE]
  /\ UNCHANGED <<total, daily, limit, today, present>>

\* CommitQuickGenerationForJob
CommitForJob(j) ==
  /\ charge[j].state = "charged" /\ charge[j].kept /\ charge[j].bound
  /\ charge' = [charge EXCEPT ![j].state = "spent"]
  /\ UNCHANGED <<total, daily, limit, today, present>>

\* Mutant of RefundDay: what is given back is given back today.
RefundDay_Today(j) == today

RefundDay(j) == charge[j].day

Less(n) == IF n = 0 THEN 0 ELSE n - 1

\* ReleaseQuickGenerationForJob: a purged day has no row to update, and a deleted
\* account has no counters.
ReleaseForJob(j) ==
  LET d == RefundDay(j) IN
  /\ charge[j].state = "charged" /\ charge[j].kept
  /\ charge' = [charge EXCEPT ![j].state = "free"]
  /\ total' = IF present THEN [total EXCEPT ![Kind(j)] = Less(@)] ELSE total
  /\ daily' = IF present /\ daily[d] # Purged
              THEN [daily EXCEPT ![d][Kind(j)] = Less(@)] ELSE daily
  /\ UNCHANGED <<limit, today, present>>

-----------------------------------------------------------------------------
(* CleanupDatabaseRetention deletes jobs that are over and days that are past, *)
(* in any order and at any distance.                                           *)
DeleteJob(j) ==
  /\ charge[j].state \in {"waiting", "spent", "free"} /\ charge[j].kept
  /\ charge' = [charge EXCEPT ![j].kept = FALSE]
  /\ UNCHANGED <<total, daily, limit, today, present>>

PurgeDay(d) ==
  /\ d < today /\ daily[d] # Purged
  /\ daily' = [daily EXCEPT ![d] = Purged]
  /\ UNCHANGED <<charge, total, limit, today, present>>

Midnight ==
  /\ today < LastDay /\ today' = today + 1
  /\ UNCHANGED <<charge, total, daily, limit, present>>

\* UpdateUser: an operator changes limits or takes the right away.
SetLimits ==
  /\ present /\ limit' \in Limits \ {limit}
  /\ UNCHANGED <<charge, total, daily, today, present>>

\* DeleteUser: the usage rows go with the account, the jobs lose their owner.
DeleteAccount ==
  /\ present /\ present' = FALSE
  /\ total' = [k \in Kinds |-> 0] /\ daily' = [d \in Days |-> Purged]
  /\ UNCHANGED <<charge, limit, today>>

QuotaNext ==
  \/ \E j \in QuotaJobs :
       \/ Arrive(j) \/ ReserveForJob(j) \/ BindPrompt(j) \/ CommitForJob(j)
       \/ ReleaseForJob(j) \/ DeleteJob(j)
  \/ \E b \in QuotaBatches : ReserveForBatch(b)
  \/ \E d \in Days : PurgeDay(d)
  \/ Midnight \/ SetLimits \/ DeleteAccount

QuotaSpec == QuotaInit /\ [][QuotaNext]_quotaVars

-----------------------------------------------------------------------------
\* What was charged and not given back, deleted jobs included.
Out(k) == {j \in QuotaJobs : charge[j].state \in {"charged", "spent"} /\ Kind(j) = k}

\* The counters say what is out, in all and for every day that still has its row,
\* however charges, refunds after midnight and deletions of jobs and days mix: nobody
\* loses a generation to a counter, and nobody gains one.
CountersMatch ==
  present => \A k \in Kinds :
    /\ total[k] = Cardinality(Out(k))
    /\ \A d \in Days :
         daily[d] # Purged => daily[d][k] = Cardinality({j \in Out(k) : charge[j].day = d})
=============================================================================
