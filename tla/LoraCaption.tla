---------------------------- MODULE LoraCaption ----------------------------
(***************************************************************************)
(* Captions of training images, written by a vision model one at a time    *)
(* (internal/store/lora_caption.go, internal/gateway/lora_caption_*.go).   *)
(*                                                                         *)
(* A worker holds a session lock of the database for the whole model call. *)
(* Whoever gets the lock takes running rows for abandoned.  The worker of  *)
(* a broken session learns of it from its heartbeat, so for a while two    *)
(* workers may call the model.  All rows belong to one owner and data set. *)
(***************************************************************************)
EXTENDS Naturals, FiniteSets

CONSTANTS
  Captions,       \* request keys: an image with the text it is asked for
  ImageOf(_),     \* the image of a request
  CaptionWorkers, \* Gateways
  MaxPending,     \* LoraCaptionMaxPending
  MaxAttempts,    \* LoraCaptionMaxAttempts
  NoWorker        \* nobody holds the session lock

ASSUME CaptionAssumption ==
  /\ IsFiniteSet(Captions) /\ IsFiniteSet(CaptionWorkers) /\ NoWorker \notin CaptionWorkers
  /\ MaxAttempts \in Nat \ {0}

(* Tokens are new for every run.  It is enough that no row and no worker still *)
(* has the token, so a few of them serve for ever.                             *)
Tokens == 1..Cardinality(Captions) + Cardinality(CaptionWorkers) + 1

VARIABLES
  caption,   \* lora_caption_jobs, one row for every request
  lock,     \* who holds the advisory lock
  run,       \* what each worker does: its row, its token, how far it is
  entitled   \* the owner may still train
captionVars == <<caption, lock, run, entitled>>

Absent == [state |-> "none", token |-> 0, last |-> 0, attempts |-> 0,
           cancel |-> FALSE, due |-> TRUE]
NoRun == [at |-> "idle", caption |-> CHOOSE c \in Captions : TRUE, token |-> 0,
          attempts |-> 0, connected |-> FALSE, write |-> "none"]
Pending(c) == caption[c].state \in {"queued", "running"}
Expiring(c) == caption[c].state \in {"completed", "failed", "cancelled"}

CaptionInit ==
  /\ caption = [c \in Captions |-> Absent]
  /\ lock = NoWorker
  /\ run = [g \in CaptionWorkers |-> NoRun]
  /\ entitled = TRUE

CaptionTypeOK ==
  /\ caption \in [Captions ->
       [state : {"none", "queued", "running", "completed", "failed", "cancelled"},
        token : Tokens \cup {0}, last : Tokens \cup {0}, attempts : 0..MaxAttempts,
        cancel : BOOLEAN, due : BOOLEAN]]
  /\ lock \in CaptionWorkers \cup {NoWorker}
  /\ entitled \in BOOLEAN

-----------------------------------------------------------------------------
(* The owner *)

\* Somebody else of the owner's requests is still open for the same image.
Taken(c) == \E d \in Captions \ {c} : Pending(d) /\ ImageOf(d) = ImageOf(c)
PendingCount == Cardinality({c \in Captions : Pending(c)})

\* EnqueueLoraCaptions: all the chosen images or none; what is known is reused.
EnqueueCaptions(chosen) ==
  LET new == {c \in chosen : caption[c].state = "none" /\ ~Taken(c)} IN
  /\ \A c, d \in chosen : ImageOf(c) = ImageOf(d) => c = d
  /\ PendingCount + Cardinality(new) <= MaxPending
  /\ caption' = [c \in Captions |->
       IF c \in new THEN [Absent EXCEPT !.state = "queued"] ELSE caption[c]]
  /\ UNCHANGED <<lock, run, entitled>>

\* CancelLoraCaptions, for one request or for the whole data set
CancelAll(chosen) ==
  /\ caption' = [c \in Captions |->
       IF c \in chosen /\ Pending(c)
       THEN [caption[c] EXCEPT !.cancel = TRUE,
               !.state = IF @ = "queued" THEN "cancelled" ELSE @]
       ELSE caption[c]]
  /\ UNCHANGED <<lock, run, entitled>>

\* RetryLoraCaption
RetryCaption(c) ==
  /\ caption[c].state \in {"failed", "cancelled"} /\ ~Taken(c)
  /\ PendingCount < MaxPending
  /\ caption' = [caption EXCEPT ![c] = [@ EXCEPT !.state = "queued", !.cancel = FALSE,
                                           !.attempts = 0, !.due = TRUE]]
  /\ UNCHANGED <<lock, run, entitled>>

Revoke == entitled' = ~entitled /\ UNCHANGED <<caption, lock, run>>

-----------------------------------------------------------------------------
(* The worker *)

\* Mutant of Recovered: the attempts of interrupted runs do not count.
Recovered_Again(c) ==
  IF caption[c].state # "running" THEN caption[c]
  ELSE [caption[c] EXCEPT !.token = 0, !.due = TRUE, !.attempts = @ - 1,
          !.state = IF caption[c].cancel THEN "cancelled" ELSE "queued"]

\* What becomes of a running row whose worker has lost the session.
Recovered(c) ==
  IF caption[c].state # "running" THEN caption[c]
  ELSE [caption[c] EXCEPT !.token = 0, !.due = TRUE,
          !.state = IF caption[c].cancel THEN "cancelled"
                    ELSE IF caption[c].attempts >= MaxAttempts THEN "failed" ELSE "queued"]

NewToken == CHOOSE t \in Tokens :
  /\ \A c \in Captions : t \notin {caption[c].token, caption[c].last}
  /\ \A g \in CaptionWorkers : t # run[g].token

\* WithLoraCaptionWorker and ClaimLoraCaptionJob: recover, then take one row.
ClaimCaption(g, c) ==
  LET left == [d \in Captions |-> Recovered(d)] IN
  /\ lock = NoWorker /\ run[g].at = "idle"
  /\ left[c].state = "queued" /\ left[c].due
  /\ caption' = [left EXCEPT ![c] =
       [left[c] EXCEPT !.state = "running", !.token = NewToken, !.last = NewToken,
                       !.attempts = left[c].attempts + 1]]
  /\ lock' = g
  /\ run' = [run EXCEPT ![g] =
       [at |-> "calling", caption |-> c, token |-> NewToken,
        attempts |-> left[c].attempts + 1, connected |-> TRUE, write |-> "none"]]
  /\ UNCHANGED entitled

\* There is nothing to take, but something to recover.
Recover(g) ==
  LET left == [d \in Captions |-> Recovered(d)] IN
  /\ lock = NoWorker /\ run[g].at = "idle"
  /\ ~\E c \in Captions : left[c].state = "queued" /\ left[c].due
  /\ caption' = left
  /\ UNCHANGED <<lock, run, entitled>>

\* executeLoraCaption ends: with a caption, with an error that is worth another
\* attempt, among them the heartbeat's cancellation, or with another error.
Ends(g, outcome) ==
  /\ run[g].at = "calling"
  /\ outcome = "completed" => entitled
  /\ run' = [run EXCEPT ![g].at = "writing",
       ![g].write = CASE outcome = "completed" -> "completed"
                      [] outcome = "again" /\ run[g].attempts < MaxAttempts -> "queued"
                      [] OTHER -> "failed"]
  /\ UNCHANGED <<caption, lock, entitled>>

\* Mutant of FinishCaption: the token of the run is not compared.
FinishCaption_AnyRun(g, stored) ==
  LET c == run[g].caption IN
  /\ run[g].at = "writing"
  /\ caption' = IF stored /\ caption[c].state = "running"
                THEN [caption EXCEPT ![c] =
                       [@ EXCEPT !.token = 0, !.due = run[g].write # "queued",
                          !.state = IF caption[c].cancel THEN "cancelled" ELSE run[g].write]]
                ELSE caption
  /\ lock' = IF lock = g THEN NoWorker ELSE lock
  /\ run' = [run EXCEPT ![g] = NoRun]
  /\ UNCHANGED entitled

\* FinishLoraCaptionJob, unless the database is away, and the end of the session.
FinishCaption(g, stored) ==
  LET c == run[g].caption IN
  /\ run[g].at = "writing"
  /\ caption' = IF stored /\ caption[c].state = "running" /\ caption[c].token = run[g].token
                THEN [caption EXCEPT ![c] =
                       [@ EXCEPT !.token = 0, !.due = run[g].write # "queued",
                          !.state = IF caption[c].cancel THEN "cancelled" ELSE run[g].write]]
                ELSE caption
  /\ lock' = IF lock = g THEN NoWorker ELSE lock
  /\ run' = [run EXCEPT ![g] = NoRun]
  /\ UNCHANGED entitled

Crash(g) ==
  /\ run[g].at # "idle"
  /\ lock' = IF lock = g THEN NoWorker ELSE lock
  /\ run' = [run EXCEPT ![g] = NoRun]
  /\ UNCHANGED <<caption, entitled>>

\* The connection that holds the lock breaks; the call goes on.
Disconnect(g) ==
  /\ lock = g
  /\ lock' = NoWorker
  /\ run' = [run EXCEPT ![g].connected = FALSE]
  /\ UNCHANGED <<caption, entitled>>

-----------------------------------------------------------------------------
(* Time *)

Due(c) ==
  /\ caption[c].state = "queued" /\ ~caption[c].due
  /\ caption' = [caption EXCEPT ![c].due = TRUE]
  /\ UNCHANGED <<lock, run, entitled>>

\* CleanupLoraCaptionJobs
Cleanup(c) ==
  /\ Expiring(c)
  /\ caption' = [caption EXCEPT ![c] = Absent]
  /\ UNCHANGED <<lock, run, entitled>>

CaptionNext ==
  \/ \E chosen \in SUBSET Captions \ {{}} : EnqueueCaptions(chosen) \/ CancelAll(chosen)
  \/ \E c \in Captions : RetryCaption(c) \/ Due(c) \/ Cleanup(c)
  \/ \E g \in CaptionWorkers :
       \/ \E c \in Captions : ClaimCaption(g, c)
       \/ Recover(g) \/ Crash(g) \/ Disconnect(g)
       \/ \E outcome \in {"completed", "again", "failed"} : Ends(g, outcome)
       \/ \E stored \in BOOLEAN : FinishCaption(g, stored)
  \/ Revoke

CaptionSpec == CaptionInit /\ [][CaptionNext]_captionVars

(* The worker runs every few seconds in each Gateway, each call has a timeout, *)
(* and the pause before an attempt passes.                                     *)
CaptionFairness ==
  /\ SF_captionVars(\E g \in CaptionWorkers : Recover(g))
  /\ \A c \in Captions : SF_captionVars(\E g \in CaptionWorkers : ClaimCaption(g, c))
  /\ \A g \in CaptionWorkers :
       WF_captionVars(\/ \E outcome \in {"completed", "again", "failed"} : Ends(g, outcome)
                      \/ \E stored \in BOOLEAN : FinishCaption(g, stored))
  /\ \A c \in Captions : WF_captionVars(Due(c))

-----------------------------------------------------------------------------
(* Properties *)

\* A caption is only ever stored by the run that was started last, and never after
\* the owner has cancelled it: an answer that comes late cannot overwrite.
AnswerIsCurrent ==
  [][\A c \in Captions : caption[c].state # "completed" /\ caption'[c].state = "completed" =>
       /\ ~caption[c].cancel
       /\ \E g \in CaptionWorkers : run[g].caption = c /\ run[g].token = caption[c].last
                                     /\ run'[g] # run[g]]_captionVars

\* Every request ends, also one whose image kills the worker each time.
CaptionEnds ==
  \A c \in Captions : Pending(c) ~> ~Pending(c)
=============================================================================
