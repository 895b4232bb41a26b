--------------------------- MODULE ContentArchive ---------------------------
(***************************************************************************)
(* One output file of ComfyUI and what the Gateway keeps about it          *)
(* (internal/gateway/content_capture.go, content_media_storage.go,         *)
(* comfy_isolation.go, generation_cleanup.go, internal/store/content.go).  *)
(*                                                                         *)
(* ComfyUI numbers its files: once a file is gone its name is given to the *)
(* output of another prompt.  The Gateway learns from ComfyUI's history    *)
(* whose prompt wrote the name, copies the bytes into its own database -   *)
(* from a worker, or from a view that passes through its proxy - and has   *)
(* the update agent delete the file when its time is over.  What is to be  *)
(* deleted is known from a tombstone, which is written when a worker has   *)
(* copied the file, or from the copy itself when that runs out.            *)
(***************************************************************************)
EXTENDS Naturals, FiniteSets

CONSTANTS
  PromptCount,      \* prompts of one user whose output gets this name, as they are sent
  CopiesKept,       \* policy: how long ownership rows and copies are kept
  EventsKept,       \* policy: how long the event is kept
  LastHour,         \* bound: the clock stops here
  MaxWriting        \* bound: copies being written at a time

\* A row and a copy are kept for an hour at least, and no longer than the event.
ASSUME ArchiveAssumption ==
  /\ PromptCount \in Nat /\ LastHour \in Nat /\ MaxWriting \in Nat
  /\ CopiesKept \in Nat \ {0} /\ EventsKept \in Nat /\ CopiesKept <= EventsKept

Generations == 1..PromptCount
NoFile == 0        \* no file, no copy
NotStored == [of |-> NoFile, until |-> 0]
NoRow == [id |-> 0, until |-> 0]
Unscheduled == 0   \* no tombstone
Hours == 0..LastHour + EventsKept + CopiesKept + 1

VARIABLES
  hour,
  events,    \* content_events of each prompt: not sent, kept until, or gone
  history,  \* ComfyUI's history: the prompts it lists
  produced, \* on ComfyUI's disk: the prompt whose bytes are under the name
  owned,    \* the row of comfy_output_ownership of each prompt: id, expires_at
  archived, \* content_media of each event: whose bytes, expires_at
  due,      \* comfy_output_cleanup_tombstones of these bytes: next_attempt_at
  writing,  \* copies being written: whose bytes, and under which event
  copied    \* history: whether the bytes on the disk have been copied, and if so under
            \* a row that names the file
archiveVars == <<hour, events, history, produced, owned, archived, due, writing, copied>>

ArchiveInit ==
  /\ hour = 0
  /\ events = [p \in Generations |-> [state |-> "unsent", until |-> 0]]
  /\ history = {} /\ produced = NoFile /\ owned = [p \in Generations |-> NoRow]
  /\ archived = [p \in Generations |-> NotStored]
  /\ due = [p \in Generations |-> Unscheduled]
  /\ writing = {} /\ copied = "never"

ArchiveTypeOK ==
  /\ hour \in 0..LastHour
  /\ events \in [Generations -> [state : {"unsent", "kept", "gone"}, until : Hours]]
  /\ history \subseteq Generations /\ produced \in Generations \cup {NoFile}
  /\ owned \in [Generations -> [id : Nat, until : Hours]]
  /\ archived \in [Generations -> [of : Generations \cup {NoFile}, until : Hours]]
  /\ due \in [Generations -> Hours]
  /\ writing \subseteq [of : Generations, to : Generations]
  /\ copied \in {"never", "named", "loose"}

-----------------------------------------------------------------------------
EventKept(p) == events[p].state = "kept" /\ events[p].until > hour

\* The prompts with a row for the name, and those whose row has not run out.
OwnerRows == {p \in Generations : owned[p].until > 0}
LiveRows == {p \in OwnerRows : owned[p].until > hour}

\* A prompt of ComfyUI's own editor: the event is stored with its acceptance, and its
\* output takes the name if no file has it.
Produce(p) ==
  /\ events[p].state = "unsent" /\ produced = NoFile
  /\ \A q \in Generations : q < p => events[q].state # "unsent"
  /\ events' = [events EXCEPT ![p] = [state |-> "kept", until |-> hour + EventsKept]]
  /\ history' = history \cup {p} /\ produced' = p
  /\ UNCHANGED <<hour, owned, archived, due, writing, copied>>

\* What the filtered history lists and has no row yet; a row that ran out is still one.
Unlisted == {p \in history : EventKept(p)} \ OwnerRows

\* Rows are numbered as they are inserted.
LastRow == CHOOSE n \in {owned[p].id : p \in Generations} : \A p \in Generations : owned[p].id <= n

\* insertComfyOutputOwnerships, from a history that passes through the proxy, from a
\* view of a file nobody is known to own, or from the status of a job; what one history
\* lists is inserted in any order.
Learn ==
  /\ Unlisted # {}
  /\ \E place \in [Unlisted -> 1..Cardinality(Unlisted)] :
       /\ \A p, q \in Unlisted : place[p] = place[q] => p = q
       /\ owned' = [p \in Generations |->
                      IF p \in Unlisted
                      THEN [id |-> LastRow + place[p], until |-> hour + CopiesKept] ELSE owned[p]]
  /\ UNCHANGED <<hour, events, history, produced, archived, due, writing, copied>>

-----------------------------------------------------------------------------
(* Copying the file *)

\* LatestComfyContentEventID: an event of the last two hours
Recent == {p \in Generations : EventKept(p) /\ events[p].until = hour + EventsKept}

\* The event a copy is stored under: the one of the newest live row, else a recent one.
StoredUnder ==
  IF LiveRows = {} THEN Recent
  ELSE {p \in LiveRows : \A q \in LiveRows : owned[q].id <= owned[p].id}

Room == Cardinality(writing) < MaxWriting

\* A view through the proxy: the user must own the name.  The response is spooled, and
\* persisted when it is complete.
View ==
  /\ LiveRows # {} /\ produced # NoFile /\ Room
  /\ \E p \in StoredUnder : writing' = writing \cup {[of |-> produced, to |-> p]}
  /\ UNCHANGED <<hour, events, history, produced, owned, archived, due, copied>>

Earlier(t, u) == IF t = Unscheduled \/ u < t THEN u ELSE t

\* backfillComfyContentMedia lists live rows without a live copy; a job archives what
\* its own status lists.
Unarchived ==
  \E p \in LiveRows : EventKept(p) /\ ~(archived[p].of # NoFile /\ archived[p].until > hour)

\* archiveGenerationOutput: the file is fetched and its deletion scheduled, an error of
\* which is only logged; then the copy is stored, unless memory, quota or the lookup of
\* an event refuses it.
Fetch(scheduled, held) ==
  /\ Unarchived \/ history # {}
  /\ produced # NoFile /\ (held => Room)
  /\ due' = IF scheduled THEN [due EXCEPT ![produced] = Earlier(due[produced], hour + CopiesKept)] ELSE due
  /\ IF held
     THEN \E p \in StoredUnder : writing' = writing \cup {[of |-> produced, to |-> p]}
     ELSE UNCHANGED writing
  /\ UNCHANGED <<hour, events, history, produced, owned, archived, copied>>

\* One transaction; an event has one copy of the name, and must still be there.
Commit(w) ==
  /\ w \in writing /\ writing' = writing \ {w}
  /\ IF events[w.to].state = "kept" /\ archived[w.to].of = NoFile
     THEN /\ archived' = [archived EXCEPT ![w.to] = [of |-> w.of, until |-> hour + CopiesKept]]
          /\ copied' = IF w.of # produced THEN copied
                       ELSE IF w.to \in OwnerRows THEN "named"
                       ELSE IF copied = "never" THEN "loose" ELSE copied
     ELSE UNCHANGED <<archived, copied>>
  /\ UNCHANGED <<hour, events, history, produced, owned, due>>

\* An upload to the database that breaks off, or a Gateway that dies.
Abandon(w) ==
  /\ w \in writing /\ writing' = writing \ {w}
  /\ UNCHANGED <<hour, events, history, produced, owned, archived, due, copied>>

-----------------------------------------------------------------------------
(* The workers that clean up *)

\* Mutant of Orphans: a row goes when its own time is over.
Orphans_OwnTime == {p \in OwnerRows : owned[p].until < hour}

\* CleanupDatabaseRetention: rows that ran out, but for those whose copy is still there
Orphans == {p \in OwnerRows : owned[p].until < hour /\ archived[p].of = NoFile}

CollectRows ==
  /\ Orphans # {}
  /\ owned' = [p \in Generations |-> IF p \in Orphans THEN NoRow ELSE owned[p]]
  /\ UNCHANGED <<hour, events, history, produced, archived, due, writing, copied>>

RunOut == {p \in Generations : archived[p].of # NoFile /\ archived[p].until <= hour}

\* QueueExpiredComfyOutputCleanup: copies that ran out leave a tombstone for the file
\* if the name is known to be their prompt's.
ExpireCopies ==
  /\ RunOut # {}
  /\ archived' = [p \in Generations |-> IF p \in RunOut THEN NotStored ELSE archived[p]]
  /\ due' = [c \in Generations |-> IF \E p \in RunOut \cap OwnerRows : archived[p].of = c
                                THEN Earlier(due[c], hour) ELSE due[c]]
  /\ UNCHANGED <<hour, events, history, produced, owned, writing, copied>>

\* DeleteExpiredContent takes the rows and the copy with the event.
ExpireEvent(p) ==
  /\ events[p].state = "kept" /\ events[p].until <= hour
  /\ events' = [events EXCEPT ![p] = [state |-> "gone", until |-> 0]]
  /\ owned' = [owned EXCEPT ![p] = NoRow]
  /\ archived' = [archived EXCEPT ![p] = NotStored]
  /\ copied' = IF archived[p].of = produced /\ produced # NoFile THEN "loose" ELSE copied
  /\ UNCHANGED <<hour, history, produced, due, writing>>

Due == {c \in Generations : due[c] # Unscheduled /\ due[c] <= hour}

\* The agent deletes the file if its bytes are the ones named.
Found == IF produced \in Due THEN NoFile ELSE produced

\* confirmedComfyCleanupIDs: deleted, or nothing there.  Other bytes are a mismatch; one
\* that is looked at after the file was deleted finds nothing.
Confirmed(after) ==
  IF produced = NoFile THEN Due ELSE IF produced \in Due THEN {produced} \cup after ELSE {}

\* deleteExpiredComfyMedia: without an answer every tombstone waits for the next try.
CleanUp(reached, answered) ==
  /\ Due # {}
  /\ produced' = IF reached THEN Found ELSE produced
  /\ \E after \in SUBSET (Due \ {produced}) :
       LET done == IF reached /\ answered THEN Confirmed(after) ELSE {} IN
       due' = [c \in Generations |-> IF c \notin Due THEN due[c]
                                 ELSE IF c \in done THEN Unscheduled ELSE hour + 1]
  /\ copied' = IF produced' = produced THEN copied ELSE "never"
  /\ UNCHANGED <<hour, events, history, owned, archived, writing>>

-----------------------------------------------------------------------------
\* ComfyUI starts again, and its history begins anew.
ComfyRestarts ==
  /\ history # {} /\ history' = {}
  /\ UNCHANGED <<hour, events, produced, owned, archived, due, writing, copied>>

HourPasses ==
  /\ hour < LastHour /\ hour' = hour + 1
  /\ UNCHANGED <<events, history, produced, owned, archived, due, writing, copied>>

ArchiveNext ==
  \/ \E p \in Generations : Produce(p) \/ ExpireEvent(p)
  \/ Learn \/ View
  \/ \E scheduled, held \in BOOLEAN : Fetch(scheduled, held)
  \/ \E w \in writing : Commit(w) \/ Abandon(w)
  \/ CollectRows \/ ExpireCopies
  \/ \E reached, answered \in BOOLEAN : CleanUp(reached, answered)
  \/ ComfyRestarts \/ HourPasses

ArchiveSpec == ArchiveInit /\ [][ArchiveNext]_archiveVars

-----------------------------------------------------------------------------
\* A file whose bytes were copied is not forgotten on ComfyUI's disk: a tombstone names
\* it, or a copy that will leave one when it runs out; unless the copy was stored when no
\* row named the file any more, or went with its event.
FileIsTracked ==
  copied = "named" => due[produced] # Unscheduled \/ \E p \in OwnerRows : archived[p].of = produced
=============================================================================
