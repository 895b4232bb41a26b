---------------------------- MODULE PinnedMedia ----------------------------
(***************************************************************************)
(* How long one generation's result is kept: its content event, the        *)
(* encrypted copies of its outputs, its row in the history and its job     *)
(* (internal/store/content.go, content_media_chunks.go,                    *)
(* generation_media_library.go, database_retention.go).                    *)
(*                                                                         *)
(* Everything has a deadline of its own.  The owner may pin a copy, which  *)
(* must then carry everything it hangs on past the deadlines of those.  A  *)
(* retention statement looks for rows and deletes what it found: a pin may *)
(* be committed in between, for it locks the copy and the event only.      *)
(***************************************************************************)
EXTENDS Naturals

CONSTANTS
  Copies,          \* outputs of the generation
  GenerationMedia, \* policy: how long a copy is kept, and the history
  AIContent,       \* policy: how long the event is kept
  Requests,        \* policy: how long the job is kept
  Pinned,          \* policy: how long a pin keeps a copy
  LastTime         \* bound: the clock stops here

\* config.RetentionPolicy: a pin keeps a copy no shorter than its own time.
ASSUME MediaAssumption ==
  /\ {GenerationMedia, AIContent, Requests, Pinned, LastTime} \subseteq Nat
  /\ GenerationMedia <= Pinned

Times == 0..LastTime + Pinned
Lineage == {"variant", "job"}

VARIABLES
  now,
  event,    \* content_events: there or not, and its expires_at
  copy,     \* content_media: there or not, expires_at, pinned_at IS NOT NULL
  rows,     \* quick_generation_variants and generation_jobs: state and finished_at
  doomed,   \* what a retention statement that has not committed found: set of Lineage
  kept      \* for each copy the rows a pin of it has found, and found undoomed
mediaVars == <<now, event, copy, rows, doomed, kept>>

NoCopy == [there |-> FALSE, until |-> 0, pinned |-> FALSE]

MediaInit ==
  /\ now = 0
  /\ event = [there |-> TRUE, until |-> AIContent]
  /\ copy = [m \in Copies |-> NoCopy]
  /\ rows = [l \in Lineage |-> [state |-> "active", finished |-> 0]]
  /\ doomed = {} /\ kept = [m \in Copies |-> {}]

MediaTypeOK ==
  /\ now \in 0..LastTime
  /\ event \in [there : BOOLEAN, until : Times]
  /\ copy \in [Copies -> [there : BOOLEAN, until : Times, pinned : BOOLEAN]]
  /\ rows \in [Lineage -> [state : {"active", "over", "gone"}, finished : 0..LastTime]]
  /\ doomed \subseteq Lineage /\ kept \in [Copies -> SUBSET Lineage]

-----------------------------------------------------------------------------
Later(a, b) == IF a > b THEN a ELSE b
Sooner(a, b) == IF a < b THEN a ELSE b
EventLive == event.there /\ event.until > now
Shown(m) == copy[m].there /\ copy[m].until > now /\ EventLive
Pins == {m \in Copies : copy[m].there /\ copy[m].pinned /\ copy[m].until > now}

\* The generation and its row in the history end, in any order.
Conclude(l) ==
  /\ rows[l].state = "active"
  /\ rows' = [rows EXCEPT ![l] = [state |-> "over", finished |-> now]]
  /\ UNCHANGED <<now, event, copy, doomed, kept>>

\* archiveGenerationOutput and persistComfyMediaReader, with the job or much later; an
\* output that has its copy is left alone.
Archive(m) ==
  /\ EventLive /\ ~copy[m].there
  /\ copy' = [copy EXCEPT ![m] = [there |-> TRUE, until |-> now + GenerationMedia, pinned |-> FALSE]]
  /\ UNCHANGED <<now, event, rows, doomed, kept>>

\* Mutant of Extended: the event keeps its own deadline.
Extended_CopyOnly == event

Extended == [event EXCEPT !.until = Later(@, now + Pinned)]

\* SetGenerationMediaPinned
Pin(m) ==
  /\ Shown(m)
  /\ copy' = [copy EXCEPT ![m].pinned = TRUE, ![m].until = Later(@, now + Pinned)]
  /\ event' = Extended
  /\ kept' = [kept EXCEPT ![m] = @ \cup {l \in Lineage : rows[l].state # "gone" /\ l \notin doomed}]
  /\ UNCHANGED <<now, rows, doomed>>

Unpin(m) ==
  /\ Shown(m)
  /\ copy' = [copy EXCEPT ![m].pinned = FALSE, ![m].until = Sooner(@, now + GenerationMedia)]
  /\ kept' = [kept EXCEPT ![m] = {}]
  /\ UNCHANGED <<now, event, rows, doomed>>

-----------------------------------------------------------------------------
(* The clean-up workers *)

DropCopies(ms) ==
  /\ copy' = [m \in Copies |-> IF m \in ms THEN NoCopy ELSE copy[m]]
  /\ kept' = [m \in Copies |-> IF m \in ms THEN {} ELSE kept[m]]

\* QueueExpiredComfyOutputCleanup: what was listed and is still expired
DeleteCopies(ms) ==
  /\ ms # {} /\ ms \subseteq {m \in Copies : copy[m].there /\ copy[m].until <= now}
  /\ DropCopies(ms)
  /\ UNCHANGED <<now, event, rows, doomed>>

\* DeleteExpiredContent; the copies go with their event.
DeleteEvent ==
  /\ event.there /\ event.until <= now
  /\ event' = [event EXCEPT !.there = FALSE] /\ DropCopies(Copies)
  /\ UNCHANGED <<now, rows, doomed>>

KeptFor(l) == IF l = "job" THEN Requests ELSE GenerationMedia

\* CleanupDatabaseRetention, one statement for each table: what it finds to be past its
\* time and without a pin ...
Look(l) ==
  /\ l \notin doomed /\ rows[l].state = "over" /\ rows[l].finished + KeptFor(l) < now
  /\ ~(event.there /\ Pins # {})
  /\ doomed' = doomed \cup {l}
  /\ UNCHANGED <<now, event, copy, rows, kept>>

\* ... it deletes, or it fails.
DeleteRow(l, ok) ==
  /\ l \in doomed /\ doomed' = doomed \ {l}
  /\ rows' = IF ok THEN [rows EXCEPT ![l] = [state |-> "gone", finished |-> 0]] ELSE rows
  /\ UNCHANGED <<now, event, copy, kept>>

Tick ==
  /\ now < LastTime /\ now' = now + 1
  /\ UNCHANGED <<event, copy, rows, doomed, kept>>

MediaNext ==
  \/ \E l \in Lineage : Conclude(l) \/ Look(l) \/ (\E ok \in BOOLEAN : DeleteRow(l, ok))
  \/ \E m \in Copies : Archive(m) \/ Pin(m) \/ Unpin(m)
  \/ \E ms \in SUBSET Copies : DeleteCopies(ms)
  \/ DeleteEvent \/ Tick

MediaSpec == MediaInit /\ [][MediaNext]_mediaVars

-----------------------------------------------------------------------------
\* A live pin protects the lineage of its result: its event outlives it, and so does
\* every row that was there when the copy was pinned, whatever was unpinned, expired and
\* collected next to it; but for a row that was being collected at that very moment.
PinnedKept ==
  \A m \in Pins :
    /\ EventLive
    /\ \A l \in kept[m] : rows[l].state # "gone"
=============================================================================
