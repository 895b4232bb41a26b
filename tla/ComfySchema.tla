----------------------------- MODULE ComfySchema -----------------------------
(***************************************************************************)
(* The Gateway's copy of ComfyUI's catalog of nodes and models             *)
(* (internal/gateway/comfy_schema.go).  Every form is prepared and checked *)
(* against this copy: it is fetched again when it is older than its time   *)
(* to live, and when that fails the last one that was fetched is used for  *)
(* a while.  A call holds the cache's mutex while it fetches, and meanwhile*)
(* time passes and ComfyUI may be restarted with other nodes.  The fetch   *)
(* fails when ComfyUI is down, and as well when the caller goes away or    *)
(* ComfyUI, up, is slow or answers with something else.                    *)
(***************************************************************************)
EXTENDS Naturals

CONSTANTS
  TTL,            \* how long a copy is used without asking
  RetryPause,     \* how long after a failure ComfyUI is not asked again
  MaxStale,       \* how old a copy may be to stand in for ComfyUI
  Callers, NoCaller,
  LastTick, LastNodes       \* bounds

\* newComfyObjectInfoCache corrects what it is given.
ASSUME SchemaAssumption ==
  /\ TTL \in Nat /\ RetryPause \in Nat /\ MaxStale \in Nat
  /\ 0 < RetryPause /\ RetryPause <= TTL /\ TTL <= MaxStale
  /\ LastTick \in Nat /\ LastNodes \in Nat \ {0}
  /\ NoCaller \notin Callers

VARIABLES
  clock,          \* the time
  comfy,          \* ComfyUI: is it up, the version of its nodes, since when both hold
  cache,          \* the copy: version (0: none), fetched, next (refresh), tried (lastAttempt),
                  \* and whether there is a lastError
  fetching,       \* the caller that holds the cache, since when, and the nodes it is sent
  answer          \* the last answer: source, version, when it was given, how old it was, and
                  \* the attempt and the error it tells of

schemaVars == <<clock, comfy, cache, fetching, answer>>

Sources == {"none", "live", "fresh_cache", "last_known_good", "error"}

SchemaTypeOK ==
  /\ clock \in 0..LastTick
  /\ comfy \in [up : BOOLEAN, version : 1..LastNodes, since : 0..LastTick]
  /\ cache \in [version : 0..LastNodes, fetched : 0..LastTick, next : 0..LastTick + TTL,
                tried : 0..LastTick, error : BOOLEAN]
  /\ fetching \in [holder : Callers \cup {NoCaller}, at : 0..LastTick, sent : 0..LastNodes]
  /\ answer.source \in Sources

Unasked == [holder |-> NoCaller, at |-> 0, sent |-> 0]

SchemaInit ==
  /\ clock = 0
  /\ comfy = [up |-> TRUE, version |-> 1, since |-> 0]
  /\ cache = [version |-> 0, fetched |-> 0, next |-> 0, tried |-> 0, error |-> FALSE]
  /\ fetching = Unasked
  /\ answer = [source |-> "none", version |-> 0, at |-> 0, age |-> 0, tried |-> 0, error |-> FALSE]

\* What is in the cache afterwards, with the attempt and the error it remembers.
Gave(source, at) ==
  answer' = [source |-> source, version |-> cache'.version, at |-> at,
             age |-> at - cache'.fetched, tried |-> cache'.tried, error |-> cache'.error]

-----------------------------------------------------------------------------
(* A call *)

\* A copy that is due at this very moment is taken once more.
FreshCopy_Inclusive(at) == cache.version > 0 /\ at <= cache.next
FreshCopy(at) == cache.version > 0 /\ at < cache.next

\* Without asking ComfyUI: the copy is used until the next refresh.
FromCache(c) ==
  /\ fetching.holder = NoCaller /\ FreshCopy(clock)
  /\ UNCHANGED <<clock, comfy, cache, fetching>>
  /\ Gave("fresh_cache", clock)

\* The call reads the clock, and then asks ComfyUI.
AskComfy(c, force) ==
  /\ fetching.holder = NoCaller /\ (force \/ ~FreshCopy(clock))
  /\ fetching' = [holder |-> c, at |-> clock, sent |-> 0]
  /\ UNCHANGED <<clock, comfy, cache, answer>>

\* ComfyUI sends the nodes it has.
SendNodes ==
  /\ fetching.holder # NoCaller /\ comfy.up /\ fetching.sent = 0
  /\ fetching' = [fetching EXCEPT !.sent = comfy.version]
  /\ UNCHANGED <<clock, comfy, cache, answer>>

Fetched(c) ==
  /\ fetching.holder = c /\ fetching.sent # 0
  /\ cache' = [version |-> fetching.sent, fetched |-> fetching.at, next |-> fetching.at + TTL,
               tried |-> fetching.at, error |-> FALSE]
  /\ Gave("live", fetching.at)
  /\ fetching' = Unasked
  /\ UNCHANGED <<clock, comfy>>

\* Whatever went wrong: no connection, five seconds over, the caller gone, another status
\* than 200, a body that is cut off, too large, no catalog or an empty one.
NotFetched(c) ==
  /\ fetching.holder = c
  /\ cache' = [version |-> cache.version, fetched |-> cache.fetched,
               next |-> fetching.at + RetryPause, tried |-> fetching.at, error |-> TRUE]
  /\ \/ /\ cache.version > 0 /\ fetching.at - cache.fetched <= MaxStale
        /\ Gave("last_known_good", fetching.at)
     \/ /\ ~(cache.version > 0 /\ fetching.at - cache.fetched <= MaxStale)
        /\ Gave("error", fetching.at)
  /\ fetching' = Unasked
  /\ UNCHANGED <<clock, comfy>>

-----------------------------------------------------------------------------
(* Its surroundings *)

\* A fetch has its own timeout, shorter than the time to live.
ClockTicks ==
  /\ clock < LastTick
  /\ fetching.holder # NoCaller => clock < fetching.at + 1
  /\ clock' = clock + 1
  /\ UNCHANGED <<comfy, cache, fetching, answer>>

Stops == comfy.up /\ comfy' = [comfy EXCEPT !.up = FALSE, !.since = clock]
          /\ UNCHANGED <<clock, cache, fetching, answer>>

\* ComfyUI comes up again, perhaps with other nodes.
Starts(version) ==
  /\ ~comfy.up /\ version \in {comfy.version, comfy.version + 1} \cap 1..LastNodes
  /\ comfy' = [up |-> TRUE, version |-> version, since |-> clock]
  /\ UNCHANGED <<clock, cache, fetching, answer>>

SchemaNext ==
  \/ \E c \in Callers : FromCache(c) \/ Fetched(c) \/ NotFetched(c)
  \/ \E c \in Callers, force \in BOOLEAN : AskComfy(c, force)
  \/ SendNodes \/ ClockTicks \/ Stops
  \/ \E version \in 1..LastNodes : Starts(version)

SchemaSpec == SchemaInit /\ [][SchemaNext]_schemaVars

-----------------------------------------------------------------------------
(* Properties *)

\* Once ComfyUI has been up for the time to live, no form is checked against the nodes it
\* had before unless an attempt to fetch the new ones has failed since; then the answer
\* says so, and the attempt is less than the pause before the next one ago.
CatalogCatchesUp ==
  /\ answer.source \in {"live", "fresh_cache", "last_known_good"}
  /\ comfy.up /\ answer.at >= comfy.since + TTL /\ answer.version # comfy.version
  => answer.error /\ answer.at < answer.tried + RetryPause

\* A copy stands in for ComfyUI only as long as it is not too old (the promise of the
\* last-known-good catalog; comfyObjectInfo looks at the age only when it has just failed).
FallbackOnlyWithinMaxStale ==
  answer.source \in {"fresh_cache", "last_known_good"} => answer.age <= MaxStale
=============================================================================
