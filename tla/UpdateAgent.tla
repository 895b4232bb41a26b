---------------------------- MODULE UpdateAgent ----------------------------
(***************************************************************************)
(* Installing updates of the Gateway, of ComfyUI and of Open WebUI         *)
(* (internal/updateagent).                                                 *)
(*                                                                         *)
(* An install looks at the chosen components, takes those that may be      *)
(* updated one after the other, and stops at the first that fails.  Each   *)
(* goes the same way: the new files are put in place (a fast-forward merge,*)
(* or the pin of an image), the service is restarted on them, its health   *)
(* is awaited; a failure puts the previous files back and restarts again.  *)
(* Any command may fail or run into the install's twenty minutes.          *)
(***************************************************************************)
EXTENDS Naturals, Sequences

CONSTANTS
  Parts,        \* the components, in the order in which they are installed
  FromGit,      \* those that are checked out: the Gateway and ComfyUI
  HealthAgain,  \* those whose health is awaited after a roll-back too: ComfyUI
  Unhealthy,       \* versions that never become healthy
  LastVersion,  \* bound: versions go 1..LastVersion
  Installs,        \* requests to /v1/install that may be under way
  Unlocked

Releases == 1..LastVersion
PartSet == {Parts[i] : i \in DOMAIN Parts}

\* What is installed first is healthy.
ASSUME UpdateAssumption ==
  /\ Parts \in Seq(PartSet) /\ Parts # <<>>
  /\ LastVersion \in Nat \ {0} /\ 1 \notin Unhealthy
  /\ Unlocked \notin Installs

VARIABLES
  files,    \* the commit that is checked out, or the image that is pinned
  dirty,    \* checkouts with changes that are nobody's commit
  serving,  \* the version that runs, 0 for none
  latest,   \* what the remote offers
  install,     \* each install: how far it is, on which part, what it goes back to
  mutex,    \* ControllerImpl.mu
  reported  \* parts with new files that an error, or the end of the agent, left unserved:
            \* the roll-back failed or was cut off, or there was none (a merge that moved
            \* HEAD and failed)
updateVars == <<files, dirty, serving, latest, install, mutex, reported>>

NoInstall == [at |-> "no", part |-> Parts[1], rest |-> {}, previous |-> 0]

UpdateInit ==
  /\ files = [p \in PartSet |-> 1] /\ serving = [p \in PartSet |-> 1]
  /\ latest = [p \in PartSet |-> 1]
  /\ dirty = {} /\ reported = {}
  /\ install = [c \in Installs |-> NoInstall] /\ mutex = Unlocked

UpdateTypeOK ==
  /\ files \in [PartSet -> Releases] /\ serving \in [PartSet -> Releases \cup {0}]
  /\ latest \in [PartSet -> Releases]
  /\ dirty \subseteq FromGit /\ reported \subseteq PartSet
  /\ \A c \in Installs :
    /\ install[c].part \in PartSet /\ install[c].rest \subseteq PartSet
    /\ install[c].at \in {"no", "waiting", "next", "place", "restart", "health", "undo",
                       "restart again", "health again"}
  /\ mutex \in Installs \cup {Unlocked}

-----------------------------------------------------------------------------
(* inspect and installableComponents                                           *)
Installable(p) == files[p] # latest[p] /\ p \notin dirty

GoOn(c, at) == install' = [install EXCEPT ![c].at = at]

\* It has nothing in place yet, or no longer.
Quiet(c) == install[c].at \in {"no", "waiting", "next", "place"}

\* The install is over, with or without an error.
Return(c) == install' = [install EXCEPT ![c] = NoInstall] /\ mutex' = Unlocked

AskInstall(c, chosen) ==
  /\ install[c].at = "no" /\ chosen # {}
  /\ install' = [install EXCEPT ![c] = [NoInstall EXCEPT !.at = "waiting", !.rest = chosen]]
  /\ UNCHANGED <<files, dirty, serving, latest, mutex, reported>>

\* A part that could not be inspected, or whose queue is busy, is left out as well.
LockAgent(c, seen) ==
  LET rest == {p \in install[c].rest \cap seen : Installable(p)} IN
  /\ install[c].at = "waiting" /\ mutex = Unlocked
  /\ IF rest = {} THEN Return(c)
     ELSE install' = [install EXCEPT ![c].at = "next", ![c].rest = rest] /\ mutex' = c
  /\ UNCHANGED <<files, dirty, serving, latest, reported>>

\* Mutant of Previous: what is there is read when the new files are in place.
Previous_After(p) == latest[p]

\* rev-parse HEAD, or readEnvValue, before anything is changed
Previous(p) == files[p]

\* The first of the parts that are left.
IsFirst(p, rest) ==
  \E i \in DOMAIN Parts : Parts[i] = p /\ \A k \in 1..i-1 : Parts[k] \notin rest

\* The checks are made once more before a part is touched: changes, the queue, the fetch.
BeginPart(c, ok) ==
  /\ install[c].at = "next"
  /\ IF install[c].rest = {} THEN ok /\ Return(c)
     ELSE \E p \in install[c].rest :
       /\ IsFirst(p, install[c].rest)
       /\ IF ok /\ p \notin dirty
          THEN /\ install' = [install EXCEPT ![c] =
                    [at |-> "place", part |-> p, rest |-> @.rest \ {p}, previous |-> Previous(p)]]
               /\ UNCHANGED mutex
          ELSE Return(c)
  /\ UNCHANGED <<files, dirty, serving, latest, reported>>

\* git merge --ff-only or writeEnvValue.  A merge that is killed leaves files of both
\* commits, or has moved HEAD already: it is reported as failed, and nobody puts back
\* what it did.
PlaceFiles(c, outcome) ==
  LET p == install[c].part IN
  /\ install[c].at = "place"
  /\ \/ /\ outcome = "done" /\ files' = [files EXCEPT ![p] = latest[p]]
        /\ GoOn(c, "restart") /\ UNCHANGED <<dirty, mutex, reported>>
     \/ /\ outcome = "failed" /\ Return(c) /\ UNCHANGED <<files, dirty, reported>>
     \/ /\ outcome = "killed" /\ p \in FromGit /\ dirty' = dirty \cup {p}
        /\ Return(c) /\ UNCHANGED <<files, reported>>
     \/ /\ outcome = "moved" /\ p \in FromGit /\ files' = [files EXCEPT ![p] = latest[p]]
        /\ reported' = reported \cup {p} /\ Return(c) /\ UNCHANGED dirty
  /\ UNCHANGED <<serving, latest>>

\* docker compose up, or the stop and launch commands: the service runs on the new
\* files, or still on the old, or not at all.
Served(p, outcome) ==
  [serving EXCEPT ![p] = CASE outcome = "up" -> files[p]
                           [] outcome = "kept" -> @
                           [] outcome = "down" -> 0]

RestartPart(c, outcome) ==
  /\ install[c].at = "restart"
  /\ serving' = Served(install[c].part, outcome)
  /\ GoOn(c, IF outcome = "up" THEN "health" ELSE "undo")
  /\ UNCHANGED <<files, dirty, latest, mutex, reported>>

\* waitHealth: two minutes may be too short for a healthy service.
AwaitHealth(c, healthy) ==
  /\ install[c].at = "health"
  /\ healthy => serving[install[c].part] \notin Unhealthy
  /\ reported' = IF healthy THEN reported \ {install[c].part} ELSE reported
  /\ GoOn(c, IF healthy THEN "next" ELSE "undo")
  /\ UNCHANGED <<files, dirty, serving, latest, mutex>>

-----------------------------------------------------------------------------
(* rollbackGitService, rollbackComfyUI, rollbackOpenWebUI                      *)

\* git reset --hard, which takes changes made meanwhile with it, or the old pin
Undo(c, ok) ==
  LET p == install[c].part IN
  /\ install[c].at = "undo"
  /\ IF ok
     THEN /\ files' = [files EXCEPT ![p] = install[c].previous]
          /\ dirty' = dirty \ {p}
          /\ GoOn(c, "restart again") /\ UNCHANGED <<mutex, reported>>
     ELSE reported' = reported \cup {p} /\ Return(c) /\ UNCHANGED <<files, dirty>>
  /\ UNCHANGED <<serving, latest>>

RestartAgain(c, outcome) ==
  LET p == install[c].part IN
  /\ install[c].at = "restart again"
  /\ serving' = Served(p, outcome)
  /\ IF outcome = "up" /\ p \in HealthAgain
     THEN GoOn(c, "health again") /\ UNCHANGED <<mutex, reported>>
     ELSE /\ Return(c)
          /\ reported' = IF outcome = "up" THEN reported ELSE reported \cup {p}
  /\ UNCHANGED <<files, dirty, latest>>

HealthOnceMore(c, healthy) ==
  LET p == install[c].part IN
  /\ install[c].at = "health again"
  /\ healthy => serving[p] \notin Unhealthy
  /\ reported' = IF healthy THEN reported ELSE reported \cup {p}
  /\ Return(c)
  /\ UNCHANGED <<files, dirty, serving, latest>>

-----------------------------------------------------------------------------
Publish(p) ==
  /\ latest[p] < LastVersion /\ latest' = [latest EXCEPT ![p] = @ + 1]
  /\ UNCHANGED <<files, dirty, serving, install, mutex, reported>>

\* Somebody edits the checkout, or commits or undoes the edit.
EditCheckout(p) ==
  /\ p \in FromGit
  /\ dirty' = (dirty \ {p}) \cup ({p} \ dirty)
  /\ UNCHANGED <<files, serving, latest, install, mutex, reported>>

\* The agent is stopped: what it was doing is forgotten.
AgentStops ==
  /\ \E c \in Installs : install[c] # NoInstall
  /\ reported' = reported \cup
       {install[c].part : c \in {x \in Installs : ~Quiet(x)}}
  /\ install' = [c \in Installs |-> NoInstall] /\ mutex' = Unlocked
  /\ UNCHANGED <<files, dirty, serving, latest>>

UpdateNext ==
  \/ \E c \in Installs :
       \/ \E some \in SUBSET PartSet : AskInstall(c, some) \/ LockAgent(c, some)
       \/ \E ok \in BOOLEAN :
            BeginPart(c, ok) \/ AwaitHealth(c, ok) \/ Undo(c, ok) \/ HealthOnceMore(c, ok)
       \/ \E outcome \in {"done", "failed", "killed", "moved"} : PlaceFiles(c, outcome)
       \/ \E outcome \in {"up", "kept", "down"} :
            RestartPart(c, outcome) \/ RestartAgain(c, outcome)
  \/ \E p \in PartSet : Publish(p) \/ EditCheckout(p)
  \/ AgentStops

UpdateSpec == UpdateInit /\ [][UpdateNext]_updateVars

-----------------------------------------------------------------------------
\* An install ends well or not at all: unless a failed roll-back was reported, or a
\* merge that failed after it moved HEAD, or the agent was stopped in the middle, every
\* part runs the version its files name, and it is one that has been healthy.
InstallSettles ==
  \A p \in PartSet \ reported :
    (\A c \in Installs : install[c].part = p => Quiet(c)) =>
      /\ serving[p] = files[p]
      /\ files[p] \notin Unhealthy
=============================================================================
