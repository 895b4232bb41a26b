----------------------------- MODULE MinerUpdate -----------------------------
(***************************************************************************)
(* The mining agent replaces the miner's folder by a downloaded archive    *)
(* while the operator edits start scripts in it, the Gateway starts and    *)
(* stops the miner, and renames, processes and the agent itself may fail   *)
(* (internal/miningagent/controller_windows_update.go, update_retention.go *)
(* and controller_windows.go).                                             *)
(*                                                                         *)
(* A folder is the package in it and the operator's scripts.  Packages are *)
(* numbered in the order they are unpacked, which is the order of the      *)
(* folders' modification times; the scripts by the last edit in them.      *)
(***************************************************************************)
EXTENDS Naturals, FiniteSets

CONSTANTS
  Broken,        \* packages whose miner does not start
  Keep,          \* maxRetainedMinerUpdateDirectories
  LastPackage,   \* bound: archives unpacked
  LastEdit       \* bound: edits of the scripts

ASSUME MinerAssumption ==
  Keep \in Nat \ {0} /\ LastPackage \in Nat \ {0} /\ LastEdit \in Nat

VARIABLES
  current,   \* the miner's folder
  backups,   \* its siblings named .backup-
  failed,    \* its siblings named .failed-
  staging,   \* the folder an archive is unpacked to
  miner,     \* the package that runs, 0 if none
  update,    \* the call stack of Update; updateMu admits one
  unpacked,  \* packages unpacked so far
  edits,     \* edits of the scripts so far
  hasty,     \* history: the last edit came after an update had read the scripts
  torn       \* history: the folder is missing because a rename and its undoing
             \* failed, or the agent died between two renames
minerVars == <<current, backups, failed, staging, miner, update, unpacked, edits, hasty, torn>>
counters == <<unpacked, edits, hasty, torn>>

Folders == [package : 0..LastPackage, scripts : 0..LastEdit]
NoFolder == [package |-> 0, scripts |-> 0]
\* before: the package to be replaced; ran: the miner ran under it.
NoUpdate == [at |-> "none", saved |-> 0, before |-> 0, ran |-> FALSE]

MinerTypeOK ==
  /\ {current, staging} \cup backups \cup failed \subseteq Folders
  /\ miner \in 0..LastPackage /\ unpacked \in 1..LastPackage /\ edits \in 0..LastEdit
  /\ update \in [at : {"none", "begun", "saved", "staged", "locked", "stopped", "moved",
                       "placed", "roll back", "restart"},
                 saved : 0..LastEdit, before : 0..LastPackage, ran : BOOLEAN]
  /\ hasty \in BOOLEAN /\ torn \in BOOLEAN

MinerInit ==
  /\ current = [package |-> 1, scripts |-> 0] /\ backups = {} /\ failed = {}
  /\ staging = NoFolder /\ miner \in {0, 1} /\ update = NoUpdate
  /\ unpacked = 1 /\ edits = 0 /\ hasty = FALSE /\ torn = FALSE

-----------------------------------------------------------------------------
(* Update, as far as it holds updateMu only. *)

Goto(at) == update' = [update EXCEPT !.at = at]

\* pruneSiblingUpdateDirectories
Newest(fs) == {f \in fs : Cardinality({g \in fs : g.package > f.package}) < Keep}

PrunedFolders(bs, fs) == backups' = Newest(bs) /\ failed' = Newest(fs)

\* allowedScript refuses a script whose folder is not there.
BeginUpdate ==
  /\ update.at = "none" /\ current # NoFolder
  /\ PrunedFolders(backups, failed)
  /\ update' = [NoUpdate EXCEPT !.at = "begun", !.before = current.package]
  /\ UNCHANGED <<current, staging, miner, counters>>

\* The deferred calls: the staging folder is removed, old folders are pruned.
Leave ==
  /\ update' = NoUpdate /\ staging' = NoFolder /\ PrunedFolders(backups, failed)
  /\ UNCHANGED <<current, counters>>

\* A wrong digest or name, an archive that cannot be unpacked, no list of processes.
RefuseUpdate ==
  /\ update.at \in {"begun", "saved", "staged"}
  /\ Leave /\ UNCHANGED miner

\* After the download, collectPreservedBAT.
Collect ==
  /\ update.at = "begun"
  /\ update' = [update EXCEPT !.at = "saved", !.saved = current.scripts]
  /\ UNCHANGED <<current, backups, failed, staging, miner, counters>>

\* extractMinerArchive and restorePreservedBAT
Unpack ==
  /\ update.at = "saved" /\ unpacked < LastPackage
  /\ unpacked' = unpacked + 1
  /\ staging' = [package |-> unpacked', scripts |-> update.saved]
  /\ Goto("staged")
  /\ UNCHANGED <<current, backups, failed, miner, edits, hasty, torn>>

-----------------------------------------------------------------------------
(* Under mu, which Start and Stop of anybody else wait for. *)

LockMiner ==
  /\ update.at = "staged"
  /\ update' = [update EXCEPT !.at = IF miner = 0 THEN "stopped" ELSE "locked",
                              !.ran = miner # 0]
  /\ UNCHANGED <<current, backups, failed, staging, miner, counters>>

\* stopLocked
Halt ==
  /\ update.at = "locked"
  /\ miner' = 0 /\ Goto("stopped")
  /\ UNCHANGED <<current, backups, failed, staging, counters>>

\* It fails, perhaps after the process is gone.
HaltFails ==
  /\ update.at = "locked"
  /\ miner' \in {miner, 0} /\ Leave

\* replaceMinerDirectory: the first rename, if it succeeds.
MoveAway(ok) ==
  /\ update.at = "stopped"
  /\ IF ok
     THEN Goto("moved") /\ backups' = backups \cup {current} /\ current' = NoFolder
     ELSE Goto("restart") /\ UNCHANGED <<current, backups>>
  /\ UNCHANGED <<failed, staging, miner, counters>>

\* The second rename.
PlaceFolder ==
  /\ update.at = "moved"
  /\ Goto("placed") /\ current' = staging /\ staging' = NoFolder
  /\ UNCHANGED <<backups, failed, miner, counters>>

Old == CHOOSE f \in backups : f.package = update.before

\* Mutant of PlaceFails: the first rename is not undone.
PlaceFails_KeepsAway(undone) ==
  /\ update.at = "moved" /\ Goto("restart")
  /\ UNCHANGED <<current, backups, torn, failed, staging, miner, unpacked, edits, hasty>>

\* It fails, and the first one is undone, which may fail too.
PlaceFails(undone) ==
  /\ update.at = "moved" /\ Goto("restart")
  /\ IF undone
     THEN current' = Old /\ backups' = backups \ {Old} /\ torn' = torn
     ELSE torn' = TRUE /\ UNCHANGED <<current, backups>>
  /\ UNCHANGED <<failed, staging, miner, unpacked, edits, hasty>>

\* startLocked of the new package, if the miner ran before.
StartNew ==
  /\ update.at = "placed"
  /\ IF update.ran
     THEN current.package \notin Broken /\ miner' = current.package
     ELSE miner' = miner
  /\ Leave

StartNewFails ==
  /\ update.at = "placed" /\ update.ran
  /\ Goto("roll back")
  /\ UNCHANGED <<current, backups, failed, staging, miner, counters>>

\* rollbackMinerDirectory: both renames, or none, or the first without its undoing.
RollBackFolder ==
  /\ update.at = "roll back" /\ Goto("restart")
  /\ \/ /\ current' = Old /\ backups' = backups \ {Old}
        /\ failed' = failed \cup {current} /\ torn' = torn
     \/ UNCHANGED <<current, backups, failed, torn>>
     \/ /\ current' = NoFolder /\ failed' = failed \cup {current} /\ torn' = TRUE
        /\ UNCHANGED backups
  /\ UNCHANGED <<staging, miner, unpacked, edits, hasty>>

\* startLocked of the package that is there now, if the miner ran before.
StartAgain(ok) ==
  /\ update.at = "restart"
  /\ ok => update.ran /\ current # NoFolder /\ current.package \notin Broken
  /\ miner' = IF ok THEN current.package ELSE miner
  /\ Leave

-----------------------------------------------------------------------------
(* Around it *)

\* startLocked, stopLocked
StartMiner ==
  /\ update.at \in {"none", "begun", "saved", "staged"}
  /\ miner = 0 /\ current # NoFolder /\ current.package \notin Broken
  /\ miner' = current.package
  /\ UNCHANGED <<current, backups, failed, staging, update, counters>>

\* It is stopped by somebody else, or dies.
MinerStops ==
  /\ miner # 0 /\ miner' = 0
  /\ UNCHANGED <<current, backups, failed, staging, update, counters>>

EditScripts ==
  /\ current # NoFolder /\ edits < LastEdit
  /\ edits' = edits + 1 /\ current' = [current EXCEPT !.scripts = edits']
  /\ hasty' = (update.at \notin {"none", "begun"})
  /\ UNCHANGED <<backups, failed, staging, miner, update, unpacked, torn>>

\* The miner lives on and nothing is cleaned up; a new agent takes no notice of the
\* staging folder.
AgentDies ==
  /\ update.at # "none"
  /\ update' = NoUpdate /\ staging' = NoFolder
  /\ torn' = (torn \/ update.at = "moved")
  /\ UNCHANGED <<current, backups, failed, miner, unpacked, edits, hasty>>

\* The operator gives the folder that was moved away last its name back.
Repair ==
  /\ current = NoFolder /\ update.at = "none" /\ torn' = FALSE
  /\ \E f \in backups :
       /\ \A g \in backups : g.package <= f.package
       /\ current' = f /\ backups' = backups \ {f}
  /\ UNCHANGED <<failed, staging, miner, update, unpacked, edits, hasty>>

MinerNext ==
  \/ BeginUpdate \/ RefuseUpdate \/ Collect \/ Unpack \/ LockMiner \/ Halt \/ HaltFails
  \/ PlaceFolder \/ StartNew \/ StartNewFails \/ RollBackFolder
  \/ \E ok \in BOOLEAN : MoveAway(ok) \/ PlaceFails(ok) \/ StartAgain(ok)
  \/ StartMiner \/ MinerStops \/ EditScripts \/ AgentDies \/ Repair

MinerSpec == MinerInit /\ [][MinerNext]_minerVars

-----------------------------------------------------------------------------
\* However an update ends, there is a folder, unless it is torn; it holds the
\* operator's last scripts, unless they were edited while it was prepared or rolled
\* back; the package it replaced is in it or is the backup that was kept; the miner
\* that runs is the package in the folder; and one that ran before the update runs
\* again, unless stopping it, starting it again or the agent failed.
UpdateSettled ==
  update.at # "none" /\ update'.at = "none" =>
    /\ current' = NoFolder => torn'
    /\ current' # NoFolder =>
         /\ hasty' \/ current'.scripts = edits'
         /\ \E f \in backups' \cup {current'} : f.package = update.before
         /\ miner' \in {0, current'.package}
    /\ update.ran /\ miner' = 0 => HaltFails \/ StartAgain(FALSE) \/ AgentDies
UpdateSettles == [][UpdateSettled]_minerVars
=============================================================================
