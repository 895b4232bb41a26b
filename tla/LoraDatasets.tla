---------------------------- MODULE LoraDatasets ----------------------------
(***************************************************************************)
(* Photos of LoRA datasets, and their collection                           *)
(* (internal/store/lora_dataset.go, gateway/lora_dataset*.go).             *)
(*                                                                         *)
(* A dataset and each of its saved versions list photos in an encrypted    *)
(* manifest; a reference row per photo keeps it from collection.  The      *)
(* clean-up deletes expired datasets, expired versions no training names,  *)
(* and photos unused for a day that nothing refers to.  Each transaction   *)
(* reads what is committed when its statement starts, and takes row locks: *)
(* a save shares its photos, the clean-up skips what it cannot lock.       *)
(***************************************************************************)
EXTENDS Naturals, FiniteSets

CONSTANTS Photos, Datasets, Versions, Editors

Holders == Datasets \cup Versions

ASSUME DatasetAssumption == Datasets \cap Versions = {} /\ "none" \notin Holders

VARIABLES
  photo,    \* lora_dataset_assets: "none", "fresh", or "old" after a day without use
  holder,   \* lora_datasets and lora_dataset_snapshots: "none", "live", "expired"
  manifest, \* the photos a holder lists
  refs,     \* lora_dataset_asset_refs
  training, \* the training job of a version: "none", "active", "over"
  editor,   \* SaveLoraDataset of each tab: the dataset and photos its transaction holds
  sweep     \* CleanupLoraDatasets: what it has deleted or locked so far
datasetVars == <<photo, holder, manifest, refs, training, editor, sweep>>

NoSave == [dataset |-> "none", photos |-> {}]
NoSweep == [step |-> "idle", gone |-> {}, seen |-> {}, locked |-> {}]

DatasetInit ==
  /\ photo = [p \in Photos |-> "none"]
  /\ holder = [h \in Holders |-> "none"]
  /\ manifest = [h \in Holders |-> {}] /\ refs = [h \in Holders |-> {}]
  /\ training = [v \in Versions |-> "none"]
  /\ editor = [e \in Editors |-> NoSave]
  /\ sweep = NoSweep

DatasetTypeOK ==
  /\ photo \in [Photos -> {"none", "fresh", "old"}]
  /\ holder \in [Holders -> {"none", "live", "expired"}]
  /\ manifest \in [Holders -> SUBSET Photos] /\ refs \in [Holders -> SUBSET Photos]
  /\ training \in [Versions -> {"none", "active", "over"}]
  /\ editor \in [Editors -> [dataset : Datasets \cup {"none"}, photos : SUBSET Photos]]
  /\ sweep \in [step : {"idle", "holders", "seen", "locked"}, gone : SUBSET Holders,
                seen : SUBSET Photos, locked : SUBSET Photos]

-----------------------------------------------------------------------------
(* Rows and locks                                                              *)

Edited(d) == \E e \in Editors : editor[e].dataset = d
Shared(p) == \E e \in Editors : p \in editor[e].photos
Free(h) == h \notin sweep.gone /\ ~Edited(h)
Referred(p, rows) == \E h \in rows : p \in refs[h]

DropHolders(hs) ==
  /\ holder' = [h \in Holders |-> IF h \in hs THEN "none" ELSE holder[h]]
  /\ manifest' = [h \in Holders |-> IF h \in hs THEN {} ELSE manifest[h]]

-----------------------------------------------------------------------------
(* The owner                                                                   *)

\* InsertLoraDatasetAsset: a new photo, or another use of the same one.
Upload(p) ==
  /\ p \notin sweep.locked /\ ~Shared(p)
  /\ photo' = [photo EXCEPT ![p] = "fresh"]
  /\ UNCHANGED <<holder, manifest, refs, training, editor, sweep>>

\* CreateLoraDataset
CreateDataset(d) ==
  /\ holder[d] = "none" /\ Free(d)
  /\ holder' = [holder EXCEPT ![d] = "live"]
  /\ UNCHANGED <<photo, manifest, refs, training, editor, sweep>>

\* SaveLoraDataset: the dataset's row, then its photos' rows, are locked; all of them must exist.
BeginSave(e, d, photos) ==
  /\ editor[e] = NoSave /\ holder[d] = "live" /\ Free(d)
  /\ \A p \in photos : photo[p] # "none" /\ p \notin sweep.locked
  /\ editor' = [editor EXCEPT ![e] = [dataset |-> d, photos |-> photos]]
  /\ UNCHANGED <<photo, holder, manifest, refs, training, sweep>>

CommitSave(e) ==
  LET d == editor[e].dataset  photos == editor[e].photos IN
  /\ d # "none"
  /\ manifest' = [manifest EXCEPT ![d] = photos]
  /\ refs' = [refs EXCEPT ![d] = photos]
  /\ holder' = [holder EXCEPT ![d] = "live"]
  /\ editor' = [editor EXCEPT ![e] = NoSave]
  /\ UNCHANGED <<photo, training, sweep>>

RollBack(e) ==
  /\ editor[e] # NoSave
  /\ editor' = [editor EXCEPT ![e] = NoSave]
  /\ UNCHANGED <<photo, holder, manifest, refs, training, sweep>>

\* DeleteLoraDataset
DeleteDataset(d) ==
  /\ holder[d] # "none" /\ Free(d)
  /\ DropHolders({d}) /\ refs' = [refs EXCEPT ![d] = {}]
  /\ UNCHANGED <<photo, training, editor, sweep>>

Copy(from, to) ==
  /\ holder' = [holder EXCEPT ![to] = "live"]
  /\ manifest' = [manifest EXCEPT ![to] = manifest[from]]
  /\ refs' = [refs EXCEPT ![to] = refs[from]]

\* CreateLoraDatasetSnapshot; the new references wait for photos the clean-up has locked.
CreateVersion(d, v) ==
  /\ holder[d] = "live" /\ holder[v] = "none" /\ Free(d) /\ Free(v)
  /\ refs[d] \cap sweep.locked = {}
  /\ Copy(d, v)
  /\ UNCHANGED <<photo, training, editor, sweep>>

\* The same, for a revision that has its version already.
RefreshVersion(d, v) ==
  /\ holder[d] = "live" /\ holder[v] = "expired" /\ manifest[v] = manifest[d]
  /\ Free(d) /\ Free(v)
  /\ holder' = [holder EXCEPT ![v] = "live"]
  /\ UNCHANGED <<photo, manifest, refs, training, editor, sweep>>

\* RestoreLoraDatasetSnapshot
Restore(v, d) ==
  /\ holder[v] # "none" /\ holder[d] = "none" /\ Free(v) /\ Free(d)
  /\ refs[v] \cap sweep.locked = {}
  /\ Copy(v, d)
  /\ UNCHANGED <<photo, training, editor, sweep>>

\* DeleteLoraDatasetSnapshot
DeleteVersion(v) ==
  /\ holder[v] # "none" /\ Free(v) /\ training[v] # "active"
  /\ DropHolders({v}) /\ refs' = [refs EXCEPT ![v] = {}]
  /\ training' = [training EXCEPT ![v] = "none"]
  /\ UNCHANGED <<photo, editor, sweep>>

\* CreateLoraTrainingJob at the end of handleLoraDatasetTraining
Train(v) ==
  /\ holder[v] # "none" /\ Free(v) /\ training[v] = "none"
  /\ training' = [training EXCEPT ![v] = "active"]
  /\ UNCHANGED <<photo, holder, manifest, refs, editor, sweep>>

\* The training ends; later its row is removed.
TrainingEnds(v) ==
  /\ training[v] # "none"
  /\ training' = [training EXCEPT ![v] = IF @ = "active" THEN "over" ELSE "none"]
  /\ UNCHANGED <<photo, holder, manifest, refs, editor, sweep>>

-----------------------------------------------------------------------------
(* Time and CleanupLoraDatasets                                                *)

Age ==
  /\ \/ \E p \in Photos : photo[p] = "fresh" /\ photo' = [photo EXCEPT ![p] = "old"] /\ UNCHANGED holder
     \/ \E h \in Holders : holder[h] = "live" /\ holder' = [holder EXCEPT ![h] = "expired"] /\ UNCHANGED photo
  /\ UNCHANGED <<manifest, refs, training, editor, sweep>>

Collectable(h) == holder[h] = "expired" /\ (h \in Versions => training[h] = "none")

\* The versions, then the datasets, that it could lock are deleted; nobody sees it yet.
SweepHolders(gone) ==
  /\ sweep.step = "idle"
  /\ gone \subseteq {h \in Holders : Collectable(h) /\ ~Edited(h)}
  /\ sweep' = [sweep EXCEPT !.step = "holders", !.gone = gone]
  /\ UNCHANGED <<photo, holder, manifest, refs, training, editor>>

\* The statement that looks for photos starts: this is what it sees ...
SweepLook ==
  /\ sweep.step = "holders"
  /\ sweep' = [sweep EXCEPT !.step = "seen",
       !.seen = {p \in Photos : photo[p] = "old" /\ ~Referred(p, Holders \ sweep.gone)}]
  /\ UNCHANGED <<photo, holder, manifest, refs, training, editor>>

\* ... and of these it takes the rows it can lock.
SweepLock ==
  /\ sweep.step = "seen"
  /\ sweep' = [sweep EXCEPT !.step = "locked",
                            !.locked = {p \in sweep.seen : photo[p] = "old" /\ ~Shared(p)}]
  /\ UNCHANGED <<photo, holder, manifest, refs, training, editor>>

\* Mutant of Collected: the rows that were locked go without a second look.
Collected_Unchecked == sweep.locked

\* A second statement checks the references again.
Collected ==
  {p \in sweep.locked : photo[p] = "old" /\ ~Referred(p, Holders \ sweep.gone)}

\* The last deletion, with the references that cascade, and the commit.
SweepCommit ==
  /\ sweep.step = "locked"
  /\ photo' = [p \in Photos |-> IF p \in Collected THEN "none" ELSE photo[p]]
  /\ refs' = [h \in Holders |-> IF h \in sweep.gone THEN {} ELSE refs[h] \ Collected]
  /\ DropHolders(sweep.gone)
  /\ sweep' = NoSweep
  /\ UNCHANGED <<training, editor>>

SweepFails ==
  /\ sweep.step # "idle" /\ sweep' = NoSweep
  /\ UNCHANGED <<photo, holder, manifest, refs, training, editor>>

DatasetNext ==
  \/ \E p \in Photos : Upload(p)
  \/ \E d \in Datasets : \/ CreateDataset(d) \/ DeleteDataset(d)
                         \/ \E v \in Versions : CreateVersion(d, v) \/ RefreshVersion(d, v) \/ Restore(v, d)
  \/ \E e \in Editors : \/ CommitSave(e) \/ RollBack(e)
                        \/ \E d \in Datasets, photos \in SUBSET Photos : BeginSave(e, d, photos)
  \/ \E v \in Versions : DeleteVersion(v) \/ Train(v) \/ TrainingEnds(v)
  \/ Age
  \/ \E gone \in SUBSET Holders : SweepHolders(gone)
  \/ SweepLook \/ SweepLock \/ SweepCommit \/ SweepFails

DatasetSpec == DatasetInit /\ [][DatasetNext]_datasetVars

-----------------------------------------------------------------------------
\* Collection takes nothing that is still listed: every photo of a dataset or version
\* exists, also when the save that listed it raced the clean-up, and a version stays for
\* as long as a training runs on it.
PhotosKept ==
  /\ \A h \in Holders : \A p \in manifest[h] : photo[p] # "none"
  /\ \A v \in Versions : training[v] = "active" => holder[v] # "none"
=============================================================================
