---------------------------- MODULE ComfyInputs ----------------------------
(***************************************************************************)
(* Reference files uploaded into ComfyUI's input directory, and the disk   *)
(* budget they share (internal/gateway/comfy_upload.go and                 *)
(* generation_cleanup.go, internal/store/comfy_input.go, and the update    *)
(* agent's cleanup.go).                                                    *)
(*                                                                         *)
(* Bytes are reserved before they cross into ComfyUI.  The reservation     *)
(* becomes a stored asset when ComfyUI's answer is understood; it is given *)
(* back when the answer is an error, and a file that is there all the same *)
(* has no row from then on.  All else is left to the clean-up: the host    *)
(* agent deletes a file whose bytes are those recorded, and only what it   *)
(* deleted or found missing is forgotten.                                  *)
(*                                                                         *)
(* Only /upload/image and /upload/mask are reserved for.  ComfyUI serves   *)
(* them under /api as well, and a file posted there has no row either.     *)
(***************************************************************************)
EXTENDS Naturals, FiniteSets

CONSTANTS
  Inputs,
  Uploader,      \* the account behind each upload
  MaxStored,     \* maxComfyStoredInputBytes: no stored file is larger
  UserQuota, GlobalQuota,     \* in bytes
  UserFiles, GlobalFiles

ASSUME InputAssumption ==
  /\ IsFiniteSet(Inputs) /\ MaxStored \in Nat
  /\ {UserQuota, GlobalQuota, UserFiles, GlobalFiles} \subseteq Nat

VARIABLES
  asset,    \* comfy_input_assets: row state, bytes counted, whether they are the file's
            \* own bytes (size and hash), whether expired, and whose
  file,     \* bytes of the file in ComfyUI's directory, 0 for none
  posted,   \* the request: where it is, its size, and whether it is a mask
  cleaner,  \* the maintenance pass: what it lists, what it holds to be the bytes, what it confirmed
  loose     \* history: files that came to be there without a row
inputVars == <<asset, file, posted, cleaner, loose>>

NoAsset == [state |-> "none", bytes |-> 0, exact |-> FALSE, expired |-> FALSE, owned |-> FALSE]
RequestOver == [step |-> "over", size |-> 0, mask |-> FALSE]
AtRest == [step |-> "idle", listed |-> {}, exact |-> {}, confirmed |-> {}]

InputInit ==
  /\ asset = [u \in Inputs |-> NoAsset]
  /\ file = [u \in Inputs |-> 0]
  /\ posted = [u \in Inputs |-> [step |-> "none", size |-> 0, mask |-> FALSE]]
  /\ cleaner = AtRest /\ loose = {}

InputTypeOK ==
  /\ loose \subseteq Inputs
  /\ asset \in [Inputs -> [state : {"none", "reserved", "stored"}, bytes : 0..MaxStored,
                            exact : BOOLEAN, expired : BOOLEAN, owned : BOOLEAN]]
  /\ file \in [Inputs -> 0..MaxStored]
  /\ posted \in [Inputs -> [step : {"none", "forwarded", "refused", "accepted", "over"},
                             size : 0..MaxStored, mask : BOOLEAN]]
  /\ cleaner \in [step : {"idle", "listed", "asked"}, listed : SUBSET Inputs,
                  exact : SUBSET Inputs, confirmed : SUBSET Inputs]

-----------------------------------------------------------------------------
(* Reserve, forward, finalize or release                                      *)

\* The bytes of some files, each with its place, as the rows count them and as they are.
RowBytes(us) == {b \in us \X (1..MaxStored) : b[2] <= asset[b[1]].bytes}
FileBytes(us) == {b \in us \X (1..MaxStored) : b[2] <= file[b[1]]}

BytesCounted(us) == Cardinality(RowBytes(us))
InputRows(us) == {u \in us : asset[u].state # "none"}

Deleted(account) ==
  \E u \in Inputs : Uploader[u] = account /\ asset[u].state # "none" /\ ~asset[u].owned
InputsOf(account) == {u \in Inputs : Uploader[u] = account /\ asset[u].owned}

\* Mutant of ReservedBytes: a mask counts with the bytes of its request.
ReservedBytes_AsSent(size, mask) == size

\* ComfyUI composites a mask with its original: what it stores may be much larger.
ReservedBytes(size, mask) == IF mask THEN MaxStored ELSE size

\* A file's own bytes are known; what becomes of a mask is not.
Reserved(size, mask) ==
  [state |-> "reserved", bytes |-> ReservedBytes(size, mask), exact |-> ~mask,
   expired |-> FALSE, owned |-> TRUE]

\* prepareComfyInputUpload and ReserveComfyInputAsset, under the advisory lock
ReserveInput(u, size, mask) ==
  /\ posted[u].step = "none" /\ ~Deleted(Uploader[u])
  /\ BytesCounted(InputsOf(Uploader[u])) + ReservedBytes(size, mask) <= UserQuota
  /\ Cardinality(InputRows(InputsOf(Uploader[u]))) < UserFiles
  /\ BytesCounted(Inputs) + ReservedBytes(size, mask) <= GlobalQuota
  /\ Cardinality(InputRows(Inputs)) < GlobalFiles
  /\ asset' = [asset EXCEPT ![u] = Reserved(size, mask)]
  /\ posted' = [posted EXCEPT ![u] = [step |-> "forwarded", size |-> size, mask |-> mask]]
  /\ UNCHANGED <<file, cleaner, loose>>

StoredSizes(u) == IF posted[u].mask THEN 1..MaxStored ELSE {posted[u].size}

\* ComfyUI writes the file and says so.
ComfyAccepts(u, size) ==
  /\ posted[u].step = "forwarded" /\ size \in StoredSizes(u)
  /\ file' = [file EXCEPT ![u] = size]
  /\ posted' = [posted EXCEPT ![u].step = "accepted"]
  /\ UNCHANGED <<asset, cleaner, loose>>

\* ComfyUI, or what stands between, answers with an error, before the file is written,
\* without writing it, or after.
ComfyRefuses(u, size) ==
  /\ posted[u].step = "forwarded" /\ size \in StoredSizes(u) \cup {0}
  /\ file' = [file EXCEPT ![u] = size]
  /\ posted' = [posted EXCEPT ![u].step = "refused"]
  /\ UNCHANGED <<asset, cleaner, loose>>

\* No answer: the Gateway stops, or the connection breaks with the file written or not.
LoseAnswer(u, size) ==
  /\ posted[u].step = "forwarded" /\ size \in StoredSizes(u) \cup {0}
  /\ file' = [file EXCEPT ![u] = size]
  /\ posted' = [posted EXCEPT ![u] = RequestOver]
  /\ UNCHANGED <<asset, cleaner, loose>>

\* finalizeComfyInputUpload with FinalizeComfyInputAsset; ok is FALSE when the answer, the
\* mask's fingerprint or the database fails, and the reservation stays as it is.
FinalizeInput(u, ok) ==
  /\ posted[u].step = "accepted"
  /\ posted' = [posted EXCEPT ![u] = RequestOver]
  /\ IF ok /\ asset[u].state = "reserved" /\ (posted[u].mask => file[u] # 0)
     THEN asset' = [asset EXCEPT ![u] =
            [asset[u] EXCEPT !.state = "stored", !.expired = FALSE, !.exact = TRUE,
                             !.bytes = IF posted[u].mask THEN file[u] ELSE posted[u].size]]
     ELSE UNCHANGED asset
  /\ UNCHANGED <<file, cleaner, loose>>

MayRelease(u) == posted[u].step = "refused"

\* releaseComfyInputReservation; ok is FALSE when the database fails.
ReleaseInput(u, ok) ==
  LET released == ok /\ asset[u].state = "reserved"
  IN  /\ MayRelease(u)
      /\ asset' = [asset EXCEPT ![u] = IF released THEN NoAsset ELSE asset[u]]
      /\ loose' = IF released /\ file[u] # 0 THEN loose \cup {u} ELSE loose
      /\ posted' = [posted EXCEPT ![u] = RequestOver]
      /\ UNCHANGED <<file, cleaner>>

\* POST /api/upload/image or /api/upload/mask: isComfyUploadRequest is false of it.
UploadUnreserved(u, size) ==
  /\ posted[u].step = "none" /\ size > 0
  /\ file' = [file EXCEPT ![u] = size] /\ loose' = loose \cup {u}
  /\ posted' = [posted EXCEPT ![u] = RequestOver]
  /\ UNCHANGED <<asset, cleaner>>

\* The account is deleted (user_id ... ON DELETE SET NULL).
DisownInputs(u) ==
  /\ asset[u].owned
  /\ asset' = [v \in Inputs |-> IF Uploader[v] = Uploader[u]
                                 THEN [asset[v] EXCEPT !.owned = FALSE] ELSE asset[v]]
  /\ UNCHANGED <<file, posted, cleaner, loose>>

\* A reservation outlives the request it was made for: ComfyUI answers within its
\* fifteen minutes or not at all.
ExpireInput(u) ==
  /\ asset[u].state # "none" /\ ~asset[u].expired /\ posted[u].step # "forwarded"
  /\ asset' = [asset EXCEPT ![u].expired = TRUE]
  /\ UNCHANGED <<file, posted, cleaner, loose>>

-----------------------------------------------------------------------------
(* deleteExpiredComfyInputs                                                    *)

\* ExpiredComfyInputAssets, then a fingerprint of each file that was only reserved
\* (fetched: those that could be read).
ListInputs(listed, fetched) ==
  /\ cleaner.step = "idle" /\ listed # {}
  /\ listed \subseteq {u \in Inputs : asset[u].expired}
  /\ fetched \subseteq {u \in listed : asset[u].state = "reserved" /\ file[u] # 0}
  /\ cleaner' = [step |-> "listed", listed |-> listed, confirmed |-> {},
                 exact |-> fetched \cup {u \in listed : asset[u].exact}]
  /\ UNCHANGED <<asset, file, posted, loose>>

SafeToForget == {u \in cleaner.listed : file[u] = 0 \/ u \in cleaner.exact}

\* DeleteComfyAssetFiles on the host; it may fail after some files, and then nothing of
\* the answer is used.
DeleteInputs(reached, failed) ==
  /\ cleaner.step = "listed" /\ reached \subseteq cleaner.listed
  /\ ~failed => reached = cleaner.listed
  /\ file' = [u \in Inputs |-> IF u \in reached \cap cleaner.exact THEN 0 ELSE file[u]]
  /\ cleaner' = IF failed THEN AtRest
                ELSE [cleaner EXCEPT !.step = "asked", !.confirmed = SafeToForget]
  /\ UNCHANGED <<asset, posted, loose>>

\* DeleteComfyInputAssetsByIDs; the others are deferred, as all are when this fails.
ForgetInputs(ok) ==
  /\ cleaner.step = "asked"
  /\ asset' = [u \in Inputs |-> IF ok /\ u \in cleaner.confirmed THEN NoAsset ELSE asset[u]]
  /\ cleaner' = AtRest
  /\ UNCHANGED <<file, posted, loose>>

InputNext ==
  \/ \E u \in Inputs :
       \/ \E size \in 1..MaxStored, mask \in BOOLEAN : ReserveInput(u, size, mask)
       \/ \E size \in 0..MaxStored :
            \/ ComfyAccepts(u, size) \/ LoseAnswer(u, size) \/ ComfyRefuses(u, size)
            \/ UploadUnreserved(u, size)
       \/ \E ok \in BOOLEAN : FinalizeInput(u, ok) \/ ReleaseInput(u, ok)
       \/ DisownInputs(u) \/ ExpireInput(u)
  \/ \E listed \in SUBSET Inputs : \E fetched \in SUBSET listed : ListInputs(listed, fetched)
  \/ \E reached \in SUBSET Inputs, failed \in BOOLEAN : DeleteInputs(reached, failed)
  \/ \E ok \in BOOLEAN : ForgetInputs(ok)

InputSpec == InputInit /\ [][InputNext]_inputVars

-----------------------------------------------------------------------------
\* What reserved uploads put into the input directory, whatever answer was lost and
\* whatever clean-up went wrong, stays within the global quotas, and what an account
\* uploaded within the account's.  Files without a row are beside the budget.
Files(us) == {u \in us : file[u] > 0}
Fits(us, quota, files) == Cardinality(FileBytes(us)) <= quota /\ Cardinality(Files(us)) <= files
WithinBudget ==
  /\ Fits(Inputs \ loose, GlobalQuota, GlobalFiles)
  /\ \A u \in Inputs : Fits(InputsOf(Uploader[u]), UserQuota, UserFiles)
=============================================================================
