----------------------------- MODULE MCServices -----------------------------
(***************************************************************************)
(* The smaller components, each with a small instance.  They share no      *)
(* state: a behaviour follows one of them from its initial states, and the *)
(* others rest in theirs.                                                  *)
(***************************************************************************)
EXTENDS ComfyInputs, PromptGraph, LoraTraining, AccountAccess, PinnedMedia, GenerationDraft,
        SuggestionBoard, GenerationQuota, ComfyControl, LoraDatasets, UpdateAgent,
        MinerUpdate, ComfySchema, ContentArchive, DependencyHealth, TLC

VARIABLE part   \* the component that moves

-----------------------------------------------------------------------------
\* Who uploads the inputs.
CONSTANTS u1, u2, alice, bob
InputOwner == u1 :> alice @@ u2 :> bob

CONSTANTS gateway, webui, g1, g2, nobody
InstallOrder == <<gateway, webui>>

CONSTANTS k1, k2

\* Who posts the prompts of ComfyControl.
CONSTANTS q1, q2, q3, q4, root
PromptOwner == q1 :> alice @@ q2 :> alice @@ q3 :> bob @@ q4 :> root

CONSTANTS r1, x1, x2
\* The scanners of suggestions are compared for equality only.
ServicesSymmetry == Permutations({x1, x2})

-----------------------------------------------------------------------------
\* Each behaviour is one component's.  The others rest in an initial state, in one if
\* they have several.
ServicesInit ==
  /\ part \in {"quota", "access", "draft", "inputs", "photos", "updates",
               "pins", "training", "schema", "board", "control", "miner", "health",
               "archive", "prompts"}
  /\ Init /\ PromptInit /\ AccessInit /\ MediaInit /\ DraftInit /\ BoardInit
  /\ QuotaInit /\ ControlInit /\ DatasetInit /\ UpdateInit /\ MinerInit
  /\ SchemaInit /\ ArchiveInit /\ InputInit /\ HealthInit
  /\ part # "prompts" => absent = {}
  /\ part # "access" => account = NoAccount
  /\ part # "miner" => miner = 0
  /\ part # "health" => \A d \in Dependencies : ways[d] = "up"
  /\ part # "quota" => limit.all = [k \in Kinds |-> 0]

OthersRest ==
  /\ UNCHANGED part
  /\ part # "quota" => UNCHANGED quotaVars
  /\ part # "access" => UNCHANGED accessVars
  /\ part # "draft" => UNCHANGED draftVars
  /\ part # "inputs" => UNCHANGED inputVars
  /\ part # "photos" => UNCHANGED datasetVars
  /\ part # "updates" => UNCHANGED updateVars
  /\ part # "pins" => UNCHANGED mediaVars
  /\ part # "training" => UNCHANGED vars
  /\ part # "schema" => UNCHANGED schemaVars
  /\ part # "board" => UNCHANGED boardVars
  /\ part # "control" => UNCHANGED controlVars
  /\ part # "miner" => UNCHANGED minerVars
  /\ part # "health" => UNCHANGED healthVars
  /\ part # "archive" => UNCHANGED archiveVars
  /\ part # "prompts" => UNCHANGED promptVars

ServicesNext ==
  \/ part = "quota" /\ QuotaNext /\ OthersRest
  \/ part = "access" /\ AccessNext /\ OthersRest
  \/ part = "draft" /\ DraftNext /\ OthersRest
  \/ part = "inputs" /\ InputNext /\ OthersRest
  \/ part = "photos" /\ DatasetNext /\ OthersRest
  \/ part = "updates" /\ UpdateNext /\ OthersRest
  \/ part = "pins" /\ MediaNext /\ OthersRest
  \/ part = "training" /\ Next /\ OthersRest
  \/ part = "schema" /\ SchemaNext /\ OthersRest
  \/ part = "board" /\ BoardNext /\ OthersRest
  \/ part = "control" /\ ControlNext /\ OthersRest
  \/ part = "miner" /\ MinerNext /\ OthersRest
  \/ part = "health" /\ HealthNext /\ OthersRest
  \/ part = "archive" /\ ArchiveNext /\ OthersRest
  \/ part = "prompts" /\ PromptNext /\ OthersRest

servicesVars == <<part, quotaVars, accessVars,
                  draftVars, inputVars, datasetVars, updateVars,
                  mediaVars, vars, schemaVars, boardVars, controlVars, minerVars,
                  healthVars, archiveVars, promptVars>>
ServicesSpec == ServicesInit /\ [][ServicesNext]_servicesVars

-----------------------------------------------------------------------------
(* The properties of the components. *)

\* Every component keeps its types.
ServicesTypeOK ==
  CASE part = "quota" -> QuotaTypeOK
    [] part = "access" -> AccessTypeOK  [] part = "draft" -> DraftTypeOK
    [] part = "inputs" -> InputTypeOK   [] part = "photos" -> DatasetTypeOK
    [] part = "updates" -> UpdateTypeOK [] part = "pins" -> MediaTypeOK
    [] part = "training" -> TypeOK    [] part = "schema" -> SchemaTypeOK
    [] part = "board" -> BoardTypeOK
    [] part = "control" -> ControlTypeOK
    [] part = "miner" -> MinerTypeOK
    [] part = "health" -> HealthTypeOK
    [] part = "archive" -> ArchiveTypeOK
    [] part = "prompts" -> PromptTypeOK
=============================================================================
