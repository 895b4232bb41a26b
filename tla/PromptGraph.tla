----------------------------- MODULE PromptGraph -----------------------------
(***************************************************************************)
(* From a form of the quick generation to the prompt ComfyUI executes      *)
(* (internal/gateway/workflows.go, minimax_h3.go, workflow_manifest.go,     *)
(* workflow_compatibility.go).  prepareGeneration brings the form into the *)
(* shape its workflow expects or refuses it, buildPrompt clones the saved  *)
(* workflow, removes the branches that are switched off and threads those  *)
(* that are on into its chains, and validateComfyPrompt compares the       *)
(* result with the nodes installed in ComfyUI.                             *)
(*                                                                         *)
(* A prompt is a graph: each node's inputs that are links, and the nodes   *)
(* they come from.  Numbers, names and texts of the other inputs are left  *)
(* out; whether they lie in their ranges is one field of the form.         *)
(***************************************************************************)
EXTENDS Naturals, SequencesExt

CONSTANT
  Slots,         \* the LoRA slots that the forms use, of 1..10
  Absent         \* the sets of nodes that an installation may lack

VARIABLES
  form,          \* the form, as it was sent and then as it was prepared
  progress,      \* "form", "prepared", "built", "sent" or "refused"
  graph,         \* the prompt: node -> (input -> node it comes from)
  absent         \* nodes ComfyUI does not have

promptVars == <<form, progress, graph, absent>>

-----------------------------------------------------------------------------
(* Forms *)

Families == {"krea2 text", "krea2 edit", "flux2 edit", "minimax"}

\* The nodes that a switch adds to the graph or leaves in it.
Branch(family) ==
  CASE family = "krea2 text" ->
         [sage   |-> {"gateway_krea_sage", "5"},
          detail |-> {"14"},
          color  |-> {"20"},
          filter |-> {"gateway_krea_image_filter", "gateway_krea_image_levels"}]
    [] family = "krea2 edit" -> [photo2 |-> {"20", "21"}]
    [] family = "flux2 edit" ->
         [ultimate |-> {"gateway_flux_ultimate_model", "gateway_flux_ultimate"},
          seedvr2  |-> {"gateway_flux_seedvr2_size", "gateway_flux_seedvr2_resolution",
                        "gateway_flux_seedvr2_vae", "gateway_flux_seedvr2_dit",
                        "gateway_flux_seedvr2"},
          photo2   |-> {"1076", "1065", "1066"},
          photo3   |-> {"1077", "1063", "1072"},
          photo4   |-> {"1316", "1317", "1318"}]
    [] family = "minimax" ->
         [lowVRAM |-> {"28"}, chunk |-> {"29"}, sage |-> {"5"}, memory |-> {"24"},
          aimdo |-> {"26"}, sparse |-> {"25"}, turbo |-> {"6"},
          clear |-> {"18", "19", "23"}, color |-> {"21"}, rife |-> {"22"}, rtx |-> {"20"},
          sharpen |-> {"27"}, audio |-> {"40", "41"}, video |-> {"42"},
          photo1 |-> {"30"}, photo2 |-> {"31"}, photo3 |-> {"32"}, photo4 |-> {"33"}]

Photo == <<"photo1", "photo2", "photo3", "photo4">>
PhotosOf(f) == {i \in 1..4 : Photo[i] \in f.on}

\* Few switches are on, or few are off: what one of them breaks shows in either.
Switches(family) ==
  LET all == CASE family = "minimax" -> DOMAIN Branch(family) \cup {"videoSound"}
               [] family = "krea2 text" -> DOMAIN Branch(family)
               [] OTHER -> DOMAIN Branch(family) \cup {"photo1", "lut"}
      few == {s \in SUBSET all : Cardinality(s) < 2}
  IN IF family = "minimax"
     THEN few \cup {s \cup {"photo1"} : s \in few} \cup {all \ s : s \in few}
              \cup {(all \ {"photo3", "photo4", "audio", "video", "videoSound"}) \ s : s \in few}
     ELSE SUBSET all

NoForm == [family |-> "none"]

\* The LoRAs of a form, and whether the user may choose them.
LoraChoices(family) ==
  {<<loras, TRUE>> : loras \in IF family = "krea2 text" THEN SUBSET Slots ELSE {{}, Slots}}
    \cup { <<Slots, FALSE>> }

Forms ==
  UNION { {[family |-> family, on |-> on, loras |-> l[1], advanced |-> l[2], mode |-> mode,
            model |-> model, steps |-> steps, inRange |-> TRUE] :
             on \in Switches(family), l \in LoraChoices(family),
             mode \in IF family = "minimax" THEN {"frames", "references"} ELSE {"edit"},
             model \in IF family = "minimax" THEN {"fl2va", "eros"} ELSE {"turbo"},
             steps \in IF family = "minimax" THEN {0, 6, 8, 25} ELSE {0}} : family \in Families }
  \cup {[family |-> "krea2 text", on |-> {}, loras |-> {}, advanced |-> TRUE, mode |-> "edit",
         model |-> "turbo", steps |-> 0, inRange |-> FALSE]}

-----------------------------------------------------------------------------
(* Graphs *)

Leaf == [i \in {} |-> ""]
Without(g, nodes) == Restrict(g, DOMAIN g \ nodes)
Linked(g, n, input, from) == [g EXCEPT ![n] = (input :> from) @@ @]
Unlinked(g, n, inputs) == [g EXCEPT ![n] = Restrict(@, DOMAIN @ \ inputs)]

\* The stages <<switch, node, input>> that are chosen, one behind the other, after "tail".
Chain(g, tail, stages, chosen) ==
  FoldLeft(LAMBDA c, s : IF s[1] \in chosen
                         THEN [graph |-> (s[2] :> (s[3] :> c.tail)) @@ c.graph, tail |-> s[2]]
                         ELSE c,
           [graph |-> g, tail |-> tail], stages)

\* What the node reads, directly or through other nodes.
Upstream(g, n) ==
  LET From(nodes) == UNION {Range(g[m]) : m \in nodes \cap DOMAIN g}
      closed[k \in 0..Cardinality(DOMAIN g)] ==
        IF k = 0 THEN From({n}) ELSE LET near == closed[k - 1] IN near \cup From(near)
  IN closed[Cardinality(DOMAIN g)]

\* Taking away, again and again, the nodes whose sources are gone leaves none.
Acyclic(g) ==
  LET left[k \in 0..Cardinality(DOMAIN g)] ==
        IF k = 0 THEN DOMAIN g
        ELSE LET rest == left[k - 1] IN {n \in rest : Range(g[n]) \cap rest # {}}
  IN left[Cardinality(DOMAIN g)] = {}

-----------------------------------------------------------------------------
(* The saved workflows.  Text to image: four LoRA loaders, a base pass, an     *)
(* upscaling pass and a detail pass.                                           *)
Krea2Text ==
  [n \in {"1", "2", "3", "8"} |-> Leaf] @@
  "4" :> [model |-> "1", clip |-> "2"]    @@ "17" :> [model |-> "4", clip |-> "4"] @@
  "18" :> [model |-> "17", clip |-> "17"] @@ "19" :> [model |-> "18", clip |-> "18"] @@
  "5" :> [model |-> "19"]                 @@ "6" :> [clip |-> "19"] @@
  "7" :> [conditioning |-> "6"]           @@
  "9" :> [model |-> "5", positive |-> "6", negative |-> "7", latent_image |-> "8"] @@
  "10" :> [samples |-> "9", vae |-> "3"]  @@ "11" :> [image |-> "10"] @@
  "12" :> [pixels |-> "11", vae |-> "3"]  @@
  "13" :> [model |-> "5", positive |-> "6", negative |-> "7", latent_image |-> "12"] @@
  "14" :> [model |-> "5", positive |-> "6", negative |-> "7", latent_image |-> "13"] @@
  "15" :> [samples |-> "14", vae |-> "3"] @@
  "20" :> [image_target |-> "15", image_ref |-> "10"] @@ "16" :> [images |-> "20"]

\* A photo and perhaps a second one, an upscaler, cleaning, skin, tone and LUT.
Krea2Edit ==
  [n \in {"1", "2", "3", "4", "13", "20"} |-> Leaf] @@
  "5" :> [image |-> "4"]                  @@ "6" :> [pixels |-> "5", vae |-> "3"] @@
  "7" :> [model |-> "1"]                  @@ "21" :> [pixels |-> "20", vae |-> "3"] @@
  "8" :> [model |-> "7", source_latent |-> "6", source_latent_b |-> "21", vae |-> "3",
          source_image |-> "5", source_image_b |-> "20"] @@
  "9" :> [clip |-> "2", image |-> "5", image_b |-> "20"] @@ "10" :> [conditioning |-> "9"] @@
  "11" :> [model |-> "8", positive |-> "9", negative |-> "10", latent_image |-> "5"] @@
  "12" :> [samples |-> "11", vae |-> "3"] @@
  "14" :> [image |-> "12", model |-> "7", positive |-> "9", negative |-> "10", vae |-> "3",
           upscale_model |-> "13"] @@
  "15" :> [image |-> "14"] @@ "16" :> [image |-> "15"] @@ "17" :> [image |-> "16"] @@
  "18" :> [image |-> "17"] @@ "19" :> [images |-> "18"]

\* Four photos as reference latents, a pipe that carries the sampler's settings, a LUT.
Flux2Edit ==
  [n \in {"10", "12", "106", "286", "404", "715", "809", "1075", "1076", "1077", "1105",
          "1291", "1316"} |-> Leaf] @@
  "303" :> [any_01 |-> "12"]         @@ "539" :> [model |-> "303", clip |-> "1105"] @@
  "95" :> [model |-> "539"]          @@ "534" :> [string1 |-> "106", string2 |-> "809"] @@
  "1422" :> [any_01 |-> "534", any_02 |-> "534"] @@ "1171" :> [text |-> "1422"] @@
  "1321" :> [clip |-> "539", string |-> "1171"] @@ "1376" :> [clip |-> "539", string |-> "715"] @@
  "284" :> [guidance |-> "286", conditioning |-> "1321"] @@
  "1061" :> [image |-> "1075"] @@ "1073" :> [pixels |-> "1061", vae |-> "10"] @@
  "1065" :> [image |-> "1076"] @@ "1066" :> [pixels |-> "1065", vae |-> "10"] @@
  "1063" :> [image |-> "1077"] @@ "1072" :> [pixels |-> "1063", vae |-> "10"] @@
  "1317" :> [image |-> "1316"] @@ "1318" :> [pixels |-> "1317", vae |-> "10"] @@
  "1398" :> [conditioning |-> "284", latent_1 |-> "1073", latent_2 |-> "1066",
             latent_3 |-> "1072", latent_4 |-> "1318"] @@
  "1381" :> [any_01 |-> "1398", any_02 |-> "1321"] @@ "851" :> [conditioning |-> "1381"] @@
  "1305" :> [image |-> "1075"] @@ "1406" :> [width |-> "1305"] @@ "1405" :> [any_02 |-> "1406"] @@
  "1403" :> [pipe |-> "1305", vae_1 |-> "10", vae_2 |-> "10", latent |-> "1405"] @@
  "1328" :> [pipe |-> "1403"] @@
  "1319" :> [pipe |-> "1328", model_1 |-> "95", clip_1 |-> "539", vae_1 |-> "10",
             positive_prompt |-> "1171", positive |-> "851", negative |-> "1376",
             negative_prompt |-> "715", seed |-> "404"] @@
  "1367" :> [pipe |-> "1319"] @@ "1363" :> [sampler_name |-> "1367"] @@
  "1350" :> [scheduler |-> "1367"] @@ "1359" :> [model |-> "1367"] @@
  "1361" :> [any_02 |-> "1363"] @@ "1365" :> [noise_seed |-> "1367"] @@
  "1400" :> [samples |-> "1367"] @@
  "1355" :> [noise |-> "1365", guider |-> "1359", sampler |-> "1361", sigmas |-> "1350",
             latent_image |-> "1400"] @@
  "1362" :> [samples |-> "1355", vae |-> "1367"] @@ "1430" :> [image |-> "1362"] @@
  "1341" :> [images |-> "1430"]

-----------------------------------------------------------------------------
(* From the form to what the workflow runs with.  Each Refuses names what      *)
(* normalizeAndValidate and the manifest's limits turn away.                   *)

\* A field the form leaves empty gets the manifest's default before anything else.
Parsed(f) == IF f.family = "minimax" /\ f.steps = 0 THEN [f EXCEPT !.steps = 25] ELSE f

\* A user without the right to the advanced settings sends no LoRAs of his own.
OwnLoras(f) == IF f.advanced THEN f.loras ELSE {}

\* What the model decides, whatever the form says: the LoRAs, and for a video the
\* references and the turbo that are part of one model.
Settled(f) ==
  CASE f.family = "krea2 text" /\ ~f.advanced -> [f EXCEPT !.loras = {1}]
    [] f.family = "krea2 edit" -> [f EXCEPT !.loras = {}]
    [] f.family = "minimax" /\ f.model = "eros" ->
         [f EXCEPT !.loras = OwnLoras(f), !.mode = "references", !.on = @ \ {"turbo"}]
    [] OTHER -> [f EXCEPT !.loras = OwnLoras(f)]

MaxPhotos(f) == CASE f.family = "krea2 edit" -> 2
                  [] f.family = "minimax" /\ f.mode = "frames" -> 2
                  [] OTHER -> 4

StepsOf(f) == CASE f.model = "eros" -> 6..8
                [] f.model # "eros" /\ "turbo" \in f.on -> 4..8
                [] OTHER -> 20..25

\* A sound or a film to go by, where the mode takes none or there is none.
Misreferenced(f) ==
  \/ f.mode # "references" /\ f.on \cap {"audio", "video"} # {}
  \/ "videoSound" \in f.on /\ "video" \notin f.on

RefusedVideo(f) ==
  \/ f.steps \notin StepsOf(f)
  \/ Misreferenced(f)
  \/ "color" \in f.on /\ PhotosOf(f) = {}

RefusedEdit(f) == "photo1" \notin f.on

\* Every number of the form, given or filled in, lies in its range.
ValuesFit(f) == f.inRange

Refused(f) ==
  \/ ~ValuesFit(f)
  \/ Cardinality(PhotosOf(f)) > MaxPhotos(f)
  \/ f.family \in {"krea2 edit", "flux2 edit"} /\ RefusedEdit(f)
  \/ f.family = "minimax" /\ RefusedVideo(f)

-----------------------------------------------------------------------------
(* Building *)

\* A reference that was not given takes its nodes, and the inputs fed by them, along.
Pruned(g, f) ==
  LET gone == UNION {Branch(f.family)[Photo[i]] :
                       i \in {j \in 2..4 : Photo[j] \in DOMAIN Branch(f.family) \ f.on}}
      Fed(n) == {i \in DOMAIN g[n] : g[n][i] \in gone}
  IN CASE f.family = "krea2 edit" ->
            Without(Unlinked(Unlinked(g, "8", Fed("8")), "9", Fed("9")), gone)
       [] f.family = "flux2 edit" -> Without(Unlinked(g, "1398", Fed("1398")), gone)
       [] OTHER -> g

\* The saved workflow has loaders for the slots 1..4; each further one is appended.
LoraNode == [i \in 5..10 |->
  <<"gateway_lora_5", "gateway_lora_6", "gateway_lora_7", "gateway_lora_8",
    "gateway_lora_9", "gateway_lora_10">>[i - 4]]
AppendedLoras(g, f) ==
  LET c == Chain(g, "19", [k \in 1..6 |-> <<k + 4, LoraNode[k + 4], "model">>], f.loras)
  IN [c EXCEPT !.graph = [n \in DOMAIN @ |->
        IF n \in Range(LoraNode) THEN [model |-> @[n].model, clip |-> @[n].model] ELSE @[n]]]

\* The detail pass was added later, and the loop over the samplers does not know it.
Samplers_WithoutDetail == {"9", "13"}

Samplers == {"9", "13", "14"}

\* LoRA tail, SageAttention before every sampler, detail pass, colour transfer, filter.
Krea2TextPrompt(f) ==
  LET loras == AppendedLoras(Krea2Text, f)
      clip == Linked(loras.graph, "6", "clip", loras.tail)
      sage == IF "sage" \in f.on
              THEN Linked("gateway_krea_sage" :> [model |-> loras.tail] @@ clip,
                          "5", "model", "gateway_krea_sage")
              ELSE Without(clip, {"5"})
      source == IF "sage" \in f.on THEN "5" ELSE loras.tail
      patched == [n \in DOMAIN sage |-> IF n \in Samplers THEN ("model" :> source) @@ sage[n]
                                        ELSE sage[n]]
      detail == IF "detail" \in f.on THEN patched
                ELSE Linked(Without(patched, {"14"}), "15", "samples", "13")
      color == IF "color" \in f.on THEN Linked(detail, "20", "image_target", "15")
               ELSE Without(detail, {"20"})
      last == Chain(color, IF "color" \in f.on THEN "20" ELSE "15",
                    << <<"filter", "gateway_krea_image_filter", "image">>,
                       <<"filter", "gateway_krea_image_levels", "image">> >>, f.on)
  IN Linked(last.graph, "16", "images", last.tail)

Krea2EditPrompt(f) == Pruned(Krea2Edit, f)

\* The chosen upscalers stand between the decoder 1362 and the saved image.
Flux2EditPrompt(f) ==
  LET ultimate == Chain(Pruned(Flux2Edit, f), "1362",
                        << <<"ultimate", "gateway_flux_ultimate", "image">> >>, f.on)
      settings == [model |-> "1367", upscale_model |-> "gateway_flux_ultimate_model"]
      first == IF "ultimate" \in f.on
               THEN "gateway_flux_ultimate_model" :> Leaf @@
                    [ultimate.graph EXCEPT !["gateway_flux_ultimate"] = @ @@ settings]
               ELSE ultimate.graph
      second == "gateway_flux_seedvr2_size" :> [image |-> ultimate.tail] @@
                "gateway_flux_seedvr2_resolution" :> [a |-> "gateway_flux_seedvr2_size"] @@
                "gateway_flux_seedvr2_vae" :> Leaf @@ "gateway_flux_seedvr2_dit" :> Leaf @@
                "gateway_flux_seedvr2" :>
                  [image |-> ultimate.tail, dit |-> "gateway_flux_seedvr2_dit",
                   vae |-> "gateway_flux_seedvr2_vae",
                   resolution |-> "gateway_flux_seedvr2_resolution"] @@ first
  IN IF "seedvr2" \in f.on THEN Linked(second, "1341", "images", "gateway_flux_seedvr2")
     ELSE Linked(first, "1341", "images", ultimate.tail)

\* LoRAs are applied by stacks of three slots each, chained, after the model's patches.
Stack == <<"lora_stack_1", "lora_stack_2", "lora_stack_3", "lora_stack_4">>
StacksOf(f) == {(slot + 2) \div 3 : slot \in f.loras}

ModelStages ==
  << <<"lowVRAM", "28", "model">>, <<"chunk", "29", "model">>, <<"sage", "5", "model">>,
     <<"memory", "24", "model">>, <<"aimdo", "26", "model">>, <<"sparse", "25", "model">>,
     <<"turbo", "6", "model">> >>
VideoStages ==
  << <<"clear", "23", "any">>, <<"color", "21", "image">>, <<"rife", "22", "frames">>,
     <<"rtx", "20", "images">>, <<"sharpen", "27", "image">> >>

\* The photos in the order of their slots; frames are resized first.
LoadedPhotos == <<"30", "31", "32", "33">>
Resized == <<"50", "51">>
PhotoNodes(f) ==
  LET count == Cardinality(PhotosOf(f))
      raw == [n \in {LoadedPhotos[i] : i \in 1..count} |-> Leaf]
  IN IF f.mode = "references" THEN raw
     ELSE FoldLeft(LAMBDA g, i : Resized[i] :> [image |-> LoadedPhotos[i]] @@ g, raw,
                   [i \in 1..count |-> i])

Conditioning(f, clip) ==
  LET count == Cardinality(PhotosOf(f))
      loader == IF f.mode = "references" THEN LoadedPhotos ELSE Resized
      photos == [p \in {Photo[i] : i \in 1..count} |->
                   loader[CHOOSE i \in 1..count : Photo[i] = p]]
  IN [clip |-> clip, vae |-> "3"] @@ photos @@
     (IF f.mode # "references" THEN Leaf
      ELSE [audio_vae |-> "4"] @@
           (IF "audio" \in f.on THEN [audio |-> "41"] ELSE Leaf) @@
           (IF "video" \in f.on THEN [video |-> "42"] ELSE Leaf) @@
           (IF "videoSound" \in f.on THEN [videoSound |-> "42"] ELSE Leaf))

MiniMaxPrompt(f) ==
  LET fixed == [n \in {"1", "2", "3", "4", "10", "11"} |-> Leaf] @@
        "9" :> Leaf @@ "12" :> [model |-> "9"] @@ "13" :> [model |-> "9", conditioning |-> "7"] @@
        "14" :> [noise |-> "10", guider |-> "13", sampler |-> "11", sigmas |-> "12",
                 latent_image |-> IF "clear" \in f.on THEN "18" ELSE "7"] @@
        [n \in {"15", "16"} |->
           [samples |-> IF "clear" \in f.on THEN "19" ELSE "14",
            vae |-> IF n = "15" THEN "3" ELSE "4"]]
      models == Chain(fixed, "1", ModelStages, f.on)
      stacks == Chain(models.graph, "none", [k \in 1..4 |-> <<k, Stack[k], "lora_stack">>],
                      StacksOf(f))
      \* The first stack continues none.
      lone == [n \in DOMAIN stacks.graph |->
                 IF n \in Range(Stack) THEN RestrictValues(stacks.graph[n], LAMBDA p : p # "none")
                 ELSE stacks.graph[n]]
      loras == IF stacks.tail = "none" THEN lone
               ELSE "8" :> [model |-> models.tail, clip |-> "2", lora_stack |-> stacks.tail] @@ lone
      shifted == Linked(loras, "9", "model", IF "8" \in DOMAIN loras THEN "8" ELSE models.tail)
      sources == shifted @@ PhotoNodes(f) @@
        (IF "audio" \in f.on THEN "40" :> Leaf @@ "41" :> [audio |-> "40"] ELSE Leaf) @@
        (IF "video" \in f.on THEN "42" :> Leaf ELSE Leaf)
      told == "7" :> Conditioning(f, IF "8" \in DOMAIN loras THEN "8" ELSE "2") @@ sources
      cleared == IF "clear" \in f.on THEN "18" :> [any |-> "7"] @@ "19" :> [any |-> "14"] @@ told
                 ELSE told
      last == Chain(cleared, "15", VideoStages, f.on)
      matched == IF "color" \in f.on
                 THEN Linked(last.graph, "21", "reference",
                             IF f.mode = "references" THEN "30" ELSE "50")
                 ELSE last.graph
  IN "17" :> [images |-> last.tail, audio |-> "16"] @@ matched

BuildPrompt(f) == CASE f.family = "krea2 text" -> Krea2TextPrompt(f)
                    [] f.family = "krea2 edit" -> Krea2EditPrompt(f)
                    [] f.family = "flux2 edit" -> Flux2EditPrompt(f)
                    [] f.family = "minimax" -> MiniMaxPrompt(f)

-----------------------------------------------------------------------------
(* Actions *)

PromptInit == form = NoForm /\ progress = "form" /\ graph = Leaf /\ absent \in Absent

\* prepareGeneration up to buildPrompt: the form is brought into shape, or refused.
PreparePrompt(f) ==
  /\ progress = "form"
  /\ LET settled == Settled(Parsed(f)) IN
       /\ form' = settled
       /\ progress' = IF Refused(settled) THEN "refused" ELSE "prepared"
  /\ UNCHANGED <<graph, absent>>

Build ==
  /\ progress = "prepared"
  /\ graph' = BuildPrompt(form) /\ progress' = "built"
  /\ UNCHANGED <<form, absent>>

\* validateComfyPrompt: every node is installed and every link has a source.
Installed == DOMAIN graph \cap absent = {}
Connected == \A n \in DOMAIN graph : Range(graph[n]) \subseteq DOMAIN graph
Validate ==
  /\ progress = "built"
  /\ progress' = IF Installed /\ Connected THEN "sent" ELSE "refused"
  /\ UNCHANGED <<form, graph, absent>>

PromptNext == (\E f \in Forms : PreparePrompt(f)) \/ Build \/ Validate
PromptSpec == PromptInit /\ [][PromptNext]_promptVars

-----------------------------------------------------------------------------
(* Properties *)

PromptTypeOK ==
  /\ progress \in {"form", "prepared", "built", "sent", "refused"}
  /\ DOMAIN graph # {} => progress \in {"built", "sent", "refused"}

Output == [family \in Families |->
             CASE family = "krea2 text" -> "16" [] family = "krea2 edit" -> "19"
               [] family = "flux2 edit" -> "1341" [] family = "minimax" -> "17"]

\* What has to stand before a node: each patch of the model before each sampler, and
\* what describes the picture before the conditioning.
Before(f) ==
  CASE f.family = "krea2 text" ->
         LET loras == {"19"} \cup {LoraNode[i] : i \in f.loras \cap 5..10}
             sage == IF "sage" \in f.on THEN Branch(f.family).sage ELSE {}
         IN "6" :> loras @@ [n \in Samplers \cap DOMAIN graph |-> loras \cup sage]
    [] f.family = "minimax" ->
         LET stages == {k \in DOMAIN ModelStages : ModelStages[k][1] \in f.on}
             stacks == {Stack[k] : k \in StacksOf(f)}
             clear(nodes) == IF "clear" \in f.on THEN nodes ELSE {}
         IN "9" :> {ModelStages[k][2] : k \in stages} \cup stacks @@ "7" :> stacks @@
            "14" :> {"9"} \cup clear({"18"}) @@ "15" :> clear({"19"}) @@ "16" :> clear({"19"})
    [] OTHER -> Leaf

\* The branches of the form's switches; photos of a video take the first loaders.
Chosen(f) ==
  LET B == Branch(f.family) IN
  IF f.family = "minimax"
  THEN UNION {B[s] : s \in (f.on \cap DOMAIN B) \ Range(Photo)}
         \cup {LoadedPhotos[i] : i \in 1..Cardinality(PhotosOf(f))}
  ELSE UNION {B[s] : s \in f.on \cap DOMAIN B}

\* A prompt that was built is whole: every link has its source and none leads back; every
\* branch the form chose leads to the saved picture or video, in its place among the
\* others; and of the branches it did not choose nothing is left.
PromptIsWhole ==
  progress = "built" =>
    LET up == Upstream(graph, Output[form.family])
        branches == UNION {Branch(form.family)[s] : s \in DOMAIN Branch(form.family)}
    IN /\ Connected
       /\ Acyclic(graph)
       /\ DOMAIN graph \cap branches = Chosen(form)
       /\ Chosen(form) \subseteq up
       /\ \A n \in DOMAIN Before(form) : Before(form)[n] \subseteq Upstream(graph, n)

\* A colour grading that was switched on is applied to the picture that is saved.  The
\* edit with Flux breaks it: applyWorkflowUpscale links the saved picture to the decoder.
LutIsApplied ==
  progress = "built" /\ form.family = "flux2 edit" /\ "lut" \in form.on
    => "1430" \in Upstream(graph, Output[form.family])
=============================================================================
