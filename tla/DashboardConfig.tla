-------------------------- MODULE DashboardConfig --------------------------
(***************************************************************************)
(* The dashboard's configuration (lib/config-store.ts), how its form edits *)
(* it (components/dashboard) and the command lines made from it            *)
(* (lib/process-manager.ts).                                               *)
(*                                                                         *)
(* Of the fields, one stands for each kind that is treated differently:    *)
(* the model files, one number a preset sets ("ctxSize", which stands for  *)
(* nGpuLayers, flashAttn and nMax too: its value is named by the model it  *)
(* suits), one number no preset sets, and the switch that hides fields.    *)
(***************************************************************************)

Model == {"qwen", "gemma"}
Text == Model \cup {""}
Number == {0, 1}

ServerConfig == [targetModel : Text, ctxSize : Model, httpPort : Number,
                 remoteSpec : BOOLEAN, grpcTarget : Number]
DaemonConfig == [draftModel : Text, targetModel : Text, ctxSize : Model, grpcPort : Number]
PresetId == Model
DashboardConfig == [server : ServerConfig, daemon : DaemonConfig, activePreset : PresetId]

\* {...old, ...patch}
Spread(old, patch) ==
    [field \in DOMAIN old \cup DOMAIN patch |->
        IF field \in DOMAIN patch THEN patch[field] ELSE old[field]]

defaultServerConfig == [targetModel |-> "qwen", ctxSize |-> "qwen", httpPort |-> 1,
                        remoteSpec |-> TRUE, grpcTarget |-> 1]

defaultDaemonConfig == [draftModel |-> "qwen", targetModel |-> "", ctxSize |-> "qwen",
                        grpcPort |-> 1]

defaultConfig == [server |-> defaultServerConfig, daemon |-> defaultDaemonConfig,
                  activePreset |-> "qwen"]

\* Mutant: a preset that needs no target model does not say so.
PRESETS_NoTarget ==
    [id \in PresetId |->
       [server |-> [targetModel |-> id, ctxSize |-> id],
        daemon |-> IF id = "qwen" THEN [draftModel |-> id, targetModel |-> id, ctxSize |-> id]
                   ELSE [draftModel |-> id, ctxSize |-> id]]]

PRESETS ==
    [id \in PresetId |->
       [server |-> [targetModel |-> id, ctxSize |-> id],
        daemon |-> [draftModel |-> id, targetModel |-> IF id = "qwen" THEN "qwen" ELSE "",
                    ctxSize |-> id]]]

applyPreset(cfg, id) ==
    [activePreset |-> id,
     server |-> Spread(cfg.server, PRESETS[id].server),
     daemon |-> Spread(cfg.daemon, PRESETS[id].daemon)]

\* What the file can hold: nothing (or nothing legible), or an object that may
\* lack fields: one this version wrote, or an older or hand-written one.
NoFile == <<>>
Partial == [activePreset |-> "gemma", daemon |-> [draftModel |-> "gemma"]]

\* Mutant: a file is taken as it is.
loadConfig_AsIs(saved) == IF DOMAIN saved = {} THEN defaultConfig ELSE saved

loadConfig(saved) ==
    LET Parsed(field, default) ==
           IF field \in DOMAIN saved THEN Spread(default, saved[field]) ELSE default IN
    [activePreset |-> IF "activePreset" \in DOMAIN saved THEN saved.activePreset
                      ELSE defaultConfig.activePreset,
     server |-> Parsed("server", defaultServerConfig),
     daemon |-> Parsed("daemon", defaultDaemonConfig)]

-----------------------------------------------------------------------------
(* The form: the patches its fields make *)

Only(name, value) == [field \in {name} |-> value]

TextField(name, texts) == {Only(name, text) : text \in texts}

\* An empty or unreadable number is zero.
NumberField(name) == {Only(name, IF text = "1" THEN 1 ELSE 0) : text \in {"", "1", "1e"}}

SwitchField(name) == {Only(name, checked) : checked \in BOOLEAN}

ChoiceField(name, options) == {Only(name, option) : option \in options}

\* A file of the list, or a name typed in (the empty one included).
ModelPicker(name) == TextField(name, Text)

ServerCard(server) ==
    ModelPicker("targetModel") \cup NumberField("httpPort")
    \cup ChoiceField("ctxSize", Model) \cup SwitchField("remoteSpec")
    \cup IF server.remoteSpec THEN TextField("grpcTarget", Number) ELSE {}

DaemonCard ==
    ModelPicker("draftModel") \cup ModelPicker("targetModel")
    \cup NumberField("grpcPort") \cup ChoiceField("ctxSize", Model)

-----------------------------------------------------------------------------
(* The command lines: from flags to their values *)

serverArgs(cfg) ==
    [flag \in {"-m", "--port", "--ctx-size"} \cup
              (IF cfg.remoteSpec THEN {"--spec-type", "--spec-draft-remote-grpc"} ELSE {}) |->
        CASE flag = "-m" -> cfg.targetModel
          [] flag = "--port" -> cfg.httpPort
          [] flag = "--ctx-size" -> cfg.ctxSize
          [] flag = "--spec-type" -> "draft-remote-dspark"
          [] flag = "--spec-draft-remote-grpc" -> cfg.grpcTarget]

daemonArgs(cfg) ==
    [flag \in {"--model", "--port", "--ctx-size"} \cup
              (IF cfg.targetModel # "" THEN {"--target-model"} ELSE {}) |->
        CASE flag = "--model" -> cfg.draftModel
          [] flag = "--port" -> cfg.grpcPort
          [] flag = "--ctx-size" -> cfg.ctxSize
          [] flag = "--target-model" -> cfg.targetModel]
=============================================================================
