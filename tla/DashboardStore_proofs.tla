----------------------- MODULE DashboardStore_proofs -----------------------
(***************************************************************************)
(* Proofs about the dashboard's configuration, for any number of loads and *)
(* saves on their way, any edits and any number of lost calls.             *)
(***************************************************************************)
EXTENDS DashboardStore, TLAPS

-----------------------------------------------------------------------------
(* Configurations: what the spread operator, the file and a preset do      *)

LEMMA Fields ==
    /\ \A c \in DashboardConfig : /\ DOMAIN c = {"server", "daemon", "activePreset"}
                                  /\ c.server \in ServerConfig /\ c.daemon \in DaemonConfig
                                  /\ c.activePreset \in PresetId
    /\ \A s \in ServerConfig :
          DOMAIN s = {"targetModel", "ctxSize", "httpPort", "remoteSpec", "grpcTarget"}
    /\ \A d \in DaemonConfig :
          DOMAIN d = {"draftModel", "targetModel", "ctxSize", "grpcPort"}
  <1>1. \A c \in DashboardConfig : /\ DOMAIN c = {"server", "daemon", "activePreset"}
                                   /\ c.server \in ServerConfig /\ c.daemon \in DaemonConfig
                                   /\ c.activePreset \in PresetId
    BY DEF DashboardConfig
  <1>2. \A s \in ServerConfig :
           DOMAIN s = {"targetModel", "ctxSize", "httpPort", "remoteSpec", "grpcTarget"}
    BY DEF ServerConfig
  <1>3. \A d \in DaemonConfig :
           DOMAIN d = {"draftModel", "targetModel", "ctxSize", "grpcPort"}
    BY DEF DaemonConfig
  <1>4. QED BY <1>1, <1>2, <1>3

LEMMA NoConfig == Null \notin DashboardConfig
  <1>1. DOMAIN Null = {}
    BY DEF Null
  <1>2. QED BY <1>1, Fields

\* What is spread over a configuration in whole replaces it.
LEMMA SpreadAll ==
    /\ \A old, new \in ServerConfig : Spread(old, new) = new
    /\ \A old, new \in DaemonConfig : Spread(old, new) = new
  <1>1. \A old, new \in ServerConfig : Spread(old, new) = new
    BY SMTT(20), Fields DEF Spread, ServerConfig
  <1>2. \A old, new \in DaemonConfig : Spread(old, new) = new
    BY SMTT(20), Fields DEF Spread, DaemonConfig
  <1>3. QED BY <1>1, <1>2

LEMMA Defaults ==
    defaultServerConfig \in ServerConfig /\ defaultDaemonConfig \in DaemonConfig
  BY DEF defaultServerConfig, defaultDaemonConfig, ServerConfig, DaemonConfig,
         Text, Model, Number

\* A configuration that was written whole is read back as it was.
LEMMA ReadsBack ==
    ASSUME NEW c \in DashboardConfig
    PROVE  loadConfig(c) = c
  <1>1. c["server"] = c.server /\ c["daemon"] = c.daemon
        /\ c = [activePreset |-> c.activePreset, server |-> c.server, daemon |-> c.daemon]
    BY DEF DashboardConfig
  <1>2. /\ Spread(defaultServerConfig, c.server) = c.server
        /\ Spread(defaultDaemonConfig, c.daemon) = c.daemon
    BY Fields, SpreadAll, Defaults
  <1>3. "server" \in DOMAIN c /\ "daemon" \in DOMAIN c /\ "activePreset" \in DOMAIN c
    BY Fields
  <1>4. QED BY <1>1, <1>2, <1>3 DEF loadConfig

Files == {NoFile, Partial} \cup DashboardConfig

\* Whatever the file holds, what is loaded from it is a whole configuration.
LEMMA LoadsWhole ==
    ASSUME NEW saved \in Files
    PROVE  loadConfig(saved) \in DashboardConfig
  <1>1. CASE saved \in DashboardConfig
    BY <1>1, ReadsBack
  <1>2. CASE saved = NoFile
    <2>1. DOMAIN saved = {}
      BY <1>2 DEF NoFile
    <2>2. loadConfig(saved) = [activePreset |-> "qwen", server |-> defaultServerConfig,
                               daemon |-> defaultDaemonConfig]
      BY <2>1 DEF loadConfig, defaultConfig
    <2>3. QED BY <2>2, Defaults DEF DashboardConfig, PresetId, Model
  <1>3. CASE saved = Partial
    <2> DEFINE daemon == Spread(defaultDaemonConfig, [draftModel |-> "gemma"])
    <2>1. daemon \in DaemonConfig
      <3>1. defaultDaemonConfig \in DaemonConfig /\ "gemma" \in Text
        BY Defaults DEF Text, Model
      <3> HIDE DEF daemon
      <3>2. Spread(defaultDaemonConfig, [draftModel |-> "gemma"]) \in DaemonConfig
        BY SMTT(20), <3>1, Fields DEF Spread, DaemonConfig
      <3>3. QED BY <3>2 DEF daemon
    <2>2. /\ DOMAIN saved = {"activePreset", "daemon"} /\ saved.activePreset = "gemma"
          /\ saved["daemon"] = [draftModel |-> "gemma"]
      BY <1>3 DEF Partial
    <2>3. loadConfig(saved) = [activePreset |-> "gemma", server |-> defaultServerConfig,
                               daemon |-> daemon]
      BY <2>2 DEF loadConfig
    <2> HIDE DEF daemon
    <2>4. QED BY <2>1, <2>3, Defaults DEF DashboardConfig, PresetId, Model
  <1>4. QED BY <1>1, <1>2, <1>3 DEF Files

\* What a preset leaves is a configuration with the preset's values.
LEMMA PresetApplied ==
    ASSUME NEW c \in DashboardConfig, NEW id \in PresetId
    PROVE  LET to == applyPreset(c, id)
           IN  /\ to \in DashboardConfig
               /\ to.activePreset = id
               /\ to.server.targetModel = id /\ to.server.ctxSize = id
               /\ to.daemon.draftModel = id /\ to.daemon.ctxSize = id
               /\ to.daemon.targetModel = IF id = "qwen" THEN "qwen" ELSE ""
  <1> DEFINE server == Spread(c.server, PRESETS[id].server)
             daemon == Spread(c.daemon, PRESETS[id].daemon)
  <1>1. /\ PRESETS[id].server = [targetModel |-> id, ctxSize |-> id]
        /\ PRESETS[id].daemon = [draftModel |-> id,
                                 targetModel |-> IF id = "qwen" THEN "qwen" ELSE "",
                                 ctxSize |-> id]
    BY DEF PRESETS
  <1>2. id \in Model /\ id \in Text
    BY DEF PresetId, Text
  <1>3. server \in ServerConfig /\ server.targetModel = id /\ server.ctxSize = id
    <2> DEFINE old == c.server
               patch == [targetModel |-> id, ctxSize |-> id]
    <2>1. old \in ServerConfig /\ server = Spread(old, patch)
      BY <1>1, Fields
    <2> HIDE DEF old, server
    <2>2. /\ DOMAIN patch = {"targetModel", "ctxSize"}
          /\ patch["targetModel"] = id /\ patch["ctxSize"] = id
      OBVIOUS
    <2> HIDE DEF patch
    <2>3. server \in ServerConfig
      BY SMTT(20), <1>2, <2>1, <2>2, Fields DEF Spread, ServerConfig
    <2>4. server["targetModel"] = id /\ server["ctxSize"] = id
      BY SMTT(20), <2>1, <2>2, Fields DEF Spread
    <2>5. QED BY <2>3, <2>4 DEF ServerConfig
  <1>4. /\ daemon \in DaemonConfig /\ daemon.draftModel = id /\ daemon.ctxSize = id
        /\ daemon.targetModel = IF id = "qwen" THEN "qwen" ELSE ""
    <2> DEFINE old == c.daemon
               target == IF id = "qwen" THEN "qwen" ELSE ""
               patch == [draftModel |-> id, targetModel |-> target, ctxSize |-> id]
    <2>1. old \in DaemonConfig /\ daemon = Spread(old, patch) /\ target \in Text
      BY <1>1, Fields DEF Text, Model
    <2> HIDE DEF old, daemon, target
    <2>2. /\ DOMAIN patch = {"draftModel", "targetModel", "ctxSize"}
          /\ patch["draftModel"] = id /\ patch["targetModel"] = target
          /\ patch["ctxSize"] = id
      OBVIOUS
    <2> HIDE DEF patch
    <2>3. daemon \in DaemonConfig
      BY SMTT(20), <1>2, <2>1, <2>2, Fields DEF Spread, DaemonConfig
    <2>4. daemon["draftModel"] = id /\ daemon["targetModel"] = target
          /\ daemon["ctxSize"] = id
      BY SMTT(20), <2>1, <2>2, Fields DEF Spread
    <2>5. QED BY <2>3, <2>4 DEF DaemonConfig, target
  <1>5. applyPreset(c, id) = [activePreset |-> id, server |-> server, daemon |-> daemon]
    BY DEF applyPreset
  <1> HIDE DEF server, daemon
  <1> DEFINE to == [activePreset |-> id, server |-> server, daemon |-> daemon]
  <1>6. to \in DashboardConfig
    BY <1>3, <1>4 DEF DashboardConfig
  <1>7. to.activePreset = id /\ to.server = server /\ to.daemon = daemon
    OBVIOUS
  <1> HIDE DEF to
  <1>8. QED BY <1>3, <1>4, <1>5, <1>6, <1>7 DEF to

\* The form's patches leave a configuration a configuration.
LEMMA ServerPatched ==
    ASSUME NEW s \in ServerConfig, NEW patch \in ServerCard(s)
    PROVE  Spread(s, patch) \in ServerConfig
  <1> DEFINE One(name, value) == Spread(s, Only(name, value)) \in ServerConfig
  <1>1. /\ \A v \in Text : One("targetModel", v)
        /\ \A v \in Model : One("ctxSize", v)
    BY SMTT(20), Fields DEF Spread, Only, ServerConfig
  <1>2. /\ \A v \in Number : One("httpPort", v)
        /\ \A v \in Number : One("grpcTarget", v)
    BY SMTT(20), Fields DEF Spread, Only, ServerConfig
  <1>3. \A v \in BOOLEAN : One("remoteSpec", v)
    BY SMTT(20), Fields DEF Spread, Only, ServerConfig
  <1>4. \/ \E v \in Text : patch = Only("targetModel", v)
        \/ \E v \in Number : patch = Only("httpPort", v)
        \/ \E v \in Model : patch = Only("ctxSize", v)
        \/ \E v \in BOOLEAN : patch = Only("remoteSpec", v)
        \/ \E v \in Number : patch = Only("grpcTarget", v)
    BY DEF ServerCard, ModelPicker, TextField, NumberField, ChoiceField, SwitchField, Number
  <1>5. QED BY <1>1, <1>2, <1>3, <1>4

LEMMA DaemonPatched ==
    ASSUME NEW d \in DaemonConfig, NEW patch \in DaemonCard
    PROVE  Spread(d, patch) \in DaemonConfig
  <1> DEFINE One(name, value) == Spread(d, Only(name, value)) \in DaemonConfig
  <1>1. /\ \A v \in Text : One("draftModel", v)
        /\ \A v \in Text : One("targetModel", v)
    BY SMTT(20), Fields DEF Spread, Only, DaemonConfig
  <1>2. /\ \A v \in Model : One("ctxSize", v)
        /\ \A v \in Number : One("grpcPort", v)
    BY SMTT(20), Fields DEF Spread, Only, DaemonConfig
  <1>3. \/ \E v \in Text : patch = Only("draftModel", v)
        \/ \E v \in Text : patch = Only("targetModel", v)
        \/ \E v \in Model : patch = Only("ctxSize", v)
        \/ \E v \in Number : patch = Only("grpcPort", v)
    BY DEF DaemonCard, ModelPicker, TextField, NumberField, ChoiceField, Number
  <1>4. QED BY <1>1, <1>2, <1>3

-----------------------------------------------------------------------------
(* The inductive invariant                                                 *)

Carrying == Save \cup Action    \* the calls that carry the configuration to save

\* A call on its way to the server carries a whole configuration; an answered
\* load brings one.
Shaped ==
    /\ DOMAIN calls = Call
    /\ \A c \in Call : calls[c].at \in {"idle", "sent", "handling", "answered", "failed"}
    /\ \A c \in Carrying : calls[c].at = "sent" => calls[c].body \in DashboardConfig
    /\ \A c \in Load : /\ calls[c].at # "handling"
                       /\ calls[c].at = "answered" => calls[c].config \in DashboardConfig

Typed ==
    /\ config \in DashboardConfig \cup {Null} /\ file \in Files
    /\ dirty \in BOOLEAN /\ raced \in BOOLEAN /\ busy \subseteq Action
    /\ Shaped

\* Nothing is edited, saved or started before the first configuration came, so
\* what the loads bring is what the file holds.
Waiting ==
    config = Null =>
       /\ ~dirty
       /\ \A c \in Carrying : calls[c] = Idle
       /\ \A c \in Load : calls[c].at = "answered" => calls[c].config = loadConfig(file)

\* Without an edit under a call, every call that marks the page clean carries
\* what the page shows, and the file holds it once the call is served.
Unraced ==
    config # Null /\ ~raced =>
       /\ \A c \in Carrying :
             /\ calls[c].at = "sent" => calls[c].body = config
             /\ calls[c].at \in {"handling", "answered"} => loadConfig(file) = config
       /\ ~dirty => loadConfig(file) = config

\* A configuration has the values of the preset it was last given.
InForce(cfg, choice) ==
    choice \in PresetId =>
       /\ cfg.activePreset = choice
       /\ cfg.server.targetModel = choice /\ cfg.server.ctxSize = choice
       /\ cfg.daemon.draftModel = choice /\ cfg.daemon.ctxSize = choice
       /\ cfg.daemon.targetModel = IF choice = "qwen" THEN "qwen" ELSE ""

\* A preset's values stay until the next edit, wherever the configuration goes.
Travels(c) ==
    /\ c \in Carrying /\ calls[c].at = "sent" => InForce(calls[c].body, calls[c].choice)
    /\ c \in Load /\ calls[c].at = "answered" => InForce(calls[c].config, calls[c].choice)

Chosen ==
    /\ config = Null => chosen \notin PresetId
    /\ InForce(config, chosen) /\ InForce(loadConfig(file), kept)
    /\ \A c \in Call : Travels(c)

Inv == Typed /\ Waiting /\ Chosen       \* and Unraced, if writes do not fail

\* One call changes and the others stay.
LEMMA CallChanges ==
    ASSUME Shaped, NEW c \in Call, NEW r, calls' = [calls EXCEPT ![c] = r],
           r.at \in {"idle", "sent", "handling", "answered", "failed"},
           c \in Carrying /\ r.at = "sent" => r.body \in DashboardConfig,
           c \in Load => /\ r.at # "handling"
                         /\ r.at = "answered" => r.config \in DashboardConfig
    PROVE  /\ Shaped' /\ calls'[c] = r
           /\ \A d \in Call \ {c} : calls'[d] = calls[d]
  <1>1. /\ DOMAIN calls' = Call /\ calls'[c] = r
        /\ \A d \in Call \ {c} : calls'[d] = calls[d]
    BY DEF Shaped
  <1>2. Carrying \subseteq Call /\ Load \subseteq Call
    BY DEF Carrying, Call
  <1>3. QED BY <1>1, <1>2 DEF Shaped

LEMMA Kinds ==
    /\ Call = Load \cup Carrying /\ Load \cap Carrying = {}
    /\ Save \cap Action = {} /\ Save \subseteq Carrying /\ Action \subseteq Carrying
  BY StoreAssumption DEF Call, Carrying

\* A call that changes leaves the preset of the others as it was.
LEMMA ChosenStays ==
    ASSUME Chosen, UNCHANGED <<config, chosen>>, NEW c \in Call, Travels(c)',
           \A d \in Call \ {c} : calls'[d] = calls[d],
           UNCHANGED <<file, kept>> \/ InForce(loadConfig(file'), kept')
    PROVE  Chosen'
  <1>1. InForce(config, chosen)' /\ InForce(loadConfig(file), kept)'
    BY DEF Chosen
  <1>2. \A d \in Call : Travels(d)'
    BY DEF Chosen, Travels
  <1>3. QED BY <1>1, <1>2 DEF Chosen

LEMMA EditStep ==
    ASSUME Inv, Edit
    PROVE  Inv' /\ Unraced' /\ UNCHANGED launched
  <1>1. config \in DashboardConfig /\ config.server \in ServerConfig
        /\ config.daemon \in DaemonConfig
    BY Fields DEF Edit, Inv, Typed
  <1>2. PICK to, choice : /\ Edited(to, choice) /\ to \in DashboardConfig
                          /\ choice \in PresetId =>
                                /\ to.activePreset = choice
                                /\ to.server.targetModel = choice
                                /\ to.server.ctxSize = choice
                                /\ to.daemon.draftModel = choice
                                /\ to.daemon.ctxSize = choice
                                /\ to.daemon.targetModel =
                                      IF choice = "qwen" THEN "qwen" ELSE ""
    <2>1. CASE \E id \in PresetId : choosePreset(id)
      <3>1. PICK id \in PresetId : Edited(applyPreset(config, id), id)
        BY <2>1 DEF choosePreset
      <3> DEFINE preset == applyPreset(config, id)
      <3>2. /\ preset \in DashboardConfig /\ preset.activePreset = id
            /\ preset.server.targetModel = id /\ preset.server.ctxSize = id
            /\ preset.daemon.draftModel = id /\ preset.daemon.ctxSize = id
            /\ preset.daemon.targetModel = IF id = "qwen" THEN "qwen" ELSE ""
        BY ZenonT(40), <1>1, PresetApplied
      <3> HIDE DEF preset
      <3>3. Edited(preset, id)
        BY <3>1 DEF preset
      <3>4. QED BY <3>2, <3>3
    <2>2. "by hand" \notin PresetId
      BY DEF PresetId, Model
    <2>3. CASE \E patch \in ServerCard(config.server) : patchServer(patch)
      <3>1. PICK patch \in ServerCard(config.server) : patchServer(patch)
        BY <2>3
      <3> DEFINE server == Spread(config.server, patch)
      <3>2. server \in ServerConfig
        BY <1>1, ServerPatched
      <3> HIDE DEF server
      <3>3. [config EXCEPT !.server = server] \in DashboardConfig
        BY <1>1, <3>2 DEF DashboardConfig
      <3>4. QED BY <2>2, <3>1, <3>3 DEF patchServer, server
    <2>4. CASE \E patch \in DaemonCard : patchDaemon(patch)
      <3>1. PICK patch \in DaemonCard : patchDaemon(patch)
        BY <2>4
      <3> DEFINE daemon == Spread(config.daemon, patch)
      <3>2. daemon \in DaemonConfig
        BY <1>1, DaemonPatched
      <3> HIDE DEF daemon
      <3>3. [config EXCEPT !.daemon = daemon] \in DashboardConfig
        BY <1>1, <3>2 DEF DashboardConfig
      <3>4. QED BY <2>2, <3>1, <3>3 DEF patchDaemon, daemon
    <2>5. QED BY <2>1, <2>3, <2>4 DEF Edit
  <1>3. /\ config' = to /\ dirty' = TRUE /\ chosen' = choice
        /\ raced' = (\E c \in Call : calls[c] # Idle)
        /\ file' = file /\ launched' = launched /\ calls' = calls /\ busy' = busy
        /\ kept' = kept
    BY <1>2 DEF Edited, host
  <1>4. config' # Null
    BY <1>2, <1>3, NoConfig
  <1>5. Typed'
    BY <1>2, <1>3 DEF Inv, Typed, Shaped
  <1>6. Chosen'
    <2>1. InForce(to, choice)
      BY <1>2 DEF InForce
    <2>2. QED BY <1>3, <1>4, <2>1 DEF Inv, Chosen, Travels
  <1>7. Unraced'
    <2> SUFFICES ASSUME ~raced' PROVE Unraced'
      BY DEF Unraced
    <2>1. \A c \in Carrying : calls'[c].at = "idle"
      BY <1>3, Kinds DEF Idle
    <2>2. QED BY <1>3, <2>1 DEF Unraced
  <1>8. QED BY <1>3, <1>4, <1>5, <1>6, <1>7 DEF Inv, Waiting

\* The user's other actions.
LEMMA SendStep ==
    ASSUME Inv, NEW c \in Carrying, config # Null, Send(c, config),
           busy' \subseteq Action, UNCHANGED <<config, dirty, host, losses, history>>
    PROVE  Inv' /\ (Unraced => Unraced') /\ UNCHANGED launched
  <1> DEFINE r == [at |-> "sent", body |-> config, choice |-> chosen]
  <1>1. r.at = "sent" /\ r.body = config /\ r.choice = chosen /\ config \in DashboardConfig
    BY DEF Inv, Typed
  <1>2. calls' = [calls EXCEPT ![c] = r]
    BY DEF Send
  <1> HIDE DEF r
  <1>3. Shaped' /\ calls'[c] = r /\ \A d \in Call \ {c} : calls'[d] = calls[d]
    BY <1>1, <1>2, Kinds, CallChanges DEF Inv, Typed
  <1>4. Typed' /\ Waiting' /\ Chosen'
    <2>1. Typed' /\ Waiting'
      BY <1>3 DEF Inv, Typed, Waiting, host, history
    <2>2. UNCHANGED <<config, chosen, file, kept>>
      BY DEF host, history
    <2>3. Travels(c)'
      BY <1>1, <1>3, Kinds DEF Inv, Chosen, Travels
    <2>4. QED BY <1>3, <2>1, <2>2, <2>3, Kinds, ChosenStays DEF Inv
  <1>5. Unraced => Unraced'
    BY <1>1, <1>3, Kinds DEF Unraced, host, history
  <1>6. QED BY <1>4, <1>5 DEF Inv, host

LEMMA UserStep ==
    ASSUME Inv, NEW c \in Call, LaunchControls(c) \/ GlobalActions(c)
    PROVE  Inv' /\ (Unraced => Unraced') /\ UNCHANGED launched
  <1>1. CASE persist(c)
    BY <1>1, SendStep, Kinds DEF persist, page, Inv, Typed
  <1>2. CASE runAction(c)
    BY <1>2, SendStep, Kinds DEF runAction, Inv, Typed
  <1>3. QED BY <1>1, <1>2 DEF LaunchControls, GlobalActions

\* A call is answered, is being handled or fails, and the page does not know yet.
LEMMA CallMoves ==
    ASSUME Inv, NEW c \in Call, NEW r, calls' = [calls EXCEPT ![c] = r],
           calls[c].at # "idle", r.at \in {"handling", "answered", "failed"},
           c \in Load => /\ r.at # "handling"
                         /\ r.at = "answered" =>
                               r.config = loadConfig(file) /\ r.choice = kept,
           UNCHANGED page, UNCHANGED history,
           file' \in Files, file' # file => c \in Carrying,
           UNCHANGED <<file, kept>> \/ InForce(loadConfig(file'), kept')
    PROVE  /\ Inv'
           /\ (config # Null /\ ~raced =>
                  /\ loadConfig(file) = config => loadConfig(file') = config
                  /\ c \in Carrying /\ r.at # "failed" => loadConfig(file') = config)
              => (Unraced => Unraced')
  <1>1. loadConfig(file) \in DashboardConfig
    BY LoadsWhole DEF Inv, Typed
  <1>2. Shaped' /\ calls'[c] = r /\ \A d \in Call \ {c} : calls'[d] = calls[d]
    <2>1. r.at \in {"idle", "sent", "handling", "answered", "failed"} /\ r.at # "sent"
      OBVIOUS
    <2>2. c \in Load => /\ r.at # "handling"
                        /\ r.at = "answered" => r.config \in DashboardConfig
      BY <1>1
    <2>3. Shaped
      BY DEF Inv, Typed
    <2>4. QED BY <2>1, <2>2, <2>3, CallChanges
  <1>3. UNCHANGED <<config, dirty, busy, raced, chosen>>
    BY DEF page, history
  <1>4. Typed' /\ Chosen'
    <2>1. Typed'
      BY <1>2, <1>3 DEF Inv, Typed
    <2>2. Travels(c)'
      BY <1>2, Kinds DEF Inv, Chosen, Travels
    <2>3. QED BY <1>2, <1>3, <2>1, <2>2, ChosenStays DEF Inv
  <1>5. Waiting'
    <2> SUFFICES ASSUME config = Null PROVE Waiting'
      BY <1>3 DEF Waiting
    <2>1. ~dirty /\ c \notin Carrying /\ file' = file
      BY DEF Inv, Waiting, Idle
    <2>2. QED BY <1>2, <1>3, <2>1, Kinds DEF Inv, Waiting
  <1>6. ASSUME config # Null /\ ~raced =>
                  /\ loadConfig(file) = config => loadConfig(file') = config
                  /\ c \in Carrying /\ r.at # "failed" => loadConfig(file') = config,
               Unraced
        PROVE  Unraced'
    <2> SUFFICES ASSUME config # Null, ~raced PROVE Unraced'
      BY <1>3 DEF Unraced
    <2>1. \A d \in Carrying : /\ calls'[d].at = "sent" => calls'[d].body = config'
                              /\ calls'[d].at \in {"handling", "answered"} =>
                                    loadConfig(file') = config'
      BY <1>2, <1>3, <1>6, Kinds DEF Unraced
    <2>2. ~dirty' => loadConfig(file') = config'
      BY <1>3, <1>6 DEF Unraced
    <2>3. QED BY <2>1, <2>2 DEF Unraced
  <1>7. QED BY <1>4, <1>5, <1>6 DEF Inv

\* What is saved is read back, if the write does not fail.
LEMMA Saves ==
    ASSUME NEW body \in DashboardConfig, NEW choice, saveConfig(body, choice), file \in Files
    PROVE  /\ file' \in Files
           /\ ~WritesFail => file' = body /\ loadConfig(file') = body
           /\ \/ UNCHANGED <<file, kept>>
              \/ loadConfig(file') = body /\ kept' = choice
  <1>1. (file' = body /\ kept' = choice) \/ (WritesFail /\ UNCHANGED <<file, kept>>)
    BY DEF saveConfig
  <1>2. QED BY <1>1, ReadsBack DEF Files

LEMMA ServeStep ==
    ASSUME Inv, NEW c \in Call, Serve(c)
    PROVE  Inv' /\ (~WritesFail /\ Unraced => Unraced')
  <1>1. file \in Files /\ config \in DashboardConfig \cup {Null}
    BY DEF Inv, Typed
  <1>2. CASE GetConfig(c)
    <2> DEFINE r == [at |-> "answered", config |-> loadConfig(file), choice |-> kept]
    <2>1. r.at = "answered" /\ r.config = loadConfig(file) /\ r.choice = kept
      OBVIOUS
    <2>2. /\ calls' = [calls EXCEPT ![c] = r] /\ calls[c].at = "sent" /\ c \in Load
          /\ UNCHANGED page /\ UNCHANGED history /\ file' = file /\ kept' = kept
      BY <1>2 DEF GetConfig, host
    <2> HIDE DEF r
    <2>3. QED BY <1>1, <2>1, <2>2, Kinds, CallMoves
  <1>3. CASE PostConfig(c) \/ PostProcess(c)
    <2>1. /\ c \in Carrying /\ calls[c].at = "sent"
          /\ saveConfig(calls[c].body, calls[c].choice)
      BY <1>3, Kinds DEF PostConfig, PostProcess
    <2>2. calls[c].body \in DashboardConfig
      BY <2>1 DEF Inv, Typed, Shaped
    <2>3. PICK r : /\ calls' = [calls EXCEPT ![c] = r]
                   /\ r.at \in {"handling", "answered"}
                   /\ UNCHANGED page /\ UNCHANGED history
      BY <1>3 DEF PostConfig, PostProcess
    <2>4. /\ file' \in Files
          /\ UNCHANGED <<file, kept>> \/ InForce(loadConfig(file'), kept')
      <3>1. InForce(calls[c].body, calls[c].choice)
        BY <2>1 DEF Inv, Chosen, Travels
      <3>2. QED BY <1>1, <2>1, <2>2, <3>1, Saves
    <2>5. Inv'
      BY <2>1, <2>3, <2>4, Kinds, CallMoves
    <2>6. ASSUME ~WritesFail, Unraced PROVE Unraced'
      <3>1. loadConfig(file') = calls[c].body
        BY <1>1, <2>1, <2>2, <2>6, Saves
      <3>2. config # Null /\ ~raced => loadConfig(file') = config
        BY <2>1, <2>6, <3>1 DEF Unraced
      <3>3. QED BY <2>1, <2>3, <2>4, <2>6, <3>2, Kinds, CallMoves
    <2>7. QED BY <2>5, <2>6
  <1>4. CASE Answer(c)
    <2> DEFINE r == [at |-> "answered"]
    <2>1. r.at = "answered"
      OBVIOUS
    <2>2. /\ calls' = [calls EXCEPT ![c] = r] /\ calls[c].at = "handling"
          /\ UNCHANGED page /\ UNCHANGED history /\ file' = file /\ kept' = kept
      BY <1>4 DEF Answer, host
    <2> HIDE DEF r
    <2>3. c \in Carrying
      BY <2>2, Kinds DEF Inv, Typed, Shaped
    <2>4. Unraced /\ config # Null /\ ~raced => loadConfig(file') = config
      BY <2>2, <2>3 DEF Unraced
    <2>5. QED BY <1>1, <2>1, <2>2, <2>3, <2>4, Kinds, CallMoves
  <1>5. QED BY <1>2, <1>3, <1>4 DEF Serve

LEMMA LoseStep ==
    ASSUME Inv, NEW c \in Call, Lose(c)
    PROVE  Inv' /\ (Unraced => Unraced') /\ UNCHANGED launched
  <1> DEFINE r == [at |-> "failed"]
  <1>1. r.at = "failed"
    OBVIOUS
  <1>2. /\ calls' = [calls EXCEPT ![c] = r] /\ calls[c].at # "idle"
        /\ UNCHANGED page /\ UNCHANGED history /\ file' = file /\ launched' = launched
        /\ kept' = kept
    BY DEF Lose, host
  <1> HIDE DEF r
  <1>3. file' \in Files
    BY <1>2 DEF Inv, Typed
  <1>4. /\ Inv'
        /\ (config # Null /\ ~raced =>
               /\ loadConfig(file) = config => loadConfig(file') = config
               /\ c \in Carrying /\ r.at # "failed" => loadConfig(file') = config)
           => (Unraced => Unraced')
    BY <1>1, <1>2, <1>3, CallMoves
  <1>5. QED BY <1>1, <1>2, <1>4

LEMMA ReceiveStep ==
    ASSUME Inv, NEW c \in Call, Receive(c)
    PROVE  Inv' /\ (Unraced => Unraced') /\ UNCHANGED launched
  <1>1. /\ calls' = [calls EXCEPT ![c] = Idle] /\ UNCHANGED <<file, kept, launched>>
        /\ calls[c].at \in {"answered", "failed"}
    BY DEF Receive, host
  <1>2. Shaped' /\ calls'[c] = Idle /\ \A d \in Call \ {c} : calls'[d] = calls[d]
    <2>1. Idle.at = "idle"
      BY DEF Idle
    <2>2. Shaped
      BY DEF Inv, Typed
    <2>3. QED BY <1>1, <2>1, <2>2, CallChanges
  <1>3. Idle.at = "idle"
    BY DEF Idle
  <1>4. CASE Loaded(c) /\ calls[c].at = "answered"
    <2>1. /\ c \in Load /\ config' = calls[c].config /\ raced' = (raced \/ config # Null)
          /\ chosen' = calls[c].choice /\ dirty' = dirty /\ busy' = busy
      BY <1>4 DEF Loaded
    <2>2. config' \in DashboardConfig /\ config' # Null
      BY <1>4, <2>1, NoConfig DEF Inv, Typed, Shaped
    <2>3. Typed' /\ Waiting'
      BY <1>1, <1>2, <2>1, <2>2 DEF Inv, Typed, Waiting
    <2>4. Chosen'
      <3>1. InForce(config, chosen)'
        BY <1>4, <2>1 DEF Inv, Chosen, Travels
      <3>2. QED BY <1>1, <1>2, <1>3, <2>2, <3>1 DEF Inv, Chosen, Travels
    <2>5. ASSUME ~raced' PROVE Unraced'
      <3>1. config = Null
        BY <2>1, <2>5
      <3>2. config' = loadConfig(file) /\ \A d \in Carrying : calls[d] = Idle
        BY <1>4, <2>1, <3>1 DEF Inv, Waiting
      <3>3. \A d \in Carrying : calls'[d].at = "idle"
        BY <1>2, <1>3, <3>2, Kinds
      <3>4. QED BY <1>1, <3>2, <3>3 DEF Unraced
    <2>6. QED BY <1>1, <2>3, <2>4, <2>5 DEF Inv, Unraced
  <1>5. CASE Loaded(c) /\ calls[c].at # "answered"
    <2>1. UNCHANGED <<config, dirty, busy, raced, chosen>>
      BY <1>5 DEF Loaded
    <2>2. Typed' /\ Waiting' /\ Chosen'
      <3>1. Typed' /\ Waiting'
        BY <1>1, <1>2, <1>3, <2>1, Kinds DEF Inv, Typed, Waiting
      <3>2. QED BY <1>1, <1>2, <1>3, <2>1, <3>1, ChosenStays DEF Inv, Travels
    <2>3. Unraced => Unraced'
      BY <1>1, <1>2, <1>3, <2>1, Kinds DEF Unraced
    <2>4. QED BY <1>1, <2>2, <2>3 DEF Inv
  <1>6. CASE Persisted(c) \/ ActionDone(c)
    <2>1. /\ c \in Carrying /\ dirty' = (dirty /\ calls[c].at = "failed")
          /\ busy' \subseteq busy /\ UNCHANGED <<config, raced, chosen>>
      BY <1>6, Kinds DEF Persisted, ActionDone, history
    <2>2. Typed' /\ Waiting' /\ Chosen'
      <3>1. Typed' /\ Waiting'
        BY <1>1, <1>2, <1>3, <2>1, Kinds DEF Inv, Typed, Waiting
      <3>2. QED BY <1>1, <1>2, <1>3, <2>1, <3>1, ChosenStays DEF Inv, Travels
    <2>3. ASSUME Unraced PROVE Unraced'
      <3> SUFFICES ASSUME config # Null, ~raced PROVE Unraced'
        BY <2>1 DEF Unraced
      <3>1. ~dirty' => loadConfig(file') = config'
        BY <1>1, <2>1, <2>3 DEF Unraced, Inv, Typed
      <3>2. QED BY <1>1, <1>2, <1>3, <2>1, <2>3, <3>1, Kinds DEF Unraced
    <2>4. QED BY <1>1, <2>2, <2>3 DEF Inv
  <1>7. QED BY <1>4, <1>5, <1>6 DEF Receive

LEMMA InitStep == Init => Inv /\ Unraced
  <1> SUFFICES ASSUME Init PROVE Inv /\ Unraced
    OBVIOUS
  <1>1. /\ DOMAIN calls = Call
        /\ \A c \in Load : calls[c].at = "sent"
        /\ \A c \in Carrying : calls[c] = Idle /\ calls[c].at = "idle"
    BY Kinds DEF Init, Idle
  <1>2. Shaped
    BY <1>1, Kinds DEF Shaped
  <1>3. Typed /\ Waiting /\ Unraced
    BY <1>1, <1>2 DEF Init, Typed, Waiting, Unraced, Files
  <1>4. Chosen
    BY <1>1, Kinds DEF Init, Chosen, Travels, InForce, PresetId, Model
  <1>5. QED BY <1>3, <1>4 DEF Inv

LEMMA NextStep ==
    Inv /\ [Next]_vars => Inv' /\ (~WritesFail /\ Unraced => Unraced')
  <1> SUFFICES ASSUME Inv, [Next]_vars
               PROVE  Inv' /\ (~WritesFail /\ Unraced => Unraced')
    OBVIOUS
  <1>1. CASE Edit
    BY <1>1, EditStep
  <1>2. CASE \E c \in Call : LaunchControls(c) \/ GlobalActions(c)
    BY <1>2, UserStep
  <1>3. CASE \E c \in Call : Serve(c)
    BY <1>3, ServeStep
  <1>4. CASE \E c \in Call : Lose(c)
    BY <1>4, LoseStep
  <1>5. CASE \E c \in Call : Receive(c)
    BY <1>5, ReceiveStep
  <1>6. CASE UNCHANGED vars
    BY <1>6 DEF Inv, Typed, Shaped, Waiting, Chosen, Travels, Unraced, vars, page, host, history
  <1>7. QED BY <1>1, <1>2, <1>3, <1>4, <1>5, <1>6 DEF Next

\* The page's configuration, the file's and the one each call carries are whole
\* whatever the file held and however calls overtake each other or are lost
\* (loadConfig, useStore).
THEOREM Inductive == Spec => []Inv
  <1>1. Init => Inv
    BY InitStep
  <1>2. Inv /\ [Next]_vars => Inv'
    BY NextStep
  <1>3. QED BY <1>1, <1>2, PTL DEF Spec

\* No call, answer or broken file ever leaves the page or the file with half a
\* configuration (loadConfig, persist).
THEOREM TypeCorrect == Spec => []TypeOK
  <1>1. Inv => TypeOK
    BY LoadsWhole DEF Inv, Typed, Shaped, TypeOK
  <1>2. QED BY <1>1, Inductive, PTL

\* A preset decides what it is about until the next edit (applyPreset), whatever
\* saves and actions do; and a configuration that was saved with a preset in force
\* has its values when a load brings it back (persist, saveConfig, loadConfig).
THEOREM PresetsDecide == Spec => []PresetDecides
  <1>1. Inv => PresetDecides
    <2> SUFFICES ASSUME Inv, chosen \in PresetId PROVE PresetDecides
      BY DEF PresetDecides
    <2>1. /\ config.activePreset = chosen
          /\ config.server.targetModel = chosen /\ config.server.ctxSize = chosen
          /\ config.daemon.draftModel = chosen /\ config.daemon.ctxSize = chosen
          /\ config.daemon.targetModel = IF chosen = "qwen" THEN "qwen" ELSE ""
      BY DEF Inv, Chosen, InForce
    <2>2. /\ serverArgs(config.server)["-m"] = config.server.targetModel
          /\ serverArgs(config.server)["--ctx-size"] = config.server.ctxSize
      BY DEF serverArgs
    <2>3. /\ daemonArgs(config.daemon)["--model"] = config.daemon.draftModel
          /\ daemonArgs(config.daemon)["--ctx-size"] = config.daemon.ctxSize
      BY DEF daemonArgs
    <2>4. chosen = "qwen" => daemonArgs(config.daemon)["--target-model"] = "qwen"
      BY <2>1 DEF daemonArgs
    <2>5. chosen # "qwen" => "--target-model" \notin DOMAIN daemonArgs(config.daemon)
      BY <2>1 DEF daemonArgs
    <2>6. QED BY <2>1, <2>2, <2>3, <2>4, <2>5 DEF PresetDecides
  <1>2. QED BY <1>1, Inductive, PTL

\* Unless writing the file fails, the mark on "Save config" can be trusted
\* (persist, runAction, the two POST handlers).
THEOREM MarkIsTrue == ~WritesFail => (Spec => []CleanIsSaved)
  <1> SUFFICES ASSUME ~WritesFail PROVE Spec => []CleanIsSaved
    OBVIOUS
  <1>1. Init => Inv /\ Unraced
    BY InitStep
  <1>2. Inv /\ Unraced /\ [Next]_vars => Inv' /\ Unraced'
    BY NextStep
  <1>3. Inv /\ Unraced => CleanIsSaved
    BY DEF Unraced, CleanIsSaved
  <1>4. QED BY <1>1, <1>2, <1>3, PTL DEF Spec

\* Unless writing the file fails, no daemon is started on a configuration that
\* is not the saved one (POST of app/api/process saves first).
THEOREM StartsWhatIsSaved == ~WritesFail => (Spec => StartedIsSaved)
  <1> SUFFICES ASSUME ~WritesFail PROVE Spec => StartedIsSaved
    OBVIOUS
  <1>1. Inv /\ [Next]_vars =>
           [launched' # launched => daemonArgs(loadConfig(file').daemon) = launched']_vars
    <2> SUFFICES ASSUME Inv, Next, launched' # launched
                 PROVE  daemonArgs(loadConfig(file').daemon) = launched'
      OBVIOUS
    <2>1. PICK c \in Call : Serve(c)
      BY EditStep, UserStep, LoseStep, ReceiveStep DEF Next
    <2>2. PostProcess(c)
      BY <2>1 DEF Serve, GetConfig, PostConfig, Answer, host
    <2>3. /\ c \in Carrying /\ calls[c].at = "sent"
          /\ saveConfig(calls[c].body, calls[c].choice)
          /\ launched' = daemonArgs(calls[c].body.daemon)
      BY <2>2, Kinds DEF PostProcess
    <2>4. calls[c].body \in DashboardConfig /\ file \in Files
      BY <2>3 DEF Inv, Typed, Shaped
    <2>5. loadConfig(file') = calls[c].body
      BY <2>3, <2>4, Saves
    <2>6. QED BY <2>3, <2>5
  <1>2. QED BY <1>1, Inductive, PTL DEF Spec, StartedIsSaved

=============================================================================
