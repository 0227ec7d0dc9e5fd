--------------------------- MODULE DashboardStore ---------------------------
(***************************************************************************)
(* The page's copy of the configuration (lib/store.ts) against the         *)
(* server's: the file (app/api/config) and what is launched from it        *)
(* (app/api/process).  Requests and their answers travel on connections of *)
(* their own, so they overtake each other, and any of them may be lost.    *)
(* The status that an action's answer carries too is LiveSync's.           *)
(***************************************************************************)
EXTENDS DashboardConfig, Naturals

CONSTANTS
    Load, Save,         \* the GETs of the configuration and the saves that may
                        \* be on their way at once
    Action,             \* the actions the user takes
    Field,              \* the fields the user edits by hand
    WritesFail,         \* may writing the file fail?
    MaxEdits,           \* edits the user makes
    MaxLosses           \* calls that break

ASSUME StoreAssumption ==
    /\ Load \cap Save = {} /\ (Load \cup Save) \cap Action = {}
    /\ Action \subseteq {"start-daemon", "stop-daemon", "quickstart", "stop-all"}
    /\ WritesFail \in BOOLEAN
    /\ MaxEdits \in Nat /\ MaxLosses \in Nat

Call == Load \cup Save \cup Action
Null == <<>>

VARIABLES
    config, dirty, busy,        \* the page
    file, launched,             \* the server: "launched" is the last daemon's command
    calls,                      \* requests and answers on their way
    losses,
    edits, raced, chosen,       \* history: see Edited
    kept                        \* history: "chosen" of the configuration in the file

page == <<config, dirty, busy>>
host == <<file, kept, launched>>
history == <<edits, raced, chosen>>
vars == <<page, host, calls, losses, history>>

Idle == [at |-> "idle"]

TypeOK ==
    /\ config \in DashboardConfig \cup {Null}
    /\ dirty \in BOOLEAN
    /\ busy \subseteq Action
    /\ loadConfig(file) \in DashboardConfig
    /\ \A c \in Call : calls[c].at \in {"idle", "sent", "handling", "answered", "failed"}

\* The page has just been opened; the file is missing or an old one.
Init ==
    /\ config = Null /\ dirty = FALSE /\ busy = {}
    /\ file \in {NoFile, Partial}
    /\ launched = Null
    /\ calls = [c \in Call |-> IF c \in Load THEN [at |-> "sent"] ELSE Idle]
    /\ losses = 0 /\ edits = 0 /\ raced = FALSE
    /\ chosen = "nothing" /\ kept = "nothing"

-----------------------------------------------------------------------------
(* The user *)

\* An edit is "raced" when a call that will mark the page clean, or replace
\* its configuration, was on its way; "chosen" is the preset it leaves in force,
\* which goes with the configuration wherever it is sent.
Edited(to, choice) ==
    /\ edits < MaxEdits /\ config # Null
    /\ config' = to
    /\ dirty' = TRUE
    /\ edits' = edits + 1
    /\ raced' = (\E c \in Call : calls[c] # Idle)
    /\ chosen' = choice
    /\ UNCHANGED <<busy, host, calls, losses>>

patchServer(patch) ==
    Edited([config EXCEPT !.server = Spread(config.server, patch)], "by hand")

patchDaemon(patch) ==
    Edited([config EXCEPT !.daemon = Spread(config.daemon, patch)], "by hand")

choosePreset(id) == Edited(applyPreset(config, id), id)

Edit ==
    /\ config # Null
    /\ \/ \E id \in PresetId : choosePreset(id)
       \/ \E patch \in ServerCard(config.server) :
             DOMAIN patch \subseteq Field /\ patchServer(patch)
       \/ \E patch \in DaemonCard : DOMAIN patch \subseteq Field /\ patchDaemon(patch)

Send(c, body) ==
    calls' = [calls EXCEPT ![c] = [at |-> "sent", body |-> body, choice |-> chosen]]

\* Mutant: the page is marked clean before the answer.
persist_Optimistic(c) ==
    /\ c \in Save /\ calls[c] = Idle /\ config # Null
    /\ dirty' = FALSE
    /\ Send(c, config)
    /\ UNCHANGED <<config, busy, host, losses, history>>

persist(c) ==
    /\ c \in Save /\ calls[c] = Idle /\ config # Null
    /\ Send(c, config)
    /\ UNCHANGED <<page, host, losses, history>>

runAction(a) ==
    /\ a \in Action /\ config # Null
    /\ busy' = busy \cup {a}
    /\ Send(a, config)
    /\ UNCHANGED <<config, dirty, host, losses, history>>

\* A card's buttons.  Which of them it shows is LiveSync's; each is disabled
\* while its action is busy.
LaunchControls(a) == a \in {"start-daemon", "stop-daemon"} \ busy /\ runAction(a)

GlobalActions(c) ==
    persist(c) \/ (c \in {"quickstart", "stop-all"} \ busy /\ runAction(c))

-----------------------------------------------------------------------------
(* The server *)

saveConfig(cfg, choice) ==
    \/ file' = cfg /\ kept' = choice
    \/ WritesFail /\ UNCHANGED <<file, kept>>

GetConfig(c) ==
    /\ c \in Load /\ calls[c].at = "sent"
    /\ calls' = [calls EXCEPT ![c] =
          [at |-> "answered", config |-> loadConfig(file), choice |-> kept]]
    /\ UNCHANGED <<page, host, losses, history>>

PostConfig(c) ==
    /\ c \in Save /\ calls[c].at = "sent"
    /\ saveConfig(calls[c].body, calls[c].choice)
    /\ calls' = [calls EXCEPT ![c] = [at |-> "answered"]]
    /\ UNCHANGED <<page, launched, losses, history>>

\* Mutant: only "Save config" saves.
PostProcess_SavesNothing(a) ==
    /\ a \in Action /\ calls[a].at = "sent"
    /\ launched' \in {launched} \cup
          IF a \in {"start-daemon", "quickstart"}
          THEN {daemonArgs(calls[a].body.daemon)} ELSE {}
    /\ calls' = [calls EXCEPT ![a] =
          [at |-> IF a = "start-daemon" THEN "answered" ELSE "handling"]]
    /\ UNCHANGED <<page, file, kept, losses, history>>

\* The configuration is saved first, whatever the action is; a start answers at
\* once, the others wait (a quick start has started the daemon by then).
PostProcess(a) ==
    /\ a \in Action /\ calls[a].at = "sent"
    /\ saveConfig(calls[a].body, calls[a].choice)
    /\ launched' \in {launched} \cup
          IF a \in {"start-daemon", "quickstart"}
          THEN {daemonArgs(calls[a].body.daemon)} ELSE {}
    /\ calls' = [calls EXCEPT ![a] =
          [at |-> IF a = "start-daemon" THEN "answered" ELSE "handling"]]
    /\ UNCHANGED <<page, losses, history>>

Answer(a) ==
    /\ calls[a].at = "handling"
    /\ calls' = [calls EXCEPT ![a] = [at |-> "answered"]]
    /\ UNCHANGED <<page, host, losses, history>>

-----------------------------------------------------------------------------
(* What comes back *)

Lose(c) ==
    /\ losses < MaxLosses /\ calls[c].at \in {"sent", "handling", "answered"}
    /\ losses' = losses + 1
    /\ calls' = [calls EXCEPT ![c] = [at |-> "failed"]]
    /\ UNCHANGED <<page, host, history>>

\* After a failure init() is not tried again.
Loaded(c) ==
    /\ c \in Load
    /\ IF calls[c].at = "answered"
       THEN /\ config' = calls[c].config
            /\ raced' = (raced \/ config # Null)
            /\ chosen' = calls[c].choice
       ELSE UNCHANGED <<config, raced, chosen>>
    /\ UNCHANGED <<dirty, busy, edits>>

Persisted(c) ==
    /\ c \in Save
    /\ dirty' = (dirty /\ calls[c].at = "failed")
    /\ UNCHANGED <<config, busy, history>>

\* Mutant: the button comes back only with an answer.
ActionDone_NoFinally(a) ==
    /\ a \in Action
    /\ dirty' = (dirty /\ calls[a].at = "failed")
    /\ busy' = IF calls[a].at = "failed" THEN busy ELSE busy \ {a}
    /\ UNCHANGED <<config, history>>

\* A failed action carries a status as well, and so marks the page clean.
ActionDone(a) ==
    /\ a \in Action
    /\ dirty' = (dirty /\ calls[a].at = "failed")
    /\ busy' = busy \ {a}
    /\ UNCHANGED <<config, history>>

Receive(c) ==
    /\ calls[c].at \in {"answered", "failed"}
    /\ calls' = [calls EXCEPT ![c] = Idle]
    /\ Loaded(c) \/ Persisted(c) \/ ActionDone(c)
    /\ UNCHANGED <<host, losses>>

-----------------------------------------------------------------------------
Serve(c) == GetConfig(c) \/ PostConfig(c) \/ PostProcess(c) \/ Answer(c)

Next ==
    \/ Edit
    \/ \E c \in Call :
          \/ LaunchControls(c) \/ GlobalActions(c)
          \/ Serve(c) \/ Lose(c) \/ Receive(c)

Spec == Init /\ [][Next]_vars

\* Every call that is not lost is served and answered (stop() settles:
\* ProcessManager).  Nothing is assumed of the user.
FairSpec == Spec /\ \A c \in Call : WF_vars(Serve(c)) /\ WF_vars(Receive(c))

-----------------------------------------------------------------------------
(* Properties *)

\* The mark on "Save config" can be trusted (persist, runAction, POST): a page
\* that shows no unsaved edit shows what is saved, unless an edit was made
\* while a save was on its way, however saves and actions overtake each other.
CleanIsSaved ==
    config # Null /\ ~dirty /\ ~raced => loadConfig(file) = config

\* A preset decides what it is about, whatever was configured before it
\* (PRESETS, applyPreset, daemonArgs): Qwen's daemon gets its target model,
\* Gemma's gets none, and both programs get the models and sizes of one preset,
\* until an edit by hand, also once the configuration was saved and loaded again.
PresetDecides ==
    chosen \in PresetId =>
       LET server == serverArgs(config.server)
           daemon == daemonArgs(config.daemon) IN
       /\ config.activePreset = chosen
       /\ server["-m"] = chosen /\ daemon["--model"] = chosen
       /\ server["--ctx-size"] = daemon["--ctx-size"]
       /\ IF chosen = "qwen" THEN daemon["--target-model"] = "qwen"
          ELSE "--target-model" \notin DOMAIN daemon

\* What is started is also saved (README.md:60-61 of the dashboard).
StartedIsSaved ==
    [][launched' # launched => daemonArgs(loadConfig(file').daemon) = launched']_vars

\* A button comes back: whatever becomes of its call, no action stays busy.
BusyEnds == \A a \in Action : a \in busy ~> a \notin busy
=============================================================================
