------------------------------- MODULE Startup -------------------------------
(***************************************************************************)
(* main.py: the environment selects a runner, the runner loads its         *)
(* configuration from two files and the environment variables, opens its   *)
(* secrets, and comes up after a reconciliation.  Between starts the       *)
(* operator edits files, exports variables and stores secrets.             *)
(***************************************************************************)
EXTENDS Naturals

CONSTANTS
  Environments,      \* what ETF_PLATFORM_ENV may say
  Sections, Defaults,\* of AppConfig; section -> its keys with their defaults
  Null,              \* a section that is in the file with nothing under it
  Installed,         \* file -> the mapping of the repository's file
  Layers,            \* file -> what the operator may make of it
  Exports,           \* the sets of variables the operator may export
  Credentials,       \* what the live runner needs, in its order of asking
  MaxEdits, MaxStarts

VARIABLES
  configFiles,             \* file -> the mapping it holds
  exported,          \* ETF_PLATFORM__<SECTION>__<KEY> variables
  vault,             \* provider -> the secrets stored there
  process,           \* the runner, how far it is, and what it holds
  cachedConfig,      \* _cached_config of get_config
  issued,            \* versions handed out, with their configurations (history)
  edits, starts

startVars == <<configFiles, exported, vault, process, cachedConfig, issued, edits, starts>>

NoConfig == [version |-> Null]
Stopped == [at |-> "stopped", runner |-> Null, asked |-> Null, environ |-> {},
            config |-> NoConfig, notifier |-> FALSE]

Init ==
  /\ configFiles = Installed
  /\ exported = {}
  /\ vault = [p \in {"local", "aws"} |-> IF p = "aws" THEN Credentials ELSE {}]
  /\ process = Stopped
  /\ cachedConfig = NoConfig
  /\ issued = {}
  /\ edits = 0
  /\ starts = 0

-----------------------------------------------------------------------------
(* ConfigManager.load                                                      *)

IsMapping(x) == x # Null

(* What is above hides what is below it, key by key.                       *)
Atop(above, below) ==
  [k \in DOMAIN above \cup DOMAIN below |->
     IF k \in DOMAIN above THEN above[k] ELSE below[k]]

(* _deep_merge: mappings are merged, anything else replaces what was there. *)
DeepMerge(below, above) ==
  [s \in DOMAIN below \cup DOMAIN above |->
     IF s \notin DOMAIN above THEN below[s]
     ELSE IF s \in DOMAIN below /\ IsMapping(below[s]) /\ IsMapping(above[s])
          THEN Atop(above[s], below[s])
          ELSE above[s]]

EnvFile(env) == IF env \in DOMAIN configFiles THEN configFiles[env] ELSE <<>>
FromFiles(env) == DeepMerge(configFiles["base"], EnvFile(env))

(* _apply_env_overrides: a variable sets one key, of a mapping made for it *)
(* where there is none.                                                    *)
VariablesOf(variables, s) == {v \in variables : v.section = s}
ApplyEnvOverrides(sections, variables) ==
  [s \in DOMAIN sections \cup {v.section : v \in variables} |->
     IF VariablesOf(variables, s) = {} THEN sections[s]
     ELSE Atop([k \in {v.key : v \in VariablesOf(variables, s)} |->
                  (CHOOSE v \in VariablesOf(variables, s) : v.key = k).value],
               IF s \in DOMAIN sections /\ IsMapping(sections[s]) THEN sections[s] ELSE <<>>)]

(* The section "app" stands for the keys at the top.                       *)
Named(env) == [s \in {"app"} |-> [k \in {"environment"} |-> env]]
BeforeOverrides(env) == Atop(FromFiles(env), Named(env))
Resolved(env, variables) == ApplyEnvOverrides(BeforeOverrides(env), variables)

(* As if the version were computed from the files alone.                   *)
VersionOfFiles(env, variables) == BeforeOverrides(env)

(* _compute_config_version: a hash with no collisions.                     *)
Version(env, variables) == Resolved(env, variables)

(* _build_dataclass, an unknown or an empty section raises, and validate;  *)
(* one number stands for the rate limits of both providers.                *)
Builds(sections) ==
  /\ DOMAIN sections \subseteq Sections
  /\ \A s \in DOMAIN sections :
       IsMapping(sections[s]) /\ DOMAIN sections[s] \subseteq DOMAIN Defaults[s]

Build(sections) ==
  [s \in Sections |-> IF s \in DOMAIN sections THEN Atop(sections[s], Defaults[s]) ELSE Defaults[s]]

ValidRateLimit(perSecond) == perSecond > 0
ValidDataEngine(section) ==
  /\ {section.primary_provider, section.secondary_provider} \subseteq {"nse", "kite"}
  /\ section.storage_backend \in {"auto", "csv", "parquet"}
  /\ ValidRateLimit(section.calls_per_second)
ValidDatabase(section) == section.sqlite_path # "" /\ section.busy_timeout_seconds > 0
ValidSecrets(section) ==
  /\ section.provider \in {"local", "aws"}
  /\ section.provider = "local" => section.local_key_env_var # ""
  /\ section.provider = "aws" => section.aws_secret_name # "" /\ section.aws_region # ""
ValidLogging(section) == section.level \in {"DEBUG", "INFO", "WARNING", "ERROR", "CRITICAL"}

Validates(config) ==
  /\ config["app"].environment \in {"dev", "paper", "live"}
  /\ ValidDataEngine(config["data_engine"])
  /\ ValidDatabase(config["database"])
  /\ ValidSecrets(config["secrets"])
  /\ ValidLogging(config["logging"])

Loads(env, variables) ==
  LET sections == Resolved(env, variables)
  IN  Builds(sections) /\ Validates(Build(sections))
Load(env, variables) ==
  [version |-> Version(env, variables), settings |-> Build(Resolved(env, variables))]

(* get_config in a running process: whoever asks first decides, a reload   *)
(* aside.  A process keeps the variables it was started with.              *)
GetConfig(forceReload) ==
  LET env == process.asked
      variables == process.environ
  IN  /\ process.at = "up"
      /\ cachedConfig = NoConfig \/ forceReload
      /\ Loads(env, variables)
      /\ cachedConfig' = Load(env, variables)
      /\ issued' = issued \cup {cachedConfig'}
      /\ UNCHANGED <<configFiles, exported, vault, process, edits, starts>>

-----------------------------------------------------------------------------
(* main, and startup of the runner it selects                              *)

SelectRunner(env) ==
  CASE env \in {"paper", "dev"} -> "paper"
    [] env \in {"live", "production"} -> "live"
    [] OTHER -> Null

Launch(env) ==
  /\ process.at = "stopped"
  /\ starts < MaxStarts
  /\ starts' = starts + 1
  /\ SelectRunner(env) # Null
  /\ Loads(env, exported)
  /\ process' = [at |-> "configured", runner |-> SelectRunner(env), asked |-> env,
                 environ |-> exported, config |-> Load(env, exported), notifier |-> FALSE]
  /\ issued' = issued \cup {process'.config}
  /\ UNCHANGED <<configFiles, exported, vault, cachedConfig, edits>>

Stored == vault[process.config.settings["secrets"].provider]

(* _build_notifier: on paper the session goes on without one, live stops.  *)
BuildNotifier ==
  /\ process.at = "configured"
  /\ process' = IF "telegram" \in Stored \/ process.runner = "paper"
                THEN [process EXCEPT !.notifier = "telegram" \in Stored,
                        !.at = IF process.runner = "paper" THEN "recovering" ELSE "notifying"]
                ELSE Stopped
  /\ UNCHANGED <<configFiles, exported, vault, cachedConfig, issued, edits, starts>>

(* load_kite_auth_manager and the access token, each or StartupValidationError. *)
Authenticate ==
  /\ process.at = "notifying"
  /\ process' = IF Credentials \subseteq Stored THEN [process EXCEPT !.at = "authenticated"]
                ELSE Stopped
  /\ UNCHANGED <<configFiles, exported, vault, cachedConfig, issued, edits, starts>>

(* get_available_cash as the health check                                  *)
ReachBroker ==
  /\ process.at = "authenticated"
  /\ process' \in {Stopped, [process EXCEPT !.at = "recovering"]}
  /\ UNCHANGED <<configFiles, exported, vault, cachedConfig, issued, edits, starts>>

(* The start-up reconciliation; one that raises ends the process.          *)
Recover ==
  /\ process.at = "recovering"
  /\ process' \in {Stopped, [process EXCEPT !.at = "up"]}
  /\ UNCHANGED <<configFiles, exported, vault, cachedConfig, issued, edits, starts>>

(* A signal, and shutdown in the finally of main; or the process is killed. *)
Shutdown ==
  /\ process.at = "up"
  /\ process' = Stopped
  /\ cachedConfig' = NoConfig
  /\ UNCHANGED <<configFiles, exported, vault, issued, edits, starts>>

-----------------------------------------------------------------------------
(* The operator                                                            *)

Edit ==
  /\ edits < MaxEdits
  /\ edits' = edits + 1
  /\ \/ /\ \E f \in DOMAIN configFiles : \E l \in Layers[f] : configFiles' = [configFiles EXCEPT ![f] = l]
        /\ UNCHANGED <<exported, vault>>
     \/ /\ exported' \in Exports
        /\ UNCHANGED <<configFiles, vault>>
     \/ /\ \E p \in DOMAIN vault : \E c \in Credentials :
             vault' = [vault EXCEPT ![p] = IF c \in @ THEN @ \ {c} ELSE @ \cup {c}]
        /\ UNCHANGED <<configFiles, exported>>
  /\ UNCHANGED <<process, cachedConfig, issued, starts>>

Next ==
  \/ \E env \in Environments : Launch(env)
  \/ \E force \in BOOLEAN : GetConfig(force)
  \/ BuildNotifier \/ Authenticate \/ ReachBroker \/ Recover \/ Shutdown
  \/ Edit

Spec == Init /\ [][Next]_startVars

-----------------------------------------------------------------------------
(* A version names one configuration, over all edits, exports and restarts *)
(* (what a proposal or a backtest cites as its config_version).  A runner  *)
(* that is past its first step was selected for the environment its        *)
(* configuration names, unless a variable renamed it, and reaches the      *)
(* broker with real money only under settings whose secrets it found.      *)
StartsAreReproducible ==
  /\ \A a, b \in issued : a.version = b.version => a.settings = b.settings
  /\ process.at # "stopped" =>
       \/ VariablesOf(process.environ, "app") # {}
       \/ SelectRunner(process.config.settings["app"].environment) = process.runner
  /\ (process.runner = "live" /\ process.at = "up") => process.notifier
=============================================================================
