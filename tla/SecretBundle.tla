---------------------------- MODULE SecretBundle ----------------------------
(***************************************************************************)
(* AWSSecretsManagerProvider: one bundle of secrets at AWS, rotated there  *)
(* and never written by the program, and a cache of it in the process that *)
(* is fetched again when it is older than its time to live.                *)
(***************************************************************************)
EXTENDS Naturals

CONSTANTS
  LifeTime,      \* cache_ttl_seconds
  LastHour,      \* bound on the clock
  NoBundle

VARIABLES
  hour,          \* time.monotonic
  bundle,        \* the version of the bundle at AWS
  retired,       \* version -> when it was replaced, for the versions so far
  requested,     \* the answer of AWS on its way: the version, and when it was read
  cached,        \* _cache and _cache_loaded_at, and when AWS read it
  served         \* what get_secret returned last, when, and how long its request took

bundleVars == <<hour, bundle, retired, requested, cached, served>>

Init ==
  /\ hour = 0 /\ bundle = 1 /\ retired = <<>>
  /\ requested = NoBundle /\ cached = NoBundle /\ served = NoBundle

Hour ==
  /\ hour < LastHour
  /\ hour' = hour + 1
  /\ UNCHANGED <<bundle, retired, requested, cached, served>>

Rotate ==
  /\ bundle <= LastHour
  /\ bundle' = bundle + 1
  /\ retired' = [v \in 1..bundle |-> IF v = bundle THEN hour ELSE retired[v]]
  /\ UNCHANGED <<hour, requested, cached, served>>

(* _ensure_fresh_cache                                                     *)
IsStale == cached # NoBundle => hour - cached.at >= LifeTime

ServeCached ==
  /\ requested = NoBundle /\ ~IsStale
  /\ served' = [version |-> cached.version, at |-> hour, latency |-> cached.at - cached.read]
  /\ UNCHANGED <<hour, bundle, retired, requested, cached>>

(* _refresh_cache: get_secret_value is asked, and AWS reads the bundle.    *)
Request ==
  /\ requested = NoBundle /\ IsStale
  /\ requested' = [version |-> bundle, read |-> hour]
  /\ UNCHANGED <<hour, bundle, retired, cached, served>>

(* The answer arrives.  The cache is dated now, not when it was read, and  *)
(* the secret is returned.                                                 *)
ServeRefreshed ==
  /\ requested # NoBundle
  /\ cached' = [version |-> requested.version, read |-> requested.read, at |-> hour]
  /\ served' = [version |-> requested.version, at |-> hour, latency |-> hour - requested.read]
  /\ requested' = NoBundle
  /\ UNCHANGED <<hour, bundle, retired>>

(* The request fails: get_secret raises, and the old bundle stays cached   *)
(* and no longer serves.                                                   *)
RequestFails ==
  /\ requested # NoBundle
  /\ requested' = NoBundle
  /\ UNCHANGED <<hour, bundle, retired, cached, served>>

(* A new process has no cache.                                             *)
Reopen ==
  /\ requested # NoBundle \/ cached # NoBundle
  /\ requested' = NoBundle /\ cached' = NoBundle
  /\ UNCHANGED <<hour, bundle, retired, served>>

Next == Hour \/ Rotate \/ ServeCached \/ Request \/ ServeRefreshed \/ RequestFails \/ Reopen

Spec == Init /\ [][Next]_bundleVars

-----------------------------------------------------------------------------
(* A rotated secret is served no longer than the cache lives and its       *)
(* request took, whatever fetches fail.                                    *)
RotationsTakeEffect ==
  served # NoBundle =>
    \/ served.version = bundle
    \/ served.at - retired[served.version] < LifeTime + served.latency
=============================================================================
